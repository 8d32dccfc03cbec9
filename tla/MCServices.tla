---------------------------- MODULE MCServices ----------------------------
(* Instances of services that share no state: each behaviour uses one of them *)
(* and leaves the others at rest.                                            *)
EXTENDS MCHttpSession, RemoteCommand, Users, CostMonitoring, CustomImages

VARIABLE part

Parts == {"exchange", "command", "users", "form", "cost", "list", "details"}

\* The users are used twice, for the pool and for the form; so are the custom images,
\* for their list and the dialog, and for details.
UsersPage == part \in {"users", "form"}
Images == part \in {"list", "details"}

ServicesInit ==
  /\ part \in Parts
  /\ Init /\ (part # "exchange" => guests = {} /\ bare = {})
  /\ CommandInit /\ (part # "command" => handler = "sacct" /\ command.parts = 0)
  /\ UsersInit /\ (~UsersPage => accounts.all = {})
  /\ CostInit /\ (part # "cost" => ~explorer /\ tag = "absent" /\ costs.pages = 1)
  /\ ImagesInit

ExchangeStep == part = "exchange" /\ Next
CommandStep == part = "command" /\ CommandNext
UsersStep ==
  /\ UsersPage /\ UsersNext
  /\ part = "users" => form'.valid
  /\ part = "form" => selectedUser' = Nobody /\ accounts.all \subseteq accounts'.all
CostStep == part = "cost" /\ CostNext
ImagesStep ==
  /\ Images /\ ImagesNext
  /\ part = "list" => image' = Nothing
  /\ part = "details" => statusFilter'.stored = Nothing /\ ~build'.dialog

\* What a step of one of them leaves alone.
Rest(p) ==
  /\ UNCHANGED part
  /\ p # "exchange" => UNCHANGED vars
  /\ p # "command" => UNCHANGED commandVars
  /\ p # "users" => UNCHANGED userVars
  /\ p # "cost" => UNCHANGED costVars
  /\ p # "images" => UNCHANGED imageVars

ServicesNext ==
  \/ ExchangeStep /\ Rest("exchange")
  \/ CommandStep /\ Rest("command")
  \/ UsersStep /\ Rest("users")
  \/ CostStep /\ Rest("cost")
  \/ ImagesStep /\ Rest("images")

servicesVars == <<part, vars, commandVars, userVars, costVars, imageVars>>

\* The fairness of FairSpec (HttpSession), CommandSpec and CostSpec, each as long
\* as its part is the one in use.
ServicesSpec ==
  /\ ServicesInit /\ [][ServicesNext]_servicesVars
  /\ \A c \in Calls : WF_servicesVars(part = "exchange" /\ CallStep(c) /\ Rest("exchange"))
  /\ WF_servicesVars(part = "command" /\ Handle /\ Rest("command"))
  /\ WF_servicesVars(part = "command" /\ Tick /\ Rest("command"))
  /\ WF_servicesVars(part = "cost" /\ ReadCosts /\ Rest("cost"))

\* What the services start they bring to an end: a mutation that nothing disturbs, a
\* command whose deadline ends the wait, costs that fit one page.
RequestsAnswered == UndisturbedRuns /\ EveryCommandAnswered /\ OnePageAnswered
=============================================================================
