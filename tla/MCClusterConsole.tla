-------------------------- MODULE MCClusterConsole --------------------------
(* Instances of ClusterConsole, one use of the page each, so that the       *)
(* interesting interleavings of one do not multiply those of another:       *)
(* which clusters are visited, which buttons are pressed, whether other     *)
(* clients delete clusters, how many requests fail and Regions are chosen.  *)
(* The clusters exist in both Regions; one's name has the word "region".    *)
EXTENDS ClusterConsole

CONSTANTS plain, hiding, home, away, ConsoleUses

TwoRegions ==
  {[r \in Regions |-> [c \in Clusters |-> IF r = home THEN "running" ELSE "stopped"]]}

UseConsole(visits, dialogs, others, losses, choices) ==
  [visits |-> visits, dialogs |-> dialogs, others |-> others,
   losses |-> losses, choices |-> choices]
AllUses ==
  {UseConsole({plain}, {}, FALSE, 1, 1), UseConsole({plain}, {"delete"}, FALSE, 0, 1),
   UseConsole({plain}, {"stop", "delete"}, TRUE, 0, 0), UseConsole({plain}, {}, TRUE, 1, 0),
   UseConsole({plain, hiding}, {}, FALSE, 0, 1)}

LiveUses == {UseConsole({plain}, {}, FALSE, 0, 1), UseConsole({plain}, {}, TRUE, 1, 0)}

VARIABLE consoleUse

\* With a choice of Region and a deletion or a second cluster, the page itself is not
\* left; with the fleet's and cluster's buttons fewer requests are under way; with a
\* second cluster no fleet is started.
Kept ==
  /\ nav'.url \in consoleUse.visits \cup {None, Elsewhere}
  /\ consoleUse.choices > 0 /\ ("delete" \in consoleUse.dialogs \/ hiding \in consoleUse.visits)
       => nav'.url # Elsewhere
  /\ consoleUse.dialogs # {} => Cardinality(requests') <= 2
  /\ hiding \in consoleUse.visits => \A f \in requests' : f.cmd # "start"
  /\ dialog' \in consoleUse.dialogs \cup {None}
  /\ requests' # requests \/ clouds' = clouds
       \/ (consoleUse.others /\ clouds'[home][plain] # clouds[home][plain])
  /\ failures' <= consoleUse.losses /\ switches' <= consoleUse.choices

MCConsoleInit == /\ ConsoleInit /\ consoleUse \in ConsoleUses
                 /\ nav.url \in consoleUse.visits \cup {None}
MCConsoleNext == ConsoleNext /\ Kept /\ UNCHANGED consoleUse
FairMCSpec == MCConsoleInit /\ [][MCConsoleNext]_<<consoleVars, consoleUse>> /\ Fairness
=============================================================================
