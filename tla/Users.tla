-------------------------------- MODULE Users --------------------------------
(***************************************************************************)
(* The page of users (frontend/src/old-pages/Users, model.tsx) and the       *)
(* handlers behind it (api/PclusterApiHandler.py): a user is created in two   *)
(* calls to Cognito, several administrators work at once, and the answers of  *)
(* lists, creations and deletions come in any order.                          *)
(*                                                                         *)
(* An account is an address and a number: an address that is created again    *)
(* makes another account (another Username).  A definition named Bug... is a  *)
(* plausible mistake in the one that follows it.                              *)
(***************************************************************************)
EXTENDS Naturals, FiniteSets

CONSTANTS Addresses, Nobody,
          MaxMade,     \* bound: the accounts made of an address
          MaxUserCalls \* bound: requests under way when another is sent

ASSUME UsersAssumption == MaxMade \in Nat \ {0}

VARIABLES accounts,  \* Cognito: the accounts there are, and the admin group
          made,      \* the accounts made of each address so far
          userIndex, \* the store's users.index, Nobody before the first list
          selectedUser, removing,  \* the row selected, the dialog and app.user.delete
          form,      \* AddUserModal and app.users.newUser
          userCalls,
          userPast   \* history

userVars == <<accounts, made, userIndex, selectedUser, removing, form, userCalls, userPast>>

Accounts == Addresses \X (1..MaxMade)
Inputs == Addresses \cup {""}   \* "" for whatever validateUser refuses

-----------------------------------------------------------------------------
(* The page.                                                               *)

UserCall(cmd, who) == [cmd |-> cmd, who |-> who, step |-> "asked", users |-> {}]
CallUsers(cmd, who) ==
  /\ Cardinality(userCalls) < MaxUserCalls
  /\ userCalls' = userCalls \cup {UserCall(cmd, who)}

\* The page mounts, or Refresh is pressed.
ListUsers ==
  /\ CallUsers("list", Nobody)
  /\ UNCHANGED <<accounts, made, userIndex, selectedUser, removing, form, userPast>>

SelectUser(u) ==
  /\ userIndex # Nobody /\ u \in userIndex /\ ~removing.open /\ ~form.open
  /\ selectedUser' = u
  /\ UNCHANGED <<accounts, made, userIndex, removing, form, userCalls, userPast>>

RemoveUser ==
  /\ selectedUser # Nobody /\ ~removing.open /\ ~form.open
  /\ removing' = [open |-> TRUE, who |-> selectedUser]
  /\ UNCHANGED <<accounts, made, userIndex, selectedUser, form, userCalls, userPast>>

KeepUser ==
  /\ removing.open /\ removing' = [removing EXCEPT !.open = FALSE]
  /\ UNCHANGED <<accounts, made, userIndex, selectedUser, form, userCalls, userPast>>

\* deleteUser.
DeleteUser ==
  /\ removing.open
  /\ CallUsers("delete", removing.who)
  /\ removing' = [removing EXCEPT !.open = FALSE]
  /\ UNCHANGED <<accounts, made, userIndex, selectedUser, form, userPast>>

\* AddUserModal shows and hides; what was typed stays.
ShowForm(open) ==
  /\ ~removing.open /\ form' = [form EXCEPT !.open = open]
  /\ UNCHANGED <<accounts, made, userIndex, selectedUser, removing, userCalls, userPast>>

Typed(input) == [form EXCEPT !.username = input, !.valid = TRUE, !.error = FALSE]

\* onUserChange.
TypeUser(input) ==
  /\ form.open /\ form' = Typed(input)
  /\ userPast' = [userPast EXCEPT !.apart = FALSE]
  /\ UNCHANGED <<accounts, made, userIndex, selectedUser, removing, userCalls>>

\* createUser.
CreateUser ==
  /\ form.open
  /\ IF form.username \in Addresses
       THEN /\ CallUsers("create", form.username)
            /\ form' = [form EXCEPT !.valid = TRUE, !.open = FALSE]
            /\ userPast' = [userPast EXCEPT !.apart = @ \/ form.error]
       ELSE /\ form' = [form EXCEPT !.valid = FALSE, !.error = TRUE]
            /\ userPast' = [userPast EXCEPT !.apart = FALSE]
            /\ UNCHANGED userCalls
  /\ UNCHANGED <<accounts, made, userIndex, selectedUser, removing>>

\* The page is left: its own state goes, the store's stays.
LeaveUsers ==
  /\ selectedUser' = Nobody
  /\ form' = [form EXCEPT !.open = FALSE, !.valid = TRUE]
  /\ userPast' = [userPast EXCEPT !.apart = @ \/ form.error]
  /\ UNCHANGED <<accounts, made, userIndex, removing, userCalls>>

-----------------------------------------------------------------------------
(* The api and Cognito.                                                    *)

Step(r, step, users) ==
  userCalls' = (userCalls \ {r}) \cup {[r EXCEPT !.step = step, !.users = users]}
Existing(a) == {u \in accounts.all : u[1] = a}

\* list_users, delete_user and the first call of create_user.
ServeUsers(r) ==
  /\ r.step = "asked"
  /\ CASE r.cmd = "list" ->
            Step(r, "answered", accounts.all) /\ UNCHANGED <<accounts, made>>
       [] r.cmd = "delete" ->
            /\ Step(r, IF r.who \in accounts.all THEN "answered" ELSE "failed", {})
            /\ accounts' = [all |-> accounts.all \ {r.who},
                            admins |-> accounts.admins \ {r.who}]
            /\ UNCHANGED made
       [] r.cmd = "create" ->
            IF Existing(r.who) # {} THEN Step(r, "failed", {}) /\ UNCHANGED <<accounts, made>>
            ELSE LET u == <<r.who, made[r.who] + 1>> IN
                 /\ u \in Accounts
                 /\ made' = [made EXCEPT ![r.who] = @ + 1]
                 /\ accounts' = [accounts EXCEPT !.all = @ \cup {u}]
                 /\ Step(r, "created", {u})
  /\ UNCHANGED <<userIndex, selectedUser, removing, form, userPast>>

\* admin_add_user_to_group names the address; its user may be gone.
Added(r) == Existing(r.who)
AddToGroup(r) ==
  /\ r.step = "created"
  /\ accounts' = [accounts EXCEPT !.admins = @ \cup Added(r)]
  /\ Step(r, IF Added(r) = {} THEN "failed" ELSE "answered", r.users)
  /\ UNCHANGED <<made, userIndex, selectedUser, removing, form, userPast>>

\* A call to Cognito fails, or the answer is lost.
FailUsers(r) ==
  /\ r.step # "failed"
  /\ Step(r, "failed", {})
  /\ userPast' = [userPast EXCEPT !.halfway =
       @ \cup IF r.step = "created" THEN r.users ELSE {}]
  /\ UNCHANGED <<accounts, made, userIndex, selectedUser, removing, form>>

\* Another administrator deletes a user.
OtherDeletes(u) ==
  /\ u \in accounts.all
  /\ accounts' = [all |-> accounts.all \ {u}, admins |-> accounts.admins \ {u}]
  /\ UNCHANGED <<made, userIndex, selectedUser, removing, form, userCalls, userPast>>

-----------------------------------------------------------------------------
(* Answers.                                                                *)

BugErase(u) == userIndex
\* The callback of DeleteUser.
Erase(u) == IF userIndex = Nobody THEN Nobody ELSE userIndex \ {u}

Carried == UNION {r.users : r \in userCalls}
UsersArrive(r) ==
  /\ r.step = "answered"
  /\ userCalls' = userCalls \ {r}
  /\ CASE r.cmd = "list" ->
            userIndex' = r.users /\ UNCHANGED <<selectedUser, form, userPast>>
       [] r.cmd = "delete" ->
            /\ userIndex' = Erase(r.who)
            /\ selectedUser' = Nobody
            /\ userPast' = [userPast EXCEPT !.erased =
                 @ \cup ({r.who} \ Carried)]
            /\ UNCHANGED form
       [] r.cmd = "create" ->
            /\ userIndex' = r.users \cup IF userIndex = Nobody THEN {} ELSE userIndex
            /\ form' = [form EXCEPT !.username = "", !.error = FALSE]
            /\ userPast' = [userPast EXCEPT !.apart = @ \/ ~form.valid]
            /\ UNCHANGED selectedUser
  /\ UNCHANGED <<accounts, made, removing>>

UserFailureArrives(r) ==
  /\ r.step = "failed"
  /\ userCalls' = userCalls \ {r}
  /\ UNCHANGED <<accounts, made, userIndex, selectedUser, removing, form, userPast>>

-----------------------------------------------------------------------------
UsersInit ==
  /\ \E some \in SUBSET Addresses :
       /\ made = [a \in Addresses |-> IF a \in some THEN 1 ELSE 0]
       /\ accounts = [all |-> some \X {1}, admins |-> some \X {1}]
  /\ userIndex = Nobody /\ selectedUser = Nobody
  /\ removing = [open |-> FALSE, who |-> Nobody]
  /\ form = [open |-> FALSE, username |-> "", valid |-> TRUE, error |-> FALSE]
  /\ userCalls = {}
  /\ userPast = [erased |-> {}, halfway |-> {}, apart |-> FALSE]

UsersNext ==
  \/ ListUsers \/ RemoveUser \/ KeepUser \/ DeleteUser \/ CreateUser \/ LeaveUsers
  \/ \E u \in Accounts : SelectUser(u) \/ OtherDeletes(u)
  \/ \E open \in BOOLEAN : ShowForm(open)
  \/ \E input \in Inputs : TypeUser(input)
  \/ \E r \in userCalls : \/ ServeUsers(r) \/ AddToGroup(r) \/ FailUsers(r)
                          \/ UsersArrive(r) \/ UserFailureArrives(r)

UsersSpec == UsersInit /\ [][UsersNext]_userVars

-----------------------------------------------------------------------------
(* Properties.                                                             *)

\* Every variable has its shape.
UsersTypeOK ==
  /\ accounts \in [all : SUBSET Accounts, admins : SUBSET Accounts]
  /\ accounts.admins \subseteq accounts.all /\ made \in [Addresses -> 0..MaxMade]
  /\ userIndex \in {Nobody} \cup SUBSET Accounts
  /\ selectedUser \in {Nobody} \cup Accounts
  /\ removing \in [open : BOOLEAN, who : {Nobody} \cup Accounts]
  /\ form \in [open : BOOLEAN, username : Inputs, valid : BOOLEAN, error : BOOLEAN]
  /\ userCalls \subseteq
       [cmd : {"list"}, who : {Nobody}, step : {"asked", "answered", "failed"},
        users : SUBSET Accounts] \cup
       [cmd : {"delete"}, who : Accounts, step : {"asked", "answered", "failed"},
        users : {{}}] \cup
       [cmd : {"create"}, who : Addresses, step : {"asked", "created", "answered", "failed"},
        users : SUBSET Accounts]

\* Every account is an administrator's, as the page promises, unless the call
\* that adds it to the group is still to come, or create_user failed before it
\* (PclusterApiHandler.py: the account then stays, and cannot be created again).
EveryUserIsAdmin ==
  \A u \in accounts.all \ accounts.admins :
    u \in userPast.halfway \/ \E r \in userCalls : r.step = "created" /\ u \in r.users

\* A user whose deletion was reported does not come back, unless the answer of a
\* list or a creation made before the deletion was still on its way.
DeletedStaysAway == userIndex = Nobody \/ userIndex \cap userPast.erased = {}

\* The form shows its error exactly while its field is marked invalid, though one
\* is the store's and the other the component's, unless the page was left or a
\* user was created since the field was edited.
ErrorMatchesInput == form.error = ~form.valid \/ userPast.apart

\* Pool, list and form agree, but for what create_user left half done and answers
\* that were on their way.
UsersAgree == UsersTypeOK /\ EveryUserIsAdmin /\ DeletedStaysAway /\ ErrorMatchesInput
=============================================================================
