---------------------------- MODULE MCClusterPage ----------------------------
(* The clusters page: its list and selection (ClusterConsole) and the tabs of *)
(* its details (ClusterTabs), one of the two in use in each behaviour.        *)
EXTENDS MCClusterTabs, MCClusterConsole

VARIABLE part

consoleState == <<consoleVars, consoleUse>>
tabsState == <<vars, use>>

PageInit ==
  /\ MCInit /\ MCConsoleInit
  /\ \/ /\ part = "console" /\ use = CHOOSE u \in Uses : TRUE
        /\ \A c \in Clusters : info[c] = CHOOSE i \in use.infos : TRUE
     \/ part = "tabs" /\ nav.url = None /\ consoleUse = CHOOSE u \in ConsoleUses : TRUE

PageNext ==
  \/ part = "console" /\ MCConsoleNext /\ UNCHANGED <<part, tabsState>>
  \/ part = "tabs" /\ MCNext /\ UNCHANGED <<part, consoleState>>

PageSpec == PageInit /\ [][PageNext]_<<part, tabsState, consoleState>>
=============================================================================
