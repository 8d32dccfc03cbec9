--------------------------- MODULE MCHttpSession ---------------------------
(* Instances of HttpSession: which call is made by which tab.               *)
EXTENDS HttpSession, TLC

CONSTANTS post1, log1, read1, t1, t2

\* One tab: a mutation of the user's and a POST of the remote logger.
OneTab == [c \in Calls |-> t1]

\* Two tabs: the first mutates, the second reads (polls).
TwoTabs == [c \in Calls |-> IF c = read1 THEN t2 ELSE t1]

\* The first session has a refresh token; a later one may come without.
RefreshableInit == Init /\ bare = {}
RefreshableSpec == RefreshableInit /\ [][Next]_vars
=============================================================================
