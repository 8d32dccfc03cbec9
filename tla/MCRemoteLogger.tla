--------------------------- MODULE MCRemoteLogger ---------------------------
(* Model checking of RemoteLogger.  Its entries are model values, and one of *)
(* them is the one the server's schema rejects.  They are not declared       *)
(* symmetric: the run checks liveness.                                       *)
EXTENDS RemoteLogger, TLC
=============================================================================
