----------------------------- MODULE LogDelivery -----------------------------
(***************************************************************************)
(* What the log shipper promises its callers, with no buffer, timer or     *)
(* request in sight: at-least-once delivery of each entry for as long as   *)
(* the page that produced it lives.  RemoteLogger implements it.           *)
(***************************************************************************)
CONSTANTS Entries, Invalid

VARIABLES pending,      \* submitted, not confirmed, page still alive
          written,      \* on the server
          confirmed,    \* known by the page to be on the server
          dropped       \* lost with their page, confirmation outstanding

vars == <<pending, written, confirmed, dropped>>

Init == pending = {} /\ written = {} /\ confirmed = {} /\ dropped = {}

Submit(e) == /\ e \notin pending \cup confirmed \cup dropped
             /\ pending' = pending \cup {e}
             /\ UNCHANGED <<written, confirmed, dropped>>

\* A batch is written whole, possibly again; no batch holds an invalid entry.
Write(batch) == /\ batch \subseteq pending \ Invalid
                /\ written' = written \cup batch
                /\ UNCHANGED <<pending, confirmed, dropped>>

Confirm(batch) == /\ batch \subseteq pending \cap written
                  /\ pending' = pending \ batch
                  /\ confirmed' = confirmed \cup batch
                  /\ UNCHANGED <<written, dropped>>

\* Only the end of the page drops entries; some may still arrive.
EndOfPage(batch) == /\ batch \subseteq pending \ Invalid
                    /\ written' = written \cup batch
                    /\ pending' = {}
                    /\ dropped' = dropped \cup pending
                    /\ UNCHANGED confirmed

Next == \/ \E e \in Entries : Submit(e)
        \/ \E batch \in SUBSET pending : \/ Write(batch)
                                         \/ Confirm(batch)
                                         \/ EndOfPage(batch)

Spec == Init /\ [][Next]_vars
=============================================================================
