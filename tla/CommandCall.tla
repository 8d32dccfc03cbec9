----------------------------- MODULE CommandCall -----------------------------
(***************************************************************************)
(* What a request that runs a command on a head node promises whoever makes  *)
(* it, with no polling, deadline or log stream in sight: the command runs at  *)
(* most once, the request is answered at most once, and what the answer says  *)
(* of the command is true.  RemoteCommand implements it.                      *)
(***************************************************************************)
EXTENDS Naturals

CONSTANT None  \* no answer yet

VARIABLES node,     \* the command on the head node
          printed,  \* how much the command prints
          reply     \* the answer of the request

vars == <<node, printed, reply>>

\* The answers that tell what a command did, or printed, and those that call it
\* failed or late; "error" says nothing of it.
OfSuccess == {"jobs", "no jobs", "job", "done", "session"}
OfOutput == {"jobs", "job"}
OfFailure == {"timeout", "failed"}
Replies == OfSuccess \cup OfFailure \cup {"error"}

Init == node = "not sent" /\ printed \in Nat /\ reply = None

Run == /\ node = "not sent" /\ reply = None
       /\ node' = "running"
       /\ UNCHANGED <<printed, reply>>

\* The command ends, whether or not anybody still waits.
End == /\ node = "running"
       /\ node' \in {"succeeded", "failed"}
       /\ UNCHANGED <<printed, reply>>

Reply(r) == /\ reply = None
            /\ r \in OfSuccess => node = "succeeded"
            /\ r \in OfOutput => printed > 0
            /\ r \in OfFailure => node # "not sent"
            /\ reply' = r
            /\ UNCHANGED <<node, printed>>

Next == Run \/ End \/ \E r \in Replies : Reply(r)

Spec == Init /\ [][Next]_vars
=============================================================================
