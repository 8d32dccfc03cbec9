---------------------------- MODULE ProtectedApi ----------------------------
(***************************************************************************)
(* What authentication and the csrf exchange promise to the handlers behind  *)
(* them and to the callers in front, with no cookie, tab or request in sight: *)
(* a handler runs at most once for a call, by the authority of a token that   *)
(* has not expired and is an administrator's, tokens are only given to        *)
(* sessions that live, and a caller is never told wrongly whether its call    *)
(* was carried out.  HttpSession implements it.                               *)
(***************************************************************************)
EXTENDS Naturals, Sequences

CONSTANT Calls

VARIABLES opened,   \* the sessions opened so far, numbered from 1
          nonadmins, \* sessions whose user is no administrator
          over,     \* sessions that may get no more tokens
          minted,   \* minted[t]: the session access token t was given to
          lapsed,   \* tokens 1..lapsed have expired
          ran,      \* the calls whose handler ran
          told      \* what each caller knows of its call

vars == <<opened, nonadmins, over, minted, lapsed, ran, told>>

Sessions == 1..opened

Init == /\ opened = 1 /\ minted = <<1>> /\ lapsed = 0
        /\ nonadmins \subseteq {1} /\ over = {} /\ ran = {}
        /\ told = [c \in Calls |-> "nothing"]

Open == /\ opened' = opened + 1
        /\ minted' = Append(minted, opened + 1)
        /\ nonadmins' \in {nonadmins, nonadmins \cup {opened + 1}}
        /\ UNCHANGED <<over, lapsed, ran, told>>

End(s) == /\ over' = over \cup {s}
          /\ UNCHANGED <<opened, nonadmins, minted, lapsed, ran, told>>

Lapse == /\ lapsed < Len(minted)
         /\ lapsed' = lapsed + 1
         /\ UNCHANGED <<opened, nonadmins, over, minted, ran, told>>

\* The server has its one look at a call.  An expired token may be replaced on the
\* way, and the handler runs or not; who was refused is not served later.
Serve(c) == /\ c \notin ran /\ told[c] \in {"nothing", "lost"}
            /\ minted' \in {minted} \cup {Append(minted, s) : s \in Sessions \ over}
            /\ \/ UNCHANGED ran
               \/ /\ \E t \in (lapsed + 1)..Len(minted') : minted'[t] \notin nonadmins
                  /\ ran' = ran \cup {c}
            /\ UNCHANGED <<opened, nonadmins, over, lapsed, told>>

\* A lost answer tells nothing; it may have been carried out.
Tell(c, word) == /\ told[c] = "nothing"
                 /\ word = "done" => c \in ran
                 /\ word = "refused" => c \notin ran
                 /\ told' = [told EXCEPT ![c] = word]
                 /\ UNCHANGED <<opened, nonadmins, over, minted, lapsed, ran>>

Next == \/ Open \/ Lapse
        \/ \E s \in Sessions : End(s)
        \/ \E c \in Calls : \/ Serve(c)
                            \/ \E word \in {"done", "refused", "lost"} : Tell(c, word)

Spec == Init /\ [][Next]_vars
=============================================================================
