---------------------------- MODULE RemoteLogger ----------------------------
(***************************************************************************)
(* The browser's log shipper: class Logger of                              *)
(* frontend/src/logger/RemoteLogger.ts, and the handler of POST /logs that *)
(* receives what it ships (src/app.py, push_log).                          *)
(*                                                                         *)
(* A call to log() appends to an in-memory buffer.  The buffer is emptied  *)
(* into one POST when it reaches BufferSize entries or when the window     *)
(* timer fires.  The POST is asynchronous: while it is in flight further   *)
(* calls fill the buffer and may start further POSTs.  A POST that fails   *)
(* puts its entries back in front of whatever the buffer holds by then,    *)
(* without arming the timer.                                               *)
(*                                                                         *)
(* An entry stands for one call to log(); its level, message and extra     *)
(* fields only matter for whether the server's schema accepts them, which  *)
(* Invalid records (a message above the schema's 246000 characters).  The  *)
(* variables logged, acked, lost, stored, duplicated and retried are       *)
(* history: no action reads them except to name the next fresh entry.      *)
(*                                                                         *)
(* A definition named Bug... is a plausible mistake in the definition that *)
(* follows it.  No behaviour of Spec uses it; PROJECT.json names the       *)
(* property that notices it.                                               *)
(***************************************************************************)
EXTENDS Naturals, Sequences, Functions

CONSTANTS Entries,      \* the calls to log() of one run
          Invalid,      \* those whose entry the schema of POST /logs rejects
          BufferSize    \* bufferConfig.size

ASSUME InvalidAssumption == Invalid \subseteq Entries
ASSUME BufferSizeAssumption == BufferSize \in Nat \ {0}

VARIABLES buffer,       \* this.logsBuffer
          timeout,      \* TRUE while this.timeout holds a timer
          requests,     \* the POSTs awaited by a flushBuffer call
          logged,       \* entries handed to log()
          acked,        \* entries whose POST resolved
          lost,         \* entries that died with their page
          stored,       \* entries the server has written
          duplicated,   \* entries the server has written more than once
          retried       \* entries put back by a failed POST

vars == <<buffer, timeout, requests, logged, acked, lost, stored, duplicated,
          retried>>

\* A POST in flight: its entries, and whether the server has written them.
Request == [entries : Seq(Entries), handled : BOOLEAN]

InFlight == UNION {Range(r.entries) : r \in requests}

Init == /\ buffer = <<>>
        /\ timeout = FALSE
        /\ requests = {}
        /\ logged = {}
        /\ acked = {}
        /\ lost = {}
        /\ stored = {}
        /\ duplicated = {}
        /\ retried = {}
-----------------------------------------------------------------------------
\* The buffer has reached its size: it is sent without waiting for the timer.
Full(b) == Len(b) >= BufferSize

\* clearTimeout, and this.timeout = setTimeout.
Disarm == timeout' = FALSE
BugArm == UNCHANGED timeout
Arm == timeout' = TRUE

\* The synchronous part of flushBuffer: drop the timer, take every entry.
Take(entries) == buffer' = <<>>
Flush(entries) == /\ Disarm
                  /\ Take(entries)
                  /\ requests' = requests \cup
                                   {[entries |-> entries, handled |-> FALSE]}

LogAndFlush(e) == /\ Full(Append(buffer, e))
                  /\ Flush(Append(buffer, e))

LogAndWait(e) == /\ ~Full(Append(buffer, e))
                 /\ buffer' = Append(buffer, e)
                 /\ Arm
                 /\ UNCHANGED requests

\* One call of info, warning, debug, error or critical.
Log(e) == /\ e \notin logged
          /\ logged' = logged \cup {e}
          /\ LogAndFlush(e) \/ LogAndWait(e)
          /\ UNCHANGED <<acked, lost, stored, duplicated, retried>>

\* The window has passed.
TimerFires == /\ timeout
              /\ Flush(buffer)
              /\ UNCHANGED <<logged, acked, lost, stored, duplicated, retried>>

\* The schema is validated on the whole body before any entry is written.
Accepted(r) == Range(r.entries) \cap Invalid = {}

\* push_log runs: every entry of the body is written.
ServerHandles(r) ==
    /\ ~r.handled
    /\ Accepted(r)
    /\ requests' = (requests \ {r}) \cup {[r EXCEPT !.handled = TRUE]}
    /\ stored' = stored \cup Range(r.entries)
    /\ duplicated' = duplicated \cup (stored \cap Range(r.entries))
    /\ UNCHANGED <<buffer, timeout, logged, acked, lost, retried>>

Settled(r) == requests' = requests \ {r}

\* The awaited POST resolves.
BugAnswered(r) == TRUE
Answered(r) == r.handled
RequestSucceeds(r) ==
    /\ Answered(r)
    /\ Settled(r)
    /\ acked' = acked \cup Range(r.entries)
    /\ UNCHANGED <<buffer, timeout, logged, lost, stored, duplicated, retried>>

\* this.logsBuffer = [...entries, ...this.logsBuffer]
BugRequeueOverwrites(entries) == buffer' = entries
BugRequeueAppends(entries) == buffer' = buffer \o entries
BugRequeueNests(entries) == buffer' = <<entries>> \o buffer
BugRequeueSkipsFirst(entries) == buffer' = Tail(entries) \o buffer
Requeue(entries) == buffer' = entries \o buffer

\* The awaited POST rejects: refused by the server, or the request or its
\* response was lost on the way (handled tells which).
RequestFails(r) ==
    /\ Settled(r)
    /\ Requeue(r.entries)
    /\ retried' = retried \cup Range(r.entries)
    /\ UNCHANGED <<timeout, logged, acked, lost, stored, duplicated>>

\* The page goes away (a redirect to the login page, a reload): the buffer,
\* the timer and the continuations vanish.  A request already on its way may
\* still reach the server.  The next page starts with an empty Logger.
PageUnload ==
    /\ buffer' = <<>>
    /\ timeout' = FALSE
    /\ requests' = {}
    /\ lost' = lost \cup Range(buffer) \cup InFlight
    /\ \E arriving \in SUBSET {r \in requests : ~r.handled /\ Accepted(r)} :
         LET late == UNION {Range(r.entries) : r \in arriving}
         IN  /\ stored' = stored \cup late
             /\ duplicated' = duplicated \cup (stored \cap late)
    /\ UNCHANGED <<logged, acked, retried>>

Next == \/ \E e \in Entries : Log(e)
        \/ TimerFires
        \/ \E r \in requests : \/ ServerHandles(r)
                               \/ RequestSucceeds(r)
                               \/ RequestFails(r)
        \/ PageUnload

Spec == Init /\ [][Next]_vars

\* A timer that was set fires: the one scheduling promise the browser makes.
FairSpec == Spec /\ WF_vars(TimerFires)
-----------------------------------------------------------------------------
\* Type correctness: every variable of the logger keeps its shape.
TypeOK == /\ buffer \in Seq(Entries)
          /\ timeout \in BOOLEAN
          /\ requests \subseteq Request
          /\ logged \subseteq Entries
          /\ acked \subseteq Entries
          /\ lost \subseteq Entries
          /\ stored \subseteq Entries
          /\ duplicated \subseteq Entries
          /\ retried \subseteq Entries

\* Log conservation: as long as the page lives, an entry handed to log() is in
\* the buffer, in a POST in flight, or confirmed; flushBuffer's swap of the
\* buffer and its catch block forget none, whatever overlaps.
NothingForgotten == logged = Range(buffer) \cup InFlight \cup acked \cup lost

\* No entry is in two places: what flushBuffer took is out of the buffer, what
\* came back is out of flight, and neither the buffer nor a batch holds an
\* entry twice.
Distinct(s) == \A i, j \in 1..Len(s) : s[i] = s[j] => i = j
NoRepeats == Distinct(buffer) /\ \A r \in requests : Distinct(r.entries)
Apart == /\ \A r, q \in requests :
              r # q => Range(r.entries) \cap Range(q.entries) = {}
         /\ Range(buffer) \cap (InFlight \cup acked \cup lost) = {}
         /\ InFlight \cap (acked \cup lost) = {}
         /\ acked \cap lost = {}
OnePlace == NoRepeats /\ Apart

\* A confirmed entry is on the server: log() resolves nothing early.
AckedIsStored == acked \subseteq stored

\* At-least-once, and why: the server holds an entry twice only if a POST that
\* carried it was reported as failed to the browser.
DuplicatesOnlyAfterFailure == duplicated \subseteq retried

\* An entry no request has carried yet is never stranded: while one is in the
\* buffer the window timer is armed.  (One that came back from a failed POST
\* may wait without a timer: "Retry failed logs when logging is called again".)
FreshHasTimer == ~timeout => Range(buffer) \subseteq retried

\* The timer never fires on an empty buffer, so no empty POST is sent.
TimerHasWork == /\ timeout => buffer # <<>>
                /\ \A r \in requests : r.entries # <<>>

\* Entries that came back sit in front of the entries logged since.
RetriedFirst == \A i, j \in 1..Len(buffer) :
                  i < j /\ buffer[j] \in retried => buffer[i] \in retried

\* Only failures can make the buffer outgrow its size: of the entries never
\* sent, it holds fewer than BufferSize.
FreshBounded ==
    \A i \in 1..Len(buffer) :
      buffer[i] \notin retried => Len(buffer) - i + 1 < BufferSize

\* Every entry logged is accounted for: it is kept or gone with its page, it is in
\* one place, and a second copy on the server has a failed POST as its cause.
EntriesAccounted == NothingForgotten /\ OnePlace /\ DuplicatesOnlyAfterFailure

\* What is in the buffer fits it: what came back is in front, what is new is within
\* the size and has a timer, and the timer has something to send, however many
\* flushes overlap and fail (log, flushBuffer and its catch).
BufferSound == RetriedFirst /\ FreshBounded /\ FreshHasTimer /\ TimerHasWork

\* Head-of-line blocking: entries that once share a place (the buffer, or one
\* POST) share their fate.  flushBuffer takes the whole buffer and its catch
\* block returns the whole batch, so one entry the schema rejects holds every
\* entry it meets until the page goes away.
Together(x, y) == \/ {x, y} \subseteq Range(buffer)
                  \/ \E r \in requests : {x, y} \subseteq Range(r.entries)
                  \/ {x, y} \subseteq acked
                  \/ {x, y} \subseteq lost
MetStayTogether ==
    [][\A x, y \in Entries : Together(x, y) => Together(x, y)']_vars

\* The log shipper is an at-least-once delivery service: its buffer, timer and
\* retries, under any overlap of requests, implement LogDelivery.
Delivery == INSTANCE LogDelivery
              WITH pending <- Range(buffer) \cup InFlight,
                   written <- stored, confirmed <- acked, dropped <- lost
ImplementsDelivery == Delivery!Spec

\* A fresh entry is carried by some request within the window, without any
\* further call to log(): it leaves the buffer or its page dies.
FreshIsSent ==
    \A e \in Entries :
      (e \in Range(buffer) /\ e \notin retried) ~> e \notin Range(buffer)
=============================================================================
