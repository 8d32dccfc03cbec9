------------------------- MODULE RemoteLogger_proofs -------------------------
(***************************************************************************)
(* Theorems about RemoteLogger, for every set of entries and every buffer  *)
(* size.  The inductive invariant is built up in layers, named below:       *)
(* TypeOK, Located (where an entry is), Delivered (what the server holds),  *)
(* Timed.  Each layer is inductive relative to those before it.            *)
(***************************************************************************)
EXTENDS RemoteLogger, SequenceTheorems, TLAPS

LEMMA RangeEmpty == Range(<<>>) = {}
  BY DEF Range

LEMMA RangeAppend ==
  ASSUME NEW S, NEW s \in Seq(S), NEW e \in S
  PROVE  Range(Append(s, e)) = Range(s) \cup {e}
  <1>1. Range(<<e>>) = {e}
    <2>1. <<e>> \in Seq(S) /\ Len(<<e>>) = 1 /\ <<e>>[1] = e
      OBVIOUS
    <2>2. Range(<<e>>) = {<<e>>[i] : i \in 1..1}
      BY <2>1, RangeEquality
    <2> QED BY <2>1, <2>2
  <1>2. <<e>> \in Seq(S)
    OBVIOUS
  <1>3. Append(s, e) = s \o <<e>>
    BY AppendIsConcat
  <1>4. Range(s \o <<e>>) = Range(s) \cup Range(<<e>>)
    BY <1>2, RangeConcatenation
  <1> QED BY <1>1, <1>3, <1>4
-----------------------------------------------------------------------------
\* Types are preserved by every action.
LEMMA TypeStep == TypeOK /\ [Next]_vars => TypeOK'
  <1> SUFFICES ASSUME TypeOK, [Next]_vars PROVE TypeOK'
    OBVIOUS
  <1> USE EmptySeq DEF TypeOK
  <1>0. \A r \in requests : r.entries \in Seq(Entries) /\ Range(r.entries) \subseteq Entries
    BY RangeOfSeq DEF Request
  <1>1. ASSUME NEW e \in Entries, Log(e) PROVE TypeOK'
    <2>0. Append(buffer, e) \in Seq(Entries)
      BY AppendProperties
    <2>1. CASE LogAndFlush(e)
      <3>1. [entries |-> Append(buffer, e), handled |-> FALSE] \in Request
        BY <2>0 DEF Request
      <3> QED BY <1>1, <2>1, <3>1
              DEF Log, LogAndFlush, Flush, Disarm, Take
    <2>2. CASE LogAndWait(e)
      BY <1>1, <2>0, <2>2 DEF Log, LogAndWait, Arm
    <2> QED BY <1>1, <2>1, <2>2 DEF Log
  <1>2. CASE TimerFires
    <2>1. [entries |-> buffer, handled |-> FALSE] \in Request
      BY DEF Request
    <2> QED BY <1>2, <2>1 DEF TimerFires, Flush, Disarm, Take
  <1>3. ASSUME NEW r \in requests, ServerHandles(r) PROVE TypeOK'
    <2>1. [r EXCEPT !.handled = TRUE] \in Request
      BY DEF Request
    <2> QED BY <1>0, <1>3, <2>1 DEF ServerHandles
  <1>4. ASSUME NEW r \in requests, RequestSucceeds(r) PROVE TypeOK'
    BY <1>0, <1>4 DEF RequestSucceeds, Settled
  <1>5. ASSUME NEW r \in requests, RequestFails(r) PROVE TypeOK'
    <2>1. r.entries \o buffer \in Seq(Entries)
      BY <1>0, ConcatProperties
    <2> QED BY <1>0, <1>5, <2>1 DEF RequestFails, Settled, Requeue
  <1>6. CASE PageUnload
    <2>1. <<>> \in Seq(Entries) /\ InFlight \subseteq Entries
      BY <1>0 DEF InFlight
    <2>2. Range(buffer) \subseteq Entries
      BY RangeOfSeq
    <2>3. PICK arriving \in SUBSET {r \in requests : ~r.handled /\ Accepted(r)} :
            LET late == UNION {Range(r.entries) : r \in arriving}
            IN  /\ stored' = stored \cup late
                /\ duplicated' = duplicated \cup (stored \cap late)
      BY <1>6 DEF PageUnload
    <2>4. UNION {Range(r.entries) : r \in arriving} \subseteq Entries
      BY <1>0
    <2> QED BY <1>6, <2>1, <2>2, <2>3, <2>4 DEF PageUnload
  <1>7. CASE UNCHANGED vars
    BY <1>7 DEF vars
  <1> QED BY <1>1, <1>2, <1>3, <1>4, <1>5, <1>6, <1>7 DEF Next

\* The logger's variables keep their types in every behaviour.
THEOREM TypeCorrect == Spec => []TypeOK
  <1>1. Init => TypeOK
    BY EmptySeq DEF Init, TypeOK
  <1> QED BY <1>1, TypeStep, PTL DEF Spec
-----------------------------------------------------------------------------
\* Where entries are.  Located is inductive: every entry handed to log() is in
\* one place and nothing else is anywhere.
Located == TypeOK /\ NothingForgotten /\ Apart

LEMMA InFlightIs ==
  ASSUME NEW x
  PROVE  x \in InFlight <=> \E r \in requests : x \in Range(r.entries)
  BY DEF InFlight

\* A POST is started: its batch joins what is in flight.
LEMMA FlushMoves ==
  ASSUME NEW b \in Seq(Entries), Flush(b)
  PROVE  /\ Range(buffer') = {}
         /\ InFlight' = InFlight \cup Range(b)
         /\ \A r \in requests' : \/ r \in requests
                                 \/ r.entries = b /\ r.handled = FALSE
         /\ \A r, q \in requests' :
              r # q => r \in requests \/ q \in requests
  <1> DEFINE new == [entries |-> b, handled |-> FALSE]
  <1>1. new.entries = b /\ new.handled = FALSE
    OBVIOUS
  <1>2. requests' = requests \cup {new} /\ buffer' = <<>>
    BY DEF Flush, Take
  <1> HIDE DEF new
  <1> QED BY <1>1, <1>2, RangeEmpty DEF InFlight

\* The server's progress on a POST moves no entry.
LEMMA HandlingMoves ==
  ASSUME TypeOK, NEW r \in requests, ServerHandles(r)
  PROVE  /\ InFlight' = InFlight
         /\ \E h : /\ h.entries = r.entries
                  /\ h.handled = TRUE
                  /\ requests' = (requests \ {r}) \cup {h}
  <1> DEFINE h == [r EXCEPT !.handled = TRUE]
  <1>1. h.entries = r.entries /\ h.handled = TRUE
    BY DEF TypeOK, Request
  <1>2. requests' = (requests \ {r}) \cup {h}
    BY DEF ServerHandles
  <1> HIDE DEF h
  <1>3. InFlight' = InFlight
    BY <1>1, <1>2 DEF InFlight
  <1> QED BY <1>1, <1>2, <1>3

\* A settled POST takes exactly its own batch out of flight.
LEMMA SettlingMoves ==
  ASSUME Apart, NEW r \in requests, Settled(r)
  PROVE  /\ InFlight' = InFlight \ Range(r.entries)
         /\ Range(r.entries) \subseteq InFlight
         /\ requests' \subseteq requests
  BY DEF Apart, Settled, InFlight

LEMMA LocatedStep == Located /\ [Next]_vars => Located'
  <1> SUFFICES ASSUME Located, [Next]_vars PROVE NothingForgotten' /\ Apart'
    BY TypeStep DEF Located
  <1> USE DEF Located, NothingForgotten
  <1>0. /\ buffer \in Seq(Entries)
        /\ \A r \in requests : r.entries \in Seq(Entries)
    BY DEF TypeOK, Request
  <1>1. ASSUME NEW e \in Entries, Log(e) PROVE NothingForgotten' /\ Apart'
    <2>0. /\ Append(buffer, e) \in Seq(Entries)
          /\ Range(Append(buffer, e)) = Range(buffer) \cup {e}
      BY <1>0, RangeAppend, AppendProperties
    <2>1. /\ e \notin Range(buffer) \cup InFlight \cup acked \cup lost
          /\ logged' = logged \cup {e} /\ acked' = acked /\ lost' = lost
      BY <1>1 DEF Log
    <2>2. CASE LogAndFlush(e)
      <3>1. Flush(Append(buffer, e))
        BY <2>2 DEF LogAndFlush
      <3>2. /\ Range(buffer') = {}
            /\ InFlight' = InFlight \cup Range(buffer) \cup {e}
            /\ \A r \in requests' : r \in requests \/ r.entries = Append(buffer, e)
            /\ \A r, q \in requests' : r # q => r \in requests \/ q \in requests
        BY <2>0, <3>1, FlushMoves
      <3>3. \A r \in requests : Range(r.entries) \subseteq InFlight
        BY InFlightIs
      <3>4. \A r, q \in requests' :
              r # q => Range(r.entries) \cap Range(q.entries) = {}
        <4>1. \A r \in requests' :
                r \in requests \/ Range(r.entries) = Range(buffer) \cup {e}
          BY <2>0, <3>2
        <4>2. (Range(buffer) \cup {e}) \cap InFlight = {}
          BY <2>1 DEF Apart
        <4> QED BY <3>2, <3>3, <4>1, <4>2 DEF Apart
      <3> QED BY <2>1, <3>2, <3>4 DEF Apart
    <2>3. CASE LogAndWait(e)
      <3>1. requests' = requests /\ Range(buffer') = Range(buffer) \cup {e}
        BY <2>0, <2>3 DEF LogAndWait
      <3>2. InFlight' = InFlight
        BY <3>1 DEF InFlight
      <3> QED BY <2>1, <3>1, <3>2 DEF Apart
    <2> QED BY <1>1, <2>2, <2>3 DEF Log
  <1>2. CASE TimerFires
    <2>1. Flush(buffer) /\ UNCHANGED <<logged, acked, lost>>
      BY <1>2 DEF TimerFires
    <2>2. /\ Range(buffer') = {}
          /\ InFlight' = InFlight \cup Range(buffer)
          /\ \A r \in requests' : r \in requests \/ r.entries = buffer
          /\ \A r, q \in requests' : r # q => r \in requests \/ q \in requests
      BY <1>0, <2>1, FlushMoves
    <2>3. \A r \in requests : Range(r.entries) \subseteq InFlight
      BY InFlightIs
    <2>4. \A r, q \in requests' :
            r # q => Range(r.entries) \cap Range(q.entries) = {}
      BY <2>2, <2>3 DEF Apart
    <2> QED BY <2>1, <2>2, <2>4 DEF Apart
  <1>3. ASSUME NEW r \in requests, ServerHandles(r)
        PROVE  NothingForgotten' /\ Apart'
    <2>1. InFlight' = InFlight /\ UNCHANGED <<buffer, logged, acked, lost>>
      BY <1>3, HandlingMoves DEF ServerHandles
    <2>2. PICK h : /\ h.entries = r.entries
                   /\ requests' = (requests \ {r}) \cup {h}
      BY <1>3, HandlingMoves
    <2>3. \A p, q \in requests' :
            p # q => Range(p.entries) \cap Range(q.entries) = {}
      BY <2>2 DEF Apart
    <2> QED BY <2>1, <2>3 DEF Apart
  <1>4. ASSUME NEW r \in requests, RequestSucceeds(r)
        PROVE  NothingForgotten' /\ Apart'
    <2>1. /\ InFlight' = InFlight \ Range(r.entries)
          /\ Range(r.entries) \subseteq InFlight
          /\ requests' \subseteq requests
      BY <1>4, SettlingMoves DEF RequestSucceeds
    <2>2. acked' = acked \cup Range(r.entries) /\ UNCHANGED <<buffer, logged, lost>>
      BY <1>4 DEF RequestSucceeds
    <2> QED BY <2>1, <2>2 DEF Apart
  <1>5. ASSUME NEW r \in requests, RequestFails(r)
        PROVE  NothingForgotten' /\ Apart'
    <2>1. /\ InFlight' = InFlight \ Range(r.entries)
          /\ Range(r.entries) \subseteq InFlight
          /\ requests' \subseteq requests
      BY <1>5, SettlingMoves DEF RequestFails
    <2>2. Range(buffer') = Range(r.entries) \cup Range(buffer)
      BY <1>0, <1>5, RangeConcatenation DEF RequestFails, Requeue
    <2>3. UNCHANGED <<logged, acked, lost>>
      BY <1>5 DEF RequestFails
    <2> QED BY <2>1, <2>2, <2>3 DEF Apart
  <1>6. CASE PageUnload
    <2>1. /\ Range(buffer') = {} /\ requests' = {}
          /\ lost' = lost \cup Range(buffer) \cup InFlight
          /\ UNCHANGED <<logged, acked>>
      BY <1>6, RangeEmpty DEF PageUnload
    <2>2. InFlight' = {}
      BY <2>1 DEF InFlight
    <2> QED BY <2>1, <2>2 DEF Apart
  <1>7. CASE UNCHANGED vars
    BY <1>7 DEF vars, Apart, InFlight
  <1> QED BY <1>1, <1>2, <1>3, <1>4, <1>5, <1>6, <1>7 DEF Next

LEMMA LocatedInit == Init => Located
  BY EmptySeq, RangeEmpty
     DEF Init, Located, TypeOK, NothingForgotten, Apart, InFlight

\* flushBuffer and its catch block forget no entry, for any number of entries,
\* any buffer size and any overlap of requests.
THEOREM LogConservation == Spec => []NothingForgotten
  BY LocatedInit, LocatedStep, PTL DEF Spec, Located
-----------------------------------------------------------------------------
\* What the server holds.  The last three conjuncts are the strengthening that
\* makes the first two inductive: an entry the server already holds can only be
\* on its way again if some POST that carried it was reported as failed.
Delivered == /\ AckedIsStored
             /\ DuplicatesOnlyAfterFailure
             /\ stored \cup retried \subseteq logged
             /\ Range(buffer) \cap stored \subseteq retried
             /\ \A r \in requests :
                  IF r.handled THEN Range(r.entries) \subseteq stored
                               ELSE Range(r.entries) \cap stored \subseteq retried

LEMMA DeliveredStep ==
  Located /\ Delivered /\ [Next]_vars => Delivered'
  <1> SUFFICES ASSUME Located, Delivered, [Next]_vars PROVE Delivered'
    OBVIOUS
  <1> USE DEF Delivered, AckedIsStored, DuplicatesOnlyAfterFailure
  <1>0. /\ buffer \in Seq(Entries)
        /\ \A r \in requests : r.entries \in Seq(Entries)
        /\ \A r \in requests : Range(r.entries) \subseteq InFlight
        /\ Range(buffer) \cup InFlight \cup acked \cup lost = logged
    BY InFlightIs DEF Located, NothingForgotten, TypeOK, Request
  <1>1. ASSUME NEW e \in Entries, Log(e) PROVE Delivered'
    <2>0. /\ Append(buffer, e) \in Seq(Entries)
          /\ Range(Append(buffer, e)) = Range(buffer) \cup {e}
      BY <1>0, RangeAppend, AppendProperties
    <2>1. /\ e \notin logged /\ logged' = logged \cup {e}
          /\ UNCHANGED <<acked, stored, duplicated, retried>>
      BY <1>1 DEF Log
    <2>2. CASE LogAndFlush(e)
      <3>1. /\ Range(buffer') = {}
            /\ \A r \in requests' : \/ r \in requests
                                    \/ r.entries = Append(buffer, e) /\ r.handled = FALSE
        BY <2>0, <2>2, FlushMoves DEF LogAndFlush
      <3> QED BY <2>0, <2>1, <3>1
    <2>3. CASE LogAndWait(e)
      BY <2>0, <2>1, <2>3 DEF LogAndWait
    <2> QED BY <1>1, <2>2, <2>3 DEF Log
  <1>2. CASE TimerFires
    <2>1. UNCHANGED <<logged, acked, stored, duplicated, retried>>
      BY <1>2 DEF TimerFires
    <2>2. /\ Range(buffer') = {}
          /\ \A r \in requests' : \/ r \in requests
                                  \/ r.entries = buffer /\ r.handled = FALSE
      BY <1>0, <1>2, FlushMoves DEF TimerFires
    <2> QED BY <2>1, <2>2
  <1>3. ASSUME NEW r \in requests, ServerHandles(r) PROVE Delivered'
    <2>1. /\ ~r.handled
          /\ stored' = stored \cup Range(r.entries)
          /\ duplicated' = duplicated \cup (stored \cap Range(r.entries))
          /\ UNCHANGED <<buffer, logged, acked, retried>>
      BY <1>3 DEF ServerHandles
    <2>2. PICK h : /\ h.entries = r.entries
                   /\ h.handled = TRUE
                   /\ requests' = (requests \ {r}) \cup {h}
      BY <1>3, HandlingMoves DEF Located
    <2>3. /\ \A q \in requests \ {r} : Range(q.entries) \cap Range(r.entries) = {}
          /\ Range(buffer) \cap Range(r.entries) = {}
      BY <1>0 DEF Located, Apart
    <2>4. \A q \in requests' :
            IF q.handled THEN Range(q.entries) \subseteq stored'
                         ELSE Range(q.entries) \cap stored' \subseteq retried'
      BY <2>1, <2>2, <2>3
    <2> QED BY <1>0, <2>1, <2>3, <2>4
  <1>4. ASSUME NEW r \in requests, RequestSucceeds(r) PROVE Delivered'
    BY <1>4 DEF RequestSucceeds, Answered, Settled
  <1>5. ASSUME NEW r \in requests, RequestFails(r) PROVE Delivered'
    <2>1. Range(buffer') = Range(r.entries) \cup Range(buffer)
      BY <1>0, <1>5, RangeConcatenation DEF RequestFails, Requeue
    <2> QED BY <1>0, <1>5, <2>1 DEF RequestFails, Settled
  <1>6. CASE PageUnload
    <2>1. Range(buffer') = {} /\ requests' = {} /\ UNCHANGED <<logged, acked, retried>>
      BY <1>6, RangeEmpty DEF PageUnload
    <2>2. PICK arriving \in SUBSET {r \in requests : ~r.handled /\ Accepted(r)} :
            LET late == UNION {Range(r.entries) : r \in arriving}
            IN  /\ stored' = stored \cup late
                /\ duplicated' = duplicated \cup (stored \cap late)
      BY <1>6 DEF PageUnload
    <2>3. /\ UNION {Range(r.entries) : r \in arriving} \subseteq logged
          /\ (UNION {Range(r.entries) : r \in arriving}) \cap stored \subseteq retried
      BY <1>0
    <2> QED BY <2>1, <2>2, <2>3
  <1>7. CASE UNCHANGED vars
    BY <1>7 DEF vars
  <1> QED BY <1>1, <1>2, <1>3, <1>4, <1>5, <1>6, <1>7 DEF Next

LEMMA DeliveredInit == Init => Delivered
  BY RangeEmpty DEF Init, Delivered, AckedIsStored, DuplicatesOnlyAfterFailure

\* What the browser takes as delivered is on the server.
THEOREM NoEarlyConfirmation == Spec => []AckedIsStored
  BY LocatedInit, LocatedStep, DeliveredInit, DeliveredStep, PTL
     DEF Spec, Delivered

\* The server writes an entry twice only after a POST that carried it was
\* reported as failed.
THEOREM DuplicatesHaveACause == Spec => []DuplicatesOnlyAfterFailure
  BY LocatedInit, LocatedStep, DeliveredInit, DeliveredStep, PTL
     DEF Spec, Delivered
-----------------------------------------------------------------------------
\* The window timer.
Timed == FreshHasTimer /\ TimerHasWork

LEMMA TimedStep == TypeOK /\ Timed /\ [Next]_vars => Timed'
  <1> SUFFICES ASSUME TypeOK, Timed, [Next]_vars PROVE Timed'
    OBVIOUS
  <1> USE DEF Timed, FreshHasTimer, TimerHasWork
  <1>0. /\ buffer \in Seq(Entries)
        /\ \A r \in requests : r.entries \in Seq(Entries)
    BY DEF TypeOK, Request
  <1>1. ASSUME NEW e \in Entries, Log(e) PROVE Timed'
    <2>0. /\ Append(buffer, e) \in Seq(Entries)
          /\ Append(buffer, e) # <<>>
      BY <1>0, AppendProperties
    <2>1. CASE LogAndFlush(e)
      <3>1. /\ Range(buffer') = {} /\ timeout' = FALSE
            /\ \A r \in requests' : r \in requests \/ r.entries = Append(buffer, e)
        BY <2>0, <2>1, FlushMoves DEF LogAndFlush, Flush, Disarm
      <3> QED BY <2>0, <3>1
    <2>2. CASE LogAndWait(e)
      BY <2>0, <2>2 DEF LogAndWait, Arm
    <2> QED BY <1>1, <2>1, <2>2 DEF Log
  <1>2. CASE TimerFires
    <2>1. /\ Range(buffer') = {} /\ timeout' = FALSE
          /\ \A r \in requests' : r \in requests \/ r.entries = buffer
      BY <1>0, <1>2, FlushMoves DEF TimerFires, Flush, Disarm
    <2> QED BY <1>2, <2>1 DEF TimerFires
  <1>3. ASSUME NEW r \in requests, ServerHandles(r) PROVE Timed'
    <2>1. PICK h : /\ h.entries = r.entries
                   /\ requests' = (requests \ {r}) \cup {h}
      BY <1>3, HandlingMoves
    <2> QED BY <1>3, <2>1 DEF ServerHandles
  <1>4. ASSUME NEW r \in requests, RequestSucceeds(r) PROVE Timed'
    BY <1>4 DEF RequestSucceeds, Settled
  <1>5. ASSUME NEW r \in requests, RequestFails(r) PROVE Timed'
    <2>1. Range(buffer') = Range(r.entries) \cup Range(buffer)
      BY <1>0, <1>5, RangeConcatenation DEF RequestFails, Requeue
    <2>2. buffer' # <<>>
      BY <1>0, <1>5, ConcatEqualIffEmpty DEF RequestFails, Requeue
    <2> QED BY <1>5, <2>1, <2>2 DEF RequestFails, Settled
  <1>6. CASE PageUnload
    BY <1>6, RangeEmpty DEF PageUnload
  <1>7. CASE UNCHANGED vars
    BY <1>7 DEF vars
  <1> QED BY <1>1, <1>2, <1>3, <1>4, <1>5, <1>6, <1>7 DEF Next

LEMMA TimedInit == Init => Timed
  BY RangeEmpty DEF Init, Timed, FreshHasTimer, TimerHasWork

\* An entry no request has carried yet always has a timer running for it.
THEOREM NoFreshEntryStranded == Spec => []FreshHasTimer
  <1>1. Init => TypeOK
    BY LocatedInit DEF Located
  <1> QED BY <1>1, TypeStep, TimedInit, TimedStep, PTL DEF Spec, Timed

\* The timer never fires on an empty buffer and no POST is empty.
THEOREM NoEmptyPost == Spec => []TimerHasWork
  <1>1. Init => TypeOK
    BY LocatedInit DEF Located
  <1> QED BY <1>1, TypeStep, TimedInit, TimedStep, PTL DEF Spec, Timed
-----------------------------------------------------------------------------
\* The refinement: a step of the shipper is a step of the delivery service or
\* changes nothing its callers can tell.
LEMMA DeliveryStep ==
  Located /\ Delivered /\ [Next]_vars => [Delivery!Next]_(Delivery!vars)
  <1> SUFFICES ASSUME Located, Delivered, [Next]_vars
               PROVE  [Delivery!Next]_(Delivery!vars)
    OBVIOUS
  <1> DEFINE pending == Range(buffer) \cup InFlight
  <1> USE DEF Delivery!vars
  <1>0. /\ buffer \in Seq(Entries)
        /\ \A r \in requests : r.entries \in Seq(Entries)
        /\ \A r \in requests : Range(r.entries) \subseteq InFlight
        /\ Range(buffer) \cup InFlight \cup acked \cup lost = logged
    BY InFlightIs DEF Located, NothingForgotten, TypeOK, Request
  <1>1. ASSUME NEW e \in Entries, Log(e) PROVE Delivery!Submit(e)
    <2>0. /\ Append(buffer, e) \in Seq(Entries)
          /\ Range(Append(buffer, e)) = Range(buffer) \cup {e}
      BY <1>0, RangeAppend, AppendProperties
    <2>1. /\ e \notin pending \cup acked \cup lost
          /\ UNCHANGED <<acked, stored, lost>>
      BY <1>0, <1>1 DEF Log
    <2>2. CASE LogAndFlush(e)
      <3>1. /\ Range(buffer') = {}
            /\ InFlight' = InFlight \cup Range(buffer) \cup {e}
        BY <2>0, <2>2, FlushMoves DEF LogAndFlush
      <3> QED BY <2>1, <3>1 DEF Delivery!Submit
    <2>3. CASE LogAndWait(e)
      <3>1. InFlight' = InFlight /\ Range(buffer') = Range(buffer) \cup {e}
        BY <2>0, <2>3 DEF LogAndWait, InFlight
      <3> QED BY <2>1, <3>1 DEF Delivery!Submit
    <2> QED BY <1>1, <2>2, <2>3 DEF Log
  <1>2. CASE TimerFires
    <2>1. Range(buffer') = {} /\ InFlight' = InFlight \cup Range(buffer)
      BY <1>0, <1>2, FlushMoves DEF TimerFires
    <2> QED BY <1>2, <2>1 DEF TimerFires
  <1>3. ASSUME NEW r \in requests, ServerHandles(r)
        PROVE  Delivery!Write(Range(r.entries)) /\ Range(r.entries) \subseteq pending
    <2>1. InFlight' = InFlight /\ Range(r.entries) \cap Invalid = {}
      BY <1>3, HandlingMoves DEF Located, ServerHandles, Accepted
    <2> QED BY <1>0, <1>3, <2>1 DEF ServerHandles, Delivery!Write
  <1>4. ASSUME NEW r \in requests, RequestSucceeds(r)
        PROVE  Delivery!Confirm(Range(r.entries)) /\ Range(r.entries) \subseteq pending
    <2>1. /\ InFlight' = InFlight \ Range(r.entries)
          /\ Range(r.entries) \subseteq InFlight
          /\ Range(r.entries) \cap Range(buffer) = {}
      BY <1>4, SettlingMoves DEF RequestSucceeds, Located, Apart
    <2>2. Range(r.entries) \subseteq stored
      BY <1>4 DEF Delivered, RequestSucceeds, Answered
    <2> QED BY <1>4, <2>1, <2>2 DEF RequestSucceeds, Delivery!Confirm
  <1>5. ASSUME NEW r \in requests, RequestFails(r) PROVE UNCHANGED Delivery!vars
    <2>1. /\ InFlight' = InFlight \ Range(r.entries)
          /\ Range(r.entries) \subseteq InFlight
      BY <1>5, SettlingMoves DEF RequestFails, Located
    <2>2. Range(buffer') = Range(r.entries) \cup Range(buffer)
      BY <1>0, <1>5, RangeConcatenation DEF RequestFails, Requeue
    <2> QED BY <1>5, <2>1, <2>2 DEF RequestFails
  <1>6. CASE PageUnload
    <2>1. /\ Range(buffer') = {} /\ requests' = {} /\ UNCHANGED acked
          /\ lost' = lost \cup pending
      BY <1>6, RangeEmpty DEF PageUnload
    <2>2. InFlight' = {}
      BY <2>1 DEF InFlight
    <2>3. PICK arriving \in SUBSET {r \in requests : ~r.handled /\ Accepted(r)} :
            LET late == UNION {Range(r.entries) : r \in arriving}
            IN  /\ stored' = stored \cup late
                /\ duplicated' = duplicated \cup (stored \cap late)
      BY <1>6 DEF PageUnload
    <2> DEFINE late == UNION {Range(r.entries) : r \in arriving}
    <2>4. late \subseteq pending /\ late \cap Invalid = {}
      BY <1>0 DEF Accepted
    <2>5. stored' = stored \cup late
      BY <2>3
    <2> HIDE DEF late
    <2>6. Delivery!EndOfPage(late)
      BY <2>1, <2>2, <2>4, <2>5 DEF Delivery!EndOfPage
    <2> QED BY <2>4, <2>6 DEF Delivery!Next
  <1>7. CASE UNCHANGED vars
    BY <1>7 DEF vars, InFlight
  <1> QED BY <1>1, <1>2, <1>3, <1>4, <1>5, <1>6, <1>7 DEF Next, Delivery!Next

\* The log shipper implements at-least-once delivery.
THEOREM LoggerImplementsDelivery == Spec => ImplementsDelivery
  <1>1. Init => Delivery!Init
    BY RangeEmpty DEF Init, Delivery!Init, InFlight
  <1> QED BY <1>1, LocatedInit, LocatedStep, DeliveredInit, DeliveredStep,
             DeliveryStep, PTL DEF Spec, Delivery!Spec, ImplementsDelivery
-----------------------------------------------------------------------------
\* No entry twice in one batch.
LEMMA DistinctAppend ==
  ASSUME NEW S, NEW s \in Seq(S), NEW e \in S, Distinct(s), e \notin Range(s)
  PROVE  Distinct(Append(s, e))
  <1> DEFINE t == Append(s, e)
  <1>1. /\ Len(t) = Len(s) + 1 /\ Len(s) \in Nat
        /\ \A i \in 1..Len(s) : t[i] = s[i]
        /\ t[Len(s) + 1] = e
    BY AppendProperties
  <1>2. \A i \in 1..Len(s) : s[i] # e
    BY RangeEquality
  <1> HIDE DEF t
  <1>3. Distinct(t)
    BY <1>1, <1>2 DEF Distinct
  <1> QED BY <1>3 DEF t

LEMMA DistinctConcat ==
  ASSUME NEW S, NEW s \in Seq(S), NEW t \in Seq(S), Distinct(s), Distinct(t),
         Range(s) \cap Range(t) = {}
  PROVE  Distinct(s \o t)
  <1> DEFINE u == s \o t
  <1>1. /\ Len(u) = Len(s) + Len(t) /\ Len(s) \in Nat /\ Len(t) \in Nat
        /\ \A i \in 1..(Len(s) + Len(t)) :
             u[i] = IF i <= Len(s) THEN s[i] ELSE t[i - Len(s)]
    BY ConcatProperties
  <1>2. \A i \in 1..Len(s), j \in 1..Len(t) : s[i] # t[j]
    <2>1. /\ Range(s) = {s[i] : i \in 1..Len(s)}
          /\ Range(t) = {t[i] : i \in 1..Len(t)}
      BY RangeEquality
    <2>2. \A i \in 1..Len(s), j \in 1..Len(t) : s[i] \in Range(s) /\ t[j] \in Range(t)
      BY <2>1
    <2> QED BY <2>2
  <1> HIDE DEF u
  <1>3. ASSUME NEW i \in 1..Len(u), NEW j \in 1..Len(u), u[i] = u[j]
        PROVE  i = j
    <2>1. CASE i <= Len(s) /\ j <= Len(s)
      BY <1>1, <1>3, <2>1 DEF Distinct
    <2>2. CASE i <= Len(s) /\ j > Len(s)
      <3>1. i \in 1..Len(s) /\ j - Len(s) \in 1..Len(t)
        BY <1>1, <2>2
      <3> QED BY <1>1, <1>2, <1>3, <2>2, <3>1
    <2>3. CASE i > Len(s) /\ j <= Len(s)
      <3>1. j \in 1..Len(s) /\ i - Len(s) \in 1..Len(t)
        BY <1>1, <2>3
      <3> QED BY <1>1, <1>2, <1>3, <2>3, <3>1
    <2>4. CASE i > Len(s) /\ j > Len(s)
      <3>1. i - Len(s) \in 1..Len(t) /\ j - Len(s) \in 1..Len(t)
        BY <1>1, <2>4
      <3>2. t[i - Len(s)] = t[j - Len(s)]
        BY <1>1, <1>3, <2>4
      <3>3. i - Len(s) = j - Len(s)
        BY <3>1, <3>2 DEF Distinct
      <3> QED BY <1>1, <3>3
    <2> QED BY <1>1, <2>1, <2>2, <2>3, <2>4
  <1> QED BY <1>3 DEF Distinct, u

LEMMA NoRepeatsStep == Located /\ NoRepeats /\ [Next]_vars => NoRepeats'
  <1> SUFFICES ASSUME Located, NoRepeats, [Next]_vars PROVE NoRepeats'
    OBVIOUS
  <1> USE DEF NoRepeats
  <1>0. /\ buffer \in Seq(Entries)
        /\ \A r \in requests : r.entries \in Seq(Entries)
        /\ \A r \in requests : Range(r.entries) \subseteq InFlight
        /\ Range(buffer) \subseteq logged
    BY InFlightIs DEF Located, NothingForgotten, TypeOK, Request
  <1>00. Distinct(<<>>)
    BY DEF Distinct
  <1>1. ASSUME NEW e \in Entries, Log(e) PROVE NoRepeats'
    <2>0. Append(buffer, e) \in Seq(Entries) /\ Distinct(Append(buffer, e))
      BY <1>0, <1>1, DistinctAppend, AppendProperties DEF Log
    <2>1. CASE LogAndFlush(e)
      <3>1. /\ buffer' = <<>>
            /\ \A r \in requests' : r \in requests \/ r.entries = Append(buffer, e)
        BY <2>0, <2>1, FlushMoves DEF LogAndFlush, Flush, Take
      <3> QED BY <1>00, <2>0, <3>1
    <2>2. CASE LogAndWait(e)
      BY <2>0, <2>2 DEF LogAndWait
    <2> QED BY <1>1, <2>1, <2>2 DEF Log
  <1>2. CASE TimerFires
    <2>1. /\ buffer' = <<>>
          /\ \A r \in requests' : r \in requests \/ r.entries = buffer
      BY <1>0, <1>2, FlushMoves DEF TimerFires, Flush, Take
    <2> QED BY <1>00, <2>1
  <1>3. ASSUME NEW r \in requests, ServerHandles(r) PROVE NoRepeats'
    <2>1. PICK h : /\ h.entries = r.entries
                   /\ requests' = (requests \ {r}) \cup {h}
      BY <1>3, HandlingMoves DEF Located
    <2> QED BY <1>3, <2>1 DEF ServerHandles
  <1>4. ASSUME NEW r \in requests, RequestSucceeds(r) PROVE NoRepeats'
    BY <1>4 DEF RequestSucceeds, Settled
  <1>5. ASSUME NEW r \in requests, RequestFails(r) PROVE NoRepeats'
    <2>1. Range(r.entries) \cap Range(buffer) = {}
      BY <1>0 DEF Located, Apart
    <2>2. Distinct(r.entries \o buffer)
      BY <1>0, <2>1, DistinctConcat
    <2> QED BY <1>5, <2>2 DEF RequestFails, Settled, Requeue
  <1>6. CASE PageUnload
    BY <1>00, <1>6 DEF PageUnload
  <1>7. CASE UNCHANGED vars
    BY <1>7 DEF vars
  <1> QED BY <1>1, <1>2, <1>3, <1>4, <1>5, <1>6, <1>7 DEF Next

\* No entry is ever in two places, nor twice in one.
THEOREM EntriesInOnePlace == Spec => []OnePlace
  <1>1. Init => NoRepeats
    BY DEF Init, NoRepeats, Distinct
  <1> QED BY <1>1, LocatedInit, LocatedStep, NoRepeatsStep, PTL
          DEF Spec, Located, OnePlace

\* Nothing that was logged is forgotten, doubled in the page, or stored twice
\* unless a request that carried it failed.
THEOREM EntriesAreAccounted == Spec => []EntriesAccounted
  BY LogConservation, EntriesInOnePlace, DuplicatesHaveACause, PTL
     DEF EntriesAccounted
-----------------------------------------------------------------------------
\* What came back is in front, and what is fresh fits the size.
Ordered == RetriedFirst /\ FreshBounded

LEMMA OrderedStep == Located /\ Delivered /\ Ordered /\ [Next]_vars => Ordered'
  <1> SUFFICES ASSUME Located, Delivered, Ordered, [Next]_vars PROVE Ordered'
    OBVIOUS
  <1> USE DEF Ordered, RetriedFirst, FreshBounded
  <1>0. /\ buffer \in Seq(Entries)
        /\ \A r \in requests : r.entries \in Seq(Entries)
        /\ \A r \in requests : Range(r.entries) \subseteq InFlight
        /\ retried \subseteq logged
        /\ BufferSize \in Nat
    BY InFlightIs, BufferSizeAssumption
       DEF Located, NothingForgotten, TypeOK, Request, Delivered
  <1>00. Len(<<>>) = 0
    OBVIOUS
  <1>1. ASSUME NEW e \in Entries, Log(e) PROVE Ordered'
    <2>1. CASE LogAndFlush(e)
      BY <1>00, <1>1, <2>1 DEF Log, LogAndFlush, Flush, Take
    <2>2. CASE LogAndWait(e)
      <3>1. /\ Len(buffer') = Len(buffer) + 1
            /\ \A i \in 1..Len(buffer) : buffer'[i] = buffer[i]
            /\ buffer'[Len(buffer) + 1] = e
        BY <1>0, <2>2, AppendProperties DEF LogAndWait
      <3>2. e \notin retried /\ retried' = retried
        BY <1>0, <1>1 DEF Log
      <3>3. Len(buffer') < BufferSize
        BY <1>0, <2>2, <3>1 DEF LogAndWait, Full
      <3>4. Len(buffer) \in Nat
        BY <1>0
      <3> QED BY <1>0, <3>1, <3>2, <3>3, <3>4
    <2> QED BY <1>1, <2>1, <2>2 DEF Log
  <1>2. CASE TimerFires
    BY <1>00, <1>2 DEF TimerFires, Flush, Take
  <1>3. ASSUME NEW r \in requests, ServerHandles(r) PROVE Ordered'
    BY <1>3 DEF ServerHandles
  <1>4. ASSUME NEW r \in requests, RequestSucceeds(r) PROVE Ordered'
    BY <1>4 DEF RequestSucceeds
  <1>5. ASSUME NEW r \in requests, RequestFails(r) PROVE Ordered'
    <2> DEFINE s == r.entries
               n == Len(r.entries)
    <2>1. /\ n \in Nat /\ Len(buffer) \in Nat
          /\ Len(buffer') = n + Len(buffer)
          /\ \A i \in 1..(n + Len(buffer)) :
               buffer'[i] = IF i <= n THEN s[i] ELSE buffer[i - n]
      BY <1>0, <1>5, ConcatProperties DEF RequestFails, Requeue
    <2>2. retried' = retried \cup Range(s)
      BY <1>5 DEF RequestFails
    <2>3. /\ \A i \in 1..n : s[i] \in Range(s)
          /\ \A i \in 1..Len(buffer) : buffer[i] \notin Range(s)
      <3>1. /\ Range(s) = {s[i] : i \in 1..n}
            /\ Range(buffer) = {buffer[i] : i \in 1..Len(buffer)}
        BY <1>0, RangeEquality
      <3>2. Range(s) \cap Range(buffer) = {}
        BY <1>0 DEF Located, Apart
      <3> QED BY <3>1, <3>2
    <2> HIDE DEF s, n
    <2>4. \A i \in 1..Len(buffer') :
            \/ i <= n /\ buffer'[i] \in retried'
            \/ /\ i - n \in 1..Len(buffer)
               /\ buffer'[i] = buffer[i - n]
               /\ buffer[i - n] \in retried' <=> buffer[i - n] \in retried
      BY <2>1, <2>2, <2>3
    <2>5. RetriedFirst'
      <3>1. SUFFICES ASSUME NEW i \in 1..Len(buffer'), NEW j \in 1..Len(buffer'),
                            i < j, buffer'[j] \in retried', ~(i <= n)
                     PROVE  buffer'[i] \in retried'
        BY <2>1, <2>4
      <3>2. ~(j <= n)
        BY <2>1, <3>1
      <3>3. /\ i - n \in 1..Len(buffer) /\ j - n \in 1..Len(buffer)
            /\ buffer[j - n] \in retried
        BY <2>4, <3>1, <3>2
      <3>4. i - n < j - n
        BY <2>1, <3>1
      <3>5. buffer[i - n] \in retried
        BY <3>3, <3>4
      <3> QED BY <2>4, <3>1, <3>5
    <2>6. FreshBounded'
      <3>1. SUFFICES ASSUME NEW i \in 1..Len(buffer'), buffer'[i] \notin retried'
                     PROVE  Len(buffer') - i + 1 < BufferSize
        OBVIOUS
      <3>2. /\ i - n \in 1..Len(buffer)
            /\ buffer[i - n] \notin retried
        BY <2>4, <3>1
      <3>3. Len(buffer) - (i - n) + 1 < BufferSize
        BY <3>2
      <3> QED BY <1>0, <2>1, <3>3
    <2> QED BY <2>5, <2>6
  <1>6. CASE PageUnload
    BY <1>00, <1>6 DEF PageUnload
  <1>7. CASE UNCHANGED vars
    BY <1>7 DEF vars
  <1> QED BY <1>1, <1>2, <1>3, <1>4, <1>5, <1>6, <1>7 DEF Next

\* Whatever overlaps and fails, the buffer holds what came back in front, fewer
\* fresh entries than its size, a timer for them, and the timer has work.
THEOREM BufferStaysSound == Spec => []BufferSound
  <1>1. Init => Ordered
    BY DEF Init, Ordered, RetriedFirst, FreshBounded
  <1> QED BY <1>1, LocatedInit, LocatedStep, DeliveredInit, DeliveredStep,
             OrderedStep, NoFreshEntryStranded, NoEmptyPost, PTL
          DEF Spec, Ordered, BufferSound
-----------------------------------------------------------------------------
\* Two entries that share a place share the next one: every step moves a place's
\* entries as a whole, or adds to it.
LEMMA TogetherStep ==
  ASSUME TypeOK, [Next]_vars, NEW x \in Entries, NEW y \in Entries, Together(x, y)
  PROVE  Together(x, y)'
  <1> DEFINE Both(S) == x \in S /\ y \in S
  <1>0. /\ buffer \in Seq(Entries)
        /\ \A r \in requests : r.entries \in Seq(Entries)
    BY DEF TypeOK, Request
  <1>a. \/ Both(Range(buffer))
        \/ \E r \in requests : Both(Range(r.entries))
        \/ Both(acked)
        \/ Both(lost)
    BY DEF Together
  <1>b. ASSUME \/ Both(Range(buffer'))
               \/ \E r \in requests' : Both(Range(r.entries))
               \/ Both(acked')
               \/ Both(lost')
        PROVE  Together(x, y)'
    BY <1>b DEF Together
  <1>c. ASSUME NEW b \in Seq(Entries), Flush(b), UNCHANGED <<acked, lost>>,
               Range(buffer) \subseteq Range(b)
        PROVE  Together(x, y)'
    <2> DEFINE new == [entries |-> b, handled |-> FALSE]
    <2>1. new.entries = b
      OBVIOUS
    <2>2. requests' = requests \cup {new} /\ UNCHANGED <<acked, lost>>
      BY <1>c DEF Flush
    <2> HIDE DEF new
    <2> QED BY <1>a, <1>b, <1>c, <2>1, <2>2
  <1>1. ASSUME NEW e \in Entries, Log(e) PROVE Together(x, y)'
    <2>0. /\ Append(buffer, e) \in Seq(Entries)
          /\ Range(Append(buffer, e)) = Range(buffer) \cup {e}
      BY <1>0, RangeAppend, AppendProperties
    <2>1. CASE LogAndFlush(e)
      BY <1>1, <1>c, <2>0, <2>1 DEF Log, LogAndFlush
    <2>2. CASE LogAndWait(e)
      BY <1>1, <1>a, <1>b, <2>0, <2>2 DEF Log, LogAndWait
    <2> QED BY <1>1, <2>1, <2>2 DEF Log
  <1>2. CASE TimerFires
    BY <1>0, <1>2, <1>c DEF TimerFires
  <1>3. ASSUME NEW r \in requests, ServerHandles(r) PROVE Together(x, y)'
    <2>1. PICK h : /\ h.entries = r.entries
                   /\ requests' = (requests \ {r}) \cup {h}
      BY <1>3, HandlingMoves
    <2>2. UNCHANGED <<buffer, acked, lost>>
      BY <1>3 DEF ServerHandles
    <2> QED BY <1>a, <1>b, <2>1, <2>2
  <1>4. ASSUME NEW r \in requests, RequestSucceeds(r) PROVE Together(x, y)'
    BY <1>4, <1>a, <1>b DEF RequestSucceeds, Settled
  <1>5. ASSUME NEW r \in requests, RequestFails(r) PROVE Together(x, y)'
    <2>1. Range(buffer') = Range(r.entries) \cup Range(buffer)
      BY <1>0, <1>5, RangeConcatenation DEF RequestFails, Requeue
    <2> QED BY <1>5, <1>a, <1>b, <2>1 DEF RequestFails, Settled
  <1>6. CASE PageUnload
    <2>1. /\ acked' = acked
          /\ lost' = lost \cup Range(buffer) \cup InFlight
      BY <1>6 DEF PageUnload
    <2> QED BY <1>a, <1>b, <2>1, InFlightIs
  <1>7. CASE UNCHANGED vars
    BY <1>7, <1>a, <1>b DEF vars
  <1> QED BY <1>1, <1>2, <1>3, <1>4, <1>5, <1>6, <1>7 DEF Next

\* Entries that once shared the buffer or a POST are confirmed together or lost
\* together: flushBuffer and its catch block never part them, so one entry the
\* schema rejects holds back all it has met.
THEOREM MetNeverPart == Spec => MetStayTogether
  <1>1. TypeOK /\ [Next]_vars =>
          [\A x, y \in Entries : Together(x, y) => Together(x, y)']_vars
    BY TogetherStep
  <1> QED BY <1>1, TypeCorrect, PTL DEF Spec, MetStayTogether
=============================================================================
