-------------------------- MODULE Services_proofs --------------------------
(***************************************************************************)
(* Theorems about the services behind the smaller pages, each about its own  *)
(* specification, for any constants of it: remote commands and their outputs, *)
(* the users, cost monitoring and the custom images.                          *)
(***************************************************************************)
EXTENDS RemoteCommand, Users, CostMonitoring, CustomImages, TLAPS

-----------------------------------------------------------------------------
(***************************************************************************)
(* Theorems about RemoteCommand, for outputs of any length: every answer   *)
(* that is not the output of the command has its cause.                    *)
(*                                                                         *)
(* The properties speak of the end of a request; the invariant says what   *)
(* is true on the way there: what the handler knows at each stage, and how *)
(* much of the output there can be.                                        *)
(***************************************************************************)

\* The history is a record of booleans, and only the end has an answer.
Noted == past \in [late : BOOLEAN, unread : BOOLEAN, undelivered : BOOLEAN,
                   undeleted : BOOLEAN]
Unanswered == stage # "done" => result = None
Shape == CommandTypeOK /\ Noted /\ Unanswered

\* No more is delivered than there is; until the end a stream exists from its
\* first part on, and get_dcv_session has none at all.
Streamed == /\ stream.parts <= command.parts
            /\ stage # "done" => (stream.exists <=> stream.parts > 0)
            /\ ~Logged => ~stream.exists

\* The wait ends with a status other than InProgress or with the deadline, and
\* only a command that succeeded has its output read.
Waited == /\ stage = "check" /\ elapsed = "before" => status # "InProgress"
          /\ stage = "read" => Logged

Causes == NoJobsHasCause /\ FailureHasCause /\ StreamsAreDeleted
CommandInv == Shape /\ Streamed /\ Waited /\ Causes

LEMMA BoundIsNat == MaxParts \in Nat
  BY CommandAssumption

LEMMA Counts ==
  CommandTypeOK => /\ stream.parts \in Nat /\ command.parts \in Nat /\ output \in Nat
                   /\ output <= stream.parts /\ command.parts <= MaxParts
  BY BoundIsNat DEF CommandTypeOK

\* A delivery adds one part, and what the history holds stays in it.
LEMMA Delivered ==
  ASSUME CommandTypeOK, Noted, Deliver
  PROVE  /\ stream'.parts = stream.parts + 1 /\ stream.parts < command.parts
         /\ stream'.exists
         /\ past'.unread = past.unread /\ past'.undelivered = past.undelivered
         /\ past'.undeleted = past.undeleted
         /\ past'.late = (past.late \/ stage \in {"read", "done"})
  <1>1. /\ stream'.parts = stream.parts + 1 /\ stream.parts < command.parts
        /\ stream'.exists
    BY DEF CommandTypeOK, Deliver
  <1>2. /\ past'.unread = past.unread /\ past'.undelivered = past.undelivered
        /\ past'.undeleted = past.undeleted
    BY DEF Noted, Deliver
  <1>3. past'.late = (past.late \/ stage \in {"read", "done"})
    BY DEF Noted, Deliver
  <1> QED BY <1>1, <1>2, <1>3

LEMMA Zero == \A m, n \in Nat : ~(n > 0) => n = 0 /\ (m = 0 \/ n < m)
  OBVIOUS

LEMMA CommandInvInit == CommandInit => CommandInv
  <1> SUFFICES ASSUME CommandInit PROVE CommandInv
    OBVIOUS
  <1>1. CommandTypeOK
    <2>1. stream \in [parts : 0..MaxParts, exists : BOOLEAN]
      BY BoundIsNat DEF CommandInit
    <2>2. stream.parts = 0
      BY DEF CommandInit
    <2> QED BY <2>1, <2>2 DEF CommandInit, CommandTypeOK
  <1>2. Noted /\ Unanswered
    BY DEF CommandInit, Noted, Unanswered
  <1>3. Streamed /\ Waited
    <2>1. command.parts \in Nat /\ stream.parts = 0 /\ ~stream.exists
      BY BoundIsNat DEF CommandInit
    <2>2. Streamed
      BY <2>1 DEF Streamed
    <2> QED BY <2>2 DEF CommandInit, Waited
  <1>4. Causes
    BY CommandAssumption DEF CommandInit, Causes, NoJobsHasCause,
       FailureHasCause, StreamsAreDeleted
  <1> QED BY <1>1, <1>2, <1>3, <1>4 DEF CommandInv, Shape

LEMMA CommandTypeOKStep == CommandTypeOK /\ Streamed /\ [CommandNext]_commandVars => CommandTypeOK'
  <1> SUFFICES ASSUME CommandTypeOK, Streamed, [CommandNext]_commandVars PROVE CommandTypeOK'
    OBVIOUS
  <1>c. /\ stream.parts \in Nat /\ command.parts \in Nat /\ output \in Nat
        /\ output <= stream.parts /\ command.parts <= MaxParts
    BY Counts
  <1>d. Deliver => stream'.parts = stream.parts + 1 /\ stream.parts < command.parts
    BY DEF Deliver
  <1>e. Deliver => stream'.parts \in 0..MaxParts /\ output \in 0..stream'.parts
    BY BoundIsNat, <1>c, <1>d
  <1>f. ReadPage => output' \in 0..stream.parts
    BY <1>c DEF ReadPage, Read
  <1> USE CommandAssumption DEF CommandTypeOK
  <1>1. CASE Progress
    BY <1>1 DEF Progress
  <1>2. CASE Deliver
    <2>1. stream' \in [parts : 0..MaxParts, exists : BOOLEAN]
      BY <1>e, <1>2 DEF Deliver
    <2> QED BY <1>2, <1>e, <2>1 DEF Deliver
  <1>3. CASE Tick
    BY <1>3 DEF Tick
  <1>4. CASE SendCommand
    BY <1>4 DEF SendCommand, Finish, Results
  <1>11. CASE LearnCommandId
    BY <1>11 DEF LearnCommandId, Finish, Results
  <1>5. CASE Wake
    BY <1>5 DEF Wake
  <1>6. CASE Poll
    BY <1>6 DEF Poll, Finish, Results
  <1>7. CASE Check
    BY <1>7 DEF Check, Finish, Results
  <1>8. CASE ReadPage
    BY <1>8, <1>f DEF ReadPage
  <1>9. CASE EndRead
    <2>1. Answer \subseteq Results
      BY DEF Answer, Results
    <2> QED BY <1>9, <2>1 DEF EndRead, Finish
  <1>10. CASE UNCHANGED commandVars
    BY <1>10 DEF commandVars
  <1> QED BY <1>1, <1>2, <1>3, <1>4, <1>5, <1>6, <1>7, <1>8, <1>9, <1>10, <1>11
          DEF CommandNext, Handle

LEMMA NotedStep == CommandTypeOK /\ Noted /\ [CommandNext]_commandVars => Noted'
  <1> SUFFICES ASSUME CommandTypeOK, Noted, [CommandNext]_commandVars PROVE Noted'
    OBVIOUS
  <1> USE DEF Noted
  <1>1. CASE Progress
    BY <1>1 DEF Progress
  <1>2. CASE Deliver
    BY <1>2 DEF Deliver
  <1>3. CASE Tick
    BY <1>3 DEF Tick
  <1>4. CASE SendCommand
    BY <1>4 DEF SendCommand, Finish
  <1>11. CASE LearnCommandId
    BY <1>11 DEF LearnCommandId, Finish
  <1>5. CASE Wake
    BY <1>5 DEF Wake
  <1>6. CASE Poll
    BY <1>6 DEF Poll, Finish
  <1>7. CASE Check
    BY <1>7 DEF Check, Finish, Succeeded
  <1>8. CASE ReadPage
    BY <1>8 DEF ReadPage
  <1>9. CASE EndRead
    <2>1. PICK failed \in BOOLEAN, kept \in BOOLEAN :
            past' = [past EXCEPT !.unread = failed /\ stream.exists,
                                 !.undelivered = stream.parts < command.parts,
                                 !.undeleted = kept]
      BY <1>9 DEF EndRead
    <2>2. (failed /\ stream.exists) \in BOOLEAN /\ (stream.parts < command.parts) \in BOOLEAN
      OBVIOUS
    <2> QED BY <2>1, <2>2
  <1>10. CASE UNCHANGED commandVars
    BY <1>10 DEF commandVars
  <1> QED BY <1>1, <1>2, <1>3, <1>4, <1>5, <1>6, <1>7, <1>8, <1>9, <1>10, <1>11
          DEF CommandNext, Handle

LEMMA UnansweredStep == Unanswered /\ [CommandNext]_commandVars => Unanswered'
  <1> SUFFICES ASSUME Unanswered, [CommandNext]_commandVars PROVE Unanswered'
    OBVIOUS
  <1> USE DEF Unanswered
  <1>1. CASE Progress
    BY <1>1 DEF Progress
  <1>2. CASE Deliver
    BY <1>2 DEF Deliver
  <1>3. CASE Tick
    BY <1>3 DEF Tick
  <1>4. CASE SendCommand
    BY <1>4 DEF SendCommand, Finish
  <1>11. CASE LearnCommandId
    BY <1>11 DEF LearnCommandId, Finish
  <1>5. CASE Wake
    BY <1>5 DEF Wake
  <1>6. CASE Poll
    BY <1>6 DEF Poll, Finish
  <1>7. CASE Check
    BY <1>7 DEF Check, Finish, Succeeded
  <1>8. CASE ReadPage
    BY <1>8 DEF ReadPage
  <1>9. CASE EndRead
    BY <1>9 DEF EndRead, Finish
  <1>10. CASE UNCHANGED commandVars
    BY <1>10 DEF commandVars
  <1> QED BY <1>1, <1>2, <1>3, <1>4, <1>5, <1>6, <1>7, <1>8, <1>9, <1>10, <1>11
          DEF CommandNext, Handle

LEMMA ShapeStep == Shape /\ Streamed /\ [CommandNext]_commandVars => Shape'
  BY CommandTypeOKStep, NotedStep, UnansweredStep DEF Shape

LEMMA StreamedStep == CommandTypeOK /\ Noted /\ Streamed /\ [CommandNext]_commandVars => Streamed'
  <1> SUFFICES ASSUME CommandTypeOK, Noted, Streamed, [CommandNext]_commandVars PROVE Streamed'
    OBVIOUS
  <1>d. Deliver => Streamed'
    <2> SUFFICES ASSUME Deliver PROVE Streamed'
      OBVIOUS
    <2>1. stream'.parts = stream.parts + 1 /\ stream.parts < command.parts /\ stream'.exists
      BY Delivered
    <2>2. stream.parts \in Nat /\ command.parts \in Nat
      BY Counts
    <2> QED BY <2>1, <2>2 DEF Deliver, Streamed, Logged
  <1> USE CommandAssumption DEF CommandTypeOK, Streamed, Logged
  <1>1. CASE Progress
    BY <1>1 DEF Progress
  <1>2. CASE Deliver
    BY <1>2, <1>d
  <1>3. CASE Tick
    BY <1>3 DEF Tick
  <1>4. CASE SendCommand
    BY <1>4 DEF SendCommand, Finish
  <1>11. CASE LearnCommandId
    BY <1>11 DEF LearnCommandId, Finish
  <1>5. CASE Wake
    BY <1>5 DEF Wake
  <1>6. CASE Poll
    BY <1>6 DEF Poll, Finish
  <1>7. CASE Check
    BY <1>7 DEF Check, Finish, Succeeded
  <1>8. CASE ReadPage
    BY <1>8 DEF ReadPage
  <1>9. CASE EndRead
    BY <1>9 DEF EndRead, Finish
  <1>10. CASE UNCHANGED commandVars
    BY <1>10 DEF commandVars
  <1> QED BY <1>1, <1>2, <1>3, <1>4, <1>5, <1>6, <1>7, <1>8, <1>9, <1>10, <1>11
          DEF CommandNext, Handle

LEMMA WaitedStep == CommandTypeOK /\ Waited /\ [CommandNext]_commandVars => Waited'
  <1> SUFFICES ASSUME CommandTypeOK, Waited, [CommandNext]_commandVars PROVE Waited'
    OBVIOUS
  <1> USE DEF CommandTypeOK, Waited, Logged
  <1>1. CASE Progress
    BY <1>1 DEF Progress
  <1>2. CASE Deliver
    BY <1>2 DEF Deliver
  <1>3. CASE Tick
    BY <1>3 DEF Tick
  <1>4. CASE SendCommand
    BY <1>4 DEF SendCommand, Finish
  <1>11. CASE LearnCommandId
    BY <1>11 DEF LearnCommandId, Finish
  <1>5. CASE Wake
    BY <1>5 DEF Wake
  <1>6. CASE Poll
    BY <1>6 DEF Poll, Finish
  <1>7. CASE Check
    BY <1>7 DEF Check, Finish, Succeeded
  <1>8. CASE ReadPage
    BY <1>8 DEF ReadPage
  <1>9. CASE EndRead
    BY <1>9 DEF EndRead, Finish
  <1>10. CASE UNCHANGED commandVars
    BY <1>10 DEF commandVars
  <1> QED BY <1>1, <1>2, <1>3, <1>4, <1>5, <1>6, <1>7, <1>8, <1>9, <1>10, <1>11
          DEF CommandNext, Handle

\* The causes: they are noted when the request ends, and what goes on after it
\* (SSM, CloudWatch) takes none of them back.
LEMMA CausesStep == CommandInv /\ [CommandNext]_commandVars => Causes'
  <1> SUFFICES ASSUME CommandInv, [CommandNext]_commandVars PROVE Causes'
    OBVIOUS
  <1> USE CommandAssumption
      DEF CommandInv, Shape, Unanswered, Causes, NoJobsHasCause,
          FailureHasCause, StreamsAreDeleted
  <1>1. CASE Progress
    BY <1>1 DEF Progress, CommandTypeOK
  <1>2. CASE Deliver
    BY <1>2, Delivered DEF Deliver
  <1>3. CASE Tick
    BY <1>3 DEF Tick
  <1>4. CASE SendCommand
    BY <1>4 DEF SendCommand, Finish, Streamed
  <1>11. CASE LearnCommandId
    BY <1>11 DEF LearnCommandId, Finish, Streamed
  <1>5. CASE Wake
    BY <1>5 DEF Wake
  <1>6. CASE Poll
    BY <1>6 DEF Poll, Finish
  <1>7. CASE Check
    <2>1. /\ UNCHANGED <<handler, elapsed, command, status, stream, past>>
          /\ result' # "no jobs" /\ stage = "check"
      BY <1>7 DEF Check, Finish, Succeeded
    <2>2. result' \in {"timeout", "failed"} => FailureHasCause'
      <3>1. result' = "timeout" => elapsed = "after"
        BY <1>7 DEF Check, Finish, TimedOut, Succeeded
      <3>2. result' = "failed" => status \notin {None, "Success"} /\ elapsed # "after"
        BY <1>7 DEF Check, Finish, TimedOut, Succeeded
      <3>3. elapsed = "before" => status # "InProgress"
        BY <2>1 DEF Waited
      <3> QED BY <2>1, <3>1, <3>2, <3>3 DEF CommandTypeOK
    <2>3. stage' = "done" /\ stream.exists => result' \in {"timeout", "failed", "error"}
      <3>1. stream.exists => Logged
        BY DEF Streamed
      <3> QED BY <1>7, <3>1 DEF Check, Finish
    <2> QED BY <2>1, <2>2, <2>3
  <1>8. CASE ReadPage
    BY <1>8 DEF ReadPage
  <1>9. CASE EndRead
    <2>1. PICK failed \in BOOLEAN, kept \in BOOLEAN :
            /\ failed \/ ~Read
            /\ ~stream.exists => failed
            /\ stream' = [stream EXCEPT !.exists = kept /\ @]
            /\ past' = [past EXCEPT !.unread = failed /\ stream.exists,
                                    !.undelivered = stream.parts < command.parts,
                                    !.undeleted = kept]
      BY <1>9 DEF EndRead
    <2>2. /\ result' \in Answer /\ stage = "read" /\ stage' = "done"
          /\ UNCHANGED <<handler, elapsed, command, status, output>>
      BY <1>9 DEF EndRead, Finish
    <2>3. result' \notin {"timeout", "failed"}
      BY <2>2 DEF Answer
    <2>4. /\ stream'.exists => kept
          /\ past'.undelivered = (stream.parts < command.parts)
          /\ past'.unread = (failed /\ stream.exists) /\ past'.undeleted = kept
      BY <2>1 DEF Noted, CommandTypeOK
    <2>5. ASSUME result' = "no jobs"
          PROVE  command'.parts = 0 \/ past'.unread \/ past'.undelivered
      <3>1. output = 0
        BY <2>2, <2>5 DEF Answer
      <3>2. CASE failed /\ stream.exists
        BY <2>4, <3>2
      <3>3. CASE ~(failed /\ stream.exists)
        <4>1. stream.parts \in Nat /\ command.parts \in Nat
          BY Counts
        <4>2. ~(stream.parts > 0)
          <5>1. CASE stream.exists
            <6>1. ~Read
              BY <2>1, <3>3, <5>1
            <6> QED BY <3>1, <5>1, <6>1 DEF Read
          <5>2. CASE ~stream.exists
            BY <2>2, <5>2 DEF Streamed
          <5> QED BY <5>1, <5>2
        <4>3. command.parts = 0 \/ stream.parts < command.parts
          BY <4>1, <4>2, Zero
        <4> QED BY <2>2, <2>4, <4>3
      <3> QED BY <3>2, <3>3
    <2> QED BY <2>2, <2>3, <2>4, <2>5
  <1>10. CASE UNCHANGED commandVars
    BY <1>10 DEF commandVars
  <1> QED BY <1>1, <1>2, <1>3, <1>4, <1>5, <1>6, <1>7, <1>8, <1>9, <1>10, <1>11
          DEF CommandNext, Handle

LEMMA CommandInvStep == CommandInv /\ [CommandNext]_commandVars => CommandInv'
  BY ShapeStep, StreamedStep, WaitedStep, CausesStep DEF CommandInv, Shape

\* Whatever hangs, fails, comes late or is lost, an answer without jobs, a
\* failure, a timeout and a stream left behind have one of the causes that
\* ssm_command and its callers (PclusterApiHandler.py) give them.
THEOREM CommandOutcomes == CommandSpec => []OutcomesHaveCauses
  <1>1. CommandInv => OutcomesHaveCauses
    BY DEF CommandInv, Shape, Causes, OutcomesHaveCauses
  <1> QED BY <1>1, CommandInvInit, CommandInvStep, PTL DEF CommandSpec

\* A command is known from when it was sent, its success is final, and only its
\* success lets the handler read.
Sent == /\ stage = "send" => command.status = None
        /\ stage \in {"sent", "sleep", "poll", "check", "read"} => command.status # None
        /\ status = "Success" => command.status = "Success"
        /\ stage = "read" => status = "Success"

LEMMA SentStep == CommandTypeOK /\ Sent /\ [CommandNext]_commandVars => Sent'
  <1> SUFFICES ASSUME CommandTypeOK, Sent, [CommandNext]_commandVars PROVE Sent'
    OBVIOUS
  <1> USE CommandAssumption DEF CommandTypeOK, Sent
  <1>1. CASE Progress
    BY <1>1 DEF Progress, Finished
  <1>2. CASE Deliver
    BY <1>2 DEF Deliver
  <1>3. CASE Tick
    BY <1>3 DEF Tick
  <1>4. CASE SendCommand
    BY <1>4 DEF SendCommand, Finish
  <1>11. CASE LearnCommandId
    BY <1>11 DEF LearnCommandId, Finish
  <1>5. CASE Wake
    BY <1>5 DEF Wake
  <1>6. CASE Poll
    BY <1>6 DEF Poll, Finish
  <1>7. CASE Check
    BY <1>7 DEF Check, Finish, Succeeded
  <1>8. CASE ReadPage
    BY <1>8 DEF ReadPage
  <1>9. CASE EndRead
    BY <1>9 DEF EndRead, Finish
  <1>10. CASE UNCHANGED commandVars
    BY <1>10 DEF commandVars
  <1> QED BY <1>1, <1>2, <1>3, <1>4, <1>5, <1>6, <1>7, <1>8, <1>9, <1>10, <1>11
          DEF CommandNext, Handle

\* An answer of a handler is a reply of CommandCall.
LEMMA AnswerIsReply ==
  ASSUME CommandInv, stage # "done", UNCHANGED command, NEW r \in Remote!Replies, result' = r,
         r \in Remote!OfSuccess => command.status = "Success",
         r \in Remote!OfOutput => command.parts > 0,
         r \in Remote!OfFailure => command.status # None
  PROVE  Remote!Reply(r)
  <1>1. result = None /\ UNCHANGED OnNode
    BY DEF CommandInv, Shape, Unanswered, OnNode
  <1>2. command.status = "Success" => OnNode = "succeeded"
    BY CommandAssumption DEF OnNode
  <1>3. command.status # None => OnNode # "not sent"
    BY DEF OnNode, CommandInv, Shape, CommandTypeOK
  <1> QED BY <1>1, <1>2, <1>3 DEF Remote!Reply

LEMMA RemoteStep ==
  CommandInv /\ Sent /\ [CommandNext]_commandVars => [Remote!Next]_(Remote!vars)
  <1> SUFFICES ASSUME CommandInv, Sent, [CommandNext]_commandVars
               PROVE  [Remote!Next]_(Remote!vars)
    OBVIOUS
  <1> CommandTypeOK /\ Unanswered
    BY DEF CommandInv, Shape
  <1>0. ASSUME UNCHANGED <<command, result>> PROVE UNCHANGED Remote!vars
    BY <1>0 DEF Remote!vars, OnNode
  <1>a. ASSUME NEW r \in Remote!Replies, Remote!Reply(r) PROVE Remote!Next
    BY <1>a DEF Remote!Next
  <1>1. CASE Progress
    <2>1. PICK s \in {"InProgress", "Success", "Failed"} :
            /\ s # command.status /\ (command.status = "Pending" => s = "InProgress")
            /\ command' = [command EXCEPT !.status = s]
      BY <1>1 DEF Progress
    <2>2. command'.status = s /\ command'.parts = command.parts /\ UNCHANGED result
      BY <1>1, <2>1 DEF Progress, CommandTypeOK
    <2>3. command.status \in {"Pending", "InProgress"}
      BY <1>1 DEF Progress, Finished, CommandTypeOK
    <2>4. OnNode = "running"
      BY <2>3, CommandAssumption DEF OnNode
    <2>5. CASE s = "InProgress"
      <3>1. OnNode' = "running"
        BY <2>2, <2>5, CommandAssumption DEF OnNode
      <3> QED BY <2>2, <2>4, <3>1 DEF Remote!vars
    <2>6. CASE s \in {"Success", "Failed"}
      <3>1. OnNode' \in {"succeeded", "failed"}
        BY <2>2, <2>6, CommandAssumption DEF OnNode
      <3> QED BY <2>2, <2>4, <3>1 DEF Remote!End, Remote!Next
    <2> QED BY <2>5, <2>6
  <1>2. CASE SendCommand
    <2>1. stage = "send" /\ command.status = None /\ result = None
      BY <1>2 DEF SendCommand, Sent, Unanswered
    <2>2. CASE command' = [command EXCEPT !.status = "Pending"] /\ UNCHANGED result
      <3>1. command'.status = "Pending" /\ command'.parts = command.parts
        BY <2>2 DEF CommandTypeOK
      <3>2. OnNode = "not sent" /\ OnNode' = "running"
        BY <2>1, <3>1, CommandAssumption DEF OnNode
      <3> QED BY <2>1, <2>2, <3>1, <3>2 DEF Remote!Run, Remote!Next
    <2>3. CASE Finish("error") /\ UNCHANGED command
      <3>1. Remote!Reply("error")
        BY <2>1, <2>3, AnswerIsReply
           DEF Finish, Remote!Replies, Remote!OfSuccess, Remote!OfOutput, Remote!OfFailure
      <3> QED BY <1>a, <3>1 DEF Remote!Replies
    <2> QED BY <1>2, <2>2, <2>3 DEF SendCommand
  <1>3. CASE Poll \/ LearnCommandId
    <2>1. CASE UNCHANGED <<command, result>>
      BY <1>0, <2>1
    <2>2. CASE Finish("error")
      <3>1. Remote!Reply("error")
        BY <1>3, <2>2, AnswerIsReply
           DEF Poll, LearnCommandId, Finish, Remote!Replies, Remote!OfSuccess, Remote!OfOutput, Remote!OfFailure
      <3> QED BY <1>a, <3>1 DEF Remote!Replies
    <2> QED BY <1>3, <2>1, <2>2 DEF Poll, LearnCommandId, Finish
  <1>4. CASE Check
    <2>1. stage = "check" /\ UNCHANGED <<command, status>> /\ command.status # None
      BY <1>4 DEF Check, Sent
    <2>2. CASE UNCHANGED result
      BY <1>0, <2>1, <2>2
    <2>3. CASE Finish("timeout") \/ Finish("failed") \/ Finish("error")
      <3>1. result' \in {"timeout", "failed", "error"}
        BY <2>3 DEF Finish
      <3>2. Remote!Reply(result')
        BY <2>1, <3>1, AnswerIsReply
           DEF Remote!Replies, Remote!OfSuccess, Remote!OfOutput, Remote!OfFailure
      <3> QED BY <1>a, <3>1, <3>2 DEF Remote!Replies, Remote!OfFailure
    <2>4. CASE Succeeded /\ Finish("session")
      <3>1. command.status = "Success"
        BY <2>4 DEF Succeeded, Sent
      <3>2. Remote!Reply("session")
        BY <2>1, <2>4, <3>1, AnswerIsReply
           DEF Finish, Remote!Replies, Remote!OfSuccess, Remote!OfOutput, Remote!OfFailure
      <3> QED BY <1>a, <3>2 DEF Remote!Replies, Remote!OfSuccess
    <2>5. \/ UNCHANGED result \/ Finish("timeout") \/ Finish("failed") \/ Finish("error")
          \/ Succeeded /\ Finish("session")
      BY <1>4 DEF Check
    <2> QED BY <2>2, <2>3, <2>4, <2>5
  <1>5. CASE EndRead
    <2>1. stage = "read" /\ UNCHANGED <<command, output>> /\ result' \in Answer
      BY <1>5 DEF EndRead, Finish
    <2>2. command.status = "Success"
      BY <2>1 DEF Sent
    <2>3. output > 0 => command.parts > 0
      BY Counts DEF CommandInv, Streamed
    <2>4. /\ result' \in {"jobs", "no jobs", "job", "done", "error"}
          /\ result' \in {"jobs", "job"} => output > 0
      <3>1. output \in Nat
        BY Counts
      <3>0. output # 0 => output > 0
        BY <3>1
      <3>2. CASE handler \in Lists
        <4>1. Answer = IF output = 0 THEN {"no jobs"} ELSE IF Whole THEN {"jobs"} ELSE {"error"}
          BY <3>2 DEF Answer, Lists
        <4>2. result' = "no jobs" \/ (output # 0 /\ result' \in {"jobs", "error"})
          BY <2>1, <4>1
        <4> QED BY <3>0, <4>2
      <3>3. CASE handler \notin Lists /\ handler = "sacct_job"
        BY <2>1, <3>1, <3>3 DEF Answer
      <3>4. CASE handler \notin Lists /\ handler = "scontrol_job"
        <4>1. Answer = IF output = 0 THEN {"error"} ELSE {"job", "error"}
          BY <3>4 DEF Answer
        <4>2. result' = "error" \/ (output # 0 /\ result' = "job")
          BY <2>1, <4>1
        <4> QED BY <3>0, <4>2
      <3>5. CASE handler \notin Lists \cup {"sacct_job", "scontrol_job"}
        BY <2>1, <3>5 DEF Answer
      <3> QED BY <3>2, <3>3, <3>4, <3>5
    <2>5. Remote!Reply(result')
      BY <2>1, <2>2, <2>3, <2>4, AnswerIsReply
         DEF Remote!Replies, Remote!OfSuccess, Remote!OfOutput, Remote!OfFailure
    <2> QED BY <1>a, <2>4, <2>5 DEF Remote!Replies, Remote!OfSuccess
  <1>6. \/ UNCHANGED <<command, result>> \/ Progress \/ SendCommand \/ LearnCommandId
        \/ Poll \/ Check \/ EndRead
    BY DEF CommandNext, Handle, Deliver, Tick, Wake, ReadPage, commandVars
  <1> QED BY <1>0, <1>1, <1>2, <1>3, <1>4, <1>5, <1>6

\* Whatever is answered of a command is true of it, and it runs once: polling,
\* deadline, retries of pages and late deliveries (ssm_command and its callers)
\* implement the call that CommandCall describes.
THEOREM CommandImplementsCall == CommandSpec => ImplementsCall
  <1>1. CommandInit => Sent /\ Remote!Init
    <2> SUFFICES ASSUME CommandInit PROVE Sent /\ Remote!Init
      OBVIOUS
    <2>1. command.parts \in Nat /\ command.status = None
      BY BoundIsNat DEF CommandInit
    <2>2. OnNode = "not sent"
      BY <2>1, CommandAssumption DEF OnNode
    <2>3. Sent
      BY <2>1, CommandAssumption DEF CommandInit, Sent
    <2> QED BY <2>1, <2>2, <2>3 DEF CommandInit, Remote!Init
  <1>2. CommandInv /\ Sent /\ [CommandNext]_commandVars => CommandInv' /\ Sent'
    BY CommandInvStep, SentStep DEF CommandInv, Shape
  <1> QED BY <1>1, <1>2, CommandInvInit, RemoteStep, PTL
          DEF CommandSpec, ImplementsCall, Remote!Spec

-----------------------------------------------------------------------------
(***************************************************************************)
(* Theorems about Users, for any addresses, accounts and requests under way: *)
(* the pool, the list and the form agree but for the causes named there.      *)
(*                                                                         *)
(* An account that is deleted never comes back, because an address created    *)
(* again makes an account with a new number: the invariant relates every      *)
(* account seen so far, in Cognito, in an answer or in the history, to the    *)
(* accounts made of its address.                                              *)
(***************************************************************************)

UserRequests ==
  [cmd : {"list", "delete", "create"}, who : {Nobody} \cup Accounts \cup Addresses,
   step : {"asked", "created", "answered", "failed"}, users : SUBSET Accounts]

\* The records keep their fields.
UserFields ==
  /\ accounts \in [all : SUBSET Accounts, admins : SUBSET Accounts]
  /\ made \in [Addresses -> Nat]
  /\ selectedUser \in {Nobody} \cup Accounts
  /\ removing \in [open : BOOLEAN, who : {Nobody} \cup Accounts]
  /\ form \in [open : BOOLEAN, username : Inputs, valid : BOOLEAN, error : BOOLEAN]
  /\ userPast \in [erased : SUBSET Accounts, halfway : SUBSET Accounts, apart : BOOLEAN]
  /\ userCalls \subseteq UserRequests

\* The accounts that were made so far.
Known == {u \in Accounts : u[2] <= made[u[1]]}

\* What is in the pool or was erased was made.
Counted == accounts.all \subseteq Known /\ userPast.erased \subseteq Known

\* A request between the two calls of create_user carries an account of its address.
CreatedOfAddress ==
  \A r \in userCalls :
    r.step = "created" => r.cmd = "create" /\ \A u \in r.users : u[1] = r.who

\* A user whose deletion succeeded was made, and is gone.
DeletedIsGone ==
  \A r \in userCalls :
    r.cmd = "delete" /\ r.step = "answered" => r.who \in Known \ accounts.all

\* What was erased is gone, and no answer on its way brings it back.
ErasedIsGone ==
  \A u \in userPast.erased : u \notin accounts.all /\ \A r \in userCalls : u \notin r.users

-----------------------------------------------------------------------------
\* A request moves on: the others stay, and it keeps its command.
LEMMA StepCalls ==
  ASSUME UserFields, NEW r \in userCalls, NEW s \in {"created", "answered", "failed"},
         NEW us \in SUBSET Accounts, Step(r, s, us)
  PROVE  /\ userCalls' \subseteq UserRequests
         /\ \A q \in userCalls' :
              q \in userCalls \/ (q.cmd = r.cmd /\ q.who = r.who /\ q.step = s /\ q.users = us)
         /\ \A q \in userCalls : q # r => q \in userCalls'
         /\ \E q \in userCalls' : q.step = s /\ q.users = us
  <1> DEFINE n == [r EXCEPT !.step = s, !.users = us]
  <1>1. r \in UserRequests
    BY DEF UserFields
  <1>2. /\ n \in UserRequests /\ n.cmd = r.cmd /\ n.who = r.who /\ n.step = s
        /\ n.users = us
    BY <1>1 DEF UserRequests
  <1>3. userCalls' = (userCalls \ {r}) \cup {n}
    BY DEF Step
  <1> HIDE DEF n
  <1> QED BY <1>2, <1>3 DEF UserFields

\* A new request is asked and carries nothing.
LEMMA NewCall ==
  ASSUME UserFields, NEW c \in {"list", "delete", "create"},
         NEW w \in {Nobody} \cup Accounts \cup Addresses, CallUsers(c, w)
  PROVE  /\ userCalls' \subseteq UserRequests
         /\ \A q \in userCalls' : q \in userCalls \/ (q.step = "asked" /\ q.users = {})
         /\ userCalls \subseteq userCalls'
  BY DEF CallUsers, UserCall, UserFields, UserRequests

\* The api and Cognito: which requests and accounts there are after a step.
LEMMA ServeList ==
  ASSUME UserFields, NEW r \in userCalls, ServeUsers(r), r.cmd = "list"
  PROVE  Step(r, "answered", accounts.all) /\ UNCHANGED <<accounts, made>>
  BY DEF ServeUsers

LEMMA ServeDelete ==
  ASSUME UserFields, NEW r \in userCalls, ServeUsers(r), r.cmd = "delete"
  PROVE  /\ Step(r, IF r.who \in accounts.all THEN "answered" ELSE "failed", {})
         /\ accounts' \in [all : SUBSET Accounts, admins : SUBSET Accounts]
         /\ accounts'.all = accounts.all \ {r.who}
         /\ accounts'.admins = accounts.admins \ {r.who}
         /\ UNCHANGED made
  BY DEF ServeUsers, UserFields

LEMMA ServeCreate ==
  ASSUME UserFields, NEW r \in userCalls, ServeUsers(r), r.cmd = "create"
  PROVE  \/ Step(r, "failed", {}) /\ UNCHANGED <<accounts, made>>
         \/ \E u \in Accounts :
              /\ u = <<r.who, made[r.who] + 1>> /\ r.who \in Addresses
              /\ made' = [made EXCEPT ![r.who] = @ + 1]
              /\ accounts' = [accounts EXCEPT !.all = @ \cup {u}]
              /\ Step(r, "created", {u})
  BY DEF ServeUsers, Accounts

LEMMA RequestKinds ==
  ASSUME UserFields, NEW r \in userCalls
  PROVE  r.cmd \in {"list", "delete", "create"} /\ r.users \subseteq Accounts
  BY DEF UserFields, UserRequests

\* Accounts are only ever made.
LEMMA KnownGrows ==
  ASSUME UserFields, NEW a \in Addresses, made' = [made EXCEPT ![a] = @ + 1]
  PROVE  /\ Known \subseteq Known'
         /\ \A u \in Accounts : u = <<a, made[a] + 1>> => u \in Known' /\ u \notin Known
  BY DEF Known, UserFields, Accounts

LEMMA KnownStays == ASSUME UNCHANGED made PROVE Known' = Known
  BY DEF Known

-----------------------------------------------------------------------------
\* Cognito and what is on its way: the part of the invariant the page has no hand in.
Pool == Counted /\ CreatedOfAddress /\ DeletedIsGone /\ ErasedIsGone /\ EveryUserIsAdmin

\* The steps of the page that are not answers: they add requests at most.
PageStep ==
  \/ ListUsers \/ RemoveUser \/ KeepUser \/ DeleteUser \/ CreateUser \/ LeaveUsers
  \/ \E u \in Accounts : SelectUser(u)
  \/ \E open \in BOOLEAN : ShowForm(open)
  \/ \E input \in Inputs : TypeUser(input)

Quiet ==
  /\ UNCHANGED <<accounts, made>>
  /\ userPast'.erased = userPast.erased /\ userPast'.halfway = userPast.halfway
  /\ \A q \in userCalls' : q \in userCalls \/ (q.step = "asked" /\ q.users = {})
  /\ userCalls \subseteq userCalls'

LEMMA PageIsQuiet ==
  ASSUME UserFields, PageStep \/ UNCHANGED userVars
  PROVE  UserFields' /\ Quiet
  <1> USE DEF UserFields, Quiet
  <1>1. CASE ListUsers
    <2>1. CallUsers("list", Nobody)
      BY <1>1 DEF ListUsers
    <2> QED BY <1>1, <2>1, NewCall DEF ListUsers
  <1>2. CASE RemoveUser
    BY <1>2 DEF RemoveUser
  <1>3. CASE KeepUser
    BY <1>3 DEF KeepUser
  <1>4. CASE DeleteUser
    <2>1. CallUsers("delete", removing.who) /\ removing.who \in {Nobody} \cup Accounts
      BY <1>4 DEF DeleteUser
    <2> QED BY <1>4, <2>1, NewCall DEF DeleteUser
  <1>5. CASE CreateUser
    <2>1. CASE form.username \in Addresses
      <3>1. CallUsers("create", form.username)
        BY <1>5, <2>1 DEF CreateUser
      <3> QED BY <1>5, <2>1, <3>1, NewCall DEF CreateUser
    <2>2. CASE form.username \notin Addresses
      BY <1>5, <2>2 DEF CreateUser
    <2> QED BY <2>1, <2>2
  <1>6. CASE LeaveUsers
    BY <1>6 DEF LeaveUsers
  <1>7. ASSUME NEW u \in Accounts, SelectUser(u) PROVE UserFields' /\ Quiet
    BY <1>7 DEF SelectUser
  <1>8. ASSUME NEW open \in BOOLEAN, ShowForm(open) PROVE UserFields' /\ Quiet
    BY <1>8 DEF ShowForm
  <1>9. ASSUME NEW input \in Inputs, TypeUser(input) PROVE UserFields' /\ Quiet
    BY <1>9 DEF TypeUser, Typed
  <1>10. CASE UNCHANGED userVars
    BY <1>10 DEF userVars
  <1> QED BY <1>1, <1>2, <1>3, <1>4, <1>5, <1>6, <1>7, <1>8, <1>9, <1>10 DEF PageStep

LEMMA QuietPool ==
  ASSUME UserFields, Pool, Quiet
  PROVE  Pool'
  <1>1. Counted'
    BY KnownStays DEF Pool, Quiet, Counted
  <1>2. CreatedOfAddress'
    BY DEF Pool, Quiet, CreatedOfAddress
  <1>3. DeletedIsGone'
    BY KnownStays DEF Pool, Quiet, DeletedIsGone
  <1>4. ErasedIsGone'
    BY DEF Pool, Quiet, ErasedIsGone
  <1>5. EveryUserIsAdmin'
    BY DEF Pool, Quiet, EveryUserIsAdmin
  <1> QED BY <1>1, <1>2, <1>3, <1>4, <1>5 DEF Pool

-----------------------------------------------------------------------------
\* A deletion, by this page's request or another administrator's: it takes an
\* account away, and requests move on without carrying anything new.
LEMMA DeletePool ==
  ASSUME UserFields, Pool, NEW u,
         accounts'.all = accounts.all \ {u}, accounts'.admins = accounts.admins \ {u},
         UNCHANGED <<made, userPast>>,
         \A q \in userCalls' :
           \/ q \in userCalls
           \/ /\ q.users = {} /\ q.step # "created"
              /\ q.step = "answered" => u \in accounts.all /\ q.who = u,
         \A q \in userCalls : q.step = "created" => q \in userCalls'
  PROVE  Pool'
  <1>1. Counted'
    BY KnownStays DEF Pool, Counted
  <1>2. CreatedOfAddress'
    BY DEF Pool, CreatedOfAddress
  <1>3. DeletedIsGone'
    BY KnownStays DEF Pool, DeletedIsGone, Counted
  <1>4. ErasedIsGone'
    BY DEF Pool, ErasedIsGone
  <1>5. EveryUserIsAdmin'
    BY DEF Pool, EveryUserIsAdmin
  <1> QED BY <1>1, <1>2, <1>3, <1>4, <1>5 DEF Pool

LEMMA ServePool ==
  ASSUME UserFields, Pool, NEW r \in userCalls, ServeUsers(r)
  PROVE  UserFields' /\ Pool'
  <1>0. /\ UNCHANGED <<userIndex, selectedUser, removing, form, userPast>>
        /\ r.step = "asked"
    BY DEF ServeUsers
  <1>1. CASE r.cmd = "list"
    <2>1. Step(r, "answered", accounts.all) /\ UNCHANGED <<accounts, made>>
      BY <1>1, ServeList
    <2>2. accounts.all \in SUBSET Accounts
      BY DEF UserFields
    <2>3. /\ userCalls' \subseteq UserRequests
          /\ \A q \in userCalls' :
               \/ q \in userCalls
               \/ q.cmd = "list" /\ q.step = "answered" /\ q.users = accounts.all
          /\ \A q \in userCalls : q # r => q \in userCalls'
      BY <1>1, <2>1, <2>2, StepCalls
    <2>4. UserFields'
      BY <1>0, <2>1, <2>3 DEF UserFields
    <2>5. Counted' /\ CreatedOfAddress' /\ DeletedIsGone'
      BY <1>0, <2>1, <2>3, KnownStays
         DEF Pool, Counted, CreatedOfAddress, DeletedIsGone
    <2>6. ErasedIsGone'
      BY <1>0, <2>1, <2>3 DEF Pool, ErasedIsGone
    <2>7. EveryUserIsAdmin'
      BY <1>0, <2>1, <2>3 DEF Pool, EveryUserIsAdmin
    <2> QED BY <2>4, <2>5, <2>6, <2>7 DEF Pool
  <1>2. CASE r.cmd = "delete"
    <2> DEFINE s == IF r.who \in accounts.all THEN "answered" ELSE "failed"
    <2>1. /\ Step(r, s, {}) /\ UNCHANGED made
          /\ accounts' \in [all : SUBSET Accounts, admins : SUBSET Accounts]
          /\ accounts'.all = accounts.all \ {r.who}
          /\ accounts'.admins = accounts.admins \ {r.who}
      BY <1>2, ServeDelete
    <2>2. s \in {"answered", "failed"} /\ (s = "answered" => r.who \in accounts.all)
      OBVIOUS
    <2> HIDE DEF s
    <2>3. /\ userCalls' \subseteq UserRequests
          /\ \A q \in userCalls' : q \in userCalls \/ (q.who = r.who /\ q.step = s /\ q.users = {})
          /\ \A q \in userCalls : q # r => q \in userCalls'
      BY <2>1, <2>2, StepCalls
    <2>4. UserFields'
      BY <1>0, <2>1, <2>3 DEF UserFields
    <2> QED BY <1>0, <2>1, <2>2, <2>3, <2>4, DeletePool
  <1>3. CASE r.cmd = "create"
    <2>1. CASE Step(r, "failed", {}) /\ UNCHANGED <<accounts, made>>
      <3>1. /\ userCalls' \subseteq UserRequests
            /\ \A q \in userCalls' : q \in userCalls \/ (q.step = "failed" /\ q.users = {})
            /\ \A q \in userCalls : q # r => q \in userCalls'
        BY <2>1, StepCalls
      <3>2. UserFields'
        BY <1>0, <2>1, <3>1 DEF UserFields
      <3>3. Counted' /\ CreatedOfAddress' /\ DeletedIsGone'
        BY <1>0, <2>1, <3>1, KnownStays
           DEF Pool, Counted, CreatedOfAddress, DeletedIsGone
      <3>4. ErasedIsGone' /\ EveryUserIsAdmin'
        BY <1>0, <2>1, <3>1 DEF Pool, ErasedIsGone, EveryUserIsAdmin
      <3> QED BY <3>2, <3>3, <3>4 DEF Pool
    <2>2. ASSUME NEW u \in Accounts,
                 u = <<r.who, made[r.who] + 1>>, r.who \in Addresses,
                 made' = [made EXCEPT ![r.who] = @ + 1],
                 accounts' = [accounts EXCEPT !.all = @ \cup {u}],
                 Step(r, "created", {u})
          PROVE  UserFields' /\ Pool'
      <3>1. /\ userCalls' \subseteq UserRequests
            /\ \A q \in userCalls' :
                 \/ q \in userCalls
                 \/ /\ q.cmd = "create" /\ q.who = r.who
                    /\ q.step = "created" /\ q.users = {u}
            /\ \A q \in userCalls : q # r => q \in userCalls'
            /\ \E q \in userCalls' : q.step = "created" /\ q.users = {u}
        BY <1>3, <2>2, StepCalls
      <3>2. /\ accounts'.all = accounts.all \cup {u} /\ accounts'.admins = accounts.admins
            /\ accounts' \in [all : SUBSET Accounts, admins : SUBSET Accounts]
        BY <2>2 DEF UserFields
      <3>3. made' \in [Addresses -> Nat]
        BY <2>2 DEF UserFields
      <3>4. UserFields'
        BY <1>0, <3>1, <3>2, <3>3 DEF UserFields
      <3>5. Known \subseteq Known' /\ u \in Known' /\ u \notin Known /\ u[1] = r.who
        BY <2>2, KnownGrows
      <3>6. Counted'
        BY <1>0, <3>2, <3>5 DEF Pool, Counted
      <3>7. CreatedOfAddress'
        BY <3>1, <3>5 DEF Pool, CreatedOfAddress
      <3>8. DeletedIsGone'
        BY <3>1, <3>2, <3>5 DEF Pool, DeletedIsGone
      <3>9. u \notin userPast.erased
        BY <3>5 DEF Pool, Counted
      <3>10. ErasedIsGone'
        BY <1>0, <3>1, <3>2, <3>9 DEF Pool, ErasedIsGone
      <3>11. EveryUserIsAdmin'
        BY <1>0, <3>1, <3>2 DEF Pool, EveryUserIsAdmin
      <3> QED BY <3>4, <3>6, <3>7, <3>8, <3>10, <3>11 DEF Pool
    <2> QED BY <1>3, <2>1, <2>2, ServeCreate
  <1> QED BY <1>1, <1>2, <1>3, RequestKinds

LEMMA OtherPool ==
  ASSUME UserFields, Pool, NEW u \in Accounts, OtherDeletes(u)
  PROVE  UserFields' /\ Pool'
  <1>1. /\ accounts'.all = accounts.all \ {u} /\ accounts'.admins = accounts.admins \ {u}
        /\ accounts' \in [all : SUBSET Accounts, admins : SUBSET Accounts]
        /\ UNCHANGED <<made, userIndex, selectedUser, removing, form, userCalls, userPast>>
    BY DEF OtherDeletes, UserFields
  <1>2. UserFields'
    BY <1>1 DEF UserFields
  <1> QED BY <1>1, <1>2, DeletePool

\* The second call of create_user: who was created and is still there is an
\* administrator now.
LEMMA AddPool ==
  ASSUME UserFields, Pool, NEW r \in userCalls, AddToGroup(r)
  PROVE  UserFields' /\ Pool'
  <1> DEFINE s == IF Added(r) = {} THEN "failed" ELSE "answered"
  <1>1. /\ Step(r, s, r.users) /\ r.step = "created"
        /\ UNCHANGED <<made, userIndex, selectedUser, removing, form, userPast>>
        /\ accounts' = [accounts EXCEPT !.admins = @ \cup Existing(r.who)]
    BY DEF AddToGroup, Added
  <1>2. s \in {"created", "answered", "failed"} /\ r.users \in SUBSET Accounts
    BY RequestKinds
  <1> HIDE DEF s
  <1>3. /\ userCalls' \subseteq UserRequests
        /\ \A q \in userCalls' : q \in userCalls \/ (q.cmd = r.cmd /\ q.users = r.users
                                                     /\ q.who = r.who)
        /\ \A q \in userCalls : q # r => q \in userCalls'
    BY <1>1, <1>2, StepCalls
  <1>4. Existing(r.who) = {u \in accounts.all : u[1] = r.who}
    BY DEF Existing
  <1>5. /\ accounts'.all = accounts.all
        /\ accounts'.admins = accounts.admins \cup Existing(r.who)
        /\ accounts' \in [all : SUBSET Accounts, admins : SUBSET Accounts]
    BY <1>1, <1>4 DEF UserFields
  <1>6. UserFields'
    BY <1>1, <1>3, <1>5 DEF UserFields
  <1>7. Counted'
    BY <1>1, <1>5, KnownStays DEF Pool, Counted
  <1>8. \A u \in r.users : u[1] = r.who
    BY <1>1 DEF Pool, CreatedOfAddress
  <1>9. r.cmd = "create"
    BY <1>1 DEF Pool, CreatedOfAddress
  <1>10. CreatedOfAddress'
    BY <1>3, <1>8, <1>9 DEF Pool, CreatedOfAddress
  <1>11. DeletedIsGone'
    BY <1>1, <1>3, <1>5, <1>9, KnownStays DEF Pool, DeletedIsGone
  <1>12. ErasedIsGone'
    BY <1>1, <1>3, <1>5 DEF Pool, ErasedIsGone
  <1>13. EveryUserIsAdmin'
    BY <1>1, <1>3, <1>4, <1>5, <1>8 DEF Pool, EveryUserIsAdmin
  <1> QED BY <1>6, <1>7, <1>10, <1>11, <1>12, <1>13 DEF Pool

\* A call fails: an account whose second call was still to come is half done.
LEMMA FailPool ==
  ASSUME UserFields, Pool, NEW r \in userCalls, FailUsers(r)
  PROVE  UserFields' /\ Pool'
  <1>1. /\ Step(r, "failed", {})
        /\ UNCHANGED <<accounts, made, userIndex, selectedUser, removing, form>>
    BY DEF FailUsers
  <1>2. /\ userCalls' \subseteq UserRequests
        /\ \A q \in userCalls' : q \in userCalls \/ (q.step = "failed" /\ q.users = {})
        /\ \A q \in userCalls : q # r => q \in userCalls'
    BY <1>1, StepCalls
  <1>3. r.users \subseteq Accounts
    BY RequestKinds
  <1>4. /\ userPast'.erased = userPast.erased
        /\ userPast'.halfway = userPast.halfway \cup IF r.step = "created" THEN r.users ELSE {}
        /\ userPast' \in [erased : SUBSET Accounts, halfway : SUBSET Accounts, apart : BOOLEAN]
    BY <1>3 DEF FailUsers, UserFields
  <1>5. UserFields'
    BY <1>1, <1>2, <1>4 DEF UserFields
  <1>6. Counted' /\ CreatedOfAddress' /\ DeletedIsGone'
    BY <1>1, <1>2, <1>4, KnownStays DEF Pool, Counted, CreatedOfAddress, DeletedIsGone
  <1>7. ErasedIsGone'
    BY <1>1, <1>2, <1>4 DEF Pool, ErasedIsGone
  <1>8. EveryUserIsAdmin'
    BY <1>1, <1>2, <1>4 DEF Pool, EveryUserIsAdmin
  <1> QED BY <1>5, <1>6, <1>7, <1>8 DEF Pool

\* An answer or a failure arrives: only the answer to a deletion is remembered.
LEMMA ArrivePool ==
  ASSUME UserFields, Pool, NEW r \in userCalls, r.step # "created",
         userCalls' = userCalls \ {r}, UNCHANGED <<accounts, made>>,
         userPast'.halfway = userPast.halfway,
         \/ userPast'.erased = userPast.erased
         \/ /\ r.cmd = "delete" /\ r.step = "answered"
            /\ userPast'.erased = userPast.erased \cup ({r.who} \ Carried)
  PROVE  Pool'
  <1>1. \A u \in userPast'.erased :
          \/ u \in userPast.erased
          \/ u \in Known \ accounts.all /\ \A q \in userCalls : u \notin q.users
    BY DEF Pool, DeletedIsGone, Carried
  <1>2. Counted'
    BY <1>1, KnownStays DEF Pool, Counted
  <1>3. CreatedOfAddress' /\ DeletedIsGone'
    BY KnownStays DEF Pool, CreatedOfAddress, DeletedIsGone
  <1>4. ErasedIsGone'
    BY <1>1 DEF Pool, ErasedIsGone
  <1>5. EveryUserIsAdmin'
    BY DEF Pool, EveryUserIsAdmin
  <1> QED BY <1>2, <1>3, <1>4, <1>5 DEF Pool

LEMMA AnswerPool ==
  ASSUME UserFields, Pool, NEW r \in userCalls, UsersArrive(r) \/ UserFailureArrives(r)
  PROVE  UserFields' /\ Pool'
  <1>1. CASE UserFailureArrives(r)
    <2>1. /\ r.step = "failed" /\ userCalls' = userCalls \ {r}
          /\ UNCHANGED <<accounts, made, userIndex, selectedUser, removing, form, userPast>>
      BY <1>1 DEF UserFailureArrives
    <2>2. UserFields'
      BY <2>1 DEF UserFields
    <2> QED BY <2>1, <2>2, ArrivePool
  <1>2. CASE UsersArrive(r)
    <2>1. /\ r.step = "answered" /\ userCalls' = userCalls \ {r}
          /\ UNCHANGED <<accounts, made, removing>>
      BY <1>2 DEF UsersArrive
    <2>2. CASE r.cmd = "list"
      <3>1. UNCHANGED <<selectedUser, form, userPast>>
        BY <1>2, <2>2 DEF UsersArrive
      <3>2. UserFields'
        BY <2>1, <3>1 DEF UserFields
      <3> QED BY <2>1, <3>1, <3>2, ArrivePool
    <2>3. CASE r.cmd = "delete"
      <3>1. /\ selectedUser' = Nobody /\ UNCHANGED form
            /\ userPast' = [userPast EXCEPT !.erased = @ \cup ({r.who} \ Carried)]
        BY <1>2, <2>3 DEF UsersArrive
      <3>2. r.who \in Accounts
        BY <2>1, <2>3 DEF Pool, DeletedIsGone, Known
      <3>3. /\ userPast'.erased = userPast.erased \cup ({r.who} \ Carried)
            /\ userPast'.halfway = userPast.halfway
            /\ userPast' \in [erased : SUBSET Accounts, halfway : SUBSET Accounts,
                              apart : BOOLEAN]
        BY <3>1, <3>2 DEF UserFields
      <3>4. UserFields'
        BY <2>1, <3>1, <3>3 DEF UserFields
      <3> QED BY <2>1, <2>3, <3>3, <3>4, ArrivePool
    <2>4. CASE r.cmd = "create"
      <3>1. /\ UNCHANGED selectedUser
            /\ form' = [form EXCEPT !.username = "", !.error = FALSE]
            /\ userPast' = [userPast EXCEPT !.apart = @ \/ ~form.valid]
        BY <1>2, <2>4 DEF UsersArrive
      <3>2. /\ userPast'.erased = userPast.erased /\ userPast'.halfway = userPast.halfway
            /\ userPast' \in [erased : SUBSET Accounts, halfway : SUBSET Accounts,
                              apart : BOOLEAN]
        BY <3>1 DEF UserFields
      <3>3. form' \in [open : BOOLEAN, username : Inputs, valid : BOOLEAN, error : BOOLEAN]
        BY <3>1 DEF UserFields, Inputs
      <3>4. UserFields'
        BY <2>1, <3>1, <3>2, <3>3 DEF UserFields
      <3> QED BY <2>1, <3>2, <3>4, ArrivePool
    <2> QED BY <2>2, <2>3, <2>4, RequestKinds
  <1> QED BY <1>1, <1>2

-----------------------------------------------------------------------------
\* Every step is one of these.
LEMMA Steps ==
  [UsersNext]_userVars =>
    \/ PageStep \/ UNCHANGED userVars
    \/ \E u \in Accounts : OtherDeletes(u)
    \/ \E r \in userCalls : \/ ServeUsers(r) \/ AddToGroup(r) \/ FailUsers(r)
                            \/ UsersArrive(r) \/ UserFailureArrives(r)
  BY DEF UsersNext, PageStep

LEMMA PoolStep ==
  UserFields /\ Pool /\ [UsersNext]_userVars => UserFields' /\ Pool'
  BY Steps, PageIsQuiet, QuietPool, OtherPool, ServePool, AddPool, FailPool, AnswerPool

\* The list: it takes users from answers, and erases what was deleted.
LEMMA ListStep ==
  UserFields /\ Pool /\ DeletedStaysAway /\ [UsersNext]_userVars => DeletedStaysAway'
  <1> SUFFICES ASSUME UserFields, Pool, DeletedStaysAway, [UsersNext]_userVars
               PROVE  DeletedStaysAway'
    OBVIOUS
  <1>1. CASE UNCHANGED userIndex /\ userPast'.erased = userPast.erased
    BY <1>1 DEF DeletedStaysAway
  <1>2. ASSUME NEW r \in userCalls, UsersArrive(r) PROVE DeletedStaysAway'
    <2>1. \A u \in r.users : u \notin userPast.erased
      BY DEF Pool, ErasedIsGone
    <2>2. CASE r.cmd = "list"
      BY <1>2, <2>1, <2>2 DEF UsersArrive, DeletedStaysAway
    <2>3. CASE r.cmd = "delete"
      <3>1. userPast'.erased = userPast.erased \cup ({r.who} \ Carried)
        BY <1>2, <2>3 DEF UsersArrive, UserFields
      <3> QED BY <1>2, <2>3, <3>1 DEF UsersArrive, Erase, DeletedStaysAway
    <2>4. CASE r.cmd = "create"
      <3>1. userPast'.erased = userPast.erased
        BY <1>2, <2>4 DEF UsersArrive, UserFields
      <3> QED BY <1>2, <2>1, <2>4, <3>1 DEF UsersArrive, DeletedStaysAway
    <2> QED BY <2>2, <2>3, <2>4, RequestKinds
  <1>3. ASSUME PageStep \/ UNCHANGED userVars PROVE UNCHANGED userIndex
    BY <1>3 DEF PageStep, userVars, ListUsers, RemoveUser, KeepUser, DeleteUser, CreateUser,
                LeaveUsers, SelectUser, ShowForm, TypeUser
  <1>4. ASSUME PageStep \/ UNCHANGED userVars PROVE userPast'.erased = userPast.erased
    BY <1>4, PageIsQuiet DEF Quiet
  <1>5. ASSUME NEW r \in userCalls, FailUsers(r)
        PROVE  UNCHANGED userIndex /\ userPast'.erased = userPast.erased
    BY <1>5 DEF FailUsers, UserFields
  <1>6. ASSUME NEW u \in Accounts, OtherDeletes(u)
        PROVE  UNCHANGED userIndex /\ userPast'.erased = userPast.erased
    BY <1>6 DEF OtherDeletes
  <1>7. ASSUME NEW r \in userCalls, ServeUsers(r) \/ AddToGroup(r) \/ UserFailureArrives(r)
        PROVE  UNCHANGED userIndex /\ userPast'.erased = userPast.erased
    BY <1>7 DEF ServeUsers, AddToGroup, UserFailureArrives
  <1> QED BY <1>1, <1>2, <1>3, <1>4, <1>5, <1>6, <1>7, Steps

\* The form: what parts its two halves is remembered.
LEMMA FormStep ==
  UserFields /\ ErrorMatchesInput /\ [UsersNext]_userVars => ErrorMatchesInput'
  <1> SUFFICES ASSUME UserFields, ErrorMatchesInput, [UsersNext]_userVars
               PROVE  ErrorMatchesInput'
    OBVIOUS
  <1>0. /\ form \in [open : BOOLEAN, username : Inputs, valid : BOOLEAN, error : BOOLEAN]
        /\ userPast \in [erased : SUBSET Accounts, halfway : SUBSET Accounts, apart : BOOLEAN]
    BY DEF UserFields
  <1> USE DEF ErrorMatchesInput
  <1>1. CASE UNCHANGED <<form, userPast>>
    BY <1>1
  <1>2. ASSUME NEW open \in BOOLEAN, ShowForm(open) PROVE ErrorMatchesInput'
    BY <1>0, <1>2 DEF ShowForm
  <1>3. ASSUME NEW input \in Inputs, TypeUser(input) PROVE ErrorMatchesInput'
    BY <1>0, <1>3 DEF TypeUser, Typed
  <1>4. CASE CreateUser
    BY <1>0, <1>4 DEF CreateUser
  <1>5. CASE LeaveUsers
    BY <1>0, <1>5 DEF LeaveUsers
  <1>6. ASSUME NEW r \in userCalls, UsersArrive(r) PROVE ErrorMatchesInput'
    <2>1. CASE r.cmd = "list"
      BY <1>6, <2>1 DEF UsersArrive
    <2>2. CASE r.cmd = "delete"
      BY <1>0, <1>6, <2>2 DEF UsersArrive
    <2>3. CASE r.cmd = "create"
      BY <1>0, <1>6, <2>3 DEF UsersArrive
    <2> QED BY <2>1, <2>2, <2>3, RequestKinds
  <1>7. ASSUME NEW r \in userCalls, FailUsers(r) PROVE ErrorMatchesInput'
    BY <1>0, <1>7 DEF FailUsers
  <1>8. ASSUME \/ ListUsers \/ RemoveUser \/ KeepUser \/ DeleteUser
               \/ \E u \in Accounts : SelectUser(u) \/ OtherDeletes(u)
               \/ \E r \in userCalls : ServeUsers(r) \/ AddToGroup(r) \/ UserFailureArrives(r)
        PROVE  UNCHANGED <<form, userPast>>
    BY <1>8 DEF ListUsers, RemoveUser, KeepUser, DeleteUser, SelectUser, OtherDeletes,
                ServeUsers, AddToGroup, UserFailureArrives
  <1>9. CASE UNCHANGED userVars
    BY <1>9 DEF userVars
  <1> QED BY <1>1, <1>2, <1>3, <1>4, <1>5, <1>6, <1>7, <1>8, <1>9 DEF UsersNext

-----------------------------------------------------------------------------
(* Types: what each kind of request names and carries.                      *)

ListCalls == [cmd : {"list"}, who : {Nobody}, step : {"asked", "answered", "failed"},
              users : SUBSET Accounts]
DeleteCalls == [cmd : {"delete"}, who : Accounts, step : {"asked", "answered", "failed"},
                users : {{}}]
CreateCalls == [cmd : {"create"}, who : Addresses,
                step : {"asked", "created", "answered", "failed"}, users : SUBSET Accounts]
Requests == ListCalls \cup DeleteCalls \cup CreateCalls

\* The dialog that asks before a deletion is about an account.
RemovesAnAccount == removing.open => removing.who \in Accounts

\* A request is one of the three kinds by its command, and keeps its kind.
LEMMA KindsOfCalls ==
  ASSUME NEW r \in Requests
  PROVE  /\ r.cmd = "list" => r \in ListCalls
         /\ r.cmd = "delete" => r \in DeleteCalls
         /\ r.cmd = "create" => r \in CreateCalls
         /\ r.step = "created" => r \in CreateCalls
         /\ r.users \subseteq Accounts
  BY DEF Requests, ListCalls, DeleteCalls, CreateCalls

LEMMA MovedCalls ==
  ASSUME userCalls \subseteq Requests, NEW r \in userCalls, NEW s \in {"created", "answered", "failed"},
         NEW us \in SUBSET Accounts,
         r.cmd # "create" => s # "created", r.cmd = "delete" => us = {},
         Step(r, s, us)
  PROVE  userCalls' \subseteq Requests
  <1> DEFINE n == [r EXCEPT !.step = s, !.users = us]
  <1>1. ASSUME r \in ListCalls PROVE n \in ListCalls
    BY <1>1 DEF ListCalls
  <1>2. ASSUME r \in DeleteCalls PROVE n \in DeleteCalls
    BY <1>2 DEF DeleteCalls
  <1>3. ASSUME r \in CreateCalls PROVE n \in CreateCalls
    BY <1>3 DEF CreateCalls
  <1>4. userCalls' = (userCalls \ {r}) \cup {n}
    BY DEF Step
  <1> HIDE DEF n
  <1> QED BY <1>1, <1>2, <1>3, <1>4 DEF Requests

LEMMA CallsStayTyped ==
  ASSUME UsersTypeOK, RemovesAnAccount, [UsersNext]_userVars
  PROVE  userCalls' \subseteq Requests
  <1> userCalls \subseteq Requests
    BY DEF UsersTypeOK, Requests, ListCalls, DeleteCalls, CreateCalls
  <1>a. /\ accounts \in [all : SUBSET Accounts, admins : SUBSET Accounts]
        /\ removing \in [open : BOOLEAN, who : {Nobody} \cup Accounts]
    BY DEF UsersTypeOK
  <1>1. CASE ListUsers
    BY <1>1 DEF ListUsers, CallUsers, UserCall, Requests, ListCalls
  <1>2. CASE DeleteUser
    BY <1>a, <1>2 DEF DeleteUser, CallUsers, UserCall, Requests, DeleteCalls, RemovesAnAccount
  <1>3. CASE CreateUser
    BY <1>3 DEF CreateUser, CallUsers, UserCall, Requests, CreateCalls
  <1>4. ASSUME NEW r \in userCalls, ServeUsers(r) PROVE userCalls' \subseteq Requests
    <2>1. CASE r.cmd = "list"
      <3>1. Step(r, "answered", accounts.all)
        BY <1>4, <2>1 DEF ServeUsers
      <3> QED BY <1>a, <2>1, <3>1, MovedCalls
    <2>2. CASE r.cmd = "delete"
      <3>1. \E s \in {"answered", "failed"} : Step(r, s, {})
        BY <1>4, <2>2 DEF ServeUsers
      <3> QED BY <2>2, <3>1, MovedCalls
    <2>3. CASE r.cmd = "create"
      <3>1. \/ Step(r, "failed", {})
            \/ \E u \in Accounts : Step(r, "created", {u})
        BY <1>4, <2>3 DEF ServeUsers
      <3>2. CASE Step(r, "failed", {})
        BY <2>3, <3>2, MovedCalls
      <3>3. ASSUME NEW u \in Accounts, Step(r, "created", {u}) PROVE userCalls' \subseteq Requests
        BY <2>3, <3>3, {u} \in SUBSET Accounts, MovedCalls
      <3> QED BY <3>1, <3>2, <3>3
    <2> QED BY <2>1, <2>2, <2>3 DEF Requests, ListCalls, DeleteCalls, CreateCalls
  <1>5. ASSUME NEW r \in userCalls, AddToGroup(r) PROVE userCalls' \subseteq Requests
    <2>1. \E s \in {"answered", "failed"} : Step(r, s, r.users)
      BY <1>5 DEF AddToGroup
    <2>2. r \in CreateCalls /\ r.users \in SUBSET Accounts
      BY <1>5, KindsOfCalls DEF AddToGroup
    <2>3. r.cmd = "create"
      BY <2>2 DEF CreateCalls
    <2> QED BY <2>1, <2>2, <2>3, MovedCalls
  <1>6. ASSUME NEW r \in userCalls, FailUsers(r) PROVE userCalls' \subseteq Requests
    <2>1. Step(r, "failed", {})
      BY <1>6 DEF FailUsers
    <2> QED BY <2>1, MovedCalls
  <1>7. userCalls' \subseteq userCalls \/ ListUsers \/ DeleteUser \/ CreateUser
        \/ \E r \in userCalls : ServeUsers(r) \/ AddToGroup(r) \/ FailUsers(r)
    BY DEF UsersNext, RemoveUser, KeepUser, LeaveUsers, SelectUser, OtherDeletes, ShowForm,
           TypeUser, UsersArrive, UserFailureArrives, userVars
  <1> QED BY <1>1, <1>2, <1>3, <1>4, <1>5, <1>6, <1>7

\* The pool stays within its bound, and administrators are users.
LEMMA PoolStaysTyped ==
  ASSUME UsersTypeOK, [UsersNext]_userVars
  PROVE  /\ accounts' \in [all : SUBSET Accounts, admins : SUBSET Accounts]
         /\ accounts'.admins \subseteq accounts'.all /\ made' \in [Addresses -> 0..MaxMade]
  <1> DEFINE Goal == /\ accounts' \in [all : SUBSET Accounts, admins : SUBSET Accounts]
                     /\ accounts'.admins \subseteq accounts'.all
                     /\ made' \in [Addresses -> 0..MaxMade]
  <1>a. /\ accounts \in [all : SUBSET Accounts, admins : SUBSET Accounts]
        /\ accounts.admins \subseteq accounts.all /\ made \in [Addresses -> 0..MaxMade]
    BY DEF UsersTypeOK
  <1>1. CASE UNCHANGED <<accounts, made>>
    BY <1>a, <1>1
  <1>2. ASSUME NEW u, UNCHANGED made,
               accounts' = [all |-> accounts.all \ {u}, admins |-> accounts.admins \ {u}]
        PROVE  Goal
    BY <1>a, <1>2
  <1>3. ASSUME NEW r \in userCalls, ServeUsers(r) PROVE Goal
    <2>1. CASE r.cmd = "list"
      BY <1>1, <1>3, <2>1 DEF ServeUsers
    <2>2. CASE r.cmd = "delete"
      BY <1>2, <1>3, <2>2 DEF ServeUsers
    <2>3. CASE r.cmd = "create"
      <3>1. CASE UNCHANGED <<accounts, made>>
        BY <1>1, <3>1
      <3>2. ASSUME NEW u \in Accounts, u = <<r.who, made[r.who] + 1>>,
                   made' = [made EXCEPT ![r.who] = @ + 1],
                   accounts' = [accounts EXCEPT !.all = @ \cup {u}]
            PROVE  Goal
        <4>1. r.who \in Addresses /\ made[r.who] + 1 \in 1..MaxMade
          BY <3>2 DEF Accounts
        <4>2. made' \in [Addresses -> 0..MaxMade]
          BY <1>a, <3>2, <4>1, UsersAssumption
        <4> QED BY <1>a, <3>2, <4>2
      <3>3. \/ UNCHANGED <<accounts, made>>
            \/ \E u \in Accounts : /\ u = <<r.who, made[r.who] + 1>>
                                   /\ made' = [made EXCEPT ![r.who] = @ + 1]
                                   /\ accounts' = [accounts EXCEPT !.all = @ \cup {u}]
        BY <1>3, <2>3 DEF ServeUsers
      <3> QED BY <3>1, <3>2, <3>3
    <2> QED BY <2>1, <2>2, <2>3 DEF UsersTypeOK
  <1>4. ASSUME NEW r \in userCalls, AddToGroup(r) PROVE Goal
    <2>1. accounts' = [accounts EXCEPT !.admins = @ \cup Existing(r.who)] /\ UNCHANGED made
      BY <1>4 DEF AddToGroup, Added
    <2>2. Existing(r.who) \subseteq accounts.all
      BY DEF Existing
    <2> HIDE DEF Goal
    <2>3. accounts'.all = accounts.all /\ accounts'.admins = accounts.admins \cup Existing(r.who)
      BY <1>a, <2>1
    <2> QED BY <1>a, <2>1, <2>2, <2>3 DEF Goal
  <1>5. \/ UNCHANGED <<accounts, made>>
        \/ \E u \in Accounts : OtherDeletes(u)
        \/ \E r \in userCalls : ServeUsers(r) \/ AddToGroup(r)
    BY DEF UsersNext, ListUsers, RemoveUser, KeepUser, DeleteUser, CreateUser, LeaveUsers,
           SelectUser, ShowForm, TypeUser, FailUsers, UsersArrive, UserFailureArrives, userVars
  <1>6. ASSUME NEW u \in Accounts, OtherDeletes(u) PROVE Goal
    BY <1>2, <1>6 DEF OtherDeletes
  <1> QED BY <1>1, <1>3, <1>4, <1>5, <1>6

\* The page: the list holds accounts, and so do the selection and the dialog.
LEMMA PageStaysTyped ==
  ASSUME UsersTypeOK, RemovesAnAccount, [UsersNext]_userVars
  PROVE  /\ userIndex' \in {Nobody} \cup SUBSET Accounts
         /\ removing' \in [open : BOOLEAN, who : {Nobody} \cup Accounts]
         /\ RemovesAnAccount'
  <1> DEFINE Goal == /\ userIndex' \in {Nobody} \cup SUBSET Accounts
                     /\ removing' \in [open : BOOLEAN, who : {Nobody} \cup Accounts]
                     /\ RemovesAnAccount'
  <1>a. /\ userIndex \in {Nobody} \cup SUBSET Accounts
        /\ selectedUser \in {Nobody} \cup Accounts
        /\ removing \in [open : BOOLEAN, who : {Nobody} \cup Accounts]
    BY DEF UsersTypeOK
  <1> USE DEF RemovesAnAccount
  <1>1. CASE UNCHANGED <<userIndex, removing>>
    BY <1>a, <1>1
  <1>2. CASE RemoveUser
    BY <1>a, <1>2 DEF RemoveUser
  <1>3. CASE KeepUser
    BY <1>a, <1>3 DEF KeepUser
  <1>4. CASE DeleteUser
    BY <1>a, <1>4 DEF DeleteUser
  <1>5. ASSUME NEW r \in userCalls, UsersArrive(r) PROVE Goal
    <2>1. r.users \subseteq Accounts /\ r.cmd \in {"list", "delete", "create"}
      BY DEF UsersTypeOK
    <2> QED BY <1>a, <1>5, <2>1 DEF UsersArrive, Erase
  <1>6. \/ UNCHANGED <<userIndex, removing>> \/ RemoveUser \/ KeepUser \/ DeleteUser
        \/ \E r \in userCalls : UsersArrive(r)
    BY DEF UsersNext, ListUsers, CreateUser, LeaveUsers, SelectUser, OtherDeletes, ShowForm,
           TypeUser, ServeUsers, AddToGroup, FailUsers, UserFailureArrives, userVars
  <1> QED BY <1>1, <1>2, <1>3, <1>4, <1>5, <1>6

LEMMA UsersStayTyped ==
  ASSUME UserFields, Pool, UsersTypeOK, RemovesAnAccount, [UsersNext]_userVars
  PROVE  UsersTypeOK' /\ RemovesAnAccount'
  <1>1. UserFields'
    BY PoolStep
  <1>2. userCalls' \subseteq Requests
    BY CallsStayTyped
  <1> QED BY <1>1, <1>2, PoolStaysTyped, PageStaysTyped
          DEF UsersTypeOK, UserFields, Requests, ListCalls, DeleteCalls, CreateCalls

-----------------------------------------------------------------------------
LEMMA UsersTypedInit == UsersInit => UsersTypeOK /\ RemovesAnAccount
  <1> SUFFICES ASSUME UsersInit PROVE UsersTypeOK /\ RemovesAnAccount
    OBVIOUS
  <1>1. PICK some \in SUBSET Addresses :
          /\ made = [a \in Addresses |-> IF a \in some THEN 1 ELSE 0]
          /\ accounts = [all |-> some \X {1}, admins |-> some \X {1}]
    BY DEF UsersInit
  <1>2. some \X {1} \subseteq Accounts
    BY UsersAssumption DEF Accounts
  <1>3. made \in [Addresses -> 0..MaxMade]
    BY <1>1, UsersAssumption
  <1> QED BY <1>1, <1>2, <1>3 DEF UsersInit, UsersTypeOK, RemovesAnAccount, Inputs

LEMMA UsersInvInit == UsersInit => UserFields /\ Pool /\ DeletedStaysAway /\ ErrorMatchesInput
  <1> SUFFICES ASSUME UsersInit
               PROVE  UserFields /\ Pool /\ DeletedStaysAway /\ ErrorMatchesInput
    OBVIOUS
  <1>1. PICK some \in SUBSET Addresses :
          /\ made = [a \in Addresses |-> IF a \in some THEN 1 ELSE 0]
          /\ accounts = [all |-> some \X {1}, admins |-> some \X {1}]
    BY DEF UsersInit
  <1>2. some \X {1} \subseteq Known
    BY <1>1, UsersAssumption DEF Known, Accounts
  <1>3. some \X {1} \subseteq Accounts
    BY <1>2 DEF Known
  <1>4. UserFields
    BY <1>1, <1>3 DEF UsersInit, UserFields, Inputs
  <1>5. Pool
    BY <1>1, <1>2 DEF UsersInit, Pool, Counted, CreatedOfAddress, DeletedIsGone, ErasedIsGone,
                      EveryUserIsAdmin
  <1>6. DeletedStaysAway /\ ErrorMatchesInput
    BY DEF UsersInit, DeletedStaysAway, ErrorMatchesInput
  <1> QED BY <1>4, <1>5, <1>6

\* Whichever administrators create and delete users at once, and whatever calls fail
\* or come late (PclusterApiHandler.py, Users/*.tsx): every account is an
\* administrator's, deletions stay, and the form marks what is invalid, unless one of
\* the causes the properties name has happened.
THEOREM UsersAlwaysAgree == UsersSpec => []UsersAgree
  <1> DEFINE Inv == /\ UserFields /\ Pool /\ DeletedStaysAway /\ ErrorMatchesInput
                    /\ UsersTypeOK /\ RemovesAnAccount
  <1>1. Inv /\ [UsersNext]_userVars => Inv'
    BY PoolStep, ListStep, FormStep, UsersStayTyped
  <1>2. Inv => UsersAgree
    BY DEF Pool, UsersAgree
  <1>3. UsersInit => Inv
    BY UsersInvInit, UsersTypedInit
  <1> QED BY <1>1, <1>2, <1>3, PTL DEF UsersSpec

-----------------------------------------------------------------------------
(***************************************************************************)
(* Theorems about CostMonitoring, for answers of any number of pages: the   *)
(* page knows what it activated, and shows costs only when they are whole.   *)
(*                                                                         *)
(* What the page knows is true because Cost Explorer does not go back: once  *)
(* active, the tag stays active, so every answer given since says so.        *)
(***************************************************************************)

\* The records keep their fields, as far as the argument looks at them.
Fields ==
  /\ statusQuery \in [data : Statuses, failed : BOOLEAN,
                      fetch : [step : {"none", "asked", "answered"}, active : Statuses]]
  /\ activation \in [step : {"none", "asked", "done", "failed", "405"}, waits : BOOLEAN]
  /\ costPast \in [activated : BOOLEAN, raced : BOOLEAN]

\* An activation that was carried out has made the tag active, and it stays so.
StaysActive == activation.step = "done" \/ costPast.activated => IsActive

\* So an answer on its way that was asked after the activation says so too.
AnswersKnow ==
  costPast.activated /\ ~costPast.raced /\ statusQuery.fetch.step = "answered"
    => statusQuery.fetch.active = "yes"

\* Pages are read from the first, and reading ends with an answer of one page.
Paged ==
  /\ costs \in [pages : Nat \ {0}, read : SUBSET Nat, pc : {"idle", "reading", "done"}]
  /\ costs.pc = "idle" => costs.read = {}
  /\ costs.pc = "reading" => costs.read \subseteq {1}
  /\ costs.pc = "done" => costs.pages = 1 /\ costs.read = {1}

CostInv == CostTypeOK /\ Fields /\ StaysActive /\ AnswersKnow /\ ActivationIsKnown /\ Paged

LEMMA CostInvInit == CostInit => CostInv
  <1> SUFFICES ASSUME CostInit PROVE CostInv
    OBVIOUS
  <1>1. Fields
    BY DEF CostInit, Fields, Statuses, NoFetch, NoActivation
  <1>2. StaysActive /\ AnswersKnow /\ ActivationIsKnown
    BY DEF CostInit, StaysActive, AnswersKnow, ActivationIsKnown, NoActivation
  <1>3. Paged
    BY DEF CostInit, Paged
  <1>4. CostTypeOK
    BY <1>1 DEF CostInit, CostTypeOK, Fields
  <1> QED BY <1>1, <1>2, <1>3, <1>4 DEF CostInv

LEMMA FieldsStep == Fields /\ [CostNext]_costVars => Fields'
  <1> SUFFICES ASSUME Fields, [CostNext]_costVars PROVE Fields'
    OBVIOUS
  <1> USE DEF Fields, Statuses, NoFetch, NoActivation
  <1>1. CASE ShowDetails
    BY <1>1 DEF ShowDetails, Fetch
  <1>2. CASE LeaveDetails
    BY <1>2 DEF LeaveDetails
  <1>3. CASE InvalidateQueries
    BY <1>3 DEF InvalidateQueries, Fetch
  <1>4. CASE ServeStatus
    BY <1>4 DEF ServeStatus
  <1>5. CASE StatusArrives
    BY <1>5 DEF StatusArrives
  <1>6. CASE StatusFails
    BY <1>6 DEF StatusFails
  <1>7. CASE Activate
    BY <1>7 DEF Activate
  <1>8. CASE ServeActivation
    BY <1>8 DEF ServeActivation
  <1>9. CASE LoseActivation
    BY <1>9 DEF LoseActivation
  <1>10. CASE ActivationEnds
    BY <1>10 DEF ActivationEnds, Activated
  <1>11. CASE CloseInstructions
    BY <1>11 DEF CloseInstructions
  <1>12. CASE AccountChanges
    BY <1>12 DEF AccountChanges
  <1>13. CASE AskCosts
    BY <1>13 DEF AskCosts
  <1>14. CASE ReadCosts
    BY <1>14 DEF ReadCosts
  <1>15. CASE UNCHANGED costVars
    BY <1>15 DEF costVars
  <1> QED BY <1>1, <1>2, <1>3, <1>4, <1>5, <1>6, <1>7, <1>8,
            <1>9, <1>10, <1>11, <1>12, <1>13, <1>14, <1>15
          DEF CostNext

\* What Fields leaves out: the account, the page and the pages of an answer.
LEMMA CostTypesStep == Fields /\ CostTypeOK /\ [CostNext]_costVars => CostTypeOK'
  <1> DEFINE Rest == /\ explorer \in BOOLEAN /\ tag \in Tag
                     /\ details \in BOOLEAN /\ instruct \in BOOLEAN
             Costs == costs \in [pages : 1..MaxPages, read : SUBSET (1..MaxPages),
                                pc : {"idle", "reading", "done"}]
  <1> SUFFICES ASSUME Fields, CostTypeOK, [CostNext]_costVars PROVE CostTypeOK'
    OBVIOUS
  <1> Rest /\ Costs
    BY DEF CostTypeOK
  <1>1. Rest'
    BY DEF CostNext, ShowDetails, LeaveDetails, InvalidateQueries, ServeStatus, StatusArrives,
           StatusFails, Activate, ServeActivation, LoseActivation, ActivationEnds,
           CloseInstructions, AccountChanges, AskCosts, ReadCosts, costVars, Tag, CostTypeOK
  <1>2. Costs'
    <2>1. CASE ReadCosts
      <3>1. 1 \in 1..MaxPages
        BY CostAssumption
      <3> QED BY <2>1, <3>1 DEF ReadCosts, Page
    <2>2. CASE AskCosts
      BY <2>2 DEF AskCosts
    <2>3. \/ UNCHANGED costs \/ ReadCosts \/ AskCosts
      BY DEF CostNext, ShowDetails, LeaveDetails, InvalidateQueries, ServeStatus, StatusArrives,
             StatusFails, Activate, ServeActivation, LoseActivation, ActivationEnds,
             CloseInstructions, AccountChanges, costVars
    <2> QED BY <2>1, <2>2, <2>3
  <1>3. /\ statusQuery' \in [data : Statuses, failed : BOOLEAN,
                            fetch : [step : {"none", "asked", "answered"}, active : Statuses]]
        /\ activation' \in [step : {"none", "asked", "done", "failed", "405"}, waits : BOOLEAN]
    BY FieldsStep DEF Fields
  <1> QED BY <1>1, <1>2, <1>3 DEF CostTypeOK

LEMMA StaysActiveStep == Fields /\ StaysActive /\ [CostNext]_costVars => StaysActive'
  <1> SUFFICES ASSUME Fields, StaysActive, [CostNext]_costVars PROVE StaysActive'
    OBVIOUS
  <1> USE DEF StaysActive, IsActive
  <1>1. CASE ShowDetails
    BY <1>1 DEF ShowDetails
  <1>2. CASE LeaveDetails
    BY <1>2 DEF LeaveDetails, Fields
  <1>3. CASE InvalidateQueries
    BY <1>3 DEF InvalidateQueries
  <1>4. CASE ServeStatus
    BY <1>4 DEF ServeStatus
  <1>5. CASE StatusArrives
    BY <1>5 DEF StatusArrives
  <1>6. CASE StatusFails
    BY <1>6 DEF StatusFails
  <1>7. CASE Activate
    BY <1>7 DEF Activate, Fields
  <1>8. CASE ServeActivation
    BY <1>8 DEF ServeActivation, Fields
  <1>9. CASE LoseActivation
    BY <1>9 DEF LoseActivation, Fields
  <1>10. CASE ActivationEnds
    BY <1>10 DEF ActivationEnds, NoActivation
  <1>11. CASE CloseInstructions
    BY <1>11 DEF CloseInstructions
  <1>12. CASE AccountChanges
    BY <1>12 DEF AccountChanges
  <1>13. CASE AskCosts
    BY <1>13 DEF AskCosts
  <1>14. CASE ReadCosts
    BY <1>14 DEF ReadCosts
  <1>15. CASE UNCHANGED costVars
    BY <1>15 DEF costVars
  <1> QED BY <1>1, <1>2, <1>3, <1>4, <1>5, <1>6, <1>7, <1>8,
            <1>9, <1>10, <1>11, <1>12, <1>13, <1>14, <1>15
          DEF CostNext

LEMMA KnowStep ==
  Fields /\ StaysActive /\ AnswersKnow /\ ActivationIsKnown /\ [CostNext]_costVars
    => (AnswersKnow /\ ActivationIsKnown)'
  <1> SUFFICES ASSUME Fields, StaysActive, AnswersKnow, ActivationIsKnown, [CostNext]_costVars
               PROVE  (AnswersKnow /\ ActivationIsKnown)'
    OBVIOUS
  <1> USE DEF Fields, AnswersKnow, ActivationIsKnown
  <1>1. CASE ShowDetails
    BY <1>1 DEF ShowDetails, Fetch
  <1>2. CASE LeaveDetails
    BY <1>2 DEF LeaveDetails
  <1>3. CASE InvalidateQueries
    BY <1>3 DEF InvalidateQueries, Fetch
  <1>4. CASE ServeStatus
    BY <1>4 DEF ServeStatus, StaysActive
  <1>5. CASE StatusArrives
    BY <1>5 DEF StatusArrives, NoFetch
  <1>6. CASE StatusFails
    BY <1>6 DEF StatusFails, NoFetch
  <1>7. CASE Activate
    BY <1>7 DEF Activate
  <1>8. CASE ServeActivation
    BY <1>8 DEF ServeActivation
  <1>9. CASE LoseActivation
    BY <1>9 DEF LoseActivation
  <1>10. CASE ActivationEnds
    <2>1. CASE activation.step = "done"
      <3>1. statusQuery'.data = "yes" /\ statusQuery'.fetch = statusQuery.fetch
        BY <1>10, <2>1 DEF ActivationEnds, Activated
      <3>2. costPast'.raced = (statusQuery.fetch # NoFetch)
        BY <1>10, <2>1 DEF ActivationEnds
      <3>3. NoFetch.step = "none"
        BY DEF NoFetch
      <3>4. ~costPast'.raced => statusQuery'.fetch.step = "none"
        BY <3>1, <3>2, <3>3
      <3> QED BY <3>1, <3>4
    <2>2. CASE activation.step # "done"
      BY <1>10, <2>2 DEF ActivationEnds
    <2> QED BY <2>1, <2>2
  <1>11. CASE CloseInstructions
    BY <1>11 DEF CloseInstructions
  <1>12. CASE AccountChanges
    BY <1>12 DEF AccountChanges
  <1>13. CASE AskCosts
    BY <1>13 DEF AskCosts
  <1>14. CASE ReadCosts
    BY <1>14 DEF ReadCosts
  <1>15. CASE UNCHANGED costVars
    BY <1>15 DEF costVars
  <1> QED BY <1>1, <1>2, <1>3, <1>4, <1>5, <1>6, <1>7, <1>8,
            <1>9, <1>10, <1>11, <1>12, <1>13, <1>14, <1>15
          DEF CostNext

LEMMA PagedStep == Paged /\ [CostNext]_costVars => Paged'
  <1> SUFFICES ASSUME Paged, [CostNext]_costVars PROVE Paged'
    OBVIOUS
  <1> USE DEF Paged
  <1>1. CASE ShowDetails
    BY <1>1 DEF ShowDetails
  <1>2. CASE LeaveDetails
    BY <1>2 DEF LeaveDetails
  <1>3. CASE InvalidateQueries
    BY <1>3 DEF InvalidateQueries
  <1>4. CASE ServeStatus
    BY <1>4 DEF ServeStatus
  <1>5. CASE StatusArrives
    BY <1>5 DEF StatusArrives
  <1>6. CASE StatusFails
    BY <1>6 DEF StatusFails
  <1>7. CASE Activate
    BY <1>7 DEF Activate
  <1>8. CASE ServeActivation
    BY <1>8 DEF ServeActivation
  <1>9. CASE LoseActivation
    BY <1>9 DEF LoseActivation
  <1>10. CASE ActivationEnds
    BY <1>10 DEF ActivationEnds
  <1>11. CASE CloseInstructions
    BY <1>11 DEF CloseInstructions
  <1>12. CASE AccountChanges
    BY <1>12 DEF AccountChanges
  <1>13. CASE AskCosts
    BY <1>13 DEF AskCosts
  <1>14. CASE ReadCosts
    <2>1. /\ costs'.read = costs.read \cup {1} /\ costs'.pages = costs.pages
          /\ costs'.pc = IF costs.pages > 1 THEN "reading" ELSE "done"
      BY <1>14 DEF ReadCosts, Page, More
    <2>2. costs'.read = {1}
      BY <1>14, <2>1 DEF ReadCosts
    <2>3. costs' \in [pages : Nat \ {0}, read : SUBSET Nat, pc : {"idle", "reading", "done"}]
      <3>1. costs'.read \in SUBSET Nat /\ costs'.pc \in {"idle", "reading", "done"}
        BY <2>1, <2>2
      <3>2. costs' = [costs EXCEPT !.read = costs'.read, !.pc = costs'.pc]
        BY <1>14 DEF ReadCosts
      <3> QED BY <3>1, <3>2
    <2>4. costs'.pc = "done" => costs'.pages = 1
      BY <2>1
    <2> QED BY <2>1, <2>2, <2>3, <2>4
  <1>15. CASE UNCHANGED costVars
    BY <1>15 DEF costVars
  <1> QED BY <1>1, <1>2, <1>3, <1>4, <1>5, <1>6, <1>7, <1>8,
            <1>9, <1>10, <1>11, <1>12, <1>13, <1>14, <1>15
          DEF CostNext

\* Whatever answers are lost, come late or overlap, and however many pages there
\* are: after an activation the page knows of it, unless a request for the status
\* was under way, and costs are shown only when they are all there.
THEOREM CostsAlwaysAgree == CostSpec => []CostsAgree
  <1>1. CostInv /\ [CostNext]_costVars => CostInv'
    BY FieldsStep, CostTypesStep, StaysActiveStep, KnowStep, PagedStep DEF CostInv
  <1>2. CostInv => CostsAgree
    <2>1. 1..1 = {1}
      OBVIOUS
    <2>2. ASSUME Paged, costs.pc = "done" PROVE costs.read = 1..costs.pages
      BY <2>1, <2>2 DEF Paged
    <2> QED BY <2>2 DEF CostInv, CostsAgree, CostsAreWhole
  <1> QED BY <1>1, <1>2, CostInvInit, PTL DEF CostSpec

-----------------------------------------------------------------------------
(***************************************************************************)
(* Theorems about CustomImages, for any images and any number of requests    *)
(* under way: list, details and dialog show what was asked last, or wait.     *)
(*                                                                         *)
(* The properties speak of the time when no request of a kind is under way;   *)
(* the invariant says what the requests are about until then.                 *)
(***************************************************************************)

ImageRequests ==
  [cmd : {"list"}, what : ImageStatuses] \cup
    [cmd : {"describe", "build", "configuration", "events"}, what : AllImages]

\* The variables and the history keep their shape.
ImagesShape ==
  /\ ImagesTypeOK
  /\ imagePast \in [mixed : BOOLEAN, lost : BOOLEAN, reselected : BOOLEAN, failed : BOOLEAN]

\* Until a status is chosen the select shows the one asked first.
FilterAgrees == statusFilter.stored = Nothing => statusFilter.shown = "AVAILABLE"

\* Lists under way are of the status shown, and so is the list once they came.
ListAsked ==
  pageShown /\ imagePast.mixed = FALSE =>
    /\ \A r \in About({"list"}) : r.what = statusFilter.shown
    /\ About({"list"}) = {} => imageList \in {Nothing, statusFilter.shown}

\* Configurations under way are the image's, and so is the one that came.
ConfigurationAsked ==
  detailsTab = "configuration" /\ imagePast.reselected = FALSE /\ imagePast.failed = FALSE =>
    /\ \A r \in About({"configuration"}) : r.what = image
    /\ About({"configuration"}) = {} => config = image

\* One build at a time, and the dialog waits for it.
OneBuild ==
  /\ BuildIsUnderWay
  /\ \A r, s \in About({"build"}) : r = s

ImagesInv == /\ ImagesShape /\ FilterAgrees /\ ListAsked /\ ConfigurationAsked
             /\ DetailsOnTheirWay /\ OneBuild

-----------------------------------------------------------------------------
LEMMA CallIsAdded ==
  ASSUME NEW cmd, NEW what, CallImages(cmd, what)
  PROVE  /\ Call(cmd, what) \in imageCalls' /\ imageCalls \subseteq imageCalls'
         /\ \A r \in imageCalls' : r \in imageCalls \/ r = Call(cmd, what)
         /\ Call(cmd, what).cmd = cmd /\ Call(cmd, what).what = what
  BY DEF CallImages, Call

LEMMA RequestsAreCalls ==
  ASSUME ImagesTypeOK, NEW r \in imageCalls
  PROVE  r = Call(r.cmd, r.what)
  <1>1. \/ r \in [cmd : {"list"}, what : ImageStatuses]
        \/ r \in [cmd : {"describe", "build", "configuration", "events"}, what : AllImages]
    BY DEF ImagesTypeOK
  <1> QED BY <1>1 DEF Call

LEMMA ImagesStart == ImagesInit => ImagesInv
  <1> SUFFICES ASSUME ImagesInit PROVE ImagesInv
    OBVIOUS
  <1> USE DEF ImagesInit
  <1>1. ImagesShape
    <2>1. imageCalls \subseteq [cmd : {"list"}, what : ImageStatuses]
      BY DEF Call, ImageStatuses
    <2> QED BY <2>1 DEF ImagesShape, ImagesTypeOK, ImageStatuses, DetailsTabs
  <1>2. FilterAgrees /\ ListAsked /\ ConfigurationAsked /\ DetailsOnTheirWay
    BY DEF FilterAgrees, ListAsked, ConfigurationAsked, DetailsOnTheirWay
  <1>3. OneBuild
    BY DEF OneBuild, BuildIsUnderWay, About, Call
  <1> QED BY <1>1, <1>2, <1>3 DEF ImagesInv

-----------------------------------------------------------------------------
(* The steps.                                                               *)

LEMMA ShapeStays == ImagesShape /\ [ImagesNext]_imageVars => ImagesShape'
  <1> SUFFICES ASSUME ImagesShape, [ImagesNext]_imageVars PROVE ImagesShape'
    OBVIOUS
  <1> USE DEF ImagesShape, ImagesTypeOK
  <1>0. imageCalls \subseteq ImageRequests
    BY DEF ImageRequests
  <1>a. ASSUME NEW s \in ImageStatuses, CallImages("list", s)
        PROVE  imageCalls' \subseteq ImageRequests
    <2>1. Call("list", s) \in ImageRequests
      BY DEF Call, ImageRequests
    <2> QED BY <1>0, <1>a, <2>1 DEF CallImages
  <1>b. ASSUME NEW i \in AllImages, NEW c \in {"describe", "build", "configuration", "events"},
               CallImages(c, i)
        PROVE  imageCalls' \subseteq ImageRequests
    <2>1. Call(c, i) \in ImageRequests
      BY DEF Call, ImageRequests
    <2> QED BY <1>0, <1>b, <2>1 DEF CallImages
  <1>c. MountStatus \in ImageStatuses
    BY DEF MountStatus, ImageStatuses
  <1>1. CASE ShowImages
    <2>1. imageCalls' \subseteq ImageRequests
      BY <1>a, <1>c, <1>1 DEF ShowImages
    <2> QED BY <1>1, <2>1 DEF ImageRequests, ShowImages, ImageStatuses, DetailsTabs
  <1>2. CASE LeaveImages
    BY <1>2 DEF LeaveImages
  <1>3. CASE RefreshImages
    <2>1. imageCalls' \subseteq ImageRequests
      BY <1>a, <1>c, <1>3 DEF RefreshImages
    <2> QED BY <1>3, <2>1 DEF ImageRequests, RefreshImages, DetailsTabs
  <1>4. ASSUME NEW s \in ImageStatuses, ChooseStatus(s) PROVE ImagesShape'
    <2>1. imageCalls' \subseteq ImageRequests
      BY <1>a, <1>4 DEF ChooseStatus
    <2> QED BY <1>4, <2>1 DEF ImageRequests, ChooseStatus, Chosen
  <1>5. ASSUME NEW i \in AllImages, SelectImage(i) PROVE ImagesShape'
    <2>1. imageCalls' \subseteq ImageRequests
      BY <1>b, <1>5 DEF SelectImage, Described
    <2> QED BY <1>5, <2>1 DEF ImageRequests, SelectImage
  <1>6. ASSUME NEW t \in DetailsTabs, OpenDetails(t) PROVE ImagesShape'
    <2>1. imageCalls' \subseteq ImageRequests
      <3>1. image \in AllImages
        BY <1>6 DEF OpenDetails
      <3>2. CASE t = "properties"
        BY <1>0, <1>6, <3>2 DEF OpenDetails, AskDetails
      <3>3. CASE t \in {"configuration", "events"}
        <4>1. CallImages(t, image)
          BY <1>6, <3>3 DEF OpenDetails, AskDetails
        <4> QED BY <1>b, <3>1, <3>3, <4>1
      <3> QED BY <3>2, <3>3 DEF DetailsTabs
    <2> QED BY <1>6, <2>1 DEF ImageRequests, OpenDetails
  <1>7. CASE OpenBuild \/ CloseBuild
    BY <1>7 DEF OpenBuild, CloseBuild, Closed
  <1>8. ASSUME NEW i \in AllImages, Build(i) PROVE ImagesShape'
    <2>1. imageCalls' \subseteq ImageRequests
      BY <1>b, <1>8 DEF Build
    <2> QED BY <1>8, <2>1 DEF ImageRequests, Build, Started
  <1>9. ASSUME NEW r \in imageCalls, ImageArrives(r) PROVE ImagesShape'
    <2>1. imageCalls' \subseteq ImageRequests
      BY <1>0, <1>9 DEF ImageArrives
    <2>2. known' \in [described : SUBSET AllImages, events : SUBSET AllImages]
      BY <1>9 DEF ImageArrives
    <2>3. imageList' \in ImageStatuses \cup {Nothing} /\ config' \in AllImages \cup {Nothing}
      BY <1>9 DEF ImageArrives
    <2>4. build' \in [dialog : BOOLEAN, pending : BOOLEAN, errors : BOOLEAN]
      BY <1>9 DEF ImageArrives, Closed
    <2> QED BY <1>9, <2>1, <2>2, <2>3, <2>4 DEF ImageRequests, ImageArrives
  <1>10. ASSUME NEW r \in imageCalls, ImageFails(r) PROVE ImagesShape'
    <2>1. build' \in [dialog : BOOLEAN, pending : BOOLEAN, errors : BOOLEAN]
      BY <1>10 DEF ImageFails, Failed
    <2>2. imagePast' \in [mixed : BOOLEAN, lost : BOOLEAN, reselected : BOOLEAN, failed : BOOLEAN]
      BY <1>10 DEF ImageFails
    <2> QED BY <1>10, <2>1, <2>2 DEF ImageFails
  <1>11. CASE UNCHANGED imageVars
    BY <1>11 DEF imageVars
  <1> QED BY <1>1, <1>2, <1>3, <1>4, <1>5, <1>6, <1>7, <1>8, <1>9, <1>10, <1>11 DEF ImagesNext

\* What a request adds to those of one kind.
LEMMA AboutAdded ==
  ASSUME NEW cmd, NEW what, CallImages(cmd, what), NEW kind
  PROVE  cmd # kind => About({kind})' = About({kind})
  BY DEF CallImages, About, Call

LEMMA AboutFirst ==
  ASSUME NEW kind, NEW what, CallImages(kind, what), About({kind}) = {}
  PROVE  About({kind})' = {Call(kind, what)}
  BY DEF CallImages, About, Call

\* What an answer leaves of those of one kind.
LEMMA AboutAnswered ==
  ASSUME NEW r \in imageCalls, imageCalls' = imageCalls \ {r}, NEW kind
  PROVE  /\ r.cmd # kind => About({kind})' = About({kind})
         /\ r.cmd = kind => r \in About({kind}) /\ About({kind})' = About({kind}) \ {r}
  BY DEF About

LEMMA FilterStays == ImagesInv /\ [ImagesNext]_imageVars => FilterAgrees'
  <1> SUFFICES ASSUME ImagesShape, FilterAgrees, [ImagesNext]_imageVars PROVE FilterAgrees'
    BY DEF ImagesInv
  <1>1. CASE ShowImages
    BY <1>1 DEF ShowImages, FilterAgrees, ImagesShape, ImagesTypeOK
  <1>2. ASSUME NEW s \in ImageStatuses, ChooseStatus(s) PROVE FilterAgrees'
    BY <1>2, ImagesAssumption DEF ChooseStatus, Chosen, FilterAgrees, ImageStatuses
  <1>3. statusFilter' = statusFilter \/ ShowImages \/ \E s \in ImageStatuses : ChooseStatus(s)
    BY DEF ImagesNext, imageVars, LeaveImages, RefreshImages, SelectImage, OpenDetails, OpenBuild,
           CloseBuild, Build, ImageArrives, ImageFails
  <1> QED BY <1>1, <1>2, <1>3 DEF FilterAgrees

LEMMA ListStays == ImagesInv /\ [ImagesNext]_imageVars => ListAsked'
  <1> SUFFICES ASSUME ImagesInv, [ImagesNext]_imageVars, pageShown', imagePast'.mixed = FALSE
               PROVE  /\ \A r \in About({"list"})' : r.what = statusFilter'.shown
                      /\ About({"list"})' = {} => imageList' \in {Nothing, statusFilter'.shown}
    BY DEF ListAsked
  <1> DEFINE Goal == /\ \A r \in About({"list"})' : r.what = statusFilter'.shown
                     /\ About({"list"})' = {} => imageList' \in {Nothing, statusFilter'.shown}
  <1> ImagesShape /\ FilterAgrees /\ ListAsked
    BY DEF ImagesInv
  <1>0. /\ statusFilter \in [shown : ImageStatuses, stored : ImageStatuses \cup {Nothing}]
        /\ imagePast \in [mixed : BOOLEAN, lost : BOOLEAN, reselected : BOOLEAN, failed : BOOLEAN]
    BY DEF ImagesShape, ImagesTypeOK
  <1>a. ASSUME NEW s, CallImages("list", s), About({"list"}) = {}, s = statusFilter'.shown
        PROVE  Goal
    <2>1. About({"list"})' = {Call("list", s)}
      BY <1>a, AboutFirst
    <2>2. Call("list", s).what = s
      BY DEF Call
    <2> QED BY <1>a, <2>1, <2>2
  <1>1. CASE ShowImages
    <2>1. About({"list"}) = {} /\ statusFilter.stored \in {Nothing, "AVAILABLE"}
      BY <1>0, <1>1 DEF ShowImages
    <2>2. MountStatus = "AVAILABLE" /\ statusFilter'.shown = "AVAILABLE"
      BY <1>0, <1>1, <2>1 DEF ShowImages, MountStatus
    <2> QED BY <1>1, <1>a, <2>1, <2>2 DEF ShowImages
  <1>2. CASE RefreshImages
    <2>1. About({"list"}) = {} /\ statusFilter.stored \in {Nothing, statusFilter.shown}
      BY <1>0, <1>2 DEF RefreshImages
    <2>2. MountStatus = statusFilter'.shown
      BY <1>2, <2>1 DEF RefreshImages, MountStatus, FilterAgrees
    <2> QED BY <1>2, <1>a, <2>1, <2>2 DEF RefreshImages
  <1>3. ASSUME NEW s \in ImageStatuses, ChooseStatus(s) PROVE Goal
    <2>1. About({"list"}) = {} /\ statusFilter'.shown = s
      BY <1>0, <1>3 DEF ChooseStatus, Chosen
    <2> QED BY <1>3, <1>a, <2>1 DEF ChooseStatus
  <1>4. ASSUME /\ About({"list"})' = About({"list"}) /\ imageList' = imageList
               /\ statusFilter' = statusFilter /\ pageShown' = pageShown
               /\ imagePast'.mixed = imagePast.mixed
        PROVE  Goal
    BY <1>4 DEF ListAsked
  <1>5. ASSUME NEW r \in imageCalls, ImageArrives(r) PROVE Goal
    <2>1. pageShown /\ imagePast.mixed = FALSE /\ statusFilter' = statusFilter
      BY <1>5 DEF ImageArrives
    <2>2. CASE r.cmd # "list"
      BY <1>4, <1>5, <2>2, AboutAnswered DEF ImageArrives
    <2>3. CASE r.cmd = "list"
      <3>1. r \in About({"list"}) /\ About({"list"})' = About({"list"}) \ {r} /\ imageList' = r.what
        BY <1>5, <2>3, AboutAnswered DEF ImageArrives
      <3> QED BY <2>1, <3>1 DEF ListAsked
    <2> QED BY <2>2, <2>3
  <1>6. ASSUME NEW r \in imageCalls, ImageFails(r) PROVE Goal
    <2>1. r.cmd # "list" /\ imagePast'.mixed = imagePast.mixed
      BY <1>0, <1>6 DEF ImageFails
    <2> QED BY <1>4, <1>6, <2>1, AboutAnswered DEF ImageFails
  <1>7. ASSUME NEW i \in AllImages, SelectImage(i) \/ Build(i) PROVE Goal
    <2>1. imagePast'.mixed = imagePast.mixed
      BY <1>0, <1>7 DEF SelectImage, Build
    <2>2. About({"list"})' = About({"list"})
      BY <1>7, AboutAdded DEF SelectImage, Build
    <2> QED BY <1>4, <1>7, <2>1, <2>2 DEF SelectImage, Build
  <1>8. ASSUME NEW t \in DetailsTabs, OpenDetails(t) PROVE Goal
    <2>1. imagePast'.mixed = imagePast.mixed
      BY <1>0, <1>8 DEF OpenDetails
    <2>2. About({"list"})' = About({"list"})
      BY <1>8, AboutAdded DEF OpenDetails, AskDetails, DetailsTabs, About
    <2> QED BY <1>4, <1>8, <2>1, <2>2 DEF OpenDetails
  <1>9. CASE LeaveImages
    BY <1>9 DEF LeaveImages
  <1>10. CASE OpenBuild \/ CloseBuild \/ UNCHANGED imageVars
    BY <1>4, <1>10 DEF OpenBuild, CloseBuild, imageVars, About
  <1> QED BY <1>1, <1>2, <1>3, <1>5, <1>6, <1>7, <1>8, <1>9, <1>10 DEF ImagesNext

LEMMA ConfigurationStays == ImagesInv /\ [ImagesNext]_imageVars => ConfigurationAsked'
  <1> DEFINE Goal == /\ \A r \in About({"configuration"})' : r.what = image'
                     /\ About({"configuration"})' = {} => config' = image'
  <1> SUFFICES ASSUME ImagesInv, [ImagesNext]_imageVars, detailsTab' = "configuration",
                      imagePast'.reselected = FALSE, imagePast'.failed = FALSE
               PROVE  Goal
    BY DEF ConfigurationAsked
  <1> ImagesShape /\ ConfigurationAsked
    BY DEF ImagesInv
  <1>0. imagePast \in [mixed : BOOLEAN, lost : BOOLEAN, reselected : BOOLEAN, failed : BOOLEAN]
    BY DEF ImagesShape
  <1>1. ASSUME /\ About({"configuration"})' = About({"configuration"}) /\ image' = image
               /\ config' = config /\ detailsTab' = detailsTab
               /\ imagePast'.reselected = imagePast.reselected
               /\ imagePast'.failed = imagePast.failed
        PROVE  Goal
    BY <1>1 DEF ConfigurationAsked
  <1>2. CASE ShowImages \/ RefreshImages
    BY <1>2 DEF ShowImages, RefreshImages
  <1>3. ASSUME NEW s \in ImageStatuses, ChooseStatus(s) PROVE Goal
    <2>1. imagePast'.reselected = imagePast.reselected /\ imagePast'.failed = imagePast.failed
      BY <1>0, <1>3 DEF ChooseStatus
    <2> QED BY <1>1, <1>3, <2>1, AboutAdded DEF ChooseStatus
  <1>4. ASSUME NEW i \in AllImages, SelectImage(i) PROVE Goal
    BY <1>0, <1>4 DEF SelectImage
  <1>5. ASSUME NEW t \in DetailsTabs, OpenDetails(t) PROVE Goal
    <2>1. t = "configuration" /\ About({"configuration"}) = {} /\ image' = image
      BY <1>0, <1>5 DEF OpenDetails
    <2>2. CallImages("configuration", image)
      BY <1>5, <2>1 DEF OpenDetails, AskDetails
    <2>3. About({"configuration"})' = {Call("configuration", image)}
      BY <2>1, <2>2, AboutFirst
    <2>4. Call("configuration", image).what = image
      BY DEF Call
    <2> QED BY <2>1, <2>3, <2>4
  <1>6. ASSUME NEW i \in AllImages, Build(i) PROVE Goal
    BY <1>1, <1>6, AboutAdded DEF Build
  <1>7. ASSUME NEW r \in imageCalls, ImageArrives(r) PROVE Goal
    <2>1. CASE r.cmd # "configuration"
      BY <1>1, <1>7, <2>1, AboutAnswered DEF ImageArrives
    <2>2. CASE r.cmd = "configuration"
      <3>1. /\ r \in About({"configuration"}) /\ config' = r.what
            /\ About({"configuration"})' = About({"configuration"}) \ {r}
        BY <1>7, <2>2, AboutAnswered DEF ImageArrives
      <3> QED BY <1>7, <3>1 DEF ImageArrives, ConfigurationAsked
    <2> QED BY <2>1, <2>2
  <1>8. ASSUME NEW r \in imageCalls, ImageFails(r) PROVE Goal
    <2>1. /\ imagePast'.reselected = imagePast.reselected
          /\ imagePast.failed = FALSE /\ ~(r.cmd = "configuration" /\ r.what = image)
      BY <1>0, <1>8 DEF ImageFails
    <2>2. CASE r.cmd # "configuration"
      BY <1>1, <1>8, <2>1, <2>2, AboutAnswered DEF ImageFails
    <2>3. CASE r.cmd = "configuration"
      BY <1>8, <2>1, <2>3, AboutAnswered DEF ImageFails, ConfigurationAsked
    <2> QED BY <2>2, <2>3
  <1>9. CASE LeaveImages \/ OpenBuild \/ CloseBuild \/ UNCHANGED imageVars
    BY <1>1, <1>9 DEF LeaveImages, OpenBuild, CloseBuild, imageVars, About
  <1> QED BY <1>2, <1>3, <1>4, <1>5, <1>6, <1>7, <1>8, <1>9 DEF ImagesNext

LEMMA DetailsStay == ImagesInv /\ [ImagesNext]_imageVars => DetailsOnTheirWay'
  <1> DEFINE Goal ==
        /\ \/ image' \in known'.described \/ imagePast'.lost
           \/ Call("describe", image') \in imageCalls'
        /\ detailsTab' = "events" =>
             \/ image' \in known'.events \/ imagePast'.reselected \/ imagePast'.failed
             \/ Call("events", image') \in imageCalls'
  <1> SUFFICES ASSUME ImagesInv, [ImagesNext]_imageVars, image' # Nothing
               PROVE  Goal
    BY DEF DetailsOnTheirWay, Call
  <1> ImagesShape /\ ImagesTypeOK /\ DetailsOnTheirWay
    BY DEF ImagesInv, ImagesShape
  <1>0. /\ imagePast \in [mixed : BOOLEAN, lost : BOOLEAN, reselected : BOOLEAN, failed : BOOLEAN]
        /\ known \in [described : SUBSET AllImages, events : SUBSET AllImages]
    BY DEF ImagesShape, ImagesTypeOK
  <1>1. ASSUME /\ imageCalls \subseteq imageCalls' /\ image' = image
               /\ known' = known /\ detailsTab' \in {detailsTab, "properties"}
               /\ imagePast'.lost = imagePast.lost
               /\ imagePast'.reselected = imagePast.reselected
               /\ imagePast'.failed = imagePast.failed
        PROVE  Goal
    BY <1>1 DEF DetailsOnTheirWay
  <1>2. CASE ShowImages
    <2>1. /\ imagePast'.reselected = imagePast.reselected
          /\ imagePast'.failed = imagePast.failed /\ imagePast'.lost = imagePast.lost
      BY <1>0, <1>2 DEF ShowImages
    <2> QED BY <1>1, <1>2, <2>1, CallIsAdded DEF ShowImages
  <1>3. CASE RefreshImages
    BY <1>3 DEF RefreshImages
  <1>4. ASSUME NEW s \in ImageStatuses, ChooseStatus(s) PROVE Goal
    <2>1. /\ imagePast'.reselected = imagePast.reselected
          /\ imagePast'.failed = imagePast.failed /\ imagePast'.lost = imagePast.lost
      BY <1>0, <1>4 DEF ChooseStatus
    <2> QED BY <1>1, <1>4, <2>1, CallIsAdded DEF ChooseStatus
  <1>5. ASSUME NEW i \in AllImages, SelectImage(i) PROVE Goal
    <2>1. Call("describe", image') \in imageCalls'
      BY <1>5, CallIsAdded DEF SelectImage, Described
    <2>2. detailsTab' = "events" => imagePast'.reselected
      BY <1>0, <1>5 DEF SelectImage
    <2> QED BY <2>1, <2>2
  <1>6. ASSUME NEW t \in DetailsTabs, OpenDetails(t) PROVE Goal
    <2>1. imageCalls \subseteq imageCalls' /\ (t = "events" => Call("events", image) \in imageCalls')
      BY <1>6, CallIsAdded DEF OpenDetails, AskDetails
    <2>2. /\ imagePast'.lost = imagePast.lost /\ image' = image /\ known' = known
          /\ detailsTab' = t /\ image # Nothing
      BY <1>0, <1>6 DEF OpenDetails
    <2> QED BY <2>1, <2>2 DEF DetailsOnTheirWay
  <1>7. ASSUME NEW i \in AllImages, Build(i) PROVE Goal
    BY <1>1, <1>7, CallIsAdded DEF Build
  <1>8. ASSUME NEW r \in imageCalls, ImageArrives(r) PROVE Goal
    <2>1. r = Call(r.cmd, r.what)
      BY RequestsAreCalls
    <2>2. /\ image' = image /\ imagePast' = imagePast /\ detailsTab' = detailsTab
          /\ imageCalls' = imageCalls \ {r}
      BY <1>8 DEF ImageArrives
    <2>3. /\ r.cmd = "describe" => r.what \in known'.described
          /\ r.cmd = "events" => r.what \in known'.events
          /\ known.described \subseteq known'.described /\ known.events \subseteq known'.events
      BY <1>0, <1>8 DEF ImageArrives
    <2>4. /\ Call("describe", image).cmd = "describe" /\ Call("describe", image).what = image
          /\ Call("events", image).cmd = "events" /\ Call("events", image).what = image
      BY DEF Call
    <2> QED BY <2>2, <2>3, <2>4 DEF DetailsOnTheirWay
  <1>9. ASSUME NEW r \in imageCalls, ImageFails(r) PROVE Goal
    <2>1. /\ image' = image /\ known' = known /\ detailsTab' = detailsTab
          /\ imageCalls' = imageCalls \ {r}
      BY <1>9 DEF ImageFails
    <2>2. /\ imagePast.lost \/ r = Call("describe", image) => imagePast'.lost
          /\ imagePast.failed \/ r = Call("events", image) => imagePast'.failed
          /\ imagePast'.reselected = imagePast.reselected
      <3>1. Call("events", image).cmd = "events" /\ Call("events", image).what = image
        BY DEF Call
      <3>2. /\ imagePast'.lost = (imagePast.lost \/ r = Call("describe", image))
            /\ imagePast'.failed =
                 (imagePast.failed \/ (r.cmd \in {"configuration", "events"} /\ r.what = image))
            /\ imagePast'.reselected = imagePast.reselected
        BY <1>0, <1>9 DEF ImageFails
      <3> QED BY <3>1, <3>2
    <2> QED BY <2>1, <2>2 DEF DetailsOnTheirWay
  <1>10. CASE LeaveImages \/ OpenBuild \/ CloseBuild \/ UNCHANGED imageVars
    BY <1>1, <1>10 DEF LeaveImages, OpenBuild, CloseBuild, imageVars
  <1> QED BY <1>2, <1>3, <1>4, <1>5, <1>6, <1>7, <1>8, <1>9, <1>10 DEF ImagesNext

LEMMA BuildStays == ImagesInv /\ [ImagesNext]_imageVars => OneBuild'
  <1> DEFINE B == About({"build"})
             Goal == /\ build'.pending <=> B' # {}
                     /\ build'.pending => ~build'.errors
                     /\ \A r, s \in B' : r = s
  <1> SUFFICES ASSUME ImagesInv, [ImagesNext]_imageVars PROVE Goal
    BY DEF OneBuild, BuildIsUnderWay
  <1> ImagesShape /\ OneBuild
    BY DEF ImagesInv
  <1>0. build \in [dialog : BOOLEAN, pending : BOOLEAN, errors : BOOLEAN]
    BY DEF ImagesShape, ImagesTypeOK
  <1>1. ASSUME B' = B, build'.pending = build.pending, build'.errors = build.errors
        PROVE  Goal
    BY <1>1 DEF OneBuild, BuildIsUnderWay
  <1>2. ASSUME NEW i \in AllImages, Build(i) PROVE Goal
    <2>1. About({"build"}) = {} /\ CallImages("build", i)
      BY <1>2 DEF Build, OneBuild, BuildIsUnderWay
    <2>2. About({"build"})' = {Call("build", i)}
      BY <2>1, AboutFirst
    <2>3. build'.pending = TRUE /\ build'.errors = FALSE
      <3>1. build' = [build EXCEPT !.pending = TRUE, !.errors = FALSE]
        BY <1>2 DEF Build, Started
      <3> QED BY <1>0, <3>1
    <2> QED BY <2>2, <2>3
  <1>3. CASE OpenBuild
    <2>1. build'.pending = build.pending /\ build'.errors = build.errors /\ B' = B
      BY <1>0, <1>3 DEF OpenBuild, About
    <2> QED BY <1>1, <2>1
  <1>4. CASE CloseBuild
    <2>1. build'.pending = build.pending /\ build'.errors = FALSE /\ B' = B
      BY <1>0, <1>4 DEF CloseBuild, Closed, About
    <2> QED BY <2>1 DEF OneBuild, BuildIsUnderWay
  <1>5. ASSUME NEW r \in imageCalls, r.cmd = "build", imageCalls' = imageCalls \ {r} PROVE B' = {}
    BY <1>5, AboutAnswered DEF OneBuild
  <1>6. ASSUME NEW r \in imageCalls, ImageArrives(r) PROVE Goal
    <2>1. CASE r.cmd # "build"
      BY <1>1, <1>6, <2>1, AboutAnswered DEF ImageArrives
    <2>2. CASE r.cmd = "build"
      <3>1. B' = {} /\ build' = [Closed EXCEPT !.pending = FALSE]
        BY <1>5, <1>6, <2>2 DEF ImageArrives
      <3>2. build'.pending = FALSE
        BY <1>0, <3>1 DEF Closed
      <3> QED BY <3>1, <3>2
    <2> QED BY <2>1, <2>2
  <1>7. ASSUME NEW r \in imageCalls, ImageFails(r) PROVE Goal
    <2>1. CASE r.cmd # "build"
      BY <1>1, <1>7, <2>1, AboutAnswered DEF ImageFails
    <2>2. CASE r.cmd = "build"
      <3>1. B' = {} /\ build'.pending = FALSE
        BY <1>0, <1>5, <1>7, <2>2 DEF ImageFails, Failed
      <3> QED BY <3>1
    <2> QED BY <2>1, <2>2
  <1>8. CASE ShowImages
    BY <1>1, <1>8, AboutAdded DEF ShowImages
  <1>9. CASE RefreshImages
    BY <1>1, <1>9, AboutAdded DEF RefreshImages
  <1>10. ASSUME NEW s \in ImageStatuses, ChooseStatus(s) PROVE Goal
    BY <1>1, <1>10, AboutAdded DEF ChooseStatus
  <1>11. ASSUME NEW i \in AllImages, SelectImage(i) PROVE Goal
    BY <1>1, <1>11, AboutAdded DEF SelectImage
  <1>12. ASSUME NEW t \in DetailsTabs, OpenDetails(t) PROVE Goal
    <2>1. B' = B
      BY <1>12, AboutAdded DEF OpenDetails, AskDetails, DetailsTabs, About
    <2> QED BY <1>1, <1>12, <2>1 DEF OpenDetails
  <1>13. CASE LeaveImages \/ UNCHANGED imageVars
    BY <1>1, <1>13 DEF LeaveImages, imageVars, About
  <1> QED BY <1>2, <1>3, <1>4, <1>6, <1>7, <1>8, <1>9, <1>10, <1>11, <1>12, <1>13 DEF ImagesNext

-----------------------------------------------------------------------------
\* The list is of the status chosen, the configuration and the other details are
\* the selected image's, and the dialog waits exactly for its build (CustomImages.tsx,
\* CustomImageDetails.tsx, model.tsx), but for requests that overlapped or failed.
THEOREM ImagesStayInStep == ImagesSpec => []ImagesInStep
  <1>1. ImagesInv /\ [ImagesNext]_imageVars => ImagesInv'
    <2>1. ImagesInv /\ [ImagesNext]_imageVars => ImagesShape'
      BY ShapeStays DEF ImagesInv
    <2> QED BY <2>1, FilterStays, ListStays, ConfigurationStays, DetailsStay, BuildStays
            DEF ImagesInv
  <1>2. ImagesInv => ImagesInStep
    <2> SUFFICES ASSUME ImagesInv PROVE ImagesInStep
      OBVIOUS
    <2>1. imagePast \in [mixed : BOOLEAN, lost : BOOLEAN, reselected : BOOLEAN, failed : BOOLEAN]
      BY DEF ImagesInv, ImagesShape
    <2>2. ListIsOfChosen
      BY <2>1 DEF ImagesInv, ListAsked, ListIsOfChosen
    <2>3. ConfigurationIsOfSelected
      BY <2>1 DEF ImagesInv, ConfigurationAsked, ConfigurationIsOfSelected
    <2> QED BY <2>2, <2>3 DEF ImagesInv, ImagesShape, OneBuild, ImagesInStep
  <1> QED BY ImagesStart, <1>1, <1>2, PTL DEF ImagesSpec

=============================================================================
