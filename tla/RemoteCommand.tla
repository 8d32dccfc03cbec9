---------------------------- MODULE RemoteCommand ----------------------------
(***************************************************************************)
(* A request of the api that runs a command on a head node by SSM           *)
(* (api/PclusterApiHandler.py: ssm_command and the handlers that call it;    *)
(* get_dcv_session, which repeats it with a shorter deadline): the command   *)
(* is sent and polled, its output is read from the log stream to which       *)
(* CloudWatch delivers it, the stream is deleted, and the handler makes an   *)
(* answer of what it read.                                                  *)
(*                                                                         *)
(* Time is what the two comparisons with the deadline see of it.  A part of  *)
(* an output is what one page of the stream holds.  A definition named       *)
(* Bug... is a plausible mistake in the one that follows it.                *)
(***************************************************************************)
EXTENDS Naturals

CONSTANTS None,
          MaxParts   \* bound: the parts of an output

ASSUME CommandAssumption ==
  /\ MaxParts \in Nat
  /\ None \notin {"Pending", "InProgress", "Success", "Failed"}
  /\ None \notin {"jobs", "no jobs", "job", "done", "session", "timeout", "failed", "error"}

VARIABLES handler,   \* the handler, by its name in the api
          stage,        \* what it does next
          elapsed,   \* the time since its start, compared with the deadline
          command,   \* SSM: the status of the command and its output's parts
          status,    \* the status the handler saw last
          stream,    \* CloudWatch: the parts delivered, whether the stream exists
          output,    \* the parts read so far
          result,    \* the answer
          past       \* history: what went wrong outside the api

commandVars == <<handler, stage, elapsed, command, status, stream, output, result, past>>

Lists == {"queue_status", "sacct"}
OfOneJob == {"sacct_job", "scontrol_job"}
Handlers == Lists \cup OfOneJob \cup {"cancel_job", "get_dcv_session"}
Results == {"jobs", "no jobs", "job", "done", "session", "timeout", "failed", "error"}
Logged == handler # "get_dcv_session"

-----------------------------------------------------------------------------
(* SSM and CloudWatch.                                                     *)

Finished == command.status \in {"Success", "Failed"}

\* Pending, then InProgress; a command may also hang, or fail half-way.
Progress ==
  /\ command.status # None /\ ~Finished
  /\ \E s \in {"InProgress", "Success", "Failed"} :
       /\ s # command.status /\ (command.status = "Pending" => s = "InProgress")
       /\ command' = [command EXCEPT !.status = s]
  /\ UNCHANGED <<handler, stage, elapsed, status, stream, output, result, past>>

\* The output is delivered part by part, the last one maybe after the command's
\* end was reported; a stream is made with its first part.
Deliver ==
  /\ Logged /\ command.status \notin {None, "Pending"}
  /\ stream.parts < command.parts
  /\ stream.exists \/ stream.parts = 0
  /\ stream' = [parts |-> stream.parts + 1, exists |-> TRUE]
  /\ past' = [past EXCEPT !.late = @ \/ stage \in {"read", "done"}]
  /\ UNCHANGED <<handler, stage, elapsed, command, status, output, result>>

Tick ==
  /\ stage \in {"sent", "sleep", "poll", "check"} /\ elapsed # "after"
  /\ \E t \in {"at", "after"} : elapsed # t /\ elapsed' = t
  /\ UNCHANGED <<handler, stage, command, status, stream, output, result, past>>

-----------------------------------------------------------------------------
(* The handler.                                                            *)

Finish(r) == stage' = "done" /\ result' = r

\* send_command: SSM takes the command, or the request does not reach it.
SendCommand ==
  /\ stage = "send"
  /\ \/ stage' = "sent" /\ command' = [command EXCEPT !.status = "Pending"] /\ UNCHANGED result
     \/ Finish("error") /\ UNCHANGED command
  /\ UNCHANGED <<handler, elapsed, status, stream, output, past>>

\* Its response, without which the command runs and nobody knows its id.
LearnCommandId ==
  /\ stage = "sent"
  /\ \/ stage' = "sleep" /\ UNCHANGED result
     \/ Finish("error")
  /\ UNCHANGED <<handler, elapsed, command, status, stream, output, past>>

\* time.sleep, then the condition of the loop.
Wake ==
  /\ stage = "sleep"
  /\ stage' = IF elapsed = "before" THEN "poll" ELSE "check"
  /\ UNCHANGED <<handler, elapsed, command, status, stream, output, result, past>>

BugPoll ==
  /\ stage = "poll"
  /\ status' = command.status
  /\ stage' = IF status' = "InProgress" THEN "poll" ELSE "check"
  /\ UNCHANGED <<handler, elapsed, command, stream, output, result, past>>
\* get_command_invocation, which may fail: any status but InProgress ends the loop.
Poll ==
  /\ stage = "poll"
  /\ \/ /\ status' = command.status /\ UNCHANGED result
        /\ stage' = IF status' = "InProgress" THEN "sleep" ELSE "check"
     \/ Finish("error") /\ UNCHANGED status
  /\ UNCHANGED <<handler, elapsed, command, stream, output, past>>

BugTimedOut == elapsed # "before"
\* The deadline is compared again after the loop.
TimedOut == elapsed = "after"

BugSucceeded == status # "Failed"
Succeeded == status = "Success"

\* With no poll before the deadline there is no status to look at.
Check ==
  /\ stage = "check"
  /\ IF TimedOut THEN Finish("timeout")
     ELSE IF status = None THEN Finish("error")
     ELSE IF ~Succeeded THEN Finish("failed")
     ELSE IF Logged THEN stage' = "read" /\ UNCHANGED result
     ELSE \E r \in {"session", "error"} : Finish(r)
  /\ UNCHANGED <<handler, elapsed, command, status, stream, output, past>>

Whole == output = command.parts
\* What each handler makes of the output; a list that is not whole is no JSON, and
\* a job's description with a word that has no "=" in it cannot be taken apart.
Answer ==
  CASE handler \in Lists -> IF output = 0 THEN {"no jobs"}
                            ELSE IF Whole THEN {"jobs"} ELSE {"error"}
    [] handler = "sacct_job" -> IF Whole /\ output > 0 THEN {"job", "error"} ELSE {"error"}
    [] handler = "scontrol_job" -> IF output = 0 THEN {"error"} ELSE {"job", "error"}
    [] OTHER -> {"done"}

\* A page with events is followed by another; one without is the last.
Read == stream.exists /\ output < stream.parts

ReadPage ==
  /\ stage = "read" /\ Read
  /\ output' = output + 1
  /\ UNCHANGED <<handler, stage, elapsed, command, status, stream, result, past>>

\* The last page, or an error of CloudWatch, a missing stream for one: what was
\* read until then is the output.  The stream is deleted after both, which may fail.
EndRead ==
  /\ stage = "read"
  /\ \E failed, kept \in BOOLEAN :
       /\ failed \/ ~Read
       /\ ~stream.exists => failed
       /\ stream' = [stream EXCEPT !.exists = kept /\ @]
       /\ past' = [past EXCEPT !.unread = failed /\ stream.exists,
                               !.undelivered = stream.parts < command.parts,
                               !.undeleted = kept]
  /\ \E r \in Answer : Finish(r)
  /\ UNCHANGED <<handler, elapsed, command, status, output>>

-----------------------------------------------------------------------------
CommandInit ==
  /\ handler \in Handlers /\ stage = "send" /\ elapsed = "before"
  /\ command \in [status : {None}, parts : 0..MaxParts] /\ status = None
  /\ stream = [parts |-> 0, exists |-> FALSE] /\ output = 0 /\ result = None
  /\ past = [late |-> FALSE, unread |-> FALSE,
             undelivered |-> FALSE, undeleted |-> FALSE]

Handle == SendCommand \/ LearnCommandId \/ Wake \/ Poll \/ Check \/ ReadPage \/ EndRead
CommandNext == Progress \/ Deliver \/ Tick \/ Handle

\* The api's process runs and its clock goes on.
CommandFairness == WF_commandVars(Handle) /\ WF_commandVars(Tick)
CommandSpec == CommandInit /\ [][CommandNext]_commandVars /\ CommandFairness

-----------------------------------------------------------------------------
(* Properties.                                                             *)

\* Every variable has its shape.
CommandTypeOK ==
  /\ handler \in Handlers /\ stage \in {"send", "sent", "sleep", "poll", "check", "read", "done"}
  /\ elapsed \in {"before", "at", "after"}
  /\ command \in [status : {None, "Pending", "InProgress", "Success", "Failed"},
                  parts : 0..MaxParts]
  /\ status \in {None, "Pending", "InProgress", "Success", "Failed"}
  /\ stream \in [parts : 0..MaxParts, exists : BOOLEAN]
  /\ output \in 0..stream.parts /\ result \in Results \cup {None}

\* An answer without jobs says so for a reason: the command printed nothing, or
\* its output could not be read or had not been delivered (queue_status and sacct
\* answer an empty list then, as if there were no jobs).
NoJobsHasCause ==
  result = "no jobs" => command.parts = 0 \/ past.unread \/ past.undelivered

\* A request reported as failed or timed out took longer than its deadline, or its
\* command failed, or was not seen to finish: Pending at a poll, which ends the
\* wait, or still running at the very deadline (the two comparisons differ).
FailureHasCause ==
  result \in {"timeout", "failed"} =>
    \/ elapsed = "after" \/ status \in {"Failed", "Pending"}
    \/ status = "InProgress" /\ elapsed = "at"

\* A log stream stays behind only when the wait was given up, the deletion failed
\* or the delivery came after it.
StreamsAreDeleted ==
  stage = "done" /\ stream.exists
    => result \in {"timeout", "failed", "error"} \/ past.undeleted \/ past.late

\* A request whose command was sent is answered, however long the command hangs:
\* the deadline ends the polling, and the pages of a stream end.
EveryCommandAnswered == stage # "send" ~> stage = "done"

\* Whatever ssm_command and its callers report that is not the command's output
\* has its cause, and what is left in CloudWatch too.
OutcomesHaveCauses == CommandTypeOK /\ NoJobsHasCause /\ FailureHasCause /\ StreamsAreDeleted

\* Whoever makes the request may read its answer as one of a command that ran once
\* and to its end: polling, deadline and log stream (ssm_command,
\* read_and_delete_ssm_output_from_cloudwatch) implement CommandCall.
OnNode == CASE command.status = None -> "not sent"
            [] command.status \in {"Pending", "InProgress"} -> "running"
            [] command.status = "Success" -> "succeeded"
            [] OTHER -> "failed"
Remote == INSTANCE CommandCall WITH node <- OnNode, printed <- command.parts, reply <- result
ImplementsCall == Remote!Spec
=============================================================================
