--------------------------------- MODULE Exec -------------------------------
(***************************************************************************)
(* Running an external tool, `run_with_stdin` of `exec.rs`: a caller, the  *)
(* child process it starts, three pipes of limited size between them, and  *)
(* the threads that empty or fill one pipe each.                           *)
(*                                                                         *)
(* The child is any program at all: it picks a call on one of its pipes,   *)
(* is blocked in it until the pipe lets it go on, picks the next one, or   *)
(* exits, or does nothing for ever.  A unit of data stands for as many     *)
(* bytes as one likes; what a pipe holds is what was put in less what was  *)
(* taken out.  Not here: a child that exits and leaves a process of its    *)
(* own holding the pipes, which none of the program's tools does.          *)
(***************************************************************************)
EXTENDS Naturals

CONSTANTS
    MaxAttempts,        \* MAX_ATTEMPTS of the spawn
    PipeSize,           \* what a pipe holds before its writer blocks
    Input,              \* how much there is to write to stdin; 0 for none
    MaxOutput           \* bound: how much a child writes to each stream

ASSUME ExecAssumption ==
    /\ {MaxAttempts, PipeSize} \subseteq Nat \ {0}
    /\ {Input, MaxOutput} \subseteq Nat

VARIABLES
    pc,                 \* where the caller is
    attempt,            \* spawns tried
    result,             \* what the caller was answered
    late,               \* the deadline is past
    child,              \* the child process
    success,            \* whether it exited with code 0
    want,               \* the pipe it is blocked on or about to use
    eof,                \* it has seen the end of its input
    written, buf,       \* per stream: put in by the child, read by its thread
    sent, taken,        \* stdin: put in by its thread, read by the child
    thread              \* the threads: one per pipe

process == <<child, success, want, eof>>
data == <<written, buf, sent, taken>>
vars == <<pc, attempt, result, late, process, data, thread>>

Outputs == {"stdout", "stderr"}
Pipes == Outputs \cup {"stdin"}

TypeOK ==
    /\ pc \in {"spawn", "wait", "give_up", "join_stdout", "join_stderr", "done"}
    /\ attempt \in 1 .. MaxAttempts
    /\ result \in {"none", "ToolMissing", "NotStarted", "NotWaited", "Timeout",
                   "Failed", "Output"}
    /\ late \in BOOLEAN /\ success \in BOOLEAN /\ eof \in BOOLEAN
    /\ child \in {"none", "running", "exited", "reaped"}
    /\ want \in Pipes \cup {"nothing"}
    /\ written \in [Outputs -> 0 .. MaxOutput]
    /\ buf \in [Outputs -> 0 .. MaxOutput]
    /\ sent \in 0 .. Input /\ taken \in 0 .. Input
    /\ thread \in [Pipes -> {"none", "running", "ended"}]
    /\ \A s \in Outputs : buf[s] <= written[s] /\ written[s] - buf[s] <= PipeSize
    /\ taken <= sent /\ sent - taken <= PipeSize

Init ==
    /\ pc = "spawn" /\ attempt = 1 /\ result = "none" /\ late = FALSE
    /\ child = "none" /\ success = FALSE /\ want = "nothing" /\ eof = FALSE
    /\ written = [s \in Outputs |-> 0] /\ buf = [s \in Outputs |-> 0]
    /\ sent = 0 /\ taken = 0
    /\ thread = [p \in Pipes |-> "none"]

-----------------------------------------------------------------------------
(* The caller.                                                             *)

Return(r) == pc' = "done" /\ result' = r

\* The threads start with the child; stdin has one only if there is input,
\* and is closed otherwise.
Spawned ==
    /\ pc = "spawn"
    /\ pc' = "wait" /\ child' = "running"
    /\ thread' = [p \in Pipes |->
                     IF p = "stdin" /\ Input = 0 THEN "ended" ELSE "running"]
    /\ UNCHANGED <<attempt, result, late, success, want, eof, data>>

\* Defect: one attempt too many.
TextBusyAgain ==
    /\ pc = "spawn" /\ attempt <= MaxAttempts
    /\ attempt' = attempt + 1
    /\ UNCHANGED <<pc, result, late, process, data, thread>>

TextBusy ==
    /\ pc = "spawn" /\ attempt < MaxAttempts
    /\ attempt' = attempt + 1
    /\ UNCHANGED <<pc, result, late, process, data, thread>>

\* Any other error, and text-busy on the last attempt.
SpawnFails ==
    /\ pc = "spawn"
    /\ Return("ToolMissing") \/ Return("NotStarted")
    /\ UNCHANGED <<attempt, late, process, data, thread>>

Reap == child' = "reaped" /\ UNCHANGED <<success, want, eof>>

\* Defect: the answer is put together without waiting for the threads.
ReapAndReturn ==
    /\ pc = "wait" /\ child = "exited"
    /\ Reap /\ Return(IF success THEN "Output" ELSE "Failed")
    /\ UNCHANGED <<attempt, late, data, thread>>

\* try_wait: the child has exited.
WaitExited ==
    /\ pc = "wait" /\ child = "exited"
    /\ Reap /\ pc' = "join_stdout"
    /\ UNCHANGED <<attempt, result, late, data, thread>>

\* Defect: without a look at the clock.
WaitForEver == FALSE /\ UNCHANGED vars

\* try_wait: still running, and the deadline is past.  The child may yet exit
\* before it is killed.
WaitLate ==
    /\ pc = "wait" /\ child = "running" /\ late
    /\ pc' = "give_up"
    /\ UNCHANGED <<attempt, result, late, process, data, thread>>

\* try_wait itself fails: the child is left alone.
WaitFails ==
    /\ pc = "wait"
    /\ Return("NotWaited")
    /\ UNCHANGED <<attempt, late, process, data, thread>>

\* Defect: the child is left running.
ReturnOnly ==
    /\ pc = "give_up"
    /\ Return("Timeout")
    /\ UNCHANGED <<attempt, late, process, data, thread>>

\* kill and wait; the threads are not waited for.
KillAndReap ==
    /\ pc = "give_up"
    /\ Reap /\ Return("Timeout")
    /\ UNCHANGED <<attempt, late, data, thread>>

JoinStdout ==
    /\ pc = "join_stdout" /\ thread["stdout"] = "ended"
    /\ pc' = "join_stderr"
    /\ UNCHANGED <<attempt, result, late, process, data, thread>>

JoinStderr ==
    /\ pc = "join_stderr" /\ thread["stderr"] = "ended"
    /\ Return(IF success THEN "Output" ELSE "Failed")
    /\ UNCHANGED <<attempt, late, process, data, thread>>

DeadlinePasses ==
    /\ pc = "wait" /\ ~late
    /\ late' = TRUE
    /\ UNCHANGED <<pc, attempt, result, process, data, thread>>

-----------------------------------------------------------------------------
(* The threads.                                                            *)

Gone == child \in {"exited", "reaped"}

End(p) == thread' = [thread EXCEPT ![p] = "ended"]

\* Defect: the outputs are read only once the input is written.
DrainLate(s) ==
    /\ thread[s] = "running" /\ thread["stdin"] = "ended"
    /\ \/ /\ buf[s] < written[s]
          /\ buf' = [buf EXCEPT ![s] = @ + 1]
          /\ UNCHANGED thread
       \/ Gone /\ buf[s] = written[s] /\ End(s) /\ UNCHANGED buf
    /\ UNCHANGED <<pc, attempt, result, late, process, written, sent, taken>>

\* read_to_end: until the pipe is empty and nobody holds its other end.
Drain(s) ==
    /\ thread[s] = "running"
    /\ \/ /\ buf[s] < written[s]
          /\ buf' = [buf EXCEPT ![s] = @ + 1]
          /\ UNCHANGED thread
       \/ Gone /\ buf[s] = written[s] /\ End(s) /\ UNCHANGED buf
    /\ UNCHANGED <<pc, attempt, result, late, process, written, sent, taken>>

\* write_all, then drop; a pipe nobody reads any more ends it early.
Feed ==
    /\ thread["stdin"] = "running"
    /\ \/ /\ ~Gone /\ sent < Input /\ sent - taken < PipeSize
          /\ sent' = sent + 1
          /\ UNCHANGED thread
       \/ (Gone \/ sent = Input) /\ End("stdin") /\ UNCHANGED sent
    /\ UNCHANGED <<pc, attempt, result, late, process, written, buf, taken>>

-----------------------------------------------------------------------------
(* The child: any program.                                                 *)

ChildCalls ==
    /\ child = "running" /\ want = "nothing"
    /\ want' \in {p \in Pipes : p \in Outputs => written[p] < MaxOutput}
    /\ UNCHANGED <<pc, attempt, result, late, child, success, eof, data, thread>>

ChildWrites ==
    /\ child = "running" /\ want \in Outputs
    /\ written[want] - buf[want] < PipeSize
    /\ written' = [written EXCEPT ![want] = @ + 1]
    /\ want' = "nothing"
    /\ UNCHANGED <<pc, attempt, result, late, child, success, eof, buf, sent,
                   taken, thread>>

ChildReads ==
    /\ child = "running" /\ want = "stdin"
    /\ \/ taken < sent /\ taken' = taken + 1 /\ UNCHANGED eof
       \/ /\ taken = sent /\ thread["stdin"] = "ended"
          /\ eof' = TRUE /\ UNCHANGED taken
    /\ want' = "nothing"
    /\ UNCHANGED <<pc, attempt, result, late, child, success, written, buf,
                   sent, thread>>

\* Of its own accord, with some code, or by a signal of somebody else's.
ChildExits ==
    /\ child = "running"
    /\ child' = "exited"
    /\ success' \in IF want = "nothing" THEN BOOLEAN ELSE {FALSE}
    /\ UNCHANGED <<pc, attempt, result, late, want, eof, data, thread>>

-----------------------------------------------------------------------------
(* A call that is over and left nothing behind is followed by another.     *)
NextCall ==
    /\ pc = "done" /\ child \in {"none", "exited", "reaped"}
    /\ \A p \in Pipes : thread[p] # "running"
    /\ pc' = "spawn" /\ attempt' = 1 /\ result' = "none" /\ late' = FALSE
    /\ child' = "none" /\ success' = FALSE /\ want' = "nothing" /\ eof' = FALSE
    /\ written' = [s \in Outputs |-> 0] /\ buf' = [s \in Outputs |-> 0]
    /\ sent' = 0 /\ taken' = 0
    /\ thread' = [p \in Pipes |-> "none"]

Caller ==
    \/ Spawned \/ TextBusy \/ SpawnFails
    \/ WaitExited \/ WaitLate \/ KillAndReap
    \/ JoinStdout \/ JoinStderr

Threads == Feed \/ \E s \in Outputs : Drain(s)

Child == ChildCalls \/ ChildWrites \/ ChildReads \/ ChildExits

Next == Caller \/ WaitFails \/ DeadlinePasses \/ Threads \/ Child \/ NextCall

Spec == Init /\ [][Next]_vars

(* The caller and its threads run; a child that can go on with its call    *)
(* does.  Whether the child ever calls, exits or loops is its own affair,  *)
(* and try_wait need not ever fail.  The clock is left to the properties   *)
(* that need it.                                                           *)
FairSpec ==
    /\ Spec
    /\ WF_vars(Caller) /\ WF_vars(Feed) /\ \A s \in Outputs : WF_vars(Drain(s))
    /\ WF_vars(ChildWrites) /\ WF_vars(ChildReads)

-----------------------------------------------------------------------------
(* Properties.                                                             *)

(* Nothing is cut off: a result is all the child ever wrote, to stdout for *)
(* a success and to stderr for a failure, although it is put together by   *)
(* threads; and a child that reads to the end of its input (nft -f -) has  *)
(* the whole of it.                                                        *)
NothingCutOff ==
    /\ result = "Output" => buf["stdout"] = written["stdout"] /\ success
    /\ result = "Failed" => buf["stderr"] = written["stderr"]
    /\ child = "running" /\ eof => taken = Input

(* "a chatty program can never block on a full pipe", nor one that writes  *)
(* before it reads: no call of the child on a pipe blocks for ever, and it *)
(* is not the deadline that sees to it.                                    *)
NobodyBlocks == (child = "running" /\ want # "nothing") ~>
                    (child # "running" \/ want = "nothing")

(* Every call of run_with_stdin returns, whatever the program does, and    *)
(* leaves no process and no thread behind: "the reader threads end on      *)
(* their own once the pipes close".  That needs the clock and no fairness  *)
(* of the program's.  Only when try_wait itself fails is the child left.   *)
CallReturns ==
    WF_vars(DeadlinePasses) =>
        (pc = "spawn" ~> /\ pc = "done"
                         /\ \/ result = "NotWaited"
                            \/ /\ child # "running"
                               /\ \A p \in Pipes : thread[p] # "running")
=============================================================================
