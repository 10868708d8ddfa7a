------------------------------ MODULE ExecProofs ----------------------------
(***************************************************************************)
(* Theorems about Exec, for pipes and inputs of any size, any number of    *)
(* spawn attempts and any amount of output.                                *)
(***************************************************************************)
EXTENDS Exec, TLAPS

(* The child has not used up its bounded output when it calls for more.    *)
OutputLeft == want \in Outputs => written[want] < MaxOutput

(* Before the spawn nothing of this call exists yet.                       *)
SpawnIsFresh ==
    pc = "spawn" =>
        /\ result = "none" /\ child = "none" /\ ~eof
        /\ sent = 0 /\ taken = 0
        /\ \A p \in Pipes : thread[p] = "none"

(* A thread that has ended has read all there will ever be.                *)
ReadersEndLast ==
    \A s \in Outputs :
        thread[s] = "ended" => Gone /\ buf[s] = written[s]

(* The writer's thread ends with the whole input, or with the child; only  *)
(* then can the child see the end of its input.                            *)
WriterEndsLast ==
    /\ thread["stdin"] = "ended" => Gone \/ sent = Input
    /\ eof => thread["stdin"] = "ended" /\ taken = sent

(* The answer is put together after the child, stdout's thread and         *)
(* stderr's, in this order.                                                *)
JoinsInOrder ==
    /\ pc \in {"join_stdout", "join_stderr"} => child = "reaped"
    /\ pc = "join_stderr" => thread["stdout"] = "ended"
    /\ result \in {"Output", "Failed"} =>
          /\ pc = "done"
          /\ \A s \in Outputs : thread[s] = "ended"
    /\ result = "Output" => success

ExecInv ==
    /\ TypeOK /\ OutputLeft /\ SpawnIsFresh
    /\ ReadersEndLast /\ WriterEndsLast /\ JoinsInOrder

-----------------------------------------------------------------------------
(* The invariant.                                                          *)

\* Init: nothing has been spawned.
LEMMA InitInv == Init => ExecInv
<1> SUFFICES ASSUME Init PROVE ExecInv
  OBVIOUS
<1>1. late \in BOOLEAN /\ success \in BOOLEAN /\ eof \in BOOLEAN
  BY Zenon DEF Init
<1>2. TypeOK
  BY <1>1, ExecAssumption DEF Init, TypeOK, Outputs, Pipes
<1>3. OutputLeft /\ SpawnIsFresh /\ ReadersEndLast
  BY DEF Init, OutputLeft, SpawnIsFresh, ReadersEndLast, Outputs, Pipes
<1>4. WriterEndsLast /\ JoinsInOrder
  BY DEF Init, WriterEndsLast, JoinsInOrder, Outputs, Pipes
<1> QED
  BY <1>2, <1>3, <1>4 DEF ExecInv

\* TypeOK: every action keeps the types and what a pipe holds.
LEMMA TypeStep == TypeOK /\ OutputLeft /\ [Next]_vars => TypeOK'
<1> SUFFICES ASSUME TypeOK, OutputLeft, [Next]_vars PROVE TypeOK'
  OBVIOUS
<1> USE ExecAssumption DEF TypeOK, Outputs, Pipes, data, process
<1>1. CASE Spawned
  BY <1>1 DEF Spawned
<1>2. CASE TextBusy
  BY <1>2 DEF TextBusy
<1>3. CASE SpawnFails
  BY <1>3 DEF SpawnFails, Return
<1>4. CASE WaitExited
  BY <1>4 DEF WaitExited, Reap
<1>5. CASE WaitLate
  BY <1>5 DEF WaitLate
<1>6. CASE KillAndReap
  BY <1>6 DEF KillAndReap, Reap, Return
<1>7. CASE JoinStdout \/ JoinStderr
  BY <1>7 DEF JoinStdout, JoinStderr, Return
<1>8. CASE WaitFails \/ DeadlinePasses
  BY <1>8 DEF WaitFails, DeadlinePasses, Return
<1>9. CASE Feed
  BY <1>9 DEF Feed, End
<1>10. ASSUME NEW s \in Outputs, Drain(s) PROVE TypeOK'
  BY <1>10 DEF Drain, End
<1>11. CASE ChildCalls
  BY <1>11 DEF ChildCalls
<1>12. CASE ChildWrites
  <2>1. written[want] + 1 \in 0 .. MaxOutput
    BY <1>12 DEF ChildWrites, OutputLeft
  <2>2. written' \in [Outputs -> 0 .. MaxOutput]
    BY <1>12, <2>1 DEF ChildWrites
  <2> QED
    BY <1>12, <2>2 DEF ChildWrites
<1>13. CASE ChildReads
  <2>1. eof' \in BOOLEAN
    BY <1>13, Zenon DEF ChildReads
  <2> QED
    BY <1>13, <2>1 DEF ChildReads
<1>14. CASE ChildExits
  BY <1>14 DEF ChildExits
<1>15. CASE NextCall
  <2>1. late' \in BOOLEAN /\ success' \in BOOLEAN /\ eof' \in BOOLEAN
    BY <1>15, Zenon DEF NextCall
  <2> QED
    BY <1>15, <2>1 DEF NextCall
<1>16. CASE UNCHANGED vars
  BY <1>16 DEF vars
<1> QED
  BY <1>1, <1>2, <1>3, <1>4, <1>5, <1>6, <1>7, <1>8, <1>9, <1>10, <1>11, <1>12,
     <1>13, <1>14, <1>15, <1>16 DEF Next, Caller, Threads, Child

\* OutputLeft: the child calls for output only while it has some left.
LEMMA OutputLeftStep ==
    TypeOK /\ OutputLeft /\ [Next]_vars => OutputLeft'
<1> SUFFICES ASSUME TypeOK, OutputLeft, [Next]_vars
             PROVE  OutputLeft'
  OBVIOUS
<1> USE DEF OutputLeft, TypeOK, Outputs, data, process
<1>1. CASE Spawned
  BY <1>1 DEF Spawned
<1>2. CASE TextBusy \/ SpawnFails
  BY <1>2 DEF TextBusy, SpawnFails, Return
<1>3. CASE WaitExited \/ KillAndReap
  BY <1>3 DEF WaitExited, KillAndReap, Reap, Return
<1>4. CASE JoinStdout \/ JoinStderr
  BY <1>4 DEF JoinStdout, JoinStderr, Return
<1>5. CASE WaitLate \/ WaitFails \/ DeadlinePasses
  BY <1>5 DEF WaitLate, WaitFails, DeadlinePasses, Return
<1>6. CASE Feed
  BY <1>6 DEF Feed, End
<1>7. ASSUME NEW s \in Outputs, Drain(s) PROVE OutputLeft'
  BY <1>7 DEF Drain, End
<1>8. CASE ChildCalls
  BY <1>8 DEF ChildCalls
<1>9. CASE ChildWrites
  BY <1>9 DEF ChildWrites
<1>10. CASE ChildReads
  BY <1>10 DEF ChildReads
<1>11. CASE ChildExits
  BY <1>11 DEF ChildExits
<1>12. CASE NextCall
  BY <1>12 DEF NextCall
<1>13. CASE UNCHANGED vars
  BY <1>13 DEF vars
<1> QED
  BY <1>1, <1>2, <1>3, <1>4, <1>5, <1>6, <1>7, <1>8,
     <1>9, <1>10, <1>11, <1>12, <1>13 DEF Next, Caller, Threads, Child

\* SpawnIsFresh: a call starts only when everything of the last one is gone.
LEMMA SpawnIsFreshStep ==
    TypeOK /\ SpawnIsFresh /\ [Next]_vars => SpawnIsFresh'
<1> SUFFICES ASSUME TypeOK, SpawnIsFresh, [Next]_vars
             PROVE  SpawnIsFresh'
  OBVIOUS
<1> USE DEF SpawnIsFresh, TypeOK, Outputs, Pipes, data, process
<1>1. CASE Spawned
  BY <1>1 DEF Spawned
<1>2. CASE TextBusy \/ SpawnFails
  BY <1>2 DEF TextBusy, SpawnFails, Return
<1>3. CASE WaitExited \/ KillAndReap
  BY <1>3 DEF WaitExited, KillAndReap, Reap, Return
<1>4. CASE JoinStdout \/ JoinStderr
  BY <1>4 DEF JoinStdout, JoinStderr, Return
<1>5. CASE WaitLate \/ WaitFails \/ DeadlinePasses
  BY <1>5 DEF WaitLate, WaitFails, DeadlinePasses, Return
<1>6. CASE Feed
  BY <1>6 DEF Feed, End
<1>7. ASSUME NEW s \in Outputs, Drain(s) PROVE SpawnIsFresh'
  BY <1>7 DEF Drain, End
<1>8. CASE ChildCalls
  BY <1>8 DEF ChildCalls
<1>9. CASE ChildWrites
  BY <1>9 DEF ChildWrites
<1>10. CASE ChildReads
  BY <1>10 DEF ChildReads
<1>11. CASE ChildExits
  BY <1>11 DEF ChildExits
<1>12. CASE NextCall
  BY <1>12 DEF NextCall
<1>13. CASE UNCHANGED vars
  BY <1>13 DEF vars
<1> QED
  BY <1>1, <1>2, <1>3, <1>4, <1>5, <1>6, <1>7, <1>8,
     <1>9, <1>10, <1>11, <1>12, <1>13 DEF Next, Caller, Threads, Child

\* ReadersEndLast: a child that is gone writes nothing more.
LEMMA ReadersEndLastStep ==
    TypeOK /\ SpawnIsFresh /\ ReadersEndLast /\ [Next]_vars => ReadersEndLast'
<1> SUFFICES ASSUME TypeOK, SpawnIsFresh, ReadersEndLast, [Next]_vars
             PROVE  ReadersEndLast'
  OBVIOUS
<1> USE DEF SpawnIsFresh, ReadersEndLast, TypeOK, Outputs, Pipes, Gone, data, process
<1>1. CASE Spawned
  BY <1>1 DEF Spawned
<1>2. CASE TextBusy \/ SpawnFails
  BY <1>2 DEF TextBusy, SpawnFails, Return
<1>3. CASE WaitExited \/ KillAndReap
  BY <1>3 DEF WaitExited, KillAndReap, Reap, Return
<1>4. CASE JoinStdout \/ JoinStderr
  BY <1>4 DEF JoinStdout, JoinStderr, Return
<1>5. CASE WaitLate \/ WaitFails \/ DeadlinePasses
  BY <1>5 DEF WaitLate, WaitFails, DeadlinePasses, Return
<1>6. CASE Feed
  BY <1>6 DEF Feed, End
<1>7. ASSUME NEW s \in Outputs, Drain(s) PROVE ReadersEndLast'
  BY <1>7 DEF Drain, End
<1>8. CASE ChildCalls
  BY <1>8 DEF ChildCalls
<1>9. CASE ChildWrites
  BY <1>9 DEF ChildWrites
<1>10. CASE ChildReads
  BY <1>10 DEF ChildReads
<1>11. CASE ChildExits
  BY <1>11 DEF ChildExits
<1>12. CASE NextCall
  BY <1>12 DEF NextCall
<1>13. CASE UNCHANGED vars
  BY <1>13 DEF vars
<1> QED
  BY <1>1, <1>2, <1>3, <1>4, <1>5, <1>6, <1>7, <1>8,
     <1>9, <1>10, <1>11, <1>12, <1>13 DEF Next, Caller, Threads, Child

\* WriterEndsLast: what is sent stays once the thread has ended.
LEMMA WriterEndsLastStep ==
    TypeOK /\ SpawnIsFresh /\ WriterEndsLast /\ [Next]_vars => WriterEndsLast'
<1> SUFFICES ASSUME TypeOK, SpawnIsFresh, WriterEndsLast, [Next]_vars
             PROVE  WriterEndsLast'
  OBVIOUS
<1> USE DEF SpawnIsFresh, WriterEndsLast, TypeOK, Outputs, Pipes, Gone, data, process
<1>1. CASE Spawned
  BY <1>1 DEF Spawned
<1>2. CASE TextBusy \/ SpawnFails
  BY <1>2 DEF TextBusy, SpawnFails, Return
<1>3. CASE WaitExited \/ KillAndReap
  BY <1>3 DEF WaitExited, KillAndReap, Reap, Return
<1>4. CASE JoinStdout \/ JoinStderr
  BY <1>4 DEF JoinStdout, JoinStderr, Return
<1>5. CASE WaitLate \/ WaitFails \/ DeadlinePasses
  BY <1>5 DEF WaitLate, WaitFails, DeadlinePasses, Return
<1>6. CASE Feed
  BY <1>6 DEF Feed, End
<1>7. ASSUME NEW s \in Outputs, Drain(s) PROVE WriterEndsLast'
  BY <1>7 DEF Drain, End
<1>8. CASE ChildCalls
  BY <1>8 DEF ChildCalls
<1>9. CASE ChildWrites
  BY <1>9 DEF ChildWrites
<1>10. CASE ChildReads
  BY <1>10 DEF ChildReads
<1>11. CASE ChildExits
  BY <1>11 DEF ChildExits
<1>12. CASE NextCall
  BY <1>12 DEF NextCall
<1>13. CASE UNCHANGED vars
  BY <1>13 DEF vars
<1> QED
  BY <1>1, <1>2, <1>3, <1>4, <1>5, <1>6, <1>7, <1>8,
     <1>9, <1>10, <1>11, <1>12, <1>13 DEF Next, Caller, Threads, Child

\* JoinsInOrder: each join waits for its thread.
LEMMA JoinsInOrderStep ==
    TypeOK /\ SpawnIsFresh /\ ReadersEndLast /\ JoinsInOrder /\ [Next]_vars => JoinsInOrder'
<1> SUFFICES ASSUME TypeOK, SpawnIsFresh, ReadersEndLast, JoinsInOrder, [Next]_vars
             PROVE  JoinsInOrder'
  OBVIOUS
<1> USE DEF SpawnIsFresh, ReadersEndLast, JoinsInOrder, TypeOK, Outputs, Pipes,
            Gone, data, process
<1>1. CASE Spawned
  BY <1>1 DEF Spawned
<1>2. CASE TextBusy \/ SpawnFails
  BY <1>2 DEF TextBusy, SpawnFails, Return
<1>3. CASE WaitExited \/ KillAndReap
  BY <1>3 DEF WaitExited, KillAndReap, Reap, Return
<1>4. CASE JoinStdout \/ JoinStderr
  BY <1>4 DEF JoinStdout, JoinStderr, Return
<1>5. CASE WaitLate \/ WaitFails \/ DeadlinePasses
  BY <1>5 DEF WaitLate, WaitFails, DeadlinePasses, Return
<1>6. CASE Feed
  BY <1>6 DEF Feed, End
<1>7. ASSUME NEW s \in Outputs, Drain(s) PROVE JoinsInOrder'
  BY <1>7 DEF Drain, End
<1>8. CASE ChildCalls
  BY <1>8 DEF ChildCalls
<1>9. CASE ChildWrites
  BY <1>9 DEF ChildWrites
<1>10. CASE ChildReads
  BY <1>10 DEF ChildReads
<1>11. CASE ChildExits
  BY <1>11 DEF ChildExits
<1>12. CASE NextCall
  BY <1>12 DEF NextCall
<1>13. CASE UNCHANGED vars
  BY <1>13 DEF vars
<1> QED
  BY <1>1, <1>2, <1>3, <1>4, <1>5, <1>6, <1>7, <1>8,
     <1>9, <1>10, <1>11, <1>12, <1>13 DEF Next, Caller, Threads, Child

\* Next: the conjuncts together.
LEMMA NextInv == ExecInv /\ [Next]_vars => ExecInv'
BY TypeStep, OutputLeftStep, SpawnIsFreshStep, ReadersEndLastStep,
   WriterEndsLastStep, JoinsInOrderStep DEF ExecInv

LEMMA Invariance == Spec => []ExecInv
<1> QED
  BY InitInv, NextInv, PTL DEF Spec

-----------------------------------------------------------------------------
(* Theorems.                                                               *)

(* Every variable keeps its type; in particular no pipe ever holds more    *)
(* than fits, whatever the program and the threads of run_with_stdin do.   *)
THEOREM ExecTypeCorrect == Spec => []TypeOK
<1>1. ExecInv => TypeOK
  BY DEF ExecInv
<1> QED
  BY <1>1, Invariance, PTL

(* What run_with_stdin returns is all the program wrote, and a program     *)
(* that reads to the end of its input has the whole of it, for pipes and   *)
(* data of any size.                                                       *)
THEOREM WholeOutput == Spec => []NothingCutOff
<1>1. ExecInv => NothingCutOff
  BY DEF ExecInv, TypeOK, ReadersEndLast, WriterEndsLast, JoinsInOrder, Gone,
         NothingCutOff, Outputs
<1> QED
  BY <1>1, Invariance, PTL
=============================================================================
