------------------------- MODULE EnforcementProofs --------------------------
(***************************************************************************)
(* Theorems about the nft half of the helper, for every set of clients,    *)
(* interfaces and concurrent calls and every largest maximum.              *)
(*                                                                         *)
(* The first half holds with helpers killed and nft processes orphaned at  *)
(* any point; the second half is about helpers that answer in time, where  *)
(* the flock makes every edit atomic.                                      *)
(***************************************************************************)
EXTENDS Enforcement, PolicyFacts

USE PolicyAssumption, EnforcementAssumption

-----------------------------------------------------------------------------
(* Lemmas about policies and tables.                                       *)

\* What the parser makes of a table is a policy.
LEMMA ReadPolicyType ==
    ASSUME NEW t \in Tables
    PROVE  ReadPolicy(t) \in Policies
  BY DEF Tables, Policies, ReadPolicy, LimitActive

\* A policy without a limit that was read from a table admits nobody.
LEMMA ReadPolicyLimit ==
    ASSUME NEW t \in Tables, ReadPolicy(t).max = 0
    PROVE  ReadPolicy(t).admitted = {}
  BY DEF Tables, ReadPolicy, LimitActive

\* Each of the three kernel writes keeps the table well-formed.
LEMMA WriteTypes ==
    ASSUME NEW t \in Tables, NEW policy \in Policies
    PROVE  /\ AddTable(t) \in Tables
           /\ Resize(t, policy.max) \in Tables
           /\ RunBatch(t, policy) \in Tables
  BY DEF Tables, Policies, AddTable, Resize, RunBatch, HasLimit

\* Writing a policy and reading it back gives that policy, provided it names
\* an interface and admits nobody without a limit.
LEMMA RoundTrip ==
    ASSUME NEW t \in Tables, NEW policy \in Policies,
           policy.iface \in Ifaces,
           policy.max = 0 => policy.admitted = {}
    PROVE  ReadPolicy(RunBatch(t, policy)) = policy
  <1> DEFINE u == RunBatch(t, policy)
  <1>1. policy = [iface |-> policy.iface, blocked |-> policy.blocked,
                  max |-> policy.max, admitted |-> policy.admitted]
    BY DEF Policies
  <1>2. CASE policy.max > 0
    <2>1. LimitActive(u)
      BY <1>2 DEF LimitActive, RunBatch, HasLimit
    <2> QED BY <1>1, <1>2, <2>1 DEF ReadPolicy, RunBatch, HasLimit
  <1>3. CASE policy.max = 0
    <2>1. ~LimitActive(u)
      BY <1>3 DEF LimitActive, RunBatch, HasLimit
    <2> QED BY <1>1, <1>3, <2>1 DEF ReadPolicy, RunBatch, HasLimit
  <1> QED BY <1>2, <1>3 DEF Policies

-----------------------------------------------------------------------------
(* The invariant of helpers that may be killed.                            *)

\* The resize only runs for a policy with a limit.
ResizeHasLimit ==
    \A h \in Helpers :
        pc[h] \in {"add_table", "add_set"} => HasLimit(desired[h])

KilledInv ==
    /\ TypeOK
    /\ MutualExclusion
    /\ RulesCoherent
    /\ OnlyValidPoliciesWritten
    /\ ResizeHasLimit

\* RulesCoherent as a property of a table.
Coherent(t) ==
    t.admissionRule # NoIface =>
        /\ t.present
        /\ t.size > 0
        /\ t.blockRule = t.admissionRule

\* Each of the three kernel writes keeps a coherent table coherent.
LEMMA CoherentWrites ==
    ASSUME NEW t \in Tables, NEW policy \in Policies, Coherent(t)
    PROVE  /\ Coherent(AddTable(t))
           /\ HasLimit(policy) => Coherent(Resize(t, policy.max))
           /\ Coherent(RunBatch(t, policy))
  BY DEF Tables, Policies, Coherent, AddTable, Resize, RunBatch, HasLimit

\* Whatever a running nft process does, the table stays well formed.
LEMMA CommittedKeepsTable ==
    ASSUME KilledInv, NEW h \in Helpers
    PROVE  Committed(h) \in Tables /\ Coherent(Committed(h))
  <1> USE DEF KilledInv, TypeOK
  <1>1. desired[h] \in Policies /\ table \in Tables /\ Coherent(table)
    BY DEF RulesCoherent, Coherent
  <1>2. pc[h] = "add_set" => HasLimit(desired[h])
    BY DEF ResizeHasLimit
  <1> QED BY <1>1, <1>2, WriteTypes, CoherentWrites DEF Committed

\* Every step leaves the table alone or carries one running write through.
LEMMA StepsWriteOnce ==
    ASSUME [Next]_vars
    PROVE  table' = table \/ \E h \in Helpers : table' = Committed(h)
  <1>1. CASE UNCHANGED vars
    BY <1>1 DEF vars
  <1>2. CASE Next
    <2>1. PICK h \in Helpers : HelperStep(h) \/ Kill(h) \/ OrphanEnds(h)
      BY <1>2 DEF Next
    <2>2. CASE CreateTable(h)
      BY <2>2 DEF CreateTable, Committed
    <2>3. CASE ResizeSet(h)
      BY <2>3 DEF ResizeSet, Committed
    <2>4. CASE Write(h)
      BY <2>4 DEF Write, Committed
    <2>5. CASE CommandFails(h)
      BY <2>5 DEF CommandFails
    <2>6. CASE OrphanEnds(h)
      BY <2>6 DEF OrphanEnds
    <2>7. CASE Kill(h) \/ (\E r \in Asked : Start(h, r)) \/ Acquire(h)
                \/ Usage(h) \/ Read(h) \/ Refuse(h) \/ KernelRejects(h)
                \/ ReadBack(h) \/ Report(h)
      BY <2>7 DEF Kill, Start, Acquire, Usage, Read, Refuse, KernelRejects,
                  ReadBack, Report
    <2> QED BY <2>1, <2>2, <2>3, <2>4, <2>5, <2>6, <2>7 DEF HelperStep
  <1> QED BY <1>1, <1>2

\* A step changes the table, if at all, by one of the three writes.
LEMMA TableStep ==
    ASSUME KilledInv, [Next]_vars
    PROVE  table' \in Tables /\ RulesCoherent'
  <1>1. table \in Tables /\ Coherent(table)
    BY DEF KilledInv, TypeOK, RulesCoherent, Coherent
  <1>2. table' \in Tables /\ Coherent(table')
    BY <1>1, StepsWriteOnce, CommittedKeepsTable
  <1> QED BY <1>2 DEF RulesCoherent, Coherent

\* What a helper wants to write is a policy.
LEMMA WantedType ==
    ASSUME TypeOK, NEW h \in Helpers
    PROVE  Wanted(h) \in Policies
  BY ReadPolicyType, EditType DEF TypeOK, Wanted

\* Leaving keeps everything in its type.
LEMMA ExitType ==
    ASSUME TypeOK, NEW h \in Helpers, NEW result \in Outcomes,
           Exit(h, result)
    PROVE  /\ lock' \in Helpers \cup {Free}
           /\ pc' \in [Helpers -> Stages]
           /\ desired' \in [Helpers -> Policies]
           /\ outcome' \in [Helpers -> Outcomes]
  BY EmptyPolicyType DEF TypeOK, Exit, Goto, Stages

\* Every step keeps the types.
LEMMA TypeStep ==
    ASSUME KilledInv, [Next]_vars
    PROVE  TypeOK'
  <1> USE DEF TypeOK
  <1>0. TypeOK /\ table' \in Tables
    BY TableStep DEF KilledInv
  <1>1. CASE UNCHANGED vars
    BY <1>0, <1>1 DEF vars
  <1>2. CASE Next
    <2>1. PICK h \in Helpers : HelperStep(h) \/ Kill(h) \/ OrphanEnds(h)
      BY <1>2 DEF Next
    <2>2. CASE \E r \in Asked : Start(h, r)
      BY <1>0, <2>2 DEF Start, Goto, Stages, Outcomes
    <2>3. CASE Acquire(h)
      BY <1>0, <2>3 DEF Acquire, Goto, Stages, Critical
    <2>4. CASE Read(h)
      BY <1>0, <2>4, WantedType DEF Read, Goto, Stages, Critical, Writing
    <2>5. CASE CreateTable(h)
      BY <1>0, <2>5 DEF CreateTable, Goto, Stages, Critical, Writing
    <2>6. CASE ResizeSet(h)
      BY <1>0, <2>6 DEF ResizeSet, Goto, Stages, Critical, Writing
    <2>7. CASE Write(h)
      BY <1>0, <2>7 DEF Write, Goto, Stages, Critical
    <2>8. CASE Usage(h)
      BY <1>0, <2>8, ExitType DEF Usage, Outcomes
    <2>9. CASE Refuse(h)
      BY <1>0, <2>9, ExitType DEF Refuse, Outcomes
    <2>10. CASE KernelRejects(h)
      BY <1>0, <2>10, ExitType DEF KernelRejects, Outcomes
    <2>11. CASE ReadBack(h)
      <3>1. CASE ReadPolicy(table) = desired[h]
        BY <1>0, <2>11, <3>1 DEF ReadBack, Goto, Stages, Critical
      <3>2. CASE ReadPolicy(table) # desired[h]
        BY <1>0, <2>11, <3>2, ExitType DEF ReadBack, Outcomes
      <3> QED BY <3>1, <3>2
    <2>12. CASE Report(h)
      BY <1>0, <2>12, ExitType DEF Report, Outcomes
    <2>13. CASE CommandFails(h)
      BY <1>0, <2>13, ExitType DEF CommandFails, Outcomes
    <2>14. CASE Kill(h)
      BY <1>0, <2>14, EmptyPolicyType DEF Kill, Goto, Stages, Outcomes
    <2>15. CASE OrphanEnds(h)
      BY <1>0, <2>15, EmptyPolicyType DEF OrphanEnds, Goto, Stages
    <2> QED BY <2>1, <2>2, <2>3, <2>4, <2>5, <2>6, <2>7, <2>8, <2>9, <2>10,
               <2>11, <2>12, <2>13, <2>14, <2>15 DEF HelperStep
  <1> QED BY <1>1, <1>2

\* Every step keeps the lock with the one helper that is past lock::acquire.
LEMMA MutexStep ==
    ASSUME KilledInv, [Next]_vars
    PROVE  MutualExclusion'
  <1> USE DEF MutualExclusion, Live
  <1>0. TypeOK /\ MutualExclusion
    BY DEF KilledInv
  <1>1. CASE UNCHANGED vars
    BY <1>0, <1>1 DEF vars
  <1>2. CASE Next
    <2>1. PICK h \in Helpers : HelperStep(h) \/ Kill(h) \/ OrphanEnds(h)
      BY <1>2 DEF Next
    <2> USE DEF TypeOK, Goto, Critical, Writing
    <2>2. CASE \E r \in Asked : Start(h, r)
      BY <1>0, <2>2 DEF Start
    <2>3. CASE Acquire(h)
      BY <1>0, <2>3 DEF Acquire
    <2>4. CASE Read(h) \/ CreateTable(h) \/ ResizeSet(h) \/ Write(h)
      BY <1>0, <2>4 DEF Read, CreateTable, ResizeSet, Write
    <2>5. CASE (\E result \in Outcomes : Exit(h, result))
                  /\ UNCHANGED orphaned
      BY <1>0, <2>5 DEF Exit
    <2>6. CASE ReadBack(h) /\ ReadPolicy(table) = desired[h]
      BY <1>0, <2>6 DEF ReadBack
    <2>7. CASE Kill(h)
      BY <1>0, <2>7 DEF Kill
    <2>8. CASE OrphanEnds(h)
      BY <1>0, <2>8 DEF OrphanEnds
    <2> QED
      BY <2>1, <2>2, <2>3, <2>4, <2>5, <2>6, <2>7, <2>8
      DEF HelperStep, Usage, Refuse, KernelRejects, ReadBack, Report,
          CommandFails, Outcomes
  <1> QED BY <1>1, <1>2

\* Every step keeps the policies on their way to the kernel valid.
LEMMA WritingStep ==
    ASSUME KilledInv, [Next]_vars
    PROVE  OnlyValidPoliciesWritten' /\ ResizeHasLimit'
  <1> USE DEF OnlyValidPoliciesWritten, ResizeHasLimit
  <1>0. TypeOK /\ OnlyValidPoliciesWritten /\ ResizeHasLimit
    BY DEF KilledInv
  <1>1. CASE UNCHANGED vars
    BY <1>0, <1>1 DEF vars
  <1>2. CASE Next
    <2>1. PICK h \in Helpers : HelperStep(h) \/ Kill(h) \/ OrphanEnds(h)
      BY <1>2 DEF Next
    <2> USE DEF TypeOK, Goto, Writing
    <2>2. CASE (\E r \in Asked : Start(h, r)) \/ Acquire(h)
                \/ CreateTable(h) \/ ResizeSet(h) \/ Write(h)
      BY <1>0, <2>2 DEF Start, Acquire, CreateTable, ResizeSet, Write
    <2>3. CASE Read(h)
      BY <1>0, <2>3 DEF Read
    <2>4. CASE \E result \in Outcomes : Exit(h, result)
      BY <1>0, <2>4 DEF Exit
    <2>5. CASE ReadBack(h) /\ ReadPolicy(table) = desired[h]
      BY <1>0, <2>5 DEF ReadBack
    <2>6. CASE Kill(h)
      BY <1>0, <2>6 DEF Kill
    <2>7. CASE OrphanEnds(h)
      BY <1>0, <2>7 DEF OrphanEnds
    <2> QED
      BY <2>1, <2>2, <2>3, <2>4, <2>5, <2>6, <2>7
      DEF HelperStep, Usage, Refuse, KernelRejects, ReadBack, Report,
          CommandFails, Outcomes
  <1> QED BY <1>1, <1>2

\* The invariant of runs with kills holds at first ...
LEMMA KilledInvInit == Init => KilledInv
  <1> SUFFICES ASSUME Init PROVE KilledInv
    OBVIOUS
  <1>1. TypeOK
    <2>1. table \in Tables
      BY DEF Init, NoTable, Tables
    <2> QED BY <2>1, EmptyPolicyType
            DEF Init, TypeOK, Stages, Outcomes, Requests
  <1>2. RulesCoherent
    BY DEF Init, NoTable, RulesCoherent
  <1>3. MutualExclusion /\ OnlyValidPoliciesWritten /\ ResizeHasLimit
    BY DEF Init, MutualExclusion, OnlyValidPoliciesWritten, ResizeHasLimit,
           Critical, Writing
  <1> QED BY <1>1, <1>2, <1>3 DEF KilledInv

\* ... is kept by every step ...
LEMMA KilledInvStep == KilledInv /\ [Next]_vars => KilledInv'
  BY TypeStep, TableStep, MutexStep, WritingStep DEF KilledInv

\* ... and so holds in every reachable state.
LEMMA KilledInvariant == Spec => []KilledInv
  BY KilledInvInit, KilledInvStep, PTL DEF Spec

\* Every variable keeps its type, in particular the kernel only ever holds
\* tables the helper can parse, whatever is killed or left running.
THEOREM TypeCorrect == Spec => []TypeOK
  BY KilledInvariant, PTL DEF KilledInv

\* The flock does what enforce/lock.rs takes it for: two live helpers are
\* never both between `lock::acquire` and their exit.
THEOREM LockExcludes == Spec => []MutualExclusion
  BY KilledInvariant, PTL DEF KilledInv

\* No crash, kill or late nft process ever leaves a limit that is enforced
\* without its set, or rules scoped to different interfaces (build_apply_script
\* writes the whole chain in one batch).
THEOREM TableStaysCoherent == Spec => []RulesCoherent
  BY KilledInvariant, PTL DEF KilledInv

\* `apply` validates before its first nft call: no policy that exceeds its own
\* maximum is ever on its way to the kernel.
THEOREM InvalidNeverWritten == Spec => []OnlyValidPoliciesWritten
  BY KilledInvariant, PTL DEF KilledInv

-----------------------------------------------------------------------------
(* Helpers that answer in time: what their writes do to the policy.        *)

\* Creating the table first does not change the policy in force.
LEMMA AddTableKeepsPolicy ==
    ASSUME NEW t \in Tables
    PROVE  ReadPolicy(AddTable(t)) = ReadPolicy(t)
  BY DEF Tables, AddTable, ReadPolicy, LimitActive

\* The resize moves the maximum of a limit in force, and then only for a
\* set-admission; whatever the request, applying it gives the same policy
\* before and after the resize.
LEMMA ResizeEffect ==
    ASSUME NEW t \in Tables, Coherent(t), NEW r \in Requests,
           r.op # "bad_max", HasLimit(Edit(r, ReadPolicy(t))),
           NEW u, u = Resize(t, Edit(r, ReadPolicy(t)).max)
    PROVE  /\ \/ ReadPolicy(u) = ReadPolicy(t)
              \/ /\ r.op = "set_admission" /\ r.max > 0
                 /\ HasLimit(ReadPolicy(t))
                 /\ ReadPolicy(u) = [ReadPolicy(t) EXCEPT !.max = r.max]
           /\ Edit(r, ReadPolicy(u)) = Edit(r, ReadPolicy(t))
  <1> DEFINE d == Edit(r, ReadPolicy(t))
  <1>1. /\ u.present = t.present /\ u.blockRule = t.blockRule
        /\ u.admissionRule = t.admissionRule /\ u.blocked = t.blocked
        /\ u.size = d.max /\ u.admitted = t.admitted
    BY DEF Tables, Resize
  <1>2. d.max > 0
    BY DEF HasLimit
  <1>3. CASE t.admissionRule = NoIface
    <2>1. ~LimitActive(t) /\ ~LimitActive(u)
      BY <1>1, <1>3 DEF LimitActive
    <2>2. ReadPolicy(u) = ReadPolicy(t)
      BY <1>1, <2>1 DEF ReadPolicy
    <2> QED BY <2>2
  <1>4. CASE t.admissionRule # NoIface
    <2>1. LimitActive(t) /\ LimitActive(u)
      BY <1>1, <1>2, <1>4 DEF LimitActive, Coherent
    <2>2. ReadPolicy(u) = [ReadPolicy(t) EXCEPT !.max = d.max]
      BY <1>1, <2>1 DEF ReadPolicy
    <2>3. HasLimit(ReadPolicy(t))
      BY <1>4, <2>1 DEF HasLimit, ReadPolicy, LimitActive
    <2>4. CASE r.op = "set_admission"
      <3>1. d.max = r.max
        BY <2>4 DEF Edit
      <3>2. Edit(r, ReadPolicy(u)) = Edit(r, ReadPolicy(t))
        BY <2>2, <2>4 DEF Edit, ReadPolicy
      <3> QED BY <1>2, <2>2, <2>4, <2>3, <3>1, <3>2
    <2>5. CASE r.op # "set_admission"
      <3>1. d.max = ReadPolicy(t).max
        BY <2>5 DEF Edit
      <3>2. ReadPolicy(u) = ReadPolicy(t)
        BY <2>2, <3>1 DEF ReadPolicy
      <3> QED BY <3>2
    <2> QED BY <2>4, <2>5
  <1> QED BY <1>3, <1>4

\* The batch makes the policy exactly what the request asks of the policy it
\* was computed from, and honours the request.
LEMMA BatchEffect ==
    ASSUME NEW t \in Tables, NEW r \in Requests
    PROVE  LET d == Edit(r, ReadPolicy(t)) IN
             ReadPolicy(RunBatch(t, d)) = d /\ Honours(d, r)
  <1> DEFINE d == Edit(r, ReadPolicy(t))
  <1>1. d \in Policies
    BY ReadPolicyType, EditType
  <1>2. d.iface \in Ifaces
    BY RequestFields DEF Edit
  <1>3. ASSUME d.max = 0 PROVE d.admitted = {}
    <2>1. CASE r.op = "set_admission"
      BY <1>3, <2>1 DEF Edit
    <2>2. CASE r.op # "set_admission"
      BY <1>3, <2>2, ReadPolicyLimit DEF Edit
    <2> QED BY <2>1, <2>2
  <1>4. Honours(d, r)
    BY DEF Honours, Edit
  <1> QED BY <1>1, <1>2, <1>3, <1>4, RoundTrip

-----------------------------------------------------------------------------
(* The invariant of helpers that answer in time.                           *)

\* What a helper inside its cycle relies on: the snapshot it computed its
\* policy from is still current, each nft call finds what the call before it
\* prepared, and what was written is still there until it exits.
CycleIntact(h) ==
    /\ pc[h] \in Writing =>
         /\ req[h].op # "bad_max"
         /\ desired[h] = Edit(req[h], Policy)
    /\ pc[h] = "add_set" => table.present
    /\ pc[h] = "batch" /\ HasLimit(desired[h]) => table.size = desired[h].max
    /\ pc[h] \in {"read_back", "report"} =>
         Policy = desired[h] /\ Honours(Policy, req[h])

PunctualInv ==
    /\ KilledInv
    /\ orphaned = {}
    /\ \A h \in Helpers : CycleIntact(h)
    /\ NeverInconsistent

\* A run without kills is a run: what is proved of Spec holds of PunctualSpec.
LEMMA PunctualIsNext == [PunctualNext]_vars => [Next]_vars
  BY DEF PunctualNext, Next

\* A helper that is between two of its nft calls, or outside its cycle, is
\* not disturbed by what the holder of the lock does.
LEMMA OthersUndisturbed ==
    ASSUME PunctualInv, NEW h \in Helpers, NEW g \in Helpers, g # h,
           pc'[g] = pc[g], req'[g] = req[g], desired'[g] = desired[g],
           table' = table \/ pc[h] \in Critical
    PROVE  CycleIntact(g)'
  <1>1. CASE table' = table
    BY <1>1 DEF PunctualInv, CycleIntact, Policy
  <1>2. CASE pc[h] \in Critical
    <2>1. pc[g] \notin Critical
      BY <1>2 DEF PunctualInv, KilledInv, MutualExclusion, Live
    <2> QED BY <2>1 DEF CycleIntact, Critical, Writing
  <1> QED BY <1>1, <1>2

\* The three writes, on a cycle that is intact.
LEMMA WriteEffect ==
    ASSUME PunctualInv, NEW h \in Helpers, pc[h] \in Writing,
           NEW u, u = Committed(h)
    PROVE  /\ pc[h] = "add_table" =>
                 u = AddTable(table) /\ ReadPolicy(u) = Policy
           /\ pc[h] = "add_set" =>
                 /\ u = Resize(table, desired[h].max)
                 /\ Edit(req[h], ReadPolicy(u)) = desired[h]
                 /\ \/ ReadPolicy(u) = Policy
                    \/ /\ req[h].op = "set_admission" /\ req[h].max > 0
                       /\ HasLimit(Policy)
                       /\ ReadPolicy(u) = [Policy EXCEPT !.max = req[h].max]
           /\ pc[h] = "batch" =>
                 /\ BatchFits(table, desired[h])
                 /\ u = RunBatch(table, desired[h])
                 /\ ReadPolicy(u) = desired[h]
                 /\ Honours(desired[h], req[h])
  <1>1. /\ table \in Tables /\ Coherent(table)
        /\ req[h] \in Requests /\ desired[h] \in Policies
        /\ CycleIntact(h) /\ Buildable(desired[h])
    BY DEF PunctualInv, KilledInv, TypeOK, RulesCoherent, Coherent,
           OnlyValidPoliciesWritten
  <1>2. /\ req[h].op # "bad_max"
        /\ desired[h] = Edit(req[h], ReadPolicy(table))
    BY <1>1 DEF CycleIntact, Policy
  <1>3. CASE pc[h] = "add_table"
    BY <1>1, <1>3, AddTableKeepsPolicy DEF Committed, Policy
  <1>4. CASE pc[h] = "add_set"
    <2>1. u = Resize(table, desired[h].max)
      BY <1>1, <1>4 DEF Committed, CycleIntact
    <2>2. HasLimit(Edit(req[h], ReadPolicy(table)))
      BY <1>2, <1>4 DEF PunctualInv, KilledInv, ResizeHasLimit
    <2>3. u = Resize(table, Edit(req[h], ReadPolicy(table)).max)
      BY <1>2, <2>1
    <2> QED BY <1>1, <1>2, <1>4, <2>1, <2>2, <2>3, ResizeEffect DEF Policy
  <1>5. CASE pc[h] = "batch"
    <2>1. BatchFits(table, desired[h])
      BY <1>1, <1>5 DEF CycleIntact, BatchFits, Buildable
    <2> QED BY <1>1, <1>2, <1>5, <2>1, BatchEffect DEF Committed
  <1> QED BY <1>3, <1>4, <1>5

\* A step of h concerns h alone, apart from the table and the lock.
LEMMA OwnFieldsOnly ==
    ASSUME TypeOK, NEW h \in Helpers, HelperStep(h)
    PROVE  /\ orphaned' = orphaned
           /\ \A g \in Helpers \ {h} :
                /\ pc'[g] = pc[g] /\ req'[g] = req[g]
                /\ desired'[g] = desired[g] /\ outcome'[g] = outcome[g]
           /\ table' = table \/ pc[h] \in Writing
  <1> USE DEF TypeOK, Goto, Exit
  <1>1. CASE (\E r \in Asked : Start(h, r)) \/ Acquire(h) \/ Usage(h)
              \/ Read(h) \/ Refuse(h)
    BY <1>1 DEF Start, Acquire, Usage, Read, Refuse
  <1>2. CASE CreateTable(h) \/ ResizeSet(h) \/ Write(h) \/ KernelRejects(h)
    BY <1>2 DEF CreateTable, ResizeSet, Write, KernelRejects, Writing
  <1>3. CASE ReadBack(h) \/ Report(h)
    BY <1>3 DEF ReadBack, Report
  <1>4. CASE CommandFails(h)
    BY <1>4 DEF CommandFails, Committed, Writing
  <1> QED BY <1>1, <1>2, <1>3, <1>4 DEF HelperStep

\* The helper that steps finds its cycle intact and leaves it intact.
LEMMA OwnCycle ==
    ASSUME PunctualInv, NEW h \in Helpers, HelperStep(h)
    PROVE  CycleIntact(h)' /\ outcome'[h] # "inconsistent"
  <1>0. /\ TypeOK /\ CycleIntact(h) /\ outcome[h] # "inconsistent"
        /\ table \in Tables
    BY DEF PunctualInv, KilledInv, TypeOK, NeverInconsistent
  <1> USE DEF TypeOK, Goto, CycleIntact, Writing
  <1>1. CASE (\E r \in Asked : Start(h, r)) \/ Acquire(h)
    BY <1>0, <1>1 DEF Start, Acquire
  <1>2. CASE Read(h)
    <2>1. desired'[h] = Edit(req[h], Policy) /\ UNCHANGED <<table, req>>
      BY <1>0, <1>2 DEF Read, Wanted, Policy
    <2>2. pc'[h] = IF HasLimit(desired'[h]) THEN "add_table" ELSE "batch"
      BY <1>0, <1>2, <2>1 DEF Read, Wanted, Policy
    <2>3. req'[h].op # "bad_max" /\ Policy' = Policy /\ outcome' = outcome
      BY <1>2, <2>1 DEF Read, Policy
    <2> QED BY <1>0, <2>1, <2>2, <2>3
  <1>3. CASE CreateTable(h)
    <2>1. pc[h] = "add_table" /\ pc'[h] = "add_set" /\ table' = Committed(h)
      BY <1>0, <1>3 DEF CreateTable, Committed
    <2>2. table' = AddTable(table) /\ Policy' = Policy
      BY <2>1, WriteEffect DEF Policy
    <2>3. table'.present
      BY <1>0, <2>2 DEF Tables, AddTable
    <2> QED BY <1>0, <1>3, <2>1, <2>2, <2>3 DEF CreateTable
  <1>4. CASE ResizeSet(h)
    <2>1. pc[h] = "add_set" /\ pc'[h] = "batch" /\ table' = Committed(h)
      BY <1>0, <1>4 DEF ResizeSet, Committed
    <2>2. /\ table' = Resize(table, desired[h].max)
          /\ Edit(req[h], Policy') = desired[h]
      BY <2>1, WriteEffect DEF Policy
    <2>3. table'.size = desired[h].max
      BY <1>0, <2>2 DEF Tables, Resize
    <2> QED BY <1>0, <1>4, <2>1, <2>2, <2>3 DEF ResizeSet
  <1>5. CASE Write(h)
    <2>1. pc[h] = "batch" /\ pc'[h] = "read_back" /\ table' = Committed(h)
      BY <1>0, <1>5 DEF Write, Committed
    <2>2. Policy' = desired[h] /\ Honours(desired[h], req[h])
      BY <2>1, WriteEffect DEF Policy
    <2> QED BY <1>0, <1>5, <2>1, <2>2 DEF Write
  <1>6. CASE ReadBack(h)
    BY <1>0, <1>6 DEF ReadBack, Policy
  <1>7. CASE \E result \in Outcomes \ {"inconsistent"} : Exit(h, result)
    BY <1>0, <1>7 DEF Exit
  <1> QED
    BY <1>1, <1>2, <1>3, <1>4, <1>5, <1>6, <1>7
    DEF HelperStep, Usage, Refuse, KernelRejects, Report, CommandFails,
        Outcomes

\* Every step of helpers that answer in time keeps their invariant ...
LEMMA PunctualInvStep == PunctualInv /\ [PunctualNext]_vars => PunctualInv'
  <1> SUFFICES ASSUME PunctualInv, [PunctualNext]_vars
               PROVE  PunctualInv'
    OBVIOUS
  <1>1. KilledInv'
    BY PunctualIsNext, KilledInvStep DEF PunctualInv
  <1>2. CASE UNCHANGED vars
    BY <1>1, <1>2
    DEF PunctualInv, CycleIntact, NeverInconsistent, Policy, vars
  <1>3. CASE PunctualNext
    <2>1. PICK h \in Helpers : HelperStep(h)
      BY <1>3 DEF PunctualNext
    <2>2. CycleIntact(h)' /\ outcome'[h] # "inconsistent"
      BY <2>1, OwnCycle
    <2>3. ASSUME NEW g \in Helpers, g # h
          PROVE  CycleIntact(g)' /\ outcome'[g] # "inconsistent"
      BY <2>1, <2>3, OwnFieldsOnly, OthersUndisturbed
      DEF PunctualInv, KilledInv, NeverInconsistent, Critical
    <2>4. orphaned' = {}
      BY <2>1, OwnFieldsOnly DEF PunctualInv, KilledInv
    <2> QED BY <1>1, <2>2, <2>3, <2>4 DEF PunctualInv, NeverInconsistent
  <1> QED BY <1>2, <1>3

\* ... which therefore holds in every state they reach.
LEMMA PunctualInvariant == PunctualSpec => []PunctualInv
  <1>1. Init => PunctualInv
    BY KilledInvInit
    DEF Init, PunctualInv, CycleIntact, NeverInconsistent, Writing
  <1> QED BY <1>1, PunctualInvStep, PTL DEF PunctualSpec

\* `apply` never finds the kernel different from what it wrote: the mismatch
\* that enforce/lock.rs reports for two unserialised helpers cannot happen.
THEOREM ReadBackMatches == PunctualSpec => []NeverInconsistent
  BY PunctualInvariant, PTL DEF PunctualInv

\* The resize of `apply` always finds a table and the batch always finds a set
\* large enough for it.
THEOREM WritesAccepted == PunctualSpec => []NeverRejectedByKernel
  <1>1. PunctualInv => NeverRejectedByKernel
    BY DEF PunctualInv, KilledInv, CycleIntact, NeverRejectedByKernel,
           OnlyValidPoliciesWritten, Writing, Buildable, BatchFits
  <1> QED BY <1>1, PunctualInvariant, PTL

\* What one step of one helper does to the policy.
LEMMA PolicyStep ==
    ASSUME PunctualInv, NEW h \in Helpers, HelperStep(h), Policy' # Policy
    PROVE  /\ pc[h] \in {"add_set", "batch"}
           /\ pc[h] = "batch" => Policy' = Edit(req[h], Policy)
           /\ pc[h] = "add_set" =>
                /\ req[h].op = "set_admission" /\ req[h].max > 0
                /\ HasLimit(Policy)
                /\ Policy' = [Policy EXCEPT !.max = req[h].max]
  <1>1. table' = Committed(h) /\ pc[h] \in Writing
    <2>1. table' # table /\ pc[h] \in Writing
      BY OwnFieldsOnly DEF PunctualInv, KilledInv, Policy
    <2>2. CASE CreateTable(h) \/ ResizeSet(h) \/ Write(h) \/ CommandFails(h)
      BY <2>1, <2>2
      DEF CreateTable, ResizeSet, Write, CommandFails, Committed
    <2> QED
      BY <2>1, <2>2
      DEF HelperStep, Start, Acquire, Usage, Read, Refuse, KernelRejects,
          ReadBack, Report
  <1>2. Policy' = ReadPolicy(table')
    BY DEF Policy
  <1>3. pc[h] = "batch" => desired[h] = Edit(req[h], Policy)
    BY <1>1 DEF PunctualInv, CycleIntact
  <1> QED BY <1>1, <1>2, <1>3, WriteEffect DEF Writing

\* No lost update: while helpers answer in time, every change of the policy in
\* the kernel is one helper's request applied to the policy in force, or the
\* resize ahead of a set-admission.
THEOREM NoLostUpdate == PunctualSpec => SerialEdits
  <1>1. PunctualInv /\ [PunctualNext]_vars => [SerialEdit]_vars
    BY PolicyStep DEF PunctualNext, SerialEdit
  <1> QED BY <1>1, PunctualInvariant, PTL DEF PunctualSpec, SerialEdits

\* A caller that is told of success finds its request honoured by the kernel
\* at that moment.
THEOREM SuccessHonoured == PunctualSpec => SuccessIsReal
  <1>1. ASSUME PunctualInv, [PunctualNext]_vars
        PROVE  [RealSuccess]_vars
    <2>1. CASE UNCHANGED vars
      BY <2>1
    <2>2. CASE PunctualNext
      <3>1. PICK h \in Helpers : HelperStep(h)
        BY <2>2 DEF PunctualNext
      <3>2. TypeOK /\ CycleIntact(h)
        BY <1>1 DEF PunctualInv, KilledInv
      <3>3. \A g \in Helpers \ {h} : outcome'[g] = outcome[g]
        BY <3>1, <3>2, OwnFieldsOnly
      <3>4. ASSUME outcome'[h] = "ok", outcome[h] # "ok"
            PROVE  Honours(Policy', req[h])
        <4>1. CASE Report(h)
          <5>1. Honours(Policy, req[h])
            BY <3>2, <4>1 DEF Report, CycleIntact
          <5>2. Policy' = Policy
            BY <4>1 DEF Report, Policy
          <5> QED BY <5>1, <5>2
        <4>2. CASE \E result \in Outcomes \ {"ok"} : Exit(h, result)
          BY <3>2, <3>4, <4>2 DEF TypeOK, Exit
        <4>3. CASE outcome' = outcome
          BY <3>4, <4>3
        <4>4. CASE \E r \in Asked : Start(h, r)
          BY <3>2, <3>4, <4>4 DEF TypeOK, Start
        <4> QED
          BY <3>1, <4>1, <4>2, <4>3, <4>4
          DEF HelperStep, Acquire, Usage, Read, Refuse, CreateTable,
              ResizeSet, Write, KernelRejects, ReadBack, CommandFails,
              Outcomes
      <3> QED BY <3>3, <3>4 DEF RealSuccess
    <2> QED BY <1>1, <2>1, <2>2
  <1> QED BY <1>1, PunctualInvariant, PTL DEF PunctualSpec, SuccessIsReal

-----------------------------------------------------------------------------
(* The policy store.                                                       *)

\* The store and the helper talk about the same policies and requests.
LEMMA SameData ==
    /\ Store!Requests = Requests /\ Store!BadMaxRequests = BadMaxRequests
    /\ Store!EmptyPolicy = EmptyPolicy
    /\ \A policy : Store!HasLimit(policy) = HasLimit(policy)
    /\ \A r, policy : Store!Edit(r, policy) = Edit(r, policy)
    /\ \A r, policy : Store!Honours(policy, r) = Honours(policy, r)
  BY DEF Store!Requests, Store!BlockRequests, Store!AdmissionRequests,
         Store!BadMaxRequests, Store!EmptyPolicy, Store!HasLimit, Store!Edit,
         Store!Honours, Requests, BlockRequests, AdmissionRequests,
         BadMaxRequests, EmptyPolicy, HasLimit, Edit, Honours

\* Every step of the helpers is a step of the policy store or none.
LEMMA AbstractStep ==
    ASSUME PunctualInv, PunctualNext
    PROVE  [Store!Next]_(Store!vars)
  <1>1. PICK h \in Helpers : HelperStep(h)
    BY DEF PunctualNext
  <1>2. TypeOK /\ CycleIntact(h) /\ TypeOK'
    BY PunctualIsNext, KilledInvStep DEF PunctualInv, KilledInv
  <1> USE DEF TypeOK, Goto, AbstractStage, Critical, Writing
  <1>3. CASE \E r \in Asked : Start(h, r)
    <2>1. PICK r \in Asked : Start(h, r)
      BY <1>3
    <2>2. Policy' = Policy
      BY <2>1 DEF Start, Policy
    <2>3. AbstractStage' = [AbstractStage EXCEPT ![h] = "pending"]
      BY <1>2, <2>1 DEF Start
    <2>4. Store!Call(h, r)
      BY <1>2, <2>1, <2>2, <2>3 DEF Start, Store!Call
    <2> QED BY <2>4, SameData DEF Store!Next
  <1>4. CASE Acquire(h) \/ Read(h)
    <2>1. AbstractStage' = AbstractStage
      BY <1>2, <1>4 DEF Acquire, Read
    <2> QED BY <1>4, <2>1 DEF Acquire, Read, Policy, Store!vars
  <1>5. CASE CreateTable(h) \/ ResizeSet(h)
    <2>1. AbstractStage' = AbstractStage /\ AbstractStage[h] = "pending"
      BY <1>2, <1>5 DEF CreateTable, ResizeSet
    <2>2. UNCHANGED <<req, outcome>>
      BY <1>5 DEF CreateTable, ResizeSet
    <2>3. CASE Policy' = Policy
      BY <2>1, <2>2, <2>3 DEF Store!vars
    <2>4. CASE Policy' # Policy
      <3>1. /\ pc[h] = "add_set" /\ req[h].op = "set_admission"
            /\ req[h].max > 0 /\ HasLimit(Policy)
            /\ Policy' = [Policy EXCEPT !.max = req[h].max]
        BY <1>1, <1>5, <2>4, PolicyStep DEF CreateTable, ResizeSet
      <3>2. Store!MoveMaximum(h)
        BY <2>1, <2>2, <3>1, SameData DEF Store!MoveMaximum
      <3> QED BY <3>2 DEF Store!Next
    <2> QED BY <2>3, <2>4
  <1>6. CASE Write(h)
    <2>1. pc[h] = "batch" /\ req[h].op # "bad_max"
      BY <1>2, <1>6 DEF Write, CycleIntact
    <2>2. Policy' = Edit(req[h], Policy)
      <3>1. table' = Committed(h)
        BY <1>6 DEF Write, Committed
      <3> QED BY <1>2, <2>1, <3>1, WriteEffect DEF CycleIntact, Policy
    <2>3. AbstractStage' = [AbstractStage EXCEPT ![h] = "applied"]
      BY <1>2, <1>6 DEF Write
    <2>4. Store!Apply(h)
      BY <1>2, <1>6, <2>1, <2>2, <2>3, SameData DEF Write, Store!Apply
    <2> QED BY <2>4 DEF Store!Next
  <1>7. CASE ReadBack(h)
    <2>1. ReadPolicy(table) = desired[h] /\ pc[h] = "read_back"
      BY <1>2, <1>7 DEF ReadBack, CycleIntact, Policy
    <2>2. AbstractStage' = AbstractStage
      BY <1>2, <1>7, <2>1 DEF ReadBack
    <2> QED BY <1>7, <2>1, <2>2 DEF ReadBack, Policy, Store!vars
  <1>8. CASE Report(h)
    <2>1. /\ AbstractStage[h] = "applied"
          /\ AbstractStage' = [AbstractStage EXCEPT ![h] = "idle"]
      BY <1>2, <1>8 DEF Report, Exit
    <2>2. Store!Succeed(h)
      BY <1>2, <1>8, <2>1, SameData
      DEF Report, Exit, Policy, CycleIntact, Store!Succeed
    <2> QED BY <2>2 DEF Store!Next
  <1>9. CASE \/ (Usage(h) \/ Refuse(h)) /\ Policy' = Policy
             \/ KernelRejects(h) \/ CommandFails(h)
    <2>1. \E o \in {"refused", "failed"} : Exit(h, o)
      BY <1>9 DEF Usage, Refuse, KernelRejects, CommandFails
    <2>2. /\ AbstractStage[h] # "idle" /\ req' = req
          /\ pc[h] \in {"add_set", "batch"} => AbstractStage[h] = "pending"
      BY <1>2, <1>9 DEF Usage, Refuse, KernelRejects, CommandFails
    <2>3. /\ AbstractStage' = [AbstractStage EXCEPT ![h] = "idle"]
          /\ outcome' \in {[outcome EXCEPT ![h] = o] :
                              o \in {"refused", "failed"}}
      BY <1>2, <2>1 DEF Exit
    <2>4. \/ Policy' = Policy
          \/ /\ AbstractStage[h] = "pending"
             /\ Policy' = Edit(req[h], Policy)
          \/ /\ AbstractStage[h] = "pending" /\ HasLimit(Policy)
             /\ req[h].op = "set_admission" /\ req[h].max > 0
             /\ Policy' = [Policy EXCEPT !.max = req[h].max]
      BY <1>1, <2>2, PolicyStep
    <2>5. Store!Fail(h)
      BY <2>2, <2>3, <2>4, SameData DEF Store!Fail
    <2> QED BY <2>5 DEF Store!Next
  <1> QED
    BY <1>1, <1>3, <1>4, <1>5, <1>6, <1>7, <1>8, <1>9
    DEF HelperStep, Usage, Refuse, Policy

\* Helpers that answer in time implement the shared policy store: each call
\* that succeeds edits the policy exactly once, atomically, between its start
\* and its return (`apply`, under the lock of enforce/lock.rs).
THEOREM ImplementsPolicyStore == PunctualSpec => RefinesPolicyStore
  <1>1. Init => Store!Init
    <2> SUFFICES ASSUME Init PROVE Store!Init
      OBVIOUS
    <2>1. Policy = EmptyPolicy
      BY DEF Init, NoTable, Policy, ReadPolicy, LimitActive, EmptyPolicy
    <2> QED BY <2>1, SameData DEF Init, AbstractStage, Store!Init
  <1>2. PunctualInv /\ [PunctualNext]_vars => [Store!Next]_(Store!vars)
    <2>1. ASSUME UNCHANGED vars
          PROVE  UNCHANGED Store!vars
      BY <2>1 DEF vars, Store!vars, Policy, AbstractStage
    <2> QED BY <2>1, AbstractStep
  <1> QED
    BY <1>1, <1>2, PunctualInvariant, PTL
    DEF PunctualSpec, RefinesPolicyStore, Store!Spec
=============================================================================
