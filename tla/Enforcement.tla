---------------------------- MODULE Enforcement -----------------------------
(***************************************************************************)
(* hot-stream-helper processes editing the nft table.                      *)
(*                                                                         *)
(* Every mutating call is one helper process: it takes the flock, reads    *)
(* the table, computes the whole wanted policy, writes it with up to three *)
(* separate nft invocations, reads the table back, reads the status it     *)
(* prints, and exits, which releases the lock.  A slot of Helpers runs one *)
(* call after the other; slots run concurrently, as the commands of the    *)
(* window do.                                                              *)
(*                                                                         *)
(* The window gives up on a helper after five seconds and kills it.  The   *)
(* kernel releases the lock at that moment, while the nft process the      *)
(* helper had started lives on (`orphaned`) and may still commit.          *)
(***************************************************************************)
EXTENDS NftTable

CONSTANTS
    Helpers,    \* slots for concurrent helper calls
    Asked,      \* the requests callers make
    Free        \* the lock has no holder

ASSUME EnforcementAssumption ==
    /\ Asked \subseteq Requests
    /\ Free \notin Helpers

VARIABLES
    table,      \* the kernel's table
    lock,       \* holder of the flock, or Free
    pc,         \* where each helper is
    req,        \* the request of its current or last call
    desired,    \* `Desired`: the policy it is writing
    outcome,    \* what the caller was told about the last call
    orphaned    \* slots whose helper is dead while its nft still runs

vars == <<table, lock, pc, req, desired, outcome, orphaned>>

\* Stages in which an nft process that writes is running.
Writing == {"add_table", "add_set", "batch"}

\* Stages of a helper that holds the lock.
Critical == {"read"} \cup Writing \cup {"read_back", "report"}

Stages == {"idle", "lock"} \cup Critical

Outcomes == {"none", "ok", "refused", "failed", "inconsistent", "timeout"}

TypeOK ==
    /\ table \in Tables
    /\ lock \in Helpers \cup {Free}
    /\ pc \in [Helpers -> Stages]
    /\ req \in [Helpers -> Requests]
    /\ desired \in [Helpers -> Policies]
    /\ outcome \in [Helpers -> Outcomes]
    /\ orphaned \subseteq Helpers

Live(h) == h \notin orphaned

Goto(h, stage) == pc' = [pc EXCEPT ![h] = stage]

\* The process exits: the caller learns the outcome, the lock is released.
Exit(h, result) ==
    /\ Goto(h, "idle")
    /\ outcome' = [outcome EXCEPT ![h] = result]
    /\ desired' = [desired EXCEPT ![h] = EmptyPolicy]
    /\ lock' = IF lock = h THEN Free ELSE lock

Init ==
    /\ table = NoTable
    /\ lock = Free
    /\ pc = [h \in Helpers |-> "idle"]
    /\ req \in [Helpers -> BadMaxRequests]
    /\ desired = [h \in Helpers |-> EmptyPolicy]
    /\ outcome = [h \in Helpers |-> "none"]
    /\ orphaned = {}

-----------------------------------------------------------------------------
(* The helper.                                                             *)

\* The window runs the helper, which opens the lock file and waits.
Start(h, r) ==
    /\ pc[h] = "idle"
    /\ Goto(h, "lock")
    /\ req' = [req EXCEPT ![h] = r]
    /\ outcome' = [outcome EXCEPT ![h] = "none"]
    /\ UNCHANGED <<table, lock, desired, orphaned>>

\* Defect: the guard is bound to `_`, which drops the lock at once.
AcquireDropped(h) ==
    /\ pc[h] = "lock"
    /\ lock = Free
    /\ Goto(h, "read")
    /\ UNCHANGED <<table, lock, req, desired, outcome, orphaned>>

Acquire(h) ==
    /\ pc[h] = "lock"
    /\ lock = Free
    /\ lock' = h
    /\ Goto(h, "read")
    /\ UNCHANGED <<table, req, desired, outcome, orphaned>>

\* parse_max runs after the lock is taken and exits the process.
Usage(h) ==
    /\ pc[h] = "read"
    /\ req[h].op = "bad_max"
    /\ Exit(h, "failed")
    /\ UNCHANGED <<table, req, orphaned>>

\* The wanted policy is the request applied to the policy just read.
Wanted(h) == Edit(req[h], ReadPolicy(table))

\* Defect: no resize ahead of the batch.
ReadThenBatch(h) ==
    /\ pc[h] = "read"
    /\ req[h].op # "bad_max"
    /\ Buildable(Wanted(h))
    /\ desired' = [desired EXCEPT ![h] = Wanted(h)]
    /\ Goto(h, "batch")
    /\ UNCHANGED <<table, lock, req, outcome, orphaned>>

\* Defect: the resize starts before the request is validated.
ReadUnchecked(h) ==
    /\ pc[h] = "read"
    /\ req[h].op # "bad_max"
    /\ desired' = [desired EXCEPT ![h] = Wanted(h)]
    /\ Goto(h, IF HasLimit(Wanted(h)) THEN "add_table" ELSE "batch")
    /\ UNCHANGED <<table, lock, req, outcome, orphaned>>

\* read_desired, then build_apply_script before any nft call that writes.
Read(h) ==
    /\ pc[h] = "read"
    /\ req[h].op # "bad_max"
    /\ Buildable(Wanted(h))
    /\ desired' = [desired EXCEPT ![h] = Wanted(h)]
    /\ Goto(h, IF HasLimit(Wanted(h)) THEN "add_table" ELSE "batch")
    /\ UNCHANGED <<table, lock, req, outcome, orphaned>>

\* Defect: a request that cannot be built is skipped and success reported.
RefuseSilently(h) ==
    /\ pc[h] = "read"
    /\ req[h].op # "bad_max"
    /\ ~Buildable(Wanted(h))
    /\ Exit(h, "ok")
    /\ UNCHANGED <<table, req, orphaned>>

Refuse(h) ==
    /\ pc[h] = "read"
    /\ req[h].op # "bad_max"
    /\ ~Buildable(Wanted(h))
    /\ Exit(h, "refused")
    /\ UNCHANGED <<table, req, orphaned>>

CreateTable(h) ==
    /\ pc[h] = "add_table" /\ Live(h)
    /\ table' = AddTable(table)
    /\ Goto(h, "add_set")
    /\ UNCHANGED <<lock, req, desired, outcome, orphaned>>

\* The resize is an nft call of its own, before the batch.
ResizeSet(h) ==
    /\ pc[h] = "add_set" /\ Live(h)
    /\ table.present
    /\ table' = Resize(table, desired[h].max)
    /\ Goto(h, "batch")
    /\ UNCHANGED <<lock, req, desired, outcome, orphaned>>

\* Defect: the lock covers the write but not the read-back.
WriteReleasing(h) ==
    /\ pc[h] = "batch" /\ Live(h)
    /\ BatchFits(table, desired[h])
    /\ table' = RunBatch(table, desired[h])
    /\ Goto(h, "read_back")
    /\ lock' = Free
    /\ UNCHANGED <<req, desired, outcome, orphaned>>

Write(h) ==
    /\ pc[h] = "batch" /\ Live(h)
    /\ BatchFits(table, desired[h])
    /\ table' = RunBatch(table, desired[h])
    /\ Goto(h, "read_back")
    /\ UNCHANGED <<lock, req, desired, outcome, orphaned>>

\* The kernel rejects the statement: nft exits non-zero.
KernelRejects(h) ==
    /\ Live(h)
    /\ \/ pc[h] = "add_set" /\ ~table.present
       \/ pc[h] = "batch" /\ ~BatchFits(table, desired[h])
    /\ Exit(h, "failed")
    /\ UNCHANGED <<table, req, orphaned>>

ReadBack(h) ==
    /\ pc[h] = "read_back"
    /\ IF ReadPolicy(table) = desired[h]
       THEN /\ Goto(h, "report")
            /\ UNCHANGED <<lock, desired, outcome>>
       ELSE Exit(h, "inconsistent")
    /\ UNCHANGED <<table, req, orphaned>>

\* read_status, then the process prints what it read and exits.
Report(h) ==
    /\ pc[h] = "report"
    /\ Exit(h, "ok")
    /\ UNCHANGED <<table, req, orphaned>>

-----------------------------------------------------------------------------
(* Failures.                                                               *)

\* The nft invocation that the stage of h has running, carried through; a
\* statement the kernel rejects leaves the table alone.
Committed(h) ==
    CASE pc[h] = "add_table" -> AddTable(table)
      [] pc[h] = "add_set" /\ table.present -> Resize(table, desired[h].max)
      [] pc[h] = "batch" /\ BatchFits(table, desired[h])
           -> RunBatch(table, desired[h])
      [] OTHER -> table

\* An nft (or, in "report", tc) invocation cannot start, is refused, or
\* outlives its own timeout and is killed by the helper, which waits for it
\* to be gone: a write was either not made or just made.
CommandFails(h) ==
    /\ pc[h] \in Critical /\ Live(h)
    /\ pc[h] = "read" => req[h].op # "bad_max"
    /\ table' \in {table, Committed(h)}
    /\ Exit(h, "failed")
    /\ UNCHANGED <<req, orphaned>>

\* Defect: the deadline does not cover the wait for the lock.
KillOnceLocked(h) ==
    /\ pc[h] \in Critical /\ Live(h)
    /\ outcome' = [outcome EXCEPT ![h] = "timeout"]
    /\ lock' = IF lock = h THEN Free ELSE lock
    /\ IF pc[h] \in Writing
       THEN /\ orphaned' = orphaned \cup {h}
            /\ UNCHANGED <<pc, desired>>
       ELSE /\ Goto(h, "idle")
            /\ desired' = [desired EXCEPT ![h] = EmptyPolicy]
            /\ UNCHANGED orphaned
    /\ UNCHANGED <<table, req>>

\* Defect: nft inherits the lock's descriptor and keeps it.
KillKeepsLock(h) ==
    /\ pc[h] # "idle" /\ Live(h)
    /\ outcome' = [outcome EXCEPT ![h] = "timeout"]
    /\ IF pc[h] \in Writing
       THEN /\ orphaned' = orphaned \cup {h}
            /\ UNCHANGED <<pc, lock, desired>>
       ELSE /\ Goto(h, "idle")
            /\ desired' = [desired EXCEPT ![h] = EmptyPolicy]
            /\ lock' = IF lock = h THEN Free ELSE lock
            /\ UNCHANGED orphaned
    /\ UNCHANGED <<table, req>>

\* The window's five seconds are over: it kills the helper and reports a
\* timeout.  An nft process that writes survives the helper that started it.
Kill(h) ==
    /\ pc[h] # "idle" /\ Live(h)
    /\ outcome' = [outcome EXCEPT ![h] = "timeout"]
    /\ lock' = IF lock = h THEN Free ELSE lock
    /\ IF pc[h] \in Writing
       THEN /\ orphaned' = orphaned \cup {h}
            /\ UNCHANGED <<pc, desired>>
       ELSE /\ Goto(h, "idle")
            /\ desired' = [desired EXCEPT ![h] = EmptyPolicy]
            /\ UNCHANGED orphaned
    /\ UNCHANGED <<table, req>>

\* The surviving nft process commits, or never got that far.
OrphanEnds(h) ==
    /\ h \in orphaned
    /\ table' \in {table, Committed(h)}
    /\ orphaned' = orphaned \ {h}
    /\ Goto(h, "idle")
    /\ desired' = [desired EXCEPT ![h] = EmptyPolicy]
    /\ UNCHANGED <<lock, req, outcome>>

-----------------------------------------------------------------------------
(* Specifications.                                                         *)

HelperStep(h) ==
    \/ \E r \in Asked : Start(h, r)
    \/ Acquire(h)
    \/ Usage(h)
    \/ Read(h)
    \/ Refuse(h)
    \/ CreateTable(h)
    \/ ResizeSet(h)
    \/ Write(h)
    \/ KernelRejects(h)
    \/ ReadBack(h)
    \/ Report(h)
    \/ CommandFails(h)

\* Helpers that always answer within the window's five seconds.
PunctualNext == \E h \in Helpers : HelperStep(h)

PunctualSpec == Init /\ [][PunctualNext]_vars

Next == \E h \in Helpers : HelperStep(h) \/ Kill(h) \/ OrphanEnds(h)

Spec == Init /\ [][Next]_vars

\* The only progress assumed: the window's wait loop reaches its deadline.
\* Nothing is assumed of flock, of nft or of the helper.
FairSpec == Spec /\ \A h \in Helpers : WF_vars(Kill(h))

-----------------------------------------------------------------------------
(* Properties.                                                             *)

\* The policy as any reader of the kernel sees it.
Policy == ReadPolicy(table)

\* At most one helper process is inside its read-modify-write cycle: a live
\* helper past `lock::acquire` is the holder of the flock.
MutualExclusion ==
    \A h \in Helpers : pc[h] \in Critical /\ Live(h) => lock = h

\* The table is never half written: a limit is enforced only with its set in
\* place, and the block rule exists and names the same interface whenever the
\* admission rule does.  An unscoped or differently scoped admission rule
\* would drop traffic of other interfaces.
RulesCoherent ==
    table.admissionRule # NoIface =>
        /\ table.present
        /\ table.size > 0
        /\ table.blockRule = table.admissionRule

\* Whatever reaches the kernel was validated first: an nft process that
\* writes, orphaned or not, carries a policy whose limit admits its clients,
\* so a request that is going to be rejected never resizes the admitted set.
OnlyValidPoliciesWritten ==
    \A h \in Helpers : pc[h] \in Writing => Buildable(desired[h])

\* No lost update: the policy in the kernel changes only by applying one
\* helper's request to the policy of that very moment, never to an older
\* snapshot; apart from that only the resize ahead of a set-admission batch
\* is visible, and it moves the maximum alone.
SerialEdit ==
    Policy' # Policy =>
        \E h \in Helpers :
           \/ pc[h] = "batch" /\ Policy' = Edit(req[h], Policy)
           \/ /\ pc[h] = "add_set"
              /\ req[h].op = "set_admission"
              /\ Policy' = [Policy EXCEPT !.max = req[h].max]

SerialEdits == [][SerialEdit]_vars

\* The read-back of `apply` never finds anything but what it wrote.
NeverInconsistent == \A h \in Helpers : outcome[h] # "inconsistent"

\* Thanks to the resize ahead of it, the batch is never rejected for the size
\* of the admitted set, nor the resize for want of a table.
NeverRejectedByKernel ==
    \A h \in Helpers : Live(h) =>
        /\ pc[h] = "add_set" => table.present
        /\ pc[h] = "batch" => BatchFits(table, desired[h])

\* When a call reports success, the kernel honours its request at that
\* moment, whatever other calls did meanwhile.
RealSuccess ==
    \A h \in Helpers :
        outcome'[h] = "ok" /\ outcome[h] # "ok" => Honours(Policy', req[h])

SuccessIsReal == [][RealSuccess]_vars

\* `enforce::lock` turns concurrent calls into a queue, so what one call was
\* told had succeeded is undone only by a call that asks for something else.
AcknowledgedStays ==
    [][ \A h \in Helpers :
          /\ outcome[h] = "ok" /\ outcome'[h] = "ok"
          /\ Honours(Policy, req[h])
          /\ ~Honours(Policy', req[h])
          => \E g \in Helpers \ {h} :
                ~Honours(Edit(req[g], Policy), req[h]) ]_vars

\* The two policies are independent: only a set-admission request can be
\* refused for its number of clients, never a block or an unblock.
BlockNeverRefused ==
    \A h \in Helpers :
        outcome[h] = "refused" => req[h].op = "set_admission"

\* Every call the window makes comes back to it, and the flock is always let
\* go again, even if nft or another helper hangs for ever.
EveryCallReturns ==
    \A h \in Helpers :
        (pc[h] # "idle" /\ Live(h)) ~> (outcome[h] # "none")

LockIsReleased == \A h \in Helpers : (lock = h) ~> (lock # h)

-----------------------------------------------------------------------------
(* Refinement.                                                             *)

\* How far the abstract call of a slot has come.
AbstractStage ==
    [h \in Helpers |->
        CASE pc[h] = "idle"                    -> "idle"
          [] pc[h] \in {"read_back", "report"} -> "applied"
          [] OTHER                             -> "pending"]

Store == INSTANCE PolicyStore
           WITH policy <- Policy, ask <- req, stage <- AbstractStage

\* Helpers that answer in time implement the shared policy store: each call
\* that succeeds takes effect exactly once, at one moment between its start
\* and its return.
RefinesPolicyStore == Store!Spec
=============================================================================
