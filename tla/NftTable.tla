------------------------------ MODULE NftTable ------------------------------
(***************************************************************************)
(* The `inet hotstream` table and the four nft invocations the helper      *)
(* makes on it.  Each invocation is one netlink transaction: it happens    *)
(* wholly or not at all.  nft itself is external; its effects are modelled *)
(* from the statements `enforce::kernel` gives it and from the behaviour   *)
(* that module's documentation records.                                    *)
(***************************************************************************)
EXTENDS Policy

\* `blockRule` and `admissionRule` are the interface the tagged rule matches,
\* NoIface when the rule is absent.  `size` is the size of the admitted set,
\* 0 when that set has never been created.
Tables ==
    [present       : BOOLEAN,
     blockRule     : Ifaces \cup {NoIface},
     admissionRule : Ifaces \cup {NoIface},
     blocked       : SUBSET Macs,
     size          : 0 .. MaxLimit,
     admitted      : SUBSET Macs]

NoTable ==
    [present |-> FALSE, blockRule |-> NoIface, admissionRule |-> NoIface,
     blocked |-> {}, size |-> 0, admitted |-> {}]

-----------------------------------------------------------------------------
(* Reading: `nft -j list table`, one snapshot, parsed.                     *)

\* The admission RULE, not the admitted set, says whether a limit is active.
LimitActive(t) == t.admissionRule # NoIface /\ t.size > 0

ReadPolicy(t) ==
    [iface    |-> IF t.blockRule # NoIface THEN t.blockRule
                                           ELSE t.admissionRule,
     blocked  |-> t.blocked,
     max      |-> IF LimitActive(t) THEN t.size ELSE 0,
     admitted |-> IF LimitActive(t) THEN t.admitted ELSE {}]

-----------------------------------------------------------------------------
(* Writing.                                                                *)

\* build_apply_script refuses more admitted clients than the maximum.
Buildable(policy) ==
    HasLimit(policy) => Cardinality(policy.admitted) <= policy.max

AddTable(t) == [t EXCEPT !.present = TRUE]

\* Defect: the size is one more than the maximum.
ResizeOffByOne(t, max) == [t EXCEPT !.size = max + 1]

\* `add set` creates the admitted set or resizes it in place; it does not
\* look at how many members the set has.
Resize(t, max) == [t EXCEPT !.size = max]

\* The batch fills the admitted set against the size it had before the batch.
BatchFits(t, policy) ==
    HasLimit(policy) /\ t.size > 0 => Cardinality(policy.admitted) <= t.size

\* Defect: no `flush chain`, an existing block rule keeps its interface.
RunBatchUnflushed(t, policy) ==
    [present       |-> TRUE,
     blockRule     |-> IF t.blockRule # NoIface THEN t.blockRule
                                                ELSE policy.iface,
     admissionRule |-> IF HasLimit(policy) THEN policy.iface ELSE NoIface,
     blocked       |-> policy.blocked,
     size          |-> IF HasLimit(policy) THEN policy.max ELSE t.size,
     admitted      |-> IF HasLimit(policy) THEN policy.admitted
                                           ELSE t.admitted]

\* The `nft -f -` batch: chain flushed and each wanted rule added once, block
\* set refilled, admitted set refilled only when there is a limit.
RunBatch(t, policy) ==
    [present       |-> TRUE,
     blockRule     |-> policy.iface,
     admissionRule |-> IF HasLimit(policy) THEN policy.iface ELSE NoIface,
     blocked       |-> policy.blocked,
     size          |-> IF HasLimit(policy) THEN policy.max ELSE t.size,
     admitted      |-> IF HasLimit(policy) THEN policy.admitted
                                           ELSE t.admitted]
=============================================================================
