---------------------------- MODULE PolicyStore -----------------------------
(***************************************************************************)
(* What the helper promises its callers: one policy shared by all calls,   *)
(* and every call that succeeds edits it exactly once, at one moment       *)
(* between the call and its return.  A call that fails may have edited it  *)
(* too; a set-admission call may first move the maximum of a limit that is *)
(* in force, whether or not it goes on to succeed.                         *)
(***************************************************************************)
EXTENDS Policy

CONSTANT Helpers

VARIABLES
    policy,     \* the policy in force
    ask,        \* the request of each slot's current or last call
    stage,      \* "idle", "pending" or "applied"
    outcome     \* what the caller was told

vars == <<policy, ask, stage, outcome>>

Init ==
    /\ policy = EmptyPolicy
    /\ ask \in [Helpers -> BadMaxRequests]
    /\ stage = [h \in Helpers |-> "idle"]
    /\ outcome = [h \in Helpers |-> "none"]

Call(h, r) ==
    /\ stage[h] = "idle"
    /\ stage' = [stage EXCEPT ![h] = "pending"]
    /\ ask' = [ask EXCEPT ![h] = r]
    /\ outcome' = [outcome EXCEPT ![h] = "none"]
    /\ UNCHANGED policy

MoveMaximum(h) ==
    /\ stage[h] = "pending"
    /\ ask[h].op = "set_admission" /\ ask[h].max > 0
    /\ HasLimit(policy)
    /\ policy' = [policy EXCEPT !.max = ask[h].max]
    /\ UNCHANGED <<ask, stage, outcome>>

Apply(h) ==
    /\ stage[h] = "pending"
    /\ ask[h].op # "bad_max"
    /\ policy' = Edit(ask[h], policy)
    /\ stage' = [stage EXCEPT ![h] = "applied"]
    /\ UNCHANGED <<ask, outcome>>

Succeed(h) ==
    /\ stage[h] = "applied"
    /\ Honours(policy, ask[h])
    /\ stage' = [stage EXCEPT ![h] = "idle"]
    /\ outcome' = [outcome EXCEPT ![h] = "ok"]
    /\ UNCHANGED <<policy, ask>>

\* A failing call may take effect in the very step in which it fails: an nft
\* invocation can outlive its timeout and commit while it is being killed.
Fail(h) ==
    /\ stage[h] # "idle"
    /\ stage' = [stage EXCEPT ![h] = "idle"]
    /\ outcome' \in {[outcome EXCEPT ![h] = o] : o \in {"refused", "failed"}}
    /\ \/ UNCHANGED policy
       \/ stage[h] = "pending" /\ policy' = Edit(ask[h], policy)
       \/ /\ stage[h] = "pending" /\ HasLimit(policy)
          /\ ask[h].op = "set_admission" /\ ask[h].max > 0
          /\ policy' = [policy EXCEPT !.max = ask[h].max]
    /\ UNCHANGED ask

Next ==
    \E h \in Helpers :
       \/ \E r \in Requests : Call(h, r)
       \/ MoveMaximum(h)
       \/ Apply(h)
       \/ Succeed(h)
       \/ Fail(h)

Spec == Init /\ [][Next]_vars
=============================================================================
