------------------------------- MODULE Policy -------------------------------
(***************************************************************************)
(* What the helper enforces and what a mutating call asks for: the data    *)
(* shared by the nft enforcement model and by its abstract specification.  *)
(*                                                                         *)
(* A policy is what `enforce::kernel` calls `Desired`: the interface both  *)
(* rules are scoped to, the blocked clients, and the admission limit with  *)
(* the clients admitted under it.  `admission: None` is max = 0 with no    *)
(* admitted client; the code rejects a configured maximum of 0, so the     *)
(* encoding is unambiguous.                                                *)
(***************************************************************************)
EXTENDS Naturals, FiniteSets

CONSTANTS
    Macs,       \* client addresses, already in normal form
    Ifaces,     \* interfaces a call may name
    NoIface,    \* the empty interface string of an unconfigured table
    MaxLimit    \* largest maximum a call may ask for

ASSUME PolicyAssumption ==
    /\ NoIface \notin Ifaces
    /\ MaxLimit \in Nat

Policies ==
    [iface    : Ifaces \cup {NoIface},
     blocked  : SUBSET Macs,
     max      : 0 .. MaxLimit,
     admitted : SUBSET Macs]

\* A missing table reads as "nothing configured".
EmptyPolicy ==
    [iface |-> NoIface, blocked |-> {}, max |-> 0, admitted |-> {}]

HasLimit(policy) == policy.max > 0

-----------------------------------------------------------------------------
(***************************************************************************)
(* The mutating calls of the nft half of the helper, as argv decides them. *)
(* "bad_max" is a set-admission whose maximum is neither "none" nor a      *)
(* positive number.  The arguments of set-admission come from the command  *)
(* line, so more clients than the maximum is a possible request.           *)
(***************************************************************************)
BlockRequests ==
    [op : {"block", "unblock"}, iface : Ifaces, macs : {{m} : m \in Macs},
     max : {0}]

AdmissionRequests ==
    [op : {"set_admission"}, iface : Ifaces, macs : SUBSET Macs,
     max : 0 .. MaxLimit]

BadMaxRequests ==
    [op : {"bad_max"}, iface : Ifaces, macs : {{}}, max : {0}]

Requests == BlockRequests \cup AdmissionRequests \cup BadMaxRequests

\* The policy a request turns `policy` into: block and unblock edit the block
\* list only, set_admission replaces the limit only, all re-scope the rules.
Edit(r, policy) ==
    [iface    |-> r.iface,
     blocked  |-> CASE r.op = "block"   -> policy.blocked \cup r.macs
                    [] r.op = "unblock" -> policy.blocked \ r.macs
                    [] OTHER            -> policy.blocked,
     max      |-> IF r.op = "set_admission" THEN r.max ELSE policy.max,
     admitted |-> CASE r.op # "set_admission" -> policy.admitted
                    [] r.max = 0              -> {}
                    [] OTHER                  -> r.macs]

\* What the caller of `r` was promised once the call reports success.
Honours(policy, r) ==
    /\ policy.iface = r.iface
    /\ r.op = "block"         => r.macs \subseteq policy.blocked
    /\ r.op = "unblock"       => r.macs \cap policy.blocked = {}
    /\ r.op = "set_admission" =>
           /\ policy.max = r.max
           /\ policy.admitted = IF r.max = 0 THEN {} ELSE r.macs
=============================================================================
