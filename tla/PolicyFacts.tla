---------------------------- MODULE PolicyFacts -----------------------------
(***************************************************************************)
(* Lemmas about policies and requests, which the nft half of the helper    *)
(* and the window share.                                                   *)
(***************************************************************************)
EXTENDS Policy, TLAPS

\* The fields of a request have the types the actions rely on.
LEMMA RequestFields ==
    ASSUME NEW r \in Requests
    PROVE  /\ r.op \in {"block", "unblock", "set_admission", "bad_max"}
           /\ r.iface \in Ifaces
           /\ r.macs \subseteq Macs
           /\ r.max \in 0 .. MaxLimit
  BY PolicyAssumption
  DEF Requests, BlockRequests, AdmissionRequests, BadMaxRequests

\* The policy of an empty table is a policy.
LEMMA EmptyPolicyType == EmptyPolicy \in Policies
  BY PolicyAssumption DEF EmptyPolicy, Policies

\* Editing a policy for a request gives a policy again.
LEMMA EditType ==
    ASSUME NEW r \in Requests, NEW policy \in Policies
    PROVE  Edit(r, policy) \in Policies
  <1>1. Edit(r, policy).blocked \subseteq Macs
    BY RequestFields DEF Edit, Policies
  <1>2. Edit(r, policy).admitted \subseteq Macs
    BY RequestFields DEF Edit, Policies
  <1>3. /\ Edit(r, policy).max \in 0 .. MaxLimit
        /\ Edit(r, policy).iface \in Ifaces
    BY RequestFields DEF Edit, Policies
  <1> QED BY <1>1, <1>2, <1>3 DEF Edit, Policies
=============================================================================
