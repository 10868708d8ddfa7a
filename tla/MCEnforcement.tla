--------------------------- MODULE MCEnforcement ----------------------------
(***************************************************************************)
(* The enforcement model on small instances.                               *)
(***************************************************************************)
EXTENDS Enforcement, TLC

\* Every request there is.
AnyRequest == Requests

\* A growing and a shrinking limit, its removal, and one client blocked and
\* let back in, the latter also after a move to another interface: the
\* requests that interfere with each other.
FewRequests ==
    LET someone == {CHOOSE m \in Macs : TRUE}
        home == CHOOSE i \in Ifaces : TRUE
    IN  {r \in Requests :
            \/ r.op = "unblock" /\ r.macs = someone
            \/ /\ r.iface = home
               /\ \/ r.op = "block" /\ r.macs = someone
                  \/ r.op = "set_admission" /\ r.max = 0 /\ r.macs = {}
                  \/ r.op = "set_admission" /\ r.max = 1 /\ r.macs = someone
                  \/ r.op = "set_admission" /\ r.max = 2 /\ r.macs = Macs}

\* Clients and helper slots are interchangeable in every safety property.
Symmetry == Permutations(Macs) \cup Permutations(Helpers)
=============================================================================
