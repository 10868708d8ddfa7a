------------------------------- MODULE MCWindow -----------------------------
(* Finite instances of Window: what an earlier window has left in force. *)
EXTENDS Window, TLC

Nothing == {State(EmptyPolicy, NoLimits)}

\* Any maximum, also one that is exceeded.
AnyLimit ==
    {e \in States : LET p == e.policy IN
        /\ p.blocked = {}
        /\ p.iface = NoIface <=> p = EmptyPolicy
        /\ p.max = 0 => p.admitted = {}}

AnyBlocked ==
    {e \in States : LET p == e.policy IN
        p.iface # NoIface /\ p.max = 0 /\ p.admitted = {}}
=============================================================================
