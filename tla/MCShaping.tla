------------------------------ MODULE MCShaping -----------------------------
(* Finite instances of Shaping. *)
EXTENDS Shaping, TLC

\* On the hotspot's usual interface download limits of every rate and upload
\* limits of one; after a move to another interface, upload limits only.
Usual == CHOOSE i \in Ifaces : TRUE

MovingHotspot ==
    {r \in Requests :
        /\ r.up \in {NoRate, Min(Rates)}
        /\ r.up # NoRate => r.down # Max(Rates)
        /\ r.iface # Usual => r.down = NoRate /\ r.up # NoRate}

\* Bound: classes that calls cut short have left without a filter.
Strays ==
    UNION {{d} \X (DOMAIN classes[d] \ (InfrastructureClasses \cup UsedClassids(d))) :
              d \in Devices}

OneStray == Cardinality(Strays) <= 1

Symmetry == Permutations(Clients)
=============================================================================
