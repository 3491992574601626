-------------------------------- MODULE MCStores --------------------------------
(* Times with 0, 3, 6 and 9 decimals, some of them within a microsecond. *)
EXTENDS Stores

At(s, m, u, n) == [sec |-> s, ms |-> m, us |-> u, ns |-> n]

Samples == {At(7, 0, 0, 0), At(7, 0, 0, 1), At(7, 0, 1, 0), At(7, 1, 0, 0),
            At(7, 1, 0, 999), At(8, 0, 0, 0)}
=============================================================================
