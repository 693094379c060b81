------------------------------- MODULE MCRefresh -------------------------------
(* Every way to lay registers of two components out on a few addresses,    *)
(* and every set of those addresses, and one behind, that there may be.    *)
EXTENDS Refresh

CONSTANT LastAddress

Owners == {{"a"}, {"b"}, {"a", "b"}}
Cells == {[width |-> 0, owners |-> {}]} \cup [width : {1, 2}, owners : Owners]

(* What starts at each address: nothing, or a register of its owners.  A   *)
(* wide one needs the address after it, which then starts nothing.  The    *)
(* two are told apart by their names only, so "a" is the first of them.    *)
Shapes == {f \in [1..LastAddress -> Cells] :
             \A x \in 1..LastAddress :
               /\ f[x].width = 2 => x < LastAddress /\ f[x + 1].width = 0
               /\ f[x].owners = {"b"} => \E y \in 1 .. x - 1 : f[y].owners = {"a"}}

AllLayouts ==
  {UNION {{[key |-> k, address |-> a, width |-> f[a].width] : k \in f[a].owners}
            : a \in 1..LastAddress} : f \in Shapes}

AllMaps == SUBSET (1 .. LastAddress + 1)
=============================================================================
