------------------------------ MODULE MCClient ------------------------------
(* Instances of Client for TLC.                                            *)
EXTENDS Client

(* Registers 1, 3 and 4 of two components: a gap, so two reads, of which   *)
(* the second serves both components.                                      *)
SharedComponents == {"a", "b"}
SharedRegs == [a |-> {1, 3}, b |-> {4}]
SharedPlan == << [regs |-> {1}, components |-> {"a"}],
                 [regs |-> {3, 4}, components |-> {"a", "b"}] >>
SharedSelections == {{"a", "b"}, {"b"}, {}}
AcrossGroups == {<<1, 3>>}
SingleGroups == {<<1>>}

NoFaults == {}

Symmetry == Permutations(Tasks)
=============================================================================
