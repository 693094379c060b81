---------------------------- MODULE LineRefinement ----------------------------
(***************************************************************************)
(* The transport as an implementation of the single line: who has the line *)
(* is read off the suspension points, and the rest of the lock is hidden.  *)
(***************************************************************************)
EXTENDS Transport, FiniteSets

CONSTANT Nobody

ASSUME NobodyAssumption == Nobody \notin Tasks

(* The refinement mapping: the user of the line is the task on the wire.   *)
OnWire == {t \in Tasks : at[t] = "wire"}
User == IF OnWire = {} THEN Nobody ELSE CHOOSE t \in OnWire : TRUE
Left == IF OnWire = {} THEN 0 ELSE call[User].n
Links == Cardinality(open)
Line == INSTANCE SingleLine WITH user <- User, left <- Left, links <- Links

(* The transport implements the single line: one caller at a time, each    *)
(* with its requests one by one and nothing of anyone else's until it is   *)
(* done or has failed, over at most one connection (transport.py:87-111).  *)
OneLine == Line!LineSpec
=============================================================================
