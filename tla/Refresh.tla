-------------------------------- MODULE Refresh --------------------------------
(***************************************************************************)
(* A refresh, from the plan to the components: the reads of the Planner    *)
(* against a controller that refuses and packs as the real one was         *)
(* measured to (testing/fake.py), and what update() and decode_readings()  *)
(* make of the answers.  What an address holds is its own number, so a     *)
(* reading that is not under its own name shows.                           *)
(*                                                                         *)
(* Nothing overlaps here and no connection is lost: that is the Client's.  *)
(***************************************************************************)
EXTENDS Planner

CONSTANT Maps  \* the sets of addresses that a controller may have

ASSUME MapsAssumption == \A map \in Maps : map \subseteq Nat /\ IsFiniteSet(map)

VARIABLES step,      \* "plan", then "read", then "over"
          mapped,    \* the controller: the addresses it has
          asked,     \* update(): how many slices have been asked for,
          readings,  \* what was read, by address,
          failed,    \* and the components that were not
          shown      \* the components' words, by component and address

readVars == <<mapped, asked, readings, failed, shown>>
refreshVars == <<vars, step, readVars>>

Keys == {r.key : r \in registers}
Empty == <<>>

RefreshInit ==
  /\ Init
  /\ step = "plan"
  /\ mapped = {} /\ asked = 0 /\ readings = Empty /\ failed = {} /\ shown = Empty

Plan == step = "plan" /\ Next /\ UNCHANGED <<step, readVars>>

(* What is declared was decided without asking this controller.            *)
Begin ==
  /\ step = "plan" /\ Planned
  /\ mapped' \in Maps
  /\ step' = "read"
  /\ UNCHANGED <<vars, asked, readings, failed, shown>>

-----------------------------------------------------------------------------
Count(slice) == slice.stop - slice.start
Wide == {r.address : r \in {s \in registers : s.width = 2}}
Behind(a) == {b \in mapped : a <= b}

(* It begins nowhere, or takes a 32-bit register in half, or runs off the  *)
(* end of the map.                                                         *)
Refuses(slice) ==
  \/ slice.start \notin mapped
  \/ Count(slice) = 1 /\ slice.start \in Wide
  \/ Cardinality(Behind(slice.start)) < Count(slice)

(* A hole is not padded: the answer has the next addresses there are.      *)
Packed(slice) == [a \in Span(slice) |->
  CHOOSE b \in Behind(slice.start) :
    Cardinality({c \in Behind(slice.start) : c < b}) = a - slice.start]

BlamedAll(slice) == Keys
Blamed(slice) == slice.components

(* update(): one read, and what becomes of its answer.                     *)
Read ==
  /\ step = "read" /\ asked < Len(slices)
  /\ asked' = asked + 1
  /\ LET slice == slices[asked + 1]
     IN IF Refuses(slice)
        THEN failed' = failed \cup Blamed(slice) /\ UNCHANGED readings
        ELSE readings' = [a \in DOMAIN readings \cup Span(slice) |->
                            IF a \in Span(slice) THEN Packed(slice)[a] ELSE readings[a]]
             /\ UNCHANGED failed
  /\ UNCHANGED <<vars, step, mapped, shown>>

(* A register that was not read whole is left alone.                       *)
Decoded(key) ==
  UNION {Words(r) : r \in {s \in registers : s.key = key /\ Words(s) \subseteq DOMAIN readings}}

Publish ==
  /\ step = "read" /\ asked = Len(slices)
  /\ step' = "over"
  /\ shown' = [key \in Keys \ failed |-> [a \in Decoded(key) |-> readings[a]]]
  /\ UNCHANGED <<vars, mapped, asked, readings, failed>>

RefreshNext == Plan \/ Begin \/ Read \/ Publish

RefreshSpec == RefreshInit /\ [][RefreshNext]_refreshVars
RefreshFairSpec == RefreshSpec /\ WF_refreshVars(RefreshNext)

-----------------------------------------------------------------------------
Over == step = "over"
Missing(slice) == (Span(slice) \cap Addresses) \ mapped

(* planner.py:73-79: nothing is shown under a wrong name, but behind an    *)
(* address of the same read that is declared and that the controller does  *)
(* not have.  So on a controller that has all that is declared every name  *)
(* is right, whatever else it has and whatever lies in the gaps.           *)
ShiftsOnlyBehindGap == Over => \A key \in DOMAIN shown : \A a \in DOMAIN shown[key] :
  shown[key][a] # a =>
    \E i \in DOMAIN slices : a \in Span(slices[i]) /\ \E d \in Missing(slices[i]) : d <= a

(* planner.py:83-85, client.py:138-144, base.py:201-212: a component shows *)
(* every one of its registers, or it has failed, and then by an address    *)
(* the controller does not have, in a read that has a register of its own; *)
(* never by half of a 32-bit register, nor by what only others declare.    *)
WholeOrMissing == Over => \A key \in Keys :
  LET own == {r \in registers : r.key = key}
  IN IF key \in DOMAIN shown THEN \A r \in own : Words(r) \subseteq DOMAIN shown[key]
     ELSE \E i \in DOMAIN slices :
            Missing(slices[i]) # {} /\ \E r \in own : Words(r) \subseteq Span(slices[i])

(* Why they hold.  A slice that was asked for is in the readings or on its *)
(* components; nobody fails but by a slice with an address missing; what   *)
(* was read is its own number or stands behind such an address; and what   *)
(* is shown is what was read.                                              *)
AskedFor == {slices[i] : i \in 1..asked}
StepInv == /\ step \in {"plan", "read", "over"}
           /\ asked \in 0..Len(slices)
           /\ step = "plan" => asked = 0
           /\ step # "plan" => Planned /\ mapped \in Maps
           /\ Over => asked = Len(slices)
AnswersInv == \A slice \in AskedFor :
  Span(slice) \subseteq DOMAIN readings \/ slice.components \subseteq failed
FailedInv == \A key \in failed :
  \E slice \in AskedFor : key \in slice.components /\ Missing(slice) # {}
ReadingsInv == \A a \in DOMAIN readings : \E slice \in AskedFor :
  a \in Span(slice) /\ (readings[a] = a \/ \E d \in Missing(slice) : d <= a)
ShownInv == Over => shown = [key \in Keys \ failed |-> [a \in Decoded(key) |-> readings[a]]]
RefreshInv == IInv /\ StepInv /\ AnswersInv /\ FailedInv /\ ReadingsInv /\ ShownInv

(* client.py:147-174: a step of the refresh is a turn of the planner's     *)
(* loops, of which there are ever fewer, or a slice less to ask for, or    *)
(* the step from the one to the other, or the last.                        *)
RefreshMovesOn == [][
  \/ step = "plan" /\ step' = "plan" /\ Turns' \in Nat /\ Turns' < Turns
  \/ step = "plan" /\ step' = "read"
  \/ /\ step = "read" /\ step' = "read" /\ slices' = slices
     /\ Len(slices) - asked' \in Nat /\ asked' = asked + 1
  \/ step = "read" /\ step' = "over"]_refreshVars

(* The loops of the planner and of the refresh end.                        *)
RefreshEnds == <>Over
=============================================================================
