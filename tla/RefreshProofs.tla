----------------------------- MODULE RefreshProofs -----------------------------
(***************************************************************************)
(* TLAPS proofs about Refresh, for every legal layout, every limit of at   *)
(* least two words a read and every finite set of addresses a controller   *)
(* may have: what a controller that skips what it does not have can do to  *)
(* the values that are shown.                                              *)
(***************************************************************************)
EXTENDS Refresh, PlannerProofs

(* The addresses of an interval are counted.                               *)
LEMMA IntervalSize ==
  ASSUME NEW a \in Int, NEW b \in Int, a <= b
  PROVE  Cardinality(a .. b) = b - a + 1
<1>1. Cardinality(a .. b) = IF a > b THEN 0 ELSE b - a + 1
  BY FS_Interval
<1> QED
  BY <1>1

-----------------------------------------------------------------------------
(* The controller.  The addresses it has from one on are finitely many.    *)
LEMMA BehindFinite ==
  ASSUME mapped \in Maps, NEW a \in Nat
  PROVE  /\ Behind(a) \subseteq Nat /\ IsFiniteSet(Behind(a))
         /\ Cardinality(Behind(a)) \in Nat
<1>1. mapped \subseteq Nat /\ IsFiniteSet(mapped)
  BY MapsAssumption
<1>2. Behind(a) \subseteq mapped
  BY DEF Behind
<1>3. IsFiniteSet(Behind(a))
  BY <1>1, <1>2, FS_Subset
<1> QED
  BY <1>1, <1>2, <1>3, FS_CardinalityType

(* Which of them an answer has in its n-th place is the one with n before  *)
(* it: there is no other.                                                  *)
Before(a, b) == {c \in Behind(a) : c < b}

LEMMA PlaceIsOne ==
  ASSUME mapped \in Maps, NEW a \in Nat, NEW b \in Behind(a), NEW c \in Behind(a),
         Cardinality(Before(a, b)) = Cardinality(Before(a, c))
  PROVE  b = c
<1>1. ASSUME NEW x \in Behind(a), NEW y \in Behind(a), x < y
      PROVE  Cardinality(Before(a, x)) < Cardinality(Before(a, y))
  <2>1. x \in Nat /\ y \in Nat /\ Behind(a) \subseteq Nat
    BY BehindFinite
  <2>2. IsFiniteSet(Before(a, y))
    <3>1. Before(a, y) \subseteq Behind(a)
      BY DEF Before
    <3> QED
      BY <3>1, BehindFinite, FS_Subset
  <2>3. Before(a, x) \subseteq Before(a, y)
    BY <1>1, <2>1 DEF Before
  <2>4. x \in Before(a, y) /\ x \notin Before(a, x)
    BY <1>1, <2>1 DEF Before
  <2>5. /\ Cardinality(Before(a, x)) <= Cardinality(Before(a, y))
        /\ Cardinality(Before(a, x)) = Cardinality(Before(a, y)) => Before(a, x) = Before(a, y)
    BY <2>2, <2>3, FS_Subset
  <2>6. IsFiniteSet(Before(a, x))
    BY <2>2, <2>3, FS_Subset
  <2>7. Cardinality(Before(a, x)) \in Nat /\ Cardinality(Before(a, y)) \in Nat
    BY <2>2, <2>6, FS_CardinalityType
  <2> QED
    BY <2>4, <2>5, <2>7
<1>2. b \in Nat /\ c \in Nat
  BY BehindFinite
<1>3. Cardinality(Before(a, b)) \in Nat
  <2>1. Before(a, b) \subseteq Behind(a)
    BY DEF Before
  <2> QED
    BY <2>1, BehindFinite, FS_Subset, FS_CardinalityType
<1> QED
  BY <1>1, <1>2, <1>3

(* As long as nothing is missing, the answer has each address in its own   *)
(* place.                                                                  *)
LEMMA PackedRight ==
  ASSUME mapped \in Maps, NEW slice, slice.start \in Nat, slice.stop \in Nat,
         NEW a \in Span(slice), slice.start .. a \subseteq mapped
  PROVE  Packed(slice)[a] = a
<1> DEFINE s == slice.start
<1>1. s \in Nat /\ a \in Nat /\ s <= a
  BY DEF Span
<1>2. s .. a \subseteq mapped /\ mapped \subseteq Nat
  BY MapsAssumption
<1>3. Packed(slice)[a] =
        CHOOSE b \in Behind(s) : Cardinality({c \in Behind(s) : c < b}) = a - s
  BY Zenon DEF Packed
<1> HIDE DEF s
<1>4. a \in Behind(s) /\ \A c \in s .. a - 1 : c \in Behind(s)
  BY <1>1, <1>2 DEF Behind
<1>5. Cardinality(Before(s, a)) = a - s
  <2>1. \A c \in Behind(s) : s <= c /\ c \in Nat
    BY <1>2 DEF Behind
  <2>2. ASSUME NEW c \in Before(s, a) PROVE c \in s .. a - 1
    BY <1>1, <2>1 DEF Before
  <2>3. ASSUME NEW c \in s .. a - 1 PROVE c \in Before(s, a)
    BY <1>1, <1>4 DEF Before
  <2>4. Before(s, a) = s .. a - 1
    BY <2>2, <2>3
  <2>5. Cardinality(s .. a - 1) = a - s
    <3> DEFINE k == a - 1
    <3>1. k \in Int /\ (s > k => a - s = 0) /\ k - s + 1 = a - s
      BY <1>1
    <3> HIDE DEF k
    <3>2. Cardinality(s .. k) = IF s > k THEN 0 ELSE k - s + 1
      BY <1>1, <3>1, FS_Interval
    <3>3. Cardinality(s .. k) = a - s
      BY <3>1, <3>2
    <3> QED
      BY <3>3 DEF k
  <2> QED
    BY <2>4, <2>5
<1>6. ASSUME NEW b \in Behind(s)
      PROVE  Cardinality({c \in Behind(s) : c < b}) = a - s <=> b = a
  <2>1. /\ {c \in Behind(s) : c < b} = Before(s, b)
        /\ {c \in Behind(s) : c < a} = Before(s, a)
    BY DEF Before
  <2> QED
    BY <1>1, <1>4, <1>5, <2>1, PlaceIsOne
<1>7. (CHOOSE b \in Behind(s) : Cardinality({c \in Behind(s) : c < b}) = a - s) = a
  BY <1>4, <1>6
<1> QED
  BY <1>3, <1>7

-----------------------------------------------------------------------------
(* The plan.                                                               *)
LEMMA SliceFacts ==
  ASSUME IInv, Planned, NEW i \in DOMAIN slices
  PROVE  /\ slices[i].start \in Nat /\ slices[i].stop \in Nat
         /\ slices[i].start \in Span(slices[i])
         /\ Span(slices[i]) \subseteq Addresses
         /\ slices[i].components = {r.key : r \in {s \in registers : Words(s) \cap Span(slices[i]) # {}}}
         /\ slices[i].components \subseteq Keys
<1>1. slices[i].start \in Nat /\ slices[i].stop \in Nat
  BY SlicesAreReads
<1>2. slices[i].start < slices[i].stop /\ slices[i].components = Serves(slices[i])
  BY AllInSlices DEF SlicesInv, Proper
<1>3. Span(slices[i]) \subseteq Addresses
  BY AllInSlices DEF Spans
<1> QED
  BY <1>1, <1>2, <1>3 DEF Serves, Span, Keys

(* A component that a slice serves has a register whole in it.             *)
LEMMA ServedWhole ==
  ASSUME IInv, Planned, NEW i \in DOMAIN slices, NEW key \in slices[i].components
  PROVE  \E r \in registers : r.key = key /\ Words(r) \subseteq Span(slices[i])
<1>1. PICK r \in registers : r.key = key /\ Words(r) \cap Span(slices[i]) # {}
  BY SliceFacts
<1>2. Words(r) \subseteq Span(slices[i])
  BY <1>1, WholeIfTouched
<1> QED
  BY <1>1, <1>2

(* A controller refuses no read of addresses that it has: the plan starts  *)
(* where something is declared, and takes no 32-bit register in half.      *)
LEMMA RefusedIsMissing ==
  ASSUME IInv, Planned, mapped \in Maps, NEW i \in DOMAIN slices, Refuses(slices[i])
  PROVE  Missing(slices[i]) # {}
<1> DEFINE slice == slices[i]
           s == slice.start
<1>1. /\ s \in Nat /\ slice.stop \in Nat /\ s \in Span(slice)
      /\ Span(slice) \subseteq Addresses
  BY SliceFacts
<1> SUFFICES ASSUME Span(slice) \subseteq mapped PROVE FALSE
  BY <1>1 DEF Missing
<1>2. ~ (Count(slice) = 1 /\ s \in Wide)
  <2> SUFFICES ASSUME Count(slice) = 1, s \in Wide PROVE FALSE
    OBVIOUS
  <2>1. PICK r \in registers : r.width = 2 /\ r.address = s
    BY DEF Wide
  <2>2. Words(r) = {s, s + 1}
    BY <2>1, AllInSlices, WordsOf
  <2>3. Words(r) \subseteq Span(slice)
    BY <1>1, <2>2, WholeIfTouched
  <2> QED
    BY <1>1, <2>2, <2>3 DEF Count, Span
<1>3. ~ (Cardinality(Behind(s)) < Count(slice))
  <2>1. Span(slice) \subseteq Behind(s)
    BY <1>1 DEF Behind, Span
  <2>2. IsFiniteSet(Behind(s)) /\ Cardinality(Behind(s)) \in Nat
    BY <1>1, BehindFinite
  <2>3. IsFiniteSet(Span(slice)) /\ Cardinality(Span(slice)) <= Cardinality(Behind(s))
    BY <2>1, <2>2, FS_Subset
  <2>4. Cardinality(Span(slice)) = Count(slice)
    <3> DEFINE k == slice.stop - 1
    <3>1. k \in Int /\ s <= k /\ k - s + 1 = slice.stop - s
      BY <1>1 DEF Span
    <3>2. s \in Int
      BY <1>1
    <3> HIDE DEF k, s
    <3>3. Cardinality(s .. k) = k - s + 1
      BY <3>1, <3>2, IntervalSize
    <3> QED
      BY <3>1, <3>3 DEF Span, Count, k, s
  <2>5. Count(slice) \in Int
    BY <1>1 DEF Count
  <2> HIDE DEF slice, s
  <2> QED
    BY <2>2, <2>3, <2>4, <2>5
<1> QED
  BY <1>1, <1>2, <1>3 DEF Refuses

-----------------------------------------------------------------------------
LEMMA InitRefreshInv == RefreshInit => RefreshInv
<1> SUFFICES ASSUME RefreshInit PROVE RefreshInv
  OBVIOUS
<1>1. IInv
  BY InitIInv DEF RefreshInit
<1>2. /\ step = "plan" /\ asked = 0 /\ failed = {} /\ DOMAIN readings = {} /\ slices = <<>>
      /\ AskedFor = {}
  BY DEF RefreshInit, Init, Empty, AskedFor
<1>3. StepInv
  BY <1>2 DEF StepInv, Over
<1> QED
  BY <1>1, <1>2, <1>3
     DEF RefreshInv, AnswersInv, FailedInv, ReadingsInv, ShownInv, Over

(* Before the first slice is asked for there is nothing to say.            *)
LEMMA NothingAskedYet ==
  ASSUME RefreshInv, asked = 0, IInv', StepInv', ~ Over', asked' = asked,
         UNCHANGED <<readings, failed>>
  PROVE  RefreshInv'
<1>1. AskedFor = {} /\ AskedFor' = {}
  BY DEF AskedFor
<1>2. failed = {} /\ DOMAIN readings = {}
  BY <1>1 DEF RefreshInv, FailedInv, ReadingsInv
<1> QED
  BY <1>1, <1>2 DEF RefreshInv, AnswersInv, FailedInv, ReadingsInv, ShownInv

(* A step that leaves the plan and the controller as they are.             *)
LEMMA SameWorld ==
  ASSUME UNCHANGED <<registers, mapped>>
  PROVE  /\ Keys' = Keys /\ Addresses' = Addresses
         /\ \A x : Missing(x)' = Missing(x)
BY DEF Keys, Addresses, Missing, Words, Span

LEMMA PlanKeeps ==
  ASSUME RefreshInv, IInv', Plan
  PROVE  RefreshInv'
<1>1. /\ step = "plan" /\ step' = step /\ asked' = asked /\ mapped' = mapped
      /\ UNCHANGED <<readings, failed>>
  BY DEF Plan, readVars
<1>2. asked = 0
  BY <1>1 DEF RefreshInv, StepInv
<1>3. Len(slices)' \in Nat
  BY LenProperties DEF IInv, TypeOK
<1>4. StepInv' /\ ~ Over'
  BY <1>1, <1>2, <1>3 DEF StepInv, Over
<1> QED
  BY <1>1, <1>2, <1>4, NothingAskedYet

LEMMA BeginKeeps ==
  ASSUME RefreshInv, IInv', Begin
  PROVE  RefreshInv'
<1>1. /\ step = "plan" /\ Planned /\ mapped' \in Maps /\ step' = "read"
      /\ phase' = phase /\ slices' = slices /\ asked' = asked
      /\ UNCHANGED <<readings, failed>>
  BY DEF Begin, vars
<1>2. asked = 0
  BY <1>1 DEF RefreshInv, StepInv
<1>3. StepInv' /\ ~ Over'
  BY <1>1, <1>2 DEF RefreshInv, StepInv, Over, Planned
<1> QED
  BY <1>1, <1>2, <1>3, NothingAskedYet

LEMMA PublishKeeps ==
  ASSUME RefreshInv, IInv', Publish
  PROVE  RefreshInv'
<1>1. /\ step = "read" /\ asked = Len(slices) /\ step' = "over"
      /\ shown' = [key \in Keys \ failed |-> [a \in Decoded(key) |-> readings[a]]]
      /\ registers' = registers /\ phase' = phase /\ slices' = slices
      /\ mapped' = mapped /\ asked' = asked /\ readings' = readings /\ failed' = failed
  BY DEF Publish, vars
<1>2. StepInv'
  BY <1>1 DEF RefreshInv, StepInv, Over, Planned
<1>3. AnswersInv' /\ FailedInv' /\ ReadingsInv'
  BY <1>1, SameWorld DEF RefreshInv, AnswersInv, FailedInv, ReadingsInv, AskedFor, Span
<1>4. ShownInv'
  BY <1>1 DEF ShownInv, Keys, Decoded, Words
<1> QED
  BY <1>2, <1>3, <1>4 DEF RefreshInv

(* One more slice is asked for: it is answered, or refused.                *)
LEMMA ReadKeeps ==
  ASSUME RefreshInv, IInv', Read
  PROVE  RefreshInv'
<1> DEFINE slice == slices[asked + 1]
<1>1. /\ step = "read" /\ asked < Len(slices) /\ asked' = asked + 1
      /\ step' = step /\ mapped' = mapped
      /\ registers' = registers /\ phase' = phase /\ slices' = slices
      /\ IF Refuses(slice)
         THEN failed' = failed \cup slice.components /\ readings' = readings
         ELSE /\ readings' = [a \in DOMAIN readings \cup Span(slice) |->
                                IF a \in Span(slice) THEN Packed(slice)[a] ELSE readings[a]]
              /\ failed' = failed
  BY DEF Read, vars, Blamed
<1>2. /\ IInv /\ Planned /\ mapped \in Maps
      /\ asked \in Nat /\ Len(slices) \in Nat /\ asked + 1 \in DOMAIN slices
  BY <1>1, LenProperties DEF RefreshInv, StepInv, IInv, TypeOK
<1>3. StepInv' /\ ShownInv'
  BY <1>1, <1>2 DEF RefreshInv, StepInv, ShownInv, Over, Planned
<1>4. AskedFor' = AskedFor \cup {slice}
  BY <1>1, <1>2 DEF AskedFor
<1>5. /\ slice.start \in Nat /\ slice.stop \in Nat /\ slice.start \in Span(slice)
      /\ Span(slice) \subseteq Addresses
  BY <1>2, SliceFacts
<1>6. Refuses(slice) => Missing(slice) # {}
  BY <1>2, RefusedIsMissing
<1>7. ASSUME NEW a \in Span(slice), ~ \E d \in Missing(slice) : d <= a
      PROVE  Packed(slice)[a] = a
  <2>1. slice.start .. a \subseteq Span(slice)
    BY <1>5 DEF Span
  <2>2. slice.start .. a \subseteq mapped
    BY <1>5, <1>7, <2>1 DEF Missing
  <2> QED
    BY <1>2, <1>5, <2>2, PackedRight
<1>8. \A x : Missing(x)' = Missing(x)
  BY <1>1, SameWorld
<1> HIDE DEF slice
<1>9. AnswersInv'
  BY <1>1, <1>4 DEF RefreshInv, AnswersInv, Span
<1>10. FailedInv'
  BY <1>1, <1>4, <1>6, <1>8 DEF RefreshInv, FailedInv
<1>11. ReadingsInv'
  <2>1. CASE Refuses(slice)
    BY <1>1, <1>4, <1>8, <2>1 DEF RefreshInv, ReadingsInv, Span
  <2>2. ASSUME ~ Refuses(slice), NEW a \in DOMAIN readings'
        PROVE  \E x \in AskedFor' :
                 a \in Span(x) /\ (readings'[a] = a \/ \E d \in Missing(x) : d <= a)
    <3>1. CASE a \in Span(slice)
      BY <1>1, <1>4, <1>7, <2>2, <3>1
    <3>2. CASE a \notin Span(slice)
      BY <1>1, <1>4, <2>2, <3>2 DEF RefreshInv, ReadingsInv
    <3> QED
      BY <3>1, <3>2
  <2> QED
    BY <1>8, <2>1, <2>2 DEF ReadingsInv, Span
<1> QED
  BY <1>3, <1>9, <1>10, <1>11 DEF RefreshInv

(* The planner's part of a step.                                           *)
LEMMA StepOfPlanner == [RefreshNext]_refreshVars => [Next]_vars
BY DEF RefreshNext, Plan, Begin, Read, Publish, refreshVars

LEMMA StepRefreshInv == RefreshInv /\ [RefreshNext]_refreshVars => RefreshInv'
<1> SUFFICES ASSUME RefreshInv, [RefreshNext]_refreshVars PROVE RefreshInv'
  OBVIOUS
<1>1. IInv'
  BY StepOfPlanner, StepIInv DEF RefreshInv
<1>2. CASE UNCHANGED refreshVars
  <2>1. /\ step' = step /\ asked' = asked /\ shown' = shown
        /\ registers' = registers /\ phase' = phase /\ slices' = slices
        /\ mapped' = mapped /\ readings' = readings /\ failed' = failed
    BY <1>2 DEF refreshVars, readVars, vars
  <2>2. StepInv'
    BY <2>1 DEF RefreshInv, StepInv, Over, Planned
  <2>3. AnswersInv' /\ FailedInv' /\ ReadingsInv'
    BY <2>1, SameWorld DEF RefreshInv, AnswersInv, FailedInv, ReadingsInv, AskedFor, Span
  <2>4. ShownInv'
    <3>1. Keys' = Keys /\ \A key : Decoded(key)' = Decoded(key)
      BY <2>1 DEF Keys, Decoded, Words
    <3>2. Over' <=> Over
      BY <2>1 DEF Over
    <3> QED
      BY <2>1, <3>1, <3>2 DEF RefreshInv, ShownInv
  <2> QED
    BY <1>1, <2>2, <2>3, <2>4 DEF RefreshInv
<1> QED
  BY <1>1, <1>2, PlanKeeps, BeginKeeps, ReadKeeps, PublishKeeps DEF RefreshNext

-----------------------------------------------------------------------------
(* A refresh plans as planner.py does: what is proved of a plan holds of   *)
(* the plan a refresh reads by.                                            *)
THEOREM RefreshPlans == RefreshSpec => Spec
<1>1. RefreshInit => Init
  BY DEF RefreshInit
<1> QED
  BY <1>1, StepOfPlanner, PTL DEF RefreshSpec, Spec

(* client.py:147-176, planner.py:66-126: all that holds between two reads  *)
(* of a refresh; it is inductive.                                          *)
THEOREM RefreshInvariance == RefreshSpec => []RefreshInv
<1> QED
  BY InitRefreshInv, StepRefreshInv, PTL DEF RefreshSpec

(* planner.py:73-79: a value is shown under a wrong name only behind an    *)
(* address that is declared and that the controller does not have.         *)
THEOREM ShiftNeedsGap == RefreshSpec => []ShiftsOnlyBehindGap
<1>1. RefreshInv => ShiftsOnlyBehindGap
  <2> SUFFICES ASSUME RefreshInv, Over,
                      NEW key \in DOMAIN shown, NEW a \in DOMAIN shown[key], shown[key][a] # a
               PROVE  \E i \in DOMAIN slices :
                        a \in Span(slices[i]) /\ \E d \in Missing(slices[i]) : d <= a
    BY DEF ShiftsOnlyBehindGap
  <2>1. shown = [k \in Keys \ failed |-> [x \in Decoded(k) |-> readings[x]]]
    BY DEF RefreshInv, ShownInv
  <2>2. a \in Decoded(key) /\ shown[key][a] = readings[a]
    BY <2>1
  <2>3. a \in DOMAIN readings
    BY <2>2 DEF Decoded
  <2>4. PICK i \in 1..asked :
          a \in Span(slices[i]) /\ \E d \in Missing(slices[i]) : d <= a
    <3>1. ReadingsInv
      BY DEF RefreshInv
    <3>2. PICK slice \in AskedFor :
            a \in Span(slice) /\ (readings[a] = a \/ \E d \in Missing(slice) : d <= a)
      BY <2>3, <3>1 DEF ReadingsInv
    <3>3. PICK i \in 1..asked : slice = slices[i]
      BY <3>2 DEF AskedFor
    <3> QED
      BY <2>2, <3>2, <3>3
  <2>5. i \in DOMAIN slices
    BY LenProperties DEF RefreshInv, StepInv, IInv, TypeOK
  <2> QED
    BY <2>4, <2>5
<1> QED
  BY <1>1, RefreshInvariance, PTL

(* planner.py:83-85, client.py:138-144, base.py:201-212: a component shows *)
(* all of its registers, or an address the controller does not have failed *)
(* it, in a read of a register of its own.                                 *)
THEOREM ShownWhole == RefreshSpec => []WholeOrMissing
<1>1. RefreshInv => WholeOrMissing
  <2> SUFFICES ASSUME RefreshInv, Over, NEW key \in Keys
               PROVE  LET own == {r \in registers : r.key = key}
                      IN  IF key \in DOMAIN shown
                          THEN \A r \in own : Words(r) \subseteq DOMAIN shown[key]
                          ELSE \E i \in DOMAIN slices :
                                 /\ Missing(slices[i]) # {}
                                 /\ \E r \in own : Words(r) \subseteq Span(slices[i])
    BY DEF WholeOrMissing
  <2>1. shown = [k \in Keys \ failed |-> [x \in Decoded(k) |-> readings[x]]]
    BY DEF RefreshInv, ShownInv
  <2>2. /\ IInv /\ Planned /\ asked = Len(slices) /\ DOMAIN slices = 1..asked
    BY LenProperties DEF RefreshInv, StepInv, IInv, TypeOK, Over
  <2>3. ASSUME key \in DOMAIN shown, NEW r \in registers, r.key = key
        PROVE  Words(r) \subseteq DOMAIN shown[key]
    <3>1. key \notin failed /\ DOMAIN shown[key] = Decoded(key)
      BY <2>1, <2>3
    <3>2. PICK i \in DOMAIN slices : Words(r) \cap Span(slices[i]) # {}
      BY <2>2, AllInSlices, WordsOf DEF Addresses, Spans
    <3>3. key \in slices[i].components
      BY <2>2, <2>3, <3>2, SliceFacts
    <3>4. Span(slices[i]) \subseteq DOMAIN readings
      BY <2>2, <3>1, <3>3 DEF RefreshInv, AnswersInv, AskedFor
    <3>5. Words(r) \subseteq DOMAIN readings
      BY <2>2, <3>2, <3>4, WholeIfTouched
    <3> QED
      BY <2>3, <3>1, <3>5 DEF Decoded
  <2>4. ASSUME key \notin DOMAIN shown
        PROVE  \E i \in DOMAIN slices :
                 /\ Missing(slices[i]) # {}
                 /\ \E r \in registers : r.key = key /\ Words(r) \subseteq Span(slices[i])
    <3>1. key \in failed
      BY <2>1, <2>4
    <3>2. PICK i \in DOMAIN slices : key \in slices[i].components /\ Missing(slices[i]) # {}
      BY <2>2, <3>1 DEF RefreshInv, FailedInv, AskedFor
    <3> QED
      BY <2>2, <3>2, ServedWhole
  <2> QED
    BY <2>3, <2>4
<1> QED
  BY <1>1, RefreshInvariance, PTL

(* client.py:147-174, planner.py:120-142: no refresh goes round in one     *)
(* place: its plan comes to an end, and every slice is asked for once.     *)
THEOREM RefreshStepsOn == RefreshSpec => RefreshMovesOn
<1> DEFINE Moves ==
      \/ step = "plan" /\ step' = "plan" /\ Turns' \in Nat /\ Turns' < Turns
      \/ step = "plan" /\ step' = "read"
      \/ /\ step = "read" /\ step' = "read" /\ slices' = slices
         /\ Len(slices) - asked' \in Nat /\ asked' = asked + 1
      \/ step = "read" /\ step' = "over"
<1>1. registers \in Inputs /\ RefreshInv /\ RefreshInv' /\ [RefreshNext]_refreshVars
      => [Moves]_refreshVars
  <2> SUFFICES ASSUME registers \in Inputs, RefreshInv, RefreshInv', RefreshNext PROVE Moves
    OBVIOUS
  <2>1. IInv /\ IInv'
    BY DEF RefreshInv
  <2>2. CASE Plan
    <3>1. step = "plan" /\ step' = "plan" /\ Next
      BY <2>2 DEF Plan
    <3> QED
      BY <2>1, <3>1, TurnMovesOn
  <2>3. CASE Read
    <3>1. /\ step = "read" /\ step' = "read" /\ asked < Len(slices) /\ asked' = asked + 1
          /\ slices' = slices
      BY <2>3 DEF Read, vars
    <3>2. asked \in Nat /\ Len(slices) \in Nat
      BY <2>1, LenProperties DEF RefreshInv, StepInv, IInv, TypeOK
    <3> QED
      BY <3>1, <3>2
  <2> QED
    BY <2>2, <2>3 DEF RefreshNext, Begin, Publish
<1>2. RefreshInit => registers \in Inputs
  BY DEF RefreshInit, Init
<1>3. registers \in Inputs /\ [RefreshNext]_refreshVars => (registers \in Inputs)'
  BY StepOfPlanner, KeepsInput
<1>4. RefreshSpec => [](registers \in Inputs)
  BY <1>2, <1>3, PTL DEF RefreshSpec
<1> QED
  BY <1>1, <1>4, RefreshInvariance, PTL DEF RefreshSpec, RefreshMovesOn
=============================================================================
