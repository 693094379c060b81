-------------------------------- MODULE Planner --------------------------------
(***************************************************************************)
(* The read planner of aiosolarfocus (planner.py): from the registers the  *)
(* components declare to the reads of one refresh.  plan() does the same   *)
(* for input and for holding registers and shares nothing between them but *)
(* the list it appends to, so this is its pass over one kind.              *)
(*                                                                         *)
(* _runs() groups the sorted addresses in runs, _split() cuts each run in  *)
(* pieces and plan() appends a slice for each.  A step is one turn of one  *)
(* of these loops.  Intervals are half open, as in the code.               *)
(***************************************************************************)
EXTENDS Integers, Sequences, FiniteSets

CONSTANTS Inputs,    \* the sets of registers plan() may be given
          MaxCounts  \* the values of max_count

(* A register, one or two words wide, as Layout.resolve placed it.         *)
IsRegister(r) == r.address \in Nat /\ r.width \in {1, 2}
Words(r) == r.address .. r.address + r.width - 1

(* Registers do not overlap in part: a Layout refuses it in a component,   *)
(* and if two components shared an address it would be one register in     *)
(* both, as plan() takes it to be (planner.py:99).  A read must be able to *)
(* hold the widest register.                                               *)
Legal(layout) ==
  /\ \A r \in layout : IsRegister(r)
  /\ \A r, s \in layout : Words(r) \cap Words(s) # {} => Words(r) = Words(s)
ASSUME InputsAssumption == \A layout \in Inputs : Legal(layout)
ASSUME FiniteAssumption == \A layout \in Inputs : IsFiniteSet(layout)
ASSUME MaxCountsAssumption == MaxCounts \subseteq Nat \ {0, 1}

VARIABLES registers,  \* the input: what the components declare
          max,        \* the input max_count
          phase,      \* "runs" in _runs(), then "split", then "done"
          left,       \* _runs(): the addresses not looked at yet
          run,        \* _runs(): the run being grown
          pending,    \* the runs to split; the first one from its `start` on
          slices      \* the reads planned

vars == <<registers, max, phase, left, run, pending, slices>>

Addresses == UNION {Words(r) : r \in registers}
NoStart == UNION {Words(r) \ {r.address} : r \in registers}

Interval(a, b) == [start |-> a, stop |-> b]
Span(i) == i.start .. i.stop - 1
NoRun == Interval(0, 0)

Init == /\ registers \in Inputs
        /\ max \in MaxCounts
        /\ phase = "runs"
        /\ left = Addresses
        /\ run = NoRun
        /\ pending = <<>>
        /\ slices = <<>>

(* A gap of one address taken into the run.                                *)
TakeAddressOverGap ==
  /\ phase = "runs"
  /\ \E a \in left :
       /\ \A b \in left : a <= b
       /\ left' = left \ {a}
       /\ IF run # NoRun /\ a <= run.stop + 1
          THEN run' = [run EXCEPT !.stop = a + 1] /\ UNCHANGED pending
          ELSE /\ run' = Interval(a, a + 1)
               /\ pending' = IF run = NoRun THEN pending ELSE Append(pending, run)
  /\ UNCHANGED <<registers, max, phase, slices>>

(* _runs(): the next address grows the run or starts another.              *)
TakeAddress ==
  /\ phase = "runs"
  /\ \E a \in left :
       /\ \A b \in left : a <= b
       /\ left' = left \ {a}
       /\ IF run # NoRun /\ a = run.stop
          THEN run' = [run EXCEPT !.stop = a + 1] /\ UNCHANGED pending
          ELSE /\ run' = Interval(a, a + 1)
               /\ pending' = IF run = NoRun THEN pending ELSE Append(pending, run)
  /\ UNCHANGED <<registers, max, phase, slices>>

RunsEnd ==
  /\ phase = "runs" /\ left = {}
  /\ phase' = "split"
  /\ run' = NoRun
  /\ pending' = IF run = NoRun THEN pending ELSE Append(pending, run)
  /\ UNCHANGED <<registers, max, left, slices>>

(* Whose registers are at the first address only.                          *)
ServesFirst(i) == {r.key : r \in {s \in registers : i.start \in Words(s)}}

(* Whose registers the addresses of a read belong to.                      *)
Serves(i) == {r.key : r \in {s \in registers : Words(s) \cap Span(i) # {}}}

Slice(i) == [start |-> i.start, stop |-> i.stop, components |-> Serves(i)]

Long(i) == i.stop - i.start > max

(* Where to cut: at most `max` words on, and back over every address that  *)
(* is not the first of its register.                                       *)
CutAnywhere(i, cut) == cut = i.start + max
CutEarly(i, cut) ==
  /\ cut < i.start + max /\ cut \notin NoStart
  /\ \A c \in cut + 1 .. i.start + max - 1 : c \in NoStart
CutLate(i, cut) ==
  /\ cut >= i.start + max /\ cut \notin NoStart
  /\ \A c \in i.start + max .. cut - 1 : c \in NoStart
CutsAt(i, cut) ==
  /\ cut <= i.start + max /\ cut \notin NoStart
  /\ \A c \in cut + 1 .. i.start + max : c \in NoStart

(* A turn that does not move on.                                           *)
SplitStuck == phase = "split" /\ pending # <<>> /\ Long(pending[1]) /\ UNCHANGED vars

(* _split(): a turn of its outer loop cuts a piece off.                    *)
Split ==
  /\ phase = "split" /\ pending # <<>> /\ Long(pending[1])
  /\ \E cut \in 0 .. pending[1].stop :
       /\ CutsAt(pending[1], cut)
       /\ slices' = Append(slices, Slice(Interval(pending[1].start, cut)))
       /\ pending' = [pending EXCEPT ![1].start = cut]
  /\ UNCHANGED <<registers, max, phase, left, run>>

(* _split(): what is left of a run is short enough.                        *)
Finish ==
  /\ phase = "split" /\ pending # <<>> /\ ~ Long(pending[1])
  /\ slices' = Append(slices, Slice(pending[1]))
  /\ pending' = Tail(pending)
  /\ UNCHANGED <<registers, max, phase, left, run>>

Return ==
  /\ phase = "split" /\ pending = <<>>
  /\ phase' = "done"
  /\ UNCHANGED <<registers, max, left, run, pending, slices>>

Next == TakeAddress \/ RunsEnd \/ Split \/ Finish \/ Return

Spec == Init /\ [][Next]_vars

-----------------------------------------------------------------------------
Intervals == [start : Nat, stop : Nat]
Reads == [start : Nat, stop : Nat, components : SUBSET {r.key : r \in registers}]
TypeOK == /\ Legal(registers) /\ max \in MaxCounts
          /\ phase \in {"runs", "split", "done"}
          /\ left \subseteq Addresses
          /\ run \in Intervals
          /\ pending \in Seq(Intervals)
          /\ slices \in Seq(Reads)

Planned == phase = "done"

(* planner.py:73-81: a read that spans an address the firmware does not    *)
(* map shifts every value behind it into the wrong name, without a signal. *)
(* The reads carry every declared address, once, and no other address.     *)
ReadsCover == Planned =>
  /\ \A a \in Addresses : \E i \in DOMAIN slices : a \in Span(slices[i])
  /\ \A i \in DOMAIN slices : Span(slices[i]) \subseteq Addresses
  /\ \A i, j \in DOMAIN slices : i < j => slices[i].stop <= slices[j].start

(* planner.py:83-85: the controller refuses half of a 32-bit register, so  *)
(* each register lies whole in one read.                                   *)
RegistersWhole == Planned =>
  \A r \in registers : \E i \in DOMAIN slices : Words(r) \subseteq Span(slices[i])

(* planner.py:30-32: a slice that fails fails exactly the components that  *)
(* have a register in it; with registers whole, those it would have served.*)
BlameExact == Planned => \A i \in DOMAIN slices :
  slices[i].components = {r.key : r \in {s \in registers : Words(s) \subseteq Span(slices[i])}}

(* const.py MAX_REGISTERS_PER_READ: the controller accepts every read, and *)
(* none is empty.                                                          *)
ReadsAcceptable == Planned => \A i \in DOMAIN slices :
  slices[i].stop - slices[i].start \in 1..max

(* planner.py:80-81: runs are merged and split nowhere else.  Where a read *)
(* ends and the next address is declared, its register did not fit.        *)
ReadsAreLong == Planned => \A i \in DOMAIN slices : \A r \in registers :
  r.address = slices[i].stop => slices[i].stop - slices[i].start + r.width > max

(* Why they hold.  At every turn each declared address is still left, or   *)
(* in the growing run, or in a pending one, or in a slice, and these lie   *)
(* one behind the other; no piece begins or ends inside a register, since  *)
(* no run does and no cut does.                                            *)
Proper(i) == i.start < i.stop /\ i.start \notin NoStart /\ i.stop \notin NoStart
Spans(seq) == UNION {Span(seq[i]) : i \in DOMAIN seq}
CoverInv == Addresses = left \cup Span(run) \cup Spans(pending) \cup Spans(slices)
PendingInv == \A i \in DOMAIN pending :
  /\ Proper(pending[i])
  /\ pending[i].stop \notin Addresses
  /\ \A j \in DOMAIN pending : i < j => pending[i].stop < pending[j].start
RunInv == phase = "runs" =>
  /\ slices = <<>>
  /\ run = NoRun => pending = <<>>
  /\ run # NoRun =>
       /\ run.start < run.stop /\ run.start \notin NoStart
       /\ \A a \in left : run.stop <= a
       /\ \A i \in DOMAIN pending : pending[i].stop < run.start
SplitInv == phase # "runs" => left = {} /\ run = NoRun /\ (Planned => pending = <<>>)
SlicesInv == \A i \in DOMAIN slices :
  /\ Proper(slices[i])
  /\ slices[i].stop - slices[i].start <= max
  /\ slices[i].components = Serves(slices[i])
  /\ \A j \in DOMAIN slices : i < j => slices[i].stop <= slices[j].start
  /\ \A j \in DOMAIN pending : slices[i].stop <= pending[j].start
  /\ \A r \in registers :
       r.address = slices[i].stop => slices[i].stop - slices[i].start + r.width > max
IInv == TypeOK /\ CoverInv /\ PendingInv /\ RunInv /\ SplitInv /\ SlicesInv

(* Why the loops end.  _runs() looks at each address once, and each turn   *)
(* of _split() puts at least one more into a slice, since every cut moves  *)
(* on.  There are as many turns left at most.                              *)
Unread == Addresses \ Spans(slices)
Turns == Cardinality(left) + Cardinality(Unread)
         + (IF phase = "runs" THEN 2 ELSE IF phase = "split" THEN 1 ELSE 0)

(* planner.py:120-142: no turn of the loops is the same again, whatever is *)
(* declared, so `while` in _split() ends.                                  *)
EveryTurnMovesOn == [][Turns' \in Nat /\ Turns' < Turns]_vars
=============================================================================
