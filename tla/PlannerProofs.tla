---------------------------- MODULE PlannerProofs ----------------------------
(***************************************************************************)
(* TLAPS proofs about Planner: for every legal layout, of any size, and    *)
(* every max_count of at least two, the reads plan() returns carry each    *)
(* declared address once and nothing else, cut no wide register, are       *)
(* acceptable to the controller and as long as they can be, and name the   *)
(* components they serve.                                                  *)
(***************************************************************************)
EXTENDS Planner, SequenceTheorems, FiniteSetTheorems, TLAPS

(* The words of a register are one address or two.                         *)
LEMMA WordsOf ==
  ASSUME Legal(registers), NEW r \in registers
  PROVE  /\ r.address \in Nat /\ r.width \in {1, 2}
         /\ r.width = 1 => Words(r) = {r.address}
         /\ r.width = 2 => Words(r) = {r.address, r.address + 1}
         /\ r.address \in Words(r)
<1>1. r.address \in Nat /\ r.width \in {1, 2}
  BY DEF Legal, IsRegister
<1> QED
  BY <1>1 DEF Words

LEMMA AddressesAreNat ==
  ASSUME Legal(registers)
  PROVE  Addresses \subseteq Nat
BY WordsOf DEF Addresses

(* An address no read may start at is the second word of a register.       *)
LEMMA NoStartIsSecond ==
  ASSUME Legal(registers), NEW c \in NoStart
  PROVE  /\ c \in Nat /\ c \in Addresses /\ c - 1 \in Addresses
         /\ \E s \in registers : s.width = 2 /\ s.address = c - 1 /\ c \in Words(s)
<1>1. PICK s \in registers : c \in Words(s) \ {s.address}
  BY DEF NoStart
<1>2. s.width = 2 /\ s.address \in Nat /\ c = s.address + 1 /\ s.address \in Words(s)
  BY <1>1, WordsOf
<1> QED
  BY <1>1, <1>2 DEF Addresses

(* A register starts where a read may start, since registers do not        *)
(* overlap in part; so of two addresses in a row one is a possible start.  *)
LEMMA StartIsFree ==
  ASSUME Legal(registers), NEW r \in registers
  PROVE  r.address \notin NoStart
<1> SUFFICES ASSUME r.address \in NoStart PROVE FALSE
  OBVIOUS
<1>1. PICK s \in registers : s.width = 2 /\ s.address = r.address - 1 /\ r.address \in Words(s)
  BY NoStartIsSecond
<1>2. Words(r) = Words(s)
  BY <1>1, WordsOf DEF Legal
<1>3. s.address \in Words(r) /\ s.address < r.address
  BY <1>1, <1>2, WordsOf
<1> QED
  BY <1>3, WordsOf

LEMMA NoTwoInARow ==
  ASSUME Legal(registers), NEW c \in NoStart
  PROVE  c + 1 \notin NoStart
<1> SUFFICES ASSUME c + 1 \in NoStart PROVE FALSE
  OBVIOUS
<1>1. PICK s \in registers : s.address = (c + 1) - 1
  BY NoStartIsSecond
<1>2. s.address = c
  BY <1>1, NoStartIsSecond
<1> QED
  BY <1>2, StartIsFree

(* A register that starts at the address before a second word is that wide *)
(* register.                                                               *)
LEMMA WideBeforeSecond ==
  ASSUME Legal(registers), NEW r \in registers, r.address + 1 \in NoStart
  PROVE  r.width = 2
<1>1. PICK s \in registers : s.width = 2 /\ s.address = (r.address + 1) - 1
  BY NoStartIsSecond
<1>2. s.address = r.address
  BY <1>1, WordsOf
<1>3. Words(s) = Words(r)
  BY <1>2, WordsOf DEF Legal
<1>4. r.address + 1 \in Words(r)
  BY <1>1, <1>2, <1>3, WordsOf
<1> QED
  BY <1>4, WordsOf

-----------------------------------------------------------------------------
(* What the three operations on a list of intervals do to what it covers.  *)
LEMMA SpansAppend ==
  ASSUME NEW S, NEW s \in Seq(S), NEW x \in S
  PROVE  Spans(Append(s, x)) = Spans(s) \cup Span(x)
<1> DEFINE q == Append(s, x)
<1>1. /\ q \in Seq(S)
      /\ Len(q) = Len(s) + 1
      /\ \A i \in 1..Len(s) : q[i] = s[i]
      /\ q[Len(s) + 1] = x
  BY AppendProperties
<1>2. Len(s) \in Nat /\ DOMAIN s = 1..Len(s) /\ DOMAIN q = 1..Len(s) + 1
  BY <1>1, LenProperties
<1>3. DOMAIN q = DOMAIN s \cup {Len(s) + 1}
  BY <1>2
<1> HIDE DEF q
<1> QED
  BY <1>1, <1>2, <1>3 DEF Spans, q

LEMMA SpansTail ==
  ASSUME NEW S, NEW s \in Seq(S), s # <<>>
  PROVE  Spans(s) = Span(s[1]) \cup Spans(Tail(s))
<1> DEFINE q == Tail(s)
<1>1. /\ q \in Seq(S)
      /\ Len(q) = Len(s) - 1
      /\ \A i \in 1..Len(q) : q[i] = s[i + 1]
  BY HeadTailProperties
<1>2. Len(s) \in Nat \ {0} /\ DOMAIN s = 1..Len(s) /\ DOMAIN q = 1..Len(s) - 1
  BY <1>1, LenProperties, EmptySeq
<1> HIDE DEF q
<1>3. ASSUME NEW a \in Spans(s) PROVE a \in Span(s[1]) \cup Spans(q)
  <2>1. PICK i \in 1..Len(s) : a \in Span(s[i])
    BY <1>2 DEF Spans
  <2>2. CASE i = 1
    BY <2>1, <2>2
  <2>3. CASE i # 1
    <3>1. i - 1 \in DOMAIN q /\ q[i - 1] = s[i]
      BY <1>1, <1>2, <2>3
    <3> QED
      BY <2>1, <3>1 DEF Spans
  <2> QED
    BY <2>2, <2>3
<1>4. ASSUME NEW a \in Spans(q) PROVE a \in Spans(s)
  <2>1. PICK i \in 1..Len(s) - 1 : a \in Span(q[i])
    BY <1>2 DEF Spans
  <2>2. i + 1 \in DOMAIN s /\ q[i] = s[i + 1]
    BY <1>1, <1>2
  <2> QED
    BY <2>1, <2>2 DEF Spans
<1>5. Span(s[1]) \subseteq Spans(s)
  BY <1>2 DEF Spans
<1> QED
  BY <1>3, <1>4, <1>5 DEF q

LEMMA SpansCut ==
  ASSUME NEW s \in Seq(Intervals), s # <<>>, NEW c \in Nat, s[1].start <= c, c <= s[1].stop
  PROVE  /\ [s EXCEPT ![1].start = c] \in Seq(Intervals)
         /\ DOMAIN [s EXCEPT ![1].start = c] = DOMAIN s
         /\ [s EXCEPT ![1].start = c][1] = Interval(c, s[1].stop)
         /\ \A i \in DOMAIN s : i # 1 => [s EXCEPT ![1].start = c][i] = s[i]
         /\ Spans(s) = Span(Interval(s[1].start, c)) \cup Spans([s EXCEPT ![1].start = c])
<1> DEFINE e == [s[1] EXCEPT !.start = c]
           q == [s EXCEPT ![1].start = c]
<1>1. Len(s) \in Nat \ {0} /\ DOMAIN s = 1..Len(s) /\ s[1] \in Intervals
  BY LenProperties, EmptySeq, ElementOfSeq
<1>2. e = Interval(c, s[1].stop) /\ e \in Intervals
  BY <1>1 DEF Intervals, Interval
<1>3. q = [s EXCEPT ![1] = e]
  OBVIOUS
<1>4. /\ q \in Seq(Intervals)
      /\ Len(q) = Len(s)
      /\ \A i \in 1..Len(s) : q[i] = IF i = 1 THEN e ELSE s[i]
  BY <1>1, <1>2, <1>3, ExceptSeq
<1>5. DOMAIN q = 1..Len(s)
  BY <1>4, LenProperties
<1> HIDE DEF e, q
<1>6. Span(s[1]) = Span(Interval(s[1].start, c)) \cup Span(e)
  BY <1>1, <1>2 DEF Span, Interval, Intervals
<1>7. Spans(s) = Span(Interval(s[1].start, c)) \cup Spans(q)
  <2>1. ASSUME NEW a, NEW i \in 1..Len(s), a \in Span(s[i])
        PROVE  a \in Span(Interval(s[1].start, c)) \cup Spans(q)
    <3>1. CASE i = 1
      BY <1>1, <1>4, <1>5, <1>6, <2>1, <3>1 DEF Spans
    <3>2. CASE i # 1
      BY <1>4, <1>5, <2>1, <3>2 DEF Spans
    <3> QED
      BY <3>1, <3>2
  <2>2. ASSUME NEW a, NEW i \in 1..Len(s), a \in Span(q[i])
        PROVE  a \in Spans(s)
    <3>1. CASE i = 1
      BY <1>1, <1>4, <1>6, <2>2, <3>1 DEF Spans
    <3>2. CASE i # 1
      BY <1>1, <1>4, <2>2, <3>2 DEF Spans
    <3> QED
      BY <3>1, <3>2
  <2>3. Span(Interval(s[1].start, c)) \subseteq Spans(s)
    BY <1>1, <1>6 DEF Spans
  <2> QED
    BY <1>1, <1>5, <2>1, <2>2, <2>3 DEF Spans
<1> QED
  BY <1>1, <1>2, <1>4, <1>5, <1>7 DEF q

-----------------------------------------------------------------------------
(* The cut _split() finds moves on, stays inside the run, is not inside a  *)
(* register, and is as far on as max_count allows.                         *)
LEMMA CutMovesOn ==
  ASSUME TypeOK, NEW i \in Intervals, Proper(i), Long(i), NEW cut \in Nat, CutsAt(i, cut)
  PROVE  /\ i.start < cut /\ cut < i.stop /\ cut - i.start <= max
         /\ cut \notin NoStart
         /\ \A r \in registers : r.address = cut => cut - i.start + r.width > max
<1>1. /\ Legal(registers) /\ max \in Nat /\ max >= 2
      /\ i.start \in Nat /\ i.stop \in Nat
      /\ i.start < i.stop /\ i.start \notin NoStart
      /\ i.stop - i.start > max
      /\ cut <= i.start + max /\ cut \notin NoStart
      /\ \A c \in cut + 1 .. i.start + max : c \in NoStart
  BY MaxCountsAssumption DEF TypeOK, Intervals, Proper, Long, CutsAt
<1>2. i.start < cut
  <2> SUFFICES ASSUME cut <= i.start PROVE FALSE
    BY <1>1
  <2>1. i.start + 1 \in cut + 1 .. i.start + max /\ (i.start + 1) + 1 \in cut + 1 .. i.start + max
    BY <1>1
  <2>2. i.start + 1 \in NoStart /\ (i.start + 1) + 1 \in NoStart
    BY <1>1, <2>1
  <2> QED
    BY <1>1, <2>2, NoTwoInARow
<1>3. ASSUME NEW r \in registers, r.address = cut
      PROVE  cut - i.start + r.width > max
  <2>1. CASE cut = i.start + max
    BY <1>1, <1>3, <2>1, WordsOf
  <2>2. CASE cut < i.start + max
    <3>1. cut + 1 \in NoStart
      BY <1>1, <2>2
    <3>2. r.width = 2
      BY <1>1, <1>3, <3>1, WideBeforeSecond
    <3>3. cut + 1 = i.start + max
      <4> SUFFICES ASSUME cut + 1 < i.start + max PROVE FALSE
        BY <1>1, <2>2
      <4>1. (cut + 1) + 1 \in NoStart
        BY <1>1
      <4> QED
        BY <1>1, <3>1, <4>1, NoTwoInARow
    <3> QED
      BY <1>1, <3>2, <3>3
  <2> QED
    BY <1>1, <2>1, <2>2
<1> QED
  BY <1>1, <1>2, <1>3

-----------------------------------------------------------------------------
LEMMA InitIInv == Init => IInv
<1> SUFFICES ASSUME Init PROVE IInv
  OBVIOUS
<1>1. TypeOK
  BY InputsAssumption, EmptySeq DEF Init, TypeOK, NoRun, Interval, Intervals
<1>2. Span(run) = {} /\ Spans(pending) = {} /\ Spans(slices) = {}
  BY DEF Init, Span, Spans, NoRun, Interval
<1>3. CoverInv
  BY <1>2 DEF CoverInv, Init
<1>4. PendingInv /\ SlicesInv
  BY DEF Init, PendingInv, SlicesInv
<1>5. RunInv /\ SplitInv
  BY DEF Init, RunInv, SplitInv
<1> QED
  BY <1>1, <1>3, <1>4, <1>5 DEF IInv

(* What does not change with the input.                                    *)
LEMMA SameInput ==
  ASSUME UNCHANGED <<registers, max>>
  PROVE  /\ Addresses' = Addresses /\ NoStart' = NoStart
         /\ \A i : Proper(i)' <=> Proper(i)
         /\ \A i : Serves(i)' = Serves(i)
BY DEF Addresses, NoStart, Words, Proper, Serves, Span

(* _runs(): the smallest address left lies behind everything seen.  Either *)
(* it continues the run, or there is an undeclared address in between and  *)
(* the run is complete: neither its end nor the new start is in a register.*)
LEMMA TakeAddressKeeps == IInv /\ TakeAddress => IInv'
<1> SUFFICES ASSUME IInv, TakeAddress PROVE IInv'
  OBVIOUS
<1>0. \A i \in DOMAIN pending : pending[i] \in Intervals
  BY ElementOfSeq, LenProperties DEF IInv, TypeOK
<1>13. run # NoRun => Spans(Append(pending, run)) = Spans(pending) \cup Span(run)
  BY SpansAppend DEF IInv, TypeOK
<1> USE DEF Span, Interval, Intervals
<1>1. PICK a \in left :
        /\ \A b \in left : a <= b
        /\ left' = left \ {a}
        /\ IF run # NoRun /\ a = run.stop
           THEN run' = [run EXCEPT !.stop = a + 1] /\ UNCHANGED pending
           ELSE /\ run' = Interval(a, a + 1)
                /\ pending' = IF run = NoRun THEN pending ELSE Append(pending, run)
  BY DEF TakeAddress
<1>2. phase = "runs" /\ UNCHANGED <<registers, max, phase, slices>>
  BY DEF TakeAddress
<1>3. /\ TypeOK /\ CoverInv /\ PendingInv /\ SlicesInv /\ Legal(registers)
      /\ slices = <<>>
      /\ run = NoRun => pending = <<>>
      /\ run # NoRun =>
           /\ run.start < run.stop /\ run.start \notin NoStart
           /\ \A b \in left : run.stop <= b
           /\ \A i \in DOMAIN pending : pending[i].stop < run.start
  BY <1>2 DEF IInv, RunInv, TypeOK
<1>4. a \in Nat /\ Addresses \subseteq Nat /\ left \subseteq Addresses
  BY <1>1, <1>3, AddressesAreNat DEF TypeOK
<1>5. \A b \in left' : b \in Nat /\ a + 1 <= b
  BY <1>1, <1>4
<1>6. Addresses = left \cup Span(run) \cup Spans(pending)
  BY <1>3 DEF CoverInv, Spans
<1>7. \A c \in Spans(pending) : run # NoRun /\ c < run.start
  <2> SUFFICES ASSUME NEW i \in DOMAIN pending, NEW c \in Span(pending[i])
               PROVE  run # NoRun /\ c < run.start
    BY DEF Spans
  <2>1. run # NoRun
    BY <1>3
  <2>2. pending[i] \in Intervals /\ run \in Intervals
    BY <1>0, <1>3 DEF TypeOK
  <2> QED
    BY <1>3, <2>1, <2>2
<1>8. \A c \in Spans(slices)' : FALSE
  BY <1>2, <1>3 DEF Spans
<1>9. SlicesInv'
  BY <1>2, <1>3 DEF SlicesInv
<1>10. SplitInv'
  BY <1>2 DEF SplitInv
<1>11. CASE run # NoRun /\ a = run.stop
  <2>1. run' = [run EXCEPT !.stop = a + 1] /\ pending' = pending
    BY <1>1, <1>11
  <2>2. run' \in Intervals /\ run'.start = run.start /\ run'.stop = a + 1 /\ run.start < a
    BY <1>3, <1>4, <1>11, <2>1 DEF TypeOK
  <2>3. TypeOK'
    BY <1>1, <1>2, <1>3, <2>1, <2>2, SameInput DEF TypeOK, Legal, Words, IsRegister, Reads
  <2>4. Span(run)' = Span(run) \cup {a}
    BY <1>3, <1>4, <1>11, <2>2 DEF TypeOK
  <2>5. CoverInv'
    <3>1. Spans(pending)' = Spans(pending)
      BY <2>1 DEF Spans
    <3> QED
      BY <1>1, <1>2, <1>6, <1>8, <2>4, <3>1, SameInput DEF CoverInv
  <2>6. PendingInv'
    BY <1>2, <1>3, <2>1, SameInput DEF PendingInv
  <2>7. run' # NoRun
    BY <1>4, <2>2 DEF NoRun
  <2>8. RunInv'
    <3>1. \A b \in left' : run'.stop <= b
      BY <1>5, <2>2
    <3>2. \A i \in DOMAIN pending' : pending'[i].stop < run'.start
      BY <1>3, <1>11, <2>1, <2>2
    <3>3. run'.start < run'.stop /\ run'.start \notin NoStart'
      BY <1>2, <1>3, <1>4, <1>11, <2>2, SameInput DEF TypeOK
    <3> QED
      BY <1>2, <1>3, <2>7, <3>1, <3>2, <3>3 DEF RunInv
  <2> QED
    BY <1>9, <1>10, <2>3, <2>5, <2>6, <2>8 DEF IInv
<1>12. CASE ~ (run # NoRun /\ a = run.stop)
  <2>1. /\ run' = Interval(a, a + 1)
        /\ pending' = IF run = NoRun THEN pending ELSE Append(pending, run)
    BY <1>1, <1>12
  <2>2. run' \in Intervals /\ run'.start = a /\ run'.stop = a + 1 /\ run' # NoRun
    BY <1>4, <2>1 DEF NoRun
  <2>3. a \notin NoStart
    <3> SUFFICES ASSUME a \in NoStart PROVE FALSE
      OBVIOUS
    <3>1. a - 1 \in Addresses
      BY <1>3, NoStartIsSecond
    <3>2. a - 1 \notin left
      BY <1>1, <1>4
    <3>3. CASE run = NoRun
      BY <1>3, <1>6, <3>1, <3>2, <3>3 DEF NoRun, Spans
    <3>4. CASE run # NoRun
      <4>1. run.stop < a
        BY <1>1, <1>3, <1>4, <1>12, <3>4 DEF TypeOK
      <4>2. a - 1 \notin Span(run)
        BY <1>3, <1>4, <4>1 DEF TypeOK
      <4>3. a - 1 \notin Spans(pending)
        BY <1>3, <1>4, <1>7, <3>4, <4>1 DEF TypeOK
      <4> QED
        BY <1>6, <3>1, <3>2, <4>2, <4>3
    <3> QED
      BY <3>3, <3>4
  <2>4. CASE run = NoRun
    <3>1. pending' = pending /\ pending = <<>>
      BY <1>3, <2>1, <2>4
    <3>2. TypeOK'
      BY <1>1, <1>2, <1>3, <2>2, <3>1, SameInput DEF TypeOK, Legal, Words, IsRegister, Reads
    <3>3. CoverInv'
      <4>1. Spans(pending) = {} /\ Spans(pending)' = {} /\ Span(run) = {} /\ Span(run)' = {a}
        BY <1>4, <2>2, <2>4, <3>1 DEF Spans, NoRun
      <4> QED
        BY <1>1, <1>2, <1>6, <1>8, <4>1, SameInput DEF CoverInv
    <3>4. PendingInv'
      BY <3>1 DEF PendingInv
    <3>5. RunInv'
      BY <1>2, <1>3, <1>5, <2>2, <2>3, <3>1, SameInput DEF RunInv
    <3> QED
      BY <1>9, <1>10, <3>2, <3>3, <3>4, <3>5 DEF IInv
  <2>5. CASE run # NoRun
    <3>1. pending' = Append(pending, run) /\ run.stop < a
      BY <1>1, <1>3, <1>4, <1>12, <2>1, <2>5 DEF TypeOK
    <3>2. /\ pending' \in Seq(Intervals)
          /\ Len(pending') = Len(pending) + 1
          /\ \A i \in 1..Len(pending) : pending'[i] = pending[i]
          /\ pending'[Len(pending) + 1] = run
          /\ Len(pending) \in Nat
          /\ DOMAIN pending = 1..Len(pending)
          /\ DOMAIN pending' = 1..Len(pending) + 1
      BY <1>3, <3>1, AppendProperties, LenProperties DEF TypeOK
    <3>3. TypeOK'
      BY <1>1, <1>2, <1>3, <2>2, <3>2, SameInput DEF TypeOK, Legal, Words, IsRegister, Reads
    <3>4. CoverInv'
      <4>1. Spans(pending)' = Spans(pending) \cup Span(run)
        BY <1>13, <2>5, <3>1 DEF Spans
      <4>2. Span(run)' = {a}
        BY <1>4, <2>2
      <4> QED
        BY <1>1, <1>2, <1>6, <1>8, <4>1, <4>2, SameInput DEF CoverInv
    <3>5. run.stop \notin Addresses
      <4>1. run.stop \notin left
        BY <1>1, <1>3, <1>4, <3>1 DEF TypeOK
      <4>2. run.stop \notin Span(run) /\ run.stop \notin Spans(pending)
        BY <1>3, <1>7, <2>5 DEF TypeOK
      <4> QED
        BY <1>6, <4>1, <4>2
    <3>6. Proper(run)
      BY <1>3, <2>5, <3>5, NoStartIsSecond DEF Proper
    <3>7. PendingInv'
      <4> SUFFICES ASSUME NEW i \in 1..Len(pending) + 1
                   PROVE  /\ Proper(pending'[i])
                          /\ pending'[i].stop \notin Addresses
                          /\ \A j \in 1..Len(pending) + 1 :
                               i < j => pending'[i].stop < pending'[j].start
        BY <1>2, <3>2, SameInput DEF PendingInv
      <4>1. CASE i \in 1..Len(pending)
        <5>1. pending'[i] = pending[i] /\ pending[i].stop < run.start
          BY <1>3, <2>5, <3>2, <4>1
        <5>2. ASSUME NEW j \in 1..Len(pending) + 1, i < j PROVE pending[i].stop < pending'[j].start
          <6>1. CASE j \in 1..Len(pending)
            BY <1>3, <3>2, <4>1, <5>2, <6>1 DEF PendingInv
          <6>2. CASE j = Len(pending) + 1
            BY <3>2, <5>1, <6>2
          <6>3. j \in 1..Len(pending) \/ j = Len(pending) + 1
            BY <3>2
          <6> QED
            BY <6>1, <6>2, <6>3
        <5> QED
          BY <1>3, <3>2, <4>1, <5>1, <5>2 DEF PendingInv
      <4>2. CASE i = Len(pending) + 1
        BY <3>2, <3>5, <3>6, <4>2
      <4> QED
        BY <3>2, <4>1, <4>2
    <3>8. \A i \in DOMAIN pending' : pending'[i].stop < run'.start
      <4> SUFFICES ASSUME NEW i \in 1..Len(pending) + 1 PROVE pending'[i].stop < a
        BY <2>2, <3>2
      <4>1. CASE i \in 1..Len(pending)
        <5>1. pending'[i] = pending[i] /\ pending[i].stop < run.start /\ pending[i] \in Intervals
          BY <1>0, <1>3, <2>5, <3>2, <4>1
        <5> QED
          BY <1>3, <1>4, <2>5, <3>1, <5>1 DEF TypeOK
      <4>2. CASE i = Len(pending) + 1
        BY <3>1, <3>2, <4>2
      <4> QED
        BY <3>2, <4>1, <4>2
    <3>9. RunInv'
      BY <1>2, <1>3, <1>5, <2>2, <2>3, <3>8, SameInput DEF RunInv
    <3> QED
      BY <1>9, <1>10, <3>3, <3>4, <3>7, <3>9 DEF IInv
  <2> QED
    BY <2>4, <2>5
<1> QED
  BY <1>11, <1>12

(* _runs(): the last run ends where no declared address follows.           *)
LEMMA RunsEndKeeps == IInv /\ RunsEnd => IInv'
<1> SUFFICES ASSUME IInv, RunsEnd PROVE IInv'
  OBVIOUS
<1>1. /\ phase = "runs" /\ left = {} /\ phase' = "split" /\ run' = NoRun
      /\ pending' = IF run = NoRun THEN pending ELSE Append(pending, run)
      /\ UNCHANGED <<registers, max, left, slices>>
  BY DEF RunsEnd
<1>2. /\ TypeOK /\ CoverInv /\ PendingInv /\ SlicesInv /\ Legal(registers)
      /\ slices = <<>>
      /\ run = NoRun => pending = <<>>
      /\ run # NoRun =>
           /\ run.start < run.stop /\ run.start \notin NoStart
           /\ \A i \in DOMAIN pending : pending[i].stop < run.start
  BY <1>1 DEF IInv, RunInv, TypeOK
<1>3. Span(NoRun) = {} /\ NoRun \in Intervals
  BY DEF Span, NoRun, Interval, Intervals
<1>4. Spans(slices)' = Spans(slices)
  BY <1>1 DEF Spans
<1>5. SlicesInv'
  BY <1>1, <1>2 DEF SlicesInv
<1>6. RunInv' /\ SplitInv'
  BY <1>1 DEF RunInv, SplitInv, Planned
<1>7. CASE run = NoRun
  <2>1. pending' = pending /\ run' = run
    BY <1>1, <1>7
  <2>2. TypeOK'
    BY <1>1, <1>2, <2>1, SameInput DEF TypeOK, Legal, Words, IsRegister, Reads
  <2>3. CoverInv'
    BY <1>1, <1>2, <1>4, <2>1, SameInput DEF CoverInv, Spans
  <2>4. PendingInv'
    BY <1>1, <1>2, <2>1, SameInput DEF PendingInv
  <2> QED
    BY <1>5, <1>6, <2>2, <2>3, <2>4 DEF IInv
<1>8. CASE run # NoRun
  <2>1. pending' = Append(pending, run)
    BY <1>1, <1>8
  <2>2. /\ pending' \in Seq(Intervals)
        /\ Len(pending') = Len(pending) + 1
        /\ \A i \in 1..Len(pending) : pending'[i] = pending[i]
        /\ pending'[Len(pending) + 1] = run
        /\ Len(pending) \in Nat
        /\ DOMAIN pending = 1..Len(pending)
        /\ DOMAIN pending' = 1..Len(pending) + 1
    BY <1>2, <2>1, AppendProperties, LenProperties DEF TypeOK
  <2>3. TypeOK'
    BY <1>1, <1>2, <1>3, <2>2, SameInput DEF TypeOK, Legal, Words, IsRegister, Reads
  <2>4. Spans(pending') = Spans(pending) \cup Span(run)
    BY <1>2, <2>1, SpansAppend DEF TypeOK
  <2>5. Addresses = Span(run) \cup Spans(pending) /\ Spans(slices) = {}
    BY <1>1, <1>2 DEF CoverInv, Spans
  <2>6. CoverInv'
    <3>1. Span(run)' = {} /\ Spans(pending)' = Spans(pending')
      BY <1>1, <1>3 DEF Span, Spans
    <3> QED
      BY <1>1, <1>4, <2>4, <2>5, <3>1, SameInput DEF CoverInv
  <2>7. run \in Intervals /\ \A i \in DOMAIN pending : pending[i] \in Intervals
    BY <1>2, ElementOfSeq, LenProperties DEF TypeOK
  <2>8. run.stop \notin Addresses
    <3>1. run.stop \notin Span(run)
      BY <2>7 DEF Span, Intervals
    <3>2. ASSUME NEW i \in DOMAIN pending PROVE run.stop \notin Span(pending[i])
      BY <1>2, <1>8, <2>7 DEF Span, Intervals
    <3> QED
      BY <2>5, <3>1, <3>2 DEF Spans
  <2>9. Proper(run)
    BY <1>2, <1>8, <2>8, NoStartIsSecond DEF Proper
  <2>10. PendingInv'
    <3> SUFFICES ASSUME NEW i \in 1..Len(pending) + 1
                 PROVE  /\ Proper(pending'[i])
                        /\ pending'[i].stop \notin Addresses
                        /\ \A j \in 1..Len(pending) + 1 :
                             i < j => pending'[i].stop < pending'[j].start
      BY <1>1, <2>2, SameInput DEF PendingInv
    <3>1. CASE i \in 1..Len(pending)
      <4>1. pending'[i] = pending[i] /\ pending[i].stop < run.start
        BY <1>2, <1>8, <2>2, <3>1
      <4>2. ASSUME NEW j \in 1..Len(pending) + 1, i < j PROVE pending[i].stop < pending'[j].start
        <5>1. CASE j \in 1..Len(pending)
          BY <1>2, <2>2, <3>1, <4>2, <5>1 DEF PendingInv
        <5>2. CASE j = Len(pending) + 1
          BY <2>2, <4>1, <5>2
        <5>3. j \in 1..Len(pending) \/ j = Len(pending) + 1
          BY <2>2
        <5> QED
          BY <5>1, <5>2, <5>3
      <4> QED
        BY <1>2, <2>2, <3>1, <4>1, <4>2 DEF PendingInv
    <3>2. CASE i = Len(pending) + 1
      BY <2>2, <2>8, <2>9, <3>2
    <3>3. i \in 1..Len(pending) \/ i = Len(pending) + 1
      BY <2>2
    <3> QED
      BY <3>1, <3>2, <3>3
  <2> QED
    BY <1>5, <1>6, <2>3, <2>6, <2>10 DEF IInv
<1> QED
  BY <1>7, <1>8

-----------------------------------------------------------------------------
(* A slice has the addresses of its interval and serves their components.  *)
LEMMA SliceIs ==
  ASSUME NEW i \in Intervals
  PROVE  /\ Slice(i) \in Reads
         /\ Slice(i).start = i.start /\ Slice(i).stop = i.stop
         /\ Slice(i).components = Serves(Slice(i))
         /\ Span(Slice(i)) = Span(i)
         /\ Proper(i) => Proper(Slice(i))
<1>1. Slice(i).start = i.start /\ Slice(i).stop = i.stop /\ Slice(i).components = Serves(i)
  BY DEF Slice
<1>2. Span(Slice(i)) = Span(i)
  BY <1>1 DEF Span
<1>3. Serves(Slice(i)) = Serves(i)
  BY <1>2 DEF Serves
<1>4. Serves(i) \subseteq {r.key : r \in registers}
  BY DEF Serves
<1>5. Slice(i) \in Reads
  BY <1>4 DEF Slice, Reads, Intervals
<1> QED
  BY <1>1, <1>2, <1>3, <1>5 DEF Proper

(* Appending a slice that lies between the others and what is pending.     *)
LEMMA SliceAppended ==
  ASSUME IInv, UNCHANGED <<registers, max>>,
         NEW i \in Intervals, Proper(i), i.stop - i.start <= max,
         slices' = Append(slices, Slice(i)),
         \A j \in DOMAIN slices : slices[j].stop <= i.start,
         \A j \in DOMAIN pending' : pending'[j] \in Intervals /\ i.stop <= pending'[j].start,
         \A r \in registers : r.address = i.stop => i.stop - i.start + r.width > max
  PROVE  /\ slices' \in Seq(Reads)
         /\ SlicesInv'
         /\ Spans(slices') = Spans(slices) \cup Span(i)
<1>1. slices \in Seq(Reads) /\ SlicesInv /\ Slice(i) \in Reads
  BY SliceIs DEF IInv, TypeOK
<1>2. /\ slices' \in Seq(Reads)
      /\ \A j \in 1..Len(slices) : slices'[j] = slices[j]
      /\ slices'[Len(slices) + 1] = Slice(i)
      /\ Len(slices) \in Nat
      /\ DOMAIN slices = 1..Len(slices)
      /\ Len(slices') = Len(slices) + 1
  BY <1>1, AppendProperties, LenProperties
<1>3. DOMAIN slices' = DOMAIN slices \cup {Len(slices) + 1}
  BY <1>2, LenProperties
<1>4. Spans(slices') = Spans(slices) \cup Span(i)
  BY <1>1, SpansAppend, SliceIs
<1>5. /\ Slice(i).start = i.start /\ Slice(i).stop = i.stop
      /\ Slice(i).components = Serves(Slice(i))
      /\ Proper(Slice(i))
  BY SliceIs
<1>6. \A j \in DOMAIN slices : /\ slices[j].start \in Nat /\ slices[j].stop \in Nat
                               /\ slices'[j] = slices[j]
  <2>1. \A j \in DOMAIN slices : slices[j] \in Reads
    BY <1>1, <1>2, ElementOfSeq
  <2> QED
    BY <1>2, <2>1 DEF Reads
<1>7. SlicesInv'
  <2> SUFFICES ASSUME NEW k \in DOMAIN slices'
               PROVE  /\ Proper(slices'[k])
                      /\ slices'[k].stop - slices'[k].start <= max
                      /\ slices'[k].components = Serves(slices'[k])
                      /\ \A j \in DOMAIN slices' : k < j => slices'[k].stop <= slices'[j].start
                      /\ \A j \in DOMAIN pending' : slices'[k].stop <= pending'[j].start
                      /\ \A r \in registers : r.address = slices'[k].stop =>
                           slices'[k].stop - slices'[k].start + r.width > max
    BY SameInput DEF SlicesInv
  <2>1. CASE k \in DOMAIN slices
    <3>1. \A j \in DOMAIN slices' : k < j => slices'[k].stop <= slices'[j].start
      <4>1. \A j \in DOMAIN slices : k < j => slices'[k].stop <= slices'[j].start
        BY <1>1, <1>6, <2>1 DEF SlicesInv
      <4> QED
        BY <1>2, <1>3, <1>5, <1>6, <2>1, <4>1
    <3>2. \A j \in DOMAIN pending' : slices'[k].stop <= pending'[j].start
      <4>1. slices[k].stop <= i.start /\ i.start < i.stop
        BY <2>1 DEF Proper
      <4> QED
        BY <1>6, <2>1, <4>1 DEF Intervals
    <3>3. /\ Proper(slices[k])
          /\ slices[k].stop - slices[k].start <= max
          /\ slices[k].components = Serves(slices[k])
          /\ \A r \in registers : r.address = slices[k].stop =>
               slices[k].stop - slices[k].start + r.width > max
      BY <1>1, <2>1 DEF SlicesInv
    <3> QED
      BY <1>6, <2>1, <3>1, <3>2, <3>3
  <2>2. CASE k = Len(slices) + 1
    <3>1. \A j \in DOMAIN slices' : ~ (k < j)
      BY <1>2, <1>3, <2>2
    <3> QED
      BY <1>2, <1>5, <2>2, <3>1
  <2> QED
    BY <1>3, <2>1, <2>2
<1> QED
  BY <1>2, <1>4, <1>7

(* _split(): a turn moves a piece of the first pending run to the slices.  *)
LEMMA SplitKeeps == IInv /\ Split => IInv'
<1> SUFFICES ASSUME IInv, Split PROVE IInv'
  OBVIOUS
<1> DEFINE p == pending[1]
<1>1. PICK cut \in 0 .. p.stop :
        /\ CutsAt(p, cut)
        /\ slices' = Append(slices, Slice(Interval(p.start, cut)))
        /\ pending' = [pending EXCEPT ![1].start = cut]
  BY DEF Split
<1>2. /\ phase = "split" /\ pending # <<>> /\ Long(p)
      /\ UNCHANGED <<registers, max, phase, left, run>>
  BY DEF Split
<1>3. /\ TypeOK /\ CoverInv /\ PendingInv /\ SlicesInv
      /\ left = {} /\ run = NoRun
  BY <1>2 DEF IInv, SplitInv
<1>4. /\ pending \in Seq(Intervals) /\ 1 \in DOMAIN pending /\ DOMAIN pending \subseteq Nat
      /\ \A j \in DOMAIN pending : pending[j] \in Intervals /\ j >= 1
  BY <1>2, <1>3, ElementOfSeq, LenProperties, EmptySeq DEF TypeOK
<1>5. p \in Intervals /\ p.start \in Nat /\ p.stop \in Nat /\ Proper(p) /\ cut \in Nat
  BY <1>1, <1>3, <1>4 DEF PendingInv, Intervals
<1>6. /\ p.start < cut /\ cut < p.stop /\ cut - p.start <= max
      /\ cut \notin NoStart
      /\ \A r \in registers : r.address = cut => cut - p.start + r.width > max
  BY <1>1, <1>2, <1>3, <1>5, CutMovesOn
<1>7. /\ pending' \in Seq(Intervals)
      /\ DOMAIN pending' = DOMAIN pending
      /\ pending'[1] = Interval(cut, p.stop)
      /\ \A j \in DOMAIN pending : j # 1 => pending'[j] = pending[j]
      /\ Spans(pending) = Span(Interval(p.start, cut)) \cup Spans(pending')
  <2>1. pending[1].start <= cut /\ cut <= pending[1].stop
    BY <1>5, <1>6
  <2>2. pending' = [pending EXCEPT ![1].start = cut]
    BY <1>1
  <2> QED
    BY <1>2, <1>4, <1>5, <2>1, <2>2, SpansCut
<1>8. \A j \in DOMAIN pending : j # 1 => p.stop < pending[j].start
  BY <1>3, <1>4 DEF PendingInv
<1> DEFINE i == Interval(p.start, cut)
<1>9. i \in Intervals /\ i.start = p.start /\ i.stop = cut /\ Proper(i)
  BY <1>5, <1>6 DEF Interval, Intervals, Proper
<1>10. \A j \in DOMAIN pending' : pending'[j] \in Intervals /\ cut <= pending'[j].start
  <2> SUFFICES ASSUME NEW j \in DOMAIN pending
               PROVE  pending'[j] \in Intervals /\ cut <= pending'[j].start
    BY <1>7
  <2>1. CASE j = 1
    BY <1>5, <1>7, <2>1 DEF Interval, Intervals
  <2>2. CASE j # 1
    BY <1>4, <1>5, <1>6, <1>7, <1>8, <2>2 DEF Intervals
  <2> QED
    BY <2>1, <2>2
<1>11. \A j \in DOMAIN slices : slices[j].stop <= p.start
  BY <1>3, <1>4 DEF SlicesInv
<1>12. /\ slices' \in Seq(Reads)
       /\ SlicesInv'
       /\ Spans(slices') = Spans(slices) \cup Span(i)
  <2> HIDE DEF p
  <2>1. slices' = Append(slices, Slice(i))
    BY <1>1
  <2> HIDE DEF i
  <2> QED
    BY <1>2, <1>6, <1>9, <1>10, <1>11, <2>1, SliceAppended
<1>13. TypeOK'
  BY <1>2, <1>3, <1>7, <1>12, SameInput DEF TypeOK, Legal, Words, IsRegister, Reads
<1>14. CoverInv'
  <2>1. Spans(pending)' = Spans(pending') /\ Spans(slices)' = Spans(slices') /\ Span(run)' = Span(run)
    BY <1>2 DEF Spans, Span
  <2> QED
    BY <1>2, <1>3, <1>7, <1>12, <2>1, SameInput DEF CoverInv
<1>15. PendingInv'
  <2> SUFFICES ASSUME NEW j \in DOMAIN pending
               PROVE  /\ Proper(pending'[j])
                      /\ pending'[j].stop \notin Addresses
                      /\ \A k \in DOMAIN pending : j < k => pending'[j].stop < pending'[k].start
    BY <1>2, <1>7, SameInput DEF PendingInv
  <2>1. pending'[j].stop = pending[j].stop
    BY <1>7 DEF Interval
  <2>2. Proper(pending'[j])
    <3>1. CASE j = 1
      BY <1>3, <1>4, <1>6, <1>7, <3>1 DEF Proper, Interval, PendingInv
    <3>2. CASE j # 1
      BY <1>3, <1>7, <3>2 DEF PendingInv
    <3> QED
      BY <3>1, <3>2
  <2>3. ASSUME NEW k \in DOMAIN pending, j < k PROVE pending'[j].stop < pending'[k].start
    <3>1. k # 1
      BY <1>4, <2>3
    <3> QED
      BY <1>3, <1>7, <2>1, <2>3, <3>1 DEF PendingInv
  <2> QED
    BY <1>3, <2>1, <2>2, <2>3 DEF PendingInv
<1>16. RunInv' /\ SplitInv'
  BY <1>2, <1>3 DEF RunInv, SplitInv, Planned
<1> QED
  BY <1>12, <1>13, <1>14, <1>15, <1>16 DEF IInv

(* _split(): the end of a run is a slice; no declared address follows it.  *)
LEMMA FinishKeeps == IInv /\ Finish => IInv'
<1> SUFFICES ASSUME IInv, Finish PROVE IInv'
  OBVIOUS
<1> DEFINE p == pending[1]
<1>1. /\ phase = "split" /\ pending # <<>> /\ ~ Long(p)
      /\ slices' = Append(slices, Slice(p)) /\ pending' = Tail(pending)
      /\ UNCHANGED <<registers, max, phase, left, run>>
  BY DEF Finish
<1>2. /\ TypeOK /\ CoverInv /\ PendingInv /\ SlicesInv
      /\ left = {} /\ run = NoRun
  BY <1>1 DEF IInv, SplitInv
<1>3. /\ pending' \in Seq(Intervals)
      /\ \A j \in 1..Len(pending') : pending'[j] = pending[j + 1]
      /\ DOMAIN pending' = 1..Len(pending) - 1
      /\ DOMAIN pending = 1..Len(pending)
      /\ Len(pending) \in Nat /\ Len(pending) >= 1
      /\ Len(pending') = Len(pending) - 1
  <2>1. pending \in Seq(Intervals)
    BY <1>2 DEF TypeOK
  <2>2. /\ Tail(pending) \in Seq(Intervals)
        /\ Len(Tail(pending)) = Len(pending) - 1
        /\ \A j \in 1..Len(Tail(pending)) : Tail(pending)[j] = pending[j + 1]
    BY <1>1, <2>1, HeadTailProperties
  <2>3. Len(pending) \in Nat /\ Len(pending) # 0 /\ DOMAIN pending = 1..Len(pending)
    BY <1>1, <2>1, LenProperties, EmptySeq
  <2>4. DOMAIN Tail(pending) = 1..Len(Tail(pending))
    BY <2>2, LenProperties
  <2> QED
    BY <1>1, <2>2, <2>3, <2>4
<1>4. \A j \in DOMAIN pending : pending[j] \in Intervals
  BY <1>2, <1>3, ElementOfSeq DEF TypeOK
<1>5. 1 \in DOMAIN pending /\ p \in Intervals /\ Proper(p) /\ p.stop \notin Addresses
  BY <1>2, <1>3, <1>4 DEF PendingInv
<1>6. \A j \in DOMAIN pending' : /\ j + 1 \in DOMAIN pending /\ pending'[j] = pending[j + 1]
                                 /\ pending'[j] \in Intervals /\ p.stop < pending'[j].start
  <2> SUFFICES ASSUME NEW j \in 1..Len(pending) - 1
               PROVE  /\ j + 1 \in DOMAIN pending /\ pending'[j] = pending[j + 1]
                      /\ pending'[j] \in Intervals /\ p.stop < pending'[j].start
    BY <1>3
  <2>1. j + 1 \in DOMAIN pending /\ 1 < j + 1 /\ pending'[j] = pending[j + 1]
    BY <1>3
  <2> QED
    BY <1>2, <1>4, <1>5, <2>1 DEF PendingInv
<1>7. p.stop - p.start <= max
  BY <1>1, <1>2, <1>5, MaxCountsAssumption DEF Long, TypeOK, Intervals
<1>8. /\ slices' \in Seq(Reads)
      /\ SlicesInv'
      /\ Spans(slices') = Spans(slices) \cup Span(p)
  <2>1. \A r \in registers : r.address # p.stop
    BY <1>2, <1>5, WordsOf DEF Addresses, TypeOK
  <2>2. \A j \in DOMAIN slices : slices[j].stop <= p.start
    BY <1>2, <1>5 DEF SlicesInv
  <2>3. \A j \in DOMAIN pending' : pending'[j] \in Intervals /\ p.stop <= pending'[j].start
    BY <1>5, <1>6 DEF Intervals
  <2>4. slices' = Append(slices, Slice(p))
    BY <1>1
  <2> HIDE DEF p
  <2> QED
    BY <1>1, <1>5, <1>7, <2>1, <2>2, <2>3, <2>4, SliceAppended
<1>9. TypeOK'
  BY <1>1, <1>2, <1>3, <1>8, SameInput DEF TypeOK, Legal, Words, IsRegister, Reads
<1>10. CoverInv'
  <2>1. Spans(pending)' = Spans(pending') /\ Spans(slices)' = Spans(slices') /\ Span(run)' = Span(run)
    BY <1>1 DEF Spans, Span
  <2>2. Spans(pending) = Span(p) \cup Spans(pending')
    BY <1>1, <1>2, SpansTail DEF TypeOK
  <2> QED
    BY <1>1, <1>2, <1>8, <2>1, <2>2, SameInput DEF CoverInv
<1>11. PendingInv'
  <2> SUFFICES ASSUME NEW j \in DOMAIN pending'
               PROVE  /\ Proper(pending'[j])
                      /\ pending'[j].stop \notin Addresses
                      /\ \A k \in DOMAIN pending' : j < k => pending'[j].stop < pending'[k].start
    BY <1>1, SameInput DEF PendingInv
  <2>1. ASSUME NEW k \in DOMAIN pending', j < k PROVE pending'[j].stop < pending'[k].start
    <3>1. j + 1 < k + 1
      BY <1>3, <2>1
    <3> QED
      BY <1>2, <1>6, <3>1 DEF PendingInv
  <2> QED
    BY <1>2, <1>6, <2>1 DEF PendingInv
<1>12. RunInv' /\ SplitInv'
  BY <1>1, <1>2 DEF RunInv, SplitInv, Planned
<1> QED
  BY <1>8, <1>9, <1>10, <1>11, <1>12 DEF IInv

LEMMA ReturnKeeps == IInv /\ Return => IInv'
<1> SUFFICES ASSUME IInv, Return PROVE IInv'
  OBVIOUS
<1>1. /\ phase = "split" /\ pending = <<>> /\ phase' = "done"
      /\ UNCHANGED <<registers, max, left, run, pending, slices>>
  BY DEF Return
<1>2. TypeOK /\ CoverInv /\ PendingInv /\ SlicesInv /\ left = {} /\ run = NoRun
  BY <1>1 DEF IInv, SplitInv
<1>3. TypeOK'
  BY <1>1, <1>2, SameInput DEF TypeOK, Legal, Words, IsRegister, Reads
<1>4. CoverInv' /\ PendingInv' /\ SlicesInv'
  BY <1>1, <1>2, SameInput DEF CoverInv, PendingInv, SlicesInv, Span, Spans
<1>5. RunInv' /\ SplitInv'
  BY <1>1, <1>2 DEF RunInv, SplitInv, Planned
<1> QED
  BY <1>3, <1>4, <1>5 DEF IInv

LEMMA IdleKeeps == IInv /\ UNCHANGED vars => IInv'
<1> SUFFICES ASSUME IInv, UNCHANGED vars PROVE IInv'
  OBVIOUS
<1>1. UNCHANGED <<registers, max, phase, left, run, pending, slices>>
  BY DEF vars
<1>2. TypeOK'
  BY <1>1, SameInput DEF IInv, TypeOK, Legal, Words, IsRegister, Reads
<1>3. CoverInv' /\ PendingInv' /\ SlicesInv'
  BY <1>1, SameInput DEF IInv, CoverInv, PendingInv, SlicesInv, Span, Spans
<1>4. RunInv' /\ SplitInv'
  BY <1>1, SameInput DEF IInv, RunInv, SplitInv, Planned
<1> QED
  BY <1>2, <1>3, <1>4 DEF IInv

LEMMA StepIInv == IInv /\ [Next]_vars => IInv'
BY TakeAddressKeeps, RunsEndKeeps, SplitKeeps, FinishKeeps, ReturnKeeps, IdleKeeps DEF Next

-----------------------------------------------------------------------------
(* At every turn of the loops of plan() each declared address is in one    *)
(* place, and no piece begins or ends inside a register (planner.py:73-144).*)
THEOREM Invariance == Spec => []IInv
<1> QED
  BY InitIInv, StepIInv, PTL DEF Spec

(* Once planned, everything is in the slices.                              *)
LEMMA AllInSlices ==
  ASSUME IInv, Planned
  PROVE  Addresses = Spans(slices) /\ SlicesInv /\ Legal(registers)
<1>1. left = {} /\ run = NoRun /\ pending = <<>>
  BY DEF IInv, SplitInv, Planned
<1>2. Span(run) = {} /\ Spans(pending) = {}
  BY <1>1 DEF Span, Spans, NoRun, Interval
<1> QED
  BY <1>1, <1>2 DEF IInv, CoverInv, TypeOK

LEMMA SlicesAreReads ==
  ASSUME IInv, NEW i \in DOMAIN slices
  PROVE  slices[i] \in Reads /\ slices[i].start \in Nat /\ slices[i].stop \in Nat
<1>1. slices \in Seq(Reads)
  BY DEF IInv, TypeOK
<1>2. slices[i] \in Reads
  BY <1>1, ElementOfSeq, LenProperties
<1> QED
  BY <1>2 DEF Reads

(* A register that has a word in a slice has all of them in it.            *)
LEMMA WholeIfTouched ==
  ASSUME IInv, Planned, NEW i \in DOMAIN slices, NEW r \in registers,
         Words(r) \cap Span(slices[i]) # {}
  PROVE  Words(r) \subseteq Span(slices[i])
<1>1. Legal(registers) /\ Proper(slices[i])
  BY AllInSlices DEF SlicesInv
<1>2. slices[i].start \in Nat /\ slices[i].stop \in Nat
  BY SlicesAreReads
<1>3. r.address \in Nat
  BY <1>1, WordsOf
<1>4. CASE r.width = 1
  BY <1>1, <1>4, WordsOf
<1>5. CASE r.width = 2
  <2>1. Words(r) = {r.address, r.address + 1} /\ Words(r) \ {r.address} = {r.address + 1}
    BY <1>1, <1>3, <1>5, WordsOf
  <2>2. r.address + 1 \in NoStart
    BY <2>1 DEF NoStart
  <2>3. slices[i].start # r.address + 1 /\ slices[i].stop # r.address + 1
    BY <1>1, <2>2 DEF Proper
  <2>4. r.address \in Span(slices[i]) \/ r.address + 1 \in Span(slices[i])
    BY <2>1
  <2> QED
    BY <1>2, <1>3, <2>1, <2>3, <2>4 DEF Span
<1> QED
  BY <1>1, <1>4, <1>5, WordsOf

(* The reads of a plan carry every declared address once, and no other: no *)
(* read spans an address the firmware does not map (planner.py:73-81).     *)
THEOREM EveryAddressOnce == Spec => []ReadsCover
<1>1. IInv => ReadsCover
  BY AllInSlices DEF ReadsCover, SlicesInv, Spans
<1> QED
  BY <1>1, Invariance, PTL

(* No plan reads half of a register (planner.py:83-85).                    *)
THEOREM NoHalfRegister == Spec => []RegistersWhole
<1>1. IInv => RegistersWhole
  <2> SUFFICES ASSUME IInv, Planned, NEW r \in registers
               PROVE  \E i \in DOMAIN slices : Words(r) \subseteq Span(slices[i])
    BY DEF RegistersWhole
  <2>1. r.address \in Words(r) /\ r.address \in Addresses
    BY AllInSlices, WordsOf DEF Addresses
  <2>2. PICK i \in DOMAIN slices : r.address \in Span(slices[i])
    BY <2>1, AllInSlices DEF Spans
  <2> QED
    BY <2>1, <2>2, WholeIfTouched
<1> QED
  BY <1>1, Invariance, PTL

(* A refused read is blamed on the components whose registers it carries,  *)
(* all of each, and on no other (planner.py:30-32, client.py:161-166).     *)
THEOREM BlameIsExact == Spec => []BlameExact
<1>1. IInv => BlameExact
  <2> SUFFICES ASSUME IInv, Planned, NEW i \in DOMAIN slices
               PROVE  slices[i].components =
                        {r.key : r \in {s \in registers : Words(s) \subseteq Span(slices[i])}}
    BY DEF BlameExact
  <2>1. slices[i].components =
          {r.key : r \in {s \in registers : Words(s) \cap Span(slices[i]) # {}}}
    BY AllInSlices DEF SlicesInv, Serves
  <2>2. ASSUME NEW s \in registers
        PROVE  Words(s) \cap Span(slices[i]) # {} <=> Words(s) \subseteq Span(slices[i])
    BY AllInSlices, WordsOf, WholeIfTouched
  <2> QED
    BY <2>1, <2>2
<1> QED
  BY <1>1, Invariance, PTL

(* The controller accepts the length of every read (const.py).             *)
THEOREM ReadsFit == Spec => []ReadsAcceptable
<1>1. IInv => ReadsAcceptable
  <2> SUFFICES ASSUME IInv, Planned, NEW i \in DOMAIN slices
               PROVE  slices[i].stop - slices[i].start \in 1..max
    BY DEF ReadsAcceptable
  <2>1. slices[i].start < slices[i].stop /\ slices[i].stop - slices[i].start <= max
    BY AllInSlices DEF SlicesInv, Proper
  <2>2. max \in Nat
    BY MaxCountsAssumption DEF IInv, TypeOK
  <2> QED
    BY <2>1, <2>2, SlicesAreReads
<1> QED
  BY <1>1, Invariance, PTL

(* A read ends at a gap or where the next register did not fit, so that a  *)
(* refresh needs no request it could save (planner.py:80-81).              *)
THEOREM NoReadSaved == Spec => []ReadsAreLong
<1>1. IInv => ReadsAreLong
  BY AllInSlices DEF ReadsAreLong, SlicesInv
<1> QED
  BY <1>1, Invariance, PTL

-----------------------------------------------------------------------------
(* What is declared is finite, and so there are finitely many turns left.  *)
LEMMA FinitelyMany ==
  ASSUME registers \in Inputs
  PROVE  IsFiniteSet(Addresses)
<1> DEFINE pieces == {Words(r) : r \in registers}
           f == [r \in registers |-> Words(r)]
<1>1. IsFiniteSet(registers) /\ Legal(registers)
  BY FiniteAssumption, InputsAssumption
<1>2. f \in Surjection(registers, pieces)
  BY DEF Surjection
<1>3. IsFiniteSet(pieces)
  BY <1>1, <1>2, FS_Surjection
<1>4. \A piece \in pieces : IsFiniteSet(piece)
  <2> SUFFICES ASSUME NEW r \in registers PROVE IsFiniteSet(Words(r))
    OBVIOUS
  <2>1. r.address \in Int /\ r.address + r.width - 1 \in Int
    BY <1>1, WordsOf
  <2> QED
    BY <2>1, FS_Interval DEF Words
<1> HIDE DEF pieces
<1>5. IsFiniteSet(UNION pieces)
  BY <1>3, <1>4, FS_UNION
<1> QED
  BY <1>5 DEF Addresses, pieces

LEMMA Countable ==
  ASSUME registers \in Inputs, IInv
  PROVE  /\ IsFiniteSet(left) /\ Cardinality(left) \in Nat
         /\ IsFiniteSet(Unread) /\ Cardinality(Unread) \in Nat
<1>1. left \in SUBSET Addresses /\ Unread \in SUBSET Addresses
  BY DEF IInv, TypeOK, Unread
<1>2. IsFiniteSet(left) /\ IsFiniteSet(Unread)
  BY <1>1, FinitelyMany, FS_Subset
<1> QED
  BY <1>2, FS_CardinalityType

(* The first word that is pending is in no slice yet.                      *)
LEMMA FirstIsUnread ==
  ASSUME IInv, phase = "split", pending # <<>>
  PROVE  pending[1] \in Intervals /\ pending[1].start < pending[1].stop
         /\ pending[1].start \in Unread
<1> DEFINE p == pending[1]
<1>1. 1 \in DOMAIN pending /\ p \in Intervals
  BY ElementOfSeq, LenProperties, EmptySeq DEF IInv, TypeOK
<1>2. p.start < p.stop
  BY <1>1 DEF IInv, PendingInv, Proper
<1>3. p.start \in Span(p)
  BY <1>1, <1>2 DEF Span, Intervals
<1>4. p.start \in Addresses
  BY <1>1, <1>3 DEF IInv, CoverInv, Spans
<1>5. ASSUME NEW j \in DOMAIN slices PROVE p.start \notin Span(slices[j])
  <2>1. slices[j].stop <= p.start
    BY <1>1 DEF IInv, SlicesInv
  <2>2. slices[j].stop \in Nat
    BY SlicesAreReads
  <2> QED
    BY <1>1, <2>1, <2>2 DEF Span, Intervals
<1> QED
  BY <1>1, <1>2, <1>4, <1>5 DEF Unread, Spans

(* A slice more is at least one address less to read.                      *)
LEMMA SliceTakesOne ==
  ASSUME registers \in Inputs, IInv, IInv', UNCHANGED registers, phase = "split", phase' = phase,
         left' = left, NEW i \in Intervals, i.start < i.stop, i.start \in Unread,
         slices' = Append(slices, Slice(i))
  PROVE  Turns' \in Nat /\ Turns' < Turns
<1>1. Spans(slices') = Spans(slices) \cup Span(i)
  BY SpansAppend, SliceIs DEF IInv, TypeOK
<1>2. i.start \in Span(i)
  BY DEF Span, Intervals
<1>3. Unread' = Unread \ Span(i)
  <2>1. Addresses' = Addresses /\ Spans(slices)' = Spans(slices')
    BY DEF Addresses, Words, Spans, Span
  <2> QED
    BY <1>1, <2>1 DEF Unread
<1>4. IsFiniteSet(Unread) /\ Cardinality(Unread) \in Nat /\ Cardinality(left) \in Nat
  BY Countable
<1>5. Unread' \in SUBSET Unread /\ Unread' # Unread
  BY <1>2, <1>3
<1>6. /\ IsFiniteSet(Unread') /\ Cardinality(Unread') <= Cardinality(Unread)
      /\ Cardinality(Unread') # Cardinality(Unread)
  BY <1>4, <1>5, FS_Subset
<1>7. Cardinality(Unread') \in Nat
  BY <1>6, FS_CardinalityType
<1>8. /\ Turns = Cardinality(left) + Cardinality(Unread) + 1
      /\ Turns' = Cardinality(left) + Cardinality(Unread') + 1
  BY DEF Turns
<1> QED
  BY <1>4, <1>6, <1>7, <1>8

LEMMA TurnMovesOn ==
  ASSUME registers \in Inputs, IInv, IInv', Next
  PROVE  Turns' \in Nat /\ Turns' < Turns
<1>1. /\ IsFiniteSet(left) /\ Cardinality(left) \in Nat
      /\ IsFiniteSet(Unread) /\ Cardinality(Unread) \in Nat
  BY Countable
<1>2. CASE TakeAddress
  <2>1. PICK a \in left : left' = left \ {a}
    BY <1>2 DEF TakeAddress
  <2>2. phase = "runs" /\ phase' = "runs" /\ registers' = registers /\ slices' = slices
    BY <1>2 DEF TakeAddress
  <2>3. Cardinality(left') = Cardinality(left) - 1 /\ IsFiniteSet(left')
    BY <1>1, <2>1, FS_RemoveElement
  <2>4. Cardinality(left') \in Nat
    BY <2>3, FS_CardinalityType
  <2>5. Unread' = Unread
    BY <2>2 DEF Unread, Addresses, Words, Spans, Span
  <2>6. /\ Turns = Cardinality(left) + Cardinality(Unread) + 2
        /\ Turns' = Cardinality(left') + Cardinality(Unread) + 2
    BY <2>2, <2>5 DEF Turns
  <2> QED
    BY <1>1, <2>3, <2>4, <2>6
<1>3. CASE RunsEnd \/ Return
  <2>1. left' = left /\ registers' = registers /\ slices' = slices
    BY <1>3 DEF RunsEnd, Return
  <2>2. (phase = "runs" /\ phase' = "split") \/ (phase = "split" /\ phase' = "done")
    BY <1>3 DEF RunsEnd, Return
  <2>3. Unread' = Unread
    BY <2>1 DEF Unread, Addresses, Words, Spans, Span
  <2>4. PICK l \in Nat, u \in Nat : /\ l = Cardinality(left) /\ u = Cardinality(Unread)
                                   /\ Turns' = l + u + (IF phase' = "split" THEN 1 ELSE 0)
                                   /\ Turns = l + u + (IF phase = "runs" THEN 2 ELSE 1)
    BY <1>1, <2>1, <2>2, <2>3 DEF Turns
  <2> QED
    BY <2>2, <2>4
<1>4. CASE Split
  <2> DEFINE p == pending[1]
  <2>1. PICK cut \in 0 .. p.stop : /\ CutsAt(p, cut)
                                   /\ slices' = Append(slices, Slice(Interval(p.start, cut)))
    BY <1>4 DEF Split
  <2>2. /\ phase = "split" /\ pending # <<>> /\ Long(p)
        /\ phase' = phase /\ left' = left /\ registers' = registers
    BY <1>4 DEF Split
  <2>3. p \in Intervals /\ p.start \in Unread /\ Proper(p) /\ cut \in Nat /\ TypeOK
    <3>1. p \in Intervals /\ p.start \in Unread
      BY <2>2, FirstIsUnread
    <3>2. 1 \in DOMAIN pending
      BY <2>2, LenProperties, EmptySeq DEF IInv, TypeOK
    <3> QED
      BY <3>1, <3>2 DEF IInv, PendingInv, Intervals
  <2> DEFINE i == Interval(p.start, cut)
  <2>4. p.start < cut
    <3> HIDE DEF p
    <3> QED
      BY <2>1, <2>2, <2>3, CutMovesOn
  <2>5. i \in Intervals /\ i.start < i.stop /\ i.start \in Unread
    BY <2>3, <2>4 DEF Interval, Intervals
  <2> HIDE DEF i
  <2>6. slices' = Append(slices, Slice(i))
    BY <2>1 DEF i
  <2> QED
    BY <2>2, <2>5, <2>6, SliceTakesOne
<1>5. CASE Finish
  <2>1. /\ phase = "split" /\ pending # <<>> /\ slices' = Append(slices, Slice(pending[1]))
        /\ phase' = phase /\ left' = left /\ registers' = registers
    BY <1>5 DEF Finish
  <2> QED
    BY <2>1, FirstIsUnread, SliceTakesOne
<1> QED
  BY <1>2, <1>3, <1>4, <1>5 DEF Next

LEMMA KeepsInput == registers \in Inputs /\ [Next]_vars => (registers \in Inputs)'
BY DEF Next, TakeAddress, RunsEnd, Split, Finish, Return, vars

(* The loops of plan() end, whatever is declared: no turn of theirs leaves *)
(* as many to go as there were (planner.py:120-142).                       *)
THEOREM LoopsMoveOn == Spec => EveryTurnMovesOn
<1>1. Init => registers \in Inputs
  BY DEF Init
<1>2. /\ registers \in Inputs /\ IInv /\ IInv' /\ [Next]_vars
      => [Turns' \in Nat /\ Turns' < Turns]_vars
  BY TurnMovesOn
<1>3. Spec => [](registers \in Inputs)
  BY <1>1, KeepsInput, PTL DEF Spec
<1> QED
  BY <1>2, <1>3, Invariance, PTL DEF Spec, EveryTurnMovesOn
=============================================================================
