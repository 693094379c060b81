--------------------------------- MODULE Codec ---------------------------------
(***************************************************************************)
(* Words on the wire to values and back (codec.py), without state.         *)
(*                                                                         *)
(* A value is None, a truth value, a member of an enumeration, or a number *)
(* n / per.  A scale is the reciprocal of a whole number, its `per`: 0.1   *)
(* is 10, and "no scale" is 1.  The code's binary floats are exact up to   *)
(* the rounding it does itself, but for ties, which may go either way.     *)
(***************************************************************************)
EXTENDS Integers, Sequences

Word == 65536
AWord == 0 .. Word - 1

Number(n, per) == [kind |-> "number", n |-> n, per |-> per]
Truth(n) == [kind |-> "bool", n |-> n, per |-> 1]
Member(n) == [kind |-> "member", n |-> n, per |-> 1]
None == [kind |-> "none", n |-> 0, per |-> 1]

(* Equal as Python compares them: 56 is 56.0.                              *)
SameValue(v, w) ==
  v.kind = w.kind /\ IF v.per = w.per THEN v.n = w.n ELSE v.n * w.per = w.n * v.per

(* The high word first, of a register's one word or two.                   *)
Assembled(high, words) == IF Len(words) = 1 THEN high ELSE high * Word + words[2]

Unsigned(words) == Assembled(words[1], words)

(* Two's complement over all the words: its sign is that of the first.     *)
Signed(words) ==
  Assembled(IF words[1] < Word \div 2 THEN words[1] ELSE words[1] - Word, words)

WordsToRaw(words, signed) == IF signed THEN Signed(words) ELSE Unsigned(words)

(* A negative number left as it is.                                        *)
RawToWordsUnmasked(raw, width) ==
  [i \in 1..width |-> IF i = width THEN raw ELSE raw \div Word]

(* \div and % round down, which makes this two's complement.               *)
RawToWords(raw, width) ==
  [i \in 1..width |-> (IF i = width THEN raw ELSE raw \div Word) % Word]

(* The sentinels are unsigned: 65535, not -1.                              *)
Marked(words, r) == r.sentinels # {} /\ Unsigned(words) \in r.sentinels

(* decode(), of a register r whose words carry units of 1 / per.           *)
Decode(words, r, per) ==
  LET raw == WordsToRaw(words, r.signed)
  IN IF Marked(words, r) THEN None
     ELSE CASE r.decodes = "bool" -> Truth(IF raw = 0 THEN 0 ELSE 1)
            [] r.decodes = "enum" -> IF raw \in r.members THEN Member(raw) ELSE None
            [] OTHER -> Number(raw, per)

-----------------------------------------------------------------------------
(* The whole numbers nearest to n / d.                                     *)
Nearest(n, d) == {q \in {n \div d, n \div d + 1} : 2 * (q * d - n) \in -d..d}

InBounds(r, v) ==
  r.bounds = <<>> \/ (r.bounds[1] * v.per <= v.n /\ v.n <= r.bounds[2] * v.per)

Raws(r, v) == IF r.decodes = "number" THEN Nearest(v.n * r.writePer, v.per) ELSE {v.n}

(* So many numbers can one word tell apart, and two.                       *)
Capacity(width) == IF width = 1 THEN Word ELSE Word * Word

(* Whatever so many words can hold.                                        *)
FitsWords(raw, r) == raw \in 0 .. Capacity(r.width) - 1
Fits(raw, r) ==
  IF r.signed THEN raw \in -(Capacity(r.width) \div 2) .. Capacity(r.width) \div 2 - 1
  ELSE raw \in 0 .. Capacity(r.width) - 1

Refused == <<>>

(* encode(): the words that may carry v in r, or ValueOutOfRangeError.     *)
Encodings(r, v) ==
  IF ~ InBounds(r, v) THEN {Refused}
  ELSE {IF Fits(raw, r) THEN RawToWords(raw, r.width) ELSE Refused : raw \in Raws(r, v)}
=============================================================================
