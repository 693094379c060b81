----------------------------- MODULE DetectProofs -----------------------------
(***************************************************************************)
(* A detection never builds a configuration that is refused, however oddly *)
(* it is answered; answered truly, it finds what the controller is; and it *)
(* keeps or closes the connection as promised.  For every controller, any  *)
(* number of components it may have and of odd answers.                    *)
(***************************************************************************)
EXTENDS DetectCall, TLAPS

(* The tables: where they begin and end, and what is in them.              *)
LEMMA MarkerVersions == /\ DOMAIN Markers = 1..8 /\ Len(Markers) = 8
                        /\ \A k \in DOMAIN Markers : Markers[k] \in Versions
BY DEF Markers, Versions

LEMMA OnceSteps ==
  /\ DOMAIN Once = {"generator", "singles"}
  /\ Once["generator"] = Generator /\ Once["singles"] = Single
BY DEF Once

LEMMA OnceLengths ==
  /\ DOMAIN Generator = 1..9 /\ Len(Generator) = 9
  /\ DOMAIN Single = 1..3 /\ Len(Single) = 3
BY DEF Generator, Single

LEMMA SweepOrder == \A c \in Repeated : AfterSweep(c) \in Steps \ {"marker"}
BY DEF AfterSweep, Repeated, Steps

LEMMA Begins == \A s \in Steps :
  /\ Start(s) \in [step : Steps, n : Nat \ {0}, again : BOOLEAN]
  /\ Start(s).step = s /\ Start(s).n = 1
BY DEF Start

LEMMA AheadOf ==
  /\ \A s \in {"marker", "circuit_block", "buffer_block", "heat_pump_block",
              "heating_circuits"} : Ahead(s) = Repeated
  /\ \A s \in {"generator", "chimney", "singles", "boilers"} :
       Ahead(s) = Repeated \ {"heating_circuits"}
  /\ Ahead("done") = {} /\ Ahead("raised") = {}
BY DEF Ahead, Repeated

LEMMA SweepMoves == \A c \in Repeated :
  /\ c \in Ahead(c)
  /\ Ahead(AfterSweep(c)) = Ahead(c) \ {c}
<1> TAKE c \in Repeated
<1>1. CASE c = "heating_circuits"
  BY <1>1 DEF Ahead, AfterSweep, Repeated
<1>2. CASE c = "boilers"
  BY <1>2 DEF Ahead, AfterSweep, Repeated
<1>3. CASE c = "buffers"
  BY <1>3 DEF Ahead, AfterSweep, Repeated
<1>4. CASE c = "circulations"
  BY <1>4 DEF Ahead, AfterSweep, Repeated
<1>5. CASE c = "fresh_water_modules"
  BY <1>5 DEF Ahead, AfterSweep, Repeated
<1>6. CASE c = "solar"
  BY <1>6 DEF Ahead, AfterSweep, Repeated
<1> QED
  BY <1>1, <1>2, <1>3, <1>4, <1>5, <1>6 DEF Repeated

LEMMA MaxCountIsPositive == \A c \in Repeated : MaxCount[c] \in Nat \ {0}
BY MaxCountAssumption DEF Components

(* A run that begins its next step at the first place of it keeps the      *)
(* bound, if it keeps the counts and no sweep comes to an end or is left   *)
(* out.                                                                    *)
LEMMA StartKeeps ==
  ASSUME IInv, NEW t \in Steps, at' = Start(t), t # "marker",
         at.step \notin Repeated, Ahead(t) = Ahead(at.step),
         found'.counts = found.counts
  PROVE  SweepInv'
<1>1. at'.step = t /\ at'.n = 1
  BY Begins
<1>2. t \in DOMAIN Once => at'.n \in DOMAIN Once[t]
  BY <1>1, OnceSteps, OnceLengths
<1>3. t \in Repeated => at'.n <= MaxCount[t]
  BY <1>1, MaxCountIsPositive
<1>4. ASSUME NEW c \in Repeated
      PROVE  found'.counts[c] <= SoFar(c)'
  <2>1. found.counts[c] <= (IF c \in Ahead(at.step) THEN 0 ELSE MaxCount[c])
    BY <1>4 DEF IInv, SweepInv, SoFar
  <2>2. SoFar(c)' = IF c \in Ahead(t) THEN 0 ELSE MaxCount[c]
    BY <1>1, SweepMoves DEF SoFar
  <2> QED
    BY <2>1, <2>2
<1> QED
  BY <1>1, <1>2, <1>3, <1>4 DEF SweepInv

(* So does one that stays in its step, which is no sweep.                  *)
LEMMA StayKeeps ==
  ASSUME IInv, at'.step = at.step, at.step \notin Repeated,
         at.step = "marker" => at'.n \in DOMAIN Markers,
         at.step \in DOMAIN Once => at'.n \in DOMAIN Once[at.step],
         found'.counts = found.counts
  PROVE  SweepInv'
<1>1. \A c \in Repeated : SoFar(c)' = SoFar(c)
  BY DEF SoFar
<1> QED
  BY <1>1 DEF IInv, SweepInv

LEMMA InitInv == Init => IInv
<1> SUFFICES ASSUME Init PROVE IInv
  OBVIOUS
<1>1. at.step = "marker" /\ at.n = 1 /\ at \in [step : Steps, n : Nat \ {0}, again : BOOLEAN]
  BY Begins DEF Init, Steps, Exists
<1>2. TypeOK
  BY <1>1, MaxOddAssumption DEF Init, TypeOK, NoFinding, Findings, Versions, Systems
<1>3. \A c \in Repeated : found.counts[c] = 0 /\ SoFar(c) = 0
  <2>1. Ahead("marker") = Repeated /\ "marker" \notin Repeated
    BY AheadOf DEF Repeated
  <2>2. \A c \in Repeated : found.counts[c] = 0
    BY DEF Init, NoFinding
  <2> QED
    BY <1>1, <2>1, <2>2 DEF SoFar
<1>4. SweepInv
  BY <1>1, <1>3, MarkerVersions, OnceSteps DEF SweepInv, Repeated
<1> QED
  BY <1>2, <1>4 DEF IInv

(* What the probes leave alone, and what they can say.                     *)
LEMMA OddStays == ASSUME TypeOK, Refuses PROVE odd' \in 0..MaxOdd
BY MaxOddAssumption DEF TypeOK, Refuses

LEMMA TellsStays == ASSUME TypeOK, NEW yes \in BOOLEAN, TellsWhether(yes)
                    PROVE  odd' \in 0..MaxOdd
BY OddStays DEF TypeOK, TellsWhether

LEMMA AnswersStay == ASSUME TypeOK, NEW words, NEW S, Answers(words, S)
                     PROVE  odd' \in 0..MaxOdd
BY MaxOddAssumption DEF TypeOK, Answers

(* The steps, in groups that keep the invariant for the same reason.       *)
LEMMA AskForTwoStep == IInv /\ AskForTwo => IInv'
<1> SUFFICES ASSUME IInv, AskForTwo PROVE IInv'
  OBVIOUS
<1>1. TypeOK'
  BY OddStays DEF IInv, TypeOK, AskForTwo
<1>2. at'.step = at.step /\ at'.n = at.n /\ found' = found
  BY DEF IInv, TypeOK, AskForTwo
<1>3. SweepInv'
  BY <1>2 DEF IInv, SweepInv, SoFar
<1> QED
  BY <1>1, <1>3 DEF IInv

LEMMA MarkerStep == IInv /\ Marker => IInv'
<1> SUFFICES ASSUME IInv, Marker PROVE IInv'
  OBVIOUS
<1>1. /\ at.step = "marker" /\ at.step \notin Repeated /\ at.step \notin DOMAIN Once
      /\ at.n \in 1..8 /\ Markers[at.n] \in Versions
  BY MarkerVersions, OnceSteps DEF IInv, SweepInv, Marker, Repeated
<1>2. "circuit_block" \in Steps /\ Ahead("circuit_block") = Ahead("marker")
  BY AheadOf DEF Steps, Exists
<1>3. real' = real /\ odd' \in 0..MaxOdd
  BY TellsStays DEF IInv, Marker
<1>4. found' = [found EXCEPT !.version = Markers[at.n]] \/ found' = found
  BY DEF Marker
<1>5. CASE at' = Start("circuit_block")
  <2>1. found' \in Findings /\ found'.counts = found.counts
    BY <1>1, <1>4 DEF IInv, TypeOK, Findings
  <2>2. TypeOK'
    BY <1>2, <1>3, <1>5, <2>1, Begins DEF IInv, TypeOK
  <2> QED
    BY <1>1, <1>2, <1>5, <2>1, <2>2, StartKeeps DEF IInv
<1>6. CASE at.n < Len(Markers) /\ at' = [Start("marker") EXCEPT !.n = at.n + 1] /\ UNCHANGED found
  <2>1. at'.step = "marker" /\ at'.n = at.n + 1 /\ at'.n \in 1..8
    BY <1>1, <1>6, MarkerVersions DEF Start
  <2>2. at' \in [step : Steps, n : Nat \ {0}, again : BOOLEAN]
    <3>1. at' = [step |-> "marker", n |-> at.n + 1, again |-> FALSE]
      BY <1>6 DEF Start
    <3>2. "marker" \in Steps /\ at.n + 1 \in Nat \ {0}
      BY <1>1 DEF Steps, Exists
    <3> QED
      BY <3>1, <3>2
  <2>3. TypeOK'
    BY <1>6, <1>3, <2>2 DEF IInv, TypeOK
  <2> QED
    BY <1>1, <1>6, <2>1, <2>3, MarkerVersions, StayKeeps DEF IInv
<1> QED
  BY <1>5, <1>6 DEF Marker

LEMMA BlockSteps == IInv /\ (CircuitBlock \/ BufferBlock \/ HeatPumpBlock) => IInv'
<1>1. ASSUME IInv, CircuitBlock PROVE IInv'
  <2>1. /\ "buffer_block" \in Steps /\ Ahead("buffer_block") = Ahead("circuit_block")
        /\ "circuit_block" \notin Repeated
    BY AheadOf DEF Steps, Exists, Repeated
  <2>2. PICK yes \in BOOLEAN :
          /\ at.step = "circuit_block" /\ TellsWhether(yes)
          /\ found' = [found EXCEPT !.offset["heating_circuits"] = IF yes THEN 7 ELSE 6]
          /\ at' = Start("buffer_block")
          /\ UNCHANGED real
    BY <1>1 DEF CircuitBlock
  <2>3. found' \in Findings /\ found'.counts = found.counts
    BY <1>1, <2>2 DEF IInv, TypeOK, Findings
  <2>4. TypeOK'
    BY <1>1, <2>1, <2>2, <2>3, Begins, TellsStays DEF IInv, TypeOK
  <2> QED
    BY <1>1, <2>1, <2>2, <2>3, <2>4, StartKeeps DEF IInv
<1>2. ASSUME IInv, BufferBlock PROVE IInv'
  <2>1. /\ "heat_pump_block" \in Steps /\ Ahead("heat_pump_block") = Ahead("buffer_block")
        /\ "buffer_block" \notin Repeated
    BY AheadOf DEF Steps, Exists, Repeated
  <2>2. PICK yes \in BOOLEAN :
          /\ at.step = "buffer_block" /\ TellsWhether(yes)
          /\ found' = [found EXCEPT !.offset["buffers"] = IF yes THEN 4 ELSE 3]
          /\ at' = Start("heat_pump_block")
          /\ UNCHANGED real
    BY <1>2 DEF BufferBlock
  <2>3. found' \in Findings /\ found'.counts = found.counts
    BY <1>2, <2>2 DEF IInv, TypeOK, Findings
  <2>4. TypeOK'
    BY <1>2, <2>1, <2>2, <2>3, Begins, TellsStays DEF IInv, TypeOK
  <2> QED
    BY <1>2, <2>1, <2>2, <2>3, <2>4, StartKeeps DEF IInv
<1>3. ASSUME IInv, HeatPumpBlock PROVE IInv'
  <2>1. /\ "heating_circuits" \in Steps /\ Ahead("heating_circuits") = Ahead("heat_pump_block")
        /\ "heat_pump_block" \notin Repeated
    BY AheadOf DEF Steps, Repeated
  <2>2. PICK yes \in BOOLEAN :
          /\ at.step = "heat_pump_block" /\ TellsWhether(yes)
          /\ found' = [found EXCEPT !.modern = yes]
          /\ at' = Start("heating_circuits")
          /\ UNCHANGED real
    BY <1>3 DEF HeatPumpBlock
  <2>3. found' \in Findings /\ found'.counts = found.counts
    BY <1>3, <2>2 DEF IInv, TypeOK, Findings
  <2>4. TypeOK'
    BY <1>3, <2>1, <2>2, <2>3, Begins, TellsStays DEF IInv, TypeOK
  <2> QED
    BY <1>3, <2>1, <2>2, <2>3, <2>4, StartKeeps DEF IInv
<1> QED
  BY <1>1, <1>2, <1>3

LEMMA SweepStep == ASSUME IInv, NEW c \in Repeated, Sweep(c) PROVE IInv'
<1>1. /\ at.step = c /\ real' = real /\ c \notin DOMAIN Once /\ c # "marker"
      /\ at.n \in Nat \ {0} /\ at.n <= MaxCount[c] /\ MaxCount[c] \in Nat \ {0}
  BY OnceSteps, MaxCountIsPositive DEF IInv, TypeOK, SweepInv, Sweep, Repeated
<1>2. /\ odd' \in 0..MaxOdd
      /\ \E yes \in BOOLEAN, two \in BOOLEAN :
           found' = [found EXCEPT !.counts[c] = IF yes THEN @ + 1 ELSE @,
                                  !.block200 = two]
  <2>1. PICK words \in Instance(c, at.n) \cup Garbled(Instance(c, at.n)) :
          /\ Answers(words, Instance(c, at.n))
          /\ found' = [found EXCEPT
               !.counts[c] = IF There(c, words) THEN @ + 1 ELSE @,
               !.block200 = @ \/ (c = "heating_circuits" /\ Present(words[1]) /\ words[1] >= 200)]
    BY DEF Sweep
  <2>2. odd' \in 0..MaxOdd
    BY <2>1, AnswersStay DEF IInv
  <2>3. There(c, words) \in BOOLEAN
    BY DEF There
  <2>4. (found.block200 \/ (c = "heating_circuits" /\ Present(words[1]) /\ words[1] >= 200)) \in BOOLEAN
    OBVIOUS
  <2> QED
    BY <2>1, <2>2, <2>3, <2>4
<1>3. /\ found' \in Findings
      /\ found'.counts[c] <= found.counts[c] + 1
      /\ \A d \in Repeated \ {c} : found'.counts[d] = found.counts[d]
  <2>1. PICK yes \in BOOLEAN, two \in BOOLEAN :
          found' = [found EXCEPT !.counts[c] = IF yes THEN @ + 1 ELSE @,
                                 !.block200 = two]
    BY <1>2
  <2> DEFINE k == IF yes THEN found.counts[c] + 1 ELSE found.counts[c]
  <2>2. found \in Findings /\ found.counts \in [Repeated -> Nat] /\ k \in Nat
    BY DEF IInv, TypeOK, Findings
  <2>3. found'.counts = [found.counts EXCEPT ![c] = k]
    BY <2>1, <2>2 DEF Findings
  <2>4. found'.counts \in [Repeated -> Nat]
    BY <2>2, <2>3
  <2>5. found' \in Findings
    BY <2>1, <2>2, <2>3, <2>4 DEF Findings
  <2> QED
    BY <2>2, <2>3, <2>5
<1>4. /\ \A d \in Repeated : found.counts[d] \in Nat /\ found'.counts[d] \in Nat
      /\ found.counts[c] <= at.n - 1
      /\ \A d \in Repeated \ {c} :
           found.counts[d] <= IF d \in Ahead(c) THEN 0 ELSE MaxCount[d]
  BY <1>1, <1>3 DEF IInv, TypeOK, SweepInv, SoFar, Findings
<1>5. CASE at.n < MaxCount[c] /\ at' = [at EXCEPT !.n = @ + 1]
  <2>1. /\ at'.step = c /\ at'.n = at.n + 1
        /\ at' \in [step : Steps, n : Nat \ {0}, again : BOOLEAN]
    BY <1>1, <1>5 DEF IInv, TypeOK
  <2>2. \A d \in Repeated : found'.counts[d] <= SoFar(d)'
    BY <1>1, <1>3, <1>4, <2>1 DEF SoFar
  <2> QED
    BY <1>1, <1>2, <1>3, <1>5, <2>1, <2>2 DEF IInv, TypeOK, SweepInv
<1>6. CASE ~ (at.n < MaxCount[c]) /\ at' = Start(AfterSweep(c))
  <2> DEFINE t == AfterSweep(c)
  <2>1. /\ at'.step = t /\ at'.n = 1 /\ t \in Steps /\ t # "marker"
        /\ at' \in [step : Steps, n : Nat \ {0}, again : BOOLEAN]
    BY <1>6, SweepOrder, Begins
  <2>2. \A d \in Repeated : SoFar(d)' = IF d \in Ahead(c) \ {c} THEN 0 ELSE MaxCount[d]
    BY <2>1, SweepMoves DEF SoFar
  <2>3. \A d \in Repeated : found'.counts[d] <= SoFar(d)'
    BY <1>1, <1>3, <1>4, <1>6, <2>2, MaxCountIsPositive
  <2>4. /\ t \in DOMAIN Once => 1 \in DOMAIN Once[t]
        /\ t \in Repeated => 1 <= MaxCount[t]
    BY OnceSteps, OnceLengths, MaxCountIsPositive
  <2>5. SweepInv'
    BY <2>1, <2>3, <2>4 DEF SweepInv
  <2> QED
    BY <1>1, <1>2, <1>3, <2>1, <2>5 DEF IInv, TypeOK
<1> QED
  BY <1>5, <1>6 DEF Sweep, AfterInstance

LEMMA ReadOnceStep == IInv /\ ReadOnce => IInv'
<1> SUFFICES ASSUME IInv, ReadOnce PROVE IInv'
  OBVIOUS
<1> DEFINE register == Once[at.step][at.n]
           held == AnyOf(Holds(register))
<1>1. /\ at.step \in {"generator", "singles"} /\ at.step \notin Repeated
      /\ at.step # "marker" /\ at.n \in DOMAIN Once[at.step]
      /\ real' = real /\ real \in Controllers /\ found \in Findings
  BY OnceSteps DEF IInv, TypeOK, SweepInv, ReadOnce, Repeated
<1>2. PICK words \in held \cup {<<None>>} :
        LET seen == found.seen \cup (IF Tells(register, words[1]) THEN {register} ELSE {})
        IN  /\ Answers(words, held)
            /\ IF at.n < Len(Once[at.step])
               THEN /\ found' = [found EXCEPT !.seen = seen]
                    /\ at' = [at EXCEPT !.n = @ + 1]
               ELSE IF at.step = "generator" THEN Decide(seen)
               ELSE found' = [found EXCEPT !.seen = seen] /\ at' = Start("boilers")
  BY DEF ReadOnce
<1> DEFINE seen == found.seen \cup (IF Tells(register, words[1]) THEN {register} ELSE {})
<1>3. odd' \in 0..MaxOdd
  BY <1>2, AnswersStay DEF IInv
<1>4. register \in UNION {{Once[x][k] : k \in DOMAIN Once[x]} : x \in DOMAIN Once}
  BY <1>1, OnceSteps
<1>5. seen \in SUBSET UNION {{Once[x][k] : k \in DOMAIN Once[x]} : x \in DOMAIN Once}
  BY <1>1, <1>4 DEF Findings
<1>6. ASSUME found' = [found EXCEPT !.seen = seen]
      PROVE  found' \in Findings /\ found'.counts = found.counts
  BY <1>1, <1>5, <1>6 DEF Findings
<1>7. CASE /\ at.n < Len(Once[at.step])
           /\ found' = [found EXCEPT !.seen = seen]
           /\ at' = [at EXCEPT !.n = @ + 1]
  <2>1. /\ at'.step = at.step /\ at'.n = at.n + 1
        /\ at' \in [step : Steps, n : Nat \ {0}, again : BOOLEAN]
    BY <1>7 DEF IInv, TypeOK
  <2>2. at.n + 1 \in DOMAIN Once[at.step]
    BY <1>1, <1>7, OnceSteps, OnceLengths
  <2>3. TypeOK'
    BY <1>1, <1>3, <1>6, <1>7, <2>1 DEF TypeOK
  <2> QED
    BY <1>1, <1>6, <1>7, <2>1, <2>2, <2>3, StayKeeps DEF IInv
<1>8. CASE at.step = "generator" /\ Decide(seen)
  <2> DEFINE system == SystemOf(seen, found.block200)
             t == IF system = "open" THEN "chimney" ELSE "singles"
  <2>1. /\ at' = Start(t)
        /\ found' = [found EXCEPT !.seen = {},
                       !.confident = HasHeatPump(seen) \/ HasBiomassBoiler(seen),
                       !.system = IF system = "open" THEN @ ELSE system]
    BY <1>8 DEF Decide
  <2>2. system \in Systems \cup {"open"}
    BY DEF SystemOf, Systems
  <2>3. (HasHeatPump(seen) \/ HasBiomassBoiler(seen)) \in BOOLEAN
    BY DEF HasHeatPump, HasBiomassBoiler
  <2>4. found' \in Findings /\ found'.counts = found.counts
    BY <1>1, <2>1, <2>2, <2>3 DEF Findings
  <2>5. t \in Steps /\ t # "marker" /\ Ahead(t) = Ahead(at.step)
    BY <1>8, AheadOf DEF Steps, Exists
  <2>6. TypeOK'
    BY <1>1, <1>3, <2>1, <2>4, <2>5, Begins DEF TypeOK
  <2> QED
    BY SMTT(60), <1>1, <2>1, <2>4, <2>5, <2>6, StartKeeps DEF IInv
<1>9. CASE /\ at.step # "generator"
           /\ found' = [found EXCEPT !.seen = seen] /\ at' = Start("boilers")
  <2>1. "boilers" \in Steps /\ Ahead("boilers") = Ahead(at.step)
    BY <1>1, AheadOf DEF Steps, Repeated
  <2>2. TypeOK'
    BY <1>1, <1>3, <1>6, <1>9, <2>1, Begins DEF TypeOK
  <2> QED
    BY <1>1, <1>6, <1>9, <2>1, <2>2, StartKeeps DEF IInv
<1> QED
  BY <1>2, <1>7, <1>8, <1>9

LEMMA ChimneyStep == IInv /\ Chimney => IInv'
<1> SUFFICES ASSUME IInv, Chimney PROVE IInv'
  OBVIOUS
<1>1. PICK yes \in BOOLEAN :
        /\ at.step = "chimney" /\ TellsWhether(yes)
        /\ found' = [found EXCEPT !.system = IF yes THEN "Pellet_Elegance" ELSE "Ecotop"]
        /\ at' = Start("singles")
        /\ UNCHANGED real
  BY DEF Chimney
<1>2. /\ "singles" \in Steps /\ Ahead("singles") = Ahead("chimney")
      /\ "chimney" \notin Repeated
  BY AheadOf DEF Steps, Repeated
<1>3. found' \in Findings /\ found'.counts = found.counts
  BY <1>1 DEF IInv, TypeOK, Findings, Systems
<1>4. TypeOK'
  BY <1>1, <1>2, <1>3, Begins, TellsStays DEF IInv, TypeOK
<1> QED
  BY <1>1, <1>2, <1>3, <1>4, StartKeeps DEF IInv

LEMMA RaisesStep == IInv /\ Raises => IInv'
<1> SUFFICES ASSUME IInv, Raises PROVE IInv'
  OBVIOUS
<1>1. /\ "raised" \in Steps /\ "raised" \notin Repeated /\ "raised" \notin DOMAIN Once
      /\ "raised" # "marker"
  BY OnceSteps DEF Steps, Repeated
<1>2. /\ at'.step = "raised" /\ at' \in [step : Steps, n : Nat \ {0}, again : BOOLEAN]
      /\ found' = NoFinding /\ real' = real /\ odd' = odd
  BY <1>1, Begins DEF Raises
<1>3. NoFinding \in Findings /\ \A c \in Repeated : NoFinding.counts[c] = 0
  BY DEF NoFinding, Findings, Versions, Systems
<1>4. \A c \in Repeated : SoFar(c)' = MaxCount[c]
  BY <1>1, <1>2, AheadOf DEF SoFar
<1>5. SweepInv'
  BY <1>1, <1>2, <1>3, <1>4, MaxCountIsPositive DEF SweepInv
<1> QED
  BY <1>2, <1>3, <1>5 DEF IInv, TypeOK

LEMMA StepIInv == IInv /\ [Next]_vars => IInv'
<1> SUFFICES ASSUME IInv, [Next]_vars PROVE IInv'
  OBVIOUS
<1>1. CASE \E c \in Repeated : Sweep(c)
  BY <1>1, SweepStep
<1>2. CASE UNCHANGED vars
  BY <1>2 DEF IInv, TypeOK, SweepInv, SoFar, vars
<1> QED
  BY <1>1, <1>2, AskForTwoStep, MarkerStep, BlockSteps, ReadOnceStep, ChimneyStep,
     RaisesStep DEF Next, Probe

(* Types, and counts bounded by the instances read: of every controller,   *)
(* with any number of components and of odd answers.                       *)
THEOREM Invariance == Spec => []IInv
<1> QED
  BY StepIInv, InitInv, PTL DEF Spec

(* A configuration built from a detection passes its own validation        *)
(* (detect.py:193-199), however many components a controller may have and  *)
(* however many answers come out odd.                                      *)
THEOREM NeverRefused == Spec => []ConfigValidates
<1>1. IInv => ConfigValidates
  <2> SUFFICES ASSUME IInv, Done, NEW c \in Components, Configures(c) # 0
               PROVE  /\ Available(c, found.version, found.system)
                      /\ Configures(c) <= Limit(c, found.version)
    BY DEF ConfigValidates, Validates
  <2>1. Available(c, found.version, found.system) /\ Configures(c) = Counted(c)
    BY DEF Configures
  <2>2. CASE c \in Singles
    <3>1. Counted(c) \in {0, 1}
      BY <2>2 DEF Counted, CountedSingle
    <3>2. Limit(c, found.version) = 1
      BY <2>2, MaxCountAssumption DEF Limit, Singles
    <3> QED
      BY <2>1, <3>1, <3>2
  <2>3. CASE c \notin Singles
    <3>1. c \in Repeated /\ Counted(c) = Clamped(c)
      BY <2>3 DEF Components, Counted
    <3>2. found.counts[c] <= MaxCount[c] /\ found.counts[c] \in Nat /\ MaxCount[c] \in Nat \ {0}
      <4>1. "done" \notin Repeated /\ Ahead("done") = {}
        BY AheadOf DEF Repeated
      <4>2. SoFar(c) = MaxCount[c]
        BY <3>1, <4>1 DEF Done, SoFar
      <4> QED
        BY <3>1, <4>2, MaxCountIsPositive DEF IInv, TypeOK, SweepInv, Findings
    <3>3. Clamped(c) <= Limit(c, found.version)
      BY <3>2 DEF Clamped, Limit
    <3> QED
      BY <2>1, <3>1, <3>3
  <2> QED
    BY <2>2, <2>3
<1> QED
  BY <1>1, Invariance, PTL

-----------------------------------------------------------------------------
(* The controller.                                                         *)
LEMMA RealController == ASSUME TypeOK
  PROVE  /\ real.system \in Systems /\ real.firmware \in Versions
         /\ \A c \in Components : real.installed[c] \in Nat /\ real.installed[c] <= MaxCount[c]
<1>1. real \in [system : Systems, firmware : Versions, chimney : BOOLEAN,
                installed : Installations]
  BY DEF TypeOK, Controllers
<1>2. real.installed \in Installations
  BY <1>1
<1> QED
  BY <1>1, <1>2, InstallationsAssumption

(* Answers of a run without odd ones.                                      *)
LEMMA TrueRefusal == ASSUME TypeOK, Refuses, odd' = 0 PROVE odd = 0 /\ ~ Mapped
BY DEF TypeOK, Refuses

LEMMA TrueTelling == ASSUME TypeOK, NEW yes \in BOOLEAN, TellsWhether(yes), odd' = 0
                     PROVE  odd = 0 /\ (yes <=> Mapped)
BY TrueRefusal DEF TypeOK, TellsWhether

LEMMA TrueAnswer == ASSUME TypeOK, NEW words, NEW S, Answers(words, S), odd' = 0
                    PROVE  odd = 0 /\ words \in S
BY DEF TypeOK, Answers

LEMMA WhatIsMapped ==
  /\ at.step = "marker" => (Mapped <=> HasMarker(Markers[at.n]))
  /\ at.step = "circuit_block" => (Mapped <=> RealOffset("heating_circuits") = 7)
  /\ at.step = "buffer_block" => (Mapped <=> RealOffset("buffers") = 4)
  /\ at.step = "heat_pump_block" => (Mapped <=> real.firmware >= 25030)
BY DEF Mapped

LEMMA StepsApart == /\ Exists \cap Repeated = {} /\ Exists \cap DOMAIN Once = {}
                    /\ Repeated \cap DOMAIN Once = {}
                    /\ {"done", "raised"} \cap (Exists \cup Repeated \cup DOMAIN Once) = {}
BY OnceSteps DEF Exists, Repeated

(* Where a run goes that is not raised out of.                             *)
LEMMA ProbeGoes == ASSUME IInv, Probe, Truthful'
                   PROVE  Truthful /\ real' = real
<1>1. odd' = 0
  BY DEF Truthful
<1>2. CASE AskForTwo
  BY <1>1, <1>2, TrueRefusal, StepsApart DEF AskForTwo, Truthful, IInv
<1>3. CASE Marker
  BY <1>1, <1>3, TrueTelling DEF Marker, Truthful, IInv
<1>4. CASE CircuitBlock \/ BufferBlock \/ HeatPumpBlock \/ Chimney
  BY <1>1, <1>4, TrueTelling DEF CircuitBlock, BufferBlock, HeatPumpBlock, Chimney, Truthful, IInv
<1>5. ASSUME NEW c \in Repeated, Sweep(c) PROVE Truthful /\ real' = real
  <2>1. at.step = c /\ at.step # "raised" /\ real' = real
    BY <1>5, StepsApart DEF Sweep
  <2>2. odd = 0
    BY <1>1, <1>5, TrueAnswer DEF Sweep, IInv
  <2> QED
    BY <2>1, <2>2 DEF Truthful
<1>6. CASE ReadOnce
  <2>1. at.step # "raised" /\ real' = real
    BY <1>6, StepsApart DEF ReadOnce
  <2>2. odd = 0
    BY <1>1, <1>6, TrueAnswer DEF ReadOnce, IInv
  <2> QED
    BY <2>1, <2>2 DEF Truthful
<1> QED
  BY <1>2, <1>3, <1>4, <1>5, <1>6 DEF Probe

(* Where a step leads.                                                     *)
LEMMA MarkerGoes == Marker => at'.step \in {"marker", "circuit_block"}
<1>1. CASE at' = Start("circuit_block")
  BY <1>1 DEF Start
<1>2. CASE at' = [Start("marker") EXCEPT !.n = at.n + 1]
  BY <1>2 DEF Start
<1> QED
  BY <1>1, <1>2 DEF Marker

(* A register read once: seen to speak or not, and then the next one, the  *)
(* decision, or the boilers.                                               *)
Spoke(register, words) ==
  found.seen \cup (IF Tells(register, words[1]) THEN {register} ELSE {})

LEMMA ReadOnceGoes ==
  ASSUME IInv, ReadOnce
  PROVE  /\ at.step \in {"generator", "singles"} /\ at.n \in DOMAIN Once[at.step]
         /\ real' = real
         /\ \E words \in AnyOf(Holds(Once[at.step][at.n])) \cup {<<None>>} :
              /\ Answers(words, AnyOf(Holds(Once[at.step][at.n])))
              /\ \/ /\ at.n < Len(Once[at.step])
                    /\ found' = [found EXCEPT !.seen = Spoke(Once[at.step][at.n], words)]
                    /\ at'.step = at.step /\ at'.n = at.n + 1
                 \/ /\ at.step = "generator" /\ at.n = 9
                    /\ Decide(Spoke(Once[at.step][at.n], words))
                 \/ /\ at.step = "singles" /\ at.n = 3
                    /\ found' = [found EXCEPT !.seen = Spoke(Once[at.step][at.n], words)]
                    /\ at'.step = "boilers" /\ at'.n = 1
<1> DEFINE register == Once[at.step][at.n]
           held == AnyOf(Holds(register))
<1>1. /\ at.step \in {"generator", "singles"} /\ at.n \in DOMAIN Once[at.step]
      /\ real' = real /\ at \in [step : Steps, n : Nat \ {0}, again : BOOLEAN]
  BY OnceSteps DEF IInv, TypeOK, SweepInv, ReadOnce
<1>2. PICK words \in held \cup {<<None>>} :
        /\ Answers(words, held)
        /\ IF at.n < Len(Once[at.step])
           THEN /\ found' = [found EXCEPT !.seen = Spoke(register, words)]
                /\ at' = [at EXCEPT !.n = @ + 1]
           ELSE IF at.step = "generator" THEN Decide(Spoke(register, words))
           ELSE found' = [found EXCEPT !.seen = Spoke(register, words)] /\ at' = Start("boilers")
  BY DEF ReadOnce, Spoke
<1>3. CASE at.n < Len(Once[at.step])
  <2>1. at'.step = at.step /\ at'.n = at.n + 1
    BY <1>1, <1>2, <1>3
  <2> QED
    BY <1>1, <1>2, <1>3, <2>1
<1>4. CASE ~ (at.n < Len(Once[at.step])) /\ at.step = "generator"
  <2>1. at.n = 9
    BY <1>1, <1>4, OnceSteps, OnceLengths
  <2> QED
    BY <1>1, <1>2, <1>4, <2>1
<1>5. CASE ~ (at.n < Len(Once[at.step])) /\ at.step # "generator"
  <2>1. at.n = 3 /\ at.step = "singles"
    <3>1. at.step = "singles"
      BY <1>1, <1>5
    <3>2. at.n \in 1..3 /\ ~ (at.n < 3)
      BY <1>1, <1>5, <3>1, OnceSteps, OnceLengths
    <3> QED
      BY <3>1, <3>2
  <2>2. Start("boilers").step = "boilers" /\ Start("boilers").n = 1
    BY DEF Start
  <2>3. found' = [found EXCEPT !.seen = Spoke(register, words)] /\ at' = Start("boilers")
    BY <1>2, <1>5
  <2> QED
    BY <1>1, <1>2, <2>1, <2>2, <2>3
<1> QED
  BY <1>3, <1>4, <1>5

(* The decision: to the singles, or to 33410.                              *)
LEMMA DecideGoes ==
  ASSUME IInv, NEW seen, Decide(seen)
  PROVE  /\ found'.version = found.version /\ found'.offset = found.offset
         /\ found'.modern = found.modern /\ found'.block200 = found.block200
         /\ found'.counts = found.counts /\ found'.seen = {}
         /\ found'.confident = (HasHeatPump(seen) \/ HasBiomassBoiler(seen))
         /\ \/ /\ SystemOf(seen, found.block200) = "open" /\ at' = Start("chimney")
            \/ /\ SystemOf(seen, found.block200) # "open" /\ at' = Start("singles")
               /\ found'.system = SystemOf(seen, found.block200)
<1>1. found \in Findings
  BY DEF IInv, TypeOK
<1>2. CASE SystemOf(seen, found.block200) = "open"
  BY <1>1, <1>2 DEF Decide, Findings
<1>3. CASE SystemOf(seen, found.block200) # "open"
  BY <1>1, <1>3 DEF Decide, Findings
<1> QED
  BY <1>2, <1>3

(* The probes after those for the date and for the blocks find neither.    *)
Early == {"marker", "circuit_block", "buffer_block", "heat_pump_block"}

LEMMA LateProbe ==
  ASSUME IInv, (\E c \in Repeated : Sweep(c)) \/ ReadOnce \/ Chimney
  PROVE  /\ at.step \notin Early /\ at'.step \notin Early
         /\ found'.version = found.version /\ found'.offset = found.offset
         /\ found'.modern = found.modern
<1>1. CASE Chimney
  BY <1>1 DEF Chimney, Start, Early, IInv, TypeOK, Findings
<1>2. ASSUME NEW c \in Repeated, Sweep(c)
      PROVE  /\ at.step \notin Early /\ at'.step \notin Early
             /\ found'.version = found.version /\ found'.offset = found.offset
             /\ found'.modern = found.modern
  <2>1. at.step = c /\ c \notin Early /\ AfterSweep(c) \notin Early
    BY ZenonT(60), <1>2 DEF Sweep, Early, Repeated, AfterSweep
  <2>2. /\ found'.version = found.version /\ found'.offset = found.offset
        /\ found'.modern = found.modern
    BY <1>2 DEF Sweep, IInv, TypeOK, Findings
  <2>3. at'.step = c \/ at'.step = AfterSweep(c)
    BY <1>2, <2>1, SweepOrder, Begins DEF Sweep, AfterInstance, IInv, TypeOK
  <2> QED
    BY <2>1, <2>2, <2>3
<1>3. CASE ReadOnce
  <2>1. at.step \in {"generator", "singles"} /\ found \in Findings
    BY <1>3, ReadOnceGoes DEF IInv, TypeOK
  <2>2. ASSUME NEW seen, Decide(seen)
        PROVE  /\ at'.step \in {"chimney", "singles"}
               /\ found'.version = found.version /\ found'.offset = found.offset
               /\ found'.modern = found.modern
    BY <2>2, DecideGoes DEF Start
  <2>3. ASSUME NEW seen, found' = [found EXCEPT !.seen = seen]
        PROVE  /\ found'.version = found.version /\ found'.offset = found.offset
               /\ found'.modern = found.modern
    BY <2>1, <2>3 DEF Findings
  <2> QED
    BY <1>3, <2>1, <2>2, <2>3, ReadOnceGoes DEF Early
<1> QED
  BY <1>1, <1>2, <1>3

-----------------------------------------------------------------------------
(* The date.                                                               *)
LEMMA MarkerTable ==
  /\ Markers[1] = 26020 /\ Markers[2] = 25030 /\ Markers[3] = 23080 /\ Markers[4] = 23040
  /\ Markers[5] = 23020 /\ Markers[6] = 23010 /\ Markers[7] = 22090 /\ Markers[8] = 21140
BY DEF Markers

LEMMA MarkerDates ==
  ASSUME NEW v \in Versions, NEW n \in 1..8, v >= Newest(Markers[n])
  PROVE  /\ Markers[n] <= Dated(v)
         /\ (\A k \in 1..(n - 1) : ~ (v >= Newest(Markers[k]))) => Markers[n] = Dated(v)
<1>1. \A k \in 1..8 : Newest(Markers[k]) = IF k = 2 THEN 25020 ELSE Markers[k]
  BY MarkerTable DEF Newest
<1>2. ASSUME \A k \in 1..(n - 1) : ~ (v >= Newest(Markers[k]))
      PROVE  \A k \in 1..8 : k < n => v < Newest(Markers[k])
  BY <1>1, <1>2, MarkerTable DEF Versions
<1>3. n = 1 \/ n = 2 \/ n = 3 \/ n = 4 \/ n = 5 \/ n = 6 \/ n = 7 \/ n = 8
  OBVIOUS
<1>4. Markers[n] <= Dated(v)
  BY <1>1, <1>3, MarkerTable DEF Dated, Versions
<1>5. ASSUME \A k \in 1..(n - 1) : ~ (v >= Newest(Markers[k]))
      PROVE  Markers[n] = Dated(v)
  BY <1>1, <1>2, <1>3, <1>5, MarkerTable DEF Dated, Versions
<1> QED
  BY <1>4, <1>5

LEMMA NoMarkerDates ==
  ASSUME NEW v \in Versions, \A k \in 1..8 : ~ (v >= Newest(Markers[k]))
  PROVE  Dated(v) = 20110
BY MarkerTable DEF Newest, Dated, Versions

LEMMA ProbeDates == ASSUME IInv, DatedInv, Probe PROVE DatedInv'
<1>1. /\ real.firmware \in Versions /\ Dated(real.firmware) \in Nat
      /\ real' = real /\ (at'.step # "raised" => at.step # "raised")
  <2>1. real.firmware \in Versions
    BY RealController DEF IInv
  <2>2. real' = real /\ at.step # "raised"
    BY StepsApart DEF Probe, AskForTwo, Marker, CircuitBlock, BufferBlock, HeatPumpBlock,
       Sweep, ReadOnce, Chimney
  <2> QED
    BY <2>1, <2>2 DEF Dated, Versions
<1>2. ASSUME Truthful' PROVE Truthful
  BY <1>2, ProbeGoes
<1>3. CASE Marker
  <2>1. /\ at.step = "marker" /\ at.n \in 1..8 /\ found.version = 20110
        /\ found \in Findings
    BY <1>3, MarkerVersions DEF IInv, TypeOK, SweepInv, Marker, DatedInv
  <2>2. CASE /\ TellsWhether(TRUE)
             /\ found' = [found EXCEPT !.version = Markers[at.n]]
             /\ at' = Start("circuit_block")
    <3>1. at'.step = "circuit_block" /\ found'.version = Markers[at.n]
      BY <2>1, <2>2 DEF Start, Findings
    <3>2. Mapped
      BY <2>2 DEF TellsWhether
    <3>3. real.firmware >= Newest(Markers[at.n])
      BY <2>1, <3>2, WhatIsMapped DEF HasMarker
    <3>4. Markers[at.n] <= Dated(real.firmware)
      BY <1>1, <2>1, <3>3, MarkerDates
    <3>5. ASSUME Truthful' PROVE Markers[at.n] = Dated(real.firmware)
      BY <1>1, <1>2, <2>1, <3>3, <3>5, MarkerDates DEF DatedInv, HasMarker
    <3> QED
      BY <1>1, <3>1, <3>4, <3>5 DEF DatedInv
  <2>3. CASE /\ TellsWhether(FALSE)
             /\ at' = IF at.n < Len(Markers) THEN [Start("marker") EXCEPT !.n = at.n + 1]
                                             ELSE Start("circuit_block")
             /\ UNCHANGED found
    <3>1. ASSUME Truthful'
          PROVE  \A k \in 1..at.n : ~ HasMarker(Markers[k])
      <4>1. ~ HasMarker(Markers[at.n])
        <5>1. ~ Mapped
          BY <2>3, <3>1, TrueRefusal DEF TellsWhether, Truthful, IInv
        <5> QED
          BY <2>1, <5>1, WhatIsMapped
      <4>2. \A k \in 1..(at.n - 1) : ~ HasMarker(Markers[k])
        BY <1>2, <2>1, <3>1 DEF DatedInv
      <4>3. \A k \in 1..at.n : k = at.n \/ k \in 1..(at.n - 1)
        BY <2>1
      <4> QED
        BY <4>1, <4>2, <4>3
    <3>2. CASE at.n < Len(Markers)
      <4>1. at'.step = "marker" /\ at'.n = at.n + 1
        BY <2>3, <3>2 DEF Start
      <4>2. at'.n - 1 = at.n
        BY <2>1, <4>1
      <4>3. ASSUME Truthful', NEW k \in 1..(at'.n - 1) PROVE ~ HasMarker(Markers[k])'
        BY <1>1, <3>1, <4>2, <4>3 DEF HasMarker
      <4> QED
        BY <1>1, <2>1, <2>3, <4>1, <4>3 DEF DatedInv
    <3>3. CASE ~ (at.n < Len(Markers))
      <4>1. at'.step = "circuit_block" /\ at.n = 8
        BY <2>1, <2>3, <3>3, MarkerVersions DEF Start
      <4>2. ASSUME Truthful' PROVE found.version = Dated(real.firmware)
        BY <1>1, <2>1, <3>1, <4>1, <4>2, NoMarkerDates DEF HasMarker
      <4> QED
        BY <1>1, <2>3, <4>1, <4>2 DEF DatedInv
    <3> QED
      BY <3>2, <3>3
  <2> QED
    BY <1>3, <2>2, <2>3 DEF Marker
<1>4. CASE AskForTwo
  <2>1. at'.step = at.step /\ at'.n = at.n /\ found' = found
    BY <1>4 DEF IInv, TypeOK, AskForTwo
  <2> QED
    BY <1>1, <1>2, <2>1 DEF DatedInv, HasMarker
<1>5. CASE ~ Marker /\ ~ AskForTwo
  <2>1. at.step # "marker" /\ at'.step # "marker" /\ found'.version = found.version
    <3>1. CASE CircuitBlock \/ BufferBlock \/ HeatPumpBlock
      BY <3>1 DEF CircuitBlock, BufferBlock, HeatPumpBlock, Start, IInv, TypeOK, Findings
    <3> QED
      BY <1>5, <3>1, LateProbe DEF Probe, Early
  <2> QED
    BY <1>1, <1>2, <2>1 DEF DatedInv
<1> QED
  BY <1>3, <1>4, <1>5

-----------------------------------------------------------------------------
(* Where the states are.                                                   *)
LEMMA RealOffsets == /\ RealOffset("heating_circuits") \in {6, 7}
                     /\ RealOffset("buffers") \in {3, 4}
BY DEF RealOffset, StateOffset

LEMMA ProbeBlocks == ASSUME IInv, BlockInv, Probe PROVE BlockInv'
<1> SUFFICES ASSUME Truthful'
             PROVE  /\ at'.step \notin {"marker", "circuit_block"} =>
                         found'.offset["heating_circuits"] = RealOffset("heating_circuits")
                    /\ at'.step \notin {"marker", "circuit_block", "buffer_block"} =>
                         found'.offset["buffers"] = RealOffset("buffers")
                    /\ at'.step \in Exists \ {"chimney"}
                       \/ found'.modern = (real.firmware >= 25030)
  BY ProbeGoes DEF BlockInv, RealOffset
<1>1. /\ odd' = 0
      /\ at.step \notin {"marker", "circuit_block"} =>
           found.offset["heating_circuits"] = RealOffset("heating_circuits")
      /\ at.step \notin {"marker", "circuit_block", "buffer_block"} =>
           found.offset["buffers"] = RealOffset("buffers")
      /\ at.step \in Exists \ {"chimney"} \/ found.modern = (real.firmware >= 25030)
  BY ProbeGoes DEF BlockInv, Truthful
<1>2. CASE AskForTwo
  <2>1. at'.step = at.step /\ found' = found
    BY <1>2 DEF IInv, TypeOK, AskForTwo
  <2> QED
    BY <1>1, <2>1
<1>3. CASE Marker
  BY <1>3, MarkerGoes DEF Exists
<1>4. CASE CircuitBlock
  <2>1. PICK yes \in BOOLEAN :
          /\ at.step = "circuit_block" /\ TellsWhether(yes)
          /\ found' = [found EXCEPT !.offset["heating_circuits"] = IF yes THEN 7 ELSE 6]
          /\ at' = Start("buffer_block")
    BY <1>4 DEF CircuitBlock
  <2>2. yes <=> RealOffset("heating_circuits") = 7
    BY <1>1, <2>1, TrueTelling, WhatIsMapped DEF IInv
  <2>3. found'.offset["heating_circuits"] = IF yes THEN 7 ELSE 6
    BY <2>1 DEF IInv, TypeOK, Findings
  <2>4. at'.step = "buffer_block"
    BY <2>1 DEF Start
  <2> QED
    BY <2>2, <2>3, <2>4, RealOffsets DEF Exists
<1>5. CASE BufferBlock
  <2>1. PICK yes \in BOOLEAN :
          /\ at.step = "buffer_block" /\ TellsWhether(yes)
          /\ found' = [found EXCEPT !.offset["buffers"] = IF yes THEN 4 ELSE 3]
          /\ at' = Start("heat_pump_block")
    BY <1>5 DEF BufferBlock
  <2>2. yes <=> RealOffset("buffers") = 4
    BY <1>1, <2>1, TrueTelling, WhatIsMapped DEF IInv
  <2>3. /\ found'.offset["buffers"] = IF yes THEN 4 ELSE 3
        /\ found'.offset["heating_circuits"] = found.offset["heating_circuits"]
    BY <2>1 DEF IInv, TypeOK, Findings
  <2>4. at'.step = "heat_pump_block"
    BY <2>1 DEF Start
  <2> QED
    BY <1>1, <2>1, <2>2, <2>3, <2>4, RealOffsets DEF Exists
<1>6. CASE HeatPumpBlock
  <2>1. PICK yes \in BOOLEAN :
          /\ at.step = "heat_pump_block" /\ TellsWhether(yes)
          /\ found' = [found EXCEPT !.modern = yes]
          /\ at' = Start("heating_circuits")
    BY <1>6 DEF HeatPumpBlock
  <2>2. yes <=> real.firmware >= 25030
    BY <1>1, <2>1, TrueTelling, WhatIsMapped DEF IInv
  <2>3. found'.modern = yes /\ found'.offset = found.offset
    BY <2>1 DEF IInv, TypeOK, Findings
  <2> QED
    BY <1>1, <2>1, <2>2, <2>3
<1>7. CASE (\E c \in Repeated : Sweep(c)) \/ ReadOnce \/ Chimney
  BY <1>1, <1>7, LateProbe DEF Early, Exists
<1> QED
  BY <1>2, <1>3, <1>4, <1>5, <1>6, <1>7 DEF Probe

-----------------------------------------------------------------------------
(* The counts.  Whether an instance is there is told by its registers, on  *)
(* every system and in either block, if the block is the right one.        *)
LEMMA InstanceSpeaks ==
  ASSUME IInv, NEW c \in Repeated, NEW i \in Nat, NEW words \in Instance(c, i),
         c \in DOMAIN found.offset => found.offset[c] = RealOffset(c)
  PROVE  /\ There(c, words) <=> i <= real.installed[c]
         /\ c = "heating_circuits" =>
              (Present(words[1]) /\ words[1] >= 200 <=> real.system = "Therminator")
<1>1. real.installed[c] \in Nat
  BY RealController DEF IInv, Components
<1>2. DOMAIN found.offset = {"heating_circuits", "buffers"}
  BY DEF IInv, TypeOK, Findings
<1>3. CASE c = "heating_circuits"
  <2>1. words \in {<<2>>, <<214>>, <<7>>, <<212>>}
    BY <1>2, <1>3 DEF Instance, From
  <2>2. words = IF i <= real.installed[c]
                THEN <<IF real.system = "Therminator" THEN 214 ELSE 2>>
                ELSE <<IF real.system = "Therminator" THEN 212 ELSE 7>>
    BY <1>2, <1>3 DEF Instance, From
  <2>3. words[1] = IF i <= real.installed[c]
                   THEN IF real.system = "Therminator" THEN 214 ELSE 2
                   ELSE IF real.system = "Therminator" THEN 212 ELSE 7
    BY <2>2
  <2> QED
    BY <1>3, <2>3 DEF There, Present, None
<1>4. CASE c \in {"buffers", "boilers"}
  <2>1. words = IF i <= real.installed[c]
                THEN <<IF real.system = "Therminator" THEN 201 ELSE 1>>
                ELSE <<IF real.system = "Therminator" THEN 200 ELSE 0>>
    BY <1>2, <1>4 DEF Instance, From
  <2>2. words[1] = IF i <= real.installed[c]
                   THEN IF real.system = "Therminator" THEN 201 ELSE 1
                   ELSE IF real.system = "Therminator" THEN 200 ELSE 0
    BY <2>1
  <2> QED
    BY <1>4, <2>2 DEF There, Present, None
<1>5. CASE c = "circulations"
  <2>1. words = <<IF i <= real.installed[c] THEN 400 ELSE 0>>
    BY <1>5 DEF Instance, AnyOf
  <2>2. DOMAIN words = {1} /\ words[1] = IF i <= real.installed[c] THEN 400 ELSE 0
    BY <2>1
  <2> QED
    BY <1>5, <2>2 DEF There, Live, Present, None, NoSensor
<1>6. CASE c = "fresh_water_modules"
  <2>1. words = IF i <= real.installed[c] THEN <<0, 480>> ELSE <<0, 0>>
    BY <1>6 DEF Instance
  <2>2. /\ DOMAIN words = {1, 2} /\ words[1] = 0
        /\ words[2] = IF i <= real.installed[c] THEN 480 ELSE 0
    BY <2>1
  <2> QED
    BY <1>6, <2>2 DEF There, Live, Present, None, NoSensor
<1>7. CASE c = "solar"
  <2>1. words \in IF i <= real.installed[c] THEN {<<450, 0, 0>>, <<0, 2700, 0>>}
                                           ELSE {<<0, 0, 201>>}
    BY <1>7 DEF Instance
  <2>2. IF i <= real.installed[c] THEN words[1] = 450 \/ words[2] = 2700
                                  ELSE words[1] = 0 /\ words[2] = 0
    BY <2>1
  <2> QED
    BY <1>7, <2>2 DEF There, Configured, Present, None
<1> QED
  BY <1>3, <1>4, <1>5, <1>6, <1>7 DEF Repeated

(* What was counted so far stays so when something else is probed.         *)
LEMMA StartSoFar ==
  ASSUME NEW t \in Steps, at'.step = t, at'.n = 1, at.step \notin Repeated,
         Ahead(t) = Ahead(at.step)
  PROVE  \A c \in Repeated : SoFar(c)' = SoFar(c)
<1> TAKE c \in Repeated
<1>1. SoFar(c) = IF c \in Ahead(at.step) THEN 0 ELSE MaxCount[c]
  BY DEF SoFar
<1>2. SoFar(c)' = IF c \in Ahead(t) THEN 0 ELSE MaxCount[c]
  BY SweepMoves DEF SoFar
<1> QED
  BY <1>1, <1>2

LEMMA OtherSoFar ==
  ASSUME IInv, AskForTwo \/ Marker \/ CircuitBlock \/ BufferBlock \/ HeatPumpBlock
               \/ ReadOnce \/ Chimney
  PROVE  found'.counts = found.counts /\ \A c \in Repeated : SoFar(c)' = SoFar(c)
<1>1. found \in Findings
  BY DEF IInv, TypeOK
<1>2. CASE AskForTwo
  <2>1. at'.step = at.step /\ at'.n = at.n /\ found' = found
    BY <1>2 DEF IInv, TypeOK, AskForTwo
  <2> QED
    BY <2>1 DEF SoFar
<1>3. CASE Marker
  <2>1. found'.counts = found.counts /\ at.step = "marker" /\ at.step \notin Repeated
    BY <1>1, <1>3 DEF Marker, Findings, Repeated
  <2>2. CASE at'.step = "marker"
    BY <2>1, <2>2 DEF SoFar
  <2>3. CASE at' = Start("circuit_block")
    <3>1. "circuit_block" \in Steps /\ Ahead("circuit_block") = Ahead(at.step)
      BY <2>1, AheadOf DEF Steps, Exists
    <3> QED
      BY <2>1, <2>3, <3>1, StartSoFar, Begins
  <2>4. at'.step = "marker" \/ at' = Start("circuit_block")
    <3>1. CASE at' = [Start("marker") EXCEPT !.n = at.n + 1]
      BY <3>1 DEF Start
    <3> QED
      BY <1>3, <3>1 DEF Marker
  <2> QED
    BY <2>1, <2>2, <2>3, <2>4
<1>4. CASE CircuitBlock \/ BufferBlock \/ HeatPumpBlock \/ Chimney
  <2>1. /\ found'.counts = found.counts
        /\ \/ at.step = "circuit_block" /\ at' = Start("buffer_block")
           \/ at.step = "buffer_block" /\ at' = Start("heat_pump_block")
           \/ at.step = "heat_pump_block" /\ at' = Start("heating_circuits")
           \/ at.step = "chimney" /\ at' = Start("singles")
    BY <1>1, <1>4 DEF CircuitBlock, BufferBlock, HeatPumpBlock, Chimney, Findings
  <2>2. \A t \in {"buffer_block", "heat_pump_block", "heating_circuits", "singles"} :
          t \in Steps /\ Start(t).step = t /\ Start(t).n = 1
    BY Begins DEF Steps, Exists, Repeated
  <2>3. at.step \notin Repeated
    BY <2>1 DEF Repeated
  <2> QED
    BY <2>1, <2>2, <2>3, StartSoFar, AheadOf
<1>5. CASE ReadOnce
  <2>1. at.step \in {"generator", "singles"} /\ at.step \notin Repeated
    BY <1>5, ReadOnceGoes DEF Repeated
  <2>2. ASSUME NEW seen, Decide(seen)
        PROVE  /\ found'.counts = found.counts
               /\ at'.step \in {"chimney", "singles"} /\ at'.n = 1
    BY <2>2, DecideGoes DEF Start
  <2>3. ASSUME NEW seen, found' = [found EXCEPT !.seen = seen]
        PROVE  found'.counts = found.counts
    BY <1>1, <2>3 DEF Findings
  <2>4. /\ found'.counts = found.counts
        /\ at'.step = at.step \/ (at'.step \in {"chimney", "singles", "boilers"} /\ at'.n = 1)
    BY <1>5, <2>2, <2>3, ReadOnceGoes
  <2>5. \A t \in {"chimney", "singles", "boilers"} : t \in Steps /\ Ahead(t) = Ahead(at.step)
    BY <2>1, AheadOf DEF Steps, Exists, Repeated
  <2>6. CASE at'.step = at.step
    BY <2>1, <2>4, <2>6 DEF SoFar
  <2>7. CASE at'.step \in {"chimney", "singles", "boilers"} /\ at'.n = 1
    BY <2>1, <2>4, <2>5, <2>7, StartSoFar
  <2> QED
    BY <2>4, <2>6, <2>7
<1> QED
  BY <1>2, <1>3, <1>4, <1>5

(* What a sweep does when the answers are true.                            *)
LEMMA TrueSweep ==
  ASSUME IInv, BlockInv, NEW c \in Repeated, Sweep(c), Truthful'
  PROVE  /\ at.step = c /\ at.n \in Nat \ {0} /\ at.n <= MaxCount[c]
         /\ MaxCount[c] \in Nat \ {0}
         /\ found'.counts = [found.counts EXCEPT
              ![c] = IF at.n <= real.installed[c] THEN @ + 1 ELSE @]
         /\ found'.block200 = (found.block200 \/
              (c = "heating_circuits" /\ real.system = "Therminator"))
         /\ found'.seen = found.seen /\ found'.system = found.system
         /\ found'.confident = found.confident
         /\ \/ at.n < MaxCount[c] /\ at'.step = c /\ at'.n = at.n + 1
            \/ at.n = MaxCount[c] /\ at'.step = AfterSweep(c) /\ at'.n = 1
<1>1. /\ at.step = c /\ at.n \in Nat \ {0} /\ at.n <= MaxCount[c]
      /\ MaxCount[c] \in Nat \ {0} /\ found \in Findings
  BY MaxCountIsPositive DEF IInv, TypeOK, SweepInv, Sweep
<1>2. Truthful /\ odd' = 0
  BY ProbeGoes DEF Probe, Truthful
<1>3. c \in DOMAIN found.offset => found.offset[c] = RealOffset(c)
  <2>1. DOMAIN found.offset = {"heating_circuits", "buffers"}
    BY <1>1 DEF Findings
  <2> QED
    BY <1>1, <1>2, <2>1 DEF BlockInv
<1>4. PICK words \in Instance(c, at.n) \cup Garbled(Instance(c, at.n)) :
        /\ Answers(words, Instance(c, at.n))
        /\ found' = [found EXCEPT
             !.counts[c] = IF There(c, words) THEN @ + 1 ELSE @,
             !.block200 = @ \/ (c = "heating_circuits" /\ Present(words[1]) /\ words[1] >= 200)]
  BY DEF Sweep
<1>5. words \in Instance(c, at.n)
  BY <1>2, <1>4, TrueAnswer DEF IInv
<1>6. /\ There(c, words) <=> at.n <= real.installed[c]
      /\ c = "heating_circuits" =>
           (Present(words[1]) /\ words[1] >= 200 <=> real.system = "Therminator")
  BY <1>1, <1>3, <1>5, InstanceSpeaks
<1> DEFINE high == c = "heating_circuits" /\ Present(words[1]) /\ words[1] >= 200
           more == There(c, words)
<1>7. /\ found'.counts = [found.counts EXCEPT ![c] = IF more THEN @ + 1 ELSE @]
      /\ found'.block200 = (found.block200 \/ high)
      /\ found'.seen = found.seen /\ found'.system = found.system
      /\ found'.confident = found.confident
  <2> HIDE DEF high, more
  <2>1. found' = [found EXCEPT !.counts[c] = IF more THEN @ + 1 ELSE @,
                               !.block200 = @ \/ high]
    BY <1>4 DEF high, more
  <2> QED
    BY <1>1, <2>1 DEF Findings
<1>8. (high <=> c = "heating_circuits" /\ real.system = "Therminator")
      /\ (more <=> at.n <= real.installed[c])
  BY <1>6
<1>9. \/ at.n < MaxCount[c] /\ at'.step = c /\ at'.n = at.n + 1
      \/ at.n = MaxCount[c] /\ at'.step = AfterSweep(c) /\ at'.n = 1
  <2>1. CASE at.n < MaxCount[c]
    BY <1>1, <2>1 DEF Sweep, AfterInstance, IInv, TypeOK
  <2>2. CASE ~ (at.n < MaxCount[c])
    BY <1>1, <2>2, SweepOrder, Begins DEF Sweep, AfterInstance
  <2> QED
    BY <2>1, <2>2
<1>10. found'.counts = [found.counts EXCEPT ![c] = IF at.n <= real.installed[c] THEN @ + 1 ELSE @]
  <2> HIDE DEF more
  <2> QED
    BY <1>7, <1>8
<1>11. found'.block200 = (found.block200 \/
         (c = "heating_circuits" /\ real.system = "Therminator"))
  <2> HIDE DEF high
  <2> QED
    BY <1>7, <1>8
<1> QED
  BY <1>1, <1>7, <1>9, <1>10, <1>11

LEMMA ProbeCounts == ASSUME IInv, BlockInv, CountInv, Probe PROVE CountInv'
<1> SUFFICES ASSUME Truthful', NEW d \in Repeated
             PROVE  found'.counts[d] = AtMost(SoFar(d)', real.installed[d])
  BY ProbeGoes DEF CountInv, AtMost
<1>1. /\ found.counts[d] = AtMost(SoFar(d), real.installed[d])
      /\ real.installed[d] \in Nat /\ real.installed[d] <= MaxCount[d]
      /\ MaxCount[d] \in Nat \ {0} /\ found.counts \in [Repeated -> Nat]
  BY ProbeGoes, RealController, MaxCountIsPositive
  DEF CountInv, IInv, TypeOK, Components, Findings
<1>2. CASE AskForTwo \/ Marker \/ CircuitBlock \/ BufferBlock \/ HeatPumpBlock
           \/ ReadOnce \/ Chimney
  BY <1>1, <1>2, OtherSoFar
<1>3. ASSUME NEW c \in Repeated, Sweep(c)
      PROVE  found'.counts[d] = AtMost(SoFar(d)', real.installed[d])
  <2>1. /\ at.step = c /\ at.n \in Nat \ {0} /\ at.n <= MaxCount[c]
        /\ found'.counts = [found.counts EXCEPT
             ![c] = IF at.n <= real.installed[c] THEN @ + 1 ELSE @]
        /\ \/ at.n < MaxCount[c] /\ at'.step = c /\ at'.n = at.n + 1
           \/ at.n = MaxCount[c] /\ at'.step = AfterSweep(c) /\ at'.n = 1
    BY <1>3, TrueSweep
  <2>2. CASE d = c
    <3>1. found.counts[d] = AtMost(at.n - 1, real.installed[d])
      BY <1>1, <2>1, <2>2 DEF SoFar
    <3>2. found'.counts[d] = AtMost(at.n, real.installed[d])
      BY <1>1, <2>1, <2>2, <3>1 DEF AtMost
    <3>3. AtMost(SoFar(d)', real.installed[d]) = AtMost(at.n, real.installed[d])
      <4>1. CASE at'.step = c /\ at'.n = at.n + 1
        BY <2>1, <2>2, <4>1 DEF SoFar
      <4>2. CASE at.n = MaxCount[c] /\ at'.step = AfterSweep(c) /\ at'.n = 1
        <5>1. d # AfterSweep(c) /\ d \notin Ahead(AfterSweep(c))
          BY <2>2, SweepMoves DEF AfterSweep, Repeated
        <5> QED
          BY <2>2, <4>2, <5>1 DEF SoFar
      <4> QED
        BY <2>1, <4>1, <4>2
    <3> QED
      BY <3>2, <3>3
  <2>3. CASE d # c
    <3>1. found'.counts[d] = found.counts[d]
      BY <1>1, <2>1, <2>3
    <3>2. SoFar(d) = IF d \in Ahead(c) THEN 0 ELSE MaxCount[d]
      BY <2>1, <2>3 DEF SoFar
    <3>3. SoFar(d)' = IF d \in Ahead(c) THEN 0 ELSE MaxCount[d]
      <4>1. CASE at'.step = c
        BY <2>3, <4>1 DEF SoFar
      <4>2. CASE at'.step = AfterSweep(c) /\ at'.n = 1
        BY <2>3, <4>2, SweepMoves DEF SoFar
      <4> QED
        BY <2>1, <4>1, <4>2
    <3> QED
      BY <1>1, <3>1, <3>2, <3>3
  <2> QED
    BY <2>2, <2>3
<1> QED
  BY <1>2, <1>3 DEF Probe

-----------------------------------------------------------------------------
(* The registers that are read once.                                       *)
LEMMA OnceTable ==
  /\ Generator[1] = "supply" /\ Generator[2] = "return" /\ Generator[3] = "heat_pump_state"
  /\ Generator[4] = "temperature" /\ Generator[5] = "operating_mode"
  /\ Generator[6] = "octoplus_top" /\ Generator[7] = "log_wood"
  /\ Generator[8] = "pellets" /\ Generator[9] = "minutes"
  /\ Single[1] = "photovoltaic" /\ Single[2] = "fresh_water_module_cascade"
  /\ Single[3] = "circulation_module"
BY DEF Generator, Single

AskedOnce == {"supply", "return", "heat_pump_state", "temperature", "operating_mode",
              "octoplus_top", "log_wood", "pellets", "minutes"} \cup Singles

LEMMA OnceRegisters ==
  ASSUME NEW s \in DOMAIN Once, NEW n \in DOMAIN Once[s]
  PROVE  /\ s = "generator" => Once[s][n] \in AskedOnce \ Singles
         /\ s = "singles" => Once[s][n] \in Singles
         /\ s = "generator" /\ n = 1 => Once[s][n] = "supply"
         /\ s = "generator" /\ n > 1 => "supply" \in {Once[s][k] : k \in 1..(n - 1)}
<1>1. CASE s = "generator"
  <2>1. n \in 1..9 /\ Once[s] = Generator
    BY <1>1, OnceSteps, OnceLengths
  <2>2. Generator[n] \in AskedOnce \ Singles
    BY <2>1, OnceTable DEF AskedOnce, Singles
  <2>3. n > 1 => 1 \in 1..(n - 1)
    BY <2>1
  <2> QED
    BY <1>1, <2>1, <2>2, <2>3, OnceTable
<1>2. CASE s = "singles"
  <2>1. n \in 1..3 /\ Once[s] = Single
    BY <1>2, OnceSteps, OnceLengths
  <2> QED
    BY <1>2, <2>1, OnceTable DEF Singles
<1> QED
  BY <1>1, <1>2, OnceSteps

(* What a register holds, and so whether it speaks.                        *)
LEMMA RegisterSpeaks ==
  ASSUME IInv, NEW register \in AskedOnce, NEW v \in Holds(register),
         register = "heat_pump_state" => found.modern = (real.firmware >= 25030)
  PROVE  /\ register \in {"supply", "return", "heat_pump_state"} /\ Tells(register, v) => ~ Boiling
         /\ register = "supply" /\ ~ Boiling => Tells(register, v)
         /\ register = "octoplus_top" /\ Tells(register, v) => real.system = "Octoplus"
         /\ register \in {"log_wood", "operating_mode"} /\ Tells(register, v)
              => real.system = "Therminator"
         /\ register \in Singles => (Tells(register, v) <=> real.installed[register] = 1)
<1> USE DEF Present, None
<1>1. CASE register \in {"supply", "return"}
  BY <1>1 DEF Holds, Tells, Live, NoSensor, Singles
<1>2. CASE register = "heat_pump_state"
  BY <1>2 DEF Holds, Tells, Live, NoSensor, Singles
<1>3. CASE register = "octoplus_top"
  BY <1>3 DEF Holds, Tells, PlausibleBuffer, Live, NoSensor, Singles
<1>4. CASE register = "operating_mode"
  BY <1>4 DEF Holds, Tells, Singles
<1>5. CASE register = "log_wood"
  BY <1>5 DEF Holds, Tells, Live, NoSensor, Singles
<1>6. CASE register \in {"temperature", "pellets", "minutes"}
  BY <1>6 DEF Singles
<1>7. CASE register \in Singles
  <2>1. v = IF real.installed[register] = 1 THEN 300 ELSE 0
    BY <1>7 DEF Holds, Singles
  <2>2. CASE register = "photovoltaic"
    BY <2>1, <2>2 DEF Tells, Configured
  <2>3. CASE register \in {"fresh_water_module_cascade", "circulation_module"}
    BY <2>1, <2>3 DEF Tells, Live, NoSensor
  <2>4. register \notin {"supply", "return", "heat_pump_state", "octoplus_top", "log_wood",
                        "operating_mode"}
    BY <1>7 DEF Singles
  <2> QED
    BY <1>7, <2>2, <2>3, <2>4 DEF Singles
<1> QED
  BY <1>1, <1>2, <1>3, <1>4, <1>5, <1>6, <1>7 DEF AskedOnce

LEMMA OneMoreTrue ==
  ASSUME IInv, NEW register \in AskedOnce, NEW v \in Holds(register),
         register = "heat_pump_state" => found.modern = (real.firmware >= 25030),
         NEW seen, NEW heard, TrueOf(seen, heard)
  PROVE  TrueOf(seen \cup (IF Tells(register, v) THEN {register} ELSE {}),
                heard \cup {register})
<1> DEFINE tells == Tells(register, v)
           more == seen \cup (IF tells THEN {register} ELSE {})
<1>1. /\ register \in {"supply", "return", "heat_pump_state"} /\ tells => ~ Boiling
      /\ register = "supply" /\ ~ Boiling => tells
      /\ register = "octoplus_top" /\ tells => real.system = "Octoplus"
      /\ register \in {"log_wood", "operating_mode"} /\ tells => real.system = "Therminator"
      /\ register \in Singles => (tells <=> real.installed[register] = 1)
  BY RegisterSpeaks
<1> HIDE DEF tells
<1>2. more \subseteq heard \cup {register}
  BY DEF TrueOf
<1>3. \A c \in (heard \cup {register}) \cap Singles : c \in more <=> real.installed[c] = 1
  BY <1>1 DEF TrueOf
<1>4. HasHeatPump(more) => ~ Boiling
  BY <1>1 DEF TrueOf, HasHeatPump
<1>5. "supply" \in heard \cup {register} /\ ~ Boiling => "supply" \in more
  BY <1>1 DEF TrueOf
<1>6. "octoplus_top" \in more => real.system = "Octoplus"
  BY <1>1 DEF TrueOf
<1>7. more \cap {"log_wood", "operating_mode"} # {} => real.system = "Therminator"
  BY <1>1 DEF TrueOf
<1>8. TrueOf(more, heard \cup {register})
  BY <1>2, <1>3, <1>4, <1>5, <1>6, <1>7 DEF TrueOf
<1> QED
  BY <1>8 DEF tells

LEMMA NothingIsTrue == TrueOf({}, {})
BY DEF TrueOf, HasHeatPump

(* What has been heard of at a step, and at the next.                       *)
LEMMA HeardAfter ==
  /\ \A s \in Exists \cup {"heating_circuits", "raised"} : at'.step = s => Heard' = {}
  /\ \A s \in (Repeated \ {"heating_circuits"}) \cup {"done"} : at'.step = s => Heard' = Singles
  /\ \A s \in DOMAIN Once :
       at'.step = s => Heard' = {Once[s][k] : k \in 1..(at'.n - 1)}
BY StepsApart, OnceSteps DEF Heard, Exists, Repeated

LEMMA HeardNow ==
  /\ \A s \in Exists \cup {"heating_circuits", "raised"} : at.step = s => Heard = {}
  /\ \A s \in (Repeated \ {"heating_circuits"}) \cup {"done"} : at.step = s => Heard = Singles
  /\ \A s \in DOMAIN Once :
       at.step = s => Heard = {Once[s][k] : k \in 1..(at.n - 1)}
BY StepsApart, OnceSteps DEF Heard, Exists, Repeated

(* A read of a register that is answered truly keeps what is seen true.    *)
LEMMA TrueRead ==
  ASSUME IInv, BlockInv, SeenInv, ReadOnce, Truthful',
         NEW words, Answers(words, AnyOf(Holds(Once[at.step][at.n])))
  PROVE  /\ Heard \cup {Once[at.step][at.n]} = {Once[at.step][k] : k \in 1..at.n}
         /\ TrueOf(Spoke(Once[at.step][at.n], words), Heard \cup {Once[at.step][at.n]})
<1> DEFINE register == Once[at.step][at.n]
<1>1. /\ at.step \in {"generator", "singles"} /\ at.n \in DOMAIN Once[at.step]
      /\ Truthful /\ odd' = 0 /\ at.n \in Nat \ {0}
  BY ReadOnceGoes, ProbeGoes DEF Probe, Truthful, IInv, TypeOK
<1>2. Heard = {Once[at.step][k] : k \in 1..(at.n - 1)}
  BY <1>1, OnceSteps, HeardNow
<1>3. words \in AnyOf(Holds(register))
  BY <1>1, TrueAnswer DEF IInv
<1>4. words[1] \in Holds(register)
  BY <1>3 DEF AnyOf
<1>5. register \in AskedOnce
  BY <1>1, OnceSteps, OnceRegisters DEF AskedOnce
<1>6. found.modern = (real.firmware >= 25030)
  BY <1>1 DEF BlockInv, Exists
<1>7. TrueOf(found.seen, Heard)
  BY <1>1 DEF SeenInv
<1>8. TrueOf(Spoke(register, words), Heard \cup {register})
  BY <1>4, <1>5, <1>6, <1>7, OneMoreTrue DEF Spoke
<1>9. Heard \cup {register} = {Once[at.step][k] : k \in 1..at.n}
  <2>1. 1..at.n = (1..(at.n - 1)) \cup {at.n}
    BY <1>1
  <2> QED
    BY <1>2, <2>1
<1> QED
  BY <1>8, <1>9

LEMMA ProbeSees == ASSUME IInv, BlockInv, SeenInv, Probe PROVE SeenInv'
<1> SUFFICES ASSUME Truthful' PROVE TrueOf(found'.seen, Heard')
  BY ProbeGoes DEF SeenInv, TrueOf, Boiling
<1>1. Truthful /\ TrueOf(found.seen, Heard) /\ found \in Findings
  BY ProbeGoes DEF SeenInv, IInv, TypeOK
<1>2. CASE AskForTwo
  <2>1. at'.step = at.step /\ found' = found /\ at.step \in Exists
    BY <1>2 DEF IInv, TypeOK, AskForTwo
  <2>2. Heard' = {} /\ Heard = {}
    BY <2>1, HeardAfter, HeardNow
  <2> QED
    BY <1>1, <2>1, <2>2
<1>3. CASE Marker \/ CircuitBlock \/ BufferBlock \/ HeatPumpBlock
  <2>1. /\ at.step \in Exists /\ found'.seen = found.seen
        /\ at'.step \in Exists \cup {"heating_circuits"}
    <3>1. CASE Marker
      BY <1>1, <3>1, MarkerGoes DEF Marker, Exists, Findings
    <3>2. CASE CircuitBlock \/ BufferBlock \/ HeatPumpBlock
      BY <1>1, <3>2 DEF CircuitBlock, BufferBlock, HeatPumpBlock, Exists, Findings, Start
    <3> QED
      BY <1>3, <3>1, <3>2
  <2>2. Heard' = {} /\ Heard = {}
    BY <2>1, HeardAfter, HeardNow
  <2> QED
    BY <1>1, <2>1, <2>2
<1>4. ASSUME NEW c \in Repeated, Sweep(c) PROVE TrueOf(found'.seen, Heard')
  <2>1. /\ at.step = c /\ found'.seen = found.seen
        /\ \/ at'.step = c
           \/ at'.step = AfterSweep(c) /\ at'.n = 1
    BY <1>4, TrueSweep
  <2>2. CASE c = "heating_circuits"
    <3>1. AfterSweep(c) = "generator" /\ 1..0 = {}
      BY <2>2 DEF AfterSweep
    <3>2. Heard' = {} /\ Heard = {}
      BY <2>1, <2>2, <3>1, HeardAfter, HeardNow, OnceSteps
    <3> QED
      BY <1>1, <2>1, <3>2
  <2>3. CASE c # "heating_circuits"
    <3>1. AfterSweep(c) \in (Repeated \ {"heating_circuits"}) \cup {"done"}
      BY <2>3 DEF AfterSweep, Repeated
    <3>2. Heard' = Singles /\ Heard = Singles
      BY <2>1, <2>3, <3>1, HeardAfter, HeardNow
    <3> QED
      BY <1>1, <2>1, <3>2
  <2> QED
    BY <2>2, <2>3
<1>5. CASE ReadOnce
  <2>1. at.step \in {"generator", "singles"} /\ at.n \in DOMAIN Once[at.step] /\ at.n \in Nat
    BY <1>5, ReadOnceGoes DEF IInv, TypeOK
  <2>2. PICK words :
          /\ Answers(words, AnyOf(Holds(Once[at.step][at.n])))
          /\ \/ /\ at.n < Len(Once[at.step])
                /\ found' = [found EXCEPT !.seen = Spoke(Once[at.step][at.n], words)]
                /\ at'.step = at.step /\ at'.n = at.n + 1
             \/ /\ at.step = "generator" /\ at.n = 9
                /\ Decide(Spoke(Once[at.step][at.n], words))
             \/ /\ at.step = "singles" /\ at.n = 3
                /\ found' = [found EXCEPT !.seen = Spoke(Once[at.step][at.n], words)]
                /\ at'.step = "boilers" /\ at'.n = 1
    BY <1>5, ReadOnceGoes
  <2> DEFINE seen == Spoke(Once[at.step][at.n], words)
  <2>3. TrueOf(seen, {Once[at.step][k] : k \in 1..at.n})
    BY <1>5, <2>2, TrueRead
  <2> HIDE DEF seen
  <2>4. CASE /\ at.n < Len(Once[at.step])
             /\ found' = [found EXCEPT !.seen = seen]
             /\ at'.step = at.step /\ at'.n = at.n + 1
    <3>1. at'.n - 1 = at.n /\ found'.seen = seen
      BY <1>1, <2>1, <2>4 DEF Findings
    <3>2. Heard' = {Once[at.step][k] : k \in 1..at.n}
      BY <2>1, <2>4, <3>1, HeardAfter, OnceSteps
    <3> QED
      BY <2>3, <3>1, <3>2
  <2>5. CASE at.step = "generator" /\ Decide(seen)
    <3>1. found'.seen = {} /\ (at'.step = "chimney" \/ (at'.step = "singles" /\ at'.n = 1))
      BY <2>5, DecideGoes DEF Start
    <3>2. Heard' = {}
      <4>1. 1..0 = {}
        OBVIOUS
      <4> QED
        BY <3>1, <4>1, HeardAfter, OnceSteps DEF Exists
    <3> QED
      BY <3>1, <3>2, NothingIsTrue
  <2>6. CASE /\ at.step = "singles" /\ at.n = 3
             /\ found' = [found EXCEPT !.seen = seen]
             /\ at'.step = "boilers"
    <3>1. found'.seen = seen /\ Heard' = Singles
      BY <1>1, <2>6, HeardAfter DEF Findings, Repeated
    <3>2. {Once[at.step][k] : k \in 1..at.n} = Singles
      BY <2>6, OnceSteps, OnceTable DEF Singles
    <3> QED
      BY <2>3, <3>1, <3>2
  <2> QED
    BY <2>2, <2>4, <2>5, <2>6 DEF seen
<1>6. CASE Chimney
  <2>1. at.step = "chimney" /\ found'.seen = found.seen /\ at'.step = "singles" /\ at'.n = 1
    BY <1>1, <1>6 DEF Chimney, Findings, Start
  <2>2. 1..0 = {}
    OBVIOUS
  <2>3. Heard' = {} /\ Heard = {}
    BY <2>1, <2>2, HeardAfter, HeardNow, OnceSteps DEF Exists
  <2> QED
    BY <1>1, <2>1, <2>3
<1> QED
  BY <1>2, <1>3, <1>4, <1>5, <1>6 DEF Probe

-----------------------------------------------------------------------------
(* The system.  What speaks, if it speaks truly, leads to it.              *)
LEMMA SystemRight ==
  ASSUME IInv, NEW seen, NEW heard, TrueOf(seen, heard), "supply" \in heard,
         NEW block200 \in BOOLEAN, block200 <=> real.system = "Therminator"
  PROVE  /\ SystemOf(seen, block200) = "open" =>
              real.system \in {"Ecotop", "Pellet_Elegance", "Octoplus"}
         /\ SystemOf(seen, block200) # "open" /\ (HasHeatPump(seen) \/ HasBiomassBoiler(seen)) =>
              SystemOf(seen, block200) = real.system
<1>1. /\ real.system \in Systems
      /\ HasHeatPump(seen) <=> real.system = "Vampair"
      /\ "octoplus_top" \in seen => real.system = "Octoplus"
      /\ seen \cap {"log_wood", "operating_mode"} # {} => real.system = "Therminator"
  BY RealController DEF TrueOf, IInv, Boiling, HasHeatPump
<1> DEFINE pump == HasHeatPump(seen)
           boiler == HasBiomassBoiler(seen)
           top == "octoplus_top" \in seen
           logs == seen \cap {"log_wood", "operating_mode"} # {}
<1>2. SystemOf(seen, block200) = IF pump \/ ~ boiler THEN "Vampair"
                                 ELSE IF top THEN "Octoplus"
                                 ELSE IF logs \/ block200 THEN "Therminator" ELSE "open"
  BY DEF SystemOf
<1> HIDE DEF pump, boiler, top, logs
<1>3. /\ pump <=> real.system = "Vampair"
      /\ top => real.system = "Octoplus"
      /\ logs => real.system = "Therminator"
  BY <1>1 DEF pump, top, logs
<1>4. SystemOf(seen, block200) = "open" => real.system \in {"Ecotop", "Pellet_Elegance", "Octoplus"}
  BY <1>1, <1>2, <1>3 DEF Systems
<1>5. SystemOf(seen, block200) # "open" /\ (pump \/ boiler) => SystemOf(seen, block200) = real.system
  BY <1>1, <1>2, <1>3
<1> QED
  BY <1>4, <1>5 DEF pump, boiler

LEMMA ProbeFindsSystem ==
  ASSUME IInv, BlockInv, SeenInv, SystemInv, Probe PROVE SystemInv'
<1> SUFFICES ASSUME Truthful'
             PROVE  /\ found'.block200 => real.system = "Therminator"
                    /\ CircuitRead' /\ real.system = "Therminator" => found'.block200
                    /\ at'.step = "chimney" =>
                         real.system \in {"Ecotop", "Pellet_Elegance", "Octoplus"}
                    /\ at'.step \in (Repeated \ {"heating_circuits"}) \cup {"singles", "done"} =>
                         FoundSystem'
  BY ProbeGoes DEF SystemInv
<1>1. /\ found \in Findings /\ real' = real
      /\ found.block200 => real.system = "Therminator"
      /\ CircuitRead /\ real.system = "Therminator" => found.block200
      /\ at.step = "chimney" => real.system \in {"Ecotop", "Pellet_Elegance", "Octoplus"}
      /\ at.step \in (Repeated \ {"heating_circuits"}) \cup {"singles", "done"} => FoundSystem
  BY ProbeGoes DEF SystemInv, IInv, TypeOK
<1>2. CASE AskForTwo
  <2>1. at'.step = at.step /\ at'.n = at.n /\ found' = found /\ at.step \in Exists
    BY <1>2 DEF IInv, TypeOK, AskForTwo
  <2> QED
    BY <1>1, <2>1, StepsApart DEF CircuitRead, FoundSystem
<1>3. CASE Marker \/ CircuitBlock \/ BufferBlock \/ HeatPumpBlock
  <2>1. /\ found'.block200 = found.block200
        /\ at'.step \in Exists \ {"chimney"} \/ (at'.step = "heating_circuits" /\ at'.n = 1)
    <3>1. CASE Marker
      BY <1>1, <3>1, MarkerGoes DEF Marker, Exists, Findings
    <3>2. CASE CircuitBlock \/ BufferBlock \/ HeatPumpBlock
      BY <1>1, <3>2 DEF CircuitBlock, BufferBlock, HeatPumpBlock, Exists, Findings, Start
    <3> QED
      BY <1>3, <3>1, <3>2
  <2> QED
    BY <1>1, <2>1 DEF CircuitRead, Exists, Repeated
<1>4. ASSUME NEW c \in Repeated, Sweep(c)
      PROVE  /\ found'.block200 => real.system = "Therminator"
             /\ CircuitRead' /\ real.system = "Therminator" => found'.block200
             /\ at'.step # "chimney"
             /\ at'.step \in (Repeated \ {"heating_circuits"}) \cup {"singles", "done"} =>
                  FoundSystem'
  <2>1. /\ at.step = c
        /\ found'.block200 = (found.block200 \/
             (c = "heating_circuits" /\ real.system = "Therminator"))
        /\ found'.system = found.system /\ found'.confident = found.confident
        /\ at'.step = c \/ at'.step = AfterSweep(c)
    BY <1>4, TrueSweep
  <2>2. CASE c = "heating_circuits"
    <3>1. at'.step \in {"heating_circuits", "generator"}
      BY <2>1, <2>2 DEF AfterSweep
    <3> QED
      BY <1>1, <2>1, <2>2, <3>1 DEF Repeated
  <2>3. CASE c # "heating_circuits"
    <3>1. CircuitRead /\ at'.step # "chimney" /\ FoundSystem
      BY <1>1, <2>1, <2>3, StepsApart DEF CircuitRead, AfterSweep, Repeated
    <3> QED
      BY <1>1, <2>1, <2>3, <3>1 DEF FoundSystem
  <2> QED
    BY <2>2, <2>3
<1>5. CASE ReadOnce
  <2>1. /\ at.step \in {"generator", "singles"} /\ at.n \in DOMAIN Once[at.step]
        /\ CircuitRead
    <3>1. at.step \in {"generator", "singles"} /\ at.n \in DOMAIN Once[at.step]
      BY <1>5, ReadOnceGoes
    <3> QED
      BY <3>1 DEF CircuitRead, Exists
  <2>2. PICK words :
          /\ Answers(words, AnyOf(Holds(Once[at.step][at.n])))
          /\ \/ /\ at.n < Len(Once[at.step])
                /\ found' = [found EXCEPT !.seen = Spoke(Once[at.step][at.n], words)]
                /\ at'.step = at.step /\ at'.n = at.n + 1
             \/ /\ at.step = "generator" /\ at.n = 9
                /\ Decide(Spoke(Once[at.step][at.n], words))
             \/ /\ at.step = "singles" /\ at.n = 3
                /\ found' = [found EXCEPT !.seen = Spoke(Once[at.step][at.n], words)]
                /\ at'.step = "boilers" /\ at'.n = 1
    BY <1>5, ReadOnceGoes
  <2> DEFINE seen == Spoke(Once[at.step][at.n], words)
  <2>3. TrueOf(seen, {Once[at.step][k] : k \in 1..at.n})
    BY <1>5, <2>2, TrueRead
  <2> HIDE DEF seen
  <2>4. CASE /\ found' = [found EXCEPT !.seen = seen]
             /\ at'.step = at.step \/ (at.step = "singles" /\ at'.step = "boilers")
    <3>1. /\ found'.block200 = found.block200 /\ found'.system = found.system
          /\ found'.confident = found.confident
      BY <1>1, <2>4 DEF Findings
    <3>2. at'.step \in {"generator", "singles", "boilers"} /\ (at'.step # "generator" => FoundSystem)
      BY <1>1, <2>1, <2>4
    <3> QED
      BY <1>1, <2>1, <3>1, <3>2 DEF Repeated, FoundSystem
  <2>5. CASE at.step = "generator" /\ at.n = 9 /\ Decide(seen)
    <3>1. "supply" \in {Once[at.step][k] : k \in 1..at.n}
      <4>1. 1 \in 1..9
        OBVIOUS
      <4> QED
        BY <2>5, <4>1, OnceSteps, OnceTable
    <3>2. found.block200 \in BOOLEAN /\ (found.block200 <=> real.system = "Therminator")
      BY <1>1, <2>1 DEF Findings
    <3>3. /\ SystemOf(seen, found.block200) = "open" =>
               real.system \in {"Ecotop", "Pellet_Elegance", "Octoplus"}
          /\ SystemOf(seen, found.block200) # "open" /\ (HasHeatPump(seen) \/ HasBiomassBoiler(seen)) =>
               SystemOf(seen, found.block200) = real.system
      BY <2>3, <3>1, <3>2, SystemRight
    <3>4. /\ found'.block200 = found.block200
          /\ found'.confident = (HasHeatPump(seen) \/ HasBiomassBoiler(seen))
          /\ \/ /\ SystemOf(seen, found.block200) = "open" /\ at'.step = "chimney"
             \/ /\ SystemOf(seen, found.block200) # "open" /\ at'.step = "singles"
                /\ found'.system = SystemOf(seen, found.block200)
      BY <2>5, DecideGoes DEF Start
    <3> QED
      BY <1>1, <3>2, <3>3, <3>4 DEF FoundSystem, Repeated
  <2> QED
    BY <2>2, <2>4, <2>5 DEF seen
<1>6. CASE Chimney
  <2>1. /\ at.step = "chimney" /\ at'.step = "singles"
        /\ found'.block200 = found.block200
        /\ found'.system \in {"Ecotop", "Pellet_Elegance"}
    <3>1. PICK yes \in BOOLEAN :
            /\ at.step = "chimney"
            /\ found' = [found EXCEPT !.system = IF yes THEN "Pellet_Elegance" ELSE "Ecotop"]
            /\ at' = Start("singles")
      BY <1>6 DEF Chimney
    <3> QED
      BY <1>1, <3>1 DEF Findings, Start
  <2>2. CircuitRead
    BY <2>1 DEF CircuitRead, Exists
  <2> QED
    BY <1>1, <2>1, <2>2 DEF FoundSystem
<1> QED
  BY <1>2, <1>3, <1>4, <1>5, <1>6 DEF Probe

-----------------------------------------------------------------------------
(* The call.                                                               *)
LEMMA CallInitInv == CallInit => CallInv
<1> SUFFICES ASSUME CallInit PROVE CallInv
  OBVIOUS
<1>1. IInv /\ Init /\ at.step = "marker" /\ at.n = 1 /\ found = NoFinding
  BY InitInv, Begins DEF CallInit, Init, Start
<1>2. DatedInv
  <2>1. 20110 <= Dated(real.firmware)
    BY <1>1, RealController DEF IInv, Dated, Versions
  <2>2. \A k \in 1..(at.n - 1) : FALSE
    BY <1>1
  <2> QED
    BY <1>1, <2>1, <2>2 DEF DatedInv, NoFinding
<1>3. BlockInv
  BY <1>1 DEF BlockInv, Exists
<1>4. CountInv
  <2> SUFFICES ASSUME NEW c \in Repeated
               PROVE  found.counts[c] = AtMost(SoFar(c), real.installed[c])
    BY DEF CountInv
  <2>1. found.counts[c] = 0 /\ real.installed[c] \in Nat
    BY <1>1, RealController DEF NoFinding, IInv, Components
  <2>2. SoFar(c) = 0
    BY <1>1, AheadOf DEF SoFar, Repeated
  <2> QED
    BY <2>1, <2>2 DEF AtMost
<1>5. SeenInv
  <2>1. Heard = {} /\ found.seen = {}
    BY <1>1, HeardNow DEF Exists, NoFinding
  <2> QED
    BY <2>1, NothingIsTrue DEF SeenInv
<1>6. SystemInv
  BY <1>1 DEF SystemInv, CircuitRead, NoFinding, Exists, Repeated
<1>7. LinkInv
  BY <1>1 DEF CallInit, LinkInv, LinkAsPromised, CallOver
<1> QED
  BY <1>1, <1>2, <1>3, <1>4, <1>5, <1>6, <1>7 DEF CallInv, DetectInv

(* A run that is raised out of concludes nothing.                          *)
LEMMA RaisesKeeps == ASSUME DetectInv, Raises PROVE DetectInv'
<1>1. IInv'
  BY RaisesStep DEF DetectInv
<1>2. at'.step = "raised" /\ found' = NoFinding /\ real' = real
  BY DEF Raises, Start
<1>3. ~ Truthful'
  BY <1>2 DEF Truthful
<1>4. DatedInv'
  <2>1. 20110 <= Dated(real.firmware)
    BY RealController DEF DetectInv, IInv, Dated, Versions
  <2> QED
    BY <1>2, <1>3, <2>1 DEF DatedInv, NoFinding
<1> QED
  BY <1>1, <1>3, <1>4 DEF DetectInv, BlockInv, CountInv, SeenInv, SystemInv

LEMMA ProbeKeeps == ASSUME DetectInv, Probe PROVE DetectInv'
<1>1. IInv /\ DatedInv /\ BlockInv /\ CountInv /\ SeenInv /\ SystemInv
  BY DEF DetectInv
<1>2. IInv'
  BY <1>1, StepIInv DEF Next
<1> QED
  BY <1>1, <1>2, ProbeDates, ProbeBlocks, ProbeCounts, ProbeSees, ProbeFindsSystem DEF DetectInv

LEMMA SameKeeps == ASSUME DetectInv, UNCHANGED vars PROVE DetectInv'
BY SMTT(60) DEF DetectInv, vars, IInv, TypeOK, SweepInv, SoFar, DatedInv, HasMarker, BlockInv, RealOffset,
   CountInv, SeenInv, Truthful, TrueOf, Heard, Boiling, SystemInv, CircuitRead, FoundSystem

(* A probe is asked by a run that is under way.                            *)
LEMMA ProbeUnderWay == ASSUME Probe PROVE at.step \notin {"done", "raised"}
BY StepsApart DEF Probe, AskForTwo, Marker, CircuitBlock, BufferBlock, HeatPumpBlock, Sweep,
   ReadOnce, Chimney, Exists

LEMMA StepCallInv == CallInv /\ [CallNext]_callVars => CallInv'
<1> SUFFICES ASSUME CallInv, [CallNext]_callVars PROVE CallInv'
  OBVIOUS
<1> USE DEF LinkInv, LinkAsPromised, CallOver
<1>1. DetectInv /\ LinkInv
  BY DEF CallInv
<1>2. DetectInv'
  <2>1. Probe \/ Raises \/ UNCHANGED vars
    BY DEF CallNext, Connects, ConnectFails, Probes, Breaks, Ends, callVars
  <2> QED
    BY <1>1, <2>1, ProbeKeeps, RaisesKeeps, SameKeeps
<1>3. LinkInv'
  <2>1. CASE Connects
    BY <1>1, <2>1 DEF Connects, vars
  <2>2. CASE ConnectFails
    BY <1>1, <2>2 DEF ConnectFails, Raises, Start
  <2>3. CASE Probes
    BY <1>1, <2>3, ProbeUnderWay DEF Probes
  <2>4. CASE Breaks
    BY <1>1, <2>4 DEF Breaks, Raises, Start
  <2>5. CASE Ends
    BY <1>1, <2>5 DEF Ends, vars
  <2>6. CASE UNCHANGED callVars
    BY <1>1, <2>6 DEF callVars, vars
  <2> QED
    BY <2>1, <2>2, <2>3, <2>4, <2>5, <2>6 DEF CallNext
<1> QED
  BY <1>2, <1>3 DEF CallInv

(* A call is a run of the detection, whoever's connection it uses.         *)
THEOREM CallRunsDetect == CallSpec => Spec
<1>1. CallInit => Init
  BY DEF CallInit
<1>2. [CallNext]_callVars => [Next]_vars
  BY DEF CallNext, Connects, ConnectFails, Probes, Breaks, Ends, callVars, Next
<1> QED
  BY <1>1, <1>2, PTL DEF CallSpec, Spec

(* At every probe a run without odd answers knows what the controller is,  *)
(* as far as it has asked; and a run under way is connected.               *)
THEOREM CallInvariance == CallSpec => []CallInv
<1> QED
  BY CallInitInv, StepCallInv, PTL DEF CallSpec

(* detect.py:101-118: odd answers can make a controller look older, never  *)
(* newer, than the newest registers it has.                                *)
THEOREM DatedByMarkers == CallSpec => []VersionDated
<1>1. CallInv => VersionDated
  BY DEF CallInv, DetectInv, DatedInv, VersionDated, Done, Truthful
<1> QED
  BY <1>1, CallInvariance, PTL

(* detect.py:339-422: the system is found, save for those that no register *)
(* tells apart.                                                            *)
THEOREM FindsSystem == CallSpec => []SystemFound
<1>1. CallInv => SystemFound
  BY DEF CallInv, DetectInv, SystemInv, SystemFound, Clean, Done, Truthful
<1> QED
  BY <1>1, CallInvariance, PTL

(* What a run has found when it is done, if every answer was true.         *)
LEMMA CleanFindings ==
  ASSUME CallInv, Clean
  PROVE  /\ found.version = Dated(real.firmware)
         /\ \A c \in Repeated : found.counts[c] = real.installed[c]
         /\ \A c \in Singles : c \in found.seen <=> real.installed[c] = 1
         /\ \A c \in {"heating_circuits", "buffers"} : found.offset[c] = RealOffset(c)
<1>1. at.step = "done" /\ Truthful /\ IInv /\ DatedInv /\ BlockInv /\ CountInv /\ SeenInv
  BY DEF CallInv, DetectInv, Clean, Done, Truthful
<1>2. \A c \in Repeated : found.counts[c] = real.installed[c]
  <2> TAKE c \in Repeated
  <2>1. SoFar(c) = MaxCount[c]
    BY <1>1, AheadOf, StepsApart DEF SoFar
  <2>2. /\ real.installed[c] \in Nat /\ real.installed[c] <= MaxCount[c]
        /\ MaxCount[c] \in Nat \ {0}
    BY <1>1, RealController, MaxCountIsPositive DEF IInv, Components
  <2> QED
    BY <1>1, <2>1, <2>2 DEF CountInv, AtMost
<1>3. \A c \in Singles : c \in found.seen <=> real.installed[c] = 1
  BY <1>1, HeardNow DEF SeenInv, TrueOf
<1> QED
  BY <1>1, <1>2, <1>3 DEF DatedInv, BlockInv, Exists

(* detect.py:176-182, 284-296, 424-490: what is installed is configured,   *)
(* up to what the firmware addresses, or reported.                         *)
THEOREM ConfiguresInstalled == CallSpec => []NothingVanishes
<1>1. CallInv => NothingVanishes
  <2> SUFFICES ASSUME CallInv, Clean, NEW c \in Components, Since(c) <= found.version
               PROVE  IF Available(c, found.version, found.system)
                      THEN Configures(c) = AtMost(real.installed[c], Limit(c, found.version))
                      ELSE Unsupported(c) <=> real.installed[c] > 0
    BY DEF NothingVanishes
  <2>1. /\ real.installed[c] \in Nat /\ real.installed[c] <= MaxCount[c]
        /\ MaxCount[c] \in Nat \ {0} /\ found.version \in Nat
        /\ c \in Singles => MaxCount[c] = 1
    BY RealController, MaxCountAssumption
    DEF CallInv, DetectInv, IInv, TypeOK, Findings, Versions
  <2>2. /\ Counted(c) = AtMost(real.installed[c], Limit(c, found.version))
        /\ Limit(c, found.version) \in Nat \ {0}
    <3>1. CASE c \in Singles
      <4>1. Limit(c, found.version) = 1 /\ real.installed[c] \in {0, 1}
        BY <2>1, <3>1 DEF Limit, Singles
      <4>2. c # "photovoltaic" => found.version >= 23040
        BY <2>1, <3>1 DEF Since, Singles
      <4>3. Counted(c) = IF real.installed[c] = 1 THEN 1 ELSE 0
        BY <3>1, <4>2, CleanFindings DEF Counted, CountedSingle
      <4> QED
        BY <4>1, <4>3 DEF AtMost
    <3>2. CASE c \notin Singles
      <4>1. c \in Repeated /\ Counted(c) = Clamped(c)
        BY <3>2 DEF Components, Counted
      <4>2. found.counts[c] = real.installed[c] /\ ~ (found.version < Since(c))
        BY <2>1, <4>1, CleanFindings DEF Since
      <4> QED
        BY <2>1, <4>1, <4>2 DEF Clamped, Limit, AtMost
    <3> QED
      BY <3>1, <3>2
  <2> QED
    BY <2>1, <2>2 DEF Configures, Unsupported, AtMost
<1> QED
  BY <1>1, CallInvariance, PTL

(* detect.py:298-313: with the right system and any firmware but 25.020,   *)
(* the configuration looks for the states where the run found them.        *)
THEOREM LooksWhereProbed == CallSpec => []StatesWhereProbed
<1>1. CallInv => StatesWhereProbed
  <2> SUFFICES ASSUME CallInv, Clean, found.system = real.system, real.firmware # 25020,
                      NEW c \in DOMAIN found.offset
               PROVE  Resolves(c) = found.offset[c]
    BY DEF StatesWhereProbed
  <2>1. c \in {"heating_circuits", "buffers"} /\ real.firmware \in Versions
    BY RealController DEF CallInv, DetectInv, IInv, TypeOK, Findings
  <2>2. Dated(real.firmware) >= 25030 <=> real.firmware >= 25030
    BY <2>1 DEF Dated, Versions
  <2> QED
    BY <2>1, <2>2, CleanFindings DEF Resolves, RealOffset, StateOffset
<1> QED
  BY <1>1, CallInvariance, PTL

(* detect.py:250-264, client.py:181-190: however a run ends, detect()      *)
(* leaves no socket behind, and a run over the client's connection has not *)
(* closed it.                                                              *)
THEOREM LinkKept == CallSpec => []LinkAsPromised
<1>1. CallInv => LinkAsPromised
  BY DEF CallInv, LinkInv
<1> QED
  BY <1>1, CallInvariance, PTL
=============================================================================
