-------------------------------- MODULE Detect --------------------------------
(***************************************************************************)
(* Detection (detect.py): one run that asks a controller, register by      *)
(* register, what it is and what is wired to it, and the configuration     *)
(* that is built from the answers (config.py, components/__init__.py).     *)
(*                                                                         *)
(* A step is one probe; the reads of one solar circuit or of one fresh     *)
(* water module, between which nothing is decided, are one step.  The      *)
(* controller is a machine of one system on one firmware with something    *)
(* installed (`real`), as the register tables of the library describe it.  *)
(* Any answer may come out odd: malformed, or an error other than "no such *)
(* register".  probe() returns None for these as it does for a refusal.    *)
(***************************************************************************)
EXTENDS Naturals, Sequences, FiniteSets

CONSTANTS MaxCount,       \* how many of a component a controller addresses
          Installations,  \* what may be installed, as counts of components
          MaxOdd          \* bound on the odd answers of one run

ASSUME MaxOddAssumption == MaxOdd \in Nat

Systems == {"Vampair", "Therminator", "Ecotop", "Pellet_Elegance", "Octoplus"}
Versions == {20110, 21140, 22090, 23010, 23020, 23040, 23080, 25020, 25030,
             25100, 26020}
Markers == <<26020, 25030, 23080, 23040, 23020, 23010, 22090, 21140>>
None == 65536  \* no 16-bit word

Repeated == {"heating_circuits", "buffers", "boilers", "fresh_water_modules",
             "circulations", "solar"}
Singles == {"fresh_water_module_cascade", "circulation_module", "photovoltaic"}
Components == Repeated \cup Singles

ASSUME MaxCountAssumption == /\ MaxCount \in [Components -> Nat \ {0}]
                             /\ \A c \in Singles : MaxCount[c] = 1
ASSUME InstallationsAssumption ==
  \A i \in Installations : /\ i \in [Components -> Nat]
                           /\ \A c \in Components : i[c] <= MaxCount[c]

(* The component table and what it says of one controller.                 *)
Since(c) == IF c = "fresh_water_modules" THEN 23020
            ELSE IF c \in {"fresh_water_module_cascade", "circulation_module"} THEN 23040
            ELSE IF c = "circulations" THEN 25030
            ELSE 20110
NotOnTherminator == {"fresh_water_modules", "fresh_water_module_cascade"}
Available(c, v, s) == Since(c) <= v /\ ~ (s = "Therminator" /\ c \in NotOnTherminator)
Limit(c, v) == IF c = "solar" /\ v < 25030 THEN 1 ELSE MaxCount[c]

(* Where a layout has the state of a heating circuit or a buffer.  25.030  *)
(* moved it; two systems have had that block on every firmware.            *)
StateOffset(c, v, s) ==
  IF v >= 25030 \/ s \in {"Therminator", "Ecotop"}
  THEN (IF c = "buffers" THEN 4 ELSE 7)
  ELSE (IF c = "buffers" THEN 3 ELSE 6)

VARIABLES real,   \* the controller
          at,     \* the probe the run is at
          odd,    \* how many answers came out odd
          found   \* what the run has concluded so far

vars == <<real, at, odd, found>>

-----------------------------------------------------------------------------
(* The controller.  33410 belongs to 22.090 and to every boiler but the    *)
(* ecotop, though an ecotop has been seen that maps it.                    *)
Controllers ==
  {r \in [system : Systems, firmware : Versions, chimney : BOOLEAN, installed : Installations] :
     IF r.system \in {"Ecotop", "Vampair"} THEN r.chimney => r.firmware >= 22090
                                           ELSE r.chimney <=> r.firmware >= 22090}

RealOffset(c) == StateOffset(c, real.firmware, real.system)
Newest(v) == IF v = 25030 THEN 25020 ELSE v
HasMarker(v) == real.firmware >= Newest(v)

(* A state, numbered from 0 or, on a therminator, from 200.                *)
From(zero, twoHundred) == {<<IF real.system = "Therminator" THEN twoHundred ELSE zero>>}
AnyOf(words) == {<<w>> : w \in words}

(* What instance i of component c reads.  The neighbours of the state, for *)
(* a run that is wrong about the block, are a mixer position and a pump.   *)
Instance(c, i) ==
  LET here == i <= real.installed[c]
  IN  IF c = "heating_circuits" THEN
        IF found.offset[c] = RealOffset(c) THEN (IF here THEN From(2, 214) ELSE From(7, 212))
                                           ELSE AnyOf({0, 7, 50})
      ELSE IF c = "buffers" THEN
        IF found.offset[c] = RealOffset(c) THEN (IF here THEN From(1, 201) ELSE From(0, 200))
                                           ELSE AnyOf({0, 1})
      ELSE IF c = "boilers" THEN (IF here THEN From(1, 201) ELSE From(0, 200))
      ELSE IF c = "circulations" THEN AnyOf({IF here THEN 400 ELSE 0})
      ELSE IF c = "fresh_water_modules" THEN {IF here THEN <<0, 480>> ELSE <<0, 0>>}
      ELSE IF here THEN {<<450, 0, 0>>, <<0, 2700, 0>>} ELSE {<<0, 0, 201>>}

(* What one of the registers that are read once holds.                     *)
Boiling == real.system # "Vampair"
Holds(register) ==
  CASE register \in {"supply", "return"} -> {IF Boiling THEN 0 ELSE 285}
    [] register = "heat_pump_state" ->
         IF found.modern = (real.firmware >= 25030)
         THEN (IF Boiling THEN {0} ELSE {0, 1}) ELSE {None}
    [] register = "temperature" -> IF Boiling THEN {0, 650} ELSE {0}
    [] register = "operating_mode" -> IF real.system = "Therminator" THEN {0, 1, 4} ELSE {0}
    [] register = "octoplus_top" -> IF real.system = "Octoplus" THEN {620, 2700} ELSE {1500, 65500}
    [] register = "log_wood" -> IF real.firmware < 22090 THEN {None}
                                ELSE IF real.system = "Therminator" THEN {0, 1} ELSE {0}
    [] register = "pellets" -> IF real.firmware < 23010 THEN {None}
                               ELSE IF Boiling THEN {0, 5000} ELSE {0}
    [] register = "minutes" -> IF Boiling THEN {0, 340} ELSE {0}
    [] OTHER -> {IF real.installed[register] = 1 THEN 300 ELSE 0}

-----------------------------------------------------------------------------
(* Judging a word.                                                         *)
Present(v) == v # None
NoSensor == {1300, 2700, 3500, 65535}
Live(v) == Present(v) /\ v # 0 /\ v \notin NoSensor
Configured(v) == Present(v) /\ v # 0
PlausibleBuffer(v) == Live(v) /\ v < 1000  \* a word of a negative reading is at least 32768

(* With a solar circuit's state taken for evidence.                        *)
ThereByState(c, words) ==
  \/ c = "heating_circuits" /\ Present(words[1]) /\ words[1] \notin {7, 212}
  \/ c \in {"boilers", "buffers"} /\ Present(words[1]) /\ words[1] \notin {0, 200}
  \/ c \in {"circulations", "fresh_water_modules"} /\ \E k \in DOMAIN words : Live(words[k])
  \/ c = "solar" /\ \E k \in 1..3 : Configured(words[k])

(* Whether what was read of an instance says it is there.  Of a solar      *)
(* circuit, the third word is the state, which says nothing.               *)
There(c, words) ==
  \/ c = "heating_circuits" /\ Present(words[1]) /\ words[1] \notin {7, 212}
  \/ c \in {"boilers", "buffers"} /\ Present(words[1]) /\ words[1] \notin {0, 200}
  \/ c \in {"circulations", "fresh_water_modules"} /\ \E k \in DOMAIN words : Live(words[k])
  \/ c = "solar" /\ \E k \in 1..2 : Configured(words[k])

(* Whether a register that is read once speaks for what it belongs to.     *)
Tells(register, v) ==
  CASE register \in {"pellets", "minutes", "photovoltaic"} -> Configured(v)
    [] register = "octoplus_top" -> PlausibleBuffer(v)
    [] register = "operating_mode" -> v \in 1..3
    [] OTHER -> Live(v)

-----------------------------------------------------------------------------
(* The order of the probes.  A cascade is read off two registers; one      *)
(* stands for both.                                                        *)
Generator == <<"supply", "return", "heat_pump_state", "temperature", "operating_mode",
               "octoplus_top", "log_wood", "pellets", "minutes">>
Single == <<"photovoltaic", "fresh_water_module_cascade", "circulation_module">>
Once == [generator |-> Generator, singles |-> Single]

Exists == {"marker", "circuit_block", "buffer_block", "heat_pump_block", "chimney"}

AfterSweep(c) == CASE c = "heating_circuits" -> "generator"
                   [] c = "boilers" -> "buffers"
                   [] c = "buffers" -> "circulations"
                   [] c = "circulations" -> "fresh_water_modules"
                   [] c = "fresh_water_modules" -> "solar"
                   [] c = "solar" -> "done"

Start(step) == [step |-> step, n |-> 1, again |-> FALSE]
NoFinding == [version |-> 20110, modern |-> FALSE, block200 |-> FALSE, seen |-> {},
              offset |-> [c \in {"heating_circuits", "buffers"} |-> 0],
              counts |-> [c \in Repeated |-> 0],
              system |-> "Vampair", confident |-> FALSE]

Init == /\ real \in Controllers
        /\ at = Start("marker")
        /\ odd = 0
        /\ found = NoFinding

-----------------------------------------------------------------------------
(* _exists: an address is there as soon as it answers a read of one        *)
(* register or of two, and absent once it has refused both.                *)
Mapped == \/ at.step = "marker" /\ HasMarker(Markers[at.n])
          \/ at.step = "circuit_block" /\ RealOffset("heating_circuits") = 7
          \/ at.step = "buffer_block" /\ RealOffset("buffers") = 4
          \/ at.step = "heat_pump_block" /\ real.firmware >= 25030
          \/ at.step = "chimney" /\ real.chimney

Refuses == \/ ~ Mapped /\ UNCHANGED odd
           \/ Mapped /\ odd < MaxOdd /\ odd' = odd + 1

(* A run that takes the second refusal for an answer.                      *)
TellsRefusedIsThere(yes) == \/ yes /\ Mapped /\ UNCHANGED odd
                            \/ yes /\ at.again /\ Refuses
TellsWhether(yes) == \/ yes /\ Mapped /\ UNCHANGED odd
                     \/ ~ yes /\ at.again /\ Refuses

(* The read of one register tried again.                                   *)
AskForOneAgain == /\ at.step \in Exists /\ ~ at.again
                  /\ Refuses
                  /\ UNCHANGED <<real, at, found>>

AskForTwo == /\ at.step \in Exists /\ ~ at.again
             /\ Refuses
             /\ at' = [at EXCEPT !.again = TRUE]
             /\ UNCHANGED <<real, found>>

(* The first marker the controller has dates it.                           *)
Marker == /\ at.step = "marker"
          /\ \/ /\ TellsWhether(TRUE)
                /\ found' = [found EXCEPT !.version = Markers[at.n]]
                /\ at' = Start("circuit_block")
             \/ /\ TellsWhether(FALSE)
                /\ at' = IF at.n < Len(Markers) THEN [Start("marker") EXCEPT !.n = at.n + 1]
                                                ELSE Start("circuit_block")
                /\ UNCHANGED found
          /\ UNCHANGED real

CircuitBlock == \E yes \in BOOLEAN :
  /\ at.step = "circuit_block" /\ TellsWhether(yes)
  /\ found' = [found EXCEPT !.offset["heating_circuits"] = IF yes THEN 7 ELSE 6]
  /\ at' = Start("buffer_block")
  /\ UNCHANGED real

BufferBlock == \E yes \in BOOLEAN :
  /\ at.step = "buffer_block" /\ TellsWhether(yes)
  /\ found' = [found EXCEPT !.offset["buffers"] = IF yes THEN 4 ELSE 3]
  /\ at' = Start("heat_pump_block")
  /\ UNCHANGED real

HeatPumpBlock == \E yes \in BOOLEAN :
  /\ at.step = "heat_pump_block" /\ TellsWhether(yes)
  /\ found' = [found EXCEPT !.modern = yes]
  /\ at' = Start("heating_circuits")
  /\ UNCHANGED real

(* The answers to the reads of one thing: what its registers hold, or with *)
(* any of them lost to odd answers, each of which counts.                  *)
Losing(words, lost) == [k \in DOMAIN words |-> IF k \in lost THEN None ELSE words[k]]
Losses(words) == (SUBSET DOMAIN words) \ {{}}
Garbled(S) == UNION {{Losing(words, lost) : lost \in Losses(words)} : words \in S}
Answers(words, S) ==
  \/ words \in S /\ UNCHANGED odd
  \/ \E held \in S : \E lost \in Losses(held) :
       /\ words = Losing(held, lost)
       /\ odd' \in odd + 1 .. MaxOdd
       /\ odd' = odd + Cardinality(lost)

AfterInstanceOneMore(c) ==
  IF at.n <= MaxCount[c] THEN [at EXCEPT !.n = @ + 1] ELSE Start(AfterSweep(c))
AfterInstance(c) ==
  IF at.n < MaxCount[c] THEN [at EXCEPT !.n = @ + 1] ELSE Start(AfterSweep(c))

(* One instance of a repeated component is read, and counted if there.  A  *)
(* heating circuit's state also says which block the states are in.        *)
Sweep(c) ==
  /\ at.step = c
  /\ \E words \in Instance(c, at.n) \cup Garbled(Instance(c, at.n)) :
       /\ Answers(words, Instance(c, at.n))
       /\ found' = [found EXCEPT
            !.counts[c] = IF There(c, words) THEN @ + 1 ELSE @,
            !.block200 = @ \/ (c = "heating_circuits" /\ Present(words[1]) /\ words[1] >= 200)]
  /\ at' = AfterInstance(c)
  /\ UNCHANGED real

(* _detect_system, on the registers seen to speak.                         *)
HasHeatPump(seen) == seen \cap {"supply", "return", "heat_pump_state"} # {}
HasBiomassBoiler(seen) == seen \cap {"temperature", "pellets", "minutes"} # {}
(* With log wood as the only sign of a therminator.                        *)
SystemByLogs(seen, block200) ==
  IF HasHeatPump(seen) \/ ~ HasBiomassBoiler(seen) THEN "Vampair"
  ELSE IF "octoplus_top" \in seen THEN "Octoplus"
  ELSE IF seen \cap {"log_wood", "operating_mode"} # {} THEN "Therminator"
  ELSE "open"
SystemOf(seen, block200) ==
  IF HasHeatPump(seen) \/ ~ HasBiomassBoiler(seen) THEN "Vampair"
  ELSE IF "octoplus_top" \in seen THEN "Octoplus"
  ELSE IF seen \cap {"log_wood", "operating_mode"} # {} \/ block200 THEN "Therminator"
  ELSE "open"

(* The generator is read out: the system is known, or 33410 is to decide.  *)
Decide(seen) ==
  LET system == SystemOf(seen, found.block200)
  IN  /\ found' = [found EXCEPT !.seen = {},
                                !.confident = HasHeatPump(seen) \/ HasBiomassBoiler(seen),
                                !.system = IF system = "open" THEN @ ELSE system]
      /\ at' = Start(IF system = "open" THEN "chimney" ELSE "singles")

ReadOnce ==
  /\ at.step \in DOMAIN Once
  /\ LET register == Once[at.step][at.n]
         held == AnyOf(Holds(register))
     IN  \E words \in held \cup {<<None>>} :
           LET seen == found.seen \cup (IF Tells(register, words[1]) THEN {register} ELSE {})
           IN  /\ Answers(words, held)
               /\ IF at.n < Len(Once[at.step])
                  THEN /\ found' = [found EXCEPT !.seen = seen]
                       /\ at' = [at EXCEPT !.n = @ + 1]
                  ELSE IF at.step = "generator" THEN Decide(seen)
                  ELSE found' = [found EXCEPT !.seen = seen] /\ at' = Start("boilers")
  /\ UNCHANGED real

Chimney == \E yes \in BOOLEAN :
  /\ at.step = "chimney" /\ TellsWhether(yes)
  /\ found' = [found EXCEPT !.system = IF yes THEN "Pellet_Elegance" ELSE "Ecotop"]
  /\ at' = Start("singles")
  /\ UNCHANGED real

(* A timeout or a dropped connection is raised and ends the run.           *)
Raises == /\ at.step \notin {"done", "raised"}
          /\ at' = Start("raised")
          /\ found' = NoFinding
          /\ UNCHANGED <<real, odd>>

Probe == \/ AskForTwo \/ Marker \/ CircuitBlock \/ BufferBlock \/ HeatPumpBlock
         \/ \E c \in Repeated : Sweep(c)
         \/ ReadOnce \/ Chimney

Next == Probe \/ Raises

Spec == Init /\ [][Next]_vars

-----------------------------------------------------------------------------
(* The finished Detection: what was counted, what its configuration says,  *)
(* and what validates a configuration.                                     *)
Done == at.step = "done"

(* Without the limit of one solar circuit before 25.030.                   *)
ClampedButSolar(c) ==
  IF c \in {"fresh_water_modules", "circulations"} /\ found.version < Since(c) THEN 0
  ELSE found.counts[c]
Clamped(c) ==
  IF c \in {"fresh_water_modules", "circulations"} /\ found.version < Since(c) THEN 0
  ELSE IF c = "solar" /\ found.version < 25030 /\ found.counts[c] > 1 THEN 1
  ELSE found.counts[c]

CountedSingle(c) == IF c \in found.seen /\ (c # "photovoltaic" => found.version >= 23040)
                    THEN 1 ELSE 0
Counted(c) == IF c \in Singles THEN CountedSingle(c) ELSE Clamped(c)

Configures(c) == IF Available(c, found.version, found.system) THEN Counted(c) ELSE 0
Unsupported(c) == ~ Available(c, found.version, found.system) /\ Counted(c) > 0

Validates(count, v, s) ==
  \A c \in Components : count[c] # 0 => Available(c, v, s) /\ count[c] <= Limit(c, v)

(* Without layout_as_of.                                                   *)
ResolvesByVersion(c) == StateOffset(c, found.version, "Vampair")

(* Where the configuration will look for a state.                          *)
Resolves(c) == StateOffset(c, found.version, found.system)

-----------------------------------------------------------------------------
(* What the run can be held to.  Dated is the version a controller is      *)
(* documented to be taken for.                                             *)
Dated(v) == IF v = 25020 THEN 25030 ELSE IF v = 25100 THEN 25030 ELSE v
Clean == Done /\ odd = 0
AtMost(a, b) == IF a < b THEN a ELSE b

Steps == Exists \cup Repeated \cup {"generator", "singles", "done", "raised"}
Findings == [version : Versions, modern : BOOLEAN, block200 : BOOLEAN,
             seen : SUBSET UNION {{Once[x][k] : k \in DOMAIN Once[x]} : x \in DOMAIN Once},
             offset : [{"heating_circuits", "buffers"} -> {0, 3, 4, 6, 7}],
             counts : [Repeated -> Nat], system : Systems, confident : BOOLEAN]

TypeOK == /\ real \in Controllers
          /\ at \in [step : Steps, n : Nat \ {0}, again : BOOLEAN]
          /\ odd \in 0..MaxOdd
          /\ found \in Findings

(* Why a configuration never has too many of anything: a count is bounded  *)
(* by the instances read so far, and a sweep by what a controller has.     *)
Ahead(step) ==
  CASE step \in {"generator", "chimney", "singles", "boilers"} ->
         {"boilers", "buffers", "circulations", "fresh_water_modules", "solar"}
    [] step = "buffers" -> {"buffers", "circulations", "fresh_water_modules", "solar"}
    [] step = "circulations" -> {"circulations", "fresh_water_modules", "solar"}
    [] step = "fresh_water_modules" -> {"fresh_water_modules", "solar"}
    [] step = "solar" -> {"solar"}
    [] step \in {"done", "raised"} -> {}
    [] OTHER -> Repeated
SoFar(c) == IF c = at.step THEN at.n - 1
            ELSE IF c \in Ahead(at.step) THEN 0 ELSE MaxCount[c]
SweepInv == /\ at.step = "marker" => at.n \in DOMAIN Markers
            /\ at.step \in DOMAIN Once => at.n \in DOMAIN Once[at.step]
            /\ at.step \in Repeated => at.n <= MaxCount[at.step]
            /\ \A c \in Repeated : found.counts[c] <= SoFar(c)
IInv == TypeOK /\ SweepInv

(* What a run knows that was answered truly so far: its conclusions are    *)
(* those of the controller, each from the probe on that settles it.        *)
Truthful == odd = 0 /\ at.step # "raised"

DatedInv == /\ found.version <= Dated(real.firmware)
            /\ at.step = "marker" => found.version = 20110
            /\ Truthful =>
                 IF at.step = "marker" THEN \A k \in 1..(at.n - 1) : ~ HasMarker(Markers[k])
                                       ELSE found.version = Dated(real.firmware)

BlockInv == Truthful =>
  /\ at.step \notin {"marker", "circuit_block"} =>
       found.offset["heating_circuits"] = RealOffset("heating_circuits")
  /\ at.step \notin {"marker", "circuit_block", "buffer_block"} =>
       found.offset["buffers"] = RealOffset("buffers")
  /\ at.step \in Exists \ {"chimney"} \/ found.modern = (real.firmware >= 25030)

CountInv == Truthful =>
  \A c \in Repeated : found.counts[c] = AtMost(SoFar(c), real.installed[c])

(* Of a therminator the first circuit's state shows the block of 200; and  *)
(* a register that speaks, speaks for a system that has it.                *)
Heard == CASE at.step \in DOMAIN Once -> {Once[at.step][k] : k \in 1..(at.n - 1)}
           [] at.step \in Exists \cup {"heating_circuits", "raised"} -> {}
           [] OTHER -> Singles
TrueOf(seen, heard) ==
  /\ seen \subseteq heard
  /\ \A c \in heard \cap Singles : c \in seen <=> real.installed[c] = 1
  /\ HasHeatPump(seen) => ~ Boiling
  /\ "supply" \in heard /\ ~ Boiling => "supply" \in seen
  /\ "octoplus_top" \in seen => real.system = "Octoplus"
  /\ seen \cap {"log_wood", "operating_mode"} # {} => real.system = "Therminator"
SeenInv == Truthful => TrueOf(found.seen, Heard)

FoundSystem == found.confident =>
  \/ found.system = real.system
  \/ /\ found.system \in {"Ecotop", "Pellet_Elegance"}
     /\ real.system \in {"Ecotop", "Pellet_Elegance", "Octoplus"}
CircuitRead == /\ at.step \notin Exists \ {"chimney"}
               /\ at.step = "heating_circuits" => at.n > 1
SystemInv == Truthful =>
  /\ found.block200 => real.system = "Therminator"
  /\ CircuitRead /\ real.system = "Therminator" => found.block200
  /\ at.step = "chimney" => real.system \in {"Ecotop", "Pellet_Elegance", "Octoplus"}
  /\ at.step \in (Repeated \ {"heating_circuits"}) \cup {"singles", "done"} => FoundSystem

DetectInv == IInv /\ DatedInv /\ BlockInv /\ CountInv /\ SeenInv /\ SystemInv

(* detect.py:193-199: "a detection can never build a configuration its own *)
(* validation refuses", whatever the controller is and however oddly it    *)
(* answers.                                                                *)
ConfigValidates == Done =>
  Validates([c \in Components |-> Configures(c)], found.version, found.system)

(* detect.py:101-118: the markers date a controller by the newest registers*)
(* it has.  Odd answers can make it look older, never newer.               *)
VersionDated == Done => /\ found.version <= Dated(real.firmware)
                        /\ odd = 0 => found.version = Dated(real.firmware)

(* detect.py:339-422: a run without odd answers, on a controller whose     *)
(* generator says anything, finds its system, save that an ecotop and a    *)
(* pellet elegance may be taken for each other and an octoplus without a   *)
(* buffer sensor for either.                                               *)
SystemFound == Clean => FoundSystem

(* detect.py:176-182, 284-296 and 424-490: such a run configures what is   *)
(* installed, up to what the firmware addresses, wherever the states are   *)
(* and from wherever they are numbered; and what it counts on a system     *)
(* that cannot have it is reported rather than quietly dropped.            *)
NothingVanishes == Clean => \A c \in Components : Since(c) <= found.version =>
  IF Available(c, found.version, found.system)
  THEN Configures(c) = AtMost(real.installed[c], Limit(c, found.version))
  ELSE Unsupported(c) <=> real.installed[c] > 0

(* What it takes for the configuration to look for the states where the    *)
(* run found them: the right system, and a firmware that is not 25.020.    *)
StatesWhereProbed == Clean /\ found.system = real.system /\ real.firmware # 25020 =>
  \A c \in DOMAIN found.offset : Resolves(c) = found.offset[c]

(* detect.py:106-108: a controller on 25.020 "is reported as 25.030. The   *)
(* layout that distinction is wanted for is probed directly rather than    *)
(* derived from the version, so this costs nothing here."                  *)
DatingCostsNothing == Clean /\ found.system = real.system /\ real.firmware = 25020 =>
  \A c \in DOMAIN found.offset : Resolves(c) = found.offset[c]

(* detect.py:83-84: "a refusal is good evidence for an ecotop"             *)
(* (tests/test_detect.py:220: the only firm evidence there is).            *)
RefusalMeansEcotop == Clean /\ found.system = "Ecotop" => real.system = "Ecotop"
=============================================================================
