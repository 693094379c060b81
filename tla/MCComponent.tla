------------------------------ MODULE MCComponent ------------------------------
(* The library's own tables, and every kind of configuration of them.      *)
EXTENDS Component

(* Every firmware known, one before and one after each.                    *)
Numbers == UNION {{v - 1, v, v + 1} : v \in Versions}

(* As many of everything as this firmware and system can have; the same    *)
(* with another count of one component, allowed or not; and the defaults.  *)
Most(number, system) ==
  [id \in DOMAIN Specs |->
     IF number >= Oldest /\ SpecAvailable(Specs[id], Parse(number, TRUE), system)
     THEN Limit(id, Parse(number, TRUE)) ELSE 0]
Default == [id \in DOMAIN Specs |->
  IF id \in {"heat_pump", "biomass_boiler"} THEN SystemDecides
  ELSE IF id \in {"heating_circuits", "buffers", "boilers"} THEN 1 ELSE 0]

Request(system, number, clamp, counts) ==
  [system |-> system, number |-> number, clamp |-> clamp, counts |-> counts]
AllRequests ==
  UNION {{Request(s, n, TRUE, Most(n, s)), Request(s, n, TRUE, Default),
          Request(s, n, FALSE, Default)} : s \in Systems, n \in Numbers}
  \cup UNION {{Request(s, v, TRUE, [Most(v, s) EXCEPT ![id] = @ + 1]),
               Request(s, v, TRUE, [Most(v, s) EXCEPT ![id] = 1])} :
                s \in Systems, v \in Versions, id \in DOMAIN Specs}

FirstInstances == (DOMAIN Specs) \X {1}

(* The markers, both edges of the sign, and a middling word.               *)
SomeReadings == {1, 560, 1300, 32768, 65535, 64537}

(* Both edges of every bound, within and without; ties, fractions, markers *)
(* and numbers past 16 bits.                                               *)
SomeAmounts ==
  {Number(n, 1) : n \in {0, 1, 45, 46, 56, 60, 81, 100, -50, -51, 130, 32768, 40000, -32769}}
  \cup {Number(n, 20) : n \in {1, 431, -101}}
TwoAmounts == {Number(45, 1), Number(130, 1)}
=============================================================================
