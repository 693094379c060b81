------------------------------- MODULE Registers -------------------------------
(***************************************************************************)
(* Firmware versions, systems, and the declaration of registers (const.py, *)
(* registers.py): how a class body says what it knows of a register.  The  *)
(* helpers take an offset and the keyword arguments, a record, which win   *)
(* over the helper's own defaults.                                         *)
(***************************************************************************)
EXTENDS Integers, TLC

Versions == {20110, 21140, 22090, 23010, 23020, 23040, 23080, 25020, 25030, 25100, 26020}
Oldest == 20110

Vampair == "Vampair"
Therminator == "Therminator"
Ecotop == "Ecotop"
PelletElegance == "Pellet_Elegance"
Octoplus == "Octoplus"
Systems == {Vampair, Therminator, Ecotop, PelletElegance, Octoplus}

(* What a channel reports that measures nothing, as unsigned words.        *)
OpenChannel == {1300, 2700, 3500}
NotWiredPercent == {65536 - 1, 65536 - 999}
NoExternalTemperature == {65536 - 9999}
NotSetFlag == {65536 - 1}

-----------------------------------------------------------------------------
(* Where a register is, by the version that put it there.                  *)
At(offset) == Oldest :> offset
Moved(before, after) == (Oldest :> before) @@ (25030 :> after)

Defaults ==
  [kind |-> "input", absolute |-> FALSE, width |-> 1, signed |-> TRUE, per |-> 1,
   since |-> Oldest, systems |-> Systems, sentinels |-> {}, bounds |-> <<>>,
   decodes |-> "number", members |-> {}, writable |-> FALSE]

(* write_scale is the scale unless it is given.                            *)
Register(at, kwargs) ==
  LET r == kwargs @@ Defaults IN r @@ [at |-> at, writePer |-> r.per]

Celsius(at, kwargs) == Register(at, kwargs @@ [per |-> 10, sentinels |-> OpenChannel])
Tenths(at, kwargs) == Register(at, kwargs @@ [per |-> 10])
Energy(at, kwargs) == Register(at, kwargs @@ [per |-> 1000, width |-> 2])
Watts(at, kwargs) == Register(at, kwargs)
Percent(at, kwargs) == Register(at, kwargs)
Unscaled(at, kwargs) == Register(at, kwargs)
Code(at, kwargs) == Register(at, kwargs @@ [signed |-> FALSE])
Flag(at, kwargs) == Register(at, kwargs @@
  [signed |-> FALSE, sentinels |-> NotSetFlag, decodes |-> "bool"])
Enum(at, members, kwargs) == Register(at, kwargs @@
  [signed |-> FALSE, decodes |-> "enum", members |-> members])

(* Keyword arguments that tables repeat.                                   *)
Plain == <<>>
Holding == [kind |-> "holding", writable |-> TRUE]
HoldingSigned == Holding @@ [signed |-> TRUE]
Wide == [width |-> 2]
Since(version) == [since |-> version]
Only(systems) == [systems |-> systems]

-----------------------------------------------------------------------------
LatestOf(versions) == CHOOSE v \in versions : \A w \in versions : w <= v

(* The offset of the latest layout that the version has; none if none is.  *)
Layouts(r, version) == {v \in DOMAIN r.at : v <= version}
OffsetFor(r, version) == r.at[LatestOf(Layouts(r, version))]

Available(r, version, system) ==
  r.since <= version /\ system \in r.systems /\ Layouts(r, version) # {}
=============================================================================
