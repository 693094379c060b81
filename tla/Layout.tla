--------------------------------- MODULE Layout ---------------------------------
(***************************************************************************)
(* From a configuration to the registers of every component, each at its   *)
(* address (layout.py, config.py, ComponentSpec, ApiVersion.parse): which  *)
(* registers this firmware has on this system, and where.                  *)
(***************************************************************************)
EXTENDS Tables

NoVersion == 0

(* ApiVersion.parse(): an unknown firmware is taken for the latest known   *)
(* one before it, or refused.                                              *)
Parse(number, clamp) ==
  IF number \in Versions THEN number
  ELSE IF ~ clamp \/ number < Oldest THEN NoVersion
  ELSE LatestOf({v \in Versions : v <= number})

-----------------------------------------------------------------------------
SpecAvailable(spec, version, system) == spec.since <= version /\ system \in spec.systems

Limit(id, version) == IF id = "solar" /\ version < 25030 THEN 1 ELSE Specs[id].max

BasesFromOne(spec, number, version) ==
  [input |-> spec.inputBase + number * spec.inputStride,
   holding |-> IF spec.holdingBase # NoBase /\ version >= spec.holdingSince
               THEN spec.holdingBase + number * spec.holdingStride ELSE NoBase]

(* Instances count from 1.                                                 *)
Bases(spec, number, version) ==
  [input |-> spec.inputBase + (number - 1) * spec.inputStride,
   holding |-> IF spec.holdingBase # NoBase /\ version >= spec.holdingSince
               THEN spec.holdingBase + (number - 1) * spec.holdingStride ELSE NoBase]

-----------------------------------------------------------------------------
LaterOf(v, w) == IF v < w THEN w ELSE v

Placed(component, has, asOf, bases) ==
  LET table == Declared[component]
      base(r) == IF r.absolute THEN 0 ELSE bases[r.kind]
  IN {[name |-> n, kind |-> table[n].kind, width |-> table[n].width,
       address |-> base(table[n]) + OffsetFor(table[n], asOf)] :
        n \in {m \in has : base(table[m]) # NoBase}}

(* Everything as of the firmware whose layout the system has.              *)
ResolveAsLaidOut(component, version, system, bases) ==
  LET asOf == LaterOf(version, LaidOutAsOf(component, system))
      table == Declared[component]
  IN Placed(component, {n \in DOMAIN table : Available(table[n], asOf, system)}, asOf, bases)

(* Layout.resolve(): the version decides what is there, and the firmware   *)
(* whose layout the system has, where it is.                               *)
Resolve(component, version, system, bases) ==
  LET table == Declared[component]
  IN Placed(component, {n \in DOMAIN table : Available(table[n], version, system)},
            LaterOf(version, LaidOutAsOf(component, system)), bases)

WordsAtAddress(x) == {<<x.kind, x.address>>}
Words(x) == {<<x.kind, a>> : a \in x.address .. x.address + x.width - 1}

(* _check_no_overlap() refuses the table.                                  *)
Overlaps(layout) ==
  \E x, y \in layout : x.name # y.name /\ Words(x) \cap Words(y) # {}

-----------------------------------------------------------------------------
(* SolarfocusConfig.  A count left open is the system's to decide.         *)
SystemDecides == -1
CountOf(config, id) ==
  IF config.counts[id] # SystemDecides THEN config.counts[id]
  ELSE IF SpecAvailable(Specs[id], config.version, config.system) THEN 1 ELSE 0

Validates(config) == \A id \in DOMAIN Specs : CountOf(config, id) > 0 =>
  /\ SpecAvailable(Specs[id], config.version, config.system)
  /\ CountOf(config, id) <= Limit(id, config.version)

ComponentKeys(config) ==
  UNION {{<<id, number>> : number \in 1..CountOf(config, id)} :
    id \in {i \in DOMAIN Specs : SpecAvailable(Specs[i], config.version, config.system)}}

LayoutOf(config, key) ==
  Resolve(Specs[key[1]].component, config.version, config.system,
          Bases(Specs[key[1]], key[2], config.version))
=============================================================================
