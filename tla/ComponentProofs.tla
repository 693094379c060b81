---------------------------- MODULE ComponentProofs ----------------------------
(***************************************************************************)
(* TLAPS proofs about Component: for whatever is configured, written and   *)
(* read, with the tables of the library taken as the assumptions say.      *)
(***************************************************************************)
EXTENDS Component, TLAPS

(* An unknown firmware is never taken for a later one.                     *)
LEMMA ParseIsEarlier ==
  ASSUME NEW number \in Nat, NEW clamp, Parse(number, clamp) # NoVersion
  PROVE  Parse(number, clamp) \in Versions /\ Parse(number, clamp) <= number
<1>1. CASE number \in Versions
  BY <1>1 DEF Parse, Versions
<1>2. CASE number \notin Versions
  <2>1. ~ (number < Oldest) /\ Parse(number, clamp) = LatestOf({v \in Versions : v <= number})
    BY <1>2 DEF Parse, NoVersion
  <2> DEFINE S == {v \in Versions : v <= number}
  <2>2. \E v \in S : \A w \in S : w <= v
    <3>1. 20110 \in S
      BY <2>1 DEF Versions, Oldest
    <3> QED
      BY <3>1 DEF Versions
  <2>3. LatestOf(S) \in S
    BY <2>2 DEF LatestOf
  <2> QED
    BY <2>1, <2>3
<1> QED
  BY <1>1, <1>2

(* A layout has registers that the table declares and this firmware has.   *)
LEMMA LayoutDeclares ==
  ASSUME NEW config, NEW key, NEW x \in LayoutOf(config, key)
  PROVE  /\ x.name \in DOMAIN Declared[Specs[key[1]].component]
         /\ Declared[Specs[key[1]].component][x.name].since <= config.version
<1> DEFINE table == Declared[Specs[key[1]].component]
           has == {n \in DOMAIN table : Available(table[n], config.version, config.system)}
<1>1. \E asOf, bases : x \in Placed(Specs[key[1]].component, has, asOf, bases)
  BY DEF LayoutOf, Resolve
<1>2. x.name \in has
  BY <1>1 DEF Placed
<1> QED
  BY <1>2 DEF Available

LEMMA KeysDeclared ==
  ASSUME NEW config, NEW key \in ComponentKeys(config)
  PROVE  /\ key[1] \in DOMAIN Specs
         /\ Specs[key[1]].since <= config.version
BY DEF ComponentKeys, SpecAvailable

-----------------------------------------------------------------------------
(* Where the registers of a configuration are.                             *)
Accepted(config) ==
  /\ config.version \in Versions /\ config.system \in Systems
  /\ config.counts \in [DOMAIN Specs -> Int]
  /\ Validates(config)

LEMMA LimitType == ASSUME NEW id \in DOMAIN Specs, NEW version PROVE Limit(id, version) \in Nat
BY SpecsAssumption DEF Limit

LEMMA KeyWithinLimit ==
  ASSUME NEW config, Accepted(config), NEW key \in ComponentKeys(config)
  PROVE  /\ key = <<key[1], key[2]>> /\ key[1] \in DOMAIN Specs
         /\ SpecAvailable(Specs[key[1]], config.version, config.system)
         /\ key[2] \in 1..Limit(key[1], config.version)
<1>1. PICK id \in DOMAIN Specs : /\ SpecAvailable(Specs[id], config.version, config.system)
                                 /\ \E number \in 1..CountOf(config, id) : key = <<id, number>>
  BY DEF ComponentKeys
<1>2. PICK number \in 1..CountOf(config, id) : key = <<id, number>>
  BY <1>1
<1>3. CountOf(config, id) \in Int
  BY DEF CountOf, Accepted
<1>4. CountOf(config, id) > 0 => CountOf(config, id) <= Limit(id, config.version)
  BY DEF Accepted, Validates
<1>5. Limit(id, config.version) \in Nat
  BY LimitType
<1>6. number \in 1..Limit(id, config.version)
  BY <1>2, <1>3, <1>4, <1>5
<1> QED
  BY <1>1, <1>2, <1>6

(* The register, where in its block, and from where the block counts.      *)
RegisterOf(id, name) == Declared[Specs[id].component][name]
OffsetIn(id, name, version, system) ==
  OffsetFor(RegisterOf(id, name), LaterOf(version, LaidOutAsOf(Specs[id].component, system)))
OfKind(id, name, input, holding) ==
  IF RegisterOf(id, name).absolute THEN 0
  ELSE IF RegisterOf(id, name).kind = "input" THEN input ELSE holding
BaseFor(config, key, name) ==
  IF RegisterOf(key[1], name).absolute THEN 0
  ELSE Bases(Specs[key[1]], key[2], config.version)[RegisterOf(key[1], name).kind]

LEMMA HomeFields ==
  ASSUME NEW id, NEW name, NEW version, NEW system, NEW h, h = Home(id, name, version, system)
  PROVE  /\ h.id = id /\ h.name = name
         /\ h.kind = RegisterOf(id, name).kind /\ h.width = RegisterOf(id, name).width
         /\ h.count = Limit(id, version)
         /\ h.block = OfKind(id, name, Specs[id].inputBase, Specs[id].holdingBase)
         /\ h.stride = OfKind(id, name, Specs[id].inputStride, Specs[id].holdingStride)
         /\ h.offset = OffsetIn(id, name, version, system)
         /\ h.first = h.block + h.offset
<1> DEFINE block == OfKind(id, name, Specs[id].inputBase, Specs[id].holdingBase)
           stride == OfKind(id, name, Specs[id].inputStride, Specs[id].holdingStride)
           offset == OffsetIn(id, name, version, system)
           count == Limit(id, version)
           kind == RegisterOf(id, name).kind
           width == RegisterOf(id, name).width
<1>1. h = [id |-> id, name |-> name, kind |-> kind, width |-> width,
           block |-> block, offset |-> offset, first |-> block + offset,
           stride |-> stride, count |-> count]
  BY Zenon DEF Home, RegisterOf, OfKind, OffsetIn
<1> HIDE DEF block, stride, offset, count, kind, width
<1>2. /\ h.id = id /\ h.name = name /\ h.kind = kind /\ h.width = width /\ h.count = count
      /\ h.block = block /\ h.stride = stride /\ h.offset = offset /\ h.first = h.block + h.offset
  BY <1>1
<1> QED
  BY <1>2, Zenon DEF block, stride, offset, count, kind, width

LEMMA HomeIs ==
  ASSUME NEW version, NEW system, NEW h \in Homes(version, system)
  PROVE  /\ h.id \in DOMAIN Specs /\ SpecAvailable(Specs[h.id], version, system)
         /\ h.name \in DOMAIN Declared[Specs[h.id].component]
         /\ HasHome(h.id, h.name, version, system)
         /\ h = Home(h.id, h.name, version, system)
<1>1. PICK id \in DOMAIN Specs :
        /\ SpecAvailable(Specs[id], version, system)
        /\ \E name \in DOMAIN Declared[Specs[id].component] :
             HasHome(id, name, version, system) /\ h = Home(id, name, version, system)
  BY DEF Homes
<1>2. PICK name \in DOMAIN Declared[Specs[id].component] :
        HasHome(id, name, version, system) /\ h = Home(id, name, version, system)
  BY <1>1
<1>3. h.id = id /\ h.name = name
  BY <1>2, HomeFields
<1> QED
  BY <1>1, <1>2, <1>3

LEMMA HomeType ==
  ASSUME NEW version \in Versions, NEW system \in Systems, NEW h \in Homes(version, system)
  PROVE  /\ h.width \in {1, 2} /\ h.block \in Int /\ h.stride \in Nat /\ h.count \in Nat
         /\ h.offset \in Nat /\ h.first = h.block + h.offset
<1> DEFINE spec == Specs[h.id]
           r == RegisterOf(h.id, h.name)
<1>1. /\ h.id \in DOMAIN Specs /\ h.name \in DOMAIN Declared[spec.component]
      /\ h = Home(h.id, h.name, version, system)
  BY HomeIs
<1>2. /\ spec.component \in DOMAIN Declared
      /\ spec.inputBase \in Nat /\ spec.holdingBase \in Nat \cup {NoBase}
      /\ spec.inputStride \in Nat /\ spec.holdingStride \in Nat
  BY <1>1, SpecsAssumption
<1>3. r.width \in {1, 2}
  BY <1>1, <1>2, DeclaredAssumption DEF RegisterOf
<1>4. Limit(h.id, version) \in Nat
  BY <1>1, LimitType
<1>5. /\ h.width = r.width /\ h.count = Limit(h.id, version) /\ h.first = h.block + h.offset
      /\ h.block = OfKind(h.id, h.name, spec.inputBase, spec.holdingBase)
      /\ h.stride = OfKind(h.id, h.name, spec.inputStride, spec.holdingStride)
  BY <1>1, HomeFields
<1>6. h.offset \in Nat
  BY StridesAssumption
<1> HIDE DEF spec, r
<1> QED
  BY <1>2, <1>3, <1>4, <1>5, <1>6 DEF NoBase, OfKind

(* The instances of a component are one behind the other, kind by kind.    *)
LEMMA SameBlock ==
  ASSUME NEW version \in Versions, NEW system \in Systems,
         NEW h \in Homes(version, system), NEW g \in Homes(version, system),
         h.id = g.id, h.kind = g.kind
  PROVE  /\ h.count = g.count
         /\ h.count > 1 => h.block = g.block /\ h.stride = g.stride
<1>1. ASSUME NEW f \in Homes(version, system)
      PROVE  /\ f.count = Limit(f.id, version) /\ f.kind = RegisterOf(f.id, f.name).kind
             /\ f.block = OfKind(f.id, f.name, Specs[f.id].inputBase, Specs[f.id].holdingBase)
             /\ f.stride = OfKind(f.id, f.name, Specs[f.id].inputStride, Specs[f.id].holdingStride)
  BY HomeIs, HomeFields
<1>2. h.count = g.count
  BY <1>1
<1>3. ASSUME NEW f \in Homes(version, system), f.count > 1
      PROVE  ~ RegisterOf(f.id, f.name).absolute
  <2>1. f.offset + f.width < f.stride
    BY <1>3, StridesAssumption
  <2>2. f.offset \in Nat /\ f.width \in {1, 2} /\ f.stride \in Nat
    BY HomeType
  <2>3. f.stride # 0
    BY ONLY <2>1, <2>2
  <2> QED
    BY <1>1, <2>3 DEF OfKind
<1>4. ASSUME h.count > 1 PROVE h.block = g.block /\ h.stride = g.stride
  <2>1. ~ RegisterOf(h.id, h.name).absolute /\ ~ RegisterOf(g.id, g.name).absolute
    BY <1>2, <1>3, <1>4
  <2> QED
    BY <1>1, <2>1 DEF OfKind
<1> QED
  BY <1>2, <1>4

LEMMA LayoutOfIs ==
  ASSUME NEW config, NEW key, NEW x \in LayoutOf(config, key)
  PROVE  LET r == RegisterOf(key[1], x.name)
         IN /\ x.name \in DOMAIN Declared[Specs[key[1]].component]
            /\ Available(r, config.version, config.system)
            /\ BaseFor(config, key, x.name) # NoBase
            /\ x.kind = r.kind /\ x.width = r.width
            /\ x.address = BaseFor(config, key, x.name)
                             + OffsetIn(key[1], x.name, config.version, config.system)
<1> DEFINE id == key[1]
           names == DOMAIN Declared[Specs[id].component]
           base(n) == BaseFor(config, key, n)
           offset(n) == OffsetIn(id, n, config.version, config.system)
<1>1. PICK n \in names :
        /\ Available(RegisterOf(id, n), config.version, config.system) /\ base(n) # NoBase
        /\ x = [name |-> n, kind |-> RegisterOf(id, n).kind, width |-> RegisterOf(id, n).width,
                address |-> base(n) + offset(n)]
  BY Zenon DEF LayoutOf, Resolve, Placed, BaseFor, OffsetIn, RegisterOf
<1>2. /\ x.name = n /\ x.kind = RegisterOf(id, n).kind /\ x.width = RegisterOf(id, n).width
      /\ x.address = base(n) + offset(n)
  <2> HIDE DEF base, offset
  <2> QED
    BY <1>1
<1> QED
  BY <1>1, <1>2

(* And nothing else that is there and has a base is left out.              *)
LEMMA LayoutOfHas ==
  ASSUME NEW config, NEW key, NEW name \in DOMAIN Declared[Specs[key[1]].component],
         Available(RegisterOf(key[1], name), config.version, config.system),
         BaseFor(config, key, name) # NoBase
  PROVE  [name |-> name, kind |-> RegisterOf(key[1], name).kind,
          width |-> RegisterOf(key[1], name).width,
          address |-> BaseFor(config, key, name)
                        + OffsetIn(key[1], name, config.version, config.system)]
           \in LayoutOf(config, key)
BY Zenon DEF LayoutOf, Resolve, Placed, BaseFor, OffsetIn, RegisterOf

LEMMA BaseIs ==
  ASSUME NEW config, NEW key, NEW name, ~ RegisterOf(key[1], name).absolute
  PROVE  LET spec == Specs[key[1]]
         IN /\ RegisterOf(key[1], name).kind = "input" =>
                 BaseFor(config, key, name) = spec.inputBase + (key[2] - 1) * spec.inputStride
            /\ RegisterOf(key[1], name).kind = "holding" =>
                 BaseFor(config, key, name) =
                   IF spec.holdingBase # NoBase /\ config.version >= spec.holdingSince
                   THEN spec.holdingBase + (key[2] - 1) * spec.holdingStride ELSE NoBase
BY DEF BaseFor, Bases

LEMMA KindIs ==
  ASSUME NEW id \in DOMAIN Specs, NEW name \in DOMAIN Declared[Specs[id].component]
  PROVE  /\ RegisterOf(id, name).kind \in {"input", "holding"}
         /\ Specs[id].inputBase \in Nat /\ Specs[id].holdingBase \in Nat \cup {NoBase}
         /\ Specs[id].inputStride \in Nat /\ Specs[id].holdingStride \in Nat
<1>1. Specs[id].component \in DOMAIN Declared
  BY SpecsAssumption
<1> QED
  BY <1>1, SpecsAssumption, DeclaredAssumption DEF RegisterOf

(* Each register of a layout has a home, and is so many strides behind it. *)
LEMMA AtHome ==
  ASSUME NEW config, Accepted(config), NEW key \in ComponentKeys(config),
         NEW x \in LayoutOf(config, key)
  PROVE  \E h \in Homes(config.version, config.system) :
           /\ h.id = key[1] /\ h.name = x.name /\ h.kind = x.kind /\ h.width = x.width
           /\ key[2] \in 1..h.count
           /\ x.address = h.first + (key[2] - 1) * h.stride
<1>1. PICK id, n, name, version, system, base, offset, h :
        /\ id = key[1] /\ n = key[2] /\ name = x.name
        /\ version = config.version /\ system = config.system
        /\ base = BaseFor(config, key, x.name) /\ offset = OffsetIn(id, name, version, system)
        /\ h = Home(id, name, version, system)
  OBVIOUS
<1>2. id \in DOMAIN Specs /\ SpecAvailable(Specs[id], version, system) /\ n \in 1..Limit(id, version)
  BY <1>1, KeyWithinLimit
<1>3. /\ name \in DOMAIN Declared[Specs[id].component]
      /\ Available(RegisterOf(id, name), version, system) /\ base # NoBase
      /\ x.kind = RegisterOf(id, name).kind /\ x.width = RegisterOf(id, name).width
      /\ x.address = base + offset
  BY <1>1, LayoutOfIs
<1>4. /\ RegisterOf(id, name).kind \in {"input", "holding"}
      /\ Specs[id].inputBase \in Nat /\ Specs[id].holdingBase \in Nat \cup {NoBase}
      /\ Specs[id].inputStride \in Nat /\ Specs[id].holdingStride \in Nat
  BY <1>2, <1>3, KindIs
<1>5. ASSUME ~ RegisterOf(id, name).absolute
      PROVE  /\ RegisterOf(id, name).kind = "input" =>
                  base = Specs[id].inputBase + (n - 1) * Specs[id].inputStride
             /\ RegisterOf(id, name).kind = "holding" =>
                  /\ Specs[id].holdingBase # NoBase /\ version >= Specs[id].holdingSince
                  /\ base = Specs[id].holdingBase + (n - 1) * Specs[id].holdingStride
  BY <1>1, <1>3, <1>5, BaseIs
<1>6. HasHome(id, name, version, system)
  BY <1>3, <1>4, <1>5 DEF HasHome, RegisterOf
<1>7. h \in Homes(version, system)
  BY <1>1, <1>2, <1>3, <1>6 DEF Homes
<1>8. /\ h.id = id /\ h.name = name
      /\ h.kind = RegisterOf(id, name).kind /\ h.width = RegisterOf(id, name).width
      /\ h.count = Limit(id, version)
      /\ h.block = OfKind(id, name, Specs[id].inputBase, Specs[id].holdingBase)
      /\ h.stride = OfKind(id, name, Specs[id].inputStride, Specs[id].holdingStride)
      /\ h.offset = offset /\ h.first = h.block + h.offset
  BY <1>1, HomeFields
<1>9. h.block \in Int /\ h.stride \in Nat /\ h.offset \in Nat
  BY <1>1, <1>7, HomeType DEF Accepted
<1>10. n - 1 \in Int
  BY <1>2, LimitType
<1>11. base = h.block + (n - 1) * h.stride
  <2>1. CASE RegisterOf(id, name).absolute
    <3>1. base = 0
      BY <1>1, <2>1 DEF BaseFor
    <3>2. h.block = 0 /\ h.stride = 0
      BY <1>8, <2>1 DEF OfKind
    <3> QED
      BY <1>10, <3>1, <3>2
  <2>2. CASE ~ RegisterOf(id, name).absolute
    BY <1>4, <1>5, <1>8, <2>2 DEF OfKind
  <2> QED
    BY <2>1, <2>2
<1>12. x.address = h.first + (n - 1) * h.stride
  <2>1. PICK d : d = (n - 1) * h.stride
    OBVIOUS
  <2>2. d \in Int
    BY <1>9, <1>10, <2>1
  <2>3. x.address = (h.block + d) + h.offset /\ h.first = h.block + h.offset
    BY <1>3, <1>8, <1>11, <2>1
  <2> QED
    BY ONLY <1>9, <2>1, <2>2, <2>3
<1> QED
  BY <1>1, <1>2, <1>3, <1>7, <1>8, <1>12

LEMMA OneOrMore ==
  ASSUME NEW count \in Nat, NEW n \in 1..count
  PROVE  count = 1 \/ count > 1
OBVIOUS

LEMMA StridesBehind ==
  ASSUME NEW n \in Int, NEW m \in Int, n < m, NEW stride \in Nat
  PROVE  n * stride <= (m - 1) * stride
<1>1. PICK k \in Nat : m = n + 1 + k
  BY m - n - 1 \in Nat
<1>2. (m - 1) * stride = n * stride + k * stride
  BY <1>1
<1>3. k * stride >= 0 /\ n * stride \in Int /\ k * stride \in Int
  OBVIOUS
<1> QED
  BY <1>2, <1>3

(* The n-th instance has it in the n-th place of the block, with an        *)
(* address to spare behind it.                                             *)
LEMMA InPlace ==
  ASSUME NEW version \in Versions, NEW system \in Systems, NEW h \in Homes(version, system),
         NEW n \in 1..h.count, NEW first, first = h.first + (n - 1) * h.stride,
         NEW a \in first .. first + h.width - 1
  PROVE  /\ From(h) <= a /\ a < UpTo(h)
         /\ h.count = 1 => first = h.first
         /\ h.count > 1 => h.block + (n - 1) * h.stride <= a /\ a + 1 < h.block + n * h.stride
<1>1. /\ h.width \in {1, 2} /\ h.block \in Int /\ h.stride \in Nat /\ h.count \in Nat
      /\ h.offset \in Nat /\ h.first = h.block + h.offset
  BY HomeType
<1>2. n \in Int /\ 1 <= n /\ n <= h.count
  BY <1>1
<1>3. PICK before \in Int : before = (n - 1) * h.stride
  BY <1>1, <1>2
<1>4. first = h.first + before /\ first \in Int /\ a \in Int /\ first <= a /\ a < first + h.width
  BY <1>1, <1>3
<1>5. CASE h.count = 1
  <2>1. n - 1 = 0
    BY <1>2, <1>5
  <2>2. before = 0
    BY <1>1, <1>3, <2>1
  <2> QED
    BY <1>1, <1>4, <1>5, <2>2 DEF From, UpTo
<1>6. CASE h.count > 1
  <2>1. h.offset + h.width < h.stride
    BY <1>6, StridesAssumption
  <2>2. n * h.stride = before + h.stride
    BY <1>1, <1>2, <1>3
  <2>3. h.block + before <= a /\ a + 1 < h.block + n * h.stride
    BY <1>1, <1>4, <2>1, <2>2
  <2>4. before >= 0 /\ n * h.stride <= h.count * h.stride
    <3>1. n - 1 \in Nat /\ h.count - n \in Nat
      BY <1>1, <1>2
    <3> DEFINE k == n - 1
               l == h.count - n
    <3>2. k * h.stride >= 0 /\ l * h.stride >= 0 /\ h.count * h.stride = n * h.stride + l * h.stride
      BY <1>1, <1>2, <3>1
    <3>3. l * h.stride \in Int
      BY <1>1, <3>1
    <3> QED
      BY <1>1, <1>2, <1>3, <3>1, <3>2, <3>3
  <2>5. h.count * h.stride \in Int /\ n * h.stride \in Int
    BY <1>1, <1>2
  <2> QED
    BY <1>1, <1>3, <1>4, <1>6, <2>3, <2>4, <2>5 DEF From, UpTo
<1>7. h.count = 1 \/ h.count > 1
  BY <1>1, OneOrMore
<1> DEFINE placed == /\ From(h) <= a /\ a < UpTo(h)
                     /\ h.count = 1 => first = h.first
                     /\ h.count > 1 => /\ h.block + (n - 1) * h.stride <= a
                                       /\ a + 1 < h.block + n * h.stride
<1>8. h.count = 1 => placed
  BY <1>5
<1>9. h.count > 1 => placed
  BY <1>6
<1> HIDE DEF placed
<1>10. placed
  BY <1>7, <1>8, <1>9
<1> QED
  BY <1>10 DEF placed

(* No two registers have an address of a configuration in common.          *)
LEMMA WordsApart ==
  ASSUME NEW config, Accepted(config),
         NEW key \in ComponentKeys(config), NEW other \in ComponentKeys(config),
         NEW x \in LayoutOf(config, key), NEW y \in LayoutOf(config, other),
         key # other \/ x.name # y.name
  PROVE  Words(x) \cap Words(y) = {}
<1> SUFFICES ASSUME NEW w \in Words(x), w \in Words(y) PROVE FALSE
  OBVIOUS
<1> DEFINE homes == Homes(config.version, config.system)
<1>1. PICK h \in homes : /\ h.id = key[1] /\ h.name = x.name /\ h.kind = x.kind
                         /\ h.width = x.width /\ key[2] \in 1..h.count
                         /\ x.address = h.first + (key[2] - 1) * h.stride
  BY AtHome
<1>2. PICK g \in homes : /\ g.id = other[1] /\ g.name = y.name /\ g.kind = y.kind
                         /\ g.width = y.width /\ other[2] \in 1..g.count
                         /\ y.address = g.first + (other[2] - 1) * g.stride
  BY AtHome
<1>3. PICK a \in x.address .. x.address + x.width - 1 : w = <<x.kind, a>>
  BY DEF Words
<1>4. x.kind = y.kind /\ a \in y.address .. y.address + y.width - 1
  BY <1>3 DEF Words
<1>5. config.version \in Versions /\ config.system \in Systems
  BY DEF Accepted
<1>6. /\ From(h) <= a /\ a < UpTo(h)
      /\ h.count = 1 => x.address = h.first
      /\ h.count > 1 => /\ h.block + (key[2] - 1) * h.stride <= a
                        /\ a + 1 < h.block + key[2] * h.stride
  BY <1>1, <1>3, <1>5, InPlace
<1>7. /\ From(g) <= a /\ a < UpTo(g)
      /\ g.count = 1 => y.address = g.first
      /\ g.count > 1 => /\ g.block + (other[2] - 1) * g.stride <= a
                        /\ a + 1 < g.block + other[2] * g.stride
  BY <1>2, <1>4, <1>5, InPlace
<1>8. /\ h.width \in {1, 2} /\ h.block \in Int /\ h.stride \in Nat /\ h.count \in Nat
      /\ h.offset \in Nat /\ h.first = h.block + h.offset
      /\ g.width \in {1, 2} /\ g.block \in Int /\ g.stride \in Nat /\ g.count \in Nat
      /\ g.offset \in Nat /\ g.first = g.block + g.offset
  BY <1>5, HomeType
<1>9. key[2] \in Int /\ other[2] \in Int /\ 1 <= key[2] /\ key[2] <= h.count
      /\ 1 <= other[2] /\ other[2] <= g.count
  BY <1>1, <1>2, <1>8
<1>10. a \in Int /\ From(h) \in Int /\ UpTo(h) \in Int /\ From(g) \in Int /\ UpTo(g) \in Int
  <2>1. h.count * h.stride \in Int /\ g.count * g.stride \in Int
    BY <1>8
  <2>2. (key[2] - 1) * h.stride \in Int
    BY <1>8, <1>9
  <2>3. x.address \in Int /\ x.width \in Int
    BY <1>1, <1>8, <2>2
  <2> QED
    BY <1>3, <1>8, <2>1, <2>3 DEF From, UpTo
<1>11. CASE h.id # g.id
  <2>1. UpTo(h) <= From(g) \/ UpTo(g) <= From(h)
    BY <1>1, <1>2, <1>4, <1>5, <1>11, ApartAssumption
  <2> QED
    BY <1>6, <1>7, <1>10, <2>1
<1>12. CASE h.id = g.id
  <2>1. h.count = g.count /\ (h.count > 1 => h.block = g.block /\ h.stride = g.stride)
    BY <1>1, <1>2, <1>4, <1>5, <1>12, SameBlock
  <2>2. CASE key[2] = other[2]
    <3>1. h.name # g.name
      <4>1. key = <<key[1], key[2]>> /\ other = <<other[1], other[2]>>
        BY KeyWithinLimit
      <4> QED
        BY <1>1, <1>2, <1>12, <2>2, <4>1
    <3>2. h.first + h.width <= g.first \/ g.first + g.width <= h.first
      BY <1>1, <1>2, <1>4, <1>5, <1>12, <3>1, ApartAssumption
    <3>3. PICK before \in Int : x.address = h.first + before /\ y.address = g.first + before
      <4>1. CASE h.count = 1
        BY <1>6, <1>7, <1>8, <2>1, <4>1
      <4>2. CASE h.count # 1
        <5>1. h.count > 1
          BY <1>1, <1>8, <4>2, OneOrMore
        <5>2. h.stride = g.stride
          BY <2>1, <5>1
        <5>3. (key[2] - 1) * h.stride \in Int
          BY <1>8, <1>9
        <5>4. y.address = g.first + (key[2] - 1) * h.stride
          BY <1>2, <2>2, <5>2
        <5> QED
          BY <1>1, <5>3, <5>4
      <4> QED
        BY <4>1, <4>2
    <3>4. /\ x.address <= a /\ a < x.address + h.width
          /\ y.address <= a /\ a < y.address + g.width
      BY <1>1, <1>2, <1>3, <1>4, <1>8, <3>3
    <3> QED
      BY <1>8, <1>10, <3>2, <3>3, <3>4
  <2>3. CASE key[2] # other[2]
    <3>1. h.count > 1 /\ h.block = g.block /\ h.stride = g.stride
      BY <1>8, <1>9, <2>1, <2>3
    <3>2. /\ (key[2] - 1) * h.stride \in Int /\ key[2] * h.stride \in Int
          /\ (other[2] - 1) * h.stride \in Int /\ other[2] * h.stride \in Int
      BY <1>8, <1>9
    <3>3. key[2] * h.stride <= (other[2] - 1) * h.stride
          \/ other[2] * h.stride <= (key[2] - 1) * h.stride
      <4>1. ASSUME NEW n \in Int, NEW m \in Int, n < m
            PROVE  n * h.stride <= (m - 1) * h.stride
        BY <1>8, <4>1, StridesBehind
      <4> QED
        BY <1>9, <2>3, <4>1
    <3> QED
      BY <1>6, <1>7, <1>8, <1>10, <2>1, <3>1, <3>2, <3>3
  <2> QED
    BY <2>2, <2>3
<1> QED
  BY <1>11, <1>12

(* layout.py:141-162: no table is refused.                                 *)
LEMMA NoneOverlaps ==
  ASSUME NEW config, Accepted(config), NEW key \in ComponentKeys(config)
  PROVE  ~ Overlaps(LayoutOf(config, key))
BY WordsApart DEF Overlaps

LEMMA BoundsType ==
  ASSUME NEW version \in Versions, NEW system \in Systems, NEW h \in Homes(version, system)
  PROVE  From(h) \in Int /\ UpTo(h) \in Int
<1>1. /\ h.width \in {1, 2} /\ h.block \in Int /\ h.stride \in Nat /\ h.count \in Nat
      /\ h.offset \in Nat /\ h.first = h.block + h.offset
  BY HomeType
<1>2. h.count * h.stride \in Int
  BY <1>1
<1> QED
  BY <1>1, <1>2 DEF From, UpTo

LEMMA AddressInPlace ==
  ASSUME NEW config, Accepted(config), NEW key \in ComponentKeys(config),
         NEW x \in LayoutOf(config, key), NEW a, <<x.kind, a>> \in Words(x)
  PROVE  \E h \in Homes(config.version, config.system) :
           /\ h.id = key[1] /\ h.kind = x.kind /\ key[2] \in 1..h.count
           /\ a \in Int /\ From(h) <= a /\ a < UpTo(h)
           /\ h.count = 1 => a \in h.first .. h.first + h.width - 1
           /\ h.count > 1 => /\ h.block + (key[2] - 1) * h.stride <= a
                             /\ a + 1 < h.block + key[2] * h.stride
<1>1. PICK h \in Homes(config.version, config.system) :
        /\ h.id = key[1] /\ h.name = x.name /\ h.kind = x.kind
        /\ h.width = x.width /\ key[2] \in 1..h.count
        /\ x.address = h.first + (key[2] - 1) * h.stride
  BY AtHome
<1>2. a \in x.address .. x.address + h.width - 1
  BY <1>1 DEF Words
<1>3. config.version \in Versions /\ config.system \in Systems
  BY DEF Accepted
<1>4. /\ From(h) <= a /\ a < UpTo(h)
      /\ h.count = 1 => x.address = h.first
      /\ h.count > 1 => /\ h.block + (key[2] - 1) * h.stride <= a
                        /\ a + 1 < h.block + key[2] * h.stride
  BY <1>1, <1>2, <1>3, InPlace
<1>5. a \in Int
  <2>1. /\ h.width \in {1, 2} /\ h.block \in Int /\ h.stride \in Nat /\ h.count \in Nat
        /\ h.offset \in Nat /\ h.first = h.block + h.offset
    BY <1>3, HomeType
  <2>2. key[2] \in Int
    BY <1>1, <2>1
  <2>3. (key[2] - 1) * h.stride \in Int
    BY <2>1, <2>2
  <2>4. x.address \in Int
    BY <1>1, <2>1, <2>3
  <2> QED
    BY <1>2, <2>1, <2>4
<1>6. h.count = 1 => a \in h.first .. h.first + h.width - 1
  BY <1>2, <1>4
<1> QED
  BY <1>1, <1>4, <1>5, <1>6

(* Behind each address that is declared is one, not too far, that is not.  *)
LEMMA GapBehind ==
  ASSUME NEW config, Accepted(config), NEW key \in ComponentKeys(config),
         NEW x \in LayoutOf(config, key), NEW a, <<x.kind, a>> \in Words(x)
  PROVE  \E i \in 1..MaxRegistersPerRead :
           \A other \in ComponentKeys(config) : \A y \in LayoutOf(config, other) :
             <<x.kind, a + i>> \notin Words(y)
<1> DEFINE homes == Homes(config.version, config.system)
<1>1. config.version \in Versions /\ config.system \in Systems
  BY DEF Accepted
<1>2. PICK h \in homes :
        /\ h.id = key[1] /\ h.kind = x.kind /\ key[2] \in 1..h.count
        /\ a \in Int /\ From(h) <= a /\ a < UpTo(h)
        /\ h.count = 1 => a \in h.first .. h.first + h.width - 1
        /\ h.count > 1 => /\ h.block + (key[2] - 1) * h.stride <= a
                          /\ a + 1 < h.block + key[2] * h.stride
  BY AddressInPlace
<1>3. ASSUME NEW b \in Int, NEW other \in ComponentKeys(config),
             NEW y \in LayoutOf(config, other), <<x.kind, b>> \in Words(y)
      PROVE  \E g \in homes :
               /\ g.id = other[1] /\ g.kind = h.kind /\ other[2] \in 1..g.count
               /\ From(g) <= b /\ b < UpTo(g)
               /\ g.count > 1 => /\ g.block + (other[2] - 1) * g.stride <= b
                                 /\ b + 1 < g.block + other[2] * g.stride
  <2>1. x.kind = y.kind
    BY <1>3 DEF Words
  <2>2. <<y.kind, b>> \in Words(y)
    BY <1>3, <2>1
  <2> QED
    BY <1>2, <2>1, <2>2, AddressInPlace
<1>4. /\ h.width \in {1, 2} /\ h.block \in Int /\ h.stride \in Nat /\ h.count \in Nat
      /\ h.offset \in Nat /\ h.first = h.block + h.offset
  BY <1>1, HomeType
<1>5. CASE h.count = 1
  <2>1. PICK i \in 1..MaxRegistersPerRead : \A g \in homes :
          g.kind = h.kind => a + i < From(g) \/ UpTo(g) <= a + i
    BY <1>1, <1>2, <1>5, GapsAssumption
  <2>2. ASSUME NEW other \in ComponentKeys(config), NEW y \in LayoutOf(config, other),
               <<x.kind, a + i>> \in Words(y)
        PROVE  FALSE
    <3>1. i \in Int /\ a + i \in Int
      BY <1>2 DEF MaxRegistersPerRead
    <3>2. PICK g \in homes : g.kind = h.kind /\ From(g) <= a + i /\ a + i < UpTo(g)
      BY <1>3, <2>2, <3>1
    <3>3. From(g) \in Int /\ UpTo(g) \in Int
      BY <1>1, BoundsType
    <3> QED
      BY <2>1, <3>1, <3>2, <3>3
  <2> QED
    BY <2>2
<1>6. CASE h.count > 1
  <2> DEFINE spare == h.block + key[2] * h.stride - 1
  <2>1. h.stride <= MaxRegistersPerRead
    BY <1>1, <1>6, StridesAssumption
  <2>2. key[2] \in Int /\ 1 <= key[2] /\ key[2] <= h.count
    BY <1>2, <1>4
  <2>3. PICK before \in Int, upto \in Int :
          /\ before = (key[2] - 1) * h.stride /\ upto = key[2] * h.stride
          /\ upto = before + h.stride
    BY <1>4, <2>2
  <2>4. spare = h.block + upto - 1 /\ h.block + before <= a /\ a + 1 < h.block + upto
    BY <1>2, <1>6, <2>3
  <2> HIDE DEF spare
  <2>5. spare \in Int /\ spare - a \in 1..MaxRegistersPerRead
    <3>1. PICK block \in Int, stride \in Nat : block = h.block /\ stride = h.stride
      BY <1>4
    <3>2. stride <= 120 /\ upto = before + stride
      BY <2>1, <2>3, <3>1 DEF MaxRegistersPerRead
    <3>3. spare = block + upto - 1 /\ block + before <= a /\ a + 1 < block + upto
      BY <2>4, <3>1
    <3>4. a \in Int
      BY <1>2
    <3> QED
      BY ONLY <3>2, <3>3, <3>4, SMT DEF MaxRegistersPerRead
  <2>6. From(h) <= spare /\ spare < UpTo(h)
    <3>1. h.count * h.stride \in Int /\ upto <= h.count * h.stride
      <4>1. h.count - key[2] \in Nat
        BY <1>4, <2>2
      <4>2. (h.count - key[2]) * h.stride >= 0
        BY <1>4, <4>1
      <4>3. h.count * h.stride = upto + (h.count - key[2]) * h.stride
        BY <1>4, <2>2, <2>3
      <4>4. (h.count - key[2]) * h.stride \in Int
        BY <1>4, <4>1
      <4> QED
        BY <2>3, <4>2, <4>3, <4>4
    <3>2. From(h) \in Int
      BY <1>1, BoundsType
    <3> QED
      BY <1>2, <1>4, <1>6, <2>3, <2>4, <2>5, <3>1, <3>2 DEF UpTo, MaxRegistersPerRead
  <2>7. ASSUME NEW other \in ComponentKeys(config), NEW y \in LayoutOf(config, other),
               <<x.kind, spare>> \in Words(y)
        PROVE  FALSE
    <3>1. PICK g \in homes :
            /\ g.id = other[1] /\ g.kind = h.kind /\ other[2] \in 1..g.count
            /\ From(g) <= spare /\ spare < UpTo(g)
            /\ g.count > 1 => /\ g.block + (other[2] - 1) * g.stride <= spare
                              /\ spare + 1 < g.block + other[2] * g.stride
      BY <1>3, <2>5, <2>7
    <3>2. h.id = g.id
      <4>1. h.id # g.id => UpTo(h) <= From(g) \/ UpTo(g) <= From(h)
        BY <1>1, <3>1, ApartAssumption
      <4>2. From(h) \in Int /\ UpTo(h) \in Int /\ From(g) \in Int /\ UpTo(g) \in Int
        BY <1>1, BoundsType
      <4> QED
        BY <2>5, <2>6, <3>1, <4>1, <4>2
    <3>3. g.count = h.count /\ g.block = h.block /\ g.stride = h.stride
      BY <1>1, <1>6, <3>1, <3>2, SameBlock
    <3>4. other[2] \in Int
      BY <1>4, <3>1, <3>3
    <3>5. /\ h.block + (other[2] - 1) * h.stride <= spare
          /\ spare + 1 < h.block + other[2] * h.stride
      BY <1>6, <3>1, <3>3
    <3>6. (other[2] - 1) * h.stride \in Int /\ other[2] * h.stride \in Int
      BY <1>4, <3>4
    <3>7. CASE other[2] <= key[2]
      <4>1. other[2] * h.stride <= upto
        <5>1. other[2] < key[2] + 1
          BY <2>2, <3>4, <3>7
        <5>2. other[2] * h.stride <= ((key[2] + 1) - 1) * h.stride
          BY <1>4, <2>2, <3>4, <5>1, StridesBehind
        <5>3. (key[2] + 1) - 1 = key[2]
          BY <2>2
        <5> QED
          BY <2>3, <5>2, <5>3
      <4> QED
        BY <1>4, <2>3, <2>4, <2>5, <3>5, <3>6, <4>1
    <3>8. CASE key[2] < other[2]
      <4>1. upto <= (other[2] - 1) * h.stride
        BY <1>4, <2>2, <2>3, <3>4, <3>8, StridesBehind
      <4> QED
        BY <1>4, <2>3, <2>4, <2>5, <3>5, <3>6, <4>1
    <3> QED
      BY <2>2, <3>4, <3>7, <3>8
  <2>8. a + (spare - a) = spare
    BY <1>2, <2>5
  <2> QED
    BY <2>5, <2>7, <2>8
<1>7. h.count = 1 \/ h.count > 1
  BY <1>2, <1>4, OneOrMore
<1> QED
  BY <1>5, <1>6, <1>7

(* A component of which there is one has its registers where they are at   *)
(* home.                                                                   *)
LEMMA OnlyAtHome ==
  ASSUME NEW config, Accepted(config), NEW key \in ComponentKeys(config),
         NEW h \in Homes(config.version, config.system), h.id = key[1], h.count = 1
  PROVE  \E x \in LayoutOf(config, key) :
           x.kind = h.kind /\ x.width = h.width /\ x.address = h.first
<1>1. PICK id, name, version, system, base, offset :
        /\ id = h.id /\ name = h.name /\ version = config.version /\ system = config.system
        /\ base = BaseFor(config, key, h.name) /\ offset = OffsetIn(id, name, version, system)
  OBVIOUS
<1>2. /\ id \in DOMAIN Specs /\ name \in DOMAIN Declared[Specs[id].component]
      /\ HasHome(id, name, version, system) /\ h = Home(id, name, version, system)
  BY <1>1, HomeIs
<1>3. /\ h.kind = RegisterOf(id, name).kind /\ h.width = RegisterOf(id, name).width
      /\ h.count = Limit(id, version)
      /\ h.block = OfKind(id, name, Specs[id].inputBase, Specs[id].holdingBase)
      /\ h.offset = offset /\ h.first = h.block + h.offset
  BY <1>1, <1>2, HomeFields
<1>4. key[2] = 1
  BY <1>1, <1>3, KeyWithinLimit
<1>5. /\ RegisterOf(id, name).kind \in {"input", "holding"}
      /\ Specs[id].inputBase \in Nat /\ Specs[id].holdingBase \in Nat \cup {NoBase}
      /\ Specs[id].inputStride \in Nat /\ Specs[id].holdingStride \in Nat
  BY <1>2, KindIs
<1>6. /\ Available(RegisterOf(id, name), version, system)
      /\ RegisterOf(id, name).absolute \/ RegisterOf(id, name).kind = "input"
           \/ (Specs[id].holdingBase # NoBase /\ version >= Specs[id].holdingSince)
  BY <1>2 DEF HasHome, RegisterOf
<1>7. base = h.block /\ base # NoBase
  <2>1. CASE RegisterOf(id, name).absolute
    BY <1>1, <1>3, <2>1 DEF BaseFor, OfKind, NoBase
  <2>2. CASE ~ RegisterOf(id, name).absolute
    <3>1. /\ RegisterOf(id, name).kind = "input" =>
               base = Specs[id].inputBase + (1 - 1) * Specs[id].inputStride
          /\ RegisterOf(id, name).kind = "holding" =>
               base = Specs[id].holdingBase + (1 - 1) * Specs[id].holdingStride
      BY <1>1, <1>4, <1>6, <2>2, BaseIs
    <3>2. Specs[id].holdingBase # NoBase \/ RegisterOf(id, name).kind = "input"
      BY <1>6, <2>2
    <3>3. h.block = IF RegisterOf(id, name).kind = "input" THEN Specs[id].inputBase
                    ELSE Specs[id].holdingBase
      BY <1>3, <2>2 DEF OfKind
    <3> QED
      BY <1>5, <3>1, <3>2, <3>3 DEF NoBase
  <2> QED
    BY <2>1, <2>2
<1> DEFINE x == [name |-> name, kind |-> RegisterOf(id, name).kind,
                 width |-> RegisterOf(id, name).width, address |-> base + offset]
<1>8. x \in LayoutOf(config, key)
  BY <1>1, <1>2, <1>6, <1>7, LayoutOfHas
<1> QED
  BY <1>3, <1>7, <1>8

LEMMA ConfigAccepted ==
  ASSUME request.system \in Systems, request.number \in Nat,
         request.counts \in [DOMAIN Specs -> Int],
         Config.version # NoVersion, Validates(Config)
  PROVE  Accepted(Config)
BY ParseIsEarlier DEF Accepted, Config

-----------------------------------------------------------------------------
(* No setting is named twice.                                              *)
LEMMA SettingsDistinct ==
  LET settings == Settings(component)
  IN /\ Len(settings) \in Nat /\ DOMAIN settings = 1..Len(settings)
     /\ \A i, j \in DOMAIN settings : settings[i] = settings[j] => i = j
<1>1. CASE component = "HeatingCircuit"
  BY <1>1 DEF Settings
<1>2. CASE component = "Buffer"
  BY <1>2 DEF Settings
<1>3. CASE component \notin {"HeatingCircuit", "Buffer"}
  BY <1>3 DEF Settings
<1> QED
  BY <1>1, <1>2, <1>3

(* What is written is a group, in an order, no register of it twice: one   *)
(* name, or some settings.                                                 *)
LEMMA WriteManyIs ==
  ASSUME phase = "used", (\E name \in DOMAIN Table : Write(name)) \/ SetSome
  PROVE  \E names, amounts : /\ amounts \in {Amounts, FewAmounts}
                             /\ DOMAIN names = 1..Len(names)
                             /\ \A i, j \in DOMAIN names : names[i] = names[j] => i = j
                             /\ \E group \in GroupsFor(names, amounts) : WriteMany(group)
<1>1. ASSUME NEW name \in DOMAIN Table, Write(name)
      PROVE  \E names : /\ DOMAIN names = 1..Len(names)
                        /\ \A i, j \in DOMAIN names : names[i] = names[j] => i = j
                        /\ \E group \in GroupsFor(names, Amounts) : WriteMany(group)
  <2>1. /\ DOMAIN <<name>> = 1..Len(<<name>>)
        /\ \A i, j \in DOMAIN <<name>> : <<name>>[i] = <<name>>[j] => i = j
    OBVIOUS
  <2> QED
    BY <1>1, <2>1 DEF Write
<1>2. ASSUME SetSome
      PROVE  \E names : /\ DOMAIN names = 1..Len(names)
                        /\ \A i, j \in DOMAIN names : names[i] = names[j] => i = j
                        /\ \E group \in GroupsFor(names, FewAmounts) : WriteMany(group)
  <2> DEFINE settings == Settings(component)
  <2>1. PICK n \in 0..Len(settings) : \E kept \in [1..n -> DOMAIN settings] :
          /\ \A i, j \in 1..n : i < j => kept[i] < kept[j]
          /\ \E group \in GroupsFor([i \in 1..n |-> settings[kept[i]]], FewAmounts) :
               WriteMany(group)
    BY <1>2 DEF SetSome
  <2>2. PICK kept \in [1..n -> DOMAIN settings] :
          /\ \A i, j \in 1..n : i < j => kept[i] < kept[j]
          /\ \E group \in GroupsFor([i \in 1..n |-> settings[kept[i]]], FewAmounts) :
               WriteMany(group)
    BY <2>1
  <2> DEFINE names == [i \in 1..n |-> settings[kept[i]]]
  <2>3. \E group \in GroupsFor(names, FewAmounts) : WriteMany(group)
    BY <2>2
  <2>4. /\ Len(settings) \in Nat /\ DOMAIN settings = 1..Len(settings)
        /\ \A i, j \in DOMAIN settings : settings[i] = settings[j] => i = j
    BY SettingsDistinct
  <2> HIDE DEF settings
  <2>5. n \in Nat /\ \A i \in 1..n : kept[i] \in Int
    BY <2>4
  <2>6. ASSUME NEW i \in 1..n, NEW j \in 1..n, names[i] = names[j] PROVE i = j
    <3>1. kept[i] = kept[j]
      BY <2>4, <2>6
    <3> QED
      BY <2>2, <2>5, <3>1
  <2>7. DOMAIN names = 1..n
    OBVIOUS
  <2> HIDE DEF names
  <2>8. DOMAIN names = 1..Len(names)
    BY <2>5, <2>7
  <2> QED
    BY <2>3, <2>6, <2>7, <2>8
<1> QED
  BY <1>1, <1>2

LEMMA StepLayoutsInv == LayoutsInv /\ [Next]_vars => LayoutsInv'
<1> SUFFICES ASSUME LayoutsInv, [Next]_vars PROVE LayoutsInv'
  OBVIOUS
<1>1. CASE Build
  <2>1. /\ phase' \in {"refused", "built"} /\ request' = request /\ layouts = Nothing
        /\ request.system \in Systems /\ request.number \in Nat
        /\ request.counts \in [DOMAIN Specs -> Int]
    BY <1>1 DEF Build, LayoutsInv
  <2>2. ASSUME phase' = "built"
        PROVE  Config.version # NoVersion /\ Validates(Config) /\ layouts' = Resolved
    BY <1>1, <2>2 DEF Build
  <2>3. ASSUME phase' = "refused" PROVE layouts' = Nothing
    <3>1. CASE ~ (Config.version # NoVersion /\ Validates(Config))
      BY <1>1, <2>1, <3>1 DEF Build
    <3>2. CASE Config.version # NoVersion /\ Validates(Config)
      <4>1. layouts' = Resolved /\ \E key \in DOMAIN layouts' : Overlaps(layouts'[key])
        BY <1>1, <2>3, <3>2 DEF Build
      <4> QED
        BY <2>1, <3>2, <4>1, ConfigAccepted, NoneOverlaps DEF Resolved
    <3> QED
      BY <3>1, <3>2
  <2> QED
    BY <2>1, <2>2, <2>3 DEF LayoutsInv, Config, Resolved
<1>2. ASSUME NEW key \in Instances, Use(key) PROVE LayoutsInv'
  <2>1. /\ phase = "built" /\ phase' = "used" /\ key \in DOMAIN layouts
        /\ layouts = Resolved /\ component' = Specs[key[1]].component /\ layout' = layouts[key]
    BY <1>2 DEF Use, LayoutsInv
  <2>2. key \in ComponentKeys(Config) /\ layout' = LayoutOf(Config, key)
    BY <2>1 DEF Resolved
  <2>3. component' \in DOMAIN Declared
    BY <2>1, <2>2, KeysDeclared, SpecsAssumption
  <2>4. Names' \subseteq DOMAIN Declared[component']
    BY <2>1, <2>2, LayoutDeclares DEF Names, NamesIn
  <2> QED
    BY <2>1, <2>3, <2>4 DEF LayoutsInv, Table
<1>3. CASE \/ UNCHANGED <<phase, request, layouts, component, layout>>
           \/ UNCHANGED vars
  BY <1>3 DEF LayoutsInv, vars, Config, Resolved, Names, NamesIn, Table
<1>4. CASE \/ \E name \in Names : OwnChange(name)
           \/ Poll
           \/ phase = "used" /\ \E name \in DOMAIN Table : Write(name)
           \/ phase = "used" /\ Settings(component) # <<>> /\ SetSome
  BY <1>3, <1>4, WriteManyIs DEF OwnChange, Poll, WriteMany
<1> QED
  BY <1>1, <1>2, <1>3, <1>4 DEF Next

LEMMA InitLayoutsInv == Init => LayoutsInv
BY RequestsAssumption DEF Init, LayoutsInv

(* A component in use has the registers of its kind, and a configuration   *)
(* that was built has the layouts of its firmware.                         *)
THEOREM Invariance == Spec => []LayoutsInv
<1> QED
  BY InitLayoutsInv, StepLayoutsInv, PTL DEF Spec

(* heating_circuit.py:17-26, layout.py:98-101: whatever firmware is asked  *)
(* for, known or not, and for whatever system, nothing is declared that is *)
(* newer.                                                                  *)
THEOREM DeclaresNothingNewer == Spec => []NothingNewer
<1>1. LayoutsInv => NothingNewer
  <2> SUFFICES ASSUME LayoutsInv, phase = "built",
                      NEW key \in DOMAIN layouts, NEW x \in layouts[key]
               PROVE  /\ Declared[Specs[key[1]].component][x.name].since <= request.number
                      /\ Specs[key[1]].since <= request.number
    BY DEF NothingNewer, Built
  <2> DEFINE version == Parse(request.number, request.clamp)
             r == Declared[Specs[key[1]].component][x.name]
  <2>1. /\ layouts = Resolved /\ Config.version = version /\ version # NoVersion
        /\ request.number \in Nat
    BY DEF LayoutsInv, Config
  <2>2. key \in ComponentKeys(Config) /\ x \in LayoutOf(Config, key)
    BY <2>1 DEF Resolved
  <2>4. version \in Versions /\ version <= request.number
    BY <2>1, ParseIsEarlier
  <2>5. /\ x.name \in DOMAIN Declared[Specs[key[1]].component]
        /\ r.since <= Config.version
    BY <2>2, LayoutDeclares
  <2>6. key[1] \in DOMAIN Specs /\ Specs[key[1]].since <= Config.version
    BY <2>2, KeysDeclared
  <2>7. r.since \in Nat /\ Specs[key[1]].since \in Nat
    BY <2>5, <2>6, SpecsAssumption, DeclaredAssumption
  <2> HIDE DEF version, r
  <2>8. version \in Nat
    BY <2>4 DEF Versions
  <2>9. r.since <= request.number /\ Specs[key[1]].since <= request.number
    BY <2>1, <2>4, <2>5, <2>6, <2>7, <2>8
  <2> QED
    BY <2>9 DEF r
<1> QED
  BY <1>1, Invariance, PTL

(* layout.py:141-152: whatever is configured, no address has two registers,*)
(* of one component or of two, and no table is refused.                    *)
THEOREM NoAddressTwice == Spec => []OneAddressOneRegister
<1>1. LayoutsInv => OneAddressOneRegister
  <2> SUFFICES ASSUME LayoutsInv, phase = "built",
                      NEW key \in DOMAIN layouts, NEW other \in DOMAIN layouts, key # other
               PROVE  WordsOf(key) \cap WordsOf(other) = {}
    BY DEF OneAddressOneRegister, Built, LayoutsInv
  <2>1. Accepted(Config) /\ layouts = Resolved
    BY ConfigAccepted DEF LayoutsInv
  <2>2. /\ key \in ComponentKeys(Config) /\ layouts[key] = LayoutOf(Config, key)
        /\ other \in ComponentKeys(Config) /\ layouts[other] = LayoutOf(Config, other)
    BY <2>1 DEF Resolved
  <2>3. \A x \in layouts[key], y \in layouts[other] : Words(x) \cap Words(y) = {}
    BY <2>1, <2>2, WordsApart
  <2> QED
    BY <2>3 DEF WordsOf
<1> QED
  BY <1>1, Invariance, PTL

(* heat_pump.py:82-105: what a coefficient is worked out from is read by   *)
(* one request, whatever else is configured.                               *)
THEOREM DerivedTogether == Spec => []DerivedInOneRead
<1>1. LayoutsInv => DerivedInOneRead
  <2> SUFFICES ASSUME LayoutsInv, phase = "built" PROVE DerivedInOneRead
    BY DEF DerivedInOneRead, Built
  <2>1. Accepted(Config) /\ layouts = Resolved
    BY ConfigAccepted DEF LayoutsInv
  <2>2. /\ DOMAIN layouts = ComponentKeys(Config)
        /\ \A key \in DOMAIN layouts : layouts[key] = LayoutOf(Config, key)
    BY <2>1 DEF Resolved
  <2>3. \A w : w \in AllWords <=>
                 \E key \in ComponentKeys(Config) : \E x \in LayoutOf(Config, key) : w \in Words(x)
    BY <2>2 DEF AllWords, WordsOf
  <2>4. ASSUME NEW w \in AllWords
        PROVE  \E i \in 1..MaxRegistersPerRead : <<w[1], w[2] + i>> \notin AllWords
    <3>1. PICK key \in ComponentKeys(Config) : \E x \in LayoutOf(Config, key) : w \in Words(x)
      BY <2>3
    <3>2. PICK x \in LayoutOf(Config, key) : w \in Words(x)
      BY <3>1
    <3>3. w = <<x.kind, w[2]>> /\ w[1] = x.kind
      BY <3>2 DEF Words
    <3>4. <<x.kind, w[2]>> \in Words(x)
      BY <3>2, <3>3
    <3>5. PICK i \in 1..MaxRegistersPerRead :
            \A other \in ComponentKeys(Config) : \A y \in LayoutOf(Config, other) :
              <<x.kind, w[2] + i>> \notin Words(y)
      BY <2>1, <3>4, GapBehind
    <3> QED
      BY <2>3, <3>3, <3>5
  <2>5. ASSUME NEW key \in DOMAIN layouts, NEW inputs \in Derived(Specs[key[1]].component),
               inputs \subseteq NamesIn(layouts[key]),
               NEW x \in {z \in layouts[key] : z.name \in inputs},
               NEW y \in {z \in layouts[key] : z.name \in inputs},
               NEW a \in x.address .. y.address
        PROVE  <<x.kind, a>> \in AllWords
    <3> DEFINE homes == Homes(Config.version, Config.system)
    <3>1. /\ key \in ComponentKeys(Config)
          /\ x \in LayoutOf(Config, key) /\ y \in LayoutOf(Config, key)
          /\ x.name \in inputs /\ y.name \in inputs
      BY <2>2
    <3>2. PICK h \in homes : /\ h.id = key[1] /\ h.name = x.name /\ h.kind = x.kind
                             /\ key[2] \in 1..h.count
                             /\ x.address = h.first + (key[2] - 1) * h.stride
      BY <2>1, <3>1, AtHome
    <3>3. PICK g \in homes : /\ g.id = key[1] /\ g.name = y.name
                             /\ y.address = g.first + (key[2] - 1) * g.stride
      BY <2>1, <3>1, AtHome
    <3>4. Config.version \in Versions /\ Config.system \in Systems
      BY <2>1 DEF Accepted
    <3>5. /\ h.count = 1
          /\ \A b \in h.first .. g.first : \E f \in homes :
               f.id = h.id /\ f.kind = h.kind /\ f.first <= b /\ b < f.first + f.width
      BY <3>1, <3>2, <3>3, <3>4, TogetherAssumption
    <3>6. x.address = h.first /\ y.address = g.first /\ a \in Int
      <4>1. key[2] - 1 = 0
        BY <3>2, <3>5
      <4>2. /\ h.stride \in Nat /\ h.block + h.offset = h.first /\ h.block \in Int /\ h.offset \in Nat
            /\ g.stride \in Nat /\ g.block + g.offset = g.first /\ g.block \in Int /\ g.offset \in Nat
        BY <3>4, HomeType
      <4>3. 0 * h.stride = 0 /\ 0 * g.stride = 0
        BY <4>2
      <4>4. x.address = h.first + 0 /\ y.address = g.first + 0
        BY <3>2, <3>3, <4>1, <4>3
      <4> QED
        BY <4>2, <4>4
    <3>7. PICK f \in homes :
            f.id = h.id /\ f.kind = h.kind /\ f.first <= a /\ a < f.first + f.width
      BY <3>5, <3>6
    <3>8. f.count = 1
      BY <3>2, <3>4, <3>5, <3>7, SameBlock
    <3>9. PICK z \in LayoutOf(Config, key) :
            z.kind = f.kind /\ z.width = f.width /\ z.address = f.first
      BY <2>1, <3>1, <3>2, <3>7, <3>8, OnlyAtHome
    <3>10. a \in z.address .. z.address + z.width - 1
      <4>1. f.width \in {1, 2} /\ f.first \in Int
        BY <3>4, HomeType
      <4> QED
        BY <3>6, <3>7, <3>9, <4>1
    <3>11. <<x.kind, a>> \in Words(z)
      BY <3>2, <3>7, <3>9, <3>10 DEF Words
    <3> QED
      BY <2>3, <3>1, <3>9, <3>11
  <2> QED
    BY <2>4, <2>5 DEF DerivedInOneRead
<1> QED
  BY <1>1, Invariance, PTL

-----------------------------------------------------------------------------
(* A call that ends is a group that was refused, accepted or not taken.    *)
LEMMA EndsByWriting ==
  ASSUME [Next]_vars, NEW how, Ends(how)
  PROVE  /\ phase = "used" /\ UNCHANGED <<component, layout>>
         /\ \E names, amounts :
              /\ amounts \in {Amounts, FewAmounts} /\ DOMAIN names = 1..Len(names)
              /\ \A i, j \in DOMAIN names : names[i] = names[j] => i = j
              /\ \E group \in GroupsFor(names, amounts) : \E encoded \in Checked(group) :
                   \/ Refuse(group, encoded) /\ how = "refused"
                   \/ Accept(group, encoded) /\ how = "accepted"
                   \/ Fail(group, encoded) /\ how = "failed"
<1>1. last' # last /\ last'.ended = how
  BY DEF Ends
<1>2. phase = "used" /\ ((\E name \in DOMAIN Table : Write(name)) \/ SetSome)
  BY <1>1 DEF Next, Build, Use, OwnChange, Poll, vars
<1>3. PICK names, amounts : /\ amounts \in {Amounts, FewAmounts}
                            /\ DOMAIN names = 1..Len(names)
                            /\ \A i, j \in DOMAIN names : names[i] = names[j] => i = j
                            /\ \E group \in GroupsFor(names, amounts) : WriteMany(group)
  BY <1>2, WriteManyIs
<1>4. PICK group \in GroupsFor(names, amounts) : WriteMany(group)
  BY <1>3
<1>5. PICK encoded \in Checked(group) :
        Refuse(group, encoded) \/ Accept(group, encoded) \/ Fail(group, encoded)
  BY <1>4 DEF WriteMany
<1>6. /\ Refuse(group, encoded) => last'.ended = "refused"
      /\ Accept(group, encoded) => last'.ended = "accepted"
      /\ Fail(group, encoded) => last'.ended = "failed"
  BY DEF Refuse, Accept, Fail, Call
<1>7. UNCHANGED <<component, layout>>
  BY <1>4 DEF WriteMany
<1>8. \/ Refuse(group, encoded) /\ how = "refused"
      \/ Accept(group, encoded) /\ how = "accepted"
      \/ Fail(group, encoded) /\ how = "failed"
  BY <1>1, <1>5, <1>6
<1> QED
  BY <1>2, <1>3, <1>4, <1>5, <1>7, <1>8

(* base.py:252-276: a group with a part that is refused sends none of it,  *)
(* and one that was not taken whole shows none of it.                      *)
THEOREM RefusedWhole == Spec => NothingHalfDone
<1>1. [Next]_vars => [WholeOrNot]_vars
  <2> SUFFICES ASSUME [Next]_vars PROVE WholeOrNot
    OBVIOUS
  <2>1. ASSUME Ends("refused") PROVE last'.sent = <<>> /\ UNCHANGED <<words, values, raws>>
    <3>1. PICK group, encoded : Refuse(group, encoded)
      BY <2>1, EndsByWriting
    <3>2. last'.sent = MessagesUpTo(0, group, encoded) /\ UNCHANGED <<words, values, raws>>
      BY <3>1 DEF Refuse, Call, cacheVars
    <3>3. MessagesUpTo(0, group, encoded) = <<>>
      BY DEF MessagesUpTo
    <3> QED
      BY <3>2, <3>3
  <2>2. ASSUME Ends("failed") PROVE UNCHANGED cacheVars
    <3>1. PICK group, encoded : Fail(group, encoded)
      BY <2>2, EndsByWriting
    <3> QED
      BY <3>1 DEF Fail
  <2> QED
    BY <2>1, <2>2 DEF WholeOrNot
<1> QED
  BY <1>1, PTL DEF Spec, NothingHalfDone

-----------------------------------------------------------------------------
(* The word of a register that is written in another unit than it is read  *)
(* in, and what is made of it: neither leaves what one word can hold.      *)
LEMMA OneWord ==
  ASSUME NEW raw \in 0..1000
  PROVE  RawToWords(raw, 1) = <<raw>> /\ Signed(<<raw>>) = raw
<1>1. raw % 65536 = raw /\ raw < 65536 \div 2
  OBVIOUS
<1>2. RawToWords(raw, 1) = <<raw>>
  BY <1>1 DEF RawToWords, Word
<1>3. Len(<<raw>>) = 1 /\ <<raw>>[1] = raw
  OBVIOUS
<1>4. Signed(<<raw>>) = raw
  BY <1>1, <1>3 DEF Signed, Assembled, Word
<1> QED
  BY <1>2, <1>4

LEMMA NearestIs ==
  ASSUME NEW n \in Int, NEW d \in Nat \ {0}, NEW q \in Nearest(n, d)
  PROVE  q \in Int /\ q * d \in Int /\ -d <= 2 * (q * d - n) /\ 2 * (q * d - n) <= d
BY DEF Nearest

(* Rounding leaves no bounds that are whole.                               *)
LEMMA NearestInside ==
  ASSUME NEW n \in Int, NEW d \in Nat \ {0}, NEW low \in Int, NEW high \in Int,
         low * d <= n, n <= high * d, NEW q \in Nearest(n, d)
  PROVE  q \in low..high
<1>1. q \in Int /\ q * d \in Int /\ -d <= 2 * (q * d - n) /\ 2 * (q * d - n) <= d
  BY NearestIs
<1>2. low <= q
  <2> SUFFICES ASSUME q < low PROVE FALSE
    BY <1>1
  <2>1. q * d <= (low - 1) * d
    BY <1>1, StridesBehind
  <2>2. (low - 1) * d = low * d - d /\ low * d \in Int
    OBVIOUS
  <2> QED
    BY <1>1, <2>1, <2>2
<1>3. q <= high
  <2> SUFFICES ASSUME high < q PROVE FALSE
    BY <1>1
  <2>1. high * d <= (q - 1) * d
    BY <1>1, StridesBehind
  <2>2. (q - 1) * d = q * d - d /\ high * d \in Int
    BY <1>1
  <2> QED
    BY <1>1, <2>1, <2>2
<1> QED
  BY <1>1, <1>2, <1>3

LEMMA RescaledIsNextRead ==
  ASSUME NEW r, NEW v \in [kind : {"number"}, n : Int, per : Nat \ {0}],
         r.width = 1, r.signed, r.decodes = "number", r.sentinels = {},
         r.bounds = <<1, 100>>, r.writePer = 1, r.per = 10,
         NEW e \in Encodings(r, v), e # Refused
  PROVE  /\ SameValue(Cached(r, e).value, Decode(Held(r, e), r, r.per))
         /\ Cached(r, e).raw = Held(r, e)
         /\ \E raw \in Nearest(v.n, v.per) : Decode(Held(r, e), r, r.per) = Number(raw * 10, 10)
<1>1. InBounds(r, v)
  BY DEF Encodings
<1>2. 1 * v.per <= v.n /\ v.n <= 100 * v.per
  BY <1>1 DEF InBounds
<1>3. PICK raw \in Nearest(v.n * 1, v.per) : e = RawToWords(raw, 1)
  BY <1>1 DEF Encodings, Raws
<1>4. raw \in 1..100
  <2>1. v.n * 1 = v.n /\ v.n \in Int /\ v.per \in Nat \ {0}
    OBVIOUS
  <2>2. raw \in Nearest(v.n, v.per)
    BY <1>3, <2>1
  <2> QED
    BY ONLY <1>2, <2>1, <2>2, 1 \in Int, 100 \in Int, NearestInside, ZenonT(30)
<1>5. e = <<raw>> /\ WordsToRaw(e, r.signed) = raw
  <2>1. raw \in 0..1000
    BY <1>4
  <2>2. RawToWords(raw, 1) = <<raw>> /\ Signed(<<raw>>) = raw
    BY ZenonT(60), <2>1, OneWord
  <2> QED
    BY <2>2, <1>3 DEF WordsToRaw
<1>6. Decode(e, r, 1) = Number(raw, 1) /\ Number(raw, 1) # None
  <2>1. Number(raw, 1) # None
    BY DEF Number, None
  <2>2. ~ Marked(e, r)
    BY DEF Marked
  <2> QED
    BY <1>5, <2>1, <2>2 DEF Decode
<1>7. (raw * 10) \div 1 = raw * 10
  BY <1>4
<1> r.writePer # r.per
  OBVIOUS
<1>8. Held(r, e) = RawToWords(raw * 10, 1)
  <2>1. Held(r, e) = RawToWords((raw * 10) \div 1, 1)
    BY <1>5 DEF Held
  <2> QED
    BY ONLY <2>1, <1>7
<1>9. Cached(r, e).raw = RawToWords(raw * 10, 1)
  <2>1. Decode(e, r, r.writePer) = Number(raw, 1)
    BY <1>6
  <2>2. Cached(r, e).raw = RawToWords((Number(raw, 1).n * r.per) \div Number(raw, 1).per, r.width)
    BY <2>1, <1>6 DEF Cached
  <2>3. Number(raw, 1).n = raw /\ Number(raw, 1).per = 1
    BY DEF Number
  <2> QED
    BY <2>2, <2>3, <1>7
<1>10. Held(r, e) = <<raw * 10>> /\ WordsToRaw(Held(r, e), r.signed) = raw * 10
  <2>1. PICK k \in 0..1000 : k = raw * 10
    BY <1>4
  <2>2. RawToWords(k, 1) = <<k>> /\ Signed(<<k>>) = k
    BY ZenonT(60), OneWord
  <2>3. Held(r, e) = <<k>>
    BY <2>1, <2>2, <1>8
  <2> QED
    BY <2>1, <2>2, <2>3 DEF WordsToRaw
<1>11. Decode(Held(r, e), r, r.per) = Number(raw * 10, 10)
  <2>1. ~ Marked(Held(r, e), r)
    BY DEF Marked
  <2> QED
    BY <1>10, <2>1 DEF Decode
<1>12. Cached(r, e).value = Number(raw, 1)
  BY <1>6 DEF Cached
<1>13. SameValue(Number(raw, 1), Number(raw * 10, 10))
  BY <1>4 DEF SameValue, Number
<1>14. raw \in Nearest(v.n, v.per)
  BY <1>3
<1> QED
  BY <1>8, <1>11, <1>12, <1>13, <1>9, <1>14

LEMMA SameUnitIsNextRead ==
  ASSUME NEW r, NEW e, r.writePer = r.per
  PROVE  /\ SameValue(Cached(r, e).value, Decode(Held(r, e), r, r.per))
         /\ Cached(r, e).raw = Held(r, e)
BY DEF Cached, Held, SameValue

(* What an accepted group made of each of its parts.                       *)
LEMMA AcceptedIs ==
  ASSUME LayoutsInv, [Next]_vars, Ends("accepted"), NEW w \in Taken
  PROVE  /\ component \in DOMAIN Declared /\ w.name \in DOMAIN Table /\ Table[w.name].writable
         /\ \E amounts \in {Amounts, FewAmounts} : w.value \in Legitimate(Table[w.name], amounts)
         /\ \E e \in Encodings(Table[w.name], w.value) :
              /\ e # Refused
              /\ words'[w.name] = Held(Table[w.name], e)
              /\ values'[w.name] = Cached(Table[w.name], e).value
              /\ raws'[w.name] = Cached(Table[w.name], e).raw
<1>1. PICK names, amounts :
        /\ amounts \in {Amounts, FewAmounts} /\ DOMAIN names = 1..Len(names)
        /\ \A j, k \in DOMAIN names : names[j] = names[k] => j = k
        /\ \E group \in GroupsFor(names, amounts) : \E encoded \in Checked(group) :
             Accept(group, encoded)
  <2>1. "accepted" \notin {"refused", "failed"}
    OBVIOUS
  <2> QED
    BY ONLY <2>1, [Next]_vars, Ends("accepted"), EndsByWriting, ZenonT(60)
<1>2. PICK group \in GroupsFor(names, amounts) :
        \E encoded \in Checked(group) : Accept(group, encoded)
  BY <1>1
<1>3. PICK encoded \in Checked(group) : Accept(group, encoded)
  BY <1>2
<1>4. phase = "used" /\ component \in DOMAIN Declared /\ Names \subseteq DOMAIN Table
  BY EndsByWriting DEF LayoutsInv
<1>5. /\ words' = HeldAfter(group, encoded, Len(group))
      /\ last'.group = group /\ CacheGroup(group, encoded)
      /\ \A i \in DOMAIN group : encoded[i] # Refused
  BY <1>3 DEF Accept, Call
<1>6. /\ DOMAIN group = DOMAIN names
      /\ \A i \in DOMAIN group :
           /\ group[i].name = names[i]
           /\ group[i].value \in Legitimate(Table[group[i].name], amounts)
  BY <1>2 DEF GroupsFor, OneOfEach
<1>7. \A i \in DOMAIN group : encoded[i] \in Checks(group[i])
  BY <1>3 DEF Checked, OneOfEach
<1> DEFINE i == IndexOf(w.name, group)
           r == Table[w.name]
<1>8. i \in DOMAIN group /\ group[i] = w
  <2>1. PICK k \in DOMAIN group : group[k] = w
    BY <1>5 DEF Taken
  <2>2. i \in DOMAIN group /\ group[i].name = w.name
    BY <2>1 DEF IndexOf
  <2> HIDE DEF i
  <2>3. i = k
    BY <1>1, <1>6, <2>1, <2>2
  <2> QED
    BY <2>1, <2>3
<1> HIDE DEF i
<1>9. /\ w.name \in Names /\ r.writable /\ encoded[i] \in Encodings(r, w.value)
      /\ encoded[i] # Refused /\ w.value \in Legitimate(r, amounts)
  BY <1>5, <1>6, <1>7, <1>8 DEF Checks
<1>10. w.name \in Written(group, Len(group))
  <2>1. DOMAIN group = 1..Len(group)
    BY <1>1, <1>6
  <2> QED
    BY <1>8, <2>1 DEF Written
<1>11. words'[w.name] = Held(r, encoded[i])
  BY <1>5, <1>9, <1>10 DEF HeldAfter, i
<1>12. /\ values'[w.name] = Cached(r, encoded[i]).value
       /\ raws'[w.name] = Cached(r, encoded[i]).raw
  <2> DEFINE new(name) == Cached(Table[name], encoded[IndexOf(name, group)])
             written == Written(group, Len(group))
  <2>1. /\ values' = Overlaid([name \in written |-> new(name).value], values)
        /\ raws' = Overlaid([name \in written |-> new(name).raw], raws)
    BY <1>5 DEF CacheGroup
  <2>2. \A f, g : w.name \in DOMAIN f => Overlaid(f, g)[w.name] = f[w.name]
    BY DEF Overlaid
  <2>3. new(w.name) = Cached(r, encoded[i])
    BY DEF i
  <2> HIDE DEF new
  <2> QED
    BY <1>10, <2>1, <2>2, <2>3
<1> QED
  BY <1>1, <1>4, <1>9, <1>11, <1>12

(* base.py:276-285: after a write the component says what the next read    *)
(* will report, for whatever is written to whatever register.              *)
THEOREM WrittenIsNextRead == Spec => CacheIsNextRead
<1>1. LayoutsInv /\ [Next]_vars => [ShowsNextRead]_vars
  <2> SUFFICES ASSUME LayoutsInv, [Next]_vars, Ends("accepted"), NEW w \in Taken
               PROVE  /\ SameValue(values'[w.name], NextRead(w.name, words'[w.name]))
                      /\ raws'[w.name] = words'[w.name]
    BY DEF ShowsNextRead
  <2> DEFINE r == Table[w.name]
  <2>1. /\ component \in DOMAIN Declared /\ w.name \in DOMAIN Table
        /\ \E amounts \in {Amounts, FewAmounts} : w.value \in Legitimate(r, amounts)
    BY AcceptedIs
  <2>2. PICK e \in Encodings(r, w.value) :
          /\ e # Refused /\ words'[w.name] = Held(r, e)
          /\ values'[w.name] = Cached(r, e).value /\ raws'[w.name] = Cached(r, e).raw
    BY AcceptedIs
  <2>3. CASE r.writePer = r.per
    BY <2>2, <2>3, SameUnitIsNextRead DEF NextRead
  <2>4. CASE r.writePer # r.per
    <3>1. /\ r.width = 1 /\ r.signed /\ r.decodes = "number" /\ r.sentinels = {}
          /\ r.bounds = <<1, 100>> /\ r.writePer = 1 /\ r.per = 10
      BY <2>1, <2>4, DeclaredAssumption DEF Table
    <3>2. w.value \in [kind : {"number"}, n : Int, per : Nat \ {0}]
      BY <2>1, <3>1, AmountsAssumption DEF Legitimate
    <3>3. NextRead(w.name, words'[w.name]) = Decode(words'[w.name], r, r.per)
      BY DEF NextRead
    <3> HIDE DEF r
    <3>4. /\ SameValue(Cached(r, e).value, Decode(Held(r, e), r, r.per))
          /\ Cached(r, e).raw = Held(r, e)
      BY <2>2, <3>1, <3>2, RescaledIsNextRead
    <3> QED
      BY <2>2, <3>3, <3>4
  <2> QED
    BY <2>3, <2>4
<1> QED
  BY <1>1, Invariance, PTL DEF Spec, CacheIsNextRead

-----------------------------------------------------------------------------
LEMMA InAWord ==
  ASSUME NEW x
  PROVE  x \in AWord <=> x \in Int /\ 0 <= x /\ x < 65536
<1>1. \A high \in Int : x \in 0 .. high - 1 <=> x \in Int /\ 0 <= x /\ x < high
  OBVIOUS
<1>2. Word \in Int /\ \A n \in Int : n < Word <=> n < 65536
  BY DEF Word
<1> QED
  BY <1>1, <1>2 DEF AWord

(* codec.py:31-59: a register's one word or two, and their number.         *)
LEMMA AnyRawIsWords ==
  ASSUME NEW raw \in Int, NEW width \in {1, 2}
  PROVE  RawToWords(raw, width) \in [1..width -> AWord]
<1>1. \A k \in Int : k % Word \in AWord
  <2>1. \A k \in Int : k % 65536 \in Int /\ 0 <= k % 65536 /\ k % 65536 < 65536
    BY SMT
  <2>2. ASSUME NEW k \in Int PROVE k % Word \in AWord
    <3>1. k % Word \in Int /\ 0 <= k % Word /\ k % Word < 65536
      BY <2>1 DEF Word
    <3> QED
      BY <3>1, InAWord
  <2> QED
    BY <2>2
<1>2. raw \in Int /\ raw \div Word \in Int
  BY SMT DEF Word
<1>3. \A i \in 1..width : (IF i = width THEN raw ELSE raw \div Word) % Word \in AWord
  BY <1>1, <1>2
<1> QED
  BY <1>3 DEF RawToWords

LEMMA WordsComeBack ==
  ASSUME NEW width \in {1, 2}, NEW ws \in [1..width -> AWord], NEW signed
  PROVE  /\ WordsToRaw(ws, signed) \in Int
         /\ RawToWords(WordsToRaw(ws, signed), width) = ws
<1> DEFINE first == IF signed /\ ~ (ws[1] < Word \div 2) THEN ws[1] - Word ELSE ws[1]
<1>1. ws[1] \in AWord
  OBVIOUS
<1>2. first \in Int /\ first % 65536 = ws[1]
  <2>1. ws[1] \in Int /\ 0 <= ws[1] /\ ws[1] < 65536
    BY <1>1, InAWord
  <2>2. ws[1] % 65536 = ws[1] /\ (ws[1] - 65536) % 65536 = ws[1]
    BY <2>1, SMT
  <2>3. first = ws[1] \/ first = ws[1] - 65536
    BY DEF Word
  <2> HIDE DEF first
  <2> QED
    BY <2>1, <2>2, <2>3
<1>3. WordsToRaw(ws, signed) = Assembled(first, ws)
  BY DEF WordsToRaw, Signed, Unsigned
<1> HIDE DEF first
<1>4. Len(ws) = width
  OBVIOUS
<1>5. CASE width = 1
  <2>1. Assembled(first, ws) = first
    BY <1>4, <1>5 DEF Assembled
  <2>2. RawToWords(first, 1) = [i \in 1..1 |-> ws[i]]
    BY <1>2 DEF RawToWords, Word
  <2> QED
    BY <1>2, <1>3, <1>5, <2>1, <2>2
<1>6. CASE width = 2
  <2>1. ws[2] \in AWord
    BY <1>6
  <2>2. Assembled(first, ws) = first * 65536 + ws[2]
    <3>1. Len(ws) # 1
      BY <1>4, <1>6
    <3>2. Assembled(first, ws) = first * Word + ws[2]
      BY <3>1 DEF Assembled
    <3> QED
      BY <3>2 DEF Word
  <2> DEFINE raw == first * 65536 + ws[2]
  <2>3. raw \in Int /\ raw % 65536 = ws[2] /\ raw \div 65536 = first
    <3>1. ws[2] \in Int /\ 0 <= ws[2] /\ ws[2] < 65536
      BY <2>1, InAWord
    <3>2. PICK f \in Int, g \in Int : f = first /\ g = ws[2]
      BY <1>2, <3>1
    <3>3. 0 <= g /\ g < 65536
      BY <3>1, <3>2
    <3>4. (f * 65536 + g) % 65536 = g /\ (f * 65536 + g) \div 65536 = f
      BY <3>3, SMT
    <3> QED
      BY <1>2, <3>2, <3>4
  <2> HIDE DEF raw
  <2>4. RawToWords(raw, 2) = [i \in 1..2 |-> ws[i]]
    BY <1>2, <2>3 DEF RawToWords, Word
  <2> QED
    BY <1>3, <1>6, <2>2, <2>3, <2>4 DEF raw
<1> QED
  BY <1>5, <1>6

LEMMA LegitimateRaws ==
  ASSUME NEW r, r.writePer \in Nat, r.members \subseteq Int,
         NEW amounts \in {Amounts, FewAmounts}, NEW v \in Legitimate(r, amounts)
  PROVE  Raws(r, v) \subseteq Int
<1>1. CASE r.decodes = "bool"
  BY <1>1 DEF Legitimate, Truth, Raws
<1>2. CASE r.decodes = "enum"
  BY <1>2 DEF Legitimate, Member, Raws
<1>3. CASE r.decodes \notin {"bool", "enum"}
  <2>1. v \in [kind : {"number"}, n : Int, per : Nat \ {0}]
    BY <1>3, AmountsAssumption DEF Legitimate
  <2> QED
    BY <2>1 DEF Raws, Nearest
<1> QED
  BY <1>1, <1>2, <1>3

LEMMA DividedBack ==
  ASSUME NEW raw \in Int
  PROVE  /\ raw \div 65536 \in Int /\ raw % 65536 \in Int
         /\ 0 <= raw % 65536 /\ raw % 65536 < 65536
         /\ raw = (raw \div 65536) * 65536 + (raw % 65536)
<1>1. raw \div 65536 \in Int
  BY SMT
<1>2. raw % 65536 \in Int /\ 0 <= raw % 65536 /\ raw % 65536 < 65536
  BY SMT
<1>3. raw = (raw \div 65536) * 65536 + (raw % 65536)
  BY SMT
<1> QED
  BY <1>1, <1>2, <1>3

LEMMA FitsIs ==
  ASSUME NEW r, NEW raw \in Int, Fits(raw, r)
  PROVE  /\ r.width = 1 => IF r.signed THEN -32768 <= raw /\ raw < 32768
                           ELSE 0 <= raw /\ raw < 65536
         /\ r.width = 2 => IF r.signed THEN -2147483648 <= raw /\ raw < 2147483648
                           ELSE 0 <= raw /\ raw < 4294967296
<1>1. 65536 \div 2 = 32768 /\ 65536 * 65536 = 4294967296 /\ 4294967296 \div 2 = 2147483648
  BY SMT
<1>2. /\ r.width = 1 => Capacity(r.width) = 65536
      /\ r.width = 2 => Capacity(r.width) = 4294967296
  BY <1>1 DEF Capacity, Word
<1>3. IF r.signed THEN raw \in -(Capacity(r.width) \div 2) .. Capacity(r.width) \div 2 - 1
      ELSE raw \in 0 .. Capacity(r.width) - 1
  BY DEF Fits
<1>4. CASE r.width = 1
  BY <1>1, <1>2, <1>3, <1>4
<1>5. CASE r.width = 2
  BY <1>1, <1>2, <1>3, <1>5
<1> QED
  BY <1>4, <1>5

(* A number that fits is what its words are read as.                       *)
LEMMA NumberComesBack ==
  ASSUME NEW r, r.width \in {1, 2}, NEW raw \in Int, Fits(raw, r)
  PROVE  WordsToRaw(RawToWords(raw, r.width), r.signed) = raw
<1> DEFINE ws == RawToWords(raw, r.width)
           high == raw \div 65536
           low == raw % 65536
           first == IF r.signed /\ ~ (ws[1] < Word \div 2) THEN ws[1] - Word ELSE ws[1]
<1>1. /\ high \in Int /\ low \in Int /\ 0 <= low /\ low < 65536 /\ raw = high * 65536 + low
  BY DividedBack
<1>2. WordsToRaw(ws, r.signed) = Assembled(first, ws)
  BY DEF WordsToRaw, Signed, Unsigned
<1>3. DOMAIN ws = 1..r.width /\ Len(ws) = r.width
  <2>1. ws \in [1..r.width -> AWord]
    BY AnyRawIsWords
  <2> QED
    BY <2>1
<1>4. CASE r.width = 1
  <2>1. ws[1] = low
    BY <1>4 DEF RawToWords, Word
  <2>2. IF r.signed THEN -32768 <= raw /\ raw < 32768 ELSE 0 <= raw /\ raw < 65536
    BY <1>4, FitsIs
  <2>3. first = IF r.signed /\ ~ (low < 32768) THEN low - 65536 ELSE low
    BY <2>1 DEF Word
  <2> HIDE DEF first, low, high
  <2>4. first = raw
    BY <1>1, <2>2, <2>3
  <2> QED
    BY <1>2, <1>3, <1>4, <2>4 DEF Assembled
<1>5. CASE r.width = 2
  <2>1. ws[1] = high % 65536 /\ ws[2] = low
    BY <1>5 DEF RawToWords, Word
  <2>2. IF r.signed THEN -2147483648 <= raw /\ raw < 2147483648
                    ELSE 0 <= raw /\ raw < 4294967296
    BY <1>5, FitsIs
  <2>3. IF r.signed THEN -32768 <= high /\ high < 32768 ELSE 0 <= high /\ high < 65536
    <3> HIDE DEF high, low
    <3> QED
      BY <1>1, <2>2
  <2>4. first = IF r.signed /\ ~ (high % 65536 < 32768) THEN (high % 65536) - 65536
                ELSE high % 65536
    BY <2>1 DEF Word
  <2> HIDE DEF first, high, low
  <2>5. first = high
    BY <1>1, <2>3, <2>4
  <2>6. Assembled(first, ws) = first * 65536 + ws[2]
    <3>1. Len(ws) # 1
      BY <1>3, <1>5
    <3>2. Assembled(first, ws) = first * Word + ws[2]
      BY <3>1 DEF Assembled
    <3> QED
      BY <3>2 DEF Word
  <2> QED
    BY <1>1, <1>2, <2>1, <2>5, <2>6
<1> QED
  BY <1>4, <1>5

(* Half a step of rounding is half a step in the units that are read.      *)
LEMMA NearestIsNear ==
  ASSUME NEW n \in Int, NEW d \in Nat \ {0}, NEW per \in Nat \ {0},
         NEW raw \in Nearest(n * per, d)
  PROVE  2 * per * (raw * d - n * per) \in -(per * d) .. per * d
<1> DEFINE x == raw * d - n * per
<1>1. raw \in Int /\ raw * d \in Int /\ x \in Int /\ n * per \in Int
  BY NearestIs
<1>2. -d <= 2 * x /\ 2 * x <= d
  BY NearestIs
<1> HIDE DEF x
<1>3. d - 2 * x \in Nat /\ d + 2 * x \in Nat
  BY <1>1, <1>2
<1>4. (d - 2 * x) * per >= 0 /\ (d + 2 * x) * per >= 0
  BY <1>3
<1>5. (d - 2 * x) * per = d * per - 2 * per * x /\ (d + 2 * x) * per = d * per + 2 * per * x
  BY <1>1
<1>6. d * per \in Int /\ 2 * per * x \in Int
  BY <1>1
<1>7. d * per = per * d
  OBVIOUS
<1>8. 2 * per * x \in -(per * d) .. per * d
  BY <1>4, <1>5, <1>6, <1>7
<1> QED
  BY <1>8 DEF x

(* How far a number is from a value, by its fields.                        *)
LEMMA NearNumber ==
  ASSUME NEW n, NEW d, NEW v, NEW per,
         2 * per * (n * v.per - v.n * d) \in -(d * v.per) .. d * v.per
  PROVE  Near(Number(n, d), v, per)
<1> DEFINE Within(a, b) == 2 * per * (a * v.per - v.n * b) \in -(b * v.per) .. b * v.per
<1>1. Number(n, d).n = n /\ Number(n, d).per = d
  BY DEF Number
<1>2. Within(n, d)
  OBVIOUS
<1>3. Within(Number(n, d).n, Number(n, d).per)
  <2> HIDE DEF Within
  <2> QED
    BY <1>1, <1>2, Zenon
<1> QED
  BY <1>3, Zenon DEF Near

LEMMA BoundsScale ==
  ASSUME NEW n \in Int, NEW d \in Nat, NEW per \in Nat, NEW low \in Int, NEW high \in Int,
         low * d <= n, n <= high * d
  PROVE  (low * per) * d <= n * per /\ n * per <= (high * per) * d
<1>1. low * d \in Int /\ high * d \in Int /\ n - low * d \in Nat /\ high * d - n \in Nat
  OBVIOUS
<1>2. (n - low * d) * per >= 0 /\ (high * d - n) * per >= 0
  BY <1>1
<1>3. /\ (n - low * d) * per = n * per - (low * per) * d
      /\ (high * d - n) * per = (high * per) * d - n * per
  OBVIOUS
<1>4. n * per \in Int /\ (low * per) * d \in Int /\ (high * per) * d \in Int
  OBVIOUS
<1> QED
  BY <1>2, <1>3, <1>4

(* What is read of words that were sent for a value: the value, or of a    *)
(* number that nothing bounds perhaps the marker that it is.               *)
LEMMA SameUnitReads ==
  ASSUME NEW c \in DOMAIN Declared, NEW name \in DOMAIN Declared[c], NEW r, r = Declared[c][name],
         r.writable, r.writePer = r.per,
         NEW amounts \in {Amounts, FewAmounts}, NEW v \in Legitimate(r, amounts),
         NEW e \in Encodings(r, v), e # Refused
  PROVE  LET shown == Decode(e, r, r.per)
         IN \/ shown.kind = v.kind /\ Near(shown, v, r.writePer)
            \/ /\ shown = None /\ r.bounds = <<>> /\ r.decodes = "number"
               /\ \E marker \in r.sentinels : Near(Number(marker, r.per), v, r.per)
<1>1. /\ r.width \in {1, 2} /\ r.per \in Nat \ {0} /\ r.writePer \in Nat \ {0}
      /\ r.members \subseteq Int
  BY DeclaredAssumption
<1>2. InBounds(r, v)
  BY DEF Encodings
<1>3. PICK raw \in Raws(r, v) : Fits(raw, r) /\ e = RawToWords(raw, r.width)
  BY <1>2 DEF Encodings
<1>4. raw \in Int
  BY <1>1, <1>3, LegitimateRaws
<1>5. WordsToRaw(e, r.signed) = raw /\ e \in [1..r.width -> AWord]
  <2>1. WordsToRaw(RawToWords(raw, r.width), r.signed) = raw
    BY <1>1, <1>3, <1>4, NumberComesBack
  <2>2. RawToWords(raw, r.width) \in [1..r.width -> AWord]
    BY <1>1, <1>4, AnyRawIsWords
  <2> QED
    BY <1>3, <2>1, <2>2
<1>6. ASSUME Marked(e, r)
      PROVE  \E marker \in r.sentinels :
               marker = Unsigned(e) /\ WordsToRaw(RawToWords(marker, r.width), r.signed) = raw
  <2>1. RawToWords(WordsToRaw(e, FALSE), r.width) = e
    BY <1>1, <1>5, WordsComeBack
  <2>2. WordsToRaw(e, FALSE) = Unsigned(e)
    BY DEF WordsToRaw
  <2> QED
    BY <1>5, <1>6, <2>1, <2>2 DEF Marked
<1>7. /\ r.decodes \in {"bool", "enum", "number"}
      /\ r.bounds # <<>> => r.bounds[1] \in Int /\ r.bounds[2] \in Int
      /\ \A marker \in r.sentinels :
           WordsToRaw(RawToWords(marker, r.width), r.signed) = raw =>
             /\ r.decodes = "bool" => raw \notin {0, 1}
             /\ r.decodes = "enum" => raw \notin r.members
             /\ r.decodes = "number" /\ r.bounds = <<>> => raw = marker
             /\ r.decodes = "number" /\ r.bounds # <<>> =>
                  raw \notin r.bounds[1] * r.writePer .. r.bounds[2] * r.writePer
  <2>1. /\ r.decodes \in {"bool", "enum", "number"}
        /\ r.bounds # <<>> => r.bounds[1] \in Int /\ r.bounds[2] \in Int
    BY WritableAssumption
  <2>2. ASSUME NEW marker \in r.sentinels,
               WordsToRaw(RawToWords(marker, r.width), r.signed) = raw
        PROVE  /\ r.decodes = "bool" => raw \notin {0, 1}
               /\ r.decodes = "enum" => raw \notin r.members
               /\ r.decodes = "number" =>
                    IF r.bounds = <<>> THEN raw = marker
                    ELSE raw \notin r.bounds[1] * r.writePer .. r.bounds[2] * r.writePer
    BY <2>2, WritableAssumption
  <2> QED
    BY <2>1, <2>2
<1>8. CASE r.decodes = "bool"
  <2>1. v \in {Truth(0), Truth(1)} /\ raw = v.n
    BY <1>3, <1>8 DEF Legitimate, Raws
  <2>2. raw \in {0, 1} /\ v = Truth(raw)
    BY <2>1 DEF Truth
  <2>3. ~ Marked(e, r)
    BY <1>6, <1>7, <1>8, <2>2
  <2>4. Decode(e, r, r.per) = Truth(raw)
    BY <1>5, <1>8, <2>2, <2>3 DEF Decode
  <2>5. Near(Truth(raw), Truth(raw), r.writePer)
    BY <1>1, <2>2 DEF Near, Truth
  <2> QED
    BY <2>2, <2>4, <2>5
<1>9. CASE r.decodes = "enum"
  <2>1. raw \in r.members /\ v = Member(raw)
    BY <1>3, <1>9 DEF Legitimate, Raws, Member
  <2>2. ~ Marked(e, r)
    BY <1>6, <1>7, <1>9, <2>1
  <2>3. Decode(e, r, r.per) = Member(raw)
    BY <1>5, <1>9, <2>1, <2>2 DEF Decode
  <2>4. Near(Member(raw), Member(raw), r.writePer)
    BY <1>1, <1>4 DEF Near, Member
  <2> QED
    BY <2>1, <2>3, <2>4
<1>10. CASE r.decodes = "number"
  <2>1. v \in [kind : {"number"}, n : Int, per : Nat \ {0}]
    BY <1>10, AmountsAssumption DEF Legitimate
  <2>2. raw \in Nearest(v.n * r.per, v.per)
    BY <1>3, <1>10 DEF Raws
  <2>3. 2 * r.per * (raw * v.per - v.n * r.per) \in -(r.per * v.per) .. r.per * v.per
    <3>1. v.n \in Int /\ v.per \in Nat \ {0} /\ r.per \in Nat \ {0}
      BY <1>1, <2>1
    <3> QED
      BY <2>2, <3>1, NearestIsNear, ZenonT(60)
  <2>4. Near(Number(raw, r.per), v, r.per)
    BY <2>3, NearNumber, Zenon
  <2>5. CASE ~ Marked(e, r)
    <3>1. Decode(e, r, r.per) = Number(raw, r.per)
      BY <1>5, <1>10, <2>5 DEF Decode
    <3> QED
      BY <2>1, <2>4, <3>1 DEF Number
  <2>6. CASE Marked(e, r)
    <3>1. PICK marker \in r.sentinels : WordsToRaw(RawToWords(marker, r.width), r.signed) = raw
      BY <1>6, <2>6
    <3>2. Decode(e, r, r.per) = None
      BY <1>10, <2>6 DEF Decode
    <3>3. r.bounds = <<>>
      <4> SUFFICES ASSUME r.bounds # <<>> PROVE FALSE
        OBVIOUS
      <4> DEFINE least == r.bounds[1] * r.per
                 most == r.bounds[2] * r.per
      <4>1. /\ r.bounds[1] \in Int /\ r.bounds[2] \in Int
            /\ r.bounds[1] * v.per <= v.n /\ v.n <= r.bounds[2] * v.per
        BY <1>2, <1>7 DEF InBounds
      <4>2. least \in Int /\ most \in Int /\ v.n * r.per \in Int
        BY <1>1, <2>1, <4>1
      <4>3. least * v.per <= v.n * r.per /\ v.n * r.per <= most * v.per
        <5>1. v.n \in Int /\ v.per \in Nat /\ r.per \in Nat
          BY <1>1, <2>1
        <5> QED
          BY <4>1, <5>1, BoundsScale, ZenonT(60) DEF least, most
      <4> HIDE DEF least, most
      <4>4. raw \in least .. most
        BY <2>1, <2>2, <4>2, <4>3, NearestInside
      <4> QED
        BY <1>7, <1>10, <3>1, <4>4 DEF least, most
    <3>4. raw = marker
      BY <1>7, <1>10, <3>1, <3>3
    <3> QED
      BY <1>10, <2>4, <3>2, <3>3, <3>4
  <2> QED
    BY <2>5, <2>6
<1> QED
  BY <1>7, <1>8, <1>9, <1>10

(* codec.py:111-123: whatever the controller is told by a write that was   *)
(* let through reads back as what was written, to half a step, or is the   *)
(* marker that it is.                                                      *)
THEOREM WrittenReadsBack == Spec => WrittenValueReads
<1> DEFINE Reads(w) ==
      LET r == Table[w.name]
          shown == NextRead(w.name, words'[w.name])
      IN \/ shown.kind = w.value.kind /\ Near(shown, w.value, r.writePer)
         \/ /\ shown = None /\ r.bounds = <<>> /\ r.decodes = "number"
            /\ \E marker \in r.sentinels : Near(Number(marker, r.per), w.value, r.per)
<1>1. LayoutsInv /\ [Next]_vars => [Ends("accepted") => \A w \in Taken : Reads(w)]_vars
  <2> SUFFICES ASSUME LayoutsInv, [Next]_vars, Ends("accepted"), NEW w \in Taken
               PROVE  Reads(w)
    OBVIOUS
  <2> DEFINE r == Table[w.name]
  <2>1. /\ component \in DOMAIN Declared /\ w.name \in DOMAIN Table /\ r.writable
        /\ \E amounts \in {Amounts, FewAmounts} : w.value \in Legitimate(r, amounts)
    BY AcceptedIs
  <2>2. PICK e \in Encodings(r, w.value) : e # Refused /\ words'[w.name] = Held(r, e)
    BY AcceptedIs
  <2>3. NextRead(w.name, words'[w.name]) = Decode(Held(r, e), r, r.per)
    BY <2>2 DEF NextRead
  <2>4. CASE r.writePer = r.per
    <3>1. Held(r, e) = e
      BY <2>4 DEF Held
    <3>2. PICK amounts \in {Amounts, FewAmounts} : w.value \in Legitimate(r, amounts)
      BY <2>1
    <3>3. r = Declared[component][w.name] /\ w.name \in DOMAIN Declared[component]
      BY <2>1 DEF Table
    <3>4. LET shown == Decode(e, r, r.per)
          IN \/ shown.kind = w.value.kind /\ Near(shown, w.value, r.writePer)
             \/ /\ shown = None /\ r.bounds = <<>> /\ r.decodes = "number"
                /\ \E marker \in r.sentinels : Near(Number(marker, r.per), w.value, r.per)
      <4> HIDE DEF r
      <4> QED
        BY <2>1, <2>2, <2>4, <3>2, <3>3, SameUnitReads
    <3> QED
      BY <2>3, <3>1, <3>4
  <2>5. CASE r.writePer # r.per
    <3>1. /\ r.width = 1 /\ r.signed /\ r.decodes = "number" /\ r.sentinels = {}
          /\ r.bounds = <<1, 100>> /\ r.writePer = 1 /\ r.per = 10
      BY <2>1, <2>5, DeclaredAssumption DEF Table
    <3>2. w.value \in [kind : {"number"}, n : Int, per : Nat \ {0}]
      BY <2>1, <3>1, AmountsAssumption DEF Legitimate
    <3> DEFINE v == w.value
    <3>3. PICK raw \in Nearest(v.n, v.per) : Decode(Held(r, e), r, r.per) = Number(raw * 10, 10)
      <4> HIDE DEF r
      <4> QED
        BY <2>2, <3>1, <3>2, RescaledIsNextRead
    <3>4. /\ raw \in Int /\ raw * v.per \in Int /\ v.n \in Int /\ v.per \in Nat \ {0}
          /\ -v.per <= 2 * (raw * v.per - v.n) /\ 2 * (raw * v.per - v.n) <= v.per
      BY <3>2, NearestIs
    <3>5. 2 * 1 * ((raw * 10) * v.per - v.n * 10) \in -(10 * v.per) .. 10 * v.per
      <4>1. PICK n \in Int, d \in Nat, x \in Int : n = v.n /\ d = v.per /\ x = raw * v.per
        BY <3>4
      <4>2. (raw * 10) * d = x * 10
        BY <3>4, <4>1
      <4>3. 2 * 1 * (x * 10 - n * 10) \in -(10 * d) .. 10 * d
        BY <3>4, <4>1
      <4> QED
        BY <4>1, <4>2, <4>3
    <3>6. Near(Number(raw * 10, 10), v, 1)
      BY <3>5, NearNumber, Zenon
    <3>7. Number(raw * 10, 10).kind = v.kind
      BY <3>2 DEF Number
    <3> QED
      BY <2>3, <3>1, <3>3, <3>6, <3>7
  <2> QED
    BY <2>4, <2>5
<1> QED
  BY <1>1, Invariance, PTL DEF Spec, WrittenValueReads

(* What encode() lets through is words, and so is what the register holds  *)
(* then, and what is kept of it.                                           *)
LEMMA SentAreWords ==
  ASSUME component \in DOMAIN Declared, NEW name \in DOMAIN Table,
         NEW amounts \in {Amounts, FewAmounts}, NEW v \in Legitimate(Table[name], amounts),
         NEW e \in Encodings(Table[name], v), e # Refused
  PROVE  /\ e \in WordsOfRegister(Table[name])
         /\ Held(Table[name], e) \in WordsOfRegister(Table[name])
         /\ Cached(Table[name], e).raw = Held(Table[name], e)
<1> DEFINE r == Table[name]
<1>1. /\ r.width \in {1, 2} /\ r.writePer \in Nat /\ r.members \subseteq Int
      /\ r.writePer # r.per =>
           /\ r.width = 1 /\ r.signed /\ r.decodes = "number" /\ r.sentinels = {}
           /\ r.bounds = <<1, 100>> /\ r.writePer = 1 /\ r.per = 10
  BY DeclaredAssumption DEF Table
<1> HIDE DEF r
<1>2. v \in Legitimate(r, amounts) /\ e \in Encodings(r, v)
  BY DEF r
<1>3. Raws(r, v) \subseteq Int
  BY <1>1, <1>2, LegitimateRaws
<1>4. PICK raw \in Raws(r, v) : e = RawToWords(raw, r.width)
  BY <1>2 DEF Encodings
<1>5. e \in [1..r.width -> AWord]
  BY <1>1, <1>3, <1>4, AnyRawIsWords
<1>6. CASE r.writePer = r.per
  BY <1>5, <1>6, SameUnitIsNextRead DEF Held, WordsOfRegister, r
<1>7. CASE r.writePer # r.per
  <2>1. /\ r.width = 1 /\ r.signed /\ r.decodes = "number" /\ r.sentinels = {}
        /\ r.bounds = <<1, 100>> /\ r.writePer = 1 /\ r.per = 10
    BY <1>1, <1>7
  <2>2. v \in [kind : {"number"}, n : Int, per : Nat \ {0}]
    BY <2>1, <1>2, AmountsAssumption DEF Legitimate
  <2>3. Cached(r, e).raw = Held(r, e)
    BY <2>1, <2>2, <1>2, RescaledIsNextRead
  <2>4. WordsToRaw(e, r.signed) \in Int
    <3>1. r.width \in {1, 2}
      BY <1>1
    <3> QED
      BY <3>1, <1>5, WordsComeBack
  <2>5. (WordsToRaw(e, r.signed) * r.per) \div r.writePer \in Int
    <3>1. PICK k \in Int : k = WordsToRaw(e, r.signed)
      BY <2>4
    <3>2. (k * 10) \div 1 \in Int
      OBVIOUS
    <3>3. r.writePer = 1 /\ r.per = 10
      BY <2>1
    <3> QED
      BY <3>1, <3>2, <3>3
  <2>6. Held(r, e) \in [1..r.width -> AWord]
    BY <1>1, <1>7, <2>5, AnyRawIsWords DEF Held
  <2> QED
    BY <1>5, <2>3, <2>6 DEF WordsOfRegister, r
<1> QED
  BY <1>6, <1>7

LEMMA WordsAreSound ==
  ASSUME NEW c \in DOMAIN Declared, NEW f, DOMAIN f \subseteq DOMAIN Declared[c],
         \A name \in DOMAIN f : f[name] \in WordsOfRegister(Declared[c][name])
  PROVE  \A name \in DOMAIN f :
           LET r == Declared[c][name]
           IN /\ f[name] \in WordsOfRegister(r)
              /\ RawToWords(WordsToRaw(f[name], r.signed), r.width) = f[name]
<1> SUFFICES ASSUME NEW name \in DOMAIN f
             PROVE  RawToWords(WordsToRaw(f[name], Declared[c][name].signed),
                               Declared[c][name].width) = f[name]
  OBVIOUS
<1> DEFINE r == Declared[c][name]
<1>1. r.width \in {1, 2}
  BY DeclaredAssumption
<1>2. f[name] \in [1..r.width -> AWord]
  BY DEF WordsOfRegister
<1> HIDE DEF r
<1>3. RawToWords(WordsToRaw(f[name], r.signed), r.width) = f[name]
  BY <1>1, <1>2, WordsComeBack
<1> QED
  BY <1>3 DEF r

(* A group whose parts are all encoded, as far as it was sent.             *)
LEMMA GroupAreWords ==
  ASSUME phase = "used", LayoutsInv, DOMAIN words = Names, SoundWords(words),
         NEW names, DOMAIN names = 1..Len(names),
         NEW amounts \in {Amounts, FewAmounts},
         NEW group \in GroupsFor(names, amounts), NEW encoded \in Checked(group),
         \A i \in DOMAIN group : encoded[i] # Refused
  PROVE  /\ DOMAIN group = 1..Len(group) /\ Len(group) \in Nat
         /\ \A i \in DOMAIN group :
              /\ group[i].name \in Names
              /\ encoded[i] \in WordsOfRegister(Table[group[i].name])
              /\ Held(Table[group[i].name], encoded[i]) \in WordsOfRegister(Table[group[i].name])
              /\ Cached(Table[group[i].name], encoded[i]).raw
                   = Held(Table[group[i].name], encoded[i])
         /\ \A n \in 0..Len(group) : \A name \in Written(group, n) :
              /\ IndexOf(name, group) \in DOMAIN group
              /\ group[IndexOf(name, group)].name = name
         /\ \A n \in 0..Len(group) : \A name \in Names :
              HeldAfter(group, encoded, n)[name] \in WordsOfRegister(Table[name])
<1>1. component \in DOMAIN Declared /\ Names \subseteq DOMAIN Table
  BY DEF LayoutsInv
<1>2. /\ DOMAIN group = DOMAIN names
      /\ \A i \in DOMAIN group :
           /\ group[i].name = names[i]
           /\ group[i].value \in Legitimate(Table[group[i].name], amounts)
  BY DEF GroupsFor, OneOfEach
<1>3. DOMAIN group = 1..Len(group) /\ Len(group) \in Nat
  BY <1>2
<1>4. \A i \in DOMAIN group :
        group[i].name \in Names /\ encoded[i] \in Encodings(Table[group[i].name], group[i].value)
  BY DEF Checked, OneOfEach, Checks
<1>5. ASSUME NEW i \in DOMAIN group
      PROVE  /\ encoded[i] \in WordsOfRegister(Table[group[i].name])
             /\ Held(Table[group[i].name], encoded[i]) \in WordsOfRegister(Table[group[i].name])
             /\ Cached(Table[group[i].name], encoded[i]).raw
                  = Held(Table[group[i].name], encoded[i])
  <2>1. /\ group[i].name \in DOMAIN Table
        /\ group[i].value \in Legitimate(Table[group[i].name], amounts)
        /\ encoded[i] \in Encodings(Table[group[i].name], group[i].value)
        /\ encoded[i] # Refused
    BY <1>1, <1>2, <1>4
  <2> QED
    BY <1>1, <2>1, SentAreWords
<1>6. ASSUME NEW n \in 0..Len(group), NEW name \in Written(group, n)
      PROVE  IndexOf(name, group) \in DOMAIN group /\ group[IndexOf(name, group)].name = name
  <2>1. \E i \in DOMAIN group : group[i].name = name
    BY <1>3 DEF Written
  <2> QED
    BY <2>1 DEF IndexOf
<1>7. ASSUME NEW n \in 0..Len(group), NEW name \in Names
      PROVE  HeldAfter(group, encoded, n)[name] \in WordsOfRegister(Table[name])
  <2>1. CASE name \in Written(group, n)
    <3> DEFINE i == IndexOf(name, group)
    <3>1. i \in DOMAIN group /\ group[i].name = name
      BY <1>6, <2>1
    <3>2. HeldAfter(group, encoded, n)[name] = Held(Table[name], encoded[i])
      BY <2>1 DEF HeldAfter
    <3> HIDE DEF i
    <3> QED
      BY <1>5, <3>1, <3>2
  <2>2. CASE name \notin Written(group, n)
    BY <2>2 DEF HeldAfter, SoundWords
  <2> QED
    BY <2>1, <2>2
<1> QED
  BY <1>3, <1>4, <1>5, <1>6, <1>7

(* A call ends with new words, and new words to keep, or it was refused.   *)
LEMMA WriteKeepsSound ==
  ASSUME TypeOK, phase = "used", UNCHANGED <<phase, component, layout>>,
         NEW names, DOMAIN names = 1..Len(names),
         NEW amounts \in {Amounts, FewAmounts},
         NEW group \in GroupsFor(names, amounts), WriteMany(group)
  PROVE  /\ DOMAIN words' = Names
         /\ DOMAIN raws' \subseteq Names /\ DOMAIN values' = DOMAIN raws'
         /\ SoundWords(words)' /\ SoundWords(raws)'
         /\ \A i \in DOMAIN last'.sent : AreWords(last'.sent[i][3])
<1>1. /\ LayoutsInv /\ DOMAIN words = Names
      /\ DOMAIN raws \subseteq Names /\ DOMAIN values = DOMAIN raws
      /\ SoundWords(words) /\ SoundWords(raws)
  BY DEF TypeOK
<1>2. component \in DOMAIN Declared /\ Names \subseteq DOMAIN Table /\ Table' = Table
  BY <1>1 DEF LayoutsInv, Table
<1>3. ASSUME NEW f, DOMAIN f \subseteq Names,
             \A name \in DOMAIN f : f[name] \in WordsOfRegister(Table[name])
      PROVE  \A name \in DOMAIN f :
               LET r == Table[name]
               IN /\ f[name] \in WordsOfRegister(r)
                  /\ RawToWords(WordsToRaw(f[name], r.signed), r.width) = f[name]
  BY <1>2, <1>3, WordsAreSound DEF Table
<1>4. PICK encoded \in Checked(group) :
        Refuse(group, encoded) \/ Accept(group, encoded) \/ Fail(group, encoded)
  BY DEF WriteMany
<1>5. CASE Refuse(group, encoded)
  <2>1. UNCHANGED <<words, values, raws>> /\ last'.sent = MessagesUpTo(0, group, encoded)
    BY <1>5 DEF Refuse, cacheVars, Call
  <2>2. DOMAIN last'.sent = {}
    BY <2>1 DEF MessagesUpTo
  <2> QED
    BY <1>1, <1>2, <2>1, <2>2 DEF SoundWords
<1>6. ASSUME \A i \in DOMAIN group : encoded[i] # Refused,
             NEW n \in 0..Len(group), words' = HeldAfter(group, encoded, n),
             last'.sent = MessagesUpTo(n, group, encoded)
      PROVE  /\ DOMAIN words' = Names /\ SoundWords(words)'
             /\ \A i \in DOMAIN last'.sent : AreWords(last'.sent[i][3])
  <2>1. /\ DOMAIN group = 1..Len(group) /\ Len(group) \in Nat
        /\ \A i \in DOMAIN group : encoded[i] \in WordsOfRegister(Table[group[i].name])
        /\ \A name \in Names : words'[name] \in WordsOfRegister(Table[name])
    BY <1>1, <1>6, GroupAreWords
  <2>2. DOMAIN words' = Names
    BY <1>6 DEF HeldAfter
  <2>3. SoundWords(words)'
    BY <1>2, <1>3, <2>1, <2>2 DEF SoundWords
  <2>4. ASSUME NEW i \in DOMAIN last'.sent PROVE AreWords(last'.sent[i][3])
    <3>1. i \in 1..n /\ i \in DOMAIN group
      BY <1>6, <2>1, <2>4 DEF MessagesUpTo
    <3>2. last'.sent[i][3] = encoded[i]
      BY <1>6, <3>1 DEF MessagesUpTo, Message
    <3> QED
      BY <2>1, <3>1, <3>2 DEF WordsOfRegister, AreWords
  <2> QED
    BY <2>2, <2>3, <2>4
<1>7. CASE Fail(group, encoded)
  BY <1>1, <1>2, <1>6, <1>7 DEF Fail, Call, cacheVars, SoundWords
<1>8. CASE Accept(group, encoded)
  <2>1. /\ \A i \in DOMAIN group : encoded[i] # Refused
        /\ words' = HeldAfter(group, encoded, Len(group))
        /\ last'.sent = MessagesUpTo(Len(group), group, encoded)
    BY <1>8 DEF Accept, Call
  <2> DEFINE written == Written(group, Len(group))
             kept == [name \in written |->
                        Cached(Table[name], encoded[IndexOf(name, group)]).raw]
  <2>2. /\ DOMAIN group = 1..Len(group) /\ Len(group) \in Nat
        /\ \A i \in DOMAIN group :
             /\ group[i].name \in Names
             /\ Held(Table[group[i].name], encoded[i]) \in WordsOfRegister(Table[group[i].name])
             /\ Cached(Table[group[i].name], encoded[i]).raw
                  = Held(Table[group[i].name], encoded[i])
        /\ \A name \in written :
             IndexOf(name, group) \in DOMAIN group /\ group[IndexOf(name, group)].name = name
    BY <1>1, <2>1, GroupAreWords
  <2>3. /\ raws' = Overlaid(kept, raws)
        /\ DOMAIN values' = written \cup DOMAIN values
    BY <1>8 DEF Accept, CacheGroup, Overlaid
  <2>4. \A name \in written : kept[name] \in WordsOfRegister(Table[name])
    BY <2>2
  <2>5. written \subseteq Names
    BY <2>2 DEF Written
  <2>6. DOMAIN kept = written
    OBVIOUS
  <2> HIDE DEF kept, written
  <2>7. DOMAIN raws' = written \cup DOMAIN raws
    BY <2>3, <2>6 DEF Overlaid
  <2>8. \A name \in DOMAIN raws' : raws'[name] \in WordsOfRegister(Table[name])
    BY <1>1, <2>3, <2>4, <2>6, <2>7 DEF Overlaid, SoundWords
  <2>9. SoundWords(raws)'
    BY <1>1, <1>2, <1>3, <2>5, <2>7, <2>8 DEF SoundWords
  <2>10. Len(group) \in 0..Len(group)
    BY <2>2
  <2> QED
    BY <1>1, <1>6, <2>1, <2>3, <2>5, <2>7, <2>9, <2>10
<1> QED
  BY <1>4, <1>5, <1>7, <1>8

LEMMA StepTypeOK == TypeOK /\ [Next]_vars => TypeOK'
<1> SUFFICES ASSUME TypeOK, [Next]_vars PROVE TypeOK'
  OBVIOUS
<1>1. LayoutsInv /\ LayoutsInv'
  BY StepLayoutsInv DEF TypeOK
<1>2. CASE Build
  BY <1>1, <1>2 DEF Build, TypeOK
<1>3. ASSUME NEW key \in Instances, Use(key) PROVE TypeOK'
  <2>1. /\ phase = "built" /\ phase' = "used"
        /\ words' = [name \in Names' |-> [i \in 1..Declared[component'][name].width |-> 0]]
        /\ UNCHANGED <<values, raws, last, changes>>
    BY <1>3 DEF Use, Names
  <2>2. component' \in DOMAIN Declared /\ Names' \subseteq DOMAIN Declared[component']
    BY <1>1, <2>1 DEF LayoutsInv, Table
  <2>3. values' = Nothing /\ raws' = Nothing /\ last' = NoCall /\ changes' \in 0..MaxChanges
    BY <2>1 DEF TypeOK
  <2>4. 0 \in AWord
    BY InAWord
  <2>5. \A name \in DOMAIN words' : words'[name] \in WordsOfRegister(Declared[component'][name])
    BY <2>1, <2>4 DEF WordsOfRegister
  <2>6. DOMAIN words' = Names'
    BY <2>1
  <2>7. SoundWords(words)'
    BY <2>2, <2>5, <2>6, WordsAreSound DEF SoundWords, Table
  <2>8. SoundWords(raws)' /\ DOMAIN raws' = {} /\ DOMAIN values' = {} /\ DOMAIN last'.sent = {}
    BY <2>3 DEF Nothing, NoCall, SoundWords
  <2> QED
    BY <1>1, <2>1, <2>3, <2>6, <2>7, <2>8 DEF TypeOK
<1>4. ASSUME NEW name \in Names, OwnChange(name) PROVE TypeOK'
  <2>1. /\ phase = "used" /\ changes < MaxChanges /\ changes' = changes + 1
        /\ UNCHANGED <<phase, component, layout, values, raws, last>>
    BY <1>4 DEF OwnChange, cacheVars
  <2>2. PICK i \in 1..Table[name].width, word \in Readings :
          words' = [words EXCEPT ![name][i] = word]
    BY <1>4 DEF OwnChange
  <2>3. word \in AWord
    BY ReadingsAssumption
  <2>4. /\ component \in DOMAIN Declared /\ Names \subseteq DOMAIN Declared[component]
        /\ Table = Declared[component] /\ Table' = Table /\ Names' = Names
    BY <1>1, <2>1 DEF LayoutsInv, Table, Names
  <2>5. /\ DOMAIN words = Names /\ changes \in 0..MaxChanges
        /\ \A n \in Names : words[n] \in WordsOfRegister(Table[n])
    BY <2>1 DEF TypeOK, SoundWords
  <2>6. DOMAIN words' = Names /\ \A n \in Names : words'[n] \in WordsOfRegister(Table[n])
    BY <2>2, <2>3, <2>5 DEF WordsOfRegister
  <2>7. SoundWords(words)'
    BY <2>4, <2>6, WordsAreSound DEF SoundWords
  <2>8. changes' \in 0..MaxChanges
    BY <2>1, <2>5, MaxChangesAssumption
  <2> QED
    BY <1>1, <2>1, <2>4, <2>6, <2>7, <2>8 DEF TypeOK, SoundWords
<1>5. CASE Poll
  <2>1. /\ phase = "used" /\ UNCHANGED <<phase, component, layout, words, last, changes>>
        /\ DOMAIN values' = Names /\ raws' = words
    BY <1>5 DEF Poll
  <2> QED
    BY <1>1, <2>1 DEF TypeOK, SoundWords, Table, Names
<1>6. ASSUME phase = "used", (\E name \in DOMAIN Table : Write(name)) \/ SetSome
      PROVE  TypeOK'
  <2>1. PICK names, amounts : /\ amounts \in {Amounts, FewAmounts}
                              /\ DOMAIN names = 1..Len(names)
                              /\ \E group \in GroupsFor(names, amounts) : WriteMany(group)
    BY <1>6, WriteManyIs
  <2>2. PICK group \in GroupsFor(names, amounts) : WriteMany(group)
    BY <2>1
  <2>3. /\ changes < MaxChanges /\ changes' = changes + 1
        /\ UNCHANGED <<phase, component, layout>>
    BY <2>2 DEF WriteMany
  <2>4. changes' \in 0..MaxChanges
    BY <2>3, MaxChangesAssumption DEF TypeOK
  <2>5. /\ DOMAIN words' = Names
        /\ DOMAIN raws' \subseteq Names /\ DOMAIN values' = DOMAIN raws'
        /\ SoundWords(words)' /\ SoundWords(raws)'
        /\ \A i \in DOMAIN last'.sent : AreWords(last'.sent[i][3])
    BY <1>6, <2>1, <2>2, <2>3, WriteKeepsSound
  <2> QED
    BY <1>1, <1>6, <2>3, <2>4, <2>5 DEF TypeOK, Names
<1>7. CASE UNCHANGED vars
  BY <1>1, <1>7 DEF vars, TypeOK, SoundWords, Table, Names
<1> QED
  BY <1>2, <1>3, <1>4, <1>5, <1>6, <1>7 DEF Next

(* codec.py:31-59: whatever is configured, read and written, what the      *)
(* controller holds, what goes out and what is kept is 16-bit words, and   *)
(* the words behind a value can be had back from their number.             *)
THEOREM WordsAllAlong == Spec => []TypeOK
<1>1. Init => TypeOK
  BY InitLayoutsInv, MaxChangesAssumption DEF Init, TypeOK
<1> QED
  BY <1>1, StepTypeOK, PTL DEF Spec
=============================================================================
