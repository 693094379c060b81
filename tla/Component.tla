------------------------------- MODULE Component -------------------------------
(***************************************************************************)
(* Building the components of a configuration, and then one of them        *)
(* (components/base.py): reading its registers and writing to them, by the *)
(* tables, the layout and the codec.  A call is one step: what happens     *)
(* when calls overlap, and which components a failure is blamed on, is the *)
(* module Client.                                                          *)
(***************************************************************************)
EXTENDS Layout, Codec

CONSTANTS Requests,    \* what is configured: system, firmware number, clamp, counts
          Instances,   \* the components that are then used
          Readings,    \* the words the controller comes to hold by itself
          Amounts,     \* the numbers callers write to a register,
          FewAmounts,  \* and in a group
          MaxChanges   \* bound: so many changes of registers by us and by itself

ASSUME RequestsAssumption == \A request \in Requests :
  request.system \in Systems /\ request.number \in Nat /\ request.counts \in [DOMAIN Specs -> Int]
ASSUME ReadingsAssumption == Readings \subseteq AWord
ASSUME MaxChangesAssumption == MaxChanges \in Nat
ASSUME AmountsAssumption ==
  \A v \in Amounts \cup FewAmounts : v \in [kind : {"number"}, n : Int, per : Nat \ {0}]

-----------------------------------------------------------------------------
(* Facts of the tables, which the proofs rest on.  A register has one word *)
(* or two, and one register is written in another unit than it is read in  *)
(* (codec.py:103-107).                                                     *)
ASSUME SpecsAssumption == \A id \in DOMAIN Specs :
  /\ Specs[id].component \in DOMAIN Declared /\ Specs[id].since \in Nat /\ Specs[id].max \in Nat
  /\ Specs[id].inputBase \in Nat /\ Specs[id].holdingBase \in Nat \cup {NoBase}
  /\ Specs[id].inputStride \in Nat /\ Specs[id].holdingStride \in Nat
ASSUME DeclaredAssumption ==
  \A c \in DOMAIN Declared : \A name \in DOMAIN Declared[c] :
    LET r == Declared[c][name]
    IN /\ r.kind \in {"input", "holding"} /\ r.width \in {1, 2} /\ r.since \in Nat
       /\ r.per \in Nat \ {0} /\ r.writePer \in Nat \ {0}
       /\ r.members \subseteq Int
       /\ r.writePer # r.per =>
            /\ r.width = 1 /\ r.signed /\ r.decodes = "number" /\ r.sentinels = {}
            /\ r.bounds = <<1, 100>> /\ r.writePer = 1 /\ r.per = 10

(* A marker, as the number that its words would be, is no value that its   *)
(* register takes; where nothing bounds the value, it is that number.      *)
ASSUME WritableAssumption ==
  \A c \in DOMAIN Declared : \A name \in DOMAIN Declared[c] :
    LET r == Declared[c][name]
    IN r.writable =>
         /\ r.decodes \in {"bool", "enum", "number"}
         /\ r.bounds # <<>> => r.bounds[1] \in Int /\ r.bounds[2] \in Int
         /\ \A marker \in r.sentinels :
              LET raw == WordsToRaw(RawToWords(marker, r.width), r.signed)
              IN /\ r.decodes = "bool" => raw \notin {0, 1}
                 /\ r.decodes = "enum" => raw \notin r.members
                 /\ r.decodes = "number" =>
                      IF r.bounds = <<>> THEN raw = marker
                      ELSE raw \notin r.bounds[1] * r.writePer .. r.bounds[2] * r.writePer

(* A register that there is on this firmware and system: where the first   *)
(* instance has it, where the instances' block begins, how far they are    *)
(* apart and how many there may be.                                        *)
Home(id, name, version, system) ==
  LET spec == Specs[id]
      r == Declared[spec.component][name]
      ofKind(input, holding) ==
        IF r.absolute THEN 0 ELSE IF r.kind = "input" THEN input ELSE holding
      block == ofKind(spec.inputBase, spec.holdingBase)
      offset == OffsetFor(r, LaterOf(version, LaidOutAsOf(spec.component, system)))
  IN [id |-> id, name |-> name, kind |-> r.kind, width |-> r.width,
      block |-> block, offset |-> offset, first |-> block + offset,
      stride |-> ofKind(spec.inputStride, spec.holdingStride), count |-> Limit(id, version)]
HasHome(id, name, version, system) ==
  LET spec == Specs[id]
      r == Declared[spec.component][name]
  IN /\ Available(r, version, system)
     /\ r.absolute \/ r.kind = "input"
          \/ (spec.holdingBase # NoBase /\ version >= spec.holdingSince)
Homes(version, system) ==
  UNION {{Home(id, name, version, system) :
            name \in {n \in DOMAIN Declared[Specs[id].component] : HasHome(id, n, version, system)}} :
         id \in {i \in DOMAIN Specs : SpecAvailable(Specs[i], version, system)}}

(* From where, and up to where, the instances of a component have the      *)
(* addresses for themselves: the whole block if there may be several, and  *)
(* else the register.                                                      *)
From(h) == IF h.count > 1 THEN h.block ELSE h.first
UpTo(h) == IF h.count > 1 THEN h.block + h.count * h.stride ELSE h.first + h.width

MaxRegistersPerRead == 120

(* An instance's registers end before the next one's begin, with an        *)
(* address to spare.                                                       *)
ASSUME StridesAssumption == \A version \in Versions, system \in Systems :
  \A h \in Homes(version, system) :
    /\ h.offset \in Nat
    /\ h.count > 1 => h.offset + h.width < h.stride /\ h.stride <= MaxRegistersPerRead

ASSUME ApartAssumption == \A version \in Versions, system \in Systems :
  LET homes == Homes(version, system)
  IN \A h, g \in homes : h.kind = g.kind =>
       IF h.id # g.id THEN UpTo(h) <= From(g) \/ UpTo(g) <= From(h)
       ELSE h.name # g.name => h.first + h.width <= g.first \/ g.first + g.width <= h.first

(* Behind a register of a component that there is once, nobody has an      *)
(* address that is not too far.                                            *)
ASSUME GapsAssumption == \A version \in Versions, system \in Systems :
  LET homes == Homes(version, system)
  IN \A h \in homes : h.count = 1 => \A a \in h.first .. h.first + h.width - 1 :
       \E i \in 1..MaxRegistersPerRead : \A g \in homes :
         g.kind = h.kind => a + i < From(g) \/ UpTo(g) <= a + i

(* Between the inputs of a derived value are registers of the same         *)
(* component, of which there is one.                                       *)
ASSUME TogetherAssumption == \A version \in Versions, system \in Systems :
  LET homes == Homes(version, system)
  IN \A h, g \in homes : h.id = g.id => \A inputs \in Derived(Specs[h.id].component) :
       {h.name, g.name} \subseteq inputs =>
         /\ h.count = 1
         /\ \A a \in h.first .. g.first : \E f \in homes :
              f.id = h.id /\ f.kind = h.kind /\ f.first <= a /\ a < f.first + f.width

-----------------------------------------------------------------------------
VARIABLES phase,      \* "request", then "refused", "built" or "used"
          request,    \* the arguments of parse() and SolarfocusConfig()
          layouts,    \* the layout of every component of the configuration
          component,  \* the kind of the component in use
          layout,     \* its registers
          words,      \* what the controller holds in each of them
          values,     \* the component's last values,
          raws,       \* and the words they came from, or would
          last,       \* the last write: how it ended, what for and what was sent
          changes

vars == <<phase, request, layouts, component, layout, words, values, raws, last, changes>>
cacheVars == <<values, raws>>

Nothing == <<>>  \* as a function, a sequence or a record
NoCall == [ended |-> "none", group |-> <<>>, sent |-> <<>>]

Init == /\ phase = "request"
        /\ request \in Requests
        /\ layouts = Nothing
        /\ component = "none"
        /\ layout = {}
        /\ words = Nothing /\ values = Nothing /\ raws = Nothing
        /\ last = NoCall
        /\ changes = 0

Config == [system |-> request.system, counts |-> request.counts,
           version |-> Parse(request.number, request.clamp)]
Resolved == [key \in ComponentKeys(Config) |-> LayoutOf(Config, key)]

(* SolarfocusConfig(), and layouts() as the client calls it.               *)
Build ==
  /\ phase = "request"
  /\ IF Config.version # NoVersion /\ Validates(Config)
     THEN /\ layouts' = Resolved
          /\ phase' = IF \E key \in DOMAIN layouts' : Overlaps(layouts'[key])
                      THEN "refused" ELSE "built"
     ELSE phase' = "refused" /\ UNCHANGED layouts
  /\ UNCHANGED <<request, component, layout, words, values, raws, last, changes>>

Table == Declared[component]
NamesIn(l) == {x.name : x \in l}
Names == NamesIn(layout)
Resolution(name) == CHOOSE x \in layout : x.name = name

(* One instance is as good as another: what is not its own is let go.      *)
Use(key) ==
  /\ phase = "built"
  /\ key \in DOMAIN layouts
  /\ phase' = "used"
  /\ component' = Specs[key[1]].component
  /\ layout' = layouts[key]
  /\ words' = [name \in NamesIn(layout') |-> [i \in 1..Declared[component'][name].width |-> 0]]
  /\ request' = Nothing /\ layouts' = Nothing
  /\ UNCHANGED <<values, raws, last, changes>>

-----------------------------------------------------------------------------
(* Bound: TLC's numbers have 32 bits, so a pair stays below 2^31.          *)
InReach(r, i, word) == r.signed \/ i = r.width \/ word < Word \div 2

(* The controller changes a word of a register.                            *)
OwnChange(name) ==
  /\ phase = "used" /\ changes < MaxChanges
  /\ \E i \in 1..Table[name].width, word \in Readings :
       InReach(Table[name], i, word) /\ words' = [words EXCEPT ![name][i] = word]
  /\ changes' = changes + 1
  /\ UNCHANGED <<phase, request, layouts, component, layout, cacheVars, last>>

NextRead(name, w) == Decode(w, Table[name], Table[name].per)

(* A refresh that read every register: decode_readings().                  *)
Poll ==
  /\ phase = "used"
  /\ values' = [name \in Names |-> NextRead(name, words[name])]
  /\ raws' = words
  /\ UNCHANGED <<phase, request, layouts, component, layout, words, last, changes>>

-----------------------------------------------------------------------------
(* Every sequence of a member of sets[1], one of sets[2] and so on.        *)
OneOfEach(sets) ==
  {seq \in [DOMAIN sets -> UNION {sets[i] : i \in DOMAIN sets}] :
     \A i \in DOMAIN sets : seq[i] \in sets[i]}

(* A group to write: a sequence of a name and a value each.                *)
Legitimate(r, amounts) == CASE r.decodes = "bool" -> {Truth(0), Truth(1)}
                            [] r.decodes = "enum" -> {Member(n) : n \in r.members}
                            [] OTHER -> amounts
GroupsFor(names, amounts) == OneOfEach([i \in DOMAIN names |->
  {[name |-> names[i], value |-> v] : v \in Legitimate(Table[names[i]], amounts)}])

(* What write_many() makes of each part: words, or an error.               *)
Checks(w) ==
  IF w.name \notin Names \/ ~ Table[w.name].writable THEN {Refused}
  ELSE Encodings(Table[w.name], w.value)
Checked(group) == OneOfEach([i \in DOMAIN group |-> Checks(group[i])])

Message(w, e) == <<Resolution(w.name).kind, Resolution(w.name).address, e>>
MessagesUpTo(n, group, encoded) == [i \in 1..n |-> Message(group[i], encoded[i])]

(* A register with a scale of its own for writing holds what it was told   *)
(* in the units that it is read in.                                        *)
Held(r, w) ==
  IF r.writePer = r.per THEN w
  ELSE RawToWords((WordsToRaw(w, r.signed) * r.per) \div r.writePer, r.width)

IndexOf(name, group) == CHOOSE i \in DOMAIN group : group[i].name = name
Written(group, n) == {group[i].name : i \in 1..n}
HeldAfter(group, encoded, n) ==
  [name \in Names |-> IF name \in Written(group, n)
                      THEN Held(Table[name], encoded[IndexOf(name, group)]) ELSE words[name]]

CachedAtReadScale(r, w) == [value |-> Decode(w, r, r.per), raw |-> w]

(* What the next read will report, worked out from the words just sent.    *)
Cached(r, w) ==
  LET value == Decode(w, r, r.writePer)
  IN [value |-> value,
      raw |-> IF r.writePer = r.per \/ value = None THEN w
              ELSE RawToWords((value.n * r.per) \div value.per, r.width)]

(* `over`, and what there was in the places that it has not.               *)
Overlaid(over, old) ==
  [name \in DOMAIN over \cup DOMAIN old |->
     IF name \in DOMAIN over THEN over[name] ELSE old[name]]

CacheGroup(group, encoded) ==
  LET new(name) == Cached(Table[name], encoded[IndexOf(name, group)])
      written == Written(group, Len(group))
  IN /\ values' = Overlaid([name \in written |-> new(name).value], values)
     /\ raws' = Overlaid([name \in written |-> new(name).raw], raws)

Call(ended, group, n, encoded) ==
  last' = [ended |-> ended, group |-> group, sent |-> MessagesUpTo(n, group, encoded)]

(* Each part is sent once it is encoded.                                   *)
RefuseHalfWay(group, encoded) ==
  \E n \in DOMAIN group :
    /\ encoded[n] = Refused /\ \A i \in 1 .. n - 1 : encoded[i] # Refused
    /\ words' = HeldAfter(group, encoded, n - 1)
    /\ Call("refused", group, n - 1, encoded)
    /\ UNCHANGED cacheVars

(* A part that is not writable, or does not fit: the error is raised while *)
(* the list of writes is made.                                             *)
Refuse(group, encoded) ==
  /\ \E n \in DOMAIN group : encoded[n] = Refused
  /\ Call("refused", group, 0, encoded)
  /\ UNCHANGED <<words, cacheVars>>

(* The writer takes the whole group, and then the cache does.              *)
Accept(group, encoded) ==
  /\ \A i \in DOMAIN group : encoded[i] # Refused
  /\ words' = HeldAfter(group, encoded, Len(group))
  /\ Call("accepted", group, Len(group), encoded)
  /\ CacheGroup(group, encoded)

(* The writer raises, after any number of parts were taken.                *)
Fail(group, encoded) ==
  /\ \A i \in DOMAIN group : encoded[i] # Refused
  /\ \E n \in 0 .. Len(group) :
       /\ words' = HeldAfter(group, encoded, n)
       /\ Call("failed", group, n, encoded)
  /\ UNCHANGED cacheVars

WriteMany(group) ==
  /\ phase = "used" /\ changes < MaxChanges
  /\ changes' = changes + 1
  /\ \E encoded \in Checked(group) :
       Refuse(group, encoded) \/ Accept(group, encoded) \/ Fail(group, encoded)
  /\ UNCHANGED <<phase, request, layouts, component, layout>>

(* write(register, value), which every other setter is.                    *)
Write(name) == \E group \in GroupsFor(<<name>>, Amounts) : WriteMany(group)

(* set_operating_state() and set_external_temperatures(): some of the      *)
(* settings, in their order.                                               *)
SetSome ==
  LET settings == Settings(component)
  IN \E n \in 0..Len(settings) : \E kept \in [1..n -> DOMAIN settings] :
       /\ n # 1
       /\ \A i, j \in 1..n : i < j => kept[i] < kept[j]
       /\ \E group \in GroupsFor([i \in 1..n |-> settings[kept[i]]], FewAmounts) : WriteMany(group)

Next == \/ Build
        \/ \E key \in Instances : Use(key)
        \/ \E name \in Names : OwnChange(name)
        \/ Poll
        \/ phase = "used" /\ \E name \in DOMAIN Table : Write(name)
        \/ phase = "used" /\ Settings(component) # <<>> /\ SetSome

Spec == Init /\ [][Next]_vars

-----------------------------------------------------------------------------
(* codec.py:31-59: whatever goes out or is kept is 16-bit words, and the   *)
(* words behind a value can be had back from their number.                 *)
AreWords(ws) == \A i \in DOMAIN ws : ws[i] \in AWord
WordsOfRegister(r) == [1..r.width -> AWord]
SoundWords(f) == \A name \in DOMAIN f :
  LET r == Table[name]
  IN /\ f[name] \in WordsOfRegister(r)
     /\ RawToWords(WordsToRaw(f[name], r.signed), r.width) = f[name]
(* What is used was declared, and resolved for the firmware configured.    *)
LayoutsInv ==
  /\ phase \in {"request", "built"} =>
       /\ request.system \in Systems /\ request.number \in Nat
       /\ request.counts \in [DOMAIN Specs -> Int]
  /\ phase \in {"request", "refused"} => layouts = Nothing
  /\ phase = "built" => Config.version # NoVersion /\ Validates(Config) /\ layouts = Resolved
  /\ phase = "used" => component \in DOMAIN Declared /\ Names \subseteq DOMAIN Table
TypeOK ==
  /\ LayoutsInv
  /\ phase \in {"request", "refused", "built", "used"}
  /\ changes \in 0..MaxChanges
  /\ phase # "used" => values = Nothing /\ raws = Nothing /\ last = NoCall
  /\ phase = "used" =>
       /\ DOMAIN words = Names
       /\ DOMAIN raws \subseteq Names /\ DOMAIN values = DOMAIN raws
       /\ SoundWords(words) /\ SoundWords(raws)
       /\ \A i \in DOMAIN last.sent : AreWords(last.sent[i][3])

Built == phase = "built"
WordsOf(key) == UNION {Words(x) : x \in layouts[key]}
AllWords == UNION {WordsOf(key) : key \in DOMAIN layouts}

(* layout.py:141-152: "two registers at one address is always a mistake",  *)
(* which reads plausibly and raises nothing.  The code looks for it within *)
(* a component; no two components of a configuration it accepts share an   *)
(* address either, so each reading has one name, and no table is refused.  *)
OneAddressOneRegister ==
  /\ Built => \A k, l \in DOMAIN layouts : k # l => WordsOf(k) \cap WordsOf(l) = {}
  /\ phase = "refused" => layouts = Nothing

(* heating_circuit.py:17-26, layout.py:98-101: a system with a later layout*)
(* does not have the later registers.  Whatever firmware the controller    *)
(* runs, known to the library or not, nothing is declared that it lacks.   *)
NothingNewer == Built => \A key \in DOMAIN layouts : \A x \in layouts[key] :
  /\ Declared[Specs[key[1]].component][x.name].since <= request.number
  /\ Specs[key[1]].since <= request.number

(* heat_pump.py:82-105: a coefficient is worked out from two registers.    *)
(* They are read by one request, so at one moment: all between them is     *)
(* declared, and no run of what is declared is so long that it is cut.     *)
DerivedInOneRead == Built =>
  LET declared == AllWords
  IN /\ \A w \in declared :
          \E i \in 1..MaxRegistersPerRead : <<w[1], w[2] + i>> \notin declared
     /\ \A key \in DOMAIN layouts : \A inputs \in Derived(Specs[key[1]].component) :
          inputs \subseteq NamesIn(layouts[key]) =>
            \A x, y \in {z \in layouts[key] : z.name \in inputs} :
              \A a \in x.address .. y.address : <<x.kind, a>> \in declared

Ends(how) == changes' # changes /\ last' # last /\ last'.ended = how
Taken == {last'.group[i] : i \in DOMAIN last'.group}

(* base.py:276-285: after a write the component says what the next read    *)
(* will report, not what it would make of the words that went out.         *)
ShowsNextRead == Ends("accepted") => \A w \in Taken :
  /\ SameValue(values'[w.name], NextRead(w.name, words'[w.name]))
  /\ raws'[w.name] = words'[w.name]
CacheIsNextRead == [][ShowsNextRead]_vars

(* codec.py:111-123: what encode() lets through is what the register can   *)
(* say.  An accepted value reads back, to half a step of what is written;  *)
(* where nothing bounds the value, it may be a marker and read as nothing. *)
Near(v, w, per) == 2 * per * (v.n * w.per - w.n * v.per) \in -(v.per * w.per) .. v.per * w.per
WrittenValueReads == [][Ends("accepted") => \A w \in Taken :
  LET r == Table[w.name]
      shown == NextRead(w.name, words'[w.name])
  IN \/ shown.kind = w.value.kind /\ Near(shown, w.value, r.writePer)
     \/ /\ shown = None /\ r.bounds = <<>> /\ r.decodes = "number"
        /\ \E marker \in r.sentinels : Near(Number(marker, r.per), w.value, r.per)]_vars

(* base.py:252-276: a group with a part that is refused sends none of it,  *)
(* and one that was not taken whole shows none of it.                      *)
WholeOrNot == /\ Ends("refused") => last'.sent = <<>> /\ UNCHANGED <<words, values, raws>>
              /\ Ends("failed") => UNCHANGED cacheVars
NothingHalfDone == [][WholeOrNot]_vars
=============================================================================
