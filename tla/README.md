# aiosolarfocus in TLA+

TLA+ models of `aiosolarfocus`, the asyncio library that reads and writes a
Solarfocus heating controller over Modbus TCP; TLC configurations that check
them on small instances; and proofs, checked by TLAPS, of what holds for every
instance. Paths below are relative to `src/src/aiosolarfocus/`, the package;
tests and README are those of the repository.

## 1. The system

| Part | Code | State it keeps | Operations |
|---|---|---|---|
| Transport | `transport.py` | the pymodbus client (one socket), an `asyncio.Lock` | `connect`, `disconnect`, `read`, `write` (a group), `probe` |
| Client | `client.py` | a transport, the components, the read plan | `connect`, `disconnect`, `update`, `_write`, `detect` |
| Component cache | `components/base.py` | per component: values by name, `last_updated`, `last_error` | `decode_readings`, `mark_failed`, `write_many`, setters |
| Read planner | `planner.py` | none | `plan`, with `_runs` and `_split` |
| Layout | `layout.py`, `registers.py` | a frozen table per component | `Layout.resolve`: offsets by version and system, with a check for overlaps |
| Codec | `codec.py` | none | words to values and back: `decode`, `encode` |
| Blocking facade | `sync.py` | an event loop, its thread, `_closed` | `run`, `close` |
| Detection | `detect.py` | the findings of one run, a connection of its own or the client's | `detect`, `SolarfocusClient.detect`, `Detection.config` |
| Configuration | `config.py`, `const.py`, `enums.py` | frozen | taking an unknown firmware for a known one, validation, component keys, layouts |
| Component tables | `components/*.py` | declarations | setters that call `write_many` |
| Fake controller, server | `testing/` | registers of a pretended controller | reads that compact over unmapped addresses |
| Command line | `__main__.py` | none | argument parsing, printing |

How they interact. A caller's task calls the client. The client connects through
the transport if it has to, and then reads slice by slice, taking the transport's
lock for each read and giving it back in between; only after the last slice does it
hand the readings to the components. A setter of a component validates its values and
calls back into `Client._write`, which sends the whole group under one hold of
the lock; the component then puts the values in its cache. The facade hands such
coroutines from ordinary threads to a loop on a thread of its own. Detection uses
the transport alone, before there is a client's configuration, and produces one;
from this the layout derives the registers and the planner the reads.

What is hard about it:

* *Concurrency.* Any number of tasks share one socket. What a task learned before
  an `await` can be stale after it: `connected` before the lock is granted, a
  slice's readings before the last slice, `_closed` before the hand-over.
* *Failure.* A request can be refused, garbled, time out, or lose the connection;
  a task can be cancelled at each suspension; a write may be carried out though its
  answer never comes. Each of these means something different for what the
  components may say afterwards.
* *Silence.* The controller compacts reads over unmapped addresses and answers from
  the wrong block without an error. A wrong plan, version or system therefore shows as
  wrong values under right names.
* *Boundaries.* 32-bit registers, the longest read, limits that depend on firmware, the
  range of a signed and an unsigned word, values that mean "nothing here".

What makes each part correct, and the formula that says so:

| Part | It is correct if | Stated as |
|---|---|---|
| Transport | one session, one outstanding request, groups unbroken, nobody waits for ever | `NoOrphanSocket`, `OneOutstanding`, `OneLine`, `NobodyStarves` |
| Client, cache | a refresh is fresh and whole, blames exactly who failed, leaves the others alone, and every call ends | `RefreshIsFresh`, `FailedExactly`, `OnlyTheAskedChange`, `OnlyOverlapGoesBack`, `NoPollInsideGroup`, `EveryCallEnds` |
| Planner | every declared address once and no other, registers whole, reads acceptable and no shorter than they must be | `ReadsCover`, `RegistersWhole`, `BlameExact`, `ReadsAcceptable`, `ReadsAreLong` |
| Planner, controller, cache | a refresh shows a component whole or not at all, and nothing under a wrong name but behind a declared register that the controller lacks; it ends | `WholeOrMissing`, `ShiftsOnlyBehindGap`, `RefreshEnds` |
| Layout, tables | each address has one name, nothing is declared that the firmware lacks, what is divided by each other is read at once | `OneAddressOneRegister`, `NothingNewer`, `DerivedInOneRead` |
| Codec, cache | an accepted value reads back, the cache says what the next read will, a group is refused or cached as one | `WrittenValueReads`, `CacheIsNextRead`, `NothingHalfDone` |
| Facade | calls after the close are refused, calls before it answered, the thread ends | `LateCallsRefused`, `AnsweredWhileOpen`, `LoopThreadEnds` |
| Detection | finds version, system and components, and a configuration that validates and reads where the run probed; ends, and leaves no socket of its own | `VersionDated`, `SystemFound`, `NothingVanishes`, `ConfigValidates`, `StatesWhereProbed`, `CallEnds`, `LinkAsPromised` |

## 2. Modules

```
                 LineRefinement -- MCTransport
                /       |       \
SingleLine <---'     extends     '-- LineProofs -----.
                        |                            | extends
                        v                            v
                    Transport <--extends---- TransportProofs
                        ^                            ^
                        | extends                    | extends
                      Client <--extends-------- ClientProofs        MCClient extends Client

Registers <-- Tables <-- Layout <--+-- Component <-- MCComponent     Planner <-- Refresh <-- MCRefresh
                            .      |       ^                            ^            ^
                            .    Codec     |                      PlannerProofs <-- RefreshProofs
                      (is compared with)  ComponentProofs
                            .
              Detect <-- DetectCall <-- MCDetect         SyncFacade <-- SyncFacadeProofs
                             ^
                        DetectProofs
```

**Transport** (`transport.py`). A coroutine runs undisturbed from one suspension to the
next; an action is such a segment. A task is `idle`, suspended at the `lock`, or
suspended on the `wire` for an answer. `asyncio.Lock` is its `queue`: the head
holds the lock, or was woken by a release and has not run yet. In both cases a
newcomer queues behind it, as asyncio's does. Because the segment that
ends one call runs on into the caller's next one, without letting anyone else run,
each action that ends a call takes the next call as a parameter; this is what makes
the lock's fairness a question at all. `connect()` looks at `connected`
before and after the lock; `disconnect()` takes no lock; a drop can come at any
moment; `Cancel` leaves the queue from wherever it stood.

| Action | Code |
|---|---|
| `Begin`, `Proceed`, `Enters` | a call up to its first suspension: `connected`, then `async with self._lock` |
| `Granted`, `AlreadyOpen` | the lock is granted; `connect` looks again |
| `ConnectReturns`, `ReadReturns`, `WriteReturns`, `WriteAdvances` | what follows the `await` of one request |
| `Disconnect`, `Drop`, `Cancel` | `disconnect()`; the network; `CancelledError` at the suspension |

`probe()` is a read whose refusal is an answer rather than an error, so it is the
model's read.

**SingleLine** is what the transport promises, without lock, queue or sockets: one user
of one line at a time, a whole group of requests, at most one link. **LineRefinement**
gives the mapping and the property `OneLine`: the user of the line is the task on the wire.

**Client** (`client.py`, `components/base.py`) extends Transport: a call of the client is
a `job` on top of the transport's call. A register's content is the number of its
version, so a value tells when it was read. What a refresh has still to read is the set `todo` of places in the plan. `BeginUpdate`, `SliceAnswered`,
`SliceRefused`, `SliceLost` and `Publish` are `update()`; `BeginWrite`,
`WriteTaken`, `GroupTaken` and `WriteFails` are `write_many()` through `_write()`;
`Publish` is part of the step that receives the last answer, for no `await`
separates them. `OwnChange` is the controller's, or its owner's at the panel. The
plan is an input, under the assumptions the planner is shown to meet
(`PlanAssumption`).

**Planner** (`planner.py`). One step per turn of a loop: `TakeAddress` and `RunsEnd` are
`_runs`, `Split` and `Finish` are `_split` with the append of `plan`. Input and
holding registers pass separately through the same code, so the model is of one pass.

**Refresh** (`client.py`, `components/base.py`, `testing/fake.py`) extends Planner: the plan is made,
and then `Read` asks a controller for one slice after the other, and `Publish` hands the readings to
the components. `Begin` chooses the controller: any set of the addresses, for what is declared was
decided without asking this one. `Refuses` and `Packed` are how the repository's `FakeController` answers, which its
documentation says real ones do: a read that begins nowhere or takes half of a 32-bit register is refused,
and a hole is not padded. Each address holds its own number, so a value under a wrong name shows.

**Codec** (`codec.py`) is operators without state: words, raw numbers and values, with sign, 32-bit
order for registers of one word or two (there are no others), markers, bounds, both scales and rounding. A number is `n / per`, a scale the reciprocal of
`per`; the code's binary floats decide ties, so `Nearest` allows both neighbours of a tie.

**Registers** (`registers.py`, `const.py`) is the language the tables are written in: `Register` with its
defaults, the helpers `Celsius` to `Enum`, and `OffsetFor` and `Available`. **Tables** (`components/`) has
every register of the twelve kinds of component by its source name, the blocks (`Specs`), the systems with a
later layout, what the coefficients depend on and what the group setters write. Where the
source has keyword arguments the table has a record.

**Layout** (`layout.py`, `config.py`) is the way from a configuration to registers at addresses: `Parse` takes an
unknown firmware for a known one, `Validates` and `ComponentKeys` are those of the configuration, `Resolve` is
`Layout.resolve` and `Overlaps` what it refuses.

**Component** (`components/base.py`) puts the four together. `Build` makes the layouts of a configuration as a client
does; `Use` takes one component of it; from there on `OwnChange` (the controller), `Poll` (`decode_readings`) and
`WriteMany` act on its registers, `words`, and its cache, `values` and `raws`. `write_many` is a step with three outcomes:
`Refuse` (before anything is sent), `Accept` with `CacheGroup`, and `Fail` after any part of the group. `Write` is `write`
and so the single setters, `SetSome` the two setters that write a group. Overlapping calls and lost connections
are the business of Client, which in turn knows nothing of values; the two views
meet in `write_many` and `decode_readings`.

**SyncFacade** (`sync.py`). One step per statement that another thread can
come before; the loop thread starts and ends coroutines, and ends
itself when it was told to stop. A coroutine handed over before the stop is started
before the loop ends (`queued`); one handed over after it may or may not be (`late`).

**Detect** (`detect.py`, with the tables of `components/` and the validation of
`config.py`). One step per probe. The controller, `real`, has a system, a
firmware, a chimney-sweep register or none, and something installed; `Holds`
and `Instance` say what its registers contain, the neighbours that a run wrong about
the block would read included. An answer may come out odd (malformed, or a device
error), which `probe()` cannot tell from a refusal. The reads of one instance of a component are one
step, in which any of them can be lost (`Losses`), and each counts towards `MaxOdd`. The configuration is the operators `Clamped` to `Validates` and
`Resolves`. Detect has its own account of the few tables it needs, so that its proofs do not carry all of them.

**DetectCall** (`detect.py`, `client.py`) extends Detect with the two ways to start a run and the connection under it:
`detect()`, which opens and closes its own, and the client's, which is opened if need be and kept. `Breaks` is a
lost connection, a timeout or a cancellation at any probe. `TablesAssumption` compares what Detect says of the tables with
Tables and Layout, on every version and system.

## 3. Runs

| Run | Question | Bounds, and why they are enough |
|---|---|---|
| `transport` | Does the lock give one session, one request at a time, and service to all; does the transport implement `SingleLine`? | 3 tasks: a holder, a woken waiter and a newcomer, which is all a lock can confuse. 2 sockets: an orphan and its successor. Groups of up to 3: a beginning, a middle and an end. |
| `client_faults` | Are the components attributed, fresh and never half of a failed call, and do groups go out unbroken? | 2 tasks, 2 components that share a slice and a gap so that there are 2 slices; a refusal, a drop, cancellations; 2 changes of registers, so that one can come before and one after a read. |
| `client_live` | Does every call end? | 2 tasks, all four faults; refreshes go on for ever. |
| `client_torn`, `client_lostwrite` | See findings. | 2 tasks, no faults. |
| `refresh` | Is every plan right, and what does a refresh by it show on a controller that has other registers than declared? | All layouts of 2 components on 5 addresses (narrow, wide, shared, gaps), at limits 2, 3 and 4, so that runs are shorter than, equal to, and up to twice the limit; each with every controller that has a subset of these addresses and one behind, so that a hole can be at the beginning, inside, at the end or between two reads. |
| `component` | Are the tables right on every firmware and system; does what is written read back, and is the cache what the next read reports? | Every system with each of the 11 known firmwares and the numbers next to each; as many components as allowed, each count one off, and the defaults; 1 component of each kind in use. Amounts at both sides of every bound and of the 16-bit range, ties, fractions and markers; words that are markers or sign edges; 1 change, which is enough as every call is compared with the words it leaves. |
| `sync_races` | Are late calls refused and early ones answered, and does the loop thread end? | 3 threads, 2 that close, 1 that can be interrupted. |
| `sync_hang` | See findings. | 2 threads. |
| `detect` | Is what a run concludes right, its configuration valid, its connection dealt with, and does it end? | Each of 5 systems on each of 11 firmwares; 2 installations; at most 2 of a component; up to 2 odd answers: one loses a marker only if both reads of it fail, so two is the least that changes a date. A break at any probe. |
| `detect_dating`, `detect_refusal` | See findings. | No odd answers. |

`MaxChanges` of the client bounds the versions of registers: past it no write begins and nothing
changes by itself, while refreshes, faults and cancellations go on. In Component it bounds
writes and own changes; reading goes on. `InReach` keeps an unsigned pair of words below 2^31, as TLC's
numbers have 32 bits. `Requests`, `Instances`, `Readings`, `Amounts` and `FewAmounts` are the inputs of Component, `Maps` the
controllers of Refresh, and `LastAddress` the addresses of both its layouts and its controllers. `MaxOdd`,
`MaxGroup` and `MaxCount` are the other bounds. Each is a CONSTANT, and
the theorems hold for every value of theirs. Deadlock is checked in the transport,
client and facade; a refresh, a detection and a refused configuration end, and a component's bound stops it, so
those runs do not check it.

**Fairness.** The event loop runs every ready task, and the timeout bounds
every attempt to connect and every request (`Transport` hands it to pymodbus, with no retry): hence weak fairness of each task's `Runs` and `Returns`, and of `Progress` in the
client. Nothing obliges a task to call, to cancel or to disconnect, a register to
change or a connection to drop. The planner's loops and the refresh without faults are one task, which runs (`RefreshNext`). A detection connects, probes and ends under weak fairness of each, while `Breaks` and `ConnectFails` may happen and need not. Threads are
scheduled, and the loop serves what is ready while it runs; that a coroutine
ends is `EveryCallEnds` of the client.

In four of the runs the type invariant is a conjunct of the inductive invariant that the proofs use, and the run checks
the whole of it: `ClientInv` (`client_faults`), `RefreshInv` (`refresh`), `SyncInv` (`sync_races`) and `CallInv`
(`detect`), as `IInv` is in `transport`.

Each property of each passing run has a mutant: a definition of the model changed the
way a bug in that code would change it, under which TLC finds the property violated.
The mutated forms stand before the definitions they replace.

## 4. What the checks showed

The transport, the planner and the refusal and loss handling of the client do what their
comments say. Five places do not; each has a run in which TLC finds the
counterexample.

1. **Half a group (`client_torn`).** `update()` gives the lock back after every slice, so a
   group of writes can land between two slices and the refresh reports half of it.
   `base.py:240-244` calls a group "atomic against everything this library does". It is
   atomic to each read (`NoPollInsideGroup`), so whole if one read covers it.
2. **A write disappears (`client_lostwrite`).** A refresh that read a register before a write
   was taken publishes its older reading over the written value. The README promises that the new
   value is readable straight away. It is the price of overlapping calls only
   (`OnlyOverlapGoesBack`).
3. **A closed facade hangs (`sync_hang`).** A call in progress while another thread closes waits
   for ever in `result()`. Calls that begin after the close are refused
   (`LateCallsRefused`).
4. **25.020 (`detect_dating`).** Dated 25.030, a vampair, octoplus or pellet elegance on 25.020 is
   read where 25.030 has its states; the probed offsets do not reach the configuration.
   Everywhere else they agree (`StatesWhereProbed`).
5. **Refusal means ecotop (`detect_refusal`).** On a firmware older than 22.090 a pellet
   elegance refuses the register as well and is configured as an ecotop.

Seen while modelling, not stated as properties of their own: two threads that close at the
same time can make one of them raise `RuntimeError` (`StopTooLate`, which ends the call but not the
promise that the loop thread ends; "safe to call twice" in `sync.py:88` is kept for a second call after the first);
`planner.py:3-8` gives a vampair a biomass boiler that shares 33406 with its heat pump, which `const.py:56-58`, the
table of components and `tests/test_client.py:250-257` contradict, and `OneAddressOneRegister` agrees with the latter; an ecotop that maps 33410, of
which `detect.py` knows one, on 22.090 to 23.080 is taken for a pellet elegance, and
its heating circuits and buffers are then read in the wrong block; 25.100 is reported
as 25.030 for want of a marker. `const.py:11-13` says that the longest contiguous run of the map
is 18; a heat pump before 25.030 has 27, still far below the limit (`DerivedInOneRead` rests on the limit, not on
the comment). The holding blocks of a vampair's heat pump and of its photovoltaic adjoin (33404 to 33409) and are one read, so a
refusal there fails both. An external buffer temperature of 130.0, 270.0 or 350.0 is accepted and reads as
no sensor; `WrittenValueReads` allows for it, and for nothing else. A closed enumeration accepts any number
its register can hold. The help of the command line names `hc.1.mode` (`__main__.py:118`), and what it resolves is
`heating_circuits.1.mode`.

What holds, and was worth asking: no configuration that is accepted gives one address two names, though the code only
looks within a component; a firmware taken for an older one never makes a component declare what it lacks; and a controller
with fewer registers than declared shifts values only within the read that has the hole, and only behind it.

## 5. Proofs

The theorems hold for every value of the constants that satisfies the named assumptions of the
modules, which TLC evaluates in the runs. Each module of proofs has the same course: lemmas about operators, one
lemma per action that it preserves the invariant, `Invariance`, and then the properties, which follow from the invariant
or, if they are about steps, from the invariant and the step.

**TransportProofs**: any set of tasks and sockets, groups of any length; assumed are
`NoSocketAssumption` and `MaxGroupAssumption`. That there is no orphan socket is not inductive: it
needs that whoever is attempting a connection does so while there is none
(`AttemptInv`), for which nobody else may be connecting (`WireInv`: only the head of the queue
is on the wire), for which the queue must hold each task once and only those in a call
(`QueueInv`). `IInv` is these with the types, and with what a task's call is while it is suspended
(`CallInv`), which the refinement and the client need. Lemmas `NewcomerLast`, `HolderLeaves` and
`CancelledLeaves` say what the three changes of the queue preserve, `ProceedRestores` what every
call's end and beginning has in common. Theorems: `Invariance`, `TypeCorrect`, `OneSession`, `OneAtATime`.

**LineProofs**: Transport implements SingleLine (`TransportIsOneLine`), in addition for `NobodyAssumption`. By `IInv` at most
one task is on the wire, so the mapped user is that task; the proof goes action by action to
the step of the line it is, or to none. `Proceed` needs the most care: the step that ends one task's use of the line may begin
another use of it.

**ClientProofs**: any components with registers (`LayoutAssumption`, `RegistersAssumption`), any plan that is what the planner makes
(`PlanAssumption`), any groups, selections and kinds of fault. `ClientUsesTransport` shows that each step of the client is a
step of the transport or none, so that `IInv` and its theorems hold here. `ClientInv` adds: what a task waits for in
the transport is what its job says comes next (`JobInv`), without which nothing is known of the job when an
answer comes; a register is still to be read or was caught, never both (`ReadOnce`); nothing that a component shows, that a refresh has
caught or that a write produced is newer than the controller (`NothingAhead`); and of a call that nobody overlaps, that nobody else is in
a call and no component is ahead of what the refresh began with (`AloneInv`). `FailedExactly` is itself one of
the conjuncts. From it: `BlameIsExact`, `GroupUnbroken` (a group half written is held by the head of the queue), and of each step
`AskedChange`, `ReportedFresh` and `BackOnlyByOverlap`.

**PlannerProofs**: every set of legal layouts and every limit of at least two. Legal means that
registers are one or two words wide and do not overlap in part, which `Layout` enforces. The
invariant: each declared address is in exactly one of the addresses left, the growing run, the
pending runs and the slices, these lie one behind the other, and none begins or ends inside a
register. `CutMovesOn` is the heart of it: of two addresses in a row one is the first of its register, so
a cut goes back by one at most and still moves on. Theorems: `Invariance`, `EveryAddressOnce`,
`NoHalfRegister`, `BlameIsExact`, `ReadsFit`, `NoReadSaved`. That the loops end is proved by a measure, `Turns`: the addresses not looked at
and those in no slice yet, counted, with the phase. Each turn makes it smaller (`LoopsMoveOn`), for any finite set of
registers (`FiniteAssumption`). The limit of one is excluded
(`MaxCountsAssumption`): with a wide register `_split` would not move on; the library itself only ever plans
with `MAX_REGISTERS_PER_READ`, 120.

**RefreshProofs**: in addition any finite sets of addresses as controllers (`MapsAssumption`). `RefreshPlans` brings the planner's theorems here, and
while slices are asked for the plan does not change. `RefreshInv`: each slice that was asked for is in
the readings or on its components; whoever failed has a read with an address the controller lacks; a reading is that address's own
number or stands behind such an address; and what is shown is what was read. The controller's packing is counted:
a hole shifts what follows it by the addresses missing before, and moves nothing in front of it. Theorems: `RefreshPlans`,
`RefreshInvariance`, `ShiftNeedsGap`, `ShownWhole`, and `RefreshStepsOn`, the measure carried on: each step is a turn of the planner less, a slice less to ask
for, or the step from the one to the other or to the end.

**SyncFacadeProofs**: any threads. That a call beginning late is refused needs that a loop no longer running was flagged before,
by whatever thread (`FlagFirst`). Theorems: `Invariance`, `RefusedWhenStopping`.

**DetectProofs**: any number of components a controller addresses, any installations, any number of
odd answers, a break at any probe. `SweepInv` bounds each count by the instances read so far, hence by what a
controller addresses; the clamps of `detect.py` do the rest of `NeverRefused`. What the run concludes needs more: that its
findings are true from the probe on that settles each (`DatedInv` for the version, `BlockInv` for the
blocks, `CountInv` for the counts, `SeenInv` for the single probes, `SystemInv` for what has been ruled out of the system),
all but the first for runs that were answered truly so far (`Truthful`). `LinkInv` relates the connection to the stage of the
call. Theorems: `Invariance`, `NeverRefused`, `CallRunsDetect`, `CallInvariance`, `DatedByMarkers`, `FindsSystem`,
`ConfiguresInstalled`, `LooksWhereProbed`, `LinkKept`.

**ComponentProofs**: any configurations asked for, with any firmware number and any counts; any words of the controller, any
amounts written. The tables are definitions, not constants; what the proofs use of their registers and blocks is said by assumptions that TLC
evaluates over every version, system and register (of the definitions themselves they expand only the short lists of
firmwares and of what the group setters name):

* `SpecsAssumption`, `DeclaredAssumption`: the fields' types, and that whatever is written in another unit than it is read in is like
  the one register there is (one signed word, 1 to 100, written in ones and read in tenths);
* `WritableAssumption`: a marker of a writable register is outside of what the register takes, unless nothing bounds it;
* of where registers are (`Home`: the first instance's address, the block, the stride to the next instance, the most instances there may be):
  an instance ends before the next begins (`StridesAssumption`); blocks of different components, and registers of one, lie apart
  (`ApartAssumption`); behind a register of a component that there is once an address is nobody's (`GapsAssumption`); and between the
  inputs of a derived value all is declared (`TogetherAssumption`).

These speak of homes only, not of configurations. The proofs carry them to each configuration: whatever firmware is
asked for is taken for a known one (`ParseIsEarlier`); each register that is laid out is some strides behind its home, fewer than the
instances there may be (`AtHome`, for which `LayoutsInv` must know that the configuration was validated), and so is in the block of its
component (`InPlace`); registers of one instance, of two instances and of two components are apart for three different reasons
(`WordsApart`). In a block of several instances the address before the next instance's first is nobody's, elsewhere the one that
`GapsAssumption` names (`GapBehind`), so no run of declared addresses is as long as a read may be. Theorems: `NoAddressTwice` and
`DerivedTogether`, beside `DeclaresNothingNewer`.

`TypeOK` adds that all words are words. The codec's lemmas are `AnyRawIsWords`, `WordsComeBack` (words to a number and back is
where one began, with a sign and without, for one word and for two) and `NumberComesBack` (the other way round, for a number that
fits). A number that is written is rounded once, to the nearest step (`NearestIs`, `NearestIsNear`); within bounds it stays
there (`NearestInside`), so it is no marker; and in the one register of two units `RescaledIsNextRead` carries it over. A group names no
register twice (`WriteManyIs`), without which a later part could undo an earlier one. Theorems: `Invariance`, `WordsAllAlong`,
`RefusedWhole`, `WrittenIsNextRead` and `WrittenReadsBack`. They do not depend on the bound on changes, nor on which amounts are tried.

What stays with TLC:

* liveness, which rests on fairness and ENABLED: `NobodyStarves`, `EveryCallEnds`, `RefreshEnds`, `CallEnds`, `AnsweredWhileOpen` and
  `LoopThreadEnds`. Of `RefreshEnds` the half that is safety is proved: no step leaves as much to do as there was;
* the facts of the tables that the proofs assume: each is about finitely many registers, and TLC evaluates it;
* the violations of section 4.

## 6. Not modelled, and abstractions

* **Values and interleavings apart.** In Client a register holds the version of its content, in Component it holds
  words, and calls do not overlap there. A thread that reads a component while the loop's thread decodes a refresh
  into it, register by register, is in neither.
* **Numbers.** Scales are reciprocals of whole numbers, as all in the tables are, and binary floats are exact up to ties. A
  32-bit counter stays below 2^31 (`InReach`).
* **Registers.** `until`, which no register uses, units, steps and descriptions.
* **The controller.** Of `testing/`, `read` and the registers of `for_config`; `write`, the server, and the
  parser of the register document are not modelled. That 32607 holds what it is told in tenths (`Held`) is the comment's word, and
  the firmware that a controller has is the external part of Detect.
* **Detection.** Differential modules, which are read but never counted, and the evidence texts are left out. The two
  registers of a cascade are one. A wired component answers with live sensors: a dead sensor
  looks like an absent component to the code as well, and so does a photovoltaic system at night, whose
  power reads zero; `NothingVanishes` does not speak of them. A heat pump's supply temperature reads as something.
* **Configuration.** Host, port, device and timeout, overrides of a detection, and the reading of a version out of a text.
* **Client.** Attribute access, snapshots, `repr` and logging change no state.
* **Command line.** Parsing of arguments and printing, around single calls of the client, with no state of its own.
* **Exceptions, enumerations.** The members of closed enumerations are in the tables; the state tables are texts and the exceptions a hierarchy.
* Timestamps: `last_updated` is whether there is one.

## 7. Plan

Done, in the order of importance: the transport (everything rests on it), the client over
it, the planner, the facade, detection; the tables, layout, codec and the component over them; the refresh over a
controller that packs; the call of a detection. Proved: every safety invariant and every action
property that the runs check, and that the transport implements the single line. What the runs check and no theorem states is liveness.

Left: for `EveryCallEnds` a measure like `Turns`, over slices and parts of groups still to be sent, would be its safety half as well; and the library's
codec with the binary floats it has, in place of exact fractions with both neighbours of a tie.
