----------------------------- MODULE ClientProofs -----------------------------
(***************************************************************************)
(* TLAPS proofs about Client, for any tasks, components, plan, selections  *)
(* and groups its assumptions admit, and registers that change without     *)
(* bound: the client uses the transport as Transport says, and ClientInv   *)
(* is inductive, which gives the safety properties of refreshes and writes.*)
(***************************************************************************)
EXTENDS Client, TransportProofs, FiniteSetTheorems

-----------------------------------------------------------------------------
(* The records jobs are: what TypeOK says of each, field by field.         *)
LEMMA UpdateFields ==
  ASSUME ClientTypeOK, NEW t \in Tasks, Updating(t)
  PROVE  /\ job[t].wanted \subseteq Components
         /\ job[t].todo \subseteq DOMAIN ReadPlan
         /\ DOMAIN job[t].readings \subseteq Registers
         /\ job[t].readings \in [DOMAIN job[t].readings -> Nat]
         /\ job[t].failed \subseteq Components
         /\ job[t].since \in Versions
         /\ job[t].alone \in BOOLEAN
         /\ job[t] \in Refreshes(DOMAIN job[t].readings)
<1>1. job[t].kind = "update"
  BY DEF Updating
<1>2. job[t] \notin {Returned, Raised} \cup Writings
  BY <1>1 DEF Returned, Raised, Ended, Writings
<1>3. PICK caught \in SUBSET Registers : job[t] \in Refreshes(caught)
  BY <1>2 DEF ClientTypeOK
<1>4. caught = DOMAIN job[t].readings
  BY <1>3 DEF Refreshes
<1> QED
  BY <1>3, <1>4 DEF Refreshes

LEMMA WriteFields ==
  ASSUME ClientTypeOK, NEW t \in Tasks, InWrite(t)
  PROVE  /\ job[t].group \in Groups
         /\ job[t].taken \in Seq(Nat)
         /\ job[t].alone \in BOOLEAN
         /\ job[t] \in Writings
<1>1. job[t].kind = "write"
  BY DEF InWrite
<1>2. job[t] \notin {Returned, Raised}
  BY <1>1 DEF Returned, Raised, Ended
<1>3. \A caught : job[t] \notin Refreshes(caught)
  BY <1>1 DEF Refreshes
<1> QED
  BY <1>2, <1>3 DEF ClientTypeOK, Writings

LEMMA ThreeKinds ==
  ASSUME ClientTypeOK, NEW t \in Tasks
  PROVE  /\ InNoCall(t) \/ Updating(t) \/ InWrite(t)
         /\ InNoCall(t) => job[t] \in {Returned, Raised}
BY DEF ClientTypeOK, InNoCall, Updating, InWrite, Returned, Raised, Ended, Writings,
       Refreshes

(* A group is a sequence of registers, and its writes fit one call.        *)
LEMMA GroupIsCall ==
  ASSUME NEW g \in Groups
  PROVE  /\ g \in Seq(Registers)
         /\ Len(g) \in 1..MaxGroup
         /\ DOMAIN g = 1..Len(g)
         /\ \A i \in DOMAIN g : g[i] \in Registers
         /\ WriteCall(g) \in Calls
<1>1. g \in Seq(Registers) /\ Len(g) \in 1..MaxGroup
  BY GroupsAssumption
<1>2. DOMAIN g = 1..Len(g) /\ \A i \in DOMAIN g : g[i] \in Registers
  BY <1>1, LenProperties, ElementOfSeq
<1>3. WriteCall(g) \in Calls
  BY <1>1, MaxGroupAssumption DEF WriteCall, Calls
<1> QED
  BY <1>1, <1>2, <1>3

LEMMA CallsMade == ReadCall \in Calls /\ ConnectCall \in Calls /\ NoCall \notin Calls
BY DEF ReadCall, ConnectCall, NoCall, Calls

-----------------------------------------------------------------------------
(* The plan.  A slice carries registers, and serves some components.       *)
LEMMA SliceFields ==
  ASSUME NEW i \in DOMAIN ReadPlan
  PROVE  /\ i \in Nat
         /\ ReadPlan[i].regs \subseteq Registers
         /\ ReadPlan[i].components = {c \in Components : Regs[c] \cap ReadPlan[i].regs # {}}
<1>1. ReadPlan \in Seq([regs : SUBSET Registers, components : SUBSET Components])
  BY PlanAssumption
<1>2. DOMAIN ReadPlan = 1..Len(ReadPlan) /\ Len(ReadPlan) \in Nat
  BY <1>1, LenProperties
<1>3. ReadPlan[i] \in [regs : SUBSET Registers, components : SUBSET Components]
  BY <1>1, <1>2, ElementOfSeq
<1> QED
  BY <1>2, <1>3, PlanAssumption

(* There is a next slice as long as there are slices left.                 *)
LEMMA LeastIn ==
  ASSUME NEW S \in SUBSET Nat, S # {}
  PROVE  Min(S) \in S
<1> DEFINE Less == OpToRel(<, Nat)
<1>1. IsWellFoundedOn(Less, Nat)
  BY NatLessThanWellFounded
<1>2. ASSUME NEW x \in Nat, NEW y \in Nat, y < x
      PROVE  <<y, x>> \in Less
  BY <1>2 DEF OpToRel
<1> HIDE DEF Less
<1>3. \E x \in S : \A y \in S : ~ (<<y, x>> \in Less)
  BY <1>1, WFMin
<1>4. \E x \in S : \A y \in S : x =< y
  <2>1. PICK x \in S : \A y \in S : ~ (<<y, x>> \in Less)
    BY <1>3
  <2>2. \A y \in S : ~ (y < x)
    BY <1>2, <2>1
  <2> QED
    BY <2>2
<1> QED
  BY <1>4 DEF Min

(* What is left to read: the slice being read, then those after it, and no *)
(* register twice.                                                         *)
LaterRegs(t) == UNION {ReadPlan[i].regs : i \in Later(t)}

LEMMA SliceNext ==
  ASSUME ClientTypeOK, NEW t \in Tasks, Updating(t), job[t].todo # {}
  PROVE  /\ Slice(t).regs \subseteq Registers
         /\ Slice(t).components = {c \in Components : Regs[c] \cap Slice(t).regs # {}}
         /\ Later(t) \subseteq DOMAIN ReadPlan
         /\ ToRead(t) = Slice(t).regs \cup LaterRegs(t)
         /\ Slice(t).regs \cap LaterRegs(t) = {}
<1> DEFINE i == Min(job[t].todo)
<1>1. job[t].todo \subseteq DOMAIN ReadPlan
  BY UpdateFields
<1>2. i \in job[t].todo
  BY <1>1, LeastIn, SliceFields
<1> HIDE DEF i
<1>3. Slice(t) = ReadPlan[i] /\ Later(t) = job[t].todo \ {i}
  BY DEF Slice, Later, i
<1>4. i \in DOMAIN ReadPlan
  BY <1>1, <1>2
<1>5. \A j \in Later(t) : ReadPlan[j].regs \cap ReadPlan[i].regs = {}
  BY <1>1, <1>3, <1>4, PlanAssumption
<1> QED
  BY <1>1, <1>2, <1>3, <1>4, <1>5, SliceFields DEF ToRead, LaterRegs

(* A refresh sets out to read every register of what it was asked for.     *)
LEMMA SelectedCover ==
  ASSUME NEW wanted \in SUBSET Components, NEW c \in wanted
  PROVE  Regs[c] \subseteq UNION {ReadPlan[i].regs :
           i \in {j \in DOMAIN ReadPlan : ReadPlan[j].components \cap wanted # {}}}
<1> SUFFICES ASSUME NEW r \in Regs[c]
             PROVE  \E i \in DOMAIN ReadPlan : /\ ReadPlan[i].components \cap wanted # {}
                                               /\ r \in ReadPlan[i].regs
  OBVIOUS
<1>1. PICK i \in DOMAIN ReadPlan : r \in ReadPlan[i].regs
  BY PlanAssumption DEF Registers
<1>2. c \in ReadPlan[i].components
  BY <1>1, SliceFields
<1> QED
  BY <1>1, <1>2

-----------------------------------------------------------------------------
(* What a segment that runs on into `next` does to the suspension points.  *)
LEMMA ProceedMoves ==
  ASSUME TypeOK, NEW t \in Tasks, NEW q, NEW next, Proceed(t, q, next)
  PROVE  /\ next \in Calls \cup {NoCall}
         /\ call'[t] = next
         /\ at'[t] = "idle" <=> next = NoCall
         /\ \A u \in Tasks \ {t} : at'[u] = at[u] /\ call'[u] = call[u]
BY CallsMade DEF Proceed, Rests, Enters, TypeOK

(* The client does with the transport only what Transport lets its callers *)
(* do, so whatever holds of the transport holds under the client.          *)
LEMMA StepOfTransport == TypeOK /\ [ClientNext]_allVars => [Next]_vars
<1> SUFFICES ASSUME TypeOK, [ClientNext]_allVars PROVE [Next]_vars
  OBVIOUS
<1> DEFINE Nexts == Calls \cup {NoCall}
<1>1. ASSUME NEW t \in Tasks, NEW next, Begin(t, next) PROVE Next
  <2>1. next \in Nexts
    BY <1>1, ProceedMoves DEF Begin
  <2> QED
    BY <1>1, <2>1 DEF Next
<1>2. ASSUME NEW t \in Tasks, NEW next, Granted(t) \/ AlreadyOpen(t, next) PROVE Next
  <2>1. CASE Granted(t)
    BY <2>1 DEF Next, Runs
  <2>2. CASE AlreadyOpen(t, next)
    <3>1. next \in Nexts
      BY <2>2, ProceedMoves DEF AlreadyOpen
    <3> QED
      BY <2>2, <3>1 DEF Next, Runs
  <2> QED
    BY <1>2, <2>1, <2>2
<1>3. ASSUME NEW t \in Tasks, NEW outcome, NEW next,
             \/ ConnectReturns(t, outcome, next)
             \/ ReadReturns(t, outcome, next)
             \/ WriteReturns(t, outcome, next)
      PROVE  Next
  <2>1. next \in Nexts
    BY <1>3, ProceedMoves DEF ConnectReturns, ReadReturns, WriteReturns
  <2>2. outcome \in Outcomes
    BY <1>3 DEF ConnectReturns, ReadReturns, WriteReturns, Outcomes, Answers
  <2>3. Returns(t, next)
    BY <1>3, <2>2 DEF Returns
  <2> QED
    BY <2>1, <2>3 DEF Next
<1>4. ASSUME NEW t \in Tasks, WriteAdvances(t) PROVE Next
  BY <1>4 DEF Next, Returns
<1>5. ASSUME NEW t \in Tasks, Progress(t) PROVE Next
  <2>1. CASE IsGranted(t)
    BY <1>2, <2>1 DEF IsGranted
  <2>2. CASE Connects(t)
    BY <1>2, <1>3, <2>2 DEF Connects
  <2>3. CASE ConnectFails(t)
    BY <1>3, <2>3 DEF ConnectFails
  <2>4. ASSUME NEW outcome, NEW readings, NEW failed, SliceDone(t, outcome, readings, failed)
        PROVE  Next
    BY <1>3, <2>4 DEF SliceDone
  <2>5. CASE WriteTaken(t)
    BY <1>4, <2>5 DEF WriteTaken
  <2>6. CASE GroupTaken(t)
    BY <1>3, <2>6 DEF GroupTaken
  <2>7. ASSUME NEW outcome \in Faults, SliceLost(t, outcome) \/ WriteFails(t, outcome)
        PROVE  Next
    BY <1>3, <2>7 DEF SliceLost, WriteFails
  <2> QED
    BY <1>5, <2>1, <2>2, <2>3, <2>4, <2>5, <2>6, <2>7
       DEF Progress, SliceAnswered, SliceRefused
<1>6. ASSUME NEW t \in Tasks, Cancelled(t) \/ Disconnects(t) PROVE Next
  BY <1>6 DEF Cancelled, Disconnects, Next
<1>7. ASSUME NEW t \in Tasks, NEW j, BeginJob(t, j) PROVE Next
  BY <1>1, <1>7 DEF BeginJob
<1>8. CASE ConnectionDrops
  BY <1>8 DEF ConnectionDrops, Next
<1>9. ASSUME NEW r, OwnChange(r) PROVE UNCHANGED vars
  BY <1>9 DEF OwnChange
<1>10. CASE UNCHANGED allVars
  BY <1>10 DEF allVars
<1> QED
  BY <1>5, <1>6, <1>7, <1>8, <1>9, <1>10 DEF ClientNext, BeginUpdate, BeginWrite

-----------------------------------------------------------------------------
(* A group that is begun is written by the holder of the lock, so while    *)
(* another task is on the wire no group is begun.                          *)
LEMMA NoGroupBegun ==
  ASSUME ClientInv, NEW t \in Tasks, at[t] = "wire", NEW u \in Tasks \ {t}, InWrite(u)
  PROVE  job[u].taken = <<>>
<1>1. at[u] # "wire"
  BY DEF ClientInv, IInv, WireInv
<1>2. job[u].taken # <<>> => at[u] = "wire"
  BY DEF ClientInv, JobInv
<1> QED
  BY <1>1, <1>2

(* What was taken so far is the beginning of the group.                    *)
LEMMA TakenInGroup ==
  ASSUME ClientInv, NEW t \in Tasks, InWrite(t)
  PROVE  /\ Len(job[t].taken) < Len(job[t].group)
         /\ DOMAIN job[t].taken = 1..Len(job[t].taken)
         /\ \A i \in DOMAIN job[t].taken : /\ i \in DOMAIN job[t].group
                                           /\ job[t].group[i] \in Registers
                                           /\ job[t].taken[i] \in Nat
<1>1. job[t].group \in Groups /\ job[t].taken \in Seq(Nat)
  BY WriteFields DEF ClientInv
<1>2. /\ Len(job[t].group) \in 1..MaxGroup
      /\ DOMAIN job[t].group = 1..Len(job[t].group)
      /\ \A i \in DOMAIN job[t].group : job[t].group[i] \in Registers
  BY <1>1, GroupIsCall
<1>3. /\ DOMAIN job[t].taken = 1..Len(job[t].taken)
      /\ Len(job[t].taken) \in Nat
      /\ \A i \in DOMAIN job[t].taken : job[t].taken[i] \in Nat
  BY <1>1, LenProperties, ElementOfSeq
<1>4. job[t].taken = <<>> => Len(job[t].taken) = 0
  BY <1>1, EmptySeq
<1>5. job[t].taken = <<>> \/ Len(job[t].taken) < Len(job[t].group)
  BY DEF ClientInv, JobInv
<1>6. Len(job[t].taken) < Len(job[t].group)
  BY <1>2, <1>4, <1>5, MaxGroupAssumption
<1> QED
  BY <1>2, <1>3, <1>6, MaxGroupAssumption

(* A call that ends, however it ends, leaves everything that holds of the  *)
(* other tasks: nobody's readings or half-written group is outrun by what  *)
(* the call leaves in the components, if it was on the wire to leave it.   *)
LEMMA EndsKeeps ==
  ASSUME ClientInv, IInv', NEW t \in Tasks, ~ InNoCall(t),
         NEW e \in {Returned, Raised}, job' = [job EXCEPT ![t] = e],
         at'[t] = "idle",
         \A u \in Tasks \ {t} : at'[u] = at[u] /\ call'[u] = call[u],
         version' \in Versions, \A r \in Registers : version[r] <= version'[r],
         cache' \in Versions, \A r \in Registers : cache'[r] <= version'[r],
         read' \subseteq Components, failing' \subseteq Components,
         cache' = cache \/ at[t] = "wire"
  PROVE  ClientInv'
<1> USE DEF InNoCall, Updating, InWrite, Returned, Raised, Ended
<1>1. /\ job = [u \in Tasks |-> job[u]]
      /\ job'[t] = e /\ e.kind = "none"
      /\ \A u \in Tasks \ {t} : job'[u] = job[u]
  BY DEF ClientInv, ClientTypeOK
<1>2. ClientTypeOK'
  BY <1>1 DEF ClientInv, ClientTypeOK, IInv
<1>3. JobInv'
  BY ZenonT(60), <1>1 DEF ClientInv, JobInv
<1>4. ReadOnce' /\ FailedExactly'
  BY <1>1 DEF ClientInv, ReadOnce, FailedExactly, ToRead
<1>5. AloneInv'
  BY <1>1 DEF ClientInv, AloneInv
<1>6. NothingAhead'
  <2>1. version \in Versions /\ cache \in Versions
    BY DEF ClientInv, ClientTypeOK
  <2>2. ASSUME NEW u \in Tasks, job'[u].kind = "update"
        PROVE  /\ \A r \in Registers : job'[u].since[r] <= version'[r]
               /\ \A r \in DOMAIN job'[u].readings :
                    job'[u].since[r] <= job'[u].readings[r] /\ job'[u].readings[r] <= version'[r]
    <3>1. u # t /\ job'[u] = job[u]
      BY <1>1, <2>2
    <3>2. /\ DOMAIN job[u].readings \subseteq Registers
          /\ job[u].readings \in [DOMAIN job[u].readings -> Nat]
          /\ job[u].since \in Versions
      BY <2>2, <3>1, UpdateFields DEF ClientInv
    <3>3. /\ \A r \in Registers : job[u].since[r] <= version[r]
          /\ \A r \in DOMAIN job[u].readings :
               job[u].since[r] <= job[u].readings[r] /\ job[u].readings[r] <= version[r]
      BY <2>2, <3>1 DEF ClientInv, NothingAhead
    <3> QED
      BY <2>1, <3>1, <3>2, <3>3 DEF Versions
  <2>3. ASSUME NEW u \in Tasks, job'[u].kind = "write", NEW i \in DOMAIN job'[u].taken
        PROVE  /\ cache'[job'[u].group[i]] <= job'[u].taken[i]
               /\ job'[u].taken[i] <= version'[job'[u].group[i]]
    <3>1. u # t /\ job'[u] = job[u]
      BY <1>1, <2>3
    <3>2. job[u].taken # <<>>
      BY <2>3, <3>1
    <3>3. at[t] # "wire"
      BY <2>3, <3>1, <3>2, NoGroupBegun
    <3>4. job[u].group[i] \in Registers /\ job[u].taken[i] \in Nat
      BY <2>3, <3>1, TakenInGroup
    <3>5. /\ cache[job[u].group[i]] <= job[u].taken[i]
          /\ job[u].taken[i] <= version[job[u].group[i]]
      BY <2>3, <3>1 DEF ClientInv, NothingAhead
    <3> QED
      BY <2>1, <3>1, <3>3, <3>4, <3>5 DEF Versions
  <2> QED
    BY <2>2, <2>3 DEF NothingAhead
<1> QED
  BY <1>2, <1>3, <1>4, <1>5, <1>6 DEF ClientInv

-----------------------------------------------------------------------------
(* The steps that end a call.                                              *)

(* The transport's part of a call that returns.                            *)
LEMMA RequestEnds ==
  ASSUME TypeOK, NEW t \in Tasks, NEW outcome, NEW next,
         \/ AlreadyOpen(t, next)
         \/ ConnectReturns(t, outcome, next)
         \/ ReadReturns(t, outcome, next)
         \/ WriteReturns(t, outcome, next)
  PROVE  /\ at[t] # "idle"
         /\ call'[t] = next
         /\ at'[t] = "idle" <=> next = NoCall
         /\ \A u \in Tasks \ {t} : at'[u] = at[u] /\ call'[u] = call[u]
BY ProceedMoves
   DEF AlreadyOpen, Woken, ConnectReturns, ReadReturns, WriteReturns, Asking

(* A register that changes gets a version it never had.                    *)
LEMMA ChangeGrows ==
  ASSUME version \in Versions, NEW r \in Registers, Change(r)
  PROVE  /\ version' \in Versions
         /\ \A s \in Registers : version[s] <= version'[s]
         /\ version'[r] = version[r] + 1
BY DEF Versions, Change

LEMMA UnchangedGrows ==
  ASSUME version \in Versions, UNCHANGED version
  PROVE  /\ version' \in Versions
         /\ \A s \in Registers : version[s] <= version'[s]
BY DEF Versions

(* The next register of a group is one of the group.                       *)
LEMMA TargetIn ==
  ASSUME ClientInv, NEW t \in Tasks, InWrite(t)
  PROVE  /\ Target(t) \in Registers
         /\ Len(job[t].taken) + 1 \in DOMAIN job[t].group
<1>1. job[t].group \in Groups /\ job[t].taken \in Seq(Nat)
  BY WriteFields DEF ClientInv
<1>2. /\ Len(job[t].group) \in Nat
      /\ DOMAIN job[t].group = 1..Len(job[t].group)
      /\ \A i \in DOMAIN job[t].group : job[t].group[i] \in Registers
  BY <1>1, GroupIsCall, MaxGroupAssumption
<1>3. Len(job[t].taken) \in Nat /\ Len(job[t].taken) < Len(job[t].group)
  BY <1>1, TakenInGroup, LenProperties
<1> QED
  BY <1>2, <1>3 DEF Target

LEMMA UnansweredChanges ==
  ASSUME ClientInv, NEW t \in Tasks, InWrite(t), Unanswered(t)
  PROVE  /\ version' \in Versions
         /\ \A s \in Registers : version[s] <= version'[s]
BY TargetIn, ChangeGrows, UnchangedGrows DEF Unanswered, ClientInv, ClientTypeOK

(* Every call that raises or is cancelled leaves the components alone.     *)
LEMMA RaisesKeeps ==
  ASSUME ClientInv, IInv', NEW t \in Tasks, ~ InNoCall(t), Raises(t),
         at'[t] = "idle",
         \A u \in Tasks \ {t} : at'[u] = at[u] /\ call'[u] = call[u],
         version' \in Versions, \A r \in Registers : version[r] <= version'[r]
  PROVE  ClientInv'
<1>1. /\ job' = [job EXCEPT ![t] = Raised]
      /\ cache' = cache /\ read' = read /\ failing' = failing
  BY DEF Raises, componentVars
<1>2. /\ cache \in Versions /\ version \in Versions
      /\ read \subseteq Components /\ failing \subseteq Components
      /\ \A r \in Registers : cache[r] <= version[r]
  BY DEF ClientInv, ClientTypeOK, NothingAhead
<1>3. \A r \in Registers : cache'[r] <= version'[r]
  BY <1>1, <1>2 DEF Versions
<1> QED
  BY <1>1, <1>2, <1>3, EndsKeeps

LEMMA ConnectFailsKeeps ==
  ASSUME ClientInv, IInv', NEW t \in Tasks, ConnectFails(t)
  PROVE  ClientInv'
<1>1. PICK outcome \in Faults : ConnectReturns(t, outcome, NoCall)
  BY DEF ConnectFails
<1>2. /\ at[t] # "idle" /\ at'[t] = "idle"
      /\ \A u \in Tasks \ {t} : at'[u] = at[u] /\ call'[u] = call[u]
  BY <1>1, RequestEnds DEF ClientInv, IInv
<1>3. ~ InNoCall(t)
  BY <1>2 DEF ClientInv, JobInv
<1> QED
  BY <1>2, <1>3, RaisesKeeps, UnchangedGrows DEF ConnectFails, ClientInv, ClientTypeOK

LEMMA SliceLostKeeps ==
  ASSUME ClientInv, IInv', NEW t \in Tasks, NEW outcome, SliceLost(t, outcome)
  PROVE  ClientInv'
<1>1. /\ at'[t] = "idle"
      /\ \A u \in Tasks \ {t} : at'[u] = at[u] /\ call'[u] = call[u]
  BY RequestEnds DEF SliceLost, ClientInv, IInv
<1>2. ~ InNoCall(t)
  BY DEF SliceLost, Updating, InNoCall
<1> QED
  BY <1>1, <1>2, RaisesKeeps, UnchangedGrows DEF SliceLost, ClientInv, ClientTypeOK

LEMMA WriteFailsKeeps ==
  ASSUME ClientInv, IInv', NEW t \in Tasks, NEW outcome, WriteFails(t, outcome)
  PROVE  ClientInv'
<1>1. /\ at'[t] = "idle"
      /\ \A u \in Tasks \ {t} : at'[u] = at[u] /\ call'[u] = call[u]
  BY RequestEnds DEF WriteFails, ClientInv, IInv
<1>2. ~ InNoCall(t)
  BY DEF WriteFails, InWrite, InNoCall
<1>3. version' \in Versions /\ \A r \in Registers : version[r] <= version'[r]
  BY UnansweredChanges, UnchangedGrows DEF WriteFails, ClientInv, ClientTypeOK
<1> QED
  BY <1>1, <1>2, <1>3, RaisesKeeps DEF WriteFails

LEMMA CancelledKeeps ==
  ASSUME ClientInv, IInv', NEW t \in Tasks, Cancelled(t)
  PROVE  ClientInv'
<1>1. /\ at[t] # "idle" /\ at'[t] = "idle"
      /\ \A u \in Tasks \ {t} : at'[u] = at[u] /\ call'[u] = call[u]
  BY DEF Cancelled, Cancel, ClientInv, IInv, TypeOK
<1>2. ~ InNoCall(t)
  BY <1>1 DEF ClientInv, JobInv
<1>3. Asking(t, "write") => InWrite(t)
  <2>1. Updating(t) \/ InWrite(t)
    BY <1>2, ThreeKinds DEF ClientInv
  <2>2. Updating(t) => call[t] \in {ConnectCall, ReadCall}
    BY DEF ClientInv, JobInv
  <2> QED
    BY <2>1, <2>2 DEF Asking, ConnectCall, ReadCall
<1>4. version' \in Versions /\ \A r \in Registers : version[r] <= version'[r]
  BY <1>3, UnansweredChanges, UnchangedGrows DEF Cancelled, ClientInv, ClientTypeOK
<1> QED
  BY <1>1, <1>2, <1>4, RaisesKeeps DEF Cancelled

(* The end of a refresh: nothing it publishes is newer than the controller.*)
LEMMA PublishKeeps ==
  ASSUME ClientInv, IInv', NEW t \in Tasks, Updating(t), at[t] = "wire",
         at'[t] = "idle",
         \A u \in Tasks \ {t} : at'[u] = at[u] /\ call'[u] = call[u],
         UNCHANGED version,
         NEW readings, NEW failed \in SUBSET job[t].wanted,
         \A r \in DOMAIN readings : readings[r] \in Nat /\ readings[r] <= version[r],
         Publish(t, readings, failed)
  PROVE  ClientInv'
<1> DEFINE served == job[t].wanted \ failed
           fresh == DOMAIN readings \cap UNION {Regs[c] : c \in served}
<1>1. /\ cache' = [r \in Registers |-> IF r \in fresh THEN readings[r] ELSE cache[r]]
      /\ read' = read \cup served
      /\ failing' = (failing \ served) \cup failed
      /\ job' = [job EXCEPT ![t] = Returned]
  BY DEF Publish
<1>2. /\ cache \in Versions /\ version \in Versions
      /\ read \subseteq Components /\ failing \subseteq Components
      /\ \A r \in Registers : cache[r] <= version[r]
  BY DEF ClientInv, ClientTypeOK, NothingAhead
<1>3. job[t].wanted \subseteq Components
  BY UpdateFields DEF ClientInv
<1>4. read' \subseteq Components /\ failing' \subseteq Components
  BY <1>1, <1>2, <1>3
<1>5. cache' \in Versions /\ \A r \in Registers : cache'[r] <= version'[r]
  <2> HIDE DEF fresh, served
  <2>1. fresh \subseteq DOMAIN readings
    BY DEF fresh
  <2> QED
    BY <1>1, <1>2, <2>1 DEF Versions
<1>6. ~ InNoCall(t)
  BY DEF Updating, InNoCall
<1> QED
  BY <1>1, <1>2, <1>4, <1>5, <1>6, EndsKeeps, UnchangedGrows

(* The end of a write: its own versions, none newer than the controller.   *)
(* `final` is what the whole group produced.                               *)
Produced(t) == Append(job[t].taken, version[Target(t)] + 1)
CacheAfter(t) ==
  [r \in Registers |->
     IF r \in ToSet(job[t].group)
     THEN Produced(t)[CHOOSE i \in DOMAIN job[t].group : job[t].group[i] = r]
     ELSE cache[r]]

LEMMA ProducedFits ==
  ASSUME ClientInv, NEW t \in Tasks, InWrite(t), Change(Target(t)),
         NEW i \in 1..Len(job[t].taken) + 1
  PROVE  /\ i \in DOMAIN job[t].group
         /\ Produced(t)[i] \in Nat
         /\ cache[job[t].group[i]] <= Produced(t)[i]
         /\ Produced(t)[i] <= version'[job[t].group[i]]
<1>1. job[t].taken \in Seq(Nat)
  BY WriteFields DEF ClientInv
<1>2. version \in Versions /\ cache \in Versions
  BY DEF ClientInv, ClientTypeOK
<1>3. /\ Target(t) \in Registers
      /\ Len(job[t].taken) + 1 \in DOMAIN job[t].group
      /\ version[Target(t)] + 1 \in Nat
  BY <1>2, TargetIn DEF Versions
<1>4. /\ version' \in Versions
      /\ \A s \in Registers : version[s] <= version'[s]
      /\ version'[Target(t)] = version[Target(t)] + 1
  BY <1>2, <1>3, ChangeGrows
<1>5. /\ Produced(t) \in Seq(Nat)
      /\ Len(job[t].taken) \in Nat
      /\ \A j \in 1..Len(job[t].taken) : Produced(t)[j] = job[t].taken[j]
      /\ Produced(t)[Len(job[t].taken) + 1] = version[Target(t)] + 1
  BY <1>1, <1>3, AppendProperties, LenProperties DEF Produced
<1>6. CASE i = Len(job[t].taken) + 1
  <2>1. job[t].group[i] = Target(t)
    BY <1>6 DEF Target
  <2>2. cache[Target(t)] <= version[Target(t)]
    BY <1>3 DEF ClientInv, NothingAhead
  <2>3. version'[Target(t)] \in Nat /\ cache[Target(t)] \in Nat /\ version[Target(t)] \in Nat
    BY <1>2, <1>3, <1>4 DEF Versions
  <2> QED
    BY SMTT(40), <1>3, <1>4, <1>5, <1>6, <2>1, <2>2, <2>3
<1>7. CASE i \in 1..Len(job[t].taken)
  <2>1. /\ DOMAIN job[t].taken = 1..Len(job[t].taken)
        /\ i \in DOMAIN job[t].group
        /\ job[t].group[i] \in Registers
        /\ job[t].taken[i] \in Nat
    BY <1>7, TakenInGroup
  <2>2. /\ cache[job[t].group[i]] <= job[t].taken[i]
        /\ job[t].taken[i] <= version[job[t].group[i]]
    BY <1>7, <2>1 DEF ClientInv, NothingAhead
  <2>3. /\ version[job[t].group[i]] \in Nat
        /\ version'[job[t].group[i]] \in Nat
        /\ version[job[t].group[i]] <= version'[job[t].group[i]]
    BY <1>2, <1>4, <2>1 DEF Versions
  <2> QED
    BY SMTT(40), <1>5, <1>7, <2>1, <2>2, <2>3
<1> QED
  BY SMTT(40), <1>5, <1>6, <1>7

LEMMA GroupTakenKeeps ==
  ASSUME ClientInv, IInv', NEW t \in Tasks, GroupTaken(t)
  PROVE  /\ ClientInv'
         /\ cache' = CacheAfter(t)
         /\ \A r \in Registers : cache[r] <= cache'[r]
<1>1. /\ InWrite(t)
      /\ WriteReturns(t, "ok", NoCall)
      /\ Change(Target(t))
      /\ cache' = CacheAfter(t)
      /\ job' = [job EXCEPT ![t] = Returned]
      /\ UNCHANGED <<read, failing>>
  BY DEF GroupTaken, CacheAfter, Produced
<1>2. /\ at[t] = "wire" /\ at'[t] = "idle"
      /\ \A u \in Tasks \ {t} : at'[u] = at[u] /\ call'[u] = call[u]
  BY <1>1, RequestEnds DEF ClientInv, IInv, WriteReturns, Asking
<1>3. /\ cache \in Versions /\ version \in Versions
      /\ read \subseteq Components /\ failing \subseteq Components
      /\ \A r \in Registers : cache[r] <= version[r]
  BY DEF ClientInv, ClientTypeOK, NothingAhead
<1>4. version' \in Versions /\ \A r \in Registers : version[r] <= version'[r]
  BY <1>1, <1>3, TargetIn, ChangeGrows
<1>5. DOMAIN job[t].group = 1..Len(job[t].taken) + 1
  <2>1. call[t].n = 1 /\ call[t].op = "write"
    BY <1>1 DEF WriteReturns, Asking
  <2>2. Len(job[t].group) - Len(job[t].taken) = 1
    <3> DEFINE k == Len(job[t].group) - Len(job[t].taken)
    <3>1. call[t] = ConnectCall \/ call[t] = [op |-> "write", n |-> k]
      BY <1>1 DEF ClientInv, JobInv, RestOfGroup
    <3> HIDE DEF k
    <3>2. k = 1
      BY <2>1, <3>1 DEF ConnectCall
    <3> QED
      BY <3>2 DEF k
  <2>3. job[t].group \in Groups /\ job[t].taken \in Seq(Nat)
    BY <1>1, WriteFields DEF ClientInv
  <2>4. Len(job[t].group) \in Nat /\ DOMAIN job[t].group = 1..Len(job[t].group)
    BY <2>3, GroupIsCall, MaxGroupAssumption
  <2>5. Len(job[t].taken) \in Nat
    BY <2>3, LenProperties
  <2> QED
    BY <2>2, <2>4, <2>5
<1>6. ASSUME NEW r \in Registers
      PROVE  cache'[r] \in Nat /\ cache[r] <= cache'[r] /\ cache'[r] <= version'[r]
  <2>1. CASE r \in ToSet(job[t].group)
    <3> DEFINE i == CHOOSE i \in DOMAIN job[t].group : job[t].group[i] = r
    <3>1. i \in DOMAIN job[t].group /\ job[t].group[i] = r
      BY <2>1 DEF ToSet
    <3>2. cache'[r] = Produced(t)[i]
      BY <1>1, <2>1 DEF CacheAfter
    <3> HIDE DEF i
    <3> QED
      BY <1>1, <1>5, <3>1, <3>2, ProducedFits
  <2>2. CASE r \notin ToSet(job[t].group)
    <3>1. cache'[r] = cache[r]
      BY <1>1, <2>2 DEF CacheAfter
    <3> QED
      BY <1>3, <1>4, <3>1 DEF Versions
  <2> QED
    BY <2>1, <2>2
<1>7. cache' \in Versions
  <2>1. cache' = [r \in Registers |-> cache'[r]]
    BY <1>1 DEF CacheAfter
  <2> QED
    BY <1>6, <2>1 DEF Versions
<1>8. ~ InNoCall(t)
  BY <1>1 DEF InWrite, InNoCall
<1>9. ClientInv'
  BY <1>1, <1>2, <1>3, <1>4, <1>6, <1>7, <1>8, EndsKeeps
<1> QED
  BY <1>1, <1>6, <1>9

-----------------------------------------------------------------------------
(* The steps of a refresh.  The read of a slice is over, answered or not:  *)
(* what was caught and who was given up are still what the rest of the     *)
(* plan leaves, and at the end of it that is published.                    *)
LEMMA OnRead ==
  ASSUME ClientInv, NEW t \in Tasks, Updating(t), Asking(t, "read")
  PROVE  at[t] = "wire" /\ call[t] = ReadCall /\ job[t].todo # {}
<1>1. call[t] = ConnectCall \/ (call[t] = ReadCall /\ job[t].todo # {})
  BY DEF ClientInv, JobInv
<1> QED
  BY <1>1 DEF Asking, ConnectCall

(* What a slice that was read or refused leaves to go on with.             *)
LeftBy(t, readings, failed) ==
  /\ failed \subseteq job[t].wanted
  /\ DOMAIN readings \subseteq Registers
  /\ readings \in [DOMAIN readings -> Nat]
  /\ \A r \in DOMAIN readings : job[t].since[r] <= readings[r] /\ readings[r] <= version[r]
  /\ DOMAIN readings \cap LaterRegs(t) = {}
  /\ failed = {c \in job[t].wanted :
                 ~ (Regs[c] \subseteq DOMAIN readings \cup LaterRegs(t))}

LEMMA SliceDoneKeeps ==
  ASSUME ClientInv, IInv', NEW t \in Tasks, NEW outcome, NEW readings, NEW failed,
         SliceDone(t, outcome, readings, failed), LeftBy(t, readings, failed)
  PROVE  ClientInv'
<1> USE DEF InNoCall, Updating, InWrite
<1>left. /\ failed \in SUBSET job[t].wanted
         /\ DOMAIN readings \subseteq Registers
         /\ readings \in [DOMAIN readings -> Nat]
         /\ \A r \in DOMAIN readings : /\ job[t].since[r] <= readings[r]
                                       /\ readings[r] <= version[r]
         /\ DOMAIN readings \cap LaterRegs(t) = {}
         /\ failed = {c \in job[t].wanted :
                        ~ (Regs[c] \subseteq DOMAIN readings \cup LaterRegs(t))}
  BY DEF LeftBy
<1>1. Updating(t) /\ version' = version
  BY DEF SliceDone
<1>2. at[t] = "wire" /\ call[t] = ReadCall /\ job[t].todo # {}
  BY <1>1, OnRead DEF SliceDone, ReadReturns
<1>3. CASE ReadReturns(t, outcome, NoCall) /\ Publish(t, readings, failed)
  <2>1. /\ at'[t] = "idle"
        /\ \A u \in Tasks \ {t} : at'[u] = at[u] /\ call'[u] = call[u]
    BY <1>3, RequestEnds DEF ClientInv, IInv
  <2> QED
    BY <1>left, <1>1, <1>2, <1>3, <2>1, PublishKeeps
<1>4. CASE /\ ReadReturns(t, outcome, ReadCall) /\ Later(t) # {}
           /\ job' = [job EXCEPT ![t].todo = Later(t), ![t].readings = readings,
                                 ![t].failed = failed]
           /\ UNCHANGED componentVars
  <2>1. /\ at'[t] # "idle" /\ call'[t] = ReadCall
        /\ \A u \in Tasks \ {t} : at'[u] = at[u] /\ call'[u] = call[u]
    BY <1>4, RequestEnds, CallsMade DEF ClientInv, IInv
  <2>2. cache' = cache /\ read' = read /\ failing' = failing
    BY <1>4 DEF componentVars
  <2>3. /\ job[t] \in Refreshes(DOMAIN job[t].readings)
        /\ job[t].wanted \subseteq Components
        /\ job[t].since \in Versions
    BY <1>1, UpdateFields DEF ClientInv
  <2>4. job = [u \in Tasks |-> job[u]]
    BY DEF ClientInv, ClientTypeOK
  <2>5. /\ job'[t].kind = "update"
        /\ job'[t].wanted = job[t].wanted
        /\ job'[t].todo = Later(t)
        /\ job'[t].readings = readings
        /\ job'[t].failed = failed
        /\ job'[t].since = job[t].since
        /\ job'[t].alone = job[t].alone
        /\ \A u \in Tasks \ {t} : job'[u] = job[u]
        /\ job' = [u \in Tasks |-> job'[u]]
    BY <1>4, <2>3, <2>4 DEF Refreshes
  <2>6. Later(t) \subseteq DOMAIN ReadPlan
    BY <1>1, <1>2, SliceNext DEF ClientInv
  <2>7. job'[t] \in Refreshes(DOMAIN readings)
    BY <1>left, <1>4, <2>3, <2>4, <2>6 DEF Refreshes
  <2>8. ToRead(t)' = LaterRegs(t)
    BY <2>5 DEF ToRead, LaterRegs
  <2>9. ClientTypeOK'
    <3>1. ASSUME NEW u \in Tasks
          PROVE  \/ job'[u] \in {Returned, Raised} \cup Writings
                 \/ \E caught \in SUBSET Registers : job'[u] \in Refreshes(caught)
      BY <1>left, <2>5, <2>7 DEF ClientInv, ClientTypeOK
    <3> QED
      BY <1>1, <2>2, <2>5, <3>1 DEF ClientInv, ClientTypeOK, IInv, Refreshes
  <2>10. JobInv'
    <3>1. ASSUME NEW u \in Tasks \ {t} PROVE at'[u] = at[u] /\ call'[u] = call[u] /\ job'[u] = job[u]
      BY <2>1, <2>5
    <3>2. job'[t].kind = "update" /\ at'[t] # "idle" /\ call'[t] = ReadCall /\ job'[t].todo # {}
      BY <1>4, <2>1, <2>5
    <3> QED
      BY <3>1, <3>2 DEF ClientInv, JobInv
  <2>11. ReadOnce'
    BY <1>left, <2>5, <2>8 DEF ClientInv, ReadOnce, ToRead
  <2>12. FailedExactly'
    BY <1>left, <2>5, <2>8 DEF ClientInv, FailedExactly, ToRead
  <2>13. NothingAhead'
    BY <1>left, <1>1, <2>2, <2>5 DEF ClientInv, NothingAhead
  <2>14. AloneInv'
    BY <1>1, <2>2, <2>5 DEF ClientInv, AloneInv
  <2> QED
    BY <2>9, <2>10, <2>11, <2>12, <2>13, <2>14 DEF ClientInv
<1> QED
  BY <1>3, <1>4 DEF SliceDone

(* What FailedExactly and ReadOnce say when a slice is being read.         *)
LEMMA BeforeSlice ==
  ASSUME ClientInv, NEW t \in Tasks, Updating(t), Asking(t, "read")
  PROVE  /\ job[t].todo # {}
         /\ Slice(t).regs \subseteq Registers
         /\ Slice(t).components = {c \in Components : Regs[c] \cap Slice(t).regs # {}}
         /\ Slice(t).regs \cap LaterRegs(t) = {}
         /\ DOMAIN job[t].readings \cap (Slice(t).regs \cup LaterRegs(t)) = {}
         /\ job[t].failed = {c \in job[t].wanted :
              ~ (Regs[c] \subseteq DOMAIN job[t].readings
                                   \cup (Slice(t).regs \cup LaterRegs(t)))}
<1>1. job[t].todo # {}
  BY OnRead
<1>2. /\ Slice(t).regs \subseteq Registers
      /\ Slice(t).components = {c \in Components : Regs[c] \cap Slice(t).regs # {}}
      /\ ToRead(t) = Slice(t).regs \cup LaterRegs(t)
      /\ Slice(t).regs \cap LaterRegs(t) = {}
  BY <1>1, SliceNext DEF ClientInv
<1>3. DOMAIN job[t].readings \cap ToRead(t) = {}
  BY DEF ClientInv, ReadOnce
<1>4. job[t].failed = {c \in job[t].wanted :
        ~ (Regs[c] \subseteq DOMAIN job[t].readings \cup ToRead(t))}
  BY DEF ClientInv, FailedExactly
<1> QED
  BY <1>1, <1>2, <1>3, <1>4

(* An answered slice: its registers, as they are now, are caught.          *)
LEMMA AnsweredReadings ==
  ASSUME ClientInv, NEW t \in Tasks, Updating(t), Asking(t, "read")
  PROVE  /\ DOMAIN Caught(t) = Slice(t).regs \cup DOMAIN job[t].readings
         /\ Caught(t) \in [DOMAIN Caught(t) -> Nat]
         /\ \A r \in DOMAIN Caught(t) :
              /\ r \in Registers
              /\ job[t].since[r] <= Caught(t)[r]
              /\ Caught(t)[r] <= version[r]
<1> DEFINE old == job[t].readings
           now == Caught(t)
<1>1. /\ DOMAIN old \subseteq Registers
      /\ old \in [DOMAIN old -> Nat]
      /\ job[t].since \in Versions
  BY UpdateFields DEF ClientInv
<1>2. /\ \A r \in Registers : job[t].since[r] <= version[r]
      /\ \A r \in DOMAIN old : job[t].since[r] <= old[r] /\ old[r] <= version[r]
  BY DEF ClientInv, NothingAhead
<1>3. Slice(t).regs \subseteq Registers /\ version \in Versions
  BY BeforeSlice DEF ClientInv, ClientTypeOK
<1>4. now = [r \in Slice(t).regs \cup DOMAIN old |->
               IF r \in Slice(t).regs THEN version[r] ELSE old[r]]
  BY DEF Caught, old
<1> HIDE DEF old, now
<1>5. DOMAIN now = Slice(t).regs \cup DOMAIN old
  BY <1>4
<1>6. ASSUME NEW r \in Slice(t).regs \cup DOMAIN old
      PROVE  /\ now[r] \in Nat
             /\ r \in Registers
             /\ job[t].since[r] <= now[r]
             /\ now[r] <= version[r]
  BY <1>1, <1>2, <1>3, <1>4 DEF Versions
<1> QED
  BY <1>4, <1>5, <1>6 DEF old, now

LEMMA AnsweredLeaves ==
  ASSUME ClientInv, NEW t \in Tasks, Updating(t), Asking(t, "read")
  PROVE  LeftBy(t, Caught(t), job[t].failed)
<1>1. job[t].failed \subseteq job[t].wanted
  BY DEF ClientInv, ReadOnce
<1>2. DOMAIN Caught(t) \cap LaterRegs(t) = {}
  BY BeforeSlice, AnsweredReadings
<1>3. DOMAIN Caught(t) \cup LaterRegs(t)
        = DOMAIN job[t].readings \cup (Slice(t).regs \cup LaterRegs(t))
  BY AnsweredReadings
<1>4. job[t].failed = {c \in job[t].wanted :
        ~ (Regs[c] \subseteq DOMAIN Caught(t) \cup LaterRegs(t))}
  BY <1>3, BeforeSlice
<1> QED
  BY <1>1, <1>2, <1>4, AnsweredReadings DEF LeftBy

(* A refused slice: exactly the components with a register in it join the  *)
(* ones that cannot be read in full any more.                              *)
LEMMA RefusedBlame ==
  ASSUME ClientInv, NEW t \in Tasks, Updating(t), Asking(t, "read")
  PROVE  job[t].failed \cup (Slice(t).components \cap job[t].wanted)
           = {c \in job[t].wanted :
                ~ (Regs[c] \subseteq DOMAIN job[t].readings \cup LaterRegs(t))}
<1>1. job[t].wanted \subseteq Components
  BY UpdateFields DEF ClientInv
<1>2. ASSUME NEW c \in job[t].wanted, c \in Slice(t).components
      PROVE  ~ (Regs[c] \subseteq DOMAIN job[t].readings \cup LaterRegs(t))
  BY <1>2, BeforeSlice
<1>3. ASSUME NEW c \in job[t].wanted, c \notin Slice(t).components
      PROVE  c \in job[t].failed
               <=> ~ (Regs[c] \subseteq DOMAIN job[t].readings \cup LaterRegs(t))
  BY <1>1, <1>3, BeforeSlice
<1>4. job[t].failed \subseteq job[t].wanted
  BY DEF ClientInv, ReadOnce
<1> QED
  BY <1>2, <1>3, <1>4

LEMMA RefusedLeaves ==
  ASSUME ClientInv, NEW t \in Tasks, Updating(t), Asking(t, "read")
  PROVE  LeftBy(t, job[t].readings,
                job[t].failed \cup (Slice(t).components \cap job[t].wanted))
<1> DEFINE blamed == job[t].failed \cup (Slice(t).components \cap job[t].wanted)
<1>1. blamed = {c \in job[t].wanted :
        ~ (Regs[c] \subseteq DOMAIN job[t].readings \cup LaterRegs(t))}
  BY RefusedBlame
<1>2. DOMAIN job[t].readings \cap LaterRegs(t) = {}
  BY BeforeSlice
<1>3. DOMAIN job[t].readings \subseteq Registers
      /\ job[t].readings \in [DOMAIN job[t].readings -> Nat]
  BY UpdateFields DEF ClientInv
<1>4. \A r \in DOMAIN job[t].readings : /\ job[t].since[r] <= job[t].readings[r]
                                        /\ job[t].readings[r] <= version[r]
  BY DEF ClientInv, NothingAhead
<1>5. blamed \subseteq job[t].wanted
  BY <1>1
<1> HIDE DEF blamed
<1>6. LeftBy(t, job[t].readings, blamed)
  BY <1>1, <1>2, <1>3, <1>4, <1>5 DEF LeftBy
<1> QED
  BY <1>6 DEF blamed

(* So a slice that is done, one way or the other, leaves what it should.   *)
SliceOver(t) == SliceAnswered(t) \/ \E outcome : SliceRefused(t, outcome)

LEMMA SliceOverLeaves ==
  ASSUME ClientInv, NEW t \in Tasks, SliceOver(t)
  PROVE  \E outcome, readings, failed : /\ SliceDone(t, outcome, readings, failed)
                                        /\ LeftBy(t, readings, failed)
<1>1. CASE SliceAnswered(t)
  <2>1. SliceDone(t, "ok", Caught(t), job[t].failed)
    BY <1>1 DEF SliceAnswered
  <2>2. Updating(t) /\ Asking(t, "read")
    BY <2>1 DEF SliceDone, ReadReturns
  <2> QED
    BY <2>1, <2>2, AnsweredLeaves
<1>2. ASSUME NEW outcome, SliceRefused(t, outcome)
      PROVE  \E readings, failed : /\ SliceDone(t, outcome, readings, failed)
                                   /\ LeftBy(t, readings, failed)
  <2>1. SliceDone(t, outcome, job[t].readings,
                  job[t].failed \cup (Slice(t).components \cap job[t].wanted))
    BY <1>2 DEF SliceRefused
  <2>2. Updating(t) /\ Asking(t, "read")
    BY <2>1 DEF SliceDone, ReadReturns
  <2> QED
    BY <2>1, <2>2, RefusedLeaves
<1> QED
  BY <1>1, <1>2 DEF SliceOver

LEMMA SliceOverKeeps ==
  ASSUME ClientInv, IInv', NEW t \in Tasks, SliceOver(t)
  PROVE  ClientInv'
BY SliceOverLeaves, SliceDoneKeeps

-----------------------------------------------------------------------------
(* The steps that leave every job as it is.                                *)
LEMMA SameJobsKeep ==
  ASSUME ClientInv, IInv', JobInv', job' = job, UNCHANGED componentVars,
         version' \in Versions, \A r \in Registers : version[r] <= version'[r]
  PROVE  ClientInv'
<1> USE DEF InNoCall, Updating, InWrite
<1>1. cache' = cache /\ read' = read /\ failing' = failing
  BY DEF componentVars
<1>2. version \in Versions /\ cache \in Versions
  BY DEF ClientInv, ClientTypeOK
<1>3. ClientTypeOK'
  BY <1>1 DEF ClientInv, ClientTypeOK, IInv
<1>4. ReadOnce' /\ FailedExactly'
  BY DEF ClientInv, ReadOnce, FailedExactly, ToRead
<1>5. AloneInv'
  BY <1>1 DEF ClientInv, AloneInv
<1>6. ASSUME NEW r \in Registers, NEW v \in Nat, v <= version[r] PROVE v <= version'[r]
  BY <1>2, <1>6 DEF Versions
<1>7. \A r \in Registers : cache'[r] <= version'[r]
  BY <1>1, <1>2, <1>6 DEF ClientInv, NothingAhead, Versions
<1>8. ASSUME NEW t \in Tasks, Updating(t)
      PROVE  /\ \A r \in Registers : job[t].since[r] <= version'[r]
             /\ \A r \in DOMAIN job[t].readings :
                  job[t].since[r] <= job[t].readings[r] /\ job[t].readings[r] <= version'[r]
  <2>1. /\ DOMAIN job[t].readings \subseteq Registers
        /\ job[t].readings \in [DOMAIN job[t].readings -> Nat]
        /\ job[t].since \in Versions
    BY <1>8, UpdateFields DEF ClientInv
  <2>2. /\ \A r \in Registers : job[t].since[r] <= version[r]
        /\ \A r \in DOMAIN job[t].readings :
             job[t].since[r] <= job[t].readings[r] /\ job[t].readings[r] <= version[r]
    BY <1>8 DEF ClientInv, NothingAhead
  <2> QED
    BY <1>6, <2>1, <2>2 DEF Versions
<1>9. ASSUME NEW t \in Tasks, InWrite(t), NEW i \in DOMAIN job[t].taken
      PROVE  /\ cache'[job[t].group[i]] <= job[t].taken[i]
             /\ job[t].taken[i] <= version'[job[t].group[i]]
  <2>1. job[t].group[i] \in Registers /\ job[t].taken[i] \in Nat
    BY <1>9, TakenInGroup
  <2>2. /\ cache[job[t].group[i]] <= job[t].taken[i]
        /\ job[t].taken[i] <= version[job[t].group[i]]
    BY <1>9 DEF ClientInv, NothingAhead
  <2> QED
    BY <1>1, <1>6, <2>1, <2>2
<1>10. NothingAhead'
  BY <1>7, <1>8, <1>9 DEF NothingAhead
<1> QED
  BY <1>3, <1>4, <1>5, <1>10 DEF ClientInv

LEMMA JobInvFrame ==
  ASSUME JobInv, UNCHANGED <<at, call, job>>
  PROVE  JobInv'
BY DEF JobInv, InNoCall, Updating, InWrite

(* Connections that come and go, and registers that change by themselves.  *)
LEMMA OutsideKeeps ==
  ASSUME ClientInv, IInv',
         \/ ConnectionDrops
         \/ \E t \in Tasks : Disconnects(t)
         \/ \E r \in Registers : OwnChange(r)
         \/ UNCHANGED allVars
  PROVE  ClientInv'
<1>1. UNCHANGED <<at, call, job>> /\ UNCHANGED componentVars
  BY DEF ConnectionDrops, Drop, Disconnects, Disconnect, Close, OwnChange, allVars, vars,
         clientVars, componentVars
<1>2. JobInv'
  BY <1>1, JobInvFrame DEF ClientInv
<1>3. version \in Versions
  BY DEF ClientInv, ClientTypeOK
<1>4. version' = version \/ \E r \in Registers : Change(r)
  BY DEF ConnectionDrops, Disconnects, OwnChange, allVars, clientVars
<1>5. version' \in Versions /\ \A r \in Registers : version[r] <= version'[r]
  BY <1>3, <1>4, ChangeGrows, UnchangedGrows
<1> QED
  BY <1>1, <1>2, <1>5, SameJobsKeep

LEMMA GrantedJobKeeps ==
  ASSUME ClientInv, IInv', NEW t \in Tasks, IsGranted(t)
  PROVE  ClientInv'
<1>1. /\ at[t] = "lock" /\ at' = [at EXCEPT ![t] = "wire"] /\ call' = call
      /\ job' = job /\ version' = version /\ UNCHANGED componentVars
  BY DEF IsGranted, Granted, Woken, clientVars, componentVars
<1>2. at'[t] = "wire" /\ \A u \in Tasks \ {t} : at'[u] = at[u]
  BY <1>1 DEF ClientInv, IInv, TypeOK
<1>3. JobInv'
  BY <1>1, <1>2 DEF ClientInv, JobInv, InNoCall, Updating, InWrite
<1> QED
  BY <1>1, <1>3, SameJobsKeep, UnchangedGrows DEF ClientInv, ClientTypeOK

(* What a job asks for first is what JobInv expects of it: a read if there *)
(* is something to read, the whole group for a write.                      *)
LEMMA FirstOfUpdate ==
  ASSUME NEW j, j.kind = "update"
  PROVE  /\ FirstCall(j) = IF j.todo = {} THEN NoCall ELSE ReadCall
         /\ FirstCall(j) # NoCall => j.todo # {}
BY DEF FirstCall

LEMMA FirstOfWrite ==
  ASSUME NEW j, j.kind = "write", j.taken = <<>>, j.group \in Groups
  PROVE  /\ FirstCall(j) = RestOfGroup(j)
         /\ FirstCall(j) # NoCall
         /\ Len(j.taken) < Len(j.group)
<1>1. Len(j.taken) = 0
  BY EmptySeq
<1>2. Len(j.group) \in Nat \ {0}
  BY GroupIsCall, MaxGroupAssumption
<1>3. FirstCall(j) = [op |-> "write", n |-> Len(j.group)]
  BY DEF FirstCall, WriteCall
<1>4. Len(j.group) = Len(j.group) - Len(j.taken)
  BY <1>1, <1>2
<1>5. FirstCall(j) # NoCall
  BY <1>3 DEF NoCall
<1>6. FirstCall(j) = RestOfGroup(j)
  BY <1>3, <1>4 DEF RestOfGroup
<1> QED
  BY <1>1, <1>2, <1>5, <1>6

LEMMA ConnectingGroup ==
  ASSUME ClientInv, NEW t \in Tasks, InWrite(t), call[t].op = "connect"
  PROVE  job[t].taken = <<>>
<1>1. job[t].taken = <<>> \/ call[t] = RestOfGroup(job[t])
  BY DEF ClientInv, JobInv
<1>2. RestOfGroup(job[t]).op = "write"
  BY DEF RestOfGroup
<1> QED
  BY <1>1, <1>2

LEMMA ConnectsKeeps ==
  ASSUME ClientInv, IInv', NEW t \in Tasks, Connects(t)
  PROVE  ClientInv'
<1> DEFINE first == FirstCall(job[t])
<1>1. /\ ~ InNoCall(t)
      /\ job' = [job EXCEPT ![t] = IF first = NoCall THEN Returned ELSE job[t]]
      /\ version' = version /\ UNCHANGED componentVars
  BY DEF Connects
<1>2. /\ call'[t] = first
      /\ at'[t] = "idle" <=> first = NoCall
      /\ \A u \in Tasks \ {t} : at'[u] = at[u] /\ call'[u] = call[u]
      /\ call[t].op = "connect"
  <2>1. AlreadyOpen(t, first) \/ ConnectReturns(t, "ok", first)
    BY DEF Connects
  <2>2. call[t].op = "connect"
    BY <2>1 DEF AlreadyOpen, ConnectReturns, Asking
  <2> HIDE DEF first
  <2> QED
    BY <2>1, <2>2, RequestEnds DEF ClientInv, IInv
<1>3. /\ version \in Versions /\ cache \in Versions
      /\ read \subseteq Components /\ failing \subseteq Components
      /\ \A r \in Registers : cache[r] <= version[r]
  BY DEF ClientInv, ClientTypeOK, NothingAhead
<1>4. CASE first = NoCall
  BY <1>1, <1>2, <1>3, <1>4, EndsKeeps, UnchangedGrows DEF componentVars
<1>5. CASE first # NoCall
  <2>1. job' = job
    BY <1>1, <1>5 DEF ClientInv, ClientTypeOK
  <2>2. Updating(t) => call'[t] = ReadCall /\ job[t].todo # {}
    BY <1>2, <1>5, FirstOfUpdate DEF Updating
  <2>3. InWrite(t) => /\ job[t].taken = <<>>
                      /\ call'[t] = RestOfGroup(job[t])
                      /\ Len(job[t].taken) < Len(job[t].group)
    <3> SUFFICES ASSUME InWrite(t)
                 PROVE  /\ job[t].taken = <<>>
                        /\ call'[t] = RestOfGroup(job[t])
                        /\ Len(job[t].taken) < Len(job[t].group)
      OBVIOUS
    <3>1. job[t].taken = <<>>
      BY <1>2, ConnectingGroup
    <3>2. job[t].group \in Groups
      BY WriteFields DEF ClientInv
    <3> QED
      BY <1>2, <3>1, <3>2, FirstOfWrite DEF InWrite
  <2>4. JobInv'
    BY <1>1, <1>2, <1>5, <2>1, <2>2, <2>3 DEF ClientInv, JobInv, InNoCall, Updating, InWrite
  <2> QED
    BY <1>1, <1>3, <2>1, <2>4, SameJobsKeep, UnchangedGrows
<1> QED
  BY <1>4, <1>5

-----------------------------------------------------------------------------
(* One write of a group is taken.  The task holds the lock, so it is the   *)
(* only one with a group begun, and nobody is alone while it writes.       *)
LEMMA WriteTakenKeeps ==
  ASSUME ClientInv, IInv', NEW t \in Tasks, WriteTaken(t)
  PROVE  ClientInv'
<1> USE DEF InNoCall, Updating, InWrite
<1>1. /\ InWrite(t)
      /\ at[t] = "wire" /\ call[t].op = "write" /\ call[t].n > 1
      /\ call' = [call EXCEPT ![t].n = @ - 1] /\ at' = at
      /\ Change(Target(t))
      /\ job' = [job EXCEPT ![t].taken = Append(@, version[Target(t)] + 1)]
      /\ cache' = cache /\ read' = read /\ failing' = failing
  BY DEF WriteTaken, WriteAdvances, Asking, componentVars
<1>2. /\ job[t] \in Writings
      /\ job[t].group \in Groups
      /\ job[t].taken \in Seq(Nat)
      /\ job = [u \in Tasks |-> job[u]]
      /\ version \in Versions /\ cache \in Versions
  BY <1>1, WriteFields DEF ClientInv, ClientTypeOK
<1>3. /\ version' \in Versions
      /\ \A r \in Registers : version[r] <= version'[r]
      /\ version[Target(t)] + 1 \in Nat
  BY <1>1, <1>2, TargetIn, ChangeGrows DEF Versions
<1>4. /\ Produced(t) \in Seq(Nat)
      /\ Len(Produced(t)) = Len(job[t].taken) + 1
      /\ DOMAIN Produced(t) = 1..Len(job[t].taken) + 1
      /\ Len(job[t].taken) \in Nat
  BY <1>2, <1>3, AppendProperties, LenProperties DEF Produced
<1>5. /\ job'[t].kind = "write"
      /\ job'[t].group = job[t].group
      /\ job'[t].taken = Produced(t)
      /\ job'[t].alone = job[t].alone
      /\ \A u \in Tasks \ {t} : job'[u] = job[u]
      /\ job' = [u \in Tasks |-> job'[u]]
  BY <1>1, <1>2 DEF Writings, Produced
<1>6. job'[t] \in Writings
  BY <1>1, <1>2, <1>4 DEF Writings, Produced
<1>7. ClientTypeOK'
  BY <1>1, <1>3, <1>5, <1>6 DEF ClientInv, ClientTypeOK, IInv
<1>8. /\ call'[t] = RestOfGroup(job[t])'
      /\ Len(Produced(t)) < Len(job[t].group)
      /\ \A u \in Tasks \ {t} : call'[u] = call[u]
  <2> DEFINE k == Len(job[t].group) - Len(job[t].taken)
  <2>1. call[t] = ConnectCall \/ call[t] = [op |-> "write", n |-> k]
    BY <1>1 DEF ClientInv, JobInv, RestOfGroup
  <2>2. Len(job[t].group) \in Nat
    BY <1>2, GroupIsCall, MaxGroupAssumption
  <2>3. k \in Int /\ Len(job[t].group) - Len(Produced(t)) = k - 1
    BY <1>4, <2>2
  <2> HIDE DEF k
  <2>4. k > 1 /\ call[t] = [op |-> "write", n |-> k]
    BY <1>1, <2>1 DEF ConnectCall
  <2>5. /\ call'[t] = [op |-> "write", n |-> k - 1]
        /\ \A u \in Tasks \ {t} : call'[u] = call[u]
    BY <1>1, <2>3, <2>4 DEF ClientInv, IInv, TypeOK
  <2>6. RestOfGroup(job[t])' = [op |-> "write", n |-> k - 1]
    BY <1>5, <2>3 DEF RestOfGroup
  <2>7. Len(Produced(t)) < Len(job[t].group)
    BY <1>4, <2>2, <2>3, <2>4
  <2> QED
    BY <2>5, <2>6, <2>7
<1>9. JobInv'
  <2>1. ASSUME NEW u \in Tasks \ {t} PROVE at'[u] = at[u] /\ call'[u] = call[u] /\ job'[u] = job[u]
    BY <1>1, <1>5, <1>8
  <2>2. /\ job'[t].kind = "write" /\ at'[t] = "wire" /\ call'[t] = RestOfGroup(job'[t])
        /\ Len(job'[t].taken) < Len(job'[t].group)
    BY <1>1, <1>5, <1>8 DEF RestOfGroup
  <2>3. JobInv
    BY DEF ClientInv
  <2>4. ASSUME NEW u \in Tasks \ {t}
        PROVE  /\ InNoCall(u)' <=> InNoCall(u)
               /\ Updating(u)' <=> Updating(u)
               /\ InWrite(u)' <=> InWrite(u)
    BY <2>1
  <2>5. ~ InNoCall(t)' /\ ~ Updating(t)' /\ InWrite(t)'
    BY <2>2
  <2> QED
    BY <2>1, <2>2, <2>3, <2>4, <2>5 DEF JobInv
<1>10. ReadOnce' /\ FailedExactly'
  BY <1>5 DEF ClientInv, ReadOnce, FailedExactly, ToRead
<1>11. AloneInv'
  BY <1>1, <1>5 DEF ClientInv, AloneInv
<1>12. ASSUME NEW r \in Registers, NEW v \in Nat, v <= version[r] PROVE v <= version'[r]
  BY <1>2, <1>3, <1>12 DEF Versions
<1>13. \A r \in Registers : cache'[r] <= version'[r]
  BY <1>1, <1>2, <1>12 DEF ClientInv, NothingAhead, Versions
<1>14. ASSUME NEW u \in Tasks, Updating(u)'
       PROVE  /\ \A r \in Registers : job'[u].since[r] <= version'[r]
              /\ \A r \in DOMAIN job'[u].readings :
                   job'[u].since[r] <= job'[u].readings[r] /\ job'[u].readings[r] <= version'[r]
  <2>1. job'[u] = job[u] /\ Updating(u)
    BY <1>5, <1>14
  <2>2. /\ DOMAIN job[u].readings \subseteq Registers
        /\ job[u].readings \in [DOMAIN job[u].readings -> Nat]
        /\ job[u].since \in Versions
    BY <2>1, UpdateFields DEF ClientInv
  <2>3. /\ \A r \in Registers : job[u].since[r] <= version[r]
        /\ \A r \in DOMAIN job[u].readings :
             job[u].since[r] <= job[u].readings[r] /\ job[u].readings[r] <= version[r]
    BY <2>1 DEF ClientInv, NothingAhead
  <2> QED
    BY <1>12, <2>1, <2>2, <2>3 DEF Versions
<1>15. ASSUME NEW u \in Tasks, InWrite(u)', NEW i \in DOMAIN job'[u].taken
       PROVE  /\ cache'[job'[u].group[i]] <= job'[u].taken[i]
              /\ job'[u].taken[i] <= version'[job'[u].group[i]]
  <2>1. CASE u = t
    BY <1>1, <1>4, <1>5, <1>15, <2>1, ProducedFits
  <2>2. CASE u # t
    BY <1>1, <1>5, <1>15, <2>2, NoGroupBegun
  <2> QED
    BY <2>1, <2>2
<1>16. NothingAhead'
  BY <1>13, <1>14, <1>15 DEF NothingAhead
<1> QED
  BY <1>7, <1>9, <1>10, <1>11, <1>16 DEF ClientInv

-----------------------------------------------------------------------------
(* A call begins: nothing is read, written or published yet, and whoever   *)
(* was in a call is not alone any more.                                    *)
Starts(j) ==
  /\ j \in Writings \cup Refreshes({})
  /\ j.kind = "write" => j.taken = <<>>
  /\ j.kind = "update" =>
       /\ j.failed = {} /\ j.since = version
       /\ j.alone <=> Alone
       /\ \A c \in j.wanted : Regs[c] \subseteq UNION {ReadPlan[i].regs : i \in j.todo}

LEMMA OthersKeepFields ==
  ASSUME ClientInv, NEW t \in Tasks, NEW j, BeginJob(t, j), NEW u \in Tasks \ {t}
  PROVE  /\ InNoCall(u) => job'[u] = job[u]
         /\ ~ InNoCall(u) => job'[u] = [job[u] EXCEPT !.alone = FALSE]
BY DEF BeginJob

(* Field by field, whatever the kind of the call.                          *)
LEMMA OthersKeep ==
  ASSUME ClientInv, NEW t \in Tasks, NEW j, BeginJob(t, j), NEW u \in Tasks \ {t}
  PROVE  /\ job'[u].kind = job[u].kind
         /\ InNoCall(u) => job'[u] = job[u]
         /\ Updating(u) =>
              /\ job'[u].wanted = job[u].wanted /\ job'[u].todo = job[u].todo
              /\ job'[u].readings = job[u].readings /\ job'[u].failed = job[u].failed
              /\ job'[u].since = job[u].since /\ job'[u].alone = FALSE
              /\ job'[u] \in Refreshes(DOMAIN job[u].readings)
         /\ InWrite(u) =>
              /\ job'[u].group = job[u].group /\ job'[u].taken = job[u].taken
              /\ job'[u] \in Writings
<1> USE DEF InNoCall, Updating, InWrite
<1>1. CASE InNoCall(u)
  BY <1>1, OthersKeepFields
<1>2. CASE Updating(u)
  <2>1. job[u] \in Refreshes(DOMAIN job[u].readings)
    BY <1>2, UpdateFields DEF ClientInv
  <2>2. job'[u] = [job[u] EXCEPT !.alone = FALSE]
    BY <1>2, OthersKeepFields
  <2> HIDE DEF InNoCall, InWrite
  <2> QED
    BY <1>2, <2>1, <2>2 DEF Refreshes, InNoCall, InWrite
<1>3. CASE InWrite(u)
  <2>1. job[u] \in Writings
    BY <1>3, WriteFields DEF ClientInv
  <2>2. job'[u] = [job[u] EXCEPT !.alone = FALSE]
    BY <1>3, OthersKeepFields
  <2> QED
    BY <1>3, <2>1, <2>2 DEF Writings
<1> QED
  BY <1>1, <1>2, <1>3, ThreeKinds DEF ClientInv

LEMMA BeginJobKeeps ==
  ASSUME ClientInv, IInv', NEW t \in Tasks, NEW j, BeginJob(t, j), Starts(j)
  PROVE  ClientInv'
<1> USE DEF InNoCall, Updating, InWrite
<1> DEFINE first == IF Connected THEN FirstCall(j) ELSE ConnectCall
<1>1. /\ InNoCall(t)
      /\ job'[t] = j
      /\ job' = [u \in Tasks |-> job'[u]]
      /\ version' = version /\ UNCHANGED componentVars
      /\ cache' = cache /\ read' = read /\ failing' = failing
  BY DEF BeginJob, componentVars
<1>2. /\ call'[t] = first /\ first # NoCall
      /\ at'[t] # "idle"
      /\ \A u \in Tasks \ {t} : at'[u] = at[u] /\ call'[u] = call[u]
  <2>1. Begin(t, first)
    BY DEF BeginJob
  <2> HIDE DEF first
  <2> QED
    BY <2>1, ProceedMoves DEF Begin, ClientInv, IInv
<1>3. /\ \A u \in Tasks \ {t} : job'[u].kind = job[u].kind
      /\ version \in Versions /\ cache \in Versions
      /\ read \subseteq Components /\ failing \subseteq Components
  BY OthersKeep DEF ClientInv, ClientTypeOK
<1>4. /\ j.kind = "update" \/ j.kind = "write"
      /\ j.kind = "update" => /\ j \in Refreshes({})
                              /\ j.wanted \subseteq Components
                              /\ DOMAIN j.readings = {}
      /\ j.kind = "write" => j \in Writings /\ j.group \in Groups
  BY DEF Starts, Writings, Refreshes
<1>5. ClientTypeOK'
  <2>1. ASSUME NEW u \in Tasks
        PROVE  \/ job'[u] \in {Returned, Raised} \cup Writings
               \/ \E caught \in SUBSET Registers : job'[u] \in Refreshes(caught)
    <3>1. CASE u = t
      BY <1>1, <1>4, <3>1
    <3>2. CASE u # t /\ Updating(u)
      BY <3>2, OthersKeep, UpdateFields DEF ClientInv
    <3>3. CASE u # t /\ ~ Updating(u)
      BY <3>3, OthersKeep, ThreeKinds DEF ClientInv
    <3> QED
      BY <3>1, <3>2, <3>3
  <2> HIDE DEF first
  <2> QED
    BY <1>1, <1>3, <2>1 DEF ClientInv, ClientTypeOK, IInv, Refreshes
<1>6. JobInv'
  <2>1. ASSUME j.kind = "update"
        PROVE  /\ DOMAIN j.readings = {} /\ j.failed = {}
               /\ call'[t] = ConnectCall \/ (call'[t] = ReadCall /\ j.todo # {})
    <3>0. DOMAIN j.readings = {} /\ j.failed = {}
      BY <1>4, <2>1 DEF Starts
    <3>1. CASE Connected
      BY <1>2, <2>1, <3>0, <3>1, FirstOfUpdate
    <3>2. CASE ~ Connected
      BY <1>2, <3>0, <3>2
    <3> QED
      BY <3>1, <3>2
  <2>2. ASSUME j.kind = "write"
        PROVE  /\ j.taken = <<>>
               /\ \/ call'[t] = ConnectCall
                  \/ (call'[t] = RestOfGroup(j) /\ Len(j.taken) < Len(j.group))
    BY <1>2, <1>4, <2>2, FirstOfWrite DEF Starts
  <2>3. ASSUME NEW u \in Tasks \ {t}
        PROVE  /\ at'[u] = at[u] /\ call'[u] = call[u] /\ job'[u].kind = job[u].kind
               /\ Updating(u) => /\ job'[u].todo = job[u].todo
                                 /\ job'[u].readings = job[u].readings
                                 /\ job'[u].failed = job[u].failed
               /\ InWrite(u) => job'[u].group = job[u].group /\ job'[u].taken = job[u].taken
    BY <1>2, OthersKeep
  <2> HIDE DEF first
  <2>4. ASSUME NEW u \in Tasks
        PROVE  /\ InNoCall(u)' <=> at'[u] = "idle"
               /\ Updating(u)' =>
                    \/ /\ call'[u] = ConnectCall
                       /\ DOMAIN job'[u].readings = {} /\ job'[u].failed = {}
                    \/ call'[u] = ReadCall /\ job'[u].todo # {}
               /\ InWrite(u)' =>
                    \/ call'[u] = ConnectCall /\ job'[u].taken = <<>>
                    \/ /\ call'[u] = RestOfGroup(job'[u])
                       /\ Len(job'[u].taken) < Len(job'[u].group)
                       /\ job'[u].taken # <<>> => at'[u] = "wire"
    <3>1. CASE u = t
      BY <1>1, <1>2, <1>4, <2>1, <2>2, <3>1
    <3>2. CASE u # t
      <4>1. /\ InNoCall(u)' <=> InNoCall(u)
            /\ Updating(u)' <=> Updating(u)
            /\ InWrite(u)' <=> InWrite(u)
            /\ InWrite(u) => RestOfGroup(job'[u]) = RestOfGroup(job[u])
        BY <2>3, <3>2 DEF RestOfGroup
      <4>2. JobInv
        BY DEF ClientInv
      <4> HIDE DEF InNoCall, Updating, InWrite
      <4> QED
        BY <2>3, <3>2, <4>1, <4>2 DEF JobInv
    <3> QED
      BY <3>1, <3>2
  <2> QED
    BY <2>4 DEF JobInv, RestOfGroup
<1>7. ReadOnce'
  <2>1. j.kind = "update" => j.failed \subseteq j.wanted
    BY DEF Starts
  <2>2. ASSUME NEW u \in Tasks, Updating(u)'
        PROVE  /\ job'[u].failed \subseteq job'[u].wanted
               /\ DOMAIN job'[u].readings \cap ToRead(u)' = {}
    <3>1. CASE u = t
      BY <1>1, <1>4, <2>1, <2>2, <3>1
    <3>2. CASE u # t
      <4>1. /\ Updating(u)
            /\ job'[u].wanted = job[u].wanted /\ job'[u].todo = job[u].todo
            /\ job'[u].readings = job[u].readings /\ job'[u].failed = job[u].failed
        BY ZenonT(60), <2>2, <3>2, OthersKeep
      <4>2. ToRead(u)' = ToRead(u)
        BY <4>1 DEF ToRead
      <4> QED
        BY <4>1, <4>2 DEF ClientInv, ReadOnce
    <3> QED
      BY <3>1, <3>2
  <2> QED
    BY <2>2 DEF ReadOnce
<1>8. FailedExactly'
  <2>1. ASSUME j.kind = "update"
        PROVE  j.failed = {c \in j.wanted :
                 ~ (Regs[c] \subseteq DOMAIN j.readings \cup UNION {ReadPlan[i].regs : i \in j.todo})}
    <3>1. /\ j.failed = {}
          /\ \A c \in j.wanted : Regs[c] \subseteq UNION {ReadPlan[i].regs : i \in j.todo}
      BY <2>1 DEF Starts
    <3> QED
      BY <3>1
  <2>2. ASSUME NEW u \in Tasks, Updating(u)'
        PROVE  job'[u].failed = {c \in job'[u].wanted :
                 ~ (Regs[c] \subseteq DOMAIN job'[u].readings \cup ToRead(u)')}
    <3>1. CASE u = t
      BY <1>1, <2>1, <2>2, <3>1 DEF ToRead
    <3>2. CASE u # t
      <4>1. /\ Updating(u)
            /\ job'[u].wanted = job[u].wanted /\ job'[u].todo = job[u].todo
            /\ job'[u].readings = job[u].readings /\ job'[u].failed = job[u].failed
        BY ZenonT(60), <2>2, <3>2, OthersKeep
      <4>2. ToRead(u)' = ToRead(u)
        BY <4>1 DEF ToRead
      <4> QED
        BY <4>1, <4>2 DEF ClientInv, FailedExactly
    <3> QED
      BY <3>1, <3>2
  <2> QED
    BY <2>2 DEF FailedExactly
<1>9. NothingAhead'
  <2>1. j.kind = "update" => /\ \A r \in Registers : j.since[r] <= version[r]
                             /\ DOMAIN j.readings = {}
    BY <1>3, <1>4 DEF Starts, Versions
  <2>2. j.kind = "write" => DOMAIN j.taken = {}
    BY DEF Starts
  <2>3. ASSUME NEW u \in Tasks \ {t}
        PROVE  /\ job'[u].kind = job[u].kind
               /\ Updating(u) => job'[u].since = job[u].since /\ job'[u].readings = job[u].readings
               /\ InWrite(u) => job'[u].group = job[u].group /\ job'[u].taken = job[u].taken
    BY OthersKeep
  <2> HIDE DEF first
  <2> QED
    BY <1>1, <2>1, <2>2, <2>3 DEF ClientInv, NothingAhead
<1>10. AloneInv'
  <2>1. j.kind = "update" /\ j.alone =>
          /\ \A u \in Tasks \ {t} : InNoCall(u)
          /\ \A r \in Registers : cache[r] <= j.since[r]
    BY DEF Starts, Alone, ClientInv, NothingAhead
  <2>2. \A u \in Tasks \ {t} : job'[u].kind = job[u].kind
    BY <1>3
  <2>3. \A u \in Tasks \ {t} : Updating(u) => ~ job'[u].alone
    BY OthersKeep
  <2> HIDE DEF first
  <2> QED
    BY <1>1, <2>1, <2>2, <2>3 DEF AloneInv
<1> QED
  BY <1>5, <1>6, <1>7, <1>8, <1>9, <1>10 DEF ClientInv

LEMMA BeginsKeep ==
  ASSUME ClientInv, IInv', NEW t \in Tasks,
         \/ \E wanted \in Selections : BeginUpdate(t, wanted)
         \/ \E group \in Groups : BeginWrite(t, group)
  PROVE  ClientInv'
<1>1. Alone \in BOOLEAN
  BY DEF Alone
<1>2. ASSUME NEW wanted \in Selections, BeginUpdate(t, wanted) PROVE ClientInv'
  <2> DEFINE j == Refresh(wanted, Alone)
  <2>1. wanted \in SUBSET Components
    BY SelectionsAssumption
  <2>2. version \in Versions /\ <<>> \in [{} -> Nat]
    BY DEF ClientInv, ClientTypeOK
  <2>3. j \in Refreshes({})
    BY <1>1, <2>1, <2>2 DEF Refresh, Refreshes
  <2>4. /\ j.kind = "update" /\ j.failed = {} /\ j.since = version /\ j.alone = Alone
        /\ j.wanted = wanted
        /\ j.todo = {i \in DOMAIN ReadPlan : ReadPlan[i].components \cap wanted # {}}
    BY DEF Refresh
  <2>5. Starts(j)
    BY <2>1, <2>3, <2>4, SelectedCover DEF Starts
  <2> QED
    BY <1>2, <2>5, BeginJobKeeps DEF BeginUpdate
<1>3. ASSUME NEW group \in Groups, BeginWrite(t, group) PROVE ClientInv'
  <2>1. Starts(Writing(group, Alone))
    BY <1>1 DEF Writing, Writings, Starts
  <2> QED
    BY <1>3, <2>1, BeginJobKeeps DEF BeginWrite
<1> QED
  BY <1>2, <1>3

-----------------------------------------------------------------------------
LEMMA InitClientInv == ClientInit => ClientInv
<1> SUFFICES ASSUME ClientInit PROVE ClientInv
  OBVIOUS
<1>1. \A t \in Tasks : job[t] = Returned /\ job[t].kind = "none" /\ at[t] = "idle"
  BY DEF ClientInit, Init, Returned, Ended
<1>2. IInv
  BY InitIInv DEF ClientInit
<1>3. ClientTypeOK
  BY <1>1, <1>2 DEF ClientInit, ClientTypeOK, IInv, Versions
<1>4. \A t \in Tasks : InNoCall(t) /\ ~ Updating(t) /\ ~ InWrite(t)
  BY <1>1 DEF InNoCall, Updating, InWrite
<1>5. \A r \in Registers : cache[r] <= version[r]
  BY DEF ClientInit
<1> QED
  BY <1>1, <1>2, <1>3, <1>4, <1>5
     DEF ClientInv, JobInv, ReadOnce, FailedExactly, NothingAhead, AloneInv

LEMMA ProgressKeeps ==
  ASSUME ClientInv, IInv', NEW t \in Tasks, Progress(t)
  PROVE  ClientInv'
<1>1. CASE IsGranted(t)
  BY <1>1, GrantedJobKeeps
<1>2. CASE Connects(t)
  BY <1>2, ConnectsKeeps
<1>3. CASE ConnectFails(t)
  BY <1>3, ConnectFailsKeeps
<1>4. CASE SliceAnswered(t) \/ \E outcome \in Faults : SliceRefused(t, outcome)
  BY <1>4, SliceOverKeeps DEF SliceOver
<1>5. CASE WriteTaken(t)
  BY <1>5, WriteTakenKeeps
<1>6. CASE GroupTaken(t)
  BY <1>6, GroupTakenKeeps
<1>7. CASE \E outcome \in Faults : SliceLost(t, outcome)
  BY <1>7, SliceLostKeeps
<1>8. CASE \E outcome \in Faults : WriteFails(t, outcome)
  BY <1>8, WriteFailsKeeps
<1> QED
  BY <1>1, <1>2, <1>3, <1>4, <1>5, <1>6, <1>7, <1>8 DEF Progress

LEMMA StepClientInv == ClientInv /\ [ClientNext]_allVars => ClientInv'
<1> SUFFICES ASSUME ClientInv, [ClientNext]_allVars PROVE ClientInv'
  OBVIOUS
<1>1. IInv'
  BY StepOfTransport, StepIInv DEF ClientInv, IInv
<1>2. CASE UNCHANGED allVars
  BY <1>1, <1>2, OutsideKeeps
<1>3. CASE ConnectionDrops \/ \E r \in Registers : OwnChange(r)
  BY <1>1, <1>3, OutsideKeeps
<1>4. ASSUME NEW t \in Tasks, Progress(t) PROVE ClientInv'
  BY <1>1, <1>4, ProgressKeeps
<1>5. ASSUME NEW t \in Tasks, Cancelled(t) PROVE ClientInv'
  BY <1>1, <1>5, CancelledKeeps
<1>6. CASE \E t \in Tasks : Disconnects(t)
  BY <1>1, <1>6, OutsideKeeps
<1>7. ASSUME NEW t \in Tasks,
             \/ \E wanted \in Selections : BeginUpdate(t, wanted)
             \/ \E group \in Groups : BeginWrite(t, group)
      PROVE  ClientInv'
  BY <1>1, <1>7, BeginsKeep
<1> QED
  BY <1>2, <1>3, <1>4, <1>5, <1>6, <1>7 DEF ClientNext
-----------------------------------------------------------------------------
(* What the components show, step by step.                                 *)

(* The only steps that touch a component: the last slice of a refresh, and *)
(* the last write of a group.                                              *)
Publishes(t, readings, failed) ==
  /\ Updating(t) /\ Later(t) = {}
  /\ Publish(t, readings, failed)
  /\ LeftBy(t, readings, failed)

LEMMA OnlyThesePublish ==
  ASSUME ClientInv, [ClientNext]_allVars
  PROVE  \/ UNCHANGED componentVars
         \/ \E t \in Tasks : GroupTaken(t)
         \/ \E t \in Tasks : \E readings, failed : Publishes(t, readings, failed)
<1>1. ASSUME NEW t \in Tasks, SliceOver(t)
      PROVE  \/ UNCHANGED componentVars
             \/ \E readings, failed : Publishes(t, readings, failed)
  BY <1>1, SliceOverLeaves DEF SliceDone, Publishes
<1>2. ASSUME NEW t \in Tasks, Progress(t), ~ GroupTaken(t), ~ SliceOver(t)
      PROVE  UNCHANGED componentVars
  BY <1>2 DEF Progress, SliceOver, IsGranted, clientVars, Connects, ConnectFails, Raises,
              WriteTaken, SliceLost, WriteFails, componentVars
<1>3. ASSUME NEW t \in Tasks, NEW j, BeginJob(t, j) PROVE UNCHANGED componentVars
  BY <1>3 DEF BeginJob
<1>4. ASSUME \/ UNCHANGED allVars
             \/ ConnectionDrops
             \/ \E r \in Registers : OwnChange(r)
             \/ \E t \in Tasks : Cancelled(t) \/ Disconnects(t)
      PROVE  UNCHANGED componentVars
  BY <1>4 DEF allVars, ConnectionDrops, OwnChange, Cancelled, Raises, Disconnects,
              clientVars, componentVars
<1> QED
  BY <1>1, <1>2, <1>3, <1>4 DEF ClientNext, BeginUpdate, BeginWrite

(* The last slice of a refresh has caught every register of a component    *)
(* that is not given up.                                                   *)
LEMMA ServedCaught ==
  ASSUME ClientInv, NEW t \in Tasks, NEW readings, NEW failed,
         Publishes(t, readings, failed), NEW c \in job[t].wanted \ failed
  PROVE  /\ c \in Components
         /\ \A r \in Regs[c] : /\ r \in Registers /\ r \in DOMAIN readings
                               /\ cache'[r] = readings[r]
                               /\ job[t].since[r] <= readings[r]
                               /\ job[t].since[r] \in Nat /\ readings[r] \in Nat
<1>1. job[t].wanted \subseteq Components /\ job[t].since \in Versions
  BY UpdateFields DEF Publishes, ClientInv
<1>2. LaterRegs(t) = {}
  BY DEF Publishes, LaterRegs
<1>3. /\ readings \in [DOMAIN readings -> Nat]
      /\ \A r \in DOMAIN readings : job[t].since[r] <= readings[r]
      /\ failed = {d \in job[t].wanted : ~ (Regs[d] \subseteq DOMAIN readings \cup LaterRegs(t))}
  BY DEF Publishes, LeftBy
<1>4. Regs[c] \subseteq DOMAIN readings
  BY <1>2, <1>3
<1>5. cache' = [r \in Registers |->
        IF r \in DOMAIN readings \cap UNION {Regs[d] : d \in job[t].wanted \ failed}
        THEN readings[r] ELSE cache[r]]
  BY DEF Publishes, Publish
<1>6. c \in Components /\ Regs[c] \subseteq Registers
  BY <1>1 DEF Registers
<1> QED
  BY <1>1, <1>3, <1>4, <1>5, <1>6 DEF Versions

(* A refresh leaves alone what it was not asked for.                       *)
LEMMA PublishUntouched ==
  ASSUME ClientInv, NEW t \in Tasks, NEW readings, NEW failed,
         Publishes(t, readings, failed), NEW c \in Components \ job[t].wanted
  PROVE  Untouched(c)
<1>1. job[t].wanted \subseteq Components
  BY UpdateFields DEF Publishes, ClientInv
<1>2. failed \subseteq job[t].wanted
  BY DEF Publishes, LeftBy
<1>3. /\ cache' = [r \in Registers |->
           IF r \in DOMAIN readings \cap UNION {Regs[d] : d \in job[t].wanted \ failed}
           THEN readings[r] ELSE cache[r]]
      /\ read' = read \cup (job[t].wanted \ failed)
      /\ failing' = (failing \ (job[t].wanted \ failed)) \cup failed
  BY DEF Publishes, Publish
<1>4. ASSUME NEW r \in Regs[c], NEW d \in job[t].wanted \ failed PROVE r \notin Regs[d]
  BY <1>1, LayoutAssumption
<1>5. \A r \in Regs[c] : r \in Registers
  BY DEF Registers
<1>6. \A r \in Regs[c] : cache'[r] = cache[r]
  BY <1>3, <1>4, <1>5
<1> QED
  BY <1>2, <1>3, <1>6 DEF Untouched

(* The calls that return are the ones that published, wrote or asked for   *)
(* nothing.                                                                *)
LEMMA EndsReturned ==
  ASSUME ClientInv, NEW t \in Tasks, ~ InNoCall(t), job' = [job EXCEPT ![t] = Returned]
  PROVE  Returning(t)
BY DEF ClientInv, ClientTypeOK, Returning

LEMMA StepAskedAlone == ClientInv /\ [ClientNext]_allVars => [AskedAlone]_allVars
<1> SUFFICES ASSUME ClientInv, [ClientNext]_allVars PROVE AskedAlone
  OBVIOUS
<1>1. CASE UNCHANGED componentVars
  BY <1>1 DEF AskedAlone
<1>2. ASSUME NEW t \in Tasks, GroupTaken(t) PROVE AskedAlone
  BY <1>2, EndsReturned DEF GroupTaken, AskedAlone, InWrite, InNoCall, Updating
<1>3. ASSUME NEW t \in Tasks, NEW readings, NEW failed, Publishes(t, readings, failed)
      PROVE  AskedAlone
  <2>1. Returning(t)
    BY <1>3, EndsReturned DEF Publishes, Publish, Updating, InNoCall
  <2>2. \A c \in Components \ job[t].wanted : Untouched(c)
    BY <1>3, PublishUntouched
  <2> QED
    BY <2>1, <2>2 DEF AskedAlone
<1> QED
  BY <1>1, <1>2, <1>3, OnlyThesePublish

(* A refresh that returns has published, or it was asked for nothing.      *)
LEMMA NothingAsked ==
  ASSUME ClientInv, NEW t \in Tasks, Updating(t), Connects(t), FirstCall(job[t]) = NoCall
  PROVE  job[t].wanted = {}
<1>1. job[t].todo = {}
  BY CallsMade, FirstOfUpdate DEF Updating
<1>2. call[t].op = "connect"
  BY DEF Connects, AlreadyOpen, ConnectReturns, Asking
<1>3. DOMAIN job[t].readings = {} /\ job[t].failed = {}
  BY <1>2 DEF ClientInv, JobInv, ReadCall
<1>4. ToRead(t) = {}
  BY <1>1 DEF ToRead
<1>5. \A c \in job[t].wanted : Regs[c] \subseteq {}
  BY <1>3, <1>4 DEF ClientInv, FailedExactly
<1>6. job[t].wanted \subseteq Components
  BY UpdateFields DEF ClientInv
<1> QED
  BY <1>5, <1>6, RegistersAssumption

LEMMA RefreshReturns ==
  ASSUME ClientInv, [ClientNext]_allVars, NEW t \in Tasks, Published(t)
  PROVE  \/ \E readings, failed : Publishes(t, readings, failed)
         \/ job[t].wanted = {}
<1> USE DEF InNoCall, Updating, InWrite
<1>1. /\ job[t].kind = "update" /\ job'[t] = Returned
      /\ job = [u \in Tasks |-> job[u]]
  BY DEF Published, Returning, ClientInv, ClientTypeOK
<1>2. Returned # Raised /\ job[t] # Returned /\ Returned.kind = "none"
  BY <1>1 DEF Returned, Raised, Ended
<1>3. ASSUME NEW u \in Tasks, NEW e, e # Returned \/ u # t, job' = [job EXCEPT ![u] = e]
      PROVE  FALSE
  BY <1>1, <1>2, <1>3
<1>4. job' # job
  BY <1>1, <1>2
<1>5. ASSUME NEW u \in Tasks, Raises(u) PROVE FALSE
  BY <1>2, <1>3, <1>5 DEF Raises
<1>6. ASSUME NEW u \in Tasks, SliceOver(u)
      PROVE  \E readings, failed : Publishes(t, readings, failed)
  <2>1. PICK outcome, readings, failed : /\ SliceDone(u, outcome, readings, failed)
                                         /\ LeftBy(u, readings, failed)
    BY <1>6, SliceOverLeaves
  <2>2. CASE Later(u) = {} /\ Publish(u, readings, failed)
    <3>1. u = t
      BY <1>3, <2>2 DEF Publish
    <3> QED
      BY <2>1, <2>2, <3>1 DEF Publishes, SliceDone
  <2>3. CASE job' = [job EXCEPT ![u].todo = Later(u), ![u].readings = readings,
                                ![u].failed = failed]
    <3>1. u = t
      BY <1>1, <1>2, <2>3
    <3>2. job[t] \in Refreshes(DOMAIN job[t].readings)
      BY <1>1, UpdateFields DEF ClientInv
    <3>3. job'[t].kind = "update"
      BY <1>1, <2>3, <3>1, <3>2 DEF Refreshes
    <3> QED
      BY <1>1, <1>2, <3>3
  <2> QED
    BY <2>1, <2>2, <2>3 DEF SliceDone
<1>7. ASSUME NEW u \in Tasks, Connects(u) PROVE job[t].wanted = {}
  <2>1. u = t /\ FirstCall(job[u]) = NoCall
    BY <1>1, <1>2, <1>7 DEF Connects
  <2> QED
    BY <1>1, <1>7, <2>1, NothingAsked
<1>8. ASSUME NEW u \in Tasks, WriteTaken(u) PROVE FALSE
  BY <1>1, <1>2, <1>8 DEF WriteTaken
<1>9. ASSUME NEW u \in Tasks, GroupTaken(u) PROVE FALSE
  BY <1>1, <1>3, <1>9 DEF GroupTaken
<1>10. ASSUME NEW u \in Tasks, Progress(u)
       PROVE  (\E readings, failed : Publishes(t, readings, failed)) \/ job[t].wanted = {}
  BY <1>4, <1>5, <1>6, <1>7, <1>8, <1>9, <1>10
     DEF Progress, SliceOver, IsGranted, clientVars, ConnectFails, SliceLost, WriteFails
<1>11. ASSUME NEW u \in Tasks, NEW j, BeginJob(u, j) PROVE u = t
  <2>1. u # t => job'[t] = [job[t] EXCEPT !.alone = FALSE]
    BY <1>1, <1>11 DEF BeginJob
  <2>2. job[t] \in Refreshes(DOMAIN job[t].readings)
    BY <1>1, UpdateFields DEF ClientInv
  <2>3. u # t => job'[t].kind = "update"
    BY <2>1, <2>2 DEF Refreshes
  <2> QED
    BY <1>1, <1>2, <2>3
<1>12. ASSUME NEW u \in Tasks, NEW j, BeginJob(u, j) PROVE FALSE
  BY <1>1, <1>11, <1>12 DEF BeginJob
<1>13. CASE \/ UNCHANGED allVars
            \/ ConnectionDrops
            \/ \E r \in Registers : OwnChange(r)
            \/ \E u \in Tasks : Disconnects(u)
  BY <1>4, <1>13 DEF allVars, clientVars, ConnectionDrops, OwnChange, Disconnects
<1>14. ASSUME NEW u \in Tasks, Cancelled(u) PROVE FALSE
  BY <1>5, <1>14 DEF Cancelled
<1> QED
  BY <1>10, <1>12, <1>13, <1>14 DEF ClientNext, BeginUpdate, BeginWrite

LEMMA StepAllFresh == ClientInv /\ [ClientNext]_allVars => [AllFresh]_allVars
<1> SUFFICES ASSUME ClientInv, [ClientNext]_allVars, NEW t \in Tasks, Published(t)
             PROVE  ShowsSince(t)
  BY DEF AllFresh
<1>1. CASE job[t].wanted = {}
  BY <1>1 DEF ShowsSince
<1>2. ASSUME NEW readings, NEW failed, Publishes(t, readings, failed)
      PROVE  ShowsSince(t)
  <2>1. /\ read' = read \cup (job[t].wanted \ failed)
        /\ failing' = (failing \ (job[t].wanted \ failed)) \cup failed
    BY <1>2 DEF Publishes, Publish
  <2>2. ASSUME NEW c \in job[t].wanted \ failing' PROVE c \in job[t].wanted \ failed
    BY <2>1, <2>2
  <2>3. ASSUME NEW c \in job[t].wanted \ failing'
        PROVE  c \in read' /\ \A r \in Regs[c] : cache'[r] >= job[t].since[r]
    BY <1>2, <2>1, <2>2, ServedCaught
  <2> QED
    BY <2>3 DEF ShowsSince
<1> QED
  BY <1>1, <1>2, RefreshReturns

LEMMA StepBackByOverlap == ClientInv /\ [ClientNext]_allVars => [BackByOverlap]_allVars
<1> SUFFICES ASSUME ClientInv, [ClientNext]_allVars, NEW r \in Registers,
                    cache'[r] < cache[r]
             PROVE  \E t \in Tasks : Published(t) /\ ~ job[t].alone
  BY DEF BackByOverlap
<1>1. cache \in Versions
  BY DEF ClientInv, ClientTypeOK
<1>2. ~ UNCHANGED componentVars
  BY <1>1 DEF componentVars, Versions
<1>3. IInv'
  BY StepOfTransport, StepIInv DEF ClientInv, IInv
<1>4. ASSUME NEW t \in Tasks, GroupTaken(t) PROVE FALSE
  <2>1. cache[r] <= cache'[r] /\ cache'[r] \in Nat
    BY <1>3, <1>4, GroupTakenKeeps DEF ClientInv, ClientTypeOK, Versions
  <2> QED
    BY <1>1, <2>1 DEF Versions
<1>5. ASSUME NEW t \in Tasks, NEW readings, NEW failed, Publishes(t, readings, failed)
      PROVE  Published(t) /\ ~ job[t].alone
  <2>1. Published(t)
    BY <1>5, EndsReturned DEF Publishes, Publish, Published, Updating, InNoCall
  <2>2. PICK c \in job[t].wanted \ failed : r \in Regs[c]
    <3>1. cache'[r] = IF r \in DOMAIN readings \cap UNION {Regs[d] : d \in job[t].wanted \ failed}
                      THEN readings[r] ELSE cache[r]
      BY <1>5 DEF Publishes, Publish
    <3>2. cache'[r] # cache[r]
      BY <1>1 DEF Versions
    <3> QED
      BY <3>1, <3>2
  <2>3. /\ cache'[r] = readings[r] /\ job[t].since[r] <= readings[r]
        /\ job[t].since[r] \in Nat /\ readings[r] \in Nat
    BY <1>5, <2>2, ServedCaught
  <2>4. ~ (cache[r] <= job[t].since[r])
    BY <1>1, <2>3 DEF Versions
  <2> QED
    BY <2>1, <2>4 DEF ClientInv, AloneInv, Published
<1> QED
  BY <1>2, <1>4, <1>5, OnlyThesePublish

-----------------------------------------------------------------------------
(* The client makes the requests of transport.py as its lock lets them be  *)
(* made: what is proved of the transport holds whatever the client does.   *)
THEOREM ClientUsesTransport == ClientSpec => Spec
<1>1. ClientInit => Init
  BY DEF ClientInit
<1>2. Init => IInv
  BY InitIInv
<1>3. IInv /\ [ClientNext]_allVars => [Next]_vars
  BY StepOfTransport DEF IInv
<1>4. IInv /\ [Next]_vars => IInv'
  BY StepIInv
<1> QED
  BY <1>1, <1>2, <1>3, <1>4, PTL DEF ClientSpec, Spec

(* client.py:127-177, 179-213: the whole of what holds between two steps   *)
(* of any tasks refreshing and writing: it is inductive.                   *)
THEOREM ClientInvariance == ClientSpec => []ClientInv
<1> QED
  BY InitClientInv, StepClientInv, PTL DEF ClientSpec

(* client.py:138-144: a refused read is blamed on exactly the components   *)
(* asked for that can no longer be read in full.                           *)
THEOREM BlameIsExact == ClientSpec => []FailedExactly
<1>1. ClientInv => FailedExactly
  BY DEF ClientInv
<1> QED
  BY <1>1, ClientInvariance, PTL

(* base.py:239-248, transport.py:107-109: no poll gets in between two      *)
(* writes of a group, whoever polls.                                       *)
THEOREM GroupUnbroken == ClientSpec => []NoPollInsideGroup
<1>1. ClientInv => NoPollInsideGroup
  <2> SUFFICES ASSUME ClientInv, NEW t \in Tasks, NEW u \in Tasks,
                      Asking(t, "read"), InWrite(u)
               PROVE  job[u].taken = <<>>
    BY DEF NoPollInsideGroup
  <2>1. at[t] = "wire" /\ call[t].op = "read"
    BY DEF Asking
  <2>2. call[u] = ConnectCall \/ call[u] = RestOfGroup(job[u])
    BY DEF ClientInv, JobInv
  <2>3. ConnectCall.op = "connect" /\ RestOfGroup(job[u]).op = "write"
    BY DEF ConnectCall, RestOfGroup
  <2>4. u # t
    BY <2>1, <2>2, <2>3
  <2> QED
    BY <2>1, <2>4, NoGroupBegun
<1> QED
  BY <1>1, ClientInvariance, PTL

(* client.py:134-144: only calls that come to their end change what the    *)
(* components say, and a refresh changes only what it was asked for.       *)
THEOREM AskedChange == ClientSpec => OnlyTheAskedChange
<1> QED
  BY ClientInvariance, StepAskedAlone, PTL DEF ClientSpec, OnlyTheAskedChange

(* client.py:172-176: what a refresh reports as read is not older than the *)
(* refresh, register by register.                                          *)
THEOREM ReportedFresh == ClientSpec => RefreshIsFresh
<1> QED
  BY ClientInvariance, StepAllFresh, PTL DEF ClientSpec, RefreshIsFresh

(* A value a component shows is replaced by an older one only by a refresh *)
(* that overlapped another call.                                           *)
THEOREM BackOnlyByOverlap == ClientSpec => OnlyOverlapGoesBack
<1> QED
  BY ClientInvariance, StepBackByOverlap, PTL DEF ClientSpec, OnlyOverlapGoesBack
=============================================================================
