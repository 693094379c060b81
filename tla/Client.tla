-------------------------------- MODULE Client --------------------------------
(***************************************************************************)
(* The client of aiosolarfocus (client.py, components/base.py): refreshes  *)
(* that read the slices of the plan one after the other and publish what   *)
(* they read in the components, and writes that update the components'     *)
(* cache, by several tasks over one Transport.                             *)
(*                                                                         *)
(* The content of a register is the number of times it has changed, so a   *)
(* reading is the version it caught: 0 is no reading, and a register of    *)
(* the controller starts at 1.  A register here is a declared one, one or  *)
(* two words wide; that a slice holds whole registers is the Planner's.    *)
(***************************************************************************)
EXTENDS Transport, FiniteSets, FiniteSetsExt

CONSTANTS Components,  \* the configured component instances
          Regs,        \* Regs[c]: the registers of component c
          ReadPlan,    \* the slices of a refresh, in order
          Selections,  \* what callers refresh: sets of components
          Groups,      \* what callers write together: sequences of registers
          Faults,      \* the ways a request may end other than "ok"
          OwnChanges,  \* whether registers also change without being written
          MaxChanges   \* bound: no call or change begins after so many changes

Registers == UNION {Regs[c] : c \in Components}

(* Layout and planner: a register belongs to one component, and is in one  *)
(* slice; a slice serves the components that have a register in it.        *)
ASSUME LayoutAssumption ==
  \A c, d \in Components : c # d => Regs[c] \cap Regs[d] = {}
ASSUME PlanAssumption ==
  /\ ReadPlan \in Seq([regs : SUBSET Registers, components : SUBSET Components])
  /\ \A r \in Registers : \E i \in DOMAIN ReadPlan : r \in ReadPlan[i].regs
  /\ \A i, j \in DOMAIN ReadPlan : i # j => ReadPlan[i].regs \cap ReadPlan[j].regs = {}
  /\ \A i \in DOMAIN ReadPlan :
       ReadPlan[i].components = {c \in Components : Regs[c] \cap ReadPlan[i].regs # {}}
ASSUME RegistersAssumption == \A c \in Components : Regs[c] # {}
ASSUME GroupsAssumption ==
  /\ Groups \subseteq Seq(Registers)
  /\ \A g \in Groups : /\ Len(g) \in 1..MaxGroup
                       /\ \E c \in Components : ToSet(g) \subseteq Regs[c]

(* _selected() takes keys of the configured components only.               *)
ASSUME SelectionsAssumption == Selections \subseteq SUBSET Components
ASSUME FaultsAssumption == Faults \subseteq Outcomes \ {"ok"}

VARIABLES version,  \* the controller's registers
          cache,    \* the components' values, register by register
          read,     \* components with a last_updated
          failing,  \* components with a last_error
          job       \* the call of the client each task is in

componentVars == <<cache, read, failing>>
clientVars == <<version, cache, read, failing, job>>
allVars == <<vars, clientVars>>

(* Locals of update(): the components asked for, the reads still to make   *)
(* by their place in the plan, the readings so far and the components      *)
(* given up.  Two history fields:                                          *)
(* what the registers were when it began, and whether no other call has    *)
(* been in progress at any time since.                                     *)
(* Locals of write_many(): the group, and the version each write produced. *)
(* Between two calls, how the last one ended.                              *)
Ended(how) == [kind |-> "none", how |-> how]
Returned == Ended("returned")
Raised == Ended("raised")
Refresh(wanted, alone) ==
  [kind |-> "update", wanted |-> wanted,
   todo |-> {i \in DOMAIN ReadPlan : ReadPlan[i].components \cap wanted # {}},
   readings |-> <<>>, failed |-> {}, since |-> version, alone |-> alone]
Writing(group, alone) ==
  [kind |-> "write", group |-> group, taken |-> <<>>, alone |-> alone]

ClientInit ==
  /\ Init
  /\ version = [r \in Registers |-> 1]
  /\ cache = [r \in Registers |-> 0]
  /\ read = {}
  /\ failing = {}
  /\ job = [t \in Tasks |-> Returned]

ConnectCall == [op |-> "connect", n |-> 1]
ReadCall == [op |-> "read", n |-> 1]
WriteCall(group) == [op |-> "write", n |-> Len(group)]

InNoCall(t) == job[t].kind = "none"
Updating(t) == job[t].kind = "update"
InWrite(t) == job[t].kind = "write"
Changes == MapThenSumSet(LAMBDA r : version[r] - 1, Registers)
Alone == \A t \in Tasks : InNoCall(t)

-----------------------------------------------------------------------------
(* Every call connects first.  What it asks once there is a connection:    *)
(* a refresh of nothing, which stands for connect() too, asks nothing.     *)
FirstCall(j) == IF j.kind = "write" THEN WriteCall(j.group)
                ELSE IF j.todo = {} THEN NoCall ELSE ReadCall

BeginJob(t, j) ==
  /\ InNoCall(t)
  /\ Begin(t, IF Connected THEN FirstCall(j) ELSE ConnectCall)
  /\ job' = [u \in Tasks |-> IF u = t THEN j
                             ELSE IF InNoCall(u) THEN job[u]
                             ELSE [job[u] EXCEPT !.alone = FALSE]]
  /\ UNCHANGED <<version, componentVars>>

BeginUpdate(t, wanted) == BeginJob(t, Refresh(wanted, Alone))

(* write_many() past its checks: a value it refuses changes nothing.       *)
BeginWrite(t, group) == Changes < MaxChanges /\ BeginJob(t, Writing(group, Alone))

(* connect() is over, and the same segment goes on to the first request.   *)
Connects(t) ==
  /\ ~ InNoCall(t)
  /\ \/ AlreadyOpen(t, FirstCall(job[t]))
     \/ ConnectReturns(t, "ok", FirstCall(job[t]))
  /\ job' = [job EXCEPT ![t] = IF FirstCall(@) = NoCall THEN Returned ELSE @]
  /\ UNCHANGED <<version, componentVars>>

(* The call raises: the components are left as they were.                  *)
Raises(t) == job' = [job EXCEPT ![t] = Raised] /\ UNCHANGED componentVars

ConnectFails(t) ==
  /\ \E outcome \in Faults : ConnectReturns(t, outcome, NoCall)
  /\ Raises(t)
  /\ UNCHANGED version

-----------------------------------------------------------------------------
(* Decoding every wanted component, and blanking the failed ones.          *)
PublishAll(t, readings, failed) ==
  /\ cache' = [r \in Registers |-> IF r \in DOMAIN readings THEN readings[r] ELSE cache[r]]
  /\ read' = read \cup job[t].wanted
  /\ failing' = failing \ job[t].wanted
  /\ job' = [job EXCEPT ![t] = Returned]
PublishBlanking(t, readings, failed) ==
  LET lost == UNION {Regs[c] : c \in failed}
      fresh == DOMAIN readings \cap UNION {Regs[c] : c \in job[t].wanted \ failed}
  IN /\ cache' = [r \in Registers |-> IF r \in lost THEN 0
                                      ELSE IF r \in fresh THEN readings[r] ELSE cache[r]]
     /\ read' = read \cup (job[t].wanted \ failed)
     /\ failing' = (failing \ job[t].wanted) \cup failed
     /\ job' = [job EXCEPT ![t] = Returned]

(* The end of update(): decode_readings() for the components that were     *)
(* read, mark_failed() for the others, which keep their last values.  No   *)
(* await separates this from the last answer.                              *)
Publish(t, readings, failed) ==
  LET served == job[t].wanted \ failed
      fresh == DOMAIN readings \cap UNION {Regs[c] : c \in served}
  IN /\ cache' = [r \in Registers |-> IF r \in fresh THEN readings[r] ELSE cache[r]]
     /\ read' = read \cup served
     /\ failing' = (failing \ served) \cup failed
     /\ job' = [job EXCEPT ![t] = Returned]

(* The slice a refresh is reading, and those it has to read after it.      *)
Slice(t) == ReadPlan[Min(job[t].todo)]
Later(t) == job[t].todo \ {Min(job[t].todo)}

(* The read of a slice is over, and the next one starts or there is none.  *)
SliceDone(t, outcome, readings, failed) ==
  /\ Updating(t)
  /\ UNCHANGED version
  /\ \/ /\ ReadReturns(t, outcome, NoCall)
        /\ Later(t) = {}
        /\ Publish(t, readings, failed)
     \/ /\ ReadReturns(t, outcome, ReadCall)
        /\ Later(t) # {}
        /\ job' = [job EXCEPT ![t].todo = Later(t), ![t].readings = readings,
                              ![t].failed = failed]
        /\ UNCHANGED componentVars

(* readings.update(): what the answer brings replaces what was there.      *)
Caught(t) == [r \in Slice(t).regs \cup DOMAIN job[t].readings |->
                IF r \in Slice(t).regs THEN version[r] ELSE job[t].readings[r]]
SliceAnswered(t) == SliceDone(t, "ok", Caught(t), job[t].failed)

(* Blame on all the components asked for, and a refused slice asked for    *)
(* again.                                                                  *)
SliceRefusedBlamesAll(t, outcome) ==
  /\ outcome \in Faults \ ConnectionErrors
  /\ SliceDone(t, outcome, job[t].readings, job[t].wanted)
SliceRefusedRetries(t, outcome) ==
  /\ Updating(t)
  /\ outcome \in Faults \ ConnectionErrors
  /\ ReadReturns(t, outcome, ReadCall)
  /\ UNCHANGED clientVars

SliceRefused(t, outcome) ==
  /\ outcome \in Faults \ ConnectionErrors
  /\ SliceDone(t, outcome, job[t].readings,
               job[t].failed \cup (Slice(t).components \cap job[t].wanted))

(* A lost connection reported as the rest of the plan having gone quiet.   *)
SliceLostBlames(t, outcome) ==
  /\ Updating(t)
  /\ outcome \in Faults \cap ConnectionErrors
  /\ ReadReturns(t, outcome, NoCall)
  /\ failing' = failing \cup job[t].wanted
  /\ job' = [job EXCEPT ![t] = Raised]
  /\ UNCHANGED <<version, cache, read>>

(* "Not a statement about any component": the whole refresh raises.        *)
SliceLost(t, outcome) ==
  /\ Updating(t)
  /\ outcome \in Faults \cap ConnectionErrors
  /\ ReadReturns(t, outcome, NoCall)
  /\ Raises(t)
  /\ UNCHANGED version

-----------------------------------------------------------------------------
Target(t) == job[t].group[Len(job[t].taken) + 1]
Change(r) == version' = [version EXCEPT ![r] = @ + 1]

WriteTaken(t) ==
  /\ InWrite(t)
  /\ WriteAdvances(t)
  /\ Change(Target(t))
  /\ job' = [job EXCEPT ![t].taken = Append(@, version[Target(t)] + 1)]
  /\ UNCHANGED componentVars

(* The last write of the group is taken: the component reports the values  *)
(* without waiting for the next poll.                                      *)
GroupTaken(t) ==
  /\ InWrite(t)
  /\ WriteReturns(t, "ok", NoCall)
  /\ Change(Target(t))
  /\ LET group == job[t].group
         taken == Append(job[t].taken, version[Target(t)] + 1)
     IN cache' = [r \in Registers |->
          IF r \in ToSet(group) THEN taken[CHOOSE i \in DOMAIN group : group[i] = r]
          ELSE cache[r]]
  /\ job' = [job EXCEPT ![t] = Returned]
  /\ UNCHANGED <<read, failing>>

(* A write that was not refused may have been taken all the same.          *)
Unanswered(t) == UNCHANGED version \/ Change(Target(t))

WriteFails(t, outcome) ==
  /\ InWrite(t)
  /\ outcome \in Faults
  /\ WriteReturns(t, outcome, NoCall)
  /\ IF outcome = "refused" THEN UNCHANGED version ELSE Unanswered(t)
  /\ Raises(t)

-----------------------------------------------------------------------------
IsGranted(t) == Granted(t) /\ UNCHANGED clientVars

(* The caller cancels the task, or its own timeout does.                   *)
Cancelled(t) ==
  /\ "dropped" \in Faults
  /\ Cancel(t)
  /\ IF Asking(t, "write") THEN Unanswered(t) ELSE UNCHANGED version
  /\ Raises(t)

Disconnects(t) == "dropped" \in Faults /\ Disconnect(t) /\ UNCHANGED clientVars
ConnectionDrops == "dropped" \in Faults /\ Drop /\ UNCHANGED clientVars

(* The controller, or its owner at the panel, changes a register.          *)
OwnChange(r) ==
  /\ OwnChanges /\ Changes < MaxChanges
  /\ Change(r)
  /\ UNCHANGED <<vars, componentVars, job>>

Progress(t) == \/ IsGranted(t) \/ Connects(t) \/ ConnectFails(t)
               \/ SliceAnswered(t) \/ WriteTaken(t) \/ GroupTaken(t)
               \/ \E outcome \in Faults : \/ SliceRefused(t, outcome)
                                          \/ SliceLost(t, outcome)
                                          \/ WriteFails(t, outcome)

ClientNext ==
  \/ ConnectionDrops
  \/ \E r \in Registers : OwnChange(r)
  \/ \E t \in Tasks : \/ Progress(t) \/ Cancelled(t) \/ Disconnects(t)
                      \/ \E wanted \in Selections : BeginUpdate(t, wanted)
                      \/ \E group \in Groups : BeginWrite(t, group)

ClientSpec == ClientInit /\ [][ClientNext]_allVars

(* The event loop runs every ready task and every request is bounded by    *)
(* the timeout, as in Transport.                                           *)
ClientFairSpec == ClientSpec /\ \A t \in Tasks : WF_allVars(Progress(t))

-----------------------------------------------------------------------------
Versions == [Registers -> Nat]
Refreshes(caught) ==
  [kind : {"update"}, wanted : SUBSET Components, todo : SUBSET DOMAIN ReadPlan,
   readings : [caught -> Nat], failed : SUBSET Components, since : Versions,
   alone : BOOLEAN]
Writings == [kind : {"write"}, group : Groups, taken : Seq(Nat), alone : BOOLEAN]
ClientTypeOK ==
  /\ TypeOK
  /\ version \in Versions /\ cache \in Versions
  /\ read \subseteq Components /\ failing \subseteq Components
  /\ job = [t \in Tasks |-> job[t]]
  /\ \A t \in Tasks : \/ job[t] \in {Returned, Raised} \cup Writings
                      \/ \E caught \in SUBSET Registers : job[t] \in Refreshes(caught)

(* client.py:138-144: a failed read is attributed to the components whose  *)
(* registers were in it, and to those that were asked for only.  At every  *)
(* suspension of a refresh the components it has given up are exactly the  *)
(* wanted ones with a register that was neither read nor is still to be.   *)
ToRead(t) == UNION {ReadPlan[i].regs : i \in job[t].todo}
FailedExactly == \A t \in Tasks : Updating(t) =>
  job[t].failed = {c \in job[t].wanted :
                     ~ (Regs[c] \subseteq DOMAIN job[t].readings \cup ToRead(t))}

(* The call of t returns, rather than raise or be cancelled.               *)
Returning(t) == ~ InNoCall(t) /\ job'[t] = Returned
Published(t) == Updating(t) /\ Returning(t)

(* client.py:172-176: whatever was written, refreshed or changed meanwhile,*)
(* a component a refresh reports as read shows every one of its registers  *)
(* as it was when the refresh began or later, and is available after it.   *)
ShowsSince(t) == \A c \in job[t].wanted \ failing' :
  /\ c \in read'
  /\ \A r \in Regs[c] : cache'[r] >= job[t].since[r]
AllFresh == \A t \in Tasks : Published(t) => ShowsSince(t)
RefreshIsFresh == [][AllFresh]_allVars

Untouched(c) == /\ c \in read' <=> c \in read
                /\ c \in failing' <=> c \in failing
                /\ \A r \in Regs[c] : cache'[r] = cache[r]

(* client.py:134-144: only a refresh that got through its whole plan, and  *)
(* a write whose whole group was taken, change what the components say: no *)
(* lost connection, refused write or cancellation does, half way or not.   *)
(* A refresh touches the components it was asked for and no others, though *)
(* its reads carry registers of others too.                                *)
AskedAlone ==
  \/ componentVars' = componentVars
  \/ \E t \in Tasks :
       /\ Returning(t)
       /\ Updating(t) => \A c \in Components \ job[t].wanted : Untouched(c)
OnlyTheAskedChange == [][AskedAlone]_allVars

(* What an acknowledged write or a refresh left in a component goes back   *)
(* to an earlier content of the register only when calls overlap: a caller *)
(* that awaits one call before the next never sees time run backwards.     *)
BackByOverlap == \A r \in Registers :
  cache'[r] < cache[r] => \E t \in Tasks : Published(t) /\ ~ job[t].alone
OnlyOverlapGoesBack == [][BackByOverlap]_allVars

(* base.py:239-248, transport.py:107-109: no read of ours is on the wire   *)
(* between two parts of a group, by whatever task and however calls are    *)
(* cancelled or cut off; so what one read covers of a group shows whole.   *)
NoPollInsideGroup == \A t, u \in Tasks :
  Asking(t, "read") /\ InWrite(u) => job[u].taken = <<>>

(* Why these hold.  What a task waits for in the transport is what its job *)
(* says it does next; a group is half written only by the holder of the    *)
(* lock; a refresh reads no register twice; nothing a component shows, a   *)
(* refresh has caught or a write produced is newer than the controller.    *)
RestOfGroup(j) == [op |-> "write", n |-> Len(j.group) - Len(j.taken)]
JobInv == \A t \in Tasks :
  /\ InNoCall(t) <=> at[t] = "idle"
  /\ Updating(t) =>
       \/ call[t] = ConnectCall /\ DOMAIN job[t].readings = {} /\ job[t].failed = {}
       \/ call[t] = ReadCall /\ job[t].todo # {}
  /\ InWrite(t) =>
       \/ call[t] = ConnectCall /\ job[t].taken = <<>>
       \/ /\ call[t] = RestOfGroup(job[t])
          /\ Len(job[t].taken) < Len(job[t].group)
          /\ job[t].taken # <<>> => at[t] = "wire"
ReadOnce == \A t \in Tasks : Updating(t) =>
  /\ job[t].failed \subseteq job[t].wanted
  /\ DOMAIN job[t].readings \cap ToRead(t) = {}
NothingAhead ==
  /\ \A r \in Registers : cache[r] <= version[r]
  /\ \A t \in Tasks : Updating(t) =>
       /\ \A r \in Registers : job[t].since[r] <= version[r]
       /\ \A r \in DOMAIN job[t].readings :
            job[t].since[r] <= job[t].readings[r] /\ job[t].readings[r] <= version[r]
  /\ \A t \in Tasks : InWrite(t) => \A i \in DOMAIN job[t].taken :
       /\ cache[job[t].group[i]] <= job[t].taken[i]
       /\ job[t].taken[i] <= version[job[t].group[i]]
AloneInv == \A t \in Tasks : Updating(t) /\ job[t].alone =>
  /\ \A u \in Tasks \ {t} : InNoCall(u)
  /\ \A r \in Registers : cache[r] <= job[t].since[r]
ClientInv == /\ ClientTypeOK /\ IInv
             /\ JobInv /\ ReadOnce /\ FailedExactly /\ NothingAhead /\ AloneInv

(* The two below are stated for an environment without faults, in which    *)
(* registers change by our writes only.                                    *)

(* base.py:240-247: a group is written "without a poll getting in between",*)
(* "atomic against everything this library does", so no refresh reports    *)
(* one part of it from before the write and another from after.            *)
GroupsShowWhole == \A g \in Groups : \A r, s \in ToSet(g) : cache[r] = cache[s]

(* README.md:89-90: a successful write updates the component's own cache,  *)
(* so the new value is readable straight away without re-reading anything: *)
(* when no write is in progress the component has what was last written.   *)
WrittenIsReadable == \A r \in Registers :
  (version[r] > 1 /\ \A t \in Tasks : InWrite(t) => r \notin ToSet(job[t].group))
    => cache[r] = version[r]

(* A call of the client returns, raises or is cancelled, even if the other *)
(* tasks never stop calling and the connection never stops dropping.       *)
EveryCallEnds == \A t \in Tasks : ~ InNoCall(t) ~> InNoCall(t)
=============================================================================
