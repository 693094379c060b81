--------------------------- MODULE SyncFacadeProofs ---------------------------
(***************************************************************************)
(* TLAPS proofs about SyncFacade, for any threads, closers and threads     *)
(* that can be interrupted: what the order of the statements in close()    *)
(* and run() guarantees, whichever thread is switched to after each.       *)
(***************************************************************************)
EXTENDS SyncFacade, TLAPS

LEMMA InitSyncInv == Init => SyncInv
BY DEF Init, SyncInv, TypeOK, FlagFirst, WaitInv

(* Where a thread goes when its run() is over, and nobody else moves.      *)
LEMMA RunOverMoves ==
  ASSUME TypeOK, NEW t \in Threads, RunOver(t), pc[t] # "idle"
  PROVE  /\ op' \in [Threads -> {"none", "run", "close"}]
         /\ pc' \in [Threads -> {"idle", "check", "hand", "wait", "flag", "stop", "join", "free"}]
         /\ \/ pc'[t] = "idle" /\ op'[t] = "none"
            \/ pc'[t] = "flag" /\ op'[t] = "close"
         /\ \A u \in Threads \ {t} : pc'[u] = pc[u] /\ op'[u] = op[u]
BY DEF TypeOK, RunOver, Goes, Leaves

(* A step of the thread t, or of the loop for it, keeps what holds of the  *)
(* others; so what is left is what holds of t.                             *)
LEMMA OneThreadMoves ==
  ASSUME SyncInv, NEW t \in Threads,
         closed' \in BOOLEAN, closed => closed',
         loop' \in {"running", "stopping", "stopped", "closed"},
         loop' # "running" => closed',
         op' \in [Threads -> {"none", "run", "close"}],
         pc' \in [Threads -> {"idle", "check", "hand", "wait", "flag", "stop", "join", "free"}],
         task' \in [Threads -> {"none", "queued", "late", "started", "done"}],
         \A u \in Threads \ {t} : pc'[u] = pc[u] /\ op'[u] = op[u] /\ task'[u] = task[u],
         op'[t] = "none" <=> pc'[t] = "idle",
         pc'[t] \in {"flag", "stop", "join", "free"} => op'[t] = "close",
         task'[t] # "none" <=> pc'[t] = "wait",
         pc'[t] \in {"stop", "join", "free"} => closed',
         task'[t] = "late" => closed'
  PROVE  SyncInv'
<1>1. TypeOK'
  BY DEF SyncInv, TypeOK
<1>2. FlagFirst'
  BY DEF SyncInv, FlagFirst
<1>3. WaitInv'
  BY DEF SyncInv, WaitInv
<1> QED
  BY <1>1, <1>2, <1>3 DEF SyncInv

LEMMA CallKeeps ==
  ASSUME SyncInv, NEW t \in Threads,
         Run(t) \/ Close(t) \/ Refused(t) \/ Accepted(t) \/ HandOver(t) \/ NotHandedOver(t)
         \/ Result(t) \/ Interrupted(t)
  PROVE  SyncInv'
<1> USE DEF SyncInv, TypeOK, FlagFirst, WaitInv
<1>1. CASE Run(t) \/ Close(t)
  BY <1>1, OneThreadMoves DEF Run, Close, Calls, Goes
<1>2. CASE Refused(t) \/ NotHandedOver(t)
  BY <1>2, OneThreadMoves, RunOverMoves DEF Refused, NotHandedOver
<1>3. CASE Accepted(t) \/ HandOver(t)
  BY <1>3, OneThreadMoves DEF Accepted, HandOver, Goes
<1>4. CASE Result(t)
  BY <1>4, OneThreadMoves, RunOverMoves DEF Result
<1>5. CASE Interrupted(t)
  BY <1>5, OneThreadMoves, RunOverMoves DEF Interrupted, Leaves, Goes
<1> QED
  BY <1>1, <1>2, <1>3, <1>4, <1>5

LEMMA FinallyKeeps ==
  ASSUME SyncInv, NEW t \in Threads,
         Flag(t) \/ Stop(t) \/ StopTooLate(t) \/ Joined(t) \/ Free(t)
  PROVE  SyncInv'
<1> USE DEF SyncInv, TypeOK, FlagFirst, WaitInv, Goes, Leaves
<1>1. CASE Flag(t)
  BY <1>1, OneThreadMoves DEF Flag
<1>2. CASE Stop(t) \/ StopTooLate(t)
  BY <1>2, OneThreadMoves DEF Stop, StopTooLate
<1>3. CASE Joined(t) \/ Free(t)
  BY <1>3, OneThreadMoves DEF Joined, Free
<1> QED
  BY <1>1, <1>2, <1>3

LEMMA LoopKeeps ==
  ASSUME SyncInv, LoopEnds \/ \E t \in Threads : Served(t)
  PROVE  SyncInv'
<1> USE DEF SyncInv, TypeOK, FlagFirst, WaitInv
<1>1. CASE LoopEnds
  BY <1>1 DEF LoopEnds
<1>2. ASSUME NEW t \in Threads, Served(t) PROVE SyncInv'
  BY <1>2, OneThreadMoves DEF Served, Starts, Ends
<1> QED
  BY <1>1, <1>2

LEMMA StepSyncInv == SyncInv /\ [Next]_vars => SyncInv'
<1> SUFFICES ASSUME SyncInv, [Next]_vars PROVE SyncInv'
  OBVIOUS
<1>1. CASE UNCHANGED vars
  BY <1>1 DEF vars, SyncInv, TypeOK, FlagFirst, WaitInv
<1>2. CASE Next
  BY <1>2, CallKeeps, FinallyKeeps, LoopKeeps DEF Next, Turn
<1> QED
  BY <1>1, <1>2

(* sync.py:57-97: nothing that close() does to the loop is done before     *)
(* `_closed` says so, and every thread that waits has its coroutine with   *)
(* a loop that has not been told to stop, or knows of the closing.         *)
THEOREM Invariance == Spec => []SyncInv
<1> QED
  BY InitSyncInv, StepSyncInv, PTL DEF Spec

(* Only a call that finds the facade open goes on to hand its coroutine    *)
(* over; every other step that leaves the place leads elsewhere.           *)
LEMMA NotOnceClosed ==
  ASSUME SyncInv, Next, NEW t \in Threads, pc[t] = "check", closed
  PROVE  pc'[t] # "hand"
<1> USE DEF SyncInv, TypeOK
<1>1. CASE LoopEnds
  BY <1>1 DEF LoopEnds
<1>2. ASSUME NEW u \in Threads, Run(u) \/ Close(u) \/ HandOver(u) \/ Served(u)
      PROVE  pc'[t] # "hand"
  BY <1>2 DEF Run, Close, Calls, HandOver, Served, Starts, Ends, Goes
<1>3. ASSUME NEW u \in Threads,
             Refused(u) \/ Accepted(u) \/ NotHandedOver(u) \/ Result(u)
      PROVE  pc'[t] # "hand"
  <2>1. CASE Accepted(u)
    BY <2>1 DEF Accepted
  <2>2. CASE Refused(u) \/ NotHandedOver(u) \/ Result(u)
    BY <2>2, RunOverMoves DEF Refused, NotHandedOver, Result
  <2> QED
    BY <1>3, <2>1, <2>2
<1>4. ASSUME NEW u \in Threads, Interrupted(u) PROVE pc'[t] # "hand"
  <2>1. CASE pc[u] = "wait" /\ RunOver(u)
    BY <2>1, RunOverMoves
  <2>2. CASE pc[u] = "join" /\ Leaves(u)
    BY <2>2 DEF Leaves, Goes
  <2> QED
    BY <1>4, <2>1, <2>2 DEF Interrupted
<1>5. ASSUME NEW u \in Threads, Flag(u) \/ Stop(u) \/ StopTooLate(u) \/ Joined(u) \/ Free(u)
      PROVE  pc'[t] # "hand"
  BY <1>5 DEF Flag, Stop, StopTooLate, Joined, Free, Goes, Leaves
<1> QED
  BY <1>1, <1>2, <1>3, <1>4, <1>5 DEF Next, Turn

(* sync.py:63-68, 94-95: a call that begins after the loop was told to     *)
(* stop is refused.                                                        *)
THEOREM RefusedWhenStopping == Spec => LateCallsRefused
<1>1. SyncInv /\ [Next]_vars => [NoneLate]_vars
  <2>1. ASSUME SyncInv, Next, NEW t \in Threads, pc[t] = "check", loop # "running"
        PROVE  pc'[t] # "hand"
    BY <2>1, NotOnceClosed DEF SyncInv, FlagFirst
  <2> QED
    BY <2>1 DEF NoneLate
<1> QED
  BY <1>1, Invariance, PTL DEF Spec, LateCallsRefused
=============================================================================
