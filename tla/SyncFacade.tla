------------------------------ MODULE SyncFacade ------------------------------
(***************************************************************************)
(* The blocking front of aiosolarfocus (sync.py): threads hand coroutines  *)
(* to an event loop on a thread of its own and wait for the results, until *)
(* one of them closes the facade.                                          *)
(*                                                                         *)
(* Threads may be switched between any two statements.  run() looks at     *)
(* `_closed`, hands its coroutine over and waits; close() is a run() of    *)
(* disconnect() followed by the four statements of its `finally`.  What a  *)
(* coroutine does on the loop is Client's: here it starts and it ends.     *)
(***************************************************************************)
EXTENDS Naturals

CONSTANTS Threads,       \* the threads that hold the facade
          Closers,       \* those that may call close()
          Interruptible  \* those a KeyboardInterrupt can reach: the main thread

ASSUME ClosersAssumption == Closers \subseteq Threads
ASSUME InterruptibleAssumption == Interruptible \subseteq Threads

VARIABLES closed,  \* self._closed
          loop,    \* the loop: "running", told to stop, stopped or closed
          op,      \* what each thread is in: run() or close()
          pc,      \* where in it
          task     \* the coroutine each thread waits for, on the loop

vars == <<closed, loop, op, pc, task>>

(* The facade is built: __init__ has set `_closed` and returned.           *)
Init == /\ closed = FALSE
        /\ loop = "running"
        /\ op = [t \in Threads |-> "none"]
        /\ pc = [t \in Threads |-> "idle"]
        /\ task = [t \in Threads |-> "none"]

Goes(t, place) == pc' = [pc EXCEPT ![t] = place]
Leaves(t) == Goes(t, "idle") /\ op' = [op EXCEPT ![t] = "none"]
Calls(t, what) == pc[t] = "idle" /\ Goes(t, "check") /\ op' = [op EXCEPT ![t] = what]

(* A run() that closes the facade itself when it is over.                  *)
RunOverCloses(t) == Goes(t, "flag") /\ UNCHANGED op

(* run() is over, by return or raise; in close() the `finally` follows.    *)
RunOver(t) == IF op[t] = "close" THEN Goes(t, "flag") /\ UNCHANGED op ELSE Leaves(t)

Run(t) == Calls(t, "run") /\ UNCHANGED <<closed, loop, task>>

(* A second close() returns at once.                                       *)
Close(t) == t \in Closers /\ ~ closed /\ Calls(t, "close") /\ UNCHANGED <<closed, loop, task>>

Refused(t) == pc[t] = "check" /\ closed /\ RunOver(t) /\ UNCHANGED <<closed, loop, task>>
Accepted(t) == pc[t] = "check" /\ ~ closed /\ Goes(t, "hand") /\ UNCHANGED <<closed, loop, op, task>>

(* Handed over without waking the loop, which then never looks.            *)
HandOverUnnoticed(t) == /\ pc[t] = "hand" /\ loop # "closed"
                        /\ Goes(t, "wait")
                        /\ UNCHANGED <<closed, loop, op, task>>

(* run_coroutine_threadsafe().  The loop takes callbacks in order: before  *)
(* it ends it starts what came before the stop, and what came later only   *)
(* if it came in time.                                                     *)
HandOver(t) == /\ pc[t] = "hand" /\ loop # "closed"
               /\ task' = [task EXCEPT ![t] = IF loop = "running" THEN "queued" ELSE "late"]
               /\ Goes(t, "wait")
               /\ UNCHANGED <<closed, loop, op>>

(* A closed loop raises.                                                   *)
NotHandedOver(t) == pc[t] = "hand" /\ loop = "closed" /\ RunOver(t) /\ UNCHANGED <<closed, loop, task>>

Result(t) == /\ pc[t] = "wait" /\ task[t] = "done"
             /\ task' = [task EXCEPT ![t] = "none"]
             /\ RunOver(t)
             /\ UNCHANGED <<closed, loop>>

(* Ctrl-C ends the wait for the result, and the coroutine goes on with     *)
(* nobody waiting for it; or it ends the wait for the thread, and close(). *)
Interrupted(t) == /\ t \in Interruptible
                  /\ \/ pc[t] = "wait" /\ RunOver(t)
                     \/ pc[t] = "join" /\ Leaves(t)
                  /\ task' = [task EXCEPT ![t] = "none"]
                  /\ UNCHANGED <<closed, loop>>

-----------------------------------------------------------------------------
(* The flag after the stop.                                                *)
FlagLast(t) == /\ pc[t] = "flag"
               /\ loop' = IF loop = "running" THEN "stopping" ELSE loop
               /\ Goes(t, "stop")
               /\ UNCHANGED <<closed, op, task>>

Flag(t) == /\ pc[t] = "flag" /\ closed' = TRUE
           /\ Goes(t, "stop")
           /\ UNCHANGED <<loop, op, task>>

(* loop.stop() called from here does not wake the loop.                    *)
StopUnnoticed(t) == /\ pc[t] = "stop" /\ loop # "closed"
                    /\ Goes(t, "join")
                    /\ UNCHANGED <<closed, loop, op, task>>

Stop(t) == /\ pc[t] = "stop" /\ loop # "closed"
           /\ loop' = IF loop = "running" THEN "stopping" ELSE loop
           /\ Goes(t, "join")
           /\ UNCHANGED <<closed, op, task>>

(* call_soon_threadsafe() on a loop another thread has closed raises.      *)
StopTooLate(t) == pc[t] = "stop" /\ loop = "closed" /\ Leaves(t) /\ UNCHANGED <<closed, loop, task>>

(* The loop thread is over, or five seconds are and it is not.             *)
Joined(t) == /\ pc[t] = "join"
             /\ Goes(t, "free")
             /\ UNCHANGED <<closed, loop, op, task>>

(* loop.close() raises while the loop is running.                          *)
Free(t) == /\ pc[t] = "free"
           /\ loop' = IF loop = "stopped" THEN "closed" ELSE loop
           /\ Leaves(t)
           /\ UNCHANGED <<closed, task>>

-----------------------------------------------------------------------------
Serving == loop \in {"running", "stopping"}

Starts(t) == /\ Serving /\ task[t] \in {"queued", "late"}
             /\ task' = [task EXCEPT ![t] = "started"]
             /\ UNCHANGED <<closed, loop, op, pc>>

Ends(t) == /\ Serving /\ task[t] = "started"
           /\ task' = [task EXCEPT ![t] = "done"]
           /\ UNCHANGED <<closed, loop, op, pc>>

LoopEnds == /\ loop = "stopping"
            /\ \A t \in Threads : task[t] # "queued"
            /\ loop' = "stopped"
            /\ UNCHANGED <<closed, op, pc, task>>

Turn(t) == \/ Refused(t) \/ Accepted(t) \/ HandOver(t) \/ NotHandedOver(t) \/ Result(t)
           \/ Flag(t) \/ Stop(t) \/ StopTooLate(t) \/ Joined(t) \/ Free(t)
Served(t) == Starts(t) \/ Ends(t)

Next == \/ LoopEnds
        \/ \E t \in Threads : Run(t) \/ Close(t) \/ Interrupted(t) \/ Turn(t) \/ Served(t)

(* Threads are scheduled, a loop that serves runs what is ready, and every *)
(* coroutine of the client ends (EveryCallEnds of Client).                 *)
Spec == /\ Init /\ [][Next]_vars
        /\ WF_vars(LoopEnds)
        /\ \A t \in Threads : WF_vars(Turn(t)) /\ WF_vars(Served(t))

-----------------------------------------------------------------------------
TypeOK == /\ closed \in BOOLEAN
          /\ loop \in {"running", "stopping", "stopped", "closed"}
          /\ op \in [Threads -> {"none", "run", "close"}]
          /\ pc \in [Threads -> {"idle", "check", "hand", "wait", "flag", "stop", "join", "free"}]
          /\ task \in [Threads -> {"none", "queued", "late", "started", "done"}]
          /\ \A t \in Threads : /\ op[t] = "none" <=> pc[t] = "idle"
                                /\ pc[t] \in {"flag", "stop", "join", "free"} => op[t] = "close"
                                /\ task[t] # "none" => pc[t] = "wait"

(* sync.py:63-68, 94-95: a call that begins when the loop has been told to *)
(* stop is refused, and never waits for a loop that will not answer.       *)
NoneLate == \A t \in Threads :
  pc[t] = "check" /\ loop # "running" => pc'[t] # "hand"
LateCallsRefused == [][NoneLate]_vars

(* Why.  Nothing past the flag is done before the flag is set, by whatever *)
(* thread, so a loop that is not running is known to be closed; and until  *)
(* then whoever waits has a coroutine that the loop will start.            *)
FlagFirst == /\ loop # "running" => closed
             /\ \A t \in Threads : pc[t] \in {"stop", "join", "free"} => closed
WaitInv == \A t \in Threads : pc[t] = "wait" =>
  task[t] # "none" /\ (task[t] = "late" => closed)
SyncInv == TypeOK /\ FlagFirst /\ WaitInv

(* sync.py:57-69: who waits is answered, unless the facade gets closed.    *)
AnsweredWhileOpen == \A t \in Threads :
  pc[t] = "wait" ~> (pc[t] # "wait" \/ closed)

(* sync.py:26-46, 92-97: once closed the loop thread ends, whatever        *)
(* happened to the disconnect and to the wait for the thread.              *)
LoopThreadEnds == closed ~> loop \in {"stopped", "closed"}

(* tests/test_sync.py:57: "a closed client says so rather than hanging".   *)
ClosedSaysSo == \A t \in Threads : (closed /\ pc[t] = "wait") ~> pc[t] # "wait"
=============================================================================
