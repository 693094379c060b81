------------------------------ MODULE Transport ------------------------------
(***************************************************************************)
(* The Modbus transport of aiosolarfocus (transport.py): one socket to one *)
(* controller, shared by every asyncio task that holds the client.         *)
(*                                                                         *)
(* A coroutine runs without interruption from one suspension point to the  *)
(* next, so a step here is such a segment.  A task can be suspended only   *)
(* waiting for the lock or waiting for an answer ("wire").  The segment    *)
(* that ends a call runs on into whatever the task does next, which may be *)
(* its next call: every action that ends a call therefore takes the call   *)
(* `next` the task makes in the same breath, or NoCall.                    *)
(*                                                                         *)
(* asyncio.Lock is modelled as its queue.  Its head is the holder, or the  *)
(* waiter a release has woken and that has not run yet; either way a       *)
(* newcomer goes to the back.  An empty queue is a free lock, and a free   *)
(* lock is taken without suspending.                                       *)
(***************************************************************************)
EXTENDS Naturals, Sequences, SequencesExt

CONSTANTS Tasks,      \* the asyncio tasks that use the client
          Sockets,    \* TCP connections the operating system can hand out
          NoSocket,   \* the value of `current` when there is none
          MaxGroup    \* longest group of writes passed to write()

ASSUME NoSocketAssumption == NoSocket \notin Sockets
ASSUME MaxGroupAssumption == MaxGroup \in Nat \ {0}

(* A call is the operation and how many requests it still has to make.     *)
Calls == [op : {"connect", "read"}, n : {1}] \cup [op : {"write"}, n : 1..MaxGroup]
NoCall == [op |-> "none", n |-> 0]

(* How one request ends.  A refusal is a Modbus exception response, a      *)
(* malformed answer is one that is not the answer to the question; neither *)
(* says anything about the socket.  The other two are the two              *)
(* SolarfocusConnectionErrors.                                             *)
Answers == {"ok", "refused", "malformed"}
ConnectionErrors == {"timeout", "dropped"}
Outcomes == Answers \cup ConnectionErrors

VARIABLES current,  \* the socket the pymodbus client holds, or NoSocket
          open,     \* every socket of this process the controller still holds
          queue,    \* the lock: holder first, then the waiters in order
          at,       \* where each task is suspended: "idle", "lock" or "wire"
          call      \* the call each task is in

vars == <<current, open, queue, at, call>>

Init == /\ current = NoSocket
        /\ open = {}
        /\ queue = <<>>
        /\ at = [t \in Tasks |-> "idle"]
        /\ call = [t \in Tasks |-> NoCall]

Connected == current # NoSocket

-----------------------------------------------------------------------------
(* Task t is no longer in a call; the lock is left to `q`.                 *)
Rests(t, q) == /\ queue' = q
               /\ at' = [at EXCEPT ![t] = "idle"]
               /\ call' = [call EXCEPT ![t] = NoCall]

(* Task t makes call `next`: it is in the queue and suspended at `place`.  *)
(* connect() looks at `connected` before it asks for the lock, and a call  *)
(* it answers there and then never suspends, so it is not a `next`.        *)
Enters(t, q, place, next) == /\ next \in Calls
                             /\ next.op = "connect" => current' = NoSocket
                             /\ queue' = q
                             /\ at' = [at EXCEPT ![t] = place]
                             /\ call' = [call EXCEPT ![t] = next]

(* Two ways to get the lock wrong: not to wait for it, and to let whoever  *)
(* comes while it is free barge in before the waiter that was woken.       *)
ProceedUnlocked(t, q, next) ==
  \/ next = NoCall /\ Rests(t, q)
  \/ Enters(t, Append(q, t), "wire", next)
ProceedBarging(t, q, next) ==
  LET unheld == \A u \in Tasks \ {t} : at[u] # "wire"
  IN  \/ next = NoCall /\ Rests(t, q)
      \/ unheld /\ Enters(t, <<t>> \o q, "wire", next)
      \/ ~ unheld /\ Enters(t, Append(q, t), "lock", next)

(* Task t, having left the lock to `q`, makes call `next`, or none.        *)
Proceed(t, q, next) ==
  \/ next = NoCall /\ Rests(t, q)
  \/ Enters(t, Append(q, t), IF q = <<>> THEN "wire" ELSE "lock", next)

(* A task that was not in a call makes one.                                *)
Begin(t, next) ==
  /\ at[t] = "idle"
  /\ next # NoCall
  /\ UNCHANGED <<current, open>>
  /\ Proceed(t, queue, next)

Woken(t) == at[t] = "lock" /\ Head(queue) = t

(* Without the second look at `connected`.                                 *)
GrantedUnchecked(t) ==
  /\ Woken(t)
  /\ at' = [at EXCEPT ![t] = "wire"]
  /\ UNCHANGED <<current, open, queue, call>>

(* A woken waiter holds the lock and sends its first request.              *)
Granted(t) ==
  /\ Woken(t)
  /\ ~ (call[t].op = "connect" /\ Connected)
  /\ at' = [at EXCEPT ![t] = "wire"]
  /\ UNCHANGED <<current, open, queue, call>>

(* A woken connect() finds another task connected while it waited.         *)
AlreadyOpen(t, next) ==
  /\ Woken(t)
  /\ call[t].op = "connect" /\ Connected
  /\ UNCHANGED <<current, open>>
  /\ Proceed(t, Tail(queue), next)

Asking(t, op) == at[t] = "wire" /\ call[t].op = op

(* pymodbus puts the new socket in place; it closes nothing.               *)
ConnectReturns(t, outcome, next) ==
  /\ Asking(t, "connect")
  /\ \/ /\ outcome = "ok"
        /\ \E s \in Sockets \ open :
             /\ current' = s
             /\ open' = open \cup {s}
     \/ /\ outcome \in ConnectionErrors
        /\ UNCHANGED <<current, open>>
  /\ Proceed(t, Tail(queue), next)

(* An answer arrives only on the socket in place.                          *)
Arrives(outcome) == outcome \in Answers => Connected

ReadReturns(t, outcome, next) ==
  /\ Asking(t, "read")
  /\ outcome \in Outcomes /\ Arrives(outcome)
  /\ UNCHANGED <<current, open>>
  /\ Proceed(t, Tail(queue), next)

(* The lock given up between two writes of a group.                        *)
WriteAdvancesYielding(t) ==
  /\ Asking(t, "write")
  /\ call[t].n > 1
  /\ Connected
  /\ Enters(t, Append(Tail(queue), t), IF Tail(queue) = <<>> THEN "wire" ELSE "lock",
            [call[t] EXCEPT !.n = @ - 1])
  /\ UNCHANGED <<current, open>>

(* One request too many for a group.                                       *)
WriteAdvancesTooFar(t) ==
  /\ Asking(t, "write")
  /\ call[t].n > 0
  /\ Connected
  /\ call' = [call EXCEPT ![t].n = @ - 1]
  /\ UNCHANGED <<current, open, queue, at>>

(* One write of a group was taken and the next one goes out, lock held.    *)
WriteAdvances(t) ==
  /\ Asking(t, "write")
  /\ call[t].n > 1
  /\ Connected
  /\ call' = [call EXCEPT ![t].n = @ - 1]
  /\ UNCHANGED <<current, open, queue, at>>

(* The last write of a group was taken, or any of them failed: the rest of *)
(* a failed group is never sent and what went before it stays written.     *)
WriteReturns(t, outcome, next) ==
  /\ Asking(t, "write")
  /\ outcome \in Outcomes /\ Arrives(outcome)
  /\ outcome = "ok" => call[t].n = 1
  /\ UNCHANGED <<current, open>>
  /\ Proceed(t, Tail(queue), next)

(* disconnect() takes no lock and closes the socket in place, whoever is   *)
(* waiting for an answer on it.                                            *)
Close ==
  /\ current' = NoSocket
  /\ open' = open \ {current}
  /\ UNCHANGED <<queue, at, call>>

Disconnect(t) == at[t] = "idle" /\ Connected /\ Close

(* The controller, or the network to it, goes away.                        *)
Drop == Connected /\ Close

(* A task is cancelled where it is suspended: `async with` gives the lock  *)
(* back, a waiter leaves the queue.                                        *)
Cancel(t) ==
  /\ at[t] # "idle"
  /\ \E i \in DOMAIN queue : queue[i] = t /\ queue' = RemoveAt(queue, i)
  /\ at' = [at EXCEPT ![t] = "idle"]
  /\ call' = [call EXCEPT ![t] = NoCall]
  /\ UNCHANGED <<current, open>>

-----------------------------------------------------------------------------
(* One request of t is answered, times out or fails.                       *)
Returns(t, next) ==
  \/ \E outcome \in Outcomes : \/ ConnectReturns(t, outcome, next)
                               \/ ReadReturns(t, outcome, next)
                               \/ WriteReturns(t, outcome, next)
  \/ WriteAdvances(t)

Runs(t, next) == Granted(t) \/ AlreadyOpen(t, next)

Next ==
  \/ Drop
  \/ \E t \in Tasks : Disconnect(t) \/ Cancel(t)
  \/ \E t \in Tasks, next \in Calls \cup {NoCall} :
       Begin(t, next) \/ Runs(t, next) \/ Returns(t, next)

Spec == Init /\ [][Next]_vars

(* The event loop runs every ready task, and the timeout bounds every      *)
(* request.  Nothing obliges a task to call, to cancel or to disconnect.   *)
Fairness == \A t \in Tasks :
  /\ WF_vars(\E next \in Calls \cup {NoCall} : Runs(t, next))
  /\ WF_vars(\E next \in Calls \cup {NoCall} : Returns(t, next))

FairSpec == Spec /\ Fairness

-----------------------------------------------------------------------------
TypeOK == /\ current \in Sockets \cup {NoSocket}
          /\ open \in SUBSET Sockets
          /\ queue \in Seq(Tasks)
          /\ at \in [Tasks -> {"idle", "lock", "wire"}]
          /\ call \in [Tasks -> Calls \cup {NoCall}]

(* transport.py:87-99 tells of 23 established sessions from one client.    *)
(* No socket stays open that the client does not hold: whatever races,     *)
(* drops, disconnects and cancellations there are, the controller never    *)
(* sees more than the one session the next close() will end.               *)
NoOrphanSocket == open = (IF Connected THEN {current} ELSE {})

(* transport.py:107-111: "a small controller sees one outstanding request  *)
(* rather than twenty arriving at once", connection attempts included.     *)
OneOutstanding == \A t, u \in Tasks : at[t] = "wire" /\ at[u] = "wire" => t = u

(* Why both hold.  A task is in the queue exactly while it is in a call,   *)
(* once; it is suspended exactly while it has a request to make; only the  *)
(* head is on the wire; a connection is attempted only while there is      *)
(* none, and nobody else can make one meanwhile.                           *)
Distinct(q) == \A i, j \in DOMAIN q : q[i] = q[j] => i = j
Queued(q, t) == \E i \in DOMAIN q : q[i] = t
QueueInv == /\ Distinct(queue)
            /\ \A t \in Tasks : at[t] # "idle" <=> Queued(queue, t)
CallInv == \A t \in Tasks : at[t] = "idle" <=> call[t] = NoCall
WireInv == \A t \in Tasks : at[t] = "wire" => queue[1] = t
AttemptInv == \A t \in Tasks : Asking(t, "connect") => current = NoSocket
IInv == /\ TypeOK /\ QueueInv /\ CallInv /\ WireInv /\ AttemptInv
        /\ NoOrphanSocket

(* transport.py:100-105: a controller that has gone away fails its caller  *)
(* rather than stalling it.  Whoever waits for the lock is served or gives *)
(* up, and whoever waits for an answer stops waiting, even when the others *)
(* never stop calling.                                                     *)
NobodyStarves == \A t \in Tasks :
  at[t] = "lock" ~> (at[t] = "wire" \/ at[t] = "idle")
=============================================================================
