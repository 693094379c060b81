------------------------------ MODULE LineProofs ------------------------------
(***************************************************************************)
(* TLAPS proof that the transport implements the single line, for any      *)
(* number of tasks and sockets and groups of any length: its first state   *)
(* maps to the line's, and each of its steps to one of the line's, or to   *)
(* none.  The invariant that makes the mapping work is the transport's.    *)
(***************************************************************************)
EXTENDS LineRefinement, TransportProofs, FiniteSetTheorems

(* The abstract line is free, or it belongs to the one task on the wire.   *)
LEMMA UserOfFree == OnWire = {} => User = Nobody /\ Left = 0
BY DEF User, Left

LEMMA UserOnWire ==
  ASSUME IInv, NEW t \in Tasks, at[t] = "wire"
  PROVE  User = t /\ Left = call[t].n
<1>1. OnWire = {t}
  BY DEF IInv, WireInv, OnWire
<1>2. User = t
  BY <1>1 DEF User
<1> QED
  BY <1>1, <1>2 DEF Left

(* Nobody is on the wire while a woken waiter stands at the head.          *)
LEMMA FreeWhenWoken ==
  ASSUME IInv, NEW t \in Tasks, Woken(t)
  PROVE  OnWire = {}
<1>1. queue[1] = t /\ at[t] = "lock"
  BY AtHead DEF Woken
<1> QED
  BY <1>1 DEF OnWire, IInv, WireInv

(* A suspended task is in a call, with at least one request to make.       *)
LEMMA CallSize ==
  ASSUME NEW c \in Calls
  PROVE  c.n \in 1..MaxGroup
BY MaxGroupAssumption DEF Calls

LEMMA SuspendedInCall ==
  ASSUME IInv, NEW t \in Tasks, at[t] # "idle"
  PROVE  call[t].n \in 1..MaxGroup
BY CallSize DEF IInv, TypeOK, CallInv

(* No session or one: what NoOrphanSocket says of their number.            *)
LEMMA LinksCount ==
  ASSUME NoOrphanSocket
  PROVE  Links = IF Connected THEN 1 ELSE 0
<1>1. CASE Connected
  BY <1>1, FS_Singleton DEF NoOrphanSocket, Links
<1>2. CASE ~ Connected
  BY <1>2, FS_EmptySet DEF NoOrphanSocket, Links
<1> QED
  BY <1>1, <1>2

-----------------------------------------------------------------------------
(* What Proceed is to the line.  When t goes on without giving the lock to *)
(* anyone, either it rests or waits, and the line is free, or it is on the *)
(* wire with its next call.                                                *)
LEMMA ProceedOnLine ==
  ASSUME IInv, IInv', NEW t \in Tasks, NEW q, NEW next, Proceed(t, q, next),
         \A u \in Tasks \ {t} : at[u] # "wire"
  PROVE  \/ User' = Nobody /\ Left' = 0
         \/ User' = t /\ Left' \in 1..MaxGroup
<1>1. at \in [Tasks -> {"idle", "lock", "wire"}] /\ call \in [Tasks -> Calls \cup {NoCall}]
  BY DEF IInv, TypeOK
<1>2. CASE at'[t] # "wire"
  <2>1. \A u \in Tasks : at'[u] # "wire"
    BY <1>1, <1>2 DEF Proceed, Rests, Enters
  <2>2. OnWire' = {}
    BY <2>1 DEF OnWire
  <2> QED
    BY <2>2 DEF User, Left
<1>3. CASE at'[t] = "wire"
  <2>1. next \in Calls /\ call'[t] = next
    BY <1>1, <1>3 DEF Proceed, Rests, Enters
  <2>2. OnWire' = {t}
    BY <1>3 DEF IInv, WireInv, OnWire
  <2>3. User' = t
    BY <2>2 DEF User
  <2>4. Left' = next.n
    BY <2>1, <2>2, <2>3 DEF Left
  <2> QED
    BY <2>1, <2>3, <2>4, CallSize
<1> QED
  BY <1>2, <1>3

(* The end of a call is the line's Finish, whether or not the task goes on *)
(* to a next one, provided the links end up as Finish has them.            *)
LEMMA CallEnds ==
  ASSUME IInv, IInv', NEW t \in Tasks, NEW next, at[t] = "wire",
         Proceed(t, Tail(queue), next),
         Links' = Links \/ (Links = 0 /\ Links' = 1)
  PROVE  Line!Finish
<1>1. User = t /\ t # Nobody
  BY UserOnWire, NobodyAssumption
<1>2. \A u \in Tasks \ {t} : at[u] # "wire"
  BY DEF IInv, WireInv
<1>3. \/ User' = Nobody /\ Left' = 0
      \/ User' = t /\ Left' \in 1..MaxGroup
  BY <1>2, ProceedOnLine
<1> QED
  BY <1>1, <1>3 DEF Line!Finish

(* A call that begins while nobody is on the wire takes the line, or waits *)
(* for it and changes nothing of what the line shows.                      *)
LEMMA CallBegins ==
  ASSUME IInv, IInv', NEW t \in Tasks, NEW q, NEW next, Proceed(t, q, next),
         OnWire = {}, Links' = Links
  PROVE  [Line!LineNext]_<<User, Left, Links>>
<1>1. User = Nobody /\ Left = 0
  BY UserOfFree
<1>2. \A u \in Tasks \ {t} : at[u] # "wire"
  BY DEF OnWire
<1>3. \/ User' = Nobody /\ Left' = 0
      \/ User' = t /\ Left' \in 1..MaxGroup
  BY <1>2, ProceedOnLine
<1> QED
  BY <1>1, <1>3 DEF Line!LineNext, Line!Take
(* A call that begins while somebody is on the wire waits: the line is as  *)
(* it was.                                                                 *)
LEMMA CallWaits ==
  ASSUME IInv, IInv', NEW t \in Tasks, NEW next, Begin(t, next), OnWire # {}
  PROVE  UNCHANGED <<User, Left, Links>>
<1>1. PICK u \in Tasks : at[u] = "wire"
  BY DEF OnWire
<1>2. queue # <<>>
  BY <1>1, AtHead
<1>3. at[t] = "idle" /\ UNCHANGED <<current, open>> /\ Proceed(t, queue, next)
  BY DEF Begin
<1>4. /\ \A v \in Tasks \ {t} : at'[v] = at[v] /\ call'[v] = call[v]
      /\ at'[t] # "wire" /\ u # t
  BY <1>1, <1>2, <1>3 DEF Proceed, Rests, Enters, IInv, TypeOK
<1>5. User = u /\ Left = call[u].n
  BY <1>1, UserOnWire
<1>6. OnWire' = {u}
  BY <1>1, <1>4 DEF OnWire, IInv, WireInv
<1>7. User' = u
  BY <1>6 DEF User
<1>8. Left' = call[u].n
  BY <1>4, <1>6, <1>7 DEF Left
<1>9. Links' = Links
  BY <1>3 DEF Links
<1> QED
  BY <1>5, <1>7, <1>8, <1>9

-----------------------------------------------------------------------------
(* The steps that leave the lock alone: a socket that closes.              *)
LEMMA CloseOnLine == IInv /\ IInv' /\ Connected /\ Close => Line!Unlink
<1> SUFFICES ASSUME IInv, IInv', Connected, Close PROVE Line!Unlink
  OBVIOUS
<1>1. current' = NoSocket /\ UNCHANGED <<at, call>>
  BY DEF Close
<1>2. Links = 1
  BY LinksCount DEF IInv
<1>3. NoOrphanSocket' => Links' = IF Connected' THEN 1 ELSE 0
  <2>1. ASSUME NoOrphanSocket', ~ Connected' PROVE open' = {}
    BY <2>1 DEF NoOrphanSocket
  <2> QED
    BY <1>1, <2>1, FS_EmptySet DEF Links, Connected
<1>4. Links' = 0
  BY <1>1, <1>3 DEF IInv, Connected
<1>5. OnWire' = OnWire
  BY <1>1 DEF OnWire
<1>6. User' = User
  BY <1>5 DEF User
<1>7. Left' = Left
  BY <1>1, <1>5, <1>6 DEF Left
<1> QED
  BY <1>2, <1>4, <1>6, <1>7 DEF Line!Unlink

(* A cancelled task gives the line up if it had it; if it was waiting, the *)
(* line does not show it.                                                  *)
LEMMA CancelOnLine ==
  ASSUME IInv, IInv', NEW t \in Tasks, Cancel(t)
  PROVE  [Line!LineNext]_<<User, Left, Links>>
<1>1. /\ at' = [at EXCEPT ![t] = "idle"]
      /\ call' = [call EXCEPT ![t] = NoCall]
      /\ open' = open
  BY DEF Cancel
<1>2. Links' = Links
  BY <1>1 DEF Links
<1>3. CASE at[t] = "wire"
  <2>1. User = t /\ t # Nobody
    BY <1>3, UserOnWire, NobodyAssumption
  <2>2. OnWire' = {}
    BY <1>1, <1>3 DEF OnWire, IInv, TypeOK, WireInv
  <2>3. User' = Nobody /\ Left' = 0
    BY <2>2 DEF User, Left
  <2> QED
    BY <1>2, <2>1, <2>3 DEF Line!LineNext, Line!Finish
<1>4. CASE at[t] # "wire"
  <2>1. OnWire' = OnWire
    BY <1>1, <1>4 DEF OnWire, IInv, TypeOK
  <2>2. User' = User
    BY <2>1 DEF User
  <2>3. CASE OnWire = {}
    BY <1>2, <2>1, <2>2, <2>3 DEF Left
  <2>4. CASE OnWire # {}
    <3>1. PICK u \in Tasks : at[u] = "wire"
      BY <2>4 DEF OnWire
    <3>2. User = u /\ Left = call[u].n
      BY <3>1, UserOnWire
    <3>3. Left' = call'[u].n
      BY <2>1, <2>2, <2>4, <3>2 DEF Left
    <3>4. call'[u] = call[u]
      BY <1>1, <1>4, <3>1 DEF IInv, TypeOK
    <3> QED
      BY <1>2, <2>2, <3>2, <3>3, <3>4
  <2> QED
    BY <2>3, <2>4
<1> QED
  BY <1>3, <1>4

LEMMA GrantedOnLine ==
  ASSUME IInv, IInv', NEW t \in Tasks, Granted(t)
  PROVE  Line!Take
<1>1. at[t] = "lock" /\ at' = [at EXCEPT ![t] = "wire"] /\ UNCHANGED <<open, call>>
  BY DEF Granted, Woken
<1>2. User = Nobody /\ Left = 0
  BY FreeWhenWoken, UserOfFree DEF Granted
<1>3. OnWire' = {t}
  BY <1>1, FreeWhenWoken DEF Granted, OnWire, IInv, TypeOK
<1>4. User' = t
  BY <1>3 DEF User
<1>5. Left' = call[t].n
  BY <1>1, <1>3, <1>4 DEF Left
<1>6. Links' = Links
  BY <1>1 DEF Links
<1>7. call[t].n \in 1..MaxGroup
  BY <1>1, SuspendedInCall
<1> QED
  BY <1>2, <1>4, <1>5, <1>6, <1>7 DEF Line!Take

LEMMA AdvanceOnLine ==
  ASSUME IInv, NEW t \in Tasks, WriteAdvances(t)
  PROVE  Line!Advance
<1>1. /\ at[t] = "wire" /\ call[t].n > 1
      /\ call' = [call EXCEPT ![t].n = @ - 1]
      /\ UNCHANGED <<open, at>>
  BY DEF WriteAdvances, Asking
<1>2. User = t /\ Left = call[t].n
  BY <1>1, UserOnWire
<1>3. OnWire' = OnWire /\ OnWire # {}
  BY <1>1 DEF OnWire
<1>4. User' = t
  BY <1>2, <1>3 DEF User
<1>5. Left' = call[t].n - 1
  BY <1>1, <1>3, <1>4 DEF Left, IInv, TypeOK, Calls, NoCall
<1>6. Links' = Links
  BY <1>1 DEF Links
<1> QED
  BY <1>1, <1>2, <1>4, <1>5, <1>6 DEF Line!Advance

(* Neither an answered read nor a write opens a link; a connect() makes at *)
(* most one, and only where there was none.                                *)
LEMMA LinksOfReturn ==
  ASSUME IInv, IInv', NEW t \in Tasks, NEW outcome, NEW next,
         \/ ConnectReturns(t, outcome, next)
         \/ ReadReturns(t, outcome, next)
         \/ WriteReturns(t, outcome, next)
  PROVE  Links' = Links \/ (Links = 0 /\ Links' = 1)
<1>1. CASE open' = open
  BY <1>1 DEF Links
<1>2. CASE open' # open
  <2>1. ConnectReturns(t, outcome, next)
    BY <1>2 DEF ReadReturns, WriteReturns
  <2>2. open = {} /\ \E s \in Sockets : open' = open \cup {s}
    BY <1>2, <2>1 DEF ConnectReturns, IInv, AttemptInv, NoOrphanSocket, Connected
  <2>3. PICK s \in Sockets : open' = {s}
    BY <2>2
  <2> QED
    BY <2>2, <2>3, FS_EmptySet, FS_Singleton DEF Links
<1> QED
  BY <1>1, <1>2

(* Every step of the transport is a step of the line, or invisible to it.  *)
LEMMA StepOnLine ==
  ASSUME IInv, IInv', [Next]_vars
  PROVE  [Line!LineNext]_<<User, Left, Links>>
<1> DEFINE Maps == [Line!LineNext]_<<User, Left, Links>>
<1>1. ASSUME Connected, Close PROVE Maps
  BY <1>1, CloseOnLine DEF Line!LineNext
<1>2. ASSUME NEW t \in Tasks, Cancel(t) PROVE Maps
  BY <1>2, CancelOnLine
<1>3. ASSUME NEW t \in Tasks, NEW next, Begin(t, next) PROVE Maps
  <2>1. Proceed(t, queue, next) /\ Links' = Links
    BY <1>3 DEF Begin, Links
  <2>2. CASE OnWire = {}
    BY <2>1, <2>2, CallBegins
  <2>3. CASE OnWire # {}
    BY <1>3, <2>3, CallWaits
  <2> QED
    BY <2>2, <2>3
<1>4. ASSUME NEW t \in Tasks, NEW next, Runs(t, next) PROVE Maps
  <2>1. CASE Granted(t)
    BY <2>1, GrantedOnLine DEF Line!LineNext
  <2>2. CASE AlreadyOpen(t, next)
    <3>1. OnWire = {} /\ Proceed(t, Tail(queue), next) /\ Links' = Links
      BY <2>2, FreeWhenWoken DEF AlreadyOpen, Links
    <3> QED
      BY <3>1, CallBegins
  <2> QED
    BY <1>4, <2>1, <2>2 DEF Runs
<1>5. ASSUME NEW t \in Tasks, NEW next, Returns(t, next) PROVE Maps
  <2>1. CASE WriteAdvances(t)
    BY <2>1, AdvanceOnLine DEF Line!LineNext
  <2>2. ASSUME NEW outcome \in Outcomes,
               \/ ConnectReturns(t, outcome, next)
               \/ ReadReturns(t, outcome, next)
               \/ WriteReturns(t, outcome, next)
        PROVE  Maps
    <3>1. at[t] = "wire" /\ Proceed(t, Tail(queue), next)
      BY <2>2 DEF ConnectReturns, ReadReturns, WriteReturns, Asking
    <3>2. Links' = Links \/ (Links = 0 /\ Links' = 1)
      BY <2>2, LinksOfReturn
    <3> QED
      BY <3>1, <3>2, CallEnds DEF Line!LineNext
  <2> QED
    BY <1>5, <2>1, <2>2 DEF Returns
<1>6. CASE UNCHANGED vars
  <2>1. OnWire' = OnWire /\ Links' = Links
    BY <1>6 DEF vars, OnWire, Links
  <2>2. User' = User
    BY <2>1 DEF User
  <2>3. Left' = Left
    BY <1>6, <2>1, <2>2 DEF vars, Left
  <2> QED
    BY <2>1, <2>2, <2>3
<1> QED
  BY <1>1, <1>2, <1>3, <1>4, <1>5, <1>6 DEF Next, Drop, Disconnect

LEMMA InitOnLine == Init => Line!LineInit
<1> SUFFICES ASSUME Init PROVE Line!LineInit
  OBVIOUS
<1>1. OnWire = {}
  BY DEF Init, OnWire
<1>2. Links = 0
  BY FS_EmptySet DEF Init, Links
<1> QED
  BY <1>1, <1>2, UserOfFree DEF Line!LineInit

(* transport.py:87-111: whatever races, cancellations and drops there are, *)
(* what the callers and the controller see of the transport is one line,   *)
(* used by one task for the whole of its call, over at most one link.      *)
THEOREM TransportIsOneLine == Spec => OneLine
<1>1. IInv /\ IInv' /\ [Next]_vars => [Line!LineNext]_<<User, Left, Links>>
  BY StepOnLine
<1> QED
  BY <1>1, InitOnLine, Invariance, PTL DEF Spec, OneLine, Line!LineSpec, Line!lineVars
=============================================================================
