---------------------------- MODULE TransportProofs ----------------------------
(***************************************************************************)
(* TLAPS proofs about Transport, for any number of tasks and sockets and   *)
(* groups of any length: the invariant IInv is inductive, and it implies   *)
(* that no socket is orphaned and one request is outstanding at a time.    *)
(***************************************************************************)
EXTENDS Transport, SequenceTheorems, TLAPS

(* A newcomer at the back of the lock's queue: it is queued, the others    *)
(* are queued as before, nobody twice, and the holder is still first.      *)
LEMMA NewcomerLast ==
  ASSUME NEW q \in Seq(Tasks), Distinct(q), NEW t \in Tasks, ~ Queued(q, t)
  PROVE  /\ Append(q, t) \in Seq(Tasks)
         /\ Distinct(Append(q, t))
         /\ \A u : Queued(Append(q, t), u) <=> Queued(q, u) \/ u = t
         /\ Append(q, t)[1] = IF q = <<>> THEN t ELSE q[1]
<1> DEFINE r == Append(q, t)
<1>1. /\ r \in Seq(Tasks)
      /\ Len(r) = Len(q) + 1
      /\ \A i \in 1..Len(q) : r[i] = q[i]
      /\ r[Len(q) + 1] = t
  BY AppendProperties
<1>2. /\ Len(q) \in Nat
      /\ DOMAIN q = 1..Len(q)
      /\ DOMAIN r = 1..Len(q) + 1
  BY <1>1, LenProperties
<1>3. Distinct(r)
  BY <1>1, <1>2 DEF Distinct, Queued
<1>4. \A u : Queued(r, u) <=> Queued(q, u) \/ u = t
  BY <1>1, <1>2 DEF Queued
<1>5. q = <<>> => r[1] = t
  BY <1>1
<1>6. q # <<>> => r[1] = q[1]
  BY <1>1, <1>2, EmptySeq
<1> QED
  BY <1>1, <1>3, <1>4, <1>5, <1>6

(* The holder gives the lock up: only it leaves the queue.                 *)
LEMMA HolderLeaves ==
  ASSUME NEW q \in Seq(Tasks), Distinct(q), q # <<>>
  PROVE  /\ Tail(q) \in Seq(Tasks)
         /\ Distinct(Tail(q))
         /\ \A u : Queued(Tail(q), u) <=> Queued(q, u) /\ u # q[1]
<1> DEFINE r == Tail(q)
<1>1. /\ r \in Seq(Tasks)
      /\ Len(r) = Len(q) - 1
      /\ \A i \in 1..Len(r) : r[i] = q[i + 1]
  BY HeadTailProperties
<1>2. /\ Len(q) \in Nat \ {0}
      /\ DOMAIN q = 1..Len(q)
      /\ DOMAIN r = 1..Len(q) - 1
  BY <1>1, LenProperties, EmptySeq
<1>3. Distinct(r)
  BY <1>1, <1>2 DEF Distinct
<1>4. ASSUME NEW u PROVE Queued(r, u) <=> Queued(q, u) /\ u # q[1]
  <2>1. ASSUME Queued(r, u) PROVE Queued(q, u) /\ u # q[1]
    BY <1>1, <1>2, <2>1 DEF Queued, Distinct
  <2>2. ASSUME Queued(q, u), u # q[1] PROVE Queued(r, u)
    <3>1. PICK i \in 1..Len(q) : q[i] = u
      BY <1>2, <2>2 DEF Queued
    <3>2. i - 1 \in 1..Len(r) /\ r[i - 1] = u
      BY <1>1, <1>2, <2>2, <3>1
    <3> QED
      BY <1>1, <1>2, <3>2 DEF Queued
  <2> QED
    BY <2>1, <2>2
<1> QED
  BY <1>1, <1>3, <1>4

(* A cancelled task leaves the queue, wherever it stood, and the order of  *)
(* the others is kept: the holder stays first unless it is the one.        *)
LEMMA CancelledLeaves ==
  ASSUME NEW q \in Seq(Tasks), Distinct(q), NEW i \in DOMAIN q
  PROVE  /\ RemoveAt(q, i) \in Seq(Tasks)
         /\ Distinct(RemoveAt(q, i))
         /\ \A u : Queued(RemoveAt(q, i), u) <=> Queued(q, u) /\ u # q[i]
         /\ i # 1 => RemoveAt(q, i)[1] = q[1]
<1> DEFINE front == SubSeq(q, 1, i - 1)
           back == SubSeq(q, i + 1, Len(q))
           r == RemoveAt(q, i)
<1>1. Len(q) \in Nat /\ DOMAIN q = 1..Len(q) /\ i \in 1..Len(q)
  BY LenProperties
<1>2. \A j \in 1..Len(q) : q[j] \in Tasks
  BY <1>1, ElementOfSeq
<1>3. /\ front \in Seq(Tasks)
      /\ Len(front) = i - 1
      /\ \A j \in 1..i - 1 : front[j] = q[j]
  <2>1. 1 \in Int /\ i - 1 \in Int /\ \A j \in 1..i - 1 : q[j] \in Tasks
    BY <1>1, <1>2
  <2> HIDE DEF front
  <2>2. /\ front \in Seq(Tasks)
        /\ Len(front) = IF 1 <= i - 1 THEN i - 1 - 1 + 1 ELSE 0
        /\ \A j \in 1..i - 1 - 1 + 1 : front[j] = q[1 + j - 1]
    BY <2>1, SubSeqProperties DEF front
  <2> QED
    BY <1>1, <2>2
<1>4. /\ back \in Seq(Tasks)
      /\ Len(back) = Len(q) - i
      /\ \A j \in 1..Len(q) - i : back[j] = q[i + j]
  <2>1. i + 1 \in Int /\ Len(q) \in Int /\ \A j \in i + 1..Len(q) : q[j] \in Tasks
    BY <1>1, <1>2
  <2> HIDE DEF back
  <2>2. /\ back \in Seq(Tasks)
        /\ Len(back) = IF i + 1 <= Len(q) THEN Len(q) - (i + 1) + 1 ELSE 0
        /\ \A j \in 1..Len(q) - (i + 1) + 1 : back[j] = q[i + 1 + j - 1]
    BY <2>1, SubSeqProperties DEF back
  <2>3. Len(back) = Len(q) - i
    BY <1>1, <2>2
  <2>4. ASSUME NEW j \in 1..Len(q) - i PROVE back[j] = q[i + j]
    <3>1. j \in 1..Len(q) - (i + 1) + 1 /\ i + 1 + j - 1 = i + j
      BY <1>1
    <3> QED
      BY <2>2, <3>1
  <2> QED
    BY <2>2, <2>3, <2>4
<1> HIDE DEF front, back
<1>5. r = front \o back
  BY DEF RemoveAt, front, back
<1> HIDE DEF r
<1>6. /\ r \in Seq(Tasks)
      /\ Len(r) = Len(q) - 1
      /\ \A j \in 1..Len(q) - 1 : r[j] = IF j < i THEN q[j] ELSE q[j + 1]
  <2>1. /\ r \in Seq(Tasks)
        /\ Len(r) = Len(front) + Len(back)
        /\ \A j \in 1..Len(front) + Len(back) :
             r[j] = IF j <= Len(front) THEN front[j] ELSE back[j - Len(front)]
    <3>1. front \in Seq(Tasks) /\ back \in Seq(Tasks)
      BY <1>3, <1>4
    <3> QED
      BY ONLY <3>1, <1>5, ConcatProperties, Zenon
  <2>2. ASSUME NEW j \in 1..Len(q) - 1 PROVE r[j] = IF j < i THEN q[j] ELSE q[j + 1]
    <3>1. CASE j < i
      BY <1>1, <1>3, <1>4, <2>1, <3>1
    <3>2. CASE j >= i
      <4>1. r[j] = back[j - (i - 1)]
        BY <1>1, <1>3, <1>4, <2>1, <3>2
      <4>2. j - (i - 1) \in 1..Len(q) - i
        BY <1>1, <3>2
      <4> QED
        BY SMTT(30), <1>1, <1>4, <3>2, <4>1, <4>2
    <3> QED
      BY <1>1, <3>1, <3>2
  <2> QED
    BY <1>1, <1>3, <1>4, <2>1, <2>2
<1>7. DOMAIN r = 1..Len(q) - 1
  BY <1>6, LenProperties
<1>8. Distinct(r)
  <2> SUFFICES ASSUME NEW a \in 1..Len(q) - 1, NEW b \in 1..Len(q) - 1, r[a] = r[b]
               PROVE  a = b
    BY <1>7 DEF Distinct
  <2> DEFINE was(j) == IF j < i THEN j ELSE j + 1
  <2>1. was(a) \in DOMAIN q /\ r[a] = q[was(a)]
    BY <1>1, <1>6
  <2>2. was(b) \in DOMAIN q /\ r[b] = q[was(b)]
    BY <1>1, <1>6
  <2>3. was(a) = was(b)
    BY <2>1, <2>2 DEF Distinct
  <2> QED
    BY <1>1, <2>3
<1>9. ASSUME NEW u PROVE Queued(r, u) <=> Queued(q, u) /\ u # q[i]
  <2>1. ASSUME Queued(r, u) PROVE Queued(q, u) /\ u # q[i]
    BY <1>1, <1>6, <1>7, <2>1 DEF Queued, Distinct
  <2>2. ASSUME Queued(q, u), u # q[i] PROVE Queued(r, u)
    <3>1. PICK j \in 1..Len(q) : q[j] = u
      BY <1>1, <2>2 DEF Queued
    <3>2. CASE j < i
      BY <1>1, <1>6, <1>7, <3>1, <3>2 DEF Queued
    <3>3. CASE j > i
      <4>1. j - 1 \in 1..Len(q) - 1 /\ ~ (j - 1 < i) /\ j - 1 + 1 = j
        BY <1>1, <3>3
      <4> QED
        BY <1>6, <1>7, <3>1, <4>1 DEF Queued
    <3> QED
      BY <1>1, <2>2, <3>1, <3>2, <3>3
  <2> QED
    BY <2>1, <2>2
<1>10. i # 1 => r[1] = q[1]
  BY <1>1, <1>6
<1> QED
  BY <1>6, <1>8, <1>9, <1>10 DEF r

-----------------------------------------------------------------------------
(* What every segment that ends or begins a call does to the lock: if task *)
(* t has left the queue to `q`, Proceed puts the queue invariants back.    *)
LEMMA ProceedRestores ==
  ASSUME TypeOK, CallInv,
         NEW t \in Tasks, NEW q \in Seq(Tasks), NEW next, Proceed(t, q, next),
         Distinct(q),
         \A u \in Tasks : Queued(q, u) <=> at[u] # "idle" /\ u # t,
         \A u \in Tasks \ {t} : at[u] = "wire" => q # <<>> /\ q[1] = u,
         \A u \in Tasks \ {t} : Asking(u, "connect") => current' = NoSocket
  PROVE  /\ queue' \in Seq(Tasks)
         /\ at' \in [Tasks -> {"idle", "lock", "wire"}]
         /\ call' \in [Tasks -> Calls \cup {NoCall}]
         /\ QueueInv'
         /\ CallInv'
         /\ WireInv'
         /\ AttemptInv'
<1>1. CASE Rests(t, q)
  <2>1. /\ queue' = q
        /\ at' = [at EXCEPT ![t] = "idle"]
        /\ call' = [call EXCEPT ![t] = NoCall]
    BY <1>1 DEF Rests
  <2>2. /\ at' \in [Tasks -> {"idle", "lock", "wire"}]
        /\ call' \in [Tasks -> Calls \cup {NoCall}]
    BY <2>1 DEF TypeOK
  <2>3. QueueInv'
    BY <2>1 DEF QueueInv, TypeOK, Distinct, Queued
  <2>4. WireInv'
    BY <2>1 DEF WireInv, TypeOK
  <2>5. AttemptInv'
    BY <2>1 DEF AttemptInv, Asking, TypeOK
  <2>6. CallInv'
    BY <2>1 DEF CallInv, TypeOK
  <2> QED
    BY <2>1, <2>2, <2>3, <2>4, <2>5, <2>6
<1>2. CASE Enters(t, Append(q, t), IF q = <<>> THEN "wire" ELSE "lock", next)
  <2>1. /\ next \in Calls
        /\ next.op = "connect" => current' = NoSocket
        /\ queue' = Append(q, t)
        /\ at' = [at EXCEPT ![t] = IF q = <<>> THEN "wire" ELSE "lock"]
        /\ call' = [call EXCEPT ![t] = next]
    BY <1>2 DEF Enters
  <2>2. /\ Append(q, t) \in Seq(Tasks)
        /\ Distinct(Append(q, t))
        /\ \A u : Queued(Append(q, t), u) <=> Queued(q, u) \/ u = t
        /\ Append(q, t)[1] = IF q = <<>> THEN t ELSE q[1]
    BY NewcomerLast
  <2>3. /\ at' \in [Tasks -> {"idle", "lock", "wire"}]
        /\ call' \in [Tasks -> Calls \cup {NoCall}]
    BY <2>1 DEF TypeOK
  <2>4. Distinct(queue)'
    BY <2>1, <2>2 DEF Distinct
  <2>5. ASSUME NEW u \in Tasks PROVE (at[u] # "idle" <=> Queued(queue, u))'
    <3>1. Queued(queue, u)' <=> Queued(q, u) \/ u = t
      BY <2>1, <2>2 DEF Queued
    <3> QED
      BY <2>1, <3>1 DEF TypeOK
  <2>6. WireInv'
    BY <2>1, <2>2 DEF WireInv, TypeOK
  <2>7. AttemptInv'
    BY <2>1 DEF AttemptInv, Asking, TypeOK
  <2>8. CallInv'
    BY <2>1 DEF CallInv, TypeOK, Calls, NoCall
  <2> QED
    BY <2>1, <2>2, <2>3, <2>4, <2>5, <2>6, <2>7, <2>8 DEF QueueInv
<1> QED
  BY <1>1, <1>2 DEF Proceed

(* The holder's call ends: t is at the head, so leaving the tail of the    *)
(* queue meets what ProceedRestores asks, provided nobody else is on the   *)
(* wire - which WireInv says.                                              *)
LEMMA HolderProceeds ==
  ASSUME IInv, NEW t \in Tasks, NEW next, queue # <<>>, queue[1] = t,
         Proceed(t, Tail(queue), next)
  PROVE  /\ queue' \in Seq(Tasks)
         /\ at' \in [Tasks -> {"idle", "lock", "wire"}]
         /\ call' \in [Tasks -> Calls \cup {NoCall}]
         /\ QueueInv'
         /\ CallInv'
         /\ WireInv'
         /\ AttemptInv'
<1> DEFINE q == Tail(queue)
<1>1. /\ q \in Seq(Tasks)
      /\ Distinct(q)
      /\ \A u : Queued(q, u) <=> Queued(queue, u) /\ u # t
  BY HolderLeaves DEF IInv, TypeOK, QueueInv
<1>2. \A u \in Tasks : Queued(q, u) <=> at[u] # "idle" /\ u # t
  BY <1>1 DEF IInv, QueueInv
<1>3. \A u \in Tasks \ {t} : at[u] # "wire"
  BY DEF IInv, WireInv
<1>4. \A u \in Tasks \ {t} : ~ Asking(u, "connect")
  BY <1>3 DEF Asking
<1> QED
  BY <1>1, <1>2, <1>3, <1>4, ProceedRestores DEF IInv

(* Whoever is on the wire, or woken, is at the head of a non-empty queue.  *)
LEMMA AtHead ==
  ASSUME IInv, NEW t \in Tasks, at[t] = "wire" \/ Woken(t)
  PROVE  queue # <<>> /\ queue[1] = t
<1>1. Queued(queue, t)
  BY DEF IInv, QueueInv, Woken
<1>2. queue # <<>>
  BY <1>1, EmptySeq, LenProperties DEF Queued, IInv, TypeOK
<1>3. Woken(t) => queue[1] = t
  BY <1>2 DEF Woken, IInv, TypeOK
<1> QED
  BY <1>2, <1>3 DEF IInv, WireInv

-----------------------------------------------------------------------------
LEMMA InitIInv == Init => IInv
<1> SUFFICES ASSUME Init PROVE IInv
  OBVIOUS
<1>1. TypeOK
  BY EmptySeq DEF Init, TypeOK
<1>2. QueueInv
  BY DEF Init, QueueInv, Distinct, Queued
<1>3. WireInv /\ AttemptInv /\ CallInv
  BY DEF Init, WireInv, AttemptInv, Asking, CallInv
<1>4. NoOrphanSocket
  BY DEF Init, NoOrphanSocket, Connected
<1> QED
  BY <1>1, <1>2, <1>3, <1>4 DEF IInv

(* A socket that closes, or one that was not there, leaves none behind.    *)
LEMMA CloseKeeps == IInv /\ Close => IInv'
<1> SUFFICES ASSUME IInv, Close PROVE IInv'
  OBVIOUS
<1>1. current' = NoSocket /\ open' = {}
  BY DEF Close, IInv, NoOrphanSocket, Connected
<1>2. UNCHANGED <<queue, at, call>>
  BY DEF Close
<1>3. TypeOK'
  BY <1>1, <1>2 DEF IInv, TypeOK
<1>4. QueueInv' /\ CallInv' /\ WireInv'
  BY <1>2 DEF IInv, QueueInv, Distinct, Queued, CallInv, WireInv
<1>5. AttemptInv'
  BY <1>1 DEF AttemptInv
<1>6. NoOrphanSocket'
  BY <1>1 DEF NoOrphanSocket, Connected
<1> QED
  BY <1>3, <1>4, <1>5, <1>6 DEF IInv

LEMMA BeginKeeps ==
  ASSUME IInv, NEW t \in Tasks, NEW next, Begin(t, next)
  PROVE  IInv'
<1>1. at[t] = "idle" /\ UNCHANGED <<current, open>> /\ Proceed(t, queue, next)
  BY DEF Begin
<1>2. queue \in Seq(Tasks) /\ Distinct(queue)
  BY DEF IInv, TypeOK, QueueInv
<1>3. \A u \in Tasks : Queued(queue, u) <=> at[u] # "idle" /\ u # t
  BY <1>1 DEF IInv, QueueInv
<1>4. \A u \in Tasks \ {t} : at[u] = "wire" => queue # <<>> /\ queue[1] = u
  BY AtHead
<1>5. \A u \in Tasks \ {t} : Asking(u, "connect") => current' = NoSocket
  BY <1>1 DEF IInv, AttemptInv
<1>6. /\ queue' \in Seq(Tasks)
      /\ at' \in [Tasks -> {"idle", "lock", "wire"}]
      /\ call' \in [Tasks -> Calls \cup {NoCall}]
      /\ QueueInv' /\ CallInv' /\ WireInv' /\ AttemptInv'
  BY <1>1, <1>2, <1>3, <1>4, <1>5, ProceedRestores DEF IInv
<1>7. NoOrphanSocket'
  BY <1>1 DEF IInv, NoOrphanSocket, Connected
<1> QED
  BY <1>1, <1>6, <1>7 DEF IInv, TypeOK

LEMMA GrantedKeeps ==
  ASSUME IInv, NEW t \in Tasks, Granted(t)
  PROVE  IInv'
<1>1. /\ at[t] = "lock" /\ queue[1] = t
      /\ at' = [at EXCEPT ![t] = "wire"]
      /\ UNCHANGED <<current, open, queue, call>>
  BY AtHead DEF Granted, Woken
<1>2. TypeOK'
  BY <1>1 DEF IInv, TypeOK
<1>3. QueueInv'
  BY <1>1 DEF IInv, TypeOK, QueueInv, Distinct, Queued
<1>4. WireInv'
  BY <1>1 DEF IInv, TypeOK, WireInv
<1>5. AttemptInv'
  BY <1>1 DEF IInv, TypeOK, AttemptInv, Asking, Granted, Connected
<1>6. NoOrphanSocket'
  BY <1>1 DEF IInv, NoOrphanSocket, Connected
<1>7. CallInv'
  BY <1>1 DEF IInv, TypeOK, CallInv
<1> QED
  BY <1>2, <1>3, <1>4, <1>5, <1>6, <1>7 DEF IInv

LEMMA AlreadyOpenKeeps ==
  ASSUME IInv, NEW t \in Tasks, NEW next, AlreadyOpen(t, next)
  PROVE  IInv'
<1>1. /\ UNCHANGED <<current, open>>
      /\ queue # <<>> /\ queue[1] = t
      /\ Proceed(t, Tail(queue), next)
  BY AtHead DEF AlreadyOpen
<1>2. NoOrphanSocket'
  BY <1>1 DEF IInv, NoOrphanSocket, Connected
<1> QED
  BY <1>1, <1>2, HolderProceeds DEF IInv, TypeOK

(* The one step that opens a socket: AttemptInv says there was none, so    *)
(* the new one is the only one.                                            *)
LEMMA ConnectReturnsKeeps ==
  ASSUME IInv, NEW t \in Tasks, NEW outcome, NEW next, ConnectReturns(t, outcome, next)
  PROVE  IInv'
<1>1. queue # <<>> /\ queue[1] = t /\ Proceed(t, Tail(queue), next)
  BY AtHead DEF ConnectReturns, Asking
<1>2. current = NoSocket /\ open = {}
  BY DEF ConnectReturns, IInv, AttemptInv, NoOrphanSocket, Connected
<1>3. CASE UNCHANGED <<current, open>>
  <2>1. current' \in Sockets \cup {NoSocket} /\ open' \in SUBSET Sockets /\ NoOrphanSocket'
    BY <1>3 DEF IInv, TypeOK, NoOrphanSocket, Connected
  <2> QED
    BY <1>1, <2>1, HolderProceeds DEF IInv, TypeOK
<1>4. CASE \E s \in Sockets \ open : current' = s /\ open' = open \cup {s}
  <2>1. PICK s \in Sockets : current' = s /\ open' = {s}
    BY <1>2, <1>4
  <2>2. NoOrphanSocket'
    BY <2>1, NoSocketAssumption DEF NoOrphanSocket, Connected
  <2> QED
    BY <1>1, <2>1, <2>2, HolderProceeds DEF IInv, TypeOK
<1> QED
  BY <1>3, <1>4 DEF ConnectReturns

LEMMA RequestReturnsKeeps ==
  ASSUME IInv, NEW t \in Tasks, NEW outcome, NEW next,
         ReadReturns(t, outcome, next) \/ WriteReturns(t, outcome, next)
  PROVE  IInv'
<1>1. /\ UNCHANGED <<current, open>>
      /\ queue # <<>> /\ queue[1] = t
      /\ Proceed(t, Tail(queue), next)
  BY AtHead DEF ReadReturns, WriteReturns, Asking
<1>2. NoOrphanSocket'
  BY <1>1 DEF IInv, NoOrphanSocket, Connected
<1> QED
  BY <1>1, <1>2, HolderProceeds DEF IInv, TypeOK

LEMMA WriteAdvancesKeeps ==
  ASSUME IInv, NEW t \in Tasks, WriteAdvances(t)
  PROVE  IInv'
<1>1. /\ call[t].op = "write" /\ call[t].n > 1
      /\ call' = [call EXCEPT ![t].n = @ - 1]
      /\ UNCHANGED <<current, open, queue, at>>
  BY DEF WriteAdvances, Asking
<1>2. call[t] \in [op : {"write"}, n : 1..MaxGroup]
  BY <1>1 DEF IInv, TypeOK, Calls, NoCall
<1>3. [call[t] EXCEPT !.n = @ - 1] \in Calls
  BY <1>1, <1>2, MaxGroupAssumption DEF Calls
<1>4. call' \in [Tasks -> Calls \cup {NoCall}]
  BY <1>1, <1>3 DEF IInv, TypeOK
<1>5. \A u \in Tasks : call'[u].op = call[u].op
  BY <1>1, <1>2 DEF IInv, TypeOK
<1>6. TypeOK'
  BY <1>1, <1>4 DEF IInv, TypeOK
<1>7. QueueInv' /\ WireInv'
  BY <1>1 DEF IInv, QueueInv, Distinct, Queued, WireInv
<1>8. AttemptInv'
  BY <1>1, <1>5 DEF IInv, AttemptInv, Asking
<1>9. NoOrphanSocket'
  BY <1>1 DEF IInv, NoOrphanSocket, Connected
<1>10. CallInv'
  BY <1>1, <1>5 DEF IInv, TypeOK, CallInv, NoCall
<1> QED
  BY <1>6, <1>7, <1>8, <1>9, <1>10 DEF IInv

LEMMA CancelKeeps ==
  ASSUME IInv, NEW t \in Tasks, Cancel(t)
  PROVE  IInv'
<1>1. PICK i \in DOMAIN queue : queue[i] = t /\ queue' = RemoveAt(queue, i)
  BY DEF Cancel
<1>2. /\ at' = [at EXCEPT ![t] = "idle"]
      /\ call' = [call EXCEPT ![t] = NoCall]
      /\ UNCHANGED <<current, open>>
  BY DEF Cancel
<1>3. queue \in Seq(Tasks) /\ Distinct(queue)
  BY DEF IInv, TypeOK, QueueInv
<1>4. /\ queue' \in Seq(Tasks)
      /\ Distinct(queue')
      /\ \A u : Queued(queue', u) <=> Queued(queue, u) /\ u # t
      /\ i # 1 => queue'[1] = queue[1]
  BY <1>1, <1>3, CancelledLeaves
<1>5. TypeOK'
  BY <1>2, <1>4 DEF IInv, TypeOK
<1>6. QueueInv'
  <2>1. Distinct(queue)'
    BY <1>4 DEF Distinct
  <2>2. ASSUME NEW u \in Tasks PROVE (at[u] # "idle" <=> Queued(queue, u))'
    <3>1. Queued(queue, u)' <=> Queued(queue, u) /\ u # t
      BY <1>4 DEF Queued
    <3>2. at'[u] # "idle" <=> at[u] # "idle" /\ u # t
      BY <1>2 DEF IInv, TypeOK
    <3> QED
      BY <3>1, <3>2 DEF IInv, QueueInv
  <2> QED
    BY <2>1, <2>2 DEF QueueInv
<1>7. WireInv'
  <2> SUFFICES ASSUME NEW u \in Tasks, at'[u] = "wire" PROVE queue'[1] = u
    BY DEF WireInv
  <2>1. u # t /\ at[u] = "wire"
    BY <1>2 DEF IInv, TypeOK
  <2>2. queue[1] = u
    BY <2>1 DEF IInv, WireInv
  <2> QED
    BY <1>1, <1>4, <2>1, <2>2
<1>8. AttemptInv'
  BY <1>2 DEF IInv, TypeOK, AttemptInv, Asking
<1>9. NoOrphanSocket'
  BY <1>2 DEF IInv, NoOrphanSocket, Connected
<1>10. CallInv'
  BY <1>2 DEF IInv, TypeOK, CallInv
<1> QED
  BY <1>5, <1>6, <1>7, <1>8, <1>9, <1>10 DEF IInv

LEMMA StepIInv == IInv /\ [Next]_vars => IInv'
<1> SUFFICES ASSUME IInv, [Next]_vars PROVE IInv'
  OBVIOUS
<1>1. CASE Drop
  BY <1>1, CloseKeeps DEF Drop
<1>2. ASSUME NEW t \in Tasks, Disconnect(t) PROVE IInv'
  BY <1>2, CloseKeeps DEF Disconnect
<1>3. ASSUME NEW t \in Tasks, Cancel(t) PROVE IInv'
  BY <1>3, CancelKeeps
<1>4. ASSUME NEW t \in Tasks, NEW next \in Calls \cup {NoCall}, Begin(t, next) PROVE IInv'
  BY <1>4, BeginKeeps
<1>5. ASSUME NEW t \in Tasks, NEW next \in Calls \cup {NoCall}, Runs(t, next) PROVE IInv'
  BY <1>5, GrantedKeeps, AlreadyOpenKeeps DEF Runs
<1>6. ASSUME NEW t \in Tasks, NEW next \in Calls \cup {NoCall}, Returns(t, next) PROVE IInv'
  BY <1>6, ConnectReturnsKeeps, RequestReturnsKeeps, WriteAdvancesKeeps DEF Returns
<1>7. CASE UNCHANGED vars
  BY <1>7 DEF vars, IInv, TypeOK, QueueInv, Distinct, Queued, CallInv, WireInv,
              AttemptInv, Asking, NoOrphanSocket, Connected
<1> QED
  BY <1>1, <1>2, <1>3, <1>4, <1>5, <1>6, <1>7 DEF Next

(* The lock, the queue and the sockets always fit together: tasks are      *)
(* queued exactly while in a call and only the head is on the wire; an     *)
(* attempt to connect is made only while there is no connection.           *)
THEOREM Invariance == Spec => []IInv
<1> QED
  BY InitIInv, StepIInv, PTL DEF Spec

(* Every variable of the transport keeps its type.                         *)
THEOREM TypeCorrect == Spec => []TypeOK
<1>1. IInv => TypeOK
  BY DEF IInv
<1> QED
  BY <1>1, Invariance, PTL

(* transport.py:87-99: however many tasks connect, disconnect, lose the    *)
(* connection or are cancelled, no socket is left open and unowned.        *)
THEOREM OneSession == Spec => []NoOrphanSocket
<1>1. IInv => NoOrphanSocket
  BY DEF IInv
<1> QED
  BY <1>1, Invariance, PTL

(* transport.py:107-111: the controller never sees two outstanding         *)
(* requests, however many tasks ask at once.                               *)
THEOREM OneAtATime == Spec => []OneOutstanding
<1>1. IInv => OneOutstanding
  BY DEF IInv, WireInv, OneOutstanding
<1> QED
  BY <1>1, Invariance, PTL
=============================================================================
