------------------------ MODULE GatewayServerProofs ------------------------
(***************************************************************************)
(* Proofs about GatewayServer, for any number of agents and dashboards and *)
(* a pool of any size: the pool loses no wake-up and drains its queue, and *)
(* every dashboard gets every event once and in order.                     *)
(***************************************************************************)
EXTENDS GatewayServer, SequenceTheorems, TLAPS

(* Event k + 1 and the n - 1 after it, in order *)
Numbered(seq, n, k) == seq = [i \in 1 .. n |-> k + i]

(* The stream moves an event from what it is about to write to what was    *)
(* read, and nothing else.                                                 *)
LEMMA WriteKeepsOrder ==
  ASSUME NEW S, NEW r \in Seq(S), NEW t \in Seq(S), NEW q \in Seq(S), t # <<>>
  PROVE  Append(r, Head(t)) \o Tail(t) \o q = r \o t \o q
<1> DEFINE h == Head(t)
<1>1. h \in S /\ Tail(t) \in Seq(S) /\ <<h>> \in Seq(S)
  BY HeadTailProperties
<1>2. t = <<h>> \o Tail(t)
  <2>1. <<h>> \o Tail(t) \in Seq(S) /\ Len(<<h>> \o Tail(t)) = Len(t)
    BY <1>1, ConcatProperties, HeadTailProperties, EmptySeq
  <2>2. \A i \in 1 .. Len(t) : (<<h>> \o Tail(t))[i] = t[i]
    BY <1>1, ConcatProperties, HeadTailProperties, EmptySeq
  <2>3. QED
    BY <2>1, <2>2, SeqEqual
<1>3. Append(r, h) \o Tail(t) = r \o (<<h>> \o Tail(t))
  BY <1>1, AppendIsConcat, ConcatAssociative
<1>4. QED
  BY <1>2, <1>3

(* The stream is done when it wrote the last event.                        *)
LEMMA LastOneWritten ==
  ASSUME NEW S, NEW t \in Seq(S), t # <<>>
  PROVE  Tail(t) = <<>> <=> Len(t) = 1
<1>1. Tail(t) \in Seq(S) /\ Len(Tail(t)) = Len(t) - 1 /\ Len(t) \in Nat
  BY HeadTailProperties, LenProperties
<1>2. Tail(t) = <<>> <=> Len(Tail(t)) = 0
  BY <1>1, EmptySeq
<1>3. QED
  BY <1>1, <1>2

(* A queue that is swapped away leaves what a subscriber was given.        *)
LEMMA SwapKeepsOrder ==
  ASSUME NEW S, NEW r \in Seq(S), NEW q \in Seq(S)
  PROVE  r \o q \o <<>> = r \o <<>> \o q
<1>1. r \o q \in Seq(S)
  BY ConcatProperties
<1>2. QED
  BY <1>1, ConcatEmptySeq

(* The numbers after k, and one more *)
LEMMA AppendContinues ==
  ASSUME NEW S, NEW s \in Seq(S), NEW e \in S, NEW n \in Nat, NEW k \in Nat,
         s = [i \in 1 .. n |-> k + i], e = k + n + 1
  PROVE  Append(s, e) = [i \in 1 .. n + 1 |-> k + i]
<1>1. Len(s) = n
  <2>1. DOMAIN s = 1 .. n
    OBVIOUS
  <2>2. DOMAIN s = 1 .. Len(s) /\ Len(s) \in Nat
    BY LenProperties
  <2>3. QED
    BY <2>1, <2>2
<1>2. /\ Append(s, e) \in Seq(S) /\ Len(Append(s, e)) = n + 1
      /\ \A i \in 1 .. n : Append(s, e)[i] = s[i]
      /\ Append(s, e)[n + 1] = e
  BY <1>1, AppendProperties
<1>3. DOMAIN Append(s, e) = 1 .. n + 1 /\ Append(s, e) = [i \in 1 .. n + 1 |-> Append(s, e)[i]]
  <2>1. Append(s, e) \in [1 .. Len(Append(s, e)) -> S]
    BY <1>2, LenProperties
  <2>2. QED
    BY <1>2, <2>1
<1>4. \A i \in 1 .. n + 1 : Append(s, e)[i] = k + i
  <2>1. \A i \in 1 .. n + 1 : i \in 1 .. n \/ i = n + 1
    OBVIOUS
  <2>2. \A i \in 1 .. n : s[i] = k + i
    OBVIOUS
  <2>3. QED
    BY <1>2, <2>1, <2>2
<1>5. QED
  BY <1>3, <1>4

(* What is appended to the queue comes at the end of all of it.            *)
LEMMA PushGoesLast ==
  ASSUME NEW S, NEW r \in Seq(S), NEW t \in Seq(S), NEW q \in Seq(S), NEW e \in S
  PROVE  /\ r \o t \o q \in Seq(S)
         /\ r \o t \o Append(q, e) = Append(r \o t \o q, e)
<1>1. r \o t \in Seq(S) /\ r \o t \o q \in Seq(S) /\ <<e>> \in Seq(S)
  BY ConcatProperties
<1>2. Append(q, e) = q \o <<e>>
  BY AppendIsConcat
<1>3. r \o t \o (q \o <<e>>) = (r \o t \o q) \o <<e>>
  BY <1>1, ConcatAssociative
<1>4. (r \o t \o q) \o <<e>> = Append(r \o t \o q, e)
  BY <1>1, AppendIsConcat
<1>5. QED
  BY <1>1, <1>2, <1>3, <1>4

(* The next event continues the numbers of the events before it.           *)
LEMMA PushContinues ==
  ASSUME NEW S, NEW r \in Seq(S), NEW t \in Seq(S), NEW q \in Seq(S), NEW e \in S,
         NEW n \in Nat, NEW k \in Nat, e = k + n + 1
  PROVE  Numbered(r \o t \o q, n, k) => Numbered(r \o t \o Append(q, e), n + 1, k)
<1> DEFINE s == r \o t \o q
<1>1. s \in Seq(S) /\ r \o t \o Append(q, e) = Append(s, e)
  BY PushGoesLast
<1> HIDE DEF s
<1>2. s = [i \in 1 .. n |-> k + i] => Append(s, e) = [i \in 1 .. n + 1 |-> k + i]
  BY <1>1, AppendContinues
<1>3. QED
  BY <1>1, <1>2, Zenon DEF s, Numbered

-----------------------------------------------------------------------------
(* The pool by itself *)
PoolNext ==
  \/ \E j \in Job : Enqueue(j)
  \/ AcceptFails \/ NotifyOne \/ NotifyAll \/ Join
  \/ \E w \in Worker : LockAndLook(w) \/ TimeOut(w) \/ Done(w)

(* The base threads are there until a shutdown, and no thread after it.    *)
BaseThreadsStay ==
  /\ ~ShuttingDown => \A w \in 1 .. BaseThreads : worker[w] # "off"
  /\ listener = "stopped" => \A w \in Worker : worker[w] = "off"

PoolInv == PoolTypeOK /\ BaseThreadsStay /\ NoLostWakeup

LEMMA ThreadSets ==
  /\ Dynamic \subseteq Worker /\ 1 .. BaseThreads \subseteq Worker
  /\ 1 \in 1 .. BaseThreads /\ \A w \in Dynamic : w \notin 1 .. BaseThreads
BY PoolAssumption DEF Worker, Dynamic

LEMMA PoolTypes == PoolTypeOK /\ [PoolNext]_poolVars => PoolTypeOK'
<1> SUFFICES ASSUME PoolTypeOK, [PoolNext]_poolVars PROVE PoolTypeOK'
  OBVIOUS
<1> USE PoolAssumption, ThreadSets DEF PoolTypeOK, Move
<1>1. CASE \E j \in Job : Enqueue(j)
  <2> PICK j \in Job : Enqueue(j)
    BY <1>1
  <2>1. CASE UNCHANGED worker
    BY <2>1 DEF Enqueue
  <2>2. CASE Idle = {} /\ \E w \in Dynamic : worker[w] = "off"
    <3> DEFINE v == CHOOSE w \in Dynamic : worker[w] = "off"
    <3>1. v \in Dynamic /\ worker[v] = "off"
      BY <2>2
    <3> HIDE DEF v
    <3>2. worker' = [worker EXCEPT ![v] = "top"] /\ jobs' = Append(jobs, j)
          /\ running' = running /\ listener' = "notify"
      BY <2>2 DEF Enqueue, v
    <3>3. QED
      BY <3>1, <3>2
  <2>3. QED
    BY <2>1, <2>2 DEF Enqueue
<1>2. CASE AcceptFails
  BY <1>2 DEF AcceptFails
<1>3. CASE NotifyOne
  BY <1>3 DEF NotifyOne
<1>4. CASE NotifyAll
  BY <1>4 DEF NotifyAll
<1>5. CASE Join
  BY <1>5 DEF Join
<1>6. ASSUME NEW w \in Worker, LockAndLook(w) PROVE PoolTypeOK'
  BY <1>6 DEF LockAndLook, Take
<1>7. ASSUME NEW w \in Worker, TimeOut(w) PROVE PoolTypeOK'
  BY <1>7 DEF TimeOut, Take
<1>8. ASSUME NEW w \in Worker, Done(w) PROVE PoolTypeOK'
  BY <1>8 DEF Done
<1>9. CASE UNCHANGED poolVars
  BY <1>9 DEF poolVars
<1>10. QED
  BY <1>1, <1>2, <1>3, <1>4, <1>5, <1>6, <1>7, <1>8, <1>9 DEF PoolNext

(* A base thread leaves the loop only when the queue is empty and the pool *)
(* is shutting down.                                                       *)
LEMMA BaseThreadsKept ==
  PoolTypeOK /\ BaseThreadsStay /\ [PoolNext]_poolVars => BaseThreadsStay'
<1> SUFFICES ASSUME PoolTypeOK, BaseThreadsStay, [PoolNext]_poolVars
             PROVE  BaseThreadsStay'
  OBVIOUS
<1> USE PoolAssumption, ThreadSets DEF PoolTypeOK, BaseThreadsStay, ShuttingDown, Move
<1>1. CASE \E j \in Job : Enqueue(j)
  <2>1. PICK v \in Worker : worker' \in {worker, [worker EXCEPT ![v] = "top"]}
    <3>1. CASE UNCHANGED worker
      BY <3>1
    <3>2. CASE Idle = {} /\ \E w \in Dynamic : worker[w] = "off"
      <4>1. (CHOOSE w \in Dynamic : worker[w] = "off") \in Dynamic
        BY <3>2
      <4>2. QED
        BY <1>1, <3>2, <4>1 DEF Enqueue
    <3>3. QED
      BY <1>1, <3>1, <3>2 DEF Enqueue
  <2>2. \A w \in Worker : worker[w] # "off" => worker'[w] # "off"
    BY <2>1
  <2>3. QED
    BY <1>1, <2>2 DEF Enqueue
<1>2. CASE AcceptFails
  BY <1>2 DEF AcceptFails
<1>3. CASE NotifyOne
  BY <1>3 DEF NotifyOne
<1>4. CASE NotifyAll
  BY <1>4 DEF NotifyAll
<1>5. CASE Join
  BY <1>5 DEF Join
<1>6. ASSUME NEW w \in Worker, LockAndLook(w) PROVE BaseThreadsStay'
  BY <1>6 DEF LockAndLook, Take
<1>7. ASSUME NEW w \in Worker, TimeOut(w) PROVE BaseThreadsStay'
  BY <1>7 DEF TimeOut, Take
<1>8. ASSUME NEW w \in Worker, Done(w) PROVE BaseThreadsStay'
  BY <1>8 DEF Done
<1>9. CASE UNCHANGED poolVars
  BY <1>9 DEF poolVars
<1>10. QED
  BY <1>1, <1>2, <1>3, <1>4, <1>5, <1>6, <1>7, <1>8, <1>9 DEF PoolNext

(* A job that is enqueued finds the first base thread awake, or asleep     *)
(* with the notification to come; whoever was woken or is busy looks at    *)
(* the queue before it sleeps or leaves.                                   *)
LEMMA WakeUpsKept ==
  PoolInv /\ [PoolNext]_poolVars => NoLostWakeup'
<1> SUFFICES ASSUME PoolInv, [PoolNext]_poolVars PROVE NoLostWakeup'
  OBVIOUS
<1> USE PoolAssumption, ThreadSets
    DEF PoolInv, PoolTypeOK, BaseThreadsStay, NoLostWakeup, ShuttingDown, Move
<1>1. CASE \E j \in Job : Enqueue(j)
  <2>1. worker[1] \in {"top", "wait", "woken", "run"}
    BY <1>1 DEF Enqueue
  <2>2. worker'[1] = worker[1] /\ listener' = "notify"
    <3>1. CASE UNCHANGED worker
      BY <1>1, <3>1 DEF Enqueue
    <3>2. CASE Idle = {} /\ \E w \in Dynamic : worker[w] = "off"
      <4>1. (CHOOSE w \in Dynamic : worker[w] = "off") \in Dynamic
        BY <3>2
      <4>2. QED
        BY <1>1, <3>2, <4>1 DEF Enqueue
    <3>3. QED
      BY <1>1, <3>1, <3>2 DEF Enqueue
  <2>3. QED
    BY <2>1, <2>2
<1>2. CASE AcceptFails
  BY <1>2 DEF AcceptFails
<1>3. CASE NotifyOne
  BY <1>3 DEF NotifyOne
<1>4. CASE NotifyAll
  BY <1>4 DEF NotifyAll
<1>5. CASE Join
  BY <1>5 DEF Join
<1>6. ASSUME NEW w \in Worker, LockAndLook(w) PROVE NoLostWakeup'
  BY <1>6 DEF LockAndLook, Take
<1>7. ASSUME NEW w \in Worker, TimeOut(w) PROVE NoLostWakeup'
  BY <1>7 DEF TimeOut, Take
<1>8. ASSUME NEW w \in Worker, Done(w) PROVE NoLostWakeup'
  BY <1>8 DEF Done
<1>9. CASE UNCHANGED poolVars
  BY <1>9 DEF poolVars
<1>10. QED
  BY <1>1, <1>2, <1>3, <1>4, <1>5, <1>6, <1>7, <1>8, <1>9 DEF PoolNext

LEMMA PoolInvariant ==
  /\ PoolInit => PoolInv
  /\ PoolInv /\ [PoolNext]_poolVars => PoolInv'
<1>1. PoolInit => PoolInv
  BY PoolAssumption, ThreadSets
     DEF PoolInit, PoolInv, PoolTypeOK, BaseThreadsStay, NoLostWakeup, ShuttingDown
<1>2. QED
  BY <1>1, PoolTypes, BaseThreadsKept, WakeUpsKept DEF PoolInv

(* A step of the server is a step of the pool or does not concern it.      *)
LEMMA ServerStepsPool == [ServerNext]_serverVars => [PoolNext]_poolVars
<1> SUFFICES ASSUME [ServerNext]_serverVars PROVE [PoolNext]_poolVars
  OBVIOUS
<1>1. ASSUME NEW c \in Job, Accept(c) PROVE PoolNext
  BY <1>1 DEF Accept, PoolNext
<1>2. ASSUME NEW w \in Worker, WorkerStep(w) PROVE [PoolNext]_poolVars
  BY <1>2 DEF WorkerStep, PoolStep, Serve, OpenStream, HangUp, CloseStream, Answer, PoolNext
<1>3. CASE AcceptorStep
  BY <1>3 DEF AcceptorStep, ListenerStep, PoolNext
<1>4. CASE UNCHANGED serverVars
  BY <1>4 DEF serverVars
<1>5. QED
  BY <1>1, <1>2, <1>3, <1>4 DEF ServerNext, PoolNext, StartBroadcast

(* No notification of the pool's condition variable is lost, however many  *)
(* threads it has and whatever they are doing (ThreadPool::enqueue and     *)
(* worker).                                                                *)
THEOREM NoWakeupIsLost == ServerSpec => []NoLostWakeup
<1>1. ServerInit => PoolInv
  BY PoolInvariant DEF ServerInit
<1>2. PoolInv /\ [ServerNext]_serverVars => PoolInv'
  BY PoolInvariant, ServerStepsPool
<1>3. PoolInv => NoLostWakeup
  BY DEF PoolInv
<1>4. QED
  BY <1>1, <1>2, <1>3, PTL DEF ServerSpec

-----------------------------------------------------------------------------
(* The broadcaster by itself *)
Connect ==
  /\ connected' \in SUBSET Client
  /\ UNCHANGED <<list_mtx, todo, count, subs, queue, stream, to_send, received, joined>>

BroadcasterNext ==
  \/ \E h \in Handler : Broadcast(h)
  \/ \E h \in Handler, c \in Client : Push(h, c)
  \/ \E c \in Client : \/ Subscribe(c) \/ Check(c) \/ Swap(c) \/ Heartbeat(c)
                       \/ Write(c) \/ Unsubscribe(c)
  \/ Connect

(* A stream writes while there is something to write, and a new subscriber *)
(* starts with nothing.                                                    *)
StreamsClean ==
  \A c \in Client :
    /\ stream[c] \in {"off", "check", "wait"} => to_send[c] = <<>>
    /\ stream[c] = "write" => to_send[c] # <<>>
    /\ stream[c] = "off" => queue[c] = <<>> /\ received[c] = <<>>

(* An event is put only into queues of those who subscribed before it.     *)
TodoEarlier == \A c \in todo : joined[c] < count

BroadcasterInv ==
  BroadcasterTypeOK /\ StreamsClean /\ TodoEarlier /\ EveryEventOnceInOrder

LEMMA BroadcasterTypes ==
  BroadcasterTypeOK /\ StreamsClean /\ TodoEarlier /\ [BroadcasterNext]_broadcasterVars
    => BroadcasterTypeOK'
<1> SUFFICES ASSUME BroadcasterTypeOK, StreamsClean, TodoEarlier,
                    [BroadcasterNext]_broadcasterVars
             PROVE  BroadcasterTypeOK'
  OBVIOUS
<1> USE BroadcasterAssumption DEF BroadcasterTypeOK
<1>1. ASSUME NEW h \in Handler, Broadcast(h) PROVE BroadcasterTypeOK'
  BY <1>1 DEF Broadcast
<1>2. ASSUME NEW h \in Handler, NEW c \in Client, Push(h, c) PROVE BroadcasterTypeOK'
  <2>1. count \in Event
    BY <1>2 DEF Push, NextSubscriber, TodoEarlier, Event
  <2>2. Append(queue[c], count) \in Seq(Event)
    BY <2>1, AppendProperties
  <2>3. queue' \in [Client -> Seq(Event)]
    BY <1>2, <2>2 DEF Push
  <2>4. /\ list_mtx' \in Handler \cup {Free} /\ todo' \subseteq subs
        /\ list_mtx' = Free <=> todo' = {}
    BY <1>2 DEF Push, NextSubscriber
  <2>5. QED
    BY <1>2, <2>3, <2>4 DEF Push, NextSubscriber
<1>3. ASSUME NEW c \in Client, Subscribe(c) PROVE BroadcasterTypeOK'
  BY <1>3 DEF Subscribe
<1>4. ASSUME NEW c \in Client, Check(c) PROVE BroadcasterTypeOK'
  BY <1>4 DEF Check
<1>5. ASSUME NEW c \in Client, Swap(c) PROVE BroadcasterTypeOK'
  BY <1>5 DEF Swap
<1>6. ASSUME NEW c \in Client, Heartbeat(c) PROVE BroadcasterTypeOK'
  BY <1>6 DEF Heartbeat
<1>7. ASSUME NEW c \in Client, Write(c) PROVE BroadcasterTypeOK'
  <2>1. to_send[c] \in Seq(Event) /\ to_send[c] # <<>> /\ received[c] \in Seq(Event)
    BY <1>7 DEF Write, StreamsClean
  <2>2. Append(received[c], Head(to_send[c])) \in Seq(Event) /\ Tail(to_send[c]) \in Seq(Event)
    BY ONLY <2>1, HeadTailProperties, AppendProperties
  <2>3. /\ received' \in [Client -> Seq(Event)] /\ to_send' \in [Client -> Seq(Event)]
        /\ stream' \in [Client -> {"off", "check", "wait", "write", "closing"}]
    <3>1. CASE c \in connected
      <4>1. /\ received' = [received EXCEPT ![c] = Append(received[c], Head(to_send[c]))]
            /\ to_send' = [to_send EXCEPT ![c] = Tail(to_send[c])]
            /\ stream' = [stream EXCEPT ![c] = IF Len(to_send[c]) = 1 THEN "check" ELSE "write"]
        BY <1>7, <3>1 DEF Write
      <4>2. QED
        BY <2>2, <4>1
    <3>2. CASE c \notin connected
      BY <1>7, <3>2 DEF Write
    <3>3. QED
      BY <3>1, <3>2
  <2>4. subs' = {d \in Client : stream'[d] # "off"}
    BY <1>7 DEF Write
  <2>5. QED
    BY <1>7, <2>3, <2>4 DEF Write
<1>8. ASSUME NEW c \in Client, Unsubscribe(c) PROVE BroadcasterTypeOK'
  BY <1>8 DEF Unsubscribe
<1>9. CASE Connect
  BY <1>9 DEF Connect
<1>10. CASE UNCHANGED broadcasterVars
  BY <1>10 DEF broadcasterVars
<1>11. QED
  BY <1>1, <1>2, <1>3, <1>4, <1>5, <1>6, <1>7, <1>8, <1>9, <1>10 DEF BroadcasterNext

LEMMA StreamsStayClean ==
  BroadcasterTypeOK /\ StreamsClean /\ TodoEarlier /\ [BroadcasterNext]_broadcasterVars
    => StreamsClean' /\ TodoEarlier'
<1> SUFFICES ASSUME BroadcasterTypeOK, StreamsClean, TodoEarlier,
                    [BroadcasterNext]_broadcasterVars
             PROVE  StreamsClean' /\ TodoEarlier'
  OBVIOUS
<1> USE BroadcasterAssumption DEF BroadcasterTypeOK, Event, StreamsClean, TodoEarlier
<1>1. ASSUME NEW h \in Handler, Broadcast(h) PROVE StreamsClean' /\ TodoEarlier'
  BY <1>1 DEF Broadcast
<1>2. ASSUME NEW h \in Handler, NEW c \in Client, Push(h, c)
      PROVE  StreamsClean' /\ TodoEarlier'
  BY <1>2 DEF Push, NextSubscriber
<1>3. ASSUME NEW c \in Client, Subscribe(c) PROVE StreamsClean' /\ TodoEarlier'
  BY <1>3 DEF Subscribe
<1>4. ASSUME NEW c \in Client, Check(c) PROVE StreamsClean' /\ TodoEarlier'
  BY <1>4 DEF Check
<1>5. ASSUME NEW c \in Client, Swap(c) PROVE StreamsClean' /\ TodoEarlier'
  BY <1>5 DEF Swap
<1>6. ASSUME NEW c \in Client, Heartbeat(c) PROVE StreamsClean' /\ TodoEarlier'
  BY <1>6 DEF Heartbeat
<1>7. ASSUME NEW c \in Client, Write(c) PROVE StreamsClean' /\ TodoEarlier'
  <2>1. to_send[c] \in Seq(Event) /\ to_send[c] # <<>>
    BY <1>7 DEF Write
  <2>2. Tail(to_send[c]) = <<>> <=> Len(to_send[c]) = 1
    BY <2>1, LastOneWritten
  <2>3. \A d \in Client \ {c} : /\ stream'[d] = stream[d] /\ to_send'[d] = to_send[d]
                                 /\ queue'[d] = queue[d] /\ received'[d] = received[d]
    BY <1>7 DEF Write
  <2>4. \/ stream'[c] = "check" /\ to_send'[c] = <<>>
        \/ stream'[c] = "write" /\ to_send'[c] # <<>>
        \/ stream'[c] = "closing"
    BY <1>7, <2>2 DEF Write
  <2>5. StreamsClean'
    BY <2>3, <2>4
  <2>6. QED
    BY <1>7, <2>5 DEF Write
<1>8. ASSUME NEW c \in Client, Unsubscribe(c) PROVE StreamsClean' /\ TodoEarlier'
  BY <1>8 DEF Unsubscribe
<1>9. CASE Connect
  BY <1>9 DEF Connect
<1>10. CASE UNCHANGED broadcasterVars
  BY <1>10 DEF broadcasterVars
<1>11. QED
  BY <1>1, <1>2, <1>3, <1>4, <1>5, <1>6, <1>7, <1>8, <1>9, <1>10 DEF BroadcasterNext

(* What a subscriber has are the events it was given, in order *)
InOrder(c) ==
  Numbered(received[c] \o to_send[c] \o queue[c], Given(c) - joined[c], joined[c])

(* A step that leaves alone what a subscriber has and was given            *)
LEMMA OrderUntouched ==
  ASSUME NEW d, InOrder(d), received'[d] = received[d], to_send'[d] = to_send[d],
         queue'[d] = queue[d], Given(d)' = Given(d), joined'[d] = joined[d]
  PROVE  InOrder(d)'
BY DEF InOrder

(* Each step keeps, for every subscriber, the sequence of what it read, is *)
(* about to be sent and has queued, or appends the event it is due.        *)
LEMMA OrderKept ==
  BroadcasterInv /\ [BroadcasterNext]_broadcasterVars => EveryEventOnceInOrder'
<1> SUFFICES ASSUME BroadcasterInv, [BroadcasterNext]_broadcasterVars, NEW d \in subs'
             PROVE  InOrder(d)'
  BY DEF EveryEventOnceInOrder, InOrder, Numbered
<1> USE BroadcasterAssumption
<1>a. BroadcasterTypeOK /\ StreamsClean /\ TodoEarlier
  BY DEF BroadcasterInv
<1>b. d \in subs => InOrder(d)
  BY DEF BroadcasterInv, EveryEventOnceInOrder, InOrder, Numbered
<1>1. ASSUME NEW h \in Handler, Broadcast(h) PROVE InOrder(d)'
  <2>1. d \in subs /\ d \notin todo /\ d \in todo'
    BY <1>1, <1>a DEF Broadcast, BroadcasterTypeOK
  <2>2. Given(d)' = Given(d)
    BY <1>1, <1>a, <2>1 DEF Broadcast, Given, BroadcasterTypeOK
  <2>3. QED
    BY <1>1, <1>b, <2>1, <2>2, OrderUntouched DEF Broadcast
<1>2. ASSUME NEW h \in Handler, NEW c \in Client, Push(h, c) PROVE InOrder(d)'
  <2>0. d \in subs /\ d \in Client
    BY <1>2, <1>a DEF Push, NextSubscriber, BroadcasterTypeOK
  <2>1. CASE d # c
    <3>1. /\ received'[d] = received[d] /\ to_send'[d] = to_send[d]
          /\ queue'[d] = queue[d] /\ Given(d)' = Given(d) /\ joined'[d] = joined[d]
      BY <1>2, <1>a, <2>0, <2>1 DEF Push, NextSubscriber, Given, BroadcasterTypeOK
    <3>2. QED
      BY <2>0, <1>b, <3>1, OrderUntouched
  <2>2. CASE d = c
    <3>1. /\ Given(d) = count - 1 /\ Given(d)' = count /\ joined[d] \in Nat
          /\ joined' = joined /\ joined[d] < count /\ count \in Event /\ count \in Nat
      BY <1>2, <1>a, <2>2
         DEF Push, NextSubscriber, Given, TodoEarlier, Event, BroadcasterTypeOK
    <3>2. /\ received[d] \in Seq(Event) /\ to_send[d] \in Seq(Event)
          /\ queue[d] \in Seq(Event) /\ received'[d] = received[d]
          /\ to_send'[d] = to_send[d] /\ queue'[d] = Append(queue[d], count)
      BY <1>2, <1>a, <2>2 DEF Push, NextSubscriber, BroadcasterTypeOK
    <3>3. /\ count - 1 - joined[d] \in Nat
          /\ count = joined[d] + (count - 1 - joined[d]) + 1
          /\ (count - 1 - joined[d]) + 1 = count - joined[d]
      BY ONLY <3>1
    <3>4. Numbered(received[d] \o to_send[d] \o queue[d], count - 1 - joined[d], joined[d])
      BY <1>b, <2>0, <3>1 DEF InOrder
    <3>5. ASSUME NEW n \in Nat, NEW k \in Nat, count = k + n + 1,
                 Numbered(received[d] \o to_send[d] \o queue[d], n, k)
          PROVE  Numbered(received[d] \o to_send[d] \o Append(queue[d], count), n + 1, k)
      <4>1. \A r, t, q \in Seq(Event) :
              Numbered(r \o t \o q, n, k) => Numbered(r \o t \o Append(q, count), n + 1, k)
        BY ONLY <3>1, <3>5, PushContinues
      <4>2. QED
        BY ONLY <3>2, <3>5, <4>1, Zenon
    <3>6. Numbered(received[d] \o to_send[d] \o Append(queue[d], count),
                   (count - 1 - joined[d]) + 1, joined[d])
      BY ONLY <3>1, <3>3, <3>4, <3>5
    <3>7. QED
      BY ONLY <3>1, <3>2, <3>3, <3>6 DEF InOrder
  <2>3. QED
    BY <2>1, <2>2
<1>3. ASSUME NEW c \in Client, Subscribe(c) PROVE InOrder(d)'
  <2>1. CASE d # c
    <3>1. d \in subs /\ Given(d)' = Given(d) /\ joined'[d] = joined[d]
      BY <1>3, <1>a, <2>1 DEF Subscribe, Given, BroadcasterTypeOK
    <3>2. QED
      BY <1>3, <3>1, <1>b, OrderUntouched DEF Subscribe
  <2>2. CASE d = c
    <3>1. /\ received'[d] = <<>> /\ to_send'[d] = <<>> /\ queue'[d] = <<>>
          /\ joined'[d] = count /\ Given(d)' = count /\ count \in Nat
      BY <1>3, <1>a, <2>2 DEF Subscribe, StreamsClean, Given, BroadcasterTypeOK
    <3>2. Numbered(<<>> \o <<>> \o <<>>, 0, count)
      BY ConcatEmptySeq, EmptySeq DEF Numbered
    <3>3. count - count = 0
      BY <3>1
    <3>4. QED
      BY ONLY <3>1, <3>2, <3>3 DEF InOrder
  <2>3. QED
    BY <2>1, <2>2
<1>4. ASSUME NEW c \in Client, Check(c) \/ Heartbeat(c) PROVE InOrder(d)'
  BY <1>4, <1>b, OrderUntouched DEF Check, Heartbeat, Given
<1>5. ASSUME NEW c \in Client, Swap(c) PROVE InOrder(d)'
  <2>0. d \in subs /\ Given(d)' = Given(d) /\ joined' = joined /\ received' = received
    BY <1>5 DEF Swap, Given
  <2>1. CASE d # c
    BY <1>5, <1>a, <1>b, <2>0, <2>1, OrderUntouched DEF Swap, BroadcasterTypeOK
  <2>2. CASE d = c
    <3>1. /\ to_send[d] = <<>> /\ to_send'[d] = queue[d] /\ queue'[d] = <<>>
          /\ received[d] \in Seq(Event) /\ queue[d] \in Seq(Event)
      BY <1>5, <1>a, <2>2 DEF Swap, StreamsClean, BroadcasterTypeOK
    <3>2. received[d] \o queue[d] \o <<>> = received[d] \o <<>> \o queue[d]
      BY ONLY <3>1, SwapKeepsOrder
    <3>3. QED
      BY <2>0, <3>1, <3>2, <1>b DEF InOrder
  <2>3. QED
    BY <2>1, <2>2
<1>6. ASSUME NEW c \in Client, Write(c) PROVE InOrder(d)'
  <2>0. d \in subs /\ Given(d)' = Given(d) /\ joined' = joined /\ queue' = queue
    BY <1>6 DEF Write, Given
  <2>1. CASE d # c \/ c \notin connected
    BY <1>6, <1>a, <1>b, <2>0, <2>1, OrderUntouched DEF Write, BroadcasterTypeOK
  <2>2. CASE d = c /\ c \in connected
    <3>1. /\ received'[d] = Append(received[d], Head(to_send[d]))
          /\ to_send'[d] = Tail(to_send[d]) /\ to_send[d] # <<>>
          /\ received[d] \in Seq(Event) /\ to_send[d] \in Seq(Event)
          /\ queue[d] \in Seq(Event)
      BY <1>6, <1>a, <2>2 DEF Write, StreamsClean, BroadcasterTypeOK
    <3>2. Append(received[d], Head(to_send[d])) \o Tail(to_send[d]) \o queue[d]
            = received[d] \o to_send[d] \o queue[d]
      <4>1. \A r, t, q \in Seq(Event) :
              t # <<>> => Append(r, Head(t)) \o Tail(t) \o q = r \o t \o q
        BY ONLY WriteKeepsOrder
      <4>2. QED
        BY ONLY <3>1, <4>1, Zenon
    <3>3. QED
      BY <2>0, <3>1, <3>2, <1>b DEF InOrder
  <2>3. QED
    BY <2>1, <2>2
<1>7. ASSUME NEW c \in Client, Unsubscribe(c) PROVE InOrder(d)'
  <2>1. d \in subs /\ d # c /\ Given(d)' = Given(d)
    BY <1>7 DEF Unsubscribe, Given
  <2>2. QED
    BY <1>7, <1>a, <1>b, <2>1, OrderUntouched DEF Unsubscribe, BroadcasterTypeOK
<1>8. CASE Connect
  BY <1>8, <1>b, OrderUntouched DEF Connect, Given
<1>9. CASE UNCHANGED broadcasterVars
  BY <1>9, <1>b, OrderUntouched DEF broadcasterVars, Given
<1>10. QED
  BY <1>1, <1>2, <1>3, <1>4, <1>5, <1>6, <1>7, <1>8, <1>9 DEF BroadcasterNext

LEMMA BroadcasterInvariant ==
  /\ BroadcasterInit => BroadcasterInv
  /\ BroadcasterInv /\ [BroadcasterNext]_broadcasterVars => BroadcasterInv'
<1>1. BroadcasterInit => BroadcasterInv
  BY BroadcasterAssumption
     DEF BroadcasterInit, BroadcasterInv, BroadcasterTypeOK, StreamsClean, TodoEarlier,
         EveryEventOnceInOrder
<1>2. QED
  BY <1>1, BroadcasterTypes, StreamsStayClean, OrderKept DEF BroadcasterInv

(* A step of the server is a step of the broadcaster or does not concern   *)
(* it.                                                                     *)
LEMMA ServerStepsBroadcaster ==
  ServerTypeOK /\ [ServerNext]_serverVars => [BroadcasterNext]_broadcasterVars
<1> SUFFICES ASSUME ServerTypeOK, [ServerNext]_serverVars
             PROVE  [BroadcasterNext]_broadcasterVars
  OBVIOUS
<1> USE ServerAssumption DEF ServerTypeOK
<1>1. ASSUME NEW c \in Job, Accept(c) PROVE [BroadcasterNext]_broadcasterVars
  BY <1>1 DEF Accept, BroadcasterNext, Connect, BroadcasterTypeOK
<1>2. ASSUME NEW w \in Worker, WorkerStep(w) PROVE [BroadcasterNext]_broadcasterVars
  <2>1. ASSUME NEW c, Serve(c) PROVE BroadcasterNext
    <3>1. CASE OpenStream(c)
      BY <3>1 DEF OpenStream, BroadcasterNext
    <3>2. CASE StreamStep(c)
      BY <3>2 DEF StreamStep, BroadcasterNext
    <3>3. ASSUME NEW d \in todo, Push(c, d) PROVE BroadcasterNext
      BY <3>3 DEF Push, NextSubscriber, BroadcasterNext, BroadcasterTypeOK
    <3>4. QED
      BY <2>1, <3>1, <3>2, <3>3 DEF Serve
  <2>2. CASE CloseStream(w)
    BY <2>2 DEF CloseStream, BroadcasterNext
  <2>3. QED
    BY <1>2, <2>1, <2>2 DEF WorkerStep, HangUp, Answer
<1>3. ASSUME NEW h \in Handler, StartBroadcast(h) PROVE BroadcasterNext
  BY <1>3 DEF StartBroadcast, BroadcasterNext
<1>4. ASSUME NEW c \in Client, Disconnect(c) PROVE BroadcasterNext
  BY <1>4 DEF Disconnect, BroadcasterNext, Connect, BroadcasterTypeOK
<1>5. QED
  BY <1>1, <1>2, <1>3, <1>4 DEF ServerNext, AcceptorStep, serverVars

-----------------------------------------------------------------------------
(* A dashboard is subscribed only while a thread of the pool serves it, and *)
(* listen returns only when every thread has left.                         *)
SubscribersServed == subs \subseteq Served

ServerInv == PoolInv /\ BroadcasterInv /\ SubscribersServed

LEMMA SubscribersStayServed ==
  ServerInv /\ [ServerNext]_serverVars => SubscribersServed'
<1> SUFFICES ASSUME ServerInv, [ServerNext]_serverVars PROVE SubscribersServed'
  OBVIOUS
<1>clients. subs' \subseteq Client /\ NoJob \notin Client
  <2>1. BroadcasterInv'
    BY BroadcasterInvariant, ServerStepsBroadcaster
       DEF ServerInv, ServerTypeOK, PoolInv, BroadcasterInv
  <2>2. QED
    BY <2>1, PoolAssumption, ServerAssumption DEF BroadcasterInv, BroadcasterTypeOK
<1> SUFFICES ASSUME NEW d \in subs' PROVE \E w \in Worker : running'[w] = d
  BY <1>clients DEF SubscribersServed, Served
<1> USE ServerAssumption, PoolAssumption
    DEF ServerInv, PoolInv, PoolTypeOK, BroadcasterInv, BroadcasterTypeOK
<1>a. d \in subs => \E w \in Worker : running[w] = d
  BY DEF SubscribersServed, Served
<1>b. ASSUME d \in subs, UNCHANGED running PROVE \E w \in Worker : running'[w] = d
  BY <1>a, <1>b
<1>c. ASSUME NEW w \in Worker, Done(w), d \in subs, running[w] # d
      PROVE  \E v \in Worker : running'[v] = d
  BY <1>a, <1>c DEF Done
<1>d. ASSUME NEW w \in Worker, Take(w), worker[w] # "run", d \in subs
      PROVE  \E v \in Worker : running'[v] = d
  <2>1. running[w] = NoJob /\ d # NoJob
    BY <1>d
  <2>2. QED
    BY <1>a, <1>d, <2>1 DEF Take
<1>1. ASSUME NEW c \in Job, Accept(c) PROVE \E w \in Worker : running'[w] = d
  BY <1>1, <1>b DEF Accept, Enqueue
<1>2. ASSUME NEW w \in Worker, PoolStep(w), UNCHANGED broadcasterVars
      PROVE  \E v \in Worker : running'[v] = d
  BY <1>2, <1>b, <1>d DEF PoolStep, LockAndLook, TimeOut, broadcasterVars
<1>3. ASSUME NEW w \in Worker, running[w] # NoJob, Serve(running[w])
      PROVE  \E v \in Worker : running'[v] = d
  <2>1. UNCHANGED running
    BY <1>3 DEF Serve, OpenStream, poolVars
  <2>2. d \in subs \/ d = running[w]
    BY <1>3 DEF Serve, OpenStream, Subscribe, StreamStep, Check, Swap, Heartbeat, Write,
                Push, NextSubscriber
  <2>3. QED
    BY <1>b, <2>1, <2>2
<1>4. ASSUME NEW w \in Worker, HangUp(w) PROVE \E v \in Worker : running'[v] = d
  <2>1. d \in subs /\ stream[running[w]] = "off"
    BY <1>4 DEF HangUp, broadcasterVars
  <2>2. QED
    BY <1>4, <1>c, <2>1 DEF HangUp
<1>5. ASSUME NEW w \in Worker, CloseStream(w) PROVE \E v \in Worker : running'[v] = d
  <2>1. d \in subs /\ d # running[w]
    BY <1>5 DEF CloseStream, Unsubscribe
  <2>2. QED
    BY <1>5, <1>c, <2>1 DEF CloseStream
<1>6. ASSUME NEW w \in Worker, Answer(w) PROVE \E v \in Worker : running'[v] = d
  <2>1. d \in subs /\ running[w] \in Handler
    BY <1>6 DEF Answer, broadcasterVars
  <2>2. QED
    BY <1>6, <1>c, <2>1 DEF Answer
<1>7. CASE AcceptFails /\ UNCHANGED broadcasterVars
  BY <1>7, <1>b DEF AcceptFails, broadcasterVars
<1>8. CASE AcceptorStep
  BY <1>8, <1>b DEF AcceptorStep, ListenerStep, NotifyOne, NotifyAll, Join, broadcasterVars
<1>9. ASSUME NEW h \in Handler, StartBroadcast(h) PROVE \E w \in Worker : running'[w] = d
  BY <1>9, <1>b DEF StartBroadcast, Broadcast, poolVars
<1>10. ASSUME NEW c \in Client, Disconnect(c), UNCHANGED poolVars
       PROVE  \E w \in Worker : running'[w] = d
  BY <1>10, <1>b DEF Disconnect, poolVars
<1>11. CASE UNCHANGED serverVars
  BY <1>11, <1>b DEF serverVars, broadcasterVars, poolVars
<1>12. QED
  BY <1>1, <1>2, <1>3, <1>4, <1>5, <1>6, <1>7, <1>8, <1>9, <1>10, <1>11
     DEF ServerNext, WorkerStep

LEMMA ServerInvariant == ServerSpec => []ServerInv
<1>1. ServerInit => ServerInv
  BY PoolInvariant, BroadcasterInvariant
     DEF ServerInit, ServerInv, SubscribersServed, BroadcasterInit
<1>2. ServerInv /\ [ServerNext]_serverVars => ServerInv'
  BY PoolInvariant, ServerStepsPool, BroadcasterInvariant, ServerStepsBroadcaster,
     SubscribersStayServed
     DEF ServerInv, ServerTypeOK, PoolInv, BroadcasterInv
<1>3. QED
  BY <1>1, <1>2, PTL DEF ServerSpec

(* What each dashboard has read, is about to be sent and has queued are    *)
(* all events since it subscribed, once each and in one order, for any     *)
(* number of dashboards, agents and threads (EventBroadcaster, the stream  *)
(* of GET /events).                                                        *)
THEOREM EventsInOrder == ServerSpec => []EveryEventOnceInOrder
<1>1. ServerInv => EveryEventOnceInOrder
  BY DEF ServerInv, BroadcasterInv
<1>2. QED
  BY <1>1, ServerInvariant, PTL

(* When listen has returned, nothing that was accepted is left unserved    *)
(* and nobody is still subscribed (ThreadPool::shutdown and worker).       *)
THEOREM StoppedServed == ServerSpec => []StoppedMeansServed
<1>1. ServerInv => StoppedMeansServed
  <2> SUFFICES ASSUME ServerInv, listener = "stopped"
               PROVE  jobs = <<>> /\ Served = {} /\ subs = {}
    BY DEF StoppedMeansServed
  <2>1. \A w \in Worker : worker[w] = "off"
    BY DEF ServerInv, PoolInv, BaseThreadsStay
  <2>2. jobs = <<>>
    BY <2>1 DEF ServerInv, PoolInv, NoLostWakeup
  <2>3. Served = {}
    BY <2>1 DEF ServerInv, PoolInv, PoolTypeOK, Served
  <2>4. QED
    BY <2>2, <2>3 DEF ServerInv, SubscribersServed
<1>2. QED
  BY <1>1, ServerInvariant, PTL

(* Every variable of the server keeps its type.                            *)
THEOREM ServerTypes == ServerSpec => []ServerTypeOK
<1>1. ServerInv => ServerTypeOK
  BY DEF ServerInv, PoolInv, BroadcasterInv, ServerTypeOK
<1>2. QED
  BY <1>1, ServerInvariant, PTL
=============================================================================
