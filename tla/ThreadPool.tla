----------------------------- MODULE ThreadPool -----------------------------
(***************************************************************************)
(* The thread pool of the HTTP server and the loop that accepts            *)
(* connections (ThreadPool, Server::listen_internal in                     *)
(* src/gateway/httplib.h): base threads that live as long as the server,   *)
(* dynamic ones that are started when no thread is idle and leave when     *)
(* there is nothing to do, one queue, one mutex, one condition variable.   *)
(*                                                                         *)
(* What a thread does under the mutex is one step.  A thread is            *)
(*   off    not there: a dynamic one not started yet or gone again         *)
(*   top    about to lock the mutex at the top of the loop of worker       *)
(*   wait   asleep on the condition variable                               *)
(*   woken  notified, and about to lock the mutex again                    *)
(*   run    in a job                                                       *)
(*                                                                         *)
(* The gateway sets no limit on the queue (max_queued_requests_ is 0), and *)
(* never calls stop; the pool shuts down when accept fails for another     *)
(* reason than a lack of descriptors.                                      *)
(***************************************************************************)
EXTENDS Naturals, Sequences, FiniteSets

CONSTANTS
  Job,           \* what the pool is given: a connection
  NoJob,         \* the job of a thread that has none
  BaseThreads,   \* base_thread_count_, at least 8
  MaxThreads     \* max_thread_count_, four times as many

ASSUME PoolAssumption ==
  /\ BaseThreads \in Nat \ {0} /\ MaxThreads \in Nat /\ BaseThreads <= MaxThreads
  /\ NoJob \notin Job

VARIABLES
  jobs,      \* jobs_
  worker,    \* where each thread is
  running,   \* its job
  listener   \* where the thread in listen_internal is

poolVars == <<jobs, worker, running, listener>>

Worker == 1 .. MaxThreads
Dynamic == BaseThreads + 1 .. MaxThreads

PoolTypeOK ==
  /\ jobs \in Seq(Job)
  /\ worker \in [Worker -> {"off", "top", "wait", "woken", "run"}]
  /\ running \in [Worker -> Job \cup {NoJob}]
  /\ listener \in {"accept", "notify", "notify_all", "join", "stopped"}
  /\ \A w \in Worker : worker[w] = "run" <=> running[w] # NoJob

PoolInit ==
  /\ jobs = <<>>
  /\ worker = [w \in Worker |-> IF w \in Dynamic THEN "off" ELSE "top"]
  /\ running = [w \in Worker |-> NoJob]
  /\ listener = "accept"

Move(w, place) == worker' = [worker EXCEPT ![w] = place]

(* shutdown_ *)
ShuttingDown == listener \in {"notify_all", "join", "stopped"}

(* idle_thread_count_ goes up before a thread waits and down after it has  *)
(* locked the mutex again: one that was notified still counts as idle.     *)
Idle == {w \in Worker : worker[w] \in {"wait", "woken"}}

-----------------------------------------------------------------------------
(* The thread that accepts: a connection is accepted and enqueued.         *)
Enqueue(j) ==
  /\ listener = "accept"
  /\ jobs' = Append(jobs, j)
  /\ IF Idle = {} /\ \E w \in Dynamic : worker[w] = "off"
     THEN Move(CHOOSE w \in Dynamic : worker[w] = "off", "top")
     ELSE UNCHANGED worker
  /\ listener' = "notify"
  /\ UNCHANGED running

(* notify_one, after the mutex was unlocked; lost when nobody waits.       *)
NotifyOne ==
  /\ listener = "notify"
  /\ \/ \E w \in Worker : worker[w] = "wait" /\ Move(w, "woken")
     \/ (\A w \in Worker : worker[w] # "wait") /\ UNCHANGED worker
  /\ listener' = "accept"
  /\ UNCHANGED <<jobs, running>>

(* accept fails, and the loop ends: shutdown sets shutdown_.               *)
AcceptFails ==
  /\ listener = "accept"
  /\ listener' = "notify_all"
  /\ UNCHANGED <<jobs, worker, running>>

NotifyAll ==
  /\ listener = "notify_all"
  /\ worker' = [w \in Worker |-> IF worker[w] = "wait" THEN "woken" ELSE worker[w]]
  /\ listener' = "join"
  /\ UNCHANGED <<jobs, running>>

(* Every thread is joined, the base ones first, and listen returns.        *)
Join ==
  /\ listener = "join" /\ \A w \in Worker : worker[w] = "off"
  /\ listener' = "stopped"
  /\ UNCHANGED <<jobs, worker, running>>

-----------------------------------------------------------------------------
(* The threads of the pool                                                 *)
Take(w) ==
  /\ jobs # <<>>
  /\ running' = [running EXCEPT ![w] = Head(jobs)]
  /\ jobs' = Tail(jobs)
  /\ Move(w, "run")

(* SEEDED FAULT for LockAndLook: a shutdown is looked at before the queue. *)
LockAndLeave(w) ==
  /\ worker[w] \in {"top", "woken"}
  /\ \/ ~ShuttingDown /\ Take(w)
     \/ /\ ShuttingDown \/ jobs = <<>>
        /\ Move(w, IF ShuttingDown THEN "off" ELSE "wait")
        /\ UNCHANGED <<jobs, running>>
  /\ UNCHANGED listener

(* The predicate of the wait is looked at under the mutex, before the      *)
(* thread sleeps and whenever it is woken; the queue is emptied before a   *)
(* shutdown ends the thread.                                               *)
LockAndLook(w) ==
  /\ worker[w] \in {"top", "woken"}
  /\ \/ Take(w)
     \/ /\ jobs = <<>>
        /\ Move(w, IF ShuttingDown THEN "off" ELSE "wait")
        /\ UNCHANGED <<jobs, running>>
  /\ UNCHANGED listener

(* SEEDED FAULT for TimeOut: the timeout alone ends the thread. *)
TimeOutBlindly(w) ==
  /\ w \in Dynamic /\ worker[w] \in {"wait", "woken"}
  /\ Move(w, "off")
  /\ UNCHANGED <<jobs, running, listener>>

(* A dynamic thread waits three seconds at most; a job that came by then   *)
(* is taken even so.                                                       *)
TimeOut(w) ==
  /\ w \in Dynamic /\ worker[w] \in {"wait", "woken"}
  /\ \/ Take(w)
     \/ jobs = <<>> /\ Move(w, "off") /\ UNCHANGED <<jobs, running>>
  /\ UNCHANGED listener

(* The job returns.  A dynamic thread leaves if the queue is empty.        *)
Done(w) ==
  /\ worker[w] = "run"
  /\ running' = [running EXCEPT ![w] = NoJob]
  /\ Move(w, IF w \in Dynamic /\ jobs = <<>> THEN "off" ELSE "top")
  /\ UNCHANGED <<jobs, listener>>

PoolStep(w) == LockAndLook(w) \/ TimeOut(w)
ListenerStep == NotifyOne \/ NotifyAll \/ Join

-----------------------------------------------------------------------------
(* No wake-up is lost: while a job is queued, some thread is on its way to *)
(* the queue or in a job after which it looks there, or the notification   *)
(* is still to come and somebody sleeps to receive it.                     *)
NoLostWakeup ==
  jobs # <<>> =>
    \/ \E w \in Worker : worker[w] \in {"top", "woken", "run"}
    \/ listener = "notify" /\ \E w \in Worker : worker[w] = "wait"
=============================================================================
