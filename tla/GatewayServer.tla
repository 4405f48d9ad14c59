--------------------------- MODULE GatewayServer ---------------------------
(***************************************************************************)
(* The gateway as a server: the connections of dashboards (GET /events)    *)
(* and of agents and operators (every other request) are the jobs of the   *)
(* HTTP library's pool of threads.  A dashboard keeps the thread that      *)
(* serves it until it goes away; a request may broadcast an event to the   *)
(* dashboards before it is answered.                                       *)
(***************************************************************************)
EXTENDS EventBroadcaster, ThreadPool

ASSUME ServerAssumption == Job = Handler \cup Client /\ Handler \cap Client = {}

serverVars == <<broadcasterVars, poolVars>>

ServerTypeOK == BroadcasterTypeOK /\ PoolTypeOK

ServerInit == BroadcasterInit /\ PoolInit

Queued == {jobs[i] : i \in 1 .. Len(jobs)}
Served == {running[w] : w \in Worker} \ {NoJob}

-----------------------------------------------------------------------------
(* Somebody connects, and the connection is accepted.  A client that comes *)
(* again does so when its last connection is over.                         *)
Accept(c) ==
  /\ c \notin Queued \cup Served \cup connected
  /\ Enqueue(c)
  /\ connected' = connected \cup ({c} \cap Client)
  /\ UNCHANGED <<list_mtx, todo, count, subs, queue, stream, to_send, received, joined>>

(* The request of a dashboard is read and its handler subscribes.          *)
OpenStream(c) == c \in Client /\ Subscribe(c) /\ UNCHANGED poolVars

(* A dashboard that left before its request could be read: the connection  *)
(* is closed.                                                              *)
HangUp(w) ==
  /\ running[w] \in Client \ connected /\ stream[running[w]] = "off"
  /\ Done(w)
  /\ UNCHANGED broadcasterVars

(* SEEDED FAULT for CloseStream: a stream that failed is not unsubscribed. *)
CloseStreamOnly(w) ==
  /\ running[w] \in Client /\ stream[running[w]] = "closing"
  /\ Done(w)
  /\ UNCHANGED broadcasterVars

(* A stream ends, and with it the connection.                              *)
CloseStream(w) ==
  /\ running[w] \in Client
  /\ Unsubscribe(running[w])
  /\ Done(w)

(* A request that broadcasts an event                                      *)
StartBroadcast(h) == h \in Served /\ Broadcast(h) /\ UNCHANGED poolVars

(* The last request of a connection is answered.                           *)
Answer(w) ==
  /\ running[w] \in Handler /\ list_mtx # running[w]
  /\ Done(w)
  /\ UNCHANGED broadcasterVars

(* A step of the thread that serves connection c                           *)
Serve(c) ==
  \/ OpenStream(c)
  \/ StreamStep(c) /\ UNCHANGED poolVars
  \/ (\E d \in todo : Push(c, d)) /\ UNCHANGED poolVars

WorkerStep(w) ==
  \/ PoolStep(w) /\ UNCHANGED broadcasterVars
  \/ running[w] # NoJob /\ Serve(running[w])
  \/ HangUp(w) \/ CloseStream(w) \/ Answer(w)

AcceptorStep == ListenerStep /\ UNCHANGED broadcasterVars

ServerNext ==
  \/ \E c \in Job : Accept(c)
  \/ AcceptFails /\ UNCHANGED broadcasterVars
  \/ AcceptorStep
  \/ \E w \in Worker : WorkerStep(w)
  \/ \E h \in Handler : StartBroadcast(h)
  \/ (\E c \in Client : Disconnect(c)) /\ UNCHANGED poolVars

(* A thread that can go on does: the mutexes are never held for long, a    *)
(* stream waits 20 seconds at most, and a request ends.  Nobody has to     *)
(* connect, leave or broadcast, and accept need not fail.                  *)
Fairness ==
  WF_serverVars(AcceptorStep) /\ \A w \in Worker : WF_serverVars(WorkerStep(w))

ServerSpec == ServerInit /\ [][ServerNext]_serverVars /\ Fairness

-----------------------------------------------------------------------------
(* When listen has returned, every connection that was accepted has been   *)
(* served, no dashboard is still subscribed and no thread is left          *)
(* (shutdown, worker).                                                     *)
StoppedMeansServed ==
  listener = "stopped" => jobs = <<>> /\ Served = {} /\ subs = {}

(* The connection of a request is accepted ~> the request is answered.     *)
Answered ==
  \A h \in Handler : h \in Queued \cup Served ~> h \notin Queued \cup Served

(* docs/api.md: GET /health returns 200 OK when the gateway is up.         *)
HealthAnswers == []~ShuttingDown => Answered

(* Every request whose connection was accepted is answered if no dashboard *)
(* stays for ever: threads that sleep, leave or are started, dashboards    *)
(* that come and go and an accept that fails lose no connection.           *)
AnsweredInTheEnd == (\A c \in Client : []<>(c \notin connected)) => Answered
=============================================================================
