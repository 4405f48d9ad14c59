-------------------------- MODULE EventBroadcaster --------------------------
(***************************************************************************)
(* EventBroadcaster and the stream of GET /events (src/gateway/main.cpp):  *)
(* request handlers broadcast events to the dashboards that are connected. *)
(*                                                                         *)
(* list_mtx guards the list of subscribers and is held while an event is   *)
(* put into every queue; a queue has a mutex of its own, never held longer *)
(* than one step of this model.  The stream of a subscriber waits for its  *)
(* queue to fill, swaps it away, and writes the events to the connection;  *)
(* when a write fails, the server drops the stream, which unsubscribes.    *)
(*                                                                         *)
(* An event is its number: 1 is the first that was broadcast.              *)
(***************************************************************************)
EXTENDS Naturals, Sequences

CONSTANTS
  Handler,      \* threads that handle requests which broadcast
  Client,       \* dashboards
  Free,         \* the holder of a mutex that nobody holds
  MaxEvents     \* bound: the events that are broadcast

ASSUME BroadcasterAssumption == Free \notin Handler /\ MaxEvents \in Nat

VARIABLES
  list_mtx,     \* the handler inside broadcast
  todo,         \* the subscribers it has not come to
  count,        \* how many events were broadcast
  subs,         \* the subscribers
  queue,        \* Subscriber::events
  stream,       \* where the stream of each client is; "closing" is closed
  to_send,      \* events swapped out of the queue, not written yet
  connected,    \* the clients whose end of the connection is open
  received,     \* HISTORY: what each client read from this connection
  joined        \* HISTORY: the events there were when it subscribed

broadcasterVars == <<list_mtx, todo, count, subs, queue, stream, to_send, connected,
                     received, joined>>

Event == 1 .. MaxEvents

BroadcasterTypeOK ==
  /\ list_mtx \in Handler \cup {Free}
  /\ count \in 0 .. MaxEvents
  /\ queue \in [Client -> Seq(Event)] /\ to_send \in [Client -> Seq(Event)]
  /\ received \in [Client -> Seq(Event)] /\ joined \in [Client -> 0 .. count]
  /\ stream \in [Client -> {"off", "check", "wait", "write", "closing"}]
  /\ connected \subseteq Client
  /\ subs = {c \in Client : stream[c] # "off"}
  /\ todo \subseteq subs
  /\ list_mtx = Free <=> todo = {}

BroadcasterInit ==
  /\ list_mtx = Free /\ todo = {} /\ count = 0 /\ subs = {}
  /\ queue = [c \in Client |-> <<>>] /\ to_send = queue /\ received = queue
  /\ stream = [c \in Client |-> "off"]
  /\ connected = {}
  /\ joined = [c \in Client |-> 0]

-----------------------------------------------------------------------------
(* broadcast: the lock, one queue after the other, and the lock is free    *)
Broadcast(h) ==
  /\ list_mtx = Free /\ count < MaxEvents
  /\ list_mtx' = IF subs = {} THEN Free ELSE h
  /\ todo' = subs
  /\ count' = count + 1
  /\ UNCHANGED <<subs, queue, stream, to_send, connected, received, joined>>

(* The next subscriber on the list is c: in which order they come is seen  *)
(* by nobody.                                                              *)
NextSubscriber(h, c) ==
  /\ list_mtx = h /\ c \in todo
  /\ todo' = todo \ {c}
  /\ list_mtx' = IF todo = {c} THEN Free ELSE h
  /\ UNCHANGED <<count, subs, stream, to_send, connected, received, joined>>

(* SEEDED FAULT for Push: the newest event goes first. *)
PushFront(h, c) ==
  NextSubscriber(h, c) /\ queue' = [queue EXCEPT ![c] = <<count>> \o @]

Push(h, c) ==
  NextSubscriber(h, c) /\ queue' = [queue EXCEPT ![c] = Append(@, count)]

-----------------------------------------------------------------------------
(* The handler of GET /events subscribes, whether or not the dashboard is  *)
(* still there; one that was dropped may come again, as a new subscriber.  *)
Subscribe(c) ==
  /\ stream[c] = "off" /\ list_mtx = Free
  /\ subs' = subs \cup {c}
  /\ stream' = [stream EXCEPT ![c] = "check"]
  /\ joined' = [joined EXCEPT ![c] = count]
  /\ UNCHANGED <<list_mtx, todo, count, queue, to_send, connected, received>>

(* Before every call of the content provider the server looks whether the  *)
(* dashboard is there.                                                     *)
Check(c) ==
  /\ stream[c] = "check"
  /\ stream' = [stream EXCEPT ![c] = IF c \in connected THEN "wait" ELSE "closing"]
  /\ UNCHANGED <<list_mtx, todo, count, subs, queue, to_send, connected, received, joined>>

(* SEEDED FAULT for Swap: one event alone does not end the wait. *)
SwapTwo(c) ==
  /\ stream[c] = "wait" /\ Len(queue[c]) > 1
  /\ to_send' = [to_send EXCEPT ![c] = queue[c]]
  /\ queue' = [queue EXCEPT ![c] = <<>>]
  /\ stream' = [stream EXCEPT ![c] = "write"]
  /\ UNCHANGED <<list_mtx, todo, count, subs, connected, received, joined>>

(* The wait ends, as its predicate looks at the queue itself, whether the  *)
(* event came before or after it began.                                    *)
Swap(c) ==
  /\ stream[c] = "wait" /\ queue[c] # <<>>
  /\ to_send' = [to_send EXCEPT ![c] = queue[c]]
  /\ queue' = [queue EXCEPT ![c] = <<>>]
  /\ stream' = [stream EXCEPT ![c] = "write"]
  /\ UNCHANGED <<list_mtx, todo, count, subs, connected, received, joined>>

(* SEEDED FAULT for Heartbeat: the wait has no end without an event. *)
HeartbeatLate(c) ==
  /\ stream[c] = "wait" /\ queue[c] # <<>>
  /\ stream' = [stream EXCEPT ![c] = IF c \in connected THEN "check" ELSE "closing"]
  /\ UNCHANGED <<list_mtx, todo, count, subs, queue, to_send, connected, received, joined>>

(* The wait ends after 20 seconds without an event, and a heartbeat is     *)
(* written, or cannot be.                                                  *)
Heartbeat(c) ==
  /\ stream[c] = "wait" /\ queue[c] = <<>>
  /\ stream' = [stream EXCEPT ![c] = IF c \in connected THEN "check" ELSE "closing"]
  /\ UNCHANGED <<list_mtx, todo, count, subs, queue, to_send, connected, received, joined>>

(* An event is written, or the write fails as the client is gone. *)
Write(c) ==
  /\ stream[c] = "write"
  /\ IF c \in connected
     THEN /\ received' = [received EXCEPT ![c] = Append(@, Head(to_send[c]))]
          /\ to_send' = [to_send EXCEPT ![c] = Tail(@)]
          /\ stream' = [stream EXCEPT ![c] = IF Len(to_send[c]) = 1 THEN "check" ELSE "write"]
     ELSE /\ stream' = [stream EXCEPT ![c] = "closing"]
          /\ UNCHANGED <<received, to_send>>
  /\ UNCHANGED <<list_mtx, todo, count, subs, queue, connected, joined>>

(* unsubscribe, which the destructor of the response calls however the     *)
(* stream ended; the subscriber goes with the stream.                      *)
Unsubscribe(c) ==
  /\ stream[c] = "closing" /\ list_mtx = Free
  /\ subs' = subs \ {c}
  /\ stream' = [stream EXCEPT ![c] = "off"]
  /\ queue' = [queue EXCEPT ![c] = <<>>]
  /\ to_send' = [to_send EXCEPT ![c] = <<>>]
  /\ received' = [received EXCEPT ![c] = <<>>]
  /\ joined' = [joined EXCEPT ![c] = 0]
  /\ UNCHANGED <<list_mtx, todo, count, connected>>

(* The dashboard goes away. *)
Disconnect(c) ==
  /\ c \in connected
  /\ connected' = connected \ {c}
  /\ UNCHANGED <<list_mtx, todo, count, subs, queue, stream, to_send, received, joined>>

StreamStep(c) == c \in Client /\ (Check(c) \/ Swap(c) \/ Heartbeat(c) \/ Write(c))

-----------------------------------------------------------------------------
(* What a subscriber has been given: all events since it subscribed but    *)
(* the one a handler is about to put into its queue.                       *)
Given(c) == IF c \in todo THEN count - 1 ELSE count

(* What a dashboard has read, what its stream is about to write and what   *)
(* waits in its queue are together all events since it subscribed, each    *)
(* once and in the order of the broadcasts, which is one order for all     *)
(* dashboards (broadcast, the content provider of GET /events).            *)
EveryEventOnceInOrder ==
  \A c \in subs :
    received[c] \o to_send[c] \o queue[c]
      = [i \in 1 .. Given(c) - joined[c] |-> joined[c] + i]

(* A dashboard that is there has not read all it was given.                *)
Behind(c) ==
  /\ c \in connected /\ c \in subs
  /\ Len(received[c]) < Given(c) - joined[c]

(* An event reaches every dashboard that was subscribed and stays          *)
(* connected, without waiting for another event (the predicate of the      *)
(* wait; notify_one).                                                      *)
EventsArrive == \A c \in Client : Behind(c) ~> ~Behind(c)

(* A dashboard that went away is dropped from the list, so that events no  *)
(* longer pile up in its queue, whether or not there are any (the          *)
(* heartbeat, unsubscribe).                                                *)
GoneAreDropped ==
  \A c \in Client : c \notin connected ~> stream[c] = "off"
=============================================================================
