------------------------------ MODULE Gateway -------------------------------
(***************************************************************************)
(* The HTTP handlers around a Guardian (src/gateway/main.cpp): POST        *)
(* /session, POST /intercept and DELETE /session, each run by a thread of  *)
(* the server, with what they share: the Guardian, the last tool of each   *)
(* session, and the events that are broadcast.                             *)
(*                                                                         *)
(* The Guardian is the guard of module WindowGuard, which Guardian is      *)
(* shown to implement as long as a session's agent waits for an answer     *)
(* before it asks again.  That is assumed here of agents; the operator     *)
(* who deletes sessions waits for nobody.  A Guardian may deny what the    *)
(* guard would permit.  Requests that cannot be parsed, and the ones that  *)
(* only read, change nothing and are left out.                             *)
(***************************************************************************)
EXTENDS Policy

CONSTANTS
  Session, Thresholds,  \* as in WindowGuard
  Agent,        \* threads that serve POST /intercept
  Operator,     \* threads that serve DELETE /session
  None,         \* no session, and no tool yet
  MaxEvents     \* bound: the events that are broadcast

ASSUME GatewayAssumption ==
  /\ None \notin Session \cup Tool
  /\ Agent \cap Operator = {}

VARIABLES
  history, used,        \* the guard's sessions
  session_last_tool,    \* the last tool approved in a session
  events,               \* what was broadcast, in that order
  pc, request,          \* where each handler is, and its locals
  interrupted           \* HISTORY: sessions deleted in the middle of a call

vars == <<history, used, session_last_tool, events, pc, request,
          interrupted>>

Guard == INSTANCE WindowGuard

Thread == Agent \cup Operator

Request == [session : Session \cup {None}, tool : Tool \cup {None},
            from : Tool \cup {None}, allowed : BOOLEAN]
RequestFor(s, t) == [session |-> s, tool |-> t, from |-> None, allowed |-> FALSE]
NoRequest == RequestFor(None, None)

EventType ==
  [type : {"intercept", "session_killed"}, session : Session,
   tool : Tool \cup {None}, from : Tool \cup {None}, allowed : BOOLEAN]

GatewayTypeOK ==
  /\ DOMAIN history \subseteq used /\ used \subseteq Session
  /\ \A s \in DOMAIN history : history[s] \in Seq(Tool)
  /\ DOMAIN session_last_tool \subseteq used
  /\ \A s \in DOMAIN session_last_tool : session_last_tool[s] \in Tool
  /\ events \in Seq(EventType) /\ interrupted \subseteq used
  /\ request \in [Thread -> Request]
  /\ pc \in [Thread -> {"idle", "from", "execute", "update", "broadcast",
                        "erase", "killed"}]

Init ==
  /\ Guard!Init
  /\ session_last_tool = [s \in {} |-> None]
  /\ events = <<>>
  /\ pc = [th \in Thread |-> "idle"]
  /\ request = [th \in Thread |-> NoRequest]
  /\ interrupted = {}

Goto(th, label) == pc' = [pc EXCEPT ![th] = label]

Event(th, type) ==
  [type |-> type, session |-> request[th].session, tool |-> request[th].tool,
   from |-> request[th].from, allowed |-> request[th].allowed]

(* The handler's last step: the event is broadcast, the response is sent   *)
(* and its locals are gone.                                                *)
Finish(th, type) ==
  /\ Len(events) < MaxEvents
  /\ events' = Append(events, Event(th, type))
  /\ Goto(th, "idle")
  /\ request' = [request EXCEPT ![th] = NoRequest]

-----------------------------------------------------------------------------
PostSession ==
  /\ \E s \in Session : Guard!Open(s)
  /\ UNCHANGED <<session_last_tool, events, pc, request, interrupted>>

(* POST /intercept, for any session that was ever opened *)
Arrive(th, s, t) ==
  /\ pc[th] = "idle" /\ s \in used
  /\ Len(events) < MaxEvents
  /\ \A other \in Agent : request[other].session # s
  /\ request' = [request EXCEPT ![th] = RequestFor(s, t)]
  /\ Goto(th, "from")
  /\ UNCHANGED <<history, used, session_last_tool, events, interrupted>>

(* SEEDED FAULT for ReadFrom: the tool of another session is taken. *)
ReadFromAny(th) ==
  /\ pc[th] = "from"
  /\ \E s \in Session :
       request' = [request EXCEPT ![th].from =
                     IF s \in DOMAIN session_last_tool THEN session_last_tool[s] ELSE None]
  /\ Goto(th, "execute")
  /\ UNCHANGED <<history, used, session_last_tool, events, interrupted>>

(* The tool the session is at, before the call *)
ReadFrom(th) ==
  LET s == request[th].session
  IN  /\ pc[th] = "from"
      /\ request' = [request EXCEPT ![th].from =
                       IF s \in DOMAIN session_last_tool THEN session_last_tool[s] ELSE None]
      /\ Goto(th, "execute")
      /\ UNCHANGED <<history, used, session_last_tool, events, interrupted>>

(* execute_tool: the call is approved and recorded, or denied, or, when    *)
(* the session was ended in the course of it, throws, which answers 500    *)
(* and broadcasts nothing.  What it logs goes to a Logger made for the one *)
(* line.                                                                   *)
Execute(th) ==
  LET s == request[th].session
      t == request[th].tool
  IN  /\ pc[th] = "execute"
      /\ \/ /\ Guard!Record(s, t)
            /\ request' = [request EXCEPT ![th].allowed = TRUE]
            /\ Goto(th, "update")
         \/ /\ Goto(th, "broadcast")
            /\ UNCHANGED <<history, used, request>>
         \/ /\ s \notin DOMAIN history
            /\ request' = [request EXCEPT ![th] = NoRequest]
            /\ Goto(th, "idle")
            /\ UNCHANGED <<history, used>>
      /\ UNCHANGED <<session_last_tool, events, interrupted>>

(* The session is at the approved tool. *)
Update(th) ==
  LET s == request[th].session
  IN  /\ pc[th] = "update"
      /\ session_last_tool' = [i \in DOMAIN session_last_tool \cup {s} |->
                                 IF i = s THEN request[th].tool ELSE session_last_tool[i]]
      /\ Goto(th, "broadcast")
      /\ UNCHANGED <<history, used, events, request, interrupted>>

(* SEEDED FAULT for Broadcast: only denials are broadcast. *)
BroadcastDenials(th) ==
  /\ pc[th] = "broadcast"
  /\ \/ ~request[th].allowed /\ Finish(th, "intercept")
     \/ /\ request[th].allowed
        /\ Goto(th, "idle")
        /\ request' = [request EXCEPT ![th] = NoRequest]
        /\ UNCHANGED events
  /\ UNCHANGED <<history, used, session_last_tool, interrupted>>

Broadcast(th) ==
  /\ pc[th] = "broadcast"
  /\ Finish(th, "intercept")
  /\ UNCHANGED <<history, used, session_last_tool, interrupted>>

-----------------------------------------------------------------------------
(* DELETE /session: end_session, which throws for an unknown session and   *)
(* then nothing more happens                                               *)
Kill(th, s) ==
  /\ pc[th] = "idle"
  /\ Len(events) < MaxEvents
  /\ Guard!Close(s)
  /\ interrupted' = IF \E a \in Agent : request[a].session = s
                    THEN interrupted \cup {s} ELSE interrupted
  /\ request' = [request EXCEPT ![th] = RequestFor(s, None)]
  /\ Goto(th, "erase")
  /\ UNCHANGED <<session_last_tool, events>>

(* SEEDED FAULT for Erase: the tracker keeps the session. *)
EraseNot(th) ==
  /\ pc[th] = "erase"
  /\ Goto(th, "killed")
  /\ UNCHANGED <<history, used, session_last_tool, events, request, interrupted>>

Erase(th) ==
  /\ pc[th] = "erase"
  /\ session_last_tool' = [s \in DOMAIN session_last_tool \ {request[th].session} |->
                             session_last_tool[s]]
  /\ Goto(th, "killed")
  /\ UNCHANGED <<history, used, events, request, interrupted>>

BroadcastKilled(th) ==
  /\ pc[th] = "killed"
  /\ Finish(th, "session_killed")
  /\ UNCHANGED <<history, used, session_last_tool, interrupted>>

Next ==
  \/ PostSession
  \/ \E th \in Agent :
       \/ \E s \in Session, t \in Tool : Arrive(th, s, t)
       \/ ReadFrom(th) \/ Execute(th) \/ Update(th) \/ Broadcast(th)
  \/ \E th \in Operator :
       \/ \E s \in Session : Kill(th, s)
       \/ Erase(th) \/ BroadcastKilled(th)

Spec == Init /\ [][Next]_vars

-----------------------------------------------------------------------------
LastOf(s) == IF history[s] = <<>> THEN None ELSE history[s][Len(history[s])]

(* The approved events of session s among the first n that were broadcast *)
ApprovedEvents(s, n) == {i \in 1 .. n : events[i].session = s /\ events[i].allowed}

(* The first n events tell that session s is at tool t: t is the tool of   *)
(* the last approved one.                                                  *)
ToldAt(s, n, t) ==
  LET approved == ApprovedEvents(s, n)
  IN  \/ approved = {} /\ t = None
      \/ \E i \in approved : (\A h \in approved : h <= i) /\ t = events[i].tool

(* A call of session s is approved, and its event is yet to come.          *)
EventToCome(s) == \E th \in Agent : request[th].session = s /\ request[th].allowed

(* A dashboard can follow a session: its approved events, in the order in  *)
(* which they were sent, are the calls of the session's history, without a *)
(* gap, but for a call whose event is yet to come (POST /intercept         *)
(* broadcasts last).                                                       *)
EventsFollowHistory ==
  \A s \in DOMAIN history :
    LET Number(j) == Cardinality(ApprovedEvents(s, j))
    IN  /\ Len(history[s]) = Number(Len(events)) + (IF EventToCome(s) THEN 1 ELSE 0)
        /\ \A j \in ApprovedEvents(s, Len(events)) :
             events[j].tool = history[s][Number(j)]

(* The edge an event reports is the one that was attempted, whatever other *)
(* sessions and operators do: a handler asks with the last tool of its     *)
(* session's history as "from", and the approved events of a session form  *)
(* a chain, also those broadcast after the session was ended (POST         *)
(* /intercept, session_last_tool).                                         *)
EventsChain ==
  /\ \A th \in Agent :
       pc[th] = "execute" /\ request[th].session \in DOMAIN history =>
         request[th].from = LastOf(request[th].session)
  /\ \A j \in 1 .. Len(events) :
       events[j].type = "intercept" /\ events[j].allowed =>
         ToldAt(events[j].session, j - 1, events[j].from)

(* The tracker forgets a session with the session: one is tracked only     *)
(* while it is open, or its DELETE is on the way, or it was deleted in the *)
(* middle of a call (POST /intercept, DELETE /session).                    *)
TrackerForgets ==
  \A s \in DOMAIN session_last_tool :
    \/ s \in DOMAIN history \cup interrupted
    \/ \E th \in Operator : pc[th] = "erase" /\ request[th].session = s
=============================================================================
