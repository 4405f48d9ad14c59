--------------------------- MODULE GatewayProofs ---------------------------
(***************************************************************************)
(* What holds of the gateway's handlers for any number of agents,          *)
(* operators, sessions and tools, and for every policy graph.  The bound   *)
(* MaxEvents plays no part.                                                *)
(***************************************************************************)
EXTENDS Gateway, SequenceTheorems, FiniteSetTheorems, TLAPS

(* The handlers: where each is and what its request says; an agent's call  *)
(* is approved from the end of execute_tool to the broadcast; no two       *)
(* agents are in a session; and nobody is about to forget an open session. *)
HandlersInv ==
  /\ \A th \in Agent :
       /\ pc[th] \in {"idle", "from", "execute", "update", "broadcast"}
       /\ pc[th] = "idle" => request[th] = NoRequest
       /\ pc[th] # "idle" => request[th].session \in used /\ request[th].tool \in Tool
       /\ pc[th] = "update" => request[th].allowed = TRUE
       /\ pc[th] \in {"from", "execute"} => request[th].allowed = FALSE
  /\ \A th \in Operator :
       /\ pc[th] \in {"idle", "erase", "killed"}
       /\ pc[th] = "idle" => request[th] = NoRequest
       /\ pc[th] # "idle" => request[th].session \in used \ DOMAIN history
       /\ request[th].allowed = FALSE
  /\ \A a, b \in Agent :
       request[a].session = request[b].session /\ request[a].session # None => a = b
  /\ \A i \in 1 .. Len(events) : events[i].session \in used

HandlersOK == GatewayTypeOK /\ HandlersInv

LEMMA Constants ==
  /\ None \notin Session /\ None \notin Tool /\ Agent \cap Operator = {}
  /\ NoRequest \in Request /\ NoRequest.session = None /\ NoRequest.allowed = FALSE
BY GatewayAssumption DEF NoRequest, RequestFor, Request

(* What the guard does to the open sessions                                *)
LEMMA OpenKeeps ==
  ASSUME NEW s \in Session, Guard!Open(s), DOMAIN history \subseteq used
  PROVE  /\ s \notin used /\ used' = used \cup {s}
         /\ DOMAIN history' = DOMAIN history \cup {s} /\ history'[s] = <<>>
         /\ \A i \in DOMAIN history : history'[i] = history[i]
BY DEF Guard!Open

LEMMA CloseKeeps ==
  ASSUME NEW s, Guard!Close(s)
  PROVE  /\ s \in DOMAIN history /\ used' = used
         /\ DOMAIN history' = DOMAIN history \ {s}
         /\ \A i \in DOMAIN history' : history'[i] = history[i]
BY DEF Guard!Close

LEMMA RecordKeeps ==
  ASSUME NEW s, NEW t, Guard!Record(s, t)
  PROVE  /\ s \in DOMAIN history /\ used' = used
         /\ DOMAIN history' = DOMAIN history
         /\ history'[s] = Append(history[s], t)
         /\ \A i \in DOMAIN history \ {s} : history'[i] = history[i]
BY DEF Guard!Record

-----------------------------------------------------------------------------
(* Type correctness *)

LEMMA EventKeeps ==
  ASSUME HandlersOK, NEW th \in Thread, pc[th] # "idle",
         NEW type \in {"intercept", "session_killed"}
  PROVE  Event(th, type) \in EventType
<1>1. request[th] \in Request /\ request[th].session \in Session
  BY DEF HandlersOK, GatewayTypeOK, HandlersInv, Thread
<1> QED
  BY <1>1 DEF Event, EventType, Request

LEMMA FinishKeeps ==
  ASSUME HandlersOK, NEW th \in Thread, pc[th] # "idle",
         NEW type \in {"intercept", "session_killed"}, Finish(th, type),
         UNCHANGED <<history, used, session_last_tool, interrupted>>
  PROVE  /\ HandlersOK'
         /\ Event(th, type) \in EventType /\ events' = Append(events, Event(th, type))
         /\ pc' = [pc EXCEPT ![th] = "idle"] /\ request' = [request EXCEPT ![th] = NoRequest]
<1>1. Event(th, type) \in EventType /\ events' = Append(events, Event(th, type))
  BY EventKeeps DEF Finish
<1>2. GatewayTypeOK'
  BY <1>1, Constants, AppendProperties DEF HandlersOK, GatewayTypeOK, Finish, Goto
<1>3. \A i \in 1 .. Len(events') : events'[i].session \in used
  <2>1. Event(th, type).session \in used
    BY DEF HandlersOK, HandlersInv, Thread, Event
  <2>2. events \in Seq(EventType)
    BY DEF HandlersOK, GatewayTypeOK
  <2> QED
    BY <1>1, <2>1, <2>2, AppendProperties DEF HandlersOK, HandlersInv
<1>4. HandlersInv'
  BY <1>3, Constants DEF HandlersOK, GatewayTypeOK, HandlersInv, Finish, Goto
<1> QED
  BY <1>1, <1>2, <1>4 DEF HandlersOK, Finish, Goto

LEMMA HandlersInit == Init => HandlersOK
<1> SUFFICES ASSUME Init PROVE HandlersOK
  OBVIOUS
<1>1. GatewayTypeOK
  BY Constants, EmptySeq DEF Init, Guard!Init, GatewayTypeOK
<1>2. HandlersInv
  <2>1. /\ \A th \in Thread : pc[th] = "idle" /\ request[th] = NoRequest
        /\ events = <<>> /\ Len(events) = 0
    BY DEF Init
  <2> QED
    BY <2>1, Constants DEF HandlersInv, Thread
<1> QED
  BY <1>1, <1>2 DEF HandlersOK

LEMMA HandlersNext ==
  ASSUME HandlersOK, [Next]_vars
  PROVE  HandlersOK'
<1>1. /\ DOMAIN history \subseteq used /\ used \subseteq Session
      /\ \A s \in DOMAIN history : history[s] \in Seq(Tool)
      /\ DOMAIN session_last_tool \subseteq used
      /\ events \in Seq(EventType) /\ interrupted \subseteq used
      /\ request \in [Thread -> Request]
      /\ pc \in [Thread -> {"idle", "from", "execute", "update", "broadcast",
                            "erase", "killed"}]
      /\ Agent \subseteq Thread /\ Operator \subseteq Thread
  BY DEF HandlersOK, GatewayTypeOK, Thread
<1>2. CASE PostSession
  <2>1. PICK s \in Session : Guard!Open(s)
    BY <1>2 DEF PostSession
  <2>2. /\ s \notin used /\ used' = used \cup {s}
        /\ DOMAIN history' = DOMAIN history \cup {s} /\ history'[s] = <<>>
        /\ \A i \in DOMAIN history : history'[i] = history[i]
        /\ UNCHANGED <<session_last_tool, events, pc, request, interrupted>>
    BY <1>1, <1>2, <2>1, OpenKeeps DEF PostSession
  <2>3. GatewayTypeOK'
    BY <1>1, <2>2, EmptySeq DEF HandlersOK, GatewayTypeOK
  <2>4. HandlersInv'
    BY <1>1, <2>2 DEF HandlersOK, HandlersInv
  <2> QED
    BY <2>3, <2>4 DEF HandlersOK
<1>3. ASSUME NEW th \in Agent, NEW s \in Session, NEW t \in Tool, Arrive(th, s, t)
      PROVE  HandlersOK'
  <2> DEFINE r == RequestFor(s, t)
  <2>1. /\ request' = [request EXCEPT ![th] = r] /\ pc' = [pc EXCEPT ![th] = "from"]
        /\ r \in Request /\ s \in used /\ r.session = s /\ r.tool = t /\ r.allowed = FALSE
        /\ UNCHANGED <<history, used, session_last_tool, events, interrupted>>
    BY <1>3 DEF Arrive, Goto, RequestFor, Request
  <2>2. GatewayTypeOK'
    BY <1>1, <2>1 DEF HandlersOK, GatewayTypeOK
  <2>3. HandlersInv'
    <3> HIDE DEF r
    <3> QED
      BY <1>1, <1>3, <2>1, Constants DEF HandlersOK, HandlersInv, Arrive
  <2> QED
    BY <2>2, <2>3 DEF HandlersOK
<1>4. ASSUME NEW th \in Agent, ReadFrom(th)
      PROVE  HandlersOK'
  <2>1. PICK f \in Tool \cup {None} : request' = [request EXCEPT ![th].from = f]
    BY <1>1, <1>4 DEF ReadFrom, HandlersOK, GatewayTypeOK
  <2>2. /\ pc[th] = "from" /\ pc' = [pc EXCEPT ![th] = "execute"]
        /\ UNCHANGED <<history, used, session_last_tool, events, interrupted>>
    BY <1>4 DEF ReadFrom, Goto
  <2>3. GatewayTypeOK'
    BY <1>1, <2>1, <2>2 DEF HandlersOK, GatewayTypeOK, Request
  <2>4. /\ request'[th].session = request[th].session /\ request'[th].tool = request[th].tool
        /\ request'[th].allowed = request[th].allowed
        /\ \A i \in Thread \ {th} : request'[i] = request[i]
    BY <1>1, <2>1 DEF Request
  <2>5. HandlersInv'
    <3>1. pc'[th] = "execute" /\ \A i \in Thread \ {th} : pc'[i] = pc[i]
      BY <1>1, <2>2
    <3>2. /\ request[th].session \in used /\ request[th].tool \in Tool
          /\ request[th].allowed = FALSE
      BY <2>2 DEF HandlersOK, HandlersInv
    <3>3. \A i \in Thread : request'[i].session = request[i].session
      BY <2>4
    <3>4. th \in Agent /\ th \notin Operator /\ Agent \subseteq Thread /\ Operator \subseteq Thread
      BY <1>1, Constants
    <3> QED
      BY <2>2, <2>4, <3>1, <3>2, <3>3, <3>4 DEF HandlersOK, HandlersInv
  <2> QED
    BY <2>3, <2>5 DEF HandlersOK
<1>5. ASSUME NEW th \in Agent, Execute(th)
      PROVE  HandlersOK'
  <2>1. /\ pc[th] = "execute" /\ UNCHANGED <<session_last_tool, events, interrupted>>
        /\ request[th].session \in used /\ request[th].tool \in Tool
    BY <1>5 DEF Execute, HandlersOK, HandlersInv
  <2>2. CASE /\ Guard!Record(request[th].session, request[th].tool)
             /\ request' = [request EXCEPT ![th].allowed = TRUE] /\ Goto(th, "update")
    <3>1. PICK s, t : s = request[th].session /\ t = request[th].tool
      OBVIOUS
    <3>2. /\ s \in DOMAIN history /\ used' = used /\ DOMAIN history' = DOMAIN history
          /\ history'[s] = Append(history[s], t)
          /\ \A i \in DOMAIN history \ {s} : history'[i] = history[i]
      BY <2>2, <3>1, RecordKeeps
    <3>3. request' \in [Thread -> Request]
      BY <1>1, <2>2 DEF Request
    <3>4. history[s] \in Seq(Tool) /\ t \in Tool
      BY <1>1, <2>1, <3>1, <3>2
    <3>5. Append(history[s], t) \in Seq(Tool)
      BY <3>4, AppendProperties
    <3>6. pc' \in [Thread -> {"idle", "from", "execute", "update", "broadcast",
                             "erase", "killed"}]
      BY <1>1, <2>2 DEF Goto
    <3>7. GatewayTypeOK'
      BY <1>1, <2>1, <3>3, <3>2, <3>5, <3>6 DEF HandlersOK, GatewayTypeOK
    <3>8. /\ request'[th].session = request[th].session /\ request'[th].tool = request[th].tool
          /\ request'[th].allowed = TRUE
          /\ \A i \in Thread \ {th} : request'[i] = request[i]
      BY <1>1, <2>2 DEF Request
    <3>9. HandlersInv'
      BY <1>1, <2>1, <2>2, <3>2, <3>8, Constants DEF HandlersOK, HandlersInv, Goto
    <3> QED
      BY <3>7, <3>9 DEF HandlersOK
  <2>3. CASE Goto(th, "broadcast") /\ UNCHANGED <<history, used, request>>
    BY <1>1, <2>1, <2>3, Constants DEF HandlersOK, GatewayTypeOK, HandlersInv, Goto
  <2>4. CASE /\ request' = [request EXCEPT ![th] = NoRequest] /\ Goto(th, "idle")
             /\ UNCHANGED <<history, used>>
    BY <1>1, <2>1, <2>4, Constants DEF HandlersOK, GatewayTypeOK, HandlersInv, Goto
  <2> QED
    BY <1>5, <2>2, <2>3, <2>4 DEF Execute
<1>6. ASSUME NEW th \in Agent, Update(th)
      PROVE  HandlersOK'
  <2>1. /\ pc[th] = "update" /\ pc' = [pc EXCEPT ![th] = "broadcast"]
        /\ request[th].session \in used /\ request[th].tool \in Tool
        /\ UNCHANGED <<history, used, events, request, interrupted>>
    BY <1>6 DEF Update, Goto, HandlersOK, HandlersInv
  <2>2. GatewayTypeOK'
    BY <1>1, <1>6, <2>1 DEF Update, HandlersOK, GatewayTypeOK
  <2>3. HandlersInv'
    BY <1>1, <2>1, Constants DEF HandlersOK, HandlersInv
  <2> QED
    BY <2>2, <2>3 DEF HandlersOK
<1>7. ASSUME NEW th \in Agent, Broadcast(th)
      PROVE  HandlersOK'
  BY <1>1, <1>7, FinishKeeps DEF Broadcast
<1>8. ASSUME NEW th \in Operator, NEW s \in Session, Kill(th, s)
      PROVE  HandlersOK'
  <2> DEFINE r == RequestFor(s, None)
  <2>1. /\ s \in DOMAIN history /\ used' = used /\ DOMAIN history' = DOMAIN history \ {s}
        /\ \A i \in DOMAIN history' : history'[i] = history[i]
    BY <1>8, CloseKeeps DEF Kill
  <2>2. /\ request' = [request EXCEPT ![th] = r] /\ pc' = [pc EXCEPT ![th] = "erase"]
        /\ r \in Request /\ r.session = s /\ r.allowed = FALSE
        /\ UNCHANGED <<session_last_tool, events>>
        /\ interrupted' \in {interrupted, interrupted \cup {s}}
    BY <1>8 DEF Kill, Goto, RequestFor, Request
  <2>3. GatewayTypeOK'
    BY <1>1, <2>1, <2>2 DEF HandlersOK, GatewayTypeOK
  <2>4. HandlersInv'
    <3> HIDE DEF r
    <3> QED
      BY <1>1, <2>1, <2>2, Constants DEF HandlersOK, HandlersInv
  <2> QED
    BY <2>3, <2>4 DEF HandlersOK
<1>9. ASSUME NEW th \in Operator, Erase(th)
      PROVE  HandlersOK'
  <2>1. /\ pc[th] = "erase" /\ pc' = [pc EXCEPT ![th] = "killed"]
        /\ UNCHANGED <<history, used, events, request, interrupted>>
    BY <1>9 DEF Erase, Goto
  <2>2. GatewayTypeOK'
    BY <1>1, <1>9, <2>1 DEF Erase, HandlersOK, GatewayTypeOK
  <2>3. HandlersInv'
    BY <1>1, <2>1, Constants DEF HandlersOK, HandlersInv
  <2> QED
    BY <2>2, <2>3 DEF HandlersOK
<1>10. ASSUME NEW th \in Operator, BroadcastKilled(th)
       PROVE  HandlersOK'
  BY <1>1, <1>10, FinishKeeps DEF BroadcastKilled
<1>11. CASE UNCHANGED vars
  BY <1>11 DEF vars, HandlersOK, GatewayTypeOK, HandlersInv
<1> QED
  BY <1>2, <1>3, <1>4, <1>5, <1>6, <1>7, <1>8, <1>9, <1>10, <1>11 DEF Next

(* Every variable keeps its type, and every handler knows what it is about *)
THEOREM GatewayTypes == Spec => []GatewayTypeOK
<1>1. HandlersOK => GatewayTypeOK
  BY DEF HandlersOK
<1> QED
  BY <1>1, HandlersInit, HandlersNext, PTL DEF Spec

-----------------------------------------------------------------------------
(* The tracker *)

(* The tool that an agent is about to note belongs to a session that is    *)
(* open or was deleted in the middle of this call.                         *)
TrackerInv ==
  /\ TrackerForgets
  /\ \A th \in Agent :
       pc[th] = "update" => request[th].session \in DOMAIN history \cup interrupted

LEMMA TrackerNext ==
  ASSUME HandlersOK, TrackerInv, [Next]_vars
  PROVE  TrackerInv'
<1>1. /\ DOMAIN history \subseteq used /\ used \subseteq Session
      /\ DOMAIN session_last_tool \subseteq used
      /\ request \in [Thread -> Request]
      /\ pc \in [Thread -> {"idle", "from", "execute", "update", "broadcast",
                            "erase", "killed"}]
      /\ Agent \subseteq Thread /\ Operator \subseteq Thread /\ Agent \cap Operator = {}
  BY Constants DEF HandlersOK, GatewayTypeOK, Thread
(* A step of a handler that is not about to forget a session, and that is  *)
(* not on its way to the tracker afterwards                                *)
<1>2. ASSUME NEW th \in Thread, pc[th] # "erase", pc'[th] # "update",
             \A i \in Thread \ {th} : pc'[i] = pc[i] /\ request'[i] = request[i],
             UNCHANGED <<history, session_last_tool, interrupted>>
      PROVE  TrackerInv'
  BY <1>1, <1>2 DEF TrackerInv, TrackerForgets
<1>3. CASE PostSession
  <2>1. PICK s \in Session : Guard!Open(s)
    BY <1>3 DEF PostSession
  <2>2. /\ DOMAIN history' = DOMAIN history \cup {s}
        /\ UNCHANGED <<session_last_tool, events, pc, request, interrupted>>
    BY <1>1, <1>3, <2>1, OpenKeeps DEF PostSession
  <2> QED
    BY <2>2 DEF TrackerInv, TrackerForgets
<1>4. ASSUME NEW th \in Agent, NEW s \in Session, NEW t \in Tool, Arrive(th, s, t)
      PROVE  TrackerInv'
  BY <1>1, <1>2, <1>4 DEF Arrive, Goto
<1>5. ASSUME NEW th \in Agent, ReadFrom(th)
      PROVE  TrackerInv'
  BY <1>1, <1>2, <1>5 DEF ReadFrom, Goto
<1>6. ASSUME NEW th \in Agent, Execute(th)
      PROVE  TrackerInv'
  <2>1. CASE /\ Guard!Record(request[th].session, request[th].tool)
             /\ request' = [request EXCEPT ![th].allowed = TRUE] /\ Goto(th, "update")
    <3>1. request[th].session \in DOMAIN history /\ DOMAIN history' = DOMAIN history
      BY <2>1 DEF Guard!Record
    <3>2. /\ request'[th].session = request[th].session
          /\ \A i \in Thread \ {th} : pc'[i] = pc[i] /\ request'[i] = request[i]
          /\ pc[th] = "execute" /\ UNCHANGED <<session_last_tool, interrupted>>
      BY <1>1, <1>6, <2>1 DEF Request, Goto, Execute
    <3> QED
      BY <1>1, <3>1, <3>2 DEF TrackerInv, TrackerForgets
  <2>2. CASE /\ UNCHANGED history
             /\ \/ Goto(th, "broadcast") /\ UNCHANGED request
                \/ Goto(th, "idle") /\ request' = [request EXCEPT ![th] = NoRequest]
    BY <1>1, <1>2, <1>6, <2>2 DEF Execute, Goto
  <2> QED
    BY <1>6, <2>1, <2>2 DEF Execute
<1>7. ASSUME NEW th \in Agent, Update(th)
      PROVE  TrackerInv'
  <2>1. /\ pc[th] = "update" /\ pc' = [pc EXCEPT ![th] = "broadcast"]
        /\ DOMAIN session_last_tool' = DOMAIN session_last_tool \cup {request[th].session}
        /\ UNCHANGED <<history, request, interrupted>>
    BY <1>7 DEF Update, Goto
  <2> QED
    BY <1>1, <2>1 DEF TrackerInv, TrackerForgets
<1>8. ASSUME NEW th \in Agent, Broadcast(th)
      PROVE  TrackerInv'
  BY <1>1, <1>2, <1>8 DEF Broadcast, Finish, Goto
<1>9. ASSUME NEW th \in Operator, NEW s \in Session, Kill(th, s)
      PROVE  TrackerInv'
  <2> DEFINE r == RequestFor(s, None)
  <2>1. DOMAIN history' = DOMAIN history \ {s}
    BY <1>9, CloseKeeps DEF Kill
  <2>2. /\ request' = [request EXCEPT ![th] = r] /\ pc' = [pc EXCEPT ![th] = "erase"]
        /\ r.session = s /\ pc[th] = "idle"
        /\ session_last_tool' = session_last_tool
        /\ interrupted \subseteq interrupted'
        /\ (\E a \in Agent : request[a].session = s) => s \in interrupted'
    BY <1>9 DEF Kill, Goto, RequestFor
  <2> HIDE DEF r
  <2> QED
    BY <1>1, <2>1, <2>2 DEF TrackerInv, TrackerForgets
<1>10. ASSUME NEW th \in Operator, Erase(th)
       PROVE  TrackerInv'
  <2>1. /\ pc[th] = "erase" /\ pc' = [pc EXCEPT ![th] = "killed"]
        /\ DOMAIN session_last_tool' = DOMAIN session_last_tool \ {request[th].session}
        /\ UNCHANGED <<history, request, interrupted>>
    BY <1>10 DEF Erase, Goto
  <2> QED
    BY <1>1, <2>1 DEF TrackerInv, TrackerForgets
<1>11. ASSUME NEW th \in Operator, BroadcastKilled(th)
       PROVE  TrackerInv'
  BY <1>1, <1>2, <1>11 DEF BroadcastKilled, Finish, Goto
<1>12. CASE UNCHANGED vars
  BY <1>12 DEF vars, TrackerInv, TrackerForgets
<1> QED
  BY <1>3, <1>4, <1>5, <1>6, <1>7, <1>8, <1>9, <1>10, <1>11, <1>12 DEF Next

(* A session is tracked only while it is open, or its DELETE is on the     *)
(* way, or it was deleted in the middle of a call (POST /intercept, DELETE *)
(* /session).                                                              *)
THEOREM TrackerAlwaysForgets == Spec => []TrackerForgets
<1>1. Init => TrackerInv
  BY DEF Init, TrackerInv, TrackerForgets, Thread
<1>2. TrackerInv => TrackerForgets
  BY DEF TrackerInv
<1> QED
  BY <1>1, <1>2, HandlersInit, HandlersNext, TrackerNext, PTL DEF Spec

-----------------------------------------------------------------------------
(* The events *)

(* ApprovedEvents and ToldAt, of any sequence of events                    *)
ApprovedIn(evs, s, n) == {i \in 1 .. n : evs[i].session = s /\ evs[i].allowed}

ToldIn(evs, s, n, t) ==
  \/ ApprovedIn(evs, s, n) = {} /\ t = None
  \/ \E i \in ApprovedIn(evs, s, n) :
       (\A h \in ApprovedIn(evs, s, n) : h <= i) /\ t = evs[i].tool

LEMMA InEvents ==
  /\ \A s, n : ApprovedEvents(s, n) = ApprovedIn(events, s, n)
  /\ \A s, n, t : ToldAt(s, n, t) <=> ToldIn(events, s, n, t)
BY DEF ApprovedEvents, ApprovedIn, ToldAt, ToldIn

(* One more event changes nothing about the ones before it, and counts for *)
(* its own session if it is approved.                                      *)
LEMMA ApprovedAppend ==
  ASSUME NEW evs \in Seq(EventType), NEW e \in EventType, NEW s
  PROVE  /\ \A n \in 0 .. Len(evs) : ApprovedIn(Append(evs, e), s, n) = ApprovedIn(evs, s, n)
         /\ ApprovedIn(Append(evs, e), s, Len(evs) + 1) =
              IF e.session = s /\ e.allowed THEN ApprovedIn(evs, s, Len(evs)) \cup {Len(evs) + 1}
                                            ELSE ApprovedIn(evs, s, Len(evs))
<1> DEFINE more == Append(evs, e)
           len == Len(evs)
<1>1. /\ len \in Nat /\ Len(more) = len + 1
      /\ \A i \in 1 .. len : more[i] = evs[i]
      /\ more[len + 1] = e
  BY AppendProperties, LenProperties
<1>2. \A n \in 0 .. len : 1 .. n \subseteq 1 .. len
  BY <1>1
<1>3. 1 .. len + 1 = (1 .. len) \cup {len + 1}
  BY <1>1
<1> HIDE DEF more, len
<1>4. \A n \in 0 .. len : ApprovedIn(more, s, n) = ApprovedIn(evs, s, n)
  BY <1>1, <1>2 DEF ApprovedIn
<1>5. ApprovedIn(more, s, len + 1) =
        IF e.session = s /\ e.allowed THEN ApprovedIn(evs, s, len) \cup {len + 1}
                                      ELSE ApprovedIn(evs, s, len)
  BY <1>1, <1>3 DEF ApprovedIn
<1> QED
  BY <1>4, <1>5 DEF more, len

LEMMA ToldAppend ==
  ASSUME NEW evs \in Seq(EventType), NEW e \in EventType, NEW s
  PROVE  /\ \A n \in 0 .. Len(evs) : \A t :
              ToldIn(Append(evs, e), s, n, t) <=> ToldIn(evs, s, n, t)
         /\ ~(e.session = s /\ e.allowed) =>
              \A t : ToldIn(Append(evs, e), s, Len(evs) + 1, t) <=> ToldIn(evs, s, Len(evs), t)
         /\ e.session = s /\ e.allowed => ToldIn(Append(evs, e), s, Len(evs) + 1, e.tool)
<1> DEFINE more == Append(evs, e)
           len == Len(evs)
<1>1. /\ len \in Nat
      /\ \A i \in 1 .. len : more[i] = evs[i]
      /\ more[len + 1] = e
  BY AppendProperties, LenProperties
<1>2. \A n : ApprovedIn(evs, s, n) \subseteq 1 .. n
  BY DEF ApprovedIn
<1>3. \A n \in 0 .. len : 1 .. n \subseteq 1 .. len
  BY <1>1
<1>4. /\ \A n \in 0 .. len : ApprovedIn(more, s, n) = ApprovedIn(evs, s, n)
      /\ ApprovedIn(more, s, len + 1) =
           IF e.session = s /\ e.allowed THEN ApprovedIn(evs, s, len) \cup {len + 1}
                                         ELSE ApprovedIn(evs, s, len)
  BY ApprovedAppend
<1> HIDE DEF more, len
<1>5. \A n \in 0 .. len : \A t : ToldIn(more, s, n, t) <=> ToldIn(evs, s, n, t)
  BY <1>1, <1>2, <1>3, <1>4 DEF ToldIn
<1>6. ASSUME ~(e.session = s /\ e.allowed)
      PROVE  \A t : ToldIn(more, s, len + 1, t) <=> ToldIn(evs, s, len, t)
  BY <1>1, <1>2, <1>4, <1>6 DEF ToldIn
<1>7. ASSUME e.session = s, e.allowed
      PROVE  ToldIn(more, s, len + 1, e.tool)
  <2>1. ApprovedIn(more, s, len + 1) = ApprovedIn(evs, s, len) \cup {len + 1}
    BY <1>4, <1>7
  <2>2. \A h \in ApprovedIn(more, s, len + 1) : h <= len + 1
    BY <1>1, <1>2, <2>1
  <2> QED
    BY <1>1, <2>1, <2>2 DEF ToldIn
<1> QED
  BY <1>5, <1>6, <1>7 DEF more, len

(* The tool the tracker has for a session                                  *)
Tracked(s) == IF s \in DOMAIN session_last_tool THEN session_last_tool[s] ELSE None

(* Three things know where an open session is: its history, the tracker    *)
(* but for an approved call that is not noted yet, and the events but for  *)
(* an approved call whose event is yet to come.                            *)
SessionChain(s) ==
  /\ (\A th \in Agent : request[th].session = s => pc[th] # "update") => Tracked(s) = LastOf(s)
  /\ ~EventToCome(s) => ToldIn(events, s, Len(events), LastOf(s))

(* What a call is about to report as the edge is where its session was,    *)
(* by the history before the approval and by the events after it.          *)
AgentChain(th) ==
  /\ pc[th] = "execute" /\ request[th].session \in DOMAIN history =>
       request[th].from = LastOf(request[th].session)
  /\ request[th].allowed =>
       /\ ToldIn(events, request[th].session, Len(events), request[th].from)
       /\ request[th].session \in DOMAIN history =>
            LastOf(request[th].session) = request[th].tool

EventChain ==
  \A j \in 1 .. Len(events) :
    events[j].type = "intercept" /\ events[j].allowed =>
      ToldIn(events, events[j].session, j - 1, events[j].from)

ChainInv ==
  /\ \A s \in DOMAIN history : SessionChain(s)
  /\ \A th \in Agent : AgentChain(th)
  /\ EventChain

LEMMA LastAppend ==
  ASSUME NEW s, history[s] \in Seq(Tool), NEW t \in Tool, history'[s] = Append(history[s], t)
  PROVE  LastOf(s)' = t
<1>1. Len(history'[s]) = Len(history[s]) + 1 /\ Len(history[s]) \in Nat
  BY AppendProperties, LenProperties
<1>2. history'[s] # <<>>
  BY <1>1, EmptySeq
<1>3. history'[s][Len(history[s]) + 1] = t
  BY AppendProperties
<1> QED
  BY <1>1, <1>2, <1>3 DEF LastOf

(* Another event was broadcast.                                            *)
LEMMA EventChainNext ==
  ASSUME events \in Seq(EventType), NEW e \in EventType, events' = Append(events, e), EventChain,
         e.type = "intercept" /\ e.allowed => ToldIn(events, e.session, Len(events), e.from)
  PROVE  /\ EventChain'
         /\ \A s, t : ~(e.session = s /\ e.allowed) =>
              (ToldIn(events', s, Len(events'), t) <=> ToldIn(events, s, Len(events), t))
         /\ e.allowed => ToldIn(events', e.session, Len(events'), e.tool)
<1>1. /\ Len(events) \in Nat /\ Len(events') = Len(events) + 1
      /\ \A i \in 1 .. Len(events) : events'[i] = events[i]
      /\ events'[Len(events) + 1] = e
  BY AppendProperties, LenProperties
<1>2. ASSUME NEW j \in 1 .. Len(events'), events'[j].type = "intercept", events'[j].allowed
      PROVE  ToldIn(events', events'[j].session, j - 1, events'[j].from)
  <2>1. CASE j = Len(events) + 1
    <3>1. ToldIn(events, e.session, Len(events), e.from)
      BY <1>1, <1>2, <2>1
    <3>2. Len(events) \in 0 .. Len(events) /\ j - 1 = Len(events)
      BY <1>1, <2>1
    <3> QED
      BY <1>1, <2>1, <3>1, <3>2, ToldAppend
  <2>2. CASE j # Len(events) + 1
    <3>1. j \in 1 .. Len(events) /\ j - 1 \in 0 .. Len(events)
      BY <1>1, <2>2
    <3>2. ToldIn(events, events[j].session, j - 1, events[j].from)
      BY <1>1, <1>2, <3>1 DEF EventChain
    <3> QED
      BY <1>1, <3>1, <3>2, ToldAppend
  <2> QED
    BY <2>1, <2>2
<1>3. EventChain'
  BY <1>2 DEF EventChain
<1> QED
  BY <1>1, <1>3, ToldAppend

(* A step of an agent to whom nothing is approved, before or after it      *)
LEMMA ChainQuiet ==
  ASSUME HandlersOK, ChainInv, NEW th \in Agent,
         pc[th] # "update", pc'[th] # "update",
         request[th].allowed = FALSE, request'[th].allowed = FALSE,
         \A i \in Agent \ {th} : pc'[i] = pc[i] /\ request'[i] = request[i],
         UNCHANGED <<history, session_last_tool, events>>,
         pc'[th] = "execute" /\ request'[th].session \in DOMAIN history =>
           request'[th].from = LastOf(request'[th].session)
  PROVE  ChainInv'
<1>1. \A s : EventToCome(s)' <=> EventToCome(s)
  BY DEF EventToCome
<1>2. ASSUME NEW s \in DOMAIN history PROVE SessionChain(s)'
  BY <1>1, <1>2 DEF ChainInv, SessionChain, Tracked, LastOf
<1>3. ASSUME NEW i \in Agent PROVE AgentChain(i)'
  BY <1>3 DEF ChainInv, AgentChain, LastOf
<1> QED
  BY <1>2, <1>3 DEF ChainInv, EventChain

(* An event is broadcast, and the agents are as they were, or it is the    *)
(* event of agent th, whose call is over.                                  *)
LEMMA ChainFinish ==
  ASSUME HandlersOK, ChainInv, NEW th \in Thread, pc[th] # "idle",
         NEW type \in {"intercept", "session_killed"}, Finish(th, type),
         UNCHANGED <<history, used, session_last_tool, interrupted>>,
         \/ th \in Agent /\ pc[th] = "broadcast" /\ type = "intercept"
         \/ th \in Operator
  PROVE  ChainInv'
<1>1. PICK e \in EventType :
        /\ e = Event(th, type) /\ events' = Append(events, e)
        /\ pc' = [pc EXCEPT ![th] = "idle"] /\ request' = [request EXCEPT ![th] = NoRequest]
  BY FinishKeeps
<1>2. /\ e.session = request[th].session /\ e.tool = request[th].tool
      /\ e.from = request[th].from /\ (e.allowed <=> request[th].allowed)
  BY <1>1 DEF Event
<1>3. /\ events \in Seq(EventType) /\ pc \in [Thread -> {"idle", "from", "execute", "update",
                                                         "broadcast", "erase", "killed"}]
      /\ request \in [Thread -> Request] /\ Agent \subseteq Thread
      /\ Agent \cap Operator = {} /\ NoRequest.session = None /\ NoRequest.allowed = FALSE
      /\ None \notin Session /\ DOMAIN history \subseteq Session
      /\ history' = history /\ session_last_tool' = session_last_tool
  BY Constants DEF HandlersOK, GatewayTypeOK, Thread
<1>4. e.allowed => th \in Agent
  BY <1>2 DEF HandlersOK, HandlersInv, Thread
<1>5. e.allowed => ToldIn(events, e.session, Len(events), e.from)
  BY <1>2, <1>4 DEF ChainInv, AgentChain
<1>6. /\ EventChain'
      /\ \A s, t : ~(e.session = s /\ e.allowed) =>
           (ToldIn(events', s, Len(events'), t) <=> ToldIn(events, s, Len(events), t))
      /\ e.allowed => ToldIn(events', e.session, Len(events'), e.tool)
  BY <1>1, <1>3, <1>5, EventChainNext DEF ChainInv
<1>7. \A i \in Agent \ {th} : pc'[i] = pc[i] /\ request'[i] = request[i]
  BY <1>1, <1>3
<1>8. th \in Agent => pc[th] = "broadcast" /\ pc'[th] = "idle" /\ request'[th].allowed = FALSE
                      /\ request'[th].session = None
  BY <1>1, <1>3
<1>9. ASSUME e.allowed
      PROVE  \A i \in Agent \ {th} : request[i].session # e.session
  <2>1. th \in Agent /\ pc[th] # "idle"
    BY <1>4, <1>9
  <2>2. e.session \in Session
    BY DEF EventType
  <2> QED
    BY <1>2, <1>3, <2>1, <2>2 DEF HandlersOK, HandlersInv
<1>10. ASSUME NEW s \in DOMAIN history
       PROVE  SessionChain(s)'
  <2>1. ASSUME \A i \in Agent : request'[i].session = s => pc'[i] # "update"
        PROVE  Tracked(s)' = LastOf(s)'
    <3>1. \A i \in Agent : request[i].session = s => pc[i] # "update"
      BY <1>7, <1>8, <2>1
    <3> QED
      BY <1>3, <3>1 DEF ChainInv, SessionChain, Tracked, LastOf
  <2>2. ASSUME ~EventToCome(s)'
        PROVE  ToldIn(events', s, Len(events'), LastOf(s)')
    <3>1. LastOf(s)' = LastOf(s)
      BY <1>3 DEF LastOf
    <3>2. CASE e.session = s /\ e.allowed
      <4>1. LastOf(s) = e.tool
        BY <1>2, <1>4, <3>2 DEF ChainInv, AgentChain
      <4> QED
        BY <1>6, <3>1, <3>2, <4>1
    <3>3. CASE ~(e.session = s /\ e.allowed)
      <4>1. ~EventToCome(s)
        BY <1>2, <1>7, <2>2, <3>3 DEF EventToCome
      <4> QED
        BY <1>6, <3>1, <3>3, <4>1 DEF ChainInv, SessionChain
    <3> QED
      BY <3>2, <3>3
  <2> QED
    BY <2>1, <2>2 DEF SessionChain
<1>11. ASSUME NEW i \in Agent
       PROVE  AgentChain(i)'
  <2>1. CASE i = th
    BY <1>8, <2>1 DEF AgentChain
  <2>2. CASE i # th
    <3>1. /\ pc'[i] = pc[i] /\ request'[i] = request[i]
      BY <1>7, <2>2
    <3>2. \A s : LastOf(s)' = LastOf(s)
      BY <1>3 DEF LastOf
    <3>3. ~(e.session = request[i].session /\ e.allowed)
      BY <1>9, <2>2
    <3> QED
      BY <1>3, <1>6, <3>1, <3>2, <3>3 DEF ChainInv, AgentChain
  <2> QED
    BY <2>1, <2>2
<1> QED
  BY <1>3, <1>6, <1>10, <1>11 DEF ChainInv

(* The step that matters: the call is recorded, and its "from" is the tool *)
(* it is recorded after, which the events tell too.                        *)
LEMMA ChainRecord ==
  ASSUME HandlersOK, HandlersOK', ChainInv, NEW th \in Agent, pc[th] = "execute",
         Guard!Record(request[th].session, request[th].tool),
         request' = [request EXCEPT ![th].allowed = TRUE], Goto(th, "update"),
         UNCHANGED <<session_last_tool, events>>
  PROVE  ChainInv'
<1>1. PICK s, t : s = request[th].session /\ t = request[th].tool
  OBVIOUS
<1>2. /\ s \in DOMAIN history /\ DOMAIN history' = DOMAIN history
      /\ history'[s] = Append(history[s], t)
      /\ \A i \in DOMAIN history \ {s} : history'[i] = history[i]
  BY <1>1, RecordKeeps
<1>3. /\ request \in [Thread -> Request] /\ Agent \subseteq Thread
      /\ pc \in [Thread -> {"idle", "from", "execute", "update", "broadcast",
                            "erase", "killed"}]
      /\ history[s] \in Seq(Tool) /\ t \in Tool /\ s # None
  BY <1>1, <1>2, Constants DEF HandlersOK, GatewayTypeOK, HandlersInv, Thread
<1>4. /\ request'[th].session = s /\ request'[th].tool = t
      /\ request'[th].from = request[th].from /\ request'[th].allowed = TRUE
      /\ pc'[th] = "update"
      /\ \A i \in Agent \ {th} : pc'[i] = pc[i] /\ request'[i] = request[i]
  BY <1>1, <1>3 DEF Request, Goto
<1>5. /\ \A i \in Agent \ {th} : request[i].session # s
      /\ request[th].allowed = FALSE
  BY <1>1, <1>3 DEF HandlersOK, HandlersInv
<1>6. LastOf(s)' = t /\ \A i \in DOMAIN history \ {s} : LastOf(i)' = LastOf(i)
  BY <1>2, <1>3, LastAppend DEF LastOf
<1>7. ToldIn(events, s, Len(events), request[th].from)
  <2>1. ~EventToCome(s)
    BY <1>1, <1>5 DEF EventToCome
  <2>2. request[th].from = LastOf(s)
    BY <1>1, <1>2 DEF ChainInv, AgentChain
  <2> QED
    BY <1>2, <2>1, <2>2 DEF ChainInv, SessionChain
<1>8. ASSUME NEW i \in DOMAIN history
      PROVE  SessionChain(i)'
  <2>1. CASE i = s
    BY <1>4, <2>1 DEF SessionChain, EventToCome
  <2>2. CASE i # s
    <3>1. (EventToCome(i)' <=> EventToCome(i)) /\ LastOf(i)' = LastOf(i)
      BY <1>1, <1>4, <1>6, <2>2 DEF EventToCome
    <3> QED
      BY <1>1, <1>4, <2>2, <3>1 DEF ChainInv, SessionChain, Tracked
  <2> QED
    BY <2>1, <2>2
<1>9. ASSUME NEW i \in Agent
      PROVE  AgentChain(i)'
  <2>1. CASE i = th
    BY <1>4, <1>6, <1>7, <2>1 DEF AgentChain
  <2>2. CASE i # th
    BY <1>2, <1>4, <1>5, <1>6, <2>2 DEF ChainInv, AgentChain
  <2> QED
    BY <2>1, <2>2
<1> QED
  BY <1>2, <1>8, <1>9 DEF ChainInv, EventChain

LEMMA ChainNext ==
  ASSUME HandlersOK, HandlersOK', ChainInv, [Next]_vars
  PROVE  ChainInv'
<1>1. /\ DOMAIN history \subseteq used /\ used \subseteq Session /\ None \notin Session
      /\ \A s \in DOMAIN history : history[s] \in Seq(Tool)
      /\ DOMAIN session_last_tool \subseteq used
      /\ request \in [Thread -> Request]
      /\ pc \in [Thread -> {"idle", "from", "execute", "update", "broadcast",
                            "erase", "killed"}]
      /\ Agent \subseteq Thread /\ Operator \subseteq Thread /\ Agent \cap Operator = {}
  BY Constants DEF HandlersOK, GatewayTypeOK, Thread
<1>2. \A s : history' = history => LastOf(s)' = LastOf(s)
  BY DEF LastOf
<1>3. CASE PostSession
  <2>1. PICK s \in Session : Guard!Open(s)
    BY <1>3 DEF PostSession
  <2>2. /\ s \notin used /\ DOMAIN history' = DOMAIN history \cup {s} /\ history'[s] = <<>>
        /\ \A i \in DOMAIN history : history'[i] = history[i]
        /\ UNCHANGED <<session_last_tool, events, pc, request, interrupted>>
    BY <1>1, <1>3, <2>1, OpenKeeps DEF PostSession
  <2>3. LastOf(s)' = None /\ \A i \in DOMAIN history : LastOf(i)' = LastOf(i)
    BY <2>2 DEF LastOf
  <2>4. SessionChain(s)'
    <3>1. Tracked(s)' = None
      BY <1>1, <2>2 DEF Tracked
    <3>2. ApprovedIn(events, s, Len(events)) = {}
      BY <2>2 DEF HandlersOK, HandlersInv, ApprovedIn
    <3> QED
      BY <2>2, <2>3, <3>1, <3>2 DEF SessionChain, ToldIn
  <2>5. ASSUME NEW i \in DOMAIN history PROVE SessionChain(i)'
    BY <2>2, <2>3, <2>5 DEF ChainInv, SessionChain, Tracked, EventToCome
  <2>6. ASSUME NEW th \in Agent PROVE AgentChain(th)'
    <3>1. pc[th] # "idle" => request[th].session \in used
      BY DEF HandlersOK, HandlersInv
    <3>2. request[th].allowed => pc[th] # "idle"
      BY Constants DEF HandlersOK, HandlersInv
    <3> QED
      BY <2>2, <2>3, <3>1, <3>2 DEF ChainInv, AgentChain
  <2> QED
    BY <2>2, <2>4, <2>5, <2>6 DEF ChainInv, EventChain
<1>4. ASSUME NEW th \in Agent, NEW s \in Session, NEW t \in Tool, Arrive(th, s, t)
      PROVE  ChainInv'
  <2>1. /\ request'[th] = RequestFor(s, t) /\ pc'[th] = "from" /\ pc[th] = "idle"
        /\ \A i \in Agent \ {th} : pc'[i] = pc[i] /\ request'[i] = request[i]
        /\ UNCHANGED <<history, session_last_tool, events>>
    BY <1>1, <1>4 DEF Arrive, Goto
  <2>2. RequestFor(s, t).allowed = FALSE /\ request[th].allowed = FALSE
    BY <2>1, Constants DEF RequestFor, HandlersOK, HandlersInv
  <2> QED
    BY <2>1, <2>2, ChainQuiet
<1>5. ASSUME NEW th \in Agent, ReadFrom(th)
      PROVE  ChainInv'
  <2>1. /\ request'[th].session = request[th].session
        /\ request'[th].from = Tracked(request[th].session)
        /\ request'[th].allowed = request[th].allowed
        /\ pc'[th] = "execute" /\ pc[th] = "from"
        /\ \A i \in Agent \ {th} : pc'[i] = pc[i] /\ request'[i] = request[i]
        /\ UNCHANGED <<history, session_last_tool, events>>
    BY <1>1, <1>5 DEF ReadFrom, Goto, Request, Tracked
  <2>2. request[th].allowed = FALSE /\ request[th].session \in used
    BY <2>1 DEF HandlersOK, HandlersInv
  <2>3. \A i \in Agent : request[i].session = request[th].session => i = th
    BY <1>1, <2>2 DEF HandlersOK, HandlersInv
  <2>4. request[th].session \in DOMAIN history =>
          Tracked(request[th].session) = LastOf(request[th].session)
    BY <2>1, <2>3 DEF ChainInv, SessionChain
  <2> QED
    BY <2>1, <2>2, <2>4, ChainQuiet
<1>6. ASSUME NEW th \in Agent, Execute(th)
      PROVE  ChainInv'
  <2>1. /\ pc[th] = "execute" /\ request[th].allowed = FALSE
        /\ UNCHANGED <<session_last_tool, events, interrupted>>
    BY <1>6 DEF Execute, HandlersOK, HandlersInv
  <2>2. CASE /\ Guard!Record(request[th].session, request[th].tool)
             /\ request' = [request EXCEPT ![th].allowed = TRUE] /\ Goto(th, "update")
    BY <2>1, <2>2, ChainRecord
  <2>3. CASE /\ UNCHANGED history
             /\ \/ Goto(th, "broadcast") /\ UNCHANGED request
                \/ Goto(th, "idle") /\ request' = [request EXCEPT ![th] = NoRequest]
    <3>1. /\ pc'[th] \in {"broadcast", "idle"} /\ request'[th].allowed = FALSE
          /\ \A i \in Agent \ {th} : pc'[i] = pc[i] /\ request'[i] = request[i]
      BY <1>1, <2>1, <2>3, Constants DEF Goto
    <3> QED
      BY <2>1, <2>3, <3>1, ChainQuiet
  <2> QED
    BY <1>6, <2>2, <2>3 DEF Execute
<1>7. ASSUME NEW th \in Agent, Update(th)
      PROVE  ChainInv'
  <2>1. PICK s \in Session : s = request[th].session
    BY <1>1, <1>7 DEF Update, HandlersOK, HandlersInv
  <2>2. /\ pc[th] = "update" /\ pc'[th] = "broadcast" /\ request' = request
        /\ \A i \in Agent \ {th} : pc'[i] = pc[i]
        /\ history' = history /\ events' = events
        /\ Tracked(s)' = request[th].tool
        /\ \A i : i # s => Tracked(i)' = Tracked(i)
    BY <1>1, <1>7, <2>1 DEF Update, Goto, Tracked
  <2>3. request[th].allowed
    BY <2>2 DEF HandlersOK, HandlersInv
  <2>4. \A i : EventToCome(i)' <=> EventToCome(i)
    BY <2>2 DEF EventToCome
  <2>5. ASSUME NEW i \in DOMAIN history PROVE SessionChain(i)'
    <3>1. CASE i = s
      <4>1. LastOf(s) = request[th].tool
        BY <2>1, <2>3, <3>1 DEF ChainInv, AgentChain
      <4> QED
        BY <1>2, <2>2, <2>4, <3>1, <4>1 DEF ChainInv, SessionChain
    <3>2. CASE i # s
      BY <1>2, <2>1, <2>2, <2>4, <3>2 DEF ChainInv, SessionChain
    <3> QED
      BY <3>1, <3>2
  <2>6. ASSUME NEW i \in Agent PROVE AgentChain(i)'
    BY <1>2, <2>2, <2>6 DEF ChainInv, AgentChain
  <2> QED
    BY <2>2, <2>5, <2>6 DEF ChainInv, EventChain
<1>8. ASSUME NEW th \in Agent, Broadcast(th)
      PROVE  ChainInv'
  BY <1>1, <1>8, ChainFinish DEF Broadcast
<1>9. ASSUME NEW th \in Operator, NEW s \in Session, Kill(th, s)
      PROVE  ChainInv'
  <2>1. /\ DOMAIN history' = DOMAIN history \ {s}
        /\ \A i \in DOMAIN history' : history'[i] = history[i]
    BY <1>9, CloseKeeps DEF Kill
  <2>2. /\ session_last_tool' = session_last_tool /\ events' = events
        /\ \A i \in Agent : pc'[i] = pc[i] /\ request'[i] = request[i]
    BY <1>1, <1>9 DEF Kill, Goto
  <2>3. \A i \in DOMAIN history' : LastOf(i)' = LastOf(i) /\ i \in DOMAIN history
    BY <2>1 DEF LastOf
  <2>4. \A i : EventToCome(i)' <=> EventToCome(i)
    BY <2>2 DEF EventToCome
  <2>5. ASSUME NEW i \in DOMAIN history' PROVE SessionChain(i)'
    BY <2>2, <2>3, <2>4, <2>5 DEF ChainInv, SessionChain, Tracked
  <2>6. ASSUME NEW i \in Agent PROVE AgentChain(i)'
    BY <2>2, <2>3, <2>6 DEF ChainInv, AgentChain
  <2> QED
    BY <2>2, <2>5, <2>6 DEF ChainInv, EventChain
<1>10. ASSUME NEW th \in Operator, Erase(th)
       PROVE  ChainInv'
  <2>1. PICK s \in Session : s = request[th].session /\ s \notin DOMAIN history
    BY <1>1, <1>10 DEF Erase, HandlersOK, HandlersInv
  <2>2. /\ history' = history /\ events' = events
        /\ \A i \in Agent : pc'[i] = pc[i] /\ request'[i] = request[i]
        /\ \A i : i # s => Tracked(i)' = Tracked(i)
    BY <1>1, <1>10, <2>1 DEF Erase, Goto, Tracked
  <2>3. \A i : EventToCome(i)' <=> EventToCome(i)
    BY <2>2 DEF EventToCome
  <2>4. ASSUME NEW i \in DOMAIN history PROVE SessionChain(i)'
    BY <1>2, <2>1, <2>2, <2>3, <2>4 DEF ChainInv, SessionChain
  <2>5. ASSUME NEW i \in Agent PROVE AgentChain(i)'
    BY <1>2, <2>2, <2>5 DEF ChainInv, AgentChain
  <2> QED
    BY <2>2, <2>4, <2>5 DEF ChainInv, EventChain
<1>11. ASSUME NEW th \in Operator, BroadcastKilled(th)
       PROVE  ChainInv'
  BY <1>1, <1>11, ChainFinish DEF BroadcastKilled
<1>12. CASE UNCHANGED vars
  BY <1>12 DEF vars, ChainInv, SessionChain, AgentChain, EventChain, Tracked, LastOf, EventToCome
<1> QED
  BY <1>3, <1>4, <1>5, <1>6, <1>7, <1>8, <1>9, <1>10, <1>11, <1>12 DEF Next

LEMMA ChainInit == Init => ChainInv
<1> SUFFICES ASSUME Init PROVE ChainInv
  OBVIOUS
<1>1. /\ DOMAIN history = {} /\ Len(events) = 0
      /\ \A th \in Agent : pc[th] = "idle" /\ request[th].allowed = FALSE
  BY Constants DEF Init, Guard!Init, Thread
<1> QED
  BY <1>1 DEF ChainInv, AgentChain, EventChain

(* A handler asks with the last tool of its session's history as "from",   *)
(* and the approved events of a session form a chain, whatever other       *)
(* sessions and operators do (POST /intercept, session_last_tool).         *)
THEOREM EventsAlwaysChain == Spec => []EventsChain
<1>1. ChainInv => EventsChain
  BY InEvents DEF ChainInv, AgentChain, EventChain, EventsChain
<1> QED
  BY <1>1, HandlersInit, HandlersNext, ChainInit, ChainNext, PTL DEF Spec

-----------------------------------------------------------------------------
(* The number of an event among the approved ones of a session *)

NumberIn(evs, s, n) == Cardinality(ApprovedIn(evs, s, n))

(* EventsFollowHistory, of one session                                     *)
Follows(s) ==
  /\ Len(history[s]) = NumberIn(events, s, Len(events)) + (IF EventToCome(s) THEN 1 ELSE 0)
  /\ \A j \in ApprovedIn(events, s, Len(events)) :
       events[j].tool = history[s][NumberIn(events, s, j)]

FollowInv == \A s \in DOMAIN history : Follows(s)

LEMMA Numbers ==
  ASSUME NEW evs, NEW s, NEW n \in Nat
  PROVE  /\ IsFiniteSet(ApprovedIn(evs, s, n)) /\ NumberIn(evs, s, n) \in Nat
         /\ \A j \in ApprovedIn(evs, s, n) : NumberIn(evs, s, j) \in 1 .. NumberIn(evs, s, n)
<1>1. ASSUME NEW m \in Nat
      PROVE  IsFiniteSet(ApprovedIn(evs, s, m)) /\ NumberIn(evs, s, m) \in Nat
  <2>1. IsFiniteSet(1 .. m) /\ ApprovedIn(evs, s, m) \in SUBSET (1 .. m)
    BY FS_Interval DEF ApprovedIn
  <2>2. IsFiniteSet(ApprovedIn(evs, s, m))
    BY <2>1, FS_Subset
  <2> QED
    BY <2>2, FS_CardinalityType DEF NumberIn
<1>2. ASSUME NEW j \in ApprovedIn(evs, s, n)
      PROVE  NumberIn(evs, s, j) \in 1 .. NumberIn(evs, s, n)
  <2>1. j \in 1 .. n /\ j \in Nat
    BY DEF ApprovedIn
  <2>2. 1 .. j \subseteq 1 .. n /\ j \in 1 .. j
    BY <2>1
  <2>3. /\ ApprovedIn(evs, s, j) \in SUBSET ApprovedIn(evs, s, n)
        /\ j \in ApprovedIn(evs, s, j)
    BY <2>2 DEF ApprovedIn
  <2>4. NumberIn(evs, s, j) <= NumberIn(evs, s, n)
    BY <1>1, <2>3, FS_Subset DEF NumberIn
  <2>5. NumberIn(evs, s, j) # 0
    BY <1>1, <2>1, <2>3, FS_EmptySet DEF NumberIn
  <2> QED
    BY <1>1, <2>1, <2>4, <2>5
<1> QED
  BY <1>1, <1>2

LEMMA NumberAppend ==
  ASSUME NEW evs \in Seq(EventType), NEW e \in EventType, NEW s
  PROVE  /\ \A n \in 0 .. Len(evs) : NumberIn(Append(evs, e), s, n) = NumberIn(evs, s, n)
         /\ NumberIn(Append(evs, e), s, Len(evs) + 1) =
              NumberIn(evs, s, Len(evs)) + (IF e.session = s /\ e.allowed THEN 1 ELSE 0)
<1>1. Len(evs) \in Nat /\ Len(evs) + 1 \notin ApprovedIn(evs, s, Len(evs))
  <2>1. Len(evs) \in Nat
    BY LenProperties
  <2>2. \A n \in Nat : n + 1 \notin 1 .. n
    OBVIOUS
  <2> QED
    BY <2>1, <2>2 DEF ApprovedIn
<1>2. IsFiniteSet(ApprovedIn(evs, s, Len(evs))) /\ NumberIn(evs, s, Len(evs)) \in Nat
  BY <1>1, Numbers
<1>3. Cardinality(ApprovedIn(evs, s, Len(evs)) \cup {Len(evs) + 1})
        = NumberIn(evs, s, Len(evs)) + 1
  BY <1>1, <1>2, FS_AddElement DEF NumberIn
<1>4. \A n \in 0 .. Len(evs) : NumberIn(Append(evs, e), s, n) = NumberIn(evs, s, n)
  BY ApprovedAppend DEF NumberIn
<1>5. CASE e.session = s /\ e.allowed
  <2>1. NumberIn(Append(evs, e), s, Len(evs) + 1) = NumberIn(evs, s, Len(evs)) + 1
    BY <1>3, <1>5, ApprovedAppend DEF NumberIn
  <2> QED
    BY <1>4, <1>5, <2>1
<1>6. CASE ~(e.session = s /\ e.allowed)
  <2>1. NumberIn(Append(evs, e), s, Len(evs) + 1) = NumberIn(evs, s, Len(evs))
    BY <1>6, ApprovedAppend DEF NumberIn
  <2> QED
    BY <1>2, <1>4, <1>6, <2>1
<1> QED
  BY <1>5, <1>6

(* An event that is not an approved one of session s changes nothing for s *)
LEMMA FollowsEvent ==
  ASSUME events \in Seq(EventType), NEW e \in EventType, events' = Append(events, e),
         NEW s, Follows(s), history'[s] = history[s], ~(e.session = s /\ e.allowed),
         EventToCome(s)' <=> EventToCome(s)
  PROVE  Follows(s)'
<1>1. /\ Len(events) \in Nat /\ Len(events') = Len(events) + 1
      /\ \A i \in 1 .. Len(events) : events'[i] = events[i]
  BY AppendProperties, LenProperties
<1>2. ApprovedIn(events', s, Len(events')) = ApprovedIn(events, s, Len(events))
  BY <1>1, ApprovedAppend
<1>3. NumberIn(events', s, Len(events')) = NumberIn(events, s, Len(events))
  BY <1>2 DEF NumberIn
<1>4. ASSUME NEW j \in ApprovedIn(events, s, Len(events))
      PROVE  events'[j].tool = history'[s][NumberIn(events', s, j)]
  <2>1. j \in 1 .. Len(events) /\ j \in 0 .. Len(events)
    BY DEF ApprovedIn
  <2> QED
    BY <1>1, <2>1, NumberAppend DEF Follows
<1> QED
  BY <1>2, <1>3, <1>4 DEF Follows

(* The event of the call recorded last                                     *)
LEMMA FollowsApproved ==
  ASSUME events \in Seq(EventType), NEW e \in EventType, events' = Append(events, e),
         NEW s, history[s] \in Seq(Tool), Follows(s), history'[s] = history[s],
         e.session = s, e.allowed, e.tool = LastOf(s), EventToCome(s), ~EventToCome(s)'
  PROVE  Follows(s)'
<1>1. /\ Len(events) \in Nat /\ Len(events') = Len(events) + 1
      /\ \A i \in 1 .. Len(events) : events'[i] = events[i]
      /\ events'[Len(events) + 1] = e
  BY AppendProperties, LenProperties
<1>2. ApprovedIn(events', s, Len(events'))
        = ApprovedIn(events, s, Len(events)) \cup {Len(events')}
  <2>1. ApprovedIn(Append(events, e), s, Len(events) + 1) =
          IF e.session = s /\ e.allowed
          THEN ApprovedIn(events, s, Len(events)) \cup {Len(events) + 1}
          ELSE ApprovedIn(events, s, Len(events))
    BY ApprovedAppend
  <2> QED
    BY <1>1, <2>1
<1>3. NumberIn(events', s, Len(events')) = NumberIn(events, s, Len(events)) + 1
  BY <1>1, NumberAppend
<1>4. /\ Len(history[s]) = NumberIn(events', s, Len(events'))
      /\ Len(history[s]) \in Nat \ {0}
  BY <1>1, <1>3, Numbers, LenProperties DEF Follows
<1>5. ASSUME NEW j \in ApprovedIn(events', s, Len(events'))
      PROVE  events'[j].tool = history'[s][NumberIn(events', s, j)]
  <2>1. CASE j = Len(events')
    <3>1. history[s] # <<>>
      BY <1>4, EmptySeq
    <3> QED
      BY <1>1, <1>4, <2>1, <3>1 DEF LastOf
  <2>2. CASE j \in ApprovedIn(events, s, Len(events))
    <3>1. j \in 1 .. Len(events) /\ j \in 0 .. Len(events)
      BY <2>2 DEF ApprovedIn
    <3> QED
      BY <1>1, <2>2, <3>1, NumberAppend DEF Follows
  <2> QED
    BY <1>2, <2>1, <2>2
<1>6. Len(history'[s]) = NumberIn(events', s, Len(events')) + (IF EventToCome(s)' THEN 1 ELSE 0)
  BY <1>1, <1>4
<1> QED
  BY <1>5, <1>6 DEF Follows

(* A call is recorded, and its event is yet to come.                       *)
LEMMA FollowsRecord ==
  ASSUME events \in Seq(EventType), NEW s, NEW t \in Tool, history[s] \in Seq(Tool), Follows(s),
         events' = events, history'[s] = Append(history[s], t),
         ~EventToCome(s), EventToCome(s)'
  PROVE  Follows(s)'
<1>1. /\ Len(events) \in Nat /\ Len(history[s]) \in Nat
      /\ Len(history'[s]) = Len(history[s]) + 1
      /\ \A i \in 1 .. Len(history[s]) : history'[s][i] = history[s][i]
  BY AppendProperties, LenProperties
<1>2. Len(history[s]) = NumberIn(events, s, Len(events))
  BY <1>1, Numbers DEF Follows
<1>3. Len(history'[s]) = NumberIn(events', s, Len(events')) + (IF EventToCome(s)' THEN 1 ELSE 0)
  BY <1>1, <1>2
<1>4. \A j \in ApprovedIn(events, s, Len(events)) :
        NumberIn(events, s, j) \in 1 .. Len(history[s])
  BY <1>1, <1>2, Numbers
<1> QED
  BY <1>1, <1>3, <1>4 DEF Follows

LEMMA FollowNext ==
  ASSUME HandlersOK, ChainInv, FollowInv, [Next]_vars
  PROVE  FollowInv'
<1>1. /\ DOMAIN history \subseteq used /\ used \subseteq Session /\ None \notin Session
      /\ \A s \in DOMAIN history : history[s] \in Seq(Tool)
      /\ events \in Seq(EventType) /\ request \in [Thread -> Request]
      /\ pc \in [Thread -> {"idle", "from", "execute", "update", "broadcast",
                            "erase", "killed"}]
      /\ Agent \subseteq Thread /\ Operator \subseteq Thread /\ Agent \cap Operator = {}
      /\ NoRequest.session = None /\ NoRequest.allowed = FALSE
  BY Constants DEF HandlersOK, GatewayTypeOK, Thread
(* A step that broadcasts nothing and approves nothing                     *)
<1>2. ASSUME events' = events,
             \A s \in DOMAIN history' :
               /\ s \in DOMAIN history /\ history'[s] = history[s]
               /\ EventToCome(s)' <=> EventToCome(s)
      PROVE  FollowInv'
  BY <1>2 DEF FollowInv, Follows
<1>3. ASSUME NEW th \in Agent, request[th].allowed = FALSE, request'[th].allowed = FALSE,
             \A i \in Agent \ {th} : request'[i] = request[i],
             UNCHANGED <<history, events>>
      PROVE  FollowInv'
  BY <1>2, <1>3 DEF EventToCome
<1>4. CASE PostSession
  <2>1. PICK s \in Session : Guard!Open(s)
    BY <1>4 DEF PostSession
  <2>2. /\ s \notin used /\ DOMAIN history' = DOMAIN history \cup {s} /\ history'[s] = <<>>
        /\ \A i \in DOMAIN history : history'[i] = history[i]
        /\ UNCHANGED <<session_last_tool, events, pc, request, interrupted>>
    BY <1>1, <1>4, <2>1, OpenKeeps DEF PostSession
  <2>3. ASSUME NEW i \in DOMAIN history PROVE Follows(i)'
    BY <2>2, <2>3 DEF FollowInv, Follows, EventToCome
  <2>4. Follows(s)'
    <3>1. ApprovedIn(events, s, Len(events)) = {}
      BY <2>2 DEF HandlersOK, HandlersInv, ApprovedIn
    <3>2. NumberIn(events, s, Len(events)) = 0
      BY <3>1, FS_EmptySet DEF NumberIn
    <3>3. ~EventToCome(s)'
      BY <1>1, <2>2 DEF EventToCome, HandlersOK, HandlersInv
    <3>4. Len(history'[s]) = 0
      BY <2>2
    <3> QED
      BY <2>2, <3>1, <3>2, <3>3, <3>4 DEF Follows
  <2> QED
    BY <2>2, <2>3, <2>4 DEF FollowInv
<1>5. ASSUME NEW th \in Agent, NEW s \in Session, NEW t \in Tool, Arrive(th, s, t)
      PROVE  FollowInv'
  <2>1. /\ request'[th] = RequestFor(s, t) /\ pc[th] = "idle"
        /\ \A i \in Agent \ {th} : request'[i] = request[i]
        /\ UNCHANGED <<history, events>>
    BY <1>1, <1>5 DEF Arrive
  <2>2. request[th].allowed = FALSE /\ RequestFor(s, t).allowed = FALSE
    BY <1>1, <2>1 DEF HandlersOK, HandlersInv, RequestFor
  <2> QED
    BY <1>3, <2>1, <2>2
<1>6. ASSUME NEW th \in Agent, ReadFrom(th)
      PROVE  FollowInv'
  <2>1. /\ request'[th].allowed = request[th].allowed /\ pc[th] = "from"
        /\ \A i \in Agent \ {th} : request'[i] = request[i]
        /\ UNCHANGED <<history, events>>
    BY <1>1, <1>6 DEF ReadFrom, Request
  <2>2. request[th].allowed = FALSE
    BY <2>1 DEF HandlersOK, HandlersInv
  <2> QED
    BY <1>3, <2>1, <2>2
<1>7. ASSUME NEW th \in Agent, Execute(th)
      PROVE  FollowInv'
  <2>1. /\ request[th].allowed = FALSE /\ events' = events
        /\ request[th].session \in Session /\ request[th].tool \in Tool
    BY <1>1, <1>7 DEF Execute, HandlersOK, HandlersInv
  <2>2. CASE /\ Guard!Record(request[th].session, request[th].tool)
             /\ request' = [request EXCEPT ![th].allowed = TRUE]
    <3>1. PICK s \in Session, t \in Tool : s = request[th].session /\ t = request[th].tool
      BY <2>1
    <3>2. /\ s \in DOMAIN history /\ DOMAIN history' = DOMAIN history
          /\ history'[s] = Append(history[s], t)
          /\ \A i \in DOMAIN history \ {s} : history'[i] = history[i]
      BY <2>2, <3>1, RecordKeeps
    <3>3. /\ request'[th].session = s /\ request'[th].allowed = TRUE
          /\ \A i \in Agent \ {th} : request'[i] = request[i]
      BY <1>1, <2>2, <3>1 DEF Request
    <3>4. ~EventToCome(s) /\ EventToCome(s)'
      <4>1. \A i \in Agent \ {th} : request[i].session # s
        BY <1>1, <3>1 DEF HandlersOK, HandlersInv
      <4> QED
        BY <2>1, <3>3, <4>1 DEF EventToCome
    <3>5. Follows(s)'
      BY <1>1, <2>1, <3>2, <3>4, FollowsRecord DEF FollowInv
    <3>6. ASSUME NEW i \in DOMAIN history, i # s PROVE Follows(i)'
      <4>1. EventToCome(i)' <=> EventToCome(i)
        BY <3>1, <3>3, <3>6 DEF EventToCome
      <4> QED
        BY <2>1, <3>2, <3>6, <4>1 DEF FollowInv, Follows
    <3> QED
      BY <3>2, <3>5, <3>6 DEF FollowInv
  <2>3. CASE /\ UNCHANGED history
             /\ \/ UNCHANGED request
                \/ request' = [request EXCEPT ![th] = NoRequest]
    <3>1. request'[th].allowed = FALSE /\ \A i \in Agent \ {th} : request'[i] = request[i]
      BY <1>1, <2>1, <2>3
    <3> QED
      BY <1>3, <2>1, <2>3, <3>1
  <2> QED
    BY <1>7, <2>2, <2>3 DEF Execute
<1>8. ASSUME NEW th \in Agent, Update(th)
      PROVE  FollowInv'
  BY <1>2, <1>8 DEF Update, EventToCome
<1>9. ASSUME NEW th \in Agent, Broadcast(th)
      PROVE  FollowInv'
  <2>1. PICK e \in EventType :
          /\ e = Event(th, "intercept") /\ events' = Append(events, e)
          /\ request' = [request EXCEPT ![th] = NoRequest]
    BY <1>1, <1>9, FinishKeeps DEF Broadcast
  <2>2. /\ e.session = request[th].session /\ e.tool = request[th].tool
        /\ (e.allowed <=> request[th].allowed)
        /\ pc[th] # "idle" /\ history' = history
        /\ \A i \in Agent \ {th} : request'[i] = request[i]
        /\ request'[th].allowed = FALSE
    BY <1>1, <1>9, <2>1 DEF Event, Broadcast
  <2>3. ASSUME NEW s \in DOMAIN history
        PROVE  Follows(s)'
    <3>1. CASE e.session = s /\ e.allowed
      <4>1. e.tool = LastOf(s)
        BY <2>2, <3>1 DEF ChainInv, AgentChain
      <4>2. \A i \in Agent \ {th} : request[i].session # s
        <5>1. s # None /\ request[th].session = s
          BY <1>1, <2>2, <3>1
        <5> QED
          BY <5>1 DEF HandlersOK, HandlersInv
      <4>3. EventToCome(s) /\ ~EventToCome(s)'
        BY <2>2, <3>1, <4>2 DEF EventToCome
      <4> QED
        BY <1>1, <2>1, <2>2, <3>1, <4>1, <4>3, FollowsApproved DEF FollowInv
    <3>2. CASE ~(e.session = s /\ e.allowed)
      <4>1. EventToCome(s)' <=> EventToCome(s)
        BY <2>2, <3>2 DEF EventToCome
      <4> QED
        BY <1>1, <2>1, <2>2, <3>2, <4>1, FollowsEvent DEF FollowInv
    <3> QED
      BY <3>1, <3>2
  <2> QED
    BY <2>2, <2>3 DEF FollowInv
<1>10. ASSUME NEW th \in Operator, NEW s \in Session, Kill(th, s)
       PROVE  FollowInv'
  <2>1. /\ DOMAIN history' = DOMAIN history \ {s}
        /\ \A i \in DOMAIN history' : history'[i] = history[i]
    BY <1>10, CloseKeeps DEF Kill
  <2>2. events' = events /\ \A i \in Agent : request'[i] = request[i]
    BY <1>1, <1>10 DEF Kill
  <2> QED
    BY <1>2, <2>1, <2>2 DEF EventToCome
<1>11. ASSUME NEW th \in Operator, Erase(th)
       PROVE  FollowInv'
  BY <1>2, <1>11 DEF Erase, EventToCome
<1>12. ASSUME NEW th \in Operator, BroadcastKilled(th)
       PROVE  FollowInv'
  <2>1. PICK e \in EventType :
          /\ e = Event(th, "session_killed") /\ events' = Append(events, e)
          /\ request' = [request EXCEPT ![th] = NoRequest]
    BY <1>1, <1>12, FinishKeeps DEF BroadcastKilled
  <2>2. /\ ~e.allowed /\ history' = history
        /\ \A i \in Agent : request'[i] = request[i]
    BY <1>1, <1>12, <2>1 DEF Event, BroadcastKilled, HandlersOK, HandlersInv
  <2>3. ASSUME NEW s \in DOMAIN history PROVE Follows(s)'
    <3>1. EventToCome(s)' <=> EventToCome(s)
      BY <2>2 DEF EventToCome
    <3> QED
      BY <1>1, <2>1, <2>2, <3>1, FollowsEvent DEF FollowInv
  <2> QED
    BY <2>2, <2>3 DEF FollowInv
<1>13. CASE UNCHANGED vars
  BY <1>2, <1>13 DEF vars, EventToCome
<1> QED
  BY <1>4, <1>5, <1>6, <1>7, <1>8, <1>9, <1>10, <1>11, <1>12, <1>13 DEF Next

(* A dashboard can follow a session: its approved events, in the order in  *)
(* which they were sent, are the calls of its history, but for a call      *)
(* whose event is yet to come (POST /intercept broadcasts last).           *)
THEOREM EventsAlwaysFollow == Spec => []EventsFollowHistory
<1>1. Init => FollowInv
  BY DEF Init, Guard!Init, FollowInv
<1>2. FollowInv => EventsFollowHistory
  BY InEvents DEF FollowInv, Follows, NumberIn, EventsFollowHistory
<1> QED
  BY <1>1, <1>2, HandlersInit, HandlersNext, ChainInit, ChainNext, FollowNext, PTL DEF Spec
============================================================================
