---------------------------- MODULE EagerSessions ----------------------------
(***************************************************************************)
(* What a session store promises: the sessions are the ones whose time is  *)
(* not up, the limit counts exactly those, and a session that is gone      *)
(* stays gone.                                                             *)
(***************************************************************************)
EXTENDS Naturals, Sequences, FiniteSets

CONSTANTS Session, Call, Timeout, MaxSessions, MaxClock

VARIABLES
  live,        \* the sessions that exist: a function on their ids
  allocated,   \* the ids handed out so far
  clock,
  reply        \* the answer to the last request

vars == <<live, allocated, clock, reply>>

Init ==
  /\ live = [s \in {} |-> {}]
  /\ allocated = {}
  /\ clock = 0
  /\ reply = "none"

Full == MaxSessions > 0 /\ Cardinality(DOMAIN live) >= MaxSessions

(* Whether session s is still there at time now; with Timeout 0 it always is *)
InTime(s, now) == Timeout = 0 \/ now < live[s].expires

Create(s) ==
  /\ s \notin allocated /\ ~Full
  /\ live' = [i \in DOMAIN live \cup {s} |->
                IF i = s THEN [seq |-> <<>>, expires |-> clock + Timeout]
                         ELSE live[i]]
  /\ allocated' = allocated \cup {s}
  /\ reply' = "ok"
  /\ UNCHANGED clock

Refuse ==
  Full /\ reply' = "full" /\ UNCHANGED <<live, allocated, clock>>

End(s) ==
  /\ s \in DOMAIN live
  /\ live' = [i \in DOMAIN live \ {s} |-> live[i]]
  /\ reply' = "ok"
  /\ UNCHANGED <<allocated, clock>>

(* Ending a session that is gone has no effect; the answer may be either,  *)
(* and is an error when there never was such a session.                    *)
EndGone(s) ==
  /\ s \notin DOMAIN live
  /\ reply' \in IF s \in allocated THEN {"ok", "unknown"} ELSE {"unknown"}
  /\ UNCHANGED <<live, allocated, clock>>

Record(s, c) ==
  /\ s \in DOMAIN live
  /\ live' = [live EXCEPT ![s] = [seq |-> Append(live[s].seq, c),
                                  expires |-> clock + Timeout]]
  /\ reply' = "ok"
  /\ UNCHANGED <<allocated, clock>>

RecordGone(s) ==
  /\ s \notin DOMAIN live
  /\ reply' = "unknown"
  /\ UNCHANGED <<live, allocated, clock>>

(* Time passes, and the sessions whose time is up disappear with it. *)
Tick ==
  /\ clock < MaxClock
  /\ clock' = clock + 1
  /\ live' = [s \in {i \in DOMAIN live : InTime(i, clock')} |-> live[s]]
  /\ UNCHANGED <<allocated, reply>>

Next ==
  \/ \E s \in Session : Create(s) \/ End(s) \/ EndGone(s) \/ RecordGone(s)
  \/ \E s \in Session, c \in Call : Record(s, c)
  \/ Refuse
  \/ Tick

Spec == Init /\ [][Next]_vars
=============================================================================
