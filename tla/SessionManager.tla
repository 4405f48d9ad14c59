--------------------------- MODULE SessionManager ---------------------------
(***************************************************************************)
(* SessionManager (src/src/session_manager.cpp): the sessions and their    *)
(* call histories, behind one reader/writer lock.  Every public operation  *)
(* holds the lock from its first read to its last write, so every          *)
(* operation is one action or, when it only reads, one state function.     *)
(*                                                                         *)
(* A session is dropped in two ways: end_session erases it, and            *)
(* create_session sweeps out the ones that have expired.  Between its      *)
(* expiry and the next sweep a session stays in the map, and each          *)
(* operation decides for itself whether to look at expiry: has_session,    *)
(* get_sequence and append_tool_call do, end_session does not.             *)
(*                                                                         *)
(* Session ids are 96 random bits; that two draws differ is assumed, so    *)
(* create_session takes an id never given out before.  Time is             *)
(* std::chrono::system_clock in whole seconds, taken to run forward.       *)
(***************************************************************************)
EXTENDS Naturals, Sequences, FiniteSets

CONSTANTS
  Session,       \* session ids
  Call,          \* what is recorded of a tool call
  Timeout,       \* timeout_seconds_, 0 for sessions that never expire
  MaxSessions,   \* max_sessions_, 0 for no limit
  MaxClock       \* BOUND: the last second of the clock

ASSUME SessionAssumption ==
  Timeout \in Nat /\ MaxSessions \in Nat /\ MaxClock \in Nat

VARIABLES
  sessions,      \* sessions_: a function on the ids in the map
  allocated,     \* the ids handed out so far
  clock          \* system_clock::now(), in seconds

sessionVars == <<sessions, allocated, clock>>

SessionRecord == [seq : Seq(Call), last_activity : Nat]

SessionTypeOK ==
  /\ allocated \in SUBSET Session
  /\ DOMAIN sessions \in SUBSET allocated
  /\ sessions \in [DOMAIN sessions -> SessionRecord]
  /\ clock \in Nat

SessionInit ==
  /\ sessions = [s \in {} |-> {}]
  /\ allocated = {}
  /\ clock = 0

-----------------------------------------------------------------------------
(* is_expired *)
Expired(s) ==
  Timeout # 0 /\ clock >= sessions[s].last_activity + Timeout

(* has_session: the session is in the map and has not expired *)
Live(s) == s \in DOMAIN sessions /\ ~Expired(s)

(* get_sequence: a dead session reads as an empty history *)
SequenceOf(s) == IF Live(s) THEN sessions[s].seq ELSE <<>>

(* get_all_sessions; active_session_count is its cardinality *)
LiveSessions == {s \in DOMAIN sessions : ~Expired(s)}

(* SEEDED FAULT for Swept: nothing is swept. *)
NothingSwept == sessions

(* cleanup_expired_sessions leaves this map *)
Swept == [s \in LiveSessions |-> sessions[s]]

(* create_session finds the map full, after the sweep *)
Full == MaxSessions > 0 /\ Cardinality(DOMAIN Swept) >= MaxSessions

-----------------------------------------------------------------------------
(* create_session draws the fresh id s *)
CreateSession(s) ==
  /\ s \notin allocated
  /\ ~Full
  /\ sessions' = [i \in DOMAIN Swept \cup {s} |->
                    IF i = s THEN [seq |-> <<>>, last_activity |-> clock]
                             ELSE Swept[i]]
  /\ allocated' = allocated \cup {s}
  /\ UNCHANGED clock

(* create_session throws; the sweep has happened all the same *)
RefuseSession ==
  /\ Full
  /\ sessions' = Swept
  /\ UNCHANGED <<allocated, clock>>

(* end_session erases what the map holds, expired or not *)
EndSession(s) ==
  /\ s \in DOMAIN sessions
  /\ sessions' = [i \in DOMAIN sessions \ {s} |-> sessions[i]]
  /\ UNCHANGED <<allocated, clock>>

(* SEEDED FAULT for AppendToolCall: an expired session is not refused. *)
AppendIfPresent(s, c) ==
  /\ s \in DOMAIN sessions
  /\ sessions' = [sessions EXCEPT ![s] =
                    [seq |-> Append(sessions[s].seq, c),
                     last_activity |-> clock]]
  /\ UNCHANGED <<allocated, clock>>

(* append_tool_call records the call and postpones the expiry; on a dead   *)
(* session it throws and changes nothing                                   *)
AppendToolCall(s, c) ==
  /\ Live(s)
  /\ sessions' = [sessions EXCEPT ![s] =
                    [seq |-> Append(sessions[s].seq, c),
                     last_activity |-> clock]]
  /\ UNCHANGED <<allocated, clock>>

Tick ==
  /\ clock < MaxClock
  /\ clock' = clock + 1
  /\ UNCHANGED <<sessions, allocated>>
=============================================================================
