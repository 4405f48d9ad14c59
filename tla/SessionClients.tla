--------------------------- MODULE SessionClients ---------------------------
(***************************************************************************)
(* The session manager by itself: any number of threads call its           *)
(* operations, in any order and with any id.  The lock makes each call one *)
(* step; what the call tells its caller is kept in reply, because the      *)
(* answers are what a client can see of a session.                         *)
(*                                                                         *)
(* The map expires sessions lazily.  What it promises is the abstract      *)
(* specification EagerSessions, in which a session disappears the moment   *)
(* its time is up; EagerlyExpired below is the claim that no caller can    *)
(* tell the difference, except through end_session.                        *)
(***************************************************************************)
EXTENDS SessionManager

CONSTANT MaxCalls   \* BOUND: calls of a session

VARIABLE reply      \* what the last operation told its caller

clientVars == <<sessions, allocated, clock, reply>>

Replies == {"none", "ok", "unknown", "full"}

ClientsTypeOK == SessionTypeOK /\ reply \in Replies

ClientsInit == SessionInit /\ reply = "none"

Create ==
  \/ (\E s \in Session : CreateSession(s)) /\ reply' = "ok"
  \/ RefuseSession /\ reply' = "full"

(* end_session throws when the map does not hold the id *)
End(s) ==
  \/ EndSession(s) /\ reply' = "ok"
  \/ s \notin DOMAIN sessions /\ reply' = "unknown" /\ UNCHANGED sessionVars

Record(s, c) ==
  \/ AppendToolCall(s, c) /\ reply' = "ok"
  \/ ~Live(s) /\ reply' = "unknown" /\ UNCHANGED sessionVars

Wait == Tick /\ UNCHANGED reply

ClientsNext ==
  \/ Create
  \/ \E s \in Session : End(s)
  \/ \E s \in Session, c \in Call : Len(SequenceOf(s)) < MaxCalls /\ Record(s, c)
  \/ Wait

ClientsSpec == ClientsInit /\ [][ClientsNext]_clientVars

-----------------------------------------------------------------------------
(* The lazy map implements eager expiry: each answer is one the abstract   *)
(* store could give, so a create is refused only when as many sessions as  *)
(* the limit are live, and a record succeeds exactly on a live session.    *)
Eager == INSTANCE EagerSessions WITH
           live <- [s \in LiveSessions |->
                      [seq |-> sessions[s].seq,
                       expires |-> sessions[s].last_activity + Timeout]]

EagerlyExpired == Eager!Spec
=============================================================================
