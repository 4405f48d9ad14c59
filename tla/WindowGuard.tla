---------------------------- MODULE WindowGuard ----------------------------
(***************************************************************************)
(* What a Guardian promises: sessions are opened and closed, and a call is *)
(* recorded in a session only if the last ContextLength calls recorded in  *)
(* it permit the call.  There are no threads, no cache and no copies here: *)
(* each decision is one step, taken on the history as it is.               *)
(***************************************************************************)
EXTENDS Policy

CONSTANTS Session, Thresholds

VARIABLES
  history,   \* the calls of each open session
  used       \* the ids that were ever given out

vars == <<history, used>>

(* The calls permit t, and if there is one fixed threshold, it too.        *)
Permits(calls, t) ==
  /\ Allowed(calls, t)
  /\ (\A m, n \in Thresholds : m = n) =>
       \A n \in Thresholds : Occurrences(calls, t) < n

Init == history = [s \in {} |-> {}] /\ used = {}

Open(s) ==
  /\ s \notin used
  /\ history' = [i \in DOMAIN history \cup {s} |->
                   IF i = s THEN <<>> ELSE history[i]]
  /\ used' = used \cup {s}

Close(s) ==
  /\ s \in DOMAIN history
  /\ history' = [i \in DOMAIN history \ {s} |-> history[i]]
  /\ UNCHANGED used

Record(s, t) ==
  /\ s \in DOMAIN history
  /\ Permits(Context(history[s]), t)
  /\ history' = [history EXCEPT ![s] = Append(history[s], t)]
  /\ UNCHANGED used

Next ==
  \E s \in Session : Open(s) \/ Close(s) \/ \E t \in Tool : Record(s, t)

Spec == Init /\ [][Next]_vars
=============================================================================
