-------------------------- MODULE ToolInterceptor --------------------------
(***************************************************************************)
(* ToolInterceptor (src/src/tool_interceptor.cpp): the other client of the *)
(* validator and the sessions, for programs that bring their own.  Here    *)
(* sessions do expire, in the middle of a call too, and the owner of the   *)
(* session manager creates and ends sessions at any time.                  *)
(*                                                                         *)
(* A call goes through has_session, get_sequence, validate, and then       *)
(*   intercept         runs the tool in the sandbox and records it if that *)
(*                     was a success; without a sandbox it is taken to be  *)
(*   execute_if_valid  records it and then calls the caller's function     *)
(* append_tool_call throws when the session is gone.  A function that      *)
(* throws and one that returns leave the same state behind.                *)
(*                                                                         *)
(* Nothing keeps two threads from calls in one session at once.  What is   *)
(* claimed of the order of its calls is claimed of sessions in which no    *)
(* two calls ever overlapped, those that are not in shared.                *)
(***************************************************************************)
EXTENDS SessionClients, PolicyValidator

CONSTANT NoSession    \* the session of a thread that is in no call

ASSUME InterceptorAssumption ==
  Call = Tool /\ NoSession \notin Session

VARIABLES
  request,  \* the operation and the session of each thread's call
  effects,  \* HISTORY: the tools that ran with success and the functions
            \*          that were called, for each session that is there
  shared    \* HISTORY: the sessions in which a call began before another
            \*          one had returned

interceptorVars == <<clientVars, validatorVars, request, effects, shared>>

Operation == {"intercept", "execute_if_valid"}

NoRequest == [op |-> "intercept", session |-> NoSession]

InterceptorInit ==
  /\ ClientsInit
  /\ ValidatorInit
  /\ request = [th \in Thread |-> NoRequest]
  /\ effects = [s \in Session |-> <<>>]
  /\ shared = {}

-----------------------------------------------------------------------------
Leave(th) == Return(th) /\ request' = [request EXCEPT ![th] = NoRequest]

Approved(th) == pc[th] = "done" /\ job[th].verdict = "approved"

(* The threads in calls in session s                                       *)
InCall(s) == {th \in Thread : request[th].session = s}

(* has_session says yes, whether or not other threads are in calls in s.   *)
(* The bound MaxCalls counts their calls too.                              *)
Begin(th, op, s, t) ==
  /\ pc[th] = "idle" /\ Live(s)
  /\ Len(sessions[s].seq) + Cardinality(InCall(s)) < MaxCalls
  /\ shared' = IF InCall(s) = {} THEN shared ELSE shared \cup {s}
  /\ request' = [request EXCEPT ![th] = [op |-> op, session |-> s]]
  /\ job' = [job EXCEPT ![th] = NewJob(t, <<>>)]
  /\ Goto(th, "fetch")
  /\ UNCHANGED <<clientVars, cache, cycle_threshold, effects>>

(* SEEDED FAULT for Fetch: the copy lacks the call recorded last. *)
FetchAllButLast(th) ==
  LET seq == SequenceOf(request[th].session)
  IN
  /\ pc[th] = "fetch"
  /\ job' = [job EXCEPT ![th].seq = SubSeq(seq, 1, Len(seq) - 1)]
  /\ Goto(th, "lookup")
  /\ UNCHANGED <<clientVars, cache, cycle_threshold, request, effects, shared>>

(* get_sequence: the empty history if the session expired or ended since.  *)
Fetch(th) ==
  /\ pc[th] = "fetch"
  /\ job' = [job EXCEPT ![th].seq = SequenceOf(request[th].session)]
  /\ Goto(th, "lookup")
  /\ UNCHANGED <<clientVars, cache, cycle_threshold, request, effects, shared>>

Validate(th) ==
  ValidateStep(th) /\ UNCHANGED <<clientVars, request, effects, shared>>

Deny(th) ==
  /\ pc[th] = "done" /\ ~Approved(th)
  /\ Leave(th)
  /\ UNCHANGED <<clientVars, cache, cycle_threshold, effects, shared>>

TakesEffect(th) ==
  LET s == request[th].session
  IN  effects' = IF Live(s) THEN [effects EXCEPT ![s] = Append(@, job[th].tool)]
                            ELSE effects

(* SEEDED FAULT for Run: the call is recorded whatever the sandbox says. *)
RunRegardless(th) ==
  /\ Approved(th) /\ request[th].op = "intercept"
  /\ Goto(th, "append")
  /\ TakesEffect(th) \/ UNCHANGED effects
  /\ UNCHANGED <<clientVars, cache, cycle_threshold, job, request, shared>>

(* The sandbox fails, and the answer becomes a denial; or it succeeds.     *)
Run(th) ==
  /\ Approved(th) /\ request[th].op = "intercept"
  /\ \/ Leave(th) /\ UNCHANGED effects
     \/ Goto(th, "append") /\ TakesEffect(th) /\ UNCHANGED <<job, request>>
  /\ UNCHANGED <<clientVars, cache, cycle_threshold, shared>>

(* append_tool_call, after the run or before the function is called; when  *)
(* the session is gone it throws, and the function is not called.          *)
RecordCall(th) ==
  LET s == request[th].session
      before == Approved(th) /\ request[th].op = "execute_if_valid"
  IN  /\ before \/ pc[th] = "append"
      /\ Record(s, job[th].tool)
      /\ IF before /\ Live(s) THEN Goto(th, "call") /\ UNCHANGED <<job, request>>
                              ELSE Leave(th)
      /\ UNCHANGED <<cache, cycle_threshold, effects, shared>>

CallFunction(th) ==
  /\ pc[th] = "call"
  /\ TakesEffect(th)
  /\ Leave(th)
  /\ UNCHANGED <<clientVars, cache, cycle_threshold, shared>>

(* The owner creates and ends sessions, and time passes.  The history      *)
(* variables forget the sessions that the map has dropped.                 *)
Owner ==
  /\ Create \/ Wait \/ \E s \in Session : End(s)
  /\ effects' = [s \in Session |-> IF s \in DOMAIN sessions' THEN effects[s] ELSE <<>>]
  /\ shared' = shared \cap DOMAIN sessions'
  /\ UNCHANGED <<validatorVars, request>>

ThreadStep(th) ==
  Fetch(th) \/ Validate(th) \/ Deny(th) \/ Run(th) \/ RecordCall(th) \/ CallFunction(th)

InterceptorNext ==
  \/ \E th \in Thread, op \in Operation, s \in Session, t \in Tool : Begin(th, op, s, t)
  \/ \E th \in Thread : ThreadStep(th)
  \/ Owner

InterceptorSpec == InterceptorInit /\ [][InterceptorNext]_interceptorVars

-----------------------------------------------------------------------------
Recorded(s) == sessions[s].seq

(* What validate promises of tool t after a history: it fits the calls of  *)
(* a cache key, and the threshold, which nobody changes, is not reached.   *)
Permitted(history, t) ==
  /\ Allowed(history, t)
  /\ Occurrences(history, t) < cycle_threshold

(* Every call recorded in a session used one call at a time was permitted  *)
(* after the calls recorded before it.  A session that expires after       *)
(* has_session reads as empty, so that anything which may come first is    *)
(* approved: only because append_tool_call looks at expiry once more is it *)
(* not recorded.                                                           *)
HistoriesPermitted ==
  \A s \in DOMAIN sessions \ shared : \A i \in 1 .. Len(Recorded(s)) :
    Permitted(Context(SubSeq(Recorded(s), 1, i - 1)), Recorded(s)[i])

(* What the sandbox is about to run in a session used one call at a time   *)
(* was permitted after the history as it is now, unless the session is     *)
(* gone, for which there is no history.                                    *)
RunsPermitted ==
  \A th \in Thread :
    LET s == request[th].session
    IN  Approved(th) /\ Live(s) /\ s \notin shared
          => Permitted(Context(Recorded(s)), job[th].tool)

(* The threads that are at a place of their calls in session s             *)
At(s, place) == {th \in InCall(s) : pc[th] = place}

(* The call of the thread that is there, if there is one                   *)
CallAt(s, place) ==
  IF At(s, place) = {} THEN <<>> ELSE <<job[CHOOSE th \in At(s, place) : TRUE].tool>>

(* The history of a live session used one call at a time is, in order,     *)
(* what took effect in it, up to the call that is about to be recorded or  *)
(* about to take effect: a run that failed leaves no trace, and one that   *)
(* succeeded is not lost, unlike in Guardian, which records both.          *)
EffectsRecorded ==
  \A s \in LiveSessions \ shared :
    Recorded(s) \o CallAt(s, "append") = effects[s] \o CallAt(s, "call")

(* And in every live session, however many calls are in it at once, each   *)
(* tool is recorded as often as it took effect, up to the calls that are   *)
(* about to be recorded and about to take effect.                          *)
EffectsCounted ==
  \A s \in LiveSessions, t \in Tool :
    Occurrences(Recorded(s), t) + Cardinality({th \in At(s, "append") : job[th].tool = t})
      = Occurrences(effects[s], t) + Cardinality({th \in At(s, "call") : job[th].tool = t})
=============================================================================
