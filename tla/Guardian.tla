------------------------------ MODULE Guardian ------------------------------
(***************************************************************************)
(* Guardian (src/src/guardian.cpp): the sessions and the validator         *)
(* together, as a server's threads use them.  Each part guards its own     *)
(* state; nothing holds from one part to the next, so a call of            *)
(* execute_tool is a series of steps between which the session may be      *)
(* ended, another call may be recorded in it, or the configuration may     *)
(* change:                                                                 *)
(*                                                                         *)
(*   Begin    has_session                                                  *)
(*   Fetch    get_sequence copies the history                              *)
(*            the four steps of validate on the copy                       *)
(*   Run      execute_tool of the sandbox                                  *)
(*   Record   append_tool_call, which throws if the session is gone        *)
(*                                                                         *)
(* The constructor makes its SessionManager with the default arguments, so *)
(* a Guardian's sessions have no timeout and no limit.                     *)
(***************************************************************************)
EXTENDS PolicyValidator, SessionManager

CONSTANTS
  OneCallPerSession,  \* whether a client waits for a call of execute_tool
                      \* before it makes the next one in the same session
  Loaded,             \* tools whose module the sandbox has loaded
  NoSession           \* the session of a thread that is in no call

ASSUME GuardianAssumption ==
  /\ Call = Tool
  /\ Timeout = 0 /\ MaxSessions = 0
  /\ OneCallPerSession \in BOOLEAN
  /\ Loaded \subseteq Tool
  /\ NoSession \notin Session

VARIABLES
  request,  \* the operation and the session of each thread's call
  ran       \* HISTORY: the tools the sandbox ran for each existing session

guardianVars ==
  <<cache, cycle_threshold, pc, job, sessions, allocated, clock, request, ran>>

Operation == {"execute", "validate"}

GuardianTypeOK ==
  /\ ValidatorTypeOK
  /\ SessionTypeOK
  /\ request \in [Thread -> [op : Operation, session : Session \cup {NoSession}]]
  /\ ran \in [Session -> Seq(Tool)]

NoRequest == [op |-> "validate", session |-> NoSession]

GuardianInit ==
  /\ ValidatorInit
  /\ SessionInit
  /\ request = [th \in Thread |-> NoRequest]
  /\ ran = [s \in Session |-> <<>>]

-----------------------------------------------------------------------------
(* A thread is in a call of execute_tool on session s. *)
Executing(th, s) ==
  pc[th] # "idle" /\ request[th] = [op |-> "execute", session |-> s]

(* execute_tool and validate_tool_call both begin with has_session, and    *)
(* return at once when it says no, which changes nothing.                  *)
Begin(th, op, s, t) ==
  /\ pc[th] = "idle"
  /\ Live(s)
  /\ op = "execute" =>
       /\ Len(sessions[s].seq) < MaxHistory
       /\ OneCallPerSession => \A other \in Thread : ~Executing(other, s)
  /\ request' = [request EXCEPT ![th] = [op |-> op, session |-> s]]
  /\ job' = [job EXCEPT ![th] = NewJob(t, <<>>)]
  /\ Goto(th, "fetch")
  /\ UNCHANGED <<cache, cycle_threshold, sessionVars, ran>>

(* SEEDED FAULT for Fetch: the call is validated as if it were the first. *)
FetchNothing(th) ==
  /\ pc[th] = "fetch"
  /\ job' = [job EXCEPT ![th] = NewJob(job[th].tool, <<>>)]
  /\ Goto(th, "lookup")
  /\ UNCHANGED <<cache, cycle_threshold, sessionVars, request, ran>>

(* get_sequence *)
Fetch(th) ==
  /\ pc[th] = "fetch"
  /\ job' = [job EXCEPT ![th] =
               NewJob(job[th].tool, SequenceOf(request[th].session))]
  /\ Goto(th, "lookup")
  /\ UNCHANGED <<cache, cycle_threshold, sessionVars, request, ran>>

Validate(th) ==
  ValidateStep(th) /\ UNCHANGED <<sessionVars, request, ran>>

Approved(th) == job[th].verdict = "approved"

Leave(th) ==
  Return(th) /\ request' = [request EXCEPT ![th] = NoRequest]

(* A verdict is all validate_tool_call wants; execute_tool stops at a      *)
(* denial.                                                                 *)
Answered(th) ==
  /\ pc[th] = "done"
  /\ request[th].op = "execute" => ~Approved(th)
  /\ Leave(th)
  /\ UNCHANGED <<cache, cycle_threshold, sessionVars, ran>>

(* An approved call runs, unless the sandbox has no module for the tool.   *)
(* The result, success or not, is only returned to the caller.             *)
Run(th) ==
  LET s == request[th].session
      t == job[th].tool
  IN  /\ pc[th] = "done" /\ request[th].op = "execute" /\ Approved(th)
      /\ ran' = IF t \in Loaded /\ Live(s)
                THEN [ran EXCEPT ![s] = Append(ran[s], t)] ELSE ran
      /\ Goto(th, "append")
      /\ UNCHANGED <<cache, cycle_threshold, job, sessionVars, request>>

(* SEEDED FAULT for Record: a failure to record is swallowed. *)
RecordOrNot(th) ==
  LET s == request[th].session
  IN  /\ pc[th] = "append"
      /\ AppendToolCall(s, job[th].tool) \/ UNCHANGED sessionVars
      /\ Leave(th)
      /\ UNCHANGED <<cache, cycle_threshold, ran>>

(* append_tool_call, whatever the sandbox returned; when the session is    *)
(* gone by now it throws out of execute_tool                               *)
Record(th) ==
  LET s == request[th].session
  IN  /\ pc[th] = "append"
      /\ \/ AppendToolCall(s, job[th].tool)
         \/ ~Live(s) /\ UNCHANGED sessionVars
      /\ Leave(th)
      /\ UNCHANGED <<cache, cycle_threshold, ran>>

(* create_session and end_session of a Guardian *)
Create(s) ==
  CreateSession(s)
  /\ UNCHANGED <<cache, cycle_threshold, pc, job, request, ran>>

End(s) ==
  EndSession(s)
  /\ ran' = [ran EXCEPT ![s] = <<>>]
  /\ UNCHANGED <<cache, cycle_threshold, pc, job, request>>

(* update_config, of which only the threshold reaches a part modelled here *)
UpdateConfig(n) ==
  SetCycleThreshold(n) /\ UNCHANGED <<sessionVars, request, ran>>

ThreadStep(th) ==
  Fetch(th) \/ Validate(th) \/ Answered(th) \/ Run(th) \/ Record(th)

GuardianNext ==
  \/ \E th \in Thread : ThreadStep(th)
  \/ \E th \in Thread, op \in Operation, s \in Session, t \in Tool :
       Begin(th, op, s, t)
  \/ \E s \in Session : Create(s) \/ End(s)
  \/ \E n \in Thresholds : UpdateConfig(n)

GuardianSpec == GuardianInit /\ [][GuardianNext]_guardianVars

-----------------------------------------------------------------------------
(* Properties.  Histories are read with call i of s as Recorded(s)[i].     *)
Recorded(s) == sessions[s].seq

(* The threshold is never changed to another value. *)
SteadyThreshold == \A m, n \in Thresholds : m = n

(* The tool may follow these calls: the checks on the graph, and, unless   *)
(* the threshold is being changed, the one on repetitions.                 *)
Permitted(history, t) ==
  /\ Allowed(history, t)
  /\ SteadyThreshold => \A n \in Thresholds : Occurrences(history, t) < n

(* A cached approval is right about every question that has its key,       *)
(* whichever session and whichever longer history it was computed for, as  *)
(* long as no two questions share a key (KeysDistinct).                    *)
CacheSound ==
  \A q \in Questions :
    KeyText[q] \in DOMAIN cache /\ cache[KeyText[q]] = "approved"
      => Permitted(q[2], q[1])

(* No call of a session's history depends on one that was not seen when it *)
(* was validated: between get_sequence and append_tool_call the history of *)
(* a session does not change under a client that makes one call at a time, *)
(* although others end sessions and fill the cache meanwhile.              *)
SnapshotsCurrent ==
  \A th \in Thread :
    LET s == request[th].session
    IN  /\ Executing(th, s) /\ s \in DOMAIN sessions
        /\ pc[th] \in {"lookup", "examine", "decide", "store", "done", "append"}
        => job[th].seq = Recorded(s)

(* Every recorded call was permitted after the ContextLength calls before  *)
(* it: what the validator still guarantees when it answers from its cache, *)
(* as long as no two questions have the same key (KeysDistinct).           *)
RecordedPermitted ==
  \A s \in DOMAIN sessions : \A i \in 1 .. Len(Recorded(s)) :
    Permitted(Context(SubSeq(Recorded(s), 1, i - 1)), Recorded(s)[i])

(* README: "Calls that don't follow the graph are blocked at runtime".     *)
(* Every history is a path of the graph: true of clients that make one     *)
(* call at a time in a session and of names that keep the keys distinct.   *)
PathsFollowEdges ==
  \A s \in DOMAIN sessions : \A i \in 1 .. Len(Recorded(s)) :
    /\ IsKnown(Recorded(s)[i])
    /\ i > 1 => HasEdge(NodeOf[Recorded(s)[i - 1]], NodeOf[Recorded(s)[i]])

(* No history reaches an external destination within ContextLength calls   *)
(* of a sensitive source without a data processor in between, on the same  *)
(* conditions.                                                             *)
NoNearExfiltration ==
  \A s \in DOMAIN sessions : \A i, j \in 1 .. Len(Recorded(s)) :
    /\ i < j /\ j <= i + ContextLength
    /\ HasType(Recorded(s)[i], "SENSITIVE_SOURCE")
    /\ HasType(Recorded(s)[j], "EXTERNAL_DESTINATION")
    => \E k \in i + 1 .. j - 1 : HasType(Recorded(s)[k], "DATA_PROCESSOR")

(* README: with threshold n, call n + 1 of the same tool in a row is       *)
(* blocked.                                                                *)
RunsShorterThan(n) ==
  \A s \in DOMAIN sessions : \A i \in 1 .. Len(Recorded(s)) - n :
    \E j \in i .. i + n : Recorded(s)[j] # Recorded(s)[i]

(* The bound on calls in a row holds for the thresholds that fit in a      *)
(* cache key, on the same conditions.                                      *)
RunsBounded ==
  \A n \in Thresholds :
    SteadyThreshold /\ n <= ContextLength => RunsShorterThan(n)

(* For every session that still exists, the sandbox ran each tool as often *)
(* as the history says, but for the calls that have run and are about to   *)
(* be recorded: no failure of the sandbox and no other thread makes a call *)
(* that ran go unrecorded, or a call that did not run recorded twice.      *)
RunsRecorded ==
  \A s \in DOMAIN sessions : \A t \in Loaded :
    Occurrences(ran[s], t) =
      Occurrences(Recorded(s), t)
      + Cardinality({th \in Thread :
          Executing(th, s) /\ pc[th] = "append" /\ job[th].tool = t})

(* docs/policy_guide.md: a sensitive source followed eventually by an      *)
(* external destination, with no data processor in between, is blocked.    *)
NoExfiltration == \A s \in DOMAIN sessions : ~Exfiltrates(Recorded(s))

(* A Guardian, used one call at a time per session, implements the guard   *)
(* that decides each call in one step from the last calls of its session,  *)
(* as long as no two questions have the same key (KeysDistinct).           *)
Window == INSTANCE WindowGuard WITH
            history <- [s \in DOMAIN sessions |-> Recorded(s)],
            used <- allocated

ImplementsWindowGuard == Window!Spec
=============================================================================
