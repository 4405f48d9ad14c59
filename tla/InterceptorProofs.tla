------------------------- MODULE InterceptorProofs -------------------------
(***************************************************************************)
(* What holds of a ToolInterceptor for every policy graph, every number of *)
(* threads, sessions and tools, every timeout, session limit, context      *)
(* length and threshold.  The bounds MaxCalls and MaxClock play no part.   *)
(***************************************************************************)
EXTENDS ToolInterceptor, ValidatorProofs

LEMMA Constants ==
  /\ Call = Tool /\ NoSession \notin Session
  /\ Timeout \in Nat /\ MaxSessions \in Nat /\ Thresholds \subseteq Nat
BY InterceptorAssumption, SessionAssumption, ValidatorAssumption

-----------------------------------------------------------------------------
(* Type correctness *)

InterceptorTypeOK ==
  /\ ValidatorTypeOK
  /\ ClientsTypeOK
  /\ request \in [Thread -> [op : Operation, session : Session \cup {NoSession}]]
  /\ effects \in [Session -> Seq(Tool)]
  /\ shared \in SUBSET Session

LEMMA TypeInit == InterceptorInit => InterceptorTypeOK
<1> SUFFICES ASSUME InterceptorInit PROVE InterceptorTypeOK
  OBVIOUS
<1>1. ValidatorTypeOK
  BY ValidatorTypeInit DEF InterceptorInit
<1>2. ClientsTypeOK
  BY DEF InterceptorInit, ClientsInit, SessionInit, ClientsTypeOK, SessionTypeOK, Replies
<1>3. /\ request \in [Thread -> [op : Operation, session : Session \cup {NoSession}]]
      /\ effects \in [Session -> Seq(Tool)] /\ shared \in SUBSET Session
  BY EmptySeq DEF InterceptorInit, NoRequest, Operation
<1> QED
  BY <1>1, <1>2, <1>3 DEF InterceptorTypeOK

LEMMA SequenceType ==
  ASSUME SessionTypeOK, NEW s
  PROVE  SequenceOf(s) \in Seq(Tool)
BY Constants, EmptySeq DEF SequenceOf, Live, SessionTypeOK, SessionRecord

(* What the owner of the sessions does to them: a session that is there    *)
(* afterwards is new and empty, or was there with the same history; and    *)
(* none comes back to life.                                                *)
LEMMA OwnerKeeps ==
  ASSUME ClientsTypeOK, Create \/ Wait \/ \E s \in Session : End(s)
  PROVE  /\ ClientsTypeOK'
         /\ allocated \subseteq allocated'
         /\ \A s \in DOMAIN sessions' :
              \/ /\ s \in Session \ allocated /\ s \in allocated'
                 /\ sessions'[s].seq = <<>>
              \/ /\ s \in DOMAIN sessions
                 /\ sessions'[s] = sessions[s]
                 /\ Live(s)' => Live(s)
<1>1. /\ allocated \in SUBSET Session /\ DOMAIN sessions \in SUBSET allocated
      /\ sessions \in [DOMAIN sessions -> SessionRecord]
      /\ \A s \in DOMAIN sessions : sessions[s].last_activity \in Nat
      /\ clock \in Nat /\ Timeout \in Nat
  BY Constants DEF ClientsTypeOK, SessionTypeOK, SessionRecord
<1>2. [seq |-> <<>>, last_activity |-> clock] \in SessionRecord
  BY <1>1, EmptySeq DEF SessionRecord
<1>3. LiveSessions \subseteq DOMAIN sessions /\ Swept = [s \in LiveSessions |-> sessions[s]]
  BY DEF LiveSessions, Swept
<1>4. ASSUME NEW s \in Session, CreateSession(s), reply' = "ok"
      PROVE  /\ ClientsTypeOK' /\ allocated' = allocated \cup {s} /\ clock' = clock
             /\ DOMAIN sessions' = LiveSessions \cup {s} /\ s \notin allocated
             /\ sessions'[s].seq = <<>>
             /\ \A i \in LiveSessions : sessions'[i] = sessions[i]
  <2>1. /\ s \notin allocated /\ clock' = clock /\ allocated' = allocated \cup {s}
        /\ sessions' = [i \in LiveSessions \cup {s} |->
                          IF i = s THEN [seq |-> <<>>, last_activity |-> clock]
                                   ELSE sessions[i]]
    BY <1>3, <1>4 DEF CreateSession
  <2>2. SessionTypeOK'
    BY <1>1, <1>2, <1>3, <2>1 DEF SessionTypeOK
  <2> QED
    BY <1>1, <1>3, <1>4, <2>1, <2>2 DEF ClientsTypeOK, Replies
<1>5. CASE Create
  <2>1. CASE RefuseSession /\ reply' = "full"
    <3>1. SessionTypeOK'
      BY <1>1, <1>3, <2>1 DEF RefuseSession, SessionTypeOK
    <3> QED
      BY <1>1, <1>3, <2>1, <3>1
         DEF RefuseSession, ClientsTypeOK, Replies, Live, Expired
  <2> QED
    BY <1>1, <1>3, <1>4, <1>5, <2>1 DEF Create, Live, Expired
<1>6. CASE Wait
  BY <1>1, <1>6 DEF Wait, Tick, ClientsTypeOK, SessionTypeOK, Live, Expired
<1>7. ASSUME NEW s \in Session, End(s)
      PROVE  /\ ClientsTypeOK' /\ allocated' = allocated /\ clock' = clock
             /\ DOMAIN sessions' \subseteq DOMAIN sessions
             /\ \A i \in DOMAIN sessions' : sessions'[i] = sessions[i]
  BY <1>1, <1>7 DEF End, EndSession, sessionVars, ClientsTypeOK, SessionTypeOK, Replies
<1> QED
  BY <1>1, <1>5, <1>6, <1>7 DEF Live, Expired

(* What append_tool_call does: it records the call in a live session, or   *)
(* it throws because the session is gone.                                  *)
LEMMA RecordKeeps ==
  ASSUME ClientsTypeOK, NEW s, NEW t \in Tool, Record(s, t)
  PROVE  /\ ClientsTypeOK' /\ allocated' = allocated /\ clock' = clock
         /\ \/ ~Live(s) /\ sessions' = sessions
            \/ /\ Live(s) /\ s \in DOMAIN sessions
               /\ DOMAIN sessions' = DOMAIN sessions
               /\ sessions'[s].seq = Append(sessions[s].seq, t)
               /\ Live(s)'
               /\ \A i \in DOMAIN sessions \ {s} : sessions'[i] = sessions[i]
<1>1. /\ allocated \in SUBSET Session /\ DOMAIN sessions \in SUBSET allocated
      /\ sessions \in [DOMAIN sessions -> SessionRecord]
      /\ clock \in Nat /\ Timeout \in Nat /\ Call = Tool
  BY Constants DEF ClientsTypeOK, SessionTypeOK
<1>2. CASE AppendToolCall(s, t) /\ reply' = "ok"
  <2>1. s \in DOMAIN sessions
    BY <1>2 DEF AppendToolCall, Live
  <2>2. [seq |-> Append(sessions[s].seq, t), last_activity |-> clock] \in SessionRecord
    BY <1>1, <2>1, AppendProperties DEF SessionRecord
  <2>3. /\ sessions' = [sessions EXCEPT ![s] = [seq |-> Append(sessions[s].seq, t),
                                                last_activity |-> clock]]
        /\ clock' = clock /\ allocated' = allocated /\ Live(s)
    BY <1>2 DEF AppendToolCall
  <2>4. Live(s)'
    BY <1>1, <2>1, <2>3 DEF Live, Expired
  <2>5. ClientsTypeOK'
    BY <1>1, <1>2, <2>1, <2>2, <2>3 DEF ClientsTypeOK, SessionTypeOK, Replies
  <2> QED
    BY <1>1, <2>1, <2>3, <2>4, <2>5
<1>3. CASE ~Live(s) /\ reply' = "unknown" /\ UNCHANGED sessionVars
  BY <1>3 DEF sessionVars, ClientsTypeOK, SessionTypeOK, Replies
<1> QED
  BY <1>2, <1>3 DEF Record

LEMMA TypeNext ==
  ASSUME InterceptorTypeOK, [InterceptorNext]_interceptorVars
  PROVE  InterceptorTypeOK'
<1> USE DEF InterceptorTypeOK
<1>1. ASSUME UNCHANGED clientVars PROVE ClientsTypeOK'
  BY <1>1 DEF clientVars, ClientsTypeOK, SessionTypeOK
<1>2. ASSUME NEW th \in Thread, NEW j \in Job, NEW label \in Label,
             job' = [job EXCEPT ![th] = j], Goto(th, label),
             UNCHANGED <<cache, cycle_threshold>>
      PROVE  ValidatorTypeOK'
  BY <1>2 DEF ValidatorTypeOK, Goto
<1>3. ASSUME NEW th \in Thread, Leave(th), UNCHANGED <<cache, cycle_threshold>>
      PROVE  /\ ValidatorTypeOK'
             /\ request' \in [Thread -> [op : Operation, session : Session \cup {NoSession}]]
  <2>1. "idle" \in Label
    BY DEF Label
  <2> QED
    BY <1>2, <1>3, <2>1, NoJobType DEF Leave, Return, NoRequest, Operation
<1>4. ASSUME NEW th \in Thread, NEW label \in Label, Goto(th, label),
             UNCHANGED <<cache, cycle_threshold, job>>
      PROVE  ValidatorTypeOK'
  BY <1>4 DEF ValidatorTypeOK, Goto
<1>5. ASSUME NEW th \in Thread, TakesEffect(th)
      PROVE  effects' \in [Session -> Seq(Tool)]
  BY <1>5, KeyType, AppendProperties DEF TakesEffect
<1>6. ASSUME NEW th \in Thread, NEW op \in Operation, NEW s \in Session, NEW t \in Tool,
             Begin(th, op, s, t)
      PROVE  InterceptorTypeOK'
  <2>1. NewJob(t, <<>>) \in Job /\ "fetch" \in Label
    BY EmptySeq DEF NewJob, Job, Histories, Verdict, Label
  <2> QED
    BY <1>1, <1>2, <1>6, <2>1 DEF Begin
<1>7. ASSUME NEW th \in Thread, Fetch(th)
      PROVE  InterceptorTypeOK'
  <2> DEFINE seq == SequenceOf(request[th].session)
  <2>1. seq \in Histories /\ "lookup" \in Label
    BY SequenceType DEF ClientsTypeOK, Histories, Label
  <2>2. ValidatorTypeOK'
    <3> HIDE DEF seq
    <3>1. job' = [job EXCEPT ![th].seq = seq]
      BY <1>7 DEF Fetch, seq
    <3>2. job' \in [Thread -> Job]
      BY <2>1, <3>1 DEF ValidatorTypeOK, Job
    <3> QED
      BY <1>7, <2>1, <3>2 DEF Fetch, Goto, ValidatorTypeOK
  <2> QED
    BY <1>1, <1>7, <2>2 DEF Fetch
<1>8. ASSUME NEW th \in Thread, Validate(th)
      PROVE  InterceptorTypeOK'
  BY <1>1, <1>8, TypeValidateStep DEF Validate
<1>9. ASSUME NEW th \in Thread, Deny(th)
      PROVE  InterceptorTypeOK'
  BY <1>1, <1>3, <1>9 DEF Deny
<1>10. ASSUME NEW th \in Thread, Run(th)
       PROVE  InterceptorTypeOK'
  <2>1. "append" \in Label
    BY DEF Label
  <2> QED
    BY <1>1, <1>3, <1>4, <1>5, <1>10, <2>1 DEF Run
<1>11. ASSUME NEW th \in Thread, RecordCall(th)
       PROVE  InterceptorTypeOK'
  <2>1. ClientsTypeOK'
    BY <1>11, RecordKeeps, KeyType DEF RecordCall
  <2>2. "call" \in Label
    BY DEF Label
  <2> QED
    BY <1>3, <1>4, <1>11, <2>1, <2>2 DEF RecordCall
<1>12. ASSUME NEW th \in Thread, CallFunction(th)
       PROVE  InterceptorTypeOK'
  BY <1>1, <1>3, <1>5, <1>12 DEF CallFunction
<1>13. CASE Owner
  <2>1. effects' \in [Session -> Seq(Tool)]
    BY <1>13, EmptySeq DEF Owner
  <2> QED
    BY <1>13, <2>1, OwnerKeeps DEF Owner, validatorVars, ValidatorTypeOK
<1>14. CASE UNCHANGED interceptorVars
  BY <1>1, <1>14 DEF interceptorVars, validatorVars, ValidatorTypeOK
<1> QED
  BY <1>6, <1>7, <1>8, <1>9, <1>10, <1>11, <1>12, <1>13, <1>14
     DEF InterceptorNext, ThreadStep

(* Every variable keeps its type, in whatever order the threads and the    *)
(* owner of the sessions run.                                              *)
THEOREM InterceptorTypes == InterceptorSpec => []InterceptorTypeOK
BY TypeInit, TypeNext, PTL DEF InterceptorSpec

-----------------------------------------------------------------------------
(* The verdicts: the threshold never changes, so each approval is about it *)

ApprovalsSound ==
  \E n \in Thresholds : cycle_threshold = n /\ VerdictsSound({n})

LEMMA ApprovalsMean ==
  ASSUME ApprovalsSound, NEW th \in Thread,
         pc[th] \in {"done", "append"}, job[th].verdict = "approved"
  PROVE  Permitted(Context(job[th].seq), job[th].tool)
BY DEF ApprovalsSound, VerdictsSound, JobSound, Permits, Permitted

LEMMA AppendsApproved ==
  ASSUME ApprovalsSound, NEW th \in Thread, pc[th] = "append"
  PROVE  job[th].verdict = "approved"
BY DEF ApprovalsSound, VerdictsSound, JobSound

LEMMA ApprovalsNext ==
  ASSUME KeysDistinct, InterceptorTypeOK, ApprovalsSound, [InterceptorNext]_interceptorVars
  PROVE  ApprovalsSound' /\ cycle_threshold' = cycle_threshold
<1>1. PICK n \in Thresholds : cycle_threshold = n /\ VerdictsSound({n})
  BY DEF ApprovalsSound
<1>2. /\ ValidatorTypeOK /\ {n} \in SUBSET {cycle_threshold}
      /\ pc \in [Thread -> Label] /\ job \in [Thread -> Job]
  BY <1>1 DEF InterceptorTypeOK, ValidatorTypeOK
<1>3. cycle_threshold' = n
  BY <1>1 DEF InterceptorNext, ThreadStep, Begin, Fetch, Validate, ValidateStep, Lookup,
              Examine, Decide, Store, Deny, Run, RecordCall, CallFunction, Owner,
              interceptorVars, validatorVars
<1> SUFFICES VerdictsSound({n})'
  BY <1>1, <1>3 DEF ApprovalsSound
<1>4. ASSUME NEW th \in Thread, UNCHANGED cache,
             pc' = [pc EXCEPT ![th] = pc'[th]],
             job' = [job EXCEPT ![th] = job'[th]],
             pc'[th] \in {"idle", "fetch", "lookup", "call"}
      PROVE  VerdictsSound({n})'
  BY <1>1, <1>2, <1>3, <1>4, OutsideValidate
<1>5. ASSUME NEW th \in Thread, NEW label \in {"idle", "fetch", "lookup", "call"},
             Goto(th, label), UNCHANGED cache,
             \/ job' = job
             \/ \E j : job' = [job EXCEPT ![th] = j]
      PROVE  VerdictsSound({n})'
  <2>1. pc' = [pc EXCEPT ![th] = pc'[th]] /\ pc'[th] = label
    BY <1>2, <1>5 DEF Goto
  <2>2. job' = [job EXCEPT ![th] = job'[th]]
    BY <1>2, <1>5
  <2> QED
    BY <1>4, <1>5, <2>1, <2>2
<1>6. ASSUME NEW th \in Thread, Leave(th), UNCHANGED cache
      PROVE  VerdictsSound({n})'
  BY <1>5, <1>6 DEF Leave, Return
<1>7. ASSUME NEW th \in Thread, NEW op \in Operation, NEW s \in Session, NEW t \in Tool,
             Begin(th, op, s, t)
      PROVE  VerdictsSound({n})'
  BY <1>5, <1>7 DEF Begin
<1>8. ASSUME NEW th \in Thread, Fetch(th)
      PROVE  VerdictsSound({n})'
  BY <1>5, <1>8 DEF Fetch
<1>9. ASSUME NEW th \in Thread, Validate(th)
      PROVE  VerdictsSound({n})'
  BY <1>1, <1>2, <1>9, ValidateStepSound DEF Validate
<1>10. ASSUME NEW th \in Thread, Deny(th)
       PROVE  VerdictsSound({n})'
  BY <1>6, <1>10 DEF Deny
<1>11. ASSUME NEW th \in Thread, Run(th)
       PROVE  VerdictsSound({n})'
  BY <1>1, <1>2, <1>6, <1>11, GoesOnToRecord DEF Run, Approved
<1>12. ASSUME NEW th \in Thread, RecordCall(th)
       PROVE  VerdictsSound({n})'
  BY <1>5, <1>6, <1>12 DEF RecordCall
<1>13. ASSUME NEW th \in Thread, CallFunction(th)
       PROVE  VerdictsSound({n})'
  BY <1>6, <1>13 DEF CallFunction
<1>14. CASE Owner \/ UNCHANGED interceptorVars
  BY <1>1, <1>14, ValidatorIdles DEF Owner, interceptorVars, validatorVars
<1> QED
  BY <1>7, <1>8, <1>9, <1>10, <1>11, <1>12, <1>13, <1>14
     DEF InterceptorNext, ThreadStep

-----------------------------------------------------------------------------
(* The calls and the histories                                             *)

(* A thread in a call has a session that was given out, and no two threads *)
(* have the same unless it is shared.                                      *)
Attached ==
  \A th \in Thread :
    IF pc[th] = "idle" THEN request[th].session = NoSession
                       ELSE request[th].session \in allocated

CallsApart ==
  /\ Attached
  /\ \A th, other \in Thread :
       /\ request[th].session = request[other].session
       /\ request[th].session \in DOMAIN sessions \ shared
       => th = other

Copied == {"lookup", "examine", "decide", "store", "done", "append"}

(* A thread's copy is the history of its session as long as that is live   *)
(* and not shared: an id is not given out again, and nothing that expired  *)
(* comes back.                                                             *)
CopiesCurrent ==
  \A th \in Thread :
    /\ pc[th] \in Copied
    /\ Live(request[th].session) /\ request[th].session \notin shared
    => job[th].seq = Recorded(request[th].session)

(* HistoriesPermitted alone is not inductive: the call that is recorded is *)
(* permitted by the history it is appended to because the thread's copy is *)
(* that history and its approval is about the copy.                        *)
CallsInv == CopiesCurrent /\ HistoriesPermitted

LEMMA LiveIs == LiveSessions = {s \in DOMAIN sessions : Live(s)}
BY DEF LiveSessions, Live

(* A step of thread th: it leaves its call, or stays in it                 *)
StepOf(th) ==
  /\ \A other \in Thread \ {th} :
       pc'[other] = pc[other] /\ job'[other] = job[other] /\ request'[other] = request[other]
  /\ \/ pc'[th] = "idle" /\ request'[th].session = NoSession
     \/ pc'[th] # "idle" /\ pc[th] # "idle" /\ request'[th] = request[th]
  /\ shared' = shared /\ cycle_threshold' = cycle_threshold

LEMMA LeaveIs ==
  ASSUME InterceptorTypeOK, NEW th \in Thread, Leave(th)
  PROVE  /\ \A other \in Thread \ {th} :
              pc'[other] = pc[other] /\ job'[other] = job[other] /\ request'[other] = request[other]
         /\ pc'[th] = "idle" /\ request'[th] = NoRequest /\ request'[th].session = NoSession
BY DEF Leave, Return, Goto, NoRequest, InterceptorTypeOK, ValidatorTypeOK

LEMMA StepIs ==
  ASSUME InterceptorTypeOK, NEW th \in Thread, ThreadStep(th)
  PROVE  StepOf(th)
<1>1. /\ pc \in [Thread -> Label] /\ job \in [Thread -> Job]
      /\ request \in [Thread -> [op : Operation, session : Session \cup {NoSession}]]
  BY DEF InterceptorTypeOK, ValidatorTypeOK
<1>2. CASE Fetch(th)
  BY <1>1, <1>2 DEF Fetch, Goto, StepOf
<1>3. CASE Validate(th)
  BY <1>1, <1>3
     DEF Validate, ValidateStep, Lookup, Examine, Decide, Store, Goto, Answer, StepOf
<1>4. CASE Deny(th)
  BY <1>4, LeaveIs DEF Deny, StepOf
<1>5. CASE Run(th)
  BY <1>1, <1>5, LeaveIs DEF Run, Approved, Goto, StepOf
<1>6. CASE RecordCall(th)
  BY <1>1, <1>6, LeaveIs DEF RecordCall, Approved, Goto, StepOf
<1>7. CASE CallFunction(th)
  BY <1>7, LeaveIs DEF CallFunction, StepOf
<1> QED
  BY <1>2, <1>3, <1>4, <1>5, <1>6, <1>7 DEF ThreadStep

(* The sessions, as a step of a thread leaves them                         *)
LEMMA StepKeeps ==
  ASSUME InterceptorTypeOK, NEW th \in Thread, ThreadStep(th)
  PROVE  allocated' = allocated /\ DOMAIN sessions' = DOMAIN sessions
<1>1. CASE RecordCall(th)
  BY <1>1, RecordKeeps, KeyType DEF RecordCall, InterceptorTypeOK
<1>2. CASE UNCHANGED clientVars
  BY <1>2 DEF clientVars
<1> QED
  BY <1>1, <1>2 DEF ThreadStep, Fetch, Validate, Deny, Run, CallFunction

LEMMA ApartNext ==
  ASSUME InterceptorTypeOK, CallsApart, [InterceptorNext]_interceptorVars
  PROVE  CallsApart'
<1>1. /\ pc \in [Thread -> Label]
      /\ request \in [Thread -> [op : Operation, session : Session \cup {NoSession}]]
      /\ NoSession \notin Session
      /\ allocated \subseteq Session /\ DOMAIN sessions \subseteq allocated
  BY Constants DEF InterceptorTypeOK, ValidatorTypeOK, ClientsTypeOK, SessionTypeOK
<1>2. ASSUME NEW th \in Thread, NEW op \in Operation, NEW s \in Session, NEW t \in Tool,
             Begin(th, op, s, t)
      PROVE  CallsApart'
  <2>1. /\ pc'[th] = "fetch" /\ request'[th].session = s /\ s \in allocated
        /\ \A other \in Thread \ {th} :
             pc'[other] = pc[other] /\ request'[other] = request[other]
        /\ sessions' = sessions /\ allocated' = allocated
        /\ shared \subseteq shared'
        /\ s \notin shared' => \A other \in Thread : request[other].session # s
    BY <1>1, <1>2 DEF Begin, Goto, Live, clientVars, InCall
  <2>2. Attached'
    BY <2>1 DEF CallsApart, Attached
  <2>3. ASSUME NEW i \in Thread, NEW j \in Thread, request'[i].session = request'[j].session,
               request'[i].session \in DOMAIN sessions' \ shared'
        PROVE  i = j
    BY <2>1, <2>3 DEF CallsApart
  <2> QED
    BY <2>2, <2>3 DEF CallsApart
<1>3. ASSUME NEW th \in Thread, ThreadStep(th)
      PROVE  CallsApart'
  <2>1. /\ StepOf(th) /\ allocated' = allocated /\ DOMAIN sessions' = DOMAIN sessions
    BY <1>3, StepIs, StepKeeps
  <2>2. Attached'
    BY <2>1 DEF StepOf, CallsApart, Attached
  <2>3. ASSUME NEW i \in Thread, NEW j \in Thread, request'[i].session = request'[j].session,
               request'[i].session \in DOMAIN sessions' \ shared'
        PROVE  i = j
    <3>1. request'[i].session # NoSession
      BY <1>1, <2>1, <2>3
    <3>2. request'[i] = request[i] /\ request'[j] = request[j]
      BY <2>1, <2>3, <3>1 DEF StepOf
    <3> QED
      BY <2>1, <2>3, <3>2 DEF StepOf, CallsApart
  <2> QED
    BY <2>2, <2>3 DEF CallsApart
<1>4. CASE Owner
  <2>1. /\ pc' = pc /\ request' = request /\ allocated \subseteq allocated'
        /\ shared' = shared \cap DOMAIN sessions'
        /\ \A s \in DOMAIN sessions' : s \notin allocated \/ s \in DOMAIN sessions
    BY <1>4, OwnerKeeps DEF Owner, validatorVars, InterceptorTypeOK
  <2>2. Attached'
    BY <2>1 DEF CallsApart, Attached
  <2>3. ASSUME NEW i \in Thread, NEW j \in Thread, request[i].session = request[j].session,
               request[i].session \in DOMAIN sessions' \ shared'
        PROVE  i = j
    <3>1. request[i].session \notin shared
      BY <2>1, <2>3
    <3>2. request[i].session \in Session
      BY <1>1, <1>4, <2>3, OwnerKeeps
         DEF Owner, InterceptorTypeOK, ClientsTypeOK, SessionTypeOK
    <3>3. request[i].session \in allocated
      BY <1>1, <3>2 DEF CallsApart, Attached
    <3> QED
      BY <2>1, <2>3, <3>1, <3>3 DEF CallsApart
  <2> QED
    BY <2>1, <2>2, <2>3 DEF CallsApart
<1>5. CASE UNCHANGED interceptorVars
  BY <1>5 DEF interceptorVars, validatorVars, clientVars, CallsApart, Attached
<1> QED
  BY <1>2, <1>3, <1>4, <1>5 DEF InterceptorNext

LEMMA ApartInit == InterceptorInit => CallsApart
BY DEF InterceptorInit, ValidatorInit, ClientsInit, SessionInit, NoRequest, CallsApart, Attached

LEMMA ApartAlways == InterceptorSpec => [](InterceptorTypeOK /\ CallsApart)
<1>1. InterceptorTypeOK /\ CallsApart /\ [InterceptorNext]_interceptorVars
        => (InterceptorTypeOK /\ CallsApart)'
  BY TypeNext, ApartNext
<1> QED
  BY <1>1, TypeInit, ApartInit, PTL DEF InterceptorSpec

(* A step of th that leaves the sessions alone                             *)
LEMMA AloneKeeps ==
  ASSUME CallsInv, NEW th \in Thread, StepOf(th), UNCHANGED clientVars,
         pc'[th] \in Copied =>
           \/ pc[th] \in Copied /\ job'[th].seq = job[th].seq
           \/ job'[th].seq = SequenceOf(request[th].session)
  PROVE  CallsInv'
<1> USE DEF CallsInv, StepOf, clientVars
<1>1. HistoriesPermitted'
  BY DEF HistoriesPermitted, Recorded, Permitted
<1>2. \A s : Live(s)' <=> Live(s)
  BY DEF Live, Expired
<1>3. CopiesCurrent'
  <2> SUFFICES ASSUME NEW other \in Thread, pc'[other] \in Copied,
                      Live(request[other].session)', request'[other].session \notin shared'
               PROVE  job'[other].seq = Recorded(request[other].session)'
    BY DEF CopiesCurrent
  <2>1. pc'[other] # "idle"
    BY DEF Copied
  <2>2. request'[other] = request[other] /\ request[other].session \notin shared
    BY <2>1
  <2>3. Live(request[other].session)
    BY <1>2, <2>2 DEF Live, Expired
  <2>4. CASE pc[other] \in Copied /\ job'[other].seq = job[other].seq
    BY <2>2, <2>3, <2>4 DEF CopiesCurrent, Recorded
  <2>5. CASE job'[other].seq = SequenceOf(request[other].session)
    BY <2>2, <2>3, <2>5 DEF SequenceOf, Recorded
  <2> QED
    BY <2>1, <2>4, <2>5
<1> QED
  BY <1>1, <1>3

LEMMA RecordedPermitted ==
  ASSUME NEW h \in Seq(Tool), NEW t \in Tool,
         \A i \in 1 .. Len(h) : Permitted(Context(SubSeq(h, 1, i - 1)), h[i]),
         Permitted(Context(h), t),
         NEW i \in 1 .. Len(Append(h, t))
  PROVE  Permitted(Context(SubSeq(Append(h, t), 1, i - 1)), Append(h, t)[i])
BY BeforeCall

(* The step that matters: an approved call meets the history it was        *)
(* approved for, because append_tool_call looks at expiry once more.       *)
LEMMA CallsRecord ==
  ASSUME InterceptorTypeOK, ApprovalsSound, CallsApart, CallsInv,
         NEW th \in Thread, RecordCall(th)
  PROVE  CallsInv'
<1> DEFINE s == request[th].session
           t == job[th].tool
           h == sessions[s].seq
<1>1. /\ pc[th] \in {"done", "append"} /\ job[th].verdict = "approved"
      /\ t \in Tool /\ ClientsTypeOK
  BY AppendsApproved, KeyType DEF RecordCall, Approved, InterceptorTypeOK
<1>2. /\ StepOf(th) /\ pc'[th] \in {"idle", "call"}
      /\ cycle_threshold' = cycle_threshold /\ shared' = shared
  BY StepIs, LeaveIs
     DEF ThreadStep, StepOf, RecordCall, Goto, InterceptorTypeOK, ValidatorTypeOK
<1>3. /\ clock' = clock
      /\ \/ ~Live(s) /\ sessions' = sessions
         \/ /\ Live(s) /\ s \in DOMAIN sessions
            /\ DOMAIN sessions' = DOMAIN sessions
            /\ sessions'[s].seq = Append(h, t)
            /\ \A i \in DOMAIN sessions \ {s} : sessions'[i] = sessions[i]
  BY <1>1, RecordKeeps DEF RecordCall
<1>4. CopiesCurrent'
  <2> SUFFICES ASSUME NEW other \in Thread, pc'[other] \in Copied,
                      Live(request[other].session)', request'[other].session \notin shared'
               PROVE  job'[other].seq = Recorded(request[other].session)'
    BY DEF CopiesCurrent
  <2>1. /\ other # th /\ pc[other] \in Copied /\ job'[other] = job[other]
        /\ request'[other] = request[other] /\ request[other].session \notin shared
    BY <1>2 DEF StepOf, Copied
  <2>2. request[other].session # s
    <3>1. request[other].session \in DOMAIN sessions
      BY <1>3, <2>1 DEF Live
    <3> QED
      BY <2>1, <3>1 DEF CallsApart
  <2>3. /\ request[other].session \in DOMAIN sessions
        /\ sessions'[request[other].session] = sessions[request[other].session]
    BY <1>3, <2>1, <2>2 DEF Live
  <2>4. Live(request[other].session)
    BY <1>3, <2>1, <2>3 DEF Live, Expired
  <2> QED
    BY <2>1, <2>3, <2>4 DEF CallsInv, CopiesCurrent, Recorded
<1>5. HistoriesPermitted'
  <2>1. CASE sessions' = sessions
    BY <1>2, <2>1 DEF CallsInv, HistoriesPermitted, Recorded, Permitted
  <2>2. CASE /\ Live(s) /\ s \in DOMAIN sessions
             /\ DOMAIN sessions' = DOMAIN sessions
             /\ sessions'[s].seq = Append(h, t)
             /\ \A i \in DOMAIN sessions \ {s} : sessions'[i] = sessions[i]
    <3>1. h \in Seq(Tool) /\ t \in Tool
      BY <1>1, <2>2, Constants DEF ClientsTypeOK, SessionTypeOK, SessionRecord
    <3>2. s \notin shared => job[th].seq = h
      BY <1>1, <2>2 DEF CallsInv, CopiesCurrent, Copied, Recorded
    <3>3. s \notin shared => Permitted(Context(h), t)
      BY <1>1, <3>2, ApprovalsMean
    <3> SUFFICES ASSUME NEW i \in DOMAIN sessions \ shared
                 PROVE  \A j \in 1 .. Len(sessions'[i].seq) :
                          Permitted(Context(SubSeq(sessions'[i].seq, 1, j - 1)),
                                    sessions'[i].seq[j])
      BY <1>2, <2>2 DEF HistoriesPermitted, Recorded, Permitted
    <3>4. \A j \in 1 .. Len(sessions[i].seq) :
            Permitted(Context(SubSeq(sessions[i].seq, 1, j - 1)), sessions[i].seq[j])
      BY DEF CallsInv, HistoriesPermitted, Recorded
    <3>5. CASE i = s
      BY <2>2, <3>1, <3>3, <3>4, <3>5, RecordedPermitted
    <3>6. CASE i # s
      BY <2>2, <3>4, <3>6
    <3> QED
      BY <3>5, <3>6
  <2> QED
    BY <1>3, <2>1, <2>2
<1> QED
  BY <1>4, <1>5 DEF CallsInv

LEMMA CallsOwner ==
  ASSUME InterceptorTypeOK, CallsApart, CallsInv, Owner
  PROVE  CallsInv'
<1>1. /\ pc' = pc /\ job' = job /\ request' = request /\ cycle_threshold' = cycle_threshold
      /\ allocated \subseteq allocated' /\ shared' = shared \cap DOMAIN sessions'
      /\ \A s \in DOMAIN sessions' :
           \/ s \notin allocated /\ sessions'[s].seq = <<>>
           \/ s \in DOMAIN sessions /\ sessions'[s] = sessions[s] /\ (Live(s)' => Live(s))
      /\ DOMAIN sessions' \subseteq Session /\ NoSession \notin Session
  BY OwnerKeeps, Constants
     DEF Owner, validatorVars, InterceptorTypeOK, ClientsTypeOK, SessionTypeOK
<1>2. CopiesCurrent'
  <2> SUFFICES ASSUME NEW th \in Thread, pc[th] \in Copied, Live(request[th].session)',
                      request[th].session \notin shared'
               PROVE  job[th].seq = sessions'[request[th].session].seq
    BY <1>1 DEF CopiesCurrent, Recorded
  <2> DEFINE s == request[th].session
  <2>1. s \in allocated
    BY DEF CallsApart, Attached, Copied
  <2>2. s \in DOMAIN sessions'
    BY <1>1 DEF Live
  <2>3. sessions'[s] = sessions[s] /\ Live(s) /\ s \notin shared
    BY <1>1, <2>1, <2>2 DEF Live, Expired
  <2> QED
    BY <2>3 DEF CallsInv, CopiesCurrent, Recorded
<1>3. HistoriesPermitted'
  <2> SUFFICES ASSUME NEW s \in DOMAIN sessions' \ shared', NEW i \in 1 .. Len(sessions'[s].seq)
               PROVE  Permitted(Context(SubSeq(sessions'[s].seq, 1, i - 1)), sessions'[s].seq[i])
    BY <1>1 DEF HistoriesPermitted, Recorded, Permitted
  <2>1. CASE sessions'[s].seq = <<>>
    <3>1. Len(sessions'[s].seq) = 0
      BY <2>1
    <3> QED
      BY <3>1
  <2>2. CASE s \in DOMAIN sessions \ shared /\ sessions'[s] = sessions[s]
    BY <2>2 DEF CallsInv, HistoriesPermitted, Recorded
  <2> QED
    BY <1>1, <2>1, <2>2
<1> QED
  BY <1>2, <1>3 DEF CallsInv

LEMMA CallsNext ==
  ASSUME InterceptorTypeOK, ApprovalsSound, CallsApart, CallsInv,
         [InterceptorNext]_interceptorVars
  PROVE  CallsInv'
<1>1. /\ pc \in [Thread -> Label] /\ job \in [Thread -> Job]
  BY DEF InterceptorTypeOK, ValidatorTypeOK
<1>2. ASSUME NEW th \in Thread, NEW op \in Operation, NEW s \in Session, NEW t \in Tool,
             Begin(th, op, s, t)
      PROVE  CallsInv'
  <2>1. /\ pc'[th] = "fetch" /\ sessions' = sessions /\ clock' = clock
        /\ \A other \in Thread \ {th} :
             pc'[other] = pc[other] /\ job'[other] = job[other] /\ request'[other] = request[other]
        /\ shared \subseteq shared' /\ cycle_threshold' = cycle_threshold
    BY <1>1, <1>2 DEF Begin, Goto, clientVars, InterceptorTypeOK
  <2>2. HistoriesPermitted'
    BY <2>1 DEF CallsInv, HistoriesPermitted, Recorded, Permitted
  <2>3. \A other \in Thread : pc'[other] \in Copied => other # th
    BY <2>1 DEF Copied
  <2>4. CopiesCurrent'
    BY <2>1, <2>3 DEF CallsInv, CopiesCurrent, Recorded, Live, Expired
  <2> QED
    BY <2>2, <2>4 DEF CallsInv
<1>3. ASSUME NEW th \in Thread, ThreadStep(th) PROVE StepOf(th)
  BY <1>3, StepIs
<1>4. ASSUME NEW th \in Thread, Fetch(th)
      PROVE  CallsInv'
  <2>1. UNCHANGED clientVars /\ job'[th].seq = SequenceOf(request[th].session)
    BY <1>1, <1>4 DEF Fetch, Job
  <2> QED
    BY <1>3, <1>4, <2>1, AloneKeeps DEF ThreadStep
<1>5. ASSUME NEW th \in Thread, Validate(th)
      PROVE  CallsInv'
  <2>1. UNCHANGED clientVars /\ pc[th] \in Copied /\ job'[th].seq = job[th].seq
    BY <1>1, <1>5
       DEF Validate, ValidateStep, Lookup, Examine, Decide, Store, Answer, Job, Copied
  <2> QED
    BY <1>3, <1>5, <2>1, AloneKeeps DEF ThreadStep
<1>6. ASSUME NEW th \in Thread, ThreadStep(th), Leave(th), UNCHANGED clientVars
      PROVE  CallsInv'
  <2>1. pc'[th] \notin Copied
    BY <1>6, LeaveIs DEF Copied
  <2> QED
    BY <1>3, <1>6, <2>1, AloneKeeps
<1>7. ASSUME NEW th \in Thread, Run(th)
      PROVE  CallsInv'
  <2>1. CASE Leave(th)
    BY <1>6, <1>7, <2>1 DEF Run, ThreadStep
  <2>2. CASE Goto(th, "append") /\ UNCHANGED <<job, request>>
    <3>1. UNCHANGED clientVars /\ pc[th] = "done" /\ job' = job
      BY <1>7, <2>2 DEF Run, Approved
    <3> QED
      BY <1>3, <1>7, <3>1, AloneKeeps DEF Copied, ThreadStep
  <2> QED
    BY <1>7, <2>1, <2>2 DEF Run
<1>8. ASSUME NEW th \in Thread, RecordCall(th)
      PROVE  CallsInv'
  BY <1>8, CallsRecord
<1>9. ASSUME NEW th \in Thread, Deny(th) \/ CallFunction(th)
      PROVE  CallsInv'
  BY <1>6, <1>9 DEF Deny, CallFunction, ThreadStep
<1>10. CASE Owner
  BY <1>10, CallsOwner
<1>11. CASE UNCHANGED interceptorVars
  BY <1>11
     DEF interceptorVars, validatorVars, clientVars, CallsInv, CopiesCurrent,
         HistoriesPermitted, Recorded, Permitted, Live, Expired
<1> QED
  BY <1>2, <1>4, <1>5, <1>7, <1>8, <1>9, <1>10, <1>11 DEF InterceptorNext, ThreadStep

LEMMA InvInit == InterceptorInit => ApprovalsSound /\ CallsInv
<1> SUFFICES ASSUME InterceptorInit PROVE ApprovalsSound /\ CallsInv
  OBVIOUS
<1>1. ApprovalsSound
  <2>1. PICK n \in Thresholds : cycle_threshold = n
    BY DEF InterceptorInit, ValidatorInit
  <2> QED
    BY <2>1, VerdictsSoundInit DEF InterceptorInit, ApprovalsSound
<1>2. CallsInv
  BY DEF InterceptorInit, ValidatorInit, ClientsInit, SessionInit, CallsInv, CopiesCurrent,
         HistoriesPermitted, Copied
<1> QED
  BY <1>1, <1>2

LEMMA InvAlways ==
  ASSUME KeysDistinct PROVE InterceptorSpec => [](ApprovalsSound /\ CallsInv)
<1>1. /\ InterceptorTypeOK /\ CallsApart /\ ApprovalsSound /\ CallsInv
      /\ [InterceptorNext]_interceptorVars
      => (ApprovalsSound /\ CallsInv)'
  BY ApprovalsNext, CallsNext
<1> QED
  BY <1>1, InvInit, ApartAlways, PTL DEF InterceptorSpec

(* Every call recorded in a session used one call at a time was permitted  *)
(* after the calls recorded before it, although a session that expires in  *)
(* the middle of a call reads as empty (get_sequence, validate,            *)
(* append_tool_call), as long as no two questions have the same key.       *)
THEOREM HistoriesAlwaysPermitted ==
  ASSUME KeysDistinct PROVE InterceptorSpec => []HistoriesPermitted
<1>1. CallsInv => HistoriesPermitted
  BY DEF CallsInv
<1> QED
  BY <1>1, InvAlways, PTL

(* What the sandbox is about to run in a session used one call at a time   *)
(* was permitted after the history as it is now, unless the session is     *)
(* gone (intercept), as long as no two questions have the same key.        *)
THEOREM RunsAlwaysPermitted ==
  ASSUME KeysDistinct PROVE InterceptorSpec => []RunsPermitted
<1>1. ApprovalsSound /\ CallsInv => RunsPermitted
  <2> SUFFICES ASSUME ApprovalsSound, CallsInv, NEW th \in Thread, Approved(th),
                      Live(request[th].session), request[th].session \notin shared
               PROVE  Permitted(Context(Recorded(request[th].session)), job[th].tool)
    BY DEF RunsPermitted
  <2>1. pc[th] = "done" /\ job[th].verdict = "approved"
    BY DEF Approved
  <2>2. job[th].seq = Recorded(request[th].session)
    BY <2>1 DEF CallsInv, CopiesCurrent, Copied
  <2> QED
    BY <2>1, <2>2, ApprovalsMean
<1> QED
  BY <1>1, InvAlways, PTL

-----------------------------------------------------------------------------
(* The effects                                                             *)

(* The call of th is in session s, and it took effect or is recorded but   *)
(* not yet both.                                                           *)
Between(s, th) == request[th].session = s /\ pc[th] \in {"append", "call"}

(* EffectsRecorded, one thread at a time                                   *)
EffectsOf(s) ==
  /\ (\A th \in Thread : ~Between(s, th)) => effects[s] = Recorded(s)
  /\ \A th \in Thread : Between(s, th) /\ pc[th] = "append" =>
       effects[s] = Append(Recorded(s), job[th].tool)
  /\ \A th \in Thread : Between(s, th) /\ pc[th] = "call" =>
       Recorded(s) = Append(effects[s], job[th].tool)

EffectsInv ==
  /\ \A s \in Session \ allocated : effects[s] = <<>>
  /\ \A s \in LiveSessions \ shared : EffectsOf(s)

(* A session that no call comes to be between in, or ceases to be, is as   *)
(* it was.                                                                 *)
LEMMA EffectsStand ==
  ASSUME NEW s, EffectsOf(s),
         effects'[s] = effects[s], sessions'[s].seq = sessions[s].seq,
         \A th \in Thread :
           \/ ~Between(s, th) /\ ~Between(s, th)'
           \/ /\ pc'[th] = pc[th] /\ request'[th] = request[th]
              /\ job'[th].tool = job[th].tool
  PROVE  EffectsOf(s)'
BY DEF EffectsOf, Between, Recorded

(* A step of th as the owner of s sees it: the other sessions stand.       *)
LEMMA EffectsElsewhere ==
  ASSUME EffectsInv, NEW th \in Thread, NEW s \in allocated,
         allocated' = allocated, shared' = shared,
         \A i \in LiveSessions' : i \in LiveSessions /\
            (i # s => effects'[i] = effects[i] /\ sessions'[i].seq = sessions[i].seq),
         \A i \in Session \ {s} : effects'[i] = effects[i],
         \A other \in Thread \ {th} :
           pc'[other] = pc[other] /\ job'[other] = job[other] /\ request'[other] = request[other],
         \A i : i # s => ~Between(i, th) /\ ~Between(i, th)',
         s \in LiveSessions' \ shared => EffectsOf(s)'
  PROVE  EffectsInv'
<1>1. \A i \in Session \ allocated' : effects'[i] = <<>>
  BY DEF EffectsInv
<1>2. ASSUME NEW i \in LiveSessions' \ shared, i # s
      PROVE  EffectsOf(i)'
  <2>1. EffectsOf(i)
    BY <1>2 DEF EffectsInv
  <2>2. effects'[i] = effects[i] /\ sessions'[i].seq = sessions[i].seq
    BY <1>2
  <2>3. \A other \in Thread :
          \/ ~Between(i, other) /\ ~Between(i, other)'
          \/ /\ pc'[other] = pc[other] /\ request'[other] = request[other]
             /\ job'[other].tool = job[other].tool
    BY <1>2
  <2> QED
    BY <2>1, <2>2, <2>3, EffectsStand
<1> QED
  BY <1>1, <1>2 DEF EffectsInv

(* A step before the run, or one that ends a call without effect           *)
LEMMA EffectsQuiet ==
  ASSUME InterceptorTypeOK, EffectsInv, NEW th \in Thread,
         pc[th] \notin {"append", "call"}, pc'[th] \notin {"append", "call"},
         UNCHANGED <<clientVars, effects>>, shared \subseteq shared',
         \A other \in Thread \ {th} :
           pc'[other] = pc[other] /\ job'[other] = job[other] /\ request'[other] = request[other]
  PROVE  EffectsInv'
<1>1. /\ LiveSessions' = LiveSessions /\ allocated' = allocated
      /\ sessions' = sessions /\ effects' = effects
  BY DEF LiveSessions, Expired, clientVars
<1>2. \A s, other :
        other \in Thread =>
          \/ ~Between(s, other) /\ ~Between(s, other)'
          \/ /\ pc'[other] = pc[other] /\ request'[other] = request[other]
             /\ job'[other].tool = job[other].tool
  BY DEF Between
<1>3. \A s \in LiveSessions \ shared : EffectsOf(s)'
  BY <1>1, <1>2, EffectsStand DEF EffectsInv
<1> QED
  BY <1>1, <1>3 DEF EffectsInv

LEMMA EffectsNext ==
  ASSUME InterceptorTypeOK, InterceptorTypeOK', CallsApart, EffectsInv,
         [InterceptorNext]_interceptorVars
  PROVE  EffectsInv'
<1>1. /\ pc \in [Thread -> Label] /\ job \in [Thread -> Job]
      /\ request \in [Thread -> [op : Operation, session : Session \cup {NoSession}]]
      /\ effects \in [Session -> Seq(Tool)]
      /\ NoRequest.session = NoSession /\ NoSession \notin Session /\ allocated \subseteq Session
      /\ DOMAIN sessions \subseteq allocated /\ LiveSessions \subseteq DOMAIN sessions
  BY Constants DEF InterceptorTypeOK, ValidatorTypeOK, NoRequest, ClientsTypeOK, SessionTypeOK,
                   LiveSessions
<1>2. ASSUME NEW th \in Thread, Leave(th), pc[th] \notin {"append", "call"},
             UNCHANGED <<clientVars, effects, shared>>
      PROVE  EffectsInv'
  BY <1>1, <1>2, EffectsQuiet DEF Leave, Return, Goto
<1>3. ASSUME NEW th \in Thread, NEW op \in Operation, NEW s \in Session, NEW t \in Tool,
             Begin(th, op, s, t)
      PROVE  EffectsInv'
  BY <1>1, <1>3, EffectsQuiet DEF Begin, Goto
<1>4. ASSUME NEW th \in Thread, Fetch(th)
      PROVE  EffectsInv'
  BY <1>1, <1>4, EffectsQuiet DEF Fetch, Goto
<1>5. ASSUME NEW th \in Thread, Validate(th)
      PROVE  EffectsInv'
  <2>1. /\ pc[th] \notin {"append", "call"} /\ pc'[th] \notin {"append", "call"}
        /\ \A other \in Thread \ {th} :
             pc'[other] = pc[other] /\ job'[other] = job[other] /\ request'[other] = request[other]
    BY <1>1, <1>5 DEF Validate, ValidateStep, Lookup, Examine, Decide, Store, Goto, Answer
  <2> QED
    BY <1>5, <2>1, EffectsQuiet DEF Validate
<1>6. ASSUME NEW th \in Thread, Deny(th)
      PROVE  EffectsInv'
  BY <1>2, <1>6 DEF Deny
(* What the other steps of a call have in common                           *)
<1>7. ASSUME NEW th \in Thread, pc[th] \in {"done", "append", "call"}
      PROVE  \E s \in allocated :
             /\ request[th].session = s /\ s # NoSession
             /\ \A i : i # s => ~Between(i, th)
             /\ s \in LiveSessions \ shared =>
                  \A other \in Thread \ {th} :
                    ~Between(s, other) /\ request[other].session # s
  BY <1>1, <1>7 DEF CallsApart, Attached, Between
<1>8. ASSUME NEW th \in Thread, Run(th)
      PROVE  EffectsInv'
  <2>1. pc[th] = "done"
    BY <1>8 DEF Run, Approved
  <2>0. PICK s \in allocated :
           /\ request[th].session = s /\ s # NoSession
           /\ \A i : i # s => ~Between(i, th)
           /\ s \in LiveSessions \ shared =>
                \A other \in Thread \ {th} : ~Between(s, other) /\ request[other].session # s
    BY <1>7, <2>1
  <2>2. CASE Leave(th) /\ UNCHANGED effects
    BY <1>2, <1>8, <2>1, <2>2 DEF Run
  <2>3. CASE Goto(th, "append") /\ TakesEffect(th) /\ UNCHANGED <<job, request>>
    <3>1. /\ pc'[th] = "append" /\ job' = job /\ request' = request
          /\ \A other \in Thread \ {th} : pc'[other] = pc[other]
          /\ s \in LiveSessions => effects'[s] = Append(effects[s], job[th].tool)
          /\ \A i \in Session \ {s} : effects'[i] = effects[i]
          /\ LiveSessions' = LiveSessions /\ sessions' = sessions /\ allocated' = allocated
          /\ shared' = shared
      BY <1>1, <2>0, <1>8, <2>1, <2>3, LiveIs
         DEF Run, Goto, TakesEffect, clientVars, LiveSessions, Expired
    <3>2. ASSUME s \in LiveSessions \ shared PROVE EffectsOf(s)'
      <4>1. \A other \in Thread : ~Between(s, other)
        BY <2>0, <2>1, <3>2 DEF Between
      <4>2. effects[s] = Recorded(s)
        BY <3>2, <4>1 DEF EffectsInv, EffectsOf
      <4>3. \A other \in Thread : Between(s, other)' => other = th
        BY <3>1, <4>1 DEF Between
      <4>4. Between(s, th)'
        BY <2>0, <3>1 DEF Between
      <4> QED
        BY <3>1, <3>2, <4>2, <4>3, <4>4 DEF EffectsOf, Recorded
    <3> QED
      BY <1>1, <2>0, <2>1, <3>1, <3>2, EffectsElsewhere DEF Between
  <2> QED
    BY <1>8, <2>2, <2>3 DEF Run
<1>9. ASSUME NEW th \in Thread, CallFunction(th)
      PROVE  EffectsInv'
  <2>1. /\ pc[th] = "call" /\ pc'[th] = "idle" /\ request'[th] = NoRequest
        /\ \A other \in Thread \ {th} :
             pc'[other] = pc[other] /\ job'[other] = job[other] /\ request'[other] = request[other]
    BY <1>1, <1>9 DEF CallFunction, Leave, Return, Goto
  <2>0. PICK s \in allocated :
           /\ request[th].session = s /\ s # NoSession
           /\ \A i : i # s => ~Between(i, th)
           /\ s \in LiveSessions \ shared =>
                \A other \in Thread \ {th} : ~Between(s, other) /\ request[other].session # s
    BY <1>7, <2>1
  <2>2. /\ s \in LiveSessions => effects'[s] = Append(effects[s], job[th].tool)
        /\ \A i \in Session \ {s} : effects'[i] = effects[i]
        /\ LiveSessions' = LiveSessions /\ sessions' = sessions /\ allocated' = allocated
        /\ shared' = shared
    BY <1>1, <2>0, <1>9, <2>1, LiveIs
       DEF CallFunction, TakesEffect, clientVars, LiveSessions, Expired
  <2>3. ASSUME s \in LiveSessions \ shared PROVE EffectsOf(s)'
    <3>1. Recorded(s) = Append(effects[s], job[th].tool)
      BY <2>0, <2>1, <2>3 DEF EffectsInv, EffectsOf, Between
    <3>2. \A other \in Thread : ~Between(s, other)'
      BY <2>0, <2>1, <2>3 DEF Between
    <3> QED
      BY <2>2, <2>3, <3>1, <3>2 DEF EffectsOf, Recorded
  <2>4. \A i : i # s => ~Between(i, th) /\ ~Between(i, th)'
    BY <2>0, <2>1 DEF Between
  <2> QED
    BY <1>1, <2>0, <2>1, <2>2, <2>3, <2>4, EffectsElsewhere
<1>10. ASSUME NEW th \in Thread, RecordCall(th)
       PROVE  EffectsInv'
  <2> DEFINE t == job[th].tool
  <2>1. /\ pc[th] \in {"done", "append"} /\ effects' = effects /\ shared' = shared
        /\ \A other \in Thread \ {th} :
             pc'[other] = pc[other] /\ job'[other] = job[other] /\ request'[other] = request[other]
    BY <1>1, <1>10 DEF RecordCall, Approved, Leave, Return, Goto
  <2>0. PICK s \in allocated :
           /\ request[th].session = s /\ s # NoSession
           /\ \A i : i # s => ~Between(i, th)
           /\ s \in LiveSessions \ shared =>
                \A other \in Thread \ {th} : ~Between(s, other) /\ request[other].session # s
    BY <1>7, <2>1
  <2>2. /\ allocated' = allocated /\ clock' = clock
        /\ \/ ~Live(s) /\ sessions' = sessions
           \/ /\ Live(s) /\ s \in DOMAIN sessions
              /\ DOMAIN sessions' = DOMAIN sessions
              /\ sessions'[s].seq = Append(sessions[s].seq, t)
              /\ \A i \in DOMAIN sessions \ {s} : sessions'[i] = sessions[i]
    BY <1>10, <2>0, KeyType, RecordKeeps DEF InterceptorTypeOK, RecordCall
  <2>3. \A i \in LiveSessions' :
          /\ i \in LiveSessions
          /\ i # s => effects'[i] = effects[i] /\ sessions'[i].seq = sessions[i].seq
    BY <2>1, <2>2 DEF LiveSessions, Live, Expired
  <2>4. \A i : i # s => ~Between(i, th) /\ ~Between(i, th)'
    BY <1>1, <1>10, <2>0, <2>1 DEF RecordCall, Leave, Return, Goto, Between
  <2>5. ASSUME s \in LiveSessions' \ shared
        PROVE  EffectsOf(s)'
    <3>1. s \in LiveSessions \ shared
      BY <2>3, <2>5
    <3>2. Live(s) /\ sessions'[s].seq = Append(sessions[s].seq, t)
      BY <2>2, <3>1, LiveIs
    <3>3. CASE pc[th] = "append"
      <4>1. pc'[th] = "idle" /\ request'[th] = NoRequest
        BY <1>1, <1>10, <3>3 DEF RecordCall, Approved, Leave, Return, Goto
      <4>2. effects[s] = Append(Recorded(s), t)
        BY <2>0, <3>1, <3>3 DEF EffectsInv, EffectsOf, Between
      <4>3. \A other \in Thread : ~Between(s, other)'
        BY <2>0, <2>1, <3>1, <4>1 DEF Between
      <4> QED
        BY <2>1, <3>2, <4>2, <4>3 DEF EffectsOf, Recorded
    <3>4. CASE pc[th] = "done"
      <4>1. pc'[th] = "call" /\ request'[th] = request[th] /\ job'[th] = job[th]
        BY <1>1, <1>10, <2>0, <3>2, <3>4 DEF RecordCall, Approved, Goto
      <4>2. \A other \in Thread : ~Between(s, other)
        BY <2>0, <2>1, <3>1, <3>4 DEF Between
      <4>3. effects[s] = Recorded(s)
        BY <3>1, <4>2 DEF EffectsInv, EffectsOf
      <4>4. \A other \in Thread : Between(s, other)' => other = th
        BY <2>1, <4>2 DEF Between
      <4>5. Between(s, th)'
        BY <2>0, <4>1 DEF Between
      <4> QED
        BY <2>1, <3>2, <4>1, <4>3, <4>4, <4>5 DEF EffectsOf, Recorded
    <3> QED
      BY <2>1, <3>3, <3>4
  <2> QED
    BY <1>1, <2>0, <2>1, <2>2, <2>3, <2>4, <2>5, EffectsElsewhere
<1>11. CASE Owner
  <2>1. /\ pc' = pc /\ job' = job /\ request' = request
        /\ \A s \in Session : effects'[s] = IF s \in DOMAIN sessions' THEN effects[s] ELSE <<>>
        /\ shared' = shared \cap DOMAIN sessions' /\ LiveSessions' \subseteq DOMAIN sessions'
        /\ allocated \subseteq allocated' /\ allocated' \subseteq Session
        /\ DOMAIN sessions' \subseteq Session
        /\ \A s \in DOMAIN sessions' :
             \/ s \in Session \ allocated /\ sessions'[s].seq = <<>>
             \/ s \in DOMAIN sessions /\ sessions'[s] = sessions[s] /\ (Live(s)' => Live(s))
    BY <1>11, OwnerKeeps
       DEF Owner, validatorVars, InterceptorTypeOK, ClientsTypeOK, SessionTypeOK, LiveSessions
  <2>2. \A s \in Session \ allocated' : effects'[s] = <<>>
    BY <2>1 DEF EffectsInv
  <2>3. ASSUME NEW s \in LiveSessions' \ shared' PROVE EffectsOf(s)'
    <3>1. /\ s \in DOMAIN sessions' /\ Live(s)' /\ s \notin shared
          /\ effects'[s] = effects[s]
      BY <2>1, <2>3 DEF LiveSessions, Live, Expired
    <3>2. CASE s \in Session \ allocated /\ sessions'[s].seq = <<>>
      <4>1. \A th \in Thread : ~Between(s, th)'
        BY <1>1, <2>1, <3>2 DEF CallsApart, Attached, Between
      <4> QED
        BY <2>1, <3>1, <3>2, <4>1 DEF EffectsInv, EffectsOf, Recorded
    <3>3. CASE s \in DOMAIN sessions /\ sessions'[s] = sessions[s] /\ Live(s)
      <4>1. EffectsOf(s)
        BY <3>1, <3>3, LiveIs DEF EffectsInv
      <4> QED
        BY <2>1, <3>1, <3>3, <4>1, EffectsStand DEF Between
    <3> QED
      BY <2>1, <3>1, <3>2, <3>3 DEF Live, Expired
  <2> QED
    BY <2>2, <2>3 DEF EffectsInv
<1>12. CASE UNCHANGED interceptorVars
  BY <1>12
     DEF interceptorVars, validatorVars, clientVars, EffectsInv, EffectsOf, Between, Recorded,
         LiveSessions, Expired
<1> QED
  BY <1>3, <1>4, <1>5, <1>6, <1>8, <1>9, <1>10, <1>11, <1>12
     DEF InterceptorNext, ThreadStep

LEMMA EffectsInit == InterceptorInit => EffectsInv
BY DEF InterceptorInit, ClientsInit, SessionInit, EffectsInv, LiveSessions

LEMMA ConcatOneOrNone ==
  ASSUME NEW S, NEW seq \in Seq(S), NEW e \in S
  PROVE  seq \o <<e>> = Append(seq, e) /\ seq \o <<>> = seq
OBVIOUS

(* Who is at a place of a session in which there is at most one call       *)
LEMMA AtMeans ==
  ASSUME CallsApart, NEW s \in DOMAIN sessions \ shared, NEW place
  PROVE  /\ (\A th \in Thread : request[th].session = s => pc[th] # place)
              => CallAt(s, place) = <<>>
         /\ \A th \in Thread :
              request[th].session = s /\ pc[th] = place => CallAt(s, place) = <<job[th].tool>>
<1> DEFINE there == At(s, place)
<1>1. CallAt(s, place) = IF there = {} THEN <<>> ELSE <<job[CHOOSE th \in there : TRUE].tool>>
  BY DEF CallAt
<1>2. ASSUME NEW th \in Thread, request[th].session = s, pc[th] = place
      PROVE  there = {th}
  BY <1>2 DEF CallsApart, At, InCall
<1>3. (\A th \in Thread : request[th].session = s => pc[th] # place) => there = {}
  BY DEF At, InCall
<1> HIDE DEF there
<1>4. \A th : (CHOOSE x \in {th} : TRUE) = th
  OBVIOUS
<1> QED
  BY <1>1, <1>2, <1>3, <1>4

(* The history of a session used one call at a time is, in order, what     *)
(* took effect in it: the runs that succeeded and the functions that were  *)
(* called, but for the call that is between the two (intercept,            *)
(* execute_if_valid).                                                      *)
THEOREM EffectsAlwaysRecorded == InterceptorSpec => []EffectsRecorded
<1>1. InterceptorTypeOK /\ CallsApart /\ EffectsInv => EffectsRecorded
  <2> SUFFICES ASSUME InterceptorTypeOK, CallsApart, EffectsInv,
                      NEW s \in LiveSessions \ shared
               PROVE  Recorded(s) \o CallAt(s, "append") = effects[s] \o CallAt(s, "call")
    BY DEF EffectsRecorded
  <2>1. /\ s \in Session /\ Recorded(s) \in Seq(Tool) /\ effects[s] \in Seq(Tool)
        /\ s \in DOMAIN sessions \ shared
        /\ \A th \in Thread : pc[th] # "idle" => job[th].tool \in Tool
    BY Constants, KeyType
       DEF InterceptorTypeOK, ClientsTypeOK, SessionTypeOK, SessionRecord, LiveSessions, Recorded
  <2>2. EffectsOf(s)
    BY DEF EffectsInv
  <2>3. ASSUME NEW th \in Thread, Between(s, th)
        PROVE  Recorded(s) \o CallAt(s, "append") = effects[s] \o CallAt(s, "call")
    <3>1. /\ \A other \in Thread : request[other].session = s => other = th
          /\ job[th].tool \in Tool
      BY <2>1, <2>3 DEF CallsApart, Between
    <3>2. Recorded(s) \o <<>> = Recorded(s) /\ effects[s] \o <<>> = effects[s]
      BY <2>1, <3>1, ConcatOneOrNone
    <3>3. CASE pc[th] = "append"
      <4>1. CallAt(s, "append") = <<job[th].tool>> /\ CallAt(s, "call") = <<>>
        BY <2>1, <2>3, <3>1, <3>3, AtMeans DEF Between
      <4>2. effects[s] = Append(Recorded(s), job[th].tool)
        BY <2>2, <2>3, <3>3 DEF EffectsOf
      <4>3. Recorded(s) \o <<job[th].tool>> = Append(Recorded(s), job[th].tool)
        BY <2>1, <3>1, ConcatOneOrNone
      <4> QED
        BY <3>2, <4>1, <4>2, <4>3
    <3>4. CASE pc[th] = "call"
      <4>1. CallAt(s, "append") = <<>> /\ CallAt(s, "call") = <<job[th].tool>>
        BY <2>1, <2>3, <3>1, <3>4, AtMeans DEF Between
      <4>2. Recorded(s) = Append(effects[s], job[th].tool)
        BY <2>2, <2>3, <3>4 DEF EffectsOf
      <4>3. effects[s] \o <<job[th].tool>> = Append(effects[s], job[th].tool)
        BY <2>1, <3>1, ConcatOneOrNone
      <4> QED
        BY <3>2, <4>1, <4>2, <4>3
    <3> QED
      BY <2>3, <3>3, <3>4 DEF Between
  <2>4. CASE \A th \in Thread : ~Between(s, th)
    <3>1. CallAt(s, "append") = <<>> /\ CallAt(s, "call") = <<>>
      BY <2>1, <2>4, AtMeans DEF Between
    <3>2. effects[s] = Recorded(s)
      BY <2>2, <2>4 DEF EffectsOf
    <3> QED
      BY <3>1, <3>2
  <2> QED
    BY <2>3, <2>4
<1>2. /\ InterceptorTypeOK /\ CallsApart /\ EffectsInv
      /\ [InterceptorNext]_interceptorVars /\ InterceptorTypeOK'
      => EffectsInv'
  BY EffectsNext
<1> QED
  BY <1>1, <1>2, ApartAlways, EffectsInit, PTL DEF InterceptorSpec

-----------------------------------------------------------------------------
(* The effects, however many calls are in a session *)

(* The threads in session s that are about to do what place says to tool t *)
Waiting(s, place, t) == {th \in At(s, place) : job[th].tool = t}

Counted(s, t) ==
  /\ IsFiniteSet(Waiting(s, "append", t)) /\ IsFiniteSet(Waiting(s, "call", t))
  /\ Occurrences(Recorded(s), t) + Cardinality(Waiting(s, "append", t))
       = Occurrences(effects[s], t) + Cardinality(Waiting(s, "call", t))

CountInv ==
  /\ \A s \in Session \ allocated : effects[s] = <<>>
  /\ \A s \in LiveSessions, t \in Tool : Counted(s, t)

LEMMA WaitingIs ==
  \A s, place, t, th :
    th \in Waiting(s, place, t) <=>
      th \in Thread /\ request[th].session = s /\ pc[th] = place /\ job[th].tool = t
BY DEF Waiting, At, InCall

(* A step of th: it may come to wait, or cease to; the others stay.        *)
Others(th) ==
  \A other \in Thread \ {th} :
    pc'[other] = pc[other] /\ job'[other] = job[other] /\ request'[other] = request[other]

LEMMA WaitingMoves ==
  ASSUME NEW th \in Thread, Others(th),
         NEW s, NEW place, NEW t, IsFiniteSet(Waiting(s, place, t))
  PROVE  /\ IsFiniteSet(Waiting(s, place, t)')
         /\ Cardinality(Waiting(s, place, t)) \in Nat
         /\ Cardinality(Waiting(s, place, t)') + (IF th \in Waiting(s, place, t) THEN 1 ELSE 0)
              = Cardinality(Waiting(s, place, t)) + (IF th \in Waiting(s, place, t)' THEN 1 ELSE 0)
         /\ Cardinality(Waiting(s, place, t)') \in Nat
<1> DEFINE W == Waiting(s, place, t)
           V == Waiting(s, place, t)'
<1>1. \A other : other # th => (other \in V <=> other \in W)
  BY DEF Waiting, At, InCall, Others
<1> HIDE DEF W, V
<1>2. ASSUME IsFiniteSet(W)
      PROVE  /\ IsFiniteSet(V) /\ Cardinality(W) \in Nat /\ Cardinality(V) \in Nat
             /\ Cardinality(V) + (IF th \in W THEN 1 ELSE 0)
                  = Cardinality(W) + (IF th \in V THEN 1 ELSE 0)
  <2>1. Cardinality(W) \in Nat
    BY <1>2, FS_CardinalityType
  <2>2. CASE th \in W <=> th \in V
    <3>1. V = W
      BY <1>1, <2>2
    <3> QED
      BY <1>2, <2>1, <3>1
  <2>3. CASE th \in W /\ th \notin V
    <3>1. V = W \ {th}
      BY <1>1, <2>3
    <3>2. IsFiniteSet(V) /\ Cardinality(V) = Cardinality(W) - 1
      BY <1>2, <2>3, <3>1, FS_RemoveElement
    <3> QED
      BY <2>1, <2>3, <3>2, FS_CardinalityType
  <2>4. CASE th \notin W /\ th \in V
    <3>1. V = W \cup {th}
      BY <1>1, <2>4
    <3>2. IsFiniteSet(V) /\ Cardinality(V) = Cardinality(W) + 1
      BY <1>2, <2>4, <3>1, FS_AddElement
    <3> QED
      BY <2>1, <2>4, <3>2
  <2> QED
    BY <2>2, <2>3, <2>4
<1> QED
  BY <1>2 DEF W, V

(* The count stands when a step adds to both of its sides the same.        *)
LEMMA CountMoves ==
  ASSUME NEW th \in Thread, Others(th), NEW s, NEW t, Counted(s, t),
         NEW d \in {0, 1}, NEW e \in {0, 1},
         Recorded(s) \in Seq(Tool), effects[s] \in Seq(Tool),
         Occurrences(Recorded(s)', t) = Occurrences(Recorded(s), t) + d,
         Occurrences(effects'[s], t) = Occurrences(effects[s], t) + e,
         d + (IF th \in Waiting(s, "append", t)' THEN 1 ELSE 0)
           + (IF th \in Waiting(s, "call", t) THEN 1 ELSE 0)
         = e + (IF th \in Waiting(s, "call", t)' THEN 1 ELSE 0)
           + (IF th \in Waiting(s, "append", t) THEN 1 ELSE 0)
  PROVE  Counted(s, t)'
<1>1. Occurrences(Recorded(s), t) \in Nat /\ Occurrences(effects[s], t) \in Nat
  BY OccurrencesAppend
<1>2. IsFiniteSet(Waiting(s, "append", t)) /\ IsFiniteSet(Waiting(s, "call", t))
  BY DEF Counted
<1> DEFINE a == Cardinality(Waiting(s, "append", t))
           c == Cardinality(Waiting(s, "call", t))
           a2 == Cardinality(Waiting(s, "append", t)')
           c2 == Cardinality(Waiting(s, "call", t)')
<1>3. /\ IsFiniteSet(Waiting(s, "append", t)') /\ a \in Nat /\ a2 \in Nat
      /\ a2 + (IF th \in Waiting(s, "append", t) THEN 1 ELSE 0)
           = a + (IF th \in Waiting(s, "append", t)' THEN 1 ELSE 0)
  BY <1>2, WaitingMoves
<1>4. /\ IsFiniteSet(Waiting(s, "call", t)') /\ c \in Nat /\ c2 \in Nat
      /\ c2 + (IF th \in Waiting(s, "call", t) THEN 1 ELSE 0)
           = c + (IF th \in Waiting(s, "call", t)' THEN 1 ELSE 0)
  BY <1>2, WaitingMoves
<1>5. Occurrences(Recorded(s), t) + a = Occurrences(effects[s], t) + c
  BY DEF Counted
<1> DEFINE was == IF th \in Waiting(s, "append", t) THEN 1 ELSE 0
           is == IF th \in Waiting(s, "append", t)' THEN 1 ELSE 0
           called == IF th \in Waiting(s, "call", t) THEN 1 ELSE 0
           calls == IF th \in Waiting(s, "call", t)' THEN 1 ELSE 0
<1>6. /\ was \in {0, 1} /\ is \in {0, 1} /\ called \in {0, 1} /\ calls \in {0, 1}
      /\ d + is + called = e + calls + was
      /\ a2 + was = a + is /\ c2 + called = c + calls
  BY <1>3, <1>4
<1>7. Occurrences(Recorded(s)', t) + a2 = Occurrences(effects'[s], t) + c2
  <2> DEFINE o == Occurrences(Recorded(s), t)
             f == Occurrences(effects[s], t)
  <2> HIDE DEF a, c, a2, c2, was, is, called, calls
  <2>1. o \in Nat /\ f \in Nat /\ o + a = f + c
    BY <1>1, <1>5
  <2> HIDE DEF o, f
  <2>2. (o + d) + a2 = (f + e) + c2
    BY <1>3, <1>4, <1>6, <2>1
  <2> QED
    BY <2>2 DEF o, f
<1> QED
  BY <1>3, <1>4, <1>7 DEF Counted

LEMMA CountQuiet ==
  ASSUME InterceptorTypeOK, CountInv, NEW th \in Thread, Others(th),
         pc[th] \notin {"append", "call"}, pc'[th] \notin {"append", "call"},
         UNCHANGED <<clientVars, effects>>
  PROVE  CountInv'
<1>1. /\ LiveSessions' = LiveSessions /\ allocated' = allocated
      /\ sessions' = sessions /\ effects' = effects
  BY DEF LiveSessions, Expired, clientVars
<1>2. \A s, t : /\ Waiting(s, "append", t)' = Waiting(s, "append", t)
                /\ Waiting(s, "call", t)' = Waiting(s, "call", t)
  BY DEF Waiting, At, InCall, Others
<1>3. \A s \in LiveSessions, t \in Tool : Counted(s, t)'
  BY <1>1, <1>2 DEF CountInv, Counted, Recorded
<1> QED
  BY <1>1, <1>3 DEF CountInv

LEMMA HistoryType ==
  ASSUME InterceptorTypeOK
  PROVE  \A s \in LiveSessions :
           /\ s \in DOMAIN sessions /\ s \in Session
           /\ Recorded(s) \in Seq(Tool) /\ effects[s] \in Seq(Tool)
BY Constants
   DEF InterceptorTypeOK, ClientsTypeOK, SessionTypeOK, SessionRecord, LiveSessions, Recorded

LEMMA CountRun ==
  ASSUME InterceptorTypeOK, Attached, CountInv, NEW th \in Thread,
         Run(th), Goto(th, "append"), TakesEffect(th), UNCHANGED <<job, request>>
  PROVE  CountInv'
<1> DEFINE u == job[th].tool
<1>1. /\ pc[th] = "done" /\ pc'[th] = "append" /\ job' = job /\ request' = request
      /\ Others(th) /\ UNCHANGED clientVars /\ u \in Tool
      /\ request[th].session \in Session /\ request[th].session \in allocated
      /\ effects \in [Session -> Seq(Tool)]
  BY KeyType
     DEF Run, Approved, Goto, Others, Attached, InterceptorTypeOK, ValidatorTypeOK,
         ClientsTypeOK, SessionTypeOK
<1>2. LiveSessions' = LiveSessions /\ allocated' = allocated /\ sessions' = sessions
  BY <1>1 DEF LiveSessions, Expired, clientVars
<1>3. \A s \in Session :
        effects'[s] = IF s = request[th].session /\ s \in LiveSessions
                      THEN Append(effects[s], u) ELSE effects[s]
  BY <1>1, LiveIs DEF TakesEffect, Live
<1>4. ASSUME NEW s \in LiveSessions, NEW t \in Tool
      PROVE  Counted(s, t)'
  <2> DEFINE e == IF s = request[th].session /\ t = u THEN 1 ELSE 0
  <2>1. /\ Counted(s, t) /\ Recorded(s) \in Seq(Tool) /\ effects[s] \in Seq(Tool)
        /\ s \in Session /\ Recorded(s)' = Recorded(s)
    BY <1>2, HistoryType DEF CountInv, Recorded
  <2>2. Occurrences(Recorded(s), t) \in Nat /\ Occurrences(effects[s], t) \in Nat
    BY <2>1, OccurrencesAppend
  <2>3. Occurrences(effects'[s], t) = Occurrences(effects[s], t) + e
    BY <1>1, <1>3, <2>1, <2>2, OccurrencesAppend
  <2>4. /\ th \notin Waiting(s, "append", t) /\ th \notin Waiting(s, "call", t)
        /\ th \notin Waiting(s, "call", t)'
        /\ th \in Waiting(s, "append", t)' <=> e = 1
    BY <1>1 DEF Waiting, At, InCall
  <2>5. /\ e \in {0, 1} /\ 0 \in {0, 1}
        /\ Occurrences(Recorded(s)', t) = Occurrences(Recorded(s), t) + 0
    BY <2>1, <2>2
  <2> HIDE DEF e
  <2>6. 0 + (IF th \in Waiting(s, "append", t)' THEN 1 ELSE 0)
          + (IF th \in Waiting(s, "call", t) THEN 1 ELSE 0)
        = e + (IF th \in Waiting(s, "call", t)' THEN 1 ELSE 0)
          + (IF th \in Waiting(s, "append", t) THEN 1 ELSE 0)
    BY <2>4, <2>5
  <2> QED
    BY <1>1, <2>1, <2>3, <2>5, <2>6, CountMoves
<1> QED
  BY <1>1, <1>2, <1>3, <1>4 DEF CountInv

LEMMA CountCall ==
  ASSUME InterceptorTypeOK, Attached, CountInv, NEW th \in Thread, CallFunction(th)
  PROVE  CountInv'
<1> DEFINE u == job[th].tool
<1>1. /\ pc[th] = "call" /\ pc'[th] = "idle" /\ Others(th) /\ UNCHANGED clientVars
      /\ u \in Tool /\ request[th].session \in Session /\ request[th].session \in allocated
      /\ effects \in [Session -> Seq(Tool)]
  BY KeyType, LeaveIs
     DEF CallFunction, Others, Attached, InterceptorTypeOK, ClientsTypeOK, SessionTypeOK
<1>2. LiveSessions' = LiveSessions /\ allocated' = allocated /\ sessions' = sessions
  BY <1>1 DEF LiveSessions, Expired, clientVars
<1>3. \A s \in Session :
        effects'[s] = IF s = request[th].session /\ s \in LiveSessions
                      THEN Append(effects[s], u) ELSE effects[s]
  BY <1>1, LiveIs DEF CallFunction, TakesEffect, Live
<1>4. ASSUME NEW s \in LiveSessions, NEW t \in Tool
      PROVE  Counted(s, t)'
  <2> DEFINE e == IF s = request[th].session /\ t = u THEN 1 ELSE 0
  <2>1. /\ Counted(s, t) /\ Recorded(s) \in Seq(Tool) /\ effects[s] \in Seq(Tool)
        /\ s \in Session /\ Recorded(s)' = Recorded(s)
    BY <1>2, HistoryType DEF CountInv, Recorded
  <2>2. Occurrences(Recorded(s), t) \in Nat /\ Occurrences(effects[s], t) \in Nat
    BY <2>1, OccurrencesAppend
  <2>3. Occurrences(effects'[s], t) = Occurrences(effects[s], t) + e
    BY <1>1, <1>3, <2>1, <2>2, OccurrencesAppend
  <2>4. /\ th \notin Waiting(s, "append", t) /\ th \notin Waiting(s, "append", t)'
        /\ th \notin Waiting(s, "call", t)'
        /\ th \in Waiting(s, "call", t) <=> e = 1
    BY <1>1 DEF Waiting, At, InCall
  <2>5. /\ e \in {0, 1} /\ 0 \in {0, 1}
        /\ Occurrences(Recorded(s)', t) = Occurrences(Recorded(s), t) + 0
    BY <2>1, <2>2
  <2> HIDE DEF e
  <2>6. 0 + (IF th \in Waiting(s, "append", t)' THEN 1 ELSE 0)
          + (IF th \in Waiting(s, "call", t) THEN 1 ELSE 0)
        = e + (IF th \in Waiting(s, "call", t)' THEN 1 ELSE 0)
          + (IF th \in Waiting(s, "append", t) THEN 1 ELSE 0)
    BY <2>4, <2>5
  <2> QED
    BY <1>1, <2>1, <2>3, <2>5, <2>6, CountMoves
<1> QED
  BY <1>1, <1>2, <1>3, <1>4 DEF CountInv

LEMMA CountRecord ==
  ASSUME InterceptorTypeOK, Attached, CountInv, NEW th \in Thread, RecordCall(th)
  PROVE  CountInv'
<1> DEFINE u == job[th].tool
           i == request[th].session
<1>1. /\ pc[th] \in {"done", "append"} /\ effects' = effects /\ Others(th)
      /\ u \in Tool /\ ClientsTypeOK /\ i \in Session
  <2>1. i \in allocated /\ allocated \subseteq Session /\ pc[th] \in {"done", "append"}
    BY DEF RecordCall, Approved, Attached, InterceptorTypeOK, ClientsTypeOK, SessionTypeOK
  <2>2. StepOf(th)
    BY StepIs DEF ThreadStep
  <2> QED
    BY <2>1, <2>2, KeyType DEF RecordCall, StepOf, Others, InterceptorTypeOK
<1>2. /\ allocated' = allocated /\ clock' = clock
      /\ \/ ~Live(i) /\ sessions' = sessions
         \/ /\ Live(i) /\ i \in DOMAIN sessions
            /\ DOMAIN sessions' = DOMAIN sessions
            /\ sessions'[i].seq = Append(sessions[i].seq, u)
            /\ \A s \in DOMAIN sessions \ {i} : sessions'[s] = sessions[s]
  BY <1>1, RecordKeeps DEF RecordCall
<1>3. \/ ~Live(i) /\ pc'[th] = "idle" /\ request'[th].session = NoSession
      \/ pc[th] = "append" /\ pc'[th] = "idle" /\ request'[th].session = NoSession
      \/ /\ Live(i) /\ pc[th] = "done" /\ pc'[th] = "call"
         /\ job'[th] = job[th] /\ request'[th] = request[th]
  BY <1>1, LeaveIs
     DEF RecordCall, Approved, Goto, InterceptorTypeOK, ValidatorTypeOK
<1>4. ASSUME NEW s \in LiveSessions', NEW t \in Tool
      PROVE  Counted(s, t)'
  <2> DEFINE d == IF s = i /\ t = u THEN 1 ELSE 0
  <2>1. s \in LiveSessions
    BY <1>2 DEF LiveSessions, Live, Expired
  <2>2. /\ Counted(s, t) /\ Recorded(s) \in Seq(Tool) /\ effects[s] \in Seq(Tool)
        /\ s \in DOMAIN sessions /\ s \in Session /\ s # NoSession
        /\ Live(s)
    BY <2>1, HistoryType, LiveIs, Constants DEF CountInv
  <2>3. Occurrences(Recorded(s), t) \in Nat /\ Occurrences(effects[s], t) \in Nat
    BY <2>2, OccurrencesAppend
  <2>4. Occurrences(Recorded(s)', t) = Occurrences(Recorded(s), t) + d
    <3>1. CASE s = i
      <4>1. Recorded(s)' = Append(Recorded(s), u)
        BY <1>2, <2>2, <3>1 DEF Recorded
      <4> QED
        BY <1>1, <2>2, <2>3, <3>1, <4>1, OccurrencesAppend
    <3>2. CASE s # i
      <4>1. Recorded(s)' = Recorded(s)
        BY <1>2, <2>2, <3>2 DEF Recorded
      <4> QED
        BY <2>3, <3>2, <4>1
    <3> QED
      BY <3>1, <3>2
  <2>5. d \in {0, 1} /\ Occurrences(effects'[s], t) = Occurrences(effects[s], t) + 0
    BY <1>1, <2>3
  <2>6. d + (IF th \in Waiting(s, "append", t)' THEN 1 ELSE 0)
          + (IF th \in Waiting(s, "call", t) THEN 1 ELSE 0)
        = 0 + (IF th \in Waiting(s, "call", t)' THEN 1 ELSE 0)
          + (IF th \in Waiting(s, "append", t) THEN 1 ELSE 0)
    <3>1. th \notin Waiting(s, "append", t)' /\ th \notin Waiting(s, "call", t)
      BY <1>1, <1>3 DEF Waiting, At, InCall
    <3>2. CASE pc[th] = "append"
      <4>1. /\ th \in Waiting(s, "append", t) <=> d = 1
            /\ th \notin Waiting(s, "call", t)'
        BY <1>3, <3>2 DEF Waiting, At, InCall
      <4> QED
        BY <3>1, <4>1
    <3>3. CASE pc[th] = "done"
      <4>1. /\ th \in Waiting(s, "call", t)' <=> d = 1
            /\ th \notin Waiting(s, "append", t)
        BY <1>1, <1>3, <2>2, <3>3 DEF Waiting, At, InCall
      <4> QED
        BY <3>1, <4>1
    <3> QED
      BY <1>1, <3>2, <3>3
  <2> HIDE DEF d
  <2> QED
    BY <1>1, <2>2, <2>4, <2>5, <2>6, CountMoves
<1> QED
  BY <1>1, <1>2, <1>4 DEF CountInv

LEMMA CountOwner ==
  ASSUME InterceptorTypeOK, Attached, CountInv, Owner
  PROVE  CountInv'
<1>1. /\ pc' = pc /\ job' = job /\ request' = request
      /\ \A s \in Session : effects'[s] = IF s \in DOMAIN sessions' THEN effects[s] ELSE <<>>
      /\ LiveSessions' = {s \in DOMAIN sessions' : Live(s)'}
      /\ DOMAIN sessions' \subseteq Session /\ allocated \subseteq allocated'
      /\ \A s \in DOMAIN sessions' :
           \/ s \in Session \ allocated /\ sessions'[s].seq = <<>>
           \/ s \in DOMAIN sessions /\ sessions'[s] = sessions[s] /\ (Live(s)' => Live(s))
  BY OwnerKeeps
     DEF Owner, validatorVars, InterceptorTypeOK, ClientsTypeOK, SessionTypeOK,
         LiveSessions, Live, Expired
<1>2. \A s, place, t : Waiting(s, place, t)' = Waiting(s, place, t)
  BY <1>1 DEF Waiting, At, InCall
<1>3. ASSUME NEW s \in LiveSessions', NEW t \in Tool
      PROVE  Counted(s, t)'
  <2>1. /\ s \in DOMAIN sessions' /\ Live(s)' /\ effects'[s] = effects[s]
        /\ s \in Session
    BY <1>1, <1>3
  <2>2. CASE s \in Session \ allocated /\ sessions'[s].seq = <<>>
    <3>1. \A place \in {"append", "call"} : Waiting(s, place, t) = {}
      BY <2>2, Constants DEF Waiting, At, InCall, Attached
    <3>2. Recorded(s)' = effects'[s]
      BY <2>1, <2>2 DEF CountInv, Recorded
    <3> QED
      BY <1>2, <3>1, <3>2, FS_EmptySet DEF Counted
  <2>3. CASE s \in DOMAIN sessions /\ sessions'[s] = sessions[s] /\ Live(s)
    <3>1. Counted(s, t)
      BY <2>3, LiveIs DEF CountInv
    <3>2. Recorded(s)' = Recorded(s)
      BY <2>3 DEF Recorded
    <3> QED
      BY <1>2, <2>1, <3>1, <3>2 DEF Counted
  <2> QED
    BY <1>1, <2>1, <2>2, <2>3
<1>4. \A s \in Session \ allocated' : effects'[s] = <<>>
  BY <1>1 DEF CountInv
<1> QED
  BY <1>3, <1>4 DEF CountInv

LEMMA CountNext ==
  ASSUME InterceptorTypeOK, Attached, CountInv, [InterceptorNext]_interceptorVars
  PROVE  CountInv'
<1>1. /\ pc \in [Thread -> Label] /\ job \in [Thread -> Job]
      /\ request \in [Thread -> [op : Operation, session : Session \cup {NoSession}]]
  BY DEF InterceptorTypeOK, ValidatorTypeOK
<1>2. ASSUME NEW th \in Thread, NEW op \in Operation, NEW s \in Session, NEW t \in Tool,
             Begin(th, op, s, t)
      PROVE  CountInv'
  BY <1>1, <1>2, CountQuiet DEF Begin, Goto, Others
<1>3. ASSUME NEW th \in Thread, Fetch(th)
      PROVE  CountInv'
  BY <1>1, <1>3, CountQuiet DEF Fetch, Goto, Others
<1>4. ASSUME NEW th \in Thread, Validate(th)
      PROVE  CountInv'
  <2>1. pc[th] \notin {"append", "call"} /\ pc'[th] \notin {"append", "call"} /\ Others(th)
    BY <1>1, <1>4
       DEF Validate, ValidateStep, Lookup, Examine, Decide, Store, Goto, Answer, Others
  <2> QED
    BY <1>4, <2>1, CountQuiet DEF Validate
<1>5. ASSUME NEW th \in Thread, Leave(th), pc[th] = "done", UNCHANGED <<clientVars, effects>>
      PROVE  CountInv'
  <2>1. pc'[th] = "idle" /\ Others(th)
    BY <1>5, LeaveIs DEF Others
  <2> QED
    BY <1>5, <2>1, CountQuiet
<1>6. ASSUME NEW th \in Thread, Deny(th)
      PROVE  CountInv'
  BY <1>5, <1>6 DEF Deny
<1>7. ASSUME NEW th \in Thread, Run(th)
      PROVE  CountInv'
  BY <1>5, <1>7, CountRun DEF Run, Approved
<1>8. ASSUME NEW th \in Thread, RecordCall(th)
      PROVE  CountInv'
  BY <1>8, CountRecord
<1>9. ASSUME NEW th \in Thread, CallFunction(th)
      PROVE  CountInv'
  BY <1>9, CountCall
<1>10. CASE Owner
  BY <1>10, CountOwner
<1>11. CASE UNCHANGED interceptorVars
  <2>1. /\ pc' = pc /\ job' = job /\ request' = request /\ effects' = effects
        /\ sessions' = sessions /\ allocated' = allocated /\ LiveSessions' = LiveSessions
    BY <1>11 DEF interceptorVars, validatorVars, clientVars, LiveSessions, Expired
  <2>2. \A s, place, t : Waiting(s, place, t)' = Waiting(s, place, t)
    BY <2>1 DEF Waiting, At, InCall
  <2> QED
    BY <2>1, <2>2 DEF CountInv, Counted, Recorded
<1> QED
  BY <1>2, <1>3, <1>4, <1>6, <1>7, <1>8, <1>9, <1>10, <1>11 DEF InterceptorNext, ThreadStep

(* In every live session, however many calls are in it at once, each tool  *)
(* is recorded as often as it took effect, up to the calls between the two *)
(* (intercept, execute_if_valid).                                          *)
THEOREM EffectsAlwaysCounted == InterceptorSpec => []EffectsCounted
<1>1. InterceptorInit => CountInv
  BY DEF InterceptorInit, ClientsInit, SessionInit, CountInv, LiveSessions
<1>2. CountInv => EffectsCounted
  BY DEF CountInv, EffectsCounted, Counted, Waiting
<1>3. InterceptorTypeOK /\ CallsApart /\ CountInv /\ [InterceptorNext]_interceptorVars
        => CountInv'
  BY CountNext DEF CallsApart
<1> QED
  BY <1>1, <1>2, <1>3, ApartAlways, PTL DEF InterceptorSpec

-----------------------------------------------------------------------------
(* The sessions, seen from outside: the lazy map implements EagerSessions. *)

(* The sessions and their expiries, as EagerSessions has them              *)
Expiries == [s \in LiveSessions |->
               [seq |-> sessions[s].seq, expires |-> sessions[s].last_activity + Timeout]]

LEMMA EagerFull ==
  /\ Eager!Full <=> Full
  /\ DOMAIN Expiries = LiveSessions
<1>1. DOMAIN Swept = LiveSessions
  BY DEF Swept
<1>2. \A S : Eager!Cardinality(S) = Cardinality(S)
  BY Zenon DEF Eager!Cardinality, Cardinality
<1> QED
  BY <1>1, <1>2 DEF Eager!Full, Full, Expiries

LEMMA EagerStutter ==
  ASSUME UNCHANGED clientVars
  PROVE  UNCHANGED Eager!vars
BY DEF clientVars, Eager!vars, LiveSessions, Expired

LEMMA EagerCreate ==
  ASSUME ClientsTypeOK, Create
  PROVE  Eager!Next
<1>1. /\ \A s \in DOMAIN sessions : sessions[s].last_activity \in Nat
      /\ DOMAIN sessions \subseteq allocated /\ clock \in Nat /\ Timeout \in Nat
      /\ LiveSessions \subseteq DOMAIN sessions
  BY Constants DEF ClientsTypeOK, SessionTypeOK, SessionRecord, LiveSessions
<1>2. /\ DOMAIN Swept = LiveSessions
      /\ \A i \in LiveSessions : Swept[i] = sessions[i]
  BY DEF Swept
<1>3. ASSUME NEW s \in Session, CreateSession(s), reply' = "ok"
      PROVE  Eager!Create(s)
  <2>1. /\ s \notin allocated /\ ~Full /\ clock' = clock /\ allocated' = allocated \cup {s}
        /\ sessions' = [i \in LiveSessions \cup {s} |->
                          IF i = s THEN [seq |-> <<>>, last_activity |-> clock] ELSE sessions[i]]
    BY <1>2, <1>3 DEF CreateSession
  <2>2. LiveSessions' = LiveSessions \cup {s}
    BY <1>1, <2>1 DEF LiveSessions, Expired
  <2>3. Expiries' = [i \in LiveSessions \cup {s} |->
                       IF i = s THEN [seq |-> <<>>, expires |-> clock + Timeout]
                                ELSE Expiries[i]]
    BY <1>1, <2>1, <2>2 DEF Expiries
  <2>4. ~Eager!Full /\ DOMAIN Expiries = LiveSessions
    BY <2>1, EagerFull
  <2> QED
    BY <1>3, <2>1, <2>3, <2>4 DEF Eager!Create, Expiries
<1>4. CASE RefuseSession /\ reply' = "full"
  <2>1. /\ Full /\ clock' = clock /\ allocated' = allocated
        /\ sessions' = [i \in LiveSessions |-> sessions[i]]
    BY <1>4 DEF RefuseSession, Swept
  <2>2. LiveSessions' = LiveSessions
    BY <1>1, <2>1 DEF LiveSessions, Expired
  <2>3. Expiries' = Expiries
    BY <2>1, <2>2 DEF Expiries
  <2> QED
    BY <1>4, <2>1, <2>3, EagerFull DEF Eager!Next, Eager!Refuse, Expiries
<1> QED
  BY <1>3, <1>4 DEF Create, Eager!Next

(* end_session on an expired session erases what nobody could see: that is *)
(* the stuttering end of a session that is gone.                           *)
LEMMA EagerEnd ==
  ASSUME ClientsTypeOK, NEW s \in Session, End(s)
  PROVE  Eager!Next
<1>1. /\ DOMAIN sessions \subseteq allocated /\ DOMAIN Expiries = LiveSessions
      /\ LiveSessions \subseteq DOMAIN sessions
  BY EagerFull DEF ClientsTypeOK, SessionTypeOK, LiveSessions
<1>2. ASSUME EndSession(s), reply' = "ok"
      PROVE  Eager!End(s) \/ Eager!EndGone(s)
  <2>1. /\ s \in DOMAIN sessions /\ allocated' = allocated /\ clock' = clock
        /\ sessions' = [i \in DOMAIN sessions \ {s} |-> sessions[i]]
    BY <1>2 DEF EndSession
  <2>2. LiveSessions' = LiveSessions \ {s}
    BY <2>1 DEF LiveSessions, Expired
  <2>3. Expiries' = [i \in LiveSessions \ {s} |-> Expiries[i]]
    BY <1>1, <2>1, <2>2 DEF Expiries
  <2>4. CASE s \in LiveSessions
    BY <1>1, <1>2, <2>1, <2>3, <2>4 DEF Eager!End, Expiries
  <2>5. CASE s \notin LiveSessions
    <3>1. LiveSessions \ {s} = LiveSessions
      BY <2>5
    <3>2. \A i \in LiveSessions : sessions'[i] = sessions[i]
      BY <1>1, <2>1, <2>5
    <3>3. Expiries' = Expiries
      BY <2>2, <3>1, <3>2 DEF Expiries
    <3> QED
      BY <1>1, <1>2, <2>1, <2>5, <3>3 DEF Eager!EndGone, Expiries
  <2> QED
    BY <2>4, <2>5
<1>3. ASSUME s \notin DOMAIN sessions, reply' = "unknown", UNCHANGED sessionVars
      PROVE  Eager!EndGone(s)
  <2>1. Expiries' = Expiries
    BY <1>3 DEF sessionVars, Expiries, LiveSessions, Expired
  <2> QED
    BY <1>1, <1>3, <2>1 DEF Eager!EndGone, Expiries, sessionVars
<1> QED
  BY <1>2, <1>3 DEF End, Eager!Next

LEMMA EagerRecord ==
  ASSUME ClientsTypeOK, NEW s \in Session, NEW t \in Call, Record(s, t)
  PROVE  Eager!Next
<1>1. /\ sessions \in [DOMAIN sessions -> SessionRecord]
      /\ DOMAIN Expiries = LiveSessions /\ clock \in Nat /\ Timeout \in Nat
  BY Constants, EagerFull DEF ClientsTypeOK, SessionTypeOK
<1>2. ASSUME AppendToolCall(s, t), reply' = "ok"
      PROVE  Eager!Record(s, t)
  <2>1. /\ s \in LiveSessions /\ allocated' = allocated /\ clock' = clock
        /\ sessions' = [sessions EXCEPT ![s] = [seq |-> Append(sessions[s].seq, t),
                                                last_activity |-> clock]]
    BY <1>2, LiveIs DEF AppendToolCall, Live
  <2>2. LiveSessions' = LiveSessions
    BY <1>1, <2>1 DEF LiveSessions, Expired
  <2>3. Expiries' = [Expiries EXCEPT ![s] = [seq |-> Append(Expiries[s].seq, t),
                                             expires |-> clock + Timeout]]
    <3>1. s \in DOMAIN sessions /\ LiveSessions \subseteq DOMAIN sessions
      BY <2>1 DEF LiveSessions
    <3> QED
      BY <1>1, <2>1, <2>2, <3>1 DEF Expiries
  <2> QED
    BY <1>1, <1>2, <2>1, <2>3 DEF Eager!Record, Expiries
<1>3. ASSUME ~Live(s), reply' = "unknown", UNCHANGED sessionVars
      PROVE  Eager!RecordGone(s)
  <2>1. Expiries' = Expiries
    BY <1>3 DEF sessionVars, Expiries, LiveSessions, Expired
  <2> QED
    BY <1>1, <1>3, <2>1, LiveIs DEF Eager!RecordGone, Expiries, sessionVars
<1> QED
  BY <1>2, <1>3 DEF Record, Eager!Next

LEMMA EagerWait ==
  ASSUME ClientsTypeOK, Wait
  PROVE  Eager!Next
<1>1. /\ \A s \in DOMAIN sessions : sessions[s].last_activity \in Nat
      /\ DOMAIN Expiries = LiveSessions /\ clock \in Nat /\ Timeout \in Nat
      /\ LiveSessions \subseteq DOMAIN sessions
  BY Constants, EagerFull DEF ClientsTypeOK, SessionTypeOK, SessionRecord, LiveSessions
<1>2. /\ clock < MaxClock /\ clock' = clock + 1
      /\ sessions' = sessions /\ allocated' = allocated /\ reply' = reply
  BY DEF Wait, Tick
<1>3. LiveSessions' = {i \in LiveSessions : Timeout = 0 \/ clock' < Expiries[i].expires}
  BY <1>1, <1>2 DEF LiveSessions, Expired, Expiries
<1>4. Expiries' = [i \in {j \in LiveSessions : Timeout = 0 \/ clock' < Expiries[j].expires} |->
                     Expiries[i]]
  BY <1>1, <1>2, <1>3 DEF Expiries
<1> QED
  BY <1>1, <1>2, <1>4 DEF Eager!Next, Eager!Tick, Eager!InTime, Expiries

(* The lazy map implements EagerSessions, in which a session disappears    *)
(* the moment its time is up: each answer of the session manager is one    *)
(* that store could give.                                                  *)
THEOREM SessionsExpireEagerly == InterceptorSpec => EagerlyExpired
<1>1. InterceptorInit => Eager!Init
  BY DEF InterceptorInit, ClientsInit, SessionInit, Eager!Init, LiveSessions
<1>2. ASSUME InterceptorTypeOK, CallsApart, [InterceptorNext]_interceptorVars
      PROVE  [Eager!Next]_Eager!vars
  <2>1. ASSUME NEW th \in Thread, RecordCall(th)
        PROVE  Eager!Next
    <3>1. pc[th] # "idle" /\ Record(request[th].session, job[th].tool)
      BY <2>1 DEF RecordCall, Approved
    <3>2. request[th].session \in Session /\ job[th].tool \in Call
      BY <1>2, <3>1, KeyType, Constants
         DEF CallsApart, Attached, InterceptorTypeOK, ClientsTypeOK, SessionTypeOK
    <3> QED
      BY <1>2, <3>1, <3>2, EagerRecord DEF InterceptorTypeOK
  <2>2. CASE Owner
    BY <1>2, <2>2, EagerCreate, EagerEnd, EagerWait DEF Owner, InterceptorTypeOK
  <2>3. CASE \/ UNCHANGED interceptorVars
             \/ \E th \in Thread, op \in Operation, s \in Session, t \in Tool : Begin(th, op, s, t)
             \/ \E th \in Thread :
                  Fetch(th) \/ Validate(th) \/ Deny(th) \/ Run(th) \/ CallFunction(th)
    <3>1. UNCHANGED clientVars
      BY <2>3 DEF interceptorVars, Begin, Fetch, Validate, Deny, Run, CallFunction
    <3> QED
      BY <3>1, EagerStutter
  <2> QED
    BY <1>2, <2>1, <2>2, <2>3 DEF InterceptorNext, ThreadStep
<1> QED
  BY <1>1, <1>2, ApartAlways, PTL DEF InterceptorSpec, EagerlyExpired, Eager!Spec
============================================================================
