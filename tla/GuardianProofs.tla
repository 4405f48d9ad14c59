--------------------------- MODULE GuardianProofs ---------------------------
(***************************************************************************)
(* What holds of a Guardian for every policy graph, every number of        *)
(* threads, sessions and tools, every context length, cache capacity and   *)
(* threshold.  The bounds MaxHistory and MaxClock play no part.            *)
(***************************************************************************)
EXTENDS Guardian, ValidatorProofs

(* The assumptions, as the steps below use them *)
LEMMA Constants ==
  /\ Call = Tool /\ Timeout = 0 /\ MaxSessions = 0
  /\ OneCallPerSession \in BOOLEAN /\ Loaded \subseteq Tool
  /\ NoSession \notin Session
  /\ Thresholds \subseteq Nat
  /\ (CHOOSE t \in Tool : TRUE) \in Tool
BY GuardianAssumption, ValidatorAssumption

(* Without a timeout a session is live exactly when it is in the map.      *)
LEMMA NeverExpired ==
  /\ \A s : Live(s) <=> s \in DOMAIN sessions
  /\ LiveSessions = DOMAIN sessions
  /\ Swept = [s \in DOMAIN sessions |-> sessions[s]]
BY Constants DEF Live, Expired, LiveSessions, Swept

-----------------------------------------------------------------------------
(* Type correctness *)

LEMMA TypeInit == GuardianInit => GuardianTypeOK
<1> SUFFICES ASSUME GuardianInit PROVE GuardianTypeOK
  OBVIOUS
<1> USE DEF GuardianInit, SessionInit
<1>1. ValidatorTypeOK
  BY ValidatorTypeInit
<1>2. SessionTypeOK
  BY DEF SessionTypeOK
<1>3. /\ request \in [Thread -> [op : Operation,
                                 session : Session \cup {NoSession}]]
      /\ ran \in [Session -> Seq(Tool)]
  BY EmptySeq DEF NoRequest, Operation
<1> QED
  BY <1>1, <1>2, <1>3 DEF GuardianTypeOK

(* The history a thread copies is one of the session manager's, or empty.  *)
LEMMA SequenceType ==
  ASSUME SessionTypeOK, NEW s
  PROVE  SequenceOf(s) \in Seq(Tool)
BY Constants, NeverExpired, EmptySeq
   DEF SequenceOf, SessionTypeOK, SessionRecord

LEMMA TypeCreateSession ==
  ASSUME SessionTypeOK, NEW s \in Session, CreateSession(s)
  PROVE  SessionTypeOK'
<1>1. [seq |-> <<>>, last_activity |-> clock] \in SessionRecord
  BY EmptySeq DEF SessionTypeOK, SessionRecord
<1>2. \A i \in DOMAIN sessions : sessions[i] \in SessionRecord
  BY DEF SessionTypeOK
<1>3. /\ sessions' = [i \in DOMAIN sessions \cup {s} |->
                        IF i = s THEN [seq |-> <<>>, last_activity |-> clock]
                                 ELSE sessions[i]]
      /\ allocated' = allocated \cup {s}
      /\ clock' = clock
  BY NeverExpired DEF CreateSession
<1> QED
  BY <1>1, <1>2, <1>3 DEF SessionTypeOK

LEMMA TypeEndSession ==
  ASSUME SessionTypeOK, NEW s \in Session, EndSession(s)
  PROVE  SessionTypeOK'
BY DEF SessionTypeOK, EndSession

LEMMA TypeAppendToolCall ==
  ASSUME SessionTypeOK, NEW s, NEW t \in Tool, AppendToolCall(s, t)
  PROVE  SessionTypeOK'
<1>1. s \in DOMAIN sessions
  BY NeverExpired DEF AppendToolCall
<1>2. [seq |-> Append(sessions[s].seq, t), last_activity |-> clock]
        \in SessionRecord
  BY <1>1, Constants, AppendProperties DEF SessionTypeOK, SessionRecord
<1> QED
  BY <1>1, <1>2 DEF AppendToolCall, SessionTypeOK

LEMMA TypeNext ==
  ASSUME GuardianTypeOK, [GuardianNext]_guardianVars
  PROVE  GuardianTypeOK'
<1> USE DEF GuardianTypeOK
<1>1. ASSUME NEW th \in Thread, NEW op \in Operation, NEW s \in Session,
             NEW t \in Tool, Begin(th, op, s, t)
      PROVE  GuardianTypeOK'
  <2>1. NewJob(t, <<>>) \in Job
    BY EmptySeq DEF NewJob, Job, Histories, Verdict
  <2> QED
    BY <1>1, <2>1
       DEF Begin, Goto, Label, sessionVars, ValidatorTypeOK, SessionTypeOK
<1>2. ASSUME NEW th \in Thread, Fetch(th)
      PROVE  GuardianTypeOK'
  <2>1. NewJob(job[th].tool, SequenceOf(request[th].session)) \in Job
    BY SequenceType, KeyType DEF NewJob, Job, Histories, Verdict
  <2> QED
    BY <1>2, <2>1
       DEF Fetch, Goto, Label, sessionVars, ValidatorTypeOK, SessionTypeOK
<1>3. ASSUME NEW th \in Thread, Validate(th)
      PROVE  GuardianTypeOK'
  <2>1. ValidatorTypeOK'
    BY <1>3, TypeValidateStep DEF Validate
  <2> QED
    BY <1>3, <2>1 DEF Validate, sessionVars, SessionTypeOK
<1>4. ASSUME NEW th \in Thread, Leave(th), UNCHANGED <<cache, cycle_threshold>>
      PROVE  /\ ValidatorTypeOK'
             /\ request' \in [Thread -> [op : Operation,
                                         session : Session \cup {NoSession}]]
  BY <1>4, NoJobType
     DEF Leave, Return, Goto, Label, NoRequest, Operation, ValidatorTypeOK
<1>5. ASSUME NEW th \in Thread, Answered(th)
      PROVE  GuardianTypeOK'
  BY <1>4, <1>5 DEF Answered, sessionVars, SessionTypeOK
<1>6. ASSUME NEW th \in Thread, Run(th)
      PROVE  GuardianTypeOK'
  <2>1. ran' \in [Session -> Seq(Tool)]
    <3>1. ran' = ran \/ ran' = [ran EXCEPT ![request[th].session] =
                         Append(ran[request[th].session], job[th].tool)]
      BY <1>6 DEF Run
    <3>2. ASSUME request[th].session \in Session
          PROVE  Append(ran[request[th].session], job[th].tool) \in Seq(Tool)
      BY <3>2, KeyType, AppendProperties
    <3> QED
      BY <3>1, <3>2
  <2> QED
    BY <1>6, <2>1
       DEF Run, Goto, Label, sessionVars, ValidatorTypeOK, SessionTypeOK
<1>7. ASSUME NEW th \in Thread, Record(th)
      PROVE  GuardianTypeOK'
  <2>1. SessionTypeOK'
    <3>1. CASE AppendToolCall(request[th].session, job[th].tool)
      BY <3>1, TypeAppendToolCall, KeyType
    <3>2. CASE UNCHANGED sessionVars
      BY <3>2 DEF sessionVars, SessionTypeOK
    <3> QED
      BY <1>7, <3>1, <3>2 DEF Record
  <2> QED
    BY <1>4, <1>7, <2>1 DEF Record
<1>8. ASSUME NEW s \in Session, Create(s) \/ End(s)
      PROVE  GuardianTypeOK'
  <2>1. SessionTypeOK'
    BY <1>8, TypeCreateSession, TypeEndSession DEF Create, End
  <2>2. ran' \in [Session -> Seq(Tool)]
    BY <1>8, EmptySeq DEF Create, End
  <2> QED
    BY <1>8, <2>1, <2>2 DEF Create, End, ValidatorTypeOK
<1>9. ASSUME NEW n \in Thresholds, UpdateConfig(n)
      PROVE  GuardianTypeOK'
  BY <1>9
     DEF UpdateConfig, SetCycleThreshold, sessionVars, ValidatorTypeOK, SessionTypeOK
<1>10. CASE UNCHANGED guardianVars
  BY <1>10 DEF guardianVars, ValidatorTypeOK, SessionTypeOK
<1> QED
  BY <1>1, <1>2, <1>3, <1>5, <1>6, <1>7, <1>8, <1>9, <1>10
     DEF GuardianNext, ThreadStep

(* Every variable keeps its type, in whatever order the threads run.       *)
THEOREM TypeCorrect == GuardianSpec => []GuardianTypeOK
<1>1. GuardianInit => GuardianTypeOK
  BY TypeInit
<1>2. GuardianTypeOK /\ [GuardianNext]_guardianVars => GuardianTypeOK'
  BY TypeNext
<1> QED
  BY <1>1, <1>2, PTL DEF GuardianSpec

-----------------------------------------------------------------------------
(* The cache, whatever use is made of the sessions *)

(* The thresholds an approval can be relied on for: all of them when they  *)
(* are one, none when update_config changes the threshold.                 *)
KeptThresholds == IF SteadyThreshold THEN Thresholds ELSE {}

LEMMA PermittedIs ==
  /\ \A h, t : Permitted(h, t) <=> Permits(KeptThresholds, h, t)
  /\ ValidatorTypeOK => KeptThresholds \in SUBSET {cycle_threshold}
BY DEF Permitted, Permits, KeptThresholds, SteadyThreshold, ValidatorTypeOK

(* CacheSound holds because what the threads carry is sound as well.       *)
CacheInv == VerdictsSound(KeptThresholds)

LEMMA CacheInvIs ==
  ASSUME KeysDistinct, CacheInv
  PROVE  /\ CacheSound
         /\ \A th \in Thread :
              pc[th] = "append" => Permitted(Context(job[th].seq), job[th].tool)
<1>1. CacheSound
  <2> SUFFICES ASSUME NEW q \in Questions, KeyText[q] \in DOMAIN cache,
                      cache[KeyText[q]] = "approved"
               PROVE  Permitted(q[2], q[1])
    BY DEF CacheSound
  <2>1. Question(KeyText[q]) = q
    BY KeyTells
  <2> QED
    BY <2>1, PermittedIs DEF CacheInv, VerdictsSound, CachedSound
<1>2. ASSUME NEW th \in Thread, pc[th] = "append"
      PROVE  Permitted(Context(job[th].seq), job[th].tool)
  BY <1>2, PermittedIs DEF CacheInv, VerdictsSound, JobSound
<1> QED
  BY <1>1, <1>2

LEMMA CacheNext ==
  ASSUME KeysDistinct, GuardianTypeOK, CacheInv, [GuardianNext]_guardianVars
  PROVE  CacheInv'
<1> USE DEF CacheInv
<1>1. /\ ValidatorTypeOK
      /\ pc \in [Thread -> Label] /\ job \in [Thread -> Job]
      /\ KeptThresholds \in SUBSET {cycle_threshold}
  BY PermittedIs DEF GuardianTypeOK, ValidatorTypeOK
<1>2. ASSUME NEW th \in Thread, UNCHANGED <<cache, cycle_threshold>>,
             pc' = [pc EXCEPT ![th] = pc'[th]],
             job' = [job EXCEPT ![th] = job'[th]],
             pc'[th] \in {"idle", "fetch", "lookup"}
      PROVE  CacheInv'
  BY <1>1, <1>2, OutsideValidate
<1>3. ASSUME NEW th \in Thread, NEW op \in Operation, NEW s \in Session,
             NEW t \in Tool, Begin(th, op, s, t)
      PROVE  CacheInv'
  BY <1>1, <1>2, <1>3 DEF Begin, Goto
<1>4. ASSUME NEW th \in Thread, Fetch(th)
      PROVE  CacheInv'
  BY <1>1, <1>2, <1>4 DEF Fetch, Goto
<1>5. ASSUME NEW th \in Thread, Validate(th)
      PROVE  CacheInv'
  BY <1>1, <1>5, ValidateStepSound DEF Validate
<1>6. ASSUME NEW th \in Thread, Answered(th) \/ Record(th)
      PROVE  CacheInv'
  BY <1>1, <1>2, <1>6 DEF Answered, Record, Leave, Return, Goto
<1>7. ASSUME NEW th \in Thread, Run(th)
      PROVE  CacheInv'
  BY <1>1, <1>7, GoesOnToRecord DEF Run, Approved
<1>8. ASSUME NEW n \in Thresholds, UpdateConfig(n)
      PROVE  CacheInv'
  <2>1. /\ job' = job /\ pc' = pc /\ cache' = cache
        /\ KeptThresholds # {} => cycle_threshold' = cycle_threshold
    BY <1>8 DEF UpdateConfig, SetCycleThreshold, SteadyThreshold, KeptThresholds,
                GuardianTypeOK, ValidatorTypeOK
  <2> QED
    BY <2>1 DEF VerdictsSound, CachedSound, JobSound
<1>9. ASSUME UNCHANGED <<cache, cycle_threshold, pc, job>>
      PROVE  CacheInv'
  BY <1>9, ValidatorIdles
<1>10. ASSUME NEW s \in Session, Create(s) \/ End(s)
       PROVE  CacheInv'
  BY <1>9, <1>10 DEF Create, End
<1> QED
  BY <1>3, <1>4, <1>5, <1>6, <1>7, <1>8, <1>9, <1>10
     DEF GuardianNext, ThreadStep, guardianVars

(* Every cached approval is right about the calls in its key, with any     *)
(* number of threads sharing sessions, racing for the cache, and reading a *)
(* threshold that changes under them (generate_cache_key, validate), as    *)
(* long as no two questions have the same key.                             *)
THEOREM CacheCorrect ==
  ASSUME KeysDistinct PROVE GuardianSpec => []CacheSound
<1>1. GuardianInit => CacheInv
  BY VerdictsSoundInit DEF GuardianInit, CacheInv
<1>2. GuardianTypeOK /\ CacheInv /\ [GuardianNext]_guardianVars => CacheInv'
  BY CacheNext
<1>3. CacheInv => CacheSound
  BY CacheInvIs
<1> QED
  BY <1>1, <1>2, <1>3, TypeCorrect, PTL DEF GuardianSpec

-----------------------------------------------------------------------------
(* The histories, when each client makes one call at a time in a session   *)

(* Whatever a thread is told about its session, it is about a session that *)
(* existed; only execute_tool gets as far as recording; and no two calls   *)
(* of execute_tool are in the same session.  SnapshotsCurrent needs that   *)
(* to be inductive.                                                        *)
OneCallInv ==
  /\ \A th \in Thread : pc[th] # "idle" => request[th].session \in allocated
  /\ \A th \in Thread : pc[th] = "append" => request[th].op = "execute"
  /\ \A th, other \in Thread, s \in Session :
       Executing(th, s) /\ Executing(other, s) => th = other

CopyInv == OneCallInv /\ SnapshotsCurrent

Deciding == {"lookup", "examine", "decide", "store", "done", "append"}

LEMMA ExecutingIs ==
  ASSUME GuardianTypeOK, NEW th \in Thread, NEW s
  PROVE  Executing(th, s) <=> /\ pc[th] # "idle"
                              /\ request[th].op = "execute"
                              /\ request[th].session = s
BY DEF GuardianTypeOK, Executing

(* A step that leaves the sessions alone, and in which thread th neither   *)
(* starts deciding nor changes its copy, disturbs none of it.              *)
LEMMA SameSessions ==
  ASSUME GuardianTypeOK, CopyInv, NEW th \in Thread,
         UNCHANGED sessionVars,
         \A other \in Thread \ {th} :
           /\ pc'[other] = pc[other]
           /\ job'[other] = job[other]
           /\ request'[other] = request[other],
         request'[th] = request[th] \/ pc'[th] = "idle",
         pc'[th] # "idle" => pc[th] # "idle",
         pc'[th] = "append" => request[th].op = "execute",
         pc'[th] \in Deciding =>
           \/ pc[th] \in Deciding /\ job'[th].seq = job[th].seq
           \/ job'[th].seq = SequenceOf(request[th].session)
  PROVE  CopyInv'
<1> USE DEF CopyInv, sessionVars
<1>1. OneCallInv'
  <2>1. \A other \in Thread :
          pc'[other] # "idle" => request'[other] = request[other] /\ pc[other] # "idle"
    OBVIOUS
  <2> QED
    BY <2>1 DEF OneCallInv, Executing
<1>2. SnapshotsCurrent'
  <2> SUFFICES ASSUME NEW other \in Thread,
                      Executing(other, request[other].session)',
                      (request[other].session \in DOMAIN sessions)',
                      pc'[other] \in Deciding
               PROVE  job'[other].seq = Recorded(request[other].session)'
    BY DEF SnapshotsCurrent, Deciding
  <2>1. /\ pc'[other] # "idle" /\ request'[other] = request[other]
        /\ pc[other] # "idle"
    BY DEF Executing
  <2>2. Executing(other, request[other].session)
    BY <2>1 DEF Executing
  <2>3. CASE pc[other] \in Deciding /\ job'[other].seq = job[other].seq
    BY <2>1, <2>2, <2>3 DEF SnapshotsCurrent, Deciding, Recorded
  <2>4. CASE job'[other].seq = SequenceOf(request[other].session)
    BY <2>1, <2>4, NeverExpired DEF SequenceOf, Recorded
  <2> QED
    BY <2>3, <2>4
<1> QED
  BY <1>1, <1>2

(* A call of another session is recorded, or none: the copies stand.       *)
LEMMA CopyRecord ==
  ASSUME GuardianTypeOK, CopyInv, NEW th \in Thread, Record(th)
  PROVE  CopyInv'
<1> DEFINE s == request[th].session
           t == job[th].tool
<1>1. /\ pc[th] = "append" /\ pc'[th] = "idle" /\ request'[th] = NoRequest
      /\ \A other \in Thread \ {th} :
           /\ pc'[other] = pc[other]
           /\ job'[other] = job[other]
           /\ request'[other] = request[other]
  BY DEF Record, Leave, Return, Goto, GuardianTypeOK, ValidatorTypeOK
<1>2. CASE UNCHANGED sessionVars
  BY <1>1, <1>2, SameSessions, Zenon DEF Deciding
<1>3. CASE AppendToolCall(s, t)
  <2>1. /\ s \in DOMAIN sessions /\ allocated' = allocated
        /\ DOMAIN sessions' = DOMAIN sessions
        /\ \A i \in DOMAIN sessions \ {s} : sessions'[i] = sessions[i]
    BY <1>3, NeverExpired DEF AppendToolCall
  <2>2. s \in Session
    BY <2>1 DEF GuardianTypeOK, SessionTypeOK
  <2>3. Executing(th, s)
    BY <1>1, ExecutingIs DEF CopyInv, OneCallInv
  <2>4. \A other \in Thread :
          pc'[other] # "idle" =>
            /\ other # th
            /\ pc[other] = pc'[other]
            /\ job'[other] = job[other]
            /\ request'[other] = request[other]
    BY <1>1
  <2>5. OneCallInv'
    BY <2>1, <2>4 DEF CopyInv, OneCallInv, Executing
  <2>6. SnapshotsCurrent'
    <3> SUFFICES ASSUME NEW other \in Thread,
                        Executing(other, request[other].session)',
                        (request[other].session \in DOMAIN sessions)',
                        pc'[other] \in Deciding
                 PROVE  job'[other].seq = Recorded(request[other].session)'
      BY DEF SnapshotsCurrent, Deciding
    <3>1. /\ other # th
          /\ pc[other] = pc'[other]
          /\ job'[other] = job[other]
          /\ request'[other] = request[other]
      BY <2>4 DEF Deciding
    <3>2. Executing(other, request[other].session)
      BY <3>1 DEF Executing
    <3>3. request[other].session # s
      BY <2>2, <2>3, <3>1, <3>2 DEF CopyInv, OneCallInv
    <3>4. job[other].seq = sessions[request[other].session].seq
      BY <2>1, <3>1, <3>2
         DEF CopyInv, SnapshotsCurrent, Recorded, Deciding
    <3> QED
      BY <2>1, <3>1, <3>3, <3>4 DEF Recorded
  <2> QED
    BY <2>5, <2>6 DEF CopyInv
<1> QED
  BY <1>2, <1>3 DEF Record

LEMMA CopyNext ==
  ASSUME OneCallPerSession, GuardianTypeOK, CopyInv, [GuardianNext]_guardianVars
  PROVE  CopyInv'
<1>1. /\ pc \in [Thread -> Label]
      /\ job \in [Thread -> Job]
      /\ request \in [Thread -> [op : Operation,
                                 session : Session \cup {NoSession}]]
      /\ DOMAIN sessions \subseteq allocated /\ allocated \subseteq Session
  BY DEF GuardianTypeOK, ValidatorTypeOK, SessionTypeOK
<1>2. ASSUME NEW th \in Thread, NEW op \in Operation, NEW s \in Session,
             NEW t \in Tool, Begin(th, op, s, t)
      PROVE  CopyInv'
  <2>1. /\ UNCHANGED sessionVars
        /\ pc'[th] = "fetch" /\ request'[th] = [op |-> op, session |-> s]
        /\ \A other \in Thread \ {th} :
             /\ pc'[other] = pc[other]
             /\ job'[other] = job[other]
             /\ request'[other] = request[other]
    BY <1>1, <1>2 DEF Begin, Goto
  <2>2. s \in allocated
    BY <1>1, <1>2, NeverExpired DEF Begin
  <2>3. op = "execute" => \A other \in Thread : ~Executing(other, s)
    BY <1>2 DEF Begin
  <2>5. \A other \in Thread \ {th}, i \in Session :
          Executing(other, i)' <=> Executing(other, i)
    BY <2>1 DEF Executing
  <2>6. \A i \in Session : Executing(th, i)' => op = "execute" /\ i = s
    BY <2>1 DEF Executing
  <2>7. OneCallInv'
    <3>1. \A a, b \in Thread, i \in Session :
            Executing(a, i)' /\ Executing(b, i)' => a = b
      BY <2>3, <2>5, <2>6 DEF CopyInv, OneCallInv
    <3>2. \A other \in Thread :
            /\ pc'[other] # "idle" => request'[other].session \in allocated
            /\ pc'[other] = "append" => request'[other].op = "execute"
      BY <2>1, <2>2 DEF CopyInv, OneCallInv
    <3> QED
      BY <2>1, <3>1, <3>2 DEF OneCallInv, sessionVars
  <2>8. SnapshotsCurrent'
    <3> SUFFICES ASSUME NEW other \in Thread,
                        Executing(other, request[other].session)',
                        (request[other].session \in DOMAIN sessions)',
                        pc'[other] \in Deciding
                 PROVE  job'[other].seq = Recorded(request[other].session)'
      BY DEF SnapshotsCurrent, Deciding
    <3>1. other # th
      BY <2>1 DEF Deciding
    <3>2. Executing(other, request[other].session)
      BY <2>1, <3>1 DEF Executing
    <3> QED
      BY <2>1, <3>1, <3>2
         DEF CopyInv, SnapshotsCurrent, Recorded, sessionVars, Deciding
  <2> QED
    BY <2>7, <2>8 DEF CopyInv
<1>3. ASSUME NEW th \in Thread, Fetch(th)
      PROVE  CopyInv'
  <2>1. /\ UNCHANGED sessionVars /\ request' = request
        /\ pc[th] = "fetch" /\ pc'[th] = "lookup"
        /\ job'[th].seq = SequenceOf(request[th].session)
        /\ \A other \in Thread \ {th} :
             pc'[other] = pc[other] /\ job'[other] = job[other]
    BY <1>1, <1>3 DEF Fetch, Goto, NewJob
  <2> QED
    BY <2>1, SameSessions
<1>4. ASSUME NEW th \in Thread, Validate(th)
      PROVE  CopyInv'
  <2>1. /\ UNCHANGED sessionVars /\ request' = request
        /\ pc[th] \in Deciding /\ pc[th] # "idle"
        /\ pc'[th] \in Deciding /\ pc'[th] # "append"
        /\ job'[th].seq = job[th].seq
        /\ \A other \in Thread \ {th} :
             pc'[other] = pc[other] /\ job'[other] = job[other]
    BY <1>1, <1>4
       DEF Validate, ValidateStep, Lookup, Examine, Decide, Store, Goto,
           Answer, Job, Deciding
  <2> QED
    BY <2>1, SameSessions
<1>5. ASSUME NEW th \in Thread, Answered(th)
      PROVE  CopyInv'
  <2>1. /\ UNCHANGED sessionVars
        /\ pc'[th] = "idle"
        /\ \A other \in Thread \ {th} :
             /\ pc'[other] = pc[other]
             /\ job'[other] = job[other]
             /\ request'[other] = request[other]
    BY <1>1, <1>5 DEF Answered, Leave, Return, Goto
  <2> QED
    BY <2>1, SameSessions, Zenon DEF Deciding
<1>6. ASSUME NEW th \in Thread, Run(th)
      PROVE  CopyInv'
  <2>1. /\ UNCHANGED sessionVars /\ request' = request /\ job' = job
        /\ pc[th] = "done" /\ pc'[th] = "append"
        /\ request[th].op = "execute"
        /\ \A other \in Thread \ {th} : pc'[other] = pc[other]
    BY <1>1, <1>6 DEF Run, Goto
  <2>2. pc[th] \in Deciding
    BY <2>1 DEF Deciding
  <2> QED
    BY <2>1, <2>2, SameSessions
<1>7. ASSUME NEW th \in Thread, Record(th)
      PROVE  CopyInv'
  BY <1>7, CopyRecord
<1>8. ASSUME UNCHANGED <<pc, job, request>>, allocated \subseteq allocated',
             \A i \in DOMAIN sessions' :
               \/ i \in DOMAIN sessions /\ sessions'[i] = sessions[i]
               \/ i \notin allocated /\ sessions'[i].seq = <<>>
      PROVE  CopyInv'
  <2>2. OneCallInv'
    BY <1>8 DEF CopyInv, OneCallInv, Executing
  <2>3. SnapshotsCurrent'
    BY <1>8
       DEF CopyInv, OneCallInv, SnapshotsCurrent, Recorded, Executing
  <2> QED
    BY <2>2, <2>3 DEF CopyInv
<1>9. ASSUME NEW s \in Session, Create(s)
      PROVE  CopyInv'
  <2>1. /\ s \notin allocated /\ allocated' = allocated \cup {s}
        /\ sessions' = [i \in DOMAIN sessions \cup {s} |->
                          IF i = s THEN [seq |-> <<>>, last_activity |-> clock]
                                   ELSE sessions[i]]
        /\ UNCHANGED <<pc, job, request>>
    BY <1>9, NeverExpired DEF Create, CreateSession
  <2> QED
    BY <1>1, <1>8, <2>1
<1>10. ASSUME NEW s \in Session, End(s)
       PROVE  CopyInv'
  BY <1>8, <1>10 DEF End, EndSession
<1>11. ASSUME NEW n \in Thresholds, UpdateConfig(n)
       PROVE  CopyInv'
  BY <1>8, <1>11 DEF UpdateConfig, SetCycleThreshold, sessionVars
<1>12. CASE UNCHANGED guardianVars
  BY <1>8, <1>12 DEF guardianVars
<1> QED
  BY <1>2, <1>3, <1>4, <1>5, <1>6, <1>7, <1>9, <1>10, <1>11, <1>12
     DEF GuardianNext, ThreadStep

LEMMA CopyInit == GuardianInit => CopyInv
BY DEF GuardianInit, ValidatorInit, SessionInit, CopyInv, OneCallInv,
       SnapshotsCurrent, Executing

LEMMA CopyAlways ==
  ASSUME OneCallPerSession
  PROVE  GuardianSpec => [](GuardianTypeOK /\ CopyInv)
<1>1. GuardianTypeOK /\ CopyInv /\ [GuardianNext]_guardianVars
        => (GuardianTypeOK /\ CopyInv)'
  BY TypeNext, CopyNext
<1> QED
  BY <1>1, TypeInit, CopyInit, PTL DEF GuardianSpec

(* A call is validated against the very history it is recorded in, if the  *)
(* clients make one call at a time in a session (execute_tool).            *)
THEOREM SnapshotsStayCurrent ==
  ASSUME OneCallPerSession
  PROVE  GuardianSpec => []SnapshotsCurrent
<1>1. CopyInv => SnapshotsCurrent
  BY DEF CopyInv
<1> QED
  BY <1>1, CopyAlways, PTL

(* RecordedPermitted alone is not inductive: that the call a thread is     *)
(* about to record is permitted by the history it will be appended to      *)
(* takes the thread's copy to be that history, and the approval it carries *)
(* to be about the copy.                                                   *)
HistoryInv == GuardianTypeOK /\ CopyInv /\ CacheInv

(* Recording a call the history permits keeps every call of it permitted.  *)
LEMMA AppendPermitted ==
  ASSUME NEW h \in Seq(Tool), NEW t \in Tool,
         \A i \in 1 .. Len(h) : Permitted(Context(SubSeq(h, 1, i - 1)), h[i]),
         Permitted(Context(h), t),
         NEW i \in 1 .. Len(Append(h, t))
  PROVE  Permitted(Context(SubSeq(Append(h, t), 1, i - 1)), Append(h, t)[i])
BY BeforeCall

(* The step that matters: an approved call meets the history it was        *)
(* approved for.                                                           *)
LEMMA RecordMeetsHistory ==
  ASSUME KeysDistinct, HistoryInv, RecordedPermitted,
         NEW th \in Thread, Record(th)
  PROVE  RecordedPermitted'
<1> DEFINE s == request[th].session
           t == job[th].tool
           h == sessions[s].seq
<1> USE DEF HistoryInv
<1>1. pc[th] = "append"
  BY DEF Record
<1>2. CASE UNCHANGED sessionVars
  BY <1>2 DEF sessionVars, RecordedPermitted, Recorded, Permitted, SteadyThreshold
<1>3. CASE AppendToolCall(s, t)
  <2>1. /\ s \in DOMAIN sessions
        /\ DOMAIN sessions' = DOMAIN sessions
        /\ \A i \in DOMAIN sessions \ {s} : sessions'[i] = sessions[i]
        /\ sessions'[s].seq = Append(h, t)
    BY <1>3, NeverExpired DEF AppendToolCall
  <2>2. h \in Seq(Tool) /\ t \in Tool
    BY <2>1, KeyType, Constants DEF GuardianTypeOK, SessionTypeOK, SessionRecord
  <2>3. Executing(th, s)
    BY <1>1, ExecutingIs DEF CopyInv, OneCallInv
  <2>4. job[th].seq = h
    BY <1>1, <2>1, <2>3 DEF CopyInv, SnapshotsCurrent, Recorded
  <2>5. Permitted(Context(h), t)
    BY <1>1, <2>4, CacheInvIs
  <2> SUFFICES ASSUME NEW i \in DOMAIN sessions
               PROVE  \A j \in 1 .. Len(sessions'[i].seq) :
                        Permitted(Context(SubSeq(sessions'[i].seq, 1, j - 1)),
                                  sessions'[i].seq[j])
    BY <2>1 DEF RecordedPermitted, Recorded, Permitted, SteadyThreshold
  <2>6. \A j \in 1 .. Len(sessions[i].seq) :
          Permitted(Context(SubSeq(sessions[i].seq, 1, j - 1)), sessions[i].seq[j])
    BY DEF RecordedPermitted, Recorded
  <2>7. CASE i = s
    BY <2>1, <2>2, <2>5, <2>6, <2>7, AppendPermitted
  <2>8. CASE i # s
    BY <2>1, <2>6, <2>8
  <2> QED
    BY <2>7, <2>8
<1> QED
  BY <1>2, <1>3 DEF Record

LEMMA RecordedNext ==
  ASSUME KeysDistinct, HistoryInv, RecordedPermitted, [GuardianNext]_guardianVars
  PROVE  RecordedPermitted'
<1>1. ASSUME \A i \in DOMAIN sessions' :
               \/ i \in DOMAIN sessions /\ sessions'[i] = sessions[i]
               \/ sessions'[i].seq = <<>>
      PROVE  RecordedPermitted'
  <2> SUFFICES ASSUME NEW i \in DOMAIN sessions'
               PROVE  \A j \in 1 .. Len(sessions'[i].seq) :
                        Permitted(Context(SubSeq(sessions'[i].seq, 1, j - 1)),
                                  sessions'[i].seq[j])
    BY DEF RecordedPermitted, Recorded, Permitted, SteadyThreshold
  <2>1. CASE i \in DOMAIN sessions /\ sessions'[i] = sessions[i]
    BY <2>1 DEF RecordedPermitted, Recorded
  <2>2. CASE sessions'[i].seq = <<>>
    BY <2>2
  <2> QED
    BY <1>1, <2>1, <2>2
<1>2. CASE UNCHANGED sessionVars
  BY <1>1, <1>2 DEF sessionVars
<1>3. ASSUME NEW s \in Session, Create(s)
      PROVE  RecordedPermitted'
  <2>1. sessions' = [i \in DOMAIN sessions \cup {s} |->
                       IF i = s THEN [seq |-> <<>>, last_activity |-> clock]
                                ELSE sessions[i]]
    BY <1>3, NeverExpired DEF Create, CreateSession
  <2> QED
    BY <1>1, <2>1
<1>4. ASSUME NEW s \in Session, End(s)
      PROVE  RecordedPermitted'
  BY <1>1, <1>4 DEF End, EndSession
<1>5. ASSUME NEW th \in Thread, Record(th)
      PROVE  RecordedPermitted'
  BY <1>5, RecordMeetsHistory
<1>6. ASSUME NEW th \in Thread,
             Fetch(th) \/ Validate(th) \/ Answered(th) \/ Run(th)
      PROVE  UNCHANGED sessionVars
  BY <1>6 DEF Fetch, Validate, Answered, Run
<1>7. ASSUME NEW th \in Thread, NEW op \in Operation, NEW s \in Session,
             NEW t \in Tool, Begin(th, op, s, t)
      PROVE  UNCHANGED sessionVars
  BY <1>7 DEF Begin
<1>8. ASSUME NEW n \in Thresholds, UpdateConfig(n)
      PROVE  UNCHANGED sessionVars
  BY <1>8 DEF UpdateConfig
<1>9. UNCHANGED guardianVars => UNCHANGED sessionVars
  BY DEF guardianVars, sessionVars
<1> QED
  BY <1>2, <1>3, <1>4, <1>5, <1>6, <1>7, <1>8, <1>9 DEF GuardianNext, ThreadStep

(* The inductive invariant as a whole *)
LEMMA HistoryAlways ==
  ASSUME OneCallPerSession, KeysDistinct
  PROVE  GuardianSpec => [](HistoryInv /\ RecordedPermitted)
<1>1. GuardianInit => CacheInv /\ RecordedPermitted
  BY VerdictsSoundInit DEF GuardianInit, SessionInit, CacheInv, RecordedPermitted
<1>2. HistoryInv /\ RecordedPermitted /\ [GuardianNext]_guardianVars
        => (HistoryInv /\ RecordedPermitted)'
  BY TypeNext, CacheNext, CopyNext, RecordedNext DEF HistoryInv
<1>3. GuardianInit => HistoryInv
  BY <1>1, TypeInit, CopyInit DEF HistoryInv
<1> QED
  BY <1>1, <1>2, <1>3, PTL DEF GuardianSpec

(* Whatever the cache answers, and from whichever session it learnt it,    *)
(* every recorded call is permitted after the ContextLength calls before   *)
(* (validate, append_tool_call), if no two questions have the same key.    *)
THEOREM RecordedCorrect ==
  ASSUME OneCallPerSession, KeysDistinct
  PROVE  GuardianSpec => []RecordedPermitted
BY HistoryAlways, PTL

-----------------------------------------------------------------------------
(* What the recorded histories look like, and the abstract guard           *)

(* The context of the calls before call j reaches back over the m calls    *)
(* before it, as long as m is at most ContextLength.                       *)
LEMMA ContextReaches ==
  ASSUME NEW h \in Seq(Tool), NEW j \in 1 .. Len(h), NEW m \in Nat,
         m <= ContextLength, m < j
  PROVE  /\ Context(SubSeq(h, 1, j - 1)) \in Seq(Tool)
         /\ \E d \in Nat :
              /\ Len(Context(SubSeq(h, 1, j - 1))) + d = j - 1
              /\ d + m < j
              /\ \A i \in 1 .. Len(Context(SubSeq(h, 1, j - 1))) :
                   Context(SubSeq(h, 1, j - 1))[i] = h[i + d]
<1> DEFINE g == SubSeq(h, 1, j - 1)
<1>1. /\ g \in Seq(Tool)
      /\ Len(g) = j - 1
      /\ \A i \in 1 .. j - 1 : g[i] = h[i]
  <2>1. j - 1 \in Nat /\ Len(h) \in Nat /\ j - 1 <= Len(h) /\ j - 1 \in Int
    OBVIOUS
  <2>2. \A i \in 1 .. j - 1 : h[i] \in Tool
    BY <2>1
  <2>3. /\ g \in Seq(Tool)
        /\ Len(g) = IF 1 <= j - 1 THEN j - 1 - 1 + 1 ELSE 0
        /\ \A i \in 1 .. j - 1 - 1 + 1 : g[i] = h[1 + i - 1]
    BY <2>1, <2>2, SubSeqProperties
  <2> HIDE DEF g
  <2> QED
    BY <2>1, <2>3
<1> HIDE DEF g
<1>2. /\ Context(g) \in Seq(Tool)
      /\ \E d \in Nat :
           /\ Len(g) = Len(Context(g)) + d
           /\ d > 0 => Len(Context(g)) = ContextLength
           /\ \A i \in 1 .. Len(Context(g)) : Context(g)[i] = g[i + d]
  BY <1>1, ContextIsSuffix
<1>3. PICK d \in Nat :
        /\ Len(g) = Len(Context(g)) + d
        /\ d > 0 => Len(Context(g)) = ContextLength
        /\ \A i \in 1 .. Len(Context(g)) : Context(g)[i] = g[i + d]
  BY <1>2
<1>4. Len(Context(g)) \in Nat /\ ContextLength \in Nat
  BY <1>2, ContextAssumption
<1>5. d + m < j /\ Len(Context(g)) + d = j - 1
  BY <1>1, <1>3, <1>4
<1>6. ASSUME NEW i \in 1 .. Len(Context(g))
      PROVE  Context(g)[i] = h[i + d]
  <2>1. i + d \in 1 .. j - 1
    BY <1>4, <1>5
  <2> QED
    BY <1>1, <1>3, <2>1
<1> QED
  BY <1>2, <1>5, <1>6 DEF g

LEMMA RecordedIsSeq ==
  ASSUME GuardianTypeOK, NEW s \in DOMAIN sessions
  PROVE  Recorded(s) \in Seq(Tool)
BY Constants DEF GuardianTypeOK, SessionTypeOK, SessionRecord, Recorded

(* README: "Calls that don't follow the graph are blocked at runtime":     *)
(* every history is a path of the graph, if no two calls are in a session  *)
(* at once and no two questions have the same key.                         *)
THEOREM PathsCorrect ==
  ASSUME OneCallPerSession, KeysDistinct
  PROVE  GuardianSpec => []PathsFollowEdges
<1>1. ASSUME GuardianTypeOK, RecordedPermitted
      PROVE  PathsFollowEdges
  <2> SUFFICES ASSUME NEW s \in DOMAIN sessions,
                      NEW i \in 1 .. Len(Recorded(s))
               PROVE  /\ IsKnown(Recorded(s)[i])
                      /\ i > 1 => HasEdge(NodeOf[Recorded(s)[i - 1]],
                                          NodeOf[Recorded(s)[i]])
    BY DEF PathsFollowEdges
  <2> DEFINE h == Recorded(s)
             g == SubSeq(h, 1, i - 1)
  <2>1. h \in Seq(Tool)
    BY <1>1, RecordedIsSeq
  <2>2. \A j \in 1 .. Len(h) : Allowed(Context(SubSeq(h, 1, j - 1)), h[j])
    BY <1>1 DEF RecordedPermitted, Permitted
  <2> HIDE DEF h
  <2>3. \A j \in 1 .. Len(h) : IsKnown(h[j])
    BY <2>2 DEF Allowed
  <2>4. ASSUME i > 1
        PROVE  HasEdge(NodeOf[h[i - 1]], NodeOf[h[i]])
    <3>1. i \in 1 .. Len(h) /\ h[i] \in Tool
      BY <2>1 DEF h
    <3> DEFINE one == 1
    <3>0. one \in Nat /\ one <= ContextLength /\ one < i
      BY <2>4, ContextAssumption
    <3> HIDE DEF one
    <3>2. PICK d \in Nat :
            /\ Len(Context(g)) + d = i - 1
            /\ d + one < i
            /\ \A k \in 1 .. Len(Context(g)) : Context(g)[k] = h[k + d]
      BY <2>1, <3>0, <3>1, ContextReaches
    <3>3. Context(g) \in Seq(Tool)
      BY <2>1, <3>0, <3>1, ContextReaches
    <3>4. Len(Context(g)) \in 1 .. Len(Context(g)) /\ Context(g) # <<>>
      BY <3>2, <3>3 DEF one
    <3>5. Context(g)[Len(Context(g))] = h[i - 1]
      BY <3>2, <3>4
    <3>6. EdgeAllows(Context(g), h[i])
      BY <2>2, <3>1 DEF Allowed
    <3>7. IsKnown(h[i - 1])
      BY <2>1, <2>3, <2>4, <3>1
    <3> QED
      BY <3>4, <3>5, <3>6, <3>7 DEF EdgeAllows
  <2> QED
    BY <2>3, <2>4 DEF h
<1> QED
  BY <1>1, TypeCorrect, RecordedCorrect, PTL

(* Within ContextLength calls of a sensitive source, an external           *)
(* destination is reached only past a data processor, if no two calls are  *)
(* in a session at once and no two questions have the same key.            *)
THEOREM NearExfiltrationBlocked ==
  ASSUME OneCallPerSession, KeysDistinct
  PROVE  GuardianSpec => []NoNearExfiltration
<1>1. ASSUME GuardianTypeOK, RecordedPermitted
      PROVE  NoNearExfiltration
  <2> SUFFICES ASSUME NEW s \in DOMAIN sessions,
                      NEW i \in 1 .. Len(Recorded(s)),
                      NEW j \in 1 .. Len(Recorded(s)),
                      i < j, j <= i + ContextLength,
                      HasType(Recorded(s)[i], "SENSITIVE_SOURCE"),
                      HasType(Recorded(s)[j], "EXTERNAL_DESTINATION")
               PROVE  \E k \in i + 1 .. j - 1 :
                        HasType(Recorded(s)[k], "DATA_PROCESSOR")
    BY DEF NoNearExfiltration
  <2> DEFINE h == Recorded(s)
             c == Context(SubSeq(h, 1, j - 1))
             g == Append(c, h[j])
  <2>1. h \in Seq(Tool)
    BY <1>1, RecordedIsSeq
  <2>2. ~Exfiltrates(g)
    BY <1>1 DEF RecordedPermitted, Permitted, Allowed
  <2>3. /\ i \in 1 .. Len(h) /\ j \in 1 .. Len(h) /\ h[j] \in Tool
        /\ HasType(h[i], "SENSITIVE_SOURCE")
        /\ HasType(h[j], "EXTERNAL_DESTINATION")
    BY <2>1
  <2> HIDE DEF h
  <2>4. j - i \in Nat /\ j - i <= ContextLength /\ j - i < j
    BY <2>1, <2>3, ContextAssumption
  <2>5. c \in Seq(Tool)
    BY <2>1, <2>3, <2>4, ContextReaches
  <2>6. PICK d \in Nat :
          /\ Len(c) + d = j - 1
          /\ d + (j - i) < j
          /\ \A k \in 1 .. Len(c) : c[k] = h[k + d]
    BY <2>1, <2>3, <2>4, ContextReaches
  <2> HIDE DEF c
  <2>7. /\ Len(g) = Len(c) + 1
        /\ Len(c) \in Nat
        /\ \A k \in 1 .. Len(c) : g[k] = c[k]
        /\ g[Len(c) + 1] = h[j]
    BY <2>3, <2>5, AppendProperties
  <2> HIDE DEF g
  <2>8. /\ i - d \in 1 .. Len(c) /\ i - d < Len(c) + 1
        /\ HasType(g[i - d], "SENSITIVE_SOURCE")
        /\ HasType(g[Len(c) + 1], "EXTERNAL_DESTINATION")
    <3>1. i - d \in 1 .. Len(c) /\ i - d + d = i
      BY <2>3, <2>6, <2>7
    <3> QED
      BY <2>3, <2>6, <2>7, <3>1
  <2>9. i - d \in 1 .. Len(g) /\ Len(c) + 1 \in 1 .. Len(g)
    BY <2>7, <2>8
  <2>10. PICK k \in 1 .. Len(g) :
           i - d < k /\ k < Len(c) + 1 /\ HasType(g[k], "DATA_PROCESSOR")
    BY <2>2, <2>8, <2>9 DEF Exfiltrates
  <2>11. k \in 1 .. Len(c) /\ g[k] = h[k + d]
    <3>1. k \in 1 .. Len(c)
      BY <2>7, <2>10
    <3> QED
      BY <2>6, <2>7, <3>1
  <2>12. k + d \in i + 1 .. j - 1
    BY <2>3, <2>6, <2>7, <2>8, <2>10
  <2> QED
    BY <2>10, <2>11, <2>12 DEF h
<1> QED
  BY <1>1, TypeCorrect, RecordedCorrect, PTL

(* With a steady threshold n of at most ContextLength, no tool is recorded *)
(* more than n times in a row, if no two calls are in a session at once    *)
(* and no two questions have the same key.                                 *)
THEOREM RepetitionsBlocked ==
  ASSUME OneCallPerSession, KeysDistinct
  PROVE  GuardianSpec => []RunsBounded
<1>1. ASSUME GuardianTypeOK, RecordedPermitted
      PROVE  RunsBounded
  <2> SUFFICES ASSUME NEW n \in Thresholds, SteadyThreshold,
                      n <= ContextLength,
                      NEW s \in DOMAIN sessions,
                      NEW i \in 1 .. Len(Recorded(s)) - n,
                      \A j \in i .. i + n : Recorded(s)[j] = Recorded(s)[i]
               PROVE  FALSE
    BY DEF RunsBounded, RunsShorterThan
  <2> DEFINE h == Recorded(s)
  <2>1. h \in Seq(Tool) /\ n \in Nat /\ ContextLength \in Nat
    BY <1>1, RecordedIsSeq, Constants, ContextAssumption
  <2>2. PICK j \in 1 .. Len(h) : j = i + n
    BY <2>1
  <2> DEFINE c == Context(SubSeq(h, 1, j - 1))
  <2>3. Occurrences(c, h[j]) < n
    <3>1. Permitted(c, h[j])
      BY <1>1 DEF RecordedPermitted
    <3> QED
      BY <3>1 DEF Permitted
  <2>4. i \in Nat /\ \A k \in i .. j : h[k] = h[j]
    BY <2>1, <2>2
  <2>5. n < j /\ n <= ContextLength
    BY <2>1, <2>2
  <2> HIDE DEF h
  <2>6. c \in Seq(Tool)
    BY <2>1, <2>5, ContextReaches
  <2>7. PICK d \in Nat :
          /\ Len(c) + d = j - 1
          /\ d + n < j
          /\ \A k \in 1 .. Len(c) : c[k] = h[k + d]
    BY <2>1, <2>5, ContextReaches
  <2> HIDE DEF c
  <2> DEFINE where == {k \in 1 .. Len(c) : c[k] = h[j]}
             first == i - d
             last == j - 1 - d
  <2>8. /\ Len(c) \in Nat
        /\ first \in Int /\ last \in Int
        /\ first >= 1 /\ last = Len(c) /\ last - first + 1 = n
    BY <2>1, <2>2, <2>4, <2>6, <2>7
  <2>9. ASSUME NEW k \in first .. last
        PROVE  k \in where
    <3>1. k \in 1 .. Len(c) /\ k + d \in i .. j
      BY <2>1, <2>2, <2>4, <2>7, <2>8
    <3> QED
      BY <2>4, <2>7, <3>1
  <2> HIDE DEF first, last
  <2>10. first .. last \in SUBSET where
    BY <2>9
  <2>11. IsFiniteSet(1 .. Len(c)) /\ where \in SUBSET (1 .. Len(c))
    BY <2>8, FS_Interval
  <2>12. IsFiniteSet(where)
    BY <2>11, FS_Subset
  <2>13. Cardinality(first .. last) <= Cardinality(where)
    BY <2>10, <2>12, FS_Subset
  <2>14. Cardinality(first .. last) = n
    <3>1. Cardinality(first .. last) =
            IF first > last THEN 0 ELSE last - first + 1
      BY <2>8, FS_Interval
    <3> QED
      BY <2>1, <2>8, <3>1
  <2>15. Occurrences(c, h[j]) = Cardinality(where)
    BY DEF Occurrences
  <2>16. Cardinality(where) \in Nat
    BY <2>12, FS_CardinalityType
  <2> HIDE DEF where
  <2> QED
    BY <2>1, <2>3, <2>13, <2>14, <2>15, <2>16
<1> QED
  BY <1>1, TypeCorrect, RecordedCorrect, PTL

(* A Guardian implements the guard that decides each call in one step.     *)
LEMMA WindowPermits ==
  ASSUME NEW h, NEW t
  PROVE  Window!Permits(Window!Context(h), t) <=> Permitted(Context(h), t)
<1>1. Window!Context(h) = Context(h)
  BY DEF Window!Context, Context
<1>2. \A x : Window!IsKnown(x) <=> IsKnown(x)
  BY DEF Window!IsKnown, IsKnown
<1>3. \A x, type : Window!HasType(x, type) <=> HasType(x, type)
  BY <1>2 DEF Window!HasType, HasType
<1>4. \A g : Window!Exfiltrates(g) <=> Exfiltrates(g)
  BY <1>3 DEF Window!Exfiltrates, Exfiltrates
<1>5. \A g : Window!EdgeAllows(g, t) <=> EdgeAllows(g, t)
  BY <1>2 DEF Window!EdgeAllows, EdgeAllows, Window!HasEdge, HasEdge
<1>6. \A g : Window!Allowed(g, t) <=> Allowed(g, t)
  BY <1>2, <1>4, <1>5 DEF Window!Allowed, Allowed
<1>7. \A g : Window!Occurrences(g, t) = Occurrences(g, t)
  BY DEF Window!Occurrences, Occurrences, Window!Cardinality, Cardinality
<1> HIDE DEF Context
<1> QED
  BY <1>1, <1>6, <1>7 DEF Window!Permits, Permitted, SteadyThreshold

(* The histories a client sees, as the abstract guard keeps them *)
Seen == [s \in DOMAIN sessions |-> Recorded(s)]

LEMMA WindowStep ==
  ASSUME KeysDistinct, HistoryInv, [GuardianNext]_guardianVars
  PROVE  Window!Next \/ UNCHANGED <<Seen, allocated>>
<1> USE DEF HistoryInv
<1>1. ASSUME UNCHANGED sessionVars
      PROVE  UNCHANGED <<Seen, allocated>>
  BY <1>1 DEF sessionVars, Seen, Recorded
<1>2. ASSUME NEW s \in Session, Create(s)
      PROVE  Window!Open(s)
  <2>1. /\ s \notin allocated /\ allocated' = allocated \cup {s}
        /\ sessions' = [i \in DOMAIN sessions \cup {s} |->
                          IF i = s THEN [seq |-> <<>>, last_activity |-> clock]
                                   ELSE sessions[i]]
    BY <1>2, NeverExpired DEF Create, CreateSession
  <2>2. Seen' = [i \in DOMAIN sessions \cup {s} |->
                   IF i = s THEN <<>> ELSE sessions[i].seq]
    BY <2>1 DEF Seen, Recorded
  <2>3. Seen' = [i \in DOMAIN Seen \cup {s} |->
                   IF i = s THEN <<>> ELSE Seen[i]]
    <3>1. DOMAIN Seen = DOMAIN sessions
          /\ \A i \in DOMAIN sessions : Seen[i] = sessions[i].seq
      BY DEF Seen, Recorded
    <3> HIDE DEF Seen
    <3>2. \A i \in DOMAIN Seen \cup {s} :
            (IF i = s THEN <<>> ELSE sessions[i].seq) =
            (IF i = s THEN <<>> ELSE Seen[i])
      BY <3>1
    <3> QED
      BY <2>2, <3>1, <3>2
  <2> QED
    BY <2>1, <2>3 DEF Window!Open, Seen
<1>3. ASSUME NEW s \in Session, End(s)
      PROVE  Window!Close(s)
  BY <1>3 DEF End, EndSession, Window!Close, Recorded
<1>4. ASSUME NEW th \in Thread, Record(th)
      PROVE  \/ UNCHANGED sessionVars
             \/ \E s \in Session, t \in Tool : Window!Record(s, t)
  <2> DEFINE s == request[th].session
             t == job[th].tool
  <2>1. CASE AppendToolCall(s, t)
    <3>1. /\ s \in DOMAIN sessions /\ allocated' = allocated
          /\ DOMAIN sessions' = DOMAIN sessions
          /\ \A i \in DOMAIN sessions \ {s} : sessions'[i] = sessions[i]
          /\ sessions'[s].seq = Append(sessions[s].seq, t)
      BY <2>1, NeverExpired DEF AppendToolCall
    <3>2. s \in Session /\ t \in Tool
      BY <3>1, KeyType DEF GuardianTypeOK, SessionTypeOK
    <3>3. pc[th] = "append" /\ Executing(th, s)
      BY <1>4, ExecutingIs DEF Record, CopyInv, OneCallInv
    <3>4. job[th].seq = Recorded(s)
      BY <3>1, <3>3 DEF CopyInv, SnapshotsCurrent
    <3>5. Permitted(Context(Recorded(s)), t)
      BY <3>3, <3>4, CacheInvIs
    <3>6. Window!Permits(Window!Context(Seen[s]), t)
      BY <3>1, <3>5, WindowPermits DEF Seen
    <3>7. s \in DOMAIN Seen /\ Seen' = [Seen EXCEPT ![s] = Append(Seen[s], t)]
      BY <3>1 DEF Seen, Recorded
    <3>8. Window!Record(s, t)
      BY <3>1, <3>6, <3>7 DEF Window!Record, Seen
    <3> QED
      BY <3>2, <3>8
  <2>2. CASE UNCHANGED sessionVars
    BY <2>2
  <2> QED
    BY <1>4, <2>1, <2>2 DEF Record
<1>5. ASSUME NEW th \in Thread,
             Fetch(th) \/ Validate(th) \/ Answered(th) \/ Run(th)
      PROVE  UNCHANGED sessionVars
  BY <1>5 DEF Fetch, Validate, Answered, Run
<1>6. ASSUME NEW th \in Thread, NEW op \in Operation, NEW s \in Session,
             NEW t \in Tool, Begin(th, op, s, t)
      PROVE  UNCHANGED sessionVars
  BY <1>6 DEF Begin
<1>7. ASSUME NEW n \in Thresholds, UpdateConfig(n)
      PROVE  UNCHANGED sessionVars
  BY <1>7 DEF UpdateConfig
<1>8. UNCHANGED guardianVars => UNCHANGED sessionVars
  BY DEF guardianVars, sessionVars
<1> QED
  BY <1>1, <1>2, <1>3, <1>4, <1>5, <1>6, <1>7, <1>8
     DEF GuardianNext, ThreadStep, Window!Next

(* Used one call at a time per session, a Guardian with its threads, its   *)
(* copies of histories and its forgetful cache implements WindowGuard:     *)
(* each recorded call is one decision on the last calls of the history, as *)
(* long as no two questions have the same key.                             *)
THEOREM GuardianImplementsWindowGuard ==
  ASSUME OneCallPerSession, KeysDistinct
  PROVE  GuardianSpec => ImplementsWindowGuard
<1>1. GuardianInit => Window!Init
  BY DEF GuardianInit, SessionInit, Window!Init, Recorded
<1>2. ASSUME HistoryInv, [GuardianNext]_guardianVars
      PROVE  [Window!Next]_Window!vars
  BY <1>2, WindowStep DEF Window!vars, Seen
<1> QED
  BY <1>1, <1>2, HistoryAlways, PTL
     DEF GuardianSpec, ImplementsWindowGuard, Window!Spec

-----------------------------------------------------------------------------
(* What ran and what is recorded, however many calls are in a session *)

(* The threads that ran tool t in session s and are about to record it     *)
Recording(s, t) ==
  {th \in Thread : Executing(th, s) /\ pc[th] = "append" /\ job[th].tool = t}

Counted(s, t) ==
  /\ IsFiniteSet(Recording(s, t))
  /\ Occurrences(ran[s], t) = Occurrences(Recorded(s), t) + Cardinality(Recording(s, t))

RunsInv ==
  /\ \A th \in Thread : pc[th] # "idle" => request[th].session \in allocated
  /\ \A th \in Thread : pc[th] = "append" => request[th].op = "execute"
  /\ \A s \in Session \ DOMAIN sessions : ran[s] = <<>>
  /\ \A s \in DOMAIN sessions, t \in Loaded : Counted(s, t)

(* A step of thread th that neither runs a tool nor records one            *)
LEMMA RunsQuiet ==
  ASSUME RunsInv, NEW th \in Thread, UNCHANGED <<sessionVars, ran>>,
         pc[th] # "append", pc'[th] # "append",
         pc'[th] # "idle" => request'[th].session \in allocated,
         \A other \in Thread \ {th} :
           /\ pc'[other] = pc[other]
           /\ job'[other] = job[other]
           /\ request'[other] = request[other]
  PROVE  RunsInv'
<1>1. /\ sessions' = sessions /\ allocated' = allocated /\ ran' = ran
  BY DEF sessionVars
<1>2. \A s, t : Recording(s, t)' = Recording(s, t)
  BY DEF Recording, Executing
<1>3. \A s \in DOMAIN sessions, t \in Loaded : Counted(s, t)'
  BY <1>1, <1>2 DEF RunsInv, Counted, Recorded
<1> QED
  BY <1>1, <1>3 DEF RunsInv

(* The tool runs, and thread th is about to record the run.                *)
LEMMA RunsRun ==
  ASSUME GuardianTypeOK, RunsInv, NEW th \in Thread, Run(th)
  PROVE  RunsInv'
<1>1. PICK s, t : s = request[th].session /\ t = job[th].tool
  OBVIOUS
<1>2. /\ pc[th] = "done" /\ pc'[th] = "append" /\ request[th].op = "execute"
      /\ sessions' = sessions /\ allocated' = allocated /\ job' = job /\ request' = request
      /\ \A other \in Thread \ {th} : pc'[other] = pc[other]
      /\ s \in Session /\ t \in Tool /\ DOMAIN sessions \subseteq Session
      /\ ran \in [Session -> Seq(Tool)] /\ Loaded \subseteq Tool
  BY <1>1, KeyType, Constants
     DEF Run, Goto, sessionVars, GuardianTypeOK, ValidatorTypeOK, SessionTypeOK, RunsInv
<1>3. ran' = IF t \in Loaded /\ s \in DOMAIN sessions
             THEN [ran EXCEPT ![s] = Append(ran[s], t)] ELSE ran
  BY <1>1, NeverExpired DEF Run
<1>4. ASSUME NEW i \in DOMAIN sessions, NEW u \in Loaded
      PROVE  Counted(i, u)'
  <2>1. Counted(i, u) /\ Recorded(i)' = Recorded(i)
    BY <1>2 DEF RunsInv, Recorded
  <2>2. CASE i = s /\ u = t
    <3>1. Recording(s, t)' = Recording(s, t) \cup {th} /\ th \notin Recording(s, t)
      BY <1>1, <1>2, ExecutingIs DEF Recording, Executing, GuardianTypeOK
    <3>2. /\ IsFiniteSet(Recording(s, t)')
          /\ Cardinality(Recording(s, t)') = Cardinality(Recording(s, t)) + 1
          /\ Cardinality(Recording(s, t)) \in Nat
      BY <2>1, <2>2, <3>1, FS_AddElement, FS_CardinalityType DEF Counted
    <3>3. ran'[s] = Append(ran[s], t) /\ ran[s] \in Seq(Tool)
      BY <1>2, <1>3, <2>2
    <3>4. Occurrences(ran'[s], t) = Occurrences(ran[s], t) + 1 /\ Occurrences(ran[s], t) \in Nat
      BY <3>3, OccurrencesAppend
    <3>5. Recorded(s) \in Seq(Tool)
      BY <2>2, Constants DEF GuardianTypeOK, SessionTypeOK, SessionRecord, Recorded
    <3>6. Occurrences(Recorded(s), t) \in Nat
      BY <3>5, OccurrencesAppend
    <3> QED
      BY <2>1, <2>2, <3>2, <3>4, <3>6 DEF Counted
  <2>3. CASE ~(i = s /\ u = t)
    <3>1. Recording(i, u)' = Recording(i, u)
      <4>1. th \notin Recording(i, u) /\ th \notin Recording(i, u)'
        BY <1>1, <1>2, <2>3 DEF Recording, Executing
      <4>2. \A other \in Thread \ {th} :
              other \in Recording(i, u)' <=> other \in Recording(i, u)
        BY <1>2 DEF Recording, Executing
      <4>3. Recording(i, u) \subseteq Thread /\ Recording(i, u)' \subseteq Thread
        BY DEF Recording
      <4>4. \A x : x \in Recording(i, u)' <=> x \in Recording(i, u)
        BY <4>1, <4>2, <4>3
      <4> QED
        BY <4>4
    <3>2. Occurrences(ran'[i], u) = Occurrences(ran[i], u)
      <4>1. CASE ran'[i] = ran[i]
        BY <4>1
      <4>2. CASE i = s /\ ran'[i] = Append(ran[i], t)
        <5>1. ran[i] \in Seq(Tool) /\ t # u
          BY <1>2, <2>3, <4>2
        <5> QED
          BY <4>2, <5>1, OccurrencesAppend
      <4> QED
        BY <1>2, <1>3, <4>1, <4>2
    <3> QED
      BY <2>1, <3>1, <3>2 DEF Counted
  <2> QED
    BY <2>2, <2>3
<1> QED
  BY <1>1, <1>2, <1>3, <1>4 DEF RunsInv

(* The call is recorded, or its session was ended since.                   *)
LEMMA RunsRecord ==
  ASSUME GuardianTypeOK, RunsInv, NEW th \in Thread, Record(th)
  PROVE  RunsInv'
<1>1. PICK s, t : s = request[th].session /\ t = job[th].tool
  OBVIOUS
<1>2. /\ pc[th] = "append" /\ pc'[th] = "idle" /\ request[th].op = "execute"
      /\ allocated' = allocated /\ ran' = ran
      /\ \A other \in Thread \ {th} :
           /\ pc'[other] = pc[other]
           /\ job'[other] = job[other]
           /\ request'[other] = request[other]
      /\ t \in Tool /\ DOMAIN sessions \subseteq Session
  BY <1>1, KeyType
     DEF Record, AppendToolCall, Leave, Return, Goto, sessionVars, GuardianTypeOK,
         ValidatorTypeOK, SessionTypeOK, RunsInv
<1>3. \/ s \notin DOMAIN sessions /\ sessions' = sessions
      \/ /\ s \in DOMAIN sessions /\ DOMAIN sessions' = DOMAIN sessions
         /\ sessions'[s].seq = Append(sessions[s].seq, t)
         /\ \A i \in DOMAIN sessions \ {s} : sessions'[i] = sessions[i]
  BY <1>1, NeverExpired DEF Record, AppendToolCall, sessionVars
<1>4. ASSUME NEW i \in DOMAIN sessions, NEW u \in Loaded
      PROVE  Counted(i, u)'
  <2>1. Counted(i, u) /\ u \in Tool
    BY Constants DEF RunsInv
  <2>2. Recorded(i) \in Seq(Tool)
    BY Constants DEF GuardianTypeOK, SessionTypeOK, SessionRecord, Recorded
  <2>3. Occurrences(Recorded(i), u) \in Nat
    BY <2>2, OccurrencesAppend
  <2>4. CASE i = s /\ u = t
    <3>1. Recording(s, t)' = Recording(s, t) \ {th} /\ th \in Recording(s, t)
      BY <1>1, <1>2, ExecutingIs DEF Recording, Executing
    <3>2. /\ IsFiniteSet(Recording(s, t)')
          /\ Cardinality(Recording(s, t)') = Cardinality(Recording(s, t)) - 1
          /\ Cardinality(Recording(s, t)) \in Nat
      BY <2>1, <2>4, <3>1, FS_RemoveElement, FS_CardinalityType DEF Counted
    <3>3. Recorded(s)' = Append(Recorded(s), t)
      BY <1>3, <2>4 DEF Recorded
    <3>4. Occurrences(Recorded(s)', t) = Occurrences(Recorded(s), t) + 1
      BY <2>2, <2>4, <3>3, OccurrencesAppend
    <3> QED
      BY <1>2, <2>1, <2>3, <2>4, <3>2, <3>4 DEF Counted
  <2>5. CASE ~(i = s /\ u = t)
    <3>1. Recording(i, u)' = Recording(i, u)
      BY <1>1, <1>2, <2>5 DEF Recording, Executing
    <3>2. Occurrences(Recorded(i)', u) = Occurrences(Recorded(i), u)
      <4>1. CASE sessions'[i] = sessions[i]
        BY <4>1 DEF Recorded
      <4>2. CASE i = s /\ Recorded(i)' = Append(Recorded(i), t)
        <5>1. t # u
          BY <2>5, <4>2
        <5> QED
          BY <2>2, <4>2, <5>1, OccurrencesAppend
      <4> QED
        BY <1>3, <4>1, <4>2 DEF Recorded
    <3> QED
      BY <1>2, <2>1, <3>1, <3>2 DEF Counted
  <2> QED
    BY <2>4, <2>5
<1>5. DOMAIN sessions' = DOMAIN sessions
  BY <1>3
<1> QED
  BY <1>2, <1>4, <1>5 DEF RunsInv

LEMMA RunsNext ==
  ASSUME GuardianTypeOK, RunsInv, [GuardianNext]_guardianVars
  PROVE  RunsInv'
<1>1. /\ pc \in [Thread -> Label] /\ job \in [Thread -> Job]
      /\ request \in [Thread -> [op : Operation,
                                 session : Session \cup {NoSession}]]
      /\ DOMAIN sessions \subseteq allocated /\ allocated \subseteq Session
      /\ ran \in [Session -> Seq(Tool)]
  BY DEF GuardianTypeOK, ValidatorTypeOK, SessionTypeOK
<1>2. ASSUME NEW th \in Thread, NEW op \in Operation, NEW s \in Session,
             NEW t \in Tool, Begin(th, op, s, t)
      PROVE  RunsInv'
  <2>1. s \in allocated
    BY <1>1, <1>2, NeverExpired DEF Begin
  <2> QED
    BY <1>1, <1>2, <2>1, RunsQuiet DEF Begin, Goto
<1>3. ASSUME NEW th \in Thread, Fetch(th)
      PROVE  RunsInv'
  BY <1>1, <1>3, RunsQuiet DEF Fetch, Goto, RunsInv
<1>4. ASSUME NEW th \in Thread, Validate(th)
      PROVE  RunsInv'
  <2>1. /\ pc[th] \notin {"idle", "append"} /\ pc'[th] # "append"
        /\ \A other \in Thread \ {th} : pc'[other] = pc[other] /\ job'[other] = job[other]
        /\ request' = request /\ UNCHANGED <<sessionVars, ran>>
    BY <1>1, <1>4 DEF Validate, ValidateStep, Lookup, Examine, Decide, Store, Goto, Answer
  <2> QED
    BY <2>1, RunsQuiet DEF RunsInv
<1>5. ASSUME NEW th \in Thread, Answered(th)
      PROVE  RunsInv'
  BY <1>1, <1>5, RunsQuiet DEF Answered, Leave, Return, Goto
<1>6. ASSUME NEW th \in Thread, Run(th)
      PROVE  RunsInv'
  BY <1>6, RunsRun
<1>7. ASSUME NEW th \in Thread, Record(th)
      PROVE  RunsInv'
  BY <1>7, RunsRecord
<1>8. ASSUME NEW s \in Session, Create(s)
      PROVE  RunsInv'
  <2>1. /\ s \notin allocated /\ allocated' = allocated \cup {s}
        /\ DOMAIN sessions' = DOMAIN sessions \cup {s}
        /\ sessions'[s].seq = <<>> /\ s \notin DOMAIN sessions
        /\ \A i \in DOMAIN sessions : sessions'[i] = sessions[i]
        /\ pc' = pc /\ job' = job /\ request' = request /\ ran' = ran
    BY <1>1, <1>8, NeverExpired DEF Create, CreateSession
  <2>2. \A i, t : Recording(i, t)' = Recording(i, t)
    BY <2>1 DEF Recording, Executing
  <2>3. \A i \in DOMAIN sessions, t \in Loaded : Counted(i, t)'
    BY <2>1, <2>2 DEF RunsInv, Counted, Recorded
  <2>4. ASSUME NEW t \in Loaded PROVE Counted(s, t)'
    <3>1. Recording(s, t) = {}
      BY <2>1 DEF RunsInv, Recording, Executing
    <3>2. ran'[s] = <<>> /\ Recorded(s)' = <<>>
      BY <2>1 DEF RunsInv, Recorded
    <3>3. Occurrences(<<>>, t) \in Nat
      BY EmptySeq, OccurrencesAppend
    <3> QED
      BY <2>2, <3>1, <3>2, <3>3, FS_EmptySet DEF Counted
  <2> QED
    BY <2>1, <2>3, <2>4 DEF RunsInv
<1>9. ASSUME NEW s \in Session, End(s)
      PROVE  RunsInv'
  <2>1. /\ DOMAIN sessions' = DOMAIN sessions \ {s} /\ allocated' = allocated
        /\ \A i \in DOMAIN sessions' : sessions'[i] = sessions[i] /\ ran'[i] = ran[i]
        /\ \A i \in Session \ {s} : ran'[i] = ran[i]
        /\ ran'[s] = <<>>
        /\ pc' = pc /\ job' = job /\ request' = request
    BY <1>1, <1>9 DEF End, EndSession
  <2>2. \A i, t : Recording(i, t)' = Recording(i, t)
    BY <2>1 DEF Recording, Executing
  <2>3. \A i \in DOMAIN sessions', t \in Loaded : Counted(i, t)'
    BY <2>1, <2>2 DEF RunsInv, Counted, Recorded
  <2> QED
    BY <2>1, <2>3 DEF RunsInv
<1>10. CASE UNCHANGED guardianVars \/ \E n \in Thresholds : UpdateConfig(n)
  <2>1. /\ sessions' = sessions /\ allocated' = allocated /\ ran' = ran
        /\ pc' = pc /\ job' = job /\ request' = request
    BY <1>10 DEF guardianVars, UpdateConfig, SetCycleThreshold, sessionVars
  <2>2. \A s, t : Recording(s, t)' = Recording(s, t)
    BY <2>1 DEF Recording, Executing
  <2> QED
    BY <2>1, <2>2 DEF RunsInv, Counted, Recorded
<1> QED
  BY <1>2, <1>3, <1>4, <1>5, <1>6, <1>7, <1>8, <1>9, <1>10 DEF GuardianNext, ThreadStep

(* The sandbox ran each tool as often as the history says, but for the     *)
(* runs about to be recorded, for any number of calls in a session at a    *)
(* time (execute_tool, whose calls meet failures and ended sessions).      *)
THEOREM RunsAlwaysRecorded == GuardianSpec => []RunsRecorded
<1>1. GuardianInit => RunsInv
  BY DEF GuardianInit, ValidatorInit, SessionInit, RunsInv
<1>2. RunsInv => RunsRecorded
  BY DEF RunsInv, RunsRecorded, Counted, Recording
<1>3. GuardianTypeOK /\ RunsInv /\ [GuardianNext]_guardianVars => RunsInv'
  BY RunsNext
<1> QED
  BY <1>1, <1>2, <1>3, TypeCorrect, PTL DEF GuardianSpec
=============================================================================
