-------------------------- MODULE ValidatorProofs --------------------------
(***************************************************************************)
(* What the operators of Policy do, for every graph and every context      *)
(* length; what a step of validate preserves, whoever calls it; and what   *)
(* holds of the answers of a validator used by itself.                     *)
(***************************************************************************)
EXTENDS ValidatorClients, FiniteSetTheorems, SequenceTheorems, TLAPS

(***************************************************************************)
(* The policy: the context of a history is its end, and whatever is        *)
(* allowed after a whole history is allowed after its context.             *)
(***************************************************************************)

(* The context of a history is a history, it is empty only when the        *)
(* history is, and call i of it is call i + d of the history, where d is   *)
(* what the cache key cuts off.                                            *)
LEMMA ContextIsSuffix ==
  ASSUME NEW h \in Seq(Tool)
  PROVE  /\ Context(h) \in Seq(Tool)
         /\ Len(Context(h)) <= ContextLength
         /\ \E d \in Nat :
              /\ Len(h) = Len(Context(h)) + d
              /\ d > 0 => Len(Context(h)) = ContextLength
              /\ \A i \in 1 .. Len(Context(h)) : Context(h)[i] = h[i + d]
<1>1. Len(h) \in Nat /\ ContextLength \in Nat \ {0}
  BY ContextAssumption
<1>2. CASE Len(h) > ContextLength
  <2> DEFINE d == Len(h) - ContextLength
  <2>1. d \in Nat /\ d > 0
    BY <1>1, <1>2
  <2>2. Context(h) = SubSeq(h, d + 1, Len(h))
    BY <1>1, <1>2 DEF Context
  <2>3. \A i \in d + 1 .. Len(h) : h[i] \in Tool
    BY <2>1
  <2>4. /\ Context(h) \in Seq(Tool)
        /\ Len(Context(h)) = ContextLength
        /\ \A i \in 1 .. ContextLength : Context(h)[i] = h[i + d]
    <3> HIDE DEF d
    <3>1. d \in Nat /\ Len(h) = d + ContextLength
      BY <1>1, <2>1 DEF d
    <3>2. d + 1 \in Int /\ Len(h) \in Int
      BY <1>1, <3>1
    <3>3. /\ SubSeq(h, d + 1, Len(h)) \in Seq(Tool)
          /\ Len(SubSeq(h, d + 1, Len(h))) =
               IF d + 1 <= Len(h) THEN Len(h) - (d + 1) + 1 ELSE 0
          /\ \A i \in 1 .. Len(h) - (d + 1) + 1 :
               SubSeq(h, d + 1, Len(h))[i] = h[d + 1 + i - 1]
      BY <2>3, <3>2, SubSeqProperties
    <3>4. Len(h) - (d + 1) + 1 = ContextLength /\ d + 1 <= Len(h)
      BY <1>1, <3>1
    <3>5. \A i \in 1 .. ContextLength : d + 1 + i - 1 = i + d
      BY <3>1
    <3> QED
      BY <2>2, <3>3, <3>4, <3>5
  <2>5. Len(h) = Len(Context(h)) + d
    BY <1>1, <2>4
  <2>6. Len(Context(h)) <= ContextLength /\ d \in Nat
    BY <1>1, <2>1, <2>4
  <2> HIDE DEF d
  <2> QED
    BY <2>4, <2>5, <2>6
<1>3. CASE ~(Len(h) > ContextLength)
  <2>1. Context(h) = h
    BY <1>3 DEF Context
  <2>2. \A i \in 1 .. Len(h) : h[i] = h[i + 0]
    OBVIOUS
  <2> QED
    BY <1>1, <1>3, <2>1, <2>2
<1> QED
  BY <1>2, <1>3

LEMMA ContextType == ASSUME NEW h \in Seq(Tool) PROVE Context(h) \in BoundedSeq(Tool, ContextLength)
<1>1. /\ Context(h) \in Seq(Tool)
      /\ Len(Context(h)) \in 0 .. ContextLength
  BY ContextIsSuffix, ContextAssumption
<1>2. Context(h) \in [1 .. Len(Context(h)) -> Tool]
  BY <1>1
<1> QED
  BY <1>1, <1>2 DEF BoundedSeq, SeqOf

(* A tool occurs no more often in the context than in the history.         *)
LEMMA OccurrencesInContext ==
  ASSUME NEW h \in Seq(Tool), NEW t \in Tool
  PROVE  /\ Occurrences(h, t) \in Nat
         /\ Occurrences(Context(h), t) \in Nat
         /\ Occurrences(Context(h), t) <= Occurrences(h, t)
<1> DEFINE In(g) == {i \in 1 .. Len(g) : g[i] = t}
<1>1. \A g \in Seq(Tool) : IsFiniteSet(In(g)) /\ Cardinality(In(g)) \in Nat
  <2> TAKE g \in Seq(Tool)
  <2>1. IsFiniteSet(1 .. Len(g))
    BY FS_Interval
  <2>2. In(g) \in SUBSET (1 .. Len(g))
    OBVIOUS
  <2>3. IsFiniteSet(In(g))
    BY <2>1, <2>2, FS_Subset
  <2> QED
    BY <2>3, FS_CardinalityType
<1>2. PICK d \in Nat :
        /\ Len(h) = Len(Context(h)) + d
        /\ \A i \in 1 .. Len(Context(h)) : Context(h)[i] = h[i + d]
  BY ContextIsSuffix
<1>3. Context(h) \in Seq(Tool)
  BY ContextIsSuffix
<1> DEFINE shift == [i \in In(Context(h)) |-> i + d]
<1>4. \A i \in In(Context(h)) : i + d \in In(h)
  BY <1>2, <1>3
<1>5. shift \in Injection(In(Context(h)), In(h))
  <2>1. shift \in [In(Context(h)) -> In(h)]
    BY <1>4
  <2>2. \A i, j \in In(Context(h)) : shift[i] = shift[j] => i = j
    BY <1>3
  <2> QED
    BY <2>1, <2>2 DEF Injection, IsInjective
<1>6. Cardinality(In(Context(h))) <= Cardinality(In(h))
  <2> HIDE DEF shift, In
  <2> QED
    BY <1>1, <1>5, FS_Injection
<1> QED
  BY <1>1, <1>3, <1>6 DEF Occurrences

(* A call that is added is one more occurrence of its tool.                *)
LEMMA OccurrencesAppend ==
  ASSUME NEW h \in Seq(Tool), NEW t, NEW u
  PROVE  /\ Occurrences(h, u) \in Nat
         /\ Occurrences(Append(h, t), u) = Occurrences(h, u) + (IF t = u THEN 1 ELSE 0)
<1> DEFINE where == {i \in 1 .. Len(h) : h[i] = u}
           after == {i \in 1 .. Len(h) + 1 : Append(h, t)[i] = u}
<1>1. Len(h) \in Nat /\ \A i \in 1 .. Len(h) : Append(h, t)[i] = h[i]
  BY LenProperties
<1>2. Append(h, t)[Len(h) + 1] = t /\ Len(Append(h, t)) = Len(h) + 1
  OBVIOUS
<1>3. IsFiniteSet(where) /\ Cardinality(where) \in Nat
  <2>1. IsFiniteSet(1 .. Len(h)) /\ where \in SUBSET (1 .. Len(h))
    BY <1>1, FS_Interval
  <2>2. IsFiniteSet(where)
    BY <2>1, FS_Subset
  <2> QED
    BY <2>2, FS_CardinalityType
<1>4. after = where \cup (IF t = u THEN {Len(h) + 1} ELSE {}) /\ Len(h) + 1 \notin where
  <2>1. 1 .. Len(h) + 1 = (1 .. Len(h)) \cup {Len(h) + 1} /\ Len(h) + 1 \notin 1 .. Len(h)
    BY <1>1
  <2> QED
    BY <1>1, <1>2, <2>1
<1>5. Occurrences(h, u) = Cardinality(where)
  BY DEF Occurrences
<1>6. Occurrences(Append(h, t), u) = Cardinality(after)
  BY <1>2 DEF Occurrences
<1> HIDE DEF where, after
<1>7. CASE t = u
  <2>1. Cardinality(after) = Cardinality(where) + 1
    BY <1>3, <1>4, <1>7, FS_AddElement
  <2> QED
    BY <1>3, <1>5, <1>6, <1>7, <2>1
<1>8. CASE t # u
  <2>1. after = where
    BY <1>4, <1>8
  <2> QED
    BY <1>3, <1>5, <1>6, <1>8, <2>1
<1> QED
  BY <1>7, <1>8

(* Edges are checked against the last call only, and the context keeps it. *)
LEMMA EdgeAllowsInContext ==
  ASSUME NEW h \in Seq(Tool), NEW t \in Tool
  PROVE  EdgeAllows(Context(h), t) <=> EdgeAllows(h, t)
<1>1. PICK d \in Nat :
        /\ Len(h) = Len(Context(h)) + d
        /\ d > 0 => Len(Context(h)) = ContextLength
        /\ \A i \in 1 .. Len(Context(h)) : Context(h)[i] = h[i + d]
  BY ContextIsSuffix
<1>2. Context(h) \in Seq(Tool) /\ ContextLength \in Nat \ {0}
  BY ContextIsSuffix, ContextAssumption
<1>3. Context(h) = <<>> <=> h = <<>>
  BY <1>1, <1>2
<1>4. h # <<>> => Context(h)[Len(Context(h))] = h[Len(h)]
  <2> SUFFICES ASSUME h # <<>> PROVE Context(h)[Len(Context(h))] = h[Len(h)]
    OBVIOUS
  <2>1. Len(Context(h)) \in 1 .. Len(Context(h))
    BY <1>2, <1>3, EmptySeq
  <2> QED
    BY <1>1, <2>1
<1> QED
  BY <1>3, <1>4 DEF EdgeAllows

(* A history whose end exfiltrates exfiltrates.                            *)
LEMMA ExfiltratesInContext ==
  ASSUME NEW h \in Seq(Tool), NEW t \in Tool,
         Exfiltrates(Append(Context(h), t))
  PROVE  Exfiltrates(Append(h, t))
<1>1. PICK d \in Nat :
        /\ Len(h) = Len(Context(h)) + d
        /\ \A i \in 1 .. Len(Context(h)) : Context(h)[i] = h[i + d]
  BY ContextIsSuffix
<1> DEFINE c == Append(Context(h), t)
           g == Append(h, t)
<1>2. Context(h) \in Seq(Tool)
  BY ContextIsSuffix
<1>3. /\ Len(c) = Len(Context(h)) + 1
      /\ Len(g) = Len(c) + d
      /\ Len(c) \in Nat
  BY <1>1, <1>2
<1>4. ASSUME NEW i \in 1 .. Len(c)
      PROVE  c[i] = g[i + d]
  <2>1. CASE i = Len(c)
    <3>1. c[Len(c)] = t /\ g[Len(g)] = t
      BY <1>1, <1>2, <1>3
    <3> QED
      BY <1>3, <2>1, <3>1
  <2>2. CASE i # Len(c)
    <3>1. i \in 1 .. Len(Context(h)) /\ i + d \in 1 .. Len(h)
      BY <1>1, <1>2, <1>3, <2>2
    <3>2. c[i] = Context(h)[i] /\ g[i + d] = h[i + d]
      BY <1>2, <3>1
    <3> QED
      BY <1>1, <3>1, <3>2
  <2> QED
    BY <2>1, <2>2
<1> HIDE DEF c, g
<1>5. PICK i, j \in 1 .. Len(c) :
        /\ i < j
        /\ HasType(c[i], "SENSITIVE_SOURCE")
        /\ HasType(c[j], "EXTERNAL_DESTINATION")
        /\ \A k \in 1 .. Len(c) :
             i < k /\ k < j => ~HasType(c[k], "DATA_PROCESSOR")
  BY DEF Exfiltrates, c
<1>6. /\ i + d \in 1 .. Len(g) /\ j + d \in 1 .. Len(g)
      /\ i + d < j + d
      /\ HasType(g[i + d], "SENSITIVE_SOURCE")
      /\ HasType(g[j + d], "EXTERNAL_DESTINATION")
  BY <1>3, <1>4, <1>5
<1>7. ASSUME NEW k \in 1 .. Len(g), i + d < k, k < j + d
      PROVE  ~HasType(g[k], "DATA_PROCESSOR")
  <2>1. k - d \in 1 .. Len(c) /\ i < k - d /\ k - d < j
    BY <1>3, <1>5, <1>7
  <2>2. c[k - d] = g[k - d + d] /\ k - d + d = k
    BY <1>4, <2>1
  <2> QED
    BY <1>5, <2>1, <2>2
<1> QED
  BY <1>6, <1>7 DEF Exfiltrates, g

(* What validate would allow after the whole history, it would also allow  *)
(* after the part of it that enters the cache key: this is why an approval *)
(* may be stored under that key.                                           *)
LEMMA AllowedInContext ==
  ASSUME NEW h \in Seq(Tool), NEW t \in Tool, Allowed(h, t)
  PROVE  Allowed(Context(h), t)
  BY EdgeAllowsInContext, ExfiltratesInContext DEF Allowed

(* What stands before call i of a history to which a call is added: as     *)
(* before, and for the call that is added the history.                     *)
LEMMA BeforeCall ==
  ASSUME NEW h \in Seq(Tool), NEW t \in Tool, NEW i \in 1 .. Len(Append(h, t))
  PROVE  \/ /\ i \in 1 .. Len(h)
            /\ SubSeq(Append(h, t), 1, i - 1) = SubSeq(h, 1, i - 1)
            /\ Append(h, t)[i] = h[i]
         \/ /\ SubSeq(Append(h, t), 1, i - 1) = h
            /\ Append(h, t)[i] = t
<1> DEFINE g == Append(h, t)
<1>1. g \in Seq(Tool) /\ Len(g) = Len(h) + 1 /\ Len(h) \in Nat
  BY AppendProperties
<1>2. \A j \in 1 .. Len(h) : g[j] = h[j]
  BY AppendProperties
<1>3. SubSeq(g, 1, i - 1) = SubSeq(h, 1, i - 1)
  <2>1. i - 1 \in Int /\ i - 1 <= Len(h) /\ 1 \in Int
    BY <1>1
  <2>2. \A j \in 1 .. i - 1 : g[j] \in Tool /\ h[j] \in Tool /\ g[j] = h[j]
    BY <1>1, <1>2, <2>1
  <2> DEFINE a == SubSeq(g, 1, i - 1)
             b == SubSeq(h, 1, i - 1)
  <2> HIDE DEF g
  <2>3. /\ a \in Seq(Tool)
        /\ Len(a) = IF 1 <= i - 1 THEN i - 1 - 1 + 1 ELSE 0
        /\ \A j \in 1 .. i - 1 - 1 + 1 : a[j] = g[1 + j - 1]
    BY <2>1, <2>2, SubSeqProperties
  <2>4. /\ b \in Seq(Tool)
        /\ Len(b) = IF 1 <= i - 1 THEN i - 1 - 1 + 1 ELSE 0
        /\ \A j \in 1 .. i - 1 - 1 + 1 : b[j] = h[1 + j - 1]
    BY <2>1, <2>2, SubSeqProperties
  <2> HIDE DEF a, b
  <2>5. Len(a) = Len(b) /\ \A j \in 1 .. Len(a) : a[j] = b[j]
    BY <2>1, <2>2, <2>3, <2>4
  <2>6. a = b
    BY <2>3, <2>4, <2>5, SeqEqual
  <2> QED
    BY <2>6 DEF a, b
<1>4. CASE i \in 1 .. Len(h)
  BY <1>2, <1>3, <1>4
<1>5. CASE i = Len(h) + 1
  <2>1. g[i] = t
    BY <1>5, AppendProperties
  <2>2. SubSeq(h, 1, i - 1) = h
    BY <1>1, <1>5, SubSeqFull
  <2> QED
    BY <1>3, <2>1, <2>2
<1> QED
  BY <1>1, <1>4, <1>5

(***************************************************************************)
(* Validate                                                                *)
(***************************************************************************)

LEMMA ValidatorConstants ==
  /\ Thresholds \subseteq Nat
  /\ (CHOOSE t \in Tool : TRUE) \in Tool
BY ValidatorAssumption

LEMMA NoJobType == NoJob \in Job
BY ValidatorConstants, EmptySeq DEF NoJob, NewJob, Job, Histories, Verdict

LEMMA KeyType ==
  ASSUME ValidatorTypeOK, NEW th \in Thread
  PROVE  /\ job[th].tool \in Tool
         /\ job[th].seq \in Seq(Tool)
         /\ Key(th) \in Range(KeyText)
<1>1. job[th].tool \in Tool /\ job[th].seq \in Seq(Tool)
  BY DEF ValidatorTypeOK, Job, Histories
<1>2. Key(th) \in Range(KeyText)
  BY <1>1, ContextType DEF Key, CacheKey, Questions, KeyText, Range
<1> QED
  BY <1>1, <1>2

(* The question a key was made for                                         *)
Question(k) == CHOOSE q \in Questions : k = KeyText[q]

(* The key of a question tells it, when no other question has that key.    *)
LEMMA KeyTells ==
  ASSUME KeysDistinct, NEW q \in Questions
  PROVE  Question(KeyText[q]) = q
<1>1. Question(KeyText[q]) \in Questions /\ KeyText[q] = KeyText[Question(KeyText[q])]
  BY DEF Question
<1>2. DOMAIN KeyText = Questions
  BY DEF KeyText
<1> QED
  BY <1>1, <1>2 DEF KeysDistinct, IsInjective

LEMMA ThreadsKey ==
  ASSUME ValidatorTypeOK, KeysDistinct, NEW th \in Thread
  PROVE  Question(Key(th)) = <<job[th].tool, Context(job[th].seq)>>
BY KeyType, ContextType, KeyTells DEF Key, CacheKey, Questions

LEMMA TypeValidateStep ==
  ASSUME ValidatorTypeOK, NEW th \in Thread, ValidateStep(th)
  PROVE  ValidatorTypeOK'
<1> USE DEF ValidatorTypeOK, Goto, Answer, Label
<1>1. CASE Lookup(th)
  BY <1>1 DEF Lookup, Job
<1>2. CASE Examine(th)
  <2>1. UNCHANGED <<cache, cycle_threshold>>
    BY <1>2 DEF Examine
  <2>2. pc' \in [Thread -> Label]
    BY <1>2 DEF Examine
  <2>3. LesserOf(Occurrences(job[th].seq, job[th].tool), cycle_threshold) \in Nat
    BY KeyType, OccurrencesInContext, ValidatorConstants DEF LesserOf
  <2>4. job' \in [Thread -> Job]
    BY <1>2, <2>3 DEF Examine, Job, Verdict
  <2> QED
    BY <2>1, <2>2, <2>4
<1>3. CASE Decide(th)
  BY <1>3 DEF Decide, Job, Verdict
<1>4. CASE Store(th)
  <2>1. Key(th) \in Range(KeyText) /\ job[th].verdict \in Verdict
    BY KeyType DEF Job
  <2>2. DOMAIN cache' \in SUBSET Range(KeyText) /\ cache' \in [DOMAIN cache' -> Verdict]
    BY <1>4, <2>1 DEF Store, Put
  <2> QED
    BY <1>4, <2>2 DEF Store
<1> QED
  BY <1>1, <1>2, <1>3, <1>4 DEF ValidateStep

LEMMA ValidatorTypeInit == ValidatorInit => ValidatorTypeOK
<1> SUFFICES ASSUME ValidatorInit PROVE ValidatorTypeOK
  OBVIOUS
<1>1. job \in [Thread -> Job]
  BY NoJobType DEF ValidatorInit
<1>2. pc \in [Thread -> Label] /\ DOMAIN cache = {} /\ cache \in [DOMAIN cache -> Verdict]
  BY DEF ValidatorInit, Label
<1> QED
  BY <1>1, <1>2 DEF ValidatorInit, ValidatorTypeOK

(* What an approval means when the thresholds of N, if there are any, are  *)
(* the only value the threshold ever has: the call fits, and it has not    *)
(* been repeated as often as the threshold says.                           *)
Permits(N, history, t) ==
  Allowed(history, t) /\ \A n \in N : Occurrences(history, t) < n

(* A cached verdict is right about the question its key was made for.      *)
CachedSound(N) ==
  \A k \in DOMAIN cache :
    LET q == Question(k)
    IN  /\ cache[k] = "approved" => Permits(N, q[2], q[1])
        /\ cache[k] = "unknown" => ~IsKnown(q[1])
        /\ cache[k] = "edge" => ~EdgeAllows(q[2], q[1])

(* What a thread has found out about its own copy of the history, and what *)
(* the verdict it carries means.                                           *)
JobSound(N, th) ==
  /\ pc[th] = "decide" =>
       /\ IsKnown(job[th].tool)
       /\ EdgeAllows(job[th].seq, job[th].tool)
       /\ N # {} =>
            job[th].count =
              LesserOf(Occurrences(job[th].seq, job[th].tool), cycle_threshold)
  /\ pc[th] \in {"store", "done", "append"} =>
       /\ job[th].verdict = "approved" => Permits(N, Context(job[th].seq), job[th].tool)
       /\ job[th].verdict = "unknown" => ~IsKnown(job[th].tool)
       /\ job[th].verdict = "edge" => ~EdgeAllows(job[th].seq, job[th].tool)
  /\ pc[th] = "append" => job[th].verdict = "approved"

(* CachedSound is not inductive by itself: a thread stores a verdict it    *)
(* reached one step earlier, and reached from a count one step earlier.    *)
VerdictsSound(N) == CachedSound(N) /\ \A th \in Thread : JobSound(N, th)

(* A change of one thread's job and label leaves the others as they were.  *)
LEMMA OtherJobsSound ==
  ASSUME ValidatorTypeOK, NEW N, VerdictsSound(N), NEW th \in Thread,
         \A other \in Thread \ {th} :
           pc'[other] = pc[other] /\ job'[other] = job[other],
         cycle_threshold' = cycle_threshold,
         JobSound(N, th)'
  PROVE  \A other \in Thread : JobSound(N, other)'
BY DEF VerdictsSound, JobSound

(* A step outside validate, which takes thread th to or towards its start  *)
LEMMA OutsideValidate ==
  ASSUME ValidatorTypeOK, NEW N, VerdictsSound(N), NEW th \in Thread,
         UNCHANGED <<cache, cycle_threshold>>,
         pc' = [pc EXCEPT ![th] = pc'[th]],
         job' = [job EXCEPT ![th] = job'[th]],
         pc'[th] \in {"idle", "fetch", "lookup", "call"}
  PROVE  VerdictsSound(N)'
<1>1. CachedSound(N)'
  BY DEF VerdictsSound, CachedSound
<1>2. JobSound(N, th)'
  BY DEF JobSound
<1>3. \A other \in Thread \ {th} : pc'[other] = pc[other] /\ job'[other] = job[other]
  BY DEF ValidatorTypeOK
<1> QED
  BY <1>1, <1>2, <1>3, OtherJobsSound DEF VerdictsSound

(* An approved call that goes on to be recorded                            *)
LEMMA GoesOnToRecord ==
  ASSUME ValidatorTypeOK, NEW N, VerdictsSound(N), NEW th \in Thread,
         pc[th] = "done", job[th].verdict = "approved",
         UNCHANGED <<cache, cycle_threshold, job>>, Goto(th, "append")
  PROVE  VerdictsSound(N)'
<1>1. CachedSound(N)'
  BY DEF VerdictsSound, CachedSound
<1>2. pc'[th] = "append" /\ \A other \in Thread \ {th} : pc'[other] = pc[other]
  BY DEF ValidatorTypeOK, Goto
<1>3. JobSound(N, th)'
  BY <1>2 DEF VerdictsSound, JobSound
<1> QED
  BY <1>1, <1>2, <1>3, OtherJobsSound DEF VerdictsSound

LEMMA ValidatorIdles ==
  ASSUME NEW N, VerdictsSound(N), UNCHANGED <<cache, cycle_threshold, pc, job>>
  PROVE  VerdictsSound(N)'
BY DEF VerdictsSound, CachedSound, JobSound

(* Approvals of the whole history that a count below the threshold backs   *)
(* hold of the context.                                                    *)
LEMMA PermittedInContext ==
  ASSUME NEW h \in Seq(Tool), NEW t \in Tool, NEW N \in SUBSET Nat, Allowed(h, t),
         \A n \in N : Occurrences(h, t) < n
  PROVE  Permits(N, Context(h), t)
BY AllowedInContext, OccurrencesInContext DEF Permits

(* A step of validate stores and carries sound verdicts only.              *)
LEMMA ValidateStepSound ==
  ASSUME KeysDistinct, ValidatorTypeOK, NEW N \in SUBSET {cycle_threshold},
         VerdictsSound(N), NEW th \in Thread, ValidateStep(th)
  PROVE  VerdictsSound(N)'
<1> DEFINE t == job[th].tool
           h == job[th].seq
<1>1. t \in Tool /\ h \in Seq(Tool) /\ Question(Key(th)) = <<t, Context(h)>>
  BY KeyType, ThreadsKey
<1>2. /\ pc \in [Thread -> Label]
      /\ job \in [Thread -> Job]
      /\ cycle_threshold \in Thresholds /\ cycle_threshold \in Nat
  BY ValidatorConstants DEF ValidatorTypeOK
<1>3. \A other \in Thread \ {th} :
        pc'[other] = pc[other] /\ job'[other] = job[other]
  BY <1>2 DEF ValidateStep, Lookup, Examine, Decide, Store, Goto, Answer
<1>4. cycle_threshold' = cycle_threshold
  BY DEF ValidateStep, Lookup, Examine, Decide, Store
<1>5. CASE Lookup(th)
  <2>1. CachedSound(N)'
    BY <1>5 DEF Lookup, VerdictsSound, CachedSound
  <2>2. job'[th].tool = t /\ job'[th].seq = h /\ pc'[th] \in {"done", "examine"}
    BY <1>2, <1>5 DEF Lookup, Goto, Answer, Job
  <2>3. ASSUME pc'[th] = "done"
        PROVE  /\ job'[th].verdict = "approved" => Permits(N, Context(h), t)
               /\ job'[th].verdict = "unknown" => ~IsKnown(t)
               /\ job'[th].verdict = "edge" => ~EdgeAllows(h, t)
    <3>1. Key(th) \in DOMAIN cache /\ job'[th].verdict = cache[Key(th)]
      BY <1>2, <1>5, <2>3 DEF Lookup, Goto, Answer, Job
    <3>2. Question(Key(th))[1] = t /\ Question(Key(th))[2] = Context(h)
      BY <1>1
    <3> QED
      BY <1>1, <3>1, <3>2, EdgeAllowsInContext DEF VerdictsSound, CachedSound
  <2>4. JobSound(N, th)'
    BY <2>2, <2>3 DEF JobSound
  <2> QED
    BY <1>3, <1>4, <2>1, <2>4, OtherJobsSound DEF VerdictsSound
<1>6. CASE Examine(th)
  <2>1. CachedSound(N)'
    BY <1>6 DEF Examine, VerdictsSound, CachedSound
  <2>2. job'[th].tool = t /\ job'[th].seq = h /\ pc'[th] \in {"store", "decide"}
    BY <1>2, <1>6 DEF Examine, Goto, Answer, Job
  <2>3. ASSUME pc'[th] = "store"
        PROVE  \/ job'[th].verdict = "unknown" /\ ~IsKnown(t)
               \/ job'[th].verdict = "edge" /\ ~EdgeAllows(h, t)
    BY <1>2, <1>6, <2>3 DEF Examine, Goto, Answer, Job
  <2>4. ASSUME pc'[th] = "decide"
        PROVE  /\ IsKnown(t) /\ EdgeAllows(h, t)
               /\ job'[th].count = LesserOf(Occurrences(h, t), cycle_threshold)
    BY <1>2, <1>6, <2>4 DEF Examine, Goto, Answer, Job
  <2>5. JobSound(N, th)'
    BY <1>4, <2>2, <2>3, <2>4 DEF JobSound
  <2> QED
    BY <1>3, <1>4, <2>1, <2>5, OtherJobsSound DEF VerdictsSound
<1>7. CASE Decide(th)
  <2>1. CachedSound(N)'
    BY <1>7 DEF Decide, VerdictsSound, CachedSound
  <2>2. /\ job'[th].tool = t /\ job'[th].seq = h /\ pc'[th] \in {"store", "done"}
        /\ job'[th].verdict \in {"cycle", "exfiltration", "approved"}
    BY <1>2, <1>7 DEF Decide, Goto, Answer, Job
  <2>3. ASSUME job'[th].verdict = "approved"
        PROVE  Permits(N, Context(h), t)
    <3>1. ~Exfiltrates(Append(h, t)) /\ ~(job[th].count >= cycle_threshold)
      BY <1>2, <1>7, <2>3 DEF Decide, Goto, Answer, Job
    <3>2. Allowed(h, t)
      BY <1>7, <3>1 DEF Decide, VerdictsSound, JobSound, Allowed
    <3>3. ASSUME NEW n \in N
          PROVE  Occurrences(h, t) < n
      <4>1. n = cycle_threshold /\ N # {}
        OBVIOUS
      <4>2. job[th].count = LesserOf(Occurrences(h, t), cycle_threshold)
        BY <1>7, <4>1 DEF Decide, VerdictsSound, JobSound
      <4>3. Occurrences(h, t) \in Nat
        BY <1>1, OccurrencesInContext
      <4> QED
        BY <1>2, <3>1, <4>1, <4>2, <4>3 DEF LesserOf
    <3>4. N \in SUBSET Nat
      BY <1>2
    <3> QED
      BY <1>1, <3>2, <3>3, <3>4, PermittedInContext
  <2>4. JobSound(N, th)'
    BY <2>2, <2>3 DEF JobSound
  <2> QED
    BY <1>3, <1>4, <2>1, <2>4, OtherJobsSound DEF VerdictsSound
<1>8. CASE Store(th)
  <2>1. job' = job /\ pc'[th] = "done" /\ pc[th] = "store"
    BY <1>2, <1>8 DEF Store, Goto
  <2>2. /\ job[th].verdict = "approved" => Permits(N, Context(h), t)
        /\ job[th].verdict = "unknown" => ~IsKnown(t)
        /\ job[th].verdict = "edge" => ~EdgeAllows(h, t)
    BY <2>1 DEF VerdictsSound, JobSound
  <2>3. ASSUME NEW k \in DOMAIN cache'
        PROVE  LET q == Question(k)
               IN  /\ cache'[k] = "approved" => Permits(N, q[2], q[1])
                   /\ cache'[k] = "unknown" => ~IsKnown(q[1])
                   /\ cache'[k] = "edge" => ~EdgeAllows(q[2], q[1])
    <3>1. CASE k = Key(th)
      <4>1. cache'[k] = job[th].verdict /\ Question(k)[1] = t /\ Question(k)[2] = Context(h)
        BY <1>1, <1>8, <3>1 DEF Store, Put
      <4> QED
        BY <1>1, <2>2, <4>1, EdgeAllowsInContext
    <3>2. CASE k # Key(th)
      <4>1. k \in DOMAIN cache /\ cache'[k] = cache[k]
        BY <1>8, <3>2 DEF Store, Put
      <4> QED
        BY <4>1 DEF VerdictsSound, CachedSound
    <3> QED
      BY <3>1, <3>2
  <2>4. CachedSound(N)'
    BY <2>3 DEF CachedSound
  <2>5. JobSound(N, th)'
    BY <2>1, <2>2 DEF JobSound
  <2> QED
    BY <1>3, <1>4, <2>4, <2>5, OtherJobsSound DEF VerdictsSound
<1> QED
  BY <1>5, <1>6, <1>7, <1>8 DEF ValidateStep

LEMMA VerdictsSoundInit == ASSUME NEW N, ValidatorInit PROVE VerdictsSound(N)
BY DEF ValidatorInit, VerdictsSound, CachedSound, JobSound

(***************************************************************************)
(* The validator by itself                                                 *)
(***************************************************************************)

(* The answers are about the window: with no threshold assumed (N = {}),   *)
(* whatever set_cycle_threshold and reset_cache_stats do meanwhile.        *)
WindowInv == ValidatorTypeOK /\ VerdictsSound({})

(* A verdict that a validator without a cache gives at some thresholds     *)
Exact(h, t, verdict) == \E m, n \in Thresholds : verdict = FreshVerdict(h, t, m, n)

(* ShortHistoriesExact is not inductive by itself: the cache must hold     *)
(* exact verdicts under the keys that tell a whole history, and a thread   *)
(* that compares its count must have taken it at a threshold.              *)
CachedExact ==
  \A k \in DOMAIN cache :
    LET q == Question(k)
    IN  Len(q[2]) < ContextLength => Exact(q[2], q[1], cache[k])

JobExact(th) ==
  /\ pc[th] = "decide" =>
       /\ IsKnown(job[th].tool)
       /\ EdgeAllows(job[th].seq, job[th].tool)
       /\ \E m \in Thresholds :
            job[th].count = LesserOf(Occurrences(job[th].seq, job[th].tool), m)
  /\ pc[th] \in {"store", "done"} /\ Len(job[th].seq) < ContextLength =>
       Exact(job[th].seq, job[th].tool, job[th].verdict)

ShortInv == CachedExact /\ \A th \in Thread : JobExact(th)

(* A key that is shorter than ContextLength tells the whole history.       *)
LEMMA ShortKeys ==
  ASSUME NEW h \in Seq(Tool)
  PROVE  /\ Len(Context(h)) < ContextLength <=> Len(h) < ContextLength
         /\ Len(h) < ContextLength => Context(h) = h
<1>1. /\ Context(h) \in Seq(Tool)
      /\ \E d \in Nat :
           /\ Len(h) = Len(Context(h)) + d
           /\ d > 0 => Len(Context(h)) = ContextLength
  BY ContextIsSuffix
<1>2. PICK d \in Nat :
        /\ Len(h) = Len(Context(h)) + d
        /\ d > 0 => Len(Context(h)) = ContextLength
  BY <1>1
<1>3. Len(h) \in Nat /\ Len(Context(h)) \in Nat /\ ContextLength \in Nat
  BY <1>1, ContextAssumption
<1>4. Len(h) < ContextLength => Context(h) = h
  BY <1>3 DEF Context
<1> HIDE DEF Context
<1>5. Len(Context(h)) < ContextLength <=> Len(h) < ContextLength
  BY <1>2, <1>3
<1> QED
  BY <1>4, <1>5

(* The verdicts of a validator without a cache, one check at a time        *)
LEMMA FreshVerdicts ==
  ASSUME NEW h, NEW t, NEW m, NEW n,
         LesserOf(Occurrences(h, t), m) < n <=> ~(LesserOf(Occurrences(h, t), m) >= n)
  PROVE  /\ ~IsKnown(t) => FreshVerdict(h, t, m, n) = "unknown"
         /\ IsKnown(t) /\ ~EdgeAllows(h, t) => FreshVerdict(h, t, m, n) = "edge"
         /\ IsKnown(t) /\ EdgeAllows(h, t) =>
              /\ LesserOf(Occurrences(h, t), m) >= n => FreshVerdict(h, t, m, n) = "cycle"
              /\ LesserOf(Occurrences(h, t), m) < n =>
                   FreshVerdict(h, t, m, n) =
                     IF Exfiltrates(Append(h, t)) THEN "exfiltration" ELSE "approved"
<1>1. Allowed(h, t) <=> IsKnown(t) /\ EdgeAllows(h, t) /\ ~Exfiltrates(Append(h, t))
  BY DEF Allowed
<1>2. ASSUME ~IsKnown(t) PROVE FreshVerdict(h, t, m, n) = "unknown"
  BY <1>1, <1>2, Zenon DEF FreshVerdict
<1>3. ASSUME IsKnown(t), ~EdgeAllows(h, t) PROVE FreshVerdict(h, t, m, n) = "edge"
  BY <1>1, <1>3, Zenon DEF FreshVerdict
<1>4. ASSUME IsKnown(t), EdgeAllows(h, t), LesserOf(Occurrences(h, t), m) >= n
      PROVE  FreshVerdict(h, t, m, n) = "cycle"
  BY <1>1, <1>4, Zenon DEF FreshVerdict
<1>5. ASSUME IsKnown(t), EdgeAllows(h, t), LesserOf(Occurrences(h, t), m) < n,
             ~Exfiltrates(Append(h, t))
      PROVE  FreshVerdict(h, t, m, n) = "approved"
  BY <1>1, <1>5, Zenon DEF FreshVerdict
<1>6. ASSUME IsKnown(t), EdgeAllows(h, t), LesserOf(Occurrences(h, t), m) < n,
             Exfiltrates(Append(h, t))
      PROVE  FreshVerdict(h, t, m, n) = "exfiltration"
  BY <1>1, <1>6, Zenon DEF FreshVerdict
<1> QED
  BY <1>2, <1>3, <1>4, <1>5, <1>6

LEMMA LesserType ==
  ASSUME NEW h \in Seq(Tool), NEW t \in Tool, NEW m \in Thresholds, NEW n \in Thresholds
  PROVE  /\ LesserOf(Occurrences(h, t), m) \in Nat
         /\ LesserOf(Occurrences(h, t), m) < n <=> ~(LesserOf(Occurrences(h, t), m) >= n)
BY ValidatorConstants, OccurrencesInContext DEF LesserOf

(* A step that leaves the cache alone and changes one thread               *)
LEMMA OtherJobsExact ==
  ASSUME ValidatorTypeOK, ShortInv, NEW th \in Thread, cache' = cache,
         \A other \in Thread \ {th} :
           pc'[other] = pc[other] /\ job'[other] = job[other],
         JobExact(th)'
  PROVE  ShortInv'
BY DEF ShortInv, CachedExact, JobExact

LEMMA ShortValidateStep ==
  ASSUME KeysDistinct, ValidatorTypeOK, ShortInv, NEW th \in Thread, ValidateStep(th)
  PROVE  ShortInv'
<1> DEFINE t == job[th].tool
           h == job[th].seq
<1>1. t \in Tool /\ h \in Seq(Tool) /\ Question(Key(th)) = <<t, Context(h)>>
  BY KeyType, ThreadsKey
<1>2. /\ pc \in [Thread -> Label]
      /\ job \in [Thread -> Job]
      /\ cycle_threshold \in Thresholds
  BY DEF ValidatorTypeOK
<1>3. \A other \in Thread \ {th} :
        pc'[other] = pc[other] /\ job'[other] = job[other]
  BY <1>2 DEF ValidateStep, Lookup, Examine, Decide, Store, Goto, Answer
<1>4. CASE Lookup(th)
  <2>1. /\ cache' = cache
        /\ job'[th].tool = t /\ job'[th].seq = h /\ pc'[th] \in {"done", "examine"}
        /\ pc'[th] = "done" => Key(th) \in DOMAIN cache /\ job'[th].verdict = cache[Key(th)]
    BY <1>2, <1>4 DEF Lookup, Goto, Answer, Job
  <2>2. ASSUME pc'[th] = "done", Len(h) < ContextLength
        PROVE  Exact(h, t, job'[th].verdict)
    <3>1. Context(h) = h
      BY <1>1, <2>2, ShortKeys
    <3>2. Question(Key(th))[1] = t /\ Question(Key(th))[2] = h
      BY <1>1, <3>1
    <3> QED
      BY <2>1, <2>2, <3>2 DEF ShortInv, CachedExact
  <2>3. JobExact(th)'
    BY <2>1, <2>2 DEF JobExact
  <2> QED
    BY <1>3, <2>1, <2>3, OtherJobsExact
<1>5. CASE Examine(th)
  <2>1. /\ cache' = cache
        /\ job'[th].tool = t /\ job'[th].seq = h /\ pc'[th] \in {"store", "decide"}
        /\ pc'[th] = "store" =>
             \/ job'[th].verdict = "unknown" /\ ~IsKnown(t)
             \/ job'[th].verdict = "edge" /\ IsKnown(t) /\ ~EdgeAllows(h, t)
    BY <1>2, <1>5 DEF Examine, Goto, Answer, Job
  <2>2. ASSUME pc'[th] = "decide"
        PROVE  /\ IsKnown(t) /\ EdgeAllows(h, t)
               /\ job'[th].count = LesserOf(Occurrences(h, t), cycle_threshold)
    BY <1>2, <1>5, <2>2 DEF Examine, Goto, Answer, Job
  <2>3. ASSUME pc'[th] = "store"
        PROVE  Exact(h, t, job'[th].verdict)
    <3>1. LesserOf(Occurrences(h, t), cycle_threshold) < cycle_threshold
            <=> ~(LesserOf(Occurrences(h, t), cycle_threshold) >= cycle_threshold)
      BY <1>1, <1>2, LesserType
    <3>2. job'[th].verdict = FreshVerdict(h, t, cycle_threshold, cycle_threshold)
      BY <2>1, <2>3, <3>1, FreshVerdicts
    <3> QED
      BY <1>2, <3>2 DEF Exact
  <2>4. JobExact(th)'
    BY <1>2, <2>1, <2>2, <2>3 DEF JobExact
  <2> QED
    BY <1>3, <2>1, <2>4, OtherJobsExact
<1>6. CASE Decide(th)
  <2>1. PICK m \in Thresholds : job[th].count = LesserOf(Occurrences(h, t), m)
    BY <1>6 DEF Decide, ShortInv, JobExact
  <2>2. IsKnown(t) /\ EdgeAllows(h, t)
    BY <1>6 DEF Decide, ShortInv, JobExact
  <2>3. LesserOf(Occurrences(h, t), m) < cycle_threshold
          <=> ~(LesserOf(Occurrences(h, t), m) >= cycle_threshold)
    BY <1>1, <1>2, LesserType
  <2>4. /\ cache' = cache
        /\ job'[th].tool = t /\ job'[th].seq = h /\ pc'[th] \in {"store", "done"}
        /\ job'[th].verdict =
             IF job[th].count >= cycle_threshold THEN "cycle"
             ELSE IF Exfiltrates(Append(h, t)) THEN "exfiltration" ELSE "approved"
    BY <1>2, <1>6 DEF Decide, Goto, Answer, Job
  <2>5. job'[th].verdict = FreshVerdict(h, t, m, cycle_threshold)
    BY <2>1, <2>2, <2>3, <2>4, FreshVerdicts
  <2>6. Exact(h, t, job'[th].verdict)
    BY <1>2, <2>5 DEF Exact
  <2>7. JobExact(th)'
    BY <2>4, <2>6 DEF JobExact
  <2> QED
    BY <1>3, <2>4, <2>7, OtherJobsExact
<1>7. CASE Store(th)
  <2>1. job' = job /\ pc'[th] = "done" /\ pc[th] = "store"
    BY <1>2, <1>7 DEF Store, Goto
  <2>2. Len(h) < ContextLength => Exact(h, t, job[th].verdict)
    BY <2>1 DEF ShortInv, JobExact
  <2>3. ASSUME NEW k \in DOMAIN cache', Len(Question(k)[2]) < ContextLength
        PROVE  Exact(Question(k)[2], Question(k)[1], cache'[k])
    <3>1. CASE k = Key(th)
      <4>1. cache'[k] = job[th].verdict /\ Question(k)[1] = t /\ Question(k)[2] = Context(h)
        BY <1>1, <1>7, <3>1 DEF Store, Put
      <4>2. Len(h) < ContextLength /\ Context(h) = h
        BY <1>1, <2>3, <4>1, ShortKeys
      <4> QED
        BY <2>2, <4>1, <4>2
    <3>2. CASE k # Key(th)
      <4>1. k \in DOMAIN cache /\ cache'[k] = cache[k]
        BY <1>7, <3>2 DEF Store, Put
      <4> QED
        BY <2>3, <4>1 DEF ShortInv, CachedExact
    <3> QED
      BY <3>1, <3>2
  <2>4. CachedExact'
    BY <2>3 DEF CachedExact
  <2>5. JobExact(th)'
    BY <2>1, <2>2 DEF JobExact
  <2>6. \A other \in Thread : JobExact(other)'
    BY <1>3, <2>5 DEF ShortInv, JobExact
  <2> QED
    BY <2>4, <2>6 DEF ShortInv
<1> QED
  BY <1>4, <1>5, <1>6, <1>7 DEF ValidateStep

-----------------------------------------------------------------------------
LEMMA BoundedHistoryType == BoundedHistories \subseteq Seq(Tool)
BY ValidatorAssumption DEF BoundedHistories

LEMMA WindowInit == ValidatorInit => WindowInv /\ ShortInv
BY ValidatorTypeInit, VerdictsSoundInit
   DEF WindowInv, ShortInv, CachedExact, JobExact, ValidatorInit

LEMMA WindowNext ==
  ASSUME KeysDistinct, WindowInv, ShortInv, [ValidatorNext]_validatorVars
  PROVE  WindowInv' /\ ShortInv'
<1>1. /\ ValidatorTypeOK /\ VerdictsSound({})
      /\ pc \in [Thread -> Label] /\ job \in [Thread -> Job]
      /\ {} \in SUBSET {cycle_threshold}
  BY DEF WindowInv, ValidatorTypeOK
<1>2. ASSUME NEW th \in Thread, ValidateStep(th) PROVE WindowInv' /\ ShortInv'
  BY <1>1, <1>2, TypeValidateStep, ValidateStepSound, ShortValidateStep DEF WindowInv
<1>3. ASSUME NEW th \in Thread, NEW j \in Job, NEW label \in {"idle", "lookup"},
             job' = [job EXCEPT ![th] = j], Goto(th, label), UNCHANGED <<cache, cycle_threshold>>
      PROVE  WindowInv' /\ ShortInv'
  <2>1. /\ pc' = [pc EXCEPT ![th] = pc'[th]] /\ job' = [job EXCEPT ![th] = job'[th]]
        /\ pc'[th] \in {"idle", "lookup"}
        /\ \A other \in Thread \ {th} : pc'[other] = pc[other] /\ job'[other] = job[other]
    BY <1>1, <1>3 DEF Goto
  <2>2. ValidatorTypeOK'
    BY <1>1, <1>3 DEF ValidatorTypeOK, Goto, Label
  <2>3. VerdictsSound({})'
    BY <1>1, <1>3, <2>1, OutsideValidate
  <2>4. JobExact(th)'
    BY <2>1 DEF JobExact
  <2> QED
    BY <1>1, <1>3, <2>1, <2>2, <2>3, <2>4, OtherJobsExact DEF WindowInv
<1>4. ASSUME NEW th \in Thread, Finish(th) PROVE WindowInv' /\ ShortInv'
  BY <1>3, <1>4, NoJobType DEF Finish, Return
<1>5. ASSUME NEW th \in Thread, NEW t \in Tool, NEW h \in BoundedHistories, Ask(th, t, h)
      PROVE  WindowInv' /\ ShortInv'
  <2>1. NewJob(t, h) \in Job
    BY BoundedHistoryType DEF NewJob, Job, Histories, Verdict
  <2> QED
    BY <1>3, <1>5, <2>1 DEF Ask
<1>6. ASSUME NEW n \in Thresholds, SetCycleThreshold(n) PROVE WindowInv' /\ ShortInv'
  BY <1>1, <1>6
     DEF SetCycleThreshold, WindowInv, ShortInv, ValidatorTypeOK, VerdictsSound,
         CachedSound, JobSound, CachedExact, JobExact
<1>7. CASE ResetCacheStats
  BY <1>1, <1>7
     DEF ResetCacheStats, WindowInv, ShortInv, ValidatorTypeOK, VerdictsSound,
         CachedSound, JobSound, CachedExact, JobExact
<1>8. CASE UNCHANGED validatorVars
  BY <1>1, <1>8, ValidatorIdles
     DEF validatorVars, WindowInv, ShortInv, ValidatorTypeOK, CachedExact, JobExact
<1> QED
  BY <1>2, <1>4, <1>5, <1>6, <1>7, <1>8 DEF ValidatorNext

(* An approval is right about the window of the last ContextLength calls,  *)
(* and "unknown" and "edge" are said only when true of the whole history,  *)
(* with the cache filled, emptied and overflowing and the threshold        *)
(* changing under the threads (validate, set_cycle_threshold,              *)
(* reset_cache_stats), as long as no two questions have the same key.      *)
THEOREM AnswersAlwaysSound ==
  ASSUME KeysDistinct PROVE ValidatorSpec => []AnswersSound
<1>1. WindowInv => AnswersSound
  <2> SUFFICES ASSUME WindowInv, NEW th \in Thread, pc[th] = "done"
               PROVE  CASE job[th].verdict = "approved" -> Allowed(Context(job[th].seq), job[th].tool)
                        [] job[th].verdict = "unknown"  -> ~IsKnown(job[th].tool)
                        [] job[th].verdict = "edge"     -> ~EdgeAllows(job[th].seq, job[th].tool)
                        [] OTHER                        -> TRUE
    BY Zenon DEF AnswersSound
  <2>1. /\ job[th].verdict = "approved" => Allowed(Context(job[th].seq), job[th].tool)
        /\ job[th].verdict = "unknown" => ~IsKnown(job[th].tool)
        /\ job[th].verdict = "edge" => ~EdgeAllows(job[th].seq, job[th].tool)
    BY DEF WindowInv, VerdictsSound, JobSound, Permits
  <2> QED
    BY <2>1, Zenon
<1>2. WindowInv /\ ShortInv /\ [ValidatorNext]_validatorVars => WindowInv' /\ ShortInv'
  BY WindowNext
<1> QED
  BY <1>1, <1>2, WindowInit, PTL DEF ValidatorSpec

(* For histories shorter than a key the cache is transparent: each answer  *)
(* is one that validate gives without a cache, at thresholds there have    *)
(* been (validate, generate_cache_key), as long as no two questions have   *)
(* the same key.                                                           *)
THEOREM ShortHistoriesAlwaysExact ==
  ASSUME KeysDistinct PROVE ValidatorSpec => []ShortHistoriesExact
<1>1. ShortInv => ShortHistoriesExact
  BY DEF ShortInv, JobExact, Exact, ShortHistoriesExact
<1>2. WindowInv /\ ShortInv /\ [ValidatorNext]_validatorVars => WindowInv' /\ ShortInv'
  BY WindowNext
<1> QED
  BY <1>1, <1>2, WindowInit, PTL DEF ValidatorSpec
============================================================================
