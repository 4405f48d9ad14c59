-------------------------- MODULE PolicyValidator --------------------------
(***************************************************************************)
(* PolicyValidator::validate (src/src/policy_validator.cpp), as the        *)
(* threads that call it run it.  Only the LRU cache has a lock, taken by   *)
(* get, by put and by clear, each for itself; cycle_threshold_ is a plain  *)
(* integer that set_cycle_threshold overwrites at any time and validate    *)
(* reads more than once.  A call is therefore a series of steps between    *)
(* which other threads run:                                                *)
(*                                                                         *)
(*   lookup   get under the cache's lock; a hit is the answer              *)
(*   examine  unknown tool and missing edge; else count the repetitions,   *)
(*            stopping at the threshold                                    *)
(*   decide   compare the count with the threshold, read again; look for   *)
(*            an exfiltration                                              *)
(*   store    put under the cache's lock                                   *)
(*                                                                         *)
(* The counting loop reads the threshold once per repetition found.  It is *)
(* taken at one value here: the count it ends with is compared with a      *)
(* fresh value in the next step, and every verdict a loop that sees the    *)
(* threshold change can lead to is reached from one of the values it saw.  *)
(*                                                                         *)
(* The LRU cache is taken as a partial map from which put may drop any     *)
(* other entry when there are too many: which one depends on the order of  *)
(* use, and no verdict does.                                               *)
(***************************************************************************)
EXTENDS Policy, SequencesExt

CONSTANTS
  NameText,       \* the text of each tool's name: a sequence of pieces, of
                  \* which the separators ":" and "," are pieces of their own
  Thread,         \* the threads that validate
  CacheCapacity,  \* entries the cache keeps (200)
  Thresholds,     \* values cycle_threshold_ is given
  MaxHistory      \* BOUND: length of a history

ASSUME ValidatorAssumption ==
  /\ Tool # {}
  /\ DOMAIN NameText = Tool /\ IsInjective(NameText)
  /\ CacheCapacity \in Nat \ {0}
  /\ Thresholds \subseteq Nat /\ Thresholds # {}
  /\ MaxHistory \in Nat

VARIABLES
  cache,            \* validation_cache_: verdicts by cache key
  cycle_threshold,  \* cycle_threshold_
  pc,               \* where each thread is in its call
  job               \* the local variables of its call of validate

validatorVars == <<cache, cycle_threshold, pc, job>>

Histories == Seq(Tool)

-----------------------------------------------------------------------------
(* What a key is made for: a tool and the context of a history *)
Questions == Tool \X BoundedSeq(Tool, ContextLength)

(* generate_cache_key puts the names one behind the other, each with its   *)
(* separator, and escapes nothing.                                         *)
KeyText == [q \in Questions |->
  NameText[q[1]] \o <<":">>
    \o FlattenSeq([i \in 1 .. Len(q[2]) |-> Append(NameText[q[2][i]], ",")])]

(* SEEDED FAULT for CacheKey: the context is forgotten. *)
ToolOnlyKey(history, t) == KeyText[<<t, <<>>>>]

CacheKey(history, t) == KeyText[<<t, Context(history)>>]

(* HYPOTHESIS of all that is claimed of cached verdicts: no two questions  *)
(* have the same key.  Names that hold no separator grant it.              *)
KeysDistinct == IsInjective(KeyText)

-----------------------------------------------------------------------------

(* What validate answers: approved, or the check that denied *)
Verdict == {"approved", "unknown", "edge", "cycle", "exfiltration"}

Job == [tool : Tool, seq : Histories, count : Nat, verdict : Verdict]

(* The steps of validate, and of the calls of its clients around it *)
Label == {"idle", "fetch", "lookup", "examine", "decide", "store", "done",
          "append", "call"}

ValidatorTypeOK ==
  /\ DOMAIN cache \in SUBSET Range(KeyText)
  /\ cache \in [DOMAIN cache -> Verdict]
  /\ cycle_threshold \in Thresholds
  /\ pc \in [Thread -> Label]
  /\ job \in [Thread -> Job]

(* The locals at the start of a call, and those of a thread that is in none *)
NewJob(t, h) == [tool |-> t, seq |-> h, count |-> 0, verdict |-> "unknown"]
NoJob == NewJob(CHOOSE t \in Tool : TRUE, <<>>)

ValidatorInit ==
  /\ cache = [k \in {} |-> {}]
  /\ cycle_threshold \in Thresholds
  /\ pc = [th \in Thread |-> "idle"]
  /\ job = [th \in Thread |-> NoJob]

-----------------------------------------------------------------------------
Key(th) == CacheKey(job[th].seq, job[th].tool)

Goto(th, label) == pc' = [pc EXCEPT ![th] = label]

Answer(th, verdict) == job' = [job EXCEPT ![th].verdict = verdict]

(* LRUCache::get *)
Lookup(th) ==
  /\ pc[th] = "lookup"
  /\ IF Key(th) \in DOMAIN cache
     THEN Answer(th, cache[Key(th)]) /\ Goto(th, "done")
     ELSE Goto(th, "examine") /\ UNCHANGED job
  /\ UNCHANGED <<cache, cycle_threshold>>

(* The count is of all repetitions, not of consecutive ones. *)
LesserOf(m, n) == IF m <= n THEN m ELSE n

Examine(th) ==
  LET t == job[th].tool
      h == job[th].seq
  IN  /\ pc[th] = "examine"
      /\ \/ /\ ~IsKnown(t)
            /\ Answer(th, "unknown") /\ Goto(th, "store")
         \/ /\ IsKnown(t) /\ ~EdgeAllows(h, t)
            /\ Answer(th, "edge") /\ Goto(th, "store")
         \/ /\ IsKnown(t) /\ EdgeAllows(h, t)
            /\ job' = [job EXCEPT ![th].count =
                         LesserOf(Occurrences(h, t), cycle_threshold)]
            /\ Goto(th, "decide")
      /\ UNCHANGED <<cache, cycle_threshold>>

(* SEEDED FAULT for Decide: the history is searched without the new call. *)
DecideWithoutCall(th) ==
  /\ pc[th] = "decide"
  /\ IF job[th].count >= cycle_threshold
     THEN Answer(th, "cycle") /\ Goto(th, "done")
     ELSE /\ Answer(th, IF Exfiltrates(job[th].seq)
                        THEN "exfiltration" ELSE "approved")
          /\ Goto(th, "store")
  /\ UNCHANGED <<cache, cycle_threshold>>

(* SEEDED FAULT for Decide: the threshold itself is let through. *)
DecideOneTooMany(th) ==
  /\ pc[th] = "decide"
  /\ IF job[th].count > cycle_threshold
     THEN Answer(th, "cycle") /\ Goto(th, "done")
     ELSE /\ Answer(th, IF Exfiltrates(Append(job[th].seq, job[th].tool))
                        THEN "exfiltration" ELSE "approved")
          /\ Goto(th, "store")
  /\ UNCHANGED <<cache, cycle_threshold>>

(* A cycle is the one denial that is not cached. *)
Decide(th) ==
  /\ pc[th] = "decide"
  /\ IF job[th].count >= cycle_threshold
     THEN Answer(th, "cycle") /\ Goto(th, "done")
     ELSE /\ Answer(th, IF Exfiltrates(Append(job[th].seq, job[th].tool))
                        THEN "exfiltration" ELSE "approved")
          /\ Goto(th, "store")
  /\ UNCHANGED <<cache, cycle_threshold>>

(* LRUCache::put: the new entry and the ones kept; a full cache drops one. *)
Put(key, verdict) ==
  LET others == DOMAIN cache \ {key}
  IN  \E dropped \in SUBSET others :
        /\ Cardinality(dropped) =
             IF Cardinality(others) >= CacheCapacity THEN 1 ELSE 0
        /\ cache' = [k \in (others \ dropped) \cup {key} |->
                       IF k = key THEN verdict ELSE cache[k]]

Store(th) ==
  /\ pc[th] = "store"
  /\ Put(Key(th), job[th].verdict)
  /\ Goto(th, "done")
  /\ UNCHANGED <<job, cycle_threshold>>

(* The call returns, and its locals are gone. *)
Return(th) == Goto(th, "idle") /\ job' = [job EXCEPT ![th] = NoJob]

(* One step of thread th inside validate *)
ValidateStep(th) == Lookup(th) \/ Examine(th) \/ Decide(th) \/ Store(th)

(* set_cycle_threshold: no lock, and the cache keeps what it has *)
SetCycleThreshold(n) ==
  /\ cycle_threshold' = n
  /\ UNCHANGED <<cache, pc, job>>

(* reset_cache_stats empties the cache as well *)
ResetCacheStats ==
  /\ cache' = [k \in {} |-> {}]
  /\ UNCHANGED <<cycle_threshold, pc, job>>
=============================================================================
