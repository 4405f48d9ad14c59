-------------------------- MODULE ValidatorClients --------------------------
(***************************************************************************)
(* The validator by itself: threads ask it about any tool after any        *)
(* history, while set_cycle_threshold and reset_cache_stats are called at  *)
(* any time.                                                               *)
(***************************************************************************)
EXTENDS PolicyValidator

(* The histories of at most MaxHistory calls *)
BoundedHistories == UNION {[1 .. n -> Tool] : n \in 0 .. MaxHistory}

Ask(th, t, h) ==
  /\ pc[th] = "idle"
  /\ job' = [job EXCEPT ![th] = NewJob(t, h)]
  /\ Goto(th, "lookup")
  /\ UNCHANGED <<cache, cycle_threshold>>

Finish(th) ==
  /\ pc[th] = "done"
  /\ Return(th)
  /\ UNCHANGED <<cache, cycle_threshold>>

ValidatorNext ==
  \/ \E th \in Thread : ValidateStep(th) \/ Finish(th)
  \/ \E th \in Thread, t \in Tool, h \in BoundedHistories : Ask(th, t, h)
  \/ \E n \in Thresholds : SetCycleThreshold(n)
  \/ ResetCacheStats

ValidatorSpec == ValidatorInit /\ [][ValidatorNext]_validatorVars

-----------------------------------------------------------------------------
(* The verdict of a validator without a cache that runs all its checks and *)
(* finds the threshold at m while it counts and at n when it compares      *)
FreshVerdict(h, t, m, n) ==
  CASE ~IsKnown(t) -> "unknown"
    [] IsKnown(t) /\ ~EdgeAllows(h, t) -> "edge"
    [] IsKnown(t) /\ EdgeAllows(h, t) /\ LesserOf(Occurrences(h, t), m) >= n -> "cycle"
    [] Allowed(h, t) /\ LesserOf(Occurrences(h, t), m) < n -> "approved"
    [] OTHER -> "exfiltration"

(* Whichever way an answer came about, from the cache or from the checks,  *)
(* with the threshold changing and the cache being emptied meanwhile: an   *)
(* approval is right about the window of the last ContextLength calls, and *)
(* "unknown" and "edge" are said only when true of the whole history, as   *)
(* long as no two questions have the same key (KeysDistinct).              *)
AnswersSound ==
  \A th \in Thread :
    LET t == job[th].tool
        h == job[th].seq
    IN  pc[th] = "done" =>
          CASE job[th].verdict = "approved" -> Allowed(Context(h), t)
            [] job[th].verdict = "unknown"  -> ~IsKnown(t)
            [] job[th].verdict = "edge"     -> ~EdgeAllows(h, t)
            [] OTHER                        -> TRUE

(* A history that fits in a key shorter than ContextLength is told apart   *)
(* from every other if no two questions have the same key, and then the    *)
(* cache is transparent to it: the answer, cached or not, is one that a    *)
(* validator without a cache gives at thresholds there have been.          *)
ShortHistoriesExact ==
  \A th \in Thread :
    pc[th] = "done" /\ Len(job[th].seq) < ContextLength =>
      \E m, n \in Thresholds :
        job[th].verdict = FreshVerdict(job[th].seq, job[th].tool, m, n)
=============================================================================
