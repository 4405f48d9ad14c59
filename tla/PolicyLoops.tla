---------------------------- MODULE PolicyLoops -----------------------------
(***************************************************************************)
(* The loops of PolicyValidator (src/src/policy_validator.cpp) over a      *)
(* sequence of calls: detect_exfiltration, which validate uses and which   *)
(* Policy states as a predicate, and detect_cycle, which only its callers  *)
(* use.  They go from left to right and are taken one iteration at a time: *)
(* calls are those they have gone through, and found is what they would    *)
(* return after them.                                                      *)
(***************************************************************************)
EXTENDS Policy

CONSTANTS
  ThresholdOf,  \* per tool: its own threshold, or the common one
  MaxCalls      \* bound: the longest sequence that is looked at

ASSUME ThresholdAssumption == ThresholdOf \in [Tool -> Nat]

VARIABLES
  calls,        \* the sequence that is looked at, as far as it has been
  scan,         \* detect_exfiltration: sources that are still active, pair found
  run           \* detect_cycle: the tool of the last run, its length, cycle found

loopsVars == <<calls, scan, run>>

-----------------------------------------------------------------------------
(* SEEDED FAULT for ScanCall: a processor takes one source away. *)
ScanCallDropsOne(s, t) ==
  IF s.found # <<>> THEN s
  ELSE IF HasType(t, "SENSITIVE_SOURCE") THEN [s EXCEPT !.active = Append(@, t)]
  ELSE IF HasType(t, "DATA_PROCESSOR") /\ s.active # <<>>
       THEN [s EXCEPT !.active = Tail(@)]
  ELSE IF HasType(t, "EXTERNAL_DESTINATION") /\ s.active # <<>>
       THEN [s EXCEPT !.found = <<s.active[1], t>>]
  ELSE s

(* One call in the loop of detect_exfiltration.  The first pair that is    *)
(* found is returned.                                                      *)
ScanCall(s, t) ==
  IF s.found # <<>> THEN s
  ELSE IF HasType(t, "SENSITIVE_SOURCE") THEN [s EXCEPT !.active = Append(@, t)]
  ELSE IF HasType(t, "DATA_PROCESSOR") THEN [s EXCEPT !.active = <<>>]
  ELSE IF HasType(t, "EXTERNAL_DESTINATION") /\ s.active # <<>>
       THEN [s EXCEPT !.found = <<s.active[1], t>>]
  ELSE s

-----------------------------------------------------------------------------
(* SEEDED FAULT for RunOn: the run goes on after another tool. *)
RunOnAlways(r, t) ==
  [r EXCEPT !.tool = t, !.length = @ + 1,
            !.found = @ \/ r.length + 1 > ThresholdOf[t]]

(* One call in the loop of detect_cycle, after the first: the tool called   *)
(* last, how often in a row, and whether that was ever too often.          *)
RunOn(r, t) ==
  LET length == IF t = r.tool THEN r.length + 1 ELSE 1
  IN  [tool |-> t, length |-> length, found |-> r.found \/ length > ThresholdOf[t]]

(* The first call begins the run; the loop starts with the second. *)
RunFrom(r, t) ==
  IF calls = <<>> THEN [r EXCEPT !.tool = t, !.length = 1] ELSE RunOn(r, t)

-----------------------------------------------------------------------------
LoopsInit ==
  /\ calls = <<>>
  /\ scan = [active |-> <<>>, found |-> <<>>]
  /\ run = [tool |-> "", length |-> 0, found |-> FALSE]

LookAtCall(t) ==
  /\ Len(calls) < MaxCalls
  /\ calls' = Append(calls, t)
  /\ scan' = ScanCall(scan, t)
  /\ run' = RunFrom(run, t)

LoopsNext == \E t \in Tool : LookAtCall(t)

LoopsSpec == LoopsInit /\ [][LoopsNext]_loopsVars

-----------------------------------------------------------------------------
(* The calls from i to j are all of one tool *)
SameTool(seq, i, j) == \A k \in i .. j : seq[k] = seq[i]

(* detect_exfiltration finds a pair exactly when some source reaches some  *)
(* destination with no processor in between, whatever else was called and  *)
(* however many sources there were.  The pair it reports is a leak itself: *)
(* the first destination a leak ends at and the earliest of the sources    *)
(* that reach it (active_sources.front).                                   *)
ScanFindsExfiltration ==
  LET pair == scan.found
  IN  /\ pair # <<>> <=> Exfiltrates(calls)
      /\ pair # <<>> =>
           \E i, j \in 1 .. Len(calls) :
             /\ i < j /\ calls[i] = pair[1] /\ calls[j] = pair[2]
             /\ Exfiltrates(SubSeq(calls, i, j))
             /\ ~Exfiltrates(SubSeq(calls, 1, j - 1))
             /\ \A h \in 1 .. i - 1 :
                  HasType(calls[h], "SENSITIVE_SOURCE") =>
                    \E k \in h .. i : HasType(calls[k], "DATA_PROCESSOR")

(* detect_cycle finds exactly the sequences in which a tool is called more *)
(* often in a row than its own threshold, by a call that is not the first: *)
(* with a threshold of 0, which a configuration may have, the first call   *)
(* of a sequence is not found, and every later one is.                     *)
CyclesFound ==
  run.found <=>
    \E i, j \in 1 .. Len(calls) :
      i <= j /\ 1 < j /\ SameTool(calls, i, j) /\ j - i + 1 > ThresholdOf[calls[i]]
=============================================================================
