--------------------------- MODULE BoundedCache -----------------------------
(***************************************************************************)
(* What users of an LRUCache may rely on, and all PolicyValidator's model  *)
(* does: a partial map of bounded size, in which a new entry may cost an   *)
(* old one, but only when the cache is full.                               *)
(***************************************************************************)
EXTENDS Naturals, FiniteSets

CONSTANTS Key, Value, MaxSize

VARIABLE cache

Init == cache = [k \in {} |-> k]

Put(key, value) ==
  LET others == DOMAIN cache \ {key}
  IN  \E dropped \in SUBSET others :
        /\ Cardinality(dropped) = IF Cardinality(others) >= MaxSize THEN 1 ELSE 0
        /\ cache' = [k \in (others \ dropped) \cup {key} |->
                       IF k = key THEN value ELSE cache[k]]

Clear == cache' = [k \in {} |-> k]

Next == (\E key \in Key, value \in Value : Put(key, value)) \/ Clear

Spec == Init /\ [][Next]_cache
=============================================================================
