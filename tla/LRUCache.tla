------------------------------ MODULE LRUCache ------------------------------
(***************************************************************************)
(* LRUCache (src/include/guardian/policy_graph.hpp), the cache of the      *)
(* validator: a list of entries, the one used last in front, and a map     *)
(* from a key to its place in the list.  An iterator is modelled by the    *)
(* entry it points to.  Every operation holds the mutex from its first     *)
(* line to its last, so each is one action.                                *)
(*                                                                         *)
(* A history variable records, per key, what was used since.               *)
(***************************************************************************)
EXTENDS Naturals, Sequences, FiniteSets

CONSTANTS
  Key, Value,
  MaxSize       \* max_size_: 200 in the validator

ASSUME MaxSizeAssumption == MaxSize \in Nat \ {0}

VARIABLES
  cache_list,   \* the entries, the most recently used first
  cache_map,    \* key -> entry of cache_list
  since         \* history: key put since the cache was last emptied ->
                \*          the other keys used after its last use
cacheVars == <<cache_list, cache_map, since>>

Entry == [key : Key, value : Value]

CacheInit ==
  /\ cache_list = <<>>
  /\ cache_map = [k \in {} |-> k]
  /\ since = [k \in {} |-> {}]

-----------------------------------------------------------------------------
(* Erasing the entry of a key from the list *)
Place(list, k) == CHOOSE i \in DOMAIN list : list[i].key = k

Erased(list, k) ==
  LET i == Place(list, k)
  IN  [j \in 1 .. Len(list) - 1 |-> IF j < i THEN list[j] ELSE list[j + 1]]

Used(k) ==
  since' = [l \in DOMAIN since \cup {k} |-> IF l = k THEN {} ELSE since[l] \cup {k}]

(* SEEDED FAULT for Get: a use does not count. *)
GetInPlace(k) ==
  /\ k \in DOMAIN cache_map
  /\ Used(k)
  /\ UNCHANGED <<cache_list, cache_map>>

(* get of a key that is there: its entry is spliced to the front.  A get   *)
(* of any other key changes nothing.                                       *)
Get(k) ==
  /\ k \in DOMAIN cache_map
  /\ cache_list' = <<cache_map[k]>> \o Erased(cache_list, k)
  /\ Used(k)
  /\ UNCHANGED cache_map

(* SEEDED FAULT for Put: evicts one entry early. *)
PutEarly(k, v) ==
  LET entry == [key |-> k, value |-> v]
      list  == <<entry>> \o (IF k \in DOMAIN cache_map THEN Erased(cache_list, k)
                             ELSE cache_list)
      map   == [l \in DOMAIN cache_map \cup {k} |-> IF l = k THEN entry ELSE cache_map[l]]
      last  == list[Len(list)].key
      full  == Cardinality(DOMAIN map) >= MaxSize
  IN  /\ cache_list' = IF full THEN SubSeq(list, 1, Len(list) - 1) ELSE list
      /\ cache_map' = [l \in IF full THEN DOMAIN map \ {last} ELSE DOMAIN map |-> map[l]]
      /\ Used(k)

(* SEEDED FAULT for Put: the map loses the newest key, the list the oldest. *)
PutDropsNewest(k, v) ==
  LET entry == [key |-> k, value |-> v]
      list  == <<entry>> \o (IF k \in DOMAIN cache_map THEN Erased(cache_list, k)
                             ELSE cache_list)
      map   == [l \in DOMAIN cache_map \cup {k} |-> IF l = k THEN entry ELSE cache_map[l]]
      full  == Cardinality(DOMAIN map) > MaxSize
  IN  /\ cache_list' = IF full THEN SubSeq(list, 1, Len(list) - 1) ELSE list
      /\ cache_map' = [l \in IF full THEN DOMAIN map \ {k} ELSE DOMAIN map |-> map[l]]
      /\ Used(k)

(* put: what the key had is erased, the new entry goes to the front, and   *)
(* the entry at the back leaves when there are too many.                   *)
Put(k, v) ==
  LET entry == [key |-> k, value |-> v]
      list  == <<entry>> \o (IF k \in DOMAIN cache_map THEN Erased(cache_list, k)
                             ELSE cache_list)
      map   == [l \in DOMAIN cache_map \cup {k} |-> IF l = k THEN entry ELSE cache_map[l]]
      last  == list[Len(list)].key
      full  == Cardinality(DOMAIN map) > MaxSize
  IN  /\ cache_list' = IF full THEN SubSeq(list, 1, Len(list) - 1) ELSE list
      /\ cache_map' = [l \in IF full THEN DOMAIN map \ {last} ELSE DOMAIN map |-> map[l]]
      /\ Used(k)

Clear ==
  /\ cache_list' = <<>>
  /\ cache_map' = [k \in {} |-> k]
  /\ since' = [k \in {} |-> {}]

(* The copy constructor and assignment: the list is copied and the map is  *)
(* made anew from it.  The copy is used from here on.                      *)
Copy ==
  /\ cache_map' = [k \in {cache_list[i].key : i \in DOMAIN cache_list} |->
                     cache_list[Place(cache_list, k)]]
  /\ UNCHANGED <<cache_list, since>>

CacheNext ==
  \/ \E k \in Key : Get(k)
  \/ \E k \in Key, v \in Value : Put(k, v)
  \/ Clear
  \/ Copy

CacheSpec == CacheInit /\ [][CacheNext]_cacheVars

-----------------------------------------------------------------------------
(* The list holds no more than max_size_ entries (put). *)
LRUTypeOK ==
  /\ cache_list \in Seq(Entry)
  /\ Len(cache_list) <= MaxSize
  /\ DOMAIN cache_map \subseteq Key
  /\ cache_map \in [DOMAIN cache_map -> Entry]
  /\ DOMAIN since \subseteq Key
  /\ since \in [DOMAIN since -> SUBSET Key]

(* The list holds one entry per key of the map, and the map leads from a   *)
(* key to that entry: no iterator dangles, whatever was evicted and put    *)
(* again (get, put, clear).                                                *)
ListAndMapAgree ==
  /\ \A i, j \in DOMAIN cache_list : cache_list[i].key = cache_list[j].key => i = j
  /\ DOMAIN cache_map = {cache_list[i].key : i \in DOMAIN cache_list}
  /\ \A i \in DOMAIN cache_list : cache_map[cache_list[i].key] = cache_list[i]

(* A key is in the cache exactly while fewer than max_size_ other keys     *)
(* were used since its own last use: what is evicted is what was used      *)
(* longest ago (get, put).                                                 *)
LeastRecentlyUsedGoes ==
  \A k \in Key :
    k \in DOMAIN cache_map <=> k \in DOMAIN since /\ Cardinality(since[k]) < MaxSize

(* To its users the cache is a bounded map that forgets.                   *)
Cache == INSTANCE BoundedCache
           WITH cache <- [k \in DOMAIN cache_map |-> cache_map[k].value]

ImplementsBoundedCache == Cache!Spec
=============================================================================
