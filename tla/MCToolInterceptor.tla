------------------------- MODULE MCToolInterceptor -------------------------
(***************************************************************************)
(* A small instance of ToolInterceptor: a database (source) that must not  *)
(* be called twice in a row and a network (destination).                   *)
(***************************************************************************)
EXTENDS ToolInterceptor, TLC

CONSTANTS db, net

(* Names without separators *)
PlainNames == [t \in Tool |-> <<t>>]

MCNode == {"DB", "NET"}
MCNodeOf == (db :> "DB") @@ (net :> "NET")
MCTypeOf == "DB" :> "SENSITIVE_SOURCE" @@ "NET" :> "EXTERNAL_DESTINATION"
MCEdge == {<<"DB", "NET">>, <<"NET", "DB">>, <<"NET", "NET">>}

Symmetry == Permutations(Thread) \cup Permutations(Session)

(* Plain names grant the hypothesis on keys. *)
ASSUME KeysAssumption == KeysDistinct
=============================================================================
