------------------------- MODULE MCValidatorClients -------------------------
(***************************************************************************)
(* A small instance of ValidatorClients: a database (source), a network    *)
(* (destination) and a tool the graph does not know, with one edge         *)
(* missing.                                                                *)
(***************************************************************************)
EXTENDS ValidatorClients, TLC

CONSTANTS db, net, ghost

MCTool == {db, net, ghost}
(* Names without separators *)
PlainNames == [t \in Tool |-> <<t>>]

MCNode == {"DB", "NET"}
MCNodeOf == (db :> "DB") @@ (net :> "NET")
MCTypeOf == "DB" :> "SENSITIVE_SOURCE" @@ "NET" :> "EXTERNAL_DESTINATION"
MCEdge == {<<"DB", "DB">>, <<"DB", "NET">>, <<"NET", "DB">>}

(* Plain names grant the hypothesis on keys. *)
ASSUME KeysAssumption == KeysDistinct
=============================================================================
