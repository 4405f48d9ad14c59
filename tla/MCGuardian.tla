----------------------------- MODULE MCGuardian -----------------------------
(***************************************************************************)
(* Small instances of Guardian.  The graph has a database (source), a      *)
(* redactor (processor) and a network (destination).  Each configuration   *)
(* picks the tools it needs.                                               *)
(***************************************************************************)
EXTENDS Guardian, TLC

CONSTANTS db, fix, log, net

(* Names without separators *)
PlainNames == [t \in Tool |-> <<t>>]

MCNode == {"DB", "FIX", "LOG", "NET"}
MCNodeOf == [t \in Tool |-> CASE t = db  -> "DB"  [] t = fix -> "FIX"
                              [] t = log -> "LOG" [] t = net -> "NET"]
MCTypeOf == "DB" :> "SENSITIVE_SOURCE" @@ "FIX" :> "DATA_PROCESSOR"
            @@ "LOG" :> "NORMAL" @@ "NET" :> "EXTERNAL_DESTINATION"

(* Every edge but the ones from the database to itself and from the network  *)
(* to the redactor                                                         *)
MCEdge == (MCNode \X MCNode) \ {<<"DB", "DB">>, <<"NET", "FIX">>}

(* Every call logged, so that the network is two calls from the database     *)
LoopEdge == {<<"DB", "LOG">>, <<"LOG", "LOG">>, <<"LOG", "DB">>,
             <<"LOG", "NET">>, <<"NET", "LOG">>}

(* A chain that logs between the database and the network *)
ChainEdge == {<<"DB", "LOG">>, <<"LOG", "LOG">>, <<"LOG", "NET">>}

(* Plain names grant the hypothesis on keys, here for keys of two calls.   *)
ASSUME KeysAssumption ==
  ContextLength = 2 => KeysDistinct

(* Names with separators do not: "a" after "b:c" and "a:b" after "c" have  *)
(* one key.                                                                *)
CollidingNames == "first" :> <<"a">> @@ "second" :> <<"a", ":", "b">>
                  @@ "before first" :> <<"b", ":", "c">> @@ "before second" :> <<"c">>

Colliding == INSTANCE PolicyValidator
  WITH Tool <- DOMAIN CollidingNames, NameText <- CollidingNames, ContextLength <- 2

ASSUME CollisionAssumption ==
  Colliding!KeyText[<<"first", <<"before first">>>>]
    = Colliding!KeyText[<<"second", <<"before second">>>>]

Symmetry == Permutations(Thread) \cup Permutations(Session)
=============================================================================
