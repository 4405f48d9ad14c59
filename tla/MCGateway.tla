------------------------------ MODULE MCGateway -----------------------------
(***************************************************************************)
(* A gateway with two agents, an operator and two sessions, over the edges *)
(* from reading to sending and back.                                       *)
(***************************************************************************)
EXTENDS Gateway, TLC

CONSTANTS read, send

MCNodeOf == [t \in {read, send} |-> IF t = read THEN "READ" ELSE "SEND"]
MCTypeOf == [n \in {"READ", "SEND"} |-> "NORMAL"]
MCEdge == {<<"READ", "READ">>, <<"READ", "SEND">>, <<"SEND", "READ">>}

(* Nothing tells one session, or one agent, from another. *)
Alike == Permutations(Agent) \cup Permutations(Session)
=============================================================================
