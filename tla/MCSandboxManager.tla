-------------------------- MODULE MCSandboxManager --------------------------
(***************************************************************************)
(* One tool and two timeouts, none and a short one.                        *)
(***************************************************************************)
EXTENDS SandboxManager

CONSTANTS safe, tight

MCTimeoutOf == [cfg \in Config |-> IF cfg = safe THEN 0 ELSE 1]
=============================================================================
