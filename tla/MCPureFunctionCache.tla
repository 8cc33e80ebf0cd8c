-------------------------- MODULE MCPureFunctionCache --------------------------
(***************************************************************************)
(* Model-checking instances of PureFunctionCache.  The hash is a numbering *)
(* of contents and values: a good hash function.                           *)
(***************************************************************************)
EXTENDS PureFunctionCache

CONSTANTS a, b, p, q

Numbered == <<a, b, p, q>>
MCHash(v) == CHOOSE n \in DOMAIN Numbered : Numbered[n] = v

ASSUME HashIsPerfect
=============================================================================
