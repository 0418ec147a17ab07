------------------------------ MODULE MCCaseSuite ------------------------------
(***************************************************************************)
(* CaseSuite on the pairs a run with Redis compares, and on the pair that  *)
(* is left when it is not there.                                           *)
(***************************************************************************)
EXTENDS CaseSuite

Compares(b, o) == [base |-> b, other |-> o]

MCPairs == {Compares("redis", "valkey"), Compares("redis", "aki")}
MCWithoutRedis == {Compares("valkey", "aki")}

\* The recursive calls of the comparison, as LETs for TLC's coverage.
MCString(v)      == LET text == Rendering(v) IN text
MCNormalize(v)   == LET normal == Normalizing(v) IN normal
MCEqualRaw(a, b) == LET equal == Comparing(a, b) IN equal
================================================================================
