--------------------------- MODULE MCScriptEngine ---------------------------
(* Instances of ScriptEngine for TLC: interchangeable requests.            *)
EXTENDS ScriptEngine, TLC

Symmetry == Permutations(Req)
=============================================================================
