---------------------------- MODULE MCScriptApp ----------------------------
(* Instances of ScriptApp for TLC: every application may launch a script   *)
(* and a REPL.                                                             *)
EXTENDS ScriptApp

MCReq == App \X {"script", "repl"}
=============================================================================
