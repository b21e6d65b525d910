------------------------------- MODULE MCRepl -------------------------------
(* An instance of Repl for TLC.                                            *)
EXTENDS Repl

OneMatch == {<<"a">>}

\* Nothing, or a character of an older line.
AnyText == {<<>>, <<"a">>}
=============================================================================
