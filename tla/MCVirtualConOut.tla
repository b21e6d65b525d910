--------------------------- MODULE MCVirtualConOut ---------------------------
(* Instances of VirtualConOut for TLC: two small modes, short strings.      *)
EXTENDS VirtualConOut, TLC

MCModeData == <<[Columns |-> 3, Rows |-> 2], [Columns |-> 2, Rows |-> 3]>>

\* Every control character, narrow and wide characters, and a line that wraps.
MCStrings == {<<"BS">>, <<"LF">>, <<"CR">>, <<"c", "c", "c">>,
              <<"WIDE", "c">>, <<"WIDE", "c", "NARROW", "c">>}

\* Row buffers differ in nothing but their address.
MCSymmetry == Permutations(Addr)
=============================================================================
