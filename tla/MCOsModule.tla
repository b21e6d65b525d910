----------------------------- MODULE MCOsModule -----------------------------
(* Two volumes, the first with directories two deep. *)
EXTENDS OsModule

MCVolumes == <<"v", "w">>
MCPlace == {<<"v">>, <<"v", "a">>, <<"v", "b">>, <<"v", "a", "b">>, <<"w">>}
MCImageDir == <<"v", "b">>
MCPath(f, v, s) == [form |-> f, vol |-> v, steps |-> s]
MCPaths == {MCPath("cwd", 1, <<>>), MCPath("relative", 1, <<"a">>), MCPath("rooted", 1, <<>>),
            MCPath("mapped", 1, <<"a", "b">>), MCPath("label", 1, <<"a">>),
            MCPath("label", 2, <<>>), MCPath("label", 3, <<>>), MCPath("drive", 1, <<"a">>)}
=============================================================================
