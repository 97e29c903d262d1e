------------------------------ MODULE MCBrowser ------------------------------
(* / has the directory a and the playlist p; /a has the directory b, the   *)
(* file f and the hidden file h; /a/b has a file of the name f, too.  The  *)
(* deep tree has /a/b/f and /a/b/b/f.  The small one is a chain of         *)
(* directories, /a/b/a, and the playlist.                                  *)
EXTENDS Browser

MCPaths == {<<>>, <<"a">>, <<"p">>, <<"a", "b">>, <<"a", "f">>, <<"a", "h">>,
            <<"a", "b", "f">>}
MCSmallPaths == {<<>>, <<"a">>, <<"p">>, <<"a", "b">>, <<"a", "b", "a">>}
MCSmallDirs == MCSmallPaths \ {<<"p">>}
MCDeepPaths == {<<>>, <<"a">>, <<"a", "b">>, <<"a", "b", "f">>,
                <<"a", "b", "b">>, <<"a", "b", "b", "f">>}
MCDeepDirs == {<<>>, <<"a">>, <<"a", "b">>, <<"a", "b", "b">>}
MCDirs == {<<>>, <<"a">>, <<"a", "b">>}
MCRank == [a |-> 1, b |-> 2, f |-> 3, h |-> 0, p |-> 4]
MCLines == (<<"p">> :> <<"f", "a">>)
MCStackValues == {0, 3}
MCZero == {0}
MCNoDirs == {}
MCA == {<<"a">>}
=============================================================================
