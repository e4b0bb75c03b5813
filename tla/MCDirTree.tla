------------------------------ MODULE MCDirTree ------------------------------
EXTENDS DirTree, TLC
MCPaths == {<<"a">>, <<"b">>, <<"a", "b">>, <<"a", "..">>}
MCSymmetry == Permutations(Procs)
=============================================================================
