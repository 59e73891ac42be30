--------------------------- MODULE MC_InstallConfig ---------------------------
EXTENDS InstallConfig

CONSTANTS o1, o2, p1, p2

\* Two data directories of different depth, so that the serialisations of
\* their Configs differ in length and a cut can fall in either path.
MC_DataDirs == {<<"d">>, <<"d", "e">>}
MC_Others == {o1, o2}

\* One installer process, or two saving the same file.
MC_OneProc == {p1}
MC_TwoProcs == {p1, p2}
=============================================================================
