------------------------------ MODULE MCFileOps ------------------------------
(* Files of up to four bytes of any kind, and up to seven of plain ones,   *)
(* so that lines are longer than every limit and two of them match; paths  *)
(* of up to three steps, which leave the root and come back.               *)
EXTENDS FileOps, SequencesExt

MCTexts ==
    BoundedSeq({"a", "n", "r", "l", "t"}, 4) \cup BoundedSeq({"a", "n"}, 7)
MCDirs  == { <<>>, <<"r">>, <<"r", "d">>, <<"e">> }
MCFiles == { <<"r", "f">>, <<"r", "d", "f">> }
MCRoots == { <<>>, <<"r">> }
MCPaths == BoundedSeq({"dot", "up", "r", "d", "f"}, 3)
MCHosts == (MCRoots \X {Absent}) \cup ({<<"r">>} \X MCTexts)
MCNeedles == { <<>>, <<"a">>, <<"l", "t">> }
=============================================================================
