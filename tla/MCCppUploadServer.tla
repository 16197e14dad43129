------------------------- MODULE MCCppUploadServer -------------------------
(* Small instances of CppUploadServer for TLC.                             *)
EXTENDS CppUploadInvariant, TLC

CONSTANTS h1, h2, t1, a, b, old, i1, i2, i3, i4, i5

MCOldInode  == t1 :> i1
MCOldData   == <<old>>
MCBlocks    == {a, b, old}
MCChunks    == {<<a>>, <<a, b>>}
MCTwoChunks == {<<a>>, <<b>>}
MCOneChunk  == {<<a, b>>}

Threads     == Permutations(Handlers)
ThreadsBytes == Threads \cup Permutations({a, b})     \* with MCTwoChunks
=============================================================================
