------------------------- MODULE MCRustUploadServer -------------------------
(* Small instances of RustUploadServer for TLC.                            *)
EXTENDS RustUploadServer, TLC

CONSTANTS h1, h2, t1, a, old, i1, i2, i3, i4

MCOldInode  == t1 :> i1
MCOldData   == <<old>>
MCBlocks    == {a, old}
MCChunks    == {<<a>>}

Threads     == Permutations(Handlers)
=============================================================================
