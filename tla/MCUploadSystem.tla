------------------------- MODULE MCUploadSystem --------------------------
(* Two clients and either server, for TLC.                                 *)
EXTENDS UploadSystem, TLC

CONSTANTS c1, c2, h1, h2, t1, a, b, d, old, i1, i2, i3, i4, i5

MCOldInode   == t1 :> i1
MCOldData    == <<old>>
MCBlocks     == {a, b, d, old}
MCChunks     == {<<a>>, <<b>>, <<d>>}
MCMixed      == c1 :> "cpp" @@ c2 :> "rust"
MCPath       == c1 :> t1 @@ c2 :> t1
MCOverwrite  == c1 :> TRUE @@ c2 :> TRUE
MCPayload    == c1 :> <<a, b>> @@ c2 :> <<d>>
MCDeclared   == c1 :> {2} @@ c2 :> {0, 1, 2}
=============================================================================
