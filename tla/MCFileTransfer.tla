--------------------------- MODULE MCFileTransfer ---------------------------
(***************************************************************************)
(* FileTransfer for TLC: a file of two blocks, over none and over one that *)
(* has three.                                                              *)
(***************************************************************************)
EXTENDS FileTransfer

MCSource  == <<"a", "b">>
MCNoFile  == <<>>
MCOldFile == <<"x", "y", "z">>

MCFileArg ==
  [type : {"TXT"}, index : 0 .. (Byte - 1), block : {"a", "b"}]
    \cup [type : {"END"}, index : 0 .. (Byte - 1), block : {NoArg}]
=============================================================================
