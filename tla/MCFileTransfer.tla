--------------------------- MODULE MCFileTransfer ---------------------------
(* Small instances of FileTransfer for TLC.                                *)
EXTENDS FileTransfer

MCBlocks == <<1, 2>>
=============================================================================
