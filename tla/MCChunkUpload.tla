----------------------------- MODULE MCChunkUpload -----------------------------
(***************************************************************************)
(* TLC instance of ChunkUpload: two requests at a time, one retry.         *)
(***************************************************************************)
EXTENDS ChunkUpload, TLC

=============================================================================
