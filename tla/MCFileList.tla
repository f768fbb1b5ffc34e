----------------------------- MODULE MCFileList ------------------------------
(* An instance of FileList for TLC whose clients ask for long pages.       *)
EXTENDS FileList
=============================================================================
