-------------------------- MODULE MCSimpleIndexFile --------------------------
(***************************************************************************)
(* A directory with one entry of interest; that others come and go is seen *)
(* by the directory's modification time only (ChangeOtherFiles).           *)
(***************************************************************************)
EXTENDS SimpleIndexFile

=============================================================================
