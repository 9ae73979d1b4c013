--------------------------- MODULE MCUploadSession ---------------------------
(***************************************************************************)
(* Instances of UploadSession for TLC.                                     *)
(***************************************************************************)
EXTENDS UploadSession

\* No byte, less than a chunk, exactly one, and up to more than the recoveries
\* allowed can repair.
MCSizes == 0 .. 11
=============================================================================
