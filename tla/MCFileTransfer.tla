--------------------------- MODULE MCFileTransfer ---------------------------
(***************************************************************************)
(* Instances of FileTransfer for TLC: constants that a .cfg cannot write.  *)
(***************************************************************************)
EXTENDS FileTransferProperties

\* Revisions 1 and 3 have the same bytes: a revert, or two equal files.
MCHash == [r \in Revs |-> IF r = 2 THEN "h2" ELSE "h1"]
MCDistinctHash == [r \in Revs |-> r]

MCFold == [p \in Paths |-> p]
\* Paths 1 and 2 are two spellings of one path.
MCCaseFold == [p \in Paths |-> IF p = 2 THEN 1 ELSE p]
=============================================================================
