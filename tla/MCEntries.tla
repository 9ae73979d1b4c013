------------------------------ MODULE MCEntries ------------------------------
(***************************************************************************)
(* Instances of Entries for TLC.                                           *)
(***************************************************************************)
EXTENDS Entries

MCNamespaces == {1, 2}
MCPaths == {1, 2}

MCBudget == [change |-> 2, reset |-> 2, interrupt |-> 1, select |-> 1]
=============================================================================
