------------------------- MODULE MCConsoleDocuments -------------------------
(* Instances of ConsoleDocuments for TLC. *)
EXTENDS ConsoleDocuments, TLC
=============================================================================
