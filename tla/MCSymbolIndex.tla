--------------------------- MODULE MCSymbolIndex ---------------------------
(***************************************************************************)
(* The symbol index over the files of SymbolFiles.                         *)
(***************************************************************************)
EXTENDS SymbolIndex

Sample == INSTANCE SymbolFiles

Files == Sample!Files
=============================================================================
