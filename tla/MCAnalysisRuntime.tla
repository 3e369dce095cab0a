------------------------- MODULE MCAnalysisRuntime -------------------------
EXTENDS AnalysisRuntime, TLC

UriSymmetry == Permutations(Uris)
=============================================================================
