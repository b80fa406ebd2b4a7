--------------------------- MODULE MCPreprocessor ---------------------------
(* Preprocessor.tla for TLC; the constants are given in the configurations.  *)
EXTENDS Preprocessor
=============================================================================
