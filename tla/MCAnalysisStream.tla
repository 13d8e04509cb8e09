-------------------------- MODULE MCAnalysisStream --------------------------
(* Two fields, the first of which is also streamed as text, and two lines per *)
(* response.  MeaningOnly is the translation-only analysis.                   *)
EXTENDS AnalysisStream

Everything == 1..2
MeaningOnly == {1}

=============================================================================
