------------------------ MODULE MCCorpusProcessing ------------------------
(* Two objects of a season of two episodes: the second revises the second  *)
(* episode and leaves the first one as it was.                             *)
EXTENDS CorpusProcessing, TLC

CONSTANTS d1, d2, v1, v2, v3

MCContent == (d1 :> <<v1, v2>>) @@ (d2 :> <<v1, v3>>)
=============================================================================
