------------------------- MODULE MCIdentitySessions -------------------------
(* Two requests of one browser: a cookie may be presented twice, and after *)
(* an answer came late, an older one again.                                *)
EXTENDS IdentitySessions

CONSTANTS r1, r2

MCRequests == {r1, r2}

MCBrowser == [r \in MCRequests |-> "b"]
=============================================================================
