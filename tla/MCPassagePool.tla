---------------------------- MODULE MCPassagePool ----------------------------
(***************************************************************************)
(* Two levels, the second of them demanding. The bands of SPECS overlap: a *)
(* text of the upper one may be usable at the lower one as well.           *)
(***************************************************************************)
EXTENDS PassagePool

CONSTANTS easy, hard, reader

FitsBands == {<<easy, 0>>, <<easy, 1>>, <<hard, 1>>}
=============================================================================
