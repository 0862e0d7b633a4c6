------------------------------- MODULE MCNano -------------------------------
(* Instances of Nano for TLC.                                              *)
EXTENDS Nano
OneLine == <<<<"a", "a", " ">>>>
Texts1 == {OneLine}
Outputs1 == {<<>>}
LetterTerms == {<<"a">>, <<"a", " ">>}
LetterRepls == {<<>>, <<" ">>}
=============================================================================
