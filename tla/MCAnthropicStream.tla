------------------------- MODULE MCAnthropicStream -------------------------
(* Pieces of text to be told apart.                                        *)
EXTENDS AnthropicStream, TLC

CONSTANTS t1, t2

MCTexts == {t1, t2}

TextSymmetry == Permutations(Texts)

=============================================================================
