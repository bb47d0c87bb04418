-------------------------- MODULE MCPlainTextChunker --------------------------
(* All texts of up to MaxLength characters.                                      *)
EXTENDS PlainTextChunker

CONSTANT MaxLength

ShortTexts == UNION {[1 .. n -> Kind] : n \in 0 .. MaxLength}
=============================================================================
