---------------------------- MODULE MCTokeniser ----------------------------
(* One or two short lines: any first line of at most BodyLength characters, *)
(* with or without a newline before it and something after it.              *)
EXTENDS Tokeniser

CONSTANT BodyLength

Bodies == {<<c>> \o b : c \in Letters,
                        b \in UNION {[1..m -> Letters \cup Blanks] : m \in 0..BodyLength-1}}

MCTexts == {lead \o body \o tail : lead \in {<<>>, <<NL>>}, body \in Bodies,
                                   tail \in {<<NL>>, <<NL, NL, "A", NL>>}}
=============================================================================
