--------------------------- MODULE MCPromptCache ---------------------------
(* Small instances of PromptCache. *)
EXTENDS PromptCache

CONSTANTS p1, p2, p3, p4, p5

FivePrompts == {p1, p2, p3, p4, p5}
FourPrompts == {p1, p2, p3, p4}

AnyPrefix == Permutations(Prompts)
=============================================================================
