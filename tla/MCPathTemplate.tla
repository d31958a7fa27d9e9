--------------------------- MODULE MCPathTemplate ---------------------------
(* Small instances of PathTemplate for TLC: every template of MaxTokens    *)
(* tokens, and paths and values of bounded length.                         *)
EXTENDS PathTemplate, TLC

CONSTANT MaxPath  \* bound on the length of paths

NumberedName(n) == <<n>>

SmallPaths == UNION {[1 .. n -> Texts] : n \in 1 .. MaxPath}
SmallValues ==
    [1 .. 1 -> Texts] \cup {p \in [1 .. 2 -> Literals] : p[1] # p[2]}

(* Nothing depends on which literal a text is.                             *)
AnyLiteral == Permutations(Literals)
=============================================================================
