--------------------------- MODULE MCInotifyTree ---------------------------
(* InotifyTree for TLC: two names, three levels.  The names are alike. *)
EXTENDS InotifyTree, TLC

CONSTANTS a, b

TwoNames == UNION {[1..n -> {a, b}] : n \in 0..2}
SomeTrees == {{<<>>}, {<<>>, <<a>>, <<b>>}, {<<>>, <<a>>, <<a, b>>}, {<<>>, <<b>>, <<b, a>>}}
Alike == Permutations({a, b})
=============================================================================
