----------------------------- MODULE MCRemoval -----------------------------
(* Every dependency relation on three installed packages and, where the    *)
(* run asks for it, one virtual name any of them may provide.              *)
EXTENDS Removal, TLC
CONSTANTS a, b, c, v
Packages == {a, b, c}
\* Cascades do not look at the marks: one choice of them is enough.
Unmarked == Init /\ explicit = {} /\ essential = {} /\ [][Next]_vars
Sym == Permutations(Packages)
=============================================================================
