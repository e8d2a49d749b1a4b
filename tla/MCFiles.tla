------------------------------ MODULE MCFiles -------------------------------
(* Two processes on a disk with room for two inodes besides the root.      *)
EXTENDS Files, TLC

abs(toks, slash) == [abs |-> TRUE, toks |-> toks, slash |-> slash]
rel(toks) == [abs |-> FALSE, toks |-> toks, slash |-> FALSE]
MCPath == {abs(<<>>, TRUE), abs(<<"x">>, FALSE), abs(<<"x">>, TRUE), abs(<<"x", "y">>, FALSE),
           rel(<<"x">>), rel(<<"..">>), rel(<<"long">>), Empty}
MCSelf == [p \in Proc |-> "x"]
Symmetry == Permutations(Proc)
====
