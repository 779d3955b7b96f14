------------------------------ MODULE MCSequence ------------------------------
\* An instance of Sequence: two sequences of the shapes that layers.c has, a
\* modifier and then the same with a key.
EXTENDS Sequence

CutAndShuffle == {<<{"ctrl"}, {"ctrl", "x"}>>, <<{"alt"}, {"alt", "tab"}>>}
=============================================================================
