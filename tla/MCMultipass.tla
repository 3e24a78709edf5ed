----------------------------- MODULE MCMultipass -----------------------------
(* An instance of Multipass: a slice of one or two chunks, and a page range  *)
(* that overlaps it.                                                         *)
EXTENDS Multipass

CONSTANTS k1, k2

SomeSlices == {<<k1>>, <<k2, k1>>}
SomeRanges == {<<k1>>}
Reported == {0, 1, 2, NaN}

=============================================================================
