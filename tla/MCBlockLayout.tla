--------------------------- MODULE MCBlockLayout ---------------------------
(* An instance of BlockLayout: sizes and alignments of ordinary, odd-sized   *)
(* and over-aligned types, two of them smaller than a pointer, in the build  *)
(* with the debug flag and without, and addresses aligned to 16 as operator  *)
(* new returns them.                                                         *)
EXTENDS BlockLayout

Sizes == {<<1, 1>>, <<4, 4>>, <<8, 8>>, <<12, 4>>, <<9, 1>>, <<64, 4>>, <<16, 16>>, <<96, 32>>}

MCTypes == {[size |-> s[1], align |-> s[2], flag |-> f] : s \in Sizes, f \in 0 .. 1}
MCBuffers == {16, 32, 48}
=============================================================================
