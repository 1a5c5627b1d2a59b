---------------------------- MODULE MCOffsetPool ----------------------------
(* OffsetPool with two threads that read boxes into two values at two offsets,
   so that each offset is registered again while another thread reads it.
   Boxes are not nested: the proofs cover every depth.                       *)
EXTENDS OffsetPool

CONSTANTS t1, t2, o1, o2, v1, v2

MCThreads == {t1, t2}
MCOffsets == {o1, o2}
MCValues == {v1, v2}
=============================================================================
