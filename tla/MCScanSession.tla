---------------------------- MODULE MCScanSession ----------------------------
(* A small instance of ScanSession: two transfers of two chunks with the same *)
(* header, and one of a single chunk from a client that is not paired.        *)
EXTENDS ScanSession

CONSTANTS a, b, c, h, g

Three      == {a, b, c}
TotalThree == [t \in Three |-> IF t = c THEN 1 ELSE 2]
HeadThree  == [t \in Three |-> IF t = c THEN g ELSE h]
OnlyH      == {h}
=============================================================================
