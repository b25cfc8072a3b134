----------------------------- MODULE MCMsgQueue -----------------------------
(* A small instance of MsgQueue: one static cell, and the heap. *)
EXTENDS MsgQueue

CONSTANTS key, battery, s1

Kinds      == {key, battery}
OneSlot    == {s1}
NoneOneTwo == {0, 1, 2}
=============================================================================
