----------------------------- MODULE MCQrSplit -----------------------------
(* Instances of QrSplit: all short messages, and long ones with the chunk   *)
(* size of the configuration that is shipped.                               *)
EXTENDS QrSplit

AllShort  == 1 .. 330
ManyConfigs == {20, 34, 98, 194, 500}
AroundLong  == 6795 .. 6805
Shipped     == {98}
=============================================================================
