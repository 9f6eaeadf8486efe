------------------------- MODULE MCMirroredMessages -------------------------
(* MirroredMessages with one thread that makes two requests. When it gives *)
(* up the first, the servers work on both.                                 *)
EXTENDS MirroredMessages

CONSTANTS t1, mkdir, unlink

OneThread == {t1}
TwoRequests == {mkdir, unlink}
=============================================================================
