---------------------------- MODULE MCEmbedQueue ----------------------------
(***************************************************************************)
(* The instance of EmbedQueue for TLC: a text without chunks and two texts *)
(* of one chunk, which a repair cannot tell apart by their counts.         *)
(***************************************************************************)
EXTENDS EmbedQueue

CONSTANTS t0, t1, t2

MCText   == {t0, t1, t2}
MCChunks == [t \in MCText |-> IF t = t0 THEN 0 ELSE 1]
=============================================================================
