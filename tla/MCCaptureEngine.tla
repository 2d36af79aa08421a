--------------------------- MODULE MCCaptureEngine ---------------------------
(* CaptureEngine with a few workers and packets.                           *)
EXTENDS CaptureEngine

CONSTANTS w1, w2

MCWorker == {w1, w2}
=============================================================================
