----------------------------- MODULE MCStreamer -----------------------------
(* The streamer on a small instance. *)
EXTENDS Streamer
=============================================================================
