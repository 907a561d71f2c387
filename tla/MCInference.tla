---------------------------- MODULE MCInference ----------------------------
(***************************************************************************)
(* One or two handlers over two or three keys.  The .cfg says which of     *)
(* them stream (Streamers) and whose client may go away (Fickle).          *)
(***************************************************************************)
EXTENDS Inference
CONSTANTS s1, s2
=============================================================================
