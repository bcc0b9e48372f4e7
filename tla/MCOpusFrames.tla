---------------------------- MODULE MCOpusFrames -----------------------------
(* OpusFrames with frames of three samples and callbacks of every length,  *)
(* shorter and longer than a frame.                                        *)
EXTENDS OpusFrames
=============================================================================
