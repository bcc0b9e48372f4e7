---------------------------- MODULE MCConnectJob ----------------------------
(* ConnectJob with two outputs, so that a cancelled connect thread may     *)
(* still be in shout_open while the main thread starts the next output.    *)
EXTENDS ConnectJob
=============================================================================
