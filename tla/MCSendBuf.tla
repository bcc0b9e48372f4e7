----------------------------- MODULE MCSendBuf ------------------------------
(* SendBuf with three cells and positions that wrap after twelve bytes: a  *)
(* push reaches each cell from each position, in one piece or in two.      *)
EXTENDS SendBuf
=============================================================================
