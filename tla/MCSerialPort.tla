---------------------------- MODULE MCSerialPort ----------------------------
(***************************************************************************)
(* A ring of two bytes, which three bytes of each sender overrun in parts  *)
(* and as a whole, with a line end after every second byte.                *)
(***************************************************************************)
EXTENDS SerialPort
=============================================================================
