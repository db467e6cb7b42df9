----------------------------- MODULE MCSerialPort -----------------------------
(* SerialPort with two descriptors: the port can be closed and its number given *)
(* out again while another file is open.                                       *)
EXTENDS SerialPort
=============================================================================
