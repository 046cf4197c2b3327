----------------------------- MODULE MCSerialRx -----------------------------
(* A ring of three bytes, which holds two, a semaphore that is full at two.                   *)
EXTENDS SerialRx
=============================================================================
