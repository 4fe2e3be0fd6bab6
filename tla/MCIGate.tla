------------------------------ MODULE MCIGate ------------------------------
(* Short queues, so that they fill up; room for one text and a half.          *)
EXTENDS IGate
=============================================================================
