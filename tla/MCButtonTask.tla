---------------------------- MODULE MCButtonTask ----------------------------
(* The button with short times on a short clock, over the whole menu of       *)
(* MCButtonStates.                                                            *)
EXTENDS ButtonTask, MCButtonStates
=============================================================================
