--------------------------- MODULE MCButtonStates ---------------------------
(* A list of three characters and a call of four positions: full calls with *)
(* the last listed character, one that is shorter, one with a character that *)
(* is not in the list, and the empty call.                                  *)
EXTENDS ButtonStates, TLC

MCCalls == { 0 :> 2 @@ 1 :> 0 @@ 2 :> 1 @@ 3 :> 2,
             0 :> 1 @@ 1 :> 0 @@ 2 :> 3 @@ 3 :> 3,
             0 :> 4 @@ 1 :> 2 @@ 2 :> 0 @@ 3 :> 1,
             0 :> 3 @@ 1 :> 3 @@ 2 :> 3 @@ 3 :> 3 }
=============================================================================
