---------------------------- MODULE DurableConfig ----------------------------
(***************************************************************************)
(* What the flash promises across crashes and restarts: a register per key *)
(* that changes one key at a time; values are saved only on a device whose *)
(* every key is there; and only a device without a call is ever set back   *)
(* to factory values.                                                      *)
(***************************************************************************)
CONSTANTS Keys, Values, Written, Missing, Unset

VARIABLE stored

Unconfigured == stored["call"] \in {Missing, Unset}

Init == stored = [k \in Keys |-> Missing]

Save ==
    /\ \A k \in Keys : stored[k] # Missing
    /\ \E k \in Keys : \E v \in Values[k] : stored' = [stored EXCEPT ![k] = v]

FactoryWrite ==
    /\ Unconfigured
    /\ \E k \in Keys : stored' = [stored EXCEPT ![k] = Written[k]]

Next == Save \/ FactoryWrite

Spec == Init /\ [][Next]_stored
=============================================================================
