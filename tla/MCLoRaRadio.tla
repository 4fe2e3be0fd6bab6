---------------------------- MODULE MCLoRaRadio ----------------------------
(* Two packets in three pieces each, a text the estimate fits and one it does *)
(* not, their true air times, and a loop that comes round every 160 ms at the *)
(* latest.                                                                    *)
EXTENDS LoRaRadio

Time == INSTANCE LoRaAirtime

Milliseconds(us) == Time!RoundUp(us, 1000)

MCAir == [n \in Texts |-> Milliseconds(Time!Airtime(n))]
MCPacketGap == Milliseconds(Time!Airtime(0))

ASSUME FastLoop
=============================================================================
