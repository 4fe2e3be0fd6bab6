---------------------------- MODULE LoRaAirtime ----------------------------
(***************************************************************************)
(* How long a text is on the air and how long sendMessage() waits for it   *)
(* (LoRaHandler.cpp:67-68), in microseconds.  The air time is the radio's: *)
(* the symbol counts of the SX1276 for the parameters of LoRaAPRSConfig.h, *)
(* spreading factor 12, 125 kHz, coding rate 4/5, CRC and explicit header  *)
(* on, which make a symbol of 2^12 / 125 kHz = 32768 microseconds, long    *)
(* enough for the library to turn the low data rate optimisation on.  It   *)
(* agrees with the 9020 ms the project measured for 252 characters         *)
(* (doc/README.md:10).                                                     *)
(***************************************************************************)
EXTENDS Integers

SymbolTime == 32768
HeadBytes == 3                  \* "<", 0xFF and 0x01 before the text

RoundUp(a, b) == (a + b - 1) \div b

\* 12.25 symbols of preamble.
PreambleTime == 401408

PayloadSymbols(n) == 8 + 5 * RoundUp(8 * (n + HeadBytes) - 4 * 12 + 28 + 16, 4 * (12 - 2))

\* Time on air of a text of n characters.
Airtime(n) == PreambleTime + PayloadSymbols(n) * SymbolTime

\* strlen(outgoing) * 35 + 850
WaitTime(n) == 1000 * (n * 35 + 850)

\* The texts that are still on the air when the wait is over.
TooLong == {3, 4, 8, 13, 18}
=============================================================================
