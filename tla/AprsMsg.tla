------------------------------ MODULE AprsMsg ------------------------------
(***************************************************************************)
(* The pure functions of APRS_MSG.cpp: conversions of units, and the parts *)
(* of an APRS message.  Whole numbers stand for the doubles: the units of  *)
(* each argument are named with it.  (The computer's fractions are not     *)
(* exact: where a result lies exactly between two whole numbers it may     *)
(* take the other, and a position on the first hundredth of a second of a  *)
(* second may still show the one before.)                                  *)
(*                                                                         *)
(* A text is the sequence of its characters, a digit standing for itself.  *)
(***************************************************************************)
EXTENDS Integers, Sequences

\* round(p / q) for q > 0: a half goes away from zero.
RoundDiv(p, q) ==
    IF p >= 0 THEN (2 * p + q) \div (2 * q) ELSE -((q - 2 * p) \div (2 * q))

-----------------------------------------------------------------------------
(* The converters take and return whole numbers.                           *)

feed2meter(feed) == RoundDiv(100000 * feed, 328084)
meter2feed(meter) == RoundDiv(328084 * meter, 100000)
mph2kmh(mph) == RoundDiv(100000 * mph, 62137)
kmh2mph(kmh) == RoundDiv(62137 * kmh, 100000)
hinch2mm(hinch) == RoundDiv(100000 * hinch, 393701)
mm2hinch(mm) == RoundDiv(393701 * mm, 100000)
f2c(temp) == RoundDiv((temp - 32) * 5, 9)
c2f(temp) == RoundDiv(temp * 9 + 160, 5)

-----------------------------------------------------------------------------
(* Positions, in hundredths of a second of arc.                            *)

Degree == 360000
Minute == 6000
Second == 100

Magnitude(p) == IF p < 0 THEN -p ELSE p

grad(p) == Magnitude(p) \div Degree
minute(p) == (Magnitude(p) % Degree) \div Minute
secunde(p) == (Magnitude(p) % Minute) \div Second

\* What a reader of APRS takes from these numbers, for whom the last are
\* hundredths of a minute.
Position(p) == grad(p) * Degree + minute(p) * Minute + secunde(p) * (Minute \div 100)

TwoDigits(n) == <<n \div 10, n % 10>>
ThreeDigits(n) == <<n \div 100, (n \div 10) % 10, n % 10>>

\* The size given to snprintf() is that of a pointer, 4, and the last is NUL.
Printed(text) == SubSeq(text, 1, 3)

Hemisphere(p, lng) ==
    IF lng THEN IF p < 0 THEN "W" ELSE "E" ELSE IF p < 0 THEN "S" ELSE "N"

\* The text as the format has it.
PositionText(p, lng) ==
    (IF lng THEN ThreeDigits(grad(p)) ELSE TwoDigits(grad(p)))
        \o TwoDigits(minute(p)) \o <<".">> \o TwoDigits(secunde(p)) \o <<Hemisphere(p, lng)>>

dc2gms(p, lng) == Printed(PositionText(p, lng))

\* The symbol's two characters stand behind the latitude and the longitude.
computeAPRSPos(lat, lng, symbol) ==
    Printed(dc2gms(lat, FALSE) \o <<symbol[1]>> \o dc2gms(lng, TRUE) \o <<symbol[2]>>)

-----------------------------------------------------------------------------
(* Time, movement and weather.                                             *)

computeTimestamp(day, hour, min) ==
    Printed(<<"@">> \o TwoDigits(day) \o TwoDigits(hour) \o TwoDigits(min) \o <<"z">>)

\* What a number is after a cast to a type that has no room for all of them:
\* outside of the type C++ leaves it undefined.
Int8Of(n) == IF n \in -128 .. 127 THEN {n} ELSE -128 .. 127
UInt8Of(n) == IF n \in 0 .. 255 THEN {n} ELSE 0 .. 255

\* Tenths of a percent; one hundred percent are "00".
calcHumidity(humidity) ==
    IF humidity = 1000 THEN <<0, 0>>
    ELSE LET h == RoundDiv(humidity, 10) IN
         IF h < 100 THEN TwoDigits(h) ELSE ThreeDigits(h)

\* The numbers the format is given: of whole degrees Celsius their Fahrenheit,
\* and tenths of a hectopascal.
Fahrenheit(temp) == Int8Of(c2f(temp))
Hectopascal(pressure) == UInt8Of(pressure)

Dots == <<".", ".", ".">>

\* The text as the format has it, up to the sensor's name; t and b are printed
\* with their digits.
WeatherText(t, humidity, b) ==
    Dots \o (<<"/">> \o Dots \o <<"g">> \o Dots \o <<"t", t, "r">>
              \o Dots \o <<"p">> \o Dots \o <<"P">> \o Dots
              \o <<"h">> \o calcHumidity(humidity) \o <<"b", b>>)

\* The size given is one less than that of a pointer, so two characters are left.
computeWXField(temp, humidity, pressure) ==
    { SubSeq(WeatherText(given[1], humidity, given[2]), 1, 2) :
        given \in Fahrenheit(temp) \X Hectopascal(pressure) }
=============================================================================
