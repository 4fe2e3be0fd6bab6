--------------------------- MODULE MCGpsSnapshot ---------------------------
(* One word of a group stands for its other words, but for the latitude,      *)
(* which keeps both; the course and the precision are like the speed and the  *)
(* satellites.                                                                *)
EXTENDS GpsSnapshot

MCWords == << "hour", "day", "lat.0", "lat.1", "alt.0", "speed.0", "sat" >>
=============================================================================
