------------------------------ MODULE MCDayNight ------------------------------
(* Steps of five minutes over three days, for TLC: every third whole hour  *)
(* from Pago Pago to Kiritimati, and the odd zones of St. John's, New      *)
(* Delhi and Kathmandu.                                                    *)
EXTENDS DayNight

MCZone == {12 * h : h \in {-11, -8, -5, -2, 0, 1, 4, 8, 11, 14}} \cup {-42, 66, 69}
=============================================================================
