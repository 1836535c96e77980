--------------------------- MODULE MCAlarmEngine ---------------------------
(* Rooms for TLC: every condition alone and with others. *)
EXTENDS AlarmEngine

Room(t, c, n, l) == [temp |-> t, co |-> c, nh3 |-> n, lux |-> l]

\* Toxic gas in a warm room, and a fire with CO, ammonia and heat.  The sensors
\* that fail leave every part of these, down to poor air and to nothing.
MCRooms == {Room(1, 1, 4, 0), Room(2, 3, 3, 0)}
=============================================================================
