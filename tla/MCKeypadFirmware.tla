---------------------------- MODULE MCKeypadFirmware ----------------------------
(* One row and two columns.  Keys 0 and 1 share a column, key 2 has the    *)
(* other, and key 3 lies outside the wired columns, as in a build for a    *)
(* PCB revision that wires fewer columns than kKeyMap names.               *)
EXTENDS PressTiming

Map == [k \in 0 .. 3 |->
          CASE k = 0 -> [row |-> 0, column |-> 0]
            [] k = 1 -> [row |-> 0, column |-> 0]
            [] k = 2 -> [row |-> 0, column |-> 1]
            [] k = 3 -> [row |-> 0, column |-> 2]]

Line(verb, count, key, ms) == [verb |-> verb, count |-> count, key |-> key, ms |-> ms]

AllCommands ==
  { Line("press", 3, 0, -1),    \* press k0 -1: toInt() is negative
    Line("press", 2, 1, 0),     \* press k1: the default duration
    Line("hold", 2, 2, 0),      \* hold k2
    Line("press", 3, 3, -1),    \* press a key that is not wired
    Line("press", 2, Idle, 0),  \* press an unknown key
    Line("release", 1, Idle, 0),
    Line("status", 1, Idle, 0),
    Line("help", 1, Idle, 0),
    Line("blank", 0, Idle, 0) }
================================================================================
