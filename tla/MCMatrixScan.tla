------------------------------ MODULE MCMatrixScan ------------------------------
(* Two keys in one column and two in one row, all wired.                   *)
EXTENDS MatrixScan

Map == [k \in 0 .. 2 |->
          CASE k = 0 -> [row |-> 0, column |-> 0]
            [] k = 1 -> [row |-> 1, column |-> 0]
            [] k = 2 -> [row |-> 1, column |-> 1]]

Line(verb, count, key) == [verb |-> verb, count |-> count, key |-> key, ms |-> 0]

(* Timed presses and holds that follow each other, and their release.      *)
ScanCommands ==
  { Line("press", 2, 0), Line("hold", 2, 1), Line("hold", 2, 2),
    Line("release", 1, Idle) }
================================================================================
