------------------------------- MODULE KeySwitch -------------------------------
(***************************************************************************)
(* What the keypad emulation promises the microwave's control board: it is *)
(* one switch at a time.  A key is closed only when no key is closed, and  *)
(* a closed key opens before another one closes (break before make).       *)
(***************************************************************************)
EXTENDS Integers

CONSTANT KeyCount        \* number of entries of kKeyMap

VARIABLE closed          \* the key whose row and column are joined, or Open

Keys == 0 .. (KeyCount - 1)
Open == -1

Init == closed = Open

Close(k) ==
  /\ closed = Open
  /\ closed' = k

Release ==
  /\ closed # Open
  /\ closed' = Open

Next == Release \/ \E k \in Keys : Close(k)

Spec == Init /\ [][Next]_closed
================================================================================
