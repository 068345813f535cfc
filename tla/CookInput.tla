------------------------------- MODULE CookInput --------------------------------
(***************************************************************************)
(* What run_microwave can be given: any power level, and any time string   *)
(* up to a length, which grows one character at a time.  Each state is one *)
(* call.                                                                   *)
(***************************************************************************)
EXTENDS CookPlan

CONSTANTS
  Characters,    \* the alphabet of the time strings
  MaxLength      \* bound on their length

VARIABLES
  time,          \* time_str
  level          \* power_level

Byte == 0 .. 255

Init == time = <<>> /\ level \in Byte

(* The two arguments do not depend on each other: times are only varied at *)
(* full power.                                                             *)
Extend(c) ==
  /\ level = 100 /\ Len(time) < MaxLength
  /\ time' = Append(time, c)
  /\ UNCHANGED level

Next == \E c \in Characters : Extend(c)

Spec == Init /\ [][Next]_<<time, level>>

--------------------------------------------------------------------------------
(* "MM:SS" as the header means it: digits, a colon, two digits.            *)
Shaped(s) ==
  \E n \in 1 .. (Len(s) - 3) :
    /\ Len(s) = n + 3 /\ s[n + 1] = ":"
    /\ \A i \in DOMAIN s \ {n + 1} : s[i] \in Digit

Minutes(s) == Number(SubSeq(s, 1, Len(s) - 3))
Seconds(s) == Number(SubSeq(s, Len(s) - 1, Len(s)))

(* A time with any number of minute digits is taken, all but its colon,    *)
(* unless its seconds are over 59 or its minutes no int.                   *)
TakesMinutesSeconds ==
  Shaped(time) =>
    ParseTime(time) = IF Seconds(time) > 59 \/ Minutes(time) > IntMax
                        THEN Refused
                        ELSE SubSeq(time, 1, Len(time) - 3)
                               \o SubSeq(time, Len(time) - 1, Len(time))

(* What test 4 of main_tester.cpp expects of "1:30": minutes of one digit  *)
(* are refused with API_ERROR_BAD_TIME_STR.                                *)
RefusesShortMinutes == Shaped(time) /\ Len(time) = 4 => ParseTime(time) = Refused

(* A string without a colon, or without exactly two characters after the   *)
(* first one, or with none before it, is refused.                          *)
RefusesOtherLengths ==
  ParseTime(time) # Refused =>
    /\ Len(time) >= 4 /\ time[Len(time) - 2] = ":"
    /\ \A i \in 1 .. (Len(time) - 3) : time[i] # ":"

(* What the comment over the calculation says of a level below full power: *)
(* 90 is one press and 10 is nine.  100, and what is no level, is none.    *)
Reduced      == {10 * n : n \in 1 .. 9}
Commented(p) == (100 - p) \div 10
PowerAsCommented ==
  PowerPresses(level) = IF level \in Reduced THEN Commented(level) ELSE 0

(* What run_microwave does: one press more than that, 90 is two of them.   *)
OnePressMore ==
  PowerPresses(level) = IF level \in Reduced THEN Commented(level) + 1 ELSE 0
================================================================================
