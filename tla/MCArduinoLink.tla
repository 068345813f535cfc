----------------------------- MODULE MCArduinoLink -----------------------------
(* Cook Time, Power, Stop and the digit 3; key 4 is not wired.             *)
EXTENDS ArduinoLink

WiredKeys == 0 .. 3
Digit == 3

Hold(k)  == [line |-> Line("hold", 2, k), doubled |-> FALSE]
Plain(v) == [line |-> Line(v, 1, Idle), doubled |-> FALSE]

(* The commands the library can wait for.                                  *)
Answerable == {PressKey(Digit), Hold(Power), Plain("release"), Plain("status")}

(* The lines whose reply it never recognises.  The last begins with        *)
(* "press" and is none: the library waits for the second OK of a press.    *)
Ignored ==
  {PressKey(4), PressKey(Idle), Plain("help"), Plain("unknown"), Plain("blank"),
   [line |-> Unknown, doubled |-> TRUE]}

AnyCommand == Answerable \cup Ignored

Named == [c \in {"3", ":", "-", "a"} |-> IF c = "3" THEN Digit ELSE Idle]

(* "3:33", and "3:3a", which parse_time_to_digits takes too; "3:-3" is     *)
(* refused.                                                                *)
GoodTimes == {<<"3", ":", "3", "3">>, <<"3", ":", "-", "3">>}
AnyTimes  == GoodTimes \cup {<<"3", ":", "3", "a">>}
TwoLevels == {90, 100}

AllLines ==
  {c.line : c \in AnyCommand \cup {PressKey(k) : k \in WiredKeys}} \cup {Blank, Unknown}
================================================================================
