-------------------------------- MODULE CookPlan --------------------------------
(***************************************************************************)
(* What run_microwave makes of its arguments: parse_time_to_digits with    *)
(* the std::stoi it relies on, and the number of presses of "Power".  A    *)
(* string is a sequence of characters; " " stands for all white space and  *)
(* any character that is not named here for the others.                    *)
(***************************************************************************)
EXTENDS Integers, Sequences

CONSTANT IntMax            \* the largest int, 2^31 - 1

Numerals == <<"0", "1", "2", "3", "4", "5", "6", "7", "8", "9">>
Digit    == {Numerals[i] : i \in DOMAIN Numerals}
Value    == [c \in Digit |-> (CHOOSE i \in DOMAIN Numerals : Numerals[i] = c) - 1]

(* So that the seconds of any time are an int.                              *)
IntHoldsSeconds == IntMax \in Nat /\ IntMax >= 59

(* How many characters at the start of w are in S, and w without them.     *)
Span(w, S) ==
  CHOOSE n \in 0 .. Len(w) :
    /\ \A i \in 1 .. n : w[i] \in S
    /\ n = Len(w) \/ w[n + 1] \notin S
Drop(w, n) == SubSeq(w, n + 1, Len(w))

Number(w) ==
  LET upTo[i \in 0 .. Len(w)] == IF i = 0 THEN 0 ELSE 10 * upTo[i - 1] + Value[w[i]]
  IN  upTo[Len(w)]

(* std::stoi: white space, a sign, the longest run of digits; what follows *)
(* is ignored.  It throws if there is no digit or the number is no int.    *)
Stoi(w) ==
  LET body   == Drop(w, Span(w, {" "}))
      signed == body # <<>> /\ Head(body) \in {"-", "+"}
      minus  == signed /\ Head(body) = "-"
      digits == IF signed THEN Tail(body) ELSE body
      n      == Span(digits, Digit)
      number == Number(SubSeq(digits, 1, n))
  IN  [throws |-> n = 0 \/ number > (IF minus THEN IntMax + 1 ELSE IntMax),
       value  |-> IF minus THEN -number ELSE number]

Refused == <<>>

(* parse_time_to_digits: the digits to press, or Refused.                  *)
WrongLength(sec) == Len(sec) # 2
InRange(minutes, seconds) == minutes >= 0 /\ seconds >= 0 /\ seconds <= 59

ParseTime(s) ==
  LET colon == Span(s, {s[i] : i \in DOMAIN s} \ {":"}) + 1
      min   == SubSeq(s, 1, colon - 1)
      sec   == Drop(s, colon)
  IN  IF \/ colon > Len(s) \/ colon = 1
         \/ WrongLength(sec)
         \/ Stoi(min).throws \/ Stoi(sec).throws
         \/ ~InRange(Stoi(min).value, Stoi(sec).value)
        THEN Refused
        ELSE min \o sec

(* num_power_presses: none at full power or for a level that is no level.  *)
PowerPresses(p) ==
  IF p \in 10 .. 99 /\ p % 10 = 0 THEN (100 - p) \div 10 + 1 ELSE 0
================================================================================
