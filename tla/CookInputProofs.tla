----------------------------- MODULE CookInputProofs -----------------------------
(***************************************************************************)
(* run_microwave's arguments, for times of every length over every         *)
(* alphabet, every size of int and all power levels.  What parse_time_to_  *)
(* digits makes of a string follows from where its colon is (Span, a       *)
(* CHOOSE that has to be shown to exist) and from the value of a string of *)
(* digits (Number, a recursive function, ditto); both are the least of a   *)
(* set of numbers that is not empty.                                       *)
(***************************************************************************)
EXTENDS CookInput, SequenceTheorems, WellFoundedInduction, TLAPS

(* A set of natural numbers that is not empty has a least one.             *)
LEMMA LeastNumber ==
  ASSUME NEW S, S \subseteq Nat, S # {}
  PROVE  \E n \in S : \A m \in S : n <= m
  <1> DEFINE R == {ss \in Nat \X Nat : ss[1] < ss[2]}
  <1>1. PICK n \in S : \A m \in S : ~(<<m, n>> \in OpToRel(<, Nat))
    BY NatLessThanWellFounded, WFMin
  <1>2. OpToRel(<, Nat) = R
    BY Zenon DEF OpToRel
  <1>3. SUFFICES ASSUME NEW m \in S PROVE n <= m
    OBVIOUS
  <1>4. <<m, n>> \notin R
    BY <1>1, <1>2
  <1> QED BY <1>4

(* The prefix that Span counts.                                            *)
LEMMA SpanIs ==
  ASSUME NEW T, NEW w \in Seq(T), NEW S
  PROVE  LET n == Span(w, S)
         IN  /\ n \in 0 .. Len(w) /\ \A i \in 1 .. n : w[i] \in S
             /\ n = Len(w) \/ w[n + 1] \notin S
  <1> DEFINE Ends == {n \in 0 .. Len(w) : n = Len(w) \/ w[n + 1] \notin S}
  <1>1. Len(w) \in Nat /\ Len(w) \in Ends /\ Ends \subseteq Nat
    BY LenProperties
  <1>2. PICK n \in Ends : \A m \in Ends : n <= m
    <2> HIDE DEF Ends
    <2> QED BY <1>1, LeastNumber
  <1>3. \A i \in 1 .. n : w[i] \in S
    <2> SUFFICES ASSUME NEW i \in 1 .. n, w[i] \notin S PROVE FALSE
      OBVIOUS
    <2>1. i - 1 \in Ends
      BY <1>1
    <2>2. n <= i - 1
      BY <1>2, <2>1, Zenon
    <2> QED BY <1>1, <2>2
  <1>4. n \in 0 .. Len(w) /\ (n = Len(w) \/ w[n + 1] \notin S)
    OBVIOUS
  <1> QED BY <1>3, <1>4 DEF Span

(* It is the only one.                                                     *)
LEMMA SpanOf ==
  ASSUME NEW T, NEW w \in Seq(T), NEW S, NEW n \in 0 .. Len(w),
         \A i \in 1 .. n : w[i] \in S, n = Len(w) \/ w[n + 1] \notin S
  PROVE  Span(w, S) = n
  <1> DEFINE k == Span(w, S)
  <1>1. /\ k \in 0 .. Len(w) /\ \A i \in 1 .. k : w[i] \in S
        /\ k = Len(w) \/ w[k + 1] \notin S
    BY SpanIs
  <1> HIDE DEF k
  <1>2. Len(w) \in Nat
    BY LenProperties
  <1>3. ~(k < n)
    <2> SUFFICES ASSUME k < n PROVE FALSE
      OBVIOUS
    <2>1. k + 1 \in 1 .. n /\ k # Len(w)
      BY <1>1, <1>2
    <2> QED BY <1>1, <2>1
  <1>4. ~(n < k)
    <2> SUFFICES ASSUME n < k PROVE FALSE
      OBVIOUS
    <2>1. n + 1 \in 1 .. k /\ n # Len(w)
      BY <1>1, <1>2
    <2> QED BY <1>1, <2>1
  <1> QED BY <1>1, <1>2, <1>3, <1>4 DEF k

(* The digits and their values.                                            *)
LEMMA DigitIs ==
  /\ Digit = {"0", "1", "2", "3", "4", "5", "6", "7", "8", "9"}
  /\ ":" \notin Digit /\ " " \notin Digit /\ "-" \notin Digit /\ "+" \notin Digit
  /\ \A c \in Digit : Value[c] \in Nat
  <1>1. DOMAIN Numerals = 1 .. 10
    BY DEF Numerals
  <1>2. Digit = {"0", "1", "2", "3", "4", "5", "6", "7", "8", "9"}
    <2>1. 1 .. 10 = {1, 2, 3, 4, 5, 6, 7, 8, 9, 10}
      OBVIOUS
    <2> QED BY <1>1, <2>1 DEF Digit, Numerals
  <1>3. ASSUME NEW c \in Digit PROVE Value[c] \in Nat
    <2>1. \E i \in DOMAIN Numerals : Numerals[i] = c
      BY DEF Digit
    <2>2. (CHOOSE i \in DOMAIN Numerals : Numerals[i] = c) \in 1 .. 10
      BY <1>1, <2>1
    <2>3. Value[c] = (CHOOSE i \in DOMAIN Numerals : Numerals[i] = c) - 1
      BY Zenon DEF Value
    <2>4. PICK i \in 1 .. 10 : Value[c] = i - 1
      BY <2>2, <2>3, Zenon
    <2> QED BY <2>4
  <1> QED BY <1>2, <1>3

--------------------------------------------------------------------------------
(* f is the function Number computes, for the first k characters.          *)
Counts(f, w, k) ==
  f = [i \in 0 .. k |-> IF i = 0 THEN 0 ELSE 10 * f[i - 1] + Value[w[i]]]

(* It exists: of the prefixes it does not exist for, none is the shortest. *)
LEMMA CountsExists ==
  ASSUME NEW w \in Seq(Digit)
  PROVE  \E f \in [0 .. Len(w) -> Nat] : Counts(f, w, Len(w))
  <1> DEFINE Bad == {k \in 0 .. Len(w) : ~\E f \in [0 .. k -> Nat] : Counts(f, w, k)}
  <1>1. Len(w) \in Nat /\ Bad \subseteq Nat
    BY LenProperties
  <1>2. SUFFICES ASSUME Bad # {} PROVE FALSE
    BY <1>1
  <1>3. PICK k \in Bad : \A m \in Bad : k <= m
    <2> HIDE DEF Bad
    <2> QED BY <1>1, <1>2, LeastNumber
  <1>4. k # 0
    <2>1. [i \in 0 .. 0 |-> 0] \in [0 .. 0 -> Nat] /\ Counts([i \in 0 .. 0 |-> 0], w, 0)
      BY DEF Counts
    <2> QED BY <2>1
  <1>5. k - 1 \in 0 .. Len(w) /\ ~(k <= k - 1) /\ k \in 1 .. Len(w)
    BY <1>1, <1>4
  <1>6. PICK f \in [0 .. (k - 1) -> Nat] : Counts(f, w, k - 1)
    BY <1>3, <1>5
  <1> DEFINE g == [i \in 0 .. k |-> IF i = k THEN 10 * f[k - 1] + Value[w[k]] ELSE f[i]]
  <1>7. 10 * f[k - 1] + Value[w[k]] \in Nat
    <2>1. f[k - 1] \in Nat
      BY <1>5
    <2>2. Value[w[k]] \in Nat
      BY <1>5, DigitIs, ElementOfSeq
    <2>3. \A a, b \in Nat : 10 * a + b \in Nat
      OBVIOUS
    <2> QED BY <2>1, <2>2, <2>3
  <1>8. g \in [0 .. k -> Nat]
    BY <1>5, <1>7
  <1>9. \A i \in 0 .. k : g[i] = IF i = 0 THEN 0 ELSE 10 * g[i - 1] + Value[w[i]]
    <2> TAKE i \in 0 .. k
    <2>1. CASE i = k
      BY <2>1, <1>5
    <2>2. CASE i # k
      <3>1. i \in 0 .. (k - 1) /\ f[i] = IF i = 0 THEN 0 ELSE 10 * f[i - 1] + Value[w[i]]
        BY <1>5, <1>6, <2>2 DEF Counts
      <3>2. i # 0 => i - 1 \in 0 .. k /\ i - 1 # k
        BY <1>5, <3>1
      <3> QED BY <2>2, <3>1, <3>2
    <2> QED BY <2>1, <2>2
  <1>10. Counts(g, w, k)
    <2> HIDE DEF g
    <2> QED BY <1>8, <1>9 DEF Counts
  <1> QED BY <1>8, <1>10

(* The value of a string of digits is a natural number.                    *)
LEMMA NumberIs ==
  ASSUME NEW w \in Seq(Digit)
  PROVE  Number(w) \in Nat
  <1> DEFINE up == CHOOSE f : Counts(f, w, Len(w))
  <1>1. Number(w) = up[Len(w)]
    BY Zenon DEF Number, Counts
  <1>2. \E f : f \in [0 .. Len(w) -> Nat] /\ Counts(f, w, Len(w))
    BY CountsExists
  <1>3. Counts(up, w, Len(w))
    BY <1>2
  <1>4. up = [i \in 0 .. Len(w) |-> IF i = 0 THEN 0 ELSE 10 * up[i - 1] + Value[w[i]]]
    BY <1>3, Zenon DEF Counts
  <1> HIDE DEF up
  <1> DEFINE Off == {i \in 0 .. Len(w) : up[i] \notin Nat}
  <1>5. Off = {}
    <2> SUFFICES ASSUME Off # {} PROVE FALSE
      OBVIOUS
    <2>1. Len(w) \in Nat /\ Off \subseteq Nat
      BY LenProperties
    <2>2. PICK k \in Off : \A m \in Off : k <= m
      <3> HIDE DEF Off
      <3> QED BY <2>1, LeastNumber
    <2>3. k # 0
      BY <1>4, <2>2
    <2>4. k - 1 \in 0 .. Len(w) /\ k - 1 \notin Off /\ k \in 1 .. Len(w)
      BY <2>1, <2>2, <2>3
    <2>5. up[k - 1] \in Nat
      BY <2>4
    <2>6. Value[w[k]] \in Nat
      BY <2>4, DigitIs, ElementOfSeq
    <2>7. up[k] = 10 * up[k - 1] + Value[w[k]]
      BY <1>4, <2>2, <2>3
    <2>8. \A a, b \in Nat : 10 * a + b \in Nat
      OBVIOUS
    <2> QED BY <2>5, <2>6, <2>7, <2>8
  <1>6. up[Len(w)] \in Nat
    BY <1>5, LenProperties
  <1> QED BY <1>1, <1>6 DEF up

--------------------------------------------------------------------------------
(* std::stoi of a string of digits.                                        *)
LEMMA StoiOfDigits ==
  ASSUME NEW w \in Seq(Digit), w # <<>>
  PROVE  (Stoi(w).throws <=> Number(w) > IntMax) /\ Stoi(w).value = Number(w)
  <1>1. Len(w) \in Nat /\ Len(w) > 0 /\ w[1] \in Digit /\ Head(w) = w[1]
        /\ \A i \in 1 .. Len(w) : w[i] \in Digit
    BY LenProperties, EmptySeq
  <1>2. Span(w, {" "}) = 0
    <2>1. w[1] # " "
      BY <1>1, DigitIs
    <2>2. 0 \in 0 .. Len(w) /\ 0 + 1 = 1
      BY <1>1
    <2>3. w[0 + 1] \notin {" "}
      BY <2>1, <2>2
    <2>4. 1 .. 0 = {}
      OBVIOUS
    <2>5. \A i \in 1 .. 0 : w[i] \in {" "}
      BY <2>4, Zenon
    <2> QED BY <2>2, <2>3, <2>5, SpanOf
  <1>3. Drop(w, 0) = w
    BY SubSeqFull DEF Drop
  <1>4. ~(Head(w) \in {"-", "+"}) /\ Head(w) # "-"
    BY <1>1, DigitIs
  <1>5. Span(w, Digit) = Len(w)
    BY <1>1, SpanOf
  <1>6. SubSeq(w, 1, Len(w)) = w
    BY SubSeqFull
  <1> DEFINE throws == Len(w) = 0 \/ Number(w) > IntMax
  <1>7. Stoi(w) = [throws |-> throws, value |-> Number(w)]
    BY <1>2, <1>3, <1>4, <1>5, <1>6, Zenon DEF Stoi
  <1> HIDE DEF throws
  <1>8. Stoi(w).throws = throws /\ Stoi(w).value = Number(w)
    BY <1>7
  <1>9. Len(w) # 0
    BY <1>1
  <1> QED BY <1>8, <1>9, Zenon DEF throws

(* Where the colon is, what is refused is told from what is not.           *)
LEMMA ParseAt ==
  ASSUME NEW T, NEW s \in Seq(T), NEW n \in 0 .. Len(s),
         n = Span(s, {s[i] : i \in DOMAIN s} \ {":"})
  PROVE  LET min == SubSeq(s, 1, n)
             sec == SubSeq(s, n + 2, Len(s))
         IN  /\ ParseTime(s) # Refused => n + 1 <= Len(s) /\ n # 0 /\ Len(sec) = 2
             /\ n + 1 <= Len(s) /\ n # 0 /\ Len(sec) = 2 =>
                  ParseTime(s) = IF \/ Stoi(min).throws \/ Stoi(sec).throws
                                    \/ ~InRange(Stoi(min).value, Stoi(sec).value)
                                   THEN Refused ELSE min \o sec
  <1>1. n \in Int /\ (n + 1) - 1 = n /\ (n + 1) + 1 = n + 2 /\ (n + 1 = 1 <=> n = 0)
        /\ Len(s) \in Nat /\ (n + 1 > Len(s) <=> ~(n + 1 <= Len(s)))
    BY LenProperties
  <1> QED BY <1>1 DEF ParseTime, Drop, WrongLength

(* The arguments of every call: a string and a byte.                       *)
CookInv == time \in Seq(Characters) /\ level \in Byte

(* They are that at any time.                                              *)
LEMMA CookInvariant == Spec => []CookInv
  <1>1. Init => CookInv
    BY DEF Init, CookInv
  <1>2. CookInv /\ [Next]_<<time, level>> => CookInv'
    BY DEF CookInv, Next, Extend
  <1> QED BY <1>1, <1>2, PTL DEF Spec

(* A string that is taken has characters before a first colon and exactly  *)
(* two after it.                                                           *)
THEOREM OtherLengthsRefused == Spec => []RefusesOtherLengths
  <1>1. ASSUME CookInv, ParseTime(time) # Refused
        PROVE  /\ Len(time) >= 4 /\ time[Len(time) - 2] = ":"
               /\ \A i \in 1 .. (Len(time) - 3) : time[i] # ":"
    <2> DEFINE S == {time[i] : i \in DOMAIN time} \ {":"}
    <2>1. time \in Seq(Characters) /\ Len(time) \in Nat /\ DOMAIN time = 1 .. Len(time)
      BY <1>1, LenProperties DEF CookInv
    <2>2. PICK n \in 0 .. Len(time) :
            /\ n = Span(time, S) /\ \A i \in 1 .. n : time[i] \in S
            /\ (n = Len(time) \/ time[n + 1] \notin S)
      <3> HIDE DEF S
      <3> QED BY <2>1, SpanIs
    <2>3. n + 1 <= Len(time) /\ n # 0 /\ Len(SubSeq(time, n + 2, Len(time))) = 2
      BY <1>1, <2>1, <2>2, ParseAt
    <2>4. Len(time) = n + 3
      <3>1. n + 2 \in Int /\ \A i \in (n + 2) .. Len(time) : time[i] \in Characters
        <4> HIDE DEF S
        <4>1. n + 2 \in Int /\ \A i \in (n + 2) .. Len(time) : i \in 1 .. Len(time)
          BY <2>1, <2>2
        <4> QED BY <2>1, <4>1, ElementOfSeq
      <3>2. Len(SubSeq(time, n + 2, Len(time)))
              = IF n + 2 <= Len(time) THEN Len(time) - (n + 2) + 1 ELSE 0
        BY <2>1, <3>1, SubSeqProperties
      <3> QED BY <2>1, <2>2, <2>3, <3>2
    <2>5. \A i \in 1 .. n : time[i] # ":"
      BY <2>2
    <2>6. n + 1 \in 1 .. Len(time) /\ time[n + 1] \notin S
      <3> HIDE DEF S
      <3>1. n + 1 \in 1 .. Len(time) /\ n # Len(time)
        BY <2>4
      <3> QED BY <2>2, <3>1
    <2>7. time[n + 1] = ":"
      BY <2>1, <2>6
    <2>8. Len(time) - 2 = n + 1 /\ Len(time) - 3 = n /\ Len(time) >= 4
      BY <2>1, <2>3, <2>4
    <2> QED BY <2>5, <2>7, <2>8
  <1>2. CookInv => RefusesOtherLengths
    BY <1>1 DEF RefusesOtherLengths
  <1> QED BY <1>2, CookInvariant, PTL

(* "MM:SS" is taken digit for digit, "1:30" of main_tester.cpp's test 4    *)
(* and every other number of minute digits that is an int included.        *)
THEOREM MinutesSecondsTaken ==
  ASSUME IntHoldsSeconds
  PROVE  Spec => []TakesMinutesSeconds
  <1>1. ASSUME CookInv, Shaped(time)
        PROVE  ParseTime(time) = IF Seconds(time) > 59 \/ Minutes(time) > IntMax
                                   THEN Refused
                                   ELSE SubSeq(time, 1, Len(time) - 3)
                                          \o SubSeq(time, Len(time) - 1, Len(time))
    <2> DEFINE S == {time[i] : i \in DOMAIN time} \ {":"}
    <2>1. time \in Seq(Characters) /\ Len(time) \in Nat /\ DOMAIN time = 1 .. Len(time)
      BY <1>1, LenProperties DEF CookInv
    <2>2. PICK n \in 1 .. (Len(time) - 3) :
            /\ Len(time) = n + 3 /\ time[n + 1] = ":"
            /\ \A i \in DOMAIN time \ {n + 1} : time[i] \in Digit
      BY <1>1 DEF Shaped
    <2> DEFINE min == SubSeq(time, 1, n)
               sec == SubSeq(time, n + 2, Len(time))
    <2>3. n \in Nat /\ n >= 1 /\ Len(time) - 3 = n /\ Len(time) - 1 = n + 2
      BY <2>1, <2>2
    <2>4. \A i \in 1 .. n : i \in DOMAIN time /\ time[i] \in Digit
      BY <2>1, <2>2, <2>3
    <2>5. n = Span(time, S)
      <3>1. \A i \in 1 .. n : time[i] \in S
        BY <2>4, DigitIs
      <3>2. n \in 0 .. Len(time) /\ time[n + 1] \notin S
        BY <2>2, <2>3
      <3> HIDE DEF S
      <3> QED BY <2>1, <3>1, <3>2, SpanOf
    <2>6. min \in Seq(Digit) /\ Len(min) = n
      BY <2>3, <2>4, SubSeqProperties
    <2>7. sec \in Seq(Digit) /\ Len(sec) = 2
      <3>1. \A i \in (n + 2) .. Len(time) : time[i] \in Digit
        BY <2>1, <2>2, <2>3
      <3> QED BY <2>2, <2>3, <3>1, SubSeqProperties
    <2>8. ParseTime(time) = IF \/ Stoi(min).throws \/ Stoi(sec).throws
                               \/ ~InRange(Stoi(min).value, Stoi(sec).value)
                              THEN Refused ELSE min \o sec
      <3>1. n + 1 <= Len(time) /\ n # 0 /\ n \in 0 .. Len(time)
        BY <2>2, <2>3
      <3> QED BY <2>1, <2>5, <2>7, <3>1, ParseAt
    <2>9. /\ (Stoi(min).throws <=> Number(min) > IntMax) /\ Stoi(min).value = Number(min)
          /\ (Stoi(sec).throws <=> Number(sec) > IntMax) /\ Stoi(sec).value = Number(sec)
          /\ Number(min) \in Nat /\ Number(sec) \in Nat
      <3> HIDE DEF min, sec
      <3>1. min # <<>> /\ sec # <<>>
        <4>1. Len(min) # 0 /\ Len(sec) # 0
          BY <2>3, <2>6, <2>7
        <4>2. Len(<<>>) = 0
          BY EmptySeq
        <4> QED BY <4>1, <4>2
      <3> QED BY <2>6, <2>7, <3>1, StoiOfDigits, NumberIs
    <2>10. Minutes(time) = Number(min) /\ Seconds(time) = Number(sec)
      BY <2>3 DEF Minutes, Seconds
    <2>11. SubSeq(time, 1, Len(time) - 3) = min /\ SubSeq(time, Len(time) - 1, Len(time)) = sec
      BY <2>3
    <2> HIDE DEF min, sec
    <2>12. (\/ Stoi(min).throws \/ Stoi(sec).throws
           \/ ~InRange(Stoi(min).value, Stoi(sec).value))
             <=> (Seconds(time) > 59 \/ Minutes(time) > IntMax)
      BY <2>9, <2>10 DEF InRange, IntHoldsSeconds
    <2> QED BY <2>8, <2>11, <2>12
  <1>2. CookInv => TakesMinutesSeconds
    BY <1>1 DEF TakesMinutesSeconds
  <1> QED BY <1>2, CookInvariant, PTL

(* "Power" is pressed once more than the comment says for each level below *)
(* full power, and not at all for any other byte.                          *)
THEOREM PowerPressedOnceMore == Spec => []OnePressMore
  <1>1. ASSUME CookInv PROVE OnePressMore
    <2>1. level \in 0 .. 255
      BY <1>1 DEF CookInv, Byte
    <2>2. CASE level \in Reduced
      <3>1. PICK n \in 1 .. 9 : level = 10 * n
        BY <2>2 DEF Reduced
      <3>2. PowerPresses(level) = 11 - n /\ Commented(level) = 10 - n
        BY <3>1 DEF PowerPresses, Commented
      <3> QED BY <2>2, <3>2 DEF OnePressMore
    <2>3. CASE level \notin Reduced
      <3>1. ASSUME level \in 10 .. 99, level % 10 = 0 PROVE level \in Reduced
        <4>1. level \div 10 \in 1 .. 9 /\ level = 10 * (level \div 10)
          BY <3>1
        <4> QED BY <4>1 DEF Reduced
      <3> QED BY <2>3, <3>1 DEF OnePressMore, PowerPresses
    <2> QED BY <2>2, <2>3
  <1> QED BY <1>1, CookInvariant, PTL
================================================================================
