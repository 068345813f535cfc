---------------------------- MODULE ArduinoLinkProofs ----------------------------
(***************************************************************************)
(* The host library on one handle, for every set of commands, times and    *)
(* keys: what a call has pressed, and what it leaves on the line. The      *)
(* properties hold because the line between the two programs is nearly     *)
(* empty: a command that is written is the only line that is not blank     *)
(* (OneLine, Pending), a timed press has no line behind it (TapAlone), and *)
(* what the library waits for is the last reply of its command that is not *)
(* part of a banner or a help text (Closing). InFlight relates the two     *)
(* histories; one conjunct of Phases for each place of the caller's        *)
(* thread. One lemma for each step of the library and of the sketch.       *)
(***************************************************************************)
EXTENDS ArduinoLink, SequenceTheorems, WellFoundedInduction, TLAPS

(* std::string::find of parse_time_to_digits: the length of a prefix is    *)
(* not beyond the end of the string. It is a CHOOSE in CookPlan, so the    *)
(* least such length must be shown to exist.                               *)
LEMMA SpanInLength ==
  ASSUME NEW T, NEW w \in Seq(T), NEW S
  PROVE  Cook!Span(w, S) \in 0 .. Len(w)
  <1> DEFINE Ends == {n \in 0 .. Len(w) : n = Len(w) \/ w[n + 1] \notin S}
  <1>1. Len(w) \in Nat /\ Len(w) \in Ends /\ Ends \subseteq Nat
    BY LenProperties
  <1>2. PICK n \in Ends : \A m \in Ends : ~(<<m, n>> \in OpToRel(<, Nat))
    <2> HIDE DEF Ends
    <2> QED BY <1>1, NatLessThanWellFounded, WFMin
  <1>3. \A m \in Ends : n <= m
    <2> DEFINE R == {ss \in Nat \X Nat : ss[1] < ss[2]}
    <2>1. OpToRel(<, Nat) = R
      BY Zenon DEF OpToRel
    <2> SUFFICES ASSUME NEW m \in Ends PROVE n <= m
      OBVIOUS
    <2>2. <<m, n>> \notin R
      BY <1>2, <2>1
    <2> QED BY <1>1, <2>2
  <1>4. \A i \in 1 .. n : w[i] \in S
    <2> SUFFICES ASSUME NEW i \in 1 .. n, w[i] \notin S PROVE FALSE
      OBVIOUS
    <2>1. i - 1 \in Ends
      BY <1>1
    <2>2. n <= i - 1
      BY <1>3, <2>1, Zenon
    <2> QED BY <1>1, <2>2
  <1>5. n \in 0 .. Len(w) /\ (n = Len(w) \/ w[n + 1] \notin S)
    OBVIOUS
  <1> QED BY <1>4, <1>5 DEF Cook!Span

(* The digits of a time are characters of the time (or the time is         *)
(* refused).                                                               *)
LEMMA ParsedTime ==
  ASSUME NEW T, NEW s \in Seq(T)
  PROVE  Cook!ParseTime(s) \in Seq(T)
  <1> DEFINE colon == Cook!Span(s, {s[i] : i \in DOMAIN s} \ {":"}) + 1
             min == SubSeq(s, 1, colon - 1)
             sec == Cook!Drop(s, colon)
  <1>1. colon \in 1 .. (Len(s) + 1) /\ Len(s) \in Nat
    <2>1. Cook!Span(s, {s[i] : i \in DOMAIN s} \ {":"}) \in 0 .. Len(s)
      BY SpanInLength
    <2> QED BY <2>1, LenProperties
  <1> HIDE DEF colon
  <1>2. min \in Seq(T)
    <2>1. \A i \in 1 .. colon - 1 : s[i] \in T
      BY <1>1, ElementOfSeq
    <2> QED BY <1>1, <2>1, SubSeqProperties
  <1>3. sec \in Seq(T)
    <2>1. \A i \in colon + 1 .. Len(s) : s[i] \in T
      BY <1>1, ElementOfSeq
    <2> QED BY <1>1, <2>1, SubSeqProperties DEF Cook!Drop
  <1> HIDE DEF min, sec
  <1>4. min \o sec \in Seq(T) /\ <<>> \in Seq(T)
    BY <1>2, <1>3, ConcatProperties, EmptySeq
  <1>5. Cook!ParseTime(s) = Cook!Refused \/ Cook!ParseTime(s) = min \o sec
    BY DEF Cook!ParseTime, min, sec, colon
  <1> QED BY <1>4, <1>5 DEF Cook!Refused

(* The number of presses of "Power" is a number, for every level of a      *)
(* byte.                                                                   *)
LEMMA Powers == \A p \in 0 .. 255 : Cook!PowerPresses(p) \in Nat
  BY DEF Cook!PowerPresses

--------------------------------------------------------------------------------
(* The parts of the invariant. Lines and replies that mean nothing to the  *)
(* other side.                                                             *)
Texts(s)  == \A i \in DOMAIN s : s[i] = "text"
Blanks(s) == \A i \in DOMAIN s : s[i].verb = "blank"

(* A call of the API is going on or was the last thing that happened.      *)
Calling == call \in {"send", "run", "stop"}

(* The library knows a press when it sends one.                            *)
Doubled(plan) == \A i \in DOMAIN plan : plan[i].line.verb = "press" => plan[i].doubled

(* The element of the record for the last command written.                 *)
L    == Len(pressed)
Last == pressed[L]

(* A timed press has nothing behind it; all lines but the last are blank.  *)
TapAlone == timed => rx = <<>>
OneLine  == \A i \in 1 .. Len(rx) - 1 : rx[i].verb = "blank"

(* Where the thread can be, and what it then holds.                        *)
Where ==
  /\ hpc \in {"closed", "opening"} => ~Calling
  /\ hpc \in {"write", "read", "settle"} => Calling /\ todo # <<>>
  /\ hpc # "read" => buf = <<>>
  /\ garbled => hpc \in {"closed", "idle"}
  /\ Doubled(todo)

(* The two histories agree up to the command written last, which has       *)
(* pressed its key or nothing yet; a line on its way has pressed nothing.  *)
InFlight ==
  Calling =>
    /\ L <= Len(owed)
    /\ \A i \in 1 .. L - 1 : pressed[i] = owed[i]
    /\ Last \in {<<>>, owed[L]}
    /\ rx # <<>> /\ rx[Len(rx)].verb # "blank" =>
         Last = <<>> /\ owed[L] = KeysOf(rx[Len(rx)])

(* Nothing is under way.                                                   *)
Quiet == Blanks(rx) /\ Texts(tx) /\ ~timed /\ ~garbled

(* The plan is what is left of the keys owed after the first n.            *)
Left(n) ==
  /\ Len(owed) = n + Len(todo)
  /\ \A i \in 1 .. Len(todo) : owed[n + i] = KeysOf(todo[i].line)

(* The replies the library has not looked at; one of them is the awaited   *)
(* one; behind it there are texts only.                                    *)
Replies == buf \o tx
Answered(s) == \E i \in DOMAIN s : Awaited(s[i])
Closing(s)  == \A i, j \in DOMAIN s : i < j /\ Awaited(s[i]) => s[j] = "text"

(* The command is on its way, or has been taken (or lost).                 *)
Pending ==
  /\ rx # <<>> /\ rx[Len(rx)] = Head(todo).line
  /\ Texts(Replies) /\ ~timed
  /\ Last = <<>>

Gone ==
  /\ rx = <<>>
  /\ Closing(Replies)
  /\ timed => ~Answered(Replies)
  /\ timed \/ Answered(Replies) => Last = owed[L]

(* For each place of the thread.                                           *)
Opening == hpc = "opening" => rx = <<>> /\ ~timed
AtRest  == hpc = "idle" /\ result # SerialFail =>
             Quiet /\ (Calling => Last = owed[L])
InWrite == hpc = "write" => Quiet /\ Left(L) /\ Last = owed[L]
InRead  == hpc = "read" => Left(L - 1) /\ (Pending \/ Gone)
InSettle == hpc = "settle" => Quiet /\ rx = <<>> /\ Left(L - 1) /\ Last = owed[L]

Phases == Opening /\ AtRest /\ InWrite /\ InRead /\ InSettle
LinkInv == LinkTypeOK /\ TapAlone /\ OneLine /\ Where /\ InFlight /\ Phases

(* The caller stops after a serial failure, and its presses begin with     *)
(* "press" as the library looks for it. Without the first, a late reply    *)
(* answers the next command (run link_retry).                              *)
Careful ==
  /\ ~RetryAfterFail
  /\ \A c \in Raw : c.line.verb = "press" => c.doubled

--------------------------------------------------------------------------------
(* The lines the library composes are command lines, and the presses say   *)
(* "press", which the library recognises.                                  *)
LEMMA LineTypes ==
  /\ Blank \in Command /\ Unknown \in Command
  /\ \A k \in Keys \cup {Idle} : PressKey(k) \in RawCommand /\ PressKey(k).doubled
  /\ Keys \subseteq Int /\ Wired \subseteq Keys
  /\ CookTime \in Keys /\ Power \in Keys /\ Stop \in Keys
  BY CommandAssumption, ProtocolAssumption, LinkAssumption
  DEF Blank, Unknown, PressKey, Line, Command, RawCommand, Verb, Keys, Idle

(* A sequence of one.                                                      *)
LEMMA Singleton ==
  ASSUME NEW S, NEW x \in S
  PROVE  <<x>> \in Seq(S) /\ Len(<<x>>) = 1 /\ <<x>>[1] = x
  OBVIOUS

(* The keys a line closes are keys.                                        *)
LEMMA KeysOfType ==
  ASSUME NEW l \in Command PROVE KeysOf(l) \in Seq(Keys)
  <1>1. l.key \in Wired => <<l.key>> \in Seq(Keys)
    BY LineTypes, Singleton
  <1>2. <<>> \in Seq(Keys)
    BY EmptySeq
  <1> QED BY <1>1, <1>2 DEF KeysOf

(* The keys a plan is to press: none at first, then what each of its lines *)
(* closes.                                                                 *)
LEMMA OwesPlan ==
  ASSUME NEW plan \in Seq(RawCommand)
  PROVE  /\ Owes(plan) \in Seq(Seq(Keys))
         /\ Len(Owes(plan)) = 1 + Len(plan)
         /\ Owes(plan)[1] = <<>>
         /\ \A i \in 1 .. Len(plan) : Owes(plan)[1 + i] = KeysOf(plan[i].line)
  <1> DEFINE keys == [i \in DOMAIN plan |-> KeysOf(plan[i].line)]
             none == <<<<>>>>
  <1>1. Len(plan) \in Nat /\ DOMAIN plan = 1 .. Len(plan)
    BY LenProperties
  <1>2. \A i \in 1 .. Len(plan) : plan[i].line \in Command
    <2>1. \A i \in 1 .. Len(plan) : plan[i] \in RawCommand
      BY ElementOfSeq
    <2> QED BY <2>1 DEF RawCommand
  <1>3. keys \in Seq(Seq(Keys)) /\ Len(keys) = Len(plan)
    BY <1>1, <1>2, KeysOfType
  <1>4. none \in Seq(Seq(Keys)) /\ Len(none) = 1 /\ none[1] = <<>>
    OBVIOUS
  <1>5. \A i \in 1 .. Len(plan) : keys[i] = KeysOf(plan[i].line)
    BY <1>1
  <1>6. Owes(plan) = none \o keys
    BY DEF Owes
  <1> HIDE DEF keys, none
  <1>7. Owes(plan) \in Seq(Seq(Keys)) /\ Len(Owes(plan)) = 1 + Len(plan)
        /\ \A i \in 1 .. 1 + Len(plan) :
             Owes(plan)[i] = IF i <= 1 THEN none[i] ELSE keys[i - 1]
    <2> DEFINE T == Seq(Keys)
    <2>1. none \in Seq(T) /\ keys \in Seq(T)
      BY <1>3, <1>4
    <2> HIDE DEF T
    <2>2. /\ none \o keys \in Seq(T) /\ Len(none \o keys) = Len(none) + Len(keys)
          /\ \A i \in 1 .. Len(none) + Len(keys) :
               (none \o keys)[i] = IF i <= Len(none) THEN none[i] ELSE keys[i - Len(none)]
      BY <2>1, ConcatProperties
    <2> QED BY <1>3, <1>4, <1>6, <2>2 DEF T
  <1>8. Owes(plan)[1] = none[1]
    BY <1>1, <1>7
  <1>9. \A i \in 1 .. Len(plan) : Owes(plan)[1 + i] = keys[i]
    <2> SUFFICES ASSUME NEW i \in 1 .. Len(plan) PROVE Owes(plan)[1 + i] = keys[i]
      OBVIOUS
    <2>1. 1 + i \in 1 .. 1 + Len(plan) /\ ~(1 + i <= 1) /\ (1 + i) - 1 = i
      BY <1>1
    <2> QED BY <1>7, <2>1
  <1> QED BY <1>4, <1>5, <1>7, <1>8, <1>9

(* run_microwave's plan is a sequence of presses, and has at least one.    *)
LEMMA CookPlans ==
  ASSUME NEW digits \in Seq(DOMAIN KeyNamed), NEW p \in 0 .. 255
  PROVE  CookSequence(digits, p) \in Seq(RawCommand) /\ Doubled(CookSequence(digits, p))
         /\ CookSequence(digits, p) # <<>>
  <1> DEFINE Taps == {c \in RawCommand : c.doubled}
             named == [i \in DOMAIN digits |-> PressKey(KeyNamed[digits[i]])]
             power == [i \in 1 .. Cook!PowerPresses(p) |-> PressKey(Power)]
             first == <<PressKey(CookTime)>>
  <1>0. \A k \in Keys \cup {Idle} : PressKey(k) \in Taps
    BY LineTypes
  <1> HIDE DEF Taps
  <1>1. first \in Seq(Taps) /\ first # <<>> /\ power \in Seq(Taps)
    <2>1. PressKey(CookTime) \in Taps /\ PressKey(Power) \in Taps
      BY <1>0, LineTypes
    <2>2. first \in Seq(Taps) /\ Len(first) = 1
      BY <2>1, Singleton
    <2>3. power \in Seq(Taps)
      <3>1. \A n \in Nat : [i \in 1 .. n |-> PressKey(Power)] \in Seq(Taps)
        BY <2>1
      <3>2. Cook!PowerPresses(p) \in Nat
        BY Powers
      <3> QED BY <3>1, <3>2
    <2> QED BY <2>2, <2>3, EmptySeq
  <1>2. named \in Seq(Taps)
    <2>1. \A i \in 1 .. Len(digits) : KeyNamed[digits[i]] \in Keys \cup {Idle}
      BY LinkAssumption, ElementOfSeq
    <2>2. Len(digits) \in Nat /\ DOMAIN digits = 1 .. Len(digits)
      BY LenProperties
    <2>3. \A i \in 1 .. Len(digits) : PressKey(KeyNamed[digits[i]]) \in Taps
      BY <2>1, <1>0
    <2> QED BY <2>2, <2>3
  <1>3. CookSequence(digits, p) = first \o named \o power
    BY DEF CookSequence
  <1> HIDE DEF first, named, power
  <1>4. CookSequence(digits, p) \in Seq(Taps) /\ CookSequence(digits, p) # <<>>
    BY <1>1, <1>2, <1>3, ConcatProperties, ConcatEqualIffEmpty
  <1>5. CookSequence(digits, p) \in Seq(RawCommand)
    <2>1. Taps \subseteq RawCommand
      BY DEF Taps
    <2> QED BY <1>4, <2>1, SeqMonotonic
  <1>6. \A i \in DOMAIN CookSequence(digits, p) : CookSequence(digits, p)[i] \in Taps
    BY <1>4, ElementOfSeq, LenProperties
  <1> QED BY <1>4, <1>5, <1>6 DEF Doubled, Taps

(* So are all plans the API functions start with.                          *)
LEMMA PlanTypes ==
  /\ \A c \in Raw : <<c>> \in Seq(RawCommand) /\ <<c>> # <<>>
  /\ <<PressKey(Stop)>> \in Seq(RawCommand) /\ Doubled(<<PressKey(Stop)>>)
  /\ \A t \in Times, p \in Levels :
       LET plan == CookSequence(Cook!ParseTime(t), p)
       IN  plan \in Seq(RawCommand) /\ Doubled(plan) /\ plan # <<>>
  <1>1. \A c \in Raw : <<c>> \in Seq(RawCommand) /\ <<c>> # <<>>
    BY LinkAssumption
  <1>2. <<PressKey(Stop)>> \in Seq(RawCommand) /\ Doubled(<<PressKey(Stop)>>)
    BY LineTypes DEF Doubled
  <1>3. ASSUME NEW t \in Times, NEW p \in Levels
        PROVE  LET plan == CookSequence(Cook!ParseTime(t), p)
               IN  plan \in Seq(RawCommand) /\ Doubled(plan) /\ plan # <<>>
    <2>1. Cook!ParseTime(t) \in Seq(DOMAIN KeyNamed) /\ p \in 0 .. 255
      BY LinkAssumption, ParsedTime
    <2> QED BY <2>1, CookPlans
  <1> QED BY <1>1, <1>2, <1>3

--------------------------------------------------------------------------------
(* No command is answered by a line of a banner or by an error; a press is *)
(* not answered by the "OK: pressing" that announces it.                   *)
LEMMA TextIsNoAnswer ==
  /\ ~Awaited("text") /\ ~Awaited("ERR") /\ Awaited("OK")
  /\ Awaited("OK: pressing") <=> ~Head(todo).doubled
  BY DEF Awaited

(* Where there are texts only, nothing is answered.                        *)
LEMMA TextsAnswerNothing ==
  ASSUME NEW s, Texts(s)
  PROVE  ~Answered(s) /\ Closing(s)
  BY TextIsNoAnswer DEF Texts, Answered, Closing

(* A reply added at the end.                                               *)
LEMMA ReplyAdded ==
  ASSUME NEW s \in Seq(Reply), NEW l \in Reply
  PROVE  /\ Append(s, l) \in Seq(Reply)
         /\ Answered(Append(s, l)) <=> Answered(s) \/ Awaited(l)
         /\ Closing(s) /\ (~Answered(s) \/ l = "text") => Closing(Append(s, l))
         /\ Texts(s) /\ l = "text" => Texts(Append(s, l))
  <1> DEFINE r == Append(s, l)
  <1>1. /\ r \in Seq(Reply) /\ Len(s) \in Nat /\ DOMAIN s = 1 .. Len(s)
        /\ DOMAIN r = 1 .. (Len(s) + 1) /\ r[Len(s) + 1] = l
        /\ \A i \in 1 .. Len(s) : r[i] = s[i]
    BY AppendProperties, LenProperties
  <1> HIDE DEF r
  <1>2. Answered(r) <=> Answered(s) \/ Awaited(l)
    BY <1>1 DEF Answered
  <1>3. Closing(s) /\ (~Answered(s) \/ l = "text") => Closing(r)
    BY <1>1 DEF Closing, Answered
  <1>4. Texts(s) /\ l = "text" => Texts(r)
    BY <1>1 DEF Texts
  <1> QED BY <1>1, <1>2, <1>3, <1>4 DEF r

(* A reply taken from the front.                                           *)
LEMMA ReplyTaken ==
  ASSUME NEW s \in Seq(Reply), s # <<>>
  PROVE  /\ Tail(s) \in Seq(Reply) /\ Head(s) = s[1]
         /\ Answered(Tail(s)) => Answered(s)
         /\ ~Awaited(Head(s)) => (Answered(s) => Answered(Tail(s)))
         /\ Closing(s) => Closing(Tail(s))
         /\ Closing(s) /\ Awaited(Head(s)) => Texts(Tail(s))
         /\ Texts(s) => Texts(Tail(s)) /\ Head(s) = "text"
  <1> DEFINE r == Tail(s)
  <1>1. /\ r \in Seq(Reply) /\ Len(s) \in Nat /\ Len(s) >= 1 /\ DOMAIN s = 1 .. Len(s)
        /\ DOMAIN r = 1 .. (Len(s) - 1) /\ \A i \in 1 .. (Len(s) - 1) : r[i] = s[i + 1]
    BY HeadTailProperties, LenProperties, EmptySeq
  <1>2. Head(s) = s[1]
    BY <1>1
  <1> HIDE DEF r
  <1>3. Answered(r) => Answered(s)
    BY <1>1 DEF Answered
  <1>4. ~Awaited(Head(s)) => (Answered(s) => Answered(r))
    <2> SUFFICES ASSUME ~Awaited(Head(s)), NEW i \in 1 .. Len(s), Awaited(s[i])
                 PROVE  \E j \in 1 .. (Len(s) - 1) : Awaited(r[j])
      BY <1>1 DEF Answered
    <2>1. i # 1 /\ i - 1 \in 1 .. (Len(s) - 1) /\ (i - 1) + 1 = i
      BY <1>1, <1>2
    <2> QED BY <1>1, <2>1
  <1>5. Closing(s) => Closing(r)
    <2> SUFFICES ASSUME Closing(s), NEW i \in DOMAIN r, NEW j \in DOMAIN r, i < j, Awaited(r[i])
                 PROVE  r[j] = "text"
      BY DEF Closing
    <2>1. i + 1 \in DOMAIN s /\ j + 1 \in DOMAIN s /\ i + 1 < j + 1
      BY <1>1
    <2> QED BY <1>1, <2>1 DEF Closing
  <1>6. Closing(s) /\ Awaited(Head(s)) => Texts(r)
    <2> SUFFICES ASSUME Closing(s), Awaited(Head(s)), NEW j \in DOMAIN r PROVE r[j] = "text"
      BY DEF Texts
    <2>1. 1 \in DOMAIN s /\ j + 1 \in DOMAIN s /\ 1 < j + 1
      BY <1>1
    <2> QED BY <1>1, <1>2, <2>1 DEF Closing
  <1>7. Texts(s) => Texts(r) /\ Head(s) = "text"
    BY <1>1, <1>2 DEF Texts
  <1> QED BY <1>1, <1>2, <1>3, <1>4, <1>5, <1>6, <1>7 DEF r

(* Replies lost at the end.                                                *)
LEMMA RepliesCut ==
  ASSUME NEW s \in Seq(Reply), NEW n \in 0 .. Len(s)
  PROVE  LET r == SubSeq(s, 1, n)
         IN  /\ r \in Seq(Reply)
             /\ Answered(r) => Answered(s)
             /\ Closing(s) => Closing(r)
             /\ Texts(s) => Texts(r)
  <1> DEFINE r == SubSeq(s, 1, n)
  <1>1. /\ r \in Seq(Reply) /\ Len(s) \in Nat /\ DOMAIN s = 1 .. Len(s)
        /\ DOMAIN r = 1 .. n /\ \A i \in 1 .. n : r[i] = s[i]
    OBVIOUS
  <1> HIDE DEF r
  <1>2. Answered(r) => Answered(s)
    BY <1>1 DEF Answered
  <1>3. Closing(s) => Closing(r)
    BY <1>1 DEF Closing
  <1>4. Texts(s) => Texts(r)
    BY <1>1 DEF Texts
  <1> QED BY <1>1, <1>2, <1>3, <1>4 DEF r

(* The buffer of the library and the port's together, as each step changes *)
(* them.                                                                   *)
LEMMA JoinReplies ==
  ASSUME NEW s \in Seq(Reply), NEW t \in Seq(Reply)
  PROVE  /\ s \o t \in Seq(Reply)
         /\ \A l \in Reply : s \o Append(t, l) = Append(s \o t, l)
         /\ s # <<>> => Tail(s) \o t = Tail(s \o t) /\ s \o t # <<>> /\ Head(s \o t) = Head(s)
         /\ \A n \in 0 .. Len(t) : s \o SubSeq(t, 1, n) = SubSeq(s \o t, 1, Len(s) + n)
         /\ \A n \in 0 .. Len(t) : SubSeq(t, 1, n) \o SubSeq(t, n + 1, Len(t)) = t
         /\ <<>> \o t = t
  <1> DEFINE r == s \o t
  <1>1. /\ r \in Seq(Reply) /\ Len(r) = Len(s) + Len(t) /\ Len(s) \in Nat /\ Len(t) \in Nat
        /\ \A i \in 1 .. Len(s) + Len(t) : r[i] = IF i <= Len(s) THEN s[i] ELSE t[i - Len(s)]
    BY ConcatProperties, LenProperties
  <1>2. ASSUME NEW l \in Reply
        PROVE  s \o Append(t, l) = Append(r, l)
    <2>1. <<l>> \in Seq(Reply)
      BY Singleton
    <2> QED BY <1>1, <2>1, AppendIsConcat, ConcatAssociative
  <1>3. s # <<>> => Tail(s) \o t = Tail(r) /\ r # <<>> /\ Head(r) = Head(s)
    <2> SUFFICES ASSUME s # <<>> PROVE Tail(s) \o t = Tail(r) /\ r # <<>> /\ Head(r) = Head(s)
      OBVIOUS
    <2>1. Len(s) >= 1 /\ r # <<>>
      BY <1>1, EmptySeq
    <2>2. Head(r) = r[1] /\ Head(s) = s[1] /\ r[1] = s[1]
      BY <1>1, <2>1
    <2> DEFINE a == Tail(s) \o t
               b == Tail(r)
    <2>3. /\ Tail(s) \in Seq(Reply) /\ Len(Tail(s)) = Len(s) - 1
          /\ \A i \in 1 .. Len(s) - 1 : Tail(s)[i] = s[i + 1]
      BY <2>1, HeadTailProperties
    <2>4. /\ a \in Seq(Reply) /\ Len(a) = Len(s) - 1 + Len(t)
          /\ \A i \in 1 .. Len(s) - 1 + Len(t) :
               a[i] = IF i <= Len(s) - 1 THEN Tail(s)[i] ELSE t[i - (Len(s) - 1)]
      BY <1>1, <2>3, ConcatProperties
    <2>5. /\ b \in Seq(Reply) /\ Len(b) = Len(s) - 1 + Len(t)
          /\ \A i \in 1 .. Len(s) - 1 + Len(t) : b[i] = r[i + 1]
      BY <1>1, <2>1, HeadTailProperties
    <2> HIDE DEF a, b, r
    <2>6. \A i \in 1 .. Len(a) : a[i] = b[i]
      <3> TAKE i \in 1 .. Len(a)
      <3>1. CASE i <= Len(s) - 1
        <4>1. a[i] = s[i + 1] /\ i + 1 <= Len(s) /\ i + 1 \in 1 .. Len(s) + Len(t)
          BY <3>1, <1>1, <2>3, <2>4
        <4>2. r[i + 1] = s[i + 1]
          BY <1>1, <4>1
        <4> QED BY <1>1, <2>4, <2>5, <4>1, <4>2
      <3>2. CASE ~(i <= Len(s) - 1)
        <4>1. a[i] = t[i - (Len(s) - 1)] /\ ~(i + 1 <= Len(s)) /\ i + 1 \in 1 .. Len(s) + Len(t)
          BY <3>2, <1>1, <2>4
        <4>2. r[i + 1] = t[(i + 1) - Len(s)] /\ (i + 1) - Len(s) = i - (Len(s) - 1)
          BY <1>1, <4>1
        <4> QED BY <1>1, <2>4, <2>5, <4>1, <4>2
      <3> QED BY <3>1, <3>2
    <2>7. a = b
      BY <2>4, <2>5, <2>6, SeqEqual
    <2> QED BY <2>1, <2>2, <2>7 DEF a, b
  <1>4. ASSUME NEW n \in 0 .. Len(t)
        PROVE  s \o SubSeq(t, 1, n) = SubSeq(r, 1, Len(s) + n)
    <2> DEFINE c == SubSeq(t, 1, n)
               a == s \o c
               b == SubSeq(r, 1, Len(s) + n)
    <2>1. c \in Seq(Reply) /\ Len(c) = n /\ \A i \in 1 .. n : c[i] = t[i]
      OBVIOUS
    <2>2. /\ a \in Seq(Reply) /\ Len(a) = Len(s) + n
          /\ \A i \in 1 .. Len(s) + n : a[i] = IF i <= Len(s) THEN s[i] ELSE c[i - Len(s)]
      BY <1>1, <2>1, ConcatProperties
    <2> HIDE DEF r
    <2>3. b \in Seq(Reply) /\ Len(b) = Len(s) + n /\ \A i \in 1 .. Len(s) + n : b[i] = r[i]
      BY <1>1
    <2> HIDE DEF a, b, c
    <2>4. \A i \in 1 .. Len(a) : a[i] = b[i]
      <3> TAKE i \in 1 .. Len(a)
      <3>1. i \in 1 .. Len(s) + n /\ i \in 1 .. Len(s) + Len(t)
        BY <1>1, <2>2
      <3>2. CASE i <= Len(s)
        BY <1>1, <2>2, <2>3, <3>1, <3>2
      <3>3. CASE ~(i <= Len(s))
        <4>1. i - Len(s) \in 1 .. n
          BY <1>1, <3>1, <3>3
        <4>2. a[i] = c[i - Len(s)] /\ c[i - Len(s)] = t[i - Len(s)]
          BY <2>1, <2>2, <3>1, <3>3, <4>1
        <4>3. b[i] = r[i] /\ r[i] = t[i - Len(s)]
          BY <1>1, <2>3, <3>1, <3>3
        <4> QED BY <4>2, <4>3
      <3> QED BY <3>2, <3>3
    <2> QED BY <2>2, <2>3, <2>4, SeqEqual DEF a, b, c
  <1>5. \A n \in 0 .. Len(t) : SubSeq(t, 1, n) \o SubSeq(t, n + 1, Len(t)) = t
    <2> TAKE n \in 0 .. Len(t)
    <2>1. SubSeq(t, 1, n) \o SubSeq(t, n + 1, Len(t)) = SubSeq(t, 1, Len(t))
      <3>1. 1 \in 1 .. Len(t) + 1 /\ n \in 1 - 1 .. Len(t) /\ Len(t) \in n .. Len(t)
        BY <1>1
      <3> QED BY <3>1, ConcatAdjacentSubSeq
    <2> QED BY <2>1, SubSeqFull
  <1> QED BY <1>1, <1>2, <1>3, <1>4, <1>5, ConcatEmptySeq

--------------------------------------------------------------------------------
(* The sketch keeps the types.                                             *)
LEMMA SketchTypes ==
  ASSUME LinkTypeOK, Sketch
  PROVE  LinkTypeOK'
  <1> USE DEF LinkTypeOK
  <1>1. /\ up' \in BOOLEAN /\ key' \in Keys \cup {Idle} /\ timed' \in BOOLEAN
        /\ rx' \in Seq(Command) /\ tx' \in Seq(Reply)
    <2>1. rx # <<>> => Tail(rx) \in Seq(Command)
      BY HeadTailProperties
    <2>2. \A l \in Reply : Append(tx, l) \in Seq(Reply)
      BY AppendProperties
    <2>3. CASE Discard
      BY <2>1, <2>3 DEF Discard
    <2>4. CASE Boot
      BY <2>2, <2>4 DEF Boot, Reply
    <2>5. CASE Skip
      BY <2>1, <2>5 DEF Skip, Waiting
    <2>6. CASE Respond
      <3>1. rx # <<>> /\ UNCHANGED <<up, key, timed>> /\ \E l \in Reply : Served(l)
        BY <2>6 DEF Respond, Waiting, Served, Reply
      <3> QED BY <2>1, <2>2, <3>1 DEF Served
    <2>7. CASE Release
      BY <2>1, <2>2, <2>7 DEF Release, Waiting, Served, LetGo, Reply
    <2>8. CASE Supersede
      BY <2>8 DEF Supersede, LetGo
    <2>9. CASE NotWired
      BY <2>1, <2>2, <2>9 DEF NotWired, Waiting, Served, Reply
    <2>10. CASE Expire
      BY <2>2, <2>10 DEF Expire, LetGo, Reply
    <2>11. CASE Press
      <3>1. Append(tx, "OK: pressing") \in Seq(Reply)
        BY <2>2 DEF Reply
      <3>2. key' \in Keys /\ timed' \in BOOLEAN
        BY <2>11, ProtocolAssumption DEF Press
      <3> QED BY <2>1, <2>11, <3>1, <3>2 DEF Press, Waiting, Served
    <2> QED BY <2>3, <2>4, <2>5, <2>6, <2>7, <2>8, <2>9, <2>10, <2>11 DEF Sketch
  <1>2. pressed' \in Seq(Seq(Keys)) \ {<<>>}
    <2>1. CASE UNCHANGED pressed
      BY <2>1 DEF LinkTypeOK
    <2>2. CASE Press /\ pressed' = [pressed EXCEPT ![Len(pressed)] = Append(@, key')]
      <3>1. key' \in Keys
        BY <2>2, ProtocolAssumption DEF Press
      <3>2. pressed \in Seq(Seq(Keys)) /\ Len(pressed) \in 1 .. Len(pressed)
        BY EmptySeq DEF LinkTypeOK
      <3>3. pressed[Len(pressed)] \in Seq(Keys)
        BY <3>2, ElementOfSeq
      <3>4. Append(pressed[Len(pressed)], key') \in Seq(Keys)
        BY <3>1, <3>3, AppendProperties
      <3> DEFINE T == Seq(Keys)
                 e == Append(pressed[Len(pressed)], key')
      <3>5. pressed' = [pressed EXCEPT ![Len(pressed)] = e]
        BY <2>2
      <3> HIDE DEF T, e
      <3>6. pressed' \in Seq(T) /\ Len(pressed') = Len(pressed)
        BY <3>2, <3>4, <3>5, ExceptSeq DEF T, e
      <3> QED BY <3>2, <3>6, EmptySeq DEF T
    <2> QED BY <2>1, <2>2 DEF Sketch
  <1> QED BY <1>1, <1>2 DEF Sketch, host

(* So does a reset,                                                        *)
LEMMA ResetTypes ==
  ASSUME LinkTypeOK, Reset
  PROVE  /\ up' \in BOOLEAN /\ key' \in Keys \cup {Idle} /\ timed' \in BOOLEAN
         /\ rx' \in Seq(Command) /\ tx' \in Seq(Reply)
  <1>1. rx' \in Seq(Command) /\ up' \in BOOLEAN /\ key' \in Keys \cup {Idle} /\ timed' \in BOOLEAN
    BY EmptySeq DEF Reset, LetGo
  <1>2. tx' \in Seq(Reply)
    BY RepliesCut DEF Reset, LinkTypeOK
  <1> QED BY <1>1, <1>2

(* a line that is written,                                                 *)
LEMMA DeliverTypes ==
  ASSUME LinkTypeOK, todo # <<>>, Deliver
  PROVE  /\ UNCHANGED <<up, key, timed, tx>> /\ garbled' = FALSE
         /\ rx' \in Seq(Command) /\ pressed' \in Seq(Seq(Keys)) \ {<<>>}
  <1>1. Head(todo).line \in Command
    <2>1. Head(todo) \in RawCommand
      BY HeadTailProperties DEF LinkTypeOK
    <2> QED BY <2>1 DEF RawCommand
  <1>2. rx' \in Seq(Command) /\ UNCHANGED <<up, key, timed, tx>>
    BY <1>1, LineTypes, AppendProperties DEF Deliver, HostSends, LinkTypeOK
  <1>3. pressed' \in Seq(Seq(Keys)) \ {<<>>}
    <2> DEFINE T == Seq(Keys)
    <2>1. pressed \in Seq(T) /\ <<>> \in T /\ pressed' = Append(pressed, <<>>)
      BY EmptySeq DEF LinkTypeOK, Deliver
    <2> HIDE DEF T
    <2>2. pressed' \in Seq(T) /\ pressed' # <<>>
      BY <2>1, AppendProperties
    <2> QED BY <2>2 DEF T
  <1> QED BY <1>2, <1>3 DEF Deliver

(* and a call that begins.                                                 *)
LEMMA BeginTypes ==
  ASSUME LinkTypeOK, NEW plan \in Seq(RawCommand), NEW name \in {"send", "run", "stop"},
         Begin(name, plan)
  PROVE  LinkTypeOK'
  <1>1. Owes(plan) \in Seq(Seq(Keys))
    BY OwesPlan
  <1>2. <<<<>>>> \in Seq(Seq(Keys)) /\ <<<<>>>> # <<>>
    OBVIOUS
  <1> QED BY <1>1, <1>2 DEF LinkTypeOK, Begin, device, HPC

(* Every step keeps the types.                                             *)
LEMMA TypeStep ==
  ASSUME LinkTypeOK, Where, [LinkNext]_lvars
  PROVE  LinkTypeOK'
  <1> USE DEF LinkTypeOK
  <1>0. <<<<>>>> \in Seq(Seq(Keys)) /\ <<<<>>>> # <<>> /\ Owes(<<>>) \in Seq(Seq(Keys))
    BY OwesPlan, EmptySeq
  <1>1. CASE Write
    BY <1>1, DeliverTypes DEF Write, HPC, Where
  <1>2. CASE Receive
    <2>1. PICK n \in 1 .. Len(tx) :
            buf' = SubSeq(tx, 1, n) /\ tx' = SubSeq(tx, n + 1, Len(tx))
      BY <1>2 DEF Receive
    <2>2. buf' \in Seq(Reply) /\ tx' \in Seq(Reply)
      BY <2>1
    <2> QED BY <1>2, <2>2 DEF Receive
  <1>3. CASE PassOver
    BY <1>3, HeadTailProperties DEF PassOver, device
  <1>4. CASE Acknowledge
    BY <1>4, EmptySeq DEF Acknowledge, device, HPC
  <1>5. CASE Settle
    BY <1>5, HeadTailProperties DEF Settle, device, HPC, Where
  <1>6. CASE Drain
    <2>1. rx' \in Seq(Command) /\ tx' \in Seq(Reply)
      <3>1. Append(rx, Blank) \in Seq(Command) /\ <<>> \in Seq(Reply)
        BY LineTypes, AppendProperties, EmptySeq
      <3> QED BY <1>6, <3>1 DEF Drain
    <2> QED BY <1>6, <2>1 DEF Drain, HPC
  <1>7. CASE Open
    BY <1>7, ResetTypes DEF Open, HPC
  <1>8. CASE Close
    BY <1>8 DEF Close, device, HPC
  <1>9. CASE SendCommand
    BY <1>9, PlanTypes, BeginTypes DEF SendCommand
  <1>10. CASE StopMicrowave
    BY <1>10, PlanTypes, BeginTypes DEF StopMicrowave
  <1>11. CASE RunMicrowave
    BY <1>11, PlanTypes, BeginTypes DEF RunMicrowave
  <1>12. CASE RefuseTime
    BY <1>0, <1>12 DEF RefuseTime, device
  <1>13. CASE Fail
    <2>1. /\ up' \in BOOLEAN /\ key' \in Keys \cup {Idle} /\ timed' \in BOOLEAN
          /\ rx' \in Seq(Command) /\ tx' \in Seq(Reply) /\ garbled' \in BOOLEAN
          /\ pressed' \in Seq(Seq(Keys)) \ {<<>>}
      BY <1>13, DeliverTypes DEF Fail, Where, device
    <2> QED BY <1>13, <2>1, EmptySeq DEF Fail, HPC
  <1>14. CASE Unheard
    BY <1>14, HeadTailProperties DEF Unheard, HostReads, host
  <1>15. CASE Sketch
    BY <1>15, SketchTypes
  <1>16. CASE Glitch
    BY <1>16, ResetTypes DEF Glitch
  <1>17. CASE UNCHANGED lvars
    BY <1>17 DEF lvars, device, host
  <1> QED BY <1>1, <1>2, <1>3, <1>4, <1>5, <1>6, <1>7, <1>8, <1>9, <1>10, <1>11, <1>12, <1>13,
             <1>14, <1>15, <1>16, <1>17 DEF LinkNext, Library, Caller

--------------------------------------------------------------------------------
(* The sketch takes a line off the receiver: if it is not blank it was the *)
(* only line that matters, and the last.                                   *)
LEMMA LineTaken ==
  ASSUME LinkInv, rx # <<>>
  PROVE  /\ Blanks(rx) => Blanks(Tail(rx)) /\ Head(rx).verb = "blank"
         /\ Head(rx).verb # "blank" => Tail(rx) = <<>> /\ Head(rx) = rx[Len(rx)]
         /\ \A i \in 1 .. Len(Tail(rx)) - 1 : Tail(rx)[i].verb = "blank"
         /\ Tail(rx) # <<>> => Tail(rx)[Len(Tail(rx))] = rx[Len(rx)]
  <1> DEFINE t == Tail(rx)
  <1>1. /\ rx \in Seq(Command) /\ Len(rx) \in Nat /\ Len(rx) >= 1 /\ DOMAIN rx = 1 .. Len(rx)
        /\ t \in Seq(Command) /\ Len(t) = Len(rx) - 1 /\ DOMAIN t = 1 .. Len(t)
        /\ \A i \in 1 .. Len(t) : t[i] = rx[i + 1]
    BY HeadTailProperties, LenProperties, EmptySeq DEF LinkInv, LinkTypeOK
  <1>2. Head(rx) = rx[1] /\ (Len(t) = 0 <=> t = <<>>)
    BY <1>1, EmptySeq
  <1>3. \A i \in 1 .. Len(rx) - 1 : rx[i].verb = "blank"
    BY DEF LinkInv, OneLine
  <1> HIDE DEF t
  <1>4. Blanks(rx) => Blanks(t) /\ Head(rx).verb = "blank"
    BY <1>1, <1>2 DEF Blanks
  <1>5. Head(rx).verb # "blank" => t = <<>> /\ Head(rx) = rx[Len(rx)]
    BY <1>1, <1>2, <1>3
  <1>6. \A i \in 1 .. Len(t) - 1 : t[i].verb = "blank"
    BY <1>1, <1>3
  <1>7. t # <<>> => t[Len(t)] = rx[Len(rx)]
    BY <1>1, <1>2
  <1> QED BY <1>4, <1>5, <1>6, <1>7 DEF t

(* The host writes a line behind blank ones.                               *)
LEMMA LineAdded ==
  ASSUME LinkTypeOK, Blanks(rx), NEW l \in Command
  PROVE  LET r == Append(rx, l)
         IN  /\ r # <<>> /\ r[Len(r)] = l
             /\ \A i \in 1 .. Len(r) - 1 : r[i].verb = "blank"
             /\ l.verb = "blank" => Blanks(r)
  <1> DEFINE r == Append(rx, l)
  <1>1. /\ rx \in Seq(Command) /\ Len(rx) \in Nat /\ DOMAIN rx = 1 .. Len(rx)
        /\ r # <<>> /\ Len(r) = Len(rx) + 1 /\ DOMAIN r = 1 .. Len(r)
        /\ r[Len(rx) + 1] = l /\ \A i \in 1 .. Len(rx) : r[i] = rx[i]
    <2>1. rx \in Seq(Command)
      BY DEF LinkTypeOK
    <2>2. r \in Seq(Command) /\ r # <<>> /\ Len(r) = Len(rx) + 1 /\ r[Len(rx) + 1] = l
          /\ \A i \in 1 .. Len(rx) : r[i] = rx[i]
      BY <2>1, AppendProperties
    <2> HIDE DEF r
    <2> QED BY <2>1, <2>2, LenProperties
  <1> HIDE DEF r
  <1>2. r[Len(r)] = l /\ \A i \in 1 .. Len(r) - 1 : r[i].verb = "blank"
    BY <1>1 DEF Blanks
  <1>3. l.verb = "blank" => Blanks(r)
    BY <1>1 DEF Blanks
  <1> QED BY <1>1, <1>2, <1>3 DEF r

(* What the type invariant says of lengths: at least one element of the    *)
(* record, a front of the plan when there is one.                          *)
LEMMA LastKept ==
  ASSUME LinkTypeOK
  PROVE  /\ L \in Nat \ {0} /\ pressed \in Seq(Seq(Keys)) /\ DOMAIN pressed = 1 .. L
         /\ Len(todo) \in Nat /\ Len(owed) \in Nat /\ (todo # <<>> => Len(todo) >= 1)
         /\ Len(rx) \in Nat /\ DOMAIN rx = 1 .. Len(rx)
         /\ Replies \in Seq(Reply)
  <1>1. pressed \in Seq(Seq(Keys)) /\ pressed # <<>> /\ L = Len(pressed)
    BY DEF LinkTypeOK, L
  <1> DEFINE T == Seq(Keys)
  <1>2. L \in Nat \ {0} /\ DOMAIN pressed = 1 .. L
    <2> HIDE DEF T
    <2>1. pressed \in Seq(T)
      BY <1>1 DEF T
    <2> QED BY <1>1, <2>1, EmptySeq, LenProperties
  <1>3. /\ Len(todo) \in Nat /\ Len(owed) \in Nat /\ (todo # <<>> => Len(todo) >= 1)
        /\ Len(rx) \in Nat /\ DOMAIN rx = 1 .. Len(rx)
    BY EmptySeq, LenProperties DEF LinkTypeOK
  <1>4. Replies \in Seq(Reply)
    BY ConcatProperties DEF LinkTypeOK, Replies
  <1> QED BY <1>1, <1>2, <1>3, <1>4

(* A command that has been written is the one at the front of the plan.    *)
LEMMA WrittenKeys ==
  ASSUME LinkInv, hpc = "read"
  PROVE  /\ Head(todo) = todo[1] /\ Head(todo) \in RawCommand
         /\ owed[L] = KeysOf(Head(todo).line)
         /\ Head(todo).line.verb = "press" => Head(todo).doubled
  <1>1. /\ todo # <<>> /\ Len(todo) >= 1 /\ todo \in Seq(RawCommand) /\ Left(L - 1)
        /\ L \in Nat /\ DOMAIN todo = 1 .. Len(todo)
    BY LastKept, LenProperties DEF LinkInv, LinkTypeOK, Where, Phases, InRead
  <1>2. Head(todo) = todo[1] /\ Head(todo) \in RawCommand /\ 1 \in DOMAIN todo
    BY <1>1, HeadTailProperties
  <1>3. owed[(L - 1) + 1] = KeysOf(todo[1].line) /\ (L - 1) + 1 = L
    BY <1>1 DEF Left
  <1> QED BY <1>1, <1>2, <1>3 DEF LinkInv, Where, Doubled

(* The sketch sends a reply: it is the last of the replies under way.      *)
LEMMA SketchReplies ==
  ASSUME LinkInv, UNCHANGED buf, NEW l \in Reply, tx' = Append(tx, l)
  PROVE  Replies' = Append(Replies, l)
  BY JoinReplies DEF LinkInv, LinkTypeOK, Replies

(* A blank line is skipped, or any line is thrown away by setup(): a       *)
(* command that is lost is never answered.                                 *)
LEMMA DropLine ==
  ASSUME LinkInv, rx # <<>>, rx' = Tail(rx), UNCHANGED <<up, key, timed, tx, host, pressed>>
  PROVE  TapAlone' /\ OneLine' /\ Where' /\ InFlight' /\ Phases'
  <1> USE DEF LinkInv
  <1>1. UNCHANGED <<L, Last, Replies>> /\ ~timed
    BY DEF L, Last, Replies, host, TapAlone
  <1>2. TapAlone' /\ OneLine' /\ Where'
    BY <1>1, LineTaken DEF TapAlone, OneLine, Where, Calling, Doubled, host
  <1>3. InFlight'
    BY <1>1, LineTaken DEF InFlight, Calling, host
  <1>4. Quiet => Quiet'
    BY LineTaken DEF Quiet, Texts, host
  <1>5. Opening' /\ AtRest' /\ InWrite' /\ InSettle'
    BY <1>1, <1>4 DEF Phases, Opening, AtRest, InWrite, InSettle, Calling, Left, host
  <1>6. InRead'
    <2> SUFFICES ASSUME hpc = "read" PROVE Left(L - 1)' /\ (Pending' \/ Gone')
      BY DEF InRead, host
    <2>1. Left(L - 1) /\ Pending
      BY DEF Phases, InRead, Gone
    <2>2. Left(L - 1)'
      BY <1>1, <2>1 DEF Left, host
    <2>3. rx' # <<>> => Pending'
      BY <1>1, <2>1, LineTaken DEF Pending, Texts, host
    <2>4. rx' = <<>> => Gone'
      <3>1. ~Answered(Replies) /\ Closing(Replies)
        BY <2>1, TextsAnswerNothing DEF Pending
      <3> QED BY <1>1, <3>1 DEF Gone, Answered, Closing, Awaited, host
    <2> QED BY <2>2, <2>3, <2>4
  <1> QED BY <1>2, <1>3, <1>5, <1>6 DEF Phases

(* A command that closes no key is answered at once.                       *)
LEMMA AnswerLine ==
  ASSUME LinkInv, rx # <<>>, Head(rx).verb # "blank", KeysOf(Head(rx)) = <<>>,
         NEW l \in Reply, Served(l), UNCHANGED <<host, pressed>>, timed' \in {timed, FALSE}
  PROVE  TapAlone' /\ OneLine' /\ Where' /\ InFlight' /\ Phases'
  <1> USE DEF LinkInv
  <1>0. ~timed
    BY Zenon DEF TapAlone
  <1>1. UNCHANGED <<L, Last>> /\ ~timed /\ ~timed'
    <2>1. UNCHANGED <<L, Last>>
      BY DEF L, Last, host
    <2>2. timed' = timed \/ timed' = FALSE
      OBVIOUS
    <2>3. ~timed'
      BY <1>0, <2>2, Zenon
    <2> QED BY <1>0, <2>1, <2>3
  <1>2. rx' = <<>> /\ Head(rx) = rx[Len(rx)] /\ ~Blanks(rx)
    BY LineTaken DEF Served
  <1>3. TapAlone' /\ OneLine' /\ Where'
    BY <1>1, <1>2, EmptySeq DEF TapAlone, OneLine, Where, Calling, Doubled, host
  <1>4. InFlight'
    BY <1>1, <1>2 DEF InFlight, Calling, host
  <1>5. Opening' /\ AtRest' /\ InWrite' /\ InSettle'
    BY <1>2 DEF Phases, Opening, AtRest, InWrite, InSettle, Quiet, host
  <1>6. InRead'
    <2> SUFFICES ASSUME hpc = "read" PROVE Left(L - 1)' /\ Gone'
      BY DEF InRead, host
    <2>1. Left(L - 1) /\ Pending
      BY DEF Phases, InRead, Gone
    <2>2. Left(L - 1)'
      BY <1>1, <2>1 DEF Left, host
    <2>3. ~Answered(Replies) /\ Closing(Replies) /\ Replies \in Seq(Reply)
      BY <2>1, TextsAnswerNothing, LastKept DEF Pending
    <2>4. Replies' = Append(Replies, l)
      BY SketchReplies DEF Served, host
    <2>5. Closing(Replies')
      BY <2>3, <2>4, ReplyAdded
    <2>6. Last = owed[L]
      BY <1>2, <2>1, WrittenKeys DEF Pending
    <2> QED BY <1>1, <1>2, <2>2, <2>5, <2>6 DEF Gone, Closing, Awaited, host
  <1> QED BY <1>3, <1>4, <1>5, <1>6 DEF Phases

(* The banner of setup() answers nothing.                                  *)
LEMMA BootStep ==
  ASSUME LinkInv, Boot, UNCHANGED <<host, pressed>>
  PROVE  TapAlone' /\ OneLine' /\ Where' /\ InFlight' /\ Phases'
  <1> USE DEF LinkInv
  <1>1. UNCHANGED <<L, Last, rx, timed>> /\ tx' = Append(tx, "text") /\ "text" \in Reply
    BY DEF L, Last, host, Boot, Reply
  <1>2. TapAlone' /\ OneLine' /\ Where' /\ InFlight'
    BY <1>1 DEF TapAlone, OneLine, Where, Calling, Doubled, InFlight, host
  <1>3. Quiet => Quiet'
    BY <1>1, ReplyAdded DEF Quiet, Blanks, LinkTypeOK, host
  <1>4. Opening' /\ AtRest' /\ InWrite' /\ InSettle'
    BY <1>1, <1>3 DEF Phases, Opening, AtRest, InWrite, InSettle, Calling, Left, host
  <1>5. InRead'
    <2> SUFFICES ASSUME hpc = "read" PROVE Left(L - 1)' /\ (Pending' \/ Gone')
      BY DEF InRead, host
    <2>1. Left(L - 1) /\ (Pending \/ Gone)
      BY DEF Phases, InRead
    <2>2. Left(L - 1)'
      BY <1>1, <2>1 DEF Left, host
    <2>3. Replies' = Append(Replies, "text") /\ Replies \in Seq(Reply) /\ ~Awaited("text")
      BY <1>1, SketchReplies, LastKept, TextIsNoAnswer DEF host
    <2>4. CASE Pending
      <3>1. Texts(Replies')
        BY <1>1, <2>3, <2>4, ReplyAdded DEF Pending
      <3> QED BY <1>1, <2>2, <2>4, <3>1 DEF Pending, Texts, host
    <2>5. CASE Gone
      <3>1. Closing(Replies') /\ (Answered(Replies') <=> Answered(Replies))
        BY <1>1, <2>3, <2>5, ReplyAdded DEF Gone
      <3> QED BY <1>1, <2>2, <2>5, <3>1 DEF Gone, Closing, Answered, Awaited, host
    <2> QED BY <2>1, <2>4, <2>5
  <1> QED BY <1>2, <1>4, <1>5 DEF Phases

(* A key is let go for the next one; its "OK" is never sent.               *)
LEMMA SupersedeStep ==
  ASSUME LinkInv, Supersede, UNCHANGED <<host, pressed>>
  PROVE  TapAlone' /\ OneLine' /\ Where' /\ InFlight' /\ Phases'
  <1> USE DEF LinkInv
  <1>1. UNCHANGED <<L, Last, rx, tx, Replies>> /\ rx # <<>> /\ ~timed'
    BY DEF L, Last, Replies, host, Supersede, LetGo, Waiting
  <1>2. TapAlone' /\ OneLine' /\ Where' /\ InFlight'
    BY <1>1 DEF TapAlone, OneLine, Where, Calling, Doubled, InFlight, host
  <1>3. Quiet => Quiet'
    BY <1>1 DEF Quiet, Blanks, Texts, host
  <1>4. Opening' /\ AtRest' /\ InWrite' /\ InSettle'
    BY <1>1, <1>3 DEF Phases, Opening, AtRest, InWrite, InSettle, Calling, Left, host
  <1>5. InRead'
    BY <1>1 DEF Phases, InRead, Left, Pending, Gone, Texts, host
  <1> QED BY <1>2, <1>4, <1>5 DEF Phases

(* A timed press ends: its "OK" is the answer the library waits for, and   *)
(* the first.                                                              *)
LEMMA ExpireStep ==
  ASSUME LinkInv, Expire, UNCHANGED <<host, pressed>>
  PROVE  TapAlone' /\ OneLine' /\ Where' /\ InFlight' /\ Phases'
  <1> USE DEF LinkInv
  <1>1. UNCHANGED <<L, Last, rx>> /\ tx' = Append(tx, "OK") /\ "OK" \in Reply /\ timed /\ ~timed'
        /\ rx = <<>>
    BY DEF L, Last, host, Expire, LetGo, TapAlone, Reply
  <1>2. TapAlone' /\ OneLine' /\ Where' /\ InFlight'
    BY <1>1 DEF TapAlone, OneLine, Where, Calling, Doubled, InFlight, host
  <1>3. Opening' /\ AtRest' /\ InWrite' /\ InSettle'
    BY <1>1 DEF Phases, Opening, AtRest, InWrite, InSettle, Quiet, host
  <1>4. InRead'
    <2> SUFFICES ASSUME hpc = "read" PROVE Left(L - 1)' /\ Gone'
      BY DEF InRead, host
    <2>1. Left(L - 1) /\ Gone
      BY <1>1 DEF Phases, InRead, Pending
    <2>2. Left(L - 1)'
      BY <1>1, <2>1 DEF Left, host
    <2>3. ~Answered(Replies) /\ Last = owed[L] /\ Closing(Replies) /\ Replies \in Seq(Reply)
      BY <1>1, <2>1, LastKept DEF Gone
    <2>4. Replies' = Append(Replies, "OK")
      BY <1>1, SketchReplies DEF host
    <2>5. Closing(Replies')
      BY <1>1, <2>3, <2>4, ReplyAdded
    <2> QED BY <1>1, <2>2, <2>3, <2>5 DEF Gone, Closing, Awaited, host
  <1> QED BY <1>2, <1>3, <1>4 DEF Phases

(* A key is added to the last element of the record.                       *)
LEMMA PressedKey ==
  ASSUME LinkTypeOK, NEW k \in Keys, pressed' = [pressed EXCEPT ![L] = Append(@, k)]
  PROVE  /\ L' = L
         /\ Last' = Append(Last, k)
         /\ \A i \in 1 .. L - 1 : pressed'[i] = pressed[i]
  <1>1. pressed \in Seq(Seq(Keys)) /\ L \in Nat \ {0} /\ DOMAIN pressed = 1 .. L /\ L = Len(pressed)
    BY LastKept DEF L
  <1>0. L \in Nat /\ L = Len(pressed)
    BY <1>1
  <1>2. L \in 1 .. Len(pressed)
    BY <1>1
  <1>3. pressed[L] \in Seq(Keys)
    BY <1>1, <1>2, ElementOfSeq
  <1> DEFINE T == Seq(Keys)
             e == Append(pressed[L], k)
  <1>4. e \in T /\ pressed \in Seq(T)
    BY <1>1, <1>3, AppendProperties
  <1>5. pressed' = [pressed EXCEPT ![L] = e]
    OBVIOUS
  <1> HIDE DEF T, e
  <1>6. /\ Len(pressed') = Len(pressed)
        /\ \A j \in 1 .. Len(pressed) : pressed'[j] = IF j = L THEN e ELSE pressed[j]
    <2>1. Len(pressed') = Len(pressed)
      BY <1>2, <1>4, <1>5, ExceptSeq
    <2>2. \A j \in 1 .. Len(pressed) : pressed'[j] = IF j = L THEN e ELSE pressed[j]
      BY <1>1, <1>5
    <2> QED BY <2>1, <2>2
  <1>7. L' = L
    BY <1>6 DEF L
  <1>8. pressed'[L] = e
    BY <1>2, <1>6
  <1>9. Last' = Append(Last, k)
    BY <1>7, <1>8 DEF Last, e
  <1>10. \A i \in 1 .. L - 1 : pressed'[i] = pressed[i]
    <2> TAKE i \in 1 .. L - 1
    <2>1. i \in 1 .. Len(pressed) /\ i # L
      BY <1>0
    <2> QED BY <1>6, <2>1
  <1> QED BY <1>7, <1>9, <1>10

(* A key is pressed: it is the key of the command under way, which had not *)
(* pressed one; a timed press is not answered by it.                       *)
LEMMA PressStep ==
  ASSUME LinkInv, Press, pressed' = [pressed EXCEPT ![Len(pressed)] = Append(@, key')], UNCHANGED host
  PROVE  TapAlone' /\ OneLine' /\ Where' /\ InFlight' /\ Phases'
  <1> USE DEF LinkInv
  <1>1. /\ rx # <<>> /\ Head(rx).verb \in {"press", "hold"} /\ key' = Head(rx).key /\ key' \in Keys
        /\ KeysOf(Head(rx)) = <<key'>>
    BY ProtocolAssumption DEF Press, Waiting, Starts, KeysOf
  <1>2. rx' = <<>> /\ Head(rx) = rx[Len(rx)] /\ ~Blanks(rx) /\ ~timed
    BY <1>1, LineTaken DEF Press, Served, TapAlone
  <1>3. L' = L /\ Last' = Append(Last, key') /\ \A i \in 1 .. L - 1 : pressed'[i] = pressed[i]
    BY <1>1, PressedKey DEF L
  <1>4. TapAlone' /\ OneLine' /\ Where'
    BY <1>2, EmptySeq DEF TapAlone, OneLine, Where, Calling, Doubled, host
  <1>5. Calling => Last' = owed[L]
    <2>1. Calling => Last = <<>> /\ owed[L] = <<key'>>
      BY <1>1, <1>2 DEF InFlight
    <2>2. Append(<<>>, key') = <<key'>>
      OBVIOUS
    <2> QED BY <1>3, <2>1, <2>2
  <1>6. InFlight'
    BY <1>2, <1>3, <1>5 DEF InFlight, Calling, host
  <1>7. Opening' /\ AtRest' /\ InWrite' /\ InSettle'
    <2>1. hpc \notin {"opening", "write", "settle"} /\ ~(hpc = "idle" /\ result # SerialFail)
      BY <1>1, <1>2 DEF Phases, Opening, AtRest, InWrite, InSettle, Quiet
    <2> QED BY <2>1 DEF Opening, AtRest, InWrite, InSettle, host
  <1>8. InRead'
    <2> SUFFICES ASSUME hpc = "read" PROVE Left(L - 1)' /\ Gone'
      BY DEF InRead, host
    <2>1. Left(L - 1) /\ Pending /\ Calling
      BY <1>1 DEF Phases, InRead, Gone, Where
    <2>2. Left(L - 1)'
      BY <1>3, <2>1 DEF Left, host
    <2>3. ~Answered(Replies) /\ Closing(Replies) /\ Replies \in Seq(Reply) /\ "OK: pressing" \in Reply
      BY <2>1, TextsAnswerNothing, LastKept DEF Pending, Reply
    <2>4. Replies' = Append(Replies, "OK: pressing")
      BY <2>3, SketchReplies DEF Press, Served, host
    <2>5. Closing(Replies') /\ (Answered(Replies') <=> Awaited("OK: pressing"))
      BY <2>3, <2>4, ReplyAdded
    <2>6. timed' => Head(rx).verb = "press"
      BY <1>1 DEF Press
    <2>7. timed' => ~Awaited("OK: pressing")
      BY <1>2, <2>1, <2>6, WrittenKeys, TextIsNoAnswer DEF Pending
    <2>8. Last' = owed[L] /\ UNCHANGED <<L, owed, todo>>
      BY <1>3, <1>5, <2>1 DEF host
    <2> QED BY <1>2, <2>2, <2>5, <2>7, <2>8 DEF Gone, Closing, Answered, Awaited, host
  <1> QED BY <1>4, <1>6, <1>7, <1>8 DEF Phases

(* Every step of the sketch.                                               *)
LEMMA SketchStep ==
  ASSUME LinkInv, Sketch
  PROVE  TapAlone' /\ OneLine' /\ Where' /\ InFlight' /\ Phases'
  <1> USE DEF Sketch
  <1>1. CASE (Discard \/ Skip) /\ UNCHANGED <<host, pressed>>
    BY <1>1, DropLine DEF Discard, Skip, Waiting
  <1>2. CASE Boot /\ UNCHANGED <<host, pressed>>
    BY <1>2, BootStep
  <1>3. CASE (Respond \/ Release \/ NotWired) /\ UNCHANGED <<host, pressed>>
    <2>1. /\ rx # <<>> /\ Head(rx).verb # "blank" /\ KeysOf(Head(rx)) = <<>>
          /\ \E l \in Reply : Served(l)
          /\ timed' \in {timed, FALSE}
      BY <1>3 DEF Respond, Release, NotWired, Waiting, Rejected, Starts, KeysOf, LetGo, Reply
    <2> QED BY <1>3, <2>1, AnswerLine
  <1>4. CASE Supersede /\ UNCHANGED <<host, pressed>>
    BY <1>4, SupersedeStep
  <1>5. CASE Expire /\ UNCHANGED <<host, pressed>>
    BY <1>5, ExpireStep
  <1>6. CASE Press /\ pressed' = [pressed EXCEPT ![Len(pressed)] = Append(@, key')] /\ UNCHANGED host
    BY <1>6, PressStep
  <1> QED BY <1>1, <1>2, <1>3, <1>4, <1>5, <1>6
--------------------------------------------------------------------------------
(* A command that is written opens an element of the record.               *)
LEMMA WrittenRecord ==
  ASSUME LinkTypeOK, pressed' = Append(pressed, <<>>)
  PROVE  /\ L' = L + 1 /\ Last' = <<>>
         /\ \A i \in 1 .. L : pressed'[i] = pressed[i]
  <1> DEFINE T == Seq(Keys)
  <1>1. pressed \in Seq(T) /\ <<>> \in T /\ L = Len(pressed) /\ L \in Nat
    BY LastKept, EmptySeq DEF L
  <1> HIDE DEF T
  <1>2. /\ Len(pressed') = Len(pressed) + 1 /\ pressed'[Len(pressed) + 1] = <<>>
        /\ \A i \in 1 .. Len(pressed) : pressed'[i] = pressed[i]
    BY <1>1, AppendProperties
  <1>3. L' = L + 1
    BY <1>1, <1>2 DEF L
  <1> QED BY <1>1, <1>2, <1>3 DEF Last

(* The first command of what is left of a plan, and the keys it owes.      *)
LEMMA PlanFront ==
  ASSUME LinkInv, todo # <<>>
  PROVE  /\ Head(todo) = todo[1] /\ Head(todo).line \in Command
         /\ \A n \in Nat : Left(n) => Len(owed) >= n + 1 /\ owed[n + 1] = KeysOf(Head(todo).line)
  <1>1. todo \in Seq(RawCommand) /\ Len(todo) \in Nat /\ Len(todo) >= 1
    BY LastKept DEF LinkInv, LinkTypeOK
  <1>2. Head(todo) = todo[1] /\ Head(todo) \in RawCommand
    BY <1>1, HeadTailProperties
  <1>3. ASSUME NEW n \in Nat, Left(n)
        PROVE  Len(owed) >= n + 1 /\ owed[n + 1] = KeysOf(Head(todo).line)
    <2>1. 1 \in 1 .. Len(todo)
      BY <1>1
    <2> QED BY <1>1, <1>2, <1>3, <2>1 DEF Left
  <1> QED BY <1>2, <1>3 DEF RawCommand

(* A line is written while the library is in write: all commands before it *)
(* are done.                                                               *)
LEMMA Delivered ==
  ASSUME LinkInv, hpc = "write", Deliver, UNCHANGED <<call, owed>>
  PROVE  /\ TapAlone' /\ OneLine' /\ InFlight'
         /\ ~timed' /\ L' = L + 1 /\ Last' = <<>> /\ garbled' = FALSE /\ UNCHANGED tx
         /\ rx' # <<>> /\ rx'[Len(rx')] = Head(todo).line
  <1> USE DEF LinkInv
  <1>1. /\ todo # <<>> /\ garbled # TRUE /\ Calling
        /\ Quiet /\ Left(L) /\ Last = owed[L] /\ L \in Nat \ {0}
    BY LastKept DEF Where, Phases, InWrite
  <1>2. /\ Head(todo).line \in Command
        /\ Len(owed) >= L + 1 /\ owed[L + 1] = KeysOf(Head(todo).line)
    BY <1>1, PlanFront
  <1>3. /\ rx' = Append(rx, Head(todo).line) /\ garbled' = FALSE
        /\ UNCHANGED <<timed, tx>> /\ pressed' = Append(pressed, <<>>)
    BY <1>1 DEF Deliver, HostSends
  <1>4. /\ rx' # <<>> /\ rx'[Len(rx')] = Head(todo).line
        /\ \A i \in 1 .. Len(rx') - 1 : rx'[i].verb = "blank"
    BY <1>1, <1>2, <1>3, LineAdded DEF Quiet
  <1>5. /\ L' = L + 1 /\ Last' = <<>> /\ \A i \in 1 .. L : pressed'[i] = pressed[i]
    BY <1>3, WrittenRecord
  <1>6. ~timed' 
    BY <1>1, <1>3 DEF Quiet
  <1>7. TapAlone' /\ OneLine'
    BY <1>4, <1>6 DEF TapAlone, OneLine
  <1>8. \A i \in 1 .. L : pressed'[i] = owed[i]
    <2>1. \A i \in 1 .. L - 1 : pressed[i] = owed[i]
      BY <1>1 DEF InFlight
    <2>2. pressed[L] = owed[L]
      BY <1>1 DEF Last
    <2> QED BY <1>1, <1>5, <2>1, <2>2
  <1>9. InFlight'
    <2>1. L' - 1 = L /\ L' <= Len(owed)
      BY <1>1, <1>2, <1>5
    <2> QED BY <1>2, <1>4, <1>5, <1>8, <2>1 DEF InFlight
  <1> QED BY <1>3, <1>4, <1>5, <1>6, <1>7, <1>9

(* send_raw_command writes its line.                                       *)
LEMMA WriteStep ==
  ASSUME LinkInv, Write
  PROVE  TapAlone' /\ OneLine' /\ Where' /\ InFlight' /\ Phases'
  <1> USE DEF LinkInv
  <1>1. /\ hpc = "write" /\ hpc' = "read" /\ Deliver /\ UNCHANGED <<call, todo, buf, result, owed>>
        /\ Calling /\ todo # <<>> /\ buf = <<>> /\ Texts(tx) /\ Left(L) /\ L \in Nat
    BY LastKept DEF Write, Where, Phases, InWrite, Quiet
  <1>2. /\ TapAlone' /\ OneLine' /\ InFlight'
        /\ ~timed' /\ L' = L + 1 /\ Last' = <<>> /\ garbled' = FALSE /\ UNCHANGED tx
        /\ rx' # <<>> /\ rx'[Len(rx')] = Head(todo).line
    BY <1>1, Delivered
  <1>3. Where'
    BY <1>1, <1>2 DEF Where, Calling, Doubled
  <1>4. Left(L - 1)'
    <2>1. L' - 1 = L
      BY <1>1, <1>2
    <2> QED BY <1>1, <2>1 DEF Left
  <1>5. Texts(Replies')
    <2>1. Replies' = tx
      BY <1>1, <1>2, JoinReplies, EmptySeq DEF Replies, LinkTypeOK
    <2> QED BY <1>1, <2>1
  <1>6. Pending'
    BY <1>1, <1>2, <1>5 DEF Pending, Texts
  <1> QED BY <1>1, <1>2, <1>3, <1>4, <1>6 DEF Phases, Opening, AtRest, InWrite, InRead, InSettle

(* The port fails: a prefix of the keys stays pressed.                     *)
LEMMA FailStep ==
  ASSUME LinkInv, Fail
  PROVE  TapAlone' /\ OneLine' /\ Where' /\ InFlight' /\ Phases'
  <1> USE DEF LinkInv
  <1>1. /\ hpc' = "idle" /\ result' = SerialFail /\ todo' = <<>> /\ buf' = <<>>
        /\ UNCHANGED <<call, owed>>
    BY DEF Fail
  <1>2. TapAlone' /\ OneLine' /\ InFlight'
    <2>1. CASE UNCHANGED <<device, pressed>>
      BY <1>1, <2>1 DEF TapAlone, OneLine, InFlight, Calling, L, Last, device
    <2>2. CASE hpc = "write" /\ Deliver
      BY <1>1, <2>2, Delivered
    <2> QED BY <2>1, <2>2 DEF Fail
  <1>3. Where'
    BY <1>1 DEF Where, Doubled
  <1> QED BY <1>1, <1>2, <1>3 DEF Phases, Opening, AtRest, InWrite, InRead, InSettle

(* read_until moves replies from the port to its buffer.                   *)
LEMMA ReceiveStep ==
  ASSUME LinkInv, Receive
  PROVE  TapAlone' /\ OneLine' /\ Where' /\ InFlight' /\ Phases'
  <1> USE DEF LinkInv
  <1>1. /\ hpc = "read" /\ buf = <<>>
        /\ UNCHANGED <<timed, rx, hpc, call, todo, result, garbled, owed, pressed>>
    BY DEF Receive
  <1>2. UNCHANGED <<L, Last, Replies>>
    <2>1. PICK n \in 1 .. Len(tx) :
            buf' = SubSeq(tx, 1, n) /\ tx' = SubSeq(tx, n + 1, Len(tx))
      BY DEF Receive
    <2>2. n \in 0 .. Len(tx) /\ tx \in Seq(Reply) /\ <<>> \in Seq(Reply)
      BY EmptySeq DEF LinkTypeOK
    <2>3. buf' \o tx' = tx /\ <<>> \o tx = tx
      BY <2>1, <2>2, JoinReplies
    <2> QED BY <1>1, <2>3 DEF L, Last, Replies
  <1>3. TapAlone' /\ OneLine' /\ Where' /\ InFlight'
    BY <1>1, <1>2 DEF TapAlone, OneLine, Where, InFlight, Calling, Doubled
  <1>4. InRead'
    BY <1>1, <1>2 DEF Phases, InRead, Left, Pending, Gone, Texts, Closing, Answered, Awaited
  <1> QED BY <1>1, <1>3, <1>4 DEF Phases, Opening, AtRest, InWrite, InSettle

(* A reply that is not the awaited one is passed over.                     *)
LEMMA PassOverStep ==
  ASSUME LinkInv, PassOver
  PROVE  TapAlone' /\ OneLine' /\ Where' /\ InFlight' /\ Phases'
  <1> USE DEF LinkInv
  <1>1. /\ hpc = "read" /\ buf # <<>> /\ ~Awaited(Head(buf)) /\ buf' = Tail(buf)
        /\ UNCHANGED <<timed, rx, tx, hpc, call, todo, result, garbled, owed, pressed>>
    BY DEF PassOver, device
  <1>2. /\ UNCHANGED <<L, Last>> /\ Replies' = Tail(Replies) /\ Replies # <<>>
        /\ Head(Replies) = Head(buf) /\ Replies \in Seq(Reply)
    BY <1>1, JoinReplies, LastKept DEF L, Last, Replies, LinkTypeOK
  <1>3. TapAlone' /\ OneLine' /\ Where' /\ InFlight'
    BY <1>1, <1>2 DEF TapAlone, OneLine, Where, InFlight, Calling, Doubled
  <1>4. InRead'
    <2>1. Left(L - 1)' /\ (Pending \/ Gone)
      BY <1>1, <1>2 DEF Phases, InRead, Left
    <2>2. Pending => Pending'
      BY <1>1, <1>2, ReplyTaken DEF Pending, Texts
    <2>3. Gone => Gone'
      <3>1. Closing(Replies) => Closing(Replies')
        BY <1>2, ReplyTaken
      <3>2. Answered(Replies') => Answered(Replies)
        BY <1>2, ReplyTaken
      <3> QED BY <1>1, <1>2, <3>1, <3>2 DEF Gone, Closing, Answered, Awaited
    <2> QED BY <2>1, <2>2, <2>3 DEF InRead
  <1> QED BY <1>1, <1>3, <1>4 DEF Phases, Opening, AtRest, InWrite, InSettle

(* The awaited reply: the command has pressed its key, no press goes on,   *)
(* and only texts can be behind it.                                        *)
LEMMA AcknowledgeStep ==
  ASSUME LinkInv, Acknowledge
  PROVE  TapAlone' /\ OneLine' /\ Where' /\ InFlight' /\ Phases'
  <1> USE DEF LinkInv
  <1>1. /\ hpc = "read" /\ hpc' = "settle" /\ buf # <<>> /\ Awaited(Head(buf)) /\ buf' = <<>>
        /\ UNCHANGED <<timed, rx, tx, call, todo, result, garbled, owed, pressed>>
    BY DEF Acknowledge, device
  <1>2. /\ UNCHANGED <<L, Last>> /\ Replies \in Seq(Reply) /\ Replies # <<>>
        /\ Head(Replies) = Head(buf)
    BY <1>1, JoinReplies, LastKept DEF L, Last, Replies, LinkTypeOK
  <1>3. Replies[1] = Head(buf) /\ 1 \in DOMAIN Replies /\ DOMAIN Replies = 1 .. Len(Replies)
        /\ Len(Replies) = Len(buf) + Len(tx) /\ Len(buf) >= 1
        /\ Len(tx) \in Nat /\ Len(buf) \in Nat /\ DOMAIN tx = 1 .. Len(tx)
    <2>1. Len(Replies) = Len(buf) + Len(tx) /\ Len(buf) \in Nat /\ Len(tx) \in Nat /\ Len(buf) >= 1
          /\ DOMAIN tx = 1 .. Len(tx)
      BY <1>1, ConcatProperties, EmptySeq, LenProperties DEF Replies, LinkTypeOK
    <2>2. Replies[1] = Head(Replies) /\ DOMAIN Replies = 1 .. Len(Replies)
      BY <1>2, ReplyTaken, LenProperties
    <2> QED BY <1>2, <2>1, <2>2
  <1>4. Answered(Replies)
    BY <1>1, <1>3 DEF Answered
  <1>5. Gone
    <2>1. ~Pending
      BY <1>4, TextsAnswerNothing DEF Pending
    <2> QED BY <1>1, <2>1 DEF Phases, InRead
  <1>6. ~timed /\ Last = owed[L] /\ rx = <<>> /\ Closing(Replies)
    BY <1>4, <1>5 DEF Gone
  <1>7. Texts(tx)
    <2> SUFFICES ASSUME NEW i \in 1 .. Len(tx) PROVE tx[i] = "text"
      BY <1>3 DEF Texts
    <2>1. Len(buf) + i \in DOMAIN Replies /\ 1 < Len(buf) + i
      BY <1>3
    <2>2. Replies[Len(buf) + i] = "text"
      BY <1>1, <1>3, <1>6, <2>1 DEF Closing
    <2>3. Replies[Len(buf) + i] = tx[i]
      <3>1. ~(Len(buf) + i <= Len(buf)) /\ (Len(buf) + i) - Len(buf) = i
            /\ Len(buf) + i \in 1 .. Len(buf) + Len(tx)
        BY <1>3
      <3>2. buf \in Seq(Reply) /\ tx \in Seq(Reply)
        BY DEF LinkTypeOK
      <3> QED BY <3>1, <3>2, ConcatProperties DEF Replies
    <2> QED BY <2>2, <2>3
  <1>8. TapAlone' /\ OneLine' /\ Where' /\ InFlight'
    BY <1>1, <1>2 DEF TapAlone, OneLine, Where, InFlight, Calling, Doubled
  <1>9. InSettle'
    <2>1. Quiet'
      BY <1>1, <1>6, <1>7, EmptySeq DEF Quiet, Blanks, Texts, Where
    <2>2. Left(L - 1)'
      BY <1>1, <1>2 DEF Phases, InRead, Left
    <2> QED BY <1>1, <1>2, <1>6, <2>1, <2>2 DEF InSettle
  <1> QED BY <1>1, <1>8, <1>9 DEF Phases, Opening, AtRest, InWrite, InRead

(* The next command of the plan, or the return.                            *)
LEMMA SettleStep ==
  ASSUME LinkInv, Settle
  PROVE  TapAlone' /\ OneLine' /\ Where' /\ InFlight' /\ Phases'
  <1> USE DEF LinkInv
  <1>1. /\ hpc = "settle" /\ hpc' \in {"idle", "write"} /\ todo' = Tail(todo)
        /\ hpc' = "write" => todo' # <<>>
        /\ UNCHANGED <<timed, rx, tx, call, buf, garbled, owed, pressed>>
    BY DEF Settle, device
  <1>2. UNCHANGED <<L, Last>> /\ Quiet /\ Last = owed[L] /\ Left(L - 1) /\ Calling /\ todo # <<>>
        /\ buf = <<>> /\ ~garbled /\ L \in Nat \ {0} /\ Doubled(todo)
    BY <1>1, LastKept DEF L, Last, Phases, InSettle, Where
  <1>3. /\ Len(todo) \in Nat /\ Len(todo') = Len(todo) - 1 /\ DOMAIN todo' = 1 .. Len(todo) - 1
        /\ DOMAIN todo = 1 .. Len(todo) /\ \A i \in 1 .. Len(todo) - 1 : todo'[i] = todo[i + 1]
    <2>1. todo \in Seq(RawCommand)
      BY DEF LinkTypeOK
    <2>2. /\ todo' \in Seq(RawCommand) /\ Len(todo') = Len(todo) - 1
          /\ \A i \in 1 .. Len(todo') : todo'[i] = todo[i + 1]
      BY <1>1, <1>2, <2>1, HeadTailProperties
    <2> QED BY <2>1, <2>2, LenProperties
  <1>4. Doubled(todo')
    BY <1>2, <1>3 DEF Doubled
  <1>5. Left(L)'
    <2>1. Len(owed) = L + (Len(todo) - 1)
      BY <1>2, <1>3 DEF Left
    <2>2. ASSUME NEW i \in 1 .. Len(todo) - 1 PROVE owed[L + i] = KeysOf(todo'[i].line)
      <3>1. i + 1 \in 1 .. Len(todo) /\ (L - 1) + (i + 1) = L + i
        BY <1>2, <1>3
      <3> QED BY <1>2, <1>3, <3>1 DEF Left
    <2> QED BY <1>1, <1>2, <1>3, <2>1, <2>2 DEF Left
  <1>6. Quiet'
    BY <1>1, <1>2 DEF Quiet, Blanks, Texts
  <1>7. TapAlone' /\ OneLine' /\ InFlight'
    BY <1>1, <1>2 DEF TapAlone, OneLine, InFlight, Calling
  <1>8. Where'
    BY <1>1, <1>2, <1>4 DEF Where, Calling, Doubled
  <1>9. AtRest' /\ InWrite'
    BY <1>1, <1>2, <1>5, <1>6 DEF AtRest, InWrite
  <1> QED BY <1>1, <1>7, <1>8, <1>9 DEF Phases, Opening, InRead, InSettle
--------------------------------------------------------------------------------
(* A new call starts a record of its own.                                  *)
LEMMA FreshRecord ==
  ASSUME LinkInv, Quiet, NEW plan \in Seq(RawCommand),
         owed' = Owes(plan), pressed' = <<<<>>>>, UNCHANGED <<timed, rx>>
  PROVE  /\ L' = 1 /\ Last' = <<>> /\ owed'[1] = <<>>
         /\ Len(owed') = 1 + Len(plan) /\ Len(plan) \in Nat
         /\ \A i \in 1 .. Len(plan) : owed'[1 + i] = KeysOf(plan[i].line)
         /\ TapAlone' /\ OneLine' /\ InFlight'
  <1> USE DEF LinkInv
  <1>1. /\ Len(owed') = 1 + Len(plan) /\ owed'[1] = <<>> /\ Len(plan) \in Nat
        /\ \A i \in 1 .. Len(plan) : owed'[1 + i] = KeysOf(plan[i].line)
    BY OwesPlan, LenProperties
  <1>2. L' = 1 /\ Last' = <<>>
    BY DEF L, Last
  <1>3. TapAlone' /\ OneLine'
    BY DEF TapAlone, OneLine
  <1>4. rx # <<>> => rx[Len(rx)].verb = "blank"
    <2>1. rx # <<>> => Len(rx) \in DOMAIN rx
      BY EmptySeq, LenProperties DEF LinkTypeOK
    <2> QED BY <2>1 DEF Quiet, Blanks
  <1>5. InFlight'
    BY <1>1, <1>2, <1>4 DEF InFlight
  <1> QED BY <1>1, <1>2, <1>3, <1>5

(* A careful caller starts a call only when nothing is under way.          *)
LEMMA CallReady ==
  ASSUME Careful, LinkInv, MayCall
  PROVE  hpc = "idle" /\ Quiet /\ buf = <<>>
  BY DEF Careful, LinkInv, MayCall, Phases, AtRest, Where

(* A call with a plan.                                                     *)
LEMMA BeginStep ==
  ASSUME Careful, LinkInv, NEW plan \in Seq(RawCommand), plan # <<>>, Doubled(plan),
         NEW name \in {"send", "run", "stop"}, Begin(name, plan)
  PROVE  TapAlone' /\ OneLine' /\ Where' /\ InFlight' /\ Phases'
  <1> USE DEF LinkInv
  <1>1. /\ Quiet /\ buf = <<>>
        /\ hpc' = "write" /\ call' = name /\ todo' = plan
        /\ owed' = Owes(plan) /\ pressed' = <<<<>>>>
        /\ UNCHANGED <<timed, rx, tx, buf, result, garbled>>
    BY CallReady DEF Begin, device
  <1>2. /\ L' = 1 /\ Last' = <<>> /\ owed'[1] = <<>>
        /\ Len(owed') = 1 + Len(plan) /\ Len(plan) \in Nat
        /\ \A i \in 1 .. Len(plan) : owed'[1 + i] = KeysOf(plan[i].line)
        /\ TapAlone' /\ OneLine' /\ InFlight'
    BY <1>1, FreshRecord
  <1>3. Quiet'
    BY <1>1 DEF Quiet, Blanks, Texts
  <1>4. Where'
    BY <1>1, <1>3 DEF Where, Calling, Doubled, Quiet
  <1>5. InWrite'
    <2>1. Left(L)'
      BY <1>1, <1>2 DEF Left
    <2> QED BY <1>2, <1>3, <2>1 DEF InWrite
  <1> QED BY <1>1, <1>2, <1>4, <1>5 DEF Phases, Opening, AtRest, InRead, InSettle

(* A call whose time is refused.                                           *)
LEMMA RefuseStep ==
  ASSUME Careful, LinkInv, RefuseTime
  PROVE  TapAlone' /\ OneLine' /\ Where' /\ InFlight' /\ Phases'
  <1> USE DEF LinkInv
  <1>1. /\ Quiet /\ buf = <<>> /\ hpc = "idle"
        /\ call' = "run" /\ owed' = Owes(<<>>) /\ pressed' = <<<<>>>>
        /\ UNCHANGED <<timed, rx, tx, hpc, todo, buf, garbled>>
    BY CallReady DEF RefuseTime, device
  <1>2. L' = 1 /\ Last' = <<>> /\ owed'[1] = <<>> /\ TapAlone' /\ OneLine' /\ InFlight'
    BY <1>1, FreshRecord, EmptySeq
  <1>3. Quiet'
    BY <1>1 DEF Quiet, Blanks, Texts
  <1>4. Where'
    BY <1>1, <1>3 DEF Where, Calling, Doubled, Quiet
  <1>5. AtRest'
    BY <1>2, <1>3 DEF AtRest
  <1> QED BY <1>1, <1>2, <1>4, <1>5 DEF Phases, Opening, InWrite, InRead, InSettle

(* The handle is opened, drained and closed.                               *)
LEMMA OpenStep ==
  ASSUME LinkInv, Open \/ Drain \/ Close \/ Unheard
  PROVE  TapAlone' /\ OneLine' /\ Where' /\ InFlight' /\ Phases'
  <1> USE DEF LinkInv
  <1>1. CASE Open
    BY <1>1, EmptySeq DEF Open, Reset, LetGo, TapAlone, OneLine, Where, Calling, Doubled, InFlight,
                          Phases, Opening, AtRest, InWrite, InRead, InSettle
  <1>2. CASE Drain
    <2>1. /\ hpc = "opening" /\ hpc' = "idle" /\ result' = None /\ tx' = <<>>
          /\ rx = <<>> /\ ~timed /\ ~Calling /\ ~garbled /\ buf = <<>>
          /\ UNCHANGED <<timed, call, todo, buf, garbled, owed, pressed>>
      BY <1>2 DEF Drain, Phases, Opening, Where
    <2>2. Blanks(rx')
      <3>1. Blanks(<<>>) /\ Blanks(<<Blank>>)
        BY DEF Blanks, Blank, Line
      <3>2. rx' \in {<<>>, <<Blank>>}
        BY <1>2, <2>1 DEF Drain
      <3> QED BY <3>1, <3>2
    <2>3. Quiet'
      BY <2>1, <2>2 DEF Quiet, Texts, Blanks
    <2>4. OneLine' /\ TapAlone'
      <3>1. Len(<<>>) = 0 /\ Len(<<Blank>>) = 1
        OBVIOUS
      <3>2. rx' \in {<<>>, <<Blank>>}
        BY <1>2, <2>1 DEF Drain
      <3>3. Len(rx') - 1 \in {-1, 0}
        BY <3>1, <3>2
      <3>4. \A m \in {-1, 0} : \A i \in 1 .. m : FALSE
        OBVIOUS
      <3>5. OneLine'
        BY <3>3, <3>4, Zenon DEF OneLine
      <3> QED BY <2>1, <3>5 DEF TapAlone
    <2>5. Where' /\ InFlight' /\ ~Calling'
      BY <2>1 DEF Where, InFlight, Calling, Doubled
    <2> QED BY <2>1, <2>3, <2>4, <2>5 DEF Phases, Opening, AtRest, InWrite, InRead, InSettle
  <1>3. CASE Close
    BY <1>3 DEF Close, device, TapAlone, OneLine, Where, Calling, Doubled, InFlight,
                Phases, Opening, AtRest, InWrite, InRead, InSettle
  <1>4. CASE Unheard
    BY <1>4 DEF Unheard, HostReads, host, TapAlone, OneLine, Where, Calling, Doubled, InFlight,
                Phases, Opening, AtRest, InWrite, InRead, InSettle
  <1> QED BY <1>1, <1>2, <1>3, <1>4

(* The board resets by itself: the command under way is lost, and so are   *)
(* the ends of the replies.                                                *)
LEMMA GlitchStep ==
  ASSUME LinkInv, Glitch
  PROVE  TapAlone' /\ OneLine' /\ Where' /\ InFlight' /\ Phases'
  <1> USE DEF LinkInv
  <1>1. /\ rx' = <<>> /\ timed' = FALSE /\ garbled' = FALSE
        /\ UNCHANGED <<hpc, call, todo, buf, result, owed, pressed, L, Last>>
    BY DEF Glitch, Reset, LetGo, L, Last
  <1>2. PICK n \in 0 .. Len(tx) : tx' = SubSeq(tx, 1, n)
    BY DEF Glitch, Reset
  <1>3. TapAlone' /\ OneLine' /\ Where' /\ InFlight'
    BY <1>1, EmptySeq DEF TapAlone, OneLine, Where, InFlight, Calling, Doubled
  <1>4. Quiet => Quiet'
    <2>1. Texts(tx) => Texts(tx')
      BY <1>2, RepliesCut DEF LinkTypeOK
    <2> QED BY <1>1, <2>1 DEF Quiet, Blanks, Texts
  <1>5. Opening' /\ AtRest' /\ InWrite' /\ InSettle'
    BY <1>1, <1>4 DEF Phases, Opening, AtRest, InWrite, InSettle, Calling, Left
  <1>6. InRead'
    <2> SUFFICES ASSUME hpc = "read" PROVE Left(L - 1)' /\ Gone'
      BY <1>1 DEF InRead
    <2>1. Left(L - 1) /\ (Pending \/ Gone) /\ Left(L - 1)'
      BY <1>1 DEF Phases, InRead, Left
    <2>2. Replies' = SubSeq(Replies, 1, Len(buf) + n) /\ Replies \in Seq(Reply)
          /\ Len(buf) + n \in 0 .. Len(Replies)
      <3>1. buf \in Seq(Reply) /\ tx \in Seq(Reply) /\ Len(Replies) = Len(buf) + Len(tx)
            /\ Len(buf) \in Nat /\ Len(tx) \in Nat
        BY ConcatProperties, LenProperties DEF LinkTypeOK, Replies
      <3>2. buf \o SubSeq(tx, 1, n) = SubSeq(buf \o tx, 1, Len(buf) + n)
        BY <3>1, JoinReplies
      <3> QED BY <1>1, <1>2, <3>1, <3>2, LastKept DEF Replies
    <2>3. /\ Answered(Replies') => Answered(Replies)
          /\ Closing(Replies) => Closing(Replies')
      BY <2>2, RepliesCut
    <2>4. Closing(Replies) /\ (Answered(Replies) => Last = owed[L])
      BY <2>1, TextsAnswerNothing DEF Pending, Gone
    <2> QED BY <1>1, <2>1, <2>3, <2>4 DEF Gone, Closing, Answered, Awaited
  <1> QED BY <1>3, <1>5, <1>6 DEF Phases

(* The invariant holds when the program starts.                            *)
LEMMA LinkInit_Inv ==
  LinkInit => LinkInv
  <1> SUFFICES ASSUME LinkInit PROVE LinkInv
    OBVIOUS
  <1>0. <<>> \in Seq(RawCommand) /\ <<>> \in Seq(Command) /\ <<>> \in Seq(Reply)
    BY EmptySeq
  <1>1. <<<<>>>> \in Seq(Seq(Keys)) /\ <<<<>>>> # <<>> /\ Owes(<<>>) \in Seq(Seq(Keys))
    <2>1. <<<<>>>> \in Seq(Seq(Keys)) /\ <<<<>>>> # <<>>
      OBVIOUS
    <2>2. Owes(<<>>) \in Seq(Seq(Keys))
      BY <1>0, OwesPlan
    <2> QED BY <2>1, <2>2
  <1>2. LinkTypeOK
    BY <1>0, <1>1 DEF LinkInit, Off, LinkTypeOK, HPC
  <1>3. TapAlone /\ OneLine /\ Where /\ InFlight /\ Phases
    BY EmptySeq DEF LinkInit, Off, TapAlone, OneLine, Where, Calling, Doubled, InFlight,
           Phases, Opening, AtRest, InWrite, InRead, InSettle
  <1> QED BY <1>2, <1>3 DEF LinkInv

(* Every step of the two programs keeps the invariant.                     *)
LEMMA LinkStep ==
  ASSUME Careful, LinkInv, [LinkNext]_lvars
  PROVE  LinkInv'
  <1> DEFINE Kept == TapAlone' /\ OneLine' /\ Where' /\ InFlight' /\ Phases'
  <1>1. LinkTypeOK'
    BY TypeStep DEF LinkInv
  <1> SUFFICES Kept
    BY <1>1 DEF LinkInv
  <1>2. CASE Write \/ Receive \/ PassOver \/ Acknowledge \/ Settle
    BY <1>2, WriteStep, ReceiveStep, PassOverStep, AcknowledgeStep, SettleStep
  <1>3. CASE Fail
    BY <1>3, FailStep
  <1>4. CASE Open \/ Drain \/ Close \/ Unheard
    BY <1>4, OpenStep
  <1>5. CASE SendCommand
    <2>1. PICK c \in Raw : Begin("send", <<c>>)
      BY <1>5 DEF SendCommand
    <2>2. <<c>> \in Seq(RawCommand) /\ <<c>> # <<>> /\ Doubled(<<c>>)
      BY PlanTypes DEF Careful, Doubled
    <2> QED BY <2>1, <2>2, BeginStep
  <1>6. CASE StopMicrowave
    <2>1. <<PressKey(Stop)>> # <<>>
      OBVIOUS
    <2> QED BY <1>6, <2>1, PlanTypes, BeginStep DEF StopMicrowave
  <1>7. CASE RunMicrowave
    <2>1. PICK t \in Times, p \in Levels : Begin("run", CookSequence(Cook!ParseTime(t), p))
      BY <1>7 DEF RunMicrowave
    <2> DEFINE plan == CookSequence(Cook!ParseTime(t), p)
    <2>2. plan \in Seq(RawCommand) /\ Doubled(plan) /\ plan # <<>>
      BY PlanTypes
    <2> HIDE DEF plan
    <2>3. Begin("run", plan)
      BY <2>1 DEF plan
    <2> QED BY <2>2, <2>3, BeginStep
  <1>8. CASE RefuseTime
    BY <1>8, RefuseStep
  <1>9. CASE Sketch
    BY <1>9, SketchStep
  <1>10. CASE Glitch
    BY <1>10, GlitchStep
  <1>11. CASE UNCHANGED lvars
    <2>1. /\ UNCHANGED <<L, Last, Replies, Calling, Quiet, Pending, Gone>>
          /\ UNCHANGED <<timed, rx, hpc, todo, buf, garbled, owed, pressed, result>>
      BY <1>11 DEF lvars, device, host, L, Last, Calling, Quiet, Blanks, Texts,
                   Pending, Gone, Replies, Closing, Answered, Awaited
    <2>2. TapAlone' /\ OneLine' /\ Where' /\ InFlight'
      BY <2>1 DEF LinkInv, TapAlone, OneLine, Where, Doubled, InFlight
    <2>3. Phases'
      BY <2>1 DEF LinkInv, Phases, Opening, AtRest, InWrite, InRead, InSettle, Left
    <2> QED BY <2>2, <2>3
  <1> QED BY <1>2, <1>3, <1>4, <1>5, <1>6, <1>7, <1>8, <1>9, <1>10, <1>11
          DEF LinkNext, Library, Caller

(* The invariant holds of every behaviour of the library and the sketch    *)
(* when the caller does not go on after API_ERROR_SERIAL_FAIL and writes   *)
(* "press" in small letters at the start of the line.                      *)
THEOREM LinkInvariant ==
  ASSUME Careful
  PROVE  LinkSpec => []LinkInv
  <1>1. LinkInit => LinkInv
    BY LinkInit_Inv
  <1>2. LinkInv /\ [LinkNext]_lvars => LinkInv'
    BY LinkStep
  <1> QED BY <1>1, <1>2, PTL DEF LinkSpec

(* Every variable of arduino_link.cpp's calls and of the sketch has its    *)
(* type.                                                                   *)
THEOREM LinkTypes ==
  ASSUME Careful
  PROVE  LinkSpec => []LinkTypeOK
  <1>1. LinkInv => LinkTypeOK
    BY DEF LinkInv
  <1> QED BY <1>1, LinkInvariant, PTL

(* A call of arduino_link.cpp presses a prefix of its keys in order, each  *)
(* once, whatever is lost, fails or resets: nothing else is pressed, and   *)
(* only the last command written may not have pressed yet.                 *)
THEOREM KeysArePressedInOrder ==
  ASSUME Careful
  PROVE  LinkSpec => []KeysInOrder
  <1>1. LinkInv => KeysInOrder
    <2> SUFFICES ASSUME LinkInv, Calling, NEW i \in DOMAIN pressed
                 PROVE  /\ Len(pressed) <= Len(owed)
                        /\ pressed[i] = owed[i] \/ (i = Len(pressed) /\ pressed[i] = <<>>)
      BY DEF KeysInOrder, Calling, InFlight, LinkInv, L
    <2>1. L \in Nat /\ i \in 1 .. L /\ L = Len(pressed)
      BY LastKept DEF L, LinkInv
    <2>2. i = L \/ i \in 1 .. L - 1
      BY <2>1
    <2> QED BY <2>1, <2>2 DEF LinkInv, InFlight, Last
  <1> QED BY <1>1, LinkInvariant, PTL

(* When the last command of a plan has settled, the line is quiet and the  *)
(* record is complete.                                                     *)
LEMMA ReturnsQuiet ==
  ASSUME LinkInv, [LinkNext]_lvars, Returns
  PROVE  Quiet /\ rx = <<>> /\ pressed = owed
  <1> USE DEF LinkInv
  <1>1. Settle
    BY DEF Returns, LinkNext, Library, Caller, Write, Receive, PassOver, Acknowledge, Drain,
           Open, Close, SendCommand, StopMicrowave, RunMicrowave, Begin, RefuseTime, MayCall, Fail,
           Unheard, Sketch, Glitch, host, lvars
  <1>2. Quiet /\ rx = <<>> /\ Left(L - 1) /\ Last = owed[L] /\ Calling /\ todo # <<>>
    BY DEF Returns, Phases, InSettle, Where
  <1>3. Len(todo) = 1
    <2>1. Tail(todo) = <<>>
      BY <1>1 DEF Returns, Settle
    <2>2. Len(Tail(todo)) = Len(todo) - 1 /\ Len(todo) \in Nat
      BY <1>2, HeadTailProperties, LenProperties DEF LinkTypeOK
    <2>3. Len(<<>>) = 0
      OBVIOUS
    <2>4. Len(todo) - 1 = 0
      BY <2>1, <2>2, <2>3, Zenon
    <2>5. \A n \in Nat : n - 1 = 0 => n = 1
      OBVIOUS
    <2> QED BY <2>2, <2>4, <2>5, Zenon
  <1>4. L \in Nat \ {0} /\ L = Len(pressed) /\ Len(owed) = L
    <2>1. L \in Nat \ {0}
      BY LastKept
    <2> QED BY <1>2, <1>3, <2>1 DEF Left, L
  <1>5. \A i \in 1 .. L : pressed[i] = owed[i]
    BY <1>2, <1>4 DEF InFlight, Last
  <1>6. pressed = owed
    <2> DEFINE T == Seq(Keys)
    <2>1. pressed \in Seq(T) /\ owed \in Seq(T)
      BY DEF LinkTypeOK
    <2> HIDE DEF T
    <2> QED BY <1>4, <1>5, <2>1, SeqEqual
  <1> QED BY <1>2, <1>6

(* When send_raw_command's caller returns with success, every command of   *)
(* the call has pressed its key, and no timed press is going on.           *)
THEOREM CallsAreAcknowledged ==
  ASSUME Careful
  PROVE  LinkSpec => FullyAcknowledged
  <1>1. LinkInv /\ [LinkNext]_lvars => [Returns => pressed = owed /\ ~timed]_lvars
    BY ReturnsQuiet DEF Quiet
  <1> QED BY <1>1, LinkInvariant, PTL DEF LinkSpec, FullyAcknowledged

(* And no line is left on the way in either direction that a later call    *)
(* could take for its own.                                                 *)
THEOREM NothingStaleIsLeft ==
  ASSUME Careful
  PROVE  LinkSpec => NoStaleReply
  <1>1. LinkInv /\ [LinkNext]_lvars
          => [Returns => rx = <<>> /\ \A i \in DOMAIN tx : tx[i] = "text"]_lvars
    BY ReturnsQuiet DEF Quiet, Texts
  <1> QED BY <1>1, LinkInvariant, PTL DEF LinkSpec, NoStaleReply

(* The library never makes the sketch let go of a timed press for the next *)
(* one (startPress with a key pressed).                                    *)
THEOREM TapsAreNotCut ==
  ASSUME Careful
  PROVE  LinkSpec => NeverSupersedesTap
  <1>1. LinkInv /\ [LinkNext]_lvars => [Supersede => ~timed]_lvars
    BY DEF LinkInv, TapAlone, Supersede, Waiting
  <1> QED BY <1>1, LinkInvariant, PTL DEF LinkSpec, NeverSupersedesTap
================================================================================
