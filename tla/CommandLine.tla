------------------------------ MODULE CommandLine ------------------------------
(***************************************************************************)
(* How loop() makes command lines of the bytes it reads, and what          *)
(* processCommand makes of a line: its tokens.  The other modules begin    *)
(* with those tokens.  Bytes come one at a time; what the host has sent    *)
(* since its last newline is kept to compare with.                         *)
(***************************************************************************)
EXTENDS Sequences, FiniteSetsExt

CONSTANTS
  Letters,         \* characters of a command that are no white space
  Lower,           \* toLowerCase, character by character
  MaxLine,         \* the longest line (80)
  MaxTokens,       \* how many tokens processCommand keeps (4)
  MaxSent          \* bound on the characters between two newlines

VARIABLES
  pc,              \* "setup", "loop", or "process" while processCommand runs
  buffer,          \* g_commandBuffer
  tokens,          \* the tokens of the line that is processed
  errors,          \* "ERR: command too long" replies since the last newline
  sent,            \* history: what the host has sent since its last newline
  lost             \* history: how many of them setup() or a reset has lost

vars == <<pc, buffer, tokens, errors, sent, lost>>

Blank      == " "
WhiteSpace == {Blank, "\t"}
Return     == "\r"
Char       == Letters \cup WhiteSpace

ASSUME LineAssumption ==
  /\ Letters \cap (WhiteSpace \cup {Return}) = {}
  /\ Lower \in [Letters -> Letters]
  /\ MaxLine \in Nat \ {0} /\ MaxTokens \in Nat \ {0} /\ MaxSent \in Nat

--------------------------------------------------------------------------------
(* Where the white space at the ends of w leaves off; String::trim.        *)
Inner(w) == {i \in DOMAIN w : w[i] \notin WhiteSpace}
Trim(w)  == IF Inner(w) = {} THEN <<>> ELSE SubSeq(w, Min(Inner(w)), Max(Inner(w)))

toLowerCase(w) == [i \in DOMAIN w |-> IF w[i] \in Letters THEN Lower[w[i]] ELSE w[i]]

(* indexOf(' ', i), or the end; and the first index from i on with none.   *)
BlankFrom(w, i) == Min({j \in i .. Len(w) : w[j] = Blank} \cup {Len(w) + 1})
OtherFrom(w, i) == Min({j \in i .. Len(w) : w[j] # Blank} \cup {Len(w) + 1})

(* Mutant of TakeToken: only one blank is skipped between two tokens.      *)
TakeOneBlank(w, s) ==
  IF s.start > Len(w) THEN s
  ELSE LET end == BlankFrom(w, s.start)
       IN  [start  |-> end + 1,
            tokens |-> Append(s.tokens, toLowerCase(SubSeq(w, s.start, end - 1)))]

(* One pass of the tokenizer's loop over w: the token that begins at start *)
(* is kept, in lower case, and start moves on to the next one.             *)
TakeToken(w, s) ==
  IF s.start > Len(w) THEN s
  ELSE LET end == BlankFrom(w, s.start)
       IN  [start  |-> OtherFrom(w, end),
            tokens |-> Append(s.tokens, toLowerCase(SubSeq(w, s.start, end - 1)))]

(* The tokens of a line: what MaxTokens passes over it keep.               *)
Tokens(line) ==
  LET pass[n \in 0 .. MaxTokens] ==
        IF n = 0 THEN [start |-> 1, tokens |-> <<>>]
        ELSE TakeToken(Trim(line), pass[n - 1])
  IN  pass[MaxTokens].tokens

--------------------------------------------------------------------------------
Init ==
  /\ pc = "setup" /\ buffer = <<>> /\ tokens = <<>>
  /\ errors = 0 /\ sent = <<>> /\ lost = 0

(* The host sends a character, or a newline, and the sketch reads it.      *)
Sends(c) == Len(sent) < MaxSent /\ sent' = Append(sent, c)
Newline  == errors' = 0 /\ sent' = <<>> /\ lost' = 0

(* Mutant of CarriageReturn: it is stored, as a blank.                     *)
CarriageStored ==
  /\ pc = "loop" /\ Sends(Return)
  /\ buffer' = IF Len(buffer) < MaxLine THEN Append(buffer, Blank) ELSE <<>>
  /\ UNCHANGED <<pc, tokens, errors, lost>>

CarriageReturn ==
  /\ pc = "loop" /\ Sends(Return)
  /\ UNCHANGED <<pc, buffer, tokens, errors, lost>>

(* Mutant of Store: one character too many is kept.                        *)
StoreLate(c) ==
  /\ pc = "loop" /\ Sends(c)
  /\ buffer' = IF Len(buffer) > MaxLine THEN <<>> ELSE Append(buffer, c)
  /\ errors' = IF Len(buffer) > MaxLine THEN errors + 1 ELSE errors
  /\ UNCHANGED <<pc, tokens, lost>>

(* A character is appended; a line that has become too long is dropped     *)
(* with an error, and what follows is stored again.                        *)
Store(c) ==
  /\ pc = "loop" /\ Sends(c)
  /\ buffer' = IF Len(buffer) < MaxLine THEN Append(buffer, c) ELSE <<>>
  /\ errors' = IF Len(buffer) < MaxLine THEN errors ELSE errors + 1
  /\ UNCHANGED <<pc, tokens, lost>>

EmptyLine ==
  /\ pc = "loop" /\ buffer = <<>>
  /\ Newline
  /\ UNCHANGED <<pc, buffer, tokens>>

(* A newline: processCommand is called with the buffer ...                 *)
EndLine ==
  /\ pc = "loop" /\ buffer # <<>>
  /\ pc' = "process" /\ tokens' = Tokens(buffer)
  /\ UNCHANGED <<buffer, errors, sent, lost>>

(* ... which is empty again when it returns.                               *)
Processed ==
  /\ pc = "process" /\ pc' = "loop"
  /\ buffer' = <<>> /\ tokens' = <<>>
  /\ Newline

(* setup() reads and forgets; a reset loses what has been stored.          *)
Discard(c) ==
  /\ pc = "setup" /\ Sends(c)
  /\ lost' = Len(sent')
  /\ UNCHANGED <<pc, buffer, tokens, errors>>

DiscardNewline ==
  /\ pc = "setup" /\ Newline
  /\ UNCHANGED <<pc, buffer, tokens>>

SetupFinish ==
  /\ pc = "setup" /\ pc' = "loop"
  /\ UNCHANGED <<buffer, tokens, errors, sent, lost>>

Reset ==
  /\ pc' = "setup" /\ buffer' = <<>> /\ tokens' = <<>>
  /\ IF pc = "process" THEN Newline
     ELSE errors' = 0 /\ lost' = Len(sent) /\ UNCHANGED sent

Next ==
  \/ \E c \in Char : Store(c)
  \/ \E c \in Char \cup {Return} : Discard(c)
  \/ CarriageReturn \/ EmptyLine \/ EndLine \/ Processed
  \/ DiscardNewline \/ SetupFinish \/ Reset

Spec == Init /\ [][Next]_vars

--------------------------------------------------------------------------------
TypeOK ==
  /\ pc \in {"setup", "loop", "process"}
  /\ buffer \in Seq(Char) /\ Len(buffer) <= MaxLine
  /\ tokens \in Seq(Seq(Char)) /\ Len(tokens) <= MaxTokens
  /\ errors \in Nat /\ sent \in Seq(Char \cup {Return}) /\ lost \in 0 .. Len(sent)

(* What of w is stored: everything but the carriage returns.               *)
Stored(w) ==
  LET upTo[n \in 0 .. Len(w)] ==
        IF n = 0 THEN <<>>
        ELSE IF w[n] = Return THEN upTo[n - 1] ELSE Append(upTo[n - 1], w[n])
  IN  upTo[Len(w)]
LastOf(w, n) == SubSeq(w, Len(w) - n + 1, Len(w))

(* A line of at most MaxLine characters that the sketch has read from its  *)
(* start is stored as it was sent, without carriage returns.  Of a longer  *)
(* one, or of one that began during setup() or before a reset, the tail    *)
(* is: what follows the last character that was lost, or that made the     *)
(* line too long.  The host gets one error for each time a line became too *)
(* long, and none for what setup() or a reset has swallowed.               *)
BufferIsTail ==
  LET heard == Stored(SubSeq(sent, lost + 1, Len(sent)))
  IN  /\ buffer = LastOf(heard, Len(heard) % (MaxLine + 1))
      /\ errors = Len(heard) \div (MaxLine + 1)

(* The words of w, by their first and last place: the longest runs of      *)
(* characters between blanks.                                              *)
Words(w) ==
  {p \in (DOMAIN w) \X (DOMAIN w) :
     /\ p[1] <= p[2] /\ \A i \in p[1] .. p[2] : w[i] # Blank
     /\ p[1] = 1 \/ w[p[1] - 1] = Blank
     /\ p[2] = Len(w) \/ w[p[2] + 1] = Blank}

(* The tokens are the first words of w, each once, in their order and in   *)
(* lower case; a word is left out only after MaxTokens of them.            *)
FirstWords(toks, w) ==
  \E at \in [DOMAIN toks -> Words(w)] :
    /\ \A k \in DOMAIN toks : toks[k] = toLowerCase(SubSeq(w, at[k][1], at[k][2]))
    /\ \A k, m \in DOMAIN toks : k < m => at[k][1] < at[m][1]
    /\ \A p \in Words(w) :
         \/ \E k \in DOMAIN toks : at[k] = p
         \/ Len(toks) = MaxTokens /\ \A k \in DOMAIN toks : at[k][1] < p[1]

(* A line that is not too long and was read from its start is processed    *)
(* word for word, without white space at its ends.                         *)
TokensAreWords ==
  pc = "process" /\ lost = 0 /\ Len(Stored(sent)) <= MaxLine =>
    FirstWords(tokens, Trim(Stored(sent)))
================================================================================
