--------------------------- MODULE CommandLineProofs ---------------------------
(***************************************************************************)
(* Command lines, for all alphabets, all lengths of the buffer and all     *)
(* numbers of tokens: what is in the buffer, as a tail of what the host    *)
(* has sent, and what the tokenizer makes of it.                           *)
(***************************************************************************)
EXTENDS CommandLine, SequenceTheorems, WellFoundedInduction, TLAPS

(* A set of natural numbers that is not empty has a least one.             *)
LEMMA LeastNumber ==
  ASSUME NEW S, S \subseteq Nat, S # {}
  PROVE  \E n \in S : \A m \in S : n <= m
  <1> DEFINE R == {ss \in Nat \X Nat : ss[1] < ss[2]}
  <1>1. PICK n \in S : \A m \in S : ~(<<m, n>> \in OpToRel(<, Nat))
    BY NatLessThanWellFounded, WFMin
  <1>2. OpToRel(<, Nat) = R
    BY Zenon DEF OpToRel
  <1>3. SUFFICES ASSUME NEW m \in S PROVE n <= m
    OBVIOUS
  <1>4. <<m, n>> \notin R
    BY <1>1, <1>2
  <1> QED BY <1>4

LEMMA MinIs ==
  ASSUME NEW S, S \subseteq Nat, S # {}
  PROVE  Min(S) \in S /\ \A m \in S : Min(S) <= m
  <1>1. PICK n \in S : \A m \in S : n <= m
    BY LeastNumber
  <1> QED BY <1>1 DEF Min

(* The numbers up to n that are in S, counted from n down.                 *)
LEMMA MaxIs ==
  ASSUME NEW n \in Nat, NEW S, S \subseteq 0 .. n, S # {}
  PROVE  Max(S) \in S /\ \A m \in S : m <= Max(S)
  <1> DEFINE D == {n - m : m \in S}
  <1>1. D \subseteq Nat /\ D # {}
    OBVIOUS
  <1>2. PICK d \in D : \A e \in D : d <= e
    <2> HIDE DEF D
    <2> QED BY <1>1, LeastNumber
  <1>3. PICK k \in S : d = n - k
    OBVIOUS
  <1>4. \A m \in S : m <= k
    <2> TAKE m \in S
    <2>1. n - m \in D
      OBVIOUS
    <2>2. d <= n - m
      BY <1>2, <2>1
    <2> QED BY <2>2, <1>3
  <1>5. \E k2 \in S : \A m \in S : k2 >= m
    BY <1>4
  <1>6. Max(S) \in S /\ \A m \in S : Max(S) >= m
    BY <1>5 DEF Max
  <1> QED BY <1>6

--------------------------------------------------------------------------------
(* Characters and lines.                                                   *)
LEMMA CharIs ==
  /\ Return \notin Char /\ Blank \in Char /\ Blank \in WhiteSpace
  /\ WhiteSpace \subseteq Char
  <1>1. Return \notin WhiteSpace
    BY Zenon DEF Return, WhiteSpace, Blank
  <1>2. Return \notin Letters
    BY LineAssumption, Zenon
  <1> QED BY <1>1, <1>2, Zenon DEF Char, WhiteSpace

LEMMA LowerTypes ==
  ASSUME NEW w \in Seq(Char)
  PROVE  toLowerCase(w) \in Seq(Char) /\ Len(toLowerCase(w)) = Len(w)
  <1>1. Len(w) \in Nat /\ DOMAIN w = 1 .. Len(w)
    BY LenProperties
  <1>2. ASSUME NEW i \in 1 .. Len(w)
        PROVE  (IF w[i] \in Letters THEN Lower[w[i]] ELSE w[i]) \in Char
    <2>1. w[i] \in Char
      BY ElementOfSeq
    <2>2. CASE w[i] \in Letters
      BY <2>2, LineAssumption DEF Char
    <2>3. CASE w[i] \notin Letters
      BY <2>1, <2>3
    <2> QED BY <2>2, <2>3
  <1>3. toLowerCase(w) = [i \in 1 .. Len(w) |-> IF w[i] \in Letters THEN Lower[w[i]] ELSE w[i]]
    BY <1>1 DEF toLowerCase
  <1> HIDE DEF toLowerCase
  <1>4. toLowerCase(w) \in [1 .. Len(w) -> Char]
    BY <1>2, <1>3
  <1> QED BY <1>1, <1>4, IsASeq, LenProperties

LEMMA SubSeqTypes ==
  ASSUME NEW T, NEW w \in Seq(T), NEW a \in 1 .. Len(w) + 1, NEW b \in (a - 1) .. Len(w)
  PROVE  /\ SubSeq(w, a, b) \in Seq(T) /\ Len(SubSeq(w, a, b)) = b - a + 1
         /\ \A i \in 1 .. (b - a + 1) : SubSeq(w, a, b)[i] = w[a + i - 1]
  <1>1. Len(w) \in Nat
    BY LenProperties
  <1>2. a \in Int /\ b \in Int /\ 1 <= a /\ b <= Len(w) /\ a - 1 <= b
    BY <1>1
  <1>3. /\ \A i \in a .. b : i \in 1 .. Len(w)
        /\ \A i \in a .. b : w[i] \in T
    BY <1>1, <1>2, ElementOfSeq
  <1>4. /\ SubSeq(w, a, b) \in Seq(T)
        /\ Len(SubSeq(w, a, b)) = IF a <= b THEN b - a + 1 ELSE 0
        /\ \A i \in 1 .. (b - a + 1) : SubSeq(w, a, b)[i] = w[a + i - 1]
    BY <1>2, <1>3, SubSeqProperties
  <1> QED BY <1>2, <1>4

(* A trimmed line is empty or begins, and ends, with no white space.       *)
LEMMA TrimTypes ==
  ASSUME NEW w \in Seq(Char)
  PROVE  /\ Trim(w) \in Seq(Char)
         /\ Len(Trim(w)) > 0 => Trim(w)[1] # Blank
  <1>1. Len(w) \in Nat /\ DOMAIN w = 1 .. Len(w) /\ Inner(w) \subseteq 1 .. Len(w)
    BY LenProperties DEF Inner
  <1>2. CASE Inner(w) = {}
    <2>1. Trim(w) = <<>>
      BY <1>2 DEF Trim
    <2> QED BY <2>1, EmptySeq
  <1>3. CASE Inner(w) # {}
    <2> DEFINE a == Min(Inner(w))
               b == Max(Inner(w))
    <2>1. a \in Inner(w) /\ \A m \in Inner(w) : a <= m
      BY <1>1, <1>3, MinIs
    <2>2. b \in Inner(w)
      BY <1>1, <1>3, MaxIs
    <2>3. Trim(w) = SubSeq(w, a, b)
      BY <1>3 DEF Trim
    <2>4. w[a] # Blank
      BY <2>1, CharIs DEF Inner
    <2> HIDE DEF a, b
    <2>5. a \in 1 .. Len(w) + 1 /\ b \in (a - 1) .. Len(w) /\ a <= b
      BY <2>1, <2>2, <1>1
    <2>6. /\ Trim(w) \in Seq(Char)
          /\ \A i \in 1 .. (b - a + 1) : Trim(w)[i] = w[a + i - 1]
      BY <2>3, <2>5, SubSeqTypes
    <2>7. 1 \in 1 .. (b - a + 1) /\ a + 1 - 1 = a
      BY <2>5
    <2>8. Trim(w)[1] = w[a]
      BY <2>6, <2>7
    <2> QED BY <2>4, <2>6, <2>8
  <1> QED BY <1>2, <1>3

--------------------------------------------------------------------------------
(* f is the function Stored computes, for the first k characters.          *)
Stores(f, w, k) ==
  f = [n \in 0 .. k |->
         IF n = 0 THEN <<>>
         ELSE IF w[n] = Return THEN f[n - 1] ELSE Append(f[n - 1], w[n])]

(* It exists: of the prefixes it does not exist for, none is the shortest. *)
LEMMA StoresExists ==
  ASSUME NEW w \in Seq(Char \cup {Return})
  PROVE  \E f \in [0 .. Len(w) -> Seq(Char)] : Stores(f, w, Len(w))
  <1> DEFINE Bad == {k \in 0 .. Len(w) : ~\E f \in [0 .. k -> Seq(Char)] : Stores(f, w, k)}
  <1>1. Len(w) \in Nat /\ Bad \subseteq Nat
    BY LenProperties
  <1>2. SUFFICES ASSUME Bad # {} PROVE FALSE
    BY <1>1
  <1>3. PICK k \in Bad : \A m \in Bad : k <= m
    <2> HIDE DEF Bad
    <2> QED BY <1>1, <1>2, LeastNumber
  <1>4. k # 0
    <2>1. <<>> \in Seq(Char)
      BY EmptySeq
    <2>2. [i \in 0 .. 0 |-> <<>>] \in [0 .. 0 -> Seq(Char)] /\ Stores([i \in 0 .. 0 |-> <<>>], w, 0)
      BY <2>1 DEF Stores
    <2> QED BY <2>2
  <1>5. k - 1 \in 0 .. Len(w) /\ ~(k <= k - 1) /\ k \in 1 .. Len(w)
    BY <1>1, <1>4
  <1>6. PICK f \in [0 .. (k - 1) -> Seq(Char)] : Stores(f, w, k - 1)
    BY <1>3, <1>5
  <1> DEFINE last == IF w[k] = Return THEN f[k - 1] ELSE Append(f[k - 1], w[k])
             g == [i \in 0 .. k |-> IF i = k THEN last ELSE f[i]]
  <1>7. last \in Seq(Char)
    <2>1. f[k - 1] \in Seq(Char)
      BY <1>5
    <2>2. w[k] = Return \/ w[k] \in Char
      BY <1>5, ElementOfSeq
    <2> QED BY <2>1, <2>2, AppendProperties
  <1>8. g \in [0 .. k -> Seq(Char)]
    <2> HIDE DEF last
    <2> QED BY <1>5, <1>7
  <1>9. \A i \in 0 .. k : g[i] = IF i = 0 THEN <<>>
                                 ELSE IF w[i] = Return THEN g[i - 1] ELSE Append(g[i - 1], w[i])
    <2> TAKE i \in 0 .. k
    <2>1. CASE i = k
      <3>1. g[i] = last /\ g[i - 1] = f[k - 1] /\ i # 0
        BY <2>1, <1>5
      <3> QED BY <2>1, <3>1
    <2>2. CASE i # k
      <3>1. i \in 0 .. (k - 1) /\ g[i] = f[i] /\ (i # 0 => g[i - 1] = f[i - 1])
        BY <2>2, <1>5
      <3>2. f[i] = IF i = 0 THEN <<>>
                   ELSE IF w[i] = Return THEN f[i - 1] ELSE Append(f[i - 1], w[i])
        BY <1>6, <3>1 DEF Stores
      <3> QED BY <3>1, <3>2
    <2> QED BY <2>1, <2>2
  <1>10. Stores(g, w, k)
    <2>1. DOMAIN g = 0 .. k
      OBVIOUS
    <2> HIDE DEF g
    <2> QED BY <1>8, <1>9, <2>1 DEF Stores
  <1> QED BY <1>3, <1>8, <1>10

(* Two words that agree on their first k characters store the same of them.*)
LEMMA StoresAgree ==
  ASSUME NEW w, NEW v, NEW f, NEW g, NEW m \in Nat, NEW n \in Nat, NEW k \in Nat,
         k <= m, k <= n, Stores(f, w, m), Stores(g, v, n),
         \A i \in 1 .. k : w[i] = v[i]
  PROVE  f[k] = g[k]
  <1> DEFINE Bad == {i \in 0 .. k : f[i] # g[i]}
  <1>1. SUFFICES ASSUME Bad # {} PROVE FALSE
    OBVIOUS
  <1>2. Bad \subseteq Nat
    OBVIOUS
  <1>3. PICK i \in Bad : \A j \in Bad : i <= j
    <2> HIDE DEF Bad
    <2> QED BY <1>1, <1>2, LeastNumber
  <1>4. \A j \in 0 .. m : f[j] = IF j = 0 THEN <<>>
                                 ELSE IF w[j] = Return THEN f[j - 1] ELSE Append(f[j - 1], w[j])
    BY DEF Stores
  <1>5. \A j \in 0 .. n : g[j] = IF j = 0 THEN <<>>
                                 ELSE IF v[j] = Return THEN g[j - 1] ELSE Append(g[j - 1], v[j])
    BY DEF Stores
  <1>6. i \in 0 .. m /\ i \in 0 .. n /\ i \in 0 .. k /\ f[i] # g[i]
    OBVIOUS
  <1>7. i # 0
    <2>1. 0 \in 0 .. m /\ 0 \in 0 .. n
      OBVIOUS
    <2>2. f[0] = <<>> /\ g[0] = <<>>
      BY <1>4, <1>5, <2>1
    <2> QED BY <1>6, <2>2
  <1>8. i - 1 \in 0 .. k /\ ~(i <= i - 1) /\ i \in 1 .. k
    BY <1>6, <1>7
  <1>9. f[i - 1] = g[i - 1]
    BY <1>3, <1>8
  <1>10. w[i] = v[i]
    BY <1>8
  <1> QED BY <1>4, <1>5, <1>6, <1>7, <1>9, <1>10

(* What a word stores, by such a function.                                 *)
LEMMA StoredIs ==
  ASSUME NEW w \in Seq(Char \cup {Return})
  PROVE  /\ Stored(w) \in Seq(Char)
         /\ \E f : Stores(f, w, Len(w)) /\ Stored(w) = f[Len(w)]
  <1> DEFINE up == CHOOSE f : Stores(f, w, Len(w))
  <1>1. \E f : Stores(f, w, Len(w))
    BY StoresExists
  <1>2. Stores(up, w, Len(w))
    BY <1>1
  <1>3. Stored(w) = up[Len(w)]
    BY Zenon DEF Stored, Stores
  <1> HIDE DEF up
  <1>4. PICK f \in [0 .. Len(w) -> Seq(Char)] : Stores(f, w, Len(w))
    BY StoresExists
  <1>5. Len(w) \in Nat
    BY LenProperties
  <1>6. up[Len(w)] = f[Len(w)]
    BY <1>2, <1>4, <1>5, StoresAgree
  <1>7. f[Len(w)] \in Seq(Char)
    BY <1>5
  <1> QED BY <1>2, <1>3, <1>6, <1>7

LEMMA StoresAt ==
  ASSUME NEW f, NEW w, NEW k \in Nat, NEW j \in 1 .. k, Stores(f, w, k)
  PROVE  f[j] = IF w[j] = Return THEN f[j - 1] ELSE Append(f[j - 1], w[j])
  <1>1. j \in 0 .. k /\ j # 0
    OBVIOUS
  <1> QED BY <1>1 DEF Stores

LEMMA StoredEmpty == Stored(<<>>) = <<>>
  <1>1. <<>> \in Seq(Char \cup {Return}) /\ Len(<<>>) = 0
    BY EmptySeq
  <1>2. PICK f : Stores(f, <<>>, 0) /\ Stored(<<>>) = f[0]
    BY <1>1, StoredIs
  <1>3. f[0] = <<>>
    BY <1>2 DEF Stores
  <1> QED BY <1>2, <1>3

LEMMA StoredAppend ==
  ASSUME NEW w \in Seq(Char \cup {Return}), NEW c \in Char \cup {Return}
  PROVE  Stored(Append(w, c)) = IF c = Return THEN Stored(w) ELSE Append(Stored(w), c)
  <1> DEFINE v == Append(w, c)
  <1>1. /\ v \in Seq(Char \cup {Return}) /\ Len(v) = Len(w) + 1 /\ Len(w) \in Nat
        /\ v[Len(w) + 1] = c /\ \A i \in 1 .. Len(w) : w[i] = v[i]
    BY AppendProperties, LenProperties
  <1> HIDE DEF v
  <1> DEFINE n == Len(w)
  <1>2. PICK f : Stores(f, w, n) /\ Stored(w) = f[n]
    BY StoredIs
  <1>3. PICK g : Stores(g, v, n + 1) /\ Stored(v) = g[n + 1]
    BY <1>1, StoredIs
  <1>4. n \in Nat /\ n + 1 \in Nat /\ n <= n /\ n <= n + 1 /\ \A i \in 1 .. n : w[i] = v[i]
    BY <1>1
  <1>5. v[n + 1] = c
    BY <1>1
  <1> HIDE DEF n
  <1>6. f[n] = g[n]
    BY <1>2, <1>3, <1>4, StoresAgree
  <1>7. g[n + 1] = IF v[n + 1] = Return THEN g[n] ELSE Append(g[n], v[n + 1])
    <2> DEFINE m == n + 1
    <2>1. m \in Nat /\ m \in 1 .. m /\ m - 1 = n
      BY <1>4
    <2>2. Stores(g, v, m)
      BY <1>3
    <2> HIDE DEF m
    <2>3. g[m] = IF v[m] = Return THEN g[m - 1] ELSE Append(g[m - 1], v[m])
      BY <2>1, <2>2, StoresAt
    <2>4. g[m] = IF v[m] = Return THEN g[n] ELSE Append(g[n], v[m])
      BY <2>1, <2>3
    <2> QED BY <2>4 DEF m
  <1> QED BY <1>2, <1>3, <1>5, <1>6, <1>7 DEF v

--------------------------------------------------------------------------------
(* Where indexOf(' ') finds a blank, and where the blanks end.             *)
LEMMA BlankFromIs ==
  ASSUME NEW w \in Seq(Char), NEW i \in 1 .. Len(w) + 1
  PROVE  LET e == BlankFrom(w, i)
         IN  /\ e \in i .. Len(w) + 1 /\ \A j \in i .. (e - 1) : w[j] # Blank
             /\ e = Len(w) + 1 \/ w[e] = Blank
  <1> DEFINE S == {j \in i .. Len(w) : w[j] = Blank} \cup {Len(w) + 1}
             e == Min(S)
  <1>1. Len(w) \in Nat
    BY LenProperties
  <1>2. S \subseteq Nat /\ S # {}
    BY <1>1
  <1>3. e \in S /\ \A m \in S : e <= m
    <2> HIDE DEF S
    <2> QED BY <1>2, MinIs
  <1>4. BlankFrom(w, i) = e
    BY DEF BlankFrom
  <1> HIDE DEF e
  <1>5. e \in i .. Len(w) + 1 /\ (e = Len(w) + 1 \/ w[e] = Blank)
    BY <1>1, <1>3
  <1>6. ASSUME NEW j \in i .. (e - 1), w[j] = Blank PROVE FALSE
    <2>1. j \in i .. Len(w) /\ ~(e <= j)
      BY <1>1, <1>5
    <2>2. j \in S
      BY <2>1, <1>6
    <2> QED BY <1>3, <2>1, <2>2
  <1> QED BY <1>4, <1>5, <1>6

LEMMA OtherFromIs ==
  ASSUME NEW w \in Seq(Char), NEW i \in 1 .. Len(w) + 1
  PROVE  LET e == OtherFrom(w, i)
         IN  /\ e \in i .. Len(w) + 1 /\ \A j \in i .. (e - 1) : w[j] = Blank
             /\ e = Len(w) + 1 \/ w[e] # Blank
  <1> DEFINE S == {j \in i .. Len(w) : w[j] # Blank} \cup {Len(w) + 1}
             e == Min(S)
  <1>1. Len(w) \in Nat
    BY LenProperties
  <1>2. S \subseteq Nat /\ S # {}
    BY <1>1
  <1>3. e \in S /\ \A m \in S : e <= m
    <2> HIDE DEF S
    <2> QED BY <1>2, MinIs
  <1>4. OtherFrom(w, i) = e
    BY DEF OtherFrom
  <1> HIDE DEF e
  <1>5. e \in i .. Len(w) + 1 /\ (e = Len(w) + 1 \/ w[e] # Blank)
    BY <1>1, <1>3
  <1>6. ASSUME NEW j \in i .. (e - 1), w[j] # Blank PROVE FALSE
    <2>1. j \in i .. Len(w) /\ ~(e <= j)
      BY <1>1, <1>5
    <2>2. j \in S
      BY <2>1, <1>6
    <2> QED BY <1>3, <2>1, <2>2
  <1> QED BY <1>4, <1>5, <1>6

(* Of the words that begin before start, toks are the lower case, in       *)
(* order; at says which word each of them is.                              *)
Keeps(w, start, toks, at) ==
  /\ at \in [1 .. Len(toks) -> Words(w)]
  /\ \A k \in 1 .. Len(toks) :
       toks[k] = toLowerCase(SubSeq(w, at[k][1], at[k][2])) /\ at[k][1] < start
  /\ \A k, m \in 1 .. Len(toks) : k < m => at[k][1] < at[m][1]
  /\ \A p \in Words(w) : p[1] < start => \E k \in 1 .. Len(toks) : at[k] = p

(* The tokenizer after n passes: start is where a word begins, or the end. *)
Taken(w, s, n) ==
  /\ s.start \in 1 .. Len(w) + 1 /\ s.tokens \in Seq(Seq(Char)) /\ Len(s.tokens) <= n
  /\ s.start <= Len(w) =>
       /\ Len(s.tokens) = n /\ w[s.start] # Blank
       /\ s.start = 1 \/ w[s.start - 1] = Blank
  /\ \E at : Keeps(w, s.start, s.tokens, at)

(* The word that begins at start, and where the next one does.             *)
LEMMA NextWord ==
  ASSUME NEW w \in Seq(Char), NEW start \in 1 .. Len(w), w[start] # Blank,
         start = 1 \/ w[start - 1] = Blank
  PROVE  LET end  == BlankFrom(w, start)
             next == OtherFrom(w, end)
         IN  /\ end \in (start + 1) .. Len(w) + 1 /\ next \in end .. Len(w) + 1
             /\ <<start, end - 1>> \in Words(w)
             /\ \A p \in Words(w) : p[1] \in start .. (next - 1) => p = <<start, end - 1>>
             /\ next <= Len(w) => w[next] # Blank /\ w[next - 1] = Blank
  <1> DEFINE end  == BlankFrom(w, start)
             next == OtherFrom(w, end)
  <1>1. Len(w) \in Nat /\ DOMAIN w = 1 .. Len(w)
    BY LenProperties
  <1>2. /\ end \in start .. Len(w) + 1 /\ \A j \in start .. (end - 1) : w[j] # Blank
        /\ end = Len(w) + 1 \/ w[end] = Blank
    <2>1. start \in 1 .. Len(w) + 1
      BY <1>1
    <2> QED BY <2>1, BlankFromIs
  <1>3. end \in 1 .. Len(w) + 1
    BY <1>1, <1>2
  <1>4. /\ next \in end .. Len(w) + 1 /\ \A j \in end .. (next - 1) : w[j] = Blank
        /\ next = Len(w) + 1 \/ w[next] # Blank
    BY <1>3, OtherFromIs
  <1> HIDE DEF end, next
  <1>5. end # start
    BY <1>1, <1>2
  <1>6. end \in (start + 1) .. Len(w) + 1
    BY <1>1, <1>2, <1>5
  <1>7. <<start, end - 1>> \in Words(w)
    <2>1. start \in DOMAIN w /\ end - 1 \in DOMAIN w /\ start <= end - 1
      BY <1>1, <1>6
    <2>2. end - 1 = Len(w) \/ w[end - 1 + 1] = Blank
      <3>1. end - 1 + 1 = end
        BY <1>6
      <3>2. end = Len(w) + 1 => end - 1 = Len(w)
        BY <1>1
      <3> QED BY <1>2, <3>1, <3>2
    <2> QED BY <2>1, <2>2, <1>2 DEF Words
  <1>8. ASSUME NEW p \in Words(w), p[1] \in start .. (next - 1)
        PROVE  p = <<start, end - 1>>
    <2> DEFINE a == p[1]
               b == p[2]
    <2>1. /\ p = <<a, b>> /\ a \in 1 .. Len(w) /\ b \in 1 .. Len(w) /\ a <= b
          /\ \A i \in a .. b : w[i] # Blank
          /\ a = 1 \/ w[a - 1] = Blank
          /\ b = Len(w) \/ w[b + 1] = Blank
      BY <1>1 DEF Words
    <2>2. a \in start .. (next - 1)
      BY <1>8
    <2> HIDE DEF a, b
    <2>3. /\ start \in Nat /\ end \in Nat /\ next \in Nat /\ Len(w) \in Nat
          /\ a \in Nat /\ b \in Nat /\ start <= a /\ a <= next - 1 /\ a <= b /\ b <= Len(w)
          /\ 1 <= start /\ start < end /\ end <= Len(w) + 1
      <3>1. start \in Nat /\ 1 <= start
        BY <1>1
      <3>2. end \in Nat /\ start < end /\ end <= Len(w) + 1
        BY <1>1, <1>6, <3>1
      <3>3. next \in Nat
        BY <1>1, <1>4, <3>2
      <3>4. a \in Nat /\ b \in Nat /\ a <= b /\ b <= Len(w)
        <4>1. a \in 1 .. Len(w) /\ b \in 1 .. Len(w) /\ a <= b
          BY <2>1
        <4> QED BY <1>1, <4>1
      <3>5. start <= a /\ a <= next - 1
        BY <2>2, <3>1, <3>3, <3>4
      <3> QED BY <1>1, <3>1, <3>2, <3>3, <3>4, <3>5
    <2>4. a < end
      <3> SUFFICES ASSUME ~(a < end) PROVE FALSE
        OBVIOUS
      <3>1. a \in end .. (next - 1) /\ a \in a .. b
        BY <2>3
      <3> QED BY <1>4, <2>1, <3>1
    <2>5. a = start
      <3> SUFFICES ASSUME a # start PROVE FALSE
        OBVIOUS
      <3>1. a - 1 \in start .. (end - 1) /\ a # 1
        BY <2>3, <2>4
      <3> QED BY <1>2, <2>1, <3>1
    <2>6. b = end - 1
      <3>1. ASSUME b < end - 1 PROVE FALSE
        <4>1. b + 1 \in start .. (end - 1) /\ b # Len(w)
          BY <2>3, <3>1
        <4> QED BY <1>2, <2>1, <4>1
      <3>2. ASSUME end <= b PROVE FALSE
        <4>1. end \in a .. b /\ end # Len(w) + 1
          BY <2>3, <2>4, <3>2
        <4> QED BY <1>2, <2>1, <4>1
      <3> QED BY <2>3, <3>1, <3>2
    <2> QED BY <2>1, <2>5, <2>6
  <1>9. ASSUME next <= Len(w) PROVE w[next] # Blank /\ w[next - 1] = Blank
    <2>1. next # Len(w) + 1 /\ end # Len(w) + 1
      BY <1>1, <1>4, <1>6, <1>9
    <2>2. w[next] # Blank /\ w[end] = Blank
      BY <1>2, <1>4, <2>1
    <2>3. next - 1 \in end .. (next - 1)
      BY <1>4, <1>6, <2>2
    <2> QED BY <1>4, <2>2, <2>3
  <1> QED BY <1>4, <1>6, <1>7, <1>8, <1>9 DEF end, next

(* A pass keeps one word more, or there was none left.                     *)
LEMMA TakeTokenKeeps ==
  ASSUME NEW w \in Seq(Char), NEW n \in Nat, NEW s, Taken(w, s, n)
  PROVE  Taken(w, TakeToken(w, s), n + 1)
  <1> DEFINE start == s.start
             toks  == s.tokens
  <1>1. /\ start \in 1 .. Len(w) + 1 /\ toks \in Seq(Seq(Char)) /\ Len(toks) <= n
        /\ start <= Len(w) =>
             /\ Len(toks) = n /\ w[start] # Blank
             /\ start = 1 \/ w[start - 1] = Blank
    BY DEF Taken
  <1>2. PICK at : Keeps(w, start, toks, at)
    BY DEF Taken
  <1>3. Len(w) \in Nat /\ Len(toks) \in Nat
    BY <1>1, LenProperties
  <1>4. CASE start > Len(w)
    <2>1. TakeToken(w, s) = s
      BY <1>4 DEF TakeToken
    <2>2. Len(toks) <= n + 1 /\ ~(start <= Len(w))
      BY <1>1, <1>3, <1>4
    <2> HIDE DEF start, toks
    <2>3. Taken(w, s, n + 1)
      BY <1>1, <1>2, <2>2 DEF Taken, start, toks
    <2> QED BY <2>1, <2>3
  <1>5. CASE ~(start > Len(w))
    <2> DEFINE end  == BlankFrom(w, start)
               next == OtherFrom(w, end)
               p    == <<start, end - 1>>
               tok  == toLowerCase(SubSeq(w, start, end - 1))
               more == Append(toks, tok)
               to   == [k \in 1 .. (n + 1) |-> IF k = n + 1 THEN p ELSE at[k]]
    <2>1. TakeToken(w, s) = [start |-> next, tokens |-> more]
      BY <1>5, Zenon DEF TakeToken
    <2>2. start \in 1 .. Len(w) /\ Len(toks) = n /\ w[start] # Blank
          /\ (start = 1 \/ w[start - 1] = Blank)
      BY <1>1, <1>3, <1>5
    <2> HIDE DEF start, toks
    <2>3. /\ end \in (start + 1) .. Len(w) + 1 /\ next \in end .. Len(w) + 1
          /\ p \in Words(w)
          /\ \A q \in Words(w) : q[1] \in start .. (next - 1) => q = p
          /\ next <= Len(w) => w[next] # Blank /\ w[next - 1] = Blank
      BY <2>2, NextWord
    <2> HIDE DEF end, next
    <2>4. tok \in Seq(Char)
      <3>1. start \in 1 .. Len(w) + 1 /\ end - 1 \in (start - 1) .. Len(w)
        BY <1>3, <2>2, <2>3
      <3>2. SubSeq(w, start, end - 1) \in Seq(Char)
        BY <3>1, SubSeqTypes
      <3> QED BY <3>2, LowerTypes
    <2>5. p[1] = start /\ p[2] = end - 1
      OBVIOUS
    <2> HIDE DEF p
    <2>6. tok = toLowerCase(SubSeq(w, p[1], p[2]))
      BY <2>5
    <2> HIDE DEF tok
    <2>7. /\ more \in Seq(Seq(Char)) /\ Len(more) = n + 1 /\ more[n + 1] = tok
          /\ \A k \in 1 .. n : more[k] = toks[k]
      <3>1. /\ more \in Seq(Seq(Char)) /\ Len(more) = Len(toks) + 1
            /\ more[Len(toks) + 1] = tok /\ \A k \in 1 .. Len(toks) : more[k] = toks[k]
        BY <1>1, <2>4, AppendProperties
      <3> HIDE DEF more
      <3> QED BY <2>2, <3>1
    <2> HIDE DEF more
    <2>8. start \in Nat /\ next \in Nat /\ start < next /\ next \in 1 .. Len(w) + 1
      BY <1>3, <2>2, <2>3
    <2>9. /\ at \in [1 .. n -> Words(w)]
          /\ \A k \in 1 .. n : toks[k] = toLowerCase(SubSeq(w, at[k][1], at[k][2]))
          /\ \A k \in 1 .. n : at[k][1] < start
          /\ \A k, m \in 1 .. n : k < m => at[k][1] < at[m][1]
          /\ \A q \in Words(w) : q[1] < start => \E k \in 1 .. n : at[k] = q
      BY <1>2, <2>2 DEF Keeps
    <2>10. /\ to \in [1 .. (n + 1) -> Words(w)] /\ to[n + 1] = p
           /\ \A k \in 1 .. n : to[k] = at[k]
      BY <2>3, <2>9
    <2>11. \A k \in 1 .. (n + 1) : k \in 1 .. n \/ k = n + 1
      OBVIOUS
    <2>12. \A q \in Words(w) : q[1] \in Nat
      BY <1>3, LenProperties DEF Words
    <2> HIDE DEF to
    <2>13. \A k \in 1 .. (n + 1) : more[k] = toLowerCase(SubSeq(w, to[k][1], to[k][2]))
      BY <2>6, <2>7, <2>9, <2>10, <2>11, Zenon
    <2>14. \A k \in 1 .. (n + 1) : to[k][1] < next
      <3> TAKE k \in 1 .. (n + 1)
      <3>1. CASE k \in 1 .. n
        <4>1. to[k][1] < start /\ to[k][1] \in Nat
          BY <2>9, <2>10, <2>12, <3>1
        <4> QED BY <4>1, <2>8
      <3>2. CASE k = n + 1
        BY <2>5, <2>8, <2>10, <3>2
      <3> QED BY <2>11, <3>1, <3>2
    <2>15. \A k, m \in 1 .. (n + 1) : k < m => to[k][1] < to[m][1]
      <3> SUFFICES ASSUME NEW k \in 1 .. (n + 1), NEW m \in 1 .. (n + 1), k < m
                   PROVE  to[k][1] < to[m][1]
        OBVIOUS
      <3>1. k \in 1 .. n
        OBVIOUS
      <3>2. CASE m \in 1 .. n
        BY <2>9, <2>10, <3>1, <3>2
      <3>3. CASE m = n + 1
        BY <2>5, <2>9, <2>10, <3>1, <3>3
      <3> QED BY <2>11, <3>2, <3>3
    <2>16. \A q \in Words(w) : q[1] < next => \E k \in 1 .. (n + 1) : to[k] = q
      <3> SUFFICES ASSUME NEW q \in Words(w), q[1] < next
                   PROVE  \E k \in 1 .. (n + 1) : to[k] = q
        OBVIOUS
      <3>1. CASE q[1] < start
        <4>1. PICK k \in 1 .. n : at[k] = q
          BY <2>9, <3>1
        <4>2. k \in 1 .. (n + 1) /\ to[k] = q
          BY <2>10, <4>1
        <4> QED BY <4>2
      <3>2. CASE ~(q[1] < start)
        <4>1. q[1] \in start .. (next - 1)
          BY <2>8, <2>12, <3>2
        <4>2. q = p
          BY <2>3, <4>1
        <4>3. n + 1 \in 1 .. (n + 1)
          OBVIOUS
        <4> QED BY <2>10, <4>2, <4>3
      <3> QED BY <3>1, <3>2
    <2>17. Keeps(w, next, more, to)
      BY <2>7, <2>10, <2>13, <2>14, <2>15, <2>16 DEF Keeps
    <2> DEFINE r == [start |-> next, tokens |-> more]
    <2>18. r.start = next /\ r.tokens = more
      OBVIOUS
    <2> HIDE DEF r
    <2>19. Taken(w, r, n + 1)
      <3>1. Len(more) <= n + 1
        BY <2>7
      <3> QED BY <2>3, <2>7, <2>8, <2>17, <2>18, <3>1 DEF Taken
    <2> QED BY <2>1, <2>19 DEF r
  <1> QED BY <1>4, <1>5

(* f is the function Tokens computes, for the first k passes.              *)
Passes(f, line, k) ==
  f = [n \in 0 .. k |->
         IF n = 0 THEN [start |-> 1, tokens |-> <<>>]
         ELSE TakeToken(Trim(line), f[n - 1])]

LEMMA PassesExists ==
  ASSUME NEW line, NEW K \in Nat
  PROVE  \E f : Passes(f, line, K)
  <1> DEFINE first == [start |-> 1, tokens |-> <<>>]
             Bad   == {k \in 0 .. K : ~\E f : Passes(f, line, k)}
  <1>1. SUFFICES ASSUME Bad # {} PROVE FALSE
    OBVIOUS
  <1>2. Bad \subseteq Nat
    OBVIOUS
  <1>3. PICK k \in Bad : \A m \in Bad : k <= m
    <2> HIDE DEF Bad
    <2> QED BY <1>1, <1>2, LeastNumber
  <1>4. k # 0
    <2>1. Passes([i \in 0 .. 0 |-> first], line, 0)
      BY DEF Passes
    <2> QED BY <2>1
  <1>5. k - 1 \in 0 .. K /\ ~(k <= k - 1) /\ k \in 1 .. K
    BY <1>4
  <1>6. PICK f : Passes(f, line, k - 1)
    BY <1>3, <1>5
  <1> HIDE DEF first
  <1> DEFINE last == TakeToken(Trim(line), f[k - 1])
             g == [i \in 0 .. k |-> IF i = k THEN last ELSE f[i]]
  <1>7. \A i \in 0 .. k : g[i] = IF i = 0 THEN first ELSE TakeToken(Trim(line), g[i - 1])
    <2> TAKE i \in 0 .. k
    <2>1. CASE i = k
      <3>1. g[i] = last /\ g[i - 1] = f[k - 1] /\ i # 0
        BY <2>1, <1>5
      <3> QED BY <2>1, <3>1
    <2>2. CASE i # k
      <3>1. i \in 0 .. (k - 1) /\ g[i] = f[i] /\ (i # 0 => g[i - 1] = f[i - 1])
        BY <2>2, <1>5
      <3>2. f[i] = IF i = 0 THEN first ELSE TakeToken(Trim(line), f[i - 1])
        BY <1>6, <3>1 DEF Passes, first
      <3> QED BY <3>1, <3>2
    <2> QED BY <2>1, <2>2
  <1>8. Passes(g, line, k)
    <2>1. g = [i \in 0 .. k |-> IF i = 0 THEN first ELSE TakeToken(Trim(line), g[i - 1])]
      <3> DEFINE h == [i \in 0 .. k |-> IF i = 0 THEN first ELSE TakeToken(Trim(line), g[i - 1])]
      <3>1. \A i \in 0 .. k : g[i] = h[i]
        BY <1>7
      <3> QED BY <3>1
    <2> HIDE DEF g
    <2> QED BY <2>1 DEF Passes, first
  <1> QED BY <1>3, <1>8

(* Nothing is kept before the first pass: a trimmed line begins with a     *)
(* word.                                                                   *)
LEMMA NothingTaken ==
  ASSUME NEW w \in Seq(Char), Len(w) > 0 => w[1] # Blank
  PROVE  Taken(w, [start |-> 1, tokens |-> <<>>], 0)
  <1>1. Len(w) \in Nat
    BY LenProperties
  <1>2. <<>> \in Seq(Seq(Char)) /\ Len(<<>>) = 0
    BY EmptySeq
  <1>3. Keeps(w, 1, <<>>, <<>>)
    <2>1. \A p \in Words(w) : ~(p[1] < 1)
      BY <1>1, LenProperties DEF Words
    <2>2. <<>> \in [1 .. Len(<<>>) -> Words(w)]
      BY <1>2
    <2> QED BY <1>2, <2>1, <2>2 DEF Keeps
  <1> DEFINE s == [start |-> 1, tokens |-> <<>>]
  <1>4. s.start = 1 /\ s.tokens = <<>>
    OBVIOUS
  <1> HIDE DEF s
  <1>5. 1 \in 1 .. Len(w) + 1 /\ (1 <= Len(w) => w[1] # Blank)
    BY <1>1
  <1>6. Taken(w, s, 0)
    BY <1>2, <1>3, <1>4, <1>5 DEF Taken
  <1> QED BY <1>6 DEF s

(* The tokens are what is kept after MaxTokens passes.                     *)
LEMMA TokensIs ==
  ASSUME NEW line \in Seq(Char)
  PROVE  \E s : Tokens(line) = s.tokens /\ Taken(Trim(line), s, MaxTokens)
  <1> DEFINE up == CHOOSE f : Passes(f, line, MaxTokens)
             w  == Trim(line)
  <1>1. MaxTokens \in Nat
    BY LineAssumption
  <1>2. Passes(up, line, MaxTokens)
    BY <1>1, PassesExists
  <1>3. Tokens(line) = up[MaxTokens].tokens
    BY Zenon DEF Tokens, Passes
  <1> HIDE DEF up
  <1>4. w \in Seq(Char) /\ (Len(w) > 0 => w[1] # Blank)
    BY TrimTypes
  <1>5. /\ up[0] = [start |-> 1, tokens |-> <<>>]
        /\ \A n \in 1 .. MaxTokens : up[n] = TakeToken(w, up[n - 1])
    <2>1. 0 \in 0 .. MaxTokens
      BY <1>1
    <2>2. up[0] = [start |-> 1, tokens |-> <<>>]
      BY <1>2, <2>1 DEF Passes
    <2>3. ASSUME NEW n \in 1 .. MaxTokens PROVE up[n] = TakeToken(w, up[n - 1])
      <3>1. n \in 0 .. MaxTokens /\ n # 0
        BY <1>1
      <3> QED BY <1>2, <3>1 DEF Passes
    <2> QED BY <2>2, <2>3
  <1> HIDE DEF w
  <1>6. \A n \in 0 .. MaxTokens : Taken(w, up[n], n)
    <2> DEFINE Bad == {n \in 0 .. MaxTokens : ~Taken(w, up[n], n)}
    <2>1. SUFFICES ASSUME Bad # {} PROVE FALSE
      OBVIOUS
    <2>2. Bad \subseteq Nat
      BY <1>1
    <2>3. PICK n \in Bad : \A m \in Bad : n <= m
      <3> HIDE DEF Bad
      <3> QED BY <2>1, <2>2, LeastNumber
    <2>4. n # 0
      <3>1. Taken(w, up[0], 0)
        BY <1>4, <1>5, NothingTaken
      <3> QED BY <3>1
    <2>5. n - 1 \in Nat /\ n - 1 \in 0 .. MaxTokens /\ ~(n <= n - 1) /\ n - 1 + 1 = n
          /\ n \in 1 .. MaxTokens
      BY <1>1, <2>4
    <2>6. Taken(w, up[n - 1], n - 1)
      BY <2>3, <2>5
    <2> HIDE DEF Bad
    <2>7. Taken(w, TakeToken(w, up[n - 1]), n - 1 + 1)
      BY <1>4, <2>5, <2>6, TakeTokenKeeps
    <2>8. Taken(w, up[n], n)
      BY <1>5, <2>5, <2>7
    <2> QED BY <2>8 DEF Bad
  <1>7. Taken(w, up[MaxTokens], MaxTokens)
    BY <1>1, <1>6
  <1> QED BY <1>3, <1>7 DEF w

(* What the tokens of a line are: the types of a list of tokens, and that  *)
(* they are its first words.                                               *)
LEMMA TokensTypes ==
  ASSUME NEW line \in Seq(Char)
  PROVE  Tokens(line) \in Seq(Seq(Char)) /\ Len(Tokens(line)) <= MaxTokens
  BY TokensIs DEF Taken

LEMMA TokensFirst ==
  ASSUME NEW line \in Seq(Char)
  PROVE  FirstWords(Tokens(line), Trim(line))
  <1> DEFINE w    == Trim(line)
             toks == Tokens(line)
  <1>1. PICK s : toks = s.tokens /\ Taken(w, s, MaxTokens)
    BY TokensIs
  <1>2. w \in Seq(Char)
    BY TrimTypes
  <1> HIDE DEF w, toks
  <1>3. PICK at : Keeps(w, s.start, toks, at)
    BY <1>1 DEF Taken
  <1>4. toks \in Seq(Seq(Char)) /\ (s.start <= Len(w) => Len(toks) = MaxTokens)
        /\ s.start \in 1 .. Len(w) + 1
    BY <1>1 DEF Taken
  <1>5. DOMAIN toks = 1 .. Len(toks) /\ Len(w) \in Nat
    BY <1>2, <1>4, LenProperties
  <1>6. /\ at \in [1 .. Len(toks) -> Words(w)]
        /\ \A k \in 1 .. Len(toks) : toks[k] = toLowerCase(SubSeq(w, at[k][1], at[k][2]))
        /\ \A k \in 1 .. Len(toks) : at[k][1] < s.start
        /\ \A k, m \in 1 .. Len(toks) : k < m => at[k][1] < at[m][1]
        /\ \A p \in Words(w) : p[1] < s.start => \E k \in 1 .. Len(toks) : at[k] = p
    BY <1>3 DEF Keeps
  <1>7. \A p \in Words(w) : p[1] \in 1 .. Len(w)
    BY <1>2, LenProperties DEF Words
  <1>8. ASSUME NEW p \in Words(w), ~\E k \in DOMAIN toks : at[k] = p
        PROVE  Len(toks) = MaxTokens /\ \A k \in DOMAIN toks : at[k][1] < p[1]
    <2>1. ~(p[1] < s.start)
      BY <1>5, <1>6, <1>8
    <2>2. p[1] \in Nat /\ s.start \in Nat /\ s.start <= p[1] /\ p[1] <= Len(w) /\ s.start <= Len(w)
      BY <1>4, <1>5, <1>7, <2>1
    <2>3. ASSUME NEW k \in 1 .. Len(toks) PROVE at[k][1] < p[1]
      <3>1. at[k][1] \in Nat /\ at[k][1] < s.start
        BY <1>5, <1>6, <1>7
      <3> QED BY <2>2, <3>1
    <2> QED BY <1>4, <1>5, <2>2, <2>3
  <1>9. FirstWords(toks, w)
    BY <1>5, <1>6, <1>8 DEF FirstWords
  <1> QED BY <1>9 DEF w, toks

--------------------------------------------------------------------------------
(* One more character: how often the line has become too long, and how     *)
(* many characters follow the last time.                                   *)
LEMMA OneMore ==
  ASSUME NEW h \in Nat, NEW d \in Nat \ {0}
  PROVE  /\ h % d \in 0 .. (d - 1) /\ h \div d \in Nat
         /\ h % d < d - 1 => (h + 1) % d = (h % d) + 1 /\ (h + 1) \div d = h \div d
         /\ ~(h % d < d - 1) => (h + 1) % d = 0 /\ (h + 1) \div d = (h \div d) + 1
  OBVIOUS

LEMMA TailAppend ==
  ASSUME NEW T, NEW w \in Seq(T), NEW c \in T, NEW a \in 1 .. Len(w) + 1
  PROVE  SubSeq(Append(w, c), a, Len(w) + 1) = Append(SubSeq(w, a, Len(w)), c)
  <1> DEFINE v == Append(w, c)
             l == SubSeq(v, a, Len(w) + 1)
             t == SubSeq(w, a, Len(w))
             r == Append(t, c)
  <1>1. /\ v \in Seq(T) /\ Len(v) = Len(w) + 1 /\ Len(w) \in Nat
        /\ v[Len(w) + 1] = c /\ \A i \in 1 .. Len(w) : v[i] = w[i]
    BY AppendProperties, LenProperties
  <1> DEFINE n == Len(w)
  <1> HIDE DEF v
  <1>2. /\ l \in Seq(T) /\ Len(l) = n + 1 - a + 1
        /\ \A i \in 1 .. (n + 1 - a + 1) : l[i] = v[a + i - 1]
    <2>1. a \in 1 .. Len(v) + 1 /\ n + 1 \in (a - 1) .. Len(v)
      BY <1>1
    <2> QED BY <1>1, <2>1, SubSeqTypes
  <1>3. /\ t \in Seq(T) /\ Len(t) = n - a + 1
        /\ \A i \in 1 .. (n - a + 1) : t[i] = w[a + i - 1]
    <2>1. n \in (a - 1) .. n
      BY <1>1
    <2> QED BY <1>1, <2>1, SubSeqTypes
  <1> HIDE DEF l, t
  <1>4. /\ r \in Seq(T) /\ Len(r) = Len(t) + 1
        /\ r[Len(t) + 1] = c /\ \A i \in 1 .. Len(t) : r[i] = t[i]
    BY <1>3, AppendProperties
  <1> HIDE DEF r
  <1>5. Len(r) = Len(l)
    BY <1>1, <1>2, <1>3, <1>4
  <1>6. ASSUME NEW i \in 1 .. Len(l) PROVE l[i] = r[i]
    <2>1. l[i] = v[a + i - 1] /\ i \in Nat
      BY <1>1, <1>2
    <2>2. CASE i \in 1 .. Len(t)
      <3>1. r[i] = w[a + i - 1]
        BY <1>3, <1>4, <2>2
      <3>2. a + i - 1 \in 1 .. Len(w)
        <4>1. /\ a \in Nat /\ i \in Nat /\ Len(w) \in Nat /\ 1 <= a /\ 1 <= i
              /\ i <= Len(w) - a + 1
          BY <1>1, <1>3, <2>1, <2>2
        <4> QED BY <4>1
      <3> QED BY <1>1, <2>1, <3>1, <3>2
    <2>3. CASE i = Len(t) + 1
      <3>1. a + i - 1 = Len(w) + 1
        BY <1>1, <1>3, <2>3
      <3> QED BY <1>1, <1>4, <2>1, <2>3, <3>1
    <2>4. i \in 1 .. Len(t) \/ i = Len(t) + 1
      BY <1>1, <1>2, <1>3
    <2> QED BY <2>2, <2>3, <2>4
  <1>7. l = r
    BY <1>2, <1>4, <1>5, <1>6, SeqEqual
  <1> QED BY <1>7 DEF l, r, v, t

LEMMA LastAppend ==
  ASSUME NEW T, NEW w \in Seq(T), NEW c \in T, NEW n \in 0 .. Len(w)
  PROVE  LastOf(Append(w, c), n + 1) = Append(LastOf(w, n), c)
  <1>1. Len(w) \in Nat /\ Len(Append(w, c)) = Len(w) + 1
    BY LenProperties, AppendProperties
  <1> DEFINE a == Len(w) - n + 1
  <1>2. a \in 1 .. Len(w) + 1 /\ Len(w) + 1 - (n + 1) + 1 = a
    BY <1>1
  <1>3. LastOf(w, n) = SubSeq(w, a, Len(w))
    BY DEF LastOf
  <1>4. LastOf(Append(w, c), n + 1) = SubSeq(Append(w, c), Len(w) + 1 - (n + 1) + 1, Len(w) + 1)
    BY <1>1 DEF LastOf
  <1>5. LastOf(Append(w, c), n + 1) = SubSeq(Append(w, c), a, Len(w) + 1)
    BY <1>2, <1>4
  <1> HIDE DEF a
  <1>6. SubSeq(Append(w, c), a, Len(w) + 1) = Append(SubSeq(w, a, Len(w)), c)
    BY <1>2, TailAppend
  <1> QED BY <1>3, <1>5, <1>6

LEMMA LastOfLen ==
  ASSUME NEW T, NEW w \in Seq(T), NEW n \in 0 .. Len(w)
  PROVE  LastOf(w, n) \in Seq(T) /\ Len(LastOf(w, n)) = n
  <1> DEFINE a == Len(w) - n + 1
  <1>1. Len(w) \in Nat
    BY LenProperties
  <1>2. a \in 1 .. Len(w) + 1 /\ Len(w) \in (a - 1) .. Len(w) /\ Len(w) - a + 1 = n
    BY <1>1
  <1>3. LastOf(w, n) = SubSeq(w, a, Len(w))
    BY DEF LastOf
  <1> HIDE DEF a
  <1> QED BY <1>2, <1>3, SubSeqTypes

LEMMA LastOfNone ==
  ASSUME NEW T, NEW w \in Seq(T)
  PROVE  LastOf(w, 0) = <<>>
  <1>1. Len(w) \in Nat /\ Len(w) - 0 + 1 = Len(w) + 1
    BY LenProperties
  <1>2. SubSeq(w, Len(w) + 1, Len(w)) = <<>>
    BY <1>1, SubSeqEmpty
  <1> QED BY <1>1, <1>2 DEF LastOf

LEMMA LastOfAll ==
  ASSUME NEW T, NEW w \in Seq(T)
  PROVE  LastOf(w, Len(w)) = w
  <1>1. Len(w) \in Nat /\ Len(w) - Len(w) + 1 = 1
    BY LenProperties
  <1>2. SubSeq(w, 1, Len(w)) = w
    BY SubSeqFull
  <1> QED BY <1>1, <1>2 DEF LastOf

--------------------------------------------------------------------------------
(* What of the line the sketch has read in loop().                         *)
Heard == Stored(SubSeq(sent, lost + 1, Len(sent)))

(* Before loop() runs everything has been lost.                            *)
NothingRead == pc = "setup" => buffer = <<>> /\ errors = 0 /\ lost = Len(sent)

(* While processCommand runs, the tokens are those of the buffer.          *)
Tokenized   == pc = "process" => tokens = Tokens(buffer)

IInv == TypeOK /\ NothingRead /\ Tokenized /\ BufferIsTail

LEMMA TailIs ==
  BufferIsTail <=> /\ buffer = LastOf(Heard, Len(Heard) % (MaxLine + 1))
                   /\ errors = Len(Heard) \div (MaxLine + 1)
  BY DEF BufferIsTail, Heard

LEMMA HeardTypes ==
  ASSUME TypeOK
  PROVE  /\ Heard \in Seq(Char) /\ Len(Heard) \in Nat
         /\ Len(Heard) % (MaxLine + 1) \in 0 .. Len(Heard)
  <1>1. /\ sent \in Seq(Char \cup {Return}) /\ Len(sent) \in Nat /\ lost \in 0 .. Len(sent)
        /\ MaxLine + 1 \in Nat \ {0}
    BY LenProperties, LineAssumption DEF TypeOK
  <1>2. lost + 1 \in 1 .. Len(sent) + 1 /\ Len(sent) \in (lost + 1 - 1) .. Len(sent)
    BY <1>1
  <1>3. SubSeq(sent, lost + 1, Len(sent)) \in Seq(Char \cup {Return})
    BY <1>1, <1>2, SubSeqTypes
  <1>4. Heard \in Seq(Char)
    BY <1>3, StoredIs DEF Heard
  <1>5. Len(Heard) \in Nat
    BY <1>4, LenProperties
  <1>6. \A h \in Nat, d \in Nat \ {0} : h % d \in 0 .. h
    OBVIOUS
  <1> QED BY <1>1, <1>4, <1>5, <1>6

(* Nothing has been read of a line that is all lost, or has just begun.    *)
Unheard ==
  sent \in Seq(Char \cup {Return}) /\ lost = Len(sent) /\ buffer = <<>> /\ errors = 0

LEMMA NothingHeard == Unheard => BufferIsTail
  <1> SUFFICES ASSUME Unheard PROVE BufferIsTail
    OBVIOUS
  <1> USE DEF Unheard
  <1>1. Len(sent) \in Nat
    BY LenProperties
  <1>2. SubSeq(sent, lost + 1, Len(sent)) = <<>>
    BY <1>1, SubSeqEmpty
  <1>3. Heard = <<>>
    BY <1>2, StoredEmpty DEF Heard
  <1>4. <<>> \in Seq(Char) /\ Len(<<>>) = 0
    BY EmptySeq
  <1>5. 0 % (MaxLine + 1) = 0 /\ 0 \div (MaxLine + 1) = 0
    BY LineAssumption
  <1>6. LastOf(<<>>, 0) = <<>>
    BY <1>4, LastOfNone
  <1> QED BY <1>3, <1>4, <1>5, <1>6, TailIs

LEMMA NothingHeardNext == Unheard' => BufferIsTail'
  BY NothingHeard, PTL

LEMMA HeardNext ==
  ASSUME TypeOK, NEW c \in Char \cup {Return}, sent' = Append(sent, c), lost' = lost
  PROVE  Heard' = IF c = Return THEN Heard ELSE Append(Heard, c)
  <1>1. /\ sent \in Seq(Char \cup {Return}) /\ Len(sent) \in Nat /\ lost \in 0 .. Len(sent)
    BY LenProperties DEF TypeOK
  <1>2. lost + 1 \in 1 .. Len(sent) + 1 /\ Len(sent) \in (lost + 1 - 1) .. Len(sent)
    BY <1>1
  <1> DEFINE a == lost + 1
             read == SubSeq(sent, a, Len(sent))
  <1>3. read \in Seq(Char \cup {Return})
    BY <1>1, <1>2, SubSeqTypes
  <1>4. SubSeq(Append(sent, c), a, Len(sent) + 1) = Append(read, c)
    <2> HIDE DEF a
    <2>1. a \in 1 .. Len(sent) + 1
      BY <1>2 DEF a
    <2> QED BY <1>1, <2>1, TailAppend
  <1>5. Len(sent') = Len(sent) + 1
    BY <1>1, AppendProperties
  <1>6. Heard' = Stored(Append(read, c))
    BY <1>4, <1>5 DEF Heard
  <1>7. Heard = Stored(read)
    BY DEF Heard
  <1> HIDE DEF read
  <1> QED BY <1>3, <1>6, <1>7, StoredAppend

(* A character that is stored is one more of the tail.                     *)
LEMMA StoreTail ==
  ASSUME TypeOK, BufferIsTail, NEW c \in Char, Store(c)
  PROVE  BufferIsTail'
  <1> DEFINE d == MaxLine + 1
             h == Len(Heard)
  <1>1. d \in Nat \ {0} /\ d - 1 = MaxLine /\ MaxLine \in Nat
    BY LineAssumption
  <1>2. Heard \in Seq(Char) /\ h \in Nat /\ h % d \in 0 .. h
    BY HeardTypes
  <1>3. buffer = LastOf(Heard, h % d) /\ errors = h \div d
    BY TailIs
  <1>4. Heard' = Append(Heard, c)
    <2>1. c # Return /\ c \in Char \cup {Return}
      BY CharIs
    <2> QED BY <2>1, HeardNext DEF Store, Sends
  <1>5. Len(Heard') = h + 1
    BY <1>2, <1>4, AppendProperties
  <1> DEFINE n == h % d
  <1>6. Len(buffer) = n
    <2> HIDE DEF n
    <2>1. n \in 0 .. Len(Heard)
      BY <1>2 DEF n
    <2>2. Len(LastOf(Heard, n)) = n
      BY <1>2, <2>1, LastOfLen
    <2> QED BY <1>3, <2>2 DEF n
  <1> HIDE DEF h
  <1>7. CASE Len(buffer) < MaxLine
    <2>1. buffer' = Append(buffer, c) /\ errors' = errors
      BY <1>7 DEF Store
    <2>2. (h + 1) % d = (h % d) + 1 /\ (h + 1) \div d = h \div d
      <3> HIDE DEF d
      <3> QED BY <1>1, <1>2, <1>6, <1>7, OneMore
    <2>3. LastOf(Append(Heard, c), (h % d) + 1) = Append(LastOf(Heard, h % d), c)
      <3>1. h % d \in 0 .. Len(Heard)
        BY <1>2 DEF h
      <3> HIDE DEF n
      <3>2. n \in 0 .. Len(Heard)
        BY <3>1 DEF n
      <3>3. LastOf(Append(Heard, c), n + 1) = Append(LastOf(Heard, n), c)
        BY <1>2, <3>2, LastAppend
      <3> QED BY <3>3 DEF n
    <2>4. buffer' = LastOf(Heard', Len(Heard') % d) /\ errors' = Len(Heard') \div d
      BY <1>3, <1>4, <1>5, <2>1, <2>2, <2>3
    <2> QED BY <2>4 DEF BufferIsTail, Heard
  <1>8. CASE ~(Len(buffer) < MaxLine)
    <2>1. buffer' = <<>> /\ errors' = errors + 1
      BY <1>8 DEF Store
    <2>2. (h + 1) % d = 0 /\ (h + 1) \div d = (h \div d) + 1
      <3> HIDE DEF d
      <3> QED BY <1>1, <1>2, <1>6, <1>8, OneMore
    <2>3. LastOf(Append(Heard, c), 0) = <<>>
      <3>1. Append(Heard, c) \in Seq(Char)
        BY <1>2, AppendProperties
      <3> QED BY <3>1, LastOfNone
    <2>4. buffer' = LastOf(Heard', Len(Heard') % d) /\ errors' = Len(Heard') \div d
      BY <1>3, <1>4, <1>5, <2>1, <2>2, <2>3
    <2> QED BY <2>4 DEF BufferIsTail, Heard
  <1> QED BY <1>7, <1>8

--------------------------------------------------------------------------------
LEMMA InitIInv == Init => IInv
  <1> SUFFICES ASSUME Init PROVE IInv
    OBVIOUS
  <1>1. \A S : <<>> \in Seq(S)
    BY EmptySeq
  <1>2. Len(<<>>) = 0
    BY EmptySeq
  <1>3. TypeOK
    BY <1>1, <1>2, LineAssumption DEF TypeOK, Init
  <1>4. BufferIsTail
    BY <1>1, <1>2, NothingHeard DEF Init, Unheard
  <1>5. NothingRead /\ Tokenized
    BY <1>2 DEF NothingRead, Tokenized, Init
  <1> QED BY <1>3, <1>4, <1>5 DEF IInv

(* The line is over: nothing of the next one has been read.                *)
LEMMA FreshLine ==
  ASSUME Newline, buffer' = <<>>, tokens' = <<>>, pc' \in {"setup", "loop"}
  PROVE  IInv'
  <1>1. \A S : <<>> \in Seq(S)
    BY EmptySeq
  <1>2. Len(<<>>) = 0
    BY EmptySeq
  <1>3. sent' = <<>> /\ lost' = 0 /\ errors' = 0
    BY DEF Newline
  <1>4. TypeOK'
    BY <1>1, <1>2, <1>3, LineAssumption DEF TypeOK
  <1>5. BufferIsTail'
    BY <1>1, <1>2, <1>3, NothingHeardNext DEF Unheard
  <1>6. NothingRead' /\ Tokenized'
    BY <1>2, <1>3 DEF NothingRead, Tokenized
  <1> QED BY <1>4, <1>5, <1>6 DEF IInv

LEMMA NextIInv == IInv /\ [Next]_vars => IInv'
  <1> SUFFICES ASSUME IInv, [Next]_vars PROVE IInv'
    OBVIOUS
  <1> USE DEF IInv
  <1>1. /\ pc \in {"setup", "loop", "process"}
        /\ buffer \in Seq(Char) /\ Len(buffer) <= MaxLine /\ Len(buffer) \in Nat
        /\ tokens \in Seq(Seq(Char)) /\ Len(tokens) <= MaxTokens
        /\ errors \in Nat /\ sent \in Seq(Char \cup {Return})
        /\ Len(sent) \in Nat /\ lost \in 0 .. Len(sent)
    BY LenProperties DEF TypeOK
  <1>2. \A c \in Char \cup {Return} :
          Append(sent, c) \in Seq(Char \cup {Return}) /\ Len(Append(sent, c)) = Len(sent) + 1
    BY <1>1, AppendProperties
  <1>3. <<>> \in Seq(Char) /\ <<>> \in Seq(Seq(Char)) /\ Len(<<>>) = 0
        /\ MaxLine \in Nat /\ MaxTokens \in Nat
    BY EmptySeq, LineAssumption
  <1>4. ASSUME NEW c \in Char, Store(c) PROVE IInv'
    <2>1. Append(buffer, c) \in Seq(Char) /\ Len(Append(buffer, c)) = Len(buffer) + 1
      BY <1>1, AppendProperties
    <2>2. /\ pc' = pc /\ pc = "loop" /\ tokens' = tokens /\ lost' = lost /\ sent' = Append(sent, c)
          /\ errors' = errors \/ errors' = errors + 1
          /\ buffer' = <<>> \/ (Len(buffer) < MaxLine /\ buffer' = Append(buffer, c))
      BY <1>4 DEF Store, Sends
    <2>3. buffer' \in Seq(Char) /\ Len(buffer') <= MaxLine
      <3>1. CASE buffer' = <<>>
        BY <1>3, <3>1
      <3>2. CASE Len(buffer) < MaxLine /\ buffer' = Append(buffer, c)
        <4>1. Len(buffer) + 1 <= MaxLine
          BY <1>1, <1>3, <3>2
        <4> QED BY <2>1, <3>2, <4>1
      <3> QED BY <2>2, <3>1, <3>2
    <2>4. sent' \in Seq(Char \cup {Return}) /\ lost' \in 0 .. Len(sent') /\ errors' \in Nat
      BY <1>1, <1>2, <2>2
    <2>5. TypeOK'
      BY <1>1, <2>2, <2>3, <2>4 DEF TypeOK
    <2>6. BufferIsTail'
      BY <1>4, StoreTail
    <2>7. NothingRead' /\ Tokenized'
      BY <2>2 DEF NothingRead, Tokenized
    <2> QED BY <2>5, <2>6, <2>7
  <1>5. CASE CarriageReturn
    <2>1. /\ pc' = pc /\ pc = "loop" /\ buffer' = buffer /\ tokens' = tokens
          /\ errors' = errors /\ lost' = lost /\ sent' = Append(sent, Return)
      BY <1>5 DEF CarriageReturn, Sends
    <2>2. sent' \in Seq(Char \cup {Return}) /\ lost' \in 0 .. Len(sent')
      BY <1>1, <1>2, <2>1
    <2>3. TypeOK'
      BY <1>1, <2>1, <2>2 DEF TypeOK
    <2>4. Heard' = Heard
      BY <2>1, HeardNext
    <2>5. BufferIsTail'
      BY <2>1, <2>4 DEF BufferIsTail, Heard
    <2>6. NothingRead' /\ Tokenized'
      BY <2>1 DEF NothingRead, Tokenized
    <2> QED BY <2>3, <2>5, <2>6
  <1>6. CASE EmptyLine
    <2>1. pc' = "loop" /\ buffer' = <<>> /\ tokens' = tokens /\ Newline
      BY <1>6 DEF EmptyLine
    <2>2. sent' = <<>> /\ lost' = 0 /\ errors' = 0
      BY <2>1 DEF Newline
    <2>3. <<>> \in Seq(Char \cup {Return})
      BY EmptySeq
    <2>4. TypeOK'
      BY <1>1, <1>3, <2>1, <2>2, <2>3 DEF TypeOK
    <2>5. BufferIsTail'
      BY <1>3, <2>1, <2>2, <2>3, NothingHeardNext DEF Unheard
    <2>6. NothingRead' /\ Tokenized'
      BY <2>1 DEF NothingRead, Tokenized
    <2> QED BY <2>4, <2>5, <2>6
  <1>7. CASE EndLine
    <2>1. /\ pc' = "process" /\ tokens' = Tokens(buffer) /\ buffer' = buffer
          /\ errors' = errors /\ sent' = sent /\ lost' = lost
      BY <1>7 DEF EndLine
    <2>2. Tokens(buffer) \in Seq(Seq(Char)) /\ Len(Tokens(buffer)) <= MaxTokens
      BY <1>1, TokensTypes
    <2>3. TypeOK'
      BY <1>1, <2>1, <2>2 DEF TypeOK
    <2>4. BufferIsTail'
      BY <2>1 DEF BufferIsTail
    <2>5. NothingRead' /\ Tokenized'
      BY <2>1 DEF NothingRead, Tokenized
    <2> QED BY <2>3, <2>4, <2>5
  <1>8. CASE Processed
    BY <1>8, FreshLine DEF Processed
  <1>9. ASSUME NEW c \in Char \cup {Return}, Discard(c) PROVE IInv'
    <2>1. /\ pc' = pc /\ pc = "setup" /\ buffer' = buffer /\ tokens' = tokens
          /\ errors' = errors /\ lost' = Len(sent') /\ sent' = Append(sent, c)
      BY <1>9 DEF Discard, Sends
    <2>2. buffer = <<>> /\ errors = 0
      BY <2>1 DEF NothingRead
    <2>3. sent' \in Seq(Char \cup {Return}) /\ lost' \in 0 .. Len(sent')
      BY <1>1, <1>2, <2>1
    <2>4. TypeOK'
      BY <1>1, <2>1, <2>3 DEF TypeOK
    <2>5. BufferIsTail'
      BY <2>1, <2>2, <2>3, NothingHeardNext DEF Unheard
    <2>6. NothingRead' /\ Tokenized'
      BY <2>1, <2>2 DEF NothingRead, Tokenized
    <2> QED BY <2>4, <2>5, <2>6
  <1>10. CASE DiscardNewline
    <2>1. pc' = "setup" /\ buffer' = <<>> /\ tokens' = tokens /\ Newline
      BY <1>10 DEF DiscardNewline, NothingRead
    <2>2. sent' = <<>> /\ lost' = 0 /\ errors' = 0
      BY <2>1 DEF Newline
    <2>3. <<>> \in Seq(Char \cup {Return})
      BY EmptySeq
    <2>4. TypeOK'
      BY <1>1, <1>3, <2>1, <2>2, <2>3 DEF TypeOK
    <2>5. BufferIsTail'
      BY <1>3, <2>1, <2>2, <2>3, NothingHeardNext DEF Unheard
    <2>6. NothingRead' /\ Tokenized'
      BY <1>3, <2>1, <2>2 DEF NothingRead, Tokenized
    <2> QED BY <2>4, <2>5, <2>6
  <1>11. CASE SetupFinish
    <2>1. /\ pc' = "loop" /\ buffer' = buffer /\ tokens' = tokens
          /\ errors' = errors /\ sent' = sent /\ lost' = lost
      BY <1>11 DEF SetupFinish
    <2>2. TypeOK'
      BY <1>1, <2>1 DEF TypeOK
    <2>3. BufferIsTail'
      BY <2>1 DEF BufferIsTail
    <2>4. NothingRead' /\ Tokenized'
      BY <2>1 DEF NothingRead, Tokenized
    <2> QED BY <2>2, <2>3, <2>4
  <1>12. CASE Reset
    <2>1. CASE pc = "process"
      <3>1. Newline /\ buffer' = <<>> /\ tokens' = <<>> /\ pc' = "setup"
        BY <1>12, <2>1 DEF Reset
      <3> QED BY <3>1, FreshLine
    <2>2. CASE pc # "process"
      <3>1. /\ pc' = "setup" /\ buffer' = <<>> /\ tokens' = <<>>
            /\ errors' = 0 /\ lost' = Len(sent) /\ sent' = sent
        BY <1>12, <2>2 DEF Reset
      <3>2. TypeOK'
        BY <1>1, <1>3, <3>1 DEF TypeOK
      <3>3. BufferIsTail'
        BY <1>1, <3>1, NothingHeardNext DEF Unheard
      <3>4. NothingRead' /\ Tokenized'
        BY <3>1 DEF NothingRead, Tokenized
      <3> QED BY <3>2, <3>3, <3>4
    <2> QED BY <2>1, <2>2
  <1>13. CASE UNCHANGED vars
    <2>1. /\ pc' = pc /\ buffer' = buffer /\ tokens' = tokens
          /\ errors' = errors /\ sent' = sent /\ lost' = lost
      BY <1>13 DEF vars
    <2> QED BY <2>1 DEF TypeOK, NothingRead, Tokenized, BufferIsTail
  <1> QED BY <1>4, <1>5, <1>6, <1>7, <1>8, <1>9, <1>10, <1>11, <1>12, <1>13 DEF Next

(* The buffer never holds more than MaxLine characters, whatever the host  *)
(* sends and whenever the board is reset, and processCommand never keeps   *)
(* more than MaxTokens tokens.                                             *)
THEOREM LineTypes == Spec => []TypeOK
  <1>1. IInv => TypeOK
    BY DEF IInv
  <1> QED BY InitIInv, NextIInv, <1>1, PTL DEF Spec

(* g_commandBuffer is a tail of what the host has sent since its newline:  *)
(* all of it, unless setup() read it, a reset lost it or the line became   *)
(* too long, and the errors say how often that has happened.               *)
THEOREM BufferHoldsTail == Spec => []BufferIsTail
  <1>1. IInv => BufferIsTail
    BY DEF IInv
  <1> QED BY InitIInv, NextIInv, <1>1, PTL DEF Spec

(* A line that fits and was read from its start reaches processCommand     *)
(* word for word.                                                          *)
THEOREM TokensAreFirstWords == Spec => []TokensAreWords
  <1>1. IInv => TokensAreWords
    <2> SUFFICES ASSUME IInv, pc = "process", lost = 0, Len(Stored(sent)) <= MaxLine
                 PROVE  FirstWords(tokens, Trim(Stored(sent)))
      BY DEF TokensAreWords
    <2>1. sent \in Seq(Char \cup {Return}) /\ buffer \in Seq(Char)
      BY DEF IInv, TypeOK
    <2>2. SubSeq(sent, lost + 1, Len(sent)) = sent
      <3>1. lost + 1 = 1
        OBVIOUS
      <3> QED BY <2>1, <3>1, SubSeqFull
    <2>3. Heard = Stored(sent)
      BY <2>2 DEF Heard
    <2>4. Heard \in Seq(Char) /\ Len(Heard) \in Nat
      BY HeardTypes DEF IInv
    <2>5. Len(Heard) % (MaxLine + 1) = Len(Heard)
      <3>1. \A h, m \in Nat : h <= m => h % (m + 1) = h
        OBVIOUS
      <3> QED BY <2>3, <2>4, <3>1, LineAssumption
    <2>6. buffer = Heard
      BY <2>4, <2>5, LastOfAll, TailIs DEF IInv
    <2>7. tokens = Tokens(buffer)
      BY DEF IInv, Tokenized
    <2> QED BY <2>1, <2>3, <2>6, <2>7, TokensFirst
  <1> QED BY InitIInv, NextIInv, <1>1, PTL DEF Spec
================================================================================
