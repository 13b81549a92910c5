---------------------------- MODULE Undo_proofs -----------------------------
(***************************************************************************)
(* Proofs about the undo engine, for any characters and strings, and texts *)
(* and logs of any size. The conditions under which a theorem holds are    *)
(* named (WithinLimits, SinceSave, NoRedo, WholeCommands); README.md says  *)
(* what TLC finds without each of them.                                    *)
(***************************************************************************)
EXTENDS Undo, TLAPS, SequenceTheorems, FiniteSetTheorems, WellFoundedInduction

-----------------------------------------------------------------------------
(***************************************************************************)
(* Texts, and what an insertion and a deletion do to them.                 *)
(***************************************************************************)

(* The texts of a buffer: every line ends in a newline (line.c).           *)
Text == {t \in Seq(Char) : t # <<>> => t[Len(t)] = NL}

(* A newline is a character.                                               *)
LEMMA NewlineIsChar == NL \in Char
  BY DEF Char, Blank

(* llinepad adds a newline to a cursor below the last line, and nothing    *)
(* else.                                                                   *)
LEMMA PaddedShape ==
  ASSUME NEW t \in Text, NEW p \in 0..Len(t)
  PROVE  /\ Padded(t, p) \in Text
         /\ Len(Padded(t, p)) = IF p = Len(t) THEN Len(t) + 1 ELSE Len(t)
         /\ \A i \in 1..Len(t) : Padded(t, p)[i] = t[i]
         /\ p = Len(t) => Padded(t, p)[p + 1] = NL
         /\ p < Len(t) => Padded(t, p) = t
  <1>1. t \in Seq(Char) /\ Len(t) \in Nat
    BY LenProperties DEF Text
  <1>2. CASE p < Len(t)
    BY <1>1, <1>2 DEF Padded
  <1>3. CASE p = Len(t)
    <2>1. Padded(t, p) = Append(t, NL)
      BY <1>3 DEF Padded
    <2>2. /\ Append(t, NL) \in Seq(Char)
          /\ Len(Append(t, NL)) = Len(t) + 1
          /\ \A i \in 1..Len(t) : Append(t, NL)[i] = t[i]
          /\ Append(t, NL)[Len(t) + 1] = NL
      BY <1>1, NewlineIsChar, AppendProperties
    <2>3. Padded(t, p) \in Text
      BY <1>1, <2>1, <2>2 DEF Text
    <2> QED
      BY <1>1, <1>3, <2>1, <2>2, <2>3
  <1> QED
    BY <1>1, <1>2, <1>3

(* The sequence c is a, s and b, one after the other.                      *)
IsJoin(c, a, s, b) ==
  /\ c \in Seq(Char)
  /\ Len(c) = Len(a) + Len(s) + Len(b)
  /\ \A i \in 1..Len(c) :
       c[i] = IF i <= Len(a) THEN a[i]
              ELSE IF i <= Len(a) + Len(s) THEN s[i - Len(a)]
              ELSE b[i - (Len(a) + Len(s))]

(* Two concatenations, by positions.                                       *)
LEMMA Joined ==
  ASSUME NEW a \in Seq(Char), NEW s \in Seq(Char), NEW b \in Seq(Char)
  PROVE  IsJoin((a \o s) \o b, a, s, b)
  <1>1. Len(a) \in Nat /\ Len(s) \in Nat /\ Len(b) \in Nat
    BY LenProperties
  <1> DEFINE d == a \o s
             c == d \o b
  <1>2. /\ d \in Seq(Char) /\ Len(d) = Len(a) + Len(s)
        /\ \A i \in 1..Len(a) + Len(s) :
             d[i] = IF i <= Len(a) THEN a[i] ELSE s[i - Len(a)]
    BY ConcatProperties
  <1> HIDE DEF d
  <1>3. d \in Seq(Char)
    BY <1>2
  <1>4. /\ c \in Seq(Char) /\ Len(c) = Len(d) + Len(b)
        /\ \A i \in 1..Len(d) + Len(b) :
             c[i] = IF i <= Len(d) THEN d[i] ELSE b[i - Len(d)]
    BY <1>3, ConcatProperties
  <1> HIDE DEF c
  <1>5. ASSUME NEW i \in 1..Len(c)
        PROVE  c[i] = IF i <= Len(a) THEN a[i]
                      ELSE IF i <= Len(a) + Len(s) THEN s[i - Len(a)]
                      ELSE b[i - (Len(a) + Len(s))]
    <2>1. i \in Nat /\ i > 0 /\ i <= Len(d) + Len(b) /\ i \in 1..Len(d) + Len(b)
      BY <1>1, <1>2, <1>4
    <2>2. CASE i <= Len(d)
      BY <1>1, <1>2, <1>4, <2>1, <2>2
    <2>3. CASE ~(i <= Len(d))
      BY <1>1, <1>2, <1>4, <2>1, <2>3
    <2> QED
      BY <2>2, <2>3, Zenon
  <1>6. IsJoin(c, a, s, b)
    BY <1>1, <1>2, <1>4, <1>5 DEF IsJoin
  <1> QED
    BY <1>6 DEF c, d

(* linserts by positions: the characters before the cursor, the string,    *)
(* the rest of the text, padded if the cursor is below it.                 *)
LEMMA PasteShape ==
  ASSUME NEW t \in Text, NEW p \in 0..Len(t), NEW s \in Seq(Char), s # <<>>
  PROVE  /\ Paste(t, p, s) \in Text
         /\ Len(Paste(t, p, s)) = Len(Padded(t, p)) + Len(s)
         /\ \A i \in 1..Len(Paste(t, p, s)) :
               Paste(t, p, s)[i] = IF i <= p THEN t[i]
                                   ELSE IF i <= p + Len(s) THEN s[i - p]
                                   ELSE Padded(t, p)[i - Len(s)]
  <1> DEFINE T == Padded(t, p)
             a == SubSeq(t, 1, p)
             b == SubSeq(T, p + 1, Len(T))
  <1>1. /\ t \in Seq(Char) /\ Len(t) \in Nat /\ p \in Nat /\ p \in Int /\ p <= Len(t)
        /\ T \in Seq(Char) /\ Len(T) \in Nat /\ p < Len(T)
        /\ T # <<>> /\ T[Len(T)] = NL
        /\ Len(s) \in Nat /\ Len(s) > 0
    <2>1. T \in Text /\ Len(T) = IF p = Len(t) THEN Len(t) + 1 ELSE Len(t)
      BY PaddedShape
    <2>2. /\ t \in Seq(Char) /\ Len(t) \in Nat /\ p \in Nat /\ p <= Len(t)
          /\ T \in Seq(Char) /\ p < Len(T)
      BY <2>1, LenProperties DEF Text
    <2>3. T # <<>>
      BY <2>2, EmptySeq
    <2> QED
      BY <2>1, <2>2, <2>3, LenProperties, EmptySeq DEF Text
  <1>2. /\ a \in Seq(Char) /\ Len(a) = p
        /\ \A i \in 1..p : a[i] = t[i]
    <2>1. \A i \in 1..p : t[i] \in Char
      BY <1>1, ElementOfSeq
    <2> QED
      BY <1>1, <2>1, SubSeqProperties
  <1>3. /\ b \in Seq(Char) /\ Len(b) = Len(T) - p
        /\ \A i \in 1..Len(T) - p : b[i] = T[p + i]
    <2>1. \A i \in p + 1 .. Len(T) : T[i] \in Char
      BY <1>1, ElementOfSeq
    <2>2. /\ b \in Seq(Char) /\ Len(b) = Len(T) - (p + 1) + 1
          /\ \A i \in 1..Len(T) - (p + 1) + 1 : b[i] = T[(p + 1) + i - 1]
      BY <1>1, <2>1, SubSeqProperties
    <2> QED
      BY <1>1, <2>2
  <1>4. Paste(t, p, s) = (a \o s) \o b
    BY DEF Paste
  <1> HIDE DEF T, a, b
  <1>5. IsJoin(Paste(t, p, s), a, s, b)
    BY <1>2, <1>3, <1>4, Joined
  <1>6. Len(Paste(t, p, s)) = Len(T) + Len(s)
    BY <1>1, <1>2, <1>3, <1>5 DEF IsJoin
  <1>7. \A i \in 1..Len(T) + Len(s) :
               Paste(t, p, s)[i] = IF i <= p THEN t[i]
                                   ELSE IF i <= p + Len(s) THEN s[i - p]
                                   ELSE T[i - Len(s)]
    <2> TAKE i \in 1..Len(T) + Len(s)
    <2>1. Paste(t, p, s)[i] = IF i <= p THEN a[i]
                              ELSE IF i <= p + Len(s) THEN s[i - p]
                              ELSE b[i - (p + Len(s))]
      BY <1>1, <1>2, <1>3, <1>5 DEF IsJoin
    <2>2. CASE i <= p + Len(s)
      BY <1>1, <1>2, <2>1, <2>2
    <2>3. CASE i > p + Len(s)
      <3>1. /\ i - (p + Len(s)) \in 1..Len(T) - p
            /\ p + (i - (p + Len(s))) = i - Len(s)
        BY <1>1, <2>3
      <3> QED
        BY <1>1, <1>3, <2>1, <2>3, <3>1
    <2> QED
      BY <1>1, <2>2, <2>3
  <1>8. Paste(t, p, s)[Len(Paste(t, p, s))] = NL
    BY <1>1, <1>6, <1>7
  <1> QED
    BY <1>5, <1>6, <1>7, <1>8 DEF T, Text, IsJoin

(* How many of n characters ldeletedot removes: the end of the last line   *)
(* stays unless the whole line goes.                                       *)
Gone(t, p, n) == IF p + n = Len(t) /\ p # 0 /\ t[p] # NL THEN n - 1 ELSE n

(* ldeletedot by positions, for any deletion within the text.              *)
LEMMA CutShape ==
  ASSUME NEW t \in Text, NEW p \in Nat, NEW n \in Nat, p + n <= Len(t)
  PROVE  /\ Gone(t, p, n) \in 0..n
         /\ p + n < Len(t) => Gone(t, p, n) = n
         /\ Cut(t, p, n) \in Text
         /\ Len(Cut(t, p, n)) = Len(t) - Gone(t, p, n)
         /\ \A i \in 1..Len(Cut(t, p, n)) :
               Cut(t, p, n)[i] = IF i <= p THEN t[i] ELSE t[i + Gone(t, p, n)]
  <1> DEFINE m == Gone(t, p, n)
             a == SubSeq(t, 1, p)
             b == SubSeq(t, p + m + 1, Len(t))
             c == Cut(t, p, n)
  <1>1. t \in Seq(Char) /\ Len(t) \in Nat /\ p <= Len(t) /\ (t # <<>> => t[Len(t)] = NL)
    BY LenProperties DEF Text
  <1>2. /\ m \in 0..n
        /\ p + n < Len(t) => m = n
        /\ m # n => p + n = Len(t) /\ m = n - 1
        /\ p + m = Len(t) => p = 0 \/ t[p] = NL
    <2>1. CASE p + n = Len(t) /\ p # 0 /\ t[p] # NL
      <3>1. n # 0
        <4>1. t # <<>>
          BY <2>1, EmptySeq
        <4> QED
          BY <1>1, <2>1, <4>1
      <3> QED
        BY <1>1, <2>1, <3>1 DEF Gone
    <2>2. CASE ~(p + n = Len(t) /\ p # 0 /\ t[p] # NL)
      BY <1>1, <2>2 DEF Gone
    <2> QED
      BY <2>1, <2>2
  <1>3. c = a \o b
    <2> DEFINE k == IF p + n = Len(t) /\ ~(p = 0 \/ t[p] = NL) THEN n - 1 ELSE n
    <2>1. c = SubSeq(t, 1, p) \o SubSeq(t, p + k + 1, Len(t))
      BY DEF Cut
    <2>2. k = m
      BY DEF Gone
    <2> QED
      BY <2>1, <2>2
  <1> HIDE DEF m, c
  <1>4. a \in Seq(Char) /\ Len(a) = p /\ \A i \in 1..p : a[i] = t[i]
    <2>1. \A i \in 1..p : t[i] \in Char
      BY <1>1, ElementOfSeq
    <2> QED
      BY <1>1, <2>1, SubSeqProperties
  <1>5. /\ b \in Seq(Char) /\ Len(b) = Len(t) - (p + m)
        /\ \A i \in 1..Len(t) - (p + m) : b[i] = t[p + m + i]
    <2>1. \A i \in p + m + 1 .. Len(t) : t[i] \in Char
      BY <1>1, <1>2, ElementOfSeq
    <2>2. /\ b \in Seq(Char)
          /\ Len(b) = IF p + m + 1 <= Len(t) THEN Len(t) - (p + m + 1) + 1 ELSE 0
          /\ \A i \in 1..Len(t) - (p + m + 1) + 1 : b[i] = t[(p + m + 1) + i - 1]
      BY <1>1, <1>2, <2>1, SubSeqProperties
    <2> QED
      BY <1>1, <1>2, <2>2
  <1> HIDE DEF a, b
  <1>6. a \in Seq(Char) /\ b \in Seq(Char)
    BY <1>4, <1>5
  <1>7. /\ a \o b \in Seq(Char) /\ Len(a \o b) = Len(a) + Len(b)
        /\ \A i \in 1..Len(a) + Len(b) :
              (a \o b)[i] = IF i <= Len(a) THEN a[i] ELSE b[i - Len(a)]
    BY <1>6, ConcatProperties
  <1>8. c \in Seq(Char) /\ Len(c) = Len(t) - m
    BY <1>1, <1>2, <1>3, <1>4, <1>5, <1>7
  <1>9. ASSUME NEW i \in 1..Len(t) - m
        PROVE  c[i] = IF i <= p THEN t[i] ELSE t[i + m]
    <2>1. i \in Nat /\ i > 0 /\ i \in 1..Len(a) + Len(b)
      BY <1>1, <1>2, <1>4, <1>5
    <2>2. c[i] = IF i <= Len(a) THEN a[i] ELSE b[i - Len(a)]
      BY <1>3, <1>7, <2>1
    <2>3. CASE i <= p
      BY <1>4, <2>1, <2>2, <2>3
    <2>4. CASE ~(i <= p)
      <3>1. i - p \in 1..Len(t) - (p + m) /\ p + m + (i - p) = i + m
        BY <1>1, <1>2, <2>1, <2>4
      <3> QED
        BY <1>4, <1>5, <2>2, <2>4, <3>1
    <2> QED
      BY <2>3, <2>4, Zenon
  <1>10. c # <<>> => c[Len(c)] = NL
    <2>1. HAVE c # <<>>
    <2>2. Len(c) > 0 /\ Len(c) \in Nat
      BY <1>8, <2>1, EmptySeq
    <2>3. Len(c) \in 1..Len(t) - m /\ Len(t) > 0 /\ t # <<>>
      BY <1>1, <1>2, <1>8, <2>2, EmptySeq
    <2>4. c[Len(c)] = IF Len(c) <= p THEN t[Len(c)] ELSE t[Len(c) + m]
      BY <1>9, <2>3
    <2>5. CASE p + m = Len(t)
      BY <1>1, <1>2, <1>8, <2>2, <2>4, <2>5
    <2>6. CASE p + m # Len(t)
      BY <1>1, <1>2, <1>8, <2>2, <2>3, <2>4, <2>6
    <2> QED
      BY <2>5, <2>6
  <1> QED
    BY <1>2, <1>8, <1>9, <1>10 DEF m, c, Text

(* Two texts with the same characters are the same.                        *)
LEMMA SameText ==
  ASSUME NEW t \in Text, NEW u \in Text, Len(t) = Len(u),
         \A i \in 1..Len(u) : t[i] = u[i]
  PROVE  t = u
  BY SeqEqual DEF Text

(* A deletion that stops short of the end of the text takes what it is     *)
(* told to.                                                                *)
LEMMA CutPlain ==
  ASSUME NEW t \in Text, NEW p \in Nat, NEW n \in Nat, p + n < Len(t)
  PROVE  /\ Cut(t, p, n) \in Text
         /\ Len(Cut(t, p, n)) = Len(t) - n
         /\ \A i \in 1..Len(Cut(t, p, n)) :
               Cut(t, p, n)[i] = IF i <= p THEN t[i] ELSE t[i + n]
  <1>1. Len(t) \in Nat
    BY LenProperties DEF Text
  <1>2. p + n <= Len(t)
    BY <1>1
  <1>3. Gone(t, p, n) = n
    BY <1>2, CutShape
  <1> QED
    BY <1>2, <1>3, CutShape

(* A deletion of nothing leaves the text.                                  *)
LEMMA CutNone ==
  ASSUME NEW t \in Text, NEW p \in 0..Len(t)
  PROVE  Cut(t, p, 0) = t
  <1>1. Len(t) \in Nat /\ p \in Nat /\ p + 0 <= Len(t)
    BY LenProperties DEF Text
  <1>2. Gone(t, p, 0) = 0
    BY <1>1, CutShape
  <1> DEFINE c == Cut(t, p, 0)
  <1>3. c \in Text /\ Len(c) = Len(t) - 0
        /\ \A i \in 1..Len(c) : c[i] = IF i <= p THEN t[i] ELSE t[i + 0]
    BY <1>1, <1>2, CutShape
  <1> HIDE DEF c
  <1>4. Len(c) = Len(t) /\ \A i \in 1..Len(t) : c[i] = t[i]
    BY <1>1, <1>3
  <1> QED
    BY <1>3, <1>4, SameText DEF c

(* What a text is while a string goes in: i of its characters are there.   *)
Sofar(t, p, s, i) == Paste(t, p, SubSeq(s, 1, i))

(* That text, by positions.                                                *)
LEMMA SofarShape ==
  ASSUME NEW t \in Text, NEW p \in Nat, p < Len(t), NEW s \in Seq(Char),
         NEW i \in 0..Len(s)
  PROVE  /\ Sofar(t, p, s, i) \in Text
         /\ Len(Sofar(t, p, s, i)) = Len(t) + i
         /\ \A k \in 1..Len(t) + i :
               Sofar(t, p, s, i)[k] = IF k <= p THEN t[k]
                                      ELSE IF k <= p + i THEN s[k - p]
                                      ELSE t[k - i]
  <1> DEFINE h == SubSeq(s, 1, i)
             u == Paste(t, p, h)
  <1>1. Len(t) \in Nat /\ Len(s) \in Nat /\ i \in Nat /\ i <= Len(s) /\ p \in 0..Len(t)
    BY LenProperties DEF Text
  <1>2. h \in Seq(Char) /\ Len(h) = i /\ \A k \in 1..i : h[k] = s[k]
    <2>1. \A k \in 1..i : s[k] \in Char
      BY <1>1, ElementOfSeq
    <2> QED
      BY <1>1, <2>1, SubSeqProperties
  <1> HIDE DEF h
  <1>3. CASE i = 0
    <2>1. h = <<>>
      BY <1>2, <1>3, EmptySeq
    <2>2. u = t
      BY <2>1 DEF Paste
    <2>3. u \in Text /\ Len(u) = Len(t) + i
          /\ \A k \in 1..Len(t) + i :
               u[k] = IF k <= p THEN t[k] ELSE IF k <= p + i THEN s[k - p] ELSE t[k - i]
      BY <1>1, <1>3, <2>2
    <2> QED
      BY <2>3 DEF Sofar, h
  <1>4. CASE i # 0
    <2>1. h # <<>>
      BY <1>2, <1>4, EmptySeq
    <2>2. Padded(t, p) = t
      BY <1>1, PaddedShape
    <2>3. /\ u \in Text
          /\ Len(u) = Len(Padded(t, p)) + Len(h)
          /\ \A k \in 1..Len(u) :
               u[k] = IF k <= p THEN t[k] ELSE IF k <= p + Len(h) THEN h[k - p]
                      ELSE Padded(t, p)[k - Len(h)]
      BY <1>1, <1>2, <2>1, PasteShape
    <2> HIDE DEF u
    <2>4. u \in Text /\ Len(u) = Len(t) + i
      BY <1>2, <2>2, <2>3
    <2>5. ASSUME NEW k \in 1..Len(t) + i
          PROVE  u[k] = IF k <= p THEN t[k] ELSE IF k <= p + i THEN s[k - p] ELSE t[k - i]
      <3>1. u[k] = IF k <= p THEN t[k] ELSE IF k <= p + i THEN h[k - p] ELSE t[k - i]
        BY <1>2, <2>2, <2>3, <2>4
      <3>2. k > p /\ k <= p + i => h[k - p] = s[k - p]
        BY <1>1, <1>2
      <3> QED
        BY <1>1, <3>1, <3>2
    <2> QED
      BY <2>4, <2>5 DEF Sofar, u, h
  <1> QED
    BY <1>3, <1>4

(* Deleting characters i+1 to j of a string under way gives the text that  *)
(* was there when i were in.                                               *)
LEMMA SofarTakenBack ==
  ASSUME NEW t \in Text, NEW p \in Nat, p < Len(t), NEW s \in Seq(Char),
         NEW i \in 0..Len(s), NEW j \in i..Len(s)
  PROVE  /\ p + i + (j - i) < Len(Sofar(t, p, s, j))
         /\ Cut(Sofar(t, p, s, j), p + i, j - i) = Sofar(t, p, s, i)
  <1> DEFINE u == Sofar(t, p, s, j)
             v == Sofar(t, p, s, i)
             q == p + i
             n == j - i
             c == Cut(u, q, n)
  <1>1. /\ Len(t) \in Nat /\ Len(s) \in Nat /\ i \in Nat /\ j \in Nat
        /\ i <= j /\ j <= Len(s) /\ j \in 0..Len(s)
    BY LenProperties DEF Text
  <1>2. /\ u \in Text /\ Len(u) = Len(t) + j
        /\ \A k \in 1..Len(t) + j :
             u[k] = IF k <= p THEN t[k] ELSE IF k <= p + j THEN s[k - p] ELSE t[k - j]
    BY <1>1, SofarShape
  <1>3. /\ v \in Text /\ Len(v) = Len(t) + i
        /\ \A k \in 1..Len(t) + i :
             v[k] = IF k <= p THEN t[k] ELSE IF k <= p + i THEN s[k - p] ELSE t[k - i]
    BY <1>1, SofarShape
  <1> HIDE DEF u, v
  <1>4. q \in Nat /\ n \in Nat /\ q + n = p + j /\ q + n < Len(u)
    BY <1>1, <1>2
  <1> HIDE DEF q, n
  <1>5. /\ c \in Text /\ Len(c) = Len(u) - n
        /\ \A k \in 1..Len(c) : c[k] = IF k <= q THEN u[k] ELSE u[k + n]
    <2>1. u \in Text
      BY <1>2
    <2> QED
      BY <1>4, <2>1, CutPlain
  <1> HIDE DEF c
  <1>6. Len(c) = Len(v)
    BY <1>1, <1>2, <1>3, <1>5 DEF n
  <1>7. ASSUME NEW k \in 1..Len(v)
        PROVE  c[k] = v[k]
    <2>1. k \in Nat /\ k > 0 /\ k <= Len(t) + i /\ k \in 1..Len(t) + i /\ k \in 1..Len(t) + j
          /\ c[k] = IF k <= q THEN u[k] ELSE u[k + n]
      BY <1>1, <1>3, <1>5, <1>6
    <2>2. CASE k <= q
      <3>1. c[k] = u[k]
        BY <2>1, <2>2
      <3>2. u[k] = IF k <= p THEN t[k] ELSE IF k <= p + j THEN s[k - p] ELSE t[k - j]
        BY <1>2, <2>1
      <3>3. v[k] = IF k <= p THEN t[k] ELSE IF k <= p + i THEN s[k - p] ELSE t[k - i]
        BY <1>3, <2>1
      <3>4. k <= p + i /\ k <= p + j
        BY <1>1, <2>1, <2>2 DEF q
      <3> QED
        BY <3>1, <3>2, <3>3, <3>4
    <2>3. CASE ~(k <= q)
      <3>1. k + n \in 1..Len(t) + j /\ ~(k + n <= p + j) /\ (k + n) - j = k - i
        BY <1>1, <2>1, <2>3 DEF q, n
      <3>2. c[k] = u[k + n]
        BY <2>1, <2>3
      <3>3. u[k + n] = IF k + n <= p THEN t[k + n]
                       ELSE IF k + n <= p + j THEN s[(k + n) - p] ELSE t[(k + n) - j]
        BY <1>2, <3>1
      <3>4. ~(k + n <= p) /\ u[k + n] = t[(k + n) - j]
        BY <1>1, <1>4, <2>1, <3>1, <3>3
      <3>5. v[k] = t[k - i]
        BY <1>1, <1>3, <2>1, <2>3 DEF q
      <3> QED
        BY <3>1, <3>2, <3>4, <3>5
    <2> QED
      BY <2>2, <2>3
  <1>8. c = v
    BY <1>3, <1>5, <1>6, <1>7, SameText
  <1> QED
    BY <1>4, <1>8 DEF u, v, c, q, n

(* With no character in it is the text, with all of them the text inserted *)
(* into.                                                                   *)
LEMMA SofarWhole ==
  ASSUME NEW t \in Seq(Char), NEW p, NEW s \in Seq(Char)
  PROVE  /\ Sofar(t, p, s, 0) = t
         /\ Sofar(t, p, s, Len(s)) = Paste(t, p, s)
  <1>1. SubSeq(s, 1, 0) = <<>>
    BY SubSeqEmpty
  <1>2. SubSeq(s, 1, Len(s)) = s
    BY SubSeqFull
  <1> QED
    BY <1>1, <1>2 DEF Sofar, Paste

(* A deletion takes an insertion within the text back.                     *)
LEMMA InsertBack ==
  ASSUME NEW t \in Text, NEW p \in Nat, p < Len(t), NEW s \in Seq(Char)
  PROVE  /\ Paste(t, p, s) \in Text
         /\ Len(Paste(t, p, s)) = Len(t) + Len(s)
         /\ Cut(Paste(t, p, s), p, Len(s)) = t
  <1>1. Len(s) \in Nat /\ Len(t) \in Nat /\ t \in Seq(Char)
    BY LenProperties DEF Text
  <1>2. 0 \in 0..Len(s) /\ Len(s) \in 0..Len(s) /\ p + 0 = p /\ Len(s) - 0 = Len(s)
    BY <1>1
  <1>3. Cut(Sofar(t, p, s, Len(s)), p + 0, Len(s) - 0) = Sofar(t, p, s, 0)
    BY <1>2, SofarTakenBack
  <1>4. Sofar(t, p, s, 0) = t /\ Sofar(t, p, s, Len(s)) = Paste(t, p, s)
    BY <1>1, SofarWhole
  <1>5. /\ Sofar(t, p, s, Len(s)) \in Text
        /\ Len(Sofar(t, p, s, Len(s))) = Len(t) + Len(s)
    BY <1>2, SofarShape
  <1> QED
    BY <1>2, <1>3, <1>4, <1>5

(* An insertion takes a deletion that stops short of the end back.         *)
LEMMA DeleteBack ==
  ASSUME NEW t \in Text, NEW p \in Nat, NEW n \in Nat, p + n < Len(t)
  PROVE  /\ Cut(t, p, n) \in Text /\ p < Len(Cut(t, p, n))
         /\ SubSeq(t, p + 1, p + n) \in Seq(Char)
         /\ Len(SubSeq(t, p + 1, p + n)) = n
         /\ Paste(Cut(t, p, n), p, SubSeq(t, p + 1, p + n)) = t
  <1> DEFINE c == Cut(t, p, n)
             h == SubSeq(t, p + 1, p + n)
             u == Paste(c, p, h)
  <1>1. t \in Seq(Char) /\ Len(t) \in Nat
    BY LenProperties DEF Text
  <1>2. /\ c \in Text
        /\ Len(c) = Len(t) - n
        /\ \A i \in 1..Len(c) : c[i] = IF i <= p THEN t[i] ELSE t[i + n]
    BY CutPlain
  <1>3. h \in Seq(Char) /\ Len(h) = n /\ \A k \in 1..n : h[k] = t[p + k]
    <2>1. \A k \in p + 1 .. p + n : t[k] \in Char
      BY <1>1, ElementOfSeq
    <2>2. /\ h \in Seq(Char) /\ Len(h) = IF p + 1 <= p + n THEN (p + n) - (p + 1) + 1 ELSE 0
          /\ \A k \in 1..(p + n) - (p + 1) + 1 : h[k] = t[(p + 1) + k - 1]
      BY <1>1, <2>1, SubSeqProperties
    <2> QED
      BY <1>1, <2>2
  <1> HIDE DEF c, h
  <1>4. p < Len(c) /\ Len(c) \in Nat /\ c \in Text /\ h \in Seq(Char) /\ Len(h) = n
    BY <1>1, <1>2, <1>3
  <1>5. CASE n = 0
    <2>1. h = <<>>
      BY <1>3, <1>5, EmptySeq
    <2>2. c = t
      <3>1. p \in 0..Len(t)
        BY <1>1
      <3> QED
        BY <1>5, <3>1, CutNone DEF c
    <2>3. u = c
      BY <2>1 DEF Paste
    <2>4. u = t
      BY <2>2, <2>3
    <2> QED
      BY <1>4, <2>4 DEF c, h
  <1>6. CASE n # 0
    <2>1. h # <<>> /\ p \in 0..Len(c)
      BY <1>4, <1>6, EmptySeq
    <2>2. Padded(c, p) = c
      BY <1>4, <2>1, PaddedShape
    <2>3. /\ u \in Text /\ Len(u) = Len(Padded(c, p)) + Len(h)
          /\ \A i \in 1..Len(u) :
               u[i] = IF i <= p THEN c[i] ELSE IF i <= p + Len(h) THEN h[i - p]
                      ELSE Padded(c, p)[i - Len(h)]
      BY <1>4, <2>1, PasteShape
    <2> HIDE DEF u
    <2>4. Len(u) = Len(t)
      BY <1>1, <1>2, <1>3, <2>2, <2>3
    <2>5. ASSUME NEW i \in 1..Len(t)
          PROVE  u[i] = t[i]
      <3>1. /\ i \in Nat /\ i > 0 /\ i <= Len(t)
            /\ u[i] = IF i <= p THEN c[i] ELSE IF i <= p + n THEN h[i - p] ELSE c[i - n]
        BY <1>1, <1>3, <2>2, <2>3, <2>4
      <3>2. CASE i <= p
        BY <1>1, <1>2, <1>4, <3>1, <3>2
      <3>3. CASE ~(i <= p) /\ i <= p + n
        BY <1>1, <1>3, <3>1, <3>3
      <3>4. CASE ~(i <= p + n)
        <4>1. i - n \in 1..Len(c) /\ ~(i - n <= p) /\ (i - n) + n = i
          BY <1>1, <1>2, <3>1, <3>4
        <4> QED
          BY <1>2, <3>1, <3>4, <4>1
      <3> QED
        BY <3>2, <3>3, <3>4
    <2>6. u = t
      BY <2>3, <2>4, <2>5, SameText
    <2> QED
      BY <1>4, <2>6 DEF c, h, u
  <1> QED
    BY <1>5, <1>6

(* What was put below the last line goes with the line it was given.       *)
LEMMA BottomBack ==
  ASSUME NEW t \in Text, NEW u \in Text, NEW n \in Nat, Len(u) = Len(t) + n,
         \A i \in 1..Len(t) : u[i] = t[i]
  PROVE  Cut(u, Len(t), n) = t
  <1> DEFINE p == Len(t)
             c == Cut(u, p, n)
  <1>1. p \in Nat /\ Len(u) \in Nat /\ p + n <= Len(u) /\ t \in Seq(Char)
        /\ (t # <<>> => t[p] = NL)
    BY LenProperties DEF Text
  <1> HIDE DEF p
  <1>2. Gone(u, p, n) = n
    <2>1. CASE p = 0
      BY <2>1 DEF Gone
    <2>2. CASE p # 0
      <3>1. t # <<>> /\ p \in 1..Len(t)
        BY <1>1, <2>2, EmptySeq DEF p
      <3>2. u[p] = NL
        BY <1>1, <3>1
      <3> QED
        BY <3>2 DEF Gone
    <2> QED
      BY <2>1, <2>2
  <1>3. /\ c \in Text /\ Len(c) = Len(u) - Gone(u, p, n)
        /\ \A i \in 1..Len(c) : c[i] = IF i <= p THEN u[i] ELSE u[i + Gone(u, p, n)]
    BY <1>1, CutShape
  <1> HIDE DEF c
  <1>4. Len(c) = p
    BY <1>1, <1>2, <1>3 DEF p
  <1>5. \A i \in 1..Len(t) : c[i] = t[i]
    BY <1>1, <1>3, <1>4 DEF p
  <1>6. c = t
    BY <1>3, <1>4, <1>5, SameText DEF p
  <1> QED
    BY <1>6 DEF c, p

(* A character typed among those that a DELETE record takes back is taken  *)
(* back by the record with one character more (u_delete).                  *)
LEMMA CollapsedBack ==
  ASSUME NEW t \in Text, NEW a \in Nat, NEW k \in Nat, a + k <= Len(t),
         NEW p \in Nat, a <= p, p <= a + k, p < Len(t), NEW s \in Seq(Char), Len(s) = 1
  PROVE  Cut(Paste(t, p, s), a, k + 1) = Cut(t, a, k)
  <1> DEFINE u == Paste(t, p, s)
             c == Cut(t, a, k)
             d == Cut(u, a, k + 1)
             g == Gone(t, a, k)
  <1>1. t \in Seq(Char) /\ Len(t) \in Nat /\ p \in 0..Len(t) /\ s # <<>>
    <2>1. t \in Seq(Char) /\ Len(t) \in Nat
      BY LenProperties DEF Text
    <2>2. s # <<>>
      <3>1. ASSUME s = <<>>
            PROVE  Len(s) = 0
        BY <3>1
      <3> QED
        BY <3>1
    <2> QED
      BY <2>1, <2>2
  <1>2. Padded(t, p) = t
    BY <1>1, PaddedShape
  <1>3. /\ u \in Text /\ Len(u) = Len(Padded(t, p)) + Len(s)
        /\ \A i \in 1..Len(u) :
              u[i] = IF i <= p THEN t[i] ELSE IF i <= p + Len(s) THEN s[i - p]
                     ELSE Padded(t, p)[i - Len(s)]
    BY <1>1, PasteShape
  <1> HIDE DEF u
  <1>4. /\ Len(u) = Len(t) + 1
        /\ \A i \in 1..Len(t) + 1 : i <= p => u[i] = t[i]
        /\ \A i \in 1..Len(t) + 1 : i > p + 1 => u[i] = t[i - 1]
    BY <1>1, <1>2, <1>3
  <1>5. Gone(u, a, k + 1) = g + 1 /\ g \in 0..k /\ (a + k < Len(t) => g = k) /\ g >= k - 1
    <2>1. a # 0 => u[a] = t[a]
      BY <1>1, <1>4
    <2>2. a + (k + 1) = Len(u) <=> a + k = Len(t)
      BY <1>1, <1>4
    <2>3. g \in 0..k /\ (a + k < Len(t) => g = k)
      BY CutShape
    <2>4. CASE a + k = Len(t) /\ a # 0 /\ t[a] # NL
      BY <2>1, <2>2, <2>3, <2>4 DEF Gone
    <2>5. CASE ~(a + k = Len(t) /\ a # 0 /\ t[a] # NL)
      BY <2>1, <2>2, <2>3, <2>5 DEF Gone
    <2> QED
      BY <2>4, <2>5
  <1>6. /\ c \in Text /\ Len(c) = Len(t) - g
        /\ \A i \in 1..Len(c) : c[i] = IF i <= a THEN t[i] ELSE t[i + g]
    BY CutShape
  <1>7. /\ d \in Text /\ Len(d) = Len(u) - Gone(u, a, k + 1)
        /\ \A i \in 1..Len(d) : d[i] = IF i <= a THEN u[i] ELSE u[i + Gone(u, a, k + 1)]
    <2>1. k + 1 \in Nat /\ a + (k + 1) <= Len(u) /\ u \in Text
      BY <1>1, <1>3, <1>4
    <2> QED
      BY <2>1, CutShape
  <1> HIDE DEF c, d, g
  <1>8. Len(d) = Len(c)
    BY <1>1, <1>4, <1>5, <1>6, <1>7
  <1>9. ASSUME NEW i \in 1..Len(c)
        PROVE  d[i] = c[i]
    <2>1. /\ i \in Nat /\ i > 0 /\ i <= Len(t) - g
          /\ c[i] = IF i <= a THEN t[i] ELSE t[i + g]
          /\ d[i] = IF i <= a THEN u[i] ELSE u[i + (g + 1)]
      <3>1. i \in 1..Len(d) /\ i \in Nat /\ i > 0 /\ i <= Len(t) - g
        BY <1>1, <1>5, <1>6, <1>8
      <3>2. d[i] = IF i <= a THEN u[i] ELSE u[i + (g + 1)]
        BY <1>5, <1>7, <3>1
      <3> QED
        BY <1>6, <3>1, <3>2
    <2>2. CASE i <= a
      BY <1>1, <1>4, <2>1, <2>2
    <2>3. CASE ~(i <= a)
      <3>1. CASE i + g > p
        <4>1. /\ i + (g + 1) \in 1..Len(t) + 1 /\ i + (g + 1) > p + 1
              /\ i + (g + 1) - 1 = i + g
          BY <1>1, <1>5, <2>1, <3>1
        <4>2. u[i + (g + 1)] = t[i + (g + 1) - 1]
          BY <1>4, <1>5, <2>1, <4>1
        <4> QED
          BY <2>1, <2>3, <4>1, <4>2
      <3>2. CASE ~(i + g > p)
        BY <1>1, <1>5, <2>1, <2>3, <3>2
      <3> QED
        BY <3>1, <3>2
    <2> QED
      BY <2>2, <2>3
  <1>10. d = c
    BY <1>6, <1>7, <1>8, <1>9, SameText
  <1> QED
    BY <1>10 DEF c, d, u

-----------------------------------------------------------------------------
(***************************************************************************)
(* Records that fit the text they meet.                                    *)
(***************************************************************************)

(* The records that the u_* calls write (undo.c): only edits have          *)
(* characters to remove, and a DELETE has none to put back.                *)
Written ==
  {r \in [op : Edits \cup {"GOTO", "START"}, at : Nat, len : Nat,
          text : Seq(Char), chain : Nat, was : Text] :
      /\ r.op \in {"GOTO", "START"} => r.len = 0 /\ r.text = <<>>
      /\ r.op = "DELETE" => r.text = <<>>}

(* The record r fits the text u: what it removes is there, and taking its  *)
(* change back gives the text before the change. While characters are      *)
(* typed the cursor q is where a DELETE can still be extended, and at a    *)
(* mark where it was set; while the last line's end is left alone, the     *)
(* record does not reach it.                                               *)
FitsAt(r, u, q) ==
  /\ r.at + r.len <= Len(u)
  /\ TakenBack(u, r) = r.was
  /\ r.op \in Edits /\ Bottom = {} => r.at + r.len < Len(u)
  /\ Typing /\ r.op = "DELETE" => r.at <= q /\ q <= r.at + r.len
  /\ Typing /\ r.op = "START" => q = r.at

(* The text that a record of a list meets: that before the change of the   *)
(* record above, or the present one.                                       *)
NextText(stk, i, u) == IF i = Len(stk) THEN u ELSE stk[i + 1].was
(* The cursor position it meets.                                           *)
NextDot(stk, i, q)  == IF i = Len(stk) THEN q ELSE stk[i + 1].at

(* A list of records fits the text u and the cursor q.                     *)
Fits(stk, u, q) ==
  \A i \in 1..Len(stk) : FitsAt(stk[i], NextText(stk, i, u), NextDot(stk, i, q))

(* The records of one call lead from the text t and the cursor p to u and  *)
(* q.                                                                      *)
Leads(recs, t, p, u, q) ==
  /\ recs \in Seq(Written)
  /\ \A i \in 1..Len(recs) : recs[i].op # "START"
  /\ Fits(recs, u, q)
  /\ Len(recs) = 0 => u = t /\ (Typing => q = p)
  /\ Len(recs) > 0 => recs[1].was = t /\ (Typing => recs[1].at = p)

(* The fields of a record.                                                 *)
LEMMA WrittenFields ==
  ASSUME NEW r \in Written
  PROVE  /\ r.op \in Edits \cup {"GOTO", "START"} /\ r.at \in Nat /\ r.len \in Nat
         /\ r.text \in Seq(Char) /\ r.chain \in Nat /\ r.was \in Text
         /\ r.op \in {"GOTO", "START"} => r.len = 0 /\ r.text = <<>>
         /\ r.op = "DELETE" => r.text = <<>>
  BY DEF Written

(* No records lead nowhere.                                                *)
LEMMA LeadsNone ==
  ASSUME NEW t, NEW p
  PROVE  Leads(<<>>, t, p, t, p)
  BY DEF Leads, Fits

(* A record that fits u leads from the text before its change to u.        *)
LEMMA LeadsOne ==
  ASSUME NEW r \in Written, r.op # "START", NEW t, NEW p, NEW u, NEW q,
         FitsAt(r, u, q), r.was = t, Typing => r.at = p
  PROVE  Leads(<<r>>, t, p, u, q)
  <1>1. <<r>> \in Seq(Written) /\ Len(<<r>>) = 1 /\ <<r>>[1] = r
    OBVIOUS
  <1>2. \A i \in 1..1 : i = 1
    OBVIOUS
  <1>3. Fits(<<r>>, u, q)
    BY <1>1, <1>2 DEF Fits, NextText, NextDot
  <1> QED
    BY <1>1, <1>2, <1>3 DEF Leads

(* Records that lead from a text to another may be put on a list that fits *)
(* the first (uwrite_op).                                                  *)
LEMMA FitsJoin ==
  ASSUME NEW stk \in Seq(Written), NEW recs \in Seq(Written),
         NEW t, NEW p, NEW u, NEW q,
         Fits(stk, t, p), Fits(recs, u, q),
         Len(recs) = 0 => u = t /\ (Typing => q = p),
         Len(recs) > 0 => recs[1].was = t /\ (Typing => recs[1].at = p)
  PROVE  Fits(stk \o recs, u, q)
  <1> DEFINE j == stk \o recs
  <1>1. Len(stk) \in Nat /\ Len(recs) \in Nat
    BY LenProperties
  <1>2. /\ j \in Seq(Written) /\ Len(j) = Len(stk) + Len(recs)
        /\ \A i \in 1..Len(stk) + Len(recs) :
             j[i] = IF i <= Len(stk) THEN stk[i] ELSE recs[i - Len(stk)]
    BY ConcatProperties
  <1> HIDE DEF j
  <1>3. ASSUME NEW i \in 1..Len(j)
        PROVE  FitsAt(j[i], NextText(j, i, u), NextDot(j, i, q))
    <2>1. /\ i \in Nat /\ i > 0 /\ i <= Len(stk) + Len(recs)
          /\ i \in 1..Len(stk) + Len(recs)
      BY <1>1, <1>2
    <2>2. CASE i < Len(stk)
      <3>1. /\ j[i] = stk[i] /\ j[i + 1] = stk[i + 1] /\ i \in 1..Len(stk)
            /\ i # Len(stk) /\ i # Len(j)
        BY <1>1, <1>2, <2>1, <2>2
      <3>2. FitsAt(stk[i], NextText(stk, i, t), NextDot(stk, i, p))
        BY <3>1 DEF Fits
      <3>3. /\ NextText(j, i, u) = NextText(stk, i, t)
            /\ NextDot(j, i, q) = NextDot(stk, i, p)
        BY <3>1 DEF NextText, NextDot
      <3> QED
        BY <3>1, <3>2, <3>3
    <2>3. CASE i = Len(stk)
      <3>1. j[i] = stk[i] /\ i \in 1..Len(stk)
        BY <1>1, <1>2, <2>1, <2>3
      <3>2. FitsAt(stk[i], t, p)
        BY <2>3, <3>1 DEF Fits, NextText, NextDot
      <3>3. CASE Len(recs) = 0
        <4>1. i = Len(j) /\ u = t /\ (Typing => q = p)
          BY <1>1, <1>2, <2>3, <3>3
        <4>2. NextText(j, i, u) = t /\ (Typing => NextDot(j, i, q) = p)
          BY <4>1 DEF NextText, NextDot
        <4> QED
          BY <3>1, <3>2, <4>2 DEF FitsAt
      <3>4. CASE Len(recs) # 0
        <4>1. i # Len(j) /\ j[i + 1] = recs[1]
          BY <1>1, <1>2, <2>3, <3>4
        <4>2. Len(recs) > 0
          BY <1>1, <3>4
        <4>3. NextText(j, i, u) = t /\ (Typing => NextDot(j, i, q) = p)
          BY <4>1, <4>2 DEF NextText, NextDot
        <4> QED
          BY <3>1, <3>2, <4>3 DEF FitsAt
      <3> QED
        BY <3>3, <3>4
    <2>4. CASE i > Len(stk)
      <3> DEFINE k == i - Len(stk)
      <3>1. k \in 1..Len(recs) /\ j[i] = recs[k] /\ (i = Len(j) <=> k = Len(recs))
        BY <1>1, <1>2, <2>1, <2>4
      <3>2. i # Len(j) => j[i + 1] = recs[k + 1]
        <4>1. HAVE i # Len(j)
        <4>2. i + 1 \in 1..Len(stk) + Len(recs) /\ ~(i + 1 <= Len(stk))
              /\ (i + 1) - Len(stk) = k + 1
          BY <1>1, <1>2, <2>1, <2>4, <4>1
        <4> QED
          BY <1>2, <4>2
      <3> HIDE DEF k
      <3>3. FitsAt(recs[k], NextText(recs, k, u), NextDot(recs, k, q))
        BY <3>1 DEF Fits
      <3>4. /\ NextText(j, i, u) = NextText(recs, k, u)
            /\ NextDot(j, i, q) = NextDot(recs, k, q)
        BY <3>1, <3>2 DEF NextText, NextDot
      <3> QED
        BY <3>1, <3>3, <3>4
    <2> QED
      BY <1>1, <2>1, <2>2, <2>3, <2>4
  <1> QED
    BY <1>3 DEF Fits, j

(* Records of two calls, one after the other.                              *)
LEMMA LeadsJoin ==
  ASSUME NEW x, NEW y, NEW t, NEW p, NEW u, NEW q, NEW v, NEW w,
         Leads(x, t, p, u, q), Leads(y, u, q, v, w)
  PROVE  Leads(x \o y, t, p, v, w)
  <1>1. x \in Seq(Written) /\ y \in Seq(Written)
    BY DEF Leads
  <1>2. Len(x) \in Nat /\ Len(y) \in Nat
    BY <1>1, LenProperties
  <1> DEFINE j == x \o y
  <1>3. /\ j \in Seq(Written) /\ Len(j) = Len(x) + Len(y)
        /\ \A i \in 1..Len(x) + Len(y) : j[i] = IF i <= Len(x) THEN x[i] ELSE y[i - Len(x)]
    BY <1>1, ConcatProperties
  <1>4. Fits(j, v, w)
    BY <1>1, FitsJoin DEF Leads
  <1> HIDE DEF j
  <1>5. ASSUME NEW i \in 1..Len(j)
        PROVE  j[i].op # "START"
    <2>1. CASE i <= Len(x)
      <3>1. i \in 1..Len(x) /\ j[i] = x[i]
        BY <1>2, <1>3, <2>1
      <3> QED
        BY <3>1 DEF Leads
    <2>2. CASE ~(i <= Len(x))
      <3>1. i - Len(x) \in 1..Len(y) /\ j[i] = y[i - Len(x)]
        BY <1>2, <1>3, <2>2
      <3> QED
        BY <3>1 DEF Leads
    <2> QED
      BY <2>1, <2>2
  <1>6. CASE Len(x) = 0
    <2>1. u = t /\ (Typing => q = p)
      BY <1>6 DEF Leads
    <2>2. Len(j) = Len(y) /\ (Len(y) > 0 => j[1] = y[1])
      BY <1>2, <1>3, <1>6
    <2>3. /\ Len(y) = 0 => v = u /\ (Typing => w = q)
          /\ Len(y) > 0 => y[1].was = u /\ (Typing => y[1].at = q)
      BY DEF Leads
    <2> QED
      BY <1>3, <1>4, <1>5, <2>1, <2>2, <2>3 DEF Leads, j
  <1>7. CASE Len(x) # 0
    <2>1. Len(x) > 0 /\ Len(j) > 0 /\ Len(j) # 0 /\ j[1] = x[1]
      BY <1>2, <1>3, <1>7
    <2>2. x[1].was = t /\ (Typing => x[1].at = p)
      BY <2>1 DEF Leads
    <2> QED
      BY <1>3, <1>4, <1>5, <2>1, <2>2 DEF Leads, j
  <1> QED
    BY <1>6, <1>7

-----------------------------------------------------------------------------
(***************************************************************************)
(* Induction over numbers in terms of sets, and the existence of the       *)
(* recursive function by which Inserted is defined.                        *)
(***************************************************************************)

(* A set of numbers that is not empty has a smallest element.              *)
LEMMA Smallest ==
  ASSUME NEW T \in SUBSET Nat, T # {}
  PROVE  \E m \in T : \A k \in T : m <= k
  <1>1. IsWellFoundedOn(OpToRel(<, Nat), Nat)
    BY NatLessThanWellFounded
  <1>2. \E x \in T : \A y \in T : ~(<<y, x>> \in OpToRel(<, Nat))
    BY <1>1, WFMin
  <1>3. PICK x \in T : \A y \in T : ~(<<y, x>> \in OpToRel(<, Nat))
    BY <1>2
  <1>4. \A y \in T : ~(y < x)
    BY <1>3 DEF OpToRel
  <1> QED
    BY <1>4

(* Induction, for a set of numbers.                                        *)
LEMMA Inductive ==
  ASSUME NEW S \in SUBSET Nat, 0 \in S, \A n \in S : n + 1 \in S
  PROVE  \A n \in Nat : n \in S
  <1> DEFINE T == Nat \ S
  <1>1. SUFFICES ASSUME T # {} PROVE FALSE
    OBVIOUS
  <1>2. PICK m \in T : \A k \in T : m <= k
    BY <1>1, Smallest
  <1>3. m \in Nat /\ m # 0 /\ m - 1 \in Nat
    BY <1>2
  <1>4. m - 1 \notin T
    BY <1>2, <1>3
  <1>5. (m - 1) + 1 \in S
    BY <1>3, <1>4
  <1> QED
    BY <1>2, <1>3, <1>5

(* The function g adds, from b on, a sequence X[e] at every step e.        *)
Adds(g, N, b, X) == g[0] = b /\ \A e \in 1..N : g[e] = g[e - 1] \o X[e]

(* There is such a function, for any sequences to be added.                *)
LEMMA Added ==
  ASSUME NEW S, NEW N \in Nat, NEW b \in Seq(S), NEW X \in [1..N -> Seq(S)]
  PROVE  \E g \in [0..N -> Seq(S)] : Adds(g, N, b, X)
  <1> DEFINE Good(n) == \E g \in [0..n -> Seq(S)] :
                          g[0] = b /\ \A e \in 1..n : g[e] = g[e - 1] \o X[e]
  <1> DEFINE A == {n \in Nat : n <= N => Good(n)}
  <1>1. 0 \in A
    <2> DEFINE g == [e \in 0..0 |-> b]
    <2>1. g \in [0..0 -> Seq(S)] /\ g[0] = b /\ \A e \in 1..0 : g[e] = g[e - 1] \o X[e]
      OBVIOUS
    <2> HIDE DEF g
    <2>2. Good(0)
      BY <2>1
    <2> QED
      BY <2>2
  <1>2. ASSUME NEW n \in Nat, n + 1 <= N, Good(n)
        PROVE  Good(n + 1)
    <2>1. n \in Nat /\ n + 1 <= N
      BY <1>2
    <2>2. n \in Nat /\ n \in 0..n /\ n + 1 \in 1..N
      BY <2>1
    <2>3. PICK g \in [0..n -> Seq(S)] :
             g[0] = b /\ \A e \in 1..n : g[e] = g[e - 1] \o X[e]
      BY <1>2
    <2> DEFINE h == [e \in 0..(n + 1) |-> IF e = n + 1 THEN g[n] \o X[n + 1] ELSE g[e]]
    <2>4. g[n] \o X[n + 1] \in Seq(S)
      <3>1. g[n] \in Seq(S) /\ X[n + 1] \in Seq(S)
        BY <2>1, <2>2
      <3> QED
        BY <3>1, ConcatProperties
    <2>5. h \in [0..(n + 1) -> Seq(S)]
      BY <2>2, <2>4
    <2>6. h[n + 1] = g[n] \o X[n + 1] /\ \A e \in 0..n : h[e] = g[e]
      BY <2>2
    <2> HIDE DEF h
    <2>7. ASSUME NEW e \in 1..(n + 1)
          PROVE  h[e] = h[e - 1] \o X[e]
      <3>1. CASE e = n + 1
        <4>1. e - 1 = n
          BY <2>2, <3>1
        <4>2. h[e - 1] = g[n]
          BY <2>2, <2>6, <4>1
        <4> QED
          BY <2>6, <3>1, <4>2
      <3>2. CASE e # n + 1
        <4>1. e \in 1..n /\ e \in 0..n /\ e - 1 \in 0..n
          BY <2>2, <3>2
        <4>2. h[e] = g[e] /\ h[e - 1] = g[e - 1] /\ g[e] = g[e - 1] \o X[e]
          BY <2>3, <2>6, <4>1
        <4> QED
          BY <4>2
      <3> QED
        BY <3>1, <3>2
    <2>8. h[0] = b
      BY <2>2, <2>3, <2>6
    <2> QED
      BY <2>5, <2>7, <2>8
  <1> HIDE DEF Good
  <1>3. \A n \in A : n + 1 \in A
    BY <1>2
  <1>4. A \in SUBSET Nat
    OBVIOUS
  <1> HIDE DEF A
  <1>5. \A n \in Nat : n \in A
    BY <1>1, <1>3, <1>4, Inductive
  <1>6. Good(N)
    BY <1>5 DEF A
  <1> QED
    BY <1>6 DEF Good, Adds

(* What linserts records before the first line of the string.              *)
InsertedBase(t, p, s) == IF s = <<>> THEN <<>> ELSE PadRecords(t, p)
(* What it records when it has come to character e of the string.          *)
InsertedLine(t, p, s, e) ==
  IF e \in LineEnds(s) THEN LineRecords(Padded(t, p), p, s, e) ELSE <<>>

(* Inserted records the line added below the last and then, step by step,  *)
(* the lines of the string: the recursive definition, unfolded.            *)
LEMMA InsertedSteps ==
  ASSUME NEW t, NEW p, NEW s \in Seq(Char), NEW S,
         InsertedBase(t, p, s) \in Seq(S),
         \A e \in 1..Len(s) : InsertedLine(t, p, s, e) \in Seq(S)
  PROVE  \E g \in [0..Len(s) -> Seq(S)] :
            /\ g[0] = InsertedBase(t, p, s)
            /\ \A e \in 1..Len(s) : g[e] = g[e - 1] \o InsertedLine(t, p, s, e)
            /\ Inserted(t, p, s) = g[Len(s)]
  <1> DEFINE N == Len(s)
             X == [e \in 1..N |-> InsertedLine(t, p, s, e)]
             b == InsertedBase(t, p, s)
             F(g) == [e \in 0..N |-> IF e = 0 THEN b ELSE g[e - 1] \o InsertedLine(t, p, s, e)]
             f == CHOOSE g : g = F(g)
  <1>1. N \in Nat /\ X \in [1..N -> Seq(S)] /\ \A e \in 1..N : X[e] = InsertedLine(t, p, s, e)
    BY LenProperties
  <1>2. b \in Seq(S)
    OBVIOUS
  <1>3. Inserted(t, p, s) = f[N]
    BY DEF Inserted, InsertedBase, InsertedLine
  <1> HIDE DEF N, X, b
  <1>4. N \in Nat /\ X \in [1..N -> Seq(S)]
    BY <1>1
  <1>5. PICK g \in [0..N -> Seq(S)] : Adds(g, N, b, X)
    BY <1>2, <1>4, Added
  <1>6. g[0] = b /\ \A e \in 1..N : g[e] = g[e - 1] \o X[e]
    BY <1>5 DEF Adds
  <1>7. g = F(g)
    <2>1. ASSUME NEW e \in 0..N
          PROVE  g[e] = F(g)[e]
      <3>1. CASE e = 0
        BY <1>6, <3>1
      <3>2. CASE e # 0
        <4>1. e \in 1..N
          BY <1>1, <3>2
        <4>2. g[e] = g[e - 1] \o InsertedLine(t, p, s, e)
          BY <1>1, <1>6, <4>1
        <4> QED
          BY <3>2, <4>2
      <3> QED
        BY <3>1, <3>2
    <2>2. g = [e \in 0..N |-> g[e]]
      OBVIOUS
    <2>3. F(g) = [e \in 0..N |-> F(g)[e]]
      OBVIOUS
    <2> HIDE DEF F
    <2> QED
      BY <2>1, <2>2, <2>3
  <1> HIDE DEF F
  <1>8. f = F(f)
    BY <1>7
  <1> HIDE DEF f
  <1>9. f = [e \in 0..N |-> IF e = 0 THEN b ELSE f[e - 1] \o InsertedLine(t, p, s, e)]
    BY <1>8 DEF F
  <1>10. /\ f[0] = b
         /\ \A e \in 1..N : f[e] = f[e - 1] \o InsertedLine(t, p, s, e)
         /\ DOMAIN f = 0..N
    <2>1. DOMAIN f = 0..N
      BY <1>9, Zenon
    <2>2. \A e \in 0..N : f[e] = IF e = 0 THEN b ELSE f[e - 1] \o InsertedLine(t, p, s, e)
      BY <1>9, Zenon
    <2>3. \A e \in 1..N : e \in 0..N /\ e # 0
      BY <1>1
    <2>4. 0 \in 0..N
      BY <1>1
    <2> QED
      BY <2>1, <2>2, <2>3, <2>4, Zenon
  <1>11. ASSUME NEW e \in 0..N
         PROVE  f[e] = g[e]
    <2> DEFINE A == {n \in Nat : n <= N => f[n] = g[n]}
    <2>1. 0 \in A
      BY <1>6, <1>10
    <2>2. ASSUME NEW n \in A
          PROVE  n + 1 \in A
      <3>1. SUFFICES ASSUME n + 1 <= N PROVE f[n + 1] = g[n + 1]
        OBVIOUS
      <3>2. n + 1 \in 1..N /\ (n + 1) - 1 = n /\ f[n] = g[n]
        BY <1>1, <3>1
      <3>3. f[n + 1] = f[(n + 1) - 1] \o InsertedLine(t, p, s, n + 1)
        BY <1>10, <3>2
      <3>4. g[n + 1] = g[(n + 1) - 1] \o InsertedLine(t, p, s, n + 1)
        BY <1>1, <1>6, <3>2
      <3> QED
        BY <3>2, <3>3, <3>4
    <2>3. A \in SUBSET Nat
      OBVIOUS
    <2>4. e \in Nat /\ e <= N
      BY <1>1
    <2> HIDE DEF A
    <2>5. e \in A
      BY <2>1, <2>2, <2>3, <2>4, Inductive
    <2> QED
      BY <2>4, <2>5 DEF A
  <1>12. Inserted(t, p, s) = g[N]
    BY <1>1, <1>3, <1>11
  <1> QED
    BY <1>1, <1>6, <1>12 DEF N, X, b

-----------------------------------------------------------------------------
(***************************************************************************)
(* The records that each editing call writes lead from its text to its     *)
(* text.                                                                   *)
(***************************************************************************)

(* A cursor record fits the text it is written at.                         *)
LEMMA GotoFits ==
  ASSUME NEW at \in Nat, NEW u \in Text, at <= Len(u), NEW q
  PROVE  /\ Record("GOTO", at, 0, <<>>, u) \in Written
         /\ Record("GOTO", at, 0, <<>>, u).op = "GOTO"
         /\ Record("GOTO", at, 0, <<>>, u).at = at
         /\ Record("GOTO", at, 0, <<>>, u).was = u
         /\ FitsAt(Record("GOTO", at, 0, <<>>, u), u, q)
  <1> DEFINE r == Record("GOTO", at, 0, <<>>, u)
  <1>1. <<>> \in Seq(Char) /\ Len(u) \in Nat /\ at \in 0..Len(u)
    BY EmptySeq, LenProperties DEF Text
  <1>2. r \in Written /\ r.op = "GOTO" /\ r.at = at /\ r.len = 0 /\ r.text = <<>> /\ r.was = u
    BY <1>1 DEF Record, Written
  <1> HIDE DEF r
  <1>3. TakenBack(u, r) = u
    <2>1. Cut(u, at, 0) = u
      BY <1>1, CutNone
    <2> QED
      BY <1>2, <2>1 DEF TakenBack, Paste
  <1>4. FitsAt(r, u, q)
    BY <1>1, <1>2, <1>3 DEF FitsAt, Edits
  <1> QED
    BY <1>2, <1>4 DEF r

(* A DELETE record fits a text from which taking its characters gives the  *)
(* text before.                                                            *)
LEMMA DeleteFits ==
  ASSUME NEW at \in Nat, NEW n \in Nat, NEW was \in Text, NEW u, NEW q,
         at + n <= Len(u), Cut(u, at, n) = was, Bottom = {} => at + n < Len(u),
         Typing => at <= q /\ q <= at + n
  PROVE  /\ Record("DELETE", at, n, <<>>, was) \in Written
         /\ Record("DELETE", at, n, <<>>, was).op = "DELETE"
         /\ Record("DELETE", at, n, <<>>, was).at = at
         /\ Record("DELETE", at, n, <<>>, was).was = was
         /\ FitsAt(Record("DELETE", at, n, <<>>, was), u, q)
  <1> DEFINE r == Record("DELETE", at, n, <<>>, was)
  <1>1. <<>> \in Seq(Char)
    BY EmptySeq
  <1>2. r \in Written /\ r.op = "DELETE" /\ r.at = at /\ r.len = n /\ r.text = <<>> /\ r.was = was
    BY <1>1 DEF Record, Written, Edits
  <1> HIDE DEF r
  <1>3. TakenBack(u, r) = was
    BY <1>2 DEF TakenBack, Paste
  <1>4. FitsAt(r, u, q)
    BY <1>2, <1>3 DEF FitsAt
  <1> QED
    BY <1>2, <1>4 DEF r

(* A cursor record leads from its position to any other.                   *)
LEMMA GotoLeads ==
  ASSUME NEW at \in Nat, NEW u \in Text, at <= Len(u), NEW q
  PROVE  Leads(<<Record("GOTO", at, 0, <<>>, u)>>, u, at, u, q)
  <1> DEFINE r == Record("GOTO", at, 0, <<>>, u)
  <1>1. r \in Written /\ r.op = "GOTO" /\ r.at = at /\ r.was = u /\ FitsAt(r, u, q)
    BY GotoFits
  <1> HIDE DEF r
  <1>2. Leads(<<r>>, u, at, u, q)
    BY <1>1, LeadsOne
  <1> QED
    BY <1>2 DEF r

(* A DELETE record leads from the text before to the text with the         *)
(* characters in it.                                                       *)
LEMMA DeleteLeads ==
  ASSUME NEW at \in Nat, NEW n \in Nat, NEW was \in Text, NEW u, NEW q,
         at + n <= Len(u), Cut(u, at, n) = was, Bottom = {} => at + n < Len(u),
         Typing => at <= q /\ q <= at + n
  PROVE  Leads(<<Record("DELETE", at, n, <<>>, was)>>, was, at, u, q)
  <1> DEFINE r == Record("DELETE", at, n, <<>>, was)
  <1>1. r \in Written /\ r.op = "DELETE" /\ r.at = at /\ r.was = was /\ FitsAt(r, u, q)
    BY DeleteFits
  <1> HIDE DEF r
  <1>2. Leads(<<r>>, was, at, u, q)
    BY <1>1, LeadsOne
  <1> QED
    BY <1>2 DEF r

(* The records of llinepad lead to the padded text.                        *)
LEMMA PadLeads ==
  ASSUME NEW t \in Text, NEW p \in 0..Len(t), p = Len(t) => Bottom # {}
  PROVE  /\ PadRecords(t, p) \in Seq(Written)
         /\ Leads(PadRecords(t, p), t, p, Padded(t, p), p)
  <1>1. Len(t) \in Nat /\ p \in Nat /\ p <= Len(t)
    BY LenProperties DEF Text
  <1>2. CASE p < Len(t)
    <2>1. PadRecords(t, p) = <<>> /\ Padded(t, p) = t
      BY <1>2, PaddedShape DEF PadRecords
    <2> QED
      BY <2>1, LeadsNone DEF Leads
  <1>3. CASE p = Len(t)
    <2> DEFINE g == Record("GOTO", p, 0, <<>>, t)
               d == Record("DELETE", p, 1, <<>>, t)
               T == Padded(t, p)
    <2>1. T \in Text /\ Len(T) = Len(t) + 1 /\ \A i \in 1..Len(t) : T[i] = t[i]
      BY <1>3, PaddedShape
    <2> HIDE DEF T
    <2>2. Cut(T, Len(t), 1) = t
      BY <2>1, BottomBack
    <2>3. Leads(<<g>>, t, p, t, p)
      BY <1>1, GotoLeads
    <2>4. Leads(<<d>>, t, p, T, p)
      BY <1>1, <1>3, <2>1, <2>2, DeleteLeads
    <2>5. PadRecords(t, p) = <<g>> \o <<d>>
      BY <1>1, <1>3 DEF PadRecords
    <2> HIDE DEF g, d
    <2>6. Leads(<<g>> \o <<d>>, t, p, T, p)
      BY <2>3, <2>4, LeadsJoin
    <2> QED
      BY <2>5, <2>6 DEF Leads, T
  <1> QED
    BY <1>1, <1>2, <1>3

(* The end of the line before e, or 0.                                     *)
IsStart(s, e, b) ==
  b \in {0} \cup LineEnds(s) /\ b < e /\ \A j \in LineEnds(s) : j < e => j <= b

(* The records of one line of a string lead from the text in which it is   *)
(* missing to that which has it.                                           *)
LEMMA LineLeads ==
  ASSUME NEW t \in Text, NEW p \in Nat, p < Len(t), NEW s \in Seq(Char),
         NEW e \in LineEnds(s), NEW b, IsStart(s, e, b)
  PROVE  Leads(LineRecords(t, p, s, e),
               Sofar(t, p, s, b), p + b, Sofar(t, p, s, e), p + e)
  <1> DEFINE n == (IF s[e] = NL THEN e - 1 ELSE e) - b
             x == IF n > 0 THEN <<Record("DELETE", p + b, n, <<>>, Sofar(t, p, s, b))>>
                  ELSE <<>>
             y == <<Record("GOTO", p + b, 0, <<>>, Sofar(t, p, s, b + n))>>
             z == IF s[e] = NL
                    THEN <<Record("DELETE", p + e - 1, 1, <<>>, Sofar(t, p, s, e - 1))>>
                    ELSE <<>>
  <1>1. /\ Len(s) \in Nat /\ e \in 1..Len(s) /\ b \in 0..Len(s) /\ b < e /\ Len(t) \in Nat
        /\ b \in Nat /\ e \in Nat
    BY LenProperties DEF LineEnds, IsStart, Text
  <1>2. /\ n \in Nat /\ b + n \in 0..Len(s) /\ b + n <= e /\ b \in 0..(b + n)
        /\ b + n \in b..Len(s) /\ (b + n) - b = n
        /\ s[e] = NL => b + n = e - 1
        /\ s[e] # NL => b + n = e
    BY <1>1
  <1>3. LineRecords(t, p, s, e) = (x \o y) \o z
    <2>1. b = CHOOSE i \in {0} \cup LineEnds(s) :
                 i < e /\ \A j \in LineEnds(s) : j < e => j <= i
      <3>1. \A i \in {0} \cup LineEnds(s) :
               (i < e /\ \A j \in LineEnds(s) : j < e => j <= i) => i = b
        <4>1. TAKE i \in {0} \cup LineEnds(s)
        <4>2. HAVE i < e /\ \A j \in LineEnds(s) : j < e => j <= i
        <4>3. i \in Nat /\ i >= 0
          BY <1>1 DEF LineEnds
        <4>4. i <= b
          BY <1>1, <4>1, <4>2 DEF IsStart
        <4>5. b <= i
          BY <1>1, <4>2, <4>3 DEF IsStart
        <4> QED
          BY <1>1, <4>3, <4>4, <4>5
      <3>2. b \in {0} \cup LineEnds(s) /\ b < e /\ \A j \in LineEnds(s) : j < e => j <= b
        BY DEF IsStart
      <3> QED
        BY <3>1, <3>2
    <2> QED
      BY <2>1 DEF LineRecords, Sofar
  <1> HIDE DEF n
  <1>4. /\ Sofar(t, p, s, b) \in Text /\ Len(Sofar(t, p, s, b)) = Len(t) + b
        /\ Sofar(t, p, s, b + n) \in Text /\ Len(Sofar(t, p, s, b + n)) = Len(t) + (b + n)
    BY <1>1, <1>2, SofarShape
  <1>5. Leads(x, Sofar(t, p, s, b), p + b, Sofar(t, p, s, b + n), p + b)
    <2>1. CASE n > 0
      <3>1. /\ p + b + n < Len(Sofar(t, p, s, b + n))
            /\ Cut(Sofar(t, p, s, b + n), p + b, n) = Sofar(t, p, s, b)
        BY <1>1, <1>2, SofarTakenBack
      <3>2. p + b \in Nat /\ p + b + n <= Len(Sofar(t, p, s, b + n))
            /\ p + b <= p + b /\ p + b <= p + b + n
        BY <1>1, <1>2, <1>4, <3>1
      <3>3. x = <<Record("DELETE", p + b, n, <<>>, Sofar(t, p, s, b))>>
        BY <2>1
      <3> QED
        BY <1>2, <1>4, <3>1, <3>2, <3>3, DeleteLeads
    <2>2. CASE ~(n > 0)
      <3>1. n = 0 /\ b + n = b
        BY <1>1, <1>2, <2>2
      <3>2. x = <<>>
        BY <2>2
      <3> QED
        BY <3>1, <3>2, LeadsNone
    <2> QED
      BY <2>1, <2>2
  <1>6. ASSUME NEW q
        PROVE  Leads(y, Sofar(t, p, s, b + n), p + b, Sofar(t, p, s, b + n), q)
    <2>1. p + b \in Nat /\ p + b <= Len(Sofar(t, p, s, b + n))
      BY <1>1, <1>2, <1>4
    <2> QED
      BY <1>4, <2>1, GotoLeads
  <1> HIDE DEF x, y
  <1>7. CASE s[e] = NL
    <2>1. b + n = e - 1 /\ e - 1 \in 0..Len(s) /\ e \in (e - 1)..Len(s)
          /\ p + (e - 1) = p + e - 1 /\ e - (e - 1) = 1 /\ p + e - 1 \in Nat
      BY <1>1, <1>2, <1>7
    <2>2. /\ p + (e - 1) + 1 < Len(Sofar(t, p, s, e))
          /\ Cut(Sofar(t, p, s, e), p + (e - 1), 1) = Sofar(t, p, s, e - 1)
      BY <1>1, <2>1, SofarTakenBack
    <2>3. Sofar(t, p, s, e) \in Text /\ Len(Sofar(t, p, s, e)) = Len(t) + e
      <3>1. e \in 0..Len(s)
        BY <1>1
      <3> QED
        BY <3>1, SofarShape
    <2>4. p + e - 1 + 1 <= Len(Sofar(t, p, s, e)) /\ p + e - 1 + 1 < Len(Sofar(t, p, s, e))
          /\ p + e - 1 <= p + e /\ p + e <= p + e - 1 + 1
      BY <1>1, <2>3
    <2>5. Leads(z, Sofar(t, p, s, e - 1), p + e - 1, Sofar(t, p, s, e), p + e)
      <3>1. z = <<Record("DELETE", p + e - 1, 1, <<>>, Sofar(t, p, s, e - 1))>>
        BY <1>7
      <3>2. Cut(Sofar(t, p, s, e), p + e - 1, 1) = Sofar(t, p, s, e - 1)
        BY <2>1, <2>2
      <3>3. Sofar(t, p, s, e - 1) \in Text
        BY <1>4, <2>1
      <3> QED
        BY <2>1, <2>4, <3>1, <3>2, <3>3, DeleteLeads
    <2>6. Leads(y, Sofar(t, p, s, b + n), p + b, Sofar(t, p, s, e - 1), p + e - 1)
      BY <1>6, <2>1
    <2> HIDE DEF z
    <2>7. Leads(x \o y, Sofar(t, p, s, b), p + b, Sofar(t, p, s, e - 1), p + e - 1)
      BY <1>5, <2>6, LeadsJoin
    <2> QED
      BY <1>3, <2>5, <2>7, LeadsJoin
  <1>8. CASE s[e] # NL
    <2>1. b + n = e
      BY <1>2, <1>8
    <2>2. z = <<>>
      BY <1>8
    <2>3. Leads(y, Sofar(t, p, s, b + n), p + b, Sofar(t, p, s, e), p + e)
      BY <1>6, <2>1
    <2>4. Leads(x \o y, Sofar(t, p, s, b), p + b, Sofar(t, p, s, e), p + e)
      BY <1>5, <2>3, LeadsJoin
    <2>5. Leads(z, Sofar(t, p, s, e), p + e, Sofar(t, p, s, e), p + e)
      BY <2>2, LeadsNone
    <2> HIDE DEF z
    <2> QED
      BY <1>3, <2>4, <2>5, LeadsJoin
  <1> QED
    BY <1>7, <1>8

(* Padding first makes no difference to what is inserted.                  *)
LEMMA PastePadded ==
  ASSUME NEW t \in Text, NEW p \in 0..Len(t), NEW s \in Seq(Char), s # <<>>
  PROVE  Paste(Padded(t, p), p, s) = Paste(t, p, s)
  <1> DEFINE T == Padded(t, p)
             u == Paste(t, p, s)
             v == Paste(T, p, s)
  <1>1. /\ T \in Text
        /\ Len(T) = IF p = Len(t) THEN Len(t) + 1 ELSE Len(t)
        /\ \A i \in 1..Len(t) : T[i] = t[i]
    BY PaddedShape
  <1>2. Len(t) \in Nat /\ p \in Nat /\ p <= Len(t) /\ Len(s) \in Nat
    BY LenProperties DEF Text
  <1>3. /\ u \in Text /\ Len(u) = Len(T) + Len(s)
        /\ \A i \in 1..Len(u) :
             u[i] = IF i <= p THEN t[i] ELSE IF i <= p + Len(s) THEN s[i - p] ELSE T[i - Len(s)]
    BY PasteShape
  <1> HIDE DEF T, u
  <1>4. p \in 0..Len(T) /\ p < Len(T)
    BY <1>1, <1>2
  <1>5. Padded(T, p) = T
    BY <1>1, <1>4, PaddedShape
  <1>6. /\ v \in Text /\ Len(v) = Len(Padded(T, p)) + Len(s)
        /\ \A i \in 1..Len(v) :
             v[i] = IF i <= p THEN T[i] ELSE IF i <= p + Len(s) THEN s[i - p]
                    ELSE Padded(T, p)[i - Len(s)]
    <2>1. T \in Text
      BY <1>1
    <2> QED
      BY <1>4, <2>1, PasteShape
  <1> HIDE DEF v
  <1>7. Len(v) = Len(u)
    BY <1>3, <1>5, <1>6
  <1>8. ASSUME NEW i \in 1..Len(u)
        PROVE  v[i] = u[i]
    <2>1. i <= p => i \in 1..Len(t)
      BY <1>1, <1>2, <1>3
    <2>2. v[i] = IF i <= p THEN T[i] ELSE IF i <= p + Len(s) THEN s[i - p] ELSE T[i - Len(s)]
      BY <1>5, <1>6, <1>7
    <2>3. u[i] = IF i <= p THEN t[i] ELSE IF i <= p + Len(s) THEN s[i - p] ELSE T[i - Len(s)]
      BY <1>3
    <2> QED
      BY <1>1, <2>1, <2>2, <2>3
  <1>9. v = u
    BY <1>3, <1>6, <1>7, <1>8, SameText
  <1> QED
    BY <1>9 DEF u, v, T

(* The last end of a line up to e, or 0.                                   *)
IsLast(s, e, b) ==
  b \in {0} \cup LineEnds(s) /\ b <= e /\ \A j \in LineEnds(s) : j <= e => j <= b

(* linserts: its records lead to the text with the string in it, line      *)
(* after line.                                                             *)
LEMMA InsertedLeads ==
  ASSUME NEW t \in Text, NEW p \in 0..Len(t), NEW s \in Seq(Char),
         p = Len(t) => Bottom # {}
  PROVE  Leads(Inserted(t, p, s), t, p, Paste(t, p, s), p + Len(s))
  <1> DEFINE T == Padded(t, p)
             N == Len(s)
  <1>1. /\ T \in Text /\ p \in Nat /\ p < Len(T)
        /\ N \in Nat /\ \A e \in LineEnds(s) : e \in 1..N
    <2>1. T \in Text /\ Len(T) = IF p = Len(t) THEN Len(t) + 1 ELSE Len(t)
      BY PaddedShape
    <2>2. Len(t) \in Nat /\ N \in Nat
      BY LenProperties DEF Text
    <2>3. \A e \in LineEnds(s) : e \in 1..N
      BY DEF LineEnds
    <2> QED
      BY <2>1, <2>2, <2>3
  <1> HIDE DEF T
  <1>2. ASSUME NEW e \in 1..N, NEW b, e \in LineEnds(s), IsLast(s, e - 1, b)
        PROVE  Leads(InsertedLine(t, p, s, e),
                     Sofar(T, p, s, b), p + b, Sofar(T, p, s, e), p + e)
    <2>1. IsStart(s, e, b)
      BY <1>1, <1>2 DEF IsLast, IsStart
    <2> QED
      BY <1>1, <1>2, <2>1, LineLeads DEF InsertedLine, T
  <1>3. \A e \in 1..N : \E b : IsLast(s, e - 1, b)
    <2> DEFINE A == {n \in Nat : \E b : IsLast(s, n, b)}
    <2>1. 0 \in A
      <3>1. IsLast(s, 0, 0)
        BY <1>1 DEF IsLast
      <3> QED
        BY <3>1
    <2>2. ASSUME NEW n \in A
          PROVE  n + 1 \in A
      <3>1. PICK b : IsLast(s, n, b)
        OBVIOUS
      <3>2. CASE n + 1 \in LineEnds(s)
        <4>1. IsLast(s, n + 1, n + 1)
          BY <1>1, <3>2 DEF IsLast
        <4> QED
          BY <4>1
      <3>3. CASE n + 1 \notin LineEnds(s)
        <4>1. IsLast(s, n + 1, b)
          BY <1>1, <3>1, <3>3 DEF IsLast
        <4> QED
          BY <4>1
      <3> QED
        BY <3>2, <3>3
    <2>3. A \in SUBSET Nat
      OBVIOUS
    <2> HIDE DEF A
    <2>4. \A n \in Nat : n \in A
      BY <2>1, <2>2, <2>3, Inductive
    <2>5. \A e \in 1..N : e - 1 \in Nat
      BY <1>1
    <2> QED
      BY <2>4, <2>5 DEF A
  <1>4. InsertedBase(t, p, s) \in Seq(Written)
    <2>1. PadRecords(t, p) \in Seq(Written)
      BY PadLeads
    <2> QED
      BY <2>1, EmptySeq DEF InsertedBase
  <1>5. \A e \in 1..N : InsertedLine(t, p, s, e) \in Seq(Written)
    <2> TAKE e \in 1..N
    <2>1. CASE e \in LineEnds(s)
      <3>1. PICK b : IsLast(s, e - 1, b)
        BY <1>3
      <3> QED
        BY <1>2, <2>1, <3>1 DEF Leads
    <2>2. CASE e \notin LineEnds(s)
      BY <2>2, EmptySeq DEF InsertedLine
    <2> QED
      BY <2>1, <2>2
  <1>6. PICK g \in [0..N -> Seq(Written)] :
            /\ g[0] = InsertedBase(t, p, s)
            /\ \A e \in 1..N : g[e] = g[e - 1] \o InsertedLine(t, p, s, e)
            /\ Inserted(t, p, s) = g[N]
    BY <1>4, <1>5, InsertedSteps
  <1>7. CASE s = <<>>
    <2>1. N = 0
      BY <1>7
    <2>2. Inserted(t, p, s) = <<>>
      BY <1>6, <1>7, <2>1 DEF InsertedBase
    <2>3. Paste(t, p, s) = t /\ p + Len(s) = p
      BY <1>1, <1>7, <2>1 DEF Paste
    <2> QED
      BY <2>2, <2>3, LeadsNone
  <1>8. CASE s # <<>>
    <2> DEFINE Done(e) == \E b : IsLast(s, e, b) /\ Leads(g[e], t, p, Sofar(T, p, s, b), p + b)
    <2>1. Done(0)
      <3>1. IsLast(s, 0, 0)
        BY <1>1 DEF IsLast
      <3>2. Sofar(T, p, s, 0) = T /\ p + 0 = p
        BY <1>1, SofarWhole DEF Text
      <3>3. g[0] = PadRecords(t, p)
        BY <1>6, <1>8 DEF InsertedBase
      <3>4. Leads(g[0], t, p, T, p)
        BY <3>3, PadLeads DEF T
      <3> QED
        BY <3>1, <3>2, <3>4
    <2>2. ASSUME NEW n \in Nat, n + 1 <= N, Done(n)
          PROVE  Done(n + 1)
      <3> DEFINE e == n + 1
      <3>1. e \in 1..N /\ e - 1 = n
        BY <1>1, <2>2
      <3>2. PICK b : IsLast(s, n, b) /\ Leads(g[n], t, p, Sofar(T, p, s, b), p + b)
        BY <2>2
      <3>3. g[e] = g[n] \o InsertedLine(t, p, s, e)
        BY <1>6, <3>1
      <3>4. CASE e \in LineEnds(s)
        <4>1. Leads(InsertedLine(t, p, s, e), Sofar(T, p, s, b), p + b, Sofar(T, p, s, e), p + e)
          BY <1>2, <3>1, <3>2, <3>4
        <4>2. Leads(g[e], t, p, Sofar(T, p, s, e), p + e)
          BY <3>2, <3>3, <4>1, LeadsJoin
        <4>3. IsLast(s, e, e)
          BY <3>4 DEF IsLast
        <4> QED
          BY <4>2, <4>3
      <3>5. CASE e \notin LineEnds(s)
        <4>1. Leads(<<>>, Sofar(T, p, s, b), p + b, Sofar(T, p, s, b), p + b)
          BY LeadsNone
        <4>2. InsertedLine(t, p, s, e) = <<>>
          BY <3>5 DEF InsertedLine
        <4>3. Leads(g[e], t, p, Sofar(T, p, s, b), p + b)
          BY <3>2, <3>3, <4>1, <4>2, LeadsJoin
        <4>4. IsLast(s, e, b)
          BY <1>1, <3>1, <3>2, <3>5 DEF IsLast
        <4> QED
          BY <4>3, <4>4
      <3> QED
        BY <3>4, <3>5
    <2> HIDE DEF Done
    <2> DEFINE A == {n \in Nat : n <= N => Done(n)}
    <2>3. 0 \in A
      BY <2>1
    <2>4. \A n \in A : n + 1 \in A
      BY <1>1, <2>2
    <2>5. A \in SUBSET Nat
      OBVIOUS
    <2> HIDE DEF A
    <2>6. N \in A
      BY <1>1, <2>3, <2>4, <2>5, Inductive
    <2>7. Done(N)
      BY <1>1, <2>6 DEF A
    <2>8. PICK b : IsLast(s, N, b) /\ Leads(g[N], t, p, Sofar(T, p, s, b), p + b)
      BY <2>7 DEF Done
    <2>9. b = N
      <3>1. N # 0
        BY <1>8, EmptySeq
      <3>2. N \in LineEnds(s)
        BY <1>1, <3>1 DEF LineEnds
      <3> QED
        BY <1>1, <2>8, <3>2 DEF IsLast
    <2>10. Sofar(T, p, s, N) = Paste(T, p, s)
      BY <1>1, SofarWhole DEF Text
    <2>11. Paste(T, p, s) = Paste(t, p, s)
      BY <1>8, PastePadded DEF T
    <2> QED
      BY <1>6, <2>8, <2>9, <2>10, <2>11
  <1> QED
    BY <1>7, <1>8

(* ldeletedot: its record leads to the text without the characters.        *)
LEMMA DeletedLeads ==
  ASSUME NEW t \in Text, NEW p \in Nat, NEW n \in Nat, p + n < Len(t), NEW q
  PROVE  Leads(Deleted(t, p, n), t, p, Cut(t, p, n), q)
  <1> DEFINE h == SubSeq(t, p + 1, p + n)
             c == Cut(t, p, n)
             r == Record("INSERT", p, 0, h, t)
  <1>1. c \in Text /\ p < Len(c) /\ h \in Seq(Char) /\ Paste(c, p, h) = t
    BY DeleteBack
  <1> HIDE DEF h, c
  <1>2. /\ r \in Written /\ r.op = "INSERT" /\ r.at = p /\ r.len = 0
        /\ r.text = h /\ r.was = t
    BY <1>1 DEF Record, Written, Edits
  <1> HIDE DEF r
  <1>3. Len(c) \in Nat /\ p \in 0..Len(c)
    BY <1>1, LenProperties DEF Text
  <1>4. Cut(c, p, 0) = c
    BY <1>1, <1>3, CutNone
  <1>5. TakenBack(c, r) = t
    BY <1>1, <1>2, <1>4 DEF TakenBack
  <1>6. FitsAt(r, c, q)
    BY <1>1, <1>2, <1>3, <1>5 DEF FitsAt
  <1>7. Leads(<<r>>, t, p, c, q)
    BY <1>2, <1>6, LeadsOne
  <1> QED
    BY <1>7 DEF Deleted, r, h, c

(* lwrite: its records lead to the text with the character overwritten, or *)
(* added at the end of a line.                                             *)
LEMMA OverwriteLeads ==
  ASSUME NEW t \in Text, NEW p \in 0..Len(t), p = Len(t) => Bottom # {},
         NEW c \in Char, NEW T, T = Padded(t, p),
         NEW n, n = IF T[p + 1] # NL THEN 1 ELSE 0
  PROVE  /\ Leads(PadRecords(t, p) \o <<Record("REPLACE", p, 1, SubSeq(T, p + 1, p + n), T)>>,
                  t, p, Paste(Cut(T, p, n), p, <<c>>), p + 1)
         /\ Paste(Cut(T, p, n), p, <<c>>) \in Text
         /\ p + 1 < Len(Paste(Cut(T, p, n), p, <<c>>))
  <1> DEFINE h == SubSeq(T, p + 1, p + n)
             k == Cut(T, p, n)
             u == Paste(k, p, <<c>>)
             r == Record("REPLACE", p, 1, h, T)
  <1>1. T \in Text /\ p \in Nat /\ p < Len(T) /\ Len(T) \in Nat
    <2>1. T \in Text /\ Len(T) = IF p = Len(t) THEN Len(t) + 1 ELSE Len(t)
      BY PaddedShape
    <2>2. Len(t) \in Nat /\ Len(T) \in Nat
      BY <2>1, LenProperties DEF Text
    <2> QED
      BY <2>1, <2>2
  <1>2. n \in Nat /\ p + n < Len(T)
    <2>1. T # <<>> /\ T[Len(T)] = NL
      <3>1. T # <<>>
        BY <1>1, EmptySeq DEF Text
      <3> QED
        BY <1>1, <3>1 DEF Text
    <2> QED
      BY <1>1, <2>1
  <1>3. k \in Text /\ p < Len(k) /\ h \in Seq(Char) /\ Paste(k, p, h) = T
    BY <1>1, <1>2, DeleteBack
  <1> HIDE DEF h, k
  <1>4. <<c>> \in Seq(Char) /\ Len(<<c>>) = 1
    OBVIOUS
  <1>5. u \in Text /\ Len(u) = Len(k) + 1 /\ Cut(u, p, 1) = k
    <2>1. u \in Text /\ Len(u) = Len(k) + Len(<<c>>) /\ Cut(u, p, Len(<<c>>)) = k
      BY <1>1, <1>3, <1>4, InsertBack
    <2> QED
      BY <1>4, <2>1
  <1> HIDE DEF u
  <1>6. /\ r \in Written /\ r.op = "REPLACE" /\ r.at = p /\ r.len = 1
        /\ r.text = h /\ r.was = T
    BY <1>1, <1>3 DEF Record, Written, Edits
  <1> HIDE DEF r
  <1>7. Len(k) \in Nat
    BY <1>3, LenProperties DEF Text
  <1>8. TakenBack(u, r) = T
    BY <1>3, <1>5, <1>6 DEF TakenBack
  <1>9. FitsAt(r, u, p + 1)
    BY <1>1, <1>3, <1>5, <1>6, <1>7, <1>8 DEF FitsAt
  <1>10. Leads(<<r>>, T, p, u, p + 1)
    BY <1>6, <1>9, LeadsOne
  <1>11. Leads(PadRecords(t, p), t, p, T, p)
    BY PadLeads
  <1>12. Leads(PadRecords(t, p) \o <<r>>, t, p, u, p + 1)
    BY <1>10, <1>11, LeadsJoin
  <1>13. p + 1 < Len(u)
    BY <1>1, <1>3, <1>5, <1>7
  <1> QED
    BY <1>5, <1>12, <1>13 DEF r, u, k, h

(* A character typed: where it is put, and what it does to the text.       *)
LEMMA TypedShape ==
  ASSUME NEW t \in Text, NEW p \in 0..Len(t), NEW c \in Char
  PROVE  /\ Paste(t, p, <<c>>) \in Text
         /\ Len(Paste(t, p, <<c>>)) = Len(Padded(t, p)) + 1
         /\ Padded(t, p) \in Text /\ p < Len(Padded(t, p)) /\ Len(Padded(t, p)) \in Nat
         /\ Cut(Paste(t, p, <<c>>), p, 1) = Padded(t, p)
  <1> DEFINE T == Padded(t, p)
  <1>1. T \in Text /\ p \in Nat /\ p < Len(T) /\ Len(T) \in Nat
    <2>1. T \in Text /\ Len(T) = IF p = Len(t) THEN Len(t) + 1 ELSE Len(t)
      BY PaddedShape
    <2>2. Len(t) \in Nat /\ Len(T) \in Nat
      BY <2>1, LenProperties DEF Text
    <2> QED
      BY <2>1, <2>2
  <1>2. <<c>> \in Seq(Char) /\ Len(<<c>>) = 1 /\ <<c>> # <<>>
    OBVIOUS
  <1>3. Paste(T, p, <<c>>) = Paste(t, p, <<c>>)
    BY <1>2, PastePadded
  <1> HIDE DEF T
  <1>4. /\ Paste(T, p, <<c>>) \in Text
        /\ Len(Paste(T, p, <<c>>)) = Len(T) + Len(<<c>>)
        /\ Cut(Paste(T, p, <<c>>), p, Len(<<c>>)) = T
    BY <1>1, <1>2, InsertBack
  <1> QED
    BY <1>1, <1>2, <1>3, <1>4 DEF T

(* The cursor record of a typed character; a newline has none.             *)
TypedGoto(t, p, c) ==
  IF c = NL THEN <<>> ELSE <<Record("GOTO", p, 0, <<>>, Paste(t, p, <<c>>))>>

(* It leads from where the character was put: at the cursor, or behind it  *)
(* when it ended a line.                                                   *)
LEMMA TypedGotoLeads ==
  ASSUME NEW t \in Text, NEW p \in 0..Len(t), NEW c \in Char
  PROVE  Leads(TypedGoto(t, p, c), Paste(t, p, <<c>>), IF c = NL THEN p + 1 ELSE p,
               Paste(t, p, <<c>>), p + 1)
  <1> DEFINE u == Paste(t, p, <<c>>)
  <1>1. u \in Text /\ p \in Nat /\ p <= Len(u)
    <2>1. u \in Text /\ Len(u) = Len(Padded(t, p)) + 1 /\ p < Len(Padded(t, p))
          /\ Len(Padded(t, p)) \in Nat
      BY TypedShape
    <2> QED
      BY <2>1
  <1> HIDE DEF u
  <1>2. CASE c = NL
    <2>1. Leads(<<>>, u, p + 1, u, p + 1)
      BY LeadsNone
    <2> QED
      BY <1>2, <2>1 DEF TypedGoto, u
  <1>3. CASE c # NL
    <2>1. Leads(<<Record("GOTO", p, 0, <<>>, u)>>, u, p, u, p + 1)
      BY <1>1, GotoLeads
    <2> QED
      BY <1>3, <2>1 DEF TypedGoto, u
  <1> QED
    BY <1>2, <1>3

(* self_insert: the records of a character that is not collapsed.          *)
LEMMA TypedLeads ==
  ASSUME NEW t \in Text, NEW p \in 0..Len(t), p = Len(t) => Bottom # {}, NEW c \in Char
  PROVE  Leads(PadRecords(t, p) \o <<Record("DELETE", p, 1, <<>>, Padded(t, p))>>
                                 \o TypedGoto(t, p, c),
               t, p, Paste(t, p, <<c>>), p + 1)
  <1> DEFINE u == Paste(t, p, <<c>>)
             T == Padded(t, p)
             q == IF c = NL THEN p + 1 ELSE p
             x == PadRecords(t, p)
             y == <<Record("DELETE", p, 1, <<>>, T)>>
             z == TypedGoto(t, p, c)
  <1>1. /\ u \in Text /\ Len(u) = Len(T) + 1 /\ T \in Text /\ p < Len(T)
        /\ Len(T) \in Nat /\ Cut(u, p, 1) = T
    BY TypedShape
  <1>2. p \in Nat /\ p <= q /\ q <= p + 1
    BY LenProperties DEF Text
  <1>3. Leads(x, t, p, T, p)
    BY PadLeads
  <1>4. Leads(z, u, q, u, p + 1)
    BY TypedGotoLeads
  <1> HIDE DEF u, T, q, x, z
  <1>5. p + 1 <= Len(u) /\ p + 1 < Len(u)
    BY <1>1, <1>2
  <1>6. Leads(y, T, p, u, q)
    BY <1>1, <1>2, <1>5, DeleteLeads
  <1> HIDE DEF y
  <1>7. Leads(x \o y, t, p, u, q)
    BY <1>3, <1>6, LeadsJoin
  <1>8. Leads((x \o y) \o z, t, p, u, p + 1)
    BY <1>4, <1>7, LeadsJoin
  <1> QED
    BY <1>8 DEF u, T, q, x, y, z

(* The first character of a line that had to be added, when it is of the   *)
(* class of the last one typed: one record takes both back.                *)
LEMMA TypedBelowLeads ==
  ASSUME NEW t \in Text, Bottom # {}, NEW c \in Char
  PROVE  LET p == Len(t)
             pad == PadRecords(t, p)
         IN  Leads(<<pad[1], [pad[2] EXCEPT !.len = 2]>> \o TypedGoto(t, p, c),
                   t, p, Paste(t, p, <<c>>), p + 1)
  <1> DEFINE p == Len(t)
             pad == PadRecords(t, p)
             u == Paste(t, p, <<c>>)
             T == Padded(t, p)
             q == IF c = NL THEN p + 1 ELSE p
             z == TypedGoto(t, p, c)
             x == <<Record("GOTO", p, 0, <<>>, t)>>
             y == <<Record("DELETE", p, 2, <<>>, t)>>
  <1>1. p \in Nat /\ p \in 0..Len(t)
    BY LenProperties DEF Text
  <1>2. u \in Text /\ Len(u) = Len(T) + 1
    BY <1>1, TypedShape
  <1>3. Len(T) = p + 1
    BY <1>1, PaddedShape
  <1>4. \A i \in 1..Len(t) : u[i] = t[i]
    <2>1. <<c>> \in Seq(Char) /\ <<c>> # <<>>
      OBVIOUS
    <2>2. \A i \in 1..Len(u) : u[i] = IF i <= p THEN t[i]
                                      ELSE IF i <= p + Len(<<c>>) THEN <<c>>[i - p]
                                      ELSE T[i - Len(<<c>>)]
      BY <1>1, <2>1, PasteShape
    <2>3. \A i \in 1..Len(t) : i \in 1..Len(u) /\ i <= p
      BY <1>1, <1>2, <1>3
    <2> HIDE DEF u, T
    <2> QED
      BY <2>2, <2>3
  <1>5. Cut(u, p, 2) = t
    <2> HIDE DEF u, T
    <2>1. Len(u) = Len(t) + 2
      BY <1>1, <1>2, <1>3
    <2> QED
      BY <1>2, <1>4, <2>1, BottomBack
  <1>6. <<pad[1], [pad[2] EXCEPT !.len = 2]>> = x \o y
    BY <1>1 DEF PadRecords, Record
  <1>7. Leads(z, u, q, u, p + 1)
    BY <1>1, TypedGotoLeads
  <1> HIDE DEF u, T, z, pad
  <1>8. Leads(x, t, p, t, p)
    BY <1>1, GotoLeads
  <1>9. Leads(y, t, p, u, q)
    <2>1. p + 2 <= Len(u) /\ p <= q /\ q <= p + 2
      BY <1>1, <1>2, <1>3
    <2> HIDE DEF q, p
    <2> QED
      BY <1>1, <1>2, <1>5, <2>1, DeleteLeads
  <1> HIDE DEF x, y, p, q
  <1>10. Leads(x \o y, t, p, u, q)
    BY <1>8, <1>9, LeadsJoin
  <1>11. Leads((x \o y) \o z, t, p, u, p + 1)
    BY <1>7, <1>10, LeadsJoin
  <1> QED
    BY <1>6, <1>11 DEF u, z, pad, p

(* What undo_command records when it takes back the change of r.           *)
UndoneRecords(t, r) ==
  (IF r.len = 0 THEN <<>> ELSE Deleted(t, r.at, r.len))
    \o Inserted(Cut(t, r.at, r.len), r.at, r.text)

(* These records mark no save, and the text stays a text; while the last   *)
(* line's end is left alone they lead from the text before to the text     *)
(* after, so that a redo fits.                                             *)
LEMMA UndoneLeads ==
  ASSUME NEW t \in Text, NEW r \in Written, r.at + r.len <= Len(t),
         Bottom = {} => r.at + r.len < Len(t)
  PROVE  /\ UndoneRecords(t, r) \in Seq(Written)
         /\ \A i \in 1..Len(UndoneRecords(t, r)) : UndoneRecords(t, r)[i].op # "START"
         /\ TakenBack(t, r) \in Text
         /\ r.at <= Len(TakenBack(t, r)) /\ r.at + Len(r.text) <= Len(TakenBack(t, r))
         /\ Bottom = {} => Leads(UndoneRecords(t, r), t, r.at,
                                 TakenBack(t, r), r.at + Len(r.text))
  <1> DEFINE a == r.at
             n == r.len
             s == r.text
             c == Cut(t, a, n)
             x == IF n = 0 THEN <<>> ELSE Deleted(t, a, n)
             y == Inserted(c, a, s)
             u == Paste(c, a, s)
  <1>1. a \in Nat /\ n \in Nat /\ s \in Seq(Char) /\ Len(t) \in Nat /\ Len(s) \in Nat
    BY WrittenFields, LenProperties DEF Text
  <1> HIDE DEF a, n, s
  <1>2. a + n <= Len(t) /\ (Bottom = {} => a + n < Len(t))
    BY DEF a, n
  <1>3. c \in Text /\ Len(c) \in Nat /\ a \in 0..Len(c) /\ (Bottom = {} => a < Len(c))
    <2>1. c \in Text /\ Len(c) = Len(t) - Gone(t, a, n) /\ Gone(t, a, n) \in 0..n
      BY <1>1, <1>2, CutShape
    <2> QED
      BY <1>1, <1>2, <2>1
  <1> HIDE DEF c
  <1>4. Leads(y, c, a, u, a + Len(s))
    <2>1. a = Len(c) => Bottom # {}
      BY <1>1, <1>3
    <2> QED
      BY <1>1, <1>3, <2>1, InsertedLeads
  <1>5. /\ x \in Seq(Written)
        /\ \A i \in 1..Len(x) : x[i].op # "START"
    <2>1. CASE n = 0
      BY <2>1, EmptySeq
    <2>2. CASE n # 0
      <3> DEFINE h == SubSeq(t, a + 1, a + n)
                 d == Record("INSERT", a, 0, h, t)
      <3>1. t \in Seq(Char)
        BY DEF Text
      <3>2. h \in Seq(Char)
        <4>1. \A i \in a + 1 .. a + n : t[i] \in Char
          BY <1>1, <1>2, <3>1, ElementOfSeq
        <4> QED
          BY <1>1, <4>1, SubSeqProperties
      <3> HIDE DEF h
      <3>3. d \in Written /\ d.op = "INSERT"
        BY <1>1, <3>2 DEF Record, Written, Edits
      <3>4. x = <<d>>
        BY <2>2 DEF Deleted, h
      <3> HIDE DEF d, x
      <3> QED
        BY <3>3, <3>4
    <2> QED
      BY <2>1, <2>2
  <1>6. Bottom = {} => Leads(x, t, a, c, a)
    <2>1. HAVE Bottom = {}
    <2>2. CASE n = 0
      <3>1. c = t
        <4>1. a \in 0..Len(t)
          BY <1>1, <1>2
        <4> QED
          BY <2>2, <4>1, CutNone DEF c
      <3> QED
        BY <2>2, <3>1, LeadsNone
    <2>3. CASE n # 0
      <3>1. Leads(Deleted(t, a, n), t, a, Cut(t, a, n), a)
        BY <1>1, <1>2, <2>1, DeletedLeads
      <3> QED
        BY <2>3, <3>1 DEF c
    <2> QED
      BY <2>2, <2>3
  <1>7. u \in Text /\ Len(u) \in Nat /\ a + Len(s) <= Len(u) /\ a <= Len(u)
    <2>1. CASE s = <<>>
      <3>1. u = c /\ Len(s) = 0
        BY <2>1 DEF Paste
      <3> QED
        BY <1>1, <1>3, <3>1
    <2>2. CASE s # <<>>
      <3>1. u \in Text /\ Len(u) = Len(Padded(c, a)) + Len(s)
        BY <1>1, <1>3, <2>2, PasteShape
      <3>2. Len(Padded(c, a)) = IF a = Len(c) THEN Len(c) + 1 ELSE Len(c)
        BY <1>3, PaddedShape
      <3> HIDE DEF u
      <3> QED
        BY <1>1, <1>3, <3>1, <3>2
    <2> QED
      BY <2>1, <2>2
  <1> HIDE DEF x, y, u
  <1>8. y \in Seq(Written) /\ \A i \in 1..Len(y) : y[i].op # "START"
    BY <1>4 DEF Leads
  <1>9. /\ x \o y \in Seq(Written)
        /\ \A i \in 1..Len(x \o y) : (x \o y)[i].op # "START"
    <2>1. Len(x) \in Nat /\ Len(y) \in Nat
      BY <1>5, <1>8, LenProperties
    <2> DEFINE j == x \o y
    <2>2. /\ j \in Seq(Written) /\ Len(j) = Len(x) + Len(y)
          /\ \A i \in 1..Len(x) + Len(y) : j[i] = IF i <= Len(x) THEN x[i] ELSE y[i - Len(x)]
      BY <1>5, <1>8, ConcatProperties
    <2> HIDE DEF j
    <2>3. ASSUME NEW i \in 1..Len(j)
          PROVE  j[i].op # "START"
      <3>1. CASE i <= Len(x)
        <4>1. i \in 1..Len(x) /\ j[i] = x[i]
          BY <2>1, <2>2, <3>1
        <4> QED
          BY <1>5, <4>1
      <3>2. CASE ~(i <= Len(x))
        <4>1. i - Len(x) \in 1..Len(y) /\ j[i] = y[i - Len(x)]
          BY <2>1, <2>2, <3>2
        <4> QED
          BY <1>8, <4>1
      <3> QED
        BY <3>1, <3>2
    <2> QED
      BY <2>2, <2>3 DEF j
  <1>10. Bottom = {} => Leads(x \o y, t, a, u, a + Len(s))
    BY <1>4, <1>6, LeadsJoin
  <1>11. UndoneRecords(t, r) = x \o y
    BY DEF UndoneRecords, x, y, c, a, n, s
  <1>12. TakenBack(t, r) = u
    BY DEF TakenBack, u, c, a, n, s
  <1> QED
    BY <1>7, <1>9, <1>10, <1>11, <1>12 DEF a, s

-----------------------------------------------------------------------------
(***************************************************************************)
(* The lists under uwrite_op and do_undo.                                  *)
(***************************************************************************)

(* Two records that differ in their numbers only.                          *)
Same(r, v) == /\ r.op = v.op /\ r.at = v.at /\ r.len = v.len
              /\ r.text = v.text /\ r.was = v.was

(* A record's number does not matter to what it takes back.                *)
LEMMA SameFits ==
  ASSUME NEW r, NEW v, NEW u, NEW q, Same(r, v), FitsAt(v, u, q)
  PROVE  FitsAt(r, u, q)
  <1>1. TakenBack(u, r) = TakenBack(u, v)
    BY DEF TakenBack, Same
  <1> QED
    BY <1>1 DEF FitsAt, Same

(* uwrite_op numbers the records of a call and leaves the rest of them.    *)
LEMMA NumberedFields ==
  ASSUME NEW recs \in Seq(Written), NEW c \in Nat
  PROVE  /\ Numbered(recs, c) \in Seq(Written)
         /\ Len(Numbered(recs, c)) = Len(recs)
         /\ \A i \in 1..Len(recs) : /\ Same(Numbered(recs, c)[i], recs[i])
                                    /\ Numbered(recs, c)[i].chain = c + i - 1
  <1> DEFINE m == Numbered(recs, c)
  <1>1. Len(recs) \in Nat
    BY LenProperties
  <1>2. m = [i \in 1..Len(recs) |-> [recs[i] EXCEPT !.chain = c + i - 1]]
    BY DEF Numbered
  <1>3. ASSUME NEW i \in 1..Len(recs)
        PROVE  /\ m[i] \in Written
               /\ Same(m[i], recs[i]) /\ m[i].chain = c + i - 1
    <2>1. recs[i] \in Written /\ c + i - 1 \in Nat
      BY <1>1, ElementOfSeq
    <2>2. m[i] = [recs[i] EXCEPT !.chain = c + i - 1]
      BY <1>2
    <2> HIDE DEF m
    <2> QED
      BY <2>1, <2>2 DEF Written, Same
  <1>4. m \in [1..Len(recs) -> Written]
    BY <1>2, <1>3
  <1>5. m \in Seq(Written) /\ Len(m) = Len(recs)
    BY <1>1, <1>4
  <1> QED
    BY <1>3, <1>5

(* Numbered records lead where the records did.                            *)
LEMMA NumberedLeads ==
  ASSUME NEW recs, NEW c \in Nat, NEW t, NEW p, NEW u, NEW q, Leads(recs, t, p, u, q)
  PROVE  Leads(Numbered(recs, c), t, p, u, q)
  <1> DEFINE m == Numbered(recs, c)
  <1>1. recs \in Seq(Written)
    BY DEF Leads
  <1>2. Len(recs) \in Nat
    BY <1>1, LenProperties
  <1>3. /\ m \in Seq(Written) /\ Len(m) = Len(recs)
        /\ \A i \in 1..Len(recs) : Same(m[i], recs[i])
    BY <1>1, NumberedFields
  <1> HIDE DEF m
  <1>4. ASSUME NEW i \in 1..Len(m)
        PROVE  FitsAt(m[i], NextText(m, i, u), NextDot(m, i, q))
    <2>1. i \in 1..Len(recs) /\ Same(m[i], recs[i])
      BY <1>3
    <2>2. FitsAt(recs[i], NextText(recs, i, u), NextDot(recs, i, q))
      BY <2>1 DEF Leads, Fits
    <2>3. i # Len(recs) => Same(m[i + 1], recs[i + 1])
      BY <1>2, <1>3
    <2>4. NextText(m, i, u) = NextText(recs, i, u) /\ NextDot(m, i, q) = NextDot(recs, i, q)
      BY <1>3, <2>3 DEF NextText, NextDot, Same
    <2> QED
      BY <2>1, <2>2, <2>4, SameFits
  <1>5. Fits(m, u, q)
    BY <1>4 DEF Fits
  <1>6. Len(recs) > 0 => Same(m[1], recs[1])
    BY <1>2, <1>3
  <1>7. \A i \in 1..Len(m) : m[i].op # "START"
    BY <1>3 DEF Leads, Same
  <1>8. Leads(m, t, p, u, q)
    BY <1>3, <1>5, <1>6, <1>7 DEF Leads, Same
  <1> QED
    BY <1>8 DEF m

(* The last record of a list that fits a text fits it, and without that    *)
(* record the list fits the text before its change.                        *)
LEMMA FitsTop ==
  ASSUME NEW stk \in Seq(Written), stk # <<>>, NEW u, NEW q, Fits(stk, u, q)
  PROVE  /\ Last(stk) \in Written /\ FitsAt(Last(stk), u, q)
         /\ Front(stk) \in Seq(Written) /\ Len(Front(stk)) = Len(stk) - 1
         /\ \A i \in 1..Len(stk) - 1 : Front(stk)[i] = stk[i]
         /\ Fits(Front(stk), Last(stk).was, Last(stk).at)
  <1> DEFINE n == Len(stk)
             f == Front(stk)
  <1>1. n \in Nat /\ n > 0 /\ n \in 1..n
    <2>1. n \in Nat /\ n # 0
      BY LenProperties, EmptySeq
    <2> QED
      BY <2>1
  <1>2. Last(stk) = stk[n]
    BY DEF Last
  <1>3. stk[n] \in Written
    BY <1>1, ElementOfSeq
  <1>4. FitsAt(stk[n], u, q)
    BY <1>1 DEF Fits, NextText, NextDot
  <1>5. f \in Seq(Written) /\ Len(f) = n - 1 /\ \A i \in 1..n - 1 : f[i] = stk[i]
    <2>1. f = SubSeq(stk, 1, n - 1)
      BY DEF Front
    <2>2. \A i \in 1..n - 1 : stk[i] \in Written
      BY <1>1, ElementOfSeq
    <2> HIDE DEF f, n
    <2>3. 1 \in Int /\ n - 1 \in Int
      BY <1>1
    <2>4. /\ SubSeq(stk, 1, n - 1) \in Seq(Written)
          /\ Len(SubSeq(stk, 1, n - 1)) = IF 1 <= n - 1 THEN (n - 1) - 1 + 1 ELSE 0
          /\ \A i \in 1..(n - 1) - 1 + 1 : SubSeq(stk, 1, n - 1)[i] = stk[1 + i - 1]
      BY <2>2, <2>3, SubSeqProperties
    <2>5. Len(f) = n - 1
      BY <1>1, <2>1, <2>4
    <2>6. \A i \in 1..n - 1 : f[i] = stk[i]
      BY <1>1, <2>1, <2>4
    <2> QED
      BY <2>1, <2>4, <2>5, <2>6
  <1> HIDE DEF f
  <1>6. ASSUME NEW i \in 1..Len(f)
        PROVE  FitsAt(f[i], NextText(f, i, stk[n].was), NextDot(f, i, stk[n].at))
    <2>1. i \in 1..n /\ i # n /\ i \in 1..n - 1 /\ f[i] = stk[i]
      BY <1>1, <1>5
    <2>2. FitsAt(stk[i], stk[i + 1].was, stk[i + 1].at)
      BY <2>1 DEF Fits, NextText, NextDot
    <2>3. CASE i = n - 1
      <3>1. i + 1 = n /\ i = Len(f)
        BY <1>1, <1>5, <2>3
      <3> QED
        BY <2>1, <2>2, <3>1 DEF NextText, NextDot
    <2>4. CASE i # n - 1
      <3>1. i # Len(f) /\ f[i + 1] = stk[i + 1]
        BY <1>1, <1>5, <2>1, <2>4
      <3> QED
        BY <2>1, <2>2, <3>1 DEF NextText, NextDot
    <2> QED
      BY <2>3, <2>4
  <1>7. Fits(f, stk[n].was, stk[n].at)
    BY <1>6 DEF Fits
  <1> QED
    BY <1>2, <1>3, <1>4, <1>5, <1>7 DEF f, n

-----------------------------------------------------------------------------
(***************************************************************************)
(* The inductive invariant of the engine.                                  *)
(***************************************************************************)

(* The part of the engine in which records fit: the end of the last line   *)
(* is not deleted, no window moves the cursor and no redo the text under   *)
(* the characters being typed, and what is redone stays within the lines.  *)
WithinLimits ==
  /\ "delete" \notin Bottom
  /\ Typing => ~Elsewhere /\ ~Redo
  /\ Redo => Bottom = {}

(* The undo list, and the redo list where redo is used, fit the text and   *)
(* the cursor; the redo list holds no marks.                               *)
FitInv ==
  /\ text \in Text /\ dot \in 0..Len(text)
  /\ undo \in Seq(Written) /\ redo \in Seq(Written)
  /\ \A i \in 1..Len(redo) : redo[i].op # "START"
  /\ undoChain \in Nat /\ redoChain \in Nat
  /\ Fits(undo, text, dot)
  /\ Redo => Fits(redo, text, dot)
  /\ ustate \in {"normal", "undo", "redo"} /\ (ustate = "redo" => Redo)

(* An empty list fits any text.                                            *)
LEMMA EmptyFits ==
  ASSUME NEW u, NEW q
  PROVE  <<>> \in Seq(Written) /\ Len(<<>>) = 0 /\ Fits(<<>>, u, q)
  BY EmptySeq DEF Fits

(* It holds in the initial states.                                         *)
LEMMA FitInit == Init => FitInv
  <1>1. <<>> \in Text /\ <<NL>> \in Text /\ Len(<<>>) = 0 /\ Len(<<NL>>) = 1
    <2>1. <<NL>> \in Seq(Char) /\ Len(<<NL>>) = 1 /\ <<NL>>[1] = NL
      BY NewlineIsChar
    <2>2. <<>> \in Seq(Char)
      BY EmptySeq
    <2> QED
      BY <2>1, <2>2 DEF Text
  <1> QED
    BY <1>1, EmptyFits DEF Init, FitInv

(* Records that lead from the text to another, numbered and linked, make a *)
(* list that fits the other.                                               *)
LEMMA AppendFits ==
  ASSUME NEW stk \in Seq(Written), NEW recs, NEW c \in Nat,
         NEW t, NEW p, NEW u, NEW q,
         Fits(stk, t, p), Leads(recs, t, p, u, q)
  PROVE  /\ stk \o Numbered(recs, c) \in Seq(Written)
         /\ c + Len(recs) \in Nat
         /\ Fits(stk \o Numbered(recs, c), u, q)
  <1>1. recs \in Seq(Written)
    BY DEF Leads
  <1> DEFINE m == Numbered(recs, c)
  <1>2. Leads(m, t, p, u, q)
    BY NumberedLeads
  <1> HIDE DEF m
  <1>3. Len(recs) \in Nat /\ m \in Seq(Written)
    BY <1>1, <1>2, LenProperties DEF Leads
  <1>4. stk \o m \in Seq(Written)
    BY <1>3, ConcatProperties
  <1>5. Fits(stk \o m, u, q)
    BY <1>2, <1>3, FitsJoin DEF Leads
  <1> QED
    BY <1>3, <1>4, <1>5 DEF m

(* An editing step that writes the records which lead from its text to its *)
(* text; all do but a collapsing self_insert.                              *)
Recorded == \E recs : /\ Log(recs)
                      /\ Leads(recs, text, dot, text', dot')
                      /\ Len(recs) > 0
                      /\ text' \in Text /\ dot' \in 0..Len(text')
                      /\ ustate' = ustate

(* Such a step keeps the lists fitting: the redo list goes (undo_check),   *)
(* the undo list grows.                                                    *)
LEMMA RecordedFit ==
  ASSUME FitInv, Recorded
  PROVE  FitInv'
  <1>1. PICK recs : /\ Log(recs)
                    /\ Leads(recs, text, dot, text', dot')
                    /\ text' \in Text /\ dot' \in 0..Len(text')
                    /\ ustate' = ustate
    BY DEF Recorded
  <1>2. /\ undo' = undo \o Numbered(recs, undoChain)
        /\ undoChain' = undoChain + Len(recs)
        /\ redo' = <<>> /\ redoChain' = redoChain
    BY <1>1 DEF Log
  <1>3. /\ undo' \in Seq(Written) /\ undoChain' \in Nat
        /\ Fits(undo', text', dot')
    BY <1>1, <1>2, AppendFits DEF FitInv
  <1>4. redo' \in Seq(Written) /\ Len(redo') = 0 /\ Fits(redo', text', dot')
    BY <1>2, EmptyFits
  <1> QED
    BY <1>1, <1>2, <1>3, <1>4 DEF FitInv

(* Unless characters are typed the cursor does not matter to a list.       *)
LEMMA FitsDot ==
  ASSUME NEW stk, NEW u, NEW q, NEW v, Fits(stk, u, q), Typing => v = q
  PROVE  Fits(stk, u, v)
  <1>1. ASSUME NEW i \in 1..Len(stk)
        PROVE  FitsAt(stk[i], NextText(stk, i, u), NextDot(stk, i, v))
    <2>1. FitsAt(stk[i], NextText(stk, i, u), NextDot(stk, i, q))
      BY DEF Fits
    <2>2. Typing => NextDot(stk, i, v) = NextDot(stk, i, q)
      BY DEF NextDot
    <2> QED
      BY <2>1, <2>2 DEF FitsAt
  <1> QED
    BY <1>1 DEF Fits

(* A step that leaves text and lists keeps them fitting.                   *)
LEMMA MovedFit ==
  ASSUME FitInv, undo' = undo, redo' = redo, text' = text,
         dot' \in 0..Len(text), Typing => dot' = dot,
         undoChain' \in Nat, redoChain' \in Nat,
         ustate' \in {"normal", "undo", "redo"}, ustate' = "redo" => Redo
  PROVE  FitInv'
  <1>1. Fits(undo, text, dot')
    BY FitsDot DEF FitInv
  <1>2. Redo => Fits(redo, text, dot')
    BY FitsDot DEF FitInv
  <1> QED
    BY <1>1, <1>2 DEF FitInv

(* An insertion of something changes the text.                             *)
LEMMA PasteLonger ==
  ASSUME NEW t \in Text, NEW p \in 0..Len(t), NEW s \in Seq(Char), s # <<>>
  PROVE  Paste(t, p, s) # t
  <1> DEFINE u == Paste(t, p, s)
  <1>1. Len(t) \in Nat /\ Len(s) \in Nat /\ Len(s) # 0
    BY LenProperties, EmptySeq DEF Text
  <1>2. Len(u) = Len(Padded(t, p)) + Len(s)
    BY PasteShape
  <1>3. Len(Padded(t, p)) = IF p = Len(t) THEN Len(t) + 1 ELSE Len(t)
    BY PaddedShape
  <1> HIDE DEF u
  <1>4. Len(u) # Len(t)
    BY <1>1, <1>2, <1>3
  <1> QED
    BY <1>4 DEF u

(* The movement primitives record where they come from.                    *)
LEMMA MoveToRecorded ==
  ASSUME FitInv, NEW d \in 0..Len(text), MoveTo(d)
  PROVE  Recorded
  <1>1. /\ Log(<<Record("GOTO", dot, 0, <<>>, text)>>)
        /\ text' = text /\ dot' = d /\ ustate' = ustate
    BY DEF MoveTo, Editing, command
  <1>2. text \in Text /\ dot \in 0..Len(text) /\ Len(text) \in Nat
    BY LenProperties DEF FitInv, Text
  <1>3. Leads(<<Record("GOTO", dot, 0, <<>>, text)>>, text, dot, text, d)
    BY <1>2, GotoLeads
  <1>4. Len(<<Record("GOTO", dot, 0, <<>>, text)>>) > 0
    OBVIOUS
  <1> QED
    BY <1>1, <1>2, <1>3, <1>4 DEF Recorded

(* insert records what it puts in, and something at least.                 *)
LEMMA InsertRecorded ==
  ASSUME FitInv, NEW s \in Strings, Insert(s)
  PROVE  Recorded
  <1>1. /\ Log(Inserted(text, dot, s))
        /\ text' = Paste(text, dot, s) /\ dot' = dot + Len(s) /\ ustate' = ustate
        /\ dot = Len(text) => Bottom # {}
    BY DEF Insert, Inserting, Editing, command
  <1>2. text \in Text /\ dot \in 0..Len(text) /\ Len(text) \in Nat /\ dot \in Nat
    BY LenProperties DEF FitInv, Text
  <1>3. s \in Seq(Char) /\ s # <<>> /\ Len(s) \in Nat
    <2>1. s \in Seq(Char) /\ s # <<>>
      BY UndoConstants
    <2> QED
      BY <2>1, LenProperties
  <1>4. Leads(Inserted(text, dot, s), text, dot, text', dot')
    BY <1>1, <1>2, <1>3, InsertedLeads
  <1>5. text' \in Text /\ dot' \in 0..Len(text')
    <2> DEFINE u == Paste(text, dot, s)
    <2>1. u \in Text /\ Len(u) = Len(Padded(text, dot)) + Len(s)
      BY <1>2, <1>3, PasteShape
    <2>2. Len(Padded(text, dot)) = IF dot = Len(text) THEN Len(text) + 1 ELSE Len(text)
      BY <1>2, PaddedShape
    <2> HIDE DEF u
    <2>3. dot + Len(s) \in 0..Len(u)
      BY <1>2, <1>3, <2>1, <2>2
    <2> QED
      BY <1>1, <2>1, <2>3 DEF u
  <1>6. Len(Inserted(text, dot, s)) > 0
    <2> DEFINE recs == Inserted(text, dot, s)
    <2>1. recs \in Seq(Written)
      BY <1>4 DEF Leads
    <2>2. Len(recs) \in Nat
      BY <2>1, LenProperties
    <2>3. Len(recs) # 0
      <3>1. text' # text
        BY <1>1, <1>2, <1>3, PasteLonger
      <3> HIDE DEF recs
      <3>2. Leads(recs, text, dot, text', dot')
        BY <1>4 DEF recs
      <3> QED
        BY <3>1, <3>2 DEF Leads
    <2> HIDE DEF recs
    <2>4. Len(recs) > 0
      BY <2>2, <2>3
    <2> QED
      BY <2>4 DEF recs
  <1> QED
    BY <1>1, <1>4, <1>5, <1>6 DEF Recorded

(* delete_char records what it takes.                                      *)
LEMMA DeleteRecorded ==
  ASSUME WithinLimits, FitInv, NEW n \in 1..2, Delete(n)
  PROVE  Recorded
  <1>1. /\ Log(Deleted(text, dot, n))
        /\ text' = Cut(text, dot, n) /\ dot' = dot /\ ustate' = ustate
        /\ dot + n <= Len(text) /\ dot + n # Len(text)
    BY DEF Delete, Editing, command, WithinLimits
  <1>2. /\ text \in Text /\ Len(text) \in Nat /\ dot \in Nat /\ n \in Nat
        /\ dot + n < Len(text)
    BY <1>1, LenProperties DEF FitInv, Text
  <1>3. Leads(Deleted(text, dot, n), text, dot, text', dot')
    BY <1>1, <1>2, DeletedLeads
  <1>4. text' \in Text /\ dot' \in 0..Len(text')
    <2>1. Cut(text, dot, n) \in Text /\ dot < Len(Cut(text, dot, n))
      BY <1>2, DeleteBack
    <2>2. Len(Cut(text, dot, n)) \in Nat
      BY <2>1, LenProperties DEF Text
    <2> QED
      BY <1>1, <1>2, <2>1, <2>2
  <1>5. Len(Deleted(text, dot, n)) > 0
    BY DEF Deleted
  <1> QED
    BY <1>1, <1>3, <1>4, <1>5 DEF Recorded

(* self_insert in overstrike mode records what it writes over.             *)
LEMMA OverwriteRecorded ==
  ASSUME FitInv, NEW c \in Char, Overwrite(c)
  PROVE  Recorded
  <1> DEFINE t == Padded(text, dot)
             n == IF t[dot + 1] # NL THEN 1 ELSE 0
             recs == PadRecords(text, dot)
                       \o <<Record("REPLACE", dot, 1, SubSeq(t, dot + 1, dot + n), t)>>
             u == Paste(Cut(t, dot, n), dot, <<c>>)
  <1>1. /\ Log(recs) /\ text' = u /\ dot' = dot + 1 /\ ustate' = ustate
        /\ dot = Len(text) => Bottom # {}
    BY DEF Overwrite, Inserting, Editing, command
  <1>2. text \in Text /\ dot \in 0..Len(text) /\ dot \in Nat
    BY LenProperties DEF FitInv, Text
  <1>3. Leads(recs, text, dot, u, dot + 1) /\ u \in Text /\ dot + 1 < Len(u)
    BY <1>1, <1>2, OverwriteLeads
  <1>4. Len(recs) > 0
    <2> DEFINE x == PadRecords(text, dot)
               y == <<Record("REPLACE", dot, 1, SubSeq(t, dot + 1, dot + n), t)>>
    <2>1. recs \in Seq(Written)
      BY <1>3 DEF Leads
    <2>2. Len(recs) \in Nat
      BY <2>1, LenProperties
    <2>3. CASE x = <<>>
      BY <2>3
    <2>4. CASE x # <<>>
      BY <2>4 DEF PadRecords
    <2> QED
      BY <2>3, <2>4
  <1> HIDE DEF recs, u
  <1>5. Len(u) \in Nat
    BY <1>3, LenProperties DEF Text
  <1>6. dot' \in 0..Len(text')
    BY <1>1, <1>2, <1>3, <1>5
  <1> QED
    BY <1>1, <1>3, <1>6, <1>4 DEF Recorded

(* The mark of a save fits the text, at the cursor.                        *)
LEMMA SaveFit ==
  ASSUME FitInv, NEW outcome \in Saves, Save(outcome)
  PROVE  FitInv'
  <1> DEFINE r == Record("START", dot, 0, <<>>, text)
             m == Numbered(<<r>>, undoChain)
  <1>1. /\ undo' = undo \o m /\ undoChain' = undoChain + 1 /\ redo' = <<>>
        /\ redoChain' = redoChain /\ text' = text /\ dot' = dot /\ ustate' = ustate
    BY DEF Save, Editing, command, buffer
  <1>2. /\ text \in Text /\ dot \in 0..Len(text) /\ dot \in Nat /\ Len(text) \in Nat
        /\ undo \in Seq(Written) /\ undoChain \in Nat /\ redoChain \in Nat
        /\ Fits(undo, text, dot)
        /\ ustate \in {"normal", "undo", "redo"} /\ (ustate = "redo" => Redo)
    BY LenProperties DEF FitInv, Text
  <1>3. /\ r \in Written /\ r.op = "START" /\ r.at = dot /\ r.len = 0
        /\ r.text = <<>> /\ r.was = text
    BY <1>2, EmptySeq DEF Record, Written
  <1> HIDE DEF r
  <1>4. <<r>> \in Seq(Written) /\ Len(<<r>>) = 1 /\ <<r>>[1] = r
    BY <1>3
  <1>5. m \in Seq(Written) /\ Len(m) = 1 /\ Same(m[1], r)
    <2> DEFINE x == <<r>>
    <2>1. x \in Seq(Written) /\ Len(x) = 1 /\ x[1] = r /\ 1 \in 1..1
      BY <1>4
    <2> HIDE DEF x
    <2>2. /\ Numbered(x, undoChain) \in Seq(Written)
          /\ Len(Numbered(x, undoChain)) = Len(x)
          /\ \A i \in 1..Len(x) : Same(Numbered(x, undoChain)[i], x[i])
      BY <1>2, <2>1, NumberedFields
    <2>3. m = Numbered(x, undoChain)
      BY DEF x
    <2> HIDE DEF m
    <2> QED
      BY <2>1, <2>2, <2>3
  <1> HIDE DEF m
  <1>6. FitsAt(r, text, dot)
    <2>1. Cut(text, dot, 0) = text
      BY <1>2, CutNone
    <2>2. TakenBack(text, r) = text
      BY <1>3, <2>1 DEF TakenBack, Paste
    <2> QED
      BY <1>2, <1>3, <2>2 DEF FitsAt, Edits
  <1>7. Fits(m, text, dot)
    <2>1. FitsAt(m[1], text, dot)
      BY <1>5, <1>6, SameFits
    <2>2. \A i \in 1..Len(m) : i = 1 /\ i = Len(m)
      BY <1>5
    <2> QED
      BY <2>1, <2>2 DEF Fits, NextText, NextDot
  <1>8. undo' \in Seq(Written)
    BY <1>1, <1>2, <1>5, ConcatProperties
  <1>9. Fits(undo', text, dot)
    <2>1. Len(m) # 0 /\ m[1].was = text /\ m[1].at = dot
      BY <1>3, <1>5 DEF Same
    <2>2. Fits(undo \o m, text, dot)
      BY <1>2, <1>5, <1>7, <2>1, FitsJoin
    <2> QED
      BY <1>1, <2>2
  <1>10. redo' \in Seq(Written) /\ Len(redo') = 0 /\ Fits(redo', text, dot)
    BY <1>1, EmptyFits
  <1> QED
    BY <1>1, <1>2, <1>8, <1>9, <1>10 DEF FitInv

(* A character collapsed into the record of those typed before it: the     *)
(* record, now longer, fits the new text.                                  *)
LEMMA CollapseFit ==
  ASSUME FitInv, NEW c \in Char, NEW u, u = Paste(text, dot, <<c>>),
         Typing, dot < Len(text), Collapses(c), Collapse(TypedGoto(text, dot, c)),
         text' = u, dot' = dot + 1, ustate' = ustate
  PROVE  FitInv'
  <1> DEFINE top == Last(undo)
             f == Front(undo)
             new == [top EXCEPT !.len = @ + 1]
             tail == TypedGoto(text, dot, c)
             q == IF c = NL THEN dot + 1 ELSE dot
             mid == f \o <<new>>
  <1>1. /\ text \in Text /\ dot \in 0..Len(text) /\ dot \in Nat /\ Len(text) \in Nat
        /\ undo \in Seq(Written) /\ undoChain \in Nat /\ redoChain \in Nat
        /\ Fits(undo, text, dot) /\ undo # <<>>
        /\ ustate \in {"normal", "undo", "redo"} /\ (ustate = "redo" => Redo)
    BY LenProperties DEF FitInv, Text, Collapses
  <1>2. /\ undo' = mid \o Numbered(tail, undoChain)
        /\ undoChain' = undoChain + Len(tail) /\ redo' = <<>> /\ redoChain' = redoChain
        /\ top.op = "DELETE"
    BY DEF Collapse, Collapses
  <1>3. /\ top \in Written /\ FitsAt(top, text, dot)
        /\ f \in Seq(Written) /\ Fits(f, top.was, top.at)
    BY <1>1, FitsTop
  <1> HIDE DEF top, f
  <1>4. /\ top.at \in Nat /\ top.len \in Nat /\ top.text = <<>> /\ top.was \in Text
        /\ top.chain \in Nat
    BY <1>2, <1>3, WrittenFields
  <1>5. /\ top.at + top.len <= Len(text)
        /\ Cut(text, top.at, top.len) = top.was
        /\ Bottom = {} => top.at + top.len < Len(text)
        /\ top.at <= dot /\ dot <= top.at + top.len
    <2>1. TakenBack(text, top) = Cut(text, top.at, top.len)
      BY <1>4 DEF TakenBack, Paste
    <2> QED
      BY <1>2, <1>3, <2>1 DEF FitsAt, Edits
  <1>6. /\ new \in Written /\ new.op = "DELETE" /\ new.at = top.at /\ new.len = top.len + 1
        /\ new.text = <<>> /\ new.was = top.was
    <2>1. top \in Written /\ top.op = "DELETE" /\ top.text = <<>> /\ top.len + 1 \in Nat
      BY <1>2, <1>3, <1>4
    <2> QED
      BY <2>1 DEF Written
  <1> HIDE DEF new
  <1>7. u \in Text /\ Len(u) = Len(text) + 1
    <2>1. Padded(text, dot) = text
      BY <1>1, PaddedShape
    <2> QED
      BY <1>1, <2>1, TypedShape
  <1>8. Cut(u, top.at, top.len + 1) = top.was
    <2> DEFINE x == <<c>>
               a == top.at
               k == top.len
    <2>1. x \in Seq(Char) /\ Len(x) = 1
      OBVIOUS
    <2>2. /\ text \in Text /\ a \in Nat /\ k \in Nat /\ a + k <= Len(text)
          /\ dot \in Nat /\ a <= dot /\ dot <= a + k /\ dot < Len(text)
      BY <1>1, <1>4, <1>5
    <2> HIDE DEF x, a, k
    <2>3. Cut(Paste(text, dot, x), a, k + 1) = Cut(text, a, k)
      BY <2>1, <2>2, CollapsedBack
    <2> QED
      BY <1>5, <2>3 DEF x, a, k
  <1>9. dot <= q /\ q <= dot + 1
    BY <1>1
  <1>10. FitsAt(new, u, q)
    <2> HIDE DEF q
    <2>1. TakenBack(u, new) = top.was
      BY <1>6, <1>8 DEF TakenBack, Paste
    <2>2. /\ top.at + (top.len + 1) <= Len(u)
          /\ Bottom = {} => top.at + (top.len + 1) < Len(u)
          /\ top.at <= dot /\ dot <= top.at + top.len
      BY <1>1, <1>4, <1>5, <1>7
    <2>3. top.at <= q /\ q <= top.at + (top.len + 1)
      <3>1. q \in Nat
        BY <1>1 DEF q
      <3> QED
        BY <1>1, <1>4, <1>9, <2>2, <3>1
    <2> QED
      BY <1>6, <2>1, <2>2, <2>3 DEF FitsAt
  <1>11. Leads(tail, u, q, u, dot + 1)
    BY <1>1, TypedGotoLeads
  <1> HIDE DEF tail, q
  <1>12. Leads(<<new>>, top.was, top.at, u, q)
    BY <1>6, <1>10, LeadsOne
  <1>13. mid \in Seq(Written) /\ Fits(mid, u, q)
    <2> DEFINE x == <<new>>
    <2>1. Leads(x, top.was, top.at, u, q)
      BY <1>12
    <2> HIDE DEF x
    <2>2. x \in Seq(Written)
      BY <2>1 DEF Leads
    <2>3. f \o x \in Seq(Written) /\ Fits(f \o x, u, q)
      BY <1>3, <2>1, <2>2, FitsJoin, ConcatProperties DEF Leads
    <2> QED
      BY <2>3 DEF x
  <1> HIDE DEF mid
  <1>14. /\ undo' \in Seq(Written) /\ undoChain' \in Nat
         /\ Fits(undo', u, dot + 1)
    BY <1>1, <1>2, <1>11, <1>13, AppendFits
  <1>15. redo' \in Seq(Written) /\ Len(redo') = 0 /\ Fits(redo', u, dot + 1)
    BY <1>2, EmptyFits
  <1>16. dot + 1 \in 0..Len(u)
    BY <1>1, <1>7
  <1> QED
    BY <1>1, <1>2, <1>7, <1>14, <1>15, <1>16 DEF FitInv

(* self_insert either records its change or collapses it into the record   *)
(* before.                                                                 *)
LEMMA SelfInsertRecorded ==
  ASSUME FitInv, NEW c \in Char, SelfInsert(c)
  PROVE  \/ Recorded
         \/ /\ Typing /\ dot < Len(text) /\ Collapses(c)
            /\ Collapse(TypedGoto(text, dot, c))
            /\ text' = Paste(text, dot, <<c>>) /\ dot' = dot + 1 /\ ustate' = ustate
  <1> DEFINE pad == PadRecords(text, dot)
             del == Record("DELETE", dot, 1, <<>>, Padded(text, dot))
             tail == TypedGoto(text, dot, c)
             u == Paste(text, dot, <<c>>)
  <1>1. /\ Typing /\ (dot = Len(text) => Bottom # {})
        /\ text' = u /\ dot' = dot + 1 /\ ustate' = ustate
    BY DEF SelfInsert, Inserting, Editing, command
  <1>2. CASE pad # <<>> /\ SameClass(uchar, c)
               /\ Log(<<pad[1], [pad[2] EXCEPT !.len = 2]>> \o tail)
    <2>1. text \in Text /\ dot \in 0..Len(text) /\ Len(text) \in Nat /\ dot \in Nat
      BY LenProperties DEF FitInv, Text
    <2>2. dot = Len(text)
      BY <1>2, <2>1 DEF PadRecords
    <2>3. Leads(<<pad[1], [pad[2] EXCEPT !.len = 2]>> \o tail, text, dot, u, dot + 1)
      BY <1>1, <2>1, <2>2, TypedBelowLeads
    <2>4. u \in Text /\ dot + 1 \in 0..Len(u)
      <3>1. /\ u \in Text /\ Len(u) = Len(Padded(text, dot)) + 1
            /\ dot < Len(Padded(text, dot)) /\ Len(Padded(text, dot)) \in Nat
        BY <2>1, TypedShape
      <3> HIDE DEF u
      <3> QED
        BY <2>1, <3>1
    <2>5. Len(<<pad[1], [pad[2] EXCEPT !.len = 2]>> \o tail) > 0
      BY DEF TypedGoto
    <2> HIDE DEF pad, tail, u
    <2> QED
      BY <1>1, <1>2, <2>3, <2>4, <2>5 DEF Recorded
  <1>3. CASE pad = <<>> /\ Collapses(c) /\ Collapse(tail)
    <2>1. text \in Text /\ dot \in 0..Len(text) /\ Len(text) \in Nat /\ dot \in Nat
      BY LenProperties DEF FitInv, Text
    <2>2. dot < Len(text)
      BY <1>3, <2>1 DEF PadRecords
    <2> QED
      BY <1>1, <1>3, <2>2
  <1>4. CASE Log(pad \o <<del>> \o tail)
    <2>1. text \in Text /\ dot \in 0..Len(text) /\ Len(text) \in Nat /\ dot \in Nat
      BY LenProperties DEF FitInv, Text
    <2>2. Leads(pad \o <<del>> \o tail, text, dot, u, dot + 1)
      BY <1>1, <2>1, TypedLeads
    <2>3. u \in Text /\ dot + 1 \in 0..Len(u)
      <3>1. /\ u \in Text /\ Len(u) = Len(Padded(text, dot)) + 1
            /\ dot < Len(Padded(text, dot)) /\ Len(Padded(text, dot)) \in Nat
        BY <2>1, TypedShape
      <3> HIDE DEF u
      <3> QED
        BY <2>1, <3>1
    <2>4. Len(pad \o <<del>> \o tail) > 0
      BY DEF TypedGoto, PadRecords
    <2> HIDE DEF pad, del, tail, u
    <2> QED
      BY <1>1, <1>4, <2>2, <2>3, <2>4 DEF Recorded
  <1>5. \/ pad # <<>> /\ SameClass(uchar, c)
              /\ Log(<<pad[1], [pad[2] EXCEPT !.len = 2]>> \o tail)
        \/ pad = <<>> /\ Collapses(c) /\ Collapse(tail)
        \/ Log(pad \o <<del>> \o tail)
    BY DEF SelfInsert, TypedGoto
  <1> QED
    BY <1>2, <1>3, <1>4, <1>5

(* Records without marks, added to a list without marks.                   *)
LEMMA JoinUnmarked ==
  ASSUME NEW stk \in Seq(Written), \A i \in 1..Len(stk) : stk[i].op # "START",
         NEW recs \in Seq(Written), \A i \in 1..Len(recs) : recs[i].op # "START",
         NEW c \in Nat
  PROVE  /\ stk \o Numbered(recs, c) \in Seq(Written)
         /\ \A i \in 1..Len(stk \o Numbered(recs, c)) :
              (stk \o Numbered(recs, c))[i].op # "START"
         /\ c + Len(recs) \in Nat
  <1> DEFINE m == Numbered(recs, c)
             j == stk \o m
  <1>1. /\ m \in Seq(Written) /\ Len(m) = Len(recs)
        /\ \A i \in 1..Len(recs) : Same(m[i], recs[i])
    BY NumberedFields
  <1> HIDE DEF m
  <1>2. Len(stk) \in Nat /\ Len(recs) \in Nat
    BY LenProperties
  <1>3. /\ j \in Seq(Written) /\ Len(j) = Len(stk) + Len(m)
        /\ \A i \in 1..Len(stk) + Len(m) :
             j[i] = IF i <= Len(stk) THEN stk[i] ELSE m[i - Len(stk)]
    <2>1. m \in Seq(Written)
      BY <1>1
    <2> QED
      BY <2>1, ConcatProperties
  <1> HIDE DEF j
  <1>4. ASSUME NEW i \in 1..Len(j)
        PROVE  j[i].op # "START"
    <2>1. CASE i <= Len(stk)
      <3>1. i \in 1..Len(stk) /\ j[i] = stk[i]
        BY <1>1, <1>2, <1>3, <2>1
      <3> QED
        BY <3>1
    <2>2. CASE ~(i <= Len(stk))
      <3>1. i - Len(stk) \in 1..Len(recs) /\ j[i] = m[i - Len(stk)]
        BY <1>1, <1>2, <1>3, <2>2
      <3>2. m[i - Len(stk)].op = recs[i - Len(stk)].op
        BY <1>1, <3>1 DEF Same
      <3> QED
        BY <3>1, <3>2
    <2> QED
      BY <2>1, <2>2
  <1> QED
    BY <1>2, <1>3, <1>4 DEF j, m

(* A pass of do_undo: the record leaves its list, which fits the text the  *)
(* record has brought back, and what its undoing records makes the other   *)
(* list fit it.                                                            *)
LEMMA PoppedFit ==
  ASSUME WithinLimits, FitInv, ustate # "normal", Source # <<>>,
         NEW recs \in Seq(Written), \A i \in 1..Len(recs) : recs[i].op # "START",
         Popped(recs), NEW r, r = Last(Source),
         text' = r.was, text' \in Text,
         dot' \in 0..Len(text'), Typing => dot' = r.at,
         NEW p, NEW q, Bottom = {} => Leads(recs, text, p, text', q),
         ustate' \in {ustate, "normal"}
  PROVE  FitInv'
  <1>1. /\ text \in Text /\ dot \in 0..Len(text)
        /\ undo \in Seq(Written) /\ redo \in Seq(Written)
        /\ \A i \in 1..Len(redo) : redo[i].op # "START"
        /\ undoChain \in Nat /\ redoChain \in Nat
        /\ Fits(undo, text, dot) /\ (Redo => Fits(redo, text, dot))
        /\ ustate \in {"undo", "redo"} /\ (ustate = "redo" => Redo)
    BY DEF FitInv
  <1>2. Redo => ~Typing /\ Bottom = {}
    BY DEF WithinLimits
  <1>3. CASE ustate = "undo"
    <2>1. /\ undo' = Front(undo) /\ undoChain' = undoChain
          /\ redo' = redo \o Numbered(recs, redoChain)
          /\ redoChain' = redoChain + Len(recs)
      BY <1>3 DEF Popped
    <2>2. undo # <<>> /\ r = Last(undo)
      BY <1>3 DEF Source
    <2>3. undo' \in Seq(Written) /\ Fits(undo', r.was, r.at)
      BY <1>1, <2>1, <2>2, FitsTop
    <2>4. Fits(undo', text', dot')
      BY <2>3, FitsDot
    <2>5. /\ redo' \in Seq(Written) /\ redoChain' \in Nat
          /\ \A i \in 1..Len(redo') : redo'[i].op # "START"
      BY <1>1, <2>1, JoinUnmarked
    <2>6. Redo => Fits(redo', text', dot')
      <3>1. HAVE Redo
      <3>2. Fits(redo, text, p)
        BY <1>1, <1>2, <3>1, FitsDot
      <3>3. Fits(redo', text', q)
        BY <1>1, <1>2, <2>1, <3>1, <3>2, AppendFits
      <3> QED
        BY <1>2, <3>1, <3>3, FitsDot
    <2> QED
      BY <1>1, <2>1, <2>3, <2>4, <2>5, <2>6 DEF FitInv
  <1>4. CASE ustate = "redo"
    <2>1. /\ redo' = Front(redo) /\ redoChain' = redoChain
          /\ undo' = undo \o Numbered(recs, undoChain)
          /\ undoChain' = undoChain + Len(recs)
      BY <1>4 DEF Popped
    <2>2. redo # <<>> /\ r = Last(redo)
      BY <1>4 DEF Source
    <2>3. Redo /\ ~Typing /\ Bottom = {}
      BY <1>1, <1>2, <1>4
    <2>4. /\ redo' \in Seq(Written) /\ Fits(redo', r.was, r.at)
          /\ Len(redo') = Len(redo) - 1 /\ \A i \in 1..Len(redo) - 1 : redo'[i] = redo[i]
      BY <1>1, <2>1, <2>2, <2>3, FitsTop
    <2>5. Fits(redo', text', dot')
      BY <2>3, <2>4, FitsDot
    <2>6. \A i \in 1..Len(redo') : redo'[i].op # "START"
      <3>1. Len(redo) \in Nat
        BY <1>1, LenProperties
      <3>2. \A i \in 1..Len(redo') : i \in 1..Len(redo) /\ redo'[i] = redo[i]
        BY <2>4, <3>1
      <3> QED
        BY <1>1, <3>2
    <2>7. Fits(undo, text, p)
      BY <1>1, <2>3, FitsDot
    <2>8. /\ undo' \in Seq(Written) /\ undoChain' \in Nat
          /\ Fits(undo', text', q)
      BY <1>1, <2>1, <2>3, <2>7, AppendFits
    <2>9. Fits(undo', text', dot')
      BY <2>3, <2>8, FitsDot
    <2> QED
      BY <1>1, <2>1, <2>3, <2>4, <2>5, <2>6, <2>8, <2>9 DEF FitInv
  <1> QED
    BY <1>1, <1>3, <1>4

(* Records that move the cursor, or mark a save, leave the text.           *)
LEMMA PassedText ==
  ASSUME NEW r \in Written, NEW t \in Text, NEW q, r.op \notin Edits, FitsAt(r, t, q)
  PROVE  r.was = t
  <1>1. r.op \in {"GOTO", "START"}
    BY WrittenFields
  <1>2. r.len = 0 /\ r.text = <<>> /\ r.at \in Nat /\ Len(t) \in Nat
    BY <1>1, WrittenFields, LenProperties DEF Text
  <1>3. r.at \in 0..Len(t)
    BY <1>2 DEF FitsAt
  <1>4. TakenBack(t, r) = t
    BY <1>2, <1>3, CutNone DEF TakenBack, Paste
  <1> QED
    BY <1>4 DEF FitsAt

(* The record a do_undo comes to fits the text.                            *)
LEMMA SourceTop ==
  ASSUME FitInv, ustate # "normal", Source # <<>>
  PROVE  Last(Source) \in Written /\ FitsAt(Last(Source), text, dot)
  <1>1. Source \in Seq(Written) /\ Fits(Source, text, dot)
    BY DEF FitInv, Source
  <1> QED
    BY <1>1, FitsTop

(* After a record the do_undo goes on or ends.                             *)
LEMMA ContinueState ==
  ASSUME NEW r, Continue(r)
  PROVE  ustate' \in {ustate, "normal"}
  BY DEF Continue

(* The undoing of an edit keeps the lists fitting.                         *)
LEMMA UndoEditFit ==
  ASSUME WithinLimits, FitInv, UndoEdit
  PROVE  FitInv'
  <1> DEFINE r == Last(Source)
             recs == UndoneRecords(text, r)
  <1>1. /\ ustate # "normal" /\ Source # <<>> /\ r.op \in Edits
        /\ Popped(recs)
        /\ text' = TakenBack(text, r)
        /\ dot' = IF ustate = "undo" THEN r.at ELSE r.at + Len(r.text)
        /\ Continue(r)
    BY DEF UndoEdit, Undoing, UndoneRecords
  <1>2. r \in Written /\ FitsAt(r, text, dot) /\ text \in Text
    BY <1>1, SourceTop DEF FitInv
  <1> HIDE DEF r
  <1>3. /\ r.at + r.len <= Len(text) /\ TakenBack(text, r) = r.was
        /\ Bottom = {} => r.at + r.len < Len(text)
    BY <1>1, <1>2 DEF FitsAt
  <1>4. /\ recs \in Seq(Written)
        /\ \A i \in 1..Len(recs) : recs[i].op # "START"
        /\ text' \in Text
        /\ r.at <= Len(text') /\ r.at + Len(r.text) <= Len(text')
        /\ Bottom = {} => Leads(recs, text, r.at, text', r.at + Len(r.text))
    BY <1>1, <1>2, <1>3, UndoneLeads
  <1>5. r.at \in Nat /\ Len(r.text) \in Nat /\ Len(text') \in Nat
    BY <1>2, <1>4, WrittenFields, LenProperties DEF Text
  <1>6. dot' \in 0..Len(text')
    BY <1>1, <1>4, <1>5
  <1>7. Typing => dot' = r.at
    BY <1>1 DEF FitInv, WithinLimits
  <1>8. ustate' \in {ustate, "normal"}
    BY <1>1, ContinueState
  <1> HIDE DEF recs
  <1>9. text' = r.was
    BY <1>1, <1>3
  <1> QED
    BY <1>1, <1>4, <1>6, <1>7, <1>8, <1>9, PoppedFit DEF r

(* So does the undoing of a record that is no edit.                        *)
LEMMA PassFit ==
  ASSUME WithinLimits, FitInv, ustate # "normal", Source # <<>>, Last(Source).op \notin Edits,
         Popped(<<>>), text' = text,
         dot' \in {dot, Last(Source).at}, Typing => dot' = Last(Source).at,
         ustate' \in {ustate, "normal"}
  PROVE  FitInv'
  <1> DEFINE r == Last(Source)
             recs == <<>>
  <1>1. r \in Written /\ FitsAt(r, text, dot) /\ text \in Text /\ dot \in 0..Len(text)
    BY SourceTop DEF FitInv
  <1> HIDE DEF r
  <1>2. r.at \in Nat /\ Len(text) \in Nat /\ r.at <= Len(text)
    <2>1. r.at \in Nat /\ r.len \in Nat /\ Len(text) \in Nat
      BY <1>1, WrittenFields, LenProperties DEF Text
    <2> QED
      BY <1>1, <2>1 DEF FitsAt
  <1>3. text' = r.was
    BY <1>1, PassedText DEF r
  <1>4. dot' \in 0..Len(text') /\ (Typing => dot' = r.at)
    BY <1>1, <1>2 DEF r
  <1>5. /\ recs \in Seq(Written) /\ \A i \in 1..Len(recs) : recs[i].op # "START"
        /\ Leads(recs, text, dot, text', dot)
    BY EmptySeq, LeadsNone
  <1>6. Popped(recs)
    OBVIOUS
  <1> HIDE DEF recs
  <1> QED
    BY <1>1, <1>3, <1>4, <1>5, <1>6, PoppedFit DEF r

(* The undoing of a cursor record.                                         *)
LEMMA UndoGotoFit ==
  ASSUME WithinLimits, FitInv, UndoGoto
  PROVE  FitInv'
  <1>1. /\ ustate # "normal" /\ Source # <<>> /\ Last(Source).op \notin Edits
        /\ Popped(<<>>) /\ text' = text /\ dot' = Last(Source).at
        /\ Continue(Last(Source))
    BY DEF UndoGoto, Undoing, Edits
  <1>2. ustate' \in {ustate, "normal"}
    BY <1>1, ContinueState
  <1> QED
    BY <1>1, <1>2, PassFit

(* The mark of a save, passed or not.                                      *)
LEMMA UndoStartFit ==
  ASSUME WithinLimits, FitInv, UndoStart
  PROVE  FitInv'
  <1>1. /\ ustate # "normal" /\ Source # <<>> /\ Last(Source).op = "START"
        /\ text' = text /\ dot' = dot
    BY DEF UndoStart, Undoing, buffer
  <1>2. CASE Popped(<<>>) /\ Continue(Last(Source))
    <2>1. ustate' \in {ustate, "normal"}
      BY <1>2, ContinueState
    <2>2. Typing => dot' = Last(Source).at
      <3>1. FitsAt(Last(Source), text, dot)
        BY <1>1, SourceTop
      <3> QED
        BY <1>1, <3>1 DEF FitsAt
    <2> QED
      BY <1>1, <1>2, <2>1, <2>2, PassFit DEF Edits
  <1>3. CASE Stop /\ UNCHANGED log
    BY <1>1, <1>3, MovedFit DEF Stop, log, FitInv
  <1> QED
    BY <1>2, <1>3 DEF UndoStart

(* Every step keeps the invariant.                                         *)
LEMMA FitStep == WithinLimits /\ FitInv /\ [Next]_vars => FitInv'
  <1> SUFFICES ASSUME WithinLimits, FitInv, [Next]_vars
               PROVE  FitInv'
    OBVIOUS
  <1>1. CASE Key
    BY <1>1, MovedFit DEF Key, buffer, command, FitInv
  <1>2. ASSUME NEW c \in Char, SelfInsert(c) \/ Overwrite(c)
        PROVE  FitInv'
    BY <1>2, SelfInsertRecorded, OverwriteRecorded, RecordedFit, CollapseFit
  <1>3. ASSUME NEW s \in Strings, Insert(s)
        PROVE  FitInv'
    BY <1>3, InsertRecorded, RecordedFit
  <1>4. ASSUME NEW n \in 1..2, Delete(n)
        PROVE  FitInv'
    BY <1>4, DeleteRecorded, RecordedFit
  <1>5. ASSUME NEW d \in 0..Len(text), MoveTo(d) \/ ChangeWindow(d)
        PROVE  FitInv'
    <2>1. CASE MoveTo(d)
      BY <2>1, MoveToRecorded, RecordedFit
    <2>2. CASE ChangeWindow(d)
      BY <2>2, MovedFit DEF ChangeWindow, WithinLimits, log, command, FitInv
    <2> QED
      BY <1>5, <2>1, <2>2
  <1>6. CASE SaveFails
    BY <1>6, MovedFit DEF SaveFails, buffer, log, command, FitInv
  <1>7. ASSUME NEW outcome \in Saves, Save(outcome)
        PROVE  FitInv'
    BY <1>7, SaveFit
  <1>8. CASE BeginUndo \/ BeginRedo
    BY <1>8, MovedFit DEF BeginUndo, BeginRedo, Begin, buffer, FitInv
  <1>9. CASE UndoEdit
    BY <1>9, UndoEditFit
  <1>10. CASE UndoGoto
    BY <1>10, UndoGotoFit
  <1>11. CASE UndoStart
    BY <1>11, UndoStartFit
  <1>12. CASE UndoNothing
    BY <1>12, MovedFit DEF UndoNothing, Undoing, Stop, buffer, log, FitInv
  <1>13. CASE UNCHANGED vars
    BY <1>13, MovedFit DEF vars, buffer, log, command, FitInv
  <1> QED
    BY <1>1, <1>2, <1>3, <1>4, <1>5, <1>6, <1>7, <1>8, <1>9, <1>10, <1>11, <1>12, <1>13
       DEF Next

(* The lists always fit.                                                   *)
LEMMA AlwaysFit == WithinLimits => (Spec => []FitInv)
  <1>1. SUFFICES ASSUME WithinLimits
                 PROVE  Spec => []FitInv
    OBVIOUS
  <1>2. FitInv /\ [Next]_vars => FitInv'
    BY <1>1, FitStep
  <1> QED
    BY <1>2, FitInit, PTL DEF Spec

(* A list that fits replays.                                               *)
LEMMA FitsReplay == FitInv => Replayable
  <1>1. SUFFICES ASSUME FitInv
                 PROVE  Replayable
    OBVIOUS
  <1>2. ASSUME NEW stk, Fits(stk, text, dot)
        PROVE  Replays(stk)
    <2>1. ASSUME NEW i \in 1..Len(stk)
          PROVE  /\ stk[i].at + stk[i].len <= Len(Above(stk, i))
                 /\ TakenBack(Above(stk, i), stk[i]) = stk[i].was
      <3>1. FitsAt(stk[i], NextText(stk, i, text), NextDot(stk, i, dot))
        BY <1>2 DEF Fits
      <3>2. Above(stk, i) = NextText(stk, i, text)
        BY DEF Above, NextText
      <3> QED
        BY <3>1, <3>2 DEF FitsAt
    <2> QED
      BY <2>1 DEF Replays
  <1> QED
    BY <1>1, <1>2 DEF FitInv, Replayable

(* Replayable: through any mixture of edits, saves, undos and redos, each  *)
(* record of both lists fits the text it will meet and takes back exactly  *)
(* the change it was written for (uwrite_op, u_delete, undo_command).      *)
THEOREM RecordsReplay == WithinLimits => (Spec => []Replayable)
  <1>1. SUFFICES ASSUME WithinLimits
                 PROVE  Spec => []Replayable
    OBVIOUS
  <1>2. Spec => []FitInv
    BY <1>1, AlwaysFit
  <1> QED
    BY <1>2, FitsReplay, PTL

(* The types of the variables that the lists do not depend on.             *)
TypesInv ==
  /\ past \in PastWrite /\ move \in BOOLEAN
  /\ nummod \in Nat /\ changed \in BOOLEAN
  /\ disk = Torn \/ disk \in Seq(Char)
  /\ uchar \in Char \cup {None}
  /\ cmd \in {"fresh", "edit", "undone", "other"}
  /\ base = None \/ base \in Seq(Char)
  /\ ustate # "normal" => cmd \in {"undone", "other"}

(* They have them in the initial states.                                   *)
LEMMA TypesInit == Init => TypesInv
  <1>1. <<>> \in Seq(Char) /\ <<NL>> \in Seq(Char)
    BY EmptySeq, NewlineIsChar
  <1>2. ASSUME Init
        PROVE  TypesInv
    <2>1. disk \in Seq(Char)
      BY <1>1, <1>2, Zenon DEF Init
    <2>2. /\ ustate = "normal" /\ past = "no" /\ move = FALSE
          /\ nummod = 0 /\ changed = FALSE /\ uchar = None
          /\ cmd = "fresh" /\ base = None
      BY <1>2 DEF Init
    <2> QED
      BY <2>1, <2>2 DEF TypesInv, PastWrite
  <1> QED
    BY <1>2

(* The edits among the records of a call are a number.                     *)
LEMMA EditsCounted ==
  ASSUME NEW recs, Len(recs) \in Nat
  PROVE  /\ IsFiniteSet({i \in 1..Len(recs) : recs[i].op \in Edits})
         /\ EditsOf(recs) \in Nat
  <1> DEFINE S == {i \in 1..Len(recs) : recs[i].op \in Edits}
  <1>1. IsFiniteSet(1..Len(recs))
    BY FS_Interval
  <1>2. S \subseteq 1..Len(recs)
    OBVIOUS
  <1>3. EditsOf(recs) = Cardinality(S)
    BY DEF EditsOf
  <1> HIDE DEF S
  <1>4. IsFiniteSet(S)
    BY <1>1, <1>2, FS_Subset
  <1>5. Cardinality(S) \in Nat
    BY <1>4, FS_CardinalityType
  <1> QED
    BY <1>3, <1>4, <1>5 DEF S

(* An editing step keeps the types.                                        *)
LEMMA RecordedTypes ==
  ASSUME TypesInv, FitInv, Recorded, Editing,
         changed' \in BOOLEAN, disk' = disk, uchar' \in Char \cup {None}
  PROVE  TypesInv'
  <1>1. PICK recs : Log(recs) /\ Leads(recs, text, dot, text', dot')
    BY DEF Recorded
  <1>2. Len(recs) \in Nat
    BY <1>1, LenProperties DEF Leads
  <1>3. nummod' \in Nat
    <2>1. nummod' = nummod + EditsOf(recs)
      BY <1>1 DEF Log
    <2>2. EditsOf(recs) \in Nat
      BY <1>2, EditsCounted
    <2> QED
      BY <2>1, <2>2 DEF TypesInv
  <1>4. text \in Seq(Char)
    BY DEF FitInv, Text
  <1>5. /\ ustate' = ustate /\ past' = past /\ move' = move /\ ustate' = "normal"
        /\ cmd' = "edit" /\ (base' = text \/ base' = base)
    BY DEF Editing, command
  <1> QED
    BY <1>3, <1>4, <1>5 DEF TypesInv

(* Every step does.                                                        *)
LEMMA TypesStep == WithinLimits /\ FitInv /\ TypesInv /\ [Next]_vars => TypesInv'
  <1> SUFFICES ASSUME WithinLimits, FitInv, TypesInv, [Next]_vars
               PROVE  TypesInv'
    OBVIOUS
  <1>1. CASE Key
    BY <1>1 DEF Key, TypesInv, command, marks
  <1>2. ASSUME NEW c \in Char, SelfInsert(c)
        PROVE  TypesInv'
    <2>1. Editing /\ changed' = TRUE /\ uchar' = c /\ disk' = disk
      BY <1>2 DEF SelfInsert
    <2>2. CASE Recorded
      BY <2>1, <2>2, RecordedTypes
    <2>3. CASE Collapse(TypedGoto(text, dot, c))
      <3>1. nummod' = nummod
        BY <2>3 DEF Collapse
      <3>2. text \in Seq(Char)
        BY DEF FitInv, Text
      <3> QED
        BY <2>1, <3>1, <3>2 DEF TypesInv, Editing, command
    <2> QED
      BY <1>2, <2>2, <2>3, SelfInsertRecorded
  <1>3. ASSUME NEW c \in Char, Overwrite(c)
        PROVE  TypesInv'
    <2>1. Editing /\ changed' = TRUE /\ uchar' = c /\ disk' = disk
      BY <1>3 DEF Overwrite
    <2> QED
      BY <1>3, <2>1, OverwriteRecorded, RecordedTypes
  <1>4. ASSUME NEW s \in Strings, Insert(s)
        PROVE  TypesInv'
    <2>1. Editing /\ changed' = TRUE /\ uchar' = uchar /\ disk' = disk
      BY <1>4 DEF Insert
    <2> QED
      BY <1>4, <2>1, InsertRecorded, RecordedTypes DEF TypesInv
  <1>5. ASSUME NEW n \in 1..2, Delete(n)
        PROVE  TypesInv'
    <2>1. Editing /\ changed' = TRUE /\ uchar' = uchar /\ disk' = disk
      BY <1>5 DEF Delete
    <2> QED
      BY <1>5, <2>1, DeleteRecorded, RecordedTypes DEF TypesInv
  <1>6. ASSUME NEW d \in 0..Len(text), MoveTo(d)
        PROVE  TypesInv'
    <2>1. Editing /\ changed' = changed /\ uchar' = uchar /\ disk' = disk
      BY <1>6 DEF MoveTo
    <2> QED
      BY <1>6, <2>1, MoveToRecorded, RecordedTypes DEF TypesInv
  <1>7. ASSUME NEW d \in 0..Len(text), ChangeWindow(d)
        PROVE  TypesInv'
    BY <1>7 DEF ChangeWindow, TypesInv, command, marks, ghost
  <1>8. CASE SaveFails
    BY <1>8 DEF SaveFails, TypesInv, command, marks, ghost
  <1>9. ASSUME NEW outcome \in Saves, Save(outcome)
        PROVE  TypesInv'
    <2>1. text \in Seq(Char)
      BY DEF FitInv, Text
    <2>2. /\ Editing /\ nummod' = 0 /\ changed' = FALSE /\ uchar' = uchar
          /\ disk' \in {text, Torn}
      BY <1>9 DEF Save
    <2> QED
      BY <2>1, <2>2 DEF TypesInv, Editing, command
  <1>10. CASE BeginUndo \/ BeginRedo
    <2>1. PICK r \in BOOLEAN, p \in Pasts, m \in Moves : Begin(r, p, m)
      BY <1>10 DEF BeginUndo, BeginRedo
    <2>2. p \in PastWrite /\ m \in BOOLEAN
      BY UndoConstants
    <2>3. /\ past' = p /\ move' = m /\ nummod' = nummod /\ changed' = changed
          /\ disk' = disk /\ uchar' = uchar
      BY <2>1 DEF Begin, marks
    <2>4. (cmd' = "undone" /\ base' = base) \/ (cmd' = "other" /\ base' = None)
      BY <2>1 DEF Begin
    <2> QED
      BY <2>2, <2>3, <2>4 DEF TypesInv
  <1>11. CASE UndoEdit
    <2>1. nummod' \in Nat /\ changed' = TRUE
      BY <1>11 DEF UndoEdit, Uncounted, TypesInv
    <2> QED
      BY <1>11, <2>1 DEF UndoEdit, Undoing, TypesInv, ghost
  <1>12. CASE UndoGoto
    BY <1>12 DEF UndoGoto, Undoing, TypesInv, ghost, marks
  <1>13. CASE UndoStart
    BY <1>13 DEF UndoStart, Undoing, Stop, TypesInv, ghost, marks
  <1>14. CASE UndoNothing
    BY <1>14 DEF UndoNothing, Undoing, Stop, TypesInv
  <1>15. CASE UNCHANGED vars
    BY <1>15 DEF vars, TypesInv, command, marks, ghost
  <1> QED
    BY <1>1, <1>2, <1>3, <1>4, <1>5, <1>6, <1>7, <1>8, <1>9, <1>10, <1>11, <1>12, <1>13,
       <1>14, <1>15 DEF Next

(* Both invariants together are the type invariant.                        *)
LEMMA FitsTypes == FitInv /\ TypesInv => TypeOK
  <1> SUFFICES ASSUME FitInv, TypesInv
               PROVE  TypeOK
    OBVIOUS
  <1>1. text \in Seq(Char) /\ (text # <<>> => Last(text) = NL)
    BY DEF FitInv, Text, Last
  <1>2. ASSUME NEW stk \in Seq(Written), NEW i \in 1..Len(stk)
        PROVE  RecordOK(stk[i])
    <2>1. stk[i] \in Written
      BY ElementOfSeq
    <2> QED
      BY <2>1, WrittenFields DEF RecordOK, Text
  <1> QED
    BY <1>1, <1>2 DEF FitInv, TypesInv, TypeOK

(* TypeOK: every variable has its type and undo and redo leave the cursor  *)
(* in the text (do_undo).                                                  *)
THEOREM UndoTypes == WithinLimits => (Spec => []TypeOK)
  <1>1. SUFFICES ASSUME WithinLimits
                 PROVE  Spec => []TypeOK
    OBVIOUS
  <1>2. Spec => []FitInv
    BY <1>1, AlwaysFit
  <1>3. FitInv /\ TypesInv /\ [Next]_vars => TypesInv'
    BY <1>1, TypesStep
  <1> QED
    BY <1>2, <1>3, TypesInit, FitsTypes, PTL DEF Spec

-----------------------------------------------------------------------------
(***************************************************************************)
(* What the steps do to the undo list, the counters and the file, once and *)
(* for all four statements about them.                                     *)
(***************************************************************************)

(* The list new is stk with recs on top of it, their numbers aside.        *)
Grown(new, stk, recs) ==
  /\ Len(new) = Len(stk) + Len(recs)
  /\ \A i \in 1..Len(stk) : new[i].op = stk[i].op /\ new[i].was = stk[i].was
  /\ \A i \in 1..Len(recs) : /\ new[Len(stk) + i].op = recs[i].op
                             /\ new[Len(stk) + i].was = recs[i].was

(* uwrite_op makes a list grow.                                            *)
LEMMA JoinGrown ==
  ASSUME NEW stk \in Seq(Written), NEW recs \in Seq(Written), NEW c \in Nat
  PROVE  Grown(stk \o Numbered(recs, c), stk, recs)
  <1> DEFINE m == Numbered(recs, c)
             j == stk \o m
  <1>1. /\ m \in Seq(Written) /\ Len(m) = Len(recs)
        /\ \A i \in 1..Len(recs) : Same(m[i], recs[i])
    BY NumberedFields
  <1> HIDE DEF m
  <1>2. Len(stk) \in Nat /\ Len(recs) \in Nat
    BY LenProperties
  <1>3. /\ Len(j) = Len(stk) + Len(m)
        /\ \A i \in 1..Len(stk) + Len(m) :
             j[i] = IF i <= Len(stk) THEN stk[i] ELSE m[i - Len(stk)]
    <2>1. m \in Seq(Written)
      BY <1>1
    <2> QED
      BY <2>1, ConcatProperties
  <1> HIDE DEF j
  <1>4. ASSUME NEW i \in 1..Len(stk)
        PROVE  j[i] = stk[i]
    <2>1. i \in 1..Len(stk) + Len(m) /\ i <= Len(stk)
      BY <1>1, <1>2
    <2> QED
      BY <1>3, <2>1
  <1>5. ASSUME NEW i \in 1..Len(recs)
        PROVE  Same(j[Len(stk) + i], recs[i])
    <2>1. /\ Len(stk) + i \in 1..Len(stk) + Len(m) /\ ~(Len(stk) + i <= Len(stk))
          /\ Len(stk) + i - Len(stk) = i
      BY <1>1, <1>2
    <2>2. j[Len(stk) + i] = m[i]
      BY <1>3, <2>1
    <2> QED
      BY <1>1, <2>2
  <1>6. Grown(j, stk, recs)
    <2>1. Len(j) = Len(stk) + Len(recs)
      BY <1>1, <1>3
    <2> QED
      BY <1>4, <1>5, <2>1 DEF Grown, Same
  <1> QED
    BY <1>6 DEF j, m

(* A change of a record's length makes no difference to that.              *)
LEMMA GrownTwice ==
  ASSUME NEW new, NEW mid, NEW stk, NEW recs,
         Len(stk) \in Nat, Len(mid) = Len(stk),
         \A i \in 1..Len(stk) : mid[i].op = stk[i].op /\ mid[i].was = stk[i].was,
         Grown(new, mid, recs)
  PROVE  Grown(new, stk, recs)
  BY DEF Grown

(* A step that adds records without marks to the undo list and, where      *)
(* there is no redo, counts the edits among them.                          *)
Wrote == \E recs \in Seq(Written) :
  /\ \A i \in 1..Len(recs) : recs[i].op # "START"
  /\ Grown(undo', undo, recs)
  /\ ~Redo => nummod' = nummod + EditsOf(recs)
  /\ ~Redo /\ Len(undo) = 0 => Len(recs) > 0 /\ recs[1].was = text
  /\ disk' = disk
  /\ changed' = TRUE \/ (changed' = changed /\ text' = text)

(* A successful save: a mark, no modifications, and the text in the file.  *)
Saved == \E r \in Written :
  /\ r.op = "START" /\ r.was = text
  /\ Grown(undo', undo, <<r>>)
  /\ nummod' = 0 /\ changed' = FALSE /\ text' = text /\ disk' = text

(* A step that takes the last record, which is no mark, off the undo list  *)
(* and the text back to where it was.                                      *)
Took ==
  /\ undo # <<>> /\ Last(undo).op # "START"
  /\ undo' = Front(undo) /\ text' = Last(undo).was
  /\ nummod' = (IF Last(undo).op \in Edits THEN Uncounted ELSE nummod)
  /\ disk' = disk
  /\ changed' = TRUE \/ (changed' = changed /\ text' = text)

(* A step that leaves text, undo list, count and file; it may show the     *)
(* buffer as unchanged only when there is nothing left to undo.            *)
Rested ==
  /\ undo' = undo /\ text' = text /\ nummod' = nummod /\ disk' = disk
  /\ changed' = changed \/ (changed' = FALSE /\ (~Redo => undo = <<>>))

(* Saves succeed, and undo stops at the last of them.                      *)
SinceSave == /\ WithinLimits /\ Saves \subseteq {"ok"} /\ Pasts \subseteq {"no"}

(* An editing step writes.                                                 *)
LEMMA RecordedWrote ==
  ASSUME FitInv, Recorded, disk' = disk,
         changed' = TRUE \/ (changed' = changed /\ text' = text)
  PROVE  Wrote
  <1>1. PICK recs : Log(recs) /\ Leads(recs, text, dot, text', dot') /\ Len(recs) > 0
    BY DEF Recorded
  <1>2. /\ recs \in Seq(Written) /\ recs[1].was = text
        /\ \A i \in 1..Len(recs) : recs[i].op # "START"
    BY <1>1 DEF Leads
  <1>3. undo' = undo \o Numbered(recs, undoChain) /\ nummod' = nummod + EditsOf(recs)
    BY <1>1 DEF Log
  <1>4. Grown(undo', undo, recs)
    BY <1>2, <1>3, JoinGrown DEF FitInv
  <1> QED
    BY <1>1, <1>2, <1>3, <1>4 DEF Wrote

(* So does a collapsing self_insert, whose cursor record is no edit.       *)
LEMMA CollapseWrote ==
  ASSUME FitInv, TypesInv, NEW c \in Char, dot < Len(text), Collapses(c),
         Collapse(TypedGoto(text, dot, c)), disk' = disk, changed' = TRUE
  PROVE  Wrote
  <1> DEFINE top == Last(undo)
             f == Front(undo)
             new == [top EXCEPT !.len = @ + 1]
             tail == TypedGoto(text, dot, c)
             mid == f \o <<new>>
  <1>1. /\ undo' = mid \o Numbered(tail, undoChain) /\ nummod' = nummod
        /\ undo # <<>>
    BY DEF Collapse, Collapses
  <1>2. undo \in Seq(Written) /\ Len(undo) \in Nat /\ Len(undo) # 0 /\ undoChain \in Nat
        /\ Fits(undo, text, dot)
    BY <1>1, LenProperties, EmptySeq DEF FitInv
  <1>3. /\ f \in Seq(Written) /\ Len(f) = Len(undo) - 1
        /\ \A i \in 1..Len(undo) - 1 : f[i] = undo[i]
        /\ top \in Written
    BY <1>1, <1>2, FitsTop
  <1>4. top = undo[Len(undo)]
    BY DEF Last
  <1> HIDE DEF top, f
  <1>5. new \in Written /\ new.op = top.op /\ new.was = top.was
    <2>1. top.len + 1 \in Nat /\ top.op = "DELETE"
      BY <1>3, WrittenFields DEF Collapses, top
    <2> QED
      BY <1>3, <2>1 DEF Written
  <1> HIDE DEF new
  <1>6. /\ mid \in Seq(Written) /\ Len(mid) = Len(undo)
        /\ \A i \in 1..Len(undo) : mid[i].op = undo[i].op /\ mid[i].was = undo[i].was
    <2> DEFINE x == <<new>>
    <2>1. x \in Seq(Written) /\ Len(x) = 1 /\ x[1] = new
      BY <1>5
    <2> HIDE DEF x
    <2>2. /\ f \o x \in Seq(Written) /\ Len(f \o x) = Len(f) + Len(x)
          /\ \A i \in 1..Len(f) + Len(x) :
               (f \o x)[i] = IF i <= Len(f) THEN f[i] ELSE x[i - Len(f)]
      BY <1>3, <2>1, ConcatProperties
    <2> DEFINE y == f \o x
    <2> HIDE DEF y
    <2>3. ASSUME NEW i \in 1..Len(undo)
          PROVE  y[i].op = undo[i].op /\ y[i].was = undo[i].was
      <3>1. CASE i = Len(undo)
        <4>1. ~(i <= Len(f)) /\ i - Len(f) = 1 /\ i \in 1..Len(f) + Len(x)
          BY <1>2, <1>3, <2>1, <3>1
        <4>2. y[i] = new
          BY <2>1, <2>2, <4>1 DEF y
        <4> QED
          BY <1>4, <1>5, <3>1, <4>2
      <3>2. CASE i # Len(undo)
        <4>1. i <= Len(f) /\ i \in 1..Len(undo) - 1 /\ i \in 1..Len(f) + Len(x)
          BY <1>2, <1>3, <2>1, <3>2
        <4>2. y[i] = f[i]
          BY <2>2, <4>1 DEF y
        <4> QED
          BY <1>3, <4>1, <4>2
      <3> QED
        BY <3>1, <3>2
    <2>4. y \in Seq(Written) /\ Len(y) = Len(undo)
      BY <1>2, <1>3, <2>1, <2>2 DEF y
    <2>5. mid = y
      BY DEF x, y
    <2> HIDE DEF mid
    <2> QED
      BY <2>3, <2>4, <2>5
  <1>7. /\ tail \in Seq(Written) /\ \A i \in 1..Len(tail) : tail[i].op # "START"
    <2>1. Leads(tail, Paste(text, dot, <<c>>), IF c = NL THEN dot + 1 ELSE dot,
                Paste(text, dot, <<c>>), dot + 1)
      BY TypedGotoLeads DEF FitInv
    <2> QED
      BY <2>1 DEF Leads
  <1>8. EditsOf(tail) = 0
    <2>1. {i \in 1..Len(tail) : tail[i].op \in Edits} = {}
      BY DEF TypedGoto, Record, Edits
    <2> QED
      BY <2>1, FS_EmptySet DEF EditsOf
  <1> HIDE DEF mid, tail
  <1>9. Grown(undo', undo, tail)
    <2>1. Grown(undo', mid, tail)
      BY <1>1, <1>2, <1>6, <1>7, JoinGrown
    <2> QED
      BY <1>2, <1>6, <2>1, GrownTwice
  <1>10. nummod' = nummod + EditsOf(tail)
    BY <1>1, <1>8 DEF TypesInv
  <1> QED
    BY <1>2, <1>7, <1>9, <1>10 DEF Wrote

(* A save, when saves succeed, leaves the text in the file.                *)
LEMMA SaveSaved ==
  ASSUME SinceSave, FitInv, NEW outcome \in Saves, Save(outcome)
  PROVE  Saved
  <1> DEFINE r == Record("START", dot, 0, <<>>, text)
             x == <<r>>
  <1>1. /\ undo' = undo \o Numbered(x, undoChain)
        /\ nummod' = 0 /\ changed' = FALSE /\ text' = text /\ disk' = text
    BY DEF Save, buffer, SinceSave
  <1>2. /\ text \in Text /\ dot \in Nat /\ undo \in Seq(Written) /\ undoChain \in Nat
    BY DEF FitInv
  <1>3. r \in Written /\ r.op = "START" /\ r.was = text
    BY <1>2, EmptySeq DEF Record, Written
  <1> HIDE DEF r
  <1>4. x \in Seq(Written)
    BY <1>3
  <1>5. Grown(undo', undo, x)
    <2> HIDE DEF x
    <2> QED
      BY <1>1, <1>2, <1>4, JoinGrown
  <1> QED
    BY <1>1, <1>3, <1>5 DEF Saved

(* A pass of do_undo takes a record off the undo list in an undo, and adds *)
(* to it in a redo.                                                        *)
LEMMA PoppedKind ==
  ASSUME FitInv, ustate # "normal", Source # <<>>,
         NEW recs \in Seq(Written), \A i \in 1..Len(recs) : recs[i].op # "START",
         Popped(recs), Last(Source).op # "START", text' = Last(Source).was,
         nummod' = (IF Last(Source).op \in Edits THEN Uncounted ELSE nummod),
         disk' = disk,
         changed' = TRUE \/ (changed' = changed /\ text' = text)
  PROVE  Wrote \/ Took
  <1>1. CASE ustate = "undo"
    BY <1>1 DEF Popped, Source, Took
  <1>2. CASE ustate = "redo"
    <2>1. undo' = undo \o Numbered(recs, undoChain) /\ Redo
      BY <1>2 DEF Popped, FitInv
    <2>2. Grown(undo', undo, recs)
      BY <2>1, JoinGrown DEF FitInv
    <2> QED
      BY <2>1, <2>2 DEF Wrote
  <1> QED
    BY <1>1, <1>2 DEF FitInv

(* The undoing of an edit is one of the two.                               *)
LEMMA UndoEditKind ==
  ASSUME FitInv, UndoEdit
  PROVE  Wrote \/ Took
  <1> DEFINE r == Last(Source)
             recs == UndoneRecords(text, r)
  <1>1. /\ ustate # "normal" /\ Source # <<>> /\ r.op \in Edits /\ r.op # "START"
        /\ Popped(recs) /\ text' = TakenBack(text, r)
        /\ nummod' = Uncounted /\ changed' = TRUE /\ disk' = disk
    BY DEF UndoEdit, Undoing, UndoneRecords, Edits
  <1>2. r \in Written /\ FitsAt(r, text, dot) /\ text \in Text
    BY <1>1, SourceTop DEF FitInv
  <1>3. /\ r.at + r.len <= Len(text) /\ TakenBack(text, r) = r.was
        /\ Bottom = {} => r.at + r.len < Len(text)
    BY <1>1, <1>2 DEF FitsAt
  <1> HIDE DEF r
  <1>4. /\ recs \in Seq(Written)
        /\ \A i \in 1..Len(recs) : recs[i].op # "START"
    BY <1>2, <1>3, UndoneLeads
  <1> HIDE DEF recs
  <1> QED
    BY <1>1, <1>3, <1>4, PoppedKind DEF r

(* So is the undoing of a cursor record.                                   *)
LEMMA UndoGotoKind ==
  ASSUME FitInv, UndoGoto
  PROVE  Wrote \/ Took
  <1> DEFINE r == Last(Source)
             recs == <<>>
  <1>1. /\ ustate # "normal" /\ Source # <<>> /\ r.op = "GOTO" /\ r.op \notin Edits
        /\ Popped(recs) /\ text' = text
        /\ nummod' = nummod /\ changed' = changed /\ disk' = disk
    BY DEF UndoGoto, Undoing, Edits, marks
  <1>2. r \in Written /\ FitsAt(r, text, dot) /\ text \in Text
    BY <1>1, SourceTop DEF FitInv
  <1> HIDE DEF r
  <1>3. r.was = text
    BY <1>1, <1>2, PassedText
  <1>4. recs \in Seq(Written) /\ \A i \in 1..Len(recs) : recs[i].op # "START"
    BY EmptySeq
  <1> HIDE DEF recs
  <1> QED
    BY <1>1, <1>3, <1>4, PoppedKind DEF r

(* Every step is of one of the four kinds.                                 *)
LEMMA Kinds ==
  ASSUME SinceSave, FitInv, TypesInv, past = "no", [Next]_vars
  PROVE  Wrote \/ Saved \/ Took \/ Rested
  <1>1. CASE Key
    BY <1>1 DEF Key, Rested, buffer, marks
  <1>2. ASSUME NEW c \in Char, SelfInsert(c)
        PROVE  Wrote
    <2>1. changed' = TRUE /\ disk' = disk
      BY <1>2 DEF SelfInsert
    <2> QED
      BY <1>2, <2>1, SelfInsertRecorded, RecordedWrote, CollapseWrote
  <1>3. ASSUME NEW c \in Char, Overwrite(c)
        PROVE  Wrote
    <2>1. changed' = TRUE /\ disk' = disk
      BY <1>3 DEF Overwrite
    <2> QED
      BY <1>3, <2>1, OverwriteRecorded, RecordedWrote
  <1>4. ASSUME NEW s \in Strings, Insert(s)
        PROVE  Wrote
    <2>1. changed' = TRUE /\ disk' = disk
      BY <1>4 DEF Insert
    <2> QED
      BY <1>4, <2>1, InsertRecorded, RecordedWrote
  <1>5. ASSUME NEW n \in 1..2, Delete(n)
        PROVE  Wrote
    <2>1. changed' = TRUE /\ disk' = disk
      BY <1>5 DEF Delete
    <2> QED
      BY <1>5, <2>1, DeleteRecorded, RecordedWrote DEF SinceSave
  <1>6. ASSUME NEW d \in 0..Len(text), MoveTo(d)
        PROVE  Wrote
    <2>1. changed' = changed /\ text' = text /\ disk' = disk
      BY <1>6 DEF MoveTo
    <2> QED
      BY <1>6, <2>1, MoveToRecorded, RecordedWrote
  <1>7. ASSUME NEW d \in 0..Len(text), ChangeWindow(d)
        PROVE  Rested
    BY <1>7 DEF ChangeWindow, Rested, log, marks
  <1>8. ~SaveFails
    BY DEF SaveFails, SinceSave
  <1>9. ASSUME NEW outcome \in Saves, Save(outcome)
        PROVE  Saved
    BY <1>9, SaveSaved
  <1>10. CASE BeginUndo \/ BeginRedo
    BY <1>10 DEF BeginUndo, BeginRedo, Begin, Rested, buffer, marks
  <1>11. CASE UndoEdit
    BY <1>11, UndoEditKind
  <1>12. CASE UndoGoto
    BY <1>12, UndoGotoKind
  <1>13. CASE UndoStart
    <2>1. UNCHANGED log /\ UNCHANGED <<buffer, marks>> /\ disk' = disk
      BY <1>13 DEF UndoStart, Undoing
    <2> QED
      BY <2>1 DEF Rested, log, buffer, marks
  <1>14. CASE UndoNothing
    <2>1. /\ UNCHANGED <<buffer, log, nummod>> /\ disk' = disk /\ changed' = FALSE
          /\ Source = <<>> /\ ustate # "normal"
      BY <1>14 DEF UndoNothing, Undoing
    <2>2. ~Redo => undo = <<>>
      BY <2>1 DEF Source, FitInv
    <2> QED
      BY <2>1, <2>2 DEF Rested, buffer, log
  <1>15. CASE UNCHANGED vars
    BY <1>15 DEF vars, Rested, buffer, log, marks
  <1> QED
    BY <1>1, <1>2, <1>3, <1>4, <1>5, <1>6, <1>7, <1>8, <1>9, <1>10, <1>11, <1>12, <1>13,
       <1>14, <1>15 DEF Next

(* No do_undo passes a save.                                               *)
LEMMA NeverPast ==
  ASSUME SinceSave, past = "no", [Next]_vars
  PROVE  past' = "no"
  <1>1. CASE BeginUndo \/ BeginRedo
    BY <1>1 DEF BeginUndo, BeginRedo, Begin, SinceSave
  <1> QED
    BY <1>1 DEF Next, vars, command, Key, Editing, SelfInsert, Insert, Delete, Overwrite, MoveTo,
       ChangeWindow, SaveFails, Save, Undoing, UndoEdit, UndoGoto, UndoStart, UndoNothing

-----------------------------------------------------------------------------
(***************************************************************************)
(* The mark of the last save.                                              *)
(***************************************************************************)

(* The record stk[i] is the last mark of the list.                         *)
LastMark(stk, i) == /\ stk[i].op = "START"
                    /\ \A j \in (i + 1)..Len(stk) : stk[j].op # "START"

(* What MarkStands says of a mark.                                         *)
LEMMA MarkAbove ==
  ASSUME Len(undo) \in Nat, NEW i \in 1..Len(undo), MarkStands, LastMark(undo, i)
  PROVE  undo[i].was = disk
  BY DEF MarkStands, LastMark

(* Records without marks put on the list leave the last mark where it is.  *)
LEMMA WroteMarks ==
  ASSUME Len(undo) \in Nat, MarkStands, Wrote
  PROVE  MarkStands'
  <1>1. PICK recs \in Seq(Written) :
           /\ \A i \in 1..Len(recs) : recs[i].op # "START"
           /\ Grown(undo', undo, recs) /\ disk' = disk
    BY DEF Wrote
  <1>2. Len(recs) \in Nat /\ Len(undo') = Len(undo) + Len(recs)
    BY <1>1, LenProperties DEF Grown
  <1>3. ASSUME NEW i \in 1..Len(undo'), LastMark(undo', i)
        PROVE  undo'[i].was = disk
    <2>1. i <= Len(undo)
      <3>1. SUFFICES ASSUME ~(i <= Len(undo)) PROVE FALSE
        OBVIOUS
      <3>2. i - Len(undo) \in 1..Len(recs) /\ Len(undo) + (i - Len(undo)) = i
        BY <1>2, <3>1
      <3>3. undo'[i].op = recs[i - Len(undo)].op
        BY <1>1, <3>2 DEF Grown
      <3> QED
        BY <1>1, <1>3, <3>2, <3>3 DEF LastMark
    <2>2. i \in 1..Len(undo)
      BY <1>2, <2>1
    <2>3. undo[i].op = "START" /\ undo[i].was = undo'[i].was
      BY <1>1, <1>3, <2>2 DEF Grown, LastMark
    <2>4. ASSUME NEW j \in (i + 1)..Len(undo)
          PROVE  undo[j].op # "START"
      <3>1. j \in 1..Len(undo) /\ j \in (i + 1)..Len(undo')
        BY <1>2
      <3> QED
        BY <1>1, <1>3, <3>1 DEF Grown, LastMark
    <2> QED
      BY <2>2, <2>3, <2>4, MarkAbove DEF LastMark
  <1> QED
    BY <1>1, <1>3 DEF MarkStands, LastMark

(* A save makes a mark of its own, at the text it put in the file.         *)
LEMMA SavedMarks ==
  ASSUME Len(undo) \in Nat, Saved
  PROVE  MarkStands'
  <1>1. PICK r \in Written : /\ r.op = "START" /\ r.was = text
                             /\ Grown(undo', undo, <<r>>) /\ disk' = text
    BY DEF Saved
  <1>2. /\ Len(undo') = Len(undo) + 1
        /\ undo'[Len(undo) + 1].op = "START" /\ undo'[Len(undo) + 1].was = text
    BY <1>1 DEF Grown
  <1>3. ASSUME NEW i \in 1..Len(undo'), LastMark(undo', i)
        PROVE  undo'[i].was = disk'
    <2>1. i = Len(undo) + 1
      <3>1. SUFFICES ASSUME i # Len(undo) + 1 PROVE FALSE
        OBVIOUS
      <3>2. Len(undo) + 1 \in (i + 1)..Len(undo')
        BY <1>2, <3>1
      <3> QED
        BY <1>2, <1>3, <3>2 DEF LastMark
    <2> QED
      BY <1>1, <1>2, <2>1
  <1> QED
    BY <1>3 DEF MarkStands, LastMark

(* Taking a record that is no mark leaves the last mark.                   *)
LEMMA TookMarks ==
  ASSUME FitInv, MarkStands, Took
  PROVE  MarkStands'
  <1>1. undo # <<>> /\ Last(undo).op # "START" /\ undo' = Front(undo) /\ disk' = disk
    BY DEF Took
  <1>2. /\ Len(undo') = Len(undo) - 1 /\ Len(undo) \in Nat
        /\ \A i \in 1..Len(undo) - 1 : undo'[i] = undo[i]
    BY <1>1, FitsTop, LenProperties DEF FitInv
  <1>3. undo[Len(undo)].op # "START"
    BY <1>1 DEF Last
  <1>4. ASSUME NEW i \in 1..Len(undo'), LastMark(undo', i)
        PROVE  undo'[i].was = disk'
    <2>1. i \in 1..Len(undo) /\ undo'[i] = undo[i]
      BY <1>2
    <2>2. ASSUME NEW j \in (i + 1)..Len(undo)
          PROVE  undo[j].op # "START"
      <3>1. CASE j = Len(undo)
        BY <1>3, <3>1
      <3>2. CASE j # Len(undo)
        <4>1. i \in Nat /\ i >= 1 /\ Len(undo) \in Nat /\ Len(undo') = Len(undo) - 1
          BY <1>2, <2>1
        <4>2. j \in (i + 1)..Len(undo') /\ j \in 1..Len(undo) - 1
          BY <3>2, <4>1
        <4> QED
          BY <1>2, <1>4, <4>2 DEF LastMark
      <3> QED
        BY <3>1, <3>2
    <2>3. undo[i].was = disk
      BY <1>2, <1>4, <2>1, <2>2, MarkAbove DEF LastMark
    <2> QED
      BY <1>1, <2>1, <2>3
  <1> QED
    BY <1>4 DEF MarkStands, LastMark

(* MarkStands, and that undo stops at marks.                               *)
MarkInv == past = "no" /\ MarkStands

(* It holds in the initial states.                                         *)
LEMMA MarkInit == Init => MarkInv
  BY DEF Init, MarkInv, MarkStands

(* Every step keeps it.                                                    *)
LEMMA MarkStep == SinceSave /\ FitInv /\ TypesInv /\ MarkInv /\ [Next]_vars => MarkInv'
  <1> SUFFICES ASSUME SinceSave, FitInv, TypesInv, MarkInv, [Next]_vars
               PROVE  MarkInv'
    OBVIOUS
  <1>1. past' = "no"
    BY NeverPast DEF MarkInv
  <1>2. Len(undo) \in Nat
    BY LenProperties DEF FitInv
  <1>3. CASE Wrote
    BY <1>1, <1>2, <1>3, WroteMarks DEF MarkInv
  <1>4. CASE Saved
    BY <1>1, <1>2, <1>4, SavedMarks DEF MarkInv
  <1>5. CASE Took
    BY <1>1, <1>5, TookMarks DEF MarkInv
  <1>6. CASE Rested
    BY <1>1, <1>6 DEF MarkInv, MarkStands, Rested
  <1> QED
    BY <1>3, <1>4, <1>5, <1>6, Kinds DEF MarkInv

(* MarkStands: the last START record on the undo list marks the text that  *)
(* is in the file (u_terminate, undo_command), with redo as without.       *)
THEOREM MarksHold == SinceSave => (Spec => []MarkStands)
  <1>1. SUFFICES ASSUME SinceSave
                 PROVE  Spec => []MarkStands
    OBVIOUS
  <1>2. FitInv /\ TypesInv /\ [Next]_vars => FitInv' /\ TypesInv'
    BY <1>1, FitStep, TypesStep DEF SinceSave
  <1>3. FitInv /\ TypesInv /\ MarkInv /\ [Next]_vars => MarkInv'
    BY <1>1, MarkStep
  <1>4. MarkInv => MarkStands
    BY DEF MarkInv
  <1> QED
    BY <1>2, <1>3, <1>4, FitInit, TypesInit, MarkInit, PTL DEF Spec

-----------------------------------------------------------------------------
(***************************************************************************)
(* The count of modifications and the changed flag.                        *)
(***************************************************************************)

(* As SinceSave, without redo.                                             *)
NoRedo == SinceSave /\ ~Redo

(* Before the first save, the oldest record was written at the text of the *)
(* file.                                                                   *)
OriginInv ==
  (\A i \in 1..Len(undo) : undo[i].op # "START")
    => /\ Len(undo) = 0 => text = disk
       /\ Len(undo) > 0 => undo[1].was = disk

(* The edits recorded since the last mark.                                 *)
Uncovered(stk) == {i \in 1..Len(stk) : /\ stk[i].op \in Edits
                                       /\ \A j \in i..Len(stk) : stk[j].op # "START"}

(* b_nummod counts them.                                                   *)
CountInv == nummod = Cardinality(Uncovered(undo))

(* There are finitely many.                                                *)
LEMMA UncoveredFinite ==
  ASSUME NEW stk, Len(stk) \in Nat
  PROVE  IsFiniteSet(Uncovered(stk)) /\ Cardinality(Uncovered(stk)) \in Nat
  <1>1. IsFiniteSet(1..Len(stk))
    BY FS_Interval
  <1>2. Uncovered(stk) \in SUBSET (1..Len(stk))
    BY DEF Uncovered
  <1>3. IsFiniteSet(Uncovered(stk))
    BY <1>1, <1>2, FS_Subset
  <1> QED
    BY <1>3, FS_CardinalityType

(* Counting does not depend on where one begins.                           *)
LEMMA ShiftCount ==
  ASSUME NEW n \in Nat, NEW E \in SUBSET Nat, IsFiniteSet(E)
  PROVE  /\ IsFiniteSet({n + i : i \in E})
         /\ Cardinality({n + i : i \in E}) = Cardinality(E)
  <1> DEFINE T == {n + i : i \in E}
             f == [i \in E |-> n + i]
  <1>1. f \in [E -> T]
    OBVIOUS
  <1>2. \A a, b \in E : f[a] = f[b] => a = b
    OBVIOUS
  <1>3. \A t \in T : \E a \in E : f[a] = t
    OBVIOUS
  <1> HIDE DEF f, T
  <1>4. f \in Bijection(E, T)
    BY <1>1, <1>2, <1>3, Zenon DEF Bijection, Injection, Surjection, IsInjective
  <1>5. ExistsBijection(E, T)
    BY <1>4 DEF ExistsBijection
  <1> QED
    BY <1>5, FS_Bijection DEF T

(* A list that grows by records without marks has as many more uncovered   *)
(* edits as there are edits among them.                                    *)
LEMMA GrownCount ==
  ASSUME NEW new, NEW stk, Len(stk) \in Nat, NEW recs, Len(recs) \in Nat,
         \A i \in 1..Len(recs) : recs[i].op # "START", Grown(new, stk, recs)
  PROVE  Cardinality(Uncovered(new)) = Cardinality(Uncovered(stk)) + EditsOf(recs)
  <1> DEFINE n == Len(stk)
             E == {i \in 1..Len(recs) : recs[i].op \in Edits}
             T == {n + i : i \in E}
             U == Uncovered(stk)
             V == Uncovered(new)
  <1>1. n \in Nat /\ Len(recs) \in Nat /\ Len(new) = n + Len(recs)
    BY DEF Grown
  <1>2. ASSUME NEW i \in 1..n
        PROVE  i \in 1..Len(new) /\ new[i].op = stk[i].op
    BY <1>1 DEF Grown
  <1>3. ASSUME NEW i \in 1..Len(recs)
        PROVE  n + i \in 1..Len(new) /\ new[n + i].op = recs[i].op /\ new[n + i].op # "START"
    <2>1. new[n + i].op = recs[i].op
      BY DEF Grown
    <2>2. n + i \in 1..Len(new)
      BY <1>1
    <2> QED
      BY <2>1, <2>2
  <1>4. ASSUME NEW j \in 1..Len(new), ~(j <= n)
        PROVE  j - n \in 1..Len(recs) /\ n + (j - n) = j
    BY <1>1, <1>4
  <1> HIDE DEF n
  <1>5. ASSUME NEW i \in V
        PROVE  i \in U \cup T
    <2>1. /\ i \in 1..Len(new) /\ new[i].op \in Edits
          /\ \A j \in i..Len(new) : new[j].op # "START"
      BY DEF Uncovered
    <2>2. CASE i <= n
      <3>1. i \in 1..n /\ stk[i].op \in Edits
        BY <1>1, <1>2, <2>1, <2>2
      <3>2. ASSUME NEW j \in i..n
            PROVE  stk[j].op # "START"
        <4>1. j \in 1..n
          BY <1>1, <2>1, <2>2
        <4>2. j \in i..Len(new)
          BY <1>1, <2>1, <4>1
        <4> QED
          BY <1>2, <2>1, <4>1, <4>2
      <3> QED
        BY <3>1, <3>2 DEF Uncovered, n
    <2>3. CASE ~(i <= n)
      <3>1. i - n \in 1..Len(recs) /\ n + (i - n) = i
        BY <1>4, <2>1, <2>3
      <3>2. i - n \in E
        BY <1>3, <2>1, <3>1
      <3> QED
        BY <3>1, <3>2
    <2> QED
      BY <2>2, <2>3
  <1>6. ASSUME NEW i \in U
        PROVE  i \in V
    <2>1. /\ i \in 1..n /\ stk[i].op \in Edits
          /\ \A j \in i..n : stk[j].op # "START"
      BY DEF Uncovered, n
    <2>2. ASSUME NEW j \in i..Len(new)
          PROVE  new[j].op # "START"
      <3>1. j \in 1..Len(new) /\ i \in Nat /\ j \in Nat /\ i <= j
        BY <1>1, <2>1
      <3>2. CASE j <= n
        <4>1. j \in 1..n /\ j \in i..n
          BY <1>1, <2>1, <3>1, <3>2
        <4> QED
          BY <1>2, <2>1, <4>1
      <3>3. CASE ~(j <= n)
        BY <1>3, <1>4, <3>1, <3>3
      <3> QED
        BY <3>2, <3>3
    <2> QED
      BY <1>2, <2>1, <2>2 DEF Uncovered
  <1>7. ASSUME NEW i \in E
        PROVE  n + i \in V
    <2>1. i \in 1..Len(recs) /\ n + i \in 1..Len(new) /\ new[n + i].op \in Edits
      BY <1>3
    <2>2. ASSUME NEW j \in (n + i)..Len(new)
          PROVE  new[j].op # "START"
      <3>1. j \in 1..Len(new) /\ ~(j <= n)
        BY <1>1, <2>1
      <3> QED
        BY <1>3, <1>4, <3>1
    <2> QED
      BY <2>1, <2>2 DEF Uncovered
  <1>8. V = U \cup T
    BY <1>5, <1>6, <1>7
  <1>9. U \cap T = {}
    <2>1. \A i \in E : n + i > n
      BY <1>1
    <2>2. \A i \in U : i <= n
      BY DEF Uncovered, n
    <2>3. ASSUME NEW i \in U, i \in T
          PROVE  FALSE
      <3>1. PICK k \in E : i = n + k
        BY <2>3
      <3>2. k \in Nat /\ k > 0 /\ i <= n
        BY <2>2
      <3> QED
        BY <1>1, <3>1, <3>2
    <2> QED
      BY <2>3
  <1>10. IsFiniteSet(U) /\ Cardinality(U) \in Nat
    BY UncoveredFinite
  <1>11. IsFiniteSet(E) /\ Cardinality(E) = EditsOf(recs) /\ EditsOf(recs) \in Nat
    BY <1>1, EditsCounted DEF EditsOf
  <1>12. E \in SUBSET Nat
    BY <1>1
  <1> HIDE DEF E
  <1>13. IsFiniteSet(T) /\ Cardinality(T) = Cardinality(E)
    BY <1>1, <1>11, <1>12, ShiftCount
  <1> HIDE DEF U, T, V
  <1>14. Cardinality(V) = Cardinality(U) + Cardinality(T) - Cardinality(U \cap T)
    BY <1>8, <1>10, <1>13, FS_Union
  <1>15. Cardinality(U \cap T) = 0
    BY <1>9, FS_EmptySet
  <1>16. Cardinality(V) = Cardinality(U) + EditsOf(recs)
    BY <1>10, <1>11, <1>13, <1>14, <1>15
  <1> QED
    BY <1>16 DEF U, V

(* A step that writes keeps the count and the origin.                      *)
LEMMA WroteCounts ==
  ASSUME NoRedo, FitInv, TypesInv, CountInv, OriginInv, Wrote
  PROVE  CountInv' /\ OriginInv'
  <1>1. PICK recs \in Seq(Written) :
           /\ \A i \in 1..Len(recs) : recs[i].op # "START"
           /\ Grown(undo', undo, recs) /\ disk' = disk
           /\ nummod' = nummod + EditsOf(recs)
           /\ Len(undo) = 0 => Len(recs) > 0 /\ recs[1].was = text
           /\ changed' = TRUE \/ (changed' = changed /\ text' = text)
    BY DEF Wrote, NoRedo
  <1>2. Len(undo) \in Nat /\ Len(recs) \in Nat
    BY LenProperties DEF FitInv
  <1>3. CountInv'
    <2>1. Cardinality(Uncovered(undo')) = Cardinality(Uncovered(undo)) + EditsOf(recs)
      BY <1>1, <1>2, GrownCount
    <2> QED
      BY <1>1, <2>1 DEF CountInv
  <1>4. OriginInv'
    <2>1. SUFFICES ASSUME \A i \in 1..Len(undo') : undo'[i].op # "START"
                   PROVE  /\ Len(undo') = 0 => text' = disk
                          /\ Len(undo') > 0 => undo'[1].was = disk
      BY <1>1 DEF OriginInv
    <2>2. Len(undo') = Len(undo) + Len(recs)
      BY <1>1 DEF Grown
    <2>3. \A i \in 1..Len(undo) : undo[i].op # "START"
      <3>1. ASSUME NEW i \in 1..Len(undo)
            PROVE  i \in 1..Len(undo') /\ undo'[i].op = undo[i].op
        BY <1>1, <1>2, <2>2 DEF Grown
      <3> QED
        BY <2>1, <3>1
    <2>4. CASE Len(undo) = 0
      <3>1. 1 \in 1..Len(recs) /\ Len(undo) + 1 = 1 /\ Len(undo') # 0
        BY <1>1, <1>2, <2>2, <2>4
      <3>2. undo'[1].was = recs[1].was
        BY <1>1, <3>1 DEF Grown
      <3> QED
        BY <1>1, <2>3, <2>4, <3>1, <3>2 DEF OriginInv
    <2>5. CASE Len(undo) # 0
      <3>1. 1 \in 1..Len(undo) /\ Len(undo') # 0
        BY <1>2, <2>2, <2>5
      <3>2. undo'[1].was = undo[1].was
        BY <1>1, <3>1 DEF Grown
      <3> QED
        BY <1>2, <2>3, <2>5, <3>1, <3>2 DEF OriginInv
    <2> QED
      BY <2>4, <2>5
  <1> QED
    BY <1>3, <1>4

(* A mark leaves no edit uncovered.                                        *)
LEMMA SavedCounts ==
  ASSUME FitInv, Saved
  PROVE  CountInv' /\ OriginInv'
  <1>1. PICK r \in Written : /\ r.op = "START"
                             /\ Grown(undo', undo, <<r>>) /\ nummod' = 0
    BY DEF Saved
  <1>2. Len(undo) \in Nat
    BY LenProperties DEF FitInv
  <1>3. Len(undo') = Len(undo) + 1 /\ undo'[Len(undo')].op = "START" /\ Len(undo') \in Nat
    BY <1>1, <1>2 DEF Grown
  <1>4. Len(undo') \in 1..Len(undo')
    BY <1>2, <1>3
  <1>5. Uncovered(undo') = {}
    <2>1. ASSUME NEW i \in Uncovered(undo')
          PROVE  FALSE
      <3>1. i \in 1..Len(undo') /\ \A j \in i..Len(undo') : undo'[j].op # "START"
        BY DEF Uncovered
      <3>2. Len(undo') \in i..Len(undo')
        BY <1>3, <3>1
      <3> QED
        BY <1>3, <3>1, <3>2
    <2> QED
      BY <2>1
  <1>6. CountInv'
    BY <1>1, <1>5, FS_EmptySet DEF CountInv
  <1> QED
    BY <1>3, <1>4, <1>6 DEF OriginInv

(* The record that is taken counts, if it is an edit: b_nummod is not zero *)
(* then, and goes down by one.                                             *)
LEMMA TookCounts ==
  ASSUME FitInv, TypesInv, CountInv, OriginInv, Took
  PROVE  CountInv' /\ OriginInv'
  <1> DEFINE n == Len(undo)
  <1>1. /\ undo # <<>> /\ Last(undo).op # "START" /\ undo' = Front(undo) /\ disk' = disk
        /\ text' = Last(undo).was
        /\ nummod' = (IF Last(undo).op \in Edits THEN Uncounted ELSE nummod)
    BY DEF Took
  <1>2. n \in Nat /\ n # 0
    BY <1>1, LenProperties, EmptySeq DEF FitInv
  <1>3. Len(undo') = n - 1 /\ \A i \in 1..n - 1 : undo'[i] = undo[i]
    BY <1>1, FitsTop DEF FitInv
  <1>4. Last(undo) = undo[n]
    BY DEF Last
  <1> HIDE DEF n
  <1>5. \A i \in 1..n - 1 : (\A j \in i..n - 1 : undo'[j].op # "START")
                              <=> (\A j \in i..n : undo[j].op # "START")
    <2>1. ASSUME NEW i \in 1..n - 1
          PROVE  (\A j \in i..n - 1 : undo'[j].op # "START")
                   <=> (\A j \in i..n : undo[j].op # "START")
      <3>1. ASSUME NEW j \in i..n - 1
            PROVE  j \in i..n /\ undo'[j] = undo[j]
        <4>1. j \in 1..n - 1 /\ j \in i..n
          BY <1>2
        <4> QED
          BY <1>3, <4>1
      <3>2. \A j \in i..n : j = n \/ j \in i..n - 1
        BY <1>2
      <3> QED
        BY <1>1, <1>4, <3>1, <3>2
    <2> QED
      BY <2>1
  <1>6. Uncovered(undo') = Uncovered(undo) \ {n}
    <2>1. Uncovered(undo') = {i \in 1..n - 1 : /\ undo'[i].op \in Edits
                                               /\ \A j \in i..n - 1 : undo'[j].op # "START"}
      BY <1>3 DEF Uncovered
    <2>2. Uncovered(undo) = {i \in 1..n : /\ undo[i].op \in Edits
                                          /\ \A j \in i..n : undo[j].op # "START"}
      BY DEF Uncovered, n
    <2>3. \A i : i \in 1..n - 1 <=> i \in 1..n /\ i # n
      BY <1>2
    <2> QED
      BY <1>3, <1>5, <2>1, <2>2, <2>3
  <1>7. n \in Uncovered(undo) <=> undo[n].op \in Edits
    <2>1. n \in 1..n /\ \A j \in n..n : j = n
      BY <1>2
    <2> QED
      BY <1>1, <1>4, <2>1 DEF Uncovered, n
  <1>8. IsFiniteSet(Uncovered(undo)) /\ Cardinality(Uncovered(undo)) \in Nat
    BY <1>2, UncoveredFinite DEF n
  <1>9. Cardinality(Uncovered(undo')) = IF n \in Uncovered(undo)
                                          THEN Cardinality(Uncovered(undo)) - 1
                                          ELSE Cardinality(Uncovered(undo))
    BY <1>6, <1>8, FS_RemoveElement
  <1>10. n \in Uncovered(undo) => Cardinality(Uncovered(undo)) # 0
    BY <1>8, FS_EmptySet
  <1>11. CountInv'
    <2>1. nummod = Cardinality(Uncovered(undo))
      BY DEF CountInv
    <2>2. nummod' = IF n \in Uncovered(undo) THEN nummod - 1 ELSE nummod
      BY <1>1, <1>4, <1>7, <1>10, <2>1 DEF Uncounted
    <2> QED
      BY <1>9, <2>1, <2>2 DEF CountInv
  <1>12. OriginInv'
    <2>1. SUFFICES ASSUME \A i \in 1..Len(undo') : undo'[i].op # "START"
                   PROVE  /\ Len(undo') = 0 => text' = disk
                          /\ Len(undo') > 0 => undo'[1].was = disk
      BY <1>1 DEF OriginInv
    <2>2. \A i \in 1..n : undo[i].op # "START"
      <3>1. \A i \in 1..n : i = n \/ i \in 1..n - 1
        BY <1>2
      <3> QED
        BY <1>1, <1>3, <1>4, <2>1, <3>1
    <2>3. undo[1].was = disk
      <3>1. n > 0
        BY <1>2
      <3> QED
        BY <2>2, <3>1 DEF OriginInv, n
    <2>4. CASE n = 1
      BY <1>1, <1>3, <1>4, <2>3, <2>4
    <2>5. CASE n # 1
      <3>1. 1 \in 1..n - 1 /\ Len(undo') # 0
        BY <1>2, <1>3, <2>5
      <3> QED
        BY <1>3, <2>3, <3>1
    <2> QED
      BY <2>4, <2>5
  <1> QED
    BY <1>11, <1>12

(* Count, origin and flag are right in the initial states.                 *)
LEMMA CountsInit == Init => CountInv /\ OriginInv /\ ChangedShown
  <1>1. SUFFICES ASSUME Init
                 PROVE  CountInv /\ OriginInv /\ ChangedShown
    OBVIOUS
  <1>2. Len(undo) = 0 /\ nummod = 0 /\ disk = text
    BY <1>1 DEF Init
  <1>3. Uncovered(undo) = {}
    BY <1>2 DEF Uncovered
  <1> QED
    BY <1>2, <1>3, FS_EmptySet DEF CountInv, OriginInv, ChangedShown

(* Every step keeps them.                                                  *)
LEMMA CountsStep ==
  NoRedo /\ FitInv /\ TypesInv /\ past = "no" /\ CountInv /\ OriginInv /\ ChangedShown /\ [Next]_vars
    => CountInv' /\ OriginInv' /\ ChangedShown'
  <1> SUFFICES ASSUME NoRedo, FitInv, TypesInv, past = "no", CountInv, OriginInv, ChangedShown,
                      [Next]_vars
               PROVE  CountInv' /\ OriginInv' /\ ChangedShown'
    OBVIOUS
  <1>1. CASE Wrote
    <2>1. ChangedShown'
      BY <1>1 DEF Wrote, ChangedShown
    <2> QED
      BY <1>1, <2>1, WroteCounts
  <1>2. CASE Saved
    <2>1. ChangedShown'
      BY <1>2 DEF Saved, ChangedShown
    <2> QED
      BY <1>2, <2>1, SavedCounts
  <1>3. CASE Took
    <2>1. ChangedShown'
      BY <1>3 DEF Took, ChangedShown
    <2> QED
      BY <1>3, <2>1, TookCounts
  <1>4. CASE Rested
    <2>1. /\ undo' = undo /\ text' = text /\ nummod' = nummod /\ disk' = disk
          /\ changed' = changed \/ (changed' = FALSE /\ undo = <<>>)
      BY <1>4 DEF Rested, NoRedo
    <2>2. CountInv' /\ OriginInv'
      BY <2>1 DEF CountInv, OriginInv
    <2>3. ChangedShown'
      <3>1. CASE changed' = changed
        BY <2>1, <3>1 DEF ChangedShown
      <3>2. CASE undo = <<>>
        <4>1. Len(undo) = 0
          BY <3>2, EmptySeq
        <4>2. text = disk
          BY <4>1 DEF OriginInv
        <4> QED
          BY <2>1, <4>2 DEF ChangedShown
      <3> QED
        BY <2>1, <3>1, <3>2
    <2> QED
      BY <2>2, <2>3
  <1> QED
    BY <1>1, <1>2, <1>3, <1>4, Kinds DEF NoRedo

(* ChangedShown: without redo, a buffer that differs from its file has     *)
(* BF_CHANGED, though do_undo clears the flag when it finds nothing to     *)
(* undo.                                                                   *)
THEOREM ChangesShown == NoRedo => (Spec => []ChangedShown)
  <1>1. SUFFICES ASSUME NoRedo
                 PROVE  Spec => []ChangedShown
    OBVIOUS
  <1>2. FitInv /\ TypesInv /\ [Next]_vars => FitInv' /\ TypesInv'
    BY <1>1, FitStep, TypesStep DEF NoRedo, SinceSave
  <1>3. FitInv /\ TypesInv /\ MarkInv /\ [Next]_vars => MarkInv'
    BY <1>1, MarkStep DEF NoRedo
  <1>4. FitInv /\ TypesInv /\ MarkInv /\ CountInv /\ OriginInv /\ ChangedShown /\ [Next]_vars
          => CountInv' /\ OriginInv' /\ ChangedShown'
    BY <1>1, CountsStep DEF MarkInv
  <1> QED
    BY <1>2, <1>3, <1>4, FitInit, TypesInit, MarkInit, CountsInit, PTL DEF Spec

(* If no edits are uncovered then above the last mark (or above nothing)   *)
(* every record was written at the present text.                           *)
LEMMA NoEditsSince ==
  ASSUME FitInv, Uncovered(undo) = {}, NEW m \in 0..Len(undo), m < Len(undo),
         \A i \in (m + 1)..Len(undo) : undo[i].op # "START"
  PROVE  undo[m + 1].was = text
  <1> DEFINE n == Len(undo)
             S == {d \in Nat : d <= n - m => (d > 0 => undo[n - d + 1].was = text)}
  <1>1. n \in Nat /\ m \in Nat /\ m < n
    BY LenProperties DEF FitInv
  <1>2. \A i \in (m + 1)..n : undo[i].op # "START"
    OBVIOUS
  <1> HIDE DEF n
  <1>3. 0 \in S
    OBVIOUS
  <1>4. ASSUME NEW d \in S
        PROVE  d + 1 \in S
    <2>1. d \in Nat
      OBVIOUS
    <2>2. SUFFICES ASSUME d + 1 <= n - m
                   PROVE  undo[n - d].was = text
      <3>1. n - (d + 1) + 1 = n - d
        BY <1>1, <2>1
      <3> QED
        BY <2>1, <3>1
    <2> DEFINE i == n - d
    <2>3. i \in 1..n /\ i \in (m + 1)..n /\ i \in Nat
      BY <1>1, <2>1, <2>2
    <2> HIDE DEF i
    <2>4. undo[i] \in Written /\ FitsAt(undo[i], NextText(undo, i, text), NextDot(undo, i, dot))
      BY <2>3, ElementOfSeq DEF n, FitInv, Fits
    <2>5. undo[i].op \notin Edits
      <3>1. \A j \in i..n : undo[j].op # "START"
        <4>1. \A j \in i..n : j \in (m + 1)..n
          BY <1>1, <2>3
        <4> QED
          BY <1>2, <4>1
      <3> QED
        BY <2>3, <3>1 DEF Uncovered, n
    <2>6. NextText(undo, i, text) = text
      <3>1. CASE d = 0
        BY <1>1, <3>1 DEF NextText, i, n
      <3>2. CASE d # 0
        <4>1. i # n /\ n - d + 1 = i + 1 /\ d > 0 /\ d <= n - m
          BY <1>1, <2>1, <2>2, <3>2 DEF i
        <4>2. undo[n - d + 1].was = text
          BY <4>1
        <4> QED
          BY <4>1, <4>2 DEF NextText, n
      <3> QED
        BY <3>1, <3>2
    <2>7. undo[i].was = text
      BY <2>4, <2>5, <2>6, PassedText DEF FitInv
    <2> QED
      BY <2>7 DEF i
  <1>5. S \in SUBSET Nat
    OBVIOUS
  <1> HIDE DEF S
  <1>6. n - m \in S
    <2>1. n - m \in Nat
      BY <1>1
    <2>2. \A d \in Nat : d \in S
      BY <1>3, <1>4, <1>5, Inductive
    <2> QED
      BY <2>1, <2>2
  <1>7. n - m \in Nat /\ n - m > 0 /\ n - (n - m) + 1 = m + 1
    BY <1>1
  <1> QED
    BY <1>6, <1>7 DEF S

(* A count of zero means that the text is that of the last mark or, with   *)
(* no mark, that of the oldest record; either way that of the file.        *)
LEMMA CleanMeansSaved ==
  ASSUME FitInv, MarkStands, CountInv, OriginInv, nummod = 0
  PROVE  text = disk
  <1> DEFINE n == Len(undo)
             M == {i \in 1..n : undo[i].op = "START"}
  <1>1. n \in Nat
    BY LenProperties DEF FitInv
  <1>2. Uncovered(undo) = {}
    BY <1>1, UncoveredFinite, FS_EmptySet DEF CountInv
  <1>3. CASE M = {}
    <2>1. \A i \in 1..Len(undo) : undo[i].op # "START"
      BY <1>3
    <2>2. CASE n = 0
      BY <2>1, <2>2 DEF OriginInv
    <2>3. CASE n # 0
      <3>1. 0 \in 0..n /\ 0 < n /\ \A i \in (0 + 1)..n : undo[i].op # "START"
        BY <1>1, <2>1, <2>3
      <3>2. undo[0 + 1].was = text
        BY <1>2, <3>1, NoEditsSince
      <3> QED
        BY <2>1, <3>1, <3>2 DEF OriginInv
    <2> QED
      BY <2>2, <2>3
  <1>4. CASE M # {}
    <2> DEFINE T == {n - i : i \in M}
    <2>1. T \in SUBSET Nat /\ T # {}
      BY <1>1, <1>4
    <2>2. PICK d \in T : \A k \in T : d <= k
      BY <2>1, Smallest
    <2>3. PICK m \in M : d = n - m
      BY <2>2
    <2>4. m \in 1..n /\ undo[m].op = "START" /\ m \in Nat
      BY <1>1
    <2>5. \A i \in (m + 1)..n : undo[i].op # "START"
      <3>1. ASSUME NEW i \in (m + 1)..n, undo[i].op = "START"
            PROVE  FALSE
        <4>1. i \in 1..n
          BY <1>1, <2>4
        <4>2. n - i \in T
          BY <3>1, <4>1
        <4>3. n - m <= n - i
          BY <2>2, <2>3, <4>2
        <4> QED
          BY <1>1, <2>4, <4>1, <4>3
      <3> QED
        BY <3>1
    <2> HIDE DEF n, M, T
    <2>6. undo[m].was = disk
      BY <2>4, <2>5 DEF MarkStands, n
    <2>7. undo[m] \in Written /\ FitsAt(undo[m], NextText(undo, m, text), NextDot(undo, m, dot))
      BY <2>4, ElementOfSeq DEF FitInv, Fits, n
    <2>8. NextText(undo, m, text) = text
      <3>1. CASE m = n
        BY <3>1 DEF NextText, n
      <3>2. CASE m # n
        <4>1. m \in 0..n /\ m < n
          BY <1>1, <2>4, <3>2
        <4>2. undo[m + 1].was = text
          BY <1>2, <2>5, <4>1, NoEditsSince DEF n
        <4> QED
          BY <3>2, <4>2 DEF NextText, n
      <3> QED
        BY <3>1, <3>2
    <2>9. undo[m].was = text
      BY <2>4, <2>7, <2>8, PassedText DEF FitInv, Edits
    <2> QED
      BY <2>6, <2>9
  <1> QED
    BY <1>3, <1>4

(* Unmodified: without redo, a buffer whose b_nummod is zero, which        *)
(* file_write declines to write and an exit does not ask about, is as its  *)
(* file.                                                                   *)
THEOREM UnmodifiedIsSaved == NoRedo => (Spec => []Unmodified)
  <1>1. SUFFICES ASSUME NoRedo
                 PROVE  Spec => []Unmodified
    OBVIOUS
  <1>2. FitInv /\ TypesInv /\ [Next]_vars => FitInv' /\ TypesInv'
    BY <1>1, FitStep, TypesStep DEF NoRedo, SinceSave
  <1>3. FitInv /\ TypesInv /\ MarkInv /\ [Next]_vars => MarkInv'
    BY <1>1, MarkStep DEF NoRedo
  <1>4. FitInv /\ TypesInv /\ MarkInv /\ CountInv /\ OriginInv /\ ChangedShown /\ [Next]_vars
          => CountInv' /\ OriginInv' /\ ChangedShown'
    BY <1>1, CountsStep DEF MarkInv
  <1>5. FitInv /\ MarkInv /\ CountInv /\ OriginInv => Unmodified
    BY CleanMeansSaved DEF MarkInv, Unmodified
  <1> QED
    BY <1>2, <1>3, <1>4, <1>5, FitInit, TypesInit, MarkInit, CountsInit, PTL DEF Spec

-----------------------------------------------------------------------------
(***************************************************************************)
(* An undo takes back a whole command.                                     *)
(***************************************************************************)

(* No characters are typed, which collapse across commands, and undo is    *)
(* not "to the last modification", which ends inside a command.            *)
WholeCommands == WithinLimits /\ ~Typing /\ Moves \subseteq {FALSE}

(* The records on top of the list are numbered c, c - 1, ..., 0, and the   *)
(* one numbered 0 was written at the text b.                               *)
ChainFrom(stk, c, b) ==
  /\ c \in Nat /\ c < Len(stk)
  /\ \A j \in 0..c : stk[Len(stk) - j].chain = c - j
  /\ stk[Len(stk) - c].was = b

(* UndoRestores at every moment: the records of a command under way are a  *)
(* chain down to the text it found, an undo of it has that chain still to  *)
(* take back, and none of it left at its end.                              *)
RestInv ==
  /\ cmd = "edit" => undoChain > 0 /\ ChainFrom(undo, undoChain - 1, base)
  /\ cmd = "fresh" => undoChain = 0
  /\ cmd = "undone" /\ ustate = "undo"
       => undo # <<>> /\ ChainFrom(undo, Last(undo).chain, base)
  /\ cmd = "undone" /\ ustate = "normal" => text = base
  /\ ustate = "redo" => cmd = "other"
  /\ move = FALSE

(* The records of a further call continue the chain of their command, or   *)
(* begin it (u_chain).                                                     *)
LEMMA JoinChainFrom ==
  ASSUME NEW stk \in Seq(Written), NEW recs \in Seq(Written), Len(recs) > 0, NEW c \in Nat,
         NEW b, c = 0 => recs[1].was = b, c > 0 => ChainFrom(stk, c - 1, b)
  PROVE  ChainFrom(stk \o Numbered(recs, c), c + Len(recs) - 1, b)
  <1> DEFINE m == Numbered(recs, c)
             j == stk \o m
             n == Len(stk)
             k == Len(recs)
             e == c + k - 1
  <1>1. /\ m \in Seq(Written) /\ Len(m) = k
        /\ \A i \in 1..k : Same(m[i], recs[i]) /\ m[i].chain = c + i - 1
    BY NumberedFields
  <1> HIDE DEF m
  <1>2. n \in Nat /\ k \in Nat /\ k > 0
    BY LenProperties
  <1>3. /\ Len(j) = n + Len(m)
        /\ \A i \in 1..n + Len(m) : j[i] = IF i <= n THEN stk[i] ELSE m[i - n]
    <2>1. m \in Seq(Written)
      BY <1>1
    <2> QED
      BY <2>1, ConcatProperties
  <1>4. c > 0 => /\ c - 1 < n
                 /\ \A i \in 0..c - 1 : stk[n - i].chain = c - 1 - i
                 /\ stk[n - (c - 1)].was = b
    BY DEF ChainFrom
  <1>5. Len(j) = n + k
    BY <1>1, <1>3
  <1>6. e = c + k - 1 /\ e \in Nat
    BY <1>2
  <1> HIDE DEF j, n, k, e
  <1>7. ASSUME NEW i \in 1..k
        PROVE  j[n + i] = m[i]
    <2>1. n + i \in 1..n + Len(m) /\ ~(n + i <= n) /\ n + i - n = i
      BY <1>1, <1>2
    <2> QED
      BY <1>2, <1>3, <2>1
  <1>8. ASSUME NEW i \in 1..n
        PROVE  j[i] = stk[i]
    <2>1. i \in 1..n + Len(m) /\ i <= n
      BY <1>1, <1>2
    <2> QED
      BY <1>3, <2>1
  <1>9. ASSUME NEW i \in 0..e
        PROVE  j[(n + k) - i].chain = e - i
    <2>1. i \in Nat /\ c \in Nat /\ e = c + k - 1 /\ i <= e
      BY <1>6
    <2>2. CASE i < k
      <3>1. k - i \in 1..k /\ (n + k) - i = n + (k - i)
        BY <1>2, <2>1, <2>2
      <3>2. j[(n + k) - i] = m[k - i]
        BY <1>7, <3>1
      <3>3. m[k - i].chain = c + (k - i) - 1
        BY <1>1, <3>1
      <3> QED
        BY <1>2, <2>1, <3>2, <3>3
    <2>3. CASE ~(i < k)
      <3>1. c > 0 /\ i - k \in 0..c - 1
        BY <1>2, <2>1, <2>3
      <3>2. c - 1 < n /\ stk[n - (i - k)].chain = c - 1 - (i - k)
        BY <1>4, <3>1
      <3>3. (n + k) - i = n - (i - k) /\ n - (i - k) \in 1..n
        BY <1>2, <2>1, <2>3, <3>1, <3>2
      <3>4. j[(n + k) - i] = stk[n - (i - k)]
        BY <1>8, <3>3
      <3>5. c - 1 - (i - k) = e - i
        BY <1>2, <2>1
      <3> QED
        BY <3>2, <3>4, <3>5
    <2> QED
      BY <2>2, <2>3
  <1>10. j[(n + k) - e].was = b
    <2>1. CASE c = 0
      <3>1. (n + k) - e = n + 1 /\ 1 \in 1..k
        BY <1>2, <1>6, <2>1
      <3>2. j[n + 1] = m[1] /\ Same(m[1], recs[1])
        BY <1>1, <1>7, <3>1
      <3> QED
        BY <2>1, <3>1, <3>2 DEF Same
    <2>2. CASE c # 0
      <3>1. c > 0
        BY <2>2
      <3>2. c - 1 < n /\ stk[n - (c - 1)].was = b
        BY <1>4, <3>1
      <3>3. (n + k) - e = n - (c - 1) /\ n - (c - 1) \in 1..n
        BY <1>2, <1>6, <3>1, <3>2
      <3>4. j[n - (c - 1)] = stk[n - (c - 1)]
        BY <1>8, <3>3
      <3> QED
        BY <3>2, <3>3, <3>4
    <2> QED
      BY <2>1, <2>2
  <1>11. e < n + k
    <2>1. c > 0 => c - 1 < n
      BY <1>4
    <2> QED
      BY <1>2, <1>6, <2>1
  <1>12. ChainFrom(j, e, b)
    <2>1. Len(j) = n + k /\ e \in Nat /\ e < Len(j)
      BY <1>5, <1>11, <1>6
    <2>2. \A i \in 0..e : j[Len(j) - i].chain = e - i
      BY <1>5, <1>9, Zenon
    <2>3. j[Len(j) - e].was = b
      BY <1>5, <1>10, Zenon
    <2> QED
      BY <2>1, <2>2, <2>3 DEF ChainFrom
  <1> QED
    BY <1>12 DEF e, j, k, m

(* A call that records keeps the invariant.                                *)
LEMMA GrownRest ==
  ASSUME FitInv, RestInv, Editing, NEW recs \in Seq(Written), Len(recs) > 0,
         recs[1].was = text,
         undo' = undo \o Numbered(recs, undoChain), undoChain' = undoChain + Len(recs)
  PROVE  RestInv'
  <1>1. /\ cmd \in {"fresh", "edit"} /\ cmd' = "edit" /\ ustate' = "normal" /\ move' = FALSE
        /\ base' = IF cmd = "fresh" THEN text ELSE base
    BY DEF Editing, command, RestInv
  <1>2. undo \in Seq(Written) /\ undoChain \in Nat /\ Len(recs) \in Nat
    BY LenProperties DEF FitInv
  <1>3. undoChain = 0 => recs[1].was = base'
    BY <1>1 DEF RestInv
  <1>4. undoChain > 0 => ChainFrom(undo, undoChain - 1, base')
    BY <1>1 DEF RestInv
  <1>5. ChainFrom(undo', undoChain + Len(recs) - 1, base')
    BY <1>2, <1>3, <1>4, JoinChainFrom
  <1>6. undoChain' > 0 /\ undoChain' - 1 = undoChain + Len(recs) - 1
    BY <1>2
  <1>7. ChainFrom(undo', undoChain' - 1, base')
    BY <1>5, <1>6
  <1> QED
    BY <1>1, <1>6, <1>7 DEF RestInv

(* The editing steps are such calls.                                       *)
LEMMA RecordedRest ==
  ASSUME FitInv, RestInv, Editing, Recorded
  PROVE  RestInv'
  <1>1. PICK recs : Log(recs) /\ Leads(recs, text, dot, text', dot') /\ Len(recs) > 0
    BY DEF Recorded
  <1>2. recs \in Seq(Written) /\ recs[1].was = text
    BY <1>1 DEF Leads
  <1>3. undo' = undo \o Numbered(recs, undoChain) /\ undoChain' = undoChain + Len(recs)
    BY <1>1 DEF Log
  <1> QED
    BY <1>1, <1>2, <1>3, GrownRest

(* So is a save.                                                           *)
LEMMA SavedRest ==
  ASSUME FitInv, RestInv, NEW outcome \in Saves, Save(outcome)
  PROVE  RestInv'
  <1> DEFINE r == Record("START", dot, 0, <<>>, text)
             x == <<r>>
  <1>1. /\ undo' = undo \o Numbered(x, undoChain) /\ undoChain' = undoChain + 1 /\ Editing
    BY DEF Save
  <1>2. r \in Written /\ r.was = text
    BY EmptySeq DEF Record, Written, FitInv
  <1> HIDE DEF r
  <1>3. x \in Seq(Written) /\ Len(x) = 1 /\ x[1].was = text
    BY <1>2
  <1> HIDE DEF x
  <1>4. Len(x) > 0 /\ undoChain' = undoChain + Len(x)
    BY <1>1, <1>3
  <1> QED
    BY <1>1, <1>3, <1>4, GrownRest

(* A pass of do_undo takes the top of the chain; the one numbered 0 ends   *)
(* it and brings back the text the command found.                          *)
LEMMA PoppedRest ==
  ASSUME FitInv, RestInv, ustate # "normal", Source # <<>>,
         ustate = "undo" => undo' = Front(undo),
         text' = Last(Source).was, Continue(Last(Source)),
         cmd' = cmd, base' = base, move' = move, cmd # "fresh", cmd # "edit"
  PROVE  RestInv'
  <1>1. move = FALSE
    BY DEF RestInv
  <1>2. ustate' = (IF Last(Source).chain # 0 THEN ustate ELSE "normal")
    BY <1>1 DEF Continue
  <1>3. CASE ustate = "redo"
    BY <1>1, <1>2, <1>3 DEF RestInv
  <1>4. CASE ustate = "undo" /\ cmd # "undone"
    BY <1>1, <1>2, <1>4 DEF RestInv
  <1>5. CASE ustate = "undo" /\ cmd = "undone"
    <2> DEFINE n == Len(undo)
               c == Last(undo).chain
    <2>1. /\ Source = undo /\ undo # <<>> /\ undo' = Front(undo)
          /\ ChainFrom(undo, c, base)
      BY <1>5 DEF Source, RestInv
    <2>2. /\ Len(undo') = n - 1 /\ \A i \in 1..n - 1 : undo'[i] = undo[i]
      BY <2>1, FitsTop DEF FitInv
    <2>3. n \in Nat
      BY LenProperties DEF FitInv
    <2>4. Last(undo) = undo[n]
      BY DEF Last
    <2>5. /\ c \in Nat /\ c < n /\ \A j \in 0..c : undo[n - j].chain = c - j
          /\ undo[n - c].was = base
      BY <2>1 DEF ChainFrom
    <2> HIDE DEF n, c
    <2>6. CASE c = 0
      <3>1. n - c = n
        BY <2>3, <2>6
      <3>2. text' = base /\ ustate' = "normal"
        BY <1>2, <2>1, <2>4, <2>5, <2>6, <3>1 DEF c
      <3> QED
        BY <1>1, <1>5, <3>2 DEF RestInv
    <2>7. CASE c # 0
      <3>1. ustate' = "undo"
        BY <1>2, <1>5, <2>1, <2>7 DEF c
      <3>2. /\ Len(undo') - 0 = n - 1 /\ n - 1 \in 1..n - 1 /\ 1 \in 0..c
        BY <2>2, <2>3, <2>5, <2>7
      <3>3. undo'[Len(undo')].chain = c - 1
        BY <2>2, <2>5, <3>2
      <3>4. ASSUME NEW j \in 0..c - 1
            PROVE  undo'[Len(undo') - j].chain = c - 1 - j
        <4>1. j + 1 \in 0..c /\ n - (j + 1) \in 1..n - 1 /\ Len(undo') - j = n - (j + 1)
              /\ c - (j + 1) = c - 1 - j
          BY <2>2, <2>3, <2>5, <2>7
        <4> QED
          BY <2>2, <2>5, <4>1
      <3>5. undo'[Len(undo') - (c - 1)].was = base
        <4>1. Len(undo') - (c - 1) = n - c /\ n - c \in 1..n - 1
          BY <2>2, <2>3, <2>5, <2>7
        <4> QED
          BY <2>2, <2>5, <4>1
      <3>6. c - 1 \in Nat /\ c - 1 < Len(undo')
        BY <2>2, <2>3, <2>5, <2>7
      <3>7. ChainFrom(undo', c - 1, base)
        BY <3>4, <3>5, <3>6 DEF ChainFrom
      <3>8. undo' # <<>>
        <4>1. Len(undo') # 0
          BY <3>6
        <4> QED
          BY <4>1, EmptySeq
      <3>9. Last(undo').chain = c - 1
        BY <3>3 DEF Last
      <3> QED
        BY <1>1, <1>5, <3>1, <3>7, <3>8, <3>9 DEF RestInv
    <2> QED
      BY <2>6, <2>7
  <1> QED
    BY <1>3, <1>4, <1>5 DEF FitInv

(* A do_undo that stops short has no command to restore.                   *)
LEMMA StoppedRest ==
  ASSUME RestInv, Stop, move' = move
  PROVE  RestInv'
  BY DEF RestInv, Stop

(* It holds in the initial states.                                         *)
LEMMA RestInit == Init => RestInv
  BY DEF Init, RestInv

(* Every step keeps it.                                                    *)
LEMMA RestStep == WholeCommands /\ FitInv /\ TypesInv /\ RestInv /\ [Next]_vars => RestInv'
  <1> SUFFICES ASSUME WholeCommands, FitInv, TypesInv, RestInv, [Next]_vars
               PROVE  RestInv'
    OBVIOUS
  <1>1. CASE Key
    BY <1>1 DEF Key, RestInv, command
  <1>2. ASSUME NEW c \in Char, SelfInsert(c) \/ Overwrite(c)
        PROVE  RestInv'
    BY <1>2, OverwriteRecorded, RecordedRest DEF SelfInsert, Overwrite, WholeCommands
  <1>3. ASSUME NEW s \in Strings, Insert(s)
        PROVE  RestInv'
    BY <1>3, InsertRecorded, RecordedRest DEF Insert
  <1>4. ASSUME NEW n \in 1..2, Delete(n)
        PROVE  RestInv'
    BY <1>4, DeleteRecorded, RecordedRest DEF Delete, WholeCommands
  <1>5. ASSUME NEW d \in 0..Len(text), MoveTo(d)
        PROVE  RestInv'
    BY <1>5, MoveToRecorded, RecordedRest DEF MoveTo
  <1>6. ASSUME NEW d \in 0..Len(text), ChangeWindow(d)
        PROVE  RestInv'
    BY <1>6 DEF ChangeWindow, RestInv, log, command, ghost
  <1>7. CASE SaveFails
    BY <1>7 DEF SaveFails, RestInv, buffer, log, command, ghost
  <1>8. ASSUME NEW outcome \in Saves, Save(outcome)
        PROVE  RestInv'
    BY <1>8, SavedRest
  <1>9. CASE BeginUndo \/ BeginRedo
    <2>1. PICK r \in BOOLEAN, p \in Pasts, m \in Moves : Begin(r, p, m)
      BY <1>9 DEF BeginUndo, BeginRedo
    <2>2. m = FALSE
      BY DEF WholeCommands
    <2>3. /\ ustate' = (IF r THEN "redo" ELSE "undo") /\ move' = FALSE /\ undo' = undo
          /\ IF cmd = "edit" /\ ~r THEN cmd' = "undone" /\ base' = base
                                   ELSE cmd' = "other" /\ base' = None
      BY <2>1, <2>2 DEF Begin
    <2>4. CASE cmd = "edit" /\ ~r
      <3>1. undoChain \in Nat /\ undoChain > 0 /\ ChainFrom(undo, undoChain - 1, base)
        BY <2>4 DEF RestInv, FitInv
      <3>2. Len(undo) \in Nat /\ Len(undo) # 0
        BY <3>1, LenProperties DEF ChainFrom, FitInv
      <3>3. undo # <<>>
        BY <3>2, EmptySeq
      <3>4. Last(undo).chain = undoChain - 1
        <4>1. /\ 0 \in 0..undoChain - 1 /\ Len(undo) - 0 = Len(undo)
              /\ undoChain - 1 - 0 = undoChain - 1
          BY <3>1, <3>2
        <4>2. undo[Len(undo) - 0].chain = undoChain - 1 - 0
          BY <3>1, <4>1 DEF ChainFrom
        <4> QED
          BY <4>1, <4>2 DEF Last
      <3> QED
        BY <2>3, <2>4, <3>1, <3>3, <3>4 DEF RestInv
    <2>5. CASE ~(cmd = "edit" /\ ~r)
      BY <2>3, <2>5 DEF RestInv
    <2> QED
      BY <2>4, <2>5
  <1>10. CASE UndoEdit
    <2>1. /\ ustate # "normal" /\ Source # <<>> /\ text' = TakenBack(text, Last(Source))
          /\ Continue(Last(Source)) /\ cmd' = cmd /\ base' = base /\ move' = move
      BY <1>10 DEF UndoEdit, Undoing, ghost
    <2>2. ustate = "undo" => undo' = Front(undo)
      BY <1>10 DEF UndoEdit, Popped
    <2>3. text' = Last(Source).was
      BY <2>1, SourceTop DEF FitsAt
    <2>4. cmd # "fresh" /\ cmd # "edit"
      BY <2>1 DEF TypesInv
    <2> QED
      BY <2>1, <2>2, <2>3, <2>4, PoppedRest
  <1>11. CASE UndoGoto
    <2>1. /\ ustate # "normal" /\ Source # <<>> /\ text' = text /\ Last(Source).op \notin Edits
          /\ Continue(Last(Source)) /\ cmd' = cmd /\ base' = base /\ move' = move
      BY <1>11 DEF UndoGoto, Undoing, ghost, Edits
    <2>2. ustate = "undo" => undo' = Front(undo)
      BY <1>11 DEF UndoGoto, Popped
    <2>3. text' = Last(Source).was
      BY <2>1, SourceTop, PassedText DEF FitInv
    <2>4. cmd # "fresh" /\ cmd # "edit"
      BY <2>1 DEF TypesInv
    <2> QED
      BY <2>1, <2>2, <2>3, <2>4, PoppedRest
  <1>12. CASE UndoStart
    <2>1. /\ ustate # "normal" /\ Source # <<>> /\ text' = text /\ Last(Source).op \notin Edits
          /\ move' = move
      BY <1>12 DEF UndoStart, Undoing, buffer, Edits
    <2>2. CASE Stop
      BY <2>1, <2>2, StoppedRest
    <2>3. CASE Popped(<<>>) /\ Continue(Last(Source)) /\ UNCHANGED ghost
      <3>1. ustate = "undo" => undo' = Front(undo)
        BY <2>3 DEF Popped
      <3>2. text' = Last(Source).was
        BY <2>1, SourceTop, PassedText DEF FitInv
      <3>3. cmd # "fresh" /\ cmd # "edit" /\ cmd' = cmd /\ base' = base
        BY <2>1, <2>3 DEF TypesInv, ghost
      <3> QED
        BY <2>1, <2>3, <3>1, <3>2, <3>3, PoppedRest
    <2> QED
      BY <1>12, <2>2, <2>3 DEF UndoStart
  <1>13. CASE UndoNothing
    BY <1>13, StoppedRest DEF UndoNothing, Undoing
  <1>14. CASE UNCHANGED vars
    BY <1>14 DEF vars, RestInv, buffer, log, command, ghost
  <1> QED
    BY <1>1, <1>2, <1>3, <1>4, <1>5, <1>6, <1>7, <1>8, <1>9, <1>10, <1>11, <1>12, <1>13,
       <1>14 DEF Next

(* UndoRestores: an undo right after a command that changed the text,      *)
(* saves within the command included, brings back the text the command     *)
(* found (the numbers of uwrite_op, counted down by do_undo).              *)
THEOREM UndoBringsBack == WholeCommands => (Spec => []UndoRestores)
  <1>1. SUFFICES ASSUME WholeCommands
                 PROVE  Spec => []UndoRestores
    OBVIOUS
  <1>2. FitInv /\ TypesInv /\ [Next]_vars => FitInv' /\ TypesInv'
    BY <1>1, FitStep, TypesStep DEF WholeCommands
  <1>3. FitInv /\ TypesInv /\ RestInv /\ [Next]_vars => RestInv'
    BY <1>1, RestStep
  <1>4. RestInv => UndoRestores
    BY DEF RestInv, UndoRestores
  <1> QED
    BY <1>2, <1>3, <1>4, FitInit, TypesInit, RestInit, PTL DEF Spec
=============================================================================
