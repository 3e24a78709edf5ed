----------------------------- MODULE PassesProofs -----------------------------
(***************************************************************************)
(* Proofs about Passes: that locate_quote is right for every text and      *)
(* every quote, and that the review tells the run whatever the model       *)
(* answers.                                                                *)
(*                                                                         *)
(* Split and MatchEnds are recursive functions.  What they compute is      *)
(* shown a character, and a token, at a time: that the sets of lengths for *)
(* which it is so have no least exception.                                 *)
(***************************************************************************)
EXTENDS Passes, FiniteSetTheorems, SequenceTheorems, WellFoundedInduction, TLAPS

-----------------------------------------------------------------------------
(* Induction: the library's least-element theorem takes a set.               *)

\* A set of naturals has a least member: the library's theorem on well-founded relations,
\* which takes sets, stands in for its induction theorems, which take operators.
LEMMA Least ==
  ASSUME NEW T \in SUBSET Nat, T # {}
  PROVE  \E m \in T : \A k \in T : m <= k
<1> DEFINE R == OpToRel(<, Nat)
<1>1. IsWellFoundedOn(R, Nat)
  BY NatLessThanWellFounded
<1>2. \A x, y \in Nat : x < y => <<x, y>> \in R
  BY DEF OpToRel
<1> HIDE DEF R
<1>3. PICK m \in T : \A y \in T : ~(<<y, m>> \in R)
  BY <1>1, WFMin
<1>4. \A k \in T : m <= k
  <2> TAKE k \in T
  <2>1. ~(k < m)
    BY <1>2, <1>3
  <2> QED
    BY <2>1
<1> QED
  BY <1>4

\* Induction, over a set that is closed: its least exception cannot be.
LEMMA Induction ==
  ASSUME NEW T, 0 \in T, \A n \in Nat : n \in T => n + 1 \in T
  PROVE  Nat \subseteq T
<1> DEFINE U == Nat \ T
<1> SUFFICES ASSUME U # {} PROVE FALSE
  OBVIOUS
<1>1. U \in SUBSET Nat
  OBVIOUS
<1> HIDE DEF U
<1>2. PICK m \in U : \A k \in U : m <= k
  BY <1>1, Least
<1> USE DEF U
<1>3. m # 0 /\ m - 1 \in Nat /\ ~(m <= m - 1)
  OBVIOUS
<1>4. m - 1 \in T
  BY <1>2, <1>3
<1>5. m - 1 + 1 \in T
  BY <1>3, <1>4
<1> QED
  BY <1>5

-----------------------------------------------------------------------------
(* Sequences, cut and put together.                                          *)

\* The last of the sequences W goes on with c.
Longer(W, c) == [W EXCEPT ![Len(W)] = Append(@, c)]

\* The last of some sequences goes on.
LEMMA LastGrows ==
  ASSUME NEW A, NEW V \in Seq(Seq(A)), NEW t \in Seq(A), NEW c \in A
  PROVE  Longer(Append(V, t), c) = Append(V, Append(t, c))
<1> DEFINE W == Append(V, t)
           X == [W EXCEPT ![Len(W)] = Append(@, c)]
           Y == Append(V, Append(t, c))
<1>1. Append(t, c) \in Seq(A)
  OBVIOUS
<1>2. W \in Seq(Seq(A)) /\ Len(W) = Len(V) + 1 /\ W[Len(V) + 1] = t
      /\ (\A i \in 1..Len(V) : W[i] = V[i])
  BY AppendProperties
<1>3. Len(W) \in 1..Len(W) /\ Len(V) \in Nat
  BY <1>2
<1>4. /\ X \in Seq(Seq(A)) /\ Len(X) = Len(W)
      /\ \A j \in 1..Len(W) : X[j] = IF j = Len(W) THEN Append(t, c) ELSE W[j]
  <2>1. X = [W EXCEPT ![Len(W)] = Append(t, c)]
    BY <1>2, <1>3
  <2> HIDE DEF W, X
  <2> QED
    BY <1>1, <1>2, <1>3, <2>1, ExceptSeq
<1>5. Y \in Seq(Seq(A)) /\ Len(Y) = Len(V) + 1 /\ Y[Len(V) + 1] = Append(t, c)
      /\ (\A i \in 1..Len(V) : Y[i] = V[i])
  BY <1>1, AppendProperties
<1> HIDE DEF W, X, Y
<1>6. \A j \in 1..Len(X) : X[j] = Y[j]
  <2> TAKE j \in 1..Len(X)
  <2>1. CASE j = Len(V) + 1
    BY <2>1, <1>2, <1>4, <1>5
  <2>2. CASE j \in 1..Len(V)
    <3>1. X[j] = W[j]
      BY <2>2, <1>2, <1>3, <1>4
    <3> QED
      BY <2>2, <3>1, <1>2, <1>5
  <2> QED
    BY <2>1, <2>2, <1>2, <1>3, <1>4
<1>7. X = Y
  BY <1>2, <1>4, <1>5, <1>6, SeqEqual
<1> QED
  BY <1>7 DEF X, Y, W, Longer

\* text[i:j] has the characters from offset i on.
LEMMA CutWorks ==
  ASSUME NEW C, NEW text \in Seq(C), NEW i \in 0..Len(text), NEW j \in i..Len(text)
  PROVE  /\ Cut(text, <<i, j>>) \in Seq(C)
         /\ Len(Cut(text, <<i, j>>)) = j - i
         /\ \A h \in 1..j - i : Cut(text, <<i, j>>)[h] = text[i + h]
<1>1. Cut(text, <<i, j>>) = SubSeq(text, i + 1, j)
  BY DEF Cut
<1>2. i \in Nat /\ j \in Nat /\ i <= j /\ i + 1 \in Int /\ j \in Int
  OBVIOUS
<1>3. \A h \in i + 1 .. j : text[h] \in C
  OBVIOUS
<1>4. /\ SubSeq(text, i + 1, j) \in Seq(C)
      /\ Len(SubSeq(text, i + 1, j)) = IF i + 1 <= j THEN j - (i + 1) + 1 ELSE 0
      /\ \A h \in 1 .. j - (i + 1) + 1 : SubSeq(text, i + 1, j)[h] = text[i + 1 + h - 1]
  BY <1>2, <1>3, SubSeqProperties
<1>5. j - (i + 1) + 1 = j - i
  BY <1>2
<1>6. (IF i + 1 <= j THEN j - (i + 1) + 1 ELSE 0) = j - i
  BY <1>2
<1>7. \A h \in 1..j - i : text[i + 1 + h - 1] = text[i + h]
  BY <1>2
<1> QED
  BY <1>1, <1>4, <1>5, <1>6, <1>7

\* text[i:j + 1] has one more.
LEMMA CutGrows ==
  ASSUME NEW C, NEW text \in Seq(C), NEW i \in 0..Len(text), NEW j \in i..Len(text),
         j < Len(text)
  PROVE  Cut(text, <<i, j + 1>>) = Append(Cut(text, <<i, j>>), text[j + 1])
<1> DEFINE s == Cut(text, <<i, j>>)
           t == Cut(text, <<i, j + 1>>)
           u == Append(s, text[j + 1])
<1>1. j + 1 \in i..Len(text) /\ i \in Nat /\ j \in Nat /\ text[j + 1] \in C
  OBVIOUS
<1>2. s \in Seq(C) /\ Len(s) = j - i /\ \A h \in 1..j - i : s[h] = text[i + h]
  BY CutWorks
<1>3. t \in Seq(C) /\ Len(t) = j + 1 - i /\ \A h \in 1..j + 1 - i : t[h] = text[i + h]
  BY <1>1, CutWorks
<1> HIDE DEF s, t
<1>4. /\ u \in Seq(C) /\ Len(u) = j - i + 1 /\ u[j - i + 1] = text[j + 1]
      /\ \A h \in 1..j - i : u[h] = s[h]
  BY <1>1, <1>2, AppendProperties
<1> HIDE DEF u
<1>5. \A h \in 1..Len(t) : t[h] = u[h]
  <2> TAKE h \in 1..Len(t)
  <2>1. CASE h \in 1..j - i
    BY <2>1, <1>1, <1>2, <1>3, <1>4
  <2>2. CASE h = j - i + 1
    <3>1. i + h = j + 1
      BY <2>2, <1>1
    <3> QED
      BY <2>2, <3>1, <1>1, <1>3, <1>4
  <2> QED
    BY <2>1, <2>2, <1>1, <1>3
<1>6. t = u
  BY <1>1, <1>3, <1>4, <1>5, SeqEqual
<1> QED
  BY <1>6 DEF t, u, s

\* text[i:i] has none.
LEMMA CutNothing ==
  ASSUME NEW C, NEW text \in Seq(C), NEW i \in 0..Len(text)
  PROVE  Cut(text, <<i, i>>) = <<>>
<1>1. i \in i..Len(text) /\ i - i = 0
  OBVIOUS
<1>2. Cut(text, <<i, i>>) \in Seq(C) /\ Len(Cut(text, <<i, i>>)) = 0
  BY <1>1, CutWorks
<1> QED
  BY <1>2, EmptySeq

\* s[0:len(s)] is s.
LEMMA CutAll ==
  ASSUME NEW C, NEW s \in Seq(C)
  PROVE  Cut(s, <<0, Len(s)>>) = s
<1>1. Cut(s, <<0, Len(s)>>) = SubSeq(s, 1, Len(s))
  BY DEF Cut
<1> QED
  BY <1>1, SubSeqFull

-----------------------------------------------------------------------------
(* str.split, a character at a time.                                         *)

\* The function Split is made from, over the first n characters.
IsScan(f, s, n) == f = [i \in 0..n |-> IF i = 0 THEN <<>> ELSE Tokens(f[i - 1], s, i)]

\* What such a function gives, character by character.
LEMMA ScanSteps ==
  ASSUME NEW f, NEW s, NEW n \in Nat, IsScan(f, s, n)
  PROVE  f[0] = <<>> /\ \A i \in 1..n : f[i] = Tokens(f[i - 1], s, i)
<1>1. \A i \in 0..n : f[i] = IF i = 0 THEN <<>> ELSE Tokens(f[i - 1], s, i)
  BY DEF IsScan
<1> QED
  BY <1>1

\* There is one for every length.
LEMMA ScanExists ==
  ASSUME NEW s, NEW n \in Nat
  PROVE  \E f : IsScan(f, s, n)
<1> DEFINE T == {m \in Nat : \E f : IsScan(f, s, m)}
<1>1. 0 \in T
  <2> DEFINE f == [i \in 0..0 |-> <<>>]
  <2>1. f = [i \in 0..0 |-> IF i = 0 THEN <<>> ELSE Tokens(f[i - 1], s, i)]
    OBVIOUS
  <2> QED
    BY <2>1 DEF IsScan
<1>2. ASSUME NEW m \in Nat, m \in T PROVE m + 1 \in T
  <2>1. PICK f : f = [i \in 0..m |-> IF i = 0 THEN <<>> ELSE Tokens(f[i - 1], s, i)]
    BY <1>2 DEF IsScan
  <2> DEFINE g == [i \in 0..m + 1 |-> IF i = m + 1 THEN Tokens(f[m], s, m + 1) ELSE f[i]]
             h == [i \in 0..m + 1 |-> IF i = 0 THEN <<>> ELSE Tokens(g[i - 1], s, i)]
  <2>2. ASSUME NEW i \in 0..m + 1 PROVE g[i] = h[i]
    <3>1. CASE i = 0
      BY <3>1, <2>1
    <3>2. CASE i = m + 1
      <4>1. g[i] = Tokens(f[m], s, i) /\ g[i - 1] = f[m]
        BY <3>2
      <4> QED
        BY <3>2, <4>1
    <3>3. CASE i \in 1..m
      <4>1. g[i] = f[i] /\ i - 1 \in 0..m /\ g[i - 1] = f[i - 1]
        BY <3>3
      <4>2. f[i] = Tokens(f[i - 1], s, i)
        BY <3>3, <2>1
      <4>3. h[i] = Tokens(g[i - 1], s, i)
        BY <3>3
      <4> QED
        BY <4>1, <4>2, <4>3
    <3> QED
      BY <3>1, <3>2, <3>3
  <2>3. g = h
    BY <2>2
  <2>4. IsScan(g, s, m + 1)
    BY <2>3 DEF IsScan
  <2> HIDE DEF g
  <2> QED
    BY <2>4
<1> HIDE DEF T
<1>3. n \in T
  BY <1>1, <1>2, Induction
<1> QED
  BY <1>3 DEF T

\* Split is made from one.
LEMMA SplitScans ==
  ASSUME NEW C, NEW s \in Seq(C)
  PROVE  \E f : IsScan(f, s, Len(s)) /\ Split(s) = f[Len(s)]
<1> DEFINE f == CHOOSE g : g = [i \in 0..Len(s) |->
                                  IF i = 0 THEN <<>> ELSE Tokens(g[i - 1], s, i)]
<1>1. Len(s) \in Nat
  OBVIOUS
<1>2. IsScan(f, s, Len(s))
  BY <1>1, ScanExists DEF IsScan
<1>3. Split(s) = f[Len(s)]
  BY DEF Split
<1> QED
  BY <1>2, <1>3

\* One more character changes nothing of what is before it.
LEMMA ScanAgrees ==
  ASSUME NEW C, NEW s \in Seq(C), NEW c \in C, NEW f, NEW g,
         IsScan(f, s, Len(s)), IsScan(g, Append(s, c), Len(s) + 1)
  PROVE  \A i \in 0..Len(s) : f[i] = g[i]
<1> DEFINE t == Append(s, c)
           T == {i \in Nat : i <= Len(s) => f[i] = g[i]}
<1>1. Len(s) \in Nat /\ (\A i \in 1..Len(s) : t[i] = s[i])
  BY AppendProperties
<1>2. f[0] = g[0] /\ \A i \in 1..Len(s) : f[i] = Tokens(f[i - 1], s, i)
                                           /\ g[i] = Tokens(g[i - 1], t, i)
  <2>1. f[0] = <<>> /\ \A i \in 1..Len(s) : f[i] = Tokens(f[i - 1], s, i)
    BY <1>1, ScanSteps
  <2>2. g[0] = <<>> /\ \A i \in 1..Len(s) + 1 : g[i] = Tokens(g[i - 1], t, i)
    BY <1>1, ScanSteps
  <2> QED
    BY <1>1, <2>1, <2>2
<1>3. 0 \in T
  BY <1>2
<1>4. ASSUME NEW i \in Nat, i \in T PROVE i + 1 \in T
  <2> SUFFICES ASSUME i + 1 <= Len(s) PROVE f[i + 1] = g[i + 1]
    OBVIOUS
  <2>1. i + 1 \in 1..Len(s) /\ i + 1 - 1 = i /\ f[i] = g[i]
    BY <1>1, <1>4
  <2>2. t[i + 1] = s[i + 1] /\ (i + 1 # 1 => t[i] = s[i])
    BY <1>1, <2>1
  <2> HIDE DEF t
  <2>3. Tokens(f[i], s, i + 1) = Tokens(f[i], t, i + 1)
    BY <2>1, <2>2 DEF Tokens
  <2> QED
    BY <1>2, <2>1, <2>3
<1> HIDE DEF T
<1>5. Nat \subseteq T
  BY <1>3, <1>4, Induction
<1> QED
  BY <1>1, <1>5 DEF T

\* There are no tokens in nothing.
LEMMA SplitNothing == Split(<<>>) = <<>>
<1>1. <<>> \in Seq({}) /\ Len(<<>>) = 0
  BY EmptySeq
<1>2. PICK f : IsScan(f, <<>>, 0) /\ Split(<<>>) = f[0]
  BY <1>1, SplitScans
<1> QED
  BY <1>2 DEF IsScan

\* The tokens with one more character are those without it, and Tokens of it.
LEMMA SplitAppend ==
  ASSUME NEW C, NEW s \in Seq(C), NEW c \in C
  PROVE  Split(Append(s, c)) = Tokens(Split(s), Append(s, c), Len(s) + 1)
<1> DEFINE t == Append(s, c)
<1>1. t \in Seq(C) /\ Len(t) = Len(s) + 1 /\ Len(s) \in Nat
  BY AppendProperties
<1>2. PICK f : IsScan(f, s, Len(s)) /\ Split(s) = f[Len(s)]
  BY SplitScans
<1> HIDE DEF t
<1>3. PICK g : IsScan(g, t, Len(t)) /\ Split(t) = g[Len(t)]
  BY <1>1, SplitScans
<1>4. g[Len(s) + 1] = Tokens(g[Len(s)], t, Len(s) + 1)
  <2>1. Len(s) + 1 \in 0..Len(s) + 1 /\ Len(s) + 1 # 0 /\ Len(s) + 1 - 1 = Len(s)
    BY <1>1
  <2> QED
    BY <1>1, <1>3, <2>1 DEF IsScan
<1>5. f[Len(s)] = g[Len(s)]
  <2>1. IsScan(g, Append(s, c), Len(s) + 1)
    BY <1>1, <1>3 DEF t
  <2>2. \A i \in 0..Len(s) : f[i] = g[i]
    BY <1>2, <2>1, ScanAgrees
  <2> QED
    BY <1>1, <2>2
<1>6. Split(t) = Tokens(Split(s), t, Len(s) + 1)
  BY <1>1, <1>2, <1>3, <1>4, <1>5
<1> QED
  BY <1>6 DEF t

-----------------------------------------------------------------------------
(* What is read between two offsets of a text.                               *)

Words(C) == Seq(C \ Blanks) \ {<<>>}
Read(text, i, j) == Split(Cut(text, <<i, j>>))
AllBlank(text, i, j) == \A h \in i + 1 .. j : text[h] \in Blanks

\* Nothing is read of nothing.
LEMMA ReadNothing ==
  ASSUME NEW C, NEW text \in Seq(C), NEW i \in 0..Len(text)
  PROVE  Read(text, i, i) = <<>>
BY CutNothing, SplitNothing DEF Read

\* White space ends a word, any other character begins one or goes on with the last.
LEMMA ReadGrows ==
  ASSUME NEW C, NEW text \in Seq(C), NEW i \in 0..Len(text), NEW j \in i..Len(text),
         j < Len(text)
  PROVE  LET c == text[j + 1]
         IN  /\ c \in Blanks => Read(text, i, j + 1) = Read(text, i, j)
             /\ c \notin Blanks /\ (j = i \/ text[j] \in Blanks) =>
                  Read(text, i, j + 1) = Append(Read(text, i, j), <<c>>)
             /\ c \notin Blanks /\ j # i /\ text[j] \notin Blanks =>
                  Read(text, i, j + 1) =
                    Longer(Read(text, i, j), c)
<1> DEFINE s == Cut(text, <<i, j>>)
           c == text[j + 1]
           t == Append(s, c)
<1>1. c \in C /\ i \in Nat /\ j \in Nat /\ i <= j
  OBVIOUS
<1>2. s \in Seq(C) /\ Len(s) = j - i /\ \A h \in 1..j - i : s[h] = text[i + h]
  BY CutWorks
<1>3. Cut(text, <<i, j + 1>>) = t
  BY CutGrows
<1> HIDE DEF s, c
<1>4. /\ t[Len(s) + 1] = c /\ \A h \in 1..Len(s) : t[h] = s[h]
  <2>1. s \in Seq(C) /\ c \in C
    BY <1>1, <1>2
  <2> QED
    BY <2>1, AppendProperties
<1>5. Split(t) = Tokens(Split(s), t, Len(s) + 1)
  BY <1>1, <1>2, SplitAppend
<1> HIDE DEF t
<1>6. /\ Len(s) + 1 = 1 <=> j = i
      /\ j # i => t[Len(s) + 1 - 1] = text[j]
  <2>1. ASSUME j # i PROVE t[Len(s) + 1 - 1] = text[j]
    <3>1. j - i \in 1..Len(s) /\ Len(s) + 1 - 1 = j - i /\ i + (j - i) = j
      BY <1>1, <1>2, <2>1
    <3>2. t[j - i] = s[j - i] /\ s[j - i] = text[i + (j - i)]
      BY <1>2, <1>4, <3>1
    <3> QED
      BY <3>1, <3>2
  <2> QED
    BY <1>1, <1>2, <2>1
<1>7. Read(text, i, j + 1) = Split(t) /\ Read(text, i, j) = Split(s)
  BY <1>3 DEF Read, s
<1>8. c \in Blanks => Split(t) = Split(s)
  BY <1>4, <1>5 DEF Tokens
<1>9. c \notin Blanks /\ (j = i \/ text[j] \in Blanks) => Split(t) = Append(Split(s), <<c>>)
  BY <1>4, <1>5, <1>6 DEF Tokens
<1>10. c \notin Blanks /\ j # i /\ text[j] \notin Blanks =>
         Split(t) = Longer(Split(s), c)
  BY <1>4, <1>5, <1>6 DEF Tokens, Longer
<1> QED
  BY <1>7, <1>8, <1>9, <1>10 DEF c

\* The last of the words W goes on with c.
GoesOn(C, W, c) ==
  \E V \in Seq(Words(C)), t \in Words(C) :
     /\ W = Append(V, t) /\ Append(t, c) \in Words(C)
     /\ Longer(W, c) = Append(V, Append(t, c))

\* A word with one more character of its own is a word.
LEMMA WordGrows ==
  ASSUME NEW C, NEW W \in Seq(Words(C)), W # <<>>, NEW c \in C, c \notin Blanks
  PROVE  GoesOn(C, W, c)
<1>1. PICK V \in Seq(Words(C)), t \in Words(C) : W = Append(V, t)
  BY SequenceEmptyOrAppend
<1>2. t \in Seq(C \ Blanks) /\ V \in Seq(Seq(C \ Blanks))
  <2>1. Words(C) \subseteq Seq(C \ Blanks)
    BY DEF Words
  <2> QED
    BY <2>1, SeqMonotonic
<1>3. Append(t, c) \in Words(C)
  <2> DEFINE A == C \ Blanks
  <2>0. t \in Seq(A) /\ c \in A
    BY <1>2
  <2> HIDE DEF A
  <2>1. Append(t, c) \in Seq(A) /\ Append(t, c) # <<>>
    BY <2>0, AppendProperties
  <2> USE DEF A
  <2> QED
    BY <2>1 DEF Words
<1>4. Longer(W, c) = Append(V, Append(t, c))
  <2>1. Longer(Append(V, t), c) = Append(V, Append(t, c))
    BY <1>2, LastGrows
  <2> QED
    BY <1>1, <2>1
<1> QED
  BY <1>1, <1>3, <1>4 DEF GoesOn

\* What is read are words, and none only if there is only white space.
LEMMA ReadTyped ==
  ASSUME NEW C, NEW text \in Seq(C), NEW i \in 0..Len(text), NEW j \in i..Len(text)
  PROVE  /\ Read(text, i, j) \in Seq(Words(C))
         /\ Read(text, i, j) = <<>> <=> AllBlank(text, i, j)
<1> DEFINE Good(k) == /\ Read(text, i, k) \in Seq(Words(C))
                      /\ Read(text, i, k) = <<>> <=> AllBlank(text, i, k)
           T == {n \in Nat : i + n <= Len(text) => Good(i + n)}
<1>1. 0 \in T
  <2>1. Read(text, i, i) = <<>> /\ <<>> \in Seq(Words(C)) /\ i + 0 = i /\ i + 1 .. i = {}
    BY ReadNothing, EmptySeq
  <2> QED
    BY <2>1 DEF AllBlank
<1>2. ASSUME NEW n \in Nat, n \in T PROVE n + 1 \in T
  <2> SUFFICES ASSUME i + (n + 1) <= Len(text) PROVE Good(i + (n + 1))
    OBVIOUS
  <2> DEFINE k == i + n
             c == text[k + 1]
             W == Read(text, i, k)
             X == Read(text, i, k + 1)
  <2>1. k \in i..Len(text) /\ k < Len(text) /\ i + (n + 1) = k + 1 /\ c \in C /\ i \in Nat
    OBVIOUS
  <2>2. W \in Seq(Words(C)) /\ (W = <<>> <=> AllBlank(text, i, k))
    BY <1>2, <2>1
  <2>3. /\ c \in Blanks => X = W
        /\ c \notin Blanks /\ (k = i \/ text[k] \in Blanks) => X = Append(W, <<c>>)
        /\ c \notin Blanks /\ k # i /\ text[k] \notin Blanks =>
             X = Longer(W, c)
    <3> HIDE DEF k
    <3> QED  BY <2>1, ReadGrows
  <2>4. i + 1 .. k + 1 = (i + 1 .. k) \cup {k + 1}
    BY <2>1
  <2>5. AllBlank(text, i, k + 1) <=> AllBlank(text, i, k) /\ c \in Blanks
    BY <2>4 DEF AllBlank
  <2> HIDE DEF W, X, k, c
  <2>6. CASE c \in Blanks
    BY <2>1, <2>2, <2>3, <2>5, <2>6 DEF X
  <2>7. CASE c \notin Blanks /\ (k = i \/ text[k] \in Blanks)
    <3>1. <<c>> \in Words(C)
      BY <2>1, <2>7 DEF Words
    <3>2. Append(W, <<c>>) \in Seq(Words(C)) /\ Append(W, <<c>>) # <<>>
      BY <2>2, <3>1, AppendProperties
    <3>3. X \in Seq(Words(C)) /\ X # <<>>
      BY <2>3, <2>7, <3>2
    <3> QED
      BY <2>1, <2>5, <2>7, <3>3 DEF X
  <2>8. CASE c \notin Blanks /\ k # i /\ text[k] \notin Blanks
    <3>1. W # <<>>
      <4>1. k \in i + 1 .. k
        BY <2>1, <2>8
      <4> QED
        BY <2>2, <2>8, <4>1 DEF AllBlank
    <3>2. PICK V \in Seq(Words(C)), t \in Words(C) :
            /\ W = Append(V, t) /\ Append(t, c) \in Words(C)
            /\ Longer(W, c) = Append(V, Append(t, c))
      <4>1. W \in Seq(Words(C)) /\ W # <<>> /\ c \in C /\ c \notin Blanks
        BY <2>1, <2>2, <2>8, <3>1
      <4>2. GoesOn(C, W, c)
        BY <4>1, WordGrows
      <4> QED
        BY <4>2 DEF GoesOn
    <3>3. X = Append(V, Append(t, c))
      BY <2>3, <2>8, <3>2
    <3>4. X \in Seq(Words(C)) /\ X # <<>>
      BY <3>2, <3>3, AppendProperties
    <3> QED
      BY <2>1, <2>5, <2>8, <3>4 DEF X
  <2> QED
    BY <2>6, <2>7, <2>8
<1> HIDE DEF T
<1>3. j - i \in T
  <2>1. j - i \in Nat
    OBVIOUS
  <2> QED
    BY <1>1, <1>2, <2>1, Induction
<1>4. i + (j - i) = j /\ j <= Len(text)
  OBVIOUS
<1>5. Good(j)
  BY <1>3, <1>4 DEF T
<1> QED
  BY <1>5

\* White space at the end adds nothing.
LEMMA ReadBlanks ==
  ASSUME NEW C, NEW text \in Seq(C), NEW i \in 0..Len(text), NEW j \in i..Len(text),
         NEW m \in j..Len(text), AllBlank(text, j, m)
  PROVE  Read(text, i, m) = Read(text, i, j)
<1> DEFINE T == {n \in Nat : j + n <= m => Read(text, i, j + n) = Read(text, i, j)}
<1>1. 0 \in T
  <2>1. j + 0 = j
    OBVIOUS
  <2> QED
    BY <2>1
<1>2. ASSUME NEW n \in Nat, n \in T PROVE n + 1 \in T
  <2> SUFFICES ASSUME j + (n + 1) <= m PROVE Read(text, i, j + (n + 1)) = Read(text, i, j)
    OBVIOUS
  <2> DEFINE k == j + n
  <2>1. k \in i..Len(text) /\ k < Len(text) /\ j + (n + 1) = k + 1 /\ k + 1 \in j + 1 .. m
        /\ j + n <= m
    OBVIOUS
  <2>2. Read(text, i, k) = Read(text, i, j)
    BY <1>2, <2>1
  <2> HIDE DEF k
  <2>3. text[k + 1] \in Blanks
    BY <2>1 DEF AllBlank
  <2>4. Read(text, i, k + 1) = Read(text, i, k)
    BY <2>1, <2>3, ReadGrows
  <2> QED
    BY <2>1, <2>2, <2>4
<1> HIDE DEF T
<1>3. m - j \in T
  <2>1. m - j \in Nat
    OBVIOUS
  <2> QED
    BY <1>1, <1>2, <2>1, Induction
<1>4. j + (m - j) = m /\ m <= m
  OBVIOUS
<1> QED
  BY <1>3, <1>4 DEF T

\* White space at the beginning adds nothing.
LEMMA ReadSkips ==
  ASSUME NEW C, NEW text \in Seq(C), NEW i \in 0..Len(text), NEW j \in i..Len(text),
         NEW m \in j..Len(text), AllBlank(text, i, j)
  PROVE  Read(text, i, m) = Read(text, j, m)
<1> DEFINE T == {n \in Nat : j + n <= m => Read(text, i, j + n) = Read(text, j, j + n)}
<1>1. 0 \in T
  <2>1. j + 0 = j /\ j \in 0..Len(text)
    OBVIOUS
  <2>2. Read(text, i, j) = <<>>
    BY ReadTyped
  <2>3. Read(text, j, j) = <<>>
    BY <2>1, ReadNothing
  <2> QED
    BY <2>1, <2>2, <2>3
<1>2. ASSUME NEW n \in Nat, n \in T PROVE n + 1 \in T
  <2> SUFFICES ASSUME j + (n + 1) <= m
               PROVE  Read(text, i, j + (n + 1)) = Read(text, j, j + (n + 1))
    OBVIOUS
  <2> DEFINE k == j + n
             c == text[k + 1]
  <2>1. /\ k \in i..Len(text) /\ k \in j..Len(text) /\ k < Len(text) /\ j + (n + 1) = k + 1
        /\ j + n <= m /\ j \in 0..Len(text)
    OBVIOUS
  <2>2. Read(text, i, k) = Read(text, j, k)
    BY <1>2, <2>1
  <2>3. k = i \/ text[k] \in Blanks <=> k = j \/ text[k] \in Blanks
    <3>1. k = i => j = i
      OBVIOUS
    <3>2. k = j /\ k # i => k \in i + 1 .. j
      OBVIOUS
    <3> HIDE DEF k
    <3> QED
      BY <3>1, <3>2 DEF AllBlank
  <2> HIDE DEF k
  <2>4. /\ c \in Blanks => Read(text, i, k + 1) = Read(text, i, k)
        /\ c \notin Blanks /\ (k = i \/ text[k] \in Blanks) =>
             Read(text, i, k + 1) = Append(Read(text, i, k), <<c>>)
        /\ c \notin Blanks /\ k # i /\ text[k] \notin Blanks =>
             Read(text, i, k + 1) =
               Longer(Read(text, i, k), c)
    BY <2>1, ReadGrows
  <2>5. /\ c \in Blanks => Read(text, j, k + 1) = Read(text, j, k)
        /\ c \notin Blanks /\ (k = j \/ text[k] \in Blanks) =>
             Read(text, j, k + 1) = Append(Read(text, j, k), <<c>>)
        /\ c \notin Blanks /\ k # j /\ text[k] \notin Blanks =>
             Read(text, j, k + 1) =
               Longer(Read(text, j, k), c)
    BY <2>1, ReadGrows
  <2>6. Read(text, i, k + 1) = Read(text, j, k + 1)
    <3> HIDE DEF c
    <3> QED
      BY <2>2, <2>3, <2>4, <2>5
  <2> QED
    BY <2>1, <2>6
<1> HIDE DEF T
<1>3. m - j \in T
  <2>1. m - j \in Nat
    OBVIOUS
  <2> QED
    BY <1>1, <1>2, <2>1, Induction
<1>4. j + (m - j) = m /\ m <= m
  OBVIOUS
<1> QED
  BY <1>3, <1>4 DEF T

\* A word is read as one.
LEMMA ReadWord ==
  ASSUME NEW C, NEW text \in Seq(C), NEW i \in 0..Len(text), NEW p \in i..Len(text),
         p = i \/ text[p] \in Blanks,
         NEW e \in p..Len(text), e # p, \A h \in p + 1 .. e : text[h] \notin Blanks
  PROVE  Read(text, i, e) = Append(Read(text, i, p), Cut(text, <<p, e>>))
<1> DEFINE V == Read(text, i, p)
           T == {n \in Nat : p + 1 + n <= e =>
                   Read(text, i, p + 1 + n) = Append(V, Cut(text, <<p, p + 1 + n>>))}
<1>0. p \in 0..Len(text) /\ p \in p..Len(text) /\ p < Len(text) /\ p \in Nat
      /\ text[p + 1] \in C \ Blanks
  OBVIOUS
<1>1. 0 \in T
  <2>1. p + 1 + 0 = p + 1
    OBVIOUS
  <2>2. Read(text, i, p + 1) = Append(V, <<text[p + 1]>>)
    BY <1>0, ReadGrows
  <2>3. Cut(text, <<p, p + 1>>) = <<text[p + 1]>>
    <3>1. Cut(text, <<p, p>>) = <<>>
      BY <1>0, CutNothing
    <3>2. Cut(text, <<p, p + 1>>) = Append(Cut(text, <<p, p>>), text[p + 1])
      BY <1>0, CutGrows
    <3> QED
      BY <3>1, <3>2
  <2> QED
    BY <2>1, <2>2, <2>3
<1>2. ASSUME NEW n \in Nat, n \in T PROVE n + 1 \in T
  <2> SUFFICES ASSUME p + 1 + (n + 1) <= e
               PROVE  Read(text, i, p + 1 + (n + 1)) =
                        Append(V, Cut(text, <<p, p + 1 + (n + 1)>>))
    OBVIOUS
  <2> DEFINE k == p + 1 + n
             c == text[k + 1]
             t == Cut(text, <<p, k>>)
  <2>1. /\ k \in i..Len(text) /\ k \in p..Len(text) /\ k < Len(text)
        /\ p + 1 + (n + 1) = k + 1 /\ p + 1 + n <= e /\ k # i
        /\ k \in p + 1 .. e /\ k + 1 \in p + 1 .. e /\ c \in C
    OBVIOUS
  <2>2. Read(text, i, k) = Append(V, t)
    BY <1>2, <2>1
  <2> HIDE DEF k
  <2>3. c \notin Blanks /\ text[k] \notin Blanks
    BY <2>1
  <2>4. Read(text, i, k + 1) =
          Longer(Read(text, i, k), c)
    BY <2>1, <2>3, ReadGrows
  <2>5. V \in Seq(Seq(C)) /\ t \in Seq(C)
    <3>1. t \in Seq(C)
      BY <1>0, <2>1, CutWorks
    <3>2. Words(C) \subseteq Seq(C)
      <4>1. Seq(C \ Blanks) \subseteq Seq(C)
        BY SeqMonotonic
      <4> QED
        BY <4>1 DEF Words
    <3>3. V \in Seq(Words(C))
      BY ReadTyped
    <3> QED
      BY <3>1, <3>2, <3>3, SeqMonotonic
  <2>6. Cut(text, <<p, k + 1>>) = Append(t, c)
    BY <1>0, <2>1, CutGrows
  <2>7. Read(text, i, k + 1) = Append(V, Append(t, c))
    <3> HIDE DEF V, t, c
    <3>1. Longer(Append(V, t), c) = Append(V, Append(t, c))
      BY <2>1, <2>5, LastGrows
    <3> QED
      BY <2>2, <2>4, <3>1
  <2> QED
    BY <2>1, <2>6, <2>7
<1> HIDE DEF T
<1>3. e - p - 1 \in T
  <2>1. e - p - 1 \in Nat
    OBVIOUS
  <2> QED
    BY <1>1, <1>2, <2>1, Induction
<1>4. p + 1 + (e - p - 1) = e /\ e <= e
  OBVIOUS
<1> QED
  BY <1>3, <1>4 DEF T

-----------------------------------------------------------------------------
(* The regular expression, a token at a time.                                *)

\* How far white space may go before token k.
Joins(text, k, d, p) ==
  IF k = 1 THEN p = d ELSE p > d /\ \A h \in d + 1..p : text[h] \in Blanks

\* Where the match may end with token t, if it may end in before with the k - 1 before it.
EndsNext(text, start, before, k, t) ==
  {e \in start..Len(text) :
     \E d \in before : LET p == e - Len(t)
                       IN  p >= d /\ Joins(text, k, d, p) /\ Cut(text, <<p, e>>) = t}

IsMatch(f, text, start, tokens, n) ==
  f = [k \in 0..n |-> IF k = 0 THEN {start}
                      ELSE EndsNext(text, start, f[k - 1], k, tokens[k])]

\* What a match function gives, token by token.
LEMMA MatchSteps ==
  ASSUME NEW f, NEW text, NEW start, NEW tokens, NEW n \in Nat, IsMatch(f, text, start, tokens, n)
  PROVE  /\ f[0] = {start}
         /\ \A k \in 1..n : f[k] = EndsNext(text, start, f[k - 1], k, tokens[k])
<1>1. \A k \in 0..n : f[k] = IF k = 0 THEN {start}
                             ELSE EndsNext(text, start, f[k - 1], k, tokens[k])
  BY DEF IsMatch
<1> QED
  BY <1>1

\* There is one for any tokens.
LEMMA MatchExists ==
  ASSUME NEW text, NEW start, NEW tokens, NEW n \in Nat
  PROVE  \E f : IsMatch(f, text, start, tokens, n)
<1> DEFINE After(before, k) == EndsNext(text, start, before, k, tokens[k])
           T == {m \in Nat : \E f : IsMatch(f, text, start, tokens, m)}
<1>1. 0 \in T
  <2> DEFINE f == [k \in 0..0 |-> {start}]
  <2> HIDE DEF After
  <2>1. f = [k \in 0..0 |-> IF k = 0 THEN {start} ELSE After(f[k - 1], k)]
    OBVIOUS
  <2>2. IsMatch(f, text, start, tokens, 0)
    BY <2>1 DEF IsMatch, After
  <2> HIDE DEF f
  <2> QED
    BY <2>2
<1>2. ASSUME NEW m \in Nat, m \in T PROVE m + 1 \in T
  <2>0. PICK f : IsMatch(f, text, start, tokens, m)
    BY <1>2
  <2>1. f[0] = {start} /\ \A k \in 1..m : f[k] = After(f[k - 1], k)
    BY <2>0, MatchSteps
  <2> DEFINE g == [k \in 0..m + 1 |-> IF k = m + 1 THEN After(f[m], m + 1) ELSE f[k]]
             h == [k \in 0..m + 1 |-> IF k = 0 THEN {start} ELSE After(g[k - 1], k)]
  <2> HIDE DEF After
  <2>2. ASSUME NEW k \in 0..m + 1 PROVE g[k] = h[k]
    <3>1. CASE k = 0
      BY <3>1, <2>1
    <3>2. CASE k = m + 1
      <4>1. g[k] = After(f[m], k) /\ g[k - 1] = f[m]
        BY <3>2
      <4> QED
        BY <3>2, <4>1
    <3>3. CASE k \in 1..m
      <4>1. g[k] = f[k] /\ k - 1 \in 0..m /\ g[k - 1] = f[k - 1]
        BY <3>3
      <4>2. f[k] = After(f[k - 1], k)
        BY <3>3, <2>1
      <4>3. h[k] = After(g[k - 1], k)
        BY <3>3
      <4> QED
        BY <4>1, <4>2, <4>3
    <3> QED
      BY <3>1, <3>2, <3>3
  <2>3. g = h
    BY <2>2
  <2>4. IsMatch(g, text, start, tokens, m + 1)
    BY <2>3 DEF IsMatch, After
  <2> HIDE DEF g
  <2> QED
    BY <2>4
<1> HIDE DEF T
<1>3. n \in T
  BY <1>1, <1>2, Induction
<1> QED
  BY <1>3 DEF T

\* MatchEnds is made from one.
LEMMA MatchEndsSteps ==
  ASSUME NEW text, NEW start, NEW tokens, Len(tokens) \in Nat
  PROVE  \E f : /\ IsMatch(f, text, start, tokens, Len(tokens))
                /\ MatchEnds(text, start, tokens) = f[Len(tokens)]
<1> DEFINE f == CHOOSE g : IsMatch(g, text, start, tokens, Len(tokens))
<1>1. IsMatch(f, text, start, tokens, Len(tokens))
  BY MatchExists
<1>2. MatchEnds(text, start, tokens) = f[Len(tokens)]
  BY DEF MatchEnds, IsMatch, EndsNext, Joins
<1> QED
  BY <1>1, <1>2

\* No tokens match where they start.
LEMMA MatchNothing ==
  ASSUME NEW text, NEW start
  PROVE  MatchEnds(text, start, <<>>) = {start}
<1>1. Len(<<>>) = 0 /\ Len(<<>>) \in Nat
  BY EmptySeq
<1>2. PICK f : IsMatch(f, text, start, <<>>, 0) /\ MatchEnds(text, start, <<>>) = f[0]
  BY <1>1, MatchEndsSteps
<1> QED
  BY <1>2, MatchSteps

\* One more token goes on from the matches of those before it.
LEMMA MatchAppend ==
  ASSUME NEW text, NEW start, NEW W, NEW V \in Seq(W), NEW t \in W
  PROVE  MatchEnds(text, start, Append(V, t)) =
           EndsNext(text, start, MatchEnds(text, start, V), Len(V) + 1, t)
<1> DEFINE X == Append(V, t)
           n == Len(V)
<1>1. /\ n \in Nat /\ Len(X) = n + 1 /\ Len(X) \in Nat
      /\ X[n + 1] = t /\ \A k \in 1..n : X[k] = V[k]
  BY AppendProperties
<1> HIDE DEF X
<1>2. PICK f : IsMatch(f, text, start, V, n) /\ MatchEnds(text, start, V) = f[n]
  BY <1>1, MatchEndsSteps
<1>3. PICK g : IsMatch(g, text, start, X, n + 1) /\ MatchEnds(text, start, X) = g[n + 1]
  BY <1>1, MatchEndsSteps
<1> HIDE DEF n
<1>4. /\ f[0] = {start}
      /\ \A k \in 1..n : f[k] = EndsNext(text, start, f[k - 1], k, V[k])
  BY <1>1, <1>2, MatchSteps
<1>5. /\ g[0] = {start}
      /\ \A k \in 1..n + 1 : g[k] = EndsNext(text, start, g[k - 1], k, X[k])
  BY <1>1, <1>3, MatchSteps
<1> DEFINE T == {k \in Nat : k <= n => f[k] = g[k]}
<1>6. 0 \in T
  BY <1>4, <1>5
<1>7. ASSUME NEW k \in Nat, k \in T PROVE k + 1 \in T
  <2> SUFFICES ASSUME k + 1 <= n PROVE f[k + 1] = g[k + 1]
    OBVIOUS
  <2>1. k + 1 \in 1..n /\ k + 1 \in 1..n + 1 /\ k + 1 - 1 = k /\ f[k] = g[k]
    BY <1>1, <1>7
  <2>2. X[k + 1] = V[k + 1]
    BY <1>1, <2>1
  <2>3. f[k + 1] = EndsNext(text, start, f[k], k + 1, V[k + 1])
    BY <1>4, <2>1
  <2>4. g[k + 1] = EndsNext(text, start, g[k], k + 1, X[k + 1])
    BY <1>5, <2>1
  <2> QED
    BY <2>1, <2>2, <2>3, <2>4
<1> HIDE DEF T
<1>8. n \in T
  BY <1>1, <1>6, <1>7, Induction
<1>9. f[n] = g[n]
  BY <1>1, <1>8 DEF T
<1>10. g[n + 1] = EndsNext(text, start, g[n], n + 1, t)
  <2>1. n + 1 \in 1..n + 1 /\ n + 1 - 1 = n
    BY <1>1
  <2> QED
    BY <1>1, <1>5, <2>1
<1> QED
  BY <1>2, <1>3, <1>9, <1>10 DEF X, n

\* A match ends within the text.
LEMMA MatchWithin ==
  ASSUME NEW C, NEW text \in Seq(C), NEW i \in 0..Len(text), NEW W, NEW V \in Seq(W)
  PROVE  MatchEnds(text, i, V) \subseteq i..Len(text)
<1>1. CASE V = <<>>
  BY <1>1, MatchNothing
<1>2. CASE V # <<>>
  <2>1. PICK U \in Seq(W), t \in W : V = Append(U, t)
    BY <1>2, SequenceEmptyOrAppend
  <2>2. MatchEnds(text, i, V) = EndsNext(text, i, MatchEnds(text, i, U), Len(U) + 1, t)
    BY <2>1, MatchAppend
  <2> QED
    BY <2>2 DEF EndsNext
<1> QED
  BY <1>1, <1>2

\* Token t, from p to e, can follow the tokens V that end in d.
Follows(text, V, t, d, p, e) ==
  /\ p >= d /\ Cut(text, <<p, e>>) = t
  /\ IF V = <<>> THEN p = d ELSE p > d /\ AllBlank(text, d, p)

\* A match goes on with a token.
LEMMA MatchGoesOn ==
  ASSUME NEW C, NEW text \in Seq(C), NEW i \in 0..Len(text), NEW W, NEW V \in Seq(W), NEW t \in W,
         NEW e \in i..Len(text)
  PROVE  e \in MatchEnds(text, i, Append(V, t)) <=>
           \E d \in MatchEnds(text, i, V) : Follows(text, V, t, d, e - Len(t), e)
<1>1. MatchEnds(text, i, Append(V, t)) =
        EndsNext(text, i, MatchEnds(text, i, V), Len(V) + 1, t)
  BY MatchAppend
<1>2. Len(V) + 1 = 1 <=> V = <<>>
  BY EmptySeq
<1>3. ASSUME NEW d, NEW p
      PROVE  Joins(text, Len(V) + 1, d, p) <=>
               IF V = <<>> THEN p = d ELSE p > d /\ AllBlank(text, d, p)
  BY <1>2 DEF Joins, AllBlank
<1>4. ASSUME NEW d
      PROVE  (LET p == e - Len(t)
              IN  p >= d /\ Joins(text, Len(V) + 1, d, p) /\ Cut(text, <<p, e>>) = t)
             <=> Follows(text, V, t, d, e - Len(t), e)
  BY <1>3 DEF Follows
<1> QED
  BY <1>1, <1>4 DEF EndsNext

\* A token that can follow ends a match.
LEMMA MatchReaches ==
  ASSUME NEW C, NEW text \in Seq(C), NEW i \in 0..Len(text), NEW W, NEW V \in Seq(W), NEW t \in W,
         NEW e \in i..Len(text), NEW d \in MatchEnds(text, i, V),
         NEW p, p = e - Len(t), Follows(text, V, t, d, p, e)
  PROVE  e \in MatchEnds(text, i, Append(V, t))
BY MatchGoesOn

\* Whatever is read from a character on, its match ends where it does, white space aside.
LEMMA ReadIsMatched ==
  ASSUME NEW C, NEW text \in Seq(C), NEW i \in 0..Len(text), i < Len(text),
         text[i + 1] \notin Blanks, NEW j \in i..Len(text)
  PROVE  \E d \in i..j :
           /\ d \in MatchEnds(text, i, Read(text, i, j)) /\ AllBlank(text, d, j)
           /\ IF d = i THEN j = i ELSE text[d] \notin Blanks
<1> DEFINE Good(k) == \E d \in i..k :
                        /\ d \in MatchEnds(text, i, Read(text, i, k)) /\ AllBlank(text, d, k)
                        /\ IF d = i THEN k = i ELSE text[d] \notin Blanks
           T == {n \in Nat : i + n <= Len(text) => Good(i + n)}
<1>1. 0 \in T
  <2>1. i + 0 = i /\ i \in i..i /\ i + 1 .. i = {}
    OBVIOUS
  <2>2. i \in MatchEnds(text, i, Read(text, i, i)) /\ AllBlank(text, i, i)
    BY <2>1, ReadNothing, MatchNothing DEF AllBlank
  <2>3. Good(i)
    BY <2>1, <2>2
  <2> HIDE DEF Good
  <2> QED
    BY <2>1, <2>3
<1>2. ASSUME NEW n \in Nat, n \in T PROVE n + 1 \in T
  <2> SUFFICES ASSUME i + (n + 1) <= Len(text) PROVE Good(i + (n + 1))
    OBVIOUS
  <2> DEFINE k == i + n
             c == text[k + 1]
             W == Read(text, i, k)
             X == Read(text, i, k + 1)
  <2>1. k \in i..Len(text) /\ k < Len(text) /\ i + (n + 1) = k + 1 /\ c \in C /\ i \in Nat
        /\ k + 1 \in i..Len(text) /\ k \in 0..Len(text) /\ k + 1 \in i..k + 1 /\ k + 1 # i
    OBVIOUS
  <2>2. PICK d \in i..k :
          /\ d \in MatchEnds(text, i, W) /\ AllBlank(text, d, k)
          /\ IF d = i THEN k = i ELSE text[d] \notin Blanks
    BY <1>2, <2>1
  <2>3. d \in Nat /\ d <= k /\ d \in i..k + 1 /\ (d # k => k \in d + 1 .. k)
    BY <2>1
  <2> HIDE DEF k
  <2>4. /\ c \in Blanks => X = W
        /\ c \notin Blanks /\ (k = i \/ text[k] \in Blanks) => X = Append(W, <<c>>)
        /\ c \notin Blanks /\ k # i /\ text[k] \notin Blanks =>
             X = Longer(W, c)
    BY <2>1, ReadGrows
  <2>5. W \in Seq(Words(C)) /\ (W = <<>> <=> AllBlank(text, i, k))
    BY <2>1, ReadTyped
  <2>6. k # i => W # <<>>
    <3>1. k # i => i + 1 \in i + 1 .. k
      BY <2>1
    <3> QED
      BY <2>5, <3>1 DEF AllBlank
  <2>7. W = <<>> => k = i /\ d = k
    BY <2>1, <2>2, <2>3, <2>6
  <2>8. AllBlank(text, k + 1, k + 1)
    BY <2>1 DEF AllBlank
  <2> HIDE DEF c, W, X
  <2>9. CASE c \in Blanks
    <3>1. AllBlank(text, d, k + 1)
      <4>1. d + 1 .. k + 1 \subseteq (d + 1 .. k) \cup {k + 1}
        BY <2>1, <2>3
      <4> QED
        BY <2>2, <2>9, <4>1 DEF AllBlank, c
    <3>2. d # i
      \* the first character is none of white space
      BY <2>1, <2>2, <2>9 DEF c
    <3>3. Good(k + 1)
      BY <2>2, <2>3, <2>4, <2>9, <3>1, <3>2 DEF X
    <3> QED
      BY <2>1, <3>3
  <2>10. CASE c \notin Blanks /\ (k = i \/ text[k] \in Blanks)
    <3>1. <<c>> \in Words(C) /\ Len(<<c>>) = 1 /\ k = k + 1 - Len(<<c>>) /\ k \in Int
      BY <2>1, <2>10 DEF Words
    <3>2. Cut(text, <<k, k + 1>>) = <<c>>
      <4>1. Cut(text, <<k, k>>) = <<>>
        BY <2>1, CutNothing
      <4>2. k \in k..Len(text)
        BY <2>1
      <4>3. Cut(text, <<k, k + 1>>) = Append(Cut(text, <<k, k>>), text[k + 1])
        BY <2>1, <4>2, CutGrows
      <4> QED
        BY <4>1, <4>3 DEF c
    <3>3. IF W = <<>> THEN k = d ELSE k > d /\ AllBlank(text, d, k)
      <4>1. CASE W = <<>>
        BY <2>7, <4>1
      <4>2. CASE W # <<>>
        <5>1. k # i
          BY <2>5, <4>2, <2>1 DEF AllBlank
        <5>2. d # k
          BY <2>2, <2>10, <5>1
        <5>3. k > d
          BY <2>1, <2>3, <5>2
        <5> QED
          BY <2>2, <4>2, <5>3
      <4> QED
        BY <4>1, <4>2
    <3>4. k + 1 \in MatchEnds(text, i, Append(W, <<c>>))
      <4>1. k >= d
        BY <2>1, <2>3
      <4>2. Follows(text, W, <<c>>, d, k, k + 1)
        BY <3>2, <3>3, <4>1 DEF Follows
      <4> DEFINE e == k + 1
                 w == <<c>>
      <4>3. /\ e \in i..Len(text) /\ w \in Words(C) /\ d \in MatchEnds(text, i, W)
            /\ k = e - Len(w) /\ Follows(text, W, w, d, k, e) /\ W \in Seq(Words(C))
        BY <2>1, <2>2, <2>5, <3>1, <4>2
      <4> HIDE DEF e, w
      <4>4. e \in MatchEnds(text, i, Append(W, w))
        BY <4>3, MatchReaches
      <4> QED
        BY <4>4 DEF e, w
    <3>5. k + 1 \in MatchEnds(text, i, X) /\ text[k + 1] \notin Blanks
      BY <2>4, <2>10, <3>4 DEF c
    <3>6. Good(k + 1)
      BY <2>1, <2>8, <3>5 DEF X
    <3> QED
      BY <2>1, <3>6
  <2>11. CASE c \notin Blanks /\ k # i /\ text[k] \notin Blanks
    <3>1. d = k
      BY <2>2, <2>3, <2>11 DEF AllBlank
    <3>2. W \in Seq(Words(C)) /\ W # <<>> /\ c \in C /\ c \notin Blanks
      BY <2>1, <2>5, <2>6, <2>11
    <3>3. PICK V \in Seq(Words(C)), t \in Words(C) :
            /\ W = Append(V, t) /\ Append(t, c) \in Words(C)
            /\ Longer(W, c) = Append(V, Append(t, c))
      <4>1. GoesOn(C, W, c)
        BY <3>2, WordGrows
      <4> QED
        BY <4>1 DEF GoesOn
    <3>4. k \in MatchEnds(text, i, Append(V, t))
      BY <2>2, <3>1, <3>3
    <3>5. PICK b \in MatchEnds(text, i, V) : Follows(text, V, t, b, k - Len(t), k)
      BY <2>1, <3>4, MatchGoesOn
    <3> DEFINE p == k - Len(t)
    <3>6. /\ p >= b /\ Cut(text, <<p, k>>) = t
          /\ IF V = <<>> THEN p = b ELSE p > b /\ AllBlank(text, b, p)
      BY <3>5 DEF Follows
    <3>7. t \in Seq(C) /\ Len(t) \in Nat /\ Len(Append(t, c)) = Len(t) + 1
      <4>1. t \in Seq(C \ Blanks) /\ Seq(C \ Blanks) \subseteq Seq(C)
        BY SeqMonotonic DEF Words
      <4>2. t \in Seq(C)
        BY <4>1
      <4> QED
        BY <2>1, <4>2, AppendProperties
    <3>8. b \in i..Len(text)
      BY MatchWithin
    <3>9. p \in 0..Len(text) /\ k \in p..Len(text) /\ p = k + 1 - Len(Append(t, c))
      BY <2>1, <3>6, <3>7, <3>8
    <3>10. Cut(text, <<p, k + 1>>) = Append(t, c)
      <4>1. Cut(text, <<p, k + 1>>) = Append(Cut(text, <<p, k>>), text[k + 1])
        BY <2>1, <3>9, CutGrows
      <4> QED
        BY <3>6, <4>1 DEF c
    <3>11. k + 1 \in MatchEnds(text, i, Append(V, Append(t, c)))
      <4> HIDE DEF p
      <4>1. Follows(text, V, Append(t, c), b, p, k + 1)
        BY <3>6, <3>10 DEF Follows
      <4> DEFINE e == k + 1
                 w == Append(t, c)
      <4>2. /\ e \in i..Len(text) /\ w \in Words(C) /\ b \in MatchEnds(text, i, V)
            /\ p = e - Len(w) /\ Follows(text, V, w, b, p, e) /\ V \in Seq(Words(C))
        BY <2>1, <3>3, <3>9, <4>1
      <4> HIDE DEF e, w
      <4>3. e \in MatchEnds(text, i, Append(V, w))
        BY <4>2, MatchReaches
      <4> QED
        BY <4>3 DEF e, w
    <3>12. k + 1 \in MatchEnds(text, i, X) /\ text[k + 1] \notin Blanks
      BY <2>4, <2>11, <3>3, <3>11 DEF c
    <3>13. Good(k + 1)
      BY <2>1, <2>8, <3>12 DEF X
    <3> QED
      BY <2>1, <3>13
  <2> QED
    BY <2>9, <2>10, <2>11
<1> HIDE DEF T
<1>3. j - i \in T
  <2>1. j - i \in Nat
    OBVIOUS
  <2> QED
    BY <1>1, <1>2, <2>1, Induction
<1>4. i + (j - i) = j /\ j <= Len(text)
  OBVIOUS
<1>5. Good(j)
  <2> HIDE DEF Good
  <2> QED
    BY <1>3, <1>4 DEF T
<1> QED
  BY <1>5

\* Where a match of the words X ends, X is what has been read.
Reads(text, i, X) ==
  \A e \in MatchEnds(text, i, X) :
    /\ Read(text, i, e) = X
    /\ X # <<>> => e > i /\ text[i + 1] \notin Blanks /\ text[e] \notin Blanks

\* What a match ends with follows the match of the tokens before it.
LEMMA MatchComesFrom ==
  ASSUME NEW C, NEW text \in Seq(C), NEW i \in 0..Len(text), NEW W, NEW V \in Seq(W), NEW t \in W,
         NEW e \in MatchEnds(text, i, Append(V, t))
  PROVE  /\ e \in i..Len(text)
         /\ \E d \in MatchEnds(text, i, V) : Follows(text, V, t, d, e - Len(t), e)
<1>1. MatchEnds(text, i, Append(V, t)) =
        EndsNext(text, i, MatchEnds(text, i, V), Len(V) + 1, t)
  BY MatchAppend
<1>2. e \in i..Len(text)
  BY <1>1 DEF EndsNext
<1> QED
  BY <1>2, MatchGoesOn

\* If what matches V is read as V, it is so with one more token.
LEMMA ReadsOneMore ==
  ASSUME NEW C, NEW text \in Seq(C), NEW i \in 0..Len(text), NEW V \in Seq(Words(C)),
         NEW t \in Words(C), Reads(text, i, V)
  PROVE  Reads(text, i, Append(V, t))
<1> SUFFICES ASSUME NEW e \in MatchEnds(text, i, Append(V, t))
             PROVE  /\ Read(text, i, e) = Append(V, t)
                    /\ e > i /\ text[i + 1] \notin Blanks /\ text[e] \notin Blanks
  BY DEF Reads
<1> DEFINE p == e - Len(t)
<1>1. e \in i..Len(text)
  BY MatchComesFrom
<1>2. PICK d \in MatchEnds(text, i, V) : Follows(text, V, t, d, p, e)
  BY MatchComesFrom
<1>3. d \in i..Len(text)
  BY MatchWithin
<1>4. Len(t) \in Nat /\ Len(t) > 0 /\ \A h \in 1..Len(t) : t[h] \notin Blanks
  BY EmptySeq DEF Words
<1>5. /\ p >= d /\ Cut(text, <<p, e>>) = t
      /\ IF V = <<>> THEN p = d ELSE p > d /\ AllBlank(text, d, p)
  BY <1>2 DEF Follows
<1>6. /\ p \in i..Len(text) /\ p \in d..Len(text) /\ p \in 0..Len(text) /\ e \in p..Len(text)
      /\ e - p = Len(t) /\ p < e /\ i \in Nat /\ e > i
  BY <1>1, <1>3, <1>4, <1>5
<1> HIDE DEF p
<1>7. \A h \in p + 1 .. e : text[h] \notin Blanks
  <2> TAKE h \in p + 1 .. e
  <2>1. h - p \in 1..e - p /\ p + (h - p) = h
    BY <1>6
  <2>2. \A g \in 1..e - p : Cut(text, <<p, e>>)[g] = text[p + g]
    BY <1>6, CutWorks
  <2>3. Cut(text, <<p, e>>)[h - p] = text[h]
    BY <2>1, <2>2
  <2> QED
    BY <1>4, <1>5, <1>6, <2>1, <2>3
<1>8. AllBlank(text, d, p)
  <2>1. p = d => d + 1 .. p = {}
    BY <1>6
  <2> QED
    BY <1>5, <2>1 DEF AllBlank
<1>9. p = i \/ text[p] \in Blanks
  <2>1. CASE V = <<>>
    BY <2>1, <1>5, MatchNothing
  <2>2. CASE V # <<>>
    <3>1. p \in d + 1 .. p
      BY <1>5, <1>6, <1>3, <2>2
    <3> QED
      BY <1>8, <3>1 DEF AllBlank
  <2> QED
    BY <2>1, <2>2
<1>10. Read(text, i, p) = V
  <2>1. Read(text, i, p) = Read(text, i, d)
    BY <1>3, <1>6, <1>8, ReadBlanks
  <2> QED
    BY <2>1 DEF Reads
<1>11. Read(text, i, e) = Append(V, t)
  <2>1. Read(text, i, e) = Append(Read(text, i, p), Cut(text, <<p, e>>))
    BY <1>6, <1>7, <1>9, ReadWord
  <2> QED
    BY <1>5, <1>10, <2>1
<1>12. text[e] \notin Blanks
  BY <1>6, <1>7
<1>13. text[i + 1] \notin Blanks
  <2>1. CASE V = <<>>
    <3>1. p = i
      BY <2>1, <1>5, MatchNothing
    <3> QED
      BY <3>1, <1>6, <1>7
  <2>2. CASE V # <<>>
    BY <2>2 DEF Reads
  <2> QED
    BY <2>1, <2>2
<1> QED
  BY <1>6, <1>11, <1>12, <1>13

\* What matches some words is read as these words, and begins and ends with a
\* character of its own.
LEMMA MatchReads ==
  ASSUME NEW C, NEW text \in Seq(C), NEW i \in 0..Len(text), NEW X \in Seq(Words(C))
  PROVE  Reads(text, i, X)
<1> DEFINE T == {n \in Nat : \A V \in Seq(Words(C)) : Len(V) = n => Reads(text, i, V)}
<1>1. 0 \in T
  <2>1. Reads(text, i, <<>>)
    BY MatchNothing, ReadNothing DEF Reads
  <2>2. \A V \in Seq(Words(C)) : Len(V) = 0 => V = <<>>
    BY EmptySeq
  <2> QED
    BY <2>1, <2>2
<1>2. ASSUME NEW n \in Nat, n \in T PROVE n + 1 \in T
  <2> SUFFICES ASSUME NEW Y \in Seq(Words(C)), Len(Y) = n + 1 PROVE Reads(text, i, Y)
    OBVIOUS
  <2>1. Y # <<>>
    BY EmptySeq
  <2>2. PICK V \in Seq(Words(C)), t \in Words(C) : Y = Append(V, t)
    BY <2>1, SequenceEmptyOrAppend
  <2>3. Len(V) = n
    BY <2>2, AppendProperties
  <2>4. Reads(text, i, V)
    BY <1>2, <2>3
  <2> QED
    BY <2>2, <2>4, ReadsOneMore
<1> HIDE DEF T
<1>3. Len(X) \in Nat /\ Nat \subseteq T
  BY <1>1, <1>2, Induction
<1> QED
  BY <1>3 DEF T

-----------------------------------------------------------------------------
(* str.strip.                                                                *)

\* From offset a to offset b there is all of s but the white space around it.
IsCore(s, a, b) ==
  /\ a \in 0..Len(s) /\ b \in a..Len(s) /\ a < b
  /\ s[a + 1] \notin Blanks /\ s[b] \notin Blanks
  /\ AllBlank(s, 0, a) /\ AllBlank(s, b, Len(s))

\* Nothing is left of white space.
LEMMA StripBlank ==
  ASSUME NEW C, NEW s \in Seq(C), AllBlank(s, 0, Len(s))
  PROVE  Strip(s) = <<>>
<1>1. DOMAIN s = 0 + 1 .. Len(s)
  OBVIOUS
<1> QED
  BY <1>1 DEF Strip, AllBlank

\* Anything else has a first and a last character that are none.
LEMMA HasCore ==
  ASSUME NEW C, NEW s \in Seq(C), ~AllBlank(s, 0, Len(s))
  PROVE  \E a, b \in 0..Len(s) : IsCore(s, a, b)
<1> DEFINE L == Len(s)
           A == {n \in Nat : n < L /\ s[n + 1] \notin Blanks}
           B == {n \in Nat : n < L /\ s[L - n] \notin Blanks}
<1>1. PICK h \in 1..L : s[h] \notin Blanks
  BY DEF AllBlank
<1>2. L \in Nat /\ h - 1 \in A /\ L - h \in B
  <2>1. L \in Nat /\ h - 1 \in Nat /\ h - 1 < L /\ h - 1 + 1 = h
        /\ L - h \in Nat /\ L - h < L /\ L - (L - h) = h
    OBVIOUS
  <2> QED
    BY <1>1, <2>1
<1>3. A \in SUBSET Nat /\ A # {} /\ B \in SUBSET Nat /\ B # {}
  BY <1>2
<1> HIDE DEF A, B
<1>4. PICK a \in A : \A n \in A : a <= n
  BY <1>3, Least
<1>5. PICK m \in B : \A n \in B : m <= n
  BY <1>3, Least
<1> DEFINE b == L - m
<1>6. /\ a \in Nat /\ a < L /\ s[a + 1] \notin Blanks
      /\ m \in Nat /\ m < L /\ s[b] \notin Blanks
  BY DEF A, B
<1>7. ASSUME NEW n \in Nat, n < a PROVE s[n + 1] \in Blanks
  <2>1. n \notin A /\ n < L
    BY <1>2, <1>4, <1>6, <1>7
  <2> QED
    BY <2>1 DEF A
<1>8. ASSUME NEW n \in Nat, n < m PROVE s[L - n] \in Blanks
  <2>1. n \notin B /\ n < L
    BY <1>2, <1>5, <1>6, <1>8
  <2> QED
    BY <2>1 DEF B
<1>9. AllBlank(s, 0, a)
  <2> SUFFICES ASSUME NEW g \in 0 + 1 .. a PROVE s[g] \in Blanks
    BY DEF AllBlank
  <2>1. g - 1 \in Nat /\ g - 1 < a /\ g - 1 + 1 = g
    BY <1>6
  <2> QED
    BY <1>7, <2>1
<1>10. AllBlank(s, b, L)
  <2> SUFFICES ASSUME NEW g \in b + 1 .. L PROVE s[g] \in Blanks
    BY DEF AllBlank
  <2>1. L - g \in Nat /\ L - g < m /\ L - (L - g) = g
    BY <1>2, <1>6
  <2> QED
    BY <1>8, <2>1
<1>11. a < b
  <2> SUFFICES ASSUME b <= a PROVE FALSE
    BY <1>2, <1>6
  <2>1. b \in 0 + 1 .. a
    BY <1>2, <1>6
  <2> QED
    BY <1>6, <1>9, <2>1 DEF AllBlank
<1>12. a \in 0..L /\ b \in 0..L /\ b \in a..L
  BY <1>2, <1>6, <1>11
<1>13. IsCore(s, a, b)
  BY <1>6, <1>9, <1>10, <1>11, <1>12 DEF IsCore
<1> QED
  BY <1>12, <1>13

\* What is left is what there is between them.
LEMMA StripIs ==
  ASSUME NEW C, NEW s \in Seq(C), NEW a, NEW b, IsCore(s, a, b)
  PROVE  Strip(s) = Cut(s, <<a, b>>) /\ Strip(s) # <<>>
<1> DEFINE solid == {i \in DOMAIN s : s[i] \notin Blanks}
<1>1. /\ a \in 0..Len(s) /\ b \in a..Len(s) /\ a < b
      /\ s[a + 1] \notin Blanks /\ s[b] \notin Blanks
      /\ AllBlank(s, 0, a) /\ AllBlank(s, b, Len(s))
  BY DEF IsCore
<1>2. solid \subseteq Int /\ a + 1 \in solid /\ b \in solid
  BY <1>1
<1>3. \A i \in solid : a + 1 <= i /\ i <= b
  <2> TAKE i \in solid
  <2>1. i \in 1..Len(s) /\ s[i] \notin Blanks
    OBVIOUS
  <2>2. ~(i \in 0 + 1 .. a) /\ ~(i \in b + 1 .. Len(s))
    BY <1>1, <2>1 DEF AllBlank
  <2> QED
    BY <1>1, <2>1, <2>2
<1> HIDE DEF solid
<1>4. Min(solid) = a + 1
  <2>1. \A m \in solid : (\A i \in solid : m <= i) => m = a + 1
    BY <1>1, <1>2, <1>3
  <2> QED
    BY <1>2, <1>3, <2>1 DEF Min
<1>5. Max(solid) = b
  <2>1. \A m \in solid : (\A i \in solid : m >= i) => m = b
    BY <1>1, <1>2, <1>3
  <2>2. \A i \in solid : b >= i
    BY <1>1, <1>2, <1>3
  <2> QED
    BY <1>2, <2>1, <2>2 DEF Max
<1>6. Strip(s) = SubSeq(s, a + 1, b)
  BY <1>2, <1>4, <1>5 DEF Strip, solid
<1>7. Strip(s) = Cut(s, <<a, b>>)
  BY <1>6 DEF Cut
<1>8. Len(Cut(s, <<a, b>>)) = b - a /\ b - a > 0
  BY <1>1, CutWorks
<1> QED
  BY <1>7, <1>8, EmptySeq

\* The words of a text are those of the text stripped.
LEMMA SplitOfStrip ==
  ASSUME NEW C, NEW s \in Seq(C)
  PROVE  /\ Split(Strip(s)) = Split(s)
         /\ Strip(s) = <<>> <=> Split(s) = <<>>
         /\ Split(s) \in Seq(Words(C))
<1>1. Len(s) \in 0..Len(s) /\ 0 \in 0..Len(s) /\ Len(s) \in Nat
  OBVIOUS
<1>2. Read(s, 0, Len(s)) = Split(s)
  BY CutAll DEF Read
<1>3. Split(s) \in Seq(Words(C)) /\ (Split(s) = <<>> <=> AllBlank(s, 0, Len(s)))
  BY <1>1, <1>2, ReadTyped
<1>4. CASE AllBlank(s, 0, Len(s))
  BY <1>3, <1>4, StripBlank, SplitNothing
<1>5. CASE ~AllBlank(s, 0, Len(s))
  <2>1. PICK a, b \in 0..Len(s) : IsCore(s, a, b)
    BY <1>5, HasCore
  <2>2. Strip(s) = Cut(s, <<a, b>>) /\ Strip(s) # <<>>
    BY <2>1, StripIs
  <2>3. /\ a \in 0..Len(s) /\ b \in a..Len(s) /\ b \in 0..Len(s) /\ Len(s) \in b..Len(s)
        /\ AllBlank(s, 0, a) /\ AllBlank(s, b, Len(s))
    BY <2>1 DEF IsCore
  <2>4. Read(s, 0, b) = Read(s, a, b)
    BY <1>1, <2>3, ReadSkips
  <2>5. Read(s, 0, Len(s)) = Read(s, 0, b)
    BY <1>1, <2>3, ReadBlanks
  <2>6. Split(Strip(s)) = Read(s, a, b)
    BY <2>2 DEF Read
  <2> QED
    BY <1>2, <1>3, <1>5, <2>2, <2>4, <2>5, <2>6
<1> QED
  BY <1>4, <1>5

\* What begins and ends with a character of its own is stripped.
LEMMA StripDone ==
  ASSUME NEW C, NEW text \in Seq(C), NEW i \in 0..Len(text), NEW e \in i..Len(text)
  PROVE  LET s == Cut(text, <<i, e>>)
         IN  s # <<>> /\ Strip(s) = s <=>
               i < e /\ text[i + 1] \notin Blanks /\ text[e] \notin Blanks
<1> DEFINE s == Cut(text, <<i, e>>)
<1>1. i \in Nat /\ e \in Nat /\ i <= e /\ Len(text) \in Nat
  OBVIOUS
<1>2. s \in Seq(C) /\ Len(s) = e - i /\ \A h \in 1..e - i : s[h] = text[i + h]
  BY CutWorks
<1> HIDE DEF s
<1>3. s = <<>> <=> i = e
  BY <1>1, <1>2, EmptySeq
<1>4. i < e => s[1] = text[i + 1] /\ s[Len(s)] = text[e]
  <2> SUFFICES ASSUME i < e PROVE s[1] = text[i + 1] /\ s[Len(s)] = text[e]
    OBVIOUS
  <2>1. 1 \in 1..e - i /\ e - i \in 1..e - i /\ i + (e - i) = e
    BY <1>1
  <2> QED
    BY <1>2, <2>1
<1>5. ASSUME i < e, text[i + 1] \notin Blanks, text[e] \notin Blanks
      PROVE  s # <<>> /\ Strip(s) = s
  <2>1. 0 + 1 .. 0 = {} /\ Len(s) + 1 .. Len(s) = {} /\ 0 + 1 = 1
        /\ 0 \in 0..Len(s) /\ Len(s) \in 0..Len(s) /\ 0 < Len(s)
    BY <1>1, <1>2, <1>5
  <2>2. IsCore(s, 0, Len(s))
    BY <1>4, <1>5, <2>1 DEF IsCore, AllBlank
  <2>3. Strip(s) = Cut(s, <<0, Len(s)>>)
    BY <1>2, <2>2, StripIs
  <2> QED
    BY <1>1, <1>2, <1>3, <1>5, <2>3, CutAll
<1>6. ASSUME s # <<>>, Strip(s) = s
      PROVE  i < e /\ text[i + 1] \notin Blanks /\ text[e] \notin Blanks
  <2>1. ~AllBlank(s, 0, Len(s))
    BY <1>2, <1>6, StripBlank
  <2>2. PICK a, b \in 0..Len(s) : IsCore(s, a, b)
    BY <1>2, <2>1, HasCore
  <2>3. s = Cut(s, <<a, b>>)
    BY <1>2, <1>6, <2>2, StripIs
  <2>4. b \in a..Len(s) /\ s[a + 1] \notin Blanks /\ s[b] \notin Blanks
    BY <2>2 DEF IsCore
  <2>5. Len(Cut(s, <<a, b>>)) = b - a
    BY <1>2, <2>4, CutWorks
  <2>6. a = 0 /\ b = Len(s) /\ a + 1 = 1
    BY <1>1, <1>2, <2>3, <2>4, <2>5
  <2> QED
    BY <1>1, <1>3, <1>4, <1>6, <2>4, <2>6
<1> QED
  BY <1>5, <1>6 DEF s

-----------------------------------------------------------------------------
(* The spans, those locate_quote finds and those it should.                  *)

\* From offset i to offset e the text reads like the quote.
ReadsLike(text, quote, i, e) ==
  /\ i \in 0..Len(text) /\ e \in i..Len(text) /\ i < e
  /\ text[i + 1] \notin Blanks /\ text[e] \notin Blanks
  /\ Read(text, i, e) = Split(quote)

\* The spans a quote should be found at.
LEMMA ReadingsAre ==
  ASSUME NEW C, NEW text \in Seq(C), NEW quote, NEW i \in 0..Len(text), NEW e \in 0..Len(text)
  PROVE  <<i, e>> \in Readings(text, quote) <=> ReadsLike(text, quote, i, e)
<1> DEFINE s == Cut(text, <<i, e>>)
<1>1. <<i, e>> \in Readings(text, quote) <=> s # <<>> /\ Strip(s) = s /\ Split(s) = Split(quote)
  BY DEF Readings
<1>2. CASE e \in i..Len(text)
  <2>1. s # <<>> /\ Strip(s) = s <=> i < e /\ text[i + 1] \notin Blanks /\ text[e] \notin Blanks
    BY <1>2, StripDone
  <2> QED
    BY <1>1, <1>2, <2>1 DEF ReadsLike, Read
<1>3. CASE e \notin i..Len(text)
  <2>1. ~(i + 1 <= e)
    BY <1>3
  <2>2. s = <<>>
    <3>1. i + 1 \in Int /\ e \in Int /\ \A h \in i + 1 .. e : text[h] \in C
      BY <2>1
    <3>2. /\ SubSeq(text, i + 1, e) \in Seq(C)
          /\ Len(SubSeq(text, i + 1, e)) = IF i + 1 <= e THEN e - (i + 1) + 1 ELSE 0
      BY <3>1, SubSeqProperties
    <3> QED
      BY <2>1, <3>2, EmptySeq DEF Cut
  <2> QED
    BY <1>1, <1>3, <2>2 DEF ReadsLike
<1> QED
  BY <1>2, <1>3

\* The regular expression finds the readings, all of them and nothing else.
LEMMA SpacedAreReadings ==
  ASSUME NEW C, NEW text \in Seq(C), NEW quote \in Seq(C), Split(quote) # <<>>
  PROVE  Spaced(text, quote) = Readings(text, quote)
<1> DEFINE X == Split(quote)
<1>1. X \in Seq(Words(C))
  BY SplitOfStrip
<1>2. Spaced(text, quote) \subseteq (0..Len(text)) \X (0..Len(text))
  <2> SUFFICES ASSUME NEW i \in 0..Len(text), NEW e \in MatchEnds(text, i, X)
               PROVE  e \in 0..Len(text)
    BY DEF Spaced
  <2>1. e \in i..Len(text)
    BY <1>1, MatchWithin
  <2> QED
    BY <2>1
<1>3. Readings(text, quote) \subseteq (0..Len(text)) \X (0..Len(text))
  BY DEF Readings
<1>4. ASSUME NEW i \in 0..Len(text), NEW e \in 0..Len(text)
      PROVE  <<i, e>> \in Spaced(text, quote) <=> e \in MatchEnds(text, i, X)
  BY <1>4 DEF Spaced
<1>5. ASSUME NEW i \in 0..Len(text), NEW e \in MatchEnds(text, i, X)
      PROVE  ReadsLike(text, quote, i, e)
  <2>1. Reads(text, i, X) /\ e \in i..Len(text)
    BY <1>1, MatchReads, MatchWithin
  <2>2. i < e /\ text[i + 1] \notin Blanks /\ text[e] \notin Blanks /\ Read(text, i, e) = X
    BY <2>1 DEF Reads
  <2> QED
    BY <2>1, <2>2 DEF ReadsLike
<1>6. ASSUME NEW i \in 0..Len(text), NEW e \in 0..Len(text), ReadsLike(text, quote, i, e)
      PROVE  e \in MatchEnds(text, i, X)
  <2>1. /\ e \in i..Len(text) /\ i < e /\ i < Len(text)
        /\ text[i + 1] \notin Blanks /\ text[e] \notin Blanks /\ Read(text, i, e) = X
    BY <1>6 DEF ReadsLike
  <2>2. PICK d \in i..e : d \in MatchEnds(text, i, Read(text, i, e)) /\ AllBlank(text, d, e)
    BY <2>1, ReadIsMatched
  <2>3. d = e
    <3> SUFFICES ASSUME d # e PROVE FALSE
      OBVIOUS
    <3>1. e \in d + 1 .. e
      BY <2>1
    <3> QED
      BY <2>1, <2>2, <3>1 DEF AllBlank
  <2> QED
    BY <2>1, <2>2, <2>3
<1> HIDE DEF X
<1>7. ASSUME NEW i \in 0..Len(text), NEW e \in 0..Len(text)
      PROVE  <<i, e>> \in Spaced(text, quote) <=> <<i, e>> \in Readings(text, quote)
  BY <1>4, <1>5, <1>6, ReadingsAre
<1>8. ASSUME NEW span \in (0..Len(text)) \X (0..Len(text))
      PROVE  span \in Spaced(text, quote) <=> span \in Readings(text, quote)
  <2>1. PICK i \in 0..Len(text), e \in 0..Len(text) : span = <<i, e>>
    OBVIOUS
  <2> QED
    BY <1>7, <2>1
<1> QED
  BY <1>2, <1>3, <1>8

\* str.find finds the verbatim ones among the readings, all of them and nothing else.
LEMMA VerbatimAreReadings ==
  ASSUME NEW C, NEW text \in Seq(C), NEW quote \in Seq(C), Strip(quote) # <<>>
  PROVE  Verbatim(text, quote) =
           {span \in Readings(text, quote) : Cut(text, span) = Strip(quote)}
<1> DEFINE q == Strip(quote)
<1>1. q \in Seq(C) /\ Strip(q) = q /\ Split(q) = Split(quote)
  <2>1. ~AllBlank(quote, 0, Len(quote))
    BY StripBlank
  <2>2. PICK a, b \in 0..Len(quote) : IsCore(quote, a, b)
    BY <2>1, HasCore
  <2>3. q = Cut(quote, <<a, b>>)
    BY <2>2, StripIs
  <2>4. b \in a..Len(quote) /\ a < b /\ quote[a + 1] \notin Blanks /\ quote[b] \notin Blanks
    BY <2>2 DEF IsCore
  <2>5. Cut(quote, <<a, b>>) \in Seq(C)
    BY <2>4, CutWorks
  <2>6. Strip(Cut(quote, <<a, b>>)) = Cut(quote, <<a, b>>)
    BY <2>4, StripDone
  <2> QED
    BY <2>3, <2>5, <2>6, SplitOfStrip
<1> HIDE DEF q
<1>2. Len(q) \in Nat /\ Len(text) \in Nat /\ q # <<>>
  BY <1>1 DEF q
<1> DEFINE F == {span \in Readings(text, quote) : Cut(text, span) = q}
<1>3. Verbatim(text, quote) =
        {<<i, i + Len(q)>> : i \in {h \in 0..Len(text) - Len(q) : Cut(text, <<h, h + Len(q)>>) = q}}
  BY DEF Verbatim, q
<1>4. ASSUME NEW i \in 0..Len(text) - Len(q), Cut(text, <<i, i + Len(q)>>) = q
      PROVE  <<i, i + Len(q)>> \in F
  <2>1. i \in 0..Len(text) /\ i + Len(q) \in 0..Len(text)
    BY <1>2
  <2> QED
    BY <1>1, <1>2, <1>4, <2>1 DEF Readings
<1>5. ASSUME NEW span \in F
      PROVE  \E i \in 0..Len(text) - Len(q) :
               Cut(text, <<i, i + Len(q)>>) = q /\ span = <<i, i + Len(q)>>
  <2>1. PICK i \in 0..Len(text), e \in 0..Len(text) : span = <<i, e>>
    BY <1>5 DEF Readings
  <2>2. ReadsLike(text, quote, i, e) /\ Cut(text, <<i, e>>) = q
    BY <1>5, <2>1, ReadingsAre
  <2>3. e \in i..Len(text)
    BY <2>2 DEF ReadsLike
  <2>4. Len(q) = e - i
    BY <2>2, <2>3, CutWorks
  <2>5. e = i + Len(q) /\ i \in 0..Len(text) - Len(q)
    BY <1>2, <2>3, <2>4
  <2> QED
    BY <2>1, <2>2, <2>5
<1>6. Verbatim(text, quote) = F
  BY <1>3, <1>4, <1>5
<1> QED
  BY <1>6 DEF q

\* Of any spans there is one that begins first.
LEMMA FirstSpan ==
  ASSUME NEW n \in Nat, NEW S \in SUBSET ((0..n) \X (0..n)), S # {}
  PROVE  \E span \in S : \A other \in S : span[1] <= other[1]
<1> DEFINE T == {span[1] : span \in S}
<1>1. T \in SUBSET Nat /\ T # {}
  OBVIOUS
<1> HIDE DEF T
<1>2. PICK m \in T : \A k \in T : m <= k
  BY <1>1, Least
<1> QED
  BY <1>2 DEF T

(* locate_quote, of whatever characters the text and the quote are and      *)
(* however long: a span it returns reads like the quote, from its first to  *)
(* its last word, it is the first such span, or the first verbatim one if   *)
(* there is one; and it returns None only if there is none.                 *)
THEOREM LocatesEveryQuote ==
  ASSUME NEW C, NEW text \in Seq(C), NEW quote \in Seq(C)
  PROVE  WellLocated(text, quote, LocateQuote(text, quote))
<1> DEFINE readings == Readings(text, quote)
           verbatim == {span \in readings : Cut(text, span) = Strip(quote)}
           best     == IF verbatim # {} THEN verbatim ELSE readings
           found    == LocateQuote(text, quote)
<1>1. readings \in SUBSET ((0..Len(text)) \X (0..Len(text))) /\ Len(text) \in Nat
  BY DEF Readings
<1>2. CASE Strip(quote) = <<>>
  <2>1. found = NotFound
    BY <1>2 DEF LocateQuote
  <2>2. readings = {}
    <3> SUFFICES ASSUME NEW i \in 0..Len(text), NEW e \in 0..Len(text), <<i, e>> \in readings
                 PROVE  FALSE
      BY <1>1
    <3>1. ReadsLike(text, quote, i, e)
      BY ReadingsAre
    <3>2. /\ e \in i..Len(text) /\ i < e /\ text[e] \notin Blanks
          /\ Read(text, i, e) = Split(quote)
      BY <3>1 DEF ReadsLike
    <3>3. Read(text, i, e) = <<>>
      BY <1>2, <3>2, SplitOfStrip
    <3>4. AllBlank(text, i, e)
      BY <3>2, <3>3, ReadTyped
    <3>5. e \in i + 1 .. e
      BY <3>2
    <3> QED
      BY <3>2, <3>4, <3>5 DEF AllBlank
  <2> QED
    BY <2>1, <2>2 DEF WellLocated
<1>3. CASE Strip(quote) # <<>>
  <2>1. Verbatim(text, quote) = verbatim
    BY <1>3, VerbatimAreReadings
  <2>2. Spaced(text, quote) = readings
    BY <1>3, SplitOfStrip, SpacedAreReadings
  <2>3. found = IF best = {} THEN NotFound
                ELSE CHOOSE span \in best : \A other \in best : span[1] <= other[1]
    <3> HIDE DEF readings, verbatim
    <3> QED
      BY <1>3, <2>1, <2>2 DEF LocateQuote
  <2>4. best \in SUBSET ((0..Len(text)) \X (0..Len(text))) /\ (best = {} <=> readings = {})
    <3> HIDE DEF readings
    <3> QED
      BY <1>1
  <2> HIDE DEF best, found
  <2>5. CASE best = {}
    BY <2>3, <2>4, <2>5 DEF WellLocated, found
  <2>6. CASE best # {}
    <3>1. \E span \in best : \A other \in best : span[1] <= other[1]
      BY <1>1, <2>4, <2>6, FirstSpan
    <3>2. found \in best /\ \A other \in best : found[1] <= other[1]
      BY <2>3, <2>6, <3>1
    <3> QED
      BY <2>4, <2>6, <3>2 DEF WellLocated, best, found
  <2> QED
    BY <2>5, <2>6
<1> QED
  BY <1>2, <1>3

(* The run's instance of it: every sample is a text.                        *)
THEOREM QuotesLocated == Spec => []QuotesAreLocated
<1>1. ASSUME NEW text \in SampleTexts, NEW quote \in SampleQuotes
      PROVE  WellLocated(text, quote, LocateQuote(text, quote))
  <2> DEFINE C == ToSet(text) \cup ToSet(quote)
  <2>1. text \in Seq(C) /\ quote \in Seq(C)
    <3>1. text \in Seq(ToSet(text)) /\ quote \in Seq(ToSet(quote))
      BY ListsAssumption
    <3>2. ToSet(text) \subseteq C /\ ToSet(quote) \subseteq C
      OBVIOUS
    <3> HIDE DEF C
    <3> QED
      BY <3>1, <3>2, SeqMonotonic
  <2> HIDE DEF C
  <2> QED
    BY <2>1, LocatesEveryQuote
<1>2. QuotesAreLocated
  BY <1>1 DEF QuotesAreLocated
<1> QED
  BY <1>2, PTL

-----------------------------------------------------------------------------
(* The review.                                                               *)

\* What the review relies on, pass by pass.
ListedTypes ==
  done >= 2 => \A k \in Chunks :
    /\ said["2_objecttypes"][k] = Raised => Listed("2_objecttypes", k) = {}
    /\ IsFiniteSet(Listed("2_objecttypes", k))

TypesAreMapped ==
  done >= 3 /\ states["2_9_consolidate"] # Raised =>
    \A k \in Chunks : Listed("2_objecttypes", k) \subseteq DOMAIN states["2_9_consolidate"].mapping

RowsAreGrounded ==
  done >= 4 => \A k \in Chunks :
    LET fill == states["3_fillvalues"][k]
    IN  /\ fill # Raised /\ fill.grounded => k \in rows
        /\ k \in rows /\ said["3_fillvalues"][k] # Raised => fill # Raised /\ fill.grounded

CleanedAddsUp ==
  done >= 6 =>
    LET cleanup == states["4_9_cleanup"]
    IN  /\ cleanup.final = UNION {cleanup.cleaned[k] : k \in Chunks}
        /\ cleanup.final \cap (Trivial \cup {""}) = {}

RowsAreOfChunks == rows \subseteq Chunks

Shape ==
  /\ done \in 0..7
  /\ DOMAIN said = ToSet(Names) /\ DOMAIN states = ToSet(Names)
  /\ review # <<>> => done = 7

ReviewInv ==
  /\ Shape /\ RowsAreOfChunks
  /\ ListedTypes /\ TypesAreMapped /\ RowsAreGrounded /\ CleanedAddsUp
  /\ ReviewTellsTheRun

\* The passes, by name.
LEMMA PassNames ==
  /\ Len(Names) = 7
  /\ ToSet(Names) = {"1_prose", "2_objecttypes", "2_9_consolidate", "3_fillvalues",
                     "4_keywords", "4_9_cleanup", "5_meaning"}
<1>1. Len(Names) = 7 /\ DOMAIN Names = 1..7
  BY DEF Names
<1>2. ToSet(Names) = {Names[1], Names[2], Names[3], Names[4], Names[5], Names[6], Names[7]}
  BY <1>1 DEF ToSet
<1> QED
  BY <1>1, <1>2 DEF Names

\* A pass goes through: nothing changes of the passes before it.
LEMMA PassGoesThrough ==
  ASSUME Shape, NEW name \in ToSet(Names), NEW replies, NEW state,
         Next1(name), Through(name, replies, state), UNCHANGED review
  PROVE  /\ Shape' /\ review = <<>> /\ ReviewTellsTheRun'
         /\ said'[name] = replies /\ states'[name] = state
         /\ \A other \in ToSet(Names) : other # name =>
              said'[other] = said[other] /\ states'[other] = states[other]
<1>1. done < 7 /\ done' = done + 1 /\ done' \in 0..7 /\ review = <<>>
  BY PassNames DEF Next1, Shape
<1>2. said' = [said EXCEPT ![name] = replies] /\ states' = [states EXCEPT ![name] = state]
  BY DEF Through
<1>3. Shape' /\ ReviewTellsTheRun'
  BY <1>1, <1>2 DEF Shape, ReviewTellsTheRun
<1> QED
  BY <1>1, <1>2, <1>3 DEF Shape

\* Which pass is through tells how many are.
LEMMA PassNumber ==
  ASSUME Shape, NEW name, Next1(name)
  PROVE  /\ name = "1_prose" => done' = 1
         /\ name = "2_objecttypes" => done' = 2
         /\ name = "2_9_consolidate" => done' = 3
         /\ name = "3_fillvalues" => done' = 4
         /\ name = "4_keywords" => done' = 5
         /\ name = "4_9_cleanup" => done' = 6
         /\ name = "5_meaning" => done' = 7
<1>1. done < 7 /\ done' = done + 1 /\ done \in 0..7 /\ Names[done + 1] = name
  BY PassNames DEF Next1, Shape
<1>2. done + 1 \in 1..7 /\ done' \in 1..7
  BY <1>1
<1>3. \A i \in 1..7 :
        /\ Names[i] = "1_prose" <=> i = 1
        /\ Names[i] = "2_objecttypes" <=> i = 2
        /\ Names[i] = "2_9_consolidate" <=> i = 3
        /\ Names[i] = "3_fillvalues" <=> i = 4
        /\ Names[i] = "4_keywords" <=> i = 5
        /\ Names[i] = "4_9_cleanup" <=> i = 6
        /\ Names[i] = "5_meaning" <=> i = 7
  <2>1. \A i \in 1..7 : i = 1 \/ i = 2 \/ i = 3 \/ i = 4 \/ i = 5 \/ i = 6 \/ i = 7
    OBVIOUS
  <2> QED
    BY <2>1 DEF Names
<1> QED
  BY <1>1, <1>2, <1>3

\* No reply names types without end.
LEMMA TypesEnd ==
  ASSUME NEW reply \in Answers["2_objecttypes"]
  PROVE  IsFiniteSet(TypeList(reply))
<1> DEFINE array == SafeArray(reply)
           F == [i \in DOMAIN array |->
                   NormalType[IF Is(array[i], "string") THEN array[i].string
                              ELSE array[i].object.name.string]]
<1>1. IsFiniteSet(DOMAIN array)
  <2>1. array \in Seq(ToSet(array))
    BY ListsAssumption
  <2> HIDE DEF array
  <2>2. Len(array) \in Nat /\ DOMAIN array = 1..Len(array)
    BY <2>1
  <2> QED
    BY <2>2, FS_Interval
<1> DEFINE R == {F[i] : i \in DOMAIN array}
<1>2. F \in Surjection(DOMAIN array, R)
  <2> HIDE DEF array
  <2> QED
    BY DEF Surjection
<1>3. IsFiniteSet(R)
  <2> HIDE DEF F, R, array
  <2> QED
    BY <1>1, <1>2, FS_Surjection
<1>4. TypeList(reply) \subseteq R
  BY DEF TypeList, ToSet
<1> QED
  BY <1>3, <1>4, FS_Subset

\* What the actions leave alone.
LEMMA ListedStays ==
  ASSUME NEW name, states'[name] = states[name]
  PROVE  \A k : Listed(name, k)' = Listed(name, k)
BY DEF Listed

\* A pass that only adds a state of its own.
LEMMA OthersStay ==
  ASSUME ReviewInv, NEW name \in ToSet(Names), NEW replies, NEW state,
         Next1(name), Through(name, replies, state), UNCHANGED <<rows, review>>
  PROVE  /\ Shape' /\ RowsAreOfChunks' /\ ReviewTellsTheRun'
         /\ name # "2_objecttypes" => ListedTypes'
         /\ name \notin {"2_objecttypes", "2_9_consolidate"} => TypesAreMapped'
         /\ name # "3_fillvalues" => RowsAreGrounded'
         /\ name # "4_9_cleanup" => CleanedAddsUp'
<1>1. /\ Shape /\ RowsAreOfChunks /\ ListedTypes /\ TypesAreMapped /\ RowsAreGrounded
      /\ CleanedAddsUp
  BY DEF ReviewInv
<1>2. /\ Shape' /\ ReviewTellsTheRun'
      /\ \A other \in ToSet(Names) : other # name =>
           said'[other] = said[other] /\ states'[other] = states[other]
  BY <1>1, PassGoesThrough
<1>3. /\ done < 7 /\ done \in 0..7 /\ done' = done + 1
      /\ name = "1_prose" => done' = 1
      /\ name = "2_objecttypes" => done' = 2
      /\ name = "2_9_consolidate" => done' = 3
      /\ name = "3_fillvalues" => done' = 4
      /\ name = "4_keywords" => done' = 5
      /\ name = "4_9_cleanup" => done' = 6
      /\ name = "5_meaning" => done' = 7
  BY <1>1, PassNumber, PassNames DEF Next1, Shape
<1>4. /\ name \in {"1_prose", "2_objecttypes", "2_9_consolidate", "3_fillvalues",
                   "4_keywords", "4_9_cleanup", "5_meaning"}
      /\ "2_objecttypes" \in ToSet(Names) /\ "2_9_consolidate" \in ToSet(Names)
      /\ "3_fillvalues" \in ToSet(Names) /\ "4_9_cleanup" \in ToSet(Names)
  BY PassNames
<1>5. name # "2_objecttypes" => ListedTypes'
  <2> SUFFICES ASSUME name # "2_objecttypes" PROVE ListedTypes'
    OBVIOUS
  <2>1. /\ states'["2_objecttypes"] = states["2_objecttypes"]
        /\ said'["2_objecttypes"] = said["2_objecttypes"]
    BY <1>2, <1>4
  <2>2. \A k : Listed("2_objecttypes", k)' = Listed("2_objecttypes", k)
    BY <2>1, ListedStays
  <2>3. done' >= 2 => done >= 2
    BY <1>3, <1>4
  <2> QED
    BY <1>1, <2>1, <2>2, <2>3 DEF ListedTypes
<1>6. name \notin {"2_objecttypes", "2_9_consolidate"} => TypesAreMapped'
  <2> SUFFICES ASSUME name # "2_objecttypes", name # "2_9_consolidate" PROVE TypesAreMapped'
    OBVIOUS
  <2>1. /\ states'["2_objecttypes"] = states["2_objecttypes"]
        /\ states'["2_9_consolidate"] = states["2_9_consolidate"]
    BY <1>2, <1>4
  <2>2. \A k : Listed("2_objecttypes", k)' = Listed("2_objecttypes", k)
    BY <2>1, ListedStays
  <2>3. done' >= 3 => done >= 3
    BY <1>3, <1>4
  <2> QED
    BY <1>1, <2>1, <2>2, <2>3 DEF TypesAreMapped
<1>7. name # "3_fillvalues" => RowsAreGrounded'
  <2> SUFFICES ASSUME name # "3_fillvalues" PROVE RowsAreGrounded'
    OBVIOUS
  <2>1. /\ states'["3_fillvalues"] = states["3_fillvalues"]
        /\ said'["3_fillvalues"] = said["3_fillvalues"]
    BY <1>2, <1>4
  <2>2. done' >= 4 => done >= 4
    BY <1>3, <1>4
  <2> QED
    BY <1>1, <2>1, <2>2 DEF RowsAreGrounded
<1>8. name # "4_9_cleanup" => CleanedAddsUp'
  <2> SUFFICES ASSUME name # "4_9_cleanup" PROVE CleanedAddsUp'
    OBVIOUS
  <2>1. states'["4_9_cleanup"] = states["4_9_cleanup"]
    BY <1>2, <1>4
  <2>2. done' >= 6 => done >= 6
    BY <1>3, <1>4
  <2> QED
    BY <1>1, <2>1, <2>2 DEF CleanedAddsUp
<1>9. RowsAreOfChunks'
  BY <1>1 DEF RowsAreOfChunks
<1> QED
  BY <1>2, <1>5, <1>6, <1>7, <1>8, <1>9

\* A pass that calls the model for each chunk.
LEMMA PerChunkKeeps ==
  ASSUME ReviewInv,
         NEW name \in {"1_prose", "2_objecttypes", "4_keywords", "5_meaning"}, PerChunk(name)
  PROVE  ReviewInv'
<1> DEFINE state(r) == [k \in Chunks |-> IF r[k] = Raised THEN Raised ELSE Output(name, r[k])]
<1>1. PICK replies \in [Chunks -> Answers[name] \cup {Raised}] :
        Through(name, replies, state(replies))
  BY DEF PerChunk
<1>2. Next1(name) /\ UNCHANGED <<rows, review>> /\ name \in ToSet(Names)
  BY PassNames DEF PerChunk
<1>3. name # "2_objecttypes" => ReviewInv'
  BY <1>1, <1>2, OthersStay DEF ReviewInv
<1>4. CASE name = "2_objecttypes"
  <2>1. Shape /\ Shape' /\ RowsAreOfChunks' /\ ReviewTellsTheRun' /\ RowsAreGrounded'
        /\ CleanedAddsUp'
    BY <1>1, <1>2, <1>4, OthersStay DEF ReviewInv
  <2>2. /\ states'["2_objecttypes"] = state(replies)
        /\ said'["2_objecttypes"] = replies
    BY <1>1, <1>2, <1>4, <2>1, PassGoesThrough
  <2>3. done' = 2
    BY <1>2, <1>4, <2>1, PassNumber
  <2>4. ASSUME NEW k \in Chunks
        PROVE  Listed("2_objecttypes", k)' =
                 IF state(replies)[k] = Raised THEN {} ELSE state(replies)[k]
    BY <2>2 DEF Listed
  <2>5. ASSUME NEW k \in Chunks
        PROVE  state(replies)[k] = IF replies[k] = Raised THEN Raised ELSE TypeList(replies[k])
    BY <1>4 DEF Output
  <2>6. ASSUME NEW k \in Chunks, replies[k] # Raised
        PROVE  IsFiniteSet(TypeList(replies[k]))
    BY <1>4, <2>6, TypesEnd
  <2> HIDE DEF state
  <2>7. ListedTypes'
    BY <2>2, <2>4, <2>5, <2>6, FS_EmptySet DEF ListedTypes
  <2>8. TypesAreMapped'
    BY <2>3 DEF TypesAreMapped
  <2> QED
    BY <2>1, <2>7, <2>8 DEF ReviewInv
<1> QED
  BY <1>3, <1>4

\* Pass 2.9.
LEMMA ConsolidateKeeps ==
  ASSUME ReviewInv, Consolidate
  PROVE  ReviewInv'
<1> DEFINE name == "2_9_consolidate"
           raw  == UNION {Listed("2_objecttypes", k) : k \in Chunks}
<1>1. PICK reply \in Answers[name] \cup {Raised} :
        Through(name, reply, IF reply = Raised THEN Raised ELSE Consolidation(reply, raw))
  BY DEF Consolidate
<1>2. Next1(name) /\ UNCHANGED <<rows, review>> /\ name \in ToSet(Names)
      /\ "2_objecttypes" \in ToSet(Names)
  BY PassNames DEF Consolidate
<1>3. Shape /\ Shape' /\ RowsAreOfChunks' /\ ReviewTellsTheRun' /\ ListedTypes'
      /\ RowsAreGrounded' /\ CleanedAddsUp'
  BY <1>1, <1>2, OthersStay DEF ReviewInv
<1>4. /\ states'[name] = IF reply = Raised THEN Raised ELSE Consolidation(reply, raw)
      /\ states'["2_objecttypes"] = states["2_objecttypes"]
  BY <1>1, <1>2, <1>3, PassGoesThrough
<1>5. \A k : Listed("2_objecttypes", k)' = Listed("2_objecttypes", k)
  BY <1>4, ListedStays
<1>6. raw \subseteq DOMAIN Consolidation(reply, raw).mapping
  <2> HIDE DEF raw
  <2> QED
    BY DEF Consolidation
<1>7. TypesAreMapped'
  <2>1. \A k \in Chunks : Listed("2_objecttypes", k) \subseteq raw
    OBVIOUS
  <2> HIDE DEF raw
  <2> QED
    BY <1>4, <1>5, <1>6, <2>1 DEF TypesAreMapped
<1> QED
  BY <1>3, <1>7 DEF ReviewInv

\* Pass 3.
LEMMA FillValuesKeeps ==
  ASSUME ReviewInv, FillValues
  PROVE  ReviewInv'
<1> DEFINE name == "3_fillvalues"
           state(r, stored) == [k \in Chunks |-> IF r[k] = Raised THEN Raised
                                                 ELSE [grounded |-> k \in stored]]
<1>1. PICK replies \in [Chunks -> Answers[name] \cup {Raised}], stored \in SUBSET Chunks :
        /\ rows' = stored
        /\ Through(name, replies, state(replies, stored))
  BY DEF FillValues
<1>2. Next1(name) /\ UNCHANGED review /\ name \in ToSet(Names)
      /\ "2_objecttypes" \in ToSet(Names) /\ "2_9_consolidate" \in ToSet(Names)
  BY PassNames DEF FillValues
<1>3. Shape /\ ListedTypes /\ TypesAreMapped
  BY DEF ReviewInv
<1>4. /\ Shape' /\ ReviewTellsTheRun'
      /\ said'[name] = replies /\ states'[name] = state(replies, stored)
      /\ \A other \in ToSet(Names) : other # name =>
           said'[other] = said[other] /\ states'[other] = states[other]
  BY <1>1, <1>2, <1>3, PassGoesThrough
<1>5. done' = 4 /\ done = 3
  <2>1. done' = 4
    BY <1>2, <1>3, PassNumber
  <2> QED
    BY <1>2, <1>3, <2>1 DEF Next1, Shape
<1>6. /\ states'["2_objecttypes"] = states["2_objecttypes"]
      /\ said'["2_objecttypes"] = said["2_objecttypes"]
      /\ states'["2_9_consolidate"] = states["2_9_consolidate"]
      /\ \A k : Listed("2_objecttypes", k)' = Listed("2_objecttypes", k)
  <2>1. /\ states'["2_objecttypes"] = states["2_objecttypes"]
        /\ said'["2_objecttypes"] = said["2_objecttypes"]
        /\ states'["2_9_consolidate"] = states["2_9_consolidate"]
    BY <1>2, <1>4
  <2> QED
    BY <2>1, ListedStays
<1>7. ListedTypes' /\ TypesAreMapped' /\ RowsAreOfChunks' /\ CleanedAddsUp'
  BY <1>1, <1>3, <1>5, <1>6 DEF ListedTypes, TypesAreMapped, RowsAreOfChunks, CleanedAddsUp
<1>8. RowsAreGrounded'
  <2> SUFFICES ASSUME NEW k \in Chunks
               PROVE  LET fill == states'[name][k]
                      IN  /\ fill # Raised /\ fill.grounded => k \in rows'
                          /\ k \in rows' /\ said'[name][k] # Raised =>
                               fill # Raised /\ fill.grounded
    BY DEF RowsAreGrounded
  <2>1. states'[name][k] = IF replies[k] = Raised THEN Raised ELSE [grounded |-> k \in stored]
    BY <1>4
  <2>2. said'[name][k] = replies[k] /\ rows' = stored
    BY <1>1, <1>4
  <2>3. CASE k \in stored
    <3>1. [grounded |-> k \in stored] = [grounded |-> TRUE] /\ TRUE \in BOOLEAN
      BY <2>3
    <3>2. [grounded |-> TRUE] # Raised /\ [grounded |-> TRUE].grounded
      BY RaisedAssumption
    <3> QED
      BY <2>1, <2>2, <2>3, <3>1, <3>2
  <2>4. CASE k \notin stored
    <3>0. (k \in stored) = FALSE
      BY <2>4
    <3>1. [grounded |-> k \in stored] = [grounded |-> FALSE]
      BY <3>0
    <3>2. ~[grounded |-> FALSE].grounded
      OBVIOUS
    <3> QED
      BY <2>1, <2>2, <2>4, <3>1, <3>2
  <2> QED
    BY <2>3, <2>4
<1> QED
  BY <1>4, <1>7, <1>8 DEF ReviewInv

\* Pass 4.9.
LEMMA CleanupKeeps ==
  ASSUME ReviewInv, Cleanup
  PROVE  ReviewInv'
<1> DEFINE name    == "4_9_cleanup"
           L(k)    == Listed("4_keywords", k)
           raw     == UNION {L(k) : k \in Chunks}
           cleaned == [k \in Chunks |-> {CleanKeyword(w) : w \in L(k)} \ {""}]
           final   == {CleanKeyword(w) : w \in raw} \ {""}
           state   == [final |-> final, cleaned |-> cleaned]
<1>1. Next1(name) /\ UNCHANGED <<rows, review>> /\ name \in ToSet(Names)
      /\ Through(name, "none", state)
  BY PassNames DEF Cleanup
<1>2. Shape /\ Shape' /\ RowsAreOfChunks' /\ ReviewTellsTheRun' /\ ListedTypes' /\ TypesAreMapped'
      /\ RowsAreGrounded'
  BY <1>1, OthersStay DEF ReviewInv
<1>3. states'[name] = state
  <2> HIDE DEF state
  <2> QED
    BY <1>1, <1>2, PassGoesThrough
<1>4. final = UNION {cleaned[k] : k \in Chunks}
  <2>1. \A w : w \in final <=> \E k \in Chunks : w \in cleaned[k]
    <3> TAKE w
    <3>1. ASSUME w \in final PROVE \E k \in Chunks : w \in cleaned[k]
      <4>1. PICK k \in Chunks : \E v \in L(k) : w = CleanKeyword(v) /\ w # ""
        BY <3>1
      <4> QED
        BY <4>1
    <3>2. ASSUME NEW k \in Chunks, w \in cleaned[k] PROVE w \in final
      <4>1. PICK v \in L(k) : w = CleanKeyword(v) /\ w # ""
        BY <3>2
      <4>2. v \in raw
        BY <4>1
      <4> QED
        BY <4>1, <4>2
    <3> QED
      BY <3>1, <3>2
  <2> HIDE DEF final, cleaned
  <2> QED
    BY <2>1
<1>5. final \cap (Trivial \cup {""}) = {}
  BY DEF CleanKeyword
<1>6. state.final = final /\ state.cleaned = cleaned
  OBVIOUS
<1> HIDE DEF final, cleaned, state
<1>7. CleanedAddsUp'
  BY <1>3, <1>4, <1>5, <1>6 DEF CleanedAddsUp
<1> QED
  BY <1>2, <1>7 DEF ReviewInv

\* The review, put together from what the passes left.
LEMMA ReviewKeeps ==
  ASSUME ReviewInv, Review
  PROVE  ReviewInv'
<1>1. /\ Shape /\ RowsAreOfChunks /\ ListedTypes /\ TypesAreMapped /\ RowsAreGrounded
      /\ CleanedAddsUp
  BY DEF ReviewInv
<1>2. done = 7 /\ done >= 2 /\ done >= 3 /\ done >= 4 /\ done >= 6
      /\ UNCHANGED <<done, said, states, rows>>
  BY PassNames DEF Review
<1> DEFINE c  == states["2_9_consolidate"]
           f  == states["3_fillvalues"]
           cl == states["4_9_cleanup"]
           L(k) == Listed("2_objecttypes", k)
           Target(t) == IF c # Raised /\ t \in DOMAIN c.mapping THEN c.mapping[t] ELSE t
<1>3. /\ review'.parts = [k \in Chunks |-> Part(k)]
      /\ review'.grounded = Cardinality({k \in Chunks : f[k] # Raised /\ f[k].grounded})
      /\ review'.vocabulary = cl.final
  BY DEF Review
<1>4. ASSUME NEW k \in Chunks
      PROVE  /\ Part(k).types = L(k)
             /\ Part(k).canonical = {Target(t) : t \in L(k)}
             /\ Part(k).record <=> (f[k] # Raised /\ f[k].grounded /\ k \in rows)
             /\ Part(k).keywords = cl.cleaned[k]
  BY DEF Part
<1>5. Shape' /\ RowsAreOfChunks' /\ ListedTypes' /\ TypesAreMapped' /\ RowsAreGrounded'
      /\ CleanedAddsUp'
  <2>1. \A k : Listed("2_objecttypes", k)' = Listed("2_objecttypes", k)
    BY <1>2 DEF Listed
  <2> QED
    BY <1>1, <1>2, <2>1 DEF Shape, RowsAreOfChunks, ListedTypes, TypesAreMapped,
                            RowsAreGrounded, CleanedAddsUp
<1> DEFINE parts == review'.parts
<1> HIDE DEF L, Target, c, f, cl
<1>6. ASSUME NEW k \in Chunks
      PROVE  /\ parts[k].types = L(k)
             /\ parts[k].canonical = {Target(t) : t \in L(k)}
             /\ parts[k].record <=> (f[k] # Raised /\ f[k].grounded /\ k \in rows)
             /\ parts[k].keywords = cl.cleaned[k]
  BY <1>3, <1>4
<1> HIDE DEF parts
<1>7. \A k \in Chunks : said["2_objecttypes"][k] = Raised => parts[k].types = {}
  BY <1>1, <1>2, <1>6 DEF ListedTypes, L
<1>8. ASSUME NEW k \in Chunks
      PROVE  Cardinality(parts[k].canonical) <= Cardinality(parts[k].types)
  <2> DEFINE F == [t \in L(k) |-> Target(t)]
             R == {Target(t) : t \in L(k)}
  <2>1. IsFiniteSet(L(k))
    BY <1>1, <1>2 DEF ListedTypes, L
  <2>2. F \in Surjection(L(k), R)
    BY DEF Surjection
  <2> HIDE DEF F, R
  <2>3. Cardinality(R) <= Cardinality(L(k))
    BY <2>1, <2>2, FS_Surjection
  <2> QED
    BY <1>6, <2>3 DEF R
<1>9. ASSUME NEW k \in Chunks, c # Raised
      PROVE  /\ parts[k].types \subseteq DOMAIN c.mapping
             /\ parts[k].canonical = {c.mapping[t] : t \in parts[k].types}
  <2>1. L(k) \subseteq DOMAIN c.mapping
    BY <1>1, <1>2, <1>9 DEF TypesAreMapped, L, c
  <2>2. \A t \in L(k) : Target(t) = c.mapping[t]
    BY <1>9, <2>1 DEF Target
  <2> QED
    BY <1>6, <2>1, <2>2
<1>10. review'.vocabulary = UNION {parts[k].keywords : k \in Chunks}
       /\ review'.vocabulary \cap (Trivial \cup {""}) = {}
  <2>1. cl.final = UNION {cl.cleaned[k] : k \in Chunks} /\ cl.final \cap (Trivial \cup {""}) = {}
    BY <1>1, <1>2 DEF CleanedAddsUp, cl
  <2>2. {cl.cleaned[k] : k \in Chunks} = {parts[k].keywords : k \in Chunks}
    BY <1>6
  <2> QED
    BY <1>3, <2>1, <2>2
<1>11. \A k \in Chunks :
         /\ parts[k].record <=> f[k] # Raised /\ f[k].grounded
         /\ k \in rows /\ said["3_fillvalues"][k] # Raised => parts[k].record
  BY <1>1, <1>2, <1>6 DEF RowsAreGrounded, f
<1>12. review'.grounded = Cardinality({k \in Chunks : parts[k].record})
  <2>1. {k \in Chunks : f[k] # Raised /\ f[k].grounded} = {k \in Chunks : parts[k].record}
    BY <1>11
  <2> QED
    BY <1>3, <2>1
<1>13. rows' = rows /\ said' = said /\ states' = states
  BY <1>2
<1>14. ShowsTypes'
  BY <1>7, <1>8, <1>9, <1>13 DEF ShowsTypes, parts, c
<1>15. ShowsKeywords'
  BY <1>10 DEF ShowsKeywords, parts
<1>16. ShowsRecords'
  BY <1>1, <1>11, <1>12, <1>13 DEF ShowsRecords, RowsAreOfChunks, parts
<1> QED
  BY <1>5, <1>14, <1>15, <1>16 DEF ReviewInv, ReviewTellsTheRun

(* Whatever the replies and whichever calls raise, the states the passes    *)
(* leave are what the review relies on.                                     *)
THEOREM ReviewInvHolds == Spec => []ReviewInv
<1>1. Init => ReviewInv
  <2> SUFFICES ASSUME Init PROVE ReviewInv
    OBVIOUS
  <2>1. done = 0 /\ rows = {} /\ review = <<>> /\ Shape
    BY DEF Init, Shape
  <2> QED
    BY <2>1 DEF ReviewInv, RowsAreOfChunks, ListedTypes, TypesAreMapped, RowsAreGrounded,
                CleanedAddsUp, ReviewTellsTheRun
<1>2. ReviewInv /\ [Next]_vars => ReviewInv'
  <2> SUFFICES ASSUME ReviewInv, [Next]_vars PROVE ReviewInv'
    OBVIOUS
  <2>1. ASSUME Prose \/ ObjectTypes \/ Keywords \/ Meanings PROVE ReviewInv'
    BY <2>1, PerChunkKeeps DEF Prose, ObjectTypes, Keywords, Meanings
  <2>2. CASE Consolidate
    BY <2>2, ConsolidateKeeps
  <2>3. CASE FillValues
    BY <2>3, FillValuesKeeps
  <2>4. CASE Cleanup
    BY <2>4, CleanupKeeps
  <2>5. CASE Review
    BY <2>5, ReviewKeeps
  <2>6. CASE UNCHANGED vars
    <3>1. UNCHANGED <<done, said, states, rows, review>>
      BY <2>6 DEF vars
    <3>2. \A k : Listed("2_objecttypes", k)' = Listed("2_objecttypes", k)
      BY <3>1 DEF Listed
    <3>3. Shape' /\ RowsAreOfChunks' /\ ListedTypes' /\ TypesAreMapped' /\ RowsAreGrounded'
          /\ CleanedAddsUp'
      BY <3>1, <3>2 DEF ReviewInv, Shape, RowsAreOfChunks, ListedTypes, TypesAreMapped,
                        RowsAreGrounded, CleanedAddsUp
    <3>4. ReviewTellsTheRun'
      <4>1. ShowsTypes' <=> ShowsTypes
        BY <3>1 DEF ShowsTypes
      <4>2. ShowsKeywords' <=> ShowsKeywords
        BY <3>1 DEF ShowsKeywords
      <4>3. ShowsRecords' <=> ShowsRecords
        BY <3>1 DEF ShowsRecords
      <4> QED
        BY <3>1, <4>1, <4>2, <4>3 DEF ReviewInv, ReviewTellsTheRun
    <3> QED
      BY <3>3, <3>4 DEF ReviewInv
  <2> QED
    BY <2>1, <2>2, <2>3, <2>4, <2>5, <2>6 DEF Next
<1> QED
  BY <1>1, <1>2, PTL DEF Spec

(* The review tells what the run did: the types and their targets, the      *)
(* vocabulary, the records, whichever calls of the run raised.              *)
THEOREM ReviewTells == Spec => []ReviewTellsTheRun
<1>1. ReviewInv => ReviewTellsTheRun
  BY DEF ReviewInv
<1> QED
  BY <1>1, ReviewInvHolds, PTL

=============================================================================
