---------------------------- MODULE ScoringProofs ----------------------------
(***************************************************************************)
(* Theorems about Scoring, for every corpus, chunking and K: its type      *)
(* invariant, that what the rows report of a node adds up, that chunking   *)
(* loses nothing of a turn, and that hits are judged by the right turns.   *)
(*                                                                         *)
(* Texts come first.  What a fold or a recursive function computes of them *)
(* is shown by induction over sets of indices, which are well-founded by   *)
(* inclusion.                                                              *)
(***************************************************************************)
EXTENDS Scoring, FiniteSetTheorems, SequenceTheorems, WellFoundedInduction, TLAPS

-----------------------------------------------------------------------------
(* Induction up to n, about a set of indices.                              *)
LEMMA Induct ==
  ASSUME NEW n \in Nat, NEW G, 0 \in G, \A k \in 0..n-1 : k \in G => k + 1 \in G
  PROVE  \A m \in 0..n : m \in G
<1> SUFFICES ASSUME NEW m \in 0..n, m \notin G
             PROVE  FALSE
  OBVIOUS
<1> DEFINE missed == {k \in 0..n : k \notin G}
           below == {0..k : k \in missed}
           order == StrictSubsetOrdering(0..n)
<1>1. IsWellFoundedOn(order, FiniteSubsetsOf(0..n))
  BY FS_StrictSubsetOrderingWellFounded
<1>2. below \subseteq FiniteSubsetsOf(0..n)
  <2>1. \A k \in missed : 0..k \subseteq 0..n
    OBVIOUS
  <2>2. IsFiniteSet(0..n)
    BY FS_Interval
  <2>3. QED
    BY <2>1, <2>2, FS_Subset DEF FiniteSubsetsOf
<1>3. below # {}
  OBVIOUS
<1>4. PICK x \in below : \A y \in below : <<y, x>> \notin order
  <2> HIDE DEF below, order
  <2> QED BY <1>1, <1>2, <1>3, WFMin
<1>5. PICK k \in missed : x = 0..k
  BY <1>4
<1>6. k # 0 /\ k - 1 \in 0..n-1
  BY <1>5
<1>7. CASE k - 1 \in missed
  <2>1. 0..(k - 1) \in below /\ 0..(k - 1) \subseteq 0..k /\ k \in 0..k /\ k \notin 0..(k - 1)
    BY <1>5, <1>6, <1>7
  <2>2. 0..k \subseteq 0..n /\ 0..(k-1) \subseteq 0..n
    BY <1>5
  <2>3. <<0..(k - 1), 0..k>> \in order
    BY <2>1, <2>2 DEF StrictSubsetOrdering
  <2>4. QED
    BY <1>4, <1>5, <2>1, <2>3
<1>8. CASE k - 1 \notin missed
  <2>1. k - 1 \in G
    BY <1>5, <1>6, <1>8
  <2>2. k - 1 + 1 = k
    BY <1>5
  <2>3. QED
    BY <1>5, <1>6, <2>1, <2>2
<1>9. QED
  BY <1>7, <1>8

(* A set of indices has a least and a greatest one.                        *)
LEMMA Extremes ==
  ASSUME NEW n \in Nat, NEW S \in SUBSET (1..n), S # {}
  PROVE  /\ Min(S) \in S /\ \A x \in S : Min(S) <= x
         /\ Max(S) \in S /\ \A x \in S : Max(S) >= x
<1>1. \E x \in S : \A y \in S : x <= y
  <2> SUFFICES ASSUME ~ \E x \in S : \A y \in S : x <= y
               PROVE  FALSE
    OBVIOUS
  <2> DEFINE G == {k \in 0..n : \A x \in S : x > k}
  <2>1. 0 \in G
    OBVIOUS
  <2>2. \A k \in 0..n-1 : k \in G => k + 1 \in G
    <3> SUFFICES ASSUME NEW k \in 0..n-1, k \in G
                 PROVE  k + 1 \in G
      OBVIOUS
    <3>1. \A x \in S : x >= k + 1
      OBVIOUS
    <3>2. k + 1 \notin S
      BY <3>1
    <3>3. \A x \in S : x > k + 1
      BY <3>1, <3>2
    <3>4. QED
      BY <3>3
  <2>3. n \in G
    <3> HIDE DEF G
    <3> QED BY <2>1, <2>2, Induct
  <2>4. PICK x \in S : TRUE
    OBVIOUS
  <2>5. QED
    BY <2>3, <2>4
<1>2. \E x \in S : \A y \in S : x >= y
  <2> SUFFICES ASSUME ~ \E x \in S : \A y \in S : x >= y
               PROVE  FALSE
    OBVIOUS
  <2> DEFINE G == {k \in 0..n : \A x \in S : x <= n - k}
  <2>1. 0 \in G
    OBVIOUS
  <2>2. \A k \in 0..n-1 : k \in G => k + 1 \in G
    <3> SUFFICES ASSUME NEW k \in 0..n-1, k \in G
                 PROVE  k + 1 \in G
      OBVIOUS
    <3>1. \A x \in S : x <= n - k
      OBVIOUS
    <3>2. n - k \notin S
      BY <3>1
    <3>3. \A x \in S : x <= n - (k + 1)
      BY <3>1, <3>2
    <3>4. QED
      BY <3>3
  <2>3. n \in G
    <3> HIDE DEF G
    <3> QED BY <2>1, <2>2, Induct
  <2>4. PICK x \in S : TRUE
    OBVIOUS
  <2>5. QED
    BY <2>3, <2>4
<1>3. QED
  BY <1>1, <1>2 DEF Min, Max

-----------------------------------------------------------------------------
(* What a fold computes.                                                   *)

IsFold(g, n, V, base, step) ==
    /\ g \in [SUBSET (1..n) -> V]
    /\ \A S \in SUBSET (1..n) :
          g[S] = IF S = {} THEN base ELSE step[<<Max(S), g[S \ {Max(S)}]>>]

(* A fold over the indices up to n exists: it is computed from the least.  *)
LEMMA FoldExists ==
  ASSUME NEW n \in Nat, NEW V, NEW base \in V, NEW step \in [(1..n) \X V -> V]
  PROVE  \E g : IsFold(g, n, V, base, step)
<1> DEFINE next(g, S) == IF S = {} THEN base ELSE step[<<Max(S), g[S \ {Max(S)}]>>]
           right(g, k) == \A S \in SUBSET (1..k) : g[S] = next(g, S)
           fold == [SUBSET (1..n) -> V]
           G == {k \in 0..n : \E g \in fold : right(g, k)}
<1>1. 0 \in G
  <2>0. 1..0 = {}
    OBVIOUS
  <2>1. \A S \in SUBSET (1..0) : S = {}
    BY <2>0
  <2> DEFINE g == [S \in SUBSET (1..n) |-> base]
  <2>2. g \in fold
    OBVIOUS
  <2>3. right(g, 0)
    BY <2>1
  <2> HIDE DEF g, fold, right
  <2>4. QED
    BY <2>2, <2>3
<1>2. ASSUME NEW k \in 0..n-1, k \in G
      PROVE  k + 1 \in G
  <2>1. PICK g \in fold : right(g, k)
    BY <1>2
  <2> DEFINE h == [S \in SUBSET (1..n) |-> next(g, S)]
  <2>2. \A S \in SUBSET (1..n) : S # {} => Max(S) \in S /\ \A x \in S : Max(S) >= x
    BY Extremes
  <2>3. h \in fold
    <3> SUFFICES ASSUME NEW S \in SUBSET (1..n), S # {}
                 PROVE  step[<<Max(S), g[S \ {Max(S)}]>>] \in V
      OBVIOUS
    <3>1. Max(S) \in 1..n /\ S \ {Max(S)} \in SUBSET (1..n)
      BY <2>2
    <3> HIDE DEF next, h
    <3>2. g[S \ {Max(S)}] \in V
      BY <3>1
    <3>3. QED
      BY <3>1, <3>2
  <2>4. ASSUME NEW S \in SUBSET (1..k+1)
        PROVE  h[S] = next(h, S)
    <3>1. S \in SUBSET (1..n)
      OBVIOUS
    <3>2. h[S] = next(g, S)
      BY <3>1
    <3>3. CASE S = {}
      BY <3>2, <3>3
    <3>4. CASE S # {}
      <4> DEFINE r == S \ {Max(S)}
      <4>0. Max(S) \in 1..k+1 /\ \A x \in S : Max(S) >= x /\ x \in 1..k+1
        BY <2>2, <3>1, <3>4
      <4>1. \A x \in r : x \in 1..k
        BY <4>0
      <4>2. r \in SUBSET (1..n)
        BY <3>1
      <4>3. h[r] = next(g, r) /\ g[r] = next(g, r)
        BY <2>1, <4>1, <4>2
      <4> HIDE DEF h, r
      <4>4. next(h, S) = step[<<Max(S), h[r]>>] /\ next(g, S) = step[<<Max(S), g[r]>>]
        BY <3>4 DEF r
      <4>5. QED
        BY <3>2, <4>3, <4>4
    <3>5. QED
      BY <3>3, <3>4
  <2> HIDE DEF h, next
  <2>5. right(h, k + 1)
    BY <2>4
  <2>6. k + 1 \in 0..n
    OBVIOUS
  <2> HIDE DEF right
  <2>7. QED
    BY <2>3, <2>5, <2>6
<1>3. n \in G
  <2> HIDE DEF G
  <2> QED BY <1>1, <1>2, Induct
<1>4. QED
  BY <1>3 DEF IsFold

(* It goes through the indices in order.                                   *)
LEMMA FoldInOrder ==
  ASSUME NEW n \in Nat, NEW i \in 1..n
  PROVE  Max(1..i) = i /\ (1..i) \ {i} = 1..(i - 1) /\ 1..i # {}
<1>1. 1..i \in SUBSET (1..n) /\ 1..i # {} /\ i \in 1..i
  OBVIOUS
<1>2. Max(1..i) \in 1..i /\ Max(1..i) >= i
  BY <1>1, Extremes
<1>3. QED
  BY <1>1, <1>2

-----------------------------------------------------------------------------
(* Texts.                                                                  *)

Text == Seq(Token)

(* A sequence of one element.                                              *)
LEMMA Single ==
  ASSUME NEW S, NEW x \in S
  PROVE  <<x>> \in Seq(S) /\ Len(<<x>>) = 1 /\ <<x>>[1] = x
OBVIOUS

(* The blank that Join puts between two sentences.                         *)
LEMMA Space == <<" ">> \in Text /\ " " \in Blank /\ Len(<<" ">>) = 1
<1>1. " " \in Token /\ " " \in Blank
  BY ChunkerAssumption
<1>2. <<" ">> \in Seq(Token) /\ Len(<<" ">>) = 1
  BY <1>1, Single
<1>3. QED
  BY <1>1, <1>2 DEF Text

(* What Join makes of a text and one more sentence.                        *)
Joined(x, y) == IF x = <<>> THEN y ELSE x \o <<" ">> \o y

JoinFold(q) ==
    CHOOSE g : g = [S \in SUBSET (DOMAIN q) |->
        IF S = {} THEN <<>>
        ELSE IF g[S \ {Max(S)}] = <<>> THEN q[Max(S)]
             ELSE g[S \ {Max(S)}] \o <<" ">> \o q[Max(S)]]

(* Join puts its sentences one after the other.                            *)
LEMMA JoinSteps ==
  ASSUME NEW q \in Seq(Text)
  PROVE  \E J \in [0..Len(q) -> Text] :
            /\ J[0] = <<>>
            /\ \A i \in 1..Len(q) : J[i] = Joined(J[i-1], q[i])
            /\ Join(q) = J[Len(q)]
<1> DEFINE n == Len(q)
           P(g) == g = [S \in SUBSET (DOMAIN q) |->
                          IF S = {} THEN <<>>
                          ELSE IF g[S \ {Max(S)}] = <<>> THEN q[Max(S)]
                               ELSE g[S \ {Max(S)}] \o <<" ">> \o q[Max(S)]]
           add(i, v) == IF v = <<>> THEN q[i] ELSE v \o <<" ">> \o q[i]
           step == [x \in (1..n) \X Text |-> add(x[1], x[2])]
<1>0. n \in Nat /\ DOMAIN q = 1..n /\ <<>> \in Text /\ \A i \in 1..n : q[i] \in Text
  BY DEF Text
<1>1. ASSUME NEW i \in 1..n, NEW v \in Text
      PROVE  add(i, v) \in Text /\ step[<<i, v>>] = add(i, v)
  <2>1. q[i] \in Text /\ v \o <<" ">> \o q[i] \in Text
    BY <1>0, Space, ConcatProperties DEF Text
  <2>2. step[<<i, v>>] = add(i, v)
    OBVIOUS
  <2>3. QED
    BY <2>1, <2>2
<1>2. step \in [(1..n) \X Text -> Text]
  BY <1>1
<1>3. PICK g : IsFold(g, n, Text, <<>>, step)
  <2> HIDE DEF n, step
  <2> QED BY <1>0, <1>2, FoldExists
<1>4. P(g)
  <2>1. ASSUME NEW S \in SUBSET (1..n), S # {}
        PROVE  g[S] = add(Max(S), g[S \ {Max(S)}])
    <3>1. Max(S) \in 1..n /\ S \ {Max(S)} \in SUBSET (1..n)
      BY <1>0, <2>1, Extremes
    <3>2. g[S \ {Max(S)}] \in Text
      BY <1>3, <3>1 DEF IsFold
    <3> HIDE DEF step, add
    <3>3. QED
      BY <1>1, <1>3, <2>1, <3>1, <3>2 DEF IsFold
  <2>2. \A S \in SUBSET (1..n) : g[S] = IF S = {} THEN <<>> ELSE add(Max(S), g[S \ {Max(S)}])
    BY <1>3, <2>1 DEF IsFold
  <2>3. g \in [SUBSET (1..n) -> Text]
    BY <1>3 DEF IsFold
  <2> HIDE DEF step
  <2>4. QED
    BY <1>0, <2>2, <2>3
<1>5. Join(q) = JoinFold(q)[DOMAIN q]
  BY Zenon DEF Join, FoldLeft, MapThenFoldSet, JoinFold
<1>6. P(JoinFold(q))
  BY <1>4 DEF JoinFold
<1> DEFINE f == JoinFold(q)
<1>7. \A S \in SUBSET (1..n) : f[S] = IF S = {} THEN <<>> ELSE add(Max(S), f[S \ {Max(S)}])
  BY <1>0, <1>6
<1> DEFINE J == [i \in 0..n |-> f[1..i]]
<1> HIDE DEF f, n
<1>8. J[0] = <<>>
  <2>1. 1..0 = {} /\ 0 \in 0..n
    BY <1>0
  <2>2. f[{}] = <<>>
    BY <1>7
  <2>3. QED
    BY <2>1, <2>2
<1>9. ASSUME NEW i \in 1..n
      PROVE  J[i] = add(i, J[i-1])
  <2>1. i \in 0..n /\ i - 1 \in 0..n /\ 1..i \in SUBSET (1..n)
    BY <1>0
  <2>2. Max(1..i) = i /\ (1..i) \ {i} = 1..(i - 1) /\ 1..i # {}
    BY <1>0, FoldInOrder
  <2> HIDE DEF add
  <2>3. QED
    BY <1>7, <2>1, <2>2
<1>10. \A i \in 0..n : J[i] \in Text
  <2> DEFINE G == {i \in 0..n : J[i] \in Text}
  <2>1. 0 \in G
    BY <1>0, <1>8
  <2>2. ASSUME NEW k \in 0..n-1, k \in G
        PROVE  k + 1 \in G
    <3>1. k + 1 \in 0..n /\ k + 1 \in 1..n /\ k + 1 - 1 = k /\ J[k] \in Text
      BY <1>0, <2>2
    <3> HIDE DEF J, add
    <3>2. J[k + 1] = add(k + 1, J[k])
      BY <1>9, <3>1
    <3>3. QED
      BY <1>1, <3>1, <3>2
  <2> HIDE DEF G
  <2>3. \A i \in 0..n : i \in G
    BY <1>0, <2>1, <2>2, Induct
  <2>4. QED
    BY <2>3 DEF G
<1>11. Join(q) = J[n]
  BY <1>0, <1>5 DEF f
<1>12. J \in [0..n -> Text]
  BY <1>10
<1>13. QED
  <2>1. \A i \in 1..n : J[i] = Joined(J[i-1], q[i])
    BY <1>9 DEF Joined
  <2> HIDE DEF J
  <2>2. QED
    BY <1>8, <2>1, <1>11, <1>12 DEF n

WordsFold(s) ==
    CHOOSE g : g = [S \in SUBSET (DOMAIN s) |->
        IF S = {} THEN <<>>
        ELSE IF s[Max(S)] \in Blank THEN g[S \ {Max(S)}]
             ELSE Append(g[S \ {Max(S)}], s[Max(S)])]

(* Words passes over the blanks.                                           *)
LEMMA WordsSteps ==
  ASSUME NEW s \in Text
  PROVE  \E W \in [0..Len(s) -> Text] :
            /\ W[0] = <<>>
            /\ \A i \in 1..Len(s) :
                  W[i] = IF s[i] \in Blank THEN W[i-1] ELSE Append(W[i-1], s[i])
            /\ Words(s) = W[Len(s)]
<1> DEFINE n == Len(s)
           P(g) == g = [S \in SUBSET (DOMAIN s) |->
                          IF S = {} THEN <<>>
                          ELSE IF s[Max(S)] \in Blank THEN g[S \ {Max(S)}]
                               ELSE Append(g[S \ {Max(S)}], s[Max(S)])]
           add(i, v) == IF s[i] \in Blank THEN v ELSE Append(v, s[i])
           step == [x \in (1..n) \X Text |-> add(x[1], x[2])]
<1>0. n \in Nat /\ DOMAIN s = 1..n /\ <<>> \in Text /\ \A i \in 1..n : s[i] \in Token
  BY DEF Text
<1>1. ASSUME NEW i \in 1..n, NEW v \in Text
      PROVE  add(i, v) \in Text /\ step[<<i, v>>] = add(i, v)
  <2>1. s[i] \in Token /\ Append(v, s[i]) \in Text
    BY <1>0, AppendProperties DEF Text
  <2>2. step[<<i, v>>] = add(i, v)
    OBVIOUS
  <2>3. QED
    BY <2>1, <2>2
<1>2. step \in [(1..n) \X Text -> Text]
  BY <1>1
<1>3. PICK g : IsFold(g, n, Text, <<>>, step)
  <2> HIDE DEF n, step
  <2> QED BY <1>0, <1>2, FoldExists
<1>4. P(g)
  <2>1. ASSUME NEW S \in SUBSET (1..n), S # {}
        PROVE  g[S] = add(Max(S), g[S \ {Max(S)}])
    <3>1. Max(S) \in 1..n /\ S \ {Max(S)} \in SUBSET (1..n)
      BY <1>0, <2>1, Extremes
    <3>2. g[S \ {Max(S)}] \in Text
      BY <1>3, <3>1 DEF IsFold
    <3> HIDE DEF step, add
    <3>3. QED
      BY <1>1, <1>3, <2>1, <3>1, <3>2 DEF IsFold
  <2>2. \A S \in SUBSET (1..n) : g[S] = IF S = {} THEN <<>> ELSE add(Max(S), g[S \ {Max(S)}])
    BY <1>3, <2>1 DEF IsFold
  <2>3. g \in [SUBSET (1..n) -> Text]
    BY <1>3 DEF IsFold
  <2> HIDE DEF step
  <2>4. QED
    BY <1>0, <2>2, <2>3
<1>5. Words(s) = WordsFold(s)[DOMAIN s]
  BY Zenon DEF Words, FoldLeft, MapThenFoldSet, WordsFold
<1>6. P(WordsFold(s))
  BY <1>4 DEF WordsFold
<1> DEFINE f == WordsFold(s)
<1>7. \A S \in SUBSET (1..n) : f[S] = IF S = {} THEN <<>> ELSE add(Max(S), f[S \ {Max(S)}])
  BY <1>0, <1>6
<1> DEFINE W == [i \in 0..n |-> f[1..i]]
<1> HIDE DEF f, n
<1>8. W[0] = <<>>
  <2>1. 1..0 = {} /\ 0 \in 0..n
    BY <1>0
  <2>2. f[{}] = <<>>
    BY <1>7
  <2>3. QED
    BY <2>1, <2>2
<1>9. ASSUME NEW i \in 1..n
      PROVE  W[i] = add(i, W[i-1])
  <2>1. i \in 0..n /\ i - 1 \in 0..n /\ 1..i \in SUBSET (1..n)
    BY <1>0
  <2>2. Max(1..i) = i /\ (1..i) \ {i} = 1..(i - 1) /\ 1..i # {}
    BY <1>0, FoldInOrder
  <2> HIDE DEF add
  <2>3. QED
    BY <1>7, <2>1, <2>2
<1>10. \A i \in 0..n : W[i] \in Text
  <2> DEFINE G == {i \in 0..n : W[i] \in Text}
  <2>1. 0 \in G
    BY <1>0, <1>8
  <2>2. ASSUME NEW k \in 0..n-1, k \in G
        PROVE  k + 1 \in G
    <3>1. k + 1 \in 0..n /\ k + 1 \in 1..n /\ k + 1 - 1 = k /\ W[k] \in Text
      BY <1>0, <2>2
    <3> HIDE DEF W, add
    <3>2. W[k + 1] = add(k + 1, W[k])
      BY <1>9, <3>1
    <3>3. QED
      BY <1>1, <3>1, <3>2
  <2> HIDE DEF G
  <2>3. \A i \in 0..n : i \in G
    BY <1>0, <2>1, <2>2, Induct
  <2>4. QED
    BY <2>3 DEF G
<1>11. Words(s) = W[n]
  BY <1>0, <1>5 DEF f
<1>12. W \in [0..n -> Text]
  BY <1>10
<1>13. QED
  <2> HIDE DEF W
  <2> QED BY <1>8, <1>9, <1>11, <1>12 DEF n

(* Where a text stands in another.                                         *)
LEMMA WithinAt ==
  ASSUME NEW s \in Text, NEW t \in Text
  PROVE  Within(s, t) <=>
            \E i \in 0..(Len(t) - Len(s)) : \A j \in 1..Len(s) : t[i + j] = s[j]
<1>0. Len(s) \in Nat /\ Len(t) \in Nat
      /\ (\A j \in 1..Len(s) : s[j] \in Token) /\ (\A j \in 1..Len(t) : t[j] \in Token)
  BY DEF Text
<1>1. ASSUME NEW i \in 0..(Len(t) - Len(s))
      PROVE  SubSeq(t, i + 1, i + Len(s)) = s <=> \A j \in 1..Len(s) : t[i + j] = s[j]
  <2> DEFINE part == SubSeq(t, i + 1, i + Len(s))
  <2>1. \A j \in (i + 1)..(i + Len(s)) : t[j] \in Token
    BY <1>0
  <2>2. /\ part \in Seq(Token)
        /\ Len(part) = IF i + 1 <= i + Len(s) THEN i + Len(s) - (i + 1) + 1 ELSE 0
        /\ \A j \in 1..(i + Len(s) - (i + 1) + 1) : part[j] = t[i + 1 + j - 1]
    BY <1>0, <2>1, SubSeqProperties
  <2>3. Len(part) = Len(s) /\ \A j \in 1..Len(s) : part[j] = t[i + j]
    BY <1>0, <2>2
  <2> HIDE DEF part
  <2>4. (\A j \in 1..Len(s) : t[i + j] = s[j]) => part = s
    BY <1>0, <2>2, <2>3, SeqEqual DEF Text
  <2>5. QED
    BY <2>3, <2>4 DEF part
<1>2. QED
  BY <1>1 DEF Within

(* A part of a text stands in the text.                                    *)
LEMMA WithinPart ==
  ASSUME NEW t \in Text, NEW a \in 1..Len(t), NEW b \in a..Len(t)
  PROVE  /\ SubSeq(t, a, b) \in Text /\ Len(SubSeq(t, a, b)) = b - a + 1
         /\ \A j \in 1..(b - a + 1) : SubSeq(t, a, b)[j] = t[a + j - 1]
         /\ Within(SubSeq(t, a, b), t)
<1> DEFINE part == SubSeq(t, a, b)
<1>0. Len(t) \in Nat /\ \A j \in 1..Len(t) : t[j] \in Token
  BY DEF Text
<1>1. /\ part \in Text /\ Len(part) = b - a + 1
      /\ \A j \in 1..(b - a + 1) : part[j] = t[a + j - 1]
  BY <1>0, SubSeqProperties DEF Text
<1>2. Within(part, t)
  <2> HIDE DEF part
  <2>1. a - 1 \in 0..(Len(t) - Len(part)) /\ \A j \in 1..Len(part) : t[a - 1 + j] = part[j]
    BY <1>0, <1>1
  <2>2. QED
    BY <1>1, <2>1, WithinAt
<1>3. QED
  BY <1>1, <1>2

(* What stands in a part stands in the whole.                              *)
LEMMA WithinTrans ==
  ASSUME NEW r \in Text, NEW s \in Text, NEW t \in Text, Within(r, s), Within(s, t)
  PROVE  Within(r, t)
<1>0. Len(r) \in Nat /\ Len(s) \in Nat /\ Len(t) \in Nat
  BY DEF Text
<1>1. PICK i \in 0..(Len(s) - Len(r)) : \A j \in 1..Len(r) : s[i + j] = r[j]
  BY WithinAt
<1>2. PICK k \in 0..(Len(t) - Len(s)) : \A j \in 1..Len(s) : t[k + j] = s[j]
  BY WithinAt
<1>3. k + i \in 0..(Len(t) - Len(r))
  BY <1>0
<1>4. ASSUME NEW j \in 1..Len(r)
      PROVE  t[k + i + j] = r[j]
  <2>1. i + j \in 1..Len(s) /\ k + (i + j) = k + i + j
    BY <1>0
  <2>2. QED
    BY <1>1, <1>2, <2>1
<1>5. QED
  BY <1>3, <1>4, WithinAt

(* Both halves stand in a concatenation.                                   *)
LEMMA WithinConcat ==
  ASSUME NEW r \in Text, NEW s \in Text
  PROVE  r \o s \in Text /\ Within(r, r \o s) /\ Within(s, r \o s)
<1>0. Len(r) \in Nat /\ Len(s) \in Nat
  BY DEF Text
<1>1. /\ r \o s \in Text /\ Len(r \o s) = Len(r) + Len(s)
      /\ \A i \in 1..(Len(r) + Len(s)) :
            (r \o s)[i] = IF i <= Len(r) THEN r[i] ELSE s[i - Len(r)]
  BY ConcatProperties DEF Text
<1> DEFINE t == r \o s
<1> HIDE DEF t
<1>2. 0 \in 0..(Len(t) - Len(r)) /\ \A j \in 1..Len(r) : t[0 + j] = r[j]
  BY <1>0, <1>1 DEF t
<1>3. Len(r) \in 0..(Len(t) - Len(s)) /\ \A j \in 1..Len(s) : t[Len(r) + j] = s[j]
  BY <1>0, <1>1 DEF t
<1>4. t \in Text
  BY <1>1 DEF t
<1>5. Within(r, t) /\ Within(s, t)
  BY <1>2, <1>3, <1>4, WithinAt
<1>6. QED
  BY <1>4, <1>5 DEF t

(* Append goes to the right half.                                          *)
LEMMA AppendConcat ==
  ASSUME NEW r \in Text, NEW s \in Text, NEW x \in Token
  PROVE  Append(r \o s, x) = r \o Append(s, x)
BY DEF Text

(* The words of a concatenation are those of its halves.                   *)
LEMMA WordsConcat ==
  ASSUME NEW a \in Text, NEW b \in Text
  PROVE  Words(a \o b) = Words(a) \o Words(b) /\ Words(a) \in Text
<1> DEFINE t == a \o b
           n == Len(a)
           m == Len(b)
<1>0. n \in Nat /\ m \in Nat /\ t \in Text /\ Len(t) = n + m
  BY ConcatProperties DEF Text
<1>1. \A i \in 1..(n + m) : t[i] = IF i <= n THEN a[i] ELSE b[i - n]
  BY ConcatProperties DEF Text
<1>b. \A i \in 1..m : b[i] \in Token
  BY DEF Text
<1>2. PICK W \in [0..Len(t) -> Text] :
         /\ W[0] = <<>> /\ Words(t) = W[Len(t)]
         /\ \A i \in 1..Len(t) : W[i] = IF t[i] \in Blank THEN W[i-1] ELSE Append(W[i-1], t[i])
  BY <1>0, WordsSteps
<1>3. PICK A \in [0..n -> Text] :
         /\ A[0] = <<>> /\ Words(a) = A[n]
         /\ \A i \in 1..n : A[i] = IF a[i] \in Blank THEN A[i-1] ELSE Append(A[i-1], a[i])
  BY WordsSteps
<1>4. PICK B \in [0..m -> Text] :
         /\ B[0] = <<>> /\ Words(b) = B[m]
         /\ \A i \in 1..m : B[i] = IF b[i] \in Blank THEN B[i-1] ELSE Append(B[i-1], b[i])
  BY WordsSteps
<1> HIDE DEF t, n, m
<1>5. W[n] = A[n]
  <2> DEFINE G == {i \in 0..n : W[i] = A[i]}
  <2>1. 0 \in G
    BY <1>0, <1>2, <1>3
  <2>2. ASSUME NEW k \in 0..n-1, k \in G
        PROVE  k + 1 \in G
    <3>1. k + 1 \in 1..n /\ k + 1 \in 0..n /\ k + 1 \in 1..Len(t) /\ k + 1 - 1 = k
          /\ k + 1 \in 1..(n + m) /\ k + 1 <= n
      BY <1>0
    <3>2. t[k + 1] = a[k + 1] /\ W[k] = A[k]
      BY <1>1, <2>2, <3>1
    <3>3. W[k + 1] = A[k + 1]
      BY <1>2, <1>3, <3>1, <3>2
    <3>4. QED
      BY <3>1, <3>3
  <2> HIDE DEF G
  <2>3. \A i \in 0..n : i \in G
    BY <1>0, <2>1, <2>2, Induct
  <2>4. QED
    BY <1>0, <2>3 DEF G
<1>6. W[n + m] = A[n] \o B[m]
  <2> DEFINE G == {i \in 0..m : W[n + i] = A[n] \o B[i]}
  <2>t. A[n] \in Seq(Token) /\ \A i \in 0..m : B[i] \in Seq(Token)
    BY <1>0 DEF Text
  <2>1. 0 \in G
    <3>1. A[n] \o <<>> = A[n] /\ n + 0 = n /\ 0 \in 0..m
      BY <1>0, <2>t
    <3>2. QED
      BY <1>4, <1>5, <3>1
  <2>2. ASSUME NEW k \in 0..m-1, k \in G
        PROVE  k + 1 \in G
    <3> DEFINE x == n + (k + 1)
    <3>1. /\ k + 1 \in 1..m /\ k \in 0..m /\ k + 1 \in 0..m /\ k + 1 - 1 = k
          /\ x \in 1..Len(t) /\ x \in 1..(n + m) /\ x - 1 = n + k
          /\ ~(x <= n) /\ x - n = k + 1
      BY <1>0
    <3> HIDE DEF x
    <3>2. t[x] = b[k + 1]
      BY <1>1, <3>1
    <3>3. W[n + k] = A[n] \o B[k]
      BY <2>2
    <3>4. b[k + 1] \in Token /\ A[n] \in Text /\ B[k] \in Text
      BY <1>0, <1>b, <3>1
    <3>5. Append(A[n] \o B[k], b[k + 1]) = A[n] \o Append(B[k], b[k + 1])
      BY <3>4, AppendConcat
    <3>6. W[x] = IF b[k + 1] \in Blank THEN A[n] \o B[k]
                 ELSE Append(A[n] \o B[k], b[k + 1])
      BY <1>2, <3>1, <3>2, <3>3
    <3>7. B[k + 1] = IF b[k + 1] \in Blank THEN B[k] ELSE Append(B[k], b[k + 1])
      BY <1>4, <3>1
    <3>8. W[x] = A[n] \o B[k + 1]
      BY <3>5, <3>6, <3>7
    <3>9. QED
      BY <3>1, <3>8 DEF x
  <2> HIDE DEF G
  <2>3. \A i \in 0..m : i \in G
    BY <1>0, <2>1, <2>2, Induct
  <2>4. QED
    BY <1>0, <2>3 DEF G
<1>7. QED
  BY <1>0, <1>2, <1>3, <1>4, <1>6 DEF t

(* Blanks are no words.                                                    *)
LEMMA WordsBlank ==
  ASSUME NEW s \in Text, \A i \in 1..Len(s) : s[i] \in Blank
  PROVE  Words(s) = <<>>
<1> DEFINE n == Len(s)
<1>0. n \in Nat
  BY DEF Text
<1>1. PICK W \in [0..n -> Text] :
         /\ W[0] = <<>> /\ Words(s) = W[n]
         /\ \A i \in 1..n : W[i] = IF s[i] \in Blank THEN W[i-1] ELSE Append(W[i-1], s[i])
  BY WordsSteps
<1> DEFINE G == {i \in 0..n : W[i] = <<>>}
<1> HIDE DEF n
<1>2. 0 \in G
  BY <1>0, <1>1
<1>3. ASSUME NEW k \in 0..n-1, k \in G
      PROVE  k + 1 \in G
  <2>1. k + 1 \in 1..n /\ k + 1 \in 0..n /\ k + 1 - 1 = k
    BY <1>0
  <2>2. QED
    BY <1>1, <1>3, <2>1 DEF n
<1> HIDE DEF G
<1>4. \A i \in 0..n : i \in G
  BY <1>0, <1>2, <1>3, Induct
<1>5. QED
  BY <1>0, <1>1, <1>4 DEF G

(* Concatenation of texts.                                                 *)
Cat(r, s) == r \o s

(* Texts under concatenation are a monoid.                                 *)
LEMMA CatText ==
  /\ \A r, s \in Text : Cat(r, s) \in Text
  /\ \A r, s, t \in Text : Cat(Cat(r, s), t) = Cat(r, Cat(s, t))
  /\ \A r \in Text : Cat(r, <<>>) = r /\ Cat(<<>>, r) = r
BY DEF Cat, Text

(* Words maps concatenations to concatenations.                            *)
LEMMA CatWords ==
  ASSUME NEW r \in Text, NEW s \in Text
  PROVE  Words(Cat(r, s)) = Cat(Words(r), Words(s)) /\ Words(r) \in Text
BY WordsConcat DEF Cat

(* Neither the empty text nor a blank has words.                           *)
LEMMA NoWords ==
  /\ <<>> \in Text /\ <<" ">> \in Text
  /\ Words(<<>>) = <<>> /\ Words(<<" ">>) = <<>>
<1> DEFINE none == <<>>
           gap == <<" ">>
<1>1. none \in Text /\ Len(none) = 0 /\ gap \in Text /\ Len(gap) = 1 /\ gap[1] \in Blank
  <2>1. none \in Text /\ Len(none) = 0
    BY DEF Text
  <2>2. gap \in Text /\ Len(gap) = 1 /\ gap[1] = " "
    BY Space
  <2>3. QED
    BY <2>1, <2>2, Space
<1> HIDE DEF none, gap
<1>2. (\A i \in 1..Len(none) : none[i] \in Blank) /\ \A i \in 1..Len(gap) : gap[i] \in Blank
  BY <1>1
<1>3. Words(none) = <<>> /\ Words(gap) = <<>>
  BY <1>1, <1>2, WordsBlank
<1>4. QED
  BY <1>1, <1>3 DEF none, gap

(* A joined text has the words of its parts.                               *)
LEMMA JoinedWords ==
  ASSUME NEW x \in Text, NEW y \in Text
  PROVE  Joined(x, y) \in Text /\ Words(Joined(x, y)) = Cat(Words(x), Words(y))
<1> DEFINE gap == <<" ">>
           none == <<>>
           r == Joined(x, y)
<1>2. r = IF x = none THEN y ELSE Cat(Cat(x, gap), y)
  BY DEF Cat, Joined
<1>3. gap \in Text /\ Words(gap) = none /\ Words(none) = none
  BY NoWords
<1>4. \A t \in Text : Cat(t, none) = t /\ Cat(none, t) = t
  BY CatText
<1> HIDE DEF gap, none, r
<1>5. Words(x) \in Text /\ Words(y) \in Text
  BY CatWords
<1>6. CASE x = none
  <2>1. r = y /\ Words(x) = none
    BY <1>2, <1>3, <1>6
  <2>2. Cat(none, Words(y)) = Words(y)
    BY <1>4, <1>5
  <2>3. QED
    BY <2>1, <2>2 DEF r
<1>7. CASE x # none
  <2>1. Cat(x, gap) \in Text
    BY Zenon, <1>3, CatText
  <2>2. Words(Cat(x, gap)) = Cat(Words(x), none)
    BY <1>3, CatWords
  <2>3. Words(Cat(x, gap)) = Words(x)
    BY <1>4, <1>5, <2>2
  <2>4. Words(Cat(Cat(x, gap), y)) = Cat(Words(Cat(x, gap)), Words(y))
    BY Zenon, <2>1, CatWords
  <2>5. Cat(Cat(x, gap), y) \in Text
    BY Zenon, <2>1, CatText
  <2>6. r = Cat(Cat(x, gap), y)
    BY <1>2, <1>7
  <2>7. QED
    BY <2>3, <2>4, <2>5, <2>6 DEF r
<1>8. QED
  BY <1>6, <1>7

(* The words of joined sentences are those of the first, then the others'. *)
LEMMA JoinCons ==
  ASSUME NEW x \in Text, NEW r \in Seq(Text)
  PROVE  Words(Join(<<x>> \o r)) = Cat(Words(x), Words(Join(r)))
<1> DEFINE q == <<x>> \o r
           n == Len(r)
<1>1. <<x>> \in Seq(Text) /\ Len(<<x>>) = 1 /\ <<x>>[1] = x
  BY Single
<1>2. n \in Nat /\ q \in Seq(Text) /\ Len(q) = 1 + n
      /\ \A i \in 1..(1 + n) : q[i] = IF i <= 1 THEN x ELSE r[i - 1]
  BY <1>1, ConcatProperties
<1>3. PICK J \in [0..Len(q) -> Text] :
         /\ J[0] = <<>> /\ Join(q) = J[Len(q)]
         /\ \A i \in 1..Len(q) : J[i] = Joined(J[i-1], q[i])
  BY <1>2, JoinSteps
<1>4. PICK M \in [0..n -> Text] :
         /\ M[0] = <<>> /\ Join(r) = M[n]
         /\ \A i \in 1..n : M[i] = Joined(M[i-1], r[i])
  BY JoinSteps
<1> HIDE DEF q, n
<1>5. Words(<<>>) = <<>> /\ \A t \in Text : Words(t) \in Text /\ Cat(Words(t), <<>>) = Words(t)
  BY NoWords, CatWords, CatText
<1> DEFINE G == {i \in 0..n : Words(J[i + 1]) = Cat(Words(x), Words(M[i]))}
<1>6. 0 \in G
  <2>1. 1 \in 1..Len(q) /\ 1 - 1 = 0 /\ 0 + 1 = 1 /\ q[1] = x
    BY <1>2
  <2>2. J[1] = x
    BY <1>3, <2>1 DEF Joined
  <2>3. Words(J[1]) = Cat(Words(x), Words(M[0]))
    BY <1>4, <1>5, <2>2
  <2>4. QED
    BY <1>2, <2>1, <2>3
<1>7. ASSUME NEW k \in 0..n-1, k \in G
      PROVE  k + 1 \in G
  <2> DEFINE i == k + 1
             j == i + 1
  <2>1. i \in 1..n /\ j \in 1..Len(q) /\ j \in 1..(1 + n) /\ ~(j <= 1) /\ j - 1 = i /\ i - 1 = k
        /\ i \in 0..n /\ k \in 0..n /\ i \in 0..Len(q)
    BY <1>2
  <2>2. Words(J[i]) = Cat(Words(x), Words(M[k]))
    BY <1>7
  <2> HIDE DEF i, j
  <2>3. q[j] = r[i]
    BY <1>2, <2>1
  <2>a. J[i] \in Text /\ M[k] \in Text /\ r[i] \in Text
    <3>1. \A m \in 1..n : r[m] \in Text
      BY DEF n
    <3>2. QED
      BY <2>1, <3>1
  <2>b. J[j] = Joined(J[i], r[i]) /\ M[i] = Joined(M[k], r[i])
    BY <1>3, <1>4, <2>1, <2>3
  <2>4. Words(J[j]) = Cat(Words(J[i]), Words(r[i]))
    BY <2>a, <2>b, JoinedWords
  <2>5. Words(M[i]) = Cat(Words(M[k]), Words(r[i]))
    BY <2>a, <2>b, JoinedWords
  <2>6. Words(J[j]) = Cat(Words(x), Words(M[i]))
    <3>1. Words(J[j]) = Cat(Cat(Words(x), Words(M[k])), Words(r[i]))
      BY <2>2, <2>4
    <3>2. Words(M[k]) \in Text /\ Words(r[i]) \in Text /\ Words(x) \in Text
      BY <1>5, <2>a
    <3>3. Cat(Cat(Words(x), Words(M[k])), Words(r[i]))
             = Cat(Words(x), Cat(Words(M[k]), Words(r[i])))
      BY Zenon, <3>2, CatText
    <3>4. QED
      BY <2>5, <3>1, <3>3
  <2>7. QED
    BY <2>1, <2>6 DEF i, j
<1> HIDE DEF G
<1>8. \A i \in 0..n : i \in G
  BY <1>2, <1>6, <1>7, Induct
<1>9. Words(J[n + 1]) = Cat(Words(x), Words(M[n]))
  BY <1>2, <1>8 DEF G
<1>10. Words(Join(q)) = Cat(Words(x), Words(Join(r)))
  <2>1. Len(q) = n + 1
    BY <1>2
  <2>2. QED
    BY <1>3, <1>4, <1>9, <2>1
<1>11. QED
  BY <1>10 DEF q

-----------------------------------------------------------------------------
(* Sentences.                                                              *)

(* A sentence is not empty and ends within the text.                       *)
LEMMA SentenceBounds ==
  ASSUME NEW s \in Text, NEW from \in 1..Len(s)
  PROVE  SentenceEnd(s, from) \in from..Len(s)
<1> DEFINE S == Breaks(s, from) \union {Len(s)}
<1>1. Len(s) \in Nat
  BY DEF Text
<1>2. S \in SUBSET (1..Len(s)) /\ S # {} /\ \A e \in S : e \in from..Len(s)
  <2>1. \A e \in Breaks(s, from) : e \in from..Len(s)
    BY DEF Breaks
  <2>2. QED
    BY <1>1, <2>1
<1> HIDE DEF S
<1>3. Min(S) \in S
  BY <1>1, <1>2, Extremes
<1>4. QED
  BY <1>2, <1>3 DEF S, SentenceEnd

(* Only blanks are skipped after a sentence.                               *)
LEMMA NextBounds ==
  ASSUME NEW s \in Text, NEW end \in 1..Len(s)
  PROVE  /\ NextStart(s, end) \in (end + 1)..(Len(s) + 1)
         /\ \A i \in (end + 1)..(NextStart(s, end) - 1) : s[i] \in Blank
<1> DEFINE n == Len(s)
           S == {i \in Ink(s) : i > end} \union {n + 1}
<1>1. n \in Nat /\ DOMAIN s = 1..n
  BY DEF Text
<1> HIDE DEF n
<1>2. \A i \in S : i \in 1..(n + 1) /\ i > end
  BY <1>1 DEF n, Ink
<1>3. S \in SUBSET (1..(n + 1)) /\ S # {}
  BY <1>2
<1>4. \A i \in 1..n : i > end /\ s[i] \notin Blank => i \in S
  BY <1>1 DEF Ink
<1>5. NextStart(s, end) = Min(S)
  BY DEF n, NextStart
<1> HIDE DEF S
<1>6. Min(S) \in S /\ \A i \in S : Min(S) <= i
  <2>1. n + 1 \in Nat
    BY <1>1
  <2>2. QED
    BY <1>3, <2>1, Extremes
<1> DEFINE m == Min(S)
<1> HIDE DEF m
<1>7. m \in 1..(n + 1) /\ m > end /\ \A i \in S : m <= i
  BY <1>2, <1>6 DEF m
<1>8. ASSUME NEW i \in (end + 1)..(m - 1)
      PROVE  s[i] \in Blank
  <2>1. i \in 1..n /\ i > end /\ ~(m <= i)
    BY <1>1, <1>7 DEF n
  <2>2. QED
    BY <1>4, <1>7, <2>1
<1>9. m \in (end + 1)..(n + 1)
  BY <1>1, <1>7 DEF n
<1>10. QED
  BY <1>5, <1>8, <1>9 DEF m, n

(* A list that is laid out from its end exists.                            *)
LEMMA ListExists ==
  ASSUME NEW n \in Nat, NEW piece \in [1..n -> Text], NEW next \in [1..n -> 1..(n + 1)],
         \A i \in 1..n : next[i] > i
  PROVE  \E g \in [1..(n + 1) -> Seq(Text)] :
            \A i \in 1..(n + 1) : g[i] = IF i > n THEN <<>> ELSE <<piece[i]>> \o g[next[i]]
<1> DEFINE lists == [1..(n + 1) -> Seq(Text)]
           body(g, i) == IF i > n THEN <<>> ELSE <<piece[i]>> \o g[next[i]]
           right(g, k) == \A i \in (n + 2 - k)..(n + 1) : g[i] = body(g, i)
           G == {k \in 0..(n + 1) : \E g \in lists : right(g, k)}
<1>1. 0 \in G
  <2> DEFINE g == [i \in 1..(n + 1) |-> <<>>]
  <2>1. g \in lists
    OBVIOUS
  <2>2. right(g, 0)
    BY SMT
  <2> HIDE DEF g, lists, right
  <2>3. QED
    BY <2>1, <2>2
<1>2. ASSUME NEW k \in 0..(n + 1) - 1, k \in G
      PROVE  k + 1 \in G
  <2>1. PICK g \in lists : right(g, k)
    BY <1>2
  <2> DEFINE h == [i \in 1..(n + 1) |-> body(g, i)]
  <2>2. h \in lists
    <3> SUFFICES ASSUME NEW i \in 1..(n + 1)
                 PROVE  body(g, i) \in Seq(Text)
      OBVIOUS
    <3>1. CASE i > n
      BY <3>1
    <3>2. CASE ~(i > n)
      <4>1. i \in 1..n
        BY <3>2
      <4>2. piece[i] \in Text /\ g[next[i]] \in Seq(Text)
        BY <4>1
      <4>3. <<piece[i]>> \in Seq(Text)
        BY <4>2
      <4>4. QED
        BY <3>2, <4>2, <4>3, ConcatProperties
    <3>3. QED
      BY <3>1, <3>2
  <2>3. ASSUME NEW i \in (n + 2 - (k + 1))..(n + 1)
        PROVE  h[i] = body(h, i)
    <3>1. i \in 1..(n + 1)
      OBVIOUS
    <3>2. h[i] = body(g, i)
      BY <3>1
    <3>3. CASE i > n
      BY <3>2, <3>3
    <3>4. CASE ~(i > n)
      <4> DEFINE j == next[i]
      <4>1. j \in (n + 2 - k)..(n + 1) /\ j \in 1..(n + 1)
        BY <3>1, <3>4
      <4>2. g[j] = body(g, j) /\ h[j] = body(g, j)
        BY <2>1, <4>1
      <4> HIDE DEF h
      <4>3. body(g, i) = body(h, i)
        BY <3>4, <4>2
      <4>4. QED
        BY <3>2, <4>3
    <3>5. QED
      BY <3>3, <3>4
  <2> HIDE DEF h, body
  <2>4. right(h, k + 1) /\ k + 1 \in 0..(n + 1)
    BY <2>3
  <2> HIDE DEF right
  <2>5. QED
    BY <2>2, <2>4
<1>3. n + 1 \in G
  <2> HIDE DEF G
  <2>1. n + 1 \in Nat /\ n + 1 \in 0..(n + 1)
    OBVIOUS
  <2> QED BY <1>1, <1>2, <2>1, Induct
<1>4. PICK g \in lists : right(g, n + 1)
  BY <1>3
<1>5. \A i \in 1..(n + 1) : g[i] = body(g, i)
  <2>1. n + 2 - (n + 1) = 1
    OBVIOUS
  <2> HIDE DEF body
  <2>2. QED
    BY <1>4, <2>1
<1>6. QED
  BY <1>4, <1>5

Rest(s) ==
    CHOOSE rest : rest = [from \in 1..(Len(s) + 1) |->
        IF from > Len(s) THEN <<>>
        ELSE LET end == SentenceEnd(s, from)
             IN  <<SubSeq(s, from, end)>> \o rest[NextStart(s, end)]]

(* What SentencesFrom computes from each index on.                         *)
LEMMA SentencesSteps ==
  ASSUME NEW s \in Text
  PROVE  \E R \in [1..(Len(s) + 1) -> Seq(Text)] :
            /\ SentencesFrom(s) = R
            /\ \A i \in 1..(Len(s) + 1) :
                  R[i] = IF i > Len(s) THEN <<>>
                         ELSE <<SubSeq(s, i, SentenceEnd(s, i))>>
                                 \o R[NextStart(s, SentenceEnd(s, i))]
<1> DEFINE n == Len(s)
           piece == [i \in 1..n |-> SubSeq(s, i, SentenceEnd(s, i))]
           next == [i \in 1..n |-> NextStart(s, SentenceEnd(s, i))]
           P(g) == g = [from \in 1..(Len(s) + 1) |->
                          IF from > Len(s) THEN <<>>
                          ELSE <<SubSeq(s, from, SentenceEnd(s, from))>>
                                  \o g[NextStart(s, SentenceEnd(s, from))]]
<1>1. n \in Nat
  BY DEF Text
<1>2. ASSUME NEW i \in 1..n
      PROVE  /\ SubSeq(s, i, SentenceEnd(s, i)) \in Text
             /\ NextStart(s, SentenceEnd(s, i)) \in 1..(n + 1)
             /\ NextStart(s, SentenceEnd(s, i)) > i
  <2> DEFINE e == SentenceEnd(s, i)
  <2>1. e \in i..Len(s) /\ e \in 1..Len(s)
    BY <1>1, SentenceBounds
  <2> HIDE DEF e
  <2>2. SubSeq(s, i, e) \in Text
    BY <2>1, WithinPart
  <2>3. NextStart(s, e) \in (e + 1)..(Len(s) + 1)
    BY <2>1, NextBounds
  <2>4. QED
    BY <1>1, <2>1, <2>2, <2>3 DEF e
<1>3. /\ piece \in [1..n -> Text] /\ next \in [1..n -> 1..(n + 1)]
      /\ \A i \in 1..n : next[i] > i
  BY <1>2
<1>4. PICK g \in [1..(n + 1) -> Seq(Text)] :
         \A i \in 1..(n + 1) : g[i] = IF i > n THEN <<>> ELSE <<piece[i]>> \o g[next[i]]
  <2> HIDE DEF n, piece, next
  <2> QED BY <1>1, <1>3, ListExists
<1>5. \A i \in 1..(n + 1) : ~(i > n) =>
         piece[i] = SubSeq(s, i, SentenceEnd(s, i)) /\ next[i] = NextStart(s, SentenceEnd(s, i))
  <2>1. \A i \in 1..(n + 1) : ~(i > n) => i \in 1..n
    BY <1>1
  <2>2. \A i \in 1..n : piece[i] = SubSeq(s, i, SentenceEnd(s, i))
                        /\ next[i] = NextStart(s, SentenceEnd(s, i))
    OBVIOUS
  <2> HIDE DEF piece, next
  <2>3. QED
    BY <2>1, <2>2
<1>6. P(g)
  <2> HIDE DEF piece, next
  <2> QED BY <1>4, <1>5
<1>7. SentencesFrom(s) = Rest(s)
  BY Zenon DEF SentencesFrom, Rest
<1>8. P(Rest(s))
  BY <1>6 DEF Rest
<1> DEFINE R == Rest(s)
<1>9. R = g
  <2> DEFINE G == {k \in 0..n : \A i \in (n + 1 - k)..(n + 1) : R[i] = g[i]}
  <2> HIDE DEF R
  <2>1. \A i \in 1..(n + 1) : R[i] = IF i > n THEN <<>> ELSE <<piece[i]>> \o R[next[i]]
    BY <1>5, <1>8 DEF R
  <2> HIDE DEF piece, next, n
  <2>2. 0 \in G
    <3>1. n + 1 \in 1..(n + 1) /\ n + 1 > n /\ (n + 1 - 0)..(n + 1) = {n + 1}
      BY <1>1
    <3>2. R[n + 1] = g[n + 1]
      BY <1>4, <2>1, <3>1
    <3>3. QED
      BY <1>1, <3>1, <3>2
  <2>3. ASSUME NEW k \in 0..n-1, k \in G
        PROVE  k + 1 \in G
    <3> DEFINE m == n - k
    <3>1. m \in 1..n /\ m \in 1..(n + 1) /\ ~(m > n) /\ k + 1 \in 0..n
          /\ \A i \in (n + 1 - (k + 1))..(n + 1) : i = m \/ i \in (n + 1 - k)..(n + 1)
      BY <1>1
    <3>2. next[m] \in (n + 1 - k)..(n + 1)
      BY <1>1, <1>3, <3>1
    <3>3. R[next[m]] = g[next[m]]
      BY <2>3, <3>2
    <3>4. R[m] = g[m]
      BY <1>4, <2>1, <3>1, <3>3
    <3> HIDE DEF m
    <3>5. QED
      BY <2>3, <3>1, <3>4
  <2> HIDE DEF G
  <2>4. n \in G
    <3>1. \A i \in 0..n : i \in G
      BY <1>1, <2>2, <2>3, Induct
    <3>2. QED
      BY <1>1, <3>1
  <2>5. \A i \in 1..(n + 1) : R[i] = g[i]
    <3>1. n + 1 - n = 1
      BY <1>1
    <3>2. QED
      BY <2>4, <3>1 DEF G
  <2>6. R = [i \in 1..(n + 1) |-> R[i]]
    BY <1>8 DEF R, n
  <2>7. QED
    BY <1>4, <2>5, <2>6
<1>10. QED
  <2> HIDE DEF P, piece, next
  <2>1. \A i \in 1..(n + 1) : R[i] = IF i > n THEN <<>>
                         ELSE <<SubSeq(s, i, SentenceEnd(s, i))>>
                                 \o R[NextStart(s, SentenceEnd(s, i))]
    BY <1>4, <1>5, <1>9
  <2>2. QED
    BY <1>4, <1>7, <1>9, <2>1

(* The part of a text from a on.                                           *)
LEMMA PartOf ==
  ASSUME NEW t \in Text, NEW a \in 1..(Len(t) + 1), NEW b \in (a - 1)..Len(t)
  PROVE  /\ SubSeq(t, a, b) \in Text /\ Len(SubSeq(t, a, b)) = b - a + 1
         /\ \A j \in 1..(b - a + 1) : SubSeq(t, a, b)[j] = t[a + j - 1]
<1>0. Len(t) \in Nat /\ \A j \in 1..Len(t) : t[j] \in Token
  BY DEF Text
<1>1. a \in Int /\ b \in Int /\ \A j \in a..b : t[j] \in Token
  BY <1>0
<1>2. /\ SubSeq(t, a, b) \in Seq(Token)
      /\ Len(SubSeq(t, a, b)) = IF a <= b THEN b-a+1 ELSE 0
      /\ \A j \in 1..(b-a+1) : SubSeq(t, a, b)[j] = t[a + j - 1]
  BY <1>1, SubSeqProperties
<1>3. QED
  BY <1>0, <1>2 DEF Text

(* A part of a text falls into two.                                        *)
LEMMA Adjacent ==
  ASSUME NEW t \in Text, NEW a \in 1..(Len(t) + 1), NEW k \in (a - 1)..Len(t),
         NEW n \in k..Len(t), NEW l, l = k + 1
  PROVE  SubSeq(t, a, n) = Cat(SubSeq(t, a, k), SubSeq(t, l, n))
BY ConcatAdjacentSubSeq DEF Cat, Text

(* A sentence and the blanks after it, and the words of what is left.      *)
LEMMA WordsOfRest ==
  ASSUME NEW s \in Text, NEW from \in 1..Len(s), NEW e \in from..Len(s),
         NEW m \in (e + 1)..(Len(s) + 1), \A i \in (e + 1)..(m - 1) : s[i] \in Blank
  PROVE  Words(SubSeq(s, from, Len(s))) =
            Cat(Words(SubSeq(s, from, e)), Words(SubSeq(s, m, Len(s))))
<1> DEFINE n == Len(s)
           a == SubSeq(s, from, e)
           b == SubSeq(s, e + 1, m - 1)
           c == SubSeq(s, m, n)
           bc == SubSeq(s, e + 1, n)
           none == <<>>
<1>0. n \in Nat
  BY DEF Text
<1>1. /\ from \in 1..(n + 1) /\ e \in (from - 1)..n
      /\ e + 1 \in 1..(n + 1) /\ m - 1 \in (e + 1 - 1)..n /\ m - 1 \in e..n
      /\ m \in 1..(n + 1) /\ n \in (m - 1)..n
      /\ n \in (e + 1 - 1)..n /\ n \in e..n /\ m - 1 + 1 = m
      /\ m - 1 - (e + 1) + 1 = m - 1 - e
  BY <1>0
<1>2. a \in Text /\ c \in Text /\ bc \in Text
  BY <1>1, PartOf
<1>3. b \in Text /\ Len(b) = m - 1 - e /\ \A j \in 1..(m - 1 - e) : b[j] = s[e + 1 + j - 1]
  BY <1>1, PartOf
<1>4. \A j \in 1..Len(b) : b[j] \in Blank
  <2> SUFFICES ASSUME NEW j \in 1..(m - 1 - e)
               PROVE  b[j] \in Blank
    BY <1>3
  <2>1. e + 1 + j - 1 \in (e + 1)..(m - 1)
    BY <1>0
  <2>2. QED
    BY <1>3, <2>1
<1>5. SubSeq(s, from, n) = Cat(a, bc)
  BY <1>1, Adjacent
<1>6. bc = Cat(b, c)
  <2> DEFINE f == e + 1
             k == m - 1
  <2>1. f \in 1..(n + 1) /\ k \in (f - 1)..n /\ n \in k..n /\ m = k + 1
    BY <1>0, <1>1
  <2> HIDE DEF f, k
  <2>2. SubSeq(s, f, n) = Cat(SubSeq(s, f, k), SubSeq(s, m, n))
    BY <2>1, Adjacent
  <2>3. QED
    BY <2>2 DEF f, k
<1> HIDE DEF a, b, c, bc, n, none
<1>7. Words(b) = none
  BY <1>3, <1>4, WordsBlank DEF none
<1>8. Words(bc) = Cat(none, Words(c))
  BY <1>2, <1>3, <1>6, <1>7, CatWords
<1>9. Words(c) \in Text /\ Cat(none, Words(c)) = Words(c)
  <2>1. Words(c) \in Text
    BY <1>2, CatWords
  <2>2. QED
    BY <2>1, CatText DEF none
<1>10. Words(SubSeq(s, from, n)) = Cat(Words(a), Words(c))
  BY <1>2, <1>5, <1>8, <1>9, CatWords
<1>11. QED
  BY <1>10 DEF a, c, n

(* The sentences are parts of the text and hold its words.                 *)
Split(q, s) == q \in Seq(Text) /\ \A i \in 1..Len(q) : q[i] # <<>> /\ Within(q[i], s)

(* One sentence more.                                                      *)
LEMMA SplitCons ==
  ASSUME NEW s \in Text, NEW x \in Text, x # <<>>, Within(x, s), NEW r, Split(r, s)
  PROVE  Split(<<x>> \o r, s)
<1>1. <<x>> \in Seq(Text) /\ Len(<<x>>) = 1 /\ <<x>>[1] = x
  BY Single
<1>2. r \in Seq(Text) /\ Len(r) \in Nat
  BY DEF Split
<1> DEFINE q == <<x>> \o r
<1>3. q \in Seq(Text) /\ Len(q) = 1 + Len(r)
      /\ \A i \in 1..(1 + Len(r)) : q[i] = IF i <= 1 THEN x ELSE r[i - 1]
  BY <1>1, <1>2, ConcatProperties
<1> HIDE DEF q
<1>4. ASSUME NEW i \in 1..Len(q)
      PROVE  q[i] # <<>> /\ Within(q[i], s)
  <2>1. CASE i <= 1
    BY <1>3, <2>1
  <2>2. CASE ~(i <= 1)
    <3>1. i - 1 \in 1..Len(r)
      BY <1>2, <1>3, <2>2
    <3>2. q[i] = r[i - 1]
      BY <1>3, <2>2
    <3>3. QED
      BY <3>1, <3>2 DEF Split
  <2>3. QED
    BY <2>1, <2>2
<1>5. QED
  BY <1>3, <1>4 DEF Split, q

(* No sentence is empty, each stands in the text, and together they have   *)
(* all of its words.                                                       *)
LEMMA SentencesRight ==
  ASSUME NEW s \in Text
  PROVE  /\ Split(SentencesFrom(s)[1], s)
         /\ Words(Join(SentencesFrom(s)[1])) = Words(s)
<1> DEFINE n == Len(s)
<1>0. n \in Nat
  BY DEF Text
<1>1. PICK R \in [1..(n + 1) -> Seq(Text)] :
            /\ SentencesFrom(s) = R
            /\ \A i \in 1..(n + 1) :
                  R[i] = IF i > n THEN <<>>
                         ELSE <<SubSeq(s, i, SentenceEnd(s, i))>>
                                 \o R[NextStart(s, SentenceEnd(s, i))]
  BY SentencesSteps
<1> DEFINE right(i) == Split(R[i], s) /\ Words(Join(R[i])) = Words(SubSeq(s, i, n))
           G == {k \in 0..n : \A i \in (n + 1 - k)..(n + 1) : right(i)}
<1> HIDE DEF n
<1>2. 0 \in G
  <2>1. n + 1 \in 1..(n + 1) /\ n + 1 > n /\ (n + 1 - 0)..(n + 1) = {n + 1}
    BY <1>0
  <2>2. R[n + 1] = <<>> /\ <<>> \in Seq(Text) /\ Len(<<>>) = 0
    BY <1>1, <2>1
  <2>3. Split(R[n + 1], s)
    BY <2>2 DEF Split
  <2>4. Join(R[n + 1]) = <<>>
    <3>1. \E J \in [0..0 -> Text] : J[0] = <<>> /\ Join(<<>>) = J[0]
      <4>1. \E J \in [0..Len(<<>>) -> Text] : J[0] = <<>> /\ Join(<<>>) = J[Len(<<>>)]
        BY <2>2, JoinSteps
      <4>2. QED
        BY <2>2, <4>1
    <3>2. QED
      BY <2>2, <3>1
  <2>5. SubSeq(s, n + 1, n) = <<>>
    BY <1>0, SubSeqEmpty
  <2>6. right(n + 1)
    BY <2>3, <2>4, <2>5
  <2> HIDE DEF right
  <2>7. QED
    BY <1>0, <2>1, <2>6
<1>3. ASSUME NEW k \in 0..n-1, k \in G
      PROVE  k + 1 \in G
  <2> DEFINE f == n - k
             e == SentenceEnd(s, f)
             m == NextStart(s, e)
             x == SubSeq(s, f, e)
  <2>1. f \in 1..n /\ f \in 1..(n + 1) /\ ~(f > n) /\ k + 1 \in 0..n
        /\ \A i \in (n + 1 - (k + 1))..(n + 1) : i = f \/ i \in (n + 1 - k)..(n + 1)
    BY <1>0
  <2>2. e \in f..n /\ e \in 1..n
    <3>1. e \in f..n
      BY <2>1, SentenceBounds DEF n
    <3> HIDE DEF e
    <3>2. QED
      BY <1>0, <2>1, <3>1
  <2>3. m \in (e + 1)..(n + 1) /\ \A i \in (e + 1)..(m - 1) : s[i] \in Blank
    BY <2>2, NextBounds DEF n
  <2>4. R[f] = <<x>> \o R[m]
    BY <1>1, <2>1
  <2>5. x \in Text /\ Len(x) = e - f + 1 /\ Within(x, s)
    BY <2>1, <2>2, WithinPart DEF n
  <2> HIDE DEF m, x, e
  <2>6. right(m)
    <3>1. m \in (n + 1 - k)..(n + 1)
      BY <1>0, <2>2, <2>3
    <3> HIDE DEF right, f
    <3>2. QED
      BY <1>3, <3>1
  <2>7. x # <<>>
    BY <1>0, <2>2, <2>5
  <2>8. Split(R[f], s)
    <3>1. Split(R[m], s)
      BY <2>6
    <3> HIDE DEF f, right
    <3>2. Split(<<x>> \o R[m], s)
      BY <2>5, <2>7, <3>1, SplitCons
    <3>3. QED
      BY <2>4, <3>2
  <2>9. Words(Join(R[f])) = Words(SubSeq(s, f, n))
    <3>1. R[m] \in Seq(Text) /\ Words(Join(R[m])) = Words(SubSeq(s, m, n))
      BY <2>6 DEF Split
    <3>2. Words(SubSeq(s, f, n)) = Cat(Words(SubSeq(s, f, e)), Words(SubSeq(s, m, n)))
      <4> HIDE DEF f
      <4>1. QED
        BY <2>1, <2>2, <2>3, WordsOfRest DEF n
    <3>3. Words(Join(<<x>> \o R[m])) = Cat(Words(x), Words(Join(R[m])))
      BY <2>5, <3>1, JoinCons
    <3> HIDE DEF f
    <3>4. QED
      BY <2>4, <3>1, <3>2, <3>3 DEF x
  <2>10. right(f)
    BY <2>8, <2>9
  <2> HIDE DEF right, f
  <2>11. QED
    BY <1>3, <2>1, <2>10
<1>4. right(1)
  <2> HIDE DEF G, right
  <2>1. \A i \in 0..n : i \in G
    BY <1>0, <1>2, <1>3, Induct
  <2>2. n \in G /\ 1 \in (n + 1 - n)..(n + 1)
    BY <1>0, <2>1
  <2>3. QED
    BY <2>2 DEF G
<1>5. SubSeq(s, 1, n) = s
  BY <1>0, SubSeqFull DEF Text, n
<1>6. QED
  BY <1>1, <1>4, <1>5

-----------------------------------------------------------------------------
(* Windows.                                                                *)

(* A text joined to another is whole at the end of the result.             *)
LEMMA JoinedEnds ==
  ASSUME NEW x \in Text, NEW y \in Text
  PROVE  /\ Joined(x, y) \in Text
         /\ Within(x, Joined(x, y)) /\ Within(y, Joined(x, y))
         /\ \E u \in Text : Joined(x, y) = Cat(u, y)
<1> DEFINE gap == <<" ">>
           none == <<>>
           r == Joined(x, y)
<1>1. r = IF x = none THEN y ELSE Cat(Cat(x, gap), y)
  BY DEF Cat, Joined
<1>2. gap \in Text /\ none \in Text /\ Cat(none, y) = y
  BY NoWords, CatText
<1>3. Cat(x, gap) \in Text /\ Within(x, Cat(x, gap))
  BY <1>2, WithinConcat DEF Cat
<1> HIDE DEF gap, none, r
<1>4. PICK u \in Text : r = Cat(u, y) /\ (x = none \/ u = Cat(x, gap))
  <2>1. CASE x = none
    BY <1>1, <1>2, <2>1
  <2>2. CASE x # none
    BY <1>1, <1>3, <2>2
  <2>3. QED
    BY <2>1, <2>2
<1>5. r \in Text /\ Within(u, r) /\ Within(y, r)
  BY <1>4, WithinConcat DEF Cat
<1>6. Within(x, r)
  <2>1. CASE x = none
    <3>1. Cat(none, r) = r
      BY <1>2, <1>5, CatText DEF none
    <3>2. Within(none, Cat(none, r))
      BY <1>2, <1>5, WithinConcat DEF Cat
    <3>3. QED
      BY <2>1, <3>1, <3>2
  <2>2. CASE u = Cat(x, gap)
    BY <1>3, <1>5, <2>2, WithinTrans
  <2>3. QED
    BY <1>4, <2>1, <2>2
<1>7. QED
  BY <1>4, <1>5, <1>6 DEF r

(* Two neighbours stay side by side when more is joined before them.       *)
LEMMA JoinedPair ==
  ASSUME NEW x \in Text, NEW y \in Text, NEW z \in Text, y # <<>>
  PROVE  Within(Joined(y, z), Joined(Joined(x, y), z))
<1> DEFINE gap == <<" ">>
           r == Joined(x, y)
           none == <<>>
<1>0. gap \in Text /\ none \in Text /\ y # none
  BY NoWords
<1>1. PICK u \in Text : r = Cat(u, y)
  BY JoinedEnds
<1>2. r \in Text
  BY JoinedEnds
<1>3. Joined(y, z) = Cat(Cat(y, gap), z)
  BY DEF Joined, Cat
<1>4. r # none
  BY <1>1 DEF Cat, Text
<1>5. Joined(r, z) = Cat(Cat(r, gap), z)
  BY <1>4 DEF Joined, Cat
<1> HIDE DEF gap, r, none
<1>6. Cat(Cat(Cat(u, y), gap), z) = Cat(u, Cat(Cat(y, gap), z))
  <2>0. Cat(y, gap) \in Text
    BY Zenon, <1>0, CatText
  <2>1. Cat(Cat(u, y), gap) = Cat(u, Cat(y, gap))
    BY <1>0, CatText
  <2>2. Cat(Cat(u, Cat(y, gap)), z) = Cat(u, Cat(Cat(y, gap), z))
    BY <2>0, CatText
  <2>3. QED
    BY <2>1, <2>2
<1>7. Joined(r, z) = Cat(u, Joined(y, z))
  BY <1>1, <1>3, <1>5, <1>6
<1>8. Joined(y, z) \in Text
  BY JoinedEnds
<1>9. Within(Joined(y, z), Cat(u, Joined(y, z)))
  BY <1>8, WithinConcat DEF Cat
<1>10. QED
  BY <1>7, <1>9 DEF r

(* Joined sentences stand in the result, alone and with their neighbours.  *)
LEMMA JoinHolds ==
  ASSUME NEW p \in Seq(Text), \A i \in 1..Len(p) : p[i] # <<>>
  PROVE  /\ Join(p) \in Text
         /\ \A i \in 1..Len(p) : Within(p[i], Join(p))
         /\ \A i \in 1..(Len(p) - 1) : Within(Joined(p[i], p[i+1]), Join(p))
<1> DEFINE n == Len(p)
<1>0. n \in Nat /\ \A i \in 1..n : p[i] \in Text /\ p[i] # <<>>
  BY DEF Text
<1>1. PICK J \in [0..n -> Text] :
         /\ J[0] = <<>> /\ Join(p) = J[n]
         /\ \A i \in 1..n : J[i] = Joined(J[i-1], p[i])
  BY JoinSteps
<1> HIDE DEF n
<1>2. ASSUME NEW x \in Text, NEW i \in 0..n, Within(x, J[i])
      PROVE  Within(x, J[n])
  <2> DEFINE G == {m \in 0..(n - i) : Within(x, J[i + m])}
  <2>0. n - i \in Nat /\ i + 0 = i
    BY <1>0
  <2>1. 0 \in G
    BY <1>2, <2>0
  <2>2. ASSUME NEW k \in 0..(n - i) - 1, k \in G
        PROVE  k + 1 \in G
    <3> DEFINE j == i + (k + 1)
    <3>1. j \in 1..n /\ j - 1 = i + k /\ i + k \in 0..n /\ j \in 0..n /\ k + 1 \in 0..(n - i)
      BY <1>0
    <3> HIDE DEF j
    <3>2. J[j] = Joined(J[i + k], p[j]) /\ p[j] \in Text /\ J[i + k] \in Text /\ J[j] \in Text
      BY <1>0, <1>1, <3>1
    <3>3. Within(J[i + k], J[j])
      BY <3>2, JoinedEnds
    <3>4. Within(x, J[i + k])
      BY <2>2
    <3>5. Within(x, J[j])
      BY <3>2, <3>3, <3>4, WithinTrans
    <3>6. QED
      BY <3>1, <3>5 DEF j
  <2> HIDE DEF G
  <2>3. \A m \in 0..(n - i) : m \in G
    BY <2>0, <2>1, <2>2, Induct
  <2>4. n - i \in G /\ i + (n - i) = n
    BY <1>0, <2>0, <2>3
  <2>5. QED
    BY <2>4 DEF G
<1>3. ASSUME NEW i \in 1..n
      PROVE  Within(p[i], J[n])
  <2>1. i \in 0..n /\ i - 1 \in 0..n
    BY <1>0
  <2>2. Within(p[i], J[i])
    BY <1>0, <1>1, <2>1, JoinedEnds
  <2>3. QED
    BY <1>0, <1>2, <2>1, <2>2
<1>4. ASSUME NEW i \in 1..(n - 1)
      PROVE  Within(Joined(p[i], p[i + 1]), J[n])
  <2> DEFINE j == i + 1
  <2>1. i \in 1..n /\ j \in 1..n /\ i - 1 \in 0..n /\ j - 1 = i /\ j \in 0..n
    BY <1>0
  <2> HIDE DEF j
  <2>2. p[i] \in Text /\ p[i] # <<>> /\ p[j] \in Text
    BY <1>0, <2>1
  <2>3. J[i] = Joined(J[i - 1], p[i]) /\ J[j] = Joined(J[i], p[j]) /\ J[i - 1] \in Text
    BY <1>1, <2>1
  <2>4. Joined(p[i], p[j]) \in Text
    BY <2>2, JoinedEnds
  <2>5. Within(Joined(p[i], p[j]), J[j])
    BY <2>2, <2>3, JoinedPair
  <2>6. QED
    BY <1>2, <2>1, <2>4, <2>5 DEF j
<1>5. J[n] \in Text
  BY <1>0
<1>6. QED
  BY <1>1, <1>3, <1>4, <1>5 DEF n

(* A window holds its sentences whole, and its pairs of neighbours.        *)
LEMMA WindowHolds ==
  ASSUME NEW q \in Seq(Text), \A i \in 1..Len(q) : q[i] # <<>>,
         NEW a \in 1..Len(q), NEW b \in a..Len(q)
  PROVE  /\ \A i \in a..b : Within(q[i], Join(SubSeq(q, a, b)))
         /\ \A i \in a..(b - 1) : Within(Joined(q[i], q[i+1]), Join(SubSeq(q, a, b)))
<1> DEFINE p == SubSeq(q, a, b)
<1>0. Len(q) \in Nat /\ \A i \in 1..Len(q) : q[i] \in Text
  BY DEF Text
<1>1. a \in Int /\ b \in Int /\ \A i \in a..b : i \in 1..Len(q)
  BY <1>0
<1>2. \A i \in a..b : q[i] \in Text
  BY <1>0, <1>1
<1>3. p \in Seq(Text) /\ Len(p) = (IF a <= b THEN b-a+1 ELSE 0)
      /\ \A i \in 1..(b-a+1) : p[i] = q[a + i - 1]
  BY <1>1, <1>2, SubSeqProperties
<1> HIDE DEF p
<1>4. Len(p) = b-a+1
  BY <1>0, <1>3
<1>5. ASSUME NEW i \in 1..Len(p)
      PROVE  p[i] # <<>>
  <2>1. a + i - 1 \in 1..Len(q) /\ i \in 1..(b-a+1)
    BY <1>0, <1>4
  <2>2. p[i] = q[a + i - 1]
    BY <1>3, <2>1
  <2>3. QED
    BY <2>1, <2>2
<1>6. /\ \A i \in 1..Len(p) : Within(p[i], Join(p))
      /\ \A i \in 1..(Len(p) - 1) : Within(Joined(p[i], p[i+1]), Join(p))
  BY <1>3, <1>5, JoinHolds
<1>7. ASSUME NEW i \in a..b
      PROVE  Within(q[i], Join(p))
  <2>1. i - a + 1 \in 1..Len(p) /\ i - a + 1 \in 1..(b-a+1) /\ a + (i - a + 1) - 1 = i
    BY <1>0, <1>4
  <2>2. QED
    BY <1>3, <1>6, <2>1
<1>8. ASSUME NEW i \in a..(b - 1)
      PROVE  Within(Joined(q[i], q[i+1]), Join(p))
  <2> DEFINE j == i - a + 1
             k == j + 1
  <2>1. j \in 1..(Len(p) - 1) /\ j \in 1..(b-a+1) /\ k \in 1..(b-a+1)
        /\ a + j - 1 = i /\ a + k - 1 = i + 1 /\ k = j + 1
    BY <1>0, <1>4
  <2> HIDE DEF j, k
  <2>2. p[j] = q[i] /\ p[k] = q[i + 1]
    BY <1>3, <2>1
  <2>3. Within(Joined(p[j], p[k]), Join(p))
    BY <1>6, <2>1
  <2>4. QED
    BY <2>2, <2>3
<1>9. QED
  BY <1>7, <1>8 DEF p

(* Two sentences joined.                                                   *)
LEMMA JoinPair ==
  ASSUME NEW q \in Seq(Text), NEW i \in 1..(Len(q) - 1)
  PROVE  Join(SubSeq(q, i, i + 1)) = Joined(q[i], q[i+1])
<1> DEFINE p == SubSeq(q, i, i + 1)
<1>0. Len(q) \in Nat /\ \A j \in 1..Len(q) : q[j] \in Text
  BY DEF Text
<1>1. i \in Int /\ i + 1 \in Int /\ \A j \in i..(i + 1) : j \in 1..Len(q)
  BY <1>0
<1>2. \A j \in i..(i + 1) : q[j] \in Text
  BY <1>0, <1>1
<1>3. p \in Seq(Text) /\ Len(p) = (IF i <= i + 1 THEN i+1-i+1 ELSE 0)
      /\ \A j \in 1..(i+1-i+1) : p[j] = q[i + j - 1]
  BY <1>1, <1>2, SubSeqProperties
<1> HIDE DEF p
<1>4. i+1-i+1 = 2 /\ Len(p) = 2 /\ i + 1 - 1 = i /\ i + 2 - 1 = i + 1
      /\ 1 \in 1..2 /\ 2 \in 1..2 /\ 1 - 1 = 0 /\ 2 - 1 = 1
  BY <1>0, <1>3
<1>5. p[1] = q[i] /\ p[2] = q[i + 1]
  BY <1>3, <1>4
<1>6. PICK J \in [0..2 -> Text] :
         J[0] = <<>> /\ Join(p) = J[2] /\ \A j \in 1..2 : J[j] = Joined(J[j-1], p[j])
  <2>1. \E J \in [0..Len(p) -> Text] : J[0] = <<>>
            /\ (\A j \in 1..Len(p) : J[j] = Joined(J[j-1], p[j])) /\ Join(p) = J[Len(p)]
    BY <1>3, JoinSteps
  <2>2. QED
    BY <1>4, <2>1
<1>7. J[1] = p[1]
  BY <1>4, <1>6 DEF Joined
<1>8. J[2] = Joined(p[1], p[2])
  BY <1>4, <1>6, <1>7
<1>9. QED
  BY <1>5, <1>6, <1>8 DEF p

(* The least and the greatest of two.                                      *)
LEMMA LeastOfTwo ==
  ASSUME NEW a \in Int, NEW b \in Int
  PROVE  Min({a, b}) = (IF a <= b THEN a ELSE b) /\ Max({a, b}) = (IF a >= b THEN a ELSE b)
<1>1. \E x \in {a, b} : \A y \in {a, b} : x <= y
  BY SMT
<1>2. \E x \in {a, b} : \A y \in {a, b} : x >= y
  BY SMT
<1>3. Min({a, b}) \in {a, b} /\ \A y \in {a, b} : Min({a, b}) <= y
  BY <1>1 DEF Min
<1>4. Max({a, b}) \in {a, b} /\ \A y \in {a, b} : Max({a, b}) >= y
  BY <1>2 DEF Max
<1>5. QED
  BY <1>3, <1>4

(* A window is at least one sentence wide and moves by at least one, and   *)
(* never by more than its width.                                           *)
LEMMA StrideAndWindow ==
  ASSUME NEW config, config.window \in Int, config.stride \in Int
  PROVE  /\ Window(config) \in Nat /\ Stride(config) \in Nat
         /\ 1 <= Stride(config) /\ Stride(config) <= Window(config)
<1>0. \A i \in Int : Max({1, i}) \in Int /\ Max({1, i}) >= 1
  <2> SUFFICES ASSUME NEW i \in Int
               PROVE  Max({1, i}) \in Int /\ Max({1, i}) >= 1
    OBVIOUS
  <2>1. Max({1, i}) = IF 1 >= i THEN 1 ELSE i
    BY LeastOfTwo
  <2>2. QED
    BY <2>1
<1>2. Window(config) \in Int /\ Window(config) >= 1
  BY Zenon, <1>0 DEF Window
<1> DEFINE m == Max({1, config.stride})
<1>3. m \in Int /\ m >= 1
  BY Zenon, <1>0
<1> HIDE DEF m
<1>4. Min({m, Window(config)}) = IF m <= Window(config) THEN m ELSE Window(config)
  BY <1>2, <1>3, LeastOfTwo
<1>5. Stride(config) = Min({m, Window(config)})
  BY DEF Stride, m
<1>6. QED
  BY <1>2, <1>3, <1>4, <1>5

(* A multiple of a positive number, without products in later steps.       *)
LEMMA Times ==
  ASSUME NEW n \in Nat, NEW S \in Nat, 1 <= S
  PROVE  \A m \in 0..n : m * S \in Nat /\ m * S >= m /\ (m + 1) * S = m * S + S
<1> DEFINE G == {m \in 0..n : m * S \in Nat /\ m * S >= m /\ (m + 1) * S = m * S + S}
<1>1. 0 \in G
  BY SMT
<1>2. ASSUME NEW k \in 0..n-1, k \in G
      PROVE  k + 1 \in G
  BY <1>2, SMT
<1> HIDE DEF G
<1>3. \A m \in 0..n : m \in G
  BY <1>1, <1>2, Induct
<1>4. QED
  BY <1>3 DEF G

(* The windows lie within the sentences and leave none of them out; where  *)
(* they overlap, no pair of neighbours either.                             *)
LEMMA SpansCover ==
  ASSUME NEW n \in Nat, n >= 1, NEW config, config.window \in Int, config.stride \in Int
  PROVE  LET spans == Spans(n, config)
             D == DOMAIN spans
         IN  /\ \A k \in 1..n : \E i \in D :
                   spans[i].start + 1 \in 1..k /\ spans[i].end \in k..n
             /\ Stride(config) < Window(config) =>
                   \A k \in 1..(n - 1) : \E i \in D :
                      spans[i].start + 1 \in 1..k /\ spans[i].end \in (k + 1)..n
<1> DEFINE S == Stride(config)
           W == Window(config)
           start(i) == (i - 1) * S
           L == {i \in 1..n : start(i) + W >= n}
           last == Min(L)
           end(i) == Min({start(i) + W, n})
           spans == Spans(n, config)
<1>1. S \in Nat /\ W \in Nat /\ 1 <= S /\ S <= W
  BY StrideAndWindow
<1>2. spans = [i \in 1..last |-> [start |-> start(i), end |-> Min({start(i) + W, n})]]
  BY DEF Spans
<1> HIDE DEF spans, S, W
<1>3. \A m \in 0..n : m * S \in Nat /\ m * S >= m /\ (m + 1) * S = m * S + S
  BY <1>1, Times
<1>4. \A i \in 1..n : start(i) \in Nat /\ start(i) >= i - 1
  <2> SUFFICES ASSUME NEW i \in 1..n
               PROVE  start(i) \in Nat /\ start(i) >= i - 1
    OBVIOUS
  <2>1. i - 1 \in 0..n
    OBVIOUS
  <2>2. QED
    BY <1>3, <2>1
<1>5. \A i \in 1..n : start(i + 1) = start(i) + S
  <2> SUFFICES ASSUME NEW i \in 1..n
               PROVE  start(i + 1) = start(i) + S
    OBVIOUS
  <2> DEFINE m == i - 1
  <2>1. m \in 0..n /\ m + 1 = i /\ i + 1 - 1 = i
    OBVIOUS
  <2> HIDE DEF m
  <2>2. (m + 1) * S = m * S + S
    BY <1>3, <2>1
  <2>3. QED
    BY <2>1, <2>2 DEF m
<1>6. start(1) = 0
  BY <1>1
<1> HIDE DEF start
<1>7. last \in L /\ \A i \in L : last <= i
  <2>1. n \in L
    BY <1>1, <1>4
  <2>2. L \in SUBSET (1..n)
    OBVIOUS
  <2> HIDE DEF L
  <2>3. QED
    BY <2>1, <2>2, Extremes
<1> HIDE DEF last
<1>8. last \in 1..n /\ start(last) + W >= n /\ \A i \in 1..n : i < last => start(i) + W < n
  <2>1. last \in 1..n /\ start(last) + W >= n
    BY <1>7
  <2>2. ASSUME NEW i \in 1..n, i < last
        PROVE  start(i) + W < n
    <3>1. i \notin L
      <4> HIDE DEF L
      <4>1. QED
        BY <1>7, <2>1, <2>2
    <3>2. start(i) \in Nat
      BY <1>4
    <3>3. QED
      BY <1>1, <3>1, <3>2
  <2>3. QED
    BY <2>1, <2>2
<1>9. \A i \in 1..last : end(i) = IF start(i) + W <= n THEN start(i) + W ELSE n
  <2> SUFFICES ASSUME NEW i \in 1..last
               PROVE  end(i) = IF start(i) + W <= n THEN start(i) + W ELSE n
    OBVIOUS
  <2> DEFINE e == start(i) + W
  <2>1. i \in 1..n
    BY <1>8
  <2>2. e \in Int
    BY <1>1, <1>4, <2>1
  <2> HIDE DEF e
  <2>3. Min({e, n}) = IF e <= n THEN e ELSE n
    BY <2>2, LeastOfTwo
  <2>4. QED
    BY <2>3 DEF e
<1> HIDE DEF end
<1>10. ASSUME NEW k \in 1..n
       PROVE  \E i \in 1..last :
                 /\ start(i) + 1 \in 1..k
                 /\ end(i) \in k..n
                 /\ S < W /\ k + 1 <= n => end(i) \in (k + 1)..n
  <2> DEFINE T == {i \in 1..last : start(i) < k}
             i == Max(T)
  <2>1. T \in SUBSET (1..n) /\ 1 \in T
    BY <1>6, <1>8
  <2>2. i \in T /\ \A j \in T : i >= j
    <3> HIDE DEF T
    <3>1. QED
      BY <2>1, Extremes
  <2> HIDE DEF i
  <2>3. i \in 1..last /\ i \in 1..n /\ start(i) < k /\ start(i) \in Nat
    BY <1>4, <1>8, <2>2
  <2>4. CASE i = last
    <3>1. start(i) + W >= n
      BY <1>8, <2>4
    <3>2. end(i) = n
      BY <1>1, <1>9, <2>3, <2>4, <3>1
    <3>3. start(i) + 1 \in 1..k
      BY <2>3
    <3>4. QED
      BY <2>3, <3>2, <3>3
  <2>5. CASE i # last
    <3>1. i < last /\ start(i) + W < n
      BY <1>8, <2>3, <2>5
    <3>2. i + 1 \in 1..last /\ i + 1 \in 1..n
      BY <1>8, <2>3, <3>1
    <3>3. start(i + 1) \in Nat
      BY <1>4, <3>2
    <3>4. ~(start(i + 1) < k)
      BY <2>2, <2>3, <3>2
    <3>5. start(i) + S >= k
      BY <1>5, <2>3, <3>3, <3>4
    <3>6. end(i) = start(i) + W
      BY <1>1, <1>9, <2>3, <3>1
    <3>7. start(i) + 1 \in 1..k
      BY <2>3
    <3>8. end(i) \in k..n /\ (S < W /\ k + 1 <= n => end(i) \in (k + 1)..n)
      BY <1>1, <2>3, <3>1, <3>5, <3>6
    <3>9. QED
      BY <2>3, <3>7, <3>8
  <2>6. QED
    BY <2>4, <2>5
<1>11. DOMAIN spans = 1..last
       /\ \A i \in 1..last : spans[i].start = start(i) /\ spans[i].end = end(i)
  BY <1>2 DEF end
<1>12. \A k \in 1..n : \E i \in DOMAIN spans :
          spans[i].start + 1 \in 1..k /\ spans[i].end \in k..n
  BY <1>10, <1>11
<1>13. S < W => \A k \in 1..(n - 1) : \E i \in DOMAIN spans :
          spans[i].start + 1 \in 1..k /\ spans[i].end \in (k + 1)..n
  <2> SUFFICES ASSUME S < W, NEW k \in 1..(n - 1)
               PROVE  \E i \in DOMAIN spans :
                         spans[i].start + 1 \in 1..k /\ spans[i].end \in (k + 1)..n
    OBVIOUS
  <2>1. k \in 1..n /\ k + 1 <= n
    OBVIOUS
  <2>2. QED
    BY <1>10, <1>11, <2>1
<1>14. QED
  BY <1>12, <1>13 DEF spans, S, W

(* TrimSpace keeps the words.                                              *)
LEMMA Trimmed ==
  ASSUME NEW t \in Text
  PROVE  /\ TrimSpace(t) \in Text /\ Within(TrimSpace(t), t)
         /\ Words(TrimSpace(t)) = Words(t)
<1> DEFINE n == Len(t)
           S == Ink(t)
           none == <<>>
<1>1. n \in Nat /\ DOMAIN t = 1..n
  BY DEF Text
<1>2. none \in Text /\ Words(none) = none /\ \A x \in Text : Cat(x, none) = x /\ Cat(none, x) = x
  BY NoWords, CatText
<1>3. S \in SUBSET (1..n) /\ \A i \in 1..n : i \notin S => t[i] \in Blank
  BY <1>1 DEF Ink
<1>4. TrimSpace(t) = IF S = {} THEN none ELSE SubSeq(t, Min(S), Max(S))
  BY DEF TrimSpace
<1> HIDE DEF n, S, none
<1>5. CASE S = {}
  <2>1. Words(t) = none
    BY <1>3, <1>5, WordsBlank DEF none, n
  <2>2. Within(none, Cat(none, t))
    BY <1>2, WithinConcat DEF Cat
  <2>3. QED
    BY <1>2, <1>4, <1>5, <2>1, <2>2
<1>6. CASE S # {}
  <2> DEFINE a == Min(S)
             b == Max(S)
             pre == SubSeq(t, 1, a - 1)
             m == SubSeq(t, a, b)
             post == SubSeq(t, b + 1, n)
             rest == SubSeq(t, a, n)
  <2>1. a \in S /\ b \in S /\ \A i \in S : a <= i /\ i <= b
    BY <1>1, <1>3, <1>6, Extremes
  <2> HIDE DEF a, b
  <2>2. a \in 1..n /\ b \in a..n
    BY <1>1, <1>3, <2>1
  <2>3. \A i \in 1..n : i < a \/ i > b => t[i] \in Blank
    BY <1>1, <1>3, <2>1, <2>2
  <2>4. pre \in Text /\ m \in Text /\ post \in Text /\ rest \in Text
        /\ Len(pre) = a - 1 /\ Len(post) = n - b
        /\ (\A j \in 1..(a - 1) : pre[j] = t[j])
        /\ (\A j \in 1..(n - b) : post[j] = t[b + j])
    <3>1. 1 \in 1..(n + 1) /\ a - 1 \in (1 - 1)..n /\ a \in 1..(n + 1) /\ b \in (a - 1)..n
          /\ b + 1 \in 1..(n + 1) /\ n \in (b + 1 - 1)..n /\ n \in (a - 1)..n
      BY <1>1, <2>2
    <3>2. pre \in Text /\ Len(pre) = a - 1 - 1 + 1
          /\ \A j \in 1..(a - 1 - 1 + 1) : pre[j] = t[1 + j - 1]
      BY <3>1, PartOf DEF n
    <3>3. post \in Text /\ Len(post) = n - (b + 1) + 1
          /\ \A j \in 1..(n - (b + 1) + 1) : post[j] = t[b + 1 + j - 1]
      <4> DEFINE c == b + 1
                 x == SubSeq(t, c, n)
      <4>1. c \in 1..(n + 1) /\ n \in (c - 1)..n
        BY <3>1
      <4> HIDE DEF c
      <4>2. x \in Text /\ Len(x) = n - c + 1 /\ \A j \in 1..(n - c + 1) : x[j] = t[c + j - 1]
        BY <4>1, PartOf DEF n
      <4>3. QED
        BY <4>2 DEF c
    <3>4. m \in Text /\ rest \in Text
      BY <3>1, PartOf DEF n
    <3> HIDE DEF pre, m, post, rest
    <3>5. Len(pre) = a - 1 /\ \A j \in 1..(a - 1) : pre[j] = t[j]
      BY <1>1, <2>2, <3>2
    <3>6. Len(post) = n - b /\ \A j \in 1..(n - b) : post[j] = t[b + j]
      BY <1>1, <2>2, <3>3
    <3>7. QED
      BY <3>2, <3>3, <3>4, <3>5, <3>6
  <2>5. Cat(pre, rest) = t /\ Cat(m, post) = rest
    <3> DEFINE k == a - 1
               l == b + 1
    <3>1. 1 \in 1..(n + 1) /\ k \in (1 - 1)..n /\ n \in k..n /\ a = k + 1
          /\ a \in 1..(n + 1) /\ b \in (a - 1)..n /\ n \in b..n /\ l = b + 1
      BY <1>1, <2>2
    <3> HIDE DEF k, l
    <3>2. SubSeq(t, 1, n) = Cat(SubSeq(t, 1, k), SubSeq(t, a, n))
      BY <3>1, Adjacent DEF n
    <3>3. SubSeq(t, a, n) = Cat(SubSeq(t, a, b), SubSeq(t, l, n))
      BY <3>1, Adjacent DEF n
    <3>4. SubSeq(t, 1, n) = t
      BY <1>1, SubSeqFull DEF Text, n
    <3>5. QED
      BY <3>2, <3>3, <3>4 DEF k, l
  <2> HIDE DEF pre, post, rest, m
  <2>6. Words(pre) = none /\ Words(post) = none
    <3>1. \A j \in 1..Len(pre) : pre[j] \in Blank
      BY <1>1, <2>2, <2>3, <2>4
    <3>2. \A j \in 1..Len(post) : post[j] \in Blank
      BY <1>1, <2>2, <2>3, <2>4
    <3>3. QED
      BY <2>4, <3>1, <3>2, WordsBlank DEF none
  <2>7. Words(m) \in Text /\ Words(rest) = Cat(Words(m), none) /\ Words(t) = Cat(none, Words(rest))
    BY <2>4, <2>5, <2>6, CatWords
  <2>8. Words(t) = Words(m)
    <3>1. Words(rest) = Words(m)
      BY <1>2, <2>7
    <3>2. QED
      BY <1>2, <2>7, <3>1
  <2>9. Within(m, t)
    <3>1. Within(m, rest) /\ Within(rest, t)
      BY <2>4, <2>5, WithinConcat DEF Cat
    <3>2. QED
      BY <2>4, <3>1, WithinTrans
  <2>10. TrimSpace(t) = m
    BY <1>4, <1>6 DEF m, a, b
  <2>11. QED
    BY <2>4, <2>8, <2>9, <2>10
<1>7. QED
  BY <1>5, <1>6

(* Of any text, however wrong the window and the stride: the sentences are *)
(* parts of it and hold all its words in order, every sentence is whole in *)
(* some chunk, and where windows overlap so is every pair of neighbours    *)
(* (SplitSentences, Chunkify).                                             *)
THEOREM ChunkingKeepsText ==
  ASSUME NEW t \in Seq(Token), NEW config, config.window \in Int, config.stride \in Int
  PROVE  LET q == SplitSentences(t)
             chunk == Chunkify(t, config)
         IN  /\ Split(q, t)
             /\ Words(Join(q)) = Words(t)
             /\ \A k \in 1..Len(q) : \E i \in DOMAIN chunk : Within(q[k], chunk[i])
             /\ Stride(config) < Window(config) =>
                   \A k \in 1..(Len(q) - 1) : \E i \in DOMAIN chunk :
                      Within(Join(SubSeq(q, k, k + 1)), chunk[i])
<1> DEFINE q == SplitSentences(t)
           chunk == Chunkify(t, config)
           n == Len(q)
           spans == Spans(n, config)
           D == DOMAIN spans
           start(i) == spans[i].start + 1
           end(i) == spans[i].end
           s == TrimSpace(t)
<1>0. s \in Text /\ Within(s, t) /\ Words(s) = Words(t) /\ t \in Text
  BY Trimmed DEF Text
<1>1. q = SentencesFrom(s)[1]
  BY DEF SplitSentences
<1> HIDE DEF q, s
<1>a. Split(q, s) /\ Words(Join(q)) = Words(s)
  BY <1>0, <1>1, SentencesRight
<1>b. \A i \in 1..Len(q) : q[i] \in Text
  BY <1>a DEF Split
<1>c. \A i \in 1..Len(q) : Within(q[i], t)
  BY <1>0, <1>a, <1>b, WithinTrans DEF Split
<1>2. Split(q, t) /\ Words(Join(q)) = Words(t)
  BY <1>0, <1>a, <1>c DEF Split
<1> USE DEF q
<1>3. q # <<>> => chunk = [i \in D |-> Join(SubSeq(q, start(i), end(i)))]
  BY DEF Chunkify
<1> HIDE DEF q, chunk
<1>4. q \in Seq(Text) /\ n \in Nat /\ \A k \in 1..n : q[k] # <<>>
  BY <1>2 DEF Split
<1> HIDE DEF n
<1>5. n >= 1 => q # <<>>
  BY <1>4 DEF n
<1>6. n >= 1 =>
        /\ \A k \in 1..n : \E i \in D : start(i) \in 1..k /\ end(i) \in k..n
        /\ Stride(config) < Window(config) =>
              \A k \in 1..(n - 1) : \E i \in D : start(i) \in 1..k /\ end(i) \in (k + 1)..n
  BY <1>4, SpansCover
<1> HIDE DEF spans, D
<1>7. ASSUME NEW k \in 1..n
      PROVE  \E i \in DOMAIN chunk : Within(q[k], chunk[i])
  <2>0. n >= 1
    BY <1>4
  <2>1. PICK i \in D : start(i) \in 1..k /\ end(i) \in k..n
    BY <1>6, <2>0
  <2>2. i \in DOMAIN chunk /\ chunk[i] = Join(SubSeq(q, start(i), end(i)))
    BY <1>3, <1>5, <2>0
  <2> DEFINE a == start(i)
             b == end(i)
  <2> HIDE DEF start, end
  <2>3. a \in 1..n /\ b \in a..n /\ k \in a..b
    BY <1>4, <2>1
  <2> HIDE DEF a, b
  <2>4. \A m \in a..b : Within(q[m], Join(SubSeq(q, a, b)))
    BY <1>4, <2>3, WindowHolds DEF n
  <2>5. QED
    BY <2>2, <2>3, <2>4 DEF a, b
<1>8. ASSUME Stride(config) < Window(config), NEW k \in 1..(n - 1)
      PROVE  \E i \in DOMAIN chunk : Within(Join(SubSeq(q, k, k + 1)), chunk[i])
  <2>0. n >= 1
    BY <1>4
  <2>1. PICK i \in D : start(i) \in 1..k /\ end(i) \in (k + 1)..n
    BY <1>6, <1>8, <2>0
  <2>2. i \in DOMAIN chunk /\ chunk[i] = Join(SubSeq(q, start(i), end(i)))
    BY <1>3, <1>5, <2>0
  <2> DEFINE a == start(i)
             b == end(i)
  <2> HIDE DEF start, end
  <2>3. a \in 1..n /\ b \in a..n /\ k \in a..(b - 1)
    BY <1>4, <2>1
  <2> HIDE DEF a, b
  <2>4. \A m \in a..(b - 1) : Within(Joined(q[m], q[m + 1]), Join(SubSeq(q, a, b)))
    BY <1>4, <2>3, WindowHolds DEF n
  <2>5. Join(SubSeq(q, k, k + 1)) = Joined(q[k], q[k + 1])
    BY <1>4, JoinPair DEF n
  <2>6. Within(Join(SubSeq(q, k, k + 1)), Join(SubSeq(q, a, b)))
    BY <2>3, <2>4, <2>5
  <2>7. QED
    BY <2>2, <2>6 DEF a, b
<1>9. QED
  BY <1>2, <1>7, <1>8 DEF q, chunk, n

-----------------------------------------------------------------------------
(* What RunQueries keeps between two queries: the baseline of a node is    *)
(* where the rows have left it, and that is its weight when it has just    *)
(* been reported or nothing was asked yet.                                 *)
Rolling ==
    /\ \A n \in Node : baseline[n] = reported[n]
    /\ pc = "open" => \A n \in Node : weight[n] = reported[n]
    /\ pc \in {"idle", "open"} => ~row.read /\ row.hits = {} /\ asked.hits = {}
    /\ pc = "ask" /\ row.read => \A h \in row.hits : baseline[h] = weight[h]

IndInv == ScoringTypeOK /\ Rolling

(* No node: the weights of a run that has not begun, or is over.           *)
LEMMA Empty == DOMAIN <<>> = {} /\ <<>> \in [DOMAIN <<>> -> Int]
BY SMT

(* The candidates and the hits of a Recall are nodes.                      *)
LEMMA SubsetsOfNodes ==
    ASSUME NEW S, NEW a, NEW b, NEW x \in UNION {kSubset(k, S) : k \in a..b}
    PROVE  x \subseteq S
BY DEF kSubset

(* What Recall does to the weights is typed.                               *)
LEMMA TouchTyped ==
    ASSUME ScoringAssumption, weight \in [Node -> Int], NEW nodes, Touch(nodes)
    PROVE  weight' \in [Node -> Int]
<1>1. PICK by \in [nodes -> Change] :
        weight' = [n \in Node |-> IF n \in nodes THEN weight[n] + by[n] ELSE weight[n]]
  BY DEF Touch
<1>2. \A n \in nodes : by[n] \in Int
  BY DEF ScoringAssumption
<1> QED BY <1>1, <1>2

(* The first state.                                                        *)
LEMMA InitInv == Init => IndInv
BY Empty DEF Init, IndInv, ScoringTypeOK, Rolling, Turn, Node, NoRow, NoQuery

(* The dataset's commands leave the run alone, and the labels unique.      *)
LEMMA DatasetInv ==
    ASSUME IndInv, Ingest \/ Generate \/ Put \/ PutFails
    PROVE  IndInv'
<1> USE DEF IndInv
<1>1. CASE Ingest
  BY <1>1 DEF Ingest, ScoringTypeOK, Rolling, Turn, Node
<1>2. CASE Generate
  BY <1>2 DEF Generate, ScoringTypeOK, Rolling, Turn, Node
<1>3. CASE Put
  <2>1. PICK t \in todo : PutLabel(QueryFor(t)) /\ todo' = todo \ {t}
    BY <1>3 DEF Put
  <2>2. /\ UNCHANGED <<text, setting, ingested, pc, chunks, weight, baseline, left, asked, row,
                       reported>>
    BY <1>3 DEF Put
  <2>3. QueryFor(t).gold \subseteq ingested
    BY DEF QueryFor, Distractor, Label, ScoringTypeOK
  <2>4. labels \subseteq labels' /\ labels' \subseteq labels \union {QueryFor(t)}
    BY <2>1 DEF PutLabel
  <2>5. \A l, m \in labels' : l.text = m.text => l = m
    BY <2>1 DEF PutLabel, ScoringTypeOK
  <2>6. ScoringTypeOK'
    BY <2>1, <2>2, <2>3, <2>4, <2>5 DEF ScoringTypeOK, Turn, Node
  <2>7. Rolling'
    BY <2>2 DEF Rolling, Node
  <2> QED BY <2>6, <2>7
<1>4. CASE PutFails
  BY <1>4 DEF PutFails, ScoringTypeOK, Rolling, Turn, Node
<1> QED BY <1>1, <1>2, <1>3, <1>4

(* The run begins: all its nodes are written, none was ever reported.      *)
LEMMA BeginInv ==
    ASSUME IndInv, Replay \/ Snapshot
    PROVE  IndInv'
<1> USE DEF IndInv
<1>1. CASE Replay
  <2> DEFINE new == NodeOf(ingested)
  <2>1. /\ chunks' = [n \in new |-> Chunkify(text[n[1]], setting)[n[2]]]
        /\ weight' = [n \in new |-> 0]
        /\ baseline' = [n \in new |-> 0]
        /\ reported' = [n \in new |-> 0]
        /\ UNCHANGED <<corpus, left, asked, row>>
        /\ pc = "idle" /\ pc' = "open"
    BY <1>1 DEF Replay
  <2> HIDE DEF new
  <2>2. Node' = new
    BY <2>1 DEF Node
  <2>3. asked.hits = {} /\ row.hits = {} /\ ~row.read
    BY <2>1 DEF Rolling
  <2> QED BY <2>1, <2>2, <2>3 DEF ScoringTypeOK, Rolling, Turn, corpus
<1>2. CASE Snapshot
  BY <1>2 DEF Snapshot, corpus, ScoringTypeOK, Rolling, Turn, Node
<1> QED BY <1>1, <1>2

(* A query: Recall changes weights, and the baseline stays.                *)
LEMMA AskInv ==
    ASSUME IndInv, Recall \/ RecallFails
    PROVE  IndInv'
<1> USE DEF IndInv
<1>0. weight \in [Node -> Int]
  BY DEF ScoringTypeOK
<1>1. CASE Recall
  <2> DEFINE drawn == kSubset(Sought, Node)
             ranked == UNION {kSubset(k, Node) : k \in 1..Min({K, Cardinality(Node)})}
  <2>a. PICK l \in left :
          /\ left' = left \ {l}
          /\ \E candidates \in drawn :
                /\ Touch(candidates)
                /\ \E hits \in ranked :
                      asked' = [label |-> l, hits |-> hits, before |-> weight]
    BY <1>1 DEF Recall
  <2>b. PICK nodes \in drawn :
          /\ Touch(nodes)
          /\ \E hits \in ranked : asked' = [label |-> l, hits |-> hits, before |-> weight]
    BY <2>a
  <2>1. PICK hits \in ranked : asked' = [label |-> l, hits |-> hits, before |-> weight]
    BY <2>b
  <2>2. /\ pc = "ask" /\ pc' = "read" /\ row' = NoRow
        /\ UNCHANGED <<corpus, chunks, baseline, reported>>
    BY <1>1 DEF Recall
  <2>3. weight' \in [Node -> Int]
    BY <2>b, <1>0, TouchTyped, ScoringAssumption
  <2>4. hits \subseteq Node
    BY SubsetsOfNodes
  <2>5. ScoringTypeOK'
    BY <2>a, <2>1, <2>2, <2>3, <2>4 DEF ScoringTypeOK, Turn, Node, corpus, NoRow
  <2>6. Rolling'
    BY <2>2 DEF Rolling, Node
  <2> QED BY <2>5, <2>6
<1>2. CASE RecallFails
  <2>1. PICK nodes : Touch(nodes)
    BY <1>2 DEF RecallFails
  <2>2. /\ pc = "ask" /\ pc' = pc /\ row' = NoRow
        /\ left' \subseteq left
        /\ UNCHANGED <<corpus, chunks, baseline, asked, reported>>
    BY <1>2 DEF RecallFails
  <2>3. weight' \in [Node -> Int]
    BY <2>1, <1>0, TouchTyped, ScoringAssumption
  <2>4. ScoringTypeOK'
    BY <2>2, <2>3 DEF ScoringTypeOK, Turn, Node, corpus, NoRow
  <2>5. Rolling'
    BY <2>2 DEF Rolling, Node, NoRow
  <2> QED BY <2>4, <2>5
<1> QED BY <1>1, <1>2

(* Its row: the hits are reported up to their weights, which become the    *)
(* baseline; or nothing is reported and the baseline stays.                *)
LEMMA RowInv ==
    ASSUME IndInv, ReadStates \/ ReadFails
    PROVE  IndInv'
<1> USE DEF IndInv
<1>1. CASE ReadStates
  <2>1. /\ pc' = "ask"
        /\ reported' = [n \in Node |-> IF n \in asked.hits
                                       THEN reported[n] + (weight[n] - baseline[n])
                                       ELSE reported[n]]
        /\ baseline' = [n \in Node |-> IF n \in asked.hits THEN weight[n] ELSE baseline[n]]
        /\ asked' = NoQuery
        /\ UNCHANGED <<corpus, chunks, weight, left>>
    BY <1>1 DEF ReadStates, Report
  <2>2. row'.hits = asked.hits
    BY <1>1 DEF ReadStates, Compute
  <2>3. \A n \in Node : weight[n] \in Int /\ baseline[n] \in Int /\ reported[n] \in Int
    BY DEF ScoringTypeOK
  <2>4. ScoringTypeOK'
    BY <2>1, <2>2, <2>3 DEF ScoringTypeOK, Turn, Node, corpus, NoQuery
  <2>5. \A n \in Node : baseline'[n] = reported'[n]
    BY <2>1, <2>3 DEF Rolling
  <2>6. \A h \in asked.hits : h \in Node /\ baseline'[h] = weight'[h]
    BY <2>1 DEF ScoringTypeOK
  <2>7. Rolling'
    BY <2>1, <2>2, <2>5, <2>6 DEF Rolling, Node
  <2> QED BY <2>4, <2>7
<1>2. CASE ReadFails
  <2>1. /\ pc' = "ask"
        /\ asked' = NoQuery
        /\ UNCHANGED <<corpus, chunks, weight, baseline, left, reported>>
    BY <1>2 DEF ReadFails
  <2>2. row'.hits = asked.hits /\ row'.read = FALSE
    BY <1>2 DEF ReadFails, Compute
  <2>3. ScoringTypeOK'
    BY <2>1, <2>2 DEF ScoringTypeOK, Turn, Node, corpus, NoQuery
  <2>4. Rolling'
    BY <2>1, <2>2 DEF Rolling, Node
  <2> QED BY <2>3, <2>4
<1> QED BY <1>1, <1>2

(* The end of the run.                                                     *)
LEMMA StopInv ==
    ASSUME IndInv, Stop
    PROVE  IndInv'
BY Empty DEF IndInv, Stop, corpus, ScoringTypeOK, Rolling, Turn, Node, NoRow, NoQuery

(* Every reachable state satisfies the inductive invariant.                *)
THEOREM Invariance == Spec => []IndInv
<1>1. Init => IndInv
  BY InitInv
<1>2. IndInv /\ [Next]_vars => IndInv'
  <2>1. CASE UNCHANGED vars
    BY <2>1 DEF vars, IndInv, ScoringTypeOK, Rolling, Turn, Node
  <2> QED BY <2>1, DatasetInv, BeginInv, AskInv, RowInv, StopInv DEF Next
<1> QED BY <1>1, <1>2, PTL DEF Spec

(* The run only asks queries of the dataset, about nodes it has written,   *)
(* and no two stored queries share a text.                                 *)
THEOREM TypeCorrect == Spec => []ScoringTypeOK
<1>1. IndInv => ScoringTypeOK
  BY DEF IndInv
<1> QED BY <1>1, Invariance, PTL

(* The rows of a run report every change of a hit's weight once, however   *)
(* many nodes, queries and failures there are.                             *)
THEOREM ReportedOnce == Spec => []CountedOnce
<1>1. IndInv => CountedOnce
  BY DEF IndInv, Rolling, ScoringTypeOK, CountedOnce
<1> QED BY <1>1, Invariance, PTL

-----------------------------------------------------------------------------
(* The texts of the run: they and the setting are those of the corpus, and *)
(* a query is labelled with turns of the dataset.                          *)
Given ==
    /\ text \in Corpora
    /\ setting \in Settings
    /\ asked.label.gold \subseteq ingested

(* An ingested turn has a text.                                            *)
LEMMA TurnText ==
  ASSUME Given, ingested \subseteq Turn, NEW t \in ingested
  PROVE  /\ t # 0 /\ text[t] \in Seq(Token)
         /\ setting.window \in Int /\ setting.stride \in Int
<1>1. text \in Seq(Text) /\ text \in Corpora
  BY ScoringAssumption DEF Given, Text
<1>2. t \in DOMAIN text /\ DOMAIN text = 1..Len(text) /\ Len(text) \in Nat
  BY <1>1 DEF Turn
<1>3. setting.window \in Int /\ setting.stride \in Int
  BY ScoringAssumption DEF Given
<1>4. QED
  BY <1>1, <1>2, <1>3 DEF Text

(* Replay writes chunks that lose nothing.                                 *)
LEMMA ReplayHolds ==
  ASSUME Given, ingested \subseteq Turn, Replay
  PROVE  NothingLost'
<1> DEFINE C == [n \in NodeOf(ingested) |-> Chunkify(text[n[1]], setting)[n[2]]]
<1>1. chunks' = C /\ text' = text /\ setting' = setting /\ ingested' = ingested
  BY DEF Replay, corpus
<1>2. ASSUME NEW t \in ingested, NEW i \in DOMAIN Chunkify(text[t], setting)
      PROVE  <<t, i>> \in DOMAIN C /\ C[<<t, i>>] = Chunkify(text[t], setting)[i]
  <2>1. <<t, i>> \in NodeOf(ingested)
    BY DEF NodeOf
  <2>2. C[<<t, i>>] = Chunkify(text[t], setting)[i]
    BY <2>1
  <2>3. QED
    BY <2>1, <2>2
<1>3. ASSUME NEW t \in ingested, NEW s, NEW i \in DOMAIN Chunkify(text[t], setting),
             Within(s, Chunkify(text[t], setting)[i])
      PROVE  \E n \in DOMAIN C : n[1] = t /\ Within(s, C[n])
  <2>1. <<t, i>>[1] = t
    OBVIOUS
  <2> HIDE DEF C
  <2>2. QED
    BY <1>2, <1>3, <2>1
<1> HIDE DEF C
<1> DEFINE InC(t, s) == \E n \in DOMAIN C : n[1] = t /\ Within(s, C[n])
<1>4. ASSUME NEW t \in ingested
      PROVE  LET q == SplitSentences(text[t])
             IN  /\ Words(Join(q)) = Words(text[t])
                 /\ \A i \in DOMAIN q : InC(t, q[i])
                 /\ Stride(setting) < Window(setting) =>
                       \A i \in 1..(Len(q) - 1) : InC(t, Join(SubSeq(q, i, i + 1)))
  <2> DEFINE x == text[t]
             q == SplitSentences(x)
             chunk == Chunkify(x, setting)
  <2>1. x \in Seq(Token) /\ setting.window \in Int /\ setting.stride \in Int
    BY TurnText
  <2>2. \A s : \A i \in DOMAIN chunk : Within(s, chunk[i]) => InC(t, s)
    BY <1>3
  <2> HIDE DEF x, InC
  <2>3. /\ Split(q, x)
        /\ Words(Join(q)) = Words(x)
        /\ \A k \in 1..Len(q) : \E i \in DOMAIN chunk : Within(q[k], chunk[i])
        /\ Stride(setting) < Window(setting) =>
              \A k \in 1..(Len(q) - 1) : \E i \in DOMAIN chunk :
                 Within(Join(SubSeq(q, k, k + 1)), chunk[i])
    BY <2>1, ChunkingKeepsText
  <2> HIDE DEF q, chunk
  <2>4. DOMAIN q = 1..Len(q)
    BY <2>3 DEF Split
  <2>5. QED
    BY <2>2, <2>3, <2>4 DEF x, q
<1>5. \A t, s : Holds(t, s)' <=> InC(t, s)
  BY <1>1 DEF Holds, Node
<1> HIDE DEF InC
<1>6. QED
  BY <1>1, <1>4, <1>5 DEF NothingLost

(* What the properties of the texts are about changes in few steps.        *)
LEMMA Still ==
  ASSUME [Next]_vars
  PROVE  /\ text' = text /\ setting' = setting /\ ingested \subseteq ingested'
         /\ \/ Replay
            \/ UNCHANGED <<chunks, ingested, pc>>
            \/ pc' # "open"
<1>1. CASE UNCHANGED vars
  BY <1>1 DEF vars
<1>2. CASE Ingest \/ Generate \/ Put \/ PutFails
  BY <1>2 DEF Ingest, Generate, Put, PutFails
<1>3. CASE Replay \/ Snapshot
  BY <1>3 DEF Replay, Snapshot, corpus
<1>4. CASE Recall \/ RecallFails
  BY <1>4 DEF Recall, RecallFails, corpus
<1>5. CASE ReadStates \/ ReadFails
  BY <1>5 DEF ReadStates, ReadFails, corpus
<1>6. CASE Stop
  BY <1>6 DEF Stop, corpus
<1>7. QED
  BY <1>1, <1>2, <1>3, <1>4, <1>5, <1>6 DEF Next

(* Queries under way are stored ones.                                      *)
LEMMA GivenNext ==
  ASSUME IndInv, Given, [Next]_vars
  PROVE  Given'
<1>1. text' \in Corpora /\ setting' \in Settings
  BY Still DEF Given
<1>2. ingested \subseteq ingested'
  BY Still
<1>3. asked'.label.gold \subseteq ingested
  <2>1. CASE Recall
    <3> DEFINE drawn == kSubset(Sought, Node)
               ranked == UNION {kSubset(k, Node) : k \in 1..Min({K, Cardinality(Node)})}
    <3>1. PICK l \in left : \E candidates \in drawn :
                /\ Touch(candidates)
                /\ \E hits \in ranked :
                      asked' = [label |-> l, hits |-> hits, before |-> weight]
      BY <2>1 DEF Recall
    <3>2. PICK hits \in ranked : asked' = [label |-> l, hits |-> hits, before |-> weight]
      BY <3>1
    <3>3. l \in labels
      BY DEF IndInv, ScoringTypeOK
    <3>4. l.gold \subseteq ingested
      BY <3>3 DEF IndInv, ScoringTypeOK
    <3>5. QED
      BY <3>2, <3>4
  <2>2. CASE asked' = NoQuery
    BY <2>2 DEF NoQuery, Distractor, Label
  <2>3. CASE asked' = asked
    BY <2>3 DEF Given
  <2>4. QED
    BY <2>1, <2>2, <2>3 DEF Next, vars, corpus, Ingest, Generate, Put, PutFails, Replay, Snapshot,
         RecallFails, ReadStates, ReadFails, Stop
<1>4. QED
  BY <1>1, <1>2, <1>3 DEF Given

(* Only Replay writes chunks, and turns are ingested before it only.       *)
LEMMA NothingLostNext ==
  ASSUME IndInv, Given, NothingLost, [Next]_vars
  PROVE  NothingLost'
<1>0. ingested \subseteq Turn
  BY DEF IndInv, ScoringTypeOK
<1>1. CASE Replay
  BY <1>0, <1>1, ReplayHolds
<1>2. CASE pc' # "open"
  BY <1>2 DEF NothingLost
<1>3. CASE UNCHANGED <<text, setting, chunks, ingested, pc>>
  <2>1. \A t, s : Holds(t, s)' <=> Holds(t, s)
    BY <1>3 DEF Holds, Node
  <2>2. QED
    BY <1>3, <2>1 DEF NothingLost
<1>4. text' = text /\ setting' = setting
      /\ (Replay \/ UNCHANGED <<chunks, ingested, pc>> \/ pc' # "open")
  BY Still
<1>5. QED
  BY <1>1, <1>2, <1>3, <1>4

(* A hit of one sentence that stands in one turn resolves to that turn.    *)
LEMMA SentenceResolves ==
  ASSUME Given, ingested \subseteq Turn, NEW h, Unique(h), NEW t \in ingested, SentenceOf(h, t)
  PROVE  Resolved(h) = {t}
<1> DEFINE x == text[t]
           q == SplitSentences(x)
<1>1. x \in Seq(Token) /\ setting.window \in Int /\ setting.stride \in Int
  BY TurnText
<1> HIDE DEF x
<1>2. Split(q, x)
  BY <1>1, ChunkingKeepsText
<1>3. h[1] = t /\ \E k \in 1..Len(q) : chunks[h] = q[k]
  <2>1. DOMAIN q = 1..Len(q)
    BY <1>2 DEF Split
  <2>2. QED
    BY <2>1 DEF SentenceOf, ToSet, x
<1>4. Within(chunks[h], text[t])
  BY <1>2, <1>3 DEF Split, x
<1>5. \A u \in ingested : u # t => ~Within(chunks[h], text[u])
  BY <1>3 DEF Unique
<1>6. t \in Known
  <2>1. \A u \in ingested : u # t => text[u] # text[t]
    BY <1>4, <1>5
  <2>2. ~(t > t)
    <3>1. t \in 1..Len(text) /\ Len(text) \in Nat
      BY ScoringAssumption DEF Given, Turn
    <3>2. QED
      BY <3>1
  <2>3. QED
    BY <2>1, <2>2 DEF Known
<1>7. \A u \in Known : u \in ingested
  BY DEF Known
<1>8. QED
  BY <1>4, <1>5, <1>6, <1>7 DEF Resolved

(* A row is computed from the turns that its hits resolve to.              *)
LEMMA FlagsRightNext ==
  ASSUME IndInv, Given, FlagsRight, [Next]_vars
  PROVE  FlagsRight'
<1>0. ingested \subseteq Turn
  BY DEF IndInv, ScoringTypeOK
<1>1. CASE ReadStates \/ ReadFails
  <2>1. PICK read \in BOOLEAN : Compute(read)
    BY <1>1 DEF ReadStates, ReadFails
  <2>2. chunks' = chunks /\ text' = text /\ ingested' = ingested
    BY <1>1 DEF ReadStates, ReadFails, corpus
  <2>3. PICK turn \in [asked.hits -> Turn \union {0}] :
        /\ \A h \in asked.hits :
              IF Resolved(h) = {} THEN turn[h] = 0 ELSE turn[h] \in Resolved(h)
        /\ row' = [gold  |-> asked.label.gold,
                   hits  |-> asked.hits,
                   flags |-> [h \in asked.hits |-> turn[h] \in asked.label.gold],
                   read  |-> read]
    BY <2>1 DEF Compute
  <2> DEFINE gold == asked.label.gold
  <2>4. gold \subseteq ingested /\ 0 \notin gold
    <3>1. gold \subseteq ingested
      BY DEF Given
    <3>2. 0 \notin ingested
      BY <1>0, TurnText
    <3>3. QED
      BY <3>1, <3>2
  <2>5. row'.hits = asked.hits /\ row'.gold = gold
        /\ \A h \in asked.hits : row'.flags[h] = (turn[h] \in gold)
    BY <2>3
  <2> HIDE DEF gold
  <2>6. ASSUME NEW h \in asked.hits, turn[h] \in gold
        PROVE  \E t \in gold : Within(chunks[h], text[t])
    <3>1. turn[h] \in Resolved(h)
      BY <2>3, <2>4, <2>6
    <3>2. QED
      BY <2>6, <3>1 DEF Resolved
  <2>7. ASSUME NEW h \in asked.hits, Unique(h), NEW t \in gold, SentenceOf(h, t)
        PROVE  turn[h] \in gold
    <3>1. t \in ingested
      BY <2>4
    <3>2. Resolved(h) = {t}
      BY <1>0, <2>7, <3>1, SentenceResolves
    <3>3. turn[h] = t
      BY <2>3, <3>2
    <3>4. QED
      BY <3>3
  <2>8. \A h : (Unique(h)' <=> Unique(h)) /\ \A t : SentenceOf(h, t)' <=> SentenceOf(h, t)
    BY <2>2 DEF Unique, SentenceOf
  <2>9. QED
    BY <2>2, <2>5, <2>6, <2>7, <2>8 DEF FlagsRight
<1>2. CASE row'.hits = {}
  BY <1>2 DEF FlagsRight
<1>3. CASE UNCHANGED <<text, chunks, ingested, row>>
  BY <1>3 DEF FlagsRight, Unique, SentenceOf
<1>4. QED
  BY <1>1, <1>2, <1>3 DEF Next, vars, corpus, Ingest, Generate, Put, PutFails, Replay, Snapshot,
     Recall, RecallFails, Stop, NoRow, IndInv, Rolling

(* The texts stay as they are given, whatever the run does.                *)
THEOREM TextInvariance == Spec => [](Given /\ NothingLost /\ FlagsRight)
<1> DEFINE Inv == Given /\ NothingLost /\ FlagsRight
<1>1. Init => Inv
  BY DEF Init, Given, NothingLost, FlagsRight, NoQuery, NoRow, Distractor, Label
<1>2. IndInv /\ Inv /\ [Next]_vars => Inv'
  BY GivenNext, NothingLostNext, FlagsRightNext
<1> HIDE DEF Inv
<1>3. Spec => []Inv
  BY <1>1, <1>2, Invariance, PTL DEF Spec
<1> QED BY <1>3 DEF Inv

(* However the window and the stride are set and whatever the texts are,   *)
(* what a run writes of a turn holds all of its words in order, each of    *)
(* its sentences whole, and where windows overlap each pair of neighbours. *)
THEOREM TextsAreWhole == Spec => []NothingLost
BY TextInvariance, PTL

(* A hit counts only if its text is part of a turn the query is labelled   *)
(* with, and a hit that is a sentence of such a turn alone always counts.  *)
THEOREM HitsAreJudged == Spec => []FlagsRight
BY TextInvariance, PTL
=============================================================================
