------------------------ MODULE ProtocolCallsProofs ------------------------
(***************************************************************************)
(* Theorems about ProtocolCalls, for every template file, list of inputs   *)
(* and set of strings: a DB_CUSTOM_V3 statement is its template with the   *)
(* inputs put in, if text follows every place of it; what V3 and procedure *)
(* calls should check before they execute it is checked; and no random     *)
(* string is answered twice.                                               *)
(*                                                                         *)
(* Splitting, scanning and drawing are recursive functions.  That they are *)
(* defined everywhere is shown first (Recursion, BackRecursion); what they *)
(* compute, by induction over sets of numbers and of sequences.  A list of *)
(* texts and places means the list in which every text is scanned for the  *)
(* inputs that were not split yet (Mean): each split keeps the meaning.    *)
(***************************************************************************)
EXTENDS ProtocolCalls, SequenceTheorems, FiniteSetTheorems, WellFoundedInduction, TLAPS

-----------------------------------------------------------------------------
(* Induction and recursion over numbers.                                   *)

LEMMA LeastOf ==
    ASSUME NEW B, B \subseteq Nat, B # {}
    PROVE  \E m \in B : \A k \in B : m <= k
<1>1. PICK m \in B : \A k \in B : ~ (<<k, m>> \in OpToRel(<, Nat))
  BY NatLessThanWellFounded, WFMin
<1>2. ASSUME NEW k \in B PROVE m <= k
  <2>1. ~(k < m)
    BY <1>1 DEF OpToRel
  <2> QED
    BY <2>1
<1> QED
  BY <1>2

LEMMA StrongInduction ==
    ASSUME NEW n \in Nat, NEW T,
           \A k \in 0..n : (\A j \in 0..k - 1 : j \in T) => k \in T
    PROVE  0..n \subseteq T
<1> DEFINE B == (0..n) \ T
<1>1. SUFFICES ASSUME B # {} PROVE FALSE
  OBVIOUS
<1>2. PICK m \in B : \A k \in B : m <= k
  <2>1. B \subseteq Nat
    OBVIOUS
  <2> HIDE DEF B
  <2> QED
    BY <1>1, <2>1, LeastOf
<1>3. \A j \in 0..m - 1 : j \in T
  BY <1>2
<1> QED
  BY <1>2, <1>3

LEMMA Induction ==
    ASSUME NEW n \in Nat, NEW T, 0 \in T, \A k \in 0..n - 1 : k \in T => k + 1 \in T
    PROVE  0..n \subseteq T
<1>1. ASSUME NEW k \in 0..n, \A j \in 0..k - 1 : j \in T PROVE k \in T
  <2>1. CASE k = 0
    BY <2>1
  <2>2. CASE k > 0
    <3>1. k - 1 \in 0..n - 1 /\ k - 1 \in 0..k - 1 /\ (k - 1) + 1 = k
      BY <2>2
    <3> QED
      BY <1>1, <3>1
  <2> QED
    BY <2>1, <2>2
<1> QED
  BY <1>1, StrongInduction

LEMMA DownInduction ==
    ASSUME NEW n \in Nat, NEW T,
           \A k \in 1..n : (\A j \in k + 1..n : j \in T) => k \in T
    PROVE  1..n \subseteq T
<1> DEFINE R == {k \in Nat : k = 0 \/ n + 1 - k \in T}
<1>1. ASSUME NEW k \in 0..n, \A j \in 0..k - 1 : j \in R PROVE k \in R
  <2>1. CASE k = 0
    BY <2>1
  <2>2. CASE k > 0
    <3>1. ASSUME NEW j \in n + 1 - k + 1..n PROVE j \in T
      <4>1. n + 1 - j \in 0..k - 1 /\ n + 1 - j # 0 /\ n + 1 - (n + 1 - j) = j
        BY <2>2
      <4> QED
        BY <1>1, <4>1
    <3>2. n + 1 - k \in 1..n /\ n + 1 - k + 1 = (n + 1 - k) + 1
      BY <2>2
    <3>3. n + 1 - k \in T
      BY <3>1, <3>2
    <3> QED
      BY <3>3
  <2> QED
    BY <2>1, <2>2
<1>2. 0..n \subseteq R
  <2> HIDE DEF R
  <2> QED
    BY <1>1, StrongInduction
<1>3. ASSUME NEW k \in 1..n PROVE k \in T
  <2>1. n + 1 - k \in 0..n /\ n + 1 - k # 0 /\ n + 1 - (n + 1 - k) = k
    OBVIOUS
  <2> QED
    BY <1>2, <2>1
<1> QED
  BY <1>3

\* There is a function whose values are made of earlier ones: the value at k
\* of the one at prev[k], by h[k].
Steps(n, S) == [1..n -> [S -> S]]
Backs(n) == {prev \in [1..n -> 0..n] : \A k \in 1..n : prev[k] < k}
Obeys(f, n, a, h, prev) == f[0] = a /\ \A k \in 1..n : f[k] = h[k][f[prev[k]]]
Values(n, S) == [0..n -> S]

LEMMA Recursion ==
    ASSUME NEW n \in Nat, NEW S, NEW a \in S, NEW h \in Steps(n, S), NEW prev \in Backs(n)
    PROVE  \E f \in Values(n, S) : Obeys(f, n, a, h, prev)
<1> DEFINE T == {k \in 0..n : \E f \in [0..k -> S] :
                     f[0] = a /\ \A i \in 1..k : f[i] = h[i][f[prev[i]]]}
<1>1. 0 \in T
  <2> DEFINE f == [i \in 0..0 |-> a]
  <2>1. f \in [0..0 -> S] /\ f[0] = a /\ 1..0 = {} /\ 0 \in 0..n
    OBVIOUS
  <2> HIDE DEF f
  <2> QED
    BY <2>1
<1>2. ASSUME NEW k \in 0..n - 1, k \in T PROVE k + 1 \in T
  <2>1. PICK f \in [0..k -> S] : f[0] = a /\ \A i \in 1..k : f[i] = h[i][f[prev[i]]]
    BY <1>2
  <2>2. k + 1 \in 1..n /\ prev[k + 1] \in 0..k
    BY <1>2 DEF Backs
  <2> DEFINE v == h[k + 1][f[prev[k + 1]]]
             g == [i \in 0..k + 1 |-> IF i = k + 1 THEN v ELSE f[i]]
  <2>3. v \in S
    BY <2>1, <2>2 DEF Steps
  <2>4. g \in [0..k + 1 -> S]
    BY <2>1, <2>3
  <2>5. g[0] = a
    BY <2>1, <1>2
  <2>6. ASSUME NEW i \in 1..k + 1 PROVE g[i] = h[i][g[prev[i]]]
    <3>1. i \in 1..n /\ prev[i] \in 0..k /\ g[prev[i]] = f[prev[i]]
      BY <1>2 DEF Backs
    <3>2. CASE i = k + 1
      BY <3>1, <3>2
    <3>3. CASE i # k + 1
      <4>1. i \in 1..k /\ g[i] = f[i]
        BY <3>3
      <4>2. f[i] = h[i][f[prev[i]]]
        BY <2>1, <4>1
      <4> HIDE DEF g
      <4> QED
        BY <3>1, <4>1, <4>2
    <3> QED
      BY <3>2, <3>3
  <2>7. k + 1 \in 0..n
    BY <1>2
  <2> HIDE DEF g, v
  <2> QED
    BY <2>4, <2>5, <2>6, <2>7
<1>3. 0..n \subseteq T
  <2> HIDE DEF T
  <2> QED
    BY <1>1, <1>2, Induction
<1> QED
  BY <1>3 DEF Values, Obeys

\* The same from the other end.
Forths(n) == {next \in [1..n -> 1..n + 1] : \A k \in 1..n : next[k] > k}
ObeysBack(f, n, a, h, next) == f[n + 1] = a /\ \A k \in 1..n : f[k] = h[k][f[next[k]]]
BackValues(n, S) == [1..n + 1 -> S]

LEMMA BackRecursion ==
    ASSUME NEW n \in Nat, NEW S, NEW a \in S, NEW h \in Steps(n, S), NEW next \in Forths(n)
    PROVE  \E f \in BackValues(n, S) : ObeysBack(f, n, a, h, next)
<1> DEFINE g == [k \in 1..n |-> h[n + 1 - k]]
           prev == [k \in 1..n |-> n + 1 - next[n + 1 - k]]
<1>1. g \in Steps(n, S)
  BY DEF Steps
<1>2. prev \in Backs(n)
  <2>1. ASSUME NEW k \in 1..n
        PROVE  n + 1 - next[n + 1 - k] \in 0..n /\ n + 1 - next[n + 1 - k] < k
    <3>1. n + 1 - k \in 1..n /\ next[n + 1 - k] \in 1..n + 1 /\ next[n + 1 - k] > n + 1 - k
      BY DEF Forths
    <3> QED
      BY <3>1
  <2> QED
    BY <2>1 DEF Backs
<1>3. PICK f \in Values(n, S) : Obeys(f, n, a, g, prev)
  <2> HIDE DEF g, prev
  <2> QED
    BY <1>1, <1>2, Recursion
<1> DEFINE b == [k \in 1..n + 1 |-> f[n + 1 - k]]
<1>4. b \in BackValues(n, S) /\ b[n + 1] = a
  BY <1>3 DEF Values, BackValues, Obeys
<1>5. ASSUME NEW k \in 1..n PROVE b[k] = h[k][b[next[k]]]
  <2>1. n + 1 - k \in 1..n /\ n + 1 - (n + 1 - k) = k /\ next[k] \in 1..n + 1
    BY DEF Forths
  <2>2. g[n + 1 - k] = h[k] /\ prev[n + 1 - k] = n + 1 - next[k] /\ b[next[k]] = f[n + 1 - next[k]]
    BY <2>1
  <2>3. b[k] = f[n + 1 - k]
    BY <2>1
  <2>4. f[n + 1 - k] = g[n + 1 - k][f[prev[n + 1 - k]]]
    BY <1>3, <2>1 DEF Obeys
  <2> HIDE DEF b, g, prev
  <2> QED
    BY <2>2, <2>3, <2>4
<1> HIDE DEF b
<1> QED
  BY <1>4, <1>5 DEF ObeysBack

-----------------------------------------------------------------------------
(* Concatenations.                                                         *)

\* The function of the definition of FlattenSeq is there.
LEMMA FlattenIs ==
    ASSUME NEW S, NEW ss \in Seq(Seq(S)), ss # <<>>
    PROVE  \E f \in [1..Len(ss) -> Seq(S)] :
              /\ f[1] = ss[1]
              /\ \A i \in 2..Len(ss) : f[i] = f[i - 1] \o ss[i]
              /\ FlattenSeq(ss) = f[Len(ss)]
<1> DEFINE n == Len(ss)
           h == [k \in 1..n |-> [s \in Seq(S) |-> s \o ss[k]]]
           prev == [k \in 1..n |-> k - 1]
<1>1. n \in Nat \ {0} /\ \A i \in 1..n : ss[i] \in Seq(S)
  OBVIOUS
<1>2. h \in Steps(n, Seq(S))
  BY <1>1 DEF Steps
<1>3. prev \in Backs(n)
  BY <1>1 DEF Backs
<1>4. <<>> \in Seq(S)
  OBVIOUS
<1>5. PICK g \in Values(n, Seq(S)) : Obeys(g, n, <<>>, h, prev)
  <2> HIDE DEF n, h, prev
  <2> QED
    BY <1>1, <1>2, <1>3, <1>4, Recursion
<1>6. ASSUME NEW k \in 1..n PROVE g[k] = g[k - 1] \o ss[k] /\ g[k] \in Seq(S)
  <2>1. k - 1 \in 0..n /\ k \in 0..n
    BY <1>1
  <2>2. g[k - 1] \in Seq(S) /\ g[k] \in Seq(S)
    BY <1>5, <2>1 DEF Values
  <2>3. prev[k] = k - 1 /\ h[k][g[k - 1]] = g[k - 1] \o ss[k]
    BY <2>2
  <2>4. g[k] = h[k][g[prev[k]]]
    BY <1>5 DEF Obeys
  <2> HIDE DEF h, prev
  <2> QED
    BY <2>2, <2>3, <2>4
<1>7. g[0] = <<>> /\ g[1] = ss[1]
  <2>1. g[0] = <<>>
    BY <1>5 DEF Obeys
  <2>2. 1 \in 1..n /\ 1 - 1 = 0
    BY <1>1
  <2>3. g[1] = g[0] \o ss[1] /\ ss[1] \in Seq(S)
    <3> HIDE DEF n, h, prev
    <3> QED
      BY <1>1, <1>6, <2>2
  <2>4. <<>> \o ss[1] = ss[1]
    BY <2>3
  <2> QED
    BY <2>1, <2>3, <2>4
<1> DEFINE F(f) == [i \in 1..Len(ss) |-> IF i = 1 THEN ss[i] ELSE f[i - 1] \o ss[i]]
           e == [i \in 1..n |-> g[i]]
           c == CHOOSE f : f = F(f)
<1>8. e = F(e)
  <2>1. ASSUME NEW i \in 1..n PROVE e[i] = IF i = 1 THEN ss[i] ELSE e[i - 1] \o ss[i]
    <3>1. CASE i = 1
      BY <1>7, <3>1
    <3>2. CASE i # 1
      <4>1. i - 1 \in 1..n
        BY <3>2
      <4>2. e[i - 1] = g[i - 1] /\ e[i] = g[i]
        BY <4>1
      <4> HIDE DEF e, h, prev, n
      <4> QED
        BY <1>6, <3>2, <4>2
    <3> QED
      BY <3>1, <3>2
  <2> QED
    BY <2>1
<1>9. c = F(c)
  <2> HIDE DEF e
  <2> QED
    BY <1>8
<1>10. FlattenSeq(ss) = c[Len(ss)]
  BY <1>1 DEF FlattenSeq
<1> HIDE DEF c
<1>11. c[1] = ss[1] /\ \A i \in 2..n : c[i] = c[i - 1] \o ss[i]
  <2>1. ASSUME NEW i \in 1..n PROVE c[i] = IF i = 1 THEN ss[i] ELSE c[i - 1] \o ss[i]
    BY <1>9
  <2>2. 1 \in 1..n /\ \A i \in 2..n : i \in 1..n /\ i # 1
    BY <1>1
  <2> QED
    BY <2>1, <2>2
<1> DEFINE T == {k \in 0..n : k = 0 \/ c[k] \in Seq(S)}
<1>12. ASSUME NEW k \in 0..n - 1, k \in T PROVE k + 1 \in T
  <2>1. CASE k = 0
    BY <1>1, <1>11, <2>1
  <2>2. CASE k # 0
    <3>1. k + 1 \in 2..n /\ k + 1 \in 0..n /\ (k + 1) - 1 = k /\ c[k] \in Seq(S) /\ ss[k + 1] \in Seq(S)
      BY <1>1, <1>12, <2>2
    <3>2. c[k + 1] = c[(k + 1) - 1] \o ss[k + 1]
      BY <1>11, <3>1
    <3>3. c[k + 1] \in Seq(S)
      <4>1. c[k + 1] = c[k] \o ss[k + 1]
        BY <3>1, <3>2
      <4> QED
        BY <3>1, <4>1
    <3> QED
      BY <3>1, <3>3
  <2> QED
    BY <2>1, <2>2
<1>13. 0..n \subseteq T
  <2>1. 0 \in T
    BY <1>1
  <2> HIDE DEF T, n
  <2> QED
    BY <1>1, <1>12, <2>1, Induction
<1>14. c \in [1..n -> Seq(S)]
  <2>1. ASSUME NEW k \in 1..n PROVE c[k] \in Seq(S)
    <3>1. k \in 0..n /\ k # 0
      BY <1>1
    <3>2. k \in T
      BY <1>13, <3>1
    <3> QED
      BY <3>1, <3>2
  <2>2. DOMAIN c = 1..n /\ c = [k \in 1..n |-> c[k]]
    BY <1>9
  <2> QED
    BY <2>1, <2>2
<1> QED
  BY <1>10, <1>11, <1>14

\* The same, for provers that lose their way among concatenations.
Concat(a, b) == a \o b

LEMMA Associates ==
    ASSUME NEW S, NEW a \in Seq(S), NEW b \in Seq(S), NEW c \in Seq(S)
    PROVE  Concat(Concat(a, b), c) = Concat(a, Concat(b, c))
  BY ConcatAssociative DEF Concat

\* Sequences from the empty one, element by element.
LEMMA SeqInduction ==
    ASSUME NEW S, NEW T, <<>> \in T,
           \A s \in Seq(S), e \in S : s \in T => Append(s, e) \in T
    PROVE  Seq(S) \subseteq T
<1> DEFINE B == {k \in Nat : \A s \in Seq(S) : Len(s) = k => s \in T}
<1>1. 0 \in B
  BY EmptySeq
<1>2. ASSUME NEW k \in Nat, k \in B PROVE k + 1 \in B
  <2>1. ASSUME NEW s \in Seq(S), Len(s) = k + 1 PROVE s \in T
    <3>1. PICK r \in Seq(S), e \in S : s = Append(r, e)
      BY <2>1, EmptySeq, SequenceEmptyOrAppend
    <3>2. Len(r) = k
      BY <2>1, <3>1, AppendProperties
    <3> QED
      BY <1>2, <3>1, <3>2
  <2> QED
    BY <2>1
<1>3. ASSUME NEW s \in Seq(S) PROVE s \in T
  <2>1. Len(s) \in Nat
    OBVIOUS
  <2>2. 0..Len(s) \subseteq B
    <3> HIDE DEF B
    <3>1. \A k \in 0..Len(s) - 1 : k \in B => k + 1 \in B
      BY <1>2
    <3> QED
      BY <1>1, <2>1, <3>1, Induction
  <2> QED
    BY <2>1, <2>2
<1> QED
  BY <1>3

LEMMA FlattenTyped ==
    ASSUME NEW S, NEW ss \in Seq(Seq(S))
    PROVE  FlattenSeq(ss) \in Seq(S)
<1>1. CASE ss = <<>>
  BY <1>1, EmptySeq DEF FlattenSeq
<1>2. CASE ss # <<>>
  <2>1. Len(ss) \in 1..Len(ss)
    BY <1>2, EmptySeq
  <2>2. PICK f \in [1..Len(ss) -> Seq(S)] : FlattenSeq(ss) = f[Len(ss)]
    BY <1>2, FlattenIs
  <2> QED
    BY <2>1, <2>2
<1> QED
  BY <1>1, <1>2

LEMMA FlattenEmpty == FlattenSeq(<<>>) = <<>>
  BY DEF FlattenSeq

LEMMA FlattenAppend ==
    ASSUME NEW S, NEW ss \in Seq(Seq(S)), NEW s \in Seq(S)
    PROVE  FlattenSeq(Append(ss, s)) = FlattenSeq(ss) \o s
<1> DEFINE n == Len(ss)
           t == Append(ss, s)
<1>1. /\ n \in Nat /\ t \in Seq(Seq(S)) /\ t # <<>> /\ Len(t) = n + 1
      /\ \A i \in 1..n : t[i] = ss[i]
      /\ t[n + 1] = s
  BY AppendProperties
<1>2. PICK f \in [1..n + 1 -> Seq(S)] :
         /\ f[1] = t[1]
         /\ \A i \in 2..n + 1 : f[i] = f[i - 1] \o t[i]
         /\ FlattenSeq(t) = f[n + 1]
  <2> HIDE DEF t
  <2>1. PICK f \in [1..Len(t) -> Seq(S)] :
           /\ f[1] = t[1]
           /\ \A i \in 2..Len(t) : f[i] = f[i - 1] \o t[i]
           /\ FlattenSeq(t) = f[Len(t)]
    BY <1>1, FlattenIs
  <2> QED
    BY <1>1, <2>1
<1>3. CASE ss = <<>>
  <2>1. n = 0
    BY <1>3
  <2>2. FlattenSeq(t) = s
    BY <1>1, <1>2, <2>1
  <2>3. FlattenSeq(ss) = <<>> /\ <<>> \o s = s
    BY <1>3, FlattenEmpty
  <2> QED
    BY <2>2, <2>3
<1>4. CASE ss # <<>>
  <2>1. n > 0
    BY <1>4, EmptySeq
  <2>2. PICK g \in [1..n -> Seq(S)] :
           /\ g[1] = ss[1]
           /\ \A i \in 2..n : g[i] = g[i - 1] \o ss[i]
           /\ FlattenSeq(ss) = g[n]
    BY <1>4, FlattenIs
  <2> DEFINE T == {k \in 0..n : k = 0 \/ f[k] = g[k]}
  <2>3. ASSUME NEW k \in 0..n - 1, k \in T PROVE k + 1 \in T
    <3>1. CASE k = 0
      BY <1>1, <1>2, <2>1, <2>2, <3>1
    <3>2. CASE k # 0
      <4>1. k + 1 \in 2..n /\ k + 1 \in 2..n + 1 /\ k + 1 \in 0..n /\ k + 1 \in 1..n
            /\ (k + 1) - 1 = k /\ f[k] = g[k]
        BY <1>1, <2>3, <3>2
      <4>2. f[k + 1] = f[(k + 1) - 1] \o t[k + 1]
        BY <1>2, <4>1
      <4>3. g[k + 1] = g[(k + 1) - 1] \o ss[k + 1]
        BY <2>2, <4>1
      <4>4. t[k + 1] = ss[k + 1]
        BY <1>1, <4>1
      <4>5. f[k + 1] = g[k + 1]
        BY <4>1, <4>2, <4>3, <4>4
      <4> QED
        BY <4>1, <4>5
    <3> QED
      BY <3>1, <3>2
  <2>4. 0..n \subseteq T
    <3>1. 0 \in T
      BY <1>1
    <3> HIDE DEF T, n
    <3> QED
      BY <1>1, <2>3, <3>1, Induction
  <2>5. f[n] = g[n]
    <3>1. n \in 0..n /\ n # 0
      BY <1>1, <2>1
    <3> HIDE DEF n
    <3> QED
      BY <2>4, <3>1
  <2>6. n + 1 \in 2..n + 1 /\ (n + 1) - 1 = n
    BY <1>1, <2>1
  <2>7. f[n + 1] = f[(n + 1) - 1] \o t[n + 1]
    BY <1>2, <2>6
  <2> QED
    BY <1>1, <1>2, <2>2, <2>5, <2>6, <2>7
<1> QED
  BY <1>3, <1>4

LEMMA FlattenOne ==
    ASSUME NEW S, NEW s \in Seq(S)
    PROVE  FlattenSeq(<<s>>) = s
<1>1. <<>> \in Seq(Seq(S)) /\ Append(<<>>, s) = <<s>>
  BY EmptySeq
<1>2. FlattenSeq(<<s>>) = <<>> \o s
  BY <1>1, FlattenAppend, FlattenEmpty
<1> QED
  BY <1>2, ConcatEmptySeq

LEMMA ConcatAppend ==
    ASSUME NEW S, NEW a \in Seq(S), NEW b \in Seq(S), NEW e \in S
    PROVE  a \o Append(b, e) = Append(a \o b, e)
<1>1. Append(b, e) = b \o <<e>> /\ <<e>> \in Seq(S)
  BY AppendIsConcat
<1>2. a \o b \in Seq(S)
  BY ConcatProperties
<1>3. Append(a \o b, e) = (a \o b) \o <<e>>
  BY <1>2, AppendIsConcat
<1> QED
  BY <1>1, <1>3, ConcatAssociative

LEMMA FlattenConcat ==
    ASSUME NEW S, NEW a \in Seq(Seq(S)), NEW b \in Seq(Seq(S))
    PROVE  FlattenSeq(a \o b) = FlattenSeq(a) \o FlattenSeq(b)
<1> DEFINE T == {c \in Seq(Seq(S)) : FlattenSeq(a \o c) = FlattenSeq(a) \o FlattenSeq(c)}
<1>1. <<>> \in T
  <2>1. a \o <<>> = a /\ <<>> \in Seq(Seq(S))
    BY ConcatEmptySeq, EmptySeq
  <2>2. FlattenSeq(a) \o <<>> = FlattenSeq(a)
    BY FlattenTyped, ConcatEmptySeq
  <2> QED
    BY <2>1, <2>2, FlattenEmpty
<1>2. ASSUME NEW c \in Seq(Seq(S)), NEW s \in Seq(S), c \in T PROVE Append(c, s) \in T
  <2>1. a \o Append(c, s) = Append(a \o c, s)
    <3>1. PICK R : R = Seq(S)
      OBVIOUS
    <3>2. a \in Seq(R) /\ c \in Seq(R) /\ s \in R
      BY <3>1
    <3> QED
      BY <3>2, ConcatAppend, SMTT(30)
  <2>2. a \o c \in Seq(Seq(S)) /\ Append(c, s) \in Seq(Seq(S))
    BY ConcatProperties, AppendProperties
  <2>3. FlattenSeq(a \o Append(c, s)) = FlattenSeq(a \o c) \o s
    BY <2>1, <2>2, FlattenAppend
  <2>4. FlattenSeq(Append(c, s)) = FlattenSeq(c) \o s
    BY FlattenAppend
  <2>5. FlattenSeq(a) \in Seq(S) /\ FlattenSeq(c) \in Seq(S)
    BY FlattenTyped
  <2>6. (FlattenSeq(a) \o FlattenSeq(c)) \o s = FlattenSeq(a) \o (FlattenSeq(c) \o s)
    BY <2>5, ConcatAssociative, SMTT(30)
  <2>7. FlattenSeq(a \o c) = FlattenSeq(a) \o FlattenSeq(c)
    BY <1>2
  <2> QED
    BY <2>2, <2>3, <2>4, <2>6, <2>7
<1>3. Seq(Seq(S)) \subseteq T
  <2> HIDE DEF T
  <2> QED
    BY <1>1, <1>2, SeqInduction
<1> QED
  BY <1>3

-----------------------------------------------------------------------------
(* Elements, and the lists that each element of a list stands for.         *)

Elements(a) == {a[i] : i \in 1..Len(a)}

LEMMA ElementsConcat ==
    ASSUME NEW S, NEW a \in Seq(S), NEW b \in Seq(S)
    PROVE  Elements(a \o b) = Elements(a) \cup Elements(b)
<1> DEFINE c == a \o b
<1>1. /\ Len(c) = Len(a) + Len(b) /\ Len(a) \in Nat /\ Len(b) \in Nat
      /\ \A i \in 1..Len(a) + Len(b) : c[i] = IF i <= Len(a) THEN a[i] ELSE b[i - Len(a)]
  BY ConcatProperties
<1> HIDE DEF c
<1>2. ASSUME NEW i \in 1..Len(c) PROVE c[i] \in Elements(a) \cup Elements(b)
  <2>1. CASE i <= Len(a)
    BY <1>1, <2>1 DEF Elements
  <2>2. CASE i > Len(a)
    <3>1. i - Len(a) \in 1..Len(b) /\ c[i] = b[i - Len(a)]
      BY <1>1, <2>2
    <3> QED
      BY <3>1 DEF Elements
  <2> QED
    BY <1>1, <2>1, <2>2
<1>3. ASSUME NEW i \in 1..Len(a) PROVE a[i] \in Elements(c)
  <2>1. i \in 1..Len(c) /\ c[i] = a[i]
    BY <1>1
  <2> QED
    BY <2>1 DEF Elements
<1>4. ASSUME NEW i \in 1..Len(b) PROVE b[i] \in Elements(c)
  <2>1. i + Len(a) \in 1..Len(a) + Len(b) /\ ~(i + Len(a) <= Len(a)) /\ (i + Len(a)) - Len(a) = i
    BY <1>1
  <2>2. i + Len(a) \in 1..Len(c) /\ c[i + Len(a)] = b[i]
    BY <1>1, <2>1
  <2> QED
    BY <2>2 DEF Elements
<1>5. Elements(c) \subseteq Elements(a) \cup Elements(b)
  BY <1>2 DEF Elements
<1>6. Elements(a) \subseteq Elements(c) /\ Elements(b) \subseteq Elements(c)
  BY <1>3, <1>4 DEF Elements
<1> QED
  BY <1>5, <1>6 DEF c

LEMMA ElementsOne == \A e : Elements(<<e>>) = {e}
<1>1. ASSUME NEW e PROVE Elements(<<e>>) = {e}
  <2>1. Len(<<e>>) = 1 /\ <<e>>[1] = e /\ 1..1 = {1}
    OBVIOUS
  <2> QED
    BY <2>1 DEF Elements
<1> QED
  BY <1>1

LEMMA ElementsNone == Elements(<<>>) = {}
  BY EmptySeq DEF Elements

Lists(D, S) == [D -> Seq(S)]
Flat(F, L) == FlattenSeq([i \in DOMAIN L |-> F[L[i]]])

LEMMA FlatAppend ==
    ASSUME NEW D, NEW S, NEW F \in Lists(D, S), NEW L \in Seq(D), NEW e \in D
    PROVE  Flat(F, Append(L, e)) = Flat(F, L) \o F[e]
<1> DEFINE M == [i \in DOMAIN L |-> F[L[i]]]
           A == Append(L, e)
           K == [i \in DOMAIN A |-> F[A[i]]]
<1>1. DOMAIN L = 1..Len(L) /\ Len(L) \in Nat /\ \A i \in 1..Len(L) : L[i] \in D
  OBVIOUS
<1>2. /\ A \in Seq(D) /\ Len(A) = Len(L) + 1 /\ A[Len(L) + 1] = e
      /\ \A i \in 1..Len(L) : A[i] = L[i]
  BY AppendProperties
<1>3. M \in Seq(Seq(S)) /\ Len(M) = Len(L)
  <2>1. M = [i \in 1..Len(L) |-> F[L[i]]] /\ \A i \in 1..Len(L) : F[L[i]] \in Seq(S)
    BY <1>1 DEF Lists
  <2> QED
    BY <1>1, <2>1
<1>4. F[e] \in Seq(S)
  BY DEF Lists
<1>5. K = Append(M, F[e])
  <2>1. DOMAIN A = 1..Len(L) + 1
    BY <1>2
  <2>2. Append(M, F[e]) \in Seq(Seq(S)) /\ Len(Append(M, F[e])) = Len(L) + 1
        /\ Append(M, F[e])[Len(L) + 1] = F[e] /\ \A i \in 1..Len(L) : Append(M, F[e])[i] = M[i]
    <3> HIDE DEF M
    <3> QED
      BY <1>3, <1>4, AppendProperties
  <2>3. \A i \in 1..Len(L) + 1 : i \in 1..Len(L) \/ i = Len(L) + 1
    BY <1>1
  <2>4. ASSUME NEW i \in 1..Len(L) + 1 PROVE F[A[i]] = Append(M, F[e])[i]
    <3>1. CASE i \in 1..Len(L)
      <4>1. M[i] = F[L[i]]
        BY <1>1, <3>1
      <4> HIDE DEF M, A
      <4> QED
        BY <1>2, <2>2, <3>1, <4>1
    <3>2. CASE i = Len(L) + 1
      <4> HIDE DEF M, A
      <4> QED
        BY <1>2, <2>2, <3>2
    <3> QED
      BY <2>3, <3>1, <3>2
  <2>5. DOMAIN Append(M, F[e]) = 1..Len(L) + 1
    <3> HIDE DEF M
    <3> QED
      BY <2>2
  <2>6. Append(M, F[e]) = [i \in 1..Len(L) + 1 |-> Append(M, F[e])[i]]
    <3> HIDE DEF M
    <3> QED
      BY <2>2, <2>5
  <2> HIDE DEF M, A
  <2> QED
    BY <2>1, <2>4, <2>6
<1>6. FlattenSeq(Append(M, F[e])) = FlattenSeq(M) \o F[e]
  <2> HIDE DEF M
  <2> QED
    BY <1>3, <1>4, FlattenAppend
<1> QED
  BY <1>5, <1>6 DEF Flat

LEMMA FlatNone == \A F : Flat(F, <<>>) = <<>>
<1>1. ASSUME NEW F PROVE Flat(F, <<>>) = <<>>
  <2>1. [i \in DOMAIN <<>> |-> F[<<>>[i]]] = <<>>
    OBVIOUS
  <2> QED
    BY <2>1, FlattenEmpty DEF Flat
<1> QED
  BY <1>1

LEMMA FlatTyped ==
    ASSUME NEW D, NEW S, NEW F \in Lists(D, S), NEW L \in Seq(D)
    PROVE  Flat(F, L) \in Seq(S)
<1> DEFINE M == [i \in DOMAIN L |-> F[L[i]]]
<1>1. M \in Seq(Seq(S))
  <2>1. M = [i \in 1..Len(L) |-> F[L[i]]] /\ Len(L) \in Nat
        /\ \A i \in 1..Len(L) : F[L[i]] \in Seq(S)
    BY DEF Lists
  <2> QED
    BY <2>1
<1>2. FlattenSeq(M) \in Seq(S)
  <2> HIDE DEF M
  <2> QED
    BY <1>1, FlattenTyped
<1> QED
  BY <1>2 DEF Flat

LEMMA FlatOne ==
    ASSUME NEW D, NEW S, NEW F \in Lists(D, S), NEW e \in D
    PROVE  Flat(F, <<e>>) = F[e]
<1>1. <<>> \in Seq(D) /\ Append(<<>>, e) = <<e>>
  OBVIOUS
<1>2. Flat(F, <<e>>) = Flat(F, <<>>) \o F[e]
  BY <1>1, FlatAppend
<1>3. F[e] \in Seq(S)
  BY DEF Lists
<1>4. <<>> \o F[e] = F[e]
  BY <1>3, ConcatEmptySeq
<1> QED
  BY <1>2, <1>4, FlatNone

LEMMA FlatConcat ==
    ASSUME NEW D, NEW S, NEW F \in Lists(D, S), NEW a \in Seq(D), NEW b \in Seq(D)
    PROVE  Flat(F, Concat(a, b)) = Concat(Flat(F, a), Flat(F, b))
<1> DEFINE T == {c \in Seq(D) : Flat(F, a \o c) = Flat(F, a) \o Flat(F, c)}
<1>1. <<>> \in T
  <2>1. a \o <<>> = a /\ <<>> \in Seq(D)
    BY ConcatEmptySeq, EmptySeq
  <2>2. Flat(F, a) \o <<>> = Flat(F, a)
    BY FlatTyped, ConcatEmptySeq
  <2> QED
    BY <2>1, <2>2, FlatNone
<1>2. ASSUME NEW c \in Seq(D), NEW e \in D, c \in T PROVE Append(c, e) \in T
  <2>1. a \o Append(c, e) = Append(a \o c, e)
    BY ConcatAppend
  <2>2. a \o c \in Seq(D) /\ Append(c, e) \in Seq(D)
    BY ConcatProperties, AppendProperties
  <2>3. Flat(F, a \o Append(c, e)) = Flat(F, a \o c) \o F[e]
    BY <2>1, <2>2, FlatAppend
  <2>4. Flat(F, Append(c, e)) = Flat(F, c) \o F[e]
    BY FlatAppend
  <2>5. PICK p \in Seq(S), q \in Seq(S), r \in Seq(S) :
           p = Flat(F, a) /\ q = Flat(F, c) /\ r = F[e]
    BY FlatTyped DEF Lists
  <2>6. (p \o q) \o r = p \o (q \o r)
    <3>1. Concat(Concat(p, q), r) = Concat(p, Concat(q, r))
      BY Associates
    <3> QED
      BY <3>1 DEF Concat
  <2>7. Flat(F, a \o c) = p \o q
    BY <1>2, <2>5
  <2>8. Flat(F, a \o Append(c, e)) = Flat(F, a) \o Flat(F, Append(c, e))
    BY <2>3, <2>4, <2>5, <2>6, <2>7
  <2> QED
    BY <2>2, <2>8
<1>3. Seq(D) \subseteq T
  <2> HIDE DEF T
  <2> QED
    BY <1>1, <1>2, SeqInduction
<1>4. Flat(F, a \o b) = Flat(F, a) \o Flat(F, b)
  BY <1>3
<1> QED
  BY <1>4 DEF Concat

-----------------------------------------------------------------------------
(* Numbers and places in texts.                                            *)

LEMMA MaxIs ==
    ASSUME NEW n \in Nat, NEW A, A \subseteq 1..n, A # {}
    PROVE  Max(A) \in A /\ \A y \in A : Max(A) >= y
<1> DEFINE B == {k \in Nat : n - k \in A}
<1>1. B # {}
  <2>1. PICK y \in A : TRUE
    OBVIOUS
  <2>2. n - y \in B
    <3>1. n - y \in Nat /\ n - (n - y) = y
      BY <2>1
    <3> QED
      BY <3>1
  <2> QED
    BY <2>2
<1>2. PICK k \in B : \A j \in B : k <= j
  <2>1. B \subseteq Nat
    OBVIOUS
  <2> HIDE DEF B
  <2> QED
    BY <1>1, <2>1, LeastOf
<1>3. n - k \in A /\ \A y \in A : n - k >= y
  <2>1. ASSUME NEW y \in A PROVE n - k >= y
    <3>1. n - y \in Nat /\ n - (n - y) = y
      OBVIOUS
    <3> QED
      BY <1>2, <3>1
  <2> QED
    BY <2>1
<1> QED
  BY <1>3 DEF Max

LEMMA MinIs ==
    ASSUME NEW A, A \subseteq Nat, A # {}
    PROVE  Min(A) \in A /\ \A y \in A : Min(A) <= y
<1>1. PICK m \in A : \A y \in A : m <= y
  BY LeastOf
<1> QED
  BY <1>1 DEF Min

Figures == {"0", "1", "2", "3", "4", "5", "6", "7", "8", "9"}

LEMMA DecimalIs ==
    ASSUME NEW x \in Nat
    PROVE  Decimal(x) \in Seq(Figures) /\ Len(Decimal(x)) >= 1
<1> DEFINE S == {s \in Seq(Figures) : Len(s) >= 1}
           h == [y \in 1..x |-> [s \in S |-> IF y < 10 THEN <<Digits[y + 1]>>
                                             ELSE Append(s, Digits[(y % 10) + 1])]]
           prev == [y \in 1..x |-> IF y < 10 THEN 0 ELSE y \div 10]
           D(d) == [y \in 0..x |-> IF y < 10 THEN <<Digits[y + 1]>>
                                   ELSE Append(d[y \div 10], Digits[(y % 10) + 1])]
           c == CHOOSE d : d = D(d)
<1>1. \A y \in 1..10 : Digits[y] \in Figures
  BY DEF Digits, Figures
<1>2. ASSUME NEW y \in Nat
      PROVE  /\ (y % 10) + 1 \in 1..10
             /\ y >= 10 => y \div 10 \in 1..y - 1
             /\ y < 10 => y + 1 \in 1..10
  OBVIOUS
<1>3. h \in Steps(x, S)
  <2>1. ASSUME NEW y \in 1..x, NEW s \in S
        PROVE  (IF y < 10 THEN <<Digits[y + 1]>> ELSE Append(s, Digits[(y % 10) + 1])) \in S
    <3>1. CASE y < 10
      <4>1. Digits[y + 1] \in Figures
        BY <1>1, <1>2, <3>1
      <4> QED
        BY <3>1, <4>1
    <3>2. CASE ~(y < 10)
      <4>1. PICK e \in Figures : e = Digits[(y % 10) + 1]
        BY <1>1, <1>2
      <4>2. Append(s, e) \in Seq(Figures) /\ Len(Append(s, e)) = Len(s) + 1 /\ Len(s) >= 1
        BY AppendProperties
      <4>3. Append(s, e) \in S
        BY <4>2
      <4> QED
        BY <3>2, <4>1, <4>3
    <3> QED
      BY <3>1, <3>2
  <2> HIDE DEF S
  <2> QED
    BY <2>1 DEF Steps
<1>4. prev \in Backs(x)
  <2>1. ASSUME NEW y \in 1..x
        PROVE  (IF y < 10 THEN 0 ELSE y \div 10) \in 0..x
               /\ (IF y < 10 THEN 0 ELSE y \div 10) < y
    BY <1>2
  <2> QED
    BY <2>1 DEF Backs
<1>5. <<"0">> \in S
  BY DEF Figures
<1>6. PICK f \in Values(x, S) : Obeys(f, x, <<"0">>, h, prev)
  <2> HIDE DEF S, h, prev
  <2> QED
    BY <1>3, <1>4, <1>5, Recursion
<1>7. f = D(f)
  <2>1. ASSUME NEW y \in 1..x
        PROVE  f[y] = IF y < 10 THEN <<Digits[y + 1]>> ELSE Append(f[y \div 10], Digits[(y % 10) + 1])
    <3>1. prev[y] \in 0..x /\ f[prev[y]] \in S
      BY <1>4, <1>6 DEF Backs, Values
    <3>2. f[y] = h[y][f[prev[y]]]
      BY <1>6 DEF Obeys
    <3>3. \A s \in S : h[y][s] = IF y < 10 THEN <<Digits[y + 1]>> ELSE Append(s, Digits[(y % 10) + 1])
      <4> HIDE DEF S
      <4> QED
        OBVIOUS
    <3>4. f[y] = IF y < 10 THEN <<Digits[y + 1]>> ELSE Append(f[prev[y]], Digits[(y % 10) + 1])
      <4> HIDE DEF S, h, prev
      <4> QED
        BY <3>1, <3>2, <3>3
    <3>5. y >= 10 => prev[y] = y \div 10
      OBVIOUS
    <3> HIDE DEF S, h, prev
    <3> QED
      BY <3>4, <3>5
  <2>2. f[0] = <<Digits[0 + 1]>>
    BY <1>6 DEF Obeys, Digits
  <2>3. f \in [0..x -> S]
    BY <1>6 DEF Values
  <2>4. ASSUME NEW y \in 0..x
        PROVE  f[y] = IF y < 10 THEN <<Digits[y + 1]>> ELSE Append(f[y \div 10], Digits[(y % 10) + 1])
    <3>1. y = 0 \/ y \in 1..x
      OBVIOUS
    <3> HIDE DEF S, h, prev
    <3> QED
      BY <2>1, <2>2, <3>1
  <2> HIDE DEF S, h, prev
  <2> QED
    BY <2>3, <2>4
<1>8. c = D(c)
  <2> HIDE DEF S, h, prev
  <2> QED
    BY <1>7
<1>9. Decimal(x) = c[x]
  BY DEF Decimal
<1> HIDE DEF c
<1> DEFINE T == {y \in 0..x : c[y] \in S}
<1>10. ASSUME NEW y \in 0..x, \A z \in 0..y - 1 : z \in T PROVE y \in T
  <2>1. c[y] = IF y < 10 THEN <<Digits[y + 1]>> ELSE Append(c[y \div 10], Digits[(y % 10) + 1])
    BY <1>8
  <2>2. CASE y < 10
    <3>1. PICK e \in Figures : e = Digits[y + 1]
      BY <1>1, <1>2, <2>2
    <3>2. <<e>> \in S
      OBVIOUS
    <3>3. c[y] = <<e>>
      BY <2>1, <2>2, <3>1
    <3> HIDE DEF S
    <3> QED
      BY <3>2, <3>3
  <2>3. CASE y >= 10
    <3>1. PICK e \in Figures : e = Digits[(y % 10) + 1]
      BY <1>1, <1>2
    <3>2. c[y \div 10] \in S
      <4>1. y \div 10 \in 0..y - 1
        BY <1>2, <2>3
      <4> QED
        BY <1>10, <4>1
    <3>3. Append(c[y \div 10], e) \in S
      BY <3>2, AppendProperties
    <3>4. c[y] = Append(c[y \div 10], e)
      BY <2>1, <2>3, <3>1
    <3> HIDE DEF S
    <3> QED
      BY <3>3, <3>4
  <2> QED
    BY <2>2, <2>3
<1>11. 0..x \subseteq T
  <2> HIDE DEF T
  <2> QED
    BY <1>10, StrongInduction
<1> QED
  BY <1>9, <1>11

\* The symbols of texts, of the templates and of what is put in them.
Symbols == STRING \cup Figures \cup PlaceKinds \cup {Quote, "hash", "Invalid SteamID"}

\* A place of input x: its kind, and the figures of x after it.
Fits(s, i, x) ==
    /\ i \in 1..Len(s) /\ s[i] \in PlaceKinds
    /\ i + Len(Decimal(x)) <= Len(s)
    /\ \A j \in 1..Len(Decimal(x)) : s[i + j] = Decimal(x)[j]

LEMMA StartsIs ==
    ASSUME NEW s \in Seq(Symbols), NEW d \in Seq(Symbols), NEW i \in Nat \ {0}
    PROVE  StartsAt(s, i, d) <=> /\ i + Len(d) - 1 <= Len(s)
                                 /\ \A j \in 1..Len(d) : s[i + j - 1] = d[j]
<1> DEFINE m == i + Len(d) - 1
           u == SubSeq(s, i, m)
<1>1. SUFFICES ASSUME m <= Len(s)
               PROVE  u = d <=> \A j \in 1..Len(d) : s[i + j - 1] = d[j]
  BY DEF StartsAt
<1>2. m \in Int /\ \A j \in i..m : s[j] \in Symbols
  BY <1>1
<1>3. /\ u \in Seq(Symbols)
      /\ Len(u) = IF i <= m THEN m - i + 1 ELSE 0
      /\ \A j \in 1..m - i + 1 : u[j] = s[i + j - 1]
  <2> HIDE DEF m
  <2> QED
    BY <1>2, SubSeqProperties
<1>4. m - i + 1 = Len(d) /\ Len(d) \in Nat
  OBVIOUS
<1>5. Len(u) = Len(d)
  BY <1>3, <1>4
<1> HIDE DEF m, u
<1>6. u = d <=> \A j \in 1..Len(d) : u[j] = d[j]
  BY <1>3, <1>5, SeqEqual
<1> QED
  BY <1>3, <1>4, <1>6

LEMMA FiguresAre == Figures \subseteq Symbols /\ \A e \in Figures : e \notin PlaceKinds
<1>1. \A e \in Figures : e \notin PlaceKinds
  BY DEF Figures, PlaceKinds
<1> QED
  BY <1>1 DEF Symbols

LEMMA FoundFits ==
    ASSUME NEW s \in Seq(Symbols), NEW x \in Nat, NEW i \in 1..Len(s)
    PROVE  /\ Fits(s, i, x) <=> s[i] \in PlaceKinds /\ StartsAt(s, i + 1, Decimal(x))
           /\ Fits(s, i, x) <=> i \in Found(s, x)
<1> DEFINE d == Decimal(x)
<1>1. d \in Seq(Symbols) /\ Len(d) \in Nat
  <2>1. d \in Seq(Figures)
    BY DecimalIs
  <2> HIDE DEF d
  <2>2. d \in Seq(Symbols)
    BY <2>1, FiguresAre, SeqMonotonic
  <2> QED
    BY <2>2
<1> HIDE DEF d
<1>2. StartsAt(s, i + 1, d) <=> /\ i + Len(d) <= Len(s)
                                /\ \A j \in 1..Len(d) : s[i + j] = d[j]
  <2>1. i + 1 \in Nat \ {0} /\ (i + 1) + Len(d) - 1 = i + Len(d)
        /\ \A j \in 1..Len(d) : (i + 1) + j - 1 = i + j
    BY <1>1
  <2> QED
    BY <1>1, <2>1, StartsIs
<1>3. Fits(s, i, x) <=> s[i] \in PlaceKinds /\ StartsAt(s, i + 1, d)
  BY <1>2 DEF Fits, d
<1>4. ASSUME NEW k \in PlaceKinds
      PROVE  StartsAt(s, i, <<k>> \o d) <=> s[i] = k /\ StartsAt(s, i + 1, d)
  <2> DEFINE e == <<k>> \o d
  <2>1. <<k>> \in Seq(Symbols)
    <3>1. k \in Symbols
      BY DEF Symbols
    <3> QED
      BY <3>1
  <2>2. e \in Seq(Symbols) /\ Len(e) = 1 + Len(d) /\ e[1] = k /\ \A j \in 1..Len(d) : e[j + 1] = d[j]
    <3>1. Len(<<k>>) = 1 /\ <<k>>[1] = k
      OBVIOUS
    <3>2. /\ e \in Seq(Symbols) /\ Len(e) = 1 + Len(d)
          /\ \A j \in 1..1 + Len(d) : e[j] = IF j <= 1 THEN <<k>>[j] ELSE d[j - 1]
      BY <1>1, <2>1, <3>1, ConcatProperties
    <3> HIDE DEF e
    <3>3. e[1] = k
      BY <1>1, <3>1, <3>2
    <3>4. ASSUME NEW j \in 1..Len(d) PROVE e[j + 1] = d[j]
      <4>1. j + 1 \in 1..1 + Len(d) /\ ~(j + 1 <= 1) /\ (j + 1) - 1 = j
        BY <1>1
      <4> QED
        BY <3>2, <4>1
    <3> QED
      BY <3>2, <3>3, <3>4
  <2> HIDE DEF e
  <2>3. StartsAt(s, i, e) <=> /\ i + Len(e) - 1 <= Len(s)
                              /\ \A j \in 1..Len(e) : s[i + j - 1] = e[j]
    <3>1. e \in Seq(Symbols) /\ i \in Nat \ {0}
      BY <2>2
    <3> QED
      BY <3>1, StartsIs, Zenon
  <2>4. i + Len(e) - 1 = i + Len(d)
    BY <1>1, <2>2
  <2>5. (\A j \in 1..Len(e) : s[i + j - 1] = e[j])
          <=> s[i] = k /\ \A j \in 1..Len(d) : s[i + j] = d[j]
    <3>1. 1 \in 1..Len(e) /\ i + 1 - 1 = i
      BY <1>1, <2>2
    <3>2. \A j \in 1..Len(d) : j + 1 \in 1..Len(e) /\ i + (j + 1) - 1 = i + j
      BY <1>1, <2>2
    <3>3. \A j \in 1..Len(e) : j = 1 \/ (j - 1 \in 1..Len(d) /\ (j - 1) + 1 = j)
      BY <1>1, <2>2
    <3>4. ASSUME \A j \in 1..Len(e) : s[i + j - 1] = e[j]
          PROVE  s[i] = k /\ \A j \in 1..Len(d) : s[i + j] = d[j]
      <4>1. s[i] = k
        BY <2>2, <3>1, <3>4
      <4>2. ASSUME NEW j \in 1..Len(d) PROVE s[i + j] = d[j]
        BY <2>2, <3>2, <3>4
      <4> QED
        BY <4>1, <4>2
    <3>5. ASSUME s[i] = k, \A j \in 1..Len(d) : s[i + j] = d[j], NEW j \in 1..Len(e)
          PROVE  s[i + j - 1] = e[j]
      <4>1. CASE j = 1
        BY <2>2, <3>1, <3>5, <4>1
      <4>2. CASE j # 1
        <5>1. j - 1 \in 1..Len(d) /\ (j - 1) + 1 = j /\ i + j - 1 = i + (j - 1)
          BY <3>3, <4>2
        <5>2. s[i + (j - 1)] = d[j - 1] /\ e[(j - 1) + 1] = d[j - 1]
          BY <2>2, <3>5, <5>1
        <5> QED
          BY <5>1, <5>2
      <4> QED
        BY <4>1, <4>2
    <3> QED
      BY <3>4, <3>5
  <2> QED
    BY <1>2, <2>3, <2>4, <2>5 DEF e
<1>5. i \in Found(s, x) <=> \E k \in PlaceKinds : StartsAt(s, i, <<k>> \o d)
  <2>1. i \in DOMAIN s
    OBVIOUS
  <2> QED
    BY <2>1 DEF Found, d
<1> QED
  BY <1>3, <1>4, <1>5 DEF d

LEMMA FoundIs ==
    ASSUME NEW s \in Seq(Symbols), NEW x \in Nat
    PROVE  Found(s, x) = {i \in 1..Len(s) : Fits(s, i, x)}
<1>1. Found(s, x) \subseteq 1..Len(s)
  BY DEF Found
<1> QED
  BY <1>1, FoundFits

-----------------------------------------------------------------------------
(* What a template means.                                                  *)

\* What a template of a call of N inputs is split into.
Items(N) == {e \in [kind : PlaceKinds \cup {"text"}, text : Seq(Symbols), input : 0..N] :
                e.kind = "text" \/ e.input \in 1..N}

LEMMA ItemKinds ==
    ASSUME NEW N \in Nat
    PROVE  /\ \A s \in Seq(Symbols) :
                 Text(s) \in Items(N) /\ Text(s).kind = "text" /\ Text(s).text = s
           /\ \A k \in PlaceKinds, x \in 1..N :
                 /\ Place(k, x) \in Items(N)
                 /\ Place(k, x).kind \in PlaceKinds
                 /\ Place(k, x).kind # "text"
<1>1. <<>> \in Seq(Symbols) /\ 0 \in 0..N /\ \A x \in 1..N : x \in 0..N
  OBVIOUS
<1>2. ASSUME NEW s \in Seq(Symbols)
      PROVE  Text(s) \in Items(N) /\ Text(s).kind = "text" /\ Text(s).text = s
  BY <1>1 DEF Items, Text
<1>3. "text" \notin PlaceKinds
  BY DEF PlaceKinds
<1>4. ASSUME NEW k \in PlaceKinds, NEW x \in 1..N
      PROVE  Place(k, x) \in Items(N) /\ Place(k, x).kind = k
  BY <1>1 DEF Items, Place
<1> QED
  BY <1>2, <1>3, <1>4

\* The numbers of the inputs there could be a place of.
At(s, n, i) == {x \in 1..n : Fits(s, i, x)}

ScanFrom(f, s, n, i) ==
    IF At(s, n, i) = {} THEN <<Text(<<s[i]>>)>> \o f[i + 1]
    ELSE <<Place(s[i], Max(At(s, n, i)))>> \o f[i + 1 + Len(Decimal(Max(At(s, n, i))))]

Scans(f, s, n) == f[Len(s) + 1] = <<>> /\ \A i \in 1..Len(s) : f[i] = ScanFrom(f, s, n, i)

\* Where a scan goes on after a place.
LEMMA PlaceEnds ==
    ASSUME NEW s \in Seq(Symbols), NEW n \in Nat, NEW i \in 1..Len(s), At(s, n, i) # {}
    PROVE  LET x == Max(At(s, n, i))
           IN  /\ x \in 1..n /\ Fits(s, i, x) /\ \A y \in At(s, n, i) : y <= x
               /\ s[i] \in PlaceKinds
               /\ i + 1 + Len(Decimal(x)) \in i + 2..Len(s) + 1
<1> DEFINE A == At(s, n, i)
           x == Max(A)
<1>1. A \subseteq 1..n /\ A # {}
  BY DEF At
<1>2. x \in A /\ \A y \in A : x >= y
  <2> HIDE DEF A
  <2> QED
    BY <1>1, MaxIs
<1>3. x \in 1..n /\ Fits(s, i, x)
  BY <1>2 DEF At
<1>4. \A y \in A : y <= x
  <2> HIDE DEF x
  <2> QED
    BY <1>1, <1>2, <1>3
<1> HIDE DEF x, A
<1>5. Len(Decimal(x)) >= 1 /\ Len(Decimal(x)) \in Nat
  BY <1>3, DecimalIs
<1>6. i + 1 + Len(Decimal(x)) \in i + 2..Len(s) + 1
  BY <1>3, <1>5 DEF Fits
<1> QED
  BY <1>3, <1>4, <1>6 DEF x, A, Fits

\* The function of the definition of Scan is there.
LEMMA ScanIs ==
    ASSUME NEW N \in Nat, NEW n \in 0..N, NEW s \in Seq(Symbols)
    PROVE  \E f \in BackValues(Len(s), Seq(Items(N))) : Scans(f, s, n) /\ Scan(s, n) = f[1]
<1> DEFINE len == Len(s)
           S == Seq(Items(N))
           x(i) == Max(At(s, n, i))
           item(i) == IF At(s, n, i) = {} THEN Text(<<s[i]>>) ELSE Place(s[i], x(i))
           after(i) == IF At(s, n, i) = {} THEN i + 1 ELSE i + 1 + Len(Decimal(x(i)))
           h == [i \in 1..len |-> [v \in S |-> <<item(i)>> \o v]]
           next == [i \in 1..len |-> after(i)]
<1>1. len \in Nat /\ n \in Nat /\ \A i \in 1..len : s[i] \in Symbols
  OBVIOUS
<1>2. ASSUME NEW i \in 1..len
      PROVE  item(i) \in Items(N) /\ after(i) \in i + 1..len + 1
  <2>1. CASE At(s, n, i) = {}
    <3>1. <<s[i]>> \in Seq(Symbols)
      BY <1>1
    <3>2. Text(<<s[i]>>) \in Items(N)
      BY <3>1, ItemKinds
    <3>3. i + 1 \in i + 1..len + 1
      BY <1>1
    <3> QED
      BY <2>1, <3>2, <3>3
  <2>2. CASE At(s, n, i) # {}
    <3>1. x(i) \in 1..n /\ s[i] \in PlaceKinds /\ i + 1 + Len(Decimal(x(i))) \in i + 2..len + 1
      BY <1>1, <2>2, PlaceEnds
    <3>2. x(i) \in 1..N
      BY <3>1
    <3>3. item(i) \in Items(N)
      BY <2>2, <3>1, <3>2, ItemKinds
    <3>4. after(i) = i + 1 + Len(Decimal(x(i)))
      BY <2>2
    <3> HIDE DEF x, item, after
    <3>5. after(i) \in i + 1..len + 1
      BY <3>1, <3>4
    <3> QED
      BY <3>3, <3>5
  <2> QED
    BY <2>1, <2>2
<1>3. h \in Steps(len, S)
  <2>1. ASSUME NEW i \in 1..len, NEW v \in S PROVE <<item(i)>> \o v \in S
    <3> HIDE DEF item
    <3>1. <<item(i)>> \in Seq(Items(N))
      BY <1>2
    <3> QED
      BY <3>1, ConcatProperties
  <2> HIDE DEF item, S
  <2> QED
    BY <2>1 DEF Steps
<1>4. next \in Forths(len)
  <2>1. ASSUME NEW i \in 1..len PROVE after(i) \in 1..len + 1 /\ after(i) > i
    <3> HIDE DEF after, item, len
    <3>1. after(i) \in i + 1..len + 1
      BY <1>2
    <3> QED
      BY <1>1, <3>1
  <2> HIDE DEF after
  <2> QED
    BY <2>1 DEF Forths
<1>5. <<>> \in S
  OBVIOUS
<1>6. PICK f \in BackValues(len, S) : ObeysBack(f, len, <<>>, h, next)
  <2> HIDE DEF S, h, next, len
  <2> QED
    BY <1>1, <1>3, <1>4, <1>5, BackRecursion
<1> DEFINE inputsAt(i) == {y \in 1..n : s[i] \in PlaceKinds /\ StartsAt(s, i + 1, Decimal(y))}
           D(g) == [i \in 1..Len(s) + 1 |->
                      CASE i > Len(s) -> <<>>
                        [] i <= Len(s) /\ inputsAt(i) = {} -> <<Text(<<s[i]>>)>> \o g[i + 1]
                        [] OTHER -> LET y == Max(inputsAt(i))
                                    IN  <<Place(s[i], y)>> \o g[i + 1 + Len(Decimal(y))]]
           c == CHOOSE g : g = D(g)
<1>7. \A i \in 1..len : inputsAt(i) = At(s, n, i)
  <2>1. \A y \in 1..n : y \in Nat
    OBVIOUS
  <2> QED
    BY <2>1, FoundFits DEF At
<1>8. ASSUME NEW g
      PROVE  /\ D(g)[len + 1] = <<>>
             /\ \A i \in 1..len : D(g)[i] = ScanFrom(g, s, n, i)
             /\ DOMAIN D(g) = 1..len + 1
  <2>1. len + 1 \in 1..len + 1 /\ len + 1 > len
    BY <1>1
  <2>2. D(g)[len + 1] = <<>>
    BY <2>1
  <2>3. ASSUME NEW i \in 1..len PROVE D(g)[i] = ScanFrom(g, s, n, i)
    <3>1. i \in 1..len + 1 /\ i <= len /\ ~(i > len)
      BY <1>1
    <3>2. inputsAt(i) = At(s, n, i)
      BY <1>7
    <3> HIDE DEF inputsAt
    <3> QED
      BY <3>1, <3>2 DEF ScanFrom
  <2> QED
    BY <2>2, <2>3
<1>9. Scans(f, s, n)
  <2>1. f[len + 1] = <<>>
    BY <1>6 DEF ObeysBack
  <2>2. ASSUME NEW i \in 1..len PROVE f[i] = ScanFrom(f, s, n, i)
    <3>1. next[i] = after(i) /\ next[i] \in 1..len + 1
      BY <1>4 DEF Forths
    <3>2. f[i] = h[i][f[next[i]]] /\ f[next[i]] \in S
      <4> HIDE DEF S, h, next, len
      <4> QED
        BY <1>6, <3>1 DEF ObeysBack, BackValues
    <3>3. f[i] = <<item(i)>> \o f[after(i)]
      <4> HIDE DEF S, item, after
      <4> QED
        BY <3>1, <3>2
    <3> QED
      BY <3>3 DEF ScanFrom
  <2> QED
    BY <2>1, <2>2 DEF Scans
<1>10. f = D(f)
  <2>1. DOMAIN f = 1..len + 1 /\ f = [i \in 1..len + 1 |-> f[i]]
    BY <1>6 DEF BackValues
  <2>2. ASSUME NEW i \in 1..len + 1 PROVE f[i] = D(f)[i]
    <3>1. i = len + 1 \/ i \in 1..len
      BY <1>1
    <3> HIDE DEF D
    <3> QED
      BY <1>8, <1>9, <3>1 DEF Scans
  <2>3. D(f) = [i \in 1..len + 1 |-> D(f)[i]]
    OBVIOUS
  <2> HIDE DEF D
  <2> QED
    BY <2>1, <2>2, <2>3
<1>11. c = D(c)
  <2> HIDE DEF D, h, next, S
  <2> QED
    BY <1>10
<1>12. Scan(s, n) = c[1]
  BY DEF Scan
<1> HIDE DEF c
<1>13. c[len + 1] = <<>> /\ (\A i \in 1..len : c[i] = ScanFrom(c, s, n, i)) /\ DOMAIN c = 1..len + 1
  <2> HIDE DEF D
  <2> QED
    BY <1>8, <1>11
<1> DEFINE T == {i \in 1..len + 1 : c[i] \in S}
<1>14. ASSUME NEW i \in 1..len + 1, \A j \in i + 1..len + 1 : j \in T PROVE i \in T
  <2>1. CASE i = len + 1
    <3> HIDE DEF S
    <3> QED
      BY <1>5, <1>13, <2>1
  <2>2. CASE i # len + 1
    <3>1. i \in 1..len
      BY <1>1, <2>2
    <3>2. c[i] = <<item(i)>> \o c[after(i)]
      <4>1. c[i] = ScanFrom(c, s, n, i)
        BY <1>13, <3>1
      <4> QED
        BY <4>1 DEF ScanFrom
    <3>3. after(i) \in i + 1..len + 1 /\ item(i) \in Items(N)
      BY <1>2, <3>1
    <3> HIDE DEF after, item
    <3>4. c[after(i)] \in S
      BY <1>14, <3>3
    <3>5. <<item(i)>> \in S
      BY <3>3
    <3>6. c[i] \in S
      BY <3>2, <3>4, <3>5, ConcatProperties
    <3> HIDE DEF S
    <3> QED
      BY <3>6
  <2> QED
    BY <2>1, <2>2
<1>15. 1..len + 1 \subseteq T
  <2>1. len + 1 \in Nat
    BY <1>1
  <2> HIDE DEF T, len
  <2> QED
    BY <1>14, <2>1, DownInduction
<1>16. c \in BackValues(len, S)
  <2>1. c = [i \in 1..len + 1 |-> c[i]]
    BY <1>11
  <2> HIDE DEF S
  <2> QED
    BY <1>15, <2>1 DEF BackValues
<1>17. Scans(c, s, n)
  BY <1>13 DEF Scans
<1> HIDE DEF S, len
<1> QED
  BY <1>12, <1>16, <1>17 DEF S, len

\* Where a piece of a text goes up to a place or to its end, it has the places
\* of the text.
Piece(t, i, n) ==
    /\ i \in 1..Len(t) + 1 /\ n \in i..Len(t) + 1
    /\ n = Len(t) + 1 \/ t[n] \in PlaceKinds

LEMMA PieceIs ==
    ASSUME NEW t \in Seq(Symbols), NEW i \in 1..Len(t) + 1, NEW n \in i..Len(t) + 1
    PROVE  /\ SubSeq(t, i, n - 1) \in Seq(Symbols)
           /\ Len(SubSeq(t, i, n - 1)) = n - i
           /\ \A k \in 1..n - i : SubSeq(t, i, n - 1)[k] = t[i + k - 1]
<1> DEFINE m == n - 1
           u == SubSeq(t, i, m)
<1>1. m \in Int /\ \A j \in i..m : t[j] \in Symbols
  OBVIOUS
<1>2. m - i + 1 = n - i /\ (i <= m => m - i + 1 = n - i) /\ (~(i <= m) => n - i = 0)
  OBVIOUS
<1>3. /\ u \in Seq(Symbols)
      /\ Len(u) = IF i <= m THEN m - i + 1 ELSE 0
      /\ \A j \in 1..m - i + 1 : u[j] = t[i + j - 1]
  <2> HIDE DEF m
  <2> QED
    BY <1>1, SubSeqProperties
<1> HIDE DEF u, m
<1>4. Len(u) = n - i
  BY <1>2, <1>3
<1> QED
  BY <1>2, <1>3, <1>4 DEF u, m

LEMMA FitsPiece ==
    ASSUME NEW t \in Seq(Symbols), NEW i, NEW n, Piece(t, i, n), NEW y \in Nat, NEW k \in 1..n - i
    PROVE  Fits(SubSeq(t, i, n - 1), k, y) <=> Fits(t, i + k - 1, y)
<1> DEFINE d == Decimal(y)
           l == Len(d)
           j == i + k - 1
<1>1. /\ i \in 1..Len(t) + 1 /\ n \in i..Len(t) + 1
      /\ n = Len(t) + 1 \/ t[n] \in PlaceKinds
  BY DEF Piece
<1>2. PICK u \in Seq(Symbols) : /\ u = SubSeq(t, i, n - 1)
                                /\ Len(u) = n - i
                                /\ \A m \in 1..n - i : u[m] = t[i + m - 1]
  BY <1>1, PieceIs
<1>3. l \in Nat /\ l >= 1 /\ \A m \in 1..l : d[m] \in Figures
  <2>1. d \in Seq(Figures) /\ l >= 1
    BY DecimalIs
  <2> HIDE DEF d
  <2> QED
    BY <2>1
<1>4. Len(t) \in Nat /\ j \in 1..Len(t) /\ j <= n - 1 /\ u[k] = t[j]
  BY <1>1, <1>2
<1>5. Fits(u, k, y) <=> /\ k \in 1..Len(u) /\ u[k] \in PlaceKinds
                        /\ k + l <= Len(u)
                        /\ \A m \in 1..l : u[k + m] = d[m]
  BY DEF Fits
<1>6. Fits(t, j, y) <=> /\ j \in 1..Len(t) /\ t[j] \in PlaceKinds
                        /\ j + l <= Len(t)
                        /\ \A m \in 1..l : t[j + m] = d[m]
  BY DEF Fits
<1> HIDE DEF d, l
<1>7. ASSUME k + l <= n - i, NEW m \in 1..l PROVE u[k + m] = t[j + m]
  <2>1. k + m \in 1..n - i /\ i + (k + m) - 1 = j + m
    BY <1>1, <1>3, <1>7
  <2> QED
    BY <1>2, <2>1
<1>8. ASSUME Fits(u, k, y) PROVE Fits(t, j, y)
  <2>1. k + l <= n - i
    BY <1>2, <1>5, <1>8
  <2>2. j + l <= Len(t)
    BY <1>1, <1>3, <2>1
  <2>3. \A m \in 1..l : t[j + m] = d[m]
    BY <1>5, <1>7, <1>8, <2>1
  <2>4. t[j] \in PlaceKinds
    BY <1>4, <1>5, <1>8
  <2> HIDE DEF j
  <2> QED
    BY <1>4, <1>6, <2>2, <2>3, <2>4
<1>9. ASSUME Fits(t, j, y) PROVE Fits(u, k, y)
  <2>1. j + l <= n - 1
    <3>1. SUFFICES ASSUME j + l >= n PROVE FALSE
      BY <1>1, <1>3, <1>4
    <3>2. n <= Len(t) /\ t[n] \in PlaceKinds
      BY <1>1, <1>3, <1>6, <1>9, <3>1
    <3>3. n - j \in 1..l /\ j + (n - j) = n
      BY <1>1, <1>3, <1>4, <3>1
    <3>4. t[j + (n - j)] = d[n - j] /\ d[n - j] \in Figures
      BY <1>3, <1>6, <1>9, <3>3
    <3>5. t[n] \in Figures
      BY <3>3, <3>4
    <3> QED
      BY <3>2, <3>5, FiguresAre
  <2>2. k + l <= n - i
    BY <1>1, <1>3, <2>1
  <2>3. \A m \in 1..l : u[k + m] = d[m]
    BY <1>6, <1>7, <1>9, <2>2
  <2>4. u[k] \in PlaceKinds
    BY <1>4, <1>6, <1>9
  <2> HIDE DEF j
  <2> QED
    BY <1>2, <1>5, <2>2, <2>3, <2>4
<1> QED
  BY <1>2, <1>8, <1>9

\* A piece without a place of input x means what the text means there.
Clear(t, x, i, n) == \A j \in i..n - 1 : ~Fits(t, j, x)

LEMMA ScanPiece ==
    ASSUME NEW N \in Nat, NEW x \in 1..N, NEW t \in Seq(Symbols),
           NEW f \in BackValues(Len(t), Seq(Items(N))), Scans(f, t, x),
           NEW i, NEW n, Piece(t, i, n), Clear(t, x, i, n)
    PROVE  /\ Scan(SubSeq(t, i, n - 1), x - 1) \in Seq(Items(N))
           /\ f[i] = Concat(Scan(SubSeq(t, i, n - 1), x - 1), f[n])
<1>1. i \in 1..Len(t) + 1 /\ n \in i..Len(t) + 1 /\ Len(t) \in Nat
  BY DEF Piece
<1>2. PICK u \in Seq(Symbols) : /\ u = SubSeq(t, i, n - 1)
                                /\ Len(u) = n - i
                                /\ \A m \in 1..n - i : u[m] = t[i + m - 1]
  BY <1>1, PieceIs
<1>3. PICK g \in BackValues(Len(u), Seq(Items(N))) : Scans(g, u, x - 1) /\ Scan(u, x - 1) = g[1]
  <2>1. x - 1 \in 0..N
    OBVIOUS
  <2> QED
    BY <2>1, ScanIs
<1>4. PICK len \in Nat : len = n - i /\ n = i + len
  BY <1>1
<1>5. \A k \in 1..len + 1 : g[k] \in Seq(Items(N))
  BY <1>2, <1>3, <1>4 DEF BackValues
<1>6. f[n] \in Seq(Items(N))
  BY <1>1 DEF BackValues
<1> DEFINE T == {k \in 1..len + 1 : f[i + k - 1] = g[k] \o f[n]}
<1>7. ASSUME NEW k \in 1..len + 1, \A j \in k + 1..len + 1 : j \in T PROVE k \in T
  <2>1. CASE k = len + 1
    <3>1. g[k] = <<>> /\ i + k - 1 = n
      BY <1>1, <1>2, <1>3, <1>4, <2>1 DEF Scans
    <3>2. <<>> \o f[n] = f[n]
      BY <1>6, ConcatEmptySeq
    <3> QED
      BY <3>1, <3>2
  <2>2. CASE k # len + 1
    <3>1. k \in 1..len /\ k \in 1..n - i /\ k \in 1..Len(u)
      <4>1. k \in 1..len
        BY <2>2
      <4>2. len = n - i /\ len = Len(u)
        BY <1>2, <1>4
      <4> QED
        BY <4>1, <4>2
    <3>2. PICK j \in 1..Len(t) : j = i + k - 1 /\ j \in i..n - 1
      BY <1>1, <1>4, <3>1
    <3>3. At(t, x, j) = At(u, x - 1, k)
      <4>1. ASSUME NEW y \in 1..x PROVE y \in At(t, x, j) <=> y \in At(u, x - 1, k)
        <5>1. y \in Nat /\ (y = x \/ y \in 1..x - 1)
          OBVIOUS
        <5>2. Fits(u, k, y) <=> Fits(t, j, y)
          BY <1>2, <3>1, <3>2, <5>1, FitsPiece
        <5>3. CASE y = x
          <6>1. ~Fits(t, j, x)
            BY <3>2 DEF Clear
          <6>2. y \notin 1..x - 1
            BY <5>3
          <6> QED
            BY <5>3, <6>1, <6>2 DEF At
        <5>4. CASE y \in 1..x - 1
          BY <5>2, <5>4 DEF At
        <5> QED
          BY <5>1, <5>3, <5>4
      <4>2. At(t, x, j) \subseteq 1..x /\ At(u, x - 1, k) \subseteq 1..x
        BY DEF At
      <4> QED
        BY <4>1, <4>2
    <3>4. u[k] = t[j]
      BY <1>2, <3>1, <3>2
    <3>5. f[j] = ScanFrom(f, t, x, j) /\ g[k] = ScanFrom(g, u, x - 1, k)
      BY <1>3, <3>1, <3>2 DEF Scans
    <3>6. ASSUME NEW e \in Items(N), NEW m \in k + 1..len + 1,
                 f[j] = <<e>> \o f[i + m - 1], g[k] = <<e>> \o g[m]
          PROVE  k \in T
      <4>1. f[i + m - 1] = g[m] \o f[n]
        BY <1>7, <3>6
      <4>2. m \in 1..len + 1
        OBVIOUS
      <4>3. g[m] \in Seq(Items(N)) /\ <<e>> \in Seq(Items(N))
        BY <1>5, <4>2
      <4>4. (<<e>> \o g[m]) \o f[n] = <<e>> \o (g[m] \o f[n])
        <5>1. PICK a \in Seq(Items(N)), b \in Seq(Items(N)), c \in Seq(Items(N)) :
                 a = <<e>> /\ b = g[m] /\ c = f[n]
          BY <1>6, <4>3
        <5>2. Concat(Concat(a, b), c) = Concat(a, Concat(b, c))
          BY Associates
        <5>3. (a \o b) \o c = a \o (b \o c)
          BY <5>2 DEF Concat
        <5> QED
          BY <5>1, <5>3
      <4>5. f[j] = g[k] \o f[n]
        BY <3>6, <4>1, <4>4
      <4> QED
        BY <3>2, <4>5
    <3>7. CASE At(t, x, j) = {}
      <4>1. f[j] = <<Text(<<t[j]>>)>> \o f[j + 1] /\ g[k] = <<Text(<<t[j]>>)>> \o g[k + 1]
        BY <3>3, <3>4, <3>5, <3>7 DEF ScanFrom
      <4>2. j + 1 = i + (k + 1) - 1 /\ k + 1 \in k + 1..len + 1
        BY <1>1, <1>4, <3>1, <3>2
      <4>3. Text(<<t[j]>>) \in Items(N)
        <5>1. <<t[j]>> \in Seq(Symbols)
          OBVIOUS
        <5> QED
          BY <5>1, ItemKinds
      <4> QED
        BY <3>6, <4>1, <4>2, <4>3
    <3>8. CASE At(t, x, j) # {}
      <4>1. PICK y : y = Max(At(t, x, j)) /\ y = Max(At(u, x - 1, k))
        BY <3>3
      <4>2. /\ f[j] = <<Place(t[j], y)>> \o f[j + 1 + Len(Decimal(y))]
            /\ g[k] = <<Place(t[j], y)>> \o g[k + 1 + Len(Decimal(y))]
        BY <3>3, <3>4, <3>5, <3>8, <4>1 DEF ScanFrom
      <4>3. y \in 1..x - 1 /\ u[k] \in PlaceKinds /\ k + 1 + Len(Decimal(y)) \in k + 2..Len(u) + 1
        BY <3>1, <3>3, <3>8, <4>1, PlaceEnds
      <4>4. Place(t[j], y) \in Items(N)
        <5>1. y \in 1..N
          BY <4>3
        <5> QED
          BY <3>4, <4>3, <5>1, ItemKinds
      <4>5. PICK m \in k + 1..len + 1 : m = k + 1 + Len(Decimal(y))
        BY <1>2, <1>4, <3>1, <4>3
      <4>6. Len(Decimal(y)) \in Nat
        <5>1. Decimal(y) \in Seq(Figures)
          BY <4>3, DecimalIs
        <5> QED
          BY <5>1
      <4>7. j + 1 + Len(Decimal(y)) = i + m - 1
        BY <1>1, <3>1, <3>2, <4>5, <4>6
      <4> QED
        BY <3>6, <4>2, <4>4, <4>5, <4>7
    <3> QED
      BY <3>7, <3>8
  <2> QED
    BY <2>1, <2>2
<1>8. 1..len + 1 \subseteq T
  <2>1. len + 1 \in Nat
    OBVIOUS
  <2> HIDE DEF T
  <2> QED
    BY <1>7, <2>1, DownInduction
<1>9. 1 \in T
  <2>1. 1 \in 1..len + 1
    OBVIOUS
  <2> HIDE DEF T
  <2> QED
    BY <1>8, <2>1
<1>10. i + 1 - 1 = i /\ 1 \in 1..len + 1
  BY <1>1
<1>11. f[i] = g[1] \o f[n]
  BY <1>9, <1>10
<1> QED
  BY <1>2, <1>3, <1>5, <1>10, <1>11 DEF Concat

\* How a text is split at the places of one input.
Ahead(s, x, i) == {n \in Found(s, x) : n >= i}
SplitFrom(f, s, x, i) ==
    IF Ahead(s, x, i) # {}
    THEN <<Text(SubSeq(s, i, Min(Ahead(s, x, i)) - 1)), Place(s[Min(Ahead(s, x, i))], x)>>
         \o f[Min(Ahead(s, x, i)) + 1 + Len(Decimal(x))]
    ELSE IF i <= Len(s) THEN <<Text(SubSeq(s, i, Len(s)))>> ELSE <<Text(s)>>
Splits(f, s, x) == \A i \in 1..Len(s) + 1 : f[i] = SplitFrom(f, s, x, i)

\* The first place there is ahead.
LEMMA AheadIs ==
    ASSUME NEW s \in Seq(Symbols), NEW x \in Nat, NEW i \in 1..Len(s) + 1, Ahead(s, x, i) # {}
    PROVE  LET n == Min(Ahead(s, x, i))
           IN  /\ n \in i..Len(s) /\ Fits(s, n, x) /\ s[n] \in PlaceKinds
               /\ Clear(s, x, i, n)
               /\ n + 1 + Len(Decimal(x)) \in i + 2..Len(s) + 1
<1> DEFINE A == Ahead(s, x, i)
           n == Min(A)
<1>1. A = {j \in i..Len(s) : Fits(s, j, x)}
  <2>1. Found(s, x) = {j \in 1..Len(s) : Fits(s, j, x)}
    BY FoundIs
  <2> QED
    BY <2>1 DEF Ahead
<1>2. A \subseteq Nat /\ A # {}
  BY <1>1
<1> HIDE DEF A
<1>3. n \in A /\ \A j \in A : n <= j
  BY <1>2, MinIs
<1> HIDE DEF n
<1>4. n \in i..Len(s) /\ Fits(s, n, x)
  BY <1>1, <1>3
<1>5. Clear(s, x, i, n)
  <2>1. ASSUME NEW j \in i..n - 1, Fits(s, j, x) PROVE FALSE
    <3>1. j \in i..Len(s) /\ ~(n <= j)
      BY <1>4
    <3> QED
      BY <1>1, <1>3, <2>1, <3>1
  <2> QED
    BY <2>1 DEF Clear
<1>6. Len(Decimal(x)) >= 1 /\ Len(Decimal(x)) \in Nat
  BY DecimalIs
<1>7. n + 1 + Len(Decimal(x)) \in i + 2..Len(s) + 1
  BY <1>4, <1>6 DEF Fits
<1> QED
  BY <1>4, <1>5, <1>7 DEF n, A, Fits

\* The function of the definition of SplitText is there.
LEMMA SplitTextIs ==
    ASSUME NEW N \in Nat, NEW x \in 1..N, NEW s \in Seq(Symbols)
    PROVE  \E f \in BackValues(Len(s), Seq(Items(N))) : Splits(f, s, x) /\ SplitText(x, s) = f[1]
<1> DEFINE len == Len(s)
           S == Seq(Items(N))
           n(i) == Min(Ahead(s, x, i))
           found(i) == Ahead(s, x, i) # {}
           rest(i) == IF i <= len THEN <<Text(SubSeq(s, i, len))>> ELSE <<Text(s)>>
           part(i) == <<Text(SubSeq(s, i, n(i) - 1)), Place(s[n(i)], x)>>
           after(i) == IF found(i) THEN n(i) + 1 + Len(Decimal(x)) ELSE i + 1
           value(i, v) == IF found(i) THEN part(i) \o v ELSE rest(i)
           h == [i \in 1..len |-> [v \in S |-> value(i, v)]]
           next == [i \in 1..len |-> after(i)]
<1>1. len \in Nat /\ x \in Nat /\ \A i \in 1..len : i \in 1..len + 1
  OBVIOUS
<1>2. \A i \in 1..len + 1 : rest(i) \in S
  <2>1. ASSUME NEW i \in 1..len + 1 PROVE rest(i) \in S
    <3>1. CASE i <= len
      <4>1. SubSeq(s, i, len) \in Seq(Symbols)
        <5>1. len + 1 \in i..len + 1 /\ (len + 1) - 1 = len
          BY <1>1
        <5>2. SubSeq(s, i, (len + 1) - 1) \in Seq(Symbols)
          BY <5>1, PieceIs
        <5> QED
          BY <5>1, <5>2
      <4>2. Text(SubSeq(s, i, len)) \in Items(N)
        BY <4>1, ItemKinds
      <4> QED
        BY <3>1, <4>2
    <3>2. CASE ~(i <= len)
      <4>1. Text(s) \in Items(N)
        BY ItemKinds
      <4> QED
        BY <3>2, <4>1
    <3> QED
      BY <3>1, <3>2
  <2> QED
    BY <2>1
<1>3. ASSUME NEW i \in 1..len + 1, found(i)
      PROVE  part(i) \in S /\ after(i) \in i + 1..len + 1 /\ i \in 1..len
  <2>1. n(i) \in i..len /\ s[n(i)] \in PlaceKinds /\ n(i) + 1 + Len(Decimal(x)) \in i + 2..len + 1
    BY <1>1, <1>3, AheadIs
  <2>2. after(i) = n(i) + 1 + Len(Decimal(x))
    BY <1>3
  <2> HIDE DEF n, after
  <2>3. SubSeq(s, i, n(i) - 1) \in Seq(Symbols)
    <3>1. n(i) \in i..len + 1
      BY <1>1, <2>1
    <3> QED
      BY <3>1, PieceIs
  <2>4. Text(SubSeq(s, i, n(i) - 1)) \in Items(N) /\ Place(s[n(i)], x) \in Items(N)
    BY <2>1, <2>3, ItemKinds
  <2>5. part(i) \in S
    BY <2>4
  <2>6. after(i) \in i + 1..len + 1 /\ i \in 1..len
    BY <1>1, <2>1, <2>2
  <2> QED
    BY <2>5, <2>6
<1>4. ASSUME NEW i \in 1..len + 1, NEW v \in S PROVE value(i, v) \in S
  <2>1. CASE found(i)
    <3>1. part(i) \in S
      BY <1>3, <2>1
    <3> HIDE DEF part, found, rest
    <3>2. part(i) \o v \in S
      BY <3>1, ConcatProperties
    <3> HIDE DEF S
    <3> QED
      BY <2>1, <3>2
  <2>2. CASE ~found(i)
    <3>1. rest(i) \in S
      BY <1>2
    <3> HIDE DEF part, found, rest, S
    <3> QED
      BY <2>2, <3>1
  <2> QED
    BY <2>1, <2>2
<1>5. h \in Steps(len, S)
  <2>1. \A i \in 1..len, v \in S : value(i, v) \in S
    BY <1>1, <1>4
  <2> HIDE DEF value, S
  <2> QED
    BY <2>1 DEF Steps
<1>6. next \in Forths(len)
  <2>1. ASSUME NEW i \in 1..len PROVE after(i) \in 1..len + 1 /\ after(i) > i
    <3>1. after(i) \in i + 1..len + 1
      <4>1. CASE found(i)
        BY <1>1, <1>3, <4>1
      <4>2. CASE ~found(i)
        BY <1>1, <4>2
      <4> QED
        BY <4>1, <4>2
    <3> HIDE DEF after, len
    <3> QED
      BY <1>1, <3>1
  <2> HIDE DEF after
  <2> QED
    BY <2>1 DEF Forths
<1>7. <<Text(s)>> \in S
  BY ItemKinds
<1>8. PICK f \in BackValues(len, S) : ObeysBack(f, len, <<Text(s)>>, h, next)
  <2> HIDE DEF S, h, next, len
  <2> QED
    BY <1>1, <1>5, <1>6, <1>7, BackRecursion
<1>9. \A g : \A i \in 1..len + 1 : SplitFrom(g, s, x, i) = value(i, g[after(i)])
  BY DEF SplitFrom
<1>10. Splits(f, s, x)
  <2>1. ASSUME NEW i \in 1..len PROVE f[i] = value(i, f[after(i)])
    <3>1. next[i] = after(i) /\ next[i] \in 1..len + 1
      BY <1>6 DEF Forths
    <3>2. f[i] = h[i][f[next[i]]] /\ f[next[i]] \in S
      <4> HIDE DEF S, h, next, len
      <4> QED
        BY <1>8, <3>1 DEF ObeysBack, BackValues
    <3> HIDE DEF S, value, after
    <3> QED
      BY <3>1, <3>2
  <2>2. f[len + 1] = value(len + 1, f[after(len + 1)])
    <3>1. f[len + 1] = <<Text(s)>>
      BY <1>8 DEF ObeysBack
    <3>2. ~found(len + 1)
      <4>1. len + 1 \in 1..len + 1 /\ len + 1 \notin 1..len
        BY <1>1
      <4> HIDE DEF found, part, after
      <4> QED
        BY <1>3, <4>1
    <3>3. rest(len + 1) = <<Text(s)>>
      BY <1>1
    <3> HIDE DEF found, part, after, rest
    <3> QED
      BY <3>1, <3>2, <3>3
  <2>3. \A i \in 1..len + 1 : i \in 1..len \/ i = len + 1
    BY <1>1
  <2> HIDE DEF value, after
  <2> QED
    BY <1>9, <2>1, <2>2, <2>3 DEF Splits
<1> DEFINE D(g) == [i \in 1..Len(s) + 1 |->
                      LET ahead == {m \in Found(s, x) : m >= i}
                          m == Min(ahead)
                      IN  IF ahead # {}
                          THEN <<Text(SubSeq(s, i, m - 1)), Place(s[m], x)>> \o g[m + 1 + Len(Decimal(x))]
                          ELSE IF i <= Len(s) THEN <<Text(SubSeq(s, i, Len(s)))>> ELSE <<Text(s)>>]
           c == CHOOSE g : g = D(g)
<1>11. ASSUME NEW g PROVE D(g) = [i \in 1..len + 1 |-> SplitFrom(g, s, x, i)]
  BY DEF SplitFrom, Ahead
<1>12. f = D(f)
  <2>1. f = [i \in 1..len + 1 |-> f[i]]
    BY <1>8 DEF BackValues
  <2>2. [i \in 1..len + 1 |-> f[i]] = [i \in 1..len + 1 |-> SplitFrom(f, s, x, i)]
    BY <1>10 DEF Splits
  <2>3. D(f) = [i \in 1..len + 1 |-> SplitFrom(f, s, x, i)]
    BY <1>11
  <2> HIDE DEF D, h, next
  <2> QED
    BY <2>1, <2>2, <2>3
<1>13. c = D(c)
  <2> HIDE DEF D, h, next, S
  <2> QED
    BY <1>12
<1>14. SplitText(x, s) = c[1]
  BY DEF SplitText
<1> HIDE DEF c
<1>15. c = [i \in 1..len + 1 |-> SplitFrom(c, s, x, i)]
  <2> HIDE DEF D
  <2> QED
    BY <1>11, <1>13
<1>16. Splits(c, s, x) /\ DOMAIN c = 1..len + 1
  BY <1>15 DEF Splits
<1> DEFINE T == {i \in 1..len + 1 : c[i] \in S}
<1>17. ASSUME NEW i \in 1..len + 1, \A j \in i + 1..len + 1 : j \in T PROVE i \in T
  <2>1. c[i] = value(i, c[after(i)])
    <3>1. c[i] = SplitFrom(c, s, x, i)
      BY <1>16 DEF Splits
    <3> HIDE DEF value, after
    <3> QED
      BY <1>9, <3>1
  <2>2. CASE found(i)
    <3>1. c[after(i)] \in S
      <4>1. after(i) \in i + 1..len + 1
        BY <1>3, <2>2
      <4> HIDE DEF after
      <4> QED
        BY <1>17, <4>1
    <3>2. value(i, c[after(i)]) \in S
      <4> HIDE DEF value, S, after
      <4> QED
        BY <1>4, <3>1
    <3> HIDE DEF value, S
    <3> QED
      BY <2>1, <3>2
  <2>3. CASE ~found(i)
    <3>1. c[i] = rest(i) /\ rest(i) \in S
      <4> HIDE DEF rest, S, part
      <4> QED
        BY <1>2, <2>1, <2>3
    <3> HIDE DEF S, rest
    <3> QED
      BY <3>1
  <2> QED
    BY <2>2, <2>3
<1>18. 1..len + 1 \subseteq T
  <2>1. len + 1 \in Nat
    BY <1>1
  <2> HIDE DEF T, len
  <2> QED
    BY <1>17, <2>1, DownInduction
<1>19. c \in BackValues(len, S)
  <2>1. c = [i \in 1..len + 1 |-> c[i]]
    BY <1>16, <1>15
  <2> HIDE DEF S
  <2> QED
    BY <1>18, <2>1 DEF BackValues
<1> HIDE DEF S, len
<1> QED
  BY <1>14, <1>16, <1>19 DEF S, len

\* What a list means when the inputs up to k are still in its texts.
MeanOf(N, k) == [e \in Items(N) |-> IF e.kind # "text" THEN <<e>> ELSE Scan(e.text, k)]
Mean(N, k, L) == Flat(MeanOf(N, k), L)

LEMMA MeanTyped ==
    ASSUME NEW N \in Nat, NEW k \in 0..N
    PROVE  MeanOf(N, k) \in Lists(Items(N), Items(N))
<1>1. ASSUME NEW e \in Items(N)
      PROVE  (IF e.kind # "text" THEN <<e>> ELSE Scan(e.text, k)) \in Seq(Items(N))
  <2>1. e.text \in Seq(Symbols)
    BY DEF Items
  <2>2. Scan(e.text, k) \in Seq(Items(N))
    <3>1. PICK s \in Seq(Symbols) : s = e.text
      BY <2>1
    <3>2. PICK f \in BackValues(Len(s), Seq(Items(N))) : Scan(s, k) = f[1]
      BY ScanIs
    <3>3. 1 \in 1..Len(s) + 1
      OBVIOUS
    <3> QED
      BY <3>1, <3>2, <3>3 DEF BackValues
  <2>3. <<e>> \in Seq(Items(N))
    OBVIOUS
  <2> QED
    BY <2>2, <2>3
<1> QED
  BY <1>1 DEF MeanOf, Lists

Places(L) == {e \in Elements(L) : e.kind # "text"}
Good(L, k) == \A e \in Elements(L) : e.kind = "text" => TextAfterPlaces(Scan(e.text, k))

\* Both sides of a place that has text after it.
LEMMA PlacesApart ==
    ASSUME NEW N, NEW a \in Seq(Items(N)), NEW b \in Seq(Items(N)), NEW e \in Items(N),
           e.kind # "text", TextAfterPlaces(a \o (<<e>> \o b))
    PROVE  TextAfterPlaces(a) /\ TextAfterPlaces(b) /\ b # <<>>
<1> DEFINE p == <<e>> \o b
           c == a \o p
           n == Len(a)
<1>1. <<e>> \in Seq(Items(N)) /\ Len(<<e>>) = 1 /\ <<e>>[1] = e
      /\ n \in Nat /\ Len(b) \in Nat
  OBVIOUS
<1>2. /\ p \in Seq(Items(N)) /\ Len(p) = 1 + Len(b)
      /\ \A i \in 1..1 + Len(b) : p[i] = IF i <= 1 THEN <<e>>[i] ELSE b[i - 1]
  <2> QED
    BY <1>1, ConcatProperties
<1> HIDE DEF p
<1>3. /\ c \in Seq(Items(N)) /\ Len(c) = n + Len(p)
      /\ \A i \in 1..n + Len(p) : c[i] = IF i <= n THEN a[i] ELSE p[i - n]
  BY <1>2, ConcatProperties
<1>4. TextAfterPlaces(c)
  BY DEF p
<1> HIDE DEF c
<1>5. DOMAIN c = 1..n + 1 + Len(b) /\ Len(c) = n + 1 + Len(b)
  <2>1. DOMAIN c = 1..Len(c)
    BY <1>3
  <2> QED
    BY <1>1, <1>2, <1>3, <2>1
<1>6. \A i \in 1..n : c[i] = a[i]
  BY <1>1, <1>2, <1>3
<1>7. c[n + 1] = e
  <2>1. n + 1 \in 1..n + Len(p) /\ ~(n + 1 <= n) /\ (n + 1) - n = 1 /\ 1 \in 1..1 + Len(b)
    BY <1>1, <1>2
  <2>2. c[n + 1] = p[(n + 1) - n]
    BY <1>3, <2>1
  <2>3. p[1] = <<e>>[1]
    BY <1>2, <2>1
  <2> QED
    BY <1>1, <2>1, <2>2, <2>3
<1>8. ASSUME NEW i \in 1..Len(b) PROVE c[n + 1 + i] = b[i]
  <2>1. n + 1 + i \in 1..n + Len(p) /\ ~(n + 1 + i <= n) /\ (n + 1 + i) - n = i + 1
        /\ i + 1 \in 1..1 + Len(b) /\ ~(i + 1 <= 1) /\ (i + 1) - 1 = i
    BY <1>1, <1>2
  <2>2. c[n + 1 + i] = p[i + 1] /\ p[i + 1] = b[i]
    BY <1>2, <1>3, <2>1
  <2> QED
    BY <2>2
<1>9. ASSUME NEW i \in 1..n + 1 + Len(b), c[i].kind # "text"
      PROVE  i < n + 1 + Len(b) /\ c[i + 1].kind = "text"
  BY <1>4, <1>5, <1>9 DEF TextAfterPlaces
<1>10. n + 1 < n + 1 + Len(b)
  <2>1. n + 1 \in 1..n + 1 + Len(b)
    BY <1>1
  <2> QED
    BY <1>7, <1>9, <2>1
<1>11. TextAfterPlaces(a)
  <2>1. ASSUME NEW i \in 1..n, a[i].kind # "text"
        PROVE  i < n /\ a[i + 1].kind = "text"
    <3>1. i \in 1..n + 1 + Len(b) /\ c[i].kind # "text"
      BY <1>1, <1>6, <2>1
    <3>2. c[i + 1].kind = "text"
      BY <1>9, <3>1
    <3>3. i # n
      BY <1>7, <3>2
    <3>4. i < n /\ i + 1 \in 1..n
      BY <1>1, <3>3
    <3> QED
      BY <1>6, <3>2, <3>4
  <2>2. DOMAIN a = 1..n
    OBVIOUS
  <2> QED
    BY <2>1, <2>2 DEF TextAfterPlaces
<1>12. TextAfterPlaces(b)
  <2>1. ASSUME NEW i \in 1..Len(b), b[i].kind # "text"
        PROVE  i < Len(b) /\ b[i + 1].kind = "text"
    <3>1. n + 1 + i \in 1..n + 1 + Len(b)
      BY <1>1
    <3>2. c[n + 1 + i].kind # "text"
      BY <1>8, <2>1
    <3>3. n + 1 + i < n + 1 + Len(b) /\ c[(n + 1 + i) + 1].kind = "text"
      BY <1>9, <3>1, <3>2
    <3>4. i < Len(b) /\ i + 1 \in 1..Len(b) /\ (n + 1 + i) + 1 = n + 1 + (i + 1)
      BY <1>1, <3>3
    <3> QED
      BY <1>8, <3>3, <3>4
  <2>2. DOMAIN b = 1..Len(b)
    OBVIOUS
  <2> QED
    BY <2>1, <2>2 DEF TextAfterPlaces
<1>13. b # <<>>
  <2>1. Len(b) > 0
    BY <1>1, <1>10
  <2> QED
    BY <2>1, EmptySeq
<1> QED
  BY <1>11, <1>12, <1>13

LEMMA TextMean ==
    ASSUME NEW N \in Nat, NEW k \in 0..N, NEW p \in Seq(Symbols)
    PROVE  /\ Scan(p, k) \in Seq(Items(N))
           /\ Mean(N, k, <<Text(p)>>) = Scan(p, k)
           /\ Places(<<Text(p)>>) = {}
<1> DEFINE F == MeanOf(N, k)
<1>1. F \in Lists(Items(N), Items(N))
  BY MeanTyped
<1>2. Text(p) \in Items(N) /\ Text(p).kind = "text" /\ Text(p).text = p
  BY ItemKinds
<1>3. F[Text(p)] = Scan(p, k)
  BY <1>2 DEF MeanOf
<1> HIDE DEF F
<1>4. Flat(F, <<Text(p)>>) = F[Text(p)]
  BY <1>1, <1>2, FlatOne
<1>5. F[Text(p)] \in Seq(Items(N))
  BY <1>1, <1>2 DEF Lists
<1>6. Places(<<Text(p)>>) = {}
  BY <1>2, ElementsOne DEF Places
<1> QED
  BY <1>3, <1>4, <1>5, <1>6 DEF Mean, F

LEMMA PlaceElements ==
    ASSUME NEW N \in Nat, NEW p \in Seq(Symbols), NEW L \in Seq(Items(N)), NEW e \in Items(N)
    PROVE  Elements(<<Text(p), e>> \o L) = {Text(p), e} \cup Elements(L)
<1>1. PICK a \in Items(N) : a = Text(p)
  BY ItemKinds
<1>2. PICK u \in Seq(Items(N)), v \in Seq(Items(N)), w \in Seq(Items(N)) :
         u = <<a>> /\ v = <<e>> /\ w = <<a, e>> /\ w = u \o v
  <2>1. <<a>> \in Seq(Items(N)) /\ <<e>> \in Seq(Items(N)) /\ <<a, e>> \in Seq(Items(N))
    OBVIOUS
  <2>2. <<a, e>> = <<a>> \o <<e>>
    OBVIOUS
  <2> QED
    BY <2>1, <2>2
<1>3. Elements(w \o L) = Elements(w) \cup Elements(L)
  BY ElementsConcat
<1>4. Elements(u \o v) = Elements(u) \cup Elements(v)
  BY ElementsConcat
<1>5. Elements(u) = {a} /\ Elements(v) = {e}
  BY <1>2, ElementsOne
<1> QED
  BY <1>1, <1>2, <1>3, <1>4, <1>5

LEMMA PlaceMean ==
    ASSUME NEW N \in Nat, NEW k \in 0..N, NEW p \in Seq(Symbols), NEW L \in Seq(Items(N)),
           NEW e \in Items(N), e.kind # "text"
    PROVE  /\ Mean(N, k, L) \in Seq(Items(N))
           /\ Mean(N, k, <<Text(p), e>> \o L) = Scan(p, k) \o (<<e>> \o Mean(N, k, L))
<1> DEFINE F == MeanOf(N, k)
<1>1. F \in Lists(Items(N), Items(N))
  BY MeanTyped
<1>2. PICK a \in Items(N) : a = Text(p)
  BY ItemKinds
<1>3. F[e] = <<e>>
  BY DEF MeanOf
<1>4. Flat(F, <<a>>) = Scan(p, k)
  BY <1>2, TextMean DEF Mean
<1> HIDE DEF F
<1>5. PICK b \in Seq(Items(N)), c \in Seq(Items(N)) : b = <<a>> /\ c = <<a, e>> /\ c = Append(b, e)
  <2>1. <<a>> \in Seq(Items(N)) /\ <<a, e>> \in Seq(Items(N))
    OBVIOUS
  <2>2. <<a, e>> = Append(<<a>>, e)
    OBVIOUS
  <2> QED
    BY <2>1, <2>2
<1>6. Flat(F, c) = Concat(Flat(F, b), F[e])
  <2>1. Flat(F, c) = Flat(F, b) \o F[e]
    BY <1>1, <1>5, FlatAppend
  <2> QED
    BY <2>1 DEF Concat
<1>7. Flat(F, Concat(c, L)) = Concat(Flat(F, c), Flat(F, L))
  BY <1>1, FlatConcat
<1>8. Flat(F, L) \in Seq(Items(N)) /\ Scan(p, k) \in Seq(Items(N)) /\ <<e>> \in Seq(Items(N))
  <2>1. Flat(F, L) \in Seq(Items(N))
    BY <1>1, FlatTyped
  <2>2. Scan(p, k) \in Seq(Items(N))
    BY TextMean
  <2> QED
    BY <2>1, <2>2
<1>9. Concat(Concat(Scan(p, k), <<e>>), Flat(F, L)) = Concat(Scan(p, k), Concat(<<e>>, Flat(F, L)))
  <2>1. PICK u \in Seq(Items(N)), v \in Seq(Items(N)), w \in Seq(Items(N)) :
           u = Scan(p, k) /\ v = <<e>> /\ w = Flat(F, L)
    BY <1>8
  <2>2. Concat(Concat(u, v), w) = Concat(u, Concat(v, w))
    BY Associates
  <2> QED
    BY <2>1, <2>2
<1>10. Flat(F, Concat(c, L)) = Concat(Scan(p, k), Concat(<<e>>, Flat(F, L)))
  BY <1>3, <1>4, <1>5, <1>6, <1>7, <1>9
<1> QED
  BY <1>2, <1>5, <1>8, <1>10 DEF Mean, F, Concat

\* What is read at a place of input x, where no other input is longer.
LEMMA ScanPlace ==
    ASSUME NEW N \in Nat, NEW x \in 1..N, NEW t \in Seq(Symbols), NEW f, Scans(f, t, x),
           NEW n \in 1..Len(t), Fits(t, n, x)
    PROVE  f[n] = <<Place(t[n], x)>> \o f[n + 1 + Len(Decimal(x))]
<1>1. x \in At(t, x, n) /\ x \in Nat
  BY DEF At
<1>2. At(t, x, n) # {} /\ Max(At(t, x, n)) = x
  <2>1. /\ Max(At(t, x, n)) \in 1..x
        /\ \A y \in At(t, x, n) : y <= Max(At(t, x, n))
    BY <1>1, PlaceEnds
  <2> QED
    BY <1>1, <2>1
<1>3. f[n] = ScanFrom(f, t, x, n)
  BY DEF Scans
<1> QED
  BY <1>2, <1>3 DEF ScanFrom

\* A text that is split at the places of an input means what it meant, unless
\* a place is its end or is followed by another; its places are kept always.
Kept(N, k, L, old) == Places(old) \subseteq Places(Mean(N, k, L))
Alike(N, k, L, old) == TextAfterPlaces(old) => Mean(N, k, L) = old /\ Good(L, k)

LEMMA SplitAtPlace ==
    ASSUME NEW N \in Nat, NEW k \in 0..N, NEW p \in Seq(Symbols), NEW e \in Items(N),
           e.kind # "text", NEW L \in Seq(Items(N)), NEW old \in Seq(Items(N)),
           Kept(N, k, L, old), old # <<>> => Alike(N, k, L, old)
    PROVE  /\ Kept(N, k, <<Text(p), e>> \o L, Scan(p, k) \o (<<e>> \o old))
           /\ Alike(N, k, <<Text(p), e>> \o L, Scan(p, k) \o (<<e>> \o old))
<1>1. PICK a \in Seq(Items(N)), o \in Seq(Items(N)), m \in Seq(Items(N)), M \in Seq(Items(N)) :
         /\ a = Scan(p, k) /\ o = <<e>> /\ m = Mean(N, k, L)
         /\ M = Mean(N, k, <<Text(p), e>> \o L) /\ M = a \o (o \o m)
  <2>1. <<e>> \in Seq(Items(N))
    OBVIOUS
  <2>2. Scan(p, k) \in Seq(Items(N))
    BY TextMean
  <2>3. Mean(N, k, L) \in Seq(Items(N))
        /\ Mean(N, k, <<Text(p), e>> \o L) = Scan(p, k) \o (<<e>> \o Mean(N, k, L))
    BY PlaceMean
  <2>4. <<e>> \o Mean(N, k, L) \in Seq(Items(N))
    BY <2>1, <2>3, ConcatProperties
  <2>5. Scan(p, k) \o (<<e>> \o Mean(N, k, L)) \in Seq(Items(N))
    BY <2>2, <2>4, ConcatProperties
  <2> QED
    BY <2>1, <2>2, <2>3, <2>5
<1>2. ASSUME NEW q \in Seq(Items(N))
      PROVE  Elements(a \o (o \o q)) = Elements(a) \cup Elements(o) \cup Elements(q)
  <2>1. PICK r \in Seq(Items(N)) : r = o \o q
    BY ConcatProperties
  <2>2. Elements(a \o r) = Elements(a) \cup Elements(r)
    BY ElementsConcat
  <2>3. Elements(o \o q) = Elements(o) \cup Elements(q)
    BY ElementsConcat
  <2> QED
    BY <2>1, <2>2, <2>3
<1>3. Places(a \o (o \o old)) \subseteq Places(M)
  <2>1. Elements(M) = Elements(a) \cup Elements(o) \cup Elements(m)
    BY <1>1, <1>2
  <2>2. Elements(a \o (o \o old)) = Elements(a) \cup Elements(o) \cup Elements(old)
    BY <1>2
  <2>3. Places(old) \subseteq Places(m)
    BY <1>1 DEF Kept
  <2> QED
    BY <2>1, <2>2, <2>3 DEF Places
<1>4. ASSUME TextAfterPlaces(a \o (o \o old))
      PROVE  M = a \o (o \o old) /\ Good(<<Text(p), e>> \o L, k)
  <2>1. TextAfterPlaces(a) /\ TextAfterPlaces(old) /\ old # <<>>
    BY <1>1, <1>4, PlacesApart
  <2>2. m = old /\ Good(L, k)
    BY <1>1, <2>1 DEF Alike
  <2>3. Elements(<<Text(p), e>> \o L) = {Text(p), e} \cup Elements(L)
    BY PlaceElements
  <2>4. Text(p).text = p
    BY ItemKinds
  <2>5. Good(<<Text(p), e>> \o L, k)
    BY <1>1, <2>1, <2>2, <2>3, <2>4 DEF Good
  <2> QED
    BY <1>1, <2>2, <2>5
<1> QED
  BY <1>1, <1>3, <1>4 DEF Kept, Alike

LEMMA SplitText1 ==
    ASSUME NEW N \in Nat, NEW x \in 1..N, NEW t \in Seq(Symbols)
    PROVE  /\ SplitText(x, t) \in Seq(Items(N))
           /\ Kept(N, x - 1, SplitText(x, t), Scan(t, x))
           /\ Alike(N, x - 1, SplitText(x, t), Scan(t, x))
<1>1. PICK len \in Nat, k \in 0..N : len = Len(t) /\ k = x - 1 /\ x \in Nat
  OBVIOUS
<1>2. PICK f \in BackValues(Len(t), Seq(Items(N))) : Scans(f, t, x) /\ Scan(t, x) = f[1]
  <2>1. x \in 0..N
    OBVIOUS
  <2> QED
    BY <1>1, <2>1, ScanIs
<1>3. PICK g \in BackValues(Len(t), Seq(Items(N))) : Splits(g, t, x) /\ SplitText(x, t) = g[1]
  BY <1>1, SplitTextIs
<1>4. \A i \in 1..len + 1 : f[i] \in Seq(Items(N)) /\ g[i] \in Seq(Items(N))
  BY <1>1, <1>2, <1>3 DEF BackValues
<1>5. f[len + 1] = <<>>
  BY <1>1, <1>2 DEF Scans
<1>5a. ASSUME NEW a, NEW b, Piece(t, a, b), Clear(t, x, a, b)
      PROVE  f[a] = Concat(Scan(SubSeq(t, a, b - 1), x - 1), f[b])
  BY <1>2, <1>5a, ScanPiece
<1> DEFINE T == {i \in 1..len + 1 :
                    /\ Kept(N, k, g[i], f[i])
                    /\ i <= len \/ len = 0 => Alike(N, k, g[i], f[i])}
<1>6. ASSUME NEW i \in 1..len + 1, \A j \in i + 1..len + 1 : j \in T PROVE i \in T
  <2>1. g[i] = SplitFrom(g, t, x, i)
    BY <1>1, <1>3 DEF Splits
  <2>2. CASE Ahead(t, x, i) # {}
    <3>1. PICK n : /\ n = Min(Ahead(t, x, i))
                   /\ n \in i..Len(t) /\ Fits(t, n, x) /\ t[n] \in PlaceKinds
                   /\ Clear(t, x, i, n)
                   /\ n + 1 + Len(Decimal(x)) \in i + 2..Len(t) + 1
      <4>1. i \in 1..Len(t) + 1
        BY <1>1
      <4> QED
        BY <1>1, <2>2, <4>1, AheadIs
    <3>2. PICK m \in i + 2..len + 1 : m = n + 1 + Len(Decimal(x))
      <4>1. n + 1 + Len(Decimal(x)) \in i + 2..len + 1
        BY <1>1, <3>1
      <4> QED
        BY <4>1
    <3>3. PICK p \in Seq(Symbols) : p = SubSeq(t, i, n - 1)
      <4>1. i \in 1..Len(t) + 1 /\ n \in i..Len(t) + 1
        BY <1>1, <3>1
      <4> QED
        BY <4>1, PieceIs
    <3>4. PICK e \in Items(N) : e = Place(t[n], x) /\ e.kind # "text"
      <4>1. Place(t[n], x) \in Items(N) /\ Place(t[n], x).kind # "text"
        BY <3>1, ItemKinds
      <4> QED
        BY <4>1
    <3>5. g[i] = <<Text(p), e>> \o g[m]
      BY <2>1, <2>2, <3>1, <3>2, <3>3, <3>4 DEF SplitFrom
    <3>6. f[i] = Scan(p, k) \o f[n]
      <4>1. Piece(t, i, n)
        BY <1>1, <3>1 DEF Piece
      <4>2. f[i] = Concat(Scan(SubSeq(t, i, n - 1), x - 1), f[n])
        BY <1>5a, <3>1, <4>1
      <4> QED
        BY <1>1, <3>3, <4>2 DEF Concat
    <3>7. f[n] = <<e>> \o f[m]
      <4>1. n \in 1..Len(t)
        BY <1>1, <3>1
      <4> QED
        BY <1>2, <3>1, <3>2, <3>4, <4>1, ScanPlace
    <3>8. m \in 1..len + 1 /\ m \in i + 1..len + 1 /\ i <= len
      BY <1>1, <3>1, <3>2
    <3>9. Kept(N, k, g[m], f[m]) /\ (m <= len => Alike(N, k, g[m], f[m]))
      BY <1>6, <3>8
    <3>10. f[m] # <<>> => Alike(N, k, g[m], f[m])
      <4>1. m = len + 1 \/ m <= len
        BY <3>8
      <4> QED
        BY <1>5, <3>9, <4>1
    <3>11. PICK L \in Seq(Items(N)), old \in Seq(Items(N)) : L = g[m] /\ old = f[m]
      BY <1>4, <3>8
    <3>12. /\ Kept(N, k, <<Text(p), e>> \o L, Scan(p, k) \o (<<e>> \o old))
           /\ Alike(N, k, <<Text(p), e>> \o L, Scan(p, k) \o (<<e>> \o old))
      BY <3>4, <3>9, <3>10, <3>11, SplitAtPlace
    <3> QED
      BY <3>5, <3>6, <3>7, <3>8, <3>11, <3>12
  <2>3. CASE Ahead(t, x, i) = {} /\ i <= len
    <3>1. PICK p \in Seq(Symbols) : p = SubSeq(t, i, (len + 1) - 1) /\ p = SubSeq(t, i, len)
      <4>1. len + 1 \in i..Len(t) + 1 /\ (len + 1) - 1 = len
        BY <1>1
      <4>2. SubSeq(t, i, (len + 1) - 1) \in Seq(Symbols)
        BY <1>1, <4>1, PieceIs
      <4> QED
        BY <4>1, <4>2
    <3>2. g[i] = <<Text(p)>>
      BY <1>1, <2>1, <2>3, <3>1 DEF SplitFrom
    <3>3. f[i] = Scan(p, k)
      <4>1. Piece(t, i, len + 1)
        BY <1>1 DEF Piece
      <4>2. Clear(t, x, i, len + 1)
        <5>1. \A j \in i..(len + 1) - 1 : j \in 1..Len(t) /\ j >= i
          BY <1>1
        <5>2. Found(t, x) = {j \in 1..Len(t) : Fits(t, j, x)}
          BY FoundIs
        <5> QED
          BY <2>3, <5>1, <5>2 DEF Ahead, Clear
      <4>3. f[i] = Concat(Scan(SubSeq(t, i, (len + 1) - 1), x - 1), f[len + 1])
        BY <1>5a, <4>1, <4>2
      <4>4. Scan(p, k) \in Seq(Items(N))
        BY TextMean
      <4>5. Scan(p, k) \o <<>> = Scan(p, k)
        BY <4>4, ConcatEmptySeq
      <4> QED
        BY <1>1, <1>5, <3>1, <4>3, <4>5 DEF Concat
    <3>4. Mean(N, k, <<Text(p)>>) = Scan(p, k)
      BY TextMean
    <3>5. Text(p).text = p /\ Elements(<<Text(p)>>) = {Text(p)}
      BY ItemKinds, ElementsOne
    <3> QED
      BY <3>2, <3>3, <3>4, <3>5 DEF Kept, Alike, Good
  <2>4. CASE Ahead(t, x, i) = {} /\ i = len + 1
    <3>1. g[i] = <<Text(t)>> /\ f[i] = <<>>
      BY <1>1, <1>5, <2>1, <2>4 DEF SplitFrom
    <3>2. Kept(N, k, g[i], f[i])
      BY <3>1, ElementsNone DEF Kept, Places
    <3>3. ASSUME len = 0 PROVE Alike(N, k, g[i], f[i])
      <4>1. Scan(t, k) = <<>>
        <5>1. PICK s : Scans(s, t, k) /\ Scan(t, k) = s[1]
          BY ScanIs
        <5> QED
          BY <1>1, <3>3, <5>1 DEF Scans
      <4>2. Mean(N, k, <<Text(t)>>) = Scan(t, k)
        BY TextMean
      <4>3. Text(t).text = t /\ Elements(<<Text(t)>>) = {Text(t)}
        BY ItemKinds, ElementsOne
      <4> QED
        BY <3>1, <4>1, <4>2, <4>3 DEF Alike, Good
    <3> QED
      BY <2>4, <3>2, <3>3
  <2> QED
    BY <2>2, <2>3, <2>4
<1>7. 1..len + 1 \subseteq T
  <2>1. len + 1 \in Nat
    OBVIOUS
  <2> HIDE DEF T
  <2> QED
    BY <1>6, <2>1, DownInduction
<1>8. 1 \in 1..len + 1 /\ (1 <= len \/ len = 0)
  OBVIOUS
<1>9. Kept(N, k, g[1], f[1]) /\ Alike(N, k, g[1], f[1])
  BY <1>7, <1>8
<1> QED
  BY <1>1, <1>2, <1>3, <1>4, <1>8, <1>9

\* The same for a list.
SplitOf(N, x) == [e \in Items(N) |-> IF e.kind # "text" THEN <<e>> ELSE SplitText(x, e.text)]

LEMMA SplitInputIs ==
    ASSUME NEW N \in Nat, NEW x \in 1..N
    PROVE  /\ SplitOf(N, x) \in Lists(Items(N), Items(N))
           /\ \A L \in Seq(Items(N)) : SplitInput(x, L) = Flat(SplitOf(N, x), L)
<1>1. ASSUME NEW e \in Items(N)
      PROVE  (IF e.kind # "text" THEN <<e>> ELSE SplitText(x, e.text)) \in Seq(Items(N))
  <2>1. e.text \in Seq(Symbols)
    BY DEF Items
  <2>2. SplitText(x, e.text) \in Seq(Items(N))
    BY <2>1, SplitText1
  <2>3. <<e>> \in Seq(Items(N))
    OBVIOUS
  <2> QED
    BY <2>2, <2>3
<1>2. SplitOf(N, x) \in Lists(Items(N), Items(N))
  BY <1>1 DEF SplitOf, Lists
<1>3. ASSUME NEW L \in Seq(Items(N)) PROVE SplitInput(x, L) = Flat(SplitOf(N, x), L)
  <2>1. \A i \in DOMAIN L : L[i] \in Items(N)
    OBVIOUS
  <2>2. \A i \in DOMAIN L : SplitOf(N, x)[L[i]] = IF L[i].kind # "text" THEN <<L[i]>>
                                                  ELSE SplitText(x, L[i].text)
    BY <2>1 DEF SplitOf
  <2>3. [i \in DOMAIN L |-> IF L[i].kind # "text" THEN <<L[i]>> ELSE SplitText(x, L[i].text)]
          = [i \in DOMAIN L |-> SplitOf(N, x)[L[i]]]
    BY <2>2
  <2> QED
    BY <2>3 DEF SplitInput, Flat
<1> QED
  BY <1>2, <1>3

LEMMA PlacesConcat ==
    ASSUME NEW S, NEW a \in Seq(S), NEW b \in Seq(S)
    PROVE  /\ Places(Concat(a, b)) = Places(a) \cup Places(b)
           /\ \A k : Good(a, k) /\ Good(b, k) <=> Good(Concat(a, b), k)
<1>1. Elements(Concat(a, b)) = Elements(a) \cup Elements(b)
  BY ElementsConcat DEF Concat
<1> QED
  BY <1>1 DEF Places, Good

LEMMA AppendConcat ==
    ASSUME NEW S, NEW a \in Seq(S), NEW e \in S
    PROVE  Append(a, e) = Concat(a, <<e>>) /\ <<e>> \in Seq(S)
<1>1. Append(a, e) = a \o <<e>>
  BY AppendIsConcat
<1>2. <<e>> \in Seq(S)
  OBVIOUS
<1> QED
  BY <1>1, <1>2 DEF Concat

LEMMA FlatConcatOne ==
    ASSUME NEW D, NEW S, NEW F \in Lists(D, S), NEW L \in Seq(D), NEW e \in D
    PROVE  Flat(F, Concat(L, <<e>>)) = Concat(Flat(F, L), F[e])
<1>1. Append(L, e) = Concat(L, <<e>>)
  BY AppendConcat
<1>2. Flat(F, Append(L, e)) = Flat(F, L) \o F[e]
  BY FlatAppend
<1> QED
  BY <1>1, <1>2 DEF Concat

LEMMA SplitItem ==
    ASSUME NEW N \in Nat, NEW x \in 1..N, NEW e \in Items(N)
    PROVE  LET L == SplitOf(N, x)[e]
               old == MeanOf(N, x)[e]
           IN  /\ L \in Seq(Items(N)) /\ old \in Seq(Items(N))
               /\ Kept(N, x - 1, L, old)
               /\ Good(<<e>>, x) => Mean(N, x - 1, L) = old /\ Good(L, x - 1)
<1>1. x - 1 \in 0..N /\ x \in 0..N
  OBVIOUS
<1>2. Elements(<<e>>) = {e}
  BY ElementsOne
<1>3. CASE e.kind = "text"
  <2>1. PICK t \in Seq(Symbols) : t = e.text
    BY DEF Items
  <2>2. SplitOf(N, x)[e] = SplitText(x, t) /\ MeanOf(N, x)[e] = Scan(t, x)
    BY <1>3, <2>1 DEF SplitOf, MeanOf
  <2>3. SplitText(x, t) \in Seq(Items(N)) /\ Kept(N, x - 1, SplitText(x, t), Scan(t, x))
        /\ Alike(N, x - 1, SplitText(x, t), Scan(t, x))
    BY SplitText1
  <2>4. Scan(t, x) \in Seq(Items(N))
    BY <1>1, TextMean
  <2>5. Good(<<e>>, x) => TextAfterPlaces(Scan(t, x))
    BY <1>2, <1>3, <2>1 DEF Good
  <2> QED
    BY <2>2, <2>3, <2>4, <2>5 DEF Alike
<1>4. CASE e.kind # "text"
  <2>1. SplitOf(N, x)[e] = <<e>> /\ MeanOf(N, x)[e] = <<e>> /\ MeanOf(N, x - 1)[e] = <<e>>
    BY <1>4 DEF SplitOf, MeanOf
  <2>2. <<e>> \in Seq(Items(N))
    OBVIOUS
  <2>3. MeanOf(N, x - 1) \in Lists(Items(N), Items(N))
    BY <1>1, MeanTyped
  <2>4. Mean(N, x - 1, <<e>>) = <<e>>
    BY <2>1, <2>3, FlatOne DEF Mean
  <2>5. Good(<<e>>, x - 1)
    BY <1>2, <1>4 DEF Good
  <2> QED
    BY <2>1, <2>2, <2>4, <2>5 DEF Kept
<1> QED
  BY <1>3, <1>4

LEMMA SplitList ==
    ASSUME NEW N \in Nat, NEW x \in 1..N, NEW list \in Seq(Items(N))
    PROVE  /\ SplitInput(x, list) \in Seq(Items(N))
           /\ Kept(N, x - 1, SplitInput(x, list), Mean(N, x, list))
           /\ Good(list, x) => /\ Mean(N, x - 1, SplitInput(x, list)) = Mean(N, x, list)
                               /\ Good(SplitInput(x, list), x - 1)
<1>1. PICK k \in 0..N : k = x - 1 /\ x \in 0..N
  OBVIOUS
<1>2. PICK G : /\ G = SplitOf(N, x) /\ G \in Lists(Items(N), Items(N))
               /\ \A L \in Seq(Items(N)) : SplitInput(x, L) = Flat(G, L)
  BY SplitInputIs
<1>3. PICK F \in Lists(Items(N), Items(N)) : F = MeanOf(N, x)
  BY <1>1, MeanTyped
<1>4. PICK H \in Lists(Items(N), Items(N)) : H = MeanOf(N, k)
  BY MeanTyped
<1> DEFINE Same(L) == /\ Places(Flat(F, L)) \subseteq Places(Flat(H, Flat(G, L)))
                      /\ Good(L, x) => /\ Flat(H, Flat(G, L)) = Flat(F, L)
                                       /\ Good(Flat(G, L), k)
           T == {L \in Seq(Items(N)) : Same(L)}
<1>5. <<>> \in T
  <2>1. <<>> \in Seq(Items(N))
    OBVIOUS
  <2>2. Flat(F, <<>>) = <<>> /\ Flat(G, <<>>) = <<>> /\ Flat(H, <<>>) = <<>>
    BY FlatNone
  <2>3. Good(<<>>, k)
    BY ElementsNone DEF Good
  <2> QED
    BY <2>1, <2>2, <2>3
<1>6. ASSUME NEW L \in Seq(Items(N)), NEW e \in Items(N), L \in T PROVE Append(L, e) \in T
  <2>1. Append(L, e) = Concat(L, <<e>>) /\ <<e>> \in Seq(Items(N))
    BY AppendConcat
  <2>2. Append(L, e) \in Seq(Items(N))
    OBVIOUS
  <2>3. PICK a \in Seq(Items(N)), b \in Seq(Items(N)) : a = Flat(G, L) /\ b = G[e]
    <3>1. Flat(G, L) \in Seq(Items(N))
      BY <1>2, FlatTyped
    <3>2. G[e] \in Seq(Items(N))
      BY <1>2, SplitItem
    <3> QED
      BY <3>1, <3>2
  <2>4. PICK c \in Seq(Items(N)), d \in Seq(Items(N)) : c = Flat(F, L) /\ d = F[e]
    <3>1. Flat(F, L) \in Seq(Items(N))
      BY FlatTyped
    <3>2. F[e] \in Seq(Items(N))
      BY <1>3, SplitItem
    <3> QED
      BY <3>1, <3>2
  <2>5. PICK v \in Seq(Items(N)), w \in Seq(Items(N)) : v = Flat(H, a) /\ w = Flat(H, b)
    <3>1. Flat(H, a) \in Seq(Items(N))
      BY FlatTyped
    <3>2. Flat(H, b) \in Seq(Items(N))
      BY FlatTyped
    <3> QED
      BY <3>1, <3>2
  <2>6. Flat(G, Append(L, e)) = Concat(a, b)
    BY <1>2, <2>1, <2>3, FlatConcatOne
  <2>7. Flat(F, Append(L, e)) = Concat(c, d)
    BY <2>1, <2>4, FlatConcatOne
  <2>8. Flat(H, Concat(a, b)) = Concat(v, w)
    BY <2>5, FlatConcat
  <2>9. /\ Places(d) \subseteq Places(w)
        /\ Good(<<e>>, x) => w = d /\ Good(b, k)
    <3>1. /\ Kept(N, k, G[e], F[e])
          /\ Good(<<e>>, x) => Mean(N, k, G[e]) = F[e] /\ Good(G[e], k)
      BY <1>1, <1>2, <1>3, SplitItem
    <3> QED
      BY <1>4, <2>3, <2>4, <2>5, <3>1 DEF Mean, Kept
  <2>10. /\ Places(c) \subseteq Places(v)
         /\ Good(L, x) => v = c /\ Good(a, k)
    BY <1>6, <2>3, <2>4, <2>5
  <2>11. Places(Concat(c, d)) = Places(c) \cup Places(d)
    BY PlacesConcat
  <2>12. Places(Concat(v, w)) = Places(v) \cup Places(w)
    BY PlacesConcat
  <2>13. Good(Append(L, e), x) => Good(L, x) /\ Good(<<e>>, x)
    BY <2>1, PlacesConcat
  <2>14. Good(a, k) /\ Good(b, k) => Good(Concat(a, b), k)
    BY PlacesConcat
  <2>15. Same(Append(L, e))
    BY <2>6, <2>7, <2>8, <2>9, <2>10, <2>11, <2>12, <2>13, <2>14
  <2> HIDE DEF Same
  <2> QED
    BY <2>2, <2>15
<1>7. Seq(Items(N)) \subseteq T
  <2> HIDE DEF T
  <2> QED
    BY <1>5, <1>6, SeqInduction
<1>8. Same(list)
  <2> HIDE DEF Same
  <2> QED
    BY <1>7
<1>9. SplitInput(x, list) = Flat(G, list) /\ Flat(G, list) \in Seq(Items(N))
  BY <1>2, FlatTyped
<1> QED
  BY <1>1, <1>3, <1>4, <1>8, <1>9 DEF Mean, Kept

\* The lists of the definition of Split, from the last input to the first.
LEMMA SplitIs ==
    ASSUME NEW n \in Nat, NEW sql \in Seq(Symbols)
    PROVE  \E l \in Values(n, Seq(Items(n))) :
              /\ l[0] = <<Text(sql)>>
              /\ \A k \in 1..n : l[k] = SplitInput(n + 1 - k, l[k - 1])
              /\ Split(sql, n) = l[n]
<1> DEFINE S == Seq(Items(n))
           a == <<Text(sql)>>
           h == [k \in 1..n |-> [v \in S |-> SplitInput(n + 1 - k, v)]]
           prev == [k \in 1..n |-> k - 1]
           D(l) == [k \in 0..n |-> IF k = 0 THEN <<Text(sql)>> ELSE SplitInput(InputOrder(n)[k], l[k - 1])]
           c == CHOOSE l : l = D(l)
<1>1. a \in S
  BY ItemKinds
<1>2. h \in Steps(n, S)
  <2>1. ASSUME NEW k \in 1..n, NEW v \in S PROVE SplitInput(n + 1 - k, v) \in S
    <3>1. n + 1 - k \in 1..n
      OBVIOUS
    <3> QED
      BY <3>1, SplitList
  <2> HIDE DEF S
  <2> QED
    BY <2>1 DEF Steps
<1>3. prev \in Backs(n)
  BY DEF Backs
<1>4. PICK f \in Values(n, S) : Obeys(f, n, a, h, prev)
  <2> HIDE DEF S, h, prev, a
  <2> QED
    BY <1>1, <1>2, <1>3, Recursion
<1>5. \A k \in 1..n : InputOrder(n)[k] = n + 1 - k
  BY DEF InputOrder
<1>6. ASSUME NEW l
      PROVE  D(l) = [k \in 0..n |-> IF k = 0 THEN a ELSE SplitInput(n + 1 - k, l[k - 1])]
  <2>1. ASSUME NEW k \in 0..n, k # 0 PROVE InputOrder(n)[k] = n + 1 - k
    BY <1>5, <2>1
  <2> QED
    BY <2>1
<1>7. f = D(f)
  <2>1. ASSUME NEW k \in 1..n PROVE f[k] = SplitInput(n + 1 - k, f[k - 1])
    <3>1. prev[k] = k - 1 /\ k - 1 \in 0..n
      OBVIOUS
    <3>2. f[k] = h[k][f[k - 1]] /\ f[k - 1] \in S
      <4> HIDE DEF S, h, prev
      <4> QED
        BY <1>4, <3>1 DEF Obeys, Values
    <3> HIDE DEF S
    <3> QED
      BY <3>2
  <2>2. f[0] = a /\ f = [k \in 0..n |-> f[k]]
    BY <1>4 DEF Obeys, Values
  <2>3. ASSUME NEW k \in 0..n PROVE f[k] = IF k = 0 THEN a ELSE SplitInput(n + 1 - k, f[k - 1])
    <3>1. k = 0 \/ k \in 1..n
      OBVIOUS
    <3> HIDE DEF a
    <3> QED
      BY <2>1, <2>2, <3>1
  <2> HIDE DEF D, S, h, prev, a
  <2> QED
    BY <1>6, <2>2, <2>3
<1>8. c = D(c)
  <2> HIDE DEF D, S, h, prev, a
  <2> QED
    BY <1>7
<1>9. Split(sql, n) = c[n]
  BY DEF Split
<1> HIDE DEF c
<1>10. c = [k \in 0..n |-> IF k = 0 THEN a ELSE SplitInput(n + 1 - k, c[k - 1])]
  <2> HIDE DEF D, a
  <2> QED
    BY <1>6, <1>8
<1> DEFINE T == {k \in 0..n : c[k] \in S}
<1>11. 0 \in T
  <2>1. 0 \in 0..n /\ c[0] = a
    BY <1>10
  <2> HIDE DEF S, a
  <2> QED
    BY <1>1, <2>1
<1>12. ASSUME NEW k \in 0..n - 1, k \in T PROVE k + 1 \in T
  <2>1. k + 1 \in 0..n /\ k + 1 # 0 /\ (k + 1) - 1 = k /\ n + 1 - (k + 1) \in 1..n
    OBVIOUS
  <2>2. c[k + 1] = SplitInput(n + 1 - (k + 1), c[k])
    <3> HIDE DEF a
    <3> QED
      BY <1>10, <2>1
  <2>3. c[k] \in S
    BY <1>12
  <2>4. SplitInput(n + 1 - (k + 1), c[k]) \in S
    BY <2>1, <2>3, SplitList
  <2> HIDE DEF S
  <2> QED
    BY <2>1, <2>2, <2>4
<1>13. 0..n \subseteq T
  <2> HIDE DEF T
  <2> QED
    BY <1>11, <1>12, Induction
<1>14. c \in Values(n, S)
  <2>1. c = [k \in 0..n |-> c[k]]
    BY <1>10
  <2> HIDE DEF S
  <2> QED
    BY <1>13, <2>1 DEF Values
<1>15. c[0] = a /\ \A k \in 1..n : c[k] = SplitInput(n + 1 - k, c[k - 1])
  <2>1. 0 \in 0..n /\ \A k \in 1..n : k \in 0..n /\ k # 0
    OBVIOUS
  <2> HIDE DEF a
  <2> QED
    BY <1>10, <2>1
<1> HIDE DEF S
<1> QED
  BY <1>9, <1>14, <1>15 DEF S

\* What a split template means, and the places it keeps.
LEMMA SplitMeans ==
    ASSUME NEW n \in Nat, NEW sql \in Seq(Symbols)
    PROVE  /\ Split(sql, n) \in Seq(Items(n))
           /\ Kept(n, 0, Split(sql, n), Scan(sql, n))
           /\ TextAfterPlaces(Scan(sql, n)) => Mean(n, 0, Split(sql, n)) = Scan(sql, n)
<1>1. PICK l \in Values(n, Seq(Items(n))) :
         /\ l[0] = <<Text(sql)>>
         /\ \A k \in 1..n : l[k] = SplitInput(n + 1 - k, l[k - 1])
         /\ Split(sql, n) = l[n]
  BY SplitIs
<1> DEFINE old == Scan(sql, n)
           T == {k \in 0..n : /\ Kept(n, n - k, l[k], old)
                              /\ TextAfterPlaces(old) => Mean(n, n - k, l[k]) = old /\ Good(l[k], n - k)}
<1>2. 0 \in T
  <2>1. n \in 0..n /\ n - 0 = n /\ 0 \in 0..n
    OBVIOUS
  <2>2. Mean(n, n, <<Text(sql)>>) = old
    BY <2>1, TextMean
  <2>3. TextAfterPlaces(old) => Good(<<Text(sql)>>, n)
    <3>1. Text(sql).text = sql /\ Elements(<<Text(sql)>>) = {Text(sql)}
      BY ItemKinds, ElementsOne
    <3> QED
      BY <3>1 DEF Good
  <2>4. Kept(n, n, <<Text(sql)>>, old)
    BY <2>2 DEF Kept
  <2> HIDE DEF old
  <2> QED
    BY <1>1, <2>1, <2>2, <2>3, <2>4
<1>3. ASSUME NEW k \in 0..n - 1, k \in T PROVE k + 1 \in T
  <2>1. PICK x \in 1..n : x = n - k
    OBVIOUS
  <2>2. k + 1 \in 1..n /\ n + 1 - (k + 1) = x /\ (k + 1) - 1 = k /\ n - (k + 1) = x - 1 /\ k + 1 \in 0..n
        /\ k \in 0..n
    BY <2>1
  <2>3. PICK L \in Seq(Items(n)) : L = l[k]
    BY <2>2 DEF Values
  <2>4. l[k + 1] = SplitInput(x, L)
    BY <1>1, <2>2, <2>3
  <2>5. /\ Kept(n, x - 1, SplitInput(x, L), Mean(n, x, L))
        /\ Good(L, x) => Mean(n, x - 1, SplitInput(x, L)) = Mean(n, x, L) /\ Good(SplitInput(x, L), x - 1)
    BY SplitList
  <2>6. /\ Kept(n, x, L, old)
        /\ TextAfterPlaces(old) => Mean(n, x, L) = old /\ Good(L, x)
    BY <1>3, <2>1, <2>3
  <2>7. Kept(n, x - 1, l[k + 1], old)
    BY <2>4, <2>5, <2>6 DEF Kept
  <2>8. TextAfterPlaces(old) => Mean(n, x - 1, l[k + 1]) = old /\ Good(l[k + 1], x - 1)
    BY <2>4, <2>5, <2>6
  <2> HIDE DEF old
  <2> QED
    BY <2>2, <2>7, <2>8
<1>4. 0..n \subseteq T
  <2> HIDE DEF T
  <2> QED
    BY <1>2, <1>3, Induction
<1>5. n \in 0..n /\ n - n = 0
  OBVIOUS
<1>6. n \in T
  <2> HIDE DEF T
  <2> QED
    BY <1>4, <1>5
<1>7. Kept(n, 0, l[n], old) /\ (TextAfterPlaces(old) => Mean(n, 0, l[n]) = old)
  <2> HIDE DEF old
  <2> QED
    BY <1>5, <1>6
<1>8. l[n] \in Seq(Items(n))
  BY <1>5 DEF Values
<1> QED
  BY <1>1, <1>7, <1>8

-----------------------------------------------------------------------------
(* What is put in the places.                                              *)

Spells(N, P) == \A e \in Items(N) : e.kind = "text" => P[e] = e.text

\* A text without inputs stands for itself, symbol after symbol.
LEMMA ScanZero ==
    ASSUME NEW N \in Nat, NEW P \in Lists(Items(N), Symbols), Spells(N, P), NEW p \in Seq(Symbols)
    PROVE  /\ Scan(p, 0) \in Seq(Items(N))
           /\ Flat(P, Scan(p, 0)) = p
           /\ Places(Scan(p, 0)) = {}
<1>1. PICK len \in Nat, n \in Nat : len = Len(p) /\ n = len + 1
  OBVIOUS
<1>2. PICK f \in BackValues(len, Seq(Items(N))) : Scans(f, p, 0) /\ Scan(p, 0) = f[1]
  <2>1. 0 \in 0..N
    OBVIOUS
  <2> QED
    BY <1>1, <2>1, ScanIs
<1>3. \A i \in 1..len + 1 : f[i] \in Seq(Items(N))
  BY <1>2 DEF BackValues
<1> DEFINE T == {i \in 1..len + 1 : Flat(P, f[i]) = SubSeq(p, i, n - 1) /\ Places(f[i]) = {}}
<1>4. ASSUME NEW i \in 1..len + 1, \A j \in i + 1..len + 1 : j \in T PROVE i \in T
  <2>1. PICK u \in Seq(Symbols) : /\ u = SubSeq(p, i, n - 1)
                                  /\ Len(u) = n - i
                                  /\ \A k \in 1..n - i : u[k] = p[i + k - 1]
    <3>1. i \in 1..Len(p) + 1 /\ n \in i..Len(p) + 1
      BY <1>1
    <3>2. /\ SubSeq(p, i, n - 1) \in Seq(Symbols)
          /\ Len(SubSeq(p, i, n - 1)) = n - i
          /\ \A k \in 1..n - i : SubSeq(p, i, n - 1)[k] = p[i + k - 1]
      BY <3>1, PieceIs
    <3> QED
      BY <3>2
  <2>2. CASE i = len + 1
    <3>1. f[i] = <<>>
      BY <1>1, <1>2, <2>2 DEF Scans
    <3>2. Flat(P, f[i]) = <<>> /\ Places(f[i]) = {}
      BY <3>1, FlatNone, ElementsNone DEF Places
    <3>3. u = <<>>
      <4>1. Len(u) = 0
        BY <1>1, <2>1, <2>2
      <4> QED
        BY <4>1, EmptySeq
    <3> QED
      BY <2>1, <3>2, <3>3
  <2>3. CASE i # len + 1
    <3>1. i \in 1..len /\ i + 1 \in i + 1..len + 1 /\ i + 1 \in 1..len + 1
      BY <2>3
    <3>0. PICK m \in Nat : m = i + 1
      OBVIOUS
    <3>2. PICK w \in Seq(Symbols) : /\ w = SubSeq(p, m, n - 1)
                                    /\ Len(w) = n - m
                                    /\ \A k \in 1..n - m : w[k] = p[m + k - 1]
      <4>1. m \in 1..Len(p) + 1 /\ n \in m..Len(p) + 1
        BY <1>1, <3>0, <3>1
      <4>2. /\ SubSeq(p, m, n - 1) \in Seq(Symbols)
            /\ Len(SubSeq(p, m, n - 1)) = n - m
            /\ \A k \in 1..n - m : SubSeq(p, m, n - 1)[k] = p[m + k - 1]
        BY <4>1, PieceIs
      <4> QED
        BY <4>2
    <3>3. PICK s \in Seq(Symbols) : s = <<p[i]>>
      <4>1. p[i] \in Symbols
        BY <1>1, <3>1
      <4>2. <<p[i]>> \in Seq(Symbols)
        BY <4>1
      <4> QED
        BY <4>2
    <3>4. PICK e \in Items(N) : e = Text(s) /\ e.kind = "text" /\ e.text = s
      BY ItemKinds
    <3>5. f[i] = Concat(<<e>>, f[i + 1])
      <4>1. At(p, 0, i) = {}
        BY DEF At
      <4>2. f[i] = ScanFrom(f, p, 0, i)
        BY <1>1, <1>2, <3>1 DEF Scans
      <4> QED
        BY <3>3, <3>4, <4>1, <4>2 DEF ScanFrom, Concat
    <3>6. PICK v \in Seq(Items(N)), o \in Seq(Items(N)) : v = f[i + 1] /\ o = <<e>>
      <4>1. f[i + 1] \in Seq(Items(N)) /\ <<e>> \in Seq(Items(N))
        BY <1>3, <3>1
      <4> QED
        BY <4>1
    <3>7. Flat(P, v) = w /\ Places(v) = {}
      BY <1>4, <3>0, <3>1, <3>2, <3>6
    <3>8. Flat(P, o) = s
      BY <3>4, <3>6, FlatOne DEF Spells
    <3>9. Flat(P, Concat(o, v)) = Concat(s, w)
      BY <3>7, <3>8, FlatConcat
    <3>10. Places(o) = {}
      BY <3>4, <3>6, ElementsOne DEF Places
    <3>11. Places(Concat(o, v)) = {}
      BY <3>7, <3>10, PlacesConcat
    <3>12. s \o w = u
      <4>1. /\ s \o w \in Seq(Symbols) /\ Len(s \o w) = Len(s) + Len(w)
            /\ \A k \in 1..Len(s) + Len(w) : (s \o w)[k] = IF k <= Len(s) THEN s[k] ELSE w[k - Len(s)]
        BY ConcatProperties
      <4>2. Len(s) = 1 /\ s[1] = p[i]
        BY <3>3
      <4>3. Len(s) + Len(w) = Len(u) /\ Len(u) \in Nat
        BY <1>1, <2>1, <3>0, <3>1, <3>2, <4>2
      <4>4. ASSUME NEW k \in 1..Len(u) PROVE (s \o w)[k] = u[k]
        <5>1. u[k] = p[i + k - 1]
          BY <2>1
        <5>2. CASE k = 1
          <6>1. i + 1 - 1 = i /\ 1 <= 1
            BY <3>1
          <6>2. (s \o w)[1] = s[1]
            BY <4>1, <4>2, <4>3, <5>2
          <6> QED
            BY <4>2, <5>1, <5>2, <6>1, <6>2
        <5>3. CASE k # 1
          <6>1. k - 1 \in 1..n - m /\ m + (k - 1) - 1 = i + k - 1 /\ ~(k <= 1)
            BY <1>1, <2>1, <3>0, <3>1, <5>3
          <6>2. w[k - 1] = p[m + (k - 1) - 1]
            BY <3>2, <6>1
          <6>3. (s \o w)[k] = w[k - 1]
            BY <4>1, <4>2, <4>3, <6>1
          <6> QED
            BY <5>1, <6>1, <6>2, <6>3
        <5> QED
          BY <5>2, <5>3
      <4>5. PICK q \in Seq(Symbols) : q = s \o w
        BY <4>1
      <4>6. Len(q) = Len(u) /\ \A k \in 1..Len(q) : q[k] = u[k]
        BY <4>1, <4>3, <4>4, <4>5
      <4>7. q = u
        BY <4>6, SeqEqual
      <4> QED
        BY <4>5, <4>7
    <3>13. Concat(s, w) = u
      BY <3>12 DEF Concat
    <3> QED
      BY <2>1, <3>5, <3>6, <3>9, <3>11, <3>13
  <2> QED
    BY <2>2, <2>3
<1>5. 1..len + 1 \subseteq T
  <2>1. len + 1 \in Nat
    OBVIOUS
  <2> HIDE DEF T
  <2> QED
    BY <1>4, <2>1, DownInduction
<1>6. 1 \in 1..len + 1
  OBVIOUS
<1>7. Flat(P, f[1]) = SubSeq(p, 1, n - 1) /\ Places(f[1]) = {}
  BY <1>5, <1>6
<1>8. SubSeq(p, 1, n - 1) = p
  <2>1. 1 \in 1..Len(p) + 1 /\ n \in 1..Len(p) + 1
    BY <1>1
  <2>2. PICK u \in Seq(Symbols) : /\ u = SubSeq(p, 1, n - 1)
                                  /\ Len(u) = n - 1
                                  /\ \A k \in 1..n - 1 : u[k] = p[1 + k - 1]
    BY <2>1, PieceIs
  <2>3. Len(u) = Len(p) /\ \A k \in 1..Len(u) : u[k] = p[k]
    <3>1. n - 1 = len /\ \A k \in 1..len : 1 + k - 1 = k
      BY <1>1
    <3> QED
      BY <1>1, <2>2, <3>1
  <2>4. u = p
    BY <2>3, SeqEqual
  <2> QED
    BY <2>2, <2>4
<1> QED
  BY <1>2, <1>3, <1>6, <1>7, <1>8

\* What is put in a list is put in what it means.
LEMMA SpellMean ==
    ASSUME NEW N \in Nat, NEW P \in Lists(Items(N), Symbols), Spells(N, P), NEW list \in Seq(Items(N))
    PROVE  /\ Flat(P, Mean(N, 0, list)) = Flat(P, list)
           /\ Places(Mean(N, 0, list)) \subseteq Elements(list)
<1>1. PICK F \in Lists(Items(N), Items(N)) : F = MeanOf(N, 0)
  <2>1. 0 \in 0..N
    OBVIOUS
  <2> QED
    BY <2>1, MeanTyped
<1> DEFINE Same(L) == Flat(P, Flat(F, L)) = Flat(P, L) /\ Places(Flat(F, L)) \subseteq Elements(L)
           T == {L \in Seq(Items(N)) : Same(L)}
<1>2. <<>> \in T
  <2>1. <<>> \in Seq(Items(N)) /\ Flat(F, <<>>) = <<>> /\ Places(<<>>) = {}
    BY FlatNone, ElementsNone DEF Places
  <2> QED
    BY <2>1
<1>3. ASSUME NEW L \in Seq(Items(N)), NEW e \in Items(N), L \in T PROVE Append(L, e) \in T
  <2>1. Append(L, e) = Concat(L, <<e>>) /\ Append(L, e) \in Seq(Items(N))
    BY AppendConcat
  <2>2. F[e] \in Seq(Items(N)) /\ Flat(P, F[e]) = P[e] /\ Places(F[e]) \subseteq {e}
    <3>1. CASE e.kind = "text"
      <4>1. e.text \in Seq(Symbols) /\ F[e] = Scan(e.text, 0) /\ P[e] = e.text
        BY <1>1, <3>1 DEF Items, MeanOf, Spells
      <4>2. PICK s \in Seq(Symbols) : s = e.text
        BY <4>1
      <4>3. Scan(s, 0) \in Seq(Items(N)) /\ Flat(P, Scan(s, 0)) = s /\ Places(Scan(s, 0)) = {}
        BY ScanZero
      <4> QED
        BY <4>1, <4>2, <4>3
    <3>2. CASE e.kind # "text"
      <4>1. F[e] = <<e>>
        BY <1>1, <3>2 DEF MeanOf
      <4>2. Flat(P, <<e>>) = P[e]
        BY FlatOne
      <4>3. Places(<<e>>) \subseteq {e}
        BY ElementsOne DEF Places
      <4>4. <<e>> \in Seq(Items(N))
        OBVIOUS
      <4> QED
        BY <4>1, <4>2, <4>3, <4>4
    <3> QED
      BY <3>1, <3>2
  <2>3. PICK a \in Seq(Items(N)), b \in Seq(Items(N)) : a = Flat(F, L) /\ b = F[e]
    BY <2>2, FlatTyped
  <2>4. Flat(F, Append(L, e)) = Concat(a, b)
    BY <2>1, <2>3, FlatConcatOne
  <2>5. Flat(P, Concat(a, b)) = Concat(Flat(P, a), Flat(P, b))
    BY FlatConcat
  <2>6. Flat(P, Append(L, e)) = Concat(Flat(P, L), P[e])
    BY <2>1, FlatConcatOne
  <2>7. Flat(P, a) = Flat(P, L) /\ Places(a) \subseteq Elements(L)
    BY <1>3, <2>3
  <2>8. Flat(P, Flat(F, Append(L, e))) = Flat(P, Append(L, e))
    BY <2>2, <2>3, <2>4, <2>5, <2>6, <2>7
  <2>9. Places(Concat(a, b)) = Places(a) \cup Places(b)
    BY PlacesConcat
  <2>10. Elements(Append(L, e)) = Elements(L) \cup {e}
    <3>1. PICK o \in Seq(Items(N)) : o = <<e>>
      <4>1. <<e>> \in Seq(Items(N))
        OBVIOUS
      <4> QED
        BY <4>1
    <3>2. Elements(L \o o) = Elements(L) \cup Elements(o)
      BY ElementsConcat
    <3>3. Elements(o) = {e}
      BY <3>1, ElementsOne
    <3>4. Append(L, e) = L \o o
      BY <2>1, <3>1 DEF Concat
    <3> QED
      BY <3>2, <3>3, <3>4
  <2>11. Same(Append(L, e))
    BY <2>2, <2>3, <2>4, <2>7, <2>8, <2>9, <2>10
  <2> HIDE DEF Same
  <2> QED
    BY <2>1, <2>11
<1>4. Seq(Items(N)) \subseteq T
  <2> HIDE DEF T
  <2> QED
    BY <1>2, <1>3, SeqInduction
<1>5. Same(list)
  <2> HIDE DEF Same
  <2> QED
    BY <1>4
<1> QED
  BY <1>1, <1>5 DEF Mean

LEMMA EraseTyped ==
    ASSUME NEW C, NEW s \in Seq(Symbols)
    PROVE  Erase(C, s) \in Seq(Symbols)
<1> DEFINE M == [i \in DOMAIN s |-> IF s[i] \in C THEN <<>> ELSE <<s[i]>>]
<1>1. M \in Seq(Seq(Symbols))
  <2>1. DOMAIN s = 1..Len(s) /\ Len(s) \in Nat
    OBVIOUS
  <2>2. ASSUME NEW i \in 1..Len(s)
        PROVE  (IF s[i] \in C THEN <<>> ELSE <<s[i]>>) \in Seq(Symbols)
    <3>1. <<>> \in Seq(Symbols) /\ <<s[i]>> \in Seq(Symbols)
      OBVIOUS
    <3> QED
      BY <3>1
  <2>3. M = [i \in 1..Len(s) |-> IF s[i] \in C THEN <<>> ELSE <<s[i]>>]
    BY <2>1
  <2> QED
    BY <2>1, <2>2, <2>3
<1> HIDE DEF M
<1>2. FlattenSeq(M) \in Seq(Symbols)
  BY <1>1, FlattenTyped
<1> QED
  BY <1>2 DEF Erase, M

LEMMA QuotedTyped ==
    ASSUME NEW s \in Seq(Symbols)
    PROVE  Quoted(s) \in Seq(Symbols) /\ QuotedHash(s) \in Seq(Symbols)
<1>1. Quote \in Symbols /\ "hash" \in Symbols /\ "Invalid SteamID" \in Symbols
  BY DEF Symbols
<1>2. <<Quote>> \in Seq(Symbols) /\ <<"hash">> \in Seq(Symbols) /\ <<"Invalid SteamID">> \in Seq(Symbols)
  <2>1. \A a \in Symbols : <<a>> \in Seq(Symbols)
    OBVIOUS
  <2> HIDE DEF Symbols
  <2> QED
    BY <1>1, <2>1
<1>3. ASSUME NEW t \in Seq(Symbols) PROVE <<Quote>> \o t \o <<Quote>> \in Seq(Symbols)
  <2>1. PICK q \in Seq(Symbols) : q = <<Quote>>
    BY <1>2
  <2>2. q \o t \in Seq(Symbols)
    BY ConcatProperties
  <2>3. (q \o t) \o q \in Seq(Symbols)
    BY <2>2, ConcatProperties
  <2> QED
    BY <2>1, <2>3
<1>4. Quoted(s) \in Seq(Symbols)
  <2>1. PICK t \in Seq(Symbols) : t = Erase({Quote}, s)
    BY EraseTyped
  <2> QED
    BY <1>3, <2>1 DEF Quoted
<1>5. Hash(s) \in Seq(Symbols)
  BY <1>2 DEF Hash
<1>6. QuotedHash(s) \in Seq(Symbols)
  <2>1. PICK t \in Seq(Symbols) : t = Hash(s)
    BY <1>5
  <2>2. <<Quote>> \o t \o <<Quote>> \in Seq(Symbols)
    BY <1>3
  <2> QED
    BY <2>1, <2>2 DEF QuotedHash
<1> QED
  BY <1>4, <1>6

\* Put as a function.
PutOf(N) == [e \in Items(N) |-> Put(e)]

LEMMA PutTyped ==
    ASSUME NEW N \in Nat, inputs \in Seq(Seq(Symbols)), Len(inputs) = N
    PROVE  /\ PutOf(N) \in Lists(Items(N), Symbols) /\ Spells(N, PutOf(N))
           /\ \A L \in Seq(Items(N)) : Flat(PutOf(N), L) = FlattenSeq([i \in DOMAIN L |-> Put(L[i])])
<1>1. ASSUME NEW e \in Items(N)
      PROVE  Put(e) \in Seq(Symbols) /\ (e.kind = "text" => Put(e) = e.text)
  <2>1. CASE e.kind = "text"
    <3>1. Put(e) = e.text /\ e.text \in Seq(Symbols)
      BY <2>1 DEF Put, Items
    <3> QED
      BY <3>1
  <2>2. CASE e.kind # "text"
    <3>1. e.input \in 1..N
      BY <2>2 DEF Items
    <3>2. PICK s \in Seq(Symbols) : s = inputs[e.input]
      BY <3>1
    <3>3. Put(e) = s \/ Put(e) = Quoted(s) \/ Put(e) = QuotedHash(s)
      BY <2>2, <3>2 DEF Put
    <3>4. Put(e) \in Seq(Symbols)
      BY <3>3, QuotedTyped
    <3> QED
      BY <2>2, <3>4
  <2> QED
    BY <2>1, <2>2
<1>2. PutOf(N) \in Lists(Items(N), Symbols) /\ Spells(N, PutOf(N))
  BY <1>1 DEF PutOf, Lists, Spells
<1>3. ASSUME NEW L \in Seq(Items(N))
      PROVE  Flat(PutOf(N), L) = FlattenSeq([i \in DOMAIN L |-> Put(L[i])])
  <2>1. \A i \in DOMAIN L : L[i] \in Items(N)
    OBVIOUS
  <2>2. \A i \in DOMAIN L : PutOf(N)[L[i]] = Put(L[i])
    BY <2>1 DEF PutOf
  <2>3. [i \in DOMAIN L |-> PutOf(N)[L[i]]] = [i \in DOMAIN L |-> Put(L[i])]
    BY <2>2
  <2> QED
    BY <2>3 DEF Flat
<1> QED
  BY <1>2, <1>3

-----------------------------------------------------------------------------
(* RunsTemplate and OnlyCheckedRuns.                                       *)

Texts == Seq(Symbols)

\* A statement of DB_CUSTOM_V3 was put together from what init made of its
\* template, and all that was put into it passes.
Wrote(n) ==
    LET list == Split(call.sql[n], call.number_of_inputs)
    IN  /\ executed[n] = FlattenSeq([i \in DOMAIN list |-> Put(list[i])])
        /\ \A i \in DOMAIN list : Passes(list[i])

V3Inv ==
    protocol = "v3" /\ pc = "running" =>
        /\ call.number_of_inputs \in Nat
        /\ call.sql \in Seq(Texts)
        /\ inputs \in Seq(Texts)
        /\ Len(inputs) = call.number_of_inputs
        /\ executed \in Seq(Texts)
        /\ Len(executed) <= Len(call.sql)
        /\ \A n \in 1..Len(executed) : Wrote(n)

ProcedureInv ==
    protocol = "procedure" /\ executed # <<>> =>
        /\ Check(call.name)
        /\ \A i \in DOMAIN inputs : Check(inputs[i])

CallsInv == V3Inv /\ ProcedureInv

LEMMA SeqGrows ==
    ASSUME NEW A, NEW B, A \subseteq B, NEW s \in Seq(A)
    PROVE  s \in Seq(B)
OBVIOUS

LEMMA TextsAre ==
    ASSUME NEW ss \in Seq(Seq(STRING))
    PROVE  ss \in Seq(Texts)
<1>1. STRING \subseteq Symbols
  BY DEF Symbols
<1>2. Seq(STRING) \subseteq Texts
  BY <1>1, SeqGrows, Zenon DEF Texts
<1> QED
  BY <1>2, SeqGrows, Zenon

LEMMA StrippedTyped ==
    ASSUME NEW def, NEW args \in Seq(Texts)
    PROVE  Stripped(def, args) \in Seq(Texts) /\ Len(Stripped(def, args)) = Len(args)
<1>1. CASE def.bad_chars_action \in {"STRIP", "STRIP+LOG", "STRIP+ERROR"}
  <2>1. DOMAIN args = 1..Len(args) /\ Len(args) \in Nat
    OBVIOUS
  <2>2. ASSUME NEW i \in 1..Len(args) PROVE Strip(def.bad_chars, args[i]) \in Texts
    <3>1. PICK s \in Seq(Symbols) : s = args[i]
      BY DEF Texts
    <3>2. Erase(Range(Front(def.bad_chars)), s) \in Seq(Symbols)
      BY EraseTyped
    <3> QED
      BY <3>1, <3>2 DEF Strip, Texts
  <2>3. Stripped(def, args) = [i \in 1..Len(args) |-> Strip(def.bad_chars, args[i])]
    BY <1>1, <2>1 DEF Stripped
  <2> QED
    BY <2>1, <2>2, <2>3
<1>2. CASE def.bad_chars_action \notin {"STRIP", "STRIP+LOG", "STRIP+ERROR"}
  BY <1>2 DEF Stripped
<1> QED
  BY <1>1, <1>2

LEMMA CallsAtFirst == Init => CallsInv
<1> SUFFICES ASSUME Init PROVE CallsInv
  OBVIOUS
<1>1. protocol = "none"
  BY DEF Init
<1> QED
  BY <1>1 DEF CallsInv, V3Inv, ProcedureInv

\* The steps of a call of another protocol, or that end one of DB_CUSTOM_V3.
LEMMA OtherCalls ==
    ASSUME protocol' \notin {"v3", "procedure"} \/ (protocol' = "v3" /\ pc' # "running")
    PROVE  CallsInv'
  BY DEF CallsInv, V3Inv, ProcedureInv

LEMMA V3BeginsKept ==
    ASSUME NEW c, NEW args \in Arguments, V3Begins(c, args)
    PROVE  CallsInv'
<1>1. /\ protocol' = "v3" /\ executed' = <<>>
      /\ c \in DOMAIN CustomV3 /\ CustomV3[c].number_of_inputs = Len(args)
      /\ call' = CustomV3[c]
      /\ inputs' = Stripped(CustomV3[c], args)
  BY DEF V3Begins, Begin, Begins
<1>2. args \in Seq(Seq(STRING)) /\ CustomV3[c].sql \in Seq(Seq(STRING))
  BY <1>1, CallsAssumption, Zenon
<1>3. args \in Seq(Texts) /\ CustomV3[c].sql \in Seq(Texts)
  BY <1>2, TextsAre
<1>4. /\ call'.number_of_inputs \in Nat
      /\ call'.sql \in Seq(Texts)
      /\ inputs' \in Seq(Texts)
      /\ Len(inputs') = call'.number_of_inputs
  <2>1. Len(args) \in Nat
    BY <1>3
  <2> QED
    BY <1>1, <1>3, <2>1, StrippedTyped
<1>5. /\ executed' \in Seq(Texts)
      /\ Len(executed') <= Len(call'.sql)
      /\ \A n \in 1..Len(executed') : FALSE
  <2>1. <<>> \in Seq(Texts) /\ Len(<<>>) = 0
    OBVIOUS
  <2>2. Len(call'.sql) \in Nat
    BY <1>4
  <2> QED
    BY <1>1, <2>1, <2>2
<1>6. V3Inv'
  BY <1>4, <1>5, Zenon DEF V3Inv
<1>7. ProcedureInv'
  BY <1>1 DEF ProcedureInv
<1> QED
  BY <1>6, <1>7 DEF CallsInv

\* What a statement was put together from stays the same during a call.
LEMMA WroteStays ==
    ASSUME NEW n, Wrote(n), call' = call, inputs' = inputs, executed'[n] = executed[n]
    PROVE  Wrote(n)'
<1>1. \A e : Put(e)' = Put(e) /\ (Passes(e) => Passes(e)')
  BY DEF Put, Passes
<1> QED
  BY <1>1 DEF Wrote

LEMMA V3StatementKept ==
    ASSUME CallsInv, V3Statement
    PROVE  CallsInv'
<1>1. CASE pc' = "idle"
  <2>1. protocol' = "v3"
    BY DEF V3Statement, Running
  <2> QED
    BY <1>1, <2>1, OtherCalls
<1>2. CASE pc' # "idle"
  <2> DEFINE list == Split(call.sql[Len(executed) + 1], call.number_of_inputs)
             text == FlattenSeq([i \in DOMAIN list |-> Put(list[i])])
  <2>1. /\ pc = "running" /\ protocol = "v3" /\ Len(executed) < Len(call.sql)
        /\ protocol' = protocol /\ call' = call /\ inputs' = inputs
        /\ executed' = Append(executed, text)
        /\ \A i \in DOMAIN list : Passes(list[i])
    BY <1>2 DEF V3Statement, Running, Throws, Ends
  <2>2. /\ call.number_of_inputs \in Nat
        /\ call.sql \in Seq(Texts)
        /\ inputs \in Seq(Texts)
        /\ Len(inputs) = call.number_of_inputs
        /\ executed \in Seq(Texts)
        /\ \A n \in 1..Len(executed) : Wrote(n)
    BY <2>1 DEF CallsInv, V3Inv
  <2>3. PICK N \in Nat, sql \in Seq(Symbols), k \in Nat :
            N = call.number_of_inputs /\ k = Len(executed) + 1 /\ sql = call.sql[k]
    BY <2>1, <2>2 DEF Texts
  <2>4. text \in Texts
    <3>1. PICK L \in Seq(Items(N)) : L = Split(sql, N)
      BY SplitMeans
    <3>2. inputs \in Seq(Seq(Symbols)) /\ Len(inputs) = N
      BY <2>2, <2>3 DEF Texts
    <3>3. Flat(PutOf(N), L) = text /\ PutOf(N) \in Lists(Items(N), Symbols)
      BY <2>3, <3>1, <3>2, PutTyped
    <3>4. Flat(PutOf(N), L) \in Seq(Symbols)
      BY <3>3, FlatTyped
    <3> QED
      BY <3>3, <3>4 DEF Texts
  <2> HIDE DEF text
  <2>5. /\ executed' \in Seq(Texts)
        /\ Len(executed') = k
        /\ executed'[k] = text
        /\ \A n \in 1..k : n # k => n \in 1..Len(executed) /\ executed'[n] = executed[n]
    BY <2>1, <2>2, <2>3, <2>4
  <2>6. ASSUME NEW n \in 1..Len(executed') PROVE Wrote(n)'
    <3>1. CASE n = k
      <4>1. \A e : Put(e)' = Put(e) /\ (Passes(e) => Passes(e)')
        BY <2>1 DEF Put, Passes
      <4> QED
        BY <2>1, <2>3, <2>5, <3>1, <4>1 DEF Wrote, text
    <3>2. CASE n # k
      <4>1. Wrote(n) /\ executed'[n] = executed[n]
        BY <2>2, <2>5, <3>2
      <4> QED
        BY <2>1, <4>1, WroteStays
    <3> QED
      BY <3>1, <3>2
  <2>7. Len(executed') <= Len(call'.sql)
    <3>1. Len(call.sql) \in Nat /\ Len(executed) \in Nat
      BY <2>2
    <3> QED
      BY <2>1, <2>3, <2>5, <3>1
  <2>8. V3Inv'
    BY <2>1, <2>2, <2>5, <2>6, <2>7, Zenon DEF V3Inv
  <2>9. ProcedureInv'
    BY <2>1 DEF ProcedureInv
  <2> QED
    BY <2>8, <2>9 DEF CallsInv
<1> QED
  BY <1>1, <1>2

\* The steps of a call that keep what it executed.
LEMMA ExecutedStays ==
    ASSUME CallsInv, protocol' = protocol, call' = call, inputs' = inputs, executed' = executed,
           pc' # "running"
    PROVE  CallsInv'
<1>1. V3Inv'
  BY DEF V3Inv
<1>2. ProcedureInv'
  BY DEF CallsInv, ProcedureInv
<1> QED
  BY <1>1, <1>2 DEF CallsInv

\* A call refused has executed nothing.
LEMMA NothingKept ==
    ASSUME Nothing, pc' # "running"
    PROVE  CallsInv'
  BY DEF Nothing, CallsInv, V3Inv, ProcedureInv

LEMMA ProcedureCallKept ==
    ASSUME NEW p, ProcedureCall(p)
    PROVE  CallsInv'
<1>1. protocol' = "procedure" /\ call' = p /\ inputs' = p.inputs /\ Sanitized(p)
  BY DEF ProcedureCall, Begin, Begins
<1>2. ProcedureInv'
  BY <1>1 DEF ProcedureInv, Sanitized
<1> QED
  BY <1>1, <1>2 DEF CallsInv, V3Inv

LEMMA CallsKept ==
    CallsInv /\ [Next]_vars => CallsInv'
<1> SUFFICES ASSUME CallsInv, [Next]_vars PROVE CallsInv'
  OBVIOUS
<1>1. CASE UNCHANGED vars
  <2>1. /\ protocol' = protocol /\ call' = call /\ inputs' = inputs /\ executed' = executed
        /\ pc' = pc
    BY <1>1 DEF vars
  <2>2. CASE pc' # "running"
    BY <2>1, <2>2, ExecutedStays
  <2>3. CASE pc' = "running"
    <3>1. V3Inv'
      <4>1. \A n : Wrote(n) => Wrote(n)'
        BY <2>1, WroteStays
      <4> QED
        BY <2>1, <4>1 DEF CallsInv, V3Inv
    <3>2. ProcedureInv'
      BY <2>1 DEF CallsInv, ProcedureInv
    <3> QED
      BY <3>1, <3>2 DEF CallsInv
  <2> QED
    BY <2>2, <2>3
<1>2. CASE Next
  <2>1. ASSUME NEW c, NEW args \in Arguments,
               \/ V3Refused(c, args) \/ V3Begins(c, args)
               \/ V5Refused(c, args) \/ V5Begins(c, args) \/ V5Overflows(c, args)
        PROVE  CallsInv'
    <3>1. CASE V3Refused(c, args)
      BY <3>1, NothingKept DEF V3Refused, Ends
    <3>2. CASE V5Refused(c, args) \/ V5Begins(c, args) \/ V5Overflows(c, args)
      BY <3>2, OtherCalls DEF V5Refused, V5Begins, V5Overflows, Begin, Begins
    <3> QED
      BY <2>1, <3>1, <3>2, V3BeginsKept
  <2>2. CASE V3Statement
    BY <2>2, V3StatementKept
  <2>3. CASE V3Result \/ V5Statement \/ V5Result
    <3>1. CASE V3Result
      BY <3>1, ExecutedStays DEF V3Result, Running, Ends
    <3>2. CASE V5Statement \/ V5Result
      BY <3>2, OtherCalls DEF V5Statement, V5Result, Running
    <3> QED
      BY <2>3, <3>1, <3>2
  <2>4. CASE NoSession
    <3>1. CASE Begin("procedure") /\ Throws("Error") /\ Nothing
      BY <3>1, NothingKept DEF Throws, Ends
    <3>2. CASE (Running("v3") \/ Running("v5")) /\ Throws("Error") /\ UNCHANGED executed
      BY <3>2, ExecutedStays DEF Running, Throws, Ends
    <3> QED
      BY <2>4, <3>1, <3>2 DEF NoSession
  <2>5. ASSUME NEW sql, NEW quotes, RawCall(sql, quotes) \/ RawFails(sql) \/ LogCall(sql)
        PROVE  CallsInv'
    <3>1. CASE RawCall(sql, quotes) \/ RawFails(sql)
      BY <3>1, OtherCalls DEF RawCall, RawFails, RawBegins, Begin, Begins
    <3>2. CASE LogCall(sql)
      BY <3>2, NothingKept DEF LogCall, Throws, Ends
    <3> QED
      BY <2>5, <3>1, <3>2
  <2>6. CASE TooShort \/ NoSuchCall
    BY <2>6, NothingKept DEF TooShort, NoSuchCall, Ends
  <2>7. ASSUME NEW p, ProcedureRefused(p) \/ ProcedureCall(p)
        PROVE  CallsInv'
    <3>1. CASE ProcedureRefused(p)
      BY <3>1, NothingKept DEF ProcedureRefused, Ends
    <3> QED
      BY <2>7, <3>1, ProcedureCallKept
  <2>8. ASSUME NEW m \in Instances, Misc(m)
        PROVE  CallsInv'
    <3>1. ASSUME NEW data, Time(m, data) \/ Guid(m, data) \/ Test(data)
          PROVE  CallsInv'
      BY <3>1, NothingKept DEF Time, Guid, Test, Said, Throws, Ends
    <3>2. ASSUME NEW command, Digest(m, command)
          PROVE  CallsInv'
      BY <3>2, NothingKept DEF Digest, Said, Ends
    <3>3. CASE UnknownCommand \/ RandomRefused(m) \/ RandomString(m)
      BY <3>3, NothingKept DEF UnknownCommand, RandomRefused, RandomString, Ends
    <3>4. ASSUME NEW drawn, RandomUnique(m, drawn)
          PROVE  CallsInv'
      BY <3>4, NothingKept DEF RandomUnique, Ends
    <3> QED
      BY <2>8, <3>1, <3>2, <3>3, <3>4 DEF Misc
  <2> QED
    BY <1>2, <2>1, <2>2, <2>3, <2>4, <2>5, <2>6, <2>7, <2>8 DEF Next
<1> QED
  BY <1>1, <1>2

\* What a statement was put together from, and what its template means.
LEMMA WroteMeans ==
    ASSUME NEW N \in Nat, NEW sql \in Seq(Symbols), inputs \in Seq(Seq(Symbols)), Len(inputs) = N
    PROVE  /\ Scan(sql, N) \in Seq(Items(N)) /\ Split(sql, N) \in Seq(Items(N))
           /\ Places(Scan(sql, N)) \subseteq Elements(Split(sql, N))
           /\ TextAfterPlaces(Scan(sql, N)) =>
                 FlattenSeq([i \in DOMAIN Split(sql, N) |-> Put(Split(sql, N)[i])])
                     = FlattenSeq([i \in DOMAIN Scan(sql, N) |-> Put(Scan(sql, N)[i])])
<1>1. PICK L \in Seq(Items(N)) :
          /\ L = Split(sql, N)
          /\ Kept(N, 0, L, Scan(sql, N))
          /\ TextAfterPlaces(Scan(sql, N)) => Mean(N, 0, L) = Scan(sql, N)
  BY SplitMeans
<1>2. PICK M \in Seq(Items(N)) : M = Scan(sql, N)
  <2>1. PICK f \in BackValues(Len(sql), Seq(Items(N))) : Scan(sql, N) = f[1]
    <3>1. N \in 0..N
      OBVIOUS
    <3> QED
      BY <3>1, ScanIs
  <2>2. 1 \in 1..Len(sql) + 1
    OBVIOUS
  <2> QED
    BY <2>1, <2>2 DEF BackValues
<1>3. PICK P \in Lists(Items(N), Symbols) :
          /\ Spells(N, P)
          /\ \A K \in Seq(Items(N)) : Flat(P, K) = FlattenSeq([i \in DOMAIN K |-> Put(K[i])])
  BY PutTyped
<1>4. Flat(P, Mean(N, 0, L)) = Flat(P, L) /\ Places(Mean(N, 0, L)) \subseteq Elements(L)
  BY <1>3, SpellMean
<1>5. Places(M) \subseteq Elements(L)
  BY <1>1, <1>2, <1>4 DEF Kept
<1>6. TextAfterPlaces(M) => Flat(P, L) = Flat(P, M)
  BY <1>1, <1>2, <1>4
<1>7. /\ Flat(P, L) = FlattenSeq([i \in DOMAIN L |-> Put(L[i])])
      /\ Flat(P, M) = FlattenSeq([i \in DOMAIN M |-> Put(M[i])])
  BY <1>3
<1> QED
  BY <1>1, <1>2, <1>5, <1>6, <1>7

\* While a DB_CUSTOM_V3 call runs.
LEMMA V3Means ==
    ASSUME V3Inv, protocol = "v3", pc = "running", NEW n \in DOMAIN executed
    PROVE  \E N \in Nat : \E L \in Seq(Items(N)), M \in Seq(Items(N)) :
              /\ Meaning[n] = M
              /\ Places(M) \subseteq Elements(L)
              /\ \A i \in DOMAIN L : Passes(L[i])
              /\ TextAfterPlaces(M) => executed[n] = FlattenSeq([i \in DOMAIN M |-> Put(M[i])])
<1>1. /\ call.number_of_inputs \in Nat
      /\ call.sql \in Seq(Seq(Symbols))
      /\ inputs \in Seq(Seq(Symbols))
      /\ Len(inputs) = call.number_of_inputs
      /\ executed \in Seq(Seq(Symbols))
      /\ Len(executed) <= Len(call.sql)
      /\ \A k \in 1..Len(executed) : Wrote(k)
  BY Zenon DEF V3Inv, Texts
<1>2. n \in 1..Len(executed) /\ n \in DOMAIN call.sql
  BY <1>1
<1>3. PICK N \in Nat, sql \in Seq(Symbols) : N = call.number_of_inputs /\ sql = call.sql[n]
  <2>1. call.sql[n] \in Seq(Symbols)
    BY <1>1, <1>2
  <2> QED
    BY <1>1, <2>1
<1>4. PICK L \in Seq(Items(N)), M \in Seq(Items(N)) :
          /\ L = Split(sql, N) /\ M = Scan(sql, N)
          /\ Places(M) \subseteq Elements(L)
          /\ TextAfterPlaces(M) => FlattenSeq([i \in DOMAIN L |-> Put(L[i])])
                                       = FlattenSeq([i \in DOMAIN M |-> Put(M[i])])
  BY <1>1, <1>3, WroteMeans
<1>5. executed[n] = FlattenSeq([i \in DOMAIN L |-> Put(L[i])]) /\ \A i \in DOMAIN L : Passes(L[i])
  BY <1>1, <1>2, <1>3, <1>4 DEF Wrote
<1>6. Meaning[n] = M
  BY <1>2, <1>3, <1>4 DEF Meaning
<1> QED
  BY <1>4, <1>5, <1>6

LEMMA InvRunsTemplate == CallsInv => RunsTemplate
<1> SUFFICES ASSUME CallsInv, protocol = "v3", pc = "running", NEW n \in DOMAIN executed,
                    TextAfterPlaces(Meaning[n])
             PROVE  executed[n] = FlattenSeq([i \in DOMAIN Meaning[n] |-> Put(Meaning[n][i])])
  BY DEF RunsTemplate, IsWhole
<1>1. PICK M : /\ Meaning[n] = M
               /\ TextAfterPlaces(M) => executed[n] = FlattenSeq([i \in DOMAIN M |-> Put(M[i])])
  BY V3Means DEF CallsInv
<1> QED
  BY <1>1

LEMMA InvOnlyChecked == CallsInv => OnlyCheckedRuns
<1> SUFFICES ASSUME CallsInv PROVE OnlyCheckedRuns
  OBVIOUS
<1>1. ASSUME protocol = "v3", pc = "running", call.sanitize_value_check,
             NEW n \in DOMAIN executed, NEW i \in DOMAIN Meaning[n],
             Meaning[n][i].kind \in {"$INPUT_", "$INPUT_STRING_"}
      PROVE  Check(Put(Meaning[n][i]))
  <2>0. PICK N \in Nat : \E L \in Seq(Items(N)), M \in Seq(Items(N)) :
            /\ Meaning[n] = M
            /\ Places(M) \subseteq Elements(L)
            /\ \A k \in DOMAIN L : Passes(L[k])
    BY <1>1, V3Means DEF CallsInv
  <2>1. PICK L \in Seq(Items(N)), M \in Seq(Items(N)) :
            /\ Meaning[n] = M
            /\ Places(M) \subseteq Elements(L)
            /\ \A k \in DOMAIN L : Passes(L[k])
    BY <2>0
  <2>2. PICK e \in Items(N) : e = M[i] /\ i \in 1..Len(M)
    BY <1>1, <2>1
  <2>3. e \in Places(M)
    <3>1. e.kind # "text"
      BY <1>1, <2>1, <2>2
    <3> QED
      BY <2>2, <3>1 DEF Places, Elements
  <2>4. PICK k \in 1..Len(L) : e = L[k]
    BY <2>1, <2>3 DEF Elements
  <2>5. Passes(e)
    BY <2>1, <2>4
  <2> QED
    BY <1>1, <2>1, <2>2, <2>5 DEF Passes
<1>2. ASSUME protocol = "procedure", executed # <<>>
      PROVE  /\ Check(call.name)
             /\ \A i \in DOMAIN inputs : Check(inputs[i])
  BY <1>2 DEF CallsInv, ProcedureInv
<1> QED
  BY <1>1, <1>2 DEF OnlyCheckedRuns

\* A DB_CUSTOM_V3 call executes a template in which text follows every place with
\* the places replaced by the stripped inputs they name, although init splits the
\* text once per input; of other templates the theorem says nothing.
THEOREM CallsRunTemplates == Spec => []RunsTemplate
<1> QED
  BY CallsAtFirst, CallsKept, InvRunsTemplate, PTL DEF Spec

\* What a DB_CUSTOM_V3 statement or a procedure call brings to the database passed
\* Sqf::check where the call asks for it, in templates of every form.  Nothing of
\* the kind holds of DB_CUSTOM_V5, where a check that passes forgets one that did
\* not (Abort).
THEOREM ChecksComeFirst == Spec => []OnlyCheckedRuns
<1> QED
  BY CallsAtFirst, CallsKept, InvOnlyChecked, PTL DEF Spec

-----------------------------------------------------------------------------
(* UniqueStrings.                                                          *)

Draws == [i : Nat, wanted : Int, retrys : Nat, stop : BOOLEAN, names : SUBSET Strings,
          list : Seq(Strings \cup {Comma})]

\* The strings of a list are new among the names, and differ.
Fresh(list, names, known) ==
    /\ \A k \in 1..Len(list) : list[k] \in Strings => list[k] \in names \ known
    /\ \A k, j \in 1..Len(list) : list[k] \in Strings /\ list[k] = list[j] => k = j
FreshDraws(known) == {st \in Draws : known \subseteq st.names /\ Fresh(st.list, st.names, known)}

LEMMA FreshGrows ==
    ASSUME NEW known, NEW names, NEW s \in Strings \ names, known \subseteq names,
           NEW list \in Seq(Strings \cup {Comma}), Fresh(list, names, known),
           NEW more \in {<<Comma, s>>, <<s>>}
    PROVE  /\ list \o more \in Seq(Strings \cup {Comma})
           /\ Fresh(list \o more, names \cup {s}, known)
<1> DEFINE S == Strings \cup {Comma}
           n == Len(list)
           l == list \o more
<1>0. list \in Seq(S) /\ s \in S /\ Comma \in S
  OBVIOUS
<1> HIDE DEF S
<1>1. more \in Seq(S) /\ Len(more) \in {1, 2} /\ more[Len(more)] = s
      /\ \A j \in 1..Len(more) : j # Len(more) => more[j] = Comma
  <2>1. CASE more = <<Comma, s>>
    <3>1. <<Comma, s>> \in Seq(S)
      BY <1>0
    <3>2. Len(<<Comma, s>>) = 2 /\ <<Comma, s>>[1] = Comma /\ <<Comma, s>>[2] = s
      OBVIOUS
    <3>3. \A j \in 1..2 : j # 2 => j = 1
      OBVIOUS
    <3> QED
      BY <2>1, <3>1, <3>2, <3>3
  <2>2. CASE more = <<s>>
    <3>1. <<s>> \in Seq(S)
      BY <1>0
    <3>2. Len(<<s>>) = 1 /\ <<s>>[1] = s
      OBVIOUS
    <3>3. \A j \in 1..1 : j = 1
      OBVIOUS
    <3> QED
      BY <2>2, <3>1, <3>2, <3>3
  <2> QED
    BY <2>1, <2>2
<1>2. /\ l \in Seq(S) /\ Len(l) = n + Len(more)
      /\ \A j \in 1..n + Len(more) : l[j] = IF j <= n THEN list[j] ELSE more[j - n]
  BY <1>0, <1>1, ConcatProperties
<1>3. n \in Nat /\ Comma \notin Strings
  <2>1. Comma \notin Strings
    BY CallsAssumption, Zenon
  <2>2. n \in Nat
    BY <1>0
  <2> QED
    BY <2>1, <2>2
<1>4. ASSUME NEW j \in 1..Len(l), l[j] \in Strings
      PROVE  \/ j \in 1..n /\ l[j] = list[j]
             \/ j = Len(l) /\ j \notin 1..n /\ l[j] = s
  <2>1. CASE j <= n
    BY <1>2, <1>3, <2>1
  <2>2. CASE j > n
    <3>1. j - n \in 1..Len(more) /\ l[j] = more[j - n]
      BY <1>1, <1>2, <1>3, <2>2
    <3>2. j - n = Len(more)
      BY <1>1, <1>3, <1>4, <3>1
    <3> QED
      BY <1>1, <1>2, <1>3, <2>2, <3>1, <3>2
  <2> QED
    BY <1>3, <2>1, <2>2
<1>5. \A j \in 1..n : list[j] \in Strings => list[j] \in names /\ list[j] \notin known
  BY DEF Fresh
<1> HIDE DEF l, n
<1>6. ASSUME NEW k \in 1..Len(l), l[k] \in Strings
      PROVE  l[k] \in (names \cup {s}) \ known
  BY <1>4, <1>5, <1>6
<1>7. ASSUME NEW k \in 1..Len(l), NEW j \in 1..Len(l), l[k] \in Strings, l[k] = l[j]
      PROVE  k = j
  <2>1. \/ k \in 1..n /\ l[k] = list[k]
        \/ k = Len(l) /\ l[k] = s
    BY <1>4, <1>7
  <2>2. \/ j \in 1..n /\ l[j] = list[j]
        \/ j = Len(l) /\ l[j] = s
    BY <1>4, <1>7
  <2>3. CASE k \in 1..n /\ l[k] = list[k] /\ j \in 1..n /\ l[j] = list[j]
    BY <1>7, <2>3 DEF Fresh, n
  <2>4. \A i \in 1..n : list[i] \in Strings => list[i] # s
    BY <1>5
  <2> QED
    BY <1>7, <2>1, <2>2, <2>3, <2>4
<1>8. Fresh(l, names \cup {s}, known)
  BY <1>6, <1>7 DEF Fresh
<1> QED
  BY <1>2, <1>8 DEF l, S

LEMMA DrawFresh ==
    ASSUME NEW known, NEW st \in FreshDraws(known), NEW s \in Strings
    PROVE  Draw(st, s) \in FreshDraws(known)
<1>1. st \in Draws /\ known \subseteq st.names /\ Fresh(st.list, st.names, known)
  BY DEF FreshDraws
<1>2. /\ st.i \in Nat /\ st.wanted \in Int /\ st.retrys \in Nat
      /\ st.names \in SUBSET Strings /\ st.list \in Seq(Strings \cup {Comma})
  BY <1>1 DEF Draws
<1>3. PICK i \in Nat : i = st.i + 1
  BY <1>2
<1>4. CASE st.i >= st.wanted \/ st.stop
  BY <1>4 DEF Draw
<1>5. CASE ~(st.i >= st.wanted \/ st.stop) /\ s \in st.names
  <2>1. PICK b \in BOOLEAN : b = (st.retrys + 1 > MaxRetrys)
    <3>1. CASE st.retrys + 1 > MaxRetrys
      <4>1. TRUE = (st.retrys + 1 > MaxRetrys)
        BY <3>1
      <4> QED
        BY <4>1
    <3>2. CASE ~(st.retrys + 1 > MaxRetrys)
      <4>1. FALSE = (st.retrys + 1 > MaxRetrys)
        BY <3>2
      <4> QED
        BY <4>1
    <3> QED
      BY <3>1, <3>2
  <2>2. PICK wanted \in Int, retrys \in Nat : wanted = st.wanted - 1 /\ retrys = st.retrys + 1
    BY <1>2
  <2> DEFINE e == [st EXCEPT !.i = i, !.wanted = wanted, !.retrys = retrys, !.stop = b]
  <2>3. e \in Draws /\ e.names = st.names /\ e.list = st.list
    BY <1>1 DEF Draws
  <2>4. Draw(st, s) = e
    BY <1>3, <1>5, <2>1, <2>2 DEF Draw
  <2> HIDE DEF e
  <2> QED
    BY <1>1, <2>3, <2>4 DEF FreshDraws
<1>6. CASE ~(st.i >= st.wanted \/ st.stop) /\ s \notin st.names
  <2> DEFINE more == IF st.i # 0 THEN <<Comma, s>> ELSE <<s>>
             list == st.list \o more
             names == st.names \cup {s}
             e == [st EXCEPT !.i = i, !.retrys = 0, !.names = names, !.list = list]
  <2>1. list \in Seq(Strings \cup {Comma}) /\ Fresh(list, names, known)
    <3>1. more \in {<<Comma, s>>, <<s>>}
      OBVIOUS
    <3> HIDE DEF more
    <3> QED
      BY <1>1, <1>2, <1>6, <3>1, FreshGrows
  <2>2. names \in SUBSET Strings /\ known \subseteq names /\ 0 \in Nat
    BY <1>1, <1>2
  <2>3. Draw(st, s) = e
    BY <1>3, <1>6 DEF Draw, Remember
  <2> HIDE DEF list, names
  <2>4. e \in Draws /\ e.names = names /\ e.list = list
    BY <1>1, <2>1, <2>2 DEF Draws
  <2> HIDE DEF e
  <2> QED
    BY <2>1, <2>2, <2>3, <2>4 DEF FreshDraws
<1> QED
  BY <1>4, <1>5, <1>6

\* What was drawn is a list of new strings.
LEMMA DrawnFresh ==
    ASSUME NEW m \in Instances, NEW n \in Nat, NEW drawn \in [1..n -> Strings],
           uniqueRandomVarNames[m] \in SUBSET Strings
    PROVE  Drawn(m, drawn) \in FreshDraws(uniqueRandomVarNames[m])
<1> DEFINE known == uniqueRandomVarNames[m]
           a == [i |-> 0, wanted |-> Len(drawn), retrys |-> 0, stop |-> FALSE,
                 names |-> known, list |-> <<>>]
           S == FreshDraws(known)
           h == [i \in 1..n |-> [st \in S |-> Draw(st, drawn[i])]]
           prev == [i \in 1..n |-> i - 1]
           D(f) == [i \in 0..Len(drawn) |-> IF i > 0 THEN Draw(f[i - 1], drawn[i]) ELSE a]
           c == CHOOSE f : f = D(f)
<1>1. Len(drawn) = n /\ n \in Nat
  OBVIOUS
<1>2. a \in S
  <2>1. <<>> \in Seq(Strings \cup {Comma}) /\ Fresh(<<>>, known, known)
    BY EmptySeq DEF Fresh
  <2>2. a \in Draws
    BY <1>1, <2>1 DEF Draws
  <2> QED
    BY <2>1, <2>2 DEF FreshDraws
<1> HIDE DEF a, known
<1>3. h \in Steps(n, S)
  <2>1. ASSUME NEW i \in 1..n, NEW st \in S PROVE Draw(st, drawn[i]) \in S
    BY DrawFresh
  <2> HIDE DEF S
  <2> QED
    BY <2>1 DEF Steps
<1>4. prev \in Backs(n)
  BY <1>1 DEF Backs
<1>5. PICK f \in Values(n, S) : Obeys(f, n, a, h, prev)
  <2> HIDE DEF S, h, prev
  <2> QED
    BY <1>1, <1>2, <1>3, <1>4, Recursion
<1>6. f = D(f)
  <2>1. ASSUME NEW i \in 1..n PROVE f[i] = Draw(f[i - 1], drawn[i])
    <3>1. prev[i] = i - 1 /\ i - 1 \in 0..n
      BY <1>1
    <3>2. f[i] = h[i][f[i - 1]] /\ f[i - 1] \in S
      <4> HIDE DEF S, h, prev
      <4> QED
        BY <1>5, <3>1 DEF Obeys, Values
    <3> HIDE DEF S
    <3> QED
      BY <3>2
  <2>2. f[0] = a /\ f \in [0..n -> S]
    BY <1>5 DEF Obeys, Values
  <2>3. ASSUME NEW i \in 0..n PROVE f[i] = IF i > 0 THEN Draw(f[i - 1], drawn[i]) ELSE a
    <3>1. i = 0 \/ (i \in 1..n /\ i > 0)
      BY <1>1
    <3> HIDE DEF S
    <3> QED
      BY <2>1, <2>2, <3>1
  <2> HIDE DEF S, h, prev
  <2> QED
    BY <1>1, <2>2, <2>3
<1>7. c = D(c)
  <2> HIDE DEF S, h, prev
  <2> QED
    BY <1>6
<1>8. Drawn(m, drawn) = c[n]
  BY <1>1 DEF Drawn, a, known
<1> HIDE DEF c
<1> DEFINE T == {i \in 0..n : c[i] \in S}
<1>9. 0 \in T
  <2>1. 0 \in 0..n /\ c[0] = a
    BY <1>1, <1>7
  <2> HIDE DEF S
  <2> QED
    BY <1>2, <2>1
<1>10. ASSUME NEW i \in 0..n - 1, i \in T PROVE i + 1 \in T
  <2>1. i + 1 \in 0..n /\ i + 1 > 0 /\ (i + 1) - 1 = i /\ i + 1 \in 1..n
    BY <1>1
  <2>2. c[i + 1] = Draw(c[i], drawn[i + 1])
    BY <1>1, <1>7, <2>1
  <2>3. c[i] \in S /\ drawn[i + 1] \in Strings
    BY <1>10, <2>1
  <2>4. c[i + 1] \in S
    BY <2>2, <2>3, DrawFresh
  <2> HIDE DEF S
  <2> QED
    BY <2>1, <2>4
<1>11. 0..n \subseteq T
  <2> HIDE DEF T
  <2> QED
    BY <1>1, <1>9, <1>10, Induction
<1> QED
  BY <1>1, <1>8, <1>11 DEF known

\* A string an instance answered with is known to it.
UniqueInv ==
    /\ uniqueRandomVarNames \in [Instances -> SUBSET Strings]
    /\ handedOut \in [Instances -> [Strings -> Nat]]
    /\ UniqueStrings
    /\ \A m \in Instances, s \in Strings : handedOut[m][s] # 0 => s \in uniqueRandomVarNames[m]

LEMMA CountFresh ==
    ASSUME NEW known, NEW names, NEW list \in Seq(Strings \cup {Comma}), NEW s \in Strings,
           Fresh(list, names, known)
    PROVE  LET count == Cardinality({k \in DOMAIN list : list[k] = s})
           IN  count \in {0, 1} /\ (count # 0 => s \in names \ known)
<1> DEFINE K == {k \in DOMAIN list : list[k] = s}
<1>1. DOMAIN list = 1..Len(list)
  OBVIOUS
<1>2. CASE K = {}
  BY <1>2, FS_EmptySet
<1>3. CASE K # {}
  <2>1. PICK k \in 1..Len(list) : list[k] = s
    BY <1>1, <1>3
  <2>2. K = {k}
    BY <1>1, <2>1 DEF Fresh
  <2>3. Cardinality(K) = 1
    BY <2>2, FS_Singleton
  <2>4. s \in names \ known
    BY <2>1 DEF Fresh
  <2> HIDE DEF K
  <2> QED
    BY <2>3, <2>4 DEF K
<1> QED
  BY <1>2, <1>3

LEMMA UniqueAtFirst == Init => UniqueInv
<1> SUFFICES ASSUME Init PROVE UniqueInv
  OBVIOUS
<1> QED
  BY DEF Init, UniqueInv, UniqueStrings

LEMMA UniqueKept ==
    UniqueInv /\ [Next]_vars => UniqueInv'
<1> SUFFICES ASSUME UniqueInv, [Next]_vars PROVE UniqueInv'
  OBVIOUS
<1>1. ASSUME UNCHANGED <<uniqueRandomVarNames, handedOut>> PROVE UniqueInv'
  BY <1>1 DEF UniqueInv, UniqueStrings
<1>2. ASSUME NEW m \in Instances, NEW n \in 1..MaxWanted, NEW drawn \in [1..n -> Strings],
             RandomUnique(m, drawn)
      PROVE  UniqueInv'
  <2>1. n \in Nat /\ uniqueRandomVarNames[m] \in SUBSET Strings
    BY DEF UniqueInv
  <2>2. PICK st \in FreshDraws(uniqueRandomVarNames[m]) : st = Drawn(m, drawn)
    BY <2>1, DrawnFresh
  <2>3. /\ st.list \in Seq(Strings \cup {Comma}) /\ st.names \in SUBSET Strings
        /\ uniqueRandomVarNames[m] \subseteq st.names
        /\ Fresh(st.list, st.names, uniqueRandomVarNames[m])
    BY <2>2 DEF FreshDraws, Draws
  <2> DEFINE count(s) == Cardinality({k \in DOMAIN st.list : st.list[k] = s})
  <2>4. \A s \in Strings : count(s) \in {0, 1} /\ (count(s) # 0 => s \in st.names \ uniqueRandomVarNames[m])
    BY <2>3, CountFresh
  <2>5. /\ uniqueRandomVarNames' = [uniqueRandomVarNames EXCEPT ![m] = st.names]
        /\ handedOut' = [handedOut EXCEPT ![m] = [s \in Strings |-> handedOut[m][s] + count(s)]]
    BY <1>2, <2>2 DEF RandomUnique
  <2> HIDE DEF count
  <2>6. /\ handedOut \in [Instances -> [Strings -> Nat]]
        /\ \A k \in Instances, s \in Strings : handedOut[k][s] <= 1
        /\ \A k \in Instances, s \in Strings : handedOut[k][s] # 0 => s \in uniqueRandomVarNames[k]
        /\ uniqueRandomVarNames \in [Instances -> SUBSET Strings]
    BY DEF UniqueInv, UniqueStrings
  <2>7. uniqueRandomVarNames' \in [Instances -> SUBSET Strings]
    BY <2>3, <2>5, <2>6
  <2>8. handedOut' \in [Instances -> [Strings -> Nat]]
    <3>1. handedOut[m] \in [Strings -> Nat]
      BY <2>6
    <3>2. ASSUME NEW s \in Strings PROVE handedOut[m][s] + count(s) \in Nat
      <4>1. count(s) \in {0, 1} /\ handedOut[m][s] \in Nat
        BY <2>4, <3>1
      <4> QED
        BY <4>1
    <3>3. [s \in Strings |-> handedOut[m][s] + count(s)] \in [Strings -> Nat]
      BY <3>2
    <3> QED
      BY <2>5, <2>6, <3>3
  <2>9. ASSUME NEW k \in Instances, NEW s \in Strings
        PROVE  /\ handedOut'[k][s] <= 1
               /\ handedOut'[k][s] # 0 => s \in uniqueRandomVarNames'[k]
    <3>1. CASE k = m
      <4>1. handedOut'[m][s] = handedOut[m][s] + count(s) /\ uniqueRandomVarNames'[m] = st.names
        BY <2>5, <2>6
      <4>2. count(s) \in {0, 1} /\ (count(s) # 0 => s \in st.names \ uniqueRandomVarNames[m])
        BY <2>4
      <4>3. handedOut[m][s] \in Nat /\ handedOut[m][s] <= 1
            /\ (handedOut[m][s] # 0 => s \in uniqueRandomVarNames[m])
        BY <2>6
      <4> QED
        BY <2>3, <3>1, <4>1, <4>2, <4>3
    <3>2. CASE k # m
      BY <2>5, <2>6, <3>2
    <3> QED
      BY <3>1, <3>2
  <2> QED
    BY <2>7, <2>8, <2>9 DEF UniqueInv, UniqueStrings
<1>3. CASE UNCHANGED vars
  BY <1>1, <1>3 DEF vars
<1>4. CASE Next
  <2>1. ASSUME NEW c, NEW args,
               \/ V3Refused(c, args) \/ V3Begins(c, args)
               \/ V5Refused(c, args) \/ V5Begins(c, args) \/ V5Overflows(c, args)
        PROVE  UniqueInv'
    BY <1>1, <2>1 DEF V3Refused, V3Begins, V5Refused, V5Begins, V5Overflows, Begin
  <2>2. CASE V3Statement \/ V3Result \/ V5Statement \/ V5Result
    BY <1>1, <2>2 DEF V3Statement, V3Result, V5Statement, V5Result, Running
  <2>3. CASE NoSession
    BY <1>1, <2>3 DEF NoSession, Running, Begin
  <2>4. ASSUME NEW sql, NEW quotes, RawCall(sql, quotes) \/ RawFails(sql) \/ LogCall(sql)
        PROVE  UniqueInv'
    BY <1>1, <2>4 DEF RawCall, RawFails, LogCall, RawBegins, Begin
  <2>5. CASE TooShort \/ NoSuchCall
    BY <1>1, <2>5 DEF TooShort, NoSuchCall, Begin
  <2>6. ASSUME NEW p, ProcedureRefused(p) \/ ProcedureCall(p)
        PROVE  UniqueInv'
    BY <1>1, <2>6 DEF ProcedureRefused, ProcedureCall, Begin
  <2>7. ASSUME NEW m \in Instances, Misc(m)
        PROVE  UniqueInv'
    <3>1. ASSUME NEW data, Time(m, data) \/ Guid(m, data) \/ Test(data)
          PROVE  UniqueInv'
      BY <1>1, <3>1 DEF Time, Guid, Test, Said, Begin
    <3>2. ASSUME NEW command, Digest(m, command)
          PROVE  UniqueInv'
      BY <1>1, <3>2 DEF Digest, Said, Begin
    <3>3. CASE UnknownCommand \/ RandomRefused(m) \/ RandomString(m)
      BY <1>1, <3>3 DEF UnknownCommand, RandomRefused, RandomString, Begin
    <3> QED
      BY <1>2, <2>7, <3>1, <3>2, <3>3 DEF Misc
  <2> QED
    BY <1>4, <2>1, <2>2, <2>3, <2>4, <2>5, <2>6, <2>7 DEF Next
<1> QED
  BY <1>3, <1>4

\* RANDOM_UNIQUE_STRING: an instance never answers with a string twice.
THEOREM StringsStayUnique == Spec => []UniqueStrings
<1>1. UniqueInv => UniqueStrings
  BY DEF UniqueInv
<1> QED
  BY <1>1, UniqueAtFirst, UniqueKept, PTL DEF Spec
=============================================================================
