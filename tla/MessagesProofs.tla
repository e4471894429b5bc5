--------------------------- MODULE MessagesProofs ---------------------------
(***************************************************************************)
(* What the two codecs of the common library promise for every message,    *)
(* every limit and every capacity, WireCodec and DirectToken with the      *)
(* Buffer they use: no decoder reads behind its payload, the encoders hand *)
(* out the whole message or nothing, what arrives whole is read as it was  *)
(* sent, of the rest only the optional cuts are accepted, and a token is   *)
(* accepted exactly for the grants that were made.                         *)
(*                                                                         *)
(* Put, Get, Decimal, ValueOf, FlattenSeq and Grown are recursive.  A      *)
(* recursive definition is taken apart here by induction over the numbers, *)
(* with the set of numbers for which a fact holds in place of a predicate: *)
(* LeastNumber and AllNumbers, and Recursion for a function that is built  *)
(* step by step.                                                           *)
(***************************************************************************)
EXTENDS WireCodec, DirectToken, WellFoundedInduction, FiniteSetTheorems, SequenceTheorems, TLAPS

(* Every set of numbers has a least one, and so holds them all once it      *)
(* holds 0 and the successor of each.                                       *)
LEMMA LeastNumber ==
    ASSUME NEW T \in SUBSET Nat, T # {}
    PROVE  \E n \in T : \A m \in T : n <= m
<1> DEFINE R == OpToRel(<, Nat)
<1>1. \A m, n \in Nat : <<m, n>> \in R <=> m < n
  BY DEF OpToRel
<1>2. IsWellFoundedOn(R, Nat)
  BY NatLessThanWellFounded
<1> HIDE DEF R
<1>3. PICK n \in T : \A m \in T : <<m, n>> \notin R
  BY <1>2, WFMin
<1>4. \A m \in T : m \in Nat /\ n \in Nat /\ ~(m < n)
  BY <1>1, <1>3
<1>5. \A m \in T : n <= m
  BY <1>4
<1> QED BY <1>5

LEMMA AllNumbers ==
    ASSUME NEW P \in SUBSET Nat, 0 \in P, \A n \in P : n + 1 \in P
    PROVE  P = Nat
<1> SUFFICES ASSUME P # Nat PROVE FALSE
  OBVIOUS
<1>1. PICK n \in Nat \ P : \A m \in Nat \ P : n <= m
  BY LeastNumber
<1>2. n # 0 /\ n - 1 \in Nat
  BY <1>1
<1>3. n - 1 \in P
  BY <1>1, <1>2
<1> QED BY <1>1, <1>2, <1>3

(* A function on 0 .. N that starts at a and goes on with F. *)
Rule(S, N, F)    == F \in [1 .. N -> [S -> S]]
Goes(N, a, F, f) == f[0] = a /\ \A n \in 1 .. N : f[n] = F[n][f[n - 1]]

LEMMA Recursion ==
    ASSUME NEW S, NEW a \in S, NEW N \in Nat, NEW F, Rule(S, N, F)
    PROVE  \E f \in [0 .. N -> S] : Goes(N, a, F, f)
<1> USE DEF Rule, Goes
<1> DEFINE P == {k \in Nat : k <= N => \E g \in [0 .. k -> S] : Goes(k, a, F, g)}
<1>1. 0 \in P
  <2> DEFINE g == [n \in 0 .. 0 |-> a]
  <2>1. g \in [0 .. 0 -> S] /\ Goes(0, a, F, g)
    OBVIOUS
  <2> QED BY <2>1
<1>2. ASSUME NEW k \in P PROVE k + 1 \in P
  <2> SUFFICES ASSUME k + 1 <= N PROVE \E g \in [0 .. k + 1 -> S] : Goes(k + 1, a, F, g)
    OBVIOUS
  <2>1. PICK g \in [0 .. k -> S] : Goes(k, a, F, g)
    OBVIOUS
  <2>2. k + 1 \in 1 .. N /\ k \in 0 .. k /\ g[k] \in S
    OBVIOUS
  <2>3. F[k + 1] \in [S -> S] /\ F[k + 1][g[k]] \in S
    BY <2>2
  <2> DEFINE h == [n \in 0 .. k + 1 |-> IF n = k + 1 THEN F[k + 1][g[k]] ELSE g[n]]
  <2>4. h \in [0 .. k + 1 -> S]
    <3>1. \A n \in 0 .. k + 1 : n # k + 1 => n \in 0 .. k
      OBVIOUS
    <3> QED BY <2>3, <3>1
  <2>5. h[0] = a
    <3>1. 0 \in 0 .. k + 1 /\ 0 # k + 1
      OBVIOUS
    <3> QED BY <2>1, <3>1
  <2>6. \A n \in 1 .. k + 1 : h[n] = F[n][h[n - 1]]
    <3> SUFFICES ASSUME NEW n \in 1 .. k + 1 PROVE h[n] = F[n][h[n - 1]]
      OBVIOUS
    <3>1. CASE n = k + 1
      <4>1. n \in 0 .. k + 1 /\ n - 1 = k /\ k \in 0 .. k + 1 /\ k # k + 1
        BY <3>1
      <4> QED BY <3>1, <4>1
    <3>2. CASE n # k + 1
      <4>1. n \in 1 .. k /\ n \in 0 .. k + 1 /\ n - 1 \in 0 .. k + 1 /\ n - 1 # k + 1
        BY <3>2
      <4> QED BY <2>1, <3>2, <4>1
    <3> QED BY <3>1, <3>2
  <2> QED BY <2>4, <2>5, <2>6
<1>3. P = Nat
  BY <1>1, <1>2, AllNumbers
<1>4. N \in P
  BY <1>3
<1> QED BY <1>4

(* Two functions that start alike and go on alike are alike. *)
Together(N, f, g) ==
    f[0] = g[0] /\ \A n \in 1 .. N : f[n - 1] = g[n - 1] => f[n] = g[n]

LEMMA SameWay ==
    ASSUME NEW N \in Nat, NEW f, NEW g, Together(N, f, g)
    PROVE  \A n \in 0 .. N : f[n] = g[n]
<1> USE DEF Together
<1> DEFINE P == {k \in Nat : k <= N => f[k] = g[k]}
<1>1. 0 \in P
  OBVIOUS
<1>2. ASSUME NEW k \in P PROVE k + 1 \in P
  <2> SUFFICES ASSUME k + 1 <= N PROVE f[k + 1] = g[k + 1]
    OBVIOUS
  <2>1. (k + 1) - 1 = k /\ k + 1 \in 1 .. N /\ f[k] = g[k]
    OBVIOUS
  <2>2. f[(k + 1) - 1] = g[(k + 1) - 1]
    BY <2>1
  <2> QED BY <2>1, <2>2
<1>3. P = Nat
  BY <1>1, <1>2, AllNumbers
<1> QED
  <2> SUFFICES ASSUME NEW k \in 0 .. N PROVE f[k] = g[k]
    OBVIOUS
  <2>1. k \in P
    BY <1>3
  <2> QED BY <2>1

-----------------------------------------------------------------------------
(* Sequences of sequences, one after the other *)
LEMMA FlattenFacts ==
    ASSUME NEW S, NEW s \in Seq(Seq(S))
    PROVE  \E f \in [0 .. Len(s) -> Seq(S)] :
             /\ f[0] = <<>> /\ \A n \in 1 .. Len(s) : f[n] = f[n - 1] \o s[n]
             /\ FlattenSeq(s) = f[Len(s)]
<1> DEFINE F == [n \in 1 .. Len(s) |-> [x \in Seq(S) |-> x \o s[n]]]
<1>1. <<>> \in Seq(S) /\ Len(s) \in Nat /\ \A n \in 1 .. Len(s) : s[n] \in Seq(S)
  OBVIOUS
<1>2. PICK h \in [0 .. Len(s) -> Seq(S)] :
        h[0] = <<>> /\ \A n \in 1 .. Len(s) : h[n] = F[n][h[n - 1]]
  <2> DEFINE T == Seq(S)
             N == Len(s)
  <2>1. \A x, y \in T : x \o y \in T
    OBVIOUS
  <2>2. <<>> \in T /\ N \in Nat /\ \A n \in 1 .. N : s[n] \in T
    BY <1>1
  <2>3. F = [n \in 1 .. N |-> [x \in T |-> x \o s[n]]]
    OBVIOUS
  <2> HIDE DEF T, F, N
  <2>4. Rule(T, N, F)
    BY <2>1, <2>2, <2>3 DEF Rule
  <2>5. \E h \in [0 .. N -> T] : Goes(N, <<>>, F, h)
    BY <2>2, <2>4, Recursion
  <2> QED BY <2>5 DEF Goes, T, N
<1>3. \A n \in 1 .. Len(s) : h[n] = h[n - 1] \o s[n]
  <2> SUFFICES ASSUME NEW n \in 1 .. Len(s) PROVE h[n] = h[n - 1] \o s[n]
    OBVIOUS
  <2>1. n - 1 \in 0 .. Len(s)
    BY <1>1
  <2>2. h[n - 1] \in Seq(S)
    BY <2>1
  <2>3. h[n] = F[n][h[n - 1]]
    BY <1>2
  <2> QED BY <2>2, <2>3
<1>6. Len(s) # 0 => h[1] = s[1]
  <2> SUFFICES ASSUME Len(s) # 0 PROVE h[1] = s[1]
    OBVIOUS
  <2>1. 1 \in 1 .. Len(s) /\ 1 - 1 = 0
    BY <1>1
  <2>2. h[1] = <<>> \o s[1] /\ s[1] \in Seq(S)
    BY <1>1, <1>2, <1>3, <2>1
  <2>3. \A x \in Seq(S) : <<>> \o x = x
    OBVIOUS
  <2> QED BY <2>2, <2>3
<1> DEFINE Upto(g) == g = [i \in 1 .. Len(s) |-> IF i = 1 THEN s[i] ELSE g[i - 1] \o s[i]]
           g == CHOOSE g : Upto(g)
<1>4. CASE Len(s) = 0
  <2>1. s = <<>>
    BY <1>4
  <2> QED BY <1>2, <1>4, <2>1 DEF FlattenSeq
<1>5. CASE Len(s) # 0
  <2>1. Upto([i \in 1 .. Len(s) |-> h[i]])
    <3> SUFFICES ASSUME NEW i \in 1 .. Len(s)
                 PROVE  h[i] = IF i = 1 THEN s[i]
                               ELSE [j \in 1 .. Len(s) |-> h[j]][i - 1] \o s[i]
      OBVIOUS
    <3>1. CASE i = 1
      BY <1>5, <1>6, <3>1
    <3>2. CASE i # 1
      <4>1. i - 1 \in 1 .. Len(s)
        BY <3>2
      <4> QED BY <1>3, <3>2, <4>1
    <3> QED BY <3>1, <3>2
  <2>2. Upto(g)
    BY <2>1
  <2>3. FlattenSeq(s) = g[Len(s)]
    BY <1>5 DEF FlattenSeq
  <2> DEFINE e == [i \in 0 .. Len(s) |-> IF i = 0 THEN <<>> ELSE g[i]]
  <2> HIDE DEF g
  <2>4. e[0] = h[0]
    BY <1>2
  <2>5. \A n \in 1 .. Len(s) : e[n - 1] = h[n - 1] => e[n] = h[n]
    <3> SUFFICES ASSUME NEW n \in 1 .. Len(s), e[n - 1] = h[n - 1] PROVE e[n] = h[n]
      OBVIOUS
    <3>1. CASE n = 1
      <4>1. e[1] = g[1] /\ g[1] = s[1]
        BY <2>2, <3>1
      <4> QED BY <1>5, <1>6, <3>1, <4>1
    <3>2. CASE n # 1
      <4>1. n - 1 \in 1 .. Len(s) /\ n \in 0 .. Len(s) /\ n - 1 \in 0 .. Len(s)
        BY <3>2
      <4>2. g[n] = g[n - 1] \o s[n]
        BY <2>2, <3>2
      <4>3. e[n - 1] = g[n - 1] /\ e[n] = g[n]
        BY <1>1, <3>2, <4>1
      <4>4. h[n] = h[n - 1] \o s[n]
        BY <1>3
      <4> QED BY <4>2, <4>3, <4>4
    <3> QED BY <3>1, <3>2
  <2>6. \A n \in 0 .. Len(s) : e[n] = h[n]
    <3> HIDE DEF e
    <3>1. Together(Len(s), e, h)
      BY <2>4, <2>5 DEF Together
    <3> QED BY <1>1, <3>1, SameWay
  <2>7. g[Len(s)] = h[Len(s)]
    <3>1. Len(s) \in 0 .. Len(s)
      OBVIOUS
    <3> QED BY <1>5, <2>6, <3>1
  <2> QED BY <1>2, <1>3, <2>3, <2>7
<1> QED BY <1>4, <1>5

LEMMA FlattenType ==
    ASSUME NEW S, NEW s \in Seq(Seq(S))
    PROVE  FlattenSeq(s) \in Seq(S)
<1>1. PICK f \in [0 .. Len(s) -> Seq(S)] : FlattenSeq(s) = f[Len(s)]
  BY FlattenFacts
<1> QED BY <1>1

LEMMA FlattenEmpty == FlattenSeq(<<>>) = <<>>
  BY DEF FlattenSeq

LEMMA FlattenAppend ==
    ASSUME NEW S, NEW s \in Seq(Seq(S)), NEW e \in Seq(S)
    PROVE  FlattenSeq(Append(s, e)) = FlattenSeq(s) \o e
<1> DEFINE t == Append(s, e)
<1>1. /\ t \in Seq(Seq(S)) /\ Len(t) = Len(s) + 1 /\ Len(s) \in Nat
      /\ t[Len(s) + 1] = e /\ \A n \in 1 .. Len(s) : t[n] = s[n]
  OBVIOUS
<1> HIDE DEF t
<1>2. PICK f \in [0 .. Len(s) -> Seq(S)] :
        /\ f[0] = <<>> /\ \A n \in 1 .. Len(s) : f[n] = f[n - 1] \o s[n]
        /\ FlattenSeq(s) = f[Len(s)]
  BY FlattenFacts
<1>3. PICK g \in [0 .. Len(t) -> Seq(S)] :
        /\ g[0] = <<>> /\ \A n \in 1 .. Len(t) : g[n] = g[n - 1] \o t[n]
        /\ FlattenSeq(t) = g[Len(t)]
  BY <1>1, FlattenFacts
<1>4. \A n \in 1 .. Len(s) : f[n - 1] = g[n - 1] => f[n] = g[n]
  <2> SUFFICES ASSUME NEW n \in 1 .. Len(s), f[n - 1] = g[n - 1] PROVE f[n] = g[n]
    OBVIOUS
  <2>1. n \in 1 .. Len(t)
    BY <1>1
  <2> QED BY <1>1, <1>2, <1>3, <2>1
<1>5. f[Len(s)] = g[Len(s)]
  <2>1. Together(Len(s), f, g)
    BY <1>2, <1>3, <1>4 DEF Together
  <2>2. \A n \in 0 .. Len(s) : f[n] = g[n]
    <3>1. Len(s) \in Nat
      OBVIOUS
    <3> QED BY <2>1, <3>1, SameWay
  <2> QED BY <1>1, <2>2
<1>6. g[Len(t)] = g[Len(s)] \o e
  <2>1. Len(t) \in 1 .. Len(t) /\ Len(t) - 1 = Len(s)
    BY <1>1
  <2> QED BY <1>1, <1>3, <2>1
<1> QED BY <1>2, <1>3, <1>5, <1>6 DEF t

-----------------------------------------------------------------------------
(* Numbers as bytes *)
LEMMA ShiftedFacts ==
    ASSUME NEW n \in Nat, NEW k \in Nat
    PROVE  \E f \in [0 .. k -> Nat] :
             /\ f[0] = n /\ \A j \in 1 .. k : f[j] = f[j - 1] \div Base
             /\ Shifted(n, k) = f[k]
<1> DEFINE F == [j \in 1 .. k |-> [x \in Nat |-> x \div Base]]
<1>1. \A x \in Nat : x \div Base \in Nat
  BY BaseAssumption
<1>2. Rule(Nat, k, F)
  BY <1>1 DEF Rule
<1>3. PICK h \in [0 .. k -> Nat] : Goes(k, n, F, h)
  <2> HIDE DEF F
  <2> QED BY <1>2, Recursion
<1>4. \A j \in 1 .. k : h[j] = h[j - 1] \div Base
  <2> SUFFICES ASSUME NEW j \in 1 .. k PROVE h[j] = h[j - 1] \div Base
    OBVIOUS
  <2>1. h[j - 1] \in Nat
    OBVIOUS
  <2> QED BY <1>3, <2>1 DEF Goes
<1> DEFINE Upto(g) == g = [j \in 0 .. k |-> IF j = 0 THEN n ELSE g[j - 1] \div Base]
           g == CHOOSE g : Upto(g)
<1>5. Upto(h)
  BY <1>3, <1>4 DEF Goes
<1>6. Upto(g)
  BY <1>5
<1>7. Shifted(n, k) = g[k]
  BY DEF Shifted
<1> HIDE DEF g
<1>8. Together(k, g, h)
  BY <1>5, <1>6 DEF Together
<1>9. g[k] = h[k]
  <2>1. \A j \in 0 .. k : g[j] = h[j]
    BY <1>8, SameWay
  <2> QED BY <2>1
<1> QED BY <1>3, <1>4, <1>7, <1>9 DEF Goes

LEMMA PutType ==
    ASSUME NEW n \in Nat, NEW w \in Nat
    PROVE  Put(n, w) \in Seq(Bytes) /\ Len(Put(n, w)) = w
<1>1. ASSUME NEW i \in 1 .. w PROVE Shifted(n, w - i) % Base \in Bytes
  <2>1. w - i \in Nat
    OBVIOUS
  <2>2. PICK f \in [0 .. w - i -> Nat] : Shifted(n, w - i) = f[w - i]
    BY <2>1, ShiftedFacts
  <2>3. Shifted(n, w - i) \in Nat
    BY <2>1, <2>2
  <2> QED BY <2>3, BaseAssumption DEF Bytes
<1> QED BY <1>1 DEF Put

LEMMA GetFacts ==
    ASSUME NEW s \in Seq(Nat)
    PROVE  \E f \in [0 .. Len(s) -> Nat] :
             /\ f[0] = 0 /\ \A i \in 1 .. Len(s) : f[i] = f[i - 1] * Base + s[i]
             /\ Get(s) = f[Len(s)]
<1> DEFINE F == [i \in 1 .. Len(s) |-> [x \in Nat |-> x * Base + s[i]]]
           k == Len(s)
<1>0. k \in Nat /\ \A i \in 1 .. k : s[i] \in Nat
  OBVIOUS
<1>1. \A x, y \in Nat : x * Base + y \in Nat
  BY BaseAssumption
<1>2. Rule(Nat, k, F)
  BY <1>0, <1>1 DEF Rule
<1> HIDE DEF k
<1>3. PICK h \in [0 .. k -> Nat] : Goes(k, 0, F, h)
  <2> HIDE DEF F
  <2> QED BY <1>0, <1>2, Recursion
<1>4. \A j \in 1 .. k : h[j] = h[j - 1] * Base + s[j]
  <2> SUFFICES ASSUME NEW j \in 1 .. k PROVE h[j] = h[j - 1] * Base + s[j]
    OBVIOUS
  <2>1. h[j - 1] \in Nat
    BY <1>0
  <2> QED BY <1>3, <2>1 DEF Goes, k
<1> DEFINE Upto(g) == g = [i \in 0 .. k |-> IF i = 0 THEN 0 ELSE g[i - 1] * Base + s[i]]
           g == CHOOSE g : Upto(g)
<1>5. Upto(h)
  BY <1>3, <1>4 DEF Goes
<1>6. Upto(g)
  BY <1>5
<1>7. Get(s) = g[k]
  BY DEF Get, k
<1> HIDE DEF g
<1>8. Together(k, g, h)
  BY <1>0, <1>5, <1>6 DEF Together
<1>9. g[k] = h[k]
  <2>1. \A j \in 0 .. k : g[j] = h[j]
    BY <1>0, <1>8, SameWay
  <2> QED BY <1>0, <2>1
<1> QED BY <1>3, <1>4, <1>7, <1>9 DEF Goes, k

LEMMA GetType ==
    ASSUME NEW s \in Seq(Nat)
    PROVE  Get(s) \in Nat
<1>1. PICK f \in [0 .. Len(s) -> Nat] : Get(s) = f[Len(s)]
  BY GetFacts
<1> QED BY <1>1

-----------------------------------------------------------------------------
(* The buffer grows to what is needed, and not beyond the word. *)
LEMMA NoWrap ==
    ASSUME NEW a \in Nat, NEW m \in Nat, a < m
    PROVE  a % m = a
  OBVIOUS

Doubled(g, need, c) ==
    IF c >= need THEN c ELSE IF c > SizeMax \div 2 THEN need
    ELSE g[(2 * c) % (SizeMax + 1)]

(* Where the doubling ends, and what it goes on with where it does not. *)
Ends(need, c) == c >= need \/ c > SizeMax \div 2

LEMMA DoubledFacts ==
    ASSUME NEW need \in Nat, NEW c \in Nat, NEW g
    PROVE  /\ Ends(need, c) => Doubled(g, need, c) = IF c >= need THEN c ELSE need
           /\ ~Ends(need, c) => Doubled(g, need, c) = g[2 * c]
           /\ ~Ends(need, c) => 2 * c \in Nat /\ 2 * c <= SizeMax /\ (c > 0 => 2 * c > c)
           /\ ~Ends(need, c) => c < need
<1>1. SizeMax \in Nat /\ SizeMax \div 2 \in Int
  BY SizeAssumption
<1>2. CASE Ends(need, c)
  BY <1>2 DEF Ends, Doubled
<1>3. CASE ~Ends(need, c)
  <2>1. ~(c >= need) /\ ~(c > SizeMax \div 2)
    BY <1>3 DEF Ends
  <2>2. c <= SizeMax \div 2 /\ c < need
    BY <1>1, <2>1
  <2>3. 2 * c \in Nat /\ 2 * c <= SizeMax /\ 2 * c < SizeMax + 1 /\ SizeMax + 1 \in Nat
    BY <1>1, <2>2
  <2>4. (2 * c) % (SizeMax + 1) = 2 * c
    BY <2>3, NoWrap
  <2>5. Doubled(g, need, c) = g[2 * c]
    BY <2>1, <2>4 DEF Doubled
  <2>6. c > 0 => 2 * c > c
    OBVIOUS
  <2> QED BY <1>3, <2>2, <2>3, <2>5, <2>6
<1> QED BY <1>2, <1>3

Solves(g, need, from) == \A c \in Nat : c >= from => g[c] = Doubled(g, need, c)

LEMMA SolvesBelow ==
    ASSUME NEW need \in Nat, NEW c0 \in Nat, NEW g \in [Nat -> Nat], Solves(g, need, c0 + 1)
    PROVE  \E h \in [Nat -> Nat] : Solves(h, need, c0)
<1>1. Doubled(g, need, c0) \in Nat
  <2>1. CASE Ends(need, c0)
    BY <2>1, DoubledFacts
  <2>2. CASE ~Ends(need, c0)
    <3>1. Doubled(g, need, c0) = g[2 * c0] /\ 2 * c0 \in Nat
      BY <2>2, DoubledFacts
    <3> QED BY <3>1
  <2> QED BY <2>1, <2>2
<1> DEFINE h == [c \in Nat |-> IF c = c0 THEN Doubled(g, need, c0) ELSE g[c]]
<1>2. /\ h \in [Nat -> Nat] /\ h[c0] = Doubled(g, need, c0)
      /\ \A c \in Nat : c # c0 => h[c] = g[c]
  BY <1>1
<1> HIDE DEF h
<1>3. \A c \in Nat : c >= c0 => h[c] = Doubled(h, need, c)
  <2> SUFFICES ASSUME NEW c \in Nat, c >= c0 PROVE h[c] = Doubled(h, need, c)
    OBVIOUS
  <2>1. h[c] = Doubled(g, need, c)
    <3>1. c = c0 \/ (c # c0 /\ c >= c0 + 1)
      OBVIOUS
    <3> QED BY <1>2, <3>1 DEF Solves
  <2>2. CASE Ends(need, c)
    <3>1. \A f : Doubled(f, need, c) = IF c >= need THEN c ELSE need
      BY <2>2, DoubledFacts
    <3>2. Doubled(g, need, c) = Doubled(h, need, c)
      BY <3>1
    <3> QED BY <2>1, <3>2
  <2>3. CASE ~Ends(need, c)
    <3>1. Doubled(g, need, c) = g[2 * c] /\ Doubled(h, need, c) = h[2 * c]
      BY <2>3, DoubledFacts
    <3>2. 2 * c \in Nat /\ (c > 0 => 2 * c > c)
      BY <2>3, DoubledFacts
    <3>3. CASE c > 0
      <4>1. 2 * c # c0
        BY <3>2, <3>3
      <4>2. h[2 * c] = g[2 * c]
        BY <1>2, <3>2, <4>1
      <4> QED BY <2>1, <3>1, <4>2
    <3>4. CASE c = 0
      <4>1. 2 * c = c
        BY <3>4
      <4> QED BY <3>1, <4>1
    <3>5. c > 0 \/ c = 0
      OBVIOUS
    <3> QED BY <3>3, <3>4, <3>5
  <2> QED BY <2>2, <2>3
<1> QED BY <1>2, <1>3 DEF Solves

LEMMA DoublingExists ==
    ASSUME NEW need \in Nat, need <= SizeMax
    PROVE  \E g \in [Nat -> Nat] : Solves(g, need, 0)
<1> DEFINE P == {k \in Nat : \A n \in Nat : n + k >= SizeMax =>
                               \E g \in [Nat -> Nat] : Solves(g, need, n)}
<1>0. SizeMax \in Nat
  BY SizeAssumption
<1>1. 0 \in P
  <2> DEFINE g == [c \in Nat |-> c]
  <2>1. g \in [Nat -> Nat] /\ \A c \in Nat : g[c] = c
    OBVIOUS
  <2> HIDE DEF g
  <2> SUFFICES ASSUME NEW n \in Nat, n + 0 >= SizeMax PROVE Solves(g, need, n)
    BY <2>1
  <2> SUFFICES ASSUME NEW c \in Nat, c >= n PROVE g[c] = Doubled(g, need, c)
    BY DEF Solves
  <2>2. c >= need
    BY <1>0
  <2> QED BY <2>1, <2>2 DEF Doubled
<1>2. \A k \in P : k + 1 \in P
  <2> SUFFICES ASSUME NEW k \in P PROVE k + 1 \in P
    OBVIOUS
  <2>0. k \in Nat /\ k + 1 \in Nat
    OBVIOUS
  <2> SUFFICES ASSUME NEW n \in Nat, n + (k + 1) >= SizeMax
               PROVE  \E g \in [Nat -> Nat] : Solves(g, need, n)
    BY <2>0
  <2>1. k \in Nat /\ n + 1 \in Nat /\ (n + 1) + k >= SizeMax
    BY <1>0
  <2>2. \E g \in [Nat -> Nat] : Solves(g, need, n + 1)
    BY <2>1
  <2> QED BY <2>2, SolvesBelow
<1>3. P = Nat
  <2> HIDE DEF P
  <2>1. P \in SUBSET Nat
    BY DEF P
  <2> QED BY <1>1, <1>2, <2>1, AllNumbers
<1>4. SizeMax \in P
  BY <1>0, <1>3
<1>5. 0 \in Nat /\ 0 + SizeMax >= SizeMax
  BY <1>0
<1>6. \A n \in Nat : n + SizeMax >= SizeMax => \E g \in [Nat -> Nat] : Solves(g, need, n)
  BY <1>4
<1> QED BY <1>5, <1>6

LEMMA DoublingEnds ==
    ASSUME NEW need \in Nat, need <= SizeMax, NEW g, Solves(g, need, 0)
    PROVE  \A c \in 1 .. SizeMax : g[c] \in need .. SizeMax
<1> DEFINE Q == {k \in Nat : \A c \in 1 .. SizeMax : c + k >= SizeMax => g[c] \in need .. SizeMax}
<1>0. SizeMax \in Nat
  BY SizeAssumption
<1>1. \A c \in Nat : g[c] = Doubled(g, need, c)
  BY DEF Solves
<1>2. 0 \in Q
  <2> SUFFICES ASSUME NEW c \in 1 .. SizeMax, c + 0 >= SizeMax PROVE g[c] \in need .. SizeMax
    OBVIOUS
  <2>1. c \in Nat /\ c >= need /\ c \in need .. SizeMax
    BY <1>0
  <2>2. Doubled(g, need, c) = c
    BY <2>1 DEF Doubled
  <2> QED BY <1>1, <2>1, <2>2
<1>3. \A k \in Q : k + 1 \in Q
  <2> SUFFICES ASSUME NEW k \in Q PROVE k + 1 \in Q
    OBVIOUS
  <2>0. k \in Nat /\ k + 1 \in Nat
    OBVIOUS
  <2> SUFFICES ASSUME NEW c \in 1 .. SizeMax, c + (k + 1) >= SizeMax
               PROVE  g[c] \in need .. SizeMax
    BY <2>0
  <2>1. c \in Nat /\ k \in Nat /\ c > 0
    BY <1>0
  <2>2. g[c] = Doubled(g, need, c)
    BY <1>1, <2>1
  <2>3. CASE Ends(need, c)
    <3>1. Doubled(g, need, c) = IF c >= need THEN c ELSE need
      BY <2>1, <2>3, DoubledFacts
    <3> QED BY <1>0, <2>1, <2>2, <3>1
  <2>4. CASE ~Ends(need, c)
    <3>1. /\ Doubled(g, need, c) = g[2 * c]
          /\ 2 * c \in Nat /\ 2 * c <= SizeMax /\ 2 * c > c
      BY <2>1, <2>4, DoubledFacts
    <3>2. 2 * c \in 1 .. SizeMax /\ 2 * c + k >= SizeMax
      BY <1>0, <2>1, <3>1
    <3>3. g[2 * c] \in need .. SizeMax
      BY <3>2
    <3> QED BY <2>2, <3>1, <3>3
  <2> QED BY <2>3, <2>4
<1>4. Q = Nat
  <2> HIDE DEF Q
  <2>1. Q \in SUBSET Nat
    BY DEF Q
  <2> QED BY <1>2, <1>3, <2>1, AllNumbers
<1> QED
  <2> SUFFICES ASSUME NEW c \in 1 .. SizeMax PROVE g[c] \in need .. SizeMax
    OBVIOUS
  <2>1. SizeMax \in Q /\ c + SizeMax >= SizeMax
    BY <1>0, <1>4
  <2> QED BY <2>1

LEMMA GrownFacts ==
    ASSUME NEW b, NEW bytes, NEW need \in 0 .. SizeMax, need = Len(b.data) + Len(bytes),
           b.cap \in 0 .. SizeMax
    PROVE  Grown(b, bytes) \in need .. SizeMax
<1>1. SizeMax \in Nat /\ need \in Nat /\ need <= SizeMax
  BY SizeAssumption
<1> DEFINE Does(g) == g = [c \in Nat |-> Doubled(g, need, c)]
           g == CHOOSE g : Does(g)
<1>2. \E f : Does(f)
  <2>1. PICK f \in [Nat -> Nat] : Solves(f, need, 0)
    BY <1>1, DoublingExists
  <2>2. \A c \in Nat : f[c] = Doubled(f, need, c)
    BY <2>1 DEF Solves
  <2> QED BY <2>2
<1>3. Does(g)
  BY <1>2
<1>4. Grown(b, bytes) = g[IF b.cap = 0 THEN FirstCap ELSE b.cap]
  BY DEF Grown, Doubled
<1> HIDE DEF g
<1>5. Solves(g, need, 0)
  BY <1>3 DEF Solves
<1>6. \A c \in 1 .. SizeMax : g[c] \in need .. SizeMax
  BY <1>1, <1>5, DoublingEnds
<1>7. (IF b.cap = 0 THEN FirstCap ELSE b.cap) \in 1 .. SizeMax
  BY <1>1, SizeAssumption
<1> QED BY <1>4, <1>6, <1>7

LEMMA AppendedFacts ==
    ASSUME NEW b \in [data : Seq(Bytes), cap : 0 .. SizeMax], Len(b.data) <= b.cap,
           NEW bytes \in Seq(Bytes), NEW memory, ~AppendFails(b, bytes, memory)
    PROVE  /\ Appended(b, bytes, memory) \in [data : Seq(Bytes), cap : 0 .. SizeMax]
           /\ Appended(b, bytes, memory).data = b.data \o bytes
           /\ Len(Appended(b, bytes, memory).data) <= Appended(b, bytes, memory).cap
<1>1. SizeMax \in Nat /\ b.data \in Seq(Bytes) /\ b.cap \in 0 .. SizeMax
  BY SizeAssumption
<1>2. /\ b.data \o bytes \in Seq(Bytes) /\ Len(b.data \o bytes) = Len(b.data) + Len(bytes)
      /\ Len(b.data) \in Nat /\ Len(bytes) \in Nat
  BY <1>1
<1>3. CASE bytes = <<>>
  <2>1. Appended(b, bytes, memory) = b /\ b.data \o bytes = b.data
    BY <1>1, <1>3 DEF Appended
  <2> QED BY <2>1
<1>4. CASE bytes # <<>>
  <2>1. ~Wraps(b, bytes) /\ (HasRoom(b, bytes) \/ memory)
    BY <1>4 DEF AppendFails
  <2>2. PICK need \in 0 .. SizeMax : need = Len(b.data) + Len(bytes)
    BY <1>1, <1>2, <2>1 DEF Wraps
  <2> DEFINE room == IF HasRoom(b, bytes) THEN b ELSE Reserved(b, Grown(b, bytes), memory)
  <2>3. Appended(b, bytes, memory) = [room EXCEPT !.data = @ \o bytes]
    BY <1>4 DEF Appended
  <2>4. /\ room \in [data : Seq(Bytes), cap : 0 .. SizeMax] /\ room.data = b.data
        /\ need <= room.cap
    <3>1. CASE HasRoom(b, bytes)
      BY <1>1, <2>2, <3>1 DEF HasRoom
    <3>2. CASE ~HasRoom(b, bytes)
      <4>1. Grown(b, bytes) \in need .. SizeMax
        BY <1>1, <2>2, GrownFacts
      <4>2. need > b.cap
        BY <1>1, <2>2, <3>2 DEF HasRoom
      <4>3. room = [b EXCEPT !.cap = Grown(b, bytes)]
        BY <1>1, <2>1, <2>2, <3>2, <4>1, <4>2 DEF Reserved
      <4> QED BY <1>1, <2>2, <4>1, <4>3
    <3> QED BY <3>1, <3>2
  <2> HIDE DEF room
  <2> QED BY <1>1, <1>2, <2>2, <2>3, <2>4
<1> QED BY <1>3, <1>4

-----------------------------------------------------------------------------
(* The payload codecs *)

(* What the decoder of a kind still has to find before each of its fields. *)
Needs(k) ==
    CASE k = "HELLO"       -> <<1, 0, 0, Limit.nonce>>
      [] k = "AUTH_NODE"   -> <<0, 0, Limit.sign>>
      [] k = "AUTH_TAP"    -> <<0, 0, 0, Limit.nonce>>
      [] k = "AUTH_OK"     -> <<20, 16, 12, 4>>
      [] k = "CONFIG_PUSH" -> <<11, 7, 3, 2, 1, 0, 0, 0, 6, 4, 0, 0, 0>>
      [] k = "TAP_FRAME"   -> <<6, 2, 0>>
      [] k = "SOCKS_OPEN"  -> <<4, 0, 0>>
      [] k = "SOCKS_DATA"  -> <<4, 0>>
      [] k = "SOCKS_CLOSE" -> <<4>>
      [] k = "SOCKS_CLOSE_REASON" -> <<8, 4, 2>>

Building == {"IDLE", "APPEND"}
Steps == {"IDLE", "APPEND", "NOT_ENCODED", "ENCODED", "RECEIVED", "DECODE",
          "ACCEPTED", "REFUSED"}

CodecType ==
    /\ pc \in Steps /\ at \in Nat \ {0} /\ pos \in Nat
    /\ buf \in [data : Seq(Bytes), cap : 0 .. SizeMax] /\ Len(buf.data) <= buf.cap
    /\ out \in Seq(Bytes) /\ payload \in Seq(Bytes)
    /\ pc # "IDLE" => msg \in Messages

Build ==
    /\ pc = "IDLE" => at = 1
    /\ pc = "APPEND" => /\ at <= Len(Pieces(msg)) + 1
                        /\ buf.data = FlattenSeq(SubSeq(Pieces(msg), 1, at - 1))
    /\ pc # "APPEND" => buf = Empty
    /\ pc \in Building => out = <<>>
    /\ out # <<>> => out = Encoding(msg) /\ Len(out) <= Cap

Inside ==
    /\ pc \in {"IDLE", "APPEND", "NOT_ENCODED", "ENCODED", "RECEIVED"} => pos = 0
    /\ ReadsInside
    /\ pc = "DECODE" =>
         /\ at <= Len(Fields(DecodedAs)) + 1
         /\ at <= Len(Fields(DecodedAs)) => Left >= Needs(DecodedAs)[at]

-----------------------------------------------------------------------------
IsForm(f) == f.as \in {"num", "raw", "text", "rest"} /\ f.size \in Nat
IsLayout(s) == \E n \in Nat : DOMAIN s = 1 .. n /\ Len(s) = n /\ \A i \in 1 .. n : IsForm(s[i])

LEMMA LimitFacts == \A f \in LimitNames : Limit[f] \in Nat
  BY LimitAssumption

LEMMA FormFacts ==
    /\ \A f, n : n \in Nat => IsForm(Num(f, n)) /\ IsForm(Raw(f, n))
    /\ \A f : IsForm(Rest(f))
    /\ \A f \in LimitNames : IsForm(Text(f))
    /\ Limit.nonce \in Nat /\ Limit.sign \in Nat
<1>1. \A f, n : n \in Nat => IsForm(Num(f, n)) /\ IsForm(Raw(f, n))
  BY DEF Num, Raw, IsForm
<1>2. \A f : IsForm(Rest(f))
  BY DEF Rest, IsForm
<1>3. \A f \in LimitNames : IsForm(Text(f))
  BY LimitFacts DEF Text, IsForm
<1>4. Limit.nonce \in Nat /\ Limit.sign \in Nat
  BY LimitFacts DEF LimitNames
<1> QED BY <1>1, <1>2, <1>3, <1>4

LEMMA LayoutFacts ==
    /\ Kinds = {"HELLO", "AUTH_NODE", "AUTH_TAP", "AUTH_OK", "CONFIG_PUSH", "TAP_FRAME",
                "SOCKS_OPEN", "SOCKS_DATA", "SOCKS_CLOSE", "SOCKS_CLOSE_REASON"}
    /\ \A k \in Kinds : IsLayout(Fields(k))
<1>1. Kinds = {"HELLO", "AUTH_NODE", "AUTH_TAP", "AUTH_OK", "CONFIG_PUSH", "TAP_FRAME",
                "SOCKS_OPEN", "SOCKS_DATA", "SOCKS_CLOSE", "SOCKS_CLOSE_REASON"}
  BY DEF Kinds, Layout
<1>2. IsLayout(Fields("HELLO"))
  <2>1. Len(Fields("HELLO")) = 4 /\ DOMAIN Fields("HELLO") = 1 .. 4
    BY DEF Fields, Layout
  <2>2. \A i \in 1 .. 4 : IsForm(Fields("HELLO")[i])
    BY FormFacts DEF Fields, Layout, LimitNames
  <2> QED BY <2>1, <2>2 DEF IsLayout
<1>3. IsLayout(Fields("AUTH_NODE"))
  <2>1. Len(Fields("AUTH_NODE")) = 3 /\ DOMAIN Fields("AUTH_NODE") = 1 .. 3
    BY DEF Fields, Layout
  <2>2. \A i \in 1 .. 3 : IsForm(Fields("AUTH_NODE")[i])
    BY FormFacts DEF Fields, Layout, LimitNames
  <2> QED BY <2>1, <2>2 DEF IsLayout
<1>4. IsLayout(Fields("AUTH_TAP"))
  <2>1. Len(Fields("AUTH_TAP")) = 4 /\ DOMAIN Fields("AUTH_TAP") = 1 .. 4
    BY DEF Fields, Layout
  <2>2. \A i \in 1 .. 4 : IsForm(Fields("AUTH_TAP")[i])
    BY FormFacts DEF Fields, Layout, LimitNames
  <2> QED BY <2>1, <2>2 DEF IsLayout
<1>5. IsLayout(Fields("AUTH_OK"))
  <2>1. Len(Fields("AUTH_OK")) = 4 /\ DOMAIN Fields("AUTH_OK") = 1 .. 4
    BY DEF Fields, Layout
  <2>2. \A i \in 1 .. 4 : IsForm(Fields("AUTH_OK")[i])
    BY FormFacts DEF Fields, Layout, LimitNames
  <2> QED BY <2>1, <2>2 DEF IsLayout
<1>6. IsLayout(Fields("CONFIG_PUSH"))
  <2>1. Len(Fields("CONFIG_PUSH")) = 13 /\ DOMAIN Fields("CONFIG_PUSH") = 1 .. 13
    BY DEF Fields, Layout
  <2>2. \A i \in 1 .. 13 : IsForm(Fields("CONFIG_PUSH")[i])
    BY FormFacts DEF Fields, Layout, LimitNames
  <2> QED BY <2>1, <2>2 DEF IsLayout
<1>7. IsLayout(Fields("TAP_FRAME"))
  <2>1. Len(Fields("TAP_FRAME")) = 3 /\ DOMAIN Fields("TAP_FRAME") = 1 .. 3
    BY DEF Fields, Layout
  <2>2. \A i \in 1 .. 3 : IsForm(Fields("TAP_FRAME")[i])
    BY FormFacts DEF Fields, Layout, LimitNames
  <2> QED BY <2>1, <2>2 DEF IsLayout
<1>8. IsLayout(Fields("SOCKS_OPEN"))
  <2>1. Len(Fields("SOCKS_OPEN")) = 3 /\ DOMAIN Fields("SOCKS_OPEN") = 1 .. 3
    BY DEF Fields, Layout
  <2>2. \A i \in 1 .. 3 : IsForm(Fields("SOCKS_OPEN")[i])
    BY FormFacts DEF Fields, Layout, LimitNames
  <2> QED BY <2>1, <2>2 DEF IsLayout
<1>9. IsLayout(Fields("SOCKS_DATA"))
  <2>1. Len(Fields("SOCKS_DATA")) = 2 /\ DOMAIN Fields("SOCKS_DATA") = 1 .. 2
    BY DEF Fields, Layout
  <2>2. \A i \in 1 .. 2 : IsForm(Fields("SOCKS_DATA")[i])
    BY FormFacts DEF Fields, Layout, LimitNames
  <2> QED BY <2>1, <2>2 DEF IsLayout
<1>10. IsLayout(Fields("SOCKS_CLOSE"))
  <2>1. Len(Fields("SOCKS_CLOSE")) = 1 /\ DOMAIN Fields("SOCKS_CLOSE") = 1 .. 1
    BY DEF Fields, Layout
  <2>2. \A i \in 1 .. 1 : IsForm(Fields("SOCKS_CLOSE")[i])
    BY FormFacts DEF Fields, Layout, LimitNames
  <2> QED BY <2>1, <2>2 DEF IsLayout
<1>11. IsLayout(Fields("SOCKS_CLOSE_REASON"))
  <2>1. Len(Fields("SOCKS_CLOSE_REASON")) = 3 /\ DOMAIN Fields("SOCKS_CLOSE_REASON") = 1 .. 3
    BY DEF Fields, Layout
  <2>2. \A i \in 1 .. 3 : IsForm(Fields("SOCKS_CLOSE_REASON")[i])
    BY FormFacts DEF Fields, Layout, LimitNames
  <2> QED BY <2>1, <2>2 DEF IsLayout
<1>12. \A k \in Kinds : IsLayout(Fields(k))
  BY <1>1, <1>2, <1>3, <1>4, <1>5, <1>6, <1>7, <1>8, <1>9, <1>10, <1>11
<1> QED BY <1>1, <1>12

LEMMA PiecesOfType ==
    ASSUME NEW f, IsForm(f), NEW v, IsField(f, v)
    PROVE  PiecesOf(f, v) \in Seq(Seq(Bytes))
<1>1. f.size \in Nat /\ f.as \in {"num", "raw", "text", "rest"}
  BY DEF IsForm
<1> DEFINE T == Seq(Bytes)
<1>2. CASE f.as = "num"
  <2>1. Put(v, f.size) \in T
    BY <1>1, <1>2, PutType DEF IsField
  <2> HIDE DEF T
  <2>2. <<Put(v, f.size)>> \in Seq(T)
    BY <2>1
  <2> QED BY <1>2, <2>2 DEF PiecesOf, T
<1>3. CASE f.as = "text"
  <2>1. v \in T /\ Len(v) \in Nat
    BY <1>3 DEF IsField
  <2>2. Put(Len(v), 2) \in T
    BY <2>1, PutType
  <2> HIDE DEF T
  <2>3. <<Put(Len(v), 2), v>> \in Seq(T)
    BY <2>1, <2>2
  <2> QED BY <1>3, <2>3 DEF PiecesOf, T
<1>4. CASE f.as \in {"raw", "rest"}
  <2>1. v \in T
    BY <1>4 DEF IsField
  <2> HIDE DEF T
  <2>2. <<v>> \in Seq(T)
    BY <2>1
  <2> QED BY <1>4, <2>2 DEF PiecesOf, T
<1> QED BY <1>1, <1>2, <1>3, <1>4

LEMMA PiecesType ==
    ASSUME NEW m, IsMessage(m)
    PROVE  Pieces(m) \in Seq(Seq(Bytes)) /\ Encoding(m) \in Seq(Bytes)
<1> DEFINE F == Fields(m.kind)
           T == Seq(Seq(Bytes))
           p == [i \in DOMAIN F |-> PiecesOf(F[i], m.field[F[i].name])]
<1>1. IsLayout(F)
  BY LayoutFacts DEF IsMessage
<1>2. \A i \in DOMAIN F : PiecesOf(F[i], m.field[F[i].name]) \in T
  <2> SUFFICES ASSUME NEW i \in DOMAIN F PROVE PiecesOf(F[i], m.field[F[i].name]) \in T
    OBVIOUS
  <2>1. IsForm(F[i])
    BY <1>1 DEF IsLayout
  <2>2. IsField(F[i], m.field[F[i].name])
    BY DEF IsMessage
  <2> QED BY <2>1, <2>2, PiecesOfType
<1>3. p \in Seq(T)
  <2> HIDE DEF F, T
  <2>1. DOMAIN F = 1 .. Len(F) /\ Len(F) \in Nat
    BY <1>1 DEF IsLayout
  <2> QED BY <1>2, <2>1
<1>4. Pieces(m) \in Seq(Seq(Bytes))
  <2>1. Pieces(m) = FlattenSeq(p)
    BY DEF Pieces
  <2> HIDE DEF p
  <2> QED BY <1>3, <2>1, FlattenType
<1> QED BY <1>4, FlattenType DEF Encoding

FewFlat(a, b, c, d) ==
    /\ FlattenSeq(<<a>>) = a
    /\ FlattenSeq(<<a, b>>) = a \o b
    /\ FlattenSeq(<<a, b, c>>) = (a \o b) \o c
    /\ FlattenSeq(<<a, b, c, d>>) = ((a \o b) \o c) \o d

LEMMA FlattenFew ==
    ASSUME NEW S, NEW a \in Seq(S), NEW b \in Seq(S), NEW c \in Seq(S), NEW d \in Seq(S)
    PROVE  FewFlat(a, b, c, d)
<1> DEFINE T == Seq(S)
<1>0. a \in T /\ b \in T /\ c \in T /\ d \in T /\ <<>> \o a = a
  OBVIOUS
<1> HIDE DEF T
<1>1. <<>> \in Seq(T) /\ <<a>> \in Seq(T) /\ <<a, b>> \in Seq(T) /\ <<a, b, c>> \in Seq(T)
  BY <1>0
<1>2. /\ <<a>> = Append(<<>>, a) /\ <<a, b>> = Append(<<a>>, b)
      /\ <<a, b, c>> = Append(<<a, b>>, c) /\ <<a, b, c, d>> = Append(<<a, b, c>>, d)
  BY <1>0
<1>3. FlattenSeq(<<a>>) = a
  <2>1. FlattenSeq(Append(<<>>, a)) = FlattenSeq(<<>>) \o a
    BY <1>0, <1>1, FlattenAppend DEF T
  <2> QED BY <1>0, <1>2, <2>1, FlattenEmpty
<1>4. FlattenSeq(<<a, b>>) = a \o b
  <2>1. FlattenSeq(Append(<<a>>, b)) = FlattenSeq(<<a>>) \o b
    BY <1>0, <1>1, FlattenAppend DEF T
  <2> QED BY <1>2, <1>3, <2>1
<1>5. FlattenSeq(<<a, b, c>>) = (a \o b) \o c
  <2>1. FlattenSeq(Append(<<a, b>>, c)) = FlattenSeq(<<a, b>>) \o c
    BY <1>0, <1>1, FlattenAppend DEF T
  <2> QED BY <1>2, <1>4, <2>1
<1>6. FlattenSeq(<<a, b, c, d>>) = ((a \o b) \o c) \o d
  <2>1. FlattenSeq(Append(<<a, b, c>>, d)) = FlattenSeq(<<a, b, c>>) \o d
    BY <1>0, <1>1, FlattenAppend DEF T
  <2> QED BY <1>2, <1>5, <2>1
<1> QED BY <1>3, <1>4, <1>5, <1>6 DEF FewFlat

LEMMA AloneFlat ==
    ASSUME NEW T, NEW a \in T, NEW b \in T, NEW c \in T, NEW d \in T
    PROVE  /\ FlattenSeq(<< <<a>> >>) = <<a>>
           /\ FlattenSeq(<< <<a>>, <<b>> >>) = <<a, b>>
           /\ FlattenSeq(<< <<a>>, <<b>>, <<c>> >>) = <<a, b, c>>
           /\ FlattenSeq(<< <<a>>, <<b>>, <<c>>, <<d>> >>) = <<a, b, c, d>>
<1>1. <<a>> \in Seq(T) /\ <<b>> \in Seq(T) /\ <<c>> \in Seq(T) /\ <<d>> \in Seq(T)
  OBVIOUS
<1>2. <<a>> \o <<b>> = <<a, b>> /\ <<a, b>> \o <<c>> = <<a, b, c>>
      /\ <<a, b, c>> \o <<d>> = <<a, b, c, d>>
  <2>1. \A s \in Seq(T), e \in T : s \o <<e>> = Append(s, e)
    OBVIOUS
  <2>2. <<a>> \in Seq(T) /\ <<a, b>> \in Seq(T) /\ <<a, b, c>> \in Seq(T)
    OBVIOUS
  <2>3. /\ <<a, b>> = Append(<<a>>, b) /\ <<a, b, c>> = Append(<<a, b>>, c)
        /\ <<a, b, c, d>> = Append(<<a, b, c>>, d)
    OBVIOUS
  <2> QED BY <2>1, <2>2, <2>3
<1>3. FewFlat(<<a>>, <<b>>, <<c>>, <<d>>)
  BY <1>1, FlattenFew
<1> QED BY <1>2, <1>3 DEF FewFlat

Sums(a, b, c, d) ==
    /\ Len(FlattenSeq(FlattenSeq(<< <<a>> >>))) = Len(a)
    /\ Len(FlattenSeq(FlattenSeq(<< <<a>>, <<b>> >>))) = Len(a) + Len(b)
    /\ Len(FlattenSeq(FlattenSeq(<< <<a>>, <<b>>, <<c>> >>))) = Len(a) + Len(b) + Len(c)
    /\ Len(FlattenSeq(FlattenSeq(<< <<a>>, <<b>>, <<c>>, <<d>> >>)))
         = Len(a) + Len(b) + Len(c) + Len(d)

LEMMA FewBytes ==
    ASSUME NEW a \in Seq(Bytes), NEW b \in Seq(Bytes), NEW c \in Seq(Bytes), NEW d \in Seq(Bytes)
    PROVE  Sums(a, b, c, d)
<1> DEFINE T == Seq(Bytes)
<1>1. a \in T /\ b \in T /\ c \in T /\ d \in T
  OBVIOUS
<1> HIDE DEF T
<1>2. /\ FlattenSeq(<< <<a>> >>) = <<a>>
      /\ FlattenSeq(<< <<a>>, <<b>> >>) = <<a, b>>
      /\ FlattenSeq(<< <<a>>, <<b>>, <<c>> >>) = <<a, b, c>>
      /\ FlattenSeq(<< <<a>>, <<b>>, <<c>>, <<d>> >>) = <<a, b, c, d>>
  BY <1>1, AloneFlat
<1>3. FewFlat(a, b, c, d)
  BY FlattenFew
<1>4. /\ a \o b \in Seq(Bytes) /\ Len(a \o b) = Len(a) + Len(b)
      /\ Len(a) \in Nat /\ Len(b) \in Nat /\ Len(c) \in Nat /\ Len(d) \in Nat
  OBVIOUS
<1>5. /\ (a \o b) \o c \in Seq(Bytes) /\ Len((a \o b) \o c) = Len(a) + Len(b) + Len(c)
  BY <1>4
<1>6. Len(((a \o b) \o c) \o d) = Len(a) + Len(b) + Len(c) + Len(d)
  BY <1>5
<1> QED BY <1>2, <1>3, <1>4, <1>5, <1>6 DEF FewFlat, Sums

LEMMA MessageFields ==
    ASSUME NEW m, IsMessage(m)
    PROVE  /\ m.kind \in Kinds
           /\ \A i \in DOMAIN Fields(m.kind) :
                IsField(Fields(m.kind)[i], m.field[Fields(m.kind)[i].name])
           /\ m.kind = "TAP_FRAME" => Len(m.field.frame) = m.field.frame_len
  BY DEF IsMessage

(* What is written without a buffer fits the caller's array. *)
LEMMA DirectFits ==
    ASSUME NEW m, IsMessage(m), m.kind \in Direct, ArgumentsOk(m)
    PROVE  Len(Encoding(m)) <= Cap
<1> DEFINE F == Fields(m.kind)
           p == [i \in DOMAIN F |-> PiecesOf(F[i], m.field[F[i].name])]
<1>1. Encoding(m) = FlattenSeq(FlattenSeq(p))
  BY DEF Encoding, Pieces
<1>2. Cap \in Nat /\ Cap >= 20
  BY CapAssumption
<1>8. \A j \in DOMAIN F : IsField(F[j], m.field[F[j].name])
  BY MessageFields
<1>3. CASE m.kind = "AUTH_OK"
  <2>1. F = <<Num("session_id", 4), Num("network_id", 4),
              Num("server_time", 8), Num("feature_bits", 4)>>
    BY <1>3 DEF Fields, Layout
  <2>2. p = << <<Put(m.field.session_id, 4)>>, <<Put(m.field.network_id, 4)>>,
               <<Put(m.field.server_time, 8)>>, <<Put(m.field.feature_bits, 4)>> >>
    BY <2>1 DEF PiecesOf, Num
  <2>5. /\ IsField(Num("session_id", 4), m.field.session_id)
        /\ IsField(Num("network_id", 4), m.field.network_id)
        /\ IsField(Num("server_time", 8), m.field.server_time)
        /\ IsField(Num("feature_bits", 4), m.field.feature_bits)
    <3>1. DOMAIN F = 1 .. 4
      BY <2>1
    <3> QED BY <1>8, <2>1, <3>1 DEF Num
  <2>3. /\ m.field.session_id \in Nat /\ m.field.network_id \in Nat
        /\ m.field.server_time \in Nat /\ m.field.feature_bits \in Nat
    BY <2>5 DEF IsField, Num
  <2> HIDE DEF p
  <2>4. Len(Encoding(m)) = 20
    <3>1. /\ Put(m.field.session_id, 4) \in Seq(Bytes) /\ Len(Put(m.field.session_id, 4)) = 4
          /\ Put(m.field.network_id, 4) \in Seq(Bytes) /\ Len(Put(m.field.network_id, 4)) = 4
          /\ Put(m.field.server_time, 8) \in Seq(Bytes) /\ Len(Put(m.field.server_time, 8)) = 8
          /\ Put(m.field.feature_bits, 4) \in Seq(Bytes) /\ Len(Put(m.field.feature_bits, 4)) = 4
      BY <2>3, PutType
    <3>2. Sums(Put(m.field.session_id, 4), Put(m.field.network_id, 4),
               Put(m.field.server_time, 8), Put(m.field.feature_bits, 4))
      BY <3>1, FewBytes
    <3>3. Len(Encoding(m)) = Len(Put(m.field.session_id, 4)) + Len(Put(m.field.network_id, 4))
                             + Len(Put(m.field.server_time, 8)) + Len(Put(m.field.feature_bits, 4))
      BY <1>1, <2>2, <3>2 DEF Sums
    <3>4. Len(Encoding(m)) = 4 + 4 + 8 + 4
      BY <3>1, <3>3
    <3> QED BY <3>4
  <2> QED BY <1>2, <2>4
<1>4. CASE m.kind = "TAP_FRAME"
  <2>1. F = <<Num("network_id", 4), Num("frame_len", 2), Rest("frame")>>
    BY <1>4 DEF Fields, Layout
  <2>2. p = << <<Put(m.field.network_id, 4)>>, <<Put(m.field.frame_len, 2)>>,
               <<m.field.frame>> >>
    BY <2>1 DEF PiecesOf, Num, Rest
  <2>5. /\ IsField(Num("network_id", 4), m.field.network_id)
        /\ IsField(Num("frame_len", 2), m.field.frame_len)
        /\ IsField(Rest("frame"), m.field.frame)
    <3>1. DOMAIN F = 1 .. 3
      BY <2>1
    <3> QED BY <1>8, <2>1, <3>1 DEF Num, Rest
  <2>3. /\ m.field.network_id \in Nat /\ m.field.frame_len \in Nat
        /\ m.field.frame \in Seq(Bytes) /\ Len(m.field.frame) = m.field.frame_len
    BY <1>4, <2>5, MessageFields DEF IsField, Num, Rest
  <2> HIDE DEF p
  <2>4. Len(Encoding(m)) = 6 + m.field.frame_len
    <3>1. /\ Put(m.field.network_id, 4) \in Seq(Bytes) /\ Len(Put(m.field.network_id, 4)) = 4
          /\ Put(m.field.frame_len, 2) \in Seq(Bytes) /\ Len(Put(m.field.frame_len, 2)) = 2
      BY <2>3, PutType
    <3>2. Sums(Put(m.field.network_id, 4), Put(m.field.frame_len, 2),
               m.field.frame, m.field.frame)
      BY <2>3, <3>1, FewBytes
    <3>3. Len(Encoding(m)) = 4 + 2 + Len(m.field.frame)
      BY <1>1, <2>2, <3>1, <3>2 DEF Sums
    <3> QED BY <2>3, <3>3
  <2> QED BY <1>4, <2>4 DEF ArgumentsOk
<1>5. CASE m.kind = "SOCKS_DATA"
  <2>1. F = <<Num("stream_id", 4), Rest("data")>>
    BY <1>5 DEF Fields, Layout
  <2>2. p = << <<Put(m.field.stream_id, 4)>>, <<m.field.data>> >>
    BY <2>1 DEF PiecesOf, Num, Rest
  <2>5. /\ IsField(Num("stream_id", 4), m.field.stream_id)
        /\ IsField(Rest("data"), m.field.data)
    <3>1. DOMAIN F = 1 .. 2
      BY <2>1
    <3> QED BY <1>8, <2>1, <3>1 DEF Num, Rest
  <2>3. m.field.stream_id \in Nat /\ m.field.data \in Seq(Bytes)
    BY <2>5 DEF IsField, Num, Rest
  <2> HIDE DEF p
  <2>4. Len(Encoding(m)) = 4 + Len(m.field.data)
    <3>1. Put(m.field.stream_id, 4) \in Seq(Bytes) /\ Len(Put(m.field.stream_id, 4)) = 4
      BY <2>3, PutType
    <3>2. Sums(Put(m.field.stream_id, 4), m.field.data, m.field.data, m.field.data)
      BY <2>3, <3>1, FewBytes
    <3> QED BY <1>1, <2>2, <3>1, <3>2 DEF Sums
  <2> QED BY <1>5, <2>4 DEF ArgumentsOk
<1>6. CASE m.kind = "SOCKS_CLOSE"
  <2>1. F = <<Num("stream_id", 4)>>
    BY <1>6 DEF Fields, Layout
  <2>2. p = << <<Put(m.field.stream_id, 4)>> >>
    BY <2>1 DEF PiecesOf, Num
  <2>5. /\ IsField(Num("stream_id", 4), m.field.stream_id)
    <3>1. DOMAIN F = 1 .. 1
      BY <2>1
    <3> QED BY <1>8, <2>1, <3>1 DEF Num
  <2>3. m.field.stream_id \in Nat
    BY <2>5 DEF IsField, Num
  <2> HIDE DEF p
  <2>4. Len(Encoding(m)) = 4
    <3>1. Put(m.field.stream_id, 4) \in Seq(Bytes) /\ Len(Put(m.field.stream_id, 4)) = 4
      BY <2>3, PutType
    <3>2. Sums(Put(m.field.stream_id, 4), Put(m.field.stream_id, 4),
               Put(m.field.stream_id, 4), Put(m.field.stream_id, 4))
      BY <3>1, FewBytes
    <3> QED BY <1>1, <2>2, <3>1, <3>2 DEF Sums
  <2> QED BY <1>2, <2>4
<1>7. CASE m.kind = "SOCKS_CLOSE_REASON"
  <2>1. F = <<Num("stream_id", 4), Num("reason_code", 2), Num("flags", 2)>>
    BY <1>7 DEF Fields, Layout
  <2>2. p = << <<Put(m.field.stream_id, 4)>>, <<Put(m.field.reason_code, 2)>>,
               <<Put(m.field.flags, 2)>> >>
    BY <2>1 DEF PiecesOf, Num
  <2>5. /\ IsField(Num("stream_id", 4), m.field.stream_id)
        /\ IsField(Num("reason_code", 2), m.field.reason_code)
        /\ IsField(Num("flags", 2), m.field.flags)
    <3>1. DOMAIN F = 1 .. 3
      BY <2>1
    <3> QED BY <1>8, <2>1, <3>1 DEF Num
  <2>3. m.field.stream_id \in Nat /\ m.field.reason_code \in Nat /\ m.field.flags \in Nat
    BY <2>5 DEF IsField, Num
  <2> HIDE DEF p
  <2>4. Len(Encoding(m)) = 8
    <3>1. /\ Put(m.field.stream_id, 4) \in Seq(Bytes) /\ Len(Put(m.field.stream_id, 4)) = 4
          /\ Put(m.field.reason_code, 2) \in Seq(Bytes) /\ Len(Put(m.field.reason_code, 2)) = 2
          /\ Put(m.field.flags, 2) \in Seq(Bytes) /\ Len(Put(m.field.flags, 2)) = 2
      BY <2>3, PutType
    <3>2. Sums(Put(m.field.stream_id, 4), Put(m.field.reason_code, 2),
               Put(m.field.flags, 2), Put(m.field.flags, 2))
      BY <3>1, FewBytes
    <3>3. Len(Encoding(m)) = Len(Put(m.field.stream_id, 4)) + Len(Put(m.field.reason_code, 2))
                             + Len(Put(m.field.flags, 2))
      BY <1>1, <2>2, <3>2 DEF Sums
    <3>4. Len(Encoding(m)) = 4 + 2 + 2
      BY <3>1, <3>3
    <3> QED BY <3>4
  <2> QED BY <1>2, <2>4
<1> QED BY <1>3, <1>4, <1>5, <1>6, <1>7 DEF Direct

-----------------------------------------------------------------------------
(* Every field leaves what the fields behind it need. *)
LEMMA EnoughFollows ==
    ASSUME msg.kind \in Kinds, at \in Nat \ {0}, at <= Len(Fields(DecodedAs)), Left \in Int,
           Left >= Needs(DecodedAs)[at]
    PROVE  /\ Field.as \in {"num", "raw"} /\ RestFits =>
                /\ Field.size \in Nat /\ Field.size <= Left
                /\ at + 1 <= Len(Fields(DecodedAs)) =>
                     Left - Field.size >= Needs(DecodedAs)[at + 1]
           /\ Field.as = "rest" => at + 1 > Len(Fields(DecodedAs)) /\ Left \in Nat
           /\ Field.as = "text" /\ at + 1 <= Len(Fields(DecodedAs)) =>
                Needs(DecodedAs)[at + 1] = 0
<1> DEFINE k == DecodedAs
<1>1. /\ k \in Kinds
      /\ msg.kind \notin {"SOCKS_CLOSE", "SOCKS_CLOSE_REASON"} => k = msg.kind
      /\ k \notin {"SOCKS_CLOSE", "SOCKS_CLOSE_REASON"} => k = msg.kind
  BY LayoutFacts DEF DecodedAs
<1>2. Limit.nonce \in Nat /\ Limit.sign \in Nat
  BY LimitFacts DEF LimitNames
<1>3. CASE k = "HELLO"
  <2>0. at \in 1 .. 4 /\ Len(Fields(k)) = 4
    BY <1>3 DEF Fields, Layout
  <2>1. CASE at = 1
    <3>1. Field = Num("role", 1)
      BY <1>3, <2>1 DEF Field, Fields, Layout
    <3>2. Needs(k)[1] = 1 /\ Needs(k)[2] = 0
      BY <1>3 DEF Needs
    <3> QED BY <1>1, <1>2, <2>0, <2>1, <3>1, <3>2 DEF Num
  <2>2. CASE at = 2
    <3>1. Field = Text("version_text")
      BY <1>3, <2>2 DEF Field, Fields, Layout
    <3>2. Needs(k)[2] = 0 /\ Needs(k)[3] = 0
      BY <1>3 DEF Needs
    <3> QED BY <1>1, <1>2, <2>0, <2>2, <3>1, <3>2 DEF Text
  <2>3. CASE at = 3
    <3>1. Field = Num("feature_bits", 4)
      BY <1>3, <2>3 DEF Field, Fields, Layout
    <3>2. Needs(k)[3] = 0 /\ Needs(k)[4] = Limit.nonce
      BY <1>3 DEF Needs
    <3>3. RestFits => Left = 4 + Limit.nonce
      BY <1>1, <1>3, <3>1 DEF Num, RestFits
    <3> QED BY <1>1, <1>2, <2>0, <2>3, <3>1, <3>2, <3>3 DEF Num
  <2>4. CASE at = 4
    <3>1. Field = Raw("nonce", Limit.nonce)
      BY <1>3, <2>4 DEF Field, Fields, Layout
    <3>2. Needs(k)[4] = Limit.nonce
      BY <1>3 DEF Needs
    <3> QED BY <1>1, <1>2, <2>0, <2>4, <3>1, <3>2 DEF Raw
  <2> QED BY <2>0, <2>1, <2>2, <2>3, <2>4
<1>4. CASE k = "AUTH_NODE"
  <2>0. at \in 1 .. 3 /\ Len(Fields(k)) = 3
    BY <1>4 DEF Fields, Layout
  <2>1. CASE at = 1
    <3>1. Field = Text("node_id")
      BY <1>4, <2>1 DEF Field, Fields, Layout
    <3>2. Needs(k)[1] = 0 /\ Needs(k)[2] = 0
      BY <1>4 DEF Needs
    <3> QED BY <1>1, <1>2, <2>0, <2>1, <3>1, <3>2 DEF Text
  <2>2. CASE at = 2
    <3>1. Field = Raw("client_nonce", Limit.nonce)
      BY <1>4, <2>2 DEF Field, Fields, Layout
    <3>2. Needs(k)[2] = 0 /\ Needs(k)[3] = Limit.sign
      BY <1>4 DEF Needs
    <3>3. RestFits => Left = Limit.nonce + Limit.sign
      BY <1>1, <1>4, <3>1 DEF Raw, RestFits
    <3> QED BY <1>1, <1>2, <2>0, <2>2, <3>1, <3>2, <3>3 DEF Raw
  <2>3. CASE at = 3
    <3>1. Field = Raw("sign", Limit.sign)
      BY <1>4, <2>3 DEF Field, Fields, Layout
    <3>2. Needs(k)[3] = Limit.sign
      BY <1>4 DEF Needs
    <3> QED BY <1>1, <1>2, <2>0, <2>3, <3>1, <3>2 DEF Raw
  <2> QED BY <2>0, <2>1, <2>2, <2>3
<1>5. CASE k = "AUTH_TAP"
  <2>0. at \in 1 .. 4 /\ Len(Fields(k)) = 4
    BY <1>5 DEF Fields, Layout
  <2>1. CASE at = 1
    <3>1. Field = Text("username")
      BY <1>5, <2>1 DEF Field, Fields, Layout
    <3>2. Needs(k)[1] = 0 /\ Needs(k)[2] = 0
      BY <1>5 DEF Needs
    <3> QED BY <1>1, <1>2, <2>0, <2>1, <3>1, <3>2 DEF Text
  <2>2. CASE at = 2
    <3>1. Field = Text("password")
      BY <1>5, <2>2 DEF Field, Fields, Layout
    <3>2. Needs(k)[2] = 0 /\ Needs(k)[3] = 0
      BY <1>5 DEF Needs
    <3> QED BY <1>1, <1>2, <2>0, <2>2, <3>1, <3>2 DEF Text
  <2>3. CASE at = 3
    <3>1. Field = Num("network_id", 4)
      BY <1>5, <2>3 DEF Field, Fields, Layout
    <3>2. Needs(k)[3] = 0 /\ Needs(k)[4] = Limit.nonce
      BY <1>5 DEF Needs
    <3>3. RestFits => Left = 4 + Limit.nonce
      BY <1>1, <1>5, <3>1 DEF Num, RestFits
    <3> QED BY <1>1, <1>2, <2>0, <2>3, <3>1, <3>2, <3>3 DEF Num
  <2>4. CASE at = 4
    <3>1. Field = Raw("client_nonce", Limit.nonce)
      BY <1>5, <2>4 DEF Field, Fields, Layout
    <3>2. Needs(k)[4] = Limit.nonce
      BY <1>5 DEF Needs
    <3> QED BY <1>1, <1>2, <2>0, <2>4, <3>1, <3>2 DEF Raw
  <2> QED BY <2>0, <2>1, <2>2, <2>3, <2>4
<1>6. CASE k = "AUTH_OK"
  <2>0. at \in 1 .. 4 /\ Len(Fields(k)) = 4
    BY <1>6 DEF Fields, Layout
  <2>1. CASE at = 1
    <3>1. Field = Num("session_id", 4)
      BY <1>6, <2>1 DEF Field, Fields, Layout
    <3>2. Needs(k)[1] = 20 /\ Needs(k)[2] = 16
      BY <1>6 DEF Needs
    <3> QED BY <1>1, <1>2, <2>0, <2>1, <3>1, <3>2 DEF Num
  <2>2. CASE at = 2
    <3>1. Field = Num("network_id", 4)
      BY <1>6, <2>2 DEF Field, Fields, Layout
    <3>2. Needs(k)[2] = 16 /\ Needs(k)[3] = 12
      BY <1>6 DEF Needs
    <3> QED BY <1>1, <1>2, <2>0, <2>2, <3>1, <3>2 DEF Num
  <2>3. CASE at = 3
    <3>1. Field = Num("server_time", 8)
      BY <1>6, <2>3 DEF Field, Fields, Layout
    <3>2. Needs(k)[3] = 12 /\ Needs(k)[4] = 4
      BY <1>6 DEF Needs
    <3> QED BY <1>1, <1>2, <2>0, <2>3, <3>1, <3>2 DEF Num
  <2>4. CASE at = 4
    <3>1. Field = Num("feature_bits", 4)
      BY <1>6, <2>4 DEF Field, Fields, Layout
    <3>2. Needs(k)[4] = 4
      BY <1>6 DEF Needs
    <3> QED BY <1>1, <1>2, <2>0, <2>4, <3>1, <3>2 DEF Num
  <2> QED BY <2>0, <2>1, <2>2, <2>3, <2>4
<1>7. CASE k = "CONFIG_PUSH"
  <2>0. at \in 1 .. 13 /\ Len(Fields(k)) = 13
    BY <1>7 DEF Fields, Layout
  <2>1. CASE at = 1
    <3>1. Field = Num("config_version", 4)
      BY <1>7, <2>1 DEF Field, Fields, Layout
    <3>2. Needs(k)[1] = 11 /\ Needs(k)[2] = 7
      BY <1>7 DEF Needs
    <3> QED BY <1>1, <1>2, <2>0, <2>1, <3>1, <3>2 DEF Num
  <2>2. CASE at = 2
    <3>1. Field = Num("network_id", 4)
      BY <1>7, <2>2 DEF Field, Fields, Layout
    <3>2. Needs(k)[2] = 7 /\ Needs(k)[3] = 3
      BY <1>7 DEF Needs
    <3> QED BY <1>1, <1>2, <2>0, <2>2, <3>1, <3>2 DEF Num
  <2>3. CASE at = 3
    <3>1. Field = Num("tap_enabled", 1)
      BY <1>7, <2>3 DEF Field, Fields, Layout
    <3>2. Needs(k)[3] = 3 /\ Needs(k)[4] = 2
      BY <1>7 DEF Needs
    <3> QED BY <1>1, <1>2, <2>0, <2>3, <3>1, <3>2 DEF Num
  <2>4. CASE at = 4
    <3>1. Field = Num("socks_enabled", 1)
      BY <1>7, <2>4 DEF Field, Fields, Layout
    <3>2. Needs(k)[4] = 2 /\ Needs(k)[5] = 1
      BY <1>7 DEF Needs
    <3> QED BY <1>1, <1>2, <2>0, <2>4, <3>1, <3>2 DEF Num
  <2>5. CASE at = 5
    <3>1. Field = Num("direct_enabled", 1)
      BY <1>7, <2>5 DEF Field, Fields, Layout
    <3>2. Needs(k)[5] = 1 /\ Needs(k)[6] = 0
      BY <1>7 DEF Needs
    <3> QED BY <1>1, <1>2, <2>0, <2>5, <3>1, <3>2 DEF Num
  <2>6. CASE at = 6
    <3>1. Field = Text("tap_name")
      BY <1>7, <2>6 DEF Field, Fields, Layout
    <3>2. Needs(k)[6] = 0 /\ Needs(k)[7] = 0
      BY <1>7 DEF Needs
    <3> QED BY <1>1, <1>2, <2>0, <2>6, <3>1, <3>2 DEF Text
  <2>7. CASE at = 7
    <3>1. Field = Text("bridge_name")
      BY <1>7, <2>7 DEF Field, Fields, Layout
    <3>2. Needs(k)[7] = 0 /\ Needs(k)[8] = 0
      BY <1>7 DEF Needs
    <3> QED BY <1>1, <1>2, <2>0, <2>7, <3>1, <3>2 DEF Text
  <2>8. CASE at = 8
    <3>1. Field = Num("mtu", 2)
      BY <1>7, <2>8 DEF Field, Fields, Layout
    <3>2. Needs(k)[8] = 0 /\ Needs(k)[9] = 6
      BY <1>7 DEF Needs
    <3>3. RestFits => Left >= 2 + 2 + 4
      BY <1>1, <1>7, <3>1 DEF Num, RestFits
    <3> QED BY <1>1, <1>2, <2>0, <2>8, <3>1, <3>2, <3>3 DEF Num
  <2>9. CASE at = 9
    <3>1. Field = Num("direct_port", 2)
      BY <1>7, <2>9 DEF Field, Fields, Layout
    <3>2. Needs(k)[9] = 6 /\ Needs(k)[10] = 4
      BY <1>7 DEF Needs
    <3> QED BY <1>1, <1>2, <2>0, <2>9, <3>1, <3>2 DEF Num
  <2>10. CASE at = 10
    <3>1. Field = Num("flags", 4)
      BY <1>7, <2>10 DEF Field, Fields, Layout
    <3>2. Needs(k)[10] = 4 /\ Needs(k)[11] = 0
      BY <1>7 DEF Needs
    <3> QED BY <1>1, <1>2, <2>0, <2>10, <3>1, <3>2 DEF Num
  <2>11. CASE at = 11
    <3>1. Field = Text("direct_mode")
      BY <1>7, <2>11 DEF Field, Fields, Layout
    <3>2. Needs(k)[11] = 0 /\ Needs(k)[12] = 0
      BY <1>7 DEF Needs
    <3> QED BY <1>1, <1>2, <2>0, <2>11, <3>1, <3>2 DEF Text
  <2>12. CASE at = 12
    <3>1. Field = Text("direct_addr")
      BY <1>7, <2>12 DEF Field, Fields, Layout
    <3>2. Needs(k)[12] = 0 /\ Needs(k)[13] = 0
      BY <1>7 DEF Needs
    <3> QED BY <1>1, <1>2, <2>0, <2>12, <3>1, <3>2 DEF Text
  <2>13. CASE at = 13
    <3>1. Field = Text("direct_token")
      BY <1>7, <2>13 DEF Field, Fields, Layout
    <3>2. Needs(k)[13] = 0
      BY <1>7 DEF Needs
    <3> QED BY <1>1, <1>2, <2>0, <2>13, <3>1, <3>2 DEF Text
  <2> QED BY <2>0, <2>1, <2>2, <2>3, <2>4, <2>5, <2>6, <2>7, <2>8, <2>9, <2>10, <2>11, <2>12, <2>13
<1>8. CASE k = "TAP_FRAME"
  <2>0. at \in 1 .. 3 /\ Len(Fields(k)) = 3
    BY <1>8 DEF Fields, Layout
  <2>1. CASE at = 1
    <3>1. Field = Num("network_id", 4)
      BY <1>8, <2>1 DEF Field, Fields, Layout
    <3>2. Needs(k)[1] = 6 /\ Needs(k)[2] = 2
      BY <1>8 DEF Needs
    <3> QED BY <1>1, <1>2, <2>0, <2>1, <3>1, <3>2 DEF Num
  <2>2. CASE at = 2
    <3>1. Field = Num("frame_len", 2)
      BY <1>8, <2>2 DEF Field, Fields, Layout
    <3>2. Needs(k)[2] = 2 /\ Needs(k)[3] = 0
      BY <1>8 DEF Needs
    <3> QED BY <1>1, <1>2, <2>0, <2>2, <3>1, <3>2 DEF Num
  <2>3. CASE at = 3
    <3>1. Field = Rest("frame")
      BY <1>8, <2>3 DEF Field, Fields, Layout
    <3>2. Needs(k)[3] = 0
      BY <1>8 DEF Needs
    <3> QED BY <1>1, <1>2, <2>0, <2>3, <3>1, <3>2 DEF Rest
  <2> QED BY <2>0, <2>1, <2>2, <2>3
<1>9. CASE k = "SOCKS_OPEN"
  <2>0. at \in 1 .. 3 /\ Len(Fields(k)) = 3
    BY <1>9 DEF Fields, Layout
  <2>1. CASE at = 1
    <3>1. Field = Num("stream_id", 4)
      BY <1>9, <2>1 DEF Field, Fields, Layout
    <3>2. Needs(k)[1] = 4 /\ Needs(k)[2] = 0
      BY <1>9 DEF Needs
    <3> QED BY <1>1, <1>2, <2>0, <2>1, <3>1, <3>2 DEF Num
  <2>2. CASE at = 2
    <3>1. Field = Text("host")
      BY <1>9, <2>2 DEF Field, Fields, Layout
    <3>2. Needs(k)[2] = 0 /\ Needs(k)[3] = 0
      BY <1>9 DEF Needs
    <3> QED BY <1>1, <1>2, <2>0, <2>2, <3>1, <3>2 DEF Text
  <2>3. CASE at = 3
    <3>1. Field = Num("port", 2)
      BY <1>9, <2>3 DEF Field, Fields, Layout
    <3>2. Needs(k)[3] = 0
      BY <1>9 DEF Needs
    <3>3. RestFits => Left = 2
      BY <1>1, <1>9, <3>1 DEF Num, RestFits
    <3> QED BY <1>1, <1>2, <2>0, <2>3, <3>1, <3>2, <3>3 DEF Num
  <2> QED BY <2>0, <2>1, <2>2, <2>3
<1>10. CASE k = "SOCKS_DATA"
  <2>0. at \in 1 .. 2 /\ Len(Fields(k)) = 2
    BY <1>10 DEF Fields, Layout
  <2>1. CASE at = 1
    <3>1. Field = Num("stream_id", 4)
      BY <1>10, <2>1 DEF Field, Fields, Layout
    <3>2. Needs(k)[1] = 4 /\ Needs(k)[2] = 0
      BY <1>10 DEF Needs
    <3> QED BY <1>1, <1>2, <2>0, <2>1, <3>1, <3>2 DEF Num
  <2>2. CASE at = 2
    <3>1. Field = Rest("data")
      BY <1>10, <2>2 DEF Field, Fields, Layout
    <3>2. Needs(k)[2] = 0
      BY <1>10 DEF Needs
    <3> QED BY <1>1, <1>2, <2>0, <2>2, <3>1, <3>2 DEF Rest
  <2> QED BY <2>0, <2>1, <2>2
<1>11. CASE k = "SOCKS_CLOSE"
  <2>0. at \in 1 .. 1 /\ Len(Fields(k)) = 1
    BY <1>11 DEF Fields, Layout
  <2>1. CASE at = 1
    <3>1. Field = Num("stream_id", 4)
      BY <1>11, <2>1 DEF Field, Fields, Layout
    <3>2. Needs(k)[1] = 4
      BY <1>11 DEF Needs
    <3> QED BY <1>1, <1>2, <2>0, <2>1, <3>1, <3>2 DEF Num
  <2> QED BY <2>0, <2>1
<1>12. CASE k = "SOCKS_CLOSE_REASON"
  <2>0. at \in 1 .. 3 /\ Len(Fields(k)) = 3
    BY <1>12 DEF Fields, Layout
  <2>1. CASE at = 1
    <3>1. Field = Num("stream_id", 4)
      BY <1>12, <2>1 DEF Field, Fields, Layout
    <3>2. Needs(k)[1] = 8 /\ Needs(k)[2] = 4
      BY <1>12 DEF Needs
    <3> QED BY <1>1, <1>2, <2>0, <2>1, <3>1, <3>2 DEF Num
  <2>2. CASE at = 2
    <3>1. Field = Num("reason_code", 2)
      BY <1>12, <2>2 DEF Field, Fields, Layout
    <3>2. Needs(k)[2] = 4 /\ Needs(k)[3] = 2
      BY <1>12 DEF Needs
    <3> QED BY <1>1, <1>2, <2>0, <2>2, <3>1, <3>2 DEF Num
  <2>3. CASE at = 3
    <3>1. Field = Num("flags", 2)
      BY <1>12, <2>3 DEF Field, Fields, Layout
    <3>2. Needs(k)[3] = 2
      BY <1>12 DEF Needs
    <3> QED BY <1>1, <1>2, <2>0, <2>3, <3>1, <3>2 DEF Num
  <2> QED BY <2>0, <2>1, <2>2, <2>3
<1> QED BY <1>1, <1>3, <1>4, <1>5, <1>6, <1>7, <1>8, <1>9, <1>10, <1>11, <1>12, LayoutFacts

CodecInv == CodecType /\ Build /\ Inside

LEMMA BytesFacts == Bytes \subseteq Nat /\ 0 \in Bytes /\ 1 \in Bytes
  BY BaseAssumption DEF Bytes

LEMMA BytesAtType ==
    ASSUME payload \in Seq(Bytes), NEW p, NEW n \in Nat
    PROVE  BytesAt(p, n) \in Seq(Bytes) /\ Get(BytesAt(p, n)) \in Nat
<1>1. \A i \in 1 .. n : (IF p + i \in DOMAIN payload THEN payload[p + i] ELSE 0) \in Bytes
  BY BytesFacts
<1>2. BytesAt(p, n) \in Seq(Bytes)
  BY <1>1 DEF BytesAt
<1>3. BytesAt(p, n) \in Seq(Nat)
  <2>1. \A i \in 1 .. n : (IF p + i \in DOMAIN payload THEN payload[p + i] ELSE 0) \in Nat
    BY <1>1, BytesFacts
  <2> QED BY <2>1 DEF BytesAt
<1> QED BY <1>2, <1>3, GetType

LEMMA DecodedFacts ==
    ASSUME msg.kind \in Kinds
    PROVE  DecodedAs \in Kinds /\ Len(Fields(DecodedAs)) \in Nat /\ IsLayout(Fields(DecodedAs))
<1>1. DecodedAs \in Kinds
  BY LayoutFacts DEF DecodedAs
<1> QED BY <1>1, LayoutFacts DEF IsLayout

(* The decoder's first check covers what its first field needs. *)
LEMMA StartHasEnough ==
    ASSUME msg.kind \in Kinds, Len(payload) \in Nat, LengthOk(msg.kind, Len(payload))
    PROVE  1 <= Len(Fields(DecodedAs)) /\ Len(payload) >= Needs(DecodedAs)[1]
<1> DEFINE k == DecodedAs
<1>1. /\ k \in Kinds
      /\ k \notin {"SOCKS_CLOSE", "SOCKS_CLOSE_REASON"} => k = msg.kind
      /\ k \in {"SOCKS_CLOSE", "SOCKS_CLOSE_REASON"} =>
           msg.kind \in {"SOCKS_CLOSE", "SOCKS_CLOSE_REASON"}
      /\ k = "SOCKS_CLOSE_REASON" => Len(payload) = 8
      /\ k = "SOCKS_CLOSE" => Len(payload) # 8
  BY LayoutFacts DEF DecodedAs
<1>2. CASE k = "HELLO"
  <2>1. Len(Fields(k)) = 4 /\ Needs(k)[1] = 1
    BY <1>2 DEF Fields, Layout, Needs
  <2>2. Len(payload) >= 1
    BY <1>1, <1>2 DEF LengthOk
  <2> QED BY <2>1, <2>2
<1>3. CASE k = "AUTH_NODE"
  <2>1. Len(Fields(k)) = 3 /\ Needs(k)[1] = 0
    BY <1>3 DEF Fields, Layout, Needs
  <2>2. Len(payload) >= 0
    BY <1>1, <1>3 DEF LengthOk
  <2> QED BY <2>1, <2>2
<1>4. CASE k = "AUTH_TAP"
  <2>1. Len(Fields(k)) = 4 /\ Needs(k)[1] = 0
    BY <1>4 DEF Fields, Layout, Needs
  <2>2. Len(payload) >= 0
    BY <1>1, <1>4 DEF LengthOk
  <2> QED BY <2>1, <2>2
<1>5. CASE k = "AUTH_OK"
  <2>1. Len(Fields(k)) = 4 /\ Needs(k)[1] = 20
    BY <1>5 DEF Fields, Layout, Needs
  <2>2. Len(payload) >= 20
    <3>1. msg.kind = "AUTH_OK"
      BY <1>1, <1>5
    <3>2. Len(payload) = 20
      BY <3>1 DEF LengthOk
    <3> QED BY <3>2
  <2> QED BY <2>1, <2>2
<1>6. CASE k = "CONFIG_PUSH"
  <2>1. Len(Fields(k)) = 13 /\ Needs(k)[1] = 11
    BY <1>6 DEF Fields, Layout, Needs
  <2>2. Len(payload) >= 11
    BY <1>1, <1>6 DEF LengthOk
  <2> QED BY <2>1, <2>2
<1>7. CASE k = "TAP_FRAME"
  <2>1. Len(Fields(k)) = 3 /\ Needs(k)[1] = 6
    BY <1>7 DEF Fields, Layout, Needs
  <2>2. Len(payload) >= 6
    BY <1>1, <1>7 DEF LengthOk
  <2> QED BY <2>1, <2>2
<1>8. CASE k = "SOCKS_OPEN"
  <2>1. Len(Fields(k)) = 3 /\ Needs(k)[1] = 4
    BY <1>8 DEF Fields, Layout, Needs
  <2>2. Len(payload) >= 4
    BY <1>1, <1>8 DEF LengthOk
  <2> QED BY <2>1, <2>2
<1>9. CASE k = "SOCKS_DATA"
  <2>1. Len(Fields(k)) = 2 /\ Needs(k)[1] = 4
    BY <1>9 DEF Fields, Layout, Needs
  <2>2. Len(payload) >= 4
    BY <1>1, <1>9 DEF LengthOk
  <2> QED BY <2>1, <2>2
<1>10. CASE k = "SOCKS_CLOSE"
  <2>1. Len(Fields(k)) = 1 /\ Needs(k)[1] = 4
    BY <1>10 DEF Fields, Layout, Needs
  <2>2. Len(payload) >= 4
    <3>1. msg.kind \in {"SOCKS_CLOSE", "SOCKS_CLOSE_REASON"}
      BY <1>1, <1>10
    <3>2. Len(payload) = 4 \/ Len(payload) = 8
      BY <3>1 DEF LengthOk
    <3>3. Len(payload) = 4
      BY <1>1, <1>10, <3>2
    <3> QED BY <3>3
  <2> QED BY <2>1, <2>2
<1>11. CASE k = "SOCKS_CLOSE_REASON"
  <2>1. Len(Fields(k)) = 3 /\ Needs(k)[1] = 8
    BY <1>11 DEF Fields, Layout, Needs
  <2>2. Len(payload) >= 8
    <3>1. Len(payload) = 8
      BY <1>1, <1>11
    <3> QED BY <3>1
  <2> QED BY <2>1, <2>2
<1> QED BY <1>1, <1>2, <1>3, <1>4, <1>5, <1>6, <1>7, <1>8, <1>9, <1>10, <1>11, LayoutFacts

LEMMA CodecInit == Init => CodecInv
<1> SUFFICES ASSUME Init PROVE CodecInv
  OBVIOUS
<1> USE DEF Init
<1>1. CodecType
  BY SizeAssumption DEF CodecType, Empty, Steps
<1>2. Build
  BY DEF Build, Building
<1>3. Inside
  BY DEF Inside, ReadsInside
<1> QED BY <1>1, <1>2, <1>3 DEF CodecInv

LEMMA CodecStep == CodecInv /\ [Next]_vars => CodecInv'
<1> SUFFICES ASSUME CodecInv, [Next]_vars PROVE CodecInv'
  OBVIOUS
<1> USE DEF CodecInv
<1>1. ASSUME NEW m \in Messages, Start(m) PROVE CodecInv'
  <2> USE <1>1 DEF Start
  <2>0. IsMessage(m)
    BY MessagesAssumption
  <2>1. Pieces(m) \in Seq(Seq(Bytes)) /\ Encoding(m) \in Seq(Bytes)
    BY <2>0, PiecesType
  <2>2. CodecType'
    BY <2>1 DEF CodecType, Steps
  <2>3. pc = "IDLE" /\ at = 1 /\ out = <<>> /\ buf = Empty /\ pos = 0 /\ at' = 1 /\ buf' = Empty
    BY DEF Build, Inside, Building
  <2>4. pc' = "APPEND" => at' <= Len(Pieces(msg')) + 1
                          /\ buf'.data = FlattenSeq(SubSeq(Pieces(msg'), 1, at' - 1))
    <3>1. SubSeq(Pieces(m), 1, 1 - 1) = <<>> /\ Len(Pieces(m)) \in Nat
      BY <2>1
    <3>2. buf'.data = <<>> /\ msg' = m /\ at' = 1
      BY <2>3 DEF Empty
    <3>3. FlattenSeq(SubSeq(Pieces(m), 1, 1 - 1)) = <<>>
      BY <3>1, FlattenEmpty
    <3>4. 1 <= Len(Pieces(m)) + 1
      BY <3>1
    <3> QED BY <3>2, <3>3, <3>4
  <2>5. out' # <<>> => out' = Encoding(msg') /\ Len(out') <= Cap
    <3>1. CASE ArgumentsOk(m) /\ m.kind \in Direct
      BY <2>0, <3>1, DirectFits
    <3>2. CASE ~(ArgumentsOk(m) /\ m.kind \in Direct)
      BY <2>3, <3>2
    <3> QED BY <3>1, <3>2
  <2>6. pc' \in Building => out' = <<>>
    BY <2>3 DEF Building
  <2>7. Build'
    BY <2>3, <2>4, <2>5, <2>6 DEF Build
  <2>8. Inside'
    BY <2>3 DEF Inside, ReadsInside, CodecType
  <2> QED BY <2>2, <2>7, <2>8
<1>2. ASSUME NEW memory \in BOOLEAN, AppendPiece(memory) PROVE CodecInv'
  <2> USE <1>2 DEF AppendPiece
  <2> DEFINE p == Pieces(msg)
  <2>1. p \in Seq(Seq(Bytes))
    BY MessagesAssumption, PiecesType DEF CodecType
  <2>2. at \in 1 .. Len(p) /\ Len(p) \in Nat /\ p[at] \in Seq(Bytes)
    BY <2>1 DEF CodecType
  <2>3. /\ buf' \in [data : Seq(Bytes), cap : 0 .. SizeMax]
        /\ buf'.data = buf.data \o p[at] /\ Len(buf'.data) <= buf'.cap
    BY <2>2, AppendedFacts DEF CodecType
  <2>4. CodecType'
    BY <2>2, <2>3 DEF CodecType
  <2>5. SubSeq(p, 1, (at + 1) - 1) = Append(SubSeq(p, 1, at - 1), p[at])
    <3> DEFINE T == Seq(Bytes)
    <3>1. p \in Seq(T)
      BY <2>1
    <3> HIDE DEF T, p
    <3> QED BY <2>2, <3>1
  <2>6. buf'.data = FlattenSeq(SubSeq(p, 1, (at + 1) - 1))
    <3>1. SubSeq(p, 1, at - 1) \in Seq(Seq(Bytes))
      <4> DEFINE T == Seq(Bytes)
      <4>1. p \in Seq(T)
        BY <2>1
      <4> HIDE DEF T, p
      <4>2. SubSeq(p, 1, at - 1) \in Seq(T)
        BY <2>2, <4>1
      <4> QED BY <4>2 DEF T
    <3>2. FlattenSeq(Append(SubSeq(p, 1, at - 1), p[at])) = FlattenSeq(SubSeq(p, 1, at - 1)) \o p[at]
      BY <2>2, <3>1, FlattenAppend
    <3>3. buf.data = FlattenSeq(SubSeq(p, 1, at - 1))
      BY DEF Build
    <3> QED BY <2>3, <2>5, <3>2, <3>3
  <2>7. Build'
    BY <2>2, <2>6 DEF Build, Building, CodecType
  <2>8. Inside'
    BY DEF Inside, ReadsInside
  <2> QED BY <2>4, <2>7, <2>8
<1>3. ASSUME NEW memory \in BOOLEAN, AppendPieceFails(memory) PROVE CodecInv'
  <2> USE <1>3 DEF AppendPieceFails, Free
  <2>1. CodecType'
    BY SizeAssumption DEF CodecType, Empty, Steps
  <2>2. Build'
    BY DEF Build, Building
  <2>3. Inside'
    BY DEF Inside, ReadsInside
  <2> QED BY <2>1, <2>2, <2>3
<1>4. ASSUME Finish PROVE CodecInv'
  <2> USE <1>4 DEF Finish, Free
  <2> DEFINE p == Pieces(msg)
  <2>1. p \in Seq(Seq(Bytes)) /\ Len(p) \in Nat
    BY MessagesAssumption, PiecesType DEF CodecType
  <2>2. at - 1 = Len(p) /\ SubSeq(p, 1, at - 1) = p
    <3>1. at - 1 = Len(p)
      BY <2>1 DEF Build, CodecType
    <3> DEFINE T == Seq(Bytes)
    <3>2. p \in Seq(T)
      BY <2>1
    <3> HIDE DEF T, p
    <3>3. SubSeq(p, 1, Len(p)) = p
      BY <3>2
    <3> QED BY <3>1, <3>3
  <2>3. buf.data = Encoding(msg)
    BY <2>2 DEF Build, Encoding
  <2>4. CodecType'
    BY SizeAssumption DEF CodecType, Empty, Steps
  <2>5. Build'
    BY <2>3 DEF Build, Building
  <2>6. Inside'
    BY DEF Inside, ReadsInside
  <2> QED BY <2>4, <2>5, <2>6
<1>5. ASSUME Deliver PROVE CodecInv'
  <2> USE <1>5 DEF Deliver
  <2>1. Len(out) \in Nat
    BY DEF CodecType
  <2>2. PICK n \in 0 .. Len(out) + 1 :
          payload' = [i \in 1 .. n |-> IF i <= Len(out) THEN out[i] ELSE 1]
    OBVIOUS
  <2>3. payload' \in Seq(Bytes)
    <3>1. \A i \in 1 .. n : (IF i <= Len(out) THEN out[i] ELSE 1) \in Bytes
      BY <2>1, BytesFacts DEF CodecType
    <3>2. n \in Nat
      BY <2>1
    <3> QED BY <2>2, <3>1, <3>2
  <2>4. CodecType'
    BY <2>3 DEF CodecType, Steps
  <2>5. Build'
    BY DEF Build, Building
  <2>6. Len(payload') \in Nat
    BY <2>3
  <2>7. Inside'
    BY <2>6 DEF Inside, ReadsInside
  <2> QED BY <2>4, <2>5, <2>7
<1>6. ASSUME Receive PROVE CodecInv'
  <2> USE <1>6 DEF Receive
  <2>1. CodecType'
    BY DEF CodecType, Steps
  <2>2. Build'
    BY DEF Build, Building
  <2>3. msg.kind \in Kinds
    BY MessagesAssumption DEF CodecType, IsMessage
  <2>4. Len(payload) \in Nat
    BY DEF CodecType
  <2>5. pc' = "DECODE" => LengthOk(msg.kind, Len(payload))
    OBVIOUS
  <2>6. DecodedAs' = DecodedAs
    BY DEF DecodedAs
  <2>7. LengthOk(msg.kind, Len(payload)) =>
          1 <= Len(Fields(DecodedAs)) /\ Len(payload) >= Needs(DecodedAs)[1]
    BY <2>3, <2>4, StartHasEnough
  <2>8. Inside'
    BY <2>4, <2>5, <2>6, <2>7 DEF Inside, ReadsInside, Left
  <2> QED BY <2>1, <2>2, <2>8
<1>7. ASSUME ReadNumber PROVE CodecInv'
  <2> USE <1>7 DEF ReadNumber, Reads
  <2>0. /\ msg.kind \in Kinds /\ Left \in Int /\ at \in Nat \ {0} /\ Len(payload) \in Nat
        /\ Left >= Needs(DecodedAs)[at]
    <3>1. msg.kind \in Kinds
      BY MessagesAssumption, MessageFields DEF CodecType
    <3> QED BY <3>1 DEF CodecType, Left, Inside
  <2> DEFINE n == IF Field.as = "rest" THEN Left ELSE Field.size
  <2>1. /\ n \in Nat /\ n <= Left
        /\ at + 1 <= Len(Fields(DecodedAs)) => Left - n >= Needs(DecodedAs)[at + 1]
    BY <2>0, EnoughFollows
  <2>2. pos' = pos + n
    OBVIOUS
  <2> HIDE DEF n
  <2>3. CodecType'
    BY <2>1, <2>2 DEF CodecType
  <2>4. Build'
    BY DEF Build, Building
  <2>5. DecodedAs' = DecodedAs /\ Left' = Left - n /\ pos' <= Len(payload)
    BY <2>0, <2>1, <2>2 DEF DecodedAs, Left, CodecType
  <2>6. Len(Fields(DecodedAs)) \in Nat
    BY <2>0, DecodedFacts
  <2>7. Inside'
    BY <2>0, <2>1, <2>5, <2>6 DEF Inside, ReadsInside
  <2> QED BY <2>3, <2>4, <2>7
<1>8. ASSUME ReadText PROVE CodecInv'
  <2> USE <1>8 DEF ReadText, Reads
  <2>0. /\ msg.kind \in Kinds /\ Left \in Int /\ at \in Nat \ {0} /\ Len(payload) \in Nat
        /\ Left >= Needs(DecodedAs)[at]
    <3>1. msg.kind \in Kinds
      BY MessagesAssumption, MessageFields DEF CodecType
    <3> QED BY <3>1 DEF CodecType, Left, Inside
  <2> DEFINE n == 2 + Get(BytesAt(pos, 2))
  <2>1. /\ n \in Nat /\ n <= Left
        /\ at + 1 <= Len(Fields(DecodedAs)) => Needs(DecodedAs)[at + 1] = 0
    <3>1. Get(BytesAt(pos, 2)) \in Nat
      BY BytesAtType DEF CodecType
    <3>2. Left >= n
      BY DEF TextFits
    <3>3. at + 1 <= Len(Fields(DecodedAs)) => Needs(DecodedAs)[at + 1] = 0
      BY <2>0, EnoughFollows
    <3> QED BY <2>0, <3>1, <3>2, <3>3
  <2>2. pos' = pos + n
    OBVIOUS
  <2> HIDE DEF n
  <2>3. CodecType'
    BY <2>1, <2>2 DEF CodecType
  <2>4. Build'
    BY DEF Build, Building
  <2>5. DecodedAs' = DecodedAs /\ Left' = Left - n /\ pos' <= Len(payload)
    BY <2>0, <2>1, <2>2 DEF DecodedAs, Left, CodecType
  <2>6. Len(Fields(DecodedAs)) \in Nat
    BY <2>0, DecodedFacts
  <2>7. Inside'
    BY <2>0, <2>1, <2>5, <2>6 DEF Inside, ReadsInside
  <2> QED BY <2>3, <2>4, <2>7
<1>9. ASSUME Refuse PROVE CodecInv'
  <2> USE <1>9 DEF Refuse
  <2>1. CodecType'
    BY DEF CodecType, Steps
  <2>2. Build'
    BY DEF Build, Building
  <2>3. Inside'
    BY DEF Inside, ReadsInside
  <2> QED BY <2>1, <2>2, <2>3
<1>10. ASSUME Decoded PROVE CodecInv'
  <2> USE <1>10 DEF Decoded
  <2>0. pc' \in {"ACCEPTED", "REFUSED"}
    OBVIOUS
  <2>1. CodecType'
    BY <2>0 DEF CodecType, Steps
  <2>2. Build'
    BY <2>0 DEF Build, Building
  <2>3. Inside'
    BY <2>0 DEF Inside, ReadsInside
  <2> QED BY <2>1, <2>2, <2>3
<1>11. ASSUME UNCHANGED vars PROVE CodecInv'
  <2> USE <1>11 DEF vars
  <2>1. CodecType'
    BY DEF CodecType
  <2>2. Build'
    BY DEF Build
  <2>3. DecodedAs' = DecodedAs /\ Left' = Left
    BY DEF DecodedAs, Left
  <2>4. Inside'
    BY <2>3 DEF Inside, ReadsInside
  <2> QED BY <2>1, <2>2, <2>4
<1> QED
  BY <1>1, <1>2, <1>3, <1>4, <1>5, <1>6, <1>7, <1>8, <1>9, <1>10, <1>11 DEF Next

(* No decoder reads behind the payload, whatever lengths the payload states *)
(* and whatever follows or is missing.                                      *)
THEOREM NeverReadsOutside == Spec => []ReadsInside
<1>1. CodecInv => ReadsInside
  BY DEF CodecInv, Inside
<1> QED BY <1>1, CodecInit, CodecStep, PTL DEF Spec

(* The encoders hand out the whole message or nothing. *)
THEOREM BufferHoldsPieces == Spec => []BufferSound
<1>1. CodecInv => BufferSound
  <2> SUFFICES ASSUME CodecInv PROVE BufferSound
    OBVIOUS
  <2>1. Len(buf.data) <= buf.cap /\ buf.cap <= SizeMax
    BY SizeAssumption DEF CodecInv, CodecType
  <2>2. \A i \in DOMAIN buf.data : buf.data[i] \in 0 .. Base - 1
    <3>1. buf.data \in Seq(Bytes)
      BY DEF CodecInv, CodecType
    <3>2. \A i \in DOMAIN buf.data : buf.data[i] \in Bytes
      BY <3>1
    <3> QED BY <3>2 DEF Bytes
  <2>3. pc # "APPEND" => ~Held(buf)
    BY DEF CodecInv, Build, Held, Empty
  <2> QED BY <2>1, <2>2, <2>3 DEF BufferSound, CodecInv, Build
<1> QED BY <1>1, CodecInit, CodecStep, PTL DEF Spec

-----------------------------------------------------------------------------
(* From the message to the verdict: numbers and sections of bytes *)

(* Bytes are numbers. *)
LEMMA BytesAreNumbers ==
    ASSUME NEW s \in Seq(Bytes)
    PROVE  s \in Seq(Nat)
<1>1. Len(s) \in Nat /\ s = [i \in 1 .. Len(s) |-> s[i]] /\ \A i \in 1 .. Len(s) : s[i] \in Bytes
  OBVIOUS
<1>2. \A i \in 1 .. Len(s) : s[i] \in Nat
  BY <1>1, BytesFacts
<1>3. [i \in 1 .. Len(s) |-> s[i]] \in Seq(Nat)
  BY <1>1, <1>2
<1> QED BY <1>1, <1>3

(* Shifting by one byte more divides once more. *)
LEMMA ShiftedStep ==
    ASSUME NEW n \in Nat, NEW k \in Nat
    PROVE  /\ Shifted(n, 0) = n /\ Shifted(n, k) \in Nat
           /\ Shifted(n, k + 1) = Shifted(n, k) \div Base
<1>1. PICK f \in [0 .. k -> Nat] :
        f[0] = n /\ (\A j \in 1 .. k : f[j] = f[j - 1] \div Base) /\ Shifted(n, k) = f[k]
  BY ShiftedFacts
<1>2. PICK g \in [0 .. k + 1 -> Nat] :
        /\ g[0] = n /\ \A j \in 1 .. k + 1 : g[j] = g[j - 1] \div Base
        /\ Shifted(n, k + 1) = g[k + 1]
  <2>1. k + 1 \in Nat
    OBVIOUS
  <2> QED BY <2>1, ShiftedFacts
<1>3. \A j \in 1 .. k : j \in 1 .. k + 1
  OBVIOUS
<1>4. Together(k, f, g)
  BY <1>1, <1>2, <1>3 DEF Together
<1>5. f[k] = g[k]
  <2>1. \A j \in 0 .. k : f[j] = g[j]
    BY <1>4, SameWay
  <2> QED BY <2>1
<1>6. g[k + 1] = g[k] \div Base
  <2>1. k + 1 \in 1 .. k + 1 /\ (k + 1) - 1 = k
    OBVIOUS
  <2> QED BY <1>2, <2>1
<1>7. Shifted(n, 0) = n
  <2>1. PICK h \in [0 .. 0 -> Nat] : h[0] = n /\ Shifted(n, 0) = h[0]
    BY ShiftedFacts
  <2> QED BY <2>1
<1> QED BY <1>1, <1>2, <1>5, <1>6, <1>7

(* A number is its quotient and its remainder. *)
LEMMA DivMod ==
    ASSUME NEW x \in Nat
    PROVE  /\ x \div Base \in Nat /\ x % Base \in Bytes
           /\ (x \div Base) * Base + (x % Base) = x
  BY BaseAssumption DEF Bytes

(* What is written in w bytes is read back. *)
LEMMA GetPut ==
    ASSUME NEW n \in Nat, NEW w \in Nat, Fits(n, w)
    PROVE  Get(Put(n, w)) = n
<1> DEFINE s == Put(n, w)
<1>1. s \in Seq(Nat) /\ Len(s) = w
  <2>1. s \in Seq(Bytes) /\ Len(s) = w
    BY PutType
  <2> QED BY <2>1, BytesAreNumbers
<1>2. \A i \in 1 .. w : s[i] = Shifted(n, w - i) % Base
  BY DEF Put
<1> HIDE DEF s
<1>3. PICK f \in [0 .. Len(s) -> Nat] :
        f[0] = 0 /\ (\A i \in 1 .. Len(s) : f[i] = f[i - 1] * Base + s[i]) /\ Get(s) = f[Len(s)]
  BY <1>1, GetFacts
<1> DEFINE g == [i \in 0 .. w |-> Shifted(n, w - i)]
<1>4. g[0] = 0
  BY DEF Fits
<1>5. ASSUME NEW i \in 1 .. w PROVE g[i] = g[i - 1] * Base + s[i]
  <2>1. w - i \in Nat /\ w - (i - 1) = (w - i) + 1 /\ i - 1 \in 0 .. w /\ i \in 0 .. w
    OBVIOUS
  <2>2. /\ Shifted(n, w - i) \in Nat
        /\ Shifted(n, (w - i) + 1) = Shifted(n, w - i) \div Base
    BY <2>1, ShiftedStep
  <2>3. g[i] = Shifted(n, w - i) /\ g[i - 1] = Shifted(n, w - i) \div Base
    BY <2>1, <2>2
  <2>4. s[i] = Shifted(n, w - i) % Base
    BY <1>2
  <2> HIDE DEF g
  <2>5. (Shifted(n, w - i) \div Base) * Base + (Shifted(n, w - i) % Base) = Shifted(n, w - i)
    BY <2>2, DivMod
  <2> QED BY <2>3, <2>4, <2>5
<1>6. g[w] = n
  <2>1. w \in 0 .. w /\ w - w = 0
    OBVIOUS
  <2>2. Shifted(n, 0) = n
    BY ShiftedStep
  <2> QED BY <2>1, <2>2
<1> HIDE DEF g
<1>7. Together(w, f, g)
  BY <1>1, <1>3, <1>4, <1>5 DEF Together
<1>8. f[w] = g[w]
  <2>1. \A i \in 0 .. w : f[i] = g[i]
    BY <1>7, SameWay
  <2> QED BY <2>1
<1> QED BY <1>1, <1>3, <1>6, <1>8 DEF s

(* A byte takes one byte, a text's length two. *)
LEMMA SmallFits ==
    /\ \A n \in Bytes : Put(n, 1)[1] = n
    /\ \A n \in 0 .. TextMax : Fits(n, 2)
<1>1. ASSUME NEW n \in Bytes PROVE Put(n, 1)[1] = n
  <2>1. n \in Nat /\ Shifted(n, 0) = n
    BY BytesFacts, ShiftedStep
  <2>2. Put(n, 1)[1] = Shifted(n, 1 - 1) % Base
    BY DEF Put
  <2>3. n % Base = n
    BY BaseAssumption DEF Bytes
  <2> QED BY <2>1, <2>2, <2>3
<1>2. ASSUME NEW n \in 0 .. TextMax PROVE Fits(n, 2)
  <2>1. n \in Nat /\ n < Base * Base
    BY BaseAssumption DEF TextMax
  <2>2. Shifted(n, 0) = n /\ Shifted(n, 1) = n \div Base /\ Shifted(n, 2) = (n \div Base) \div Base
    <3>1. Shifted(n, 0) = n /\ Shifted(n, 0 + 1) = Shifted(n, 0) \div Base
      BY <2>1, ShiftedStep
    <3>2. Shifted(n, 1 + 1) = Shifted(n, 1) \div Base
      BY <2>1, ShiftedStep
    <3> QED BY <3>1, <3>2
  <2>3. n \div Base \in Nat /\ n \div Base < Base
    <3> DEFINE q == n \div Base
    <3>1. q \in Nat /\ q * Base + (n % Base) = n /\ n % Base \in Nat
      BY <2>1, DivMod, BytesFacts
    <3> HIDE DEF q
    <3>2. q * Base <= n /\ q * Base < Base * Base
      BY <2>1, <3>1, BaseAssumption
    <3>3. ~(Base <= q)
      <4> SUFFICES ASSUME Base <= q PROVE FALSE
        OBVIOUS
      <4>1. Base * Base <= q * Base
        BY <3>1, BaseAssumption
      <4> QED BY <3>1, <3>2, <4>1, BaseAssumption
    <3> QED BY <3>1, <3>3, BaseAssumption DEF q
  <2>4. (n \div Base) \div Base = 0
    BY <2>3, BaseAssumption
  <2> QED BY <2>2, <2>4 DEF Fits
<1> QED BY <1>1, <1>2

-----------------------------------------------------------------------------
(* An encoding as one section for each field *)

(* What begins with a. *)
Opens(a, b) == Len(a) <= Len(b) /\ \A x \in 1 .. Len(a) : b[x] = a[x]
(* Each e[i] is the one before it with something of S appended. *)
Grows(S, N, e) ==
    e \in [0 .. N -> Seq(S)] /\ \A i \in 1 .. N : \E s \in Seq(S) : e[i] = e[i - 1] \o s

(* A sequence that others are appended to begins as it did. *)
LEMMA GrowsOpens ==
    ASSUME NEW S, NEW N \in Nat, NEW e, Grows(S, N, e), NEW i \in 0 .. N, NEW j \in 0 .. N, i <= j
    PROVE  Opens(e[i], e[j])
<1> DEFINE P == {d \in Nat : i + d <= N => Opens(e[i], e[i + d])}
<1>1. 0 \in P
  <2>1. i + 0 = i
    OBVIOUS
  <2>2. Opens(e[i], e[i])
    <3>1. e[i] \in Seq(S)
      BY DEF Grows
    <3> QED BY <3>1 DEF Opens
  <2> QED BY <2>1, <2>2
<1>2. ASSUME NEW d \in P PROVE d + 1 \in P
  <2> SUFFICES ASSUME i + (d + 1) <= N PROVE Opens(e[i], e[i + (d + 1)])
    OBVIOUS
  <2>1. i + (d + 1) \in 1 .. N /\ (i + (d + 1)) - 1 = i + d /\ i + d \in 0 .. N
    OBVIOUS
  <2>2. PICK s \in Seq(S) : e[i + (d + 1)] = e[i + d] \o s
    BY <2>1 DEF Grows
  <2>3. e[i] \in Seq(S) /\ e[i + d] \in Seq(S)
    BY <2>1 DEF Grows
  <2>4. Opens(e[i], e[i + d])
    BY <2>1
  <2> DEFINE a == e[i]
             b == e[i + d]
  <2>5. a \in Seq(S) /\ b \in Seq(S) /\ Opens(a, b)
    BY <2>3, <2>4
  <2> HIDE DEF a, b
  <2>6. Len(a) \in Nat /\ Len(b) \in Nat /\ Len(s) \in Nat /\ Len(b \o s) = Len(b) + Len(s)
    BY <2>5
  <2>7. Len(a) <= Len(b \o s)
    BY <2>5, <2>6 DEF Opens
  <2>8. \A x \in 1 .. Len(a) : (b \o s)[x] = a[x]
    <3> SUFFICES ASSUME NEW x \in 1 .. Len(a) PROVE (b \o s)[x] = a[x]
      OBVIOUS
    <3>1. x \in 1 .. Len(b)
      BY <2>5, <2>6 DEF Opens
    <3>2. (b \o s)[x] = b[x]
      BY <2>5, <3>1
    <3> QED BY <2>5, <3>2 DEF Opens
  <2>9. Opens(a, b \o s)
    BY <2>7, <2>8 DEF Opens
  <2> QED BY <2>2, <2>9 DEF a, b
<1>3. P = Nat
  BY <1>1, <1>2, AllNumbers
<1>4. j - i \in Nat /\ i + (j - i) = j
  OBVIOUS
<1>5. j - i \in P
  BY <1>3, <1>4
<1>6. i + (j - i) <= N => Opens(e[i], e[i + (j - i)])
  BY <1>5
<1> QED BY <1>4, <1>6

(* One piece or two flattened behind others. *)
FlatBehind(s, a, b) ==
    /\ FlattenSeq(s \o <<a>>) = FlattenSeq(s) \o a
    /\ FlattenSeq(s \o <<a, b>>) = FlattenSeq(s) \o (a \o b)

LEMMA FlattenBehind ==
    ASSUME NEW S, NEW s \in Seq(Seq(S)), NEW a \in Seq(S), NEW b \in Seq(S)
    PROVE  FlatBehind(s, a, b)
<1> DEFINE T == Seq(S)
<1>1. s \in Seq(T) /\ a \in T /\ b \in T
  OBVIOUS
<1>2. FlattenSeq(Append(s, a)) = FlattenSeq(s) \o a
  BY FlattenAppend
<1> HIDE DEF T
<1>3. s \o <<a>> = Append(s, a) /\ Append(s, a) \in Seq(T)
  BY <1>1
<1>4. s \o <<a, b>> = Append(Append(s, a), b)
  BY <1>1
<1>5. FlattenSeq(Append(Append(s, a), b)) = FlattenSeq(Append(s, a)) \o b
  BY <1>1, <1>3, FlattenAppend DEF T
<1>6. FlattenSeq(s) \in Seq(S)
  BY FlattenType
<1>7. (FlattenSeq(s) \o a) \o b = FlattenSeq(s) \o (a \o b)
  BY <1>6, ConcatAssociative
<1> QED BY <1>2, <1>3, <1>4, <1>5, <1>7 DEF FlatBehind

(* The bytes of a field, and how many they are. *)
Section(f, v) == FlattenSeq(PiecesOf(f, v))

LEMMA SectionFacts ==
    ASSUME NEW f, IsForm(f), NEW v, IsField(f, v)
    PROVE  /\ Section(f, v) \in Seq(Bytes) /\ Len(Section(f, v)) \in Nat
           /\ f.as = "num" => Section(f, v) = Put(v, f.size) /\ Len(Section(f, v)) = f.size
           /\ f.as = "text" => /\ Section(f, v) = Put(Len(v), 2) \o v
                               /\ Len(Section(f, v)) = 2 + Len(v)
           /\ f.as \in {"raw", "rest"} => Section(f, v) = v
<1>1. f.size \in Nat /\ f.as \in {"num", "raw", "text", "rest"}
  BY DEF IsForm
<1>2. CASE f.as = "num"
  <2>1. Put(v, f.size) \in Seq(Bytes) /\ Len(Put(v, f.size)) = f.size
    BY <1>1, <1>2, PutType DEF IsField
  <2>2. PiecesOf(f, v) = <<Put(v, f.size)>>
    BY <1>2 DEF PiecesOf
  <2>3. FlattenSeq(<<Put(v, f.size)>>) = Put(v, f.size)
    BY <2>1, FlattenFew DEF FewFlat
  <2> QED BY <1>1, <1>2, <2>1, <2>2, <2>3 DEF Section
<1>3. CASE f.as = "text"
  <2>1. v \in Seq(Bytes) /\ Len(v) \in Nat
    BY <1>3 DEF IsField
  <2>2. Put(Len(v), 2) \in Seq(Bytes) /\ Len(Put(Len(v), 2)) = 2
    BY <2>1, PutType
  <2>3. PiecesOf(f, v) = <<Put(Len(v), 2), v>>
    BY <1>3 DEF PiecesOf
  <2>4. FlattenSeq(<<Put(Len(v), 2), v>>) = Put(Len(v), 2) \o v
    BY <2>1, <2>2, FlattenFew DEF FewFlat
  <2> DEFINE p == Put(Len(v), 2)
  <2> HIDE DEF p
  <2>5. p \o v \in Seq(Bytes) /\ Len(p \o v) = 2 + Len(v)
    <3>1. p \in Seq(Bytes) /\ Len(p) = 2
      BY <2>2 DEF p
    <3>2. p \o v \in Seq(Bytes)
      BY <2>1, <3>1
    <3>3. Len(p \o v) = Len(p) + Len(v)
      BY <2>1, <3>1, ConcatProperties
    <3> QED BY <3>1, <3>2, <3>3
  <2>6. Section(f, v) = p \o v
    BY <2>3, <2>4 DEF Section, p
  <2> QED BY <1>3, <2>1, <2>5, <2>6 DEF p
<1>4. CASE f.as \in {"raw", "rest"}
  <2>1. v \in Seq(Bytes) /\ Len(v) \in Nat
    BY <1>4 DEF IsField
  <2>2. PiecesOf(f, v) = <<v>>
    BY <1>4 DEF PiecesOf
  <2>3. FlattenSeq(<<v>>) = v
    BY <2>1, FlattenFew DEF FewFlat
  <2> QED BY <1>4, <2>1, <2>2, <2>3 DEF Section
<1> QED BY <1>1, <1>2, <1>3, <1>4

(* The value of a message's i-th field, and its section of the encoding. *)
FieldAt(m, i)   == Fields(m.kind)[i]
ValueAt(m, i)   == m.field[FieldAt(m, i).name]
SectionAt(m, i) == Section(FieldAt(m, i), ValueAt(m, i))
FieldCount(m)   == Len(Fields(m.kind))

(* p[i] and e[i] are the pieces and the bytes of the first i fields. *)
IsChain(m, p, e) ==
    /\ p \in [0 .. FieldCount(m) -> Seq(Seq(Bytes))] /\ e \in [0 .. FieldCount(m) -> Seq(Bytes)]
    /\ p[0] = <<>> /\ e[0] = <<>>
    /\ \A i \in 1 .. FieldCount(m) :
         /\ p[i] = p[i - 1] \o PiecesOf(FieldAt(m, i), ValueAt(m, i))
         /\ e[i] = e[i - 1] \o SectionAt(m, i)
    /\ p[FieldCount(m)] = Pieces(m) /\ e[FieldCount(m)] = Encoding(m)

(* Every field of a message has a form, a value of that form, and its bytes. *)
LEMMA FieldFacts ==
    ASSUME NEW m, IsMessage(m)
    PROVE  /\ FieldCount(m) \in Nat /\ DOMAIN Fields(m.kind) = 1 .. FieldCount(m)
           /\ \A i \in 1 .. FieldCount(m) :
                /\ IsForm(FieldAt(m, i)) /\ IsField(FieldAt(m, i), ValueAt(m, i))
                /\ PiecesOf(FieldAt(m, i), ValueAt(m, i)) \in Seq(Seq(Bytes))
                /\ SectionAt(m, i) \in Seq(Bytes) /\ Len(SectionAt(m, i)) \in Nat
<1>1. IsLayout(Fields(m.kind))
  BY LayoutFacts DEF IsMessage
<1>2. FieldCount(m) \in Nat /\ DOMAIN Fields(m.kind) = 1 .. FieldCount(m)
  BY <1>1 DEF IsLayout, FieldCount
<1>3. ASSUME NEW i \in 1 .. FieldCount(m)
      PROVE  IsForm(FieldAt(m, i)) /\ IsField(FieldAt(m, i), ValueAt(m, i))
  <2>1. IsForm(FieldAt(m, i))
    BY <1>1 DEF IsLayout, FieldCount, FieldAt
  <2>2. IsField(FieldAt(m, i), ValueAt(m, i))
    BY <1>2 DEF IsMessage, FieldAt, ValueAt
  <2> QED BY <2>1, <2>2
<1>4. ASSUME NEW i \in 1 .. FieldCount(m)
      PROVE  /\ PiecesOf(FieldAt(m, i), ValueAt(m, i)) \in Seq(Seq(Bytes))
             /\ SectionAt(m, i) \in Seq(Bytes) /\ Len(SectionAt(m, i)) \in Nat
  <2>1. PiecesOf(FieldAt(m, i), ValueAt(m, i)) \in Seq(Seq(Bytes))
    BY <1>3, PiecesOfType
  <2>2. SectionAt(m, i) \in Seq(Bytes) /\ Len(SectionAt(m, i)) \in Nat
    BY <1>3, SectionFacts DEF SectionAt
  <2> QED BY <2>1, <2>2
<1> QED BY <1>2, <1>3, <1>4

(* The pieces and the bytes of a message grow field by field. *)
LEMMA ChainExists ==
    ASSUME NEW m, IsMessage(m)
    PROVE  \E p, e : IsChain(m, p, e)
<1> DEFINE n == FieldCount(m)
           F == [i \in DOMAIN Fields(m.kind) |->
                  PiecesOf(Fields(m.kind)[i], m.field[Fields(m.kind)[i].name])]
           T == Seq(Seq(Bytes))
<1>1. n \in Nat /\ DOMAIN Fields(m.kind) = 1 .. n
  BY FieldFacts
<1>2. \A i \in 1 .. n : F[i] = PiecesOf(FieldAt(m, i), ValueAt(m, i)) /\ F[i] \in T
  BY <1>1, FieldFacts DEF FieldAt, ValueAt
<1>3. F \in Seq(T) /\ Len(F) = n
  <2>1. F = [i \in 1 .. n |-> F[i]]
    BY <1>1
  <2>2. \A i \in 1 .. n : F[i] \in T
    BY <1>2
  <2> HIDE DEF F, T, n
  <2>3. [i \in 1 .. n |-> F[i]] \in Seq(T) /\ Len([i \in 1 .. n |-> F[i]]) = n
    BY <1>1, <2>2
  <2> QED BY <2>1, <2>3
<1>4. Pieces(m) = FlattenSeq(F)
  BY DEF Pieces
<1> HIDE DEF F, n
<1>5. PICK p \in [0 .. Len(F) -> Seq(Seq(Bytes))] :
        /\ p[0] = <<>> /\ \A i \in 1 .. Len(F) : p[i] = p[i - 1] \o F[i]
        /\ FlattenSeq(F) = p[Len(F)]
  BY <1>3, FlattenFacts DEF T
<1> HIDE DEF T
<1> DEFINE e == [i \in 0 .. n |-> FlattenSeq(p[i])]
<1>6. \A i \in 0 .. n : p[i] \in T
  BY <1>3, <1>5 DEF T
<1>7. \A i \in 0 .. n : e[i] \in Seq(Bytes)
  BY <1>6, FlattenType DEF T
<1>8. e[0] = <<>>
  BY <1>1, <1>5, FlattenEmpty
<1>9. ASSUME NEW i \in 1 .. n PROVE e[i] = e[i - 1] \o SectionAt(m, i)
  <2> DEFINE f == FieldAt(m, i)
             v == ValueAt(m, i)
  <2>1. i - 1 \in 0 .. n /\ i \in 0 .. n
    BY <1>1
  <2>2. p[i] = p[i - 1] \o PiecesOf(f, v) /\ p[i - 1] \in Seq(Seq(Bytes))
    BY <1>2, <1>3, <1>5, <1>6, <2>1 DEF T
  <2>3. IsForm(f) /\ IsField(f, v)
    BY FieldFacts DEF n
  <2>4. FlattenSeq(p[i]) = FlattenSeq(p[i - 1]) \o Section(f, v)
    <3> HIDE DEF f, v
    <3>1. CASE f.as = "text"
      <4>1. v \in Seq(Bytes) /\ Len(v) \in Nat
        BY <2>3, <3>1 DEF IsField
      <4>2. Put(Len(v), 2) \in Seq(Bytes)
        BY <4>1, PutType
      <4>3. PiecesOf(f, v) = <<Put(Len(v), 2), v>>
        BY <3>1 DEF PiecesOf
      <4>4. FlattenSeq(p[i - 1] \o <<Put(Len(v), 2), v>>) = FlattenSeq(p[i - 1]) \o (Put(Len(v), 2) \o v)
        <5> DEFINE s == p[i - 1]
                   x == Put(Len(v), 2)
        <5>1. s \in Seq(Seq(Bytes)) /\ x \in Seq(Bytes) /\ v \in Seq(Bytes)
          BY <2>2, <4>1, <4>2
        <5> HIDE DEF s, x
        <5>2. FlatBehind(s, x, v)
          BY <5>1, FlattenBehind
        <5>3. FlattenSeq(s \o <<x, v>>) = FlattenSeq(s) \o (x \o v)
          BY <5>2 DEF FlatBehind
        <5> QED BY <5>3 DEF s, x
      <4>5. Section(f, v) = Put(Len(v), 2) \o v
        BY <2>3, <3>1, SectionFacts
      <4> QED BY <2>2, <4>3, <4>4, <4>5
    <3>2. CASE f.as = "num"
      <4>1. v \in Nat /\ f.size \in Nat
        BY <2>3, <3>2 DEF IsField, IsForm
      <4>2. Put(v, f.size) \in Seq(Bytes)
        BY <4>1, PutType
      <4>3. PiecesOf(f, v) = <<Put(v, f.size)>>
        BY <3>2 DEF PiecesOf
      <4>4. FlattenSeq(p[i - 1] \o <<Put(v, f.size)>>) = FlattenSeq(p[i - 1]) \o Put(v, f.size)
        BY <2>2, <4>2, FlattenBehind DEF FlatBehind
      <4>5. Section(f, v) = Put(v, f.size)
        BY <2>3, <3>2, SectionFacts
      <4> QED BY <2>2, <4>3, <4>4, <4>5
    <3>3. CASE f.as \in {"raw", "rest"}
      <4>1. v \in Seq(Bytes)
        BY <2>3, <3>3 DEF IsField
      <4>2. PiecesOf(f, v) = <<v>>
        BY <3>3 DEF PiecesOf
      <4>3. FlattenSeq(p[i - 1] \o <<v>>) = FlattenSeq(p[i - 1]) \o v
        BY <2>2, <4>1, FlattenBehind DEF FlatBehind
      <4>4. Section(f, v) = v
        BY <2>3, <3>3, SectionFacts
      <4> QED BY <2>2, <4>2, <4>3, <4>4
    <3> QED BY <2>3, <3>1, <3>2, <3>3 DEF IsForm
  <2> QED BY <2>1, <2>4 DEF SectionAt
<1>10. e[n] = Encoding(m)
  BY <1>1, <1>3, <1>4, <1>5 DEF Encoding
<1>11. e \in [0 .. n -> Seq(Bytes)]
  BY <1>7
<1> HIDE DEF e
<1>12. \A i \in 1 .. n : p[i] = p[i - 1] \o PiecesOf(FieldAt(m, i), ValueAt(m, i))
  BY <1>2, <1>3, <1>5
<1>13. IsChain(m, p, e)
  BY <1>3, <1>4, <1>5, <1>8, <1>9, <1>10, <1>11, <1>12 DEF IsChain, n
<1> QED BY <1>13

(* The pieces and the bytes of the first fields, field by field. *)
PieceChain(m) == CHOOSE p : \E e : IsChain(m, p, e)
ByteChain(m)  == CHOOSE e : IsChain(m, PieceChain(m), e)

LEMMA ChainFacts ==
    ASSUME NEW m, IsMessage(m)
    PROVE  IsChain(m, PieceChain(m), ByteChain(m))
<1>1. \E p : \E e : IsChain(m, p, e)
  BY ChainExists
<1>2. \E e : IsChain(m, PieceChain(m), e)
  BY <1>1 DEF PieceChain
<1> QED BY <1>2 DEF ByteChain

(* How many bytes the first i fields take. *)
Off(m, i) == Len(ByteChain(m)[i])

(* The encoding of a message is the sections of its fields in their order. *)
Laid(m) ==
    /\ Off(m, 0) = 0 /\ Off(m, FieldCount(m)) = Len(Encoding(m))
    /\ \A i \in 0 .. FieldCount(m) : Off(m, i) \in Nat
    /\ \A i, j \in 0 .. FieldCount(m) : i <= j => Off(m, i) <= Off(m, j)
    /\ \A i \in 1 .. FieldCount(m) : Off(m, i) = Off(m, i - 1) + Len(SectionAt(m, i))
    /\ \A i \in 1 .. FieldCount(m) : \A j \in 1 .. Len(SectionAt(m, i)) :
         Encoding(m)[Off(m, i - 1) + j] = SectionAt(m, i)[j]

LEMMA LaidOut ==
    ASSUME NEW m, IsMessage(m)
    PROVE  Laid(m)
<1> DEFINE n == FieldCount(m)
           e == ByteChain(m)
<1>1. n \in Nat /\ \A i \in 1 .. n : SectionAt(m, i) \in Seq(Bytes) /\ Len(SectionAt(m, i)) \in Nat
  BY FieldFacts
<1>2. /\ e \in [0 .. n -> Seq(Bytes)] /\ e[0] = <<>> /\ e[n] = Encoding(m)
      /\ \A i \in 1 .. n : e[i] = e[i - 1] \o SectionAt(m, i)
  BY ChainFacts DEF IsChain
<1>3. \A i \in 0 .. n : Off(m, i) = Len(e[i])
  BY DEF Off
<1> HIDE DEF n, e
<1>4. Grows(Bytes, n, e)
  BY <1>1, <1>2 DEF Grows
<1>5. \A i, j \in 0 .. n : i <= j => Opens(e[i], e[j])
  BY <1>1, <1>4, GrowsOpens
<1>6. \A i \in 0 .. n : Len(e[i]) \in Nat
  BY <1>2
<1>7. Off(m, 0) = 0 /\ Off(m, n) = Len(Encoding(m)) /\ \A i \in 0 .. n : Off(m, i) \in Nat
  BY <1>1, <1>2, <1>3, <1>6
<1>8. \A i, j \in 0 .. n : i <= j => Off(m, i) <= Off(m, j)
  BY <1>3, <1>5 DEF Opens
<1>9. ASSUME NEW i \in 1 .. n
      PROVE  /\ Off(m, i) = Off(m, i - 1) + Len(SectionAt(m, i))
             /\ \A j \in 1 .. Len(SectionAt(m, i)) :
                  Encoding(m)[Off(m, i - 1) + j] = SectionAt(m, i)[j]
  <2> DEFINE a == e[i - 1]
             s == SectionAt(m, i)
  <2>1. i - 1 \in 0 .. n /\ i \in 0 .. n /\ n \in 0 .. n /\ i <= n
    BY <1>1
  <2>2. a \in Seq(Bytes) /\ s \in Seq(Bytes) /\ e[i] = a \o s
    BY <1>1, <1>2, <2>1
  <2>3. Off(m, i - 1) = Len(a) /\ Off(m, i) = Len(e[i])
    BY <1>3, <2>1
  <2>4. Opens(e[i], Encoding(m))
    BY <1>2, <1>5, <2>1
  <2> HIDE DEF a, s
  <2>5. Len(a \o s) = Len(a) + Len(s) /\ Len(a) \in Nat /\ Len(s) \in Nat
    BY <2>2, ConcatProperties
  <2>6. ASSUME NEW j \in 1 .. Len(s) PROVE Encoding(m)[Len(a) + j] = s[j]
    <3>1. Len(a) + j \in 1 .. Len(a \o s) /\ (Len(a) + j) - Len(a) = j /\ Len(a) + j > Len(a)
      BY <2>5
    <3>2. (a \o s)[Len(a) + j] = s[j]
      BY <2>2, <2>5, <3>1
    <3> QED BY <2>2, <2>4, <3>1, <3>2 DEF Opens
  <2>7. Off(m, i) = Off(m, i - 1) + Len(s)
    BY <2>2, <2>3, <2>5
  <2> QED BY <2>3, <2>6, <2>7 DEF s
<1> QED BY <1>7, <1>8, <1>9 DEF Laid, n

(* The text of a field is a piece behind another. *)
LEMMA TextIsPiece ==
    ASSUME NEW m, IsMessage(m), NEW i \in 1 .. FieldCount(m), FieldAt(m, i).as = "text"
    PROVE  \E j \in 2 .. Len(Pieces(m)) : Pieces(m)[j] = ValueAt(m, i)
<1> DEFINE n == FieldCount(m)
           p == PieceChain(m)
           f == FieldAt(m, i)
           v == ValueAt(m, i)
           S == Seq(Bytes)
<1>1. /\ p \in [0 .. n -> Seq(S)] /\ p[n] = Pieces(m)
      /\ \A k \in 1 .. n : p[k] = p[k - 1] \o PiecesOf(FieldAt(m, k), ValueAt(m, k))
  BY ChainFacts DEF IsChain
<1>2. n \in Nat /\ \A k \in 1 .. n : PiecesOf(FieldAt(m, k), ValueAt(m, k)) \in Seq(S)
  BY FieldFacts
<1>3. v \in S /\ Put(Len(v), 2) \in S /\ PiecesOf(f, v) = <<Put(Len(v), 2), v>>
  <2>1. IsField(f, v)
    BY FieldFacts
  <2>2. v \in Seq(Bytes) /\ Len(v) \in Nat
    BY <2>1 DEF IsField
  <2> QED BY <2>2, PutType DEF PiecesOf
<1>4. i - 1 \in 0 .. n /\ i \in 0 .. n /\ n \in 0 .. n /\ i <= n /\ i \in 1 .. n
  BY <1>2
<1> DEFINE x == Put(Len(v), 2)
           a == p[i - 1]
<1> HIDE DEF n, p, f, v, S, x
<1>5. Grows(S, n, p)
  BY <1>1, <1>2 DEF Grows
<1>6. Opens(p[i], p[n])
  BY <1>2, <1>4, <1>5, GrowsOpens
<1>7. a \in Seq(S) /\ p[i] = a \o <<x, v>>
  BY <1>1, <1>3, <1>4 DEF x, f, v
<1> HIDE DEF a
<1>8. <<x, v>> \in Seq(S) /\ Len(<<x, v>>) = 2 /\ <<x, v>>[2] = v
  BY <1>3 DEF x
<1>9. Len(a) \in Nat /\ Len(a \o <<x, v>>) = Len(a) + 2
  BY <1>7, <1>8, ConcatProperties
<1>10. (a \o <<x, v>>)[Len(a) + 2] = v
  BY <1>7, <1>8, <1>9, ConcatProperties
<1>11. Pieces(m) \in Seq(Seq(Bytes))
  BY PiecesType
<1>12. Len(a) + 2 \in 1 .. Len(a \o <<x, v>>) /\ Len(a) + 2 \in 2 .. Len(Pieces(m))
  BY <1>1, <1>6, <1>7, <1>9, <1>11 DEF Opens
<1>13. Pieces(m)[Len(a) + 2] = v
  BY <1>1, <1>6, <1>7, <1>10, <1>12 DEF Opens
<1> QED BY <1>12, <1>13 DEF v

(* A text field has two pieces, so the last three fields of CONFIG_PUSH have six. *)
LEMMA TextPieces ==
    ASSUME NEW m, IsMessage(m), NEW i \in 1 .. FieldCount(m), FieldAt(m, i).as = "text"
    PROVE  \E x \in Seq(Bytes), v \in Seq(Bytes) :
             /\ PiecesOf(FieldAt(m, i), ValueAt(m, i)) = <<x, v>>
             /\ SectionAt(m, i) = x \o v
<1> DEFINE f == FieldAt(m, i)
           v == ValueAt(m, i)
<1>1. IsField(f, v) /\ IsForm(f)
  BY FieldFacts
<1>2. v \in Seq(Bytes) /\ Len(v) \in Nat
  BY <1>1 DEF IsField
<1>3. PiecesOf(f, v) = <<Put(Len(v), 2), v>> /\ Put(Len(v), 2) \in Seq(Bytes)
  BY <1>2, PutType DEF PiecesOf
<1>4. Section(f, v) = Put(Len(v), 2) \o v
  BY <1>1, SectionFacts
<1> QED BY <1>2, <1>3, <1>4 DEF SectionAt

(* The direct fields of a CONFIG_PUSH begin behind its tenth field. *)
LEMMA DirectAtIs ==
    ASSUME NEW m, IsMessage(m), m.kind = "CONFIG_PUSH"
    PROVE  DirectAt(m) = Off(m, 10)
<1> DEFINE p == PieceChain(m)
           q == p[10]
           S == Seq(Bytes)
<1>1. FieldCount(m) = 13 /\ \A i \in 11 .. 13 : FieldAt(m, i).as = "text"
  BY DEF FieldCount, FieldAt, Fields, Layout, Text
<1>2. /\ p \in [0 .. 13 -> Seq(S)] /\ p[13] = Pieces(m)
      /\ \A k \in 1 .. 13 : p[k] = p[k - 1] \o PiecesOf(FieldAt(m, k), ValueAt(m, k))
  BY <1>1, ChainFacts DEF IsChain
<1>3. PICK x1 \in S, v1 \in S :
        PiecesOf(FieldAt(m, 11), ValueAt(m, 11)) = <<x1, v1>> /\ SectionAt(m, 11) = x1 \o v1
  BY <1>1, TextPieces
<1>4. PICK x2 \in S, v2 \in S :
        PiecesOf(FieldAt(m, 12), ValueAt(m, 12)) = <<x2, v2>> /\ SectionAt(m, 12) = x2 \o v2
  BY <1>1, TextPieces
<1>5. PICK x3 \in S, v3 \in S :
        PiecesOf(FieldAt(m, 13), ValueAt(m, 13)) = <<x3, v3>> /\ SectionAt(m, 13) = x3 \o v3
  BY <1>1, TextPieces
<1>6. q \in Seq(S)
  BY <1>2
<1> DEFINE a == <<x1, v1>>
           b == <<x2, v2>>
           c == <<x3, v3>>
           t == (a \o b) \o c
           s1 == SectionAt(m, 11)
           s2 == SectionAt(m, 12)
           s3 == SectionAt(m, 13)
<1>7. /\ a \in Seq(S) /\ b \in Seq(S) /\ c \in Seq(S)
      /\ Len(a) = 2 /\ Len(b) = 2 /\ Len(c) = 2
  <2> HIDE DEF S
  <2> QED OBVIOUS
<1>8. s1 \in Seq(Bytes) /\ s2 \in Seq(Bytes) /\ s3 \in Seq(Bytes)
  BY <1>1, FieldFacts
<1>9. FlattenSeq(a) = s1
  BY <1>3, FlattenFew DEF FewFlat
<1>10. FlattenSeq(a \o b) = s1 \o s2
  <2>1. FlatBehind(a, x2, v2)
    BY <1>7, FlattenBehind
  <2> QED BY <1>4, <1>9, <2>1 DEF FlatBehind
<1> HIDE DEF p, q, S, a
<1>11. a \o b \in Seq(S) /\ Len(a \o b) = 4
  <2> HIDE DEF b
  <2>1. a \o b \in Seq(S) /\ Len(a \o b) = Len(a) + Len(b)
    BY <1>7, ConcatProperties
  <2> QED BY <1>7, <2>1
<1>12. FlattenSeq(t) = (s1 \o s2) \o s3
  <2>1. FlatBehind(a \o b, x3, v3)
    BY <1>11, FlattenBehind DEF S
  <2> QED BY <1>5, <1>10, <2>1 DEF FlatBehind
<1> HIDE DEF b, c, s1, s2, s3
<1>13. t \in Seq(S) /\ Len(t) = 6
  <2>1. t \in Seq(S) /\ Len(t) = Len(a \o b) + Len(c)
    BY <1>7, <1>11, ConcatProperties
  <2> QED BY <1>7, <1>11, <2>1
<1>14. Pieces(m) = q \o t
  <2>1. Pieces(m) = ((q \o a) \o b) \o c
    <3>1. 11 \in 1 .. 13 /\ 12 \in 1 .. 13 /\ 13 \in 1 .. 13 /\ 11 - 1 = 10 /\ 12 - 1 = 11
          /\ 13 - 1 = 12
      OBVIOUS
    <3>2. p[11] = q \o a
      BY <1>2, <1>3, <3>1 DEF a, q
    <3>3. p[12] = p[11] \o b
      BY <1>2, <1>4, <3>1 DEF b
    <3>4. p[13] = p[12] \o c
      BY <1>2, <1>5, <3>1 DEF c
    <3> QED BY <1>2, <3>2, <3>3, <3>4
  <2>2. (q \o a) \o b = q \o (a \o b)
    BY <1>6, <1>7, ConcatAssociative
  <2>3. (q \o (a \o b)) \o c = q \o ((a \o b) \o c)
    BY <1>6, <1>7, <1>11, ConcatAssociative
  <2> QED BY <2>1, <2>2, <2>3
<1> HIDE DEF t
<1>15. Len(Pieces(m)) = Len(q) + 6 /\ Len(q) \in Nat
  <2>0. t \in Seq(S)
    BY <1>13
  <2>1. Len(q \o t) = Len(q) + Len(t)
    BY <1>6, <2>0, ConcatProperties
  <2>2. Len(q) \in Nat
    BY <1>6
  <2> QED BY <1>13, <1>14, <2>1, <2>2
<1>16. \A i \in 1 .. 6 : Pieces(m)[Len(Pieces(m)) - 6 + i] = t[i]
  <2> SUFFICES ASSUME NEW i \in 1 .. 6 PROVE Pieces(m)[Len(Pieces(m)) - 6 + i] = t[i]
    OBVIOUS
  <2>1. Len(Pieces(m)) - 6 + i = Len(q) + i /\ i \in 1 .. Len(t)
    BY <1>13, <1>15
  <2>0. t \in Seq(S)
    BY <1>13
  <2>2. (q \o t)[Len(q) + i] = t[i]
    BY <1>6, <2>0, <2>1, ConcatProperties
  <2> QED BY <1>14, <2>1, <2>2
<1>17. [i \in 1 .. 6 |-> Pieces(m)[Len(Pieces(m)) - 6 + i]] = t
  <2>1. t = [i \in 1 .. 6 |-> t[i]]
    BY <1>13
  <2> QED BY <1>16, <2>1
<1>18. Len((s1 \o s2) \o s3) = Len(s1) + Len(s2) + Len(s3)
       /\ Len(s1) \in Nat /\ Len(s2) \in Nat /\ Len(s3) \in Nat
  <2>1. s1 \o s2 \in Seq(Bytes) /\ Len(s1 \o s2) = Len(s1) + Len(s2)
    BY <1>8, ConcatProperties
  <2>2. Len((s1 \o s2) \o s3) = Len(s1 \o s2) + Len(s3)
    BY <1>8, <2>1, ConcatProperties
  <2> QED BY <1>8, <2>1, <2>2
<1>19. /\ Off(m, 13) = Len(Encoding(m)) /\ Off(m, 10) \in Nat /\ Off(m, 13) \in Nat
       /\ Off(m, 11) = Off(m, 10) + Len(s1) /\ Off(m, 12) = Off(m, 11) + Len(s2)
       /\ Off(m, 13) = Off(m, 12) + Len(s3)
  BY <1>1, LaidOut DEF Laid, s1, s2, s3
<1>20. DirectAt(m) = Len(Encoding(m)) - Len((s1 \o s2) \o s3)
  BY <1>12, <1>17 DEF DirectAt
<1> QED BY <1>18, <1>19, <1>20

-----------------------------------------------------------------------------
(* The header *)
Joined(a, b) ==
    /\ Len(a \o b) = Len(a) + Len(b)
    /\ \A i \in 1 .. Len(a) : (a \o b)[i] = a[i]
    /\ \A i \in 1 .. Len(b) : (a \o b)[Len(a) + i] = b[i]

LEMMA JoinFacts ==
    ASSUME NEW a \in Seq(Bytes), NEW b \in Seq(Bytes)
    PROVE  a \o b \in Seq(Bytes) /\ Joined(a, b)
<1>1. a \o b \in Seq(Bytes) /\ Len(a \o b) = Len(a) + Len(b) /\ Len(a) \in Nat /\ Len(b) \in Nat
  BY ConcatProperties
<1>2. ASSUME NEW i \in 1 .. Len(a) PROVE (a \o b)[i] = a[i]
  <2>1. i \in 1 .. Len(a) + Len(b) /\ i <= Len(a)
    BY <1>1
  <2> QED BY <2>1
<1>3. ASSUME NEW i \in 1 .. Len(b) PROVE (a \o b)[Len(a) + i] = b[i]
  <2>1. Len(a) + i \in 1 .. Len(a) + Len(b) /\ Len(a) + i > Len(a) /\ (Len(a) + i) - Len(a) = i
    BY <1>1
  <2> QED BY <2>1
<1> QED BY <1>1, <1>2, <1>3 DEF Joined

(* The bytes of a in b from the i-th on. *)
LEMMA PartIs ==
    ASSUME NEW b \in Seq(Bytes), NEW a \in Seq(Bytes), NEW i \in Nat,
           i + Len(a) <= Len(b), \A j \in 1 .. Len(a) : b[i + j] = a[j]
    PROVE  SubSeq(b, i + 1, i + Len(a)) = a
<1> DEFINE s == SubSeq(b, i + 1, i + Len(a))
<1>1. Len(a) \in Nat /\ Len(b) \in Nat
  OBVIOUS
<1>2. s = [j \in 1 .. Len(a) |-> b[i + j]]
  <2>1. s = [j \in 1 .. (i + Len(a)) - (i + 1) + 1 |-> b[(i + 1) + j - 1]]
    BY <1>1
  <2>2. (i + Len(a)) - (i + 1) + 1 = Len(a)
    BY <1>1
  <2>3. \A j \in 1 .. Len(a) : (i + 1) + j - 1 = i + j
    BY <1>1
  <2> HIDE DEF s
  <2> QED BY <2>1, <2>2, <2>3
<1>3. a = [j \in 1 .. Len(a) |-> a[j]]
  OBVIOUS
<1> QED BY <1>2, <1>3

(* A header whose numbers fit their bytes is decoded as it was encoded. *)
HdrFits(h) ==
    /\ h.magic \in Nat /\ Fits(h.magic, 4) /\ h.length \in Nat /\ Fits(h.length, 4)
    /\ h.version \in Bytes /\ h.type \in Bytes

LEMMA HdrDecoded ==
    ASSUME NEW h, HdrFits(h)
    PROVE  LET d == HdrDecode(HdrEncode(h))
           IN  d.magic = h.magic /\ d.version = h.version /\ d.type = h.type /\ d.length = h.length
<1> DEFINE a == Put(h.magic, 4)
           b == Put(h.version, 1)
           c == Put(h.type, 1)
           d == Put(0, 2)
           e == Put(Session, 4)
           f == Put(h.length, 4)
<1>1. /\ a \in Seq(Bytes) /\ b \in Seq(Bytes) /\ c \in Seq(Bytes) /\ d \in Seq(Bytes)
      /\ e \in Seq(Bytes) /\ f \in Seq(Bytes)
      /\ Len(a) = 4 /\ Len(b) = 1 /\ Len(c) = 1 /\ Len(d) = 2 /\ Len(e) = 4 /\ Len(f) = 4
  <2>1. h.magic \in Nat /\ h.version \in Nat /\ h.type \in Nat /\ 0 \in Nat /\ Session \in Nat
        /\ h.length \in Nat
    BY BytesFacts DEF HdrFits, Session
  <2> QED BY <2>1, PutType
<1>2. b[1] = h.version /\ c[1] = h.type
  BY SmallFits DEF HdrFits
<1>3. Get(a) = h.magic /\ Get(f) = h.length
  BY GetPut DEF HdrFits
<1>4. HdrEncode(h) = ((((a \o b) \o c) \o d) \o e) \o f
  BY DEF HdrEncode
<1> HIDE DEF a, b, c, d, e, f
<1> DEFINE u == a \o b
           v == u \o c
           w == v \o d
           x == w \o e
           y == x \o f
<1>5. u \in Seq(Bytes) /\ Joined(a, b)
  BY <1>1, JoinFacts
<1> HIDE DEF u
<1>6. v \in Seq(Bytes) /\ Joined(u, c)
  BY <1>1, <1>5, JoinFacts
<1> HIDE DEF v
<1>7. w \in Seq(Bytes) /\ Joined(v, d)
  BY <1>1, <1>6, JoinFacts
<1> HIDE DEF w
<1>8. x \in Seq(Bytes) /\ Joined(w, e)
  BY <1>1, <1>7, JoinFacts
<1> HIDE DEF x
<1>9. y \in Seq(Bytes) /\ Joined(x, f)
  BY <1>1, <1>8, JoinFacts
<1>10. Len(u) = 5 /\ Len(v) = 6 /\ Len(w) = 8 /\ Len(x) = 12 /\ Len(y) = 16
  <2>1. Len(u) = 5
    BY <1>1, <1>5 DEF Joined, u
  <2>2. Len(v) = 6
    BY <1>1, <1>6, <2>1 DEF Joined, v
  <2>3. Len(w) = 8
    BY <1>1, <1>7, <2>2 DEF Joined, w
  <2>4. Len(x) = 12
    BY <1>1, <1>8, <2>3 DEF Joined, x
  <2>5. Len(y) = 16
    BY <1>1, <1>9, <2>4 DEF Joined
  <2> QED BY <2>1, <2>2, <2>3, <2>4, <2>5
<1>11. \A i \in 1 .. 6 : y[i] = v[i]
  <2> SUFFICES ASSUME NEW i \in 1 .. 6 PROVE y[i] = v[i]
    OBVIOUS
  <2>1. i \in 1 .. Len(x) /\ i \in 1 .. Len(w) /\ i \in 1 .. Len(v)
    BY <1>10
  <2>2. y[i] = x[i]
    BY <1>9, <2>1 DEF Joined
  <2>3. x[i] = w[i]
    BY <1>8, <2>1 DEF Joined, x
  <2>4. w[i] = v[i]
    BY <1>7, <2>1 DEF Joined, w
  <2> QED BY <2>2, <2>3, <2>4
<1>12. \A i \in 1 .. 5 : y[i] = u[i]
  <2> SUFFICES ASSUME NEW i \in 1 .. 5 PROVE y[i] = u[i]
    OBVIOUS
  <2>1. i \in 1 .. 6 /\ i \in 1 .. Len(u)
    BY <1>10
  <2>2. v[i] = u[i]
    BY <1>6, <2>1 DEF Joined, v
  <2> QED BY <1>11, <2>1, <2>2
<1>13. \A i \in 1 .. 4 : y[i] = a[i]
  <2> SUFFICES ASSUME NEW i \in 1 .. 4 PROVE y[i] = a[i]
    OBVIOUS
  <2>1. i \in 1 .. 5 /\ i \in 1 .. Len(a)
    BY <1>1
  <2>2. u[i] = a[i]
    BY <1>5, <2>1 DEF Joined, u
  <2> QED BY <1>12, <2>1, <2>2
<1>14. y[5] = b[1]
  <2>1. 1 \in 1 .. Len(b) /\ Len(a) + 1 = 5 /\ 5 \in 1 .. 5
    BY <1>1
  <2>2. u[5] = b[1]
    BY <1>5, <2>1 DEF Joined, u
  <2> QED BY <1>12, <2>1, <2>2
<1>15. y[6] = c[1]
  <2>1. 1 \in 1 .. Len(c) /\ Len(u) + 1 = 6 /\ 6 \in 1 .. 6
    BY <1>1, <1>10
  <2>2. v[6] = c[1]
    BY <1>6, <2>1 DEF Joined, v
  <2> QED BY <1>11, <2>1, <2>2
<1>16. \A i \in 1 .. 4 : y[12 + i] = f[i]
  BY <1>1, <1>9, <1>10 DEF Joined
<1>17. HdrEncode(h) = y
  BY <1>4 DEF u, v, w, x
<1> HIDE DEF y
<1>18. SubSeq(y, 1, 4) = a
  <2>1. \A j \in 1 .. Len(a) : y[0 + j] = a[j]
    BY <1>1, <1>13
  <2>2. 0 + Len(a) <= Len(y)
    BY <1>1, <1>10
  <2>3. SubSeq(y, 0 + 1, 0 + Len(a)) = a
    BY <1>1, <1>9, <2>1, <2>2, PartIs
  <2> QED BY <1>1, <2>3
<1>19. SubSeq(y, 13, 16) = f
  <2>1. \A j \in 1 .. Len(f) : y[12 + j] = f[j]
    BY <1>1, <1>16
  <2>2. 12 + Len(f) <= Len(y)
    BY <1>1, <1>10
  <2>3. SubSeq(y, 12 + 1, 12 + Len(f)) = f
    BY <1>1, <1>9, <2>1, <2>2, PartIs
  <2> QED BY <1>1, <2>3
<1>20. /\ HdrDecode(y).magic = Get(SubSeq(y, 1, 4)) /\ HdrDecode(y).version = y[5]
       /\ HdrDecode(y).type = y[6] /\ HdrDecode(y).length = Get(SubSeq(y, 13, 16))
  BY DEF HdrDecode
<1> QED BY <1>2, <1>3, <1>14, <1>15, <1>17, <1>18, <1>19, <1>20

(* Every message has a type that a header can state. *)
LEMMA KindFacts ==
    ASSUME NEW k \in Kinds
    PROVE  TypeOf[k] \in 1 .. 14 /\ TypeOf[k] \in Bytes
<1>1. TypeOf[k] \in 1 .. 14
  BY LayoutFacts DEF TypeOf
<1>2. 1 .. 14 \subseteq Bytes
  BY BaseAssumption DEF Bytes
<1> QED BY <1>1, <1>2

(* The header that goes with a message is understood. *)
LEMMA TrueHdrTaken ==
    ASSUME msg.kind \in Kinds, NEW n \in 0 .. Cap + 1
    PROVE  /\ HdrOk(HdrDecode(HdrEncode(TrueHdr(n))))
           /\ HdrDecode(HdrEncode(TrueHdr(n))).type = TypeOf[msg.kind]
           /\ HdrDecode(HdrEncode(TrueHdr(n))).length = n
<1> DEFINE h == TrueHdr(n)
           d == HdrDecode(HdrEncode(h))
<1>1. h.magic = Magic /\ h.version = Version /\ h.type = TypeOf[msg.kind] /\ h.length = n
  BY DEF TrueHdr
<1>2. TypeOf[msg.kind] \in 1 .. 14 /\ TypeOf[msg.kind] \in Bytes
  BY KindFacts
<1>3. n \in Nat /\ Fits(n, 4)
  BY HeaderAssumption, CapAssumption
<1>4. Magic \in Nat /\ Fits(Magic, 4) /\ Version \in Bytes
  BY HeaderAssumption
<1> HIDE DEF h
<1>5. HdrFits(h)
  BY <1>1, <1>2, <1>3, <1>4 DEF HdrFits
<1>6. d.magic = h.magic /\ d.version = h.version /\ d.type = h.type /\ d.length = h.length
  BY <1>5, HdrDecoded
<1> HIDE DEF d
<1>7. HdrOk(d)
  BY <1>1, <1>2, <1>6 DEF HdrOk, TypeValid
<1> QED BY <1>1, <1>6, <1>7 DEF d, h

-----------------------------------------------------------------------------
(* Reading the fields of a payload that agrees with the message's encoding *)
(* as far as both go.                                                      *)
Agrees(m) == \A i \in 1 .. Len(payload) : i <= Len(Encoding(m)) => payload[i] = Encoding(m)[i]

(* What lies within the payload is read from the section of its field. *)
LEMMA SectionRead ==
    ASSUME NEW m, IsMessage(m), payload \in Seq(Bytes), Agrees(m),
           NEW i \in 1 .. FieldCount(m), NEW x \in Nat, NEW w \in Nat,
           x + w <= Len(SectionAt(m, i)), Off(m, i - 1) + x + w <= Len(payload)
    PROVE  /\ BytesAt(Off(m, i - 1) + x, w) = [j \in 1 .. w |-> SectionAt(m, i)[x + j]]
<1> DEFINE p == Off(m, i - 1)
           s == SectionAt(m, i)
           n == FieldCount(m)
<1>1. n \in Nat /\ Len(s) \in Nat /\ Len(payload) \in Nat
  BY FieldFacts
<1>2. i - 1 \in 0 .. n /\ i \in 0 .. n /\ n \in 0 .. n /\ i <= n
  BY <1>1
<1>3. p \in Nat /\ \A j \in 1 .. Len(s) : Encoding(m)[p + j] = s[j]
  BY <1>2, LaidOut DEF Laid
<1>7. Len(Encoding(m)) \in Nat /\ p + Len(s) <= Len(Encoding(m))
  BY <1>2, LaidOut DEF Laid
<1> HIDE DEF p, s, n
<1>4. ASSUME NEW j \in 1 .. w
      PROVE  (IF (p + x) + j \in DOMAIN payload THEN payload[(p + x) + j] ELSE 0) = s[x + j]
  <2>1. x + j \in 1 .. Len(s) /\ (p + x) + j = p + (x + j) /\ (p + x) + j \in 1 .. Len(payload)
    BY <1>1, <1>3 DEF p, s
  <2>2. DOMAIN payload = 1 .. Len(payload)
    OBVIOUS
  <2>3. p + (x + j) <= Len(Encoding(m))
    BY <1>1, <1>3, <1>7, <2>1
  <2>4. payload[p + (x + j)] = Encoding(m)[p + (x + j)]
    BY <2>1, <2>3 DEF Agrees
  <2> QED BY <1>3, <2>1, <2>2, <2>4
<1>5. BytesAt(p + x, w)
        = [j \in 1 .. w |-> IF (p + x) + j \in DOMAIN payload THEN payload[(p + x) + j] ELSE 0]
  BY DEF BytesAt
<1>6. BytesAt(p + x, w) = [j \in 1 .. w |-> s[x + j]]
  BY <1>4, <1>5
<1> QED BY <1>6 DEF p, s

(* A number or an array that lies within the payload is read as it was sent.*)
LEMMA PlainRead ==
    ASSUME NEW m, IsMessage(m), payload \in Seq(Bytes), Agrees(m),
           NEW i \in 1 .. FieldCount(m), FieldAt(m, i).as \in {"num", "raw"},
           Off(m, i - 1) + FieldAt(m, i).size <= Len(payload)
    PROVE  /\ FieldAt(m, i).as = "num" =>
                Get(BytesAt(Off(m, i - 1), FieldAt(m, i).size)) = ValueAt(m, i)
           /\ FieldAt(m, i).as = "raw" =>
                BytesAt(Off(m, i - 1), FieldAt(m, i).size) = ValueAt(m, i)
           /\ Off(m, i) = Off(m, i - 1) + FieldAt(m, i).size
<1> DEFINE f == FieldAt(m, i)
           v == ValueAt(m, i)
           s == SectionAt(m, i)
           p == Off(m, i - 1)
<1>1. IsForm(f) /\ IsField(f, v) /\ s = Section(f, v) /\ s \in Seq(Bytes)
  BY FieldFacts DEF SectionAt
<1>2. FieldCount(m) \in Nat /\ i - 1 \in 0 .. FieldCount(m)
  BY FieldFacts
<1>3. p \in Nat /\ Off(m, i) = p + Len(s)
  BY <1>2, LaidOut DEF Laid
<1>4. f.size \in Nat
  BY <1>1 DEF IsForm
<1>5. Len(s) = f.size /\ (f.as = "num" => s = Put(v, f.size)) /\ (f.as = "raw" => s = v)
  <2>1. CASE f.as = "num"
    BY <1>1, <2>1, SectionFacts
  <2>2. CASE f.as = "raw"
    <3>1. s = v
      BY <1>1, <2>2, SectionFacts
    <3>2. Len(v) = f.size
      BY <1>1, <2>2 DEF IsField
    <3> QED BY <2>2, <3>1, <3>2
  <2> QED BY <2>1, <2>2
<1>6. BytesAt(p, f.size) = s
  <2>1. 0 + f.size <= Len(s) /\ p + 0 + f.size <= Len(payload) /\ p + 0 = p /\ 0 \in Nat
    BY <1>3, <1>4, <1>5
  <2>2. BytesAt(p + 0, f.size) = [j \in 1 .. f.size |-> s[0 + j]]
    BY <1>4, <2>1, SectionRead
  <2> HIDE DEF p, s, f, v
  <2>3. \A j \in 1 .. f.size : s[0 + j] = s[j]
    BY <1>4
  <2>4. s = [j \in 1 .. f.size |-> s[j]]
    BY <1>1, <1>5
  <2> QED BY <2>1, <2>2, <2>3, <2>4
<1>7. f.as = "num" => Get(Put(v, f.size)) = v
  BY <1>1, <1>4, GetPut DEF IsField
<1> QED BY <1>3, <1>5, <1>6, <1>7

(* The length of a text, and the text behind it. *)
LEMMA TextRead ==
    ASSUME NEW m, IsMessage(m), payload \in Seq(Bytes), Agrees(m),
           NEW i \in 1 .. FieldCount(m), FieldAt(m, i).as = "text",
           Len(ValueAt(m, i)) <= TextMax, Off(m, i - 1) + 2 <= Len(payload)
    PROVE  /\ Get(BytesAt(Off(m, i - 1), 2)) = Len(ValueAt(m, i))
           /\ Off(m, i) = Off(m, i - 1) + 2 + Len(ValueAt(m, i))
           /\ Off(m, i) <= Len(payload) =>
                BytesAt(Off(m, i - 1) + 2, Len(ValueAt(m, i))) = ValueAt(m, i)
<1> DEFINE f == FieldAt(m, i)
           v == ValueAt(m, i)
           s == SectionAt(m, i)
           p == Off(m, i - 1)
           b == Put(Len(v), 2)
<1>1. IsForm(f) /\ IsField(f, v) /\ s = Section(f, v)
  BY FieldFacts DEF SectionAt
<1>2. FieldCount(m) \in Nat /\ i - 1 \in 0 .. FieldCount(m)
  BY FieldFacts
<1>3. p \in Nat /\ Off(m, i) = p + Len(s)
  BY <1>2, LaidOut DEF Laid
<1>4. v \in Seq(Bytes) /\ Len(v) \in Nat /\ Len(v) \in 0 .. TextMax
  BY <1>1, BaseAssumption DEF IsField, TextMax
<1>5. s = b \o v /\ Len(s) = 2 + Len(v)
  BY <1>1, SectionFacts
<1>6. b \in Seq(Bytes) /\ Len(b) = 2 /\ Get(b) = Len(v)
  BY <1>4, PutType, SmallFits, GetPut
<1>7. Joined(b, v)
  BY <1>4, <1>6, JoinFacts
<1>8. BytesAt(p, 2) = b
  <2> DEFINE o == 0
             w == 2
  <2>1. o + w <= Len(s) /\ p + o + w <= Len(payload) /\ p + o = p /\ o \in Nat /\ w \in Nat
    BY <1>3, <1>4, <1>5
  <2> HIDE DEF o, w
  <2>2. BytesAt(p + o, w) = [j \in 1 .. w |-> s[o + j]]
    BY <2>1, SectionRead
  <2> USE DEF o, w
  <2> HIDE DEF p, s, f, v, b
  <2>3. \A j \in 1 .. 2 : s[0 + j] = b[j]
    BY <1>5, <1>6, <1>7 DEF Joined
  <2>4. b = [j \in 1 .. 2 |-> b[j]]
    BY <1>6
  <2> QED BY <2>1, <2>2, <2>3, <2>4
<1>9. ASSUME Off(m, i) <= Len(payload) PROVE BytesAt(p + 2, Len(v)) = v
  <2> DEFINE k == Len(v)
  <2>1. k \in Nat /\ 2 + k <= Len(s) /\ p + 2 + k <= Len(payload) /\ 2 \in Nat
    BY <1>3, <1>4, <1>5, <1>9
  <2>2. BytesAt(p + 2, k) = [j \in 1 .. k |-> s[2 + j]]
    BY <2>1, SectionRead
  <2> HIDE DEF p, s, f, v, b
  <2>3. \A j \in 1 .. k : s[2 + j] = v[j]
    BY <1>5, <1>6, <1>7 DEF Joined
  <2>4. v = [j \in 1 .. k |-> v[j]]
    BY <1>4
  <2> QED BY <2>2, <2>3, <2>4
<1>10. Off(m, i) = p + 2 + Len(v)
  <2>1. Len(s) = 2 + Len(v) /\ Len(v) \in Nat
    BY <1>4, <1>5
  <2> HIDE DEF p, s, v
  <2> QED BY <1>3, <2>1
<1> QED BY <1>6, <1>8, <1>9, <1>10

-----------------------------------------------------------------------------
(* What is encoded, what arrives, and how far it is read: TripInv is the    *)
(* inductive invariant of both theorems.                                    *)

(* Where the program is once a payload has arrived, and once one is encoded.*)
Received == {"RECEIVED", "DECODE", "ACCEPTED", "REFUSED"}
Encoded  == {"ENCODED"} \union Received

(* Two bytes can state the length of every text of a message. *)
TextsCarried(m) ==
    \A i \in 1 .. FieldCount(m) : FieldAt(m, i).as = "text" => Len(ValueAt(m, i)) <= TextMax

(* What the encoder has checked, and what it hands out. *)
Written ==
    /\ pc \in Encoded \union {"APPEND"} => ArgumentsOk(msg)
    /\ pc = "APPEND" =>
         \A j \in 2 .. at : j <= Len(Pieces(msg)) => Len(Pieces(msg)[j]) <= TextMax
    /\ pc \in Encoded => out = Encoding(msg) /\ Len(out) <= Cap /\ TextsCarried(msg)

(* What arrives is the encoding as far as it goes; if its header was damaged*)
(* it is the whole encoding.                                                *)
Arrived ==
    pc \in Received =>
        /\ Len(payload) <= Len(out) + 1 /\ Agrees(msg)
        /\ hdr = HdrEncode(TrueHdr(Len(payload))) \/ payload = out

(* The fields before which the rest of the payload is held against what is  *)
(* still to come.                                                           *)
WholeAt(k, i) ==
    \/ k \in {"HELLO", "AUTH_TAP", "SOCKS_OPEN", "TAP_FRAME"} /\ i = 3
    \/ k = "AUTH_NODE" /\ i = 2

(* What is known once the i-th field is read. *)
Met(i) ==
    /\ FieldAt(msg, i).as = "text" => Len(ValueAt(msg, i)) < FieldAt(msg, i).size
    /\ msg.kind = "CONFIG_PUSH" /\ i = 11 => Settings(msg)
    /\ WholeAt(msg.kind, i) => Len(payload) = Len(Encoding(msg))

(* What the decoder takes for the i-th field: its value, or as much of the  *)
(* rest as arrived.                                                         *)
ReadValue(i) ==
    IF FieldAt(msg, i).as = "rest" THEN BytesAt(Off(msg, i - 1), Len(payload) - Off(msg, i - 1))
    ELSE ValueAt(msg, i)

(* How many fields are decoded. *)
DecodedCount == Len(Fields(DecodedAs))

(* The fields before at have been read, each as it was sent and behind the  *)
(* one before it; the others are as the decoder zeroed them.                *)
Progress ==
    /\ at \in 1 .. DecodedCount + 1
    /\ at = 1 \/ FieldAt(msg, at - 1).as # "rest" => pos = Off(msg, at - 1)
    /\ got = [f \in DOMAIN Zeroed(DecodedAs) |-> got[f]]
    /\ \A i \in 1 .. at - 1 : Met(i) /\ got[FieldAt(msg, i).name] = ReadValue(i)
    /\ \A f \in DOMAIN Zeroed(DecodedAs) :
         (\A i \in 1 .. at - 1 : FieldAt(msg, i).name # f) => got[f] = Zeroed(DecodedAs)[f]

(* The header and the length passed the first checks. *)
Taken ==
    /\ HdrOk(HdrDecode(hdr)) /\ LengthOk(msg.kind, Len(payload))
    /\ LengthAllowed(HdrDecode(hdr).type, HdrDecode(hdr).length)

(* What the last step saw when it accepted, and when it refused. *)
AcceptedBy ==
    \/ at > DecodedCount /\ ValuesOk
    \/ at <= DecodedCount /\ AtDirectFields /\ SettingsOk /\ NothingLeft

RefusedBy ==
    \/ at > DecodedCount /\ ~ValuesOk
    \/ /\ at <= DecodedCount
       /\ IF Field.as # "text" THEN ~RestFits
          ELSE IF AtDirectFields THEN ~SettingsOk \/ (~NothingLeft /\ ~TextFits)
          ELSE ~TextFits

(* A verdict falls on what has been read, or before anything is. *)
Judging ==
    /\ pc = "DECODE" => Taken /\ Progress
    /\ pc = "ACCEPTED" => Taken /\ Progress /\ AcceptedBy
    /\ pc = "REFUSED" => \/ ~Taken /\ got = Zeroed(DecodedAs)
                         \/ Taken /\ Progress /\ RefusedBy

(* All of it together. *)
TripInv == CodecInv /\ Written /\ Arrived /\ Judging

(* What is written without a buffer has no text. *)
LEMMA DirectTextless ==
    ASSUME NEW m, IsMessage(m), m.kind \in Direct
    PROVE  \A i \in 1 .. FieldCount(m) : FieldAt(m, i).as # "text"
<1> USE DEF FieldCount, FieldAt, Fields, Layout, Num, Rest
<1>1. CASE m.kind = "AUTH_OK"
  BY <1>1
<1>2. CASE m.kind = "TAP_FRAME"
  BY <1>2
<1>3. CASE m.kind = "SOCKS_DATA"
  BY <1>3
<1>4. CASE m.kind = "SOCKS_CLOSE"
  BY <1>4
<1>5. CASE m.kind = "SOCKS_CLOSE_REASON"
  BY <1>5
<1> QED BY <1>1, <1>2, <1>3, <1>4, <1>5 DEF Direct

(* Each step keeps what is known of the encoded message. *)
LEMMA WrittenStep == CodecInv /\ Written /\ [Next]_vars => Written'
<1> SUFFICES ASSUME CodecInv, Written, [Next]_vars PROVE Written'
  OBVIOUS
<1> USE DEF CodecInv
<1>1. ASSUME NEW m \in Messages, Start(m) PROVE Written'
  <2> USE <1>1 DEF Start
  <2>1. IsMessage(m) /\ at = 1 /\ at' = 1 /\ msg' = m
    BY MessagesAssumption DEF Build
  <2>2. CASE pc' = "NOT_ENCODED"
    BY <2>2 DEF Written, Encoded, Received
  <2>3. CASE pc' = "ENCODED"
    <3>1. ArgumentsOk(m) /\ m.kind \in Direct /\ out' = Encoding(m)
      BY <2>3
    <3>2. Len(out') <= Cap
      BY <2>1, <3>1, DirectFits
    <3>3. TextsCarried(m)
      BY <2>1, <3>1, DirectTextless DEF TextsCarried
    <3> QED BY <2>1, <2>3, <3>1, <3>2, <3>3 DEF Written
  <2>4. CASE pc' = "APPEND"
    BY <2>1, <2>4 DEF Written, Encoded, Received
  <2> QED BY <2>2, <2>3, <2>4
<1>2. ASSUME NEW memory \in BOOLEAN, AppendPiece(memory) PROVE Written'
  <2> USE <1>2 DEF AppendPiece
  <2> DEFINE p == Pieces(msg)
  <2>1. p \in Seq(Seq(Bytes)) /\ at \in Nat \ {0} /\ TextMax \in Int
    BY MessagesAssumption, PiecesType, BaseAssumption DEF CodecType, TextMax
  <2>2. \A j \in 1 .. Len(p) : Len(p[j]) \in Nat
    BY <2>1
  <2>3. at + 1 <= Len(p) => Len(p[at + 1]) <= TextMax
    <3> SUFFICES ASSUME at + 1 <= Len(p) PROVE Len(p[at + 1]) <= TextMax
      OBVIOUS
    <3>1. Len(p) \in Nat /\ at < Len(p) /\ at + 1 \in 1 .. Len(p)
      BY <2>1
    <3>2. ~(Len(p[at + 1]) > TextMax)
      BY <3>1 DEF TooLong
    <3> QED BY <2>1, <2>2, <3>1, <3>2
  <2>4. ASSUME NEW j \in 2 .. at + 1, j <= Len(p) PROVE Len(p[j]) <= TextMax
    <3>1. CASE j = at + 1
      BY <2>3, <2>4, <3>1
    <3>2. CASE j # at + 1
      <4>1. j \in 2 .. at
        BY <2>1, <3>2
      <4> QED BY <2>4, <4>1 DEF Written
    <3> QED BY <3>1, <3>2
  <2> HIDE DEF p
  <2>5. pc' = "APPEND" /\ msg' = msg /\ at' = at + 1 /\ ArgumentsOk(msg)
    BY DEF Written
  <2> QED BY <2>4, <2>5 DEF Written, p, Encoded, Received
<1>3. ASSUME NEW memory \in BOOLEAN, AppendPieceFails(memory) PROVE Written'
  BY <1>3 DEF AppendPieceFails, Written, Encoded, Received
<1>4. ASSUME Finish PROVE Written'
  <2> USE <1>4 DEF Finish
  <2> DEFINE p == Pieces(msg)
  <2>1. p \in Seq(Seq(Bytes)) /\ Len(p) \in Nat /\ at \in Nat /\ IsMessage(msg)
    BY MessagesAssumption, PiecesType DEF CodecType
  <2>2. CASE pc' = "NOT_ENCODED"
    BY <2>2 DEF Written, Encoded, Received
  <2>3. CASE pc' = "ENCODED"
    <3>1. at - 1 = Len(p) /\ SubSeq(p, 1, at - 1) = p
      <4>1. at - 1 = Len(p)
        BY <2>1 DEF Build
      <4> DEFINE T == Seq(Bytes)
      <4>2. p \in Seq(T)
        BY <2>1
      <4> HIDE DEF T, p
      <4>3. SubSeq(p, 1, Len(p)) = p
        BY <4>2
      <4> QED BY <4>1, <4>3
    <3>2. buf.data = Encoding(msg)
      BY <3>1 DEF Build, Encoding
    <3>3. out' = buf.data /\ Len(buf.data) <= Cap /\ msg' = msg /\ ArgumentsOk(msg)
      BY <2>3 DEF Written
    <3>4. TextsCarried(msg)
      <4> SUFFICES ASSUME NEW i \in 1 .. FieldCount(msg), FieldAt(msg, i).as = "text"
                   PROVE  Len(ValueAt(msg, i)) <= TextMax
        BY DEF TextsCarried
      <4>1. PICK j \in 2 .. Len(p) : p[j] = ValueAt(msg, i)
        BY <2>1, TextIsPiece
      <4>2. j \in 2 .. at /\ j <= Len(p)
        BY <2>1
      <4>3. Len(p[j]) <= TextMax
        BY <4>2 DEF Written
      <4> QED BY <4>1, <4>3
    <3> QED BY <2>3, <3>2, <3>3, <3>4 DEF Written
  <2> QED BY <2>2, <2>3
<1>5. ASSUME Deliver \/ Receive \/ ReadNumber \/ ReadText \/ Refuse \/ Decoded PROVE Written'
  <2>1. pc \in Encoded /\ pc' \in Encoded /\ pc' # "APPEND" /\ msg' = msg /\ out' = out
    BY <1>5 DEF Deliver, Receive, ReadNumber, ReadText, Reads, Refuse, Decoded, Encoded, Received
  <2> QED BY <2>1 DEF Written
<1>6. ASSUME UNCHANGED vars PROVE Written'
  BY <1>6 DEF vars, Written
<1> QED BY <1>1, <1>2, <1>3, <1>4, <1>5, <1>6 DEF Next

(* Each step keeps what is known of the payload. *)
LEMMA ArrivedStep == CodecInv /\ Written /\ Arrived /\ [Next]_vars => Arrived'
<1> SUFFICES ASSUME CodecInv, Written, Arrived, [Next]_vars PROVE Arrived'
  OBVIOUS
<1> USE DEF CodecInv
<1>1. ASSUME NEW m \in Messages, Start(m) PROVE Arrived'
  BY <1>1 DEF Start, Arrived, Received
<1>2. ASSUME NEW memory \in BOOLEAN, AppendPiece(memory) \/ AppendPieceFails(memory) PROVE Arrived'
  BY <1>2 DEF AppendPiece, AppendPieceFails, Arrived, Received
<1>3. ASSUME Finish PROVE Arrived'
  BY <1>3 DEF Finish, Arrived, Received
<1>4. ASSUME Deliver PROVE Arrived'
  <2> USE <1>4 DEF Deliver
  <2>1. out \in Seq(Bytes) /\ Len(out) \in Nat /\ out = Encoding(msg)
    BY DEF CodecType, Written, Encoded
  <2>2. PICK n \in 0 .. Len(out) + 1 :
          /\ payload' = [i \in 1 .. n |-> IF i <= Len(out) THEN out[i] ELSE 1]
          /\ \E h \in {TrueHdr(n)} \union (IF n = Len(out) THEN Damaged(n) ELSE {}) :
               hdr' = HdrEncode(h)
    OBVIOUS
  <2>3. n \in Nat /\ Len(payload') = n
    <3>1. n \in Nat
      BY <2>1
    <3> QED BY <2>2, <3>1
  <2>4. \A i \in 1 .. n : i <= Len(out) => payload'[i] = out[i]
    BY <2>2
  <2>5. n = Len(out) => payload' = out
    <3> SUFFICES ASSUME n = Len(out) PROVE payload' = out
      OBVIOUS
    <3>1. \A i \in 1 .. n : i <= Len(out)
      BY <2>1, <2>3
    <3>2. out = [i \in 1 .. n |-> out[i]]
      BY <2>1
    <3> QED BY <2>2, <3>1, <3>2
  <2>6. hdr' = HdrEncode(TrueHdr(n)) \/ payload' = out
    BY <2>2, <2>5
  <2>7. msg' = msg /\ out' = out
    OBVIOUS
  <2>8. TrueHdr(Len(payload))' = TrueHdr(n)
    BY <2>3, <2>7 DEF TrueHdr
  <2>9. Agrees(msg)'
    BY <2>1, <2>3, <2>4, <2>7 DEF Agrees
  <2> QED BY <2>1, <2>3, <2>6, <2>7, <2>8, <2>9 DEF Arrived
<1>5. ASSUME Receive \/ ReadNumber \/ ReadText \/ Refuse \/ Decoded \/ UNCHANGED vars PROVE Arrived'
  <2>1. /\ pc' \in Received => pc \in Received
        /\ msg' = msg /\ out' = out /\ hdr' = hdr /\ payload' = payload
    BY <1>5 DEF Receive, ReadNumber, ReadText, Reads, Refuse, Decoded, vars, Received
  <2>2. TrueHdr(Len(payload))' = TrueHdr(Len(payload))
    BY <2>1 DEF TrueHdr
  <2>3. Agrees(msg)' = Agrees(msg)
    BY <2>1 DEF Agrees
  <2> QED BY <2>1, <2>2, <2>3 DEF Arrived
<1> QED BY <1>1, <1>2, <1>3, <1>4, <1>5 DEF Next

(* The bytes that the i-th field takes. *)
Width(m, i) ==
    IF FieldAt(m, i).as = "text" THEN 2 + Len(ValueAt(m, i))
    ELSE IF FieldAt(m, i).as = "rest" THEN Len(ValueAt(m, i)) ELSE FieldAt(m, i).size

(* A field begins where the one before it ends. *)
LEMMA OffStep ==
    ASSUME NEW m, IsMessage(m), NEW i \in 1 .. FieldCount(m)
    PROVE  /\ Off(m, i) = Off(m, i - 1) + Width(m, i) /\ Width(m, i) \in Nat
           /\ Off(m, i) \in Nat /\ Off(m, i - 1) \in Nat
<1> DEFINE f == FieldAt(m, i)
           v == ValueAt(m, i)
<1>1. IsForm(f) /\ IsField(f, v) /\ SectionAt(m, i) = Section(f, v) /\ FieldCount(m) \in Nat
  BY FieldFacts DEF SectionAt
<1>2. i - 1 \in 0 .. FieldCount(m) /\ i \in 0 .. FieldCount(m)
  BY <1>1
<1>3. /\ Off(m, i) = Off(m, i - 1) + Len(SectionAt(m, i)) /\ Off(m, i) \in Nat
      /\ Off(m, i - 1) \in Nat
  BY <1>2, LaidOut DEF Laid
<1>4. Len(SectionAt(m, i)) = Width(m, i) /\ Width(m, i) \in Nat
  <2>1. CASE f.as = "text"
    <3>1. Len(v) \in Nat
      BY <1>1, <2>1 DEF IsField
    <3>2. Len(Section(f, v)) = 2 + Len(v)
      BY <1>1, <2>1, SectionFacts
    <3> QED BY <1>1, <2>1, <3>1, <3>2 DEF Width
  <2>2. CASE f.as = "rest"
    <3>1. Len(v) \in Nat
      BY <1>1, <2>2 DEF IsField
    <3>2. Section(f, v) = v
      BY <1>1, <2>2, SectionFacts
    <3> QED BY <1>1, <2>2, <3>1, <3>2 DEF Width
  <2>3. CASE f.as = "num"
    <3>1. Len(Section(f, v)) = f.size
      BY <1>1, <2>3, SectionFacts
    <3> QED BY <1>1, <2>3, <3>1 DEF Width, IsForm
  <2>4. CASE f.as = "raw"
    <3>1. Section(f, v) = v /\ Len(v) = f.size
      BY <1>1, <2>4, SectionFacts DEF IsField
    <3> QED BY <1>1, <2>4, <3>1 DEF Width, IsForm
  <2> QED BY <1>1, <2>1, <2>2, <2>3, <2>4 DEF IsForm
<1> QED BY <1>3, <1>4

(* Where the fields of each message lie. *)
Placed(m) ==
    CASE m.kind = "HELLO"       -> Off(m, 4) = Off(m, 2) + 4 + Limit.nonce /\ Off(m, 1) = 1
      [] m.kind = "AUTH_NODE"   -> Off(m, 3) = Off(m, 1) + Limit.nonce + Limit.sign
      [] m.kind = "AUTH_TAP"    -> Off(m, 4) = Off(m, 2) + 4 + Limit.nonce
      [] m.kind = "AUTH_OK"     -> Off(m, 4) = 20
      [] m.kind = "CONFIG_PUSH" ->
           /\ Off(m, 5) = 11 /\ Off(m, 7) >= 15 /\ Off(m, 10) = Off(m, 7) + 8
           /\ Off(m, 11) >= Off(m, 10) + 2
      [] m.kind = "TAP_FRAME"   -> Off(m, 2) = 6 /\ Off(m, 3) = 6 + Len(m.field.frame)
      [] m.kind = "SOCKS_OPEN"  -> Off(m, 3) = Off(m, 2) + 2 /\ Off(m, 2) >= 6
      [] m.kind = "SOCKS_DATA"  -> Off(m, 1) = 4 /\ Off(m, 2) = 4 + Len(m.field.data)
      [] m.kind = "SOCKS_CLOSE" -> Off(m, 1) = 4
      [] m.kind = "SOCKS_CLOSE_REASON" -> Off(m, 1) = 4 /\ Off(m, 3) = 8

LEMMA PlacedFacts ==
    ASSUME NEW m, IsMessage(m)
    PROVE  Placed(m)
<1> DEFINE n == FieldCount(m)
<1>1. \A i \in 1 .. n : Off(m, i) = Off(m, i - 1) + Width(m, i) /\ Width(m, i) \in Nat
                        /\ Off(m, i) \in Nat
  BY OffStep
<1>2. Off(m, 0) = 0 /\ m.kind \in Kinds
  BY LaidOut DEF Laid, IsMessage
<1>3. Limit.nonce \in Nat /\ Limit.sign \in Nat
  BY FormFacts
<1>4. \A i \in 1 .. n : FieldAt(m, i).as = "text" => Width(m, i) >= 2
  <2> SUFFICES ASSUME NEW i \in 1 .. n, FieldAt(m, i).as = "text" PROVE Width(m, i) >= 2
    OBVIOUS
  <2>1. IsField(FieldAt(m, i), ValueAt(m, i))
    BY FieldFacts
  <2>2. Len(ValueAt(m, i)) \in Nat
    BY <2>1 DEF IsField
  <2> QED BY <2>2 DEF Width
<1>5. CASE m.kind = "HELLO"
  <2>1. n = 4 /\ FieldAt(m, 1) = Num("role", 1) /\ FieldAt(m, 3) = Num("feature_bits", 4)
        /\ FieldAt(m, 4) = Raw("nonce", Limit.nonce)
    BY <1>5 DEF FieldCount, FieldAt, Fields, Layout
  <2>2. Width(m, 1) = 1 /\ Width(m, 3) = 4 /\ Width(m, 4) = Limit.nonce
    BY <2>1 DEF Width, Num, Raw
  <2> HIDE DEF n
  <2>3. /\ Off(m, 1) = Off(m, 0) + Width(m, 1)
        /\ Off(m, 3) = Off(m, 2) + Width(m, 3) /\ Off(m, 4) = Off(m, 3) + Width(m, 4)
        /\ Off(m, 2) \in Nat
    BY <1>1, <2>1
  <2> QED BY <1>2, <1>3, <1>5, <2>2, <2>3 DEF Placed
<1>6. CASE m.kind = "AUTH_NODE"
  <2>1. n = 3 /\ FieldAt(m, 2) = Raw("client_nonce", Limit.nonce)
        /\ FieldAt(m, 3) = Raw("sign", Limit.sign)
    BY <1>6 DEF FieldCount, FieldAt, Fields, Layout
  <2>2. Width(m, 2) = Limit.nonce /\ Width(m, 3) = Limit.sign
    BY <2>1 DEF Width, Raw
  <2> HIDE DEF n
  <2>3. /\ Off(m, 2) = Off(m, 1) + Width(m, 2) /\ Off(m, 3) = Off(m, 2) + Width(m, 3)
        /\ Off(m, 1) \in Nat
    BY <1>1, <2>1
  <2> QED BY <1>2, <1>3, <1>6, <2>2, <2>3 DEF Placed
<1>7. CASE m.kind = "AUTH_TAP"
  <2>1. n = 4 /\ FieldAt(m, 3) = Num("network_id", 4)
        /\ FieldAt(m, 4) = Raw("client_nonce", Limit.nonce)
    BY <1>7 DEF FieldCount, FieldAt, Fields, Layout
  <2>2. Width(m, 3) = 4 /\ Width(m, 4) = Limit.nonce
    BY <2>1 DEF Width, Num, Raw
  <2> HIDE DEF n
  <2>3. /\ Off(m, 3) = Off(m, 2) + Width(m, 3) /\ Off(m, 4) = Off(m, 3) + Width(m, 4)
        /\ Off(m, 2) \in Nat
    BY <1>1, <2>1
  <2> QED BY <1>2, <1>3, <1>7, <2>2, <2>3 DEF Placed
<1>8. CASE m.kind = "AUTH_OK"
  <2>1. n = 4 /\ FieldAt(m, 1) = Num("session_id", 4) /\ FieldAt(m, 2) = Num("network_id", 4)
        /\ FieldAt(m, 3) = Num("server_time", 8) /\ FieldAt(m, 4) = Num("feature_bits", 4)
    BY <1>8 DEF FieldCount, FieldAt, Fields, Layout
  <2>2. Width(m, 1) = 4 /\ Width(m, 2) = 4 /\ Width(m, 3) = 8 /\ Width(m, 4) = 4
    BY <2>1 DEF Width, Num
  <2> HIDE DEF n
  <2>3. /\ Off(m, 1) = Off(m, 0) + Width(m, 1) /\ Off(m, 2) = Off(m, 1) + Width(m, 2)
        /\ Off(m, 3) = Off(m, 2) + Width(m, 3) /\ Off(m, 4) = Off(m, 3) + Width(m, 4)
    BY <1>1, <2>1
  <2> QED BY <1>2, <1>8, <2>2, <2>3 DEF Placed
<1>9. CASE m.kind = "CONFIG_PUSH"
  <2>1. /\ n = 13
        /\ FieldAt(m, 1) = Num("config_version", 4) /\ FieldAt(m, 2) = Num("network_id", 4)
        /\ FieldAt(m, 3) = Num("tap_enabled", 1) /\ FieldAt(m, 4) = Num("socks_enabled", 1)
        /\ FieldAt(m, 5) = Num("direct_enabled", 1) /\ FieldAt(m, 8) = Num("mtu", 2)
        /\ FieldAt(m, 9) = Num("direct_port", 2) /\ FieldAt(m, 10) = Num("flags", 4)
        /\ FieldAt(m, 6).as = "text" /\ FieldAt(m, 7).as = "text" /\ FieldAt(m, 11).as = "text"
    BY <1>9 DEF FieldCount, FieldAt, Fields, Layout, Text
  <2>2. /\ Width(m, 1) = 4 /\ Width(m, 2) = 4 /\ Width(m, 3) = 1 /\ Width(m, 4) = 1
        /\ Width(m, 5) = 1 /\ Width(m, 8) = 2 /\ Width(m, 9) = 2 /\ Width(m, 10) = 4
    BY <2>1 DEF Width, Num
  <2>3. Width(m, 6) >= 2 /\ Width(m, 7) >= 2 /\ Width(m, 11) >= 2
    BY <1>4, <2>1
  <2>4. n = 13
    BY <2>1
  <2> HIDE DEF n
  <2>5. /\ Off(m, 1) = Off(m, 0) + Width(m, 1) /\ Off(m, 2) = Off(m, 1) + Width(m, 2)
        /\ Off(m, 3) = Off(m, 2) + Width(m, 3) /\ Off(m, 4) = Off(m, 3) + Width(m, 4)
        /\ Off(m, 5) = Off(m, 4) + Width(m, 5) /\ Off(m, 6) = Off(m, 5) + Width(m, 6)
        /\ Off(m, 7) = Off(m, 6) + Width(m, 7) /\ Off(m, 8) = Off(m, 7) + Width(m, 8)
        /\ Off(m, 9) = Off(m, 8) + Width(m, 9) /\ Off(m, 10) = Off(m, 9) + Width(m, 10)
        /\ Off(m, 11) = Off(m, 10) + Width(m, 11)
        /\ Width(m, 6) \in Nat /\ Width(m, 7) \in Nat /\ Width(m, 11) \in Nat
    BY <1>1, <2>4
  <2> QED BY <1>2, <1>9, <2>2, <2>3, <2>5 DEF Placed
<1>10. CASE m.kind = "TAP_FRAME"
  <2>1. n = 3 /\ FieldAt(m, 1) = Num("network_id", 4) /\ FieldAt(m, 2) = Num("frame_len", 2)
        /\ FieldAt(m, 3) = Rest("frame")
    BY <1>10 DEF FieldCount, FieldAt, Fields, Layout
  <2>2. Width(m, 1) = 4 /\ Width(m, 2) = 2 /\ Width(m, 3) = Len(m.field.frame)
    BY <2>1 DEF Width, Num, Rest, ValueAt
  <2> HIDE DEF n
  <2>3. /\ Off(m, 1) = Off(m, 0) + Width(m, 1) /\ Off(m, 2) = Off(m, 1) + Width(m, 2)
        /\ Off(m, 3) = Off(m, 2) + Width(m, 3)
    BY <1>1, <2>1
  <2> QED BY <1>2, <1>10, <2>2, <2>3 DEF Placed
<1>11. CASE m.kind = "SOCKS_OPEN"
  <2>1. n = 3 /\ FieldAt(m, 1) = Num("stream_id", 4) /\ FieldAt(m, 2).as = "text"
        /\ FieldAt(m, 3) = Num("port", 2)
    BY <1>11 DEF FieldCount, FieldAt, Fields, Layout, Text
  <2>2. Width(m, 1) = 4 /\ Width(m, 3) = 2
    BY <2>1 DEF Width, Num
  <2>3. Width(m, 2) >= 2
    BY <1>4, <2>1
  <2> HIDE DEF n
  <2>4. /\ Off(m, 1) = Off(m, 0) + Width(m, 1) /\ Off(m, 2) = Off(m, 1) + Width(m, 2)
        /\ Off(m, 3) = Off(m, 2) + Width(m, 3) /\ Width(m, 2) \in Nat
    BY <1>1, <2>1
  <2> QED BY <1>2, <1>11, <2>2, <2>3, <2>4 DEF Placed
<1>12. CASE m.kind = "SOCKS_DATA"
  <2>1. n = 2 /\ FieldAt(m, 1) = Num("stream_id", 4) /\ FieldAt(m, 2) = Rest("data")
    BY <1>12 DEF FieldCount, FieldAt, Fields, Layout
  <2>2. Width(m, 1) = 4 /\ Width(m, 2) = Len(m.field.data)
    BY <2>1 DEF Width, Num, Rest, ValueAt
  <2> HIDE DEF n
  <2>3. Off(m, 1) = Off(m, 0) + Width(m, 1) /\ Off(m, 2) = Off(m, 1) + Width(m, 2)
    BY <1>1, <2>1
  <2> QED BY <1>2, <1>12, <2>2, <2>3 DEF Placed
<1>13. CASE m.kind = "SOCKS_CLOSE"
  <2>1. n = 1 /\ FieldAt(m, 1) = Num("stream_id", 4)
    BY <1>13 DEF FieldCount, FieldAt, Fields, Layout
  <2>2. Width(m, 1) = 4
    BY <2>1 DEF Width, Num
  <2> HIDE DEF n
  <2>3. Off(m, 1) = Off(m, 0) + Width(m, 1)
    BY <1>1, <2>1
  <2> QED BY <1>2, <1>13, <2>2, <2>3 DEF Placed
<1>14. CASE m.kind = "SOCKS_CLOSE_REASON"
  <2>1. n = 3 /\ FieldAt(m, 1) = Num("stream_id", 4) /\ FieldAt(m, 2) = Num("reason_code", 2)
        /\ FieldAt(m, 3) = Num("flags", 2)
    BY <1>14 DEF FieldCount, FieldAt, Fields, Layout
  <2>2. Width(m, 1) = 4 /\ Width(m, 2) = 2 /\ Width(m, 3) = 2
    BY <2>1 DEF Width, Num
  <2> HIDE DEF n
  <2>3. /\ Off(m, 1) = Off(m, 0) + Width(m, 1) /\ Off(m, 2) = Off(m, 1) + Width(m, 2)
        /\ Off(m, 3) = Off(m, 2) + Width(m, 3)
    BY <1>1, <2>1
  <2> QED BY <1>2, <1>14, <2>2, <2>3 DEF Placed
<1> QED BY <1>2, <1>5, <1>6, <1>7, <1>8, <1>9, <1>10, <1>11, <1>12, <1>13, <1>14, LayoutFacts

(* What takes the rest is the last field, and only two messages have one. *)
RestLast(m, i) ==
    /\ (m.kind = "TAP_FRAME" /\ i = 3) \/ (m.kind = "SOCKS_DATA" /\ i = 2)
    /\ i = FieldCount(m)
    /\ \A j \in 1 .. i - 1 :
         FieldAt(m, j).as = "num" /\ FieldAt(m, j).name # FieldAt(m, i).name

LEMMA RestIsLast ==
    ASSUME NEW m, m.kind \in Kinds, NEW i \in 1 .. FieldCount(m), FieldAt(m, i).as = "rest"
    PROVE  RestLast(m, i)
<1>1. CASE m.kind = "HELLO"
  <2>1. /\ FieldCount(m) = 4 /\ FieldAt(m, 1) = Num("role", 1)
        /\ FieldAt(m, 2) = Text("version_text")
        /\ FieldAt(m, 3) = Num("feature_bits", 4)
        /\ FieldAt(m, 4) = Raw("nonce", Limit.nonce)
    BY <1>1 DEF FieldCount, FieldAt, Fields, Layout
  <2>2. \A j \in 1 .. 4 : FieldAt(m, j).as # "rest"
    BY <2>1 DEF Num, Raw, Text
  <2> QED BY <2>1, <2>2
<1>2. CASE m.kind = "AUTH_NODE"
  <2>1. /\ FieldCount(m) = 3 /\ FieldAt(m, 1) = Text("node_id")
        /\ FieldAt(m, 2) = Raw("client_nonce", Limit.nonce)
        /\ FieldAt(m, 3) = Raw("sign", Limit.sign)
    BY <1>2 DEF FieldCount, FieldAt, Fields, Layout
  <2>2. \A j \in 1 .. 3 : FieldAt(m, j).as # "rest"
    BY <2>1 DEF Num, Raw, Text
  <2> QED BY <2>1, <2>2
<1>3. CASE m.kind = "AUTH_TAP"
  <2>1. /\ FieldCount(m) = 4 /\ FieldAt(m, 1) = Text("username")
        /\ FieldAt(m, 2) = Text("password") /\ FieldAt(m, 3) = Num("network_id", 4)
        /\ FieldAt(m, 4) = Raw("client_nonce", Limit.nonce)
    BY <1>3 DEF FieldCount, FieldAt, Fields, Layout
  <2>2. \A j \in 1 .. 4 : FieldAt(m, j).as # "rest"
    BY <2>1 DEF Num, Raw, Text
  <2> QED BY <2>1, <2>2
<1>4. CASE m.kind = "AUTH_OK"
  <2>1. /\ FieldCount(m) = 4 /\ FieldAt(m, 1) = Num("session_id", 4)
        /\ FieldAt(m, 2) = Num("network_id", 4)
        /\ FieldAt(m, 3) = Num("server_time", 8)
        /\ FieldAt(m, 4) = Num("feature_bits", 4)
    BY <1>4 DEF FieldCount, FieldAt, Fields, Layout
  <2>2. \A j \in 1 .. 4 : FieldAt(m, j).as # "rest"
    BY <2>1 DEF Num, Raw, Text
  <2> QED BY <2>1, <2>2
<1>5. CASE m.kind = "CONFIG_PUSH"
  <2>1. /\ FieldCount(m) = 13 /\ FieldAt(m, 1) = Num("config_version", 4)
        /\ FieldAt(m, 2) = Num("network_id", 4)
        /\ FieldAt(m, 3) = Num("tap_enabled", 1)
        /\ FieldAt(m, 4) = Num("socks_enabled", 1)
        /\ FieldAt(m, 5) = Num("direct_enabled", 1)
        /\ FieldAt(m, 6) = Text("tap_name") /\ FieldAt(m, 7) = Text("bridge_name")
        /\ FieldAt(m, 8) = Num("mtu", 2) /\ FieldAt(m, 9) = Num("direct_port", 2)
        /\ FieldAt(m, 10) = Num("flags", 4) /\ FieldAt(m, 11) = Text("direct_mode")
        /\ FieldAt(m, 12) = Text("direct_addr")
        /\ FieldAt(m, 13) = Text("direct_token")
    BY <1>5 DEF FieldCount, FieldAt, Fields, Layout
  <2>2. \A j \in 1 .. 13 : FieldAt(m, j).as # "rest"
    BY <2>1 DEF Num, Raw, Text
  <2> QED BY <2>1, <2>2
<1>6. CASE m.kind = "SOCKS_OPEN"
  <2>1. /\ FieldCount(m) = 3 /\ FieldAt(m, 1) = Num("stream_id", 4)
        /\ FieldAt(m, 2) = Text("host") /\ FieldAt(m, 3) = Num("port", 2)
    BY <1>6 DEF FieldCount, FieldAt, Fields, Layout
  <2>2. \A j \in 1 .. 3 : FieldAt(m, j).as # "rest"
    BY <2>1 DEF Num, Raw, Text
  <2> QED BY <2>1, <2>2
<1>7. CASE m.kind = "SOCKS_CLOSE"
  <2>1. /\ FieldCount(m) = 1 /\ FieldAt(m, 1) = Num("stream_id", 4)
    BY <1>7 DEF FieldCount, FieldAt, Fields, Layout
  <2>2. \A j \in 1 .. 1 : FieldAt(m, j).as # "rest"
    BY <2>1 DEF Num, Raw, Text
  <2> QED BY <2>1, <2>2
<1>8. CASE m.kind = "SOCKS_CLOSE_REASON"
  <2>1. /\ FieldCount(m) = 3 /\ FieldAt(m, 1) = Num("stream_id", 4)
        /\ FieldAt(m, 2) = Num("reason_code", 2) /\ FieldAt(m, 3) = Num("flags", 2)
    BY <1>8 DEF FieldCount, FieldAt, Fields, Layout
  <2>2. \A j \in 1 .. 3 : FieldAt(m, j).as # "rest"
    BY <2>1 DEF Num, Raw, Text
  <2> QED BY <2>1, <2>2
<1>9. CASE m.kind = "TAP_FRAME"
  <2>1. /\ FieldCount(m) = 3 /\ FieldAt(m, 1) = Num("network_id", 4)
        /\ FieldAt(m, 2) = Num("frame_len", 2) /\ FieldAt(m, 3) = Rest("frame")
    BY <1>9 DEF FieldCount, FieldAt, Fields, Layout
  <2>2. i = 3
    BY <2>1 DEF Num
  <2>3. \A j \in 1 .. 2 : FieldAt(m, j).as = "num" /\ FieldAt(m, j).name # FieldAt(m, 3).name
    BY <2>1 DEF Num, Rest
  <2> QED BY <1>9, <2>1, <2>2, <2>3 DEF RestLast
<1>10. CASE m.kind = "SOCKS_DATA"
  <2>1. /\ FieldCount(m) = 2 /\ FieldAt(m, 1) = Num("stream_id", 4)
        /\ FieldAt(m, 2) = Rest("data")
    BY <1>10 DEF FieldCount, FieldAt, Fields, Layout
  <2>2. i = 2
    BY <2>1 DEF Num
  <2>3. \A j \in 1 .. 1 : FieldAt(m, j).as = "num" /\ FieldAt(m, j).name # FieldAt(m, 2).name
    BY <2>1 DEF Num, Rest
  <2> QED BY <1>10, <2>1, <2>2, <2>3 DEF RestLast
<1> QED BY <1>1, <1>2, <1>3, <1>4, <1>5, <1>6, <1>7, <1>8, <1>9, <1>10, LayoutFacts

(* Two fields of one name have one value. *)
LEMMA SameName ==
    ASSUME IsMessage(msg), NEW i \in 1 .. FieldCount(msg), NEW j \in 1 .. i - 1,
           FieldAt(msg, j).name = FieldAt(msg, i).name
    PROVE  ReadValue(j) = ReadValue(i)
<1>1. msg.kind \in Kinds /\ FieldCount(msg) \in Nat
  BY FieldFacts DEF IsMessage
<1>2. FieldAt(msg, i).as # "rest"
  BY <1>1, RestIsLast DEF RestLast
<1>3. FieldAt(msg, j).as # "rest"
  <2> SUFFICES ASSUME FieldAt(msg, j).as = "rest" PROVE FALSE
    OBVIOUS
  <2>1. j \in 1 .. FieldCount(msg) /\ i <= FieldCount(msg) /\ j < i
    BY <1>1
  <2>2. j = FieldCount(msg)
    BY <1>1, <2>1, RestIsLast DEF RestLast
  <2> QED BY <2>1, <2>2
<1> QED BY <1>2, <1>3 DEF ReadValue, ValueAt

(* Every message has a field. *)
LEMMA SomeField ==
    ASSUME NEW m, m.kind \in Kinds
    PROVE  FieldCount(m) >= 1
<1> USE DEF FieldCount, Fields, Layout
<1>1. m.kind = "HELLO" => FieldCount(m) = 4
  OBVIOUS
<1>2. m.kind = "AUTH_NODE" => FieldCount(m) = 3
  OBVIOUS
<1>3. m.kind = "AUTH_TAP" => FieldCount(m) = 4
  OBVIOUS
<1>4. m.kind = "AUTH_OK" => FieldCount(m) = 4
  OBVIOUS
<1>5. m.kind = "CONFIG_PUSH" => FieldCount(m) = 13
  OBVIOUS
<1>6. m.kind = "TAP_FRAME" => FieldCount(m) = 3
  OBVIOUS
<1>7. m.kind = "SOCKS_OPEN" => FieldCount(m) = 3
  OBVIOUS
<1>8. m.kind = "SOCKS_DATA" => FieldCount(m) = 2
  OBVIOUS
<1>9. m.kind = "SOCKS_CLOSE" => FieldCount(m) = 1
  OBVIOUS
<1>10. m.kind = "SOCKS_CLOSE_REASON" => FieldCount(m) = 3
  OBVIOUS
<1> HIDE DEF FieldCount
<1> QED BY <1>1, <1>2, <1>3, <1>4, <1>5, <1>6, <1>7, <1>8, <1>9, <1>10, LayoutFacts

(* The fields that are decoded are those of the message, or begin like them.*)
DecodedAlike ==
    /\ DecodedCount \in Nat /\ DecodedCount >= 1 /\ DecodedCount <= FieldCount(msg)
    /\ \A i \in 1 .. DecodedCount :
         /\ Fields(DecodedAs)[i] = FieldAt(msg, i)
         /\ FieldAt(msg, i).name \in DOMAIN Zeroed(DecodedAs)
    /\ DecodedAs = msg.kind \/ (msg.kind = "SOCKS_CLOSE_REASON" /\ DecodedAs = "SOCKS_CLOSE")
    /\ DecodedAs = msg.kind => DecodedCount = FieldCount(msg)

LEMMA DecodedLike ==
    ASSUME IsMessage(msg), msg.kind = "SOCKS_CLOSE" => Len(payload) # 8
    PROVE  DecodedAlike
<1>1. msg.kind \in Kinds /\ FieldCount(msg) \in Nat /\ DOMAIN Fields(msg.kind) = 1 .. FieldCount(msg)
  BY FieldFacts DEF IsMessage
<1>2. DecodedAs = msg.kind \/ (msg.kind = "SOCKS_CLOSE_REASON" /\ DecodedAs = "SOCKS_CLOSE")
  <2>1. CASE msg.kind = "SOCKS_CLOSE"
    BY <2>1 DEF DecodedAs
  <2>2. CASE msg.kind # "SOCKS_CLOSE"
    BY <2>2 DEF DecodedAs
  <2> QED BY <2>1, <2>2
<1>3. CASE DecodedAs = "SOCKS_CLOSE"
  <2>1. msg.kind = "SOCKS_CLOSE" \/ msg.kind = "SOCKS_CLOSE_REASON"
    BY <1>2, <1>3
  <2>2. DecodedCount = 1 /\ Fields(DecodedAs)[1] = Num("stream_id", 4)
    BY <1>3 DEF DecodedCount, Fields, Layout
  <2>3. FieldAt(msg, 1) = Num("stream_id", 4) /\ FieldCount(msg) \in {1, 3}
        /\ (msg.kind = "SOCKS_CLOSE" => FieldCount(msg) = 1)
    BY <2>1 DEF FieldAt, FieldCount, Fields, Layout
  <2>4. "stream_id" \in DOMAIN Zeroed(DecodedAs)
    BY <1>3 DEF Zeroed
  <2>5. FieldAt(msg, 1).name = "stream_id"
    BY <2>3 DEF Num
  <2> QED BY <1>2, <1>3, <2>2, <2>3, <2>4, <2>5 DEF DecodedAlike
<1>4. CASE DecodedAs # "SOCKS_CLOSE"
  <2>1. DecodedAs = msg.kind
    BY <1>2, <1>4
  <2>2. DecodedCount = FieldCount(msg) /\ \A i \in 1 .. DecodedCount : Fields(DecodedAs)[i] = FieldAt(msg, i)
    BY <2>1 DEF DecodedCount, FieldCount, FieldAt
  <2>3. DOMAIN Zeroed(DecodedAs) = Names(msg.kind)
    BY <1>4, <2>1 DEF Zeroed
  <2>4. \A i \in 1 .. DecodedCount : FieldAt(msg, i).name \in Names(msg.kind)
    BY <1>1, <2>2 DEF Names, FieldAt
  <2>5. FieldCount(msg) >= 1
    BY <1>1, SomeField
  <2> QED BY <1>1, <2>1, <2>2, <2>3, <2>4, <2>5 DEF DecodedAlike
<1> QED BY <1>3, <1>4

(* What a step of the decoder can rely on. *)
LEMMA ArrivedFacts ==
    ASSUME CodecInv, Written, Arrived, pc \in Received
    PROVE  /\ IsMessage(msg) /\ ArgumentsOk(msg) /\ TextsCarried(msg)
           /\ payload \in Seq(Bytes) /\ Len(payload) \in Nat /\ Agrees(msg)
           /\ out = Encoding(msg) /\ Len(payload) <= Len(Encoding(msg)) + 1
           /\ Len(Encoding(msg)) = Off(msg, FieldCount(msg)) /\ Len(Encoding(msg)) \in Nat
           /\ Len(Encoding(msg)) <= Cap
           /\ DecodedAlike
<1>1. pc # "IDLE" /\ pc \in Encoded
  BY DEF Received, Encoded
<1>2. IsMessage(msg) /\ payload \in Seq(Bytes) /\ Len(payload) \in Nat
  BY <1>1, MessagesAssumption DEF CodecInv, CodecType
<1>3. ArgumentsOk(msg) /\ TextsCarried(msg) /\ out = Encoding(msg) /\ Len(out) <= Cap
  BY <1>1 DEF Written
<1>4. Agrees(msg) /\ Len(payload) <= Len(Encoding(msg)) + 1
  BY <1>3 DEF Arrived
<1>5. Len(Encoding(msg)) = Off(msg, FieldCount(msg)) /\ Len(Encoding(msg)) \in Nat
  <2>1. FieldCount(msg) \in 0 .. FieldCount(msg)
    BY <1>2, FieldFacts
  <2> QED BY <1>2, <2>1, LaidOut DEF Laid
<1>6. msg.kind = "SOCKS_CLOSE" => Len(payload) # 8
  <2> SUFFICES ASSUME msg.kind = "SOCKS_CLOSE" PROVE Len(payload) # 8
    OBVIOUS
  <2>1. FieldCount(msg) = 1
    BY DEF FieldCount, Fields, Layout
  <2>2. Placed(msg)
    BY <1>2, PlacedFacts
  <2>3. Off(msg, 1) = 4
    BY <2>2 DEF Placed
  <2>4. Len(Encoding(msg)) = 4
    BY <1>5, <2>1, <2>3
  <2>5. Len(payload) \in Nat /\ Len(payload) <= Len(Encoding(msg)) + 1
    BY <1>2, <1>4
  <2>6. Len(payload) <= 4 + 1
    BY <2>4, <2>5
  <2>7. \A n \in Nat : n <= 4 + 1 => n # 8
    OBVIOUS
  <2> QED BY <2>5, <2>6, <2>7
<1>7. DecodedAlike
  BY <1>2, <1>6, DecodedLike
<1> QED BY <1>2, <1>3, <1>4, <1>5, <1>7

(* What the decoder knows of a payload stays as long as the payload does. *)
LEMMA SameReading ==
    ASSUME msg' = msg, payload' = payload
    PROVE  /\ DecodedAs' = DecodedAs /\ DecodedCount' = DecodedCount
           /\ \A i : Met(i)' = Met(i) /\ ReadValue(i)' = ReadValue(i)
<1>1. DecodedAs' = DecodedAs
  BY DEF DecodedAs
<1>2. DecodedCount' = DecodedCount
  BY <1>1 DEF DecodedCount
<1>3. \A i : Met(i)' = Met(i)
  BY DEF Met
<1>4. \A p, n : BytesAt(p, n)' = BytesAt(p, n)
  BY DEF BytesAt
<1>5. \A i : ReadValue(i)' = ReadValue(i)
  BY <1>4 DEF ReadValue
<1> QED BY <1>1, <1>2, <1>3, <1>5

(* One field read. *)
LEMMA Advance ==
    ASSUME IsMessage(msg), DecodedAlike, Progress, at <= DecodedCount,
           msg' = msg, payload' = payload, at' = at + 1,
           got' = [got EXCEPT ![FieldAt(msg, at).name] = ReadValue(at)], Met(at),
           FieldAt(msg, at).as # "rest" => pos' = Off(msg, at)
    PROVE  Progress'
<1> DEFINE f == FieldAt(msg, at).name
           D == DOMAIN Zeroed(DecodedAs)
<1>1. /\ DecodedAs' = DecodedAs /\ DecodedCount' = DecodedCount
      /\ \A i : Met(i)' = Met(i) /\ ReadValue(i)' = ReadValue(i)
  BY SameReading
<1>2. DecodedCount \in Nat /\ at \in 1 .. DecodedCount /\ at \in 1 .. FieldCount(msg)
      /\ FieldCount(msg) \in Nat
  BY FieldFacts DEF DecodedAlike, Progress
<1>3. f \in D /\ got = [x \in D |-> got[x]]
  BY <1>2 DEF DecodedAlike, Progress
<1>4. at' \in 1 .. DecodedCount' + 1
  BY <1>1, <1>2
<1>5. at' - 1 = at
  BY <1>2
<1> HIDE DEF f, D
<1>6. got'[f] = ReadValue(at) /\ \A x \in D : x # f => got'[x] = got[x]
  BY <1>3 DEF f
<1>7. got' = [x \in D |-> got'[x]]
  BY <1>3 DEF f
<1>8. ASSUME NEW i \in 1 .. at PROVE Met(i) /\ got'[FieldAt(msg, i).name] = ReadValue(i)
  <2>1. CASE i = at
    BY <1>6, <2>1 DEF f
  <2>2. CASE i # at
    <3>1. i \in 1 .. at - 1 /\ i \in 1 .. DecodedCount
      BY <1>2, <2>2
    <3>2. Met(i) /\ got[FieldAt(msg, i).name] = ReadValue(i) /\ FieldAt(msg, i).name \in D
      BY <3>1 DEF Progress, DecodedAlike, D
    <3>3. CASE FieldAt(msg, i).name = f
      <4>1. ReadValue(i) = ReadValue(at)
        BY <1>2, <3>1, <3>3, SameName DEF f
      <4> QED BY <1>6, <3>2, <3>3, <4>1
    <3>4. CASE FieldAt(msg, i).name # f
      BY <1>6, <3>2, <3>4
    <3> QED BY <3>3, <3>4
  <2> QED BY <2>1, <2>2
<1>9. ASSUME NEW x \in D, \A i \in 1 .. at : FieldAt(msg, i).name # x
      PROVE  got'[x] = Zeroed(DecodedAs)[x]
  <2>1. at \in 1 .. at /\ \A i \in 1 .. at - 1 : i \in 1 .. at
    BY <1>2
  <2>2. x # f /\ \A i \in 1 .. at - 1 : FieldAt(msg, i).name # x
    BY <1>9, <2>1 DEF f
  <2>3. got[x] = Zeroed(DecodedAs)[x]
    BY <2>2 DEF Progress, D
  <2> QED BY <1>6, <2>2, <2>3
<1>10. at' = 1 \/ FieldAt(msg, at' - 1).as # "rest" => pos' = Off(msg, at' - 1)
  BY <1>2, <1>5
<1> QED BY <1>1, <1>4, <1>5, <1>7, <1>8, <1>9, <1>10 DEF Progress, D

(* The field that is next, and where it begins. *)
Here ==
    /\ at \in 1 .. FieldCount(msg) /\ Field = FieldAt(msg, at) /\ pos = Off(msg, at - 1)
    /\ pos \in Nat /\ Off(msg, at) \in Nat /\ at - 1 \in 0 .. FieldCount(msg)

LEMMA HereFacts ==
    ASSUME IsMessage(msg), DecodedAlike, Progress, at <= DecodedCount
    PROVE  Here
<1>1. /\ FieldCount(msg) \in Nat /\ DecodedCount \in Nat /\ DecodedCount <= FieldCount(msg)
      /\ at \in 1 .. DecodedCount /\ msg.kind \in Kinds
  BY FieldFacts DEF DecodedAlike, Progress, IsMessage
<1>2. at \in 1 .. FieldCount(msg) /\ at - 1 \in 0 .. FieldCount(msg) /\ at \in 0 .. FieldCount(msg)
  BY <1>1
<1>3. Field = FieldAt(msg, at)
  BY <1>1 DEF DecodedAlike, Field
<1>4. at = 1 \/ FieldAt(msg, at - 1).as # "rest"
  <2> SUFFICES ASSUME at # 1, FieldAt(msg, at - 1).as = "rest" PROVE FALSE
    OBVIOUS
  <2>1. at - 1 \in 1 .. FieldCount(msg)
    BY <1>2
  <2>2. at - 1 = FieldCount(msg)
    BY <1>1, <2>1, RestIsLast DEF RestLast
  <2> QED BY <1>1, <1>2, <2>2
<1>5. pos = Off(msg, at - 1)
  BY <1>4 DEF Progress
<1>6. Off(msg, at - 1) \in Nat /\ Off(msg, at) \in Nat
  BY <1>2, LaidOut DEF Laid
<1> QED BY <1>2, <1>3, <1>5, <1>6 DEF Here

(* What is checked before a field, of the messages that check something. *)
RestKnown ==
    /\ msg.kind = "HELLO" /\ at = 3 => (RestFits <=> Left = 4 + Limit.nonce)
    /\ msg.kind = "AUTH_NODE" /\ at = 2 => (RestFits <=> Left = Limit.nonce + Limit.sign)
    /\ msg.kind = "AUTH_TAP" /\ at = 3 => (RestFits <=> Left = 4 + Limit.nonce)
    /\ msg.kind = "CONFIG_PUSH" /\ at = 8 => (RestFits <=> Left >= 2 + 2 + 4)
    /\ msg.kind = "SOCKS_OPEN" /\ at = 3 => (RestFits <=> Left = 2)
    /\ msg.kind = "TAP_FRAME" /\ at = 3 => (RestFits <=> got.frame_len >= Limit.minFrame /\ Left = got.frame_len)
    /\ ~WholeAt(msg.kind, at) /\ ~(msg.kind = "CONFIG_PUSH" /\ at = 8) => RestFits

LEMMA RestFitsIs ==
    ASSUME msg.kind \in Kinds, Here
    PROVE  RestKnown
<1> USE DEF Here
<1>1. CASE msg.kind = "HELLO"
  <2>1. /\ FieldCount(msg) = 4 /\ FieldAt(msg, 1) = Num("role", 1)
        /\ FieldAt(msg, 2) = Text("version_text")
        /\ FieldAt(msg, 3) = Num("feature_bits", 4)
        /\ FieldAt(msg, 4) = Raw("nonce", Limit.nonce)
    BY <1>1 DEF FieldCount, FieldAt, Fields, Layout
  <2>2. at = 3 => Field.name = "feature_bits"
    BY <2>1 DEF Num, Raw, Rest
  <2>3. at # 3 => Field.name # "feature_bits"
    BY <2>1 DEF Num, Raw, Text, Rest
  <2>4. Field.name = "feature_bits" => (RestFits <=> Left = 4 + Limit.nonce)
    BY <1>1 DEF RestFits
  <2>5. Field.name # "feature_bits" => RestFits
    BY <1>1 DEF RestFits
  <2> QED BY <1>1, <2>2, <2>3, <2>4, <2>5 DEF RestKnown, WholeAt
<1>2. CASE msg.kind = "AUTH_NODE"
  <2>1. /\ FieldCount(msg) = 3 /\ FieldAt(msg, 1) = Text("node_id")
        /\ FieldAt(msg, 2) = Raw("client_nonce", Limit.nonce)
        /\ FieldAt(msg, 3) = Raw("sign", Limit.sign)
    BY <1>2 DEF FieldCount, FieldAt, Fields, Layout
  <2>2. at = 2 => Field.name = "client_nonce"
    BY <2>1 DEF Num, Raw, Rest
  <2>3. at # 2 => Field.name # "client_nonce"
    BY <2>1 DEF Num, Raw, Text, Rest
  <2>4. Field.name = "client_nonce" => (RestFits <=> Left = Limit.nonce + Limit.sign)
    BY <1>2 DEF RestFits
  <2>5. Field.name # "client_nonce" => RestFits
    BY <1>2 DEF RestFits
  <2> QED BY <1>2, <2>2, <2>3, <2>4, <2>5 DEF RestKnown, WholeAt
<1>3. CASE msg.kind = "AUTH_TAP"
  <2>1. /\ FieldCount(msg) = 4 /\ FieldAt(msg, 1) = Text("username")
        /\ FieldAt(msg, 2) = Text("password")
        /\ FieldAt(msg, 3) = Num("network_id", 4)
        /\ FieldAt(msg, 4) = Raw("client_nonce", Limit.nonce)
    BY <1>3 DEF FieldCount, FieldAt, Fields, Layout
  <2>2. at = 3 => Field.name = "network_id"
    BY <2>1 DEF Num, Raw, Rest
  <2>3. at # 3 => Field.name # "network_id"
    BY <2>1 DEF Num, Raw, Text, Rest
  <2>4. Field.name = "network_id" => (RestFits <=> Left = 4 + Limit.nonce)
    BY <1>3 DEF RestFits
  <2>5. Field.name # "network_id" => RestFits
    BY <1>3 DEF RestFits
  <2> QED BY <1>3, <2>2, <2>3, <2>4, <2>5 DEF RestKnown, WholeAt
<1>4. CASE msg.kind = "CONFIG_PUSH"
  <2>1. /\ FieldCount(msg) = 13 /\ FieldAt(msg, 1) = Num("config_version", 4)
        /\ FieldAt(msg, 2) = Num("network_id", 4)
        /\ FieldAt(msg, 3) = Num("tap_enabled", 1)
        /\ FieldAt(msg, 4) = Num("socks_enabled", 1)
        /\ FieldAt(msg, 5) = Num("direct_enabled", 1)
        /\ FieldAt(msg, 6) = Text("tap_name")
        /\ FieldAt(msg, 7) = Text("bridge_name") /\ FieldAt(msg, 8) = Num("mtu", 2)
        /\ FieldAt(msg, 9) = Num("direct_port", 2)
        /\ FieldAt(msg, 10) = Num("flags", 4)
        /\ FieldAt(msg, 11) = Text("direct_mode")
        /\ FieldAt(msg, 12) = Text("direct_addr")
        /\ FieldAt(msg, 13) = Text("direct_token")
    BY <1>4 DEF FieldCount, FieldAt, Fields, Layout
  <2>2. at = 8 => Field.name = "mtu"
    BY <2>1 DEF Num, Raw, Rest
  <2>3. at # 8 => Field.name # "mtu"
    BY <2>1 DEF Num, Raw, Text, Rest
  <2>4. Field.name = "mtu" => (RestFits <=> Left >= 2 + 2 + 4)
    BY <1>4 DEF RestFits
  <2>5. Field.name # "mtu" => RestFits
    BY <1>4 DEF RestFits
  <2> QED BY <1>4, <2>2, <2>3, <2>4, <2>5 DEF RestKnown, WholeAt
<1>5. CASE msg.kind = "SOCKS_OPEN"
  <2>1. /\ FieldCount(msg) = 3 /\ FieldAt(msg, 1) = Num("stream_id", 4)
        /\ FieldAt(msg, 2) = Text("host") /\ FieldAt(msg, 3) = Num("port", 2)
    BY <1>5 DEF FieldCount, FieldAt, Fields, Layout
  <2>2. at = 3 => Field.name = "port"
    BY <2>1 DEF Num, Raw, Rest
  <2>3. at # 3 => Field.name # "port"
    BY <2>1 DEF Num, Raw, Text, Rest
  <2>4. Field.name = "port" => (RestFits <=> Left = 2)
    BY <1>5 DEF RestFits
  <2>5. Field.name # "port" => RestFits
    BY <1>5 DEF RestFits
  <2> QED BY <1>5, <2>2, <2>3, <2>4, <2>5 DEF RestKnown, WholeAt
<1>6. CASE msg.kind = "TAP_FRAME"
  <2>1. /\ FieldCount(msg) = 3 /\ FieldAt(msg, 1) = Num("network_id", 4)
        /\ FieldAt(msg, 2) = Num("frame_len", 2) /\ FieldAt(msg, 3) = Rest("frame")
    BY <1>6 DEF FieldCount, FieldAt, Fields, Layout
  <2>2. at = 3 => Field.name = "frame"
    BY <2>1 DEF Num, Raw, Rest
  <2>3. at # 3 => Field.name # "frame"
    BY <2>1 DEF Num, Raw, Text, Rest
  <2>4. Field.name = "frame" => (RestFits <=> got.frame_len >= Limit.minFrame /\ Left = got.frame_len)
    BY <1>6 DEF RestFits
  <2>5. Field.name # "frame" => RestFits
    BY <1>6 DEF RestFits
  <2> QED BY <1>6, <2>2, <2>3, <2>4, <2>5 DEF RestKnown, WholeAt
<1>7. CASE msg.kind \in {"AUTH_OK", "SOCKS_DATA", "SOCKS_CLOSE", "SOCKS_CLOSE_REASON"}
  <2>1. RestFits
    BY <1>7 DEF RestFits
  <2> QED BY <1>7, <2>1 DEF RestKnown
<1> QED BY <1>1, <1>2, <1>3, <1>4, <1>5, <1>6, <1>7, LayoutFacts

(* A number that was read is the one that was sent. *)
LEMMA NumberGot ==
    ASSUME Progress, NEW i \in 1 .. at - 1, NEW n, NEW w, FieldAt(msg, i) = Num(n, w)
    PROVE  got[n] = msg.field[n]
<1>1. FieldAt(msg, i).name = n /\ FieldAt(msg, i).as # "rest"
  BY DEF Num
<1>2. got[FieldAt(msg, i).name] = ReadValue(i)
  BY DEF Progress
<1>3. ReadValue(i) = ValueAt(msg, i)
  BY <1>1 DEF ReadValue
<1> QED BY <1>1, <1>2, <1>3 DEF ValueAt

(* Where the rest is held against what is to come, the payload has the      *)
(* length of the whole message or the decoder refuses it.                   *)
LEMMA WholeIs ==
    ASSUME IsMessage(msg), Here, WholeAt(msg.kind, at), Progress, Len(payload) \in Nat,
           Len(Encoding(msg)) = Off(msg, FieldCount(msg))
    PROVE  /\ RestFits => Len(payload) = Len(Encoding(msg))
           /\ ArgumentsOk(msg) /\ Len(payload) = Len(Encoding(msg)) => RestFits
<1>1. RestKnown /\ Placed(msg)
  BY RestFitsIs, PlacedFacts DEF IsMessage
<1>2. Limit.nonce \in Nat /\ Limit.sign \in Nat
  BY FormFacts
<1>3. pos \in Nat /\ pos = Off(msg, at - 1) /\ Left = Len(payload) - pos
  BY DEF Here, Left
<1>4. CASE msg.kind = "HELLO"
  <2>1. FieldCount(msg) = 4 /\ at = 3
    BY <1>4 DEF FieldCount, Fields, Layout, WholeAt
  <2>2. RestFits <=> Left = 4 + Limit.nonce
    BY <1>1, <1>4, <2>1 DEF RestKnown
  <2>3. Len(Encoding(msg)) = pos + 4 + Limit.nonce
    BY <1>1, <1>3, <1>4, <2>1 DEF Placed
  <2> QED BY <1>2, <1>3, <2>2, <2>3
<1>5. CASE msg.kind = "AUTH_NODE"
  <2>1. FieldCount(msg) = 3 /\ at = 2
    BY <1>5 DEF FieldCount, Fields, Layout, WholeAt
  <2>2. RestFits <=> Left = Limit.nonce + Limit.sign
    BY <1>1, <1>5, <2>1 DEF RestKnown
  <2>3. Len(Encoding(msg)) = pos + Limit.nonce + Limit.sign
    BY <1>1, <1>3, <1>5, <2>1 DEF Placed
  <2> QED BY <1>2, <1>3, <2>2, <2>3
<1>6. CASE msg.kind = "AUTH_TAP"
  <2>1. FieldCount(msg) = 4 /\ at = 3
    BY <1>6 DEF FieldCount, Fields, Layout, WholeAt
  <2>2. RestFits <=> Left = 4 + Limit.nonce
    BY <1>1, <1>6, <2>1 DEF RestKnown
  <2>3. Len(Encoding(msg)) = pos + 4 + Limit.nonce
    BY <1>1, <1>3, <1>6, <2>1 DEF Placed
  <2> QED BY <1>2, <1>3, <2>2, <2>3
<1>7. CASE msg.kind = "SOCKS_OPEN"
  <2>1. FieldCount(msg) = 3 /\ at = 3
    BY <1>7 DEF FieldCount, Fields, Layout, WholeAt
  <2>2. RestFits <=> Left = 2
    BY <1>1, <1>7, <2>1 DEF RestKnown
  <2>3. Len(Encoding(msg)) = pos + 2
    BY <1>1, <1>3, <1>7, <2>1 DEF Placed
  <2> QED BY <1>3, <2>2, <2>3
<1>8. CASE msg.kind = "TAP_FRAME"
  <2>1. FieldCount(msg) = 3 /\ at = 3 /\ FieldAt(msg, 2) = Num("frame_len", 2)
        /\ FieldAt(msg, 3) = Rest("frame")
    BY <1>8 DEF FieldAt, FieldCount, Fields, Layout, WholeAt
  <2> DEFINE l == Len(msg.field.frame)
  <2>2. got.frame_len = msg.field.frame_len /\ msg.field.frame_len = l
    <3>1. 2 \in 1 .. at - 1
      BY <2>1
    <3> QED BY <1>8, <2>1, <3>1, NumberGot, MessageFields
  <2>3. RestFits <=> l >= Limit.minFrame /\ Left = l
    BY <1>1, <1>8, <2>1, <2>2 DEF RestKnown
  <2>4. Len(Encoding(msg)) = 6 + l /\ pos = 6
    BY <1>1, <1>3, <1>8, <2>1 DEF Placed
  <2>5. ArgumentsOk(msg) => l >= Limit.minFrame
    BY <1>8, <2>2 DEF ArgumentsOk
  <2>6. l \in Nat
    <3>1. IsField(FieldAt(msg, 3), ValueAt(msg, 3)) /\ ValueAt(msg, 3) = msg.field.frame
      BY <2>1, FieldFacts DEF ValueAt, Rest
    <3>2. msg.field.frame \in Seq(Bytes)
      BY <2>1, <3>1 DEF IsField, Rest
    <3> QED BY <3>2
  <2> HIDE DEF l
  <2> QED BY <1>3, <2>3, <2>4, <2>5, <2>6
<1> QED BY <1>4, <1>5, <1>6, <1>7, <1>8 DEF WholeAt

(* What the CONFIG_PUSH decoder judges are the settings that were sent. *)
LEMMA SettingsSame ==
    ASSUME Progress, msg.kind = "CONFIG_PUSH", at \in Nat, at >= 9
    PROVE  SettingsOk <=> Settings(msg)
<1>1. FieldAt(msg, 2) = Num("network_id", 4) /\ FieldAt(msg, 8) = Num("mtu", 2)
  BY DEF FieldAt, Fields, Layout
<1>2. 2 \in 1 .. at - 1 /\ 8 \in 1 .. at - 1
  OBVIOUS
<1>3. got.network_id = msg.field.network_id /\ got.mtu = msg.field.mtu
  BY <1>1, <1>2, NumberGot
<1> QED BY <1>3 DEF SettingsOk, Settings

(* The first checks look at the header and the length only. *)
LEMMA SameTaken ==
    ASSUME msg' = msg, hdr' = hdr, payload' = payload
    PROVE  Taken' = Taken
  BY DEF Taken

(* A number, an array or the rest is read as it was sent. *)
LEMMA ReadNumberStep ==
    ASSUME CodecInv, Written, Arrived, Judging, ReadNumber
    PROVE  Judging'
<1>1. pc = "DECODE" /\ pc' = "DECODE" /\ at <= DecodedCount /\ Taken /\ Progress /\ RestFits
  BY DEF ReadNumber, Reads, Judging, DecodedCount
<1>2. pc \in Received
  BY <1>1 DEF Received
<1>3. IsMessage(msg) /\ payload \in Seq(Bytes) /\ Len(payload) \in Nat /\ Agrees(msg) /\ DecodedAlike
  BY <1>2, ArrivedFacts
<1>4. Len(Encoding(msg)) = Off(msg, FieldCount(msg))
  BY <1>2, ArrivedFacts
<1>5. Here
  BY <1>1, <1>3, HereFacts
<1>6. at \in 1 .. FieldCount(msg) /\ Field = FieldAt(msg, at) /\ pos = Off(msg, at - 1) /\ pos \in Nat
  BY <1>5 DEF Here
<1>7. Left = Len(payload) - pos /\ Left \in Int
  BY <1>3, <1>6 DEF Left
<1>8. Field.as \in {"num", "raw"} => Field.size \in Nat /\ Field.size <= Left
  <2>1. msg.kind \in Kinds /\ at \in Nat \ {0} /\ at <= Len(Fields(DecodedAs))
    BY <1>1, <1>3, <1>6, FieldFacts DEF IsMessage, DecodedCount, CodecInv, CodecType
  <2>2. Left >= Needs(DecodedAs)[at]
    BY <1>1, <2>1 DEF CodecInv, Inside
  <2> QED BY <1>1, <1>7, <2>1, <2>2, EnoughFollows
<1>9. Met(at)
  <2>1. Field.as # "text"
    BY DEF ReadNumber
  <2>2. ~(msg.kind = "CONFIG_PUSH" /\ at = 11)
    <3> SUFFICES ASSUME msg.kind = "CONFIG_PUSH", at = 11 PROVE FALSE
      OBVIOUS
    <3>1. FieldAt(msg, 11) = Text("direct_mode")
      BY DEF FieldAt, Fields, Layout
    <3> QED BY <1>6, <2>1, <3>1 DEF Text
  <2>3. WholeAt(msg.kind, at) => Len(payload) = Len(Encoding(msg))
    BY <1>1, <1>3, <1>4, <1>5, WholeIs
  <2> QED BY <1>6, <2>1, <2>2, <2>3 DEF Met
<1>10. got' = [got EXCEPT ![FieldAt(msg, at).name] = ReadValue(at)]
       /\ (FieldAt(msg, at).as # "rest" => pos' = Off(msg, at))
  <2>1. CASE Field.as = "num"
    <3>1. Get(BytesAt(pos, Field.size)) = ValueAt(msg, at) /\ Off(msg, at) = pos + Field.size
      BY <1>3, <1>6, <1>7, <1>8, <2>1, PlainRead
    <3>2. got' = [got EXCEPT ![Field.name] = Get(BytesAt(pos, Field.size))] /\ pos' = pos + Field.size
      BY <2>1 DEF ReadNumber, Reads
    <3> QED BY <1>6, <2>1, <3>1, <3>2 DEF ReadValue
  <2>2. CASE Field.as = "raw"
    <3>1. BytesAt(pos, Field.size) = ValueAt(msg, at) /\ Off(msg, at) = pos + Field.size
      BY <1>3, <1>6, <1>7, <1>8, <2>2, PlainRead
    <3>2. got' = [got EXCEPT ![Field.name] = BytesAt(pos, Field.size)] /\ pos' = pos + Field.size
      BY <2>2 DEF ReadNumber, Reads
    <3> QED BY <1>6, <2>2, <3>1, <3>2 DEF ReadValue
  <2>3. CASE Field.as = "rest"
    <3>1. got' = [got EXCEPT ![Field.name] = BytesAt(pos, Left)]
      BY <2>3 DEF ReadNumber, Reads
    <3> QED BY <1>6, <1>7, <2>3, <3>1 DEF ReadValue
  <2> QED BY <2>1, <2>2, <2>3 DEF ReadNumber
<1>11. msg' = msg /\ payload' = payload /\ hdr' = hdr /\ at' = at + 1
  BY DEF ReadNumber, Reads
<1>12. Progress'
  BY <1>1, <1>3, <1>9, <1>10, <1>11, Advance
<1>13. Taken'
  BY <1>1, <1>11, SameTaken
<1> QED BY <1>1, <1>12, <1>13 DEF Judging

(* A text is read as it was sent. *)
LEMMA ReadTextStep ==
    ASSUME CodecInv, Written, Arrived, Judging, ReadText
    PROVE  Judging'
<1>1. /\ pc = "DECODE" /\ pc' = "DECODE" /\ at <= DecodedCount /\ Taken /\ Progress
      /\ Field.as = "text" /\ TextFits /\ (AtDirectFields => SettingsOk)
  BY DEF ReadText, Reads, Judging, DecodedCount
<1>2. pc \in Received
  BY <1>1 DEF Received
<1>3. IsMessage(msg) /\ payload \in Seq(Bytes) /\ Len(payload) \in Nat /\ Agrees(msg) /\ DecodedAlike
  BY <1>2, ArrivedFacts
<1>4. TextsCarried(msg)
  BY <1>2, ArrivedFacts
<1>5. Here
  BY <1>1, <1>3, HereFacts
<1>6. at \in 1 .. FieldCount(msg) /\ Field = FieldAt(msg, at) /\ pos = Off(msg, at - 1) /\ pos \in Nat
  BY <1>5 DEF Here
<1>7. Left = Len(payload) - pos /\ Left \in Int
  BY <1>3, <1>6 DEF Left
<1> DEFINE v == ValueAt(msg, at)
           n == Get(BytesAt(pos, 2))
<1>8. Len(v) <= TextMax /\ Len(v) \in Nat
  <2>1. IsField(FieldAt(msg, at), v)
    BY <1>3, <1>6, FieldFacts
  <2>2. v \in Seq(Bytes)
    BY <1>1, <1>6, <2>1 DEF IsField
  <2> QED BY <1>1, <1>4, <1>6, <2>2 DEF TextsCarried
<1>9. Left >= 2 /\ Left >= 2 + n /\ n < Field.size
  BY <1>1 DEF TextFits
<1> HIDE DEF v, n
<1>10. pos + 2 <= Len(payload)
  BY <1>3, <1>6, <1>7, <1>9
<1>11. /\ n = Len(v) /\ Off(msg, at) = pos + 2 + Len(v)
       /\ Off(msg, at) <= Len(payload) => BytesAt(pos + 2, Len(v)) = v
  BY <1>1, <1>3, <1>6, <1>8, <1>10, TextRead DEF v, n
<1>12. BytesAt(pos + 2, n) = v /\ Off(msg, at) = pos + (2 + n)
  <2>1. Off(msg, at) <= Len(payload) /\ Off(msg, at) = pos + (2 + n)
    BY <1>3, <1>6, <1>7, <1>8, <1>9, <1>11
  <2> QED BY <1>11, <2>1
<1>13. got' = [got EXCEPT ![FieldAt(msg, at).name] = ReadValue(at)] /\ pos' = Off(msg, at)
  <2>1. got' = [got EXCEPT ![Field.name] = BytesAt(pos + 2, n)] /\ pos' = pos + (2 + n)
    BY DEF ReadText, Reads, n
  <2>2. ReadValue(at) = v
    BY <1>1, <1>6 DEF ReadValue, v
  <2> QED BY <1>6, <1>12, <2>1, <2>2
<1>14. Met(at)
  <2>1. Len(ValueAt(msg, at)) < FieldAt(msg, at).size
    BY <1>6, <1>9, <1>11 DEF v
  <2>2. msg.kind = "CONFIG_PUSH" /\ at = 11 => Settings(msg)
    <3> SUFFICES ASSUME msg.kind = "CONFIG_PUSH", at = 11 PROVE Settings(msg)
      OBVIOUS
    <3>1. FieldAt(msg, 11) = Text("direct_mode")
      BY DEF FieldAt, Fields, Layout
    <3>2. AtDirectFields
      BY <1>6, <3>1 DEF AtDirectFields, Text
    <3> QED BY <1>1, <3>2, SettingsSame
  <2>3. ~WholeAt(msg.kind, at)
    BY <1>1, <1>6 DEF WholeAt, FieldAt, Fields, Layout, Num, Raw, Text, Rest
  <2> QED BY <2>1, <2>2, <2>3 DEF Met
<1>15. msg' = msg /\ payload' = payload /\ hdr' = hdr /\ at' = at + 1
  BY DEF ReadText, Reads
<1>16. Progress'
  BY <1>1, <1>3, <1>13, <1>14, <1>15, Advance
<1>17. Taken'
  BY <1>1, <1>15, SameTaken
<1> QED BY <1>1, <1>16, <1>17 DEF Judging

(* What was known of a payload stays known when the verdict falls. *)
LEMMA SameJudgement ==
    ASSUME UNCHANGED <<msg, at, hdr, payload, pos, got>>
    PROVE  /\ Taken' = Taken /\ Progress' = Progress
           /\ AcceptedBy' = AcceptedBy /\ RefusedBy' = RefusedBy
           /\ DecodedAs' = DecodedAs
<1>1. DecodedAs' = DecodedAs
  BY DEF DecodedAs
<1>2. /\ DecodedCount' = DecodedCount
      /\ \A i : Met(i)' = Met(i) /\ ReadValue(i)' = ReadValue(i)
  BY SameReading
<1>3. Taken' = Taken
  BY SameTaken
<1>4. Progress' = Progress
  BY <1>1, <1>2 DEF Progress
<1>5. Field' = Field /\ Left' = Left /\ BytesAt(pos, 2)' = BytesAt(pos, 2) /\ SettingsOk' = SettingsOk
  BY <1>1 DEF Field, Left, BytesAt, SettingsOk
<1>6. RestFits' = RestFits /\ TextFits' = TextFits /\ AtDirectFields' = AtDirectFields
      /\ NothingLeft' = NothingLeft /\ ValuesOk' = ValuesOk
  <2>1. RestFits' = RestFits
    BY <1>5 DEF RestFits
  <2>2. TextFits' = TextFits
    BY <1>5 DEF TextFits
  <2>3. AtDirectFields' = AtDirectFields /\ NothingLeft' = NothingLeft
    BY <1>5 DEF AtDirectFields, NothingLeft
  <2>4. ValuesOk' = ValuesOk
    BY <1>5 DEF ValuesOk
  <2> QED BY <2>1, <2>2, <2>3, <2>4
<1>7. AcceptedBy' = AcceptedBy
  BY <1>2, <1>5, <1>6 DEF AcceptedBy
<1>8. RefusedBy' = RefusedBy
  BY <1>2, <1>5, <1>6 DEF RefusedBy
<1> QED BY <1>1, <1>3, <1>4, <1>7, <1>8

(* The decoder starts with nothing read. *)
LEMMA ReceiveStep ==
    ASSUME CodecInv, Written, Arrived, Receive
    PROVE  Judging'
<1> USE DEF Receive
<1>1. msg' = msg /\ hdr' = hdr /\ payload' = payload /\ pc' \in {"DECODE", "REFUSED"}
  OBVIOUS
<1>2. DecodedAs' = DecodedAs
  BY DEF DecodedAs
<1>3. Taken' = Taken
  BY <1>1, SameTaken
<1>4. pc' = "DECODE" <=> Taken
  BY DEF Taken
<1>5. got' = Zeroed(DecodedAs)'
  BY <1>2
<1>6. ASSUME pc' = "DECODE" PROVE Progress'
  <2>1. at' = 1 /\ pos' = 0
    OBVIOUS
  <2>2. DecodedAlike
    <3>1. pc \in Received
      BY DEF Received
    <3> QED BY <3>1, ArrivedFacts
  <2>3. DecodedCount' = DecodedCount /\ DecodedCount \in Nat /\ DecodedCount >= 1
    BY <1>2, <2>2 DEF DecodedCount, DecodedAlike
  <2>4. at' \in 1 .. (DecodedCount + 1)'
    BY <2>1, <2>3
  <2>5. pos' = Off(msg', at' - 1)
    <3>1. IsMessage(msg)
      BY MessagesAssumption DEF CodecInv, CodecType
    <3>2. Off(msg, 0) = 0
      BY <3>1, LaidOut DEF Laid
    <3>3. at' - 1 = 0
      BY <2>1
    <3> QED BY <2>1, <3>2, <3>3
  <2>6. got' = [f \in DOMAIN Zeroed(DecodedAs)' |-> got'[f]]
    <3>1. Zeroed(DecodedAs) = [f \in DOMAIN Zeroed(DecodedAs) |-> Zeroed(DecodedAs)[f]]
      <4>1. CASE DecodedAs = "SOCKS_CLOSE"
        BY <4>1 DEF Zeroed
      <4>2. CASE DecodedAs # "SOCKS_CLOSE"
        BY <4>2 DEF Zeroed
      <4> QED BY <4>1, <4>2
    <3> QED BY <1>2, <1>5, <3>1
  <2>7. \A i \in 1 .. at' - 1 : FALSE
    BY <2>1
  <2>8. \A f : got'[f] = Zeroed(DecodedAs)'[f]
    BY <1>5
  <2> QED BY <2>4, <2>5, <2>6, <2>7, <2>8 DEF Progress
<1> QED BY <1>1, <1>3, <1>4, <1>5, <1>6 DEF Judging

(* Each step keeps what is known of the reading. *)
LEMMA JudgingStep == CodecInv /\ Written /\ Arrived /\ Judging /\ [Next]_vars => Judging'
<1> SUFFICES ASSUME CodecInv, Written, Arrived, Judging, [Next]_vars PROVE Judging'
  OBVIOUS
<1>1. ASSUME NEW m \in Messages, Start(m) PROVE Judging'
  BY <1>1 DEF Start, Judging
<1>2. ASSUME NEW memory \in BOOLEAN, AppendPiece(memory) \/ AppendPieceFails(memory) PROVE Judging'
  BY <1>2 DEF AppendPiece, AppendPieceFails, Judging
<1>3. ASSUME Finish \/ Deliver PROVE Judging'
  BY <1>3 DEF Finish, Deliver, Judging
<1>4. ASSUME Receive PROVE Judging'
  BY <1>4, ReceiveStep
<1>5. ASSUME ReadNumber PROVE Judging'
  BY <1>5, ReadNumberStep
<1>6. ASSUME ReadText PROVE Judging'
  BY <1>6, ReadTextStep
<1>7. ASSUME Refuse PROVE Judging'
  <2>1. Taken /\ Progress /\ RefusedBy /\ pc' = "REFUSED"
    BY <1>7 DEF Refuse, Judging, RefusedBy, DecodedCount
  <2>2. UNCHANGED <<msg, at, hdr, payload, pos, got>>
    BY <1>7 DEF Refuse
  <2> QED BY <2>1, <2>2, SameJudgement DEF Judging
<1>8. ASSUME Decoded PROVE Judging'
  <2>1. Taken /\ Progress
    BY <1>8 DEF Decoded, Judging
  <2>2. (pc' = "ACCEPTED" /\ AcceptedBy) \/ (pc' = "REFUSED" /\ RefusedBy)
    BY <1>8 DEF Decoded, AcceptedBy, RefusedBy, DecodedCount
  <2>3. UNCHANGED <<msg, at, hdr, payload, pos, got>>
    BY <1>8 DEF Decoded
  <2> QED BY <2>1, <2>2, <2>3, SameJudgement DEF Judging
<1>9. ASSUME UNCHANGED vars PROVE Judging'
  <2>1. UNCHANGED <<msg, at, hdr, payload, pos, got>> /\ pc' = pc
    BY <1>9 DEF vars
  <2>2. Zeroed(DecodedAs)' = Zeroed(DecodedAs)
    BY <2>1, SameJudgement
  <2> QED BY <2>1, <2>2, SameJudgement DEF Judging
<1> QED BY <1>1, <1>2, <1>3, <1>4, <1>5, <1>6, <1>7, <1>8, <1>9 DEF Next

LEMMA TripStart == Init => TripInv
<1> SUFFICES ASSUME Init PROVE TripInv
  OBVIOUS
<1>1. CodecInv
  BY CodecInit
<1>2. pc = "IDLE"
  BY DEF Init
<1> QED BY <1>1, <1>2 DEF TripInv, Written, Arrived, Judging, Encoded, Received

LEMMA TripStep == TripInv /\ [Next]_vars => TripInv'
  BY CodecStep, WrittenStep, ArrivedStep, JudgingStep DEF TripInv

LEMMA TripHolds == Spec => []TripInv
  BY TripStart, TripStep, PTL DEF Spec

-----------------------------------------------------------------------------
(* The verdicts. *)
LEMMA WholeLengthOk ==
    ASSUME NEW m, IsMessage(m), ArgumentsOk(m)
    PROVE  LengthOk(m.kind, Len(Encoding(m)))
<1> DEFINE n == Len(Encoding(m))
           c == FieldCount(m)
<1>1. Placed(m) /\ m.kind \in Kinds
  BY PlacedFacts DEF IsMessage
<1>2. n = Off(m, c) /\ n \in Nat /\ \A i, j \in 0 .. c : i <= j => Off(m, i) <= Off(m, j)
  <2>1. c \in 0 .. c
    BY FieldFacts
  <2> QED BY <2>1, LaidOut DEF Laid
<1>3. \A i \in 0 .. c : Off(m, i) \in Nat
  BY LaidOut DEF Laid
<1> HIDE DEF n
<1>4. CASE m.kind = "HELLO"
  <2>1. c = 4
    BY <1>4 DEF FieldCount, Fields, Layout
  <2>2. Off(m, 1) = 1
    BY <1>1, <1>4 DEF Placed
  <2>3. 1 <= Off(m, 4)
    BY <1>2, <2>1, <2>2
  <2> QED BY <1>2, <1>4, <2>1, <2>3 DEF LengthOk, n
<1>5. CASE m.kind = "AUTH_NODE" \/ m.kind = "AUTH_TAP"
  BY <1>5 DEF LengthOk
<1>6. CASE m.kind = "AUTH_OK"
  <2>1. c = 4
    BY <1>6 DEF FieldCount, Fields, Layout
  <2>2. Off(m, 4) = 20
    BY <1>1, <1>6 DEF Placed
  <2> QED BY <1>2, <1>6, <2>1, <2>2 DEF LengthOk, n
<1>7. CASE m.kind = "CONFIG_PUSH"
  <2>1. c = 13
    BY <1>7 DEF FieldCount, Fields, Layout
  <2>2. Off(m, 7) >= 15 /\ Off(m, 10) = Off(m, 7) + 8
    BY <1>1, <1>7 DEF Placed
  <2>3. Off(m, 10) <= Off(m, 13) /\ Off(m, 7) \in Nat /\ Off(m, 13) \in Nat
    BY <1>2, <1>3, <2>1
  <2>4. n >= 4 + 4 + 3 + 2 + 2 + 4
    BY <1>2, <2>1, <2>2, <2>3
  <2> QED BY <1>7, <2>4 DEF LengthOk, n
<1>8. CASE m.kind = "TAP_FRAME"
  <2>1. c = 3
    BY <1>8 DEF FieldCount, Fields, Layout
  <2>2. Off(m, 2) = 6
    BY <1>1, <1>8 DEF Placed
  <2>3. 6 <= Off(m, 3)
    BY <1>2, <2>1, <2>2
  <2> QED BY <1>2, <1>8, <2>1, <2>3 DEF LengthOk, n
<1>9. CASE m.kind = "SOCKS_OPEN"
  <2>1. c = 3
    BY <1>9 DEF FieldCount, Fields, Layout
  <2>2. Off(m, 3) = Off(m, 2) + 2 /\ Off(m, 2) >= 6
    BY <1>1, <1>9 DEF Placed
  <2>3. Off(m, 2) \in Nat
    BY <1>3, <2>1
  <2>4. n >= 4 + 2 + 2
    BY <1>2, <2>1, <2>2, <2>3
  <2> QED BY <1>9, <2>4 DEF LengthOk, n
<1>10. CASE m.kind = "SOCKS_DATA"
  <2>1. c = 2
    BY <1>10 DEF FieldCount, Fields, Layout
  <2> DEFINE l == Len(m.field.data)
  <2>2. n = 4 + l
    BY <1>1, <1>2, <1>10, <2>1 DEF Placed
  <2>3. l \in 1 .. Limit.socks - 4 /\ Limit.socks \in Nat
    BY <1>10, LimitFacts DEF ArgumentsOk, LimitNames
  <2> HIDE DEF l
  <2>4. n > 4 /\ n <= Limit.socks
    BY <2>2, <2>3
  <2> QED BY <1>10, <2>4 DEF LengthOk, n
<1>11. CASE m.kind = "SOCKS_CLOSE"
  <2>1. c = 1
    BY <1>11 DEF FieldCount, Fields, Layout
  <2>2. Off(m, 1) = 4
    BY <1>1, <1>11 DEF Placed
  <2> QED BY <1>2, <1>11, <2>1, <2>2 DEF LengthOk, n
<1>12. CASE m.kind = "SOCKS_CLOSE_REASON"
  <2>1. c = 3
    BY <1>12 DEF FieldCount, Fields, Layout
  <2>2. Off(m, 3) = 8
    BY <1>1, <1>12 DEF Placed
  <2> QED BY <1>2, <1>12, <2>1, <2>2 DEF LengthOk, n
<1> QED BY <1>1, <1>4, <1>5, <1>6, <1>7, <1>8, <1>9, <1>10, <1>11, <1>12, LayoutFacts

(* All fields read are the whole message; of the short form of SOCKS_CLOSE  *)
(* the reader fills in what is not sent.                                    *)
LEMMA GotAll ==
    ASSUME IsMessage(msg), DecodedAlike, Progress, at = FieldCount(msg) + 1,
           DecodedAs = msg.kind, msg.kind # "SOCKS_CLOSE",
           \A i \in 1 .. FieldCount(msg) : ReadValue(i) = ValueAt(msg, i)
    PROVE  got = msg.field
<1>1. DOMAIN Fields(msg.kind) = 1 .. FieldCount(msg) /\ FieldCount(msg) \in Nat
  BY FieldFacts
<1>2. DOMAIN Zeroed(DecodedAs) = Names(msg.kind)
  BY DEF Zeroed
<1>3. got = [f \in Names(msg.kind) |-> got[f]]
  BY <1>2 DEF Progress
<1>4. msg.field = [f \in Names(msg.kind) |-> msg.field[f]]
  BY DEF IsMessage
<1>5. at - 1 = FieldCount(msg)
  BY <1>1
<1>6. ASSUME NEW f \in Names(msg.kind) PROVE got[f] = msg.field[f]
  <2>1. PICK i \in 1 .. FieldCount(msg) : f = FieldAt(msg, i).name
    BY <1>1 DEF Names, FieldAt
  <2>2. got[FieldAt(msg, i).name] = ReadValue(i)
    BY <1>5 DEF Progress
  <2> QED BY <2>1, <2>2 DEF ValueAt
<1> QED BY <1>3, <1>4, <1>6

(* Of a SOCKS_CLOSE only the stream is sent; the reader fills in the others. *)
LEMMA GotClose ==
    ASSUME DecodedAlike, Progress, at = 2, DecodedAs = "SOCKS_CLOSE"
    PROVE  got = [stream_id |-> msg.field.stream_id, reason_code |-> RemoteClosed, flags |-> 0]
<1>1. FieldAt(msg, 1) = Num("stream_id", 4) /\ Fields("SOCKS_CLOSE")[1] = Num("stream_id", 4)
  <2>1. Fields("SOCKS_CLOSE")[1] = Num("stream_id", 4)
    BY DEF Fields, Layout
  <2>2. 1 \in 1 .. DecodedCount
    BY DEF DecodedAlike
  <2> QED BY <2>1, <2>2 DEF DecodedAlike
<1>2. 1 \in 1 .. at - 1 /\ \A i \in 1 .. at - 1 : i = 1
  OBVIOUS
<1>3. got.stream_id = msg.field.stream_id
  BY <1>1, <1>2, NumberGot
<1>4. Zeroed(DecodedAs) = [stream_id |-> 0, reason_code |-> RemoteClosed, flags |-> 0]
  BY DEF Zeroed
<1>5. FieldAt(msg, 1).name = "stream_id"
  BY <1>1 DEF Num
<1>6. got.reason_code = RemoteClosed /\ got.flags = 0
  <2>1. "reason_code" \in DOMAIN Zeroed(DecodedAs) /\ "flags" \in DOMAIN Zeroed(DecodedAs)
    BY <1>4
  <2>2. \A i \in 1 .. at - 1 : FieldAt(msg, i).name # "reason_code" /\ FieldAt(msg, i).name # "flags"
    BY <1>2, <1>5
  <2>3. got["reason_code"] = Zeroed(DecodedAs)["reason_code"] /\ got["flags"] = Zeroed(DecodedAs)["flags"]
    BY <2>1, <2>2 DEF Progress
  <2> QED BY <1>4, <2>3
<1>7. got = [f \in {"stream_id", "reason_code", "flags"} |-> got[f]]
  BY <1>4 DEF Progress
<1> QED BY <1>3, <1>6, <1>7

(* From the whole message each value is read as it was sent. *)
LEMMA ReadWhole ==
    ASSUME IsMessage(msg), payload = Encoding(msg), payload \in Seq(Bytes), Agrees(msg),
           NEW i \in 1 .. FieldCount(msg)
    PROVE  ReadValue(i) = ValueAt(msg, i)
<1>1. CASE FieldAt(msg, i).as # "rest"
  BY <1>1 DEF ReadValue
<1>2. CASE FieldAt(msg, i).as = "rest"
  <2> DEFINE v == ValueAt(msg, i)
             p == Off(msg, i - 1)
             w == Len(v)
  <2>1. i = FieldCount(msg) /\ FieldCount(msg) \in Nat
    BY <1>2, RestIsLast, FieldFacts DEF RestLast, IsMessage
  <2>2. IsForm(FieldAt(msg, i)) /\ IsField(FieldAt(msg, i), v)
    BY FieldFacts
  <2>3. v \in Seq(Bytes) /\ SectionAt(msg, i) = v
    BY <1>2, <2>2, SectionFacts DEF IsField, SectionAt
  <2>4. w \in Nat
    BY <2>3
  <2>5. p \in Nat /\ Len(payload) = Off(msg, i) /\ Off(msg, i) = p + Len(SectionAt(msg, i))
    <3>1. i - 1 \in 0 .. FieldCount(msg)
      BY <2>1
    <3> QED BY <2>1, <3>1, LaidOut DEF Laid
  <2>6. Len(payload) = p + w
    BY <2>3, <2>5
  <2> DEFINE x == 0
  <2>7. x \in Nat /\ x + w <= Len(SectionAt(msg, i)) /\ p + x + w <= Len(payload)
    BY <2>3, <2>4, <2>5, <2>6
  <2> HIDE DEF x, w
  <2>8. BytesAt(p + x, w) = [j \in 1 .. w |-> SectionAt(msg, i)[x + j]]
    BY <2>4, <2>7, SectionRead
  <2>9. p + x = p /\ \A j \in 1 .. w : x + j = j
    BY <2>4, <2>5 DEF x
  <2>10. BytesAt(p, w) = [j \in 1 .. w |-> v[j]]
    BY <2>3, <2>8, <2>9
  <2>11. v = [j \in 1 .. w |-> v[j]]
    BY <2>3 DEF w
  <2>12. Len(payload) - p = w
    BY <2>4, <2>5, <2>6
  <2> QED BY <1>2, <2>10, <2>11, <2>12 DEF ReadValue
<1> QED BY <1>1, <1>2

(* A verdict on the whole message. *)
Whole ==
    /\ IsMessage(msg) /\ ArgumentsOk(msg) /\ TextsCarried(msg) /\ DecodedAlike
    /\ payload = Encoding(msg) /\ payload \in Seq(Bytes) /\ Agrees(msg)
    /\ Len(payload) = Off(msg, FieldCount(msg)) /\ Len(payload) \in Nat
    /\ DecodedAs = msg.kind /\ DecodedCount = FieldCount(msg) /\ FieldCount(msg) \in Nat
    /\ \A i, j \in 0 .. FieldCount(msg) : i <= j => Off(msg, i) <= Off(msg, j)
    /\ Taken <=> LengthAllowed(TypeOf[msg.kind], Len(payload))

LEMMA WholeFacts ==
    ASSUME TripInv, Judged, payload = out, hdr = HdrEncode(TrueHdr(Len(out)))
    PROVE  Whole
<1>1. pc \in Received /\ CodecInv /\ Written /\ Arrived
  BY DEF Judged, Received, TripInv
<1>2. IsMessage(msg) /\ ArgumentsOk(msg) /\ TextsCarried(msg) /\ DecodedAlike /\ Agrees(msg)
  BY <1>1, ArrivedFacts
<1>3. payload = Encoding(msg) /\ payload \in Seq(Bytes)
  BY <1>1, ArrivedFacts
<1>4. Len(payload) = Off(msg, FieldCount(msg)) /\ Len(payload) \in Nat /\ Len(payload) <= Cap
  BY <1>1, <1>3, ArrivedFacts
<1>5. DecodedAs = msg.kind
  <2>1. CASE msg.kind = "SOCKS_CLOSE"
    <3>1. Len(payload) # 8
      <4>1. FieldCount(msg) = 1
        BY <2>1 DEF FieldCount, Fields, Layout
      <4>2. Off(msg, 1) = 4
        BY <1>2, <2>1, PlacedFacts DEF Placed
      <4> QED BY <1>4, <4>1, <4>2
    <3> QED BY <2>1, <3>1 DEF DecodedAs
  <2>2. CASE msg.kind = "SOCKS_CLOSE_REASON"
    <3>1. Len(payload) = 8
      <4>1. FieldCount(msg) = 3
        BY <2>2 DEF FieldCount, Fields, Layout
      <4>2. Off(msg, 3) = 8
        BY <1>2, <2>2, PlacedFacts DEF Placed
      <4> QED BY <1>4, <4>1, <4>2
    <3> QED BY <2>2, <3>1 DEF DecodedAs
  <2>3. CASE msg.kind \notin {"SOCKS_CLOSE", "SOCKS_CLOSE_REASON"}
    BY <2>3 DEF DecodedAs
  <2> QED BY <2>1, <2>2, <2>3
<1>6. DecodedCount = FieldCount(msg)
  BY <1>5 DEF DecodedCount, FieldCount
<1>7. FieldCount(msg) \in Nat /\ \A i, j \in 0 .. FieldCount(msg) : i <= j => Off(msg, i) <= Off(msg, j)
  BY <1>2, FieldFacts, LaidOut DEF Laid
<1>8. Taken <=> LengthAllowed(TypeOf[msg.kind], Len(payload))
  <2> DEFINE n == Len(payload)
             h == HdrDecode(HdrEncode(TrueHdr(n)))
  <2>1. LengthOk(msg.kind, n)
    BY <1>2, <1>3, WholeLengthOk
  <2>2. n \in 0 .. Cap + 1
    BY <1>4, CapAssumption
  <2>3. msg.kind \in Kinds
    BY <1>2 DEF IsMessage
  <2>4. HdrOk(h) /\ h.type = TypeOf[msg.kind] /\ h.length = n
    BY <2>2, <2>3, TrueHdrTaken
  <2>5. HdrDecode(hdr) = h
    OBVIOUS
  <2> HIDE DEF h, n
  <2> QED BY <2>1, <2>4, <2>5 DEF Taken, n
<1> QED BY <1>2, <1>3, <1>4, <1>5, <1>6, <1>7, <1>8 DEF Whole

(* The names of CONFIG_PUSH, and where its direct fields begin. *)
LEMMA ConfigFields ==
    ASSUME NEW m, m.kind = "CONFIG_PUSH"
    PROVE  /\ FieldCount(m) = 13
           /\ FieldAt(m, 1) = Num("config_version", 4) /\ FieldAt(m, 2) = Num("network_id", 4)
           /\ FieldAt(m, 3) = Num("tap_enabled", 1) /\ FieldAt(m, 4) = Num("socks_enabled", 1)
           /\ FieldAt(m, 5) = Num("direct_enabled", 1) /\ FieldAt(m, 6) = Text("tap_name")
           /\ FieldAt(m, 7) = Text("bridge_name") /\ FieldAt(m, 8) = Num("mtu", 2)
           /\ FieldAt(m, 9) = Num("direct_port", 2) /\ FieldAt(m, 10) = Num("flags", 4)
           /\ FieldAt(m, 11) = Text("direct_mode") /\ FieldAt(m, 12) = Text("direct_addr")
           /\ FieldAt(m, 13) = Text("direct_token")
  BY DEF FieldCount, FieldAt, Fields, Layout

LEMMA DirectNames ==
    ASSUME NEW m, m.kind = "CONFIG_PUSH", NEW i \in 1 .. 13
    PROVE  /\ FieldAt(m, i).name = "direct_mode" <=> i = 11
           /\ FieldAt(m, i).name \in DirectFields <=> i >= 11
           /\ FieldAt(m, i).name \in {"tap_name", "bridge_name"} <=> i = 6 \/ i = 7
           /\ FieldAt(m, i).as = "text" => i \in {6, 7, 11, 12, 13}
           /\ FieldAt(m, i).as # "text" => FieldAt(m, i).as = "num" /\ i <= 10
<1>1. i \in 1 .. 5 \/ i = 6 \/ i = 7 \/ i \in 8 .. 10 \/ i \in 11 .. 13
  OBVIOUS
<1>2. CASE i \in 1 .. 5
  BY <1>2, ConfigFields DEF Num, DirectFields
<1>3. CASE i = 6 \/ i = 7
  BY <1>3, ConfigFields DEF Text, DirectFields
<1>4. CASE i \in 8 .. 10
  BY <1>4, ConfigFields DEF Num, DirectFields
<1>5. CASE i \in 11 .. 13
  BY <1>5, ConfigFields DEF Text, DirectFields
<1> QED BY <1>1, <1>2, <1>3, <1>4, <1>5

(* The texts of a message, by name and by place. *)
LEMMA ShortTexts ==
    ASSUME NEW m, IsMessage(m), NEW names
    PROVE  TextsShort(m, names) <=>
             \A i \in 1 .. FieldCount(m) :
                FieldAt(m, i).as = "text" /\ FieldAt(m, i).name \in names =>
                  Len(ValueAt(m, i)) < FieldAt(m, i).size
<1>1. DOMAIN Fields(m.kind) = 1 .. FieldCount(m)
  BY FieldFacts
<1> QED BY <1>1 DEF TextsShort, FieldAt, ValueAt

LEMMA AllShort ==
    ASSUME NEW m, IsMessage(m)
    PROVE  TextsShort(m, Names(m.kind)) <=>
             \A i \in 1 .. FieldCount(m) :
                FieldAt(m, i).as = "text" => Len(ValueAt(m, i)) < FieldAt(m, i).size
<1>1. DOMAIN Fields(m.kind) = 1 .. FieldCount(m)
  BY FieldFacts
<1>2. \A i \in 1 .. FieldCount(m) : FieldAt(m, i).name \in Names(m.kind)
  BY <1>1 DEF FieldAt, Names
<1> QED BY <1>2, ShortTexts

(* The direct fields of a whole CONFIG_PUSH are never missed. *)
LEMMA NothingMissed ==
    ASSUME Whole, Progress, at <= DecodedCount, AtDirectFields
    PROVE  ~NothingLeft
<1>1. IsMessage(msg) /\ DecodedAlike /\ msg.kind = "CONFIG_PUSH" /\ Field.name = "direct_mode"
  BY DEF Whole, AtDirectFields
<1>2. Here
  BY <1>1, HereFacts
<1>3. FieldCount(msg) = 13
  BY <1>1 DEF FieldCount, Fields, Layout
<1>4. at = 11
  <2>1. at \in 1 .. 13 /\ FieldAt(msg, at).name = "direct_mode"
    BY <1>1, <1>2, <1>3 DEF Here
  <2> QED BY <1>1, <2>1, DirectNames
<1>5. pos = Off(msg, 10)
  BY <1>2, <1>4 DEF Here
<1>6. Off(msg, 11) >= Off(msg, 10) + 2
  BY <1>1, PlacedFacts DEF Placed
<1>7. Off(msg, 11) <= Len(payload) /\ Len(payload) \in Nat
  BY <1>3 DEF Whole
<1>8. Off(msg, 10) \in Nat /\ Off(msg, 11) \in Nat
  BY <1>1, <1>3, LaidOut DEF Laid
<1> QED BY <1>5, <1>6, <1>7, <1>8 DEF NothingLeft, Left

(* A whole message that is accepted is one to be read, and is what was sent. *)
LEMMA AcceptedWhole ==
    ASSUME Whole, Taken, Progress, AcceptedBy
    PROVE  Readable(msg) /\ got = Meaning(msg)
<1> DEFINE c == FieldCount(msg)
<1>1. IsMessage(msg) /\ DecodedAlike /\ DecodedAs = msg.kind /\ DecodedCount = c /\ c \in Nat
  BY DEF Whole
<1>2. at > DecodedCount /\ ValuesOk
  BY NothingMissed DEF AcceptedBy
<1>3. at = c + 1 /\ at - 1 = c
  BY <1>1, <1>2 DEF Progress
<1>4. \A i \in 1 .. c : Met(i)
  BY <1>3 DEF Progress
<1>5. TextsShort(msg, Names(msg.kind))
  BY <1>1, <1>4, AllShort DEF Met
<1>6. Settings(msg)
  <2> SUFFICES ASSUME msg.kind = "CONFIG_PUSH" PROVE Settings(msg)
    BY DEF Settings
  <2>1. c = 13
    BY DEF FieldCount, Fields, Layout
  <2>2. Met(11)
    BY <1>4, <2>1
  <2> QED BY <2>2 DEF Met
<1>7. msg.kind = "SOCKS_OPEN" => msg.field.stream_id # 0
  <2> SUFFICES ASSUME msg.kind = "SOCKS_OPEN" PROVE msg.field.stream_id # 0
    OBVIOUS
  <2>1. c = 3 /\ FieldAt(msg, 1) = Num("stream_id", 4)
    BY DEF FieldAt, FieldCount, Fields, Layout
  <2>2. 1 \in 1 .. at - 1
    BY <1>3, <2>1
  <2>3. got.stream_id = msg.field.stream_id
    BY <2>1, <2>2, NumberGot
  <2>4. got.stream_id # 0
    BY <1>2 DEF ValuesOk, Socks
  <2> QED BY <2>3, <2>4
<1>8. LengthAllowed(TypeOf[msg.kind], Len(Encoding(msg)))
  BY DEF Whole
<1>9. got = Meaning(msg)
  <2>1. CASE msg.kind = "SOCKS_CLOSE"
    <3>1. c = 1
      BY <2>1 DEF FieldCount, Fields, Layout
    <3>2. at = 2
      BY <1>3, <3>1
    <3> QED BY <1>1, <2>1, <3>2, GotClose DEF Meaning
  <2>2. CASE msg.kind # "SOCKS_CLOSE"
    <3>1. \A i \in 1 .. c : ReadValue(i) = ValueAt(msg, i)
      BY ReadWhole DEF Whole
    <3>2. got = msg.field
      BY <1>1, <1>3, <2>2, <3>1, GotAll
    <3> QED BY <2>2, <3>2 DEF Meaning
  <2> QED BY <2>1, <2>2
<1> QED BY <1>5, <1>6, <1>7, <1>8, <1>9 DEF Readable

(* A text that lies within the payload is refused for its own length only. *)
LEMMA ShortTextFits ==
    ASSUME IsMessage(msg), payload \in Seq(Bytes), Agrees(msg), TextsCarried(msg), Here,
           Field.as = "text", Off(msg, at) <= Len(payload),
           Len(ValueAt(msg, at)) < FieldAt(msg, at).size
    PROVE  TextFits
<1> DEFINE v == ValueAt(msg, at)
           g == Get(BytesAt(pos, 2))
<1>1. Len(payload) \in Nat /\ FieldCount(msg) \in Nat
  BY FieldFacts
<1>2. at \in 1 .. FieldCount(msg) /\ Field = FieldAt(msg, at) /\ pos = Off(msg, at - 1) /\ pos \in Nat
  BY DEF Here
<1>3. Len(v) <= TextMax /\ Len(v) \in Nat
  <2>1. IsField(FieldAt(msg, at), v)
    BY <1>2, FieldFacts
  <2>2. v \in Seq(Bytes)
    BY <1>2, <2>1 DEF IsField
  <2> QED BY <1>2, <2>2 DEF TextsCarried
<1>4. Off(msg, at) = pos + (2 + Len(v))
  <2>1. Off(msg, at) = Off(msg, at - 1) + Width(msg, at)
    BY <1>2, OffStep
  <2> QED BY <1>2, <2>1 DEF Width
<1>5. Len(v) < Field.size /\ Off(msg, at) <= Len(payload)
  BY <1>2
<1> HIDE DEF v, g
<1>6. pos + 2 <= Len(payload)
  BY <1>1, <1>2, <1>3, <1>4, <1>5
<1>7. g = Len(v)
  BY <1>2, <1>3, <1>6, TextRead DEF v, g
<1>8. Left >= 2 /\ Left >= 2 + g
  BY <1>1, <1>2, <1>3, <1>4, <1>5, <1>7 DEF Left
<1>9. g < Field.size
  BY <1>5, <1>7
<1> QED BY <1>8, <1>9 DEF TextFits, g

(* A text of a whole message is refused for its own length only. *)
LEMMA TextRefused ==
    ASSUME Whole, Here, Field.as = "text", ~TextFits
    PROVE  ~TextsShort(msg, Names(msg.kind))
<1>1. /\ IsMessage(msg) /\ payload \in Seq(Bytes) /\ Agrees(msg) /\ TextsCarried(msg)
      /\ Len(payload) = Off(msg, FieldCount(msg)) /\ FieldCount(msg) \in Nat
  BY DEF Whole
<1>2. at \in 1 .. FieldCount(msg) /\ Field = FieldAt(msg, at)
  BY DEF Here
<1>3. Off(msg, at) <= Len(payload)
  <2>1. at \in 0 .. FieldCount(msg) /\ FieldCount(msg) \in 0 .. FieldCount(msg) /\ at <= FieldCount(msg)
    BY <1>1, <1>2
  <2> QED BY <2>1 DEF Whole
<1>4. ~(Len(ValueAt(msg, at)) < FieldAt(msg, at).size) /\ FieldAt(msg, at).as = "text"
  BY <1>1, <1>2, <1>3, ShortTextFits
<1> QED BY <1>1, <1>2, <1>4, AllShort

(* Values that are refused make the message one not to be read. *)
LEMMA ValuesRefused ==
    ASSUME Whole, Progress, at > DecodedCount, ~ValuesOk
    PROVE  ~Readable(msg)
<1> DEFINE c == FieldCount(msg)
<1>1. IsMessage(msg) /\ ArgumentsOk(msg) /\ DecodedCount = c /\ c \in Nat /\ Len(payload) \in Nat
  BY DEF Whole
<1>2. at = c + 1 /\ at - 1 = c
  BY <1>1 DEF Progress
<1>3. CASE msg.kind = "CONFIG_PUSH"
  <2>1. c = 13 /\ FieldAt(msg, 13) = Text("direct_token")
    BY <1>3 DEF FieldAt, FieldCount, Fields, Layout
  <2>2. pos = Off(msg, 13)
    <3>1. FieldAt(msg, at - 1).as # "rest"
      BY <1>2, <2>1 DEF Text
    <3> QED BY <1>2, <2>1, <3>1 DEF Progress
  <2>3. Left = 0
    <3>1. Len(payload) = Off(msg, 13)
      BY <2>1 DEF Whole
    <3> QED BY <1>1, <2>2, <3>1 DEF Left
  <2>4. ~SettingsOk
    <3>1. SettingsOk /\ Left = 0 => ValuesOk
      BY <1>3 DEF ValuesOk, SettingsOk, Socks
    <3> QED BY <2>3, <3>1
  <2>5. ~Settings(msg)
    <3>1. at = 14
      BY <1>2, <2>1
    <3>2. at \in Nat /\ at >= 9
      BY <3>1
    <3> QED BY <1>3, <2>4, <3>2, SettingsSame
  <2> QED BY <2>5 DEF Readable
<1>4. CASE msg.kind = "SOCKS_OPEN"
  <2>1. /\ c = 3 /\ FieldAt(msg, 1) = Num("stream_id", 4) /\ FieldAt(msg, 2) = Text("host")
        /\ FieldAt(msg, 3) = Num("port", 2)
    BY <1>4 DEF FieldAt, FieldCount, Fields, Layout
  <2>2. got.stream_id = msg.field.stream_id /\ got.port = msg.field.port
    <3>1. 1 \in 1 .. at - 1 /\ 3 \in 1 .. at - 1
      BY <1>2, <2>1
    <3> QED BY <2>1, <3>1, NumberGot
  <2>3. got.host = msg.field.host
    <3>1. 2 \in 1 .. at - 1 /\ FieldAt(msg, 2).name = "host" /\ FieldAt(msg, 2).as # "rest"
      BY <1>2, <2>1 DEF Text
    <3>2. got[FieldAt(msg, 2).name] = ReadValue(2)
      BY <3>1 DEF Progress
    <3> QED BY <3>1, <3>2 DEF ReadValue, ValueAt
  <2>4. msg.field.host # <<>> /\ msg.field.port # 0
    BY <1>1, <1>4 DEF ArgumentsOk
  <2>5. ~(got.stream_id # 0 /\ got.host # <<>> /\ got.port # 0)
    BY <1>4 DEF ValuesOk
  <2> QED BY <1>4, <2>2, <2>3, <2>4, <2>5 DEF Readable
<1>5. CASE msg.kind \in Socks \ {"SOCKS_OPEN"}
  <2>1. c >= 1 /\ FieldAt(msg, 1) = Num("stream_id", 4)
    <3>1. c >= 1
      BY <1>1, SomeField DEF IsMessage
    <3>2. CASE msg.kind = "SOCKS_DATA"
      BY <3>1, <3>2 DEF FieldAt, Fields, Layout
    <3>3. CASE msg.kind = "SOCKS_CLOSE"
      BY <3>1, <3>3 DEF FieldAt, Fields, Layout
    <3>4. CASE msg.kind = "SOCKS_CLOSE_REASON"
      BY <3>1, <3>4 DEF FieldAt, Fields, Layout
    <3> QED BY <1>5, <3>2, <3>3, <3>4 DEF Socks
  <2>2. got.stream_id = msg.field.stream_id
    <3>1. 1 \in 1 .. at - 1
      BY <1>1, <1>2, <2>1
    <3> QED BY <2>1, <3>1, NumberGot
  <2>3. msg.field.stream_id # 0
    BY <1>1, <1>5 DEF ArgumentsOk, Socks
  <2>4. got.stream_id = 0
    BY <1>5 DEF ValuesOk, Socks
  <2> QED BY <2>2, <2>3, <2>4
<1>6. CASE msg.kind \notin {"CONFIG_PUSH", "SOCKS_OPEN"} \union Socks
  BY <1>6 DEF ValuesOk, Socks
<1> QED BY <1>3, <1>4, <1>5, <1>6 DEF Socks

(* A whole message that is refused is one not to be read. *)
LEMMA RefusedWhole ==
    ASSUME Whole, ~Taken \/ (Taken /\ Progress /\ RefusedBy)
    PROVE  ~Readable(msg)
<1>1. CASE ~Taken
  <2>1. ~LengthAllowed(TypeOf[msg.kind], Len(Encoding(msg)))
    BY <1>1 DEF Whole
  <2> QED BY <2>1 DEF Readable
<1>2. CASE Progress /\ at > DecodedCount /\ ~ValuesOk
  BY <1>2, ValuesRefused
<1>3. CASE Progress /\ at <= DecodedCount /\ RefusedBy
  <2>1. IsMessage(msg) /\ DecodedAlike /\ Len(payload) \in Nat /\ ArgumentsOk(msg)
        /\ payload = Encoding(msg) /\ Len(payload) = Off(msg, FieldCount(msg))
    BY DEF Whole
  <2>2. Here
    BY <1>3, <2>1, HereFacts
  <2>3. Len(Encoding(msg)) = Off(msg, FieldCount(msg)) /\ Len(payload) = Len(Encoding(msg))
    BY <2>1
  <2>4. at \in Nat /\ DecodedCount \in Nat /\ ~(at > DecodedCount)
    BY <1>3, <2>1, <2>2, FieldFacts DEF DecodedAlike, Here
  <2>5. RestFits
    <3>1. RestKnown
      BY <2>1, <2>2, RestFitsIs DEF IsMessage
    <3>2. CASE WholeAt(msg.kind, at)
      BY <1>3, <2>1, <2>2, <2>3, <3>2, WholeIs
    <3>3. CASE msg.kind = "CONFIG_PUSH" /\ at = 8
      <4>1. FieldCount(msg) = 13
        BY <3>3 DEF FieldCount, Fields, Layout
      <4>2. pos = Off(msg, 7) /\ pos \in Nat
        BY <2>2, <3>3 DEF Here
      <4>3. Off(msg, 10) = Off(msg, 7) + 8
        BY <2>1, <3>3, PlacedFacts DEF Placed
      <4>4. Off(msg, 10) <= Len(payload)
        BY <4>1 DEF Whole
      <4>5. Left >= 2 + 2 + 4
        BY <2>1, <4>2, <4>3, <4>4 DEF Left
      <4> QED BY <3>1, <3>3, <4>5 DEF RestKnown
    <3>4. CASE ~WholeAt(msg.kind, at) /\ ~(msg.kind = "CONFIG_PUSH" /\ at = 8)
      BY <3>1, <3>4 DEF RestKnown
    <3> QED BY <3>2, <3>3, <3>4
  <2>6. Field.as = "text"
    BY <1>3, <2>4, <2>5 DEF RefusedBy
  <2>7. CASE ~TextFits
    BY <2>2, <2>6, <2>7, TextRefused DEF Readable
  <2>8. CASE TextFits
    <3>1. AtDirectFields /\ ~SettingsOk
      BY <1>3, <2>4, <2>6, <2>8 DEF RefusedBy
    <3>2. msg.kind = "CONFIG_PUSH" /\ Field.name = "direct_mode"
      BY <3>1 DEF AtDirectFields
    <3>3. at >= 9
      <4>1. at \in 1 .. 13 /\ FieldAt(msg, at).name = "direct_mode"
        <5>1. FieldCount(msg) = 13
          BY <3>2 DEF FieldCount, Fields, Layout
        <5> QED BY <2>2, <3>2, <5>1 DEF Here
      <4>2. at = 11
        BY <3>2, <4>1, DirectNames
      <4> QED BY <4>2
    <3>4. ~Settings(msg)
      BY <1>3, <2>4, <3>1, <3>2, <3>3, SettingsSame
    <3> QED BY <3>4 DEF Readable
  <2> QED BY <2>7, <2>8
<1> QED BY <1>1, <1>2, <1>3 DEF RefusedBy

LEMMA TripsRound == TripInv => RoundTrip
<1> SUFFICES ASSUME TripInv, Judged, payload = out, hdr = HdrEncode(TrueHdr(Len(out)))
             PROVE  /\ pc = "ACCEPTED" <=> Readable(msg)
                    /\ pc = "ACCEPTED" => got = Meaning(msg)
  BY DEF RoundTrip
<1>1. Whole
  BY WholeFacts
<1>2. CASE pc = "ACCEPTED"
  <2>1. Taken /\ Progress /\ AcceptedBy
    BY <1>2 DEF TripInv, Judging
  <2> QED BY <1>1, <1>2, <2>1, AcceptedWhole
<1>3. CASE pc = "REFUSED"
  <2>1. ~Taken \/ (Taken /\ Progress /\ RefusedBy)
    BY <1>3 DEF TripInv, Judging
  <2>2. ~Readable(msg)
    BY <1>1, <2>1, RefusedWhole
  <2> QED BY <1>3, <2>2
<1> QED BY <1>2, <1>3 DEF Judged

(* For every message, limit and capacity: what arrives as it was encoded is  *)
(* accepted exactly if the message is one to be read, and every field is    *)
(* then what was sent.                                                      *)
THEOREM EncodedIsDecoded == Spec => []RoundTrip
<1>1. Spec => []TripInv
  BY TripHolds
<1> QED BY <1>1, TripsRound, PTL

(* A verdict on something else than the whole message. *)
Partial ==
    /\ IsMessage(msg) /\ ArgumentsOk(msg) /\ TextsCarried(msg) /\ DecodedAlike
    /\ payload \in Seq(Bytes) /\ Agrees(msg) /\ Len(payload) \in Nat
    /\ Len(payload) # Off(msg, FieldCount(msg)) /\ Len(payload) <= Off(msg, FieldCount(msg)) + 1
    /\ Len(Encoding(msg)) = Off(msg, FieldCount(msg)) /\ FieldCount(msg) \in Nat
    /\ \A i, j \in 0 .. FieldCount(msg) : i <= j => Off(msg, i) <= Off(msg, j)
    /\ \A i \in 0 .. FieldCount(msg) : Off(msg, i) \in Nat
    /\ Taken <=> /\ LengthOk(msg.kind, Len(payload))
                 /\ LengthAllowed(TypeOf[msg.kind], Len(payload))
    /\ pos \in Nat /\ pos <= Len(payload)

LEMMA PartialFacts ==
    ASSUME TripInv, Judged, payload # out
    PROVE  Partial
<1>1. pc \in Received /\ CodecInv /\ Written /\ Arrived
  BY DEF Judged, Received, TripInv
<1>2. IsMessage(msg) /\ ArgumentsOk(msg) /\ TextsCarried(msg) /\ DecodedAlike /\ Agrees(msg)
  BY <1>1, ArrivedFacts
<1>3. payload \in Seq(Bytes) /\ Len(payload) \in Nat /\ out = Encoding(msg)
  BY <1>1, ArrivedFacts
<1> DEFINE n == Len(payload)
           l == Len(Encoding(msg))
<1>4. l = Off(msg, FieldCount(msg)) /\ l \in Nat /\ l <= Cap /\ n \in Nat /\ n <= l + 1
  BY <1>1, ArrivedFacts
<1>5. n # l
  <2> SUFFICES ASSUME n = l PROVE payload = Encoding(msg)
    BY <1>3
  <2>1. Encoding(msg) \in Seq(Bytes)
    BY <1>1, <1>3 DEF CodecInv, CodecType
  <2>2. \A i \in 1 .. n : payload[i] = Encoding(msg)[i]
    BY <1>2, <1>4 DEF Agrees
  <2>3. payload = [i \in 1 .. n |-> payload[i]]
    BY <1>3
  <2>4. Encoding(msg) = [i \in 1 .. n |-> Encoding(msg)[i]]
    BY <2>1
  <2> QED BY <2>2, <2>3, <2>4
<1>6. FieldCount(msg) \in Nat /\ \A i, j \in 0 .. FieldCount(msg) : i <= j => Off(msg, i) <= Off(msg, j)
  BY <1>2, FieldFacts, LaidOut DEF Laid
<1>7. \A i \in 0 .. FieldCount(msg) : Off(msg, i) \in Nat
  BY <1>2, LaidOut DEF Laid
<1>8. Taken <=> LengthOk(msg.kind, n) /\ LengthAllowed(TypeOf[msg.kind], n)
  <2> DEFINE h == HdrDecode(HdrEncode(TrueHdr(n)))
  <2>1. HdrDecode(hdr) = h
    BY <1>1 DEF Arrived
  <2>2. n \in 0 .. Cap + 1
    BY <1>4, CapAssumption
  <2>3. msg.kind \in Kinds
    BY <1>2 DEF IsMessage
  <2>4. HdrOk(h) /\ h.type = TypeOf[msg.kind] /\ h.length = n
    BY <2>2, <2>3, TrueHdrTaken
  <2> HIDE DEF h
  <2> QED BY <2>1, <2>4 DEF Taken
<1>9. pos \in Nat /\ pos <= n
  BY <1>1 DEF CodecInv, CodecType, Inside, ReadsInside
<1> QED BY <1>2, <1>3, <1>4, <1>5, <1>6, <1>7, <1>8, <1>9 DEF Partial

(* The three kinds of payload that are accepted although they are not whole.*)
PassesConfig ==
    /\ msg.kind = "CONFIG_PUSH" /\ Len(payload) = DirectAt(msg)
    /\ Settings(msg) /\ TextsShort(msg, {"tap_name", "bridge_name"})
    /\ got = WithoutDirect(msg)
PassesData ==
    /\ msg.kind = "SOCKS_DATA" /\ Len(payload) \in 5 .. Limit.socks
    /\ got.data = SubSeq(payload, 5, Len(payload))
PassesClose ==
    /\ msg.kind = "SOCKS_CLOSE_REASON" /\ Len(payload) = 4
    /\ got = Meaning([kind |-> "SOCKS_CLOSE", field |-> msg.field])

(* A cut CONFIG_PUSH is accepted only where its direct fields begin. *)
LEMMA ConfigAccepted ==
    ASSUME Partial, Taken, Progress, AcceptedBy, msg.kind = "CONFIG_PUSH"
    PROVE  PassesConfig
<1>1. /\ IsMessage(msg) /\ DecodedAlike /\ Len(payload) \in Nat /\ FieldCount(msg) = 13
      /\ \A i \in 0 .. 13 : Off(msg, i) \in Nat
  BY ConfigFields DEF Partial
<1>2. DecodedAs = msg.kind /\ DecodedCount = 13
  BY <1>1 DEF DecodedAlike
<1>3. at <= DecodedCount
  <2> SUFFICES ASSUME at > DecodedCount, ValuesOk PROVE FALSE
    BY DEF AcceptedBy
  <2>1. at = 14 /\ at - 1 = 13
    BY <1>2 DEF Progress
  <2>2. FieldAt(msg, 13).as # "rest"
    BY ConfigFields DEF Text
  <2>3. pos = Off(msg, 13)
    BY <2>1, <2>2 DEF Progress
  <2>4. Left = 0
    BY DEF ValuesOk, SettingsOk, Socks
  <2>5. Len(payload) = Off(msg, 13)
    <3>1. Off(msg, 13) \in Nat /\ Len(payload) \in Nat
      BY <1>1
    <3>2. Len(payload) - Off(msg, 13) = 0
      BY <2>3, <2>4 DEF Left
    <3> QED BY <3>1, <3>2
  <2> QED BY <1>1, <2>5 DEF Partial
<1>4. AtDirectFields /\ SettingsOk /\ NothingLeft
  <2>1. ~(at > DecodedCount)
    BY <1>2, <1>3 DEF Progress
  <2> QED BY <2>1 DEF AcceptedBy
<1>5. Here
  BY <1>1, <1>3, HereFacts
<1>6. at = 11
  <2>1. at \in 1 .. 13 /\ FieldAt(msg, at).name = "direct_mode"
    BY <1>1, <1>4, <1>5 DEF AtDirectFields, Here
  <2> QED BY <2>1, DirectNames
<1>7. Len(payload) = DirectAt(msg)
  <2>1. pos = Off(msg, 10)
    BY <1>5, <1>6 DEF Here
  <2>2. Len(payload) = Off(msg, 10)
    <3>1. Off(msg, 10) \in Nat /\ Len(payload) \in Nat
      BY <1>1
    <3>2. Len(payload) - Off(msg, 10) = 0
      BY <1>4, <2>1 DEF NothingLeft, Left
    <3> QED BY <3>1, <3>2
  <2> QED BY <1>1, <2>2, DirectAtIs
<1>8. Settings(msg)
  BY <1>4, <1>6, SettingsSame
<1>9. \A i \in 1 .. 10 : Met(i) /\ got[FieldAt(msg, i).name] = ReadValue(i)
  <2>1. 1 .. at - 1 = 1 .. 10
    BY <1>6
  <2> QED BY <2>1 DEF Progress
<1>10. TextsShort(msg, {"tap_name", "bridge_name"})
  <2> SUFFICES ASSUME NEW i \in 1 .. 13, FieldAt(msg, i).as = "text",
                      FieldAt(msg, i).name \in {"tap_name", "bridge_name"}
               PROVE  Len(ValueAt(msg, i)) < FieldAt(msg, i).size
    BY <1>1, ShortTexts
  <2>1. i = 6 \/ i = 7
    BY DirectNames
  <2>2. i \in 1 .. 10
    BY <2>1
  <2> QED BY <1>9, <2>2 DEF Met
<1>11. got = WithoutDirect(msg)
  <2>1. DOMAIN Zeroed(DecodedAs) = Names(msg.kind) /\ DOMAIN Fields(msg.kind) = 1 .. 13
    BY <1>1, <1>2, FieldFacts DEF Zeroed
  <2>2. got = [f \in Names(msg.kind) |-> got[f]]
    BY <2>1 DEF Progress
  <2>3. DOMAIN msg.field = Names(msg.kind)
    <3>1. msg.field = [f \in Names(msg.kind) |-> msg.field[f]]
      BY <1>1 DEF IsMessage
    <3> QED BY <3>1
  <2>4. ASSUME NEW f \in Names(msg.kind)
        PROVE  got[f] = IF f \in DirectFields THEN <<>> ELSE msg.field[f]
    <3>1. PICK i \in 1 .. 13 : f = FieldAt(msg, i).name
      BY <2>1 DEF Names, FieldAt
    <3>2. CASE f \in DirectFields
      <4>1. \A j \in 1 .. at - 1 : FieldAt(msg, j).name # f
        <5> SUFFICES ASSUME NEW j \in 1 .. at - 1, FieldAt(msg, j).name = f PROVE FALSE
          OBVIOUS
        <5>1. j \in 1 .. 13 /\ ~(j >= 11)
          BY <1>6
        <5> QED BY <3>2, <5>1, DirectNames
      <4>2. got[f] = Zeroed(DecodedAs)[f]
        BY <2>1, <4>1 DEF Progress
      <4>3. ~\E j \in DOMAIN Fields(msg.kind) :
               Fields(msg.kind)[j].name = f /\ Fields(msg.kind)[j].as = "num"
        <5> SUFFICES ASSUME NEW j \in 1 .. 13, FieldAt(msg, j).name = f, FieldAt(msg, j).as = "num"
                     PROVE  FALSE
          BY <2>1 DEF FieldAt
        <5>1. j >= 11
          BY <3>2, DirectNames
        <5>2. j <= 10
          BY DirectNames
        <5> QED BY <5>1, <5>2
      <4>4. Zeroed(DecodedAs)[f] = <<>>
        BY <1>2, <4>3 DEF Zeroed
      <4> QED BY <3>2, <4>2, <4>4
    <3>3. CASE f \notin DirectFields
      <4>1. i \in 1 .. 10
        <5>1. ~(i >= 11)
          BY <3>1, <3>3, DirectNames
        <5> QED BY <5>1
      <4>2. FieldAt(msg, i).as # "rest"
        BY DirectNames
      <4>3. got[f] = ReadValue(i) /\ ReadValue(i) = ValueAt(msg, i)
        BY <1>9, <3>1, <4>1, <4>2 DEF ReadValue
      <4> QED BY <3>1, <3>3, <4>3 DEF ValueAt
    <3> QED BY <3>2, <3>3
  <2>5. WithoutDirect(msg) = [f \in Names(msg.kind) |->
                                IF f \in DirectFields THEN <<>> ELSE msg.field[f]]
    BY <2>3 DEF WithoutDirect
  <2> QED BY <2>2, <2>4, <2>5
<1> QED BY <1>7, <1>8, <1>10, <1>11 DEF PassesConfig

(* A SOCKS_DATA of another length gives its reader the data that arrived. *)
LEMMA DataAccepted ==
    ASSUME Partial, Taken, Progress, at > DecodedCount, msg.kind = "SOCKS_DATA"
    PROVE  PassesData
<1> DEFINE n == Len(payload)
<1>1. IsMessage(msg) /\ DecodedAlike /\ n \in Nat /\ payload \in Seq(Bytes)
  BY DEF Partial
<1>2. FieldCount(msg) = 2 /\ FieldAt(msg, 2) = Rest("data")
  BY DEF FieldAt, FieldCount, Fields, Layout
<1>3. DecodedCount = 2
  BY <1>1, <1>2 DEF DecodedAlike
<1>4. 2 \in 1 .. at - 1
  BY <1>3 DEF Progress
<1>5. n \in 5 .. Limit.socks
  <2>1. LengthOk(msg.kind, n)
    BY DEF Partial
  <2>2. n > 4 /\ n <= Limit.socks /\ Limit.socks \in Nat
    BY <2>1, LimitFacts DEF LengthOk, LimitNames
  <2> QED BY <1>1, <2>2
<1>6. got.data = BytesAt(4, n - 4)
  <2>1. FieldAt(msg, 2).name = "data" /\ FieldAt(msg, 2).as = "rest"
    BY <1>2 DEF Rest
  <2>2. Off(msg, 1) = 4
    BY <1>1, PlacedFacts DEF Placed
  <2>3. got[FieldAt(msg, 2).name] = ReadValue(2)
    BY <1>4 DEF Progress
  <2>4. ReadValue(2) = BytesAt(Off(msg, 2 - 1), n - Off(msg, 2 - 1))
    BY <2>1 DEF ReadValue
  <2>5. 2 - 1 = 1
    OBVIOUS
  <2> QED BY <2>1, <2>2, <2>3, <2>4, <2>5
<1>7. BytesAt(4, n - 4) = SubSeq(payload, 5, n)
  <2>1. \A i \in 1 .. n - 4 : 4 + i \in DOMAIN payload /\ 5 + i - 1 = 4 + i
    BY <1>1, <1>5
  <2>2. BytesAt(4, n - 4) = [i \in 1 .. n - 4 |-> payload[4 + i]]
    BY <2>1 DEF BytesAt
  <2>3. SubSeq(payload, 5, n) = [i \in 1 .. n - 5 + 1 |-> payload[5 + i - 1]]
    BY <1>1, <1>5
  <2>4. n - 5 + 1 = n - 4
    BY <1>1
  <2> QED BY <2>1, <2>2, <2>3, <2>4
<1> QED BY <1>5, <1>6, <1>7 DEF PassesData

(* Off the whole message, whatever is held against its length is refused. *)
LEMMA WholeRefused ==
    ASSUME Partial, Progress, at > DecodedCount, DecodedAs = msg.kind,
           NEW i \in 1 .. FieldCount(msg), WholeAt(msg.kind, i)
    PROVE  FALSE
<1>1. DecodedCount = FieldCount(msg) /\ FieldCount(msg) \in Nat
  BY DEF Partial, DecodedAlike
<1>2. i \in 1 .. at - 1
  BY <1>1 DEF Progress
<1>3. Met(i)
  BY <1>2 DEF Progress
<1>4. Len(payload) = Len(Encoding(msg))
  BY <1>3 DEF Met
<1> QED BY <1>4 DEF Partial

(* Nothing else is accepted that is not whole. *)
LEMMA AcceptedPartial ==
    ASSUME Partial, Taken, Progress, AcceptedBy
    PROVE  PassesConfig \/ PassesData \/ PassesClose
<1>1. /\ IsMessage(msg) /\ DecodedAlike /\ Len(payload) \in Nat /\ msg.kind \in Kinds
      /\ LengthOk(msg.kind, Len(payload))
  BY DEF Partial, IsMessage
<1>2. CASE msg.kind = "CONFIG_PUSH"
  BY <1>2, ConfigAccepted
<1>3. msg.kind # "CONFIG_PUSH" => at > DecodedCount
  BY DEF AcceptedBy, AtDirectFields
<1>4. CASE msg.kind = "SOCKS_DATA"
  BY <1>3, <1>4, DataAccepted
<1>5. CASE msg.kind \in {"HELLO", "AUTH_TAP", "SOCKS_OPEN", "TAP_FRAME"}
  <2>1. FieldCount(msg) \in {3, 4}
    BY <1>5 DEF FieldCount, Fields, Layout
  <2>2. 3 \in 1 .. FieldCount(msg) /\ WholeAt(msg.kind, 3)
    BY <1>5, <2>1 DEF WholeAt
  <2>3. DecodedAs = msg.kind /\ msg.kind # "CONFIG_PUSH"
    BY <1>5 DEF DecodedAs
  <2> QED BY <1>3, <2>2, <2>3, WholeRefused
<1>6. CASE msg.kind = "AUTH_NODE"
  <2>1. FieldCount(msg) = 3
    BY <1>6 DEF FieldCount, Fields, Layout
  <2>2. 2 \in 1 .. FieldCount(msg) /\ WholeAt(msg.kind, 2)
    BY <1>6, <2>1 DEF WholeAt
  <2>3. DecodedAs = msg.kind
    BY <1>6 DEF DecodedAs
  <2> QED BY <1>3, <1>6, <2>2, <2>3, WholeRefused
<1>7. CASE msg.kind = "AUTH_OK"
  <2>1. FieldCount(msg) = 4
    BY <1>7 DEF FieldCount, Fields, Layout
  <2>2. Off(msg, 4) = 20
    BY <1>1, <1>7, PlacedFacts DEF Placed
  <2>3. Len(payload) = 20
    BY <1>1, <1>7 DEF LengthOk
  <2> QED BY <2>1, <2>2, <2>3 DEF Partial
<1>8. CASE msg.kind = "SOCKS_CLOSE"
  <2>1. FieldCount(msg) = 1
    BY <1>8 DEF FieldCount, Fields, Layout
  <2>2. Off(msg, 1) = 4
    BY <1>1, <1>8, PlacedFacts DEF Placed
  <2>3. Len(payload) \in {4, 8}
    BY <1>1, <1>8 DEF LengthOk
  <2>4. Len(payload) # 4 /\ Len(payload) <= 4 + 1
    BY <2>1, <2>2 DEF Partial
  <2> QED BY <2>3, <2>4
<1>9. CASE msg.kind = "SOCKS_CLOSE_REASON"
  <2>1. FieldCount(msg) = 3
    BY <1>9 DEF FieldCount, Fields, Layout
  <2>2. Off(msg, 3) = 8
    BY <1>1, <1>9, PlacedFacts DEF Placed
  <2>3. Len(payload) \in {4, 8}
    BY <1>1, <1>9 DEF LengthOk
  <2>4. Len(payload) = 4
    BY <2>1, <2>2, <2>3 DEF Partial
  <2>5. DecodedAs = "SOCKS_CLOSE"
    BY <1>9, <2>4 DEF DecodedAs
  <2>6. DecodedCount = 1
    BY <2>5 DEF DecodedCount, Fields, Layout
  <2>7. at = 2
    BY <1>3, <1>9, <2>6 DEF Progress
  <2>8. got = [stream_id |-> msg.field.stream_id, reason_code |-> RemoteClosed, flags |-> 0]
    BY <1>1, <2>5, <2>7, GotClose
  <2> QED BY <1>9, <2>4, <2>8 DEF PassesClose, Meaning
<1> QED BY <1>1, <1>2, <1>4, <1>5, <1>6, <1>7, <1>8, <1>9, LayoutFacts

(* Refused before it was read, or while it was. *)
RefusedHow ==
    \/ ~Taken /\ got = Zeroed(DecodedAs)
    \/ Taken /\ Progress /\ RefusedBy

(* None of the three is refused. *)
LEMMA ConfigNotRefused ==
    ASSUME Partial, RefusedHow, PassesConfig
    PROVE  FALSE
<1>1. /\ IsMessage(msg) /\ DecodedAlike /\ msg.kind = "CONFIG_PUSH" /\ FieldCount(msg) = 13
      /\ payload \in Seq(Bytes) /\ Agrees(msg) /\ TextsCarried(msg)
  BY ConfigFields DEF Partial, PassesConfig
<1>2. DecodedAs = msg.kind /\ DecodedCount = 13
  BY <1>1 DEF DecodedAlike
<1>3. Settings(msg) /\ TextsShort(msg, {"tap_name", "bridge_name"}) /\ got = WithoutDirect(msg)
  BY DEF PassesConfig
<1>4. Len(payload) = Off(msg, 10) /\ Len(payload) \in Nat
  BY <1>1, DirectAtIs DEF PassesConfig, Partial
<1>5. \A i \in 0 .. 13 : Off(msg, i) \in Nat
  BY <1>1 DEF Partial
<1>6. \A i, j \in 0 .. 13 : i <= j => Off(msg, i) <= Off(msg, j)
  BY <1>1 DEF Partial
<1>7. Off(msg, 10) = Off(msg, 7) + 8 /\ Off(msg, 11) >= Off(msg, 10) + 2
  BY <1>1, PlacedFacts DEF Placed
<1>8. CASE ~Taken /\ got = Zeroed(DecodedAs)
  <2>1. DOMAIN Fields(msg.kind) = 1 .. 13 /\ FieldAt(msg, 2) = Num("network_id", 4)
    BY <1>1, ConfigFields, FieldFacts
  <2>2. "network_id" \in Names(msg.kind)
    <3>1. Fields(msg.kind)[2].name = "network_id"
      BY <2>1 DEF FieldAt, Num
    <3>2. 2 \in DOMAIN Fields(msg.kind)
      BY <2>1
    <3> QED BY <3>1, <3>2 DEF Names
  <2>3. Zeroed(DecodedAs)["network_id"] = 0
    <3>1. Fields(msg.kind)[2].name = "network_id" /\ Fields(msg.kind)[2].as = "num"
      BY <2>1 DEF FieldAt, Num
    <3>2. 2 \in DOMAIN Fields(msg.kind)
      BY <2>1
    <3>3. \E i \in DOMAIN Fields(msg.kind) :
             Fields(msg.kind)[i].name = "network_id" /\ Fields(msg.kind)[i].as = "num"
      BY <3>1, <3>2
    <3> QED BY <1>1, <1>2, <2>2, <3>3 DEF Zeroed
  <2>4. "network_id" \in DOMAIN msg.field
    <3>1. msg.field = [f \in Names(msg.kind) |-> msg.field[f]]
      BY <1>1 DEF IsMessage
    <3> QED BY <2>2, <3>1
  <2>5. WithoutDirect(msg)["network_id"] = msg.field["network_id"]
    BY <2>4 DEF WithoutDirect, DirectFields
  <2>6. msg.field.network_id # 0
    BY <1>1, <1>3 DEF Settings
  <2> QED BY <1>3, <1>8, <2>3, <2>5, <2>6
<1>9. CASE Progress /\ RefusedBy
  <2>1. at \in 1 .. 14 /\ pos \in Nat /\ pos <= Len(payload)
    BY <1>2, <1>9 DEF Progress, Partial
  <2>2. at <= 11
    <3>1. CASE at = 14
      <4>1. at - 1 = 13 /\ FieldAt(msg, 13).as # "rest"
        BY <1>1, <3>1, ConfigFields DEF Text
      <4>2. pos = Off(msg, 13)
        BY <1>9, <4>1 DEF Progress
      <4>3. Off(msg, 11) <= Off(msg, 13) /\ Off(msg, 10) \in Nat /\ Off(msg, 11) \in Nat
            /\ Off(msg, 13) \in Nat
        BY <1>5, <1>6
      <4> QED BY <1>4, <1>7, <2>1, <4>2, <4>3
    <3>2. CASE at \in 12 .. 13
      <4>1. Here
        BY <1>1, <1>2, <1>9, <3>2, HereFacts
      <4>2. pos = Off(msg, at - 1) /\ at - 1 \in 0 .. 13 /\ 11 <= at - 1
        BY <3>2, <4>1 DEF Here
      <4>3. Off(msg, 11) <= Off(msg, at - 1) /\ Off(msg, 10) \in Nat /\ Off(msg, 11) \in Nat
            /\ Off(msg, at - 1) \in Nat
        BY <1>5, <1>6, <4>2
      <4> QED BY <1>4, <1>7, <2>1, <4>2, <4>3
    <3> QED BY <2>1, <3>1, <3>2
  <2>3. Here
    <3>1. at <= DecodedCount
      BY <1>2, <2>1, <2>2
    <3> QED BY <1>1, <1>9, <3>1, HereFacts
  <2>4. pos = Off(msg, at - 1) /\ Field = FieldAt(msg, at) /\ at \in 1 .. 13
    BY <1>1, <2>1, <2>2, <2>3 DEF Here
  <2>5. RestFits
    <3>1. RestKnown
      BY <1>1, <2>3, RestFitsIs DEF IsMessage
    <3>2. CASE at = 8
      <4>1. pos = Off(msg, 7)
        BY <2>4, <3>2
      <4>2. Off(msg, 7) \in Nat
        BY <1>5
      <4>3. Left >= 2 + 2 + 4
        BY <1>4, <1>7, <4>1, <4>2 DEF Left
      <4> QED BY <1>1, <3>1, <3>2, <4>3 DEF RestKnown
    <3>3. CASE at # 8
      BY <1>1, <3>1, <3>3 DEF RestKnown, WholeAt
    <3> QED BY <3>2, <3>3
  <2>6. /\ Field.as = "text"
        /\ AtDirectFields => ~SettingsOk \/ (~NothingLeft /\ ~TextFits)
        /\ ~AtDirectFields => ~TextFits
    <3>1. ~(at > DecodedCount)
      BY <1>2, <2>4
    <3> QED BY <1>9, <2>5, <3>1 DEF RefusedBy
  <2>7. CASE at = 11
    <3>1. AtDirectFields
      BY <1>1, <2>4, <2>7, DirectNames DEF AtDirectFields
    <3>2. SettingsOk
      BY <1>1, <1>3, <1>9, <2>7, SettingsSame
    <3>3. NothingLeft
      <4>1. pos = Off(msg, 10) /\ Off(msg, 10) \in Nat
        BY <1>5, <2>4, <2>7
      <4> QED BY <1>4, <4>1 DEF NothingLeft, Left
    <3> QED BY <2>6, <3>1, <3>2, <3>3
  <2>8. CASE at # 11
    <3>1. at = 6 \/ at = 7
      BY <1>1, <2>2, <2>4, <2>6, <2>8, DirectNames
    <3>2. FieldAt(msg, at).name \in {"tap_name", "bridge_name"}
      BY <1>1, <2>4, <3>1, DirectNames
    <3>3. Len(ValueAt(msg, at)) < FieldAt(msg, at).size
      BY <1>1, <1>3, <2>4, <2>6, <3>2, ShortTexts
    <3>4. Off(msg, at) <= Len(payload)
      BY <1>4, <1>6, <3>1
    <3>5. TextFits
      BY <1>1, <2>3, <2>6, <3>3, <3>4, ShortTextFits
    <3>6. ~AtDirectFields
      BY <1>1, <2>4, <2>8, DirectNames DEF AtDirectFields
    <3> QED BY <2>6, <3>5, <3>6
  <2> QED BY <2>7, <2>8
<1> QED BY <1>8, <1>9 DEF RefusedHow

LEMMA DataNotRefused ==
    ASSUME Partial, RefusedHow, PassesData
    PROVE  FALSE
<1>1. /\ IsMessage(msg) /\ DecodedAlike /\ msg.kind = "SOCKS_DATA" /\ Len(payload) \in Nat
      /\ Len(payload) \in 5 .. Limit.socks /\ ArgumentsOk(msg)
  BY DEF Partial, PassesData
<1>2. FieldCount(msg) = 2 /\ FieldAt(msg, 1) = Num("stream_id", 4) /\ FieldAt(msg, 2) = Rest("data")
  BY <1>1 DEF FieldAt, FieldCount, Fields, Layout
<1>3. DecodedCount = 2
  BY <1>1, <1>2 DEF DecodedAlike
<1>4. Taken
  <2>1. Limit.socks \in Nat
    BY LimitFacts DEF LimitNames
  <2>2. Len(payload) > 4 /\ Len(payload) <= Limit.socks
    BY <1>1, <2>1
  <2>3. LengthOk(msg.kind, Len(payload))
    BY <1>1, <2>2 DEF LengthOk
  <2>4. TypeOf[msg.kind] = 13 /\ TypeOf["TAP_FRAME"] = 7
    BY <1>1 DEF TypeOf
  <2>5. LengthAllowed(TypeOf[msg.kind], Len(payload))
    BY <2>2, <2>4 DEF LengthAllowed
  <2> QED BY <2>3, <2>5 DEF Partial
<1>5. Progress /\ RefusedBy
  BY <1>4 DEF RefusedHow
<1>6. CASE at > DecodedCount
  <2>1. 1 \in 1 .. at - 1
    BY <1>3, <1>5, <1>6 DEF Progress
  <2>2. got.stream_id = msg.field.stream_id
    BY <1>2, <1>5, <2>1, NumberGot
  <2>3. msg.field.stream_id # 0
    BY <1>1 DEF ArgumentsOk
  <2>4. ~ValuesOk
    BY <1>3, <1>5, <1>6 DEF RefusedBy, Progress
  <2>5. got.stream_id = 0
    BY <1>1, <2>4 DEF ValuesOk, Socks
  <2> QED BY <2>2, <2>3, <2>5
<1>7. CASE at <= DecodedCount
  <2>1. Here
    BY <1>1, <1>5, <1>7, HereFacts
  <2>2. RestFits
    BY <1>1, <2>1, RestFitsIs DEF RestKnown, WholeAt, IsMessage
  <2>3. Field.as # "text"
    <3>1. at = 1 \/ at = 2
      BY <1>2, <2>1 DEF Here
    <3> QED BY <1>2, <2>1, <3>1 DEF Here, Num, Rest
  <2>4. ~(at > DecodedCount)
    BY <1>3, <1>5, <1>7 DEF Progress
  <2> QED BY <1>5, <2>2, <2>3, <2>4 DEF RefusedBy
<1>8. at > DecodedCount \/ at <= DecodedCount
  BY <1>3, <1>5 DEF Progress
<1> QED BY <1>6, <1>7, <1>8

LEMMA CloseNotRefused ==
    ASSUME Partial, RefusedHow, PassesClose
    PROVE  FALSE
<1>1. /\ IsMessage(msg) /\ DecodedAlike /\ msg.kind = "SOCKS_CLOSE_REASON" /\ Len(payload) = 4
      /\ ArgumentsOk(msg)
  BY DEF Partial, PassesClose
<1>2. DecodedAs = "SOCKS_CLOSE"
  BY <1>1 DEF DecodedAs
<1>3. DecodedCount = 1 /\ FieldAt(msg, 1) = Num("stream_id", 4)
  BY <1>1, <1>2 DEF DecodedCount, FieldAt, Fields, Layout
<1>4. got.stream_id = msg.field.stream_id
  BY DEF PassesClose, Meaning
<1>5. msg.field.stream_id # 0
  BY <1>1 DEF ArgumentsOk
<1>6. CASE ~Taken /\ got = Zeroed(DecodedAs)
  BY <1>2, <1>4, <1>5, <1>6 DEF Zeroed
<1>7. CASE Progress /\ RefusedBy
  <2>1. CASE at > DecodedCount
    <3>1. ~ValuesOk
      BY <1>3, <1>7, <2>1 DEF RefusedBy, Progress
    <3>2. got.stream_id = 0
      BY <1>1, <3>1 DEF ValuesOk, Socks
    <3> QED BY <1>4, <1>5, <3>2
  <2>2. CASE at <= DecodedCount
    <3>1. Here
      BY <1>1, <1>7, <2>2, HereFacts
    <3>2. RestFits
      BY <1>1, <3>1, RestFitsIs DEF RestKnown, WholeAt, IsMessage
    <3>3. at = 1
      BY <1>3, <1>7, <2>2 DEF Progress
    <3>4. Field.as # "text"
      BY <1>3, <3>1, <3>3 DEF Here, Num
    <3>5. ~(at > DecodedCount)
      BY <1>3, <3>3
    <3> QED BY <1>7, <3>2, <3>4, <3>5 DEF RefusedBy
  <2>3. at > DecodedCount \/ at <= DecodedCount
    BY <1>3, <1>7 DEF Progress
  <2> QED BY <2>1, <2>2, <2>3
<1> QED BY <1>6, <1>7 DEF RefusedHow

LEMMA CutsPass == TripInv => OnlyOptionalCutsPass
<1> SUFFICES ASSUME TripInv PROVE OnlyOptionalCutsPass
  OBVIOUS
<1>1. ASSUME Judged, payload # out
      PROVE  pc = "ACCEPTED" <=> PassesConfig \/ PassesData \/ PassesClose
  <2>1. Partial
    BY <1>1, PartialFacts
  <2>2. CASE pc = "ACCEPTED"
    <3>1. Taken /\ Progress /\ AcceptedBy
      BY <2>2 DEF TripInv, Judging
    <3> QED BY <2>1, <2>2, <3>1, AcceptedPartial
  <2>3. CASE pc = "REFUSED"
    <3>1. RefusedHow
      BY <2>3 DEF TripInv, Judging, RefusedHow
    <3> QED BY <2>1, <2>3, <3>1, ConfigNotRefused, DataNotRefused, CloseNotRefused
  <2> QED BY <1>1, <2>2, <2>3 DEF Judged
<1>2. pc = "ACCEPTED" => HdrOk(HdrDecode(hdr))
  BY DEF TripInv, Judging, Taken
<1> QED BY <1>1, <1>2 DEF OnlyOptionalCutsPass, PassesConfig, PassesData, PassesClose

(* For every message, limit and capacity: of the payloads that are not the  *)
(* whole message only the three optional cuts are accepted, and no payload  *)
(* is under a damaged header.                                               *)
THEOREM CutsAreOptional == Spec => []OnlyOptionalCutsPass
<1>1. Spec => []TripInv
  BY TripHolds
<1> QED BY <1>1, CutsPass, PTL

-----------------------------------------------------------------------------
(* The direct token *)

(* Numbers as digits, and back *)
LEMMA DigitFacts ==
    /\ \A d \in 0 .. 9 : DigitOf(d) \in Digits /\ DigitValue(DigitOf(d)) = d
    /\ \A c \in Digits : DigitValue(c) \in Nat
    /\ \A c \in Digits : ~Blank(c) /\ c \notin {"|", "nl", "+", "-", "ntap1"}
<1>1. DOMAIN Digit = 1 .. 9 /\ Digits = {"0", "1", "2", "3", "4", "5", "6", "7", "8", "9"}
  <2>1. DOMAIN Digit = 1 .. 9
    BY DEF Digit
  <2>2. /\ Digit[1] = "1" /\ Digit[2] = "2" /\ Digit[3] = "3" /\ Digit[4] = "4"
        /\ Digit[5] = "5" /\ Digit[6] = "6" /\ Digit[7] = "7" /\ Digit[8] = "8"
        /\ Digit[9] = "9"
    BY DEF Digit
  <2>3. Range(Digit) = {Digit[1], Digit[2], Digit[3], Digit[4], Digit[5], Digit[6], Digit[7],
                        Digit[8], Digit[9]}
    <3>1. 1 .. 9 = {1, 2, 3, 4, 5, 6, 7, 8, 9}
      OBVIOUS
    <3> QED BY <2>1, <3>1 DEF Range
  <2> QED BY <2>1, <2>2, <2>3 DEF Digits
<1>2. \A d \in 1 .. 9 : DigitOf(d) = Digit[d] /\ Digit[d] # "0" /\ Digit[d] \in Digits
  BY DEF DigitOf, Digit, Digits, Range
<1>3. DigitOf(0) = "0" /\ "0" \in Digits /\ DigitValue("0") = 0
  BY DEF DigitOf, Digits, DigitValue
<1>4. \A d, e \in 1 .. 9 : Digit[d] = Digit[e] => d = e
  BY DEF Digit
<1>5. \A d \in 1 .. 9 : DigitValue(Digit[d]) = d
  <2> SUFFICES ASSUME NEW d \in 1 .. 9 PROVE DigitValue(Digit[d]) = d
    OBVIOUS
  <2>1. DigitValue(Digit[d]) = CHOOSE e \in 1 .. 9 : Digit[e] = Digit[d]
    BY <1>2 DEF DigitValue
  <2>2. \E e \in 1 .. 9 : Digit[e] = Digit[d]
    OBVIOUS
  <2> QED BY <1>4, <2>1, <2>2
<1>6. \A d \in 0 .. 9 : DigitOf(d) \in Digits /\ DigitValue(DigitOf(d)) = d
  BY <1>2, <1>3, <1>5
<1>7. \A c \in Digits : DigitValue(c) \in Nat
  <2> SUFFICES ASSUME NEW c \in Digits PROVE DigitValue(c) \in Nat
    OBVIOUS
  <2>1. CASE c = "0"
    BY <1>3, <2>1
  <2>2. CASE c # "0"
    <3>1. PICK d \in 1 .. 9 : c = Digit[d]
      BY <1>1, <2>2 DEF Digits, Range
    <3> QED BY <1>5, <3>1
  <2> QED BY <2>1, <2>2
<1>8. \A c \in Digits : ~Blank(c) /\ c \notin {"|", "nl", "+", "-", "ntap1"}
  BY <1>1 DEF Blank
<1> QED BY <1>6, <1>7, <1>8

LEMMA TenFacts ==
    ASSUME NEW n \in Nat
    PROVE  /\ n \div 10 \in Nat /\ n % 10 \in 0 .. 9 /\ n = (n \div 10) * 10 + (n % 10)
           /\ n >= 10 => n \div 10 < n
<1>1. n \div 10 \in Nat
  OBVIOUS
<1>2. n % 10 \in 0 .. 9
  OBVIOUS
<1>3. n = (n \div 10) * 10 + (n % 10)
  <2>1. PICK k \in Nat, r \in Nat : k = n \div 10 /\ r = n % 10
    BY <1>1, <1>2
  <2>2. n = 10 * k + r
    BY <2>1, SMT
  <2> QED BY <2>1, <2>2
<1>4. n >= 10 => n \div 10 < n
  OBVIOUS
<1> QED BY <1>1, <1>2, <1>3, <1>4

NextText(f, m) == IF m < 10 THEN <<DigitOf(m)>> ELSE Append(f[m \div 10], DigitOf(m % 10))
Writes(n, f)   == \A m \in 0 .. n : f[m] = NextText(f, m)

LEMMA WritesOnce ==
    ASSUME NEW n \in Nat, NEW k \in Nat, NEW f, NEW g, Writes(n, f), Writes(k, g)
    PROVE  \A m \in Nat : m <= n /\ m <= k => f[m] = g[m]
<1> DEFINE B == {m \in Nat : m <= n /\ m <= k /\ f[m] # g[m]}
<1> SUFFICES B = {}
  OBVIOUS
<1> SUFFICES ASSUME B # {} PROVE FALSE
  OBVIOUS
<1>1. PICK m \in B : \A j \in B : m <= j
  <2>1. B \in SUBSET Nat
    OBVIOUS
  <2> HIDE DEF B
  <2> QED BY <2>1, LeastNumber
<1>2. /\ m \in Nat /\ f[m] # g[m] /\ f[m] = NextText(f, m) /\ g[m] = NextText(g, m)
      /\ m <= n /\ m <= k
  BY DEF Writes
<1>3. ~(m < 10)
  BY <1>2 DEF NextText
<1>4. m \div 10 \in Nat /\ m \div 10 < m
  BY <1>2, <1>3
<1>5. f[m \div 10] = g[m \div 10]
  <2> DEFINE j == m \div 10
  <2>1. j \in Nat /\ j < m
    BY <1>4
  <2> HIDE DEF j
  <2>2. j \notin B /\ j <= n /\ j <= k
    BY <1>1, <1>2, <2>1
  <2>3. f[j] = g[j]
    BY <2>1, <2>2
  <2> QED BY <2>3 DEF j
<1> QED BY <1>2, <1>3, <1>5 DEF NextText

LEMMA WritesExists ==
    ASSUME NEW n \in Nat
    PROVE  \E f \in [Nat -> Seq(Digits)] : Writes(n, f)
<1> DEFINE P == {k \in Nat : \E f \in [Nat -> Seq(Digits)] : Writes(k, f)}
<1>1. 0 \in P
  <2> DEFINE f == [m \in Nat |-> <<DigitOf(0)>>]
  <2>1. DigitOf(0) \in Digits
    BY DigitFacts
  <2>2. f \in [Nat -> Seq(Digits)] /\ f[0] = <<DigitOf(0)>>
    BY <2>1
  <2> HIDE DEF f
  <2>3. Writes(0, f)
    <3>1. \A m \in 0 .. 0 : m = 0 /\ m < 10
      OBVIOUS
    <3>2. NextText(f, 0) = <<DigitOf(0)>>
      BY DEF NextText
    <3> QED BY <2>2, <3>1, <3>2 DEF Writes
  <2> QED BY <2>2, <2>3
<1>2. \A k \in P : k + 1 \in P
  <2> SUFFICES ASSUME NEW k \in P PROVE k + 1 \in P
    OBVIOUS
  <2>0. k \in Nat /\ k + 1 \in Nat
    OBVIOUS
  <2>1. PICK f \in [Nat -> Seq(Digits)] : Writes(k, f)
    OBVIOUS
  <2>2. NextText(f, k + 1) \in Seq(Digits)
    <3>1. CASE k + 1 < 10
      <4>1. k + 1 \in 0 .. 9
        BY <2>0, <3>1
      <4>2. DigitOf(k + 1) \in Digits
        BY <4>1, DigitFacts
      <4> QED BY <3>1, <4>2 DEF NextText
    <3>2. CASE ~(k + 1 < 10)
      <4>1. (k + 1) \div 10 \in Nat /\ (k + 1) % 10 \in 0 .. 9
        BY <2>0, TenFacts
      <4>2. f[(k + 1) \div 10] \in Seq(Digits) /\ DigitOf((k + 1) % 10) \in Digits
        BY <4>1, DigitFacts
      <4> QED BY <3>2, <4>2 DEF NextText
    <3> QED BY <3>1, <3>2
  <2> DEFINE h == [m \in Nat |-> IF m = k + 1 THEN NextText(f, k + 1) ELSE f[m]]
  <2>3. h \in [Nat -> Seq(Digits)] /\ h[k + 1] = NextText(f, k + 1)
        /\ \A m \in Nat : m # k + 1 => h[m] = f[m]
    BY <2>0, <2>2
  <2> HIDE DEF h
  <2>4. \A m \in 0 .. k + 1 : h[m] = NextText(h, m)
    <3> SUFFICES ASSUME NEW m \in 0 .. k + 1 PROVE h[m] = NextText(h, m)
      OBVIOUS
    <3>1. h[m] = NextText(f, m)
      <4>1. CASE m = k + 1
        BY <2>3, <4>1
      <4>2. CASE m # k + 1
        <5>1. m \in 0 .. k /\ m \in Nat
          BY <2>0, <4>2
        <5> QED BY <2>1, <2>3, <4>2, <5>1 DEF Writes
      <4> QED BY <4>1, <4>2
    <3>2. CASE m < 10
      BY <3>1, <3>2 DEF NextText
    <3>3. CASE ~(m < 10)
      <4>1. m \in Nat /\ m \div 10 \in Nat /\ m \div 10 # k + 1
        <5>1. m \in Nat /\ m >= 10 /\ m <= k + 1
          BY <2>0, <3>3
        <5>2. m \div 10 \in Nat /\ m \div 10 < m
          BY <5>1, TenFacts
        <5> HIDE DEF h
        <5> QED BY <2>0, <5>1, <5>2
      <4>2. h[m \div 10] = f[m \div 10]
        BY <2>3, <4>1
      <4> QED BY <3>1, <3>3, <4>2 DEF NextText
    <3> QED BY <3>2, <3>3
  <2> QED BY <2>0, <2>3, <2>4 DEF Writes
<1>3. P = Nat
  <2> HIDE DEF P
  <2>1. P \in SUBSET Nat
    BY DEF P
  <2> QED BY <1>1, <1>2, <2>1, AllNumbers
<1>4. n \in P
  BY <1>3
<1> QED BY <1>4

LEMMA DecimalIs ==
    ASSUME NEW n \in Nat, NEW f, Writes(n, f)
    PROVE  Decimal(n) = f[n]
<1> DEFINE Upto(g) == g = [m \in 0 .. n |-> NextText(g, m)]
           g == CHOOSE g : Upto(g)
<1>1. Upto([m \in 0 .. n |-> f[m]])
  <2> DEFINE e == [m \in 0 .. n |-> f[m]]
  <2>1. \A m \in 0 .. n : e[m] = NextText(e, m)
    <3> SUFFICES ASSUME NEW m \in 0 .. n PROVE e[m] = NextText(e, m)
      OBVIOUS
    <3>1. e[m] = NextText(f, m)
      BY DEF Writes
    <3>2. CASE m < 10
      BY <3>1, <3>2 DEF NextText
    <3>3. CASE ~(m < 10)
      <4>1. m \div 10 \in 0 .. n
        BY <3>3
      <4>2. e[m \div 10] = f[m \div 10]
        BY <4>1
      <4> HIDE DEF e
      <4> QED BY <3>1, <3>3, <4>2 DEF NextText
    <3> QED BY <3>2, <3>3
  <2> QED BY <2>1
<1>2. Upto(g)
  BY <1>1
<1>3. Decimal(n) = g[n]
  BY DEF Decimal, NextText
<1> HIDE DEF g
<1>4. Writes(n, g)
  BY <1>2 DEF Writes
<1>5. n <= n
  OBVIOUS
<1> QED BY <1>3, <1>4, <1>5, WritesOnce

LEMMA DecimalFacts ==
    ASSUME NEW n \in Nat
    PROVE  /\ Decimal(n) \in Seq(Digits)
           /\ n < 10 => Decimal(n) = <<DigitOf(n)>>
           /\ n >= 10 => Decimal(n) = Append(Decimal(n \div 10), DigitOf(n % 10))
<1>1. PICK f \in [Nat -> Seq(Digits)] : Writes(n, f)
  BY WritesExists
<1>2. Decimal(n) = f[n] /\ f[n] = NextText(f, n)
  <2>1. n \in 0 .. n
    OBVIOUS
  <2>2. f[n] = NextText(f, n)
    BY <1>1, <2>1 DEF Writes
  <2> QED BY <1>1, <2>2, DecimalIs
<1>3. ASSUME n >= 10 PROVE Decimal(n \div 10) = f[n \div 10]
  <2> DEFINE k == n \div 10
  <2>1. k \in Nat /\ k <= n
    BY TenFacts
  <2> HIDE DEF k
  <2>2. Writes(k, f)
    BY <1>1, <2>1 DEF Writes
  <2>3. Decimal(k) = f[k]
    BY <2>1, <2>2, DecimalIs
  <2> QED BY <2>3 DEF k
<1>4. Decimal(n) \in Seq(Digits)
  BY <1>1, <1>2
<1>5. n < 10 => Decimal(n) = <<DigitOf(n)>>
  BY <1>2 DEF NextText
<1>6. n >= 10 => Decimal(n) = Append(Decimal(n \div 10), DigitOf(n % 10))
  <2> SUFFICES ASSUME n >= 10
               PROVE  Decimal(n) = Append(Decimal(n \div 10), DigitOf(n % 10))
    OBVIOUS
  <2>1. ~(n < 10)
    OBVIOUS
  <2>2. NextText(f, n) = Append(f[n \div 10], DigitOf(n % 10))
    BY <2>1 DEF NextText
  <2> QED BY <1>2, <1>3, <2>2
<1> QED BY <1>4, <1>5, <1>6

LEMMA ValueFacts ==
    ASSUME NEW s \in Seq(Digits)
    PROVE  \E f \in [0 .. Len(s) -> Nat] :
             /\ f[0] = 0 /\ \A i \in 1 .. Len(s) : f[i] = f[i - 1] * 10 + DigitValue(s[i])
             /\ ValueOf(s) = f[Len(s)]
<1> DEFINE F == [i \in 1 .. Len(s) |-> [x \in Nat |-> x * 10 + DigitValue(s[i])]]
           k == Len(s)
<1>0. k \in Nat /\ \A i \in 1 .. k : DigitValue(s[i]) \in Nat
  BY DigitFacts
<1>1. \A x, y \in Nat : x * 10 + y \in Nat
  OBVIOUS
<1>2. Rule(Nat, k, F)
  BY <1>0, <1>1 DEF Rule
<1> HIDE DEF k
<1>3. PICK h \in [0 .. k -> Nat] : Goes(k, 0, F, h)
  <2> HIDE DEF F
  <2> QED BY <1>0, <1>2, Recursion
<1>4. \A j \in 1 .. k : h[j] = h[j - 1] * 10 + DigitValue(s[j])
  <2> SUFFICES ASSUME NEW j \in 1 .. k PROVE h[j] = h[j - 1] * 10 + DigitValue(s[j])
    OBVIOUS
  <2>1. h[j - 1] \in Nat
    BY <1>0
  <2> QED BY <1>3, <2>1 DEF Goes, k
<1> DEFINE Upto(g) == g = [i \in 0 .. k |-> IF i = 0 THEN 0 ELSE g[i - 1] * 10 + DigitValue(s[i])]
           g == CHOOSE g : Upto(g)
<1>5. Upto(h)
  BY <1>3, <1>4 DEF Goes
<1>6. Upto(g)
  BY <1>5
<1>7. ValueOf(s) = g[k]
  BY DEF ValueOf, k
<1> HIDE DEF g
<1>8. Together(k, g, h)
  BY <1>0, <1>5, <1>6 DEF Together
<1>9. g[k] = h[k]
  <2>1. \A j \in 0 .. k : g[j] = h[j]
    BY <1>0, <1>8, SameWay
  <2> QED BY <1>0, <2>1
<1> QED BY <1>3, <1>4, <1>7, <1>9 DEF Goes, k

LEMMA ValueType ==
    ASSUME NEW s \in Seq(Digits)
    PROVE  ValueOf(s) \in Nat
<1>1. PICK f \in [0 .. Len(s) -> Nat] : ValueOf(s) = f[Len(s)]
  BY ValueFacts
<1> QED BY <1>1

LEMMA ValueAppend ==
    ASSUME NEW s \in Seq(Digits), NEW c \in Digits
    PROVE  ValueOf(Append(s, c)) = ValueOf(s) * 10 + DigitValue(c)
<1> DEFINE t == Append(s, c)
<1>1. /\ t \in Seq(Digits) /\ Len(t) = Len(s) + 1 /\ Len(s) \in Nat
      /\ t[Len(s) + 1] = c /\ \A n \in 1 .. Len(s) : t[n] = s[n]
  OBVIOUS
<1> HIDE DEF t
<1>2. PICK f \in [0 .. Len(s) -> Nat] :
        /\ f[0] = 0 /\ \A i \in 1 .. Len(s) : f[i] = f[i - 1] * 10 + DigitValue(s[i])
        /\ ValueOf(s) = f[Len(s)]
  BY ValueFacts
<1>3. PICK g \in [0 .. Len(t) -> Nat] :
        /\ g[0] = 0 /\ \A i \in 1 .. Len(t) : g[i] = g[i - 1] * 10 + DigitValue(t[i])
        /\ ValueOf(t) = g[Len(t)]
  BY <1>1, ValueFacts
<1>4. \A n \in 1 .. Len(s) : f[n - 1] = g[n - 1] => f[n] = g[n]
  <2> SUFFICES ASSUME NEW n \in 1 .. Len(s), f[n - 1] = g[n - 1] PROVE f[n] = g[n]
    OBVIOUS
  <2>1. n \in 1 .. Len(t)
    BY <1>1
  <2> QED BY <1>1, <1>2, <1>3, <2>1
<1>5. f[Len(s)] = g[Len(s)]
  <2>1. Together(Len(s), f, g)
    BY <1>2, <1>3, <1>4 DEF Together
  <2>2. \A n \in 0 .. Len(s) : f[n] = g[n]
    <3>1. Len(s) \in Nat
      OBVIOUS
    <3> QED BY <2>1, <3>1, SameWay
  <2> QED BY <1>1, <2>2
<1>6. g[Len(t)] = g[Len(s)] * 10 + DigitValue(c)
  <2>1. Len(t) \in 1 .. Len(t) /\ Len(t) - 1 = Len(s)
    BY <1>1
  <2> QED BY <1>1, <1>3, <2>1
<1> QED BY <1>2, <1>3, <1>5, <1>6 DEF t

LEMMA ValueEmpty == ValueOf(<<>>) = 0
<1>1. <<>> \in Seq(Digits) /\ Len(<<>>) = 0
  OBVIOUS
<1>2. PICK f \in [0 .. Len(<<>>) -> Nat] : f[0] = 0 /\ ValueOf(<<>>) = f[Len(<<>>)]
  BY <1>1, ValueFacts
<1> QED BY <1>1, <1>2

LEMMA ValueOfDecimal ==
    \A n \in Nat : ValueOf(Decimal(n)) = n /\ Decimal(n) # <<>>
<1> DEFINE B == {n \in Nat : ~(ValueOf(Decimal(n)) = n /\ Decimal(n) # <<>>)}
<1> SUFFICES ASSUME B # {} PROVE FALSE
  OBVIOUS
<1>1. PICK n \in B : \A j \in B : n <= j
  <2>1. B \in SUBSET Nat
    OBVIOUS
  <2> HIDE DEF B
  <2> QED BY <2>1, LeastNumber
<1>2. n \in Nat
  OBVIOUS
<1>3. CASE n < 10
  <2>1. n \in 0 .. 9 /\ Decimal(n) = <<DigitOf(n)>>
    BY <1>2, <1>3, DecimalFacts
  <2>2. DigitOf(n) \in Digits /\ DigitValue(DigitOf(n)) = n /\ <<>> \in Seq(Digits)
    BY <2>1, DigitFacts
  <2>3. ValueOf(Append(<<>>, DigitOf(n))) = ValueOf(<<>>) * 10 + n
    BY <2>2, ValueAppend
  <2>4. Append(<<>>, DigitOf(n)) = <<DigitOf(n)>>
    OBVIOUS
  <2>5. ValueOf(Decimal(n)) = n
    BY <1>2, <2>1, <2>3, <2>4, ValueEmpty
  <2> QED BY <2>1, <2>5
<1>4. CASE n >= 10
  <2>1. /\ n \div 10 \in Nat /\ n % 10 \in 0 .. 9 /\ n = (n \div 10) * 10 + (n % 10)
        /\ n \div 10 < n
    BY <1>2, <1>4, TenFacts
  <2>2. Decimal(n) = Append(Decimal(n \div 10), DigitOf(n % 10))
    BY <1>2, <1>4, DecimalFacts
  <2>3. Decimal(n \div 10) \in Seq(Digits) /\ DigitOf(n % 10) \in Digits
        /\ DigitValue(DigitOf(n % 10)) = n % 10
    BY <2>1, DecimalFacts, DigitFacts
  <2>4. ValueOf(Decimal(n)) = ValueOf(Decimal(n \div 10)) * 10 + (n % 10)
    <3> DEFINE t == Decimal(n \div 10)
               c == DigitOf(n % 10)
               r == n % 10
    <3>1. t \in Seq(Digits) /\ c \in Digits /\ DigitValue(c) = r /\ Decimal(n) = Append(t, c)
      BY <2>2, <2>3
    <3> HIDE DEF t, c, r
    <3>2. ValueOf(Append(t, c)) = ValueOf(t) * 10 + DigitValue(c)
      BY <3>1, ValueAppend
    <3>3. ValueOf(Decimal(n)) = ValueOf(t) * 10 + r
      BY <3>1, <3>2
    <3> QED BY <3>3 DEF t, r
  <2>5. ValueOf(Decimal(n \div 10)) = n \div 10
    <3> DEFINE k == n \div 10
    <3>1. k \in Nat /\ k < n
      BY <2>1
    <3> HIDE DEF k
    <3>2. k \notin B
      BY <1>1, <1>2, <3>1
    <3>3. ValueOf(Decimal(k)) = k
      BY <3>1, <3>2
    <3> QED BY <3>3 DEF k
  <2>6. Decimal(n) # <<>>
    BY <2>2, <2>3
  <2> QED BY <2>1, <2>4, <2>5, <2>6
<1>5. n < 10 \/ n >= 10
  BY <1>2
<1> QED BY <1>3, <1>4, <1>5

LEMMA DecimalInjective == \A m, n \in Nat : Decimal(m) = Decimal(n) => m = n
<1> SUFFICES ASSUME NEW m \in Nat, NEW n \in Nat, Decimal(m) = Decimal(n) PROVE m = n
  OBVIOUS
<1>1. ValueOf(Decimal(m)) = m /\ ValueOf(Decimal(n)) = n
  BY ValueOfDecimal
<1> QED BY <1>1

(* Where two texts that are cut at the same mark are cut alike *)
Clean(x, c) == \A i \in 1 .. Len(x) : x[i] # c
Cut(a, c, x) == (a \o <<c>>) \o x

CutOk(a, c, x) ==
    /\ Len(Cut(a, c, x)) = Len(a) + 1 + Len(x)
    /\ Len(a) \in Nat /\ Len(x) \in Nat
    /\ \A i \in 1 .. Len(a) : Cut(a, c, x)[i] = a[i]
    /\ Cut(a, c, x)[Len(a) + 1] = c
    /\ \A i \in 1 .. Len(x) : Cut(a, c, x)[Len(a) + 1 + i] = x[i]

LEMMA CutFacts ==
    ASSUME NEW S, NEW c \in S, NEW a \in Seq(S), NEW x \in Seq(S)
    PROVE  Cut(a, c, x) \in Seq(S) /\ CutOk(a, c, x)
<1> DEFINE b == a \o <<c>>
<1>1. /\ b \in Seq(S) /\ Len(b) = Len(a) + 1 /\ Len(a) \in Nat /\ Len(x) \in Nat
      /\ b[Len(a) + 1] = c /\ \A i \in 1 .. Len(a) : b[i] = a[i]
  OBVIOUS
<1> HIDE DEF b
<1>2. /\ b \o x \in Seq(S) /\ Len(b \o x) = Len(b) + Len(x)
      /\ \A i \in 1 .. Len(b) : (b \o x)[i] = b[i]
      /\ \A i \in 1 .. Len(x) : (b \o x)[Len(b) + i] = x[i]
  BY <1>1
<1>3. \A i \in 1 .. Len(a) : i \in 1 .. Len(b)
  BY <1>1
<1>4. Len(a) + 1 \in 1 .. Len(b)
  BY <1>1
<1>5. Cut(a, c, x) = b \o x
  BY DEF Cut, b
<1> QED BY <1>1, <1>2, <1>3, <1>4, <1>5 DEF CutOk

LEMMA SamePlace ==
    ASSUME NEW S, NEW c \in S, NEW a \in Seq(S), NEW x \in Seq(S), NEW b \in Seq(S), NEW y \in Seq(S),
           Cut(a, c, x) = Cut(b, c, y), Len(a) = Len(b)
    PROVE  a = b /\ x = y
<1>0. CutOk(a, c, x) /\ CutOk(b, c, y)
  BY CutFacts
<1>1. /\ Len(a) \in Nat /\ Len(x) \in Nat /\ Len(y) \in Nat
      /\ Len(Cut(a, c, x)) = Len(a) + 1 + Len(x) /\ Len(Cut(b, c, y)) = Len(b) + 1 + Len(y)
  BY <1>0 DEF CutOk
<1>2. Len(x) = Len(y)
  <2>1. Len(a) + 1 + Len(x) = Len(a) + 1 + Len(y)
    BY <1>1
  <2> QED BY <1>1, <2>1
<1>3. \A i \in 1 .. Len(a) : a[i] = b[i]
  <2>1. \A i \in 1 .. Len(a) : Cut(a, c, x)[i] = a[i]
    BY <1>0 DEF CutOk
  <2>2. \A i \in 1 .. Len(b) : Cut(b, c, y)[i] = b[i]
    BY <1>0 DEF CutOk
  <2> QED BY <2>1, <2>2
<1>4. \A i \in 1 .. Len(x) : x[i] = y[i]
  <2>1. \A i \in 1 .. Len(x) : Cut(a, c, x)[Len(a) + 1 + i] = x[i]
    BY <1>0 DEF CutOk
  <2>2. \A i \in 1 .. Len(y) : Cut(b, c, y)[Len(b) + 1 + i] = y[i]
    BY <1>0 DEF CutOk
  <2> QED BY <1>2, <2>1, <2>2
<1>5. a = b
  BY <1>3
<1>6. x = y
  BY <1>2, <1>4
<1> QED BY <1>5, <1>6

LEMMA SplitLast ==
    ASSUME NEW S, NEW c \in S, NEW a \in Seq(S), NEW x \in Seq(S), NEW b \in Seq(S), NEW y \in Seq(S),
           Cut(a, c, x) = Cut(b, c, y), Clean(x, c), Clean(y, c)
    PROVE  a = b /\ x = y
<1>0. CutOk(a, c, x) /\ CutOk(b, c, y)
  BY CutFacts
<1>1. /\ Len(a) \in Nat /\ Len(x) \in Nat /\ Len(b) \in Nat /\ Len(y) \in Nat
      /\ Len(Cut(a, c, x)) = Len(a) + 1 + Len(x) /\ Len(Cut(b, c, y)) = Len(b) + 1 + Len(y)
  BY <1>0 DEF CutOk
<1>2. Len(a) + Len(x) = Len(b) + Len(y)
  <2>1. Len(a) + 1 + Len(x) = Len(b) + 1 + Len(y)
    BY <1>1
  <2>2. PICK p \in Nat, q \in Nat, r \in Nat, t \in Nat :
          p = Len(a) /\ q = Len(x) /\ r = Len(b) /\ t = Len(y)
    BY <1>1
  <2>3. p + 1 + q = r + 1 + t
    BY <2>1, <2>2
  <2>4. p + q = r + t
    BY <2>3
  <2> QED BY <2>2, <2>4
<1>3. ~(Len(a) < Len(b))
  <2> SUFFICES ASSUME Len(a) < Len(b) PROVE FALSE
    OBVIOUS
  <2>1. PICK i \in 1 .. Len(x) : Len(a) + 1 + i = Len(b) + 1
    <3>1. Len(b) - Len(a) \in 1 .. Len(x)
      BY <1>1, <1>2
    <3>2. Len(a) + 1 + (Len(b) - Len(a)) = Len(b) + 1
      BY <1>1
    <3> QED BY <3>1, <3>2
  <2>2. Cut(a, c, x)[Len(a) + 1 + i] = x[i]
    BY <1>0 DEF CutOk
  <2>3. Cut(b, c, y)[Len(b) + 1] = c
    BY <1>0 DEF CutOk
  <2> QED BY <2>1, <2>2, <2>3 DEF Clean
<1>4. ~(Len(b) < Len(a))
  <2> SUFFICES ASSUME Len(b) < Len(a) PROVE FALSE
    OBVIOUS
  <2>1. PICK i \in 1 .. Len(y) : Len(b) + 1 + i = Len(a) + 1
    <3>1. Len(a) - Len(b) \in 1 .. Len(y)
      BY <1>1, <1>2
    <3>2. Len(b) + 1 + (Len(a) - Len(b)) = Len(a) + 1
      BY <1>1
    <3> QED BY <3>1, <3>2
  <2>2. Cut(b, c, y)[Len(b) + 1 + i] = y[i]
    BY <1>0 DEF CutOk
  <2>3. Cut(a, c, x)[Len(a) + 1] = c
    BY <1>0 DEF CutOk
  <2> QED BY <2>1, <2>2, <2>3 DEF Clean
<1>5. Len(a) = Len(b)
  BY <1>1, <1>3, <1>4
<1> QED BY <1>5, SamePlace

LEMMA SplitFirst ==
    ASSUME NEW S, NEW c \in S, NEW a \in Seq(S), NEW x \in Seq(S), NEW b \in Seq(S), NEW y \in Seq(S),
           Cut(a, c, x) = Cut(b, c, y), Clean(a, c), Clean(b, c)
    PROVE  a = b /\ x = y
<1>0. CutOk(a, c, x) /\ CutOk(b, c, y)
  BY CutFacts
<1>1. Len(a) \in Nat /\ Len(b) \in Nat
  OBVIOUS
<1>2. ~(Len(a) < Len(b))
  <2> SUFFICES ASSUME Len(a) < Len(b) PROVE FALSE
    OBVIOUS
  <2>1. Len(a) + 1 \in 1 .. Len(b)
    BY <1>1
  <2>2. Cut(a, c, x)[Len(a) + 1] = c
    BY <1>0 DEF CutOk
  <2>3. \A i \in 1 .. Len(b) : Cut(b, c, y)[i] = b[i]
    BY <1>0 DEF CutOk
  <2> QED BY <2>1, <2>2, <2>3 DEF Clean
<1>3. ~(Len(b) < Len(a))
  <2> SUFFICES ASSUME Len(b) < Len(a) PROVE FALSE
    OBVIOUS
  <2>1. Len(b) + 1 \in 1 .. Len(a)
    BY <1>1
  <2>2. Cut(b, c, y)[Len(b) + 1] = c
    BY <1>0 DEF CutOk
  <2>3. \A i \in 1 .. Len(a) : Cut(a, c, x)[i] = a[i]
    BY <1>0 DEF CutOk
  <2> QED BY <2>1, <2>2, <2>3 DEF Clean
<1>4. Len(a) = Len(b)
  BY <1>1, <1>2, <1>3
<1> QED BY <1>4, SamePlace

-----------------------------------------------------------------------------
(* What is signed says everything. *)
Sym == STRING \union Chars \union Digits \union {"nl", "|", "ntap1"}

Speaks(g) ==                    \* the texts of a grant
    /\ g.user \in Nat /\ g.network \in Nat /\ g.expire \in Nat
    /\ g.node \in Seq(Sym) /\ g.nonce \in Seq(Sym) /\ IsNonce(g.nonce)

LEMMA SymFacts ==
    /\ Seq(Digits) \subseteq Seq(Sym) /\ Seq(STRING) \subseteq Seq(Sym)
    /\ "nl" \in Sym /\ "|" \in Sym /\ "ntap1" \in Sym
    /\ \A n \in Nat : Decimal(n) \in Seq(Sym) /\ Clean(Decimal(n), "nl") /\ Clean(Decimal(n), "|")
    /\ \A s : IsNonce(s) => Clean(s, "nl") /\ Clean(s, "|")
<1>1. Seq(Digits) \subseteq Seq(Sym) /\ Seq(STRING) \subseteq Seq(Sym)
  BY DEF Sym
<1>2. "nl" \in Sym /\ "|" \in Sym /\ "ntap1" \in Sym
  BY DEF Sym
<1>3. ASSUME NEW n \in Nat
      PROVE  Decimal(n) \in Seq(Sym) /\ Clean(Decimal(n), "nl") /\ Clean(Decimal(n), "|")
  <2>1. Decimal(n) \in Seq(Digits)
    BY DecimalFacts
  <2>2. \A i \in 1 .. Len(Decimal(n)) : Decimal(n)[i] \in Digits
    BY <2>1
  <2>3. \A i \in 1 .. Len(Decimal(n)) : Decimal(n)[i] # "nl" /\ Decimal(n)[i] # "|"
    BY <2>2, DigitFacts
  <2> QED BY <1>1, <2>1, <2>3 DEF Clean
<1>4. \A s : IsNonce(s) => Clean(s, "nl") /\ Clean(s, "|")
  BY DEF IsNonce, Clean
<1> QED BY <1>1, <1>2, <1>3, <1>4

LEMMA SigningInjective ==
    ASSUME NEW g, NEW h, Speaks(g), Speaks(h), Signing(g) = Signing(h)
    PROVE  /\ g.user = h.user /\ g.node = h.node /\ g.network = h.network
           /\ g.expire = h.expire /\ g.nonce = h.nonce
<1> DEFINE A1(k) == Decimal(k.user)
           A2(k) == Cut(A1(k), "nl", k.node)
           A3(k) == Cut(A2(k), "nl", Decimal(k.network))
           A4(k) == Cut(A3(k), "nl", Decimal(k.expire))
           A5(k) == Cut(A4(k), "nl", k.nonce)
<1>1. Signing(g) = A5(g) /\ Signing(h) = A5(h)
  BY DEF Signing, Cut
<1>2. ASSUME NEW k, Speaks(k)
      PROVE  /\ A1(k) \in Seq(Sym) /\ A2(k) \in Seq(Sym) /\ A3(k) \in Seq(Sym) /\ A4(k) \in Seq(Sym)
             /\ k.node \in Seq(Sym) /\ Decimal(k.network) \in Seq(Sym)
             /\ Decimal(k.expire) \in Seq(Sym) /\ k.nonce \in Seq(Sym)
             /\ Clean(A1(k), "nl") /\ Clean(Decimal(k.network), "nl")
             /\ Clean(Decimal(k.expire), "nl") /\ Clean(k.nonce, "nl")
  <2>1. /\ A1(k) \in Seq(Sym) /\ k.node \in Seq(Sym) /\ Decimal(k.network) \in Seq(Sym)
        /\ Decimal(k.expire) \in Seq(Sym) /\ k.nonce \in Seq(Sym)
        /\ Clean(A1(k), "nl") /\ Clean(Decimal(k.network), "nl")
        /\ Clean(Decimal(k.expire), "nl") /\ Clean(k.nonce, "nl")
    BY <1>2, SymFacts DEF Speaks
  <2> HIDE DEF A1
  <2>2. A2(k) \in Seq(Sym)
    BY <2>1, SymFacts, CutFacts
  <2> HIDE DEF A2
  <2>3. A3(k) \in Seq(Sym)
    BY <2>1, <2>2, SymFacts, CutFacts
  <2> HIDE DEF A3
  <2>4. A4(k) \in Seq(Sym)
    BY <2>1, <2>3, SymFacts, CutFacts
  <2> QED BY <2>1, <2>2, <2>3, <2>4
<1> HIDE DEF A1
<1>3. A4(g) = A4(h) /\ g.nonce = h.nonce
  <2>1. Cut(A4(g), "nl", g.nonce) = Cut(A4(h), "nl", h.nonce)
    BY <1>1
  <2> HIDE DEF A4
  <2>2. /\ A4(g) \in Seq(Sym) /\ A4(h) \in Seq(Sym)
        /\ g.nonce \in Seq(Sym) /\ h.nonce \in Seq(Sym)
        /\ Clean(g.nonce, "nl") /\ Clean(h.nonce, "nl")
    BY <1>2
  <2> QED BY <2>1, <2>2, SymFacts, SplitLast
<1>4. A3(g) = A3(h) /\ Decimal(g.expire) = Decimal(h.expire)
  <2> HIDE DEF A3
  <2> QED BY <1>2, <1>3, SymFacts, SplitLast
<1>5. A2(g) = A2(h) /\ Decimal(g.network) = Decimal(h.network)
  <2> HIDE DEF A2
  <2> QED BY <1>2, <1>4, SymFacts, SplitLast
<1>6. A1(g) = A1(h) /\ g.node = h.node
  BY <1>2, <1>5, SymFacts, SplitFirst
<1>7. g.user = h.user /\ g.network = h.network /\ g.expire = h.expire
  BY <1>4, <1>5, <1>6, DecimalInjective DEF A1, Speaks
<1> QED BY <1>3, <1>6, <1>7

LEMMA SigningNotEmpty ==
    ASSUME NEW g, Speaks(g)
    PROVE  Signing(g) # <<>>
<1> DEFINE a == Decimal(g.user) \o <<"nl">> \o g.node \o <<"nl">> \o Decimal(g.network)
                \o <<"nl">> \o Decimal(g.expire)
<1>1. Signing(g) = Cut(a, "nl", g.nonce)
  BY DEF Signing, Cut
<1>2. a \in Seq(Sym)
  <2>1. /\ Decimal(g.user) \in Seq(Sym) /\ g.node \in Seq(Sym) /\ Decimal(g.network) \in Seq(Sym)
        /\ Decimal(g.expire) \in Seq(Sym) /\ <<"nl">> \in Seq(Sym)
    <3>1. "nl" \in Sym
      BY SymFacts
    <3>2. <<"nl">> \in Seq(Sym)
      BY <3>1
    <3> QED BY <3>2, SymFacts DEF Speaks
  <2>2. \A s, t \in Seq(Sym) : s \o t \in Seq(Sym)
    OBVIOUS
  <2> QED BY <2>1, <2>2
<1>3. g.nonce \in Seq(Sym)
  BY DEF Speaks
<1> HIDE DEF a
<1>4. Len(Cut(a, "nl", g.nonce)) = Len(a) + 1 + Len(g.nonce) /\ Len(a) \in Nat /\ Len(g.nonce) \in Nat
  <2>1. CutOk(a, "nl", g.nonce)
    BY <1>2, <1>3, SymFacts, CutFacts
  <2> QED BY <2>1 DEF CutOk
<1>5. Len(Cut(a, "nl", g.nonce)) # 0
  <2>1. \A p, q \in Nat : p + 1 + q # 0
    OBVIOUS
  <2> QED BY <1>4, <2>1
<1> QED BY <1>1, <1>5

(* The k-th of the bars in order *)
Below(B, i) == {j \in B : j < i}

LEMMA BarsCount ==
    ASSUME NEW B \in SUBSET Nat, IsFiniteSet(B), NEW n \in Nat, n < Cardinality(B)
    PROVE  \E i \in B : Cardinality(Below(B, i)) = n
<1> DEFINE P == {k \in Nat : k < Cardinality(B) => \E i \in B : Cardinality(Below(B, i)) = k}
<1>0. Cardinality(B) \in Nat /\ \A i : IsFiniteSet(Below(B, i))
  <2>1. \A i : Below(B, i) \in SUBSET B
    BY DEF Below
  <2> QED BY <2>1, FS_CardinalityType, FS_Subset
<1>1. 0 \in P
  <2> SUFFICES ASSUME 0 < Cardinality(B) PROVE \E i \in B : Cardinality(Below(B, i)) = 0
    OBVIOUS
  <2>1. B # {}
    BY <1>0, FS_EmptySet
  <2>2. PICK i \in B : \A j \in B : i <= j
    BY <2>1, LeastNumber
  <2>3. Below(B, i) = {}
    <3>1. \A j \in B : j \in Nat /\ i \in Nat /\ i <= j
      BY <2>2
    <3>2. \A j \in B : ~(j < i)
      BY <3>1
    <3> QED BY <3>2 DEF Below
  <2>4. Cardinality(Below(B, i)) = 0
    BY <2>3, FS_EmptySet
  <2> QED BY <2>4
<1>2. \A k \in P : k + 1 \in P
  <2> SUFFICES ASSUME NEW k \in P PROVE k + 1 \in P
    OBVIOUS
  <2>0. k \in Nat /\ k + 1 \in Nat
    OBVIOUS
  <2> SUFFICES ASSUME k + 1 < Cardinality(B)
               PROVE  \E i \in B : Cardinality(Below(B, i)) = k + 1
    BY <2>0
  <2>1. k < Cardinality(B)
    BY <1>0, <2>0
  <2>2. PICK i \in B : Cardinality(Below(B, i)) = k
    BY <2>1
  <2> DEFINE U == {j \in B : i < j}
  <2>3. U # {}
    <3> SUFFICES ASSUME U = {} PROVE FALSE
      OBVIOUS
    <3>1. B = Below(B, i) \cup {i}
      <4>1. \A j \in B : j \in Nat /\ i \in Nat /\ ~(i < j)
        OBVIOUS
      <4>2. \A j \in B : j < i \/ j = i
        BY <4>1
      <4> QED BY <4>2 DEF Below
    <3>2. i \notin Below(B, i)
      BY DEF Below
    <3>3. Cardinality(B) = Cardinality(Below(B, i)) + 1
      BY <1>0, <3>1, <3>2, FS_AddElement
    <3> QED BY <1>0, <2>0, <2>2, <3>3
  <2>4. PICK u \in U : \A j \in U : u <= j
    <3>1. U \in SUBSET Nat
      OBVIOUS
    <3> HIDE DEF U
    <3> QED BY <2>3, <3>1, LeastNumber
  <2>5. Below(B, u) = Below(B, i) \cup {i}
    <3>1. \A j \in B : j \in Nat /\ i \in Nat /\ u \in Nat /\ i < u
      OBVIOUS
    <3>2. \A j \in B : i < j => u <= j
      BY <2>4
    <3>3. \A j \in B : j < u <=> j < i \/ j = i
      BY <3>1, <3>2
    <3> QED BY <3>3 DEF Below
  <2>6. i \notin Below(B, i)
    BY DEF Below
  <2>7. Cardinality(Below(B, u)) = k + 1
    BY <1>0, <2>2, <2>5, <2>6, FS_AddElement
  <2> QED BY <2>7
<1>3. P = Nat
  <2> HIDE DEF P
  <2>1. P \in SUBSET Nat
    BY DEF P
  <2> QED BY <1>1, <1>2, <2>1, AllNumbers
<1>4. n \in P
  BY <1>3
<1> QED BY <1>4

Rising(q, n) == q \in [0 .. n -> Nat] /\ \A i, j \in 0 .. n : i < j => q[i] < q[j]

Images(q, k) == {q[i] : i \in 0 .. k - 1}

LEMMA RisingCount ==
    ASSUME NEW n \in Nat, NEW q, Rising(q, n)
    PROVE  \A k \in Nat : k <= n + 1 =>
             IsFiniteSet(Images(q, k)) /\ Cardinality(Images(q, k)) = k
<1> DEFINE C(k) == Images(q, k)
           P == {k \in Nat : k <= n + 1 => IsFiniteSet(C(k)) /\ Cardinality(C(k)) = k}
<1>1. 0 \in P
  <2>1. C(0) = {}
    BY DEF Images
  <2> HIDE DEF C
  <2> QED BY <2>1, FS_EmptySet
<1>2. \A k \in P : k + 1 \in P
  <2> SUFFICES ASSUME NEW k \in P PROVE k + 1 \in P
    OBVIOUS
  <2>0. k \in Nat /\ k + 1 \in Nat
    OBVIOUS
  <2> SUFFICES ASSUME k + 1 <= n + 1 PROVE IsFiniteSet(C(k + 1)) /\ Cardinality(C(k + 1)) = k + 1
    BY <2>0
  <2>1. IsFiniteSet(C(k)) /\ Cardinality(C(k)) = k
    BY <2>0
  <2>2. C(k + 1) = C(k) \cup {q[k]}
    <3>1. \A i : i \in 0 .. (k + 1) - 1 <=> i \in 0 .. k - 1 \/ i = k
      BY <2>0
    <3> QED BY <3>1 DEF Images
  <2>3. q[k] \notin C(k)
    <3> SUFFICES ASSUME NEW i \in 0 .. k - 1, q[i] = q[k] PROVE FALSE
      BY DEF Images
    <3>1. i \in 0 .. n /\ k \in 0 .. n /\ i < k
      BY <2>0
    <3>2. q[i] < q[k] /\ q[i] \in Nat /\ q[k] \in Nat
      BY <3>1 DEF Rising
    <3> QED BY <3>2
  <2> HIDE DEF C
  <2> QED BY <2>1, <2>2, <2>3, FS_AddElement
<1>3. P = Nat
  <2> HIDE DEF P
  <2>1. P \in SUBSET Nat
    BY DEF P
  <2> QED BY <1>1, <1>2, <2>1, AllNumbers
<1> QED
  <2> SUFFICES ASSUME NEW k \in Nat, k <= n + 1 PROVE IsFiniteSet(C(k)) /\ Cardinality(C(k)) = k
    OBVIOUS
  <2>1. k \in P
    BY <1>3
  <2> HIDE DEF C
  <2> QED BY <2>1

KthOf(B, k) == CHOOSE i \in B : Cardinality({j \in B : j < i}) = k

LEMMA RisingBars ==
    ASSUME NEW n \in Nat, NEW q, Rising(q, n), NEW B, B = {q[i] : i \in 0 .. n}
    PROVE  /\ Cardinality(B) = n + 1
           /\ \A k \in 0 .. n : KthOf(B, k) = q[k]
<1> DEFINE C(k) == Images(q, k)
<1>0. \A k \in Nat : k <= n + 1 => Cardinality(C(k)) = k
  BY RisingCount
<1>1. B = C(n + 1)
  <2>1. \A i : i \in 0 .. (n + 1) - 1 <=> i \in 0 .. n
    OBVIOUS
  <2> QED BY <2>1 DEF Images
<1>2. Cardinality(B) = n + 1
  <2> HIDE DEF C
  <2>1. n + 1 \in Nat /\ n + 1 <= n + 1
    OBVIOUS
  <2> QED BY <1>0, <1>1, <2>1
<1>3. \A k \in 0 .. n : Cardinality({j \in B : j < q[k]}) = k
  <2> SUFFICES ASSUME NEW k \in 0 .. n PROVE Cardinality({j \in B : j < q[k]}) = k
    OBVIOUS
  <2>1. \A i \in 0 .. n : q[i] < q[k] <=> i \in 0 .. k - 1
    <3> SUFFICES ASSUME NEW i \in 0 .. n PROVE q[i] < q[k] <=> i < k
      OBVIOUS
    <3>1. q[i] \in Nat /\ q[k] \in Nat /\ (i < k => q[i] < q[k]) /\ (k < i => q[k] < q[i])
      BY DEF Rising
    <3>2. i < k \/ k < i \/ i = k
      OBVIOUS
    <3> QED BY <3>1, <3>2
  <2>2. {j \in B : j < q[k]} = C(k)
    <3>1. \A i : i \in 0 .. k - 1 => i \in 0 .. n
      OBVIOUS
    <3> QED BY <2>1, <3>1 DEF Images
  <2> HIDE DEF C
  <2>3. k \in Nat /\ k <= n + 1
    OBVIOUS
  <2> QED BY <1>0, <2>2, <2>3
<1>4. \A k \in 0 .. n : KthOf(B, k) = q[k]
  <2> SUFFICES ASSUME NEW k \in 0 .. n PROVE KthOf(B, k) = q[k]
    OBVIOUS
  <2> DEFINE W(i) == Cardinality({j \in B : j < i}) = k
  <2>1. q[k] \in B /\ W(q[k])
    BY <1>3
  <2>2. \A i \in B : W(i) => i = q[k]
    <3> SUFFICES ASSUME NEW i \in B, W(i) PROVE i = q[k]
      OBVIOUS
    <3>1. PICK m \in 0 .. n : i = q[m]
      OBVIOUS
    <3>2. Cardinality({j \in B : j < i}) = m
      BY <1>3, <3>1
    <3> QED BY <3>1, <3>2
  <2> HIDE DEF W
  <2>3. (CHOOSE i \in B : W(i)) = q[k]
    BY <2>1, <2>2
  <2> QED BY <2>3 DEF W, KthOf
<1> QED BY <1>2, <1>4

(* A text that begins with another *)
Begins(a, t) == Len(a) \in Nat /\ Len(t) \in Nat /\ Len(a) <= Len(t)
                /\ \A i \in 1 .. Len(a) : t[i] = a[i]

LEMMA CutBegins ==
    ASSUME NEW S, NEW c \in S, NEW a \in Seq(S), NEW x \in Seq(S), NEW t,
           Begins(Cut(a, c, x), t)
    PROVE  /\ Begins(a, t) /\ t[Len(a) + 1] = c
           /\ \A i \in 1 .. Len(x) : t[Len(a) + 1 + i] = x[i]
           /\ Len(a) + 1 + Len(x) <= Len(t)
<1>1. CutOk(a, c, x)
  BY CutFacts
<1>2. /\ Len(a) \in Nat /\ Len(x) \in Nat /\ Len(t) \in Nat
      /\ Len(Cut(a, c, x)) = Len(a) + 1 + Len(x) /\ Len(a) + 1 + Len(x) <= Len(t)
  BY <1>1 DEF CutOk, Begins
<1>3. \A i \in 1 .. Len(a) + 1 + Len(x) : t[i] = Cut(a, c, x)[i]
  BY <1>2 DEF Begins
<1>4. \A i \in 1 .. Len(a) : i \in 1 .. Len(a) + 1 + Len(x)
  BY <1>2
<1>5. Len(a) + 1 \in 1 .. Len(a) + 1 + Len(x)
  BY <1>2
<1>6. \A i \in 1 .. Len(x) : Len(a) + 1 + i \in 1 .. Len(a) + 1 + Len(x)
  BY <1>2
<1>7. \A i \in 1 .. Len(a) : t[i] = a[i]
  BY <1>1, <1>3, <1>4 DEF CutOk
<1>8. t[Len(a) + 1] = c
  BY <1>1, <1>3, <1>5 DEF CutOk
<1>9. \A i \in 1 .. Len(x) : t[Len(a) + 1 + i] = x[i]
  BY <1>1, <1>3, <1>6 DEF CutOk
<1>10. Len(a) <= Len(t)
  BY <1>2
<1> QED BY <1>2, <1>7, <1>8, <1>9, <1>10 DEF Begins

LEMMA CutField ==
    ASSUME NEW S, NEW c \in S, NEW a \in Seq(S), NEW x \in Seq(S), NEW t \in Seq(S),
           NEW u, u = Cut(a, c, x), Begins(u, t),
           NEW p \in Nat, p = Len(a) + 1, NEW r \in Nat, r = Len(u) + 1
    PROVE  SubSeq(t, p + 1, r - 1) = x
<1>1. /\ \A i \in 1 .. Len(x) : t[Len(a) + 1 + i] = x[i]
      /\ Len(a) + 1 + Len(x) <= Len(t)
  BY CutBegins
<1>2. CutOk(a, c, x)
  BY CutFacts
<1>3. PICK m \in Nat, n \in Nat : m = Len(a) + 1 /\ n = Len(x)
  OBVIOUS
<1>4. r - 1 = m + n /\ p = m
  BY <1>2, <1>3 DEF CutOk
<1>5. m + n <= Len(t) /\ \A i \in 1 .. n : t[m + i] = x[i]
  BY <1>1, <1>3
<1>6. SubSeq(t, m + 1, m + n) = x
  <2>1. Len(t) \in Nat
    OBVIOUS
  <2>2. \A i \in m + 1 .. m + n : i \in 1 .. Len(t)
    BY <1>5, <2>1
  <2>3. \A i \in m + 1 .. m + n : t[i] \in S
    BY <2>2
  <2>4. /\ SubSeq(t, m + 1, m + n) \in Seq(S)
        /\ Len(SubSeq(t, m + 1, m + n)) = IF m + 1 <= m + n THEN (m + n) - (m + 1) + 1 ELSE 0
        /\ \A i \in 1 .. (m + n) - (m + 1) + 1 : SubSeq(t, m + 1, m + n)[i] = t[(m + 1) + i - 1]
    BY <2>3, SubSeqProperties
  <2>5. (m + n) - (m + 1) + 1 = n
    OBVIOUS
  <2>6. Len(SubSeq(t, m + 1, m + n)) = n
    BY <2>4, <2>5
  <2>7. \A i \in 1 .. n : SubSeq(t, m + 1, m + n)[i] = x[i]
    <3> SUFFICES ASSUME NEW i \in 1 .. n PROVE SubSeq(t, m + 1, m + n)[i] = x[i]
      OBVIOUS
    <3>1. SubSeq(t, m + 1, m + n)[i] = t[(m + 1) + i - 1]
      BY <2>4, <2>5
    <3>2. (m + 1) + i - 1 = m + i
      OBVIOUS
    <3> QED BY <1>5, <3>1, <3>2
  <2> DEFINE w == SubSeq(t, m + 1, m + n)
  <2>8. w \in Seq(S) /\ Len(w) = Len(x) /\ \A i \in 1 .. Len(x) : w[i] = x[i]
    BY <1>3, <2>4, <2>6, <2>7
  <2> HIDE DEF w
  <2>9. w = x
    BY <2>8
  <2> QED BY <2>9 DEF w
<1> QED BY <1>3, <1>4, <1>6

Between(a, x, u, t, p, r) ==
    /\ u = Cut(a, "|", x) /\ Begins(u, t)
    /\ p \in Nat /\ p = Len(a) + 1 /\ r \in Nat /\ r = Len(u) + 1

LEMMA FieldBetween ==
    ASSUME NEW a \in Seq(Sym), NEW x \in Seq(Sym), NEW t \in Seq(Sym), NEW u, NEW p, NEW r,
           Between(a, x, u, t, p, r)
    PROVE  SubSeq(t, p + 1, r - 1) = x
<1>1. "|" \in Sym
  BY SymFacts
<1>2. u = Cut(a, "|", x) /\ Begins(u, t)
  BY DEF Between
<1>3. p \in Nat /\ p = Len(a) + 1 /\ r \in Nat /\ r = Len(u) + 1
  BY DEF Between
<1> QED BY <1>1, <1>2, <1>3, CutField

Inner(s) == {i \in 1 .. Len(s) : s[i] = "|"}

LEMMA CutInner ==
    ASSUME NEW S, "|" \in S, NEW a \in Seq(S), NEW x \in Seq(S), Clean(x, "|")
    PROVE  Inner(Cut(a, "|", x)) = Inner(a) \cup {Len(a) + 1}
<1> DEFINE t == Cut(a, "|", x)
<1>1. /\ Len(t) = Len(a) + 1 + Len(x) /\ Len(a) \in Nat /\ Len(x) \in Nat
      /\ \A i \in 1 .. Len(a) : t[i] = a[i]
      /\ t[Len(a) + 1] = "|"
      /\ \A i \in 1 .. Len(x) : t[Len(a) + 1 + i] = x[i]
  <2>1. CutOk(a, "|", x)
    BY CutFacts
  <2> QED BY <2>1 DEF CutOk
<1> HIDE DEF t
<1>2. \A i \in Nat : i \in 1 .. Len(t) /\ t[i] = "|" => i \in Inner(a) \/ i = Len(a) + 1
  <2> SUFFICES ASSUME NEW i \in Nat, i \in 1 .. Len(t), t[i] = "|", i # Len(a) + 1
               PROVE  i \in Inner(a)
    OBVIOUS
  <2>1. CASE i \in 1 .. Len(a)
    BY <1>1, <2>1 DEF Inner
  <2>2. CASE i \notin 1 .. Len(a)
    <3>1. PICK j \in 1 .. Len(x) : i = Len(a) + 1 + j
      <4>1. i - (Len(a) + 1) \in 1 .. Len(x)
        BY <1>1, <2>2
      <4>2. Len(a) + 1 + (i - (Len(a) + 1)) = i
        BY <1>1
      <4> QED BY <4>1, <4>2
    <3>2. x[j] = "|"
      BY <1>1, <3>1
    <3> QED BY <3>1, <3>2 DEF Clean
  <2> QED BY <2>1, <2>2
<1>3. \A i \in Inner(a) : i \in 1 .. Len(t) /\ t[i] = "|"
  BY <1>1 DEF Inner
<1>4. Len(a) + 1 \in 1 .. Len(t)
  BY <1>1
<1>5. Inner(t) = {i \in Nat : i \in 1 .. Len(t) /\ t[i] = "|"}
  BY <1>1 DEF Inner
<1>6. Inner(a) \subseteq Nat
  BY DEF Inner
<1>7. Inner(t) = Inner(a) \cup {Len(a) + 1}
  BY <1>1, <1>2, <1>3, <1>4, <1>5, <1>6
<1> QED BY <1>7 DEF t

Extends(a, x, t) ==
    /\ t \in Seq(Sym) /\ Len(t) = Len(a) + 1 + Len(x)
    /\ Inner(t) = Inner(a) \cup {Len(a) + 1}
    /\ Len(a) \in Nat /\ Len(x) \in Nat

LEMMA CutExtends ==
    ASSUME NEW a \in Seq(Sym), NEW x \in Seq(Sym), Clean(x, "|"), NEW t, t = Cut(a, "|", x)
    PROVE  Extends(a, x, t)
<1>1. "|" \in Sym
  BY SymFacts
<1>2. t \in Seq(Sym) /\ CutOk(a, "|", x)
  BY <1>1, CutFacts
<1>3. Inner(t) = Inner(a) \cup {Len(a) + 1}
  BY <1>1, CutInner
<1> QED BY <1>2, <1>3 DEF Extends, CutOk

-----------------------------------------------------------------------------
(* A number that was written is read again. *)
LEMMA ParsedDecimal ==
    ASSUME NEW n \in Nat, NEW unsigned
    PROVE  Parsed(Decimal(n), unsigned) = n
<1> DEFINE s == Decimal(n)
<1>1. s \in Seq(Digits) /\ s # <<>> /\ ValueOf(s) = n
  BY DecimalFacts, ValueOfDecimal
<1> HIDE DEF s
<1>2. /\ Len(s) \in Nat /\ Len(s) # 0 /\ 1 \in DOMAIN s /\ DOMAIN s = 1 .. Len(s)
      /\ \A i \in DOMAIN s : s[i] \in Digits
  BY <1>1
<1>3. Skip(s) = s
  <2> DEFINE first == {i \in DOMAIN s : ~Blank(s[i])}
  <2>1. first = DOMAIN s
    BY <1>2, DigitFacts
  <2> DEFINE c == CHOOSE i \in first : \A j \in first : i <= j
  <2>2. c = 1
    <3>1. \A j \in 1 .. Len(s) : 1 <= j
      BY <1>2
    <3>2. 1 \in first /\ \A j \in first : 1 <= j
      BY <1>2, <2>1, <3>1
    <3>3. \A i \in first : (\A j \in first : i <= j) => i = 1
      <4> SUFFICES ASSUME NEW i \in first, \A j \in first : i <= j PROVE i = 1
        OBVIOUS
      <4>1. i <= 1 /\ 1 <= i /\ i \in Int
        BY <1>2, <2>1, <3>2
      <4> QED BY <4>1
    <3> HIDE DEF first
    <3> QED BY <3>2, <3>3
  <2>3. Skip(s) = SubSeq(s, c, Len(s))
    BY <1>2, <2>1 DEF Skip
  <2>4. SubSeq(s, 1, Len(s)) = s
    BY <1>1
  <2> QED BY <2>2, <2>3, <2>4
<1>4. s[1] \notin {"+", "-"}
  BY <1>2, DigitFacts
<1>5. Magnitude(s) = s
  BY <1>4 DEF Magnitude, Signed
<1>6. IsDecimal(s)
  BY <1>1, <1>2 DEF IsDecimal
<1>7. Parsed(s, unsigned) = ValueOf(s)
  BY <1>3, <1>4, <1>5, <1>6 DEF Parsed
<1> QED BY <1>1, <1>7 DEF s

LEMMA PairAppended ==
    ASSUME NEW T, NEW d \in T, NEW e \in T
    PROVE  Append(<<d>>, e) = <<d, e>>
<1>1. <<d>> \in Seq(T) /\ <<d, e>> \in Seq(T) /\ Len(<<d>>) = 1 /\ Len(<<d, e>>) = 2
      /\ <<d>>[1] = d /\ <<d, e>>[1] = d /\ <<d, e>>[2] = e
  OBVIOUS
<1> DEFINE s == <<d>>
           u == <<d, e>>
           t == Append(s, e)
<1>2. s \in Seq(T) /\ u \in Seq(T) /\ Len(s) = 1 /\ Len(u) = 2 /\ s[1] = d /\ u[1] = d /\ u[2] = e
  BY <1>1
<1> HIDE DEF s, u
<1>3. t \in Seq(T) /\ Len(t) = 2 /\ t[1] = d /\ t[2] = e
  <2>1. t \in Seq(T) /\ Len(t) = Len(s) + 1
    BY <1>2, AppendProperties
  <2>2. /\ \A i \in 1 .. Len(s) : t[i] = s[i]
        /\ t[Len(s) + 1] = e
    <3>1. \A a \in Seq(T), c \in T :
            /\ \A i \in 1 .. Len(a) : Append(a, c)[i] = a[i]
            /\ Append(a, c)[Len(a) + 1] = c
      OBVIOUS
    <3> QED BY <1>2, <3>1
  <2>3. Len(s) + 1 = 2 /\ 1 \in 1 .. Len(s)
    BY <1>2
  <2> HIDE DEF t
  <2> QED BY <1>2, <2>1, <2>2, <2>3
<1> HIDE DEF t
<1>4. t = u
  BY <1>2, <1>3
<1> QED BY <1>4 DEF s, t, u

(* The fields of a token that was made *)
LEMMA BodyFields ==
    ASSUME NEW g, Speaks(g), Clean(g.node, "|")
    PROVE  /\ Body(g) \in Seq(Sym) /\ Cardinality(Bars(Body(g))) = 7
           /\ FieldOf(Body(g), 1) = <<"ntap1">> /\ FieldOf(Body(g), 2) = Decimal(g.user)
           /\ FieldOf(Body(g), 3) = g.node /\ FieldOf(Body(g), 4) = Decimal(g.network)
           /\ FieldOf(Body(g), 5) = Decimal(g.expire) /\ FieldOf(Body(g), 6) = g.nonce
<1> DEFINE b  == "|"
           C1 == <<"ntap1">>
           C2 == Cut(C1, b, Decimal(g.user))
           C3 == Cut(C2, b, g.node)
           C4 == Cut(C3, b, Decimal(g.network))
           C5 == Cut(C4, b, Decimal(g.expire))
           C6 == Cut(C5, b, g.nonce)
<1>1. Body(g) = C6
  <2>1. <<"ntap1">> \o <<"|">> = <<"ntap1", "|">>
    <3>1. \A s \in Seq(Sym), e \in Sym : s \o <<e>> = Append(s, e)
      OBVIOUS
    <3>2. <<"ntap1">> \in Seq(Sym) /\ "|" \in Sym
      BY SymFacts
    <3>3. Append(<<"ntap1">>, "|") = <<"ntap1", "|">>
      <4> QED BY PairAppended, SymFacts
    <3> QED BY <3>1, <3>2, <3>3
  <2> QED BY <2>1 DEF Body, Cut
<1>2. /\ b \in Sym /\ C1 \in Seq(Sym) /\ Len(C1) = 1 /\ C1[1] = "ntap1" /\ Inner(C1) = {}
  <2>1. b \in Sym /\ C1 \in Seq(Sym) /\ Len(C1) = 1 /\ C1[1] = "ntap1"
    BY SymFacts
  <2>2. Inner(C1) = {}
    <3>1. \A i \in 1 .. 1 : i = 1
      OBVIOUS
    <3> QED BY <2>1, <3>1 DEF Inner
  <2> QED BY <2>1, <2>2
<1>3. /\ Decimal(g.user) \in Seq(Sym) /\ g.node \in Seq(Sym) /\ Decimal(g.network) \in Seq(Sym)
      /\ Decimal(g.expire) \in Seq(Sym) /\ g.nonce \in Seq(Sym)
      /\ Clean(Decimal(g.user), b) /\ Clean(g.node, b) /\ Clean(Decimal(g.network), b)
      /\ Clean(Decimal(g.expire), b) /\ Clean(g.nonce, b)
  BY SymFacts DEF Speaks
<1> DEFINE F2 == Decimal(g.user)
           F3 == g.node
           F4 == Decimal(g.network)
           F5 == Decimal(g.expire)
           F6 == g.nonce
<1>4. /\ F2 \in Seq(Sym) /\ F3 \in Seq(Sym) /\ F4 \in Seq(Sym) /\ F5 \in Seq(Sym) /\ F6 \in Seq(Sym)
      /\ Clean(F2, b) /\ Clean(F3, b) /\ Clean(F4, b) /\ Clean(F5, b) /\ Clean(F6, b)
  BY <1>3
<1>5. C2 = Cut(C1, b, F2) /\ C3 = Cut(C2, b, F3) /\ C4 = Cut(C3, b, F4)
      /\ C5 = Cut(C4, b, F5) /\ C6 = Cut(C5, b, F6)
  OBVIOUS
<1> HIDE DEF C1, C2, C3, C4, C5, C6, F2, F3, F4, F5, F6
<1>6. /\ C2 \in Seq(Sym) /\ Len(C2) = Len(C1) + 1 + Len(F2)
      /\ Inner(C2) = Inner(C1) \cup {Len(C1) + 1}
      /\ Len(C1) \in Nat /\ Len(F2) \in Nat
  <2>1. Extends(C1, F2, C2)
    BY <1>2, <1>4, <1>5, CutExtends DEF b
  <2> QED BY <2>1 DEF Extends
<1>7. /\ C3 \in Seq(Sym) /\ Len(C3) = Len(C2) + 1 + Len(F3)
      /\ Inner(C3) = Inner(C2) \cup {Len(C2) + 1}
      /\ Len(C2) \in Nat /\ Len(F3) \in Nat
  <2>1. Extends(C2, F3, C3)
    BY <1>6, <1>4, <1>5, CutExtends DEF b
  <2> QED BY <2>1 DEF Extends
<1>8. /\ C4 \in Seq(Sym) /\ Len(C4) = Len(C3) + 1 + Len(F4)
      /\ Inner(C4) = Inner(C3) \cup {Len(C3) + 1}
      /\ Len(C3) \in Nat /\ Len(F4) \in Nat
  <2>1. Extends(C3, F4, C4)
    BY <1>7, <1>4, <1>5, CutExtends DEF b
  <2> QED BY <2>1 DEF Extends
<1>9. /\ C5 \in Seq(Sym) /\ Len(C5) = Len(C4) + 1 + Len(F5)
      /\ Inner(C5) = Inner(C4) \cup {Len(C4) + 1}
      /\ Len(C4) \in Nat /\ Len(F5) \in Nat
  <2>1. Extends(C4, F5, C5)
    BY <1>8, <1>4, <1>5, CutExtends DEF b
  <2> QED BY <2>1 DEF Extends
<1>10. /\ C6 \in Seq(Sym) /\ Len(C6) = Len(C5) + 1 + Len(F6)
      /\ Inner(C6) = Inner(C5) \cup {Len(C5) + 1}
      /\ Len(C5) \in Nat /\ Len(F6) \in Nat /\ Len(C6) \in Nat
  <2>1. Extends(C5, F6, C6)
    BY <1>9, <1>4, <1>5, CutExtends DEF b
  <2> QED BY <2>1 DEF Extends
<1> DEFINE q == [i \in 0 .. 6 |-> IF i = 0 THEN 0 ELSE IF i = 1 THEN Len(C1) + 1
                 ELSE IF i = 2 THEN Len(C2) + 1 ELSE IF i = 3 THEN Len(C3) + 1
                 ELSE IF i = 4 THEN Len(C4) + 1 ELSE IF i = 5 THEN Len(C5) + 1
                 ELSE Len(C6) + 1]
<1>11. /\ q[0] = 0 /\ q[1] = Len(C1) + 1 /\ q[2] = Len(C2) + 1 /\ q[3] = Len(C3) + 1
       /\ q[4] = Len(C4) + 1 /\ q[5] = Len(C5) + 1 /\ q[6] = Len(C6) + 1
  OBVIOUS
<1>12. q \in [0 .. 6 -> Nat]
  BY <1>6, <1>7, <1>8, <1>9, <1>10
<1> HIDE DEF q
<1>13. /\ q[0] < q[1] /\ q[1] < q[2] /\ q[2] < q[3] /\ q[3] < q[4] /\ q[4] < q[5] /\ q[5] < q[6]
       /\ q[0] \in Nat /\ q[1] \in Nat /\ q[2] \in Nat /\ q[3] \in Nat
       /\ q[4] \in Nat /\ q[5] \in Nat /\ q[6] \in Nat
  <2>1. q[0] < q[1] /\ q[0] \in Nat /\ q[1] \in Nat
    BY <1>6, <1>11
  <2>2. q[1] < q[2] /\ q[2] \in Nat
    BY <1>6, <1>7, <1>11
  <2>3. q[2] < q[3] /\ q[3] \in Nat
    BY <1>7, <1>8, <1>11
  <2>4. q[3] < q[4] /\ q[4] \in Nat
    BY <1>8, <1>9, <1>11
  <2>5. q[4] < q[5] /\ q[5] \in Nat
    BY <1>9, <1>10, <1>11
  <2>6. q[5] < q[6] /\ q[6] \in Nat
    BY <1>10, <1>11
  <2> QED BY <2>1, <2>2, <2>3, <2>4, <2>5, <2>6
<1>14. Rising(q, 6)
  <2>1. \A i, j \in 0 .. 6 : i < j => q[i] < q[j]
    BY <1>13
  <2> QED BY <1>12, <2>1 DEF Rising
<1>15. Bars(C6) = {q[i] : i \in 0 .. 6}
  <2>1. Bars(C6) = Inner(C6) \cup {0, Len(C6) + 1}
    <3>1. DOMAIN C6 = 1 .. Len(C6)
      BY <1>10
    <3> QED BY <3>1 DEF Bars, Inner
  <2>2. Bars(C6) = {q[0], q[1], q[2], q[3], q[4], q[5], q[6]}
    BY <1>2, <1>6, <1>7, <1>8, <1>9, <1>10, <1>11, <2>1
  <2>3. 0 .. 6 = {0, 1, 2, 3, 4, 5, 6}
    OBVIOUS
  <2> QED BY <2>2, <2>3
<1>16. /\ Cardinality(Bars(C6)) = 7
       /\ \A k \in 0 .. 6 : KthOf(Bars(C6), k) = q[k]
  <2> HIDE DEF Bars
  <2>1. Cardinality(Bars(C6)) = 6 + 1 /\ \A k \in 0 .. 6 : KthOf(Bars(C6), k) = q[k]
    BY <1>14, <1>15, RisingBars
  <2> QED BY <2>1
<1>17. /\ FieldOf(C6, 1) = SubSeq(C6, q[0] + 1, q[1] - 1)
       /\ FieldOf(C6, 2) = SubSeq(C6, q[1] + 1, q[2] - 1)
       /\ FieldOf(C6, 3) = SubSeq(C6, q[2] + 1, q[3] - 1)
       /\ FieldOf(C6, 4) = SubSeq(C6, q[3] + 1, q[4] - 1)
       /\ FieldOf(C6, 5) = SubSeq(C6, q[4] + 1, q[5] - 1)
       /\ FieldOf(C6, 6) = SubSeq(C6, q[5] + 1, q[6] - 1)
  <2>1. \A k \in 1 .. 6 :
          FieldOf(C6, k) = SubSeq(C6, KthOf(Bars(C6), k - 1) + 1, KthOf(Bars(C6), k) - 1)
    BY DEF FieldOf, KthOf
  <2>2. \A k \in 1 .. 6 : FieldOf(C6, k) = SubSeq(C6, q[k - 1] + 1, q[k] - 1)
    <3> SUFFICES ASSUME NEW k \in 1 .. 6 PROVE FieldOf(C6, k) = SubSeq(C6, q[k - 1] + 1, q[k] - 1)
      OBVIOUS
    <3>1. k - 1 \in 0 .. 6 /\ k \in 0 .. 6
      OBVIOUS
    <3> QED BY <1>16, <2>1, <3>1
  <2>3. 1 - 1 = 0 /\ 2 - 1 = 1 /\ 3 - 1 = 2 /\ 4 - 1 = 3 /\ 5 - 1 = 4 /\ 6 - 1 = 5
    OBVIOUS
  <2> QED BY <2>2, <2>3
<1>18. Begins(C6, C6)
  BY <1>10 DEF Begins
<1>19. Begins(C5, C6)
  BY <1>2, <1>4, <1>5, <1>9, <1>18, CutBegins
<1>20. Begins(C4, C6)
  BY <1>2, <1>4, <1>5, <1>8, <1>19, CutBegins
<1>21. Begins(C3, C6)
  BY <1>2, <1>4, <1>5, <1>7, <1>20, CutBegins
<1>22. Begins(C2, C6)
  BY <1>2, <1>4, <1>5, <1>6, <1>21, CutBegins
<1>23. Begins(C1, C6)
  BY <1>2, <1>4, <1>5, <1>22, CutBegins
<1>24. FieldOf(C6, 1) = <<"ntap1">>
  <2>1. q[0] + 1 = 1 /\ q[1] - 1 = 1
    BY <1>2, <1>11
  <2>2. C6[1] = "ntap1" /\ 1 <= Len(C6) /\ Len(C6) \in Nat
    BY <1>2, <1>10, <1>23 DEF Begins
  <2>3. C6[1] \in Sym
    BY <1>10, <2>2
  <2>4. /\ SubSeq(C6, 1, 1) \in Seq(Sym) /\ Len(SubSeq(C6, 1, 1)) = 1
        /\ SubSeq(C6, 1, 1)[1] = C6[1]
    <3>1. \A i \in 1 .. 1 : C6[i] \in Sym
      BY <2>3
    <3>2. /\ SubSeq(C6, 1, 1) \in Seq(Sym) /\ Len(SubSeq(C6, 1, 1)) = IF 1 <= 1 THEN 1 - 1 + 1 ELSE 0
          /\ \A i \in 1 .. 1 - 1 + 1 : SubSeq(C6, 1, 1)[i] = C6[1 + i - 1]
      BY <3>1, SubSeqProperties
    <3> QED BY <3>2
  <2> DEFINE w == SubSeq(C6, 1, 1)
  <2> HIDE DEF w
  <2>5. w = <<"ntap1">>
    <3>1. w \in Seq(Sym) /\ Len(w) = 1 /\ w[1] = "ntap1"
      BY <2>2, <2>4 DEF w
    <3> QED BY <3>1
  <2> QED BY <1>17, <2>1, <2>5 DEF w
<1>25. FieldOf(C6, 2) = F2
  <2>1. C2 = Cut(C1, "|", F2) /\ Begins(C2, C6)
    BY <1>5, <1>22
  <2>2. q[1] \in Nat /\ q[1] = Len(C1) + 1 /\ q[2] \in Nat /\ q[2] = Len(C2) + 1
    BY <1>11, <1>13
  <2>3. Between(C1, F2, C2, C6, q[1], q[2])
    BY <2>1, <2>2 DEF Between
  <2>4. C1 \in Seq(Sym) /\ F2 \in Seq(Sym) /\ C6 \in Seq(Sym)
    BY <1>4, <1>2, <1>10
  <2>5. SubSeq(C6, q[1] + 1, q[2] - 1) = F2
    BY <2>3, <2>4, FieldBetween
  <2> QED BY <1>17, <2>5
<1>26. FieldOf(C6, 3) = F3
  <2>1. C3 = Cut(C2, "|", F3) /\ Begins(C3, C6)
    BY <1>5, <1>21
  <2>2. q[2] \in Nat /\ q[2] = Len(C2) + 1 /\ q[3] \in Nat /\ q[3] = Len(C3) + 1
    BY <1>11, <1>13
  <2>3. Between(C2, F3, C3, C6, q[2], q[3])
    BY <2>1, <2>2 DEF Between
  <2>4. C2 \in Seq(Sym) /\ F3 \in Seq(Sym) /\ C6 \in Seq(Sym)
    BY <1>4, <1>6, <1>10
  <2>5. SubSeq(C6, q[2] + 1, q[3] - 1) = F3
    BY <2>3, <2>4, FieldBetween
  <2> QED BY <1>17, <2>5
<1>27. FieldOf(C6, 4) = F4
  <2>1. C4 = Cut(C3, "|", F4) /\ Begins(C4, C6)
    BY <1>5, <1>20
  <2>2. q[3] \in Nat /\ q[3] = Len(C3) + 1 /\ q[4] \in Nat /\ q[4] = Len(C4) + 1
    BY <1>11, <1>13
  <2>3. Between(C3, F4, C4, C6, q[3], q[4])
    BY <2>1, <2>2 DEF Between
  <2>4. C3 \in Seq(Sym) /\ F4 \in Seq(Sym) /\ C6 \in Seq(Sym)
    BY <1>4, <1>7, <1>10
  <2>5. SubSeq(C6, q[3] + 1, q[4] - 1) = F4
    BY <2>3, <2>4, FieldBetween
  <2> QED BY <1>17, <2>5
<1>28. FieldOf(C6, 5) = F5
  <2>1. C5 = Cut(C4, "|", F5) /\ Begins(C5, C6)
    BY <1>5, <1>19
  <2>2. q[4] \in Nat /\ q[4] = Len(C4) + 1 /\ q[5] \in Nat /\ q[5] = Len(C5) + 1
    BY <1>11, <1>13
  <2>3. Between(C4, F5, C5, C6, q[4], q[5])
    BY <2>1, <2>2 DEF Between
  <2>4. C4 \in Seq(Sym) /\ F5 \in Seq(Sym) /\ C6 \in Seq(Sym)
    BY <1>4, <1>8, <1>10
  <2>5. SubSeq(C6, q[4] + 1, q[5] - 1) = F5
    BY <2>3, <2>4, FieldBetween
  <2> QED BY <1>17, <2>5
<1>29. FieldOf(C6, 6) = F6
  <2>1. C6 = Cut(C5, "|", F6) /\ Begins(C6, C6)
    BY <1>5, <1>18
  <2>2. q[5] \in Nat /\ q[5] = Len(C5) + 1 /\ q[6] \in Nat /\ q[6] = Len(C6) + 1
    BY <1>11, <1>13
  <2>3. Between(C5, F6, C6, C6, q[5], q[6])
    BY <2>1, <2>2 DEF Between
  <2>4. C5 \in Seq(Sym) /\ F6 \in Seq(Sym) /\ C6 \in Seq(Sym)
    BY <1>4, <1>9, <1>10
  <2>5. SubSeq(C6, q[5] + 1, q[6] - 1) = F6
    BY <2>3, <2>4, FieldBetween
  <2> QED BY <1>17, <2>5
<1> QED BY <1>1, <1>10, <1>16, <1>24, <1>25, <1>26, <1>27, <1>28, <1>29 DEF F2, F3, F4, F5, F6

LEMMA SliceType ==
    ASSUME NEW S, NEW s \in Seq(S), NEW m \in Nat, m >= 1, NEW n \in Int, n <= Len(s)
    PROVE  SubSeq(s, m, n) \in Seq(S)
<1>1. Len(s) \in Nat /\ \A i \in 1 .. Len(s) : s[i] \in S
  OBVIOUS
<1>2. \A i \in m .. n : i \in 1 .. Len(s)
  BY <1>1
<1>3. \A i \in m .. n : s[i] \in S
  BY <1>1, <1>2
<1> QED BY <1>3, SubSeqProperties

LEMMA DigitsOnly ==
    ASSUME NEW s \in Seq(Sym), IsDecimal(s)
    PROVE  s \in Seq(Digits)
<1>1. \A i \in 1 .. Len(s) : s[i] \in Digits
  BY DEF IsDecimal
<1>2. Len(s) \in Nat /\ s = [i \in 1 .. Len(s) |-> s[i]]
  OBVIOUS
<1> QED BY <1>1, <1>2

LEMMA ParsedType ==
    ASSUME NEW s \in Seq(Sym), NEW unsigned
    PROVE  Parsed(s, unsigned) \in Int
<1> DEFINE t == Skip(s)
<1>1. t \in Seq(Sym)
  <2> DEFINE first == {i \in DOMAIN s : ~Blank(s[i])}
             c == CHOOSE i \in first : \A j \in first : i <= j
  <2>1. CASE first = {}
    <3>1. t = <<>>
      BY <2>1 DEF Skip
    <3> QED BY <3>1
  <2>2. CASE first # {}
    <3>1. first \in SUBSET Nat /\ \A i \in first : i >= 1 /\ i \in Nat
      OBVIOUS
    <3>2. t = SubSeq(s, c, Len(s))
      BY <2>2 DEF Skip
    <3>3. c \in first
      <4> HIDE DEF first
      <4>1. \E i \in first : \A j \in first : i <= j
        BY <2>2, <3>1, LeastNumber
      <4> QED BY <4>1
    <3> HIDE DEF first, c
    <3>4. c \in Nat /\ c >= 1
      BY <3>1, <3>3
    <3>5. Len(s) \in Int /\ Len(s) <= Len(s)
      OBVIOUS
    <3> QED BY <3>2, <3>4, <3>5, SliceType
  <2> QED BY <2>1, <2>2
<1> HIDE DEF t
<1>2. Magnitude(t) \in Seq(Sym)
  <2>1. CASE Signed(t)
    <3>1. t # <<>>
      BY <2>1 DEF Signed
    <3>2. Tail(t) \in Seq(Sym)
      BY <1>1, <3>1
    <3> QED BY <2>1, <3>2 DEF Magnitude
  <2>2. CASE ~Signed(t)
    BY <1>1, <2>2 DEF Magnitude
  <2> QED BY <2>1, <2>2
<1>3. IsDecimal(Magnitude(t)) => ValueOf(Magnitude(t)) \in Nat
  BY <1>2, DigitsOnly, ValueType
<1> DEFINE v == ValueOf(Magnitude(t))
<1>4. Parsed(s, unsigned) = IF ~IsDecimal(Magnitude(t)) THEN 0
                            ELSE IF t[1] # "-" THEN v
                            ELSE IF unsigned /\ v # 0 THEN Wide - v ELSE 0
  BY DEF Parsed, t
<1>5. IsDecimal(Magnitude(t)) => v \in Int /\ Wide - v \in Int
  BY <1>3, WideAssumption
<1> HIDE DEF v
<1> QED BY <1>4, <1>5

LEMMA FieldType ==
    ASSUME NEW s \in Seq(Sym), Cardinality(Bars(s)) = 7, NEW k \in 1 .. 6
    PROVE  FieldOf(s, k) \in Seq(Sym)
<1>1. Bars(s) \in SUBSET Nat /\ IsFiniteSet(Bars(s)) /\ \A i \in Bars(s) : i <= Len(s) + 1
  <2>1. Len(s) \in Nat /\ DOMAIN s = 1 .. Len(s)
    OBVIOUS
  <2>2. Bars(s) \in SUBSET (0 .. Len(s) + 1)
    BY <2>1 DEF Bars
  <2>3. IsFiniteSet(0 .. Len(s) + 1)
    BY <2>1, FS_Interval
  <2>4. IsFiniteSet(Bars(s))
    BY <2>2, <2>3, FS_Subset
  <2> QED BY <2>1, <2>2, <2>4
<1>2. ASSUME NEW n \in 0 .. 6
      PROVE  KthOf(Bars(s), n) \in Bars(s)
  <2> DEFINE B == Bars(s)
             W(i) == Cardinality({j \in B : j < i}) = n
  <2> HIDE DEF B
  <2>1. n \in Nat /\ n < Cardinality(B)
    BY DEF B
  <2>2. \E i \in B : Cardinality(Below(B, i)) = n
    BY <1>1, <2>1, BarsCount DEF B
  <2>3. \E i \in B : W(i)
    BY <2>2 DEF Below
  <2> HIDE DEF W
  <2>4. (CHOOSE i \in B : W(i)) \in B
    BY <2>3
  <2> QED BY <2>4 DEF W, KthOf, B
<1> DEFINE p == KthOf(Bars(s), k - 1)
           r == KthOf(Bars(s), k)
<1>3. FieldOf(s, k) = SubSeq(s, p + 1, r - 1)
  BY DEF FieldOf, KthOf
<1>4. p \in Bars(s) /\ r \in Bars(s)
  <2>1. k - 1 \in 0 .. 6 /\ k \in 0 .. 6
    OBVIOUS
  <2> QED BY <1>2, <2>1
<1> HIDE DEF p, r
<1>5. p \in Nat /\ r \in Nat /\ r <= Len(s) + 1 /\ Len(s) \in Nat
  BY <1>1, <1>4
<1>6. p + 1 \in Nat /\ p + 1 >= 1 /\ r - 1 \in Int /\ r - 1 <= Len(s)
  BY <1>5
<1> QED BY <1>3, <1>6, SliceType

-----------------------------------------------------------------------------
(* The tokens that are made and the one that is presented *)
Presented ==
    /\ token.body \in Seq(Sym)
    /\ token.sign = Garbage \/ \E h \in made : token.sign = Hmac(h.key, Signing(h))

TokenInv ==
    /\ made \in SUBSET Grants /\ \A g \in made : Signable(g)
    /\ step \in {"MAKE", "VERIFY", "DONE"}
    /\ step # "MAKE" => Presented
    /\ step = "DONE" =>
         /\ verdict = IF Genuine(token, ctx) THEN Claimed(token.body) ELSE [user |-> 0]
         /\ ctx.now \in Times

LEMMA MadeSpeaks ==
    ASSUME NEW g \in Grants, Signable(g)
    PROVE  Speaks(g) /\ Clean(g.node, "|")
<1>1. /\ g.user \in Int /\ g.node \in Seq(STRING) /\ g.network \in Int /\ g.expire \in Nat
      /\ g.nonce \in Seq(STRING)
  BY GrantsAssumption
<1>2. g.user > 0 /\ g.network > 0 /\ IsNonce(g.nonce) /\ NodeIdOk(g.node)
  BY DEF Signable
<1>3. g.user \in Nat /\ g.network \in Nat
  BY <1>1, <1>2
<1>4. g.node \in Seq(Sym) /\ g.nonce \in Seq(Sym)
  BY <1>1, SymFacts
<1>5. Clean(g.node, "|")
  BY <1>2 DEF NodeIdOk, Contains, Clean
<1> QED BY <1>1, <1>2, <1>3, <1>4, <1>5 DEF Speaks

LEMMA EditedType ==
    ASSUME NEW s \in Seq(Sym), NEW t \in Edited(s)
    PROVE  t \in Seq(Sym)
<1>0. Len(s) \in Nat /\ DOMAIN s = 1 .. Len(s) /\ \A c \in Chars : c \in Sym /\ <<c>> \in Seq(Sym)
  <2>1. \A c \in Chars : c \in Sym
    BY DEF Sym
  <2>2. \A c \in Sym : <<c>> \in Seq(Sym)
    OBVIOUS
  <2> QED BY <2>1, <2>2
<1>1. CASE t = s
  BY <1>1
<1>2. ASSUME NEW i \in 1 .. Len(s) + 1, NEW c \in Chars, t = InsertAt(s, i, c)
      PROVE  t \in Seq(Sym)
  <2>1. SubSeq(s, 1, i - 1) \in Seq(Sym)
    <3>1. 1 \in Nat /\ 1 >= 1 /\ i - 1 \in Int /\ i - 1 <= Len(s)
      BY <1>0
    <3> QED BY <3>1, SliceType
  <2>2. SubSeq(s, i, Len(s)) \in Seq(Sym)
    <3>1. i \in Nat /\ i >= 1 /\ Len(s) \in Int /\ Len(s) <= Len(s)
      BY <1>0
    <3> QED BY <3>1, SliceType
  <2>3. \A a, b, d \in Seq(Sym) : (a \o b) \o d \in Seq(Sym)
    OBVIOUS
  <2> QED BY <1>0, <1>2, <2>1, <2>2, <2>3 DEF InsertAt
<1>3. ASSUME NEW i \in DOMAIN s, t = RemoveAt(s, i)
      PROVE  t \in Seq(Sym)
  <2>1. SubSeq(s, 1, i - 1) \in Seq(Sym)
    <3>1. 1 \in Nat /\ 1 >= 1 /\ i - 1 \in Int /\ i - 1 <= Len(s)
      BY <1>0
    <3> QED BY <3>1, SliceType
  <2>2. SubSeq(s, i + 1, Len(s)) \in Seq(Sym)
    <3>1. i + 1 \in Nat /\ i + 1 >= 1 /\ Len(s) \in Int /\ Len(s) <= Len(s)
      BY <1>0
    <3> QED BY <3>1, SliceType
  <2>3. \A a, d \in Seq(Sym) : a \o d \in Seq(Sym)
    OBVIOUS
  <2> QED BY <1>3, <2>1, <2>2, <2>3 DEF RemoveAt
<1>4. ASSUME NEW i \in DOMAIN s, NEW c \in Chars, t = [s EXCEPT ![i] = c]
      PROVE  t \in Seq(Sym)
  <2>1. c \in Sym
    BY <1>0
  <2> QED BY <1>4, <2>1
<1> QED BY <1>1, <1>2, <1>3, <1>4 DEF Edited

LEMMA TokenStart == TokenInit => TokenInv
BY DEF TokenInit, TokenInv

LEMMA TokenStep == TokenInv /\ [TokenNext]_tokenVars => TokenInv'
<1> SUFFICES ASSUME TokenInv, [TokenNext]_tokenVars PROVE TokenInv'
  OBVIOUS
<1>1. ASSUME NEW g \in Grants, Make(g)
      PROVE  TokenInv'
  BY <1>1 DEF Make, TokenInv
<1>2. ASSUME Present
      PROVE  TokenInv'
  <2>1. PICK g \in made, h \in made : \E body \in Edited(Body(g)) :
          \E sign \in {Hmac(h.key, Signing(h)), Garbage} : token' = [body |-> body, sign |-> sign]
    BY <1>2 DEF Present
  <2>2. PICK body \in Edited(Body(g)), sign \in {Hmac(h.key, Signing(h)), Garbage} :
          token' = [body |-> body, sign |-> sign]
    BY <2>1
  <2>3. Body(g) \in Seq(Sym)
    <3>1. Speaks(g) /\ Clean(g.node, "|")
      BY MadeSpeaks DEF TokenInv
    <3> QED BY <3>1, BodyFields
  <2>4. body \in Seq(Sym)
    BY <2>3, EditedType
  <2>5. token'.body = body /\ token'.sign = sign /\ made' = made /\ step' = "VERIFY"
    BY <1>2, <2>2 DEF Present
  <2>6. Presented'
    BY <2>4, <2>5 DEF Presented
  <2> QED BY <2>5, <2>6 DEF TokenInv
<1>3. ASSUME Verify
      PROVE  TokenInv'
  <2>1. /\ verdict' = IF Genuine(token, ctx') THEN Claimed(token.body) ELSE [user |-> 0]
        /\ ctx'.now \in Times /\ step' = "DONE" /\ step = "VERIFY" /\ made' = made /\ token' = token
    BY <1>3 DEF Verify
  <2>2. Presented'
    BY <2>1 DEF TokenInv, Presented
  <2>3. Genuine(token, ctx)' <=> Genuine(token, ctx')
    BY <2>1 DEF Genuine
  <2>4. verdict' = IF Genuine(token, ctx)' THEN Claimed(token'.body) ELSE [user |-> 0]
    BY <2>1, <2>3
  <2> QED BY <2>1, <2>2, <2>4 DEF TokenInv
<1>4. CASE UNCHANGED tokenVars
  BY <1>4 DEF tokenVars, TokenInv, Presented
<1> QED BY <1>1, <1>2, <1>3, <1>4 DEF TokenNext

LEMMA ClaimedSpeaks ==
    ASSUME NEW t, NEW c, t.body \in Seq(Sym), Genuine(t, c)
    PROVE  Speaks(Claimed(t.body)) /\ Claimed(t.body).user # 0
<1> DEFINE b == t.body
           g == Claimed(b)
<1>1. /\ Cardinality(Bars(b)) = 7
      /\ g.user > 0 /\ g.network > 0 /\ g.expire > 0 /\ IsNonce(g.nonce)
  BY DEF Genuine
<1>2. /\ g.user = Parsed(FieldOf(b, 2), FALSE) /\ g.node = FieldOf(b, 3)
      /\ g.network = Parsed(FieldOf(b, 4), FALSE) /\ g.expire = Parsed(FieldOf(b, 5), TRUE)
      /\ g.nonce = FieldOf(b, 6)
  BY DEF Claimed
<1>3. \A k \in 1 .. 6 : FieldOf(b, k) \in Seq(Sym)
  BY <1>1, FieldType
<1>4. g.user \in Int /\ g.network \in Int /\ g.expire \in Int
  <2>1. FieldOf(b, 2) \in Seq(Sym) /\ FieldOf(b, 4) \in Seq(Sym) /\ FieldOf(b, 5) \in Seq(Sym)
    BY <1>3
  <2>2. /\ Parsed(FieldOf(b, 2), FALSE) \in Int /\ Parsed(FieldOf(b, 4), FALSE) \in Int
        /\ Parsed(FieldOf(b, 5), TRUE) \in Int
    BY <2>1, ParsedType
  <2> HIDE DEF g
  <2> QED BY <1>2, <2>2
<1>5. g.node \in Seq(Sym) /\ g.nonce \in Seq(Sym)
  BY <1>2, <1>3
<1> HIDE DEF g
<1>6. g.user \in Nat /\ g.network \in Nat /\ g.expire \in Nat /\ g.user # 0
  BY <1>1, <1>4
<1>7. Speaks(g) /\ g.user # 0
  BY <1>1, <1>5, <1>6 DEF Speaks
<1> QED BY <1>7 DEF g

(* Accepted only for a grant *)
LEMMA AcceptedIsMade ==
    ASSUME TokenInv, Accepted
    PROVE  \E g \in made :
            /\ g.key = ctx.key /\ g.node = ctx.node /\ g.network = ctx.network
            /\ ctx.now < g.expire
            /\ \A f \in {"user", "node", "network", "expire", "nonce"} : verdict[f] = g[f]
<1> DEFINE c == Claimed(token.body)
<1>1. step = "DONE" /\ verdict.user # 0
  BY DEF Accepted
<1>2. /\ verdict = IF Genuine(token, ctx) THEN c ELSE [user |-> 0]
      /\ ctx.now \in Times /\ Presented
  BY <1>1 DEF TokenInv
<1>3. Genuine(token, ctx) /\ verdict = c
  BY <1>1, <1>2
<1>4. Speaks(c)
  BY <1>2, <1>3, ClaimedSpeaks DEF Presented
<1>5. /\ c.node = ctx.node /\ c.network = ctx.network /\ Current(c.expire, ctx.now)
      /\ token.sign = Hmac(ctx.key, Signing(c))
  BY <1>3 DEF Genuine
<1> HIDE DEF c
<1>6. token.sign # Garbage
  BY <1>4, <1>5, SigningNotEmpty DEF Hmac, Garbage
<1>7. PICK g \in made : token.sign = Hmac(g.key, Signing(g))
  BY <1>2, <1>6 DEF Presented
<1>8. g.key = ctx.key /\ Signing(g) = Signing(c)
  BY <1>5, <1>7 DEF Hmac
<1>9. Speaks(g)
  BY MadeSpeaks DEF TokenInv
<1>10. /\ g.user = c.user /\ g.node = c.node /\ g.network = c.network
       /\ g.expire = c.expire /\ g.nonce = c.nonce
  BY <1>4, <1>8, <1>9, SigningInjective
<1>11. ctx.now < g.expire
  <2>1. ctx.now \in Int
    BY <1>2, ClockAssumption
  <2>2. g.expire \in Int
    BY <1>9 DEF Speaks
  <2> QED BY <1>5, <1>10, <2>1, <2>2 DEF Current
<1>12. \A f \in {"user", "node", "network", "expire", "nonce"} : verdict[f] = g[f]
  <2>1. c["user"] = g["user"] /\ c["node"] = g["node"] /\ c["network"] = g["network"]
        /\ c["expire"] = g["expire"] /\ c["nonce"] = g["nonce"]
    BY <1>10
  <2> QED BY <1>3, <2>1
<1> QED BY <1>5, <1>8, <1>10, <1>11, <1>12

(* and for every grant *)
LEMMA MadeIsAccepted ==
    ASSUME TokenInv, step = "DONE", NEW g \in made, token = TokenOf(g),
           ctx = [key |-> g.key, node |-> g.node, network |-> g.network, now |-> ctx.now],
           ctx.now < g.expire
    PROVE  Accepted
<1> DEFINE b == Body(g)
           c == Claimed(b)
<1>1. Signable(g) /\ Speaks(g) /\ Clean(g.node, "|")
  BY MadeSpeaks DEF TokenInv
<1>2. token.body = b /\ token.sign = Hmac(g.key, Signing(g))
  BY DEF TokenOf
<1>3. /\ Cardinality(Bars(b)) = 7
      /\ FieldOf(b, 1) = <<"ntap1">> /\ FieldOf(b, 2) = Decimal(g.user)
      /\ FieldOf(b, 3) = g.node /\ FieldOf(b, 4) = Decimal(g.network)
      /\ FieldOf(b, 5) = Decimal(g.expire) /\ FieldOf(b, 6) = g.nonce
  BY <1>1, BodyFields
<1>4. g.user \in Nat /\ g.network \in Nat /\ g.expire \in Nat
  BY <1>1 DEF Speaks
<1> HIDE DEF b
<1>5. /\ c.user = g.user /\ c.node = g.node /\ c.network = g.network
      /\ c.expire = g.expire /\ c.nonce = g.nonce
  BY <1>3, <1>4, ParsedDecimal DEF Claimed
<1> HIDE DEF c
<1>6. Signing(c) = Signing(g) /\ Signable(c)
  BY <1>1, <1>5 DEF Signing, Signable
<1>7. ctx.key = g.key /\ ctx.node = g.node /\ ctx.network = g.network
  <2> DEFINE n == ctx.now
  <2> HIDE DEF n
  <2>1. ctx = [key |-> g.key, node |-> g.node, network |-> g.network, now |-> n]
    BY DEF n
  <2> QED BY <2>1
<1>8. Current(c.expire, ctx.now)
  <2>1. ctx.now \in Int
    BY ClockAssumption DEF TokenInv
  <2> QED BY <1>4, <1>5, <2>1 DEF Current
<1>9. Genuine(token, ctx)
  <2>1. c = Claimed(token.body)
    BY <1>2 DEF c
  <2>2. /\ Cardinality(Bars(token.body)) = 7 /\ FieldOf(token.body, 1) = <<"ntap1">>
    BY <1>2, <1>3
  <2>3. /\ c.user > 0 /\ NodeIdOk(c.node) /\ c.network > 0 /\ c.expire > 0 /\ IsNonce(c.nonce)
    BY <1>6 DEF Signable
  <2>4. c.node = ctx.node /\ c.network = ctx.network /\ token.sign = Hmac(ctx.key, Signing(c))
    BY <1>2, <1>5, <1>6, <1>7
  <2> QED BY <1>6, <1>8, <2>1, <2>2, <2>3, <2>4 DEF Genuine
<1>10. verdict = c
  BY <1>2, <1>9 DEF TokenInv, c
<1>11. c.user # 0
  BY <1>1, <1>4, <1>5 DEF Signable
<1> QED BY <1>10, <1>11 DEF Accepted

LEMMA TokenSafe == TokenInv => OnlyMadeTokens
<1> SUFFICES ASSUME TokenInv PROVE OnlyMadeTokens
  OBVIOUS
<1>1. Accepted =>
        \E g \in made :
            /\ g.key = ctx.key /\ g.node = ctx.node /\ g.network = ctx.network
            /\ ctx.now < g.expire
            /\ \A f \in {"user", "node", "network", "expire", "nonce"} : verdict[f] = g[f]
  BY AcceptedIsMade
<1>2. step = "DONE" =>
        \A g \in made :
            /\ token = TokenOf(g)
            /\ ctx = [key |-> g.key, node |-> g.node, network |-> g.network, now |-> ctx.now]
            /\ ctx.now < g.expire
            => Accepted
  BY MadeIsAccepted
<1> QED BY <1>1, <1>2 DEF OnlyMadeTokens

(* Whatever is sent as a token, it is accepted exactly when it was made     *)
(* with the same key for the same node and network and has not expired,     *)
(* and then its fields are those it was made with: the whole of             *)
(* ntap_direct_token_make and ntap_direct_token_verify.                     *)
THEOREM TokensAreMade == TokenSpec => []OnlyMadeTokens
<1>1. TokenSpec => []TokenInv
  BY TokenStart, TokenStep, PTL DEF TokenSpec
<1> QED BY <1>1, TokenSafe, PTL
=============================================================================
