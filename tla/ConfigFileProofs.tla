-------------------------- MODULE ConfigFileProofs --------------------------
(***************************************************************************)
(* ConfigFile: what ntap_config_load promises for every file, however it   *)
(* was written, cut short or edited, whatever its characters and for every *)
(* size of its limits.                                                     *)
(*                                                                         *)
(* The loader goes through the text once, with one section and one table   *)
(* in hand; the meaning of a file is stated over all its lines at once.    *)
(* What connects them is SoFar: the section and the table say what the     *)
(* lines before a place say.                                               *)
(*                                                                         *)
(* The second half is about the one file that the window writes, whole or  *)
(* cut short.  Its lines are numbered, Body(k) is what line k says and     *)
(* From(k) the file from there on.  What connects a step of the loader to  *)
(* the window is Here: exactly the entries above line k are in the table.  *)
(***************************************************************************)
EXTENDS ConfigFile, FiniteSetTheorems, SequenceTheorems, WellFoundedInduction, TLAPS

-----------------------------------------------------------------------------
(* Least and greatest numbers, parts of sequences *)

(* A set of numbers has a least one. *)
LEMMA LeastNumber ==
    ASSUME NEW T \in SUBSET Nat, T # {}
    PROVE  \E n \in T : \A m \in T : n <= m
<1> DEFINE R == OpToRel(<, Nat)
<1>1. \A m, n \in Nat : <<m, n>> \in R <=> m < n
  BY DEF OpToRel
<1>2. IsWellFoundedOn(R, Nat)
  BY NatLessThanWellFounded
<1> HIDE DEF R
<1>3. PICK n \in T : \A m \in T : ~(<<m, n>> \in R)
  BY <1>2, WFMin
<1>4. \A m \in T : m \in Nat /\ n \in Nat /\ ~(m < n)
  BY <1>1, <1>3
<1> QED BY <1>4

LEMMA MinFacts ==
    ASSUME NEW T \in SUBSET Nat, T # {}
    PROVE  Min(T) \in T /\ \A m \in T : Min(T) <= m
<1> DEFINE W(n) == n \in T /\ \A m \in T : n <= m
<1>1. \E n \in T : \A m \in T : n <= m
  BY LeastNumber
<1> QED BY <1>1 DEF Min

LEMMA MinIs ==
    ASSUME NEW T \in SUBSET Nat, NEW n \in T, \A m \in T : n <= m
    PROVE  Min(T) = n
<1>1. Min(T) \in T /\ \A m \in T : Min(T) <= m
  BY MinFacts
<1>2. Min(T) \in Nat /\ n \in Nat /\ Min(T) <= n /\ n <= Min(T)
  BY <1>1
<1> QED BY <1>2

LEMMA MaxFacts ==
    ASSUME NEW T \in SUBSET Nat, T # {}, NEW n \in Nat, \A m \in T : m < n
    PROVE  Max(T) \in T /\ \A m \in T : m <= Max(T)
<1> DEFINE U == {k \in Nat : \A m \in T : m <= k}
<1>1. U \in SUBSET Nat /\ n \in U
  OBVIOUS
<1>2. PICK k \in U : \A l \in U : k <= l
  BY <1>1, LeastNumber
<1>3. k \in T
  <2> SUFFICES ASSUME k \notin T PROVE FALSE
    OBVIOUS
  <2>1. k \in Nat /\ \A m \in T : m \in Nat /\ m <= k /\ m # k
    OBVIOUS
  <2>2. k - 1 \in Nat /\ \A m \in T : m <= k - 1
    <3>1. PICK m \in T : TRUE
      OBVIOUS
    <3>2. m \in Nat /\ m <= k /\ m # k
      BY <2>1
    <3>3. k # 0
      BY <2>1, <3>2
    <3> QED BY <2>1, <3>3
  <2>3. k <= k - 1
    BY <1>2, <2>2
  <2> QED BY <2>1, <2>3
<1>4. \A m \in T : k >= m
  BY <1>2
<1>5. \E x \in T : \A m \in T : x >= m
  BY <1>3, <1>4
<1>6. Max(T) \in T /\ \A m \in T : Max(T) >= m
  BY <1>5 DEF Max
<1>7. Max(T) \in Nat /\ \A m \in T : m \in Nat
  BY <1>6
<1> QED BY <1>6, <1>7

LEMMA MaxIs ==
    ASSUME NEW T \in SUBSET Nat, NEW n \in T, \A m \in T : m <= n
    PROVE  Max(T) = n
<1>1. \A m \in T : n >= m
  OBVIOUS
<1>2. Max(T) \in T /\ Max(T) >= n
  BY <1>1 DEF Max
<1>3. Max(T) \in Nat /\ n \in Nat /\ Max(T) <= n
  BY <1>2
<1> QED BY <1>2, <1>3

Stores(g, f, k, v) ==
    /\ g = [x \in DOMAIN g |-> g[x]]
    /\ DOMAIN g = DOMAIN f \cup {k}
    /\ g[k] = v
    /\ \A x \in DOMAIN f : x # k => g[x] = f[x]

LEMMA StoreFacts ==
    ASSUME NEW f, NEW k, NEW v
    PROVE  Stores(Store(f, k, v), f, k, v)
<1> DEFINE g == Store(f, k, v)
<1>1. g = [x \in DOMAIN f \cup {k} |-> IF x = k THEN v ELSE f[x]]
  BY DEF Store
<1> HIDE DEF g
<1>2. DOMAIN g = DOMAIN f \cup {k} /\ g[k] = v /\ \A x \in DOMAIN f : x # k => g[x] = f[x]
  BY <1>1
<1>3. g = [x \in DOMAIN g |-> g[x]]
  BY <1>1
<1> QED BY <1>2, <1>3 DEF g, Stores

LEMMA SliceFacts ==
    ASSUME NEW S, NEW s \in Seq(S), NEW m \in Nat, m >= 1, NEW n \in Int, n <= Len(s)
    PROVE  /\ SubSeq(s, m, n) \in Seq(S)
           /\ Len(SubSeq(s, m, n)) = IF m <= n THEN n - m + 1 ELSE 0
           /\ \A i \in 1 .. n - m + 1 : SubSeq(s, m, n)[i] = s[m + i - 1]
<1>1. Len(s) \in Nat /\ \A i \in 1 .. Len(s) : s[i] \in S
  OBVIOUS
<1>2. \A i \in m .. n : i \in 1 .. Len(s)
  BY <1>1
<1>3. \A i \in m .. n : s[i] \in S
  BY <1>1, <1>2
<1> QED BY <1>3, SubSeqProperties

(* x is the part of s from m to n. *)
Slice(x, s, m, n) ==
    /\ Len(x) = IF m <= n THEN n - m + 1 ELSE 0
    /\ \A i \in 1 .. n - m + 1 : x[i] = s[m + i - 1]

LEMMA SliceIs ==
    \A S : \A s \in Seq(S), m \in Nat, n \in Int :
      m >= 1 /\ n <= Len(s) => SubSeq(s, m, n) \in Seq(S) /\ Slice(SubSeq(s, m, n), s, m, n)
  BY SliceFacts DEF Slice

LEMMA SliceOfSlice ==
    ASSUME NEW S, NEW s \in Seq(S), NEW p \in Nat, p >= 1, p <= Len(s) + 1,
           NEW t, t = SubSeq(s, p, Len(s)),
           NEW a \in Nat, a >= 1, NEW b \in Nat, b <= Len(t)
    PROVE  SubSeq(t, a, b) = SubSeq(s, p + a - 1, p + b - 1)
<1>1. /\ t \in Seq(S) /\ Len(t) = Len(s) - p + 1 /\ Len(s) \in Nat
      /\ \A i \in 1 .. Len(s) - p + 1 : t[i] = s[p + i - 1]
  <2>1. Len(s) \in Nat /\ Len(s) \in Int /\ Len(s) <= Len(s)
    OBVIOUS
  <2>2. /\ SubSeq(s, p, Len(s)) \in Seq(S)
        /\ Len(SubSeq(s, p, Len(s))) = IF p <= Len(s) THEN Len(s) - p + 1 ELSE 0
        /\ \A i \in 1 .. Len(s) - p + 1 : SubSeq(s, p, Len(s))[i] = s[p + i - 1]
    BY <2>1, SliceFacts
  <2> QED BY <2>1, <2>2
<1> DEFINE x == SubSeq(t, a, b)
           y == SubSeq(s, p + a - 1, p + b - 1)
<1>2. /\ x \in Seq(S) /\ Len(x) = IF a <= b THEN b - a + 1 ELSE 0
      /\ \A i \in 1 .. b - a + 1 : x[i] = t[a + i - 1]
  <2>1. a \in Nat /\ a >= 1 /\ b \in Int /\ b <= Len(t) /\ t \in Seq(S)
    BY <1>1
  <2>2. x \in Seq(S) /\ Slice(x, t, a, b)
    BY <2>1, SliceIs
  <2> HIDE DEF x
  <2> QED BY <2>2 DEF Slice
<1>3. /\ y \in Seq(S) /\ Len(y) = IF a <= b THEN b - a + 1 ELSE 0
      /\ \A i \in 1 .. b - a + 1 : y[i] = s[(p + a - 1) + i - 1]
  <2>1. p + a - 1 \in Nat /\ p + a - 1 >= 1 /\ p + b - 1 \in Int /\ p + b - 1 <= Len(s)
    BY <1>1
  <2>2. y \in Seq(S) /\ Slice(y, s, p + a - 1, p + b - 1)
    BY <2>1, SliceIs
  <2>3. (p + b - 1) - (p + a - 1) + 1 = b - a + 1 /\ (p + a - 1 <= p + b - 1 <=> a <= b)
    OBVIOUS
  <2> HIDE DEF y
  <2> QED BY <2>2, <2>3 DEF Slice
<1> HIDE DEF x, y
<1>4. \A i \in 1 .. b - a + 1 : x[i] = y[i]
  <2> SUFFICES ASSUME NEW i \in 1 .. b - a + 1 PROVE x[i] = y[i]
    OBVIOUS
  <2>1. a + i - 1 \in 1 .. Len(s) - p + 1
    BY <1>1
  <2>2. t[a + i - 1] = s[p + (a + i - 1) - 1]
    BY <1>1, <2>1
  <2>3. p + (a + i - 1) - 1 = (p + a - 1) + i - 1
    BY <2>1
  <2> QED BY <1>2, <1>3, <2>2, <2>3
<1>5. Len(x) = Len(y) /\ \A i \in 1 .. Len(x) : x[i] = y[i]
  BY <1>2, <1>3, <1>4
<1>6. x = y
  <2>1. x \in Seq(S) /\ y \in Seq(S)
    BY <1>2, <1>3
  <2> QED BY <1>5, <2>1
<1> QED BY <1>6 DEF x, y

-----------------------------------------------------------------------------
(* The lines of a file *)

(* What a file may consist of *)
Literals == {"[", "]", "=", " ", ":", NL, "client", "server_addr", "username", "password",
             "network_id", "tap_name", "mtu", "log", "level", "file", "1", "ntap-c0",
             "host", "user", "secret", "tap", "info", "path", "x"}
EditChars  == UNION {ToSet(e) : e \in Edits}
Characters == TypedChars \cup EditChars \cup Literals

LineStarts(s) == {p \in 1 .. Len(s) : p = 1 \/ s[p - 1] = NL}
Ends(s, p)    == {q \in p .. Len(s) : s[q] = NL} \union {Len(s)}
LineEnd(s, p) == Min(Ends(s, p))
LineOf(s, p)  == Trim(SubSeq(s, p, LineEnd(s, p)))
Fit(s)        == \A p \in LineStarts(s) : LineEnd(s, p) - p + 1 <= LineMax

EndFacts(s, p) ==
    /\ LineEnd(s, p) \in p .. Len(s)
    /\ LineEnd(s, p) = Len(s) \/ s[LineEnd(s, p)] = NL
    /\ \A q \in p .. Len(s) : q < LineEnd(s, p) => s[q] # NL

LEMMA LineEndFacts ==
    ASSUME NEW s \in Seq(Characters), NEW p \in LineStarts(s)
    PROVE  EndFacts(s, p)
<1>1. p \in Nat /\ p >= 1 /\ p <= Len(s) /\ Len(s) \in Nat
  BY DEF LineStarts
<1>2. Ends(s, p) \in SUBSET Nat /\ Ends(s, p) # {}
  BY <1>1 DEF Ends
<1>3. LineEnd(s, p) \in Ends(s, p) /\ \A q \in Ends(s, p) : LineEnd(s, p) <= q
  BY <1>2, MinFacts DEF LineEnd
<1> DEFINE e == LineEnd(s, p)
<1> HIDE DEF e
<1>4. e \in p .. Len(s) /\ (e = Len(s) \/ s[e] = NL)
  BY <1>1, <1>3 DEF Ends, e
<1>5. \A q \in p .. Len(s) : q < e => s[q] # NL
  <2> SUFFICES ASSUME NEW q \in p .. Len(s), q < e, s[q] = NL PROVE FALSE
    OBVIOUS
  <2>1. q \in Ends(s, p)
    BY DEF Ends
  <2>2. e <= q
    BY <1>3, <2>1 DEF e
  <2>3. e \in Nat /\ q \in Nat
    BY <1>1, <1>4
  <2> QED BY <2>2, <2>3
<1> QED BY <1>4, <1>5 DEF EndFacts, e

(* Where the line behind begins *)
LEMMA NextStart ==
    ASSUME NEW s \in Seq(Characters), NEW p \in LineStarts(s), NEW n, n = LineEnd(s, p) + 1
    PROVE  /\ n \in LineStarts(s) \cup {Len(s) + 1}
           /\ \A q \in LineStarts(s) : q < n <=> q < p \/ q = p
<1> DEFINE e == LineEnd(s, p)
<1>1. /\ e \in p .. Len(s) /\ (e = Len(s) \/ s[e] = NL)
      /\ \A q \in p .. Len(s) : q < e => s[q] # NL
  BY LineEndFacts DEF EndFacts
<1> HIDE DEF e
<1>0. n = e + 1
  BY DEF e
<1>2. p \in Nat /\ p >= 1 /\ p <= Len(s) /\ Len(s) \in Nat /\ e \in Nat
  BY <1>1 DEF LineStarts
<1>3. n \in LineStarts(s) \cup {Len(s) + 1}
  <2>1. CASE e = Len(s)
    BY <1>0, <2>1
  <2>2. CASE e # Len(s)
    <3>1. n \in 1 .. Len(s) /\ n - 1 = e
      BY <1>0, <1>1, <1>2, <2>2
    <3> QED BY <1>1, <2>2, <3>1 DEF LineStarts
  <2> QED BY <2>1, <2>2
<1>4. ASSUME NEW q \in LineStarts(s) PROVE q < n <=> q < p \/ q = p
  <2>1. q \in Nat /\ q <= Len(s) /\ (q = 1 \/ s[q - 1] = NL)
    BY DEF LineStarts
  <2>2. q < p \/ q = p => q < n
    BY <1>0, <1>1, <1>2, <2>1
  <2>3. ASSUME q < n, p < q PROVE FALSE
    <3>1. q - 1 \in p .. Len(s) /\ q - 1 < e /\ q # 1
      BY <1>0, <1>2, <2>1, <2>3
    <3> QED BY <1>1, <2>1, <3>1
  <2>4. q < p \/ q = p \/ p < q
    BY <1>2, <2>1
  <2> QED BY <2>2, <2>3, <2>4
<1> QED BY <1>3, <1>4

(* fgets takes the line, when it fits. *)
LEMMA ChunkIsLine ==
    ASSUME NEW s \in Seq(Characters), Fit(s), NEW p \in LineStarts(s),
           NEW t, t = SubSeq(s, p, Len(s))
    PROVE  /\ ChunkLen(t) = LineEnd(s, p) - p + 1
           /\ Trim(SubSeq(t, 1, ChunkLen(t))) = LineOf(s, p)
           /\ SubSeq(t, ChunkLen(t) + 1, Len(t)) = SubSeq(s, LineEnd(s, p) + 1, Len(s))
<1> DEFINE e == LineEnd(s, p)
           c == e - p + 1
<1>1. /\ e \in p .. Len(s) /\ (e = Len(s) \/ s[e] = NL)
      /\ \A q \in p .. Len(s) : q < e => s[q] # NL
      /\ c <= LineMax
  BY LineEndFacts DEF EndFacts, Fit
<1> HIDE DEF e
<1>2. p \in Nat /\ p >= 1 /\ p <= Len(s) /\ Len(s) \in Nat /\ e \in Nat /\ c \in Nat /\ LineMax \in Nat
  BY <1>1, BoundsAssumption DEF LineStarts
<1>3. /\ t \in Seq(Characters) /\ Len(t) = Len(s) - p + 1
      /\ \A i \in 1 .. Len(s) - p + 1 : t[i] = s[p + i - 1]
  BY <1>2, SliceFacts
<1>4. Chars(t, {NL}) \in SUBSET Nat /\ \A i : i \in Chars(t, {NL}) <=> i \in 1 .. Len(t) /\ t[i] = NL
  BY <1>3 DEF Chars
<1> DEFINE T == {LineMax, Len(t)} \union Chars(t, {NL})
<1>5. T \in SUBSET Nat
  <2>1. Len(t) \in Nat
    BY <1>3
  <2> QED BY <1>2, <1>4, <2>1
<1>6. c \in T
  <2>1. CASE e = Len(s)
    BY <1>3, <2>1
  <2>2. CASE s[e] = NL
    <3>1. c \in 1 .. Len(s) - p + 1 /\ p + c - 1 = e
      BY <1>1, <1>2
    <3>2. t[c] = s[p + c - 1]
      <4> HIDE DEF c
      <4> QED BY <1>3, <3>1
    <3>3. c \in Chars(t, {NL})
      <4> HIDE DEF c
      <4> QED BY <1>3, <1>4, <2>2, <3>1, <3>2
    <3> QED BY <3>3
  <2> QED BY <1>1, <2>1, <2>2
<1>7. \A m \in T : c <= m
  <2>1. c <= LineMax /\ c <= Len(t)
    BY <1>1, <1>2, <1>3
  <2>2. ASSUME NEW m \in Chars(t, {NL}), m < c PROVE FALSE
    <3>1. m \in 1 .. Len(s) - p + 1 /\ t[m] = NL
      BY <1>3, <1>4
    <3>2. s[p + m - 1] = NL
      BY <1>3, <3>1
    <3>3. p + m - 1 \in p .. Len(s) /\ p + m - 1 < e
      BY <1>2, <2>2, <3>1
    <3> QED BY <1>1, <3>2, <3>3
  <2>3. \A m \in Chars(t, {NL}) : c <= m
    <3> SUFFICES ASSUME NEW m \in Chars(t, {NL}) PROVE c <= m
      OBVIOUS
    <3>1. m \in Nat /\ ~(m < c)
      BY <1>4, <2>2
    <3> QED BY <1>2, <3>1
  <2> QED BY <2>1, <2>3
<1>8. ChunkLen(t) = c
  <2>1. Min(T) = c
    <3> HIDE DEF T, c
    <3> QED BY <1>5, <1>6, <1>7, MinIs
  <2> QED BY <2>1 DEF ChunkLen
<1>9. SubSeq(t, 1, c) = SubSeq(s, p, e)
  <2>1. 1 \in Nat /\ 1 >= 1 /\ c \in Nat /\ c <= Len(t) /\ p <= Len(s) + 1
    BY <1>1, <1>2, <1>3
  <2>2. SubSeq(t, 1, c) = SubSeq(s, p + 1 - 1, p + c - 1)
    <3> HIDE DEF c
    <3> QED BY <1>2, <2>1, SliceOfSlice
  <2>3. p + 1 - 1 = p /\ p + c - 1 = e
    BY <1>2
  <2> QED BY <2>2, <2>3
<1>10. SubSeq(t, c + 1, Len(t)) = SubSeq(s, e + 1, Len(s))
  <2>1. c + 1 \in Nat /\ c + 1 >= 1 /\ Len(t) \in Nat /\ Len(t) <= Len(t) /\ p <= Len(s) + 1
    BY <1>1, <1>2, <1>3
  <2>2. SubSeq(t, c + 1, Len(t)) = SubSeq(s, p + (c + 1) - 1, p + Len(t) - 1)
    <3> HIDE DEF c
    <3> QED BY <1>2, <2>1, SliceOfSlice
  <2>3. p + (c + 1) - 1 = e + 1 /\ p + Len(t) - 1 = Len(s)
    BY <1>2, <1>3
  <2> QED BY <2>2, <2>3
<1> QED BY <1>8, <1>9, <1>10 DEF LineOf, e

-----------------------------------------------------------------------------
(* What the lines say *)

(* What the file says, and what its lines before n say *)
Heads(s)     == {p \in LineStarts(s) : IsSection(LineOf(s, p))}
Above(s, p)  == {q \in Heads(s) : q < p}
Within(s, p) == IF Above(s, p) = {} THEN <<>> ELSE SectionName(LineOf(s, Max(Above(s, p))))
EntryLines(s) == {p \in LineStarts(s) : IsEntry(LineOf(s, p), Within(s, p))}
KeyAt(s, p)  == <<Within(s, p), Key(LineOf(s, p))>>
Read(s, n)   == {p \in EntryLines(s) : p < n}
SetAt(s, n, k) == {p \in Read(s, n) : KeyAt(s, p) = k}
KeysRead(s, n) == {KeyAt(s, p) : p \in Read(s, n)}
LastValue(s, n, k) == Value(LineOf(s, Max(SetAt(s, n, k))))

HasRoom(l) == ~TooLong(Key(l), KeyMax) /\ ~TooLong(Value(l), ValueMax)
WellFormed(s, p) ==
    /\ p \in EntryLines(s) \/ p \in Heads(s) \/ Ignored(LineOf(s, p))
    /\ p \in Heads(s) => HasName(LineOf(s, p))
    /\ p \in EntryLines(s) => HasRoom(LineOf(s, p))
Malformed(s) ==
    \/ \E p \in LineStarts(s) : ~WellFormed(s, p)
    \/ Cardinality({KeyAt(s, p) : p \in EntryLines(s)}) > EntriesMax

SoFar(s, n, sec, ent) ==
    /\ sec = Within(s, n)
    /\ \A p \in LineStarts(s) : p < n => WellFormed(s, p)
    /\ ent = [k \in KeysRead(s, n) |-> LastValue(s, n, k)]
    /\ Cardinality(KeysRead(s, n)) <= EntriesMax

(* n is where the line behind the one at p begins. *)
Passes(s, p, n) ==
    /\ p \in LineStarts(s)
    /\ \A q \in LineStarts(s) : q < n <=> q < p \/ q = p

LEMMA StartsAreNumbers == \A s \in Seq(Characters) : LineStarts(s) \in SUBSET Nat
  BY DEF LineStarts

LEMMA SameSection ==
    ASSUME NEW s \in Seq(Characters), NEW p, NEW n, Passes(s, p, n), p \notin Heads(s)
    PROVE  Within(s, n) = Within(s, p)
<1>1. Above(s, n) = Above(s, p)
  BY DEF Above, Heads, Passes
<1> QED BY <1>1 DEF Within

LEMMA NewSection ==
    ASSUME NEW s \in Seq(Characters), NEW p, NEW n, Passes(s, p, n), p \in Heads(s)
    PROVE  Within(s, n) = SectionName(LineOf(s, p))
<1>1. p \in Above(s, n) /\ \A q \in Above(s, n) : q < p \/ q = p
  BY DEF Above, Heads, Passes
<1>2. Above(s, n) \in SUBSET Nat /\ p \in Nat
  BY StartsAreNumbers DEF Above, Heads, Passes
<1>3. \A q \in Above(s, n) : q <= p
  BY <1>1, <1>2
<1>4. Max(Above(s, n)) = p
  BY <1>1, <1>2, <1>3, MaxIs
<1> QED BY <1>1, <1>4 DEF Within

(* Only entries are stored. *)
LEMMA NothingRead ==
    ASSUME NEW s \in Seq(Characters), NEW p, NEW n, Passes(s, p, n), p \notin EntryLines(s)
    PROVE  Read(s, n) = Read(s, p)
  BY DEF Read, EntryLines, Passes

LEMMA PassSection ==
    ASSUME NEW s \in Seq(Characters), NEW p, NEW n, Passes(s, p, n), NEW sec, NEW ent,
           SoFar(s, p, sec, ent), IsSection(LineOf(s, p)), HasName(LineOf(s, p))
    PROVE  SoFar(s, n, SectionName(LineOf(s, p)), ent)
<1>1. p \in Heads(s) /\ p \notin EntryLines(s)
  BY DEF Heads, EntryLines, IsEntry, Passes
<1>2. Within(s, n) = SectionName(LineOf(s, p))
  BY <1>1, NewSection
<1>3. Read(s, n) = Read(s, p)
  BY <1>1, NothingRead
<1>4. KeysRead(s, n) = KeysRead(s, p) /\ \A k : LastValue(s, n, k) = LastValue(s, p, k)
  BY <1>3 DEF KeysRead, LastValue, SetAt
<1>5. WellFormed(s, p)
  BY <1>1 DEF WellFormed
<1>6. \A q \in LineStarts(s) : q < n => WellFormed(s, q)
  BY <1>5 DEF SoFar, Passes
<1> QED BY <1>2, <1>4, <1>6 DEF SoFar

LEMMA PassIgnored ==
    ASSUME NEW s \in Seq(Characters), NEW p, NEW n, Passes(s, p, n), NEW sec, NEW ent,
           SoFar(s, p, sec, ent), Ignored(LineOf(s, p))
    PROVE  SoFar(s, n, sec, ent)
<1>1. p \notin Heads(s) /\ p \notin EntryLines(s)
  BY DEF Heads, EntryLines, IsEntry, Ignored, IsSection, NL
<1>2. Within(s, n) = Within(s, p)
  BY <1>1, SameSection
<1>3. Read(s, n) = Read(s, p)
  BY <1>1, NothingRead
<1>4. KeysRead(s, n) = KeysRead(s, p) /\ \A k : LastValue(s, n, k) = LastValue(s, p, k)
  BY <1>3 DEF KeysRead, LastValue, SetAt
<1>5. WellFormed(s, p)
  BY <1>1 DEF WellFormed
<1>6. \A q \in LineStarts(s) : q < n => WellFormed(s, q)
  BY <1>5 DEF SoFar, Passes
<1> QED BY <1>2, <1>4, <1>6 DEF SoFar

(* What an entry adds *)
LEMMA EntryRead ==
    ASSUME NEW s \in Seq(Characters), NEW p, NEW n, Passes(s, p, n), p \in EntryLines(s)
    PROVE  /\ Read(s, n) = Read(s, p) \cup {p}
           /\ KeysRead(s, n) = KeysRead(s, p) \cup {KeyAt(s, p)}
           /\ LastValue(s, n, KeyAt(s, p)) = Value(LineOf(s, p))
           /\ \A k : k # KeyAt(s, p) => LastValue(s, n, k) = LastValue(s, p, k)
<1>1. Read(s, n) = Read(s, p) \cup {p}
  BY DEF Read, EntryLines, Passes
<1>2. KeysRead(s, n) = KeysRead(s, p) \cup {KeyAt(s, p)}
  BY <1>1 DEF KeysRead
<1>3. LastValue(s, n, KeyAt(s, p)) = Value(LineOf(s, p))
  <2> DEFINE B == SetAt(s, n, KeyAt(s, p))
  <2>1. p \in B /\ \A q \in B : q < p \/ q = p
    BY <1>1 DEF SetAt, Read
  <2>2. B \in SUBSET Nat /\ p \in Nat
    BY StartsAreNumbers DEF SetAt, Read, EntryLines
  <2>3. \A q \in B : q <= p
    BY <2>1, <2>2
  <2>4. Max(B) = p
    <3> HIDE DEF B
    <3> QED BY <2>1, <2>2, <2>3, MaxIs
  <2> QED BY <2>4 DEF LastValue
<1>4. \A k : k # KeyAt(s, p) => LastValue(s, n, k) = LastValue(s, p, k)
  <2> SUFFICES ASSUME NEW k, k # KeyAt(s, p) PROVE LastValue(s, n, k) = LastValue(s, p, k)
    OBVIOUS
  <2>1. SetAt(s, n, k) = SetAt(s, p, k)
    BY <1>1 DEF SetAt
  <2> QED BY <2>1 DEF LastValue
<1> QED BY <1>1, <1>2, <1>3, <1>4

LEMMA KeysFinite ==
    ASSUME NEW s \in Seq(Characters)
    PROVE  /\ IsFiniteSet({KeyAt(s, p) : p \in EntryLines(s)})
           /\ \A n : /\ KeysRead(s, n) \subseteq {KeyAt(s, p) : p \in EntryLines(s)}
                     /\ IsFiniteSet(KeysRead(s, n))
<1>1. IsFiniteSet(EntryLines(s))
  <2>1. EntryLines(s) \subseteq 1 .. Len(s) /\ Len(s) \in Nat
    BY DEF EntryLines, LineStarts
  <2>2. IsFiniteSet(1 .. Len(s))
    BY <2>1, FS_Interval
  <2> QED BY <2>1, <2>2, FS_Subset
<1>2. IsFiniteSet({KeyAt(s, p) : p \in EntryLines(s)})
  <2> DEFINE f == [p \in EntryLines(s) |-> KeyAt(s, p)]
  <2>1. {KeyAt(s, p) : p \in EntryLines(s)} = {f[p] : p \in EntryLines(s)}
    OBVIOUS
  <2>2. f \in Surjection(EntryLines(s), {KeyAt(s, p) : p \in EntryLines(s)})
    BY DEF Surjection
  <2> HIDE DEF f
  <2> QED BY <1>1, <2>2, FS_Surjection
<1>3. \A n : KeysRead(s, n) \subseteq {KeyAt(s, p) : p \in EntryLines(s)}
  BY DEF KeysRead, Read
<1>4. \A n : IsFiniteSet(KeysRead(s, n))
  BY <1>2, <1>3, FS_Subset
<1> QED BY <1>2, <1>3, <1>4

(* A key that is there fits its place: it is that of a line above. *)
LEMMA OldKeyFits ==
    ASSUME NEW s \in Seq(Characters), NEW p, NEW sec, NEW ent, SoFar(s, p, sec, ent),
           NEW key, <<sec, key>> \in DOMAIN ent
    PROVE  ~TooLong(key, KeyMax)
<1>1. <<sec, key>> \in KeysRead(s, p)
  BY DEF SoFar
<1>2. PICK q \in Read(s, p) : KeyAt(s, q) = <<sec, key>>
  BY <1>1 DEF KeysRead
<1>3. q \in EntryLines(s) /\ q \in LineStarts(s) /\ q < p
  BY DEF Read, EntryLines
<1>4. WellFormed(s, q)
  BY <1>3 DEF SoFar
<1>5. ~TooLong(Key(LineOf(s, q)), KeyMax)
  BY <1>3, <1>4 DEF WellFormed, HasRoom
<1>6. Key(LineOf(s, q)) = key
  BY <1>2 DEF KeyAt
<1> QED BY <1>5, <1>6

LEMMA PassEntry ==
    ASSUME NEW s \in Seq(Characters), NEW p, NEW n, Passes(s, p, n), NEW sec, NEW ent,
           SoFar(s, p, sec, ent), IsEntry(LineOf(s, p), sec),
           NEW k, k = <<sec, Key(LineOf(s, p))>>,
           k \in DOMAIN ent \/ Cardinality(DOMAIN ent) < EntriesMax,
           k \in DOMAIN ent \/ ~TooLong(Key(LineOf(s, p)), KeyMax),
           ~TooLong(Value(LineOf(s, p)), ValueMax)
    PROVE  SoFar(s, n, sec, Store(ent, k, Value(LineOf(s, p))))
<1>1. p \in EntryLines(s) /\ p \notin Heads(s) /\ k = KeyAt(s, p)
  BY DEF Heads, EntryLines, IsEntry, SoFar, Passes, KeyAt
<1>2. Within(s, n) = Within(s, p)
  BY <1>1, SameSection
<1>3. /\ KeysRead(s, n) = KeysRead(s, p) \cup {k}
      /\ LastValue(s, n, k) = Value(LineOf(s, p))
      /\ \A x : x # k => LastValue(s, n, x) = LastValue(s, p, x)
  BY <1>1, EntryRead
<1>4. DOMAIN ent = KeysRead(s, p) /\ \A x \in KeysRead(s, p) : ent[x] = LastValue(s, p, x)
  BY DEF SoFar
<1> DEFINE new == Store(ent, k, Value(LineOf(s, p)))
<1>5. /\ new = [x \in DOMAIN new |-> new[x]] /\ DOMAIN new = KeysRead(s, n)
      /\ new[k] = Value(LineOf(s, p))
      /\ \A x \in KeysRead(s, p) : x # k => new[x] = ent[x]
  <2> DEFINE v == Value(LineOf(s, p))
  <2>0. new = Store(ent, k, v)
    OBVIOUS
  <2> HIDE DEF v
  <2>2. Stores(Store(ent, k, v), ent, k, v)
    BY StoreFacts
  <2> HIDE DEF new
  <2>1. /\ new = [x \in DOMAIN new |-> new[x]] /\ DOMAIN new = DOMAIN ent \cup {k}
        /\ new[k] = Value(LineOf(s, p)) /\ \A x \in DOMAIN ent : x # k => new[x] = ent[x]
    BY <2>0, <2>2 DEF v, Stores
  <2> HIDE DEF new
  <2> QED BY <1>3, <1>4, <2>1
<1> HIDE DEF new
<1>6. \A x \in KeysRead(s, n) : new[x] = LastValue(s, n, x)
  BY <1>3, <1>4, <1>5
<1>7. new = [x \in KeysRead(s, n) |-> LastValue(s, n, x)]
  BY <1>5, <1>6
<1>8. Cardinality(KeysRead(s, n)) <= EntriesMax
  <2>1. CASE k \in DOMAIN ent
    <3>1. KeysRead(s, n) = KeysRead(s, p)
      BY <1>3, <1>4, <2>1
    <3> QED BY <3>1 DEF SoFar
  <2>2. CASE k \notin DOMAIN ent
    <3>1. Cardinality(KeysRead(s, n)) = Cardinality(KeysRead(s, p)) + 1
      <4>1. IsFiniteSet(KeysRead(s, p)) /\ k \notin KeysRead(s, p)
        BY <1>4, <2>2, KeysFinite
      <4>2. Cardinality(KeysRead(s, p) \cup {k}) = Cardinality(KeysRead(s, p)) + 1
        BY <4>1, FS_AddElement
      <4> QED BY <1>3, <4>2
    <3>2. Cardinality(KeysRead(s, p)) \in Nat /\ Cardinality(KeysRead(s, p)) < EntriesMax
      BY <1>4, <2>2, KeysFinite, FS_CardinalityType
    <3>3. EntriesMax \in Nat
      BY BoundsAssumption
    <3> QED BY <3>1, <3>2, <3>3
  <2> QED BY <2>1, <2>2
<1>9. \A q \in LineStarts(s) : q < n => WellFormed(s, q)
  <2>1. ~TooLong(Key(LineOf(s, p)), KeyMax)
    BY OldKeyFits
  <2>2. WellFormed(s, p)
    BY <1>1, <2>1 DEF WellFormed, HasRoom
  <2> QED BY <2>2 DEF SoFar, Passes
<1> QED BY <1>2, <1>7, <1>8, <1>9 DEF SoFar, new

LEMMA TooManyIsMalformed ==
    ASSUME NEW s \in Seq(Characters), NEW p \in LineStarts(s), NEW sec, NEW ent,
           SoFar(s, p, sec, ent), IsEntry(LineOf(s, p), sec),
           <<sec, Key(LineOf(s, p))>> \notin DOMAIN ent, ~(Cardinality(DOMAIN ent) < EntriesMax)
    PROVE  Malformed(s)
<1> DEFINE k == KeyAt(s, p)
           K == {KeyAt(s, q) : q \in EntryLines(s)}
<1>1. p \in EntryLines(s) /\ k = <<sec, Key(LineOf(s, p))>> /\ DOMAIN ent = KeysRead(s, p)
  BY DEF EntryLines, SoFar, KeyAt
<1>2. KeysRead(s, p) \cup {k} \subseteq K /\ k \notin KeysRead(s, p)
  BY <1>1, KeysFinite
<1>3. IsFiniteSet(K) /\ IsFiniteSet(KeysRead(s, p))
  BY KeysFinite
<1> HIDE DEF k, K
<1>4. Cardinality(KeysRead(s, p) \cup {k}) = Cardinality(KeysRead(s, p)) + 1
  BY <1>2, <1>3, FS_AddElement
<1>8. Cardinality(KeysRead(s, p)) \in Nat /\ ~(Cardinality(KeysRead(s, p)) < EntriesMax)
  BY <1>1, <1>3, FS_CardinalityType
<1>5. Cardinality(KeysRead(s, p) \cup {k}) <= Cardinality(K) /\ Cardinality(K) \in Nat
  BY <1>2, <1>3, FS_Subset, FS_CardinalityType
<1>6. EntriesMax \in Nat
  BY BoundsAssumption
<1>7. Cardinality(K) > EntriesMax
  BY <1>4, <1>5, <1>6, <1>8
<1> QED BY <1>7 DEF Malformed, K

LEMMA LongIsMalformed ==
    ASSUME NEW s \in Seq(Characters), NEW p \in LineStarts(s), NEW sec, NEW ent,
           SoFar(s, p, sec, ent), IsEntry(LineOf(s, p), sec), ~HasRoom(LineOf(s, p))
    PROVE  Malformed(s)
<1>1. p \in EntryLines(s)
  BY DEF EntryLines, SoFar
<1>2. ~WellFormed(s, p)
  BY <1>1 DEF WellFormed
<1> QED BY <1>2 DEF Malformed

LEMMA InvalidIsMalformed ==
    ASSUME NEW s \in Seq(Characters), NEW p \in LineStarts(s), NEW sec, NEW ent,
           SoFar(s, p, sec, ent), ~Ignored(LineOf(s, p)),
           IF IsSection(LineOf(s, p)) THEN ~HasName(LineOf(s, p))
           ELSE ~IsEntry(LineOf(s, p), sec)
    PROVE  Malformed(s)
<1>1. ~WellFormed(s, p)
  BY DEF WellFormed, Heads, EntryLines, SoFar
<1> QED BY <1>1 DEF Malformed

(* At the end of the file *)
LEMMA AllRead ==
    ASSUME NEW s \in Seq(Characters), NEW sec, NEW ent, SoFar(s, Len(s) + 1, sec, ent)
    PROVE  /\ ~Malformed(s)
           /\ ent = [k \in {KeyAt(s, p) : p \in EntryLines(s)} |->
                       Value(LineOf(s, Max({p \in EntryLines(s) : KeyAt(s, p) = k})))]
<1> DEFINE n == Len(s) + 1
<1>1. \A p \in LineStarts(s) : p < n
  BY DEF LineStarts
<1> HIDE DEF n
<1>2. Read(s, n) = EntryLines(s)
  BY <1>1 DEF Read, EntryLines
<1>3. /\ KeysRead(s, n) = {KeyAt(s, p) : p \in EntryLines(s)}
      /\ \A k : SetAt(s, n, k) = {p \in EntryLines(s) : KeyAt(s, p) = k}
  BY <1>2 DEF KeysRead, SetAt
<1>4. SoFar(s, n, sec, ent)
  BY DEF n
<1>5. \A p \in LineStarts(s) : WellFormed(s, p)
  BY <1>1, <1>4 DEF SoFar
<1>6. ~(Cardinality(KeysRead(s, n)) > EntriesMax)
  <2>1. Cardinality(KeysRead(s, n)) \in Nat /\ EntriesMax \in Nat
    BY KeysFinite, FS_CardinalityType, BoundsAssumption
  <2> QED BY <1>4, <2>1 DEF SoFar
<1>7. ~Malformed(s)
  BY <1>3, <1>5, <1>6 DEF Malformed
<1>8. ent = [k \in {KeyAt(s, p) : p \in EntryLines(s)} |->
               Value(LineOf(s, Max({p \in EntryLines(s) : KeyAt(s, p) = k})))]
  BY <1>3, <1>4 DEF SoFar, LastValue
<1> QED BY <1>7, <1>8

(* Before the first line *)
LEMMA NothingYet ==
    ASSUME NEW s \in Seq(Characters)
    PROVE  SoFar(s, 1, <<>>, NoFile)
<1>1. \A p \in LineStarts(s) : ~(p < 1)
  BY DEF LineStarts
<1>2. Above(s, 1) = {} /\ Read(s, 1) = {}
  BY <1>1 DEF Above, Heads, Read, EntryLines
<1>3. KeysRead(s, 1) = {}
  BY <1>2 DEF KeysRead
<1>4. Cardinality({}) = 0 /\ EntriesMax \in Nat
  BY FS_EmptySet, BoundsAssumption
<1>5. NoFile = [k \in KeysRead(s, 1) |-> LastValue(s, 1, k)]
  BY <1>3 DEF NoFile
<1>6. Within(s, 1) = <<>>
  BY <1>2 DEF Within
<1>7. Cardinality(KeysRead(s, 1)) <= EntriesMax
  <2>1. Cardinality(KeysRead(s, 1)) = 0
    BY <1>3, <1>4
  <2> QED BY <1>4, <2>1
<1> QED BY <1>1, <1>5, <1>6, <1>7 DEF SoFar

-----------------------------------------------------------------------------
(* The file's meaning in these words *)

LEMMA LinesOfFile ==
    ASSUME stored \in Seq(Characters)
    PROVE  /\ Starts = LineStarts(stored)
           /\ FileLine = [p \in LineStarts(stored) |-> LineOf(stored, p)]
           /\ LinesFit => Fit(stored)
<1>1. Starts = LineStarts(stored)
  BY DEF Starts, LineStarts
<1>2. \A p : RawLine(p) = SubSeq(stored, p, LineEnd(stored, p))
  BY DEF RawLine, LineEnd, Ends
<1>3. \A p : Trim(RawLine(p)) = LineOf(stored, p)
  BY <1>2 DEF LineOf
<1>4. FileLine = [p \in LineStarts(stored) |-> LineOf(stored, p)]
  BY <1>1, <1>3 DEF FileLine
<1>5. ASSUME LinesFit, NEW p \in LineStarts(stored)
      PROVE  LineEnd(stored, p) - p + 1 <= LineMax
  <2>1. LineEnd(stored, p) \in p .. Len(stored) /\ p \in Nat /\ p >= 1 /\ p <= Len(stored)
    BY LineEndFacts DEF EndFacts, LineStarts
  <2>2. LineEnd(stored, p) \in Int /\ LineEnd(stored, p) <= Len(stored)
        /\ p <= LineEnd(stored, p)
    BY <2>1
  <2>3. Len(RawLine(p)) = LineEnd(stored, p) - p + 1
    <3> DEFINE e == LineEnd(stored, p)
    <3>1. RawLine(p) = SubSeq(stored, p, e)
      BY <1>2
    <3> HIDE DEF e
    <3>2. e \in Int /\ e <= Len(stored) /\ p <= e
      BY <2>2 DEF e
    <3>3. Len(SubSeq(stored, p, e)) = IF p <= e THEN e - p + 1 ELSE 0
      BY <2>1, <3>2, SliceFacts
    <3>4. Len(SubSeq(stored, p, e)) = e - p + 1
      BY <3>2, <3>3
    <3> QED BY <3>1, <3>4 DEF e
  <2> QED BY <1>1, <1>5, <2>3 DEF LinesFit
<1> QED BY <1>1, <1>4, <1>5 DEF Fit

LEMMA MeantFacts ==
    ASSUME stored \in Seq(Characters)
    PROVE  /\ Meant.malformed <=> Malformed(stored)
           /\ Meant.entries = [k \in {KeyAt(stored, p) : p \in EntryLines(stored)} |->
                Value(LineOf(stored, Max({p \in EntryLines(stored) : KeyAt(stored, p) = k})))]
<1> DEFINE line     == FileLine
           heads    == {p \in Starts : IsSection(line[p])}
           above(p) == {q \in heads : q < p}
           within   == [p \in Starts |->
                          IF above(p) = {} THEN <<>> ELSE SectionName(line[Max(above(p))])]
           lines    == {p \in Starts : IsEntry(line[p], within[p])}
           key      == [p \in lines |-> <<within[p], Key(line[p])>>]
           last(k)  == Max({p \in lines : key[p] = k})
           E        == [k \in {key[p] : p \in lines} |-> Value(line[last(k)])]
           M        == \/ \E p \in Starts \ (lines \union heads) : ~Ignored(line[p])
                       \/ \E p \in heads : ~HasName(line[p])
                       \/ \E p \in lines : TooLong(Key(line[p]), KeyMax)
                                           \/ TooLong(Value(line[p]), ValueMax)
                       \/ Cardinality({key[p] : p \in lines}) > EntriesMax
<1>1. Meant = [entries |-> E, malformed |-> M]
  BY DEF Meant
<1> DEFINE P == LineStarts(stored)
<1>2. Starts = P /\ \A p \in P : line[p] = LineOf(stored, p)
  BY LinesOfFile
<1>3. heads = Heads(stored)
  BY <1>2 DEF Heads
<1>4. \A p : above(p) = Above(stored, p)
  BY <1>3 DEF Above
<1>5. \A p \in P : within[p] = Within(stored, p)
  <2> SUFFICES ASSUME NEW p \in P PROVE within[p] = Within(stored, p)
    OBVIOUS
  <2>1. within[p] = IF above(p) = {} THEN <<>> ELSE SectionName(line[Max(above(p))])
    BY <1>2
  <2>2. CASE Above(stored, p) = {}
    BY <1>4, <2>1, <2>2 DEF Within
  <2>3. CASE Above(stored, p) # {}
    <3>1. Above(stored, p) \in SUBSET P /\ P \in SUBSET Nat /\ p \in Nat
          /\ \A q \in Above(stored, p) : q < p
      BY StartsAreNumbers DEF Above, Heads
    <3>2. Max(Above(stored, p)) \in P
      <4> DEFINE A == Above(stored, p)
      <4> HIDE DEF A, P
      <4>1. A \in SUBSET Nat /\ A # {} /\ \A q \in A : q < p
        BY <2>3, <3>1 DEF A
      <4>2. Max(A) \in A
        BY <3>1, <4>1, MaxFacts
      <4> QED BY <3>1, <4>2 DEF A
    <3>3. line[Max(Above(stored, p))] = LineOf(stored, Max(Above(stored, p)))
      BY <1>2, <3>2
    <3>4. within[p] = SectionName(line[Max(Above(stored, p))])
      BY <1>4, <2>1, <2>3
    <3> HIDE DEF within, line
    <3> QED BY <2>3, <3>3, <3>4 DEF Within
  <2> QED BY <2>2, <2>3
<1> HIDE DEF within
<1>6. lines = EntryLines(stored)
  BY <1>2, <1>5 DEF EntryLines
<1>7. \A p \in lines : key[p] = KeyAt(stored, p)
  <2>1. \A p \in lines : p \in P
    BY <1>6 DEF EntryLines
  <2> HIDE DEF lines
  <2> QED BY <1>2, <1>5, <2>1 DEF KeyAt
<1>8. \A p \in lines : line[p] = LineOf(stored, p)
  BY <1>2, <1>6 DEF EntryLines
<1> HIDE DEF key, lines, line, heads
<1>9. {key[p] : p \in lines} = {KeyAt(stored, p) : p \in EntryLines(stored)}
  BY <1>6, <1>7
<1>10. \A k : {p \in lines : key[p] = k} = {p \in EntryLines(stored) : KeyAt(stored, p) = k}
  BY <1>6, <1>7
<1>11. ASSUME NEW k \in {KeyAt(stored, p) : p \in EntryLines(stored)}
       PROVE  line[last(k)] =
              LineOf(stored, Max({p \in EntryLines(stored) : KeyAt(stored, p) = k}))
  <2> DEFINE B == {p \in EntryLines(stored) : KeyAt(stored, p) = k}
  <2>1. last(k) = Max(B)
    BY <1>10
  <2>2. B # {} /\ B \subseteq EntryLines(stored) /\ B \in SUBSET Nat
        /\ Len(stored) + 1 \in Nat /\ \A q \in B : q < Len(stored) + 1
    BY DEF EntryLines, LineStarts
  <2>3. Max(B) \in B
    <3> DEFINE n == Len(stored) + 1
    <3>1. n \in Nat /\ \A q \in B : q < n
      BY <2>2
    <3> HIDE DEF B, n
    <3> QED BY <2>2, <3>1, MaxFacts
  <2>4. Max(B) \in lines
    BY <1>6, <2>2, <2>3
  <2> QED BY <1>8, <2>1, <2>4
<1>12. E = [k \in {KeyAt(stored, p) : p \in EntryLines(stored)} |->
             Value(LineOf(stored, Max({p \in EntryLines(stored) : KeyAt(stored, p) = k})))]
  BY <1>9, <1>11
<1>13. M <=> Malformed(stored)
  <2>1. (\E p \in Starts \ (lines \union heads) : ~Ignored(line[p]))
          <=> \E p \in P : p \notin EntryLines(stored) /\ p \notin Heads(stored) /\ ~Ignored(LineOf(stored, p))
    BY <1>2, <1>3, <1>6 DEF line
  <2>2. (\E p \in heads : ~HasName(line[p]))
          <=> \E p \in Heads(stored) : ~HasName(LineOf(stored, p))
    BY <1>2, <1>3 DEF Heads, line
  <2>4. (\E p \in lines : TooLong(Key(line[p]), KeyMax) \/ TooLong(Value(line[p]), ValueMax))
          <=> \E p \in EntryLines(stored) : ~HasRoom(LineOf(stored, p))
    BY <1>6, <1>8 DEF HasRoom
  <2>3. (\E p \in P : ~WellFormed(stored, p))
          <=> \/ \E p \in P : p \notin EntryLines(stored) /\ p \notin Heads(stored) /\ ~Ignored(LineOf(stored, p))
              \/ \E p \in Heads(stored) : ~HasName(LineOf(stored, p))
              \/ \E p \in EntryLines(stored) : ~HasRoom(LineOf(stored, p))
    BY DEF WellFormed, Heads, EntryLines
  <2> QED BY <1>9, <2>1, <2>2, <2>3, <2>4 DEF Malformed
<1> HIDE DEF E, M
<1>14. Meant.entries = E /\ Meant.malformed = M
  BY <1>1
<1> QED BY <1>12, <1>13, <1>14

-----------------------------------------------------------------------------
(* The invariant *)

(* What is typed and what is written are texts. *)
LEMMA EditsAreTexts == \A e \in Edits : e \in Seq(Characters)
<1>1. EditChars \subseteq Characters
  BY DEF Characters
<1>2. \A e \in Edits : e \in Seq(EditChars)
  BY TextsAssumption DEF EditChars
<1> QED BY <1>1, <1>2, SeqMonotonic

LEMMA LiteralsAreCharacters == Literals \subseteq Characters
  BY DEF Characters

LEMMA Texts ==
    ASSUME NEW S
    PROVE  /\ <<>> \in Seq(S) /\ \A a \in S : <<a>> \in Seq(S)
           /\ \A a, b \in S : <<a, b>> \in Seq(S)
           /\ \A a, b, c \in S : <<a, b, c>> \in Seq(S)
           /\ \A a, b, c, d \in S : <<a, b, c, d>> \in Seq(S)
  OBVIOUS

LEMMA TypedIsText == Init => typed \in Seq(Characters) /\ edits \in Seq(Characters)
<1> SUFFICES ASSUME Init PROVE typed \in Seq(Characters) /\ edits \in Seq(Characters)
  OBVIOUS
<1>1. CASE typed \in SeqOf(TypedChars, MaxTyped) /\ edits = <<>>
  <2>1. PICK n \in 0 .. MaxTyped : typed \in [1 .. n -> TypedChars]
    BY <1>1 DEF SeqOf
  <2>2. n \in Nat /\ TypedChars \subseteq Characters
    <3>1. MaxTyped \in Nat
      BY BoundsAssumption
    <3>2. n \in Nat
      BY <3>1
    <3> QED BY <3>2 DEF Characters
  <2>3. typed \in [1 .. n -> Characters]
    BY <2>1, <2>2
  <2> HIDE DEF Init
  <2>4. typed \in Seq(Characters)
    BY <2>2, <2>3, SeqDef
  <2> QED BY <1>1, <2>4
<1>2. CASE typed = <<"x">> /\ edits \in Edits
  <2>1. "x" \in Characters
    BY LiteralsAreCharacters DEF Literals
  <2>2. typed \in Seq(Characters)
    BY <1>2, <2>1, Texts, Zenon
  <2> QED BY <1>2, <2>2, EditsAreTexts
<1> QED BY <1>1, <1>2 DEF Init

LEMMA ScrubType ==
    ASSUME NEW v \in Seq(Characters)
    PROVE  Scrub(v) \in Seq(Characters)
<1>1. /\ Len(v) \in Nat /\ DOMAIN v = 1 .. Len(v)
      /\ \A i \in 1 .. Len(v) : v[i] \in Characters
  OBVIOUS
<1>2. Scrub(v) \in [1 .. Len(v) -> Characters]
  <2>1. " " \in Characters
    BY LiteralsAreCharacters DEF Literals
  <2> DEFINE w(i) == IF v[i] = NL THEN " " ELSE v[i]
  <2>2. \A i \in 1 .. Len(v) : w(i) \in Characters
    BY <1>1, <2>1
  <2>3. Scrub(v) = [i \in 1 .. Len(v) |-> w(i)]
    BY <1>1 DEF Scrub
  <2> HIDE DEF w
  <2> QED BY <2>2, <2>3
<1> QED BY <1>1, <1>2, SeqDef

LEMMA UsualType == \A x \in Fields : Usual[x] \in Seq(Characters)
<1>1. /\ "host" \in Characters /\ ":" \in Characters /\ "1" \in Characters
      /\ "user" \in Characters /\ "secret" \in Characters /\ "tap" \in Characters
  BY LiteralsAreCharacters DEF Literals
<1> DEFINE T == Seq(Characters)
<1>2. /\ <<"host", ":", "1">> \in T /\ <<"user">> \in T /\ <<"secret">> \in T
      /\ <<"1">> \in T /\ <<"tap">> \in T
  BY <1>1, Texts, Zenon
<1> HIDE DEF T
<1>3. /\ Usual.server_addr \in T /\ Usual.username \in T /\ Usual.password \in T
      /\ Usual.network_id \in T /\ Usual.tap_name \in T
  BY <1>2 DEF Usual
<1>4. \A x \in Fields : Usual[x] \in T
  BY <1>3 DEF Fields
<1> QED BY <1>4 DEF T

LEMMA WrittenType ==
    ASSUME typed \in Seq(Characters), NEW f \in Fields
    PROVE  Written(f) \in Seq(Characters)
<1>1. InField(f) \in Seq(Characters)
  <2>1. \A x \in Fields : Usual[x] \in Seq(Characters)
    BY UsualType
  <2> QED BY <2>1 DEF InField
<1>2. Scrub(InField(f)) \in Seq(Characters)
  BY <1>1, ScrubType
<1>3. <<"1">> \in Seq(Characters) /\ <<"ntap-c0">> \in Seq(Characters)
  <2>1. "1" \in Characters /\ "ntap-c0" \in Characters
    BY LiteralsAreCharacters DEF Literals
  <2> QED BY <2>1, Texts, Zenon
<1> DEFINE T == Seq(Characters)
<1>4. Scrub(InField(f)) \in T /\ <<"1">> \in T /\ <<"ntap-c0">> \in T
  BY <1>2, <1>3
<1> HIDE DEF T
<1>5. Written(f) \in T
  BY <1>4 DEF Written
<1> QED BY <1>5 DEF T

LEMMA GuiFileType ==
    ASSUME typed \in Seq(Characters)
    PROVE  GuiFile \in Seq(Characters)
<1> DEFINE T == Seq(Characters)
<1>1. \A a, b \in T : a \o b \in T
  OBVIOUS
<1>2. \A k \in Characters : <<k, "=">> \in T /\ <<NL>> \in T
  <2>1. "=" \in Characters /\ NL \in Characters
    BY LiteralsAreCharacters DEF Literals
  <2> QED BY <2>1, Texts, Zenon
<1>3. /\ <<"[", "client", "]", NL>> \in T /\ <<NL>> \in T /\ <<"[", "log", "]", NL>> \in T
      /\ <<"1">> \in T /\ <<"info">> \in T /\ <<"path">> \in T
  <2>1. /\ "[" \in Characters /\ "client" \in Characters /\ "]" \in Characters /\ NL \in Characters
        /\ "log" \in Characters /\ "1" \in Characters /\ "info" \in Characters /\ "path" \in Characters
    BY LiteralsAreCharacters DEF Literals
  <2> QED BY <2>1, Texts, Zenon
<1>4. \A f \in Fields : Written(f) \in T
  BY WrittenType
<1> HIDE DEF T
<1>5. \A k \in Characters : \A v \in T : Line(k, v) \in T
  BY <1>1, <1>2 DEF Line
<1>6. /\ Line("server_addr", Written("server_addr")) \in T
      /\ Line("username", Written("username")) \in T
      /\ Line("password", Written("password")) \in T
      /\ Line("network_id", Written("network_id")) \in T
      /\ Line("tap_name", Written("tap_name")) \in T
  <2>1. /\ "server_addr" \in Characters /\ "username" \in Characters /\ "password" \in Characters
        /\ "network_id" \in Characters /\ "tap_name" \in Characters
    BY LiteralsAreCharacters DEF Literals
  <2>2. /\ "server_addr" \in Fields /\ "username" \in Fields /\ "password" \in Fields
        /\ "network_id" \in Fields /\ "tap_name" \in Fields
    BY DEF Fields
  <2> QED BY <1>4, <1>5, <2>1, <2>2, Zenon
<1>7. Line("mtu", <<"1">>) \in T /\ Line("level", <<"info">>) \in T /\ Line("file", <<"path">>) \in T
  <2>1. "mtu" \in Characters /\ "level" \in Characters /\ "file" \in Characters
    BY LiteralsAreCharacters DEF Literals
  <2> QED BY <1>3, <1>5, <2>1, Zenon
<1>8. GuiFile \in T
  BY <1>1, <1>3, <1>6, <1>7 DEF GuiFile
<1> QED BY <1>8 DEF T

(***************************************************************************)
(* What holds while a file is read: the text that is left begins with a    *)
(* line, and the section and the entries say what the lines before it say. *)
(***************************************************************************)
At(p) == text = SubSeq(stored, p, Len(stored)) /\ SoFar(stored, p, section, entries)

ReadInv ==
    /\ typed \in Seq(Characters) /\ edits \in Seq(Characters) /\ stored \in Seq(Characters)
    /\ status \in {"writing", "written", "loading", "unread", "error", "refused", "ok"}
    /\ status = "writing" => stored = <<>>
    /\ stored # <<>> /\ Fit(stored) =>
         /\ status = "loading" =>
              \E p \in LineStarts(stored) \cup {Len(stored) + 1} : At(p)
         /\ status = "error" => Malformed(stored)
         /\ status \in {"refused", "ok"} => SoFar(stored, Len(stored) + 1, section, entries)

LEMMA ReadStart == Init => ReadInv
  BY TypedIsText DEF Init, ReadInv

(* What is left to read is nothing only at the end. *)
LEMMA WhereItIs ==
    ASSUME NEW s \in Seq(Characters), NEW p \in LineStarts(s) \cup {Len(s) + 1},
           NEW t, t = SubSeq(s, p, Len(s))
    PROVE  t = <<>> <=> p = Len(s) + 1
<1>1. Len(s) \in Nat /\ p \in Nat /\ p >= 1 /\ p <= Len(s) + 1
  BY DEF LineStarts
<1>2. Len(s) \in Int /\ Len(s) <= Len(s)
  BY <1>1
<1>3. t \in Seq(Characters) /\ Len(t) = IF p <= Len(s) THEN Len(s) - p + 1 ELSE 0
  BY <1>1, <1>2, SliceFacts
<1>4. t = <<>> <=> Len(t) = 0
  <2>1. t \in Seq(Characters)
    BY <1>3
  <2> QED BY <2>1, EmptySeq
<1> QED BY <1>1, <1>3, <1>4

(* A file just written: nothing is read of it. *)
LEMMA FreshFile ==
    ASSUME NEW s \in Seq(Characters), s # <<>>
    PROVE  /\ 1 \in LineStarts(s)
           /\ s = SubSeq(s, 1, Len(s))
           /\ SoFar(s, 1, <<>>, NoFile)
<1>1. Len(s) \in Nat /\ Len(s) # 0
  OBVIOUS
<1>2. 1 \in LineStarts(s)
  BY <1>1 DEF LineStarts
<1>3. s = SubSeq(s, 1, Len(s))
  OBVIOUS
<1> QED BY <1>2, <1>3, NothingYet

LEMMA WriteFileKeeps == ReadInv /\ WriteFile => ReadInv'
<1> SUFFICES ASSUME ReadInv, WriteFile PROVE ReadInv'
  OBVIOUS
<1>1. GuiFile \in Seq(Characters)
  BY GuiFileType DEF ReadInv
<1>2. stored' \in Seq(Characters)
  <2>1. PICK n \in 0 .. Len(GuiFile) : stored' = SubSeq(GuiFile, 1, n)
    BY DEF WriteFile
  <2> DEFINE g == GuiFile
  <2> HIDE DEF g
  <2>2. n \in Int /\ n <= Len(g) /\ g \in Seq(Characters) /\ stored' = SubSeq(g, 1, n)
    BY <1>1, <2>1 DEF g
  <2>3. SubSeq(g, 1, n) \in Seq(Characters)
    BY <2>2, SliceFacts
  <2> QED BY <2>2, <2>3
<1>3. status' = "written" /\ UNCHANGED <<typed, edits>>
  BY DEF WriteFile
<1> QED BY <1>2, <1>3 DEF ReadInv

LEMMA EditFileKeeps == ReadInv /\ EditFile => ReadInv'
<1> SUFFICES ASSUME ReadInv, EditFile PROVE ReadInv'
  OBVIOUS
<1>1. GuiFile \in Seq(Characters) /\ edits \in Seq(Characters)
  BY GuiFileType DEF ReadInv
<1>2. GuiFile \o edits \in Seq(Characters)
  <2> DEFINE g == GuiFile
  <2>1. g \in Seq(Characters)
    BY <1>1
  <2> HIDE DEF g
  <2>2. g \o edits \in Seq(Characters)
    BY <1>1, <2>1
  <2> QED BY <2>2 DEF g
<1>3. stored' \in Seq(Characters)
  BY <1>1, <1>2 DEF EditFile
<1>4. status' = "written" /\ UNCHANGED <<typed, edits>>
  BY DEF EditFile
<1> QED BY <1>3, <1>4 DEF ReadInv

-----------------------------------------------------------------------------
(* The steps *)

LEMMA WindowIncompleteKeeps == ReadInv /\ WindowIncomplete => ReadInv'
  BY DEF ReadInv, WindowIncomplete

LEMMA CannotWriteKeeps == ReadInv /\ CannotWrite => ReadInv'
  BY DEF ReadInv, CannotWrite

LEMMA OpenKeeps == ReadInv /\ Open => ReadInv'
<1> SUFFICES ASSUME ReadInv, Open PROVE ReadInv'
  OBVIOUS
<1>1. /\ stored \in Seq(Characters) /\ text' = stored /\ section' = <<>> /\ entries' = NoFile
      /\ status' = "loading" /\ UNCHANGED <<typed, edits, stored>>
  BY DEF Open, ReadInv
<1>2. ASSUME stored # <<>>
      PROVE  \E p \in LineStarts(stored) \cup {Len(stored) + 1} : At(p)'
  <2>1. 1 \in LineStarts(stored) /\ stored = SubSeq(stored, 1, Len(stored))
        /\ SoFar(stored, 1, <<>>, NoFile)
    BY <1>1, <1>2, FreshFile
  <2>2. At(1)'
    BY <1>1, <2>1 DEF At
  <2> QED BY <2>1, <2>2
<1> QED BY <1>1, <1>2 DEF ReadInv

LEMMA UnreadKeeps == ReadInv /\ (CannotOpen \/ CannotRead) => ReadInv'
  BY DEF ReadInv, CannotOpen, CannotRead

(* The next line of a file that is being read *)
LEMMA LineToRead ==
    ASSUME ReadInv, Reading, stored # <<>>, Fit(stored)
    PROVE  \E p \in LineStarts(stored) :
             /\ SoFar(stored, p, section, entries)
             /\ NextLine = LineOf(stored, p)
             /\ \E n \in LineStarts(stored) \cup {Len(stored) + 1} :
                  /\ Passes(stored, p, n)
                  /\ Consume => text' = SubSeq(stored, n, Len(stored))
<1>1. stored \in Seq(Characters) /\ status = "loading" /\ text # <<>>
  BY DEF ReadInv, Reading
<1>2. PICK p \in LineStarts(stored) \cup {Len(stored) + 1} :
        text = SubSeq(stored, p, Len(stored)) /\ SoFar(stored, p, section, entries)
  BY <1>1 DEF ReadInv, At
<1>3. p \in LineStarts(stored)
  <2>1. p # Len(stored) + 1
    BY <1>1, <1>2, WhereItIs
  <2> QED BY <2>1
<1>4. /\ ChunkLen(text) = LineEnd(stored, p) - p + 1
      /\ Trim(SubSeq(text, 1, ChunkLen(text))) = LineOf(stored, p)
      /\ SubSeq(text, ChunkLen(text) + 1, Len(text)) = SubSeq(stored, LineEnd(stored, p) + 1, Len(stored))
  BY <1>1, <1>2, <1>3, ChunkIsLine
<1> DEFINE n == LineEnd(stored, p) + 1
<1>5. /\ n \in LineStarts(stored) \cup {Len(stored) + 1}
      /\ \A q \in LineStarts(stored) : q < n <=> q < p \/ q = p
  <2> DEFINE m == n
  <2>1. m = LineEnd(stored, p) + 1
    OBVIOUS
  <2> HIDE DEF m
  <2>2. /\ m \in LineStarts(stored) \cup {Len(stored) + 1}
        /\ \A q \in LineStarts(stored) : q < m <=> q < p \/ q = p
    BY <1>1, <1>3, <2>1, NextStart
  <2> QED BY <2>2 DEF m
<1>6. Consume => text' = SubSeq(stored, n, Len(stored))
  BY <1>4 DEF Consume
<1>7. NextLine = LineOf(stored, p)
  BY <1>4 DEF NextLine
<1> HIDE DEF n
<1>8. Passes(stored, p, n)
  BY <1>3, <1>5 DEF Passes
<1> QED BY <1>2, <1>3, <1>5, <1>6, <1>7, <1>8

LEMMA ReadIgnoredKeeps == ReadInv /\ ReadIgnored => ReadInv'
<1> SUFFICES ASSUME ReadInv, ReadIgnored PROVE ReadInv'
  OBVIOUS
<1>1. Reading /\ Ignored(NextLine) /\ Consume /\ status = "loading"
      /\ UNCHANGED <<typed, edits, stored, section, entries, status>>
  BY DEF ReadIgnored, Reading
<1>2. ASSUME stored # <<>>, Fit(stored)
      PROVE  \E p \in LineStarts(stored) \cup {Len(stored) + 1} : At(p)'
  <2>1. PICK p \in LineStarts(stored) :
          /\ SoFar(stored, p, section, entries) /\ NextLine = LineOf(stored, p)
          /\ \E n \in LineStarts(stored) \cup {Len(stored) + 1} :
               Passes(stored, p, n) /\ (Consume => text' = SubSeq(stored, n, Len(stored)))
    BY <1>1, <1>2, LineToRead
  <2>2. PICK n \in LineStarts(stored) \cup {Len(stored) + 1} :
          Passes(stored, p, n) /\ (Consume => text' = SubSeq(stored, n, Len(stored)))
    BY <2>1
  <2>3. stored \in Seq(Characters) /\ Ignored(LineOf(stored, p))
    BY <1>1, <2>1 DEF ReadInv
  <2>4. SoFar(stored, n, section, entries)
    BY <2>1, <2>2, <2>3, PassIgnored
  <2>5. At(n)'
    BY <1>1, <2>2, <2>4 DEF At
  <2> QED BY <1>1, <2>5
<1> QED BY <1>1, <1>2 DEF ReadInv

LEMMA ReadSectionKeeps == ReadInv /\ ReadSection => ReadInv'
<1> SUFFICES ASSUME ReadInv, ReadSection PROVE ReadInv'
  OBVIOUS
<1>1. Reading /\ IsSection(NextLine) /\ HasName(NextLine) /\ Consume
      /\ section' = SectionName(NextLine) /\ status = "loading"
      /\ UNCHANGED <<typed, edits, stored, entries, status>>
  BY DEF ReadSection, Reading
<1>2. ASSUME stored # <<>>, Fit(stored)
      PROVE  \E p \in LineStarts(stored) \cup {Len(stored) + 1} : At(p)'
  <2>1. PICK p \in LineStarts(stored) :
          /\ SoFar(stored, p, section, entries) /\ NextLine = LineOf(stored, p)
          /\ \E n \in LineStarts(stored) \cup {Len(stored) + 1} :
               Passes(stored, p, n) /\ (Consume => text' = SubSeq(stored, n, Len(stored)))
    BY <1>1, <1>2, LineToRead
  <2>2. PICK n \in LineStarts(stored) \cup {Len(stored) + 1} :
          Passes(stored, p, n) /\ (Consume => text' = SubSeq(stored, n, Len(stored)))
    BY <2>1
  <2>3. /\ stored \in Seq(Characters)
        /\ IsSection(LineOf(stored, p)) /\ HasName(LineOf(stored, p))
        /\ section' = SectionName(LineOf(stored, p))
    BY <1>1, <2>1 DEF ReadInv
  <2>4. SoFar(stored, n, SectionName(LineOf(stored, p)), entries)
    BY <2>1, <2>2, <2>3, PassSection
  <2>5. At(n)'
    BY <1>1, <2>2, <2>3, <2>4 DEF At
  <2> QED BY <1>1, <2>5
<1> QED BY <1>1, <1>2 DEF ReadInv

LEMMA ReadEntryKeeps == ReadInv /\ ReadEntry => ReadInv'
<1> SUFFICES ASSUME ReadInv, ReadEntry PROVE ReadInv'
  OBVIOUS
<1>1. Reading /\ IsEntry(NextLine, section) /\ Consume /\ status = "loading"
      /\ (Entry \in DOMAIN entries \/ Cardinality(DOMAIN entries) < EntriesMax)
      /\ (Entry \in DOMAIN entries \/ ~TooLong(Key(NextLine), KeyMax))
      /\ ~TooLong(Value(NextLine), ValueMax)
      /\ entries' = Store(entries, Entry, Value(NextLine))
      /\ UNCHANGED <<typed, edits, stored, section, status>>
  BY DEF ReadEntry, Reading, HasPlace, KeyFits
<1>2. ASSUME stored # <<>>, Fit(stored)
      PROVE  \E p \in LineStarts(stored) \cup {Len(stored) + 1} : At(p)'
  <2>1. PICK p \in LineStarts(stored) :
          /\ SoFar(stored, p, section, entries) /\ NextLine = LineOf(stored, p)
          /\ \E n \in LineStarts(stored) \cup {Len(stored) + 1} :
               Passes(stored, p, n) /\ (Consume => text' = SubSeq(stored, n, Len(stored)))
    BY <1>1, <1>2, LineToRead
  <2>2. PICK n \in LineStarts(stored) \cup {Len(stored) + 1} :
          Passes(stored, p, n) /\ (Consume => text' = SubSeq(stored, n, Len(stored)))
    BY <2>1
  <2> DEFINE k == <<section, Key(LineOf(stored, p))>>
  <2>3. /\ stored \in Seq(Characters) /\ IsEntry(LineOf(stored, p), section)
        /\ (k \in DOMAIN entries \/ Cardinality(DOMAIN entries) < EntriesMax)
        /\ (k \in DOMAIN entries \/ ~TooLong(Key(LineOf(stored, p)), KeyMax))
        /\ ~TooLong(Value(LineOf(stored, p)), ValueMax)
        /\ entries' = Store(entries, k, Value(LineOf(stored, p)))
    BY <1>1, <2>1 DEF ReadInv, Entry
  <2>4. k = <<section, Key(LineOf(stored, p))>>
    OBVIOUS
  <2> HIDE DEF k
  <2>5. SoFar(stored, n, section, Store(entries, k, Value(LineOf(stored, p))))
    BY <2>1, <2>2, <2>3, <2>4, PassEntry
  <2>6. At(n)'
    BY <1>1, <2>2, <2>3, <2>5 DEF At
  <2> QED BY <1>1, <2>6
<1> QED BY <1>1, <1>2 DEF ReadInv

LEMMA ReadTooManyKeeps == ReadInv /\ ReadTooMany => ReadInv'
<1> SUFFICES ASSUME ReadInv, ReadTooMany PROVE ReadInv'
  OBVIOUS
<1>1. Reading /\ IsEntry(NextLine, section) /\ status' = "error"
      /\ Entry \notin DOMAIN entries /\ ~(Cardinality(DOMAIN entries) < EntriesMax)
      /\ UNCHANGED <<typed, edits, stored, section, entries>>
  BY DEF ReadTooMany, HasPlace
<1>2. ASSUME stored # <<>>, Fit(stored)
      PROVE  Malformed(stored)
  <2>1. PICK p \in LineStarts(stored) :
          SoFar(stored, p, section, entries) /\ NextLine = LineOf(stored, p)
    BY <1>1, <1>2, LineToRead
  <2>2. /\ stored \in Seq(Characters) /\ IsEntry(LineOf(stored, p), section)
        /\ <<section, Key(LineOf(stored, p))>> \notin DOMAIN entries
        /\ ~(Cardinality(DOMAIN entries) < EntriesMax)
    BY <1>1, <2>1 DEF ReadInv, Entry
  <2> QED BY <2>1, <2>2, TooManyIsMalformed
<1> QED BY <1>1, <1>2 DEF ReadInv

LEMMA ReadLongKeeps == ReadInv /\ (ReadLongKey \/ ReadLongValue) => ReadInv'
<1> SUFFICES ASSUME ReadInv, ReadLongKey \/ ReadLongValue PROVE ReadInv'
  OBVIOUS
<1>1. Reading /\ IsEntry(NextLine, section) /\ status' = "error" /\ ~HasRoom(NextLine)
      /\ UNCHANGED <<typed, edits, stored>>
  BY DEF ReadLongKey, ReadLongValue, KeyFits, HasRoom
<1>2. ASSUME stored # <<>>, Fit(stored)
      PROVE  Malformed(stored)
  <2>1. PICK p \in LineStarts(stored) :
          SoFar(stored, p, section, entries) /\ NextLine = LineOf(stored, p)
    BY <1>1, <1>2, LineToRead
  <2>2. /\ stored \in Seq(Characters) /\ IsEntry(LineOf(stored, p), section)
        /\ ~HasRoom(LineOf(stored, p))
    BY <1>1, <2>1 DEF ReadInv
  <2> QED BY <2>1, <2>2, LongIsMalformed
<1> QED BY <1>1, <1>2 DEF ReadInv

LEMMA ReadInvalidKeeps == ReadInv /\ ReadInvalid => ReadInv'
<1> SUFFICES ASSUME ReadInv, ReadInvalid PROVE ReadInv'
  OBVIOUS
<1>1. Reading /\ ~Ignored(NextLine)
      /\ IF IsSection(NextLine) THEN ~HasName(NextLine) ELSE ~IsEntry(NextLine, section)
  BY DEF ReadInvalid
<1>3. status' = "error" /\ UNCHANGED <<typed, edits, stored, section, entries>>
  BY DEF ReadInvalid
<1>2. ASSUME stored # <<>>, Fit(stored)
      PROVE  Malformed(stored)
  <2>1. PICK p \in LineStarts(stored) :
          SoFar(stored, p, section, entries) /\ NextLine = LineOf(stored, p)
    BY <1>1, <1>2, LineToRead
  <2>2. /\ stored \in Seq(Characters) /\ ~Ignored(LineOf(stored, p))
        /\ IF IsSection(LineOf(stored, p)) THEN ~HasName(LineOf(stored, p))
           ELSE ~IsEntry(LineOf(stored, p), section)
    BY <1>1, <2>1 DEF ReadInv
  <2> QED BY <2>1, <2>2, InvalidIsMalformed
<1> QED BY <1>2, <1>3 DEF ReadInv

LEMMA CheckKeeps == ReadInv /\ Check => ReadInv'
<1> SUFFICES ASSUME ReadInv, Check PROVE ReadInv'
  OBVIOUS
<1>1. status = "loading" /\ text = <<>> /\ status' \in {"ok", "refused"}
      /\ UNCHANGED <<typed, edits, stored, section, entries>>
  BY DEF Check
<1>2. ASSUME stored # <<>>, Fit(stored)
      PROVE  SoFar(stored, Len(stored) + 1, section, entries)
  <2>1. PICK p \in LineStarts(stored) \cup {Len(stored) + 1} :
          text = SubSeq(stored, p, Len(stored)) /\ SoFar(stored, p, section, entries)
    BY <1>1, <1>2 DEF ReadInv, At
  <2>2. p = Len(stored) + 1
    BY <1>1, <2>1, WhereItIs DEF ReadInv
  <2> QED BY <2>1, <2>2
<1> QED BY <1>1, <1>2 DEF ReadInv

LEMMA ReadStep == ReadInv /\ [Next]_vars => ReadInv'
<1> SUFFICES ASSUME ReadInv, [Next]_vars PROVE ReadInv'
  OBVIOUS
<1>1. CASE UNCHANGED vars
  BY <1>1 DEF ReadInv, At, vars
<1> QED
  BY <1>1, WriteFileKeeps, EditFileKeeps, WindowIncompleteKeeps, CannotWriteKeeps, OpenKeeps,
     UnreadKeeps, ReadIgnoredKeeps, ReadSectionKeeps, ReadEntryKeeps, ReadTooManyKeeps,
     ReadLongKeeps, ReadInvalidKeeps, CheckKeeps DEF Next

LEMMA ReadMeans == ReadInv => ReadsMeaning
<1> SUFFICES ASSUME ReadInv, status \in {"error", "refused", "ok"}, stored # <<>>, LinesFit
             PROVE  /\ status = "error" <=> Meant.malformed
                    /\ status # "error" => entries = Meant.entries
  BY DEF ReadsMeaning
<1>1. stored \in Seq(Characters) /\ Fit(stored)
  BY LinesOfFile DEF ReadInv
<1>2. /\ Meant.malformed <=> Malformed(stored)
      /\ Meant.entries = [k \in {KeyAt(stored, p) : p \in EntryLines(stored)} |->
           Value(LineOf(stored, Max({p \in EntryLines(stored) : KeyAt(stored, p) = k})))]
  BY <1>1, MeantFacts
<1>3. CASE status = "error"
  BY <1>1, <1>2, <1>3 DEF ReadInv
<1>4. CASE status \in {"refused", "ok"}
  <2>1. SoFar(stored, Len(stored) + 1, section, entries)
    BY <1>1, <1>4 DEF ReadInv
  <2>2. /\ ~Malformed(stored)
        /\ entries = [k \in {KeyAt(stored, p) : p \in EntryLines(stored)} |->
             Value(LineOf(stored, Max({p \in EntryLines(stored) : KeyAt(stored, p) = k})))]
    BY <1>1, <2>1, AllRead
  <2> QED BY <1>2, <1>4, <2>2
<1> QED BY <1>3, <1>4

(* However the file was written, cut short or edited, whatever its          *)
(* characters and for every size of the limits: when no line is longer than *)
(* fgets takes at once and no call fails, ntap_config_load refuses exactly  *)
(* the files with a malformed line, a name, key or value that copy_text     *)
(* refuses or too many keys, and hands out of every other file for each key *)
(* the value of its last line in its section.                               *)
THEOREM ReadsWhatIsMeant == Spec => []ReadsMeaning
<1>1. Spec => []ReadInv
  BY ReadStart, ReadStep, PTL DEF Spec
<1> QED BY <1>1, ReadMeans, PTL

-----------------------------------------------------------------------------
(* The window's file, line by line *)

(* The file that the window writes, line by line *)
EntryAt == {2, 3, 4, 5, 6, 7, 10, 11}
Name(k) ==
    CASE k = 2 -> "server_addr" [] k = 3 -> "username" [] k = 4 -> "password"
      [] k = 5 -> "network_id"  [] k = 6 -> "tap_name" [] k = 7 -> "mtu"
      [] k = 10 -> "level"      [] OTHER -> "file"
ValueAt(k) ==
    CASE k = 7 -> <<"1">> [] k = 10 -> <<"info">> [] k = 11 -> <<"path">>
      [] OTHER -> Written(Name(k))
Body(k) ==
    CASE k = 1 -> <<"[", "client", "]">> [] k = 8 -> <<>> [] k = 9 -> <<"[", "log", "]">>
      [] OTHER -> <<Name(k), "=">> \o ValueAt(k)
Whole(k) == Body(k) \o <<NL>>

From11 == Whole(11)
From10 == Whole(10) \o From11
From9  == Whole(9) \o From10
From8  == Whole(8) \o From9
From7  == Whole(7) \o From8
From6  == Whole(6) \o From7
From5  == Whole(5) \o From6
From4  == Whole(4) \o From5
From3  == Whole(3) \o From4
From2  == Whole(2) \o From3
From1  == Whole(1) \o From2
From(k) ==
    CASE k = 1 -> From1 [] k = 2 -> From2 [] k = 3 -> From3 [] k = 4 -> From4 [] k = 5 -> From5
      [] k = 6 -> From6 [] k = 7 -> From7 [] k = 8 -> From8 [] k = 9 -> From9 [] k = 10 -> From10
      [] k = 11 -> From11 [] OTHER -> <<>>

LEMMA NameType == \A k \in 1 .. 11 : Name(k) \in Characters /\ (k \in 2 .. 6 => Name(k) \in Fields)
<1>1. \A k \in 1 .. 11 : Name(k) \in Literals
  BY DEF Name, Literals
<1>2. \A k \in 2 .. 6 : Name(k) \in Fields
  BY DEF Name, Fields
<1> QED BY <1>1, <1>2, LiteralsAreCharacters

LEMMA ValueAtType ==
    ASSUME typed \in Seq(Characters), NEW k \in EntryAt
    PROVE  ValueAt(k) \in Seq(Characters)
<1>1. <<"1">> \in Seq(Characters) /\ <<"info">> \in Seq(Characters) /\ <<"path">> \in Seq(Characters)
  <2>1. "1" \in Characters /\ "info" \in Characters /\ "path" \in Characters
    BY LiteralsAreCharacters DEF Literals
  <2> QED BY <2>1, Texts, Zenon
<1>2. CASE k = 7
  BY <1>1, <1>2 DEF ValueAt
<1>3. CASE k = 10
  BY <1>1, <1>3 DEF ValueAt
<1>4. CASE k = 11
  BY <1>1, <1>4 DEF ValueAt
<1>5. CASE k \in 2 .. 6
  <2>1. Name(k) \in Fields
    BY <1>5, NameType
  <2>2. Written(Name(k)) \in Seq(Characters)
    BY <2>1, WrittenType
  <2>3. ValueAt(k) = Written(Name(k))
    BY <1>5 DEF ValueAt
  <2> QED BY <2>2, <2>3
<1> QED BY <1>2, <1>3, <1>4, <1>5 DEF EntryAt

LEMMA BodyType ==
    ASSUME typed \in Seq(Characters), NEW k \in 1 .. 11
    PROVE  Body(k) \in Seq(Characters) /\ Whole(k) \in Seq(Characters)
<1> DEFINE T == Seq(Characters)
<1>1. \A a, b \in T : a \o b \in T
  OBVIOUS
<1>2. /\ <<"[", "client", "]">> \in T /\ <<"[", "log", "]">> \in T /\ <<>> \in T /\ <<NL>> \in T
      /\ \A c \in Characters : <<c, "=">> \in T
  <2>1. /\ "[" \in Characters /\ "client" \in Characters /\ "]" \in Characters
        /\ "log" \in Characters /\ NL \in Characters /\ "=" \in Characters
    BY LiteralsAreCharacters DEF Literals
  <2> QED BY <2>1, Texts, Zenon
<1>3. k \in EntryAt => <<Name(k), "=">> \in T /\ ValueAt(k) \in T
  <2>1. Name(k) \in Characters
    BY NameType
  <2>2. k \in EntryAt => ValueAt(k) \in T
    BY ValueAtType
  <2> QED BY <1>2, <2>1, <2>2
<1> HIDE DEF T
<1>4. k \in EntryAt => <<Name(k), "=">> \o ValueAt(k) \in T
  BY <1>1, <1>3
<1>5. k \in EntryAt \/ k = 1 \/ k = 8 \/ k = 9
  BY DEF EntryAt
<1>6. Body(k) \in T
  <2>1. CASE k \in EntryAt
    <3>1. Body(k) = <<Name(k), "=">> \o ValueAt(k)
      BY <2>1 DEF Body, EntryAt
    <3> QED BY <1>4, <2>1, <3>1
  <2>2. CASE k = 1
    BY <1>2, <2>2 DEF Body
  <2>3. CASE k = 8
    BY <1>2, <2>3 DEF Body
  <2>4. CASE k = 9
    BY <1>2, <2>4 DEF Body
  <2> QED BY <1>5, <2>1, <2>2, <2>3, <2>4
<1>7. Whole(k) \in T
  BY <1>1, <1>2, <1>6 DEF Whole
<1> QED BY <1>6, <1>7 DEF T

LEMMA FromType ==
    ASSUME typed \in Seq(Characters)
    PROVE  /\ \A k \in 1 .. 12 : From(k) \in Seq(Characters)
           /\ \A k \in 1 .. 11 : From(k) = Whole(k) \o From(k + 1)
<1> DEFINE T == Seq(Characters)
<1>1. \A a, b \in T : a \o b \in T
  OBVIOUS
<1>2. /\ Whole(1) \in T /\ Whole(2) \in T /\ Whole(3) \in T /\ Whole(4) \in T /\ Whole(5) \in T
      /\ Whole(6) \in T /\ Whole(7) \in T /\ Whole(8) \in T /\ Whole(9) \in T /\ Whole(10) \in T
      /\ Whole(11) \in T
  BY BodyType
<1>3. <<>> \in T /\ \A a \in T : a \o <<>> = a
  OBVIOUS
<1> HIDE DEF T
<1>4. From11 \in T /\ From10 \in T /\ From9 \in T /\ From8 \in T
  BY <1>1, <1>2 DEF From11, From10, From9, From8
<1>5. From7 \in T /\ From6 \in T /\ From5 \in T /\ From4 \in T
  BY <1>1, <1>2, <1>4 DEF From7, From6, From5, From4
<1>6. From3 \in T /\ From2 \in T /\ From1 \in T
  BY <1>1, <1>2, <1>5 DEF From3, From2, From1
<1>7. \A k \in 1 .. 12 : From(k) \in T
  BY <1>3, <1>4, <1>5, <1>6 DEF From
<1>8. ASSUME NEW k \in 1 .. 11 PROVE From(k) = Whole(k) \o From(k + 1)
  <2>1. k = 11 => From(k) = Whole(k) \o From(k + 1)
    <3> SUFFICES ASSUME k = 11 PROVE From(11) = Whole(11) \o From(12)
      OBVIOUS
    <3>1. From(11) = Whole(11) /\ From(12) = <<>>
      BY DEF From, From11
    <3> QED BY <1>2, <1>3, <3>1
  <2>2. k = 10 => From(k) = Whole(k) \o From(k + 1)
    BY DEF From, From10
  <2>3. k = 9 => From(k) = Whole(k) \o From(k + 1)
    BY DEF From, From9
  <2>4. k = 8 => From(k) = Whole(k) \o From(k + 1)
    BY DEF From, From8
  <2>5. k = 7 => From(k) = Whole(k) \o From(k + 1)
    BY DEF From, From7
  <2>6. k = 6 => From(k) = Whole(k) \o From(k + 1)
    BY DEF From, From6
  <2>7. k = 5 => From(k) = Whole(k) \o From(k + 1)
    BY DEF From, From5
  <2>8. k = 4 => From(k) = Whole(k) \o From(k + 1)
    BY DEF From, From4
  <2>9. k = 3 => From(k) = Whole(k) \o From(k + 1)
    BY DEF From, From3
  <2>10. k = 2 => From(k) = Whole(k) \o From(k + 1)
    BY DEF From, From2
  <2>11. k = 1 => From(k) = Whole(k) \o From(k + 1)
    BY DEF From, From1
  <2> QED BY <2>1, <2>2, <2>3, <2>4, <2>5, <2>6, <2>7, <2>8, <2>9, <2>10, <2>11
<1> QED BY <1>7, <1>8 DEF T

LEMMA FourTogether ==
    ASSUME NEW p, NEW q, NEW r, NEW s
    PROVE  <<p, q, r>> \o <<s>> = <<p, q, r, s>>
<1> DEFINE S == {p, q, r, s}
           a == <<p, q, r>>
           b == <<s>>
           x == a \o b
           y == <<p, q, r, s>>
<1>1. a \in Seq(S) /\ Len(a) = 3 /\ a[1] = p /\ a[2] = q /\ a[3] = r
  OBVIOUS
<1>2. b \in Seq(S) /\ Len(b) = 1 /\ b[1] = s
  OBVIOUS
<1>3. y \in Seq(S) /\ Len(y) = 4 /\ y[1] = p /\ y[2] = q /\ y[3] = r /\ y[4] = s
  OBVIOUS
<1> HIDE DEF S, a, b, y
<1>4. x \in Seq(S) /\ Len(x) = 4 /\ x[1] = p /\ x[2] = q /\ x[3] = r /\ x[4] = s
  <2>0. a \in Seq(S) /\ b \in Seq(S)
    BY <1>1, <1>2
  <2>4. /\ x \in Seq(S) /\ Len(x) = Len(a) + Len(b)
        /\ \A i \in 1 .. Len(a) + Len(b) : x[i] = IF i <= Len(a) THEN a[i] ELSE b[i - Len(a)]
    BY <2>0, ConcatProperties, Zenon
  <2>5. Len(a) = 3 /\ Len(b) = 1
    BY <1>1, <1>2
  <2> HIDE DEF x
  <2>1. x \in Seq(S) /\ Len(x) = 4
    BY <2>4, <2>5
  <2>2. \A i \in 1 .. 4 : x[i] = IF i <= 3 THEN a[i] ELSE b[i - 3]
    BY <2>4, <2>5
  <2>3. x[1] = a[1] /\ x[2] = a[2] /\ x[3] = a[3] /\ x[4] = b[1]
    <3> HIDE DEF x
    <3> QED BY <2>2
  <2> QED BY <1>1, <1>2, <2>1, <2>3
<1> HIDE DEF x
<1>5. \A i \in 1 .. 4 : x[i] = y[i]
  BY <1>3, <1>4
<1>6. x = y
  BY <1>3, <1>4, <1>5
<1> QED BY <1>6 DEF x, y, a, b

LEMMA GuiFileIs ==
    ASSUME typed \in Seq(Characters)
    PROVE  GuiFile = From(1)
<1> DEFINE T == Seq(Characters)
           L(n, v) == Line(n, v)
           c == <<"[", "client", "]", NL>>
           g == <<"[", "log", "]", NL>>
<1>1. /\ \A a, b \in T : a \o b \in T
      /\ \A x, y, z \in T : (x \o y) \o z = x \o (y \o z)
      /\ \A x \in T : <<>> \o x = x
  OBVIOUS
<1>2. Whole(1) = c /\ Whole(9) = g /\ Whole(8) = <<NL>>
  <2>1. Body(1) = <<"[", "client", "]">> /\ Body(9) = <<"[", "log", "]">> /\ Body(8) = <<>>
    BY DEF Body
  <2>2. \A p, q, r, s : <<p, q, r>> \o <<s>> = <<p, q, r, s>>
    BY FourTogether
  <2>3. <<NL>> \in T
    <3>1. NL \in Characters
      BY LiteralsAreCharacters DEF Literals
    <3> QED BY <3>1
  <2>4. <<>> \o <<NL>> = <<NL>>
    BY <1>1, <2>3
  <2> QED BY <2>1, <2>2, <2>4, Zenon DEF Whole
<1>3. /\ Whole(2) = L("server_addr", Written("server_addr"))
      /\ Whole(3) = L("username", Written("username"))
      /\ Whole(4) = L("password", Written("password"))
      /\ Whole(5) = L("network_id", Written("network_id"))
      /\ Whole(6) = L("tap_name", Written("tap_name"))
  BY DEF Whole, Body, ValueAt, Name, Line
<1>4. /\ Whole(7) = L("mtu", <<"1">>) /\ Whole(10) = L("level", <<"info">>)
      /\ Whole(11) = L("file", <<"path">>)
  BY DEF Whole, Body, ValueAt, Name, Line
<1>5. /\ Whole(1) \in T /\ Whole(2) \in T /\ Whole(3) \in T /\ Whole(4) \in T /\ Whole(5) \in T
      /\ Whole(6) \in T /\ Whole(7) \in T /\ Whole(8) \in T /\ Whole(9) \in T /\ Whole(10) \in T
      /\ Whole(11) \in T
  BY BodyType
<1>6. GuiFile = Whole(1) \o Whole(2) \o Whole(3) \o Whole(4) \o Whole(5) \o Whole(6) \o Whole(7)
                \o Whole(8) \o Whole(9) \o Whole(10) \o Whole(11)
  BY <1>2, <1>3, <1>4, Zenon DEF GuiFile
<1>7. /\ From11 \in T /\ From10 \in T /\ From9 \in T /\ From8 \in T /\ From7 \in T /\ From6 \in T
      /\ From5 \in T /\ From4 \in T /\ From3 \in T /\ From2 \in T /\ From1 \in T
  BY FromType DEF From
<1> DEFINE P2 == Whole(1) \o Whole(2)
           P3 == P2 \o Whole(3)
           P4 == P3 \o Whole(4)
           P5 == P4 \o Whole(5)
           P6 == P5 \o Whole(6)
           P7 == P6 \o Whole(7)
           P8 == P7 \o Whole(8)
           P9 == P8 \o Whole(9)
           P10 == P9 \o Whole(10)
<1>8. GuiFile = P10 \o Whole(11)
  BY <1>6
<1>9. /\ P2 = Whole(1) \o Whole(2) /\ P3 = P2 \o Whole(3) /\ P4 = P3 \o Whole(4)
      /\ P5 = P4 \o Whole(5) /\ P6 = P5 \o Whole(6) /\ P7 = P6 \o Whole(7)
      /\ P8 = P7 \o Whole(8) /\ P9 = P8 \o Whole(9) /\ P10 = P9 \o Whole(10)
  OBVIOUS
<1> HIDE DEF P2, P3, P4, P5, P6, P7, P8, P9, P10
<1>10. P2 \in T /\ P3 \in T /\ P4 \in T /\ P5 \in T
  <2> HIDE DEF T
  <2> QED BY <1>1, <1>5, <1>9
<1>11. P6 \in T /\ P7 \in T /\ P8 \in T /\ P9 \in T /\ P10 \in T
  <2> HIDE DEF T
  <2> QED BY <1>1, <1>5, <1>9, <1>10
<1>12. From1 = P2 \o From3
  <2>1. Whole(1) \in T /\ Whole(2) \in T /\ From3 \in T
    BY <1>5, <1>7, <1>10, <1>11
  <2>2. Whole(1) \o (Whole(2) \o From3) = (Whole(1) \o Whole(2)) \o From3
    BY <2>1
  <2> QED BY <1>9, <2>2, Zenon DEF From1, From2
<1>13. P2 \o From3 = P3 \o From4
  <2>1. P2 \in T /\ Whole(3) \in T /\ From4 \in T
    BY <1>5, <1>7, <1>10, <1>11
  <2>2. P2 \o (Whole(3) \o From4) = (P2 \o Whole(3)) \o From4
    BY <2>1
  <2> QED BY <1>9, <2>2, Zenon DEF From3
<1>14. P3 \o From4 = P4 \o From5
  <2>1. P3 \in T /\ Whole(4) \in T /\ From5 \in T
    BY <1>5, <1>7, <1>10, <1>11
  <2>2. P3 \o (Whole(4) \o From5) = (P3 \o Whole(4)) \o From5
    BY <2>1
  <2> QED BY <1>9, <2>2, Zenon DEF From4
<1>15. P4 \o From5 = P5 \o From6
  <2>1. P4 \in T /\ Whole(5) \in T /\ From6 \in T
    BY <1>5, <1>7, <1>10, <1>11
  <2>2. P4 \o (Whole(5) \o From6) = (P4 \o Whole(5)) \o From6
    BY <2>1
  <2> QED BY <1>9, <2>2, Zenon DEF From5
<1>16. P5 \o From6 = P6 \o From7
  <2>1. P5 \in T /\ Whole(6) \in T /\ From7 \in T
    BY <1>5, <1>7, <1>10, <1>11
  <2>2. P5 \o (Whole(6) \o From7) = (P5 \o Whole(6)) \o From7
    BY <2>1
  <2> QED BY <1>9, <2>2, Zenon DEF From6
<1>17. P6 \o From7 = P7 \o From8
  <2>1. P6 \in T /\ Whole(7) \in T /\ From8 \in T
    BY <1>5, <1>7, <1>10, <1>11
  <2>2. P6 \o (Whole(7) \o From8) = (P6 \o Whole(7)) \o From8
    BY <2>1
  <2> QED BY <1>9, <2>2, Zenon DEF From7
<1>18. P7 \o From8 = P8 \o From9
  <2>1. P7 \in T /\ Whole(8) \in T /\ From9 \in T
    BY <1>5, <1>7, <1>10, <1>11
  <2>2. P7 \o (Whole(8) \o From9) = (P7 \o Whole(8)) \o From9
    BY <2>1
  <2> QED BY <1>9, <2>2, Zenon DEF From8
<1>19. P8 \o From9 = P9 \o From10
  <2>1. P8 \in T /\ Whole(9) \in T /\ From10 \in T
    BY <1>5, <1>7, <1>10, <1>11
  <2>2. P8 \o (Whole(9) \o From10) = (P8 \o Whole(9)) \o From10
    BY <2>1
  <2> QED BY <1>9, <2>2, Zenon DEF From9
<1>20. P9 \o From10 = P10 \o From11
  <2>1. P9 \in T /\ Whole(10) \in T /\ From11 \in T
    BY <1>5, <1>7, <1>10, <1>11
  <2>2. P9 \o (Whole(10) \o From11) = (P9 \o Whole(10)) \o From11
    BY <2>1
  <2> QED BY <1>9, <2>2, Zenon DEF From10
<1> QED BY <1>8, <1>12, <1>13, <1>14, <1>15, <1>16, <1>17, <1>18, <1>19, <1>20 DEF From, From11

-----------------------------------------------------------------------------
(* Its lines fit the buffer *)

(* What a line consists of: no end of line but the last *)
LEMMA ScrubFacts ==
    ASSUME NEW v \in Seq(Characters)
    PROVE  /\ Scrub(v) \in Seq(Characters) /\ Len(Scrub(v)) = Len(v)
           /\ \A i \in 1 .. Len(v) : Scrub(v)[i] = IF v[i] = NL THEN " " ELSE v[i]
<1>1. Len(v) \in Nat /\ DOMAIN v = 1 .. Len(v)
  OBVIOUS
<1>2. DOMAIN Scrub(v) = 1 .. Len(v)
      /\ \A i \in 1 .. Len(v) : Scrub(v)[i] = IF v[i] = NL THEN " " ELSE v[i]
  BY <1>1 DEF Scrub
<1>3. Scrub(v) \in Seq(Characters)
  BY ScrubType
<1>4. Len(Scrub(v)) = Len(v)
  <2> DEFINE w == Scrub(v)
  <2>1. w \in Seq(Characters) /\ DOMAIN w = 1 .. Len(v) /\ Len(v) \in Nat
    BY <1>1, <1>2, <1>3
  <2> HIDE DEF w
  <2>2. Len(w) \in Nat /\ DOMAIN w = 1 .. Len(w)
    BY <2>1
  <2>3. Len(w) = Len(v)
    BY <2>1, <2>2
  <2> QED BY <2>3 DEF w
<1> QED BY <1>2, <1>3, <1>4

NoEnd(v) == \A i \in 1 .. Len(v) : v[i] # NL

(* What is typed fits the window's field. *)
Typed == typed \in Seq(Characters) /\ Len(typed) <= MaxTyped

(* The buffer of 1023 characters takes each line that the window writes,    *)
(* that of 512 each value (its longest field has 511 characters), those of  *)
(* 64 its keys and sections, and the table of 128 its 8 keys.               *)
WindowFits ==
    /\ LineMax >= MaxTyped + 3 /\ LineMax >= 6
    /\ ValueMax > MaxTyped /\ ValueMax > 3 /\ KeyMax > 1 /\ SectionMax > 1
    /\ EntriesMax >= 8

LEMMA ValueFacts ==
    ASSUME Typed, WindowFits, NEW k \in EntryAt
    PROVE  /\ ValueAt(k) \in Seq(Characters) /\ NoEnd(ValueAt(k))
           /\ Len(ValueAt(k)) + 3 <= LineMax /\ Len(ValueAt(k)) < ValueMax
<1>1. ValueAt(k) \in Seq(Characters)
  BY ValueAtType DEF Typed
<1>2. MaxTyped \in Nat /\ LineMax \in Nat /\ ValueMax \in Nat
  BY BoundsAssumption
<1>3. \A c : NoEnd(<<c>>) <=> c # NL
  BY DEF NoEnd
<1>4. \A c : Len(<<c>>) = 1
  OBVIOUS
<1>5. NoEnd(<<"1">>) /\ NoEnd(<<"info">>) /\ NoEnd(<<"path">>) /\ NoEnd(<<"ntap-c0">>)
  BY <1>3 DEF NL
<1>6. ASSUME NEW f \in Fields
      PROVE  /\ InField(f) \in Seq(Characters)
             /\ Len(InField(f)) <= 3 \/ Len(InField(f)) <= MaxTyped
  <2>1. CASE f = field
    BY <2>1 DEF InField, Typed
  <2>2. CASE f # field
    <3>1. InField(f) = Usual[f]
      BY <2>2 DEF InField
    <3>2. Usual[f] \in Seq(Characters)
      BY UsualType
    <3>3. \A a, b, c : Len(<<a, b, c>>) = 3
      OBVIOUS
    <3>4. Len(Usual[f]) <= 3
      <4>1. /\ Len(Usual.server_addr) = 3 /\ Len(Usual.username) = 1 /\ Len(Usual.password) = 1
            /\ Len(Usual.network_id) = 1 /\ Len(Usual.tap_name) = 1
        BY <1>4, <3>3 DEF Usual
      <4>2. \/ f = "server_addr" \/ f = "username" \/ f = "password" \/ f = "network_id"
            \/ f = "tap_name"
        BY DEF Fields
      <4>3. \/ Len(Usual[f]) = 3 \/ Len(Usual[f]) = 1
        BY <4>1, <4>2
      <4> DEFINE n == Len(Usual[f])
      <4>4. n = 3 \/ n = 1
        BY <4>3
      <4> HIDE DEF n
      <4>5. n <= 3
        BY <4>4
      <4> QED BY <4>5 DEF n
    <3> QED BY <3>1, <3>2, <3>4
  <2> QED BY <2>1, <2>2
<1>7. ASSUME NEW f \in Fields
      PROVE  NoEnd(Written(f)) /\ Len(Written(f)) + 3 <= LineMax /\ Len(Written(f)) < ValueMax
  <2> DEFINE v == InField(f)
  <2>1. v \in Seq(Characters) /\ (Len(v) <= 3 \/ Len(v) <= MaxTyped)
    BY <1>6
  <2>2. NoEnd(Scrub(v)) /\ Len(Scrub(v)) = Len(v)
    <3> HIDE DEF v
    <3>1. /\ Len(Scrub(v)) = Len(v)
          /\ \A i \in 1 .. Len(v) : Scrub(v)[i] = IF v[i] = NL THEN " " ELSE v[i]
      BY <2>1, ScrubFacts
    <3>2. " " # NL
      BY DEF NL
    <3> QED BY <3>1, <3>2 DEF NoEnd
  <2>3. Written(f) = Scrub(v) \/ Written(f) = <<"1">> \/ Written(f) = <<"ntap-c0">>
    BY DEF Written
  <2>4. Len(v) \in Nat /\ Len(v) + 3 <= LineMax /\ Len(v) < ValueMax
    <3> HIDE DEF v
    <3>1. Len(v) \in Nat
      BY <2>1
    <3> QED BY <1>2, <2>1, <3>1 DEF WindowFits
  <2>5. /\ Len(<<"1">>) + 3 <= LineMax /\ Len(<<"ntap-c0">>) + 3 <= LineMax
        /\ Len(<<"1">>) < ValueMax /\ Len(<<"ntap-c0">>) < ValueMax
    BY <1>2, <1>4 DEF WindowFits
  <2> QED BY <1>5, <2>2, <2>3, <2>4, <2>5
<1>8. CASE k \in 2 .. 6
  <2>1. Name(k) \in Fields /\ ValueAt(k) = Written(Name(k))
    BY <1>8, NameType DEF ValueAt
  <2> QED BY <1>1, <1>7, <2>1
<1>9. CASE k \in {7, 10, 11}
  <2>1. ValueAt(k) = <<"1">> \/ ValueAt(k) = <<"info">> \/ ValueAt(k) = <<"path">>
    BY <1>9 DEF ValueAt
  <2>2. Len(ValueAt(k)) = 1
    BY <1>4, <2>1
  <2> QED BY <1>1, <1>2, <1>5, <2>1, <2>2 DEF WindowFits
<1> QED BY <1>8, <1>9 DEF EntryAt

LEMMA PairFront ==
    ASSUME NEW S, NEW a \in S, NEW b \in S, NEW v \in Seq(S), NEW x, x = <<a, b>> \o v
    PROVE  /\ x \in Seq(S) /\ Len(x) = Len(v) + 2 /\ x[1] = a /\ x[2] = b
           /\ \A i \in 3 .. Len(v) + 2 : x[i] = v[i - 2]
<1> DEFINE p == <<a, b>>
<1>1. p \in Seq(S) /\ Len(p) = 2 /\ p[1] = a /\ p[2] = b /\ Len(v) \in Nat
  OBVIOUS
<1>2. /\ p \o v \in Seq(S) /\ Len(p \o v) = Len(p) + Len(v)
      /\ \A i \in 1 .. Len(p) + Len(v) : (p \o v)[i] = IF i <= Len(p) THEN p[i] ELSE v[i - Len(p)]
  BY <1>1, ConcatProperties, Zenon
<1>3. x = p \o v
  OBVIOUS
<1> HIDE DEF p
<1>4. /\ x \in Seq(S) /\ Len(x) = 2 + Len(v)
      /\ \A i \in 1 .. 2 + Len(v) : x[i] = IF i <= 2 THEN p[i] ELSE v[i - 2]
  BY <1>1, <1>2, <1>3
<1> QED BY <1>1, <1>4

LEMMA BodyFacts ==
    ASSUME Typed, WindowFits, NEW k \in 1 .. 11
    PROVE  /\ Body(k) \in Seq(Characters) /\ NoEnd(Body(k)) /\ Len(Body(k)) + 1 <= LineMax
           /\ k \in EntryAt => Body(k) = <<Name(k), "=">> \o ValueAt(k)
<1>1. Body(k) \in Seq(Characters)
  BY BodyType DEF Typed
<1>2. LineMax \in Nat /\ LineMax >= 6
  BY BoundsAssumption DEF WindowFits
<1>3. k \in EntryAt \/ k = 1 \/ k = 8 \/ k = 9
  BY DEF EntryAt
<1>4. CASE k \in EntryAt
  <2>1. Body(k) = <<Name(k), "=">> \o ValueAt(k)
    BY <1>4 DEF Body, EntryAt
  <2>2. Name(k) \in Characters /\ "=" \in Characters /\ Name(k) # NL /\ "=" # NL
    BY NameType, LiteralsAreCharacters DEF Literals, Name, NL
  <2>3. /\ ValueAt(k) \in Seq(Characters) /\ NoEnd(ValueAt(k)) /\ Len(ValueAt(k)) + 3 <= LineMax
    BY <1>4, ValueFacts
  <2> DEFINE v == ValueAt(k)
             x == Body(k)
  <2>4. /\ Len(x) = Len(v) + 2 /\ x[1] = Name(k) /\ x[2] = "="
        /\ \A i \in 3 .. Len(v) + 2 : x[i] = v[i - 2]
    <3> HIDE DEF v, x
    <3> QED BY <2>1, <2>2, <2>3, PairFront DEF v, x
  <2> HIDE DEF v, x
  <2>5. v \in Seq(Characters) /\ NoEnd(v) /\ Len(v) + 3 <= LineMax
    BY <2>3 DEF v
  <2>6. NoEnd(x) /\ Len(x) + 1 <= LineMax
    <3>1. Len(v) \in Nat /\ Len(x) = Len(v) + 2
      BY <2>4, <2>5
    <3>2. \A i \in 1 .. Len(v) + 2 : x[i] # NL
      <4> SUFFICES ASSUME NEW i \in 1 .. Len(v) + 2 PROVE x[i] # NL
        OBVIOUS
      <4>1. i = 1 \/ i = 2 \/ i \in 3 .. Len(v) + 2
        BY <3>1
      <4>2. CASE i \in 3 .. Len(v) + 2
        <5>1. i - 2 \in 1 .. Len(v)
          BY <3>1, <4>2
        <5> QED BY <2>4, <2>5, <4>2, <5>1 DEF NoEnd
      <4> QED BY <2>2, <2>4, <4>1, <4>2
    <3>3. Len(x) + 1 <= LineMax
      BY <1>2, <2>5, <3>1
    <3> QED BY <3>1, <3>2, <3>3 DEF NoEnd
  <2> QED BY <1>1, <2>1, <2>6 DEF x
<1>5. CASE k = 1 \/ k = 9
  <2>1. \A a, b, c : Len(<<a, b, c>>) = 3 /\ (a # NL /\ b # NL /\ c # NL => NoEnd(<<a, b, c>>))
    BY DEF NoEnd
  <2>2. Body(k) = <<"[", "client", "]">> \/ Body(k) = <<"[", "log", "]">>
    BY <1>5 DEF Body
  <2>3. "[" # NL /\ "client" # NL /\ "]" # NL /\ "log" # NL
    BY DEF NL
  <2>4. NoEnd(Body(k)) /\ Len(Body(k)) = 3
    BY <2>1, <2>2, <2>3
  <2>5. k \notin EntryAt
    BY <1>5 DEF EntryAt
  <2> QED BY <1>1, <1>2, <2>4, <2>5
<1>6. CASE k = 8
  <2>1. Body(k) = <<>>
    BY <1>6 DEF Body
  <2>2. NoEnd(<<>>) /\ Len(<<>>) = 0
    BY DEF NoEnd
  <2> QED BY <1>1, <1>2, <1>6, <2>1, <2>2 DEF EntryAt
<1> QED BY <1>3, <1>4, <1>5, <1>6

-----------------------------------------------------------------------------
(* What fgets takes of it *)

LEMMA SameSequence ==
    ASSUME NEW S, NEW x \in Seq(S), NEW y \in Seq(S), Len(x) = Len(y),
           \A i \in 1 .. Len(x) : x[i] = y[i]
    PROVE  x = y
  OBVIOUS

(* A line with its end, and what is behind it *)
Before(w, b, r) ==
    /\ w \in Seq(Characters) /\ Len(w) = Len(b) + 1 + Len(r)
    /\ \A i \in 1 .. Len(b) : w[i] = b[i]
    /\ w[Len(b) + 1] = NL
    /\ \A i \in 1 .. Len(r) : w[Len(b) + 1 + i] = r[i]

LEMMA Ended ==
    ASSUME NEW b \in Seq(Characters), NEW x, x = b \o <<NL>>
    PROVE  /\ x \in Seq(Characters) /\ Len(x) = Len(b) + 1
           /\ \A i \in 1 .. Len(b) : x[i] = b[i]
           /\ x[Len(b) + 1] = NL
<1>1. NL \in Characters
  BY LiteralsAreCharacters DEF Literals
<1> DEFINE e == <<NL>>
<1>2. e \in Seq(Characters) /\ Len(e) = 1 /\ e[1] = NL /\ Len(b) \in Nat
  BY <1>1
<1>3. /\ b \o e \in Seq(Characters) /\ Len(b \o e) = Len(b) + Len(e)
      /\ \A i \in 1 .. Len(b) + Len(e) : (b \o e)[i] = IF i <= Len(b) THEN b[i] ELSE e[i - Len(b)]
  BY <1>2, ConcatProperties, Zenon
<1>4. x = b \o e
  OBVIOUS
<1> HIDE DEF e
<1>5. /\ x \in Seq(Characters) /\ Len(x) = Len(b) + 1
      /\ \A i \in 1 .. Len(b) + 1 : x[i] = IF i <= Len(b) THEN b[i] ELSE e[i - Len(b)]
  BY <1>2, <1>3, <1>4
<1>6. \A i \in 1 .. Len(b) : x[i] = b[i]
  BY <1>2, <1>5
<1>7. x[Len(b) + 1] = e[1]
  <2>1. Len(b) + 1 \in 1 .. Len(b) + 1 /\ ~(Len(b) + 1 <= Len(b)) /\ (Len(b) + 1) - Len(b) = 1
    BY <1>2
  <2> QED BY <1>5, <2>1
<1> QED BY <1>2, <1>5, <1>6, <1>7

LEMMA BeforeFacts ==
    ASSUME NEW b \in Seq(Characters), NEW r \in Seq(Characters), NEW w, w = (b \o <<NL>>) \o r
    PROVE  Before(w, b, r)
<1> DEFINE x == b \o <<NL>>
<1>1. /\ x \in Seq(Characters) /\ Len(x) = Len(b) + 1
      /\ (\A i \in 1 .. Len(b) : x[i] = b[i]) /\ x[Len(b) + 1] = NL
  BY Ended
<1>2. w = x \o r
  OBVIOUS
<1> HIDE DEF x
<1>3. /\ x \o r \in Seq(Characters) /\ Len(x \o r) = Len(x) + Len(r)
      /\ \A i \in 1 .. Len(x) + Len(r) : (x \o r)[i] = IF i <= Len(x) THEN x[i] ELSE r[i - Len(x)]
  BY <1>1, ConcatProperties, Zenon
<1>4. Len(b) \in Nat /\ Len(r) \in Nat
  OBVIOUS
<1>5. /\ w \in Seq(Characters) /\ Len(w) = Len(b) + 1 + Len(r)
      /\ \A i \in 1 .. Len(b) + 1 + Len(r) : w[i] = IF i <= Len(b) + 1 THEN x[i] ELSE r[i - (Len(b) + 1)]
  BY <1>1, <1>2, <1>3
<1>6. \A i \in 1 .. Len(b) : w[i] = b[i]
  BY <1>1, <1>4, <1>5
<1>7. w[Len(b) + 1] = NL
  BY <1>1, <1>4, <1>5
<1>8. ASSUME NEW i \in 1 .. Len(r) PROVE w[Len(b) + 1 + i] = r[i]
  <2> DEFINE j == Len(b) + 1 + i
  <2>1. j \in 1 .. Len(b) + 1 + Len(r) /\ ~(j <= Len(b) + 1) /\ j - (Len(b) + 1) = i
    BY <1>4
  <2> HIDE DEF j
  <2>2. w[j] = r[i]
    BY <1>5, <2>1
  <2> QED BY <2>2 DEF j
<1> QED BY <1>5, <1>6, <1>7, <1>8 DEF Before

(* What fgets takes of a cut text that begins with a line *)
Cut(t, w, b, r, m) ==
    /\ b \in Seq(Characters) /\ NoEnd(b) /\ Len(b) + 1 <= LineMax /\ r \in Seq(Characters)
    /\ Before(w, b, r) /\ m \in Nat /\ m <= Len(w) /\ t = SubSeq(w, 1, m)
LineTaken(t, b, r, m) ==
    /\ ChunkLen(t) = Len(b) + 1 /\ SubSeq(t, 1, Len(b) + 1) = b \o <<NL>>
    /\ SubSeq(t, Len(b) + 2, Len(t)) = SubSeq(r, 1, m - (Len(b) + 1))
PartTaken(t, b, m) ==
    /\ ChunkLen(t) = m /\ SubSeq(t, 1, m) = SubSeq(b, 1, m)
    /\ SubSeq(t, m + 1, Len(t)) = <<>>

LEMMA TakesLine ==
    ASSUME NEW t, NEW w, NEW b, NEW r, NEW m, Cut(t, w, b, r, m), m >= Len(b) + 1
    PROVE  LineTaken(t, b, r, m)
<1> SUFFICES ASSUME b \in Seq(Characters), NoEnd(b), Len(b) + 1 <= LineMax, r \in Seq(Characters),
                    Before(w, b, r), m \in Nat, m <= Len(w), t = SubSeq(w, 1, m)
             PROVE  LineTaken(t, b, r, m)
  BY DEF Cut
<1> DEFINE c == Len(b) + 1
<1>1. Len(b) \in Nat /\ c \in Nat /\ c >= 1 /\ Len(r) \in Nat /\ LineMax \in Nat /\ c <= LineMax
  BY BoundsAssumption
<1>2. /\ w \in Seq(Characters) /\ Len(w) = c + Len(r) /\ (\A i \in 1 .. Len(b) : w[i] = b[i])
      /\ w[c] = NL /\ \A i \in 1 .. Len(r) : w[c + i] = r[i]
  BY DEF Before
<1>3. /\ t \in Seq(Characters) /\ Slice(t, w, 1, m) /\ Len(t) = m
      /\ \A i \in 1 .. m : t[i] = w[i]
  <2>0. 1 \in Nat /\ 1 >= 1 /\ m \in Int /\ m <= Len(w) /\ w \in Seq(Characters)
    BY <1>2
  <2>1. t \in Seq(Characters) /\ Slice(t, w, 1, m)
    BY <2>0, SliceIs
  <2> HIDE DEF c
  <2>2. \A i \in 1 .. m - 1 + 1 : t[i] = w[1 + i - 1]
    BY <2>1 DEF Slice
  <2>3. m >= 1 /\ m - 1 + 1 = m
    BY <1>1 DEF c
  <2>4. ASSUME NEW i \in 1 .. m PROVE t[i] = w[i]
    <3>1. t[i] = w[1 + i - 1] /\ 1 + i - 1 = i
      BY <2>2, <2>3
    <3> QED BY <3>1
  <2> QED BY <2>1, <2>3, <2>4 DEF Slice
<1> HIDE DEF c
<1>4. Len(b) = c - 1 /\ c <= m
  BY <1>1 DEF c
<1>5. t[c] = NL /\ \A i \in 1 .. Len(b) : t[i] # NL
  <2>1. \A i \in 1 .. Len(b) : i \in 1 .. m
    BY <1>1, <1>4
  <2>2. t[c] = w[c]
    BY <1>1, <1>3, <1>4
  <2> QED BY <1>2, <1>3, <2>1, <2>2 DEF NoEnd
<1> DEFINE T == {LineMax, Len(t)} \union Chars(t, {NL})
<1>6. Chars(t, {NL}) \in SUBSET Nat /\ \A i : i \in Chars(t, {NL}) <=> i \in 1 .. Len(t) /\ t[i] = NL
  BY <1>3 DEF Chars
<1>7. T \in SUBSET Nat /\ c \in T
  <2>1. Len(t) \in Nat /\ LineMax \in Nat
    BY <1>1, <1>3
  <2>2. c \in 1 .. Len(t)
    BY <1>1, <1>3, <1>4
  <2>3. c \in Chars(t, {NL})
    BY <1>5, <1>6, <2>2
  <2> QED BY <1>6, <2>1, <2>3
<1>8. \A i \in T : c <= i
  <2>1. c <= LineMax /\ c <= Len(t)
    BY <1>1, <1>3, <1>4
  <2>2. ASSUME NEW i \in Chars(t, {NL}) PROVE c <= i
    <3>1. i \in 1 .. Len(t) /\ t[i] = NL
      BY <1>6
    <3>2. ~(i \in 1 .. Len(b))
      BY <1>5, <3>1
    <3> QED BY <1>1, <1>4, <3>1, <3>2
  <2> QED BY <2>1, <2>2
<1>9. ChunkLen(t) = c
  <2>1. Min(T) = c
    <3> HIDE DEF T
    <3> QED BY <1>7, <1>8, MinIs
  <2> QED BY <2>1 DEF ChunkLen
<1>10. SubSeq(t, 1, c) = b \o <<NL>>
  <2> DEFINE x == SubSeq(t, 1, c)
             y == b \o <<NL>>
  <2>1. /\ y \in Seq(Characters) /\ Len(y) = Len(b) + 1
        /\ (\A i \in 1 .. Len(b) : y[i] = b[i]) /\ y[Len(b) + 1] = NL
    BY Ended
  <2>2. x \in Seq(Characters) /\ Slice(x, t, 1, c)
    <3>1. 1 \in Nat /\ 1 >= 1 /\ c \in Int /\ c <= Len(t) /\ t \in Seq(Characters)
      BY <1>1, <1>3, <1>4
    <3> QED BY <3>1, SliceIs
  <2> HIDE DEF x, y
  <2>3. Len(x) = c /\ \A i \in 1 .. c : x[i] = t[i]
    <3>1. c - 1 + 1 = c /\ \A i \in 1 .. c : 1 + i - 1 = i
      BY <1>1
    <3> QED BY <1>1, <2>2, <3>1 DEF Slice
  <2>4. Len(y) = c
    BY <1>1, <1>4, <2>1
  <2>5. ASSUME NEW i \in 1 .. c PROVE x[i] = y[i]
    <3>1. i \in 1 .. m /\ (i \in 1 .. Len(b) \/ i = c)
      BY <1>1, <1>4
    <3>2. x[i] = t[i] /\ t[i] = w[i]
      BY <1>3, <2>3, <3>1
    <3>3. Len(b) + 1 = c
      BY <1>1, <1>4
    <3> QED BY <1>2, <2>1, <3>1, <3>2, <3>3
  <2>6. x = y
    BY <2>1, <2>2, <2>3, <2>4, <2>5, SameSequence
  <2> QED BY <2>6 DEF x, y
<1>11. SubSeq(t, c + 1, Len(t)) = SubSeq(r, 1, m - c)
  <2> DEFINE x == SubSeq(t, c + 1, m)
             y == SubSeq(r, 1, m - c)
  <2>1. m - c \in Nat /\ m - c <= Len(r) /\ c + 1 \in Nat /\ c + 1 >= 1 /\ m \in Int /\ m <= Len(t)
        /\ m - c \in Int
    BY <1>1, <1>2, <1>3, <1>4
  <2>2. x \in Seq(Characters) /\ Slice(x, t, c + 1, m)
    BY <1>3, <2>1, SliceIs
  <2>3. y \in Seq(Characters) /\ Slice(y, r, 1, m - c)
    <3>1. 1 \in Nat /\ 1 >= 1
      OBVIOUS
    <3> QED BY <2>1, <3>1, SliceIs
  <2> HIDE DEF x, y
  <2>4. Len(x) = m - c /\ \A i \in 1 .. m - c : x[i] = t[c + i]
    <3>1. m - (c + 1) + 1 = m - c /\ \A i \in 1 .. m - c : (c + 1) + i - 1 = c + i
      BY <1>1
    <3>2. c + 1 <= m \/ m - c = 0
      BY <1>1, <1>4
    <3> QED BY <1>1, <2>1, <2>2, <3>1, <3>2 DEF Slice
  <2>5. Len(y) = m - c /\ \A i \in 1 .. m - c : y[i] = r[i]
    <3>1. (m - c) - 1 + 1 = m - c /\ \A i \in 1 .. m - c : 1 + i - 1 = i
      BY <1>1
    <3>2. 1 <= m - c \/ m - c = 0
      BY <2>1
    <3> QED BY <2>1, <2>3, <3>1, <3>2 DEF Slice
  <2>6. ASSUME NEW i \in 1 .. m - c PROVE x[i] = y[i]
    <3>1. c + i \in 1 .. m /\ i \in 1 .. Len(r)
      BY <1>1, <2>1
    <3>2. t[c + i] = w[c + i] /\ w[c + i] = r[i]
      BY <1>2, <1>3, <3>1
    <3> QED BY <2>4, <2>5, <3>2
  <2>7. x = y
    BY <2>2, <2>3, <2>4, <2>5, <2>6, SameSequence
  <2> QED BY <1>3, <2>7 DEF x, y
<1>12. Len(b) + 2 = c + 1
  BY <1>1, <1>4
<1> QED BY <1>9, <1>10, <1>11, <1>12 DEF c, LineTaken

(* and of one that ends within the line *)
LEMMA TakesPart ==
    ASSUME NEW t, NEW w, NEW b, NEW r, NEW m, Cut(t, w, b, r, m), 1 <= m, m <= Len(b)
    PROVE  PartTaken(t, b, m)
<1> SUFFICES ASSUME b \in Seq(Characters), NoEnd(b), Len(b) + 1 <= LineMax, r \in Seq(Characters),
                    Before(w, b, r), m \in Nat, m <= Len(w), t = SubSeq(w, 1, m)
             PROVE  PartTaken(t, b, m)
  BY DEF Cut
<1>1. Len(b) \in Nat /\ Len(r) \in Nat /\ LineMax \in Nat /\ m <= LineMax
  BY BoundsAssumption
<1>2. w \in Seq(Characters) /\ Len(w) = Len(b) + 1 + Len(r) /\ \A i \in 1 .. Len(b) : w[i] = b[i]
  BY DEF Before
<1>3. /\ t \in Seq(Characters) /\ Len(t) = m
      /\ \A i \in 1 .. m : t[i] = w[i]
  <2>1. m <= Len(w)
    BY <1>1, <1>2
  <2>2. t \in Seq(Characters) /\ Slice(t, w, 1, m)
    BY <1>2, <2>1, SliceIs
  <2>3. m - 1 + 1 = m /\ \A i \in 1 .. m : 1 + i - 1 = i
    OBVIOUS
  <2> QED BY <2>2, <2>3 DEF Slice
<1>4. \A i \in 1 .. m : t[i] = b[i] /\ t[i] # NL
  <2>1. \A i \in 1 .. m : i \in 1 .. Len(b)
    BY <1>1
  <2> QED BY <1>2, <1>3, <2>1 DEF NoEnd
<1> DEFINE T == {LineMax, Len(t)} \union Chars(t, {NL})
<1>5. Chars(t, {NL}) = {}
  BY <1>3, <1>4 DEF Chars
<1>6. T = {LineMax, m}
  BY <1>3, <1>5
<1>7. Min(T) = m
  <2>0. LineMax \in Nat /\ m \in Nat /\ m <= LineMax /\ m <= m
    BY <1>1
  <2>1. T \in SUBSET Nat /\ m \in T /\ \A i \in T : m <= i
    <3> HIDE DEF T
    <3> QED BY <1>6, <2>0
  <2> HIDE DEF T
  <2> QED BY <2>1, MinIs
<1>8. ChunkLen(t) = m
  BY <1>7 DEF ChunkLen
<1>9. SubSeq(t, 1, m) = t
  BY <1>3
<1>10. t = SubSeq(b, 1, m)
  <2> DEFINE y == SubSeq(b, 1, m)
  <2>1. y \in Seq(Characters) /\ Slice(y, b, 1, m)
    BY SliceIs
  <2> HIDE DEF y
  <2>2. m - 1 + 1 = m /\ \A i \in 1 .. m : 1 + i - 1 = i
    OBVIOUS
  <2>3. Len(y) = m /\ \A i \in 1 .. m : y[i] = b[i]
    BY <2>1, <2>2 DEF Slice
  <2>4. /\ t \in Seq(Characters) /\ y \in Seq(Characters) /\ Len(t) = Len(y)
        /\ \A i \in 1 .. Len(t) : t[i] = y[i]
    BY <1>3, <1>4, <2>1, <2>3
  <2>5. t = y
    BY <2>4, SameSequence
  <2> QED BY <2>5 DEF y
<1>11. SubSeq(t, m + 1, Len(t)) = <<>>
  <2>1. m + 1 \in Nat /\ m + 1 >= 1 /\ Len(t) \in Int /\ Len(t) <= Len(t) /\ ~(m + 1 <= Len(t))
    BY <1>3
  <2>2. SubSeq(t, m + 1, Len(t)) \in Seq(Characters) /\ Len(SubSeq(t, m + 1, Len(t))) = 0
    BY <1>3, <2>1, SliceFacts
  <2> QED BY <2>2, EmptySeq
<1> QED BY <1>8, <1>9, <1>10, <1>11 DEF PartTaken

-----------------------------------------------------------------------------
(* What is read of an entry *)

(* What Trim keeps *)
Kept(s) == {i \in 1 .. Len(s) : s[i] \notin Blanks}

LEMMA TrimIs ==
    ASSUME NEW s \in Seq(Characters)
    PROVE  /\ Trim(s) = IF Kept(s) = {} THEN <<>> ELSE SubSeq(s, Min(Kept(s)), Max(Kept(s)))
           /\ Kept(s) \in SUBSET Nat
           /\ Kept(s) # {} => /\ Min(Kept(s)) \in Kept(s) /\ Max(Kept(s)) \in Kept(s)
                              /\ \A i \in Kept(s) : Min(Kept(s)) <= i /\ i <= Max(Kept(s))
<1>1. DOMAIN s = 1 .. Len(s) /\ Len(s) \in Nat
  OBVIOUS
<1>2. DOMAIN s \ Chars(s, Blanks) = Kept(s)
  BY <1>1 DEF Chars, Kept
<1>3. Kept(s) \in SUBSET Nat /\ Len(s) + 1 \in Nat /\ \A i \in Kept(s) : i < Len(s) + 1
  BY <1>1 DEF Kept
<1>4. Trim(s) = IF Kept(s) = {} THEN <<>> ELSE SubSeq(s, Min(Kept(s)), Max(Kept(s)))
  BY <1>2 DEF Trim
<1>5. ASSUME Kept(s) # {}
      PROVE  /\ Min(Kept(s)) \in Kept(s) /\ Max(Kept(s)) \in Kept(s)
             /\ \A i \in Kept(s) : Min(Kept(s)) <= i /\ i <= Max(Kept(s))
  <2> DEFINE K == Kept(s)
             n == Len(s) + 1
  <2>1. K \in SUBSET Nat /\ K # {} /\ n \in Nat /\ \A i \in K : i < n
    BY <1>3, <1>5
  <2> HIDE DEF K, n
  <2>2. Min(K) \in K /\ \A i \in K : Min(K) <= i
    BY <2>1, MinFacts
  <2>3. Max(K) \in K /\ \A i \in K : i <= Max(K)
    BY <2>1, MaxFacts
  <2> QED BY <2>2, <2>3 DEF K
<1> QED BY <1>3, <1>4, <1>5

(* A text without blanks at its ends is left alone. *)
LEMMA TrimSelf ==
    ASSUME NEW s \in Seq(Characters), s # <<>>, s[1] \notin Blanks, s[Len(s)] \notin Blanks
    PROVE  Trim(s) = s
<1>1. Len(s) \in Nat /\ Len(s) >= 1
  OBVIOUS
<1>2. /\ 1 \in Kept(s) /\ Len(s) \in Kept(s) /\ Kept(s) \in SUBSET Nat
      /\ \A i \in Kept(s) : 1 <= i /\ i <= Len(s)
  BY <1>1 DEF Kept
<1>3. Min(Kept(s)) = 1 /\ Max(Kept(s)) = Len(s)
  BY <1>2, MinIs, MaxIs
<1>4. Trim(s) = SubSeq(s, 1, Len(s))
  BY <1>2, <1>3, TrimIs
<1>5. SubSeq(s, 1, Len(s)) = s
  OBVIOUS
<1> QED BY <1>4, <1>5

(* The end of the line is a blank. *)
LEMMA TrimEnd ==
    ASSUME NEW b \in Seq(Characters)
    PROVE  Trim(b \o <<NL>>) = Trim(b)
<1> DEFINE x == b \o <<NL>>
<1>1. /\ x \in Seq(Characters) /\ Len(x) = Len(b) + 1
      /\ (\A i \in 1 .. Len(b) : x[i] = b[i]) /\ x[Len(b) + 1] = NL
  BY Ended
<1> HIDE DEF x
<1>2. Len(b) \in Nat /\ NL \in Blanks
  BY DEF Blanks
<1>3. Kept(x) = Kept(b)
  <2>1. \A i \in 1 .. Len(b) + 1 : i \in 1 .. Len(b) \/ i = Len(b) + 1
    BY <1>2
  <2>2. \A i \in 1 .. Len(b) : i \in 1 .. Len(b) + 1
    BY <1>2
  <2> QED BY <1>1, <1>2, <2>1, <2>2 DEF Kept
<1>4. CASE Kept(b) = {}
  BY <1>1, <1>3, <1>4, TrimIs DEF x
<1>5. CASE Kept(b) # {}
  <2> DEFINE lo == Min(Kept(b))
             hi == Max(Kept(b))
  <2>1. Trim(x) = SubSeq(x, lo, hi) /\ Trim(b) = SubSeq(b, lo, hi)
    BY <1>1, <1>3, <1>5, TrimIs
  <2>2. lo \in 1 .. Len(b) /\ hi \in 1 .. Len(b)
    BY <1>5, TrimIs DEF Kept
  <2> HIDE DEF lo, hi
  <2>3. lo \in Nat /\ lo >= 1 /\ hi \in Int /\ hi <= Len(b) /\ hi <= Len(x)
    BY <1>1, <1>2, <2>2
  <2> DEFINE p == SubSeq(x, lo, hi)
             q == SubSeq(b, lo, hi)
  <2>4. p \in Seq(Characters) /\ Slice(p, x, lo, hi)
    BY <1>1, <2>3, SliceIs
  <2>5. q \in Seq(Characters) /\ Slice(q, b, lo, hi)
    BY <2>3, SliceIs
  <2> HIDE DEF p, q
  <2>6. Len(p) = Len(q)
    BY <2>4, <2>5 DEF Slice
  <2>7. ASSUME NEW i \in 1 .. Len(p) PROVE p[i] = q[i]
    <3>1. i \in 1 .. hi - lo + 1
      BY <2>3, <2>4 DEF Slice
    <3>2. lo + i - 1 \in 1 .. Len(b)
      BY <1>2, <2>3, <3>1
    <3>3. p[i] = x[lo + i - 1] /\ q[i] = b[lo + i - 1]
      BY <2>4, <2>5, <3>1 DEF Slice
    <3> QED BY <1>1, <3>2, <3>3
  <2>8. p = q
    BY <2>4, <2>5, <2>6, <2>7, SameSequence
  <2> QED BY <2>1, <2>8 DEF p, q, x
<1> QED BY <1>4, <1>5

(* A key cannot be taken for anything else. *)
IsName(c) == c \in Characters /\ c \notin {"[", "#", ";", "=", NL, " "}

LEMMA OneName ==
    ASSUME NEW c, IsName(c)
    PROVE  Trim(<<c>>) = <<c>>
<1> DEFINE s == <<c>>
<1>1. s \in Seq(Characters) /\ s # <<>> /\ Len(s) = 1 /\ s[1] = c
  <2>1. c \in Characters
    BY DEF IsName
  <2>2. s \in Seq(Characters)
    BY <2>1, Texts, Zenon
  <2> QED BY <2>2
<1>2. c \notin Blanks
  BY DEF IsName, Blanks
<1> HIDE DEF s
<1>3. Trim(s) = s
  BY <1>1, <1>2, TrimSelf
<1> QED BY <1>3 DEF s

(* What is read of a key, an equals sign and anything *)
Reads(l, c) ==
    /\ l \in Seq(Characters) /\ ~Ignored(l) /\ ~IsSection(l)
    /\ Equals(l) # {} /\ Min(Equals(l)) = 2 /\ Key(l) = <<c>>

LEMMA FrontReads ==
    ASSUME NEW l \in Seq(Characters), NEW c, IsName(c), Len(l) >= 2, l[1] = c, l[2] = "="
    PROVE  Reads(l, c)
<1>1. Len(l) \in Nat /\ l # <<>> /\ DOMAIN l = 1 .. Len(l) /\ 1 \in 1 .. Len(l) /\ 2 \in 1 .. Len(l)
  OBVIOUS
<1>2. First(l) = c
  BY <1>1 DEF First
<1>3. ~Ignored(l) /\ ~IsSection(l)
  BY <1>2 DEF Ignored, IsSection, IsName
<1>4. Equals(l) \in SUBSET Nat /\ 2 \in Equals(l) /\ \A i \in Equals(l) : i \in 1 .. Len(l) /\ l[i] = "="
  BY <1>1 DEF Equals, Chars
<1>5. \A i \in Equals(l) : 2 <= i
  <2>1. c # "="
    BY DEF IsName
  <2>2. \A i \in Equals(l) : i # 1
    BY <1>4, <2>1
  <2> QED BY <1>1, <1>4, <2>2
<1>6. Min(Equals(l)) = 2
  BY <1>4, <1>5, MinIs
<1>7. SubSeq(l, 1, 1) = <<c>>
  <2> DEFINE x == SubSeq(l, 1, 1)
             y == <<c>>
  <2>1. x \in Seq(Characters) /\ Slice(x, l, 1, 1)
    <3>1. 1 \in Nat /\ 1 >= 1 /\ 1 \in Int /\ 1 <= Len(l)
      BY <1>1
    <3> QED BY <3>1, SliceIs
  <2>2. y \in Seq(Characters) /\ Len(y) = 1 /\ y[1] = c
    <3>1. c \in Characters
      BY DEF IsName
    <3> QED BY <3>1
  <2> HIDE DEF x, y
  <2>3. Len(x) = 1 /\ x[1] = c
    BY <2>1 DEF Slice
  <2>4. x = y
    BY <2>1, <2>2, <2>3, SameSequence
  <2> QED BY <2>4 DEF x, y
<1>8. Key(l) = <<c>>
  <2>1. Min(Equals(l)) - 1 = 1
    BY <1>6
  <2>2. Key(l) = Trim(<<c>>)
    BY <1>7, <2>1 DEF Key
  <2> QED BY <2>2, OneName
<1> QED BY <1>3, <1>4, <1>6, <1>8 DEF Reads

LEMMA EntryReads ==
    ASSUME NEW b \in Seq(Characters), NEW c, IsName(c), Len(b) >= 2, b[1] = c, b[2] = "="
    PROVE  Reads(Trim(b), c)
<1>1. Len(b) \in Nat /\ 1 \in 1 .. Len(b) /\ 2 \in 1 .. Len(b)
  OBVIOUS
<1>2. c \notin Blanks /\ "=" \notin Blanks
  BY DEF IsName, Blanks, NL
<1>3. 1 \in Kept(b) /\ 2 \in Kept(b) /\ \A i \in Kept(b) : i \in 1 .. Len(b)
  BY <1>1, <1>2 DEF Kept
<1> DEFINE hi == Max(Kept(b))
<1>4. hi \in 1 .. Len(b) /\ 2 <= hi
  BY <1>3, TrimIs
<1>5. Min(Kept(b)) = 1
  <2>1. Kept(b) \in SUBSET Nat /\ \A i \in Kept(b) : 1 <= i
    BY <1>1, <1>3
  <2> QED BY <1>3, <2>1, MinIs
<1>6. Trim(b) = SubSeq(b, 1, hi)
  BY <1>3, <1>5, TrimIs
<1> HIDE DEF hi
<1> DEFINE l == SubSeq(b, 1, hi)
<1>7. l \in Seq(Characters) /\ Slice(l, b, 1, hi)
  <2>1. 1 \in Nat /\ 1 >= 1 /\ hi \in Int /\ hi <= Len(b)
    BY <1>1, <1>4
  <2> QED BY <2>1, SliceIs
<1> HIDE DEF l
<1>8. Len(l) >= 2 /\ l[1] = b[1] /\ l[2] = b[2]
  <2>1. hi - 1 + 1 = hi /\ 1 \in 1 .. hi /\ 2 \in 1 .. hi /\ 1 <= hi /\ 1 + 1 - 1 = 1 /\ 1 + 2 - 1 = 2
    BY <1>1, <1>4
  <2>2. Len(l) = hi /\ l[1] = b[1 + 1 - 1] /\ l[2] = b[1 + 2 - 1]
    BY <1>7, <2>1 DEF Slice
  <2> QED BY <1>1, <1>4, <2>1, <2>2
<1>9. Reads(l, c)
  BY <1>7, <1>8, FrontReads
<1> QED BY <1>6, <1>9 DEF l

-----------------------------------------------------------------------------
(* What is read of each line *)

(* A line that begins with a bracket *)
LEMMA HeadReads ==
    ASSUME NEW p \in Seq(Characters), Len(p) >= 1, p[1] = "["
    PROVE  IsSection(Trim(p)) /\ ~Ignored(Trim(p))
<1>1. Len(p) \in Nat /\ 1 \in 1 .. Len(p)
  OBVIOUS
<1>2. 1 \in Kept(p) /\ \A i \in Kept(p) : i \in 1 .. Len(p)
  BY <1>1 DEF Kept, Blanks, NL
<1> DEFINE hi == Max(Kept(p))
<1>3. hi \in 1 .. Len(p)
  BY <1>2, TrimIs
<1>4. Min(Kept(p)) = 1
  <2>1. Kept(p) \in SUBSET Nat /\ \A i \in Kept(p) : 1 <= i
    BY <1>1, <1>2
  <2> QED BY <1>2, <2>1, MinIs
<1>5. Trim(p) = SubSeq(p, 1, hi)
  BY <1>2, <1>4, TrimIs
<1> HIDE DEF hi
<1> DEFINE l == SubSeq(p, 1, hi)
<1>6. l \in Seq(Characters) /\ Slice(l, p, 1, hi)
  <2>1. 1 \in Nat /\ 1 >= 1 /\ hi \in Int /\ hi <= Len(p)
    BY <1>1, <1>3
  <2> QED BY <2>1, SliceIs
<1> HIDE DEF l
<1>7. Len(l) = hi /\ l[1] = p[1]
  <2>1. hi - 1 + 1 = hi /\ 1 \in 1 .. hi /\ 1 <= hi /\ 1 + 1 - 1 = 1
    BY <1>1, <1>3
  <2>2. Len(l) = hi /\ l[1] = p[1 + 1 - 1]
    BY <1>6, <2>1 DEF Slice
  <2> QED BY <2>1, <2>2
<1>8. l # <<>>
  BY <1>3, <1>6, <1>7
<1>9. First(l) = "["
  BY <1>7, <1>8 DEF First
<1>10. IsSection(l) /\ ~Ignored(l)
  BY <1>9 DEF IsSection, Ignored, NL
<1> QED BY <1>5, <1>10 DEF l

LEMMA HeadNames ==
    ASSUME NEW c, IsName(c), c # "]", NEW l, l = <<"[", c, "]">>
    PROVE  Trim(l) = l /\ SectionName(l) = <<c>>
<1>1. "[" \in Characters /\ "]" \in Characters /\ c \in Characters
  BY LiteralsAreCharacters DEF Literals, IsName
<1>2. l \in Seq(Characters)
  BY <1>1, Texts, Zenon
<1>3. Len(l) = 3 /\ l[1] = "[" /\ l[2] = c /\ l[3] = "]" /\ l # <<>> /\ DOMAIN l = 1 .. 3
  OBVIOUS
<1>4. Trim(l) = l
  <2>1. "[" \notin Blanks /\ "]" \notin Blanks
    BY DEF Blanks, NL
  <2>2. l[1] \notin Blanks /\ l[Len(l)] \notin Blanks
    BY <1>3, <2>1
  <2>3. l # <<>>
    BY <1>3
  <2> QED BY <1>2, <2>2, <2>3, TrimSelf
<1>5. Chars(l, {"]"}) = {3}
  <2>1. \A i \in 1 .. 3 : i = 1 \/ i = 2 \/ i = 3
    OBVIOUS
  <2>2. "[" # "]"
    OBVIOUS
  <2> QED BY <1>3, <2>1, <2>2 DEF Chars
<1>6. Min({3}) = 3
  <2>1. {3} \in SUBSET Nat /\ 3 \in {3} /\ \A i \in {3} : 3 <= i
    OBVIOUS
  <2> QED BY <2>1, MinIs
<1>7. SubSeq(l, 2, 2) = <<c>>
  <2> DEFINE x == SubSeq(l, 2, 2)
             y == <<c>>
  <2>1. x \in Seq(Characters) /\ Slice(x, l, 2, 2)
    <3>1. 2 \in Nat /\ 2 >= 1 /\ 2 \in Int /\ 2 <= Len(l)
      BY <1>3
    <3> QED BY <1>2, <3>1, SliceIs
  <2>2. y \in Seq(Characters) /\ Len(y) = 1 /\ y[1] = c
    BY <1>1
  <2> HIDE DEF x, y
  <2>3. Len(x) = 1 /\ x[1] = c
    <3>1. 2 - 2 + 1 = 1 /\ 1 \in 1 .. 1 /\ 2 + 1 - 1 = 2
      OBVIOUS
    <3> QED BY <1>3, <2>1, <3>1 DEF Slice
  <2>4. x = y
    BY <2>1, <2>2, <2>3, SameSequence
  <2> QED BY <2>4 DEF x, y
<1>8. SectionName(l) = Trim(SubSeq(l, 2, 2))
  <2>1. 3 - 1 = 2
    OBVIOUS
  <2> QED BY <1>5, <1>6, <2>1 DEF SectionName
<1>9. SectionName(l) = <<c>>
  BY <1>7, <1>8, OneName
<1> QED BY <1>4, <1>9

LEMMA NamesAreNames == \A k \in EntryAt : IsName(Name(k))
<1> SUFFICES ASSUME NEW k \in EntryAt PROVE IsName(Name(k))
  OBVIOUS
<1>1. k \in 1 .. 11
  BY DEF EntryAt
<1>2. Name(k) \in Characters
  BY <1>1, NameType
<1>3. \/ Name(k) = "server_addr" \/ Name(k) = "username" \/ Name(k) = "password"
      \/ Name(k) = "network_id" \/ Name(k) = "tap_name" \/ Name(k) = "mtu"
      \/ Name(k) = "level" \/ Name(k) = "file"
  BY DEF Name
<1>4. Name(k) \notin {"[", "#", ";", "=", NL, " "}
  BY <1>3 DEF NL
<1> QED BY <1>2, <1>4 DEF IsName

LEMMA HeadsAreNames == IsName("client") /\ IsName("log") /\ "client" # "]" /\ "log" # "]"
<1>1. "client" \in Characters /\ "log" \in Characters
  BY LiteralsAreCharacters DEF Literals
<1> QED BY <1>1 DEF IsName, NL

(* The section at a line, and the keys that are read above it *)
Sec(k)   == IF k = 1 THEN <<>> ELSE IF k <= 9 THEN <<"client">> ELSE <<"log">>
KeyOf(k) == <<Sec(k), <<Name(k)>>>>
Keys(k)  == {KeyOf(j) : j \in {i \in EntryAt : i < k}}
Got(k)   == Value(Trim(Body(k)))

LEMMA NamesDiffer ==
    \A j, k \in EntryAt : KeyOf(j) = KeyOf(k) => j = k
<1> SUFFICES ASSUME NEW j \in EntryAt, NEW k \in EntryAt, KeyOf(j) = KeyOf(k) PROVE j = k
  OBVIOUS
<1>1. \A a, b, c, d : <<a, b>> = <<c, d>> => b = d
  OBVIOUS
<1>2. \A a, b : <<a>> = <<b>> => a = b
  OBVIOUS
<1>3. <<Name(j)>> = <<Name(k)>>
  BY <1>1 DEF KeyOf
<1>4. Name(j) = Name(k)
  BY <1>2, <1>3
<1>5. /\ Name(2) = "server_addr" /\ Name(3) = "username" /\ Name(4) = "password"
      /\ Name(5) = "network_id" /\ Name(6) = "tap_name" /\ Name(7) = "mtu"
      /\ Name(10) = "level" /\ Name(11) = "file"
  BY DEF Name
<1>6. \A i \in EntryAt : i = 2 \/ i = 3 \/ i = 4 \/ i = 5 \/ i = 6 \/ i = 7 \/ i = 10 \/ i = 11
  BY DEF EntryAt
<1> QED BY <1>4, <1>5, <1>6

LEMMA EightLines == IsFiniteSet(EntryAt) /\ Cardinality(EntryAt) = 8
<1>1. IsFiniteSet({}) /\ Cardinality({}) = 0
  BY FS_EmptySet
<1>2. IsFiniteSet({2}) /\ Cardinality({2}) = 1
  BY FS_Singleton
<1>3. IsFiniteSet({2, 3}) /\ Cardinality({2, 3}) = 2
  <2>1. {2, 3} = {2} \cup {3} /\ 3 \notin {2}
    OBVIOUS
  <2> QED BY <1>2, <2>1, FS_AddElement
<1>4. IsFiniteSet({2, 3, 4}) /\ Cardinality({2, 3, 4}) = 3
  <2>1. {2, 3, 4} = {2, 3} \cup {4} /\ 4 \notin {2, 3}
    OBVIOUS
  <2> QED BY <1>3, <2>1, FS_AddElement
<1>5. IsFiniteSet({2, 3, 4, 5}) /\ Cardinality({2, 3, 4, 5}) = 4
  <2>1. {2, 3, 4, 5} = {2, 3, 4} \cup {5} /\ 5 \notin {2, 3, 4}
    OBVIOUS
  <2> QED BY <1>4, <2>1, FS_AddElement
<1>6. IsFiniteSet({2, 3, 4, 5, 6}) /\ Cardinality({2, 3, 4, 5, 6}) = 5
  <2>1. {2, 3, 4, 5, 6} = {2, 3, 4, 5} \cup {6} /\ 6 \notin {2, 3, 4, 5}
    OBVIOUS
  <2> QED BY <1>5, <2>1, FS_AddElement
<1>7. IsFiniteSet({2, 3, 4, 5, 6, 7}) /\ Cardinality({2, 3, 4, 5, 6, 7}) = 6
  <2>1. {2, 3, 4, 5, 6, 7} = {2, 3, 4, 5, 6} \cup {7} /\ 7 \notin {2, 3, 4, 5, 6}
    OBVIOUS
  <2> QED BY <1>6, <2>1, FS_AddElement
<1>8. IsFiniteSet({2, 3, 4, 5, 6, 7, 10}) /\ Cardinality({2, 3, 4, 5, 6, 7, 10}) = 7
  <2>1. {2, 3, 4, 5, 6, 7, 10} = {2, 3, 4, 5, 6, 7} \cup {10} /\ 10 \notin {2, 3, 4, 5, 6, 7}
    OBVIOUS
  <2> QED BY <1>7, <2>1, FS_AddElement
<1>9. IsFiniteSet({2, 3, 4, 5, 6, 7, 10, 11}) /\ Cardinality({2, 3, 4, 5, 6, 7, 10, 11}) = 8
  <2>1. /\ {2, 3, 4, 5, 6, 7, 10, 11} = {2, 3, 4, 5, 6, 7, 10} \cup {11}
        /\ 11 \notin {2, 3, 4, 5, 6, 7, 10}
    OBVIOUS
  <2> QED BY <1>8, <2>1, FS_AddElement
<1> QED BY <1>9 DEF EntryAt

LEMMA EightKeys ==
    /\ \A k : IsFiniteSet(Keys(k)) /\ Keys(k) \subseteq Keys(12)
    /\ Cardinality(Keys(12)) = 8
<1>1. Keys(12) = {KeyOf(j) : j \in EntryAt}
  <2>1. \A j \in EntryAt : j < 12
    BY DEF EntryAt
  <2> QED BY <2>1 DEF Keys
<1>2. \A k : Keys(k) \subseteq Keys(12)
  BY <1>1 DEF Keys
<1> DEFINE f == [j \in EntryAt |-> KeyOf(j)]
<1>3. f \in Bijection(EntryAt, Keys(12))
  <2>1. f \in [EntryAt -> Keys(12)]
    BY <1>1
  <2>2. \A j, k \in EntryAt : f[j] = f[k] => j = k
    BY NamesDiffer
  <2>3. \A x \in Keys(12) : \E j \in EntryAt : f[j] = x
    BY <1>1
  <2> HIDE DEF f
  <2> QED BY <2>1, <2>2, <2>3 DEF Bijection, Injection, Surjection, IsInjective
<1> HIDE DEF f
<1>4. IsFiniteSet(Keys(12)) /\ Cardinality(Keys(12)) = 8
  <2>1. ExistsBijection(EntryAt, Keys(12))
    BY <1>3 DEF ExistsBijection
  <2> QED BY <2>1, EightLines, FS_Bijection
<1>5. \A k : IsFiniteSet(Keys(k))
  BY <1>2, <1>4, FS_Subset
<1> QED BY <1>2, <1>4, <1>5

(* What a line adds *)
LEMMA KeysGrow ==
    ASSUME NEW k \in 1 .. 11
    PROVE  /\ k \notin EntryAt => Keys(k + 1) = Keys(k)
           /\ k \in EntryAt => /\ Keys(k + 1) = Keys(k) \cup {KeyOf(k)}
                               /\ KeyOf(k) \notin Keys(k)
                               /\ Sec(k + 1) = Sec(k) /\ Sec(k) # <<>>
<1>1. \A i \in EntryAt : i \in Nat /\ (i < k + 1 <=> i < k \/ i = k)
  BY DEF EntryAt
<1>2. k \notin EntryAt => Keys(k + 1) = Keys(k)
  BY <1>1 DEF Keys
<1>3. ASSUME k \in EntryAt
      PROVE  /\ Keys(k + 1) = Keys(k) \cup {KeyOf(k)}
             /\ KeyOf(k) \notin Keys(k)
             /\ Sec(k + 1) = Sec(k) /\ Sec(k) # <<>>
  <2>1. Keys(k + 1) = Keys(k) \cup {KeyOf(k)}
    BY <1>1, <1>3 DEF Keys
  <2>2. KeyOf(k) \notin Keys(k)
    BY <1>1, <1>3, NamesDiffer DEF Keys
  <2>3. Sec(k + 1) = Sec(k)
    BY <1>3 DEF EntryAt, Sec
  <2>4. Sec(k) = <<"client">> \/ Sec(k) = <<"log">>
    BY <1>3 DEF EntryAt, Sec
  <2>5. Sec(k) # <<>>
    BY <2>4
  <2> QED BY <2>1, <2>2, <2>3, <2>5
<1> QED BY <1>2, <1>3

(* What the loader makes of each line *)
LEMMA LineReads ==
    ASSUME Typed, WindowFits, NEW k \in 1 .. 11, NEW l, l = Trim(Body(k))
    PROVE  /\ k \in EntryAt => Reads(l, Name(k))
           /\ k \in {1, 9} => IsSection(l) /\ ~Ignored(l) /\ SectionName(l) = Sec(k + 1) /\ Sec(k + 1) # <<>>
           /\ k = 8 => Ignored(l) /\ ~IsSection(l)
<1>1. ASSUME k \in EntryAt PROVE Reads(l, Name(k))
  <2> DEFINE b == Body(k)
             v == ValueAt(k)
  <2>1. b \in Seq(Characters) /\ b = <<Name(k), "=">> \o v
    BY <1>1, BodyFacts
  <2>2. v \in Seq(Characters)
    BY <1>1, ValueFacts
  <2>3. Name(k) \in Characters /\ "=" \in Characters
    BY NameType, LiteralsAreCharacters DEF Literals
  <2>4. l = Trim(b)
    OBVIOUS
  <2> HIDE DEF b, v
  <2>5. Len(b) = Len(v) + 2 /\ b[1] = Name(k) /\ b[2] = "="
    BY <2>1, <2>2, <2>3, PairFront
  <2>6. Len(b) >= 2
    <3>1. Len(v) \in Nat
      BY <2>2
    <3> QED BY <2>5, <3>1
  <2>7. Reads(Trim(b), Name(k))
    BY <1>1, <2>1, <2>5, <2>6, NamesAreNames, EntryReads
  <2> QED BY <2>4, <2>7
<1>2. ASSUME k \in {1, 9}
      PROVE  IsSection(l) /\ ~Ignored(l) /\ SectionName(l) = Sec(k + 1) /\ Sec(k + 1) # <<>>
  <2>1. PICK c : IsName(c) /\ c # "]" /\ Body(k) = <<"[", c, "]">> /\ Sec(k + 1) = <<c>>
    <3>1. CASE k = 1
      BY <3>1, HeadsAreNames DEF Body, Sec
    <3>2. CASE k = 9
      BY <3>2, HeadsAreNames DEF Body, Sec
    <3> QED BY <1>2, <3>1, <3>2
  <2> DEFINE b == <<"[", c, "]">>
  <2>2. Trim(b) = b /\ SectionName(b) = <<c>>
    BY <2>1, HeadNames
  <2>3. b \in Seq(Characters)
    BY <2>1, BodyFacts
  <2>4. Len(b) >= 1 /\ b[1] = "["
    OBVIOUS
  <2> HIDE DEF b
  <2>5. IsSection(Trim(b)) /\ ~Ignored(Trim(b))
    BY <2>3, <2>4, HeadReads
  <2>6. l = b
    BY <2>1, <2>2 DEF b
  <2>7. <<c>> # <<>>
    OBVIOUS
  <2> QED BY <2>1, <2>2, <2>5, <2>6, <2>7
<1>3. ASSUME k = 8 PROVE Ignored(l) /\ ~IsSection(l)
  <2>1. Body(k) = <<>>
    BY <1>3 DEF Body
  <2>2. <<>> \in Seq(Characters) /\ Kept(<<>>) = {}
    BY DEF Kept
  <2>3. l = <<>>
    BY <2>1, <2>2, TrimIs
  <2> QED BY <2>3 DEF First, Ignored, IsSection, NL
<1> QED BY <1>1, <1>2, <1>3

(* Trimming and cutting a comment off make no text longer. *)
LEMMA TrimShorter ==
    ASSUME NEW s \in Seq(Characters)
    PROVE  Len(Trim(s)) <= Len(s) /\ Len(Trim(s)) \in Nat
<1>1. Len(s) \in Nat
  OBVIOUS
<1>2. CASE Kept(s) = {}
  <2>1. Trim(s) = <<>>
    BY <1>2, TrimIs
  <2>2. Len(<<>>) = 0
    OBVIOUS
  <2> QED BY <1>1, <2>1, <2>2
<1>3. CASE Kept(s) # {}
  <2> DEFINE lo == Min(Kept(s))
             hi == Max(Kept(s))
  <2>1. Trim(s) = SubSeq(s, lo, hi) /\ lo \in Kept(s) /\ hi \in Kept(s)
    BY <1>3, TrimIs
  <2>2. lo \in 1 .. Len(s) /\ hi \in 1 .. Len(s)
    BY <2>1 DEF Kept
  <2> HIDE DEF lo, hi
  <2>3. lo \in Nat /\ lo >= 1 /\ hi \in Int /\ hi >= 1 /\ hi <= Len(s)
    BY <1>1, <2>2
  <2>4. Len(SubSeq(s, lo, hi)) = IF lo <= hi THEN hi - lo + 1 ELSE 0
    BY <2>3, SliceFacts
  <2>5. Len(SubSeq(s, lo, hi)) <= Len(s) /\ Len(SubSeq(s, lo, hi)) \in Nat
    BY <1>1, <2>3, <2>4
  <2> QED BY <2>1, <2>5
<1> QED BY <1>2, <1>3

LEMMA StripShorter ==
    ASSUME NEW s \in Seq(Characters)
    PROVE  StripComment(s) \in Seq(Characters) /\ Len(StripComment(s)) <= Len(s)
<1>10. DOMAIN s = 1 .. Len(s) /\ Len(s) \in Nat
  OBVIOUS
<1>11. \A set : Chars(s, set) \subseteq DOMAIN s
  BY DEF Chars
<1> DEFINE quoted(i) == Cardinality(Chars(SubSeq(s, 1, i), {"\""})) % 2 = 1
           signs     == Chars(s, {"#", ";"})
           starts    == {i \in signs : ~quoted(i)}
<1>1. StripComment(s) = IF starts = {} THEN s ELSE SubSeq(s, 1, Min(starts) - 1)
  BY DEF StripComment
<1>12. signs \subseteq DOMAIN s
  BY <1>11
<1> HIDE DEF quoted, signs
<1>13. starts \subseteq signs
  OBVIOUS
<1> HIDE DEF starts
<1>2. starts \subseteq 1 .. Len(s) /\ Len(s) \in Nat
  BY <1>10, <1>12, <1>13
<1>3. CASE starts = {}
  BY <1>1, <1>2, <1>3
<1>4. CASE starts # {}
  <2>1. Min(starts) \in starts
    BY <1>2, <1>4, MinFacts
  <2> DEFINE n == Min(starts) - 1
  <2>2. Min(starts) \in 1 .. Len(s)
    BY <1>2, <2>1
  <2>3. n \in Nat /\ n \in Int /\ n <= Len(s)
    BY <1>2, <2>2
  <2>4. StripComment(s) = SubSeq(s, 1, n)
    BY <1>1, <1>4
  <2> HIDE DEF n
  <2>5. SubSeq(s, 1, n) \in Seq(Characters) /\ Len(SubSeq(s, 1, n)) = IF 1 <= n THEN n - 1 + 1 ELSE 0
    BY <2>3, SliceFacts
  <2>6. Len(SubSeq(s, 1, n)) <= Len(s)
    BY <1>2, <2>3, <2>5
  <2> QED BY <2>4, <2>5, <2>6
<1> QED BY <1>3, <1>4

LEMMA ValueShorter ==
    ASSUME NEW l, NEW c, Reads(l, c)
    PROVE  Len(Value(l)) \in Nat /\ Len(Value(l)) + 2 <= Len(l) /\ Len(l) \in Nat
<1>1. l \in Seq(Characters) /\ Equals(l) # {} /\ Min(Equals(l)) = 2
  BY DEF Reads
<1>2. Equals(l) \subseteq 1 .. Len(l) /\ Len(l) \in Nat
  BY <1>1 DEF Equals, Chars
<1>3. 2 \in Equals(l)
  BY <1>1, <1>2, MinFacts
<1>4. Len(l) >= 2
  BY <1>2, <1>3
<1> DEFINE x == SubSeq(l, 3, Len(l))
<1>5. x \in Seq(Characters) /\ Len(x) = IF 3 <= Len(l) THEN Len(l) - 3 + 1 ELSE 0
  <2>1. 3 \in Nat /\ 3 >= 1 /\ Len(l) \in Int /\ Len(l) <= Len(l)
    BY <1>2
  <2> QED BY <1>1, <2>1, SliceFacts
<1>6. Value(l) = Trim(StripComment(x))
  <2>1. 2 + 1 = 3
    OBVIOUS
  <2> QED BY <1>1, <2>1 DEF Value
<1> HIDE DEF x
<1>7. StripComment(x) \in Seq(Characters) /\ Len(StripComment(x)) <= Len(x)
  BY <1>5, StripShorter
<1>8. Len(Value(l)) <= Len(StripComment(x)) /\ Len(Value(l)) \in Nat
  BY <1>6, <1>7, TrimShorter
<1>9. Len(StripComment(x)) \in Nat
  BY <1>7
<1> QED BY <1>2, <1>4, <1>5, <1>7, <1>8, <1>9

(* There is room for what the window writes. *)
LEMMA LinesHaveRoom ==
    ASSUME Typed, WindowFits, NEW k \in EntryAt, NEW l, l = Trim(Body(k))
    PROVE  HasRoom(l)
<1> DEFINE b == Body(k)
           v == ValueAt(k)
           c == Name(k)
<1>1. k \in 1 .. 11
  BY DEF EntryAt
<1>2. Reads(l, c)
  BY <1>1, LineReads
<1>3. b \in Seq(Characters) /\ b = <<c, "=">> \o v
  BY <1>1, BodyFacts
<1>4. v \in Seq(Characters) /\ Len(v) < ValueMax
  BY ValueFacts
<1>5. c \in Characters /\ "=" \in Characters
  BY <1>1, NameType, LiteralsAreCharacters DEF Literals
<1>6. l = Trim(b)
  OBVIOUS
<1> HIDE DEF b, v, c
<1>7. Len(b) = Len(v) + 2
  BY <1>3, <1>4, <1>5, PairFront
<1>8. Len(l) <= Len(b)
  BY <1>3, <1>6, TrimShorter
<1>9. Len(Value(l)) \in Nat /\ Len(Value(l)) + 2 <= Len(l) /\ Len(l) \in Nat
  BY <1>2, ValueShorter
<1>10. Len(v) \in Nat /\ ValueMax \in Nat /\ KeyMax \in Nat /\ KeyMax > 1
  BY <1>4, BoundsAssumption DEF WindowFits
<1>11. ~TooLong(Value(l), ValueMax)
  BY <1>4, <1>7, <1>8, <1>9, <1>10 DEF TooLong
<1>12. Key(l) = <<c>> /\ Len(<<c>>) = 1
  BY <1>2 DEF Reads
<1>13. ~TooLong(Key(l), KeyMax)
  BY <1>10, <1>12 DEF TooLong
<1> QED BY <1>11, <1>13 DEF HasRoom

-----------------------------------------------------------------------------
(* The invariant of the window *)

(* While line k is the next of the window's file: what is left is the       *)
(* beginning of the rest of the file, and exactly the entries above line k  *)
(* are in the table.                                                        *)
Left(k) ==
    \E m \in 0 .. Len(From(k)) :
        text = SubSeq(From(k), 1, m) /\ (stored = whole => m = Len(From(k)))

HasAbove(k) == \A j \in EntryAt : j < k => entries[KeyOf(j)] = Got(j)
Here(k)     == section = Sec(k) /\ DOMAIN entries = Keys(k) /\ HasAbove(k)

(* The file may end within line k, and then anything may be its value. *)
UpTo(k)     == Keys(k) \subseteq DOMAIN entries /\ DOMAIN entries \subseteq Keys(k + 1) /\ HasAbove(k)

Progress ==
    /\ status = "written" => \E n \in 0 .. Len(GuiFile) : stored = SubSeq(GuiFile, 1, n)
    /\ status = "loading" =>
         \/ \E k \in 1 .. 12 : Left(k) /\ Here(k)
         \/ stored # whole /\ text = <<>> /\ \E k \in 1 .. 12 : UpTo(k)
    /\ status = "error" => stored # whole
    /\ status \in {"ok", "refused"} =>
         (stored = whole => Here(12)) /\ \E k \in 1 .. 12 : UpTo(k)
    /\ status = "ok" => Acceptable

WindowInv ==
    /\ Typed /\ field \in Fields
    /\ status \in {"writing", "written", "loading", "unread", "error", "refused", "ok"}
    /\ status = "writing" => whole = <<>>
    /\ edits = <<>> /\ whole = <<>> => status \in {"writing", "refused"}
    /\ edits = <<>> /\ whole # <<>> =>
         /\ whole = GuiFile /\ (typed = <<>> => field \in {"network_id", "tap_name"})
         /\ Progress

LEMMA WindowStart == Init => WindowInv
<1> SUFFICES ASSUME Init PROVE WindowInv
  OBVIOUS
<1>1. typed \in Seq(Characters)
  BY TypedIsText
<1>2. MaxTyped \in Nat /\ MaxTyped >= 1
  BY BoundsAssumption
<1>3. CASE typed \in SeqOf(TypedChars, MaxTyped) /\ field \in Fields
  <2>1. PICK n \in 0 .. MaxTyped : typed \in [1 .. n -> TypedChars]
    BY <1>3 DEF SeqOf
  <2>2. n \in Nat /\ n <= MaxTyped /\ DOMAIN typed = 1 .. n
    BY <1>2, <2>1
  <2> HIDE DEF Init
  <2>3. Len(typed) = n
    BY <1>1, <2>2
  <2>4. Typed
    BY <1>1, <2>2, <2>3 DEF Typed
  <2> QED BY <1>3, <2>4 DEF WindowInv, Init
<1>4. CASE typed = <<"x">> /\ field = "username"
  <2>1. Len(typed) = 1
    BY <1>4
  <2>2. Typed
    BY <1>1, <1>2, <2>1 DEF Typed
  <2> QED BY <1>4, <2>2 DEF WindowInv, Init, Fields
<1> QED BY <1>3, <1>4 DEF Init

(* What is in the window does not change. *)
LEMMA SameWindow ==
    ASSUME typed' = typed, field' = field
    PROVE  /\ Typed' <=> Typed
           /\ GuiFile' = GuiFile
           /\ \A k : Body(k)' = Body(k) /\ From(k)' = From(k) /\ Got(k)' = Got(k)
<1>1. \A f : Written(f)' = Written(f)
  BY DEF Written, InField
<1>2. \A k : ValueAt(k)' = ValueAt(k)
  BY <1>1 DEF ValueAt
<1>3. \A k : Body(k)' = Body(k)
  BY <1>2 DEF Body
<1>4. \A k : Whole(k)' = Whole(k)
  BY <1>3 DEF Whole
<1>5. \A k : From(k)' = From(k)
  BY <1>4 DEF From, From1, From2, From3, From4, From5, From6, From7, From8, From9, From10, From11
<1>6. \A k : Got(k)' = Got(k)
  BY <1>3 DEF Got
<1>7. GuiFile' = GuiFile
  BY <1>1 DEF GuiFile
<1>8. Typed' <=> Typed
  BY DEF Typed
<1> QED BY <1>3, <1>5, <1>6, <1>7, <1>8

(* The next line of the window's file *)
FullLine(k) ==
    /\ NextLine = Trim(Body(k))
    /\ \E m \in 0 .. Len(From(k + 1)) :
         /\ stored = whole => m = Len(From(k + 1))
         /\ Consume => text' = SubSeq(From(k + 1), 1, m)

PartLine(k) ==
    /\ stored # whole /\ (Consume => text' = <<>>)
    /\ \E m \in 1 .. Len(Body(k)) : NextLine = Trim(SubSeq(Body(k), 1, m))

LEMMA OnLine ==
    ASSUME WindowFits, WindowInv, Reading, edits = <<>>
    PROVE  whole # <<>> /\ \E k \in 1 .. 11 : Here(k) /\ (FullLine(k) \/ PartLine(k))
<1>1. status = "loading" /\ text # <<>> /\ Typed /\ typed \in Seq(Characters)
  BY DEF Reading, WindowInv, Typed
<1>2. whole # <<>> /\ Progress
  BY <1>1 DEF WindowInv
<1>3. PICK k \in 1 .. 12 : Left(k) /\ Here(k)
  BY <1>1, <1>2 DEF Progress
<1>4. PICK m \in 0 .. Len(From(k)) :
        text = SubSeq(From(k), 1, m) /\ (stored = whole => m = Len(From(k)))
  BY <1>3 DEF Left
<1>5. From(k) \in Seq(Characters)
  BY <1>1, FromType
<1>6. m \in Nat /\ m <= Len(From(k)) /\ m >= 1
  <2> DEFINE w == From(k)
  <2>1. w \in Seq(Characters) /\ m \in 0 .. Len(w) /\ text = SubSeq(w, 1, m)
    BY <1>4, <1>5
  <2> HIDE DEF w
  <2>2. Len(w) \in Nat /\ m \in Nat /\ m <= Len(w)
    BY <2>1
  <2>3. m # 0
    <3> SUFFICES ASSUME m = 0 PROVE FALSE
      OBVIOUS
    <3>1. SubSeq(w, 1, 0) \in Seq(Characters) /\ Len(SubSeq(w, 1, 0)) = 0
      BY <2>1, <2>2, SliceFacts
    <3>2. text = <<>>
      BY <2>1, <3>1, EmptySeq
    <3> QED BY <1>1, <3>2
  <2> QED BY <2>2, <2>3 DEF w
<1>7. k \in 1 .. 11
  <2> SUFFICES ASSUME k = 12 PROVE FALSE
    OBVIOUS
  <2>1. From(k) = <<>> /\ Len(<<>>) = 0
    BY DEF From
  <2>2. Len(From(k)) = 0
    BY <2>1
  <2> QED BY <1>6, <2>2
<1> DEFINE b == Body(k)
           r == From(k + 1)
           w == From(k)
<1>8. /\ b \in Seq(Characters) /\ NoEnd(b) /\ Len(b) + 1 <= LineMax
  BY <1>1, <1>7, BodyFacts
<1>9. r \in Seq(Characters) /\ w = (b \o <<NL>>) \o r
  <2>1. k + 1 \in 1 .. 12
    BY <1>7
  <2> QED BY <1>1, <1>7, <2>1, FromType DEF Whole
<1>10. w \in Seq(Characters) /\ m \in Nat /\ m <= Len(w) /\ m >= 1 /\ text = SubSeq(w, 1, m)
       /\ (stored = whole => m = Len(w))
  BY <1>4, <1>5, <1>6
<1> HIDE DEF b, r, w
<1>11. Before(w, b, r)
  BY <1>8, <1>9, BeforeFacts
<1>12. Len(b) \in Nat /\ Len(r) \in Nat /\ Len(w) = Len(b) + 1 + Len(r)
  BY <1>8, <1>9, <1>11 DEF Before
<1>15. Cut(text, w, b, r, m)
  BY <1>8, <1>9, <1>10, <1>11 DEF Cut
<1>13. CASE m >= Len(b) + 1
  <2>1. /\ ChunkLen(text) = Len(b) + 1
        /\ SubSeq(text, 1, Len(b) + 1) = b \o <<NL>>
        /\ SubSeq(text, Len(b) + 2, Len(text)) = SubSeq(r, 1, m - (Len(b) + 1))
    <3>1. LineTaken(text, b, r, m)
      BY <1>13, <1>15, TakesLine
    <3> QED BY <3>1 DEF LineTaken
  <2>2. NextLine = Trim(b)
    BY <1>8, <2>1, TrimEnd DEF NextLine
  <2> DEFINE n == m - (Len(b) + 1)
  <2>3. n \in 0 .. Len(r) /\ (stored = whole => n = Len(r))
    BY <1>10, <1>12, <1>13
  <2>4. (Len(b) + 1) + 1 = Len(b) + 2
    BY <1>12
  <2>5. Consume => text' = SubSeq(r, 1, n)
    BY <2>1, <2>4 DEF Consume
  <2> HIDE DEF n
  <2>6. FullLine(k)
    BY <2>2, <2>3, <2>5 DEF FullLine, b, r
  <2> QED BY <1>2, <1>3, <1>7, <2>6
<1>14. CASE m <= Len(b)
  <2>1. /\ ChunkLen(text) = m /\ SubSeq(text, 1, m) = SubSeq(b, 1, m)
        /\ SubSeq(text, m + 1, Len(text)) = <<>>
    <3>1. PartTaken(text, b, m)
      BY <1>10, <1>14, <1>15, TakesPart
    <3> QED BY <3>1 DEF PartTaken
  <2>2. NextLine = Trim(SubSeq(b, 1, m)) /\ (Consume => text' = <<>>)
    BY <2>1 DEF NextLine, Consume
  <2>3. stored # whole
    BY <1>10, <1>12, <1>14
  <2>4. m \in 1 .. Len(b)
    BY <1>10, <1>12, <1>14
  <2>5. PartLine(k)
    BY <2>2, <2>3, <2>4 DEF PartLine, b
  <2> QED BY <1>2, <1>3, <1>7, <2>5
<1> QED BY <1>10, <1>12, <1>13, <1>14

(* What the loader makes of a line that is cut *)
LEMMA PartReads ==
    ASSUME Typed, WindowFits, NEW k \in 1 .. 11, NEW m \in 1 .. Len(Body(k)),
           NEW l, l = Trim(SubSeq(Body(k), 1, m)), NEW sec, IsEntry(l, sec)
    PROVE  k \in EntryAt /\ Key(l) = <<Name(k)>>
<1> DEFINE b == Body(k)
           p == SubSeq(b, 1, m)
<1>1. b \in Seq(Characters)
  BY BodyFacts
<1>2. ~Ignored(l) /\ ~IsSection(l) /\ Equals(l) # {}
  BY DEF IsEntry
<1>3. m \in Nat /\ m >= 1 /\ l = Trim(p) /\ m <= Len(b)
  <2>1. Len(b) \in Nat /\ m \in 1 .. Len(b)
    BY <1>1
  <2> HIDE DEF b
  <2>2. m \in Nat /\ m >= 1 /\ m <= Len(b)
    BY <2>1
  <2> QED BY <2>2 DEF b
<1>4. p \in Seq(Characters) /\ Len(p) = m /\ \A i \in 1 .. m : p[i] = b[i]
  <2> HIDE DEF b
  <2>1. p \in Seq(Characters) /\ Slice(p, b, 1, m)
    BY <1>1, <1>3, SliceIs
  <2>2. m - 1 + 1 = m /\ \A i \in 1 .. m : 1 + i - 1 = i
    BY <1>3
  <2> HIDE DEF p
  <2> QED BY <1>3, <2>1, <2>2 DEF Slice
<1>5. k \in EntryAt
  <2> SUFFICES ASSUME k \notin EntryAt PROVE FALSE
    OBVIOUS
  <2>1. k = 1 \/ k = 8 \/ k = 9
    BY DEF EntryAt
  <2>2. CASE k = 8
    <3>1. b = <<>> /\ Len(<<>>) = 0
      BY <2>2 DEF Body
    <3>2. Len(b) = 0
      BY <3>1
    <3> QED BY <1>3, <3>2
  <2>3. CASE k = 1 \/ k = 9
    <3>1. b = <<"[", "client", "]">> \/ b = <<"[", "log", "]">>
      BY <2>3 DEF Body
    <3>2. b[1] = "["
      BY <3>1
    <3> HIDE DEF b, p
    <3>3. p[1] = "[" /\ Len(p) >= 1
      BY <1>3, <1>4, <3>2
    <3>4. IsSection(Trim(p))
      BY <1>4, <3>3, HeadReads
    <3> QED BY <1>2, <1>3, <3>4
  <2> QED BY <2>1, <2>2, <2>3
<1> DEFINE v == ValueAt(k)
           c == Name(k)
<1>6. IsName(c) /\ c \in Characters /\ "=" \in Characters
  BY <1>5, NamesAreNames, LiteralsAreCharacters DEF Literals, IsName
<1>7. v \in Seq(Characters) /\ b = <<c, "=">> \o v
  BY <1>5, ValueFacts, BodyFacts
<1> HIDE DEF b, p, v, c
<1>8. b[1] = c /\ b[2] = "="
  BY <1>6, <1>7, PairFront
<1>9. m >= 2
  <2> SUFFICES ASSUME m = 1 PROVE FALSE
    BY <1>3
  <2>1. Len(p) = 1 /\ p[1] = c
    BY <1>4, <1>8
  <2>2. p = <<c>>
    <3> DEFINE q == <<c>>
    <3>1. q \in Seq(Characters) /\ Len(q) = 1 /\ q[1] = c
      BY <1>6
    <3> HIDE DEF q
    <3>2. p = q
      BY <1>4, <2>1, <3>1, SameSequence
    <3> QED BY <3>2 DEF q
  <2>3. l = <<c>>
    BY <1>3, <1>6, <2>2, OneName
  <2>4. Equals(<<c>>) = {}
    <3>1. c # "="
      BY <1>6 DEF IsName
    <3> QED BY <3>1 DEF Equals, Chars
  <2> QED BY <1>2, <2>3, <2>4
<1>10. Reads(l, c)
  <2>1. Len(p) >= 2 /\ p[1] = c /\ p[2] = "="
    BY <1>4, <1>8, <1>9
  <2> QED BY <1>3, <1>4, <1>6, <2>1, EntryReads
<1> QED BY <1>5, <1>10 DEF Reads, c

-----------------------------------------------------------------------------
(* Its steps *)

(* The window and its file stay as they are while the file is read. *)
Unchanged == typed' = typed /\ field' = field /\ edits' = edits /\ whole' = whole /\ stored' = stored

LEMMA Onward ==
    ASSUME WindowInv, Reading, Unchanged, status' = status,
           edits = <<>> => \/ \E k \in 1 .. 12 : Left(k)' /\ Here(k)'
                           \/ stored # whole /\ text' = <<>> /\ \E k \in 1 .. 12 : UpTo(k)'
    PROVE  WindowInv'
<1>1. status = "loading" /\ status' = "loading"
  BY DEF Reading
<1>2. Typed' /\ field' \in Fields /\ GuiFile' = GuiFile
  BY SameWindow DEF Unchanged, WindowInv
<1>3. edits = <<>> => /\ whole # <<>> /\ whole = GuiFile
                      /\ typed = <<>> => field \in {"network_id", "tap_name"}
  BY <1>1 DEF WindowInv
<1>4. edits = <<>> => Progress'
  BY <1>1 DEF Progress, Unchanged
<1> QED BY <1>1, <1>2, <1>3, <1>4 DEF WindowInv, Unchanged

LEMMA Fails ==
    ASSUME WindowInv, Reading, Unchanged, status' = "error", edits = <<>> => stored # whole
    PROVE  WindowInv'
<1>1. status = "loading"
  BY DEF Reading
<1>2. Typed' /\ field' \in Fields /\ GuiFile' = GuiFile
  BY SameWindow DEF Unchanged, WindowInv
<1>3. edits = <<>> => /\ whole # <<>> /\ whole = GuiFile
                      /\ typed = <<>> => field \in {"network_id", "tap_name"}
  BY <1>1 DEF WindowInv
<1>4. edits = <<>> => Progress'
  BY DEF Progress, Unchanged
<1> QED BY <1>2, <1>3, <1>4 DEF WindowInv, Unchanged

(* A line that is read whole leaves the rest. *)
LEMMA LeftNext ==
    ASSUME NEW k \in 1 .. 11, FullLine(k), Consume, Unchanged
    PROVE  Left(k + 1)'
<1>1. From(k + 1)' = From(k + 1)
  BY SameWindow DEF Unchanged
<1> QED BY <1>1 DEF FullLine, Left, Unchanged

(* The table and section stay as they are. *)
LEMMA HereStill ==
    ASSUME NEW k \in 1 .. 11, Here(k), Unchanged, entries' = entries
    PROVE  UpTo(k)' /\ DOMAIN entries' = Keys(k) /\ HasAbove(k)'
<1>1. \A j : Got(j)' = Got(j)
  BY SameWindow DEF Unchanged
<1>2. HasAbove(k)'
  BY <1>1 DEF Here, HasAbove
<1>3. Keys(k) \subseteq Keys(k + 1)
  BY KeysGrow
<1>4. DOMAIN entries' = Keys(k)
  BY DEF Here
<1> QED BY <1>2, <1>3, <1>4 DEF UpTo

(* No entry is at a line that is none. *)
LEMMA HeadStill ==
    ASSUME NEW k \in 1 .. 11, k \notin EntryAt, Here(k), Unchanged, entries' = entries,
           section' = Sec(k + 1)
    PROVE  Here(k + 1)'
<1>1. DOMAIN entries' = Keys(k) /\ HasAbove(k)'
  BY HereStill
<1>2. Keys(k + 1) = Keys(k)
  BY KeysGrow
<1>3. HasAbove(k + 1)'
  <2>1. \A j \in EntryAt : j < k + 1 => j < k
    BY DEF EntryAt
  <2> QED BY <1>1, <2>1 DEF HasAbove
<1> QED BY <1>1, <1>2, <1>3 DEF Here

LEMMA EntryStored ==
    ASSUME NEW k \in EntryAt, Here(k), Unchanged, NEW v, entries' = Store(entries, KeyOf(k), v)
    PROVE  DOMAIN entries' = Keys(k + 1) /\ entries'[KeyOf(k)] = v /\ HasAbove(k)'
<1>1. /\ DOMAIN entries' = DOMAIN entries \cup {KeyOf(k)}
      /\ entries'[KeyOf(k)] = v
      /\ \A x \in DOMAIN entries : x # KeyOf(k) => entries'[x] = entries[x]
  <2>1. Stores(Store(entries, KeyOf(k), v), entries, KeyOf(k), v)
    BY StoreFacts
  <2>2. Stores(entries', entries, KeyOf(k), v)
    BY <2>1
  <2> QED BY <2>2 DEF Stores
<1>2. k \in 1 .. 11
  BY DEF EntryAt
<1>3. DOMAIN entries' = Keys(k + 1)
  BY <1>1, <1>2, KeysGrow DEF Here
<1>4. \A j : Got(j)' = Got(j)
  BY SameWindow DEF Unchanged
<1>5. ASSUME NEW j \in EntryAt, j < k PROVE entries'[KeyOf(j)] = Got(j)'
  <2>1. j # k
    BY <1>2, <1>5
  <2>2. KeyOf(j) # KeyOf(k)
    BY <2>1, NamesDiffer
  <2>3. KeyOf(j) \in DOMAIN entries
    BY <1>5 DEF Here, Keys
  <2>4. entries[KeyOf(j)] = Got(j)
    BY <1>5 DEF Here, HasAbove
  <2> QED BY <1>1, <1>4, <2>2, <2>3, <2>4
<1> QED BY <1>1, <1>3, <1>5 DEF HasAbove

LEMMA WriteFileTold == WindowInv /\ WriteFile => WindowInv'
<1> SUFFICES ASSUME WindowInv, WriteFile PROVE WindowInv'
  OBVIOUS
<1>1. /\ status = "writing" /\ edits = <<>> /\ whole' = GuiFile
      /\ status' = "written" /\ UNCHANGED <<field, typed, edits>>
      /\ \A f \in {"server_addr", "username", "password"} : InField(f) # <<>>
  BY DEF WriteFile
<1>2. Typed /\ typed \in Seq(Characters)
  BY <1>1 DEF WindowInv, Typed
<1>3. \E n \in 0 .. Len(GuiFile) : stored' = SubSeq(GuiFile, 1, n)
  BY DEF WriteFile
<1>4. Typed' /\ field' \in Fields /\ GuiFile' = GuiFile
  <2>1. typed' = typed /\ field' = field /\ field \in Fields
    BY <1>1 DEF WindowInv
  <2> QED BY <1>2, <2>1, SameWindow
<1>5. GuiFile = From(1) /\ GuiFile \in Seq(Characters)
  BY <1>2, GuiFileIs, GuiFileType
<1> DEFINE g == GuiFile
<1>10. typed = <<>> => field \in {"network_id", "tap_name"}
  <2> SUFFICES ASSUME typed = <<>> PROVE field \in {"network_id", "tap_name"}
    OBVIOUS
  <2>1. field \notin {"server_addr", "username", "password"}
    BY <1>1 DEF InField
  <2>2. field \in Fields
    BY DEF WindowInv
  <2> QED BY <2>1, <2>2 DEF Fields
<1>11. whole' # <<>>
  <2> SUFFICES ASSUME g = <<>> PROVE FALSE
    BY <1>1
  <2>1. From(1) = Whole(1) \o From(2) /\ From(2) \in Seq(Characters) /\ Body(1) \in Seq(Characters)
    <3>1. 1 \in 1 .. 11 /\ 2 \in 1 .. 12 /\ 1 + 1 = 2
      OBVIOUS
    <3>2. From(1) = Whole(1) \o From(1 + 1) /\ From(2) \in Seq(Characters)
      BY <1>2, <3>1, FromType
    <3> QED BY <1>2, <3>1, <3>2, BodyType
  <2> DEFINE b == Body(1)
             r == From(2)
             w == From(1)
  <2>2. w = (b \o <<NL>>) \o r /\ b \in Seq(Characters) /\ r \in Seq(Characters) /\ w = <<>>
    BY <1>5, <2>1 DEF Whole
  <2> HIDE DEF b, r, w, g
  <2>3. Len(w) = Len(b) + 1 + Len(r) /\ w \in Seq(Characters)
    BY <2>2, BeforeFacts DEF Before
  <2>4. Len(b) \in Nat /\ Len(r) \in Nat
    BY <2>2
  <2>5. Len(w) = 0
    <3>1. w = <<>>
      BY <2>2
    <3> QED BY <3>1
  <2>6. Len(b) + 1 + Len(r) # 0
    BY <2>4
  <2> QED BY <2>3, <2>5, <2>6
<1>12. Progress'
  <2> HIDE DEF g
  <2> QED BY <1>1, <1>3, <1>4 DEF Progress
<1> QED BY <1>1, <1>4, <1>10, <1>11, <1>12 DEF WindowInv

LEMMA OpenTold == WindowInv /\ Open => WindowInv'
<1> SUFFICES ASSUME WindowInv, Open PROVE WindowInv'
  OBVIOUS
<1>1. /\ status = "written" /\ text' = stored /\ section' = <<>> /\ entries' = NoFile
      /\ status' = "loading" /\ Unchanged
  BY DEF Open, Unchanged
<1>2. /\ Typed /\ Typed' /\ field' \in Fields /\ GuiFile' = GuiFile /\ typed \in Seq(Characters)
      /\ \A k : From(k)' = From(k)
  BY <1>1, SameWindow DEF WindowInv, Unchanged, Typed
<1>3. ASSUME edits = <<>>
      PROVE  /\ whole # <<>> /\ whole = GuiFile
             /\ typed = <<>> => field \in {"network_id", "tap_name"}
             /\ Left(1)' /\ Here(1)'
  <2>1. /\ whole # <<>> /\ whole = GuiFile /\ Progress
        /\ typed = <<>> => field \in {"network_id", "tap_name"}
    BY <1>1, <1>3 DEF WindowInv
  <2>2. PICK n \in 0 .. Len(GuiFile) : stored = SubSeq(GuiFile, 1, n)
    BY <1>1, <2>1 DEF Progress
  <2>3. GuiFile = From(1) /\ GuiFile \in Seq(Characters)
    BY <1>2, GuiFileIs, GuiFileType
  <2> DEFINE g == GuiFile
  <2>4. g \in Seq(Characters) /\ n \in 0 .. Len(g) /\ stored = SubSeq(g, 1, n)
    BY <2>2, <2>3
  <2>5. stored = g => n = Len(g)
    <3> HIDE DEF g
    <3>1. n \in Nat /\ n <= Len(g) /\ n \in Int
      BY <2>4
    <3>2. Len(SubSeq(g, 1, n)) = IF 1 <= n THEN n - 1 + 1 ELSE 0
      BY <2>4, <3>1, SliceFacts
    <3>3. Len(SubSeq(g, 1, n)) = n
      BY <3>1, <3>2
    <3> QED BY <2>4, <3>3
  <2>6. Left(1)'
    <3>1. From(1)' = g
      BY <1>2, <2>3
    <3>2. n \in 0 .. Len(From(1)') /\ text' = SubSeq(From(1)', 1, n)
          /\ (stored' = whole' => n = Len(From(1)'))
      <4>1. whole = g
        BY <2>1
      <4> HIDE DEF g
      <4> QED BY <1>1, <2>4, <2>5, <3>1, <4>1 DEF Unchanged
    <3> QED BY <3>2 DEF Left
  <2>7. Here(1)'
    <3>1. \A j \in EntryAt : ~(j < 1)
      BY DEF EntryAt
    <3>2. Keys(1) = {} /\ Sec(1) = <<>> /\ DOMAIN NoFile = {}
      BY <3>1 DEF Keys, Sec, NoFile
    <3> QED BY <1>1, <3>1, <3>2 DEF Here, HasAbove
  <2> QED BY <2>1, <2>6, <2>7
<1>4. edits = <<>> => Progress'
  BY <1>1, <1>3 DEF Progress
<1> QED BY <1>1, <1>2, <1>3, <1>4 DEF WindowInv, Unchanged

LEMMA UnreadTold == WindowInv /\ (CannotOpen \/ CannotRead) => WindowInv'
<1> SUFFICES ASSUME WindowInv, CannotOpen \/ CannotRead PROVE WindowInv'
  OBVIOUS
<1>1. status \in {"written", "loading"} /\ status' = "unread" /\ Unchanged
  BY DEF CannotOpen, CannotRead, Unchanged
<1>2. Typed' /\ field' \in Fields /\ GuiFile' = GuiFile
  BY <1>1, SameWindow DEF Unchanged, WindowInv
<1>3. edits = <<>> => /\ whole # <<>> /\ whole = GuiFile
                      /\ typed = <<>> => field \in {"network_id", "tap_name"}
  BY <1>1 DEF WindowInv
<1>4. Progress'
  BY <1>1 DEF Progress
<1> QED BY <1>1, <1>2, <1>3, <1>4 DEF WindowInv, Unchanged

LEMMA EditFileTold == WindowInv /\ EditFile => WindowInv'
<1> SUFFICES ASSUME WindowInv, EditFile PROVE WindowInv'
  OBVIOUS
<1>1. edits # <<>> /\ status' = "written" /\ UNCHANGED <<field, typed, edits>>
  BY DEF EditFile
<1>2. Typed' /\ field' \in Fields
  BY <1>1, SameWindow DEF WindowInv
<1> QED BY <1>1, <1>2 DEF WindowInv

LEMMA NotWrittenTold == WindowInv /\ (WindowIncomplete \/ CannotWrite) => WindowInv'
<1> SUFFICES ASSUME WindowInv, WindowIncomplete \/ CannotWrite PROVE WindowInv'
  OBVIOUS
<1>1. status = "writing" /\ status' = "refused" /\ UNCHANGED <<field, typed, edits, whole>>
  BY DEF WindowIncomplete, CannotWrite
<1>2. Typed' /\ field' \in Fields
  BY <1>1, SameWindow DEF WindowInv
<1>3. whole' = <<>>
  BY <1>1 DEF WindowInv
<1> QED BY <1>1, <1>2, <1>3 DEF WindowInv

LEMMA ReadIgnoredTold == WindowFits /\ WindowInv /\ ReadIgnored => WindowInv'
<1> SUFFICES ASSUME WindowFits, WindowInv, ReadIgnored PROVE WindowInv'
  OBVIOUS
<1>1. /\ Reading /\ Ignored(NextLine) /\ Consume /\ Unchanged
      /\ section' = section /\ entries' = entries /\ status' = status
  BY DEF ReadIgnored, Unchanged
<1>2. ASSUME edits = <<>>
      PROVE  \/ \E k \in 1 .. 12 : Left(k)' /\ Here(k)'
             \/ stored # whole /\ text' = <<>> /\ \E k \in 1 .. 12 : UpTo(k)'
  <2>1. PICK k \in 1 .. 11 : Here(k) /\ (FullLine(k) \/ PartLine(k))
    BY <1>1, <1>2, OnLine
  <2>2. CASE FullLine(k)
    <3>1. Typed /\ NextLine = Trim(Body(k))
      BY <2>2 DEF WindowInv, FullLine
    <3>2. k = 8
      <4>1. k \notin EntryAt
        BY <1>1, <3>1, LineReads DEF Reads
      <4>2. k \notin {1, 9}
        BY <1>1, <3>1, LineReads
      <4> QED BY <4>1, <4>2 DEF EntryAt
    <3>3. k \notin EntryAt /\ section' = Sec(k + 1)
      BY <1>1, <2>1, <3>2 DEF EntryAt, Here, Sec
    <3>4. Left(k + 1)' /\ Here(k + 1)' /\ k + 1 \in 1 .. 12
      BY <1>1, <2>1, <2>2, <3>3, LeftNext, HeadStill
    <3> QED BY <3>4
  <2>3. CASE PartLine(k)
    <3>1. stored # whole /\ text' = <<>> /\ UpTo(k)' /\ k \in 1 .. 12
      BY <1>1, <2>1, <2>3, HereStill DEF PartLine
    <3> QED BY <3>1
  <2> QED BY <2>1, <2>2, <2>3
<1> QED BY <1>1, <1>2, Onward

LEMMA ReadSectionTold == WindowFits /\ WindowInv /\ ReadSection => WindowInv'
<1> SUFFICES ASSUME WindowFits, WindowInv, ReadSection PROVE WindowInv'
  OBVIOUS
<1>1. /\ Reading /\ IsSection(NextLine) /\ Consume /\ Unchanged
      /\ section' = SectionName(NextLine) /\ entries' = entries /\ status' = status
  BY DEF ReadSection, Unchanged
<1>2. ASSUME edits = <<>>
      PROVE  \/ \E k \in 1 .. 12 : Left(k)' /\ Here(k)'
             \/ stored # whole /\ text' = <<>> /\ \E k \in 1 .. 12 : UpTo(k)'
  <2>1. PICK k \in 1 .. 11 : Here(k) /\ (FullLine(k) \/ PartLine(k))
    BY <1>1, <1>2, OnLine
  <2>2. CASE FullLine(k)
    <3>1. Typed /\ NextLine = Trim(Body(k))
      BY <2>2 DEF WindowInv, FullLine
    <3>2. k \in {1, 9}
      <4>1. k \notin EntryAt
        BY <1>1, <3>1, LineReads DEF Reads
      <4>2. k # 8
        BY <1>1, <3>1, LineReads
      <4> QED BY <4>1, <4>2 DEF EntryAt
    <3>3. k \notin EntryAt /\ section' = Sec(k + 1)
      BY <1>1, <3>1, <3>2, LineReads DEF EntryAt
    <3>4. Left(k + 1)' /\ Here(k + 1)' /\ k + 1 \in 1 .. 12
      BY <1>1, <2>1, <2>2, <3>3, LeftNext, HeadStill
    <3> QED BY <3>4
  <2>3. CASE PartLine(k)
    <3>1. stored # whole /\ text' = <<>> /\ UpTo(k)' /\ k \in 1 .. 12
      BY <1>1, <2>1, <2>3, HereStill DEF PartLine
    <3> QED BY <3>1
  <2> QED BY <2>1, <2>2, <2>3
<1> QED BY <1>1, <1>2, Onward

LEMMA ReadEntryTold == WindowFits /\ WindowInv /\ ReadEntry => WindowInv'
<1> SUFFICES ASSUME WindowFits, WindowInv, ReadEntry PROVE WindowInv'
  OBVIOUS
<1>1. /\ Reading /\ IsEntry(NextLine, section) /\ Consume /\ Unchanged
      /\ section' = section /\ entries' = Store(entries, Entry, Value(NextLine))
      /\ status' = status
  BY DEF ReadEntry, Unchanged
<1>2. ~Ignored(NextLine) /\ ~IsSection(NextLine)
  BY <1>1 DEF IsEntry
<1>3. ASSUME edits = <<>>
      PROVE  \/ \E k \in 1 .. 12 : Left(k)' /\ Here(k)'
             \/ stored # whole /\ text' = <<>> /\ \E k \in 1 .. 12 : UpTo(k)'
  <2>1. PICK k \in 1 .. 11 : Here(k) /\ (FullLine(k) \/ PartLine(k))
    BY <1>1, <1>3, OnLine
  <2>2. Typed
    BY DEF WindowInv
  <2>3. CASE FullLine(k)
    <3>1. NextLine = Trim(Body(k))
      BY <2>3 DEF FullLine
    <3>2. k \in EntryAt
      <4>1. k \notin {1, 9} /\ k # 8
        BY <1>2, <2>2, <3>1, LineReads
      <4> QED BY <4>1 DEF EntryAt
    <3>3. Key(NextLine) = <<Name(k)>>
      BY <2>2, <3>1, <3>2, LineReads DEF Reads
    <3>4. entries' = Store(entries, KeyOf(k), Got(k))
      BY <1>1, <2>1, <3>1, <3>3 DEF Entry, KeyOf, Here, Got
    <3>5. DOMAIN entries' = Keys(k + 1) /\ entries'[KeyOf(k)] = Got(k) /\ HasAbove(k)'
      BY <1>1, <2>1, <3>2, <3>4, EntryStored
    <3>6. Got(k)' = Got(k)
      BY <1>1, SameWindow DEF Unchanged
    <3>7. HasAbove(k + 1)'
      <4>1. \A j \in EntryAt : j < k + 1 => j < k \/ j = k
        BY DEF EntryAt
      <4> QED BY <3>5, <3>6, <4>1 DEF HasAbove
    <3>8. section' = Sec(k + 1)
      BY <1>1, <2>1, <3>2, KeysGrow DEF Here
    <3>9. Here(k + 1)'
      BY <3>5, <3>7, <3>8 DEF Here
    <3>10. Left(k + 1)' /\ k + 1 \in 1 .. 12
      BY <1>1, <2>3, LeftNext
    <3> QED BY <3>9, <3>10
  <2>4. CASE PartLine(k)
    <3>1. PICK m \in 1 .. Len(Body(k)) : NextLine = Trim(SubSeq(Body(k), 1, m))
      BY <2>4 DEF PartLine
    <3>2. k \in EntryAt /\ Key(NextLine) = <<Name(k)>>
      BY <1>1, <2>2, <3>1, PartReads
    <3>3. entries' = Store(entries, KeyOf(k), Value(NextLine))
      BY <1>1, <2>1, <3>2 DEF Entry, KeyOf, Here
    <3>4. DOMAIN entries' = Keys(k + 1) /\ HasAbove(k)'
      BY <1>1, <2>1, <3>2, <3>3, EntryStored
    <3>5. UpTo(k)'
      BY <3>4, KeysGrow DEF UpTo
    <3>6. stored # whole /\ text' = <<>> /\ k \in 1 .. 12
      BY <1>1, <2>4 DEF PartLine
    <3> QED BY <3>5, <3>6
  <2> QED BY <2>1, <2>3, <2>4
<1> QED BY <1>1, <1>3, Onward

LEMMA ReadTooManyTold == WindowFits /\ WindowInv /\ ReadTooMany => WindowInv'
<1> SUFFICES ASSUME WindowFits, WindowInv, ReadTooMany PROVE WindowInv'
  OBVIOUS
<1>1. /\ Reading /\ IsEntry(NextLine, section) /\ Unchanged /\ status' = "error"
      /\ ~(Cardinality(DOMAIN entries) < EntriesMax)
  BY DEF ReadTooMany, HasPlace, Unchanged
<1>2. ASSUME edits = <<>> PROVE stored # whole
  <2>1. PICK k \in 1 .. 11 : Here(k) /\ (FullLine(k) \/ PartLine(k))
    BY <1>1, <1>2, OnLine
  <2>2. CASE FullLine(k)
    <3>1. Typed /\ NextLine = Trim(Body(k))
      BY <2>2 DEF WindowInv, FullLine
    <3>2. k \in EntryAt
      <4>1. k \notin {1, 9} /\ k # 8
        BY <1>1, <3>1, LineReads DEF IsEntry
      <4> QED BY <4>1 DEF EntryAt
    <3>3. DOMAIN entries = Keys(k)
      BY <2>1 DEF Here
    <3>4. KeyOf(k) \in Keys(12) /\ KeyOf(k) \notin Keys(k)
      <4>1. k < 12
        BY <3>2 DEF EntryAt
      <4> QED BY <3>2, <4>1, KeysGrow DEF Keys
    <3>5. /\ IsFiniteSet(Keys(12)) /\ Keys(k) \subseteq Keys(12) /\ Cardinality(Keys(12)) = 8
      BY EightKeys
    <3>6. Cardinality(Keys(k)) <= 8 /\ Cardinality(Keys(k)) # 8 /\ Cardinality(Keys(k)) \in Nat
      BY <3>4, <3>5, FS_Subset, FS_CardinalityType
    <3>7. EntriesMax >= 8 /\ EntriesMax \in Nat
      BY BoundsAssumption DEF WindowFits
    <3> QED BY <1>1, <3>3, <3>6, <3>7
  <2>3. CASE PartLine(k)
    BY <2>3 DEF PartLine
  <2> QED BY <2>1, <2>2, <2>3
<1> QED BY <1>1, <1>2, Fails

LEMMA ReadLongTold == WindowFits /\ WindowInv /\ (ReadLongKey \/ ReadLongValue) => WindowInv'
<1> SUFFICES ASSUME WindowFits, WindowInv, ReadLongKey \/ ReadLongValue PROVE WindowInv'
  OBVIOUS
<1>1. /\ Reading /\ IsEntry(NextLine, section) /\ Unchanged /\ status' = "error"
      /\ ~HasRoom(NextLine)
  BY DEF ReadLongKey, ReadLongValue, KeyFits, HasRoom, Unchanged
<1>2. ASSUME edits = <<>> PROVE stored # whole
  <2>1. PICK k \in 1 .. 11 : Here(k) /\ (FullLine(k) \/ PartLine(k))
    BY <1>1, <1>2, OnLine
  <2>2. CASE FullLine(k)
    <3>1. Typed /\ NextLine = Trim(Body(k))
      BY <2>2 DEF WindowInv, FullLine
    <3>2. k \in EntryAt
      <4>1. k \notin {1, 9} /\ k # 8
        BY <1>1, <3>1, LineReads DEF IsEntry
      <4> QED BY <4>1 DEF EntryAt
    <3>3. HasRoom(NextLine)
      BY <3>1, <3>2, LinesHaveRoom
    <3> QED BY <1>1, <3>3
  <2>3. CASE PartLine(k)
    BY <2>3 DEF PartLine
  <2> QED BY <2>1, <2>2, <2>3
<1> QED BY <1>1, <1>2, Fails

LEMMA ReadInvalidTold == WindowFits /\ WindowInv /\ ReadInvalid => WindowInv'
<1> SUFFICES ASSUME WindowFits, WindowInv, ReadInvalid PROVE WindowInv'
  OBVIOUS
<1>1. /\ Reading /\ ~Ignored(NextLine) /\ Unchanged /\ status' = "error"
      /\ IF IsSection(NextLine) THEN ~HasName(NextLine) ELSE ~IsEntry(NextLine, section)
  BY DEF ReadInvalid, Unchanged
<1>2. ASSUME edits = <<>> PROVE stored # whole
  <2>1. PICK k \in 1 .. 11 : Here(k) /\ (FullLine(k) \/ PartLine(k))
    BY <1>1, <1>2, OnLine
  <2>2. CASE FullLine(k)
    <3>1. Typed /\ NextLine = Trim(Body(k))
      BY <2>2 DEF WindowInv, FullLine
    <3>2. CASE k \in EntryAt
      <4>1. Reads(NextLine, Name(k))
        BY <3>1, <3>2, LineReads
      <4>2. section # <<>>
        BY <2>1, <3>2, KeysGrow DEF Here
      <4>3. <<Name(k)>> # <<>>
        OBVIOUS
      <4>4. IsEntry(NextLine, section)
        BY <4>1, <4>2, <4>3 DEF Reads, IsEntry
      <4> QED BY <1>1, <4>1, <4>4 DEF Reads
    <3>3. CASE k \in {1, 9}
      <4>1. IsSection(NextLine) /\ SectionName(NextLine) = Sec(k + 1) /\ Sec(k + 1) # <<>>
        BY <3>1, <3>3, LineReads
      <4>2. \A c : Len(<<c>>) = 1
        OBVIOUS
      <4>3. Len(Sec(k + 1)) = 1
        BY <3>3, <4>2 DEF Sec
      <4>4. SectionMax > 1 /\ SectionMax \in Nat
        BY BoundsAssumption DEF WindowFits
      <4>5. ~TooLong(SectionName(NextLine), SectionMax)
        <5> DEFINE n == SectionName(NextLine)
                   m == Sec(k + 1)
        <5>1. n = m /\ Len(m) = 1
          BY <4>1, <4>3
        <5> HIDE DEF n, m
        <5>2. Len(n) = 1
          BY <5>1
        <5>3. ~TooLong(n, SectionMax)
          BY <4>4, <5>2 DEF TooLong
        <5> QED BY <5>3 DEF n
      <4> QED BY <1>1, <4>1, <4>5 DEF HasName
    <3>4. CASE k = 8
      BY <1>1, <3>1, <3>4, LineReads
    <3> QED BY <3>2, <3>3, <3>4 DEF EntryAt
  <2>3. CASE PartLine(k)
    BY <2>3 DEF PartLine
  <2> QED BY <2>1, <2>2, <2>3
<1> QED BY <1>1, <1>2, Fails

LEMMA CheckTold == WindowInv /\ Check => WindowInv'
<1> SUFFICES ASSUME WindowInv, Check PROVE WindowInv'
  OBVIOUS
<1>1. /\ status = "loading" /\ text = <<>> /\ Unchanged
      /\ status' = IF Acceptable THEN "ok" ELSE "refused"
      /\ section' = section /\ entries' = entries
  BY DEF Check, Unchanged
<1>2. Typed' /\ field' \in Fields /\ GuiFile' = GuiFile /\ \A j : Got(j)' = Got(j)
  BY <1>1, SameWindow DEF Unchanged, WindowInv
<1>3. ASSUME edits = <<>>
      PROVE  /\ whole # <<>> /\ whole = GuiFile
             /\ typed = <<>> => field \in {"network_id", "tap_name"}
             /\ (stored = whole => Here(12)) /\ \E k \in 1 .. 12 : UpTo(k)
  <2>1. /\ whole # <<>> /\ whole = GuiFile /\ (typed = <<>> => field \in {"network_id", "tap_name"})
        /\ \/ \E k \in 1 .. 12 : Left(k) /\ Here(k)
           \/ stored # whole /\ text = <<>> /\ \E k \in 1 .. 12 : UpTo(k)
    BY <1>1, <1>3 DEF WindowInv, Progress
  <2>2. ASSUME NEW k \in 1 .. 12, Left(k), Here(k)
        PROVE  (stored = whole => k = 12) /\ UpTo(k)
    <3>1. PICK m \in 0 .. Len(From(k)) :
            text = SubSeq(From(k), 1, m) /\ (stored = whole => m = Len(From(k)))
      BY <2>2 DEF Left
    <3>2. UpTo(k)
      <4>1. Keys(k) \subseteq Keys(k + 1)
        <5>1. \A j \in EntryAt : j < k => j < k + 1
          BY DEF EntryAt
        <5> QED BY <5>1 DEF Keys
      <4> QED BY <2>2, <4>1 DEF Here, UpTo
    <3>3. ASSUME stored = whole, k # 12 PROVE FALSE
      <4>1. k \in 1 .. 11 /\ typed \in Seq(Characters) /\ k + 1 \in 1 .. 12
        BY <3>3 DEF WindowInv, Typed
      <4> DEFINE b == Body(k)
                 r == From(k + 1)
                 w == From(k)
      <4>2. /\ w = (b \o <<NL>>) \o r /\ b \in Seq(Characters) /\ r \in Seq(Characters)
            /\ w \in Seq(Characters)
        BY <4>1, FromType, BodyType DEF Whole
      <4>3. text = SubSeq(w, 1, Len(w))
        BY <3>1, <3>3
      <4> HIDE DEF b, r, w
      <4>4. SubSeq(w, 1, Len(w)) = w
        BY <4>2
      <4>5. w = <<>>
        BY <1>1, <4>3, <4>4
      <4>6. Len(w) = Len(b) + 1 + Len(r)
        BY <4>2, BeforeFacts DEF Before
      <4>7. Len(b) \in Nat /\ Len(r) \in Nat /\ Len(w) = 0
        BY <4>2, <4>5
      <4>8. Len(b) + 1 + Len(r) # 0
        BY <4>7
      <4> QED BY <4>6, <4>7, <4>8
    <3> QED BY <3>2, <3>3
  <2>3. CASE \E k \in 1 .. 12 : Left(k) /\ Here(k)
    <3>1. PICK k \in 1 .. 12 : Left(k) /\ Here(k)
      BY <2>3
    <3>2. (stored = whole => k = 12) /\ UpTo(k)
      BY <2>2, <3>1
    <3> QED BY <2>1, <3>1, <3>2
  <2> QED BY <2>1, <2>3
<1>4. Acceptable' <=> Acceptable
  BY <1>1 DEF Acceptable, Used
<1>5. /\ Here(12)' <=> Here(12)
      /\ \A k : UpTo(k)' <=> UpTo(k)
  BY <1>1, <1>2 DEF Here, UpTo, HasAbove
<1>6. edits = <<>> => Progress'
  BY <1>1, <1>3, <1>4, <1>5 DEF Progress, Unchanged
<1> QED BY <1>1, <1>2, <1>3, <1>6 DEF WindowInv, Unchanged

LEMMA WindowStep == WindowFits /\ WindowInv /\ [Next]_vars => WindowInv'
<1> SUFFICES ASSUME WindowFits, WindowInv, [Next]_vars PROVE WindowInv'
  OBVIOUS
<1>1. CASE UNCHANGED vars
  <2>1. /\ Unchanged /\ status' = status /\ text' = text /\ section' = section /\ entries' = entries
    BY <1>1 DEF vars, Unchanged
  <2>2. /\ Typed' <=> Typed
        /\ GuiFile' = GuiFile /\ \A k : Got(k)' = Got(k) /\ From(k)' = From(k)
    BY <2>1, SameWindow DEF Unchanged
  <2>3. Acceptable' <=> Acceptable
    BY <2>1 DEF Acceptable, Used
  <2>4. \A k : (Left(k)' <=> Left(k)) /\ (Here(k)' <=> Here(k)) /\ (UpTo(k)' <=> UpTo(k))
    BY <2>1, <2>2 DEF Left, Here, UpTo, HasAbove, Unchanged
  <2>6. (\E n \in 0 .. Len(GuiFile) : stored = SubSeq(GuiFile, 1, n))'
          <=> \E n \in 0 .. Len(GuiFile) : stored = SubSeq(GuiFile, 1, n)
    BY <2>1, <2>2 DEF Unchanged
  <2>5. Progress' <=> Progress
    BY <2>1, <2>2, <2>3, <2>4, <2>6 DEF Progress, Unchanged
  <2> QED BY <2>1, <2>2, <2>5 DEF WindowInv, Unchanged
<1> QED
  BY <1>1, WriteFileTold, EditFileTold, NotWrittenTold, OpenTold, UnreadTold, ReadIgnoredTold,
     ReadSectionTold, ReadEntryTold, ReadTooManyTold, ReadLongTold, ReadInvalidTold, CheckTold
  DEF Next

-----------------------------------------------------------------------------
(* What the client uses *)

(* Between the quotes at its ends every character of a text is quoted. *)
LEMMA QuotedWithin ==
    ASSUME NEW q, NEW v \in Seq(Characters), Chars(v, {q}) = {1, Len(v)}, Len(v) > 1,
           NEW i \in 1 .. Len(v), v[i] # q
    PROVE  Cardinality(Chars(SubSeq(v, 1, i), {q})) % 2 = 1
<1>1. DOMAIN v = 1 .. Len(v) /\ Len(v) \in Nat
  OBVIOUS
<1>2. \A n \in 1 .. Len(v) : v[n] = q <=> n = 1 \/ n = Len(v)
  BY <1>1 DEF Chars
<1>3. 1 < i /\ i < Len(v)
  <2>1. i # 1 /\ i # Len(v)
    BY <1>2
  <2> DEFINE L == Len(v)
  <2>2. L \in Nat /\ i \in 1 .. L /\ i # 1 /\ i # L
    BY <1>1, <2>1
  <2> HIDE DEF L
  <2>3. 1 < i /\ i < L
    BY <2>2
  <2> QED BY <2>3 DEF L
<1> DEFINE s == SubSeq(v, 1, i)
<1>4. s \in Seq(Characters) /\ Len(s) = i /\ \A n \in 1 .. i : s[n] = v[n]
  <2>1. 1 \in Nat /\ 1 >= 1 /\ i \in Int /\ i <= Len(v)
    BY <1>1
  <2>2. s \in Seq(Characters) /\ Slice(s, v, 1, i)
    BY <2>1, SliceIs
  <2>3. i - 1 + 1 = i /\ \A n \in 1 .. i : 1 + n - 1 = n
    BY <2>1
  <2> HIDE DEF s
  <2> QED BY <1>3, <2>2, <2>3 DEF Slice
<1> HIDE DEF s
<1>5. Chars(s, {q}) = {1}
  <2>1. DOMAIN s = 1 .. i
    BY <1>4
  <2>2. \A n \in 1 .. i : n \in 1 .. Len(v) /\ n # Len(v)
    <3> DEFINE L == Len(v)
    <3>1. L \in Nat /\ i < L
      BY <1>1, <1>3
    <3> HIDE DEF L
    <3>2. \A n \in 1 .. i : n \in 1 .. L /\ n # L
      BY <3>1
    <3> QED BY <3>2 DEF L
  <2>3. \A n \in 1 .. i : s[n] = q <=> n = 1
    BY <1>2, <1>4, <2>2
  <2>4. 1 \in 1 .. i
    BY <1>3
  <2> QED BY <2>1, <2>3, <2>4 DEF Chars
<1>6. Cardinality({1}) = 1
  BY FS_Singleton
<1>7. 1 % 2 = 1
  OBVIOUS
<1> QED BY <1>5, <1>6, <1>7 DEF s

(* No comment begins in a plain text. *)
LEMMA PlainUncut ==
    ASSUME NEW v \in Seq(Characters), Plain(v)
    PROVE  StripComment(v) = v
<1> DEFINE Marks == Chars(v, {"#", ";"})
           Q(i)  == Cardinality(Chars(SubSeq(v, 1, i), {"\""})) % 2 = 1
<1>1. DOMAIN v = 1 .. Len(v)
  OBVIOUS
<1>2. \A i \in Marks : i \in 1 .. Len(v) /\ v[i] \in {"#", ";"}
  BY <1>1 DEF Chars
<1>4. \A i \in Marks : Q(i)
  <2>1. CASE Marks = {}
    BY <2>1
  <2>2. CASE Chars(v, {"\""}) = {1, Len(v)} /\ Len(v) > 1
    <3>1. \A i \in Marks : v[i] # "\""
      BY <1>2, Zenon
    <3> QED BY <1>2, <2>2, <3>1, QuotedWithin, Zenon
  <2> QED BY <2>1, <2>2 DEF Plain
<1>5. {i \in Marks : ~Q(i)} = {}
  BY <1>4
<1> QED BY <1>5 DEF StripComment

LEMMA PlainUnscrubbed ==
    ASSUME NEW v \in Seq(Characters), Plain(v)
    PROVE  Scrub(v) = v
<1>1. /\ Scrub(v) \in Seq(Characters) /\ Len(Scrub(v)) = Len(v)
      /\ \A i \in 1 .. Len(v) : Scrub(v)[i] = IF v[i] = NL THEN " " ELSE v[i]
  BY ScrubFacts
<1>2. \A i \in 1 .. Len(v) : v[i] # NL
  <2>1. DOMAIN v = 1 .. Len(v)
    OBVIOUS
  <2> QED BY <2>1 DEF Plain, Chars
<1> DEFINE w == Scrub(v)
<1>3. w \in Seq(Characters) /\ Len(w) = Len(v) /\ \A i \in 1 .. Len(w) : w[i] = v[i]
  BY <1>1, <1>2
<1> HIDE DEF w
<1>4. w = v
  BY <1>3, SameSequence
<1> QED BY <1>4 DEF w

(* A plain value is read as it is written. *)
LEMMA PlainRead ==
    ASSUME NEW v \in Seq(Characters), Plain(v), NEW c, IsName(c), NEW b, b = <<c, "=">> \o v
    PROVE  Value(Trim(b)) = v
<1>1. /\ Len(v) \in Nat /\ Len(v) >= 1 /\ v # <<>> /\ v[1] \notin Blanks /\ v[Len(v)] \notin Blanks
  <2>1. v # <<>> /\ v[1] \notin Blanks /\ v[Len(v)] \notin Blanks
    BY DEF Plain
  <2> QED BY <2>1
<1>2. c \in Characters /\ "=" \in Characters /\ c \notin Blanks
  BY LiteralsAreCharacters DEF Literals, IsName, Blanks
<1>3. /\ b \in Seq(Characters) /\ Len(b) = Len(v) + 2 /\ b[1] = c /\ b[2] = "="
      /\ \A i \in 3 .. Len(v) + 2 : b[i] = v[i - 2]
  BY <1>2, PairFront
<1>4. Trim(b) = b
  <2>1. b[Len(b)] = v[Len(v)]
    <3>1. Len(v) + 2 \in 3 .. Len(v) + 2 /\ (Len(v) + 2) - 2 = Len(v)
      BY <1>1
    <3> QED BY <1>3, <3>1
  <2>2. Len(b) # 0
    BY <1>1, <1>3
  <2>3. b # <<>>
    BY <2>2
  <2>4. b[1] \notin Blanks /\ b[Len(b)] \notin Blanks
    BY <1>1, <1>2, <1>3, <2>1
  <2> QED BY <1>3, <2>3, <2>4, TrimSelf
<1>5. Min(Equals(b)) = 2
  <2>1. Len(b) >= 2
    BY <1>1, <1>3
  <2>2. Reads(b, c)
    BY <1>3, <2>1, FrontReads
  <2> QED BY <2>2 DEF Reads
<1>6. SubSeq(b, 3, Len(b)) = v
  <2> DEFINE x == SubSeq(b, 3, Len(b))
  <2>1. 3 \in Nat /\ 3 >= 1 /\ Len(b) \in Int /\ Len(b) <= Len(b) /\ 3 <= Len(b)
    BY <1>1, <1>3
  <2>2. x \in Seq(Characters) /\ Slice(x, b, 3, Len(b))
    BY <1>3, <2>1, SliceIs
  <2> HIDE DEF x
  <2>3. Len(b) - 3 + 1 = Len(v)
    BY <1>1, <1>3
  <2>4. Len(x) = Len(v) /\ \A i \in 1 .. Len(v) : x[i] = b[3 + i - 1]
    BY <2>1, <2>2, <2>3 DEF Slice
  <2>5. \A i \in 1 .. Len(v) : 3 + i - 1 \in 3 .. Len(v) + 2 /\ (3 + i - 1) - 2 = i
    BY <1>1
  <2>6. \A i \in 1 .. Len(x) : x[i] = v[i]
    BY <1>3, <2>4, <2>5
  <2>7. x = v
    BY <2>2, <2>4, <2>6, SameSequence
  <2> QED BY <2>7 DEF x
<1>7. StripComment(v) = v /\ Trim(v) = v
  BY <1>1, PlainUncut, TrimSelf
<1>8. Value(b) = v
  <2>1. 2 + 1 = 3
    OBVIOUS
  <2>2. Value(b) = Trim(StripComment(SubSeq(b, 3, Len(b))))
    BY <1>5, <2>1 DEF Value
  <2> QED BY <1>6, <1>7, <2>2
<1> QED BY <1>4, <1>8

LEMMA FixedArePlain ==
    /\ Plain(<<"1">>) /\ Plain(<<"ntap-c0">>)
    /\ \A f \in Fields : Plain(Usual[f])
<1>1. ASSUME NEW c, c \notin {" ", NL, "#", ";"} PROVE Plain(<<c>>)
  <2> DEFINE v == <<c>>
  <2>1. v # <<>> /\ Len(v) = 1 /\ v[1] = c /\ DOMAIN v = {1}
    OBVIOUS
  <2> HIDE DEF v
  <2>2. Plain(v)
    BY <1>1, <2>1 DEF Plain, Chars, Blanks
  <2> QED BY <2>2 DEF v
<1>2. Plain(<<"host", ":", "1">>)
  <2> DEFINE v == <<"host", ":", "1">>
  <2>1. v # <<>> /\ Len(v) = 3 /\ v[1] = "host" /\ v[2] = ":" /\ v[3] = "1" /\ DOMAIN v = 1 .. 3
    OBVIOUS
  <2>2. \A i \in 1 .. 3 : i = 1 \/ i = 2 \/ i = 3
    OBVIOUS
  <2> HIDE DEF v
  <2>3. \A i \in DOMAIN v : v[i] \notin {" ", NL, "#", ";"}
    BY <2>1, <2>2 DEF NL
  <2>4. v[1] \notin Blanks /\ v[Len(v)] \notin Blanks
    BY <2>1 DEF Blanks, NL
  <2>5. Chars(v, {NL}) = {} /\ Chars(v, {"#", ";"}) = {}
    BY <2>3 DEF Chars
  <2>6. Plain(v)
    BY <2>1, <2>4, <2>5 DEF Plain
  <2> QED BY <2>6 DEF v
<1>3. /\ Plain(<<"1">>) /\ Plain(<<"ntap-c0">>) /\ Plain(<<"user">>) /\ Plain(<<"secret">>)
      /\ Plain(<<"tap">>)
  BY <1>1 DEF NL
<1>4. /\ Usual.server_addr = <<"host", ":", "1">> /\ Usual.username = <<"user">>
      /\ Usual.password = <<"secret">> /\ Usual.network_id = <<"1">> /\ Usual.tap_name = <<"tap">>
  BY DEF Usual
<1>5. ASSUME NEW f \in Fields PROVE Plain(Usual[f])
  <2>1. \/ f = "server_addr" \/ f = "username" \/ f = "password" \/ f = "network_id"
        \/ f = "tap_name"
    BY DEF Fields
  <2> QED BY <1>2, <1>3, <1>4, <2>1
<1> QED BY <1>3, <1>5

(* The lines of the fields *)
LEMMA FieldLines == \A f \in Fields : \E j \in 2 .. 6 : Name(j) = f
<1>1. /\ Name(2) = "server_addr" /\ Name(3) = "username" /\ Name(4) = "password"
      /\ Name(5) = "network_id" /\ Name(6) = "tap_name"
  BY DEF Name
<1> QED BY <1>1 DEF Fields

LEMMA FieldUsed ==
    ASSUME Typed, WindowFits, NEW n \in 1 .. 12, UpTo(n), NEW j \in 2 .. 6, j < n,
           Plain(Written(Name(j)))
    PROVE  Used(Name(j)) = Written(Name(j))
<1>1. j \in EntryAt /\ j \in 1 .. 11
  BY DEF EntryAt
<1>2. ValueAt(j) = Written(Name(j))
  BY DEF ValueAt
<1>3. IsName(Name(j))
  BY <1>1, NamesAreNames
<1>4. ValueAt(j) \in Seq(Characters) /\ Body(j) = <<Name(j), "=">> \o ValueAt(j)
  BY <1>1, ValueFacts, BodyFacts
<1>5. Got(j) = Written(Name(j))
  BY <1>2, <1>3, <1>4, PlainRead DEF Got
<1>6. KeyOf(j) = <<<<"client">>, <<Name(j)>>>>
  BY DEF KeyOf, Sec
<1>7. KeyOf(j) \in DOMAIN entries /\ entries[KeyOf(j)] = Got(j)
  <2>1. KeyOf(j) \in Keys(n)
    BY <1>1 DEF Keys
  <2> QED BY <1>1, <2>1 DEF UpTo, HasAbove
<1> QED BY <1>5, <1>6, <1>7 DEF Used

(* What the other fields hold is written as it is. *)
LEMMA OthersWritten ==
    \A f \in Fields : f # field => Written(f) = Usual[f] /\ Plain(Written(f))
<1> SUFFICES ASSUME NEW f \in Fields, f # field
             PROVE  Written(f) = Usual[f] /\ Plain(Written(f))
  OBVIOUS
<1>1. InField(f) = Usual[f]
  BY DEF InField
<1>2. Plain(Usual[f]) /\ Usual[f] # <<>> /\ Usual[f] \in Seq(Characters)
  BY FixedArePlain, UsualType DEF Plain
<1>3. Written(f) = Scrub(Usual[f])
  BY <1>1, <1>2 DEF Written
<1>4. Scrub(Usual[f]) = Usual[f]
  BY <1>2, PlainUnscrubbed
<1> QED BY <1>2, <1>3, <1>4

LEMMA AllWithin == Here(12) => UpTo(12)
<1>1. Keys(12) \subseteq Keys(12 + 1)
  <2>1. \A j \in EntryAt : j < 12 + 1
    BY DEF EntryAt
  <2> QED BY <2>1 DEF Keys
<1> QED BY <1>1 DEF Here, UpTo

LEMMA ApartWhenRead == WindowFits /\ WindowInv => FieldsStayApart
<1> SUFFICES ASSUME WindowFits, WindowInv, edits = <<>>, whole # <<>>, stored = whole
             PROVE  /\ status # "error"
                    /\ status \in {"ok", "refused"} =>
                         /\ \A f \in Fields \ {field} : Used(f) = Usual[f]
                         /\ Cardinality(DOMAIN entries) = 8
  BY DEF FieldsStayApart
<1>1. Progress /\ Typed
  BY DEF WindowInv
<1>2. status # "error"
  BY <1>1 DEF Progress
<1>3. ASSUME status \in {"ok", "refused"}
      PROVE  /\ \A f \in Fields \ {field} : Used(f) = Usual[f]
             /\ Cardinality(DOMAIN entries) = 8
  <2>1. Here(12) /\ UpTo(12)
    BY <1>1, <1>3, AllWithin DEF Progress
  <2>2. Cardinality(DOMAIN entries) = 8
    BY <2>1, EightKeys DEF Here
  <2>3. ASSUME NEW f \in Fields \ {field} PROVE Used(f) = Usual[f]
    <3>1. PICK j \in 2 .. 6 : Name(j) = f
      BY FieldLines
    <3>2. Written(f) = Usual[f] /\ Plain(Written(f))
      BY OthersWritten
    <3>3. j < 12 /\ 12 \in 1 .. 12
      OBVIOUS
    <3>4. Used(Name(j)) = Written(Name(j))
      BY <1>1, <2>1, <3>1, <3>2, <3>3, FieldUsed
    <3> QED BY <3>1, <3>2, <3>4
  <2> QED BY <2>2, <2>3
<1> QED BY <1>2, <1>3

LEMMA KeptWhenRead == WindowFits /\ WindowInv => PlainIsKept
<1> SUFFICES ASSUME WindowFits, WindowInv, edits = <<>>, stored = whole, status = "ok"
             PROVE  /\ Plain(typed) => Used(field) = typed
                    /\ typed = <<>> =>
                         Used(field) = IF field = "tap_name" THEN <<"ntap-c0">> ELSE <<"1">>
  BY DEF PlainIsKept
<1>1. /\ Progress /\ Typed /\ field \in Fields
      /\ typed = <<>> => field \in {"network_id", "tap_name"}
  BY DEF WindowInv
<1>2. UpTo(12)
  BY <1>1, AllWithin DEF Progress
<1>3. PICK j \in 2 .. 6 : Name(j) = field
  BY <1>1, FieldLines
<1>4. Plain(Written(field)) => Used(field) = Written(field)
  <2>1. j < 12 /\ 12 \in 1 .. 12
    OBVIOUS
  <2> QED BY <1>1, <1>2, <1>3, <2>1, FieldUsed
<1>5. InField(field) = typed
  BY DEF InField
<1>6. ASSUME Plain(typed) PROVE Used(field) = typed
  <2>1. typed # <<>> /\ typed \in Seq(Characters)
    BY <1>1, <1>6 DEF Plain, Typed
  <2>2. Written(field) = Scrub(typed)
    BY <1>5, <2>1 DEF Written
  <2>3. Scrub(typed) = typed
    BY <1>6, <2>1, PlainUnscrubbed
  <2> QED BY <1>4, <1>6, <2>2, <2>3
<1>7. ASSUME typed = <<>>
      PROVE  Used(field) = IF field = "tap_name" THEN <<"ntap-c0">> ELSE <<"1">>
  <2>1. Written(field) = IF field = "tap_name" THEN <<"ntap-c0">> ELSE <<"1">>
    BY <1>1, <1>5, <1>7 DEF Written
  <2> QED BY <1>4, <2>1, FixedArePlain
<1> QED BY <1>6, <1>7

LEMMA AccountWhenRead == WindowFits /\ WindowInv => CutFileKeepsAccount
<1> SUFFICES ASSUME WindowFits, WindowInv, edits = <<>>, status = "ok",
                    NEW f \in Fields \ {field, "tap_name"}
             PROVE  Used(f) = Usual[f]
  BY DEF CutFileKeepsAccount
<1>1. Progress /\ Typed
  BY DEF WindowInv
<1>2. PICK n \in 1 .. 12 : UpTo(n)
  BY <1>1 DEF Progress
<1>3. n >= 6
  <2>1. Used("tap_name") # <<>>
    BY <1>1 DEF Progress, Acceptable
  <2>2. KeyOf(6) = <<<<"client">>, <<"tap_name">>>> /\ 6 \in EntryAt
    BY DEF KeyOf, Sec, Name, EntryAt
  <2>3. KeyOf(6) \in Keys(n + 1)
    BY <1>2, <2>1, <2>2 DEF Used, UpTo
  <2>4. 6 < n + 1
    BY <2>2, <2>3, NamesDiffer DEF Keys
  <2> QED BY <2>4
<1>4. PICK j \in 2 .. 6 : Name(j) = f
  BY FieldLines
<1>5. j < n
  <2>1. Name(6) = "tap_name"
    BY DEF Name
  <2>2. j # 6
    BY <1>4, <2>1
  <2> QED BY <1>3, <2>2
<1>6. Written(f) = Usual[f] /\ Plain(Written(f))
  BY OthersWritten
<1>7. Used(Name(j)) = Written(Name(j))
  BY <1>1, <1>2, <1>4, <1>5, <1>6, FieldUsed
<1> QED BY <1>4, <1>6, <1>7

LEMMA WindowTold == ASSUME WindowFits PROVE Spec => []WindowInv
<1>1. Init => WindowInv
  BY WindowStart
<1>2. WindowInv /\ [Next]_vars => WindowInv'
  BY WindowStep
<1> QED BY <1>1, <1>2, PTL DEF Spec

(* Whatever is typed in one field of the window, line ends included, the    *)
(* file that connect_worker writes is read without error, with its eight    *)
(* keys, and the other fields are used as they were typed.                  *)
THEOREM OthersStayAsTyped == ASSUME WindowFits PROVE Spec => []FieldsStayApart
  BY WindowTold, ApartWhenRead, PTL

(* A plain text in a field is what the client uses, of whatever length, and *)
(* a network or a name that was left empty is its default.                  *)
THEOREM PlainIsUsed == ASSUME WindowFits PROVE Spec => []PlainIsKept
  BY WindowTold, KeptWhenRead, PTL

(* Wherever the disk cut the file, the client runs with it only when the    *)
(* server, the account and the network are those that were typed.           *)
THEOREM CutFileIsSafe == ASSUME WindowFits PROVE Spec => []CutFileKeepsAccount
  BY WindowTold, AccountWhenRead, PTL
=============================================================================
