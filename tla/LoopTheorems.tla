---------------------------- MODULE LoopTheorems ----------------------------
(***************************************************************************)
(* Facts about loops over the indices 0 .. L of a table, written as        *)
(* functions that are defined by recursion on the index: how the policies  *)
(* select an interface, and how ElementsAt goes through a list.  Induction *)
(* is stated for a set of indices instead of a formula.                    *)
(***************************************************************************)
EXTENDS Places, WellFoundedInduction, TLAPS

\* A set that holds an index whenever it holds the one before holds them all:
\* otherwise there is a least one that it lacks.
LEMMA IndexInduction ==
    ASSUME NEW L \in Nat, NEW T,
           \A m \in 0 .. L : m = 0 \/ m - 1 \in T => m \in T
    PROVE  \A m \in 0 .. L : m \in T
  <1> SUFFICES ASSUME \E m \in 0 .. L : m \notin T PROVE FALSE
    OBVIOUS
  <1> DEFINE Lacking == {m \in 0 .. L : m \notin T}
  <1>1. Lacking \subseteq Nat /\ Lacking # {}
    OBVIOUS
  <1>2. PICK x \in Lacking : \A y \in Lacking : ~(<<y, x>> \in OpToRel(<, Nat))
    <2> HIDE DEF Lacking
    <2> QED BY <1>1, NatLessThanWellFounded, WFMin
  <1>3. x \in 0 .. L /\ x \notin T
    BY <1>2
  <1>4. x - 1 \in Lacking
    BY <1>3
  <1>5. x - 1 \in Nat /\ x \in Nat /\ x - 1 < x
    BY <1>1, <1>3, <1>4
  <1>6. <<x - 1, x>> \in OpToRel(<, Nat)
    BY <1>5 DEF OpToRel
  <1> QED BY <1>2, <1>4, <1>6

\* g holds the results of a loop that starts from s and makes step[<<r, n>>] of
\* its result r at index n.
Results(g, L, S, s, step) ==
    /\ g \in [-1 .. L -> S] /\ g[-1] = s
    /\ \A n \in 0 .. L : g[n] = step[<<g[n - 1], n>>]

\* Every such loop has results.
LEMMA LoopResults ==
    ASSUME NEW L \in Nat, NEW S, NEW s \in S,
           NEW step \in [S \X (0 .. L) -> S]
    PROVE  \E g : Results(g, L, S, s, step)
  <1> USE DEF Results
  <1> DEFINE Runs(g, m) == Results(g, m, S, s, step)
             T == {m \in 0 .. L : \E g : Runs(g, m)}
  <1>1. ASSUME NEW m \in 0 .. L, m = 0 \/ m - 1 \in T PROVE m \in T
    <2>1. \E g : Runs(g, m - 1)
      <3>1. CASE m = 0
        <4> DEFINE g == [n \in -1 .. m - 1 |-> s]
        <4>1. g \in [-1 .. m - 1 -> S] /\ g[-1] = s
          BY <3>1
        <4>2. 0 .. m - 1 = {}
          BY <3>1
        <4> HIDE DEF g
        <4> QED BY <4>1, <4>2
      <3>2. CASE m # 0
        BY <1>1, <3>2
      <3> QED BY <3>1, <3>2
    <2>2. PICK g : Runs(g, m - 1)
      BY <2>1
    <2> DEFINE c == step[<<g[m - 1], m>>]
               h == [n \in -1 .. m |-> IF n = m THEN c ELSE g[n]]
    <2>3. c \in S
      BY <2>2
    <2>4. /\ \A n \in -1 .. m - 1 : h[n] = g[n]
          /\ h[m] = c
      OBVIOUS
    <2>5. h \in [-1 .. m -> S]
      <3> HIDE DEF c
      <3>1. \A n \in -1 .. m : n # m => n \in -1 .. m - 1
        OBVIOUS
      <3> QED BY <2>2, <2>3, <3>1
    <2> HIDE DEF h
    <2>6. Runs(h, m)
      <3>1. h[-1] = s
        BY <2>2, <2>4
      <3>2. ASSUME NEW n \in 0 .. m PROVE h[n] = step[<<h[n - 1], n>>]
        <4>1. n - 1 \in -1 .. m - 1 /\ h[n - 1] = g[n - 1]
          BY <2>4
        <4>2. CASE n = m
          BY <2>4, <4>1, <4>2
        <4>3. CASE n # m
          <5>1. n \in 0 .. m - 1 /\ n \in -1 .. m - 1
            BY <4>3
          <5> QED BY <2>2, <2>4, <4>1, <5>1
        <4> QED BY <4>2, <4>3
      <3> QED BY <2>5, <3>1, <3>2
    <2> QED BY <2>6
  <1> HIDE DEF T
  <1>2. L \in T
    BY <1>1, IndexInduction
  <1> QED BY <1>2 DEF T

-----------------------------------------------------------------------------
(***************************************************************************)
(* The elements of a sequence at some of its places.                       *)
(***************************************************************************)
\* g holds what ElementsAt has kept of s after each element.
Keeps(g, s, K) ==
    /\ DOMAIN g = 0 .. Len(s) /\ g[0] = <<>>
    /\ \A n \in 1 .. Len(s) :
          g[n] = IF n \in K THEN Append(g[n - 1], s[n]) ELSE g[n - 1]

LEMMA KeepsUnique ==
    ASSUME NEW A, NEW s \in Seq(A), NEW K, NEW g, NEW h,
           Keeps(g, s, K), Keeps(h, s, K)
    PROVE  g[Len(s)] = h[Len(s)]
  <1> DEFINE L == Len(s)
             T == {n \in 0 .. L : g[n] = h[n]}
  <1>1. L \in Nat
    OBVIOUS
  <1>2. ASSUME NEW m \in 0 .. L, m = 0 \/ m - 1 \in T PROVE m \in T
    <2>1. CASE m = 0
      BY <2>1 DEF Keeps
    <2>2. CASE m # 0
      <3>1. m \in 1 .. L /\ g[m - 1] = h[m - 1]
        BY <1>2, <2>2
      <3> QED BY <3>1 DEF Keeps
    <2> QED BY <2>1, <2>2
  <1> HIDE DEF L
  <1>3. \A m \in 0 .. L : m \in T
    <2> HIDE DEF T
    <2> QED BY <1>1, <1>2, IndexInduction
  <1> QED BY <1>1, <1>3 DEF L

\* ElementsAt(s, K) is the last of what any such function holds.
LEMMA ElementsAtIs ==
    ASSUME NEW A, NEW s \in Seq(A), NEW K
    PROVE  /\ \E g : /\ Keeps(g, s, K) /\ g \in [0 .. Len(s) -> Seq(A)]
                     /\ ElementsAt(s, K) = g[Len(s)]
           /\ \A g : Keeps(g, s, K) => ElementsAt(s, K) = g[Len(s)]
  <1> DEFINE L == Len(s)
             step == [c \in Seq(A) \X (0 .. L) |->
                        IF c[2] # 0 /\ c[2] \in K THEN Append(c[1], s[c[2]]) ELSE c[1]]
  <1>1. L \in Nat /\ <<>> \in Seq(A)
    OBVIOUS
  <1>2. step \in [Seq(A) \X (0 .. L) -> Seq(A)]
    OBVIOUS
  <1>3. PICK g : Results(g, L, Seq(A), <<>>, step)
    <2> HIDE DEF L, step
    <2> QED BY <1>1, <1>2, LoopResults
  <1> DEFINE k == [n \in 0 .. L |-> g[n]]
  <1>4. \A n \in 0 .. L : /\ k[n] = g[n] /\ k[n] \in Seq(A) /\ g[n - 1] \in Seq(A)
                          /\ g[n] = IF n # 0 /\ n \in K THEN Append(g[n - 1], s[n])
                                    ELSE g[n - 1]
    <2> SUFFICES ASSUME NEW n \in 0 .. L
                 PROVE  /\ k[n] = g[n] /\ k[n] \in Seq(A) /\ g[n - 1] \in Seq(A)
                        /\ g[n] = IF n # 0 /\ n \in K THEN Append(g[n - 1], s[n])
                                  ELSE g[n - 1]
      OBVIOUS
    <2>1. g \in [-1 .. L -> Seq(A)] /\ n \in -1 .. L /\ n - 1 \in -1 .. L
      BY <1>3 DEF Results
    <2>2. g[n] = step[<<g[n - 1], n>>]
      BY <1>3 DEF Results
    <2> QED BY <2>1, <2>2
  <1>5. g[-1] = <<>>
    BY <1>3 DEF Results
  <1>6. k \in [0 .. L -> Seq(A)] /\ Keeps(k, s, K)
    <2>1. k[0] = <<>>
      BY <1>1, <1>4, <1>5
    <2>2. \A n \in 1 .. L : k[n] = IF n \in K THEN Append(k[n - 1], s[n]) ELSE k[n - 1]
      BY <1>4
    <2>3. k \in [0 .. L -> Seq(A)]
      BY <1>4
    <2> HIDE DEF k
    <2> QED BY <2>1, <2>2, <2>3 DEF Keeps
  <1> DEFINE Body(f) == [n \in 0 .. Len(s) |->
                           IF n = 0 THEN <<>>
                           ELSE IF n \in K THEN Append(f[n - 1], s[n]) ELSE f[n - 1]]
             kept == CHOOSE f : f = Body(f)
  <1>7. k = Body(k)
    <2>1. \A n \in 0 .. Len(s) : Body(k)[n] = k[n]
      <3> SUFFICES ASSUME NEW n \in 0 .. Len(s) PROVE Body(k)[n] = k[n]
        OBVIOUS
      <3> HIDE DEF k
      <3>1. CASE n = 0
        <4>1. k[0] = <<>>
          BY <1>6 DEF Keeps
        <4> QED BY <3>1, <4>1
      <3>2. CASE n # 0
        <4>1. n \in 1 .. Len(s)
          BY <3>2
        <4>2. k[n] = IF n \in K THEN Append(k[n - 1], s[n]) ELSE k[n - 1]
          BY <1>6, <4>1 DEF Keeps
        <4> QED BY <3>2, <4>2
      <3> QED BY <3>1, <3>2
    <2>2. Body(k) \in [0 .. Len(s) -> Seq(A)] /\ k \in [0 .. Len(s) -> Seq(A)]
      <3> HIDE DEF k
      <3>1. Body(k) = [n \in 0 .. Len(s) |-> Body(k)[n]]
        OBVIOUS
      <3> HIDE DEF Body
      <3> QED BY <1>6, <2>1, <3>1
    <2> HIDE DEF k, Body
    <2> QED BY <2>1, <2>2
  <1>8. kept = Body(kept)
    <2> HIDE DEF k, Body
    <2> QED BY <1>7
  <1>9. Keeps(kept, s, K)
    <2>1. /\ DOMAIN Body(kept) = 0 .. Len(s)
          /\ \A n \in 0 .. Len(s) : Body(kept)[n] =
                IF n = 0 THEN <<>>
                ELSE IF n \in K THEN Append(kept[n - 1], s[n]) ELSE kept[n - 1]
      <3> HIDE DEF kept
      <3> QED OBVIOUS
    <2> HIDE DEF kept, Body
    <2>2. Len(s) \in Nat
      OBVIOUS
    <2>3. DOMAIN kept = 0 .. Len(s) /\ kept[0] = <<>>
      BY <1>8, <2>1, <2>2
    <2>4. ASSUME NEW n \in 1 .. Len(s)
          PROVE  kept[n] = IF n \in K THEN Append(kept[n - 1], s[n]) ELSE kept[n - 1]
      <3>1. n \in 0 .. Len(s) /\ n # 0
        OBVIOUS
      <3> QED BY <1>8, <2>1, <3>1
    <2> QED BY <2>3, <2>4 DEF Keeps
  <1>10. ElementsAt(s, K) = kept[Len(s)]
    BY DEF ElementsAt
  <1> HIDE DEF kept, k, L
  <1>11. \A h : Keeps(h, s, K) => ElementsAt(s, K) = h[Len(s)]
    BY <1>9, <1>10, KeepsUnique
  <1> QED BY <1>6, <1>11 DEF L

\* The elements kept are the elements of s at the places K, and no others.
LEMMA ElementsAtRange ==
    ASSUME NEW A, NEW s \in Seq(A), NEW K
    PROVE  /\ ElementsAt(s, K) \in Seq(A)
           /\ \A j \in DOMAIN ElementsAt(s, K) :
                 \E k \in K : k \in DOMAIN s /\ ElementsAt(s, K)[j] = s[k]
           /\ \A k \in K : k \in DOMAIN s =>
                 \E j \in DOMAIN ElementsAt(s, K) : ElementsAt(s, K)[j] = s[k]
  <1>1. PICK g : /\ Keeps(g, s, K) /\ g \in [0 .. Len(s) -> Seq(A)]
                 /\ ElementsAt(s, K) = g[Len(s)]
    BY ElementsAtIs
  <1> DEFINE L == Len(s)
             From(c, n) == \A j \in 1 .. Len(c) : \E k \in K : k \in 1 .. n /\ c[j] = s[k]
             Has(c, n) == \A k \in K : k \in 1 .. n => \E j \in 1 .. Len(c) : c[j] = s[k]
             T == {n \in 0 .. L : From(g[n], n) /\ Has(g[n], n)}
  <1>2. L \in Nat
    OBVIOUS
  <1>3. ASSUME NEW m \in 0 .. L, m = 0 \/ m - 1 \in T PROVE m \in T
    <2>1. CASE m = 0
      <3>1. g[0] = <<>> /\ 1 .. 0 = {}
        BY <1>1 DEF Keeps
      <3> QED BY <2>1, <3>1
    <2>2. CASE m # 0
      <3> DEFINE c == g[m - 1]
                 d == g[m]
      <3>1. /\ m - 1 \in 0 .. L /\ m \in 1 .. L /\ c \in Seq(A) /\ s[m] \in A
            /\ From(c, m - 1) /\ Has(c, m - 1)
        BY <1>1, <1>3, <2>2
      <3>2. d = IF m \in K THEN Append(c, s[m]) ELSE c
        BY <1>1, <3>1 DEF Keeps
      <3> HIDE DEF c, d
      <3>3. CASE m \in K
        <4>1. /\ d \in Seq(A) /\ Len(d) = Len(c) + 1 /\ d[Len(c) + 1] = s[m]
              /\ \A j \in 1 .. Len(c) : d[j] = c[j]
          BY <3>1, <3>2, <3>3
        <4>2. Len(c) \in Nat
          BY <3>1
        <4>3. From(d, m)
          <5> SUFFICES ASSUME NEW j \in 1 .. Len(d)
                       PROVE  \E k \in K : k \in 1 .. m /\ d[j] = s[k]
            OBVIOUS
          <5>1. CASE j = Len(c) + 1
            BY <3>1, <3>3, <4>1, <5>1
          <5>2. CASE j # Len(c) + 1
            <6>1. j \in 1 .. Len(c)
              BY <4>1, <4>2, <5>2
            <6>2. PICK k \in K : k \in 1 .. m - 1 /\ c[j] = s[k]
              BY <3>1, <6>1
            <6>3. k \in 1 .. m
              BY <3>1, <6>2
            <6>4. d[j] = s[k]
              BY <4>1, <6>1, <6>2
            <6> QED BY <6>3, <6>4
          <5> QED BY <5>1, <5>2
        <4>4. Has(d, m)
          <5> SUFFICES ASSUME NEW k \in K, k \in 1 .. m
                       PROVE  \E j \in 1 .. Len(d) : d[j] = s[k]
            OBVIOUS
          <5>1. CASE k = m
            BY <4>1, <4>2, <5>1
          <5>2. CASE k # m
            <6>1. k \in 1 .. m - 1
              BY <3>1, <5>2
            <6>2. PICK j \in 1 .. Len(c) : c[j] = s[k]
              BY <3>1, <6>1
            <6> QED BY <4>1, <4>2, <6>2
          <5> QED BY <5>1, <5>2
        <4> QED BY <4>3, <4>4 DEF d
      <3>4. CASE m \notin K
        <4>1. From(d, m)
          BY <3>1, <3>2, <3>4
        <4>2. Has(d, m)
          <5> SUFFICES ASSUME NEW k \in K, k \in 1 .. m
                       PROVE  \E j \in 1 .. Len(d) : d[j] = s[k]
            OBVIOUS
          <5>1. k \in 1 .. m - 1
            BY <3>1, <3>4
          <5> QED BY <3>1, <3>2, <3>4, <5>1
        <4> QED BY <4>1, <4>2 DEF d
      <3> QED BY <3>3, <3>4
    <2> QED BY <2>1, <2>2
  <1> HIDE DEF T, L
  <1>4. \A m \in 0 .. L : m \in T
    BY <1>2, <1>3, IndexInduction
  <1>5. From(g[L], L) /\ Has(g[L], L) /\ g[L] \in Seq(A)
    <2>1. L \in T
      BY <1>2, <1>4
    <2>2. From(g[L], L) /\ Has(g[L], L)
      BY <2>1 DEF T
    <2> QED BY <1>1, <1>2, <2>2 DEF L
  <1> DEFINE e == ElementsAt(s, K)
  <1>6. From(e, Len(s)) /\ Has(e, Len(s)) /\ e \in Seq(A)
    BY <1>1, <1>5 DEF L
  <1>7. DOMAIN e = 1 .. Len(e) /\ DOMAIN s = 1 .. Len(s)
    <2> HIDE DEF e
    <2> QED BY <1>6
  <1> HIDE DEF e
  <1>8. /\ e \in Seq(A)
        /\ \A j \in DOMAIN e : \E k \in K : k \in DOMAIN s /\ e[j] = s[k]
        /\ \A k \in K : k \in DOMAIN s => \E j \in DOMAIN e : e[j] = s[k]
    BY <1>6, <1>7
  <1> QED BY <1>8 DEF e

\* Without repetitions in s there are none in what is kept.
LEMMA ElementsAtOnce ==
    ASSUME NEW A, NEW s \in Seq(A), NEW K,
           \A i, j \in DOMAIN s : s[i] = s[j] => i = j
    PROVE  \A i, j \in DOMAIN ElementsAt(s, K) :
              ElementsAt(s, K)[i] = ElementsAt(s, K)[j] => i = j
  <1>1. PICK g : /\ Keeps(g, s, K) /\ g \in [0 .. Len(s) -> Seq(A)]
                 /\ ElementsAt(s, K) = g[Len(s)]
    BY ElementsAtIs
  <1> DEFINE L == Len(s)
             From(c, n) == \A j \in 1 .. Len(c) : \E k \in 1 .. n : c[j] = s[k]
             Once(c) == \A i, j \in 1 .. Len(c) : c[i] = c[j] => i = j
             T == {n \in 0 .. L : From(g[n], n) /\ Once(g[n])}
  <1>2. L \in Nat
    OBVIOUS
  <1>3. ASSUME NEW m \in 0 .. L, m = 0 \/ m - 1 \in T PROVE m \in T
    <2>1. CASE m = 0
      <3>1. g[0] = <<>>
        BY <1>1 DEF Keeps
      <3> QED BY <2>1, <3>1
    <2>2. CASE m # 0
      <3> DEFINE c == g[m - 1]
                 d == g[m]
      <3>1. /\ m - 1 \in 0 .. L /\ m \in 1 .. L /\ c \in Seq(A) /\ s[m] \in A
            /\ From(c, m - 1) /\ Once(c)
        BY <1>1, <1>3, <2>2
      <3>2. d = IF m \in K THEN Append(c, s[m]) ELSE c
        BY <1>1, <3>1 DEF Keeps
      <3> HIDE DEF c, d
      <3>3. CASE m \in K
        <4>1. /\ Len(d) = Len(c) + 1 /\ d[Len(c) + 1] = s[m]
              /\ \A j \in 1 .. Len(c) : d[j] = c[j]
          BY <3>1, <3>2, <3>3
        <4>2. Len(c) \in Nat
          BY <3>1
        <4>3. \A j \in 1 .. Len(d) : j = Len(c) + 1 \/ j \in 1 .. Len(c)
          BY <4>1, <4>2
        <4>4. \A j \in 1 .. Len(c) : d[j] # s[m]
          <5> SUFFICES ASSUME NEW j \in 1 .. Len(c), c[j] = s[m] PROVE FALSE
            BY <4>1
          <5>1. PICK k \in 1 .. m - 1 : c[j] = s[k]
            BY <3>1
          <5>2. k \in DOMAIN s /\ m \in DOMAIN s /\ k # m
            BY <3>1 DEF L
          <5> QED BY <5>1, <5>2
        <4>5. Once(d)
          BY <3>1, <4>1, <4>3, <4>4
        <4>6. From(d, m)
          <5> SUFFICES ASSUME NEW j \in 1 .. Len(d) PROVE \E k \in 1 .. m : d[j] = s[k]
            OBVIOUS
          <5>1. CASE j = Len(c) + 1
            BY <3>1, <4>1, <5>1
          <5>2. CASE j \in 1 .. Len(c)
            <6>1. PICK k \in 1 .. m - 1 : c[j] = s[k]
              BY <3>1, <5>2
            <6> QED BY <3>1, <4>1, <5>2, <6>1
          <5> QED BY <4>3, <5>1, <5>2
        <4> QED BY <4>5, <4>6 DEF d
      <3>4. CASE m \notin K
        <4>1. From(d, m) /\ Once(d)
          BY <3>1, <3>2, <3>4
        <4> QED BY <4>1 DEF d
      <3> QED BY <3>3, <3>4
    <2> QED BY <2>1, <2>2
  <1> HIDE DEF T, L
  <1>4. \A m \in 0 .. L : m \in T
    BY <1>2, <1>3, IndexInduction
  <1>5. Once(g[L]) /\ g[L] \in Seq(A)
    <2>1. L \in T
      BY <1>2, <1>4
    <2>2. Once(g[L])
      BY <2>1 DEF T
    <2> QED BY <1>1, <1>2, <2>2 DEF L
  <1> QED BY <1>1, <1>5 DEF L

LEMMA ElementsAtEmpty ==
    ASSUME NEW K
    PROVE  ElementsAt(<<>>, K) = <<>>
  <1>1. <<>> \in Seq({}) /\ Len(<<>>) = 0
    OBVIOUS
  <1>2. PICK g : /\ Keeps(g, <<>>, K) /\ ElementsAt(<<>>, K) = g[Len(<<>>)]
    BY <1>1, ElementsAtIs
  <1> QED BY <1>1, <1>2 DEF Keeps

\* K and M have the same places up to L.
SameUpTo(L, K, M) == \A n \in 1 .. L : n \in K <=> n \in M

\* One more element is kept at the end or makes no difference.
LEMMA ElementsAtAppend ==
    ASSUME NEW A, NEW s \in Seq(A), NEW x \in A, NEW K, NEW M,
           SameUpTo(Len(s), K, M)
    PROVE  ElementsAt(Append(s, x), M) =
              IF Len(s) + 1 \in M THEN Append(ElementsAt(s, K), x)
              ELSE ElementsAt(s, K)
  <1>1. PICK g : /\ Keeps(g, s, K) /\ g \in [0 .. Len(s) -> Seq(A)]
                 /\ ElementsAt(s, K) = g[Len(s)]
    BY ElementsAtIs
  <1> DEFINE L == Len(s)
             t == Append(s, x)
             last == IF L + 1 \in M THEN Append(g[L], x) ELSE g[L]
             h == [n \in 0 .. L + 1 |-> IF n = L + 1 THEN last ELSE g[n]]
  <1>2. /\ L \in Nat /\ t \in Seq(A) /\ Len(t) = L + 1 /\ t[L + 1] = x
        /\ \A n \in 1 .. L : t[n] = s[n]
    OBVIOUS
  <1> HIDE DEF t, last
  <1>3. /\ DOMAIN h = 0 .. L + 1 /\ h[L + 1] = last
        /\ \A n \in 0 .. L : h[n] = g[n]
    BY <1>2
  <1> HIDE DEF h
  <1>4. Keeps(h, t, M)
    <2>1. h[0] = <<>>
      BY <1>1, <1>2, <1>3 DEF Keeps
    <2>2. ASSUME NEW n \in 1 .. L + 1
          PROVE  h[n] = IF n \in M THEN Append(h[n - 1], t[n]) ELSE h[n - 1]
      <3>1. n - 1 \in 0 .. L
        BY <1>2
      <3>2. h[n - 1] = g[n - 1]
        BY <1>3, <3>1
      <3>3. CASE n = L + 1
        <4>1. n - 1 = L
          BY <1>2, <3>3
        <4>2. h[n] = IF n \in M THEN Append(g[n - 1], x) ELSE g[n - 1]
          BY <1>3, <3>3, <4>1 DEF last
        <4> QED BY <1>2, <3>2, <3>3, <4>2
      <3>4. CASE n # L + 1
        <4>1. n \in 1 .. L /\ n \in 0 .. L
          BY <1>2, <3>4
        <4>2. g[n] = IF n \in K THEN Append(g[n - 1], s[n]) ELSE g[n - 1]
          BY <1>1, <4>1 DEF Keeps
        <4>3. h[n] = g[n] /\ t[n] = s[n] /\ (n \in K <=> n \in M)
          BY <1>2, <1>3, <4>1 DEF SameUpTo
        <4> QED BY <3>2, <4>2, <4>3
      <3> QED BY <3>3, <3>4
    <2> QED BY <1>2, <1>3, <2>1, <2>2 DEF Keeps
  <1>5. ElementsAt(t, M) = h[Len(t)]
    BY <1>2, <1>4, ElementsAtIs
  <1> HIDE DEF L
  <1>6. ElementsAt(t, M) = last
    BY <1>2, <1>3, <1>5
  <1> QED BY <1>1, <1>6 DEF last, t, L

\* t with the places M is s with the places K, but for element j of s.
CutFrom(t, M, s, K, j) ==
    /\ Len(t) = Len(s) - 1
    /\ \A n \in 1 .. Len(t) :
          IF n < j THEN t[n] = s[n] /\ (n \in M <=> n \in K)
          ELSE t[n] = s[n + 1] /\ (n \in M <=> n + 1 \in K)

\* Without an element that is not kept the same elements are kept.
LEMMA ElementsAtCut ==
    ASSUME NEW A, NEW s \in Seq(A), NEW j \in 1 .. Len(s), NEW K, j \notin K,
           NEW t \in Seq(A), NEW M, CutFrom(t, M, s, K, j)
    PROVE  ElementsAt(t, M) = ElementsAt(s, K)
  <1>1. PICK g : /\ Keeps(g, s, K) /\ g \in [0 .. Len(s) -> Seq(A)]
                 /\ ElementsAt(s, K) = g[Len(s)]
    BY ElementsAtIs
  <1> DEFINE L == Len(s)
             h == [n \in 0 .. Len(t) |-> IF n < j THEN g[n] ELSE g[n + 1]]
  <1>2. /\ L \in Nat /\ Len(t) = L - 1 /\ j \in 1 .. L
    BY DEF CutFrom
  <1>3. /\ DOMAIN h = 0 .. Len(t)
        /\ \A n \in 0 .. Len(t) : h[n] = IF n < j THEN g[n] ELSE g[n + 1]
    OBVIOUS
  <1> HIDE DEF h
  <1>4. ASSUME NEW n \in 1 .. L
        PROVE  g[n] = IF n \in K THEN Append(g[n - 1], s[n]) ELSE g[n - 1]
    BY <1>1 DEF Keeps
  <1>5. g[j] = g[j - 1]
    BY <1>2, <1>4
  <1>6. Keeps(h, t, M)
    <2>1. h[0] = <<>>
      BY <1>1, <1>2, <1>3 DEF Keeps
    <2>2. ASSUME NEW n \in 1 .. Len(t)
          PROVE  h[n] = IF n \in M THEN Append(h[n - 1], t[n]) ELSE h[n - 1]
      <3>1. n \in 0 .. Len(t) /\ n - 1 \in 0 .. Len(t) /\ n \in 1 .. L
            /\ n + 1 \in 1 .. L
        BY <1>2
      <3>2. CASE n < j
        <4>1. h[n] = g[n] /\ h[n - 1] = g[n - 1]
          BY <1>2, <1>3, <3>1, <3>2
        <4>2. t[n] = s[n] /\ (n \in M <=> n \in K)
          BY <3>2 DEF CutFrom
        <4> QED BY <1>4, <3>1, <4>1, <4>2
      <3>3. CASE ~(n < j)
        <4>1. h[n] = g[n + 1] /\ h[n - 1] = g[n]
          <5>1. CASE n = j
            <6>1. n - 1 < j
              BY <1>2, <5>1
            <6> QED BY <1>3, <1>5, <3>1, <3>3, <5>1, <6>1
          <5>2. CASE n # j
            <6>1. ~(n - 1 < j) /\ n - 1 + 1 = n
              BY <1>2, <3>3, <5>2
            <6> QED BY <1>3, <3>1, <3>3, <6>1
          <5> QED BY <5>1, <5>2
        <4>2. t[n] = s[n + 1] /\ (n \in M <=> n + 1 \in K)
          BY <3>3 DEF CutFrom
        <4>3. g[n + 1] = IF n + 1 \in K THEN Append(g[n + 1 - 1], s[n + 1]) ELSE g[n + 1 - 1]
          BY <1>4, <3>1
        <4>4. n + 1 - 1 = n
          BY <1>2
        <4> QED BY <4>1, <4>2, <4>3, <4>4
      <3> QED BY <3>2, <3>3
    <2> QED BY <1>3, <2>1, <2>2 DEF Keeps
  <1>7. ElementsAt(t, M) = h[Len(t)]
    BY <1>6, ElementsAtIs
  <1>8. h[Len(t)] = g[L]
    <2>1. Len(t) \in 0 .. Len(t) /\ Len(t) + 1 = L
      BY <1>2
    <2>2. CASE Len(t) < j
      <3>1. L = j /\ Len(t) = j - 1
        BY <1>2, <2>2
      <3> QED BY <1>3, <1>5, <2>1, <2>2, <3>1
    <2>3. CASE ~(Len(t) < j)
      BY <1>3, <2>1, <2>3
    <2> QED BY <2>2, <2>3
  <1> QED BY <1>1, <1>7, <1>8

=============================================================================
