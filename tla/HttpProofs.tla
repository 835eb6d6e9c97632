------------------------------ MODULE HttpProofs ------------------------------
(* Proofs about HttpResponse: the parsers on every response, cut into reads anywhere. *)
EXTENDS HttpResponse, SequenceTheorems, WellFoundedInduction, TLAPS

-----------------------------------------------------------------------------
(* Induction and recursion over the natural numbers, for sets and functions *)

\* A set of numbers that has 0 and the successors of its members has them all.
LEMMA Induction ==
    ASSUME NEW T, 0 \in T, \A n \in Nat : n \in T => n + 1 \in T
    PROVE  \A n \in Nat : n \in T
<1> DEFINE U == Nat \ T
<1>1. \A x, y \in Nat : <<y, x>> \in OpToRel(<, Nat) <=> y < x
  BY Zenon DEF OpToRel
<1>2. SUFFICES ASSUME U # {} PROVE FALSE
  OBVIOUS
<1>3. PICK x \in U : \A y \in U : ~ (<<y, x>> \in OpToRel(<, Nat))
  BY <1>2, NatLessThanWellFounded, WFMin
<1>4. x \in Nat /\ x # 0 /\ \A y \in U : ~ (y < x)
  BY <1>1, <1>3
<1>5. x - 1 \in Nat /\ x - 1 < x /\ x = (x - 1) + 1
  BY <1>4
<1>6. x - 1 \in T
  BY <1>4, <1>5
<1> QED BY <1>3, <1>5, <1>6

\* What is true of lo, and of n + 1 up to hi when it is true of n, is true from lo to hi.
LEMMA IntervalInduction ==
    ASSUME NEW lo \in Nat, NEW hi \in Nat, NEW T, lo \in T,
           \A n \in lo..(hi - 1) : n \in T => n + 1 \in T
    PROVE  \A n \in lo..hi : n \in T
<1> DEFINE U == {k \in Nat : lo + k <= hi => lo + k \in T}
<1>1. 0 \in U
  OBVIOUS
<1>2. ASSUME NEW k \in Nat, k \in U PROVE k + 1 \in U
  <2>1. SUFFICES ASSUME lo + (k + 1) <= hi PROVE lo + (k + 1) \in T
    OBVIOUS
  <2>2. lo + k \in lo..(hi - 1) /\ lo + k \in T
    BY <1>2, <2>1
  <2>3. (lo + k) + 1 \in T
    BY <2>2
  <2>4. (lo + k) + 1 = lo + (k + 1)
    OBVIOUS
  <2> QED BY <2>3, <2>4
<1>3. \A k \in Nat : k \in U
  <2> HIDE DEF U
  <2> QED BY <1>1, <1>2, Induction
<1>4. ASSUME NEW n \in lo..hi PROVE n \in T
  <2>1. n - lo \in Nat /\ lo + (n - lo) = n /\ n <= hi
    OBVIOUS
  <2>2. n - lo \in U
    BY <1>3, <2>1
  <2> QED BY <2>1, <2>2
<1> QED BY <1>4

\* f iterates F, a function of a number and a value, from c on
Iterates(f, S, c, F) == f \in [Nat -> S] /\ f[0] = c /\ \A n \in Nat : f[n + 1] = F[<<n, f[n]>>]

\* Every such F can be iterated from any value of its domain.
LEMMA Recursion ==
    ASSUME NEW S, NEW c \in S, NEW F \in [Nat \X S -> S]
    PROVE  \E f : Iterates(f, S, c, F)
<1> DEFINE Is(g, n) == g \in [0..n -> S] /\ g[0] = c /\ \A k \in 0..(n - 1) : g[k + 1] = F[<<k, g[k]>>]
           T == {n \in Nat : \E g : Is(g, n)}
<1>1. 0 \in T
  <2>1. Is([k \in 0..0 |-> c], 0)
    OBVIOUS
  <2> QED BY <2>1
<1>2. ASSUME NEW n \in Nat, n \in T PROVE n + 1 \in T
  <2>1. PICK g : Is(g, n)
    BY <1>2
  <2> DEFINE h == [k \in 0..(n + 1) |-> IF k <= n THEN g[k] ELSE F[<<n, g[n]>>]]
  <2>2. g[n] \in S /\ F[<<n, g[n]>>] \in S
    BY <2>1
  <2>3. h \in [0..(n + 1) -> S] /\ h[0] = c
    BY <2>1, <2>2
  <2>4. ASSUME NEW k \in 0..n PROVE h[k + 1] = F[<<k, h[k]>>]
    <3>1. CASE k = n
      BY <3>1
    <3>2. CASE k # n
      <4>1. k \in 0..(n - 1) /\ k + 1 \in 0..n /\ h[k] = g[k] /\ h[k + 1] = g[k + 1]
        BY <3>2
      <4> QED BY <2>1, <4>1
    <3> QED BY <3>1, <3>2
  <2>5. Is(h, n + 1)
    <3>1. (n + 1) - 1 = n
      OBVIOUS
    <3> HIDE DEF h
    <3> QED BY <2>3, <2>4, <3>1
  <2> HIDE DEF Is, h
  <2> QED BY <2>5
<1>3. \A n \in Nat : \E g : Is(g, n)
  <2> HIDE DEF Is
  <2>1. \A n \in Nat : n \in T
    <3> HIDE DEF T
    <3> QED BY <1>1, <1>2, Induction
  <2> QED BY <2>1
<1>4. ASSUME NEW n \in Nat, NEW m \in Nat, NEW g, NEW h, Is(g, n), Is(h, m)
      PROVE  \A k \in Nat : k <= n /\ k <= m => g[k] = h[k]
  <2> DEFINE V == {k \in Nat : k <= n /\ k <= m => g[k] = h[k]}
  <2>1. 0 \in V
    BY <1>4
  <2>2. ASSUME NEW k \in Nat, k \in V PROVE k + 1 \in V
    <3>1. SUFFICES ASSUME k + 1 <= n, k + 1 <= m PROVE g[k + 1] = h[k + 1]
      OBVIOUS
    <3>2. k \in 0..(n - 1) /\ k \in 0..(m - 1) /\ g[k] = h[k]
      BY <2>2, <3>1
    <3> QED BY <1>4, <3>2
  <2>3. \A k \in Nat : k \in V
    <3> HIDE DEF V
    <3> QED BY <2>1, <2>2, Induction
  <2> QED BY <2>3
<1> DEFINE A(n) == CHOOSE g : Is(g, n)
           f == [n \in Nat |-> A(n)[n]]
<1>5. \A n \in Nat : Is(A(n), n)
  <2> HIDE DEF Is
  <2> QED BY <1>3
<1> HIDE DEF A
<1>6. f \in [Nat -> S] /\ f[0] = c
  BY <1>5
<1>7. ASSUME NEW n \in Nat PROVE f[n + 1] = F[<<n, f[n]>>]
  <2>1. Is(A(n), n) /\ Is(A(n + 1), n + 1)
    BY <1>5
  <2>2. A(n + 1)[n] = A(n)[n]
    <3> HIDE DEF Is
    <3>1. n \in Nat /\ n + 1 \in Nat /\ n <= n /\ n <= n + 1
      OBVIOUS
    <3> QED BY <1>4, <2>1, <3>1
  <2>3. A(n + 1)[n + 1] = F[<<n, A(n + 1)[n]>>]
    BY <2>1
  <2> QED BY <2>2, <2>3
<1> HIDE DEF f
<1> QED BY <1>6, <1>7 DEF Iterates
-----------------------------------------------------------------------------
(* FlattenSeq *)

\* The first k sequences of s, one after the other
Upto(s, k) == FlattenSeq([i \in 1..k |-> s[i]])

\* FlattenSeq is concatenation from the left.
LEMMA FlattenUpto ==
    ASSUME NEW T, NEW n \in Nat, NEW s \in [1..n -> Seq(T)]
    PROVE  /\ Upto(s, 0) = <<>>
           /\ \A k \in 0..n : Upto(s, k) \in Seq(T)
           /\ \A k \in 1..n : Upto(s, k) = Upto(s, k - 1) \o s[k]
<1> DEFINE X == Seq(T)
           F == [x \in Nat \X X |-> IF x[1] + 1 \in 1..n THEN x[2] \o s[x[1] + 1] ELSE x[2]]
<1>0. <<>> \in X /\ (\A u, v \in X : u \o v \in X) /\ (\A v \in X : <<>> \o v = v)
  OBVIOUS
<1>1. s \in [1..n -> X]
  OBVIOUS
<1> HIDE DEF X
<1>2. F \in [Nat \X X -> X]
  <2>1. ASSUME NEW x \in Nat \X X PROVE (IF x[1] + 1 \in 1..n THEN x[2] \o s[x[1] + 1] ELSE x[2]) \in X
    <3>1. x[2] \in X /\ x[1] \in Nat
      OBVIOUS
    <3>2. x[1] + 1 \in 1..n => s[x[1] + 1] \in X
      BY <1>1
    <3> QED BY <1>0, <3>1, <3>2
  <2> QED BY <2>1
<1>3. PICK h \in [Nat -> X] : h[0] = <<>> /\ \A m \in Nat : h[m + 1] = F[<<m, h[m]>>]
  <2> HIDE DEF F
  <2> DEFINE e == <<>>
  <2>1. e \in X
    BY <1>0
  <2> HIDE DEF e
  <2>2. \E f : Iterates(f, X, e, F)
    BY <1>2, <2>1, Recursion
  <2> QED BY <2>2 DEF e, Iterates
<1>4. ASSUME NEW k \in 1..n
      PROVE  h[k] = h[k - 1] \o s[k] /\ h[k] \in X /\ h[k - 1] \in X /\ s[k] \in X
  <2>1. k - 1 \in Nat /\ (k - 1) + 1 = k /\ k \in Nat
    OBVIOUS
  <2>2. h[k - 1] \in X /\ h[k] \in X /\ s[k] \in X
    BY <1>1, <2>1
  <2>3. h[(k - 1) + 1] = F[<<k - 1, h[k - 1]>>]
    <3> HIDE DEF F
    <3> QED BY <1>3, <2>1
  <2>4. F[<<k - 1, h[k - 1]>>] = h[k - 1] \o s[(k - 1) + 1]
    BY <2>1, <2>2
  <2> QED BY <2>1, <2>2, <2>3, <2>4
<1> HIDE DEF F
<1>5. ASSUME NEW k \in 1..n PROVE Upto(s, k) = h[k]
  <2> DEFINE t == [i \in 1..k |-> s[i]]
             Body(g) == [i \in 1..k |-> IF i = 1 THEN t[i] ELSE g[i - 1] \o t[i]]
             g0 == [i \in 1..k |-> h[i]]
             g1 == CHOOSE g : g = Body(g)
  <2>1. Len(t) = k /\ k # 0
    OBVIOUS
  <2>2. FlattenSeq(t) = g1[k]
    BY <2>1 DEF FlattenSeq
  <2>a. 1 \in 1..n /\ h[1] = s[1]
    <3>1. 1 \in 1..n /\ 1 - 1 = 0
      OBVIOUS
    <3>2. h[1] = h[0] \o s[1] /\ s[1] \in X
      BY <1>4, <3>1
    <3> QED BY <1>0, <1>3, <3>1, <3>2
  <2>3. g0 = Body(g0)
    <3>1. ASSUME NEW i \in 1..k PROVE h[i] = (IF i = 1 THEN t[i] ELSE g0[i - 1] \o t[i])
      <4>1. i \in 1..n /\ t[i] = s[i]
        OBVIOUS
      <4>2. CASE i = 1
        BY <2>a, <4>1, <4>2
      <4>3. CASE i # 1
        <5>1. i - 1 \in 1..k /\ g0[i - 1] = h[i - 1]
          BY <4>3
        <5> QED BY <1>4, <4>1, <4>3, <5>1
      <4> QED BY <4>2, <4>3
    <3> QED BY <3>1
  <2>4. g1 = Body(g1)
    <3> HIDE DEF Body, g0
    <3> QED BY <2>3
  <2> HIDE DEF g1
  <2>5. g1[1] = h[1]
    BY <2>4, <2>a
  <2>6. ASSUME NEW i \in 1..(k - 1), g1[i] = h[i] PROVE g1[i + 1] = h[i + 1]
    <3>1. i + 1 \in 1..k /\ i + 1 # 1 /\ (i + 1) - 1 = i /\ i + 1 \in 1..n
      OBVIOUS
    <3>2. g1[i + 1] = g1[i] \o s[i + 1]
      BY <2>4, <3>1
    <3>3. h[i + 1] = h[i] \o s[i + 1]
      BY <1>4, <3>1
    <3> QED BY <2>6, <3>2, <3>3
  <2> DEFINE V == {i \in Nat : g1[i] = h[i]}
  <2>7. 1 \in V /\ \A i \in 1..(k - 1) : i \in V => i + 1 \in V
    <3>1. \A i \in 1..(k - 1) : i \in Nat /\ i + 1 \in Nat
      OBVIOUS
    <3> QED BY <2>5, <2>6, <3>1
  <2>8. k \in V
    <3> HIDE DEF V
    <3>1. 1 \in Nat /\ k \in Nat /\ k \in 1..k
      OBVIOUS
    <3>2. \A i \in 1..k : i \in V
      BY <2>7, <3>1, IntervalInduction
    <3> QED BY <3>1, <3>2
  <2> QED BY <2>2, <2>8 DEF Upto
<1>6. Upto(s, 0) = <<>>
  <2>1. [i \in 1..0 |-> s[i]] = <<>>
    OBVIOUS
  <2>2. FlattenSeq(<<>>) = <<>>
    BY DEF FlattenSeq
  <2> QED BY <2>1, <2>2 DEF Upto
<1>7. \A k \in 0..n : Upto(s, k) = h[k] /\ h[k] \in X
  <2>1. \A k \in 0..n : k \in Nat /\ (k = 0 \/ k \in 1..n)
    OBVIOUS
  <2> QED BY <1>3, <1>5, <1>6, <2>1
<1>8. ASSUME NEW k \in 1..n PROVE Upto(s, k) = Upto(s, k - 1) \o s[k]
  <2>1. k \in 0..n /\ k - 1 \in 0..n
    OBVIOUS
  <2> QED BY <1>4, <1>7, <2>1
<1> QED BY <1>6, <1>7, <1>8 DEF X

\* Part k of s, in the first m parts put together
Placed(s, k, m) ==
    /\ Len(Upto(s, k)) = Len(Upto(s, k - 1)) + Len(s[k])
    /\ Len(Upto(s, k)) <= Len(Upto(s, m))
    /\ \A j \in 1..Len(s[k]) : Upto(s, m)[Len(Upto(s, k - 1)) + j] = s[k][j]

\* Where the parts are in the whole.
LEMMA Places ==
    ASSUME NEW T, NEW n \in Nat, NEW s \in [1..n -> Seq(T)], NEW k \in 1..n
    PROVE  \A m \in k..n : Placed(s, k, m)
<1> DEFINE u(m) == Upto(s, m)
           a == u(k - 1)
           c == s[k]
<1>1. \A m \in 0..n : u(m) \in Seq(T)
  BY FlattenUpto
<1>2. \A m \in 1..n : u(m) = u(m - 1) \o s[m] /\ s[m] \in Seq(T)
  BY FlattenUpto
<1> HIDE DEF u
<1>3. a \in Seq(T) /\ c \in Seq(T) /\ u(k) = a \o c /\ k \in Nat
  <2>1. k - 1 \in 0..n /\ k \in Nat
    OBVIOUS
  <2> QED BY <1>1, <1>2, <2>1
<1> HIDE DEF a, c
<1>4. Len(u(k)) = Len(a) + Len(c) /\ Len(a) \in Nat /\ Len(c) \in Nat
  BY <1>3
<1> DEFINE P(m) == Len(u(k)) <= Len(u(m)) /\ \A j \in 1..Len(c) : u(m)[Len(a) + j] = c[j]
<1>5. P(k)
  <2>1. ASSUME NEW j \in 1..Len(c) PROVE (a \o c)[Len(a) + j] = c[j]
    BY <1>3, <1>4
  <2>2. Len(u(k)) <= Len(u(k))
    BY <1>4
  <2> QED BY <1>3, <2>1, <2>2
<1>6. ASSUME NEW m \in k..(n - 1), P(m) PROVE P(m + 1)
  <2>1. m + 1 \in 1..n /\ (m + 1) - 1 = m /\ m \in 0..n /\ m + 1 \in Nat
    BY <1>3
  <2>2. u(m + 1) = u(m) \o s[m + 1] /\ u(m) \in Seq(T) /\ s[m + 1] \in Seq(T)
    BY <1>1, <1>2, <2>1
  <2> DEFINE v == u(m)
             w == s[m + 1]
  <2>3. Len(v) \in Nat /\ Len(v) <= Len(v \o w) /\ Len(v \o w) \in Nat /\ \A i \in 1..Len(v) : (v \o w)[i] = v[i]
    <3> HIDE DEF v, w
    <3>1. v \in Seq(T) /\ w \in Seq(T)
      BY <2>2 DEF v, w
    <3> QED BY <3>1
  <2>4. Len(u(k)) <= Len(u(m + 1))
    <3> HIDE DEF v, w
    <3>1. Len(u(k)) <= Len(v) /\ u(m + 1) = v \o w
      BY <1>6, <2>2 DEF v, w
    <3> QED BY <1>4, <2>3, <3>1
  <2>5. ASSUME NEW j \in 1..Len(c) PROVE u(m + 1)[Len(a) + j] = c[j]
    <3>1. Len(u(k)) <= Len(v) /\ u(m + 1) = v \o w /\ v[Len(a) + j] = c[j]
      BY <1>6, <2>2
    <3> HIDE DEF v, w
    <3>2. Len(a) + j <= Len(u(k)) /\ j \in Nat /\ j > 0
      BY <1>4
    <3>3. Len(a) + j \in 1..Len(v)
      <4>1. Len(u(k)) \in Nat /\ Len(a) + j <= Len(v) /\ Len(a) + j \in Nat /\ Len(a) + j > 0
        BY <1>4, <2>3, <3>1, <3>2
      <4> QED BY <2>3, <4>1
    <3> QED BY <2>3, <3>1, <3>3
  <2> QED BY <2>4, <2>5
<1> HIDE DEF P
<1> DEFINE V == {m \in Nat : P(m)}
<1>7. k \in V /\ \A m \in k..(n - 1) : m \in V => m + 1 \in V
  <2>1. \A m \in k..(n - 1) : m \in Nat /\ m + 1 \in Nat
    BY <1>3
  <2> QED BY <1>3, <1>5, <1>6, <2>1
<1>8. \A m \in k..n : P(m)
  <2>1. \A m \in k..n : m \in V
    <3> HIDE DEF V
    <3> QED BY <1>3, <1>7, IntervalInduction
  <2> QED BY <2>1
<1>9. ASSUME NEW m \in k..n PROVE Placed(s, k, m)
  <2>1. P(m)
    BY <1>8
  <2> QED BY <1>4, <2>1 DEF Placed, u, a, c, P
<1> QED BY <1>9
-----------------------------------------------------------------------------
(* The head automaton, byte by byte *)

Segment == [off: Nat, len: Nat]
KeyValue == [key: Segment, value: Segment]
HeadCache == [status: HeadStatus, start: Nat, code: Segment, kv_queue: Seq(KeyValue),
              content_len: Nat, gzip_flag: BOOLEAN, chunk_flag: BOOLEAN]

\* The segments of a queue end before offset n
QueueIn(q, n) == \A i \in DOMAIN q : q[i].key.off + q[i].key.len <= n /\ q[i].value.off + q[i].value.len <= n

CacheIn(hc, n) == hc.start <= n /\ hc.code.off + hc.code.len <= n /\ QueueIn(hc.kv_queue, n)

\* The states of the loop: what has been recorded lies before b->pos
HeadState ==
    {s \in [hc: HeadCache, pos: Nat, kv: BOOLEAN, rc: {"more", "parsed", "error"}] : CacheIn(s.hc, s.pos)}

\* A queue that gets an element, or whose last value is set, stays one.
LEMMA QueueType ==
    ASSUME NEW q \in Seq(KeyValue), NEW n \in Nat, QueueIn(q, n), NEW seg \in Segment,
           seg.off + seg.len <= n, NEW kv
    PROVE  /\ QueueIn(q, n + 1)
           /\ Append(q, [key |-> seg, value |-> NoSegment]) \in Seq(KeyValue)
           /\ QueueIn(Append(q, [key |-> seg, value |-> NoSegment]), n + 1)
           /\ Value(q, kv, seg) \in Seq(KeyValue) /\ QueueIn(Value(q, kv, seg), n + 1)
<1> DEFINE x == [key |-> seg, value |-> NoSegment]
           a == Append(q, x)
           v == Value(q, kv, seg)
<1>1. \A i \in DOMAIN q : q[i] \in KeyValue /\ q[i].key \in Segment /\ q[i].value \in Segment
  <2>1. \A i \in DOMAIN q : q[i] \in KeyValue
    OBVIOUS
  <2> QED BY <2>1 DEF KeyValue
<1>2. QueueIn(q, n + 1)
  <2>1. ASSUME NEW i \in DOMAIN q
        PROVE  q[i].key.off + q[i].key.len <= n + 1 /\ q[i].value.off + q[i].value.len <= n + 1
    BY SMTT(40), <1>1 DEF QueueIn, Segment
  <2> QED BY <2>1 DEF QueueIn
<1>3. x \in KeyValue /\ x.key = seg /\ x.value.off + x.value.len <= n + 1
  BY DEF KeyValue, Segment, NoSegment
<1>4. seg.off + seg.len <= n + 1
  BY DEF Segment
<1> HIDE DEF x
<1>5. a \in Seq(KeyValue) /\ DOMAIN a = 1..(Len(q) + 1) /\ a[Len(q) + 1] = x
      /\ \A i \in DOMAIN q : a[i] = q[i]
  BY <1>3
<1>6. QueueIn(a, n + 1)
  <2>1. ASSUME NEW i \in DOMAIN a
        PROVE  a[i].key.off + a[i].key.len <= n + 1 /\ a[i].value.off + a[i].value.len <= n + 1
    <3>1. i = Len(q) + 1 \/ i \in DOMAIN q
      BY <1>5
    <3>2. CASE i = Len(q) + 1
      BY <1>3, <1>4, <1>5, <3>2
    <3>3. CASE i \in DOMAIN q
      BY <1>2, <1>5, <3>3 DEF QueueIn
    <3> QED BY <3>1, <3>2, <3>3
  <2> QED BY <2>1 DEF QueueIn
<1>7. v \in Seq(KeyValue) /\ DOMAIN v = DOMAIN q
      /\ \A i \in DOMAIN q : v[i] = IF i = Len(q) THEN [q[i] EXCEPT !.value = seg] ELSE q[i]
  <2>1. DOMAIN v = DOMAIN q /\ \A i \in DOMAIN q : v[i] = IF i = Len(q) THEN [q[i] EXCEPT !.value = seg] ELSE q[i]
    BY DEF Value
  <2>2. \A i \in DOMAIN q : v[i] \in KeyValue
    BY <1>1, <2>1 DEF KeyValue
  <2>3. DOMAIN q = 1..Len(q) /\ Len(q) \in Nat
    OBVIOUS
  <2>4. v = [i \in 1..Len(q) |-> v[i]]
    BY <2>1, <2>3 DEF Value
  <2> QED BY <2>1, <2>2, <2>3, <2>4
<1> HIDE DEF v
<1>8. QueueIn(v, n + 1)
  <2>1. ASSUME NEW i \in DOMAIN q
        PROVE  v[i].key.off + v[i].key.len <= n + 1 /\ v[i].value.off + v[i].value.len <= n + 1
    <3>1. CASE i = Len(q)
      <4>1. v[i].key = q[i].key /\ v[i].value = seg
        BY <1>1, <1>7, <3>1 DEF KeyValue
      <4> QED BY <1>2, <1>4, <4>1 DEF QueueIn
    <3>2. CASE i # Len(q)
      BY <1>2, <1>7, <3>2 DEF QueueIn
    <3> QED BY <3>1, <3>2
  <2> QED BY <1>7, <2>1 DEF QueueIn
<1> QED BY <1>2, <1>5, <1>6, <1>7, <1>8 DEF x, v

\* What one byte does, case by case of the switch.
LEMMA StepIs ==
    ASSUME NEW s, NEW c, s.rc = "more"
    PROVE  /\ c = SP /\ s.hc.status = "VSR_START" => HeadStep(s, c) = Moved(s, New(s, "VSR_VER"))
           /\ c = SP /\ s.hc.status = "VSR_VER" =>
                HeadStep(s, c) = Moved(s, [New(s, "VSR_STAT") EXCEPT !.code = Piece(s)])
           /\ c = SP /\ s.hc.status = "KEY_DONE" => HeadStep(s, c) = Moved(s, New(s, "KEY_DONE"))
           /\ c = SP /\ s.hc.status \notin {"VSR_START", "VSR_VER", "KEY_DONE"} => HeadStep(s, c) = Moved(s, s.hc)
           /\ c = COLON /\ s.hc.status = "LINE_DONE" =>
                HeadStep(s, c) = [Moved(s, [New(s, "KEY_DONE") EXCEPT
                                    !.kv_queue = Append(@, [key |-> Piece(s), value |-> NoSegment])])
                                  EXCEPT !.kv = TRUE]
           /\ c = COLON /\ s.hc.status # "LINE_DONE" => HeadStep(s, c) = Moved(s, s.hc)
           /\ c = CR /\ s.hc.status = "KEY_DONE" =>
                HeadStep(s, c) = [Moved(s, [Go(s, "LINE_HALF") EXCEPT !.kv_queue = Value(@, s.kv, Piece(s))])
                                  EXCEPT !.kv = FALSE]
           /\ c = CR /\ s.hc.status = "LINE_DONE" => HeadStep(s, c) = Moved(s, Go(s, "HEAD_HALF"))
           /\ c = CR /\ s.hc.status = "VSR_STAT" => HeadStep(s, c) = Moved(s, New(s, "VSR_REAS"))
           /\ c = LF /\ s.hc.status \in {"LINE_HALF", "VSR_REAS"} => HeadStep(s, c) = Moved(s, New(s, "LINE_DONE"))
           /\ c = LF /\ s.hc.status = "HEAD_HALF" =>
                HeadStep(s, c) = [Moved(s, Go(s, "HEAD_DONE")) EXCEPT !.rc = "parsed"]
           /\ Refused(s.hc.status, c) => HeadStep(s, c) = [Moved(s, s.hc) EXCEPT !.rc = "error"]
           /\ c \notin {SP, COLON, CR, LF} => HeadStep(s, c) = Moved(s, s.hc)
<1> USE DEF HeadStep, HeadByte, Refused, SP, COLON, CR, LF
<1> QED BY Zenon

Returned == {"more", "parsed", "error"}

\* What the parts of a state are.
LEMMA StateOf ==
    ASSUME NEW s \in HeadState
    PROVE  /\ s.hc \in HeadCache /\ s.hc.status \in HeadStatus /\ s.hc.start \in Nat /\ s.hc.code \in Segment
           /\ s.hc.kv_queue \in Seq(KeyValue) /\ s.hc.content_len \in Nat
           /\ s.pos \in Nat /\ s.kv \in BOOLEAN /\ s.rc \in Returned
           /\ CacheIn(s.hc, s.pos) /\ s.hc.start <= s.pos
           /\ s.hc.code.off + s.hc.code.len <= s.pos /\ QueueIn(s.hc.kv_queue, s.pos)
<1>1. s \in [hc: HeadCache, pos: Nat, kv: BOOLEAN, rc: Returned] /\ CacheIn(s.hc, s.pos)
  BY DEF HeadState, Returned
<1>2. s.hc \in HeadCache
  BY <1>1
<1>3. s.hc.status \in HeadStatus /\ s.hc.start \in Nat /\ s.hc.code \in Segment
      /\ s.hc.kv_queue \in Seq(KeyValue) /\ s.hc.content_len \in Nat
  BY <1>2 DEF HeadCache
<1> QED BY <1>1, <1>2, <1>3 DEF CacheIn

\* Two states with the same parts are the same.
LEMMA StateEqual ==
    ASSUME NEW s \in HeadState, NEW t \in HeadState, s.hc = t.hc, s.pos = t.pos, s.kv = t.kv, s.rc = t.rc
    PROVE  s = t
BY DEF HeadState

\* A record of four fields with one or two of them set.
LEMMA RecordWith ==
    ASSUME NEW H, NEW P, NEW K, NEW R, NEW s \in [hc: H, pos: P, kv: K, rc: R],
           NEW x \in H, NEW y \in P, NEW k \in K, NEW r \in R
    PROVE  /\ [s EXCEPT !.pos = y, !.hc = x] \in [hc: H, pos: P, kv: K, rc: R]
           /\ [s EXCEPT !.pos = y, !.hc = x].hc = x /\ [s EXCEPT !.pos = y, !.hc = x].pos = y
           /\ [s EXCEPT !.pos = y, !.hc = x].kv = s.kv /\ [s EXCEPT !.pos = y, !.hc = x].rc = s.rc
           /\ [s EXCEPT !.kv = k] \in [hc: H, pos: P, kv: K, rc: R]
           /\ [s EXCEPT !.kv = k].hc = s.hc /\ [s EXCEPT !.kv = k].pos = s.pos
           /\ [s EXCEPT !.kv = k].kv = k /\ [s EXCEPT !.kv = k].rc = s.rc
           /\ [s EXCEPT !.rc = r] \in [hc: H, pos: P, kv: K, rc: R]
           /\ [s EXCEPT !.rc = r].hc = s.hc /\ [s EXCEPT !.rc = r].pos = s.pos
           /\ [s EXCEPT !.rc = r].kv = s.kv /\ [s EXCEPT !.rc = r].rc = r
OBVIOUS

\* Moving on with a head cache that records only bytes up to the current one.
LEMMA MovedType ==
    ASSUME NEW s \in HeadState, NEW h \in HeadCache, CacheIn(h, s.pos + 1)
    PROVE  /\ Moved(s, h) \in HeadState
           /\ Moved(s, h).hc = h /\ Moved(s, h).pos = s.pos + 1
           /\ Moved(s, h).kv = s.kv /\ Moved(s, h).rc = s.rc
<1>1. s \in [hc: HeadCache, pos: Nat, kv: BOOLEAN, rc: Returned]
  BY DEF HeadState, Returned
<1> DEFINE y == s.pos + 1
           K == BOOLEAN
           t == [s EXCEPT !.pos = y, !.hc = h]
<1>2. y \in Nat /\ s.kv \in K /\ s.rc \in Returned
  BY <1>1
<1>3. Moved(s, h) = t
  BY <1>1 DEF Moved
<1>4. t \in [hc: HeadCache, pos: Nat, kv: K, rc: Returned] /\ t.hc = h /\ t.pos = y /\ t.kv = s.kv /\ t.rc = s.rc
  <2> HIDE DEF y, K
  <2> QED BY <1>1, <1>2, RecordWith DEF K
<1> HIDE DEF t, y
<1>5. t \in HeadState
  BY <1>4 DEF HeadState, Returned, y
<1> QED BY <1>3, <1>4, <1>5 DEF y

\* Setting kv or the result of the call.
LEMMA SetType ==
    ASSUME NEW s \in HeadState, NEW k \in BOOLEAN, NEW r \in Returned
    PROVE  /\ [s EXCEPT !.kv = k] \in HeadState /\ [s EXCEPT !.kv = k].hc = s.hc
           /\ [s EXCEPT !.kv = k].pos = s.pos /\ [s EXCEPT !.kv = k].rc = s.rc
           /\ [s EXCEPT !.rc = r] \in HeadState /\ [s EXCEPT !.rc = r].hc = s.hc
           /\ [s EXCEPT !.rc = r].pos = s.pos /\ [s EXCEPT !.rc = r].rc = r
<1> DEFINE K == BOOLEAN
           t == [s EXCEPT !.kv = k]
           u == [s EXCEPT !.rc = r]
<1>1. s \in [hc: HeadCache, pos: Nat, kv: K, rc: Returned] /\ CacheIn(s.hc, s.pos) /\ s.hc \in HeadCache /\ s.pos \in Nat
  BY DEF HeadState, Returned
<1>2. t \in [hc: HeadCache, pos: Nat, kv: K, rc: Returned] /\ t.hc = s.hc /\ t.pos = s.pos /\ t.rc = s.rc
      /\ u \in [hc: HeadCache, pos: Nat, kv: K, rc: Returned] /\ u.hc = s.hc /\ u.pos = s.pos /\ u.rc = r
  <2>1. k \in K
    OBVIOUS
  <2> HIDE DEF K
  <2> QED BY <1>1, <2>1, RecordWith
<1> HIDE DEF t, u
<1>3. t \in HeadState /\ u \in HeadState
  BY <1>1, <1>2 DEF HeadState, Returned
<1> QED BY <1>2, <1>3 DEF t, u
\* The head caches that a byte leads to.
LEMMA CacheType ==
    ASSUME NEW s \in HeadState, NEW st \in HeadStatus
    PROVE  /\ Piece(s) \in Segment /\ Piece(s).off + Piece(s).len <= s.pos
           /\ CacheIn(s.hc, s.pos + 1) /\ QueueIn(s.hc.kv_queue, s.pos + 1)
           /\ Go(s, st) \in HeadCache /\ CacheIn(Go(s, st), s.pos + 1)
           /\ Go(s, st).status = st /\ Go(s, st).start = s.hc.start /\ Go(s, st).code = s.hc.code
           /\ Go(s, st).kv_queue = s.hc.kv_queue
           /\ New(s, st) \in HeadCache /\ CacheIn(New(s, st), s.pos + 1)
           /\ New(s, st).status = st /\ New(s, st).start = s.pos + 1 /\ New(s, st).code = s.hc.code
           /\ New(s, st).kv_queue = s.hc.kv_queue
<1> DEFINE h == s.hc
           p == s.pos
           y == p + 1
           g == Go(s, st)
           n == New(s, st)
<1>1. h \in HeadCache /\ p \in Nat /\ h.start \in Nat /\ h.start <= p /\ h.code \in Segment
      /\ h.code.off + h.code.len <= p /\ h.kv_queue \in Seq(KeyValue) /\ QueueIn(h.kv_queue, p)
  BY StateOf
<1>2. Piece(s) \in Segment /\ Piece(s).off + Piece(s).len <= p
  BY <1>1 DEF Piece, Segment
<1>3. h.code.off + h.code.len <= y /\ h.start <= y /\ y <= y /\ y \in Nat
  BY <1>1 DEF Segment
<1>4. QueueIn(h.kv_queue, y)
  BY <1>1, <1>2, QueueType
<1>5. g = [h EXCEPT !.status = st] /\ n = [h EXCEPT !.status = st, !.start = y]
  BY DEF Go, New
<1> HIDE DEF h, g, n, y
<1>6. g \in HeadCache /\ g.status = st /\ g.start = h.start /\ g.code = h.code /\ g.kv_queue = h.kv_queue
  BY <1>1, <1>5 DEF HeadCache
<1>7. n \in HeadCache /\ n.status = st /\ n.start = y /\ n.code = h.code /\ n.kv_queue = h.kv_queue
  BY <1>1, <1>3, <1>5 DEF HeadCache
<1>8. CacheIn(h, y) /\ CacheIn(g, y) /\ CacheIn(n, y)
  BY <1>3, <1>4, <1>6, <1>7 DEF CacheIn
<1> QED BY <1>2, <1>4, <1>6, <1>7, <1>8 DEF h, g, n, y

\* A head cache with the status code recorded.
LEMMA CacheCode ==
    ASSUME NEW h \in HeadCache, NEW n \in Nat, CacheIn(h, n), NEW seg \in Segment, seg.off + seg.len <= n
    PROVE  /\ [h EXCEPT !.code = seg] \in HeadCache /\ CacheIn([h EXCEPT !.code = seg], n)
           /\ [h EXCEPT !.code = seg].status = h.status /\ [h EXCEPT !.code = seg].start = h.start
           /\ [h EXCEPT !.code = seg].code = seg /\ [h EXCEPT !.code = seg].kv_queue = h.kv_queue
<1> DEFINE g == [h EXCEPT !.code = seg]
<1>1. g \in HeadCache /\ g.status = h.status /\ g.start = h.start /\ g.code = seg /\ g.kv_queue = h.kv_queue
  BY DEF HeadCache
<1> HIDE DEF g
<1>2. CacheIn(g, n)
  BY <1>1 DEF CacheIn
<1> QED BY <1>1, <1>2 DEF g

\* A head cache with another queue.
LEMMA CacheQueue ==
    ASSUME NEW h \in HeadCache, NEW n \in Nat, CacheIn(h, n), NEW q \in Seq(KeyValue), QueueIn(q, n)
    PROVE  /\ [h EXCEPT !.kv_queue = q] \in HeadCache /\ CacheIn([h EXCEPT !.kv_queue = q], n)
           /\ [h EXCEPT !.kv_queue = q].status = h.status /\ [h EXCEPT !.kv_queue = q].start = h.start
           /\ [h EXCEPT !.kv_queue = q].code = h.code /\ [h EXCEPT !.kv_queue = q].kv_queue = q
<1> DEFINE k == [h EXCEPT !.kv_queue = q]
<1>1. k \in HeadCache /\ k.status = h.status /\ k.start = h.start /\ k.code = h.code /\ k.kv_queue = q
  BY DEF HeadCache
<1> HIDE DEF k
<1>2. CacheIn(k, n)
  BY <1>1 DEF CacheIn
<1> QED BY <1>1, <1>2 DEF k

\* A byte that is looked at is counted, and the state stays one of the loop's.  Only the last byte of
\* a head makes the head done, and then the call returns.
LEMMA StepType ==
    ASSUME NEW s \in HeadState, NEW c, s.rc = "more"
    PROVE  /\ HeadStep(s, c) \in HeadState
           /\ HeadStep(s, c).pos = s.pos + 1
           /\ HeadStep(s, c).rc = "parsed" => HeadStep(s, c).hc.status = "HEAD_DONE"
           /\ s.hc.status # "HEAD_DONE" /\ HeadStep(s, c).rc # "parsed" => HeadStep(s, c).hc.status # "HEAD_DONE"
           /\ s.hc.status = "HEAD_DONE" => HeadStep(s, c).rc # "parsed" /\ HeadStep(s, c).hc = s.hc
<1> DEFINE t == HeadStep(s, c)
           y == s.pos + 1
           Good(u) == /\ u \in HeadState /\ u.pos = y
                      /\ u.rc = "parsed" => u.hc.status = "HEAD_DONE"
                      /\ s.hc.status # "HEAD_DONE" /\ u.rc # "parsed" => u.hc.status # "HEAD_DONE"
                      /\ s.hc.status = "HEAD_DONE" => u.rc # "parsed" /\ u.hc = s.hc
<1>0. s.hc.status \in HeadStatus /\ s.hc \in HeadCache /\ s.pos \in Nat /\ y \in Nat
      /\ s.hc.kv_queue \in Seq(KeyValue) /\ QueueIn(s.hc.kv_queue, s.pos)
  BY StateOf
<1>1. ASSUME NEW h \in HeadCache, CacheIn(h, s.pos + 1), h = s.hc \/ {h.status, s.hc.status} \cap {"HEAD_DONE"} = {}
      PROVE  Good(Moved(s, h)) /\ \A k \in BOOLEAN : h # s.hc => Good([Moved(s, h) EXCEPT !.kv = k])
  <2> DEFINE m == Moved(s, h)
  <2>1. m \in HeadState /\ m.hc = h /\ m.pos = y /\ m.rc = "more"
    BY <1>1, MovedType
  <2> HIDE DEF m
  <2>2. "more" \in Returned
    BY DEF Returned
  <2>3. ASSUME NEW k \in BOOLEAN, h # s.hc PROVE Good([m EXCEPT !.kv = k])
    <3> DEFINE u == [m EXCEPT !.kv = k]
    <3>1. u \in HeadState /\ u.hc = m.hc /\ u.pos = m.pos /\ u.rc = m.rc
      BY <2>1, <2>2, SetType
    <3> HIDE DEF u
    <3>2. Good(u)
      BY <1>1, <2>1, <2>3, <3>1
    <3> QED BY <3>2 DEF u
  <2> QED BY <1>1, <2>1, <2>3 DEF m
<1>2. Good(Moved(s, s.hc))
  BY <1>0, <1>1, CacheType
<1>3. Good([Moved(s, s.hc) EXCEPT !.rc = "error"])
  <2> DEFINE m == Moved(s, s.hc)
             u == [m EXCEPT !.rc = "error"]
  <2>1. m \in HeadState /\ m.hc = s.hc /\ m.pos = y
    BY <1>0, CacheType, MovedType
  <2>2. "error" \in Returned /\ TRUE \in BOOLEAN
    BY DEF Returned
  <2>3. u \in HeadState /\ u.hc = m.hc /\ u.pos = m.pos /\ u.rc = "error"
    <3> HIDE DEF m
    <3> QED BY <2>1, <2>2, SetType
  <2> HIDE DEF m, u
  <2>4. Good(u)
    BY <2>1, <2>3
  <2> QED BY <2>4 DEF u, m
<1>4. s.hc.status = "HEAD_HALF" => Good([Moved(s, Go(s, "HEAD_DONE")) EXCEPT !.rc = "parsed"])
  <2> DEFINE m == Moved(s, Go(s, "HEAD_DONE"))
             u == [m EXCEPT !.rc = "parsed"]
  <2>0. "HEAD_DONE" \in HeadStatus
    BY DEF HeadStatus
  <2>a. Go(s, "HEAD_DONE") \in HeadCache /\ CacheIn(Go(s, "HEAD_DONE"), y) /\ Go(s, "HEAD_DONE").status = "HEAD_DONE"
    BY <2>0, CacheType
  <2>1. m \in HeadState /\ m.hc = Go(s, "HEAD_DONE") /\ m.hc.status = "HEAD_DONE" /\ m.pos = y
    BY <2>a, MovedType
  <2>2. "parsed" \in Returned /\ TRUE \in BOOLEAN
    BY DEF Returned
  <2>3. u \in HeadState /\ u.hc = m.hc /\ u.pos = m.pos /\ u.rc = "parsed"
    <3> HIDE DEF m
    <3> QED BY <2>1, <2>2, SetType
  <2> HIDE DEF m, u
  <2>4. s.hc.status = "HEAD_HALF" => Good(u)
    BY <2>1, <2>3
  <2> QED BY <2>4 DEF u, m
<1>5. ASSUME NEW st \in HeadStatus, st # "HEAD_DONE", s.hc.status # "HEAD_DONE"
      PROVE  Good(Moved(s, New(s, st))) /\ Good(Moved(s, Go(s, st)))
  <2> HIDE DEF Good
  <2> QED BY <1>1, <1>5, CacheType
<1>6. s.hc.status = "VSR_VER" => Good(Moved(s, [New(s, "VSR_STAT") EXCEPT !.code = Piece(s)]))
  <2> DEFINE n == New(s, "VSR_STAT")
             h == [n EXCEPT !.code = Piece(s)]
  <2>0. "VSR_STAT" \in HeadStatus
    BY DEF HeadStatus
  <2>1. n \in HeadCache /\ CacheIn(n, y) /\ n.status = "VSR_STAT" /\ Piece(s) \in Segment
        /\ Piece(s).off + Piece(s).len <= s.pos /\ QueueIn(s.hc.kv_queue, y)
    BY <2>0, CacheType
  <2>2. Piece(s).off + Piece(s).len <= y
    BY <1>0, <2>1 DEF Segment
  <2>3. h \in HeadCache /\ CacheIn(h, y) /\ h.status = "VSR_STAT"
    <3> HIDE DEF n, y
    <3> QED BY <1>0, <2>1, <2>2, CacheCode
  <2> HIDE DEF n, h, Good
  <2>4. s.hc.status = "VSR_VER" => Good(Moved(s, h))
    BY <1>1, <2>3
  <2> QED BY <2>4 DEF n, h
<1>7. s.hc.status = "LINE_DONE" =>
        Good([Moved(s, [New(s, "KEY_DONE") EXCEPT
                          !.kv_queue = Append(@, [key |-> Piece(s), value |-> NoSegment])]) EXCEPT !.kv = TRUE])
  <2> DEFINE n == New(s, "KEY_DONE")
             q == Append(n.kv_queue, [key |-> Piece(s), value |-> NoSegment])
             h == [n EXCEPT !.kv_queue = q]
  <2>0. "KEY_DONE" \in HeadStatus
    BY DEF HeadStatus
  <2>1. n \in HeadCache /\ CacheIn(n, y) /\ n.status = "KEY_DONE" /\ Piece(s) \in Segment
        /\ Piece(s).off + Piece(s).len <= s.pos /\ n.kv_queue = s.hc.kv_queue
    BY <2>0, CacheType
  <2>2. q \in Seq(KeyValue) /\ QueueIn(q, y)
    BY <1>0, <2>1, QueueType
  <2>4. h \in HeadCache /\ CacheIn(h, y) /\ h.status = "KEY_DONE"
    <3> HIDE DEF n, y, q
    <3> QED BY <1>0, <2>1, <2>2, CacheQueue
  <2> HIDE DEF n, h, Good
  <2>5. s.hc.status = "LINE_DONE" => Good([Moved(s, h) EXCEPT !.kv = TRUE])
    BY <1>1, <2>4
  <2> QED BY <2>5 DEF n, h
<1>8. s.hc.status = "KEY_DONE" =>
        Good([Moved(s, [Go(s, "LINE_HALF") EXCEPT !.kv_queue = Value(@, s.kv, Piece(s))]) EXCEPT !.kv = FALSE])
  <2> DEFINE n == Go(s, "LINE_HALF")
             q == Value(n.kv_queue, s.kv, Piece(s))
             h == [n EXCEPT !.kv_queue = q]
  <2>0. "LINE_HALF" \in HeadStatus
    BY DEF HeadStatus
  <2>1. n \in HeadCache /\ CacheIn(n, y) /\ n.status = "LINE_HALF" /\ Piece(s) \in Segment
        /\ Piece(s).off + Piece(s).len <= s.pos /\ n.kv_queue = s.hc.kv_queue
    BY <2>0, CacheType
  <2>2. q \in Seq(KeyValue) /\ QueueIn(q, y)
    BY <1>0, <2>1, QueueType
  <2>4. h \in HeadCache /\ CacheIn(h, y) /\ h.status = "LINE_HALF"
    <3> HIDE DEF n, y, q
    <3> QED BY <1>0, <2>1, <2>2, CacheQueue
  <2> HIDE DEF n, h, Good
  <2>5. s.hc.status = "KEY_DONE" => Good([Moved(s, h) EXCEPT !.kv = FALSE])
    BY <1>1, <2>4
  <2> QED BY <2>5 DEF n, h
<1>10. {"VSR_VER", "VSR_REAS", "KEY_DONE", "LINE_DONE", "HEAD_HALF"} \subseteq HeadStatus
  BY DEF HeadStatus
<1> HIDE DEF Good, t
<1>11. Good(t)
  <2>1. CASE c = SP
    BY <1>0, <1>2, <1>5, <1>6, <1>10, <2>1, StepIs, Zenon DEF t
  <2>2. CASE c = COLON
    BY <1>0, <1>2, <1>7, <2>2, StepIs, Zenon DEF t
  <2>3. CASE c = CR
    <3>1. CASE Refused(s.hc.status, c)
      BY <1>3, <3>1, StepIs, Zenon DEF t
    <3>2. CASE s.hc.status \in {"KEY_DONE", "LINE_DONE", "VSR_STAT"}
      BY <1>5, <1>8, <1>10, <2>3, <3>2, StepIs, ZenonT(40) DEF t
    <3> QED BY <2>3, <3>1, <3>2 DEF Refused
  <2>4. CASE c = LF
    <3>1. CASE Refused(s.hc.status, c)
      BY <1>3, <3>1, StepIs, Zenon DEF t
    <3>2. CASE s.hc.status \in {"LINE_HALF", "VSR_REAS", "HEAD_HALF"}
      BY <1>4, <1>5, <1>10, <2>4, <3>2, StepIs, Zenon DEF t
    <3> QED BY <2>4, <3>1, <3>2 DEF Refused
  <2>5. CASE c \notin {SP, COLON, CR, LF}
    BY <1>2, <2>5, StepIs, Zenon DEF t
  <2> QED BY <2>1, <2>2, <2>3, <2>4, <2>5
<1> QED BY <1>11 DEF Good, t
\* Two states that differ at most in kv
Same(s, t) == s.hc = t.hc /\ s.pos = t.pos /\ s.rc = t.rc

\* The moves keep such states alike.
LEMMA MovedSame ==
    ASSUME NEW s \in HeadState, NEW t \in HeadState, Same(s, t), NEW h, NEW k \in BOOLEAN, NEW r \in Returned
    PROVE  /\ Same(Moved(s, h), Moved(t, h))
           /\ Same([Moved(s, h) EXCEPT !.kv = k], [Moved(t, h) EXCEPT !.kv = k])
           /\ Same([Moved(s, h) EXCEPT !.rc = r], [Moved(t, h) EXCEPT !.rc = r])
<1> DEFINE H == HeadCache \cup {h}
           K == BOOLEAN
<1>1. ASSUME NEW u \in HeadState
      PROVE  LET m == Moved(u, h) IN
             /\ m.hc = h /\ m.pos = u.pos + 1 /\ m.rc = u.rc
             /\ [m EXCEPT !.kv = k].hc = h /\ [m EXCEPT !.kv = k].pos = u.pos + 1 /\ [m EXCEPT !.kv = k].rc = u.rc
             /\ [m EXCEPT !.rc = r].hc = h /\ [m EXCEPT !.rc = r].pos = u.pos + 1 /\ [m EXCEPT !.rc = r].rc = r
  <2> DEFINE y == u.pos + 1
             m == Moved(u, h)
  <2>1. u \in [hc: H, pos: Nat, kv: K, rc: Returned] /\ y \in Nat /\ h \in H /\ k \in K
    BY DEF HeadState, Returned
  <2>2. m = [u EXCEPT !.pos = y, !.hc = h]
    BY <2>1 DEF Moved
  <2> HIDE DEF H, K, y, m
  <2>3. m \in [hc: H, pos: Nat, kv: K, rc: Returned] /\ m.hc = h /\ m.pos = y /\ m.rc = u.rc
    BY <2>1, <2>2, RecordWith
  <2>4. [m EXCEPT !.kv = k].hc = h /\ [m EXCEPT !.kv = k].pos = y /\ [m EXCEPT !.kv = k].rc = u.rc
        /\ [m EXCEPT !.rc = r].hc = h /\ [m EXCEPT !.rc = r].pos = y /\ [m EXCEPT !.rc = r].rc = r
    BY <2>1, <2>3, RecordWith
  <2> QED BY <2>3, <2>4 DEF m, y
<1> QED BY <1>1 DEF Same

\* kv is not read: what a byte does depends only on what is kept between two calls.
LEMMA StepSame ==
    ASSUME NEW s \in HeadState, NEW t \in HeadState, Same(s, t), NEW c
    PROVE  Same(HeadStep(s, c), HeadStep(t, c))
<1>1. CASE s.rc # "more"
  BY <1>1 DEF Same, HeadStep
<1>2. CASE s.rc = "more"
  <2>1. s.rc = "more" /\ t.rc = "more" /\ s.hc = t.hc /\ s.pos = t.pos
    BY <1>2 DEF Same
  <2>a. t.hc.status = s.hc.status
    BY <2>1
  <2>2. Piece(s) = Piece(t) /\ \A st : Go(s, st) = Go(t, st) /\ New(s, st) = New(t, st)
    BY <2>1 DEF Piece, Go, New
  <2>3. \A q, seg : Value(q, s.kv, seg) = Value(q, t.kv, seg)
    BY DEF Value
  <2>4. \A h : /\ Same(Moved(s, h), Moved(t, h))
               /\ Same([Moved(s, h) EXCEPT !.kv = TRUE], [Moved(t, h) EXCEPT !.kv = TRUE])
               /\ Same([Moved(s, h) EXCEPT !.kv = FALSE], [Moved(t, h) EXCEPT !.kv = FALSE])
               /\ Same([Moved(s, h) EXCEPT !.rc = "parsed"], [Moved(t, h) EXCEPT !.rc = "parsed"])
               /\ Same([Moved(s, h) EXCEPT !.rc = "error"], [Moved(t, h) EXCEPT !.rc = "error"])
    <3>1. "parsed" \in Returned /\ "error" \in Returned /\ TRUE \in BOOLEAN /\ FALSE \in BOOLEAN
      BY DEF Returned
    <3> QED BY <3>1, MovedSame
  <2>5. CASE c = SP /\ s.hc.status = "VSR_START"
    <3> DEFINE h(u) == New(u, "VSR_VER")
    <3>1. HeadStep(s, c) = Moved(s, h(s))
      BY <2>1, <2>5, StepIs, Zenon
    <3>2. c = SP /\ t.hc.status = "VSR_START"
      BY <2>a, <2>5
    <3>3. HeadStep(t, c) = Moved(t, h(t))
      BY <2>1, <3>2, StepIs, Zenon
    <3>4. h(s) = h(t)
      BY <2>1, <2>2, <2>3
    <3> HIDE DEF h
    <3> QED BY <2>4, <3>1, <3>3, <3>4, Zenon
  <2>6. CASE c = SP /\ s.hc.status = "VSR_VER"
    <3> DEFINE h(u) == [New(u, "VSR_STAT") EXCEPT !.code = Piece(u)]
    <3>1. HeadStep(s, c) = Moved(s, h(s))
      BY <2>1, <2>6, StepIs, Zenon
    <3>2. c = SP /\ t.hc.status = "VSR_VER"
      BY <2>a, <2>6
    <3>3. HeadStep(t, c) = Moved(t, h(t))
      BY <2>1, <3>2, StepIs, Zenon
    <3>4. h(s) = h(t)
      BY <2>1, <2>2, <2>3
    <3> HIDE DEF h
    <3> QED BY <2>4, <3>1, <3>3, <3>4, Zenon
  <2>7. CASE c = SP /\ s.hc.status = "KEY_DONE"
    <3> DEFINE h(u) == New(u, "KEY_DONE")
    <3>1. HeadStep(s, c) = Moved(s, h(s))
      BY <2>1, <2>7, StepIs, Zenon
    <3>2. c = SP /\ t.hc.status = "KEY_DONE"
      BY <2>a, <2>7
    <3>3. HeadStep(t, c) = Moved(t, h(t))
      BY <2>1, <3>2, StepIs, Zenon
    <3>4. h(s) = h(t)
      BY <2>1, <2>2, <2>3
    <3> HIDE DEF h
    <3> QED BY <2>4, <3>1, <3>3, <3>4, Zenon
  <2>8. CASE c = COLON /\ s.hc.status = "LINE_DONE"
    <3> DEFINE h(u) == [New(u, "KEY_DONE") EXCEPT !.kv_queue = Append(@, [key |-> Piece(u), value |-> NoSegment])]
    <3>1. HeadStep(s, c) = [Moved(s, h(s)) EXCEPT !.kv = TRUE]
      BY <2>1, <2>8, StepIs, Zenon
    <3>2. c = COLON /\ t.hc.status = "LINE_DONE"
      BY <2>a, <2>8
    <3>3. HeadStep(t, c) = [Moved(t, h(t)) EXCEPT !.kv = TRUE]
      BY <2>1, <3>2, StepIs, Zenon
    <3>4. h(s) = h(t)
      BY <2>1, <2>2, <2>3
    <3> HIDE DEF h
    <3> DEFINE x == h(s)
    <3>5. HeadStep(t, c) = [Moved(t, x) EXCEPT !.kv = TRUE] /\ HeadStep(s, c) = [Moved(s, x) EXCEPT !.kv = TRUE]
      BY <3>1, <3>3, <3>4
    <3> HIDE DEF x
    <3> QED BY <2>4, <3>5, Zenon
  <2>9. CASE c = CR /\ s.hc.status = "KEY_DONE"
    <3> DEFINE h(u) == [Go(u, "LINE_HALF") EXCEPT !.kv_queue = Value(@, u.kv, Piece(u))]
    <3>1. HeadStep(s, c) = [Moved(s, h(s)) EXCEPT !.kv = FALSE]
      BY <2>1, <2>9, StepIs, Zenon
    <3>2. c = CR /\ t.hc.status = "KEY_DONE"
      BY <2>a, <2>9
    <3>3. HeadStep(t, c) = [Moved(t, h(t)) EXCEPT !.kv = FALSE]
      BY <2>1, <3>2, StepIs, Zenon
    <3>4. h(s) = h(t)
      BY <2>1, <2>2, <2>3
    <3> HIDE DEF h
    <3> DEFINE x == h(s)
    <3>5. HeadStep(t, c) = [Moved(t, x) EXCEPT !.kv = FALSE] /\ HeadStep(s, c) = [Moved(s, x) EXCEPT !.kv = FALSE]
      BY <3>1, <3>3, <3>4
    <3> HIDE DEF x
    <3> QED BY <2>4, <3>5, Zenon
  <2>10. CASE c = CR /\ s.hc.status = "LINE_DONE"
    <3> DEFINE h(u) == Go(u, "HEAD_HALF")
    <3>1. HeadStep(s, c) = Moved(s, h(s))
      BY <2>1, <2>10, StepIs, Zenon
    <3>2. c = CR /\ t.hc.status = "LINE_DONE"
      BY <2>a, <2>10
    <3>3. HeadStep(t, c) = Moved(t, h(t))
      BY <2>1, <3>2, StepIs, Zenon
    <3>4. h(s) = h(t)
      BY <2>1, <2>2, <2>3
    <3> HIDE DEF h
    <3> QED BY <2>4, <3>1, <3>3, <3>4, Zenon
  <2>11. CASE c = CR /\ s.hc.status = "VSR_STAT"
    <3> DEFINE h(u) == New(u, "VSR_REAS")
    <3>1. HeadStep(s, c) = Moved(s, h(s))
      BY <2>1, <2>11, StepIs, Zenon
    <3>2. c = CR /\ t.hc.status = "VSR_STAT"
      BY <2>a, <2>11
    <3>3. HeadStep(t, c) = Moved(t, h(t))
      BY <2>1, <3>2, StepIs, Zenon
    <3>4. h(s) = h(t)
      BY <2>1, <2>2, <2>3
    <3> HIDE DEF h
    <3> QED BY <2>4, <3>1, <3>3, <3>4, Zenon
  <2>12. CASE c = LF /\ s.hc.status \in {"LINE_HALF", "VSR_REAS"}
    <3> DEFINE h(u) == New(u, "LINE_DONE")
    <3>1. HeadStep(s, c) = Moved(s, h(s))
      BY <2>1, <2>12, StepIs, Zenon
    <3>2. c = LF /\ t.hc.status \in {"LINE_HALF", "VSR_REAS"}
      BY <2>a, <2>12
    <3>3. HeadStep(t, c) = Moved(t, h(t))
      BY <2>1, <3>2, StepIs, Zenon
    <3>4. h(s) = h(t)
      BY <2>1, <2>2, <2>3
    <3> HIDE DEF h
    <3> QED BY <2>4, <3>1, <3>3, <3>4, Zenon
  <2>13. CASE c = LF /\ s.hc.status = "HEAD_HALF"
    <3> DEFINE h(u) == Go(u, "HEAD_DONE")
    <3>1. HeadStep(s, c) = [Moved(s, h(s)) EXCEPT !.rc = "parsed"]
      BY <2>1, <2>13, StepIs, Zenon
    <3>2. c = LF /\ t.hc.status = "HEAD_HALF"
      BY <2>a, <2>13
    <3>3. HeadStep(t, c) = [Moved(t, h(t)) EXCEPT !.rc = "parsed"]
      BY <2>1, <3>2, StepIs, Zenon
    <3>4. h(s) = h(t)
      BY <2>1, <2>2, <2>3
    <3> HIDE DEF h
    <3> DEFINE x == h(s)
    <3>5. HeadStep(t, c) = [Moved(t, x) EXCEPT !.rc = "parsed"] /\ HeadStep(s, c) = [Moved(s, x) EXCEPT !.rc = "parsed"]
      BY <3>1, <3>3, <3>4
    <3> HIDE DEF x
    <3> QED BY <2>4, <3>5, Zenon
  <2>14. CASE Refused(s.hc.status, c)
    <3> DEFINE h(u) == u.hc
    <3>1. HeadStep(s, c) = [Moved(s, h(s)) EXCEPT !.rc = "error"]
      BY <2>1, <2>14, StepIs, Zenon
    <3>2. Refused(t.hc.status, c)
      BY <2>a, <2>14
    <3>3. HeadStep(t, c) = [Moved(t, h(t)) EXCEPT !.rc = "error"]
      BY <2>1, <3>2, StepIs, Zenon
    <3>4. h(s) = h(t)
      BY <2>1, <2>2, <2>3
    <3> HIDE DEF h
    <3> DEFINE x == h(s)
    <3>5. HeadStep(t, c) = [Moved(t, x) EXCEPT !.rc = "error"] /\ HeadStep(s, c) = [Moved(s, x) EXCEPT !.rc = "error"]
      BY <3>1, <3>3, <3>4
    <3> HIDE DEF x
    <3> QED BY <2>4, <3>5, Zenon
  <2>15. CASE c \notin {SP, COLON, CR, LF} \/ (c = COLON /\ s.hc.status # "LINE_DONE") \/ (c = SP /\ s.hc.status \notin {"VSR_START", "VSR_VER", "KEY_DONE"})
    <3> DEFINE h(u) == u.hc
    <3>1. HeadStep(s, c) = Moved(s, h(s))
      BY <2>1, <2>15, StepIs, Zenon
    <3>2. c \notin {SP, COLON, CR, LF} \/ (c = COLON /\ t.hc.status # "LINE_DONE") \/ (c = SP /\ t.hc.status \notin {"VSR_START", "VSR_VER", "KEY_DONE"})
      BY <2>a, <2>15
    <3>3. HeadStep(t, c) = Moved(t, h(t))
      BY <2>1, <3>2, StepIs, Zenon
    <3>4. h(s) = h(t)
      BY <2>1, <2>2, <2>3
    <3> HIDE DEF h
    <3> QED BY <2>4, <3>1, <3>3, <3>4, Zenon
  <2>16. \/ c = SP /\ s.hc.status \in {"VSR_START", "VSR_VER", "KEY_DONE"}
         \/ c = COLON /\ s.hc.status = "LINE_DONE"
         \/ c = CR /\ s.hc.status \in {"KEY_DONE", "LINE_DONE", "VSR_STAT"}
         \/ c = LF /\ s.hc.status \in {"LINE_HALF", "VSR_REAS", "HEAD_HALF"}
         \/ Refused(s.hc.status, c)
         \/ c \notin {SP, COLON, CR, LF}
         \/ (c = COLON /\ s.hc.status # "LINE_DONE")
         \/ (c = SP /\ s.hc.status \notin {"VSR_START", "VSR_VER", "KEY_DONE"})
    BY DEF Refused
  <2> QED BY <2>5, <2>6, <2>7, <2>8, <2>9, <2>10, <2>11, <2>12, <2>13, <2>14, <2>15, <2>16, Zenon
<1> QED BY <1>1, <1>2

-----------------------------------------------------------------------------
(* The loop of http_parse_head *)

\* HeadRun is what its recursive definition says, and its values are states of the loop.
LEMMA HeadRunIs ==
    ASSUME NEW z, NEW s \in HeadState
    PROVE  /\ HeadRun(z, s) \in [Nat -> HeadState]
           /\ \A i \in Nat : i <= s.pos => HeadRun(z, s)[i] = s
           /\ \A i \in Nat : i + 1 > s.pos => HeadRun(z, s)[i + 1] = HeadStep(HeadRun(z, s)[i], z[i + 1])
<1> DEFINE Body(g) == [i \in Nat |-> IF i <= s.pos THEN s ELSE HeadStep(g[i - 1], z[i])]
           F == [x \in Nat \X HeadState |-> IF x[1] + 1 <= s.pos THEN s ELSE HeadStep(x[2], z[x[1] + 1])]
           g1 == CHOOSE g : g = Body(g)
<1>1. s.pos \in Nat
  BY StateOf
<1>2. \A t \in HeadState : \A c : HeadStep(t, c) \in HeadState
  <2>1. SUFFICES ASSUME NEW t \in HeadState, NEW c PROVE HeadStep(t, c) \in HeadState
    OBVIOUS
  <2>2. CASE t.rc = "more"
    BY <2>2, StepType
  <2>3. CASE t.rc # "more"
    BY <2>3 DEF HeadStep
  <2> QED BY <2>2, <2>3
<1>3. F \in [Nat \X HeadState -> HeadState]
  <2>1. ASSUME NEW x \in Nat \X HeadState
        PROVE  (IF x[1] + 1 <= s.pos THEN s ELSE HeadStep(x[2], z[x[1] + 1])) \in HeadState
    <3>1. x[2] \in HeadState
      OBVIOUS
    <3> QED BY <1>2, <3>1
  <2> QED BY <2>1
<1>4. PICK h \in [Nat -> HeadState] : h[0] = s /\ \A n \in Nat : h[n + 1] = F[<<n, h[n]>>]
  <2> HIDE DEF F
  <2>1. \E f : Iterates(f, HeadState, s, F)
    BY <1>3, Recursion
  <2> QED BY <2>1 DEF Iterates
<1>5. \A n \in Nat : h[n + 1] = IF n + 1 <= s.pos THEN s ELSE HeadStep(h[n], z[n + 1])
  <2>1. SUFFICES ASSUME NEW n \in Nat PROVE h[n + 1] = IF n + 1 <= s.pos THEN s ELSE HeadStep(h[n], z[n + 1])
    OBVIOUS
  <2>2. h[n] \in HeadState /\ <<n, h[n]>> \in Nat \X HeadState
    OBVIOUS
  <2>3. F[<<n, h[n]>>] = IF n + 1 <= s.pos THEN s ELSE HeadStep(h[n], z[n + 1])
    BY <2>2
  <2> HIDE DEF F
  <2> QED BY <1>4, <2>3
<1> HIDE DEF F
<1>6. h = Body(h)
  <2>1. ASSUME NEW i \in Nat PROVE h[i] = IF i <= s.pos THEN s ELSE HeadStep(h[i - 1], z[i])
    <3>1. CASE i = 0
      BY <1>1, <1>4, <3>1
    <3>2. CASE i # 0
      <4>1. i - 1 \in Nat /\ (i - 1) + 1 = i
        BY <3>2
      <4> QED BY <1>5, <4>1
    <3> QED BY <3>1, <3>2
  <2> QED BY <2>1
<1>7. g1 = Body(g1)
  <2> HIDE DEF Body
  <2> QED BY <1>6
<1>8. HeadRun(z, s) = g1
  BY DEF HeadRun
<1> HIDE DEF g1
<1>9. \A i \in Nat : i <= s.pos => g1[i] = s
  BY <1>7
<1>10. \A i \in Nat : i + 1 > s.pos => g1[i + 1] = HeadStep(g1[i], z[i + 1])
  <2>1. SUFFICES ASSUME NEW i \in Nat, i + 1 > s.pos PROVE g1[i + 1] = HeadStep(g1[i], z[i + 1])
    OBVIOUS
  <2>2. i + 1 \in Nat /\ (i + 1) - 1 = i /\ ~ (i + 1 <= s.pos)
    BY <1>1, <2>1
  <2> QED BY <1>7, <2>2
<1>11. \A i \in Nat : g1[i] \in HeadState
  <2> DEFINE V == {i \in Nat : g1[i] \in HeadState}
  <2>1. 0 \in V
    BY <1>1, <1>9
  <2>2. ASSUME NEW i \in Nat, i \in V PROVE i + 1 \in V
    <3>1. g1[i + 1] \in HeadState
      BY <1>1, <1>2, <1>9, <1>10, <2>2
    <3> QED BY <3>1
  <2>3. \A i \in Nat : i \in V
    <3> HIDE DEF V
    <3> QED BY <2>1, <2>2, Induction
  <2> QED BY <2>3
<1>12. g1 \in [Nat -> HeadState]
  <2>1. g1 = [i \in Nat |-> g1[i]]
    BY <1>7
  <2> QED BY <1>11, <2>1
<1> QED BY <1>8, <1>9, <1>10, <1>12
\* What is true of lo and handed on from each number to the next is true from lo on.
LEMMA UpInduction ==
    ASSUME NEW lo \in Nat, NEW T, lo \in T, \A n \in Nat : n >= lo /\ n \in T => n + 1 \in T
    PROVE  \A n \in Nat : n >= lo => n \in T
<1> DEFINE U == {k \in Nat : k >= lo => k \in T}
<1>1. 0 \in U
  OBVIOUS
<1>2. ASSUME NEW k \in Nat, k \in U PROVE k + 1 \in U
  <2>1. SUFFICES ASSUME k + 1 >= lo PROVE k + 1 \in T
    OBVIOUS
  <2>2. CASE k >= lo
    BY <1>2, <2>2
  <2>3. CASE ~ (k >= lo)
    <3>1. k + 1 = lo
      BY <2>1, <2>3
    <3> QED BY <3>1
  <2> QED BY <2>2, <2>3
<1>3. \A k \in Nat : k \in U
  <2> HIDE DEF U
  <2> QED BY <1>1, <1>2, Induction
<1> QED BY <1>3

\* While a call reads on, every byte is counted; when it has returned nothing changes any more.
LEMMA RunCounts ==
    ASSUME NEW z, NEW s \in HeadState, s.rc = "more"
    PROVE  /\ \A i \in Nat : i >= s.pos /\ HeadRun(z, s)[i].rc = "more" => HeadRun(z, s)[i].pos = i
           /\ \A i, j \in Nat : i >= s.pos /\ j >= i /\ HeadRun(z, s)[i].rc # "more" =>
                HeadRun(z, s)[j] = HeadRun(z, s)[i]
           /\ \A i \in Nat : i >= s.pos => HeadRun(z, s)[i].pos >= s.pos /\ HeadRun(z, s)[i].pos <= i
<1> DEFINE run == HeadRun(z, s)
           p == s.pos
<1>1. p \in Nat
  BY StateOf
<1>2. run \in [Nat -> HeadState] /\ run[p] = s
      /\ \A i \in Nat : i + 1 > p => run[i + 1] = HeadStep(run[i], z[i + 1])
  BY <1>1, HeadRunIs
<1> HIDE DEF run
<1>3. ASSUME NEW i \in Nat, i >= p
      PROVE  /\ run[i] \in HeadState /\ run[i].pos \in Nat
             /\ run[i].rc # "more" => run[i + 1] = run[i]
             /\ run[i].rc = "more" => run[i + 1].pos = run[i].pos + 1
  <2>1. run[i] \in HeadState /\ run[i + 1] = HeadStep(run[i], z[i + 1])
    BY <1>1, <1>2, <1>3
  <2>2. run[i].pos \in Nat
    BY <2>1, StateOf
  <2>3. run[i].rc # "more" => run[i + 1] = run[i]
    BY <2>1 DEF HeadStep
  <2>4. run[i].rc = "more" => run[i + 1].pos = run[i].pos + 1
    BY <2>1, StepType
  <2> QED BY <2>1, <2>2, <2>3, <2>4
<1> DEFINE P(i) == (run[i].rc = "more" => run[i].pos = i) /\ run[i].pos >= p /\ run[i].pos <= i
           T == {i \in Nat : P(i)}
<1>4. p \in T
  BY <1>1, <1>2
<1>5. ASSUME NEW i \in Nat, i >= p, i \in T PROVE i + 1 \in T
  <2>1. P(i) /\ i + 1 \in Nat
    BY <1>5
  <2>2. CASE run[i].rc = "more"
    BY <1>1, <1>3, <1>5, <2>1, <2>2
  <2>3. CASE run[i].rc # "more"
    BY <1>1, <1>3, <1>5, <2>1, <2>3
  <2> QED BY <2>2, <2>3
<1>6. \A i \in Nat : i >= p => P(i)
  <2>1. \A i \in Nat : i >= p => i \in T
    <3> HIDE DEF T
    <3> QED BY <1>1, <1>4, <1>5, UpInduction
  <2> QED BY <2>1
<1>7. ASSUME NEW i \in Nat, i >= p, run[i].rc # "more"
      PROVE  \A j \in Nat : j >= i => run[j] = run[i]
  <2> DEFINE U == {j \in Nat : run[j] = run[i]}
  <2>1. i \in U
    OBVIOUS
  <2>2. ASSUME NEW j \in Nat, j >= i, j \in U PROVE j + 1 \in U
    <3>1. j >= p /\ run[j] = run[i] /\ j + 1 \in Nat
      BY <1>1, <1>7, <2>2
    <3>2. run[j + 1] = run[j]
      BY <1>3, <1>7, <3>1
    <3> QED BY <3>1, <3>2
  <2>3. \A j \in Nat : j >= i => j \in U
    <3> HIDE DEF U
    <3> QED BY <2>1, <2>2, UpInduction
  <2> QED BY <2>3
<1> QED BY <1>6, <1>7 DEF run

\* A head that is done already is only read past: nothing is parsed, and nothing recorded.
LEMMA RunDone ==
    ASSUME NEW z, NEW s \in HeadState, s.rc = "more", s.hc.status = "HEAD_DONE", NEW i \in Nat, i >= s.pos
    PROVE  HeadRun(z, s)[i].hc = s.hc /\ HeadRun(z, s)[i].rc # "parsed"
<1> DEFINE run == HeadRun(z, s)
           p == s.pos
           T == {j \in Nat : run[j].hc = s.hc /\ run[j].rc # "parsed"}
<1>1. p \in Nat
  BY StateOf
<1>2. run \in [Nat -> HeadState] /\ run[p] = s
      /\ \A j \in Nat : j + 1 > p => run[j + 1] = HeadStep(run[j], z[j + 1])
  BY <1>1, HeadRunIs
<1> HIDE DEF run
<1>3. p \in T
  BY <1>1, <1>2
<1>4. ASSUME NEW j \in Nat, j >= p, j \in T PROVE j + 1 \in T
  <2>1. run[j] \in HeadState /\ run[j + 1] = HeadStep(run[j], z[j + 1]) /\ run[j].hc = s.hc /\ run[j].rc # "parsed"
    BY <1>1, <1>2, <1>4
  <2>2. CASE run[j].rc = "more"
    BY <2>1, <2>2, StepType
  <2>3. CASE run[j].rc # "more"
    BY <2>1, <2>3 DEF HeadStep
  <2> QED BY <2>2, <2>3
<1>5. \A j \in Nat : j >= p => j \in T
  <2> HIDE DEF T
  <2> QED BY <1>1, <1>3, <1>4, UpInduction
<1> QED BY <1>5 DEF run

\* A head that was not done before is done exactly when the call returns with it.
LEMMA RunParses ==
    ASSUME NEW z, NEW s \in HeadState, s.rc = "more", s.hc.status # "HEAD_DONE", NEW i \in Nat, i >= s.pos
    PROVE  HeadRun(z, s)[i].hc.status = "HEAD_DONE" <=> HeadRun(z, s)[i].rc = "parsed"
<1> DEFINE run == HeadRun(z, s)
           p == s.pos
           T == {j \in Nat : run[j].hc.status = "HEAD_DONE" <=> run[j].rc = "parsed"}
<1>1. p \in Nat
  BY StateOf
<1>2. run \in [Nat -> HeadState] /\ run[p] = s
      /\ \A j \in Nat : j + 1 > p => run[j + 1] = HeadStep(run[j], z[j + 1])
  BY <1>1, HeadRunIs
<1> HIDE DEF run
<1>3. p \in T
  BY <1>1, <1>2
<1>4. ASSUME NEW j \in Nat, j >= p, j \in T PROVE j + 1 \in T
  <2>1. run[j] \in HeadState /\ run[j + 1] = HeadStep(run[j], z[j + 1])
        /\ (run[j].hc.status = "HEAD_DONE" <=> run[j].rc = "parsed")
    BY <1>1, <1>2, <1>4
  <2>2. CASE run[j].rc = "more"
    <3>1. run[j].hc.status # "HEAD_DONE"
      BY <2>1, <2>2
    <3>2. run[j + 1].hc.status = "HEAD_DONE" <=> run[j + 1].rc = "parsed"
      BY <2>1, <2>2, <3>1, StepType
    <3> QED BY <3>2
  <2>3. CASE run[j].rc # "more"
    BY <2>1, <2>3 DEF HeadStep
  <2> QED BY <2>2, <2>3
<1>5. \A j \in Nat : j >= p => j \in T
  <2> HIDE DEF T
  <2> QED BY <1>1, <1>3, <1>4, UpInduction
<1> QED BY <1>5 DEF run

\* A call that begins where another one ended goes on as if there had been one call.
LEMMA RunJoins ==
    ASSUME NEW z, NEW s \in HeadState, NEW t \in HeadState, t.pos >= s.pos, Same(HeadRun(z, s)[t.pos], t),
           NEW i \in Nat, i >= t.pos
    PROVE  Same(HeadRun(z, s)[i], HeadRun(z, t)[i])
<1> DEFINE f == HeadRun(z, s)
           g == HeadRun(z, t)
           p == t.pos
           T == {j \in Nat : Same(f[j], g[j])}
<1>1. p \in Nat /\ s.pos \in Nat
  BY StateOf
<1>2. f \in [Nat -> HeadState] /\ \A j \in Nat : j + 1 > s.pos => f[j + 1] = HeadStep(f[j], z[j + 1])
  BY <1>1, HeadRunIs
<1>3. g \in [Nat -> HeadState] /\ g[p] = t /\ \A j \in Nat : j + 1 > p => g[j + 1] = HeadStep(g[j], z[j + 1])
  BY <1>1, HeadRunIs
<1> HIDE DEF f, g
<1>4. p \in T
  BY <1>1, <1>3 DEF f
<1>5. ASSUME NEW j \in Nat, j >= p, j \in T PROVE j + 1 \in T
  <2>1. f[j] \in HeadState /\ g[j] \in HeadState /\ Same(f[j], g[j])
    BY <1>2, <1>3, <1>5
  <2>2. j + 1 > s.pos /\ j + 1 > p /\ j + 1 \in Nat
    BY <1>1, <1>5
  <2>3. f[j + 1] = HeadStep(f[j], z[j + 1]) /\ g[j + 1] = HeadStep(g[j], z[j + 1])
    BY <1>2, <1>3, <2>2
  <2>4. Same(f[j + 1], g[j + 1])
    BY <2>1, <2>3, StepSame
  <2> QED BY <2>2, <2>4
<1>6. \A j \in Nat : j >= p => j \in T
  <2> HIDE DEF T
  <2> QED BY <1>1, <1>4, <1>5, UpInduction
<1> QED BY <1>6 DEF f, g

\* The first n elements are the same
Agree(z, w, n) == \A i \in 1..n : z[i] = w[i]

\* The loop has seen only the bytes it has passed.
LEMMA RunPrefix ==
    ASSUME NEW s \in HeadState, NEW z, NEW w, NEW n \in Nat, Agree(z, w, n)
    PROVE  \A i \in 0..n : HeadRun(z, s)[i] = HeadRun(w, s)[i]
<1> DEFINE f == HeadRun(z, s)
           g == HeadRun(w, s)
           p == s.pos
           T == {j \in Nat : f[j] = g[j]}
<1>1. p \in Nat
  BY StateOf
<1>2. f \in [Nat -> HeadState] /\ (\A j \in Nat : j <= p => f[j] = s)
      /\ \A j \in Nat : j + 1 > p => f[j + 1] = HeadStep(f[j], z[j + 1])
  BY <1>1, HeadRunIs
<1>3. g \in [Nat -> HeadState] /\ (\A j \in Nat : j <= p => g[j] = s)
      /\ \A j \in Nat : j + 1 > p => g[j + 1] = HeadStep(g[j], w[j + 1])
  BY <1>1, HeadRunIs
<1> HIDE DEF f, g
<1>4. 0 \in T
  BY <1>1, <1>2, <1>3
<1>5. ASSUME NEW j \in 0..(n - 1), j \in T PROVE j + 1 \in T
  <2>1. j + 1 \in Nat /\ j \in Nat /\ f[j] = g[j] /\ z[j + 1] = w[j + 1]
    BY <1>5 DEF Agree
  <2>2. CASE j + 1 <= p
    BY <1>2, <1>3, <2>1, <2>2
  <2>3. CASE j + 1 > p
    BY <1>2, <1>3, <2>1, <2>3
  <2> QED BY <1>1, <2>1, <2>2, <2>3
<1>6. \A j \in 0..n : j \in T
  <2> HIDE DEF T
  <2> QED BY <1>4, <1>5, IntervalInduction
<1> QED BY <1>6 DEF f, g
-----------------------------------------------------------------------------
(* The loops over a chunked body, byte by byte *)

\* html_cache_s before mc->chunks is set
HtmlCache == [status: {"LEN_DONE", "LEN_HALF"}, chunk_sum: Nat, chunk_queue: Seq(Segment),
              chunks: {<<>>}, done: {FALSE}, html: {NULL_BUF}]
ChunkResult == {"more", "done", "error"}
ChunkState == [mc: HtmlCache, pos: Nat, chunk_len: Nat, rc: ChunkResult]

\* A remainder is a number below the modulus.
LEMMA Remainder ==
    ASSUME NEW n \in Nat
    PROVE  n % Word \in Nat /\ n % Word < Word /\ (n < Word => n % Word = n)
<1>1. Word \in Nat /\ Word > 0
  BY HtmlAssumption
<1> QED BY <1>1

\* A digit has a value.
LEMMA DigitType == \A c : Digit(c) \in Nat
<1> SUFFICES ASSUME NEW c PROVE Digit(c) \in Nat
  OBVIOUS
<1> DEFINE is(i) == c \in {Lower[i], Upper[i]}
<1>1. CASE \E i \in 1..16 : is(i)
  <2> DEFINE d == CHOOSE i \in 1..16 : is(i)
  <2>1. d \in 1..16
    <3> HIDE DEF is
    <3> QED BY <1>1
  <2>2. Digit(c) = d - 1
    BY <1>1 DEF Digit
  <2> HIDE DEF d
  <2> QED BY <2>1, <2>2
<1>2. CASE ~ \E i \in 1..16 : is(i)
  BY <1>2 DEF Digit
<1> QED BY <1>1, <1>2

\* A state of the loops with some of its parts set.
LEMMA ChunkWith ==
    ASSUME NEW M, NEW P, NEW L, NEW R, NEW s \in [mc: M, pos: P, chunk_len: L, rc: R],
           NEW m \in M, NEW p \in P, NEW l \in L, NEW r \in R
    PROVE  /\ [s EXCEPT !.pos = p] \in [mc: M, pos: P, chunk_len: L, rc: R]
           /\ [s EXCEPT !.pos = p].pos = p /\ [s EXCEPT !.pos = p].mc = s.mc
           /\ [s EXCEPT !.pos = p].chunk_len = s.chunk_len /\ [s EXCEPT !.pos = p].rc = s.rc
           /\ [s EXCEPT !.chunk_len = l] \in [mc: M, pos: P, chunk_len: L, rc: R]
           /\ [s EXCEPT !.chunk_len = l].pos = s.pos /\ [s EXCEPT !.chunk_len = l].mc = s.mc
           /\ [s EXCEPT !.chunk_len = l].chunk_len = l /\ [s EXCEPT !.chunk_len = l].rc = s.rc
           /\ [s EXCEPT !.rc = r] \in [mc: M, pos: P, chunk_len: L, rc: R]
           /\ [s EXCEPT !.rc = r].pos = s.pos /\ [s EXCEPT !.rc = r].mc = s.mc
           /\ [s EXCEPT !.rc = r].chunk_len = s.chunk_len /\ [s EXCEPT !.rc = r].rc = r
           /\ [s EXCEPT !.mc = m] \in [mc: M, pos: P, chunk_len: L, rc: R]
           /\ [s EXCEPT !.mc = m].pos = s.pos /\ [s EXCEPT !.mc = m].mc = m
           /\ [s EXCEPT !.mc = m].chunk_len = s.chunk_len /\ [s EXCEPT !.mc = m].rc = s.rc
           /\ [s EXCEPT !.pos = p, !.mc = m, !.rc = r] \in [mc: M, pos: P, chunk_len: L, rc: R]
           /\ [s EXCEPT !.pos = p, !.mc = m, !.rc = r].pos = p /\ [s EXCEPT !.pos = p, !.mc = m, !.rc = r].mc = m
           /\ [s EXCEPT !.pos = p, !.mc = m, !.rc = r].chunk_len = s.chunk_len
           /\ [s EXCEPT !.pos = p, !.mc = m, !.rc = r].rc = r
           /\ [s EXCEPT !.pos = p, !.chunk_len = l, !.mc = m] \in [mc: M, pos: P, chunk_len: L, rc: R]
           /\ [s EXCEPT !.pos = p, !.chunk_len = l, !.mc = m].pos = p
           /\ [s EXCEPT !.pos = p, !.chunk_len = l, !.mc = m].mc = m
           /\ [s EXCEPT !.pos = p, !.chunk_len = l, !.mc = m].chunk_len = l
           /\ [s EXCEPT !.pos = p, !.chunk_len = l, !.mc = m].rc = s.rc
OBVIOUS
\* What a byte outside the data of a chunk does.
LEMMA ChunkByteIs ==
    ASSUME NEW s \in ChunkState, NEW c
    PROVE  /\ ChunkByte(s, c) \in ChunkState /\ ChunkByte(s, c).pos > s.pos
           /\ c \in {SP, "TAB"} => /\ ChunkByte(s, c).pos = s.pos + 1 /\ ChunkByte(s, c).mc = s.mc
                                   /\ ChunkByte(s, c).chunk_len = s.chunk_len /\ ChunkByte(s, c).rc = s.rc
           /\ c = CR /\ s.mc.status = "LEN_DONE" =>
                /\ ChunkByte(s, c).pos = s.pos + 1 /\ ChunkByte(s, c).mc = In(s.mc, "LEN_HALF")
                /\ ChunkByte(s, c).chunk_len = s.chunk_len /\ ChunkByte(s, c).rc = s.rc
           /\ c = LF /\ s.mc.status = "LEN_HALF" /\ s.chunk_len = 0 =>
                /\ ChunkByte(s, c).pos = s.pos + 1 /\ ChunkByte(s, c).mc = In(s.mc, "LEN_DONE")
                /\ ChunkByte(s, c).chunk_len = 0 /\ ChunkByte(s, c).rc = "done"
           /\ c = LF /\ s.mc.status = "LEN_HALF" /\ s.chunk_len # 0 =>
                /\ ChunkByte(s, c).pos = s.pos + 1 + SkipChunk(s.chunk_len) /\ ChunkByte(s, c).chunk_len = 0
                /\ ChunkByte(s, c).mc = Queued(In(s.mc, "LEN_DONE"), [off |-> s.pos + 1, len |-> s.chunk_len])
                /\ ChunkByte(s, c).rc = s.rc
           /\ c \notin {SP, "TAB", CR, LF} =>
                /\ ChunkByte(s, c).pos = s.pos + 1 /\ ChunkByte(s, c).mc = s.mc
                /\ ChunkByte(s, c).chunk_len = (s.chunk_len * 16 + Digit(c)) % Word /\ ChunkByte(s, c).rc = s.rc
<1> DEFINE p == s.pos + 1
           l == s.chunk_len
           t == ChunkByte(s, c)
           k == [s EXCEPT !.pos = p]
<1>1. s.mc \in HtmlCache /\ s.pos \in Nat /\ l \in Nat /\ s.rc \in ChunkResult /\ p \in Nat /\ p > s.pos
      /\ "more" \in ChunkResult /\ "done" \in ChunkResult /\ "error" \in ChunkResult
  BY DEF ChunkState, ChunkResult
<1>2. k \in ChunkState /\ k.pos = p /\ k.mc = s.mc /\ k.chunk_len = l /\ k.rc = s.rc
  <2> HIDE DEF p
  <2> QED BY <1>1, ChunkWith DEF ChunkState
<1>3. \A st \in {"LEN_DONE", "LEN_HALF"} : In(s.mc, st) \in HtmlCache
  BY <1>1 DEF In, HtmlCache
<1> HIDE DEF k
<1>4. ASSUME c \in {SP, "TAB"} PROVE t = k
  BY <1>4 DEF ChunkByte, SP, CR, LF, k
<1>5. ASSUME c = CR
      PROVE  IF s.mc.status = "LEN_DONE" THEN t = [k EXCEPT !.mc = In(s.mc, "LEN_HALF")]
                                         ELSE t = [k EXCEPT !.rc = "error"]
  <2>1. t = IF s.mc.status = "LEN_DONE" THEN [k EXCEPT !.mc = In(k.mc, "LEN_HALF")] ELSE [k EXCEPT !.rc = "error"]
    BY <1>5 DEF ChunkByte, SP, CR, LF, k
  <2> QED BY <1>2, <2>1
<1>6. ASSUME c = LF PROVE t = IF s.mc.status = "LEN_HALF" THEN SizeLine(s, p) ELSE k
  BY <1>6 DEF ChunkByte, SP, CR, LF, k
<1>7. ASSUME c \notin {SP, "TAB", CR, LF} PROVE t = [k EXCEPT !.chunk_len = (l * 16 + Digit(c)) % Word]
  <2>1. t = [k EXCEPT !.chunk_len = (k.chunk_len * 16 + Digit(c)) % Word]
    BY <1>7 DEF ChunkByte, SP, CR, LF, k
  <2> QED BY <1>2, <2>1
<1> HIDE DEF t
<1>8. ASSUME NEW m \in HtmlCache
      PROVE  LET u == [k EXCEPT !.mc = m] IN
             u \in ChunkState /\ u.pos = p /\ u.mc = m /\ u.chunk_len = l /\ u.rc = s.rc
  <2> HIDE DEF p, l
  <2> QED BY <1>1, <1>2, ChunkWith DEF ChunkState
<1>9. LET u == [k EXCEPT !.rc = "error"] IN u \in ChunkState /\ u.pos = p
  <2> HIDE DEF p, l
  <2> QED BY <1>1, <1>2, ChunkWith DEF ChunkState
<1>10. ASSUME NEW x \in Nat
       PROVE  LET u == [k EXCEPT !.chunk_len = x] IN
              u \in ChunkState /\ u.pos = p /\ u.mc = s.mc /\ u.chunk_len = x /\ u.rc = s.rc
  <2> HIDE DEF p, l
  <2> QED BY <1>1, <1>2, ChunkWith DEF ChunkState
<1>11. CASE c \in {SP, "TAB"}
  BY <1>1, <1>2, <1>4, <1>11 DEF SP, CR, LF, t
<1>12. CASE c = CR
  <2>1. CASE s.mc.status = "LEN_DONE"
    <3> DEFINE u == [k EXCEPT !.mc = In(s.mc, "LEN_HALF")]
    <3>1. u \in ChunkState /\ u.pos = p /\ u.mc = In(s.mc, "LEN_HALF") /\ u.chunk_len = l /\ u.rc = s.rc
      BY <1>3, <1>8
    <3>2. t = u
      BY <1>5, <1>12, <2>1
    <3> HIDE DEF u
    <3> QED BY <1>1, <1>12, <2>1, <3>1, <3>2 DEF SP, CR, LF, t
  <2>2. CASE s.mc.status # "LEN_DONE"
    <3> DEFINE u == [k EXCEPT !.rc = "error"]
    <3>1. u \in ChunkState /\ u.pos = p
      BY <1>9
    <3>2. t = u
      BY <1>5, <1>12, <2>2
    <3> HIDE DEF u
    <3> QED BY <1>1, <1>12, <2>2, <3>1, <3>2 DEF SP, CR, LF, t
  <2> QED BY <2>1, <2>2
<1>13. CASE c = LF
  <2>1. CASE s.mc.status # "LEN_HALF"
    BY <1>1, <1>2, <1>6, <1>13, <2>1 DEF SP, CR, LF, t
  <2>2. CASE s.mc.status = "LEN_HALF" /\ s.chunk_len = 0
    <3> DEFINE m == In(s.mc, "LEN_DONE")
               u == [s EXCEPT !.pos = p, !.mc = m, !.rc = "done"]
    <3>1. t = u
      BY <1>6, <1>13, <2>2 DEF SizeLine
    <3>2. m \in HtmlCache
      BY <1>3
    <3>3. u \in ChunkState /\ u.pos = p /\ u.mc = m /\ u.chunk_len = s.chunk_len /\ u.rc = "done"
      <4> HIDE DEF p, l, m
      <4> QED BY <1>1, <3>2, ChunkWith DEF ChunkState
    <3> HIDE DEF u
    <3> QED BY <1>1, <1>13, <2>2, <3>1, <3>3 DEF SP, CR, LF, t
  <2>3. CASE s.mc.status = "LEN_HALF" /\ s.chunk_len # 0
    <3> DEFINE seg == [off |-> p, len |-> l]
               i == In(s.mc, "LEN_DONE")
               m == Queued(i, seg)
               q == p + SkipChunk(l)
               u == [s EXCEPT !.pos = q, !.chunk_len = 0, !.mc = m]
    <3>1. t = u
      BY <1>6, <1>13, <2>3 DEF SizeLine
    <3>2. i \in HtmlCache /\ seg \in Segment
      BY <1>1, <1>3 DEF Segment
    <3>3. q \in Nat /\ q >= p
      <4>1. SkipChunk(l) \in Nat
        BY <1>1, Remainder DEF SkipChunk
      <4> QED BY <1>1, <4>1
    <3>4. m \in HtmlCache
      <4>1. i.chunk_sum \in Nat /\ i.chunk_queue \in Seq(Segment)
        BY <3>2 DEF HtmlCache
      <4>2. (i.chunk_sum + seg.len) % Word \in Nat
        <5>1. i.chunk_sum + seg.len \in Nat
          BY <3>2, <4>1 DEF Segment
        <5> QED BY <5>1, Remainder
      <4>3. Append(i.chunk_queue, seg) \in Seq(Segment)
        BY <3>2, <4>1
      <4> HIDE DEF i, seg
      <4> QED BY <3>2, <4>2, <4>3 DEF Queued, HtmlCache
    <3>5. u \in ChunkState /\ u.pos = q /\ u.mc = m /\ u.chunk_len = 0 /\ u.rc = s.rc
      <4> HIDE DEF q, m
      <4> QED BY <1>1, <3>3, <3>4, ChunkWith DEF ChunkState
    <3>6. u.pos = s.pos + 1 + SkipChunk(s.chunk_len) /\ u.pos > s.pos
      BY <1>1, <3>3, <3>5
    <3> HIDE DEF u
    <3> QED BY <1>1, <1>13, <2>3, <3>1, <3>5, <3>6 DEF SP, CR, LF, t
  <2> QED BY <2>1, <2>2, <2>3
<1>14. CASE c \notin {SP, "TAB", CR, LF}
  <2> DEFINE x == (l * 16 + Digit(c)) % Word
             u == [k EXCEPT !.chunk_len = x]
  <2>1. x \in Nat
    <3>1. l * 16 + Digit(c) \in Nat
      BY <1>1, DigitType
    <3> QED BY <3>1, Remainder
  <2>2. u \in ChunkState /\ u.pos = p /\ u.mc = s.mc /\ u.chunk_len = x /\ u.rc = s.rc
    <3> HIDE DEF x
    <3> QED BY <1>10, <2>1
  <2>3. t = u
    BY <1>7, <1>14
  <2> HIDE DEF u
  <2> QED BY <1>1, <1>14, <2>2, <2>3 DEF SP, CR, LF, t
<1> QED BY <1>11, <1>12, <1>13, <1>14
\* ChunkRun is what its recursive definition says, and its values are states of the loops.
LEMMA ChunkRunIs ==
    ASSUME NEW z, NEW s \in ChunkState
    PROVE  /\ ChunkRun(z, s) \in [Nat -> ChunkState]
           /\ \A i \in Nat : i <= s.pos => ChunkRun(z, s)[i] = s
           /\ \A i \in Nat : i + 1 > s.pos => ChunkRun(z, s)[i + 1] = ChunkStep(z, ChunkRun(z, s)[i], i)
<1> DEFINE Body(g) == [i \in Nat |-> IF i <= s.pos THEN s ELSE ChunkStep(z, g[i - 1], i - 1)]
           F == [x \in Nat \X ChunkState |-> IF x[1] + 1 <= s.pos THEN s ELSE ChunkStep(z, x[2], x[1])]
           g1 == CHOOSE g : g = Body(g)
<1>1. s.pos \in Nat
  BY DEF ChunkState
<1>2. \A t \in ChunkState : \A i : ChunkStep(z, t, i) \in ChunkState
  BY ChunkByteIs DEF ChunkStep
<1>3. F \in [Nat \X ChunkState -> ChunkState]
  <2>1. ASSUME NEW x \in Nat \X ChunkState
        PROVE  (IF x[1] + 1 <= s.pos THEN s ELSE ChunkStep(z, x[2], x[1])) \in ChunkState
    <3>1. x[2] \in ChunkState
      OBVIOUS
    <3> QED BY <1>2, <3>1
  <2> QED BY <2>1
<1>4. PICK h \in [Nat -> ChunkState] : h[0] = s /\ \A n \in Nat : h[n + 1] = F[<<n, h[n]>>]
  <2> HIDE DEF F
  <2>1. \E f : Iterates(f, ChunkState, s, F)
    BY <1>3, Recursion
  <2> QED BY <2>1 DEF Iterates
<1>5. \A n \in Nat : h[n + 1] = IF n + 1 <= s.pos THEN s ELSE ChunkStep(z, h[n], n)
  <2>1. SUFFICES ASSUME NEW n \in Nat PROVE h[n + 1] = IF n + 1 <= s.pos THEN s ELSE ChunkStep(z, h[n], n)
    OBVIOUS
  <2>2. h[n] \in ChunkState /\ <<n, h[n]>> \in Nat \X ChunkState
    OBVIOUS
  <2>3. F[<<n, h[n]>>] = IF n + 1 <= s.pos THEN s ELSE ChunkStep(z, h[n], n)
    BY <2>2
  <2> HIDE DEF F
  <2> QED BY <1>4, <2>3
<1> HIDE DEF F
<1>6. h = Body(h)
  <2>1. ASSUME NEW i \in Nat PROVE h[i] = IF i <= s.pos THEN s ELSE ChunkStep(z, h[i - 1], i - 1)
    <3>1. CASE i = 0
      BY <1>1, <1>4, <3>1
    <3>2. CASE i # 0
      <4>1. i - 1 \in Nat /\ (i - 1) + 1 = i
        BY <3>2
      <4> QED BY <1>5, <4>1
    <3> QED BY <3>1, <3>2
  <2> QED BY <2>1
<1>7. g1 = Body(g1)
  <2> HIDE DEF Body
  <2> QED BY <1>6
<1>8. ChunkRun(z, s) = g1
  BY DEF ChunkRun
<1> HIDE DEF g1
<1>9. \A i \in Nat : i <= s.pos => g1[i] = s
  BY <1>7
<1>10. \A i \in Nat : i + 1 > s.pos => g1[i + 1] = ChunkStep(z, g1[i], i)
  <2>1. SUFFICES ASSUME NEW i \in Nat, i + 1 > s.pos PROVE g1[i + 1] = ChunkStep(z, g1[i], i)
    OBVIOUS
  <2>2. i + 1 \in Nat /\ (i + 1) - 1 = i /\ ~ (i + 1 <= s.pos)
    BY <1>1, <2>1
  <2> QED BY <1>7, <2>2
<1>11. \A i \in Nat : g1[i] \in ChunkState
  <2> DEFINE V == {i \in Nat : g1[i] \in ChunkState}
  <2>1. 0 \in V
    BY <1>1, <1>9
  <2>2. ASSUME NEW i \in Nat, i \in V PROVE i + 1 \in V
    <3>1. g1[i + 1] \in ChunkState
      BY <1>1, <1>2, <1>9, <1>10, <2>2
    <3> QED BY <3>1
  <2>3. \A i \in Nat : i \in V
    <3> HIDE DEF V
    <3> QED BY <2>1, <2>2, Induction
  <2> QED BY <2>3
<1>12. g1 \in [Nat -> ChunkState]
  <2>1. g1 = [i \in Nat |-> g1[i]]
    BY <1>7
  <2> QED BY <1>11, <2>1
<1> QED BY <1>8, <1>9, <1>10, <1>12

\* While the loops read on they have passed every byte, and b->pos never goes back.
LEMMA ChunkRunPos ==
    ASSUME NEW z, NEW s \in ChunkState, NEW i \in Nat, i >= s.pos
    PROVE  /\ ChunkRun(z, s)[i].pos >= s.pos
           /\ ChunkRun(z, s)[i].rc = "more" => ChunkRun(z, s)[i].pos >= i
<1> DEFINE run == ChunkRun(z, s)
           p == s.pos
           T == {j \in Nat : run[j].pos >= p /\ (run[j].rc = "more" => run[j].pos >= j)}
<1>1. p \in Nat
  BY DEF ChunkState
<1>2. run \in [Nat -> ChunkState] /\ run[p] = s
      /\ \A j \in Nat : j + 1 > p => run[j + 1] = ChunkStep(z, run[j], j)
  BY <1>1, ChunkRunIs
<1> HIDE DEF run
<1>3. p \in T
  BY <1>1, <1>2
<1>4. ASSUME NEW j \in Nat, j >= p, j \in T PROVE j + 1 \in T
  <2>1. run[j] \in ChunkState /\ run[j + 1] = ChunkStep(z, run[j], j) /\ run[j].pos >= p
        /\ (run[j].rc = "more" => run[j].pos >= j) /\ run[j].pos \in Nat /\ run[j + 1] \in ChunkState
        /\ run[j + 1].pos \in Nat
    <3>1. run[j] \in ChunkState /\ run[j + 1] \in ChunkState
      BY <1>2
    <3> QED BY <1>1, <1>2, <1>4, <3>1 DEF ChunkState
  <2>2. CASE run[j].rc = "more" /\ run[j].pos <= j
    <3>1. run[j + 1] = ChunkByte(run[j], z[j + 1])
      BY <2>1, <2>2 DEF ChunkStep
    <3>2. run[j + 1].pos > run[j].pos
      BY <2>1, <3>1, ChunkByteIs
    <3> QED BY <1>1, <2>1, <2>2, <3>2
  <2>3. CASE ~ (run[j].rc = "more" /\ run[j].pos <= j)
    <3>1. run[j + 1] = run[j]
      BY <2>1, <2>3 DEF ChunkStep
    <3> QED BY <1>1, <2>1, <2>3, <3>1
  <2> QED BY <2>2, <2>3
<1>5. \A j \in Nat : j >= p => j \in T
  <2> HIDE DEF T
  <2> QED BY <1>1, <1>3, <1>4, UpInduction
<1> QED BY <1>5 DEF run
\* A set of numbers below a bound has a largest one.
LEMMA IntervalMax ==
    ASSUME NEW n \in Nat, NEW D, D \subseteq 1..n, D # {}
    PROVE  Max(D) \in D /\ \A y \in D : Max(D) >= y
<1> DEFINE P(k) == \A E : E \subseteq 1..k /\ E # {} => \E x \in E : \A y \in E : x >= y
           T == {k \in Nat : P(k)}
<1>1. 0 \in T
  OBVIOUS
<1>2. ASSUME NEW k \in Nat, k \in T PROVE k + 1 \in T
  <2>1. P(k)
    BY <1>2
  <2>2. ASSUME NEW E, E \subseteq 1..(k + 1), E # {} PROVE \E x \in E : \A y \in E : x >= y
    <3>1. CASE k + 1 \in E
      <4>1. \A y \in E : k + 1 >= y
        BY <2>2
      <4> QED BY <3>1, <4>1
    <3>2. CASE k + 1 \notin E
      <4>1. E \subseteq 1..k
        BY <2>2, <3>2
      <4> QED BY <2>1, <2>2, <4>1
    <3> QED BY <3>1, <3>2
  <2>3. P(k + 1)
    BY <2>2
  <2> HIDE DEF P
  <2> QED BY <2>3
<1>3. P(n)
  <2> HIDE DEF P
  <2>1. \A k \in Nat : k \in T
    <3> HIDE DEF T
    <3> QED BY <1>1, <1>2, Induction
  <2> QED BY <2>1
<1>4. \E x \in D : \A y \in D : x >= y
  BY <1>3
<1> QED BY <1>4, Zenon DEF Max
-----------------------------------------------------------------------------
(* What a call of http_parse_head leaves *)

\* A call begins with kv = NULL
Begin(p, hc) == [hc |-> hc, pos |-> p, kv |-> FALSE, rc |-> "more"]
First == Begin(0, NewHead)

\* The states in which calls begin are states of the loop.
LEMMA BeginType ==
    /\ NewHead \in HeadCache /\ First \in HeadState /\ First.rc = "more" /\ First.pos = 0
    /\ First.hc = NewHead /\ NewHead.status # "HEAD_DONE"
    /\ \A p \in Nat, hc \in HeadCache : CacheIn(hc, p) =>
         /\ Begin(p, hc) \in HeadState /\ Begin(p, hc).rc = "more" /\ Begin(p, hc).pos = p /\ Begin(p, hc).hc = hc
<1>1. NewHead \in HeadCache
  BY DEF NewHead, HeadCache, HeadStatus, Segment, NoSegment, KeyValue
<1>2. CacheIn(NewHead, 0)
  BY DEF NewHead, CacheIn, QueueIn, NoSegment
<1>3. ASSUME NEW p \in Nat, NEW hc \in HeadCache, CacheIn(hc, p)
      PROVE  /\ Begin(p, hc) \in HeadState /\ Begin(p, hc).rc = "more" /\ Begin(p, hc).pos = p
             /\ Begin(p, hc).hc = hc
  BY <1>3 DEF Begin, HeadState
<1>4. NewHead.status # "HEAD_DONE"
  BY DEF NewHead
<1> QED BY <1>1, <1>2, <1>3, <1>4 DEF First

\* The bytes that occur in responses
Char == STRING \cup {SP, COLON, CR, LF, "HTTP/1.1", "OK", "0"}

\* A piece of the buffer is the same in every buffer that begins with the same bytes.
LEMMA BytesPrefix ==
    ASSUME NEW z \in Seq(Char), NEW w \in Seq(Char), NEW n \in Nat, n <= Len(z), n <= Len(w),
           \A i \in 1..n : z[i] = w[i], NEW seg \in Segment, seg.off + seg.len <= n
    PROVE  Bytes(z, seg) = Bytes(w, seg) /\ Bytes(z, seg) \in Seq(Char) /\ Len(Bytes(z, seg)) = seg.len
           /\ \A i \in 1..seg.len : Bytes(z, seg)[i] = z[seg.off + i]
<1> DEFINE lo == seg.off + 1
           hi == seg.off + seg.len
<1>1. lo \in Nat /\ hi \in Nat /\ lo > 0 /\ hi <= n /\ seg.len \in Nat /\ hi - lo + 1 = seg.len /\ lo \in Int /\ hi \in Int
      /\ seg.off \in Nat
  BY DEF Segment
<1>2. \A i \in lo..hi : i \in 1..Len(z) /\ i \in 1..Len(w) /\ i \in 1..n
  <2>1. Len(z) \in Nat /\ Len(w) \in Nat
    OBVIOUS
  <2> DEFINE lz == Len(z)
             lw == Len(w)
  <2> HIDE DEF lo, hi, lz, lw
  <2>2. \A i \in lo..hi : i \in 1..lz /\ i \in 1..lw /\ i \in 1..n
    BY <1>1, <2>1 DEF lz, lw
  <2> QED BY <2>2 DEF lz, lw
<1>3. \A i \in lo..hi : z[i] \in Char /\ w[i] \in Char /\ z[i] = w[i]
  BY <1>2
<1> DEFINE x == SubSeq(z, lo, hi)
           y == SubSeq(w, lo, hi)
<1>4. x \in Seq(Char) /\ Len(x) = (IF lo <= hi THEN hi - lo + 1 ELSE 0)
      /\ \A i \in 1..(hi - lo + 1) : x[i] = z[lo + i - 1]
  <2> HIDE DEF lo, hi
  <2> QED BY <1>1, <1>3, SubSeqProperties
<1>5. y \in Seq(Char) /\ Len(y) = (IF lo <= hi THEN hi - lo + 1 ELSE 0)
      /\ \A i \in 1..(hi - lo + 1) : y[i] = w[lo + i - 1]
  <2> HIDE DEF lo, hi
  <2> QED BY <1>1, <1>3, SubSeqProperties
<1>6. Bytes(z, seg) = x /\ Bytes(w, seg) = y
  BY DEF Bytes
<1> HIDE DEF x, y
<1>7. Len(x) = seg.len /\ Len(y) = seg.len
  BY SMTT(40), <1>1, <1>4, <1>5
<1>8. \A i \in 1..seg.len : lo + i - 1 \in lo..hi /\ lo + i - 1 = seg.off + i
  <2> DEFINE o == seg.off
             l == seg.len
  <2>1. lo = o + 1 /\ hi = o + l /\ o \in Nat /\ l \in Nat
    BY <1>1
  <2> HIDE DEF lo, hi, o, l
  <2>2. \A i \in 1..l : lo + i - 1 \in lo..hi /\ lo + i - 1 = o + i
    BY <2>1
  <2> QED BY <2>2 DEF o, l
<1>9. \A i \in 1..seg.len : x[i] = z[seg.off + i] /\ y[i] = x[i]
  BY <1>1, <1>3, <1>4, <1>5, <1>8
<1>10. x = y
  BY <1>4, <1>5, <1>7, <1>9, SeqEqual
<1> QED BY <1>4, <1>6, <1>7, <1>9, <1>10

\* The bytes of every recorded piece are the same in such buffers.
LEMMA RecordedPrefix ==
    ASSUME NEW z \in Seq(Char), NEW w \in Seq(Char), NEW n \in Nat, n <= Len(z), n <= Len(w),
           \A i \in 1..n : z[i] = w[i], NEW hc \in HeadCache, CacheIn(hc, n)
    PROVE  /\ Bytes(z, hc.code) = Bytes(w, hc.code)
           /\ \A i \in DOMAIN hc.kv_queue :
                /\ Bytes(z, hc.kv_queue[i].key) = Bytes(w, hc.kv_queue[i].key)
                /\ Bytes(z, hc.kv_queue[i].value) = Bytes(w, hc.kv_queue[i].value)
<1>1. hc.code \in Segment /\ hc.code.off + hc.code.len <= n /\ hc.kv_queue \in Seq(KeyValue) /\ QueueIn(hc.kv_queue, n)
  BY DEF HeadCache, CacheIn
<1>2. ASSUME NEW i \in DOMAIN hc.kv_queue
      PROVE  /\ Bytes(z, hc.kv_queue[i].key) = Bytes(w, hc.kv_queue[i].key)
             /\ Bytes(z, hc.kv_queue[i].value) = Bytes(w, hc.kv_queue[i].value)
  <2>1. hc.kv_queue[i] \in KeyValue
    BY <1>1
  <2>2. hc.kv_queue[i].key \in Segment /\ hc.kv_queue[i].value \in Segment
    BY <2>1 DEF KeyValue
  <2>3. hc.kv_queue[i].key.off + hc.kv_queue[i].key.len <= n /\ hc.kv_queue[i].value.off + hc.kv_queue[i].value.len <= n
    BY <1>1 DEF QueueIn
  <2> QED BY <2>2, <2>3, BytesPrefix
<1> QED BY <1>1, <1>2, BytesPrefix

\* What is looked up in the fields depends only on the bytes of the head.
LEMMA FieldsPrefix ==
    ASSUME NEW z \in Seq(Char), NEW w \in Seq(Char), NEW n \in Nat, n <= Len(z), n <= Len(w),
           \A i \in 1..n : z[i] = w[i], NEW hc \in HeadCache, CacheIn(hc, n)
    PROVE  Fields(z, hc, Number) = Fields(w, hc, Number)
<1> DEFINE q == hc.kv_queue
           Has(x, key, value) == \E i \in DOMAIN q : Bytes(x, q[i].key) = <<key>> /\ Bytes(x, q[i].value) = <<value>>
           Lengths(x) == {i \in DOMAIN q : Bytes(x, q[i].key) = <<"Content-Length">>}
           m == Max(Lengths(z))
           Length(x) == IF Lengths(x) = {} THEN hc.content_len ELSE Atoi(Number, Bytes(x, q[Max(Lengths(x))].value))
<1>1. \A i \in DOMAIN q : Bytes(z, q[i].key) = Bytes(w, q[i].key) /\ Bytes(z, q[i].value) = Bytes(w, q[i].value)
  BY RecordedPrefix
<1>2. Lengths(z) = Lengths(w)
  BY <1>1
<1>3. \A key, value : Has(z, key, value) = Has(w, key, value)
  BY <1>1
<1>4. Length(z) = Length(w)
  <2>1. CASE Lengths(z) = {}
    BY <1>2, <2>1
  <2>2. CASE Lengths(z) # {}
    <3>1. m \in DOMAIN q
      <4> DEFINE D == Lengths(z)
      <4>1. D # {} /\ D \subseteq DOMAIN q /\ DOMAIN q = 1..Len(q) /\ Len(q) \in Nat
        BY <2>2 DEF HeadCache
      <4>3. Max(D) \in D
        <5> HIDE DEF D
        <5> QED BY <4>1, IntervalMax
      <4> QED BY <4>1, <4>3
    <3> HIDE DEF m
    <3>2. Bytes(z, q[m].value) = Bytes(w, q[m].value)
      BY <1>1, <3>1
    <3> QED BY <1>2, <3>2 DEF m
  <2> QED BY <2>1, <2>2
<1>5. ASSUME NEW x
      PROVE  Fields(x, hc, Number) = [hc EXCEPT !.content_len = Length(x),
                                        !.chunk_flag = @ \/ Has(x, "Transfer-Encoding", "chunked"),
                                        !.gzip_flag = @ \/ Has(x, "Content-Encoding", "gzip")]
  BY DEF Fields
<1> HIDE DEF Has, Length
<1> QED BY ZenonT(40), <1>3, <1>4, <1>5
\* The three things the client looks up keep the rest of the head cache.
LEMMA FieldsType ==
    ASSUME NEW z, NEW hc \in HeadCache
    PROVE  /\ Fields(z, hc, Number) \in HeadCache
           /\ Fields(z, hc, Number).status = hc.status /\ Fields(z, hc, Number).start = hc.start
           /\ Fields(z, hc, Number).code = hc.code /\ Fields(z, hc, Number).kv_queue = hc.kv_queue
           /\ Fields(z, hc, Number).chunk_flag = (hc.chunk_flag \/ \E i \in DOMAIN hc.kv_queue :
                /\ Bytes(z, hc.kv_queue[i].key) = <<"Transfer-Encoding">>
                /\ Bytes(z, hc.kv_queue[i].value) = <<"chunked">>)
           /\ Fields(z, hc, Number).gzip_flag = (hc.gzip_flag \/ \E i \in DOMAIN hc.kv_queue :
                /\ Bytes(z, hc.kv_queue[i].key) = <<"Content-Encoding">>
                /\ Bytes(z, hc.kv_queue[i].value) = <<"gzip">>)
           /\ Fields(z, hc, Number).content_len =
                LET D == {i \in DOMAIN hc.kv_queue : Bytes(z, hc.kv_queue[i].key) = <<"Content-Length">>}
                IN  IF D = {} THEN hc.content_len ELSE Atoi(Number, Bytes(z, hc.kv_queue[Max(D)].value))
<1> DEFINE q == hc.kv_queue
           D == {i \in DOMAIN q : Bytes(z, q[i].key) = <<"Content-Length">>}
           len == IF D = {} THEN hc.content_len ELSE Atoi(Number, Bytes(z, q[Max(D)].value))
           ch == hc.chunk_flag \/ \E i \in DOMAIN q : Bytes(z, q[i].key) = <<"Transfer-Encoding">>
                                                    /\ Bytes(z, q[i].value) = <<"chunked">>
           gz == hc.gzip_flag \/ \E i \in DOMAIN q : Bytes(z, q[i].key) = <<"Content-Encoding">>
                                                   /\ Bytes(z, q[i].value) = <<"gzip">>
           f == [hc EXCEPT !.content_len = len, !.chunk_flag = ch, !.gzip_flag = gz]
<1>1. Fields(z, hc, Number) = f
  BY DEF Fields
<1>2. \A v : Atoi(Number, v) \in Nat
  BY ResponseAssumption DEF Atoi
<1>3. len \in Nat /\ ch \in BOOLEAN /\ gz \in BOOLEAN
  <2>1. hc.content_len \in Nat
    BY DEF HeadCache
  <2>2. len \in Nat
    <3> HIDE DEF D
    <3> QED BY <1>2, <2>1
  <2> QED BY <2>2
<1> HIDE DEF len, ch, gz
<1>4. f \in HeadCache
  BY <1>3 DEF HeadCache
<1>5. f.status = hc.status /\ f.start = hc.start /\ f.code = hc.code /\ f.kv_queue = hc.kv_queue
      /\ f.content_len = len /\ f.chunk_flag = ch /\ f.gzip_flag = gz
  BY DEF HeadCache
<1> HIDE DEF f
<1> QED BY <1>1, <1>4, <1>5 DEF len, ch, gz

\* What the end of a call adds to the state of the loop.
LEMMA CheckedIs ==
    ASSUME NEW z, NEW s \in HeadState
    PROVE  /\ Checked(z, s, Number) \in HeadState
           /\ Checked(z, s, Number).pos = s.pos
           /\ Checked(z, s, Number).hc.status = s.hc.status
           /\ Checked(z, s, Number).hc.kv_queue = s.hc.kv_queue
           /\ s.rc # "parsed" => Checked(z, s, Number) = s
           /\ s.rc = "parsed" /\ Bytes(z, s.hc.code) = <<"200">> =>
                Checked(z, s, Number).rc = "parsed" /\ Checked(z, s, Number).hc = Fields(z, s.hc, Number)
           /\ s.rc = "parsed" /\ Bytes(z, s.hc.code) # <<"200">> =>
                Checked(z, s, Number).rc = "error" /\ Checked(z, s, Number).hc = s.hc
<1> DEFINE K == BOOLEAN
<1>1. s \in [hc: HeadCache, pos: Nat, kv: K, rc: Returned] /\ CacheIn(s.hc, s.pos) /\ s.hc \in HeadCache
  BY DEF HeadState, Returned
<1>2. CASE s.rc # "parsed"
  BY <1>2 DEF Checked
<1>3. CASE s.rc = "parsed" /\ Bytes(z, s.hc.code) = <<"200">>
  <2> DEFINE h == Fields(z, s.hc, Number)
             t == [s EXCEPT !.hc = h]
  <2>1. Checked(z, s, Number) = t
    BY <1>3 DEF Checked
  <2>2. h \in HeadCache /\ h.status = s.hc.status /\ h.start = s.hc.start /\ h.code = s.hc.code
        /\ h.kv_queue = s.hc.kv_queue
    BY <1>1, FieldsType
  <2> HIDE DEF h
  <2>3. t \in [hc: HeadCache, pos: Nat, kv: K, rc: Returned] /\ t.hc = h /\ t.pos = s.pos /\ t.rc = s.rc
    <3> HIDE DEF K
    <3> QED BY <1>1, <2>2
  <2>4. CacheIn(h, s.pos)
    BY <1>1, <2>2 DEF CacheIn
  <2> HIDE DEF t
  <2>5. t \in HeadState
    BY <2>3, <2>4 DEF HeadState, Returned
  <2> QED BY <1>3, <2>1, <2>2, <2>3, <2>5 DEF h
<1>4. CASE s.rc = "parsed" /\ Bytes(z, s.hc.code) # <<"200">>
  <2> DEFINE t == [s EXCEPT !.rc = "error"]
  <2>1. Checked(z, s, Number) = t
    BY <1>4 DEF Checked
  <2>2. "error" \in Returned /\ TRUE \in BOOLEAN
    BY DEF Returned
  <2>3. t \in HeadState /\ t.hc = s.hc /\ t.pos = s.pos /\ t.rc = "error"
    BY <2>2, SetType
  <2> HIDE DEF t
  <2> QED BY <1>4, <2>1, <2>3
<1> QED BY <1>2, <1>3, <1>4

\* It does not depend on kv, and only on the bytes of the head.
LEMMA CheckedSame ==
    ASSUME NEW z, NEW s \in HeadState, NEW t \in HeadState, Same(s, t)
    PROVE  Same(Checked(z, s, Number), Checked(z, t, Number))
<1>1. s.hc = t.hc /\ s.pos = t.pos /\ s.rc = t.rc
  BY DEF Same
<1> DEFINE a == Checked(z, s, Number)
           d == Checked(z, t, Number)
<1>2. a.pos = s.pos /\ d.pos = t.pos /\ (s.rc # "parsed" => a = s /\ d = t)
      /\ (s.rc = "parsed" /\ Bytes(z, s.hc.code) = <<"200">> =>
            a.rc = "parsed" /\ a.hc = Fields(z, s.hc, Number) /\ d.rc = "parsed" /\ d.hc = Fields(z, t.hc, Number))
      /\ (s.rc = "parsed" /\ Bytes(z, s.hc.code) # <<"200">> =>
            a.rc = "error" /\ a.hc = s.hc /\ d.rc = "error" /\ d.hc = t.hc)
  BY <1>1, CheckedIs
<1> HIDE DEF a, d
<1>3. Same(a, d)
  BY <1>1, <1>2 DEF Same
<1> QED BY <1>3 DEF a, d

\* Buffers that begin with the same head give the same result.
LEMMA CheckedPrefix ==
    ASSUME NEW z \in Seq(Char), NEW w \in Seq(Char), NEW n \in Nat, n <= Len(z), n <= Len(w),
           \A i \in 1..n : z[i] = w[i], NEW s \in HeadState, CacheIn(s.hc, n)
    PROVE  Checked(z, s, Number) = Checked(w, s, Number)
<1>1. s.hc \in HeadCache
  BY StateOf
<1>2. Bytes(z, s.hc.code) = Bytes(w, s.hc.code)
  BY <1>1, RecordedPrefix
<1>3. Fields(z, s.hc, Number) = Fields(w, s.hc, Number)
  BY <1>1, FieldsPrefix
<1> QED BY <1>2, <1>3 DEF Checked
\* What lies before an offset lies before a later one.
LEMMA CacheInUp ==
    ASSUME NEW hc \in HeadCache, NEW p \in Nat, NEW n \in Nat, p <= n, CacheIn(hc, p)
    PROVE  CacheIn(hc, n)
<1>1. hc.start \in Nat /\ hc.code \in Segment /\ hc.kv_queue \in Seq(KeyValue) /\ hc.start <= p
      /\ hc.code.off + hc.code.len <= p /\ QueueIn(hc.kv_queue, p)
  BY DEF HeadCache, CacheIn
<1>2. hc.start <= n /\ hc.code.off + hc.code.len <= n
  BY <1>1 DEF Segment
<1>3. ASSUME NEW i \in DOMAIN hc.kv_queue
      PROVE  /\ hc.kv_queue[i].key.off + hc.kv_queue[i].key.len <= n
             /\ hc.kv_queue[i].value.off + hc.kv_queue[i].value.len <= n
  <2>1. hc.kv_queue[i] \in KeyValue
    BY <1>1
  <2>2. hc.kv_queue[i].key \in Segment /\ hc.kv_queue[i].value \in Segment
    BY <2>1 DEF KeyValue
  <2>3. hc.kv_queue[i].key.off + hc.kv_queue[i].key.len <= p
        /\ hc.kv_queue[i].value.off + hc.kv_queue[i].value.len <= p
    BY <1>1 DEF QueueIn
  <2> QED BY <2>2, <2>3 DEF Segment
<1> QED BY <1>2, <1>3 DEF CacheIn, QueueIn

\* The loop over the first n bytes of z, and the whole call
Looped(z, n) == HeadRun(z, First)[n]
At(z, n) == Checked(z, Looped(z, n), Number)

\* What is known of them at any point.
LEMMA AtType ==
    ASSUME NEW z, NEW n \in Nat
    PROVE  /\ Looped(z, n) \in HeadState /\ Looped(z, n).pos \in Nat /\ Looped(z, n).pos <= n
           /\ At(z, n) \in HeadState /\ At(z, n).pos = Looped(z, n).pos
           /\ At(z, n).hc \in HeadCache /\ CacheIn(At(z, n).hc, Looped(z, n).pos) /\ CacheIn(At(z, n).hc, n)
           /\ CacheIn(Looped(z, n).hc, n)
           /\ At(z, n).hc.status = Looped(z, n).hc.status /\ At(z, n).hc.kv_queue = Looped(z, n).hc.kv_queue
           /\ Looped(z, n).hc.status = "HEAD_DONE" <=> Looped(z, n).rc = "parsed"
           /\ Looped(z, n).rc = "more" => Looped(z, n).pos = n
           /\ At(z, n).rc = "more" <=> Looped(z, n).rc = "more"
           /\ At(z, n).rc = "parsed" => Looped(z, n).rc = "parsed"
           /\ Looped(z, n).rc # "parsed" => At(z, n) = Looped(z, n)
           /\ At(z, n).rc \in Returned
<1> DEFINE u == Looped(z, n)
           v == At(z, n)
<1>1. First \in HeadState /\ First.rc = "more" /\ First.pos = 0 /\ First.hc.status # "HEAD_DONE"
  BY BeginType
<1>2. n >= First.pos
  BY <1>1
<1>3. u \in HeadState
  BY <1>1, HeadRunIs DEF Looped
<1>4. (u.rc = "more" => u.pos = n) /\ u.pos <= n
  BY <1>1, <1>2, RunCounts DEF Looped
<1>5. u.hc.status = "HEAD_DONE" <=> u.rc = "parsed"
  BY <1>1, <1>2, RunParses DEF Looped
<1> HIDE DEF u
<1>6. v = Checked(z, u, Number)
  BY DEF At, u
<1>7. v \in HeadState /\ v.pos = u.pos /\ v.hc.status = u.hc.status /\ v.hc.kv_queue = u.hc.kv_queue
      /\ (v.rc = "more" <=> u.rc = "more") /\ (v.rc = "parsed" => u.rc = "parsed") /\ (u.rc # "parsed" => v = u)
  BY <1>3, <1>6, CheckedIs
<1> HIDE DEF v
<1>8. u.pos \in Nat /\ u.hc \in HeadCache /\ CacheIn(u.hc, u.pos) /\ v.hc \in HeadCache /\ CacheIn(v.hc, v.pos)
      /\ v.rc \in Returned
  BY <1>3, <1>7, StateOf
<1>9. CacheIn(u.hc, n) /\ CacheIn(v.hc, n)
  BY <1>4, <1>7, <1>8, CacheInUp
<1> QED BY <1>3, <1>4, <1>5, <1>7, <1>8, <1>9 DEF u, v

\* Once the head is done, or refused, more bytes change nothing.
LEMMA AtStays ==
    ASSUME NEW z, NEW n \in Nat, NEW m \in Nat, n <= m, Looped(z, n).rc # "more"
    PROVE  Looped(z, m) = Looped(z, n) /\ At(z, m) = At(z, n)
<1>1. First \in HeadState /\ First.rc = "more" /\ First.pos = 0
  BY BeginType
<1>2. n >= First.pos /\ m >= n
  BY <1>1
<1>3. Looped(z, m) = Looped(z, n)
  BY <1>1, <1>2, RunCounts DEF Looped
<1> QED BY <1>3 DEF At

\* The first m elements of a sequence.
LEMMA Cut ==
    ASSUME NEW z \in Seq(Char), NEW m \in Nat, m <= Len(z)
    PROVE  /\ SubSeq(z, 1, m) \in Seq(Char) /\ Len(SubSeq(z, 1, m)) = m
           /\ \A i \in 1..m : SubSeq(z, 1, m)[i] = z[i]
<1>1. 1 \in Int /\ m \in Int /\ \A i \in 1..m : z[i] \in Char
  OBVIOUS
<1> DEFINE w == SubSeq(z, 1, m)
<1>2. w \in Seq(Char) /\ Len(w) = (IF 1 <= m THEN m - 1 + 1 ELSE 0) /\ \A i \in 1..(m - 1 + 1) : w[i] = z[1 + i - 1]
  BY <1>1, SubSeqProperties
<1> HIDE DEF w
<1>3. Len(w) = m /\ m - 1 + 1 = m /\ \A i \in 1..m : 1 + i - 1 = i
  BY <1>2
<1>4. \A i \in 1..m : w[i] = z[i]
  BY <1>2, <1>3
<1> QED BY <1>2, <1>3, <1>4 DEF w

\* One call on all the bytes there are.
LEMMA OneCall ==
    ASSUME NEW z \in Seq(Char), NEW m \in Nat, m <= Len(z)
    PROVE  http_parse_head(SubSeq(z, 1, m), 0, NewHead, Number) = At(z, m)
<1> DEFINE w == SubSeq(z, 1, m)
<1>1. w \in Seq(Char) /\ Len(w) = m /\ \A i \in 1..m : w[i] = z[i]
  BY Cut
<1> HIDE DEF w
<1>2. First \in HeadState /\ m \in 0..m
  BY BeginType
<1>3. HeadRun(w, First)[m] = HeadRun(z, First)[m]
  <2>0. Agree(w, z, m)
    BY <1>1 DEF Agree
  <2>1. \A i \in 0..m : HeadRun(w, First)[i] = HeadRun(z, First)[i]
    BY <1>2, <2>0, RunPrefix
  <2> QED BY <1>2, <2>1
<1>4. http_parse_head(w, 0, NewHead, Number) = Checked(w, Looped(z, m), Number)
  BY <1>1, <1>3 DEF http_parse_head, Looped, First, Begin
<1>5. Looped(z, m) \in HeadState /\ CacheIn(Looped(z, m).hc, m)
  BY AtType
<1>6. Checked(w, Looped(z, m), Number) = Checked(z, Looped(z, m), Number)
  <2> DEFINE l == Looped(z, m)
  <2>1. l \in HeadState /\ CacheIn(l.hc, m) /\ m <= Len(w)
    BY <1>1, <1>5
  <2> HIDE DEF l
  <2>2. Checked(w, l, Number) = Checked(z, l, Number)
    BY <1>1, <2>1, CheckedPrefix
  <2> QED BY <2>2 DEF l
<1> QED BY <1>4, <1>6 DEF At, w

\* A call that goes on where the last one stopped in the middle of the head.
LEMMA NextCall ==
    ASSUME NEW z \in Seq(Char), NEW n \in Nat, NEW m \in Nat, n <= m, m <= Len(z), Looped(z, n).rc = "more"
    PROVE  /\ http_parse_head(SubSeq(z, 1, m), n, Looped(z, n).hc, Number) \in HeadState
           /\ Same(http_parse_head(SubSeq(z, 1, m), n, Looped(z, n).hc, Number), At(z, m))
<1> DEFINE w == SubSeq(z, 1, m)
           u == Looped(z, n)
           t == Begin(n, u.hc)
<1>1. w \in Seq(Char) /\ Len(w) = m /\ \A i \in 1..m : w[i] = z[i]
  BY Cut
<1>2. First \in HeadState /\ First.pos = 0 /\ m \in 0..m /\ n \in 0..m
  BY BeginType
<1>3. u \in HeadState /\ u.pos = n /\ u.hc \in HeadCache /\ CacheIn(u.hc, n)
  BY AtType, StateOf
<1>4. t \in HeadState /\ t.rc = "more" /\ t.pos = n /\ t.hc = u.hc
  BY <1>3, BeginType
<1> HIDE DEF w
<1>5. HeadRun(w, First)[n] = u /\ HeadRun(w, First)[m] = Looped(z, m)
  <2>0. Agree(w, z, m)
    BY <1>1 DEF Agree
  <2>1. \A i \in 0..m : HeadRun(w, First)[i] = HeadRun(z, First)[i]
    BY <1>2, <2>0, RunPrefix
  <2> QED BY <1>2, <2>1 DEF Looped
<1> HIDE DEF u
<1>6. u.rc = "more"
  BY DEF u
<1>7. Same(u, t)
  BY <1>3, <1>4, <1>6 DEF Same
<1> HIDE DEF t
<1>8. Same(HeadRun(w, First)[m], HeadRun(w, t)[m])
  <2>1. t.pos >= First.pos /\ m >= t.pos /\ Same(HeadRun(w, First)[t.pos], t)
    BY <1>2, <1>4, <1>5, <1>7
  <2> QED BY <1>2, <1>4, <2>1, RunJoins
<1> DEFINE x == HeadRun(w, t)[m]
           l == Looped(z, m)
<1>9. x \in HeadState /\ l \in HeadState /\ CacheIn(l.hc, m)
  BY <1>4, HeadRunIs, AtType
<1>10. http_parse_head(w, n, u.hc, Number) = Checked(w, x, Number)
  BY <1>1 DEF http_parse_head, t, Begin
<1> HIDE DEF x, l
<1>11. Same(x, l)
  BY <1>5, <1>8 DEF Same, x, l
<1>12. Same(Checked(w, x, Number), Checked(w, l, Number))
  BY <1>9, <1>11, CheckedSame
<1>13. Checked(w, l, Number) = Checked(z, l, Number)
  <2>1. m <= Len(w)
    BY <1>1
  <2> QED BY <1>1, <1>9, <2>1, CheckedPrefix
<1>14. Checked(w, x, Number) \in HeadState
  BY <1>9, CheckedIs
<1> QED BY <1>10, <1>12, <1>13, <1>14 DEF At, l, w, u

\* A second pass, over a head that is done already: nothing is recorded, and the call does not return
\* a head.
LEMMA SecondPass ==
    ASSUME NEW w, NEW p \in Nat, NEW hc \in HeadCache, CacheIn(hc, p), hc.status = "HEAD_DONE", Len(w) \in Nat
    PROVE  LET h == http_parse_head(w, p, hc, Number) IN
           h.hc = hc /\ h.rc \in {"more", "error"} /\ h.pos \in Nat /\ h.pos >= p
<1> DEFINE t == Begin(p, hc)
           n == Len(w)
           x == HeadRun(w, t)[n]
<1>1. t \in HeadState /\ t.rc = "more" /\ t.pos = p /\ t.hc = hc
  BY BeginType
<1>2. http_parse_head(w, p, hc, Number) = Checked(w, x, Number)
  BY DEF http_parse_head, Begin
<1>3. x \in HeadState /\ x.hc = hc /\ x.rc # "parsed" /\ x.pos >= p
  <2> HIDE DEF t, n
  <2>0. n \in Nat
    BY DEF n
  <2>1. x \in HeadState
    BY <1>1, <2>0, HeadRunIs
  <2>2. CASE n <= p
    <3>1. x = t
      BY <1>1, <2>0, <2>2, HeadRunIs
    <3> QED BY <1>1, <2>1, <3>1
  <2>3. CASE n > p
    <3>1. n >= t.pos
      BY <1>1, <2>0, <2>3
    <3>2. x.hc = hc /\ x.rc # "parsed"
      BY <1>1, <2>0, <3>1, RunDone
    <3>3. x.pos >= p
      BY <1>1, <2>0, <3>1, RunCounts
    <3> QED BY <2>1, <3>2, <3>3
  <2> QED BY <2>0, <2>2, <2>3
<1> HIDE DEF x
<1>4. Checked(w, x, Number) = x
  BY <1>3 DEF Checked
<1>5. x.pos \in Nat /\ x.rc \in Returned
  BY <1>3, StateOf
<1> QED BY <1>2, <1>3, <1>4, <1>5 DEF Returned
-----------------------------------------------------------------------------
(* What a call of http_parse_html leaves *)

\* The records of a body whose chunks or page may be set, whatever they are
HtmlRecord(D, F) == [status: {"LEN_DONE", "LEN_HALF"}, chunk_sum: Nat, chunk_queue: Seq(Segment),
                     chunks: D, done: BOOLEAN, html: F]
BodyRecord(D, F) == [mc: HtmlRecord(D, F), pos: Nat, chunk_len: Nat, rc: ChunkResult]

\* The last chunk: all chunks are put together.
LEMMA CollectedIs ==
    ASSUME NEW z, NEW s \in ChunkState
    PROVE  LET t == Collected(z, s) IN
           /\ s.rc # "done" => t = s
           /\ s.rc = "done" =>
                /\ t.mc.done /\ t.mc.chunk_sum = s.mc.chunk_sum
                /\ t.mc.chunks = FlattenSeq([k \in DOMAIN s.mc.chunk_queue |-> Bytes(z, s.mc.chunk_queue[k])])
           /\ t.pos = s.pos /\ t.rc = s.rc
           /\ \E D : t \in BodyRecord(D, {NULL_BUF})
<1>1. CASE s.rc # "done"
  <2>1. Collected(z, s) = s
    BY <1>1 DEF Collected
  <2>2. s \in BodyRecord({<<>>}, {NULL_BUF})
    <3>1. s.mc \in HtmlRecord({<<>>}, {NULL_BUF})
      BY DEF ChunkState, HtmlCache, HtmlRecord
    <3> QED BY <3>1 DEF ChunkState, BodyRecord
  <2> QED BY <1>1, <2>1, <2>2
<1>2. CASE s.rc = "done"
  <2> DEFINE x == FlattenSeq([k \in DOMAIN s.mc.chunk_queue |-> Bytes(z, s.mc.chunk_queue[k])])
             m == [s.mc EXCEPT !.done = TRUE, !.chunks = x]
             t == [s EXCEPT !.mc = m]
  <2>1. Collected(z, s) = t
    BY <1>2 DEF Collected
  <2> HIDE DEF x
  <2>2. m \in HtmlRecord({x}, {NULL_BUF}) /\ m.done /\ m.chunks = x /\ m.chunk_sum = s.mc.chunk_sum
    BY DEF ChunkState, HtmlCache, HtmlRecord
  <2> HIDE DEF m
  <2>3. t \in BodyRecord({x}, {NULL_BUF}) /\ t.mc = m /\ t.pos = s.pos /\ t.rc = s.rc
    BY <2>2 DEF ChunkState, BodyRecord
  <2> HIDE DEF t
  <2> QED BY <1>2, <2>1, <2>2, <2>3 DEF x
<1> QED BY <1>1, <1>2

\* The body becomes the page.
LEMMA PagedIs ==
    ASSUME NEW D, NEW F, NEW s \in BodyRecord(D, F), NEW gz \in BOOLEAN
    PROVE  LET t == Paged(s, gz) IN
           /\ s.rc = "error" \/ ~s.mc.done => t = s
           /\ s.rc # "error" /\ s.mc.done /\ gz /\ ~Compressed(s.mc.chunks) => t.mc = s.mc /\ t.rc = "error"
           /\ s.rc # "error" /\ s.mc.done /\ (gz => Compressed(s.mc.chunks)) =>
                t.mc.html = MakeHtml(s.mc, gz) /\ t.rc = s.rc /\ t.mc.done
           /\ t.pos = s.pos /\ t.mc.status = s.mc.status /\ t.rc \in ChunkResult
<1>0. "error" \in ChunkResult /\ s.rc \in ChunkResult /\ s.mc \in HtmlRecord(D, F)
  BY DEF ChunkResult, BodyRecord
<1>1. CASE s.rc = "error" \/ ~s.mc.done
  BY <1>0, <1>1 DEF Paged
<1>2. CASE s.rc # "error" /\ s.mc.done /\ gz /\ ~Compressed(s.mc.chunks)
  <2> DEFINE t == [s EXCEPT !.rc = "error"]
  <2>1. Paged(s, gz) = t
    BY <1>2 DEF Paged
  <2>2. t.mc = s.mc /\ t.rc = "error" /\ t.pos = s.pos
    BY DEF BodyRecord
  <2> HIDE DEF t
  <2> QED BY <1>0, <1>2, <2>1, <2>2
<1>3. CASE s.rc # "error" /\ s.mc.done /\ (gz => Compressed(s.mc.chunks))
  <2> DEFINE y == MakeHtml(s.mc, gz)
             t == [s EXCEPT !.mc.html = y]
  <2>1. Paged(s, gz) = t
    BY <1>3 DEF Paged
  <2> HIDE DEF y
  <2>2. t.mc = [s.mc EXCEPT !.html = y] /\ t.rc = s.rc /\ t.pos = s.pos
    BY DEF BodyRecord
  <2> DEFINE m == [s.mc EXCEPT !.html = y]
  <2>3. m.html = y /\ m.done = s.mc.done /\ m.status = s.mc.status
    BY <1>0 DEF HtmlRecord
  <2> HIDE DEF t, m
  <2>4. t.mc = m
    BY <2>2 DEF m
  <2> QED BY <1>0, <1>3, <2>1, <2>2, <2>3, <2>4 DEF y
<1> QED BY <1>1, <1>2, <1>3

\* A chunked body goes through the loops, from where the last call stopped.
ChunkBegin(p, mc) == [mc |-> mc, pos |-> p, chunk_len |-> 0, rc |-> "more"]

\* The state in which a call over a chunked body begins is one of the loops'.
LEMMA ChunkBeginType ==
    ASSUME NEW p \in Nat, NEW mc \in HtmlCache
    PROVE  /\ ChunkBegin(p, mc) \in ChunkState /\ ChunkBegin(p, mc).pos = p /\ ChunkBegin(p, mc).mc = mc
           /\ ChunkBegin(p, mc).chunk_len = 0 /\ ChunkBegin(p, mc).rc = "more"
BY DEF ChunkBegin, ChunkState, ChunkResult

\* A call moves b->pos forward only, and until mc->chunks is set the cache stays one that can be
\* gone on with.
LEMMA HtmlCall ==
    ASSUME NEW z, Len(z) \in Nat, NEW p \in Nat, NEW mc \in HtmlCache, NEW hc \in HeadCache
    PROVE  LET m == http_parse_html(z, p, mc, hc) IN
           /\ m.pos \in Nat /\ m.pos >= p /\ m.mc.status \in {"LEN_DONE", "LEN_HALF"} /\ m.rc \in ChunkResult
           /\ m.mc.done \in BOOLEAN /\ (~m.mc.done => m.mc \in HtmlCache)
<1> DEFINE m == http_parse_html(z, p, mc, hc)
<1>0. hc.gzip_flag \in BOOLEAN /\ hc.chunk_flag \in BOOLEAN /\ hc.content_len \in Nat
  BY DEF HeadCache
<1>1. CASE hc.chunk_flag
  <2> DEFINE n == Len(z)
             t == ChunkBegin(p, mc)
             s == ChunkRun(z, t)[n]
             c == Collected(z, s)
  <2>1. t \in ChunkState /\ t.pos = p
    BY ChunkBeginType
  <2>2. m = Paged(c, hc.gzip_flag)
    BY <1>1 DEF http_parse_html, ParseChunks, ChunkBegin
  <2> HIDE DEF t
  <2>3. s \in ChunkState
    BY <2>1, ChunkRunIs
  <2>4. s.pos >= p
    <3>1. CASE n >= p
      BY <2>1, <3>1, ChunkRunPos
    <3>2. CASE n <= p
      BY <2>1, <3>2, ChunkRunIs
    <3> QED BY <3>1, <3>2
  <2>5. s.pos \in Nat /\ s.mc \in HtmlCache
    BY <2>3 DEF ChunkState
  <2> HIDE DEF s
  <2>6. PICK D : c \in BodyRecord(D, {NULL_BUF})
    BY <2>3, CollectedIs
  <2>7. c.pos = s.pos /\ c.rc = s.rc /\ (s.rc # "done" => c = s) /\ (s.rc = "done" => c.mc.done)
    BY <2>3, CollectedIs
  <2>8. c.mc.status \in {"LEN_DONE", "LEN_HALF"} /\ c.mc.done \in BOOLEAN
    BY <2>6 DEF BodyRecord, HtmlRecord
  <2>9. ~c.mc.done => c.mc \in HtmlCache
    BY <2>5, <2>7
  <2> HIDE DEF c
  <2> DEFINE g == hc.gzip_flag
             x == Paged(c, g)
  <2>a. g \in BOOLEAN
    BY <1>0
  <2> HIDE DEF g
  <2>10. /\ c.rc = "error" \/ ~c.mc.done => x = c
         /\ c.rc # "error" /\ c.mc.done /\ g /\ ~Compressed(c.mc.chunks) => x.mc = c.mc /\ x.rc = "error"
         /\ c.rc # "error" /\ c.mc.done /\ (g => Compressed(c.mc.chunks)) =>
                x.mc.html = MakeHtml(c.mc, g) /\ x.rc = c.rc /\ x.mc.done
         /\ x.pos = c.pos /\ x.mc.status = c.mc.status /\ x.rc \in ChunkResult
    BY <2>6, <2>a, PagedIs
  <2> HIDE DEF x
  <2>11. m = x
    BY <2>2 DEF x, g
  <2>12. x.mc.done \in BOOLEAN /\ (~x.mc.done => x.mc \in HtmlCache)
    BY <2>8, <2>9, <2>10, Zenon
  <2> QED BY <2>4, <2>5, <2>7, <2>8, <2>10, <2>11, <2>12
<1>2. CASE ~hc.chunk_flag
  <2> DEFINE c == ParseLength(z, p, mc, hc.content_len)
             g == hc.gzip_flag
             x == Paged(c, g)
             l == hc.content_len
             v == SubSeq(z, p + 1, p + l)
             mm == [mc EXCEPT !.done = TRUE, !.chunk_sum = l, !.chunks = v]
  <2>1. m = x
    BY <1>2 DEF http_parse_html
  <2>2. g \in BOOLEAN /\ l \in Nat /\ "more" \in ChunkResult
    BY <1>0 DEF ChunkResult
  <2>3. c = [mc |-> IF l # 0 /\ Len(z) >= p + l THEN mm ELSE mc, pos |-> p, chunk_len |-> 0, rc |-> "more"]
    BY DEF ParseLength
  <2> HIDE DEF v, l, g, c
  <2>4. mm \in HtmlRecord({v, <<>>}, {NULL_BUF}) /\ mm.done
    BY <2>2 DEF HtmlCache, HtmlRecord
  <2>5. mc \in HtmlRecord({v, <<>>}, {NULL_BUF})
    BY DEF HtmlCache, HtmlRecord
  <2> HIDE DEF mm
  <2>6. c \in BodyRecord({v, <<>>}, {NULL_BUF}) /\ c.pos = p /\ (c.mc.done \/ c.mc = mc) /\ c.rc = "more"
        /\ c.mc \in HtmlRecord({v, <<>>}, {NULL_BUF})
    BY <2>2, <2>3, <2>4, <2>5 DEF BodyRecord
  <2>7. c.mc.status \in {"LEN_DONE", "LEN_HALF"} /\ c.mc.done \in BOOLEAN
    BY <2>6 DEF HtmlRecord
  <2>10. /\ c.rc = "error" \/ ~c.mc.done => x = c
         /\ c.rc # "error" /\ c.mc.done /\ g /\ ~Compressed(c.mc.chunks) => x.mc = c.mc /\ x.rc = "error"
         /\ c.rc # "error" /\ c.mc.done /\ (g => Compressed(c.mc.chunks)) =>
                x.mc.html = MakeHtml(c.mc, g) /\ x.rc = c.rc /\ x.mc.done
         /\ x.pos = c.pos /\ x.mc.status = c.mc.status /\ x.rc \in ChunkResult
    BY <2>2, <2>6, PagedIs
  <2> HIDE DEF x
  <2>12. x.mc.done \in BOOLEAN /\ (~x.mc.done => x.mc \in HtmlCache)
    BY <2>6, <2>7, <2>10, Zenon
  <2> QED BY <2>1, <2>6, <2>7, <2>10, <2>12
<1> QED BY <1>0, <1>1, <1>2
-----------------------------------------------------------------------------
(* The growing buffers *)

\* However much is written to it, a growing buffer has room for one more byte.
LEMMA GrownHolds ==
    ASSUME NEW e \in Nat \ {0}, NEW n \in Nat
    PROVE  Grown(e, n) \in Nat /\ Grown(e, n) > n
<1> DEFINE S == Nat \ {0}
           N(x) == IF Full(x, n) THEN resize_temp_buf(x) ELSE x
           Body(g) == [k \in Nat |-> IF k = 0 THEN e ELSE N(g[k - 1])]
           F == [x \in Nat \X S |-> N(x[2])]
           g1 == CHOOSE g : g = Body(g)
<1>1. \A x \in S : N(x) \in S /\ (x > n => N(x) = x) /\ (x <= n => N(x) >= x + 1)
  BY HtmlAssumption DEF Full, resize_temp_buf
<1> HIDE DEF N, S
<1>2. F \in [Nat \X S -> S]
  <2>1. ASSUME NEW x \in Nat \X S PROVE N(x[2]) \in S
    <3>1. x[2] \in S
      OBVIOUS
    <3> QED BY <1>1, <3>1
  <2> QED BY <2>1
<1>3. e \in S
  BY DEF S
<1>4. PICK h \in [Nat -> S] : h[0] = e /\ \A k \in Nat : h[k + 1] = F[<<k, h[k]>>]
  <2> HIDE DEF F
  <2>1. \E f : Iterates(f, S, e, F)
    BY <1>2, <1>3, Recursion
  <2> QED BY <2>1 DEF Iterates
<1>5. \A k \in Nat : h[k + 1] = N(h[k])
  <2>1. SUFFICES ASSUME NEW k \in Nat PROVE h[k + 1] = N(h[k])
    OBVIOUS
  <2>2. h[k] \in S /\ <<k, h[k]>> \in Nat \X S
    OBVIOUS
  <2>3. F[<<k, h[k]>>] = N(h[k])
    BY <2>2
  <2> HIDE DEF F
  <2> QED BY <1>4, <2>3
<1> HIDE DEF F
<1>6. h = Body(h)
  <2>1. ASSUME NEW i \in Nat PROVE h[i] = IF i = 0 THEN e ELSE N(h[i - 1])
    <3>1. CASE i = 0
      BY <1>4, <3>1
    <3>2. CASE i # 0
      <4>1. i - 1 \in Nat /\ (i - 1) + 1 = i
        BY <3>2
      <4> QED BY <1>5, <3>2, <4>1
    <3> QED BY <3>1, <3>2
  <2> QED BY <2>1
<1>7. g1 = Body(g1)
  <2> HIDE DEF Body
  <2> QED BY <1>6
<1>8. Grown(e, n) = g1[n + 1]
  BY DEF Grown, N
<1> HIDE DEF g1
<1>9. g1[0] = e /\ \A k \in Nat : g1[k + 1] = N(g1[k])
  <2>1. g1[0] = e
    BY <1>7
  <2>2. ASSUME NEW k \in Nat PROVE g1[k + 1] = N(g1[k])
    <3>1. k + 1 \in Nat /\ k + 1 # 0 /\ (k + 1) - 1 = k
      OBVIOUS
    <3> QED BY <1>7, <3>1
  <2> QED BY <2>1, <2>2
<1> DEFINE T == {k \in Nat : g1[k] \in S /\ (g1[k] > n \/ g1[k] >= k + 1)}
<1>10. 0 \in T
  BY <1>3, <1>9 DEF S
<1>11. ASSUME NEW k \in Nat, k \in T PROVE k + 1 \in T
  <2> DEFINE x == g1[k]
  <2>1. x \in S /\ (x > n \/ x >= k + 1) /\ g1[k + 1] = N(x)
    BY <1>9, <1>11
  <2> HIDE DEF x
  <2>2. N(x) \in S /\ (N(x) > n \/ N(x) >= (k + 1) + 1)
    BY <1>1, <2>1 DEF S
  <2> QED BY <2>1, <2>2
<1>12. n + 1 \in T
  <2>1. \A k \in Nat : k \in T
    <3> HIDE DEF T
    <3> QED BY <1>10, <1>11, Induction
  <2> QED BY <2>1
<1> QED BY <1>8, <1>12 DEF S
-----------------------------------------------------------------------------
(* The bytes of a response *)

Line(f) == <<f.key, COLON, SP>> \o f.value \o CRLF
Lines(r) == [i \in 1..Len(r.fields) |-> Line(r.fields[i])]
Parts(r) == [i \in 1..Len(r.pieces) |-> PieceOf(r, r.pieces[i])]
StatusLine(r) == <<"HTTP/1.1", SP, r.code, SP, "OK", CR, LF>>
LastChunk(r) == IF r.chunked THEN <<"0", CR, LF, CR, LF>> ELSE <<>>

\* Two sequences one after the other.
LEMMA Joined ==
    ASSUME NEW T, NEW u \in Seq(T), NEW v \in Seq(T)
    PROVE  /\ u \o v \in Seq(T) /\ Len(u) \in Nat /\ Len(v) \in Nat /\ Len(u \o v) = Len(u) + Len(v)
           /\ \A i \in 1..Len(u) : (u \o v)[i] = u[i]
           /\ \A i \in 1..Len(v) : (u \o v)[Len(u) + i] = v[i]
OBVIOUS

\* The elements of a sequence, and sequences over a larger set.
LEMMA Elements ==
    ASSUME NEW S, NEW T, NEW s \in Seq(S)
    PROVE  /\ Len(s) \in Nat /\ DOMAIN s = 1..Len(s) /\ \A i \in 1..Len(s) : s[i] \in S
           /\ S \subseteq T => s \in Seq(T)
OBVIOUS

\* Strings and the characters that shape a response are bytes.
LEMMA Chars ==
    /\ STRING \subseteq Char /\ SP \in Char /\ COLON \in Char /\ CR \in Char /\ LF \in Char
    /\ "HTTP/1.1" \in Char /\ "OK" \in Char /\ "0" \in Char
    /\ CRLF \in Seq(Char) /\ Len(CRLF) = 2 /\ CRLF[1] = CR /\ CRLF[2] = LF
    /\ <<"0", CR, LF, CR, LF>> \in Seq(Char) /\ <<>> \in Seq(Char)
<1>1. STRING \subseteq Char /\ SP \in Char /\ COLON \in Char /\ CR \in Char /\ LF \in Char
      /\ "HTTP/1.1" \in Char /\ "OK" \in Char /\ "0" \in Char
  BY DEF Char
<1>2. CRLF \in Seq(Char) /\ Len(CRLF) = 2 /\ CRLF[1] = CR /\ CRLF[2] = LF
  BY <1>1 DEF CRLF
<1>3. <<"0", CR, LF, CR, LF>> \in Seq(Char) /\ <<>> \in Seq(Char)
  BY <1>1
<1> QED BY <1>1, <1>2, <1>3

\* The parts of a response are sequences of bytes.
LEMMA PartsType ==
    ASSUME NEW r \in Response
    PROVE  /\ r.code \in Char /\ r.chunked \in BOOLEAN
           /\ Len(r.fields) \in Nat /\ DOMAIN r.fields = 1..Len(r.fields)
           /\ \A i \in 1..Len(r.fields) : r.fields[i].key \in Char /\ r.fields[i].value \in Seq(Char)
                                          /\ r.fields[i] \in [key: STRING, value: Seq(STRING)]
           /\ Len(r.pieces) \in Nat /\ DOMAIN r.pieces = 1..Len(r.pieces)
           /\ \A i \in 1..Len(r.pieces) : r.pieces[i].size \in Seq(Char) /\ r.pieces[i].data \in Seq(Char)
           /\ Lines(r) \in [1..Len(r.fields) -> Seq(Char)]
           /\ Parts(r) \in [1..Len(r.pieces) -> Seq(Char)]
           /\ StatusLine(r) \in Seq(Char) /\ Len(StatusLine(r)) = 7
           /\ LastChunk(r) \in Seq(Char)
<1>0. CRLF \in Seq(Char) /\ COLON \in Char /\ SP \in Char /\ CR \in Char /\ LF \in Char
      /\ "HTTP/1.1" \in Char /\ "OK" \in Char /\ STRING \subseteq Char
  BY Chars
<1> DEFINE KV == [key: STRING, value: Seq(STRING)]
           SD == [size: Seq(STRING), data: Seq(STRING)]
<1>a. r.code \in STRING /\ r.chunked \in BOOLEAN /\ r.fields \in Seq(KV) /\ r.pieces \in Seq(SD)
  BY DEF Response
<1>b. r.code \in Char
  BY <1>0, <1>a
<1>c. \A s \in Seq(STRING) : s \in Seq(Char)
  BY <1>0, Elements
<1>d. (\A x \in KV : x.key \in STRING /\ x.value \in Seq(STRING)) /\ \A x \in SD : x.size \in Seq(STRING) /\ x.data \in Seq(STRING)
  OBVIOUS
<1>2. Len(r.fields) \in Nat /\ DOMAIN r.fields = 1..Len(r.fields) /\ Len(r.pieces) \in Nat
      /\ DOMAIN r.pieces = 1..Len(r.pieces)
  <2> HIDE DEF KV, SD
  <2> QED BY <1>a, Elements
<1>3. (\A i \in 1..Len(r.fields) : r.fields[i] \in KV) /\ \A i \in 1..Len(r.pieces) : r.pieces[i] \in SD
  <2> HIDE DEF KV, SD
  <2> QED BY <1>a, Elements
<1> HIDE DEF KV, SD
<1>4. \A i \in 1..Len(r.fields) : r.fields[i].key \in Char /\ r.fields[i].value \in Seq(Char)
  BY <1>0, <1>3, <1>c, <1>d
<1>6. \A i \in 1..Len(r.pieces) : r.pieces[i].size \in Seq(Char) /\ r.pieces[i].data \in Seq(Char)
  BY <1>3, <1>c, <1>d
<1>7. ASSUME NEW i \in 1..Len(r.fields) PROVE Line(r.fields[i]) \in Seq(Char)
  <2>1. <<r.fields[i].key, COLON, SP>> \in Seq(Char)
    BY <1>0, <1>4
  <2>2. <<r.fields[i].key, COLON, SP>> \o r.fields[i].value \in Seq(Char)
    BY <1>4, <2>1, Joined
  <2> QED BY <1>0, <2>2, Joined DEF Line
<1>8. ASSUME NEW i \in 1..Len(r.pieces) PROVE PieceOf(r, r.pieces[i]) \in Seq(Char)
  <2> DEFINE s == r.pieces[i].size
             x == r.pieces[i].data
  <2>1. s \in Seq(Char) /\ x \in Seq(Char)
    BY <1>6
  <2>2. PieceOf(r, r.pieces[i]) = IF r.chunked THEN ((s \o CRLF) \o x) \o CRLF ELSE x
    BY DEF PieceOf, ChunkOf
  <2> HIDE DEF s, x
  <2>3. s \o CRLF \in Seq(Char)
    BY <1>0, <2>1, Joined
  <2>4. (s \o CRLF) \o x \in Seq(Char)
    BY <2>1, <2>3, Joined
  <2>5. ((s \o CRLF) \o x) \o CRLF \in Seq(Char)
    BY <1>0, <2>4, Joined
  <2> QED BY <2>1, <2>2, <2>5
<1>9. Lines(r) \in [1..Len(r.fields) -> Seq(Char)] /\ Parts(r) \in [1..Len(r.pieces) -> Seq(Char)]
  BY <1>7, <1>8 DEF Lines, Parts
<1>10. StatusLine(r) \in Seq(Char) /\ Len(StatusLine(r)) = 7
  BY <1>0, <1>b DEF StatusLine
<1>11. LastChunk(r) \in Seq(Char)
  BY Chars DEF LastChunk
<1> QED BY <1>a, <1>b, <1>2, <1>3, <1>4, <1>6, <1>9, <1>10, <1>11 DEF KV

\* A response is its status line, its field lines, an empty line, its pieces and what ends them.
LEMMA StreamIs ==
    ASSUME NEW r \in Response
    PROVE  /\ HeadOf(r) = (StatusLine(r) \o Upto(Lines(r), Len(r.fields))) \o CRLF
           /\ BodyOf(r) = Upto(Parts(r), Len(r.pieces)) \o LastChunk(r)
           /\ HeadOf(r) \in Seq(Char) /\ BodyOf(r) \in Seq(Char) /\ Stream(r) \in Seq(Char)
           /\ Upto(Lines(r), Len(r.fields)) \in Seq(Char) /\ Upto(Parts(r), Len(r.pieces)) \in Seq(Char)
           /\ Len(HeadOf(r)) = 7 + Len(Upto(Lines(r), Len(r.fields))) + 2
           /\ Len(Stream(r)) = Len(HeadOf(r)) + Len(BodyOf(r))
           /\ \A i \in 1..Len(HeadOf(r)) : Stream(r)[i] = HeadOf(r)[i]
           /\ \A i \in 1..Len(BodyOf(r)) : Stream(r)[Len(HeadOf(r)) + i] = BodyOf(r)[i]
<1> DEFINE nf == Len(r.fields)
           np == Len(r.pieces)
           L == Upto(Lines(r), nf)
           P == Upto(Parts(r), np)
<1>1. nf \in Nat /\ np \in Nat /\ nf \in 0..nf /\ np \in 0..np
  BY PartsType
<1>2. L \in Seq(Char)
  <2> HIDE DEF nf
  <2>1. Lines(r) \in [1..nf -> Seq(Char)]
    BY PartsType DEF nf
  <2> QED BY <1>1, <2>1, FlattenUpto
<1>3. P \in Seq(Char)
  <2> HIDE DEF np
  <2>1. Parts(r) \in [1..np -> Seq(Char)]
    BY PartsType DEF np
  <2> QED BY <1>1, <2>1, FlattenUpto
<1>4. L = FlattenSeq([i \in DOMAIN r.fields |-> <<r.fields[i].key, COLON, SP>> \o r.fields[i].value \o CRLF])
  <2>1. [i \in 1..nf |-> Lines(r)[i]] = [i \in 1..nf |-> Line(r.fields[i])]
    BY DEF Lines
  <2>2. DOMAIN r.fields = 1..nf
    BY PartsType
  <2> QED BY <2>1, <2>2 DEF Upto, Line
<1>5. P = FlattenSeq([i \in DOMAIN r.pieces |-> PieceOf(r, r.pieces[i])])
  <2>1. [i \in 1..np |-> Parts(r)[i]] = [i \in 1..np |-> PieceOf(r, r.pieces[i])]
    BY DEF Parts
  <2>2. DOMAIN r.pieces = 1..np
    BY PartsType
  <2> QED BY <2>1, <2>2 DEF Upto
<1> HIDE DEF L, P
<1>7. HeadOf(r) = (StatusLine(r) \o L) \o CRLF
  BY <1>4 DEF HeadOf, StatusLine
<1>8. BodyOf(r) = P \o LastChunk(r)
  BY <1>5 DEF BodyOf, LastChunk
<1>9. StatusLine(r) \in Seq(Char) /\ Len(StatusLine(r)) = 7 /\ CRLF \in Seq(Char) /\ Len(CRLF) = 2
      /\ LastChunk(r) \in Seq(Char)
  BY Chars, PartsType
<1> DEFINE s == StatusLine(r)
           h == HeadOf(r)
           bb == BodyOf(r)
           t == Stream(r)
<1>10. h \in Seq(Char) /\ bb \in Seq(Char) /\ Len(h) = 7 + Len(L) + 2
  <2> HIDE DEF s, h, bb
  <2>1. h = (s \o L) \o CRLF /\ bb = P \o LastChunk(r)
    BY <1>7, <1>8 DEF s, h, bb
  <2>2. s \in Seq(Char) /\ Len(s) = 7
    BY <1>9 DEF s
  <2>3. s \o L \in Seq(Char) /\ Len(s \o L) = Len(s) + Len(L)
    BY <1>2, <2>2, Joined
  <2>4. Len(h) = Len(s \o L) + 2 /\ h \in Seq(Char)
    <3> DEFINE y == s \o L
    <3> HIDE DEF y
    <3>1. y \in Seq(Char) /\ h = y \o CRLF
      BY <2>1, <2>3 DEF y
    <3>2. Len(h) = Len(y) + Len(CRLF) /\ h \in Seq(Char)
      BY <1>9, <3>1, Joined
    <3> QED BY <1>9, <3>2 DEF y
  <2>5. bb \in Seq(Char)
    BY <1>3, <1>9, <2>1, Joined
  <2> QED BY <1>2, <2>2, <2>3, <2>4, <2>5
<1>11. t = h \o bb
  BY DEF Stream
<1> HIDE DEF h, bb, t
<1>12. t \in Seq(Char) /\ Len(t) = Len(h) + Len(bb) /\ Len(h) \in Nat /\ Len(bb) \in Nat
      /\ (\A i \in 1..Len(h) : t[i] = h[i]) /\ (\A i \in 1..Len(bb) : t[Len(h) + i] = bb[i])
  <2>1. h \in Seq(Char) /\ bb \in Seq(Char)
    BY <1>10
  <2> HIDE DEF L, P
  <2>2. h \o bb \in Seq(Char) /\ Len(h \o bb) = Len(h) + Len(bb) /\ Len(h) \in Nat /\ Len(bb) \in Nat
        /\ (\A i \in 1..Len(h) : (h \o bb)[i] = h[i])
        /\ (\A i \in 1..Len(bb) : (h \o bb)[Len(h) + i] = bb[i])
    BY <2>1, Joined
  <2> QED BY <1>11, <2>2
<1> QED BY <1>2, <1>3, <1>7, <1>8, <1>10, <1>12 DEF L, P, h, bb, t
-----------------------------------------------------------------------------
(* A client and its response *)

\* The head cache is always what one pass over the bytes received would have left.  While the client
\* reads, either the head is not complete and the body untouched, or it is complete and the body is
\* parsed from behind it; a head is complete in status HTTP_REQ_DONE only after a renegotiation.
Reading(a) ==
    /\ pos \in Nat /\ html \in HtmlCache /\ pos >= a.pos
    /\ \/ a.rc = "more" /\ status = "HTTP_REQ_DONE" /\ pos = Len(b) /\ html = NewHtml
       \/ a.rc = "parsed" /\ status = "HTTP_HEAD_DONE"
       \/ a.rc = "parsed" /\ status = "HTTP_REQ_DONE" /\ reset
Inv ==
    /\ sent \in Responses
    /\ Len(b) \in Nat /\ Len(b) <= Len(Stream(sent)) /\ b = SubSeq(Stream(sent), 1, Len(b))
    /\ end \in Nat /\ Len(b) < end
    /\ head = At(Stream(sent), Len(b)).hc
    /\ status \in {"HTTP_REQ_DONE", "HTTP_HEAD_DONE", "HTTP_HTML_DONE"}
    /\ html.status \in {"LEN_DONE", "LEN_HALF"}
    /\ outcome \in {"reading", "parsed", "failed"} /\ split \in BOOLEAN /\ reset \in BOOLEAN
    /\ outcome = "reading" => Reading(At(Stream(sent), Len(b)))
    /\ outcome = "parsed" => status = "HTTP_HTML_DONE" /\ At(Stream(sent), Len(b)).rc = "parsed"

\* The response of a client is a sequence of bytes.
LEMMA SentType ==
    ASSUME NEW r \in Responses
    PROVE  /\ r \in Response /\ Stream(r) \in Seq(Char) /\ Len(Stream(r)) \in Nat
           /\ HeadFits(r) /\ (r.chunked => SizesFit(r)) /\ Len(Stream(r)) < Word
<1>1. r \in Response /\ HeadFits(r) /\ (r.chunked => SizesFit(r)) /\ Len(Stream(r)) < Word
  BY ResponseAssumption
<1>2. Stream(r) \in Seq(Char)
  BY <1>1, StreamIs
<1>3. Len(Stream(r)) \in Nat
  BY <1>2, Elements
<1> QED BY <1>1, <1>2, <1>3

\* A new body.
LEMMA NewHtmlType == NewHtml \in HtmlCache /\ NewHtml.done = FALSE
<1>1. <<>> \in Seq(Segment)
  OBVIOUS
<1> QED BY <1>1 DEF NewHtml, HtmlCache

\* What http_process_response does to a reading client when m bytes are there.
LEMMA ResponseCall ==
    ASSUME Inv, outcome = "reading", NEW m \in Nat, Len(b) <= m, m <= Len(Stream(sent)),
           NEW w, w = SubSeq(Stream(sent), 1, m)
    PROVE  LET r == http_process_response(w)
               o == At(Stream(sent), Len(b))
               a == At(Stream(sent), m)
               p == http_parse_html(w, IF status = "HTTP_REQ_DONE" THEN a.pos ELSE pos, html, a.hc)
           IN  /\ r.hc = a.hc
               /\ a.rc # "parsed" => /\ r.mc = html /\ r.pos = a.pos /\ (r.failed <=> a.rc = "error")
                                     /\ r.status \in {"HTTP_REQ_DONE", "HTTP_HEAD_DONE"}
                                     /\ a.rc = "more" => r.status = "HTTP_REQ_DONE"
               /\ a.rc = "parsed" /\ (o.rc = "more" \/ status = "HTTP_HEAD_DONE") =>
                    /\ r.mc = p.mc /\ r.pos = p.pos /\ (r.failed <=> p.rc = "error")
                    /\ r.status = IF p.mc.done /\ p.rc # "error" THEN "HTTP_HTML_DONE" ELSE "HTTP_HEAD_DONE"
               /\ o.rc = "parsed" => a = o
               /\ o.rc = "parsed" /\ status = "HTTP_REQ_DONE" =>
                    r.mc = html /\ r.pos \in Nat /\ r.pos >= pos /\ r.status = "HTTP_REQ_DONE"
<1> DEFINE z == Stream(sent)
           n == Len(b)
           o == At(z, n)
           a == At(z, m)
           r == http_process_response(w)
           p == http_parse_html(w, IF status = "HTTP_REQ_DONE" THEN a.pos ELSE pos, html, a.hc)
<1>1. z \in Seq(Char) /\ n \in Nat /\ n <= m /\ m <= Len(z) /\ head = o.hc /\ Reading(o) /\ html \in HtmlCache
      /\ pos \in Nat /\ pos >= o.pos
  BY SentType DEF Inv, Reading
<1>2. w \in Seq(Char) /\ Len(w) = m
  BY <1>1, Cut
<1> HIDE DEF z, n
<1>3. o.hc \in HeadCache /\ a.hc \in HeadCache /\ (o.rc = "more" => Looped(z, n).rc = "more" /\ o = Looped(z, n))
      /\ (o.rc = "parsed" => Looped(z, n).rc = "parsed") /\ (o.rc = "parsed" => o.hc.status = "HEAD_DONE")
      /\ (o.rc = "more" => o.hc.status # "HEAD_DONE") /\ a.rc \in Returned /\ o.rc \in Returned
      /\ (a.rc = "parsed" => a.hc.status = "HEAD_DONE") /\ (a.rc = "more" => a.hc.status # "HEAD_DONE")
      /\ CacheIn(o.hc, o.pos) /\ o.pos \in Nat /\ a.pos \in Nat
  <2>1. ASSUME NEW k \in Nat
        PROVE  /\ At(z, k).hc \in HeadCache /\ At(z, k).rc \in Returned
               /\ (At(z, k).rc = "more" => Looped(z, k).rc = "more" /\ At(z, k) = Looped(z, k))
               /\ (At(z, k).rc = "parsed" => Looped(z, k).rc = "parsed" /\ At(z, k).hc.status = "HEAD_DONE")
               /\ (At(z, k).rc = "more" => At(z, k).hc.status # "HEAD_DONE")
               /\ CacheIn(At(z, k).hc, At(z, k).pos) /\ At(z, k).pos \in Nat
    <3>1. /\ At(z, k).hc.status = Looped(z, k).hc.status
          /\ Looped(z, k).hc.status = "HEAD_DONE" <=> Looped(z, k).rc = "parsed"
          /\ At(z, k).rc = "more" <=> Looped(z, k).rc = "more"
          /\ At(z, k).rc = "parsed" => Looped(z, k).rc = "parsed"
          /\ Looped(z, k).rc # "parsed" => At(z, k) = Looped(z, k)
      BY AtType
    <3>2. /\ At(z, k).hc \in HeadCache /\ At(z, k).rc \in Returned /\ CacheIn(At(z, k).hc, Looped(z, k).pos)
          /\ At(z, k).pos = Looped(z, k).pos /\ Looped(z, k).pos \in Nat
      BY AtType
    <3> QED BY <3>1, <3>2
  <2> QED BY <1>1, <2>1
<1>4. o.rc = "parsed" => a = o
  BY <1>1, <1>3, AtStays
<1> DEFINE h == IF status = "HTTP_REQ_DONE" THEN http_parse_head(w, pos, head, Number)
                ELSE [hc |-> head, pos |-> pos, rc |-> "parsed"]
           bp == IF h.rc = "parsed" THEN http_parse_html(w, h.pos, html, h.hc)
                 ELSE [mc |-> html, pos |-> h.pos, rc |-> h.rc]
           st == IF bp.mc.done /\ bp.rc # "error" THEN "HTTP_HTML_DONE"
                 ELSE IF h.hc.status = "HEAD_DONE" /\ head.status # "HEAD_DONE" THEN "HTTP_HEAD_DONE" ELSE status
<1>5. r.hc = h.hc /\ r.mc = bp.mc /\ r.pos = bp.pos /\ (r.failed <=> bp.rc = "error") /\ r.status = st
  BY DEF http_process_response, ProcessBody, Processed
<1>6. html.done = FALSE
  BY <1>1 DEF HtmlCache
<1> HIDE DEF r
<1>7. CASE o.rc = "more"
  <2>1. status = "HTTP_REQ_DONE" /\ pos = n
    BY <1>1, <1>7 DEF Reading, n
  <2>2. h = http_parse_head(SubSeq(z, 1, m), n, Looped(z, n).hc, Number)
    BY <1>1, <1>3, <1>7, <2>1 DEF z
  <2>3. Same(h, a)
    <3> HIDE DEF h, a
    <3> QED BY <1>1, <1>3, <1>7, <2>2, NextCall DEF a
  <2> HIDE DEF h
  <2>4. h.hc = a.hc /\ h.pos = a.pos /\ h.rc = a.rc
    BY <2>3 DEF Same
  <2> HIDE DEF a, o
  <2>5. CASE a.rc = "parsed"
    <3>1. bp = p
      BY <2>1, <2>4, <2>5
    <3>2. st = IF p.mc.done /\ p.rc # "error" THEN "HTTP_HTML_DONE" ELSE "HTTP_HEAD_DONE"
      <4> HIDE DEF p, bp
      <4> QED BY <1>1, <1>3, <1>7, <2>4, <2>5, <3>1
    <3> HIDE DEF bp, st, p
    <3> QED BY <1>5, <1>7, <2>4, <2>5, <3>1, <3>2 DEF p, a, o, r, z, n
  <2>6. CASE a.rc # "parsed"
    <3>1. bp.mc = html /\ bp.pos = a.pos /\ bp.rc = a.rc
      BY <2>4, <2>6
    <3> HIDE DEF bp
    <3>2. st \in {"HTTP_REQ_DONE", "HTTP_HEAD_DONE"} /\ (a.rc = "more" => st = "HTTP_REQ_DONE")
      BY <1>3, <1>6, <2>1, <2>4, <3>1
    <3> HIDE DEF st, p
    <3> QED BY <1>5, <1>7, <2>4, <2>6, <3>1, <3>2 DEF p, a, o, r, z, n
  <2> QED BY <2>5, <2>6
<1>8. CASE o.rc = "parsed" /\ status = "HTTP_HEAD_DONE"
  <2>1. h.hc = o.hc /\ h.pos = pos /\ h.rc = "parsed"
    BY <1>1, <1>8
  <2>2. a = o
    BY <1>4, <1>8
  <2> HIDE DEF h
  <2>3. bp = p
    BY <1>8, <2>1, <2>2
  <2> HIDE DEF bp, p
  <2>4. st = IF p.mc.done /\ p.rc # "error" THEN "HTTP_HTML_DONE" ELSE "HTTP_HEAD_DONE"
    BY <1>1, <1>3, <1>8, <2>1, <2>3
  <2> HIDE DEF st, a, o
  <2> QED BY <1>4, <1>5, <1>8, <2>1, <2>2, <2>3, <2>4 DEF p, a, o, r, z, n
<1>9. CASE o.rc = "parsed" /\ status = "HTTP_REQ_DONE"
  <2>1. h = http_parse_head(w, pos, head, Number)
    BY <1>9
  <2>2. CacheIn(head, pos) /\ head \in HeadCache /\ head.status = "HEAD_DONE"
    BY <1>1, <1>3, <1>9, CacheInUp
  <2>3. h.hc = head /\ h.rc \in {"more", "error"} /\ h.pos \in Nat /\ h.pos >= pos
    <3> HIDE DEF h
    <3> QED BY <1>1, <1>2, <2>1, <2>2, SecondPass
  <2> HIDE DEF h
  <2>4. bp.mc = html /\ bp.pos = h.pos /\ bp.rc = h.rc
    BY <2>3
  <2> HIDE DEF bp
  <2>5. st = "HTTP_REQ_DONE"
    BY <1>6, <1>9, <2>2, <2>4
  <2>6. a = o
    BY <1>4, <1>9
  <2> HIDE DEF st, a, o, p
  <2> QED BY <1>1, <1>4, <1>5, <1>9, <2>3, <2>4, <2>5, <2>6 DEF p, a, o, r, z, n
<1> QED BY <1>1, <1>7, <1>8, <1>9 DEF Reading
\* A read event leaves the client in a state the next one can go on from.
LEMMA ReadKeeps ==
    ASSUME Inv, NEW k \in Nat, NEW eof \in BOOLEAN, http_read_event_process(k, eof)
    PROVE  Inv'
<1> DEFINE z == Stream(sent)
           n == Len(b)
           m == n + k
           w == SubSeq(z, 1, m)
           o == At(z, n)
           a == At(z, m)
           r == http_process_response(w)
           p == http_parse_html(w, IF status = "HTTP_REQ_DONE" THEN a.pos ELSE pos, html, a.hc)
<1>1. /\ outcome = "reading" /\ m <= Len(z) /\ b' = w /\ end' = Grown(end, m) /\ sent' = sent
      /\ reset' = reset /\ split' = (split \/ m \in SizeOffsets(sent)) /\ Respond(r, eof)
  <2>1. b' = w /\ Respond(http_process_response(b'), eof)
    BY DEF http_read_event_process
  <2>2. Respond(r, eof)
    BY <2>1
  <2> QED BY <2>1, <2>2 DEF http_read_event_process
<1>2. n \in Nat /\ m \in Nat /\ n <= m /\ z \in Seq(Char) /\ Reading(o) /\ sent \in Responses /\ split \in BOOLEAN
      /\ reset \in BOOLEAN /\ end \in Nat \ {0} /\ pos \in Nat /\ html \in HtmlCache
  BY <1>1, SentType DEF Inv, Reading
<1>3. Len(w) = m /\ w \in Seq(Char)
  BY <1>1, <1>2, Cut
<1>4. end' \in Nat /\ end' > m
  BY <1>1, <1>2, GrownHolds
<1>5. /\ r.hc = a.hc
      /\ a.rc # "parsed" => /\ r.mc = html /\ r.pos = a.pos /\ (r.failed <=> a.rc = "error")
                            /\ r.status \in {"HTTP_REQ_DONE", "HTTP_HEAD_DONE"}
                            /\ a.rc = "more" => r.status = "HTTP_REQ_DONE"
      /\ a.rc = "parsed" /\ (o.rc = "more" \/ status = "HTTP_HEAD_DONE") =>
           /\ r.mc = p.mc /\ r.pos = p.pos /\ (r.failed <=> p.rc = "error")
           /\ r.status = IF p.mc.done /\ p.rc # "error" THEN "HTTP_HTML_DONE" ELSE "HTTP_HEAD_DONE"
      /\ o.rc = "parsed" => a = o
      /\ o.rc = "parsed" /\ status = "HTTP_REQ_DONE" =>
           r.mc = html /\ r.pos \in Nat /\ r.pos >= pos /\ r.status = "HTTP_REQ_DONE"
  BY <1>1, <1>2, ResponseCall
<1>6. /\ a.hc \in HeadCache /\ a.pos \in Nat /\ a.rc \in Returned /\ (a.rc = "more" => a.pos = m)
      /\ o.pos \in Nat
  <2> HIDE DEF z, m, n
  <2>1. a.hc \in HeadCache /\ a.rc \in Returned /\ a.pos = Looped(z, m).pos /\ Looped(z, m).pos \in Nat
        /\ (Looped(z, m).rc = "more" => Looped(z, m).pos = m) /\ (a.rc = "more" <=> Looped(z, m).rc = "more")
    BY <1>2, AtType
  <2>2. o.pos \in Nat
    BY <1>2, AtType
  <2> QED BY <2>1, <2>2
<1>7. /\ p.pos \in Nat /\ p.mc.status \in {"LEN_DONE", "LEN_HALF"} /\ p.rc \in ChunkResult
      /\ p.mc.done \in BOOLEAN /\ (~p.mc.done => p.mc \in HtmlCache)
      /\ p.pos >= IF status = "HTTP_REQ_DONE" THEN a.pos ELSE pos
  <2> DEFINE q == IF status = "HTTP_REQ_DONE" THEN a.pos ELSE pos
  <2>1. q \in Nat /\ Len(w) \in Nat
    BY <1>2, <1>3, <1>6
  <2> HIDE DEF q, w, a
  <2>2. LET y == http_parse_html(w, q, html, a.hc) IN
        /\ y.pos \in Nat /\ y.pos >= q /\ y.mc.status \in {"LEN_DONE", "LEN_HALF"} /\ y.rc \in ChunkResult
        /\ y.mc.done \in BOOLEAN /\ (~y.mc.done => y.mc \in HtmlCache)
    BY <1>2, <1>6, <2>1, HtmlCall
  <2> QED BY <2>2 DEF q
<1>8. /\ pos' = r.pos /\ head' = r.hc /\ html' = r.mc /\ status' = r.status
      /\ outcome' = IF ~r.failed /\ r.status = "HTTP_HTML_DONE" THEN "parsed"
                    ELSE IF r.failed \/ eof THEN "failed" ELSE "reading"
  BY <1>1 DEF Respond
<1>a. html.status \in {"LEN_DONE", "LEN_HALF"} /\ html.done = FALSE
  BY <1>2 DEF HtmlCache
<1> HIDE DEF p, r
<1>9. At(z, m) = At(Stream(sent'), Len(b')) /\ Len(b') = m
  BY <1>1, <1>3
<1>10. Reading(o) => (o.rc = "more" /\ status = "HTTP_REQ_DONE" /\ html = NewHtml) \/ (o.rc = "parsed" /\ status \in {"HTTP_REQ_DONE", "HTTP_HEAD_DONE"})
  BY DEF Reading
<1>b. pos >= o.pos /\ (o.rc = "parsed" /\ status = "HTTP_REQ_DONE" => reset)
  BY <1>2 DEF Reading
<1> DEFINE RM == r.mc
           RP == r.pos
           RS == r.status
           F == r.failed
           ar == a.rc
           ap == a.pos
<1>c. /\ RS \in {"HTTP_REQ_DONE", "HTTP_HEAD_DONE", "HTTP_HTML_DONE"} /\ RM.status \in {"LEN_DONE", "LEN_HALF"}
      /\ RS = "HTTP_HTML_DONE" => ar = "parsed" /\ ~F
      /\ ~F /\ RS # "HTTP_HTML_DONE" =>
           /\ RP \in Nat /\ RM \in HtmlCache /\ RP >= ap
           /\ \/ ar = "more" /\ RS = "HTTP_REQ_DONE" /\ RP = m /\ RM = NewHtml
              \/ ar = "parsed" /\ RS = "HTTP_HEAD_DONE"
              \/ ar = "parsed" /\ RS = "HTTP_REQ_DONE" /\ reset
  <2> HIDE DEF a, o, m
  <2>1. CASE ar = "more"
    BY <1>2, <1>5, <1>6, <1>10, <1>a, <2>1
  <2>2. CASE ar = "error"
    <3> SUFFICES RM.status \in {"LEN_DONE", "LEN_HALF"} /\ F /\ RS \in {"HTTP_REQ_DONE", "HTTP_HEAD_DONE"}
      OBVIOUS
    <3> QED BY <1>5, <1>a, <2>2
  <2>3. CASE ar = "parsed" /\ (o.rc = "more" \/ status = "HTTP_HEAD_DONE")
    <3>1. RM = p.mc /\ RP = p.pos /\ (F <=> p.rc = "error")
          /\ RS = IF p.mc.done /\ p.rc # "error" THEN "HTTP_HTML_DONE" ELSE "HTTP_HEAD_DONE"
      BY <1>5, <2>3
    <3>2. p.pos >= ap
      <4>1. CASE status = "HTTP_REQ_DONE"
        BY <1>7, <4>1
      <4>2. CASE status # "HTTP_REQ_DONE"
        <5>1. a = o /\ pos >= o.pos
          BY <1>2, <1>5, <1>10, <1>b, <4>2
        <5> QED BY <1>2, <1>6, <1>7, <4>2, <5>1
      <4> QED BY <4>1, <4>2
    <3> HIDE DEF RM, RP, RS, F
    <3> QED BY <1>7, <2>3, <3>1, <3>2
  <2>4. CASE ar = "parsed" /\ o.rc = "parsed" /\ status = "HTTP_REQ_DONE"
    <3>1. RM = html /\ RP \in Nat /\ RP >= pos /\ RS = "HTTP_REQ_DONE" /\ a = o /\ reset
      BY <1>5, <1>b, <2>4
    <3>2. RP >= ap
      BY <1>2, <1>6, <1>b, <3>1
    <3> HIDE DEF RM, RP, RS, F
    <3> QED BY <1>2, <1>a, <2>4, <3>1, <3>2
  <2>5. ar \in Returned
    BY <1>6
  <2> QED BY <1>2, <1>10, <2>1, <2>2, <2>3, <2>4, <2>5 DEF Returned
<1> HIDE DEF RM, RP, RS, F
<1>11. /\ pos' = RP /\ head' = a.hc /\ html' = RM /\ status' = RS
       /\ outcome' = IF ~F /\ RS = "HTTP_HTML_DONE" THEN "parsed" ELSE IF F \/ eof THEN "failed" ELSE "reading"
  BY <1>5, <1>8 DEF RM, RP, RS, F
<1>12. outcome' = "reading" => Reading(At(Stream(sent), Len(b)))'
  <2> SUFFICES ASSUME outcome' = "reading" PROVE Reading(At(Stream(sent), Len(b)))'
    OBVIOUS
  <2>1. ~F /\ RS # "HTTP_HTML_DONE"
    BY <1>11
  <2>2. /\ pos' \in Nat /\ html' \in HtmlCache /\ pos' >= ap
        /\ \/ ar = "more" /\ status' = "HTTP_REQ_DONE" /\ pos' = m /\ html' = NewHtml
           \/ ar = "parsed" /\ status' = "HTTP_HEAD_DONE"
           \/ ar = "parsed" /\ status' = "HTTP_REQ_DONE" /\ reset'
    BY <1>1, <1>c, <1>11, <2>1
  <2> HIDE DEF m
  <2> QED BY <1>9, <2>2 DEF Reading
<1>13. outcome' = "parsed" => status' = "HTTP_HTML_DONE" /\ At(Stream(sent'), Len(b')).rc = "parsed"
  BY <1>9, <1>11, <1>c
<1>14. head' = At(Stream(sent'), Len(b')).hc
  BY <1>9, <1>11
<1>15. sent' \in Responses /\ Len(b') \in Nat /\ Len(b') <= Len(Stream(sent')) /\ b' = SubSeq(Stream(sent'), 1, Len(b'))
       /\ end' \in Nat /\ Len(b') < end'
  BY <1>1, <1>2, <1>4, <1>9
<1>16. /\ status' \in {"HTTP_REQ_DONE", "HTTP_HEAD_DONE", "HTTP_HTML_DONE"} /\ html'.status \in {"LEN_DONE", "LEN_HALF"}
       /\ outcome' \in {"reading", "parsed", "failed"} /\ split' \in BOOLEAN /\ reset' \in BOOLEAN
  BY <1>1, <1>2, <1>11, <1>c
<1> QED BY <1>12, <1>13, <1>14, <1>15, <1>16 DEF Inv

\* The invariant holds in every state of a client.
LEMMA Invariant == Spec => []Inv
<1>1. Init => Inv
  <2> SUFFICES ASSUME Init PROVE Inv
    OBVIOUS
  <2>1. b = <<>> /\ Len(b) = 0 /\ pos = 0 /\ sent \in Responses /\ head = NewHead /\ html = NewHtml /\ end = BASE_RANGE
    BY DEF Init
  <2>2. Stream(sent) \in Seq(Char) /\ Len(Stream(sent)) \in Nat
    BY <2>1, SentType
  <2> DEFINE z == Stream(sent)
  <2>3. SubSeq(z, 1, 0) = <<>>
    BY <2>2
  <2>4. Looped(z, 0) = First
    <3>1. First \in HeadState /\ First.pos = 0
      BY BeginType
    <3>2. 0 \in Nat /\ 0 <= First.pos
      BY <3>1
    <3> QED BY <3>1, <3>2, HeadRunIs DEF Looped
  <2>5. First.rc = "more" /\ First.hc = NewHead /\ First.pos = 0
    BY DEF First, Begin
  <2>6. At(z, 0) = First
    BY <2>4, <2>5 DEF At, Checked
  <2>7. html \in HtmlCache /\ html.status \in {"LEN_DONE", "LEN_HALF"}
    BY <2>1, NewHtmlType DEF HtmlCache
  <2>8. Reading(At(z, 0))
    BY <2>1, <2>5, <2>6, <2>7 DEF Init, Reading
  <2>9. 0 < BASE_RANGE /\ BASE_RANGE \in Nat
    BY HtmlAssumption
  <2> HIDE DEF z
  <2>10. b = SubSeq(z, 1, Len(b)) /\ Len(b) <= Len(z)
    BY <2>1, <2>2, <2>3 DEF z
  <2>11. head = At(z, Len(b)).hc /\ Reading(At(z, Len(b)))
    BY <2>1, <2>5, <2>6, <2>8
  <2> QED BY <2>1, <2>2, <2>7, <2>9, <2>10, <2>11 DEF Init, Inv, z
<1>2. Inv /\ [Next]_vars => Inv'
  <2> SUFFICES ASSUME Inv, [Next]_vars PROVE Inv'
    OBVIOUS
  <2>1. CASE \E n \in 0..(Len(Stream(sent)) - Len(b)), eof \in BOOLEAN : http_read_event_process(n, eof)
    <3>1. PICK n \in 0..(Len(Stream(sent)) - Len(b)), eof \in BOOLEAN : http_read_event_process(n, eof)
      BY <2>1
    <3>2. n \in Nat
      OBVIOUS
    <3> QED BY <3>1, <3>2, ReadKeeps
  <2>2. CASE ReadFails
    BY <2>2 DEF ReadFails, Inv
  <2>3. CASE Renegotiated
    <3>1. /\ outcome = "reading" /\ outcome' = outcome /\ sent' = sent /\ b' = b /\ end' = end /\ pos' = pos
          /\ head' = head /\ html' = html /\ split' = split /\ reset' = TRUE /\ status' = "HTTP_REQ_DONE"
      BY <2>3 DEF Renegotiated
    <3>2. Reading(At(Stream(sent), Len(b)))
      BY <3>1 DEF Inv
    <3>3. Reading(At(Stream(sent), Len(b)))'
      <4> DEFINE a == At(Stream(sent), Len(b))
      <4>1. a' = a
        BY <3>1
      <4> HIDE DEF a
      <4>2. Reading(a)
        BY <3>2 DEF a
      <4>3. Reading(a)'
        BY <3>1, <4>1, <4>2 DEF Reading
      <4> QED BY <4>3 DEF a
    <3> QED BY <3>1, <3>3 DEF Inv
  <2>4. CASE UNCHANGED vars
    <3>1. At(Stream(sent), Len(b))' = At(Stream(sent), Len(b))
      BY <2>4 DEF vars
    <3> DEFINE a == At(Stream(sent), Len(b))
    <3> HIDE DEF a
    <3>2. Reading(a) => Reading(a)'
      BY <2>4, <3>1 DEF Reading, vars, a
    <3> QED BY <2>4, <3>1, <3>2 DEF Inv, vars, a
  <2> QED BY <2>1, <2>2, <2>3, <2>4 DEF Next
<1> QED BY <1>1, <1>2, PTL DEF Spec
\* However a head is cut into reads, the head cache is what one read of the same bytes would have left
\* (http_parse_head keeps nothing it needs between two calls outside head_cache_s).
THEOREM HeadIsOneRead == Spec => []HeadCutAnywhere
<1>1. Inv => HeadCutAnywhere
  <2> SUFFICES ASSUME Inv PROVE head = http_parse_head(b, 0, NewHead, Number).hc
    BY DEF HeadCutAnywhere
  <2> DEFINE z == Stream(sent)
             n == Len(b)
  <2>1. z \in Seq(Char) /\ n \in Nat /\ n <= Len(z) /\ b = SubSeq(z, 1, n) /\ head = At(z, n).hc
    BY SentType DEF Inv
  <2> HIDE DEF z, n
  <2>2. http_parse_head(SubSeq(z, 1, n), 0, NewHead, Number) = At(z, n)
    BY <2>1, OneCall
  <2> QED BY <2>1, <2>2
<1> QED BY <1>1, Invariant, PTL

\* Types: the receive buffer always has room for the next recv, and every value recorded lies in it.
LEMMA Types == Inv => TypeOK
<1> SUFFICES ASSUME Inv PROVE TypeOK
  OBVIOUS
<1> DEFINE z == Stream(sent)
           n == Len(b)
<1>1. n \in Nat /\ head = At(z, n).hc
  BY DEF Inv
<1> HIDE DEF z, n
<1>2. head \in HeadCache /\ CacheIn(head, n)
  BY <1>1, AtType
<1>3. head.status \in HeadStatus
  BY <1>2 DEF HeadCache
<1>4. \A i \in DOMAIN head.kv_queue : head.kv_queue[i].value.off + head.kv_queue[i].value.len <= n
  BY <1>2 DEF CacheIn, QueueIn
<1>5. \A seg \in {head.kv_queue[i].value : i \in DOMAIN head.kv_queue} : seg.off + seg.len <= Len(b)
  BY <1>4 DEF n
<1> QED BY <1>3, <1>5 DEF Inv, TypeOK

\* The status of a client changes in a read only in the ways the event loop's model assumes: a second
\* pass over a finished head, after a renegotiation, completes nothing (http_process_response).
THEOREM ParsesAsAssumed == Spec => AsEventLoopAssumes
<1> DEFINE A == /\ reset /\ head.status = "HEAD_DONE" /\ status = "HTTP_REQ_DONE" =>
                     status' = status /\ outcome' # "parsed"
                /\ status # status' /\ ~(reset' /\ ~reset) =>
                     \/ status = "HTTP_REQ_DONE" /\ head.status # "HEAD_DONE"
                     \/ status = "HTTP_HEAD_DONE" /\ status' = "HTTP_HTML_DONE"
<1>1. Inv /\ [Next]_vars => [A]_vars
  <2> SUFFICES ASSUME Inv, Next PROVE A
    BY DEF vars
  <2>0. outcome = "parsed" => status = "HTTP_HTML_DONE"
    BY DEF Inv
  <2>1. CASE \E n \in 0..(Len(Stream(sent)) - Len(b)), eof \in BOOLEAN : http_read_event_process(n, eof)
    <3>1. PICK k \in 0..(Len(Stream(sent)) - Len(b)), eof \in BOOLEAN : http_read_event_process(k, eof)
      BY <2>1
    <3> DEFINE z == Stream(sent)
               n == Len(b)
               m == n + k
               w == SubSeq(z, 1, m)
               o == At(z, n)
               a == At(z, m)
               r == http_process_response(w)
               p == http_parse_html(w, IF status = "HTTP_REQ_DONE" THEN a.pos ELSE pos, html, a.hc)
    <3>2. outcome = "reading" /\ m <= Len(z) /\ b' = w /\ reset' = reset /\ Respond(r, eof)
      <4>1. b' = w /\ Respond(http_process_response(b'), eof)
        BY <3>1 DEF http_read_event_process
      <4>2. Respond(r, eof)
        BY <4>1
      <4> QED BY <3>1, <4>1, <4>2 DEF http_read_event_process
    <3>3. n \in Nat /\ m \in Nat /\ n <= m /\ Reading(o) /\ head = o.hc
      BY <3>2 DEF Inv
    <3>4. /\ a.rc # "parsed" => r.status \in {"HTTP_REQ_DONE", "HTTP_HEAD_DONE"}
          /\ a.rc = "parsed" /\ (o.rc = "more" \/ status = "HTTP_HEAD_DONE") =>
               r.status = IF p.mc.done /\ p.rc # "error" THEN "HTTP_HTML_DONE" ELSE "HTTP_HEAD_DONE"
          /\ o.rc = "parsed" => a = o
          /\ o.rc = "parsed" /\ status = "HTTP_REQ_DONE" => r.status = "HTTP_REQ_DONE"
      BY <3>2, <3>3, ResponseCall
    <3>5. status' = r.status /\ (outcome' = "parsed" => r.status = "HTTP_HTML_DONE")
      BY <3>2 DEF Respond
    <3>6. (o.rc = "more" => o.hc.status # "HEAD_DONE")
      <4> HIDE DEF z, n
      <4> QED BY <3>3, AtType
    <3> DEFINE P == p.mc.done /\ p.rc # "error"
    <3> HIDE DEF p, r, a, o, m, w, z, n
    <3>7. (o.rc = "more" /\ status = "HTTP_REQ_DONE") \/ (o.rc = "parsed" /\ status = "HTTP_HEAD_DONE")
          \/ (o.rc = "parsed" /\ status = "HTTP_REQ_DONE")
      BY <3>3 DEF Reading
    <3>8. CASE o.rc = "more" /\ status = "HTTP_REQ_DONE"
      BY <3>3, <3>6, <3>8
    <3>9. CASE o.rc = "parsed" /\ status = "HTTP_HEAD_DONE"
      BY <3>4, <3>5, <3>9
    <3>10. CASE o.rc = "parsed" /\ status = "HTTP_REQ_DONE"
      BY <3>4, <3>5, <3>10
    <3> QED BY <3>7, <3>8, <3>9, <3>10
  <2>2. CASE ReadFails
    BY <2>2 DEF ReadFails
  <2>3. CASE Renegotiated
    BY <2>3 DEF Renegotiated
  <2> QED BY <2>1, <2>2, <2>3 DEF Next
<1> QED BY <1>1, Invariant, PTL DEF Spec, AsEventLoopAssumes
-----------------------------------------------------------------------------
(* The head of a response, field by field *)

\* A state of the loop in the middle of a head: the status, the start of the current piece, the status
\* code and the fields recorded
Mid(s, st, from, code, q) ==
    s.rc = "more" /\ s.hc.status = st /\ s.hc.start = from /\ s.hc.code = code /\ s.hc.kv_queue = q

\* t is the next state after the byte c at offset p of a well-formed head
MidNext(t, c, p, st, from, code, q) ==
    LET seg == [off |-> from, len |-> p - from]
    IN  /\ c = SP /\ st = "VSR_START" => Mid(t, "VSR_VER", p + 1, code, q)
        /\ c = SP /\ st = "VSR_VER" => Mid(t, "VSR_STAT", p + 1, seg, q)
        /\ c = SP /\ st = "VSR_STAT" => Mid(t, st, from, code, q)
        /\ c = CR /\ st = "VSR_STAT" => Mid(t, "VSR_REAS", p + 1, code, q)
        /\ c = LF /\ st \in {"VSR_REAS", "LINE_HALF"} => Mid(t, "LINE_DONE", p + 1, code, q)
        /\ c = COLON /\ st = "LINE_DONE" =>
             Mid(t, "KEY_DONE", p + 1, code, Append(q, [key |-> seg, value |-> NoSegment]))
        /\ c = COLON /\ st = "KEY_DONE" => Mid(t, st, from, code, q)
        /\ c = SP /\ st = "KEY_DONE" => Mid(t, "KEY_DONE", p + 1, code, q)
        /\ c = CR /\ st = "KEY_DONE" => Mid(t, "LINE_HALF", from, code, [q EXCEPT ![Len(q)].value = seg])
        /\ c = CR /\ st = "LINE_DONE" => Mid(t, "HEAD_HALF", from, code, q)
        /\ c \notin {SP, COLON, CR, LF} => Mid(t, st, from, code, q)
        /\ c = LF /\ st = "HEAD_HALF" =>
             t.rc = "parsed" /\ t.hc.status = "HEAD_DONE" /\ t.hc.code = code /\ t.hc.kv_queue = q

\* The bytes of a well-formed head, one after the other.
LEMMA StepMid ==
    ASSUME NEW s \in HeadState, NEW c, NEW st, NEW from, NEW code, NEW q, Mid(s, st, from, code, q)
    PROVE  MidNext(HeadStep(s, c), c, s.pos, st, from, code, q)
<1> DEFINE t == HeadStep(s, c)
           y == s.pos + 1
           seg == [off |-> from, len |-> s.pos - from]
<1>0. s.hc.status \in HeadStatus /\ s.hc \in HeadCache /\ s.pos \in Nat /\ y \in Nat
      /\ s.hc.kv_queue \in Seq(KeyValue) /\ QueueIn(s.hc.kv_queue, s.pos)
  BY StateOf
<1>1. /\ s.rc = "more" /\ s.hc.status = st /\ s.hc.start = from /\ s.hc.code = code /\ s.hc.kv_queue = q
      /\ Piece(s) = seg
  BY DEF Mid, Piece
<1>2. ASSUME NEW h \in HeadCache, CacheIn(h, s.pos + 1)
      PROVE  /\ Moved(s, h).hc = h /\ Moved(s, h).rc = "more"
             /\ \A k \in BOOLEAN : [Moved(s, h) EXCEPT !.kv = k].hc = h /\ [Moved(s, h) EXCEPT !.kv = k].rc = "more"
             /\ [Moved(s, h) EXCEPT !.rc = "parsed"].hc = h /\ [Moved(s, h) EXCEPT !.rc = "parsed"].rc = "parsed"
  <2> DEFINE m == Moved(s, h)
  <2>1. m \in HeadState /\ m.hc = h /\ m.rc = "more"
    BY <1>1, <1>2, MovedType
  <2> HIDE DEF m
  <2>2. "parsed" \in Returned
    BY DEF Returned
  <2>3. ASSUME NEW k \in BOOLEAN PROVE [m EXCEPT !.kv = k].hc = h /\ [m EXCEPT !.kv = k].rc = "more"
    BY <2>1, <2>2, SetType
  <2>4. [m EXCEPT !.rc = "parsed"].hc = h /\ [m EXCEPT !.rc = "parsed"].rc = "parsed"
    <3>1. TRUE \in BOOLEAN
      OBVIOUS
    <3> QED BY <2>1, <2>2, <3>1, SetType
  <2> QED BY <2>1, <2>3, <2>4 DEF m
<1>3. ASSUME NEW x \in HeadStatus
      PROVE  /\ Mid(Moved(s, New(s, x)), x, y, code, q) /\ Mid(Moved(s, Go(s, x)), x, from, code, q)
  <2>1. New(s, x) \in HeadCache /\ CacheIn(New(s, x), y) /\ Go(s, x) \in HeadCache /\ CacheIn(Go(s, x), y)
        /\ New(s, x).status = x /\ New(s, x).start = y /\ New(s, x).code = code /\ New(s, x).kv_queue = q
        /\ Go(s, x).status = x /\ Go(s, x).start = from /\ Go(s, x).code = code /\ Go(s, x).kv_queue = q
    BY <1>1, CacheType
  <2>2. Moved(s, New(s, x)).hc = New(s, x) /\ Moved(s, New(s, x)).rc = "more"
        /\ Moved(s, Go(s, x)).hc = Go(s, x) /\ Moved(s, Go(s, x)).rc = "more"
    BY <1>2, <2>1
  <2> QED BY <2>1, <2>2 DEF Mid
<1>4. Mid(Moved(s, s.hc), st, from, code, q)
  <2>1. CacheIn(s.hc, y)
    BY <1>0, CacheType
  <2>2. Moved(s, s.hc).hc = s.hc /\ Moved(s, s.hc).rc = "more"
    BY <1>0, <1>2, <2>1
  <2> QED BY <1>1, <2>2 DEF Mid
<1>5. Mid(Moved(s, [New(s, "VSR_STAT") EXCEPT !.code = Piece(s)]), "VSR_STAT", y, seg, q)
  <2> DEFINE n == New(s, "VSR_STAT")
             h == [n EXCEPT !.code = Piece(s)]
  <2>0. "VSR_STAT" \in HeadStatus
    BY DEF HeadStatus
  <2>1. n \in HeadCache /\ CacheIn(n, y) /\ n.status = "VSR_STAT" /\ Piece(s) \in Segment /\ n.start = y
        /\ Piece(s).off + Piece(s).len <= s.pos /\ n.kv_queue = s.hc.kv_queue
    BY <2>0, CacheType
  <2>2. Piece(s).off + Piece(s).len <= y
    BY <1>0, <2>1 DEF Segment
  <2>3. h \in HeadCache /\ CacheIn(h, y) /\ h.status = "VSR_STAT" /\ h.start = y /\ h.code = Piece(s)
        /\ h.kv_queue = s.hc.kv_queue
    <3> HIDE DEF n, y
    <3> QED BY <1>0, <2>1, <2>2, CacheCode
  <2> HIDE DEF n, h
  <2>4. Moved(s, h).hc = h /\ Moved(s, h).rc = "more"
    BY <1>2, <2>3
  <2>5. Mid(Moved(s, h), "VSR_STAT", y, seg, q)
    BY <1>1, <2>3, <2>4 DEF Mid
  <2> QED BY <2>5 DEF n, h
<1>6. Mid([Moved(s, [New(s, "KEY_DONE") EXCEPT
                      !.kv_queue = Append(@, [key |-> Piece(s), value |-> NoSegment])]) EXCEPT !.kv = TRUE],
          "KEY_DONE", y, code, Append(q, [key |-> seg, value |-> NoSegment]))
  <2> DEFINE n == New(s, "KEY_DONE")
             u == Append(n.kv_queue, [key |-> Piece(s), value |-> NoSegment])
             h == [n EXCEPT !.kv_queue = u]
  <2>0. "KEY_DONE" \in HeadStatus
    BY DEF HeadStatus
  <2>1. n \in HeadCache /\ CacheIn(n, y) /\ n.status = "KEY_DONE" /\ Piece(s) \in Segment
        /\ Piece(s).off + Piece(s).len <= s.pos /\ n.kv_queue = s.hc.kv_queue /\ n.start = y /\ n.code = code
    BY <1>1, <2>0, CacheType
  <2>2. u \in Seq(KeyValue) /\ QueueIn(u, y)
    BY <1>0, <2>1, QueueType
  <2>3. u = Append(q, [key |-> seg, value |-> NoSegment])
    BY <1>1, <2>1
  <2>4. h \in HeadCache /\ CacheIn(h, y) /\ h.status = "KEY_DONE" /\ h.start = y /\ h.code = code /\ h.kv_queue = u
    <3> HIDE DEF n, y, u
    <3> QED BY <1>0, <2>1, <2>2, CacheQueue
  <2> HIDE DEF n, h, u
  <2>5. [Moved(s, h) EXCEPT !.kv = TRUE].hc = h /\ [Moved(s, h) EXCEPT !.kv = TRUE].rc = "more"
    BY <1>2, <2>4
  <2>6. Mid([Moved(s, h) EXCEPT !.kv = TRUE], "KEY_DONE", y, code, u)
    BY <2>4, <2>5 DEF Mid
  <2> QED BY <2>3, <2>6 DEF n, h, u
<1>7. Mid([Moved(s, [Go(s, "LINE_HALF") EXCEPT !.kv_queue = Value(@, s.kv, Piece(s))]) EXCEPT !.kv = FALSE],
          "LINE_HALF", from, code, [q EXCEPT ![Len(q)].value = seg])
  <2> DEFINE n == Go(s, "LINE_HALF")
             u == Value(n.kv_queue, s.kv, Piece(s))
             h == [n EXCEPT !.kv_queue = u]
  <2>0. "LINE_HALF" \in HeadStatus
    BY DEF HeadStatus
  <2>1. n \in HeadCache /\ CacheIn(n, y) /\ n.status = "LINE_HALF" /\ Piece(s) \in Segment
        /\ Piece(s).off + Piece(s).len <= s.pos /\ n.kv_queue = s.hc.kv_queue /\ n.start = from /\ n.code = code
    BY <1>1, <2>0, CacheType
  <2>2. u \in Seq(KeyValue) /\ QueueIn(u, y)
    BY <1>0, <2>1, QueueType
  <2>3. u = [q EXCEPT ![Len(q)].value = seg]
    BY <1>1, <2>1 DEF Value
  <2>4. h \in HeadCache /\ CacheIn(h, y) /\ h.status = "LINE_HALF" /\ h.start = from /\ h.code = code /\ h.kv_queue = u
    <3> HIDE DEF n, y, u
    <3> QED BY <1>0, <2>1, <2>2, CacheQueue
  <2> HIDE DEF n, h, u
  <2>5. [Moved(s, h) EXCEPT !.kv = FALSE].hc = h /\ [Moved(s, h) EXCEPT !.kv = FALSE].rc = "more"
    BY <1>2, <2>4
  <2>6. Mid([Moved(s, h) EXCEPT !.kv = FALSE], "LINE_HALF", from, code, u)
    BY <2>4, <2>5 DEF Mid
  <2> QED BY <2>3, <2>6 DEF n, h, u
<1>8. LET m == [Moved(s, Go(s, "HEAD_DONE")) EXCEPT !.rc = "parsed"] IN
      m.rc = "parsed" /\ m.hc.status = "HEAD_DONE" /\ m.hc.code = code /\ m.hc.kv_queue = q
  <2>0. "HEAD_DONE" \in HeadStatus
    BY DEF HeadStatus
  <2> DEFINE g == Go(s, "HEAD_DONE")
  <2>1. g \in HeadCache /\ CacheIn(g, y) /\ g.status = "HEAD_DONE" /\ g.code = code /\ g.kv_queue = q
    BY <1>1, <2>0, CacheType
  <2> HIDE DEF g
  <2>2. [Moved(s, g) EXCEPT !.rc = "parsed"].hc = g /\ [Moved(s, g) EXCEPT !.rc = "parsed"].rc = "parsed"
    BY <1>2, <2>1
  <2> QED BY <2>1, <2>2 DEF g
<1>10. {"VSR_VER", "VSR_REAS", "KEY_DONE", "LINE_DONE", "HEAD_HALF"} \subseteq HeadStatus
  BY DEF HeadStatus
<1>a. /\ Mid(Moved(s, New(s, "VSR_VER")), "VSR_VER", y, code, q)
      /\ Mid(Moved(s, New(s, "KEY_DONE")), "KEY_DONE", y, code, q)
      /\ Mid(Moved(s, New(s, "VSR_REAS")), "VSR_REAS", y, code, q)
      /\ Mid(Moved(s, Go(s, "HEAD_HALF")), "HEAD_HALF", from, code, q)
  <2> HIDE DEF y
  <2> QED BY <1>3, <1>10
<1>11. /\ c = SP /\ st = "VSR_START" => Mid(t, "VSR_VER", y, code, q)
       /\ c = SP /\ st = "VSR_VER" => Mid(t, "VSR_STAT", y, seg, q)
       /\ c = SP /\ st = "VSR_STAT" => Mid(t, st, from, code, q)
       /\ c = SP /\ st = "KEY_DONE" => Mid(t, "KEY_DONE", y, code, q)
  <2> HIDE DEF y, seg
  <2>1. c = SP /\ st = "VSR_START" => Mid(t, "VSR_VER", y, code, q)
    BY <1>1, <1>a, StepIs, Zenon DEF t
  <2>2. c = SP /\ st = "VSR_VER" => Mid(t, "VSR_STAT", y, seg, q)
    BY <1>1, <1>5, StepIs, Zenon DEF t
  <2>3. c = SP /\ st = "VSR_STAT" => Mid(t, st, from, code, q)
    <3>1. st = "VSR_STAT" => s.hc.status \notin {"VSR_START", "VSR_VER", "KEY_DONE"}
      BY <1>1
    <3> QED BY <1>1, <1>4, <3>1, StepIs, Zenon DEF t
  <2>4. c = SP /\ st = "KEY_DONE" => Mid(t, "KEY_DONE", y, code, q)
    BY <1>1, <1>a, StepIs, Zenon DEF t
  <2> QED BY <2>1, <2>2, <2>3, <2>4
<1>12. /\ c = COLON /\ st = "LINE_DONE" =>
                    Mid(t, "KEY_DONE", y, code, Append(q, [key |-> seg, value |-> NoSegment]))
       /\ c = COLON /\ st = "KEY_DONE" => Mid(t, st, from, code, q)
  <2> HIDE DEF y, seg
  <2> QED BY <1>1, <1>4, <1>6, StepIs, Zenon DEF t
<1>13. /\ c = CR /\ st = "VSR_STAT" => Mid(t, "VSR_REAS", y, code, q)
       /\ c = CR /\ st = "KEY_DONE" => Mid(t, "LINE_HALF", from, code, [q EXCEPT ![Len(q)].value = seg])
       /\ c = CR /\ st = "LINE_DONE" => Mid(t, "HEAD_HALF", from, code, q)
  <2> HIDE DEF y, seg
  <2>1. c = CR /\ st = "VSR_STAT" => Mid(t, "VSR_REAS", y, code, q)
    BY <1>1, <1>a, StepIs, Zenon DEF t
  <2>2. c = CR /\ st = "KEY_DONE" => Mid(t, "LINE_HALF", from, code, [q EXCEPT ![Len(q)].value = seg])
    BY <1>1, <1>7, StepIs, Zenon DEF t
  <2>3. c = CR /\ st = "LINE_DONE" => Mid(t, "HEAD_HALF", from, code, q)
    BY <1>1, <1>a, StepIs, Zenon DEF t
  <2> QED BY <2>1, <2>2, <2>3
<1>14. /\ c = LF /\ st \in {"VSR_REAS", "LINE_HALF"} => Mid(t, "LINE_DONE", y, code, q)
       /\ c = LF /\ st = "HEAD_HALF" =>
            t.rc = "parsed" /\ t.hc.status = "HEAD_DONE" /\ t.hc.code = code /\ t.hc.kv_queue = q
  <2> HIDE DEF y, seg
  <2> QED BY <1>1, <1>3, <1>8, <1>10, StepIs, ZenonT(40) DEF t
<1>15. c \notin {SP, COLON, CR, LF} => Mid(t, st, from, code, q)
  BY <1>1, <1>4, StepIs, Zenon DEF t
<1> HIDE DEF t, y, seg
<1>16. /\ c = SP /\ st = "VSR_START" => Mid(t, "VSR_VER", y, code, q)
       /\ c = SP /\ st = "VSR_VER" => Mid(t, "VSR_STAT", y, seg, q)
       /\ c = SP /\ st = "VSR_STAT" => Mid(t, st, from, code, q)
       /\ c = CR /\ st = "VSR_STAT" => Mid(t, "VSR_REAS", y, code, q)
       /\ c = LF /\ st \in {"VSR_REAS", "LINE_HALF"} => Mid(t, "LINE_DONE", y, code, q)
       /\ c = COLON /\ st = "LINE_DONE" =>
            Mid(t, "KEY_DONE", y, code, Append(q, [key |-> seg, value |-> NoSegment]))
       /\ c = COLON /\ st = "KEY_DONE" => Mid(t, st, from, code, q)
       /\ c = SP /\ st = "KEY_DONE" => Mid(t, "KEY_DONE", y, code, q)
       /\ c = CR /\ st = "KEY_DONE" => Mid(t, "LINE_HALF", from, code, [q EXCEPT ![Len(q)].value = seg])
       /\ c = CR /\ st = "LINE_DONE" => Mid(t, "HEAD_HALF", from, code, q)
       /\ c \notin {SP, COLON, CR, LF} => Mid(t, st, from, code, q)
       /\ c = LF /\ st = "HEAD_HALF" =>
            t.rc = "parsed" /\ t.hc.status = "HEAD_DONE" /\ t.hc.code = code /\ t.hc.kv_queue = q
  BY <1>11, <1>12, <1>13, <1>14, <1>15
<1> QED BY <1>16 DEF MidNext, t, y, seg

\* The next byte of a stream.
LEMMA LoopedStep ==
    ASSUME NEW z, NEW i \in Nat
    PROVE  /\ Looped(z, i) \in HeadState /\ (Looped(z, i).rc = "more" => Looped(z, i).pos = i)
           /\ Looped(z, i + 1) = HeadStep(Looped(z, i), z[i + 1])
<1>1. First \in HeadState /\ First.pos = 0
  BY BeginType
<1>2. i + 1 > First.pos
  BY <1>1
<1>3. Looped(z, i + 1) = HeadStep(Looped(z, i), z[i + 1])
  BY <1>1, <1>2, HeadRunIs DEF Looped
<1> QED BY <1>3, AtType
\* The offset of field k, and of what ends the head when k is one more than there are fields
FieldAt(r, k) == 7 + Len(Upto(Lines(r), k - 1))

\* u is the line of a field with key x and value v
IsLine(u, x, v) ==
    /\ Len(v) \in Nat /\ Len(u) = Len(v) + 5 /\ u[1] = x /\ u[2] = COLON /\ u[3] = SP
    /\ \A j \in 1..Len(v) : u[3 + j] = v[j]
    /\ u[Len(v) + 4] = CR /\ u[Len(v) + 5] = LF

\* The bytes of a field line.
LEMMA LineBytes ==
    ASSUME NEW x \in Char, NEW v \in Seq(Char), NEW u, u = <<x, COLON, SP>> \o v \o CRLF
    PROVE  IsLine(u, x, v)
<1> DEFINE h == <<x, COLON, SP>>
           a == h \o v
           n == Len(v)
<1>1. h \in Seq(Char) /\ Len(h) = 3 /\ h[1] = x /\ h[2] = COLON /\ h[3] = SP
  BY Chars
<1> HIDE DEF h
<1>2. a \in Seq(Char) /\ n \in Nat /\ Len(a) = 3 + n /\ (\A i \in 1..3 : a[i] = h[i]) /\ \A j \in 1..n : a[3 + j] = v[j]
  <2>0. h \in Seq(Char) /\ v \in Seq(Char)
    BY <1>1
  <2>1. h \o v \in Seq(Char) /\ Len(v) \in Nat /\ Len(h \o v) = Len(h) + Len(v)
        /\ (\A i \in 1..Len(h) : (h \o v)[i] = h[i]) /\ \A i \in 1..Len(v) : (h \o v)[Len(h) + i] = v[i]
    BY <2>0, Joined
  <2> QED BY <1>1, <2>1
<1> HIDE DEF a
<1>3. u = a \o CRLF
  BY DEF a, h
<1>4. Len(u) = Len(a) + 2 /\ (\A i \in 1..Len(a) : u[i] = a[i]) /\ u[Len(a) + 1] = CR /\ u[Len(a) + 2] = LF
  <2>1. CRLF \in Seq(Char) /\ Len(CRLF) = 2 /\ CRLF[1] = CR /\ CRLF[2] = LF
    BY Chars
  <2>0. a \in Seq(Char) /\ CRLF \in Seq(Char)
    BY <1>2, <2>1
  <2>2. Len(a \o CRLF) = Len(a) + Len(CRLF) /\ (\A i \in 1..Len(a) : (a \o CRLF)[i] = a[i])
        /\ \A i \in 1..Len(CRLF) : (a \o CRLF)[Len(a) + i] = CRLF[i]
    BY <2>0, Joined
  <2>3. 1 \in 1..Len(CRLF) /\ 2 \in 1..Len(CRLF)
    BY <2>1
  <2> QED BY <1>3, <2>1, <2>2, <2>3
<1> HIDE DEF n
<1>5. 1 \in 1..Len(a) /\ 2 \in 1..Len(a) /\ 3 \in 1..Len(a) /\ (\A j \in 1..n : 3 + j \in 1..Len(a))
      /\ Len(a) + 1 = n + 4 /\ Len(a) + 2 = n + 5
  BY <1>2
<1>6. u[1] = x /\ u[2] = COLON /\ u[3] = SP /\ (\A j \in 1..n : u[3 + j] = v[j])
  <2>1. a[1] = x /\ a[2] = COLON /\ a[3] = SP
    BY <1>1, <1>2
  <2>2. u[1] = a[1] /\ u[2] = a[2] /\ u[3] = a[3]
    BY <1>4, <1>5
  <2>3. ASSUME NEW j \in 1..n PROVE u[3 + j] = v[j]
    BY <1>2, <1>4, <1>5, Zenon
  <2> QED BY <2>1, <2>2, <2>3
<1>7. Len(u) = n + 5 /\ u[n + 4] = CR /\ u[n + 5] = LF
  BY <1>2, <1>4, <1>5
<1> QED BY <1>2, <1>6, <1>7 DEF n, IsLine

\* The bytes of a head: the status line, the fields, an empty line.
LEMMA HeadBytes ==
    ASSUME NEW r \in Response
    PROVE  /\ Len(HeadOf(r)) \in Nat
           /\ Stream(r)[1] = "HTTP/1.1" /\ Stream(r)[2] = SP /\ Stream(r)[3] = r.code /\ Stream(r)[4] = SP
           /\ Stream(r)[5] = "OK" /\ Stream(r)[6] = CR /\ Stream(r)[7] = LF
           /\ FieldAt(r, 1) = 7
           /\ \A k \in 1..Len(r.fields) :
                LET o == FieldAt(r, k)
                    v == r.fields[k].value
                IN  /\ o \in Nat /\ Len(v) \in Nat /\ FieldAt(r, k + 1) = o + (Len(v) + 5)
                    /\ FieldAt(r, k + 1) <= Len(HeadOf(r))
                    /\ Stream(r)[o + 1] = r.fields[k].key /\ Stream(r)[o + 2] = COLON /\ Stream(r)[o + 3] = SP
                    /\ \A j \in 1..Len(v) : Stream(r)[o + (3 + j)] = v[j]
                    /\ Stream(r)[o + (Len(v) + 4)] = CR /\ Stream(r)[o + (Len(v) + 5)] = LF
           /\ LET e == FieldAt(r, Len(r.fields) + 1) IN
              e \in Nat /\ Len(HeadOf(r)) = e + 2 /\ Stream(r)[e + 1] = CR /\ Stream(r)[e + 2] = LF
<1> DEFINE z == Stream(r)
           h == HeadOf(r)
           nf == Len(r.fields)
           s == StatusLine(r)
           L == Upto(Lines(r), nf)
           a == s \o L
           l == Len(L)
<1>1. /\ h = a \o CRLF /\ h \in Seq(Char) /\ L \in Seq(Char) /\ Len(h) = 7 + l + 2
      /\ \A i \in 1..Len(h) : z[i] = h[i]
  BY StreamIs
<1>2. s \in Seq(Char) /\ Len(s) = 7 /\ nf \in Nat /\ Lines(r) \in [1..nf -> Seq(Char)]
      /\ r.fields \in Seq([key: STRING, value: Seq(STRING)])
      /\ (\A i \in 1..nf : r.fields[i].key \in Char /\ r.fields[i].value \in Seq(Char))
  <2>0. Lines(r) \in [1..nf -> Seq(Char)] /\ s \in Seq(Char) /\ Len(s) = 7 /\ nf \in Nat
    BY PartsType
  <2>1. r.fields \in Seq([key: STRING, value: Seq(STRING)])
    BY DEF Response
  <2>2. ASSUME NEW i \in 1..nf PROVE r.fields[i].key \in Char /\ r.fields[i].value \in Seq(Char)
    <3>1. r.fields[i] \in [key: STRING, value: Seq(STRING)]
      BY PartsType
    <3>2. r.fields[i].key \in STRING /\ r.fields[i].value \in Seq(STRING)
      BY <3>1
    <3> QED BY <3>2, Chars, Elements
  <2> QED BY <2>0, <2>1, <2>2
<1>3. s = <<"HTTP/1.1", SP, r.code, SP, "OK", CR, LF>>
  BY DEF StatusLine
<1>4. s[1] = "HTTP/1.1" /\ s[2] = SP /\ s[3] = r.code /\ s[4] = SP /\ s[5] = "OK" /\ s[6] = CR /\ s[7] = LF
  BY <1>3
<1> HIDE DEF z, h, s, L, nf
<1>5. l \in Nat
  BY <1>1, Elements
<1>6. a \in Seq(Char) /\ Len(a) = 7 + l /\ (\A i \in 1..7 : a[i] = s[i]) /\ \A i \in 1..l : a[7 + i] = L[i]
  <2>0. s \in Seq(Char) /\ L \in Seq(Char)
    BY <1>1, <1>2
  <2>1. s \o L \in Seq(Char) /\ Len(s \o L) = Len(s) + Len(L)
        /\ (\A i \in 1..Len(s) : (s \o L)[i] = s[i]) /\ \A i \in 1..Len(L) : (s \o L)[Len(s) + i] = L[i]
    BY <2>0, Joined
  <2> QED BY <1>2, <2>1
<1> HIDE DEF a
<1>7. (\A i \in 1..Len(a) : h[i] = a[i]) /\ h[Len(a) + 1] = CR /\ h[Len(a) + 2] = LF
  <2>1. CRLF \in Seq(Char) /\ Len(CRLF) = 2 /\ CRLF[1] = CR /\ CRLF[2] = LF
    BY Chars
  <2>0. a \in Seq(Char) /\ CRLF \in Seq(Char)
    BY <1>6, <2>1
  <2>2. (\A i \in 1..Len(a) : (a \o CRLF)[i] = a[i]) /\ \A i \in 1..Len(CRLF) : (a \o CRLF)[Len(a) + i] = CRLF[i]
    BY <2>0, Joined
  <2>3. 1 \in 1..Len(CRLF) /\ 2 \in 1..Len(CRLF)
    BY <2>1
  <2> QED BY <1>1, <2>1, <2>2, <2>3
<1> DEFINE e == 7 + l
<1>8. /\ (\A i \in 1..7 : z[i] = s[i]) /\ (\A i \in 1..l : z[7 + i] = L[i]) /\ z[e + 1] = CR /\ z[e + 2] = LF
      /\ Len(h) = e + 2 /\ e \in Nat
  <2>1. Len(a) = e /\ Len(h) = e + 2 /\ e \in Nat /\ e >= 7
    BY <1>1, <1>5, <1>6
  <2>2. (\A i \in 1..7 : i \in 1..Len(h) /\ i \in 1..Len(a)) /\ \A i \in 1..l : 7 + i \in 1..Len(h) /\ 7 + i \in 1..Len(a)
    BY <1>5, <2>1
  <2>3. e + 1 \in 1..Len(h) /\ e + 2 \in 1..Len(h)
    BY <2>1
  <2> HIDE DEF e
  <2> QED BY <1>1, <1>6, <1>7, <2>1, <2>2, <2>3
<1>9. FieldAt(r, nf + 1) = e
  <2>1. (nf + 1) - 1 = nf
    BY <1>2
  <2> QED BY <2>1 DEF FieldAt, L
<1>10. FieldAt(r, 1) = 7
  <2>1. Upto(Lines(r), 0) = <<>>
    BY <1>2, FlattenUpto
  <2> QED BY <2>1 DEF FieldAt
<1> HIDE DEF l
<1>11. ASSUME NEW k \in 1..nf
       PROVE  LET o == FieldAt(r, k)
                  v == r.fields[k].value
              IN  /\ o \in Nat /\ Len(v) \in Nat /\ FieldAt(r, k + 1) = o + (Len(v) + 5) /\ FieldAt(r, k + 1) <= Len(h)
                  /\ z[o + 1] = r.fields[k].key /\ z[o + 2] = COLON /\ z[o + 3] = SP
                  /\ \A j \in 1..Len(v) : z[o + (3 + j)] = v[j]
                  /\ z[o + (Len(v) + 4)] = CR /\ z[o + (Len(v) + 5)] = LF
  <2> DEFINE x == r.fields[k].key
             v == r.fields[k].value
             u == Lines(r)[k]
             p == Upto(Lines(r), k - 1)
             lp == Len(p)
             lv == Len(v)
  <2>1. x \in Char /\ v \in Seq(Char) /\ u = <<x, COLON, SP>> \o v \o CRLF
    <3>1. Lines(r)[k] = Line(r.fields[k])
      BY DEF Lines, nf
    <3> QED BY <1>2, <3>1 DEF Line
  <2> HIDE DEF x, v, u
  <2>2. /\ lv \in Nat /\ Len(u) = lv + 5 /\ u[1] = x /\ u[2] = COLON /\ u[3] = SP
        /\ (\A j \in 1..lv : u[3 + j] = v[j]) /\ u[lv + 4] = CR /\ u[lv + 5] = LF
    <3>1. IsLine(u, x, v)
      BY <2>1, LineBytes
    <3> QED BY <3>1 DEF IsLine
  <2>3. lp \in Nat
    <3>1. k - 1 \in 0..nf
      BY <1>2
    <3>2. p \in Seq(Char)
      BY <1>2, <3>1, FlattenUpto
    <3> QED BY <3>2, Elements
  <2>4. Len(Upto(Lines(r), k)) = lp + Len(u) /\ Len(Upto(Lines(r), k)) <= l /\ \A j \in 1..Len(u) : L[lp + j] = u[j]
    <3>0. nf \in k..nf
      BY <1>2
    <3>1. Placed(Lines(r), k, nf)
      BY <1>2, <3>0, Places
    <3> QED BY <3>1 DEF Placed, u, L, l
  <2> HIDE DEF p, lp, lv
  <2> DEFINE o == 7 + lp
  <2>5. FieldAt(r, k) = o /\ FieldAt(r, k + 1) = o + (lv + 5) /\ o \in Nat
    <3>1. (k + 1) - 1 = k
      BY <1>2
    <3>2. FieldAt(r, k) = o
      BY DEF FieldAt, p, lp
    <3>3. FieldAt(r, k + 1) = 7 + Len(Upto(Lines(r), k))
      BY <3>1 DEF FieldAt
    <3>4. Len(Upto(Lines(r), k)) = lp + (lv + 5)
      BY <2>2, <2>4
    <3> HIDE DEF FieldAt
    <3>5. 7 + Len(Upto(Lines(r), k)) = o + (lv + 5)
      BY SMTT(40), <2>2, <2>3, <3>4
    <3>6. o \in Nat
      BY <2>3
    <3> QED BY <3>2, <3>3, <3>5, <3>6
  <2>6. o + (lv + 5) <= Len(h)
    <3>1. lp + (lv + 5) <= l
      BY <2>2, <2>4
    <3> QED BY <1>5, <1>8, <2>2, <2>3, <3>1
  <2>7. ASSUME NEW j \in 1..(lv + 5) PROVE z[o + j] = u[j]
    <3>1. lp + j \in 1..l /\ o + j = 7 + (lp + j)
      BY <1>5, <2>2, <2>3, <2>4
    <3>2. z[7 + (lp + j)] = L[lp + j]
      BY <1>8, <3>1
    <3>3. L[lp + j] = u[j]
      BY <2>2, <2>4
    <3> QED BY <3>1, <3>2, <3>3
  <2>8. 1 \in 1..(lv + 5) /\ 2 \in 1..(lv + 5) /\ 3 \in 1..(lv + 5) /\ lv + 4 \in 1..(lv + 5) /\ lv + 5 \in 1..(lv + 5)
        /\ \A j \in 1..lv : 3 + j \in 1..(lv + 5)
    BY <2>2
  <2> HIDE DEF o
  <2>9. z[o + 1] = x /\ z[o + 2] = COLON /\ z[o + 3] = SP /\ (\A j \in 1..lv : z[o + (3 + j)] = v[j])
        /\ z[o + (lv + 4)] = CR /\ z[o + (lv + 5)] = LF
    BY <2>2, <2>7, <2>8
  <2> QED BY <2>2, <2>5, <2>6, <2>9 DEF x, v, lv
<1>12. z[1] = "HTTP/1.1" /\ z[2] = SP /\ z[3] = r.code /\ z[4] = SP /\ z[5] = "OK" /\ z[6] = CR /\ z[7] = LF
  BY <1>4, <1>8
<1>13. Len(h) \in Nat
  BY <1>8
<1> HIDE DEF e
<1> QED BY <1>8, <1>9, <1>10, <1>11, <1>12, <1>13 DEF z, h, nf
\* The last space of v, and the fields of r as they are recorded
Space(v) == IF {i \in DOMAIN v : v[i] = SP} = {} THEN 0 ELSE Max({i \in DOMAIN v : v[i] = SP})
Entry(r, i) ==
    [key |-> [off |-> FieldAt(r, i), len |-> 1],
     value |-> [off |-> FieldAt(r, i) + 3 + Space(r.fields[i].value),
                len |-> Len(r.fields[i].value) - Space(r.fields[i].value)]]
Queue(r, k) == [i \in 1..k |-> Entry(r, i)]
CodeAt == [off |-> 2, len |-> 1]

\* x is the last space of the first j bytes of v, or 0
LastSpace(v, j, x) == x \in 0..j /\ (x > 0 => v[x] = SP) /\ \A i \in (x + 1)..j : v[i] # SP

\* The last space of the whole value.
LEMMA SpaceIs ==
    ASSUME NEW v \in Seq(Char)
    PROVE  /\ Space(v) \in 0..Len(v)
           /\ \A x : LastSpace(v, Len(v), x) => x = Space(v)
<1> DEFINE n == Len(v)
           D == {i \in DOMAIN v : v[i] = SP}
<1>1. n \in Nat /\ DOMAIN v = 1..n
  BY Elements
<1> HIDE DEF n
<1>2. D \subseteq 1..n
  BY <1>1
<1>3. Space(v) = IF D = {} THEN 0 ELSE Max(D)
  BY DEF Space
<1>4. D # {} => Max(D) \in D /\ \A y \in D : Max(D) >= y
  <2> HIDE DEF D
  <2> QED BY <1>1, <1>2, IntervalMax
<1>5. Space(v) \in 0..n
  BY <1>1, <1>2, <1>3, <1>4
<1>6. ASSUME NEW x, LastSpace(v, n, x) PROVE x = Space(v)
  <2>1. x \in 0..n /\ (x > 0 => v[x] = SP) /\ \A i \in (x + 1)..n : v[i] # SP
    BY <1>6 DEF LastSpace
  <2>2. CASE D = {}
    <3>1. x = 0
      BY <1>1, <2>1, <2>2
    <3> QED BY <1>3, <2>2, <3>1
  <2>3. CASE D # {}
    <3> DEFINE m == Max(D)
    <3>1. m \in D /\ \A y \in D : m >= y
      BY <1>4, <2>3
    <3> HIDE DEF m
    <3>2. m \in 1..n /\ v[m] = SP
      BY <1>1, <3>1
    <3>3. m <= x
      BY <1>1, <2>1, <3>2
    <3>4. x \in D
      BY <1>1, <2>1, <3>2, <3>3
    <3>5. m >= x
      BY <3>1, <3>4
    <3>6. m = x
      BY <1>1, <2>1, <3>2, <3>3, <3>5
    <3> QED BY <1>3, <2>3, <3>6 DEF m
  <2> QED BY <2>2, <2>3
<1> QED BY <1>5, <1>6 DEF n

\* The bytes of a value: every space moves the start of the recorded piece behind it.
LEMMA ValueRun ==
    ASSUME NEW z, NEW p \in Nat, NEW v \in Seq(Char), \A j \in 1..Len(v) : v[j] \notin {CR, LF},
           \A j \in 1..Len(v) : z[p + j] = v[j],
           NEW code, NEW q, Mid(Looped(z, p), "KEY_DONE", p, code, q)
    PROVE  Mid(Looped(z, p + Len(v)), "KEY_DONE", p + Space(v), code, q)
<1> DEFINE n == Len(v)
           T == {j \in 0..n : \E x : LastSpace(v, j, x) /\ Mid(Looped(z, p + j), "KEY_DONE", p + x, code, q)}
<1>1. n \in Nat
  BY Elements
<1> HIDE DEF n
<1>2. 0 \in T
  <2>1. LastSpace(v, 0, 0)
    BY DEF LastSpace
  <2>2. p + 0 = p
    OBVIOUS
  <2> QED BY <1>1, <2>1, <2>2
<1>3. ASSUME NEW j \in 0..(n - 1), j \in T PROVE j + 1 \in T
  <2>1. PICK x : LastSpace(v, j, x) /\ Mid(Looped(z, p + j), "KEY_DONE", p + x, code, q)
    BY <1>3
  <2> DEFINE i == p + j
             s == Looped(z, i)
             c == z[i + 1]
  <2>2. i \in Nat /\ i + 1 = p + (j + 1) /\ j + 1 \in 1..n /\ j + 1 \in 0..n /\ j \in Nat
    BY <1>1
  <2>3. s \in HeadState /\ s.pos = i /\ Looped(z, i + 1) = HeadStep(s, c)
    <3> HIDE DEF i
    <3>1. s.rc = "more"
      BY <2>1 DEF Mid, i
    <3> QED BY <2>2, <3>1, LoopedStep
  <2>4. c = v[j + 1] /\ c \notin {CR, LF}
    <3>1. z[p + (j + 1)] = v[j + 1] /\ v[j + 1] \notin {CR, LF}
      BY <2>2 DEF n
    <3> QED BY <2>2, <3>1
  <2> HIDE DEF s, c
  <2>5. Mid(s, "KEY_DONE", p + x, code, q)
    BY <2>1 DEF s
  <2>6. x \in 0..j /\ (x > 0 => v[x] = SP) /\ \A y \in (x + 1)..j : v[y] # SP
    BY <2>1 DEF LastSpace
  <2>7. /\ c = COLON => Mid(HeadStep(s, c), "KEY_DONE", p + x, code, q)
        /\ c = SP => Mid(HeadStep(s, c), "KEY_DONE", s.pos + 1, code, q)
        /\ c \notin {SP, COLON, CR, LF} => Mid(HeadStep(s, c), "KEY_DONE", p + x, code, q)
    <3> DEFINE f == p + x
    <3> HIDE DEF f, i
    <3>1. Mid(s, "KEY_DONE", f, code, q) /\ s \in HeadState
      BY <2>3, <2>5 DEF f
    <3>2. /\ c = COLON => Mid(HeadStep(s, c), "KEY_DONE", f, code, q)
          /\ c = SP => Mid(HeadStep(s, c), "KEY_DONE", s.pos + 1, code, q)
          /\ c \notin {SP, COLON, CR, LF} => Mid(HeadStep(s, c), "KEY_DONE", f, code, q)
      <4>1. MidNext(HeadStep(s, c), c, s.pos, "KEY_DONE", f, code, q)
        BY <3>1, StepMid
      <4> QED BY <4>1 DEF MidNext
    <3> QED BY <3>2 DEF f
  <2>8. CASE c = SP
    <3>1. LastSpace(v, j + 1, j + 1)
      BY <2>2, <2>4, <2>8 DEF LastSpace
    <3>2. Mid(Looped(z, p + (j + 1)), "KEY_DONE", p + (j + 1), code, q)
      BY <2>2, <2>3, <2>7, <2>8
    <3> QED BY <2>2, <3>1, <3>2
  <2>9. CASE c # SP
    <3>1. LastSpace(v, j + 1, x)
      <4>1. x \in 0..(j + 1)
        BY <2>2, <2>6
      <4>2. ASSUME NEW y \in (x + 1)..(j + 1) PROVE v[y] # SP
        <5>1. CASE y = j + 1
          BY <2>4, <2>9, <5>1
        <5>2. CASE y # j + 1
          <6>1. y \in (x + 1)..j
            BY <2>2, <2>6, <5>2
          <6> QED BY <2>6, <6>1
        <5> QED BY <5>1, <5>2
      <4> QED BY <2>6, <4>1, <4>2 DEF LastSpace
    <3>2. Mid(Looped(z, p + (j + 1)), "KEY_DONE", p + x, code, q)
      <4>1. Mid(HeadStep(s, c), "KEY_DONE", p + x, code, q)
        BY <2>4, <2>7, <2>9
      <4> QED BY <2>2, <2>3, <4>1
    <3> QED BY <2>2, <3>1, <3>2
  <2> QED BY <2>8, <2>9
<1>4. n \in T
  <2>1. \A j \in 0..n : j \in T
    <3> HIDE DEF T
    <3>1. 0 \in Nat
      OBVIOUS
    <3> QED BY <1>1, <1>2, <1>3, <3>1, IntervalInduction
  <2> QED BY <1>1, <2>1
<1>5. PICK x : LastSpace(v, n, x) /\ Mid(Looped(z, p + n), "KEY_DONE", p + x, code, q)
  BY <1>4
<1>6. x = Space(v)
  BY <1>5, SpaceIs DEF n
<1> QED BY <1>5, <1>6 DEF n

\* g is the queue of the first k fields of e, but for the value of the last one
Unvalued(g, k, c, e) == Len(g) = k /\ [g EXCEPT ![k].value = c] = [i \in 1..k |-> e[i]]

\* A colon appends a field, and the end of its line sets its value.
LEMMA QueueNext ==
    ASSUME NEW n \in Nat, NEW e \in [1..n -> KeyValue], NEW k \in 1..n, NEW a \in Segment, NEW c \in Segment,
           e[k] = [key |-> a, value |-> c], NEW g, g = Append([i \in 1..(k - 1) |-> e[i]], [key |-> a, value |-> NoSegment])
    PROVE  Unvalued(g, k, c, e)
<1> DEFINE d == [i \in 1..(k - 1) |-> e[i]]
           x == [key |-> a, value |-> NoSegment]
           u == [g EXCEPT ![k].value = c]
<1>0. x \in KeyValue /\ k - 1 \in Nat /\ k \in Nat
  BY DEF KeyValue, Segment, NoSegment
<1>1. d \in Seq(KeyValue) /\ Len(d) = k - 1 /\ \A i \in 1..(k - 1) : d[i] = e[i]
  <2>1. \A i \in 1..(k - 1) : e[i] \in KeyValue
    OBVIOUS
  <2>2. d \in [1..(k - 1) -> KeyValue]
    BY <2>1
  <2> HIDE DEF d
  <2>3. d \in Seq(KeyValue) /\ Len(d) = k - 1
    BY <1>0, <2>2
  <2> QED BY <2>3 DEF d
<1> HIDE DEF d, x
<1>2. g \in Seq(KeyValue) /\ Len(g) = k /\ g[k] = x /\ (\A i \in 1..(k - 1) : g[i] = e[i]) /\ DOMAIN g = 1..k
  <2>1. g = Append(d, x)
    BY DEF d, x
  <2>2. g \in Seq(KeyValue) /\ Len(g) = (k - 1) + 1 /\ g[Len(d) + 1] = x /\ \A i \in 1..Len(d) : g[i] = d[i]
    BY <1>0, <1>1, <2>1, AppendProperties
  <2> QED BY <1>0, <1>1, <2>2
<1>3. u = [g EXCEPT ![k] = [g[k] EXCEPT !.value = c]]
  OBVIOUS
<1>4. [g[k] EXCEPT !.value = c] = e[k]
  <2> DEFINE y == [x EXCEPT !.value = c]
             w == e[k]
  <2>1. x.key = a
    BY DEF x
  <2>2. y \in KeyValue /\ y.key = a /\ y.value = c
    BY <1>0, <2>1 DEF KeyValue
  <2>3. w \in KeyValue /\ w.key = a /\ w.value = c
    OBVIOUS
  <2> HIDE DEF y, w
  <2>4. y = w
    BY <2>2, <2>3 DEF KeyValue
  <2> QED BY <1>2, <2>4 DEF y, w
<1>5. ASSUME NEW i \in 1..k PROVE u[i] = e[i]
  <2>1. CASE i = k
    BY <1>2, <1>3, <1>4, <2>1
  <2>2. CASE i # k
    <3>1. i \in 1..(k - 1)
      BY <1>0, <2>2
    <3> QED BY <1>2, <1>3, <2>2, <3>1
  <2> QED BY <2>1, <2>2
<1>6. u = [i \in 1..k |-> u[i]]
  BY <1>2, <1>3
<1> HIDE DEF u
<1> QED BY <1>2, <1>5, <1>6 DEF u, Unvalued
\* The same for the states along a stream.
LEMMA ByteMid ==
    ASSUME NEW z, NEW i \in Nat, NEW st, NEW from, NEW code, NEW q, Mid(Looped(z, i), st, from, code, q)
    PROVE  MidNext(Looped(z, i + 1), z[i + 1], i, st, from, code, q)
<1> DEFINE s == Looped(z, i)
           c == z[i + 1]
           t == Looped(z, i + 1)
<1>1. s.rc = "more"
  BY DEF Mid
<1>2. s \in HeadState /\ s.pos = i /\ t = HeadStep(s, c)
  BY <1>1, LoopedStep
<1> HIDE DEF s, c, t
<1>3. Mid(s, st, from, code, q)
  BY DEF s
<1>4. MidNext(HeadStep(s, c), c, s.pos, st, from, code, q)
  BY <1>2, <1>3, StepMid
<1> QED BY <1>2, <1>4 DEF t, c

\* The status line.
LEMMA StatusRun ==
    ASSUME NEW r \in Response, HeadFits(r)
    PROVE  Mid(Looped(Stream(r), 7), "LINE_DONE", 7, CodeAt, <<>>)
<1> DEFINE z == Stream(r)
<1>1. z[1] = "HTTP/1.1" /\ z[2] = SP /\ z[3] = r.code /\ z[4] = SP /\ z[5] = "OK" /\ z[6] = CR /\ z[7] = LF
  BY HeadBytes
<1>2. r.code \notin {SP, COLON, CR, LF} /\ "HTTP/1.1" \notin {SP, COLON, CR, LF} /\ "OK" \notin {SP, COLON, CR, LF}
  <2>1. r.code \notin {SP, COLON, CR, LF}
    BY DEF HeadFits
  <2> QED BY <2>1 DEF SP, COLON, CR, LF
<1>3. Mid(Looped(z, 0), "VSR_START", 0, NoSegment, <<>>)
  <2>1. First \in HeadState /\ First.pos = 0
    BY BeginType
  <2>2. 0 \in Nat /\ 0 <= First.pos
    BY <2>1
  <2>3. Looped(z, 0) = First
    BY <2>1, <2>2, HeadRunIs DEF Looped
  <2>4. First.rc = "more" /\ First.hc = NewHead
    BY DEF First, Begin
  <2>5. NewHead.status = "VSR_START" /\ NewHead.start = 0 /\ NewHead.code = NoSegment /\ NewHead.kv_queue = <<>>
    BY DEF NewHead
  <2> QED BY <2>3, <2>4, <2>5 DEF Mid
<1> HIDE DEF z
<1>4. Mid(Looped(z, 1), "VSR_START", 0, NoSegment, <<>>)
  <2>1. 0 \in Nat /\ 0 + 1 = 1 /\ z[1] \notin {SP, COLON, CR, LF}
    BY <1>1, <1>2
  <2>3. \A st, from, code, q : Mid(Looped(z, 0), st, from, code, q) => MidNext(Looped(z, 1), z[1], 0, st, from, code, q)
    BY <2>1, ByteMid
  <2> QED BY <1>3, <2>1, <2>3 DEF MidNext
<1>5. Mid(Looped(z, 2), "VSR_VER", 2, NoSegment, <<>>)
  <2>1. 1 \in Nat /\ 1 + 1 = 2 /\ z[2] = SP
    BY <1>1
  <2>3. MidNext(Looped(z, 1 + 1), z[1 + 1], 1, "VSR_START", 0, NoSegment, <<>>)
    BY <1>4, <2>1, ByteMid
  <2>4. MidNext(Looped(z, 2), SP, 1, "VSR_START", 0, NoSegment, <<>>)
    BY <2>1, <2>3
  <2>5. Mid(Looped(z, 2), "VSR_VER", 1 + 1, NoSegment, <<>>)
    BY <2>4, Zenon DEF MidNext
  <2> QED BY <1>4, <2>1, <2>5
<1>6. Mid(Looped(z, 3), "VSR_VER", 2, NoSegment, <<>>)
  <2>1. 2 \in Nat /\ 2 + 1 = 3 /\ z[3] \notin {SP, COLON, CR, LF}
    BY <1>1, <1>2
  <2>3. \A st, from, code, q : Mid(Looped(z, 2), st, from, code, q) => MidNext(Looped(z, 3), z[3], 2, st, from, code, q)
    BY <2>1, ByteMid
  <2> QED BY <1>5, <2>1, <2>3 DEF MidNext
<1>7. Mid(Looped(z, 4), "VSR_STAT", 4, CodeAt, <<>>)
  <2>1. 3 \in Nat /\ 3 + 1 = 4 /\ z[4] = SP
    BY <1>1
  <2>2. [off |-> 2, len |-> 3 - 2] = CodeAt
    BY DEF CodeAt
  <2>3. MidNext(Looped(z, 3 + 1), z[3 + 1], 3, "VSR_VER", 2, NoSegment, <<>>)
    BY <1>6, <2>1, <2>2, ByteMid
  <2>4. MidNext(Looped(z, 4), SP, 3, "VSR_VER", 2, NoSegment, <<>>)
    BY <2>1, <2>3
  <2>5. Mid(Looped(z, 4), "VSR_STAT", 3 + 1, [off |-> 2, len |-> 3 - 2], <<>>)
    BY <2>4, Zenon DEF MidNext
  <2> QED BY <1>6, <2>1, <2>2, <2>5
<1>8. Mid(Looped(z, 5), "VSR_STAT", 4, CodeAt, <<>>)
  <2>1. 4 \in Nat /\ 4 + 1 = 5 /\ z[5] \notin {SP, COLON, CR, LF}
    BY <1>1, <1>2
  <2>3. \A st, from, code, q : Mid(Looped(z, 4), st, from, code, q) => MidNext(Looped(z, 5), z[5], 4, st, from, code, q)
    BY <2>1, ByteMid
  <2> QED BY <1>7, <2>1, <2>3 DEF MidNext
<1>9. Mid(Looped(z, 6), "VSR_REAS", 6, CodeAt, <<>>)
  <2>1. 5 \in Nat /\ 5 + 1 = 6 /\ z[6] = CR
    BY <1>1
  <2>3. MidNext(Looped(z, 5 + 1), z[5 + 1], 5, "VSR_STAT", 4, CodeAt, <<>>)
    BY <1>8, <2>1, ByteMid
  <2>4. MidNext(Looped(z, 6), CR, 5, "VSR_STAT", 4, CodeAt, <<>>)
    BY <2>1, <2>3
  <2>5. Mid(Looped(z, 6), "VSR_REAS", 5 + 1, CodeAt, <<>>)
    BY <2>4, Zenon DEF MidNext
  <2> QED BY <1>8, <2>1, <2>5
<1>10. Mid(Looped(z, 7), "LINE_DONE", 7, CodeAt, <<>>)
  <2>1. 6 \in Nat /\ 6 + 1 = 7 /\ z[7] = LF
    BY <1>1
  <2>3. MidNext(Looped(z, 6 + 1), z[6 + 1], 6, "VSR_REAS", 6, CodeAt, <<>>)
    BY <1>9, <2>1, ByteMid
  <2>4. MidNext(Looped(z, 7), LF, 6, "VSR_REAS", 6, CodeAt, <<>>)
    BY <2>1, <2>3
  <2>5. Mid(Looped(z, 7), "LINE_DONE", 6 + 1, CodeAt, <<>>)
    BY <2>4, Zenon DEF MidNext
  <2> QED BY <1>9, <2>1, <2>5
<1> QED BY <1>10 DEF z

\* The entries of a head are pieces of the buffer.
LEMMA EntryType ==
    ASSUME NEW r \in Response, NEW k \in 1..Len(r.fields)
    PROVE  /\ r.fields[k].value \in Seq(Char) /\ r.fields[k].key \in Char
           /\ Entry(r, k) \in KeyValue /\ Entry(r, k).key \in Segment /\ Entry(r, k).value \in Segment
           /\ Entry(r, k) = [key |-> Entry(r, k).key, value |-> Entry(r, k).value]
<1> DEFINE v == r.fields[k].value
           o == FieldAt(r, k)
           sp == Space(v)
<1>1. v \in Seq(Char) /\ r.fields[k].key \in Char
  <2>1. r.fields[k] \in [key: STRING, value: Seq(STRING)]
    BY PartsType
  <2>2. r.fields[k].key \in STRING /\ r.fields[k].value \in Seq(STRING)
    BY <2>1
  <2> QED BY <2>2, Chars, Elements
<1>2. o \in Nat /\ Len(v) \in Nat
  BY HeadBytes
<1>3. sp \in 0..Len(v)
  BY <1>1, SpaceIs
<1> HIDE DEF v, o, sp
<1>4. [off |-> o, len |-> 1] \in Segment /\ [off |-> o + 3 + sp, len |-> Len(v) - sp] \in Segment
  BY <1>2, <1>3 DEF Segment
<1>5. Entry(r, k) = [key |-> [off |-> o, len |-> 1], value |-> [off |-> o + 3 + sp, len |-> Len(v) - sp]]
  BY DEF Entry, o, v, sp
<1> QED BY <1>1, <1>4, <1>5 DEF KeyValue, v

\* A field line.
LEMMA FieldRun ==
    ASSUME NEW r \in Response, HeadFits(r), NEW k \in 1..Len(r.fields),
           Mid(Looped(Stream(r), FieldAt(r, k)), "LINE_DONE", FieldAt(r, k), CodeAt, Queue(r, k - 1))
    PROVE  Mid(Looped(Stream(r), FieldAt(r, k + 1)), "LINE_DONE", FieldAt(r, k + 1), CodeAt, Queue(r, k))
<1> DEFINE z == Stream(r)
           o == FieldAt(r, k)
           x == r.fields[k].key
           v == r.fields[k].value
           n == Len(v)
           sp == Space(v)
           q == Queue(r, k - 1)
           a == [off |-> o, len |-> 1]
           c == [off |-> o + 3 + sp, len |-> n - sp]
           g == Append(q, [key |-> a, value |-> NoSegment])
<1>1. /\ o \in Nat /\ n \in Nat /\ FieldAt(r, k + 1) = o + (n + 5)
      /\ z[o + 1] = x /\ z[o + 2] = COLON /\ z[o + 3] = SP
      /\ (\A j \in 1..n : z[o + (3 + j)] = v[j])
      /\ z[o + (n + 4)] = CR /\ z[o + (n + 5)] = LF
  BY HeadBytes
<1>2. x \notin {SP, COLON, CR, LF} /\ \A j \in 1..n : v[j] \notin {CR, LF}
  <2>1. k \in DOMAIN r.fields
    BY PartsType
  <2>2. v \in Seq(Char)
    BY EntryType
  <2>3. DOMAIN v = 1..n
    BY <2>2, Elements
  <2> QED BY <2>1, <2>3 DEF HeadFits
<1>3. v \in Seq(Char) /\ sp \in 0..n
  BY EntryType, SpaceIs
<1>4. Len(g) = k /\ [g EXCEPT ![k].value = c] = Queue(r, k)
  <2> DEFINE m == Len(r.fields)
             e == [i \in 1..m |-> Entry(r, i)]
  <2>1. m \in Nat
    BY PartsType
  <2>2. e \in [1..m -> KeyValue]
    BY EntryType
  <2>3. a \in Segment /\ c \in Segment /\ e[k] = [key |-> a, value |-> c]
    <3>1. Entry(r, k) = [key |-> a, value |-> c]
      BY DEF Entry
    <3>2. a \in Segment /\ c \in Segment
      <4>1. o \in Nat /\ n \in Nat /\ sp \in 0..n
        BY <1>1, <1>3
      <4> HIDE DEF o, sp, n, v
      <4>2. o + 3 + sp \in Nat /\ n - sp \in Nat
        BY <4>1
      <4> QED BY <4>1, <4>2 DEF Segment
    <3> QED BY <3>1, <3>2
  <2>4. q = [i \in 1..(k - 1) |-> e[i]] /\ Queue(r, k) = [i \in 1..k |-> e[i]]
    <3>1. (\A i \in 1..(k - 1) : i \in 1..m) /\ \A i \in 1..k : i \in 1..m
      BY <2>1
    <3>2. (\A i \in 1..(k - 1) : e[i] = Entry(r, i)) /\ \A i \in 1..k : e[i] = Entry(r, i)
      BY <3>1
    <3> HIDE DEF e
    <3> QED BY <3>2 DEF Queue
  <2> HIDE DEF m, e, a, c, q
  <2>5. g = Append([i \in 1..(k - 1) |-> e[i]], [key |-> a, value |-> NoSegment])
    BY <2>4
  <2>6. k \in 1..m
    BY DEF m
  <2> HIDE DEF g
  <2>7. Len(g) = k /\ [g EXCEPT ![k].value = c] = [i \in 1..k |-> e[i]]
    <3>1. m \in Nat /\ e \in [1..m -> KeyValue] /\ a \in Segment /\ c \in Segment
          /\ e[k] = [key |-> a, value |-> c]
      BY <2>1, <2>2, <2>3
    <3> HIDE DEF z, o, x, v, n, sp
    <3>2. Unvalued(g, k, c, e)
      BY <2>5, <2>6, <3>1, QueueNext
    <3> QED BY <3>2 DEF Unvalued
  <2> QED BY <2>4, <2>7
<1>5. Mid(Looped(z, o), "LINE_DONE", o, CodeAt, q)
  OBVIOUS
<1> HIDE DEF z, o, x, v, n, sp, q, g, c, a
<1>6. Mid(Looped(z, o + 1), "LINE_DONE", o, CodeAt, q)
  <2>1. MidNext(Looped(z, o + 1), z[o + 1], o, "LINE_DONE", o, CodeAt, q)
    BY <1>1, <1>5, ByteMid
  <2> QED BY <1>1, <1>2, <2>1 DEF MidNext
<1>7. Mid(Looped(z, o + 2), "KEY_DONE", o + 2, CodeAt, g)
  <2> DEFINE i == o + 1
             seg == [off |-> o, len |-> i - o]
  <2>1. i \in Nat /\ i + 1 = o + 2 /\ i - o = 1
    BY SMTT(40), <1>1
  <2>2. seg = a
    BY <2>1 DEF a
  <2> HIDE DEF i
  <2>3. Mid(Looped(z, i), "LINE_DONE", o, CodeAt, q) /\ z[i + 1] = COLON
    BY <1>1, <1>6, <2>1 DEF i
  <2>4. Mid(Looped(z, i + 1), "KEY_DONE", i + 1, CodeAt, Append(q, [key |-> seg, value |-> NoSegment]))
    <3>1. MidNext(Looped(z, i + 1), z[i + 1], i, "LINE_DONE", o, CodeAt, q)
      BY <2>1, <2>3, ByteMid
    <3> QED BY <2>3, <3>1 DEF MidNext
  <2> QED BY <2>1, <2>2, <2>4 DEF g
<1>8. Mid(Looped(z, o + 3), "KEY_DONE", o + 3, CodeAt, g)
  <2> DEFINE i == o + 2
  <2>1. i \in Nat /\ i + 1 = o + 3
    BY SMTT(40), <1>1
  <2> HIDE DEF i
  <2>2. Mid(Looped(z, i), "KEY_DONE", i, CodeAt, g) /\ z[i + 1] = SP
    BY <1>1, <1>7, <2>1 DEF i
  <2>3. Mid(Looped(z, i + 1), "KEY_DONE", i + 1, CodeAt, g)
    <3>1. MidNext(Looped(z, i + 1), z[i + 1], i, "KEY_DONE", i, CodeAt, g)
      BY <2>1, <2>2, ByteMid
    <3> QED BY <2>2, <3>1 DEF MidNext
  <2> QED BY <2>1, <2>3
<1>9. Mid(Looped(z, (o + 3) + n), "KEY_DONE", (o + 3) + sp, CodeAt, g)
  <2> DEFINE p == o + 3
  <2>1. p \in Nat /\ \A j \in 1..n : p + j = o + (3 + j)
    BY SMTT(40), <1>1
  <2> HIDE DEF p
  <2>2. \A j \in 1..n : z[p + j] = v[j]
    BY <1>1, <2>1
  <2>3. Mid(Looped(z, p), "KEY_DONE", p, CodeAt, g)
    BY <1>8 DEF p
  <2>4. Mid(Looped(z, p + Len(v)), "KEY_DONE", p + Space(v), CodeAt, g)
    BY <1>2, <1>3, <2>1, <2>2, <2>3, ValueRun DEF n
  <2> QED BY <2>4 DEF p, n, sp
<1>10. Mid(Looped(z, o + (n + 4)), "LINE_HALF", (o + 3) + sp, CodeAt, Queue(r, k))
  <2> DEFINE i == (o + 3) + n
             f == (o + 3) + sp
             seg == [off |-> f, len |-> i - f]
  <2>1. i \in Nat /\ i + 1 = o + (n + 4) /\ i - f = n - sp /\ f = o + 3 + sp
    BY <1>1, <1>3
  <2>2. seg = c
    BY <2>1 DEF c
  <2> HIDE DEF i, f
  <2>3. Mid(Looped(z, i), "KEY_DONE", f, CodeAt, g) /\ z[i + 1] = CR
    BY <1>1, <1>9, <2>1 DEF i, f
  <2>4. Mid(Looped(z, i + 1), "LINE_HALF", f, CodeAt, [g EXCEPT ![Len(g)].value = seg])
    <3>1. MidNext(Looped(z, i + 1), z[i + 1], i, "KEY_DONE", f, CodeAt, g)
      BY <2>1, <2>3, ByteMid
    <3> QED BY <2>3, <3>1 DEF MidNext
  <2>5. [g EXCEPT ![Len(g)].value = seg] = Queue(r, k)
    BY <1>4, <2>2
  <2> QED BY <2>1, <2>4, <2>5 DEF f
<1>11. Mid(Looped(z, o + (n + 5)), "LINE_DONE", o + (n + 5), CodeAt, Queue(r, k))
  <2> DEFINE i == o + (n + 4)
             f == (o + 3) + sp
  <2>1. i \in Nat /\ i + 1 = o + (n + 5)
    BY SMTT(40), <1>1
  <2> HIDE DEF i, f
  <2>2. Mid(Looped(z, i), "LINE_HALF", f, CodeAt, Queue(r, k)) /\ z[i + 1] = LF
    BY <1>1, <1>10, <2>1 DEF i, f
  <2>3. Mid(Looped(z, i + 1), "LINE_DONE", i + 1, CodeAt, Queue(r, k))
    <3>1. MidNext(Looped(z, i + 1), z[i + 1], i, "LINE_HALF", f, CodeAt, Queue(r, k))
      BY <2>1, <2>2, ByteMid
    <3> QED BY <2>2, <3>1 DEF MidNext
  <2> QED BY <2>1, <2>3
<1> QED BY <1>1, <1>11 DEF z, o
\* The whole head: it is done with its last byte, not before, and every field is recorded.
LEMMA HeadDone ==
    ASSUME NEW r \in Response, HeadFits(r)
    PROVE  LET e == Len(HeadOf(r))
               s == Looped(Stream(r), e)
           IN  /\ e \in Nat
               /\ s.rc = "parsed" /\ s.pos = e /\ s.hc.code = CodeAt /\ s.hc.kv_queue = Queue(r, Len(r.fields))
               /\ s.hc.status = "HEAD_DONE"
               /\ \A n \in Nat : n < e => Looped(Stream(r), n).rc = "more"
               /\ \A n \in Nat : n >= e => Looped(Stream(r), n) = s
<1> DEFINE z == Stream(r)
           nf == Len(r.fields)
           T == {k \in 0..nf : Mid(Looped(z, FieldAt(r, k + 1)), "LINE_DONE", FieldAt(r, k + 1), CodeAt, Queue(r, k))}
           e == Len(HeadOf(r))
           f == FieldAt(r, nf + 1)
<1>1. nf \in Nat
  BY PartsType
<1>2. 0 \in T
  <2>1. FieldAt(r, 1) = 7
    BY HeadBytes
  <2>2. Queue(r, 0) = <<>>
    BY DEF Queue
  <2>3. 0 + 1 = 1 /\ 0 \in 0..nf
    BY <1>1
  <2>4. Mid(Looped(z, 7), "LINE_DONE", 7, CodeAt, <<>>)
    BY StatusRun
  <2> HIDE DEF z
  <2> QED BY <2>1, <2>2, <2>3, <2>4
<1>3. ASSUME NEW k \in 0..(nf - 1), k \in T PROVE k + 1 \in T
  <2>1. k + 1 \in 1..nf /\ (k + 1) - 1 = k /\ k + 1 \in 0..nf
    BY <1>1
  <2>2. Mid(Looped(z, FieldAt(r, k + 1)), "LINE_DONE", FieldAt(r, k + 1), CodeAt, Queue(r, (k + 1) - 1))
    BY <1>3, <2>1
  <2> DEFINE m == k + 1
  <2> HIDE DEF m
  <2>3. m \in 1..nf /\ Mid(Looped(z, FieldAt(r, m)), "LINE_DONE", FieldAt(r, m), CodeAt, Queue(r, m - 1))
    BY <2>1, <2>2 DEF m
  <2>4. Mid(Looped(z, FieldAt(r, m + 1)), "LINE_DONE", FieldAt(r, m + 1), CodeAt, Queue(r, m))
    BY <2>3, FieldRun
  <2>5. m \in 0..nf
    BY <2>1 DEF m
  <2>6. m \in T
    BY <2>4, <2>5
  <2> QED BY <2>6 DEF m
<1>4. nf \in T
  <2>1. \A k \in 0..nf : k \in T
    <3> HIDE DEF T, nf
    <3>1. 0 \in Nat
      OBVIOUS
    <3> QED BY <1>1, <1>2, <1>3, <3>1, IntervalInduction
  <2> QED BY <1>1, <2>1
<1>5. f \in Nat /\ e = f + 2 /\ z[f + 1] = CR /\ z[f + 2] = LF
  BY HeadBytes
<1> DEFINE q == Queue(r, nf)
<1>6. Mid(Looped(z, f), "LINE_DONE", f, CodeAt, q)
  BY <1>4
<1> HIDE DEF T, z, nf, f, e, q
<1>7. Mid(Looped(z, f + 1), "HEAD_HALF", f, CodeAt, q)
  <2>1. MidNext(Looped(z, f + 1), z[f + 1], f, "LINE_DONE", f, CodeAt, q)
    BY <1>5, <1>6, ByteMid
  <2> QED BY <1>5, <2>1 DEF MidNext
<1> DEFINE i == f + 1
           s == Looped(z, i + 1)
<1>8. i \in Nat /\ i + 1 = e /\ i + 1 = f + 2 /\ e \in Nat
  BY <1>5
<1> HIDE DEF i
<1>9. s.rc = "parsed" /\ s.hc.status = "HEAD_DONE" /\ s.hc.code = CodeAt /\ s.hc.kv_queue = q
  <2>0. Mid(Looped(z, i), "HEAD_HALF", f, CodeAt, q) /\ z[i + 1] = LF
    BY <1>5, <1>7, <1>8 DEF i
  <2>1. MidNext(Looped(z, i + 1), z[i + 1], i, "HEAD_HALF", f, CodeAt, q)
    BY <1>8, <2>0, ByteMid
  <2> QED BY <2>0, <2>1 DEF MidNext
<1>10. Looped(z, i).rc = "more"
  BY <1>7 DEF Mid, i
<1>11. s.pos = e
  <2>1. Looped(z, i) \in HeadState /\ Looped(z, i).pos = i /\ s = HeadStep(Looped(z, i), z[i + 1])
    BY <1>8, <1>10, LoopedStep
  <2>2. HeadStep(Looped(z, i), z[i + 1]).pos = Looped(z, i).pos + 1
    BY <1>10, <2>1, StepType
  <2> QED BY <1>8, <2>1, <2>2
<1>12. ASSUME NEW n \in Nat, n < e PROVE Looped(z, n).rc = "more"
  <2>1. n <= i
    BY <1>8, <1>12
  <2> SUFFICES ASSUME Looped(z, n).rc # "more" PROVE FALSE
    OBVIOUS
  <2>2. Looped(z, i) = Looped(z, n)
    BY <1>8, <2>1, AtStays
  <2> QED BY <1>10, <2>2
<1>13. ASSUME NEW n \in Nat, n >= e PROVE Looped(z, n) = s
  <2>1. s.rc # "more"
    BY <1>9
  <2>2. i + 1 \in Nat /\ i + 1 <= n
    BY <1>8, <1>13
  <2> QED BY <2>1, <2>2, AtStays
<1>14. s = Looped(z, e)
  BY <1>8
<1> HIDE DEF s
<1> QED BY <1>8, <1>9, <1>11, <1>12, <1>13, <1>14 DEF z, e, nf, q

\* The bytes of a piece
Holds(z, g) == Bytes(z, g) \in Seq(Char) /\ Len(Bytes(z, g)) = g.len /\ \A i \in 1..g.len : Bytes(z, g)[i] = z[g.off + i]

\* A piece that lies in a sequence has its bytes.
LEMMA PieceBytes ==
    ASSUME NEW z \in Seq(Char), NEW g \in Segment, g.off + g.len <= Len(z)
    PROVE  Holds(z, g)
<1> DEFINE n == Len(z)
<1>1. n \in Nat /\ n <= Len(z) /\ \A i \in 1..n : z[i] = z[i]
  BY Elements
<1>2. g.off + g.len <= n
  OBVIOUS
<1> HIDE DEF n
<1>3. Bytes(z, g) \in Seq(Char) /\ Len(Bytes(z, g)) = g.len /\ \A i \in 1..g.len : Bytes(z, g)[i] = z[g.off + i]
  BY <1>1, <1>2, BytesPrefix
<1> QED BY <1>3 DEF Holds

\* The l elements of z behind offset o are those of v behind offset p
Matches(z, o, v, p, l) == \A j \in 1..l : z[o + j] = v[p + j]

\* The pieces of two sequences that have the same elements there.
LEMMA SamePiece ==
    ASSUME NEW z \in Seq(Char), NEW v \in Seq(Char), NEW o \in Nat, NEW p \in Nat, NEW l \in Nat,
           o + l <= Len(z), p + l <= Len(v), Matches(z, o, v, p, l)
    PROVE  /\ Bytes(z, [off |-> o, len |-> l]) = SubSeq(v, p + 1, p + l)
           /\ Bytes(z, [off |-> o, len |-> l]) \in Seq(Char) /\ Len(Bytes(z, [off |-> o, len |-> l])) = l
           /\ \A j \in 1..l : Bytes(z, [off |-> o, len |-> l])[j] = z[o + j]
<1> DEFINE a == [off |-> o, len |-> l]
           c == [off |-> p, len |-> l]
<1>1. a \in Segment /\ c \in Segment /\ a.off = o /\ a.len = l /\ c.off = p /\ c.len = l
  BY DEF Segment
<1> HIDE DEF a, c
<1>2. Holds(z, a) /\ Holds(v, c)
  BY <1>1, PieceBytes
<1>3. /\ Bytes(z, a) \in Seq(Char) /\ Len(Bytes(z, a)) = l /\ (\A i \in 1..l : Bytes(z, a)[i] = z[o + i])
      /\ Bytes(v, c) \in Seq(Char) /\ Len(Bytes(v, c)) = l /\ \A i \in 1..l : Bytes(v, c)[i] = v[p + i]
  BY <1>1, <1>2 DEF Holds
<1>4. Bytes(z, a) = Bytes(v, c)
  <2> DEFINE x == Bytes(z, a)
             y == Bytes(v, c)
  <2> HIDE DEF x, y
  <2>1. x \in Seq(Char) /\ y \in Seq(Char) /\ Len(x) = Len(y) /\ \A i \in 1..Len(x) : x[i] = y[i]
    BY <1>3 DEF x, y, Matches
  <2>2. x = y
    BY <2>1, SeqEqual
  <2> QED BY <2>2 DEF x, y
<1>5. Bytes(v, c) = SubSeq(v, p + 1, p + l)
  BY <1>1 DEF Bytes
<1> QED BY <1>3, <1>4, <1>5 DEF a

\* The same, for the bytes alone.
LEMMA SameBytes ==
    ASSUME NEW z \in Seq(Char), NEW v \in Seq(Char), NEW o \in Nat, NEW p \in Nat, NEW l \in Nat,
           o + l <= Len(z), p + l <= Len(v), Matches(z, o, v, p, l)
    PROVE  Bytes(z, [off |-> o, len |-> l]) = SubSeq(v, p + 1, p + l)
BY SMTT(40), SamePiece

\* The bytes recorded for a field are its key and the last word of its value.
LEMMA EntryBytes ==
    ASSUME NEW r \in Response, NEW k \in 1..Len(r.fields)
    PROVE  /\ Bytes(Stream(r), Entry(r, k).key) = <<r.fields[k].key>>
           /\ Bytes(Stream(r), Entry(r, k).value) = LastWord(r.fields[k].value)
<1> DEFINE z == Stream(r)
           o == FieldAt(r, k)
           x == r.fields[k].key
           v == r.fields[k].value
           n == Len(v)
           sp == Space(v)
           h == Len(HeadOf(r))
<1>1. /\ o \in Nat /\ n \in Nat /\ o + (n + 5) <= h /\ h \in Nat /\ z[o + 1] = x
      /\ (\A j \in 1..n : z[o + (3 + j)] = v[j])
  BY HeadBytes
<1>2. z \in Seq(Char) /\ Len(z) \in Nat /\ h <= Len(z)
  <2>1. z \in Seq(Char) /\ Len(z) = h + Len(BodyOf(r)) /\ BodyOf(r) \in Seq(Char)
    BY StreamIs
  <2>2. Len(BodyOf(r)) \in Nat
    BY <2>1, Elements
  <2> QED BY <1>1, <2>1, <2>2
<1>3. v \in Seq(Char) /\ x \in Char
  BY EntryType
<1>4. sp \in 0..n
  BY <1>3, SpaceIs
<1>5. Entry(r, k) = [key |-> [off |-> o, len |-> 1], value |-> [off |-> o + 3 + sp, len |-> n - sp]]
  BY DEF Entry
<1>6. LastWord(v) = SubSeq(v, 1 + sp, n)
  BY DEF LastWord, Space
<1> DEFINE lz == Len(z)
<1>b. lz \in Nat /\ h <= lz
  BY <1>2
<1> HIDE DEF z, o, x, v, n, sp, h
<1>7. Bytes(z, [off |-> o, len |-> 1]) = <<x>>
  <2> DEFINE w == <<x>>
             y == Bytes(z, [off |-> o, len |-> 1])
  <2>1. w \in Seq(Char) /\ Len(w) = 1 /\ w[1] = x
    BY <1>3
  <2>2. z \in Seq(Char) /\ o \in Nat /\ 1 \in Nat /\ o + 1 <= Len(z)
    BY <1>1, <1>2, <1>b
  <2>3. Matches(z, o, z, o, 1)
    BY DEF Matches
  <2> HIDE DEF w, lz
  <2>4. y \in Seq(Char) /\ Len(y) = 1 /\ \A j \in 1..1 : y[j] = z[o + j]
    BY ZenonT(40), <2>2, <2>3, SamePiece
  <2> HIDE DEF y
  <2>5. y[1] = x
    BY <1>1, <2>4
  <2>6. y = w
    <3>1. Len(y) = Len(w) /\ \A j \in 1..Len(y) : y[j] = w[j]
      BY <2>1, <2>4, <2>5
    <3> QED BY <2>1, <2>4, <3>1, SeqEqual
  <2> QED BY <2>6 DEF w, y
<1>8. Bytes(z, [off |-> o + 3 + sp, len |-> n - sp]) = SubSeq(v, 1 + sp, n)
  <2> DEFINE p == o + 3 + sp
             l == n - sp
  <2>1. p \in Nat /\ l \in Nat /\ p + l <= lz /\ sp + l <= n /\ sp \in Nat /\ sp + l = n /\ sp + 1 = 1 + sp
    BY <1>1, <1>4, <1>b
  <2>2. ASSUME NEW j \in 1..l PROVE z[p + j] = v[sp + j]
    <3>1. sp + j \in 1..n /\ o + (3 + (sp + j)) = p + j
      BY <1>1, <1>4
    <3>2. z[o + (3 + (sp + j))] = v[sp + j]
      BY <1>1, <3>1
    <3> QED BY <3>1, <3>2
  <2> HIDE DEF p, l
  <2>3. Bytes(z, [off |-> p, len |-> l]) = SubSeq(v, sp + 1, sp + l)
    <3>1. sp + l <= Len(v) /\ p + l <= Len(z)
      BY <2>1 DEF n
    <3>2. Matches(z, p, v, sp, l)
      BY <2>2 DEF Matches
    <3>3. z \in Seq(Char) /\ v \in Seq(Char) /\ p \in Nat /\ sp \in Nat /\ l \in Nat
      BY <1>2, <1>3, <2>1
    <3> HIDE DEF lz
    <3> QED BY <3>1, <3>2, <3>3, SameBytes
  <2> QED BY <2>1, <2>3 DEF p, l
<1> QED BY <1>5, <1>6, <1>7, <1>8 DEF z, x, v

\* Once the head is done, all of it has arrived.
LEMMA DoneWhen ==
    ASSUME NEW r \in Response, HeadFits(r), NEW n \in Nat
    PROVE  LET e == Len(HeadOf(r)) IN
           /\ e \in Nat /\ (At(Stream(r), n).hc.status = "HEAD_DONE" <=> n >= e)
           /\ n >= e => /\ At(Stream(r), n) = At(Stream(r), e) /\ At(Stream(r), n).pos = e
                        /\ At(Stream(r), n).hc.kv_queue = Queue(r, Len(r.fields))
           /\ n < e => At(Stream(r), n).rc = "more"
<1> DEFINE z == Stream(r)
           e == Len(HeadOf(r))
<1>1. /\ e \in Nat /\ Looped(z, e).rc = "parsed" /\ Looped(z, e).pos = e
      /\ Looped(z, e).hc.kv_queue = Queue(r, Len(r.fields))
      /\ (\A m \in Nat : m < e => Looped(z, m).rc = "more")
      /\ \A m \in Nat : m >= e => Looped(z, m) = Looped(z, e)
  BY HeadDone
<1> HIDE DEF z, e
<1>2. /\ At(z, n).hc.status = Looped(z, n).hc.status /\ At(z, n).hc.kv_queue = Looped(z, n).hc.kv_queue
      /\ Looped(z, n).hc.status = "HEAD_DONE" <=> Looped(z, n).rc = "parsed"
      /\ At(z, n).rc = "more" <=> Looped(z, n).rc = "more"
      /\ At(z, n).pos = Looped(z, n).pos
  BY AtType
<1>3. CASE n < e
  <2>1. Looped(z, n).rc = "more"
    BY <1>1, <1>3
  <2> QED BY <1>1, <1>2, <1>3, <2>1 DEF z, e
<1>4. CASE n >= e
  <2>1. Looped(z, n) = Looped(z, e)
    BY <1>1, <1>4
  <2>2. At(z, n) = At(z, e)
    BY <2>1 DEF At
  <2> QED BY <1>1, <1>2, <1>4, <2>1, <2>2 DEF z, e
<1> QED BY <1>1, <1>3, <1>4

\* A value of one word ends with all of it.
LEMMA WordOf ==
    ASSUME NEW v \in Seq(STRING), OneWord(v)
    PROVE  LastWord(v) = Trimmed(v)
<1>1. DOMAIN v = 1..Len(v)
  OBVIOUS
<1>2. {i \in DOMAIN v : v[i] = SP} = {i \in DOMAIN v : \A j \in 1..i : v[j] = SP}
  BY <1>1 DEF OneWord
<1> QED BY <1>2 DEF LastWord, Trimmed

\* When the head is done each field of the response is in kv_queue, in order, with its value unless a
\* space stands inside it (http_parse_head).
THEOREM FieldsAreRecorded == Spec => []FieldsRecorded
<1>1. Inv => FieldsRecorded
  <2> SUFFICES ASSUME Inv, head.status = "HEAD_DONE"
               PROVE  /\ Len(head.kv_queue) = Len(sent.fields)
                      /\ \A i \in DOMAIN sent.fields :
                           /\ Bytes(b, head.kv_queue[i].key) = <<sent.fields[i].key>>
                           /\ Bytes(b, head.kv_queue[i].value) = LastWord(sent.fields[i].value)
    <3>1. ASSUME Inv, NEW i \in DOMAIN sent.fields, OneWord(sent.fields[i].value)
          PROVE  LastWord(sent.fields[i].value) = Trimmed(sent.fields[i].value)
      <4>1. sent.fields[i].value \in Seq(STRING)
        <5>1. sent \in Response
          BY <3>1, SentType DEF Inv
        <5>2. i \in 1..Len(sent.fields) /\ sent.fields[i] \in [key: STRING, value: Seq(STRING)]
          BY <3>1, <5>1, PartsType
        <5> QED BY <5>2
      <4> QED BY <3>1, <4>1, WordOf
    <3> QED BY <3>1 DEF FieldsRecorded
  <2> DEFINE r == sent
             z == Stream(r)
             n == Len(b)
             nf == Len(r.fields)
             h == At(z, n).hc
  <2>1. r \in Response /\ HeadFits(r) /\ z \in Seq(Char) /\ n \in Nat /\ n <= Len(z) /\ b = SubSeq(z, 1, n)
        /\ head = h
    BY SentType DEF Inv
  <2>2. h.kv_queue = Queue(r, nf)
    <3>1. h.status = "HEAD_DONE"
      BY <2>1
    <3> HIDE DEF r, n
    <3> QED BY <2>1, <3>1, DoneWhen
  <2>3. nf \in Nat /\ DOMAIN r.fields = 1..nf
    BY <2>1, PartsType
  <2>4. b \in Seq(Char) /\ \A i \in 1..n : b[i] = z[i]
    <3> HIDE DEF z, n
    <3> QED BY <2>1, Cut
  <2>5. h \in HeadCache /\ CacheIn(h, n)
    <3> HIDE DEF z, n
    <3> QED BY <2>1, AtType
  <2>6. Len(h.kv_queue) = nf /\ \A i \in 1..nf : h.kv_queue[i] = Entry(r, i)
    <3>1. Queue(r, nf) \in Seq({Entry(r, i) : i \in 1..nf}) /\ Len(Queue(r, nf)) = nf
      <4> HIDE DEF nf
      <4> QED BY <2>3 DEF Queue
    <3>2. \A i \in 1..nf : Queue(r, nf)[i] = Entry(r, i)
      BY DEF Queue
    <3> HIDE DEF h, nf
    <3> QED BY <2>2, <3>1, <3>2
  <2>7. ASSUME NEW i \in 1..nf
        PROVE  /\ Bytes(b, head.kv_queue[i].key) = <<r.fields[i].key>>
               /\ Bytes(b, head.kv_queue[i].value) = LastWord(r.fields[i].value)
    <3> DEFINE x == Entry(r, i)
    <3>1. head.kv_queue[i] = x /\ i \in DOMAIN h.kv_queue /\ h.kv_queue[i] = x
      <4>1. h.kv_queue \in Seq(KeyValue)
        BY <2>5 DEF HeadCache
      <4>2. DOMAIN h.kv_queue = 1..nf
        BY <2>6, <4>1
      <4> QED BY <2>1, <2>6, <4>2
    <3>2. Bytes(z, x.key) = <<r.fields[i].key>> /\ Bytes(z, x.value) = LastWord(r.fields[i].value)
      <4> HIDE DEF r
      <4> QED BY <2>1, EntryBytes
    <3>3. x.key \in Segment /\ x.value \in Segment
      <4> HIDE DEF r
      <4> QED BY <2>1, EntryType
    <3>4. x.key.off + x.key.len <= n /\ x.value.off + x.value.len <= n
      <4> HIDE DEF x, h
      <4> QED BY <2>5, <3>1 DEF CacheIn, QueueIn
    <3>5. n <= Len(b)
      BY <2>1
    <3>6. ASSUME NEW g \in Segment, g.off + g.len <= n PROVE Bytes(b, g) = Bytes(z, g)
      <4> HIDE DEF z, n
      <4> QED BY <2>1, <2>4, <3>5, <3>6, BytesPrefix
    <3> HIDE DEF x, z
    <3>7. Bytes(b, x.key) = Bytes(z, x.key) /\ Bytes(b, x.value) = Bytes(z, x.value)
      BY <3>3, <3>4, <3>6
    <3> QED BY <3>1, <3>2, <3>7
  <2> HIDE DEF h
  <2> QED BY <2>1, <2>3, <2>6, <2>7
<1> QED BY <1>1, Invariant, PTL
-----------------------------------------------------------------------------
(* What the head says of the body *)

\* The loop leaves the flags alone
Flags(hc) == <<hc.content_len, hc.gzip_flag, hc.chunk_flag>>

\* No byte of a head sets them.
LEMMA StepFlags ==
    ASSUME NEW s \in HeadState, NEW c
    PROVE  Flags(HeadStep(s, c).hc) = Flags(s.hc)
<1> DEFINE t == HeadStep(s, c)
           Good(u) == Flags(u.hc) = Flags(s.hc)
<1>0. s.hc \in HeadCache /\ s.pos \in Nat /\ s \in [hc: HeadCache, pos: Nat, kv: BOOLEAN, rc: Returned]
  BY DEF HeadState, Returned
<1>1. ASSUME NEW h, Flags(h) = Flags(s.hc), NEW k, NEW x
      PROVE  Good(Moved(s, h)) /\ Good([Moved(s, h) EXCEPT !.kv = k]) /\ Good([Moved(s, h) EXCEPT !.rc = x])
  <2> DEFINE m == Moved(s, h)
  <2>1. m = [s EXCEPT !.pos = s.pos + 1, !.hc = h]
    BY <1>0 DEF Moved
  <2>2. m.hc = h /\ DOMAIN m = {"hc", "pos", "kv", "rc"}
    BY <1>0, <2>1
  <2> HIDE DEF m
  <2>3. [m EXCEPT !.kv = k].hc = h /\ [m EXCEPT !.rc = x].hc = h
    BY <2>2
  <2>4. Good(m) /\ Good([m EXCEPT !.kv = k]) /\ Good([m EXCEPT !.rc = x])
    BY <1>1, <2>2, <2>3
  <2> QED BY <2>4 DEF m
<1>2. ASSUME NEW h \in HeadCache, NEW x
      PROVE  /\ Flags([h EXCEPT !.status = x]) = Flags(h) /\ Flags([h EXCEPT !.code = x]) = Flags(h)
             /\ Flags([h EXCEPT !.kv_queue = x]) = Flags(h)
             /\ \A y : Flags([h EXCEPT !.status = x, !.start = y]) = Flags(h)
  BY DEF Flags, HeadCache
<1>3. ASSUME NEW st \in HeadStatus PROVE Flags(New(s, st)) = Flags(s.hc) /\ Flags(Go(s, st)) = Flags(s.hc)
  <2> DEFINE h == s.hc
             y == s.pos + 1
  <2>1. New(s, st) = [h EXCEPT !.status = st, !.start = y] /\ Go(s, st) = [h EXCEPT !.status = st]
    BY DEF New, Go
  <2>2. h \in HeadCache
    BY <1>0
  <2> HIDE DEF h, y
  <2>3. Flags([h EXCEPT !.status = st]) = Flags(h) /\ Flags([h EXCEPT !.status = st, !.start = y]) = Flags(h)
    BY <2>2 DEF Flags, HeadCache
  <2> QED BY <2>1, <2>3 DEF h
<1>4. ASSUME NEW st \in HeadStatus, NEW g, NEW q
      PROVE  /\ Flags([New(s, st) EXCEPT !.code = g]) = Flags(s.hc)
             /\ Flags([New(s, st) EXCEPT !.kv_queue = q]) = Flags(s.hc)
             /\ Flags([Go(s, st) EXCEPT !.kv_queue = q]) = Flags(s.hc)
  <2>1. New(s, st) \in HeadCache /\ Go(s, st) \in HeadCache
    BY CacheType
  <2> DEFINE u == New(s, st)
             w == Go(s, st)
  <2> HIDE DEF u, w
  <2>2. u \in HeadCache /\ w \in HeadCache /\ Flags(u) = Flags(s.hc) /\ Flags(w) = Flags(s.hc)
    BY <1>3, <2>1 DEF u, w
  <2>3. Flags([u EXCEPT !.code = g]) = Flags(u) /\ Flags([u EXCEPT !.kv_queue = q]) = Flags(u)
        /\ Flags([w EXCEPT !.kv_queue = q]) = Flags(w)
    BY <1>2, <2>2
  <2> QED BY <2>2, <2>3 DEF u, w
<1>5. {"VSR_VER", "VSR_STAT", "VSR_REAS", "KEY_DONE", "LINE_DONE", "LINE_HALF", "HEAD_HALF", "HEAD_DONE"} \subseteq HeadStatus
  BY DEF HeadStatus
<1> HIDE DEF Good, t
<1>6. /\ \A st \in HeadStatus : Good(Moved(s, New(s, st))) /\ Good(Moved(s, Go(s, st)))
      /\ Good(Moved(s, s.hc)) /\ Good([Moved(s, s.hc) EXCEPT !.rc = "error"])
      /\ Good([Moved(s, Go(s, "HEAD_DONE")) EXCEPT !.rc = "parsed"])
  BY <1>1, <1>3, <1>5
<1>7. /\ Good(Moved(s, [New(s, "VSR_STAT") EXCEPT !.code = Piece(s)]))
      /\ Good([Moved(s, [New(s, "KEY_DONE") EXCEPT
                !.kv_queue = Append(@, [key |-> Piece(s), value |-> NoSegment])]) EXCEPT !.kv = TRUE])
      /\ Good([Moved(s, [Go(s, "LINE_HALF") EXCEPT !.kv_queue = Value(@, s.kv, Piece(s))]) EXCEPT !.kv = FALSE])
  BY <1>1, <1>4, <1>5
<1>8. CASE s.rc # "more"
  BY <1>8 DEF HeadStep
<1>9. CASE s.rc = "more"
  <2> SUFFICES Good(t)
    BY DEF Good, t
  <2>1. CASE c = SP
    <3>1. Good(Moved(s, New(s, "VSR_VER"))) /\ Good(Moved(s, New(s, "KEY_DONE")))
      BY <1>5, <1>6
    <3> QED BY <1>6, <1>7, <1>9, <2>1, <3>1, StepIs, Zenon DEF t
  <2>2. CASE c = COLON
    BY <1>6, <1>7, <1>9, <2>2, StepIs, Zenon DEF t
  <2>3. CASE c = CR
    <3>1. CASE Refused(s.hc.status, c)
      BY <1>6, <1>9, <3>1, StepIs, Zenon DEF t
    <3>2. CASE s.hc.status \in {"KEY_DONE", "LINE_DONE", "VSR_STAT"}
      BY <1>5, <1>6, <1>7, <1>9, <2>3, <3>2, StepIs, ZenonT(40) DEF t
    <3> QED BY <2>3, <3>1, <3>2 DEF Refused
  <2>4. CASE c = LF
    <3>1. CASE Refused(s.hc.status, c)
      BY <1>6, <1>9, <3>1, StepIs, Zenon DEF t
    <3>2. CASE s.hc.status \in {"LINE_HALF", "VSR_REAS", "HEAD_HALF"}
      BY <1>5, <1>6, <1>9, <2>4, <3>2, StepIs, ZenonT(40) DEF t
    <3> QED BY <2>4, <3>1, <3>2 DEF Refused
  <2>5. CASE c \notin {SP, COLON, CR, LF}
    BY <1>6, <1>9, <2>5, StepIs, Zenon DEF t
  <2> QED BY <2>1, <2>2, <2>3, <2>4, <2>5
<1> QED BY <1>8, <1>9

\* Until the head is done the flags are those of a new head.
LEMMA LoopedFlags ==
    ASSUME NEW z, NEW n \in Nat
    PROVE  Looped(z, n).hc.content_len = 0 /\ Looped(z, n).hc.gzip_flag = FALSE /\ Looped(z, n).hc.chunk_flag = FALSE
<1> DEFINE New0 == Flags(NewHead)
           T == {i \in Nat : Flags(Looped(z, i).hc) = New0}
<1>1. 0 \in T
  <2>1. First \in HeadState /\ First.pos = 0
    BY BeginType
  <2>2. 0 \in Nat /\ 0 <= First.pos
    BY <2>1
  <2>3. Looped(z, 0) = First
    BY <2>1, <2>2, HeadRunIs DEF Looped
  <2>4. Flags(First.hc) = New0
    BY DEF First, Begin
  <2> QED BY <2>3, <2>4
<1> HIDE DEF New0
<1>2. ASSUME NEW i \in Nat, i \in T PROVE i + 1 \in T
  <2>1. Looped(z, i) \in HeadState /\ Looped(z, i + 1) = HeadStep(Looped(z, i), z[i + 1])
    BY LoopedStep
  <2>2. Flags(Looped(z, i + 1).hc) = Flags(Looped(z, i).hc)
    BY <2>1, StepFlags
  <2>3. i + 1 \in Nat /\ Flags(Looped(z, i).hc) = New0
    BY <1>2
  <2>4. Flags(Looped(z, i + 1).hc) = New0
    BY <2>2, <2>3
  <2> QED BY <2>3, <2>4
<1>3. n \in T
  <2>1. \A i \in Nat : i \in T
    <3> HIDE DEF T
    <3> QED BY <1>1, <1>2, Induction
  <2> QED BY <2>1
<1>4. Flags(Looped(z, n).hc) = Flags(NewHead)
  BY <1>3 DEF New0
<1> QED BY <1>4 DEF Flags, NewHead
\* A piece of one byte.
LEMMA OneByte ==
    ASSUME NEW z \in Seq(Char), NEW o \in Nat, o + 1 <= Len(z)
    PROVE  Bytes(z, [off |-> o, len |-> 1]) = <<z[o + 1]>>
<1> DEFINE x == z[o + 1]
           w == <<x>>
           y == Bytes(z, [off |-> o, len |-> 1])
<1>1. x \in Char
  BY Elements
<1>2. w \in Seq(Char) /\ Len(w) = 1 /\ w[1] = x
  BY <1>1
<1>3. Matches(z, o, z, o, 1) /\ 1 \in Nat
  BY DEF Matches
<1> HIDE DEF w
<1>4. y \in Seq(Char) /\ Len(y) = 1 /\ \A j \in 1..1 : y[j] = z[o + j]
  BY ZenonT(40), <1>3, SamePiece
<1> HIDE DEF y
<1>5. y[1] = x
  BY <1>4
<1>6. y = w
  <2>1. Len(y) = Len(w) /\ \A j \in 1..Len(y) : y[j] = w[j]
    BY <1>2, <1>4, <1>5
  <2> QED BY <1>2, <1>4, <2>1, SeqEqual
<1> QED BY <1>6 DEF w, y

\* A field of a response, as it is found in the head cache.
LEMMA FieldFound ==
    ASSUME NEW r \in Response, HeadFits(r), NEW i \in 1..Len(r.fields), NEW key,
           key \in {"Content-Length", "Transfer-Encoding", "Content-Encoding"}
    PROVE  /\ Bytes(Stream(r), Queue(r, Len(r.fields))[i].key) = <<key>> <=> r.fields[i].key = key
           /\ r.fields[i].key = key => Bytes(Stream(r), Queue(r, Len(r.fields))[i].value) = r.fields[i].value
<1>1. Queue(r, Len(r.fields))[i] = Entry(r, i)
  BY DEF Queue
<1>2. /\ Bytes(Stream(r), Entry(r, i).key) = <<r.fields[i].key>>
      /\ Bytes(Stream(r), Entry(r, i).value) = LastWord(r.fields[i].value)
  BY EntryBytes
<1>3. r.fields[i].key = key => r.fields[i].value = LastWord(r.fields[i].value)
  <2>1. i \in DOMAIN r.fields
    BY PartsType
  <2> QED BY <2>1 DEF HeadFits
<1>4. <<r.fields[i].key>> = <<key>> <=> r.fields[i].key = key
  OBVIOUS
<1> QED BY <1>1, <1>2, <1>3, <1>4

\* A response has a field when one of its fields has the key and the value.
LEMMA HasFieldIs ==
    ASSUME NEW r \in Response, NEW key, NEW value
    PROVE  HasField(r, key, value) <=> \E i \in 1..Len(r.fields) : r.fields[i].key = key /\ r.fields[i].value = value
<1> DEFINE x == [key |-> key, value |-> value]
           n == Len(r.fields)
<1>1. DOMAIN r.fields = 1..n /\ \A i \in 1..n : r.fields[i] \in [key: STRING, value: Seq(STRING)]
  BY PartsType
<1>2. HasField(r, key, value) <=> \E i \in 1..n : r.fields[i] = x
  BY <1>1 DEF HasField
<1>3. ASSUME NEW i \in 1..n PROVE r.fields[i] = x <=> r.fields[i].key = key /\ r.fields[i].value = value
  <2> DEFINE f == r.fields[i]
  <2>1. f \in [key: STRING, value: Seq(STRING)]
    BY <1>1
  <2> HIDE DEF f
  <2>2. f = [key |-> f.key, value |-> f.value]
    BY <2>1
  <2>3. f = x => f.key = key /\ f.value = value
    OBVIOUS
  <2>4. f = x <=> f.key = key /\ f.value = value
    BY <2>2, <2>3
  <2> QED BY <2>4 DEF f
<1> HIDE DEF x
<1> QED BY <1>2, <1>3

\* When the head is done the client knows whether the body is chunked and compressed, and its length
\* when a field says so; it goes on only with status 200.
LEMMA HeadSays ==
    ASSUME NEW r \in Response, HeadFits(r)
    PROVE  LET a == At(Stream(r), Len(HeadOf(r))) IN
           /\ a.rc = "parsed" <=> r.code = "200"
           /\ a.rc = "parsed" => /\ a.hc.chunk_flag <=> r.chunked
                                 /\ a.hc.gzip_flag <=> HasField(r, "Content-Encoding", <<"gzip">>)
                                 /\ a.hc.content_len = 0 \/ a.hc.content_len = Len(Content(r))
<1> DEFINE z == Stream(r)
           e == Len(HeadOf(r))
           s == Looped(z, e)
           a == At(z, e)
           nf == Len(r.fields)
           q == Queue(r, nf)
<1>1. e \in Nat /\ s.rc = "parsed" /\ s.hc.code = CodeAt /\ s.hc.kv_queue = q
  BY HeadDone
<1>2. z \in Seq(Char) /\ Len(z) >= 7 /\ z[3] = r.code /\ nf \in Nat
  <2>1. z \in Seq(Char) /\ Len(z) = e + Len(BodyOf(r)) /\ BodyOf(r) \in Seq(Char) /\ e = 7 + Len(Upto(Lines(r), nf)) + 2
        /\ Upto(Lines(r), nf) \in Seq(Char)
    BY StreamIs
  <2>2. Len(BodyOf(r)) \in Nat /\ Len(Upto(Lines(r), nf)) \in Nat
    BY <2>1, Elements
  <2>3. z[3] = r.code /\ nf \in Nat
    BY HeadBytes, PartsType
  <2> DEFINE l1 == Len(z)
             l2 == Len(BodyOf(r))
             l3 == Len(Upto(Lines(r), nf))
  <2>4. l1 >= 7
    <3>1. l1 = e + l2 /\ e = 7 + l3 + 2 /\ l2 \in Nat /\ l3 \in Nat
      BY <2>1, <2>2
    <3> HIDE DEF l1, l2, l3, e
    <3> QED BY <3>1
  <2> QED BY <2>1, <2>3, <2>4
<1>3. Bytes(z, CodeAt) = <<r.code>>
  <2>1. 2 \in Nat /\ 2 + 1 <= Len(z) /\ 2 + 1 = 3
    BY <1>2
  <2> HIDE DEF z
  <2>2. Bytes(z, [off |-> 2, len |-> 1]) = <<z[2 + 1]>>
    BY <1>2, <2>1, OneByte
  <2> QED BY <1>2, <2>1, <2>2 DEF CodeAt
<1>4. s \in HeadState /\ s.hc \in HeadCache /\ s.hc.content_len = 0 /\ s.hc.gzip_flag = FALSE /\ s.hc.chunk_flag = FALSE
  <2> HIDE DEF z, e
  <2>1. s \in HeadState
    BY <1>1, AtType
  <2>2. s.hc.content_len = 0 /\ s.hc.gzip_flag = FALSE /\ s.hc.chunk_flag = FALSE
    BY <1>1, LoopedFlags
  <2> QED BY <2>1, <2>2, StateOf
<1>5. a = Checked(z, s, Number)
  BY DEF At
<1>6. /\ Bytes(z, s.hc.code) = <<"200">> => a.rc = "parsed" /\ a.hc = Fields(z, s.hc, Number)
      /\ Bytes(z, s.hc.code) # <<"200">> => a.rc = "error"
  <2> HIDE DEF a, s
  <2> QED BY <1>1, <1>4, <1>5, CheckedIs
<1>7. Bytes(z, s.hc.code) = <<"200">> <=> r.code = "200"
  <2>1. <<r.code>> = <<"200">> <=> r.code = "200"
    OBVIOUS
  <2> QED BY <1>1, <1>3, <2>1
<1>8. DOMAIN q = 1..nf
  BY DEF Queue
<1> DEFINE f == Fields(z, s.hc, Number)
<1>9. f.chunk_flag <=> r.chunked
  <2>1. f.chunk_flag = (s.hc.chunk_flag \/ \E i \in DOMAIN s.hc.kv_queue :
                /\ Bytes(z, s.hc.kv_queue[i].key) = <<"Transfer-Encoding">>
                /\ Bytes(z, s.hc.kv_queue[i].value) = <<"chunked">>)
    <3> HIDE DEF z, s
    <3> QED BY <1>4, FieldsType
  <2> HIDE DEF f, s, q, nf, z
  <2>2. f.chunk_flag <=> \E i \in 1..nf : Bytes(z, q[i].key) = <<"Transfer-Encoding">> /\ Bytes(z, q[i].value) = <<"chunked">>
    BY <1>1, <1>4, <1>8, <2>1
  <2>3. ASSUME NEW i \in 1..nf
        PROVE  Bytes(z, q[i].key) = <<"Transfer-Encoding">> /\ Bytes(z, q[i].value) = <<"chunked">>
               <=> r.fields[i].key = "Transfer-Encoding" /\ r.fields[i].value = <<"chunked">>
    <3>1. /\ Bytes(z, q[i].key) = <<"Transfer-Encoding">> <=> r.fields[i].key = "Transfer-Encoding"
          /\ r.fields[i].key = "Transfer-Encoding" => Bytes(z, q[i].value) = r.fields[i].value
      BY FieldFound DEF z, q, nf
    <3> QED BY <3>1
  <2>4. r.chunked <=> HasField(r, "Transfer-Encoding", <<"chunked">>)
    BY DEF HeadFits
  <2>5. HasField(r, "Transfer-Encoding", <<"chunked">>) <=>
          \E i \in 1..nf : r.fields[i].key = "Transfer-Encoding" /\ r.fields[i].value = <<"chunked">>
    BY HasFieldIs DEF nf
  <2> QED BY <2>2, <2>3, <2>4, <2>5
<1>10. f.gzip_flag <=> HasField(r, "Content-Encoding", <<"gzip">>)
  <2>1. f.gzip_flag = (s.hc.gzip_flag \/ \E i \in DOMAIN s.hc.kv_queue :
                /\ Bytes(z, s.hc.kv_queue[i].key) = <<"Content-Encoding">>
                /\ Bytes(z, s.hc.kv_queue[i].value) = <<"gzip">>)
    <3> HIDE DEF z, s
    <3> QED BY <1>4, FieldsType
  <2> HIDE DEF f, s, q, nf, z
  <2>2. f.gzip_flag <=> \E i \in 1..nf : Bytes(z, q[i].key) = <<"Content-Encoding">> /\ Bytes(z, q[i].value) = <<"gzip">>
    BY <1>1, <1>4, <1>8, <2>1
  <2>3. ASSUME NEW i \in 1..nf
        PROVE  Bytes(z, q[i].key) = <<"Content-Encoding">> /\ Bytes(z, q[i].value) = <<"gzip">>
               <=> r.fields[i].key = "Content-Encoding" /\ r.fields[i].value = <<"gzip">>
    <3>1. /\ Bytes(z, q[i].key) = <<"Content-Encoding">> <=> r.fields[i].key = "Content-Encoding"
          /\ r.fields[i].key = "Content-Encoding" => Bytes(z, q[i].value) = r.fields[i].value
      BY FieldFound DEF z, q, nf
    <3> QED BY <3>1
  <2>5. HasField(r, "Content-Encoding", <<"gzip">>) <=>
          \E i \in 1..nf : r.fields[i].key = "Content-Encoding" /\ r.fields[i].value = <<"gzip">>
    BY HasFieldIs DEF nf
  <2> QED BY <2>2, <2>3, <2>5
<1>11. f.content_len = 0 \/ f.content_len = Len(Content(r))
  <2> DEFINE D == {i \in DOMAIN s.hc.kv_queue : Bytes(z, s.hc.kv_queue[i].key) = <<"Content-Length">>}
  <2>1. f.content_len = IF D = {} THEN s.hc.content_len ELSE Atoi(Number, Bytes(z, s.hc.kv_queue[Max(D)].value))
    <3> HIDE DEF z, s
    <3> QED BY <1>4, FieldsType
  <2>2. D \subseteq 1..nf
    BY <1>1, <1>8
  <2> DEFINE m == Max(D)
  <2>3. CASE D # {}
    <3>1. m \in D
      <4> HIDE DEF D, nf
      <4> QED BY <1>2, <2>2, <2>3, IntervalMax, SMTT(40)
    <3>2. m \in 1..nf /\ Bytes(z, q[m].key) = <<"Content-Length">>
      BY <1>1, <2>2, <3>1
    <3>3. f.content_len = Atoi(Number, Bytes(z, q[m].value))
      BY <1>1, <2>1, <2>3
    <3> HIDE DEF m, D, f, s
    <3>4. r.fields[m].key = "Content-Length" /\ Bytes(z, q[m].value) = r.fields[m].value
      BY <3>2, FieldFound
    <3>5. m \in DOMAIN r.fields
      BY <3>2, PartsType
    <3>6. Atoi(Number, r.fields[m].value) = Len(Content(r))
      BY <3>4, <3>5 DEF HeadFits
    <3> QED BY <3>3, <3>4, <3>6
  <2>4. CASE D = {}
    BY <1>4, <2>1, <2>4
  <2> QED BY <2>3, <2>4
<1> HIDE DEF f, z, s, e
<1> QED BY <1>6, <1>7, <1>9, <1>10, <1>11 DEF f, z, s, e
-----------------------------------------------------------------------------
(* A chunked body, piece by piece *)

\* The loops over a chunked body have seen only the bytes they have passed.
LEMMA ChunkPrefix ==
    ASSUME NEW s \in ChunkState, NEW z, NEW w, NEW n \in Nat, Agree(z, w, n)
    PROVE  \A i \in 0..n : ChunkRun(z, s)[i] = ChunkRun(w, s)[i]
<1> DEFINE f == ChunkRun(z, s)
           g == ChunkRun(w, s)
           p == s.pos
           T == {j \in Nat : f[j] = g[j]}
<1>1. p \in Nat
  BY DEF ChunkState
<1>2. f \in [Nat -> ChunkState] /\ (\A j \in Nat : j <= p => f[j] = s)
      /\ \A j \in Nat : j + 1 > p => f[j + 1] = ChunkStep(z, f[j], j)
  BY <1>1, ChunkRunIs
<1>3. g \in [Nat -> ChunkState] /\ (\A j \in Nat : j <= p => g[j] = s)
      /\ \A j \in Nat : j + 1 > p => g[j + 1] = ChunkStep(w, g[j], j)
  BY <1>1, ChunkRunIs
<1> HIDE DEF f, g
<1>4. 0 \in T
  BY <1>1, <1>2, <1>3
<1>5. ASSUME NEW j \in 0..(n - 1), j \in T PROVE j + 1 \in T
  <2>1. j + 1 \in Nat /\ j \in Nat /\ f[j] = g[j] /\ z[j + 1] = w[j + 1]
    BY <1>5 DEF Agree
  <2>2. CASE j + 1 <= p
    BY <1>2, <1>3, <2>1, <2>2
  <2>3. CASE j + 1 > p
    <3>1. ChunkStep(z, f[j], j) = ChunkStep(w, g[j], j)
      BY <2>1 DEF ChunkStep
    <3> QED BY <1>2, <1>3, <2>1, <2>3, <3>1
  <2> QED BY <1>1, <2>1, <2>2, <2>3
<1>6. \A j \in 0..n : j \in T
  <2> HIDE DEF T
  <2> QED BY <1>4, <1>5, IntervalInduction
<1> QED BY <1>6 DEF f, g

\* The loops can be left after any byte and taken up again from the state they had.
LEMMA ChunkJoins ==
    ASSUME NEW z, NEW s \in ChunkState, NEW n \in Nat, n >= s.pos, NEW t, t = ChunkRun(z, s)[n]
    PROVE  \A m \in Nat : m >= n => ChunkRun(z, t)[m] = ChunkRun(z, s)[m]
<1> DEFINE f == ChunkRun(z, s)
           g == ChunkRun(z, t)
           p == s.pos
           q == t.pos
           T == {j \in Nat : f[j] = g[j]}
<1>1. p \in Nat
  BY DEF ChunkState
<1>2. f \in [Nat -> ChunkState] /\ t = f[n]
      /\ \A j \in Nat : j + 1 > p => f[j + 1] = ChunkStep(z, f[j], j)
  BY <1>1, ChunkRunIs
<1>3. t \in ChunkState /\ q \in Nat
  BY <1>2 DEF ChunkState
<1>4. (\A j \in Nat : j <= q => g[j] = t) /\ \A j \in Nat : j + 1 > q => g[j + 1] = ChunkStep(z, g[j], j)
  BY <1>3, ChunkRunIs
<1> HIDE DEF f, g
<1>5. n \in T
  <2>1. g[n] = t
    <3>1. CASE n <= q
      BY <1>4, <3>1
    <3>2. CASE n > q
      <4> DEFINE U == {j \in Nat : g[j] = t}
      <4>1. q \in U
        BY <1>3, <1>4
      <4>2. t.rc # "more"
        <5>1. t.rc = "more" => t.pos >= n
          BY ChunkRunPos
        <5> QED BY <1>3, <3>2, <5>1
      <4>3. ASSUME NEW j \in Nat, j >= q, j \in U PROVE j + 1 \in U
        <5>1. g[j + 1] = ChunkStep(z, t, j)
          BY <1>3, <1>4, <4>3
        <5> QED BY <4>2, <5>1 DEF ChunkStep
      <4>4. \A j \in Nat : j >= q => j \in U
        <5> HIDE DEF U
        <5> QED BY <1>3, <4>1, <4>3, UpInduction
      <4> QED BY <1>3, <3>2, <4>4
    <3> QED BY <1>3, <3>1, <3>2
  <2> QED BY <1>2, <2>1
<1>6. ASSUME NEW j \in Nat, j >= n, j \in T PROVE j + 1 \in T
  <2>1. f[j] = g[j] /\ f[j + 1] = ChunkStep(z, f[j], j) /\ j + 1 \in Nat
    BY <1>1, <1>2, <1>6
  <2>2. CASE j + 1 <= q
    <3>1. g[j] = t /\ g[j + 1] = t
      BY <1>3, <1>4, <2>2
    <3>2. ChunkStep(z, t, j) = t
      BY <1>3, <2>2 DEF ChunkStep
    <3> QED BY <2>1, <3>1, <3>2
  <2>3. CASE j + 1 > q
    BY <1>4, <2>1, <2>3
  <2> QED BY <1>3, <2>2, <2>3
<1>7. \A j \in Nat : j >= n => j \in T
  <2> HIDE DEF T
  <2> QED BY <1>5, <1>6, UpInduction
<1> QED BY <1>7 DEF f, g

\* SizeUpto is what its recursive definition says, and its values are numbers.
LEMMA SizeUptoIs ==
    ASSUME NEW u
    PROVE  /\ SizeUpto(u) \in [Nat -> Nat] /\ SizeUpto(u)[0] = 0
           /\ \A j \in Nat : u[j + 1] \in {SP, "TAB"} => SizeUpto(u)[j + 1] = SizeUpto(u)[j]
           /\ \A j \in Nat : u[j + 1] \notin {SP, "TAB"} =>
                SizeUpto(u)[j + 1] = 16 * SizeUpto(u)[j] + Digit(u[j + 1])
<1> DEFINE V(j, x) == IF u[j] \in {SP, "TAB"} THEN x ELSE 16 * x + Digit(u[j])
           Body(g) == [j \in Nat |-> IF j = 0 THEN 0
                                     ELSE IF u[j] \in {SP, "TAB"} THEN g[j - 1]
                                     ELSE 16 * g[j - 1] + Digit(u[j])]
           F == [x \in Nat \X Nat |-> V(x[1] + 1, x[2])]
           g1 == CHOOSE g : g = Body(g)
<1>1. \A j : \A x \in Nat : V(j, x) \in Nat
  BY DigitType
<1>2. F \in [Nat \X Nat -> Nat]
  <2> HIDE DEF V
  <2> QED BY <1>1
<1>3. PICK h \in [Nat -> Nat] : h[0] = 0 /\ \A n \in Nat : h[n + 1] = F[<<n, h[n]>>]
  <2> HIDE DEF F
  <2>1. \E f : Iterates(f, Nat, 0, F)
    BY <1>2, Recursion
  <2> QED BY <2>1 DEF Iterates
<1>4. \A n \in Nat : h[n + 1] = V(n + 1, h[n])
  <2> HIDE DEF V
  <2> QED BY <1>3
<1> HIDE DEF F
<1>5. h = Body(h)
  <2>1. ASSUME NEW i \in Nat
        PROVE  h[i] = IF i = 0 THEN 0 ELSE IF u[i] \in {SP, "TAB"} THEN h[i - 1]
                      ELSE 16 * h[i - 1] + Digit(u[i])
    <3>1. CASE i = 0
      BY <1>3, <3>1
    <3>2. CASE i # 0
      <4>1. i - 1 \in Nat /\ (i - 1) + 1 = i
        BY <3>2
      <4>2. h[i] = V(i, h[i - 1])
        <5> HIDE DEF V
        <5> QED BY <1>4, <4>1
      <4> QED BY <3>2, <4>2
    <3> QED BY <3>1, <3>2
  <2> QED BY <2>1
<1>6. g1 = Body(g1)
  <2> HIDE DEF Body
  <2> QED BY <1>5
<1>7. SizeUpto(u) = g1
  BY DEF SizeUpto
<1> HIDE DEF g1
<1>8. g1[0] = 0 /\ \A i \in Nat : g1[i + 1] = V(i + 1, g1[i])
  <2>1. g1[0] = 0
    BY <1>6
  <2>2. ASSUME NEW i \in Nat PROVE g1[i + 1] = V(i + 1, g1[i])
    <3>1. i + 1 \in Nat /\ (i + 1) - 1 = i /\ i + 1 # 0
      OBVIOUS
    <3>2. g1[i + 1] = IF u[i + 1] \in {SP, "TAB"} THEN g1[(i + 1) - 1]
                      ELSE 16 * g1[(i + 1) - 1] + Digit(u[i + 1])
      BY <1>6, <3>1
    <3> QED BY <3>1, <3>2
  <2> QED BY <2>1, <2>2
<1>9. \A i \in Nat : g1[i] \in Nat
  <2> DEFINE W == {i \in Nat : g1[i] \in Nat}
  <2>1. 0 \in W
    BY <1>8
  <2>2. ASSUME NEW i \in Nat, i \in W PROVE i + 1 \in W
    <3> HIDE DEF V
    <3> QED BY <1>1, <1>8, <2>2
  <2>3. \A i \in Nat : i \in W
    <3> HIDE DEF W
    <3> QED BY <2>1, <2>2, Induction
  <2> QED BY <2>3
<1>10. g1 \in [Nat -> Nat]
  <2>1. g1 = [i \in Nat |-> g1[i]]
    BY <1>6
  <2> QED BY <1>9, <2>1
<1> QED BY <1>7, <1>8, <1>10

\* More digits make no smaller number.
LEMMA SizeGrows ==
    ASSUME NEW u, NEW j \in Nat, NEW n \in Nat, j <= n
    PROVE  SizeUpto(u)[j] <= SizeUpto(u)[n]
<1> DEFINE f == SizeUpto(u)
           T == {i \in Nat : f[j] <= f[i]}
<1>1. f \in [Nat -> Nat]
      /\ (\A i \in Nat : u[i + 1] \in {SP, "TAB"} => f[i + 1] = f[i])
      /\ \A i \in Nat : u[i + 1] \notin {SP, "TAB"} => f[i + 1] = 16 * f[i] + Digit(u[i + 1])
  BY SizeUptoIs
<1> HIDE DEF f
<1>2. j \in T
  BY <1>1
<1>3. ASSUME NEW i \in Nat, i >= j, i \in T PROVE i + 1 \in T
  <2>1. f[j] \in Nat /\ f[i] \in Nat /\ f[i + 1] \in Nat /\ f[j] <= f[i] /\ Digit(u[i + 1]) \in Nat
    BY <1>1, <1>3, DigitType
  <2>2. f[i + 1] >= f[i]
    <3>1. CASE u[i + 1] \in {SP, "TAB"}
      BY <1>1, <2>1, <3>1
    <3>2. CASE u[i + 1] \notin {SP, "TAB"}
      <4>1. f[i + 1] = 16 * f[i] + Digit(u[i + 1])
        BY <1>1, <3>2
      <4> QED BY <2>1, <4>1
    <3> QED BY <3>1, <3>2
  <2> QED BY <2>1, <2>2
<1>4. \A i \in Nat : i >= j => i \in T
  <2> HIDE DEF T
  <2> QED BY <1>2, <1>3, UpInduction
<1> QED BY <1>4 DEF f
\* The next byte, when the loops stand before it.
LEMMA ChunkNext ==
    ASSUME NEW z, NEW s \in ChunkState, NEW n \in Nat, n >= s.pos,
           ChunkRun(z, s)[n].rc = "more", ChunkRun(z, s)[n].pos = n
    PROVE  ChunkRun(z, s)[n + 1] = ChunkByte(ChunkRun(z, s)[n], z[n + 1])
<1>1. s.pos \in Nat
  BY DEF ChunkState
<1>2. ChunkRun(z, s)[n + 1] = ChunkStep(z, ChunkRun(z, s)[n], n)
  BY <1>1, ChunkRunIs
<1> QED BY <1>2 DEF ChunkStep

\* The bytes of a chunk are passed over, and nothing is read once the call has returned.
LEMMA ChunkStays ==
    ASSUME NEW z, NEW s \in ChunkState, NEW n \in Nat, n >= s.pos, NEW m \in Nat, m >= n,
           ChunkRun(z, s)[n].rc # "more" \/ m <= ChunkRun(z, s)[n].pos
    PROVE  ChunkRun(z, s)[m] = ChunkRun(z, s)[n]
<1> DEFINE f == ChunkRun(z, s)
           t == f[n]
           q == t.pos
           T == {j \in Nat : j <= m => f[j] = t}
<1>1. s.pos \in Nat
  BY DEF ChunkState
<1>2. f \in [Nat -> ChunkState] /\ \A j \in Nat : j + 1 > s.pos => f[j + 1] = ChunkStep(z, f[j], j)
  BY <1>1, ChunkRunIs
<1>3. t.rc # "more" \/ m <= q
  OBVIOUS
<1> HIDE DEF f
<1>4. t \in ChunkState /\ q \in Nat
  BY <1>2 DEF ChunkState
<1> HIDE DEF t
<1>5. n \in T
  BY DEF t
<1>6. ASSUME NEW j \in Nat, j >= n, j \in T PROVE j + 1 \in T
  <2>1. SUFFICES ASSUME j + 1 <= m PROVE f[j + 1] = t
    OBVIOUS
  <2>2. f[j] = t /\ f[j + 1] = ChunkStep(z, f[j], j)
    BY <1>1, <1>2, <1>6, <2>1
  <2>3. ~(t.rc = "more" /\ q <= j)
    BY <1>3, <1>4, <2>1
  <2> QED BY <2>2, <2>3 DEF ChunkStep
<1>7. \A j \in Nat : j >= n => j \in T
  <2> HIDE DEF T
  <2> QED BY <1>5, <1>6, UpInduction
<1> QED BY <1>7 DEF f, t

\* The loops go on at offset p with the cache mc and the size l read so far
ChunkMid(t, p, mc, l) == t \in ChunkState /\ t.pos = p /\ t.mc = mc /\ t.chunk_len = l /\ t.rc = "more"

\* The last size line ended at offset p
ChunkEnd(t, p, mc) == t \in ChunkState /\ t.pos = p /\ t.mc = mc /\ t.chunk_len = 0 /\ t.rc = "done"

\* A size line has no line end inside
NoEnd(u, n) == \A j \in 1..n : u[j] \notin {CR, LF}

\* Over the digits of a size.
LEMMA SizeRun ==
    ASSUME NEW z, NEW s \in ChunkState, NEW p \in Nat, p >= s.pos, NEW mc \in HtmlCache,
           NEW u, NEW n \in Nat, NoEnd(u, n), Matches(z, p, u, 0, n), SizeUpto(u)[n] < Word,
           ChunkMid(ChunkRun(z, s)[p], p, mc, 0)
    PROVE  ChunkMid(ChunkRun(z, s)[p + n], p + n, mc, SizeUpto(u)[n])
<1> DEFINE f == ChunkRun(z, s)
           v == SizeUpto(u)
           T == {j \in Nat : ChunkMid(f[p + j], p + j, mc, v[j])}
<1>1. v \in [Nat -> Nat] /\ v[0] = 0
      /\ (\A j \in Nat : u[j + 1] \in {SP, "TAB"} => v[j + 1] = v[j])
      /\ \A j \in Nat : u[j + 1] \notin {SP, "TAB"} => v[j + 1] = 16 * v[j] + Digit(u[j + 1])
  BY SizeUptoIs
<1>2. 0 \in T
  <2>1. p + 0 = p
    OBVIOUS
  <2> QED BY <1>1, <2>1
<1>3. s.pos \in Nat
  BY DEF ChunkState
<1>4. ASSUME NEW j \in 0..(n - 1), j \in T PROVE j + 1 \in T
  <2> DEFINE i == p + j
             t == f[i]
             c == z[i + 1]
             x == f[i + 1]
  <2>1. i \in Nat /\ i >= s.pos /\ j \in Nat /\ j + 1 \in Nat /\ i + 1 = p + (j + 1)
    BY <1>3
  <2>2. t \in ChunkState /\ t.pos = i /\ t.mc = mc /\ t.chunk_len = v[j] /\ t.rc = "more"
    BY <1>4 DEF ChunkMid
  <2>3. x = ChunkByte(t, c)
    BY <2>1, <2>2, ChunkNext
  <2>4. c = u[j + 1] /\ c \notin {CR, LF}
    <3>1. j + 1 \in 1..n
      OBVIOUS
    <3>2. z[p + (j + 1)] = u[0 + (j + 1)]
      BY <3>1 DEF Matches
    <3>3. 0 + (j + 1) = j + 1
      OBVIOUS
    <3> QED BY <2>1, <3>1, <3>2, <3>3 DEF NoEnd
  <2>5. v[j + 1] < Word /\ v[j + 1] \in Nat /\ v[j] \in Nat
    <3>1. v[j + 1] <= v[n]
      BY <2>1, SizeGrows
    <3>2. v[j + 1] \in Nat /\ v[n] \in Nat /\ v[j] \in Nat /\ v[n] < Word /\ Word \in Nat
      BY <1>1, <2>1, HtmlAssumption
    <3> HIDE DEF v
    <3> QED BY <3>1, <3>2
  <2> HIDE DEF f, v, t, x, c, i
  <2>6. x \in ChunkState /\ x.pos = i + 1 /\ x.mc = mc /\ x.chunk_len = v[j + 1] /\ x.rc = "more"
    <3>1. CASE c \in {SP, "TAB"}
      <4>1. v[j + 1] = v[j]
        BY <1>1, <2>1, <2>4, <3>1
      <4>2. x \in ChunkState /\ x.pos = i + 1 /\ x.mc = mc /\ x.chunk_len = v[j] /\ x.rc = "more"
        BY <2>2, <2>3, <3>1, ChunkByteIs
      <4> QED BY <4>1, <4>2
    <3>2. CASE c \notin {SP, "TAB"}
      <4> DEFINE y == v[j] * 16 + Digit(c)
      <4>1. y = v[j + 1]
        <5>1. v[j + 1] = 16 * v[j] + Digit(c)
          BY <1>1, <2>1, <2>4, <3>2
        <5>2. Digit(c) \in Nat
          BY DigitType
        <5> QED BY <2>5, <5>1, <5>2
      <4>2. y % Word = y
        BY <2>5, <4>1, Remainder
      <4>3. x \in ChunkState /\ x.pos = i + 1 /\ x.mc = mc /\ x.chunk_len = y % Word /\ x.rc = "more"
        <5>1. c \notin {SP, "TAB", CR, LF}
          BY <2>4, <3>2
        <5> QED BY <2>2, <2>3, <5>1, ChunkByteIs
      <4> HIDE DEF y
      <4> QED BY <4>1, <4>2, <4>3
    <3> QED BY <3>1, <3>2
  <2>7. ChunkMid(f[p + (j + 1)], p + (j + 1), mc, v[j + 1])
    BY <2>1, <2>6 DEF ChunkMid, x
  <2> QED BY <2>1, <2>7
<1>5. \A j \in 0..n : j \in T
  <2> HIDE DEF T
  <2> QED BY <1>2, <1>4, IntervalInduction
<1>6. n \in T
  <2> HIDE DEF T
  <2> QED BY <1>5
<1> QED BY <1>6

\* Between two size lines the status is the same again.
LEMMA Again ==
    ASSUME NEW mc \in HtmlCache
    PROVE  /\ In(mc, "LEN_HALF") \in HtmlCache /\ In(mc, "LEN_HALF").status = "LEN_HALF"
           /\ mc.status = "LEN_DONE" => In(In(mc, "LEN_HALF"), "LEN_DONE") = mc
<1>1. In(mc, "LEN_HALF") \in HtmlCache /\ In(mc, "LEN_HALF").status = "LEN_HALF"
  BY DEF In, HtmlCache
<1>2. ASSUME mc.status = "LEN_DONE" PROVE In(In(mc, "LEN_HALF"), "LEN_DONE") = mc
  BY <1>2 DEF In, HtmlCache
<1> QED BY <1>1, <1>2

\* Over the line end of a size.
LEMMA SizeEnd ==
    ASSUME NEW z, NEW s \in ChunkState, NEW p \in Nat, p >= s.pos, NEW mc \in HtmlCache, mc.status = "LEN_DONE",
           NEW l \in Nat, ChunkMid(ChunkRun(z, s)[p], p, mc, l), z[p + 1] = CR, z[p + 2] = LF
    PROVE  /\ ChunkMid(ChunkRun(z, s)[p + 1], p + 1, In(mc, "LEN_HALF"), l)
           /\ l = 0 => ChunkEnd(ChunkRun(z, s)[p + 2], p + 2, mc)
           /\ l # 0 => ChunkMid(ChunkRun(z, s)[p + 2], p + 2 + SkipChunk(l), Queued(mc, [off |-> p + 2, len |-> l]), 0)
<1> DEFINE f == ChunkRun(z, s)
           t == f[p]
           x == f[p + 1]
           y == f[p + 2]
           h == In(mc, "LEN_HALF")
<1>1. s.pos \in Nat /\ p + 1 \in Nat /\ p + 1 >= s.pos /\ (p + 1) + 1 = p + 2
  BY DEF ChunkState
<1>2. t \in ChunkState /\ t.pos = p /\ t.mc = mc /\ t.chunk_len = l /\ t.rc = "more"
  BY DEF ChunkMid
<1>3. x = ChunkByte(t, CR)
  BY <1>1, <1>2, ChunkNext
<1>4. x \in ChunkState /\ x.pos = p + 1 /\ x.mc = h /\ x.chunk_len = l /\ x.rc = "more"
  <2> HIDE DEF t, x, f, h
  <2>1. x \in ChunkState /\ x.pos = p + 1 /\ x.mc = In(mc, "LEN_HALF") /\ x.chunk_len = l /\ x.rc = "more"
    BY <1>2, <1>3, ChunkByteIs
  <2> QED BY <2>1 DEF h
<1>5. y = ChunkByte(x, LF)
  <2>1. f[(p + 1) + 1] = ChunkByte(f[p + 1], z[(p + 1) + 1])
    BY <1>1, <1>4, ChunkNext
  <2> QED BY <1>1, <2>1
<1>6. h \in HtmlCache /\ h.status = "LEN_HALF" /\ In(h, "LEN_DONE") = mc
  BY Again
<1>7. ChunkMid(x, p + 1, h, l)
  BY <1>4 DEF ChunkMid
<1> HIDE DEF t, x, f, h, y
<1>8. ASSUME l = 0 PROVE ChunkEnd(y, p + 2, mc)
  <2>1. y \in ChunkState /\ y.pos = x.pos + 1 /\ y.mc = In(x.mc, "LEN_DONE") /\ y.chunk_len = 0 /\ y.rc = "done"
    BY <1>4, <1>5, <1>6, <1>8, ChunkByteIs
  <2> QED BY <1>1, <1>4, <1>6, <2>1 DEF ChunkEnd
<1>9. ASSUME l # 0 PROVE ChunkMid(y, p + 2 + SkipChunk(l), Queued(mc, [off |-> p + 2, len |-> l]), 0)
  <2>1. y \in ChunkState /\ y.pos = x.pos + 1 + SkipChunk(x.chunk_len) /\ y.chunk_len = 0
        /\ y.mc = Queued(In(x.mc, "LEN_DONE"), [off |-> x.pos + 1, len |-> x.chunk_len]) /\ y.rc = x.rc
    BY <1>4, <1>5, <1>6, <1>9, ChunkByteIs
  <2>2. x.pos + 1 = p + 2
    BY <1>1, <1>4
  <2> QED BY <1>4, <1>6, <2>1, <2>2 DEF ChunkMid
<1> QED BY <1>7, <1>8, <1>9 DEF x, y, f, h
\* The offset of piece k of r, or of what follows the last piece
PieceAt(r, k) == Len(HeadOf(r)) + Len(Upto(Parts(r), k - 1))

\* Piece k in the bytes of a response.
LEMMA PartAt ==
    ASSUME NEW r \in Response, NEW k \in 1..Len(r.pieces)
    PROVE  /\ PieceAt(r, k) \in Nat /\ PieceAt(r, k) >= Len(HeadOf(r))
           /\ PieceAt(r, k + 1) = PieceAt(r, k) + Len(Parts(r)[k])
           /\ PieceAt(r, k + 1) <= PieceAt(r, Len(r.pieces) + 1)
           /\ Matches(Stream(r), PieceAt(r, k), Parts(r)[k], 0, Len(Parts(r)[k]))
<1> DEFINE m == Len(r.pieces)
           s == Parts(r)
           w == s[k]
           lw == Len(w)
           e == Len(HeadOf(r))
           a == Len(Upto(s, k - 1))
           c == Len(Upto(s, k))
           g == Upto(s, m)
           lg == Len(g)
           body == BodyOf(r)
<1>1. m \in Nat /\ s \in [1..m -> Seq(Char)] /\ LastChunk(r) \in Seq(Char) /\ k \in 1..m
  BY PartsType
<1>2. Upto(s, k - 1) \in Seq(Char) /\ g \in Seq(Char) /\ w \in Seq(Char)
  <2>1. k - 1 \in 0..m /\ m \in 0..m
    BY <1>1
  <2>2. \A j \in 0..m : Upto(s, j) \in Seq(Char)
    <3> HIDE DEF s, m
    <3> QED BY <1>1, FlattenUpto
  <2>3. w \in Seq(Char)
    BY <1>1
  <2> QED BY <2>1, <2>2, <2>3
<1>3. a \in Nat /\ lw \in Nat /\ lg \in Nat /\ e \in Nat
  <2>1. HeadOf(r) \in Seq(Char)
    BY StreamIs
  <2> QED BY <1>2, <2>1, Elements
<1>4. c = a + lw /\ c <= lg /\ \A j \in 1..lw : g[a + j] = w[j]
  <2>1. m \in k..m
    BY <1>1
  <2>2. Placed(s, k, m)
    <3> HIDE DEF s, m
    <3> QED BY <1>1, <2>1, Places
  <2> QED BY <2>2 DEF Placed
<1>5. body = g \o LastChunk(r) /\ \A i \in 1..Len(body) : Stream(r)[e + i] = body[i]
  BY StreamIs
<1>6. Len(body) = lg + Len(LastChunk(r)) /\ Len(LastChunk(r)) \in Nat /\ \A i \in 1..lg : body[i] = g[i]
  <2> DEFINE l == LastChunk(r)
  <2>1. g \in Seq(Char) /\ l \in Seq(Char)
    BY <1>1, <1>2
  <2> HIDE DEF g, l
  <2>2. Len(g \o l) = Len(g) + Len(l) /\ Len(l) \in Nat /\ \A i \in 1..Len(g) : (g \o l)[i] = g[i]
    BY <2>1, Joined
  <2> QED BY <1>5, <2>2 DEF l
<1>7. (k + 1) - 1 = k /\ (m + 1) - 1 = m
  BY <1>1
<1>8. PieceAt(r, k) = e + a /\ PieceAt(r, k + 1) = e + c /\ PieceAt(r, m + 1) = e + lg
  BY <1>7 DEF PieceAt
<1> HIDE DEF m, s, w, lw, e, a, c, g, lg, body
<1>9. PieceAt(r, k) \in Nat /\ PieceAt(r, k) >= e /\ PieceAt(r, k + 1) = PieceAt(r, k) + lw
      /\ PieceAt(r, k + 1) <= PieceAt(r, m + 1)
  BY <1>3, <1>4, <1>8
<1>10. ASSUME NEW j \in 1..lw PROVE Stream(r)[PieceAt(r, k) + j] = w[0 + j]
  <2>1. a + j \in 1..lg /\ a + j \in 1..Len(body) /\ e + (a + j) = PieceAt(r, k) + j /\ 0 + j = j
    BY <1>3, <1>4, <1>6, <1>8
  <2>2. Stream(r)[e + (a + j)] = body[a + j]
    BY <1>5, <2>1
  <2>3. body[a + j] = g[a + j]
    BY <1>6, <2>1
  <2>4. g[a + j] = w[j]
    BY <1>4
  <2> QED BY <2>1, <2>2, <2>3, <2>4
<1>11. Matches(Stream(r), PieceAt(r, k), w, 0, lw)
  BY <1>10 DEF Matches
<1> QED BY <1>9, <1>11 DEF m, s, w, lw, e

\* What follows the last piece.
LEMMA EndAt ==
    ASSUME NEW r \in Response
    PROVE  LET x == PieceAt(r, Len(r.pieces) + 1)
               l == LastChunk(r)
           IN  /\ PieceAt(r, 1) = Len(HeadOf(r)) /\ Len(HeadOf(r)) \in Nat /\ x \in Nat /\ x >= Len(HeadOf(r))
               /\ Len(Stream(r)) = x + Len(l) /\ Len(l) \in Nat /\ Matches(Stream(r), x, l, 0, Len(l))
<1> DEFINE m == Len(r.pieces)
           s == Parts(r)
           e == Len(HeadOf(r))
           g == Upto(s, m)
           lg == Len(g)
           l == LastChunk(r)
           ll == Len(l)
           body == BodyOf(r)
           x == PieceAt(r, m + 1)
<1>1. m \in Nat /\ s \in [1..m -> Seq(Char)] /\ l \in Seq(Char)
  BY PartsType
<1>2. Upto(s, 0) = <<>> /\ g \in Seq(Char)
  <2>1. m \in 0..m
    BY <1>1
  <2> HIDE DEF s, m
  <2> QED BY <1>1, <2>1, FlattenUpto
<1>3. PieceAt(r, 1) = e
  <2>1. 1 - 1 = 0 /\ e \in Nat
    <3>1. HeadOf(r) \in Seq(Char)
      BY StreamIs
    <3> QED BY <3>1, Elements
  <2>2. Len(Upto(Parts(r), 1 - 1)) = 0
    BY <1>2, <2>1
  <2> QED BY <2>1, <2>2 DEF PieceAt
<1>4. lg \in Nat /\ e \in Nat /\ ll \in Nat
  <2>1. HeadOf(r) \in Seq(Char)
    BY StreamIs
  <2> QED BY <1>1, <1>2, <2>1, Elements
<1>5. body = g \o l /\ (\A i \in 1..Len(body) : Stream(r)[e + i] = body[i]) /\ Len(Stream(r)) = e + Len(body)
  BY StreamIs
<1>6. Len(body) = lg + ll /\ \A i \in 1..ll : body[lg + i] = l[i]
  <2>1. g \in Seq(Char) /\ l \in Seq(Char)
    BY <1>1, <1>2
  <2> HIDE DEF g, l
  <2>2. Len(g \o l) = Len(g) + Len(l) /\ \A i \in 1..Len(l) : (g \o l)[Len(g) + i] = l[i]
    BY <2>1, Joined
  <2> QED BY <1>5, <2>2
<1>7. x = e + lg
  <2>1. (m + 1) - 1 = m
    BY <1>1
  <2> QED BY <2>1 DEF PieceAt
<1> HIDE DEF m, s, e, g, lg, l, ll, body, x
<1>8. ASSUME NEW j \in 1..ll PROVE Stream(r)[x + j] = l[0 + j]
  <2>1. lg + j \in 1..Len(body) /\ e + (lg + j) = x + j /\ 0 + j = j
    BY <1>4, <1>6, <1>7
  <2> QED BY <1>5, <1>6, <2>1
<1>9. Matches(Stream(r), x, l, 0, ll)
  BY <1>8 DEF Matches
<1>10. x \in Nat /\ x >= e /\ Len(Stream(r)) = x + ll
  BY <1>4, <1>5, <1>6, <1>7
<1> QED BY <1>3, <1>4, <1>9, <1>10 DEF m, e, l, ll, x

\* At offset p of z stands a chunk with the size u and the data d
IsChunk(z, p, u, d) ==
    /\ Matches(z, p, u, 0, Len(u)) /\ z[p + Len(u) + 1] = CR /\ z[p + Len(u) + 2] = LF
    /\ Matches(z, p + Len(u) + 2, d, 0, Len(d))

\* The bytes of a chunk.
LEMMA ChunkBytes ==
    ASSUME NEW u \in Seq(Char), NEW d \in Seq(Char), NEW w, w = ((u \o CRLF) \o d) \o CRLF
    PROVE  Len(w) = Len(u) + Len(d) + 4 /\ IsChunk(w, 0, u, d)
<1> DEFINE a == u \o CRLF
           c == a \o d
           lu == Len(u)
           ld == Len(d)
<1>1. CRLF \in Seq(Char) /\ Len(CRLF) = 2 /\ CRLF[1] = CR /\ CRLF[2] = LF
  BY Chars
<1>2. a \in Seq(Char) /\ lu \in Nat /\ Len(a) = lu + 2 /\ (\A i \in 1..lu : a[i] = u[i])
      /\ a[lu + 1] = CR /\ a[lu + 2] = LF
  <2>0. u \in Seq(Char) /\ CRLF \in Seq(Char)
    BY <1>1
  <2>1. u \o CRLF \in Seq(Char) /\ Len(u) \in Nat /\ Len(u \o CRLF) = Len(u) + Len(CRLF)
        /\ (\A i \in 1..Len(u) : (u \o CRLF)[i] = u[i]) /\ \A i \in 1..Len(CRLF) : (u \o CRLF)[Len(u) + i] = CRLF[i]
    BY <2>0, Joined
  <2>2. 1 \in 1..Len(CRLF) /\ 2 \in 1..Len(CRLF)
    BY <1>1
  <2> QED BY <1>1, <2>1, <2>2
<1> HIDE DEF a
<1>3. c \in Seq(Char) /\ ld \in Nat /\ Len(c) = Len(a) + ld /\ (\A i \in 1..Len(a) : c[i] = a[i])
      /\ \A i \in 1..ld : c[Len(a) + i] = d[i]
  <2>0. a \in Seq(Char) /\ d \in Seq(Char)
    BY <1>2
  <2>1. a \o d \in Seq(Char) /\ Len(d) \in Nat /\ Len(a \o d) = Len(a) + Len(d)
        /\ (\A i \in 1..Len(a) : (a \o d)[i] = a[i]) /\ \A i \in 1..Len(d) : (a \o d)[Len(a) + i] = d[i]
    BY <2>0, Joined
  <2> QED BY <2>1
<1>4. w = c \o CRLF
  BY DEF c, a
<1> HIDE DEF c
<1>5. Len(w) = Len(c) + 2 /\ \A i \in 1..Len(c) : w[i] = c[i]
  <2>0. c \in Seq(Char) /\ CRLF \in Seq(Char)
    BY <1>1, <1>3
  <2>1. Len(c \o CRLF) = Len(c) + Len(CRLF) /\ \A i \in 1..Len(c) : (c \o CRLF)[i] = c[i]
    BY <2>0, Joined
  <2> QED BY <1>1, <1>4, <2>1
<1> HIDE DEF lu, ld
<1>6. Len(w) = lu + ld + 4
  BY <1>2, <1>3, <1>5
<1>7. \A i \in 1..(lu + 2) : w[i] = a[i]
  <2>1. ASSUME NEW i \in 1..(lu + 2) PROVE w[i] = a[i]
    <3>1. i \in 1..Len(a) /\ i \in 1..Len(c)
      BY <1>2, <1>3
    <3> QED BY <1>3, <1>5, <3>1
  <2> QED BY <2>1
<1>8. Matches(w, 0, u, 0, lu)
  <2>1. ASSUME NEW j \in 1..lu PROVE w[0 + j] = u[0 + j]
    <3>1. 0 + j = j /\ j \in 1..(lu + 2)
      BY <1>2
    <3> QED BY <1>2, <1>7, <3>1
  <2> QED BY <2>1 DEF Matches
<1>9. w[0 + lu + 1] = CR /\ w[0 + lu + 2] = LF
  <2>1. 0 + lu + 1 = lu + 1 /\ 0 + lu + 2 = lu + 2 /\ lu + 1 \in 1..(lu + 2) /\ lu + 2 \in 1..(lu + 2)
    BY <1>2
  <2> QED BY <1>2, <1>7, <2>1
<1>10. Matches(w, 0 + lu + 2, d, 0, ld)
  <2>1. ASSUME NEW j \in 1..ld PROVE w[0 + lu + 2 + j] = d[0 + j]
    <3>1. 0 + j = j /\ 0 + lu + 2 + j = Len(a) + j /\ Len(a) + j \in 1..Len(c)
      BY <1>2, <1>3
    <3> QED BY <1>3, <1>5, <3>1
  <2> QED BY <2>1 DEF Matches
<1> QED BY <1>6, <1>8, <1>9, <1>10 DEF lu, ld, IsChunk
\* Piece k of a chunked response is a chunk.
LEMMA ChunkAt ==
    ASSUME NEW r \in Response, r.chunked, NEW k \in 1..Len(r.pieces)
    PROVE  LET u == r.pieces[k].size
               d == r.pieces[k].data
           IN  /\ u \in Seq(Char) /\ d \in Seq(Char) /\ Len(u) \in Nat /\ Len(d) \in Nat
               /\ PieceAt(r, k + 1) = PieceAt(r, k) + Len(u) + Len(d) + 4
               /\ IsChunk(Stream(r), PieceAt(r, k), u, d)
<1> DEFINE u == r.pieces[k].size
           d == r.pieces[k].data
           w == Parts(r)[k]
           p == PieceAt(r, k)
           z == Stream(r)
           lu == Len(u)
           ld == Len(d)
           lw == Len(w)
<1>1. u \in Seq(Char) /\ d \in Seq(Char)
  BY PartsType
<1>2. lu \in Nat /\ ld \in Nat
  BY <1>1, Elements
<1>3. p \in Nat /\ PieceAt(r, k + 1) = p + lw /\ Matches(z, p, w, 0, lw)
  BY PartAt, SMTT(40)
<1>4. w = ((u \o CRLF) \o d) \o CRLF
  BY DEF Parts, PieceOf, ChunkOf
<1> HIDE DEF u, d, w, p, z, lu, ld, lw
<1>5. lw = lu + ld + 4 /\ IsChunk(w, 0, u, d)
  BY <1>1, <1>4, ChunkBytes DEF lu, ld, lw
<1>6. \A j \in 1..lw : z[p + j] = w[j]
  <2>1. ASSUME NEW j \in 1..lw PROVE z[p + j] = w[j]
    <3>1. z[p + j] = w[0 + j] /\ 0 + j = j
      BY <1>3 DEF Matches
    <3> QED BY <3>1
  <2> QED BY <2>1
<1>7. /\ (\A j \in 1..lu : w[0 + j] = u[0 + j]) /\ w[0 + lu + 1] = CR /\ w[0 + lu + 2] = LF
      /\ \A j \in 1..ld : w[0 + lu + 2 + j] = d[0 + j]
  BY <1>5 DEF IsChunk, Matches, lu, ld
<1>8. Matches(z, p, u, 0, lu)
  <2>1. ASSUME NEW j \in 1..lu PROVE z[p + j] = u[0 + j]
    <3>1. j \in 1..lw /\ 0 + j = j
      BY <1>2, <1>5
    <3> QED BY <1>6, <1>7, <3>1
  <2> QED BY <2>1 DEF Matches
<1>9. z[p + lu + 1] = CR /\ z[p + lu + 2] = LF
  <2>1. lu + 1 \in 1..lw /\ lu + 2 \in 1..lw /\ 0 + lu + 1 = lu + 1 /\ 0 + lu + 2 = lu + 2
        /\ p + lu + 1 = p + (lu + 1) /\ p + lu + 2 = p + (lu + 2)
    BY <1>2, <1>3, <1>5
  <2> QED BY <1>6, <1>7, <2>1
<1>10. Matches(z, p + lu + 2, d, 0, ld)
  <2>1. ASSUME NEW j \in 1..ld PROVE z[p + lu + 2 + j] = d[0 + j]
    <3>1. lu + 2 + j \in 1..lw /\ 0 + lu + 2 + j = lu + 2 + j /\ p + lu + 2 + j = p + (lu + 2 + j)
      BY <1>2, <1>3, <1>5
    <3> QED BY <1>6, <1>7, <3>1
  <2> QED BY <2>1 DEF Matches
<1>11. IsChunk(z, p, u, d)
  BY <1>8, <1>9, <1>10 DEF IsChunk, lu, ld
<1>12. PieceAt(r, k + 1) = p + lu + ld + 4
  BY <1>2, <1>3, <1>5
<1> QED BY <1>1, <1>2, <1>11, <1>12 DEF u, d, p, z, lu, ld

\* The loops over all of r, behind the first n bytes
Body(r, n) == ChunkRun(Stream(r), ChunkBegin(Len(HeadOf(r)), NewHtml))[n]

\* What the loops have found in the first k pieces
Datas(r) == [i \in 1..Len(r.pieces) |-> r.pieces[i].data]
ChunkEntry(r, i) == [off |-> PieceAt(r, i) + Len(r.pieces[i].size) + 2, len |-> Len(r.pieces[i].data)]
ChunkQueue(r, k) == [i \in 1..k |-> ChunkEntry(r, i)]
ChunkSum(r, k) == Len(Upto(Datas(r), k))
Found(mc, r, k) ==
    mc \in HtmlCache /\ mc.status = "LEN_DONE" /\ mc.chunk_queue = ChunkQueue(r, k) /\ mc.chunk_sum = ChunkSum(r, k)
Sync(r, k) ==
    LET t == Body(r, PieceAt(r, k + 1)) IN ChunkMid(t, PieceAt(r, k + 1), t.mc, 0) /\ Found(t.mc, r, k)

\* The data of the pieces.
LEMMA DataType ==
    ASSUME NEW r \in Response
    PROVE  /\ Datas(r) \in [1..Len(r.pieces) -> Seq(Char)] /\ Len(r.pieces) \in Nat
           /\ \A k \in 0..Len(r.pieces) : Upto(Datas(r), k) \in Seq(Char) /\ ChunkSum(r, k) \in Nat
           /\ ChunkSum(r, 0) = 0
           /\ \A k \in 1..Len(r.pieces) : ChunkSum(r, k) = ChunkSum(r, k - 1) + Len(r.pieces[k].data)
<1> DEFINE s == Datas(r)
           m == Len(r.pieces)
<1>1. m \in Nat /\ \A i \in 1..m : r.pieces[i].data \in Seq(Char)
  BY PartsType
<1>2. s \in [1..m -> Seq(Char)]
  BY <1>1 DEF Datas
<1>3. \A k \in 1..m : s[k] = r.pieces[k].data
  BY DEF Datas
<1> HIDE DEF s, m
<1>4. /\ Upto(s, 0) = <<>> /\ (\A k \in 0..m : Upto(s, k) \in Seq(Char))
      /\ \A k \in 1..m : Upto(s, k) = Upto(s, k - 1) \o s[k]
  BY <1>1, <1>2, FlattenUpto
<1>5. \A k \in 0..m : ChunkSum(r, k) \in Nat
  BY <1>4, Elements DEF ChunkSum, s
<1>6. ChunkSum(r, 0) = 0
  BY <1>4 DEF ChunkSum, s
<1>7. ASSUME NEW k \in 1..m PROVE ChunkSum(r, k) = ChunkSum(r, k - 1) + Len(r.pieces[k].data)
  <2> DEFINE u == Upto(s, k - 1)
             v == s[k]
  <2>1. u \in Seq(Char) /\ v \in Seq(Char)
    <3>1. k - 1 \in 0..m
      BY <1>1
    <3> QED BY <1>2, <1>4, <3>1
  <2>2. Upto(s, k) = u \o v
    BY <1>4
  <2> HIDE DEF u, v
  <2>3. Len(u \o v) = Len(u) + Len(v)
    BY <2>1, Joined
  <2> QED BY <1>3, <2>2, <2>3 DEF ChunkSum, s, u, v
<1> QED BY <1>1, <1>2, <1>4, <1>5, <1>6, <1>7 DEF s, m

\* One more chunk in the queue.
LEMMA ChunkQueueNext ==
    ASSUME NEW r \in Response, r.chunked, NEW k \in 1..Len(r.pieces)
    PROVE  /\ ChunkEntry(r, k) \in Segment /\ ChunkQueue(r, k - 1) \in Seq(Segment)
           /\ Append(ChunkQueue(r, k - 1), ChunkEntry(r, k)) = ChunkQueue(r, k)
<1> DEFINE m == Len(r.pieces)
<1>1. m \in Nat
  BY PartsType
<1>2. \A i \in 1..m : ChunkEntry(r, i) \in Segment
  <2>1. ASSUME NEW i \in 1..m PROVE ChunkEntry(r, i) \in Segment
    <3> DEFINE p == PieceAt(r, i)
               n == Len(r.pieces[i].size)
               l == Len(r.pieces[i].data)
    <3>1. p \in Nat
      BY PartAt
    <3>2. n \in Nat /\ l \in Nat
      BY ChunkAt
    <3>3. ChunkEntry(r, i) = [off |-> p + n + 2, len |-> l]
      BY DEF ChunkEntry
    <3> HIDE DEF p, n, l
    <3>4. p + n + 2 \in Nat
      BY <3>1, <3>2
    <3> QED BY <3>2, <3>3, <3>4 DEF Segment
  <2> QED BY <2>1
<1>3. k - 1 \in Nat /\ (k - 1) + 1 = k /\ \A i \in 1..(k - 1) : i \in 1..m
  BY <1>1
<1> HIDE DEF m
<1>4. ChunkQueue(r, k - 1) \in Seq(Segment) /\ Len(ChunkQueue(r, k - 1)) = k - 1
  BY <1>2, <1>3 DEF ChunkQueue
<1>5. ChunkEntry(r, k) \in Segment
  BY <1>2 DEF m
<1>6. Append(ChunkQueue(r, k - 1), ChunkEntry(r, k)) = ChunkQueue(r, k)
  <2> DEFINE q == ChunkQueue(r, k - 1)
             e == ChunkEntry(r, k)
             a == Append(q, e)
             h == ChunkQueue(r, k)
  <2>1. q \in Seq(Segment) /\ e \in Segment /\ Len(q) = k - 1 /\ \A i \in 1..(k - 1) : q[i] = ChunkEntry(r, i)
    BY <1>4, <1>5 DEF ChunkQueue
  <2>2. h = [i \in 1..k |-> ChunkEntry(r, i)]
    BY DEF ChunkQueue
  <2> HIDE DEF q, e, h
  <2>3. a \in Seq(Segment) /\ Len(a) = k /\ (\A i \in 1..(k - 1) : a[i] = q[i]) /\ a[k] = e
    BY <1>3, <2>1
  <2>4. h \in Seq(Segment) /\ Len(h) = k /\ \A i \in 1..k : h[i] = ChunkEntry(r, i)
    <3>1. \A i \in 1..k : ChunkEntry(r, i) \in Segment
      BY <1>1, <1>2 DEF m
    <3>2. k \in Nat
      BY <1>3
    <3> QED BY <2>2, <3>1, <3>2
  <2> HIDE DEF a
  <2>5. \A i \in 1..k : a[i] = h[i]
    <3>1. ASSUME NEW i \in 1..k PROVE a[i] = h[i]
      <4>1. CASE i = k
        BY <2>3, <2>4, <4>1 DEF e
      <4>2. CASE i # k
        <5>1. i \in 1..(k - 1)
          BY <1>3, <4>2
        <5> QED BY <2>1, <2>3, <2>4, <5>1
      <4> QED BY <4>1, <4>2
    <3> QED BY <3>1
  <2>6. a = h
    BY <2>3, <2>4, <2>5, SeqEqual
  <2>7. a = Append(q, e)
    BY DEF a
  <2> QED BY <2>6, <2>7 DEF q, e, h
<1> QED BY <1>4, <1>5, <1>6
\* Where the loops over r begin.
LEMMA BodyFrom ==
    ASSUME NEW r \in Response
    PROVE  LET s == ChunkBegin(Len(HeadOf(r)), NewHtml) IN
           /\ s \in ChunkState /\ s.pos = Len(HeadOf(r)) /\ Len(HeadOf(r)) \in Nat
           /\ \A n \in Nat : Body(r, n) \in ChunkState
           /\ Body(r, Len(HeadOf(r))) = s
<1> DEFINE e == Len(HeadOf(r))
           s == ChunkBegin(e, NewHtml)
<1>1. e \in Nat
  BY EndAt
<1>2. s \in ChunkState /\ s.pos = e
  BY <1>1, NewHtmlType, ChunkBeginType
<1>3. (\A n \in Nat : Body(r, n) \in ChunkState) /\ Body(r, e) = s
  <2> HIDE DEF s
  <2>1. ChunkRun(Stream(r), s) \in [Nat -> ChunkState] /\ ChunkRun(Stream(r), s)[e] = s
    BY <1>1, <1>2, ChunkRunIs
  <2> QED BY <2>1 DEF Body, s
<1> QED BY <1>1, <1>2, <1>3

\* A chunk is found: behind its size line the loops stand before the next one.
LEMMA PieceRun ==
    ASSUME NEW r \in Response, r.chunked, SizesFit(r), Len(Stream(r)) < Word,
           NEW k \in 1..Len(r.pieces), Sync(r, k - 1), ChunkSum(r, k - 1) <= PieceAt(r, k)
    PROVE  /\ Sync(r, k) /\ ChunkSum(r, k) <= PieceAt(r, k + 1)
           /\ \A n \in (PieceAt(r, k) + Len(r.pieces[k].size) + 2)..PieceAt(r, k + 1) :
                Body(r, n) = Body(r, PieceAt(r, k + 1))
<1> DEFINE u == r.pieces[k].size
           d == r.pieces[k].data
           p == PieceAt(r, k)
           x == PieceAt(r, k + 1)
           z == Stream(r)
           lz == Len(z)
           lu == Len(u)
           ld == Len(d)
           e == Len(HeadOf(r))
           s == ChunkBegin(e, NewHtml)
           f == ChunkRun(z, s)
           mc == f[p].mc
<1>1. /\ u \in Seq(Char) /\ d \in Seq(Char) /\ lu \in Nat /\ ld \in Nat /\ x = p + lu + ld + 4
      /\ IsChunk(z, p, u, d)
  BY ChunkAt
<1>2. p \in Nat /\ p >= e /\ x <= lz /\ lz \in Nat /\ lz < Word /\ Word \in Nat
  <2>1. p \in Nat /\ p >= e /\ x <= PieceAt(r, Len(r.pieces) + 1)
    BY PartAt
  <2>2. PieceAt(r, Len(r.pieces) + 1) \in Nat /\ Len(LastChunk(r)) \in Nat
        /\ lz = PieceAt(r, Len(r.pieces) + 1) + Len(LastChunk(r))
    BY EndAt
  <2>3. lz < Word
    OBVIOUS
  <2> HIDE DEF u, d, p, x, z, lz, lu, ld, e
  <2>4. x \in Nat
    BY <1>1, <2>1
  <2> QED BY <2>1, <2>2, <2>3, <2>4, HtmlAssumption
<1>3. s \in ChunkState /\ s.pos = e /\ e \in Nat
  BY BodyFrom
<1>4. \A n : Body(r, n) = f[n]
  BY DEF Body
<1>5. NoEnd(u, lu) /\ ld # 0 /\ ld = SizeUpto(u)[lu]
  <2>1. DOMAIN r.pieces = 1..Len(r.pieces) /\ DOMAIN u = 1..lu
    BY <1>1, PartsType, Elements
  <2>2. (\A j \in DOMAIN u : u[j] \notin {CR, LF}) /\ d # <<>> /\ Len(d) = SizeIn(u)
    BY <2>1 DEF SizesFit
  <2>3. ld # 0
    BY <1>1, <2>2
  <2> QED BY <2>1, <2>2, <2>3 DEF NoEnd, SizeIn
<1>6. (k - 1) + 1 = k
  OBVIOUS
<1>7. ChunkMid(f[p], p, mc, 0) /\ Found(mc, r, k - 1)
  BY <1>4, <1>6 DEF Sync
<1>8. mc \in HtmlCache /\ mc.status = "LEN_DONE"
  BY <1>7 DEF Found
<1>9. Matches(z, p, u, 0, lu) /\ z[p + lu + 1] = CR /\ z[p + lu + 2] = LF
  BY <1>1 DEF IsChunk
<1> HIDE DEF u, d, p, x, z, lz, lu, ld, e, s, f, mc
<1>10. ChunkMid(f[p + lu], p + lu, mc, ld)
  <2>1. SizeUpto(u)[lu] < Word
    BY SMTT(40), <1>1, <1>2, <1>5
  <2>2. ChunkMid(ChunkRun(z, s)[p + lu], p + lu, mc, SizeUpto(u)[lu])
    BY <1>1, <1>2, <1>3, <1>5, <1>7, <1>8, <1>9, <2>1, SizeRun DEF f
  <2> QED BY <1>5, <2>2 DEF f
<1> DEFINE q == p + lu
           y == q + 2
           g == [off |-> y, len |-> ld]
           m2 == Queued(mc, g)
<1>11. q \in Nat /\ q >= s.pos /\ q >= e
  BY <1>1, <1>2, <1>3
<1>12. ChunkMid(f[y], y + SkipChunk(ld), m2, 0)
  <2>1. z[q + 1] = CR /\ z[q + 2] = LF
    BY <1>9
  <2>2. ChunkMid(ChunkRun(z, s)[q], q, mc, ld)
    BY <1>10 DEF f
  <2> HIDE DEF q
  <2>3. ChunkMid(ChunkRun(z, s)[q + 2], q + 2 + SkipChunk(ld), Queued(mc, [off |-> q + 2, len |-> ld]), 0)
    BY <1>1, <1>3, <1>5, <1>8, <1>11, <2>1, <2>2, SizeEnd
  <2> QED BY <2>3 DEF f
<1>13. SkipChunk(ld) = ld + 2
  <2>1. ld + 2 \in Nat /\ ld + 2 < Word
    BY <1>1, <1>2
  <2> QED BY <2>1, Remainder DEF SkipChunk
<1>14. y + SkipChunk(ld) = x /\ y \in Nat /\ y >= s.pos /\ x \in Nat /\ x >= y
  BY <1>1, <1>2, <1>3, <1>13
<1>15. f[y] \in ChunkState /\ f[y].pos = x /\ f[y].mc = m2 /\ f[y].chunk_len = 0 /\ f[y].rc = "more"
  <2> HIDE DEF y, m2
  <2> QED BY <1>12, <1>14 DEF ChunkMid
<1>16. \A n \in y..x : f[n] = f[y]
  <2> HIDE DEF y
  <2>1. ASSUME NEW n \in y..x PROVE f[n] = f[y]
    <3>1. n \in Nat /\ n >= y /\ n <= f[y].pos
      BY <1>14, <1>15
    <3> QED BY <1>3, <1>14, <3>1, ChunkStays DEF f
  <2> QED BY <2>1
<1>17. f[x] = f[y]
  <2> HIDE DEF y
  <2> QED BY <1>14, <1>16
<1>18. ChunkSum(r, k) = ChunkSum(r, k - 1) + ld /\ ChunkSum(r, k) \in Nat /\ ChunkSum(r, k - 1) \in Nat
  <2>1. k \in 0..Len(r.pieces) /\ k - 1 \in 0..Len(r.pieces)
    BY DataType
  <2> QED BY <2>1, DataType DEF ld, d
<1>19. ChunkSum(r, k) <= x /\ ChunkSum(r, k) < Word
  <2>1. ChunkSum(r, k - 1) <= p
    BY DEF p
  <2> QED BY <1>1, <1>2, <1>18, <2>1
<1>20. Found(m2, r, k)
  <2>1. g = ChunkEntry(r, k)
    BY DEF ChunkEntry, p, lu, ld, u, d
  <2>2. mc.chunk_queue = ChunkQueue(r, k - 1) /\ mc.chunk_sum = ChunkSum(r, k - 1)
    BY <1>7 DEF Found
  <2>3. g \in Segment /\ Append(mc.chunk_queue, g) = ChunkQueue(r, k) /\ mc.chunk_queue \in Seq(Segment)
    <3> HIDE DEF g
    <3> QED BY <2>1, <2>2, ChunkQueueNext
  <2>4. g.len = ld
    OBVIOUS
  <2>5. (mc.chunk_sum + g.len) % Word = ChunkSum(r, k)
    <3>1. mc.chunk_sum + g.len = ChunkSum(r, k)
      BY <1>18, <2>2, <2>4
    <3> QED BY <1>18, <1>19, <3>1, Remainder
  <2>6. m2 \in HtmlCache
    BY <1>15 DEF ChunkState
  <2> HIDE DEF g
  <2>7. m2.status = mc.status /\ m2.chunk_queue = Append(mc.chunk_queue, g)
        /\ m2.chunk_sum = (mc.chunk_sum + g.len) % Word
    BY <1>8 DEF Queued, HtmlCache
  <2> HIDE DEF m2
  <2> QED BY <1>8, <2>3, <2>5, <2>6, <2>7 DEF Found
<1>21. Sync(r, k)
  <2>1. ChunkMid(f[x], x, f[x].mc, 0) /\ Found(f[x].mc, r, k)
    <3> HIDE DEF y, m2
    <3> QED BY <1>15, <1>17, <1>20 DEF ChunkMid
  <2> QED BY <1>4, <2>1 DEF Sync, x
<1>22. \A n \in y..x : f[n] = f[x]
  <2> HIDE DEF y
  <2> QED BY <1>16, <1>17
<1> QED BY <1>4, <1>19, <1>21, <1>22 DEF x, p, u, lu
\* The model's offsets of the pieces are these.
LEMMA BeforeIs ==
    ASSUME NEW r \in Response, NEW k \in 1..Len(r.pieces)
    PROVE  /\ Before(r, k) = PieceAt(r, k)
           /\ r.chunked => \A n \in (PieceAt(r, k) + 1)..(PieceAt(r, k) + Len(r.pieces[k].size) + 1) : n \in SizeOffsets(r)
<1>1. Len(r.pieces) \in Nat /\ DOMAIN r.pieces = 1..Len(r.pieces)
  BY PartsType
<1>2. [i \in 1..(k - 1) |-> PieceOf(r, r.pieces[i])] = [i \in 1..(k - 1) |-> Parts(r)[i]]
  <2>1. ASSUME NEW i \in 1..(k - 1) PROVE PieceOf(r, r.pieces[i]) = Parts(r)[i]
    <3>1. i \in 1..Len(r.pieces)
      BY <1>1
    <3> QED BY <3>1 DEF Parts
  <2> QED BY <2>1
<1>3. Before(r, k) = PieceAt(r, k)
  BY <1>2 DEF Before, PieceAt, Upto
<1>4. ASSUME r.chunked, NEW n \in (PieceAt(r, k) + 1)..(PieceAt(r, k) + Len(r.pieces[k].size) + 1)
      PROVE  n \in SizeOffsets(r)
  <2>1. n \in (Before(r, k) + 1)..(Before(r, k) + Len(r.pieces[k].size) + 1) /\ k \in DOMAIN r.pieces
    BY <1>1, <1>3
  <2> QED BY <1>4, <2>1, Zenon DEF SizeOffsets
<1> QED BY <1>3, <1>4

\* A call that ends behind byte n loses nothing: no digit of a size has been read
Waits(r, n) == Body(r, n).rc = "more" /\ Body(r, n).chunk_len = 0
Whole(r, k) == \A n \in Len(HeadOf(r))..PieceAt(r, k + 1) : n \notin SizeOffsets(r) => Waits(r, n)

\* Before the first piece.
LEMMA NoPiece ==
    ASSUME NEW r \in Response
    PROVE  Sync(r, 0) /\ ChunkSum(r, 0) <= PieceAt(r, 1) /\ Whole(r, 0)
<1> DEFINE e == Len(HeadOf(r))
           s == ChunkBegin(e, NewHtml)
<1>1. PieceAt(r, 1) = e /\ e \in Nat
  BY EndAt
<1>2. Body(r, e) = s /\ s \in ChunkState /\ s.pos = e /\ s.mc = NewHtml /\ s.chunk_len = 0 /\ s.rc = "more"
  BY <1>1, BodyFrom, NewHtmlType, ChunkBeginType
<1>3. ChunkSum(r, 0) = 0
  BY DataType
<1>4. ChunkQueue(r, 0) = <<>>
  BY DEF ChunkQueue
<1>5. Found(NewHtml, r, 0)
  <2>1. NewHtml.status = "LEN_DONE" /\ NewHtml.chunk_queue = <<>> /\ NewHtml.chunk_sum = 0
    BY DEF NewHtml
  <2> QED BY <1>3, <1>4, <2>1, NewHtmlType DEF Found
<1> HIDE DEF e, s
<1>6. 0 + 1 = 1
  OBVIOUS
<1>7. Sync(r, 0)
  BY <1>1, <1>2, <1>5, <1>6 DEF Sync, ChunkMid
<1>8. Whole(r, 0)
  <2>1. ASSUME NEW n \in e..e PROVE Waits(r, n)
    <3>1. n = e
      BY <1>1
    <3> QED BY <1>2, <3>1 DEF Waits
  <2> QED BY <1>1, <1>6, <2>1 DEF Whole, e
<1> QED BY <1>1, <1>3, <1>7, <1>8

\* Behind every piece the loops stand before the next one, with the pieces so far in the queue, and
\* they hold a size that is only partly read nowhere but inside size lines.
LEMMA AllPieces ==
    ASSUME NEW r \in Response, r.chunked, SizesFit(r), Len(Stream(r)) < Word
    PROVE  \A k \in 0..Len(r.pieces) : Sync(r, k) /\ ChunkSum(r, k) <= PieceAt(r, k + 1) /\ Whole(r, k)
<1> DEFINE m == Len(r.pieces)
           T == {k \in Nat : Sync(r, k) /\ ChunkSum(r, k) <= PieceAt(r, k + 1) /\ Whole(r, k)}
<1>1. m \in Nat
  BY PartsType
<1>2. 0 \in T
  <2>1. 0 + 1 = 1
    OBVIOUS
  <2> QED BY <2>1, NoPiece
<1>3. ASSUME NEW j \in 0..(m - 1), j \in T PROVE j + 1 \in T
  <2> DEFINE k == j + 1
             p == PieceAt(r, k)
             x == PieceAt(r, k + 1)
             lu == Len(r.pieces[k].size)
             e == Len(HeadOf(r))
  <2>1. k \in 1..Len(r.pieces) /\ k - 1 = j /\ k \in Nat
    BY <1>1
  <2>2. Sync(r, k - 1) /\ ChunkSum(r, k - 1) <= PieceAt(r, k) /\ Whole(r, j)
    BY <1>3, <2>1
  <2> HIDE DEF k
  <2>3. /\ Sync(r, k) /\ ChunkSum(r, k) <= x
        /\ \A n \in (p + lu + 2)..x : Body(r, n) = Body(r, x)
    BY <2>1, <2>2, PieceRun
  <2>4. Waits(r, x)
    BY <2>3 DEF Sync, ChunkMid, Waits
  <2>5. p \in Nat /\ p >= e /\ lu \in Nat /\ e \in Nat /\ x \in Nat
    <3>1. p \in Nat /\ p >= e
      BY <2>1, PartAt
    <3> DEFINE ld == Len(r.pieces[k].data)
    <3>2. lu \in Nat /\ ld \in Nat /\ x = p + lu + ld + 4
      BY <2>1, ChunkAt
    <3>3. e \in Nat
      BY EndAt
    <3> HIDE DEF p, x, lu, e, ld
    <3>4. x \in Nat
      BY <3>1, <3>2
    <3> QED BY <3>1, <3>2, <3>3, <3>4
  <2>6. \A n \in e..p : n \notin SizeOffsets(r) => Waits(r, n)
    BY <2>2 DEF Whole, k
  <2>7. \A n \in (p + 1)..(p + lu + 1) : n \in SizeOffsets(r)
    BY <2>1, BeforeIs
  <2> HIDE DEF p, x, lu, e
  <2>8. ASSUME NEW n \in e..x, n \notin SizeOffsets(r) PROVE Waits(r, n)
    <3>1. CASE n <= p
      BY <2>5, <2>6, <2>8, <3>1
    <3>2. CASE n > p /\ n < p + lu + 2
      <4>1. n \in (p + 1)..(p + lu + 1)
        BY <2>5, <3>2
      <4> QED BY <2>7, <2>8, <4>1
    <3>3. CASE n >= p + lu + 2
      <4>1. n \in (p + lu + 2)..x
        BY <2>5, <3>3
      <4>2. Body(r, n) = Body(r, x)
        BY <2>3, <4>1
      <4> QED BY <2>4, <4>2 DEF Waits
    <3> QED BY <2>5, <3>1, <3>2, <3>3
  <2>9. Whole(r, k)
    BY <2>8 DEF Whole, e, x
  <2>10. Sync(r, k) /\ ChunkSum(r, k) <= PieceAt(r, k + 1) /\ Whole(r, k)
    BY <2>3, <2>9 DEF x
  <2>11. k \in T
    BY <2>1, <2>10
  <2> QED BY <2>11 DEF k
<1>4. \A k \in 0..m : k \in T
  <2> HIDE DEF T
  <2> QED BY <1>1, <1>2, <1>3, IntervalInduction
<1> QED BY <1>4

\* A zero is a digit without value.
LEMMA DigitZero == Digit("0") = 0 /\ "0" \notin {SP, "TAB", CR, LF}
<1> DEFINE is(i) == "0" \in {Lower[i], Upper[i]}
<1>1. is(1) /\ \A i \in 1..16 : is(i) => i = 1
  <2>1. is(1)
    BY DEF Lower, Upper
  <2>2. ASSUME NEW i \in 1..16, is(i) PROVE i = 1
    <3>1. i = 1 \/ i = 2 \/ i = 3 \/ i = 4 \/ i = 5 \/ i = 6 \/ i = 7 \/ i = 8 \/ i = 9 \/ i = 10 \/ i = 11
          \/ i = 12 \/ i = 13 \/ i = 14 \/ i = 15 \/ i = 16
      OBVIOUS
    <3> QED BY <2>2, <3>1 DEF Lower, Upper
  <2> QED BY <2>1, <2>2
<1>2. (CHOOSE i \in 1..16 : is(i)) = 1 /\ \E i \in 1..16 : is(i)
  <2> HIDE DEF is
  <2> QED BY <1>1
<1>3. Digit("0") = 1 - 1
  BY <1>2 DEF Digit
<1>4. "0" \notin {SP, "TAB", CR, LF}
  BY DEF SP, CR, LF
<1> QED BY <1>3, <1>4

\* The last chunk: with its size line the body is complete.
LEMMA LastRun ==
    ASSUME NEW r \in Response, r.chunked, SizesFit(r), Len(Stream(r)) < Word
    PROVE  LET x == PieceAt(r, Len(r.pieces) + 1) IN
           /\ Len(Stream(r)) = x + 5 /\ x \in Nat
           /\ Found(Body(r, x).mc, r, Len(r.pieces))
           /\ Waits(r, x) /\ Waits(r, x + 1) /\ Waits(r, x + 2)
           /\ \A n \in Nat : n >= x + 3 => Body(r, n).rc = "done" /\ Body(r, n).mc = Body(r, x).mc
<1> DEFINE m == Len(r.pieces)
           x == PieceAt(r, m + 1)
           z == Stream(r)
           l == LastChunk(r)
           e == Len(HeadOf(r))
           s == ChunkBegin(e, NewHtml)
           f == ChunkRun(z, s)
           mc == f[x].mc
<1>1. m \in Nat
  BY PartsType
<1>2. x \in Nat /\ x >= e /\ Len(z) = x + Len(l) /\ Matches(z, x, l, 0, Len(l))
  BY EndAt
<1>3. l = <<"0", CR, LF, CR, LF>> /\ Len(l) = 5
  BY DEF LastChunk
<1>4. z[x + 1] = "0" /\ z[x + 2] = CR /\ z[x + 3] = LF
  <2>1. \A j \in 1..5 : z[x + j] = l[0 + j]
    BY <1>2, <1>3 DEF Matches
  <2>2. 1 \in 1..5 /\ 2 \in 1..5 /\ 3 \in 1..5 /\ 0 + 1 = 1 /\ 0 + 2 = 2 /\ 0 + 3 = 3
    OBVIOUS
  <2>3. z[x + 1] = l[1] /\ z[x + 2] = l[2] /\ z[x + 3] = l[3]
    BY <2>1, <2>2
  <2>4. l[1] = "0" /\ l[2] = CR /\ l[3] = LF
    BY <1>3
  <2> QED BY <2>3, <2>4
<1>5. s \in ChunkState /\ s.pos = e /\ e \in Nat
  BY BodyFrom
<1>6. \A n : Body(r, n) = f[n]
  BY DEF Body
<1>7. ChunkMid(f[x], x, mc, 0) /\ Found(mc, r, m)
  <2>1. m \in 0..m
    BY <1>1
  <2>2. Sync(r, m)
    BY <2>1, AllPieces
  <2> QED BY <1>6, <2>2 DEF Sync
<1>8. mc \in HtmlCache /\ mc.status = "LEN_DONE"
  BY <1>7 DEF Found
<1>9. Len(z) = x + 5
  BY <1>2, <1>3
<1> HIDE DEF m, x, z, l, e, s, f, mc
<1> DEFINE y == x + 1
<1>10. ChunkMid(f[y], y, mc, 0)
  <2> DEFINE t == f[x]
             w == f[x + 1]
  <2>1. t \in ChunkState /\ t.pos = x /\ t.mc = mc /\ t.chunk_len = 0 /\ t.rc = "more"
    BY <1>7 DEF ChunkMid
  <2>2. w = ChunkByte(t, "0")
    BY <1>2, <1>4, <1>5, <2>1, ChunkNext DEF f
  <2> HIDE DEF t, w
  <2>3. w \in ChunkState /\ w.pos = x + 1 /\ w.mc = mc /\ w.chunk_len = (t.chunk_len * 16 + Digit("0")) % Word
        /\ w.rc = "more"
    BY <2>1, <2>2, DigitZero, ChunkByteIs
  <2>4. (t.chunk_len * 16 + Digit("0")) % Word = 0
    <3>1. t.chunk_len * 16 + Digit("0") = 0
      BY <2>1, DigitZero
    <3>2. 0 < Word
      BY HtmlAssumption
    <3> QED BY <3>1, <3>2, Remainder
  <2> QED BY <2>3, <2>4 DEF ChunkMid, w
<1>11. y \in Nat /\ y >= s.pos /\ y + 1 = x + 2 /\ y + 2 = x + 3
  BY <1>2, <1>5
<1> HIDE DEF y
<1>12. /\ ChunkMid(f[y + 1], y + 1, In(mc, "LEN_HALF"), 0)
       /\ f[y + 2].mc = mc /\ f[y + 2].rc = "done"
  <2>1. z[y + 1] = CR /\ z[y + 2] = LF
    BY <1>4, <1>11
  <2> DEFINE o == 0
  <2>2. ChunkMid(ChunkRun(z, s)[y], y, mc, o) /\ o \in Nat /\ o = 0
    BY <1>10 DEF f
  <2> HIDE DEF o
  <2>4. s \in ChunkState /\ y \in Nat /\ y >= s.pos /\ mc \in HtmlCache /\ mc.status = "LEN_DONE"
    BY <1>5, <1>8, <1>11
  <2>5. ChunkMid(ChunkRun(z, s)[y + 1], y + 1, In(mc, "LEN_HALF"), o)
    BY <2>1, <2>2, <2>4, SizeEnd
  <2>6. ChunkEnd(ChunkRun(z, s)[y + 2], y + 2, mc)
    BY <2>1, <2>2, <2>4, SizeEnd
  <2>3. ChunkMid(ChunkRun(z, s)[y + 1], y + 1, In(mc, "LEN_HALF"), o)
        /\ ChunkRun(z, s)[y + 2].mc = mc /\ ChunkRun(z, s)[y + 2].rc = "done"
    BY <2>5, <2>6 DEF ChunkEnd
  <2> QED BY <2>2, <2>3 DEF f
<1>13. Waits(r, x) /\ Waits(r, x + 1) /\ Waits(r, x + 2)
  BY <1>6, <1>7, <1>10, <1>11, <1>12 DEF ChunkMid, Waits, y
<1>14. ASSUME NEW n \in Nat, n >= x + 3 PROVE f[n].rc = "done" /\ f[n].mc = mc
  <2>1. x + 3 \in Nat /\ x + 3 >= s.pos
    BY <1>2, <1>5
  <2>2. f[x + 3].mc = mc /\ f[x + 3].rc = "done"
    BY <1>11, <1>12
  <2>3. f[n] = f[x + 3]
    BY <1>5, <1>14, <2>1, <2>2, ChunkStays DEF f
  <2> QED BY <2>2, <2>3
<1>15. mc = Body(r, x).mc
  BY <1>6 DEF mc
<1> QED BY <1>2, <1>6, <1>7, <1>9, <1>13, <1>14, <1>15 DEF m, x, z
-----------------------------------------------------------------------------
(* The page of a response *)

\* A piece of w that has the bytes of v is v.
LEMMA WholePiece ==
    ASSUME NEW w \in Seq(Char), NEW v \in Seq(Char), NEW o \in Nat, o + Len(v) <= Len(w), Matches(w, o, v, 0, Len(v))
    PROVE  Bytes(w, [off |-> o, len |-> Len(v)]) = v
<1> DEFINE l == Len(v)
           y == Bytes(w, [off |-> o, len |-> l])
<1>1. l \in Nat
  BY Elements
<1>2. l <= Len(v) /\ o + l <= Len(w) /\ Matches(w, o, v, 0, l) /\ 0 + l = l
  BY <1>1
<1> HIDE DEF l
<1>4. y \in Seq(Char) /\ Len(y) = l /\ \A j \in 1..l : y[j] = w[o + j]
  <2> DEFINE g == [off |-> o, len |-> l]
  <2>1. g \in Segment /\ g.off = o /\ g.len = l
    BY <1>1 DEF Segment
  <2> HIDE DEF g
  <2>2. Holds(w, g)
    BY <1>2, <2>1, PieceBytes
  <2> QED BY <2>1, <2>2 DEF Holds, g
<1> HIDE DEF y
<1>5. ASSUME NEW j \in 1..Len(y) PROVE y[j] = v[j]
  <2>1. j \in 1..l /\ 0 + j = j
    BY <1>4
  <2>2. w[o + j] = v[0 + j]
    BY <1>2, <2>1 DEF Matches
  <2> QED BY <1>4, <2>1, <2>2
<1>6. Len(y) = Len(v)
  BY <1>4 DEF l
<1>7. y = v
  BY <1>4, <1>5, <1>6, SeqEqual
<1> QED BY <1>7 DEF y, l

\* The content of a response is its data, piece by piece.
LEMMA ContentIs ==
    ASSUME NEW r \in Response
    PROVE  /\ Content(r) = Upto(Datas(r), Len(r.pieces)) /\ Content(r) \in Seq(Char) /\ Len(Content(r)) \in Nat
           /\ Len(Content(r)) = ChunkSum(r, Len(r.pieces))
<1> DEFINE m == Len(r.pieces)
<1>1. m \in Nat /\ DOMAIN r.pieces = 1..m
  BY PartsType
<1>2. [i \in DOMAIN r.pieces |-> r.pieces[i].data] = [i \in 1..m |-> Datas(r)[i]]
  BY <1>1 DEF Datas
<1>3. Content(r) = Upto(Datas(r), m)
  BY <1>2 DEF Content, Upto
<1>4. Upto(Datas(r), m) \in Seq(Char)
  <2>1. m \in 0..m
    BY <1>1
  <2> QED BY <2>1, DataType
<1>5. Len(Upto(Datas(r), m)) \in Nat
  BY <1>4, Elements
<1> QED BY <1>3, <1>4, <1>5 DEF ChunkSum

\* The data of all chunks in one buffer is the content.
LEMMA CollectedContent ==
    ASSUME NEW r \in Response, r.chunked, SizesFit(r), Len(Stream(r)) < Word,
           NEW n \in Nat, n >= PieceAt(r, Len(r.pieces) + 1) + 3, n <= Len(Stream(r)),
           NEW w, w = SubSeq(Stream(r), 1, n)
    PROVE  LET t == Collected(w, Body(r, n)) IN
           t.mc.done /\ t.mc.chunks = Content(r) /\ t.mc.chunk_sum = Len(Content(r)) /\ t.rc = "done"
<1> DEFINE m == Len(r.pieces)
           x == PieceAt(r, m + 1)
           z == Stream(r)
           s == Body(r, n)
           t == Collected(w, s)
           q == ChunkQueue(r, m)
<1>1. m \in Nat /\ DOMAIN r.pieces = 1..m
  BY PartsType
<1>2. x \in Nat /\ Found(s.mc, r, m) /\ s.rc = "done" /\ s \in ChunkState
  <2>1. x \in Nat /\ Found(Body(r, x).mc, r, m) /\ s.rc = "done" /\ s.mc = Body(r, x).mc
    BY LastRun
  <2>2. s \in ChunkState
    BY BodyFrom
  <2> QED BY <2>1, <2>2
<1>3. s.mc.chunk_queue = q /\ s.mc.chunk_sum = ChunkSum(r, m)
  BY <1>2 DEF Found
<1>4. z \in Seq(Char) /\ w \in Seq(Char) /\ Len(w) = n /\ \A i \in 1..n : w[i] = z[i]
  <2>1. z \in Seq(Char)
    BY StreamIs
  <2> QED BY <2>1, Cut
<1>5. ASSUME NEW k \in 1..m PROVE Bytes(w, ChunkEntry(r, k)) = r.pieces[k].data
  <2> DEFINE u == r.pieces[k].size
             d == r.pieces[k].data
             p == PieceAt(r, k)
             x1 == PieceAt(r, k + 1)
             lu == Len(u)
             ld == Len(d)
             o == p + lu + 2
  <2>1. d \in Seq(Char) /\ lu \in Nat /\ ld \in Nat /\ x1 = p + lu + ld + 4 /\ IsChunk(z, p, u, d)
    BY ChunkAt
  <2>2. p \in Nat /\ x1 <= x
    BY PartAt
  <2>3. Matches(z, o, d, 0, ld)
    BY <2>1 DEF IsChunk
  <2>4. ChunkEntry(r, k) = [off |-> o, len |-> ld]
    BY DEF ChunkEntry
  <2>5. n >= x + 3
    OBVIOUS
  <2> HIDE DEF u, d, p, x1, lu, ld, z, x
  <2>6. o \in Nat /\ o + ld <= n
    BY <1>2, <2>1, <2>2, <2>5
  <2> HIDE DEF o
  <2>7. Matches(w, o, d, 0, ld)
    <3>1. ASSUME NEW j \in 1..ld PROVE w[o + j] = d[0 + j]
      <4>1. o + j \in 1..n
        BY <2>1, <2>6
      <4> QED BY <1>4, <2>3, <4>1 DEF Matches
    <3> QED BY <3>1 DEF Matches
  <2>8. Bytes(w, [off |-> o, len |-> ld]) = d
    <3>1. o + Len(d) <= Len(w) /\ Matches(w, o, d, 0, Len(d))
      BY <1>4, <2>6, <2>7 DEF ld
    <3>2. Bytes(w, [off |-> o, len |-> Len(d)]) = d
      BY <1>4, <2>1, <2>6, <3>1, WholePiece
    <3> QED BY <3>2 DEF ld
  <2> QED BY <2>4, <2>8 DEF d
<1>6. DOMAIN q = 1..m /\ \A k \in 1..m : q[k] = ChunkEntry(r, k)
  BY DEF ChunkQueue
<1>7. [k \in DOMAIN s.mc.chunk_queue |-> Bytes(w, s.mc.chunk_queue[k])] = [i \in DOMAIN r.pieces |-> r.pieces[i].data]
  <2> HIDE DEF m, s, q
  <2>1. \A k \in 1..m : Bytes(w, s.mc.chunk_queue[k]) = r.pieces[k].data
    BY <1>3, <1>5, <1>6
  <2>2. DOMAIN s.mc.chunk_queue = 1..m
    BY <1>3, <1>6
  <2> QED BY <1>1, <2>1, <2>2
<1>8. /\ t.mc.done /\ t.mc.chunk_sum = s.mc.chunk_sum /\ t.rc = s.rc
      /\ t.mc.chunks = FlattenSeq([k \in DOMAIN s.mc.chunk_queue |-> Bytes(w, s.mc.chunk_queue[k])])
  <2> HIDE DEF s
  <2> QED BY <1>2, CollectedIs
<1>9. t.mc.chunks = Content(r)
  <2> HIDE DEF t, s
  <2> QED BY <1>7, <1>8 DEF Content
<1>10. ChunkSum(r, m) = Len(Content(r))
  BY ContentIs
<1> QED BY <1>2, <1>3, <1>8, <1>9, <1>10

\* A body that is not chunked is the content.
LEMMA PlainBody ==
    ASSUME NEW r \in Response, ~r.chunked
    PROVE  LET e == Len(HeadOf(r))
               c == Content(r)
           IN  /\ e \in Nat /\ Len(c) \in Nat /\ Len(Stream(r)) = e + Len(c)
               /\ \A n \in Nat : n >= e + Len(c) /\ n <= Len(Stream(r)) =>
                    SubSeq(SubSeq(Stream(r), 1, n), e + 1, e + Len(c)) = c
<1> DEFINE e == Len(HeadOf(r))
           c == Content(r)
           lc == Len(c)
           m == Len(r.pieces)
           z == Stream(r)
<1>1. m \in Nat /\ r.chunked \in BOOLEAN
  BY PartsType
<1>2. Parts(r) = Datas(r) /\ LastChunk(r) = <<>>
  BY DEF Parts, Datas, PieceOf, LastChunk
<1>3. c \in Seq(Char) /\ lc \in Nat /\ c = Upto(Parts(r), m)
  BY <1>2, ContentIs
<1>4. BodyOf(r) = c
  <2>1. BodyOf(r) = c \o <<>>
    BY <1>2, <1>3, StreamIs
  <2> HIDE DEF c
  <2> QED BY <1>3, <2>1
<1>5. z \in Seq(Char) /\ Len(z) = e + lc /\ \A i \in 1..lc : z[e + i] = c[i]
  BY <1>4, StreamIs
<1>6. e \in Nat
  BY EndAt
<1> HIDE DEF e, c, lc, z
<1>7. ASSUME NEW n \in Nat, n >= e + lc, n <= Len(z) PROVE SubSeq(SubSeq(z, 1, n), e + 1, e + lc) = c
  <2> DEFINE w == SubSeq(z, 1, n)
  <2>1. w \in Seq(Char) /\ Len(w) = n /\ \A i \in 1..n : w[i] = z[i]
    BY <1>5, <1>7, Cut
  <2> HIDE DEF w
  <2>2. Matches(w, e, c, 0, lc)
    <3>1. ASSUME NEW j \in 1..lc PROVE w[e + j] = c[0 + j]
      <4>1. e + j \in 1..n /\ 0 + j = j
        BY <1>3, <1>6, <1>7
      <4> QED BY <1>5, <2>1, <4>1
    <3> QED BY <3>1 DEF Matches
  <2>3. e + Len(c) <= Len(w) /\ Matches(w, e, c, 0, Len(c))
    BY <1>3, <1>6, <1>7, <2>1, <2>2 DEF lc
  <2>4. Bytes(w, [off |-> e, len |-> Len(c)]) = c
    BY <1>3, <1>6, <2>1, <2>3, WholePiece
  <2>5. SubSeq(w, e + 1, e + Len(c)) = c
    BY <2>4 DEF Bytes
  <2> QED BY <2>5 DEF w, lc
<1> QED BY <1>3, <1>5, <1>6, <1>7 DEF e, c, lc, z

\* h is a buffer with the text of content c, and with room for the NUL behind an inflated one
Holding(h, c, gz) ==
    /\ h.text = (IF gz THEN Inflated(c) ELSE c)
    /\ IF gz THEN h.nul /\ Len(h.text) < h.end ELSE Len(h.text) = h.end

\* The page that is made of a content.
LEMMA MadeHtml ==
    ASSUME NEW mc, NEW c \in Seq(Char), mc.chunks = c, mc.chunk_sum = Len(c), NEW gz \in BOOLEAN
    PROVE  Holding(MakeHtml(mc, gz), c, gz)
<1>1. CASE ~gz
  BY <1>1 DEF MakeHtml, Holding
<1>2. CASE gz
  <2> DEFINE n == Len(c)
             s == [k \in 1..n |-> [j \in 1..Expansion |-> c[k]]]
             v == Inflated(c)
  <2>1. n \in Nat /\ DOMAIN c = 1..n /\ \A k \in 1..n : c[k] \in Char
    BY Elements
  <2>2. Expansion \in Nat /\ BASE_RANGE \in Nat \ {0}
    BY HtmlAssumption
  <2>3. s \in [1..n -> Seq(Char)]
    <3>1. ASSUME NEW k \in 1..n PROVE [j \in 1..Expansion |-> c[k]] \in Seq(Char)
      BY <2>1, <2>2
    <3> QED BY <3>1
  <2>4. v = Upto(s, n)
    <3>1. v = FlattenSeq(s)
      BY <2>1 DEF Inflated
    <3>2. s = [i \in 1..n |-> s[i]]
      OBVIOUS
    <3> HIDE DEF s
    <3> QED BY <3>1, <3>2 DEF Upto
  <2>5. v \in Seq(Char)
    <3>1. n \in 0..n
      BY <2>1
    <3> HIDE DEF s, n
    <3>2. \A k \in 0..n : Upto(s, k) \in Seq(Char)
      BY <2>1, <2>3, FlattenUpto
    <3>3. Upto(s, n) \in Seq(Char)
      BY <3>1, <3>2
    <3> QED BY <2>4, <3>3
  <2>6. Len(v) \in Nat
    BY <2>5, Elements
  <2>7. MakeHtml(mc, gz) = [text |-> v, end |-> Grown(BASE_RANGE, Len(v)), nul |-> TRUE]
    BY <1>2 DEF MakeHtml
  <2>8. Grown(BASE_RANGE, Len(v)) \in Nat /\ Grown(BASE_RANGE, Len(v)) > Len(v)
    BY <2>2, <2>6, GrownHolds
  <2> HIDE DEF v
  <2> DEFINE g == Grown(BASE_RANGE, Len(v))
             h == MakeHtml(mc, gz)
  <2>9. Len(v) < g
    BY <2>6, <2>8
  <2> HIDE DEF g
  <2>10. h.text = v /\ h.end = g /\ h.nul
    BY <2>7 DEF g
  <2> HIDE DEF h
  <2>11. Holding(h, c, gz)
    BY <1>2, <2>9, <2>10 DEF Holding, v
  <2> QED BY <2>11 DEF h
<1> QED BY <1>1, <1>2
\* A call for a chunked body that is taken up behind n0 bytes and has n: it goes on to wait, in the
\* state of one call on all n bytes, or the body is complete.
LEMMA ChunkedCall ==
    ASSUME NEW r \in Response, r.chunked, SizesFit(r), Len(Stream(r)) < Word,
           NEW n0 \in Nat, NEW n \in Nat, Len(HeadOf(r)) <= n0, n0 <= n, n <= Len(Stream(r)), n \notin SizeOffsets(r),
           NEW p \in Nat, NEW mc \in HtmlCache, ChunkBegin(p, mc) = Body(r, n0),
           NEW hc \in HeadCache, hc.chunk_flag, NEW w, w = SubSeq(Stream(r), 1, n)
    PROVE  LET m == http_parse_html(w, p, mc, hc) IN
           \/ /\ Waits(r, n) /\ m.mc = Body(r, n).mc /\ m.pos = Body(r, n).pos /\ m.rc = "more" /\ m.mc.done = FALSE
           \/ /\ m.mc.done /\ (m.rc # "error" => Holding(m.mc.html, Content(r), hc.gzip_flag))
<1> DEFINE m == http_parse_html(w, p, mc, hc)
           z == Stream(r)
           np == Len(r.pieces)
           x == PieceAt(r, np + 1)
           e == Len(HeadOf(r))
           s == Body(r, n)
           t == Collected(w, s)
           g == hc.gzip_flag
<1>1. z \in Seq(Char) /\ w \in Seq(Char) /\ Len(w) = n /\ \A i \in 1..n : w[i] = z[i]
  <2>1. z \in Seq(Char)
    BY StreamIs
  <2> QED BY <2>1, Cut
<1>2. ChunkRun(w, ChunkBegin(p, mc))[Len(w)] = s
  <2> DEFINE s0 == ChunkBegin(e, NewHtml)
             s1 == ChunkBegin(p, mc)
  <2>1. s0 \in ChunkState /\ s0.pos = e /\ e \in Nat
    BY BodyFrom
  <2>2. s1 = ChunkRun(z, s0)[n0] /\ s = ChunkRun(z, s0)[n]
    BY DEF Body
  <2>3. s1 \in ChunkState
    BY ChunkBeginType
  <2> HIDE DEF s0, s1, s, z, e
  <2>4. ChunkRun(z, s1)[n] = ChunkRun(z, s0)[n]
    BY <2>1, <2>2, ChunkJoins DEF e
  <2>5. ChunkRun(w, s1)[n] = ChunkRun(z, s1)[n]
    <3>1. Agree(w, z, n)
      BY <1>1 DEF Agree
    <3>2. \A i \in 0..n : ChunkRun(w, s1)[i] = ChunkRun(z, s1)[i]
      BY <2>3, <3>1, ChunkPrefix
    <3>3. n \in 0..n
      OBVIOUS
    <3> QED BY <3>2, <3>3
  <2> QED BY <1>1, <2>2, <2>4, <2>5 DEF s1
<1>3. m = Paged(t, g)
  <2>1. ParseChunks(w, p, mc) = Collected(w, ChunkRun(w, ChunkBegin(p, mc))[Len(w)])
    BY DEF ParseChunks, ChunkBegin
  <2>2. ParseChunks(w, p, mc) = t
    BY <1>2, <2>1
  <2> QED BY <2>2 DEF http_parse_html
<1>4. s \in ChunkState /\ s.mc.done = FALSE /\ s.pos \in Nat
  <2>1. s \in ChunkState
    BY BodyFrom
  <2> HIDE DEF s
  <2> QED BY <2>1 DEF ChunkState, HtmlCache
<1>5. g \in BOOLEAN
  BY DEF HeadCache
<1>6. np \in Nat /\ e \in Nat
  BY PartsType, EndAt
<1>7. x \in Nat /\ Waits(r, x + 1) /\ Waits(r, x + 2)
  BY LastRun
<1>8. PICK D : t \in BodyRecord(D, {NULL_BUF})
  <2> HIDE DEF s
  <2> QED BY <1>4, CollectedIs
<1>9. /\ t.rc = "error" \/ ~t.mc.done => Paged(t, g) = t
      /\ t.rc # "error" /\ t.mc.done /\ g /\ ~Compressed(t.mc.chunks) => Paged(t, g).mc = t.mc /\ Paged(t, g).rc = "error"
      /\ t.rc # "error" /\ t.mc.done /\ (g => Compressed(t.mc.chunks)) =>
           Paged(t, g).mc.html = MakeHtml(t.mc, g) /\ Paged(t, g).rc = t.rc /\ Paged(t, g).mc.done
  <2> HIDE DEF t, g
  <2> QED BY <1>5, <1>8, PagedIs
<1>10. CASE n < x + 3
  <2>1. Waits(r, n)
    <3>1. CASE n <= x
      <4>1. np \in 0..np
        BY <1>6
      <4>2. Whole(r, np)
        BY <4>1, AllPieces
      <4>3. n \in e..x
        BY <1>6, <1>7, <3>1
      <4> QED BY <4>2, <4>3 DEF Whole
    <3>2. CASE n > x
      <4> HIDE DEF x
      <4>1. n = x + 1 \/ n = x + 2
        BY <1>7, <1>10, <3>2
      <4> QED BY <1>7, <4>1
    <3> HIDE DEF x
    <3> QED BY <1>7, <3>1, <3>2
  <2>2. s.rc = "more"
    BY <2>1 DEF Waits
  <2>3. t = s
    <3> HIDE DEF s
    <3> QED BY <1>4, <2>2, CollectedIs
  <2>4. m = s
    <3> HIDE DEF s, t, g
    <3> QED BY <1>3, <1>4, <1>9, <2>3
  <2>5. Waits(r, n) /\ m.mc = s.mc /\ m.pos = s.pos /\ m.rc = "more" /\ m.mc.done = FALSE
    <3> HIDE DEF m, s
    <3> QED BY <1>4, <2>1, <2>2, <2>4
  <2> QED BY <2>5, Zenon
<1>11. CASE n >= x + 3
  <2>1. t.mc.done /\ t.mc.chunks = Content(r) /\ t.mc.chunk_sum = Len(Content(r)) /\ t.rc = "done"
    BY <1>11, CollectedContent
  <2>2. Content(r) \in Seq(Char)
    BY ContentIs
  <2>3. Holding(MakeHtml(t.mc, g), Content(r), g)
    <3> HIDE DEF t, g
    <3> QED BY <1>5, <2>1, <2>2, MadeHtml
  <2>4. m.mc.done /\ (m.rc # "error" => Holding(m.mc.html, Content(r), g))
    <3> HIDE DEF t, g, m
    <3>1. CASE g /\ ~Compressed(t.mc.chunks)
      BY <1>3, <1>9, <2>1, <3>1
    <3>2. CASE g => Compressed(t.mc.chunks)
      BY <1>3, <1>9, <2>1, <2>3, <3>2
    <3> QED BY <1>5, <3>1, <3>2
  <2> QED BY <2>4
<1> HIDE DEF x
<1>12. n < x + 3 \/ n >= x + 3
  BY <1>7
<1> QED BY <1>10, <1>11, <1>12, Zenon

\* A call for a body that is not chunked.
LEMMA PlainCall ==
    ASSUME NEW r \in Response, ~r.chunked, NEW n \in Nat, n <= Len(Stream(r)),
           NEW hc \in HeadCache, ~hc.chunk_flag, hc.content_len = 0 \/ hc.content_len = Len(Content(r)),
           NEW w, w = SubSeq(Stream(r), 1, n)
    PROVE  LET m == http_parse_html(w, Len(HeadOf(r)), NewHtml, hc)
               here == hc.content_len # 0 /\ n >= Len(HeadOf(r)) + hc.content_len
           IN  /\ here => m.mc.done /\ (m.rc # "error" => Holding(m.mc.html, Content(r), hc.gzip_flag))
               /\ ~here => m.mc = NewHtml /\ m.pos = Len(HeadOf(r)) /\ m.rc = "more" /\ m.mc.done = FALSE
<1> DEFINE e == Len(HeadOf(r))
           m == http_parse_html(w, e, NewHtml, hc)
           l == hc.content_len
           g == hc.gzip_flag
           c == Content(r)
           here == l # 0 /\ n >= e + l
           t == ParseLength(w, e, NewHtml, l)
           v == SubSeq(w, e + 1, e + l)
           mm == [NewHtml EXCEPT !.done = TRUE, !.chunk_sum = l, !.chunks = v]
<1>1. e \in Nat /\ Len(c) \in Nat /\ Len(Stream(r)) = e + Len(c)
      /\ \A i \in Nat : i >= e + Len(c) /\ i <= Len(Stream(r)) => SubSeq(SubSeq(Stream(r), 1, i), e + 1, e + Len(c)) = c
  BY PlainBody
<1>2. c \in Seq(Char)
  BY ContentIs
<1>3. Len(w) = n
  <2>1. Stream(r) \in Seq(Char)
    BY StreamIs
  <2> QED BY <2>1, Cut
<1>4. g \in BOOLEAN /\ l \in Nat
  BY DEF HeadCache
<1>5. m = Paged(t, g)
  BY DEF http_parse_html
<1>6. t = [mc |-> IF here THEN mm ELSE NewHtml, pos |-> e, chunk_len |-> 0, rc |-> "more"]
  BY <1>3 DEF ParseLength
<1>7. mm \in HtmlRecord({v, <<>>}, {NULL_BUF}) /\ mm.done /\ mm.chunk_sum = l /\ mm.chunks = v
  <2> HIDE DEF v, l
  <2>1. NewHtml \in HtmlCache
    BY NewHtmlType
  <2> QED BY <1>4, <2>1 DEF HtmlCache, HtmlRecord
<1>8. NewHtml \in HtmlRecord({v, <<>>}, {NULL_BUF}) /\ NewHtml.done = FALSE
  BY NewHtmlType DEF HtmlCache, HtmlRecord
<1>9. here => v = c /\ l = Len(c)
  <2>1. ASSUME here PROVE v = c /\ l = Len(c)
    <3>1. l = Len(c)
      BY <2>1
    <3>2. n >= e + Len(c)
      BY <2>1, <3>1
    <3>3. SubSeq(w, e + 1, e + Len(c)) = c
      BY <1>1, <3>2
    <3> QED BY <3>1, <3>3
  <2> QED BY <2>1
<1> HIDE DEF e, m, l, g, c, t, v, mm, here
<1>10. /\ t \in BodyRecord({v, <<>>}, {NULL_BUF}) /\ t.rc = "more" /\ t.pos = e
       /\ t.mc = IF here THEN mm ELSE NewHtml
  <2>1. "more" \in ChunkResult
    BY DEF ChunkResult
  <2>2. (IF here THEN mm ELSE NewHtml) \in HtmlRecord({v, <<>>}, {NULL_BUF})
    BY <1>7, <1>8
  <2> DEFINE h == IF here THEN mm ELSE NewHtml
  <2> HIDE DEF h
  <2>3. t = [mc |-> h, pos |-> e, chunk_len |-> 0, rc |-> "more"]
    BY <1>6 DEF h
  <2>4. h \in HtmlRecord({v, <<>>}, {NULL_BUF})
    BY <2>2 DEF h
  <2>5. t \in BodyRecord({v, <<>>}, {NULL_BUF}) /\ t.rc = "more" /\ t.pos = e /\ t.mc = h
    BY <1>1, <2>1, <2>3, <2>4 DEF BodyRecord
  <2> QED BY <2>5 DEF h
<1>11. /\ t.rc = "error" \/ ~t.mc.done => Paged(t, g) = t
       /\ t.rc # "error" /\ t.mc.done /\ g /\ ~Compressed(t.mc.chunks) => Paged(t, g).mc = t.mc /\ Paged(t, g).rc = "error"
       /\ t.rc # "error" /\ t.mc.done /\ (g => Compressed(t.mc.chunks)) =>
            Paged(t, g).mc.html = MakeHtml(t.mc, g) /\ Paged(t, g).rc = t.rc /\ Paged(t, g).mc.done
  BY <1>4, <1>10, PagedIs
<1>12. ASSUME ~here PROVE m.mc = NewHtml /\ m.pos = e /\ m.rc = "more" /\ m.mc.done = FALSE
  <2>1. t.mc = NewHtml /\ m = t
    BY <1>5, <1>8, <1>10, <1>11, <1>12
  <2> QED BY <1>8, <1>10, <2>1
<1>13. ASSUME here PROVE m.mc.done /\ (m.rc # "error" => Holding(m.mc.html, c, g))
  <2>1. t.mc = mm /\ t.mc.done /\ t.mc.chunks = c /\ t.mc.chunk_sum = Len(c)
    BY <1>7, <1>9, <1>10, <1>13
  <2>2. Holding(MakeHtml(t.mc, g), c, g)
    BY <1>2, <1>4, <2>1, MadeHtml
  <2>3. CASE g /\ ~Compressed(t.mc.chunks)
    BY <1>5, <1>10, <1>11, <2>1, <2>3
  <2>4. CASE g => Compressed(t.mc.chunks)
    BY <1>5, <1>10, <1>11, <2>1, <2>2, <2>4
  <2> QED BY <1>4, <2>3, <2>4
<1> QED BY <1>12, <1>13 DEF e, m, l, g, c, here
\* While the body is read: the decoder is where one call on all the bytes would be, unless a read ended
\* inside a size line; a body of known length is untouched until all of it is there.
Decoding ==
    outcome = "reading" /\ status = "HTTP_HEAD_DONE" =>
        /\ sent.chunked /\ ~split =>
             Waits(sent, Len(b)) /\ pos = Body(sent, Len(b)).pos /\ html = Body(sent, Len(b)).mc
        /\ ~sent.chunked =>
             /\ pos = Len(HeadOf(sent)) /\ html = NewHtml
             /\ ~(head.content_len # 0 /\ Len(b) >= Len(HeadOf(sent)) + head.content_len)

\* Behind the last byte: the page is made of the content.
Decoded ==
    outcome = "parsed" /\ ~split =>
        /\ Holding(html.html, Content(sent), head.gzip_flag)
        /\ head.gzip_flag <=> HasField(sent, "Content-Encoding", <<"gzip">>)

\* The loops begin a call where they left the last one, when no size was partly read.
LEMMA Taken ==
    ASSUME NEW s \in ChunkState, s.rc = "more", s.chunk_len = 0
    PROVE  ChunkBegin(s.pos, s.mc) = s /\ s.pos \in Nat /\ s.mc \in HtmlCache
BY DEF ChunkState, ChunkBegin

\* A read keeps both.
LEMMA ReadDecodes ==
    ASSUME Inv, Decoding, NEW k \in Nat, NEW eof \in BOOLEAN, http_read_event_process(k, eof)
    PROVE  Decoding' /\ Decoded'
<1> DEFINE z == Stream(sent)
           n == Len(b)
           m == n + k
           w == SubSeq(z, 1, m)
           o == At(z, n)
           a == At(z, m)
           r == http_process_response(w)
           q == IF status = "HTTP_REQ_DONE" THEN a.pos ELSE pos
           p == http_parse_html(w, q, html, a.hc)
           e == Len(HeadOf(sent))
           g == a.hc.gzip_flag
           c == Content(sent)
<1>1. /\ outcome = "reading" /\ m <= Len(z) /\ b' = w /\ sent' = sent
      /\ split' = (split \/ m \in SizeOffsets(sent)) /\ Respond(r, eof)
  <2>1. b' = w /\ Respond(http_process_response(b'), eof)
    BY DEF http_read_event_process
  <2>2. Respond(r, eof)
    BY <2>1
  <2> QED BY <2>1, <2>2 DEF http_read_event_process
<1>2. /\ n \in Nat /\ m \in Nat /\ n <= m /\ z \in Seq(Char) /\ sent \in Responses /\ sent \in Response
      /\ HeadFits(sent) /\ (sent.chunked => SizesFit(sent)) /\ Len(z) < Word /\ pos \in Nat /\ html \in HtmlCache
      /\ split \in BOOLEAN /\ head = o.hc /\ sent.chunked \in BOOLEAN
  BY <1>1, SentType, PartsType DEF Inv, Reading
<1>3. /\ pos >= o.pos
      /\ \/ o.rc = "more" /\ status = "HTTP_REQ_DONE" /\ html = NewHtml
         \/ o.rc = "parsed" /\ status = "HTTP_HEAD_DONE"
         \/ o.rc = "parsed" /\ status = "HTTP_REQ_DONE"
  BY <1>1 DEF Inv, Reading
<1>4. Len(w) = m
  BY <1>1, <1>2, Cut
<1>5. /\ r.hc = a.hc
      /\ a.rc # "parsed" => /\ r.mc = html /\ r.pos = a.pos /\ (r.failed <=> a.rc = "error")
                            /\ r.status \in {"HTTP_REQ_DONE", "HTTP_HEAD_DONE"}
                            /\ a.rc = "more" => r.status = "HTTP_REQ_DONE"
      /\ a.rc = "parsed" /\ (o.rc = "more" \/ status = "HTTP_HEAD_DONE") =>
           /\ r.mc = p.mc /\ r.pos = p.pos /\ (r.failed <=> p.rc = "error")
           /\ r.status = IF p.mc.done /\ p.rc # "error" THEN "HTTP_HTML_DONE" ELSE "HTTP_HEAD_DONE"
      /\ o.rc = "parsed" => a = o
      /\ o.rc = "parsed" /\ status = "HTTP_REQ_DONE" =>
           r.mc = html /\ r.pos \in Nat /\ r.pos >= pos /\ r.status = "HTTP_REQ_DONE"
  BY <1>1, <1>2, ResponseCall
<1>6. a.hc \in HeadCache /\ a.rc \in Returned
  BY <1>2, AtType
<1>7. /\ e \in Nat /\ (a.rc = "parsed" => m >= e /\ a.pos = e)
      /\ (o.rc = "parsed" => n >= e)
      /\ (a.rc = "parsed" => /\ a.hc.chunk_flag <=> sent.chunked
                             /\ g <=> HasField(sent, "Content-Encoding", <<"gzip">>)
                             /\ a.hc.content_len = 0 \/ a.hc.content_len = Len(c))
  <2> DEFINE h == At(z, e)
  <2>1. e \in Nat /\ (m >= e => a = h /\ a.pos = e) /\ (m < e => a.rc = "more")
    BY <1>2, DoneWhen
  <2>2. n < e => o.rc = "more"
    BY <1>2, DoneWhen
  <2>3. h.rc = "parsed" => /\ h.hc.chunk_flag <=> sent.chunked
                           /\ h.hc.gzip_flag <=> HasField(sent, "Content-Encoding", <<"gzip">>)
                           /\ h.hc.content_len = 0 \/ h.hc.content_len = Len(c)
    BY <1>2, HeadSays
  <2>4. m >= e \/ m < e
    BY <1>2, <2>1
  <2>5. n >= e \/ n < e
    BY <1>2, <2>1
  <2> HIDE DEF a, h, o, m, n, e, c
  <2>6. a.rc = "parsed" => m >= e /\ a.pos = e /\ a = h
    BY <2>1, <2>4
  <2>7. o.rc = "parsed" => n >= e
    BY <2>2, <2>5
  <2> QED BY <2>1, <2>3, <2>6, <2>7
<1>8. /\ pos' = r.pos /\ head' = r.hc /\ html' = r.mc /\ status' = r.status
      /\ outcome' = IF ~r.failed /\ r.status = "HTTP_HTML_DONE" THEN "parsed"
                    ELSE IF r.failed \/ eof THEN "failed" ELSE "reading"
  BY <1>1 DEF Respond
<1>9. Len(b') = m
  BY <1>1, <1>4
<1> HIDE DEF r, p, q
<1>10. CASE a.rc # "parsed"
  <2>1. r.status \in {"HTTP_REQ_DONE", "HTTP_HEAD_DONE"} /\ (r.failed \/ r.status = "HTTP_REQ_DONE")
    <3>1. a.rc = "more" \/ a.rc = "error"
      BY <1>6, <1>10 DEF Returned
    <3> QED BY <1>5, <1>10, <3>1
  <2>2. outcome' # "parsed" /\ ~(outcome' = "reading" /\ status' = "HTTP_HEAD_DONE")
    BY <1>8, <2>1
  <2> QED BY <2>2 DEF Decoding, Decoded
<1>11. CASE o.rc = "parsed" /\ status = "HTTP_REQ_DONE"
  <2>1. r.status = "HTTP_REQ_DONE"
    BY <1>5, <1>11
  <2>2. outcome' # "parsed" /\ status' # "HTTP_HEAD_DONE"
    BY <1>8, <2>1
  <2> QED BY <2>2 DEF Decoding, Decoded
<1>12. CASE a.rc = "parsed" /\ (o.rc = "more" \/ status = "HTTP_HEAD_DONE")
  <2>1. /\ r.mc = p.mc /\ r.pos = p.pos /\ (r.failed <=> p.rc = "error")
        /\ r.status = IF p.mc.done /\ p.rc # "error" THEN "HTTP_HTML_DONE" ELSE "HTTP_HEAD_DONE"
    BY <1>5, <1>12
  <2>2. m >= e /\ a.pos = e /\ (a.hc.chunk_flag <=> sent.chunked)
        /\ (g <=> HasField(sent, "Content-Encoding", <<"gzip">>))
        /\ (a.hc.content_len = 0 \/ a.hc.content_len = Len(c))
    BY <1>7, <1>12
  <2>3. /\ o.rc = "more" => status = "HTTP_REQ_DONE" /\ html = NewHtml
        /\ o.rc # "more" => status = "HTTP_HEAD_DONE" /\ n >= e /\ a = o
    BY <1>3, <1>5, <1>7, <1>12
  <2>4. head' = a.hc
    BY <1>5, <1>8
  <2>5. CASE sent.chunked /\ ~split'
    <3> DEFINE n0 == IF o.rc = "more" THEN e ELSE n
    <3>1. n0 \in Nat /\ e <= n0 /\ n0 <= m /\ m \notin SizeOffsets(sent) /\ ~split
      <4> HIDE DEF m, o, e, n
      <4>1. m \notin SizeOffsets(sent) /\ ~split
        BY <1>1, <2>5
      <4>2. CASE o.rc = "more"
        BY <1>2, <1>7, <2>2, <4>1, <4>2
      <4>3. CASE o.rc # "more"
        BY <1>2, <1>7, <2>3, <4>1, <4>3
      <4> QED BY <4>2, <4>3
    <3>2. q \in Nat /\ ChunkBegin(q, html) = Body(sent, n0)
      <4>1. CASE o.rc = "more"
        <5>1. q = e /\ html = NewHtml /\ n0 = e
          BY <2>2, <2>3, <4>1 DEF q
        <5>2. Body(sent, e) = ChunkBegin(e, NewHtml)
          BY <1>2, BodyFrom
        <5> QED BY <1>7, <5>1, <5>2
      <4>2. CASE o.rc # "more"
        <5> DEFINE s == Body(sent, n)
        <5>1. q = pos /\ n0 = n
          BY <2>3, <4>2 DEF q
        <5>2. s.rc = "more" /\ s.chunk_len = 0 /\ pos = s.pos /\ html = s.mc
          BY <1>1, <2>3, <2>5, <3>1, <4>2 DEF Decoding, Waits
        <5>3. s \in ChunkState
          BY <1>2, BodyFrom
        <5> HIDE DEF s
        <5>4. ChunkBegin(s.pos, s.mc) = s
          BY <5>2, <5>3, Taken
        <5> QED BY <1>2, <5>1, <5>2, <5>4 DEF s
      <4> QED BY <4>1, <4>2
    <3>3. a.hc.chunk_flag /\ SizesFit(sent)
      BY <1>2, <2>2, <2>5
    <3> HIDE DEF n0, a, m
    <3>4. \/ /\ Waits(sent, m) /\ p.mc = Body(sent, m).mc /\ p.pos = Body(sent, m).pos /\ p.rc = "more"
             /\ p.mc.done = FALSE
          \/ /\ p.mc.done /\ (p.rc # "error" => Holding(p.mc.html, c, g))
      BY <1>1, <1>2, <1>6, <2>5, <3>1, <3>2, <3>3, ChunkedCall DEF p
    <3>5. Decoding'
      <4>1. ASSUME outcome' = "reading", status' = "HTTP_HEAD_DONE"
            PROVE  Waits(sent, m) /\ pos' = Body(sent, m).pos /\ html' = Body(sent, m).mc
        <5>1. ~(p.mc.done /\ p.rc # "error") /\ p.rc # "error"
          BY <1>8, <2>1, <4>1
        <5> QED BY <1>8, <2>1, <3>4, <5>1
      <4> QED BY <1>1, <1>9, <2>5, <4>1 DEF Decoding
    <3>6. Decoded'
      <4>1. ASSUME outcome' = "parsed" PROVE Holding(html'.html, c, g)
        <5>1. p.mc.done /\ p.rc # "error"
          BY <1>8, <2>1, <4>1
        <5> QED BY <1>8, <2>1, <3>4, <5>1
      <4> QED BY <1>1, <2>2, <2>4, <4>1 DEF Decoded
    <3> QED BY <3>5, <3>6
  <2>6. CASE ~sent.chunked
    <3> DEFINE here == a.hc.content_len # 0 /\ m >= e + a.hc.content_len
    <3>1. q = e /\ html = NewHtml
      <4>1. CASE o.rc = "more"
        BY <2>2, <2>3, <4>1 DEF q
      <4>2. CASE o.rc # "more"
        BY <1>1, <2>3, <2>6, <4>2 DEF q, Decoding
      <4> QED BY <4>1, <4>2
    <3>2. ~a.hc.chunk_flag
      BY <2>2, <2>6
    <3>3. /\ here => p.mc.done /\ (p.rc # "error" => Holding(p.mc.html, c, g))
          /\ ~here => p.mc = NewHtml /\ p.pos = e /\ p.rc = "more" /\ p.mc.done = FALSE
      <4>1. p = http_parse_html(w, e, NewHtml, a.hc)
        BY <3>1 DEF p
      <4> HIDE DEF a, m, p
      <4> QED BY <1>1, <1>2, <1>6, <2>2, <2>6, <3>2, <4>1, PlainCall
    <3> HIDE DEF here
    <3>4. Decoding'
      <4>1. ASSUME outcome' = "reading", status' = "HTTP_HEAD_DONE"
            PROVE  pos' = e /\ html' = NewHtml /\ ~here
        <5>1. ~(p.mc.done /\ p.rc # "error") /\ p.rc # "error"
          BY <1>8, <2>1, <4>1
        <5> QED BY <1>8, <2>1, <3>3, <5>1
      <4> QED BY <1>1, <1>9, <2>4, <2>6, <4>1 DEF Decoding, here
    <3>5. Decoded'
      <4>1. ASSUME outcome' = "parsed" PROVE Holding(html'.html, c, g)
        <5>1. p.mc.done /\ p.rc # "error"
          BY <1>8, <2>1, <4>1
        <5> QED BY <1>8, <2>1, <3>3, <5>1
      <4> QED BY <1>1, <2>2, <2>4, <4>1 DEF Decoded
    <3> QED BY <3>4, <3>5
  <2>7. CASE sent.chunked /\ split'
    BY <1>1, <2>7 DEF Decoding, Decoded
  <2>8. split' \in BOOLEAN
    BY <1>1, <1>2
  <2> QED BY <1>2, <2>5, <2>6, <2>7, <2>8
<1> QED BY <1>3, <1>10, <1>11, <1>12
\* Both hold in every state.
LEMMA BodyInvariant == Spec => [](Inv /\ Decoding /\ Decoded)
<1>1. Init => Decoding /\ Decoded
  BY DEF Init, Decoding, Decoded
<1>2. Inv /\ Decoding /\ Decoded /\ [Next]_vars => Decoding' /\ Decoded'
  <2> SUFFICES ASSUME Inv, Decoding, Decoded, [Next]_vars PROVE Decoding' /\ Decoded'
    OBVIOUS
  <2>1. CASE \E n \in 0..(Len(Stream(sent)) - Len(b)), eof \in BOOLEAN : http_read_event_process(n, eof)
    <3>1. PICK n \in 0..(Len(Stream(sent)) - Len(b)), eof \in BOOLEAN : http_read_event_process(n, eof)
      BY <2>1
    <3>2. n \in Nat
      OBVIOUS
    <3> QED BY <3>1, <3>2, ReadDecodes
  <2>2. CASE ReadFails
    BY <2>2 DEF ReadFails, Decoding, Decoded
  <2>3. CASE Renegotiated
    BY <2>3 DEF Renegotiated, Decoding, Decoded
  <2>4. CASE UNCHANGED vars
    BY <2>4 DEF vars, Decoding, Decoded
  <2> QED BY <2>1, <2>2, <2>3, <2>4 DEF Next
<1> QED BY <1>1, <1>2, Invariant, PTL DEF Spec

\* PageExact: the bytes of the page in mc->html are those the server sent, whatever the response and wherever
\* the reads cut it outside size lines (http_parse_html, http_read_event_process).
THEOREM PageIsExact == Spec => []PageExact
<1>1. Decoded => PageExact
  BY DEF Decoded, PageExact, Holding, Page
<1> QED BY <1>1, BodyInvariant, PTL

\* BuffersHold: the receive buffer has room for the next recv, an inflated page for its NUL, and a plain
\* page fills its buffer (resize_temp_buf, inflate_gzip, http_parse_html).
THEOREM BuffersSuffice == Spec => []BuffersHold
<1>1. Inv /\ Decoded => BuffersHold
  BY Types DEF Decoded, BuffersHold, Holding
<1> QED BY <1>1, BodyInvariant, PTL

\* CompleteIsParsed: no client waits for more bytes of a page that has arrived completely, unless the
\* response names no length (http_parse_html).
THEOREM CompletePageIsParsed == Spec => []CompleteIsParsed
<1>1. Inv /\ Decoding => CompleteIsParsed
  <2> SUFFICES ASSUME Inv, Decoding, outcome = "reading", Len(b) = Len(Stream(sent)), ~split, ~reset,
                      sent.code = "200"
               PROVE  ~sent.chunked /\ head.content_len = 0
    BY DEF CompleteIsParsed
  <2> DEFINE r == sent
             z == Stream(r)
             n == Len(b)
             a == At(z, n)
             e == Len(HeadOf(r))
             lc == Len(Content(r))
  <2>1. /\ r \in Response /\ HeadFits(r) /\ (r.chunked => SizesFit(r)) /\ Len(z) < Word /\ n \in Nat /\ n = Len(z)
        /\ head = a.hc /\ r.chunked \in BOOLEAN
    BY SentType, PartsType DEF Inv
  <2>2. /\ \/ a.rc = "more"
           \/ a.rc = "parsed" /\ status = "HTTP_HEAD_DONE"
           \/ a.rc = "parsed" /\ status = "HTTP_REQ_DONE" /\ reset
    BY DEF Inv, Reading
  <2>3. e \in Nat /\ n >= e
    <3>1. e \in Nat /\ PieceAt(r, Len(r.pieces) + 1) \in Nat /\ PieceAt(r, Len(r.pieces) + 1) >= e
          /\ Len(z) = PieceAt(r, Len(r.pieces) + 1) + Len(LastChunk(r)) /\ Len(LastChunk(r)) \in Nat
      BY <2>1, EndAt
    <3> DEFINE x == PieceAt(r, Len(r.pieces) + 1)
               l == Len(LastChunk(r))
               lz == Len(z)
    <3>2. n = lz
      BY <2>1
    <3> HIDE DEF x, l, lz, e, n
    <3> QED BY <3>1, <3>2 DEF x, l, lz
  <2>4. a.rc = "parsed" /\ (a.hc.content_len = 0 \/ a.hc.content_len = lc)
    <3>1. a = At(z, e)
      BY <2>1, <2>3, DoneWhen
    <3>2. At(z, e).rc = "parsed" /\ (At(z, e).hc.content_len = 0 \/ At(z, e).hc.content_len = lc)
      BY <2>1, HeadSays
    <3> QED BY <3>1, <3>2
  <2>5. status = "HTTP_HEAD_DONE"
    BY <2>2, <2>4
  <2>6. CASE r.chunked
    <3>1. Body(r, n).rc = "more"
      BY <2>5, <2>6 DEF Decoding, Waits
    <3>2. Body(r, n).rc = "done"
      <4> DEFINE x == PieceAt(r, Len(r.pieces) + 1)
      <4>1. Len(z) = x + 5 /\ x \in Nat /\ \A i \in Nat : i >= x + 3 => Body(r, i).rc = "done"
        BY <2>1, <2>6, LastRun
      <4> HIDE DEF x
      <4> QED BY <2>1, <4>1
    <3> QED BY <3>1, <3>2
  <2>7. CASE ~r.chunked
    <3>1. ~(head.content_len # 0 /\ n >= e + head.content_len)
      BY <2>5, <2>7 DEF Decoding
    <3>2. lc \in Nat /\ Len(z) = e + lc
      BY <2>1, <2>7, PlainBody
    <3>3. head.content_len = 0
      <4> HIDE DEF lc, e, n, a
      <4> QED BY <2>1, <2>3, <2>4, <3>1, <3>2
    <3> QED BY <2>7, <3>3
  <2> QED BY <2>1, <2>6, <2>7
<1> QED BY <1>1, BodyInvariant, PTL
===============================================================================
