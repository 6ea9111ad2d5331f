----------------------------- MODULE HistoryProofs -----------------------------
(***************************************************************************)
(* Proofs about module History, for every capacity, every set of samples   *)
(* and every set of autoscalers:                                           *)
(*   - the rings stay rings, and never expose a cell that was not written; *)
(*   - the prefix of one autoscaler starts the keys of that autoscaler and *)
(*     of no other;                                                        *)
(*   - the store implements the log of the last Capacity samples.          *)
(***************************************************************************)
EXTENDS History, SequenceTheorems, TLAPS

LEMMA CapacityPositive == Capacity \in Nat \ {0}
BY DefaultCapacityAssumption, RequestedCapacityAssumption DEF Capacity

-------------------------------------------------------------------------------
(* Keys *)

LEMMA OneToken ==
  ASSUME NEW t \in Tokens
  PROVE  <<t>> \in Seq(Tokens) /\ Len(<<t>>) = 1 /\ <<t>>[1] = t
OBVIOUS

LEMMA ConcatTokens ==
  ASSUME NEW s \in Seq(Tokens), NEW t \in Seq(Tokens)
  PROVE  /\ s \o t \in Seq(Tokens)
         /\ Len(s) \in Nat /\ Len(t) \in Nat
         /\ Len(s \o t) = Len(s) + Len(t)
         /\ \A i \in 1 .. Len(s) : (s \o t)[i] = s[i]
         /\ \A i \in 1 .. Len(t) : (s \o t)[Len(s) + i] = t[i]
<1>1. Len(s) \in Nat /\ Len(t) \in Nat
  BY LenProperties
<1>2. /\ s \o t \in Seq(Tokens)
      /\ Len(s \o t) = Len(s) + Len(t)
      /\ \A i \in 1 .. Len(s) + Len(t) :
           (s \o t)[i] = IF i <= Len(s) THEN s[i] ELSE t[i - Len(s)]
  BY ConcatProperties
<1>3. \A i \in 1 .. Len(s) : (s \o t)[i] = s[i]
  BY <1>1, <1>2
<1>4. \A i \in 1 .. Len(t) : (s \o t)[Len(s) + i] = t[i]
  <2> TAKE i \in 1 .. Len(t)
  <2>1. Len(s) + i \in 1 .. Len(s) + Len(t) /\ ~(Len(s) + i <= Len(s))
        /\ (Len(s) + i) - Len(s) = i
    BY <1>1
  <2> QED BY <2>1, <1>2
<1> QED BY <1>1, <1>2, <1>3, <1>4

LEMMA OneTokenMore ==
  ASSUME NEW s \in Seq(Tokens), NEW t \in Seq(Tokens), Len(t) = 1
  PROVE  /\ s \o t \in Seq(Tokens)
         /\ Len(s \o t) = Len(s) + 1
         /\ \A i \in 1 .. Len(s) : (s \o t)[i] = s[i]
         /\ (s \o t)[Len(s) + 1] = t[1]
<1>1. /\ s \o t \in Seq(Tokens)
      /\ Len(s \o t) = Len(s) + Len(t)
      /\ \A i \in 1 .. Len(s) : (s \o t)[i] = s[i]
      /\ \A i \in 1 .. Len(t) : (s \o t)[Len(s) + i] = t[i]
  BY ConcatTokens
<1>2. 1 \in 1 .. Len(t)
  OBVIOUS
<1>3. (s \o t)[Len(s) + 1] = t[1]
  BY <1>1, <1>2
<1> QED BY <1>1, <1>3

\* The tokens of a history prefix, by position.
LEMMA PrefixTokens ==
  ASSUME NEW n \in Seq(Tokens), NEW m \in Seq(Tokens)
  PROVE  LET p == HistoryPrefix(n, m) IN
         /\ p \in Seq(Tokens)
         /\ Len(p) = Len(n) + Len(m) + 2
         /\ \A i \in 1 .. Len(n) : p[i] = n[i]
         /\ p[Len(n) + 1] = Slash
         /\ \A i \in 1 .. Len(m) : p[Len(n) + 1 + i] = m[i]
         /\ p[Len(n) + Len(m) + 2] = Slash
<1> DEFINE s == <<Slash>>
           a == n \o s
           b == a \o m
           p == b \o s
<1>1. s \in Seq(Tokens) /\ Len(s) = 1 /\ s[1] = Slash
  BY ResourcesAssumption, OneToken
<1> HIDE DEF s
<1>2. /\ a \in Seq(Tokens) /\ Len(a) = Len(n) + 1 /\ Len(n) \in Nat
      /\ \A i \in 1 .. Len(n) : a[i] = n[i]
      /\ a[Len(n) + 1] = Slash
  BY <1>1, ConcatTokens, OneTokenMore
<1> HIDE DEF a
<1>3. /\ b \in Seq(Tokens) /\ Len(b) = Len(n) + 1 + Len(m) /\ Len(m) \in Nat
      /\ \A i \in 1 .. Len(a) : b[i] = a[i]
      /\ \A i \in 1 .. Len(m) : b[Len(a) + i] = m[i]
  BY <1>2, ConcatTokens
<1> HIDE DEF b
<1>4. /\ p \in Seq(Tokens) /\ Len(p) = Len(b) + 1
      /\ \A i \in 1 .. Len(b) : p[i] = b[i]
      /\ p[Len(b) + 1] = Slash
  BY <1>1, <1>3, OneTokenMore
<1>5. HistoryPrefix(n, m) = p
  BY DEF HistoryPrefix, p, b, a, s
<1> HIDE DEF p
<1>6. \A i \in 1 .. Len(n) : p[i] = n[i]
  <2> TAKE i \in 1 .. Len(n)
  <2>1. i \in 1 .. Len(a) /\ i \in 1 .. Len(b)
    BY <1>2, <1>3
  <2> QED BY <2>1, <1>2, <1>3, <1>4
<1>7. p[Len(n) + 1] = Slash
  <2>1. Len(n) + 1 \in 1 .. Len(a) /\ Len(n) + 1 \in 1 .. Len(b)
    BY <1>2, <1>3
  <2> QED BY <2>1, <1>2, <1>3, <1>4
<1>8. \A i \in 1 .. Len(m) : p[Len(n) + 1 + i] = m[i]
  <2> TAKE i \in 1 .. Len(m)
  <2>1. Len(n) + 1 + i \in 1 .. Len(b) /\ Len(n) + 1 + i = Len(a) + i
    BY <1>2, <1>3
  <2> QED BY <2>1, <1>3, <1>4
<1>9. Len(b) + 1 = Len(n) + Len(m) + 2
  BY <1>2, <1>3
<1> QED BY <1>4, <1>5, <1>6, <1>7, <1>8, <1>9

\* A history key is the prefix of its autoscaler and one token more.
LEMMA KeyIsPrefixAndResource ==
  ASSUME NEW n \in Seq(Tokens), NEW m \in Seq(Tokens), NEW r \in Tokens
  PROVE  HistoryKey(n, m, r) = HistoryPrefix(n, m) \o <<r>>
<1> DEFINE s == <<Slash>>  b == (n \o s) \o m
<1>1. s \in Seq(Tokens) /\ <<r>> \in Seq(Tokens) /\ b \in Seq(Tokens)
  BY ResourcesAssumption, OneToken, ConcatProperties
<1>2. <<Slash, r>> = s \o <<r>>
  BY ResourcesAssumption
<1>3. HistoryKey(n, m, r) = b \o (s \o <<r>>) /\ HistoryPrefix(n, m) = b \o s
  BY <1>2 DEF HistoryKey, HistoryPrefix
<1> HIDE DEF s, b
<1> QED BY <1>1, <1>3, ConcatAssociative

\* "key extends prefix by one token, the resource".
OneLonger(key, prefix, r) ==
  /\ key \in Seq(Tokens)
  /\ Len(key) = Len(prefix) + 1
  /\ \A i \in 1 .. Len(prefix) : key[i] = prefix[i]
  /\ key[Len(prefix) + 1] = r

LEMMA KeyTokens ==
  ASSUME NEW n \in Seq(Tokens), NEW m \in Seq(Tokens), NEW r \in Tokens
  PROVE  OneLonger(HistoryKey(n, m, r), HistoryPrefix(n, m), r)
<1> DEFINE p == HistoryPrefix(n, m)  t == <<r>>
<1>1. p \in Seq(Tokens) /\ Len(p) \in Nat
  BY PrefixTokens, LenProperties
<1>2. t \in Seq(Tokens) /\ Len(t) = 1 /\ t[1] = r
  BY OneToken
<1>3. HistoryKey(n, m, r) = p \o t
  BY KeyIsPrefixAndResource
<1> HIDE DEF t
<1>4. /\ p \o t \in Seq(Tokens) /\ Len(p \o t) = Len(p) + 1
      /\ \A i \in 1 .. Len(p) : (p \o t)[i] = p[i]
      /\ (p \o t)[Len(p) + 1] = r
  <2> HIDE DEF p
  <2> QED BY <1>1, <1>2, OneTokenMore
<1> QED BY <1>3, <1>4 DEF OneLonger

\* Two prefixes, one of which starts with the other, are of one autoscaler.
\* This is what the closing slash of HistoryPrefix is for.
LEMMA PrefixSeparation ==
  ASSUME NEW n1 \in Namespaces, NEW m1 \in Names,
         NEW n2 \in Namespaces, NEW m2 \in Names,
         LET p == HistoryPrefix(n1, m1)  q == HistoryPrefix(n2, m2) IN
           Len(p) <= Len(q) /\ \A i \in 1 .. Len(p) : p[i] = q[i]
  PROVE  n1 = n2 /\ m1 = m2
<1> DEFINE p == HistoryPrefix(n1, m1)  q == HistoryPrefix(n2, m2)
<1>1. /\ n1 \in Seq(Tokens) /\ m1 \in Seq(Tokens)
      /\ n2 \in Seq(Tokens) /\ m2 \in Seq(Tokens)
      /\ \A i \in 1 .. Len(n1) : n1[i] # Slash
      /\ \A i \in 1 .. Len(n2) : n2[i] # Slash
      /\ \A i \in 1 .. Len(m1) : m1[i] # Slash
      /\ \A i \in 1 .. Len(m2) : m2[i] # Slash
  BY NamespacesAssumption, NamesAssumption
<1>2. /\ Len(n1) \in Nat /\ Len(m1) \in Nat /\ Len(n2) \in Nat /\ Len(m2) \in Nat
  BY <1>1, LenProperties
<1>3. /\ Len(p) = Len(n1) + Len(m1) + 2
      /\ \A i \in 1 .. Len(n1) : p[i] = n1[i]
      /\ p[Len(n1) + 1] = Slash
      /\ \A i \in 1 .. Len(m1) : p[Len(n1) + 1 + i] = m1[i]
      /\ p[Len(n1) + Len(m1) + 2] = Slash
  BY <1>1, PrefixTokens
<1>4. /\ Len(q) = Len(n2) + Len(m2) + 2
      /\ \A i \in 1 .. Len(n2) : q[i] = n2[i]
      /\ q[Len(n2) + 1] = Slash
      /\ \A i \in 1 .. Len(m2) : q[Len(n2) + 1 + i] = m2[i]
      /\ q[Len(n2) + Len(m2) + 2] = Slash
  BY <1>1, PrefixTokens
<1>5. Len(p) <= Len(q) /\ \A i \in 1 .. Len(p) : p[i] = q[i]
  OBVIOUS
<1> HIDE DEF p, q
<1>6. Len(n1) = Len(n2)
  <2>1. CASE Len(n1) < Len(n2)
    <3>1. Len(n1) + 1 \in 1 .. Len(n2) /\ Len(n1) + 1 \in 1 .. Len(p)
      BY <1>2, <1>3, <2>1
    <3>2. q[Len(n1) + 1] = n2[Len(n1) + 1] /\ n2[Len(n1) + 1] # Slash
      BY <1>1, <1>4, <3>1
    <3>3. q[Len(n1) + 1] = Slash
      BY <1>3, <1>5, <3>1
    <3> QED BY <3>2, <3>3
  <2>2. CASE Len(n2) < Len(n1)
    <3>1. Len(n2) + 1 \in 1 .. Len(n1) /\ Len(n2) + 1 \in 1 .. Len(p)
      BY <1>2, <1>3, <2>2
    <3>2. p[Len(n2) + 1] = n1[Len(n2) + 1] /\ n1[Len(n2) + 1] # Slash
      BY <1>1, <1>3, <3>1
    <3>3. p[Len(n2) + 1] = Slash
      BY <1>4, <1>5, <3>1
    <3> QED BY <3>2, <3>3
  <2> QED BY <1>2, <2>1, <2>2
<1>7. Len(m1) = Len(m2)
  <2>1. CASE Len(m1) < Len(m2)
    <3>1. /\ Len(m1) + 1 \in 1 .. Len(m2)
          /\ Len(n1) + Len(m1) + 2 \in 1 .. Len(p)
          /\ Len(n1) + Len(m1) + 2 = Len(n2) + 1 + (Len(m1) + 1)
      BY <1>2, <1>3, <1>6, <2>1
    <3>2. q[Len(n2) + 1 + (Len(m1) + 1)] = m2[Len(m1) + 1]
      BY <3>1, <1>4
    <3> QED BY <3>1, <3>2, <1>1, <1>3, <1>5
  <2>2. CASE Len(m2) < Len(m1)
    <3>1. /\ Len(m2) + 1 \in 1 .. Len(m1)
          /\ Len(n2) + Len(m2) + 2 \in 1 .. Len(p)
          /\ Len(n2) + Len(m2) + 2 = Len(n1) + 1 + (Len(m2) + 1)
      BY <1>2, <1>3, <1>6, <2>2
    <3>2. p[Len(n1) + 1 + (Len(m2) + 1)] = m1[Len(m2) + 1]
      BY <3>1, <1>3
    <3> QED BY <3>1, <3>2, <1>1, <1>4, <1>5
  <2> QED BY <1>2, <2>1, <2>2
<1>8. \A i \in 1 .. Len(n1) : n1[i] = n2[i]
  <2> SUFFICES ASSUME NEW i \in 1 .. Len(n1) PROVE n1[i] = n2[i]
    OBVIOUS
  <2>1. i \in 1 .. Len(p) /\ i \in 1 .. Len(n2)
    BY <1>2, <1>3, <1>6
  <2> QED BY <2>1, <1>3, <1>4, <1>5
<1>9. \A i \in 1 .. Len(m1) : m1[i] = m2[i]
  <2> SUFFICES ASSUME NEW i \in 1 .. Len(m1) PROVE m1[i] = m2[i]
    OBVIOUS
  <2>1. Len(n1) + 1 + i \in 1 .. Len(p) /\ i \in 1 .. Len(m2)
    BY <1>2, <1>3, <1>7
  <2>2. q[Len(n1) + 1 + i] = m2[i]
    BY <2>1, <1>4, <1>6
  <2> QED BY <2>1, <2>2, <1>3, <1>5
<1> QED BY <1>1, <1>6, <1>7, <1>8, <1>9, SeqEqual

\* A key starts with the prefix of its own autoscaler and with no other, so
\* that DeleteByPrefix evicts the buffers of one autoscaler.
THEOREM KeyPrefixes ==
  ASSUME NEW a \in Autoscalers, NEW b \in Autoscalers, NEW r \in Resources
  PROVE  HasPrefix(HistoryKey(b[1], b[2], r), HistoryPrefix(a[1], a[2])) <=> a = b
<1> DEFINE p == HistoryPrefix(a[1], a[2])
           q == HistoryPrefix(b[1], b[2])
           k == HistoryKey(b[1], b[2], r)
<1>1. /\ a[1] \in Namespaces /\ a[2] \in Names /\ b[1] \in Namespaces /\ b[2] \in Names
      /\ a = <<a[1], a[2]>> /\ b = <<b[1], b[2]>>
  BY DEF Autoscalers
<1>2. /\ a[1] \in Seq(Tokens) /\ a[2] \in Seq(Tokens)
      /\ b[1] \in Seq(Tokens) /\ b[2] \in Seq(Tokens)
      /\ r \in Tokens /\ r # Slash
  BY <1>1, NamespacesAssumption, NamesAssumption, ResourcesAssumption
<1>3. /\ p \in Seq(Tokens) /\ Len(p) \in Nat /\ Len(p) >= 1 /\ p[Len(p)] = Slash
  <2>1. Len(a[1]) \in Nat /\ Len(a[2]) \in Nat
    BY <1>2, LenProperties
  <2>2. /\ p \in Seq(Tokens)
        /\ Len(p) = Len(a[1]) + Len(a[2]) + 2
        /\ p[Len(a[1]) + Len(a[2]) + 2] = Slash
    BY <1>2, PrefixTokens
  <2> HIDE DEF p
  <2> DEFINE x == Len(a[1])  y == Len(a[2])
  <2>3. Len(p) \in Nat /\ Len(p) >= 1
    <3>1. x \in Nat /\ y \in Nat /\ Len(p) = x + y + 2
      BY <2>1, <2>2
    <3> HIDE DEF x, y
    <3> QED BY <3>1
  <2>4. p[Len(p)] = Slash
    BY <2>2
  <2> QED BY <2>2, <2>3, <2>4
<1>4. /\ q \in Seq(Tokens) /\ Len(q) \in Nat
  BY <1>2, PrefixTokens, LenProperties
<1>5. /\ k \in Seq(Tokens)
      /\ Len(k) = Len(q) + 1
      /\ \A i \in 1 .. Len(q) : k[i] = q[i]
      /\ k[Len(q) + 1] = r
  <2>1. OneLonger(k, q, r)
    BY <1>2, KeyTokens
  <2> QED BY <2>1 DEF OneLonger
<1>6. (\A i \in 1 .. Len(p) : p[i] = q[i]) /\ Len(p) <= Len(q) => a = b
  BY <1>1, PrefixSeparation
<1>7. a = b => p = q
  OBVIOUS
<1> HIDE DEF p, q, k
<1>8. ASSUME IsPrefix(p, k) PROVE a = b
  <2>1. Len(p) <= Len(k) /\ SubSeq(p, 1, Len(p)) = SubSeq(k, 1, Len(p))
    BY <1>8 DEF IsPrefix
  <2>2. \A i \in 1 .. Len(p) : p[i] \in Tokens /\ k[i] \in Tokens
    BY <1>3, <1>5, <1>4, <2>1, ElementOfSeq
  <2>3. \A i \in 1 .. Len(p) : SubSeq(p, 1, Len(p))[i] = p[i]
    BY <1>3, <2>2, SubSeqProperties
  <2>4. \A i \in 1 .. Len(p) : SubSeq(k, 1, Len(p))[i] = k[i]
    BY <1>3, <2>2, SubSeqProperties
  <2>5. \A i \in 1 .. Len(p) : p[i] = k[i]
    BY <2>1, <2>3, <2>4
  <2>6. Len(p) # Len(q) + 1
    BY <1>2, <1>3, <1>5, <2>5
  <2>7. Len(p) <= Len(q)
    BY <1>3, <1>4, <1>5, <2>1, <2>6
  <2>8. \A i \in 1 .. Len(p) : p[i] = q[i]
    BY <1>3, <1>4, <1>5, <2>5, <2>7
  <2> QED BY <2>7, <2>8, <1>6
<1>9. ASSUME a = b PROVE IsPrefix(p, k)
  <2>1. Len(p) <= Len(k) /\ \A i \in 1 .. Len(p) : p[i] = k[i]
    BY <1>4, <1>5, <1>7, <1>9
  <2>2. \A i \in 1 .. Len(p) : p[i] \in Tokens
    BY <1>3, ElementOfSeq
  <2>3. /\ SubSeq(p, 1, Len(p)) \in Seq(Tokens)
        /\ Len(SubSeq(p, 1, Len(p))) = Len(p)
        /\ \A i \in 1 .. Len(p) : SubSeq(p, 1, Len(p))[i] = p[i]
    BY <1>3, <2>2, SubSeqProperties
  <2>4. /\ SubSeq(k, 1, Len(p)) \in Seq(Tokens)
        /\ Len(SubSeq(k, 1, Len(p))) = Len(p)
        /\ \A i \in 1 .. Len(p) : SubSeq(k, 1, Len(p))[i] = k[i]
    BY <1>3, <2>1, <2>2, SubSeqProperties
  <2>5. SubSeq(p, 1, Len(p)) = SubSeq(k, 1, Len(p))
    BY <2>1, <2>3, <2>4, SeqEqual
  <2> QED BY <2>1, <2>5 DEF IsPrefix
<1> QED BY <1>8, <1>9 DEF HasPrefix, p, k

LEMMA KeyInjective ==
  ASSUME NEW a \in Autoscalers, NEW r \in Resources,
         NEW b \in Autoscalers, NEW q \in Resources,
         HistoryKey(a[1], a[2], r) = HistoryKey(b[1], b[2], q)
  PROVE  a = b /\ r = q
<1> DEFINE p1 == HistoryPrefix(a[1], a[2])  p2 == HistoryPrefix(b[1], b[2])
           k == HistoryKey(a[1], a[2], r)
<1>1. /\ a[1] \in Namespaces /\ a[2] \in Names /\ b[1] \in Namespaces /\ b[2] \in Names
      /\ a = <<a[1], a[2]>> /\ b = <<b[1], b[2]>>
  BY DEF Autoscalers
<1>2. /\ a[1] \in Seq(Tokens) /\ a[2] \in Seq(Tokens)
      /\ b[1] \in Seq(Tokens) /\ b[2] \in Seq(Tokens)
      /\ r \in Tokens /\ q \in Tokens
  BY <1>1, NamespacesAssumption, NamesAssumption, ResourcesAssumption
<1>3. Len(p1) \in Nat /\ Len(p2) \in Nat
  BY <1>2, PrefixTokens, LenProperties
<1>4. OneLonger(k, p1, r)
  BY <1>2, KeyTokens
<1>5. OneLonger(k, p2, q)
  BY <1>2, KeyTokens
<1>6. (\A i \in 1 .. Len(p1) : p1[i] = p2[i]) /\ Len(p1) <= Len(p2) => a = b
  BY <1>1, PrefixSeparation
<1> HIDE DEF p1, p2, k
<1>7. Len(p1) = Len(p2)
  BY <1>3, <1>4, <1>5 DEF OneLonger
<1>8. \A i \in 1 .. Len(p1) : p1[i] = p2[i]
  BY <1>4, <1>5, <1>7 DEF OneLonger
<1>9. r = q
  BY <1>4, <1>5, <1>7 DEF OneLonger
<1> QED BY <1>3, <1>6, <1>7, <1>8, <1>9

-------------------------------------------------------------------------------
(* Rings *)

\* An index of the ring never needs more than one turn to wrap around.
LEMMA Wrap ==
  ASSUME NEW c \in Nat \ {0}, NEW x \in 0 .. 2 * c - 1
  PROVE  x % c = IF x < c THEN x ELSE x - c
<1>1. CASE x < c
  BY <1>1
<1>2. CASE ~(x < c)
  BY <1>2
<1> QED BY <1>1, <1>2

\* A function on 1 .. n is a sequence of length n.
LEMMA FunctionIsSeq ==
  ASSUME NEW T, NEW n \in Nat, NEW f \in [1 .. n -> T]
  PROVE  f \in Seq(T) /\ Len(f) = n
<1>1. f \in Seq(T)
  BY SeqDef
<1>2. DOMAIN f = 1 .. n /\ DOMAIN f = 1 .. Len(f) /\ Len(f) \in Nat
  BY <1>1, LenProperties
<1> QED BY <1>1, <1>2

\* Appending keeps a ring a ring, with no cell exposed that was not written.
LEMMA RingAppendPreserves ==
  ASSUME NEW b \in Ring, RingWellFormed(b), NEW sample \in Samples
  PROVE  /\ RingAppend(b, sample) \in Ring
         /\ RingAppend(b, sample).count > 0
         /\ RingWellFormed(RingAppend(b, sample))
<1>1. Capacity \in Nat \ {0}
  BY CapacityPositive
<1>2. /\ b.values \in [0 .. Capacity - 1 -> Samples \cup {Unwritten}]
      /\ b.start \in 0 .. Capacity - 1 /\ b.count \in 0 .. Capacity
      /\ b = [values |-> b.values, start |-> b.start, count |-> b.count]
  BY DEF Ring
<1>3. sample # Unwritten
  BY UnwrittenAssumption
<1>4. CASE b.count < Capacity
  <2>1. b.start = 0 /\ (b.start + b.count) % Capacity = b.count
    <3>1. b.start = 0
      BY <1>4 DEF RingWellFormed
    <3> QED BY <1>1, <1>2, <1>4, <3>1, Wrap
  <2>2. RingAppend(b, sample) =
          [values |-> [b.values EXCEPT ![b.count] = sample],
           start |-> 0, count |-> b.count + 1]
    BY <1>2, <1>4, <2>1 DEF RingAppend
  <2>3. [b.values EXCEPT ![b.count] = sample]
          \in [0 .. Capacity - 1 -> Samples \cup {Unwritten}]
    BY <1>2
  <2>4. RingAppend(b, sample) \in Ring
    BY <1>1, <1>2, <1>4, <2>2, <2>3 DEF Ring
  <2>5. \A i \in 0 .. Capacity - 1 :
          [b.values EXCEPT ![b.count] = sample][i] = Unwritten <=> i >= b.count + 1
    BY <1>1, <1>2, <1>3, <1>4 DEF RingWellFormed
  <2> QED BY <1>2, <2>2, <2>4, <2>5 DEF RingWellFormed
<1>5. CASE ~(b.count < Capacity)
  <2>1. b.count = Capacity
    BY <1>1, <1>2, <1>5
  <2>2. (b.start + 1) % Capacity \in 0 .. Capacity - 1
    <3>1. b.start + 1 \in 0 .. 2 * Capacity - 1
      BY <1>1, <1>2
    <3> QED BY <1>1, <1>2, <3>1, Wrap
  <2>3. RingAppend(b, sample) =
          [values |-> [b.values EXCEPT ![b.start] = sample],
           start |-> (b.start + 1) % Capacity, count |-> b.count]
    BY <1>2, <1>5 DEF RingAppend
  <2>4. [b.values EXCEPT ![b.start] = sample]
          \in [0 .. Capacity - 1 -> Samples \cup {Unwritten}]
    BY <1>2
  <2>5. RingAppend(b, sample) \in Ring
    BY <1>2, <2>2, <2>3, <2>4 DEF Ring
  <2>6. \A i \in 0 .. Capacity - 1 :
          [b.values EXCEPT ![b.start] = sample][i] = Unwritten <=> i >= b.count
    BY <1>1, <1>2, <1>3, <2>1 DEF RingWellFormed
  <2> QED BY <1>1, <2>1, <2>3, <2>5, <2>6 DEF RingWellFormed
<1> QED BY <1>4, <1>5

LEMMA NewRing ==
  NewRingBuffer \in Ring /\ RingWellFormed(NewRingBuffer)
BY CapacityPositive DEF NewRingBuffer, Ring, RingWellFormed

\* The series read back after an Append is the log's, sample by sample.
LEMMA SeriesOfAppend ==
  ASSUME NEW b \in Ring, RingWellFormed(b), NEW sample \in Samples
  PROVE  RingSeries(RingAppend(b, sample)) =
           SampleLogOfKeys!Remember(RingSeries(b), sample)
<1> DEFINE C == Capacity
           s == RingSeries(b)
           t == RingSeries(RingAppend(b, sample))
<1>1. C \in Nat \ {0}
  BY CapacityPositive
<1>w. \A x \in 0 .. 2 * C - 1 : x % C = IF x < C THEN x ELSE x - C
  BY <1>1, Wrap
<1>2. /\ b.values \in [0 .. C - 1 -> Samples \cup {Unwritten}]
      /\ b.start \in 0 .. C - 1 /\ b.count \in 0 .. C
      /\ b = [values |-> b.values, start |-> b.start, count |-> b.count]
  BY DEF Ring
<1>3. \A i \in 1 .. b.count : (b.start + i - 1) % C \in 0 .. C - 1
  <2> TAKE i \in 1 .. b.count
  <2>1. b.start + i - 1 \in 0 .. 2 * C - 1
    BY <1>1, <1>2
  <2> QED BY <1>1, <2>1, Wrap
<1> DEFINE T == Samples \cup {Unwritten}
<1>4. /\ s \in Seq(T) /\ Len(s) = b.count
      /\ \A i \in 1 .. b.count : s[i] = b.values[(b.start + i - 1) % C]
  <2>1. s = [i \in 1 .. b.count |-> b.values[(b.start + i - 1) % C]]
    BY DEF RingSeries
  <2>2. \A i \in 1 .. b.count : b.values[(b.start + i - 1) % C] \in T
    BY <1>2, <1>3
  <2> HIDE DEF s, T
  <2>3. s \in [1 .. b.count -> T] /\ b.count \in Nat
    BY <1>1, <1>2, <2>1, <2>2
  <2> QED BY <2>1, <2>3, FunctionIsSeq
<1>5. CASE b.count < C
  <2>1. b.start = 0 /\ (b.start + b.count) % C = b.count
    <3>1. b.start = 0
      BY <1>5 DEF RingWellFormed
    <3> QED BY <1>1, <1>2, <1>5, <3>1, Wrap
  <2>2. RingAppend(b, sample) =
          [values |-> [b.values EXCEPT ![b.count] = sample],
           start |-> 0, count |-> b.count + 1]
    BY <1>2, <1>5, <2>1 DEF RingAppend
  <2>3. t = [i \in 1 .. b.count + 1 |->
               [b.values EXCEPT ![b.count] = sample][(i - 1) % C]]
    BY <1>1, <1>2, <2>2 DEF RingSeries
  <2>4. \A i \in 1 .. b.count + 1 : (i - 1) % C = i - 1 /\ i - 1 \in 0 .. C - 1
    <3> TAKE i \in 1 .. b.count + 1
    <3>1. i - 1 \in 0 .. 2 * C - 1 /\ i - 1 < C /\ i - 1 \in 0 .. C - 1
      BY <1>1, <1>2, <1>5
    <3> QED BY <1>w, <3>1
  <2>5. /\ t \in Seq(T) /\ Len(t) = b.count + 1
        /\ \A i \in 1 .. b.count + 1 :
             t[i] = IF i = b.count + 1 THEN sample ELSE b.values[i - 1]
    <3> DEFINE n == b.count + 1
               v == [b.values EXCEPT ![b.count] = sample]
    <3>1. n \in Nat
      BY <1>1, <1>2
    <3>2. \A i \in 1 .. n : v[(i - 1) % C] = IF i = n THEN sample ELSE b.values[i - 1]
      <4> TAKE i \in 1 .. n
      <4>1. (i - 1) % C = i - 1 /\ i - 1 \in 0 .. C - 1
        BY <2>4
      <4>2. v[i - 1] = IF i - 1 = b.count THEN sample ELSE b.values[i - 1]
        BY <1>2, <4>1
      <4>3. i - 1 = b.count <=> i = n
        BY <1>1, <1>2
      <4> HIDE DEF v, n
      <4> QED BY <4>1, <4>2, <4>3
    <3>3. \A i \in 1 .. n : v[(i - 1) % C] \in T
      BY <1>1, <1>2, <1>5, <2>4, <3>2
    <3>4. t = [i \in 1 .. n |-> v[(i - 1) % C]]
      BY <2>3
    <3> HIDE DEF t, n, v, T
    <3>5. t \in [1 .. n -> T]
      BY <3>3, <3>4
    <3>6. t \in Seq(T) /\ Len(t) = n
      BY <3>1, <3>5, FunctionIsSeq
    <3>7. \A i \in 1 .. n : t[i] = IF i = n THEN sample ELSE b.values[i - 1]
      BY <3>2, <3>4
    <3> QED BY <3>6, <3>7 DEF n
  <2>6. \A i \in 1 .. b.count : s[i] = b.values[i - 1]
    BY <1>2, <1>4, <2>1, <2>4
  <2> HIDE DEF s, t, T
  <2>7. sample \in T
    BY DEF T
  <2>8. /\ Append(s, sample) \in Seq(T) /\ Len(Append(s, sample)) = b.count + 1
        /\ \A i \in 1 .. b.count : Append(s, sample)[i] = s[i]
        /\ Append(s, sample)[b.count + 1] = sample
    BY <1>4, <2>7, AppendProperties
  <2>9. \A i \in 1 .. b.count + 1 : t[i] = Append(s, sample)[i]
    BY <1>2, <2>5, <2>6, <2>8
  <2>10. t = Append(s, sample)
    BY <2>5, <2>8, <2>9, SeqEqual
  <2> QED BY <1>4, <1>5, <2>10 DEF SampleLogOfKeys!Remember, s, t
<1>6. CASE ~(b.count < C)
  <2>1. b.count = C
    BY <1>1, <1>2, <1>6
  <2> DEFINE v == [b.values EXCEPT ![b.start] = sample]
             d == (b.start + 1) % C
  <2>2. RingAppend(b, sample) = [values |-> v, start |-> d, count |-> C]
    BY <1>2, <1>6, <2>1 DEF RingAppend
  <2>3. t = [i \in 1 .. C |-> v[(d + i - 1) % C]]
    BY <2>2 DEF RingSeries
  <2>4. v \in [0 .. C - 1 -> T]
    BY <1>2
  <2>5. d = IF b.start + 1 < C THEN b.start + 1 ELSE 0
    <3>1. b.start + 1 \in 0 .. 2 * C - 1
      BY <1>1, <1>2
    <3> QED BY <1>1, <1>2, <3>1, Wrap
  <2>6. \A i \in 1 .. C : (d + i - 1) % C = IF i = C THEN b.start ELSE (b.start + i) % C
    <3> TAKE i \in 1 .. C
    <3>1. d + i - 1 \in 0 .. 2 * C - 1 /\ b.start + i \in 0 .. 2 * C - 1
      <4> HIDE DEF d
      <4>1. d \in 0 .. C - 1 /\ b.start \in 0 .. C - 1
        BY <1>1, <1>2, <2>5
      <4> QED BY <1>1, <4>1
    <3> DEFINE x == d + i - 1  y == b.start + i
    <3>2. x % C = IF x < C THEN x ELSE x - C
      <4> HIDE DEF x
      <4> QED BY <1>w, <3>1 DEF x
    <3>3. y % C = IF y < C THEN y ELSE y - C
      <4> HIDE DEF y
      <4> QED BY <1>w, <3>1 DEF y
    <3> DEFINE wx == x % C  wy == y % C
    <3>4. /\ wx = IF x < C THEN x ELSE x - C
          /\ wy = IF y < C THEN y ELSE y - C
      <4> HIDE DEF x, y
      <4> QED BY <3>2, <3>3
    <3> HIDE DEF wx, wy, d
    <3>5. wx = IF i = C THEN b.start ELSE wy
      BY <1>1, <1>2, <2>5, <3>4
    <3> QED BY <3>5 DEF wx, wy
  <2>7. \A i \in 1 .. C : i # C =>
          (b.start + i) % C # b.start /\ (b.start + i) % C \in 0 .. C - 1
    <3> TAKE i \in 1 .. C
    <3>1. b.start + i \in 0 .. 2 * C - 1
      BY <1>1, <1>2
    <3> DEFINE y == b.start + i
    <3>2. y % C = IF y < C THEN y ELSE y - C
      <4> HIDE DEF y
      <4> QED BY <1>w, <3>1 DEF y
    <3> DEFINE wy == y % C
    <3>3. wy = IF y < C THEN y ELSE y - C
      BY <3>2
    <3> HIDE DEF wy
    <3>4. i # C => wy # b.start /\ wy \in 0 .. C - 1
      BY <1>1, <1>2, <3>3
    <3> QED BY <3>4 DEF wy
  <2> HIDE DEF d
  <2>8. \A i \in 1 .. C : v[(d + i - 1) % C] =
          IF i = C THEN sample ELSE b.values[(b.start + i) % C]
    BY <1>2, <2>6, <2>7
  <2>9. \A i \in 1 .. C : (d + i - 1) % C \in 0 .. C - 1
    BY <1>2, <2>6, <2>7
  <2> HIDE DEF v
  <2>10. /\ t \in Seq(T) /\ Len(t) = C
         /\ \A i \in 1 .. C : t[i] = IF i = C THEN sample ELSE b.values[(b.start + i) % C]
    BY <1>1, <2>3, <2>4, <2>8, <2>9
  <2> HIDE DEF s, t, T
  <2>11. /\ Tail(s) \in Seq(T) /\ Len(Tail(s)) = C - 1
         /\ \A i \in 1 .. C - 1 : Tail(s)[i] = s[i + 1]
    <3>1. s # << >>
      BY <1>1, <1>4, <2>1
    <3> QED BY <1>4, <2>1, <3>1, HeadTailProperties
  <2>12. sample \in T
    BY DEF T
  <2> DEFINE u == Append(Tail(s), sample)
  <2>13. /\ u \in Seq(T) /\ Len(u) = C
         /\ \A i \in 1 .. C - 1 : u[i] = Tail(s)[i]
         /\ u[C] = sample
    BY <1>1, <2>11, <2>12, AppendProperties
  <2> HIDE DEF u
  <2>14. \A i \in 1 .. C - 1 : s[i + 1] = b.values[(b.start + i) % C]
    <3> TAKE i \in 1 .. C - 1
    <3>1. i + 1 \in 1 .. b.count /\ b.start + (i + 1) - 1 = b.start + i
      BY <1>1, <1>2, <2>1
    <3> QED BY <1>4, <3>1
  <2>15. \A i \in 1 .. C : t[i] = u[i]
    BY <1>1, <2>10, <2>11, <2>13, <2>14
  <2>16. t = u
    BY <2>10, <2>13, <2>15, SeqEqual
  <2> QED BY <1>4, <1>6, <2>16 DEF SampleLogOfKeys!Remember, s, t, u
<1> QED BY <1>5, <1>6

-------------------------------------------------------------------------------
(* The store *)

IInv == TypeOK /\ RingsWellFormed

LEMMA KeyOf ==
  ASSUME NEW a \in Autoscalers, NEW r \in Resources
  PROVE  HistoryKey(a[1], a[2], r) \in Keys
BY DEF Keys

\* The ring that AppendLatest stores, given the one it starts from.
LEMMA AppendStoresRing ==
  ASSUME IInv, NEW key \in Keys, NEW sample \in Samples
  PROVE  LET b == RingAppend(BufferFor(key), sample) IN
         b \in Ring /\ b.count > 0 /\ RingWellFormed(b)
<1>1. BufferFor(key) \in Ring /\ RingWellFormed(BufferFor(key))
  BY NewRing DEF BufferFor, IInv, TypeOK, RingsWellFormed
<1> QED BY <1>1, RingAppendPreserves

LEMMA SnapshotSample ==
  ASSUME NEW snapshot \in Snapshots, snapshot # << >>
  PROVE  Last(snapshot) \in Samples
<1>1. PICK n \in 0 .. MaxSnapshot : snapshot \in [1 .. n -> Samples]
  BY DEF Snapshots
<1>2. snapshot \in Seq(Samples) /\ Len(snapshot) \in Nat \ {0}
  <2>1. n \in Nat
    OBVIOUS
  <2> QED BY <1>1, <2>1, FunctionIsSeq, EmptySeq
<1>3. Len(snapshot) \in 1 .. Len(snapshot)
  BY <1>2
<1> QED BY <1>2, <1>3, ElementOfSeq DEF Last

LEMMA InitIInv == Init => IInv
BY DEF Init, IInv, TypeOK, RingsWellFormed

LEMMA NextIInv == IInv /\ [Next]_buffers => IInv'
<1> SUFFICES ASSUME IInv, [Next]_buffers PROVE IInv'
  OBVIOUS
<1> USE DEF IInv, TypeOK, RingsWellFormed
<1>1. ASSUME NEW gone, buffers' = Without(gone) PROVE IInv'
  BY <1>1 DEF Without, RingWellFormed, Ring, Capacity
<1>2. ASSUME NEW a \in Autoscalers, NEW r \in Resources, NEW snapshot \in Snapshots,
             AppendLatest(HistoryKey(a[1], a[2], r), snapshot)
      PROVE  IInv'
  <2> DEFINE key == HistoryKey(a[1], a[2], r)
             b == RingAppend(BufferFor(key), Last(snapshot))
  <2>1. key \in Keys /\ Last(snapshot) \in Samples
    BY <1>2, KeyOf, SnapshotSample DEF AppendLatest
  <2>2. b \in Ring /\ b.count > 0 /\ RingWellFormed(b)
    BY <2>1, AppendStoresRing
  <2>3. buffers' = Put(key, b)
    BY <1>2 DEF AppendLatest
  <2> HIDE DEF key, b
  <2>4. /\ DOMAIN buffers' = DOMAIN buffers \cup {key}
        /\ \A k \in DOMAIN buffers' : buffers'[k] = b \/ (k \in DOMAIN buffers /\ buffers'[k] = buffers[k])
    BY <2>3 DEF Put
  <2> QED BY <2>1, <2>2, <2>4
<1>3. ASSUME UNCHANGED buffers PROVE IInv'
  BY <1>3
<1> QED BY <1>1, <1>2, <1>3 DEF Next, Delete, DeleteByPrefix

\* The store is a map from keys to rings in every reachable state
\* (internal/metrics/history.go, Append and the deletions).
THEOREM TypeCorrect == Spec => []TypeOK
<1>1. IInv => TypeOK
  BY DEF IInv
<1> QED BY <1>1, InitIInv, NextIInv, PTL DEF Spec

\* Series never reads a cell of the ring that no Append wrote
\* (internal/metrics/history.go, RingBuffer.Append and RingBuffer.Series).
THEOREM RingsStayWellFormed == Spec => []RingsWellFormed
<1>1. IInv => RingsWellFormed
  BY DEF IInv
<1> QED BY <1>1, InitIInv, NextIInv, PTL DEF Spec

-------------------------------------------------------------------------------
(* Refinement *)

LEMMA GetAfterDeletion ==
  ASSUME NEW gone, buffers' = Without(gone), NEW k
  PROVE  Get(k)' = IF k \in gone THEN << >> ELSE Get(k)
BY DEF Without, Get

LEMMA GetAfterAppend ==
  ASSUME IInv, NEW key \in Keys, NEW sample \in Samples,
         buffers' = Put(key, RingAppend(BufferFor(key), sample)), NEW k
  PROVE  Get(k)' = IF k = key THEN SampleLogOfKeys!Remember(Get(key), sample) ELSE Get(k)
<1>1. BufferFor(key) \in Ring /\ RingWellFormed(BufferFor(key))
  BY NewRing DEF BufferFor, IInv, TypeOK, RingsWellFormed
<1>2. RingSeries(RingAppend(BufferFor(key), sample)) =
        SampleLogOfKeys!Remember(RingSeries(BufferFor(key)), sample)
  BY <1>1, SeriesOfAppend
<1>3. RingSeries(BufferFor(key)) = Get(key)
  <2>1. CASE key \in DOMAIN buffers
    BY <2>1 DEF BufferFor, Get
  <2>2. CASE key \notin DOMAIN buffers
    <3>1. RingSeries(NewRingBuffer) = << >>
      <4> DEFINE f == RingSeries(NewRingBuffer)
      <4>1. f \in [1 .. 0 -> Samples]
        BY DEF RingSeries, NewRingBuffer
      <4> HIDE DEF f
      <4>2. f \in Seq(Samples) /\ Len(f) = 0
        BY <4>1, FunctionIsSeq
      <4>3. \A s \in Seq(Samples) : s # << >> => Len(s) \in Nat \ {0}
        BY EmptySeq
      <4>4. f = << >>
        BY <4>2, <4>3
      <4> QED BY <4>4 DEF f
    <3> QED BY <2>2, <3>1 DEF BufferFor, Get
  <2> QED BY <2>1, <2>2
<1> QED BY <1>2, <1>3 DEF Put, Get

LEMMA InitRefines == Init => SampleLogOfKeys!Init
BY DEF Init, SampleLogOfKeys!Init, Logs, Get

LEMMA NextRefines == IInv /\ [Next]_buffers => [SampleLogOfKeys!Next]_Logs
<1> SUFFICES ASSUME IInv, [Next]_buffers PROVE [SampleLogOfKeys!Next]_Logs
  OBVIOUS
<1> DEFINE key(a, r) == HistoryKey(a[1], a[2], r)
<1>1. /\ Logs = [b \in Autoscalers |-> [q \in Resources |-> Get(key(b, q))]]
      /\ Logs' = [b \in Autoscalers |-> [q \in Resources |-> Get(key(b, q))']]
  BY DEF Logs
<1>2. ASSUME NEW a \in Autoscalers, DeleteByPrefix(HistoryPrefix(a[1], a[2]))
      PROVE  SampleLogOfKeys!Forget(a)
  <2> DEFINE gone == {k \in DOMAIN buffers : HasPrefix(k, HistoryPrefix(a[1], a[2]))}
  <2>1. ASSUME NEW b \in Autoscalers, NEW q \in Resources
        PROVE  Get(key(b, q))' = IF b = a THEN << >> ELSE Get(key(b, q))
    <3>1. Get(key(b, q))' = IF key(b, q) \in gone THEN << >> ELSE Get(key(b, q))
      BY <1>2, GetAfterDeletion DEF DeleteByPrefix
    <3>2. HasPrefix(key(b, q), HistoryPrefix(a[1], a[2])) <=> a = b
      BY KeyPrefixes
    <3>3. key(b, q) \notin DOMAIN buffers => Get(key(b, q)) = << >>
      BY DEF Get
    <3> QED BY <3>1, <3>2, <3>3
  <2> HIDE DEF key
  <2> QED BY <1>1, <2>1 DEF SampleLogOfKeys!Forget
<1>3. ASSUME NEW a \in Autoscalers, NEW r \in Resources, Delete(key(a, r))
      PROVE  SampleLogOfKeys!Drop(a, r)
  <2>1. ASSUME NEW b \in Autoscalers, NEW q \in Resources
        PROVE  Get(key(b, q))' = IF b = a /\ q = r THEN << >> ELSE Get(key(b, q))
    <3>1. Get(key(b, q))' = IF key(b, q) \in {key(a, r)} THEN << >> ELSE Get(key(b, q))
      BY <1>3, GetAfterDeletion DEF Delete
    <3>2. key(b, q) = key(a, r) => b = a /\ q = r
      BY KeyInjective
    <3> QED BY <3>1, <3>2
  <2> HIDE DEF key
  <2> QED BY <1>1, <2>1 DEF SampleLogOfKeys!Drop
<1>4. ASSUME NEW a \in Autoscalers, NEW r \in Resources, NEW snapshot \in Snapshots,
             AppendLatest(key(a, r), snapshot)
      PROVE  Last(snapshot) \in Samples /\ SampleLogOfKeys!Record(a, r, Last(snapshot))
  <2> DEFINE sample == Last(snapshot)
  <2>1. sample \in Samples /\ key(a, r) \in Keys
    BY <1>4, SnapshotSample, KeyOf DEF AppendLatest
  <2>2. ASSUME NEW b \in Autoscalers, NEW q \in Resources
        PROVE  Get(key(b, q))' =
                 IF b = a /\ q = r THEN SampleLogOfKeys!Remember(Get(key(a, r)), sample)
                                  ELSE Get(key(b, q))
    <3>1. Get(key(b, q))' =
            IF key(b, q) = key(a, r)
              THEN SampleLogOfKeys!Remember(Get(key(a, r)), sample)
              ELSE Get(key(b, q))
      BY <1>4, <2>1, GetAfterAppend DEF AppendLatest
    <3>2. key(b, q) = key(a, r) => b = a /\ q = r
      BY KeyInjective
    <3> QED BY <3>1, <3>2
  <2> HIDE DEF key, sample
  <2>3. SampleLogOfKeys!Record(a, r, sample)
    BY <1>1, <2>2 DEF SampleLogOfKeys!Record
  <2> QED BY <2>1, <2>3 DEF sample
<1>5. ASSUME UNCHANGED buffers PROVE UNCHANGED Logs
  BY <1>5 DEF Logs, Get
<1> QED BY <1>2, <1>3, <1>4, <1>5 DEF Next, SampleLogOfKeys!Next

\* For every capacity and every set of autoscalers, the map of rings under
\* string keys behaves as a log of the last Capacity samples per autoscaler
\* and resource: Append, Series, Delete and DeleteByPrefix of
\* internal/metrics/history.go are right about wrap-around and about prefixes.
THEOREM HistoryImplementsSampleLog == Spec => ImplementsSampleLog
<1>1. Spec => []IInv
  BY InitIInv, NextIInv, PTL DEF Spec
<1> QED BY <1>1, InitRefines, NextRefines, PTL
     DEF Spec, ImplementsSampleLog, SampleLogOfKeys!Spec
==============================================================================
