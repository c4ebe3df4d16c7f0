---------------------------- MODULE Handshake_proofs ----------------------------
(***************************************************************************)
(* What Handshake guarantees for every set of volumes and bind names.  Much *)
(* of it rests on what FlattenSeq yields, which it defines by recursion.    *)
(***************************************************************************)
EXTENDS Handshake, SequenceTheorems, WellFoundedInduction, TLAPS

\* g[i] is what the first i of the sequences in seqs are, one after the other.
Flattens(g, seqs) ==
    g = [i \in 1..Len(seqs) |-> IF i = 1 THEN seqs[i] ELSE g[i - 1] \o seqs[i]]

\* The peer is in the unit of the volume the socket is for.
PeerInUnit == InUnit(Peer.cgroup, UnitOf(Managed))

\* Each step that was passed has left something behind.  What was read by pid is
\* the peer's as long as nobody else has had its pid; where the peer is pinned,
\* nobody had by the last step.  And none of it was missing if the peer was
\* turned away although it is still there.
PassedInv ==
    /\ pc \in {"cred", "pidfd", "cgroup", "exe", "alive", "served"} => Answered(name)
    /\ pc \in {"pidfd", "cgroup", "exe", "alive", "served"} => Peer.root
    /\ pc \in {"exe", "alive"} /\ Len(process) = 1 => PeerInUnit
    /\ pc = "alive" /\ Len(process) = 1 => Peer.exe = "systemd-cryptsetup"
    /\ pc = "served" /\ pinned => PeerInUnit /\ Peer.exe = "systemd-cryptsetup"
    /\ pc = "declined" /\ ~failed /\ Len(process) = 1 /\ state = "running" =>
          ~(Answered(name) /\ Peer.root /\ PeerInUnit /\ Peer.exe = "systemd-cryptsetup")

-----------------------------------------------------------------------------
\* Induction, for a set of numbers rather than for a predicate.
LEMMA InductionOnSet ==
    ASSUME NEW S, 0 \in S, \A n \in Nat : n \in S => n + 1 \in S
    PROVE  Nat \subseteq S
<1> SUFFICES ASSUME Nat \ S # {} PROVE FALSE
  OBVIOUS
<1>1. \E x \in Nat \ S : \A y \in Nat \ S : ~(<<y, x>> \in OpToRel(<, Nat))
  BY WFMin, NatLessThanWellFounded
<1>2. PICK x \in Nat \ S : \A y \in Nat \ S : ~(y < x)
  BY <1>1 DEF OpToRel
<1>3. x # 0 /\ x - 1 \in Nat /\ x - 1 < x
  BY <1>2
<1>4. x - 1 \in S
  BY <1>2, <1>3
<1>5. x - 1 + 1 \in S
  BY <1>3, <1>4
<1> QED BY <1>2, <1>5

\* There is such a function for every list.
LEMMA FlattensExists ==
    ASSUME NEW seqs, Len(seqs) \in Nat
    PROVE  \E g : Flattens(g, seqs)
<1> DEFINE Upto(g, n) == g = [i \in 1..n |-> IF i = 1 THEN seqs[i] ELSE g[i - 1] \o seqs[i]]
           S == {n \in Nat : \E g : Upto(g, n)}
<1>1. 0 \in S
  <2>1. Upto([i \in 1..0 |-> <<>>], 0)
    OBVIOUS
  <2> QED BY <2>1
<1>2. ASSUME NEW n \in Nat, n \in S PROVE n + 1 \in S
  <2>1. PICK g : Upto(g, n)
    BY <1>2
  <2> DEFINE h == [i \in 1..n + 1 |-> IF i = 1 THEN seqs[i] ELSE g[i - 1] \o seqs[i]]
  <2>0. \A i \in 1..n : i \in 1..n + 1
    OBVIOUS
  <2>2. \A i \in 1..n : h[i] = g[i]
    <3>1. \A i \in 1..n : g[i] = IF i = 1 THEN seqs[i] ELSE g[i - 1] \o seqs[i]
      BY <2>1
    <3> QED BY <2>0, <3>1
  <2>3. \A i \in 1..n + 1 : i # 1 => i - 1 \in 1..n
    OBVIOUS
  <2>4. h = [i \in 1..n + 1 |-> IF i = 1 THEN seqs[i] ELSE h[i - 1] \o seqs[i]]
    BY <2>2, <2>3
  <2> HIDE DEF h
  <2>5. \E f : Upto(f, n + 1)
    BY <2>4, Zenon
  <2>6. n + 1 \in Nat
    OBVIOUS
  <2> QED BY <2>5, <2>6, Zenon
<1> HIDE DEF S
<1>3. Len(seqs) \in S
  BY <1>1, <1>2, InductionOnSet
<1> QED BY <1>3 DEF S, Flattens

\* FlattenSeq is its last value.
LEMMA FlattenSeqIs ==
    ASSUME NEW seqs, Len(seqs) \in Nat \ {0}
    PROVE  \E g : Flattens(g, seqs) /\ FlattenSeq(seqs) = g[Len(seqs)]
<1> DEFINE F == CHOOSE g : Flattens(g, seqs)
<1>1. Flattens(F, seqs)
  BY FlattensExists
<1>2. FlattenSeq(seqs) = F[Len(seqs)]
  BY DEF FlattenSeq, Flattens
<1> QED BY <1>1, <1>2

\* What the flattened list begins with, and how each next sequence goes on there.
Lengthens(g, seqs, S) ==
    /\ \A i \in 1..Len(seqs) : g[i] \in Seq(S)
    /\ Len(seqs) > 0 => g[1] = seqs[1]
    /\ \A i \in 1..Len(seqs) : i # 1 =>
          /\ g[i] = g[i - 1] \o seqs[i]
          /\ Len(g[i]) = Len(g[i - 1]) + Len(seqs[i])
    /\ \A i, j \in 1..Len(seqs) : i <= j =>
          /\ Len(g[i]) <= Len(g[j])
          /\ \A k \in 1..Len(g[i]) : g[j][k] = g[i][k]

\* Each value of such a function is a prefix of the next ones.
LEMMA FlattenSeqPrefixes ==
    ASSUME NEW S, NEW seqs \in Seq(Seq(S)), NEW g, Flattens(g, seqs)
    PROVE  Lengthens(g, seqs, S)
<1> DEFINE n == Len(seqs)
<1>0. n \in Nat /\ \A i \in 1..n : seqs[i] \in Seq(S)
  OBVIOUS
<1> HIDE DEF n
<1>1. \A i \in 1..n : g[i] = IF i = 1 THEN seqs[i] ELSE g[i - 1] \o seqs[i]
  BY DEF Flattens, n
<1>2. \A i \in 1..n : g[i] \in Seq(S)
  <2> DEFINE P == {m \in Nat : m \in 1..n => g[m] \in Seq(S)}
  <2>1. 0 \in P
    OBVIOUS
  <2>2. ASSUME NEW m \in Nat, m \in P PROVE m + 1 \in P
    <3> SUFFICES ASSUME m + 1 \in 1..n PROVE g[m + 1] \in Seq(S)
      OBVIOUS
    <3>1. CASE m = 0
      BY <1>0, <1>1, <3>1
    <3>2. CASE m # 0
      <4>1. g[m] \in Seq(S) /\ m + 1 # 1 /\ m + 1 - 1 = m
        BY <2>2, <3>2, <1>0
      <4>2. g[m + 1] = g[m] \o seqs[m + 1]
        <5>1. PICK i \in 1..n : i = m + 1 /\ i # 1 /\ i - 1 = m
          BY <4>1
        <5> QED BY <1>1, <5>1
      <4>3. seqs[m + 1] \in Seq(S)
        BY <1>0
      <4> QED BY <4>1, <4>2, <4>3, ConcatProperties
    <3> QED BY <3>1, <3>2
  <2> HIDE DEF P
  <2>3. Nat \subseteq P
    BY <2>1, <2>2, InductionOnSet
  <2> QED BY <2>3, <1>0 DEF P
<1>3. \A i \in 1..n : i # 1 =>
        /\ i - 1 \in 1..n
        /\ g[i] = g[i - 1] \o seqs[i]
        /\ Len(g[i]) = Len(g[i - 1]) + Len(seqs[i])
        /\ \A k \in 1..Len(g[i - 1]) : g[i][k] = g[i - 1][k]
  <2> SUFFICES ASSUME NEW i \in 1..n, i # 1
               PROVE  /\ i - 1 \in 1..n
                      /\ g[i] = g[i - 1] \o seqs[i]
                      /\ Len(g[i]) = Len(g[i - 1]) + Len(seqs[i])
                      /\ \A k \in 1..Len(g[i - 1]) : g[i][k] = g[i - 1][k]
    OBVIOUS
  <2>1. i - 1 \in 1..n
    BY <1>0
  <2>2. g[i] = g[i - 1] \o seqs[i]
    BY <1>1
  <2>3. g[i - 1] \in Seq(S) /\ seqs[i] \in Seq(S)
    BY <1>0, <1>2, <2>1
  <2> DEFINE a == g[i - 1]  b == seqs[i]
  <2> HIDE DEF a, b
  <2>4. a \in Seq(S) /\ b \in Seq(S) /\ g[i] = a \o b
    BY <2>2, <2>3 DEF a, b
  <2>5. Len(g[i]) = Len(a) + Len(b) /\ \A k \in 1..Len(a) : g[i][k] = a[k]
    BY <2>4, ConcatProperties
  <2> QED BY <2>1, <2>2, <2>5 DEF a, b
<1>4. \A i, j \in 1..n : i <= j =>
        /\ Len(g[i]) <= Len(g[j])
        /\ \A k \in 1..Len(g[i]) : g[j][k] = g[i][k]
  <2> TAKE i \in 1..n
  <2> DEFINE Extends(j) == /\ Len(g[i]) <= Len(g[j])
                           /\ \A k \in 1..Len(g[i]) : g[j][k] = g[i][k]
             P == {m \in Nat : m \in 1..n /\ i <= m => Extends(m)}
  <2>0. \A m \in 1..n : Len(g[m]) \in Nat
    BY <1>2
  <2>1. 0 \in P
    OBVIOUS
  <2>2. ASSUME NEW m \in Nat, m \in P PROVE m + 1 \in P
    <3> SUFFICES ASSUME NEW h \in 1..n, h = m + 1, i <= h PROVE Extends(h)
      OBVIOUS
    <3>1. CASE i = h
      BY <2>0, <3>1
    <3>2. CASE i # h
      <4>1. m \in 1..n /\ i <= m /\ h # 1 /\ h - 1 = m
        BY <1>0, <3>2
      <4>2. Extends(m)
        BY <2>2, <4>1
      <4>3. /\ Len(g[h]) = Len(g[m]) + Len(seqs[h])
            /\ \A k \in 1..Len(g[m]) : g[h][k] = g[m][k]
        <5>1. /\ Len(g[h]) = Len(g[h - 1]) + Len(seqs[h])
              /\ \A k \in 1..Len(g[h - 1]) : g[h][k] = g[h - 1][k]
          BY <1>3, <4>1, Zenon
        <5> QED BY <4>1, <5>1, Zenon
      <4> DEFINE a == Len(g[i])  b == Len(g[m])  c == Len(g[h])  d == Len(seqs[h])
      <4>4. a \in Nat /\ b \in Nat /\ c \in Nat /\ d \in Nat
        BY <1>0, <2>0, <4>1
      <4>5. a <= b /\ c = b + d
        BY <4>2, <4>3
      <4>6. \A k \in 1..a : g[m][k] = g[i][k]
        BY <4>2
      <4>7. \A k \in 1..b : g[h][k] = g[m][k]
        BY <4>3
      <4> HIDE DEF a, b, c, d
      <4>8. a <= c /\ \A k \in 1..a : k \in 1..b
        BY <4>4, <4>5
      <4>9. \A k \in 1..a : g[h][k] = g[i][k]
        BY <4>6, <4>7, <4>8
      <4> QED BY <4>8, <4>9 DEF a, c
    <3> QED BY <3>1, <3>2
  <2> HIDE DEF P
  <2>3. Nat \subseteq P
    BY <2>1, <2>2, InductionOnSet
  <2> QED BY <2>3, <1>0 DEF P
<1>5. n > 0 => g[1] = seqs[1]
  BY <1>0, <1>1
<1> QED BY <1>2, <1>3, <1>4, <1>5, Zenon DEF n, Lengthens

\* off[i] symbols of the flattened list come before the i-th of the sequences.
Splits(off, seqs) ==
    /\ off \in [1..Len(seqs) + 1 -> Nat]
    /\ off[1] = 0
    /\ \A i \in 1..Len(seqs) : off[i + 1] = off[i] + Len(seqs[i])
    /\ Len(FlattenSeq(seqs)) = off[Len(seqs) + 1]
    /\ \A i \in 1..Len(seqs) : \A k \in 1..Len(seqs[i]) :
          FlattenSeq(seqs)[off[i] + k] = seqs[i][k]
    /\ \A i \in 1..Len(seqs) + 1 : off[i] <= Len(FlattenSeq(seqs))

\* FlattenSeq puts one sequence behind the other and nothing between them.
LEMMA FlattenSeqSplits ==
    ASSUME NEW S, NEW seqs \in Seq(Seq(S)), Len(seqs) > 0
    PROVE  FlattenSeq(seqs) \in Seq(S) /\ \E off : Splits(off, seqs)
<1> DEFINE n == Len(seqs)
<1>0. n \in Nat \ {0} /\ \A i \in 1..n : seqs[i] \in Seq(S) /\ Len(seqs[i]) \in Nat
  OBVIOUS
<1>1. PICK g : Flattens(g, seqs) /\ FlattenSeq(seqs) = g[n]
  BY <1>0, FlattenSeqIs
<1>2. /\ \A i \in 1..n : g[i] \in Seq(S)
      /\ g[1] = seqs[1]
      /\ \A i \in 1..n : i # 1 => g[i] = g[i - 1] \o seqs[i] /\ Len(g[i]) = Len(g[i - 1]) + Len(seqs[i])
      /\ \A i, j \in 1..n : i <= j => /\ Len(g[i]) <= Len(g[j])
                                      /\ \A k \in 1..Len(g[i]) : g[j][k] = g[i][k]
  <2>1. Lengthens(g, seqs, S)
    BY <1>1, FlattenSeqPrefixes
  <2> QED BY <2>1, Zenon DEF Lengthens
<1> HIDE DEF n
<1> DEFINE L == [i \in 1..n |-> Len(g[i])]
           off == [i \in 1..n + 1 |-> IF i = 1 THEN 0 ELSE L[i - 1]]
<1>3. L \in [1..n -> Nat]
  BY <1>2
<1>4. /\ L[1] = Len(seqs[1])
      /\ \A i \in 1..n : i # 1 => L[i] = L[i - 1] + Len(seqs[i])
      /\ \A i \in 1..n : L[i] <= L[n]
      /\ L[n] = Len(FlattenSeq(seqs))
  <2>1. 1 \in 1..n /\ n \in 1..n /\ \A i \in 1..n : i <= n /\ (i # 1 => i - 1 \in 1..n)
    BY <1>0
  <2>2. L[1] = Len(seqs[1]) /\ L[n] = Len(FlattenSeq(seqs))
    BY <1>1, <1>2, <2>1
  <2>3. ASSUME NEW i \in 1..n, i # 1 PROVE L[i] = L[i - 1] + Len(seqs[i])
    <3>1. i - 1 \in 1..n
      BY <2>1, <2>3
    <3> QED BY <1>2, <2>3, <3>1
  <2>4. ASSUME NEW i \in 1..n PROVE L[i] <= L[n]
    BY <1>2, <2>1
  <2> QED BY <2>2, <2>3, <2>4
<1> HIDE DEF L
<1>5. off \in [1..n + 1 -> Nat] /\ off[1] = 0
  <2>1. \A i \in 1..n + 1 : i # 1 => i - 1 \in 1..n
    BY <1>0
  <2> QED BY <1>0, <1>3, <2>1
<1>6. \A i \in 1..n : off[i + 1] = L[i]
  <2> TAKE i \in 1..n
  <2>1. i + 1 \in 1..n + 1 /\ i + 1 # 1 /\ i + 1 - 1 = i
    BY <1>0
  <2> QED BY <2>1
<1>7. \A i \in 1..n : off[i] = IF i = 1 THEN 0 ELSE L[i - 1]
  BY <1>0
<1> HIDE DEF off
<1>8. \A i \in 1..n : off[i + 1] = off[i] + Len(seqs[i])
  <2> TAKE i \in 1..n
  <2>1. CASE i = 1
    BY <1>0, <1>4, <1>6, <1>7, <2>1
  <2>2. CASE i # 1
    BY <1>4, <1>6, <1>7, <2>2
  <2> QED BY <2>1, <2>2
<1>9. off[n + 1] = Len(FlattenSeq(seqs))
  BY <1>0, <1>4, <1>6
<1>10. \A i \in 1..n : \A k \in 1..Len(seqs[i]) : FlattenSeq(seqs)[off[i] + k] = seqs[i][k]
  <2> TAKE i \in 1..n
  <2>1. \A k \in 1..Len(g[i]) : FlattenSeq(seqs)[k] = g[i][k]
    <3>1. n \in 1..n /\ i <= n
      BY <1>0
    <3> QED BY <1>1, <1>2, <3>1
  <2>2. CASE i = 1
    <3>1. off[i] = 0 /\ g[i] = seqs[i]
      BY <1>2, <1>7, <2>2
    <3>2. \A k \in 1..Len(seqs[i]) : FlattenSeq(seqs)[k] = seqs[i][k]
      BY <2>1, <3>1
    <3>3. \A k \in 1..Len(seqs[i]) : off[i] + k = k
      BY <3>1
    <3> QED BY <3>2, <3>3
  <2>3. CASE i # 1
    <3> DEFINE a == g[i - 1]  b == seqs[i]  e == g[i]
    <3>1. i - 1 \in 1..n
      BY <2>3, <1>0
    <3>2. a \in Seq(S) /\ b \in Seq(S) /\ e = a \o b /\ off[i] = Len(a)
      <4>1. off[i] = L[i - 1]
        BY <1>7, <2>3
      <4>2. L[i - 1] = Len(a)
        BY <3>1 DEF L
      <4> QED BY <1>0, <1>2, <2>3, <3>1, <4>1, <4>2
    <3>3. \A k \in 1..Len(e) : FlattenSeq(seqs)[k] = e[k]
      BY <2>1
    <3> HIDE DEF a, b, e
    <3>4. /\ Len(e) = Len(a) + Len(b) /\ Len(a) \in Nat /\ Len(b) \in Nat
          /\ \A k \in 1..Len(a) + Len(b) : e[k] = IF k <= Len(a) THEN a[k] ELSE b[k - Len(a)]
      BY <3>2, ConcatProperties
    <3>5. \A k \in 1..Len(b) : FlattenSeq(seqs)[off[i] + k] = b[k]
      <4> TAKE k \in 1..Len(b)
      <4> DEFINE l == Len(a)  m == Len(b)  p == off[i]
      <4>3. l \in Nat /\ m \in Nat /\ p = l /\ k \in 1..m /\ Len(e) = l + m
        BY <3>2, <3>4
      <4> HIDE DEF l, m, p
      <4>4. p + k \in 1..Len(e) /\ ~(p + k <= l) /\ p + k - l = k
        BY <4>3
      <4>1. \A j \in 1..Len(e) : ~(j <= l) => e[j] = b[j - l]
        BY <3>4, <4>3 DEF l
      <4>2. \A j : j = p + k => e[j] = b[k]
        <5> SUFFICES ASSUME NEW j, j = p + k PROVE e[j] = b[k]
          OBVIOUS
        <5>1. j \in 1..Len(e) /\ ~(j <= l) /\ j - l = k
          BY <4>3, <4>4
        <5>2. e[j] = b[j - l]
          BY <4>1, <5>1, Zenon
        <5> QED BY <5>1, <5>2, Zenon
      <4>5. \A j : j = p + k => FlattenSeq(seqs)[j] = b[k]
        BY <3>3, <4>2, <4>4
      <4> QED BY <4>5, Zenon DEF p
    <3> QED BY <3>5 DEF b
  <2> QED BY <2>2, <2>3
<1>11. \A i \in 1..n + 1 : off[i] <= off[n + 1]
  <2> TAKE i \in 1..n + 1
  <2>1. CASE i = 1
    BY <1>0, <1>5, <2>1
  <2>2. CASE i # 1
    <3>1. PICK j \in 1..n : i = j + 1
      BY <1>0, <2>2
    <3>2. n \in 1..n /\ off[i] = L[j] /\ off[n + 1] = L[n]
      BY <1>0, <1>6, <3>1
    <3> QED BY <1>4, <3>1, <3>2
  <2> QED BY <2>1, <2>2
<1>12. FlattenSeq(seqs) \in Seq(S)
  BY <1>0, <1>1, <1>2
<1>13. Splits(off, seqs)
  BY <1>5, <1>8, <1>9, <1>10, <1>11, Zenon DEF Splits, n
<1> QED BY <1>12, <1>13, Zenon

\* Two sequences of which one begins with the other one.
Agree(x, y) == \A k \in DOMAIN x \cap DOMAIN y : x[k] = y[k]

\* Two lists of words, none of which begins with another one that may stand in
\* its place, are the same as far as the first goes when what they flatten to is.
LEMMA PrefixFreeWords ==
    ASSUME NEW S, NEW c \in Seq(Seq(S)), NEW d \in Seq(Seq(S)),
           Len(c) > 0, Len(d) > 0,
           \A i \in 1..Len(c) : Len(c[i]) > 0,
           \A i \in 1..Len(d) : Len(d[i]) > 0,
           \A i \in 1..Len(c) : i \in 1..Len(d) =>
              (Agree(c[i], d[i]) => c[i] = d[i]),
           FlattenSeq(c) = FlattenSeq(d)
    PROVE  Len(c) <= Len(d) /\ \A i \in 1..Len(c) : c[i] = d[i]
<1> DEFINE m == Len(c)  n == Len(d)  F == FlattenSeq(c)
<1>0. /\ m \in Nat \ {0} /\ n \in Nat \ {0}
      /\ \A i \in 1..m : c[i] \in Seq(S) /\ Len(c[i]) \in Nat \ {0} /\ DOMAIN c[i] = 1..Len(c[i])
      /\ \A i \in 1..n : d[i] \in Seq(S) /\ Len(d[i]) \in Nat \ {0} /\ DOMAIN d[i] = 1..Len(d[i])
  OBVIOUS
<1>1. PICK p : Splits(p, c)
  BY FlattenSeqSplits
<1>2. PICK q : Splits(q, d)
  BY FlattenSeqSplits
<1> HIDE DEF m, n, F
<1>3. /\ p \in [1..m + 1 -> Nat] /\ p[1] = 0
      /\ \A i \in 1..m : p[i + 1] = p[i] + Len(c[i])
      /\ Len(F) = p[m + 1]
      /\ \A i \in 1..m : \A k \in 1..Len(c[i]) : F[p[i] + k] = c[i][k]
      /\ \A i \in 1..m + 1 : p[i] <= Len(F)
  BY <1>1, Zenon DEF Splits, m, F
<1>4. /\ q \in [1..n + 1 -> Nat] /\ q[1] = 0
      /\ \A i \in 1..n : q[i + 1] = q[i] + Len(d[i])
      /\ Len(F) = q[n + 1]
      /\ \A i \in 1..n : \A k \in 1..Len(d[i]) : F[q[i] + k] = d[i][k]
      /\ \A i \in 1..n + 1 : q[i] <= Len(F)
  BY <1>2, Zenon DEF Splits, n, F
<1>5. \A i \in 1..m : i \in 1..n =>
        (Agree(c[i], d[i]) => c[i] = d[i])
  BY DEF m, n
<1> DEFINE P == {j \in Nat : j + 1 \in 1..m + 1 =>
                    /\ j + 1 \in 1..n + 1
                    /\ p[j + 1] = q[j + 1]
                    /\ \A i \in 1..j : c[i] = d[i]}
<1>6. 0 \in P
  BY <1>0, <1>3, <1>4
<1>7. ASSUME NEW j \in Nat, j \in P PROVE j + 1 \in P
  <2> SUFFICES ASSUME NEW h \in Nat, h = j + 1, h \in 1..m
               PROVE  /\ h \in 1..n
                      /\ p[h + 1] = q[h + 1]
                      /\ \A i \in 1..h : c[i] = d[i]
    BY <1>0
  <2>1. h \in 1..n + 1 /\ p[h] = q[h] /\ \A i \in 1..j : c[i] = d[i]
    BY <1>0, <1>7
  <2>2. p[h] \in Nat /\ q[h] \in Nat /\ p[h + 1] \in Nat
    BY <1>0, <1>3, <1>4, <2>1
  <2>3. p[h + 1] = p[h] + Len(c[h]) /\ Len(c[h]) \in Nat \ {0} /\ p[h + 1] <= Len(F)
    BY <1>0, <1>3
  <2>4. h # n + 1
    <3>1. p[h] < p[h + 1]
      <4>1. \A x, y \in Nat, l \in Nat \ {0} : y = x + l => x < y
        OBVIOUS
      <4> QED BY <2>2, <2>3, <4>1, Zenon
    <3>2. p[h] < Len(F)
      BY <1>0, <2>2, <2>3, <3>1
    <3>3. ASSUME h = n + 1 PROVE p[h] = Len(F)
      BY <1>4, <2>1, <3>3, Zenon
    <3> QED BY <1>0, <2>2, <3>2, <3>3
  <2>5. h \in 1..n
    BY <1>0, <2>1, <2>4
  <2>6. Agree(c[h], d[h])
    <3> SUFFICES \A k \in DOMAIN c[h] \cap DOMAIN d[h] : c[h][k] = d[h][k]
      BY DEF Agree
    <3> TAKE k \in DOMAIN c[h] \cap DOMAIN d[h]
    <3>1. k \in 1..Len(c[h]) /\ k \in 1..Len(d[h])
      BY <1>0, <2>5
    <3>2. F[p[h] + k] = c[h][k]
      BY <1>3, <3>1
    <3>3. F[q[h] + k] = d[h][k]
      BY <1>4, <2>5, <3>1
    <3> QED BY <2>1, <3>2, <3>3
  <2>7. c[h] = d[h]
    BY <1>5, <2>5, <2>6
  <2>8. q[h + 1] = q[h] + Len(d[h])
    BY <1>4, <2>5
  <2>9. \A i \in 1..h : i \in 1..j \/ i = h
    BY <1>0
  <2> QED BY <2>1, <2>3, <2>5, <2>7, <2>8, <2>9
<1> HIDE DEF P
<1>8. m \in P
  BY <1>0, <1>6, <1>7, InductionOnSet
<1>9. m + 1 \in 1..m + 1
  BY <1>0
<1>10. m + 1 \in 1..n + 1 /\ \A i \in 1..m : c[i] = d[i]
  BY <1>8, <1>9 DEF P
<1>11. m <= n
  BY <1>0, <1>10
<1> QED BY <1>10, <1>11 DEF m, n

-----------------------------------------------------------------------------
\* What a unit name is made of.
Symbols ==
    STRING \cup {"\\", "x", "2", "e", "d", "5", "c", "0", "-",
                "systemd-cryptsetup@", ".service"}

\* Each byte is written as one character or as four.
LEMMA EscapedByteType ==
    ASSUME NEW b \in STRING, NEW i \in Nat
    PROVE  EscapedByte(b, i = 1) \in Seq(Symbols) /\ Len(EscapedByte(b, i = 1)) \in {1, 4}
<1>1. \A x \in Symbols : <<x>> \in Seq(Symbols) /\ Len(<<x>>) = 1
  OBVIOUS
<1>2. \A w, x, y, z \in Symbols : <<w, x, y, z>> \in Seq(Symbols) /\ Len(<<w, x, y, z>>) = 4
  OBVIOUS
<1>3. /\ b \in Symbols /\ "\\" \in Symbols /\ "x" \in Symbols /\ "2" \in Symbols
      /\ "e" \in Symbols /\ "d" \in Symbols /\ "5" \in Symbols /\ "c" \in Symbols
      /\ "0" \in Symbols /\ "-" \in Symbols
  BY DEF Symbols
<1> QED BY <1>1, <1>2, <1>3 DEF EscapedByte

\* What one byte is written as is not what another one's begins with.
LEMMA EscapedByteCode ==
    ASSUME NEW b \in STRING, NEW c \in STRING, NEW i \in Nat
    PROVE  Agree(EscapedByte(b, i = 1), EscapedByte(c, i = 1)) => b = c
<1> DEFINE Numbered(x) == x = "-" \/ x = "\\" \/ x = " " \/ (x = "." /\ i = 1)
           E(x) == EscapedByte(x, i = 1)
<1>1. \A x \in STRING : Numbered(x) =>
        /\ Len(E(x)) = 4 /\ E(x)[1] = "\\"
        /\ x = "." => E(x)[4] = "e"
        /\ x = "-" => E(x)[4] = "d"
        /\ x = "\\" => E(x)[4] = "c"
        /\ x = " " => E(x)[4] = "0"
  BY DEF EscapedByte
<1>2. \A x \in STRING : ~Numbered(x) =>
        /\ x = "/" => E(x)[1] = "-"
        /\ x # "/" => E(x)[1] = x
  BY DEF EscapedByte
<1>3. \A x : ~Numbered(x) => x # "-" /\ x # "\\"
  OBVIOUS
<1>4. \A x : Numbered(x) => x = "." \/ x = "-" \/ x = "\\" \/ x = " "
  OBVIOUS
<1> HIDE DEF Numbered
<1>10. \A x \in STRING : /\ 1 \in DOMAIN E(x)
                         /\ Numbered(x) => 4 \in DOMAIN E(x)
  <2> TAKE x \in STRING
  <2>1. E(x) \in Seq(Symbols) /\ Len(E(x)) \in {1, 4}
    BY EscapedByteType
  <2>2. Numbered(x) => Len(E(x)) = 4
    BY <1>1
  <2> HIDE DEF E
  <2>3. DOMAIN E(x) = 1..Len(E(x))
    BY <2>1, LenProperties
  <2>4. CASE Len(E(x)) = 1
    <3>1. 1 \in DOMAIN E(x)
      BY <2>3, <2>4
    <3>2. Len(E(x)) # 4
      BY <2>4
    <3> QED BY <2>2, <3>1, <3>2, Zenon
  <2>5. CASE Len(E(x)) = 4
    BY <2>3, <2>5
  <2> QED BY <2>1, <2>4, <2>5
<1> HIDE DEF E
<1>11. SUFFICES ASSUME Agree(E(b), E(c)) PROVE b = c
  BY Zenon DEF E
<1>5. \A k \in DOMAIN E(b) \cap DOMAIN E(c) : E(b)[k] = E(c)[k]
  BY <1>11, Zenon DEF Agree
<1>6. E(b)[1] = E(c)[1]
  BY <1>5, <1>10, Zenon
<1>7. CASE Numbered(b) /\ Numbered(c)
  <2>1. E(b)[4] = E(c)[4]
    BY <1>5, <1>7, <1>10, Zenon
  <2> QED BY <1>1, <1>4, <1>7, <2>1
<1>8. CASE ~Numbered(b) /\ ~Numbered(c)
  <2>1. E(b)[1] = IF b = "/" THEN "-" ELSE b
    BY <1>2, <1>8
  <2>2. E(c)[1] = IF c = "/" THEN "-" ELSE c
    BY <1>2, <1>8
  <2>3. b # "-" /\ c # "-"
    BY <1>3, <1>8
  <2> QED BY <1>6, <2>1, <2>2, <2>3
<1>9. ASSUME NEW x \in STRING, NEW y \in STRING, E(x)[1] = E(y)[1],
             Numbered(x), ~Numbered(y)
      PROVE  FALSE
  <2>1. E(x)[1] = "\\"
    BY <1>1, <1>9
  <2>2. E(y)[1] = IF y = "/" THEN "-" ELSE y
    BY <1>2, <1>9
  <2>3. y # "\\"
    BY <1>3, <1>9
  <2> QED BY <1>9, <2>1, <2>2, <2>3
<1> QED BY <1>6, <1>7, <1>8, <1>9

-----------------------------------------------------------------------------
\* The characters of a name one after the other, each as it is written.
Codes(s) == [i \in DOMAIN s |-> EscapedByte(s[i], i = 1)]

\* It is a list, and UnitEscape flattens it.
LEMMA CodesType ==
    ASSUME NEW s \in Seq(STRING), s # <<>>
    PROVE  /\ Codes(s) \in Seq(Seq(Symbols)) /\ Len(Codes(s)) = Len(s) /\ Len(s) > 0
           /\ \A i \in 1..Len(s) : /\ Codes(s)[i] = EscapedByte(s[i], i = 1)
                                   /\ Len(Codes(s)[i]) \in {1, 4}
           /\ UnitEscape(s) = FlattenSeq(Codes(s))
<1>1. Len(s) \in Nat \ {0} /\ DOMAIN s = 1..Len(s) /\ \A i \in 1..Len(s) : s[i] \in STRING
  BY EmptySeq
<1>2. Codes(s) = [i \in 1..Len(s) |-> EscapedByte(s[i], i = 1)]
  BY <1>1 DEF Codes
<1>3. \A i \in 1..Len(s) : /\ EscapedByte(s[i], i = 1) \in Seq(Symbols)
                           /\ Len(EscapedByte(s[i], i = 1)) \in {1, 4}
  <2> TAKE i \in 1..Len(s)
  <2>1. i \in Nat /\ s[i] \in STRING
    BY <1>1
  <2> QED BY <2>1, EscapedByteType
<1>4. Codes(s) \in [1..Len(s) -> Seq(Symbols)]
  BY <1>2, <1>3
<1>5. Codes(s) \in Seq(Seq(Symbols)) /\ Len(Codes(s)) = Len(s)
  BY <1>1, <1>4, IsASeq, LenProperties
<1>6. UnitEscape(s) = FlattenSeq(Codes(s))
  BY DEF UnitEscape, Codes
<1>7. \A i \in 1..Len(s) : Codes(s)[i] = EscapedByte(s[i], i = 1)
  BY <1>2
<1>8. \A i \in 1..Len(s) : Len(Codes(s)[i]) \in {1, 4}
  BY <1>3, <1>7, Zenon
<1>9. Len(s) > 0
  BY <1>1
<1> QED BY <1>5, <1>6, <1>7, <1>8, <1>9, Zenon


\* No two volumes have one unit: unit_escape writes no two names alike.
THEOREM UnitEscapeInjective ==
    ASSUME NEW s \in Seq(STRING), NEW t \in Seq(STRING), s # <<>>, t # <<>>,
           UnitEscape(s) = UnitEscape(t)
    PROVE  s = t
<1>1. ASSUME NEW u \in Seq(STRING), NEW v \in Seq(STRING), u # <<>>, v # <<>>,
             UnitEscape(u) = UnitEscape(v)
      PROVE  Len(u) <= Len(v) /\ \A i \in 1..Len(u) : u[i] = v[i]
  <2> DEFINE c == Codes(u)  d == Codes(v)
  <2>0. /\ Len(u) \in Nat /\ \A i \in 1..Len(u) : u[i] \in STRING
        /\ Len(v) \in Nat /\ \A i \in 1..Len(v) : v[i] \in STRING
    OBVIOUS
  <2>1. /\ c \in Seq(Seq(Symbols)) /\ Len(c) = Len(u) /\ Len(u) > 0
        /\ \A i \in 1..Len(u) : c[i] = EscapedByte(u[i], i = 1) /\ Len(c[i]) \in {1, 4}
        /\ UnitEscape(u) = FlattenSeq(c)
    BY <1>1, CodesType
  <2>2. /\ d \in Seq(Seq(Symbols)) /\ Len(d) = Len(v) /\ Len(v) > 0
        /\ \A i \in 1..Len(v) : d[i] = EscapedByte(v[i], i = 1) /\ Len(d[i]) \in {1, 4}
        /\ UnitEscape(v) = FlattenSeq(d)
    BY <1>1, CodesType
  <2> HIDE DEF c, d
  <2>3. ASSUME NEW i \in 1..Len(u), i \in 1..Len(v),
               Agree(c[i], d[i])
        PROVE  u[i] = v[i]
    <3>1. u[i] \in STRING /\ v[i] \in STRING /\ i \in Nat
      BY <2>0, <2>3
    <3>2. c[i] = EscapedByte(u[i], i = 1) /\ d[i] = EscapedByte(v[i], i = 1)
      BY <2>1, <2>2, <2>3, Zenon
    <3>3. Agree(EscapedByte(u[i], i = 1), EscapedByte(v[i], i = 1))
      BY <2>3, <3>2, Zenon
    <3> QED BY <3>1, <3>3, EscapedByteCode, Zenon
  <2>4. \A i \in 1..Len(u) : i \in 1..Len(v) =>
          (Agree(c[i], d[i]) => c[i] = d[i])
    <3> TAKE i \in 1..Len(u)
    <3> SUFFICES ASSUME i \in 1..Len(v), Agree(c[i], d[i]) PROVE c[i] = d[i]
      OBVIOUS
    <3>1. u[i] = v[i]
      BY <2>3, Zenon
    <3>2. c[i] = EscapedByte(u[i], i = 1) /\ d[i] = EscapedByte(v[i], i = 1)
      BY <2>1, <2>2, Zenon
    <3> QED BY <3>1, <3>2, Zenon
  <2>5. /\ Len(c) > 0 /\ Len(d) > 0
        /\ \A i \in 1..Len(c) : Len(c[i]) > 0
        /\ \A i \in 1..Len(d) : Len(d[i]) > 0
    <3>1. \A l \in {1, 4} : l > 0
      OBVIOUS
    <3> QED BY <2>1, <2>2, <3>1, Zenon
  <2>6. FlattenSeq(c) = FlattenSeq(d)
    BY <1>1, <2>1, <2>2, Zenon
  <2>7. Len(c) <= Len(d) /\ \A i \in 1..Len(c) : c[i] = d[i]
    <3>1. c \in Seq(Seq(Symbols)) /\ d \in Seq(Seq(Symbols))
      BY <2>1, <2>2
    <3>2. \A i \in 1..Len(c) : i \in 1..Len(d) => (Agree(c[i], d[i]) => c[i] = d[i])
      BY <2>1, <2>2, <2>4, Zenon
    <3> QED BY <2>5, <2>6, <3>1, <3>2, PrefixFreeWords, Zenon
  <2>8. \A i \in 1..Len(u) : i \in 1..Len(v)
    BY <2>0, <2>1, <2>2, <2>7
  <2>9. \A i \in 1..Len(u) : u[i] = v[i]
    <3> TAKE i \in 1..Len(u)
    <3>1. c[i] = d[i]
      BY <2>1, <2>7, Zenon
    <3>2. Agree(c[i], d[i])
      BY <3>1, Zenon DEF Agree
    <3> QED BY <2>3, <2>8, <3>2, Zenon
  <2> QED BY <2>1, <2>2, <2>7, <2>9, Zenon
<1>2. Len(s) <= Len(t) /\ \A i \in 1..Len(s) : s[i] = t[i]
  BY <1>1, Zenon
<1>3. Len(t) <= Len(s)
  BY <1>1, Zenon
<1>4. Len(s) = Len(t)
  BY <1>2, <1>3
<1> QED BY <1>2, <1>4, SeqEqual, Zenon

-----------------------------------------------------------------------------
\* There has always been a process with the peer's pid, the peer to begin with.
LEMMA ProcessType ==
    ASSUME TypeOK
    PROVE  /\ process \in Seq(Processes) /\ Len(process) \in Nat \ {0}
           /\ Peer \in Processes
           /\ Len(process) = 1 => Current = Peer
<1>1. process \in Seq(Processes) /\ process # <<>>
  BY DEF TypeOK
<1>2. Len(process) \in Nat \ {0}
  BY <1>1, EmptySeq
<1> QED BY <1>1, <1>2 DEF Peer, Current, Last

\* What goes on outside handle.
Outside == Exits \/ Reaped \/ Recycled

\* The peer stays who it was, and once its pid is another's it stays that way.
LEMMA PeerStays ==
    ASSUME TypeOK, Outside
    PROVE  /\ UNCHANGED <<pc, name, pinned, failed>> /\ Peer' = Peer
           /\ state' \in {"running", "zombie", "reaped"}
           /\ process' \in Seq(Processes) /\ process' # <<>> /\ Len(process') <= MaxProcesses
           /\ Len(process') = 1 => Len(process) = 1
           /\ Len(process') = 1 /\ state' = "running" => state = "running"
<1>1. CASE Exits \/ Reaped
  BY <1>1 DEF Exits, Reaped, TypeOK, Peer
<1>2. CASE Recycled
  <2>1. PICK p \in Processes : process' = Append(process, p)
    BY <1>2 DEF Recycled
  <2>2. process \in Seq(Processes) /\ Len(process) \in Nat \ {0}
    BY ProcessType
  <2>3. /\ Append(process, p) \in Seq(Processes)
        /\ Len(Append(process, p)) = Len(process) + 1
        /\ Append(process, p)[1] = process[1]
    BY <2>2, AppendProperties
  <2>4. Len(process) + 1 <= MaxProcesses /\ MaxProcesses \in Nat
    BY <1>2, <2>2, HandshakeAssumption DEF Recycled, HandshakeAssumption
  <2>5. process' \in Seq(Processes) /\ Len(process') <= MaxProcesses
    BY <2>1, <2>3, <2>4
  <2>6. process' # <<>> /\ Len(process') # 1
    BY <2>1, <2>2, <2>3
  <2> QED BY <1>2, <2>1, <2>3, <2>5, <2>6 DEF Recycled, Peer
<1> QED BY <1>1, <1>2 DEF Outside

\* Every variable keeps its type, and only a peer with a name goes beyond the first step.
THEOREM HandshakeTypeCorrect == Spec => []TypeOK
<1>1. Init => TypeOK
  <2> SUFFICES ASSUME Init PROVE TypeOK
    OBVIOUS
  <2>1. PICK p \in Processes : process = <<p>>
    BY DEF Init
  <2>2. process \in Seq(Processes) /\ Len(process) = 1
    BY <2>1
  <2>3. process \in Seq(Processes) /\ process # <<>> /\ Len(process) <= MaxProcesses
    BY <2>1, <2>2, HandshakeAssumption DEF HandshakeAssumption
  <2> QED BY <2>3 DEF Init, TypeOK
<1>2. TypeOK /\ [Next]_vars => TypeOK'
  <2> SUFFICES ASSUME TypeOK, [Next]_vars PROVE TypeOK'
    OBVIOUS
  <2>1. CASE Dispatch
    BY <2>1 DEF Dispatch, Goto, TypeOK, Answered
  <2>2. CASE Cred \/ Pid \/ Cgroup \/ Exe \/ Alive
    BY <2>2 DEF Cred, Pid, Cgroup, Exe, Alive, Goto, TypeOK
  <2>3. CASE Fails
    BY <2>3 DEF Fails, TypeOK
  <2>4. CASE Outside
    BY <2>4, PeerStays DEF TypeOK
  <2>5. CASE UNCHANGED vars
    BY <2>5 DEF vars, TypeOK
  <2> QED BY <2>1, <2>2, <2>3, <2>4, <2>5 DEF Next, Outside
<1> QED BY <1>1, <1>2, PTL DEF Spec

\* A peer that has come past a step has what the step asks for.
LEMMA PassedInvariant == Spec => []PassedInv
<1>1. Init => PassedInv
  BY DEF Init, PassedInv
<1>2. TypeOK /\ PassedInv /\ [Next]_vars => PassedInv'
  <2> SUFFICES ASSUME TypeOK, PassedInv, [Next]_vars PROVE PassedInv'
    OBVIOUS
  <2> USE DEF PassedInv
  <2>0. Len(process) = 1 => Current = Peer
    BY ProcessType
  <2>1. ASSUME UNCHANGED <<name, process>>
        PROVE  /\ Peer' = Peer /\ PeerInUnit' = PeerInUnit
               /\ Answered(name)' = Answered(name)
    BY <2>1 DEF Peer, PeerInUnit, Answered
  <2>2. CASE Dispatch
    BY <2>1, <2>2 DEF Dispatch, Goto
  <2>3. CASE Cred
    BY <2>1, <2>3 DEF Cred, Goto
  <2>4. CASE Pid
    BY <2>1, <2>4 DEF Pid, Goto
  <2>5. CASE Cgroup
    BY <2>0, <2>1, <2>5 DEF Cgroup, Goto, PeerInUnit
  <2>6. CASE Exe
    BY <2>0, <2>1, <2>6 DEF Exe, Goto
  <2>7. CASE Alive
    <3>0. /\ pc = "alive" /\ UNCHANGED <<name, pinned, process, state, failed>>
          /\ pc' = IF pinned /\ (Len(process) > 1 \/ state = "reaped") THEN "declined" ELSE "served"
      BY <2>7 DEF Alive, Goto
    <3>1. CASE pc' = "served"
      <4>1. pinned => Len(process) = 1
        <5> SUFFICES ASSUME pinned PROVE Len(process) = 1
          OBVIOUS
        <5>1. ~(Len(process) > 1)
          <6>1. "served" # "declined"
            OBVIOUS
          <6> QED BY <3>0, <3>1, <6>1, Zenon
        <5>2. Len(process) \in Nat \ {0}
          BY ProcessType
        <5> QED BY <5>1, <5>2
      <4>2. pinned => PeerInUnit /\ Peer.exe = "systemd-cryptsetup"
        BY <3>0, <4>1, Zenon
      <4> QED BY <2>1, <3>0, <3>1, <4>2
    <3>2. CASE pc' = "declined"
      <4>1. Len(process) > 1 \/ state = "reaped"
        BY <3>0, <3>2
      <4>2. ~(Len(process) = 1 /\ state = "running")
        <5>1. Len(process) \in Nat \ {0}
          BY ProcessType
        <5>2. \A l \in Nat \ {0} : l > 1 => l # 1
          OBVIOUS
        <5>3. "reaped" # "running"
          OBVIOUS
        <5> QED BY <4>1, <5>1, <5>2, <5>3, Zenon
      <4> QED BY <2>1, <3>0, <3>2, <4>2
    <3> QED BY <3>0, <3>1, <3>2
  <2>8. CASE Fails
    BY <2>1, <2>8 DEF Fails
  <2>9. CASE Outside
    <3>1. PeerInUnit' = PeerInUnit /\ Answered(name)' = Answered(name)
      BY <2>9, PeerStays DEF PeerInUnit, Answered
    <3> QED BY <2>9, <3>1, PeerStays
  <2>10. CASE UNCHANGED vars
    BY <2>1, <2>10 DEF vars
  <2> QED BY <2>2, <2>3, <2>4, <2>5, <2>6, <2>7, <2>8, <2>9, <2>10 DEF Next, Outside
<1> QED BY <1>1, <1>2, HandshakeTypeCorrect, PTL DEF Spec

-----------------------------------------------------------------------------
\* What is put around a name to make a unit's name of it.
LEMMA UnitOfShape ==
    ASSUME NEW s \in Seq(STRING), s # <<>>
    PROVE  /\ UnitEscape(s) \in Seq(Symbols) /\ Len(UnitEscape(s)) \in Nat
           /\ Len(UnitOf(s)) = Len(UnitEscape(s)) + 2
           /\ \A k \in 1..Len(UnitEscape(s)) : UnitOf(s)[k + 1] = UnitEscape(s)[k]
<1> DEFINE a == <<"systemd-cryptsetup@">>  e == UnitEscape(s)  z == <<".service">>
<1>1. e \in Seq(Symbols)
  BY CodesType, FlattenSeqSplits, Zenon
<1>2. a \in Seq(Symbols) /\ Len(a) = 1 /\ z \in Seq(Symbols) /\ Len(z) = 1
  BY DEF Symbols
<1>3. UnitOf(s) = (a \o e) \o z
  BY DEF UnitOf
<1> HIDE DEF a, e, z
<1>4. /\ a \o e \in Seq(Symbols) /\ Len(a \o e) = Len(a) + Len(e) /\ Len(e) \in Nat
      /\ \A k \in 1..Len(a) + Len(e) :
            (a \o e)[k] = IF k <= Len(a) THEN a[k] ELSE e[k - Len(a)]
  <2>1. Len(e) \in Nat
    BY <1>1
  <2> QED BY <1>1, <1>2, <2>1, ConcatProperties, Zenon
<1> DEFINE b == a \o e
<1>5. b \in Seq(Symbols) /\ Len(b) = Len(e) + 1 /\ Len(b) \in Nat
  BY <1>2, <1>4
<1>6. \A k \in 1..Len(e) : b[k + 1] = e[k]
  <2> SUFFICES ASSUME NEW k \in 1..Len(e), NEW j, j = k + 1 PROVE b[j] = e[k]
    OBVIOUS
  <2>1. j \in 1..Len(a) + Len(e) /\ ~(j <= Len(a)) /\ j - Len(a) = k
    BY <1>2, <1>4
  <2> QED BY <1>4, <2>1, Zenon
<1> HIDE DEF b
<1>7. /\ Len(b \o z) = Len(b) + Len(z)
      /\ \A k \in 1..Len(b) + Len(z) : (b \o z)[k] = IF k <= Len(b) THEN b[k] ELSE z[k - Len(b)]
  BY <1>2, <1>5, ConcatProperties
<1>8. Len(b \o z) = Len(e) + 2
  BY <1>2, <1>4, <1>5, <1>7
<1>9. \A k \in 1..Len(e) : (b \o z)[k + 1] = e[k]
  <2> TAKE k \in 1..Len(e)
  <2>1. k + 1 \in 1..Len(b) + Len(z) /\ k + 1 <= Len(b)
    BY <1>2, <1>4, <1>5
  <2>2. (b \o z)[k + 1] = b[k + 1]
    BY <1>7, <2>1, Zenon
  <2> QED BY <1>6, <2>2, Zenon
<1> QED BY <1>1, <1>3, <1>4, <1>8, <1>9, Zenon DEF e, b

\* The names of two volumes' units are two.
LEMMA UnitOfInjective ==
    ASSUME NEW s \in Seq(STRING), NEW t \in Seq(STRING), s # <<>>, t # <<>>,
           UnitOf(s) = UnitOf(t)
    PROVE  s = t
<1> DEFINE d == UnitEscape(s)  e == UnitEscape(t)
<1>1. /\ d \in Seq(Symbols) /\ Len(d) \in Nat
      /\ Len(UnitOf(s)) = Len(d) + 2
      /\ \A k \in 1..Len(d) : UnitOf(s)[k + 1] = d[k]
  BY UnitOfShape
<1>2. /\ e \in Seq(Symbols) /\ Len(e) \in Nat
      /\ Len(UnitOf(t)) = Len(e) + 2
      /\ \A k \in 1..Len(e) : UnitOf(t)[k + 1] = e[k]
  BY UnitOfShape
<1> HIDE DEF d, e
<1>3. Len(d) = Len(e)
  <2>1. \A m, n \in Nat : m + 2 = n + 2 => m = n
    OBVIOUS
  <2>2. Len(d) + 2 = Len(e) + 2
    BY <1>1, <1>2, Zenon
  <2> QED BY <1>1, <1>2, <2>1, <2>2, Zenon
<1>4. \A k \in 1..Len(d) : d[k] = e[k]
  BY <1>1, <1>2, <1>3, Zenon
<1>5. d = e
  BY <1>1, <1>2, <1>3, <1>4, SeqEqual, Zenon
<1> QED BY <1>5, UnitEscapeInjective, Zenon DEF d, e

\* Only the cgroup of the unit itself passes for it, or one made elsewhere: a
\* slice's name and that of a cgroup under the unit's are single words, and the
\* unit's is not.
LEMMA OnlyTheUnit ==
    ASSUME NEW cgroup \in Placed \cup Made, InUnit(cgroup, UnitOf(Managed))
    PROVE  cgroup = <<Slice, UnitOf(Managed)>> \/ cgroup = <<Elsewhere, UnitOf(Managed)>>
<1>1. Managed \in Seq(STRING) /\ Managed # <<>>
  BY HandshakeAssumption DEF HandshakeAssumption
<1>2. \A x : UnitOf(Managed) # <<x>>
  <2>1. Len(UnitOf(Managed)) = Len(UnitEscape(Managed)) + 2 /\ Len(UnitEscape(Managed)) \in Nat
    BY <1>1, UnitOfShape
  <2>2. Len(UnitOf(Managed)) # 1
    <3>1. \A n \in Nat : n + 2 # 1
      OBVIOUS
    <3> QED BY <2>1, <3>1, Zenon
  <2>3. \A x : Len(<<x>>) = 1
    OBVIOUS
  <2> QED BY <2>2, <2>3, Zenon
<1>3. cgroup # <<>> /\ Last(cgroup) = UnitOf(Managed)
  BY DEF InUnit
<1>4. CASE cgroup \in {<<Slice, UnitOf(v)>> : v \in Volumes} \cup Made
  <2>1. PICK v \in Volumes : cgroup = <<Slice, UnitOf(v)>> \/ cgroup = <<Elsewhere, UnitOf(v)>>
    BY <1>4 DEF Made
  <2>2. \A parent : Last(<<parent, UnitOf(v)>>) = UnitOf(v)
    BY DEF Last
  <2> QED BY <1>3, <2>1, <2>2, Zenon
<1>5. CASE cgroup = <<Slice, UnitOf(Managed), <<"sub">>>>
  <2>1. Last(cgroup) = <<"sub">>
    BY <1>5 DEF Last
  <2> QED BY <1>2, <1>3, <2>1
<1>6. CASE cgroup = <<Slice>>
  <2>1. Last(cgroup) = Slice
    BY <1>6 DEF Last
  <2> QED BY <1>2, <1>3, <2>1 DEF Slice
<1> QED BY <1>3, <1>4, <1>5, <1>6, Zenon DEF Placed

\* Where the peer is pinned, who is served is the systemd-cryptsetup of this
\* volume's unit, and no other volume's unit has the same name; or it has the
\* privileges to rewrite the cgroup tree and has made a cgroup of that name.
THEOREM PeerIsItself == Spec => []ServedIsThePeer
<1>1. TypeOK /\ PassedInv => ServedIsThePeer
  <2> SUFFICES ASSUME TypeOK, PassedInv, pc = "served", pinned, ~Forged(Peer),
                      NEW v \in Volumes
               PROVE  IsFor(Peer, v) <=> v = Managed
    BY DEF ServedIsThePeer
  <2>1. Peer.root /\ Peer.exe = "systemd-cryptsetup" /\ PeerInUnit
    BY Zenon DEF PassedInv
  <2>2. Peer.cgroup = <<Slice, UnitOf(Managed)>>
    <3>1. Peer.cgroup \in Placed \cup Made /\ (Peer.cgroup \in Made => Peer.full)
      BY ProcessType DEF Processes
    <3>2. <<Elsewhere, UnitOf(Managed)>> \in Made
      BY HandshakeAssumption DEF Made, HandshakeAssumption
    <3>3. Peer.cgroup # <<Elsewhere, UnitOf(Managed)>>
      BY <2>1, <3>1, <3>2, Zenon DEF Forged
    <3> QED BY <2>1, <3>1, <3>3, OnlyTheUnit, Zenon DEF PeerInUnit
  <2>3. ASSUME IsFor(Peer, v) PROVE v = Managed
    <3>1. <<Slice, UnitOf(v)>> = <<Slice, UnitOf(Managed)>>
      BY <2>2, <2>3 DEF IsFor
    <3>2. UnitOf(v) = UnitOf(Managed)
      BY <3>1
    <3> QED BY <3>2, UnitOfInjective, HandshakeAssumption DEF HandshakeAssumption
  <2>4. ASSUME v = Managed PROVE IsFor(Peer, v)
    BY <2>1, <2>2, <2>4, Zenon DEF IsFor
  <2> QED BY <2>3, <2>4
<1> QED BY <1>1, HandshakeTypeCorrect, PassedInvariant, PTL

-----------------------------------------------------------------------------
\* A name of three components has no slash to put back.
LEMMA RemainderOfThree ==
    ASSUME NEW n \in Seq(Seq(STRING)), Len(n) = 3
    PROVE  Remainder(n) = n[3]
<1> DEFINE r == [i \in 1..(Len(n) - 3) |-> <<"/">> \o n[i + 3]]
<1>1. r = <<>>
  <2>1. Len(n) - 3 = 0
    OBVIOUS
  <2>2. r \in [1..0 -> STRING]
    BY <2>1
  <2> HIDE DEF r
  <2>3. r \in Seq(STRING)
    BY <2>2, SeqDef
  <2>4. Len(r) = 0
    BY <2>2, <2>3, LenProperties
  <2> QED BY <2>3, <2>4, EmptySeq
<1> HIDE DEF r
<1>2. n[3] \in Seq(STRING)
  <2>1. 3 \in 1..Len(n)
    OBVIOUS
  <2> QED BY <2>1, ElementOfSeq
<1>3. FlattenSeq(r) = <<>>
  BY <1>1, EmptySeq DEF FlattenSeq
<1>4. n[3] \o <<>> = n[3]
  BY <1>2, ConcatEmptySeq
<1> QED BY <1>3, <1>4 DEF Remainder, r

\* A longer one has.
LEMMA RemainderOfMore ==
    ASSUME NEW n \in Seq(Seq(STRING)), Len(n) > 3
    PROVE  \E i \in DOMAIN Remainder(n) : Remainder(n)[i] = "/"
<1> DEFINE S == STRING \cup {"/"}
           m == Len(n) - 3
           r == [i \in 1..m |-> <<"/">> \o n[i + 3]]
<1>1. m \in Nat \ {0} /\ \A i \in 1..m : n[i + 3] \in Seq(S)
  <2>1. m \in Nat \ {0} /\ \A i \in 1..m : i + 3 \in 1..Len(n)
    <3>1. \A l \in Nat : l > 3 => /\ l - 3 \in Nat \ {0}
                                 /\ \A i \in 1..(l - 3) : i + 3 \in 1..l
      OBVIOUS
    <3>2. Len(n) \in Nat
      OBVIOUS
    <3> QED BY <3>1, <3>2, Zenon
  <2>2. \A i \in 1..Len(n) : n[i] \in Seq(STRING)
    OBVIOUS
  <2>3. \A q \in Seq(STRING) : q \in Seq(S)
    BY SeqMonotonic
  <2> QED BY <2>1, <2>2, <2>3, Zenon
<1>2. <<"/">> \in Seq(S) /\ Len(<<"/">>) = 1 /\ <<"/">>[1] = "/"
  OBVIOUS
<1>3. n[3] \in Seq(S)
  <2>1. n[3] \in Seq(STRING)
    OBVIOUS
  <2> QED BY <2>1, SeqMonotonic
<1> HIDE DEF S, m
<1>4. \A q \in Seq(S) : /\ <<"/">> \o q \in Seq(S) /\ Len(<<"/">> \o q) \in Nat \ {0}
                        /\ (<<"/">> \o q)[1] = "/"
  <2> TAKE q \in Seq(S)
  <2> DEFINE a == <<"/">>
  <2>1. a \in Seq(S) /\ Len(a) = 1 /\ a[1] = "/"
    BY <1>2
  <2> HIDE DEF a
  <2>2. /\ a \o q \in Seq(S) /\ Len(a \o q) = Len(a) + Len(q) /\ Len(q) \in Nat
        /\ \A i \in 1..Len(a) + Len(q) : (a \o q)[i] = IF i <= Len(a) THEN a[i] ELSE q[i - Len(a)]
    <3>1. Len(q) \in Nat
      BY LenProperties
    <3> QED BY <2>1, <3>1, ConcatProperties, Zenon
  <2>3. 1 \in 1..Len(a) + Len(q) /\ 1 <= Len(a) /\ Len(a) + Len(q) \in Nat \ {0}
    BY <2>1, <2>2
  <2> QED BY <2>1, <2>2, <2>3, Zenon DEF a
<1>5. r \in [1..m -> Seq(S)]
  BY <1>1, <1>4
<1>6. r[1] = <<"/">> \o n[1 + 3] /\ 1 \in 1..m
  BY <1>1
<1> HIDE DEF r
<1>7. r \in Seq(Seq(S)) /\ Len(r) = m
  BY <1>1, <1>5, SeqDef, LenProperties
<1>8. r[1][1] = "/" /\ Len(r[1]) \in Nat \ {0}
  BY <1>1, <1>4, <1>6, Zenon
<1>9. FlattenSeq(r) \in Seq(S) /\ \E off : Splits(off, r)
  BY <1>1, <1>7, FlattenSeqSplits
<1>10. PICK off : Splits(off, r)
  BY <1>9
<1> DEFINE F == FlattenSeq(r)
<1>11. F[1] = "/" /\ Len(F) \in Nat \ {0}
  <2>1. /\ off \in [1..m + 1 -> Nat] /\ off[1] = 0
        /\ \A i \in 1..m : off[i + 1] = off[i] + Len(r[i])
        /\ \A i \in 1..m : \A k \in 1..Len(r[i]) : F[off[i] + k] = r[i][k]
        /\ \A i \in 1..m + 1 : off[i] <= Len(F)
    BY <1>7, <1>10, Zenon DEF Splits
  <2>2. 1 \in 1..Len(r[1]) /\ 0 + 1 = 1
    BY <1>8
  <2>3. F[1] = "/"
    BY <1>6, <1>8, <2>1, <2>2
  <2>4. 1 + 1 \in 1..m + 1
    BY <1>1
  <2>5. off[1 + 1] = off[1] + Len(r[1]) /\ off[1 + 1] <= Len(F)
    BY <1>6, <2>1, <2>4, Zenon
  <2>6. Len(F) \in Nat
    BY <1>9
  <2> QED BY <1>8, <2>1, <2>3, <2>5, <2>6
<1> HIDE DEF F
<1>12. F \in Seq(S)
  BY <1>9 DEF F
<1> DEFINE b == n[3]
<1>13. Remainder(n) = b \o F
  BY DEF Remainder, F, r, m
<1>14. b \in Seq(S)
  BY <1>3
<1> HIDE DEF b
<1>15. /\ b \o F \in Seq(S) /\ Len(b \o F) = Len(b) + Len(F) /\ Len(b) \in Nat
       /\ \A i \in 1..Len(b) + Len(F) : (b \o F)[i] = IF i <= Len(b) THEN b[i] ELSE F[i - Len(b)]
  BY <1>12, <1>14, ConcatProperties
<1>16. ASSUME NEW j, j = Len(b) + 1 PROVE j \in DOMAIN (b \o F) /\ (b \o F)[j] = "/"
  <2>1. j \in 1..Len(b) + Len(F) /\ ~(j <= Len(b)) /\ j - Len(b) = 1
    BY <1>11, <1>15, <1>16
  <2>2. DOMAIN (b \o F) = 1..Len(b) + Len(F)
    BY <1>15, LenProperties
  <2> QED BY <1>11, <1>15, <2>1, <2>2, Zenon
<1> QED BY <1>13, <1>16, Zenon

\* parse finds the plain phase of a volume in the one name systemd-cryptsetup
\* binds for it, and in no other.
THEOREM PlainNames ==
    ASSUME NEW n \in Seq(Seq(STRING)), NEW v \in Volumes
    PROVE  Parse(n) = [phase |-> "plain", volume |-> v]
           <=> Alphanumeric(n[1]) /\ n = BindName(n[1], "cryptsetup", v)
<1> DEFINE known == Len(n) > 2 /\ \E infix \in Infixes : n[2] = <<infix>>
           volume == IF known THEN Remainder(n) ELSE Last(n)
<1>0. v \in Seq(STRING) /\ v # <<>> /\ \A i \in DOMAIN v : v[i] # "/"
  BY HandshakeAssumption DEF HandshakeAssumption
<1>1. Parse(n) = IF Len(n) < 2 \/ ~Alphanumeric(n[1]) \/ volume = <<>> THEN None
                 ELSE [phase |-> IF known THEN PhaseOf(n[2][1]) ELSE "unknown", volume |-> volume]
  BY DEF Parse
<1>2. ASSUME Parse(n) = [phase |-> "plain", volume |-> v]
      PROVE  Alphanumeric(n[1]) /\ n = BindName(n[1], "cryptsetup", v)
  <2>1. Parse(n) # None
    BY <1>2 DEF None
  <2>2. /\ Alphanumeric(n[1])
        /\ Parse(n) = [phase |-> IF known THEN PhaseOf(n[2][1]) ELSE "unknown", volume |-> volume]
    BY <1>1, <2>1, Zenon
  <2>3. (IF known THEN PhaseOf(n[2][1]) ELSE "unknown") = "plain" /\ volume = v
    <3> HIDE DEF known, volume
    <3> QED BY <1>2, <2>2
  <2>4. known /\ PhaseOf(n[2][1]) = "plain" /\ Remainder(n) = v
    <3>1. "unknown" # "plain"
      OBVIOUS
    <3> QED BY <2>3, <3>1, Zenon
  <2>5. n[2] = <<"cryptsetup">>
    <3>1. PICK infix \in Infixes : n[2] = <<infix>>
      BY <2>4
    <3>2. n[2][1] = infix
      BY <3>1
    <3>3. infix = "cryptsetup"
      BY <2>4, <3>2 DEF PhaseOf, Infixes
    <3> QED BY <3>1, <3>3
  <2>6. Len(n) = 3
    <3>1. ~(Len(n) > 3)
      BY <1>0, <2>4, RemainderOfMore
    <3>2. Len(n) \in Nat /\ Len(n) > 2
      BY <2>4
    <3>3. \A l \in Nat : l > 2 /\ ~(l > 3) => l = 3
      OBVIOUS
    <3> QED BY <3>1, <3>2, <3>3, Zenon
  <2>7. n[3] = v
    BY <2>4, <2>6, RemainderOfThree
  <2>8. n = <<n[1], n[2], n[3]>>
    BY <2>6
  <2> QED BY <2>2, <2>5, <2>7, <2>8 DEF BindName
<1>3. ASSUME Alphanumeric(n[1]), n = BindName(n[1], "cryptsetup", v)
      PROVE  Parse(n) = [phase |-> "plain", volume |-> v]
  <2>1. Len(n) = 3 /\ n[2] = <<"cryptsetup">> /\ n[3] = v
    BY <1>3 DEF BindName
  <2>2. known /\ n[2][1] = "cryptsetup"
    BY <2>1 DEF Infixes
  <2>3. volume = v
    BY <2>1, <2>2, RemainderOfThree, Zenon
  <2>4. PhaseOf("cryptsetup") = "plain"
    BY DEF PhaseOf
  <2>5. ~(Len(n) < 2)
    BY <2>1
  <2> QED BY <1>0, <1>1, <1>3, <2>2, <2>3, <2>4, <2>5, Zenon
<1> QED BY <1>2, <1>3

\* What handle goes on with is that one name.
LEMMA AnsweredNames ==
    ASSUME TypeOK
    PROVE  Answered(name) <=> /\ name \in BindNames /\ Alphanumeric(name[1])
                              /\ name = BindName(name[1], "cryptsetup", Managed)
<1>1. \A n \in BindNames : n \in Seq(Seq(STRING))
  BY HandshakeAssumption DEF HandshakeAssumption
<1>2. Managed \in Volumes
  BY HandshakeAssumption DEF HandshakeAssumption
<1>3. ASSUME Answered(name)
      PROVE  /\ name \in BindNames /\ Alphanumeric(name[1])
             /\ name = BindName(name[1], "cryptsetup", Managed)
  <2>1. name \in BindNames /\ Parse(name) = [phase |-> "plain", volume |-> Managed]
    BY <1>3 DEF TypeOK, Answered
  <2> QED BY <1>1, <1>2, <2>1, PlainNames, Zenon
<1>4. ASSUME name \in BindNames, Alphanumeric(name[1]),
             name = BindName(name[1], "cryptsetup", Managed)
      PROVE  Answered(name)
  <2>1. Parse(name) = [phase |-> "plain", volume |-> Managed]
    BY <1>1, <1>2, <1>4, PlainNames, Zenon
  <2>2. name # Unnamed
    <3>1. \A x, y, z : <<x, y, z>> # <<>>
      OBVIOUS
    <3> QED BY <1>4, <3>1, Zenon DEF BindName, Unnamed
  <2> QED BY <2>1, <2>2 DEF Answered
<1> QED BY <1>3, <1>4, Zenon

\* Nothing but the name for the plain phase of this volume is served.
THEOREM OnlyPlainIsServed == Spec => []ServedIsPlain
<1>1. TypeOK /\ PassedInv => ServedIsPlain
  <2> SUFFICES ASSUME TypeOK, PassedInv, pc = "served"
               PROVE  \E random \in {n[1] : n \in BindNames} :
                         Alphanumeric(random) /\ name = BindName(random, "cryptsetup", Managed)
    BY DEF ServedIsPlain
  <2>1. Answered(name)
    BY DEF PassedInv
  <2>2. /\ name \in BindNames /\ Alphanumeric(name[1])
        /\ name = BindName(name[1], "cryptsetup", Managed)
    BY <2>1, AnsweredNames, Zenon
  <2>3. name[1] \in {n[1] : n \in BindNames}
    BY <2>2
  <2> QED BY <2>2, <2>3, Zenon
<1> QED BY <1>1, HandshakeTypeCorrect, PassedInvariant, PTL

\* The volume's own systemd-cryptsetup is turned away only when a call fails.
THEOREM OwnPeerPasses == Spec => []OwnPeerIsServed
<1>1. TypeOK /\ PassedInv => OwnPeerIsServed
  <2> SUFFICES ASSUME TypeOK, PassedInv, pc = "declined", ~failed, process = <<Peer>>,
                      state = "running", IsFor(Peer, Managed),
                      NEW random \in {n[1] : n \in BindNames}, Alphanumeric(random),
                      name = BindName(random, "cryptsetup", Managed)
               PROVE  FALSE
    BY Zenon DEF OwnPeerIsServed
  <2>1. name[1] = random /\ name # Unnamed
    BY DEF BindName, Unnamed
  <2>2. name \in BindNames
    BY <2>1 DEF TypeOK
  <2>3. Answered(name)
    BY <2>1, <2>2, AnsweredNames, Zenon
  <2>4. Peer.root /\ Peer.exe = "systemd-cryptsetup"
    BY Zenon DEF IsFor
  <2>5. PeerInUnit
    <3>1. Peer.cgroup = <<Slice, UnitOf(Managed)>>
      BY Zenon DEF IsFor
    <3>2. \A x, y : <<x, y>> # <<>> /\ Last(<<x, y>>) = y
      BY DEF Last
    <3> QED BY <3>1, <3>2, Zenon DEF PeerInUnit, InUnit
  <2>6. Len(process) = 1
    <3>1. \A x : Len(<<x>>) = 1
      OBVIOUS
    <3> QED BY <3>1, Zenon
  <2> QED BY <2>3, <2>4, <2>5, <2>6, Zenon DEF PassedInv
<1> QED BY <1>1, HandshakeTypeCorrect, PassedInvariant, PTL

=============================================================================
