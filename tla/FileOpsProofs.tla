---------------------------- MODULE FileOpsProofs ----------------------------
(***************************************************************************)
(* Proofs about the file operations: for every file, every directory tree  *)
(* and all limits, the four properties of the replies.                    *)
(***************************************************************************)
EXTENDS FileOps, FiniteSetTheorems, SequenceTheorems, WellFoundedInduction, TLAPS

-----------------------------------------------------------------------------
(* Induction and recursion on numbers up to n.                             *)

(* A set of numbers that is not empty has a least one.                     *)
LEMMA LeastOf ==
    ASSUME NEW T, T \subseteq Nat, T # {}
    PROVE  \E i \in T : \A j \in T : i <= j
<1>1. \E i \in T : \A j \in T : ~(<<j, i>> \in OpToRel(<, Nat))
  BY NatLessThanWellFounded, WFMin
<1>2. \A i, j \in T : ~(<<j, i>> \in OpToRel(<, Nat)) => i <= j
  BY DEF OpToRel
<1> QED BY <1>1, <1>2

(* Induction up to n: a set of numbers closed under + 1.                   *)
LEMMA UpTo ==
    ASSUME NEW T, NEW n \in Nat, 0 \in T, \A k \in 0 .. n - 1 : k \in T => k + 1 \in T
    PROVE  0 .. n \subseteq T
<1> DEFINE Out == (0 .. n) \ T
<1>1. CASE Out = {}
  BY <1>1
<1>2. CASE Out # {}
  <2>0. Out \subseteq Nat
    OBVIOUS
  <2> HIDE DEF Out
  <2>1. PICK i \in Out : \A j \in Out : i <= j
    BY <1>2, <2>0, LeastOf
  <2> USE DEF Out
  <2>2. i \in 1 .. n
    OBVIOUS
  <2>3. i - 1 \in 0 .. n - 1 /\ i - 1 \in T
    BY <2>1, <2>2
  <2> QED BY <2>1, <2>2, <2>3
<1> QED BY <1>1, <1>2

(* f is the function on 0 .. N that begins with a and makes steps st.      *)
Recurs(f, N, S, a, st) ==
    f \in [0 .. N -> S] /\ f[0] = a /\ \A k \in 1 .. N : f[k] = st[<<k, f[k - 1]>>]

(* A recursive function on 0 .. N exists if its steps stay in a set.       *)
LEMMA Recursion ==
    ASSUME NEW N \in Nat, NEW S, NEW a \in S, NEW st \in [(1 .. N) \X S -> S]
    PROVE  \E f : Recurs(f, N, S, a, st)
<1> DEFINE Good(n,f) == \A k \in 0 .. n : f[k] = IF k = 0 THEN a ELSE st[<<k, f[k-1]>>]
           T == {n \in 0 .. N : \E f \in [0 .. N -> S] : Good(n,f)}
<1>1. 0 \in T
  <2> DEFINE g == [k \in 0 .. N |-> a]
  <2>1. g \in [0 .. N -> S]
    OBVIOUS
  <2>2. Good(0, g)
    OBVIOUS
  <2> HIDE DEF g, Good
  <2> QED BY <2>1, <2>2
<1>2. ASSUME NEW n \in 0 .. N-1, n \in T PROVE n+1 \in T
  <2>1. PICK f \in [0 .. N -> S] : Good(n,f)
    BY <1>2
  <2> DEFINE g == [f EXCEPT ![n+1] = st[<<n+1, f[n]>>]]
  <2>3. st[<<n+1, f[n]>>] \in S
    OBVIOUS
  <2>2. g \in [0 .. N -> S]
    BY <2>3
  <2>5. \A k \in 0 .. n : g[k] = f[k]
    OBVIOUS
  <2>6. g[n + 1] = st[<<n + 1, g[n]>>]
    <3>1. n + 1 \in 0 .. N /\ n \in 0 .. n
      OBVIOUS
    <3>2. g[n] = f[n]
      BY <2>5, <3>1
    <3>3. g[n + 1] = st[<<n + 1, f[n]>>]
      BY <3>1
    <3> QED BY <3>2, <3>3
  <2>7. ASSUME NEW k \in 0 .. n PROVE g[k] = IF k = 0 THEN a ELSE st[<<k, g[k-1]>>]
    <3>1. k # 0 => k - 1 \in 0 .. n
      OBVIOUS
    <3> HIDE DEF g
    <3> QED BY <2>1, <2>5, <3>1
  <2>4. Good(n+1, g)
    <3> HIDE DEF g
    <3>1. \A k \in 0 .. n + 1 : k \in 0 .. n \/ (k = n + 1 /\ k # 0 /\ k - 1 = n)
      OBVIOUS
    <3> QED BY <2>6, <2>7, <3>1
  <2> HIDE DEF g, Good
  <2> QED BY <2>2, <2>4
<1> HIDE DEF Good
<1> HIDE DEF T
<1>3. \A n \in 0 .. N - 1 : n \in T => n + 1 \in T
  BY <1>2
<1>5. 0 .. N \subseteq T
  BY <1>1, <1>3, UpTo
<1>4. PICK f \in [0 .. N -> S] : Good(N,f)
  BY <1>5 DEF T
<1> QED
  <2>1. 0 \in 0 .. N /\ \A k \in 1 .. N : k \in 0 .. N /\ k # 0
    OBVIOUS
  <2> QED BY <1>4, <2>1 DEF Good, Recurs

-----------------------------------------------------------------------------
(* Sequences.                                                              *)

LEMMA MinMax ==
    ASSUME NEW a \in Int, NEW b \in Int
    PROVE  /\ Min({a, b}) = IF a <= b THEN a ELSE b
           /\ Max({a, b}) = IF a <= b THEN b ELSE a
BY DEF Min, Max

LEMMA FunctionIsSeq ==
    ASSUME NEW S, NEW n \in Nat, NEW f \in [1 .. n -> S]
    PROVE  f \in Seq(S) /\ Len(f) = n
OBVIOUS

(* The first n of a sequence.                                              *)
LEMMA AtMostIs ==
    ASSUME NEW S, NEW s \in Seq(S), NEW n \in Nat
    PROVE  /\ AtMost(n, s) \in Seq(S)
           /\ Len(AtMost(n, s)) = IF n <= Len(s) THEN n ELSE Len(s)
           /\ \A i \in 1 .. Len(AtMost(n, s)) : AtMost(n, s)[i] = s[i]
           /\ Len(s) <= n => AtMost(n, s) = s
           /\ IsPrefix(AtMost(n, s), s)
<1>1. Min({n, Len(s)}) = IF n <= Len(s) THEN n ELSE Len(s)
  BY MinMax
<1>2. AtMost(n, s) = SubSeq(s, 1, IF n <= Len(s) THEN n ELSE Len(s))
  BY <1>1 DEF AtMost
<1>3. /\ AtMost(n, s) \in Seq(S)
      /\ Len(AtMost(n, s)) = IF n <= Len(s) THEN n ELSE Len(s)
      /\ \A i \in 1 .. Len(AtMost(n, s)) : AtMost(n, s)[i] = s[i]
  BY <1>2
<1>4. Len(s) <= n => AtMost(n, s) = s
  BY <1>2, SubSeqFull
<1>5. IsPrefix(AtMost(n, s), s)
  BY <1>3, <1>2 DEF IsPrefix
<1> QED BY <1>3, <1>4, <1>5

(* The sequence s has the numbers of the set up to n, in order.            *)
Enumerates(s, set, n) ==
    /\ s \in Seq(Nat)
    /\ \A i \in 1 .. Len(s) : s[i] \in 1 .. n /\ s[i] \in set
    /\ \A i, j \in 1 .. Len(s) : i < j => s[i] < s[j]
    /\ \A m \in 1 .. n : m \in set => \E i \in 1 .. Len(s) : s[i] = m

LEMMA EnumeratesNext ==
    ASSUME NEW set, NEW k \in Nat, NEW s, Enumerates(s, set, k)
    PROVE  /\ k + 1 \notin set => Enumerates(s, set, k + 1)
           /\ k + 1 \in set => Enumerates(Append(s, k + 1), set, k + 1)
<1>0. s \in Seq(Nat) /\ Len(s) \in Nat
  BY DEF Enumerates
<1>1. CASE k + 1 \notin set
  BY <1>0, <1>1 DEF Enumerates
<1>2. CASE k + 1 \in set
  <2> DEFINE r == Append(s, k + 1)
  <2>1. /\ r \in Seq(Nat) /\ Len(r) = Len(s) + 1
        /\ r[Len(s) + 1] = k + 1 /\ \A i \in 1 .. Len(s) : r[i] = s[i]
    BY <1>0
  <2> HIDE DEF r
  <2>2. \A i \in 1 .. Len(r) : i = Len(s) + 1 \/ (i \in 1 .. Len(s) /\ r[i] = s[i] /\ s[i] \in 1 .. k)
    BY <1>0, <2>1 DEF Enumerates
  <2>3. \A i \in 1 .. Len(r) : r[i] \in 1 .. k + 1 /\ r[i] \in set
    <3>1. \A i \in 1 .. Len(s) : s[i] \in 1 .. k /\ s[i] \in set
      BY DEF Enumerates
    <3>2. \A m \in 1 .. k : m \in 1 .. k + 1
      OBVIOUS
    <3>3. k + 1 \in 1 .. k + 1
      OBVIOUS
    <3> QED BY <1>2, <2>1, <2>2, <3>1, <3>2, <3>3
  <2>4. ASSUME NEW i \in 1 .. Len(r), NEW j \in 1 .. Len(r), i < j PROVE r[i] < r[j]
    <3>1. i \in 1 .. Len(s) /\ r[i] = s[i] /\ s[i] \in 1 .. k
      BY <1>0, <2>1, <2>2, <2>4
    <3>2. CASE j = Len(s) + 1
      BY <2>1, <3>1, <3>2
    <3>3. CASE j \in 1 .. Len(s) /\ r[j] = s[j]
      BY <2>4, <3>1, <3>3 DEF Enumerates
    <3> QED BY <2>2, <3>2, <3>3
  <2>5. \A m \in 1 .. k + 1 : m \in set => \E i \in 1 .. Len(r) : r[i] = m
    BY <1>0, <2>1 DEF Enumerates
  <2> QED BY <1>2, <2>1, <2>3, <2>4, <2>5 DEF r, Enumerates
<1> QED BY <1>1, <1>2

LEMMA OrderedIs ==
    ASSUME NEW set, NEW n \in Nat
    PROVE  Enumerates(Ordered(set, n), set, n)
<1> DEFINE A == Seq(Nat)
           step == [p \in (1 .. n) \X A |-> IF p[1] \in set THEN Append(p[2], p[1]) ELSE p[2]]
           Is(f) == f = [k \in 0 .. n |-> IF k = 0 THEN <<>>
                            ELSE IF k \in set THEN Append(f[k - 1], k) ELSE f[k - 1]]
           upto == CHOOSE f : Is(f)
<1>1. Ordered(set, n) = upto[n]
  BY DEF Ordered
<1> HIDE DEF upto
<1>2. Is(upto)
  <2>1. ASSUME NEW p \in (1 .. n) \X A
        PROVE  (IF p[1] \in set THEN Append(p[2], p[1]) ELSE p[2]) \in A
    BY AppendProperties
  <2>2. step \in [(1 .. n) \X A -> A] /\ <<>> \in A
    BY <2>1
  <2>3. \A k \in 1 .. n, s \in A :
            step[<<k, s>>] = IF k \in set THEN Append(s, k) ELSE s
    OBVIOUS
  <2> HIDE DEF step, A, Is
  <2>4. PICK f : Recurs(f, n, A, <<>>, step)
    BY <2>2, Recursion
  <2>5. \A k \in 1 .. n : k - 1 \in 0 .. n /\ f[k - 1] \in A
    BY <2>4 DEF Recurs
  <2>6. \A k \in 1 .. n : f[k] = IF k \in set THEN Append(f[k - 1], k) ELSE f[k - 1]
    BY <2>3, <2>4, <2>5 DEF Recurs
  <2>7. Is(f)
    <3>1. \A k \in 0 .. n : f[k] = IF k = 0 THEN <<>>
                  ELSE IF k \in set THEN Append(f[k - 1], k) ELSE f[k - 1]
      <4>1. \A k \in 0 .. n : k # 0 => k \in 1 .. n
        OBVIOUS
      <4> QED BY <2>4, <2>6, <4>1 DEF Recurs
    <3> QED BY <2>4, <3>1 DEF Is, Recurs
  <2> QED BY <2>7 DEF upto
<1>3. /\ upto[0] = <<>>
      /\ \A k \in 1 .. n : upto[k] = IF k \in set THEN Append(upto[k - 1], k) ELSE upto[k - 1]
  <2>1. 0 \in 0 .. n /\ \A k \in 1 .. n : k \in 0 .. n /\ k # 0
    OBVIOUS
  <2> QED BY <1>2, <2>1
<1> HIDE DEF Is, step, A
<1> DEFINE T == {k \in 0 .. n : Enumerates(upto[k], set, k)}
<1>4. 0 \in T
  <2>1. Enumerates(<<>>, set, 0)
    BY DEF Enumerates
  <2> QED BY <1>3, <2>1
<1>5. \A k \in 0 .. n - 1 : k \in T => k + 1 \in T
  <2>1. \A k \in 0 .. n - 1 : k \in Nat /\ k + 1 \in 1 .. n /\ k + 1 \in 0 .. n /\ (k + 1) - 1 = k
    OBVIOUS
  <2> QED BY <1>3, <2>1, EnumeratesNext
<1> HIDE DEF T
<1>6. 0 .. n \subseteq T
  BY <1>4, <1>5, UpTo
<1> QED BY <1>1, <1>6 DEF T

(* A set of the numbers up to n that has all those below one of its own.   *)
LEMMA InitialSegment ==
    ASSUME NEW n \in Nat, NEW D \in SUBSET (1 .. n),
           \A i \in D : \A j \in 1 .. i : j \in D
    PROVE  \E c \in 0 .. n : D = 1 .. c /\ Cardinality(D) = c
<1> DEFINE Out == (1 .. n + 1) \ D
<1>1. Out \subseteq Nat /\ n + 1 \in Out
  OBVIOUS
<1>2. PICK i \in Out : \A j \in Out : i <= j
  <2> HIDE DEF Out
  <2> QED BY <1>1, LeastOf
<1>3. D = 1 .. i - 1
  <2>1. i \in 1 .. n + 1 /\ i \notin D
    BY <1>2
  <2>2. ASSUME NEW j \in 1 .. i - 1 PROVE j \in D
    BY <1>2, <2>1
  <2>3. ASSUME NEW j \in D PROVE j \in 1 .. i - 1
    <3>1. j \in 1 .. n /\ (i <= j => i \in 1 .. j)
      BY <2>1
    <3> QED BY <2>1, <3>1
  <2> QED BY <2>2, <2>3
<1>4. Cardinality(1 .. i - 1) = i - 1
  BY FS_Interval
<1> QED BY <1>2, <1>3, <1>4

-----------------------------------------------------------------------------
(* Lines.                                                                  *)

LEMMA LineEndsIs ==
    ASSUME NEW S, NEW f \in Seq(S)
    PROVE  Enumerates(LineEnds(f), {i \in DOMAIN f : f[i] = "n" \/ i = Len(f)}, Len(f))
BY OrderedIs DEF LineEnds

(* Each line is a piece of the file.                                       *)
LEMMA GetlineIs ==
    ASSUME NEW S, NEW f \in Seq(S)
    PROVE  /\ getline(f) \in Seq(Seq(S))
           /\ Len(getline(f)) = Len(LineEnds(f))
<1> DEFINE ends == LineEnds(f)
           first(k) == IF k = 1 THEN 1 ELSE ends[k - 1] + 1
           last(k) == IF f[ends[k]] = "n" THEN ends[k] - 1 ELSE ends[k]
<1>1. getline(f) = [k \in 1 .. Len(ends) |-> SubSeq(f, first(k), last(k))]
  BY DEF getline
<1>2. /\ ends \in Seq(Nat) /\ Len(ends) \in Nat
      /\ \A k \in 1 .. Len(ends) : ends[k] \in 1 .. Len(f)
  BY LineEndsIs DEF Enumerates
<1> HIDE DEF ends
<1>3. ASSUME NEW k \in 1 .. Len(ends) PROVE SubSeq(f, first(k), last(k)) \in Seq(S)
  <2>1. k = 1 \/ k - 1 \in 1 .. Len(ends)
    BY <1>2
  <2>3. Len(f) \in Nat /\ ends[k] \in 1 .. Len(f)
    BY <1>2
  <2>4. k # 1 => ends[k - 1] \in 1 .. Len(f)
    BY <1>2, <2>1
  <2>2. first(k) \in Nat \ {0} /\ last(k) \in 0 .. Len(f)
    BY <2>3, <2>4
  <2> HIDE DEF first, last
  <2> QED BY <2>2
<1> HIDE DEF first, last
<1>4. getline(f) \in [1 .. Len(ends) -> Seq(S)]
  BY <1>1, <1>3
<1>5. getline(f) \in Seq(Seq(S)) /\ Len(getline(f)) = Len(ends)
  BY <1>2, <1>4, IsASeq, LenProperties
<1> QED BY <1>5 DEF ends

(* What the ring of n lines holds after the first k lines.                 *)
LastOf(ls, k, n) == SubSeq(ls, IF k <= n THEN 1 ELSE k - n + 1, k)

LEMMA PushLast ==
    ASSUME NEW L, NEW ls \in Seq(L), NEW n \in Nat \ {0}, NEW k \in 0 .. Len(ls) - 1
    PROVE  LastOf(ls, k + 1, n) = Push(LastOf(ls, k, n), ls[k + 1], n)
<1> DEFINE a == IF k <= n THEN 1 ELSE k - n + 1
           r == SubSeq(ls, a, k)
<1>1. a \in 1 .. k + 1 /\ Len(ls) \in Nat /\ k \in Nat /\ k + 1 \in 1 .. Len(ls)
  OBVIOUS
<1>2. /\ r \in Seq(L) /\ Len(r) = k + 1 - a
      /\ \A i \in 1 .. Len(r) : r[i] = ls[a + i - 1]
  <2> HIDE DEF a
  <2> QED BY <1>1
<1>3. LastOf(ls, k, n) = r
  BY DEF LastOf
<1> DEFINE q == LastOf(ls, k + 1, n)
           b == IF k + 1 <= n THEN 1 ELSE k + 1 - n + 1
<1>4. q = SubSeq(ls, b, k + 1) /\ b \in 1 .. k + 1
  BY DEF LastOf
<1>5. /\ q \in Seq(L) /\ Len(q) = k + 2 - b
      /\ \A i \in 1 .. Len(q) : q[i] = ls[b + i - 1]
  <2> HIDE DEF b, q
  <2> QED BY <1>1, <1>4
<1>6. (Len(r) = n /\ r # <<>>) <=> k >= n
  BY <1>1, <1>2
<1> HIDE DEF r, q
<1>7. CASE k >= n
  <2>1. b = a + 1 /\ Len(r) = n
    BY <1>1, <1>2, <1>7
  <2>2. r # <<>>
    BY <2>1
  <2>3. Tail(r) \in Seq(L) /\ Len(Tail(r)) = Len(r) - 1 /\ \A i \in 1 .. Len(r) - 1 : Tail(r)[i] = r[i + 1]
    BY <1>2, <2>2, HeadTailProperties
  <2> DEFINE t == Tail(r)
             p == Append(t, ls[k + 1])
  <2>4. /\ p \in Seq(L) /\ Len(p) = Len(r) /\ p[Len(r)] = ls[k + 1]
        /\ \A i \in 1 .. Len(r) - 1 : p[i] = r[i + 1]
    <3> HIDE DEF t
    <3>1. t \in Seq(L) /\ Len(t) = Len(r) - 1 /\ \A i \in 1 .. Len(r) - 1 : t[i] = r[i + 1]
      BY <2>3 DEF t
    <3>2. ls[k + 1] \in L /\ Len(r) \in Nat
      BY <1>1, <1>2
    <3> QED BY <3>1, <3>2, <2>1
  <2> HIDE DEF p, a, b
  <2>5. Len(q) = Len(p)
    BY <1>1, <1>2, <1>5, <2>1, <2>4
  <2>6. ASSUME NEW i \in 1 .. Len(q) PROVE q[i] = p[i]
    <3>1. CASE i = Len(r)
      <4>1. b + i - 1 = k + 1
        BY <1>1, <1>2, <2>1, <3>1
      <4> QED BY <1>5, <2>4, <2>5, <3>1, <4>1
    <3>2. CASE i \in 1 .. Len(r) - 1
      <4>1. b + i - 1 = a + (i + 1) - 1 /\ i + 1 \in 1 .. Len(r)
        BY <1>1, <2>1, <3>2
      <4>2. q[i] = ls[b + i - 1] /\ r[i + 1] = ls[a + (i + 1) - 1]
        BY <1>2, <1>5, <4>1
      <4> QED BY <2>4, <3>2, <4>1, <4>2
    <3> QED BY <2>1, <2>4, <2>5, <3>1, <3>2
  <2>7. q = p
    BY <1>5, <2>4, <2>5, <2>6, SeqEqual
  <2>8. Push(r, ls[k + 1], n) = p
    BY <1>6, <1>7 DEF Push, p
  <2> QED BY <1>3, <2>7, <2>8 DEF q
<1>8. CASE k < n
  <2>1. a = 1 /\ b = 1 /\ Len(r) = k
    BY <1>1, <1>2, <1>8
  <2> DEFINE p == Append(r, ls[k + 1])
  <2>2. /\ p \in Seq(L) /\ Len(p) = k + 1 /\ p[k + 1] = ls[k + 1]
        /\ \A i \in 1 .. k : p[i] = r[i]
    <3>1. ls[k + 1] \in L
      BY <1>1
    <3> QED BY <1>2, <2>1, <3>1
  <2> HIDE DEF p, a, b
  <2>3. ASSUME NEW i \in 1 .. k + 1 PROVE q[i] = p[i]
    <3>1. i = k + 1 \/ i \in 1 .. k
      BY <1>1
    <3>2. b + i - 1 = i /\ a + i - 1 = i
      BY <2>1
    <3>3. i \in 1 .. Len(q)
      BY <1>5, <2>1
    <3> QED BY <1>2, <1>5, <2>1, <2>2, <3>1, <3>2, <3>3
  <2>4. q = p
    <3>1. Len(q) = k + 1
      BY <1>5, <2>1
    <3> QED BY <1>5, <2>2, <2>3, <3>1, SeqEqual
  <2>5. Push(r, ls[k + 1], n) = p
    BY <1>1, <1>6, <1>8 DEF Push, p
  <2> QED BY <1>3, <2>4, <2>5 DEF q
<1> QED BY <1>1, <1>7, <1>8

IsRing(ring, ls, n) ==
    /\ ring[0] = <<>>
    /\ \A k \in 1 .. Len(ls) : ring[k] = Push(ring[k - 1], ls[k], n)

LEMMA RingSteps ==
    ASSUME NEW L, NEW ls \in Seq(L), NEW n \in Nat
    PROVE  \E ring : IsRing(ring, ls, n) /\ Ring(ls, n) = ring[Len(ls)]
<1> DEFINE N == Len(ls)
           A == Seq(L)
           step == [p \in (1 .. N) \X A |-> Push(p[2], ls[p[1]], n)]
           Is(f) == f = [k \in 0 .. N |-> IF k = 0 THEN <<>> ELSE Push(f[k - 1], ls[k], n)]
           ring == CHOOSE f : Is(f)
<1>0. N \in Nat
  OBVIOUS
<1>1. Ring(ls, n) = ring[N]
  BY DEF Ring
<1> HIDE DEF ring
<1>2. Is(ring)
  <2>1. ASSUME NEW p \in (1 .. N) \X A PROVE Push(p[2], ls[p[1]], n) \in A
    <3>1. p[2] \in A /\ p[1] \in 1 .. N /\ ls[p[1]] \in L
      OBVIOUS
    <3>2. p[2] # <<>> => Tail(p[2]) \in A
      BY <3>1, HeadTailProperties
    <3> QED BY <3>1, <3>2, AppendProperties DEF Push
  <2>2. step \in [(1 .. N) \X A -> A] /\ <<>> \in A
    BY <2>1
  <2>3. \A k \in 1 .. N, s \in A : step[<<k, s>>] = Push(s, ls[k], n)
    OBVIOUS
  <2> HIDE DEF step, A, Is, N
  <2>4. PICK f : Recurs(f, N, A, <<>>, step)
    BY <1>0, <2>2, Recursion
  <2>5. \A k \in 1 .. N : k - 1 \in 0 .. N /\ f[k - 1] \in A
    BY <1>0, <2>4 DEF Recurs
  <2>6. \A k \in 1 .. N : f[k] = Push(f[k - 1], ls[k], n)
    BY <2>3, <2>4, <2>5 DEF Recurs
  <2>7. Is(f)
    <3>1. \A k \in 0 .. N : f[k] = IF k = 0 THEN <<>> ELSE Push(f[k - 1], ls[k], n)
      <4>1. \A k \in 0 .. N : k # 0 => k \in 1 .. N
        BY <1>0
      <4> QED BY <2>4, <2>6, <4>1 DEF Recurs
    <3> QED BY <2>4, <3>1 DEF Is, Recurs
  <2> QED BY <2>7 DEF ring
<1> HIDE DEF step, A, N
<1>3. /\ ring[0] = <<>>
      /\ \A k \in 1 .. N : ring[k] = Push(ring[k - 1], ls[k], n)
  <2>1. 0 \in 0 .. N /\ \A k \in 1 .. N : k \in 0 .. N /\ k # 0
    BY <1>0
  <2> QED BY <1>2, <2>1
<1> QED BY <1>1, <1>3 DEF IsRing, N

(* The ring ends with the last n lines.                                    *)
LEMMA RingIs ==
    ASSUME NEW L, NEW ls \in Seq(L), NEW n \in Nat \ {0}
    PROVE  Ring(ls, n) = LastOf(ls, Len(ls), n)
<1>1. PICK ring : IsRing(ring, ls, n) /\ Ring(ls, n) = ring[Len(ls)]
  BY RingSteps
<1>2. Len(ls) \in Nat
  BY LenProperties
<1> DEFINE T == {k \in 0 .. Len(ls) : ring[k] = LastOf(ls, k, n)}
<1>4. 0 \in T
  <2>1. LastOf(ls, 0, n) = <<>>
    BY DEF LastOf
  <2> QED BY <1>1, <1>2, <2>1 DEF IsRing
<1>5. \A k \in 0 .. Len(ls) - 1 : k \in T => k + 1 \in T
  <2>1. \A k \in 0 .. Len(ls) - 1 : k + 1 \in 1 .. Len(ls) /\ k + 1 \in 0 .. Len(ls) /\ (k + 1) - 1 = k
    BY <1>2
  <2>2. \A k \in 0 .. Len(ls) - 1 : LastOf(ls, k + 1, n) = Push(LastOf(ls, k, n), ls[k + 1], n)
    BY PushLast
  <2> QED BY <1>1, <2>1, <2>2 DEF IsRing
<1> HIDE DEF T
<1>6. 0 .. Len(ls) \subseteq T
  BY <1>2, <1>4, <1>5, UpTo
<1> QED BY <1>1, <1>2, <1>6 DEF T

LEMMA PushType ==
    ASSUME NEW L, NEW ring \in Seq(L), NEW line \in L, NEW n
    PROVE  Push(ring, line, n) \in Seq(L)
<1>1. ring # <<>> => Tail(ring) \in Seq(L)
  BY HeadTailProperties
<1> QED BY <1>1, AppendProperties DEF Push

(* The ring holds lines, whatever its length.                              *)
LEMMA RingType ==
    ASSUME NEW L, NEW ls \in Seq(L), NEW n \in Nat
    PROVE  Ring(ls, n) \in Seq(L)
<1>1. PICK ring : IsRing(ring, ls, n) /\ Ring(ls, n) = ring[Len(ls)]
  BY RingSteps
<1>2. Len(ls) \in Nat /\ ls \in [1 .. Len(ls) -> L]
  BY LenProperties
<1> DEFINE T == {k \in 0 .. Len(ls) : ring[k] \in Seq(L)}
<1>4. 0 \in T
  <2>1. <<>> \in Seq(L) /\ 0 \in 0 .. Len(ls)
    BY <1>2
  <2>2. ring[0] = <<>>
    BY <1>1 DEF IsRing
  <2>3. ring[0] \in Seq(L)
    BY <2>1, <2>2
  <2> QED BY <2>1, <2>3
<1>5. ASSUME NEW k \in 0 .. Len(ls) - 1, k \in T PROVE k + 1 \in T
  <2>1. k + 1 \in 1 .. Len(ls) /\ k + 1 \in 0 .. Len(ls) /\ (k + 1) - 1 = k
    BY <1>2
  <2>2. ring[k + 1] = Push(ring[k], ls[k + 1], n) /\ ls[k + 1] \in L /\ ring[k] \in Seq(L)
    BY <1>1, <1>2, <1>5, <2>1 DEF IsRing
  <2> QED BY <2>1, <2>2, PushType
<1>7. \A k \in 0 .. Len(ls) - 1 : k \in T => k + 1 \in T
  BY <1>5
<1> HIDE DEF T
<1>6. 0 .. Len(ls) \subseteq T
  BY <1>2, <1>4, <1>7, UpTo
<1> QED BY <1>1, <1>2, <1>6 DEF T

-----------------------------------------------------------------------------
(* Rows of a grep reply.                                                   *)

RowsOf(S) == [number : Nat, text : Seq(S)]

(* The rows show lines that match, under their numbers and in order.       *)
LEMMA RowsIs ==
    ASSUME NEW S, NEW ls \in Seq(Seq(S)), NEW needle
    PROVE  /\ Rows(ls, needle) \in Seq(RowsOf(S))
           /\ \A k \in 1 .. Len(Rows(ls, needle)) :
                  /\ Rows(ls, needle)[k].number \in 1 .. Len(ls)
                  /\ Rows(ls, needle)[k].text = ls[Rows(ls, needle)[k].number]
           /\ \A j, k \in 1 .. Len(Rows(ls, needle)) :
                  j < k => Rows(ls, needle)[j].number < Rows(ls, needle)[k].number
<1> DEFINE set == {k \in DOMAIN ls : Holds(ls[k], needle)}
           found == Ordered(set, Len(ls))
           rows == Rows(ls, needle)
<1>1. Len(ls) \in Nat /\ ls \in [1 .. Len(ls) -> Seq(S)]
  BY LenProperties
<1>2. Enumerates(found, set, Len(ls))
  BY <1>1, OrderedIs
<1>3. rows = [k \in DOMAIN found |-> [number |-> found[k], text |-> ls[found[k]]]]
  BY DEF Rows
<1> HIDE DEF set, found, rows
<1>4. /\ Len(found) \in Nat /\ DOMAIN found = 1 .. Len(found)
      /\ \A k \in 1 .. Len(found) : found[k] \in 1 .. Len(ls)
      /\ \A j, k \in 1 .. Len(found) : j < k => found[j] < found[k]
  BY <1>2, LenProperties DEF Enumerates
<1>5. rows \in [1 .. Len(found) -> RowsOf(S)]
  <2>1. \A k \in 1 .. Len(found) : found[k] \in Nat /\ ls[found[k]] \in Seq(S)
    BY <1>1, <1>4
  <2> QED BY <1>3, <1>4, <2>1 DEF RowsOf
<1>6. rows \in Seq(RowsOf(S)) /\ Len(rows) = Len(found)
  BY <1>4, <1>5, FunctionIsSeq
<1>7. \A k \in 1 .. Len(rows) : rows[k].number = found[k] /\ rows[k].text = ls[found[k]]
  BY <1>3, <1>4, <1>6
<1>8. \A k \in 1 .. Len(rows) : rows[k].number \in 1 .. Len(ls) /\ rows[k].text = ls[rows[k].number]
  BY <1>4, <1>6, <1>7
<1>9. \A j, k \in 1 .. Len(rows) : j < k => rows[j].number < rows[k].number
  BY <1>4, <1>6, <1>7
<1> QED BY <1>6, <1>8, <1>9 DEF rows

LEMMA ShortenIs ==
    ASSUME NEW S, NEW rows \in Seq(RowsOf(S)), NEW n \in Nat
    PROVE  /\ Shorten(rows, n) \in Seq(RowsOf(S))
           /\ Len(Shorten(rows, n)) = Len(rows)
           /\ \A k \in 1 .. Len(rows) :
                  /\ Shorten(rows, n)[k].number = rows[k].number
                  /\ Shorten(rows, n)[k].text = AtMost(n, rows[k].text)
<1> DEFINE short == Shorten(rows, n)
<1>1. Len(rows) \in Nat /\ rows \in [1 .. Len(rows) -> RowsOf(S)] /\ DOMAIN rows = 1 .. Len(rows)
  BY LenProperties
<1>2. short = [k \in 1 .. Len(rows) |-> [rows[k] EXCEPT !.text = AtMost(n, rows[k].text)]]
  BY <1>1 DEF Shorten
<1> HIDE DEF short
<1>3. \A k \in 1 .. Len(rows) :
          /\ short[k] = [rows[k] EXCEPT !.text = AtMost(n, rows[k].text)]
          /\ rows[k] \in RowsOf(S)
  BY <1>1, <1>2
<1>4. ASSUME NEW k \in 1 .. Len(rows)
      PROVE  /\ short[k] \in RowsOf(S) /\ short[k].number = rows[k].number
             /\ short[k].text = AtMost(n, rows[k].text)
  <2>1. AtMost(n, rows[k].text) \in Seq(S)
    BY <1>3, AtMostIs DEF RowsOf
  <2> QED BY <1>3, <2>1 DEF RowsOf
<1>5. short \in [1 .. Len(rows) -> RowsOf(S)]
  BY <1>2, <1>4
<1>6. short \in Seq(RowsOf(S)) /\ Len(short) = Len(rows)
  BY <1>1, <1>5
<1> QED BY <1>3, <1>4, <1>6 DEF short

(* The first bytes of the first bytes are the first bytes.                 *)
LEMMA AtMostTwice ==
    ASSUME NEW S, NEW s \in Seq(S), NEW m \in Nat, NEW n \in Nat
    PROVE  /\ IsPrefix(AtMost(n, AtMost(m, s)), s)
           /\ Len(AtMost(n, AtMost(m, s))) <= n
<1> DEFINE t == AtMost(m, s)
           u == AtMost(n, t)
<1>1. /\ t \in Seq(S) /\ Len(t) \in Nat /\ Len(s) \in Nat /\ Len(t) <= Len(s)
      /\ \A i \in 1 .. Len(t) : t[i] = s[i]
  BY AtMostIs, LenProperties
<1> HIDE DEF t
<1>2. /\ u \in Seq(S) /\ Len(u) \in Nat /\ Len(u) <= Len(t) /\ Len(u) <= n
      /\ \A i \in 1 .. Len(u) : u[i] = t[i]
  BY <1>1, AtMostIs, LenProperties
<1> HIDE DEF u
<1>3. \A i \in 1 .. Len(u) : u[i] = s[i]
  BY <1>1, <1>2
<1>4. IsPrefix(u, s)
  BY <1>1, <1>2, <1>3 DEF IsPrefix
<1> QED BY <1>2, <1>4 DEF t, u

(* How many bytes the first rows of rg's output take.                      *)
Numbered(rows) == \A k \in 1 .. Len(rows) : RowOverhead(rows[k].number) \in 2 .. RowSlack
Width(row) == RowOverhead(row.number) + Len(row.text)
IsUsed(used, rows) ==
    /\ used \in [0 .. Len(rows) -> Nat]
    /\ used[0] = 0
    /\ \A k \in 1 .. Len(rows) : used[k] = used[k - 1] + Width(rows[k])

(* The rows whose number and colon are there, each with what is left for   *)
(* its text.                                                               *)
Room(rows, limit, used, k) == limit - used[k - 1] - (RowOverhead(rows[k].number) - 1)
Cut(rows, limit, used) ==
    [k \in {j \in DOMAIN rows : Room(rows, limit, used, j) >= 0} |->
        [rows[k] EXCEPT !.text = AtMost(Room(rows, limit, used, k), @)]]

LEMMA WidthIs ==
    ASSUME NEW S, NEW rows \in Seq(RowsOf(S)), Numbered(rows), NEW k \in 1 .. Len(rows)
    PROVE  /\ RowOverhead(rows[k].number) \in Nat \ {0} /\ Len(rows[k].text) \in Nat
           /\ Width(rows[k]) \in Nat /\ rows[k].text \in Seq(S)
<1>1. rows[k] \in RowsOf(S)
  BY ElementOfSeq
<1>2. rows[k].text \in Seq(S) /\ Len(rows[k].text) \in Nat
  BY <1>1, LenProperties DEF RowsOf
<1>3. RowOverhead(rows[k].number) \in 2 .. RowSlack
  BY DEF Numbered
<1>4. RowOverhead(rows[k].number) \in Nat \ {0}
  BY <1>3, SlackAssumption
<1> QED BY <1>2, <1>4 DEF Width

LEMMA CapturedUsed ==
    ASSUME NEW S, NEW rows \in Seq(RowsOf(S)), Numbered(rows), NEW limit
    PROVE  \E used : IsUsed(used, rows) /\ Captured(rows, limit) = Cut(rows, limit, used)
<1> DEFINE N == Len(rows)
           step == [p \in (1 .. N) \X Nat |-> p[2] + Width(rows[p[1]])]
           Is(f) == f = [k \in 0 .. N |-> IF k = 0 THEN 0 ELSE f[k - 1] + Width(rows[k])]
           used == CHOOSE f : Is(f)
<1>0. N \in Nat /\ \A k \in 1 .. N : Width(rows[k]) \in Nat
  BY WidthIs, LenProperties
<1>1. Captured(rows, limit) = Cut(rows, limit, used)
  BY DEF Captured, Cut, Width, Room
<1> HIDE DEF used
<1>2. Is(used)
  <2>1. \A p \in (1 .. N) \X Nat : p[2] + Width(rows[p[1]]) \in Nat
    BY <1>0
  <2>2. step \in [(1 .. N) \X Nat -> Nat] /\ 0 \in Nat
    BY <2>1
  <2>3. \A k \in 1 .. N, s \in Nat : step[<<k, s>>] = s + Width(rows[k])
    OBVIOUS
  <2> HIDE DEF step, Is, N
  <2>4. PICK f : Recurs(f, N, Nat, 0, step)
    BY <1>0, <2>2, Recursion
  <2>5. \A k \in 1 .. N : k - 1 \in 0 .. N /\ f[k - 1] \in Nat
    BY <1>0, <2>4 DEF Recurs
  <2>6. \A k \in 1 .. N : f[k] = f[k - 1] + Width(rows[k])
    BY <2>3, <2>4, <2>5 DEF Recurs
  <2>7. Is(f)
    <3>1. \A k \in 0 .. N : f[k] = IF k = 0 THEN 0 ELSE f[k - 1] + Width(rows[k])
      <4>1. \A k \in 0 .. N : k # 0 => k \in 1 .. N
        BY <1>0
      <4> QED BY <2>4, <2>6, <4>1 DEF Recurs
    <3> QED BY <2>4, <3>1 DEF Is, Recurs
  <2> QED BY <2>7 DEF used
<1> HIDE DEF step, N
<1>3. /\ used[0] = 0 /\ DOMAIN used = 0 .. N
      /\ \A k \in 1 .. N : used[k] = used[k - 1] + Width(rows[k])
  <2>1. 0 \in 0 .. N /\ \A k \in 1 .. N : k \in 0 .. N /\ k # 0
    BY <1>0
  <2> QED BY <1>2, <2>1
<1>4. \A k \in 0 .. N : used[k] \in Nat
  <2> DEFINE T == {k \in 0 .. N : used[k] \in Nat}
  <2>1. 0 \in T
    BY <1>0, <1>3
  <2>2. \A k \in 0 .. N - 1 : k \in T => k + 1 \in T
    <3>1. \A k \in 0 .. N - 1 : k + 1 \in 1 .. N /\ k + 1 \in 0 .. N /\ (k + 1) - 1 = k
      BY <1>0
    <3> QED BY <1>0, <1>3, <3>1
  <2> HIDE DEF T
  <2>3. 0 .. N \subseteq T
    BY <1>0, <2>1, <2>2, UpTo
  <2> QED BY <2>3 DEF T
<1>5. used \in [0 .. N -> Nat]
  BY <1>2, <1>3, <1>4 DEF Is
<1>6. IsUsed(used, rows)
  BY <1>3, <1>5 DEF IsUsed, N
<1> QED BY <1>1, <1>6

(* The bytes that are left get fewer from row to row, so that the rows     *)
(* captured are the first ones.                                            *)
LEMMA UsedGrows ==
    ASSUME NEW S, NEW rows \in Seq(RowsOf(S)), Numbered(rows), NEW used, IsUsed(used, rows)
    PROVE  \A k \in 0 .. Len(rows) : \A j \in 0 .. k : used[j] <= used[k]
<1> DEFINE T == {k \in 0 .. Len(rows) : \A j \in 0 .. k : used[j] <= used[k]}
<1>0. /\ Len(rows) \in Nat /\ used \in [0 .. Len(rows) -> Nat]
      /\ \A k \in 1 .. Len(rows) : Width(rows[k]) \in Nat /\ used[k] = used[k - 1] + Width(rows[k])
  BY WidthIs, LenProperties DEF IsUsed
<1>1. 0 \in T
  BY <1>0
<1>2. ASSUME NEW k \in 0 .. Len(rows) - 1, k \in T PROVE k + 1 \in T
  <2>1. k + 1 \in 1 .. Len(rows) /\ (k + 1) - 1 = k /\ k \in 0 .. Len(rows)
    BY <1>0
  <2>4. used[k + 1] = used[k] + Width(rows[k + 1]) /\ Width(rows[k + 1]) \in Nat
    BY <1>0, <2>1
  <2>5. used[k] \in Nat
    BY <1>0, <2>1
  <2>2. used[k] \in Nat /\ used[k + 1] \in Nat /\ used[k] <= used[k + 1]
    BY <2>4, <2>5
  <2>3. \A j \in 0 .. k + 1 : j = k + 1 \/ (j \in 0 .. k /\ used[j] \in Nat)
    BY <1>0, <2>1
  <2> QED BY <1>2, <2>1, <2>2, <2>3
<1>3. \A k \in 0 .. Len(rows) - 1 : k \in T => k + 1 \in T
  BY <1>2
<1> HIDE DEF T
<1>4. 0 .. Len(rows) \subseteq T
  BY <1>0, <1>1, <1>3, UpTo
<1> QED BY <1>4 DEF T

(* rg's output, cut at the limit, is the first rows and their beginnings.  *)
LEMMA CapturedIs ==
    ASSUME NEW S, NEW rows \in Seq(RowsOf(S)), Numbered(rows), NEW limit \in Nat
    PROVE  /\ Captured(rows, limit) \in Seq(RowsOf(S))
           /\ Len(Captured(rows, limit)) <= Len(rows)
           /\ \A k \in 1 .. Len(Captured(rows, limit)) :
                  /\ Captured(rows, limit)[k].number = rows[k].number
                  /\ \E m \in Nat : Captured(rows, limit)[k].text = AtMost(m, rows[k].text)
<1> DEFINE cap == Captured(rows, limit)
<1>0. Len(rows) \in Nat /\ DOMAIN rows = 1 .. Len(rows) /\ \A k \in 1 .. Len(rows) : rows[k] \in RowsOf(S)
  BY LenProperties
<1>1. PICK used : IsUsed(used, rows) /\ cap = Cut(rows, limit, used)
  BY CapturedUsed
<1> DEFINE room(k) == Room(rows, limit, used, k)
           D == {j \in DOMAIN rows : room(j) >= 0}
<1>2. D \in SUBSET (1 .. Len(rows))
  BY <1>0
<1>3. ASSUME NEW i \in D, NEW j \in 1 .. i PROVE j \in D
  <2>1. /\ i \in 1 .. Len(rows) /\ j \in 1 .. Len(rows) /\ j \in DOMAIN rows
        /\ i - 1 \in 0 .. Len(rows) /\ j - 1 \in 0 .. Len(rows) /\ j \in 0 .. Len(rows)
    BY <1>0
  <2>2. /\ RowOverhead(rows[i].number) \in Nat \ {0} /\ RowOverhead(rows[j].number) \in Nat \ {0}
        /\ Len(rows[j].text) \in Nat
    BY <2>1, WidthIs
  <2>3. used[i - 1] \in Nat /\ used[j - 1] \in Nat /\ used[j] \in Nat
    BY <1>1, <2>1 DEF IsUsed
  <2> DEFINE over(k) == RowOverhead(rows[k].number)
             text    == Len(rows[j].text)
  <2>4. used[j] = used[j - 1] + (over(j) + text)
    BY <1>1, <2>1 DEF IsUsed, Width
  <2>5. CASE j = i
    BY <2>5
  <2>6. CASE j # i
    <3>1. j \in 0 .. i - 1
      BY <2>1, <2>6
    <3>2. used[j] <= used[i - 1]
      BY <1>1, <2>1, <3>1, UsedGrows
    <3>3. limit - used[i - 1] - (over(i) - 1) >= 0
      BY DEF Room
    <3>4. over(i) \in Nat \ {0} /\ over(j) \in Nat \ {0} /\ text \in Nat
      BY <2>2
    <3> DEFINE oi == over(i)  oj == over(j)
               ui == used[i - 1]  vj == used[j - 1]  uj == used[j]
    <3>5. /\ oi \in Nat \ {0} /\ oj \in Nat \ {0} /\ text \in Nat
          /\ ui \in Nat /\ vj \in Nat /\ uj \in Nat
          /\ uj = vj + (oj + text) /\ uj <= ui /\ limit - ui - (oi - 1) >= 0
      BY <2>3, <2>4, <3>2, <3>3, <3>4
    <3> HIDE DEF over, text, oi, oj, ui, vj, uj
    <3>6. limit - vj - (oj - 1) >= 0
      BY <3>5
    <3> QED BY <2>1, <3>6 DEF Room, over, oj, vj
  <2> QED BY <2>5, <2>6
<1>4. ASSUME NEW i \in D PROVE room(i) \in Nat
  <2>1. i \in 1 .. Len(rows) /\ i - 1 \in 0 .. Len(rows)
    BY <1>0
  <2>2. RowOverhead(rows[i].number) \in Nat \ {0}
    BY <2>1, WidthIs
  <2>3. used[i - 1] \in Nat
    BY <1>1, <2>1 DEF IsUsed
  <2>4. room(i) \in Int
    BY <2>2, <2>3 DEF Room
  <2> HIDE DEF room
  <2> QED BY <2>4
<1> HIDE DEF cap
<1>5. cap = [k \in D |-> [rows[k] EXCEPT !.text = AtMost(room(k), rows[k].text)]]
  BY <1>1 DEF Cut
<1> HIDE DEF D, room
<1>6. PICK c \in 0 .. Len(rows) : D = 1 .. c
  BY <1>0, <1>2, <1>3, InitialSegment
<1>7. ASSUME NEW k \in 1 .. c
      PROVE  /\ cap[k] \in RowsOf(S) /\ cap[k].number = rows[k].number
             /\ \E m \in Nat : cap[k].text = AtMost(m, rows[k].text)
  <2> DEFINE m == room(k)
  <2>1. k \in D /\ m \in Nat /\ k \in 1 .. Len(rows) /\ rows[k] \in RowsOf(S)
    BY <1>0, <1>4, <1>6
  <2>2. cap[k] = [rows[k] EXCEPT !.text = AtMost(m, rows[k].text)]
    BY <1>5, <2>1
  <2> HIDE DEF m
  <2>3. AtMost(m, rows[k].text) \in Seq(S)
    BY <2>1, AtMostIs DEF RowsOf
  <2> QED BY <2>1, <2>2, <2>3 DEF RowsOf
<1>8. cap \in [1 .. c -> RowsOf(S)]
  BY <1>5, <1>6, <1>7
<1>9. cap \in Seq(RowsOf(S)) /\ Len(cap) = c
  BY <1>6, <1>8, FunctionIsSeq
<1> QED BY <1>6, <1>7, <1>9 DEF cap

(* Products of limits.                                                     *)
LEMMA Products ==
    ASSUME NEW a \in Nat, NEW b \in Nat, NEW w \in Nat, a <= b
    PROVE  a * w \in Nat /\ a * w <= b * w /\ (a + 1) * w = a * w + w
OBVIOUS

(* A limit with room for all rows cuts nothing.                            *)
LEMMA CapturedAll ==
    ASSUME NEW S, NEW rows \in Seq(RowsOf(S)), Numbered(rows), NEW limit \in Nat, NEW w \in Nat,
           \A k \in 1 .. Len(rows) : Width(rows[k]) <= w,
           Len(rows) * w <= limit
    PROVE  Captured(rows, limit) = rows
<1>0. /\ Len(rows) \in Nat /\ DOMAIN rows = 1 .. Len(rows)
      /\ rows \in [1 .. Len(rows) -> RowsOf(S)]
      /\ \A k \in 1 .. Len(rows) : /\ RowOverhead(rows[k].number) \in Nat \ {0}
                                    /\ Width(rows[k]) \in Nat /\ Len(rows[k].text) \in Nat
                                    /\ rows[k].text \in Seq(S)
  BY WidthIs, LenProperties
<1>1. PICK used : IsUsed(used, rows) /\ Captured(rows, limit) = Cut(rows, limit, used)
  BY CapturedUsed
<1>2. \A k \in 0 .. Len(rows) : used[k] \in Nat /\ used[k] <= k * w
  <2> DEFINE T == {k \in 0 .. Len(rows) : used[k] \in Nat /\ used[k] <= k * w}
  <2>1. 0 \in T
    BY <1>0, <1>1 DEF IsUsed
  <2>2. ASSUME NEW k \in 0 .. Len(rows) - 1, k \in T PROVE k + 1 \in T
    <3>1. k + 1 \in 1 .. Len(rows) /\ k + 1 \in 0 .. Len(rows) /\ (k + 1) - 1 = k /\ k \in Nat
      BY <1>0
    <3>2. used[k + 1] = used[k] + Width(rows[k + 1])
      BY <1>1, <3>1 DEF IsUsed
    <3>3. (k + 1) * w = k * w + w /\ k * w \in Nat
      BY <3>1, Products
    <3>4. Width(rows[k + 1]) \in Nat /\ Width(rows[k + 1]) <= w
      BY <1>0, <3>1
    <3> QED BY <2>2, <3>1, <3>2, <3>3, <3>4
  <2>3. \A k \in 0 .. Len(rows) - 1 : k \in T => k + 1 \in T
    BY <2>2
  <2> HIDE DEF T
  <2>4. 0 .. Len(rows) \subseteq T
    BY <1>0, <2>1, <2>3, UpTo
  <2> QED BY <2>4 DEF T
<1>3. ASSUME NEW k \in 1 .. Len(rows)
      PROVE  /\ Room(rows, limit, used, k) >= 0
             /\ [rows[k] EXCEPT !.text = AtMost(Room(rows, limit, used, k), @)] = rows[k]
  <2>1. k - 1 \in 0 .. Len(rows) /\ k - 1 \in Nat /\ k \in Nat /\ (k - 1) + 1 = k
    BY <1>0
  <2>2. used[k - 1] \in Nat /\ used[k - 1] <= (k - 1) * w
    BY <1>2, <2>1
  <2>3. (k - 1) * w \in Nat /\ k * w \in Nat /\ k * w = (k - 1) * w + w /\ k * w <= Len(rows) * w
    <3>1. (k - 1) * w \in Nat /\ ((k - 1) + 1) * w = (k - 1) * w + w
      BY <2>1, Products
    <3>2. k \in Nat /\ Len(rows) \in Nat /\ k <= Len(rows)
      BY <1>0
    <3>3. k * w \in Nat /\ k * w <= Len(rows) * w
      BY <3>2, Products
    <3> QED BY <2>1, <3>1, <3>3
  <2>4. limit - used[k - 1] >= w
    <3> DEFINE a == (k - 1) * w  b == k * w  c == Len(rows) * w
    <3>1. a \in Nat /\ b = a + w /\ b <= c /\ c <= limit /\ c \in Nat /\ used[k - 1] <= a
      <4>1. c \in Nat
        BY <1>0, Products
      <4> QED BY <2>2, <2>3, <4>1
    <3> HIDE DEF a, b, c
    <3> QED BY <2>2, <3>1
  <2> DEFINE room == Room(rows, limit, used, k)
  <2>5. room \in Nat /\ Len(rows[k].text) <= room
    <3> DEFINE over == RowOverhead(rows[k].number)
               text == Len(rows[k].text)
    <3>1. over + text <= w
      BY DEF Width
    <3>2. over \in Nat \ {0} /\ text \in Nat
      BY <1>0
    <3>3. room = limit - used[k - 1] - (over - 1)
      BY DEF Room
    <3> HIDE DEF room, over, text
    <3>4. room \in Nat /\ text <= room
      BY <2>2, <2>4, <3>1, <3>2, <3>3
    <3> QED BY <3>4 DEF text
  <2> HIDE DEF room
  <2>6. AtMost(room, rows[k].text) = rows[k].text
    BY <1>0, <2>5, AtMostIs
  <2>7. rows[k] \in RowsOf(S)
    BY <1>0
  <2>8. [rows[k] EXCEPT !.text = rows[k].text] = rows[k]
    BY <2>7 DEF RowsOf
  <2>9. room >= 0
    BY <2>5
  <2> QED BY <2>6, <2>8, <2>9 DEF room
<1>4. {j \in DOMAIN rows : Room(rows, limit, used, j) >= 0} = 1 .. Len(rows)
  BY <1>0, <1>3
<1>5. Captured(rows, limit) = [k \in 1 .. Len(rows) |-> rows[k]]
  BY <1>1, <1>3, <1>4 DEF Cut
<1> QED BY <1>0, <1>5

-----------------------------------------------------------------------------
(* What the C++ server's grep_file replies.                                *)

LEMMA LimitsAreNat == Limits \subseteq Nat
BY LimitsAssumption

LEMMA SmallMod ==
    ASSUME NEW w \in Nat \ {0}, NEW x \in Nat
    PROVE  x % w \in 0 .. w - 1 /\ (x < w => x % w = x)
OBVIOUS

(* Where the sum and the product stay below 2^64, the limit has room for   *)
(* m rows; it is a number in any case.                                     *)
LEMMA LimitIs ==
    ASSUME NEW m \in Nat, NEW n \in Nat
    PROVE  /\ grep_output_limit(m, n) \in Nat
           /\ m > 0 /\ n > 0 /\ Max({m, 1}) * (Max({n, 1}) + RowSlack) < Word =>
                  m * (n + RowSlack) <= grep_output_limit(m, n)
<1> DEFINE M == Max({m, 1})  N == Max({n, 1})  w == N + RowSlack  r == w % Word
<1>1. M \in Nat \ {0} /\ N \in Nat /\ (m > 0 => M = m) /\ (n > 0 => N = n)
  <2>1. M = (IF m <= 1 THEN 1 ELSE m) /\ N = (IF n <= 1 THEN 1 ELSE n)
    BY MinMax
  <2> HIDE DEF M, N
  <2> QED BY <2>1
<1> DEFINE p == (M * r) % Word
<1>2. grep_output_limit(m, n) = Max({OutputFloor, p})
  BY DEF grep_output_limit
<1> HIDE DEF M, N
<1>3. Word \in Nat \ {0} /\ w \in Nat /\ OutputFloor \in Nat
  BY <1>1, SlackAssumption, LimitsAssumption
<1> HIDE DEF w
<1>4. r \in Nat /\ (w < Word => r = w)
  <2>1. r \in 0 .. Word - 1 /\ (w < Word => r = w)
    BY <1>3, SmallMod
  <2> HIDE DEF r
  <2> QED BY <1>3, <2>1
<1> HIDE DEF r
<1> DEFINE a == M * r  b == M * w
<1>5. a \in Nat /\ b \in Nat /\ w <= b
  <2>1. a \in Nat
    BY <1>1, <1>4, Products
  <2>2. b \in Nat /\ 1 * w <= b
    BY <1>1, <1>3, Products
  <2> HIDE DEF a, b
  <2> QED BY <1>3, <2>1, <2>2
<1>6. p = a % Word
  OBVIOUS
<1>7. r = w => a = b
  OBVIOUS
<1> HIDE DEF a, b, p
<1>8. p \in Nat /\ (b < Word => p = b)
  <2>1. p \in 0 .. Word - 1 /\ (a < Word => p = a)
    BY <1>3, <1>5, <1>6, SmallMod
  <2>2. b < Word => w < Word
    BY <1>3, <1>5
  <2> QED BY <1>3, <1>4, <1>5, <1>7, <2>1, <2>2
<1>9. Max({OutputFloor, p}) \in Nat /\ p <= Max({OutputFloor, p})
  <2>1. p \in Int /\ OutputFloor \in Int
    BY <1>3, <1>8
  <2>2. Max({OutputFloor, p}) = IF OutputFloor <= p THEN p ELSE OutputFloor
    BY <2>1, MinMax
  <2> QED BY <1>3, <1>8, <2>2
<1>10. m > 0 /\ n > 0 => b = m * (n + RowSlack)
  BY <1>1 DEF b, w
<1>11. b < Word => b <= Max({OutputFloor, p})
  BY <1>8, <1>9
<1>12. b = Max({m, 1}) * (Max({n, 1}) + RowSlack)
  BY DEF b, w, M, N
<1> HIDE DEF p
<1> QED BY <1>2, <1>9, <1>10, <1>11, <1>12

LEMMA ScanLimitIs ==
    ASSUME NEW q \in GrepRequest
    PROVE  /\ q.max_matches \in Nat /\ q.max_line_length \in Nat
           /\ q.cpp_rg \in Rg /\ q.rust_rg \in Rg
           /\ ScanLimit(q) \in Nat \ {0} /\ q.max_matches <= ScanLimit(q)
           /\ q.max_matches > 0 => ScanLimit(q) = q.max_matches
<1>1. q.max_matches \in Nat /\ q.max_line_length \in Nat /\ q.cpp_rg \in Rg /\ q.rust_rg \in Rg
  BY LimitsAreNat DEF GrepRequest
<1>2. ScanLimit(q) = IF q.max_matches <= 1 THEN 1 ELSE q.max_matches
  <2>1. q.max_matches \in Int /\ 1 \in Int
    BY <1>1
  <2> QED BY <2>1, MinMax DEF ScanLimit
<1> QED BY <1>1, <1>2

(* A reply that shows the first rows of all, or beginnings of them.        *)
ShowsFirstOf(reply, all, n) ==
    /\ Len(reply) <= Len(all)
    /\ \A k \in 1 .. Len(reply) : /\ reply[k].number = all[k].number
                                  /\ IsPrefix(reply[k].text, all[k].text)
                                  /\ Len(reply[k].text) <= n

LEMMA FirstRowsShorter ==
    ASSUME NEW S, NEW all \in Seq(RowsOf(S)), NEW rows \in Seq(RowsOf(S)), NEW n \in Nat,
           Len(rows) <= Len(all),
           \A k \in 1 .. Len(rows) : /\ rows[k].number = all[k].number
                                     /\ \E m \in Nat : rows[k].text = AtMost(m, all[k].text)
    PROVE  ShowsFirstOf(Shorten(rows, n), all, n)
<1> DEFINE reply == Shorten(rows, n)
<1>1. /\ Len(reply) = Len(rows)
      /\ \A k \in 1 .. Len(rows) : /\ reply[k].number = rows[k].number
                                   /\ reply[k].text = AtMost(n, rows[k].text)
  <2>1. Len(reply) = Len(rows)
    BY ShortenIs
  <2>2. ASSUME NEW k \in 1 .. Len(rows)
        PROVE  reply[k].number = rows[k].number /\ reply[k].text = AtMost(n, rows[k].text)
    BY ShortenIs
  <2> QED BY <2>1, <2>2
<1>2. \A k \in 1 .. Len(rows) : all[k] \in RowsOf(S)
  BY LenProperties
<1> HIDE DEF reply
<1>3. ASSUME NEW k \in 1 .. Len(rows)
      PROVE  /\ reply[k].number = all[k].number
             /\ IsPrefix(reply[k].text, all[k].text) /\ Len(reply[k].text) <= n
  <2>1. PICK m \in Nat : rows[k].text = AtMost(m, all[k].text)
    OBVIOUS
  <2>2. all[k].text \in Seq(S)
    BY <1>2 DEF RowsOf
  <2> QED BY <1>1, <2>1, <2>2, AtMostTwice
<1> QED BY <1>1, <1>3 DEF ShowsFirstOf, reply

LEMMA RowsOfFile ==
    ASSUME NEW f \in Texts, NEW needle
    PROVE  /\ getline(f) \in Seq(Seq(Bytes))
           /\ Rows(getline(f), needle) \in Seq(RowsOf(Bytes))
           /\ \A n \in Nat : Numbered(AtMost(n, Rows(getline(f), needle)))
<1> DEFINE ls == getline(f)
           all == Rows(ls, needle)
<1>1. ls \in Seq(Seq(Bytes)) /\ DOMAIN ls = 1 .. Len(ls)
  BY TextsAssumption, GetlineIs, LenProperties
<1>2. \A k \in 1 .. Len(ls) : RowOverhead(k) \in 2 .. RowSlack
  BY <1>1, SlackAssumption
<1> HIDE DEF ls
<1>3. all \in Seq(RowsOf(Bytes)) /\ \A k \in 1 .. Len(all) : all[k].number \in 1 .. Len(ls)
  BY <1>1, RowsIs
<1> HIDE DEF all
<1>4. ASSUME NEW n \in Nat PROVE Numbered(AtMost(n, all))
  <2> DEFINE rows == AtMost(n, all)
  <2>1. \A k \in 1 .. Len(rows) : rows[k] = all[k] /\ k \in 1 .. Len(all)
    BY <1>3, AtMostIs
  <2> HIDE DEF rows
  <2>2. Numbered(rows)
    BY <1>2, <1>3, <2>1 DEF Numbered
  <2> QED BY <2>2 DEF rows
<1> QED BY <1>1, <1>3, <1>4 DEF all, ls

LEMMA CppGrepShows ==
    ASSUME NEW f \in Texts, NEW q \in GrepRequest, q.cpp_rg # "fails"
    PROVE  LET all == Rows(getline(f), q.needle)
           IN  /\ CppGrep(f, q) \in Seq(RowsOf(Bytes))
               /\ ShowsFirstOf(CppGrep(f, q), all, q.max_line_length)
               /\ Len(CppGrep(f, q)) <= ScanLimit(q)
<1> DEFINE all == Rows(getline(f), q.needle)
           m == q.max_matches
           n == q.max_line_length
           limit == grep_output_limit(m, n)
           W == ScanLimit(q)
<1>1. all \in Seq(RowsOf(Bytes)) /\ Len(all) \in Nat /\ \A k \in 1 .. Len(all) : all[k] \in RowsOf(Bytes)
  BY RowsOfFile, LenProperties
<1>2. m \in Nat /\ n \in Nat /\ q.cpp_rg \in Rg /\ W \in Nat /\ m <= W /\ limit \in Nat
  BY ScanLimitIs, LimitIs
<1>3. ASSUME NEW w \in Nat
      PROVE  /\ AtMost(w, all) \in Seq(RowsOf(Bytes)) /\ Len(AtMost(w, all)) \in Nat
             /\ Len(AtMost(w, all)) <= Len(all) /\ Len(AtMost(w, all)) <= w
             /\ \A k \in 1 .. Len(AtMost(w, all)) :
                    AtMost(w, all)[k] = all[k] /\ k \in 1 .. Len(all)
  BY <1>1, AtMostIs
<1>4. \A k \in 1 .. Len(all) : \E b \in Nat : all[k].text = AtMost(b, all[k].text)
  <2>1. ASSUME NEW k \in 1 .. Len(all)
        PROVE  Len(all[k].text) \in Nat /\ all[k].text = AtMost(Len(all[k].text), all[k].text)
    <3>1. all[k].text \in Seq(Bytes)
      BY <1>1 DEF RowsOf
    <3> QED BY <3>1, AtMostIs, LenProperties
  <2> QED BY <2>1
<1>5. CASE q.cpp_rg = "rows"
  <2> DEFINE rows == AtMost(m, all)
             cap == Captured(rows, limit)
  <2>1. /\ rows \in Seq(RowsOf(Bytes)) /\ Len(rows) \in Nat /\ Len(rows) <= Len(all) /\ Len(rows) <= m
        /\ \A k \in 1 .. Len(rows) : rows[k] = all[k] /\ k \in 1 .. Len(all)
    BY <1>2, <1>3
  <2>a. Numbered(rows)
    BY <1>2, RowsOfFile
  <2>2. CppGrep(f, q) = Shorten(cap, n)
    BY <1>5 DEF CppGrep, RgRows
  <2> HIDE DEF rows, all, m, n, limit, W
  <2>3. /\ cap \in Seq(RowsOf(Bytes)) /\ Len(cap) \in Nat /\ Len(cap) <= Len(rows)
        /\ \A k \in 1 .. Len(cap) : /\ cap[k].number = rows[k].number
                                    /\ \E b \in Nat : cap[k].text = AtMost(b, rows[k].text)
    BY <1>2, <2>1, <2>a, CapturedIs, LenProperties
  <2> HIDE DEF cap
  <2>4. \A k \in 1 .. Len(cap) : /\ cap[k].number = all[k].number
                                 /\ \E b \in Nat : cap[k].text = AtMost(b, all[k].text)
    <3>1. ASSUME NEW k \in 1 .. Len(cap) PROVE rows[k] = all[k]
      BY <2>1, <2>3
    <3> QED BY <2>3, <3>1
  <2>5. Len(cap) <= Len(all) /\ Len(cap) <= W
    BY <1>1, <1>2, <2>1, <2>3
  <2>6. ShowsFirstOf(Shorten(cap, n), all, n)
    BY <1>1, <1>2, <2>3, <2>4, <2>5, FirstRowsShorter
  <2>7. Shorten(cap, n) \in Seq(RowsOf(Bytes)) /\ Len(Shorten(cap, n)) = Len(cap)
    BY <1>2, <2>3, ShortenIs
  <2> QED BY <2>2, <2>5, <2>6, <2>7 DEF all, n, W
<1>6. CASE q.cpp_rg = "missing"
  <2> DEFINE rows == AtMost(W, all)
  <2>1. /\ rows \in Seq(RowsOf(Bytes)) /\ Len(rows) \in Nat /\ Len(rows) <= Len(all) /\ Len(rows) <= W
        /\ \A k \in 1 .. Len(rows) : rows[k] = all[k] /\ k \in 1 .. Len(all)
    BY <1>2, <1>3
  <2>2. CppGrep(f, q) = Shorten(rows, n)
    BY <1>6 DEF CppGrep, grep_file_text_builtin
  <2> HIDE DEF rows, all, n, W
  <2>3. \A k \in 1 .. Len(rows) : /\ rows[k].number = all[k].number
                                  /\ \E b \in Nat : rows[k].text = AtMost(b, all[k].text)
    BY <1>4, <2>1
  <2>4. ShowsFirstOf(Shorten(rows, n), all, n)
    BY <1>1, <1>2, <2>1, <2>3, FirstRowsShorter
  <2>5. Shorten(rows, n) \in Seq(RowsOf(Bytes)) /\ Len(Shorten(rows, n)) = Len(rows)
    BY <1>2, <2>1, ShortenIs
  <2> QED BY <2>1, <2>2, <2>4, <2>5 DEF all, n, W
<1> QED BY <1>2, <1>5, <1>6 DEF Rg

(* If no line is longer than the limit on it and the limit on the output   *)
(* does not wrap around, rg's output is not cut.                           *)
LEMMA RgUncut ==
    ASSUME NEW f \in Texts, NEW q \in GrepRequest, q.max_matches > 0, q.max_line_length > 0,
           ~Wraps(q),
           \A k \in 1 .. Len(Rows(getline(f), q.needle)) :
               Len(Rows(getline(f), q.needle)[k].text) <= q.max_line_length
    PROVE  /\ RgRows(f, q) = AtMost(ScanLimit(q), Rows(getline(f), q.needle))
           /\ Captured(RgRows(f, q), grep_output_limit(q.max_matches, q.max_line_length)) = RgRows(f, q)
<1> DEFINE all == Rows(getline(f), q.needle)
           m == q.max_matches
           n == q.max_line_length
           w == n + RowSlack
           limit == grep_output_limit(m, n)
           rows == RgRows(f, q)
<1>1. all \in Seq(RowsOf(Bytes)) /\ Len(all) \in Nat /\ \A k \in 1 .. Len(all) : all[k] \in RowsOf(Bytes)
  BY RowsOfFile, LenProperties
<1>2. m \in Nat /\ n \in Nat /\ ScanLimit(q) = m /\ limit \in Nat /\ m * w <= limit
  <2>1. m \in Nat /\ n \in Nat /\ ScanLimit(q) = m
    BY ScanLimitIs
  <2> DEFINE b == Max({m, 1}) * (Max({n, 1}) + RowSlack)
  <2>2. b \in Nat
    <3>1. /\ Max({m, 1}) = (IF m <= 1 THEN 1 ELSE m)
          /\ Max({n, 1}) = (IF n <= 1 THEN 1 ELSE n)
      <4> HIDE DEF m, n
      <4>1. m \in Int /\ n \in Int /\ 1 \in Int
        BY <2>1
      <4> QED BY <4>1, MinMax
    <3> DEFINE M == Max({m, 1})  v == Max({n, 1}) + RowSlack
    <3>2. M \in Nat /\ v \in Nat
      <4> HIDE DEF m, n
      <4> QED BY <2>1, <3>1, SlackAssumption
    <3> HIDE DEF M, v
    <3>3. M * v \in Nat
      BY <3>2, Products
    <3> QED BY <3>3 DEF M, v
  <2>3. ~(b >= Word) /\ Word \in Nat
    BY LimitsAssumption DEF Wraps
  <2> HIDE DEF b
  <2>4. b < Word
    BY <2>2, <2>3
  <2> QED BY <2>1, <2>4, LimitIs DEF b
<1>3. rows = AtMost(m, all)
  BY DEF RgRows
<1>4. w \in Nat /\ w = n + RowSlack /\ RowSlack \in Nat
  BY <1>2, SlackAssumption
<1>a. Numbered(AtMost(m, all))
  BY <1>2, RowsOfFile
<1> HIDE DEF m, n, w, limit, rows, all
<1>5. /\ rows \in Seq(RowsOf(Bytes)) /\ Len(rows) \in Nat /\ Len(rows) <= m
      /\ \A k \in 1 .. Len(rows) : rows[k] = all[k] /\ k \in 1 .. Len(all)
  BY <1>1, <1>2, <1>3, AtMostIs
<1>6. ASSUME NEW k \in 1 .. Len(rows) PROVE Width(rows[k]) <= w
  <2>1. all[k].text \in Seq(Bytes) /\ Len(all[k].text) \in Nat
    BY <1>1, <1>5, LenProperties DEF RowsOf
  <2>2. Len(all[k].text) <= n
    BY <1>5 DEF all, n
  <2>3. RowOverhead(rows[k].number) \in 2 .. RowSlack
    BY <1>3, <1>a DEF Numbered
  <2>4. rows[k] = all[k]
    BY <1>5
  <2> QED BY <1>2, <1>4, <2>1, <2>2, <2>3, <2>4 DEF Width
<1>7. Len(rows) * w <= limit
  <2>1. Len(rows) * w \in Nat /\ Len(rows) * w <= m * w /\ m * w \in Nat
    <3>1. Len(rows) * w \in Nat /\ Len(rows) * w <= m * w
      BY <1>2, <1>4, <1>5, Products
    <3>2. m <= m /\ m * w \in Nat
      BY <1>2, <1>4, Products
    <3> QED BY <3>1, <3>2
  <2> DEFINE a == Len(rows) * w  b == m * w
  <2>2. a \in Nat /\ b \in Nat /\ a <= b /\ b <= limit
    BY <1>2, <2>1
  <2> HIDE DEF a, b
  <2>3. a <= limit
    BY <1>2, <2>2
  <2> QED BY <2>3 DEF a
<1>8. Captured(rows, limit) = rows
  BY <1>2, <1>3, <1>4, <1>5, <1>6, <1>7, <1>a, CapturedAll
<1> QED BY <1>2, <1>3, <1>8 DEF rows, limit, m, n, all

-----------------------------------------------------------------------------
(* The invariant: the replies are those of the handlers to the request     *)
(* being served, of the file and the root the servers have.                *)

ListServed ==
    /\ request \in ListRequest
    /\ cpp = List(normalize_under_root(request))
    /\ rust = List(resolve_path(request))
NoFileServed ==
    /\ request \in Requests \ ListRequest /\ file = Absent
    /\ cpp = Failed /\ rust = Failed
ReadServed ==
    /\ request \in ReadRequest /\ file # Absent
    /\ cpp = CppRead(file, request) /\ rust = RustRead(file, request)
TailServed ==
    /\ request \in TailRequest /\ file # Absent
    /\ cpp \in CppTails(file, request) /\ rust = RustTail(file, request)
GrepServed ==
    /\ request \in GrepRequest /\ file # Absent
    /\ request.needle = <<>> => cpp = Failed /\ rust = Failed
    /\ request.needle # <<>> => cpp = CppGrep(file, request) /\ rust = RustGrep(file, request)

Served ==
    /\ root \in Roots
    /\ file \in Texts \cup {Absent}
    /\ request # NoRequest =>
           ListServed \/ NoFileServed \/ ReadServed \/ TailServed \/ GrepServed

LEMMA ServedInit == Init => Served
BY HostsAssumption DEF Init, Served

LEMMA ServedStep == Served /\ [Next]_vars => Served'
<1> SUFFICES ASSUME Served, [Next]_vars PROVE Served'
  OBVIOUS
<1>1. ASSUME NEW q \in ListRequest, list_dir(q) PROVE Served'
  <2>1. UNCHANGED <<root, file>> /\ request' = q
    BY <1>1 DEF list_dir, Ask
  <2>2. ListServed'
    <3>1. cpp' = List(normalize_under_root(q)) /\ rust' = List(resolve_path(q))
      BY <1>1 DEF list_dir
    <3>2. normalize_under_root(request)' = normalize_under_root(q)
      BY <2>1 DEF normalize_under_root
    <3>3. resolve_path(request)' = resolve_path(q)
      BY <2>1 DEF resolve_path
    <3> QED BY <1>1, <2>1, <3>1, <3>2, <3>3 DEF ListServed
  <2> QED BY <2>1, <2>2 DEF Served
<1>2. ASSUME NEW q \in Requests \ ListRequest, NoSuchFile(q) PROVE Served'
  BY <1>2 DEF NoSuchFile, Ask, Served, NoFileServed
<1>3. ASSUME NEW q \in ReadRequest, read_file(q) PROVE Served'
  BY <1>3 DEF read_file, Ask, Served, ReadServed
<1>4. ASSUME NEW q \in TailRequest, tail_file(q) PROVE Served'
  BY <1>4 DEF tail_file, Ask, Served, TailServed
<1>5. ASSUME NEW q \in GrepRequest, grep_file(q) PROVE Served'
  BY <1>5 DEF grep_file, Ask, Served, GrepServed
<1>6. CASE Answered
  BY <1>6 DEF Answered, Served
<1>7. CASE UNCHANGED vars
  BY <1>7 DEF vars, Served, ListServed, NoFileServed, ReadServed, TailServed, GrepServed,
              normalize_under_root, resolve_path
<1> QED BY <1>1, <1>2, <1>3, <1>4, <1>5, <1>6, <1>7 DEF Next

LEMMA ServedAlways == Spec => []Served
<1> QED BY ServedInit, ServedStep, PTL DEF Spec

(* Which disjunct it is shows from the request.                            *)
LEMMA AskedIs ==
    ASSUME Served
    PROVE  /\ Asked("read") => ReadServed /\ file \in Texts
           /\ Asked("tail") => TailServed /\ file \in Texts
           /\ Asked("grep") => GrepServed /\ file \in Texts
BY DEF Served, Asked, ListServed, NoFileServed, ReadServed, TailServed, GrepServed,
       ListRequest, ReadRequest, TailRequest, GrepRequest

LEMMA PositiveIs ==
    ASSUME Positive
    PROVE  /\ request \in ReadRequest => request.max_bytes \in Nat \ {0}
           /\ request \in TailRequest => request.lines \in Nat \ {0} /\ request.max_bytes \in Nat \ {0}
           /\ request \in GrepRequest =>
                  request.max_matches \in Nat \ {0} /\ request.max_line_length \in Nat \ {0}
<1> DEFINE limits == {"lines", "max_bytes", "max_matches", "max_line_length"}
<1>0. \A field \in DOMAIN request \cap limits : request[field] > 0
  BY DEF Positive
<1>1. ASSUME request \in ReadRequest PROVE request.max_bytes \in Nat \ {0}
  <2>1. DOMAIN request = {"op", "max_bytes"} /\ request.max_bytes \in Limits
    BY <1>1 DEF ReadRequest
  <2>2. request.max_bytes \in Nat
    BY <2>1, LimitsAreNat
  <2>3. request["max_bytes"] > 0
    BY <1>0, <2>1
  <2> QED BY <2>2, <2>3
<1>2. ASSUME request \in TailRequest
      PROVE  request.lines \in Nat \ {0} /\ request.max_bytes \in Nat \ {0}
  <2>1. /\ DOMAIN request = {"op", "lines", "max_bytes"}
        /\ request.lines \in Limits /\ request.max_bytes \in Limits
    BY <1>2 DEF TailRequest
  <2>2. request.lines \in Nat /\ request.max_bytes \in Nat
    BY <2>1, LimitsAreNat
  <2>3. request["lines"] > 0 /\ request["max_bytes"] > 0
    BY <1>0, <2>1
  <2> QED BY <2>2, <2>3
<1>3. ASSUME request \in GrepRequest
      PROVE  request.max_matches \in Nat \ {0} /\ request.max_line_length \in Nat \ {0}
  <2>1. /\ DOMAIN request = {"op", "needle", "max_matches", "max_line_length",
                           "cpp_rg", "rust_rg"}
        /\ request.max_matches \in Limits /\ request.max_line_length \in Limits
    BY <1>3 DEF GrepRequest
  <2>2. request.max_matches \in Nat /\ request.max_line_length \in Nat
    BY <2>1, LimitsAreNat
  <2>3. request["max_matches"] > 0 /\ request["max_line_length"] > 0
    BY <1>0, <2>1
  <2> QED BY <2>2, <2>3
<1> QED BY <1>1, <1>2, <1>3, Zenon

-----------------------------------------------------------------------------
(* Theorems about the C++ server's replies.                                *)

LEMMA TailInv == Served => TailShowsLastLines
<1> SUFFICES ASSUME Served, Asked("tail"), request.lines > 0
             PROVE  LET ls == getline(file)
                        from == Max({1, Len(ls) - request.lines + 1})
                    IN cpp = AtMost(request.max_bytes, Unlines(SubSeq(ls, from, Len(ls))))
  BY DEF TailShowsLastLines
<1> DEFINE ls == getline(file)
           n == request.lines
<1>1. TailServed /\ file \in Texts
  BY AskedIs
<1>2. n \in Nat \ {0}
  <2>1. request.lines \in Limits
    BY <1>1 DEF TailServed, TailRequest
  <2>2. request.lines \in Nat
    BY <2>1, LimitsAreNat
  <2> QED BY <2>2
<1>3. ls \in Seq(Seq(Bytes)) /\ Len(ls) \in Nat
  BY <1>1, RowsOfFile, LenProperties
<1>4. cpp = truncate_text(Unlines(Ring(ls, n)), request.max_bytes)
  BY <1>1, <1>2 DEF TailServed, CppTails
<1>5. Ring(ls, n) = LastOf(ls, Len(ls), n)
  BY <1>2, <1>3, RingIs
<1> HIDE DEF ls, n
<1>6. Max({1, Len(ls) - n + 1}) = IF Len(ls) <= n THEN 1 ELSE Len(ls) - n + 1
  <2>1. Len(ls) - n + 1 \in Int /\ 1 \in Int
    BY <1>2, <1>3
  <2>2. Max({1, Len(ls) - n + 1}) = IF 1 <= Len(ls) - n + 1 THEN Len(ls) - n + 1 ELSE 1
    BY <2>1, MinMax
  <2> QED BY <1>2, <1>3, <2>2
<1>7. Ring(ls, n) = SubSeq(ls, Max({1, Len(ls) - n + 1}), Len(ls))
  BY <1>5, <1>6 DEF LastOf
<1> QED BY <1>4, <1>7 DEF truncate_text, ls, n

(* tail_file of the C++ server: whatever the file, the ring of n lines     *)
(* ends with the last n of them, so the reply is these, cut at max_bytes.  *)
THEOREM TailIsTheEnd == Spec => []TailShowsLastLines
<1> QED BY ServedAlways, TailInv, PTL

LEMMA GrepInv == Served => GrepShowsMatches
<1> SUFFICES ASSUME Served, Asked("grep"), cpp # Failed
             PROVE  LET all == Rows(getline(file), request.needle)
                    IN /\ Len(cpp) <= Len(all)
                       /\ Len(cpp) <= ScanLimit(request)
                       /\ \A k \in DOMAIN cpp : /\ cpp[k].number = all[k].number
                                                /\ IsPrefix(cpp[k].text, all[k].text)
                                                /\ Len(cpp[k].text) <= request.max_line_length
  BY DEF GrepShowsMatches
<1>1. GrepServed /\ file \in Texts /\ request \in GrepRequest
  BY AskedIs DEF GrepServed
<1>2. cpp = CppGrep(file, request)
  BY <1>1 DEF GrepServed
<1>3. request.cpp_rg # "fails"
  BY <1>2 DEF CppGrep
<1>4. LET all == Rows(getline(file), request.needle)
      IN  /\ cpp \in Seq(RowsOf(Bytes))
          /\ ShowsFirstOf(cpp, all, request.max_line_length)
          /\ Len(cpp) <= ScanLimit(request)
  BY <1>1, <1>2, <1>3, CppGrepShows
<1>5. DOMAIN cpp = 1 .. Len(cpp)
  BY <1>4, LenProperties
<1> QED BY <1>4, <1>5 DEF ShowsFirstOf

(* grep_file of the C++ server, with rg or without: its rows are the first *)
(* of the rows that match, or beginnings of them, wherever rg's output was *)
(* cut, and no more than asked for.                                        *)
THEOREM GrepIsTheMatches == Spec => []GrepShowsMatches
<1> QED BY ServedAlways, GrepInv, PTL

LEMMA FallbackInv == Served => FallbackAgrees
<1> DEFINE all == Rows(getline(file), request.needle)
           p == [request EXCEPT !.cpp_rg = "rows"]
           m == [request EXCEPT !.cpp_rg = "missing"]
<1> SUFFICES ASSUME Served, Asked("grep"), Positive, ~Wraps(request),
                    \A k \in DOMAIN all : Len(all[k].text) <= request.max_line_length
             PROVE  CppGrep(file, p) = CppGrep(file, m)
  BY DEF FallbackAgrees
<1>1. file \in Texts /\ request \in GrepRequest
  BY AskedIs DEF GrepServed
<1>2. request.max_matches \in Nat \ {0} /\ request.max_line_length \in Nat \ {0}
  BY <1>1, PositiveIs
<1>3. /\ p \in GrepRequest /\ p.needle = request.needle /\ p.max_matches = request.max_matches
      /\ p.max_line_length = request.max_line_length /\ p.cpp_rg = "rows"
  BY <1>1 DEF GrepRequest, Rg
<1>4. /\ m \in GrepRequest /\ m.needle = request.needle /\ m.max_matches = request.max_matches
      /\ m.max_line_length = request.max_line_length /\ m.cpp_rg = "missing"
  BY <1>1 DEF GrepRequest, Rg
<1>5. all \in Seq(RowsOf(Bytes)) /\ DOMAIN all = 1 .. Len(all)
  BY <1>1, RowsOfFile, LenProperties
<1> HIDE DEF p, m
<1>6. \A k \in 1 .. Len(Rows(getline(file), p.needle)) :
          Len(Rows(getline(file), p.needle)[k].text) <= p.max_line_length
  BY <1>3, <1>5
<1>7. /\ RgRows(file, p) = AtMost(ScanLimit(p), Rows(getline(file), p.needle))
      /\ Captured(RgRows(file, p), grep_output_limit(p.max_matches, p.max_line_length)) = RgRows(file, p)
  <2>1. ~Wraps(p)
    BY <1>3 DEF Wraps
  <2> QED BY <1>1, <1>2, <1>3, <1>6, <2>1, RgUncut
<1>8. CppGrep(file, p) = Shorten(RgRows(file, p), p.max_line_length)
  BY <1>3, <1>7 DEF CppGrep
<1>9. CppGrep(file, m) = Shorten(AtMost(ScanLimit(m), Rows(getline(file), m.needle)), m.max_line_length)
  BY <1>4 DEF CppGrep, grep_file_text_builtin
<1>10. ScanLimit(m) = ScanLimit(p)
  BY <1>3, <1>4 DEF ScanLimit
<1> QED BY <1>3, <1>4, <1>7, <1>8, <1>9, <1>10

(* As long as the 64-bit limit on rg's output does not wrap around, it has *)
(* room for every row asked for if no line that matches is longer than the *)
(* limit on lines: the fallback finds what rg finds.                       *)
THEOREM FallbackIsRg == Spec => []FallbackAgrees
<1> QED BY ServedAlways, FallbackInv, PTL

-----------------------------------------------------------------------------
(* Characters.                                                             *)

LEMMA CharsUpToIs ==
    ASSUME NEW s, NEW i \in Nat
    PROVE  /\ CharsUpTo(s, i) \in Nat
           /\ CharsUpTo(s, 0) = 0
           /\ CharsUpTo(s, i + 1) = CharsUpTo(s, i) + IF s[i + 1] # "t" THEN 1 ELSE 0
<1> DEFINE D(k) == {j \in 1 .. k : s[j] # "t"}
<1>1. IsFiniteSet(D(i)) /\ Cardinality(D(i)) \in Nat
  <2>1. D(i) \subseteq 1 .. i /\ IsFiniteSet(1 .. i)
    BY FS_Interval
  <2> HIDE DEF D
  <2> QED BY <2>1, FS_Subset, FS_CardinalityType
<1>2. D(0) = {}
  OBVIOUS
<1>3. D(i + 1) = IF s[i + 1] # "t" THEN D(i) \cup {i + 1} ELSE D(i)
  <2>1. \A j : j \in 1 .. i + 1 <=> j \in 1 .. i \/ j = i + 1
    OBVIOUS
  <2> QED BY <2>1
<1>4. i + 1 \notin D(i)
  OBVIOUS
<1>5. CharsUpTo(s, i) = Cardinality(D(i)) /\ CharsUpTo(s, 0) = Cardinality(D(0))
      /\ CharsUpTo(s, i + 1) = Cardinality(D(i + 1))
  BY DEF CharsUpTo
<1> HIDE DEF D
<1>6. Cardinality(D(i) \cup {i + 1}) = Cardinality(D(i)) + 1
  BY <1>1, <1>4, FS_AddElement
<1>7. Cardinality({}) = 0
  BY FS_EmptySet
<1> QED BY <1>1, <1>2, <1>3, <1>5, <1>6, <1>7

LEMMA CharsUpToGrows ==
    ASSUME NEW s, NEW i \in Nat, NEW j \in 0 .. i
    PROVE  CharsUpTo(s, j) <= CharsUpTo(s, i)
<1> DEFINE D(k) == {l \in 1 .. k : s[l] # "t"}
<1>1. D(j) \subseteq D(i) /\ D(i) \subseteq 1 .. i /\ IsFiniteSet(1 .. i)
  BY FS_Interval
<1>2. CharsUpTo(s, i) = Cardinality(D(i)) /\ CharsUpTo(s, j) = Cardinality(D(j))
  BY DEF CharsUpTo
<1> HIDE DEF D
<1> QED BY <1>1, <1>2, FS_Subset

(* The bytes that belong to the first n characters.                        *)
LEMMA TakeCharsIs ==
    ASSUME NEW S, NEW s \in Seq(S), NEW n \in Nat
    PROVE  \E c \in 0 .. Len(s) : /\ take_chars(s, n) = AtMost(c, s)
                                  /\ \A i \in 1 .. Len(s) : i <= c <=> CharsUpTo(s, i) <= n
<1> DEFINE D == {i \in 1 .. Len(s) : CharsUpTo(s, i) <= n}
<1>1. Len(s) \in Nat /\ D \in SUBSET (1 .. Len(s))
  BY LenProperties
<1>2. ASSUME NEW i \in D, NEW j \in 1 .. i PROVE j \in D
  <2>1. i \in Nat /\ j \in 0 .. i /\ j \in Nat /\ j \in 1 .. Len(s)
    BY <1>1
  <2>2. CharsUpTo(s, j) <= CharsUpTo(s, i) /\ CharsUpTo(s, i) \in Nat /\ CharsUpTo(s, j) \in Nat
    BY <2>1, CharsUpToGrows, CharsUpToIs
  <2> QED BY <2>1, <2>2
<1>3. take_chars(s, n) = AtMost(Cardinality(D), s)
  BY DEF take_chars
<1>4. \A i \in 1 .. Len(s) : i \in D <=> CharsUpTo(s, i) <= n
  OBVIOUS
<1> HIDE DEF D
<1>5. PICK c \in 0 .. Len(s) : D = 1 .. c /\ Cardinality(D) = c
  BY <1>1, <1>2, InitialSegment
<1>6. \A i \in 1 .. Len(s) : i <= c <=> i \in D
  BY <1>1, <1>5
<1> QED BY <1>3, <1>4, <1>5, <1>6

-----------------------------------------------------------------------------
(* Lines of the Rust server.                                               *)

LEMMA WithoutReturnType ==
    ASSUME NEW S, NEW line \in Seq(S)
    PROVE  WithoutReturn(line) \in Seq(S)
<1>1. CASE line # <<>>
  <2>1. Len(line) \in Nat \ {0}
    BY <1>1, EmptySeq
  <2>2. Front(line) \in Seq(S)
    BY <2>1 DEF Front
  <2> QED BY <2>2 DEF WithoutReturn
<1>2. CASE line = <<>>
  BY <1>2 DEF WithoutReturn
<1> QED BY <1>1, <1>2

LEMMA LinesIs ==
    ASSUME NEW S, NEW f \in Seq(S)
    PROVE  /\ lines(f) \in Seq(Seq(S)) /\ Len(lines(f)) = Len(getline(f))
           /\ \A k \in 1 .. Len(getline(f)) :
                  lines(f)[k] \in {getline(f)[k], WithoutReturn(getline(f)[k])}
<1> DEFINE ends == LineEnds(f)
           cut == getline(f)
           ls == lines(f)
<1>1. cut \in Seq(Seq(S)) /\ Len(cut) \in Nat /\ cut \in [1 .. Len(cut) -> Seq(S)]
  BY GetlineIs, LenProperties
<1>2. ls = [k \in 1 .. Len(cut) |-> IF f[ends[k]] = "n" THEN WithoutReturn(cut[k]) ELSE cut[k]]
  BY DEF lines
<1> HIDE DEF ends, cut, ls
<1>3. \A k \in 1 .. Len(cut) : cut[k] \in Seq(S) /\ WithoutReturn(cut[k]) \in Seq(S)
  BY <1>1, WithoutReturnType
<1>4. ls \in [1 .. Len(cut) -> Seq(S)]
  BY <1>2, <1>3
<1>5. ls \in Seq(Seq(S)) /\ Len(ls) = Len(cut)
  BY <1>1, <1>4, FunctionIsSeq
<1>6. \A k \in 1 .. Len(cut) : ls[k] \in {cut[k], WithoutReturn(cut[k])}
  BY <1>2
<1> QED BY <1>5, <1>6 DEF ls, cut

IsUnlines(text, ls) ==
    /\ text[0] = <<>>
    /\ \A k \in 1 .. Len(ls) : text[k] = text[k - 1] \o Append(ls[k], "n")

LEMMA UnlinesSteps ==
    ASSUME NEW S, "n" \in S, NEW ls \in Seq(Seq(S))
    PROVE  \E text : IsUnlines(text, ls) /\ Unlines(ls) = text[Len(ls)]
<1> DEFINE N == Len(ls)
           A == Seq(S)
           step == [p \in (1 .. N) \X A |-> p[2] \o Append(ls[p[1]], "n")]
           Is(f) == f = [k \in 0 .. N |-> IF k = 0 THEN <<>> ELSE f[k - 1] \o Append(ls[k], "n")]
           text == CHOOSE f : Is(f)
<1>0. N \in Nat
  BY LenProperties
<1>1. Unlines(ls) = text[N]
  BY DEF Unlines
<1> HIDE DEF text
<1>2. Is(text)
  <2>1. ASSUME NEW p \in (1 .. N) \X A PROVE p[2] \o Append(ls[p[1]], "n") \in A
    <3>1. p[2] \in A /\ p[1] \in 1 .. N /\ ls[p[1]] \in Seq(S)
      OBVIOUS
    <3>2. Append(ls[p[1]], "n") \in Seq(S)
      BY <3>1, AppendProperties
    <3> QED BY <3>1, <3>2, ConcatProperties
  <2>2. step \in [(1 .. N) \X A -> A] /\ <<>> \in A
    BY <2>1
  <2>3. \A k \in 1 .. N, s \in A : step[<<k, s>>] = s \o Append(ls[k], "n")
    OBVIOUS
  <2> HIDE DEF step, A, Is, N
  <2>4. PICK f : Recurs(f, N, A, <<>>, step)
    BY <1>0, <2>2, Recursion
  <2>5. \A k \in 1 .. N : k - 1 \in 0 .. N /\ f[k - 1] \in A
    BY <1>0, <2>4 DEF Recurs
  <2>6. \A k \in 1 .. N : f[k] = f[k - 1] \o Append(ls[k], "n")
    BY <2>3, <2>4, <2>5 DEF Recurs
  <2>7. Is(f)
    <3>1. \A k \in 0 .. N : f[k] = IF k = 0 THEN <<>> ELSE f[k - 1] \o Append(ls[k], "n")
      <4>1. \A k \in 0 .. N : k # 0 => k \in 1 .. N
        BY <1>0
      <4> QED BY <2>4, <2>6, <4>1 DEF Recurs
    <3> QED BY <2>4, <3>1 DEF Is, Recurs
  <2> QED BY <2>7 DEF text
<1> HIDE DEF step, A, N
<1>3. /\ text[0] = <<>>
      /\ \A k \in 1 .. N : text[k] = text[k - 1] \o Append(ls[k], "n")
  <2>1. 0 \in 0 .. N /\ \A k \in 1 .. N : k \in 0 .. N /\ k # 0
    BY <1>0
  <2> QED BY <1>2, <2>1
<1> QED BY <1>1, <1>3 DEF IsUnlines, N

LEMMA UnlinesType ==
    ASSUME NEW S, "n" \in S, NEW ls \in Seq(Seq(S))
    PROVE  Unlines(ls) \in Seq(S)
<1>1. PICK text : IsUnlines(text, ls) /\ Unlines(ls) = text[Len(ls)]
  BY UnlinesSteps
<1>2. Len(ls) \in Nat /\ ls \in [1 .. Len(ls) -> Seq(S)]
  BY LenProperties
<1> DEFINE T == {k \in 0 .. Len(ls) : text[k] \in Seq(S)}
<1>3. 0 \in T
  <2>1. text[0] = <<>> /\ <<>> \in Seq(S)
    BY <1>1 DEF IsUnlines
  <2>2. text[0] \in Seq(S)
    BY <2>1
  <2>3. 0 \in 0 .. Len(ls)
    BY <1>2
  <2> QED BY <2>2, <2>3
<1>4. ASSUME NEW k \in 0 .. Len(ls) - 1, k \in T PROVE k + 1 \in T
  <2>1. k + 1 \in 1 .. Len(ls) /\ k + 1 \in 0 .. Len(ls) /\ (k + 1) - 1 = k
    BY <1>2
  <2>2. text[k + 1] = text[k] \o Append(ls[k + 1], "n") /\ ls[k + 1] \in Seq(S) /\ text[k] \in Seq(S)
    BY <1>1, <1>2, <1>4, <2>1 DEF IsUnlines
  <2>3. Append(ls[k + 1], "n") \in Seq(S)
    BY <2>2, AppendProperties
  <2>4. text[k + 1] \in Seq(S)
    BY <2>2, <2>3, ConcatProperties
  <2> QED BY <2>1, <2>4
<1>5. \A k \in 0 .. Len(ls) - 1 : k \in T => k + 1 \in T
  BY <1>4
<1> HIDE DEF T
<1>6. 0 .. Len(ls) \subseteq T
  BY <1>2, <1>3, <1>5, UpTo
<1> QED BY <1>1, <1>2, <1>6 DEF T

-----------------------------------------------------------------------------
(* The scan of the Rust server.                                            *)

LEMMA GrepFields ==
    ASSUME NEW q \in GrepRequest
    PROVE  /\ q.max_matches \in Nat /\ q.max_line_length \in Nat
           /\ q.cpp_rg \in {"rows", "missing", "fails"} /\ q.rust_rg \in {"rows", "missing", "fails"}
           /\ ScanLimit(q) \in Nat \ {0}
BY ScanLimitIs DEF Rg

(* The first rows of a scan have the least numbers.                        *)
LEMMA FoundIs ==
    ASSUME NEW S, NEW ls \in Seq(Seq(S)), NEW needle, NEW w \in Nat \ {0}
    PROVE  LET found  == AtMost(w, Rows(ls, needle))
               looked == IF Len(found) = w THEN Last(found).number ELSE Len(ls)
           IN  /\ found \in Seq(RowsOf(S)) /\ Len(found) \in Nat
               /\ \A k \in 1 .. Len(found) : /\ found[k].number \in 1 .. looked
                                             /\ found[k].number \in 1 .. Len(ls)
                                             /\ found[k].text = ls[found[k].number]
<1> DEFINE all == Rows(ls, needle)
           found == AtMost(w, all)
           looked == IF Len(found) = w THEN Last(found).number ELSE Len(ls)
<1>1. /\ all \in Seq(RowsOf(S)) /\ Len(all) \in Nat
      /\ \A k \in 1 .. Len(all) : all[k].number \in 1 .. Len(ls) /\ all[k].text = ls[all[k].number]
      /\ \A j, k \in 1 .. Len(all) : j < k => all[j].number < all[k].number
  BY RowsIs, LenProperties
<1> HIDE DEF all
<1>2. /\ found \in Seq(RowsOf(S)) /\ Len(found) \in Nat /\ Len(found) <= Len(all)
      /\ \A k \in 1 .. Len(found) : found[k] = all[k] /\ k \in 1 .. Len(all)
  <2>1. w \in Nat
    OBVIOUS
  <2>2. /\ found \in Seq(RowsOf(S))
        /\ Len(found) = (IF w <= Len(all) THEN w ELSE Len(all))
        /\ \A k \in 1 .. Len(found) : found[k] = all[k]
    BY <1>1, <2>1, AtMostIs
  <2> HIDE DEF found
  <2>3. Len(found) \in Nat
    BY <2>2, LenProperties
  <2> QED BY <1>1, <2>1, <2>2, <2>3
<1> HIDE DEF found
<1>3. ASSUME NEW k \in 1 .. Len(found) PROVE found[k].number \in 1 .. looked
  <2>1. found[k].number \in 1 .. Len(ls)
    BY <1>1, <1>2
  <2>2. CASE Len(found) = w
    <3>1. looked = found[w].number /\ w \in 1 .. Len(found)
      BY <2>2 DEF Last
    <3>2. w \in 1 .. Len(all) /\ k \in 1 .. Len(all) /\ found[w] = all[w] /\ found[k] = all[k]
      BY <1>2, <3>1
    <3>3. all[w].number \in 1 .. Len(ls) /\ all[k].number \in 1 .. Len(ls)
      BY <1>1, <3>2
    <3>4. k = w \/ k < w
      BY <2>2
    <3>5. k < w => all[k].number < all[w].number
      BY <1>1, <3>2
    <3> HIDE DEF looked
    <3> QED BY <3>1, <3>2, <3>3, <3>4, <3>5
  <2>3. CASE Len(found) # w
    BY <2>1, <2>3
  <2> QED BY <2>2, <2>3
<1>4. \A k \in 1 .. Len(found) : /\ found[k].number \in 1 .. Len(ls)
                                 /\ found[k].text = ls[found[k].number]
  BY <1>1, <1>2
<1> QED BY <1>2, <1>3, <1>4 DEF found, all

-----------------------------------------------------------------------------
(* Files of plain characters: the two servers see the same in them.        *)

PlainBytes == {"a", "n"}

LEMMA PlainIs ==
    ASSUME NEW f \in Texts, Plain(f)
    PROVE  f \in Seq(PlainBytes)
<1>1. Len(f) \in Nat /\ DOMAIN f = 1 .. Len(f) /\ f \in [1 .. Len(f) -> Bytes]
  BY TextsAssumption, LenProperties
<1>2. \A i \in 1 .. Len(f) : f[i] \in PlainBytes
  BY <1>1 DEF Plain, PlainBytes
<1>3. f \in [1 .. Len(f) -> PlainBytes]
  BY <1>1, <1>2
<1> QED BY <1>1, <1>3, FunctionIsSeq

LEMMA PlainElement ==
    ASSUME NEW s \in Seq(PlainBytes), NEW i \in 1 .. Len(s)
    PROVE  s[i] # "t" /\ s[i] # "l" /\ s[i] # "r" /\ ~Broken(s, i)
<1>1. s[i] \in PlainBytes
  BY ElementOfSeq
<1>2. s[i] # "t" /\ s[i] # "l" /\ s[i] # "r"
  BY <1>1 DEF PlainBytes
<1> QED BY <1>2 DEF Broken

LEMMA PlainText ==
    ASSUME NEW s \in Seq(PlainBytes)
    PROVE  Utf8(s) /\ from_utf8_lossy(s) = s /\ WithoutReturn(s) = s
<1>1. Len(s) \in Nat /\ s = [i \in 1 .. Len(s) |-> s[i]]
  BY LenProperties
<1>2. \A i \in 1 .. Len(s) : ~Broken(s, i)
  BY PlainElement
<1>3. from_utf8_lossy(s) = s
  BY <1>1, <1>2 DEF from_utf8_lossy
<1>4. WithoutReturn(s) = s
  <2>1. s # <<>> => Len(s) \in 1 .. Len(s)
    BY EmptySeq
  <2>2. s # <<>> => Last(s) # "r"
    BY <2>1, PlainElement DEF Last
  <2> QED BY <2>2 DEF WithoutReturn
<1> QED BY <1>2, <1>3, <1>4 DEF Utf8

LEMMA PlainTakeChars ==
    ASSUME NEW s \in Seq(PlainBytes), NEW n \in Nat
    PROVE  take_chars(s, n) = AtMost(n, s)
<1>0. Len(s) \in Nat
  BY LenProperties
<1>1. PICK c \in 0 .. Len(s) : /\ take_chars(s, n) = AtMost(c, s)
                               /\ \A i \in 1 .. Len(s) : i <= c <=> CharsUpTo(s, i) <= n
  BY TakeCharsIs
<1>2. ASSUME NEW i \in 1 .. Len(s) PROVE CharsUpTo(s, i) = i
  <2>1. \A j \in 1 .. i : j \in 1 .. Len(s)
    BY <1>0
  <2>2. {j \in 1 .. i : s[j] # "t"} = 1 .. i
    BY <2>1, PlainElement
  <2>3. Cardinality(1 .. i) = i
    BY FS_Interval
  <2> QED BY <2>2, <2>3 DEF CharsUpTo
<1>3. \A i \in 1 .. Len(s) : i <= c <=> i <= n
  BY <1>1, <1>2
<1>4. c = IF n <= Len(s) THEN n ELSE Len(s)
  <2>1. CASE n < Len(s)
    <3>1. n + 1 \in 1 .. Len(s) /\ (n # 0 => n \in 1 .. Len(s))
      BY <1>0, <2>1
    <3>2. ~(n + 1 <= c) /\ (n # 0 => n <= c)
      BY <1>3, <3>1
    <3> QED BY <1>0, <2>1, <3>2
  <2>2. CASE n >= Len(s)
    <3>1. Len(s) # 0 => Len(s) <= c
      BY <1>0, <1>3, <2>2
    <3> QED BY <1>0, <2>2, <3>1
  <2> QED BY <1>0, <2>1, <2>2
<1>5. AtMost(c, s) = AtMost(n, s)
  BY <1>0, <1>4, AtMostIs
<1> QED BY <1>1, <1>5

LEMMA PlainLines ==
    ASSUME NEW f \in Seq(PlainBytes)
    PROVE  /\ getline(f) \in Seq(Seq(PlainBytes)) /\ lines(f) = getline(f)
           /\ \A k \in DOMAIN getline(f) : Utf8(getline(f)[k])
<1>1. /\ getline(f) \in Seq(Seq(PlainBytes)) /\ lines(f) \in Seq(Seq(PlainBytes))
      /\ Len(lines(f)) = Len(getline(f))
      /\ \A k \in 1 .. Len(getline(f)) :
             lines(f)[k] \in {getline(f)[k], WithoutReturn(getline(f)[k])}
  BY GetlineIs, LinesIs
<1>2. \A k \in 1 .. Len(getline(f)) : getline(f)[k] \in Seq(PlainBytes)
  BY <1>1, ElementOfSeq
<1>3. \A k \in 1 .. Len(getline(f)) : lines(f)[k] = getline(f)[k]
  BY <1>1, <1>2, PlainText
<1>4. lines(f) = getline(f)
  BY <1>1, <1>3, SeqEqual
<1>5. DOMAIN getline(f) = 1 .. Len(getline(f))
  BY <1>1, LenProperties
<1> QED BY <1>1, <1>2, <1>4, <1>5, PlainText

LEMMA ReadAgrees ==
    ASSUME NEW f \in Seq(PlainBytes), NEW q \in ReadRequest
    PROVE  CppRead(f, q) = RustRead(f, q)
<1>1. q.max_bytes \in Nat
  BY LimitsAreNat DEF ReadRequest
<1>2. from_utf8_lossy(f) = f
  BY PlainText
<1> QED BY <1>1, <1>2, PlainTakeChars DEF CppRead, RustRead, truncate_text

LEMMA UnlinesShort ==
    Unlines(<<>>) = <<>> /\ Unlines(<< <<>> >>) = <<"n">>
<1> DEFINE S == {"n"}
<1>1. "n" \in S /\ <<>> \in Seq(Seq(S)) /\ << <<>> >> \in Seq(Seq(S))
  OBVIOUS
<1> HIDE DEF S
<1>2. Unlines(<<>>) = <<>>
  <2>1. PICK text : IsUnlines(text, <<>>) /\ Unlines(<<>>) = text[Len(<<>>)]
    BY <1>1, UnlinesSteps
  <2> QED BY <2>1 DEF IsUnlines
<1>3. Unlines(<< <<>> >>) = <<"n">>
  <2> DEFINE ls == << <<>> >>
  <2>0. ls \in Seq(Seq(S)) /\ Len(ls) = 1 /\ ls[1] = <<>>
    BY <1>1
  <2> HIDE DEF ls
  <2>1. PICK text : IsUnlines(text, ls) /\ Unlines(ls) = text[Len(ls)]
    BY <1>1, <2>0, UnlinesSteps
  <2>2. 1 \in 1 .. Len(ls) /\ 1 - 1 = 0
    BY <2>0
  <2>3. text[0] = <<>> /\ text[1] = text[0] \o Append(ls[1], "n")
    BY <2>1, <2>2 DEF IsUnlines
  <2>4. text[1] = <<"n">>
    BY <2>0, <2>3
  <2> QED BY <2>0, <2>1, <2>4 DEF ls
<1> QED BY <1>2, <1>3

LEMMA TailAgrees ==
    ASSUME NEW f \in Seq(PlainBytes), NEW q \in TailRequest,
           q.lines \in Nat \ {0}, q.max_bytes \in Nat \ {0}, NEW reply \in CppTails(f, q)
    PROVE  \/ reply = RustTail(f, q)
           \/ reply = <<"n">> /\ RustTail(f, q) = <<>>
<1> DEFINE ring == Ring(getline(f), q.lines)
           b == q.max_bytes
           content == IF ring \in {<<>>, << <<>> >>} THEN <<>> ELSE Unlines(ring)
<1>1. reply = AtMost(b, Unlines(ring))
  BY DEF CppTails, truncate_text
<1>2. RustTail(f, q) = take_chars(content, b)
  BY PlainLines DEF RustTail
<1>3. ring \in Seq(Seq(PlainBytes))
  BY PlainLines, RingType
<1>4. Unlines(ring) \in Seq(PlainBytes)
  BY <1>3, UnlinesType DEF PlainBytes
<1>5. b \in Nat \ {0}
  OBVIOUS
<1> HIDE DEF ring, b
<1>6. <<>> \in Seq(PlainBytes) /\ AtMost(b, <<>>) = <<>> /\ take_chars(<<>>, b) = <<>>
  <2>1. <<>> \in Seq(PlainBytes) /\ Len(<<>>) = 0
    OBVIOUS
  <2>2. AtMost(b, <<>>) = <<>>
    BY <1>5, <2>1, AtMostIs
  <2> QED BY <1>5, <2>1, <2>2, PlainTakeChars
<1>7. CASE ring = <<>>
  BY <1>1, <1>2, <1>6, <1>7, UnlinesShort
<1>8. CASE ring = << <<>> >>
  <2>1. <<"n">> \in Seq(PlainBytes) /\ Len(<<"n">>) = 1
    BY DEF PlainBytes
  <2> DEFINE e == <<"n">>
  <2>3. e \in Seq(PlainBytes) /\ Len(e) <= b /\ b \in Nat
    BY <1>5, <2>1
  <2> HIDE DEF e
  <2>4. AtMost(b, e) = e
    BY <2>3, AtMostIs
  <2>2. AtMost(b, <<"n">>) = <<"n">>
    BY <2>4 DEF e
  <2> QED BY <1>1, <1>2, <1>6, <1>8, <2>2, UnlinesShort
<1>9. CASE ring \notin {<<>>, << <<>> >>}
  BY <1>1, <1>2, <1>4, <1>5, <1>9, PlainTakeChars
<1> QED BY <1>7, <1>8, <1>9

(* Without a fault, and without rg's output cut, both grep_file replies    *)
(* are the first matches, each cut at max_line_length.                     *)
PlainReply(f, q) ==
    Shorten(AtMost(ScanLimit(q), Rows(getline(f), q.needle)), q.max_line_length)

LEMMA RustGrepPlain ==
    ASSUME NEW f \in Texts, f \in Seq(PlainBytes), NEW q \in GrepRequest,
           q.max_matches \in Nat \ {0}, q.rust_rg # "fails"
    PROVE  RustGrep(f, q) = PlainReply(f, q)
<1> DEFINE n == q.max_line_length
           ls == getline(f)
<1>1. /\ n \in Nat /\ q.rust_rg \in {"rows", "missing", "fails"}
      /\ ScanLimit(q) \in Nat \ {0} /\ q.max_matches \in Nat /\ ScanLimit(q) = q.max_matches
  BY GrepFields, ScanLimitIs
<1>2. /\ ls \in Seq(Seq(PlainBytes)) /\ lines(f) = ls
      /\ DOMAIN ls = 1 .. Len(ls) /\ Len(ls) \in Nat
  BY PlainLines, LenProperties
<1>3. CASE q.rust_rg = "missing"
  <2> DEFINE w      == ScanLimit(q)
             found  == AtMost(w, Rows(ls, q.needle))
             looked == IF Len(found) = w THEN Last(found).number ELSE Len(ls)
             splits == {k \in DOMAIN found : Len(found[k].text) > n /\ found[k].text[n + 1] = "t"}
             panics == {found[k].number : k \in splits}
             broken == {k \in 1 .. looked : ~Utf8(ls[k])}
  <2>1. grep_file_builtin(f, q) = CASE panics \cup broken = {} -> Shorten(found, n)
                                    [] panics \cup broken # {} ->
                                         IF Min(panics \cup broken) \in broken THEN Failed ELSE NoAnswer
    BY <1>2 DEF grep_file_builtin
  <2>2. PlainReply(f, q) = Shorten(found, n)
    BY DEF PlainReply
  <2>3. RustGrep(f, q) = grep_file_builtin(f, q)
    BY <1>3 DEF RustGrep
  <2>4. /\ found \in Seq(RowsOf(PlainBytes)) /\ Len(found) \in Nat
        /\ \A k \in 1 .. Len(found) : found[k].number \in 1 .. Len(ls)
    <3>1. w \in Nat \ {0}
      BY <1>1
    <3> HIDE DEF ls, w
    <3> QED BY <1>2, <3>1, FoundIs
  <2> HIDE DEF found, n, w
  <2>5. splits = {}
    <3>1. ASSUME NEW k \in DOMAIN found, Len(found[k].text) > n PROVE found[k].text[n + 1] # "t"
      <4>1. k \in 1 .. Len(found)
        BY <2>4, LenProperties
      <4>2. found[k] \in RowsOf(PlainBytes)
        BY <2>4, <4>1, ElementOfSeq
      <4> DEFINE s == found[k].text
      <4>3. s \in Seq(PlainBytes)
        BY <4>2 DEF RowsOf
      <4> HIDE DEF s
      <4>4. n + 1 \in 1 .. Len(s)
        <5>1. Len(s) \in Nat /\ Len(s) > n
          BY <3>1, <4>3, LenProperties DEF s
        <5> QED BY <1>1, <5>1
      <4>5. s[n + 1] # "t"
        BY <4>3, <4>4, PlainElement
      <4> QED BY <4>5 DEF s
    <3> QED BY <3>1
  <2>6. looked \in 0 .. Len(ls)
    <3>1. Len(found) = w => Len(found) \in 1 .. Len(found)
      BY <1>1, <2>4 DEF w
    <3>2. Len(found) = w => Last(found).number \in 1 .. Len(ls)
      BY <2>4, <3>1 DEF Last
    <3> HIDE DEF ls
    <3> QED BY <1>2, <3>2
  <2>7. broken = {}
    <3>1. \A k \in 1 .. Len(ls) : Utf8(ls[k])
      BY <1>2, PlainLines
    <3> HIDE DEF looked, ls
    <3>2. \A k \in 1 .. looked : k \in 1 .. Len(ls)
      BY <1>2, <2>6
    <3> QED BY <3>1, <3>2
  <2>8. panics \cup broken = {}
    <3> HIDE DEF splits, broken
    <3> QED BY <2>5, <2>7
  <2> HIDE DEF panics, broken
  <2> QED BY <2>1, <2>2, <2>3, <2>8
<1>4. CASE q.rust_rg = "rows"
  <2> DEFINE all  == Rows(ls, q.needle)
             rows == RgRows(f, q)
             short(row) == take_chars(from_utf8_lossy(WithoutReturn(row.text)), n)
  <2>1. all \in Seq(RowsOf(PlainBytes))
    <3> HIDE DEF ls
    <3> QED BY <1>2, RowsIs
  <2>4. PlainReply(f, q) = Shorten(rows, n)
    BY <1>1 DEF PlainReply, RgRows
  <2>5. RustGrep(f, q) = [k \in DOMAIN rows |-> [rows[k] EXCEPT !.text = short(rows[k])]]
    BY <1>4 DEF RustGrep
  <2>6. rows \in Seq(RowsOf(PlainBytes))
    BY <1>1, <2>1, AtMostIs DEF RgRows
  <2> HIDE DEF rows, n
  <2>7. ASSUME NEW k \in DOMAIN rows PROVE short(rows[k]) = AtMost(n, rows[k].text)
    <3>1. k \in 1 .. Len(rows)
      BY <2>6, LenProperties
    <3>2. rows[k] \in RowsOf(PlainBytes)
      BY <2>6, <3>1, ElementOfSeq
    <3> DEFINE s == rows[k].text
    <3>3. s \in Seq(PlainBytes)
      BY <3>2 DEF RowsOf
    <3> HIDE DEF s
    <3>4. take_chars(from_utf8_lossy(WithoutReturn(s)), n) = AtMost(n, s)
      BY <1>1, <3>3, PlainText, PlainTakeChars
    <3> QED BY <3>4 DEF s
  <2> HIDE DEF short
  <2>8. Shorten(rows, n) = [k \in DOMAIN rows |-> [rows[k] EXCEPT !.text = AtMost(n, rows[k].text)]]
    BY DEF Shorten
  <2> QED BY <2>4, <2>5, <2>7, <2>8
<1> QED BY <1>1, <1>3, <1>4

LEMMA CppGrepPlain ==
    ASSUME NEW f \in Texts, NEW q \in GrepRequest,
           q.max_matches \in Nat \ {0}, q.max_line_length \in Nat \ {0},
           q.cpp_rg # "fails", q.cpp_rg = "rows" => ~Wraps(q)
    PROVE  \/ CppGrep(f, q) = PlainReply(f, q)
           \/ /\ q.cpp_rg = "rows"
              /\ \E k \in DOMAIN getline(f) : Len(getline(f)[k]) > q.max_line_length
<1> DEFINE n == q.max_line_length
           ls == getline(f)
<1>1. n \in Nat /\ q.cpp_rg \in {"rows", "missing", "fails"} /\ q.max_matches \in Nat
  BY GrepFields
<1>2. ls \in Seq(Seq(Bytes)) /\ DOMAIN ls = 1 .. Len(ls) /\ Len(ls) \in Nat
  BY RowsOfFile, LenProperties
<1>3. CASE q.cpp_rg = "missing"
  BY <1>3 DEF CppGrep, grep_file_text_builtin, PlainReply
<1>4. CASE q.cpp_rg = "rows" /\ \A k \in DOMAIN ls : Len(ls[k]) <= n
  <2> DEFINE all  == Rows(ls, q.needle)
             rows == RgRows(f, q)
  <2>1. /\ all \in Seq(RowsOf(Bytes)) /\ Len(all) \in Nat
        /\ \A k \in 1 .. Len(all) : all[k].number \in 1 .. Len(ls) /\ all[k].text = ls[all[k].number]
    <3> HIDE DEF ls
    <3>1. all \in Seq(RowsOf(Bytes))
      BY <1>2, RowsIs
    <3>2. \A k \in 1 .. Len(all) : all[k].number \in 1 .. Len(ls) /\ all[k].text = ls[all[k].number]
      BY <1>2, RowsIs
    <3> HIDE DEF all
    <3> QED BY <3>1, <3>2, LenProperties
  <2>2. \A k \in 1 .. Len(all) : Len(all[k].text) <= n
    <3> HIDE DEF ls, all, n
    <3> QED BY <1>2, <1>4, <2>1
  <2>3. /\ Captured(rows, grep_output_limit(q.max_matches, n)) = rows
        /\ rows = AtMost(ScanLimit(q), all)
    BY <1>1, <1>4, <2>2, RgUncut
  <2>4. CppGrep(f, q) = Shorten(rows, n)
    BY <1>4, <2>3 DEF CppGrep
  <2> QED BY <2>3, <2>4 DEF PlainReply
<1>5. CASE q.cpp_rg = "rows" /\ ~ \A k \in DOMAIN ls : Len(ls[k]) <= n
  <2>1. PICK k \in DOMAIN ls : ~(Len(ls[k]) <= n)
    BY <1>5
  <2>2. ls[k] \in Seq(Bytes)
    BY <1>2, <2>1, ElementOfSeq
  <2>3. Len(ls[k]) \in Nat
    BY <2>2, LenProperties
  <2> HIDE DEF ls, n
  <2>4. Len(ls[k]) > n
    BY <1>1, <2>1, <2>3
  <2> QED BY <1>5, <2>4 DEF ls, n
<1> QED BY <1>1, <1>3, <1>4, <1>5

LEMMA GrepAgrees ==
    ASSUME NEW f \in Texts, f \in Seq(PlainBytes), NEW q \in GrepRequest,
           q.max_matches \in Nat \ {0}, q.max_line_length \in Nat \ {0}
    PROVE  \/ CppGrep(f, q) = RustGrep(f, q)
           \/ (q.cpp_rg = "fails") # (q.rust_rg = "fails")
           \/ q.cpp_rg = "rows" /\ Wraps(q)
           \/ /\ q.cpp_rg = "rows"
              /\ \E k \in DOMAIN getline(f) : Len(getline(f)[k]) > q.max_line_length
<1>1. CASE q.cpp_rg = "fails" /\ q.rust_rg = "fails"
  BY <1>1 DEF CppGrep, RustGrep
<1>2. CASE q.cpp_rg # "fails" /\ q.rust_rg # "fails" /\ (q.cpp_rg = "rows" => ~Wraps(q))
  BY <1>2, RustGrepPlain, CppGrepPlain
<1> QED BY <1>1, <1>2

-----------------------------------------------------------------------------
(* Paths: the two servers go the same way below the root.                  *)

Steps == Names \cup {"dot", "up"}

IsWalk(at, path) ==
    at[0] = <<>> /\ \A k \in 1 .. Len(path) : at[k] = Walk(at[k - 1], path[k])

LEMMA UpToButLast ==
    ASSUME NEW S, NEW s \in Seq(S), Len(s) \in Nat \ {0}
    PROVE  /\ SubSeq(s, 1, Len(s) - 1) \in Seq(S)
           /\ Len(SubSeq(s, 1, Len(s) - 1)) = Len(s) - 1
           /\ \A i \in 1 .. Len(s) - 1 : SubSeq(s, 1, Len(s) - 1)[i] = s[i]
<1> DEFINE n == Len(s) - 1
           t == SubSeq(s, 1, n)
<1>1. n \in Nat /\ \A i \in 1 .. n : i \in 1 .. Len(s)
  OBVIOUS
<1>2. \A i \in 1 .. n : s[i] \in S
  BY <1>1, ElementOfSeq
<1> HIDE DEF n
<1>3. t \in Seq(S) /\ Len(t) = n /\ \A i \in 1 .. n : t[i] = s[i]
  BY <1>1, <1>2
<1> QED BY <1>3 DEF n

LEMMA ConcatParts ==
    ASSUME NEW S, NEW s \in Seq(S), NEW t \in Seq(S)
    PROVE  /\ s \o t \in Seq(S) /\ Len(s \o t) = Len(s) + Len(t)
           /\ \A i \in 1 .. Len(s) : (s \o t)[i] = s[i]
           /\ \A i \in Len(s) + 1 .. Len(s) + Len(t) : (s \o t)[i] = t[i - Len(s)]
OBVIOUS

LEMMA AboveIs ==
    ASSUME NEW at \in Seq(Names)
    PROVE  /\ Above(at) \in Seq(Names)
           /\ at # <<>> => Above(at) = SubSeq(at, 1, Len(at) - 1) /\ Len(Above(at)) = Len(at) - 1
<1>1. CASE at = <<>>
  BY <1>1 DEF Above
<1>2. CASE at # <<>>
  <2>1. Len(at) \in Nat \ {0}
    BY <1>2, EmptySeq, LenProperties
  <2>2. Above(at) = SubSeq(at, 1, Len(at) - 1)
    BY <1>2 DEF Above, Front
  <2>3. SubSeq(at, 1, Len(at) - 1) \in Seq(Names) /\ Len(SubSeq(at, 1, Len(at) - 1)) = Len(at) - 1
    BY <2>1, UpToButLast
  <2> QED BY <2>2, <2>3
<1> QED BY <1>1, <1>2

LEMMA WalkType ==
    ASSUME NEW at \in Seq(Names), NEW step \in Steps
    PROVE  Walk(at, step) \in Seq(Names)
<1>1. step \notin {"dot", "up"} => step \in Names
  BY DEF Steps
<1>2. Above(at) \in Seq(Names)
  BY AboveIs
<1> QED BY <1>1, <1>2, AppendProperties DEF Walk

LEMMA WalkSteps ==
    ASSUME NEW path \in Seq(Steps)
    PROVE  \E at : IsWalk(at, path) /\ weakly_canonical(path) = at[Len(path)]
<1> DEFINE N == Len(path)
           A == Seq(Names)
           step == [p \in (1 .. N) \X A |-> Walk(p[2], path[p[1]])]
           Is(f) == f = [k \in 0 .. N |-> IF k = 0 THEN <<>> ELSE Walk(f[k - 1], path[k])]
           at == CHOOSE f : Is(f)
<1>0. N \in Nat
  OBVIOUS
<1>1. weakly_canonical(path) = at[N]
  BY DEF weakly_canonical
<1> HIDE DEF at
<1>2. Is(at)
  <2>1. ASSUME NEW p \in (1 .. N) \X A PROVE Walk(p[2], path[p[1]]) \in A
    <3>1. p[2] \in A /\ p[1] \in 1 .. N /\ path[p[1]] \in Steps
      OBVIOUS
    <3> QED BY <3>1, WalkType
  <2>2. step \in [(1 .. N) \X A -> A] /\ <<>> \in A
    BY <2>1
  <2>3. \A k \in 1 .. N, s \in A : step[<<k, s>>] = Walk(s, path[k])
    OBVIOUS
  <2> HIDE DEF step, A, Is, N
  <2>4. PICK f : Recurs(f, N, A, <<>>, step)
    BY <1>0, <2>2, Recursion
  <2>5. \A k \in 1 .. N : k - 1 \in 0 .. N /\ f[k - 1] \in A
    BY <1>0, <2>4 DEF Recurs
  <2>6. \A k \in 1 .. N : f[k] = Walk(f[k - 1], path[k])
    BY <2>3, <2>4, <2>5 DEF Recurs
  <2>7. Is(f)
    <3>1. \A k \in 0 .. N : f[k] = IF k = 0 THEN <<>> ELSE Walk(f[k - 1], path[k])
      <4>1. \A k \in 0 .. N : k # 0 => k \in 1 .. N
        BY <1>0
      <4> QED BY <2>4, <2>6, <4>1 DEF Recurs
    <3> QED BY <2>4, <3>1 DEF Is, Recurs
  <2> QED BY <2>7 DEF at
<1> HIDE DEF step, A, N
<1>3. at[0] = <<>> /\ \A k \in 1 .. N : at[k] = Walk(at[k - 1], path[k])
  <2>1. 0 \in 0 .. N /\ \A k \in 1 .. N : k \in 0 .. N /\ k # 0
    BY <1>0
  <2> QED BY <1>2, <2>1
<1> QED BY <1>1, <1>3 DEF IsWalk, N

(* Of the first k steps of a path, how many are of these kinds.            *)
Count(path, kinds, k) == Cardinality({j \in 1 .. k : path[j] \in kinds})

LEMMA CountIs ==
    ASSUME NEW path, NEW kinds, NEW k \in Nat
    PROVE  /\ Count(path, kinds, k) \in Nat
           /\ Count(path, kinds, 0) = 0
           /\ Count(path, kinds, k + 1) = Count(path, kinds, k) + IF path[k + 1] \in kinds THEN 1 ELSE 0
<1> DEFINE D(i) == {j \in 1 .. i : path[j] \in kinds}
<1>1. IsFiniteSet(D(k)) /\ Cardinality(D(k)) \in Nat
  <2>1. D(k) \subseteq 1 .. k /\ IsFiniteSet(1 .. k)
    BY FS_Interval
  <2> HIDE DEF D
  <2> QED BY <2>1, FS_Subset, FS_CardinalityType
<1>2. D(0) = {}
  OBVIOUS
<1>3. D(k + 1) = IF path[k + 1] \in kinds THEN D(k) \cup {k + 1} ELSE D(k)
  <2>1. \A j : j \in 1 .. k + 1 <=> j \in 1 .. k \/ j = k + 1
    OBVIOUS
  <2> QED BY <2>1
<1>4. k + 1 \notin D(k)
  OBVIOUS
<1>5. /\ Count(path, kinds, k) = Cardinality(D(k)) /\ Count(path, kinds, 0) = Cardinality(D(0))
      /\ Count(path, kinds, k + 1) = Cardinality(D(k + 1))
  BY DEF Count
<1> HIDE DEF D
<1>6. Cardinality(D(k) \cup {k + 1}) = Cardinality(D(k)) + 1
  BY <1>1, <1>4, FS_AddElement
<1>7. Cardinality({}) = 0
  BY FS_EmptySet
<1> QED BY <1>1, <1>2, <1>3, <1>5, <1>6, <1>7

(* Going on from below the root is going on, below the root.               *)
LEMMA WalkBelow ==
    ASSUME NEW top \in Seq(Names), NEW at \in Seq(Names), NEW step \in Steps,
           step = "up" => at # <<>>
    PROVE  Walk(top \o at, step) = top \o Walk(at, step)
<1>1. CASE step = "dot"
  BY <1>1 DEF Walk
<1>2. CASE step = "up"
  <2>0. Len(top) \in Nat /\ Len(at) \in Nat \ {0}
    BY <1>2, EmptySeq, LenProperties
  <2>1. top \o at \in Seq(Names) /\ Len(top \o at) = Len(top) + Len(at) /\ top \o at # <<>>
    BY <2>0, ConcatProperties, EmptySeq
  <2> DEFINE s == top \o at
             m == Len(top)
             n == Len(at)
             x == SubSeq(s, 1, Len(s) - 1)
             y == SubSeq(at, 1, Len(at) - 1)
  <2>2. Walk(s, step) = x
    BY <1>2, <2>1, AboveIs DEF Walk
  <2>3. Walk(at, step) = y
    BY <1>2, AboveIs DEF Walk
  <2>4. y \in Seq(Names) /\ Len(y) = n - 1 /\ \A i \in 1 .. n - 1 : y[i] = at[i]
    BY <2>0, UpToButLast
  <2>5. /\ x \in Seq(Names) /\ Len(x) = m + n - 1
        /\ \A i \in 1 .. m + n - 1 : x[i] = s[i]
    <3>1. s \in Seq(Names) /\ Len(s) = m + n /\ Len(s) \in Nat \ {0}
      BY <2>0, <2>1
    <3> HIDE DEF s
    <3>2. x \in Seq(Names) /\ Len(x) = Len(s) - 1 /\ \A i \in 1 .. Len(s) - 1 : x[i] = s[i]
      BY <3>1, UpToButLast
    <3> QED BY <3>1, <3>2
  <2>6. /\ \A i \in 1 .. m : s[i] = top[i]
        /\ \A i \in m + 1 .. m + n : s[i] = at[i - m]
    BY ConcatParts
  <2> HIDE DEF x, y, s
  <2>7. /\ top \o y \in Seq(Names) /\ Len(top \o y) = m + Len(y)
        /\ \A i \in 1 .. m : (top \o y)[i] = top[i]
        /\ \A i \in m + 1 .. m + Len(y) : (top \o y)[i] = y[i - m]
    BY <2>4, ConcatParts
  <2> HIDE DEF m, n
  <2>a. m \in Nat /\ n \in Nat \ {0}
    BY <2>0 DEF m, n
  <2>8. \A i \in 1 .. m + n - 1 : x[i] = (top \o y)[i]
    <3>1. ASSUME NEW i \in 1 .. m PROVE x[i] = (top \o y)[i]
      <4>1. i \in 1 .. m + n - 1
        BY <2>a
      <4> QED BY <2>5, <2>6, <2>7, <4>1
    <3>2. ASSUME NEW i \in m + 1 .. m + n - 1 PROVE x[i] = (top \o y)[i]
      <4>1. i - m \in 1 .. n - 1 /\ i \in 1 .. m + n - 1 /\ i \in m + 1 .. m + n
        BY <2>a
      <4>2. i \in m + 1 .. m + Len(y)
        BY <2>a, <2>4
      <4> QED BY <2>4, <2>5, <2>6, <2>7, <4>1, <4>2
    <3>3. \A i \in 1 .. m + n - 1 : i \in 1 .. m \/ i \in m + 1 .. m + n - 1
      BY <2>a
    <3> QED BY <3>1, <3>2, <3>3
  <2>9. Len(top \o y) = m + n - 1
    BY <2>a, <2>4, <2>7
  <2>10. x = top \o y
    BY <2>5, <2>7, <2>8, <2>9, SeqEqual
  <2> QED BY <2>2, <2>3, <2>10 DEF x, y, s
<1>3. CASE step \notin {"dot", "up"}
  <2>1. step \in Names
    BY <1>3 DEF Steps
  <2>2. top \o at \in Seq(Names) /\ <<step>> \in Seq(Names)
    BY <2>1, ConcatProperties
  <2>3. Append(top \o at, step) = (top \o at) \o <<step>> /\ Append(at, step) = at \o <<step>>
    BY <2>1, <2>2, AppendIsConcat
  <2>4. (top \o at) \o <<step>> = top \o (at \o <<step>>)
    BY <2>2, ConcatAssociative
  <2> QED BY <1>3, <2>3, <2>4 DEF Walk
<1> QED BY <1>1, <1>2, <1>3

(* A path that keeps below the root leads to the same place there as it    *)
(* leads to from "/": every ".." takes away a name of the path.            *)
LEMMA RootThenPath ==
    ASSUME NEW top \in Seq(Names), NEW path \in Seq(Steps), ~LeavesRoot(path)
    PROVE  /\ weakly_canonical(path) \in Seq(Names)
           /\ weakly_canonical(top \o path) = top \o weakly_canonical(path)
<1> DEFINE m == Len(top)
           n == Len(path)
           whole == top \o path
<1>1. top \in Seq(Steps) /\ m \in Nat /\ n \in Nat
  BY SeqMonotonic, LenProperties DEF Steps
<1>2. /\ whole \in Seq(Steps) /\ Len(whole) = m + n
      /\ \A i \in 1 .. m : whole[i] = top[i]
      /\ \A i \in m + 1 .. m + n : whole[i] = path[i - m]
  BY <1>1, ConcatParts
<1> HIDE DEF whole
<1>3. PICK at : IsWalk(at, path) /\ weakly_canonical(path) = at[n]
  BY WalkSteps
<1>4. PICK from : IsWalk(from, whole) /\ weakly_canonical(whole) = from[m + n]
  BY <1>2, WalkSteps
<1>5. \A i \in 1 .. m : top[i] \in Names
  BY ElementOfSeq
<1>6. \A k \in 1 .. n : path[k] \in Steps
  BY ElementOfSeq
<1> HIDE DEF m, n
<1>7. from[m] = top
  <2> DEFINE T == {j \in 0 .. m : from[j] = SubSeq(top, 1, j)}
  <2>1. 0 \in T
    <3>1. SubSeq(top, 1, 0) = <<>>
      BY SubSeqEmpty
    <3>2. from[0] = <<>>
      BY <1>4 DEF IsWalk
    <3>3. 0 \in 0 .. m
      BY <1>1
    <3>4. from[0] = SubSeq(top, 1, 0)
      BY <3>1, <3>2
    <3> QED BY <3>3, <3>4
  <2>2. ASSUME NEW j \in 0 .. m - 1, j \in T PROVE j + 1 \in T
    <3>1. j + 1 \in 1 .. m /\ j + 1 \in 1 .. m + n /\ (j + 1) - 1 = j /\ j + 1 \in 0 .. m
      BY <1>1
    <3>2. from[j + 1] = Walk(SubSeq(top, 1, j), top[j + 1])
      BY <1>2, <1>4, <2>2, <3>1 DEF IsWalk
    <3>3. top[j + 1] \in Names /\ top[j + 1] \notin {"dot", "up"}
      BY <1>5, <3>1, NamesAssumption
    <3>4. from[j + 1] = Append(SubSeq(top, 1, j), top[j + 1])
      BY <3>2, <3>3 DEF Walk
    <3>5. Append(SubSeq(top, 1, j), top[j + 1]) = SubSeq(top, 1, j + 1)
      <4>1. \A i \in 1 .. j + 1 : i \in 1 .. m
        BY <1>1
      <4> DEFINE s == SubSeq(top, 1, j)
                 t == SubSeq(top, 1, j + 1)
      <4>2. s \in Seq(Names) /\ Len(s) = j /\ \A i \in 1 .. j : s[i] = top[i]
        BY <1>5, <4>1
      <4>3. t \in Seq(Names) /\ Len(t) = j + 1 /\ \A i \in 1 .. j + 1 : t[i] = top[i]
        BY <1>5, <4>1
      <4> HIDE DEF s, t
      <4>4. /\ Append(s, top[j + 1]) \in Seq(Names) /\ Len(Append(s, top[j + 1])) = j + 1
            /\ \A i \in 1 .. j + 1 : Append(s, top[j + 1])[i] = top[i]
        <5>1. \A i \in 1 .. j + 1 : i \in 1 .. j \/ i = j + 1
          OBVIOUS
        <5> QED BY <3>3, <4>2, <5>1, AppendProperties
      <4>5. Append(s, top[j + 1]) = t
        BY <4>3, <4>4, SeqEqual
      <4> QED BY <4>5 DEF s, t
    <3> QED BY <3>1, <3>4, <3>5
  <2>3. \A j \in 0 .. m - 1 : j \in T => j + 1 \in T
    BY <2>2
  <2> HIDE DEF T
  <2>4. m \in T
    <3>1. 0 .. m \subseteq T
      BY <1>1, <2>1, <2>3, UpTo
    <3> QED BY <1>1, <3>1
  <2>5. SubSeq(top, 1, m) = top
    BY SubSeqFull DEF m
  <2> QED BY <2>4, <2>5 DEF T
<1> DEFINE ups == {"up"}
           marks == {"up", "dot"}
           back(k) == Count(path, ups, k)
           skip(k) == Count(path, marks, k)
           T == {k \in 0 .. n : /\ at[k] \in Seq(Names) /\ from[m + k] = top \o at[k]
                                /\ Len(at[k]) = k - skip(k) - back(k)}
<1>8. 0 \in T
  <2>1. at[0] = <<>> /\ <<>> \in Seq(Names) /\ top \o <<>> = top /\ Len(<<>>) = 0
    BY <1>3, ConcatEmptySeq DEF IsWalk
  <2> HIDE DEF ups, marks
  <2>2. back(0) = 0 /\ skip(0) = 0
    BY CountIs
  <2> HIDE DEF back, skip
  <2>3. /\ at[0] \in Seq(Names) /\ from[m + 0] = top \o at[0]
        /\ Len(at[0]) = 0 - skip(0) - back(0)
    BY <1>1, <1>7, <2>1, <2>2
  <2>4. 0 \in 0 .. n
    BY <1>1
  <2> QED BY <2>3, <2>4
<1>9. ASSUME NEW k \in 0 .. n - 1, k \in T PROVE k + 1 \in T
  <2>1. k + 1 \in 1 .. n /\ k + 1 \in 0 .. n /\ (k + 1) - 1 = k /\ k \in Nat
    BY <1>1
  <2>2. /\ back(k) \in Nat /\ skip(k) \in Nat
        /\ back(k + 1) = back(k) + IF path[k + 1] \in ups THEN 1 ELSE 0
        /\ skip(k + 1) = skip(k) + IF path[k + 1] \in marks THEN 1 ELSE 0
    <3> HIDE DEF ups, marks
    <3>1. /\ back(k) \in Nat
          /\ back(k + 1) = back(k) + IF path[k + 1] \in ups THEN 1 ELSE 0
      BY <2>1, CountIs
    <3>2. /\ skip(k) \in Nat
          /\ skip(k + 1) = skip(k) + IF path[k + 1] \in marks THEN 1 ELSE 0
      BY <2>1, CountIs
    <3> QED BY <3>1, <3>2
  <2>3. path[k + 1] \in Steps
    BY <1>6, <2>1
  <2>4. at[k + 1] = Walk(at[k], path[k + 1])
    BY <1>3, <2>1 DEF IsWalk, n
  <2>5. from[m + (k + 1)] = Walk(from[m + k], path[k + 1])
    <3>1. /\ m + (k + 1) \in 1 .. m + n /\ m + (k + 1) \in m + 1 .. m + n
          /\ (m + (k + 1)) - 1 = m + k /\ (m + (k + 1)) - m = k + 1
      BY <1>1, <2>1
    <3>2. whole[m + (k + 1)] = path[k + 1]
      BY <1>2, <3>1
    <3>3. from[m + (k + 1)] = Walk(from[m + (k + 1) - 1], whole[m + (k + 1)])
      BY <1>2, <1>4, <3>1 DEF IsWalk
    <3> QED BY <3>1, <3>2, <3>3
  <2>6. at[k] \in Seq(Names) /\ from[m + k] = top \o at[k] /\ Len(at[k]) = k - skip(k) - back(k)
    BY <1>9
  <2>7. at[k + 1] \in Seq(Names)
    BY <2>3, <2>4, <2>6, WalkType
  <2>8. path[k + 1] = "up" => Len(at[k]) >= 1 /\ at[k] # <<>>
    <3>1. k + 1 \in DOMAIN path
      BY <2>1, LenProperties DEF n
    <3>2. ~(back(k + 1) > (k + 1) - skip(k + 1))
      BY <3>1 DEF LeavesRoot, Count
    <3> HIDE DEF back, skip
    <3>3. path[k + 1] = "up" => Len(at[k]) >= 1
      BY <2>1, <2>2, <2>6, <3>2
    <3>4. Len(<<>>) = 0
      OBVIOUS
    <3> QED BY <3>3, <3>4
  <2>9. from[m + (k + 1)] = top \o at[k + 1]
    BY <2>3, <2>4, <2>5, <2>6, <2>8, WalkBelow
  <2>10. /\ path[k + 1] = "dot" => Len(at[k + 1]) = Len(at[k])
         /\ path[k + 1] = "up" => Len(at[k + 1]) = Len(at[k]) - 1
         /\ path[k + 1] \notin {"dot", "up"} => Len(at[k + 1]) = Len(at[k]) + 1
    <3>1. path[k + 1] = "dot" => at[k + 1] = at[k]
      BY <2>4 DEF Walk
    <3>2. path[k + 1] = "up" => Len(at[k + 1]) = Len(at[k]) - 1
      BY <2>4, <2>6, <2>8, AboveIs DEF Walk
    <3>3. path[k + 1] \notin {"dot", "up"} => Len(at[k + 1]) = Len(at[k]) + 1
      BY <2>3, <2>4, <2>6, AppendProperties DEF Walk, Steps
    <3> QED BY <3>1, <3>2, <3>3
  <2> HIDE DEF back, skip
  <2>11. Len(at[k + 1]) = (k + 1) - skip(k + 1) - back(k + 1)
    BY <2>1, <2>2, <2>6, <2>10
  <2> QED BY <2>1, <2>7, <2>9, <2>11
<1>10. \A k \in 0 .. n - 1 : k \in T => k + 1 \in T
  BY <1>9
<1> HIDE DEF T
<1>11. 0 .. n \subseteq T
  BY <1>1, <1>8, <1>10, UpTo
<1>12. n \in T
  BY <1>1, <1>11
<1>13. at[n] \in Seq(Names) /\ from[m + n] = top \o at[n]
  BY <1>12 DEF T
<1> QED BY <1>3, <1>4, <1>13 DEF whole

(* The list replies differ in three cases only.                            *)
LEMMA ListAgrees ==
    ASSUME root \in Roots, NEW q \in ListRequest
    PROVE  \/ List(normalize_under_root(q)) = List(resolve_path(q))
           \/ List(resolve_path(q)) = Failed /\ (q.absolute \/ LeavesRoot(q.path))
           \/ List(normalize_under_root(q)) = Failed /\ root = <<>>
<1>1. root \in Seq(Names) /\ q.path \in Seq(Steps) /\ q.absolute \in BOOLEAN
  BY NamesAssumption, TreeAssumption DEF ListRequest, Steps
<1>2. List(Failed) = Failed
  BY TreeAssumption DEF List
<1>3. CASE q.absolute \/ LeavesRoot(q.path)
  <2>1. resolve_path(q) = Failed
    BY <1>3 DEF resolve_path
  <2> QED BY <1>2, <1>3, <2>1
<1>4. CASE ~(q.absolute \/ LeavesRoot(q.path))
  <2> DEFINE below == weakly_canonical(q.path)
  <2>1. resolve_path(q) = root \o below
    BY <1>4 DEF resolve_path
  <2>2. below \in Seq(Names) /\ weakly_canonical(root \o q.path) = root \o below
    BY <1>1, <1>4, RootThenPath
  <2> HIDE DEF below
  <2>3. normalize_under_root(q) \in {root \o below, Failed}
    BY <1>4, <2>2 DEF normalize_under_root
  <2>4. root # <<>> => normalize_under_root(q) = root \o below
    <3>1. IsPrefix(root, root \o below)
      <4> DEFINE m == Len(root)
                 s == root \o below
      <4>1. /\ s \in Seq(Names) /\ Len(s) = m + Len(below) /\ m \in Nat /\ Len(below) \in Nat
            /\ \A i \in 1 .. m : s[i] = root[i]
        BY <1>1, <2>2, ConcatParts, LenProperties
      <4>2. SubSeq(s, 1, m) = root /\ SubSeq(root, 1, m) = root
        <5>1. SubSeq(root, 1, m) = root
          BY <1>1, SubSeqFull
        <5>2. SubSeq(s, 1, m) = SubSeq(root, 1, m)
          BY <1>1, <2>2, <4>1, SubSeqOfConcat1
        <5> QED BY <5>1, <5>2
      <4> HIDE DEF s, m
      <4>3. m <= Len(s)
        BY <4>1
      <4> QED BY <4>2, <4>3 DEF IsPrefix, s, m
    <3> QED BY <1>4, <2>2, <3>1 DEF normalize_under_root
  <2> QED BY <1>2, <2>1, <2>3, <2>4
<1> QED BY <1>3, <1>4

LEMMA AgreeInv == Served => ServersAgree
<1> SUFFICES ASSUME Served, request # NoRequest, Positive, file # Absent => Plain(file)
             PROVE  \/ cpp = rust
                    \/ /\ request.op = "list"
                       /\ \/ rust = Failed /\ (request.absolute \/ LeavesRoot(request.path))
                          \/ cpp = Failed /\ root = <<>>
                    \/ request.op = "tail" /\ cpp = <<"n">> /\ rust = <<>>
                    \/ /\ request.op = "grep"
                       /\ \/ (request.cpp_rg = "fails") # (request.rust_rg = "fails")
                          \/ request.cpp_rg = "rows" /\ Wraps(request)
                          \/ /\ request.cpp_rg = "rows"
                             /\ \E k \in DOMAIN getline(file) :
                                    Len(getline(file)[k]) > request.max_line_length
  BY DEF ServersAgree
<1>1. CASE ListServed
  <2>1. request \in ListRequest /\ request.op = "list"
    BY <1>1 DEF ListServed, ListRequest
  <2>2. root \in Roots
    BY DEF Served
  <2> QED BY <1>1, <2>1, <2>2, ListAgrees DEF ListServed
<1>2. CASE NoFileServed
  BY <1>2 DEF NoFileServed
<1>3. CASE ReadServed
  <2>1. file \in Seq(PlainBytes)
    BY <1>3, PlainIs DEF Served, ReadServed
  <2> QED BY <1>3, <2>1, ReadAgrees DEF ReadServed
<1>4. CASE TailServed
  <2>1. file \in Seq(PlainBytes)
    BY <1>4, PlainIs DEF Served, TailServed
  <2>2. request \in TailRequest /\ request.op = "tail"
    BY <1>4 DEF TailServed, TailRequest
  <2>3. request.lines \in Nat \ {0} /\ request.max_bytes \in Nat \ {0}
    BY <2>2, PositiveIs
  <2> QED BY <1>4, <2>1, <2>2, <2>3, TailAgrees DEF TailServed
<1>5. CASE GrepServed
  <2>1. file \in Texts /\ file \in Seq(PlainBytes)
    BY <1>5, PlainIs DEF Served, GrepServed
  <2>2. request \in GrepRequest /\ request.op = "grep"
    BY <1>5 DEF GrepServed, GrepRequest
  <2>3. request.max_matches \in Nat \ {0} /\ request.max_line_length \in Nat \ {0}
    BY <2>2, PositiveIs
  <2>4. \/ CppGrep(file, request) = RustGrep(file, request)
        \/ (request.cpp_rg = "fails") # (request.rust_rg = "fails")
        \/ request.cpp_rg = "rows" /\ Wraps(request)
        \/ /\ request.cpp_rg = "rows"
           /\ \E k \in DOMAIN getline(file) : Len(getline(file)[k]) > request.max_line_length
    BY <2>1, <2>2, <2>3, GrepAgrees
  <2> QED BY <1>5, <2>2, <2>4 DEF GrepServed
<1> QED BY <1>1, <1>2, <1>3, <1>4, <1>5 DEF Served

(* For files of plain characters and limits from 1 to 2^64 - 1 the two     *)
(* servers reply the same, but for the paths that the Rust server refuses  *)
(* by their form, the root "/", the tail that is one empty line, rg that   *)
(* fails one server only, and the cut of rg's output in C++, whatever the  *)
(* tree, the file and the request.                                         *)
THEOREM ServersReplyAlike == Spec => []ServersAgree
<1> QED BY ServedAlways, AgreeInv, PTL

=============================================================================
