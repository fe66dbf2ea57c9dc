------------------------------ MODULE Iteration ------------------------------
(***************************************************************************)
(* Facts about bounded iteration, on which the proofs about the recursive  *)
(* functions of the model rest.  A run of n steps from `init' applies      *)
(* step[<<i, x>>] to the i-th value x.  Induction is done by contradiction *)
(* on the least index where a claim fails.  The last part says, index by   *)
(* index, what cutting and joining sequences gives.                        *)
(***************************************************************************)
EXTENDS Integers, Sequences, WellFoundedInduction, TLAPS

(* Every non-empty set of naturals has a least element.                    *)
LEMMA NatMin ==
  ASSUME NEW S, S \subseteq Nat, S # {}
  PROVE  \E x \in S : \A y \in S : x <= y
<1> DEFINE R == {ss \in Nat \X Nat : ss[1] < ss[2]}
<1>1. R = OpToRel(<, Nat)
  BY DEF OpToRel
<1>2. IsWellFoundedOn(R, Nat)
  BY <1>1, NatLessThanWellFounded
<1>3. \E x \in S : \A y \in S : ~ (<<y, x>> \in R)
  <2> HIDE DEF R
  <2> QED
    BY <1>2, WFMin
<1>4. \A x, y \in S : y < x => <<y, x>> \in R
  OBVIOUS
<1>5. \A x, y \in S : ~ (<<y, x>> \in R) => x <= y
  <2>1. \A x, y \in S : x <= y \/ y < x
    OBVIOUS
  <2> HIDE DEF R
  <2> QED BY <1>4, <2>1
<1> HIDE DEF R
<1> QED
  BY <1>3, <1>5

(* A set of indices that holds 0 and the successor of each of its members  *)
(* up to n holds all of 0..n.                                              *)
LEMMA UpTo ==
  ASSUME NEW n \in Nat, NEW G, 0 \in G,
         \A i \in 1..n : i - 1 \in G => i \in G
  PROVE  0..n \subseteq G
<1> DEFINE B == {i \in 0..n : i \notin G}
<1>1. SUFFICES ASSUME B # {} PROVE FALSE
  OBVIOUS
<1>2. B \subseteq Nat
  OBVIOUS
<1>3. PICK x \in B : \A y \in B : x <= y
  <2> HIDE DEF B
  <2> QED BY <1>1, <1>2, NatMin
<1>4. x \in 1..n /\ x - 1 \in 0..n /\ ~ (x <= x - 1)
  OBVIOUS
<1>5. x - 1 \in G
  BY <1>3, <1>4
<1> QED
  BY <1>4, <1>5

(* The same downwards from n.                                              *)
LEMMA DownFrom ==
  ASSUME NEW n \in Nat, NEW G, n \in G,
         \A i \in 0..(n - 1) : i + 1 \in G => i \in G
  PROVE  0..n \subseteq G
<1> DEFINE H == {i \in 0..n : n - i \in G}
<1>1. 0 \in H
  OBVIOUS
<1>2. \A i \in 1..n : i - 1 \in H => i \in H
  <2> SUFFICES ASSUME NEW i \in 1..n, i - 1 \in H PROVE i \in H
    OBVIOUS
  <2>1. n - i \in 0..(n - 1) /\ (n - i) + 1 = n - (i - 1)
    OBVIOUS
  <2> QED BY <2>1
<1>3. 0..n \subseteq H
  <2> HIDE DEF H
  <2> QED BY <1>1, <1>2, UpTo
<1>4. \A i \in 0..n : n - i \in 0..n /\ n - (n - i) = i
  OBVIOUS
<1> QED
  BY <1>3, <1>4

(* g is a run of n steps upwards from `init', and downwards from it, where *)
(* going from i + 1 to i takes step i + 1.                                 *)
IsRun(g, S, n, init, step) ==
  /\ g \in [0..n -> S]
  /\ g[0] = init
  /\ \A i \in 1..n : g[i] = step[<<i, g[i - 1]>>]

IsDownRun(g, S, n, init, step) ==
  /\ g \in [0..n -> S]
  /\ g[n] = init
  /\ \A i \in 0..(n - 1) : g[i] = step[<<i + 1, g[i + 1]>>]

(* A run of n steps exists whenever the steps stay inside a set.           *)
LEMMA RunExists ==
  ASSUME NEW S, NEW n \in Nat, NEW init \in S, NEW step \in [(1..n) \X S -> S]
  PROVE  \E g : IsRun(g, S, n, init, step)
<1> DEFINE Runs(k) == {g \in [0..k -> S] :
                         /\ g[0] = init
                         /\ \A i \in 1..k : g[i] = step[<<i, g[i - 1]>>]}
           G == {k \in 0..n : Runs(k) # {}}
<1>1. 0 \in G
  <2>1. [i \in 0..0 |-> init] \in Runs(0)
    OBVIOUS
  <2> QED BY <2>1
<1>2. ASSUME NEW k \in 1..n, k - 1 \in G PROVE k \in G
  <2>1. PICK g \in Runs(k - 1) : TRUE
    BY <1>2
  <2> DEFINE h == [i \in 0..k |-> IF i = k THEN step[<<k, g[k - 1]>>] ELSE g[i]]
  <2>2. g[k - 1] \in S /\ step[<<k, g[k - 1]>>] \in S
    OBVIOUS
  <2>3. h \in [0..k -> S]
    BY <2>2
  <2>4. h[0] = init
    OBVIOUS
  <2>5. ASSUME NEW i \in 1..k PROVE h[i] = step[<<i, h[i - 1]>>]
    <3>1. CASE i = k
      <4>1. h[k] = step[<<k, g[k - 1]>>] /\ h[k - 1] = g[k - 1]
        OBVIOUS
      <4> QED BY <3>1, <4>1
    <3>2. CASE i # k
      <4>1. i \in 1..(k - 1) /\ i - 1 \in 0..k /\ i - 1 # k /\ i \in 0..k
        BY <3>2
      <4>2. h[i] = g[i] /\ h[i - 1] = g[i - 1]
        BY <3>2, <4>1
      <4>3. g[i] = step[<<i, g[i - 1]>>]
        BY <4>1
      <4> QED BY <4>2, <4>3
    <3> QED BY <3>1, <3>2
  <2>6. h \in Runs(k)
    <3> HIDE DEF h
    <3> QED BY <2>3, <2>4, <2>5
  <2>7. k \in 0..n
    OBVIOUS
  <2> HIDE DEF Runs
  <2> QED BY <2>6, <2>7
<1>3. n \in G
  <2> HIDE DEF G
  <2>1. 0..n \subseteq G
    BY <1>1, <1>2, UpTo
  <2> QED BY <2>1
<1> QED
  BY <1>3 DEF IsRun

(* The same for a run that goes down from n, undoing step i + 1 at i.      *)
LEMMA DownRunExists ==
  ASSUME NEW S, NEW n \in Nat, NEW init \in S, NEW step \in [(1..n) \X S -> S]
  PROVE  \E g : IsDownRun(g, S, n, init, step)
<1> DEFINE flip == [x \in (1..n) \X S |-> step[<<n + 1 - x[1], x[2]>>]]
<1>1. flip \in [(1..n) \X S -> S]
  OBVIOUS
<1>2. PICK g : IsRun(g, S, n, init, flip)
  <2> HIDE DEF flip
  <2> QED BY <1>1, RunExists
<1> DEFINE h == [i \in 0..n |-> g[n - i]]
<1>3. h \in [0..n -> S] /\ h[n] = init
  BY <1>2 DEF IsRun
<1>4. ASSUME NEW i \in 0..(n - 1) PROVE h[i] = step[<<i + 1, h[i + 1]>>]
  <2>1. n - i \in 1..n /\ n - (i + 1) = (n - i) - 1 /\ n + 1 - (n - i) = i + 1
    OBVIOUS
  <2>2. g[n - i] = flip[<<n - i, g[(n - i) - 1]>>] /\ g[(n - i) - 1] \in S
    <3> HIDE DEF flip
    <3>1. (n - i) - 1 \in 0..n
      OBVIOUS
    <3> QED BY <1>2, <2>1, <3>1 DEF IsRun
  <2>3. flip[<<n - i, g[(n - i) - 1]>>] = step[<<i + 1, g[(n - i) - 1]>>]
    BY <2>1, <2>2
  <2>4. h[i] = g[n - i] /\ h[i + 1] = g[(n - i) - 1]
    BY <2>1
  <2> QED
    BY <2>2, <2>3, <2>4
<1> HIDE DEF h
<1> QED
  BY <1>3, <1>4 DEF IsDownRun

(* What satisfies the equations of a run stays inside the set, so it is    *)
(* one.                                                                    *)
LEMMA RunTyped ==
  ASSUME NEW S, NEW n \in Nat, NEW init \in S, NEW step \in [(1..n) \X S -> S],
         NEW f, f = [i \in 0..n |-> f[i]], f[0] = init,
         \A i \in 1..n : f[i - 1] \in S => f[i] = step[<<i, f[i - 1]>>]
  PROVE  IsRun(f, S, n, init, step)
<1> DEFINE G == {i \in 0..n : f[i] \in S}
<1>1. 0 \in G
  OBVIOUS
<1>2. ASSUME NEW i \in 1..n, i - 1 \in G PROVE i \in G
  <2>1. f[i - 1] \in S /\ f[i] = step[<<i, f[i - 1]>>]
    BY <1>2
  <2> QED BY <2>1
<1>3. 0..n \subseteq G
  <2> HIDE DEF G
  <2> QED BY <1>1, <1>2, UpTo
<1>4. \A i \in 0..n : f[i] \in S
  BY <1>3
<1>5. f \in [0..n -> S]
  BY <1>4
<1>6. ASSUME NEW i \in 1..n PROVE f[i] = step[<<i, f[i - 1]>>]
  <2>1. i - 1 \in 0..n
    OBVIOUS
  <2> QED BY <1>4, <2>1
<1> QED
  BY <1>5, <1>6 DEF IsRun

(* The same for a loop that counts down.                                   *)
LEMMA DownRunTyped ==
  ASSUME NEW S, NEW n \in Nat, NEW init \in S, NEW step \in [(1..n) \X S -> S],
         NEW f, f = [i \in 0..n |-> f[i]], f[n] = init,
         \A i \in 0..(n - 1) : f[i + 1] \in S => f[i] = step[<<i + 1, f[i + 1]>>]
  PROVE  IsDownRun(f, S, n, init, step)
<1> DEFINE G == {i \in 0..n : f[i] \in S}
<1>1. n \in G
  OBVIOUS
<1>2. ASSUME NEW i \in 0..(n - 1), i + 1 \in G PROVE i \in G
  <2>1. f[i + 1] \in S /\ f[i] = step[<<i + 1, f[i + 1]>>]
    BY <1>2
  <2> QED BY <2>1
<1>3. 0..n \subseteq G
  <2> HIDE DEF G
  <2> QED BY <1>1, <1>2, DownFrom
<1>4. \A i \in 0..n : f[i] \in S
  BY <1>3
<1>5. f \in [0..n -> S]
  BY <1>4
<1>6. \A i \in 0..(n - 1) : f[i] = step[<<i + 1, f[i + 1]>>]
  BY <1>4
<1> QED
  BY <1>5, <1>6 DEF IsDownRun

-----------------------------------------------------------------------------
(* What SubSeq and \o return.                                              *)
LEMMA Piece ==
  ASSUME NEW T, NEW p \in Seq(T), NEW a \in 1..(Len(p) + 1), NEW b \in 0..Len(p), a <= b + 1
  PROVE  /\ SubSeq(p, a, b) \in Seq(T)
         /\ Len(SubSeq(p, a, b)) = b - a + 1
         /\ \A i \in 1..(b - a + 1) : SubSeq(p, a, b)[i] = p[i + a - 1]
OBVIOUS

(* What a concatenation of sequences is made of.                           *)
LEMMA Join ==
  ASSUME NEW T, NEW p \in Seq(T), NEW q \in Seq(T)
  PROVE  /\ p \o q \in Seq(T)
         /\ Len(p \o q) = Len(p) + Len(q)
         /\ \A i \in 1..Len(p) : (p \o q)[i] = p[i]
         /\ \A i \in (Len(p) + 1)..(Len(p) + Len(q)) : (p \o q)[i] = q[i - Len(p)]
OBVIOUS

(* Sequences of one length that agree at every index are equal.            *)
LEMMA SameSeq ==
  ASSUME NEW T, NEW p \in Seq(T), NEW q \in Seq(T), Len(p) = Len(q),
         \A i \in 1..Len(p) : p[i] = q[i]
  PROVE  p = q
OBVIOUS

(* The sequence p with e put in after its first k elements.                *)
Inserted(p, k, e) == SubSeq(p, 1, k) \o <<e>> \o SubSeq(p, k + 1, Len(p))

(* The elements keep their order around the new one.                       *)
LEMMA InsertAt ==
  ASSUME NEW T, NEW p \in Seq(T), NEW e \in T, NEW k \in 0..Len(p)
  PROVE  /\ Inserted(p, k, e) \in Seq(T)
         /\ Len(Inserted(p, k, e)) = Len(p) + 1
         /\ \A i \in 1..(Len(p) + 1) :
              Inserted(p, k, e)[i] =
                IF i <= k THEN p[i] ELSE IF i = k + 1 THEN e ELSE p[i - 1]
<1> DEFINE n == Len(p)
           l == SubSeq(p, 1, k)
           m == l \o <<e>>
           r == SubSeq(p, k + 1, n)
           q == m \o r
<1>0. n \in Nat /\ k \in 0..n
  OBVIOUS
<1>1. l \in Seq(T) /\ Len(l) = k /\ \A i \in 1..k : l[i] = p[i]
  BY Piece
<1>2. r \in Seq(T) /\ Len(r) = n - k /\ \A i \in 1..(n - k) : r[i] = p[i + k]
  BY Piece
<1> HIDE DEF l, r
<1>3. /\ m \in Seq(T) /\ Len(m) = k + 1 /\ m[k + 1] = e
      /\ \A i \in 1..k : m[i] = p[i]
  BY <1>0, <1>1
<1> HIDE DEF m, n
<1>4. /\ q \in Seq(T) /\ Len(q) = n + 1
      /\ \A i \in 1..(k + 1) : q[i] = m[i]
      /\ \A i \in (k + 2)..(n + 1) : q[i] = r[i - (k + 1)]
  <2>1. /\ q \in Seq(T) /\ Len(q) = Len(m) + Len(r)
        /\ \A i \in 1..Len(m) : q[i] = m[i]
        /\ \A i \in (Len(m) + 1)..(Len(m) + Len(r)) : q[i] = r[i - Len(m)]
    BY <1>2, <1>3, Join
  <2> HIDE DEF q
  <2> QED BY <1>0, <1>2, <1>3, <2>1
<1> HIDE DEF q
<1>5. ASSUME NEW i \in 1..(n + 1)
      PROVE  q[i] = IF i <= k THEN p[i] ELSE IF i = k + 1 THEN e ELSE p[i - 1]
  <2>1. CASE i <= k
    BY <1>0, <1>3, <1>4, <2>1
  <2>2. CASE i = k + 1
    BY <1>0, <1>3, <1>4, <2>2
  <2>3. CASE i > k + 1
    <3>1. i \in (k + 2)..(n + 1) /\ i - (k + 1) \in 1..(n - k) /\ (i - (k + 1)) + k = i - 1
      BY <1>0, <2>3
    <3>2. q[i] = p[(i - (k + 1)) + k]
      BY <1>2, <1>4, <3>1
    <3> QED BY <1>0, <2>3, <3>1, <3>2
  <2> QED BY <1>0, <2>1, <2>2, <2>3
<1>6. q = Inserted(p, k, e)
  BY DEF l, m, n, q, r, Inserted
<1> QED BY <1>4, <1>5, <1>6 DEF n

(* The sequence p without its k-th element.                                *)
Removed(p, k) == SubSeq(p, 1, k - 1) \o SubSeq(p, k + 1, Len(p))

(* The elements after the gap move up by one.                              *)
LEMMA RemoveAt ==
  ASSUME NEW T, NEW p \in Seq(T), NEW k \in 1..Len(p)
  PROVE  /\ Removed(p, k) \in Seq(T)
         /\ Len(Removed(p, k)) = Len(p) - 1
         /\ \A i \in 1..(Len(p) - 1) :
              Removed(p, k)[i] = IF i < k THEN p[i] ELSE p[i + 1]
<1> DEFINE n == Len(p)
           l == SubSeq(p, 1, k - 1)
           r == SubSeq(p, k + 1, n)
           q == l \o r
<1>0. n \in Nat /\ k \in 1..n
  OBVIOUS
<1>1. l \in Seq(T) /\ Len(l) = k - 1 /\ \A i \in 1..(k - 1) : l[i] = p[i]
  BY Piece
<1>2. r \in Seq(T) /\ Len(r) = n - k /\ \A i \in 1..(n - k) : r[i] = p[i + k]
  BY Piece
<1> HIDE DEF l, r, n
<1>3. /\ q \in Seq(T) /\ Len(q) = n - 1
      /\ \A i \in 1..(k - 1) : q[i] = l[i]
      /\ \A i \in k..(n - 1) : q[i] = r[i - (k - 1)]
  <2>1. /\ q \in Seq(T) /\ Len(q) = Len(l) + Len(r)
        /\ \A i \in 1..Len(l) : q[i] = l[i]
        /\ \A i \in (Len(l) + 1)..(Len(l) + Len(r)) : q[i] = r[i - Len(l)]
    BY <1>1, <1>2, Join
  <2> HIDE DEF q
  <2> QED BY <1>0, <1>1, <1>2, <2>1
<1> HIDE DEF q
<1>4. ASSUME NEW i \in 1..(n - 1) PROVE q[i] = IF i < k THEN p[i] ELSE p[i + 1]
  <2>1. CASE i < k
    BY <1>0, <1>1, <1>3, <2>1
  <2>2. CASE i >= k
    <3>1. i \in k..(n - 1) /\ i - (k - 1) \in 1..(n - k) /\ (i - (k - 1)) + k = i + 1
      BY <1>0, <2>2
    <3>2. q[i] = p[(i - (k - 1)) + k]
      BY <1>2, <1>3, <3>1
    <3> QED BY <1>0, <2>2, <3>1, <3>2
  <2> QED BY <1>0, <2>1, <2>2
<1>5. q = Removed(p, k)
  BY DEF l, n, q, r, Removed
<1> QED BY <1>3, <1>4, <1>5 DEF n
=============================================================================
