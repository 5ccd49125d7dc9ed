----------------------------- MODULE NumberProofs -----------------------------
(***************************************************************************)
(* Counting: least elements, induction over the numbers stated of a set    *)
(* instead of a predicate, and functions given by their first value and a  *)
(* step.  The proofs of all components cite them.                          *)
(***************************************************************************)
EXTENDS Naturals, WellFoundedInduction, TLAPS

(* A nonempty set of natural numbers has a least element.                  *)
LEMMA NatMinimum ==
    ASSUME NEW S, S \subseteq Nat, S # {}
    PROVE  \E m \in S : \A n \in S : m <= n
  <1>1. PICK m \in S : \A n \in S : ~ (<<n, m>> \in OpToRel(<, Nat))
    BY NatLessThanWellFounded, WFMin
  <1>2. \A n \in S : ~ (n < m)
    BY <1>1 DEF OpToRel
  <1> QED BY <1>2

(* A set that holds zero and with every number the next one holds them all. *)
LEMMA Counting ==
    ASSUME NEW P, 0 \in P, \A n \in Nat : n \in P => n + 1 \in P
    PROVE  Nat \subseteq P
  <1> DEFINE B == {n \in Nat : n \notin P}
  <1>1. CASE B # {}
    <2>1. PICK m \in B : \A n \in B : m <= n
      <3>1. B \subseteq Nat
        OBVIOUS
      <3> HIDE DEF B
      <3> QED BY <1>1, <3>1, NatMinimum
    <2>2. m - 1 \in Nat /\ m - 1 \notin B
      BY <2>1
    <2> QED BY <2>1, <2>2
  <1> QED BY <1>1

(* A function on the numbers may be given by its first value and by each    *)
(* value from the one before.                                               *)
Follows(f, S, base, g) ==
    f \in [Nat -> S] /\ f[0] = base /\ \A n \in Nat : f[n + 1] = g[n][f[n]]

LEMMA Recursion ==
    ASSUME NEW S, NEW base \in S, NEW g \in [Nat -> [S -> S]]
    PROVE  \E f : Follows(f, S, base, g)
  <1> DEFINE Upto(h, n) == h \in [0..n -> S] /\ h[0] = base
                           /\ \A m \in 0..(n - 1) : h[m + 1] = g[m][h[m]]
  <1>1. \A n \in Nat : \E h : Upto(h, n)
    <2> DEFINE P == {n \in Nat : \E h : Upto(h, n)}
    <2>1. 0 \in P
      <3> DEFINE h == [m \in 0..0 |-> base]
      <3>1. Upto(h, 0)
        OBVIOUS
      <3> QED BY <3>1
    <2>2. ASSUME NEW n \in Nat, n \in P PROVE n + 1 \in P
      <3>1. PICK h : Upto(h, n)
        BY <2>2
      <3> DEFINE k == [m \in 0..(n + 1) |-> IF m = n + 1 THEN g[n][h[n]] ELSE h[m]]
      <3>2. k \in [0..(n + 1) -> S]
        BY <3>1
      <3>3. k[0] = base
        BY <3>1
      <3>4. ASSUME NEW m \in 0..(n + 1 - 1) PROVE k[m + 1] = g[m][k[m]]
        BY <3>1
      <3> HIDE DEF k
      <3>5. Upto(k, n + 1)
        BY <3>2, <3>3, <3>4
      <3> HIDE DEF Upto
      <3> QED BY <3>5
    <2> HIDE DEF P
    <2>3. Nat \subseteq P
      BY <2>1, <2>2, Counting
    <2> QED BY <2>3 DEF P
  <1>2. ASSUME NEW n \in Nat, NEW p \in Nat, NEW h, NEW k, Upto(h, n), Upto(k, p)
        PROVE  \A m \in Nat : m <= n /\ m <= p => h[m] = k[m]
    <2> DEFINE P == {m \in Nat : m <= n /\ m <= p => h[m] = k[m]}
    <2>1. 0 \in P
      BY <1>2
    <2>2. ASSUME NEW m \in Nat, m \in P PROVE m + 1 \in P
      <3>1. CASE m + 1 <= n /\ m + 1 <= p
        <4>1. h[m] = k[m] /\ m \in 0..(n - 1) /\ m \in 0..(p - 1)
          BY <2>2, <3>1
        <4>2. h[m + 1] = k[m + 1]
          BY <1>2, <4>1
        <4> QED BY <4>2
      <3> QED BY <3>1
    <2> HIDE DEF P
    <2>3. Nat \subseteq P
      BY <2>1, <2>2, Counting
    <2> QED BY <2>3 DEF P
  <1> DEFINE H(n) == CHOOSE h : Upto(h, n)
             f == [n \in Nat |-> H(n)[n]]
  <1>3. \A n \in Nat : Upto(H(n), n)
    BY <1>1
  <1> HIDE DEF H
  <1>4. f \in [Nat -> S] /\ f[0] = base
    BY <1>3
  <1>5. ASSUME NEW n \in Nat PROVE f[n + 1] = g[n][f[n]]
    <2>1. n + 1 \in Nat /\ n \in 0..(n + 1 - 1) /\ n <= n + 1
      OBVIOUS
    <2>2. Upto(H(n), n) /\ Upto(H(n + 1), n + 1)
      BY <1>3, <2>1
    <2>3. H(n + 1)[n] = H(n)[n]
      <3> HIDE DEF Upto
      <3> QED BY <1>2, <2>1, <2>2
    <2>4. H(n + 1)[n + 1] = g[n][H(n + 1)[n]]
      BY <2>1, <2>2
    <2> QED BY <2>1, <2>3, <2>4
  <1> HIDE DEF f
  <1> QED BY <1>4, <1>5 DEF Follows
=============================================================================
