---------------------------- MODULE SomasProofs ----------------------------
(***************************************************************************)
(* What SumTo computes, for lists of every length.  Induction is on sets of *)
(* naturals: a set that holds 0 and the successor of each of its members is *)
(* Nat, since otherwise the naturals outside it have a least element.       *)
(***************************************************************************)
EXTENDS Somas, WellFoundedInduction, TLAPS

(* Induction over the naturals, in the form the lemmas below use it. *)
LEMMA NatSetInduction ==
  ASSUME NEW S \in SUBSET Nat, 0 \in S, \A n \in S : n+1 \in S
  PROVE  S = Nat
<1> SUFFICES ASSUME Nat \ S # {} PROVE FALSE
  OBVIOUS
<1>1. IsWellFoundedOn(OpToRel(<, Nat), Nat)
  BY NatLessThanWellFounded
<1>2. PICK x \in Nat \ S : \A y \in Nat \ S : ~(<<y, x>> \in OpToRel(<, Nat))
  BY <1>1, WFMin, Zenon
<1>3. x # 0 /\ x-1 \in Nat
  OBVIOUS
<1>4. x-1 \in S
  <2> SUFFICES ASSUME x-1 \notin S PROVE FALSE
    OBVIOUS
  <2>1. <<x-1, x>> \in OpToRel(<, Nat)
    BY <1>2, <1>3 DEF OpToRel
  <2> QED
    BY <1>2, <1>3, <2>1
<1> QED
  BY <1>3, <1>4

\* s holds the partial sums of f up to n.
IsSum(s, f, n) == s = [i \in 0..n |-> IF i = 0 THEN 0 ELSE s[i-1] + f[i]]

(* Partial sums exist up to every n, so the CHOOSE under SumTo is not empty. *)
LEMMA SumExists == \A f : \A n \in Nat : \E s : IsSum(s, f, n)
<1> TAKE f
<1> DEFINE E == {n \in Nat : \E s : IsSum(s, f, n)}
<1>1. 0 \in E
  <2> DEFINE s == [i \in 0..0 |-> 0]
  <2>1. IsSum(s, f, 0)
    BY DEF IsSum
  <2> QED BY <2>1
<1>2. ASSUME NEW n \in E PROVE n+1 \in E
  <2>1. PICK s : IsSum(s, f, n)
    OBVIOUS
  <2> DEFINE r == [i \in 0..n+1 |-> IF i = n+1 THEN s[n] + f[n+1] ELSE s[i]]
  <2>2. n \in Nat
    OBVIOUS
  <2>3. ASSUME NEW i \in 0..n+1 PROVE r[i] = IF i = 0 THEN 0 ELSE r[i-1] + f[i]
    BY <2>1, <2>2 DEF IsSum
  <2>4. IsSum(r, f, n+1)
    <3> HIDE DEF r
    <3>1. r = [i \in 0..n+1 |-> r[i]]
      BY DEF r
    <3> QED BY <2>3, <3>1 DEF IsSum
  <2> QED BY <2>4, <2>2
<1>3. E = Nat
  <2> HIDE DEF E
  <2>1. E \in SUBSET Nat
    BY DEF E
  <2> QED BY <2>1, <1>1, <1>2, NatSetInduction
<1> QED BY <1>3

(* Lists that agree up to m have the same partial sum at m. *)
LEMMA SumAgree ==
  ASSUME NEW f, NEW g, NEW m \in Nat, NEW n \in Nat, NEW s, NEW r, m <= n,
         IsSum(s, f, m), IsSum(r, g, n), \A i \in 1..m : f[i] = g[i]
  PROVE  s[m] = r[m]
<1> DEFINE E == {k \in Nat : k <= m => s[k] = r[k]}
<1>1. 0 \in E
  BY DEF IsSum
<1>2. ASSUME NEW k \in E PROVE k+1 \in E
  <2> SUFFICES ASSUME k+1 <= m PROVE s[k+1] = r[k+1]
    OBVIOUS
  <2>1. /\ s[k] = r[k] /\ f[k+1] = g[k+1]
        /\ k+1 \in 0..m /\ k+1 \in 0..n /\ k+1 # 0 /\ k+1-1 = k
    OBVIOUS
  <2>2. s[k+1] = s[k] + f[k+1]
    BY <2>1 DEF IsSum
  <2>3. r[k+1] = r[k] + g[k+1]
    BY <2>1 DEF IsSum
  <2> QED BY <2>1, <2>2, <2>3
<1>3. E = Nat
  <2> HIDE DEF E
  <2>1. E \in SUBSET Nat
    BY DEF E
  <2> QED BY <2>1, <1>1, <1>2, NatSetInduction
<1> QED BY <1>3

(* The function that SumTo defines by recursion is a partial sum. *)
LEMMA SumToDef == \A f : \A n \in Nat : \E s : IsSum(s, f, n) /\ SumTo(f, n) = s[n]
<1> TAKE f
<1> TAKE n \in Nat
<1> DEFINE s == CHOOSE s : IsSum(s, f, n)
<1>1. IsSum(s, f, n)
  BY SumExists
<1>2. SumTo(f, n) = s[n]
  BY DEF SumTo, IsSum
<1> QED BY <1>1, <1>2

(* The empty sum, and the sum of one more row. *)
LEMMA SumStep ==
  \A f : SumTo(f, 0) = 0 /\ \A n \in Nat : SumTo(f, n+1) = SumTo(f, n) + f[n+1]
<1> TAKE f
<1>1. SumTo(f, 0) = 0
  BY SumToDef DEF IsSum
<1>2. ASSUME NEW n \in Nat PROVE SumTo(f, n+1) = SumTo(f, n) + f[n+1]
  <2>1. PICK s : IsSum(s, f, n) /\ SumTo(f, n) = s[n]
    BY SumToDef
  <2>2. PICK r : IsSum(r, f, n+1) /\ SumTo(f, n+1) = r[n+1]
    BY SumToDef
  <2>3. s[n] = r[n]
    BY <2>1, <2>2, SumAgree
  <2>4. r[n+1] = r[n] + f[n+1]
    BY <2>2 DEF IsSum
  <2> QED BY <2>1, <2>2, <2>3, <2>4
<1> QED BY <1>1, <1>2

(* A sum depends on nothing but the rows it adds. *)
LEMMA SumCong ==
  ASSUME NEW f, NEW g, NEW n \in Nat, \A i \in 1..n : f[i] = g[i]
  PROVE  SumTo(f, n) = SumTo(g, n)
<1> DEFINE E == {k \in Nat : k <= n => SumTo(f, k) = SumTo(g, k)}
<1>1. 0 \in E
  BY SumStep
<1>2. ASSUME NEW k \in E PROVE k+1 \in E
  <2> SUFFICES ASSUME k+1 <= n PROVE SumTo(f, k+1) = SumTo(g, k+1)
    OBVIOUS
  <2>1. SumTo(f, k) = SumTo(g, k) /\ f[k+1] = g[k+1]
    OBVIOUS
  <2> QED BY <2>1, SumStep
<1>3. E = Nat
  <2> HIDE DEF E
  <2>1. E \in SUBSET Nat
    BY DEF E
  <2> QED BY <2>1, <1>1, <1>2, NatSetInduction
<1> QED BY <1>3

(* The sum of a list with one more row: the append of the domain functions. *)
LEMMA SumAppend ==
  ASSUME NEW f, NEW g, NEW n \in Nat, \A i \in 1..n : f[i] = g[i]
  PROVE  SumTo(g, n+1) = SumTo(f, n) + g[n+1]
<1>1. SumTo(f, n) = SumTo(g, n)
  BY SumCong
<1> QED BY <1>1, SumStep

(* Sums of integers are integers, and sums of naturals are naturals. *)
LEMMA SumIsIn ==
  ASSUME NEW T, T = Int \/ T = Nat,
         NEW f, NEW n \in Nat, \A i \in 1..n : f[i] \in T
  PROVE  SumTo(f, n) \in T
<1> DEFINE E == {k \in Nat : k <= n => SumTo(f, k) \in T}
<1>1. 0 \in E
  BY SumStep
<1>2. ASSUME NEW k \in E PROVE k+1 \in E
  <2> SUFFICES ASSUME k+1 <= n PROVE SumTo(f, k+1) \in T
    OBVIOUS
  <2>1. SumTo(f, k) \in T /\ f[k+1] \in T
    OBVIOUS
  <2>2. SumTo(f, k+1) = SumTo(f, k) + f[k+1]
    BY SumStep
  <2> QED BY <2>1, <2>2
<1>3. E = Nat
  <2> HIDE DEF E
  <2>1. E \in SUBSET Nat
    BY DEF E
  <2> QED BY <2>1, <1>1, <1>2, NatSetInduction
<1> QED BY <1>3
=============================================================================
