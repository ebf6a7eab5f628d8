----------------------------- MODULE CrabProofs -----------------------------
(***************************************************************************)
(* Proofs about the Crusty Crab, for every menu, every set of baskets and  *)
(* every clock: Sold always matches the orders of its day, and until a     *)
(* basket is accepted whose quantities wrap around, the daily stocks are   *)
(* kept and an item is announced as sold out once a day.                   *)
(*                                                                         *)
(* The sums over the lines of a basket and over the orders are recursive   *)
(* functions.  What they compute is proved by induction on the number of   *)
(* rounds, for sets in place of predicates (UpTo).                         *)
(***************************************************************************)
EXTENDS CrabStore, WellFoundedInduction, NaturalsInduction, TLAPS

\* Every nonempty set of naturals has a least element.
LEMMA LeastNatural ==
  ASSUME NEW T \in SUBSET Nat, T # {}
  PROVE  \E m \in T : \A n \in T : m <= n
<1>1. PICK m \in T : \A n \in T : ~ (<<n, m>> \in OpToRel(<, Nat))
  BY NatLessThanWellFounded, WFMin, Zenon
<1>2. \A n \in T : ~ (n < m)
  BY <1>1 DEF OpToRel
<1> QED
  BY <1>2

\* Induction up to N, for a set in place of a predicate.
LEMMA UpTo ==
  ASSUME NEW N \in Nat, NEW P, 0 \in P, \A n \in 1..N : n - 1 \in P => n \in P
  PROVE  \A n \in 0..N : n \in P
<1> DEFINE T == {n \in 0..N : n \notin P}
<1>1. ASSUME T # {} PROVE FALSE
  <2>1. T \in SUBSET Nat
    OBVIOUS
  <2>2. PICK m \in T : \A n \in T : m <= n
    <3> HIDE DEF T
    <3> QED
      BY <1>1, <2>1, LeastNatural
  <2>3. m # 0 /\ m \in 0..N
    OBVIOUS
  <2>4. m - 1 \in 0..N /\ m - 1 \notin T /\ m \in 1..N
    BY <2>2, <2>3
  <2> QED
    BY <2>2, <2>4
<1> QED
  BY <1>1

\* f is what a loop of N rounds computes that starts at zero and whose round n turns x
\* into step[n][x].
Loop(f, step, N) ==
  /\ f \in [0..N -> Int] /\ f[0] = 0
  /\ \A n \in 1..N : f[n] = step[n][f[n - 1]]

\* Such a loop computes something.
LEMMA LoopExists ==
  ASSUME NEW N \in Nat, NEW step \in [1..N -> [Int -> Int]]
  PROVE  \E f : Loop(f, step, N)
<1> DEFINE P == {k \in 0..N : \E f : Loop(f, step, k)}
<1>1. 0 \in P
  <2> DEFINE f == [n \in 0..0 |-> 0]
  <2>1. Loop(f, step, 0)
    BY DEF Loop
  <2> QED
    BY <2>1
<1>2. ASSUME NEW m \in 1..N, m - 1 \in P PROVE m \in P
  <2>1. PICK f : Loop(f, step, m - 1)
    BY <1>2
  <2> DEFINE g == [n \in 0..m |-> IF n = m THEN step[m][f[m - 1]] ELSE f[n]]
  <2>2. /\ m \in Nat /\ m - 1 \in Nat /\ f \in [0..(m - 1) -> Int] /\ f[0] = 0
        /\ \A n \in 1..(m - 1) : f[n] = step[n][f[n - 1]]
    BY <2>1 DEF Loop
  <2>3. step[m][f[m - 1]] \in Int
    BY <2>2
  <2>4. g \in [0..m -> Int]
    BY <2>2, <2>3
  <2>5. g[0] = 0
    BY <2>2
  <2>6. ASSUME NEW n \in 1..m PROVE g[n] = step[n][g[n - 1]]
    <3>1. CASE n = m
      BY <3>1, <2>2
    <3>2. CASE n \in 1..(m - 1)
      BY <3>2, <2>2
    <3> QED
      BY <3>1, <3>2
  <2>7. Loop(g, step, m)
    BY <2>4, <2>5, <2>6 DEF Loop
  <2> QED
    BY <2>7
<1> HIDE DEF P
<1>3. \A n \in 0..N : n \in P
  BY <1>1, <1>2, UpTo
<1>4. N \in P
  BY <1>3
<1> QED
  BY <1>4 DEF P

\* One round of SumTo.
AddRound(d, N) == [n \in 1..N |-> [x \in Int |-> x + d[n]]]

\* SumTo follows the loop: it starts at zero and takes one more round for each number.
LEMMA SumRec ==
  ASSUME NEW N \in Nat, NEW d \in [1..N -> Int]
  PROVE  /\ SumTo(d, 0) = 0
         /\ \A n \in 0..N : SumTo(d, n) \in Int
         /\ \A n \in 1..N : SumTo(d, n) = SumTo(d, n - 1) + d[n]
<1> DEFINE body(k, g) == [n \in 0..k |-> IF n = 0 THEN 0 ELSE g[n - 1] + d[n]]
<1>1. \A k : SumTo(d, k) = (CHOOSE g : g = body(k, g))[k]
  BY Zenon DEF SumTo
<1>2. \A n \in 1..N : \A x \in Int : x + d[n] \in Int
  OBVIOUS
<1>3. AddRound(d, N) \in [1..N -> [Int -> Int]]
  BY <1>2 DEF AddRound
<1>4. PICK f : Loop(f, AddRound(d, N), N)
  BY <1>3, LoopExists
<1>5. \A n \in 1..N : \A x \in Int : AddRound(d, N)[n][x] = x + d[n]
  BY DEF AddRound
<1>6. /\ f \in [0..N -> Int] /\ f[0] = 0
      /\ \A n \in 1..N : f[n] = f[n - 1] + d[n]
  <2>1. \A n \in 1..N : f[n - 1] \in Int
    BY <1>4 DEF Loop
  <2> QED
    BY <1>4, <1>5, <2>1 DEF Loop
<1>7. ASSUME NEW k \in 0..N PROVE SumTo(d, k) = f[k]
  <2> DEFINE e == [n \in 0..k |-> f[n]]
  <2>1. e = body(k, e)
    <3>1. k \in Nat /\ \A n \in 0..k : n \in 0..N
      OBVIOUS
    <3>2. ASSUME NEW n \in 0..k
          PROVE  e[n] = IF n = 0 THEN 0 ELSE e[n - 1] + d[n]
      <4>1. CASE n = 0
        BY <3>1, <4>1, <1>6
      <4>2. CASE n # 0
        <5>1. n \in 1..N /\ n - 1 \in 0..k /\ e[n - 1] = f[n - 1] /\ e[n] = f[n]
          BY <3>1, <4>2
        <5> QED
          BY <4>2, <5>1, <1>6
      <4> QED
        BY <4>1, <4>2
    <3> HIDE DEF e
    <3>3. e = [n \in 0..k |-> e[n]]
      BY DEF e
    <3> QED
      BY <3>2, <3>3
  <2>2. ASSUME NEW h, h = body(k, h) PROVE h[k] = f[k]
    <3> DEFINE r == body(k, h)
    <3>1. h = r
      BY <2>2
    <3>2. \A n \in 0..k : r[n] = IF n = 0 THEN 0 ELSE h[n - 1] + d[n]
      BY Zenon
    <3> HIDE DEF r, body
    <3>3. h[0] = 0 /\ \A n \in 1..k : h[n] = h[n - 1] + d[n]
      BY <3>1, <3>2
    <3> DEFINE P == {n \in 0..k : h[n] = f[n]}
    <3>4. 0 \in P
      BY <3>3, <1>6
    <3>5. \A n \in 1..k : n - 1 \in P => n \in P
      <4> TAKE n \in 1..k
      <4> HAVE n - 1 \in P
      <4>1. n \in 1..N /\ n \in 0..k /\ h[n - 1] = f[n - 1]
        OBVIOUS
      <4>2. h[n] = f[n]
        BY <4>1, <3>3, <1>6
      <4> QED
        BY <4>1, <4>2
    <3> HIDE DEF P
    <3>6. k \in Nat
      OBVIOUS
    <3>7. \A n \in 0..k : n \in P
      BY <3>4, <3>5, <3>6, UpTo
    <3> QED
      BY <3>6, <3>7 DEF P
  <2> HIDE DEF e, body
  <2>3. (CHOOSE g : g = body(k, g)) = body(k, CHOOSE g : g = body(k, g))
    BY <2>1, Zenon
  <2> QED
    BY <1>1, <2>2, <2>3, Zenon
<1> HIDE DEF body
<1>8. \A n \in 1..N : n \in 0..N /\ n - 1 \in 0..N
  OBVIOUS
<1> QED
  BY <1>6, <1>7, <1>8

\* One round of IntSumTo.
WrapRound(d, N) == [n \in 1..N |-> [x \in Int |-> Wrap(x + d[n])]]

\* IntSumTo follows the loop: it starts at zero and takes one more round for each number.
LEMMA IntSumRec ==
  ASSUME NEW N \in Nat, NEW d \in [1..N -> Int]
  PROVE  /\ IntSumTo(d, 0) = 0
         /\ \A n \in 0..N : IntSumTo(d, n) \in Int
         /\ \A n \in 1..N : IntSumTo(d, n) = Wrap(IntSumTo(d, n - 1) + d[n])
<1> DEFINE body(k, g) == [n \in 0..k |-> IF n = 0 THEN 0 ELSE Wrap(g[n - 1] + d[n])]
<1>1. \A k : IntSumTo(d, k) = (CHOOSE g : g = body(k, g))[k]
  BY Zenon DEF IntSumTo
<1>2. \A n \in 1..N : \A x \in Int : Wrap(x + d[n]) \in Int
  BY CrabAssumption DEF Wrap
<1>3. WrapRound(d, N) \in [1..N -> [Int -> Int]]
  BY <1>2 DEF WrapRound
<1>4. PICK f : Loop(f, WrapRound(d, N), N)
  BY <1>3, LoopExists
<1>5. \A n \in 1..N : \A x \in Int : WrapRound(d, N)[n][x] = Wrap(x + d[n])
  BY DEF WrapRound
<1>6. /\ f \in [0..N -> Int] /\ f[0] = 0
      /\ \A n \in 1..N : f[n] = Wrap(f[n - 1] + d[n])
  <2>1. \A n \in 1..N : f[n - 1] \in Int
    BY <1>4 DEF Loop
  <2> QED
    BY <1>4, <1>5, <2>1 DEF Loop
<1>7. ASSUME NEW k \in 0..N PROVE IntSumTo(d, k) = f[k]
  <2> DEFINE e == [n \in 0..k |-> f[n]]
  <2>1. e = body(k, e)
    <3>1. k \in Nat /\ \A n \in 0..k : n \in 0..N
      OBVIOUS
    <3>2. ASSUME NEW n \in 0..k
          PROVE  e[n] = IF n = 0 THEN 0 ELSE Wrap(e[n - 1] + d[n])
      <4>1. CASE n = 0
        BY <3>1, <4>1, <1>6
      <4>2. CASE n # 0
        <5>1. n \in 1..N /\ n - 1 \in 0..k /\ e[n - 1] = f[n - 1] /\ e[n] = f[n]
          BY <3>1, <4>2
        <5> QED
          BY <4>2, <5>1, <1>6
      <4> QED
        BY <4>1, <4>2
    <3> HIDE DEF e
    <3>3. e = [n \in 0..k |-> e[n]]
      BY DEF e
    <3> QED
      BY <3>2, <3>3
  <2>2. ASSUME NEW h, h = body(k, h) PROVE h[k] = f[k]
    <3> DEFINE r == body(k, h)
    <3>1. h = r
      BY <2>2
    <3>2. \A n \in 0..k : r[n] = IF n = 0 THEN 0 ELSE Wrap(h[n - 1] + d[n])
      BY Zenon
    <3> HIDE DEF r, body
    <3>3. h[0] = 0 /\ \A n \in 1..k : h[n] = Wrap(h[n - 1] + d[n])
      BY <3>1, <3>2
    <3> DEFINE P == {n \in 0..k : h[n] = f[n]}
    <3>4. 0 \in P
      BY <3>3, <1>6
    <3>5. \A n \in 1..k : n - 1 \in P => n \in P
      <4> TAKE n \in 1..k
      <4> HAVE n - 1 \in P
      <4>1. n \in 1..N /\ n \in 0..k /\ h[n - 1] = f[n - 1]
        OBVIOUS
      <4>2. h[n] = f[n]
        BY <4>1, <3>3, <1>6
      <4> QED
        BY <4>1, <4>2
    <3> HIDE DEF P
    <3>6. k \in Nat
      OBVIOUS
    <3>7. \A n \in 0..k : n \in P
      BY <3>4, <3>5, <3>6, UpTo
    <3> QED
      BY <3>6, <3>7 DEF P
  <2> HIDE DEF e, body
  <2>3. (CHOOSE g : g = body(k, g)) = body(k, CHOOSE g : g = body(k, g))
    BY <2>1, Zenon
  <2> QED
    BY <1>1, <2>2, <2>3, Zenon
<1> HIDE DEF body
<1>8. \A n \in 1..N : n \in 0..N /\ n - 1 \in 0..N
  OBVIOUS
<1> QED
  BY <1>6, <1>7, <1>8
-----------------------------------------------------------------------------
\* A sum of numbers none of which is negative is not negative, and positive if one of
\* them is.
LEMMA SumNat ==
  ASSUME NEW N \in Nat, NEW d \in [1..N -> Nat]
  PROVE  /\ SumTo(d, N) \in Nat
         /\ (\E m \in 1..N : d[m] > 0) => SumTo(d, N) > 0
<1> DEFINE P == {n \in 0..N : SumTo(d, n) \in Nat /\ \A m \in 1..n : d[m] > 0 => SumTo(d, n) > 0}
<1>0. d \in [1..N -> Int]
  OBVIOUS
<1>1. /\ SumTo(d, 0) = 0 /\ \A n \in 0..N : SumTo(d, n) \in Int
      /\ \A n \in 1..N : SumTo(d, n) = SumTo(d, n - 1) + d[n]
  BY <1>0, SumRec
<1>2. 0 \in P
  BY <1>1
<1>3. ASSUME NEW n \in 1..N, n - 1 \in P PROVE n \in P
  <2>1. /\ SumTo(d, n - 1) \in Nat /\ SumTo(d, n) = SumTo(d, n - 1) + d[n]
        /\ d[n] \in Nat /\ n \in 0..N
        /\ \A m \in 1..(n - 1) : d[m] > 0 => SumTo(d, n - 1) > 0
    BY <1>1, <1>3
  <2>2. \A m \in 1..n : m = n \/ m \in 1..(n - 1)
    OBVIOUS
  <2>3. \A m \in 1..n : d[m] > 0 => SumTo(d, n) > 0
    BY <2>1, <2>2
  <2> QED
    BY <2>1, <2>3
<1> HIDE DEF P
<1>4. \A n \in 0..N : n \in P
  BY <1>2, <1>3, UpTo
<1>5. N \in P
  BY <1>4
<1> QED
  BY <1>5 DEF P

\* A sum of zeros is zero.
LEMMA SumZero ==
  ASSUME NEW N \in Nat, NEW d \in [1..N -> Int], \A n \in 1..N : d[n] = 0
  PROVE  SumTo(d, N) = 0
<1> DEFINE P == {n \in 0..N : SumTo(d, n) = 0}
<1>1. /\ SumTo(d, 0) = 0 /\ \A n \in 1..N : SumTo(d, n) = SumTo(d, n - 1) + d[n]
  BY SumRec
<1>2. 0 \in P /\ \A n \in 1..N : n - 1 \in P => n \in P
  BY <1>1
<1> HIDE DEF P
<1>3. \A n \in 0..N : n \in P
  BY <1>2, UpTo
<1> QED
  BY <1>3 DEF P

\* Lists that begin alike have the same sum up to there.
LEMMA SumSame ==
  ASSUME NEW N \in Nat, NEW M \in Nat, N <= M, NEW d \in [1..N -> Int], NEW e \in [1..M -> Int],
         \A n \in 1..N : d[n] = e[n]
  PROVE  SumTo(d, N) = SumTo(e, N)
<1> DEFINE P == {n \in 0..N : SumTo(d, n) = SumTo(e, n)}
<1>1. /\ SumTo(d, 0) = 0 /\ \A n \in 1..N : SumTo(d, n) = SumTo(d, n - 1) + d[n]
  BY SumRec
<1>2. /\ SumTo(e, 0) = 0 /\ \A n \in 1..M : SumTo(e, n) = SumTo(e, n - 1) + e[n]
  BY SumRec
<1>3. \A n \in 1..N : n \in 1..M
  OBVIOUS
<1>4. 0 \in P /\ \A n \in 1..N : n - 1 \in P => n \in P
  BY <1>1, <1>2, <1>3
<1> HIDE DEF P
<1>5. \A n \in 0..N : n \in P
  BY <1>4, UpTo
<1> QED
  BY <1>5 DEF P

\* x and y are the same int.
SameInt(x, y) == \E k \in Int : x - y = k * (2 * (MaxInt + 1))

\* Wrapping changes a number into one that is the same int.
LEMMA WrapSame == ASSUME NEW x \in Int, NEW y \in Int, SameInt(x, y)
                  PROVE  Wrap(x) \in Int /\ SameInt(Wrap(x), y)
<1> DEFINE M == 2 * (MaxInt + 1)
<1>0. M \in Int
  BY CrabAssumption
<1>1. PICK k \in Int : x - y = k * M
  BY DEF SameInt
<1>2. Wrap(x) = x \/ Wrap(x) = x - M \/ Wrap(x) = x + M
  BY CrabAssumption DEF Wrap
<1> HIDE DEF M
<1>3. (k - 1) * M = k * M - M /\ (k + 1) * M = k * M + M
  BY <1>0
<1>4. Wrap(x) \in Int
  BY <1>0, <1>2
<1>5. \/ Wrap(x) - y = k * M \/ Wrap(x) - y = (k - 1) * M \/ Wrap(x) - y = (k + 1) * M
  BY <1>0, <1>1, <1>2, <1>3
<1>6. \E j \in Int : Wrap(x) - y = j * M
  BY <1>5
<1> QED
  BY <1>4, <1>6 DEF SameInt, M

\* Adding the same number to both sides.
LEMMA SameIntAdd ==
  ASSUME NEW x \in Int, NEW y \in Int, NEW z \in Int, NEW w \in Int, SameInt(x, y), SameInt(z, w)
  PROVE  SameInt(x + z, y + w)
<1> DEFINE M == 2 * (MaxInt + 1)
<1>0. M \in Int
  BY CrabAssumption
<1>1. PICK k \in Int : x - y = k * M
  BY DEF SameInt
<1>2. PICK j \in Int : z - w = j * M
  BY DEF SameInt
<1> HIDE DEF M
<1>3. (k + j) * M = k * M + j * M
  BY <1>0
<1>4. (x + z) - (y + w) = (k + j) * M
  BY <1>0, <1>1, <1>2, <1>3
<1> QED
  BY <1>4 DEF SameInt, M

\* A number is the same int as itself.
LEMMA SameIntSelf == ASSUME NEW x \in Int PROVE SameInt(x, x)
<1> DEFINE M == 2 * (MaxInt + 1)
<1>0. M \in Int
  BY CrabAssumption
<1> HIDE DEF M
<1>1. x - x = 0 * M
  BY <1>0
<1> QED
  BY <1>1 DEF SameInt, M

\* Two numbers that are the same int as a third are the same int.
LEMMA SameIntBoth ==
  ASSUME NEW x \in Int, NEW y \in Int, NEW z \in Int, SameInt(x, z), SameInt(y, z)
  PROVE  SameInt(x, y)
<1> DEFINE M == 2 * (MaxInt + 1)
<1>0. M \in Int
  BY CrabAssumption
<1>1. PICK k \in Int : x - z = k * M
  BY DEF SameInt
<1>2. PICK j \in Int : y - z = j * M
  BY DEF SameInt
<1> HIDE DEF M
<1>3. (k - j) * M = k * M - j * M
  BY <1>0
<1>4. x - y = (k - j) * M
  BY <1>0, <1>1, <1>2, <1>3
<1> QED
  BY <1>4 DEF SameInt, M

\* The int sum is the sum, as an int.
LEMMA IntSumSame ==
  ASSUME NEW N \in Nat, NEW d \in [1..N -> Int]
  PROVE  /\ IntSumTo(d, N) \in Int /\ SumTo(d, N) \in Int
         /\ SameInt(IntSumTo(d, N), SumTo(d, N))
<1> DEFINE P == {n \in 0..N : SameInt(IntSumTo(d, n), SumTo(d, n))}
<1>0. \A x \in Int : SameInt(x, x)
  BY SameIntSelf
<1>1. /\ SumTo(d, 0) = 0 /\ \A n \in 0..N : SumTo(d, n) \in Int
      /\ \A n \in 1..N : SumTo(d, n) = SumTo(d, n - 1) + d[n]
  BY SumRec
<1>2. /\ IntSumTo(d, 0) = 0 /\ \A n \in 0..N : IntSumTo(d, n) \in Int
      /\ \A n \in 1..N : IntSumTo(d, n) = Wrap(IntSumTo(d, n - 1) + d[n])
  BY IntSumRec
<1>3. 0 \in P
  BY <1>0, <1>1, <1>2
<1>4. ASSUME NEW n \in 1..N, n - 1 \in P PROVE n \in P
  <2>1. /\ n \in 0..N /\ n - 1 \in 0..N /\ d[n] \in Int
        /\ SameInt(IntSumTo(d, n - 1), SumTo(d, n - 1))
        /\ SumTo(d, n - 1) \in Int /\ IntSumTo(d, n - 1) \in Int
    BY <1>1, <1>2, <1>4
  <2>2. SameInt(IntSumTo(d, n - 1) + d[n], SumTo(d, n - 1) + d[n])
    BY <1>0, <2>1, SameIntAdd
  <2>3. SameInt(Wrap(IntSumTo(d, n - 1) + d[n]), SumTo(d, n - 1) + d[n])
    BY <2>1, <2>2, WrapSame
  <2> QED
    BY <1>1, <1>2, <2>1, <2>3
<1> HIDE DEF P
<1>5. \A n \in 0..N : n \in P
  BY <1>3, <1>4, UpTo
<1>6. N \in P /\ N \in 0..N
  BY <1>5
<1> QED
  BY <1>1, <1>2, <1>6 DEF P

\* Numbers that are the same int differ by a multiple of the number of ints.
LEMMA SameIntModulo ==
  ASSUME NEW x \in Int, NEW y \in Int, SameInt(x, y)
  PROVE  (x - y) % (2 * (MaxInt + 1)) = 0
<1> DEFINE M == 2 * (MaxInt + 1)
<1>0. M \in Nat /\ M > 0
  BY CrabAssumption
<1>1. PICK k \in Int : x - y = k * M
  BY DEF SameInt
<1> HIDE DEF M
<1>2. (k * M) % M = 0
  BY <1>0
<1> QED
  BY <1>1, <1>2 DEF M
-----------------------------------------------------------------------------
\* The elements of a sequence.
LEMMA Elements ==
  ASSUME NEW S, NEW s \in Seq(S)
  PROVE  Len(s) \in Nat /\ DOMAIN s = 1..Len(s) /\ \A n \in 1..Len(s) : s[n] \in S
  OBVIOUS

\* The orders that may be recorded, and the lines of a basket.
Record == [day : Days, basket : Baskets]
Line == [item : STRING, qty : Ints]

\* The lines of a basket, and what they add up to.
LEMMA BasketSums ==
  ASSUME NEW b \in Baskets, NEW i
  PROVE  /\ Want(b, i) \in Int /\ Quantity(b, i) \in Int
         /\ SameInt(Want(b, i), Quantity(b, i))
         /\ (\A n \in DOMAIN b : b[n].qty > 0) =>
              Quantity(b, i) \in Nat /\ (i \in Wanted(b) => Quantity(b, i) > 0)
         /\ i \notin Wanted(b) => Quantity(b, i) = 0
<1> DEFINE d == LinesOf(b, i)
<1>1. PICK N \in Nat : /\ Len(b) = N /\ DOMAIN b = 1..N
                       /\ \A n \in 1..N : b[n].qty \in Int
  <2>1. b \in Seq(Line)
    BY CrabAssumption DEF Line
  <2>2. \A n \in 1..Len(b) : b[n] \in Line
    BY <2>1, Elements, Zenon
  <2>3. \A n \in 1..Len(b) : b[n].qty \in Int
    BY <2>2, CrabAssumption DEF Ints, Line
  <2>4. Len(b) \in Nat /\ DOMAIN b = 1..Len(b)
    BY <2>1
  <2> QED
    BY <2>3, <2>4, Zenon
<1>2. d = [n \in 1..N |-> IF b[n].item = i THEN b[n].qty ELSE 0]
  BY <1>1, Zenon DEF LinesOf
<1>3. Want(b, i) = IntSumTo(d, N) /\ Quantity(b, i) = SumTo(d, N)
  BY <1>1, Zenon DEF Want, Quantity
<1>4. i \in Wanted(b) <=> \E n \in 1..N : b[n].item = i
  BY <1>1, Zenon DEF Wanted
<1> HIDE DEF d
<1>5. d \in [1..N -> Int] /\ \A n \in 1..N : d[n] = IF b[n].item = i THEN b[n].qty ELSE 0
  BY <1>1, <1>2
<1>6. ASSUME \A n \in DOMAIN b : b[n].qty > 0
      PROVE  SumTo(d, N) \in Nat /\ (i \in Wanted(b) => SumTo(d, N) > 0)
  <2>1. d \in [1..N -> Nat]
    BY <1>1, <1>5, <1>6
  <2>2. i \in Wanted(b) => \E m \in 1..N : d[m] > 0
    BY <1>1, <1>4, <1>5, <1>6
  <2> QED
    BY <2>1, <2>2, SumNat
<1>7. i \notin Wanted(b) => SumTo(d, N) = 0
  BY <1>4, <1>5, SumZero
<1> QED
  BY <1>3, <1>5, <1>6, <1>7, IntSumSame

\* The orders are well formed, and none belongs to a day after the last restock.
OrdersOK ==
  /\ day \in Days /\ lastRestockDay \in Days
  /\ orders \in Seq(Record)
  /\ \A n \in DOMAIN orders : orders[n].day <= lastRestockDay

\* An order adds its own quantities to those of its day, and changes no other day.
LEMMA OrderedAfter ==
  ASSUME OrdersOK, NEW b \in Baskets, PlaceOrder(b), NEW i, NEW d
  PROVE  /\ Ordered(i, d) \in Int
         /\ Ordered(i, d)' = Ordered(i, d) + IF RestockDay = d THEN Quantity(b, i) ELSE 0
<1> DEFINE t == TakenBy(i, d)
           u == TakenBy(i, d)'
<1>1. PICK N \in Nat : /\ Len(orders) = N /\ Len(orders') = N + 1
                       /\ \A n \in 1..N : orders'[n] = orders[n] /\ orders[n].basket \in Baskets
                       /\ orders'[N + 1] = [day |-> RestockDay, basket |-> b]
  <2>1. orders \in Seq(Record)
    BY DEF OrdersOK
  <2>2. orders' = Append(orders, [day |-> RestockDay, basket |-> b])
    BY DEF PlaceOrder
  <2>3. Len(orders) \in Nat /\ Len(orders') = Len(orders) + 1
    BY <2>1, <2>2
  <2>4. \A n \in 1..Len(orders) : orders'[n] = orders[n] /\ orders[n].basket \in Baskets
    <3> TAKE n \in 1..Len(orders)
    <3>1. orders[n] \in Record
      BY <2>1, Elements, Zenon
    <3>2. orders[n].basket \in Baskets
      BY <3>1 DEF Record
    <3> QED
      BY <2>1, <2>2, <3>2
  <2>5. orders'[Len(orders) + 1] = [day |-> RestockDay, basket |-> b]
    BY <2>1, <2>2
  <2> QED
    BY <2>3, <2>4, <2>5, Zenon
<1>2. /\ t = [n \in 1..N |-> IF orders[n].day = d THEN Quantity(orders[n].basket, i) ELSE 0]
      /\ u = [n \in 1..(N + 1) |-> IF orders'[n].day = d THEN Quantity(orders'[n].basket, i)
                                   ELSE 0]
      /\ Ordered(i, d) = SumTo(t, N) /\ Ordered(i, d)' = SumTo(u, N + 1)
  BY <1>1, Zenon DEF TakenBy, Ordered
<1> HIDE DEF t, u
<1>3. t \in [1..N -> Int]
  BY <1>1, <1>2, BasketSums
<1>4. \A n \in 1..N : n \in 1..(N + 1) /\ t[n] = u[n]
  BY <1>1, <1>2
<1>5. u[N + 1] = IF RestockDay = d THEN Quantity(b, i) ELSE 0
  BY <1>1, <1>2
<1>6. u \in [1..(N + 1) -> Int]
  <2>1. u = [n \in 1..(N + 1) |-> u[n]]
    BY <1>2
  <2>2. \A n \in 1..(N + 1) : n \in 1..N \/ n = N + 1
    OBVIOUS
  <2>3. \A n \in 1..(N + 1) : u[n] \in Int
    BY <1>3, <1>4, <1>5, <2>2, BasketSums
  <2> QED
    BY <2>1, <2>3
<1>7. N + 1 \in Nat /\ N <= N + 1 /\ N + 1 \in 1..(N + 1) /\ N + 1 - 1 = N /\ N \in 0..N
  OBVIOUS
<1>8. SumTo(u, N + 1) = SumTo(u, N) + u[N + 1]
  <2>1. \A n \in 1..(N + 1) : SumTo(u, n) = SumTo(u, n - 1) + u[n]
    BY <1>6, <1>7, SumRec, Zenon
  <2> QED
    BY <1>7, <2>1
<1>9. SumTo(t, N) = SumTo(u, N) /\ SumTo(t, N) \in Int
  <2>1. SumTo(t, N) = SumTo(u, N)
    BY <1>3, <1>4, <1>6, <1>7, SumSame
  <2>2. SumTo(t, N) \in Int
    BY <1>3, <1>7, SumRec
  <2> QED
    BY <2>1, <2>2
<1> QED
  BY <1>2, <1>5, <1>8, <1>9

\* What the orders of a day took is a number.
LEMMA OrderedInt ==
  ASSUME OrdersOK, NEW i, NEW d
  PROVE  Ordered(i, d) \in Int
<1> DEFINE t == TakenBy(i, d)
<1>1. PICK N \in Nat : Len(orders) = N /\ \A n \in 1..N : orders[n].basket \in Baskets
  <2>1. orders \in Seq(Record)
    BY DEF OrdersOK
  <2>2. Len(orders) \in Nat
    BY <2>1
  <2>3. \A n \in 1..Len(orders) : orders[n] \in Record
    BY <2>1, Elements, Zenon
  <2>4. \A n \in 1..Len(orders) : orders[n].basket \in Baskets
    BY <2>3 DEF Record
  <2> QED
    BY <2>2, <2>4, Zenon
<1>2. /\ t = [n \in 1..N |-> IF orders[n].day = d THEN Quantity(orders[n].basket, i) ELSE 0]
      /\ Ordered(i, d) = SumTo(t, N)
  BY <1>1, Zenon DEF TakenBy, Ordered
<1> HIDE DEF t
<1>3. t \in [1..N -> Int]
  BY <1>1, <1>2, BasketSums
<1>4. N \in 0..N
  OBVIOUS
<1> QED
  BY <1>2, <1>3, <1>4, SumRec

\* Nothing was ordered on a day that has not come yet.
LEMMA OrderedLater ==
  ASSUME OrdersOK, NEW i, NEW d \in Int, d > lastRestockDay
  PROVE  Ordered(i, d) = 0
<1> DEFINE t == TakenBy(i, d)
<1>1. PICK N \in Nat : Len(orders) = N /\ \A n \in 1..N : orders[n].day # d
  <2>1. orders \in Seq(Record)
    BY DEF OrdersOK
  <2>2. Len(orders) \in Nat /\ DOMAIN orders = 1..Len(orders)
    BY <2>1
  <2>3. ASSUME NEW n \in 1..Len(orders) PROVE orders[n].day # d
    <3>1. orders[n] \in Record
      BY <2>1, <2>3, Elements, Zenon
    <3>2. orders[n].day \in Int /\ lastRestockDay \in Int /\ orders[n].day <= lastRestockDay
      BY <2>2, <2>3, <3>1, CrabAssumption DEF OrdersOK, Record
    <3> QED
      BY <3>2
  <2> QED
    BY <2>2, <2>3, Zenon
<1>2. /\ t = [n \in 1..N |-> IF orders[n].day = d THEN Quantity(orders[n].basket, i) ELSE 0]
      /\ Ordered(i, d) = SumTo(t, N)
  BY <1>1, Zenon DEF TakenBy, Ordered
<1> HIDE DEF t
<1>3. t \in [1..N -> Int] /\ \A n \in 1..N : t[n] = 0
  BY <1>1, <1>2
<1> QED
  BY <1>2, <1>3, SumZero
-----------------------------------------------------------------------------
\* Sold counts what was handed out of a limited item, within its stock.
StockInv ==
  /\ served \in [Items -> Int]
  /\ \A i \in Limited : /\ served[i] \in 0..DailyStock[i]
                        /\ sold[i] = served[i]

\* Sold is, as an int, what the orders of the restock day took.
SoldInv ==
  /\ sold \in [Items -> Int]
  /\ \A i \in Items, d \in Days : d = lastRestockDay => SameInt(Ordered(i, d), sold[i])

\* The events belong to orders, and an item announced on the restock day has none left.
AnnouncedInv ==
  \A e \in inFlight \cup heard :
    /\ e[2] \in DOMAIN orders
    /\ NoOverflow /\ e[1] \in Items =>
         /\ e[1] \in Limited
         /\ orders[e[2]].day = lastRestockDay => sold[e[1]] = DailyStock[e[1]]

\* The inductive invariant: once a wrapped basket was accepted, only the first parts stay.
CrabInv ==
  /\ OrdersOK /\ SoldInv /\ AnnouncedInv
  /\ NoOverflow => StockInv
  /\ SoldOutOncePerDay

\* The stock of a limited item is an int that is not negative.
LEMMA LimitedStock == ASSUME NEW i \in Limited PROVE DailyStock[i] \in 0..MaxInt
  BY CrabAssumption DEF Limited

\* The restock a request starts with.
LEMMA RestockKeeps ==
  ASSUME StockInv
  PROVE  /\ ServedNow \in [Items -> Int]
         /\ \A i \in Limited : /\ ServedNow[i] \in 0..DailyStock[i]
                               /\ SoldNow[i] = ServedNow[i]
  BY LimitedStock, CrabAssumption DEF StockInv, SoldNow, ServedNow, Limited

\* The restock on a new day starts from nothing sold, which is what its orders took.
LEMMA RestockMatches ==
  ASSUME OrdersOK, SoldInv
  PROVE  /\ RestockDay \in Days /\ RestockDay \in Int /\ lastRestockDay \in Int
         /\ lastRestockDay <= RestockDay
         /\ SoldNow \in [Items -> Int]
         /\ \A i \in Items, d \in Days : d = RestockDay => SameInt(Ordered(i, d), SoldNow[i])
<1>1. /\ RestockDay \in Days /\ RestockDay \in Int /\ lastRestockDay \in Int
      /\ lastRestockDay <= RestockDay
  BY CrabAssumption DEF OrdersOK, RestockDay, NewDay
<1>2. SoldNow \in [Items -> Int]
  BY DEF SoldInv, SoldNow
<1>3. ASSUME NEW i \in Items, NEW d \in Days, d = RestockDay
      PROVE  SameInt(Ordered(i, d), SoldNow[i])
  <2>1. CASE NewDay
    <3>1. d \in Int /\ d > lastRestockDay
      BY <1>1, <1>3, <2>1, CrabAssumption DEF RestockDay, NewDay, OrdersOK
    <3>2. Ordered(i, d) = 0
      BY <3>1, OrderedLater
    <3>3. SoldNow[i] = 0
      BY <2>1 DEF SoldNow
    <3>4. 0 - 0 = 0 * (2 * (MaxInt + 1))
      BY CrabAssumption
    <3> QED
      BY <3>2, <3>3, <3>4 DEF SameInt
  <2>2. CASE ~ NewDay
    BY <1>3, <2>2 DEF RestockDay, SoldNow, SoldInv
  <2> QED
    BY <2>1, <2>2
<1> QED
  BY <1>1, <1>2, <1>3

\* An order that is in stock keeps Sold and what was handed out equal and within the stock.
LEMMA OrderKeeps ==
  ASSUME StockInv, SoldNow \in [Items -> Int], NEW b \in Baskets, PlaceOrder(b),
         \A i \in Items : Want(b, i) = Quantity(b, i)
  PROVE  StockInv'
<1>0. Valid(b) /\ InStock(b)
  BY DEF PlaceOrder
<1>1. served' \in [Items -> Int]
  BY RestockKeeps, BasketSums DEF PlaceOrder
<1>2. ASSUME NEW i \in Limited
      PROVE  served'[i] \in 0..DailyStock[i] /\ sold'[i] = served'[i]
  <2>0. i \in Items /\ DailyStock[i] \in 0..MaxInt /\ DailyStock[i] # Unlimited
    BY LimitedStock DEF Limited
  <2>1. ServedNow[i] \in 0..DailyStock[i] /\ SoldNow[i] = ServedNow[i]
    BY RestockKeeps
  <2>2. Quantity(b, i) \in Nat /\ Want(b, i) = Quantity(b, i)
    BY <1>0, <2>0, BasketSums DEF Valid
  <2>3. served'[i] = ServedNow[i] + Quantity(b, i)
    BY <2>0 DEF PlaceOrder
  <2>4. CASE i \in Wanted(b)
    <3>1. RemainingOf(i, SoldNow[i]) >= Want(b, i)
      BY <1>0, <2>0, <2>4 DEF InStock
    <3>2. RemainingOf(i, SoldNow[i]) = DailyStock[i] - SoldNow[i]
      BY <2>0, <2>1, CrabAssumption DEF RemainingOf, Wrap
    <3>3. sold'[i] = Wrap(SoldNow[i] + Want(b, i))
      BY <2>0, <2>4 DEF PlaceOrder, SoldAfter
    <3> QED
      BY <3>1, <3>2, <3>3, <2>0, <2>1, <2>2, <2>3, CrabAssumption DEF Wrap
  <2>5. CASE i \notin Wanted(b)
    <3>1. Quantity(b, i) = 0
      BY <2>0, <2>5, BasketSums
    <3>2. sold'[i] = SoldNow[i]
      BY <2>0, <2>5 DEF PlaceOrder, SoldAfter
    <3> QED
      BY <3>1, <3>2, <2>1, <2>3, <2>0
  <2> QED
    BY <2>4, <2>5
<1> QED
  BY <1>1, <1>2 DEF StockInv, Limited

\* What PlaceOrder appends.
LEMMA OrderAppended ==
  ASSUME OrdersOK, NEW b \in Baskets, PlaceOrder(b)
  PROVE  /\ Len(orders) \in Nat /\ DOMAIN orders = 1..Len(orders)
         /\ DOMAIN orders' = 1..(Len(orders) + 1)
         /\ \A n \in 1..Len(orders) : orders'[n] = orders[n] /\ orders[n].day \in Days
         /\ orders'[Len(orders) + 1].basket = b /\ orders'[Len(orders) + 1].day = RestockDay
<1>1. orders \in Seq(Record)
  BY DEF OrdersOK
<1>2. orders' = Append(orders, [day |-> RestockDay, basket |-> b])
  BY DEF PlaceOrder
<1>3. \A n \in 1..Len(orders) : orders[n] \in Record
  BY <1>1, Elements, Zenon
<1>4. \A n \in 1..Len(orders) : orders[n].day \in Days
  BY <1>3 DEF Record
<1> QED
  BY <1>1, <1>2, <1>4

\* An order accepted without overflow follows orders without overflow.
LEMMA OverflowStays ==
  ASSUME OrdersOK, NEW b \in Baskets, PlaceOrder(b), NoOverflow'
  PROVE  NoOverflow /\ \A i \in Items : Want(b, i) = Quantity(b, i)
<1>1. \A n \in DOMAIN orders', i \in Items :
        Want(orders'[n].basket, i) = Quantity(orders'[n].basket, i)
  BY DEF NoOverflow
<1>2. \A i \in Items : Want(b, i) = Quantity(b, i)
  BY <1>1, OrderAppended
<1>3. NoOverflow
  BY <1>1, OrderAppended DEF NoOverflow
<1> QED
  BY <1>2, <1>3

\* The order appended belongs to the day of the restock.
LEMMA OrdersStep ==
  ASSUME OrdersOK, NEW b \in Baskets, PlaceOrder(b)
  PROVE  OrdersOK'
<1>0. /\ RestockDay \in Days /\ RestockDay \in Int /\ lastRestockDay \in Int
      /\ lastRestockDay <= RestockDay
  BY CrabAssumption DEF OrdersOK, RestockDay, NewDay
<1>1. day' \in Days /\ lastRestockDay' \in Days /\ lastRestockDay' = RestockDay
  BY <1>0 DEF PlaceOrder, OrdersOK
<1>2. orders' \in Seq(Record)
  <2>1. [day |-> RestockDay, basket |-> b] \in Record
    BY <1>0 DEF Record
  <2>2. orders' = Append(orders, [day |-> RestockDay, basket |-> b]) /\ orders \in Seq(Record)
    BY DEF PlaceOrder, OrdersOK
  <2> QED
    BY <2>1, <2>2
<1>3. ASSUME NEW n \in DOMAIN orders' PROVE orders'[n].day <= RestockDay
  <2>1. n \in 1..Len(orders) \/ n = Len(orders) + 1
    BY OrderAppended
  <2>2. CASE n \in 1..Len(orders)
    <3>1. orders'[n] = orders[n] /\ n \in DOMAIN orders /\ orders[n].day \in Days
      BY <2>2, OrderAppended
    <3>2. orders[n].day <= lastRestockDay
      BY <3>1 DEF OrdersOK
    <3>3. orders[n].day \in Int
      BY <3>1, CrabAssumption
    <3> QED
      BY <1>0, <3>1, <3>2, <3>3
  <2>3. CASE n = Len(orders) + 1
    <3>1. orders'[n].day = RestockDay
      BY <2>3, OrderAppended
    <3> QED
      BY <1>0, <3>1
  <2> QED
    BY <2>1, <2>2, <2>3
<1> QED
  BY <1>1, <1>2, <1>3 DEF OrdersOK

\* What an order adds to Sold is what it adds to the orders of its day.
LEMMA SoldStep ==
  ASSUME OrdersOK, SoldInv, NEW b \in Baskets, PlaceOrder(b)
  PROVE  SoldInv'
<1>0. /\ SoldNow \in [Items -> Int]
      /\ \A i \in Items, d \in Days : d = RestockDay => SameInt(Ordered(i, d), SoldNow[i])
  BY RestockMatches
<1>1. \A i \in Items : sold'[i] = IF i \in Wanted(b) THEN Wrap(SoldNow[i] + Want(b, i))
                                  ELSE SoldNow[i]
  BY DEF PlaceOrder, SoldAfter
<1>2. ASSUME NEW i \in Items
      PROVE  /\ sold'[i] \in Int
             /\ \A d \in Days : d = RestockDay => SameInt(Ordered(i, d)', sold'[i])
  <2>1. /\ Want(b, i) \in Int /\ Quantity(b, i) \in Int /\ SameInt(Want(b, i), Quantity(b, i))
        /\ i \notin Wanted(b) => Quantity(b, i) = 0
    BY BasketSums
  <2>2. SoldNow[i] \in Int
    BY <1>0
  <2>3. sold'[i] \in Int /\ SameInt(sold'[i], SoldNow[i] + Quantity(b, i))
    <3>1. SameInt(SoldNow[i], SoldNow[i])
      BY <2>2, SameIntSelf
    <3>2. CASE i \in Wanted(b)
      <4>1. SameInt(SoldNow[i] + Want(b, i), SoldNow[i] + Quantity(b, i))
        BY <2>1, <2>2, <3>1, SameIntAdd
      <4>2. /\ Wrap(SoldNow[i] + Want(b, i)) \in Int
            /\ SameInt(Wrap(SoldNow[i] + Want(b, i)), SoldNow[i] + Quantity(b, i))
        BY <2>1, <2>2, <4>1, WrapSame
      <4> QED
        BY <1>1, <3>2, <4>2
    <3>3. CASE i \notin Wanted(b)
      BY <1>1, <2>1, <2>2, <3>1, <3>3
    <3> QED
      BY <3>2, <3>3
  <2>4. ASSUME NEW d \in Days, d = RestockDay PROVE SameInt(Ordered(i, d)', sold'[i])
    <3>1. /\ Ordered(i, d) \in Int
          /\ Ordered(i, d)' = Ordered(i, d) + Quantity(b, i)
      BY <2>4, OrderedAfter
    <3>2. SameInt(Ordered(i, d), SoldNow[i])
      BY <1>0, <2>4
    <3>3. SameInt(Quantity(b, i), Quantity(b, i))
      BY <2>1, SameIntSelf
    <3>4. SameInt(Ordered(i, d) + Quantity(b, i), SoldNow[i] + Quantity(b, i))
      BY <2>1, <2>2, <3>1, <3>2, <3>3, SameIntAdd
    <3> QED
      BY <2>1, <2>2, <2>3, <3>1, <3>4, SameIntBoth
  <2> QED
    BY <2>3, <2>4
<1>3. sold' \in [Items -> Int]
  <2>1. sold' = [i \in Items |-> sold'[i]]
    BY DEF PlaceOrder, SoldAfter
  <2> QED
    BY <1>2, <2>1
<1>4. lastRestockDay' = RestockDay
  BY DEF PlaceOrder
<1> QED
  BY <1>2, <1>3, <1>4 DEF SoldInv
-----------------------------------------------------------------------------
\* A request that restocks and changes no order keeps the invariant.
LEMMA RestockStep ==
  ASSUME CrabInv, sold' = SoldNow, served' = ServedNow, lastRestockDay' = RestockDay,
         UNCHANGED <<day, orders, inFlight, heard>>
  PROVE  CrabInv'
<1> USE DEF CrabInv
<1>1. /\ RestockDay \in Days /\ RestockDay \in Int /\ lastRestockDay \in Int
      /\ lastRestockDay <= RestockDay
      /\ SoldNow \in [Items -> Int]
      /\ \A i \in Items, d \in Days : d = RestockDay => SameInt(Ordered(i, d), SoldNow[i])
  BY RestockMatches
<1>2. \A n \in DOMAIN orders : orders[n].day \in Int /\ orders[n].day <= lastRestockDay
  <2>1. orders \in Seq(Record)
    BY DEF OrdersOK
  <2>2. \A n \in DOMAIN orders : orders[n] \in Record
    BY <2>1, Elements, Zenon
  <2>3. \A n \in DOMAIN orders : orders[n].day \in Int
    BY <2>2, CrabAssumption DEF Record
  <2> QED
    BY <2>3 DEF OrdersOK
<1>3. OrdersOK'
  <2>1. day' \in Days /\ lastRestockDay' \in Days /\ orders' \in Seq(Record)
    BY <1>1 DEF OrdersOK
  <2>2. ASSUME NEW n \in DOMAIN orders PROVE orders[n].day <= RestockDay
    BY <1>1, <1>2
  <2> QED
    BY <2>1, <2>2 DEF OrdersOK
<1>4. SoldInv'
  <2>1. \A i, d : Ordered(i, d)' = Ordered(i, d)
    BY Zenon DEF Ordered, TakenBy
  <2> QED
    BY <1>1, <2>1 DEF SoldInv
<1>5. AnnouncedInv'
  <2>1. NoOverflow' <=> NoOverflow
    BY DEF NoOverflow
  <2>2. ASSUME NEW e \in inFlight \cup heard, NoOverflow, e[1] \in Items,
               orders[e[2]].day = RestockDay
        PROVE  SoldNow[e[1]] = DailyStock[e[1]]
    <3>1. /\ e[2] \in DOMAIN orders
          /\ orders[e[2]].day = lastRestockDay => sold[e[1]] = DailyStock[e[1]]
      BY <2>2 DEF AnnouncedInv
    <3>2. lastRestockDay = RestockDay
      BY <1>1, <1>2, <2>2, <3>1
    <3>3. ~ NewDay
      BY <1>1, <3>2 DEF NewDay, RestockDay
    <3> QED
      BY <2>2, <3>1, <3>2, <3>3 DEF SoldNow
  <2> QED
    BY <2>1, <2>2 DEF AnnouncedInv
<1>6. NoOverflow' => StockInv'
  <2>1. NoOverflow' <=> NoOverflow
    BY DEF NoOverflow
  <2>2. StockInv => StockInv'
    BY RestockKeeps DEF StockInv, Limited
  <2> QED
    BY <2>1, <2>2
<1>7. SoldOutOncePerDay'
  BY DEF SoldOutOncePerDay, NoOverflow
<1> QED
  BY <1>3, <1>4, <1>5, <1>6, <1>7

\* No order of the same day takes an item that is already announced.
LEMMA SoldOutStays ==
  ASSUME CrabInv, NoOverflow, NEW b \in Baskets, PlaceOrder(b),
         \A i \in Items : Want(b, i) = Quantity(b, i),
         NEW e \in inFlight \cup heard, e[1] \in Items, orders[e[2]].day = RestockDay
  PROVE  /\ e[1] \in Limited /\ e[1] \notin Wanted(b)
         /\ SoldNow[e[1]] = DailyStock[e[1]]
<1> USE DEF CrabInv
<1>1. /\ e[2] \in DOMAIN orders /\ e[1] \in Limited
      /\ orders[e[2]].day = lastRestockDay => sold[e[1]] = DailyStock[e[1]]
  BY DEF AnnouncedInv
<1>2. lastRestockDay = RestockDay
  <2>1. RestockDay \in Int /\ lastRestockDay \in Int /\ lastRestockDay <= RestockDay
    BY RestockMatches
  <2>2. orders[e[2]].day <= lastRestockDay
    BY <1>1 DEF OrdersOK
  <2> QED
    BY <2>1, <2>2
<1>3. ~ NewDay
  BY <1>2, RestockMatches DEF NewDay, RestockDay
<1>4. SoldNow[e[1]] = DailyStock[e[1]]
  BY <1>1, <1>2, <1>3 DEF SoldNow
<1>5. ASSUME e[1] \in Wanted(b) PROVE FALSE
  <2>1. Valid(b) /\ InStock(b)
    BY DEF PlaceOrder
  <2>2. DailyStock[e[1]] \in 0..MaxInt /\ DailyStock[e[1]] # Unlimited
    BY <1>1, LimitedStock DEF Limited
  <2>3. RemainingOf(e[1], SoldNow[e[1]]) >= Want(b, e[1])
    BY <1>5, <2>1, <2>2 DEF InStock
  <2>4. RemainingOf(e[1], SoldNow[e[1]]) = 0
    BY <1>4, <2>2, CrabAssumption DEF RemainingOf, Wrap
  <2>5. Quantity(b, e[1]) \in Nat /\ Quantity(b, e[1]) > 0
    BY <1>5, <2>1, BasketSums DEF Valid
  <2>6. Want(b, e[1]) = Quantity(b, e[1])
    OBVIOUS
  <2> QED
    BY <2>3, <2>4, <2>5, <2>6
<1> QED
  BY <1>1, <1>4, <1>5

\* The events an order sends, and those that were there.
LEMMA EventsAfter ==
  ASSUME NEW b \in Baskets, PlaceOrder(b), NEW e \in (inFlight \cup heard)'
  PROVE  \/ e \in inFlight \cup heard
         \/ /\ e = <<e[1], Len(orders) + 1>> /\ e[2] = Len(orders) + 1
            /\ e[1] \in Items => e[1] \in Emptied(b)
<1>1. \/ e \in inFlight \cup heard
      \/ \E kind \in {"order_placed"} \cup Emptied(b) : e = <<kind, Len(orders) + 1>>
  BY DEF PlaceOrder, Event
<1>2. ASSUME NEW kind \in {"order_placed"} \cup Emptied(b), e = <<kind, Len(orders) + 1>>
      PROVE  /\ e = <<e[1], Len(orders) + 1>> /\ e[2] = Len(orders) + 1
             /\ e[1] \in Items => e[1] \in Emptied(b)
  <2>1. e[1] = kind /\ e[2] = Len(orders) + 1
    BY <1>2
  <2>2. kind \in Items => kind \in Emptied(b)
    BY CrabAssumption
  <2> QED
    BY <1>2, <2>1, <2>2
<1> QED
  BY <1>1, <1>2

\* An order keeps what the announcements say.
LEMMA AnnouncedStep ==
  ASSUME CrabInv, NEW b \in Baskets, PlaceOrder(b)
  PROVE  AnnouncedInv' /\ SoldOutOncePerDay'
<1> USE DEF CrabInv
<1> DEFINE N == Len(orders) + 1
<1>1. /\ Len(orders) \in Nat /\ DOMAIN orders = 1..Len(orders)
      /\ DOMAIN orders' = 1..(Len(orders) + 1)
      /\ \A n \in 1..Len(orders) : orders'[n] = orders[n]
      /\ orders'[N].day = RestockDay
      /\ N \in DOMAIN orders' /\ \A n \in DOMAIN orders : n \in DOMAIN orders'
  BY OrderAppended
<1>2. lastRestockDay' = RestockDay
  BY DEF PlaceOrder
<1>3. \A e \in inFlight \cup heard : e[2] \in DOMAIN orders /\ orders'[e[2]] = orders[e[2]]
  BY <1>1 DEF AnnouncedInv
<1>4. ASSUME NoOverflow'
      PROVE  /\ NoOverflow /\ \A i \in Items : Want(b, i) = Quantity(b, i)
             /\ StockInv'
  <2>1. NoOverflow /\ \A i \in Items : Want(b, i) = Quantity(b, i)
    BY <1>4, OverflowStays
  <2>2. SoldNow \in [Items -> Int]
    BY RestockMatches
  <2> QED
    BY <2>1, <2>2, OrderKeeps
<1>5. ASSUME NoOverflow', NEW i \in Emptied(b)
      PROVE  i \in Limited /\ i \in Wanted(b) /\ sold'[i] = DailyStock[i]
  <2>1. Valid(b)
    BY DEF PlaceOrder
  <2>2. i \in Items /\ i \in Wanted(b) /\ DailyStock[i] # Unlimited
    BY <2>1 DEF Emptied, Wanted, Valid
  <2>3. i \in Limited /\ DailyStock[i] \in 0..MaxInt
    BY <2>2, LimitedStock DEF Limited
  <2>4. sold'[i] \in 0..DailyStock[i]
    <3>1. StockInv'
      BY <1>4, <1>5
    <3>2. i \in Limited' /\ DailyStock' = DailyStock
      BY <2>3 DEF Limited
    <3> QED
      BY <3>1, <3>2, <2>3 DEF StockInv, Limited
  <2>5. RemainingOf(i, sold'[i]) = 0
    BY DEF Emptied, PlaceOrder
  <2>6. RemainingOf(i, sold'[i]) = DailyStock[i] - sold'[i]
    BY <2>3, <2>4, CrabAssumption DEF RemainingOf, Wrap
  <2> QED
    BY <2>2, <2>3, <2>4, <2>5, <2>6
<1>6. ASSUME NEW e \in (inFlight \cup heard)'
      PROVE  /\ e[2] \in DOMAIN orders'
             /\ NoOverflow' /\ e[1] \in Items =>
                  /\ e[1] \in Limited
                  /\ orders'[e[2]].day = RestockDay => sold'[e[1]] = DailyStock[e[1]]
  <2>1. CASE e \in inFlight \cup heard
    <3>1. e[2] \in DOMAIN orders' /\ orders'[e[2]] = orders[e[2]]
      BY <1>1, <1>3, <2>1
    <3>2. ASSUME NoOverflow', e[1] \in Items PROVE e[1] \in Limited
      BY <1>4, <2>1, <3>2 DEF AnnouncedInv
    <3>3. ASSUME NoOverflow', e[1] \in Items, orders'[e[2]].day = RestockDay
          PROVE  sold'[e[1]] = DailyStock[e[1]]
      <4>1. e[1] \notin Wanted(b) /\ SoldNow[e[1]] = DailyStock[e[1]]
        BY <1>4, <2>1, <3>1, <3>3, SoldOutStays
      <4> QED
        BY <3>3, <4>1 DEF PlaceOrder, SoldAfter
    <3> QED
      BY <3>1, <3>2, <3>3
  <2>2. CASE e[2] = N /\ (e[1] \in Items => e[1] \in Emptied(b))
    BY <1>1, <1>5, <2>2
  <2> QED
    BY <2>1, <2>2, EventsAfter
<1>7. ASSUME NoOverflow', NEW d \in (inFlight \cup heard)', NEW e \in (inFlight \cup heard)',
             d[1] = e[1], d[1] \in Items, orders'[d[2]].day = orders'[e[2]].day
      PROVE  d = e
  <2>1. /\ d \in inFlight \cup heard \/ (d = <<d[1], N>> /\ d[2] = N /\ d[1] \in Emptied(b))
        /\ e \in inFlight \cup heard \/ (e = <<e[1], N>> /\ e[2] = N /\ e[1] \in Emptied(b))
    BY <1>7, EventsAfter
  <2>2. CASE d \in inFlight \cup heard /\ e \in inFlight \cup heard
    <3>1. orders[d[2]].day = orders[e[2]].day
      BY <1>3, <1>7, <2>2
    <3> QED
      BY <1>4, <1>7, <2>2, <3>1 DEF SoldOutOncePerDay
  <2>3. ASSUME NEW o \in inFlight \cup heard, o[1] \in Emptied(b), o[1] \in Items,
               orders'[o[2]].day = RestockDay
        PROVE  FALSE
    <3>1. orders[o[2]].day = RestockDay
      BY <1>3, <2>3
    <3>2. o[1] \notin Wanted(b)
      BY <1>4, <1>7, <2>3, <3>1, SoldOutStays
    <3> QED
      BY <1>5, <1>7, <2>3, <3>2
  <2>4. CASE d \in inFlight \cup heard /\ e[2] = N /\ e[1] \in Emptied(b)
    BY <1>1, <1>7, <2>3, <2>4
  <2>5. CASE e \in inFlight \cup heard /\ d[2] = N /\ d[1] \in Emptied(b)
    BY <1>1, <1>7, <2>3, <2>5
  <2>6. CASE d = <<d[1], N>> /\ e = <<e[1], N>>
    BY <1>7, <2>6
  <2> QED
    BY <2>1, <2>2, <2>4, <2>5, <2>6
<1>8. AnnouncedInv'
  BY <1>2, <1>6 DEF AnnouncedInv, Limited
<1>9. SoldOutOncePerDay'
  BY <1>7 DEF SoldOutOncePerDay
<1> QED
  BY <1>8, <1>9

\* An accepted order keeps the invariant.
LEMMA OrderStep ==
  ASSUME CrabInv, NEW b \in Baskets, PlaceOrder(b)
  PROVE  CrabInv'
<1>1. OrdersOK' /\ SoldInv'
  BY OrdersStep, SoldStep DEF CrabInv
<1>2. AnnouncedInv' /\ SoldOutOncePerDay'
  BY AnnouncedStep
<1>3. ASSUME NoOverflow' PROVE StockInv'
  <2>1. NoOverflow /\ \A i \in Items : Want(b, i) = Quantity(b, i)
    BY <1>3, OverflowStays DEF CrabInv
  <2>2. SoldNow \in [Items -> Int] /\ StockInv
    BY <2>1, RestockMatches DEF CrabInv
  <2> QED
    BY <2>1, <2>2, OrderKeeps
<1> QED
  BY <1>1, <1>2, <1>3 DEF CrabInv

\* A step that leaves orders and stock alone and sends no event keeps the invariant.
LEMMA QuietStep ==
  ASSUME CrabInv, day' \in Days, UNCHANGED <<lastRestockDay, sold, orders, served>>,
         (inFlight \cup heard)' \subseteq inFlight \cup heard
  PROVE  CrabInv'
<1> USE DEF CrabInv
<1>1. OrdersOK'
  BY DEF OrdersOK
<1>2. SoldInv'
  <2>1. \A i, d : Ordered(i, d)' = Ordered(i, d)
    BY Zenon DEF Ordered, TakenBy
  <2> QED
    BY <2>1 DEF SoldInv
<1>3. NoOverflow' <=> NoOverflow
  BY DEF NoOverflow
<1>4. AnnouncedInv' /\ SoldOutOncePerDay'
  BY <1>3 DEF AnnouncedInv, SoldOutOncePerDay
<1>5. NoOverflow' => StockInv'
  BY <1>3 DEF StockInv, Limited
<1> QED
  BY <1>1, <1>2, <1>4, <1>5

\* The invariant holds.
LEMMA CrabHolds == Spec => []CrabInv
<1>1. Init => CrabInv
  <2> SUFFICES ASSUME Init PROVE CrabInv
    OBVIOUS
  <2>1. orders = <<>> /\ DOMAIN orders = {}
    BY DEF Init
  <2>2. OrdersOK
    BY <2>1 DEF OrdersOK, Init
  <2>3. SoldInv
    <3>1. sold \in [Items -> Int] /\ \A i \in Items : sold[i] = 0
      BY DEF Init
    <3>2. \A i : Ordered(i, lastRestockDay) = 0
      <4>0. Len(orders) = 0
        BY <2>1
      <4> TAKE i
      <4> DEFINE t == TakenBy(i, lastRestockDay)
      <4>1. t = [n \in 1..0 |-> IF orders[n].day = lastRestockDay
                                THEN Quantity(orders[n].basket, i) ELSE 0]
            /\ Ordered(i, lastRestockDay) = SumTo(t, 0)
        BY <4>0, Zenon DEF TakenBy, Ordered
      <4> HIDE DEF t
      <4>2. t \in [1..0 -> Int] /\ \A n \in 1..0 : t[n] = 0
        BY <4>1
      <4> QED
        BY <4>1, <4>2, SumZero
    <3>3. SameInt(0, 0)
      BY SameIntSelf
    <3> QED
      BY <3>1, <3>2, <3>3 DEF SoldInv
  <2>4. AnnouncedInv /\ SoldOutOncePerDay
    BY DEF AnnouncedInv, SoldOutOncePerDay, Init
  <2>5. StockInv
    BY LimitedStock, CrabAssumption DEF StockInv, Init, Limited
  <2> QED
    BY <2>2, <2>3, <2>4, <2>5 DEF CrabInv
<1>2. CrabInv /\ [Next]_vars => CrabInv'
  <2> SUFFICES ASSUME CrabInv, [Next]_vars PROVE CrabInv'
    OBVIOUS
  <2>0. day \in Days
    BY DEF CrabInv, OrdersOK
  <2>1. CASE Menu
    BY <2>1, RestockStep DEF Menu
  <2>2. CASE \E b \in Baskets : PlaceOrder(b)
    BY <2>2, OrderStep
  <2>3. CASE \E b \in Baskets : OrderRefused(b)
    BY <2>3, RestockStep DEF OrderRefused
  <2>4. CASE \E e \in inFlight, delivered \in BOOLEAN : PostEvent(e, delivered)
    <3>1. PICK e \in inFlight, delivered \in BOOLEAN : PostEvent(e, delivered)
      BY <2>4
    <3>2. day' \in Days /\ UNCHANGED <<lastRestockDay, sold, orders, served>>
      BY <2>0, <3>1 DEF PostEvent
    <3>3. (inFlight \cup heard)' \subseteq inFlight \cup heard
      BY <3>1 DEF PostEvent
    <3> QED
      BY <3>2, <3>3, QuietStep
  <2>5. CASE \E d \in Days : Clock(d)
    BY <2>5, QuietStep DEF Clock
  <2>6. CASE UNCHANGED vars
    BY <2>0, <2>6, QuietStep DEF vars
  <2> QED
    BY <2>1, <2>2, <2>3, <2>4, <2>5, <2>6 DEF Next
<1> QED
  BY <1>1, <1>2, PTL DEF Spec

\* No limited item is handed out beyond its daily stock before PlaceOrder accepts a basket
\* whose quantities wrap, whatever the clock does between two requests and however often
\* a basket names the item.
THEOREM DailyStockKept == Spec => []WithinDailyStock
<1>1. CrabInv => WithinDailyStock
  BY LimitedStock DEF CrabInv, StockInv, WithinDailyStock
<1> QED
  BY <1>1, CrabHolds, PTL

\* Sold of every item is, as an int, what the orders recorded for the restock day took:
\* restockIfNewDay runs once per day and loses no order of the new day, a refused basket
\* leaves no trace, and wrapped sums wrap alike in both counts.
THEOREM SoldMatches == Spec => []SoldMatchesOrders
<1>1. CrabInv => SoldMatchesOrders
  <2> SUFFICES ASSUME CrabInv, NEW i \in Items
               PROVE  (Ordered(i, lastRestockDay) - sold[i]) % (2 * (MaxInt + 1)) = 0
    BY DEF SoldMatchesOrders
  <2>1. lastRestockDay \in Days /\ sold[i] \in Int
        /\ SameInt(Ordered(i, lastRestockDay), sold[i])
    BY DEF CrabInv, OrdersOK, SoldInv
  <2>2. Ordered(i, lastRestockDay) \in Int
    BY OrderedInt DEF CrabInv
  <2> QED
    BY <2>1, <2>2, SameIntModulo
<1> QED
  BY <1>1, CrabHolds, PTL

\* item_sold_out goes out at most once per item and day before a basket wraps, whether its
\* goroutine has posted it or not.
THEOREM AnnouncedOncePerDay == Spec => []SoldOutOncePerDay
<1>1. CrabInv => SoldOutOncePerDay
  BY DEF CrabInv
<1> QED
  BY <1>1, CrabHolds, PTL
=============================================================================
