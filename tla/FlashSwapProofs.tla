--------------------------- MODULE FlashSwapProofs ---------------------------
(***************************************************************************)
(* Proofs about FlashSwap, for any number of safes and calls, any debts,   *)
(* prices and command lines: what a call borrows, joins and pays adds up,  *)
(* and every call is one step of AtomicSettlement or none.                 *)
(***************************************************************************)
EXTENDS FlashSwap, FiniteSetTheorems, TLAPS

(* A nonempty set of numbers has a least element. *)
LEMMA LeastNat ==
  ASSUME NEW T \in SUBSET Nat, T # {}
  PROVE  \E x \in T : \A y \in T : x <= y
<1> DEFINE R == OpToRel(<, Nat)
<1>1. IsWellFoundedOn(R, Nat)
  BY NatLessThanWellFounded
<1>2. PICK x \in T : \A y \in T : ~ (<<y, x>> \in R)
  <2> HIDE DEF R
  <2>1. QED
    BY <1>1, WFMin
<1>3. \A i, j \in Nat : i < j => <<i, j>> \in R
  BY DEF OpToRel
<1>4. ASSUME NEW y \in T PROVE x <= y
  <2> HIDE DEF R
  <2>1. ~(y < x)
    BY <1>2, <1>3
  <2>2. QED
    BY <2>1
<1>5. QED
  BY <1>4

(* Induction over the numbers, for a set. *)
LEMMA AllNumbers ==
  ASSUME NEW P \in SUBSET Nat, 0 \in P, \A n \in P : n + 1 \in P
  PROVE  P = Nat
<1> SUFFICES ASSUME Nat \ P # {} PROVE FALSE
  OBVIOUS
<1>1. PICK n \in Nat \ P : \A m \in Nat \ P : n <= m
  BY LeastNat
<1>2. n - 1 \in Nat /\ n - 1 < n
  BY <1>1
<1>3. n - 1 \in P /\ (n - 1) + 1 = n
  BY <1>1, <1>2
<1>4. QED
  BY <1>1, <1>3

(* The element that a fold takes next. *)
Pick(s) == CHOOSE x \in s : TRUE

(* It is an element of the set. *)
LEMMA PickIn == \A s : s # {} => Pick(s) \in s
BY DEF Pick

(* Without the element it picks, a finite set is smaller. *)
LEMMA Smaller ==
  ASSUME NEW S, IsFiniteSet(S), NEW s \in SUBSET S, s # {}
  PROVE  /\ Pick(s) \in S /\ s \ {Pick(s)} \in SUBSET S
         /\ Cardinality(s) \in Nat
         /\ Cardinality(s \ {Pick(s)}) \in Nat
         /\ Cardinality(s) = Cardinality(s \ {Pick(s)}) + 1
<1>1. IsFiniteSet(s) /\ Cardinality(s) \in Nat
  BY FS_Subset, FS_CardinalityType
<1>2. Pick(s) \in s
  BY PickIn
<1>3. IsFiniteSet(s \ {Pick(s)}) /\ Cardinality(s \ {Pick(s)}) = Cardinality(s) - 1
  BY <1>1, <1>2, FS_RemoveElement
<1>4. Cardinality(s \ {Pick(s)}) \in Nat
  BY <1>3, FS_CardinalityType
<1>5. QED
  BY <1>1, <1>2, <1>3, <1>4

(* A set without elements is empty. *)
LEMMA NoneIsEmpty ==
  ASSUME NEW S, IsFiniteSet(S), NEW s \in SUBSET S, Cardinality(s) <= 0
  PROVE  s = {}
<1> SUFFICES ASSUME s # {} PROVE FALSE
  OBVIOUS
<1>1. /\ Cardinality(s \ {Pick(s)}) \in Nat
      /\ Cardinality(s) = Cardinality(s \ {Pick(s)}) + 1
  BY Smaller
<1>2. QED
  BY <1>1

(* Induction over the subsets of a finite set. *)
LEMMA SubsetInduction ==
  ASSUME NEW S, IsFiniteSet(S), NEW P, {} \in P,
         \A s \in SUBSET S : s # {} /\ s \ {Pick(s)} \in P => s \in P
  PROVE  SUBSET S \subseteq P
<1> SUFFICES ASSUME NEW b \in SUBSET S, b \notin P PROVE FALSE
  OBVIOUS
<1> DEFINE B == {n \in Nat : \E s \in SUBSET S : s \notin P /\ Cardinality(s) = n}
<1>1. Cardinality(b) \in B
  <2>1. b # {}
    OBVIOUS
  <2>2. QED
    BY <2>1, Smaller
<1>2. PICK n \in B : \A m \in B : n <= m
  <2>1. B \in SUBSET Nat /\ B # {}
    BY <1>1
  <2> HIDE DEF B
  <2>2. QED
    BY <2>1, LeastNat
<1>3. PICK s \in SUBSET S : s \notin P /\ Cardinality(s) = n
  OBVIOUS
<1>4. s # {}
  BY <1>3
<1>5. /\ s \ {Pick(s)} \in SUBSET S /\ s \ {Pick(s)} \notin P
      /\ Cardinality(s \ {Pick(s)}) \in Nat /\ Cardinality(s \ {Pick(s)}) < n
  BY <1>3, <1>4, Smaller
<1>6. Cardinality(s \ {Pick(s)}) \in B
  BY <1>5
<1>7. QED
  BY <1>2, <1>5, <1>6

(* The sums of h over the subsets of S. *)
Add(g, h, s) == IF s = {} THEN 0 ELSE h[Pick(s)] + g[s \ {Pick(s)}]
Sums(g, h, S) == g = [s \in SUBSET S |-> Add(g, h, s)]

(* There are such sums, and they are numbers. *)
LEMMA SumsExist ==
  ASSUME NEW S, IsFiniteSet(S), NEW h \in [S -> Nat]
  PROVE  \E g \in [SUBSET S -> Nat] : Sums(g, h, S)
<1> DEFINE Upto(g, n) == \A s \in SUBSET S :
                           Cardinality(s) <= n => g[s] = Add(g, h, s)
           Reached(n) == \E g \in [SUBSET S -> Nat] : Upto(g, n)
           P == {n \in Nat : Reached(n)}
<1>1. ASSUME NEW g \in [SUBSET S -> Nat], NEW s \in SUBSET S
      PROVE  Add(g, h, s) \in Nat
  <2>1. CASE s # {}
    <3>1. Pick(s) \in S /\ s \ {Pick(s)} \in SUBSET S
      BY <2>1, Smaller
    <3>2. h[Pick(s)] \in Nat /\ g[s \ {Pick(s)}] \in Nat
      BY <3>1
    <3>3. QED
      BY <2>1, <3>2 DEF Add
  <2>2. QED
    BY <2>1 DEF Add
<1>2. Reached(0)
  <2> DEFINE g == [s \in SUBSET S |-> 0]
  <2>1. g \in [SUBSET S -> Nat]
    OBVIOUS
  <2>2. \A s \in SUBSET S : Cardinality(s) <= 0 => g[s] = Add(g, h, s)
    BY NoneIsEmpty DEF Add
  <2> HIDE DEF g
  <2>3. QED
    BY <2>1, <2>2
<1>3. ASSUME NEW n \in Nat, Reached(n) PROVE Reached(n + 1)
  <2>1. PICK g \in [SUBSET S -> Nat] : Upto(g, n)
    BY <1>3
  <2> DEFINE f == [s \in SUBSET S |-> Add(g, h, s)]
  <2>2. f \in [SUBSET S -> Nat]
    BY <1>1
  <2>3. ASSUME NEW s \in SUBSET S, Cardinality(s) <= n + 1
        PROVE  f[s] = Add(f, h, s)
    <3>1. CASE s = {}
      BY <3>1 DEF Add
    <3>2. CASE s # {}
      <4>1. /\ s \ {Pick(s)} \in SUBSET S
            /\ Cardinality(s \ {Pick(s)}) <= n
        BY <2>3, <3>2, Smaller
      <4>2. g[s \ {Pick(s)}] = Add(g, h, s \ {Pick(s)})
        BY <2>1, <4>1
      <4>3. f[s \ {Pick(s)}] = g[s \ {Pick(s)}]
        BY <4>1, <4>2
      <4>4. QED
        BY <3>2, <4>3 DEF Add
    <3>3. QED
      BY <3>1, <3>2
  <2> HIDE DEF f
  <2>4. Upto(f, n + 1)
    BY <2>3
  <2>5. QED
    BY <2>2, <2>4
<1>4. P = Nat
  <2>1. P \in SUBSET Nat /\ 0 \in P
    BY <1>2
  <2>2. ASSUME NEW n \in P PROVE n + 1 \in P
    <3>1. n \in Nat /\ Reached(n)
      OBVIOUS
    <3> HIDE DEF Reached
    <3>2. QED
      BY <1>3, <3>1
  <2> HIDE DEF P
  <2>3. QED
    BY <2>1, <2>2, AllNumbers
<1>5. Cardinality(S) \in Nat /\ \A s \in SUBSET S : Cardinality(s) <= Cardinality(S)
  BY FS_Subset, FS_CardinalityType
<1>6. PICK g \in [SUBSET S -> Nat] : Upto(g, Cardinality(S))
  <2>1. Reached(Cardinality(S))
    <3> HIDE DEF Reached
    <3>1. QED
      BY <1>4, <1>5
  <2>2. QED
    BY <2>1
<1>7. \A s \in SUBSET S : g[s] = Add(g, h, s)
  BY <1>5, <1>6
<1>8. Sums(g, h, S)
  BY <1>7 DEF Sums
<1>9. QED
  BY <1>8

(* The sums are determined by what is added.                               *)
LEMMA SumsUnique ==
  ASSUME NEW S, IsFiniteSet(S), NEW h, NEW g, Sums(g, h, S), NEW f, Sums(f, h, S)
  PROVE  f[S] = g[S]
<1> DEFINE P == {s \in SUBSET S : f[s] = g[s]}
<1>1. \A s \in SUBSET S : g[s] = Add(g, h, s) /\ f[s] = Add(f, h, s)
  BY DEF Sums
<1>2. {} \in P
  BY <1>1 DEF Add
<1>3. ASSUME NEW s \in SUBSET S, s # {}, s \ {Pick(s)} \in P PROVE s \in P
  <2>1. f[s \ {Pick(s)}] = g[s \ {Pick(s)}]
    BY <1>3
  <2>2. QED
    BY <1>1, <1>3, <2>1 DEF Add
<1>4. S \in P
  <2> HIDE DEF P
  <2>1. SUBSET S \subseteq P
    BY <1>2, <1>3, SubsetInduction
  <2>2. QED
    BY <2>1
<1>5. QED
  BY <1>4

(* The sums of RAD amounts are the sums of the WAD amounts in RAD. *)
Multiple(i, h, S) == \A x \in S : i[x] = RadFromWad(h[x])

LEMMA SumsScale ==
  ASSUME NEW S, IsFiniteSet(S), NEW h \in [S -> Nat], NEW i,
         Multiple(i, h, S),
         NEW g \in [SUBSET S -> Nat], Sums(g, h, S), NEW f, Sums(f, i, S)
  PROVE  f[S] = RadFromWad(g[S])
<1> DEFINE P == {s \in SUBSET S : f[s] = RadFromWad(g[s])}
<1>1. \A s \in SUBSET S : g[s] = Add(g, h, s) /\ f[s] = Add(f, i, s)
  BY DEF Sums
<1>2. {} \in P
  <2>1. g[{}] = 0 /\ f[{}] = 0
    BY <1>1 DEF Add
  <2>2. QED
    BY <2>1, RayAssumption DEF RadFromWad
<1>3. ASSUME NEW s \in SUBSET S, s # {}, s \ {Pick(s)} \in P PROVE s \in P
  <2> DEFINE r == s \ {Pick(s)}
             a == h[Pick(s)]
             b == g[r]
  <2>1. a \in Nat /\ b \in Nat /\ i[Pick(s)] = a * Ray /\ f[r] = b * Ray
    BY <1>3, Smaller DEF Multiple, RadFromWad
  <2>2. g[s] = a + b /\ f[s] = i[Pick(s)] + f[r]
    BY <1>1, <1>3 DEF Add
  <2>3. a * Ray + b * Ray = (a + b) * Ray
    <3> HIDE DEF a, b
    <3>1. QED
      BY <2>1, RayAssumption
  <2>4. f[s] = RadFromWad(g[s])
    <3> HIDE DEF a, b, r
    <3>1. QED
      BY <2>1, <2>2, <2>3 DEF RadFromWad
  <2>5. QED
    BY <2>4
<1>4. S \in P
  <2> HIDE DEF P
  <2>1. SUBSET S \subseteq P
    BY <1>2, <1>3, SubsetInduction
  <2>2. QED
    BY <2>1
<1>5. QED
  BY <1>4

(* Smaller summands have a smaller sum. *)
LEMMA SumsLess ==
  ASSUME NEW S, IsFiniteSet(S), NEW h \in [S -> Nat], NEW i \in [S -> Nat],
         \A x \in S : i[x] <= h[x],
         NEW g \in [SUBSET S -> Nat], Sums(g, h, S),
         NEW f \in [SUBSET S -> Nat], Sums(f, i, S)
  PROVE  f[S] <= g[S]
<1> DEFINE P == {s \in SUBSET S : f[s] <= g[s]}
<1>1. \A s \in SUBSET S : g[s] = Add(g, h, s) /\ f[s] = Add(f, i, s)
  BY DEF Sums
<1>2. {} \in P
  <2>1. g[{}] = 0 /\ f[{}] = 0
    BY <1>1 DEF Add
  <2>2. QED
    BY <2>1
<1>3. ASSUME NEW s \in SUBSET S, s # {}, s \ {Pick(s)} \in P PROVE s \in P
  <2> DEFINE r == s \ {Pick(s)}
  <2>1. /\ Pick(s) \in S /\ r \in SUBSET S
        /\ i[Pick(s)] \in Nat /\ h[Pick(s)] \in Nat /\ i[Pick(s)] <= h[Pick(s)]
        /\ f[r] \in Nat /\ g[r] \in Nat /\ f[r] <= g[r]
    BY <1>3, Smaller
  <2>2. g[s] = h[Pick(s)] + g[r] /\ f[s] = i[Pick(s)] + f[r]
    BY <1>1, <1>3 DEF Add
  <2>3. f[s] <= g[s]
    <3> HIDE DEF r
    <3>1. QED
      BY <2>1, <2>2
  <2>4. QED
    BY <2>3
<1>4. S \in P
  <2> HIDE DEF P
  <2>1. SUBSET S \subseteq P
    BY <1>2, <1>3, SubsetInduction
  <2>2. QED
    BY <2>1
<1>5. QED
  BY <1>4
-----------------------------------------------------------------------------
(* What a call borrows for the auctions ids, what the house takes for them *)
(* at most, and what it takes when it makes these sales.                   *)
Borrowed(r, ids) == MapThenSumSet(LAMBDA s : WadFromRad(r[s]) + 1, ids)
Cost(r, ids) == MapThenSumSet(LAMBDA s : Charged(r[s], r[s]), ids)
Proceeds(sale, ids) == MapThenSumSet(LAMBDA s : sale[s].paid, ids)

LEMMA Constants ==
  /\ Ray \in Nat /\ Ray > 1 /\ Lot \in Nat /\ Head \in Nat /\ Lookback \in Nat
  /\ \A d \in Debt : d \in Nat /\ d > 0
  /\ \A p \in Price : p \in Nat
  /\ IsFiniteSet(Safe)
BY RayAssumption, DebtAssumption, SafeAssumption

(* The house cuts the bid down to what is left, rounded up to a WAD.       *)
LEMMA PaidInFull ==
  ASSUME NEW r \in Nat, r > 0
  PROVE  /\ WadFromRad(r) + 1 \in Nat
         /\ AdjustedBid(r, r) = WadFromRad(r) + 1
         /\ Charged(r, r) = RadFromWad(WadFromRad(r) + 1)
         /\ Charged(r, r) \in Nat /\ Charged(r, r) > r
<1> DEFINE w == WadFromRad(r)
<1>1. Ray \in Nat /\ Ray > 1
  BY Constants
<1>2. w \in Nat /\ r < (w + 1) * Ray
  BY <1>1 DEF WadFromRad
<1>3. r * Ray > r
  BY <1>1
<1>4. AdjustedBid(r, r) = w + 1
  BY <1>3 DEF AdjustedBid, RadFromWad
<1>5. Charged(r, r) = (w + 1) * Ray
  BY <1>4 DEF Charged, RadFromWad
<1>6. (w + 1) * Ray \in Nat
  <2> HIDE DEF w
  <2>1. QED
    BY <1>1, <1>2
<1>7. QED
  BY <1>2, <1>4, <1>5, <1>6 DEF RadFromWad

(* A sale never takes more than that, and it ends the auction.             *)
LEMMA SaleBounds ==
  ASSUME NEW r \in Nat, r > 0, NEW sale \in Sales(r, r)
  PROVE  sale.paid \in Nat /\ sale.paid <= Charged(r, r) /\ sale.rest = 0
<1> DEFINE a == AdjustedBid(r, r)
<1>1. /\ Charged(r, r) \in Nat /\ Charged(r, r) > r
      /\ a \in Nat /\ Charged(r, r) = a * Ray
  BY PaidInFull DEF RadFromWad
<1>2. CASE sale = [paid |-> Charged(r, r),
                   rest |-> IF Charged(r, r) < r THEN r - Charged(r, r) ELSE 0]
  BY <1>1, <1>2
<1>3. ASSUME NEW w \in 1 .. a, sale = [paid |-> RadFromWad(w), rest |-> 0]
      PROVE  sale.paid \in Nat /\ sale.paid <= Charged(r, r) /\ sale.rest = 0
  <2> HIDE DEF a
  <2>1. w \in Nat /\ a - w \in Nat /\ Ray \in Nat
    BY <1>1, Constants
  <2>2. w * Ray + (a - w) * Ray = a * Ray
    BY <2>1, <1>1
  <2>3. w * Ray \in Nat /\ (a - w) * Ray \in Nat
    BY <2>1
  <2>4. QED
    BY <1>1, <1>3, <2>2, <2>3 DEF RadFromWad
<1>4. QED
  BY <1>2, <1>3 DEF Sales

(* The sums of the specification are such sums. *)
LEMMA BorrowedSum ==
  ASSUME NEW r, NEW ids \in SUBSET Safe,
         NEW g, Sums(g, [s \in ids |-> WadFromRad(r[s]) + 1], ids)
  PROVE  Borrowed(r, ids) = g[ids]
<1> DEFINE h == [s \in ids |-> WadFromRad(r[s]) + 1]
           Sum(it, s) ==
      IF s = {} THEN 0
      ELSE (WadFromRad(r[CHOOSE x \in s : TRUE]) + 1)
             + it[s \ {CHOOSE x \in s : TRUE}]
           All(it) == it = [s \in SUBSET ids |-> Sum(it, s)]
           all == CHOOSE it : All(it)
<1>1. IsFiniteSet(ids)
  BY Constants, FS_Subset
<1>2. ASSUME NEW it PROVE All(it) <=> Sums(it, h, ids)
  <2>1. ASSUME NEW s \in SUBSET ids PROVE Add(it, h, s) = Sum(it, s)
    <3>1. s # {} => Pick(s) \in ids
      BY PickIn
    <3>2. s # {} => h[Pick(s)] = WadFromRad(r[Pick(s)]) + 1
      BY <3>1
    <3> HIDE DEF h
    <3>3. QED
      BY <3>2 DEF Add, Pick
  <2> HIDE DEF h, Sum
  <2>2. QED
    BY <2>1 DEF Sums
<1>3. Sums(g, h, ids)
  OBVIOUS
<1>4. All(all)
  <2>1. All(g)
    BY <1>2, <1>3
  <2> HIDE DEF All
  <2>2. QED
    BY <2>1
<1>5. Borrowed(r, ids) = all[ids]
  BY DEF Borrowed, MapThenSumSet, MapThenFoldSet
<1>6. all[ids] = g[ids]
  <2>1. Sums(all, h, ids)
    BY <1>2, <1>4
  <2> HIDE DEF h, all
  <2>2. QED
    BY <1>1, <1>3, <2>1, SumsUnique
<1>7. QED
  BY <1>5, <1>6

(* So is what the house takes at most. *)
LEMMA CostSum ==
  ASSUME NEW r, NEW ids \in SUBSET Safe,
         NEW g, Sums(g, [s \in ids |-> Charged(r[s], r[s])], ids)
  PROVE  Cost(r, ids) = g[ids]
<1> DEFINE h == [s \in ids |-> Charged(r[s], r[s])]
           Sum(it, s) ==
      IF s = {} THEN 0
      ELSE Charged(r[CHOOSE x \in s : TRUE], r[CHOOSE x \in s : TRUE])
             + it[s \ {CHOOSE x \in s : TRUE}]
           All(it) == it = [s \in SUBSET ids |-> Sum(it, s)]
           all == CHOOSE it : All(it)
<1>1. IsFiniteSet(ids)
  BY Constants, FS_Subset
<1>2. ASSUME NEW it PROVE All(it) <=> Sums(it, h, ids)
  <2>1. ASSUME NEW s \in SUBSET ids PROVE Add(it, h, s) = Sum(it, s)
    <3>1. s # {} => Pick(s) \in ids
      BY PickIn
    <3>2. s # {} => h[Pick(s)] = Charged(r[Pick(s)], r[Pick(s)])
      BY <3>1
    <3> HIDE DEF h
    <3>3. QED
      BY <3>2 DEF Add, Pick
  <2> HIDE DEF h, Sum
  <2>2. QED
    BY <2>1 DEF Sums
<1>3. Sums(g, h, ids)
  OBVIOUS
<1>4. All(all)
  <2>1. All(g)
    BY <1>2, <1>3
  <2> HIDE DEF All
  <2>2. QED
    BY <2>1
<1>5. Cost(r, ids) = all[ids]
  BY DEF Cost, MapThenSumSet, MapThenFoldSet
<1>6. all[ids] = g[ids]
  <2>1. Sums(all, h, ids)
    BY <1>2, <1>4
  <2> HIDE DEF h, all
  <2>2. QED
    BY <1>1, <1>3, <2>1, SumsUnique
<1>7. QED
  BY <1>5, <1>6

(* And what it takes. *)
LEMMA PriceSum ==
  ASSUME NEW sale, NEW ids \in SUBSET Safe,
         NEW g, Sums(g, [s \in ids |-> sale[s].paid], ids)
  PROVE  Proceeds(sale, ids) = g[ids]
<1> DEFINE h == [s \in ids |-> sale[s].paid]
           Sum(it, s) ==
      IF s = {} THEN 0
      ELSE sale[CHOOSE x \in s : TRUE].paid
             + it[s \ {CHOOSE x \in s : TRUE}]
           All(it) == it = [s \in SUBSET ids |-> Sum(it, s)]
           all == CHOOSE it : All(it)
<1>1. IsFiniteSet(ids)
  BY Constants, FS_Subset
<1>2. ASSUME NEW it PROVE All(it) <=> Sums(it, h, ids)
  <2>1. ASSUME NEW s \in SUBSET ids PROVE Add(it, h, s) = Sum(it, s)
    <3>1. s # {} => Pick(s) \in ids
      BY PickIn
    <3>2. s # {} => h[Pick(s)] = sale[Pick(s)].paid
      BY <3>1
    <3> HIDE DEF h
    <3>3. QED
      BY <3>2 DEF Add, Pick
  <2> HIDE DEF h, Sum
  <2>2. QED
    BY <2>1 DEF Sums
<1>3. Sums(g, h, ids)
  OBVIOUS
<1>4. All(all)
  <2>1. All(g)
    BY <1>2, <1>3
  <2> HIDE DEF All
  <2>2. QED
    BY <2>1
<1>5. Proceeds(sale, ids) = all[ids]
  BY DEF Proceeds, MapThenSumSet, MapThenFoldSet
<1>6. all[ids] = g[ids]
  <2>1. Sums(all, h, ids)
    BY <1>2, <1>4
  <2> HIDE DEF h, all
  <2>2. QED
    BY <1>1, <1>3, <2>1, SumsUnique
<1>7. QED
  BY <1>5, <1>6

(* For any set of open auctions, what a call borrows is, joined, exactly   *)
(* what the house takes at most for its bids, whatever each rounds off.    *)
THEOREM BorrowedIsCost ==
  ASSUME NEW r \in [Safe -> Nat], NEW ids \in SUBSET Safe, \A s \in ids : r[s] > 0
  PROVE  /\ Borrowed(r, ids) \in Nat
         /\ Cost(r, ids) = RadFromWad(Borrowed(r, ids))
         /\ Cost(r, ids) \in Nat
         /\ ids = {} => Borrowed(r, ids) = 0
<1> DEFINE h == [s \in ids |-> WadFromRad(r[s]) + 1]
           c == [s \in ids |-> Charged(r[s], r[s])]
<1>1. IsFiniteSet(ids)
  BY Constants, FS_Subset
<1>2. h \in [ids -> Nat] /\ c \in [ids -> Nat] /\ Multiple(c, h, ids)
  <2>1. ASSUME NEW s \in ids
        PROVE  /\ h[s] \in Nat /\ c[s] \in Nat
               /\ c[s] = RadFromWad(h[s])
    <3>1. r[s] \in Nat /\ r[s] > 0
      OBVIOUS
    <3>2. QED
      BY <3>1, PaidInFull
  <2>2. QED
    BY <2>1 DEF Multiple
<1>3. PICK g \in [SUBSET ids -> Nat] : Sums(g, h, ids)
  <2> HIDE DEF h, c
  <2>1. QED
    BY <1>1, <1>2, SumsExist
<1>4. PICK f \in [SUBSET ids -> Nat] : Sums(f, c, ids)
  <2> HIDE DEF h, c
  <2>1. QED
    BY <1>1, <1>2, SumsExist
<1>5. Borrowed(r, ids) = g[ids] /\ Cost(r, ids) = f[ids]
  BY <1>3, <1>4, BorrowedSum, CostSum
<1>6. f[ids] = RadFromWad(g[ids])
  <2> HIDE DEF h, c
  <2>1. /\ IsFiniteSet(ids) /\ h \in [ids -> Nat] /\ Multiple(c, h, ids)
        /\ g \in [SUBSET ids -> Nat] /\ Sums(g, h, ids) /\ Sums(f, c, ids)
    BY <1>1, <1>2, <1>3, <1>4
  <2>2. QED
    BY <2>1, SumsScale
<1>7. g[ids] \in Nat /\ f[ids] \in Nat
  BY <1>3, <1>4
<1>8. ids = {} => g[ids] = 0
  BY <1>3 DEF Sums, Add
<1>9. QED
  BY <1>5, <1>6, <1>7, <1>8

(* Whatever the house sells, it takes no more than that.                   *)
LEMMA PriceBounds ==
  ASSUME NEW r \in [Safe -> Nat], NEW ids \in SUBSET Safe,
         \A s \in ids : r[s] > 0,
         NEW sale, \A s \in ids : sale[s] \in Sales(r[s], r[s])
  PROVE  Proceeds(sale, ids) \in Nat /\ Proceeds(sale, ids) <= Cost(r, ids)
<1> DEFINE h == [s \in ids |-> sale[s].paid]
           c == [s \in ids |-> Charged(r[s], r[s])]
<1>1. IsFiniteSet(ids)
  BY Constants, FS_Subset
<1>2. h \in [ids -> Nat] /\ c \in [ids -> Nat] /\ \A s \in ids : h[s] <= c[s]
  <2>1. ASSUME NEW s \in ids
        PROVE  h[s] \in Nat /\ c[s] \in Nat /\ h[s] <= c[s]
    <3>1. r[s] \in Nat /\ r[s] > 0 /\ sale[s] \in Sales(r[s], r[s])
      OBVIOUS
    <3>2. QED
      BY <3>1, PaidInFull, SaleBounds
  <2>2. QED
    BY <2>1
<1>3. PICK g \in [SUBSET ids -> Nat] : Sums(g, h, ids)
  <2> HIDE DEF h, c
  <2>1. QED
    BY <1>1, <1>2, SumsExist
<1>4. PICK f \in [SUBSET ids -> Nat] : Sums(f, c, ids)
  <2> HIDE DEF h, c
  <2>1. QED
    BY <1>1, <1>2, SumsExist
<1>5. Proceeds(sale, ids) = g[ids] /\ Cost(r, ids) = f[ids]
  BY <1>3, <1>4, PriceSum, CostSum
<1>6. g[ids] <= f[ids]
  <2> HIDE DEF h, c
  <2>1. QED
    BY <1>1, <1>2, <1>3, <1>4, SumsLess
<1>7. QED
  BY <1>3, <1>5, <1>6
-----------------------------------------------------------------------------
TxState == [pc : {"none", "liquidate", "settle", "swap", "join", "bid",
                  "exit", "repay", "pay"},
            type : Kind \cup {Absent},
            ids : SUBSET Safe, twice : SUBSET Safe, chosen : BOOLEAN]

ProxyState == [coins : Nat, joined : Nat, won : Nat, wallet : Nat,
               owes : Nat, pair : BOOLEAN, approved : BOOLEAN,
               spared : Nat, mute : BOOLEAN]

(* What a proxy is between two calls, and what a revert may restore. *)
Closed(m) == /\ m.coins = 0 /\ m.won = 0 /\ m.wallet = 0 /\ m.owes = 0
             /\ ~m.approved
             /\ m.joined = m.spared
             /\ m.pair = m.mute
Proxies == {p \in [Kind -> ProxyState] : \A k \in Kind : Closed(p[k])}
Savings == (SUBSET Safe) \X [Safe -> Nat] \X Proxies

Chain == /\ critical \in SUBSET Safe /\ raise \in [Safe -> Nat]
         /\ price \in Nat /\ profit \in Nat /\ calls \in Nat
         /\ tx \in TxState
         /\ saved \in Savings

(* What the call t borrows while the auctions raise r.                     *)
Sum(t, r) == Borrowed(r, t.ids) + Borrowed(r, t.twice)

(* The books of a proxy m at each step of its call t.                      *)
Ledger(m, t, r) ==
  /\ t.pc \in {"liquidate", "settle"} => Closed(m)
  /\ t.pc = "swap" => /\ m.pair = (t.type = "MultiCollateral")
                      /\ m.coins = 0 /\ m.joined = m.spared /\ m.owes = 0
  /\ t.pc \in {"swap", "join", "bid"} =>
       /\ m.won = 0 /\ m.wallet = 0
       /\ t.type = "MultiCollateral" => m.approved
  /\ t.pc = "join" => m.coins = Sum(t, r) /\ m.joined = m.spared
  /\ t.pc = "bid" => m.coins = 0 /\ m.joined = m.spared + RadFromWad(Sum(t, r))
  /\ t.pc \in {"exit", "repay", "pay"} => m.coins = 0 /\ m.joined = m.spared
  /\ t.pc = "exit" => m.wallet = 0
  /\ t.pc \in {"repay", "pay"} => m.won = 0
  /\ t.pc = "pay" => m.owes = 0

Books ==
  /\ proxy \in [Kind -> ProxyState]
  /\ \A k \in Kind : (tx.pc = "none" \/ k # tx.type) => Closed(proxy[k])
  /\ tx.pc # "none" => /\ tx.type \in Kind
                       /\ tx.chosen => tx.type = "MultiCollateral"
                       /\ Ledger(proxy[tx.type], tx, raise)

(* A call that liquidates s has the safe it would have without it. *)
Liquidating(s) == tx.ids = {s} /\ s \in saved[1] /\ saved[2][s] = 0
                  /\ critical = saved[1] \ {s}

Zeroed(r, ids) == [s \in Safe |-> IF s \in ids THEN 0 ELSE r[s]]

(* What a call has done so far to what a revert would restore. *)
Since ==
  /\ tx.pc = "liquidate" => /\ \E s \in Safe : tx.ids = {s} /\ raise[s] = 0
                            /\ critical = saved[1] /\ raise = saved[2]
  /\ tx.pc \in {"settle", "swap", "join", "bid"} =>
       \/ critical = saved[1] /\ raise = saved[2]
       \/ \E s \in Safe : /\ Liquidating(s)
                          /\ \A r \in Safe \ {s} : raise[r] = saved[2][r]
  /\ tx.pc \in {"swap", "join", "bid"} =>
       /\ tx.ids # {} /\ \A s \in tx.ids : raise[s] > 0
       /\ tx.twice \in SUBSET tx.ids
  /\ tx.pc \in {"exit", "repay", "pay"} =>
       \/ /\ tx.ids # {} /\ \A s \in tx.ids : saved[2][s] > 0
          /\ critical = saved[1] /\ raise = Zeroed(saved[2], tx.ids)
       \/ \E s \in Safe : Liquidating(s) /\ raise = saved[2]

FInv == Chain /\ Books /\ Since /\ RevertHasCause
-----------------------------------------------------------------------------
LEMMA Sums2 ==
  /\ Total = Sum(tx, raise)
  /\ MapThenSumSet(Asked, tx.ids) = Cost(raise, tx.ids)
<1>1. Total = Sum(tx, raise)
  BY DEF Total, Lent, Sum, Borrowed
<1>2. MapThenSumSet(Asked, tx.ids) = Cost(raise, tx.ids)
  BY DEF Asked, Offer, Cost, MapThenSumSet, MapThenFoldSet
<1>3. QED
  BY <1>1, <1>2

LEMMA EmptyState == Empty \in ProxyState /\ Closed(Empty)
BY DEF Empty, ProxyState, Closed

LEMMA NothingSaved == Nothing \in Savings
<1>1. [k \in Kind |-> Empty] \in Proxies
  BY EmptyState DEF Proxies
<1>2. [s \in Safe |-> 0] \in [Safe -> Nat]
  OBVIOUS
<1>3. QED
  BY <1>1, <1>2 DEF Nothing, Savings

LEMMA NoCallState == NoCall \in TxState /\ NoCall.pc = "none"
BY DEF NoCall, TxState

LEMMA FlashInit == Init => FInv
<1> SUFFICES ASSUME Init PROVE FInv
  OBVIOUS
<1>1. Chain
  <2>1. raise \in [Safe -> Nat] /\ price \in Nat
    BY Constants DEF Init
  <2>2. QED
    BY <2>1, NothingSaved, NoCallState DEF Init, Chain
<1>2. tx.pc = "none" /\ proxy = [k \in Kind |-> Empty] /\ outcome = "none"
  BY NoCallState DEF Init
<1>3. QED
  BY <1>1, <1>2, EmptyState DEF FInv, Books, Since, RevertHasCause

(* Steps between two calls leave the books closed.                         *)
LEMMA BetweenKeeps ==
  ASSUME FInv, Between, tx' = tx, proxy' = proxy, outcome' = outcome, Chain'
  PROVE  FInv'
BY DEF FInv, Between, Books, Since, RevertHasCause

(* A liquidation takes a safe that can be liquidated and may open its      *)
(* auction; without a saviour it does.                                     *)
LEMMA LiquidatedTypes ==
  ASSUME Chain, NEW s \in Safe, Liquidated(s)
  PROVE  /\ critical' \in SUBSET Safe /\ raise' \in [Safe -> Nat]
         /\ s \in critical /\ critical' = critical \ {s}
         /\ \A r \in Safe \ {s} : raise'[r] = raise[r]
BY Constants DEF Chain, Liquidated

(* Others move prices, safes and auctions.                                 *)
LEMMA OthersKeep ==
  ASSUME FInv, Others
  PROVE  FInv'
<1>1. CASE PriceMoves
  <2>1. Chain'
    BY <1>1, Constants DEF FInv, Chain, PriceMoves, call
  <2>2. QED
    BY <1>1, <2>1, BetweenKeeps DEF PriceMoves, call
<1>2. ASSUME NEW s \in Safe, SafeMoves(s) PROVE FInv'
  <2>1. Chain'
    BY <1>2 DEF FInv, Chain, SafeMoves, call
  <2>2. QED
    BY <1>2, <2>1, BetweenKeeps DEF SafeMoves, call
<1>3. ASSUME NEW s \in Safe, OtherBids(s) PROVE FInv'
  <2>1. PICK n \in 0 .. raise[s] - 1 : raise' = [raise EXCEPT ![s] = n]
    BY <1>3 DEF OtherBids
  <2>2. Chain'
    BY <1>3, <2>1 DEF FInv, Chain, OtherBids, call
  <2>3. QED
    BY <1>3, <2>2, BetweenKeeps DEF OtherBids, call
<1>4. ASSUME NEW s \in Safe, OtherLiquidates(s) PROVE FInv'
  <2>1. Chain /\ Liquidated(s) /\ UNCHANGED <<price, call>> /\ Between
    BY <1>4 DEF FInv, OtherLiquidates
  <2>2. Chain'
    BY <2>1, LiquidatedTypes DEF Chain, call
  <2>3. QED
    BY <2>1, <2>2, BetweenKeeps DEF call
<1>5. QED
  BY <1>1, <1>2, <1>3, <1>4 DEF Others

LEMMA PlainLiquidationKeeps ==
  ASSUME FInv, NEW s \in Safe, PlainLiquidation(s)
  PROVE  FInv'
<1>1. Chain /\ Liquidated(s) /\ UNCHANGED <<price, call>> /\ Between
  BY DEF FInv, PlainLiquidation
<1>2. Chain'
  BY <1>1, LiquidatedTypes DEF Chain, call
<1>3. QED
  BY <1>1, <1>2, BetweenKeeps DEF call

LEMMA ScansKeep ==
  ASSUME FInv, GetSafes \/ ScanFails
  PROVE  FInv'
<1>1. Between /\ UNCHANGED <<chain, call>>
  BY DEF GetSafes, ScanFails
<1>2. Chain'
  BY <1>1 DEF FInv, Chain, chain, call
<1>3. QED
  BY <1>1, <1>2, BetweenKeeps DEF call
-----------------------------------------------------------------------------
(* A call begins with the books closed, and remembers what a revert        *)
(* restores.                                                               *)
LEMMA StartKeeps ==
  ASSUME FInv, Between, NEW type \in Kind,
         NEW pc \in {"liquidate", "settle"}, NEW ids \in SUBSET Safe,
         NEW twice \in SUBSET Safe, NEW chosen \in BOOLEAN,
         chosen => type = "MultiCollateral",
         Start(type, pc, ids, twice, chosen),
         pc = "liquidate" => \E s \in Safe : ids = {s} /\ raise[s] = 0
  PROVE  FInv'
<1>1. /\ tx' = [pc |-> pc, type |-> type, ids |-> ids, twice |-> twice,
               chosen |-> chosen]
      /\ saved' = <<critical, raise, proxy>>
      /\ UNCHANGED <<critical, raise, price, proxy, profit, calls, outcome>>
  BY DEF Start, chain
<1>2. proxy \in Proxies
  BY DEF FInv, Books, Between, Proxies
<1>3. /\ tx' \in TxState /\ tx'.pc = pc /\ tx'.ids = ids /\ tx'.type = type
      /\ tx'.chosen = chosen
  BY <1>1 DEF TxState
<1>4. saved' \in Savings /\ saved'[1] = critical /\ saved'[2] = raise
  BY <1>1, <1>2 DEF FInv, Chain, Savings
<1>5. Chain'
  BY <1>1, <1>3, <1>4 DEF FInv, Chain
<1>6. Books'
  <2>1. Closed(proxy[type]) /\ proxy \in [Kind -> ProxyState]
        /\ \A k \in Kind : Closed(proxy[k])
    BY <1>2 DEF Proxies
  <2>2. Ledger(proxy[type], tx', raise)
    BY <1>3, <2>1 DEF Ledger
  <2>3. QED
    BY <1>1, <1>3, <2>1, <2>2 DEF Books
<1>7. Since'
  BY <1>1, <1>3, <1>4 DEF Since
<1>8. QED
  BY <1>1, <1>5, <1>6, <1>7 DEF FInv, RevertHasCause

LEMMA EndStep ==
  ASSUME NEW how, End(how)
  PROVE  /\ tx' \in TxState /\ tx'.pc = "none" /\ saved' \in Savings
         /\ calls' = calls + 1 /\ outcome' = how
BY NothingSaved, NoCallState DEF End

(* A revert restores closed books.                                         *)
LEMMA RevertKeeps ==
  ASSUME FInv, price' = price,
         NEW why \in {"SafeIsProtected", "NotCritical", "AlreadySettled",
                      "GivenTwice", "HouseRefuses", "unprofitable"},
         Revert(why)
  PROVE  FInv'
<1>1. saved \in Savings
  BY DEF FInv, Chain
<1>2. /\ critical' \in SUBSET Safe /\ raise' \in [Safe -> Nat]
      /\ proxy' \in Proxies /\ profit' = profit /\ End(why)
  BY <1>1 DEF Revert, Savings
<1>3. /\ tx' \in TxState /\ tx'.pc = "none" /\ saved' \in Savings
      /\ calls' = calls + 1 /\ outcome' = why
  BY <1>2, EndStep
<1>4. Chain'
  BY <1>2, <1>3 DEF FInv, Chain
<1>5. Books' /\ Since'
  BY <1>2, <1>3 DEF Books, Since, Proxies
<1>6. QED
  BY <1>3, <1>4, <1>5 DEF FInv, RevertHasCause
-----------------------------------------------------------------------------
(* The types at any step of a call.                                        *)
LEMMA AtStep ==
  ASSUME FInv
  PROVE  /\ tx \in TxState /\ tx.ids \in SUBSET Safe /\ tx.twice \in SUBSET Safe
         /\ tx.chosen \in BOOLEAN
         /\ raise \in [Safe -> Nat] /\ critical \in SUBSET Safe
         /\ saved \in Savings
         /\ saved[1] \in SUBSET Safe /\ saved[2] \in [Safe -> Nat]
         /\ proxy \in [Kind -> ProxyState]
BY DEF FInv, Chain, Books, TxState, Savings

(* The books of the proxy that is called.                                  *)
LEMMA MyBooks ==
  ASSUME FInv, tx.pc # "none"
  PROVE  /\ tx.type \in Kind /\ Mine \in ProxyState /\ Ledger(Mine, tx, raise)
         /\ tx.chosen => tx.type = "MultiCollateral"
BY DEF FInv, Books, Mine

(* The next step of a call.                                                *)
LEMMA GotoStep ==
  ASSUME FInv, NEW pc \in {"settle", "swap", "join", "bid", "exit", "repay", "pay"},
         Goto(pc)
  PROVE  /\ tx' \in TxState /\ tx'.pc = pc /\ tx'.ids = tx.ids
         /\ tx'.type = tx.type /\ tx'.twice = tx.twice /\ tx'.chosen = tx.chosen
         /\ UNCHANGED <<saved, profit, calls, outcome>>
BY AtStep DEF Goto, GoOn, TxState

(* While a call goes on, only the books of its proxy change ...            *)
LEMMA BooksGoOn ==
  ASSUME FInv, tx.pc # "none", tx'.type = tx.type, tx'.chosen = tx.chosen,
         tx'.pc # "none", NEW m \in ProxyState, Becomes(m),
         Ledger(m, tx', raise')
  PROVE  Books'
<1>1. /\ proxy \in [Kind -> ProxyState] /\ tx.type \in Kind
      /\ tx.chosen => tx.type = "MultiCollateral"
      /\ \A k \in Kind : k # tx.type => Closed(proxy[k])
  BY DEF FInv, Books
<1>2. /\ proxy' \in [Kind -> ProxyState] /\ proxy'[tx.type] = m
      /\ \A k \in Kind : k # tx.type => proxy'[k] = proxy[k]
  BY <1>1 DEF Becomes
<1>3. QED
  BY <1>1, <1>2 DEF Books

(* ... and they are closed when it ends.                                   *)
LEMMA BooksClose ==
  ASSUME FInv, tx.pc # "none", tx'.pc = "none",
         NEW m \in ProxyState, Becomes(m), Closed(m)
  PROVE  Books'
<1>1. /\ proxy \in [Kind -> ProxyState] /\ tx.type \in Kind
      /\ \A k \in Kind : k # tx.type => Closed(proxy[k])
  BY DEF FInv, Books
<1>2. /\ proxy' \in [Kind -> ProxyState] /\ proxy'[tx.type] = m
      /\ \A k \in Kind : k # tx.type => proxy'[k] = proxy[k]
  BY <1>1 DEF Becomes
<1>3. QED
  BY <1>1, <1>2 DEF Books

LEMMA LiquidateSAFEKeeps ==
  ASSUME FInv, LiquidateSAFE
  PROVE  FInv'
<1>1. PICK s \in tx.ids :
        \/ s \in saviour /\ Revert("SafeIsProtected")
        \/ s \notin saviour /\ s \notin critical /\ Revert("NotCritical")
        \/ /\ s \notin saviour /\ Liquidated(s)
           /\ Goto("settle")
           /\ UNCHANGED proxy
  BY DEF LiquidateSAFE
<1>2. tx.pc = "liquidate" /\ UNCHANGED price
  BY DEF LiquidateSAFE, At, Frame
<1>3. CASE \E why \in {"SafeIsProtected", "NotCritical"} : Revert(why)
  BY <1>2, <1>3, RevertKeeps
<1>4. CASE /\ s \notin saviour /\ Liquidated(s)
           /\ Goto("settle")
           /\ UNCHANGED proxy
  <2>1. /\ s \in Safe /\ tx.ids = {s} /\ raise[s] = 0
        /\ critical = saved[1] /\ raise = saved[2]
    BY <1>2, AtStep DEF FInv, Since
  <2>2. /\ critical' \in SUBSET Safe /\ raise' \in [Safe -> Nat]
        /\ s \in critical /\ critical' = critical \ {s}
        /\ \A r \in Safe \ {s} : raise'[r] = raise[r]
    BY <1>4, <2>1, LiquidatedTypes DEF FInv
  <2>3. /\ tx' \in TxState /\ tx'.pc = "settle" /\ tx'.ids = {s}
        /\ tx'.type = tx.type /\ tx'.chosen = tx.chosen
        /\ UNCHANGED <<saved, profit, calls, outcome>>
    BY <1>4, <2>1, GotoStep
  <2>4. Chain'
    BY <1>2, <1>4, <2>2, <2>3 DEF FInv, Chain
  <2>5. Books'
    <3>1. Closed(Mine)
      BY <1>2, MyBooks DEF Ledger
    <3>2. Ledger(Mine, tx', raise')
      BY <2>3, <3>1 DEF Ledger
    <3>3. QED
      BY <1>2, <1>4, <2>3, <3>2 DEF FInv, Books, Mine
  <2>6. Since'
    BY <1>2, <2>1, <2>2, <2>3 DEF Since, Liquidating
  <2>7. QED
    BY <2>3, <2>4, <2>5, <2>6 DEF FInv, RevertHasCause
<1>5. QED
  BY <1>1, <1>3, <1>4

LEMMA SettleKeeps ==
  ASSUME FInv, Settle
  PROVE  FInv'
<1>1. tx.pc = "settle" /\ UNCHANGED price
  BY DEF Settle, At, Frame
<1>2. CASE Open = {}
  BY <1>1, <1>2, RevertKeeps DEF Settle
<1>3. CASE Open # {}
  <2> DEFINE ours == tx.type = "MultiCollateral"
             m == [Mine EXCEPT !.pair = ours, !.approved = ours]
  <2>1. /\ tx' = [tx EXCEPT !.pc = "swap", !.ids = Open, !.twice = @ \cap Open]
        /\ Becomes(m)
        /\ UNCHANGED <<critical, raise, saved, profit, calls, outcome>>
    BY <1>3 DEF Settle, GoOn
  <2>2. Open \in SUBSET tx.ids /\ \A s \in Open : raise[s] > 0
    BY DEF Open
  <2>3. /\ tx' \in TxState /\ tx'.pc = "swap" /\ tx'.ids = Open
        /\ tx'.type = tx.type /\ tx'.chosen = tx.chosen
        /\ tx'.twice \in SUBSET Open
    <3>1. tx.twice \cap Open \in SUBSET Safe /\ Open \in SUBSET Safe
      BY <2>2, AtStep
    <3>2. QED
      BY <2>1, <3>1, AtStep DEF TxState
  <2>4. Chain'
    BY <1>1, <2>1, <2>3 DEF FInv, Chain
  <2>5. Books'
    <3>1. Closed(Mine) /\ Mine \in ProxyState /\ tx.type \in Kind
      BY <1>1, MyBooks DEF Ledger
    <3>2. /\ m \in ProxyState /\ m.pair = ours /\ m.approved = ours
          /\ m.coins = 0 /\ m.joined = m.spared /\ m.won = 0 /\ m.wallet = 0
          /\ m.owes = 0
      <4>1. ours \in BOOLEAN
        OBVIOUS
      <4> HIDE DEF ours
      <4>2. QED
        BY <3>1, <4>1 DEF ProxyState, Closed
    <3> HIDE DEF m
    <3>3. Ledger(m, tx', raise')
      BY <2>3, <3>2 DEF Ledger
    <3>4. QED
      BY <1>1, <2>1, <2>3, <3>2, <3>3, BooksGoOn
  <2>6. Since'
    <3>1. \/ critical = saved[1] /\ raise = saved[2]
          \/ \E s \in Safe : /\ Liquidating(s)
                             /\ \A r \in Safe \ {s} : raise[r] = saved[2][r]
      BY <1>1 DEF FInv, Since
    <3>2. ASSUME NEW s \in Safe, Liquidating(s) PROVE Liquidating(s)'
      <4>1. Open = {s}
        BY <1>3, <2>2, <3>2 DEF Liquidating
      <4>2. QED
        BY <2>1, <2>3, <3>2, <4>1 DEF Liquidating
    <3>3. QED
      BY <1>3, <2>1, <2>2, <2>3, <3>1, <3>2 DEF Since
  <2>7. QED
    BY <2>1, <2>4, <2>5, <2>6 DEF FInv, RevertHasCause
<1>4. QED
  BY <1>2, <1>3

(* From the swap to the end a step leaves the liquidation as it was.       *)
LEMMA SinceGoesOn ==
  ASSUME FInv, tx' \in TxState, tx'.ids = tx.ids, tx'.twice = tx.twice,
         saved' = saved, UNCHANGED <<critical, raise>>,
         \/ tx.pc \in {"swap", "join"} /\ tx'.pc \in {"join", "bid"}
         \/ tx.pc \in {"exit", "repay"} /\ tx'.pc \in {"repay", "pay"}
  PROVE  Since'
<1>1. \A s \in Safe : Liquidating(s) => Liquidating(s)'
  BY DEF Liquidating
<1>2. CASE tx.pc \in {"swap", "join"} /\ tx'.pc \in {"join", "bid"}
  BY <1>1, <1>2 DEF FInv, Since
<1>3. CASE tx.pc \in {"exit", "repay"} /\ tx'.pc \in {"repay", "pay"}
  BY <1>1, <1>3 DEF FInv, Since, Zeroed
<1>4. QED
  BY <1>2, <1>3

(* The auctions of a call that borrows are open; what it borrows is a      *)
(* number, and in RAD it is enough for one bid in each, and exactly that   *)
(* when no id was given twice.                                             *)
LEMMA Borrows ==
  ASSUME FInv, tx.pc \in {"swap", "join", "bid"}
  PROVE  /\ Total \in Nat /\ Total = Sum(tx, raise)
         /\ RadFromWad(Sum(tx, raise)) \in Nat
         /\ MapThenSumSet(Asked, tx.ids) = Cost(raise, tx.ids)
         /\ Cost(raise, tx.ids) \in Nat
         /\ Cost(raise, tx.ids) <= RadFromWad(Sum(tx, raise))
         /\ tx.twice = {} => Cost(raise, tx.ids) = RadFromWad(Sum(tx, raise))
<1> DEFINE a == Borrowed(raise, tx.ids)
           b == Borrowed(raise, tx.twice)
<1>1. /\ raise \in [Safe -> Nat] /\ tx.ids \in SUBSET Safe
      /\ tx.twice \in SUBSET Safe
      /\ \A s \in tx.ids : raise[s] > 0
      /\ \A s \in tx.twice : raise[s] > 0
  BY AtStep DEF FInv, Since
<1>2. /\ a \in Nat /\ b \in Nat /\ Cost(raise, tx.ids) = RadFromWad(a)
      /\ tx.twice = {} => b = 0
  BY <1>1, BorrowedIsCost
<1>3. Sum(tx, raise) = a + b
  BY DEF Sum
<1>4. /\ RadFromWad(a) \in Nat /\ RadFromWad(b) \in Nat
      /\ RadFromWad(a + b) = RadFromWad(a) + RadFromWad(b)
      /\ b = 0 => RadFromWad(b) = 0
  <2> HIDE DEF a, b
  <2>1. QED
    BY <1>2, Constants DEF RadFromWad
<1>5. QED
  <2> HIDE DEF a, b
  <2>1. QED
    BY <1>2, <1>3, <1>4, Sums2

LEMMA StartSwapKeeps ==
  ASSUME FInv, StartSwap
  PROVE  FInv'
<1> DEFINE c == Mine.coins + Total
           o == Total * price
           m == [Mine EXCEPT !.coins = c, !.owes = o]
<1>1. /\ tx.pc = "swap" /\ Goto("join") /\ Becomes(m)
      /\ UNCHANGED <<critical, raise, price>>
  BY DEF StartSwap, At, Frame
<1>2. /\ tx' \in TxState /\ tx'.pc = "join" /\ tx'.ids = tx.ids
      /\ tx'.type = tx.type /\ tx'.twice = tx.twice /\ tx'.chosen = tx.chosen
      /\ UNCHANGED <<saved, profit, calls, outcome>>
  BY <1>1, GotoStep
<1>3. Total \in Nat /\ Total = Sum(tx, raise) /\ o \in Nat
  <2>1. Total \in Nat /\ price \in Nat /\ Total = Sum(tx, raise)
    BY <1>1, Borrows DEF FInv, Chain
  <2>2. QED
    BY <2>1
<1>4. Chain'
  BY <1>1, <1>2 DEF FInv, Chain
<1>5. Books'
  <2>1. /\ Mine \in ProxyState /\ Mine.coins = 0 /\ Mine.joined = Mine.spared
        /\ Mine.won = 0 /\ Mine.wallet = 0
        /\ tx.type = "MultiCollateral" => Mine.approved
    BY <1>1, MyBooks DEF Ledger
  <2>2. c = Total /\ c \in Nat
    BY <1>3, <2>1
  <2>3. /\ m \in ProxyState /\ m.coins = Total /\ m.joined = m.spared
        /\ m.won = 0 /\ m.wallet = 0 /\ m.approved = Mine.approved
    <3> HIDE DEF c, o
    <3>1. QED
      BY <1>3, <2>1, <2>2 DEF ProxyState
  <2>4. Sum(tx', raise') = Sum(tx, raise)
    BY <1>1, <1>2 DEF Sum
  <2> HIDE DEF m
  <2>5. Ledger(m, tx', raise')
    BY <1>2, <1>3, <2>1, <2>3, <2>4 DEF Ledger
  <2>6. QED
    BY <1>1, <1>2, <2>3, <2>5, BooksGoOn
<1>6. Since'
  BY <1>1, <1>2, SinceGoesOn
<1>7. QED
  BY <1>2, <1>4, <1>5, <1>6 DEF FInv, RevertHasCause

(* A pool that never calls back leaves nothing but itself.                 *)
LEMMA PoolIsSilentKeeps ==
  ASSUME FInv, PoolIsSilent
  PROVE  FInv'
<1> DEFINE m == [Mine EXCEPT !.approved = FALSE, !.mute = TRUE]
<1>1. /\ tx.pc = "swap" /\ tx.chosen /\ End("silent") /\ Becomes(m)
      /\ UNCHANGED <<critical, raise, profit, price>>
  BY DEF PoolIsSilent, At, Frame
<1>2. /\ tx' \in TxState /\ tx'.pc = "none" /\ saved' \in Savings
      /\ calls' = calls + 1 /\ outcome' = "silent"
  BY <1>1, EndStep
<1>3. Chain'
  BY <1>1, <1>2 DEF FInv, Chain
<1>4. Books'
  <2>1. /\ Mine \in ProxyState /\ Mine.coins = 0 /\ Mine.joined = Mine.spared
        /\ Mine.won = 0 /\ Mine.wallet = 0 /\ Mine.owes = 0
        /\ Mine.pair = (tx.type = "MultiCollateral")
        /\ tx.type = "MultiCollateral"
    BY <1>1, MyBooks DEF Ledger
  <2>2. m \in ProxyState /\ Closed(m)
    BY <2>1 DEF ProxyState, Closed
  <2> HIDE DEF m
  <2>3. QED
    BY <1>1, <1>2, <2>2, BooksClose
<1>5. Since'
  BY <1>2 DEF Since
<1>6. QED
  BY <1>2, <1>3, <1>4, <1>5 DEF FInv, RevertHasCause

(* Joining takes all the coins there are, by either proxy's count.         *)
LEMMA JoinCoinsKeeps ==
  ASSUME FInv, JoinCoins
  PROVE  FInv'
<1>1. tx.pc = "join" /\ UNCHANGED price
  BY DEF JoinCoins, At, Frame
<1>2. /\ Mine \in ProxyState /\ Mine.coins = Sum(tx, raise)
      /\ Mine.joined = Mine.spared /\ Mine.won = 0 /\ Mine.wallet = 0
      /\ tx.type = "MultiCollateral" => Mine.approved
  BY <1>1, MyBooks DEF Ledger
<1>3. Total = Mine.coins /\ Mine.coins \in Nat
      /\ RadFromWad(Sum(tx, raise)) \in Nat
  BY <1>1, <1>2, Borrows DEF ProxyState
<1> DEFINE n == IF tx.type = "MultiHop" THEN Mine.coins ELSE Total
           c == Mine.coins - n
           j == Mine.joined + RadFromWad(n)
           m == [Mine EXCEPT !.coins = c, !.joined = j]
<1>a. n = Mine.coins /\ ~(n > Mine.coins)
  BY <1>3
<1>b. c = 0 /\ j = Mine.spared + RadFromWad(Sum(tx, raise)) /\ j \in Nat
  <2>1. RadFromWad(n) = RadFromWad(Sum(tx, raise)) /\ Mine.spared \in Nat
    BY <1>2, <1>a DEF ProxyState
  <2> HIDE DEF n
  <2>2. QED
    BY <1>2, <1>3, <1>a, <2>1
<1>4. Becomes(m) /\ Goto("bid") /\ UNCHANGED <<critical, raise>>
  BY <1>a DEF JoinCoins
<1> HIDE DEF n, c, j
<1>5. /\ tx' \in TxState /\ tx'.pc = "bid" /\ tx'.ids = tx.ids
      /\ tx'.type = tx.type /\ tx'.twice = tx.twice /\ tx'.chosen = tx.chosen
      /\ UNCHANGED <<saved, profit, calls, outcome>>
  BY <1>4, GotoStep
<1>6. Chain'
  BY <1>1, <1>4, <1>5 DEF FInv, Chain
<1>7. Books'
  <2>1. /\ m \in ProxyState /\ m.coins = 0 /\ m.joined = j
        /\ m.spared = Mine.spared
        /\ m.won = 0 /\ m.wallet = 0 /\ m.approved = Mine.approved
    BY <1>2, <1>b DEF ProxyState
  <2>2. Sum(tx', raise') = Sum(tx, raise)
    BY <1>4, <1>5 DEF Sum
  <2> HIDE DEF m
  <2>3. Ledger(m, tx', raise')
    BY <1>2, <1>5, <1>b, <2>1, <2>2 DEF Ledger
  <2>4. QED
    BY <1>1, <1>4, <1>5, <2>1, <2>3, BooksGoOn
<1>8. Since'
  BY <1>1, <1>4, <1>5, SinceGoesOn
<1>9. QED
  BY <1>5, <1>6, <1>7, <1>8 DEF FInv, RevertHasCause

LEMMA BidKeeps ==
  ASSUME FInv, Bid
  PROVE  FInv'
<1>1. tx.pc = "bid" /\ UNCHANGED price
  BY DEF Bid, At, Frame
<1>2. CASE Revert("HouseRefuses")
  BY <1>1, <1>2, RevertKeeps
<1>3. ASSUME NEW sale \in Taken,
        LET cost == MapThenSumSet(LAMBDA s : sale[s].paid, tx.ids)
            denied == tx.type = "MultiCollateral" /\ ~Mine.approved
        IN IF denied \/ cost > Mine.joined THEN Revert("BidRefused")
           ELSE IF tx.twice # {} THEN Revert("GivenTwice")
           ELSE /\ Becomes([Mine EXCEPT
                     !.joined = @ - cost,
                     !.spared = @ + (MapThenSumSet(Asked, tx.ids) - cost),
                     !.won = @ + Lot * Cardinality(tx.ids)])
                /\ raise' = [s \in Safe |-> IF s \in tx.ids THEN sale[s].rest
                                            ELSE raise[s]]
                /\ Goto("exit")
                /\ UNCHANGED critical
      PROVE  FInv'
  <2> DEFINE cost == MapThenSumSet(LAMBDA s : sale[s].paid, tx.ids)
             asked == MapThenSumSet(Asked, tx.ids)
             n == Cardinality(tx.ids)
             j == Mine.joined - cost
             p == Mine.spared + (asked - cost)
             w == Mine.won + Lot * n
             m == [Mine EXCEPT !.joined = j, !.spared = p, !.won = w]
  <2>1. /\ Mine \in ProxyState /\ Mine.coins = 0
        /\ Mine.joined = Mine.spared + RadFromWad(Sum(tx, raise))
        /\ Mine.won = 0 /\ Mine.wallet = 0
        /\ tx.type = "MultiCollateral" => Mine.approved
    BY <1>1, MyBooks DEF Ledger
  <2>2. raise \in [Safe -> Nat] /\ tx.ids \in SUBSET Safe /\ tx.ids # {}
        /\ \A s \in tx.ids : raise[s] > 0
    BY <1>1, AtStep DEF FInv, Since
  <2>3. \A s \in tx.ids : sale[s] \in Sales(raise[s], raise[s])
    BY DEF Taken, Sold, Offer
  <2>4. cost \in Nat /\ cost <= Cost(raise, tx.ids)
    <3>1. cost = Proceeds(sale, tx.ids)
      BY DEF Proceeds
    <3>2. /\ Proceeds(sale, tx.ids) \in Nat
          /\ Proceeds(sale, tx.ids) <= Cost(raise, tx.ids)
      BY <2>2, <2>3, PriceBounds
    <3> HIDE DEF cost
    <3>3. QED
      BY <3>1, <3>2
  <2>5. /\ asked = Cost(raise, tx.ids) /\ asked \in Nat
        /\ asked <= RadFromWad(Sum(tx, raise))
        /\ RadFromWad(Sum(tx, raise)) \in Nat
        /\ tx.twice = {} => asked = RadFromWad(Sum(tx, raise))
    BY <1>1, Borrows
  <2>6. Mine.spared \in Nat /\ cost <= asked /\ ~(cost > Mine.joined)
    <3>1. Mine.spared \in Nat
      BY <2>1 DEF ProxyState
    <3> HIDE DEF cost, asked
    <3>2. QED
      BY <2>1, <2>4, <2>5, <3>1
  <2>7. CASE tx.twice # {}
    <3>1. Revert("GivenTwice")
      <4> HIDE DEF cost, asked, n
      <4>1. QED
        BY <1>3, <2>1, <2>6, <2>7 DEF cost
    <3>2. QED
      BY <1>1, <3>1, RevertKeeps
  <2>8. CASE tx.twice = {}
    <3>1. /\ Becomes(m)
          /\ raise' = [s \in Safe |-> IF s \in tx.ids THEN sale[s].rest
                                      ELSE raise[s]]
          /\ Goto("exit")
          /\ UNCHANGED critical
      <4>1. ~((tx.type = "MultiCollateral" /\ ~Mine.approved) \/ cost > Mine.joined)
        <5> HIDE DEF cost
        <5>1. QED
          BY <2>1, <2>6
      <4>2. QED
        BY <1>3, <2>8, <4>1
    <3>2. /\ tx' \in TxState /\ tx'.pc = "exit" /\ tx'.ids = tx.ids
          /\ tx'.type = tx.type /\ tx'.chosen = tx.chosen
          /\ UNCHANGED <<saved, profit, calls, outcome>>
      BY <3>1, GotoStep
    <3>3. raise' = Zeroed(raise, tx.ids)
      <4>1. ASSUME NEW s \in tx.ids PROVE sale[s].rest = 0
        <5>1. raise[s] \in Nat /\ raise[s] > 0 /\ sale[s] \in Sales(raise[s], raise[s])
          BY <2>2, <2>3
        <5>2. QED
          BY <5>1, SaleBounds
      <4>2. QED
        BY <3>1, <4>1 DEF Zeroed
    <3>4. Chain'
      <4>1. raise' \in [Safe -> Nat]
        BY <2>2, <3>3 DEF Zeroed
      <4>2. QED
        BY <1>1, <3>1, <3>2, <4>1 DEF FInv, Chain
    <3>5. Books'
      <4>1. w \in Nat
        <5>1. n \in Nat
          BY <2>2, Constants, FS_Subset, FS_CardinalityType
        <5> HIDE DEF n
        <5>2. Lot * n \in Nat
          BY <5>1, Constants
        <5>3. QED
          BY <2>1, <5>2
      <4>2. j \in Nat /\ p \in Nat /\ j = p
        <5> HIDE DEF cost, asked
        <5>1. QED
          BY <2>1, <2>4, <2>5, <2>6, <2>8
      <4>3. /\ m \in ProxyState /\ m.coins = 0 /\ m.joined = m.spared
            /\ m.wallet = 0
        <5> HIDE DEF j, p, w
        <5>1. QED
          BY <2>1, <4>1, <4>2 DEF ProxyState
      <4> HIDE DEF m
      <4>4. Ledger(m, tx', raise')
        BY <3>2, <4>3 DEF Ledger
      <4>5. QED
        BY <1>1, <3>1, <3>2, <4>3, <4>4, BooksGoOn
    <3>6. Since'
      <4>1. CASE critical = saved[1] /\ raise = saved[2]
        BY <2>2, <3>1, <3>2, <3>3, <4>1 DEF Since, Zeroed
      <4>2. ASSUME NEW s \in Safe, Liquidating(s),
                   \A r \in Safe \ {s} : raise[r] = saved[2][r]
            PROVE  Since'
        <5>1. saved[2] \in [Safe -> Nat] /\ saved[2][s] = 0 /\ tx.ids = {s}
          BY <4>2, AtStep DEF Liquidating
        <5>2. raise' = saved[2]
          BY <3>3, <4>2, <5>1 DEF Zeroed
        <5>3. Liquidating(s)'
          BY <3>1, <3>2, <4>2 DEF Liquidating
        <5>4. QED
          BY <3>2, <5>2, <5>3 DEF Since
      <4>3. QED
        BY <1>1, <4>1, <4>2 DEF FInv, Since
    <3>7. QED
      BY <3>2, <3>4, <3>5, <3>6 DEF FInv, RevertHasCause
  <2>9. QED
    BY <2>7, <2>8
<1>4. QED
  BY <1>2, <1>3 DEF Bid

LEMMA ExitCollateralKeeps ==
  ASSUME FInv, ExitCollateral
  PROVE  FInv'
<1> DEFINE w == Mine.wallet + Mine.won
           m == [Mine EXCEPT !.wallet = w, !.won = 0]
<1>1. /\ tx.pc = "exit" /\ Goto("repay") /\ Becomes(m)
      /\ UNCHANGED <<critical, raise, price>>
  BY DEF ExitCollateral, At, Frame
<1>2. /\ tx' \in TxState /\ tx'.pc = "repay" /\ tx'.ids = tx.ids
      /\ tx'.type = tx.type /\ tx'.twice = tx.twice /\ tx'.chosen = tx.chosen
      /\ UNCHANGED <<saved, profit, calls, outcome>>
  BY <1>1, GotoStep
<1>3. Chain'
  BY <1>1, <1>2 DEF FInv, Chain
<1>4. Books'
  <2>1. Mine \in ProxyState /\ Mine.coins = 0 /\ Mine.joined = Mine.spared
    BY <1>1, MyBooks DEF Ledger
  <2>2. w \in Nat
    BY <2>1 DEF ProxyState
  <2>3. /\ m \in ProxyState /\ m.coins = 0 /\ m.joined = m.spared
        /\ m.won = 0
    <3> HIDE DEF w
    <3>1. QED
      BY <2>1, <2>2 DEF ProxyState
  <2> HIDE DEF m
  <2>4. Ledger(m, tx', raise')
    BY <1>2, <2>3 DEF Ledger
  <2>5. QED
    BY <1>1, <1>2, <2>3, <2>4, BooksGoOn
<1>5. Since'
  BY <1>1, <1>2, SinceGoesOn
<1>6. QED
  BY <1>2, <1>3, <1>4, <1>5 DEF FInv, RevertHasCause

LEMMA RepayKeeps ==
  ASSUME FInv, Repay
  PROVE  FInv'
<1>1. tx.pc = "repay" /\ UNCHANGED price
  BY DEF Repay, At, Frame
<1>2. CASE Mine.owes > Mine.wallet
  BY <1>1, <1>2, RevertKeeps DEF Repay
<1>3. CASE ~(Mine.owes > Mine.wallet)
  <2> DEFINE w == Mine.wallet - Mine.owes
             m == [Mine EXCEPT !.wallet = w, !.owes = 0]
  <2>1. Becomes(m) /\ Goto("pay") /\ UNCHANGED <<critical, raise>>
    BY <1>3 DEF Repay
  <2>2. /\ tx' \in TxState /\ tx'.pc = "pay" /\ tx'.ids = tx.ids
        /\ tx'.type = tx.type /\ tx'.twice = tx.twice /\ tx'.chosen = tx.chosen
        /\ UNCHANGED <<saved, profit, calls, outcome>>
    BY <2>1, GotoStep
  <2>3. Chain'
    BY <1>1, <2>1, <2>2 DEF FInv, Chain
  <2>4. Books'
    <3>1. /\ Mine \in ProxyState /\ Mine.coins = 0 /\ Mine.joined = Mine.spared
          /\ Mine.won = 0
      BY <1>1, MyBooks DEF Ledger
    <3>2. w \in Nat
      BY <1>3, <3>1 DEF ProxyState
    <3>3. /\ m \in ProxyState /\ m.coins = 0 /\ m.joined = m.spared
          /\ m.won = 0 /\ m.owes = 0
      <4> HIDE DEF w
      <4>1. QED
        BY <3>1, <3>2 DEF ProxyState
    <3> HIDE DEF m
    <3>4. Ledger(m, tx', raise')
      BY <2>2, <3>3 DEF Ledger
    <3>5. QED
      BY <1>1, <2>1, <2>2, <3>3, <3>4, BooksGoOn
  <2>5. Since'
    BY <1>1, <2>1, <2>2, SinceGoesOn
  <2>6. QED
    BY <2>2, <2>3, <2>4, <2>5 DEF FInv, RevertHasCause
<1>4. QED
  BY <1>2, <1>3

LEMMA PayCallerKeeps ==
  ASSUME FInv, PayCaller
  PROVE  FInv'
<1> DEFINE m == [Mine EXCEPT !.wallet = 0, !.pair = FALSE, !.approved = FALSE,
                             !.mute = FALSE]
<1>1. /\ tx.pc = "pay" /\ End("done") /\ Becomes(m)
      /\ profit' = profit + Mine.wallet
      /\ UNCHANGED <<critical, raise, price>>
  BY DEF PayCaller, At, Frame
<1>2. /\ Mine \in ProxyState /\ Mine.coins = 0 /\ Mine.joined = Mine.spared
      /\ Mine.won = 0 /\ Mine.owes = 0
  BY <1>1, MyBooks DEF Ledger
<1>3. m \in ProxyState /\ Closed(m)
  BY <1>2 DEF ProxyState, Closed
<1>4. /\ tx' \in TxState /\ tx'.pc = "none" /\ saved' \in Savings
      /\ calls' = calls + 1 /\ outcome' = "done"
  BY <1>1, EndStep
<1>5. Chain'
  BY <1>1, <1>2, <1>4 DEF FInv, Chain, ProxyState
<1> HIDE DEF m
<1>6. Books' /\ Since'
  <2>1. Books'
    BY <1>1, <1>3, <1>4, BooksClose
  <2>2. Since'
    BY <1>4 DEF Since
  <2>3. QED
    BY <2>1, <2>2
<1>7. QED
  BY <1>4, <1>5, <1>6 DEF FInv, RevertHasCause
-----------------------------------------------------------------------------
(* There are two kinds of proxy. *)
LEMMA Strategies ==
  ASSUME Strategy(given) # Absent
  PROVE  Strategy(given) \in Kind
<1> DEFINE network == Parsed(given)["--network"]
           collateral == Parsed(given)["--collateral-type"]
<1>1. /\ network \in DOMAIN ProxyConfig
      /\ collateral \in DOMAIN ProxyConfig[network]
      /\ Strategy(given) = ProxyConfig[network][collateral]
  BY DEF Strategy
<1>2. network = "mainnet"
  BY <1>1 DEF ProxyConfig
<1>3. Strategy(given) = IF collateral = "WETH" THEN "MultiCollateral" ELSE "MultiHop"
  BY <1>1, <1>2 DEF ProxyConfig
<1>4. QED
  BY <1>3 DEF Kind

(* Calls begin with what a call may begin with.                            *)
LEMMA CallsKeep ==
  ASSUME FInv,
         \/ \E s \in Safe : FlashLiquidation(s)
         \/ \E type \in Kind, s \in Safe : LiquidateAndSettle(type, s)
         \/ \E type \in Kind, ids \in SUBSET Safe : \E twice \in SUBSET ids :
              SettleAuction(type, ids, twice)
  PROVE  FInv'
<1>1. ASSUME NEW s \in Safe, FlashLiquidation(s) PROVE FInv'
  <2>1. /\ Between /\ raise[s] = 0 /\ Strategy(given) # Absent
        /\ Start(Strategy(given), "liquidate", {s}, {}, FALSE)
    BY <1>1 DEF FlashLiquidation
  <2>2. Strategy(given) \in Kind
    BY <2>1, Strategies
  <2>3. QED
    BY <2>1, <2>2, StartKeeps
<1>2. ASSUME NEW type \in Kind, NEW s \in Safe, LiquidateAndSettle(type, s)
      PROVE  FInv'
  <2> DEFINE chosen == type = "MultiCollateral"
  <2>1. /\ Between /\ raise[s] = 0 /\ chosen \in BOOLEAN
        /\ Start(type, "liquidate", {s}, {}, chosen)
    BY <1>2 DEF LiquidateAndSettle
  <2>2. chosen => type = "MultiCollateral"
    OBVIOUS
  <2> HIDE DEF chosen
  <2>3. QED
    BY <2>1, <2>2, StartKeeps
<1>3. ASSUME NEW type \in Kind, NEW ids \in SUBSET Safe,
             NEW twice \in SUBSET ids, SettleAuction(type, ids, twice)
      PROVE  FInv'
  <2> DEFINE chosen == type = "MultiCollateral"
  <2>1. /\ Between /\ chosen \in BOOLEAN /\ twice \in SUBSET Safe
        /\ Start(type, "settle", ids, twice, chosen)
    BY <1>3 DEF SettleAuction
  <2>2. chosen => type = "MultiCollateral"
    OBVIOUS
  <2> HIDE DEF chosen
  <2>3. QED
    BY <2>1, <2>2, StartKeeps
<1>4. QED
  BY <1>1, <1>2, <1>3

(* Every step of the program keeps the invariant.                          *)
LEMMA FlashNext ==
  ASSUME FInv, [Next]_vars
  PROVE  FInv'
<1>1. CASE GetSafes \/ ScanFails
  BY <1>1, ScansKeep
<1>2. CASE Others
  BY <1>2, OthersKeep
<1>3. CASE Call
  BY <1>3, LiquidateSAFEKeeps, SettleKeeps, StartSwapKeeps, PoolIsSilentKeeps,
     JoinCoinsKeeps, BidKeeps, ExitCollateralKeeps, RepayKeeps, PayCallerKeeps
     DEF Call
<1>4. ASSUME NEW s \in Safe, PlainLiquidation(s) PROVE FInv'
  BY <1>4, PlainLiquidationKeeps
<1>5. CASE UNCHANGED vars
  <2>1. UNCHANGED <<critical, raise, price, profit, calls, tx, saved, proxy, outcome>>
    BY <1>5 DEF vars, chain, call
  <2>2. Chain' /\ RevertHasCause'
    BY <2>1 DEF FInv, Chain, RevertHasCause
  <2>3. Books'
    BY <2>1 DEF FInv, Books
  <2>4. Since'
    <3>1. \A s \in Safe : Liquidating(s)' <=> Liquidating(s)
      BY <2>1 DEF Liquidating
    <3>2. QED
      BY <2>1, <3>1 DEF FInv, Since
  <2>5. QED
    BY <2>2, <2>3, <2>4 DEF FInv
<1>6. QED
  BY Zenon, <1>1, <1>2, <1>3, <1>4, <1>5, CallsKeep DEF Next
-----------------------------------------------------------------------------
(* The invariant holds in every state of every behaviour. *)
THEOREM FlashInvariant == Spec => []FInv
<1>1. QED
  BY FlashInit, FlashNext, PTL DEF Spec

(* A proxy never spends what it has not; between two calls it holds no     *)
(* coin and no collateral, owes no pool, has in the engine exactly what the*)
(* house spared it because the collateral was sold out, and remembers a    *)
(* pool only if that pool did not call back.                               *)
THEOREM ProxyKeepsNothingAlways == Spec => []ProxyKeepsNothing
<1>1. FInv => ProxyKeepsNothing
  BY DEF FInv, Books, ProxyState, ProxyKeepsNothing, Between, Closed
<1>2. QED
  BY <1>1, FlashInvariant, PTL

(* A call reverts because of the safe, the market, the house or the ids it *)
(* was given, never because the rounding left it short of what is asked.   *)
THEOREM RevertHasCauseAlways == Spec => []RevertHasCause
<1>1. FInv => RevertHasCause
  BY DEF FInv
<1>2. QED
  BY <1>1, FlashInvariant, PTL
-----------------------------------------------------------------------------
(* The scans: what the history was started with and what it has seen.      *)
(* --from-block is a number, and the first scan begins with it or, as      *)
(* cacheLookback says, before it.                                          *)
ScanInv ==
  /\ given \in Argv
  /\ modified \in [Safe -> 0 .. Head]
  /\ ~scanned => cacheBlock = FromBlock(given)
  /\ scanned \in BOOLEAN
  /\ scanned /\ given["--from-block"] \in Int
       => {s \in Safe : modified[s] >= given["--from-block"]}
            \subseteq known \cup lost

LEMMA ChunkPositive ==
  ASSUME given \in Argv
  PROVE  ChunkSize(given) > 0 \/ given["--chunk-size"] \in Int \ Nat
<1>1. "--chunk-size" \in Key /\ "--chunk-size" \in Number
      /\ Default("--chunk-size") = 2000
  BY DEF Key, Number, Default, Flag
<1>2. given["--chunk-size"] \in Int \cup {Absent, NaN} /\ Absent \notin Int
  BY <1>1, ArgvAssumption
<1>3. ChunkSize(given) = IF Falsy("--chunk-size", given["--chunk-size"])
                         THEN 2000 ELSE given["--chunk-size"]
  BY <1>1, <1>2 DEF ChunkSize, Parsed
<1>4. CASE Falsy("--chunk-size", given["--chunk-size"])
  BY <1>3, <1>4
<1>5. CASE ~Falsy("--chunk-size", given["--chunk-size"])
  <2>1. \A k, v : ~Falsy(k, v) => v # Absent /\ (k \in Number => v \notin {0, NaN})
    BY Zenon DEF Falsy
  <2>2. given["--chunk-size"] # Absent /\ given["--chunk-size"] \notin {0, NaN}
    BY <1>1, <1>5, <2>1
  <2>3. given["--chunk-size"] \in Int /\ given["--chunk-size"] # 0
    BY <1>2, <2>2
  <2>4. QED
    BY <1>3, <1>5, <2>3
<1>6. QED
  BY <1>4, <1>5

LEMMA FromBlockGiven ==
  ASSUME given \in Argv, given["--from-block"] \in Int
  PROVE  FromBlock(given) = given["--from-block"] /\ FromBlock(given) # NaN
<1>1. "--from-block" \in Key /\ Default("--from-block") = Absent
  BY DEF Key, Number, Default, Flag
<1>2. NaN \notin Int /\ Absent \notin Int
  BY ArgvAssumption
<1>3. FromBlock(given) = given["--from-block"]
  BY <1>1, <1>2 DEF FromBlock, Parsed
<1>4. QED
  BY <1>2, <1>3

LEMMA GetSafesScans ==
  ASSUME ScanInv, GetSafes
  PROVE  ScanInv'
<1>1. /\ known \cup lost \cup Found \subseteq known' \cup lost'
      /\ scanned' = TRUE /\ UNCHANGED <<given, modified>>
  BY DEF GetSafes, chain
<1>2. ASSUME given["--from-block"] \in Int, ~scanned, NEW s \in Safe,
             modified[s] >= given["--from-block"]
      PROVE  s \in known' \cup lost'
  <2> DEFINE b == given["--from-block"]
             m == modified[s]
  <2>1. cacheBlock = b /\ b \in Int /\ b # NaN
    BY <1>2, FromBlockGiven DEF ScanInv
  <2>2. m \in 0 .. Head /\ Head \in Nat /\ Lookback \in Nat
    BY Constants DEF ScanInv
  <2>3. Window = (IF b > Lookback THEN b - Lookback ELSE 0) .. Head
    BY <2>1 DEF Window
  <2>4. m \in Window
    <3>1. m >= b
      BY <1>2
    <3> HIDE DEF b, m
    <3>2. QED
      BY <2>1, <2>2, <2>3, <3>1
  <2>5. QED
    BY <1>1, <2>4 DEF Found
<1>3. ScanInv'
  BY <1>1, <1>2 DEF ScanInv
<1>4. QED
  BY <1>3

LEMMA ScanNext ==
  ASSUME ScanInv, [Next]_vars
  PROVE  ScanInv'
<1> DEFINE seen == <<given, cacheBlock, known, lost, scanned, modified>>
<1>1. CASE GetSafes
  BY <1>1, GetSafesScans
<1>2. CASE UNCHANGED seen
  BY <1>2 DEF ScanInv
<1>3. ASSUME [Next]_vars, ~GetSafes PROVE UNCHANGED seen
  <2>1. Others => UNCHANGED seen
    BY DEF Others, PriceMoves, SafeMoves, OtherBids, OtherLiquidates, keeper
  <2>2. Call => UNCHANGED seen
    BY DEF Call, LiquidateSAFE, Settle, StartSwap, PoolIsSilent, JoinCoins, Bid,
       ExitCollateral, Repay, PayCaller, Frame, keeper
  <2>3. \A s \in Safe : PlainLiquidation(s) \/ FlashLiquidation(s)
                          => UNCHANGED seen
    BY DEF PlainLiquidation, FlashLiquidation, Start, chain, keeper
  <2>4. \A type, s : LiquidateAndSettle(type, s) => UNCHANGED seen
    BY DEF LiquidateAndSettle, Start, chain, keeper
  <2>5. \A type, ids, twice : SettleAuction(type, ids, twice) => UNCHANGED seen
    BY DEF SettleAuction, Start, chain, keeper
  <2>6. ScanFails \/ UNCHANGED vars => UNCHANGED seen
    BY DEF ScanFails, vars, chain, keeper
  <2> HIDE DEF seen
  <2>7. QED
    BY <1>3, <2>1, <2>2, <2>3, <2>4, <2>5, <2>6 DEF Next
<1>4. QED
  BY <1>1, <1>2, <1>3

(* A keeper that was given --from-block knows after its first scan every   *)
(* safe modified since then whose init did not fail, and its windows move  *)
(* on unless it was given a negative chunk.                                *)
THEOREM ScansAsToldAlways == Spec => []ScansAsTold
<1>1. Init => ScanInv
  BY DEF Init, ScanInv
<1>2. ScanInv => ScansAsTold
  BY ChunkPositive DEF ScanInv, ScansAsTold
<1>3. QED
  BY <1>1, <1>2, ScanNext, PTL DEF Spec
-----------------------------------------------------------------------------
(* What the promise sees: the chain as a revert would restore it.          *)
ShownCritical == IF Between THEN critical ELSE saved[1]
ShownRaise == IF Between THEN raise ELSE saved[2]

(* A step that shows nothing is a stutter of the promise.                  *)
LEMMA SilentStep ==
  ASSUME UNCHANGED <<ShownCritical, ShownRaise, profit, calls, outcome>>
  PROVE  UNCHANGED Promise!vars
BY DEF ShownCritical, ShownRaise, Promise!vars

(* The steps of a call before its last are silent.                         *)
LEMMA InsideACall ==
  ASSUME ~Between, tx'.pc # "none", GoOn
  PROVE  UNCHANGED Promise!vars
<1>1. UNCHANGED <<ShownCritical, ShownRaise, profit, calls, outcome>>
  BY DEF ShownCritical, ShownRaise, Between, GoOn
<1>2. QED
  BY <1>1, SilentStep

(* A revert is a call that fails.                                          *)
LEMMA RevertRefines ==
  ASSUME ~Between, NEW why, why # "silent", Revert(why)
  PROVE  Promise!Next
<1>1. /\ Between' /\ critical' = saved[1] /\ raise' = saved[2]
      /\ profit' = profit /\ calls' = calls + 1 /\ outcome' = why
  BY DEF Revert, End, NoCall, Between
<1>2. Promise!Fail
  BY <1>1 DEF Promise!Fail
<1>3. (outcome = "silent")' = FALSE
  BY <1>1
<1>4. QED
  BY <1>1, <1>2, <1>3 DEF Promise!Next, Promise!Call

LEMMA GotoInside ==
  ASSUME FInv, ~Between,
         NEW pc \in {"settle", "swap", "join", "bid", "exit", "repay", "pay"},
         Goto(pc)
  PROVE  UNCHANGED Promise!vars
<1>1. tx'.pc = pc
  BY GotoStep
<1>2. QED
  BY <1>1, InsideACall DEF Goto

(* A pool that never calls back may leave a liquidation, and pays nobody.  *)
LEMMA PoolIsSilentRefines ==
  ASSUME FInv, PoolIsSilent
  PROVE  Promise!Next
<1>1. /\ tx.pc = "swap" /\ ~Between /\ Between' /\ calls' = calls + 1
      /\ outcome' = "silent" /\ UNCHANGED <<critical, raise, profit>>
  BY DEF PoolIsSilent, End, At, Between, NoCall
<1>2. /\ ShownCritical = saved[1] /\ ShownCritical' = critical
      /\ ShownRaise = saved[2] /\ ShownRaise' = raise
  BY <1>1 DEF ShownCritical, ShownRaise
<1>3. Promise!Abandon
  <2>1. CASE critical = saved[1] /\ raise = saved[2]
    BY <1>1, <1>2, <2>1 DEF Promise!Abandon, ShownCritical, ShownRaise
  <2>2. ASSUME NEW s \in Safe, Liquidating(s),
               \A r \in Safe \ {s} : raise[r] = saved[2][r]
        PROVE  Promise!Abandon
    <3>1. Promise!LiquidateOnly(s)
      BY <1>2, <2>2 DEF Promise!LiquidateOnly, Liquidating,
                        ShownCritical, ShownRaise
    <3>2. QED
      BY <1>1, <3>1 DEF Promise!Abandon
  <2>3. QED
    BY <1>1, <2>1, <2>2 DEF FInv, Since
<1>4. (outcome = "silent")' = TRUE
  BY <1>1
<1>5. QED
  BY <1>1, <1>3, <1>4 DEF Promise!Next, Promise!Call

(* The last step of a call settles its auctions, or has liquidated a safe. *)
LEMMA PayCallerRefines ==
  ASSUME FInv, PayCaller
  PROVE  Promise!Next
<1>1. /\ tx.pc = "pay" /\ ~Between /\ Between'
      /\ calls' = calls + 1 /\ profit' = profit + Mine.wallet
      /\ outcome' = "done" /\ UNCHANGED <<critical, raise>>
  BY DEF PayCaller, End, At, Between, NoCall
<1>2. profit' >= profit
  <2>1. Mine \in ProxyState
    BY <1>1, MyBooks
  <2>2. QED
    BY <1>1, <2>1 DEF FInv, Chain, ProxyState
<1>3. /\ ShownCritical = saved[1] /\ ShownCritical' = critical
      /\ ShownRaise = saved[2] /\ ShownRaise' = raise
  BY <1>1 DEF ShownCritical, ShownRaise
<1>4. tx.ids \in SUBSET Safe
  BY AtStep
<1>5. (outcome = "silent")' = FALSE
  BY <1>1
<1>6. CASE /\ tx.ids # {} /\ \A s \in tx.ids : saved[2][s] > 0
           /\ critical = saved[1] /\ raise = Zeroed(saved[2], tx.ids)
  <2>1. Promise!Settle(tx.ids)
    BY <1>3, <1>6 DEF Promise!Settle, Zeroed, ShownCritical, ShownRaise
  <2>2. Promise!Succeed
    BY <1>2, <1>4, <1>6, <2>1 DEF Promise!Succeed
  <2>3. QED
    BY <1>1, <1>5, <2>2 DEF Promise!Next, Promise!Call
<1>7. ASSUME NEW s \in Safe, Liquidating(s), raise = saved[2]
      PROVE  Promise!Next
  <2>1. Promise!LiquidateAndSettle(s)
    BY <1>3, <1>7 DEF Promise!LiquidateAndSettle, Liquidating,
                      ShownCritical, ShownRaise
  <2>2. Promise!Succeed
    BY <1>2, <2>1 DEF Promise!Succeed
  <2>3. QED
    BY <1>1, <1>5, <2>2 DEF Promise!Next, Promise!Call
<1>8. QED
  BY <1>1, <1>6, <1>7 DEF FInv, Since

LEMMA CallRefines ==
  ASSUME FInv, Call
  PROVE  [Promise!Next]_(Promise!vars)
<1>1. ~Between
  BY DEF Call, LiquidateSAFE, Settle, StartSwap, PoolIsSilent, JoinCoins, Bid,
         ExitCollateral, Repay, PayCaller, At, Between
<1>2. CASE LiquidateSAFE
  <2>1. PICK s \in tx.ids :
          Revert("SafeIsProtected") \/ Revert("NotCritical") \/ Goto("settle")
    BY <1>2 DEF LiquidateSAFE
  <2>2. QED
    BY <1>1, <2>1, RevertRefines, GotoInside
<1>3. CASE Settle
  <2>1. \/ Revert("AlreadySettled")
        \/ /\ tx' = [tx EXCEPT !.pc = "swap", !.ids = Open,
                              !.twice = @ \cap Open]
           /\ GoOn
    BY <1>3 DEF Settle
  <2>2. ASSUME tx' = [tx EXCEPT !.pc = "swap", !.ids = Open,
                               !.twice = @ \cap Open]
        PROVE  tx'.pc # "none"
    BY <2>2, AtStep DEF TxState
  <2>3. QED
    BY <1>1, <2>1, <2>2, RevertRefines, InsideACall
<1>4. CASE StartSwap
  BY <1>1, <1>4, GotoInside DEF StartSwap
<1>5. CASE PoolIsSilent
  BY <1>5, PoolIsSilentRefines
<1>6. CASE JoinCoins
  <2>1. Revert("NoCoins") \/ Goto("bid")
    BY <1>6 DEF JoinCoins
  <2>2. QED
    BY <1>1, <2>1, RevertRefines, GotoInside
<1>7. CASE Bid
  <2>1. \/ Revert("HouseRefuses") \/ Revert("BidRefused")
        \/ Revert("GivenTwice") \/ Goto("exit")
    BY <1>7 DEF Bid
  <2>2. QED
    BY <1>1, <2>1, RevertRefines, GotoInside
<1>8. CASE ExitCollateral
  BY <1>1, <1>8, GotoInside DEF ExitCollateral
<1>9. CASE Repay
  <2>1. Revert("unprofitable") \/ Goto("pay")
    BY <1>9 DEF Repay
  <2>2. QED
    BY <1>1, <2>1, RevertRefines, GotoInside
<1>10. CASE PayCaller
  BY <1>10, PayCallerRefines
<1>11. QED
  BY <1>2, <1>3, <1>4, <1>5, <1>6, <1>7, <1>8, <1>9, <1>10 DEF Call

(* What others do between two calls is a step of the environment.          *)
LEMMA OthersRefine ==
  ASSUME FInv, Between, Between', UNCHANGED <<profit, calls, outcome>>,
         NEW s \in Safe,
         \/ /\ critical' \in {critical \ {s}, critical \cup {s}}
            /\ UNCHANGED raise
         \/ /\ \A r \in Safe \ {s} : raise'[r] = raise[r]
            /\ raise'[s] < raise[s]
            /\ UNCHANGED critical
         \/ Liquidated(s)
  PROVE  Promise!Next
<1>1. Liquidated(s) => /\ s \in critical /\ critical' = critical \ {s}
                       /\ \A r \in Safe \ {s} : raise'[r] = raise[r]
  BY LiquidatedTypes DEF FInv
<1>2. Promise!Environment
  BY <1>1 DEF Promise!Environment, Promise!LiquidateOnly
<1>3. QED
  BY <1>2 DEF Promise!Next

(* A call of a proxy is one step of the promise, the one that ends it; a   *)
(* step before that shows nothing.                                         *)
THEOREM FlashStepRefines == FInv /\ [Next]_vars => [Promise!Next]_(Promise!vars)
<1> SUFFICES ASSUME FInv, [Next]_vars PROVE [Promise!Next]_(Promise!vars)
  OBVIOUS
<1>1. ASSUME UNCHANGED <<chain, call>>
      PROVE  UNCHANGED Promise!vars
  <2>1. UNCHANGED <<ShownCritical, ShownRaise, profit, calls, outcome>>
    BY <1>1 DEF chain, call, ShownCritical, ShownRaise, Between
  <2>2. QED
    BY <2>1, SilentStep
<1>2. CASE GetSafes \/ ScanFails \/ UNCHANGED vars
  BY <1>1, <1>2 DEF GetSafes, ScanFails, vars
<1>3. CASE PriceMoves
  <2>1. UNCHANGED <<ShownCritical, ShownRaise, profit, calls, outcome>>
    BY <1>3 DEF PriceMoves, call, ShownCritical, ShownRaise, Between
  <2>2. QED
    BY <2>1, SilentStep
<1>4. ASSUME NEW s \in Safe, SafeMoves(s) PROVE Promise!Next
  <2>1. /\ Between /\ Between' /\ UNCHANGED <<profit, calls, outcome, raise>>
        /\ critical' \in {critical \ {s}, critical \cup {s}}
    BY <1>4 DEF SafeMoves, call, Between
  <2>2. QED
    BY <2>1, OthersRefine
<1>5. ASSUME NEW s \in Safe, OtherBids(s) PROVE Promise!Next
  <2>1. PICK n \in 0 .. raise[s] - 1 : raise' = [raise EXCEPT ![s] = n]
    BY <1>5 DEF OtherBids
  <2>2. /\ Between /\ Between' /\ UNCHANGED <<profit, calls, outcome, critical>>
    BY <1>5 DEF OtherBids, call, Between
  <2>3. /\ \A r \in Safe \ {s} : raise'[r] = raise[r]
        /\ raise'[s] < raise[s]
    BY <2>1, AtStep
  <2>4. QED
    BY <2>2, <2>3, OthersRefine
<1>6. ASSUME NEW s \in Safe, PlainLiquidation(s) \/ OtherLiquidates(s)
      PROVE  Promise!Next
  <2>1. /\ Between /\ Between' /\ UNCHANGED <<profit, calls, outcome>>
        /\ Liquidated(s)
    BY <1>6 DEF PlainLiquidation, OtherLiquidates, call, Between
  <2>2. QED
    BY <2>1, OthersRefine
<1>7. ASSUME Between, NEW type, NEW pc \in {"liquidate", "settle"}, NEW ids,
             NEW twice, NEW chosen, Start(type, pc, ids, twice, chosen)
      PROVE  UNCHANGED Promise!vars
  <2>1. /\ tx'.pc # "none" /\ saved'[1] = critical /\ saved'[2] = raise
        /\ UNCHANGED <<profit, calls, outcome>>
    BY <1>7 DEF Start
  <2>2. UNCHANGED <<ShownCritical, ShownRaise>>
    BY <1>7, <2>1 DEF ShownCritical, ShownRaise, Between
  <2>3. QED
    BY <2>1, <2>2, SilentStep
<1>8. ASSUME NEW s \in Safe, FlashLiquidation(s) PROVE UNCHANGED Promise!vars
  BY <1>7, <1>8 DEF FlashLiquidation
<1>9. ASSUME NEW type, NEW s, LiquidateAndSettle(type, s)
      PROVE  UNCHANGED Promise!vars
  BY <1>7, <1>9 DEF LiquidateAndSettle
<1>10. ASSUME NEW type, NEW ids, NEW twice, SettleAuction(type, ids, twice)
       PROVE  UNCHANGED Promise!vars
  BY <1>7, <1>10 DEF SettleAuction
<1>11. CASE Others
  BY <1>3, <1>4, <1>5, <1>6, <1>11 DEF Others
<1>12. CASE Call
  BY <1>12, CallRefines
<1>13. CASE \E s \in Safe : PlainLiquidation(s) \/ FlashLiquidation(s)
  BY <1>6, <1>8, <1>13
<1>14. QED
  BY Zenon, <1>2, <1>9, <1>10, <1>11, <1>12, <1>13 DEF Next

(* The proxies keep their promise: every call is one step that settles its *)
(* auctions and pays the caller what is left, or changes nothing, or had a *)
(* pool that never called back.                                            *)
THEOREM FlashRefinement == Spec => ImplementsSettlement
<1>1. Init => Promise!Init
  <2>1. Init => (outcome = "silent") = FALSE
    BY DEF Init
  <2>2. QED
    BY <2>1 DEF Init, NoCall, Between, Promise!Init
<1>2. QED
  BY <1>1, FlashStepRefines, FlashInvariant, PTL
  DEF Spec, ImplementsSettlement, Promise!Spec
=============================================================================
