----------------------------- MODULE NumberLemmas ----------------------------
(***************************************************************************)
(* Facts about numbers and sums that the proofs about every component      *)
(* need: whole division, least and greatest members, powers of two, and    *)
(* the sum of a function when one value comes or goes.                     *)
(*                                                                         *)
(* Powers are reached through cardinalities: a set of n members has 2^n    *)
(* subsets, and a subset of two disjoint sets is a pair of subsets.        *)
(***************************************************************************)
EXTENDS Sums, FiniteSetTheorems, FunctionTheorems, TLAPS

-----------------------------------------------------------------------------
(* Whole division. *)

\* The quotient is the whole number of times b goes into a.
LEMMA DivBounds ==
  ASSUME NEW a \in Nat, NEW b \in Nat \ {0}
  PROVE  /\ a \div b \in Nat
         /\ (a \div b) * b <= a
         /\ a < (a \div b) * b + b
OBVIOUS

\* Multiplication preserves order.
LEMMA MulMonotone ==
  ASSUME NEW a \in Nat, NEW b \in Nat, NEW c \in Nat, a <= b
  PROVE  a * c <= b * c
OBVIOUS

\* The quotient is the largest such number.
LEMMA DivLargest ==
  ASSUME NEW a \in Nat, NEW b \in Nat \ {0}, NEW q \in Nat, q * b <= a
  PROVE  q <= a \div b
<1> DEFINE p == a \div b
<1>1. p \in Nat /\ a < p * b + b
  BY DivBounds
<1>2. SUFFICES ASSUME p + 1 <= q PROVE FALSE
  BY <1>1
<1>3. (p + 1) * b <= q * b
  BY <1>1, <1>2, MulMonotone
<1>4. (p + 1) * b = p * b + b
  BY <1>1
<1> QED
  BY <1>1, <1>3, <1>4

\* Division preserves order.
LEMMA DivMonotone ==
  ASSUME NEW a \in Nat, NEW c \in Nat, NEW b \in Nat \ {0}, a <= c
  PROVE  a \div b <= c \div b
<1>1. a \div b \in Nat /\ (a \div b) * b <= a
  BY DivBounds
<1>2. (a \div b) * b <= c
  BY <1>1
<1> QED
  BY <1>1, <1>2, DivLargest

-----------------------------------------------------------------------------
(* Least and greatest members. *)

\* Some member of a set of natural numbers is the least.
LEMMA LeastMember ==
  ASSUME NEW T \in SUBSET Nat, T # {}
  PROVE  \E x \in T : \A y \in T : x <= y
<1>1. PICK x \in T : \A y \in T : ~ (<<y, x>> \in OpToRel(<, Nat))
  BY NatLessThanWellFounded, WFMin
<1>2. \A y \in T : ~ (y < x)
  BY <1>1 DEF OpToRel
<1> QED
  BY <1>2

\* Some member of a set of integers that has a bound is the greatest.
LEMMA GreatestMember ==
  ASSUME NEW T \in SUBSET Int, T # {}, NEW b \in Int, \A x \in T : x <= b
  PROVE  \E x \in T : \A y \in T : x >= y
<1> DEFINE D == {n \in Nat : b - n \in T}
<1>1. \A x \in T : b - x \in D
  OBVIOUS
<1>2. PICK n \in D : \A m \in D : n <= m
  <2>1. D # {} /\ D \in SUBSET Nat
    BY <1>1
  <2> HIDE DEF D
  <2> QED
    BY <2>1, LeastMember
<1> WITNESS b - n \in T
<1>3. SUFFICES ASSUME NEW y \in T PROVE b - n >= y
  OBVIOUS
<1>4. n <= b - y
  BY <1>1, <1>2
<1> QED
  BY <1>4

-----------------------------------------------------------------------------
(* Powers of two. *)

\* A power of two counts the subsets of an interval.
LEMMA PowSubsets ==
  ASSUME NEW a \in Int, NEW b \in Int, NEW n \in Nat, b - a + 1 = n
  PROVE  IsFiniteSet(SUBSET (a .. b)) /\ Cardinality(SUBSET (a .. b)) = 2 ^ n
<1>1. IsFiniteSet(a .. b) /\ Cardinality(a .. b) = IF a > b THEN 0 ELSE b - a + 1
  BY FS_Interval, Zenon
<1>2. (IF a > b THEN 0 ELSE b - a + 1) = n
  OBVIOUS
<1> QED
  BY <1>1, <1>2, FS_SUBSET, Zenon

\* Powers of two are positive.
LEMMA PowType ==
  ASSUME NEW n \in Nat
  PROVE  2 ^ n \in Nat \ {0}
<1> DEFINE S == SUBSET (1 .. n)
<1>1. IsFiniteSet(S) /\ Cardinality(S) = 2 ^ n
  <2>1. 1 \in Int /\ n \in Int /\ n - 1 + 1 = n
    OBVIOUS
  <2> QED
    BY <2>1, PowSubsets, Zenon
<1>2. S # {}
  OBVIOUS
<1> HIDE DEF S
<1> QED
  BY <1>1, <1>2, FS_CardinalityType, FS_EmptySet

LEMMA PowZero == 2 ^ 0 = 1
<1>1. SUBSET {} = {{}}
  OBVIOUS
<1>2. Cardinality(SUBSET {}) = 1
  BY <1>1, FS_Singleton
<1> QED
  BY <1>2, FS_EmptySet, FS_SUBSET

LEMMA PowOne == 2 ^ 1 = 2
<1> DEFINE S == {{}} \cup {{1}}
<1>1. SUBSET {1} = S
  OBVIOUS
<1>2. Cardinality(S) = 2
  <2>1. IsFiniteSet({{}}) /\ Cardinality({{}}) = 1 /\ {1} \notin {{}}
    BY FS_Singleton
  <2>2. Cardinality(S) = Cardinality({{}}) + 1
    BY <2>1, FS_AddElement, Zenon
  <2> QED
    BY <2>1, <2>2
<1>3. IsFiniteSet({1}) /\ Cardinality({1}) = 1
  BY FS_Singleton
<1>4. Cardinality(SUBSET {1}) = 2 ^ 1
  BY <1>3, FS_SUBSET
<1> QED
  BY <1>1, <1>2, <1>4

\* Exponents add up.
LEMMA PowSum ==
  ASSUME NEW a \in Nat, NEW b \in Nat
  PROVE  2 ^ (a + b) = 2 ^ a * 2 ^ b
<1> DEFINE low == 1 .. a
           high == (a + 1) .. (a + b)
           all == 1 .. (a + b)
           S == SUBSET all
           T == (SUBSET low) \X (SUBSET high)
           f == [x \in S |-> <<x \cap low, x \cap high>>]
<1>1. all = low \cup high /\ low \cap high = {}
  OBVIOUS
<1>2. f \in [S -> T]
  OBVIOUS
<1>3. ASSUME NEW x \in S, NEW y \in S, f[x] = f[y] PROVE x = y
  <2>1. x \cap low = y \cap low /\ x \cap high = y \cap high
    BY <1>3
  <2> QED
    BY <1>1, <2>1
<1>4. ASSUME NEW p \in T PROVE \E x \in S : f[x] = p
  <2>1. p[1] \in SUBSET low /\ p[2] \in SUBSET high /\ p = <<p[1], p[2]>>
    OBVIOUS
  <2> DEFINE x == p[1] \cup p[2]
  <2>2. x \in S /\ x \cap low = p[1] /\ x \cap high = p[2]
    <3> HIDE DEF low, high, all
    <3> QED
      BY <1>1, <2>1
  <2> QED
    BY <2>1, <2>2
<1>5. f \in Bijection(S, T)
  <2> HIDE DEF f, S, T
  <2> QED
    BY <1>2, <1>3, <1>4, Fun_IsBij
<1>6. ExistsBijection(S, T)
  BY <1>5 DEF ExistsBijection
<1>7. IsFiniteSet(S) /\ Cardinality(S) = 2 ^ (a + b)
  <2>1. 1 \in Int /\ a + b \in Int /\ a + b \in Nat /\ (a + b) - 1 + 1 = a + b
    OBVIOUS
  <2> QED
    BY <2>1, PowSubsets, Zenon
<1>8. /\ IsFiniteSet(SUBSET low) /\ Cardinality(SUBSET low) = 2 ^ a
      /\ IsFiniteSet(SUBSET high) /\ Cardinality(SUBSET high) = 2 ^ b
  <2>1. /\ 1 \in Int /\ a \in Int /\ a - 1 + 1 = a
        /\ a + 1 \in Int /\ a + b \in Int /\ (a + b) - (a + 1) + 1 = b
    OBVIOUS
  <2> QED
    BY <2>1, PowSubsets, Zenon
<1>9. Cardinality(T) = 2 ^ a * 2 ^ b
  <2> HIDE DEF low, high
  <2> QED
    BY <1>8, FS_Product
<1>10. Cardinality(T) = Cardinality(S)
  <2> HIDE DEF S, T
  <2> QED
    BY <1>6, <1>7, FS_Bijection
<1> QED
  BY <1>7, <1>9, <1>10

\* A power of two and the next one.
LEMMA PowNext ==
  ASSUME NEW n \in Nat
  PROVE  2 ^ (n + 1) = 2 * 2 ^ n
<1>1. 2 ^ (n + 1) = 2 ^ n * 2 ^ 1 /\ 2 ^ n \in Nat
  BY PowSum, PowType
<1> QED
  BY <1>1, PowOne

\* Powers of two grow with the exponent.
LEMMA PowMonotone ==
  ASSUME NEW a \in Nat, NEW b \in Nat, a <= b
  PROVE  2 ^ a <= 2 ^ b
<1>1. b - a \in Nat /\ a + (b - a) = b
  OBVIOUS
<1>2. 2 ^ b = 2 ^ a * 2 ^ (b - a)
  BY <1>1, PowSum
<1>3. 2 ^ a \in Nat /\ 2 ^ (b - a) \in Nat \ {0}
  BY <1>1, PowType
<1> DEFINE x == 2 ^ a
           y == 2 ^ (b - a)
<1>4. x * 1 <= x * y
  <2> HIDE DEF x, y
  <2>1. x \in Nat /\ y \in Nat /\ 1 <= y
    BY <1>3 DEF x, y
  <2> QED
    BY <2>1
<1> QED
  BY <1>2, <1>3, <1>4

\* Every number is less than some power of two.
LEMMA PowExceeds ==
  ASSUME NEW n \in Nat
  PROVE  n < 2 ^ n
<1> DEFINE T == {k \in Nat : k >= 2 ^ k}
<1>1. SUFFICES ASSUME T # {} PROVE FALSE
  BY PowType
<1>2. PICK k \in T : \A j \in T : k <= j
  <2>1. T \in SUBSET Nat
    OBVIOUS
  <2> HIDE DEF T
  <2> QED
    BY <1>1, <2>1, LeastMember
<1>3. k # 0
  <2>1. SUFFICES ASSUME k = 0 PROVE FALSE
    OBVIOUS
  <2>2. k >= 2 ^ k
    BY <1>2
  <2>3. 2 ^ k = 1
    BY <2>1, PowZero, Zenon
  <2> QED
    BY <2>1, <2>2, <2>3
<1>4. k - 1 \in Nat /\ k - 1 \notin T /\ k = (k - 1) + 1
  BY <1>2, <1>3
<1>5. k - 1 < 2 ^ (k - 1) /\ 2 ^ (k - 1) \in Nat
  BY <1>4, PowType
<1>6. 2 ^ k = 2 * 2 ^ (k - 1)
  BY <1>4, PowNext
<1> QED
  BY <1>2, <1>4, <1>5, <1>6

-----------------------------------------------------------------------------
(* Sums. *)

\* Nothing sums to nothing.
LEMMA SumEmpty ==
  ASSUME NEW f, DOMAIN f = {}
  PROVE  SumOver(f) = 0
<1>1. Items(f) = {}
  BY DEF Items
<1> QED
  BY <1>1, FS_EmptySet DEF SumOver

\* One more value adds to the sum.
LEMMA SumAdd ==
  ASSUME NEW f, NEW g, NEW x, x \notin DOMAIN f, DOMAIN g = DOMAIN f \cup {x},
         \A y \in DOMAIN f : g[y] = f[y], IsFiniteSet(Items(f)), g[x] \in Nat
  PROVE  IsFiniteSet(Items(g)) /\ SumOver(g) = SumOver(f) + g[x]
<1> DEFINE new == {x} \X (1 .. g[x])
<1>1. Items(g) = Items(f) \cup new
  BY DEF Items
<1>2. Items(f) \cap new = {}
  BY DEF Items
<1>3. IsFiniteSet(1 .. g[x]) /\ Cardinality(1 .. g[x]) = g[x]
  BY FS_Interval
<1>4. IsFiniteSet({x}) /\ Cardinality({x}) = 1
  BY FS_Singleton
<1>5. IsFiniteSet(new) /\ Cardinality(new) = g[x]
  <2>1. IsFiniteSet(new) /\ Cardinality(new) = Cardinality({x}) * Cardinality(1 .. g[x])
    BY <1>3, <1>4, FS_Product, Zenon
  <2> HIDE DEF new
  <2> QED
    BY <1>3, <1>4, <2>1
<1>6. Cardinality(Items(f) \cap new) = 0
  BY <1>2, FS_EmptySet
<1>7. Cardinality(Items(f)) \in Nat
  BY FS_CardinalityType
<1> HIDE DEF new
<1>8. /\ IsFiniteSet(Items(f) \cup new)
      /\ Cardinality(Items(f) \cup new)
           = Cardinality(Items(f)) + Cardinality(new) - Cardinality(Items(f) \cap new)
  BY <1>5, FS_Union, Zenon
<1> QED
  BY <1>1, <1>5, <1>6, <1>7, <1>8 DEF SumOver

\* Changing one value, in or out of the domain, changes the sum by as much.
LEMMA SumReplace ==
  ASSUME NEW f, NEW g, NEW x,
         DOMAIN f \ {x} = DOMAIN g \ {x}, \A y \in DOMAIN f \ {x} : g[y] = f[y],
         x \in DOMAIN f => f[x] \in Nat, x \in DOMAIN g => g[x] \in Nat,
         IsFiniteSet(Items(f))
  PROVE  /\ IsFiniteSet(Items(g)) /\ SumOver(f) \in Nat /\ SumOver(g) \in Nat
         /\ SumOver(g) + (IF x \in DOMAIN f THEN f[x] ELSE 0)
              = SumOver(f) + (IF x \in DOMAIN g THEN g[x] ELSE 0)
<1> DEFINE h == [y \in DOMAIN f \ {x} |-> f[y]]
<1>1. DOMAIN h = DOMAIN f \ {x} /\ \A y \in DOMAIN h : h[y] = f[y] /\ h[y] = g[y]
  OBVIOUS
<1> HIDE DEF h
<1>2. IsFiniteSet(Items(h))
  <2>1. Items(h) \subseteq Items(f)
    BY <1>1 DEF Items
  <2> QED
    BY <2>1, FS_Subset
<1>3. /\ SumOver(f) = SumOver(h) + (IF x \in DOMAIN f THEN f[x] ELSE 0)
      /\ SumOver(h) \in Nat
  <2>1. SumOver(h) \in Nat
    BY <1>2, FS_CardinalityType DEF SumOver
  <2>2. CASE x \in DOMAIN f
    <3>1. /\ x \notin DOMAIN h /\ DOMAIN f = DOMAIN h \cup {x}
          /\ \A y \in DOMAIN h : f[y] = h[y]
      BY <1>1, <2>2
    <3>2. SumOver(f) = SumOver(h) + f[x]
      BY <1>2, <2>2, <3>1, SumAdd
    <3> QED
      BY <2>1, <2>2, <3>2
  <2>3. CASE x \notin DOMAIN f
    <3>1. Items(f) = Items(h)
      BY <1>1, <2>3 DEF Items
    <3> QED
      BY <2>1, <2>3, <3>1 DEF SumOver
  <2> QED
    BY <2>1, <2>2, <2>3
<1>4. IsFiniteSet(Items(g)) /\ SumOver(g) = SumOver(h) + (IF x \in DOMAIN g THEN g[x] ELSE 0)
  <2>1. CASE x \in DOMAIN g
    <3>1. /\ x \notin DOMAIN h /\ DOMAIN g = DOMAIN h \cup {x}
          /\ \A y \in DOMAIN h : g[y] = h[y]
      BY <1>1, <2>1
    <3>2. IsFiniteSet(Items(g)) /\ SumOver(g) = SumOver(h) + g[x]
      BY <1>2, <2>1, <3>1, SumAdd
    <3> QED
      BY <2>1, <3>2
  <2>2. CASE x \notin DOMAIN g
    <3>1. Items(g) = Items(h)
      BY <1>1, <2>2 DEF Items
    <3> QED
      BY <1>2, <1>3, <2>2, <3>1 DEF SumOver
  <2> QED
    BY <2>1, <2>2
<1> QED
  BY <1>3, <1>4

\* A number is its quotient times the divisor, and its remainder.
LEMMA DivMod ==
  ASSUME NEW a \in Nat, NEW m \in Nat \ {0}
  PROVE  a = (a \div m) * m + (a % m) /\ a % m \in Nat /\ a % m < m
OBVIOUS

\* A quotient and a remainder below the divisor are the only ones.
LEMMA ModUnique ==
  ASSUME NEW a \in Nat, NEW m \in Nat \ {0}, NEW q \in Nat, NEW r \in Nat,
         r < m, a = q * m + r
  PROVE  a % m = r /\ a \div m = q
<1>1. a \div m \in Nat /\ a < (a \div m) * m + m /\ q * m <= a
  BY DivBounds
<1>2. q <= a \div m
  BY <1>1, DivLargest
<1>3. ~ (q + 1 <= a \div m)
  <2> SUFFICES ASSUME q + 1 <= a \div m PROVE FALSE
    OBVIOUS
  <2>1. (q + 1) * m <= (a \div m) * m
    BY <1>1, MulMonotone
  <2>2. (a \div m) * m <= a
    BY DivBounds
  <2> QED
    BY <1>1, <2>1, <2>2
<1>4. a \div m = q
  BY <1>1, <1>2, <1>3
<1>5. a = (a \div m) * m + (a % m) /\ a % m \in Nat
  BY DivMod
<1> QED
  BY <1>4, <1>5

\* Adding whole multiples of the divisor leaves the remainder.
LEMMA ModPlusMultiple ==
  ASSUME NEW a \in Nat, NEW m \in Nat \ {0}, NEW k \in Nat
  PROVE  (a + k * m) % m = a % m
<1> DEFINE q == a \div m
           r == a % m
<1>1. q \in Nat /\ r \in Nat /\ r < m /\ a = q * m + r
  BY DivBounds
<1> HIDE DEF q, r
<1>2. a + k * m = (q + k) * m + r /\ q + k \in Nat /\ a + k * m \in Nat
  BY <1>1
<1>3. (a + k * m) % m = r
  BY <1>1, <1>2, ModUnique
<1> QED
  BY <1>3 DEF r
=============================================================================
