---------------------------- MODULE Market_proofs ----------------------------
(***************************************************************************)
(* What Market promises, for every set of players, listings and prices: a  *)
(* stack has one place, and nobody gains or loses a coin.                  *)
(***************************************************************************)
EXTENDS Market, FiniteSetTheorems, TLAPS

(***************************************************************************)
(* Sums over finite sets.  SumFunctionOnSet is a recursive function on the *)
(* subsets of its set; the least set for which a fact would fail is found  *)
(* by the well-founded order of the finite subsets.                        *)
(***************************************************************************)

(* What holds of a set when it holds of its proper subsets holds of every  *)
(* finite set; what holds is given as the set Good of those it holds of.   *)
LEMMA BySubsets ==
  ASSUME NEW S, IsFiniteSet(S), NEW Good,
         \A T \in SUBSET S : (\A U \in SUBSET T : U # T => U \in Good) => T \in Good
  PROVE  S \in Good
<1> DEFINE Bad == (SUBSET S) \ Good
<1> SUFFICES ASSUME S \notin Good
             PROVE  FALSE
  OBVIOUS
<1>1. FiniteSubsetsOf(S) = SUBSET S
  BY FS_FiniteSubsetsOfFinite
<1>2. IsWellFoundedOn(StrictSubsetOrdering(S), SUBSET S)
  <2>1. IsWellFoundedOn(StrictSubsetOrdering(S), FiniteSubsetsOf(S))
    BY FS_StrictSubsetOrderingWellFounded
  <2>2. QED
    BY <1>1, <2>1
<1>3. Bad \subseteq SUBSET S /\ Bad # {}
  OBVIOUS
<1> HIDE DEF Bad
<1>4. PICK T \in Bad : \A U \in Bad : ~ (<<U, T>> \in StrictSubsetOrdering(S))
  BY <1>2, <1>3, WFMin
<1>5. \A U \in SUBSET T : U # T => U \in Good
  BY <1>4 DEF Bad, StrictSubsetOrdering
<1>6. QED
  BY <1>4, <1>5 DEF Bad

(* The function by which a sum over S is defined.                          *)
Sums(g, f, S) ==
    g = [s \in SUBSET S |->
            IF s = {} THEN 0 ELSE f[CHOOSE x \in s : TRUE] + g[s \ {CHOOSE x \in s : TRUE}]]

(* A sum is the value at its set of the function that defines it.          *)
LEMMA SumDefined ==
  ASSUME NEW f, NEW S
  PROVE  SumFunctionOnSet(f, S) = (CHOOSE g : Sums(g, f, S))[S]
BY DEF SumFunctionOnSet, FoldFunctionOnSet, MapThenFoldSet, Sums

(* What such a function gives for a set.                                   *)
LEMMA SumsAt ==
  ASSUME NEW g, NEW f, NEW S, Sums(g, f, S), NEW T \in SUBSET S
  PROVE  g[T] = IF T = {} THEN 0
                ELSE f[CHOOSE x \in T : TRUE] + g[T \ {CHOOSE x \in T : TRUE}]
BY DEF Sums

(* Two such functions agree where both are defined.                        *)
LEMMA SumsUnique ==
  ASSUME NEW f, NEW g, NEW h, NEW S, NEW R, Sums(g, f, S), Sums(h, f, R),
         NEW V \in SUBSET S, V \in SUBSET R, IsFiniteSet(V)
  PROVE  g[V] = h[V]
<1> DEFINE Good == {T \in SUBSET V : g[T] = h[T]}
<1>1. ASSUME NEW T \in SUBSET V, \A U \in SUBSET T : U # T => U \in Good
      PROVE  T \in Good
  <2> DEFINE x == CHOOSE y \in T : TRUE
  <2>1. CASE T = {}
    BY <2>1, SumsAt
  <2>2. CASE T # {}
    <3>1. x \in T
      BY <2>2
    <3>2. T \ {x} \in Good
      BY <1>1, <3>1
    <3>3. T \in SUBSET S /\ T \in SUBSET R
      BY <1>1
    <3>4. g[T] = f[x] + g[T \ {x}]
      BY <2>2, <3>3 DEF Sums
    <3>5. h[T] = f[x] + h[T \ {x}]
      BY <2>2, <3>3 DEF Sums
    <3>6. QED
      BY <3>2, <3>4, <3>5
  <2>3. QED
    BY <2>1, <2>2
<1> HIDE DEF Good
<1>2. V \in Good
  BY <1>1, BySubsets
<1>3. QED
  BY <1>2 DEF Good

(* Every finite set has the function that defines its sum.                 *)
LEMMA SumsExist ==
  ASSUME NEW f, NEW S, IsFiniteSet(S)
  PROVE  \E g : Sums(g, f, S)
<1> DEFINE Good == {T \in SUBSET S : \E g : Sums(g, f, T)}
<1>1. ASSUME NEW T \in SUBSET S, \A U \in SUBSET T : U # T => U \in Good
      PROVE  T \in Good
  <2> DEFINE c(s) == CHOOSE x \in s : TRUE
             H(s) == CHOOSE g : Sums(g, f, s)
             G == [s \in SUBSET T |-> IF s = {} THEN 0 ELSE f[c(s)] + H(s \ {c(s)})[s \ {c(s)}]]
  <2>1. ASSUME NEW s \in SUBSET T, s # T
        PROVE  Sums(H(s), f, s)
    BY <1>1, <2>1
  <2>2. ASSUME NEW s \in SUBSET T, s # {}
        PROVE  G[s \ {c(s)}] = H(s \ {c(s)})[s \ {c(s)}]
    <3> DEFINE r == s \ {c(s)}
    <3>1. c(s) \in s
      BY <2>2
    <3>2. r \in SUBSET T /\ r # T
      BY <3>1
    <3>3. Sums(H(r), f, r)
      BY <3>2, <2>1
    <3>4. CASE r = {}
      BY <3>4, <3>3, <3>2, SumsAt
    <3>5. CASE r # {}
      <4> DEFINE q == r \ {c(r)}
      <4>1. c(r) \in r
        BY <3>5
      <4>2. q \in SUBSET T /\ q # T /\ q \in SUBSET r
        BY <3>2, <4>1
      <4>3. Sums(H(q), f, q)
        BY <4>2, <2>1
      <4>4. IsFiniteSet(q)
        BY FS_Subset, <4>2
      <4>5. H(r)[q] = H(q)[q]
        <5> HIDE DEF H, q, r
        <5> QED
        BY <3>3, <4>2, <4>3, <4>4, SumsUnique
      <4>6. H(r)[r] = f[c(r)] + H(r)[q]
        <5> HIDE DEF H
        <5> QED
          BY <3>3, <3>5, SumsAt
      <4>7. G[r] = f[c(r)] + H(q)[q]
        <5> HIDE DEF H, c
        <5> QED
          BY <3>2, <3>5
      <4>8. QED
        BY <4>5, <4>6, <4>7
    <3>6. QED
      BY <3>4, <3>5
  <2>3. Sums(G, f, T)
    <3>1. ASSUME NEW s \in SUBSET T
          PROVE  G[s] = IF s = {} THEN 0 ELSE f[c(s)] + G[s \ {c(s)}]
      <4>1. CASE s = {}
        <5> HIDE DEF H, c
        <5> QED
          BY <4>1
      <4>2. CASE s # {}
        <5>1. G[s] = f[c(s)] + H(s \ {c(s)})[s \ {c(s)}]
          <6> HIDE DEF H, c
          <6> QED
            BY <4>2
        <5>2. G[s \ {c(s)}] = H(s \ {c(s)})[s \ {c(s)}]
          BY <4>2, <2>2
        <5> HIDE DEF G, H, c
        <5> QED
          BY <5>1, <5>2, <4>2
      <4>3. QED
        BY <4>1, <4>2
    <3>2. G = [s \in SUBSET T |-> G[s]]
      OBVIOUS
    <3> HIDE DEF G
    <3>3. QED
      BY <3>1, <3>2 DEF Sums
  <2>4. QED
    BY <2>3
<1> HIDE DEF Good
<1>2. S \in Good
  BY <1>1, BySubsets
<1>3. QED
  BY <1>2 DEF Good

(* A sum over a set adds what its chosen element gives to the rest.        *)
LEMMA SumRec ==
  ASSUME NEW f, NEW S, IsFiniteSet(S)
  PROVE  SumFunctionOnSet(f, S) =
            IF S = {} THEN 0
            ELSE f[CHOOSE x \in S : TRUE] + SumFunctionOnSet(f, S \ {CHOOSE x \in S : TRUE})
<1> DEFINE x == CHOOSE y \in S : TRUE
           H(s) == CHOOSE g : Sums(g, f, s)
<1>1. Sums(H(S), f, S)
  BY SumsExist
<1>2. IsFiniteSet(S \ {x})
  BY FS_RemoveElement
<1>3. Sums(H(S \ {x}), f, S \ {x})
  BY <1>2, SumsExist
<1>4. SumFunctionOnSet(f, S) = H(S)[S] /\ SumFunctionOnSet(f, S \ {x}) = H(S \ {x})[S \ {x}]
  BY SumDefined
<1> HIDE DEF H
<1>5. H(S)[S] = IF S = {} THEN 0 ELSE f[x] + H(S)[S \ {x}]
  BY <1>1, SumsAt
<1>6. H(S)[S \ {x}] = H(S \ {x})[S \ {x}]
  <2> DEFINE R == S \ {x}
  <2>1. R \in SUBSET S /\ R \in SUBSET R
    OBVIOUS
  <2> HIDE DEF R
  <2>2. QED
    BY <1>1, <1>2, <1>3, <2>1, SumsUnique DEF R
<1>7. QED
  BY <1>4, <1>5, <1>6
(* The sum over nothing.                                                   *)
LEMMA SumEmpty ==
  ASSUME NEW f
  PROVE  SumFunctionOnSet(f, {}) = 0
BY SumRec, FS_EmptySet

(* A sum of integers is an integer, one of naturals a natural.             *)
LEMMA SumInt ==
  ASSUME NEW f, NEW S, IsFiniteSet(S), \A x \in S : f[x] \in Int
  PROVE  SumFunctionOnSet(f, S) \in Int
<1> DEFINE Good == {T \in SUBSET S : SumFunctionOnSet(f, T) \in Int}
<1>1. ASSUME NEW T \in SUBSET S, \A U \in SUBSET T : U # T => U \in Good
      PROVE  T \in Good
  <2> DEFINE x == CHOOSE y \in T : TRUE
  <2>1. IsFiniteSet(T)
    BY FS_Subset
  <2>2. CASE T = {}
    BY <2>2, SumEmpty
  <2>3. CASE T # {}
    <3>1. x \in T
      BY <2>3
    <3>2. SumFunctionOnSet(f, T) = f[x] + SumFunctionOnSet(f, T \ {x})
      BY <2>1, <2>3, SumRec
    <3>3. SumFunctionOnSet(f, T \ {x}) \in Int /\ f[x] \in Int
      BY <1>1, <3>1
    <3>4. QED
      BY <3>2, <3>3
  <2>4. QED
    BY <2>2, <2>3
<1> HIDE DEF Good
<1>2. S \in Good
  BY <1>1, BySubsets
<1>3. QED
  BY <1>2 DEF Good

LEMMA SumNat ==
  ASSUME NEW f, NEW S, IsFiniteSet(S), \A x \in S : f[x] \in Nat
  PROVE  SumFunctionOnSet(f, S) \in Nat
<1> DEFINE Good == {T \in SUBSET S : SumFunctionOnSet(f, T) \in Nat}
<1>1. ASSUME NEW T \in SUBSET S, \A U \in SUBSET T : U # T => U \in Good
      PROVE  T \in Good
  <2> DEFINE x == CHOOSE y \in T : TRUE
  <2>1. IsFiniteSet(T)
    BY FS_Subset
  <2>2. CASE T = {}
    BY <2>2, SumEmpty
  <2>3. CASE T # {}
    <3>1. x \in T
      BY <2>3
    <3>2. SumFunctionOnSet(f, T) = f[x] + SumFunctionOnSet(f, T \ {x})
      BY <2>1, <2>3, SumRec
    <3>3. SumFunctionOnSet(f, T \ {x}) \in Nat /\ f[x] \in Nat
      BY <1>1, <3>1
    <3>4. QED
      BY <3>2, <3>3
  <2>4. QED
    BY <2>2, <2>3
<1> HIDE DEF Good
<1>2. S \in Good
  BY <1>1, BySubsets
<1>3. QED
  BY <1>2 DEF Good

(* A sum depends on what the function gives for the elements alone.        *)
LEMMA SumSame ==
  ASSUME NEW f, NEW g, NEW S, IsFiniteSet(S), \A x \in S : f[x] = g[x]
  PROVE  SumFunctionOnSet(f, S) = SumFunctionOnSet(g, S)
<1> DEFINE Good == {T \in SUBSET S : SumFunctionOnSet(f, T) = SumFunctionOnSet(g, T)}
<1>1. ASSUME NEW T \in SUBSET S, \A U \in SUBSET T : U # T => U \in Good
      PROVE  T \in Good
  <2> DEFINE x == CHOOSE y \in T : TRUE
  <2>1. IsFiniteSet(T)
    BY FS_Subset
  <2>2. CASE T = {}
    BY <2>2, SumEmpty
  <2>3. CASE T # {}
    <3>1. x \in T
      BY <2>3
    <3>2. SumFunctionOnSet(f, T) = f[x] + SumFunctionOnSet(f, T \ {x})
      BY <2>1, <2>3, SumRec
    <3>3. SumFunctionOnSet(g, T) = g[x] + SumFunctionOnSet(g, T \ {x})
      BY <2>1, <2>3, SumRec
    <3>4. SumFunctionOnSet(f, T \ {x}) = SumFunctionOnSet(g, T \ {x}) /\ f[x] = g[x]
      BY <1>1, <3>1
    <3>5. QED
      BY <3>2, <3>3, <3>4
  <2>4. QED
    BY <2>2, <2>3
<1> HIDE DEF Good
<1>2. S \in Good
  BY <1>1, BySubsets
<1>3. QED
  BY <1>2 DEF Good

(* Any element, not the chosen one alone, can be taken out of a sum.       *)
LEMMA SumWithout ==
  ASSUME NEW f, NEW S, IsFiniteSet(S), NEW x \in S, \A y \in S : f[y] \in Int
  PROVE  SumFunctionOnSet(f, S) = f[x] + SumFunctionOnSet(f, S \ {x})
<1> DEFINE Sum(T) == SumFunctionOnSet(f, T)
           Good == {T \in SUBSET S : \A y \in T : Sum(T) = f[y] + Sum(T \ {y})}
<1>0. \A T \in SUBSET S : IsFiniteSet(T) /\ Sum(T) \in Int
  BY FS_Subset, SumInt
<1>1. ASSUME NEW T \in SUBSET S, \A U \in SUBSET T : U # T => U \in Good
      PROVE  T \in Good
  <2> SUFFICES ASSUME NEW y \in T
               PROVE  Sum(T) = f[y] + Sum(T \ {y})
    OBVIOUS
  <2> DEFINE c == CHOOSE z \in T : TRUE
  <2>1. c \in T /\ Sum(T) = f[c] + Sum(T \ {c})
    BY <1>0, SumRec
  <2>2. CASE y = c
    BY <2>1, <2>2
  <2>3. CASE y # c
    <3>1. Sum(T \ {c}) = f[y] + Sum((T \ {c}) \ {y})
      BY <1>1, <2>1, <2>3
    <3>2. Sum(T \ {y}) = f[c] + Sum((T \ {y}) \ {c})
      BY <1>1, <2>1, <2>3
    <3>3. (T \ {c}) \ {y} = (T \ {y}) \ {c}
      OBVIOUS
    <3>4. f[y] \in Int /\ f[c] \in Int /\ Sum((T \ {y}) \ {c}) \in Int
      BY <1>0, <2>1
    <3>5. Sum(T \ {c}) = f[y] + Sum((T \ {y}) \ {c})
      BY <3>1, <3>3
    <3> DEFINE rest == Sum((T \ {y}) \ {c})
               less == Sum(T \ {y})
               a == f[y]
               b == f[c]
    <3>6. Sum(T) = b + (a + rest) /\ less = b + rest /\ a \in Int /\ b \in Int /\ rest \in Int
      BY <2>1, <3>2, <3>4, <3>5
    <3> HIDE DEF Sum, rest, less, a, b
    <3>7. Sum(T) = a + less
      BY <3>6
    <3>8. QED
      BY <3>7 DEF less, a
  <2>4. QED
    BY <2>2, <2>3
<1> HIDE DEF Good
<1>2. S \in Good
  BY <1>1, BySubsets
<1>3. QED
  BY <1>2 DEF Good

(* An element more.                                                        *)
LEMMA SumWith ==
  ASSUME NEW f, NEW S, IsFiniteSet(S), NEW x, x \notin S, f[x] \in Int, \A y \in S : f[y] \in Int
  PROVE  SumFunctionOnSet(f, S \cup {x}) = f[x] + SumFunctionOnSet(f, S)
<1> DEFINE T == S \cup {x}
<1>1. IsFiniteSet(T) /\ x \in T /\ \A y \in T : f[y] \in Int
  BY FS_AddElement
<1>2. T \ {x} = S
  OBVIOUS
<1> HIDE DEF T
<1>3. QED
  BY <1>1, <1>2, SumWithout DEF T

(* Two sums that differ in what one element contributes.                   *)
Alike(f, g, S, T, x) ==
    /\ IsFiniteSet(S) /\ IsFiniteSet(T) /\ S \ {x} = T \ {x}
    /\ \A y \in S : f[y] \in Int
    /\ \A y \in T : g[y] \in Int
    /\ \A y \in S \ {x} : f[y] = g[y]

Changed(f, g, S, T, x) ==
    /\ SumFunctionOnSet(f, S) \in Int /\ SumFunctionOnSet(g, T) \in Int
    /\ SumFunctionOnSet(g, T) = SumFunctionOnSet(f, S) - (IF x \in S THEN f[x] ELSE 0)
                                                       + (IF x \in T THEN g[x] ELSE 0)

LEMMA SumChange ==
  ASSUME NEW f, NEW g, NEW S, NEW T, NEW x, Alike(f, g, S, T, x)
  PROVE  Changed(f, g, S, T, x)
<1>0. /\ IsFiniteSet(S) /\ IsFiniteSet(T) /\ S \ {x} = T \ {x}
      /\ \A y \in S : f[y] \in Int
      /\ \A y \in T : g[y] \in Int
      /\ \A y \in S \ {x} : f[y] = g[y]
  BY DEF Alike
<1> DEFINE R == S \ {x}
           F == SumFunctionOnSet(f, R)
           G == SumFunctionOnSet(g, R)
<1>1. IsFiniteSet(R)
  BY <1>0, FS_RemoveElement
<1>2. F = G /\ F \in Int
  BY <1>0, <1>1, SumSame, SumInt
<1>3. SumFunctionOnSet(f, S) = F + (IF x \in S THEN f[x] ELSE 0)
  <2>1. CASE x \in S
    BY <1>0, <2>1, <1>2, SumWithout
  <2>2. CASE x \notin S
    <3>1. S = R
      BY <2>2
    <3>2. SumFunctionOnSet(f, S) = F
      BY <3>1
    <3> HIDE DEF F
    <3>3. QED
      BY <3>2, <2>2, <1>2
  <2>3. QED
    BY <2>1, <2>2
<1>4. SumFunctionOnSet(g, T) = G + (IF x \in T THEN g[x] ELSE 0)
  <2>0. G = SumFunctionOnSet(g, T \ {x})
    BY <1>0
  <2>1. CASE x \in T
    <3>1. SumFunctionOnSet(g, T) = g[x] + SumFunctionOnSet(g, T \ {x})
      BY <1>0, <2>1, SumWithout
    <3>2. SumFunctionOnSet(g, T) = g[x] + G /\ g[x] \in Int
      BY <1>0, <2>0, <2>1, <3>1
    <3> HIDE DEF F, G
    <3>3. QED
      BY <2>1, <3>2, <1>2
  <2>2. CASE x \notin T
    <3>1. T = R
      BY <1>0, <2>2
    <3>2. SumFunctionOnSet(g, T) = G
      BY <3>1
    <3> HIDE DEF G
    <3>3. QED
      BY <3>2, <2>2, <1>2
  <2>3. QED
    BY <2>1, <2>2
<1>5. (x \in S => f[x] \in Int) /\ (x \in T => g[x] \in Int)
  BY <1>0
<1> HIDE DEF F, G
<1>6. /\ SumFunctionOnSet(f, S) \in Int /\ SumFunctionOnSet(g, T) \in Int
      /\ SumFunctionOnSet(g, T) = SumFunctionOnSet(f, S) - (IF x \in S THEN f[x] ELSE 0)
                                                         + (IF x \in T THEN g[x] ELSE 0)
  BY <1>2, <1>3, <1>4, <1>5
<1>7. QED
  BY <1>6 DEF Changed

(* The sum over a set is that over a part of it and over the rest.         *)
LEMMA SumSplit ==
  ASSUME NEW f, NEW S, IsFiniteSet(S), NEW R \in SUBSET S, \A y \in S : f[y] \in Int
  PROVE  SumFunctionOnSet(f, S) = SumFunctionOnSet(f, R) + SumFunctionOnSet(f, S \ R)
<1> DEFINE Sum(T) == SumFunctionOnSet(f, T)
           Good == {T \in SUBSET R : Sum(S) = Sum(T) + Sum(S \ T)}
<1>0. \A T \in SUBSET S : IsFiniteSet(T) /\ Sum(T) \in Int
  BY FS_Subset, SumInt
<1>1. ASSUME NEW T \in SUBSET R, \A U \in SUBSET T : U # T => U \in Good
      PROVE  T \in Good
  <2>1. CASE T = {}
    <3>1. S \ T = S
      BY <2>1
    <3>2. Sum(S \ T) = Sum(S) /\ Sum(T) = 0 /\ Sum(S) \in Int
      BY <3>1, <2>1, <1>0, SumEmpty
    <3>3. QED
      BY <3>2
  <2>2. CASE T # {}
    <3>1. PICK x \in T : TRUE
      BY <2>2
    <3>2. Sum(S) = Sum(T \ {x}) + Sum(S \ (T \ {x}))
      BY <1>1, <3>1
    <3>3. Sum(T) = f[x] + Sum(T \ {x})
      BY <1>0, SumWithout
    <3>4. Sum(S \ (T \ {x})) = f[x] + Sum(S \ T)
      <4>1. S \ (T \ {x}) \in SUBSET S /\ x \in S \ (T \ {x})
        OBVIOUS
      <4>2. (S \ (T \ {x})) \ {x} = S \ T
        OBVIOUS
      <4>3. IsFiniteSet(S \ (T \ {x}))
        BY <1>0, <4>1
      <4>4. Sum(S \ (T \ {x})) = f[x] + Sum((S \ (T \ {x})) \ {x})
        BY <4>1, <4>3, SumWithout
      <4>5. QED
        BY <4>2, <4>4
    <3>5. /\ f[x] \in Int /\ Sum(T \ {x}) \in Int /\ Sum(S \ T) \in Int
      <4>1. x \in S /\ T \ {x} \in SUBSET S /\ S \ T \in SUBSET S
        OBVIOUS
      <4>2. QED
        BY <4>1, <1>0
    <3> HIDE DEF Sum
    <3>6. Sum(S) = Sum(T) + Sum(S \ T)
      BY <3>2, <3>3, <3>4, <3>5
    <3>7. QED
      BY <3>6
  <2>3. QED
    BY <2>1, <2>2
<1>2. IsFiniteSet(R)
  BY FS_Subset
<1> HIDE DEF Good
<1>3. R \in Good
  BY <1>1, <1>2, BySubsets
<1>4. QED
  BY <1>3 DEF Good

(***************************************************************************)
(* The invariant.                                                          *)
(***************************************************************************)

(* Only finitely many listings and claims exist.                           *)
Finite == IsFiniteSet(Listed) /\ IsFiniteSet(claims)

(* A listing pays its fee: its price is at least the least one, and its    *)
(* highest bid, which only an auction has, at least its price.             *)
Priced(a) ==
    /\ PriceMin <= a.price
    /\ a.bidder = NoPlayer => a.bid = 0
    /\ a.bidder # NoPlayer => a.mode = "auction" /\ a.price <= a.bid

ListingsKnown == \A l \in Listed : Priced(listing[l])

(* A claim was made by its listing: an outbid at an earlier revision of    *)
(* it, any other as it closed.                                             *)
Claimed(c) ==
    /\ Exists(c.listing)
    /\ c.reason = "outbid" => c.at < listing[c.listing].revision
    /\ c.reason # "outbid" => ~Open(c.listing)

ClaimsKnown == \A c \in claims : Claimed(c)

(* What an operation keeps in escrow, by its kind.                         *)
Escrows(p, op, escrow) ==
    /\ op.kind \in {"list", "checked"} =>
          escrow.coins = ListingFee /\ escrow.stacks = {op.stack}
    /\ op.kind = "checked" => PriceMin <= op.price
    /\ op.kind \in {"buy", "bid"} => escrow.coins = op.price /\ escrow.stacks = {}
    /\ op.kind \in {"cancel", "collect"} => escrow.coins = 0 /\ escrow.stacks = {}
    /\ op.kind = "collect" => \A c \in op.claims : c.player = p

RequestsKnown ==
    \A p \in Players : request[p] # NoRequest => Escrows(p, request[p].op, request[p].escrow)

(* Two states of a listing that differ at most in the clocks that saw its  *)
(* end.                                                                    *)
SameTerms(a, b) ==
    /\ a.seller = b.seller /\ a.stack = b.stack /\ a.mode = b.mode /\ a.price = b.price
    /\ a.bid = b.bid /\ a.bidder = b.bidder /\ a.saleFee = b.saleFee

(* What a settlement read is the listing, or an earlier revision of it.    *)
ReadOf(d) ==
    /\ Exists(d.listing) /\ d.read.revision <= listing[d.listing].revision
    /\ d.read.revision = listing[d.listing].revision /\ Open(d.listing) =>
          SameTerms(d.read, listing[d.listing])

DueKnown == \A d \in due : ReadOf(d)

Records ==
    /\ TypeOK /\ Finite /\ ListingsKnown /\ ClaimsKnown /\ RequestsKnown /\ DueKnown

(* The fields of a listing.                                                *)
LEMMA ListingFields ==
  ASSUME NEW a \in Listing
  PROVE  /\ a.status \in {"open", "sold", "cancelled", "expired"}
         /\ a.time \in {"open", "ending", "ended"} /\ a.scope \in Scopes
         /\ a.seller \in Players /\ a.stack \in Stacks /\ a.mode \in {"fixed", "auction"}
         /\ a.price \in Nat /\ a.bid \in Nat /\ a.bidder \in Players \cup {NoPlayer}
         /\ a.saleFee \in SaleFees /\ a.revision \in Nat
         /\ a.buyer \in Players \cup {NoPlayer}
BY DEF Listing

(* The fees and the prices are naturals.                                   *)
LEMMA Terms ==
  /\ \A fee \in SaleFees : fee \in Nat /\ fee <= PriceMin
  /\ \A price \in Prices : price \in Nat
  /\ ListingFee \in Nat /\ PriceMin \in Nat /\ PriceMax \in Nat /\ MinRaise \in Nat
  /\ RaisePercent \in Nat
  /\ Max(SaleFees) \in SaleFees
<1>1. PICK fee \in SaleFees : \A other \in SaleFees : other <= fee
  BY TermsAssumption
<1>2. \A other \in SaleFees : fee >= other
  BY <1>1, TermsAssumption
<1>3. Max(SaleFees) \in SaleFees
  BY <1>1, <1>2 DEF Max
<1>4. QED
  BY <1>3, TermsAssumption

(* The fields of an operation, by its kind.                                *)
LEMMA OperationFields ==
  ASSUME NEW r \in Operation
  PROVE  /\ r.kind \in {"list", "checked", "cancel", "buy", "bid", "collect"}
         /\ r.kind \in {"list", "checked"} =>
               /\ r.stack \in Stacks /\ r.mode \in {"fixed", "auction"}
               /\ r.price \in Nat /\ r.saleFee \in SaleFees
         /\ r.kind = "checked" => r.scope \in Scopes
         /\ r.kind \in {"cancel", "buy", "bid"} => r.listing \in Listings /\ r.revision \in Nat
         /\ r.kind \in {"buy", "bid"} => r.price \in Nat
         /\ r.kind = "collect" => r.claims \subseteq Claim
BY DEF Operation

(* A request, where there is one.                                          *)
LEMMA RequestFields ==
  ASSUME Records, NEW p \in Players, request[p] # NoRequest
  PROVE  /\ request[p] \in Request
         /\ request[p].op \in Operation
         /\ request[p].escrow.coins \in Nat /\ request[p].escrow.stacks \subseteq Stacks
         /\ Escrows(p, request[p].op, request[p].escrow)
<1>1. request[p] \in Request
  BY DEF Records, TypeOK
<1>2. QED
  BY <1>1 DEF Request, Records, RequestsKnown

(* A listing that exists.                                                  *)
LEMMA ListingOf ==
  ASSUME Records, NEW l \in Listings, Exists(l)
  PROVE  listing[l] \in Listing /\ l \in Listed /\ Priced(listing[l])
BY DEF Records, TypeOK, Exists, Listed, ListingsKnown

(* A request answered, sent or checked.                                    *)
LEMMA RequestStep ==
  ASSUME Records, NEW p \in Players, NEW r \in Request \cup {NoRequest},
         r # NoRequest => Escrows(p, r.op, r.escrow),
         request' = [request EXCEPT ![p] = r]
  PROVE  request' \in [Players -> Request \cup {NoRequest}] /\ RequestsKnown'
<1>1. request \in [Players -> Request \cup {NoRequest}] /\ RequestsKnown
  BY DEF Records, TypeOK
<1>2. request' \in [Players -> Request \cup {NoRequest}]
  BY <1>1
<1>3. ASSUME NEW q \in Players, request'[q] # NoRequest
      PROVE  Escrows(q, request'[q].op, request'[q].escrow)
  <2>1. CASE q = p
    <3>1. request'[q] = r
      BY <1>1, <2>1
    <3>2. QED
      BY <3>1, <2>1, <1>3
  <2>2. CASE q # p
    <3>1. request'[q] = request[q]
      BY <1>1, <2>2
    <3>2. QED
      BY <3>1, <1>1, <1>3 DEF RequestsKnown
  <2>3. QED
    BY <2>1, <2>2
<1>4. QED
  BY <1>2, <1>3 DEF RequestsKnown

(* What a listing may become: it keeps or raises its revision, never opens *)
(* again, and has the same terms at the same revision.                     *)
Follows(a, b) ==
    /\ a.revision <= b.revision
    /\ b.status = "open" => a.status = "open"
    /\ a.revision = b.revision => SameTerms(a, b)

(* A listing made or changed.                                              *)
LEMMA ListingStep ==
  ASSUME Records, NEW l \in Listings, NEW new \in Listing, Priced(new),
         Exists(l) => Follows(listing[l], new),
         listing' = [listing EXCEPT ![l] = new]
  PROVE  /\ listing' \in [Listings -> Listing \cup {NoListing}]
         /\ listing'[l] = new /\ \A k \in Listings \ {l} : listing'[k] = listing[k]
         /\ Listed' = Listed \cup {l} /\ IsFiniteSet(Listed')
         /\ ListingsKnown'
         /\ \A c \in claims : Claimed(c)'
         /\ \A d \in due : ReadOf(d)'
<1>1. /\ listing \in [Listings -> Listing \cup {NoListing}] /\ NoListing \notin Listing
      /\ claims \subseteq Claim /\ due \subseteq [listing: Listings, read: Listing]
      /\ IsFiniteSet(Listed) /\ ListingsKnown /\ ClaimsKnown /\ DueKnown
  BY NoneAssumption DEF Records, TypeOK, Finite
<1>2. /\ listing' \in [Listings -> Listing \cup {NoListing}]
      /\ listing'[l] = new /\ \A k \in Listings \ {l} : listing'[k] = listing[k]
  BY <1>1
<1>3. Listed' = Listed \cup {l}
  BY <1>1, <1>2 DEF Listed, Exists
<1>4. IsFiniteSet(Listed')
  BY <1>1, <1>3, FS_AddElement
<1>5. ListingsKnown'
  <2> SUFFICES ASSUME NEW k \in Listed'
               PROVE  Priced(listing'[k])
    BY DEF ListingsKnown, Priced
  <2>1. CASE k = l
    BY <2>1, <1>2
  <2>2. CASE k # l
    BY <2>2, <1>1, <1>2, <1>3 DEF ListingsKnown, Listed
  <2>3. QED
    BY <2>1, <2>2
<1>6. ASSUME NEW c \in claims
      PROVE  Claimed(c)'
  <2>1. Claimed(c) /\ c.listing \in Listings /\ c.at \in Nat
    BY <1>1 DEF ClaimsKnown, Claim
  <2>2. CASE c.listing = l
    <3>1. Exists(l) /\ listing[l] \in Listing
      BY <2>1, <2>2, ListingOf DEF Claimed
    <3>2. listing[l].revision \in Nat /\ new.revision \in Nat
      BY <3>1, ListingFields
    <3>3. Follows(listing[l], new)
      BY <3>1
    <3>4. Exists(c.listing)'
      BY <1>1, <1>2, <2>2 DEF Exists
    <3>5. c.reason = "outbid" => c.at < listing'[c.listing].revision
      BY <2>1, <2>2, <1>2, <3>2, <3>3 DEF Claimed, Follows
    <3>6. c.reason # "outbid" => ~Open(c.listing)'
      BY <2>1, <2>2, <1>2, <3>1, <3>3 DEF Claimed, Follows, Open
    <3>7. QED
      BY <3>4, <3>5, <3>6 DEF Claimed
  <2>3. CASE c.listing # l
    <3>1. listing'[c.listing] = listing[c.listing]
      BY <1>2, <2>1, <2>3
    <3>2. QED
      BY <3>1, <2>1 DEF Claimed, Exists, Open
  <2>4. QED
    BY <2>2, <2>3
<1>7. ASSUME NEW d \in due
      PROVE  ReadOf(d)'
  <2>1. ReadOf(d) /\ d.listing \in Listings /\ d.read \in Listing
    BY <1>1 DEF DueKnown
  <2>2. CASE d.listing = l
    <3>1. Exists(l) /\ listing[l] \in Listing
      BY <2>1, <2>2, ListingOf DEF ReadOf
    <3>2. listing[l].revision \in Nat /\ new.revision \in Nat /\ d.read.revision \in Nat
      BY <2>1, <3>1, ListingFields
    <3>3. Follows(listing[l], new)
      BY <3>1
    <3>4. Exists(d.listing)'
      BY <1>1, <1>2, <2>2 DEF Exists
    <3>5. d.read.revision <= listing'[d.listing].revision
      BY <2>1, <2>2, <1>2, <3>2, <3>3 DEF ReadOf, Follows
    <3>6. ASSUME d.read.revision = listing'[d.listing].revision, Open(d.listing)'
          PROVE  SameTerms(d.read, listing'[d.listing])
      <4>1. listing'[d.listing] = new /\ listing[d.listing] = listing[l]
        BY <1>2, <2>2
      <4>2. d.read.revision = new.revision /\ new.status = "open"
        BY <3>6, <4>1 DEF Open
      <4>3. listing[l].revision = d.read.revision /\ listing[l].revision = new.revision
        BY <4>2, <3>2, <3>3, <2>1, <2>2 DEF ReadOf, Follows
      <4>4. Open(d.listing)
        BY <4>2, <3>3, <3>1, <2>2 DEF Open, Follows
      <4>5. SameTerms(d.read, listing[l]) /\ SameTerms(listing[l], new)
        BY <4>3, <4>4, <3>3, <2>1, <2>2 DEF ReadOf, Follows
      <4>6. QED
        BY <4>1, <4>5 DEF SameTerms
    <3>7. QED
      BY <3>4, <3>5, <3>6 DEF ReadOf, SameTerms
  <2>3. CASE d.listing # l
    <3>1. listing'[d.listing] = listing[d.listing]
      BY <1>2, <2>1, <2>3
    <3>2. QED
      BY <3>1, <2>1 DEF ReadOf, Exists, Open, SameTerms
  <2>4. QED
    BY <2>2, <2>3
<1>8. QED
  BY <1>2, <1>3, <1>4, <1>5, <1>6, <1>7

(* An operation sent: its escrow leaves the player.                        *)
LEMMA SendKeepsRecords ==
  ASSUME Records, NEW p \in Players, NEW r \in Operation, NEW escrow, 
         escrow \in [coins: Nat, stacks: SUBSET Stacks],
         Send(p, r, escrow), Escrows(p, r, escrow)
  PROVE  Records'
<1>1. /\ TypeOK /\ escrow.coins \in Nat /\ escrow.stacks \subseteq Stacks
  BY DEF Records
<1>2. [op |-> r, escrow |-> escrow] \in Request
  BY DEF Request
<1>3. request' \in [Players -> Request \cup {NoRequest}] /\ RequestsKnown'
  <2> DEFINE sent == [op |-> r, escrow |-> escrow]
  <2>1. sent \in Request \cup {NoRequest} /\ Escrows(p, sent.op, sent.escrow)
    BY <1>2
  <2>2. request' = [request EXCEPT ![p] = sent]
    BY DEF Send
  <2> HIDE DEF sent
  <2>3. QED
    BY <2>1, <2>2, RequestStep
<1>4. coins' \in [Players -> Nat]
  BY <1>1 DEF Send, TypeOK
<1>5. goods' \in [Players -> SUBSET Stacks]
  BY <1>1 DEF Send, TypeOK
<1>6. UNCHANGED <<market, listing, claims, due, edit>>
  BY DEF Send
<1>7. TypeOK'
  BY <1>1, <1>3, <1>4, <1>5, <1>6 DEF TypeOK
<1>8. Finite' /\ ListingsKnown' /\ ClaimsKnown' /\ DueKnown'
  BY <1>6 DEF Records, Finite, Listed, Exists, ListingsKnown, ClaimsKnown, Claimed, Open,
              DueKnown, ReadOf
<1>9. QED
  BY <1>3, <1>7, <1>8 DEF Records

(* An answer: escrow and what the operation gives go to the player.        *)
LEMMA Answered ==
  ASSUME Records, NEW p \in Players, NEW gets, gets.coins \in Nat, gets.stacks \subseteq Stacks,
         Applied(p, gets)
  PROVE  /\ request' \in [Players -> Request \cup {NoRequest}] /\ RequestsKnown'
         /\ coins' \in [Players -> Nat] /\ goods' \in [Players -> SUBSET Stacks]
<1>1. request' \in [Players -> Request \cup {NoRequest}] /\ RequestsKnown'
  BY RequestStep DEF Applied
<1>2. coins' \in [Players -> Nat] /\ goods' \in [Players -> SUBSET Stacks]
  BY DEF Applied, Records, TypeOK
<1>3. QED
  BY <1>1, <1>2

(* What holds while the listings stay as they are.                         *)
LEMMA ListingsUntouched ==
  ASSUME Records, listing' = listing, claims' \subseteq claims, due' = due
  PROVE  Finite' /\ ListingsKnown' /\ ClaimsKnown' /\ DueKnown'
<1>1. IsFiniteSet(claims')
  BY FS_Subset DEF Records, Finite
<1>2. Finite' /\ ListingsKnown' /\ DueKnown'
  BY <1>1 DEF Records, Finite, Listed, Exists, ListingsKnown, Open, DueKnown, ReadOf
<1>3. ClaimsKnown'
  BY DEF Records, ClaimsKnown, Claimed, Exists, Open
<1>4. QED
  BY <1>2, <1>3

LEMMA GiveBackKeepsRecords ==
  ASSUME Records, NEW p \in Players, GiveBack(p)
  PROVE  Records'
<1>1. request[p] # NoRequest /\ Applied(p, request[p].escrow)
      /\ UNCHANGED <<market, listing, claims, due, edit>>
  BY DEF GiveBack
<1>2. /\ request' \in [Players -> Request \cup {NoRequest}] /\ RequestsKnown'
      /\ coins' \in [Players -> Nat] /\ goods' \in [Players -> SUBSET Stacks]
  BY <1>1, RequestFields, Answered
<1>3. TypeOK'
  BY <1>1, <1>2 DEF Records, TypeOK
<1>4. Finite' /\ ListingsKnown' /\ ClaimsKnown' /\ DueKnown'
  BY <1>1, ListingsUntouched
<1>5. QED
  BY <1>2, <1>3, <1>4 DEF Records

(* The operation a player waits for.                                       *)
LEMMA Waiting ==
  ASSUME Records, NEW p \in Players, NEW kind, Doing(p, kind)
  PROVE  /\ request[p] # NoRequest /\ request[p].op.kind = kind
         /\ request[p] \in Request /\ request[p].op \in Operation
         /\ request[p].escrow.coins \in Nat /\ request[p].escrow.stacks \subseteq Stacks
         /\ Escrows(p, request[p].op, request[p].escrow)
BY RequestFields DEF Doing

(* Whatever a player sends, with the escrow of its kind.                   *)
Sent(p) ==
    \E r \in Operation, escrow \in [coins: Nat, stacks: SUBSET Stacks] :
       Send(p, r, escrow) /\ Escrows(p, r, escrow)

LEMMA SendsAre ==
  ASSUME Records, NEW p \in Players, Sends(p)
  PROVE  Sent(p)
<1> USE Terms
<1>1. ASSUME NEW s \in Stacks, NEW mode \in {"fixed", "auction"}, NEW price \in Prices,
             SendList(p, s, mode, price)
      PROVE  Sent(p)
  <2> DEFINE r == [kind |-> "list", stack |-> s, mode |-> mode, price |-> price,
                   saleFee |-> market.saleFee]
             escrow == [coins |-> ListingFee, stacks |-> {s}]
  <2>1. market.saleFee \in SaleFees
    BY <1>1 DEF SendList, Records, TypeOK, Profile
  <2>2. r \in Operation
    BY <2>1 DEF Operation
  <2>3. escrow \in [coins: Nat, stacks: SUBSET Stacks] /\ Escrows(p, r, escrow)
    BY DEF Escrows
  <2>4. Send(p, r, escrow)
    BY <1>1 DEF SendList
  <2> HIDE DEF r, escrow
  <2>5. QED
    BY <2>2, <2>3, <2>4 DEF Sent
<1>2. ASSUME NEW l \in Listings, SendCancel(p, l)
      PROVE  Sent(p)
  <2> DEFINE r == [kind |-> "cancel", listing |-> l, revision |-> listing[l].revision]
  <2>1. listing[l].revision \in Nat
    BY <1>2, ListingOf, ListingFields DEF SendCancel, Shown, Open
  <2>2. r \in Operation
    BY <2>1 DEF Operation
  <2>3. NoEscrow \in [coins: Nat, stacks: SUBSET Stacks] /\ Escrows(p, r, NoEscrow)
    BY DEF Escrows, NoEscrow
  <2>4. Send(p, r, NoEscrow)
    BY <1>2 DEF SendCancel
  <2> HIDE DEF r
  <2>5. QED
    BY <2>2, <2>3, <2>4 DEF Sent
<1>3. ASSUME NEW l \in Listings, SendBuy(p, l)
      PROVE  Sent(p)
  <2> DEFINE r == [kind |-> "buy", listing |-> l, revision |-> listing[l].revision,
                   price |-> listing[l].price]
             escrow == [coins |-> listing[l].price, stacks |-> {}]
  <2>1. listing[l].revision \in Nat /\ listing[l].price \in Nat
    BY <1>3, ListingOf, ListingFields DEF SendBuy, Shown, Open
  <2>2. r \in Operation
    BY <2>1 DEF Operation
  <2>3. escrow \in [coins: Nat, stacks: SUBSET Stacks] /\ Escrows(p, r, escrow)
    BY <2>1 DEF Escrows
  <2>4. Send(p, r, escrow)
    BY <1>3 DEF SendBuy
  <2> HIDE DEF r, escrow
  <2>5. QED
    BY <2>2, <2>3, <2>4 DEF Sent
<1>4. ASSUME NEW l \in Listings, NEW price \in Prices, SendBid(p, l, price)
      PROVE  Sent(p)
  <2> DEFINE r == [kind |-> "bid", listing |-> l, revision |-> listing[l].revision,
                   price |-> price]
             escrow == [coins |-> price, stacks |-> {}]
  <2>1. listing[l].revision \in Nat /\ price \in Nat
    BY <1>4, ListingOf, ListingFields DEF SendBid, Shown, Open
  <2>2. r \in Operation
    BY <2>1 DEF Operation
  <2>3. escrow \in [coins: Nat, stacks: SUBSET Stacks] /\ Escrows(p, r, escrow)
    BY <2>1 DEF Escrows
  <2>4. Send(p, r, escrow)
    BY <1>4 DEF SendBid
  <2> HIDE DEF r, escrow
  <2>5. QED
    BY <2>2, <2>3, <2>4 DEF Sent
<1>5. ASSUME NEW some \in SUBSET claims, SendCollect(p, some)
      PROVE  Sent(p)
  <2> DEFINE r == [kind |-> "collect", claims |-> some]
  <2>1. some \subseteq Claim
    BY DEF Records, TypeOK
  <2>2. r \in Operation
    BY <2>1 DEF Operation
  <2>3. NoEscrow \in [coins: Nat, stacks: SUBSET Stacks] /\ Escrows(p, r, NoEscrow)
    BY <1>5 DEF Escrows, NoEscrow, SendCollect
  <2>4. Send(p, r, NoEscrow)
    BY <1>5 DEF SendCollect
  <2> HIDE DEF r
  <2>5. QED
    BY <2>2, <2>3, <2>4 DEF Sent
<1>6. QED
  BY <1>1, <1>2, <1>3, <1>4, <1>5 DEF Sends

LEMMA SendsKeepRecords ==
  ASSUME Records, NEW p \in Players, Sends(p)
  PROVE  Records'
BY SendsAre, SendKeepsRecords DEF Sent

(* What a check of the terms makes of a request.                           *)
LEMMA Checks ==
  ASSUME Records, NEW p \in Players, ReadTerms(p)
  PROVE  \E new \in Request :
            /\ request[p] # NoRequest /\ request' = [request EXCEPT ![p] = new]
            /\ new.escrow = request[p].escrow /\ Escrows(p, new.op, new.escrow)
            /\ UNCHANGED <<market, listing, claims, coins, goods, due, edit>>
<1> DEFINE r == request[p].op
           checked == [kind |-> "checked", stack |-> r.stack, mode |-> r.mode, price |-> r.price,
                       saleFee |-> market.saleFee, scope |-> market.scope]
           new == [op |-> checked, escrow |-> request[p].escrow]
<1>1. /\ Doing(p, "list") /\ TermsAccepted(r)
      /\ UNCHANGED <<market, listing, claims, coins, goods, due, edit>>
  BY DEF ReadTerms
<1>2. /\ request[p] # NoRequest /\ r.kind = "list" /\ request[p] \in Request /\ r \in Operation
      /\ Escrows(p, r, request[p].escrow)
  BY <1>1, Waiting
<1>3. /\ r.stack \in Stacks /\ r.mode \in {"fixed", "auction"} /\ r.price \in Nat
  BY <1>2, OperationFields
<1>4. market.saleFee \in SaleFees /\ market.scope \in Scopes
  BY <1>1 DEF TermsAccepted, Records, TypeOK, Profile
<1>5. checked \in Operation
  BY <1>3, <1>4 DEF Operation
<1>6. new \in Request
  BY <1>2, <1>5 DEF Request
<1>7. Escrows(p, new.op, new.escrow) /\ new.escrow = request[p].escrow
  BY <1>1, <1>2 DEF Escrows, TermsAccepted
<1>8. request' = [request EXCEPT ![p] = new]
  <2>1. [request[p] EXCEPT !.op = checked] = new
    BY <1>2 DEF Request
  <2>2. request' = [request EXCEPT ![p] = [request[p] EXCEPT !.op = checked]]
    BY DEF ReadTerms
  <2>3. QED
    BY <2>1, <2>2
<1> HIDE DEF new
<1>9. QED
  BY <1>1, <1>2, <1>6, <1>7, <1>8

LEMMA ReadTermsKeepsRecords ==
  ASSUME Records, NEW p \in Players, ReadTerms(p)
  PROVE  Records'
<1>1. PICK new \in Request :
         /\ request' = [request EXCEPT ![p] = new] /\ Escrows(p, new.op, new.escrow)
         /\ UNCHANGED <<market, listing, claims, coins, goods, due, edit>>
  BY Checks
<1>2. request' \in [Players -> Request \cup {NoRequest}] /\ RequestsKnown'
  BY <1>1, RequestStep
<1>3. TypeOK'
  BY <1>1, <1>2 DEF Records, TypeOK
<1>4. Finite' /\ ListingsKnown' /\ ClaimsKnown' /\ DueKnown'
  BY <1>1, ListingsUntouched
<1>5. QED
  BY <1>2, <1>3, <1>4 DEF Records

(* A listing that closes keeps its terms, however it closes.               *)
LEMMA ShutTerms ==
  ASSUME NEW a \in Listing, NEW status, NEW buyer
  PROVE  /\ SameTerms(a, Shut(a, status, buyer))
         /\ Shut(a, status, buyer).status = status /\ Shut(a, status, buyer).buyer = buyer
BY DEF Listing, Shut, SameTerms

(* A closed listing keeps its terms.                                       *)
LEMMA ShutFields ==
  ASSUME NEW a \in Listing, Priced(a), NEW status \in {"sold", "cancelled", "expired"},
         NEW buyer \in Players \cup {NoPlayer}
  PROVE  /\ Shut(a, status, buyer) \in Listing /\ Priced(Shut(a, status, buyer))
         /\ Follows(a, Shut(a, status, buyer))
         /\ SameTerms(a, Shut(a, status, buyer))
         /\ Shut(a, status, buyer).status = status /\ Shut(a, status, buyer).buyer = buyer
         /\ Shut(a, status, buyer).revision = a.revision + 1
         /\ Shut(a, status, buyer).scope = a.scope
<1> DEFINE b == Shut(a, status, buyer)
<1>1. a.revision \in Nat
  BY ListingFields
<1>2. b \in Listing
  <2> DEFINE a1 == [a EXCEPT !.status = status]
             a2 == [a1 EXCEPT !.buyer = buyer]
  <2>1. a1 \in Listing /\ a1.revision = a.revision
    BY DEF Listing
  <2>2. b = [a2 EXCEPT !.revision = a.revision + 1]
    BY <2>1 DEF Shut
  <2> HIDE DEF a1
  <2>3. a2 \in Listing
    BY <2>1 DEF Listing
  <2> HIDE DEF a2
  <2>4. [a2 EXCEPT !.revision = a.revision + 1] \in Listing
    BY <2>3, <1>1 DEF Listing
  <2>5. QED
    BY <2>2, <2>4
<1>3. /\ b.status = status /\ b.buyer = buyer /\ b.revision = a.revision + 1 /\ b.scope = a.scope
      /\ SameTerms(a, b)
  BY DEF Listing, Shut, SameTerms
<1> HIDE DEF b
<1>4. Priced(b)
  BY <1>3 DEF Priced, SameTerms
<1>5. Follows(a, b)
  BY <1>1, <1>3 DEF Follows
<1>6. QED
  BY <1>2, <1>3, <1>4, <1>5 DEF b

(* A listing closes: what ListingStep says of it.                          *)
LEMMA ListingShut ==
  ASSUME Records, NEW l \in Listings, Exists(l), NEW status \in {"sold", "cancelled", "expired"},
         NEW buyer \in Players \cup {NoPlayer}, listing' = Closed(l, status, buyer)
  PROVE  /\ listing' \in [Listings -> Listing \cup {NoListing}]
         /\ listing'[l] = Shut(listing[l], status, buyer)
         /\ \A k \in Listings \ {l} : listing'[k] = listing[k]
         /\ Listed' = Listed /\ IsFiniteSet(Listed')
         /\ ListingsKnown'
         /\ \A c \in claims : Claimed(c)'
         /\ \A d \in due : ReadOf(d)'
         /\ Exists(l)' /\ ~Open(l)'
<1> DEFINE new == Shut(listing[l], status, buyer)
<1>1. listing[l] \in Listing /\ Priced(listing[l]) /\ l \in Listed
  BY ListingOf
<1>2. new \in Listing /\ Priced(new) /\ Follows(listing[l], new) /\ new.status = status
  BY <1>1, ShutFields
<1>3. listing' = [listing EXCEPT ![l] = new]
  BY DEF Closed
<1> HIDE DEF new
<1>4. /\ listing' \in [Listings -> Listing \cup {NoListing}]
      /\ listing'[l] = new /\ \A k \in Listings \ {l} : listing'[k] = listing[k]
      /\ Listed' = Listed \cup {l} /\ IsFiniteSet(Listed')
      /\ ListingsKnown'
      /\ \A c \in claims : Claimed(c)'
      /\ \A d \in due : ReadOf(d)'
  BY <1>2, <1>3, ListingStep
<1>5. Listed' = Listed
  BY <1>1, <1>4
<1>6. Exists(l)' /\ ~Open(l)'
  BY <1>2, <1>4, NoneAssumption DEF Exists, Open
<1>7. QED
  BY <1>4, <1>5, <1>6 DEF new

(* A claim as made.                                                        *)
LEMMA OwedFields ==
  ASSUME NEW l \in Listings, NEW reason \in {"sale", "won", "outbid", "unsold"}, NEW at \in Nat,
         NEW p \in Players, NEW amount \in Nat, NEW stacks \in SUBSET Stacks
  PROVE  /\ Owed(l, reason, at, p, amount, stacks) \in Claim
         /\ Owed(l, reason, at, p, amount, stacks).listing = l
         /\ Owed(l, reason, at, p, amount, stacks).reason = reason
         /\ Owed(l, reason, at, p, amount, stacks).at = at
         /\ Owed(l, reason, at, p, amount, stacks).player = p
         /\ Owed(l, reason, at, p, amount, stacks).coins = amount
         /\ Owed(l, reason, at, p, amount, stacks).stacks = stacks
BY DEF Owed, Claim

(* A sale at a price that covers the fee leaves no debt.                   *)
LEMMA ProceedsNat ==
  ASSUME NEW price \in Nat, NEW fee \in SaleFees, PriceMin <= price
  PROVE  Proceeds(price, fee) \in Nat /\ Proceeds(price, fee) = price - fee
BY Terms DEF Proceeds

(* What a new listing is.                                                  *)
LEMMA Lists ==
  ASSUME Records, NEW p \in Players, NEW l \in Listings, List(p, l)
  PROVE  \E new \in Listing :
            /\ request[p] # NoRequest /\ request[p].escrow.coins = ListingFee
            /\ request[p].escrow.stacks = {new.stack}
            /\ ~Exists(l) /\ listing' = [listing EXCEPT ![l] = new]
            /\ new.status = "open" /\ new.seller = p
            /\ new.bidder = NoPlayer /\ new.buyer = NoPlayer
            /\ Priced(new)
            /\ Applied(p, NoEscrow) /\ UNCHANGED <<market, claims, due, edit>>
<1> DEFINE r == request[p].op
           new == [status |-> "open", time |-> "open", scope |-> r.scope, seller |-> p,
                   stack |-> r.stack, mode |-> r.mode, price |-> r.price, bid |-> 0,
                   bidder |-> NoPlayer, saleFee |-> r.saleFee, revision |-> 0, buyer |-> NoPlayer]
<1>1. /\ Doing(p, "checked") /\ ~Exists(l) /\ listing' = [listing EXCEPT ![l] = new]
      /\ Applied(p, NoEscrow) /\ UNCHANGED <<market, claims, due, edit>>
  BY DEF List
<1>2. /\ request[p] # NoRequest /\ r \in Operation /\ r.kind = "checked"
      /\ Escrows(p, r, request[p].escrow)
  BY <1>1, Waiting
<1>3. /\ r.stack \in Stacks /\ r.mode \in {"fixed", "auction"} /\ r.price \in Nat
      /\ r.saleFee \in SaleFees /\ r.scope \in Scopes /\ PriceMin <= r.price
  BY <1>2, OperationFields DEF Escrows
<1>4. new \in Listing /\ Priced(new)
  BY <1>3 DEF Listing, Priced
<1>5. /\ new.status = "open" /\ new.seller = p /\ new.stack = r.stack
      /\ new.bidder = NoPlayer /\ new.buyer = NoPlayer
  OBVIOUS
<1>6. request[p].escrow.coins = ListingFee /\ request[p].escrow.stacks = {r.stack}
  BY <1>2 DEF Escrows
<1> HIDE DEF new
<1>7. QED
  BY <1>1, <1>2, <1>4, <1>5, <1>6

LEMMA ListKeepsRecords ==
  ASSUME Records, NEW p \in Players, NEW l \in Listings, List(p, l)
  PROVE  Records'
<1>1. PICK new \in Listing :
         /\ ~Exists(l) /\ listing' = [listing EXCEPT ![l] = new] /\ Priced(new)
         /\ Applied(p, NoEscrow) /\ UNCHANGED <<market, claims, due, edit>>
  BY Lists
<1>2. /\ listing' \in [Listings -> Listing \cup {NoListing}]
      /\ Listed' = Listed \cup {l} /\ IsFiniteSet(Listed')
      /\ ListingsKnown'
      /\ \A c \in claims : Claimed(c)'
      /\ \A d \in due : ReadOf(d)'
  BY <1>1, ListingStep
<1>3. /\ request' \in [Players -> Request \cup {NoRequest}] /\ RequestsKnown'
      /\ coins' \in [Players -> Nat] /\ goods' \in [Players -> SUBSET Stacks]
  BY <1>1, Answered DEF NoEscrow
<1>4. TypeOK'
  BY <1>1, <1>2, <1>3 DEF Records, TypeOK
<1>5. Finite' /\ ClaimsKnown' /\ DueKnown'
  BY <1>1, <1>2 DEF Records, Finite, ClaimsKnown, DueKnown
<1>6. QED
  BY <1>2, <1>3, <1>4, <1>5 DEF Records

LEMMA CancelKeepsRecords ==
  ASSUME Records, NEW p \in Players, Cancel(p)
  PROVE  Records'
<1> DEFINE l == request[p].op.listing
<1>1. /\ Doing(p, "cancel") /\ Cancellable(p, request[p].op)
      /\ listing' = Closed(l, "cancelled", NoPlayer)
      /\ Applied(p, [coins |-> 0, stacks |-> {listing[l].stack}])
      /\ UNCHANGED <<market, claims, due, edit>>
  BY DEF Cancel
<1>2. l \in Listings /\ Exists(l)
  BY <1>1, Waiting, OperationFields DEF Cancellable, Matches, Open
<1> HIDE DEF l
<1>3. /\ listing' \in [Listings -> Listing \cup {NoListing}]
      /\ Listed' = Listed /\ IsFiniteSet(Listed')
      /\ ListingsKnown'
      /\ \A c \in claims : Claimed(c)'
      /\ \A d \in due : ReadOf(d)'
  BY <1>1, <1>2, ListingShut
<1>4. listing[l].stack \in Stacks
  BY <1>2, ListingOf, ListingFields
<1>5. /\ request' \in [Players -> Request \cup {NoRequest}] /\ RequestsKnown'
      /\ coins' \in [Players -> Nat] /\ goods' \in [Players -> SUBSET Stacks]
  <2> DEFINE gets == [coins |-> 0, stacks |-> {listing[l].stack}]
  <2>1. gets.coins \in Nat /\ gets.stacks \subseteq Stacks /\ Applied(p, gets)
    BY <1>1, <1>4
  <2> HIDE DEF gets
  <2>2. QED
    BY <2>1, Answered
<1>6. TypeOK'
  BY <1>1, <1>3, <1>5 DEF Records, TypeOK
<1>7. Finite' /\ ClaimsKnown' /\ DueKnown'
  BY <1>1, <1>3 DEF Records, Finite, ClaimsKnown, DueKnown
<1>8. QED
  BY <1>3, <1>5, <1>6, <1>7 DEF Records

(* What a purchase finds and makes.                                        *)
LEMMA Bought ==
  ASSUME Records, NEW p \in Players, Buy(p)
  PROVE  \E l \in Listings, sale \in Claim :
            /\ Open(l) /\ Exists(l) /\ listing[l].mode = "fixed" /\ listing[l].seller # p
            /\ request[p] # NoRequest /\ request[p].escrow.coins = listing[l].price
            /\ request[p].escrow.stacks = {}
            /\ listing' = Closed(l, "sold", p)
            /\ sale.listing = l /\ sale.reason = "sale" /\ sale.player = listing[l].seller
            /\ sale.coins = listing[l].price - listing[l].saleFee /\ sale.stacks = {}
            /\ claims' = claims \cup {sale}
            /\ Applied(p, [coins |-> 0, stacks |-> {listing[l].stack}])
            /\ UNCHANGED <<market, due, edit>>
<1> DEFINE l == request[p].op.listing
           a == listing[l]
           sale == Owed(l, "sale", 0, a.seller, Proceeds(a.price, a.saleFee), {})
<1>1. /\ Doing(p, "buy") /\ Matches(request[p].op)
      /\ a.mode = "fixed" /\ a.price = request[p].op.price /\ a.seller # p
      /\ listing' = Closed(l, "sold", p) /\ claims' = claims \cup {sale}
      /\ Applied(p, [coins |-> 0, stacks |-> {a.stack}])
      /\ UNCHANGED <<market, due, edit>>
  BY DEF Buy
<1>2. /\ request[p] # NoRequest /\ request[p].op \in Operation /\ request[p].op.kind = "buy"
      /\ Escrows(p, request[p].op, request[p].escrow)
  BY <1>1, Waiting
<1>3. l \in Listings /\ Open(l) /\ Exists(l)
  BY <1>1, <1>2, OperationFields DEF Matches, Open
<1>4. a \in Listing /\ Priced(a)
  BY <1>3, ListingOf
<1>5. /\ a.seller \in Players /\ a.price \in Nat /\ a.saleFee \in SaleFees /\ PriceMin <= a.price
  BY <1>4, ListingFields DEF Priced
<1>6. Proceeds(a.price, a.saleFee) \in Nat /\ Proceeds(a.price, a.saleFee) = a.price - a.saleFee
  BY <1>5, ProceedsNat
<1>7. /\ sale \in Claim /\ sale.listing = l /\ sale.reason = "sale" /\ sale.player = a.seller
      /\ sale.coins = a.price - a.saleFee /\ sale.stacks = {}
  <2> DEFINE amount == Proceeds(a.price, a.saleFee)
  <2>1. amount \in Nat /\ amount = a.price - a.saleFee
    BY <1>6
  <2>2. sale = Owed(l, "sale", 0, a.seller, amount, {})
    OBVIOUS
  <2>3. {} \in SUBSET Stacks /\ 0 \in Nat /\ "sale" \in {"sale", "won", "outbid", "unsold"}
    OBVIOUS
  <2> HIDE DEF amount, sale, l
  <2> QED
    BY <1>3, <1>5, <2>1, <2>2, <2>3, OwedFields
<1>8. request[p].escrow.coins = a.price /\ request[p].escrow.stacks = {}
  BY <1>1, <1>2 DEF Escrows
<1> HIDE DEF l, sale
<1>9. QED
  BY <1>1, <1>2, <1>3, <1>7, <1>8

LEMMA BuyKeepsRecords ==
  ASSUME Records, NEW p \in Players, Buy(p)
  PROVE  Records'
<1>1. PICK l \in Listings, sale \in Claim :
         /\ Open(l) /\ Exists(l) /\ listing' = Closed(l, "sold", p)
         /\ sale.listing = l /\ sale.reason = "sale"
         /\ claims' = claims \cup {sale}
         /\ Applied(p, [coins |-> 0, stacks |-> {listing[l].stack}])
         /\ UNCHANGED <<market, due, edit>>
  BY Bought
<1>2. /\ listing' \in [Listings -> Listing \cup {NoListing}]
      /\ Listed' = Listed /\ IsFiniteSet(Listed')
      /\ ListingsKnown'
      /\ \A c \in claims : Claimed(c)'
      /\ \A d \in due : ReadOf(d)'
      /\ Exists(l)' /\ ~Open(l)'
  BY <1>1, ListingShut
<1>3. listing[l].stack \in Stacks
  BY <1>1, ListingOf, ListingFields
<1>4. /\ request' \in [Players -> Request \cup {NoRequest}] /\ RequestsKnown'
      /\ coins' \in [Players -> Nat] /\ goods' \in [Players -> SUBSET Stacks]
  <2> DEFINE gets == [coins |-> 0, stacks |-> {listing[l].stack}]
  <2>1. gets.coins \in Nat /\ gets.stacks \subseteq Stacks /\ Applied(p, gets)
    BY <1>1, <1>3
  <2> HIDE DEF gets
  <2>2. QED
    BY <2>1, Answered
<1>5. TypeOK'
  BY <1>1, <1>2, <1>4 DEF Records, TypeOK
<1>6. ClaimsKnown'
  BY <1>1, <1>2 DEF ClaimsKnown, Claimed
<1>7. Finite' /\ DueKnown'
  BY <1>1, <1>2, FS_AddElement DEF Records, Finite, DueKnown
<1>8. QED
  BY <1>2, <1>4, <1>5, <1>6, <1>7 DEF Records

(* A listing with a higher bid.                                            *)
Raised(a, price, p) == [a EXCEPT !.bid = price, !.bidder = p, !.revision = @ + 1]

LEMMA RaisedFields ==
  ASSUME NEW a \in Listing, a.mode = "auction", Priced(a), NEW p \in Players,
         NEW price \in Nat, a.price <= price
  PROVE  /\ Raised(a, price, p) \in Listing /\ Priced(Raised(a, price, p))
         /\ a.status = "open" => Follows(a, Raised(a, price, p))
         /\ Raised(a, price, p).bid = price /\ Raised(a, price, p).bidder = p
         /\ Raised(a, price, p).revision = a.revision + 1
         /\ Raised(a, price, p).status = a.status /\ Raised(a, price, p).seller = a.seller
         /\ Raised(a, price, p).stack = a.stack /\ Raised(a, price, p).buyer = a.buyer
<1> DEFINE b == Raised(a, price, p)
<1>1. a.revision \in Nat /\ a.price \in Nat
  BY ListingFields
<1>2. b \in Listing
  <2> DEFINE a1 == [a EXCEPT !.bid = price]
             a2 == [a1 EXCEPT !.bidder = p]
  <2>1. a1 \in Listing /\ a1.revision = a.revision
    BY DEF Listing
  <2>2. b = [a2 EXCEPT !.revision = a.revision + 1]
    BY <2>1 DEF Raised
  <2> HIDE DEF a1
  <2>3. a2 \in Listing
    BY <2>1 DEF Listing
  <2> HIDE DEF a2
  <2>4. [a2 EXCEPT !.revision = a.revision + 1] \in Listing
    BY <2>3, <1>1 DEF Listing
  <2>5. QED
    BY <2>2, <2>4
<1>3. /\ b.bid = price /\ b.bidder = p /\ b.revision = a.revision + 1
      /\ b.status = a.status /\ b.seller = a.seller /\ b.stack = a.stack /\ b.buyer = a.buyer
      /\ b.mode = a.mode /\ b.price = a.price
  BY DEF Listing, Raised
<1> HIDE DEF b
<1>4. Priced(b)
  BY <1>3, NoneAssumption DEF Priced
<1>5. a.status = "open" => Follows(a, b)
  BY <1>1, <1>3 DEF Follows
<1>6. QED
  BY <1>2, <1>3, <1>4, <1>5 DEF b

(* A bid that is high enough reaches the price.                            *)
LEMMA MinBidCovers ==
  ASSUME NEW a \in Listing, Priced(a), NEW price \in Nat, MinBid(a) <= price
  PROVE  a.price <= price
<1> DEFINE step == (a.bid * RaisePercent + 99) \div 100
<1>1. /\ a.bid \in Nat /\ a.price \in Nat /\ a.bidder \in Players \cup {NoPlayer}
      /\ MinRaise \in Nat /\ RaisePercent \in Nat
  BY ListingFields, Terms
<1>2. CASE a.bid > 0
  <2>1. step \in Nat
    <3>1. a.bid * RaisePercent \in Nat
      BY <1>1
    <3>2. QED
      BY <3>1
  <2> HIDE DEF step
  <2>2. Max({MinRaise, step}) \in {MinRaise, step}
    <3>1. \E x \in {MinRaise, step} : \A y \in {MinRaise, step} : x >= y
      BY <1>1, <2>1
    <3>2. QED
      BY <3>1 DEF Max
  <2>3. Max({MinRaise, step}) \in Nat
    BY <2>1, <2>2, <1>1
  <2>4. MinBid(a) = a.bid + Max({MinRaise, step})
    BY <1>2 DEF MinBid, step
  <2>5. a.price <= a.bid
    BY <1>2, <1>1 DEF Priced
  <2> DEFINE raise == Max({MinRaise, step})
  <2>6. raise \in Nat /\ a.bid + raise <= price
    BY <2>3, <2>4
  <2> HIDE DEF raise
  <2>7. QED
    BY <2>5, <2>6, <1>1
<1>3. CASE ~(a.bid > 0)
  <2>1. MinBid(a) = a.price
    BY <1>3 DEF MinBid
  <2>2. QED
    BY <2>1
<1>4. QED
  BY <1>2, <1>3

(* A bid of p on l at a price; some is the claim of the bidder it outbids. *)
BidDone(p, l, price, some) ==
    /\ Open(l) /\ Exists(l) /\ listing[l].mode = "auction" /\ listing[l].price <= price
    /\ request[p] # NoRequest /\ request[p].escrow.coins = price
    /\ request[p].escrow.stacks = {}
    /\ listing' = [listing EXCEPT ![l] = Raised(listing[l], price, p)]
    /\ listing[l].bidder = NoPlayer => some = {}
    /\ listing[l].bidder # NoPlayer =>
          \E c \in Claim : /\ some = {c} /\ c.listing = l /\ c.reason = "outbid"
                           /\ c.at = listing[l].revision
                           /\ c.player = listing[l].bidder
                           /\ c.coins = listing[l].bid /\ c.stacks = {}
    /\ claims' = claims \cup some
    /\ Applied(p, NoEscrow)
    /\ UNCHANGED <<market, due, edit>>

(* What a bid finds and makes; the bidder it replaces is owed its bid.     *)
LEMMA Outbids ==
  ASSUME Records, NEW p \in Players, Bid(p)
  PROVE  \E l \in Listings, price \in Nat, some \in SUBSET Claim :
            BidDone(p, l, price, some)
<1> DEFINE l == request[p].op.listing
           a == listing[l]
           price == request[p].op.price
           some == OutbidClaim(a, l)
<1>1. /\ Doing(p, "bid") /\ Matches(request[p].op)
      /\ a.mode = "auction" /\ MinBid(a) <= price
      /\ listing' = [listing EXCEPT ![l] = Raised(a, price, p)]
      /\ claims' = claims \cup some
      /\ Applied(p, NoEscrow)
      /\ UNCHANGED <<market, due, edit>>
  BY DEF Bid, Raised
<1>2. /\ request[p] # NoRequest /\ request[p].op \in Operation /\ request[p].op.kind = "bid"
      /\ Escrows(p, request[p].op, request[p].escrow)
  BY <1>1, Waiting
<1>3. l \in Listings /\ Open(l) /\ Exists(l) /\ price \in Nat
  BY <1>1, <1>2, OperationFields DEF Matches, Open
<1>4. a \in Listing /\ Priced(a)
  BY <1>3, ListingOf
<1>5. a.price <= price
  BY <1>1, <1>3, <1>4, MinBidCovers
<1>6. request[p].escrow.coins = price /\ request[p].escrow.stacks = {}
  BY <1>2 DEF Escrows
<1>7. a.bidder = NoPlayer => some = {}
  BY DEF OutbidClaim
<1>8. ASSUME a.bidder # NoPlayer
      PROVE  \E c \in Claim : /\ some = {c} /\ c.listing = l /\ c.reason = "outbid"
                              /\ c.at = a.revision /\ c.player = a.bidder
                              /\ c.coins = a.bid /\ c.stacks = {}
  <2> DEFINE c == Owed(l, "outbid", a.revision, a.bidder, a.bid, {})
  <2>1. a.bidder \in Players /\ a.bid \in Nat /\ a.revision \in Nat
    BY <1>4, <1>8, ListingFields
  <2>2. /\ c \in Claim /\ c.listing = l /\ c.reason = "outbid" /\ c.at = a.revision
        /\ c.player = a.bidder /\ c.coins = a.bid /\ c.stacks = {}
    BY <2>1, <1>3, OwedFields
  <2>3. some = {c}
    BY <1>8 DEF OutbidClaim
  <2> HIDE DEF c
  <2>4. QED
    BY <2>2, <2>3
<1>9. some \in SUBSET Claim
  BY <1>7, <1>8
<1> HIDE DEF l, price, some
<1>10. QED
  BY <1>1, <1>2, <1>3, <1>5, <1>6, <1>7, <1>8, <1>9 DEF BidDone

LEMMA BidKeepsRecords ==
  ASSUME Records, NEW p \in Players, Bid(p)
  PROVE  Records'
<1>0. PICK l \in Listings, price \in Nat, some \in SUBSET Claim : BidDone(p, l, price, some)
  BY Outbids
<1>1. /\ Open(l) /\ Exists(l) /\ listing[l].mode = "auction" /\ listing[l].price <= price
      /\ listing' = [listing EXCEPT ![l] = Raised(listing[l], price, p)]
      /\ listing[l].bidder = NoPlayer => some = {}
      /\ listing[l].bidder # NoPlayer =>
            \E c \in Claim : /\ some = {c} /\ c.listing = l /\ c.reason = "outbid"
                             /\ c.at = listing[l].revision
      /\ claims' = claims \cup some
      /\ Applied(p, NoEscrow)
      /\ UNCHANGED <<market, due, edit>>
  BY <1>0 DEF BidDone
<1> DEFINE new == Raised(listing[l], price, p)
<1>2. listing[l] \in Listing /\ Priced(listing[l]) /\ l \in Listed /\ listing[l].revision \in Nat
  BY <1>1, ListingOf, ListingFields
<1>3. /\ new \in Listing /\ Priced(new) /\ Follows(listing[l], new)
      /\ new.revision = listing[l].revision + 1
  BY <1>1, <1>2, RaisedFields DEF Open
<1> HIDE DEF new
<1>4. /\ listing' \in [Listings -> Listing \cup {NoListing}] /\ listing'[l] = new
      /\ Listed' = Listed \cup {l} /\ IsFiniteSet(Listed')
      /\ ListingsKnown'
      /\ \A c \in claims : Claimed(c)'
      /\ \A d \in due : ReadOf(d)'
  <2>1. listing' = [listing EXCEPT ![l] = new]
    BY <1>1 DEF new
  <2>2. QED
    BY <1>3, <2>1, ListingStep
<1>5. /\ request' \in [Players -> Request \cup {NoRequest}] /\ RequestsKnown'
      /\ coins' \in [Players -> Nat] /\ goods' \in [Players -> SUBSET Stacks]
  BY <1>1, Answered DEF NoEscrow
<1>6. TypeOK'
  BY <1>1, <1>4, <1>5 DEF Records, TypeOK
<1>7. IsFiniteSet(some) /\ \A c \in some : Claimed(c)'
  <2>1. CASE listing[l].bidder = NoPlayer
    BY <2>1, <1>1, FS_EmptySet
  <2>2. CASE listing[l].bidder # NoPlayer
    <3>1. PICK c \in Claim : /\ some = {c} /\ c.listing = l /\ c.reason = "outbid"
                             /\ c.at = listing[l].revision
      BY <2>2, <1>1
    <3>2. Exists(c.listing)' /\ c.at < listing'[c.listing].revision
      BY <3>1, <1>2, <1>3, <1>4, NoneAssumption DEF Exists
    <3>3. Claimed(c)'
      BY <3>1, <3>2 DEF Claimed
    <3>4. QED
      BY <3>1, <3>3, FS_Singleton
  <2>3. QED
    BY <2>1, <2>2
<1>8. ClaimsKnown'
  BY <1>1, <1>4, <1>7 DEF ClaimsKnown, Claimed
<1>9. Finite' /\ DueKnown'
  BY <1>1, <1>4, <1>7, FS_Union DEF Records, Finite, DueKnown
<1>10. QED
  BY <1>4, <1>5, <1>6, <1>8, <1>9 DEF Records

(* What some claims pay: a natural, and what each of them pays summed.     *)
LEMMA CoinsOfNat ==
  ASSUME NEW some \in SUBSET Claim, IsFiniteSet(some)
  PROVE  /\ CoinsOf(some) = SumFunctionOnSet([c \in some |-> c.coins], some)
         /\ CoinsOf(some) \in Nat
<1> DEFINE f == [c \in some |-> c.coins]
<1>1. DOMAIN f = some /\ \A c \in some : f[c] \in Nat
  BY DEF Claim
<1>2. CoinsOf(some) = SumFunctionOnSet(f, some)
  BY <1>1 DEF CoinsOf, SumFunction
<1> HIDE DEF f
<1>3. SumFunctionOnSet(f, some) \in Nat
  BY <1>1, SumNat
<1>4. QED
  BY <1>2, <1>3 DEF f

LEMMA CollectKeepsRecords ==
  ASSUME Records, NEW p \in Players, Collect(p)
  PROVE  Records'
<1> DEFINE some == request[p].op.claims
           gets == [coins |-> CoinsOf(some), stacks |-> UNION {c.stacks : c \in some}]
<1>1. /\ some \subseteq claims /\ claims' = claims \ some /\ Applied(p, gets)
      /\ UNCHANGED <<market, listing, due, edit>>
  BY DEF Collect, Collected
<1>2. claims \subseteq Claim /\ IsFiniteSet(claims)
  BY DEF Records, TypeOK, Finite
<1>3. some \in SUBSET Claim /\ IsFiniteSet(some)
  BY <1>1, <1>2, FS_Subset
<1> HIDE DEF some
<1>4. gets.coins \in Nat
  BY <1>3, CoinsOfNat
<1>5. gets.stacks \subseteq Stacks
  BY <1>3 DEF Claim
<1> HIDE DEF gets
<1>6. /\ request' \in [Players -> Request \cup {NoRequest}] /\ RequestsKnown'
      /\ coins' \in [Players -> Nat] /\ goods' \in [Players -> SUBSET Stacks]
  BY <1>1, <1>4, <1>5, Answered
<1>7. TypeOK'
  BY <1>1, <1>6 DEF Records, TypeOK
<1>8. Finite' /\ ListingsKnown' /\ ClaimsKnown' /\ DueKnown'
  BY <1>1, ListingsUntouched
<1>9. QED
  BY <1>6, <1>7, <1>8 DEF Records

LEMMA EndsKeepsRecords ==
  ASSUME Records, NEW l \in Listings, Ends(l)
  PROVE  Records'
<1>1. PICK time \in {"ending", "ended"} : listing' = [listing EXCEPT ![l].time = time]
  BY DEF Ends
<1> DEFINE new == [listing[l] EXCEPT !.time = time]
<1>2. Exists(l) /\ UNCHANGED <<market, claims, coins, goods, request, due, edit>>
  BY DEF Ends, Open
<1>3. listing[l] \in Listing /\ Priced(listing[l]) /\ l \in Listed /\ listing[l].revision \in Nat
  BY <1>2, ListingOf, ListingFields
<1>4. /\ new \in Listing /\ new.revision = listing[l].revision /\ new.status = listing[l].status
      /\ SameTerms(listing[l], new)
  BY <1>3 DEF Listing, SameTerms
<1>5. listing' = [listing EXCEPT ![l] = new]
  BY <1>1
<1> HIDE DEF new
<1>6. Priced(new) /\ Follows(listing[l], new)
  BY <1>3, <1>4 DEF Priced, Follows, SameTerms
<1>7. /\ listing' \in [Listings -> Listing \cup {NoListing}]
      /\ Listed' = Listed \cup {l} /\ IsFiniteSet(Listed')
      /\ ListingsKnown'
      /\ \A c \in claims : Claimed(c)'
      /\ \A d \in due : ReadOf(d)'
  BY <1>4, <1>5, <1>6, ListingStep
<1>8. TypeOK' /\ RequestsKnown'
  BY <1>2, <1>7 DEF Records, TypeOK, RequestsKnown
<1>9. Finite' /\ ClaimsKnown' /\ DueKnown'
  BY <1>2, <1>7 DEF Records, Finite, ClaimsKnown, DueKnown
<1>10. QED
  BY <1>7, <1>8, <1>9 DEF Records

LEMMA ReadDueKeepsRecords ==
  ASSUME Records, NEW l \in Listings, ReadDue(l)
  PROVE  Records'
<1> DEFINE d == [listing |-> l, read |-> listing[l]]
<1>1. /\ Open(l) /\ Exists(l) /\ due' = due \cup {d}
      /\ UNCHANGED <<market, listing, claims, coins, goods, request, edit>>
  BY DEF ReadDue, Open
<1>2. listing[l] \in Listing /\ listing[l].revision \in Nat
  BY <1>1, ListingOf, ListingFields
<1>3. d \in [listing: Listings, read: Listing] /\ ReadOf(d)
  BY <1>1, <1>2 DEF ReadOf, SameTerms
<1> HIDE DEF d
<1>4. TypeOK' /\ RequestsKnown'
  BY <1>1, <1>3 DEF Records, TypeOK, RequestsKnown
<1>5. Finite' /\ ListingsKnown' /\ ClaimsKnown'
  BY <1>1 DEF Records, Finite, Listed, Exists, ListingsKnown, ClaimsKnown, Claimed, Open
<1>6. DueKnown'
  BY <1>1, <1>3 DEF Records, DueKnown, ReadOf, Exists, Open
<1>7. QED
  BY <1>4, <1>5, <1>6 DEF Records

(* What a settlement finds and makes: a listing it read is as it was read, *)
(* and either its highest bidder gets the goods and its seller the price,  *)
(* or its seller gets the goods back.                                      *)
LEMMA Settles ==
  ASSUME Records, NEW d \in due, Settle(d)
  PROVE  \E l \in Listings, goodsClaim \in Claim :
            /\ Open(l) /\ Exists(l) /\ goodsClaim.listing = l /\ goodsClaim.coins = 0
            /\ goodsClaim.stacks = {listing[l].stack}
            /\ UNCHANGED <<market, coins, goods, request, due, edit>>
            /\ \/ /\ listing[l].bidder = NoPlayer
                  /\ listing' = Closed(l, "expired", NoPlayer)
                  /\ goodsClaim.reason = "unsold" /\ goodsClaim.player = listing[l].seller
                  /\ claims' = claims \cup {goodsClaim}
               \/ \E sale \in Claim :
                     /\ listing[l].bidder \in Players /\ listing[l].mode = "auction"
                     /\ listing' = Closed(l, "sold", listing[l].bidder)
                     /\ goodsClaim.reason = "won" /\ goodsClaim.player = listing[l].bidder
                     /\ sale.listing = l /\ sale.reason = "sale"
                     /\ sale.player = listing[l].seller
                     /\ sale.coins = listing[l].bid - listing[l].saleFee /\ sale.stacks = {}
                     /\ claims' = claims \cup {goodsClaim, sale}
<1> DEFINE l == d.listing
           a == d.read
<1>1. /\ Open(l) /\ listing[l].revision = a.revision
      /\ listing' = Closed(l, IF Won(a) THEN "sold" ELSE "expired",
                           IF Won(a) THEN a.bidder ELSE NoPlayer)
      /\ claims' = claims \cup SettleClaims(a, l)
      /\ UNCHANGED <<market, coins, goods, request, due, edit>>
  BY DEF Settle, StillDue
<1>2. l \in Listings /\ ReadOf(d) /\ Exists(l)
  BY <1>1 DEF Records, TypeOK, DueKnown, ReadOf
<1>3. SameTerms(a, listing[l]) /\ listing[l] \in Listing /\ Priced(listing[l])
  BY <1>1, <1>2, ListingOf DEF ReadOf
<1> DEFINE b == listing[l]
<1>4. /\ b.seller \in Players /\ b.stack \in Stacks /\ b.bid \in Nat /\ b.saleFee \in SaleFees
      /\ b.price \in Nat /\ b.bidder \in Players \cup {NoPlayer} /\ b.mode \in {"fixed", "auction"}
  BY <1>3, ListingFields
<1>5. /\ a.seller = b.seller /\ a.stack = b.stack /\ a.bid = b.bid /\ a.saleFee = b.saleFee
      /\ a.bidder = b.bidder /\ a.mode = b.mode
  BY <1>3 DEF SameTerms
<1>6. CASE b.bidder = NoPlayer
  <2> DEFINE c == Owed(l, "unsold", 0, b.seller, 0, {b.stack})
  <2>1. ~Won(a)
    BY <1>5, <1>6 DEF Won
  <2>2. /\ c \in Claim /\ c.listing = l /\ c.coins = 0 /\ c.stacks = {b.stack}
        /\ c.reason = "unsold" /\ c.player = b.seller
    BY <1>2, <1>4, OwedFields
  <2>3. SettleClaims(a, l) = {c}
    BY <2>1, <1>5 DEF SettleClaims
  <2>4. listing' = Closed(l, "expired", NoPlayer)
    BY <1>1, <2>1
  <2> HIDE DEF c, l
  <2>5. QED
    BY <1>1, <1>2, <1>6, <2>2, <2>3, <2>4
<1>7. CASE b.bidder # NoPlayer
  <2> DEFINE c == Owed(l, "won", 0, b.bidder, 0, {b.stack})
             sale == Owed(l, "sale", 0, b.seller, Proceeds(b.bid, b.saleFee), {})
  <2>1. b.bidder \in Players /\ b.mode = "auction" /\ PriceMin <= b.bid
    BY <1>3, <1>4, <1>7, Terms DEF Priced
  <2>2. Won(a)
    BY <1>5, <1>7, <2>1 DEF Won
  <2>3. /\ c \in Claim /\ c.listing = l /\ c.coins = 0 /\ c.stacks = {b.stack}
        /\ c.reason = "won" /\ c.player = b.bidder
    BY <1>2, <1>4, <2>1, OwedFields
  <2>4. Proceeds(b.bid, b.saleFee) \in Nat /\ Proceeds(b.bid, b.saleFee) = b.bid - b.saleFee
    BY <1>4, <2>1, ProceedsNat
  <2>5. /\ sale \in Claim /\ sale.listing = l /\ sale.reason = "sale" /\ sale.player = b.seller
        /\ sale.coins = b.bid - b.saleFee /\ sale.stacks = {}
    BY <1>2, <1>4, <2>4, OwedFields
  <2>6. SettleClaims(a, l) = {c, sale}
    BY <2>2, <1>5 DEF SettleClaims
  <2>7. listing' = Closed(l, "sold", b.bidder)
    BY <1>1, <1>5, <2>2
  <2> HIDE DEF c, sale, l
  <2>8. QED
    BY <1>1, <1>2, <2>1, <2>3, <2>5, <2>6, <2>7
<1>8. QED
  BY <1>6, <1>7

LEMMA SettleKeepsRecords ==
  ASSUME Records, NEW d \in due, Settle(d)
  PROVE  Records'
<1>1. PICK l \in Listings, made \in SUBSET Claim, status \in {"sold", "expired"},
           buyer \in Players \cup {NoPlayer} :
         /\ Open(l) /\ Exists(l) /\ IsFiniteSet(made)
         /\ \A c \in made : c.listing = l /\ c.reason # "outbid"
         /\ listing' = Closed(l, status, buyer) /\ claims' = claims \cup made
         /\ UNCHANGED <<market, coins, goods, request, due, edit>>
  <2>1. PICK l \in Listings, c \in Claim :
            /\ Open(l) /\ Exists(l) /\ c.listing = l
            /\ UNCHANGED <<market, coins, goods, request, due, edit>>
            /\ \/ /\ listing' = Closed(l, "expired", NoPlayer)
                  /\ c.reason = "unsold" /\ claims' = claims \cup {c}
               \/ \E sale \in Claim :
                     /\ listing[l].bidder \in Players
                     /\ listing' = Closed(l, "sold", listing[l].bidder)
                     /\ c.reason = "won" /\ sale.listing = l /\ sale.reason = "sale"
                     /\ claims' = claims \cup {c, sale}
    BY Settles
  <2>2. CASE /\ listing' = Closed(l, "expired", NoPlayer)
             /\ c.reason = "unsold" /\ claims' = claims \cup {c}
    <3>1. IsFiniteSet({c})
      BY FS_Singleton
    <3> DEFINE made == {c}
    <3>2. /\ made \in SUBSET Claim /\ IsFiniteSet(made) /\ claims' = claims \cup made
          /\ \A x \in made : x.listing = l /\ x.reason # "outbid"
      BY <2>1, <2>2, <3>1
    <3> HIDE DEF made
    <3>3. QED
      BY <2>1, <2>2, <3>2
  <2>3. ASSUME NEW sale \in Claim,
               /\ listing[l].bidder \in Players
               /\ listing' = Closed(l, "sold", listing[l].bidder)
               /\ c.reason = "won" /\ sale.listing = l /\ sale.reason = "sale"
               /\ claims' = claims \cup {c, sale}
        PROVE  \E k \in Listings, made \in SUBSET Claim, status \in {"sold", "expired"},
                  buyer \in Players \cup {NoPlayer} :
                  /\ Open(k) /\ Exists(k) /\ IsFiniteSet(made)
                  /\ \A x \in made : x.listing = k /\ x.reason # "outbid"
                  /\ listing' = Closed(k, status, buyer) /\ claims' = claims \cup made
                  /\ UNCHANGED <<market, coins, goods, request, due, edit>>
    <3> DEFINE made == {c, sale}
    <3>1. IsFiniteSet(made)
      <4>1. IsFiniteSet({c} \cup {sale})
        BY FS_Singleton, FS_AddElement
      <4>2. made = {c} \cup {sale}
        OBVIOUS
      <4>3. QED
        BY <4>1, <4>2
    <3>2. /\ made \in SUBSET Claim /\ claims' = claims \cup made
          /\ \A x \in made : x.listing = l /\ x.reason # "outbid"
      BY <2>1, <2>3
    <3> HIDE DEF made
    <3>3. QED
      BY <2>1, <2>3, <3>1, <3>2
  <2>4. QED
    BY <2>1, <2>2, <2>3
<1>2. /\ listing' \in [Listings -> Listing \cup {NoListing}]
      /\ Listed' = Listed /\ IsFiniteSet(Listed')
      /\ ListingsKnown'
      /\ \A c \in claims : Claimed(c)'
      /\ \A x \in due : ReadOf(x)'
      /\ Exists(l)' /\ ~Open(l)'
  BY <1>1, ListingShut
<1>3. TypeOK' /\ RequestsKnown'
  BY <1>1, <1>2 DEF Records, TypeOK, RequestsKnown
<1>4. ClaimsKnown'
  BY <1>1, <1>2 DEF ClaimsKnown, Claimed
<1>5. Finite' /\ DueKnown'
  BY <1>1, <1>2, FS_Union DEF Records, Finite, DueKnown
<1>6. QED
  BY <1>2, <1>3, <1>4, <1>5 DEF Records

LEMMA EditsKeepRecords ==
  ASSUME Records, NEW e \in Editors, Edits(e)
  PROVE  Records'
<1>1. TypeOK
  BY DEF Records
<1> DEFINE Edited == /\ market' \in Profile \cup {NoProfile}
                     /\ edit' \in [Editors -> Edit \cup {NoRequest}]
                     /\ UNCHANGED <<listing, claims, coins, goods, request, due>>
<1>2. Edited
  <2>1. ASSUME NEW scope \in Scopes, NEW active \in BOOLEAN, NEW fee \in SaleFees,
               BeginPut(e, scope, active, fee)
        PROVE  Edited
    <3> DEFINE put == [kind |-> "put", revision |-> market.revision, scope |-> scope,
                       active |-> active, saleFee |-> fee]
    <3>1. market.revision \in Nat
      BY <1>1, <2>1 DEF BeginPut, TypeOK, Profile
    <3>2. put \in Edit
      BY <3>1 DEF Edit
    <3>3. edit' = [edit EXCEPT ![e] = put]
      BY <2>1 DEF BeginPut
    <3> HIDE DEF put
    <3>4. QED
      BY <1>1, <2>1, <3>2, <3>3 DEF BeginPut, TypeOK
  <2>2. ASSUME WritePut(e)
        PROVE  Edited
    <3> DEFINE new == [scope |-> edit[e].scope, active |-> edit[e].active,
                       saleFee |-> edit[e].saleFee, revision |-> market.revision + 1]
    <3>1. edit[e] \in Edit /\ edit[e].kind = "put" /\ market \in Profile
      BY <1>1, <2>2 DEF WritePut, Writable, TypeOK
    <3>2. /\ edit[e].scope \in Scopes /\ edit[e].active \in BOOLEAN /\ edit[e].saleFee \in SaleFees
          /\ market.revision \in Nat
      BY <3>1 DEF Edit, Profile
    <3>3. new \in Profile
      BY <3>2 DEF Profile
    <3>4. market' = new
      BY <2>2 DEF WritePut
    <3> HIDE DEF new
    <3>5. QED
      BY <1>1, <2>2, <3>3, <3>4 DEF WritePut, TypeOK
  <2>3. ASSUME BeginDelete(e)
        PROVE  Edited
    <3>1. [kind |-> "delete"] \in Edit
      BY DEF Edit
    <3>2. QED
      BY <1>1, <2>3, <3>1 DEF BeginDelete, TypeOK
  <2>4. ASSUME WriteDelete(e)
        PROVE  Edited
    BY <1>1, <2>4 DEF WriteDelete, TypeOK
  <2>5. ASSUME DropEdit(e)
        PROVE  Edited
    BY <1>1, <2>5 DEF DropEdit, TypeOK
  <2>6. QED
    BY <2>1, <2>2, <2>3, <2>4, <2>5 DEF Edits
<1>3. TypeOK' /\ RequestsKnown'
  BY <1>1, <1>2 DEF Records, TypeOK, RequestsKnown
<1>4. Finite' /\ ListingsKnown' /\ ClaimsKnown' /\ DueKnown'
  BY <1>2, ListingsUntouched
<1>5. QED
  BY <1>3, <1>4 DEF Records

LEMMA InitRecords ==
  ASSUME Init
  PROVE  Records
<1>1. market \in Profile
  BY Terms DEF Init, Profile, Scopes
<1>2. Listed = {} /\ claims = {} /\ due = {}
  BY DEF Init, Listed, Exists
<1>3. TypeOK
  BY <1>1, GoodsAssumption DEF Init, TypeOK
<1>4. Finite /\ ListingsKnown /\ ClaimsKnown /\ RequestsKnown /\ DueKnown
  BY <1>2, FS_EmptySet DEF Init, Finite, ListingsKnown, ClaimsKnown, RequestsKnown, DueKnown
<1>5. QED
  BY <1>3, <1>4 DEF Records

LEMMA RecordsStep ==
  ASSUME Records, [Next]_vars
  PROVE  Records'
<1>1. CASE UNCHANGED vars
  <2>1. TypeOK' /\ RequestsKnown'
    BY <1>1 DEF vars, Records, TypeOK, RequestsKnown
  <2>2. QED
    BY <1>1, <2>1, ListingsUntouched DEF vars, Records
<1>2. ASSUME NEW p \in Players, Sends(p) \/ ApplyMarketOp(p) \/ GiveBack(p)
      PROVE  Records'
  <2>1. ASSUME NEW l \in Listings, List(p, l)
        PROVE  Records'
    BY <2>1, ListKeepsRecords
  <2>2. QED
    BY <1>2, <2>1, SendsKeepRecords, GiveBackKeepsRecords, ReadTermsKeepsRecords,
       CancelKeepsRecords, BuyKeepsRecords, BidKeepsRecords, CollectKeepsRecords
       DEF ApplyMarketOp
<1>3. ASSUME NEW l \in Listings, Ends(l) \/ ReadDue(l)
      PROVE  Records'
  BY <1>3, EndsKeepsRecords, ReadDueKeepsRecords
<1>4. ASSUME NEW d \in due, Settle(d)
      PROVE  Records'
  BY <1>4, SettleKeepsRecords
<1>5. ASSUME NEW e \in Editors, Edits(e)
      PROVE  Records'
  BY <1>5, EditsKeepRecords
<1>6. QED
  BY <1>1, <1>2, <1>3, <1>4, <1>5 DEF Next

LEMMA AlwaysRecords == Spec => []Records
<1>1. Init => Records
  BY InitRecords
<1>2. Records /\ [Next]_vars => Records'
  BY RecordsStep
<1>3. QED
  BY <1>1, <1>2, PTL DEF Spec

(* Every variable keeps its type: no purse and no claim is ever negative,  *)
(* whatever the prices, the raises and the fees.                           *)
THEOREM MarketTypes == Spec => []TypeOK
<1>1. Records => TypeOK
  BY DEF Records
<1>2. QED
  BY <1>1, AlwaysRecords, PTL

(***************************************************************************)
(* Where a stack is: with one player, in one escrow, in one open listing   *)
(* or in one claim.                                                        *)
(***************************************************************************)
AtHand(p, s) == s \in goods[p]
AtEscrow(p, s) == request[p] # NoRequest /\ s \in request[p].escrow.stacks
AtListing(l, s) == Open(l) /\ listing[l].stack = s
AtClaim(c, s) == c \in claims /\ s \in c.stacks

InHand(p, s) ==
    /\ \A q \in Players : AtHand(q, s) <=> q = p
    /\ \A q \in Players : ~AtEscrow(q, s)
    /\ \A l \in Listings : ~AtListing(l, s)
    /\ \A c \in Claim : ~AtClaim(c, s)

InEscrow(p, s) ==
    /\ \A q \in Players : ~AtHand(q, s)
    /\ \A q \in Players : AtEscrow(q, s) <=> q = p
    /\ \A l \in Listings : ~AtListing(l, s)
    /\ \A c \in Claim : ~AtClaim(c, s)

InListing(l, s) ==
    /\ \A q \in Players : ~AtHand(q, s)
    /\ \A q \in Players : ~AtEscrow(q, s)
    /\ \A k \in Listings : AtListing(k, s) <=> k = l
    /\ \A c \in Claim : ~AtClaim(c, s)

InClaim(c, s) ==
    /\ \A q \in Players : ~AtHand(q, s)
    /\ \A q \in Players : ~AtEscrow(q, s)
    /\ \A l \in Listings : ~AtListing(l, s)
    /\ \A d \in Claim : AtClaim(d, s) <=> d = c

(* The player a stack is of.                                               *)
HeldBy(s, p) ==
    \/ InHand(p, s) \/ InEscrow(p, s)
    \/ \E l \in Listings : InListing(l, s) /\ listing[l].seller = p
    \/ \E c \in Claim : InClaim(c, s) /\ c.player = p

Held == \A s \in Stacks : \E p \in Players : HeldBy(s, p)

(* The places of a stack.                                                  *)
LEMMA PlacesAre ==
  ASSUME NEW s, NEW place
  PROVE  place \in Places(s) <=>
            \/ \E p \in Players : place = <<"goods", p, p>> /\ AtHand(p, s)
            \/ \E p \in Players : place = <<"escrow", p, p>> /\ AtEscrow(p, s)
            \/ \E l \in Listings : place = <<"listing", l, listing[l].seller>> /\ AtListing(l, s)
            \/ \E c \in claims : place = <<"claim", c, c.player>> /\ AtClaim(c, s)
<1>1. /\ Places(s) =
            {<<"goods", p, p>> : p \in {q \in Players : AtHand(q, s)}}
              \cup {<<"escrow", p, p>> : p \in {q \in Players : AtEscrow(q, s)}}
              \cup {<<"listing", l, listing[l].seller>> : l \in {x \in Listed : AtListing(x, s)}}
              \cup {<<"claim", c, c.player>> : c \in {x \in claims : AtClaim(x, s)}}
  BY DEF Places, AtHand, AtEscrow, AtListing, AtClaim
<1>2. \A l \in Listings : AtListing(l, s) => l \in Listed
  BY DEF AtListing, Open, Listed
<1>3. Listed \subseteq Listings
  BY DEF Listed
<1>4. QED
  BY <1>1, <1>2, <1>3

(* Whoever holds a stack so holds it in one place.                         *)
LEMMA OnePlace ==
  ASSUME TypeOK, NEW s, NEW p \in Players, HeldBy(s, p)
  PROVE  \E place : Places(s) = {place} /\ place[3] = p
<1>0. claims \subseteq Claim /\ \A c : AtClaim(c, s) => c \in claims
  BY DEF TypeOK, AtClaim
<1>1. CASE InHand(p, s)
  <2>1. \A place : place \in Places(s) <=> place = <<"goods", p, p>>
    BY <1>0, <1>1, PlacesAre DEF InHand
  <2> DEFINE it == <<"goods", p, p>>
  <2>2. Places(s) = {it} /\ it[3] = p
    BY <2>1
  <2> HIDE DEF it
  <2>3. QED
    BY <2>2
<1>2. CASE InEscrow(p, s)
  <2>1. \A place : place \in Places(s) <=> place = <<"escrow", p, p>>
    BY <1>0, <1>2, PlacesAre DEF InEscrow
  <2> DEFINE it == <<"escrow", p, p>>
  <2>2. Places(s) = {it} /\ it[3] = p
    BY <2>1
  <2> HIDE DEF it
  <2>3. QED
    BY <2>2
<1>3. ASSUME NEW l \in Listings, InListing(l, s), listing[l].seller = p
      PROVE  \E place : Places(s) = {place} /\ place[3] = p
  <2>1. \A place : place \in Places(s) <=> place = <<"listing", l, p>>
    BY <1>0, <1>3, PlacesAre DEF InListing
  <2> DEFINE it == <<"listing", l, p>>
  <2>2. Places(s) = {it} /\ it[3] = p
    BY <2>1
  <2> HIDE DEF it
  <2>3. QED
    BY <2>2
<1>4. ASSUME NEW c \in Claim, InClaim(c, s), c.player = p
      PROVE  \E place : Places(s) = {place} /\ place[3] = p
  <2>1. \A place : place \in Places(s) <=> place = <<"claim", c, p>>
    BY <1>0, <1>4, PlacesAre DEF InClaim
  <2> DEFINE it == <<"claim", c, p>>
  <2>2. Places(s) = {it} /\ it[3] = p
    BY <2>1
  <2> HIDE DEF it
  <2>3. QED
    BY <2>2
<1>5. QED
  BY <1>1, <1>2, <1>3, <1>4 DEF HeldBy

(* A step sells a stack of p to q.                                         *)
Sells(s, p, q) ==
    \E l \in Listings : /\ Open(l) /\ listing[l].stack = s /\ listing[l].seller = p
                        /\ listing'[l].status = "sold" /\ listing'[l].buyer = q

(* A step leaves a stack with its owner, or sells it.                      *)
Passes(s, p) == \E q \in Players : HeldBy(s, q)' /\ (q # p => Sells(s, p, q))

LEMMA SendPasses ==
  ASSUME Records, NEW p \in Players, NEW r, NEW escrow, Send(p, r, escrow),
         [op |-> r, escrow |-> escrow] \in Request,
         NEW s \in Stacks, NEW o \in Players, HeldBy(s, o)
  PROVE  Passes(s, o)
<1>1. /\ request[p] = NoRequest /\ escrow.stacks \subseteq goods[p]
      /\ \A q \in Players \ {p} : request'[q] = request[q] /\ goods'[q] = goods[q]
      /\ request'[p] = [op |-> r, escrow |-> escrow] /\ request'[p] # NoRequest
      /\ goods'[p] = goods[p] \ escrow.stacks
      /\ UNCHANGED <<listing, claims>>
  BY NoneAssumption DEF Send, Records, TypeOK
<1>2. \A q \in Players : AtHand(q, s)' <=> AtHand(q, s) /\ ~(q = p /\ s \in escrow.stacks)
  BY <1>1 DEF AtHand
<1>3. \A q \in Players : AtEscrow(q, s)' <=> AtEscrow(q, s) \/ (q = p /\ s \in escrow.stacks)
  BY <1>1 DEF AtEscrow
<1>4. /\ \A l \in Listings : AtListing(l, s)' <=> AtListing(l, s)
      /\ \A c \in Claim : AtClaim(c, s)' <=> AtClaim(c, s)
  BY <1>1 DEF AtListing, AtClaim, Exists, Open
<1>5. HeldBy(s, o)'
  <2>1. CASE s \in escrow.stacks
    <3>1. AtHand(p, s)
      BY <1>1, <2>1 DEF AtHand
    <3>2. InHand(o, s)
      BY <3>1 DEF HeldBy, InHand, InEscrow, InListing, InClaim
    <3>3. InEscrow(o, s)'
      BY <1>2, <1>3, <1>4, <2>1, <3>1, <3>2 DEF InHand, InEscrow
    <3>4. QED
      BY <3>3 DEF HeldBy
  <2>2. CASE s \notin escrow.stacks
    <3>1. /\ InHand(o, s) => InHand(o, s)'
          /\ InEscrow(o, s) => InEscrow(o, s)'
          /\ \A l \in Listings : InListing(l, s) => InListing(l, s)'
          /\ \A c \in Claim : InClaim(c, s) => InClaim(c, s)'
      BY <1>2, <1>3, <1>4, <2>2 DEF InHand, InEscrow, InListing, InClaim
    <3>2. QED
      BY <3>1, <1>1 DEF HeldBy
  <2>3. QED
    BY <2>1, <2>2
<1>6. QED
  BY <1>5 DEF Passes

(* A step that moves nothing of a stack.                                   *)
LEMMA Unmoved ==
  ASSUME NEW s, NEW o \in Players, HeldBy(s, o),
         \A q \in Players : AtHand(q, s)' <=> AtHand(q, s),
         \A q \in Players : AtEscrow(q, s)' <=> AtEscrow(q, s),
         \A l \in Listings : AtListing(l, s)' <=> AtListing(l, s),
         \A l \in Listings : AtListing(l, s) => listing'[l].seller = listing[l].seller,
         \A c \in Claim : AtClaim(c, s)' <=> AtClaim(c, s)
  PROVE  Passes(s, o)
<1>1. /\ InHand(o, s) => InHand(o, s)'
      /\ InEscrow(o, s) => InEscrow(o, s)'
      /\ \A l \in Listings : InListing(l, s) => InListing(l, s)' /\ AtListing(l, s)
      /\ \A c \in Claim : InClaim(c, s) => InClaim(c, s)'
  BY DEF InHand, InEscrow, InListing, InClaim
<1>2. HeldBy(s, o)'
  BY <1>1 DEF HeldBy
<1>3. QED
  BY <1>2 DEF Passes

(* What is in one place is in no other, and of whoever holds it there.     *)
LEMMA FromEscrow ==
  ASSUME NEW s, NEW o \in Players, HeldBy(s, o), NEW p \in Players, AtEscrow(p, s)
  PROVE  o = p /\ InEscrow(p, s)
BY DEF HeldBy, InHand, InEscrow, InListing, InClaim

LEMMA FromListing ==
  ASSUME NEW s, NEW o \in Players, HeldBy(s, o), NEW l \in Listings, AtListing(l, s)
  PROVE  o = listing[l].seller /\ InListing(l, s)
BY DEF HeldBy, InHand, InEscrow, InListing, InClaim

LEMMA FromClaim ==
  ASSUME NEW s, NEW o \in Players, HeldBy(s, o), NEW c \in Claim, AtClaim(c, s)
  PROVE  o = c.player /\ InClaim(c, s)
BY DEF HeldBy, InHand, InEscrow, InListing, InClaim

(* An answer empties the escrow of its player and gives it what it gets.   *)
LEMMA AnsweredAt ==
  ASSUME Records, NEW p \in Players, NEW gets, Applied(p, gets), NEW s
  PROVE  /\ \A q \in Players : AtHand(q, s)' <=> AtHand(q, s) \/ (q = p /\ s \in gets.stacks)
         /\ \A q \in Players : AtEscrow(q, s)' <=> AtEscrow(q, s) /\ q # p
<1>1. /\ \A q \in Players \ {p} : request'[q] = request[q] /\ goods'[q] = goods[q]
      /\ request'[p] = NoRequest /\ goods'[p] = goods[p] \cup gets.stacks
  BY DEF Applied, Records, TypeOK
<1>2. QED
  BY <1>1 DEF AtHand, AtEscrow

LEMMA GiveBackPasses ==
  ASSUME Records, NEW p \in Players, GiveBack(p), NEW s \in Stacks, NEW o \in Players, HeldBy(s, o)
  PROVE  Passes(s, o)
<1>1. /\ request[p] # NoRequest /\ Applied(p, request[p].escrow)
      /\ UNCHANGED <<market, listing, claims, due, edit>>
  BY DEF GiveBack
<1>2. /\ \A q \in Players : AtHand(q, s)' <=> AtHand(q, s) \/ (q = p /\ AtEscrow(p, s))
      /\ \A q \in Players : AtEscrow(q, s)' <=> AtEscrow(q, s) /\ q # p
  BY <1>1, AnsweredAt DEF AtEscrow
<1>3. /\ \A l \in Listings : AtListing(l, s)' <=> AtListing(l, s)
      /\ \A c \in Claim : AtClaim(c, s)' <=> AtClaim(c, s)
  BY <1>1 DEF AtListing, AtClaim, Exists, Open
<1>4. CASE AtEscrow(p, s)
  <2>1. o = p /\ InEscrow(p, s)
    BY <1>4, FromEscrow
  <2>2. InHand(o, s)'
    BY <1>2, <1>3, <1>4, <2>1 DEF InEscrow, InHand
  <2>3. QED
    BY <2>2 DEF Passes, HeldBy
<1>5. CASE ~AtEscrow(p, s)
  BY <1>1, <1>2, <1>3, <1>5, Unmoved
<1>6. QED
  BY <1>4, <1>5

LEMMA ListPasses ==
  ASSUME Records, NEW p \in Players, NEW l \in Listings, List(p, l),
         NEW s \in Stacks, NEW o \in Players, HeldBy(s, o)
  PROVE  Passes(s, o)
<1>1. PICK new \in Listing :
         /\ request[p] # NoRequest /\ request[p].escrow.stacks = {new.stack}
         /\ ~Exists(l) /\ listing' = [listing EXCEPT ![l] = new]
         /\ new.status = "open" /\ new.seller = p
         /\ Applied(p, NoEscrow) /\ UNCHANGED <<market, claims, due, edit>>
  BY Lists
<1>2. listing \in [Listings -> Listing \cup {NoListing}] /\ new # NoListing
  BY NoneAssumption DEF Records, TypeOK
<1>3. listing'[l] = new /\ \A k \in Listings \ {l} : listing'[k] = listing[k]
  BY <1>1, <1>2
<1>4. /\ \A q \in Players : AtHand(q, s)' <=> AtHand(q, s)
      /\ \A q \in Players : AtEscrow(q, s)' <=> AtEscrow(q, s) /\ q # p
  <2>1. s \notin NoEscrow.stacks
    BY DEF NoEscrow
  <2>2. QED
    BY <1>1, <2>1, AnsweredAt
<1>5. \A k \in Listings : AtListing(k, s)' <=> AtListing(k, s) \/ (k = l /\ s = new.stack)
  BY <1>1, <1>2, <1>3 DEF AtListing, Open, Exists
<1>6. \A c \in Claim : AtClaim(c, s)' <=> AtClaim(c, s)
  BY <1>1 DEF AtClaim
<1>7. AtEscrow(p, s) <=> s = new.stack
  BY <1>1 DEF AtEscrow
<1>8. CASE s = new.stack
  <2>1. o = p /\ InEscrow(p, s)
    BY <1>7, <1>8, FromEscrow
  <2>2. InListing(l, s)' /\ listing'[l].seller = o
    BY <1>1, <1>3, <1>4, <1>5, <1>6, <1>8, <2>1 DEF InEscrow, InListing
  <2>3. QED
    BY <2>2 DEF Passes, HeldBy
<1>9. CASE s # new.stack
  <2>1. \A k \in Listings : AtListing(k, s) => listing'[k].seller = listing[k].seller
    BY <1>1, <1>3 DEF AtListing, Open
  <2>2. QED
    BY <1>4, <1>5, <1>6, <1>7, <1>9, <2>1, Unmoved
<1>10. QED
  BY <1>8, <1>9

(* A listing that closes stops holding its stack.                          *)
LEMMA ShutAt ==
  ASSUME Records, NEW l \in Listings, Exists(l), NEW status \in {"sold", "cancelled", "expired"},
         NEW buyer \in Players \cup {NoPlayer}, listing' = Closed(l, status, buyer), NEW s
  PROVE  /\ \A k \in Listings : AtListing(k, s)' <=> AtListing(k, s) /\ k # l
         /\ \A k \in Listings \ {l} : listing'[k] = listing[k]
         /\ listing'[l].status = status /\ listing'[l].buyer = buyer
<1>1. /\ listing'[l] = Shut(listing[l], status, buyer)
      /\ \A k \in Listings \ {l} : listing'[k] = listing[k]
      /\ ~Open(l)'
  BY ListingShut
<1>2. listing'[l].status = status /\ listing'[l].buyer = buyer
  BY <1>1, ListingOf, ShutFields
<1>3. QED
  BY <1>1, <1>2 DEF AtListing, Open, Exists

LEMMA CancelPasses ==
  ASSUME Records, NEW p \in Players, Cancel(p), NEW s \in Stacks, NEW o \in Players, HeldBy(s, o)
  PROVE  Passes(s, o)
<1> DEFINE l == request[p].op.listing
           gets == [coins |-> 0, stacks |-> {listing[l].stack}]
<1>1. /\ Doing(p, "cancel") /\ Cancellable(p, request[p].op)
      /\ listing' = Closed(l, "cancelled", NoPlayer)
      /\ Applied(p, gets) /\ UNCHANGED <<market, claims, due, edit>>
  BY DEF Cancel
<1>2. l \in Listings /\ Exists(l) /\ Open(l) /\ listing[l].seller = p
  BY <1>1, Waiting, OperationFields DEF Cancellable, Matches, Open
<1>3. request[p].escrow.stacks = {}
  BY <1>1, Waiting DEF Escrows
<1> HIDE DEF l
<1>4. gets.stacks = {listing[l].stack}
  OBVIOUS
<1> HIDE DEF gets
<1>5. /\ \A q \in Players : AtHand(q, s)' <=> AtHand(q, s) \/ (q = p /\ s = listing[l].stack)
      /\ \A q \in Players : AtEscrow(q, s)' <=> AtEscrow(q, s)
  BY <1>1, <1>3, <1>4, AnsweredAt DEF AtEscrow
<1>6. /\ \A k \in Listings : AtListing(k, s)' <=> AtListing(k, s) /\ k # l
      /\ \A k \in Listings \ {l} : listing'[k] = listing[k]
  BY <1>1, <1>2, ShutAt
<1>7. \A c \in Claim : AtClaim(c, s)' <=> AtClaim(c, s)
  BY <1>1 DEF AtClaim
<1>8. AtListing(l, s) <=> s = listing[l].stack
  BY <1>2 DEF AtListing
<1>9. CASE AtListing(l, s)
  <2>1. o = p /\ InListing(l, s)
    BY <1>2, <1>9, FromListing
  <2>2. InHand(o, s)'
    BY <1>2, <1>5, <1>6, <1>7, <1>8, <1>9, <2>1 DEF InListing, InHand
  <2>3. QED
    BY <2>2 DEF Passes, HeldBy
<1>10. CASE ~AtListing(l, s)
  <2>1. \A k \in Listings : AtListing(k, s) => listing'[k].seller = listing[k].seller
    BY <1>6, <1>10
  <2>2. QED
    BY <1>5, <1>6, <1>7, <1>8, <1>10, <2>1, Unmoved
<1>11. QED
  BY <1>9, <1>10

LEMMA BuyPasses ==
  ASSUME Records, NEW p \in Players, Buy(p), NEW s \in Stacks, NEW o \in Players, HeldBy(s, o)
  PROVE  Passes(s, o)
<1>1. PICK l \in Listings, sale \in Claim :
            /\ Open(l) /\ Exists(l) /\ request[p] # NoRequest
            /\ request[p].escrow.stacks = {}
            /\ listing' = Closed(l, "sold", p)
            /\ sale.stacks = {}
            /\ claims' = claims \cup {sale}
            /\ Applied(p, [coins |-> 0, stacks |-> {listing[l].stack}])
  BY Bought
<1> DEFINE gets == [coins |-> 0, stacks |-> {listing[l].stack}]
<1>2. gets.stacks = {listing[l].stack} /\ Applied(p, gets)
  BY <1>1
<1> HIDE DEF gets
<1>3. /\ \A q \in Players : AtHand(q, s)' <=> AtHand(q, s) \/ (q = p /\ s = listing[l].stack)
      /\ \A q \in Players : AtEscrow(q, s)' <=> AtEscrow(q, s)
  BY <1>1, <1>2, AnsweredAt DEF AtEscrow
<1>4. /\ \A k \in Listings : AtListing(k, s)' <=> AtListing(k, s) /\ k # l
      /\ \A k \in Listings \ {l} : listing'[k] = listing[k]
      /\ listing'[l].status = "sold" /\ listing'[l].buyer = p
  BY <1>1, ShutAt
<1>5. \A c \in Claim : AtClaim(c, s)' <=> AtClaim(c, s)
  BY <1>1 DEF AtClaim
<1>6. AtListing(l, s) <=> s = listing[l].stack
  BY <1>1 DEF AtListing
<1>7. CASE AtListing(l, s)
  <2>1. o = listing[l].seller /\ InListing(l, s)
    BY <1>7, FromListing
  <2>2. InHand(p, s)'
    BY <1>3, <1>4, <1>5, <1>6, <1>7, <2>1 DEF InListing, InHand
  <2>3. Sells(s, o, p)
    BY <1>1, <1>4, <1>6, <1>7, <2>1 DEF Sells
  <2>4. QED
    BY <2>2, <2>3 DEF Passes, HeldBy
<1>8. CASE ~AtListing(l, s)
  <2>1. \A k \in Listings : AtListing(k, s) => listing'[k].seller = listing[k].seller
    BY <1>4, <1>8
  <2>2. QED
    BY <1>3, <1>4, <1>5, <1>6, <1>8, <2>1, Unmoved
<1>9. QED
  BY <1>7, <1>8

LEMMA ReadTermsPasses ==
  ASSUME Records, NEW p \in Players, ReadTerms(p), NEW s \in Stacks, NEW o \in Players, HeldBy(s, o)
  PROVE  Passes(s, o)
<1>1. PICK new \in Request :
         /\ request[p] # NoRequest /\ request' = [request EXCEPT ![p] = new]
         /\ new.escrow = request[p].escrow
         /\ UNCHANGED <<market, listing, claims, coins, goods, due, edit>>
  BY Checks
<1>2. /\ \A q \in Players \ {p} : request'[q] = request[q]
      /\ request'[p] = new /\ new # NoRequest
  BY <1>1, NoneAssumption DEF Records, TypeOK
<1>3. /\ \A q \in Players : AtHand(q, s)' <=> AtHand(q, s)
      /\ \A q \in Players : AtEscrow(q, s)' <=> AtEscrow(q, s)
  BY <1>1, <1>2 DEF AtHand, AtEscrow
<1>4. /\ \A l \in Listings : AtListing(l, s)' <=> AtListing(l, s)
      /\ \A c \in Claim : AtClaim(c, s)' <=> AtClaim(c, s)
  BY <1>1 DEF AtListing, AtClaim, Exists, Open
<1>5. QED
  BY <1>1, <1>3, <1>4, Unmoved

LEMMA BidPasses ==
  ASSUME Records, NEW p \in Players, Bid(p), NEW s \in Stacks, NEW o \in Players, HeldBy(s, o)
  PROVE  Passes(s, o)
<1>0. PICK l \in Listings, price \in Nat, some \in SUBSET Claim : BidDone(p, l, price, some)
  BY Outbids
<1>1. /\ Open(l) /\ Exists(l) /\ listing[l].mode = "auction" /\ listing[l].price <= price
      /\ request[p] # NoRequest /\ request[p].escrow.stacks = {}
      /\ listing' = [listing EXCEPT ![l] = Raised(listing[l], price, p)]
      /\ listing[l].bidder = NoPlayer => some = {}
      /\ listing[l].bidder # NoPlayer => \E c \in Claim : some = {c} /\ c.stacks = {}
      /\ claims' = claims \cup some
      /\ Applied(p, NoEscrow)
  BY <1>0 DEF BidDone
<1> DEFINE new == Raised(listing[l], price, p)
<1>2. listing[l] \in Listing /\ Priced(listing[l])
  BY <1>1, ListingOf
<1>3. /\ new \in Listing /\ new.status = listing[l].status /\ new.seller = listing[l].seller
      /\ new.stack = listing[l].stack
  BY <1>1, <1>2, RaisedFields
<1>4. listing'[l] = new /\ \A k \in Listings \ {l} : listing'[k] = listing[k]
  BY <1>1 DEF Records, TypeOK
<1> HIDE DEF new
<1>5. new # NoListing
  BY <1>3, NoneAssumption
<1>6. /\ \A k \in Listings : AtListing(k, s)' <=> AtListing(k, s)
      /\ \A k \in Listings : AtListing(k, s) => listing'[k].seller = listing[k].seller
  BY <1>1, <1>3, <1>4, <1>5 DEF AtListing, Open, Exists
<1>7. \A c \in Claim : AtClaim(c, s)' <=> AtClaim(c, s)
  BY <1>1 DEF AtClaim
<1>8. /\ \A q \in Players : AtHand(q, s)' <=> AtHand(q, s)
      /\ \A q \in Players : AtEscrow(q, s)' <=> AtEscrow(q, s)
  <2>1. s \notin NoEscrow.stacks /\ ~AtEscrow(p, s)
    BY <1>1 DEF NoEscrow, AtEscrow
  <2>2. QED
    BY <1>1, <2>1, AnsweredAt
<1>9. QED
  BY <1>6, <1>7, <1>8, Unmoved

LEMMA CollectPasses ==
  ASSUME Records, NEW p \in Players, Collect(p), NEW s \in Stacks, NEW o \in Players, HeldBy(s, o)
  PROVE  Passes(s, o)
<1> DEFINE some == request[p].op.claims
           gets == [coins |-> CoinsOf(some), stacks |-> UNION {c.stacks : c \in some}]
<1>1. /\ Doing(p, "collect") /\ some \subseteq claims /\ claims' = claims \ some
      /\ Applied(p, gets) /\ UNCHANGED <<market, listing, due, edit>>
  BY DEF Collect, Collected
<1>2. request[p].escrow.stacks = {} /\ \A c \in some : c.player = p
  BY <1>1, Waiting DEF Escrows
<1>3. some \subseteq Claim
  BY <1>1 DEF Records, TypeOK
<1>4. s \in gets.stacks <=> \E c \in some : s \in c.stacks
  OBVIOUS
<1> HIDE DEF some, gets
<1>5. /\ \A q \in Players :
            AtHand(q, s)' <=> AtHand(q, s) \/ (q = p /\ \E c \in some : s \in c.stacks)
      /\ \A q \in Players : AtEscrow(q, s)' <=> AtEscrow(q, s)
  BY <1>1, <1>2, <1>4, AnsweredAt DEF AtEscrow
<1>6. \A l \in Listings : AtListing(l, s)' <=> AtListing(l, s)
  BY <1>1 DEF AtListing, Exists, Open
<1>7. \A c \in Claim : AtClaim(c, s)' <=> AtClaim(c, s) /\ c \notin some
  BY <1>1 DEF AtClaim
<1>8. \A c \in some : s \in c.stacks => AtClaim(c, s)
  BY <1>1 DEF AtClaim
<1>9. ASSUME NEW c \in some, s \in c.stacks
      PROVE  Passes(s, o)
  <2>1. c \in Claim /\ AtClaim(c, s) /\ c.player = p
    BY <1>2, <1>3, <1>8, <1>9
  <2>2. o = p /\ InClaim(c, s)
    BY <2>1, FromClaim
  <2>3. InHand(o, s)'
    BY <1>5, <1>6, <1>7, <1>9, <2>1, <2>2 DEF InClaim, InHand
  <2>4. QED
    BY <2>3 DEF Passes, HeldBy
<1>10. CASE \A c \in some : s \notin c.stacks
  <2>1. \A c \in Claim : AtClaim(c, s)' <=> AtClaim(c, s)
    BY <1>7, <1>10 DEF AtClaim
  <2>2. QED
    BY <1>1, <1>5, <1>6, <1>10, <2>1, Unmoved
<1>11. QED
  BY <1>9, <1>10

LEMMA EndsPasses ==
  ASSUME Records, NEW l \in Listings, Ends(l), NEW s \in Stacks, NEW o \in Players, HeldBy(s, o)
  PROVE  Passes(s, o)
<1>1. PICK time \in {"ending", "ended"} : listing' = [listing EXCEPT ![l].time = time]
  BY DEF Ends
<1>2. /\ Exists(l) /\ UNCHANGED <<claims, goods, request>>
  BY DEF Ends, Open
<1>3. listing[l] \in Listing
  BY <1>2, ListingOf
<1>4. /\ \A k \in Listings \ {l} : listing'[k] = listing[k]
      /\ listing'[l] = [listing[l] EXCEPT !.time = time]
  BY <1>1 DEF Records, TypeOK
<1>5. /\ listing'[l] \in Listing /\ listing'[l].status = listing[l].status
      /\ listing'[l].stack = listing[l].stack /\ listing'[l].seller = listing[l].seller
  BY <1>3, <1>4 DEF Listing
<1>6. /\ \A k \in Listings : AtListing(k, s)' <=> AtListing(k, s)
      /\ \A k \in Listings : AtListing(k, s) => listing'[k].seller = listing[k].seller
  BY <1>2, <1>4, <1>5, NoneAssumption DEF AtListing, Open, Exists
<1>7. /\ \A q \in Players : AtHand(q, s)' <=> AtHand(q, s)
      /\ \A q \in Players : AtEscrow(q, s)' <=> AtEscrow(q, s)
      /\ \A c \in Claim : AtClaim(c, s)' <=> AtClaim(c, s)
  BY <1>2 DEF AtHand, AtEscrow, AtClaim
<1>8. QED
  BY <1>6, <1>7, Unmoved

LEMMA SettlePasses ==
  ASSUME Records, NEW d \in due, Settle(d), NEW s \in Stacks, NEW o \in Players, HeldBy(s, o)
  PROVE  Passes(s, o)
<1>1. PICK l \in Listings, c \in Claim :
            /\ Open(l) /\ Exists(l) /\ c.stacks = {listing[l].stack}
            /\ UNCHANGED <<market, coins, goods, request, due, edit>>
            /\ \/ /\ listing' = Closed(l, "expired", NoPlayer)
                  /\ c.player = listing[l].seller
                  /\ claims' = claims \cup {c}
               \/ \E sale \in Claim :
                     /\ listing[l].bidder \in Players
                     /\ listing' = Closed(l, "sold", listing[l].bidder)
                     /\ c.player = listing[l].bidder
                     /\ sale.stacks = {}
                     /\ claims' = claims \cup {c, sale}
  BY Settles
<1>2. /\ \A q \in Players : AtHand(q, s)' <=> AtHand(q, s)
      /\ \A q \in Players : AtEscrow(q, s)' <=> AtEscrow(q, s)
  BY <1>1 DEF AtHand, AtEscrow
<1>3. \A x \in Claim : AtClaim(x, s)' <=> AtClaim(x, s) \/ (x = c /\ s = listing[l].stack)
  BY <1>1 DEF AtClaim
<1>4. /\ \A k \in Listings : AtListing(k, s)' <=> AtListing(k, s) /\ k # l
      /\ \A k \in Listings \ {l} : listing'[k] = listing[k]
      /\ \/ c.player = listing[l].seller
         \/ /\ c.player = listing[l].bidder /\ listing[l].bidder \in Players
            /\ listing'[l].status = "sold" /\ listing'[l].buyer = listing[l].bidder
  BY <1>1, ShutAt
<1>5. AtListing(l, s) <=> s = listing[l].stack
  BY <1>1 DEF AtListing
<1>6. CASE AtListing(l, s)
  <2>1. o = listing[l].seller /\ InListing(l, s)
    BY <1>6, FromListing
  <2>2. InClaim(c, s)'
    BY <1>2, <1>3, <1>4, <1>5, <1>6, <2>1 DEF InListing, InClaim
  <2>3. c.player \in Players
    BY DEF Claim
  <2>4. HeldBy(s, c.player)'
    BY <2>2 DEF HeldBy
  <2>5. c.player # o => Sells(s, o, c.player)
    BY <1>1, <1>4, <1>5, <1>6, <2>1 DEF Sells
  <2>6. QED
    BY <2>3, <2>4, <2>5 DEF Passes
<1>7. CASE ~AtListing(l, s)
  <2>1. \A k \in Listings : AtListing(k, s) => listing'[k].seller = listing[k].seller
    BY <1>4, <1>7
  <2>2. QED
    BY <1>2, <1>3, <1>4, <1>5, <1>7, <2>1, Unmoved
<1>8. QED
  BY <1>6, <1>7

LEMMA NextPasses ==
  ASSUME Records, [Next]_vars, NEW s \in Stacks, NEW o \in Players, HeldBy(s, o)
  PROVE  Passes(s, o)
<1>1. CASE UNCHANGED <<listing, claims, goods, request>>
  <2>1. /\ \A q \in Players : AtHand(q, s)' <=> AtHand(q, s)
        /\ \A q \in Players : AtEscrow(q, s)' <=> AtEscrow(q, s)
        /\ \A l \in Listings : AtListing(l, s)' <=> AtListing(l, s)
        /\ \A c \in Claim : AtClaim(c, s)' <=> AtClaim(c, s)
    BY <1>1 DEF AtHand, AtEscrow, AtListing, AtClaim, Open, Exists
  <2>2. QED
    BY <1>1, <2>1, Unmoved
<1>2. ASSUME NEW p \in Players, Sends(p)
      PROVE  Passes(s, o)
  <2>1. PICK r \in Operation, escrow \in [coins: Nat, stacks: SUBSET Stacks] : Send(p, r, escrow)
    BY <1>2, SendsAre DEF Sent
  <2>2. [op |-> r, escrow |-> escrow] \in Request
    BY DEF Request
  <2>3. QED
    BY <2>1, <2>2, SendPasses
<1>3. ASSUME NEW p \in Players, GiveBack(p) \/ ApplyMarketOp(p)
      PROVE  Passes(s, o)
  BY <1>3, GiveBackPasses, ReadTermsPasses, ListPasses, CancelPasses, BuyPasses, BidPasses,
     CollectPasses DEF ApplyMarketOp
<1>4. ASSUME NEW l \in Listings, Ends(l) \/ ReadDue(l)
      PROVE  Passes(s, o)
  BY <1>1, <1>4, EndsPasses DEF ReadDue
<1>5. ASSUME NEW d \in due, Settle(d)
      PROVE  Passes(s, o)
  BY <1>5, SettlePasses
<1>6. ASSUME NEW e \in Editors, Edits(e)
      PROVE  Passes(s, o)
  BY <1>1, <1>6 DEF Edits, BeginPut, WritePut, BeginDelete, WriteDelete, DropEdit
<1>7. QED
  BY <1>1, <1>2, <1>3, <1>4, <1>5, <1>6 DEF Next, vars

LEMMA InitHeld ==
  ASSUME Init
  PROVE  Held
<1> SUFFICES ASSUME NEW s \in Stacks
             PROVE  \E p \in Players : HeldBy(s, p)
  BY DEF Held
<1>1. PICK p \in Players :
         s \in InitialStacks[p] /\ \A q \in Players : s \in InitialStacks[q] => q = p
  BY GoodsAssumption
<1>2. InHand(p, s)
  BY <1>1 DEF Init, InHand, AtHand, AtEscrow, AtListing, AtClaim, Open, Exists
<1>3. QED
  BY <1>2 DEF HeldBy

LEMMA AlwaysHeld == Spec => []Held
<1>1. Init => Held
  BY InitHeld
<1>2. Records /\ Held /\ [Next]_vars => Held'
  BY NextPasses DEF Held, Passes
<1>3. QED
  BY <1>1, <1>2, AlwaysRecords, PTL DEF Spec

(* Whoever holds a stack holds it in its one place.                        *)
Owned ==
    \A s \in Stacks, p \in Players :
       HeldBy(s, p) => \E place : Places(s) = {place} /\ place[3] = p

LEMMA AlwaysOwned == Spec => []Owned
<1>1. TypeOK => Owned
  BY OnePlace DEF Owned
<1>2. QED
  BY <1>1, MarketTypes, PTL

(* A stack is with one player, in one escrow, in one open listing or in    *)
(* one pending claim, never in two of them and never in none.              *)
THEOREM StacksHaveOnePlace == Spec => []StackHasOnePlace
<1>1. Held /\ Owned => StackHasOnePlace
  <2> SUFFICES ASSUME Held, Owned, NEW s \in Stacks
               PROVE  Cardinality(Places(s)) = 1
    BY DEF StackHasOnePlace
  <2>1. PICK place : Places(s) = {place}
    BY DEF Held, Owned
  <2>2. QED
    BY <2>1, FS_Singleton
<1>2. QED
  BY <1>1, AlwaysHeld, AlwaysOwned, PTL

(* A stack changes its owner only when an open listing of it is sold, from *)
(* its seller to its buyer.                                                *)
THEOREM TitlePasses == Spec => TitlePassesBySale
<1> DEFINE Passed == \A s \in Stacks, p, q \in Players :
                        p # q /\ Owns(p, s) /\ Owns(q, s)' => Sells(s, p, q)
<1>1. Records /\ Held /\ Owned /\ Owned' /\ [Next]_vars => Passed
  <2> SUFFICES ASSUME Records, Held, Owned, Owned', [Next]_vars,
                      NEW s \in Stacks, NEW p \in Players, NEW q \in Players,
                      p # q, Owns(p, s), Owns(q, s)'
               PROVE  Sells(s, p, q)
    OBVIOUS
  <2>1. PICK o \in Players : HeldBy(s, o)
    BY DEF Held
  <2>2. PICK n \in Players : HeldBy(s, n)' /\ (n # o => Sells(s, o, n))
    BY <2>1, NextPasses DEF Passes
  <2>3. o = p
    BY <2>1 DEF Owned, Owns
  <2>4. n = q
    BY <2>2 DEF Owned, Owns
  <2>5. QED
    BY <2>2, <2>3, <2>4
<1>2. Passed => \A s \in Stacks, p, q \in Players :
                   p # q /\ Owns(p, s) /\ Owns(q, s)' =>
                      \E l \in Listings : /\ Open(l) /\ listing[l].stack = s /\ listing[l].seller = p
                                          /\ listing'[l].status = "sold" /\ listing'[l].buyer = q
  BY DEF Sells
<1>3. QED
  BY <1>1, <1>2, AlwaysRecords, AlwaysHeld, AlwaysOwned, PTL DEF Spec, TitlePassesBySale

(***************************************************************************)
(* The coins of a player, part by part.                                    *)
(***************************************************************************)
PaidFor(a) == IF a.mode = "auction" THEN a.bid ELSE a.price

Kept(q) == IF request[q] = NoRequest THEN 0 ELSE request[q].escrow.coins
Lead(q) == SumFunctionOnSet(Highest, LedBy(q))
Spent(q) == SumFunctionOnSet(Paid, BoughtBy(q))
Income(q) == SumFunctionOnSet(Earned, SoldBy(q))
Fees(q) == ListingFee * Cardinality(ListedBy(q))

(* The coins of the claims of q among some.                                *)
CoinsFor(some, q) == CoinsOf({c \in some : c.player = q})

LEMMA Parts ==
  ASSUME NEW q
  PROVE  /\ Wealth(q) = coins[q] + Kept(q) + Lead(q) + CoinsFor(claims, q)
         /\ Balance(q) = InitialCoins[q] - Fees(q) - Spent(q) + Income(q)
BY DEF Wealth, Balance, Kept, Lead, Spent, Income, Fees, CoinsFor, ClaimsOf

(* What a listing adds to each sum.                                        *)
LEMMA Amounts ==
  ASSUME Records, NEW l \in Listed
  PROVE  /\ listing[l] \in Listing
         /\ Highest[l] = listing[l].bid /\ Highest[l] \in Int
         /\ Paid[l] = PaidFor(listing[l]) /\ Paid[l] \in Int
         /\ Earned[l] = PaidFor(listing[l]) - listing[l].saleFee /\ Earned[l] \in Int
<1>1. l \in Listings /\ Exists(l)
  BY DEF Listed
<1>2. listing[l] \in Listing
  BY <1>1, ListingOf
<1>3. listing[l].bid \in Nat /\ listing[l].price \in Nat /\ listing[l].saleFee \in Nat
  BY <1>2, ListingFields, Terms
<1>4. Highest[l] = listing[l].bid
  BY DEF Highest
<1>5. Paid[l] = PaidFor(listing[l]) /\ Paid[l] \in Int
  BY <1>3 DEF Paid, PaidFor
<1>6. Earned[l] = Paid[l] - listing[l].saleFee
  BY DEF Earned
<1>7. QED
  BY <1>2, <1>3, <1>4, <1>5, <1>6

LEMMA AmountsNext ==
  ASSUME Records', NEW l \in Listed'
  PROVE  /\ listing'[l] \in Listing
         /\ Highest'[l] = listing'[l].bid /\ Highest'[l] \in Int
         /\ Paid'[l] = PaidFor(listing'[l]) /\ Paid'[l] \in Int
         /\ Earned'[l] = PaidFor(listing'[l]) - listing'[l].saleFee /\ Earned'[l] \in Int
<1>1. l \in Listings /\ listing'[l] # NoListing
  BY DEF Listed, Exists
<1>2. listing'[l] \in Listing
  BY <1>1 DEF Records, TypeOK
<1>3. listing'[l].bid \in Nat /\ listing'[l].price \in Nat /\ listing'[l].saleFee \in Nat
  BY <1>2, ListingFields, Terms
<1>4. Highest'[l] = listing'[l].bid
  BY DEF Highest
<1>5. Paid'[l] = PaidFor(listing'[l]) /\ Paid'[l] \in Int
  BY <1>3 DEF Paid, PaidFor
<1>6. Earned'[l] = Paid'[l] - listing'[l].saleFee
  BY DEF Earned
<1>7. QED
  BY <1>2, <1>3, <1>4, <1>5, <1>6

LEMMA FiniteLists ==
  ASSUME Records, NEW q
  PROVE  /\ IsFiniteSet(LedBy(q)) /\ IsFiniteSet(BoughtBy(q)) /\ IsFiniteSet(SoldBy(q))
         /\ IsFiniteSet(ListedBy(q))
         /\ LedBy(q) \subseteq Listed /\ BoughtBy(q) \subseteq Listed /\ SoldBy(q) \subseteq Listed
<1>1. /\ LedBy(q) \subseteq Listed /\ BoughtBy(q) \subseteq Listed /\ SoldBy(q) \subseteq Listed
      /\ ListedBy(q) \subseteq Listed /\ IsFiniteSet(Listed)
  BY DEF LedBy, BoughtBy, SoldBy, ListedBy, Records, Finite
<1>2. QED
  BY <1>1, FS_Subset

LEMMA FiniteListsNext ==
  ASSUME Records', NEW q
  PROVE  /\ IsFiniteSet(LedBy(q)') /\ IsFiniteSet(BoughtBy(q)') /\ IsFiniteSet(SoldBy(q)')
         /\ LedBy(q)' \subseteq Listed' /\ BoughtBy(q)' \subseteq Listed'
         /\ SoldBy(q)' \subseteq Listed'
<1>1. /\ LedBy(q)' \subseteq Listed' /\ BoughtBy(q)' \subseteq Listed' /\ SoldBy(q)' \subseteq Listed'
      /\ IsFiniteSet(Listed')
  BY DEF LedBy, BoughtBy, SoldBy, ListedBy, Records, Finite
<1>2. QED
  BY <1>1, FS_Subset

(* A step that makes or changes one listing changes the sums by what that  *)
(* listing adds to them.                                                   *)
LEMMA OneListing ==
  ASSUME Records, Records', NEW l \in Listings,
         \A k \in Listings \ {l} : listing'[k] = listing[k], NEW q
  PROVE  /\ Lead(q) \in Int /\ Spent(q) \in Int /\ Income(q) \in Int
         /\ Lead(q)' = Lead(q) - (IF l \in LedBy(q) THEN listing[l].bid ELSE 0)
                               + (IF l \in LedBy(q)' THEN listing'[l].bid ELSE 0)
         /\ Spent(q)' = Spent(q) - (IF l \in BoughtBy(q) THEN PaidFor(listing[l]) ELSE 0)
                                 + (IF l \in BoughtBy(q)' THEN PaidFor(listing'[l]) ELSE 0)
         /\ Income(q)' =
               Income(q) - (IF l \in SoldBy(q) THEN PaidFor(listing[l]) - listing[l].saleFee ELSE 0)
                 + (IF l \in SoldBy(q)' THEN PaidFor(listing'[l]) - listing'[l].saleFee ELSE 0)
<1>1. \A k \in Listings \ {l} :
         /\ k \in Listed' <=> k \in Listed
         /\ Exists(k)' <=> Exists(k)
         /\ listing'[k] = listing[k]
  BY DEF Listed, Exists
<1>2. /\ LedBy(q) \ {l} = LedBy(q)' \ {l}
      /\ BoughtBy(q) \ {l} = BoughtBy(q)' \ {l}
      /\ SoldBy(q) \ {l} = SoldBy(q)' \ {l}
  <2>1. LedBy(q) \ {l} = LedBy(q)' \ {l}
    BY <1>1 DEF LedBy, Open, Listed
  <2>2. BoughtBy(q) \ {l} = BoughtBy(q)' \ {l}
    BY <1>1 DEF BoughtBy, Listed
  <2>3. SoldBy(q) \ {l} = SoldBy(q)' \ {l}
    BY <1>1 DEF SoldBy, ListedBy, Listed
  <2>4. QED
    BY <2>1, <2>2, <2>3
<1>3. \A k \in Listed : k # l => k \in Listed' /\ listing'[k] = listing[k]
  BY <1>1 DEF Listed
<1>4. \A k \in Listed : k # l =>
         Highest'[k] = Highest[k] /\ Paid'[k] = Paid[k] /\ Earned'[k] = Earned[k]
  BY <1>3, Amounts, AmountsNext
<1>5. /\ \A k \in Listed : Highest[k] \in Int /\ Paid[k] \in Int /\ Earned[k] \in Int
      /\ \A k \in Listed' : Highest'[k] \in Int /\ Paid'[k] \in Int /\ Earned'[k] \in Int
  BY Amounts, AmountsNext
<1>6. /\ Lead(q) \in Int
      /\ Lead(q)' = Lead(q) - (IF l \in LedBy(q) THEN Highest[l] ELSE 0)
                            + (IF l \in LedBy(q)' THEN Highest'[l] ELSE 0)
  <2>1. IsFiniteSet(LedBy(q)) /\ IsFiniteSet(LedBy(q)')
    BY FiniteLists, FiniteListsNext
  <2>2. LedBy(q) \ {l} = LedBy(q)' \ {l}
    BY <1>2
  <2>3. \A k \in LedBy(q) : Highest[k] \in Int
    BY <1>5, FiniteLists
  <2>4. \A k \in LedBy(q)' : Highest'[k] \in Int
    BY <1>5, FiniteListsNext
  <2>5. \A k \in LedBy(q) \ {l} : Highest'[k] = Highest[k]
    BY <1>4, FiniteLists
  <2>6. Alike(Highest, Highest', LedBy(q), LedBy(q)', l)
    BY <2>1, <2>2, <2>3, <2>4, <2>5 DEF Alike
  <2>7. Changed(Highest, Highest', LedBy(q), LedBy(q)', l)
    BY <2>6, SumChange
  <2>8. QED
    BY <2>7 DEF Changed, Lead
<1>7. /\ Spent(q) \in Int
      /\ Spent(q)' = Spent(q) - (IF l \in BoughtBy(q) THEN Paid[l] ELSE 0)
                              + (IF l \in BoughtBy(q)' THEN Paid'[l] ELSE 0)
  <2>1. IsFiniteSet(BoughtBy(q)) /\ IsFiniteSet(BoughtBy(q)')
    BY FiniteLists, FiniteListsNext
  <2>2. BoughtBy(q) \ {l} = BoughtBy(q)' \ {l}
    BY <1>2
  <2>3. \A k \in BoughtBy(q) : Paid[k] \in Int
    BY <1>5, FiniteLists
  <2>4. \A k \in BoughtBy(q)' : Paid'[k] \in Int
    BY <1>5, FiniteListsNext
  <2>5. \A k \in BoughtBy(q) \ {l} : Paid'[k] = Paid[k]
    BY <1>4, FiniteLists
  <2>6. Alike(Paid, Paid', BoughtBy(q), BoughtBy(q)', l)
    BY <2>1, <2>2, <2>3, <2>4, <2>5 DEF Alike
  <2>7. Changed(Paid, Paid', BoughtBy(q), BoughtBy(q)', l)
    BY <2>6, SumChange
  <2>8. QED
    BY <2>7 DEF Changed, Spent
<1>8. /\ Income(q) \in Int
      /\ Income(q)' = Income(q) - (IF l \in SoldBy(q) THEN Earned[l] ELSE 0)
                                + (IF l \in SoldBy(q)' THEN Earned'[l] ELSE 0)
  <2>1. IsFiniteSet(SoldBy(q)) /\ IsFiniteSet(SoldBy(q)')
    BY FiniteLists, FiniteListsNext
  <2>2. SoldBy(q) \ {l} = SoldBy(q)' \ {l}
    BY <1>2
  <2>3. \A k \in SoldBy(q) : Earned[k] \in Int
    BY <1>5, FiniteLists
  <2>4. \A k \in SoldBy(q)' : Earned'[k] \in Int
    BY <1>5, FiniteListsNext
  <2>5. \A k \in SoldBy(q) \ {l} : Earned'[k] = Earned[k]
    BY <1>4, FiniteLists
  <2>6. Alike(Earned, Earned', SoldBy(q), SoldBy(q)', l)
    BY <2>1, <2>2, <2>3, <2>4, <2>5 DEF Alike
  <2>7. Changed(Earned, Earned', SoldBy(q), SoldBy(q)', l)
    BY <2>6, SumChange
  <2>8. QED
    BY <2>7 DEF Changed, Income
<1>9. /\ l \in LedBy(q) => Highest[l] = listing[l].bid
      /\ l \in LedBy(q)' => Highest'[l] = listing'[l].bid
      /\ l \in BoughtBy(q) => Paid[l] = PaidFor(listing[l])
      /\ l \in BoughtBy(q)' => Paid'[l] = PaidFor(listing'[l])
      /\ l \in SoldBy(q) => Earned[l] = PaidFor(listing[l]) - listing[l].saleFee
      /\ l \in SoldBy(q)' => Earned'[l] = PaidFor(listing'[l]) - listing'[l].saleFee
  BY FiniteLists, FiniteListsNext, Amounts, AmountsNext
<1>10. QED
  BY <1>6, <1>7, <1>8, <1>9

(* What claims pay, when one is made and when some are collected.          *)
LEMMA CoinsSum ==
  ASSUME NEW some \in SUBSET Claim, IsFiniteSet(some)
  PROVE  CoinsOf(some) = SumFunctionOnSet([c \in Claim |-> c.coins], some)
<1> DEFINE f == [c \in some |-> c.coins]
           g == [c \in Claim |-> c.coins]
<1>1. \A c \in some : f[c] = g[c]
  OBVIOUS
<1>2. CoinsOf(some) = SumFunctionOnSet(f, some)
  BY CoinsOfNat
<1> HIDE DEF f, g
<1>3. SumFunctionOnSet(f, some) = SumFunctionOnSet(g, some)
  BY <1>1, SumSame
<1>4. QED
  BY <1>2, <1>3 DEF g

LEMMA CoinsForNat ==
  ASSUME NEW some \in SUBSET Claim, IsFiniteSet(some), NEW q
  PROVE  CoinsFor(some, q) \in Nat
<1> DEFINE of == {c \in some : c.player = q}
<1>1. of \in SUBSET Claim /\ IsFiniteSet(of)
  BY FS_Subset
<1>2. QED
  BY <1>1, CoinsOfNat DEF CoinsFor

LEMMA CoinsWith ==
  ASSUME NEW some \in SUBSET Claim, IsFiniteSet(some), NEW c \in Claim, c \notin some, NEW q
  PROVE  CoinsFor(some \cup {c}, q) = CoinsFor(some, q) + (IF c.player = q THEN c.coins ELSE 0)
<1> DEFINE g == [x \in Claim |-> x.coins]
           of == {x \in some : x.player = q}
           all == {x \in some \cup {c} : x.player = q}
<1>1. of \in SUBSET Claim /\ IsFiniteSet(of) /\ c \notin of
  BY FS_Subset
<1>2. \A x \in Claim : g[x] \in Int /\ g[x] = x.coins
  BY DEF Claim
<1>3. CoinsFor(some, q) = CoinsOf(of) /\ CoinsFor(some \cup {c}, q) = CoinsOf(all)
  BY DEF CoinsFor
<1>4. CoinsOf(of) = SumFunctionOnSet(g, of) /\ CoinsOf(of) \in Nat
  BY <1>1, CoinsSum, CoinsOfNat
<1>5. CASE c.player = q
  <2>1. all = of \cup {c}
    BY <1>5
  <2>2. all \in SUBSET Claim /\ IsFiniteSet(all)
    BY <1>1, <2>1, FS_AddElement
  <2>3. CoinsOf(all) = SumFunctionOnSet(g, all)
    BY <2>2, CoinsSum
  <2> HIDE DEF g, of
  <2>4. SumFunctionOnSet(g, of \cup {c}) = g[c] + SumFunctionOnSet(g, of)
    BY <1>1, <1>2, SumWith
  <2>5. SumFunctionOnSet(g, all) = SumFunctionOnSet(g, of \cup {c})
    BY <2>1
  <2> HIDE DEF all
  <2>6. c.coins \in Int /\ g[c] = c.coins
    BY <1>2
  <2>7. QED
    BY <1>3, <1>4, <1>5, <2>3, <2>4, <2>5, <2>6
<1>6. CASE c.player # q
  <2>1. all = of
    BY <1>6
  <2>2. CoinsOf(all) = CoinsOf(of)
    BY <2>1
  <2> HIDE DEF all, of
  <2>3. QED
    BY <1>3, <1>4, <1>6, <2>2
<1>7. QED
  BY <1>5, <1>6

LEMMA CoinsWithout ==
  ASSUME NEW some \in SUBSET Claim, IsFiniteSet(some), NEW p, NEW part \in SUBSET some,
         \A c \in part : c.player = p, NEW q
  PROVE  CoinsFor(some, q) = CoinsFor(some \ part, q) + (IF q = p THEN CoinsOf(part) ELSE 0)
<1> DEFINE g == [x \in Claim |-> x.coins]
           of == {x \in some : x.player = q}
           rest == {x \in some \ part : x.player = q}
<1>1. of \in SUBSET Claim /\ IsFiniteSet(of) /\ rest \in SUBSET Claim /\ IsFiniteSet(rest)
  BY FS_Subset
<1>2. \A x \in Claim : g[x] \in Int
  BY DEF Claim
<1>3. CoinsFor(some, q) = CoinsOf(of) /\ CoinsFor(some \ part, q) = CoinsOf(rest)
  BY DEF CoinsFor
<1>4. /\ CoinsOf(of) = SumFunctionOnSet(g, of) /\ CoinsOf(of) \in Nat
      /\ CoinsOf(rest) = SumFunctionOnSet(g, rest) /\ CoinsOf(rest) \in Nat
  BY <1>1, CoinsSum, CoinsOfNat
<1>5. CASE q = p
  <2>1. part \in SUBSET of /\ rest = of \ part
    BY <1>5
  <2>2. part \in SUBSET Claim /\ IsFiniteSet(part)
    BY FS_Subset
  <2>3. CoinsOf(part) = SumFunctionOnSet(g, part)  /\ CoinsOf(part) \in Nat
    BY <2>2, CoinsSum, CoinsOfNat
  <2>4. \A x \in of : g[x] \in Int
    BY <1>1, <1>2
  <2> HIDE DEF g, of
  <2>5. SumFunctionOnSet(g, of) = SumFunctionOnSet(g, part) + SumFunctionOnSet(g, of \ part)
    BY <1>1, <2>1, <2>4, SumSplit
  <2>6. SumFunctionOnSet(g, of \ part) = SumFunctionOnSet(g, rest)
    BY <2>1
  <2> HIDE DEF rest
  <2>7. QED
    BY <1>3, <1>4, <1>5, <2>3, <2>5, <2>6
<1>6. CASE q # p
  <2>1. rest = of
    BY <1>6
  <2>2. CoinsOf(rest) = CoinsOf(of)
    BY <2>1
  <2> HIDE DEF of, rest
  <2>3. QED
    BY <1>3, <1>4, <1>6, <2>2
<1>7. QED
  BY <1>5, <1>6


(***************************************************************************)
(* The account of a player: all that is its own, with what it has paid and *)
(* without what it has earned.                                             *)
(***************************************************************************)
Purse(q) == coins[q] + Kept(q)
Owing(q) == CoinsFor(claims, q)

Account(q) == Purse(q) + Lead(q) + Owing(q) + Fees(q) + Spent(q) - Income(q)

Accounted == \A q \in Players : Account(q) = InitialCoins[q]

LEMMA AccountFields ==
  ASSUME Records, NEW q \in Players
  PROVE  /\ coins[q] \in Nat /\ Kept(q) \in Nat /\ Purse(q) \in Nat
         /\ Lead(q) \in Int /\ Owing(q) \in Nat
         /\ Fees(q) \in Nat /\ Spent(q) \in Int /\ Income(q) \in Int /\ InitialCoins[q] \in Nat
<1>1. coins[q] \in Nat /\ InitialCoins[q] \in Nat
  BY GoodsAssumption DEF Records, TypeOK
<1>2. Kept(q) \in Nat
  BY RequestFields DEF Kept
<1>3. Purse(q) \in Nat
  BY <1>1, <1>2 DEF Purse
<1>4. Lead(q) \in Int
  <2>1. \A l \in LedBy(q) : Highest[l] \in Int
    BY FiniteLists, Amounts
  <2>2. QED
    BY <2>1, FiniteLists, SumInt DEF Lead
<1>5. Spent(q) \in Int
  <2>1. \A l \in BoughtBy(q) : Paid[l] \in Int
    BY FiniteLists, Amounts
  <2>2. QED
    BY <2>1, FiniteLists, SumInt DEF Spent
<1>6. Income(q) \in Int
  <2>1. \A l \in SoldBy(q) : Earned[l] \in Int
    BY FiniteLists, Amounts
  <2>2. QED
    BY <2>1, FiniteLists, SumInt DEF Income
<1>7. Fees(q) \in Nat
  <2>1. Cardinality(ListedBy(q)) \in Nat
    BY FiniteLists, FS_CardinalityType
  <2>2. QED
    BY <2>1, Terms DEF Fees
<1>8. Owing(q) \in Nat
  BY CoinsForNat DEF Owing, Records, TypeOK, Finite
<1>9. QED
  BY <1>1, <1>2, <1>3, <1>4, <1>5, <1>6, <1>7, <1>8

LEMMA AccountsAre ==
  ASSUME Records, Accounted
  PROVE  AccountsBalance
<1>1. ASSUME NEW q \in Players
      PROVE  Wealth(q) = Balance(q)
  <2>1. Account(q) = InitialCoins[q]
    BY DEF Accounted
  <2>2. Wealth(q) = Purse(q) + Lead(q) + Owing(q)
    BY Parts DEF Purse, Owing
  <2>3. Balance(q) = InitialCoins[q] - Fees(q) - Spent(q) + Income(q)
    BY Parts
  <2>4. QED
    BY <2>1, <2>2, <2>3, AccountFields DEF Account
<1>2. QED
  BY <1>1 DEF AccountsBalance

(* What an answer adds to a purse: what it gives, less what was in escrow. *)
LEMMA PurseAnswered ==
  ASSUME Records, NEW p \in Players, request[p] # NoRequest, NEW gets, gets.coins \in Nat,
         Applied(p, gets), NEW q \in Players
  PROVE  Purse(q)' = Purse(q) + (IF q = p THEN gets.coins - request[p].escrow.coins ELSE 0)
<1>1. /\ coins \in [Players -> Nat] /\ request \in [Players -> Request \cup {NoRequest}]
      /\ request' = [request EXCEPT ![p] = NoRequest]
      /\ coins' = [coins EXCEPT ![p] = @ + gets.coins]
  BY DEF Records, TypeOK, Applied
<1>2. CASE q = p
  <2>1. coins'[p] = coins[p] + gets.coins /\ request'[p] = NoRequest
    BY <1>1
  <2>2. Kept(p)' = 0 /\ Kept(p) = request[p].escrow.coins
    BY <2>1 DEF Kept
  <2>3. request[p].escrow.coins \in Nat /\ coins[p] \in Nat
    BY <1>1, RequestFields
  <2>4. Purse(p)' = coins[p] + gets.coins /\ Purse(p) = coins[p] + request[p].escrow.coins
    BY <2>1, <2>2, <2>3 DEF Purse
  <2>5. QED
    BY <1>2, <2>3, <2>4
<1>3. CASE q # p
  <2>1. coins'[q] = coins[q] /\ request'[q] = request[q]
    BY <1>1, <1>3
  <2>2. Purse(q)' = Purse(q)
    BY <2>1 DEF Purse, Kept
  <2>3. QED
    BY <1>3, <2>2, AccountFields
<1>4. QED
  BY <1>2, <1>3

(* What the listings say of a player changes only with them.               *)
LEMMA SameListings ==
  ASSUME listing' = listing, NEW q
  PROVE  Lead(q)' = Lead(q) /\ Spent(q)' = Spent(q) /\ Income(q)' = Income(q) /\ Fees(q)' = Fees(q)
<1>1. Listed' = Listed
  BY DEF Listed, Exists
<1>2. LedBy(q)' = LedBy(q) /\ ListedBy(q)' = ListedBy(q) /\ BoughtBy(q)' = BoughtBy(q)
  BY <1>1 DEF LedBy, ListedBy, BoughtBy, Open, Exists
<1>3. SoldBy(q)' = SoldBy(q)
  BY <1>2 DEF SoldBy
<1>4. Highest' = Highest /\ Paid' = Paid
  BY <1>1 DEF Highest, Paid
<1>5. Earned' = Earned
  BY <1>1, <1>4 DEF Earned
<1>6. QED
  BY <1>2, <1>3, <1>4, <1>5 DEF Lead, Spent, Income, Fees

(* A listing keeps its seller: the fees paid stay what they are.           *)
LEMMA SameFees ==
  ASSUME NEW l \in Listings, Exists(l), Exists(l)', listing'[l].seller = listing[l].seller,
         \A k \in Listings \ {l} : listing'[k] = listing[k], NEW q
  PROVE  Fees(q)' = Fees(q)
<1>1. \A k \in Listings : /\ Exists(k)' <=> Exists(k)
                          /\ Exists(k) => listing'[k].seller = listing[k].seller
  BY DEF Exists
<1>2. ListedBy(q)' = ListedBy(q)
  BY <1>1 DEF ListedBy, Listed
<1>3. QED
  BY <1>2 DEF Fees


LEMMA SendAccount ==
  ASSUME Records, NEW p \in Players, Sends(p), NEW q \in Players
  PROVE  Account(q)' = Account(q)
<1>1. PICK r \in Operation, escrow \in [coins: Nat, stacks: SUBSET Stacks] : Send(p, r, escrow)
  BY SendsAre DEF Sent
<1> DEFINE new == [op |-> r, escrow |-> escrow]
<1>2. new \in Request /\ new.escrow = escrow /\ new # NoRequest /\ escrow.coins \in Nat
  BY NoneAssumption DEF Request
<1>3. /\ request[p] = NoRequest /\ request' = [request EXCEPT ![p] = new]
      /\ coins' = [coins EXCEPT ![p] = @ - escrow.coins]
      /\ listing' = listing /\ claims' = claims
  BY <1>1 DEF Send
<1> HIDE DEF new
<1>4. coins \in [Players -> Nat] /\ request \in [Players -> Request \cup {NoRequest}]
  BY DEF Records, TypeOK
<1>5. Purse(q)' = Purse(q)
  <2>1. CASE q = p
    <3>1. coins'[p] = coins[p] - escrow.coins /\ request'[p] = new
      BY <1>3, <1>4
    <3>2. Kept(p)' = escrow.coins /\ Kept(p) = 0
      BY <3>1, <1>2, <1>3 DEF Kept
    <3>3. coins[p] \in Nat
      BY <1>4
    <3>4. QED
      BY <2>1, <3>1, <3>2, <3>3, <1>2 DEF Purse
  <2>2. CASE q # p
    BY <2>2, <1>3, <1>4 DEF Purse, Kept
  <2>3. QED
    BY <2>1, <2>2
<1>6. Owing(q)' = Owing(q)
  BY <1>3 DEF Owing
<1>7. QED
  BY <1>3, <1>5, <1>6, SameListings DEF Account

LEMMA GiveBackAccount ==
  ASSUME Records, NEW p \in Players, GiveBack(p), NEW q \in Players
  PROVE  Account(q)' = Account(q)
<1>1. /\ request[p] # NoRequest /\ Applied(p, request[p].escrow)
      /\ listing' = listing /\ claims' = claims
  BY DEF GiveBack
<1>2. request[p].escrow.coins \in Nat
  BY <1>1, RequestFields
<1>3. Purse(q)' = Purse(q) + (IF q = p THEN request[p].escrow.coins - request[p].escrow.coins ELSE 0)
  BY <1>1, <1>2, PurseAnswered
<1>4. Purse(q)' = Purse(q)
  BY <1>2, <1>3, AccountFields
<1>5. Owing(q)' = Owing(q)
  BY <1>1 DEF Owing
<1>6. QED
  BY <1>1, <1>4, <1>5, SameListings DEF Account

(* A check of the terms keeps the escrow.                                  *)
LEMMA ReadTermsAccount ==
  ASSUME Records, NEW p \in Players, ReadTerms(p), NEW q \in Players
  PROVE  Account(q)' = Account(q)
<1>1. PICK new \in Request :
         /\ request[p] # NoRequest /\ request' = [request EXCEPT ![p] = new]
         /\ new.escrow = request[p].escrow
         /\ listing' = listing /\ claims' = claims /\ coins' = coins
  BY Checks
<1>2. /\ \A o \in Players \ {p} : request'[o] = request[o]
      /\ request'[p] = new /\ new # NoRequest
  BY <1>1, NoneAssumption DEF Records, TypeOK
<1>3. Kept(q)' = Kept(q)
  BY <1>1, <1>2 DEF Kept
<1>4. Purse(q)' = Purse(q) /\ Owing(q)' = Owing(q)
  BY <1>1, <1>3 DEF Purse, Owing
<1>5. QED
  BY <1>1, <1>4, SameListings DEF Account

(* The player who lists a stack pays the fee from its escrow.              *)
LEMMA ListAccount ==
  ASSUME Records, NEW p \in Players, NEW l \in Listings, List(p, l), NEW q \in Players
  PROVE  Account(q)' = Account(q)
<1>1. PICK new \in Listing :
         /\ request[p] # NoRequest /\ request[p].escrow.coins = ListingFee
         /\ ~Exists(l) /\ listing' = [listing EXCEPT ![l] = new]
         /\ new.status = "open" /\ new.seller = p
         /\ new.bidder = NoPlayer /\ new.buyer = NoPlayer
         /\ Applied(p, NoEscrow) /\ claims' = claims
  BY Lists
<1>2. Records'
  BY ListKeepsRecords
<1>3. request[p] # NoRequest /\ request[p].escrow.coins = ListingFee
  BY <1>1
<1>4. new.status = "open" /\ new.seller = p /\ new.bidder = NoPlayer /\ new.buyer = NoPlayer
  BY <1>1
<1>5. listing'[l] = new /\ \A k \in Listings \ {l} : listing'[k] = listing[k]
  BY <1>1 DEF Records, TypeOK
<1>6. Exists(l)'
  BY <1>5, NoneAssumption DEF Exists
<1>7. l \notin Listed /\ l \in Listed' /\ \A k \in Listings \ {l} : k \in Listed' <=> k \in Listed
  BY <1>1, <1>5, <1>6 DEF Listed, Exists
<1>8. l \notin LedBy(q) /\ l \notin BoughtBy(q) /\ l \notin SoldBy(q)
  BY <1>7, FiniteLists
<1>9. l \notin LedBy(q)' /\ l \notin BoughtBy(q)' /\ l \notin SoldBy(q)'
  BY <1>4, <1>5, NoneAssumption DEF LedBy, BoughtBy, SoldBy
<1>10. Lead(q)' = Lead(q) /\ Spent(q)' = Spent(q) /\ Income(q)' = Income(q)
  BY <1>2, <1>5, <1>8, <1>9, OneListing
<1>11. Fees(q)' = Fees(q) + (IF q = p THEN ListingFee ELSE 0)
  <2>1. \A k \in Listings \ {l} : k \in ListedBy(q)' <=> k \in ListedBy(q)
    BY <1>5, <1>7 DEF ListedBy
  <2>2. ListedBy(q) \subseteq Listings /\ ListedBy(q)' \subseteq Listings
    BY DEF ListedBy, Listed
  <2>3. l \notin ListedBy(q)
    BY <1>7 DEF ListedBy
  <2>4. CASE q = p
    <3>1. l \in ListedBy(q)'
      BY <2>4, <1>4, <1>5, <1>7 DEF ListedBy
    <3>2. ListedBy(q)' = ListedBy(q) \cup {l}
      BY <2>1, <2>2, <3>1
    <3>3. Cardinality(ListedBy(q) \cup {l}) = Cardinality(ListedBy(q)) + 1
      BY <2>3, FiniteLists, FS_AddElement
    <3> DEFINE n == Cardinality(ListedBy(q))
    <3>4. n \in Nat /\ Fees(q) = ListingFee * n /\ Fees(q)' = ListingFee * (n + 1)
      BY <3>2, <3>3, FiniteLists, FS_CardinalityType DEF Fees
    <3> HIDE DEF n
    <3>5. ListingFee * (n + 1) = ListingFee * n + ListingFee
      BY <3>4, Terms
    <3>6. QED
      BY <2>4, <3>4, <3>5
  <2>5. CASE q # p
    <3>1. l \notin ListedBy(q)'
      BY <2>5, <1>4, <1>5 DEF ListedBy
    <3>2. ListedBy(q)' = ListedBy(q)
      BY <2>1, <2>2, <2>3, <3>1
    <3>3. Fees(q)' = Fees(q)
      BY <3>2 DEF Fees
    <3>4. QED
      BY <2>5, <3>3, AccountFields
  <2>6. QED
    BY <2>4, <2>5
<1>12. Purse(q)' = Purse(q) + (IF q = p THEN 0 - ListingFee ELSE 0)
  <2>1. NoEscrow.coins = 0
    BY DEF NoEscrow
  <2>2. Purse(q)' = Purse(q) + (IF q = p THEN NoEscrow.coins - request[p].escrow.coins ELSE 0)
    BY <1>1, <1>3, <2>1, PurseAnswered
  <2>3. QED
    BY <1>3, <2>1, <2>2
<1>13. Owing(q)' = Owing(q)
  BY <1>1 DEF Owing
<1>14. QED
  BY <1>10, <1>11, <1>12, <1>13, AccountFields, Terms DEF Account


(* What a listing that closes adds to each sum.                            *)
LEMMA ClosedSums ==
  ASSUME Records, Records', NEW l \in Listings, Open(l),
         NEW status \in {"sold", "cancelled", "expired"},
         NEW buyer \in Players \cup {NoPlayer}, listing' = Closed(l, status, buyer),
         NEW q \in Players
  PROVE  /\ Lead(q)' = Lead(q) - (IF listing[l].bidder = q THEN listing[l].bid ELSE 0)
         /\ Spent(q)' = Spent(q) + (IF status = "sold" /\ buyer = q THEN PaidFor(listing[l]) ELSE 0)
         /\ Income(q)' = Income(q) + (IF status = "sold" /\ listing[l].seller = q
                                      THEN PaidFor(listing[l]) - listing[l].saleFee ELSE 0)
         /\ Fees(q)' = Fees(q)
<1> DEFINE a == listing[l]
           b == Shut(a, status, buyer)
<1>1. Exists(l) /\ l \in Listed /\ a \in Listing /\ Priced(a) /\ a.status = "open"
  BY ListingOf DEF Open
<1>2. /\ listing'[l] = b /\ \A k \in Listings \ {l} : listing'[k] = listing[k]
      /\ Exists(l)' /\ ~Open(l)' /\ Listed' = Listed
  BY <1>1, ListingShut
<1>s. a \in Listing
  BY <1>1
<1> HIDE DEF a, b
<1>t. /\ SameTerms(a, Shut(a, status, buyer))
      /\ Shut(a, status, buyer).status = status /\ Shut(a, status, buyer).buyer = buyer
  BY <1>s, ShutTerms
<1>3. SameTerms(a, b) /\ b.status = status /\ b.buyer = buyer
  BY <1>t DEF b
<1>4. b.seller = a.seller /\ b.saleFee = a.saleFee /\ PaidFor(b) = PaidFor(a)
  BY <1>3 DEF SameTerms, PaidFor
<1>5. /\ Lead(q) \in Int /\ Spent(q) \in Int /\ Income(q) \in Int
      /\ Lead(q)' = Lead(q) - (IF l \in LedBy(q) THEN a.bid ELSE 0)
                            + (IF l \in LedBy(q)' THEN b.bid ELSE 0)
      /\ Spent(q)' = Spent(q) - (IF l \in BoughtBy(q) THEN PaidFor(a) ELSE 0)
                              + (IF l \in BoughtBy(q)' THEN PaidFor(b) ELSE 0)
      /\ Income(q)' = Income(q) - (IF l \in SoldBy(q) THEN PaidFor(a) - a.saleFee ELSE 0)
                                + (IF l \in SoldBy(q)' THEN PaidFor(b) - b.saleFee ELSE 0)
  BY <1>2, OneListing DEF a
<1>6. /\ l \in LedBy(q) <=> a.bidder = q
      /\ l \notin BoughtBy(q) /\ l \notin SoldBy(q)
  BY <1>1 DEF LedBy, BoughtBy, SoldBy, a
<1>7. /\ l \notin LedBy(q)'
      /\ l \in BoughtBy(q)' <=> status = "sold" /\ buyer = q
      /\ l \in SoldBy(q)' <=> status = "sold" /\ a.seller = q
  BY <1>1, <1>2, <1>3, <1>4 DEF LedBy, BoughtBy, SoldBy, ListedBy
<1>8. a.bid \in Int /\ PaidFor(a) \in Int /\ a.saleFee \in Int
  BY <1>1, ListingFields, Terms DEF PaidFor
<1>9. Lead(q)' = Lead(q) - (IF a.bidder = q THEN a.bid ELSE 0)
  BY <1>5, <1>6, <1>7, <1>8
<1>10. Spent(q)' = Spent(q) + (IF status = "sold" /\ buyer = q THEN PaidFor(a) ELSE 0)
  BY <1>4, <1>5, <1>6, <1>7, <1>8
<1>11. Income(q)' = Income(q) + (IF status = "sold" /\ a.seller = q
                                 THEN PaidFor(a) - a.saleFee ELSE 0)
  BY <1>4, <1>5, <1>6, <1>7, <1>8
<1>12. Fees(q)' = Fees(q)
  BY <1>1, <1>2, <1>4, SameFees DEF a
<1>13. QED
  BY <1>9, <1>10, <1>11, <1>12 DEF a

LEMMA CancelAccount ==
  ASSUME Records, NEW p \in Players, Cancel(p), NEW q \in Players
  PROVE  Account(q)' = Account(q)
<1> DEFINE l == request[p].op.listing
           gets == [coins |-> 0, stacks |-> {listing[l].stack}]
<1>1. /\ Doing(p, "cancel") /\ Open(l) /\ listing[l].bidder = NoPlayer
      /\ listing' = Closed(l, "cancelled", NoPlayer) /\ claims' = claims
      /\ Applied(p, gets)
  BY DEF Cancel, Cancellable, Matches
<1>2. gets.coins = 0
  OBVIOUS
<1>3. request[p] # NoRequest /\ request[p].escrow.coins = 0 /\ l \in Listings
  BY <1>1, Waiting, OperationFields DEF Escrows
<1>4. Records'
  BY CancelKeepsRecords
<1> HIDE DEF l, gets
<1>5. /\ Lead(q)' = Lead(q) - (IF listing[l].bidder = q THEN listing[l].bid ELSE 0)
      /\ Spent(q)' = Spent(q) + 0 /\ Income(q)' = Income(q) + 0 /\ Fees(q)' = Fees(q)
  BY <1>1, <1>3, <1>4, ClosedSums
<1>6. Lead(q)' = Lead(q) - 0
  BY <1>1, <1>5, NoneAssumption
<1>7. Purse(q)' = Purse(q) + 0
  <2>1. Purse(q)' = Purse(q) + (IF q = p THEN gets.coins - request[p].escrow.coins ELSE 0)
    BY <1>1, <1>2, <1>3, PurseAnswered
  <2>2. QED
    BY <2>1, <1>2, <1>3
<1>8. Owing(q)' = Owing(q)
  BY <1>1 DEF Owing
<1>9. QED
  BY <1>5, <1>6, <1>7, <1>8, AccountFields DEF Account

(* A claim that is made adds what it pays to what its player is owed.      *)
LEMMA OwingWith ==
  ASSUME Records, NEW c \in Claim, ~Claimed(c), claims' = claims \cup {c}, NEW q \in Players
  PROVE  Owing(q)' = Owing(q) + (IF c.player = q THEN c.coins ELSE 0)
<1>1. claims \in SUBSET Claim /\ IsFiniteSet(claims) /\ c \notin claims
  BY DEF Records, TypeOK, Finite, ClaimsKnown
<1>2. CoinsFor(claims \cup {c}, q) = CoinsFor(claims, q) + (IF c.player = q THEN c.coins ELSE 0)
  BY <1>1, CoinsWith
<1>3. QED
  BY <1>2 DEF Owing

(* The buyer pays from its escrow, and the seller is owed its proceeds.    *)
LEMMA BuyAccount ==
  ASSUME Records, NEW p \in Players, Buy(p), NEW q \in Players
  PROVE  Account(q)' = Account(q)
<1>1. PICK l \in Listings, sale \in Claim :
         /\ Open(l) /\ listing[l].mode = "fixed"
         /\ request[p] # NoRequest /\ request[p].escrow.coins = listing[l].price
         /\ listing' = Closed(l, "sold", p)
         /\ sale.listing = l /\ sale.reason = "sale" /\ sale.player = listing[l].seller
         /\ sale.coins = listing[l].price - listing[l].saleFee
         /\ claims' = claims \cup {sale}
         /\ Applied(p, [coins |-> 0, stacks |-> {listing[l].stack}])
  BY Bought
<1>2. Records'
  BY BuyKeepsRecords
<1> DEFINE a == listing[l]
           gets == [coins |-> 0, stacks |-> {a.stack}]
<1>3. /\ a.price \in Nat /\ a.saleFee \in Nat /\ a.bidder = NoPlayer
      /\ PaidFor(a) = a.price
  BY <1>1, ListingOf, ListingFields, Terms DEF Open, Priced, PaidFor
<1>4. /\ Lead(q)' = Lead(q) - (IF a.bidder = q THEN a.bid ELSE 0)
      /\ Spent(q)' = Spent(q) + (IF p = q THEN PaidFor(a) ELSE 0)
      /\ Income(q)' = Income(q) + (IF a.seller = q THEN PaidFor(a) - a.saleFee ELSE 0)
      /\ Fees(q)' = Fees(q)
  BY <1>1, <1>2, ClosedSums
<1>5. gets.coins = 0 /\ Applied(p, gets)
  BY <1>1
<1>6. ~Claimed(sale)
  BY <1>1 DEF Claimed
<1> HIDE DEF a, gets
<1>7. Owing(q)' = Owing(q) + (IF a.seller = q THEN a.price - a.saleFee ELSE 0)
  BY <1>1, <1>6, OwingWith DEF a
<1>8. Purse(q)' = Purse(q) + (IF q = p THEN 0 - a.price ELSE 0)
  <2>1. Purse(q)' = Purse(q) + (IF q = p THEN gets.coins - request[p].escrow.coins ELSE 0)
    BY <1>1, <1>5, PurseAnswered
  <2>2. request[p].escrow.coins = a.price
    BY <1>1 DEF a
  <2>3. QED
    BY <2>1, <2>2, <1>5
<1>9. Lead(q)' = Lead(q) - 0
  BY <1>3, <1>4, NoneAssumption
<1>10. QED
  BY <1>3, <1>4, <1>7, <1>8, <1>9, AccountFields DEF Account


(* The bidder pays from its escrow; the bidder it replaces is owed its bid. *)
LEMMA BidAccount ==
  ASSUME Records, NEW p \in Players, Bid(p), NEW q \in Players
  PROVE  Account(q)' = Account(q)
<1>0. PICK l \in Listings, price \in Nat, some \in SUBSET Claim : BidDone(p, l, price, some)
  BY Outbids
<1>1. /\ Open(l) /\ listing[l].mode = "auction" /\ listing[l].price <= price
      /\ request[p] # NoRequest /\ request[p].escrow.coins = price
      /\ listing' = [listing EXCEPT ![l] = Raised(listing[l], price, p)]
      /\ listing[l].bidder = NoPlayer => some = {}
      /\ listing[l].bidder # NoPlayer =>
            \E c \in Claim : /\ some = {c} /\ c.listing = l /\ c.reason = "outbid"
                             /\ c.at = listing[l].revision
                             /\ c.player = listing[l].bidder
                             /\ c.coins = listing[l].bid
      /\ claims' = claims \cup some
      /\ Applied(p, NoEscrow)
  BY <1>0 DEF BidDone
<1>2. Records'
  BY BidKeepsRecords
<1> DEFINE a == listing[l]
           b == Raised(a, price, p)
<1>3. /\ Exists(l) /\ l \in Listed /\ a \in Listing /\ Priced(a) /\ a.status = "open"
      /\ a.bid \in Nat /\ a.revision \in Nat
  BY <1>1, ListingOf, ListingFields DEF Open
<1> HIDE DEF a
<1>4. /\ b \in Listing /\ b.bid = price /\ b.bidder = p /\ b.status = "open"
      /\ b.seller = a.seller
  <2>1. a.mode = "auction" /\ a.price <= price
    BY <1>1 DEF a
  <2>2. QED
    BY <1>3, <2>1, RaisedFields
<1>5. listing'[l] = b /\ \A k \in Listings \ {l} : listing'[k] = listing[k]
  BY <1>1 DEF Records, TypeOK, a
<1> HIDE DEF b
<1>6. Exists(l)'
  BY <1>4, <1>5, NoneAssumption DEF Exists
<1>7. l \in Listed'
  BY <1>6 DEF Listed
<1>8. /\ Lead(q) \in Int /\ Spent(q) \in Int /\ Income(q) \in Int
      /\ Lead(q)' = Lead(q) - (IF l \in LedBy(q) THEN a.bid ELSE 0)
                            + (IF l \in LedBy(q)' THEN b.bid ELSE 0)
      /\ Spent(q)' = Spent(q) - (IF l \in BoughtBy(q) THEN PaidFor(a) ELSE 0)
                              + (IF l \in BoughtBy(q)' THEN PaidFor(b) ELSE 0)
      /\ Income(q)' = Income(q) - (IF l \in SoldBy(q) THEN PaidFor(a) - a.saleFee ELSE 0)
                                + (IF l \in SoldBy(q)' THEN PaidFor(b) - b.saleFee ELSE 0)
  BY <1>2, <1>5, OneListing DEF a
<1>9. /\ l \in LedBy(q) <=> a.bidder = q
      /\ l \notin BoughtBy(q) /\ l \notin SoldBy(q)
  BY <1>3 DEF LedBy, BoughtBy, SoldBy, Open, a
<1>10. /\ l \in LedBy(q)' <=> p = q
       /\ l \notin BoughtBy(q)' /\ l \notin SoldBy(q)'
  BY <1>4, <1>5, <1>6, <1>7 DEF LedBy, BoughtBy, SoldBy, Open
<1>11. Spent(q)' = Spent(q) /\ Income(q)' = Income(q)
  BY <1>8, <1>9, <1>10
<1>12. Lead(q)' = Lead(q) - (IF a.bidder = q THEN a.bid ELSE 0) + (IF p = q THEN price ELSE 0)
  BY <1>4, <1>8, <1>9, <1>10
<1>13. Fees(q)' = Fees(q)
  BY <1>3, <1>4, <1>5, <1>6, SameFees DEF a
<1>14. Owing(q)' = Owing(q) + (IF a.bidder = q THEN a.bid ELSE 0)
  <2>1. CASE a.bidder = NoPlayer
    <3>1. claims' = claims
      BY <1>1, <2>1 DEF a
    <3>2. Owing(q)' = Owing(q)
      BY <3>1 DEF Owing
    <3>3. QED
      BY <2>1, <3>2, AccountFields, NoneAssumption
  <2>2. CASE a.bidder # NoPlayer
    <3>1. PICK c \in Claim : /\ some = {c} /\ c.listing = l /\ c.reason = "outbid"
                             /\ c.at = a.revision /\ c.player = a.bidder /\ c.coins = a.bid
      BY <1>1, <2>2 DEF a
    <3>2. ~(c.at < listing[c.listing].revision)
      BY <3>1, <1>3 DEF a
    <3>3. ~Claimed(c) /\ claims' = claims \cup {c}
      BY <1>1, <3>1, <3>2 DEF Claimed
    <3>4. Owing(q)' = Owing(q) + (IF c.player = q THEN c.coins ELSE 0)
      BY <3>3, OwingWith
    <3>5. QED
      BY <3>1, <3>4
  <2>3. QED
    BY <2>1, <2>2
<1>15. Purse(q)' = Purse(q) + (IF q = p THEN 0 - price ELSE 0)
  <2>1. NoEscrow.coins = 0
    BY DEF NoEscrow
  <2>2. Purse(q)' = Purse(q) + (IF q = p THEN NoEscrow.coins - request[p].escrow.coins ELSE 0)
    BY <1>1, <2>1, PurseAnswered
  <2>3. QED
    BY <1>1, <2>1, <2>2
<1>16. QED
  BY <1>3, <1>11, <1>12, <1>13, <1>14, <1>15, AccountFields DEF Account

(* What is collected is no longer owed.                                    *)
LEMMA CollectAccount ==
  ASSUME Records, NEW p \in Players, Collect(p), NEW q \in Players
  PROVE  Account(q)' = Account(q)
<1> DEFINE some == request[p].op.claims
           gets == [coins |-> CoinsOf(some), stacks |-> UNION {c.stacks : c \in some}]
<1>1. /\ Doing(p, "collect") /\ some \subseteq claims /\ claims' = claims \ some
      /\ Applied(p, gets) /\ listing' = listing
  BY DEF Collect, Collected
<1>2. /\ request[p] # NoRequest /\ request[p].escrow.coins = 0
      /\ \A c \in some : c.player = p
  BY <1>1, Waiting DEF Escrows
<1>3. claims \in SUBSET Claim /\ IsFiniteSet(claims)
  BY DEF Records, TypeOK, Finite
<1>4. gets.coins = CoinsOf(some)
  OBVIOUS
<1> HIDE DEF some, gets
<1>5. some \in SUBSET claims /\ some \in SUBSET Claim /\ IsFiniteSet(some)
  BY <1>1, <1>3, FS_Subset
<1>6. CoinsOf(some) \in Nat
  BY <1>5, CoinsOfNat
<1>7. Purse(q)' = Purse(q) + (IF q = p THEN CoinsOf(some) ELSE 0)
  <2>1. Purse(q)' = Purse(q) + (IF q = p THEN gets.coins - request[p].escrow.coins ELSE 0)
    BY <1>1, <1>2, <1>4, <1>6, PurseAnswered
  <2>2. QED
    BY <2>1, <1>2, <1>4, <1>6
<1>8. Owing(q) = Owing(q)' + (IF q = p THEN CoinsOf(some) ELSE 0)
  <2>1. CoinsFor(claims, q) = CoinsFor(claims \ some, q) + (IF q = p THEN CoinsOf(some) ELSE 0)
    BY <1>2, <1>3, <1>5, CoinsWithout
  <2>2. QED
    BY <1>1, <2>1 DEF Owing
<1>9. Owing(q)' \in Nat
  <2>1. claims \ some \in SUBSET Claim /\ IsFiniteSet(claims \ some)
    BY <1>3, FS_Subset
  <2>2. CoinsFor(claims \ some, q) \in Nat
    BY <2>1, CoinsForNat
  <2>3. QED
    BY <1>1, <2>2 DEF Owing
<1>10. QED
  BY <1>1, <1>6, <1>7, <1>8, <1>9, SameListings, AccountFields DEF Account

LEMMA EndsAccount ==
  ASSUME Records, NEW l \in Listings, Ends(l), NEW q \in Players
  PROVE  Account(q)' = Account(q)
<1>1. PICK time \in {"ending", "ended"} : listing' = [listing EXCEPT ![l].time = time]
  BY DEF Ends
<1>2. Exists(l) /\ Open(l) /\ claims' = claims /\ coins' = coins /\ request' = request
  BY DEF Ends, Open
<1> DEFINE a == listing[l]
           b == [a EXCEPT !.time = time]
<1>3. a \in Listing
  BY <1>2, ListingOf
<1>4. /\ b.seller = a.seller /\ b.bid = a.bid /\ b.bidder = a.bidder /\ b.status = a.status
      /\ b.buyer = a.buyer /\ b \in Listing
  BY <1>3 DEF Listing
<1>5. listing'[l] = b /\ \A k \in Listings \ {l} : listing'[k] = listing[k]
  BY <1>1 DEF Records, TypeOK
<1> HIDE DEF b
<1>6. Exists(l)'
  BY <1>4, <1>5, NoneAssumption DEF Exists
<1>7. l \in Listed /\ l \in Listed' /\ a.status = "open" /\ b.status = "open"
  BY <1>2, <1>4, <1>6 DEF Listed, Open
<1>8. Records'
  BY EndsKeepsRecords
<1> HIDE DEF a
<1>9. /\ l \in LedBy(q) <=> a.bidder = q
      /\ l \notin BoughtBy(q) /\ l \notin SoldBy(q)
  BY <1>2, <1>7 DEF LedBy, BoughtBy, SoldBy, a
<1>10. /\ l \in LedBy(q)' <=> a.bidder = q
       /\ l \notin BoughtBy(q)' /\ l \notin SoldBy(q)'
  BY <1>4, <1>5, <1>6, <1>7 DEF LedBy, BoughtBy, SoldBy, Open
<1>11. /\ Lead(q) \in Int /\ Spent(q) \in Int /\ Income(q) \in Int
       /\ Lead(q)' = Lead(q) - (IF l \in LedBy(q) THEN a.bid ELSE 0)
                             + (IF l \in LedBy(q)' THEN b.bid ELSE 0)
       /\ Spent(q)' = Spent(q) - (IF l \in BoughtBy(q) THEN PaidFor(a) ELSE 0)
                               + (IF l \in BoughtBy(q)' THEN PaidFor(b) ELSE 0)
       /\ Income(q)' = Income(q) - (IF l \in SoldBy(q) THEN PaidFor(a) - a.saleFee ELSE 0)
                                 + (IF l \in SoldBy(q)' THEN PaidFor(b) - b.saleFee ELSE 0)
  BY <1>5, <1>8, OneListing DEF a
<1>12. a.bid \in Int
  BY <1>3, ListingFields
<1>13. Lead(q)' = Lead(q) /\ Spent(q)' = Spent(q) /\ Income(q)' = Income(q)
  BY <1>4, <1>9, <1>10, <1>11, <1>12
<1>14. Fees(q)' = Fees(q)
  BY <1>2, <1>4, <1>5, <1>6, SameFees DEF a
<1>15. Purse(q)' = Purse(q) /\ Owing(q)' = Owing(q)
  BY <1>2 DEF Purse, Kept, Owing
<1>16. QED
  BY <1>13, <1>14, <1>15 DEF Account


(* A settlement owes the seller its proceeds out of the highest bid, or    *)
(* nothing but goods.                                                      *)
LEMMA SettleAccount ==
  ASSUME Records, NEW d \in due, Settle(d), NEW q \in Players
  PROVE  Account(q)' = Account(q)
<1>1. Records'
  BY SettleKeepsRecords
<1>2. PICK l \in Listings, c \in Claim :
         /\ Open(l) /\ c.listing = l /\ c.coins = 0
         /\ UNCHANGED <<coins, request>>
         /\ \/ /\ listing[l].bidder = NoPlayer
               /\ listing' = Closed(l, "expired", NoPlayer)
               /\ c.reason = "unsold" /\ claims' = claims \cup {c}
            \/ \E sale \in Claim :
                  /\ listing[l].bidder \in Players /\ listing[l].mode = "auction"
                  /\ listing' = Closed(l, "sold", listing[l].bidder)
                  /\ c.reason = "won"
                  /\ sale.listing = l /\ sale.reason = "sale"
                  /\ sale.player = listing[l].seller
                  /\ sale.coins = listing[l].bid - listing[l].saleFee
                  /\ claims' = claims \cup {c, sale}
  BY Settles
<1> DEFINE a == listing[l]
<1>3. /\ a.bid \in Nat /\ a.saleFee \in Nat
  BY <1>2, ListingOf, ListingFields, Terms DEF Open
<1>4. Purse(q)' = Purse(q)
  BY <1>2 DEF Purse, Kept
<1>5. CASE /\ listing[l].bidder = NoPlayer
           /\ listing' = Closed(l, "expired", NoPlayer)
           /\ c.reason = "unsold" /\ claims' = claims \cup {c}
  <2>1. /\ Lead(q)' = Lead(q) - (IF a.bidder = q THEN a.bid ELSE 0)
        /\ Spent(q)' = Spent(q) + 0 /\ Income(q)' = Income(q) + 0 /\ Fees(q)' = Fees(q)
    BY <1>1, <1>2, <1>5, ClosedSums
  <2>2. Lead(q)' = Lead(q) - 0
    BY <1>5, <2>1, NoneAssumption
  <2>3. ~Claimed(c)
    BY <1>2, <1>5 DEF Claimed
  <2>4. Owing(q)' = Owing(q) + (IF c.player = q THEN c.coins ELSE 0)
    BY <1>5, <2>3, OwingWith
  <2>5. Owing(q)' = Owing(q) + 0
    BY <1>2, <2>4
  <2>6. QED
    BY <1>4, <2>1, <2>2, <2>5, AccountFields DEF Account
<1>6. ASSUME NEW sale \in Claim,
             /\ listing[l].bidder \in Players /\ listing[l].mode = "auction"
             /\ listing' = Closed(l, "sold", listing[l].bidder)
             /\ c.reason = "won"
             /\ sale.listing = l /\ sale.reason = "sale"
             /\ sale.player = listing[l].seller
             /\ sale.coins = listing[l].bid - listing[l].saleFee
             /\ claims' = claims \cup {c, sale}
      PROVE  Account(q)' = Account(q)
  <2>1. PaidFor(a) = a.bid
    BY <1>6 DEF PaidFor
  <2> DEFINE winner == a.bidder
  <2>2. winner \in Players \cup {NoPlayer} /\ listing' = Closed(l, "sold", winner)
    BY <1>6
  <2> HIDE DEF winner
  <2>3. /\ Lead(q)' = Lead(q) - (IF a.bidder = q THEN a.bid ELSE 0)
        /\ Spent(q)' = Spent(q) + (IF winner = q THEN PaidFor(a) ELSE 0)
        /\ Income(q)' = Income(q) + (IF a.seller = q THEN PaidFor(a) - a.saleFee ELSE 0)
        /\ Fees(q)' = Fees(q)
    BY <1>1, <1>2, <2>2, ClosedSums
  <2>4. winner = a.bidder
    BY DEF winner
  <2>5. ~Claimed(c) /\ ~Claimed(sale) /\ c # sale
    BY <1>2, <1>6 DEF Claimed
  <2>6. Owing(q)' = Owing(q) + (IF a.seller = q THEN a.bid - a.saleFee ELSE 0)
    <3> DEFINE more == claims \cup {c}
    <3>1. /\ claims \in SUBSET Claim /\ IsFiniteSet(claims) /\ c \notin claims
          /\ sale \notin claims
      BY <2>5 DEF Records, TypeOK, Finite, ClaimsKnown
    <3>2. more \in SUBSET Claim /\ IsFiniteSet(more) /\ sale \notin more
      BY <2>5, <3>1, FS_AddElement
    <3>3. CoinsFor(more, q) = CoinsFor(claims, q) + (IF c.player = q THEN c.coins ELSE 0)
      BY <3>1, CoinsWith
    <3>4. claims' = more \cup {sale}
      BY <1>6
    <3> HIDE DEF more
    <3>5. CoinsFor(more \cup {sale}, q)
            = CoinsFor(more, q) + (IF sale.player = q THEN sale.coins ELSE 0)
      BY <3>2, CoinsWith
    <3>6. CoinsFor(claims, q) \in Nat
      BY <3>1, CoinsForNat
    <3>7. CoinsFor(more, q) = CoinsFor(claims, q)
      BY <1>2, <3>3, <3>6
    <3>8. sale.player = a.seller /\ sale.coins = a.bid - a.saleFee
      BY <1>6
    <3>9. CoinsFor(claims', q) = CoinsFor(claims, q) + (IF a.seller = q THEN a.bid - a.saleFee ELSE 0)
      BY <3>4, <3>5, <3>7, <3>8
    <3>10. QED
      BY <3>9 DEF Owing
  <2> HIDE DEF a
  <2>7. QED
    BY <1>3, <1>4, <2>1, <2>3, <2>4, <2>6, AccountFields DEF Account
<1>7. QED
  BY <1>2, <1>5, <1>6

LEMMA AccountsStep ==
  ASSUME Records, [Next]_vars, NEW q \in Players
  PROVE  Account(q)' = Account(q)
<1>1. CASE UNCHANGED <<listing, claims, coins, request>>
  <2>1. Purse(q)' = Purse(q) /\ Owing(q)' = Owing(q)
    BY <1>1 DEF Purse, Kept, Owing
  <2>2. QED
    BY <1>1, <2>1, SameListings DEF Account
<1>2. ASSUME NEW p \in Players, Sends(p) \/ GiveBack(p) \/ ApplyMarketOp(p)
      PROVE  Account(q)' = Account(q)
  BY <1>2, SendAccount, GiveBackAccount, ReadTermsAccount, ListAccount, CancelAccount, BuyAccount,
     BidAccount, CollectAccount DEF ApplyMarketOp
<1>3. ASSUME NEW l \in Listings, Ends(l) \/ ReadDue(l)
      PROVE  Account(q)' = Account(q)
  BY <1>1, <1>3, EndsAccount DEF ReadDue
<1>4. ASSUME NEW d \in due, Settle(d)
      PROVE  Account(q)' = Account(q)
  BY <1>4, SettleAccount
<1>5. ASSUME NEW e \in Editors, Edits(e)
      PROVE  Account(q)' = Account(q)
  BY <1>1, <1>5 DEF Edits, BeginPut, WritePut, BeginDelete, WriteDelete, DropEdit
<1>6. QED
  BY <1>1, <1>2, <1>3, <1>4, <1>5 DEF Next, vars

LEMMA InitAccounted ==
  ASSUME Init
  PROVE  Accounted
<1>1. ASSUME NEW q \in Players
      PROVE  Account(q) = InitialCoins[q]
  <2>1. Listed = {} /\ claims = {} /\ request[q] = NoRequest /\ coins[q] = InitialCoins[q]
    BY <1>1 DEF Init, Listed, Exists
  <2>2. LedBy(q) = {} /\ BoughtBy(q) = {} /\ ListedBy(q) = {} /\ SoldBy(q) = {}
    BY <2>1 DEF LedBy, BoughtBy, ListedBy, SoldBy
  <2>3. Lead(q) = 0 /\ Spent(q) = 0 /\ Income(q) = 0
    BY <2>2, SumEmpty DEF Lead, Spent, Income
  <2>4. Fees(q) = ListingFee * 0
    BY <2>2, FS_EmptySet DEF Fees
  <2>5. Fees(q) = 0
    BY <2>4, Terms
  <2>6. Owing(q) = 0
    <3>1. {c \in claims : c.player = q} = {}
      BY <2>1
    <3>2. Owing(q) = CoinsOf({})
      BY <3>1 DEF Owing, CoinsFor
    <3>3. {} \in SUBSET Claim /\ IsFiniteSet({})
      BY FS_EmptySet
    <3>4. CoinsOf({}) = SumFunctionOnSet([c \in {} |-> c.coins], {})
      BY <3>3, CoinsOfNat
    <3>5. QED
      BY <3>2, <3>4, SumEmpty
  <2>7. Purse(q) = InitialCoins[q] + 0
    BY <2>1 DEF Purse, Kept
  <2>8. QED
    BY <1>1, <2>3, <2>5, <2>6, <2>7, GoodsAssumption DEF Account
<1>2. QED
  BY <1>1 DEF Accounted

LEMMA AlwaysAccounted == Spec => []Accounted
<1>1. Records /\ Accounted /\ [Next]_vars => Accounted'
  <2>1. ASSUME Records, Accounted, [Next]_vars
        PROVE  Accounted'
    <3>1. \A q \in Players : Account(q)' = Account(q)
      BY <2>1, AccountsStep
    <3>2. QED
      BY <2>1, <3>1 DEF Accounted
  <2>2. QED
    BY <2>1
<1>2. Init => Accounted
  BY InitAccounted
<1>3. QED
  BY <1>1, <1>2, AlwaysRecords, PTL DEF Spec

(* Nobody gains or loses a coin but by a listing fee, a price it paid or a *)
(* sale it made: whatever was outbid, refused, cut off, settled twice or   *)
(* collected late, a player has its first coins less its fees and its      *)
(* purchases, and what its sales earned.                                   *)
THEOREM AccountsAlwaysBalance == Spec => []AccountsBalance
<1>1. Records /\ Accounted => AccountsBalance
  BY AccountsAre
<1>2. QED
  BY <1>1, AlwaysRecords, AlwaysAccounted, PTL

=============================================================================
