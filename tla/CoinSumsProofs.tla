--------------------------- MODULE CoinSumsProofs ---------------------------
(* How a sum moves when the amounts do: what the proofs about balances,    *)
(* totals, payments and stock have in common.                              *)
EXTENDS CoinSums, FunctionTheorems, FiniteSetTheorems, TLAPS

\* A finite table of amounts.
IsTable(f) == /\ f = [x \in DOMAIN f |-> f[x]]
              /\ IsFiniteSet(DOMAIN f)
              /\ \A x \in DOMAIN f : f[x] \in Int

\* What x contributes to the sum of f.
Worth(f, x) == IF x \in DOMAIN f /\ f[x] > 0 THEN f[x] ELSE 0

\* f without x.
Less(f, x) == [y \in DOMAIN f \ {x} |-> f[y]]

\* n coins of x.
LEMMA CoinsOfOne ==
    ASSUME NEW x, NEW n \in Int
    PROVE  /\ IsFiniteSet({x} \X (1..n))
           /\ Cardinality({x} \X (1..n)) = IF n > 0 THEN n ELSE 0
<1>1. IsFiniteSet({x}) /\ Cardinality({x}) = 1
  BY FS_Singleton
<1>2. IsFiniteSet(1..n) /\ Cardinality(1..n) = IF 1 > n THEN 0 ELSE n - 1 + 1
  BY FS_Interval
<1>3. /\ IsFiniteSet({x} \X (1..n))
      /\ Cardinality({x} \X (1..n)) = Cardinality({x}) * Cardinality(1..n)
  BY <1>1, <1>2, FS_Product
<1> QED  BY <1>1, <1>2, <1>3

\* The coins of a table can be counted.
LEMMA CoinsAreFinite ==
    ASSUME NEW f, IsTable(f)
    PROVE  IsFiniteSet(CoinsOf(f)) /\ CoinSum(f) \in Nat
<1> DEFINE piles == { {x} \X (1..f[x]) : x \in DOMAIN f }
           pile == [x \in DOMAIN f |-> {x} \X (1..f[x])]
<1>1. pile \in Surjection(DOMAIN f, piles)
  BY DEF Surjection
<1>2. IsFiniteSet(piles)
  BY <1>1, FS_Surjection DEF IsTable
<1>3. \A P \in piles : IsFiniteSet(P)
  <2> SUFFICES ASSUME NEW y \in DOMAIN f PROVE IsFiniteSet({y} \X (1..f[y]))
    OBVIOUS
  <2>1. f[y] \in Int
    BY DEF IsTable
  <2> QED  BY <2>1, CoinsOfOne
<1>4. IsFiniteSet(UNION piles)
  BY <1>2, <1>3, FS_UNION
<1> QED  BY <1>4, FS_CardinalityType DEF CoinsOf, CoinSum

\* The coins of f are those of x and those of the others.
LEMMA CoinsWithout ==
    ASSUME NEW f, IsTable(f), NEW x
    PROVE  IsTable(Less(f, x)) /\ CoinSum(f) = CoinSum(Less(f, x)) + Worth(f, x)
<1> DEFINE g == Less(f, x)
<1>1. DOMAIN g = DOMAIN f \ {x} /\ \A y \in DOMAIN g : g[y] = f[y]
  BY DEF Less
<1>2. IsTable(g)
  <2>1. IsFiniteSet(DOMAIN f \ {x})
    BY FS_RemoveElement DEF IsTable
  <2>2. g = [y \in DOMAIN g |-> g[y]]
    BY DEF Less
  <2> QED  BY <1>1, <2>1, <2>2 DEF IsTable
<1> HIDE DEF g
<1>3. CASE x \notin DOMAIN f
  <2>1. g = f
    BY <1>1, <1>3, <1>2 DEF IsTable
  <2> QED  BY <1>2, <1>3, <2>1, CoinsAreFinite DEF g, Worth
<1>4. CASE x \in DOMAIN f
  <2> DEFINE own == {x} \X (1..f[x])
             rest == CoinsOf(g)
  <2>1. CoinsOf(f) = rest \cup own
    BY <1>1, <1>4 DEF CoinsOf
  <2>2. rest \cap own = {}
    BY <1>1 DEF CoinsOf
  <2>3. IsFiniteSet(rest) /\ Cardinality(rest) \in Nat
    BY <1>2, CoinsAreFinite DEF CoinSum
  <2>4. IsFiniteSet(own) /\ Cardinality(own) = Worth(f, x) /\ Cardinality(own) \in Nat
    <3>1. f[x] \in Int
      BY <1>4 DEF IsTable
    <3>2. IsFiniteSet(own) /\ Cardinality(own) = IF f[x] > 0 THEN f[x] ELSE 0
      BY <3>1, CoinsOfOne
    <3> QED  BY <1>4, <3>1, <3>2 DEF Worth
  <2> HIDE DEF own, rest
  <2>5. Cardinality(rest \cup own)
          = Cardinality(rest) + Cardinality(own) - Cardinality(rest \cap own)
    BY <2>3, <2>4, FS_Union
  <2>6. Cardinality(rest \cap own) = 0
    BY <2>2, FS_EmptySet
  <2>7. Cardinality(CoinsOf(f)) = Cardinality(rest) + Worth(f, x)
    BY <2>1, <2>3, <2>4, <2>5, <2>6
  <2> QED  BY <1>2, <2>7 DEF CoinSum, g, rest
<1> QED  BY <1>3, <1>4

\* Two tables that differ at x only have sums that differ by what x is worth.
LEMMA CoinStep ==
    ASSUME NEW f, NEW g, IsTable(f), IsTable(g), NEW x,
           DOMAIN g \ {x} = DOMAIN f \ {x},
           \A y \in DOMAIN f \ {x} : g[y] = f[y]
    PROVE  CoinSum(g) - Worth(g, x) = CoinSum(f) - Worth(f, x)
<1>1. Less(g, x) = Less(f, x)
  BY DEF Less
<1>2. CoinSum(f) = CoinSum(Less(f, x)) + Worth(f, x)
  BY CoinsWithout
<1>3. CoinSum(g) = CoinSum(Less(g, x)) + Worth(g, x)
  BY CoinsWithout
<1>4. Worth(f, x) \in Int /\ Worth(g, x) \in Int
  BY DEF Worth, IsTable
<1>5. CoinSum(Less(f, x)) \in Nat
  BY CoinsWithout, CoinsAreFinite
<1> QED  BY <1>1, <1>2, <1>3, <1>4, <1>5

\* And two that differ at x and y.
LEMMA CoinStepTwo ==
    ASSUME NEW f, NEW g, IsTable(f), IsTable(g), NEW x, NEW y, x # y,
           DOMAIN g \ {x, y} = DOMAIN f \ {x, y},
           \A z \in DOMAIN f \ {x, y} : g[z] = f[z]
    PROVE  CoinSum(g) - Worth(g, x) - Worth(g, y)
             = CoinSum(f) - Worth(f, x) - Worth(f, y)
<1>1. /\ CoinSum(f) = CoinSum(Less(f, x)) + Worth(f, x)
      /\ CoinSum(g) = CoinSum(Less(g, x)) + Worth(g, x)
      /\ IsTable(Less(f, x)) /\ IsTable(Less(g, x))
  BY CoinsWithout
<1>2. DOMAIN Less(f, x) = DOMAIN f \ {x} /\ DOMAIN Less(g, x) = DOMAIN g \ {x}
  BY DEF Less
<1>3. /\ \A z \in DOMAIN f \ {x} : Less(f, x)[z] = f[z]
      /\ \A z \in DOMAIN g \ {x} : Less(g, x)[z] = g[z]
  BY DEF Less
<1>4. CoinSum(Less(g, x)) - Worth(Less(g, x), y)
        = CoinSum(Less(f, x)) - Worth(Less(f, x), y)
  <2>1. DOMAIN Less(g, x) \ {y} = DOMAIN Less(f, x) \ {y}
    BY <1>2
  <2>2. \A z \in DOMAIN Less(f, x) \ {y} : Less(g, x)[z] = Less(f, x)[z]
    BY <1>2, <1>3
  <2> QED  BY <1>1, <2>1, <2>2, CoinStep
<1>5. Worth(Less(g, x), y) = Worth(g, y) /\ Worth(Less(f, x), y) = Worth(f, y)
  BY <1>2, <1>3 DEF Worth
<1>6. /\ Worth(f, x) \in Int /\ Worth(g, x) \in Int
      /\ Worth(f, y) \in Int /\ Worth(g, y) \in Int
  BY DEF Worth, IsTable
<1>7. CoinSum(Less(f, x)) \in Nat /\ CoinSum(Less(g, x)) \in Nat
  BY <1>1, CoinsAreFinite
<1> QED  BY <1>1, <1>4, <1>5, <1>6, <1>7

\* Nothing adds up to nothing.
LEMMA NoCoins ==
    ASSUME NEW f, IsTable(f), \A x \in DOMAIN f : f[x] <= 0
    PROVE  CoinSum(f) = 0
<1>1. \A x \in DOMAIN f : {x} \X (1..f[x]) = {}
  BY DEF IsTable
<1>2. CoinsOf(f) = {}
  BY <1>1 DEF CoinsOf
<1> QED  BY <1>2, FS_EmptySet DEF CoinSum

\* What f lacks: its amounts, with the other sign.
Lacking(f) == [x \in DOMAIN f |-> -f[x]]

\* What x contributes to the signed sum of f.
NetWorth(f, x) == IF x \in DOMAIN f THEN f[x] ELSE 0

\* The two parts of a signed sum.
LEMMA NetParts ==
    ASSUME NEW f, IsTable(f)
    PROVE  /\ IsTable(Lacking(f)) /\ DOMAIN Lacking(f) = DOMAIN f
           /\ CoinSum(f) \in Nat /\ CoinSum(Lacking(f)) \in Nat
           /\ NetSum(f) = CoinSum(f) - CoinSum(Lacking(f)) /\ NetSum(f) \in Int
           /\ \A x : /\ NetWorth(f, x) = Worth(f, x) - Worth(Lacking(f), x)
                     /\ Worth(f, x) \in Int /\ Worth(Lacking(f), x) \in Int
<1>1. IsTable(Lacking(f)) /\ DOMAIN Lacking(f) = DOMAIN f
  BY DEF Lacking, IsTable
<1>2. CoinSum(f) \in Nat /\ CoinSum(Lacking(f)) \in Nat
  BY <1>1, CoinsAreFinite
<1>3. NetSum(f) = CoinSum(f) - CoinSum(Lacking(f))
  BY DEF NetSum, Lacking
<1>4. ASSUME NEW x
      PROVE  /\ NetWorth(f, x) = Worth(f, x) - Worth(Lacking(f), x)
             /\ Worth(f, x) \in Int /\ Worth(Lacking(f), x) \in Int
  <2>1. CASE x \in DOMAIN f
    <3>1. f[x] \in Int /\ Lacking(f)[x] = -f[x] /\ x \in DOMAIN Lacking(f)
      BY <2>1 DEF Lacking, IsTable
    <3> QED  BY <2>1, <3>1 DEF NetWorth, Worth
  <2>2. CASE x \notin DOMAIN f
    BY <1>1, <2>2 DEF NetWorth, Worth
  <2> QED  BY <2>1, <2>2
<1> QED  BY <1>1, <1>2, <1>3, <1>4

\* Two tables that differ at x only have signed sums that differ by what x has.
LEMMA NetStep ==
    ASSUME NEW f, NEW g, IsTable(f), IsTable(g), NEW x,
           DOMAIN g \ {x} = DOMAIN f \ {x},
           \A y \in DOMAIN f \ {x} : g[y] = f[y]
    PROVE  NetSum(g) - NetWorth(g, x) = NetSum(f) - NetWorth(f, x)
<1>1. \A y \in DOMAIN Lacking(f) \ {x} : Lacking(g)[y] = Lacking(f)[y]
  BY DEF Lacking
<1>2. CoinSum(g) - Worth(g, x) = CoinSum(f) - Worth(f, x)
  BY CoinStep
<1>3. /\ IsTable(Lacking(f)) /\ IsTable(Lacking(g))
      /\ DOMAIN Lacking(g) \ {x} = DOMAIN Lacking(f) \ {x}
  BY NetParts
<1>4. CoinSum(Lacking(g)) - Worth(Lacking(g), x) = CoinSum(Lacking(f)) - Worth(Lacking(f), x)
  BY <1>1, <1>3, CoinStep
<1>5. /\ CoinSum(f) \in Nat /\ CoinSum(Lacking(f)) \in Nat
      /\ NetSum(f) = CoinSum(f) - CoinSum(Lacking(f))
      /\ NetWorth(f, x) = Worth(f, x) - Worth(Lacking(f), x)
      /\ Worth(f, x) \in Int /\ Worth(Lacking(f), x) \in Int
  BY NetParts
<1>6. /\ CoinSum(g) \in Nat /\ CoinSum(Lacking(g)) \in Nat
      /\ NetSum(g) = CoinSum(g) - CoinSum(Lacking(g))
      /\ NetWorth(g, x) = Worth(g, x) - Worth(Lacking(g), x)
      /\ Worth(g, x) \in Int /\ Worth(Lacking(g), x) \in Int
  BY NetParts
<1> QED  BY <1>2, <1>4, <1>5, <1>6

\* A table that has no less of anything comes to no less.
LEMMA CoinsGrow ==
    ASSUME NEW f, NEW g, IsTable(f), IsTable(g), DOMAIN f \subseteq DOMAIN g,
           \A x \in DOMAIN f : f[x] <= g[x]
    PROVE  CoinSum(f) <= CoinSum(g)
<1>1. ASSUME NEW x \in DOMAIN f PROVE 1..f[x] \subseteq 1..g[x]
  BY DEF IsTable
<1>2. CoinsOf(f) \subseteq CoinsOf(g)
  BY <1>1 DEF CoinsOf
<1>3. IsFiniteSet(CoinsOf(g))
  BY CoinsAreFinite
<1> QED  BY <1>2, <1>3, FS_Subset DEF CoinSum

\* n of each of S.
LEMMA CoinsOfEach ==
    ASSUME NEW S, IsFiniteSet(S), NEW n \in Nat
    PROVE  /\ IsTable([x \in S |-> n])
           /\ CoinSum([x \in S |-> n]) = Cardinality(S) * n
<1>1. CoinsOf([x \in S |-> n]) = S \X (1..n)
  BY DEF CoinsOf
<1>2. IsFiniteSet(1..n) /\ Cardinality(1..n) = n
  <2>1. Cardinality(1..n) = IF 1 > n THEN 0 ELSE n - 1 + 1
    BY FS_Interval
  <2> QED  BY <2>1, FS_Interval
<1>3. Cardinality(S \X (1..n)) = Cardinality(S) * n
  BY <1>2, FS_Product
<1>4. IsTable([x \in S |-> n])
  BY DEF IsTable
<1> QED  BY <1>1, <1>3, <1>4 DEF CoinSum

\* A sum is between as many times the least and as many times the greatest.
LEMMA CoinsBetween ==
    ASSUME NEW f, IsTable(f), NEW lo \in Nat, NEW hi \in Nat,
           \A x \in DOMAIN f : lo <= f[x] /\ f[x] <= hi
    PROVE  /\ lo * Cardinality(DOMAIN f) <= CoinSum(f)
           /\ CoinSum(f) <= hi * Cardinality(DOMAIN f)
<1> DEFINE S == DOMAIN f
           each(n) == [x \in S |-> n]
<1>1. IsFiniteSet(S) /\ Cardinality(S) \in Nat
  BY FS_CardinalityType DEF IsTable
<1>2. ASSUME NEW n \in Nat PROVE IsTable(each(n)) /\ CoinSum(each(n)) = Cardinality(S) * n
  BY <1>1, CoinsOfEach
<1>3. CoinSum(each(lo)) <= CoinSum(f)
  <2>1. IsTable(each(lo)) /\ DOMAIN each(lo) = S /\ \A x \in S : each(lo)[x] <= f[x]
    BY <1>2
  <2> HIDE DEF each
  <2> QED  BY <2>1, CoinsGrow
<1>4. CoinSum(f) <= CoinSum(each(hi))
  <2>1. IsTable(each(hi)) /\ DOMAIN each(hi) = S /\ \A x \in S : f[x] <= each(hi)[x]
    BY <1>2
  <2> HIDE DEF each
  <2> QED  BY <2>1, CoinsGrow
<1> HIDE DEF each
<1> QED  BY <1>1, <1>2, <1>3, <1>4

\* What f has of those that key sends to k.
Part(f, key, k) == [x \in { y \in DOMAIN f : key[y] = k } |-> f[x]]

\* The sums of the parts that a key splits a table into come to the whole: the i-th coin of k
\* stands for the i-th coin of the part of k.
LEMMA CoinsOfParts ==
    ASSUME NEW f, IsTable(f), NEW key, NEW K, IsFiniteSet(K),
           \A x \in DOMAIN f : key[x] \in K
    PROVE  /\ IsTable([k \in K |-> CoinSum(Part(f, key, k))])
           /\ CoinSum([k \in K |-> CoinSum(Part(f, key, k))]) = CoinSum(f)
<1> DEFINE g == [k \in K |-> CoinSum(Part(f, key, k))]
<1>1. ASSUME NEW k \in K
      PROVE  /\ IsFiniteSet(CoinsOf(Part(f, key, k))) /\ g[k] \in Nat
             /\ Bijection(1..g[k], CoinsOf(Part(f, key, k))) # {}
  <2>1. IsTable(Part(f, key, k))
    <3>1. IsFiniteSet({ y \in DOMAIN f : key[y] = k })
      BY FS_Subset DEF IsTable
    <3> QED  BY <3>1 DEF IsTable, Part
  <2>2. IsFiniteSet(CoinsOf(Part(f, key, k))) /\ CoinSum(Part(f, key, k)) \in Nat
    BY <2>1, CoinsAreFinite
  <2>3. ExistsBijection(1..Cardinality(CoinsOf(Part(f, key, k))), CoinsOf(Part(f, key, k)))
    BY <2>2, FS_CardinalityType
  <2> QED  BY <2>2, <2>3 DEF ExistsBijection, CoinSum
<1>2. IsTable(g) /\ DOMAIN g = K
  BY <1>1 DEF IsTable
<1> HIDE DEF g
<1> DEFINE nth == [k \in K |-> CHOOSE b : b \in Bijection(1..g[k], CoinsOf(Part(f, key, k)))]
           coin == [c \in CoinsOf(g) |-> nth[c[1]][c[2]]]
<1>3. ASSUME NEW k \in K
      PROVE  /\ nth[k] \in [1..g[k] -> CoinsOf(Part(f, key, k))]
             /\ \A i, j \in 1..g[k] : nth[k][i] = nth[k][j] => i = j
             /\ \A c \in CoinsOf(Part(f, key, k)) : \E i \in 1..g[k] : nth[k][i] = c
  <2>1. nth[k] \in Bijection(1..g[k], CoinsOf(Part(f, key, k)))
    BY <1>1
  <2> HIDE DEF nth
  <2> QED  BY <2>1 DEF Bijection, Injection, Surjection, IsInjective
<1> HIDE DEF nth
<1>4. \A c : c \in CoinsOf(g) <=> \E k \in K : \E i \in 1..g[k] : c = <<k, i>>
  BY <1>2 DEF CoinsOf
<1>5. \A k \in K : \A c : c \in CoinsOf(Part(f, key, k))
          <=> c \in CoinsOf(f) /\ key[c[1]] = k
  <2> SUFFICES ASSUME NEW k \in K, NEW c
               PROVE  c \in CoinsOf(Part(f, key, k)) <=> c \in CoinsOf(f) /\ key[c[1]] = k
    OBVIOUS
  <2> DEFINE p == Part(f, key, k)
  <2>1. DOMAIN p = { y \in DOMAIN f : key[y] = k } /\ \A x \in DOMAIN p : p[x] = f[x]
    BY DEF Part
  <2> HIDE DEF p
  <2>2. c \in CoinsOf(p) <=> \E x \in DOMAIN p : c \in {x} \X (1..f[x])
    BY <2>1 DEF CoinsOf
  <2>3. c \in CoinsOf(f) <=> \E x \in DOMAIN f : c \in {x} \X (1..f[x])
    BY DEF CoinsOf
  <2>4. \A x : c \in {x} \X (1..f[x]) => c[1] = x
    OBVIOUS
  <2>5. c \in CoinsOf(p) <=> c \in CoinsOf(f) /\ key[c[1]] = k
    BY <2>1, <2>2, <2>3, <2>4
  <2> QED  BY <2>5 DEF p
<1>6. \A c \in CoinsOf(f) : key[c[1]] \in K
  BY DEF CoinsOf
<1>7. ASSUME NEW k \in K, NEW i \in 1..g[k]
      PROVE  /\ coin[<<k, i>>] = nth[k][i]
             /\ coin[<<k, i>>] \in CoinsOf(f) /\ key[coin[<<k, i>>][1]] = k
  <2>1. <<k, i>> \in CoinsOf(g)
    BY <1>4
  <2>2. coin[<<k, i>>] = nth[k][i]
    BY <2>1
  <2>3. nth[k][i] \in CoinsOf(Part(f, key, k))
    BY <1>3
  <2> QED  BY <1>5, <2>2, <2>3
<1>8. coin = [c \in CoinsOf(g) |-> coin[c]]
  OBVIOUS
<1> HIDE DEF coin
<1>9. coin \in [CoinsOf(g) -> CoinsOf(f)]
  <2>1. \A c \in CoinsOf(g) : coin[c] \in CoinsOf(f)
    BY <1>4, <1>7
  <2> QED  BY <1>8, <2>1
<1>10. ASSUME NEW c \in CoinsOf(g), NEW e \in CoinsOf(g), coin[c] = coin[e] PROVE c = e
  <2>k. PICK k \in K : \E i \in 1..g[k] : c = <<k, i>>
    BY <1>4
  <2>1. PICK i \in 1..g[k] : c = <<k, i>>
    BY <2>k
  <2>l. PICK l \in K : \E j \in 1..g[l] : e = <<l, j>>
    BY <1>4
  <2>2. PICK j \in 1..g[l] : e = <<l, j>>
    BY <2>l
  <2>3. k = l
    BY <1>7, <1>10, <2>1, <2>2
  <2>4. nth[k][i] = nth[k][j]
    BY <1>7, <1>10, <2>1, <2>2, <2>3
  <2>5. i = j
    BY <1>3, <2>3, <2>4
  <2> QED  BY <2>1, <2>2, <2>3, <2>5
<1>11. ASSUME NEW c \in CoinsOf(f) PROVE \E e \in CoinsOf(g) : coin[e] = c
  <2>1. PICK k \in K : k = key[c[1]]
    BY <1>6
  <2>2. PICK i \in 1..g[k] : nth[k][i] = c
    BY <1>3, <1>5, <2>1
  <2>3. coin[<<k, i>>] = c
    BY <1>7, <2>2
  <2>4. <<k, i>> \in CoinsOf(g)
    BY <1>4
  <2> QED  BY <2>3, <2>4
<1>12. coin \in Bijection(CoinsOf(g), CoinsOf(f))
  BY <1>9, <1>10, <1>11, Fun_IsBij
<1>13. Cardinality(CoinsOf(f)) = Cardinality(CoinsOf(g))
  BY <1>2, <1>12, CoinsAreFinite, FS_Bijection DEF ExistsBijection
<1>14. CoinSum(g) = CoinSum(f)
  BY <1>13 DEF CoinSum
<1> QED  BY <1>2, <1>14 DEF g
=============================================================================
