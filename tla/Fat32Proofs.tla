----------------------------- MODULE Fat32Proofs -----------------------------
(***************************************************************************)
(* Proofs about Fat32, for any volume, cluster size and bounds.            *)
(***************************************************************************)
EXTENDS Fat32, FiniteSetTheorems, NaturalsInduction, WellFoundedInduction, TLAPS

-----------------------------------------------------------------------------
(* Sizes and clusters *)

\* A nonempty set of numbers has a least one: what replaces an induction below.
LEMMA LeastOf ==
  ASSUME NEW S \in SUBSET Nat, S # {}
  PROVE  \E x \in S : \A y \in S : x <= y
<1>. DEFINE R == {ss \in Nat \X Nat : ss[1] < ss[2]}
<1>1. IsWellFoundedOn(R, Nat)
  BY NatLessThanWellFounded DEF OpToRel
<1>2. PICK x \in S : \A y \in S : ~ (<<y, x>> \in R)
  <2>. HIDE DEF R
  <2>. QED
    BY <1>1, WFMin
<1>3. ASSUME NEW y \in S
      PROVE  x <= y
  <2>1. <<y, x>> \in Nat \X Nat /\ <<y, x>>[1] = y /\ <<y, x>>[2] = x
    OBVIOUS
  <2>2. ~ (y < x)
    BY <1>2, <2>1
  <2>. QED
    BY <2>2
<1>. QED
  BY <1>3

\* The clusters that n bytes need: the least number that holds them.
LEMMA CeilFacts ==
  ASSUME NEW n \in Nat, NEW u \in Nat \ {0}
  PROVE  /\ Ceil(n, u) \in Nat
         /\ n <= Ceil(n, u) * u
         /\ n > 0 => Ceil(n, u) > 0
         /\ \A k \in Nat : n <= k * u => Ceil(n, u) <= k
<1>1. PICK x \in Nat : x = n + u - 1
  OBVIOUS
<1>2. PICK d : d = x \div u
  OBVIOUS
<1>3. d \in Nat /\ d * u <= x /\ x < (d + 1) * u
  BY <1>1, <1>2
<1>4. Ceil(n, u) = d
  BY <1>1, <1>2 DEF Ceil
<1>5. (d + 1) * u = d * u + u
  BY <1>3
<1>6. n <= d * u
  BY <1>1, <1>3, <1>5
<1>7. n > 0 => d > 0
  BY <1>3, <1>6
<1>8. ASSUME NEW k \in Nat, n <= k * u PROVE d <= k
  <2>1. SUFFICES ASSUME k + 1 <= d PROVE FALSE
    BY <1>3
  <2>2. (k + 1) * u <= d * u
    BY <1>3, <2>1
  <2>3. (k + 1) * u = k * u + u
    OBVIOUS
  <2>. QED
    BY <1>1, <1>3, <1>8, <2>2, <2>3
<1>. QED
  BY <1>3, <1>4, <1>6, <1>7, <1>8

LEMMA CeilBound ==
  ASSUME NEW n \in Nat \ {0}, NEW u \in Nat \ {0}, NEW k \in Nat, n <= k * u
  PROVE  Ceil(n, u) \in Nat \ {0} /\ Ceil(n, u) <= k
<1>1. n \in Nat /\ n > 0
  OBVIOUS
<1>2. /\ Ceil(n, u) \in Nat /\ Ceil(n, u) > 0
      /\ \A j \in Nat : n <= j * u => Ceil(n, u) <= j
  <2>1. /\ Ceil(n, u) \in Nat
        /\ n > 0 => Ceil(n, u) > 0
        /\ \A j \in Nat : n <= j * u => Ceil(n, u) <= j
    BY <1>1, CeilFacts, Zenon
  <2>. QED
    BY <1>1, <2>1, Zenon
<1>3. Ceil(n, u) <= k
  BY <1>2, Zenon
<1>. QED
  BY <1>2, <1>3

LEMMA CeilMonotone ==
  ASSUME NEW n \in Nat, NEW m \in Nat, n <= m, NEW u \in Nat \ {0}
  PROVE  Ceil(n, u) <= Ceil(m, u)
<1>1. Ceil(m, u) \in Nat /\ m <= Ceil(m, u) * u
  BY CeilFacts
<1>2. PICK k \in Nat : k = Ceil(m, u) /\ m <= k * u
  BY <1>1
<1>3. n <= k * u
  <2>1. k * u \in Nat
    OBVIOUS
  <2>. QED
    BY <1>2, <2>1
<1>4. Ceil(n, u) <= k
  BY <1>3, CeilFacts
<1>. QED
  BY <1>2, <1>4

-----------------------------------------------------------------------------
(* Chains of a table *)

\* The entries' first clusters.
Firsts == [f \in Files |-> sde[f].first]
FirstFcn == [Files -> {0} \cup Clusters]

\* ChainsApart for a table t and first clusters b.
Apart(t, b) ==
  /\ \A f, g \in Files : b[f] # 0 /\ b[f] = b[g] => f = g
  /\ \A c, d \in Clusters : t[c] \in Clusters /\ t[c] = t[d] => c = d
  /\ \A f \in Files, c \in Clusters : t[c] \in Clusters => t[c] # b[f]
  /\ \A f \in Files : b[f] # 0 => t[b[f]] # FREE_CLUSTER
  /\ \A c \in Clusters : t[c] \in Clusters => t[t[c]] # FREE_CLUSTER

ChainOf(t, c, q) == q \in Seq(Clusters) /\ IsChain(t, c, q)

LEMMA Numbers ==
  /\ FREE_CLUSTER \notin Clusters /\ END_OF_CLUSTER \notin Clusters
  /\ FREE_CLUSTER # END_OF_CLUSTER /\ FREE_CLUSTER = 0 /\ 0 \notin Clusters
  /\ RootCluster \in Clusters /\ Clusters \subseteq Nat /\ Root \in Files /\ Root \notin Slots
  /\ Slots \subseteq Nat \ {0} /\ Slots \subseteq Files /\ Files \ {Root} = Slots
BY Fat32Assumption DEF FREE_CLUSTER, END_OF_CLUSTER, Clusters, RootCluster, Files, Root, Slots

LEMMA SameApart == ChainsApart <=> Apart(fat, Firsts)
<1>1. \A f \in Files : Firsts[f] = sde[f].first
  BY DEF Firsts
<1>. QED
  BY <1>1 DEF ChainsApart, Apart

\* What a chain is, cluster by cluster.
LEMMA ChainLinks ==
  ASSUME NEW t, NEW c, NEW q, ChainOf(t, c, q)
  PROVE  /\ Len(q) \in Nat \ {0} /\ q[1] = c
         /\ \A i \in 1 .. Len(q) : /\ q[i] \in Clusters
                                   /\ t[q[i]] # FREE_CLUSTER
                                   /\ i < Len(q) => t[q[i]] = q[i + 1] /\ i + 1 \in 1 .. Len(q)
                                   /\ i = Len(q) => t[q[i]] = END_OF_CLUSTER
<1>1. q \in Seq(Clusters) /\ Len(q) \in Nat \ {0} /\ q[1] = c
  BY DEF ChainOf, IsChain
<1>2. ASSUME NEW i \in 1 .. Len(q)
      PROVE  /\ q[i] \in Clusters
             /\ i < Len(q) => t[q[i]] = q[i + 1] /\ i + 1 \in 1 .. Len(q)
             /\ i = Len(q) => t[q[i]] = END_OF_CLUSTER
  <2>1. q[i] \in Clusters
    BY <1>1
  <2>2. ASSUME i < Len(q) PROVE t[q[i]] = q[i + 1] /\ i + 1 \in 1 .. Len(q)
    <3>1. i \in 1 .. (Len(q) - 1) /\ i + 1 \in 1 .. Len(q)
      BY <1>1, <2>2
    <3>. QED
      BY <3>1 DEF ChainOf, IsChain
  <2>3. ASSUME i = Len(q) PROVE t[q[i]] = END_OF_CLUSTER
    BY <2>3 DEF ChainOf, IsChain, Last
  <2>. QED
    BY <2>1, <2>2, <2>3
<1>3. ASSUME NEW i \in 1 .. Len(q) PROVE t[q[i]] # FREE_CLUSTER
  <2>1. i < Len(q) \/ i = Len(q)
    BY <1>1
  <2>2. \A j \in 1 .. Len(q) : q[j] \in Clusters
    BY <1>2
  <2>. QED
    BY <1>2, <2>1, <2>2, Numbers
<1>. QED
  BY <1>1, <1>2, <1>3

\* The other direction.
LEMMA LinksChain ==
  ASSUME NEW t, NEW c, NEW q \in Seq(Clusters), Len(q) # 0, q[1] = c,
         \A i \in 1 .. (Len(q) - 1) : t[q[i]] = q[i + 1], t[q[Len(q)]] = END_OF_CLUSTER
  PROVE  ChainOf(t, c, q)
<1>1. Len(q) > 0
  OBVIOUS
<1>. QED
  BY <1>1 DEF ChainOf, IsChain, Last

\* Two chains that share a cluster are chains of the same entry, and share it at the same
\* place; so a chain holds no cluster twice.
LEMMA ChainsMeet ==
  ASSUME NEW t \in [Clusters -> Link], NEW b \in FirstFcn, Apart(t, b),
         NEW f \in Files, NEW g \in Files, b[f] # 0, b[g] # 0,
         NEW q, NEW r, ChainOf(t, b[f], q), ChainOf(t, b[g], r),
         NEW i \in 1 .. Len(q), NEW j \in 1 .. Len(r), q[i] = r[j]
  PROVE  f = g /\ i = j
<1>. DEFINE bad == {m \in 1 .. Len(q) : \E n \in 1 .. Len(r) : q[m] = r[n] /\ ~ (f = g /\ m = n)}
<1>1. SUFFICES ASSUME bad # {} PROVE FALSE
  OBVIOUS
<1>2. /\ Len(q) \in Nat \ {0} /\ q[1] = b[f]
      /\ \A m \in 1 .. Len(q) : /\ q[m] \in Clusters
                                /\ m < Len(q) => t[q[m]] = q[m + 1] /\ m + 1 \in 1 .. Len(q)
  BY ChainLinks
<1>3. /\ Len(r) \in Nat \ {0} /\ r[1] = b[g]
      /\ \A m \in 1 .. Len(r) : /\ r[m] \in Clusters
                                /\ m < Len(r) => t[r[m]] = r[m + 1] /\ m + 1 \in 1 .. Len(r)
  BY ChainLinks
<1>4. bad \in SUBSET Nat
  BY <1>2
<1>5. PICK m \in bad : \A y \in bad : m <= y
  <2>. HIDE DEF bad
  <2>. QED
    BY <1>1, <1>4, LeastOf
<1>6. PICK n \in 1 .. Len(r) : q[m] = r[n] /\ ~ (f = g /\ m = n)
  BY <1>5
<1>7. m \in 1 .. Len(q)
  BY <1>5
<1>8. CASE m = 1 /\ n = 1
  BY <1>2, <1>3, <1>6, <1>8 DEF Apart
<1>9. CASE m = 1 /\ n # 1
  <2>1. n - 1 \in 1 .. Len(r) /\ n - 1 < Len(r) /\ (n - 1) + 1 = n
    BY <1>3, <1>9
  <2>2. t[r[n - 1]] = r[n] /\ r[n - 1] \in Clusters /\ r[n] \in Clusters
    BY <1>3, <2>1
  <2>. QED
    BY <1>2, <1>6, <1>9, <2>2 DEF Apart
<1>10. CASE m # 1 /\ n = 1
  <2>1. m - 1 \in 1 .. Len(q) /\ m - 1 < Len(q) /\ (m - 1) + 1 = m
    BY <1>2, <1>7, <1>10
  <2>2. t[q[m - 1]] = q[m] /\ q[m - 1] \in Clusters /\ q[m] \in Clusters
    BY <1>2, <1>7, <2>1
  <2>. QED
    BY <1>3, <1>6, <1>10, <2>2 DEF Apart
<1>11. CASE m # 1 /\ n # 1
  <2>1. m - 1 \in 1 .. Len(q) /\ m - 1 < Len(q) /\ (m - 1) + 1 = m /\ ~ (m <= m - 1)
    BY <1>2, <1>7, <1>11
  <2>2. n - 1 \in 1 .. Len(r) /\ n - 1 < Len(r) /\ (n - 1) + 1 = n
    BY <1>3, <1>11
  <2>3. t[q[m - 1]] = q[m] /\ q[m - 1] \in Clusters /\ q[m] \in Clusters
    BY <1>2, <1>7, <2>1
  <2>4. t[r[n - 1]] = r[n] /\ r[n - 1] \in Clusters
    BY <1>3, <2>2
  <2>5. q[m - 1] = r[n - 1]
    BY <1>6, <2>3, <2>4 DEF Apart
  <2>6. ~ (f = g /\ m - 1 = n - 1)
    BY <1>6, <1>7
  <2>7. m - 1 \in bad
    BY <2>1, <2>2, <2>5, <2>6
  <2>. HIDE DEF bad
  <2>. QED
    BY <1>5, <2>1, <2>7
<1>. QED
  BY <1>8, <1>9, <1>10, <1>11

\* A table has one chain from a cluster.
LEMMA OneChain ==
  ASSUME NEW t, NEW c, NEW q, NEW r, ChainOf(t, c, q), ChainOf(t, c, r)
  PROVE  q = r
<1>1. /\ Len(q) \in Nat \ {0} /\ q[1] = c
      /\ \A m \in 1 .. Len(q) : /\ q[m] \in Clusters
                                /\ m < Len(q) => t[q[m]] = q[m + 1] /\ m + 1 \in 1 .. Len(q)
                                /\ m = Len(q) => t[q[m]] = END_OF_CLUSTER
  BY ChainLinks
<1>2. /\ Len(r) \in Nat \ {0} /\ r[1] = c
      /\ \A m \in 1 .. Len(r) : /\ r[m] \in Clusters
                                /\ m < Len(r) => t[r[m]] = r[m + 1] /\ m + 1 \in 1 .. Len(r)
                                /\ m = Len(r) => t[r[m]] = END_OF_CLUSTER
  BY ChainLinks
<1>. DEFINE bad == {m \in 1 .. Len(q) : ~ (m \in 1 .. Len(r) /\ q[m] = r[m])}
<1>3. bad = {}
  <2>1. SUFFICES ASSUME bad # {} PROVE FALSE
    OBVIOUS
  <2>2. bad \in SUBSET Nat
    BY <1>1
  <2>3. PICK m \in bad : \A y \in bad : m <= y
    <3>. HIDE DEF bad
    <3>. QED
      BY <2>1, <2>2, LeastOf
  <2>4. m \in 1 .. Len(q) /\ ~ (m \in 1 .. Len(r) /\ q[m] = r[m])
    BY <2>3
  <2>5. m # 1
    <3>1. 1 \in 1 .. Len(r)
      BY <1>2
    <3>. QED
      BY <1>1, <1>2, <2>4, <3>1
  <2>6. m - 1 \in 1 .. Len(q) /\ m - 1 < Len(q) /\ (m - 1) + 1 = m /\ ~ (m <= m - 1)
    BY <1>1, <2>4, <2>5
  <2>7. m - 1 \notin bad
    <3>. HIDE DEF bad
    <3>. QED
      BY <2>3, <2>6
  <2>8. m - 1 \in 1 .. Len(r) /\ q[m - 1] = r[m - 1]
    BY <2>6, <2>7
  <2>9. t[q[m - 1]] = q[m] /\ q[m] \in Clusters
    BY <1>1, <2>4, <2>6
  <2>10. CASE m - 1 = Len(r)
    <3>1. t[r[m - 1]] = END_OF_CLUSTER
      BY <1>2, <2>8, <2>10
    <3>. QED
      BY <2>8, <2>9, <3>1, Numbers
  <2>11. CASE m - 1 < Len(r)
    <3>1. t[r[m - 1]] = r[m] /\ m \in 1 .. Len(r)
      BY <1>2, <2>6, <2>8, <2>11
    <3>. QED
      BY <2>4, <2>8, <2>9, <3>1
  <2>. QED
    BY <1>2, <2>8, <2>10, <2>11
<1>4. \A m \in 1 .. Len(q) : m \in 1 .. Len(r) /\ q[m] = r[m]
  BY <1>3
<1>5. Len(q) \in 1 .. Len(q) /\ Len(q) \in 1 .. Len(r)
  BY <1>1, <1>4
<1>6. Len(q) = Len(r)
  <2>1. SUFFICES ASSUME Len(q) < Len(r) PROVE FALSE
    BY <1>1, <1>2, <1>5
  <2>2. t[r[Len(q)]] = r[Len(q) + 1] /\ r[Len(q) + 1] \in Clusters
    BY <1>2, <1>5, <2>1
  <2>3. t[q[Len(q)]] = END_OF_CLUSTER
    BY <1>1, <1>5
  <2>4. q[Len(q)] = r[Len(q)]
    BY <1>4, <1>5
  <2>. QED
    BY <2>2, <2>3, <2>4, Numbers
<1>7. q \in Seq(Clusters) /\ r \in Seq(Clusters)
  BY DEF ChainOf
<1>. QED
  BY <1>4, <1>6, <1>7

-----------------------------------------------------------------------------
(* Taking clusters *)

\* Free clusters, each once.
NewClusters(q) ==
  /\ q \in Seq(Clusters) /\ Len(q) # 0
  /\ \A i \in 1 .. Len(q) : fat[q[i]] = FREE_CLUSTER
  /\ \A i, j \in 1 .. Len(q) : q[i] = q[j] => i = j

\* alloc_cluster hands out free clusters, each once, and the ones that stay in the queue
\* are not among them.
LEMMA PicksAreNew ==
  ASSUME recycled_cluster \in Seq(Clusters), FreeIsFree, NEW num \in Nat \ {0}, NEW start \in Nat,
         NEW q \in Picks(num, start)
  PROVE  /\ NewClusters(q) /\ Len(q) = num
         /\ \A i \in 1 .. num, j \in 1 .. Len(recycled_cluster) : j > num => recycled_cluster[j] # q[i]
<1>1. q \in Seq(Clusters) /\ Len(q) = num /\ \A i \in 1 .. num : q[i] \in Clusters
  BY DEF Picks
<1>2. PICK len \in Nat : len = Len(recycled_cluster)
  OBVIOUS
<1>3. ASSUME NEW i \in 1 .. num, i <= len PROVE q[i] = recycled_cluster[i] /\ i \in 1 .. len
  <2>1. i <= Len(recycled_cluster) => q[i] = recycled_cluster[i]
    BY Zenon DEF Picks
  <2>2. i \in 1 .. len
    BY <1>2, <1>3
  <2>. QED
    BY <1>2, <1>3, <2>1, <2>2
<1>4. ASSUME NEW i \in 1 .. num, ~ (i <= len)
      PROVE  q[i] \in Blank(IF i = 1 THEN start ELSE q[i - 1], {q[j] : j \in 1 .. (i - 2)})
  BY <1>2, <1>4 DEF Picks
<1>5. ASSUME NEW i \in 1 .. num PROVE fat[q[i]] = FREE_CLUSTER
  <2>1. CASE i <= len
    BY <1>2, <1>3, <2>1 DEF FreeIsFree
  <2>2. CASE ~ (i <= len)
    BY <1>4, <2>2 DEF Blank
  <2>. QED
    BY <2>1, <2>2
<1>6. ASSUME NEW i \in 1 .. num, NEW j \in 1 .. num, j < i PROVE q[i] # q[j]
  <2>1. CASE i <= len
    <3>1. j <= len
      BY <1>6, <2>1
    <3>2. q[i] = recycled_cluster[i] /\ q[j] = recycled_cluster[j] /\ i \in 1 .. len /\ j \in 1 .. len
      BY <1>3, <2>1, <3>1
    <3>. QED
      BY <1>2, <1>6, <3>2 DEF FreeIsFree
  <2>2. CASE ~ (i <= len) /\ j = i - 1
    <3>1. i # 1
      BY <2>2
    <3>2. q[i] > q[i - 1]
      BY <1>4, <2>2, <3>1 DEF Blank
    <3>3. q[i] \in Nat /\ q[i - 1] \in Nat
      BY <1>1, <2>2, Numbers
    <3>. QED
      BY <2>2, <3>2, <3>3
  <2>3. CASE ~ (i <= len) /\ j # i - 1
    <3>1. j \in 1 .. (i - 2)
      BY <1>6, <2>3
    <3>2. q[i] \notin {q[k] : k \in 1 .. (i - 2)}
      BY <1>4, <2>3 DEF Blank
    <3>. QED
      BY <3>1, <3>2
  <2>. QED
    BY <2>1, <2>2, <2>3
<1>7. \A i, j \in 1 .. num : q[i] = q[j] => i = j
  BY <1>6
<1>8. ASSUME NEW i \in 1 .. num, NEW j \in 1 .. len, j > num PROVE recycled_cluster[j] # q[i]
  <2>1. i <= len /\ i # j /\ i \in 1 .. len
    BY <1>8
  <2>. QED
    BY <1>2, <1>3, <2>1 DEF FreeIsFree
<1>9. NewClusters(q)
  BY <1>1, <1>5, <1>7 DEF NewClusters
<1>. QED
  BY <1>1, <1>2, <1>8, <1>9

\* Linked, cluster by cluster.  tail is the chain the new clusters go behind, if any.
LEMMA LinkedPoints ==
  ASSUME fat \in [Clusters -> Link], NEW q, NewClusters(q), NEW tail,
         tail = <<>> \/ (tail \in Seq(Clusters) /\ Len(tail) # 0 /\ fat[Last(tail)] # FREE_CLUSTER)
  PROVE  /\ Linked(q, tail) \in [Clusters -> Link]
         /\ \A i \in 1 .. (Len(q) - 1) : Linked(q, tail)[q[i]] = q[i + 1]
         /\ Linked(q, tail)[q[Len(q)]] = END_OF_CLUSTER
         /\ tail # <<>> => Linked(q, tail)[Last(tail)] = q[1]
         /\ \A c \in Clusters : c \notin Elems(q) /\ (tail = <<>> \/ c # Last(tail)) => Linked(q, tail)[c] = fat[c]
<1>. DEFINE t == Linked(q, tail)
<1>1. /\ q \in Seq(Clusters) /\ Len(q) \in Nat \ {0} /\ \A i \in 1 .. Len(q) : q[i] \in Clusters
      /\ \A i, j \in 1 .. Len(q) : q[i] = q[j] => i = j
  BY DEF NewClusters
<1>2. Last(q) = q[Len(q)] /\ Len(q) \in 1 .. Len(q)
  BY <1>1 DEF Last
<1>3. \A c \in Clusters : c = Last(q) => t[c] = END_OF_CLUSTER
  BY DEF Linked
<1>4. ASSUME NEW i \in 1 .. (Len(q) - 1) PROVE t[q[i]] = q[i + 1] /\ i + 1 \in 1 .. Len(q)
  <2>1. i \in 1 .. Len(q) /\ i # Len(q) /\ i + 1 \in 1 .. Len(q)
    BY <1>1
  <2>2. q[i] # Last(q) /\ q[i] \in Clusters
    BY <1>1, <1>2, <2>1
  <2>3. \E k \in 1 .. Len(q) : q[k] = q[i]
    BY <2>1
  <2>4. (CHOOSE k \in 1 .. Len(q) : q[k] = q[i]) = i
    BY <1>1, <2>1
  <2>5. t[q[i]] = q[(CHOOSE k \in 1 .. Len(q) : q[k] = q[i]) + 1]
    BY <2>2, <2>3 DEF Linked
  <2>. QED
    BY <2>1, <2>4, <2>5
<1>5. ASSUME tail # <<>> PROVE t[Last(tail)] = q[1]
  <2>1. Last(tail) \in Clusters /\ fat[Last(tail)] # FREE_CLUSTER
    <3>1. tail \in Seq(Clusters) /\ Len(tail) \in 1 .. Len(tail)
      BY <1>5
    <3>. QED
      BY <1>5, <3>1 DEF Last
  <2>2. \A k \in 1 .. Len(q) : q[k] # Last(tail)
    BY <2>1 DEF NewClusters
  <2>3. Last(tail) # Last(q)
    BY <1>2, <2>2
  <2>. QED
    BY <1>5, <2>1, <2>2, <2>3 DEF Linked
<1>6. ASSUME NEW c \in Clusters, c \notin Elems(q), tail = <<>> \/ c # Last(tail) PROVE t[c] = fat[c]
  <2>1. \A k \in 1 .. Len(q) : q[k] # c
    BY <1>6 DEF Elems
  <2>2. c # Last(q)
    BY <1>2, <2>1
  <2>. QED
    BY <1>6, <2>1, <2>2 DEF Linked
<1>7. ASSUME NEW c \in Clusters PROVE t[c] \in Link
  <2>1. CASE c \in Elems(q)
    <3>1. PICK i \in 1 .. Len(q) : q[i] = c
      BY <2>1 DEF Elems
    <3>2. CASE i = Len(q)
      BY <1>2, <1>3, <3>1, <3>2 DEF Link
    <3>3. CASE i # Len(q)
      <4>1. i \in 1 .. (Len(q) - 1)
        BY <1>1, <3>3
      <4>2. t[c] = q[i + 1] /\ q[i + 1] \in Clusters
        BY <1>1, <1>4, <3>1, <4>1
      <4>. QED
        BY <4>2 DEF Link
    <3>. QED
      BY <3>2, <3>3
  <2>2. CASE c \notin Elems(q) /\ tail # <<>> /\ c = Last(tail)
    <3>1. 1 \in 1 .. Len(q)
      BY <1>1
    <3>2. q[1] \in Clusters
      BY <1>1, <3>1
    <3>. QED
      BY <1>5, <2>2, <3>2 DEF Link
  <2>3. CASE c \notin Elems(q) /\ ~ (tail # <<>> /\ c = Last(tail))
    BY <1>6, <2>3
  <2>. QED
    BY <2>1, <2>2, <2>3
<1>8. t = [c \in Clusters |-> t[c]]
  BY DEF Linked
<1>9. t[q[Len(q)]] = END_OF_CLUSTER
  BY <1>1, <1>2, <1>3
<1>10. t \in [Clusters -> Link]
  <2>. HIDE DEF t
  <2>. QED
    BY <1>7, <1>8
<1>. QED
  BY <1>4, <1>5, <1>6, <1>9, <1>10

\* What growth of the chain tail of entry f by the clusters q makes of a table and of the
\* first clusters, and what it leaves.
Grows(f, q, tail, b, t, b2) ==
  /\ t \in [Clusters -> Link] /\ b2 \in FirstFcn
  /\ Apart(t, b2)
  /\ ChainOf(t, b2[f], tail \o q)
  /\ \A g \in Files \ {f} : \A r : b[g] # 0 /\ ChainOf(fat, b[g], r) => ChainOf(t, b[g], r)
  /\ \A c \in Clusters : t[c] = FREE_CLUSTER <=> fat[c] = FREE_CLUSTER /\ c \notin Elems(q)

LEMMA GrowTable ==
  ASSUME fat \in [Clusters -> Link], NEW b \in FirstFcn, Apart(fat, b), NEW f \in Files,
         NEW q, NewClusters(q), NEW tail,
         (b[f] = 0 /\ tail = <<>>) \/ (b[f] # 0 /\ ChainOf(fat, b[f], tail))
  PROVE  Grows(f, q, tail, b, Linked(q, tail), [b EXCEPT ![f] = IF b[f] = 0 THEN q[1] ELSE b[f]])
<1>1. PICK t : t = Linked(q, tail)
  OBVIOUS
<1>2. PICK b2 : b2 = [b EXCEPT ![f] = IF b[f] = 0 THEN q[1] ELSE b[f]]
  OBVIOUS
<1>3. /\ q \in Seq(Clusters) /\ Len(q) \in Nat \ {0} /\ \A i \in 1 .. Len(q) : q[i] \in Clusters
      /\ \A i \in 1 .. Len(q) : fat[q[i]] = FREE_CLUSTER
      /\ \A i, j \in 1 .. Len(q) : q[i] = q[j] => i = j
      /\ 1 \in 1 .. Len(q) /\ Len(q) \in 1 .. Len(q)
  BY DEF NewClusters
<1>4. b[f] # 0 => /\ tail \in Seq(Clusters) /\ Len(tail) \in Nat \ {0} /\ tail[1] = b[f] /\ tail # <<>>
                  /\ Last(tail) \in Clusters /\ fat[Last(tail)] = END_OF_CLUSTER
                  /\ \A i \in 1 .. Len(tail) : tail[i] \in Clusters /\ fat[tail[i]] # FREE_CLUSTER
                  /\ \A i \in 1 .. (Len(tail) - 1) : fat[tail[i]] = tail[i + 1]
  <2>. SUFFICES ASSUME b[f] # 0, ChainOf(fat, b[f], tail)
       PROVE  /\ tail \in Seq(Clusters) /\ Len(tail) \in Nat \ {0} /\ tail[1] = b[f] /\ tail # <<>>
              /\ Last(tail) \in Clusters /\ fat[Last(tail)] = END_OF_CLUSTER
              /\ \A i \in 1 .. Len(tail) : tail[i] \in Clusters /\ fat[tail[i]] # FREE_CLUSTER
              /\ \A i \in 1 .. (Len(tail) - 1) : fat[tail[i]] = tail[i + 1]
    OBVIOUS
  <2>1. /\ Len(tail) \in Nat \ {0} /\ tail[1] = b[f]
        /\ \A i \in 1 .. Len(tail) : tail[i] \in Clusters /\ fat[tail[i]] # FREE_CLUSTER
    BY ChainLinks
  <2>2. /\ tail \in Seq(Clusters) /\ fat[Last(tail)] = END_OF_CLUSTER
        /\ \A i \in 1 .. (Len(tail) - 1) : fat[tail[i]] = tail[i + 1]
    BY DEF ChainOf, IsChain
  <2>3. Len(tail) \in 1 .. Len(tail) /\ tail # <<>>
    BY <2>1, <2>2
  <2>4. Last(tail) \in Clusters
    BY <2>1, <2>3 DEF Last
  <2>. QED
    BY <2>1, <2>2, <2>3, <2>4
<1>5. tail = <<>> \/ (tail \in Seq(Clusters) /\ Len(tail) # 0 /\ fat[Last(tail)] # FREE_CLUSTER)
  BY <1>4, Numbers
<1>6. /\ t \in [Clusters -> Link]
      /\ \A i \in 1 .. (Len(q) - 1) : t[q[i]] = q[i + 1]
      /\ t[q[Len(q)]] = END_OF_CLUSTER
      /\ b[f] # 0 => t[Last(tail)] = q[1]
      /\ \A c \in Clusters : c \notin Elems(q) /\ (tail = <<>> \/ c # Last(tail)) => t[c] = fat[c]
  BY <1>1, <1>4, <1>5, LinkedPoints
<1>7. tail # <<>> => b[f] # 0
  OBVIOUS
<1>8. \A c \in Clusters : c \in Elems(q) <=> \E i \in 1 .. Len(q) : q[i] = c
  BY DEF Elems
\* The three kinds of clusters.
<1>9. ASSUME NEW c \in Clusters
      PROVE  \/ \E i \in 1 .. (Len(q) - 1) : c = q[i] /\ t[c] = q[i + 1] /\ i + 1 \in 1 .. Len(q)
             \/ c = q[Len(q)] /\ t[c] = END_OF_CLUSTER
             \/ b[f] # 0 /\ c = Last(tail) /\ t[c] = q[1] /\ c \notin Elems(q)
             \/ c \notin Elems(q) /\ t[c] = fat[c]
  <2>1. CASE c \in Elems(q)
    <3>1. PICK i \in 1 .. Len(q) : q[i] = c
      BY <1>8, <2>1
    <3>2. CASE i = Len(q)
      BY <1>6, <3>1, <3>2
    <3>3. CASE i # Len(q)
      <4>1. i \in 1 .. (Len(q) - 1) /\ i + 1 \in 1 .. Len(q)
        BY <1>3, <3>3
      <4>. QED
        BY <1>6, <3>1, <4>1
    <3>. QED
      BY <3>2, <3>3
  <2>2. CASE c \notin Elems(q) /\ b[f] # 0 /\ c = Last(tail)
    BY <1>6, <2>2
  <2>3. CASE c \notin Elems(q) /\ ~ (b[f] # 0 /\ c = Last(tail))
    BY <1>6, <1>7, <2>3
  <2>. QED
    BY <2>1, <2>2, <2>3
<1>10. ASSUME NEW c \in Clusters
       PROVE  t[c] = FREE_CLUSTER <=> fat[c] = FREE_CLUSTER /\ c \notin Elems(q)
  <2>1. CASE \E i \in 1 .. (Len(q) - 1) : c = q[i] /\ t[c] = q[i + 1] /\ i + 1 \in 1 .. Len(q)
    <3>1. c \in Elems(q) /\ t[c] \in Clusters
      <4>1. PICK i \in 1 .. (Len(q) - 1) : c = q[i] /\ t[c] = q[i + 1] /\ i + 1 \in 1 .. Len(q)
        BY <2>1
      <4>2. i \in 1 .. Len(q)
        BY <1>3
      <4>. QED
        BY <1>3, <1>8, <4>1, <4>2
    <3>. QED
      BY <3>1, Numbers
  <2>2. CASE c = q[Len(q)] /\ t[c] = END_OF_CLUSTER
    BY <1>3, <1>8, <2>2, Numbers
  <2>3. CASE b[f] # 0 /\ c = Last(tail) /\ t[c] = q[1] /\ c \notin Elems(q)
    BY <1>3, <1>4, <2>3, Numbers
  <2>4. CASE c \notin Elems(q) /\ t[c] = fat[c]
    BY <2>4
  <2>. QED
    BY <1>9, <2>1, <2>2, <2>3, <2>4
\* A cluster that t leads to is a new one, or one that fat leads to from the same place.
<1>11. ASSUME NEW c \in Clusters, t[c] \in Clusters
       PROVE  \/ \E i \in 1 .. (Len(q) - 1) : c = q[i] /\ t[c] = q[i + 1] /\ i + 1 \in 1 .. Len(q)
              \/ b[f] # 0 /\ c = Last(tail) /\ t[c] = q[1] /\ c \notin Elems(q)
              \/ c \notin Elems(q) /\ t[c] = fat[c] /\ fat[t[c]] # FREE_CLUSTER
  BY <1>9, <1>11, Numbers DEF Apart
<1>12. b2 \in FirstFcn /\ \A g \in Files : b2[g] = IF g = f /\ b[f] = 0 THEN q[1] ELSE b[g]
  BY <1>2, <1>3 DEF FirstFcn
<1>13. \A g \in Files : b[g] # 0 => b[g] \in Clusters /\ fat[b[g]] # FREE_CLUSTER
  BY DEF FirstFcn, Apart
<1>14. fat[q[1]] = FREE_CLUSTER /\ q[1] \in Clusters /\ q[1] # 0
  BY <1>3, Numbers
<1>15. \A g, h \in Files : b2[g] # 0 /\ b2[g] = b2[h] => g = h
  BY <1>12, <1>13, <1>14 DEF Apart
<1>16. ASSUME NEW c \in Clusters, NEW d \in Clusters, t[c] \in Clusters, t[c] = t[d] PROVE c = d
  <2>1. CASE \E i \in 1 .. (Len(q) - 1) : c = q[i] /\ t[c] = q[i + 1] /\ i + 1 \in 1 .. Len(q)
    <3>1. PICK i \in 1 .. (Len(q) - 1) : c = q[i] /\ t[c] = q[i + 1] /\ i + 1 \in 1 .. Len(q)
      BY <2>1
    <3>2. CASE \E j \in 1 .. (Len(q) - 1) : d = q[j] /\ t[d] = q[j + 1] /\ j + 1 \in 1 .. Len(q)
      <4>1. PICK j \in 1 .. (Len(q) - 1) : d = q[j] /\ t[d] = q[j + 1] /\ j + 1 \in 1 .. Len(q)
        BY <3>2
      <4>2. i + 1 = j + 1
        BY <1>3, <1>16, <3>1, <4>1
      <4>3. i = j
        BY <1>3, <4>2
      <4>. QED
        BY <3>1, <4>1, <4>3
    <3>3. CASE t[d] = q[1]
      <4>1. i + 1 = 1
        BY <1>3, <1>16, <3>1, <3>3
      <4>. QED
        BY <1>3, <4>1
    <3>4. CASE fat[t[d]] # FREE_CLUSTER
      BY <1>3, <1>16, <3>1, <3>4
    <3>. QED
      BY <1>11, <1>16, <3>2, <3>3, <3>4
  <2>2. CASE b[f] # 0 /\ c = Last(tail) /\ t[c] = q[1]
    <3>1. CASE \E j \in 1 .. (Len(q) - 1) : d = q[j] /\ t[d] = q[j + 1] /\ j + 1 \in 1 .. Len(q)
      <4>1. PICK j \in 1 .. (Len(q) - 1) : d = q[j] /\ t[d] = q[j + 1] /\ j + 1 \in 1 .. Len(q)
        BY <3>1
      <4>2. j + 1 = 1
        BY <1>3, <1>16, <2>2, <4>1
      <4>. QED
        BY <1>3, <4>2
    <3>2. CASE d = Last(tail)
      BY <2>2, <3>2
    <3>3. CASE fat[t[d]] # FREE_CLUSTER
      BY <1>14, <1>16, <2>2, <3>3
    <3>. QED
      BY <1>11, <1>16, <3>1, <3>2, <3>3
  <2>3. CASE t[c] = fat[c] /\ fat[t[c]] # FREE_CLUSTER
    <3>1. CASE \E j \in 1 .. (Len(q) - 1) : d = q[j] /\ t[d] = q[j + 1] /\ j + 1 \in 1 .. Len(q)
      BY <1>3, <1>16, <2>3, <3>1
    <3>2. CASE t[d] = q[1]
      BY <1>14, <1>16, <2>3, <3>2
    <3>3. CASE t[d] = fat[d]
      BY <1>16, <2>3, <3>3 DEF Apart
    <3>. QED
      BY <1>11, <1>16, <3>1, <3>2, <3>3
  <2>. QED
    BY <1>11, <1>16, <2>1, <2>2, <2>3
<1>17. ASSUME NEW g \in Files, NEW c \in Clusters, t[c] \in Clusters PROVE t[c] # b2[g]
  <2>0. t[c] # 0
    BY <1>17, Numbers
  <2>1. CASE \E i \in 1 .. (Len(q) - 1) : c = q[i] /\ t[c] = q[i + 1] /\ i + 1 \in 1 .. Len(q)
    <3>1. PICK i \in 1 .. (Len(q) - 1) : t[c] = q[i + 1] /\ i + 1 \in 1 .. Len(q)
      BY <2>1
    <3>2. i + 1 # 1
      BY <1>3
    <3>3. t[c] # q[1] /\ fat[t[c]] = FREE_CLUSTER
      BY <1>3, <3>1, <3>2
    <3>. QED
      BY <1>12, <1>13, <2>0, <3>3
  <2>2. CASE b[f] # 0 /\ t[c] = q[1]
    BY <1>12, <1>13, <1>14, <2>0, <2>2
  <2>3. CASE t[c] = fat[c] /\ fat[t[c]] # FREE_CLUSTER
    BY <1>12, <1>14, <1>17, <2>3 DEF Apart
  <2>. QED
    BY <1>11, <1>17, <2>1, <2>2, <2>3
<1>18. ASSUME NEW g \in Files, b2[g] # 0 PROVE t[b2[g]] # FREE_CLUSTER
  <2>1. q[1] \in Elems(q)
    BY <1>3, <1>8
  <2>. QED
    BY <1>10, <1>12, <1>13, <1>14, <1>18, <2>1
<1>19. ASSUME NEW c \in Clusters, t[c] \in Clusters PROVE t[t[c]] # FREE_CLUSTER
  <2>1. t[c] \in Elems(q) \/ fat[t[c]] # FREE_CLUSTER
    BY <1>3, <1>8, <1>11, <1>14, <1>19
  <2>. QED
    BY <1>10, <1>19, <2>1
<1>20. Apart(t, b2)
  BY <1>15, <1>16, <1>17, <1>18, <1>19 DEF Apart
<1>21. ASSUME NEW g \in Files \ {f}, NEW r, b[g] # 0, ChainOf(fat, b[g], r) PROVE ChainOf(t, b[g], r)
  <2>1. /\ Len(r) \in Nat \ {0} /\ r[1] = b[g] /\ r \in Seq(Clusters)
        /\ \A i \in 1 .. Len(r) : r[i] \in Clusters /\ fat[r[i]] # FREE_CLUSTER
    BY <1>21, ChainLinks DEF ChainOf
  <2>2. ASSUME NEW i \in 1 .. Len(r) PROVE t[r[i]] = fat[r[i]]
    <3>1. r[i] \notin Elems(q)
      BY <1>3, <1>8, <2>1
    <3>2. CASE b[f] # 0
      <4>1. ChainOf(fat, b[f], tail) /\ Len(tail) \in 1 .. Len(tail)
        BY <1>4, <3>2, Numbers
      <4>2. r[i] # tail[Len(tail)]
        BY <1>21, <3>2, <4>1, ChainsMeet
      <4>. QED
        BY <1>6, <2>1, <3>1, <4>2 DEF Last
    <3>3. CASE b[f] = 0
      BY <1>6, <1>7, <2>1, <3>1, <3>3
    <3>. QED
      BY <3>2, <3>3
  <2>3. \A i \in 1 .. (Len(r) - 1) : i \in 1 .. Len(r)
    BY <2>1
  <2>4. Len(r) \in 1 .. Len(r)
    BY <2>1
  <2>. QED
    BY <1>21, <2>1, <2>2, <2>3, <2>4 DEF ChainOf, IsChain, Last
<1>22. ChainOf(t, b2[f], tail \o q)
  <2>1. CASE b[f] = 0
    <3>1. tail \o q = q /\ b2[f] = q[1]
      BY <1>3, <1>7, <1>12, <2>1
    <3>2. ChainOf(t, q[1], q)
      BY <1>3, <1>6, LinksChain
    <3>. QED
      BY <3>1, <3>2
  <2>2. CASE b[f] # 0
    <3>1. PICK r : r = tail \o q
      OBVIOUS
    <3>2. PICK m \in Nat \ {0} : m = Len(tail)
      BY <1>4, <2>2
    <3>3. PICK n \in Nat \ {0} : n = Len(q)
      BY <1>3
    <3>4. /\ r \in Seq(Clusters) /\ Len(r) = m + n
          /\ \A i \in 1 .. m : r[i] = tail[i]
          /\ \A i \in 1 .. n : r[m + i] = q[i]
      BY <1>3, <1>4, <2>2, <3>1, <3>2, <3>3
    <3>5. \A i \in 1 .. m : tail[i] \notin Elems(q)
      BY <1>3, <1>4, <1>8, <2>2, <3>2
    <3>6. ASSUME NEW i \in 1 .. (m - 1) PROVE t[tail[i]] = tail[i + 1]
      <4>1. i \in 1 .. m /\ m \in 1 .. m /\ i # m
        BY <3>2
      <4>2. tail[i] # tail[m]
        BY <2>2, <3>2, <4>1, ChainsMeet
      <4>3. t[tail[i]] = fat[tail[i]]
        BY <1>4, <1>6, <2>2, <3>2, <3>5, <4>1, <4>2 DEF Last
      <4>. QED
        BY <1>4, <2>2, <3>2, <4>3
    <3>7. ASSUME NEW i \in 1 .. (Len(r) - 1) PROVE t[r[i]] = r[i + 1]
      <4>1. CASE i < m
        <5>1. i \in 1 .. (m - 1) /\ i \in 1 .. m /\ i + 1 \in 1 .. m
          BY <4>1
        <5>. QED
          BY <3>4, <3>6, <5>1
      <4>2. CASE i = m
        <5>1. m \in 1 .. m /\ 1 \in 1 .. n /\ i + 1 = m + 1
          BY <3>4, <4>2
        <5>2. r[i] = Last(tail) /\ r[i + 1] = q[1]
          BY <3>2, <3>4, <4>2, <5>1 DEF Last
        <5>. QED
          BY <1>6, <2>2, <5>2
      <4>3. CASE i > m
        <5>1. i - m \in 1 .. (n - 1) /\ i - m \in 1 .. n /\ (i - m) + 1 \in 1 .. n
          BY <3>4, <4>3
        <5>2. m + (i - m) = i /\ m + ((i - m) + 1) = i + 1
          BY <3>4
        <5>3. r[i] = q[i - m] /\ r[i + 1] = q[(i - m) + 1]
          BY <3>4, <5>1, <5>2
        <5>. QED
          BY <1>6, <3>3, <5>1, <5>3
      <4>. QED
        BY <3>4, <4>1, <4>2, <4>3
    <3>8. t[r[Len(r)]] = END_OF_CLUSTER
      <4>1. n \in 1 .. n
        OBVIOUS
      <4>. QED
        BY <1>6, <3>3, <3>4, <4>1
    <3>9. Len(r) # 0 /\ r[1] = b2[f]
      <4>1. 1 \in 1 .. m
        OBVIOUS
      <4>. QED
        BY <1>4, <1>12, <2>2, <3>4, <4>1
    <3>10. ChainOf(t, b2[f], r)
      BY <3>4, <3>7, <3>8, <3>9, LinksChain
    <3>. QED
      BY <3>1, <3>10
  <2>. QED
    BY <2>1, <2>2
<1>23. Grows(f, q, tail, b, t, b2)
  BY <1>6, <1>10, <1>12, <1>20, <1>21, <1>22 DEF Grows
<1>. QED
  BY <1>1, <1>2, <1>23

-----------------------------------------------------------------------------
(* Releasing clusters *)

\* What releasing the clusters behind the first l of the chain v of entry s makes of a
\* table and of the first clusters, and what it leaves.
Shrinks(s, v, l, b, t, b2) ==
  /\ t \in [Clusters -> Link] /\ b2 \in FirstFcn
  /\ Apart(t, b2)
  /\ l > 0 => ChainOf(t, b[s], SubSeq(v, 1, l))
  /\ \A g \in Files \ {s} : \A r : b[g] # 0 /\ ChainOf(fat, b[g], r) => ChainOf(t, b[g], r)
  /\ \A c \in Clusters : t[c] = FREE_CLUSTER <=> fat[c] = FREE_CLUSTER \/ c \in Elems(SubSeq(v, l + 1, Len(v)))

\* The table after the release.
Cut(v, l) == IF l = 0 THEN fat ELSE [fat EXCEPT ![v[l]] = END_OF_CLUSTER]
Released(v, l) ==
  [c \in Clusters |-> IF c \in Elems(SubSeq(v, l + 1, Len(v))) THEN FREE_CLUSTER ELSE Cut(v, l)[c]]

LEMMA PieceElems ==
  ASSUME NEW v \in Seq(Clusters), NEW l \in 0 .. Len(v)
  PROVE  /\ SubSeq(v, l + 1, Len(v)) \in Seq(Clusters)
         /\ Len(SubSeq(v, l + 1, Len(v))) = Len(v) - l
         /\ \A i \in 1 .. (Len(v) - l) : SubSeq(v, l + 1, Len(v))[i] = v[l + i]
         /\ \A c : c \in Elems(SubSeq(v, l + 1, Len(v))) <=> \E i \in 1 .. Len(v) : i > l /\ v[i] = c
<1>1. PICK w : w = SubSeq(v, l + 1, Len(v))
  OBVIOUS
<1>2. w \in Seq(Clusters) /\ Len(w) = Len(v) - l /\ Len(v) \in Nat /\ \A i \in 1 .. Len(w) : w[i] = v[l + i]
  BY <1>1
<1>3. ASSUME NEW c, c \in Elems(w) PROVE \E i \in 1 .. Len(v) : i > l /\ v[i] = c
  <2>1. PICK i \in 1 .. Len(w) : w[i] = c
    BY <1>3 DEF Elems
  <2>2. l + i \in 1 .. Len(v) /\ l + i > l
    BY <1>2
  <2>. QED
    BY <1>2, <2>1, <2>2
<1>4. ASSUME NEW c, NEW i \in 1 .. Len(v), i > l, v[i] = c PROVE c \in Elems(w)
  <2>1. i - l \in 1 .. Len(w) /\ l + (i - l) = i
    BY <1>2, <1>4
  <2>2. w[i - l] = c
    BY <1>2, <1>4, <2>1
  <2>. QED
    BY <2>1, <2>2 DEF Elems
<1>. QED
  BY <1>1, <1>2, <1>3, <1>4

LEMMA ShrinkTable ==
  ASSUME fat \in [Clusters -> Link], NEW b \in FirstFcn, Apart(fat, b), NEW s \in Files, b[s] # 0,
         NEW v, ChainOf(fat, b[s], v), NEW l \in 0 .. Len(v)
  PROVE  Shrinks(s, v, l, b, Released(v, l), IF l = 0 THEN [b EXCEPT ![s] = 0] ELSE b)
<1>1. PICK t : t = Released(v, l)
  OBVIOUS
<1>2. PICK b2 : b2 = IF l = 0 THEN [b EXCEPT ![s] = 0] ELSE b
  OBVIOUS
<1>3. PICK w : w = SubSeq(v, l + 1, Len(v))
  OBVIOUS
<1>4. v \in Seq(Clusters)
  BY DEF ChainOf
<1>5. /\ Len(v) \in Nat \ {0} /\ v[1] = b[s]
      /\ \A i \in 1 .. Len(v) : /\ v[i] \in Clusters
                                /\ fat[v[i]] # FREE_CLUSTER
                                /\ i < Len(v) => fat[v[i]] = v[i + 1] /\ i + 1 \in 1 .. Len(v)
                                /\ i = Len(v) => fat[v[i]] = END_OF_CLUSTER
  BY ChainLinks
<1>6. \A c : c \in Elems(w) <=> \E i \in 1 .. Len(v) : i > l /\ v[i] = c
  BY <1>3, <1>4, PieceElems
<1>7. \A i, j \in 1 .. Len(v) : v[i] = v[j] => i = j
  BY ChainsMeet
<1>8. l > 0 => l \in 1 .. Len(v) /\ v[l] \in Clusters /\ v[l] \notin Elems(w)
  <2>. SUFFICES ASSUME l > 0 PROVE l \in 1 .. Len(v) /\ v[l] \in Clusters /\ v[l] \notin Elems(w)
    OBVIOUS
  <2>1. l \in 1 .. Len(v)
    BY <1>5
  <2>2. \A i \in 1 .. Len(v) : i > l => v[i] # v[l]
    BY <1>7, <2>1
  <2>. QED
    BY <1>5, <1>6, <2>1, <2>2
<1>9. ASSUME NEW c \in Clusters
      PROVE  /\ c \in Elems(w) => t[c] = FREE_CLUSTER
             /\ l > 0 /\ c = v[l] => t[c] = END_OF_CLUSTER
             /\ c \notin Elems(w) /\ ~ (l > 0 /\ c = v[l]) => t[c] = fat[c]
  <2>1. t[c] = IF c \in Elems(w) THEN FREE_CLUSTER ELSE Cut(v, l)[c]
    BY <1>1, <1>3 DEF Released
  <2>2. Cut(v, l)[c] = IF l > 0 /\ c = v[l] THEN END_OF_CLUSTER ELSE fat[c]
    BY <1>8 DEF Cut
  <2>. QED
    BY <1>8, <2>1, <2>2
<1>10. t \in [Clusters -> Link]
  <2>1. ASSUME NEW c \in Clusters PROVE t[c] \in Link
    BY <1>9 DEF Link
  <2>2. t = [c \in Clusters |-> t[c]]
    BY <1>1 DEF Released
  <2>. QED
    BY <2>1, <2>2
<1>11. ASSUME NEW c \in Clusters PROVE t[c] = FREE_CLUSTER <=> fat[c] = FREE_CLUSTER \/ c \in Elems(w)
  <2>1. c = v[l] /\ l > 0 => fat[c] # FREE_CLUSTER
    BY <1>5, <1>8
  <2>. QED
    BY <1>8, <1>9, <2>1, Numbers
<1>12. \A c \in Clusters : t[c] \in Clusters => t[c] = fat[c] /\ c \notin Elems(w) /\ ~ (l > 0 /\ c = v[l])
  BY <1>9, Numbers
<1>13. b2 \in FirstFcn /\ \A g \in Files : b2[g] # 0 => b2[g] = b[g] /\ (g = s => l # 0)
  BY <1>2 DEF FirstFcn
\* Nothing leads to the clusters that are released, except through them and v[l].
<1>14. ASSUME NEW i \in 1 .. Len(v), i # 1
       PROVE  i - 1 \in 1 .. Len(v) /\ fat[v[i - 1]] = v[i] /\ v[i - 1] \in Clusters /\ v[i] \in Clusters
  <2>1. i - 1 \in 1 .. Len(v) /\ i - 1 < Len(v) /\ (i - 1) + 1 = i
    BY <1>5, <1>14
  <2>. QED
    BY <1>5, <2>1
<1>15. ASSUME NEW g \in Files, b2[g] # 0 PROVE t[b2[g]] # FREE_CLUSTER
  <2>1. b[g] \in Clusters /\ fat[b[g]] # FREE_CLUSTER /\ b2[g] = b[g]
    BY <1>13, <1>15 DEF FirstFcn, Apart
  <2>2. ASSUME NEW i \in 1 .. Len(v), i > l, v[i] = b[g] PROVE FALSE
    <3>1. CASE i = 1
      <4>1. g = s
        BY <1>5, <2>1, <2>2, <3>1 DEF Apart
      <4>. QED
        BY <1>13, <1>15, <2>2, <3>1, <4>1
    <3>2. CASE i # 1
      BY <1>14, <2>2, <3>2 DEF Apart
    <3>. QED
      BY <3>1, <3>2
  <2>3. b[g] \notin Elems(w)
    BY <1>6, <2>2
  <2>. QED
    BY <1>11, <2>1, <2>3
<1>16. ASSUME NEW c \in Clusters, t[c] \in Clusters PROVE t[t[c]] # FREE_CLUSTER
  <2>1. t[c] = fat[c] /\ fat[fat[c]] # FREE_CLUSTER
    BY <1>12, <1>16 DEF Apart
  <2>2. ASSUME NEW i \in 1 .. Len(v), i > l, v[i] = fat[c] PROVE FALSE
    <3>1. CASE i = 1
      BY <1>5, <1>16, <2>1, <2>2, <3>1 DEF Apart
    <3>2. CASE i # 1
      <4>1. c = v[i - 1] /\ i - 1 \in 1 .. Len(v)
        BY <1>14, <2>2, <3>2 DEF Apart
      <4>2. i - 1 > l \/ (l > 0 /\ i - 1 = l)
        BY <2>2, <3>2
      <4>. QED
        BY <1>6, <1>12, <1>16, <4>1, <4>2
    <3>. QED
      BY <3>1, <3>2
  <2>3. fat[c] \notin Elems(w)
    BY <1>6, <2>2
  <2>. QED
    BY <1>11, <1>16, <2>1, <2>3
<1>17. Apart(t, b2)
  <2>1. \A g, h \in Files : b2[g] # 0 /\ b2[g] = b2[h] => g = h
    BY <1>13 DEF Apart
  <2>2. \A c, d \in Clusters : t[c] \in Clusters /\ t[c] = t[d] => c = d
    BY <1>12 DEF Apart
  <2>3. \A g \in Files, c \in Clusters : t[c] \in Clusters => t[c] # b2[g]
    <3>1. ASSUME NEW g \in Files, NEW c \in Clusters, t[c] \in Clusters PROVE t[c] # b2[g]
      <4>1. t[c] # 0 /\ t[c] = fat[c]
        BY <1>12, <3>1, Numbers
      <4>. QED
        BY <1>13, <3>1, <4>1 DEF Apart
    <3>. QED
      BY <3>1
  <2>. QED
    BY <1>15, <1>16, <2>1, <2>2, <2>3 DEF Apart
<1>18. ASSUME l > 0 PROVE ChainOf(t, b[s], SubSeq(v, 1, l))
  <2>1. PICK r : r = SubSeq(v, 1, l)
    OBVIOUS
  <2>2. r \in Seq(Clusters) /\ Len(r) = l /\ \A i \in 1 .. l : r[i] = v[i]
    BY <1>4, <1>18, <2>1
  <2>3. ASSUME NEW i \in 1 .. l PROVE i \in 1 .. Len(v) /\ v[i] \in Clusters /\ v[i] \notin Elems(w)
    <3>1. i \in 1 .. Len(v)
      BY <1>5
    <3>2. \A j \in 1 .. Len(v) : j > l => v[j] # v[i]
      BY <1>7, <3>1
    <3>. QED
      BY <1>5, <1>6, <3>1, <3>2
  <2>4. ASSUME NEW i \in 1 .. (Len(r) - 1) PROVE t[r[i]] = r[i + 1]
    <3>1. i \in 1 .. l /\ i + 1 \in 1 .. l /\ i # l /\ i < Len(v)
      BY <1>5, <2>2
    <3>2. v[i] # v[l]
      BY <1>7, <1>8, <1>18, <2>3, <3>1
    <3>3. t[v[i]] = fat[v[i]]
      BY <1>9, <2>3, <3>1, <3>2
    <3>. QED
      BY <1>5, <2>2, <2>3, <3>1, <3>3
  <2>5. l \in 1 .. l /\ 1 \in 1 .. l /\ Len(r) # 0
    BY <1>18, <2>2
  <2>6. t[r[Len(r)]] = END_OF_CLUSTER /\ r[1] = b[s]
    BY <1>5, <1>8, <1>9, <1>18, <2>2, <2>5
  <2>7. ChainOf(t, b[s], r)
    BY <2>2, <2>4, <2>5, <2>6, LinksChain
  <2>. QED
    BY <2>1, <2>7
<1>19. ASSUME NEW g \in Files \ {s}, NEW r, b[g] # 0, ChainOf(fat, b[g], r) PROVE ChainOf(t, b[g], r)
  <2>1. /\ Len(r) \in Nat \ {0} /\ r[1] = b[g] /\ r \in Seq(Clusters)
        /\ \A i \in 1 .. Len(r) : r[i] \in Clusters
    BY <1>19, ChainLinks DEF ChainOf
  <2>2. ASSUME NEW i \in 1 .. Len(r) PROVE t[r[i]] = fat[r[i]]
    <3>1. \A j \in 1 .. Len(v) : r[i] # v[j]
      BY <1>19, ChainsMeet
    <3>. QED
      BY <1>6, <1>8, <1>9, <2>1, <3>1
  <2>3. \A i \in 1 .. (Len(r) - 1) : i \in 1 .. Len(r)
    BY <2>1
  <2>4. Len(r) \in 1 .. Len(r)
    BY <2>1
  <2>. QED
    BY <1>19, <2>1, <2>2, <2>3, <2>4 DEF ChainOf, IsChain, Last
<1>20. Shrinks(s, v, l, b, t, b2)
  BY <1>3, <1>10, <1>11, <1>13, <1>17, <1>18, <1>19 DEF Shrinks
<1>. QED
  BY <1>1, <1>2, <1>20

-----------------------------------------------------------------------------
(* The recycled clusters and the count *)

FreeSet(t) == {c \in Clusters : t[c] = FREE_CLUSTER}

LEMMA CountElems ==
  ASSUME NEW q \in Seq(Clusters), \A i, j \in 1 .. Len(q) : q[i] = q[j] => i = j
  PROVE  IsFiniteSet(Elems(q)) /\ Cardinality(Elems(q)) = Len(q)
<1>1. Len(q) \in Nat /\ 1 \in Int /\ Len(q) \in Int
  OBVIOUS
<1>2. IsFiniteSet(1 .. Len(q)) /\ Cardinality(1 .. Len(q)) = Len(q)
  <2>1. /\ IsFiniteSet(1 .. Len(q))
        /\ Cardinality(1 .. Len(q)) = IF 1 > Len(q) THEN 0 ELSE Len(q) - 1 + 1
    BY <1>1, FS_Interval
  <2>. QED
    BY <1>1, <2>1
<1>3. q \in Bijection(1 .. Len(q), Elems(q))
  <2>1. q \in [1 .. Len(q) -> Elems(q)]
    BY DEF Elems
  <2>2. \A c \in Elems(q) : \E i \in 1 .. Len(q) : q[i] = c
    BY DEF Elems
  <2>. QED
    BY <2>1, <2>2 DEF Bijection, Injection, Surjection, IsInjective
<1>4. ExistsBijection(1 .. Len(q), Elems(q))
  BY <1>3 DEF ExistsBijection
<1>. QED
  BY <1>2, <1>4, FS_Bijection

LEMMA ClustersCount ==
  ASSUME NEW S \in SUBSET Clusters
  PROVE  IsFiniteSet(S) /\ Cardinality(S) \in 0 .. (LastCluster - 1)
<1>1. LastCluster \in Nat \ {0, 1}
  BY Fat32Assumption
<1>2. IsFiniteSet(2 .. LastCluster) /\ Cardinality(2 .. LastCluster) = LastCluster - 1
  <2>1. 2 \in Int /\ LastCluster \in Int /\ ~ (2 > LastCluster)
    BY <1>1
  <2>2. /\ IsFiniteSet(2 .. LastCluster)
        /\ Cardinality(2 .. LastCluster) = IF 2 > LastCluster THEN 0 ELSE LastCluster - 2 + 1
    BY <2>1, FS_Interval
  <2>. QED
    BY <1>1, <2>1, <2>2
<1>3. IsFiniteSet(S) /\ Cardinality(S) <= LastCluster - 1
  BY <1>2, FS_Subset DEF Clusters
<1>4. Cardinality(S) \in Nat
  BY <1>3, FS_CardinalityType
<1>. QED
  BY <1>1, <1>3, <1>4

LEMMA SameFree == FreeIsFree => free_cluster_cnt = Cardinality(FreeSet(fat))
BY DEF FreeIsFree, FreeSet

\* Clusters are taken.
LEMMA TakeCounts ==
  ASSUME recycled_cluster \in Seq(Clusters), FreeIsFree, NEW num \in Nat \ {0}, NEW start \in Nat,
         NEW q \in Picks(num, start), take(q),
         \A c \in Clusters : fat'[c] = FREE_CLUSTER <=> fat[c] = FREE_CLUSTER /\ c \notin Elems(q)
  PROVE  /\ FreeIsFree' /\ (recycled_cluster \in Seq(Clusters))'
         /\ (free_cluster_cnt \in 0 .. (LastCluster - 1))'
<1>1. /\ NewClusters(q) /\ Len(q) = num
      /\ \A i \in 1 .. num, j \in 1 .. Len(recycled_cluster) : j > num => recycled_cluster[j] # q[i]
  BY PicksAreNew
<1>2. /\ q \in Seq(Clusters) /\ \A i \in 1 .. Len(q) : fat[q[i]] = FREE_CLUSTER
      /\ \A i, j \in 1 .. Len(q) : q[i] = q[j] => i = j
  BY <1>1 DEF NewClusters
<1>3. PICK rec \in Seq(Clusters) : rec = recycled_cluster
  OBVIOUS
<1>4. PICK w : w = SubSeq(rec, num + 1, Len(rec))
  OBVIOUS
<1>5. /\ w \in Seq(Clusters) /\ Len(w) \in Nat
      /\ \A i \in 1 .. Len(w) : num + i \in 1 .. Len(rec) /\ w[i] = rec[num + i]
  <2>1. CASE num <= Len(rec)
    <3>1. w \in Seq(Clusters) /\ Len(w) = Len(rec) - num /\ \A i \in 1 .. Len(w) : w[i] = rec[num + i]
      BY <1>4, <2>1
    <3>2. \A i \in 1 .. (Len(rec) - num) : num + i \in 1 .. Len(rec)
      BY <2>1
    <3>. QED
      BY <3>1, <3>2
  <2>2. CASE num > Len(rec)
    BY <1>4, <2>2
  <2>. QED
    BY <2>1, <2>2
<1>6. recycled_cluster' = w /\ free_cluster_cnt' = free_cluster_cnt - num
  BY <1>1, <1>3, <1>4 DEF take
<1>7. ASSUME NEW i \in 1 .. Len(w) PROVE fat'[w[i]] = FREE_CLUSTER
  <2>1. num + i \in 1 .. Len(rec) /\ w[i] = rec[num + i] /\ num + i > num /\ w[i] \in Clusters
    BY <1>5
  <2>2. fat[w[i]] = FREE_CLUSTER
    BY <1>3, <2>1 DEF FreeIsFree
  <2>3. w[i] \notin Elems(q)
    BY <1>1, <1>3, <2>1 DEF Elems
  <2>. QED
    BY <2>1, <2>2, <2>3
<1>8. ASSUME NEW i \in 1 .. Len(w), NEW j \in 1 .. Len(w), w[i] = w[j] PROVE i = j
  <2>1. num + i = num + j
    BY <1>3, <1>5, <1>8 DEF FreeIsFree
  <2>. QED
    BY <1>5, <2>1
<1>9. Cardinality(FreeSet(fat')) = free_cluster_cnt - num
  <2>1. FreeSet(fat') = FreeSet(fat) \ Elems(q)
    BY DEF FreeSet
  <2>2. Elems(q) \subseteq FreeSet(fat)
    BY <1>2 DEF Elems, FreeSet
  <2>3. IsFiniteSet(Elems(q)) /\ Cardinality(Elems(q)) = num
    BY <1>1, <1>2, CountElems
  <2>4. IsFiniteSet(FreeSet(fat')) /\ Cardinality(FreeSet(fat')) \in Nat
    BY ClustersCount DEF FreeSet
  <2>5. FreeSet(fat) = FreeSet(fat') \cup Elems(q) /\ FreeSet(fat') \cap Elems(q) = {}
    BY <2>1, <2>2
  <2>6. Cardinality(FreeSet(fat)) = Cardinality(FreeSet(fat')) + Cardinality(Elems(q)) - Cardinality({})
    BY <2>3, <2>4, <2>5, FS_Union
  <2>7. Cardinality(FreeSet(fat)) = Cardinality(FreeSet(fat')) + num
    BY <2>3, <2>4, <2>6, FS_EmptySet
  <2>. QED
    BY <2>4, <2>7, SameFree
<1>10. Cardinality(FreeSet(fat')) \in 0 .. (LastCluster - 1)
  BY ClustersCount DEF FreeSet
<1>11. FreeIsFree'
  BY <1>6, <1>7, <1>8, <1>9 DEF FreeIsFree, FreeSet
<1>. QED
  BY <1>5, <1>6, <1>9, <1>10, <1>11

\* Clusters are released.
LEMMA GiveCounts ==
  ASSUME recycled_cluster \in Seq(Clusters), FreeIsFree, NEW q \in Seq(Clusters),
         \A i, j \in 1 .. Len(q) : q[i] = q[j] => i = j,
         \A i \in 1 .. Len(q) : fat[q[i]] # FREE_CLUSTER,
         recycled_cluster' = recycled_cluster \o q, free_cluster_cnt' = free_cluster_cnt + Len(q),
         \A c \in Clusters : fat'[c] = FREE_CLUSTER <=> fat[c] = FREE_CLUSTER \/ c \in Elems(q)
  PROVE  /\ FreeIsFree' /\ (recycled_cluster \in Seq(Clusters))'
         /\ (free_cluster_cnt \in 0 .. (LastCluster - 1))'
<1>1. PICK rec \in Seq(Clusters) : rec = recycled_cluster
  OBVIOUS
<1>2. PICK m \in Nat : m = Len(rec)
  OBVIOUS
<1>3. PICK w : w = rec \o q
  OBVIOUS
<1>4. /\ w \in Seq(Clusters) /\ Len(w) = m + Len(q) /\ Len(q) \in Nat
      /\ \A i \in 1 .. m : w[i] = rec[i]
      /\ \A i \in 1 .. Len(q) : w[m + i] = q[i]
  BY <1>2, <1>3
<1>5. recycled_cluster' = w
  BY <1>1, <1>3
<1>6. /\ \A i \in 1 .. m : rec[i] \in Clusters /\ fat[rec[i]] = FREE_CLUSTER
      /\ \A i, j \in 1 .. m : rec[i] = rec[j] => i = j
      /\ \A i \in 1 .. Len(q) : q[i] \in Clusters
  BY <1>1, <1>2 DEF FreeIsFree
<1>7. ASSUME NEW i \in 1 .. Len(w)
      PROVE  \/ i \in 1 .. m /\ w[i] = rec[i]
             \/ i - m \in 1 .. Len(q) /\ w[i] = q[i - m]
  <2>1. CASE i <= m
    BY <1>4, <2>1
  <2>2. CASE i > m
    <3>1. i - m \in 1 .. Len(q) /\ m + (i - m) = i
      BY <1>4, <2>2
    <3>. QED
      BY <1>4, <3>1
  <2>. QED
    BY <1>4, <2>1, <2>2
<1>8. ASSUME NEW i \in 1 .. Len(w) PROVE fat'[w[i]] = FREE_CLUSTER
  <2>1. CASE i \in 1 .. m /\ w[i] = rec[i]
    BY <1>6, <2>1
  <2>2. CASE i - m \in 1 .. Len(q) /\ w[i] = q[i - m]
    <3>1. q[i - m] \in Elems(q)
      BY <2>2 DEF Elems
    <3>. QED
      BY <1>6, <2>2, <3>1
  <2>. QED
    BY <1>7, <2>1, <2>2
<1>9. ASSUME NEW i \in 1 .. Len(w), NEW j \in 1 .. Len(w), w[i] = w[j] PROVE i = j
  <2>1. CASE i \in 1 .. m /\ w[i] = rec[i] /\ j \in 1 .. m /\ w[j] = rec[j]
    BY <1>6, <1>9, <2>1
  <2>2. CASE i - m \in 1 .. Len(q) /\ w[i] = q[i - m] /\ j - m \in 1 .. Len(q) /\ w[j] = q[j - m]
    <3>1. i - m = j - m
      BY <1>9, <2>2
    <3>. QED
      BY <1>4, <3>1
  <2>3. CASE i \in 1 .. m /\ w[i] = rec[i] /\ j - m \in 1 .. Len(q) /\ w[j] = q[j - m]
    BY <1>6, <1>9, <2>3
  <2>4. CASE i - m \in 1 .. Len(q) /\ w[i] = q[i - m] /\ j \in 1 .. m /\ w[j] = rec[j]
    <3>1. fat[w[i]] # FREE_CLUSTER
      BY <2>4
    <3>2. fat[w[j]] = FREE_CLUSTER
      BY <1>6, <2>4
    <3>. QED
      BY <1>9, <3>1, <3>2
  <2>. QED
    BY <1>7, <2>1, <2>2, <2>3, <2>4
<1>10. Cardinality(FreeSet(fat')) = free_cluster_cnt + Len(q)
  <2>1. FreeSet(fat') = FreeSet(fat) \cup Elems(q)
    <3>1. Elems(q) \subseteq Clusters
      BY <1>6 DEF Elems
    <3>. QED
      BY <3>1 DEF FreeSet
  <2>2. FreeSet(fat) \cap Elems(q) = {}
    BY DEF FreeSet, Elems
  <2>3. IsFiniteSet(Elems(q)) /\ Cardinality(Elems(q)) = Len(q)
    BY CountElems
  <2>4. IsFiniteSet(FreeSet(fat)) /\ Cardinality(FreeSet(fat)) \in Nat
    BY ClustersCount DEF FreeSet
  <2>5. Cardinality(FreeSet(fat')) = Cardinality(FreeSet(fat)) + Cardinality(Elems(q)) - Cardinality({})
    <3>1. PICK F : F = FreeSet(fat)
      OBVIOUS
    <3>2. PICK G : G = Elems(q)
      OBVIOUS
    <3>3. Cardinality(F \cup G) = Cardinality(F) + Cardinality(G) - Cardinality(F \cap G)
      BY <2>3, <2>4, <3>1, <3>2, FS_Union
    <3>. QED
      BY <2>1, <2>2, <3>1, <3>2, <3>3
  <2>. QED
    BY <1>4, <2>3, <2>4, <2>5, FS_EmptySet, SameFree
<1>11. Cardinality(FreeSet(fat')) \in 0 .. (LastCluster - 1)
  BY ClustersCount DEF FreeSet
<1>12. FreeIsFree'
  BY <1>5, <1>8, <1>9, <1>10 DEF FreeIsFree, FreeSet
<1>. QED
  BY <1>4, <1>5, <1>10, <1>11, <1>12

-----------------------------------------------------------------------------
(* The inductive invariant *)

\* An entry with clusters has a chain, as long as its size asks for.
Own(f) ==
  sde[f].first # 0 =>
    \E q : /\ ChainOf(fat, sde[f].first, q) /\ Len(q) <= MaxChain
           /\ f # Root => Len(q) = Ceil(sde[f].size, ClusterSize)

\* A VirtFile has this chain in its list, except that one made by rename may have nothing.
Handle(f) ==
  f \in opened /\ sde[f].first # 0 =>
    (f \in moved /\ cluster_vec[f] = <<>>) \/ ChainOf(fat, sde[f].first, cluster_vec[f])

\* A file without clusters is empty.
NoBytes == \A f \in Files : sde[f].first = 0 => sde[f].size = 0

\* Entries and VirtFiles that do not exist have nothing, and the root directory always has
\* clusters and a VirtFile.
Shape ==
  /\ Root \in opened /\ sde[Root].first # 0 /\ sde[Root].state = "live"
  /\ moved \subseteq opened
  /\ \A f \in Files : f \notin opened => cluster_vec[f] = <<>>
  /\ \A f \in Files : sde[f].state = "empty" => f \notin opened /\ sde[f].first = 0
  /\ NoBytes

Inv ==
  /\ TypeOK /\ ChainsApart /\ FreeIsFree /\ Shape
  /\ \A f \in Files : Own(f)
  /\ \A f \in Files : Handle(f)

\* The three invariants that are not part of it.
LEMMA InvHandle ==
  ASSUME Inv
  PROVE  HandleHasChain
<1>1. ASSUME NEW f \in opened \ moved, sde[f].first # 0
      PROVE  /\ IsChain(fat, sde[f].first, cluster_vec[f])
             /\ f # Root => Len(cluster_vec[f]) = Ceil(sde[f].size, ClusterSize)
  <2>1. f \in Files
    BY DEF Inv, TypeOK
  <2>2. ChainOf(fat, sde[f].first, cluster_vec[f])
    BY <1>1, <2>1 DEF Inv, Handle
  <2>3. PICK q : ChainOf(fat, sde[f].first, q) /\ (f # Root => Len(q) = Ceil(sde[f].size, ClusterSize))
    BY <1>1, <2>1 DEF Inv, Own
  <2>4. q = cluster_vec[f]
    BY <2>2, <2>3, OneChain
  <2>. QED
    BY <2>2, <2>3, <2>4 DEF ChainOf
<1>. QED
  BY <1>1 DEF HandleHasChain

LEMMA TypeFacts ==
  ASSUME Inv
  PROVE  /\ fat \in [Clusters -> Link] /\ recycled_cluster \in Seq(Clusters)
         /\ sde \in [Files -> Entry] /\ cluster_vec \in [Files -> Seq(Clusters)]
         /\ opened \subseteq Files /\ moved \subseteq Slots
         /\ data \in [Clusters -> [0 .. (ClusterSize - 1) -> Byte]]
         /\ Firsts \in FirstFcn /\ \A f \in Files : Firsts[f] = sde[f].first
         /\ Apart(fat, Firsts)
         /\ \A f \in Files : /\ sde[f].first \in Nat /\ sde[f].size \in 0 .. MaxSize /\ sde[f].size \in Nat
                             /\ sde[f].first \in {0} \cup Clusters
<1>1. /\ fat \in [Clusters -> Link] /\ recycled_cluster \in Seq(Clusters)
      /\ sde \in [Files -> Entry] /\ cluster_vec \in [Files -> Seq(Clusters)]
      /\ opened \subseteq Files /\ moved \subseteq Slots
      /\ data \in [Clusters -> [0 .. (ClusterSize - 1) -> Byte]]
  BY DEF Inv, TypeOK
<1>2. \A f \in Files : sde[f].first \in {0} \cup Clusters /\ sde[f].size \in 0 .. MaxSize
  BY <1>1 DEF Entry
<1>3. Firsts \in FirstFcn /\ \A f \in Files : Firsts[f] = sde[f].first
  BY <1>2 DEF Firsts, FirstFcn
<1>4. Apart(fat, Firsts)
  BY SameApart DEF Inv
<1>5. \A f \in Files : sde[f].first \in Nat /\ sde[f].size \in Nat
  <2>1. 0 \in Nat /\ Clusters \subseteq Nat /\ 0 .. MaxSize \subseteq Nat
    BY Numbers, Fat32Assumption
  <2>. QED
    BY <1>2, <2>1
<1>. QED
  BY <1>1, <1>2, <1>3, <1>4, <1>5

\* The chains of the other entries stay.
KeepOthers(f) ==
  \A g \in Files \ {f} : \A r : Firsts[g] # 0 /\ ChainOf(fat, Firsts[g], r) => ChainOf(fat', Firsts[g], r)

LEMMA OthersKeep ==
  ASSUME Inv, NEW f, KeepOthers(f), NEW g \in Files \ {f}, sde'[g] = sde[g],
         cluster_vec'[g] = cluster_vec[g], g \in opened' => g \in opened, g \in moved => g \in moved'
  PROVE  Own(g)' /\ Handle(g)'
<1>1. Firsts[g] = sde[g].first
  BY TypeFacts
<1>2. \A r : sde[g].first # 0 /\ ChainOf(fat, sde[g].first, r) => ChainOf(fat', sde[g].first, r)
  BY <1>1 DEF KeepOthers
<1>3. Own(g)'
  BY <1>2 DEF Inv, Own
<1>4. Handle(g)'
  BY <1>2 DEF Inv, Handle
<1>. QED
  BY <1>3, <1>4

\* The bytes of the data area stay bytes.
LEMMA DataTypes ==
  ASSUME data \in [Clusters -> [0 .. (ClusterSize - 1) -> Byte]]
  PROVE  /\ Cleared \in [Clusters -> [0 .. (ClusterSize - 1) -> Byte]]
         /\ \A d \in [Clusters -> [0 .. (ClusterSize - 1) -> Byte]], val \in Byte : \A q, off, len :
              Stored(d, q, off, len, val) \in [Clusters -> [0 .. (ClusterSize - 1) -> Byte]]
<1>1. 0 \in Byte
  BY Fat32Assumption
<1>2. Cleared \in [Clusters -> [0 .. (ClusterSize - 1) -> Byte]]
  <2>1. [i \in 0 .. (ClusterSize - 1) |-> 0] \in [0 .. (ClusterSize - 1) -> Byte]
    BY <1>1
  <2>. QED
    BY <2>1 DEF Cleared
<1>. QED
  BY <1>2 DEF Stored

-----------------------------------------------------------------------------
(* incerase_size *)

\* What incerase_size of file f to cnt clusters leaves; b2 are the first clusters after.
Increased(f, cnt, b2) ==
  /\ fat' \in [Clusters -> Link] /\ recycled_cluster' \in Seq(Clusters)
  /\ free_cluster_cnt' \in 0 .. (LastCluster - 1) /\ FreeIsFree'
  /\ cluster_vec' \in [Files -> Seq(Clusters)]
  /\ \A g \in Files \ {f} : cluster_vec'[g] = cluster_vec[g]
  /\ b2 \in FirstFcn /\ b2[f] = (IF sde[f].first = 0 THEN cluster_vec'[f][1] ELSE sde[f].first)
  /\ b2[f] # 0 /\ \A g \in Files \ {f} : b2[g] = sde[g].first
  /\ Apart(fat', b2) /\ ChainOf(fat', b2[f], cluster_vec'[f])
  /\ Len(cluster_vec'[f]) = (IF sde[f].first # 0 /\ Len(cluster_vec[f]) >= cnt
                             THEN Len(cluster_vec[f]) ELSE cnt)
  /\ sde[f].first # 0 => ChainOf(fat, sde[f].first, cluster_vec[f])
  /\ KeepOthers(f)
  /\ \A c \in Clusters : fat'[c] # FREE_CLUSTER => fat[c] # FREE_CLUSTER \/ c \in Elems(cluster_vec'[f])
  /\ sde[f].first # 0 => Elems(cluster_vec[f]) \subseteq Elems(cluster_vec'[f])

LEMMA ElemsOfBoth ==
  ASSUME NEW q \in Seq(Clusters), NEW r \in Seq(Clusters)
  PROVE  Elems(q) \subseteq Elems(q \o r) /\ Elems(r) \subseteq Elems(q \o r)
<1>1. PICK w : w = q \o r
  OBVIOUS
<1>2. PICK m \in Nat : m = Len(q)
  OBVIOUS
<1>3. /\ Len(w) = m + Len(r) /\ Len(r) \in Nat
      /\ \A i \in 1 .. m : w[i] = q[i]
      /\ \A i \in 1 .. Len(r) : w[m + i] = r[i]
  BY <1>1, <1>2
<1>4. ASSUME NEW c \in Elems(q) PROVE c \in Elems(w)
  <2>1. PICK i \in 1 .. m : q[i] = c
    BY <1>2 DEF Elems
  <2>2. i \in 1 .. Len(w)
    BY <1>3
  <2>. QED
    BY <1>3, <2>1, <2>2 DEF Elems
<1>5. ASSUME NEW c \in Elems(r) PROVE c \in Elems(w)
  <2>1. PICK i \in 1 .. Len(r) : r[i] = c
    BY DEF Elems
  <2>2. m + i \in 1 .. Len(w)
    BY <1>3
  <2>. QED
    BY <1>3, <2>1, <2>2 DEF Elems
<1>. QED
  BY <1>1, <1>4, <1>5

LEMMA Increase ==
  ASSUME Inv, NEW f \in opened, NEW cnt \in Nat \ {0}, GrowPanic(f, cnt) = "no", incerase_size(f, cnt)
  PROVE  \E b2 : Increased(f, cnt, b2)
<1>1. /\ fat \in [Clusters -> Link] /\ recycled_cluster \in Seq(Clusters)
      /\ cluster_vec \in [Files -> Seq(Clusters)]
      /\ Firsts \in FirstFcn /\ \A g \in Files : Firsts[g] = sde[g].first
      /\ Apart(fat, Firsts) /\ f \in Files
      /\ sde[f].first \in Nat /\ sde[f].first \in {0} \cup Clusters
  BY TypeFacts
<1>2. FreeIsFree /\ Handle(f) /\ free_cluster_cnt \in 0 .. (LastCluster - 1)
  BY <1>1 DEF Inv, TypeOK
<1>3. PICK len \in Nat : len = Len(cluster_vec[f])
  BY <1>1
<1>4. PICK tail : tail = IF sde[f].first = 0 THEN <<>> ELSE cluster_vec[f]
  OBVIOUS
<1>5. CASE Need(f, cnt) = 0
  <2>1. sde[f].first # 0 /\ cnt <= len
    BY <1>3, <1>5 DEF Need
  <2>2. UNCHANGED <<fat, recycled_cluster, free_cluster_cnt, cluster_vec>>
    BY <1>5 DEF incerase_size, table
  <2>3. ChainOf(fat, sde[f].first, cluster_vec[f])
    <3>1. cluster_vec[f] # <<>>
      BY <1>3, <2>1
    <3>. QED
      BY <1>2, <2>1, <3>1 DEF Handle
  <2>4. FreeIsFree'
    BY <1>2, <2>2 DEF FreeIsFree
  <2>5. KeepOthers(f)
    BY <2>2 DEF KeepOthers
  <2>6. Len(cluster_vec[f]) >= cnt
    BY <1>3, <2>1
  <2>7. Increased(f, cnt, Firsts)
    BY <1>1, <1>2, <2>1, <2>2, <2>3, <2>4, <2>5, <2>6 DEF Increased
  <2>. QED
    BY <2>7
<1>6. CASE Need(f, cnt) # 0
  <2>0. Need(f, cnt) = IF sde[f].first = 0 THEN cnt ELSE IF cnt > len THEN cnt - len ELSE 0
    BY <1>3 DEF Need
  <2>1. PICK need \in Nat \ {0} : /\ need = Need(f, cnt)
                                  /\ need = IF sde[f].first = 0 THEN cnt ELSE cnt - len
                                  /\ sde[f].first # 0 => len < cnt
    <3>1. CASE sde[f].first = 0
      BY <2>0, <3>1
    <3>2. CASE sde[f].first # 0
      <4>1. cnt > len /\ Need(f, cnt) = cnt - len
        BY <1>6, <2>0, <3>2
      <4>2. cnt - len \in Nat \ {0}
        BY <4>1
      <4>. QED
        BY <3>2, <4>1, <4>2
    <3>. QED
      BY <3>1, <3>2
  <2>2. sde[f].first # 0 => cluster_vec[f] # <<>>
    BY <1>6 DEF GrowPanic
  <2>3. PICK q \in Picks(need, sde[f].first) :
          /\ take(q) /\ fat' = Linked(q, tail) /\ cluster_vec' = [cluster_vec EXCEPT ![f] = tail \o q]
    BY <1>4, <1>6, <2>1 DEF incerase_size
  <2>4. NewClusters(q) /\ Len(q) = need
    BY <1>1, <1>2, PicksAreNew
  <2>5. q \in Seq(Clusters) /\ tail \in Seq(Clusters) /\ tail \o q \in Seq(Clusters)
    BY <1>1, <1>4, <2>4 DEF NewClusters
  <2>6. (Firsts[f] = 0 /\ tail = <<>>) \/ (Firsts[f] # 0 /\ ChainOf(fat, Firsts[f], tail))
    BY <1>1, <1>2, <1>4, <2>2 DEF Handle
  <2>7. PICK b2 : b2 = [Firsts EXCEPT ![f] = IF Firsts[f] = 0 THEN q[1] ELSE Firsts[f]]
    OBVIOUS
  <2>8. Grows(f, q, tail, Firsts, fat', b2)
    BY <1>1, <2>3, <2>4, <2>6, <2>7, GrowTable
  <2>9. /\ FreeIsFree' /\ recycled_cluster' \in Seq(Clusters)
        /\ free_cluster_cnt' \in 0 .. (LastCluster - 1)
    <3>1. \A c \in Clusters : fat'[c] = FREE_CLUSTER <=> fat[c] = FREE_CLUSTER /\ c \notin Elems(q)
      BY <2>8 DEF Grows
    <3>. QED
      BY <1>1, <1>2, <2>3, <3>1, TakeCounts
  <2>10. /\ cluster_vec' \in [Files -> Seq(Clusters)] /\ cluster_vec'[f] = tail \o q
         /\ \A g \in Files \ {f} : cluster_vec'[g] = cluster_vec[g]
    BY <1>1, <2>3, <2>5
  <2>11. Len(tail \o q) = cnt
    <3>1. Len(tail \o q) = Len(tail) + need
      BY <2>4, <2>5
    <3>2. Len(tail) = IF sde[f].first = 0 THEN 0 ELSE len
      BY <1>3, <1>4
    <3>. QED
      BY <2>1, <3>1, <3>2
  <2>12. sde[f].first = 0 => (tail \o q)[1] = q[1] /\ q[1] \in Clusters /\ q[1] # 0
    <3>1. 1 \in 1 .. Len(q)
      BY <2>4
    <3>2. q[1] \in Clusters /\ q[1] # 0
      BY <2>5, <3>1, Numbers
    <3>3. <<>> \o q = q
      BY <2>5
    <3>. QED
      BY <1>4, <3>2, <3>3
  <2>13. /\ b2 \in FirstFcn /\ b2[f] = (IF sde[f].first = 0 THEN cluster_vec'[f][1] ELSE sde[f].first)
         /\ b2[f] # 0 /\ \A g \in Files \ {f} : b2[g] = sde[g].first
    <3>1. b2 \in FirstFcn
      BY <2>8 DEF Grows
    <3>2. b2[f] = IF sde[f].first = 0 THEN q[1] ELSE sde[f].first
      BY <1>1, <2>7 DEF FirstFcn
    <3>3. \A g \in Files \ {f} : b2[g] = sde[g].first
      BY <1>1, <2>7 DEF FirstFcn
    <3>. QED
      BY <2>10, <2>12, <3>1, <3>2, <3>3
  <2>14. ~ (sde[f].first # 0 /\ Len(cluster_vec[f]) >= cnt)
    BY <1>3, <2>1
  <2>15. sde[f].first # 0 => ChainOf(fat, sde[f].first, cluster_vec[f])
    BY <1>1, <1>4, <2>6
  <2>16. KeepOthers(f)
    BY <2>8 DEF Grows, KeepOthers
  <2>17. /\ fat' \in [Clusters -> Link] /\ Apart(fat', b2) /\ ChainOf(fat', b2[f], cluster_vec'[f])
    BY <2>8, <2>10 DEF Grows
  <2>18. Len(cluster_vec'[f]) = cnt
    BY <2>10, <2>11
  <2>19. /\ \A c \in Clusters : fat'[c] # FREE_CLUSTER => fat[c] # FREE_CLUSTER \/ c \in Elems(cluster_vec'[f])
         /\ sde[f].first # 0 => Elems(cluster_vec[f]) \subseteq Elems(cluster_vec'[f])
    <3>1. Elems(tail) \subseteq Elems(tail \o q) /\ Elems(q) \subseteq Elems(tail \o q)
      BY <2>5, ElemsOfBoth
    <3>2. \A c \in Clusters : fat'[c] # FREE_CLUSTER => fat[c] # FREE_CLUSTER \/ c \in Elems(q)
      BY <2>8 DEF Grows
    <3>. QED
      BY <1>4, <2>10, <3>1, <3>2
  <2>20. Increased(f, cnt, b2)
    BY <2>9, <2>10, <2>13, <2>14, <2>15, <2>16, <2>17, <2>18, <2>19 DEF Increased
  <2>. QED
    BY <2>20
<1>. QED
  BY <1>5, <1>6

-----------------------------------------------------------------------------
(* One lemma per operation *)

LEMMA Combine ==
  ASSUME TypeOK', FreeIsFree', Shape', Apart(fat', Firsts'),
         \A f \in Files : Own(f)' /\ Handle(f)'
  PROVE  Inv'
<1>1. \A f \in Files : Firsts'[f] = sde'[f].first
  BY DEF Firsts
<1>2. ChainsApart'
  BY <1>1 DEF ChainsApart, Apart
<1>. QED
  BY <1>2 DEF Inv

\* A step that leaves the volume's tables and the VirtFiles alone.
LEMMA TablesSame ==
  ASSUME Inv, UNCHANGED <<fat, recycled_cluster, free_cluster_cnt, sde, cluster_vec, opened, moved>>,
         TypeOK'
  PROVE  Inv'
<1>1. ChainsApart' /\ FreeIsFree' /\ Shape'
  BY DEF Inv, ChainsApart, FreeIsFree, Shape, NoBytes
<1>2. \A f \in Files : Own(f)' /\ Handle(f)'
  BY DEF Inv, Own, Handle
<1>. QED
  BY <1>1, <1>2 DEF Inv

Panics == {"no", "space", "volume", "handle"}

LEMMA PanicKeeps ==
  ASSUME Inv, NEW why \in Panics, Panic(why)
  PROVE  Inv'
<1>1. TypeOK'
  BY DEF Inv, TypeOK, Panic, Panics, table, history
<1>. QED
  BY <1>1, TablesSame DEF Panic, table, history

LEMMA GrowPanicType ==
  ASSUME NEW f, NEW cnt
  PROVE  GrowPanic(f, cnt) \in Panics
BY DEF GrowPanic, Panics

\* An entry that loses its clusters, and one that gets those of another.
LEMMA DropApart ==
  ASSUME NEW t, NEW b \in FirstFcn, Apart(t, b), NEW s \in Files
  PROVE  Apart(t, [b EXCEPT ![s] = 0]) /\ [b EXCEPT ![s] = 0] \in FirstFcn
<1>1. PICK b2 : b2 = [b EXCEPT ![s] = 0]
  OBVIOUS
<1>2. b2 \in FirstFcn /\ \A g \in Files : b2[g] = IF g = s THEN 0 ELSE b[g]
  BY <1>1 DEF FirstFcn
<1>3. \A c \in Clusters : t[c] \in Clusters => t[c] # 0
  BY Numbers
<1>4. Apart(t, b2)
  BY <1>2, <1>3 DEF Apart
<1>. QED
  BY <1>1, <1>2, <1>4

LEMMA MoveApart ==
  ASSUME NEW t, NEW b \in FirstFcn, Apart(t, b), NEW s \in Files, NEW u \in Files, s # u, b[u] = 0,
         NEW b2, \A g \in Files : b2[g] = IF g = s THEN 0 ELSE IF g = u THEN b[s] ELSE b[g]
  PROVE  Apart(t, b2)
<1>1. \A c \in Clusters : t[c] \in Clusters => t[c] # 0
  BY Numbers
<1>2. \A f, g \in Files : b2[f] # 0 /\ b2[f] = b2[g] => f = g
  BY DEF Apart
<1>3. \A f \in Files, c \in Clusters : t[c] \in Clusters => t[c] # b2[f]
  BY <1>1 DEF Apart
<1>4. \A f \in Files : b2[f] # 0 => t[b2[f]] # FREE_CLUSTER
  BY DEF Apart
<1>. QED
  BY <1>2, <1>3, <1>4 DEF Apart

\* The directory grows for its entry n.
LEMMA RootGrows ==
  ASSUME Inv, NEW n \in Slots, GrowPanic(Root, Ceil(n, SlotsPerClus)) = "no",
         incerase_size(Root, Ceil(n, SlotsPerClus)), Root \in opened', sde'[Root] = sde[Root]
  PROVE  /\ \E b2 : Increased(Root, Ceil(n, SlotsPerClus), b2) /\ b2 = Firsts
         /\ Own(Root)' /\ Handle(Root)'
<1>1. PICK cnt : cnt = Ceil(n, SlotsPerClus)
  OBVIOUS
<1>2. n \in Nat \ {0} /\ n <= NumSlots /\ SlotsPerClus \in Nat \ {0} /\ NumSlots <= MaxChain * SlotsPerClus
      /\ MaxChain \in Nat /\ NumSlots \in Nat
  BY Fat32Assumption DEF Slots
<1>3. n <= MaxChain * SlotsPerClus
  <2>1. MaxChain * SlotsPerClus \in Nat
    BY <1>2
  <2>. QED
    BY <1>2, <2>1
<1>4. cnt \in Nat \ {0} /\ cnt <= MaxChain
  BY <1>1, <1>2, <1>3, CeilBound
<1>5. Root \in opened /\ sde[Root].first # 0 /\ Root \in Files
  BY Numbers DEF Inv, Shape
<1>6. PICK b2 : Increased(Root, cnt, b2)
  BY <1>1, <1>4, <1>5, Increase
<1>7. b2 = Firsts
  <2>1. \A g \in Files : b2[g] = sde[g].first
    BY <1>5, <1>6 DEF Increased
  <2>2. b2 \in FirstFcn /\ Firsts \in FirstFcn /\ \A g \in Files : Firsts[g] = sde[g].first
    BY <1>6, TypeFacts DEF Increased
  <2>. QED
    BY <2>1, <2>2 DEF FirstFcn
<1>8. ChainOf(fat', sde[Root].first, cluster_vec'[Root])
  BY <1>5, <1>6 DEF Increased
<1>9. Len(cluster_vec'[Root]) <= MaxChain
  <2>1. PICK q : ChainOf(fat, sde[Root].first, q) /\ Len(q) <= MaxChain
    BY <1>5 DEF Inv, Own
  <2>2. ChainOf(fat, sde[Root].first, cluster_vec[Root])
    BY <1>5, <1>6 DEF Increased
  <2>3. q = cluster_vec[Root]
    BY <2>1, <2>2, OneChain
  <2>4. Len(cluster_vec'[Root]) = cnt \/ Len(cluster_vec'[Root]) = Len(cluster_vec[Root])
    BY <1>6 DEF Increased
  <2>. QED
    BY <1>4, <2>1, <2>3, <2>4
<1>10. Own(Root)'
  BY <1>8, <1>9 DEF Own
<1>11. Handle(Root)'
  BY <1>8 DEF Handle
<1>. QED
  BY <1>1, <1>6, <1>7, <1>10, <1>11

LEMMA CreateKeeps ==
  ASSUME Inv, NEW s \in Slots, Create(s)
  PROVE  Inv'
<1>1. CASE GrowPanic(Root, Ceil(s, SlotsPerClus)) # "no"
  BY <1>1, PanicKeeps, GrowPanicType DEF Create
<1>2. CASE GrowPanic(Root, Ceil(s, SlotsPerClus)) = "no"
  <2>1. /\ incerase_size(Root, Ceil(s, SlotsPerClus))
        /\ sde' = [sde EXCEPT ![s] = Fresh] /\ data' = Cleared /\ opened' = opened \cup {s}
        /\ UNCHANGED <<halt, mounts, moved, leaky>> /\ sde[s].state = "empty"
    BY <1>2 DEF Create, history
  <2>2. s \in Files /\ s # Root /\ Root \in Files
    BY Numbers
  <2>3. /\ sde \in [Files -> Entry] /\ opened \subseteq Files
        /\ data \in [Clusters -> [0 .. (ClusterSize - 1) -> Byte]]
        /\ \A g \in Files : Firsts[g] = sde[g].first
    BY TypeFacts
  <2>4. \A g \in Files : sde'[g] = IF g = s THEN Fresh ELSE sde[g]
    BY <2>1, <2>3
  <2>5. Root \in opened /\ sde[s].first = 0
    BY <2>1, <2>2 DEF Inv, Shape
  <2>6. /\ \E b2 : Increased(Root, Ceil(s, SlotsPerClus), b2) /\ b2 = Firsts
        /\ Own(Root)' /\ Handle(Root)'
    BY <1>2, <2>1, <2>2, <2>4, <2>5, RootGrows
  <2>7. Increased(Root, Ceil(s, SlotsPerClus), Firsts)
    BY <2>6
  <2>8. Fresh \in Entry /\ Fresh.first = 0 /\ Fresh.state = "live" /\ Fresh.size = 0
    BY Fat32Assumption DEF Fresh, Entry
  <2>9. TypeOK'
    <3>1. sde' \in [Files -> Entry]
      BY <2>1, <2>3, <2>8
    <3>2. data' \in [Clusters -> [0 .. (ClusterSize - 1) -> Byte]]
      BY <2>1, <2>3, DataTypes
    <3>. QED
      BY <2>1, <2>2, <2>3, <2>7, <3>1, <3>2 DEF TypeOK, Inv, Increased
  <2>10. Firsts' = Firsts
    BY <2>3, <2>4, <2>5, <2>8 DEF Firsts
  <2>11. Apart(fat', Firsts')
    BY <2>7, <2>10 DEF Increased
  <2>12. Shape'
    <3>1. NoBytes'
      BY <2>2, <2>4, <2>8 DEF Inv, Shape, NoBytes
    <3>. QED
      BY <2>1, <2>2, <2>4, <2>7, <2>8, <3>1 DEF Inv, Shape, Increased
  <2>13. ASSUME NEW g \in Files PROVE Own(g)' /\ Handle(g)'
    <3>1. CASE g = Root
      BY <2>6, <3>1
    <3>2. CASE g = s
      BY <2>4, <2>8, <3>2 DEF Own, Handle
    <3>3. CASE g # Root /\ g # s
      <4>1. /\ KeepOthers(Root) /\ sde'[g] = sde[g] /\ cluster_vec'[g] = cluster_vec[g]
            /\ (g \in opened' => g \in opened) /\ (g \in moved => g \in moved')
        BY <2>1, <2>4, <2>7, <3>3 DEF Increased
      <4>. QED
        BY <3>3, <4>1, OthersKeep
    <3>. QED
      BY <3>1, <3>2, <3>3
  <2>14. FreeIsFree'
    BY <2>7 DEF Increased
  <2>. QED
    BY <2>9, <2>11, <2>12, <2>13, <2>14, Combine
<1>. QED
  BY <1>1, <1>2

LEMMA RenameKeeps ==
  ASSUME Inv, NEW s \in Slots, NEW t \in Slots, Rename(s, t)
  PROVE  Inv'
<1>1. CASE GrowPanic(Root, Ceil(t, SlotsPerClus)) # "no"
  BY <1>1, PanicKeeps, GrowPanicType DEF Rename
<1>2. CASE GrowPanic(Root, Ceil(t, SlotsPerClus)) = "no"
  <2>1. /\ incerase_size(Root, Ceil(t, SlotsPerClus))
        /\ sde' = [sde EXCEPT ![t] = sde[s], ![s] = Deleted] /\ data' = Cleared
        /\ opened' = opened \cup {t} /\ moved' = moved \cup {t} /\ leaky' = TRUE
        /\ UNCHANGED <<halt, mounts>>
        /\ s \in opened /\ sde[s].state = "live" /\ sde[t].state = "empty"
    BY <1>2 DEF Rename
  <2>2. s \in Files /\ s # Root /\ t \in Files /\ t # Root /\ Root \in Files /\ s # t
    BY <2>1, Numbers
  <2>3. /\ sde \in [Files -> Entry] /\ opened \subseteq Files /\ moved \subseteq Slots
        /\ data \in [Clusters -> [0 .. (ClusterSize - 1) -> Byte]]
        /\ Firsts \in FirstFcn /\ \A g \in Files : Firsts[g] = sde[g].first
    BY TypeFacts
  <2>4. \A g \in Files : sde'[g] = IF g = s THEN Deleted ELSE IF g = t THEN sde[s] ELSE sde[g]
    BY <2>1, <2>2, <2>3
  <2>5. Root \in opened /\ sde[t].first = 0 /\ t \notin opened /\ cluster_vec[t] = <<>>
    BY <2>1, <2>2 DEF Inv, Shape
  <2>6. /\ \E b2 : Increased(Root, Ceil(t, SlotsPerClus), b2) /\ b2 = Firsts
        /\ Own(Root)' /\ Handle(Root)'
    BY <1>2, <2>1, <2>2, <2>4, <2>5, RootGrows
  <2>7. Increased(Root, Ceil(t, SlotsPerClus), Firsts)
    BY <2>6
  <2>8. Deleted \in Entry /\ Deleted.first = 0 /\ Deleted.size = 0 /\ Deleted.state = "deleted" /\ sde[s] \in Entry
    BY <2>2, <2>3, Fat32Assumption DEF Deleted, Entry
  <2>9. TypeOK'
    <3>1. sde' \in [Files -> Entry]
      BY <2>1, <2>3, <2>8
    <3>2. data' \in [Clusters -> [0 .. (ClusterSize - 1) -> Byte]]
      BY <2>1, <2>3, DataTypes
    <3>. QED
      BY <2>1, <2>2, <2>3, <2>7, <3>1, <3>2 DEF TypeOK, Inv, Increased
  <2>10. \A g \in Files : Firsts'[g] = IF g = s THEN 0 ELSE IF g = t THEN Firsts[s] ELSE Firsts[g]
    BY <2>2, <2>3, <2>4, <2>8 DEF Firsts
  <2>11. Apart(fat', Firsts')
    <3>1. Apart(fat', Firsts) /\ Firsts[t] = 0
      BY <2>2, <2>3, <2>5, <2>7 DEF Increased
    <3>. QED
      BY <2>2, <2>3, <2>10, <3>1, MoveApart
  <2>12. Shape'
    <3>1. NoBytes'
      BY <2>2, <2>4, <2>8 DEF Inv, Shape, NoBytes
    <3>2. /\ Root \in opened' /\ sde'[Root] = sde[Root] /\ moved' \subseteq opened'
          /\ sde[Root].first # 0 /\ sde[Root].state = "live"
      BY <2>1, <2>2, <2>4, <2>5 DEF Inv, Shape
    <3>3. ASSUME NEW g \in Files, g \notin opened' PROVE cluster_vec'[g] = <<>>
      <4>1. g \notin opened /\ g # Root
        BY <2>1, <2>5, <3>3
      <4>. QED
        BY <2>7, <4>1 DEF Inv, Shape, Increased
    <3>4. ASSUME NEW g \in Files, sde'[g].state = "empty" PROVE g \notin opened' /\ sde'[g].first = 0
      <4>1. g # s /\ g # t /\ sde'[g] = sde[g]
        BY <2>1, <2>4, <2>8, <3>4
      <4>. QED
        BY <2>1, <3>4, <4>1 DEF Inv, Shape
    <3>. QED
      BY <3>1, <3>2, <3>3, <3>4 DEF Shape
  <2>13. KeepOthers(Root)
    BY <2>7 DEF Increased
  <2>14. Own(t)'
    <3>1. ASSUME sde[s].first # 0
          PROVE  \E q : /\ ChainOf(fat', sde[s].first, q) /\ Len(q) <= MaxChain
                        /\ Len(q) = Ceil(sde[s].size, ClusterSize)
      <4>1. PICK q : /\ ChainOf(fat, sde[s].first, q) /\ Len(q) <= MaxChain
                     /\ Len(q) = Ceil(sde[s].size, ClusterSize)
        BY <2>2, <3>1 DEF Inv, Own
      <4>2. ChainOf(fat', sde[s].first, q)
        BY <2>2, <2>3, <2>13, <3>1, <4>1 DEF KeepOthers
      <4>. QED
        BY <4>1, <4>2
    <3>. QED
      BY <2>2, <2>4, <3>1 DEF Own
  <2>15. Handle(t)'
    <3>1. cluster_vec'[t] = <<>> /\ t \in moved'
      BY <2>1, <2>2, <2>5, <2>7 DEF Increased
    <3>. QED
      BY <3>1 DEF Handle
  <2>16. ASSUME NEW g \in Files PROVE Own(g)' /\ Handle(g)'
    <3>1. CASE g = Root
      BY <2>6, <3>1
    <3>2. CASE g = s
      BY <2>4, <2>8, <3>2 DEF Own, Handle
    <3>3. CASE g = t
      BY <2>14, <2>15, <3>3
    <3>4. CASE g # Root /\ g # s /\ g # t
      <4>1. /\ sde'[g] = sde[g] /\ cluster_vec'[g] = cluster_vec[g]
            /\ (g \in opened' => g \in opened) /\ (g \in moved => g \in moved')
        BY <2>1, <2>4, <2>7, <3>4 DEF Increased
      <4>. QED
        BY <2>13, <3>4, <4>1, OthersKeep
    <3>. QED
      BY <3>1, <3>2, <3>3, <3>4
  <2>17. FreeIsFree'
    BY <2>7 DEF Increased
  <2>. QED
    BY <2>9, <2>11, <2>12, <2>16, <2>17, Combine
<1>. QED
  BY <1>1, <1>2

\* A file grows to n bytes.
LEMMA FileGrows ==
  ASSUME Inv, NEW s \in Slots, s \in opened, NEW n \in 1 .. MaxSize, n > sde[s].size,
         GrowPanic(s, Ceil(n, ClusterSize)) = "no", incerase_size(s, Ceil(n, ClusterSize)),
         sde' = [sde EXCEPT ![s] = Grown(s, n)],
         data' \in [Clusters -> [0 .. (ClusterSize - 1) -> Byte]],
         leaky' = Unlinked(s), UNCHANGED <<opened, halt, mounts, moved>>
  PROVE  Inv'
<1>1. PICK cnt : cnt = Ceil(n, ClusterSize)
  OBVIOUS
<1>2. /\ n \in Nat \ {0} /\ n \in Nat /\ ClusterSize \in Nat \ {0} /\ MaxChain \in Nat
      /\ n <= MaxChain * ClusterSize /\ n \in 0 .. MaxSize
  <2>1. MaxChain * ClusterSize \in Nat
    BY Fat32Assumption
  <2>. QED
    BY <2>1, Fat32Assumption
<1>3. cnt \in Nat \ {0} /\ cnt <= MaxChain
  BY <1>1, <1>2, CeilBound
<1>4. s \in Files /\ s # Root /\ Root \in Files
  BY Numbers
<1>5. /\ sde \in [Files -> Entry] /\ sde[s] \in Entry /\ sde[s].size \in Nat
      /\ \A g \in Files : Firsts[g] = sde[g].first
  BY <1>4, TypeFacts
<1>6. PICK b2 : Increased(s, cnt, b2)
  BY <1>1, <1>3, Increase
<1>7. Grown(s, n) = [sde[s] EXCEPT !.first = b2[s], !.size = n]
  BY <1>6 DEF Grown, Increased
<1>8. b2[s] \in Clusters /\ b2[s] # 0 /\ b2 \in FirstFcn
  BY <1>4, <1>6 DEF Increased, FirstFcn
<1>9. /\ Grown(s, n) \in Entry /\ Grown(s, n).first = b2[s] /\ Grown(s, n).size = n
      /\ Grown(s, n).state = sde[s].state
  BY <1>2, <1>5, <1>7, <1>8 DEF Entry
<1>10. \A g \in Files : sde'[g] = IF g = s THEN Grown(s, n) ELSE sde[g]
  BY <1>5
<1>11. Firsts' = b2
  <2>1. \A g \in Files : b2[g] = sde'[g].first
    BY <1>4, <1>6, <1>9, <1>10 DEF Increased
  <2>2. b2 = [g \in Files |-> b2[g]]
    BY <1>8 DEF FirstFcn
  <2>. QED
    BY <2>1, <2>2 DEF Firsts
<1>12. Len(cluster_vec'[s]) = cnt
  <2>1. CASE sde[s].first = 0
    BY <1>6, <2>1 DEF Increased
  <2>2. CASE sde[s].first # 0
    <3>1. ChainOf(fat, sde[s].first, cluster_vec[s])
      BY <1>6, <2>2 DEF Increased
    <3>2. PICK q : ChainOf(fat, sde[s].first, q) /\ Len(q) = Ceil(sde[s].size, ClusterSize)
      BY <1>4, <2>2 DEF Inv, Own
    <3>3. q = cluster_vec[s]
      BY <3>1, <3>2, OneChain
    <3>4. sde[s].size <= n
      BY <1>2, <1>5
    <3>5. Ceil(sde[s].size, ClusterSize) <= cnt
      BY <1>1, <1>2, <1>5, <3>4, CeilMonotone
    <3>6. Len(cluster_vec[s]) \in Nat /\ Len(cluster_vec[s]) <= cnt
      BY <1>4, <3>2, <3>3, <3>5, TypeFacts
    <3>7. Len(cluster_vec'[s]) = IF Len(cluster_vec[s]) >= cnt THEN Len(cluster_vec[s]) ELSE cnt
      BY <1>6, <2>2 DEF Increased
    <3>. QED
      BY <1>3, <3>6, <3>7
  <2>. QED
    BY <2>1, <2>2
<1>13. ChainOf(fat', sde'[s].first, cluster_vec'[s])
  BY <1>4, <1>6, <1>9, <1>10 DEF Increased
<1>14. Own(s)' /\ Handle(s)'
  <2>1. sde'[s].size = n
    BY <1>4, <1>9, <1>10
  <2>2. Len(cluster_vec'[s]) <= MaxChain /\ Len(cluster_vec'[s]) = Ceil(sde'[s].size, ClusterSize)
    BY <1>1, <1>3, <1>12, <2>1
  <2>. QED
    BY <1>13, <2>2 DEF Own, Handle
<1>15. ASSUME NEW g \in Files PROVE Own(g)' /\ Handle(g)'
  <2>1. CASE g = s
    BY <1>14, <2>1
  <2>2. CASE g # s
    <3>1. KeepOthers(s) /\ sde'[g] = sde[g] /\ cluster_vec'[g] = cluster_vec[g]
      BY <1>6, <1>10, <2>2 DEF Increased
    <3>. QED
      BY <2>2, <3>1, OthersKeep
  <2>. QED
    BY <2>1, <2>2
<1>16. TypeOK'
  <2>1. sde' \in [Files -> Entry]
    BY <1>5, <1>9
  <2>2. leaky' \in BOOLEAN
    BY DEF Unlinked, Inv, TypeOK
  <2>. QED
    BY <1>6, <2>1, <2>2 DEF TypeOK, Inv, Increased
<1>17. Shape'
  <2>1. \A g \in Files \ {s} : cluster_vec'[g] = cluster_vec[g]
    BY <1>6 DEF Increased
  <2>2. \A g \in Files : sde'[g].state = sde[g].state
    BY <1>9, <1>10
  <2>3. sde'[Root] = sde[Root] /\ sde[s].state # "empty"
    BY <1>4, <1>10 DEF Inv, Shape
  <2>4. NoBytes'
    BY <1>8, <1>9, <1>10 DEF Inv, Shape, NoBytes
  <2>. QED
    BY <1>4, <1>10, <2>1, <2>2, <2>3, <2>4 DEF Inv, Shape
<1>18. FreeIsFree' /\ Apart(fat', Firsts')
  BY <1>6, <1>11 DEF Increased
<1>. QED
  BY <1>15, <1>16, <1>17, <1>18, Combine

LEMMA WriteAtKeeps ==
  ASSUME Inv, NEW s \in Slots, NEW w \in Writes, NEW val \in Byte, WriteAt(s, w[1], w[2], val)
  PROVE  Inv'
<1>1. PICK off \in Nat, len \in Nat \ {0} : off = w[1] /\ len = w[2] /\ off + len <= MaxSize
  BY Fat32Assumption
<1>2. PICK end : end = off + len
  OBVIOUS
<1>3. end \in 1 .. MaxSize
  BY <1>1, <1>2, Fat32Assumption
<1>4. s \in opened /\ sde[s].size \in Nat
  BY TypeFacts, Numbers DEF WriteAt
<1>5. data \in [Clusters -> [0 .. (ClusterSize - 1) -> Byte]]
  BY TypeFacts
<1>6. CASE end <= sde[s].size /\ Len(cluster_vec[s]) < Ceil(end, ClusterSize)
  <2>1. Panic("handle")
    BY <1>1, <1>2, <1>6 DEF WriteAt
  <2>. QED
    BY <2>1, PanicKeeps DEF Panics
<1>7. CASE end <= sde[s].size /\ ~ (Len(cluster_vec[s]) < Ceil(end, ClusterSize))
  <2>1. /\ data' = Stored(data, cluster_vec[s], off, len, val)
        /\ UNCHANGED <<table, sde, cluster_vec, opened, halt, history>>
    BY <1>1, <1>2, <1>7 DEF WriteAt
  <2>2. data' \in [Clusters -> [0 .. (ClusterSize - 1) -> Byte]]
    BY <1>5, <2>1, DataTypes
  <2>3. TypeOK'
    BY <2>1, <2>2 DEF Inv, TypeOK, table, history
  <2>. QED
    BY <2>1, <2>3, TablesSame DEF table, history
<1>8. CASE ~ (end <= sde[s].size) /\ GrowPanic(s, Ceil(end, ClusterSize)) # "no"
  <2>1. Panic(GrowPanic(s, Ceil(end, ClusterSize)))
    BY <1>1, <1>2, <1>8 DEF WriteAt
  <2>. QED
    BY <2>1, PanicKeeps, GrowPanicType
<1>9. CASE ~ (end <= sde[s].size) /\ GrowPanic(s, Ceil(end, ClusterSize)) = "no"
  <2>1. /\ incerase_size(s, Ceil(end, ClusterSize))
        /\ sde' = [sde EXCEPT ![s] = Grown(s, end)]
        /\ data' = Stored(Cleared, cluster_vec'[s], off, len, val)
        /\ leaky' = Unlinked(s)
        /\ UNCHANGED <<opened, halt, mounts, moved>>
    BY <1>1, <1>2, <1>9 DEF WriteAt
  <2>2. data' \in [Clusters -> [0 .. (ClusterSize - 1) -> Byte]]
    BY <1>5, <2>1, DataTypes
  <2>3. end > sde[s].size
    BY <1>3, <1>4, <1>9
  <2>. QED
    BY <1>3, <1>4, <1>9, <2>1, <2>2, <2>3, FileGrows
<1>. QED
  BY <1>6, <1>7, <1>8, <1>9

LEMMA GrowKeeps ==
  ASSUME Inv, NEW s \in Slots, s \in opened, NEW n \in Sizes, n > sde[s].size, grow(s, n)
  PROVE  Inv'
<1>1. s \in Files /\ sde[s].size \in Nat /\ data \in [Clusters -> [0 .. (ClusterSize - 1) -> Byte]]
  BY TypeFacts, Numbers
<1>2. n \in 1 .. MaxSize
  BY <1>1, Fat32Assumption
<1>3. CASE GrowPanic(s, Ceil(n, ClusterSize)) # "no"
  BY <1>3, PanicKeeps, GrowPanicType DEF grow
<1>4. CASE GrowPanic(s, Ceil(n, ClusterSize)) = "no"
  <2>1. data' \in [Clusters -> [0 .. (ClusterSize - 1) -> Byte]]
    BY <1>1, <1>4, DataTypes DEF grow
  <2>. QED
    BY <1>2, <1>4, <2>1, FileGrows DEF grow
<1>. QED
  BY <1>3, <1>4

-----------------------------------------------------------------------------
(* Releasing clusters *)

\* What a release by entry s leaves; b2 are the first clusters after.
Given(s, b2) ==
  /\ fat' \in [Clusters -> Link] /\ recycled_cluster' \in Seq(Clusters)
  /\ free_cluster_cnt' \in 0 .. (LastCluster - 1) /\ FreeIsFree'
  /\ Apart(fat', b2) /\ KeepOthers(s)

\* The clusters of entry s behind the first l are released.
LEMMA Release ==
  ASSUME Inv, NEW s \in Files, sde[s].first # 0, NEW v, ChainOf(fat, sde[s].first, v),
         NEW l \in 0 .. Len(v), dealloc_cluster(SubSeq(v, l + 1, Len(v)), Cut(v, l))
  PROVE  /\ Given(s, IF l = 0 THEN [Firsts EXCEPT ![s] = 0] ELSE Firsts)
         /\ l > 0 => ChainOf(fat', sde[s].first, SubSeq(v, 1, l))
         /\ \A c \in Clusters :
              fat'[c] = FREE_CLUSTER <=> fat[c] = FREE_CLUSTER \/ c \in Elems(SubSeq(v, l + 1, Len(v)))
<1>1. /\ fat \in [Clusters -> Link] /\ recycled_cluster \in Seq(Clusters)
      /\ Firsts \in FirstFcn /\ Firsts[s] = sde[s].first /\ Apart(fat, Firsts)
  BY TypeFacts
<1>2. PICK w : w = SubSeq(v, l + 1, Len(v))
  OBVIOUS
<1>3. fat' = Released(v, l) /\ recycled_cluster' = recycled_cluster \o w
      /\ free_cluster_cnt' = free_cluster_cnt + Len(w)
  BY <1>2 DEF dealloc_cluster, Released
<1>4. PICK b2 : b2 = IF l = 0 THEN [Firsts EXCEPT ![s] = 0] ELSE Firsts
  OBVIOUS
<1>5. Shrinks(s, v, l, Firsts, fat', b2)
  <2>1. Shrinks(s, v, l, Firsts, Released(v, l), IF l = 0 THEN [Firsts EXCEPT ![s] = 0] ELSE Firsts)
    BY <1>1, ShrinkTable
  <2>. QED
    BY <1>3, <1>4, <2>1
<1>6. /\ v \in Seq(Clusters) /\ Len(v) \in Nat
      /\ \A i \in 1 .. Len(v) : v[i] \in Clusters /\ fat[v[i]] # FREE_CLUSTER
  BY ChainLinks DEF ChainOf
<1>7. /\ w \in Seq(Clusters) /\ Len(w) = Len(v) - l
      /\ \A i \in 1 .. (Len(v) - l) : w[i] = v[l + i]
  BY <1>2, <1>6, PieceElems
<1>8. \A i \in 1 .. Len(w) : l + i \in 1 .. Len(v) /\ w[i] = v[l + i]
  BY <1>6, <1>7
<1>9. \A i \in 1 .. Len(w) : fat[w[i]] # FREE_CLUSTER
  BY <1>6, <1>8
<1>10. ASSUME NEW i \in 1 .. Len(w), NEW j \in 1 .. Len(w), w[i] = w[j] PROVE i = j
  <2>1. l + i = l + j
    BY <1>1, <1>8, <1>10, ChainsMeet
  <2>. QED
    BY <2>1
<1>11. \A c \in Clusters : fat'[c] = FREE_CLUSTER <=> fat[c] = FREE_CLUSTER \/ c \in Elems(w)
  BY <1>2, <1>5 DEF Shrinks
<1>12. /\ FreeIsFree' /\ recycled_cluster' \in Seq(Clusters)
       /\ free_cluster_cnt' \in 0 .. (LastCluster - 1)
  <2>1. FreeIsFree
    BY DEF Inv
  <2>. QED
    BY <1>1, <1>3, <1>7, <1>9, <1>10, <1>11, <2>1, GiveCounts
<1>13. KeepOthers(s)
  BY <1>5 DEF Shrinks, KeepOthers
<1>14. fat' \in [Clusters -> Link] /\ Apart(fat', b2) /\ (l > 0 => ChainOf(fat', sde[s].first, SubSeq(v, 1, l)))
  BY <1>1, <1>5 DEF Shrinks
<1>. QED
  BY <1>2, <1>4, <1>11, <1>12, <1>13, <1>14 DEF Given

\* Entry s is left without clusters, and becomes e.
LEMMA Emptied ==
  ASSUME Inv, NEW s \in Slots, s \in opened, Given(s, [Firsts EXCEPT ![s] = 0]),
         NEW e \in Entry, e.first = 0, e.size = 0, e.state # "empty", sde' = [sde EXCEPT ![s] = e],
         cluster_vec' \in [Files -> Seq(Clusters)],
         \A g \in Files \ {s} : cluster_vec'[g] = cluster_vec[g],
         UNCHANGED <<opened, data, halt, mounts, moved, leaky>>
  PROVE  Inv'
<1>1. s \in Files /\ s # Root /\ Root \in Files
  BY Numbers
<1>2. sde \in [Files -> Entry] /\ Firsts \in FirstFcn /\ \A g \in Files : Firsts[g] = sde[g].first
  BY TypeFacts
<1>3. \A g \in Files : sde'[g] = IF g = s THEN e ELSE sde[g]
  BY <1>2
<1>4. Firsts' = [Firsts EXCEPT ![s] = 0]
  <2>1. Firsts' = [g \in Files |-> IF g = s THEN 0 ELSE sde[g].first]
    BY <1>3 DEF Firsts
  <2>2. [Firsts EXCEPT ![s] = 0] = [g \in Files |-> IF g = s THEN 0 ELSE sde[g].first]
    BY <1>2 DEF FirstFcn
  <2>. QED
    BY <2>1, <2>2
<1>5. Apart(fat', Firsts') /\ FreeIsFree'
  BY <1>4 DEF Given
<1>6. TypeOK'
  <2>1. sde' \in [Files -> Entry]
    BY <1>2
  <2>. QED
    BY <2>1 DEF TypeOK, Inv, Given
<1>7. Shape'
  <2>1. NoBytes'
    BY <1>3 DEF Inv, Shape, NoBytes
  <2>. QED
    BY <1>1, <1>3, <2>1 DEF Inv, Shape
<1>8. ASSUME NEW g \in Files PROVE Own(g)' /\ Handle(g)'
  <2>1. CASE g = s
    BY <1>3, <2>1 DEF Own, Handle
  <2>2. CASE g # s
    <3>1. KeepOthers(s) /\ sde'[g] = sde[g] /\ cluster_vec'[g] = cluster_vec[g]
      BY <1>3, <2>2 DEF Given
    <3>. QED
      BY <2>2, <3>1, OthersKeep
  <2>. QED
    BY <2>1, <2>2
<1>. QED
  BY <1>5, <1>6, <1>7, <1>8, Combine

\* Nothing is released: the entry's clusters, if any, stay allocated.
LEMMA NothingGiven ==
  ASSUME Inv, NEW s \in Files, UNCHANGED <<fat, recycled_cluster, free_cluster_cnt>>
  PROVE  Given(s, [Firsts EXCEPT ![s] = 0])
<1>1. /\ fat \in [Clusters -> Link] /\ recycled_cluster \in Seq(Clusters)
      /\ Firsts \in FirstFcn /\ Apart(fat, Firsts)
  BY TypeFacts
<1>2. Apart(fat, [Firsts EXCEPT ![s] = 0])
  BY <1>1, DropApart
<1>3. FreeIsFree' /\ free_cluster_cnt \in 0 .. (LastCluster - 1)
  BY DEF Inv, FreeIsFree, TypeOK
<1>4. KeepOthers(s)
  BY DEF KeepOthers
<1>. QED
  BY <1>1, <1>2, <1>3, <1>4 DEF Given

LEMMA DeallocNothing ==
  ASSUME Inv, dealloc_cluster(<<>>, fat)
  PROVE  UNCHANGED <<fat, recycled_cluster, free_cluster_cnt>>
<1>1. fat \in [Clusters -> Link] /\ recycled_cluster \in Seq(Clusters) /\ free_cluster_cnt \in Nat
  BY TypeFacts DEF Inv, TypeOK
<1>2. Elems(<<>>) = {}
  BY DEF Elems
<1>3. fat' = [c \in Clusters |-> fat[c]]
  BY <1>2 DEF dealloc_cluster
<1>4. recycled_cluster \o <<>> = recycled_cluster
  BY <1>1
<1>5. free_cluster_cnt + Len(<<>>) = free_cluster_cnt
  BY <1>1
<1>. QED
  BY <1>1, <1>3, <1>4, <1>5 DEF dealloc_cluster

\* The whole chain of entry s is released.
LEMMA ReleaseAll ==
  ASSUME Inv, NEW s \in Files, sde[s].first # 0, NEW v, ChainOf(fat, sde[s].first, v),
         dealloc_cluster(v, fat)
  PROVE  /\ Given(s, [Firsts EXCEPT ![s] = 0])
         /\ \A c \in Clusters : fat'[c] = FREE_CLUSTER <=> fat[c] = FREE_CLUSTER \/ c \in Elems(v)
<1>1. v \in Seq(Clusters) /\ Len(v) \in Nat
  BY DEF ChainOf
<1>2. SubSeq(v, 0 + 1, Len(v)) = v
  BY <1>1
<1>3. Cut(v, 0) = fat
  BY DEF Cut
<1>4. 0 \in 0 .. Len(v)
  BY <1>1
<1>5. dealloc_cluster(SubSeq(v, 0 + 1, Len(v)), Cut(v, 0))
  BY <1>2, <1>3
<1>6. /\ Given(s, [Firsts EXCEPT ![s] = 0])
      /\ \A c \in Clusters :
           fat'[c] = FREE_CLUSTER <=> fat[c] = FREE_CLUSTER \/ c \in Elems(SubSeq(v, 0 + 1, Len(v)))
  BY <1>4, <1>5, Release
<1>. QED
  BY <1>2, <1>6

\* What get_all_cluster_id reads is a chain.
LEMMA ChainReads ==
  ASSUME NEW t, NEW c, NEW q \in Chain(t, c)
  PROVE  /\ c # 0 => ChainOf(t, c, q) /\ Len(q) <= MaxChain
         /\ c = 0 => q = <<>>
         /\ q \in Seq(Clusters)
<1>1. CASE c = 0
  BY <1>1 DEF Chain
<1>2. CASE c # 0
  <2>1. PICK n \in 1 .. MaxChain : q \in [1 .. n -> Clusters] /\ IsChain(t, c, q)
    BY <1>2 DEF Chain
  <2>2. n \in Nat /\ n <= MaxChain
    BY Fat32Assumption
  <2>3. q \in Seq(Clusters) /\ Len(q) = n
    BY <2>1, <2>2
  <2>. QED
    BY <1>2, <2>1, <2>2, <2>3 DEF ChainOf
<1>. QED
  BY <1>1, <1>2

LEMMA ClearContentKeeps ==
  ASSUME Inv, NEW s \in Slots, s \in opened, clear_content(s)
  PROVE  Inv'
<1>1. s \in Files /\ sde \in [Files -> Entry] /\ sde[s] \in Entry /\ cluster_vec \in [Files -> Seq(Clusters)]
  BY Numbers, TypeFacts
<1>2. PICK q \in Chain(fat, sde[s].first) : dealloc_cluster(q, fat)
  BY DEF clear_content
<1>3. Given(s, [Firsts EXCEPT ![s] = 0])
  <2>1. CASE sde[s].first = 0
    <3>1. q = <<>>
      BY <2>1, ChainReads
    <3>. QED
      BY <1>1, <1>2, <3>1, DeallocNothing, NothingGiven
  <2>2. CASE sde[s].first # 0
    <3>1. ChainOf(fat, sde[s].first, q)
      BY <2>2, ChainReads
    <3>. QED
      BY <1>1, <1>2, <2>2, <3>1, ReleaseAll
  <2>. QED
    BY <2>1, <2>2
<1>4. PICK e : e = [sde[s] EXCEPT !.first = 0, !.size = 0]
  OBVIOUS
<1>5. e \in Entry /\ e.first = 0 /\ e.size = 0 /\ e.state = sde[s].state
  <2>1. 0 \in 0 .. MaxSize
    BY Fat32Assumption
  <2>. QED
    BY <1>1, <1>4, <2>1 DEF Entry
<1>6. sde[s].state # "empty"
  BY <1>1 DEF Inv, Shape
<1>7. sde' = [sde EXCEPT ![s] = e]
  BY <1>1, <1>4 DEF clear_content, Entry
<1>. QED
  BY <1>1, <1>3, <1>5, <1>6, <1>7, Emptied DEF clear_content, history

LEMMA ClearKeeps ==
  ASSUME Inv, NEW s \in Slots, Clear(s)
  PROVE  Inv'
<1>1. s \in Files /\ s \in opened /\ sde' = [sde EXCEPT ![s] = Deleted]
      /\ cluster_vec \in [Files -> Seq(Clusters)]
      /\ UNCHANGED <<opened, data, halt, mounts, moved, leaky>>
  BY Numbers, TypeFacts DEF Clear, history
<1>2. Deleted \in Entry /\ Deleted.first = 0 /\ Deleted.size = 0 /\ Deleted.state # "empty"
  BY Fat32Assumption DEF Deleted, Entry
<1>3. /\ cluster_vec' \in [Files -> Seq(Clusters)]
      /\ \A g \in Files \ {s} : cluster_vec'[g] = cluster_vec[g]
  <2>1. cluster_vec' = cluster_vec \/ cluster_vec' = [cluster_vec EXCEPT ![s] = <<>>]
    BY DEF Clear
  <2>2. <<>> \in Seq(Clusters)
    OBVIOUS
  <2>3. CASE cluster_vec' = cluster_vec
    BY <1>1, <2>3
  <2>4. CASE cluster_vec' = [cluster_vec EXCEPT ![s] = <<>>]
    BY <1>1, <2>2, <2>4
  <2>. QED
    BY <2>1, <2>3, <2>4
<1>4. Given(s, [Firsts EXCEPT ![s] = 0])
  <2>1. CASE sde[s].first = 0
    BY <1>1, <2>1, NothingGiven DEF Clear, table
  <2>2. CASE sde[s].first # 0 /\ cluster_vec[s] = <<>>
    <3>1. dealloc_cluster(<<>>, fat)
      BY <2>2 DEF Clear
    <3>. QED
      BY <1>1, <3>1, DeallocNothing, NothingGiven
  <2>3. CASE sde[s].first # 0 /\ cluster_vec[s] # <<>>
    <3>1. ChainOf(fat, sde[s].first, cluster_vec[s]) /\ dealloc_cluster(cluster_vec[s], fat)
      BY <1>1, <2>3 DEF Clear, Inv, Handle
    <3>. QED
      BY <1>1, <2>3, <3>1, ReleaseAll
  <2>. QED
    BY <2>1, <2>2, <2>3
<1>. QED
  BY <1>1, <1>2, <1>3, <1>4, Emptied

\* What is left when entry s keeps the first l clusters of its chain v.
CutBack(s, v, l) ==
  /\ ChainOf(fat, sde[s].first, v) /\ l \in 1 .. Len(v)
  /\ Given(s, Firsts) /\ ChainOf(fat', sde[s].first, SubSeq(v, 1, l))
  /\ \A c \in Clusters :
       fat'[c] = FREE_CLUSTER <=> fat[c] = FREE_CLUSTER \/ c \in Elems(SubSeq(v, l + 1, Len(v)))
  /\ recycled_cluster' = recycled_cluster \o SubSeq(v, l + 1, Len(v))

LEMMA ShrinkCuts ==
  ASSUME Inv, NEW s \in Slots, s \in opened, NEW n \in Sizes, 0 < n, n < sde[s].size, shrink(s, n)
  PROVE  \/ Panic("handle")
         \/ /\ CutBack(s, cluster_vec[s], Ceil(n, ClusterSize))
            /\ cluster_vec' = [cluster_vec EXCEPT ![s] = SubSeq(cluster_vec[s], 1, Ceil(n, ClusterSize))]
            /\ sde' = [sde EXCEPT ![s].size = n]
            /\ UNCHANGED <<opened, data, halt, mounts, moved, leaky>>
<1>1. /\ s \in Files /\ s # Root /\ cluster_vec[s] \in Seq(Clusters)
      /\ sde[s].size \in Nat /\ sde[s].first # 0
  <2>1. s \in Files /\ s # Root /\ sde[s].size \in Nat
    BY Numbers, TypeFacts
  <2>2. sde[s].size # 0
    BY <2>1, Fat32Assumption
  <2>. QED
    BY <2>1, <2>2, TypeFacts DEF Inv, Shape, NoBytes
<1>2. n \in Nat /\ n <= sde[s].size /\ ClusterSize \in Nat \ {0}
  BY <1>1, Fat32Assumption
<1>3. PICK vec \in Seq(Clusters) : vec = cluster_vec[s]
  BY <1>1
<1>4. PICK l : l = Ceil(n, ClusterSize)
  OBVIOUS
<1>5. PICK r : r = Ceil(sde[s].size, ClusterSize)
  OBVIOUS
<1>6. l \in Nat \ {0} /\ r \in Nat /\ l <= r
  <2>1. l \in Nat /\ r \in Nat /\ l > 0
    BY <1>1, <1>2, <1>4, <1>5, CeilFacts
  <2>2. l <= r
    BY <1>1, <1>2, <1>4, <1>5, CeilMonotone
  <2>. QED
    BY <2>1, <2>2
<1>7. CASE Len(vec) < r
  BY <1>3, <1>5, <1>7 DEF shrink
<1>8. CASE ~ (Len(vec) < r)
  <2>1. /\ dealloc_cluster(SubSeq(vec, l + 1, r), [fat EXCEPT ![vec[l]] = END_OF_CLUSTER])
        /\ cluster_vec' = [cluster_vec EXCEPT ![s] = SubSeq(vec, 1, l)]
        /\ sde' = [sde EXCEPT ![s].size = n]
        /\ UNCHANGED <<opened, data, halt, mounts, moved, leaky>>
    BY <1>3, <1>4, <1>5, <1>8 DEF shrink, history
  <2>2. ChainOf(fat, sde[s].first, vec)
    <3>1. vec # <<>>
      BY <1>6, <1>8
    <3>. QED
      BY <1>1, <1>3, <3>1 DEF Inv, Handle
  <2>3. Len(vec) = r
    <3>1. PICK q : ChainOf(fat, sde[s].first, q) /\ Len(q) = Ceil(sde[s].size, ClusterSize)
      BY <1>1 DEF Inv, Own
    <3>2. q = vec
      BY <2>2, <3>1, OneChain
    <3>. QED
      BY <1>5, <3>1, <3>2
  <2>4. l \in 0 .. Len(vec) /\ l \in 1 .. Len(vec) /\ l > 0 /\ l # 0
    BY <1>6, <2>3
  <2>5. Cut(vec, l) = [fat EXCEPT ![vec[l]] = END_OF_CLUSTER]
    BY <2>4 DEF Cut
  <2>6. dealloc_cluster(SubSeq(vec, l + 1, Len(vec)), Cut(vec, l))
    BY <2>1, <2>3, <2>5
  <2>7. /\ Given(s, Firsts) /\ ChainOf(fat', sde[s].first, SubSeq(vec, 1, l))
        /\ \A c \in Clusters :
             fat'[c] = FREE_CLUSTER <=> fat[c] = FREE_CLUSTER \/ c \in Elems(SubSeq(vec, l + 1, Len(vec)))
    BY <1>1, <2>2, <2>4, <2>6, Release
  <2>8. recycled_cluster' = recycled_cluster \o SubSeq(vec, l + 1, Len(vec))
    BY <2>6 DEF dealloc_cluster
  <2>9. CutBack(s, vec, l)
    BY <2>2, <2>4, <2>7, <2>8 DEF CutBack
  <2>. QED
    BY <1>3, <1>4, <2>1, <2>9
<1>. QED
  BY <1>7, <1>8

LEMMA ShrinkKeeps ==
  ASSUME Inv, NEW s \in Slots, s \in opened, NEW n \in Sizes, 0 < n, n < sde[s].size, shrink(s, n)
  PROVE  Inv'
<1>1. /\ s \in Files /\ s # Root /\ Root \in Files /\ sde \in [Files -> Entry] /\ sde[s] \in Entry
      /\ cluster_vec \in [Files -> Seq(Clusters)] /\ cluster_vec[s] \in Seq(Clusters)
      /\ Firsts \in FirstFcn /\ \A g \in Files : Firsts[g] = sde[g].first
  BY Numbers, TypeFacts
<1>2. n \in 0 .. MaxSize /\ MaxChain \in Nat
  BY Fat32Assumption
<1>3. PICK vec \in Seq(Clusters) : vec = cluster_vec[s]
  BY <1>1
<1>4. PICK l : l = Ceil(n, ClusterSize)
  OBVIOUS
<1>5. CASE Panic("handle")
  BY <1>5, PanicKeeps DEF Panics
<1>6. CASE ~ Panic("handle")
  <2>1. /\ CutBack(s, vec, l)
        /\ cluster_vec' = [cluster_vec EXCEPT ![s] = SubSeq(vec, 1, l)]
        /\ sde' = [sde EXCEPT ![s].size = n]
        /\ UNCHANGED <<opened, data, halt, mounts, moved, leaky>>
    BY <1>3, <1>4, <1>6, ShrinkCuts
  <2>2. ChainOf(fat, sde[s].first, vec) /\ l \in 1 .. Len(vec) /\ sde[s].first # 0
    <3>1. ChainOf(fat, sde[s].first, vec) /\ l \in 1 .. Len(vec)
      BY <2>1 DEF CutBack
    <3>2. vec[1] = sde[s].first /\ vec[1] \in Clusters
      BY <3>1, ChainLinks
    <3>. QED
      BY <3>1, <3>2, Numbers
  <2>3. Len(vec) <= MaxChain
    <3>1. PICK q : ChainOf(fat, sde[s].first, q) /\ Len(q) <= MaxChain
      BY <1>1, <2>2 DEF Inv, Own
    <3>2. q = vec
      BY <2>2, <3>1, OneChain
    <3>. QED
      BY <3>1, <3>2
  <2>4. Given(s, Firsts) /\ ChainOf(fat', sde[s].first, SubSeq(vec, 1, l))
    BY <2>1 DEF CutBack
  <2>5. SubSeq(vec, 1, l) \in Seq(Clusters) /\ Len(SubSeq(vec, 1, l)) = l
    BY <2>2
  <2>6. PICK e : e = [sde[s] EXCEPT !.size = n]
    OBVIOUS
  <2>7. e \in Entry /\ e.first = sde[s].first /\ e.size = n /\ e.state = sde[s].state
    BY <1>1, <1>2, <2>6 DEF Entry
  <2>8. sde' = [sde EXCEPT ![s] = e]
    BY <1>1, <2>1, <2>6
  <2>9. /\ \A g \in Files : sde'[g] = IF g = s THEN e ELSE sde[g]
        /\ \A g \in Files : sde'[g].first = sde[g].first /\ sde'[g].state = sde[g].state
    BY <1>1, <2>7, <2>8
  <2>10. Firsts' = Firsts
    BY <2>9 DEF Firsts
  <2>11. /\ cluster_vec' \in [Files -> Seq(Clusters)] /\ cluster_vec'[s] = SubSeq(vec, 1, l)
         /\ \A g \in Files \ {s} : cluster_vec'[g] = cluster_vec[g]
    BY <1>1, <2>1, <2>5
  <2>12. TypeOK'
    <3>1. sde' \in [Files -> Entry]
      BY <1>1, <2>7, <2>8
    <3>. QED
      BY <2>1, <2>4, <2>11, <3>1 DEF TypeOK, Inv, Given
  <2>13. Shape'
    <3>1. NoBytes'
      BY <2>2, <2>7, <2>9 DEF Inv, Shape, NoBytes
    <3>. QED
      BY <1>1, <2>1, <2>9, <2>11, <3>1 DEF Inv, Shape
  <2>14. Own(s)' /\ Handle(s)'
    <3>1. ChainOf(fat', sde'[s].first, cluster_vec'[s])
      BY <1>1, <2>4, <2>9, <2>11
    <3>2. Len(cluster_vec'[s]) = Ceil(sde'[s].size, ClusterSize)
      BY <1>1, <1>4, <2>5, <2>7, <2>9, <2>11
    <3>3. Len(cluster_vec'[s]) <= MaxChain
      BY <1>2, <2>2, <2>3, <2>5, <2>11
    <3>. QED
      BY <3>1, <3>2, <3>3 DEF Own, Handle
  <2>15. ASSUME NEW g \in Files PROVE Own(g)' /\ Handle(g)'
    <3>1. CASE g = s
      BY <2>14, <3>1
    <3>2. CASE g # s
      <4>1. KeepOthers(s) /\ sde'[g] = sde[g] /\ cluster_vec'[g] = cluster_vec[g]
        BY <2>4, <2>9, <2>11, <3>2 DEF Given
      <4>. QED
        BY <2>1, <3>2, <4>1, OthersKeep
    <3>. QED
      BY <3>1, <3>2
  <2>16. FreeIsFree' /\ Apart(fat', Firsts')
    BY <2>4, <2>10 DEF Given
  <2>. QED
    BY <2>12, <2>13, <2>15, <2>16, Combine
<1>. QED
  BY <1>5, <1>6

-----------------------------------------------------------------------------
(* VirtFiles that come and go *)

\* A step that changes only the VirtFiles, and at most what recycled_cluster is.
LEMMA FilesSame ==
  ASSUME Inv, UNCHANGED <<fat, free_cluster_cnt, sde>>, TypeOK', FreeIsFree', Shape',
         \A f \in Files : Handle(f)'
  PROVE  Inv'
<1>1. ChainsApart'
  BY DEF Inv, ChainsApart
<1>2. \A f \in Files : Own(f)'
  BY DEF Inv, Own
<1>. QED
  BY <1>1, <1>2 DEF Inv

LEMMA OpenKeeps ==
  ASSUME Inv, NEW s \in Slots, Open(s)
  PROVE  Inv'
<1>1. /\ s \in Files /\ s # Root /\ Root \in Files
      /\ cluster_vec \in [Files -> Seq(Clusters)] /\ opened \subseteq Files
  BY Numbers, TypeFacts
<1>2. /\ UNCHANGED <<fat, recycled_cluster, free_cluster_cnt, sde, data, halt, mounts, moved, leaky>>
      /\ sde[s].state = "live" /\ opened' = opened \cup {s}
  BY DEF Open, table, history
<1>3. PICK q \in Chain(fat, sde[s].first) : cluster_vec' = [cluster_vec EXCEPT ![s] = q]
  BY DEF Open
<1>4. q \in Seq(Clusters) /\ (sde[s].first # 0 => ChainOf(fat, sde[s].first, q))
  BY ChainReads
<1>5. /\ cluster_vec' \in [Files -> Seq(Clusters)] /\ cluster_vec'[s] = q
      /\ \A g \in Files \ {s} : cluster_vec'[g] = cluster_vec[g]
  BY <1>1, <1>3, <1>4
<1>6. TypeOK'
  BY <1>1, <1>2, <1>5 DEF Inv, TypeOK
<1>7. FreeIsFree'
  BY <1>2 DEF Inv, FreeIsFree
<1>8. Shape'
  BY <1>1, <1>2, <1>5 DEF Inv, Shape, NoBytes
<1>9. ASSUME NEW g \in Files PROVE Handle(g)'
  <2>1. CASE g = s
    BY <1>2, <1>4, <1>5, <2>1 DEF Handle
  <2>2. CASE g # s
    BY <1>2, <1>5, <2>2 DEF Inv, Handle
  <2>. QED
    BY <2>1, <2>2
<1>. QED
  BY <1>2, <1>6, <1>7, <1>8, <1>9, FilesSame

LEMMA CloseKeeps ==
  ASSUME Inv, NEW s \in Slots, Close(s)
  PROVE  Inv'
<1>1. /\ s \in Files /\ s # Root /\ Root \in Files
      /\ cluster_vec \in [Files -> Seq(Clusters)] /\ opened \subseteq Files
  BY Numbers, TypeFacts
<1>2. /\ UNCHANGED <<fat, recycled_cluster, free_cluster_cnt, sde, data, halt, mounts, leaky>>
      /\ opened' = opened \ {s} /\ moved' = moved \ {s}
      /\ cluster_vec' = [cluster_vec EXCEPT ![s] = <<>>] /\ s \in opened
  BY DEF Close, table
<1>3. /\ cluster_vec' \in [Files -> Seq(Clusters)] /\ cluster_vec'[s] = <<>>
      /\ \A g \in Files \ {s} : cluster_vec'[g] = cluster_vec[g]
  <2>1. <<>> \in Seq(Clusters)
    OBVIOUS
  <2>. QED
    BY <1>1, <1>2, <2>1
<1>4. TypeOK'
  BY <1>1, <1>2, <1>3 DEF Inv, TypeOK
<1>5. FreeIsFree'
  BY <1>2 DEF Inv, FreeIsFree
<1>6. Shape'
  BY <1>1, <1>2, <1>3 DEF Inv, Shape, NoBytes
<1>7. ASSUME NEW g \in Files PROVE Handle(g)'
  BY <1>2, <1>3 DEF Inv, Handle
<1>. QED
  BY <1>2, <1>4, <1>5, <1>6, <1>7, FilesSame

LEMMA RemountKeeps ==
  ASSUME Inv, Remount
  PROVE  Inv'
<1>1. Root \in Files /\ Root \notin Slots /\ sde[Root].first # 0 /\ sde[Root].state = "live"
  BY Numbers DEF Inv, Shape
<1>2. /\ UNCHANGED <<fat, free_cluster_cnt, sde, data, halt, leaky>> /\ mounts < MaxMounts
      /\ mounts' = mounts + 1 /\ recycled_cluster' = <<>> /\ opened' = {Root} /\ moved' = {}
  BY DEF Remount
<1>3. PICK q \in Chain(fat, sde[Root].first) :
        cluster_vec' = [f \in Files |-> IF f = Root THEN q ELSE <<>>]
  BY DEF Remount
<1>4. q \in Seq(Clusters) /\ ChainOf(fat, sde[Root].first, q) /\ <<>> \in Seq(Clusters)
  BY <1>1, ChainReads
<1>5. /\ cluster_vec' \in [Files -> Seq(Clusters)]
      /\ cluster_vec'[Root] = q /\ \A g \in Files \ {Root} : cluster_vec'[g] = <<>>
  BY <1>1, <1>3, <1>4
<1>6. TypeOK'
  <2>1. mounts' \in 0 .. MaxMounts
    BY <1>2, Fat32Assumption DEF Inv, TypeOK
  <2>. QED
    BY <1>1, <1>2, <1>4, <1>5, <2>1 DEF Inv, TypeOK
<1>7. FreeIsFree'
  BY <1>2 DEF Inv, FreeIsFree
<1>8. Shape'
  <2>1. \A f \in Files : sde[f].state = "empty" => f # Root /\ sde[f].first = 0
    BY <1>1 DEF Inv, Shape
  <2>2. NoBytes'
    BY <1>2 DEF Inv, Shape, NoBytes
  <2>. QED
    BY <1>1, <1>2, <1>5, <2>1, <2>2 DEF Shape
<1>9. ASSUME NEW g \in Files PROVE Handle(g)'
  BY <1>2, <1>4, <1>5 DEF Handle
<1>. QED
  BY <1>2, <1>6, <1>7, <1>8, <1>9, FilesSame

LEMMA InitInv == Init => Inv
<1>. SUFFICES ASSUME Init PROVE Inv
  OBVIOUS
<1>1. /\ FREE_CLUSTER \notin Clusters /\ END_OF_CLUSTER \notin Clusters /\ FREE_CLUSTER = 0
      /\ FREE_CLUSTER # END_OF_CLUSTER /\ 0 \notin Clusters /\ RootCluster \in Clusters
      /\ Root \in Files /\ Root \notin Slots
  BY Numbers
<1>2. /\ fat \in [Clusters -> Link] /\ fat[RootCluster] = END_OF_CLUSTER
      /\ \A c \in Clusters : fat[c] \notin Clusters
      /\ \A c \in Clusters : fat[c] = FREE_CLUSTER <=> c # RootCluster
  BY <1>1 DEF Init, Link
<1>3. <<RootCluster>> \in Seq(Clusters) /\ <<>> \in Seq(Clusters)
      /\ Len(<<RootCluster>>) = 1 /\ <<RootCluster>>[1] = RootCluster
  BY <1>1
<1>4. /\ Fresh \in Entry /\ Fresh.first = 0 /\ Fresh.size = 0
      /\ [Fresh EXCEPT !.first = RootCluster] \in Entry
      /\ [Fresh EXCEPT !.first = RootCluster].first = RootCluster
      /\ [Fresh EXCEPT !.first = RootCluster].size = 0
      /\ [Fresh EXCEPT !.first = RootCluster].state = "live"
      /\ [Fresh EXCEPT !.state = "empty"] \in Entry
      /\ [Fresh EXCEPT !.state = "empty"].first = 0
      /\ [Fresh EXCEPT !.state = "empty"].size = 0
      /\ [Fresh EXCEPT !.state = "empty"].state = "empty"
  BY <1>1, Fat32Assumption DEF Fresh, Entry
<1>5. /\ sde \in [Files -> Entry]
      /\ \A f \in Files : sde[f] = IF f = Root THEN [Fresh EXCEPT !.first = RootCluster]
                                   ELSE [Fresh EXCEPT !.state = "empty"]
  BY <1>4 DEF Init
<1>6. /\ cluster_vec \in [Files -> Seq(Clusters)]
      /\ cluster_vec[Root] = <<RootCluster>> /\ \A f \in Files \ {Root} : cluster_vec[f] = <<>>
  BY <1>1, <1>3 DEF Init
<1>7. /\ sde[Root].first = RootCluster /\ sde[Root].state = "live" /\ sde[Root].size = 0
      /\ \A f \in Files \ {Root} : sde[f].first = 0 /\ sde[f].state = "empty" /\ sde[f].size = 0
  BY <1>1, <1>4, <1>5
<1>8. free_cluster_cnt \in 0 .. (LastCluster - 1)
  BY Fat32Assumption DEF Init
<1>9. data \in [Clusters -> [0 .. (ClusterSize - 1) -> Byte]]
  <2>1. [i \in 0 .. (ClusterSize - 1) |-> 0] \in [0 .. (ClusterSize - 1) -> Byte]
    BY Fat32Assumption
  <2>. QED
    BY <2>1 DEF Init
<1>10. TypeOK
  <2>1. 0 \in 0 .. MaxMounts
    BY Fat32Assumption
  <2>. QED
    BY <1>1, <1>2, <1>3, <1>5, <1>6, <1>8, <1>9, <2>1 DEF Init, TypeOK
<1>11. ChainsApart
  BY <1>1, <1>2, <1>7 DEF ChainsApart
<1>12. FreeIsFree
  <2>1. recycled_cluster = <<>> /\ Len(<<>>) = 0
    BY DEF Init
  <2>2. {c \in Clusters : fat[c] = FREE_CLUSTER} = Clusters \ {RootCluster}
    BY <1>2
  <2>3. IsFiniteSet(Clusters) /\ Cardinality(Clusters) = LastCluster - 1
    <3>1. 2 \in Int /\ LastCluster \in Int /\ ~ (2 > LastCluster)
      BY Fat32Assumption
    <3>2. IsFiniteSet(2 .. LastCluster) /\ Cardinality(2 .. LastCluster) = LastCluster - 2 + 1
      BY <3>1, FS_Interval
    <3>. QED
      BY <3>2, Fat32Assumption DEF Clusters
  <2>4. Cardinality(Clusters \ {RootCluster}) = Cardinality(Clusters) - 1
    BY <1>1, <2>3, FS_RemoveElement
  <2>5. Cardinality({c \in Clusters : fat[c] = FREE_CLUSTER}) = LastCluster - 2
    <3>1. Cardinality({c \in Clusters : fat[c] = FREE_CLUSTER}) = Cardinality(Clusters \ {RootCluster})
      BY <2>2, Zenon
    <3>2. LastCluster \in Nat
      BY Fat32Assumption
    <3>. QED
      BY <2>3, <2>4, <3>1, <3>2
  <2>. QED
    BY <2>1, <2>5 DEF FreeIsFree, Init
<1>13. NoBytes
  BY <1>7 DEF NoBytes
<1>14. Shape
  BY <1>1, <1>6, <1>7, <1>13 DEF Shape, Init
<1>15. ChainOf(fat, RootCluster, <<RootCluster>>)
  <2>1. PICK q \in Seq(Clusters) : q = <<RootCluster>> /\ Len(q) = 1 /\ q[1] = RootCluster
    BY <1>3
  <2>2. \A i \in 1 .. (Len(q) - 1) : fat[q[i]] = q[i + 1]
    BY <2>1
  <2>3. fat[q[Len(q)]] = END_OF_CLUSTER /\ Len(q) # 0
    BY <1>2, <2>1
  <2>4. ChainOf(fat, RootCluster, q)
    BY <2>1, <2>2, <2>3, LinksChain
  <2>. QED
    BY <2>1, <2>4
<1>16. ASSUME NEW f \in Files PROVE Own(f) /\ Handle(f)
  <2>1. CASE f = Root
    <3>1. Len(<<RootCluster>>) <= MaxChain
      BY <1>3, Fat32Assumption
    <3>. QED
      BY <1>6, <1>7, <1>15, <2>1, <3>1 DEF Own, Handle
  <2>2. CASE f # Root
    BY <1>7, <2>2 DEF Own, Handle
  <2>. QED
    BY <2>1, <2>2
<1>. QED
  BY <1>10, <1>11, <1>12, <1>14, <1>16 DEF Inv

LEMMA StepInv == Inv /\ [Next]_vars => Inv'
<1>. SUFFICES ASSUME Inv, [Next]_vars PROVE Inv'
  OBVIOUS
<1>1. CASE Remount
  BY <1>1, RemountKeeps
<1>2. CASE \E s \in Slots : Create(s) \/ Open(s) \/ Close(s) \/ Clear(s)
  BY <1>2, CreateKeeps, OpenKeeps, CloseKeeps, ClearKeeps
<1>3. CASE \E s \in Slots, w \in Writes, val \in Byte \ {0} : WriteAt(s, w[1], w[2], val)
  BY <1>3, WriteAtKeeps
<1>4. CASE \E s \in Slots, n \in Sizes : ModifySize(s, n)
  <2>1. PICK s \in Slots, n \in Sizes : ModifySize(s, n)
    BY <1>4
  <2>. QED
    BY <2>1, ClearContentKeeps, ShrinkKeeps, GrowKeeps DEF ModifySize
<1>5. CASE \E s, t \in Slots : Rename(s, t)
  BY <1>5, RenameKeeps
<1>6. CASE UNCHANGED vars
  <2>1. TypeOK'
    BY <1>6 DEF Inv, TypeOK, vars, table, history
  <2>. QED
    BY <1>6, <2>1, TablesSame DEF vars, table, history
<1>. QED
  BY <1>1, <1>2, <1>3, <1>4, <1>5, <1>6 DEF Next

LEMMA InvHolds == Spec => []Inv
BY InitInv, StepInv, PTL DEF Spec

-----------------------------------------------------------------------------
(* Nothing leaks *)

OnChain(c) == \E f \in Files, q \in Seq(Clusters) : sde[f].first # 0 /\ ChainOf(fat, sde[f].first, q) /\ c \in Elems(q)
NotLost == \A c \in Clusters : fat[c] # FREE_CLUSTER => OnChain(c)

\* What keeps NothingLeaks: no VirtFile is without the clusters of its entry, and an entry
\* that is deleted has none.
Covered ==
  leaky \/ /\ moved = {}
           /\ \A f \in Files : sde[f].state = "deleted" => sde[f].first = 0
           /\ NotLost

LEMMA CoveredLeaksNothing ==
  ASSUME Inv, Covered
  PROVE  NothingLeaks
<1>1. SUFFICES ASSUME ~ leaky, NEW c \in Clusters, fat[c] # FREE_CLUSTER
               PROVE  \E f \in Files : sde[f].state = "live" /\ \E q \in Chain(fat, sde[f].first) : c \in Elems(q)
  BY DEF NothingLeaks
<1>2. PICK f \in Files, q \in Seq(Clusters) : sde[f].first # 0 /\ ChainOf(fat, sde[f].first, q) /\ c \in Elems(q)
  BY <1>1 DEF Covered, NotLost, OnChain
<1>3. sde[f].state = "live"
  <2>1. sde[f].state \in {"empty", "live", "deleted"}
    BY TypeFacts DEF Entry
  <2>. QED
    BY <1>1, <1>2, <2>1 DEF Covered, Inv, Shape
<1>4. q \in Chain(fat, sde[f].first)
  <2>1. PICK r : ChainOf(fat, sde[f].first, r) /\ Len(r) <= MaxChain
    BY <1>2 DEF Inv, Own
  <2>2. q = r
    BY <1>2, <2>1, OneChain
  <2>3. q \in Seq(Clusters) /\ Len(q) \in Nat \ {0} /\ Len(q) \in 1 .. MaxChain
    BY <1>2, <2>1, <2>2, ChainLinks, Fat32Assumption DEF ChainOf
  <2>4. q \in [1 .. Len(q) -> Clusters]
    BY <2>3
  <2>5. IsChain(fat, sde[f].first, q)
    BY <1>2 DEF ChainOf
  <2>6. q \in UNION {[1 .. n -> Clusters] : n \in 1 .. MaxChain}
    BY <2>3, <2>4
  <2>. QED
    BY <1>2, <2>5, <2>6 DEF Chain
<1>. QED
  BY <1>2, <1>3, <1>4

\* The clusters taken are on the chain of the file that grows.
LEMMA IncreaseCovers ==
  ASSUME Inv, NotLost, NEW f \in Files, NEW cnt, NEW b2, Increased(f, cnt, b2),
         \A g \in Files : sde'[g].first = b2[g]
  PROVE  NotLost'
<1>1. ASSUME NEW c \in Clusters, fat'[c] # FREE_CLUSTER PROVE OnChain(c)'
  <2>1. CASE c \in Elems(cluster_vec'[f])
    BY <2>1 DEF OnChain, Increased
  <2>2. CASE c \notin Elems(cluster_vec'[f])
    <3>1. PICK g \in Files, q \in Seq(Clusters) : sde[g].first # 0 /\ ChainOf(fat, sde[g].first, q) /\ c \in Elems(q)
      BY <1>1, <2>2 DEF Increased, NotLost, OnChain
    <3>2. g # f
      <4>1. SUFFICES ASSUME g = f PROVE FALSE
        OBVIOUS
      <4>2. q = cluster_vec[f]
        BY <3>1, <4>1, OneChain DEF Increased
      <4>. QED
        BY <2>2, <3>1, <4>1, <4>2 DEF Increased
    <3>3. Firsts[g] = sde[g].first /\ sde'[g].first = sde[g].first
      BY <3>2, TypeFacts DEF Increased
    <3>4. ChainOf(fat', sde'[g].first, q)
      BY <3>1, <3>2, <3>3 DEF Increased, KeepOthers
    <3>. QED
      BY <3>1, <3>3, <3>4 DEF OnChain
  <2>. QED
    BY <2>1, <2>2
<1>. QED
  BY <1>1 DEF NotLost

\* The clusters that leave a chain are free.
LEMMA ReleaseCovers ==
  ASSUME Inv, NotLost, NEW s \in Files, NEW v, ChainOf(fat, sde[s].first, v), sde[s].first # 0,
         NEW l \in 0 .. Len(v), KeepOthers(s), \A g \in Files \ {s} : sde'[g].first = sde[g].first,
         l > 0 => sde'[s].first = sde[s].first /\ ChainOf(fat', sde[s].first, SubSeq(v, 1, l)),
         \A c \in Clusters :
           fat'[c] = FREE_CLUSTER <=> fat[c] = FREE_CLUSTER \/ c \in Elems(SubSeq(v, l + 1, Len(v)))
  PROVE  NotLost'
<1>1. ASSUME NEW c \in Clusters, fat'[c] # FREE_CLUSTER PROVE OnChain(c)'
  <2>1. fat[c] # FREE_CLUSTER /\ c \notin Elems(SubSeq(v, l + 1, Len(v)))
    BY <1>1
  <2>2. PICK g \in Files, q \in Seq(Clusters) : sde[g].first # 0 /\ ChainOf(fat, sde[g].first, q) /\ c \in Elems(q)
    BY <2>1 DEF NotLost, OnChain
  <2>3. CASE g # s
    <3>1. Firsts[g] = sde[g].first /\ sde'[g].first = sde[g].first
      BY <2>3, TypeFacts
    <3>2. ChainOf(fat', sde'[g].first, q)
      BY <2>2, <2>3, <3>1 DEF KeepOthers
    <3>. QED
      BY <2>2, <3>1, <3>2 DEF OnChain
  <2>4. CASE g = s
    <3>1. q = v
      BY <2>2, <2>4, OneChain
    <3>2. v \in Seq(Clusters) /\ Len(v) \in Nat
      BY DEF ChainOf
    <3>3. PICK i \in 1 .. Len(v) : v[i] = c
      BY <2>2, <3>1 DEF Elems
    <3>4. ~ (i > l)
      BY <2>1, <3>2, <3>3, PieceElems
    <3>5. l > 0 /\ i \in 1 .. l
      BY <3>2, <3>3, <3>4
    <3>6. PICK w : w = SubSeq(v, 1, l)
      OBVIOUS
    <3>7. Len(w) = l /\ w[i] = c
      BY <3>2, <3>3, <3>5, <3>6
    <3>8. c \in Elems(w)
      BY <3>5, <3>7 DEF Elems
    <3>9. ChainOf(fat', sde'[g].first, w) /\ sde'[g].first # 0
      BY <2>2, <2>4, <3>5, <3>6
    <3>10. w \in Seq(Clusters)
      BY <3>9 DEF ChainOf
    <3>. QED
      BY <3>8, <3>9, <3>10 DEF OnChain
  <2>. QED
    BY <2>3, <2>4
<1>. QED
  BY <1>1 DEF NotLost

\* A step that leaves the FAT and the entries alone.
LEMMA SameCovered ==
  ASSUME Covered, UNCHANGED <<fat, sde, leaky>>, moved' \subseteq moved
  PROVE  Covered'
BY DEF Covered, NotLost, OnChain

LEMMA CreateCovers ==
  ASSUME Inv, Covered, NEW s \in Slots, Create(s)
  PROVE  Covered'
<1>1. CASE GrowPanic(Root, Ceil(s, SlotsPerClus)) # "no"
  BY <1>1, SameCovered DEF Create, Panic, table, history
<1>2. CASE GrowPanic(Root, Ceil(s, SlotsPerClus)) = "no" /\ ~ leaky
  <2>1. /\ incerase_size(Root, Ceil(s, SlotsPerClus))
        /\ sde' = [sde EXCEPT ![s] = Fresh] /\ opened' = opened \cup {s}
        /\ UNCHANGED <<moved, leaky>> /\ sde[s].state = "empty"
    BY <1>2 DEF Create, history
  <2>2. s \in Files /\ s # Root /\ Root \in Files
    BY Numbers
  <2>3. sde \in [Files -> Entry] /\ \A g \in Files : Firsts[g] = sde[g].first
    BY TypeFacts
  <2>4. \A g \in Files : sde'[g] = IF g = s THEN Fresh ELSE sde[g]
    BY <2>1, <2>3
  <2>5. Root \in opened /\ sde[s].first = 0
    BY <2>1, <2>2 DEF Inv, Shape
  <2>6. \E b2 : Increased(Root, Ceil(s, SlotsPerClus), b2) /\ b2 = Firsts
    BY <1>2, <2>1, <2>2, <2>4, <2>5, RootGrows
  <2>7. Increased(Root, Ceil(s, SlotsPerClus), Firsts)
    BY <2>6
  <2>8. Fresh.first = 0 /\ Fresh.state = "live"
    BY DEF Fresh
  <2>9. NotLost'
    <3>1. \A g \in Files : sde'[g].first = Firsts[g]
      BY <2>3, <2>4, <2>5, <2>8
    <3>. QED
      BY <1>2, <2>2, <2>7, <3>1, IncreaseCovers DEF Covered
  <2>. QED
    BY <1>2, <2>1, <2>4, <2>8, <2>9 DEF Covered
<1>3. CASE GrowPanic(Root, Ceil(s, SlotsPerClus)) = "no" /\ leaky
  BY <1>3 DEF Create, history, Covered
<1>. QED
  BY <1>1, <1>2, <1>3

LEMMA FileGrowsCovers ==
  ASSUME Inv, Covered, NEW s \in Slots, s \in opened, NEW n \in 1 .. MaxSize, n > sde[s].size,
         GrowPanic(s, Ceil(n, ClusterSize)) = "no", incerase_size(s, Ceil(n, ClusterSize)),
         sde' = [sde EXCEPT ![s] = Grown(s, n)],
         leaky' = Unlinked(s), UNCHANGED moved
  PROVE  Covered'
<1>1. SUFFICES ASSUME ~ leaky, sde[s].state # "deleted" PROVE Covered'
  BY DEF Unlinked, Covered
<1>2. PICK cnt : cnt = Ceil(n, ClusterSize)
  OBVIOUS
<1>3. cnt \in Nat \ {0}
  <2>1. n \in Nat /\ n > 0 /\ ClusterSize \in Nat \ {0}
    BY Fat32Assumption
  <2>. QED
    BY <1>2, <2>1, CeilFacts
<1>4. s \in Files /\ sde \in [Files -> Entry] /\ sde[s] \in Entry
  BY Numbers, TypeFacts
<1>5. PICK b2 : Increased(s, cnt, b2)
  BY <1>2, <1>3, Increase
<1>6. Grown(s, n) = [sde[s] EXCEPT !.first = b2[s], !.size = n]
  BY <1>5 DEF Grown, Increased
<1>7. Grown(s, n).first = b2[s] /\ Grown(s, n).state = sde[s].state
  BY <1>4, <1>6 DEF Entry
<1>8. \A g \in Files : sde'[g] = IF g = s THEN Grown(s, n) ELSE sde[g]
  BY <1>4
<1>9. \A g \in Files : sde'[g].first = b2[g]
  BY <1>5, <1>7, <1>8 DEF Increased
<1>10. NotLost'
  BY <1>1, <1>4, <1>5, <1>9, IncreaseCovers DEF Covered
<1>11. \A g \in Files : sde'[g].state = "deleted" => sde'[g].first = 0
  BY <1>1, <1>7, <1>8 DEF Covered
<1>. QED
  BY <1>1, <1>10, <1>11 DEF Covered

LEMMA WriteAtCovers ==
  ASSUME Inv, Covered, NEW s \in Slots, NEW w \in Writes, NEW val, WriteAt(s, w[1], w[2], val)
  PROVE  Covered'
<1>1. PICK off \in Nat, len \in Nat \ {0} : off = w[1] /\ len = w[2] /\ off + len <= MaxSize
  BY Fat32Assumption
<1>2. PICK end : end = off + len
  OBVIOUS
<1>3. end \in 1 .. MaxSize /\ s \in opened /\ sde[s].size \in Nat
  BY <1>1, <1>2, Fat32Assumption, TypeFacts, Numbers DEF WriteAt
<1>4. CASE UNCHANGED <<table, sde, history>>
  BY <1>4, SameCovered DEF table, history
<1>5. CASE ~ UNCHANGED <<table, sde, history>>
  <2>1. ~ (end <= sde[s].size) /\ GrowPanic(s, Ceil(end, ClusterSize)) = "no"
    BY <1>1, <1>2, <1>5 DEF WriteAt, Panic
  <2>2. /\ incerase_size(s, Ceil(end, ClusterSize))
        /\ sde' = [sde EXCEPT ![s] = Grown(s, end)]
        /\ leaky' = Unlinked(s)
        /\ UNCHANGED moved
    BY <1>1, <1>2, <2>1 DEF WriteAt
  <2>3. end > sde[s].size
    BY <1>3, <2>1
  <2>. QED
    BY <1>3, <2>1, <2>2, <2>3, FileGrowsCovers
<1>. QED
  BY <1>4, <1>5

LEMMA GrowCovers ==
  ASSUME Inv, Covered, NEW s \in Slots, s \in opened, NEW n \in Sizes, n > sde[s].size, grow(s, n)
  PROVE  Covered'
<1>1. sde[s].size \in Nat
  BY TypeFacts, Numbers
<1>2. n \in 1 .. MaxSize
  BY <1>1, Fat32Assumption
<1>3. CASE GrowPanic(s, Ceil(n, ClusterSize)) # "no"
  BY <1>3, SameCovered DEF grow, Panic, table, history
<1>4. CASE GrowPanic(s, Ceil(n, ClusterSize)) = "no"
  BY <1>2, <1>4, FileGrowsCovers DEF grow
<1>. QED
  BY <1>3, <1>4

\* The whole chain of an entry is released, and the entry has no clusters any more.
LEMMA ReleaseAllCovers ==
  ASSUME Inv, Covered, ~ leaky, NEW s \in Files, sde[s].first # 0, NEW v,
         ChainOf(fat, sde[s].first, v), dealloc_cluster(v, fat),
         NEW e, sde' = [sde EXCEPT ![s] = e], e.first = 0, UNCHANGED <<moved, leaky>>
  PROVE  Covered'
<1>1. sde \in [Files -> Entry]
  BY TypeFacts
<1>2. \A g \in Files : sde'[g] = IF g = s THEN e ELSE sde[g]
  BY <1>1
<1>3. /\ KeepOthers(s)
      /\ \A c \in Clusters : fat'[c] = FREE_CLUSTER <=> fat[c] = FREE_CLUSTER \/ c \in Elems(v)
  BY ReleaseAll DEF Given
<1>4. v \in Seq(Clusters) /\ Len(v) \in Nat
  BY DEF ChainOf
<1>5. SubSeq(v, 0 + 1, Len(v)) = v /\ 0 \in 0 .. Len(v) /\ ~ (0 > 0)
  BY <1>4
<1>6. NotLost'
  BY <1>2, <1>3, <1>5, ReleaseCovers DEF Covered
<1>7. \A g \in Files : sde'[g].state = "deleted" => sde'[g].first = 0
  BY <1>2 DEF Covered
<1>. QED
  BY <1>6, <1>7 DEF Covered

\* An entry without clusters changes, and still has none.
LEMMA NoneCovers ==
  ASSUME Inv, Covered, NEW s \in Files, sde[s].first = 0, UNCHANGED <<fat, moved, leaky>>,
         NEW e, sde' = [sde EXCEPT ![s] = e], e.first = 0
  PROVE  Covered'
<1>1. sde \in [Files -> Entry]
  BY TypeFacts
<1>2. \A g \in Files : sde'[g] = IF g = s THEN e ELSE sde[g]
  BY <1>1
<1>3. \A g \in Files : sde'[g].first = sde[g].first
  BY <1>2
<1>4. NotLost => NotLost'
  BY <1>3 DEF NotLost, OnChain
<1>. QED
  BY <1>2, <1>4 DEF Covered

LEMMA ClearContentCovers ==
  ASSUME Inv, Covered, NEW s \in Slots, clear_content(s)
  PROVE  Covered'
<1>1. s \in Files /\ sde \in [Files -> Entry] /\ sde[s] \in Entry
  BY Numbers, TypeFacts
<1>2. PICK q \in Chain(fat, sde[s].first) : dealloc_cluster(q, fat)
  BY DEF clear_content
<1>3. PICK e : e = [sde[s] EXCEPT !.first = 0, !.size = 0]
  OBVIOUS
<1>4. e.first = 0 /\ sde' = [sde EXCEPT ![s] = e] /\ UNCHANGED <<moved, leaky>>
  BY <1>1, <1>3 DEF clear_content, Entry, history
<1>5. CASE leaky
  BY <1>4, <1>5 DEF Covered
<1>6. CASE ~ leaky /\ sde[s].first = 0
  <2>1. q = <<>>
    BY <1>6, ChainReads
  <2>. QED
    BY <1>1, <1>2, <1>4, <1>6, <2>1, DeallocNothing, NoneCovers
<1>7. CASE ~ leaky /\ sde[s].first # 0
  <2>1. ChainOf(fat, sde[s].first, q)
    BY <1>7, ChainReads
  <2>. QED
    BY <1>1, <1>2, <1>4, <1>7, <2>1, ReleaseAllCovers
<1>. QED
  BY <1>5, <1>6, <1>7

LEMMA ClearCovers ==
  ASSUME Inv, Covered, NEW s \in Slots, Clear(s)
  PROVE  Covered'
<1>1. s \in Files /\ s \in opened /\ sde' = [sde EXCEPT ![s] = Deleted] /\ UNCHANGED <<moved, leaky>>
  BY Numbers DEF Clear, history
<1>2. Deleted.first = 0
  BY DEF Deleted
<1>3. CASE leaky
  BY <1>1, <1>3 DEF Covered
<1>4. CASE ~ leaky /\ sde[s].first = 0
  BY <1>1, <1>2, <1>4, NoneCovers DEF Clear, table
<1>5. CASE ~ leaky /\ sde[s].first # 0
  <2>1. ChainOf(fat, sde[s].first, cluster_vec[s])
    BY <1>1, <1>5 DEF Inv, Handle, Covered
  <2>2. dealloc_cluster(cluster_vec[s], fat)
    BY <1>5 DEF Clear
  <2>. QED
    BY <1>1, <1>2, <1>5, <2>1, <2>2, ReleaseAllCovers
<1>. QED
  BY <1>3, <1>4, <1>5

LEMMA ShrinkCovers ==
  ASSUME Inv, Covered, NEW s \in Slots, s \in opened, NEW n \in Sizes, 0 < n, n < sde[s].size, shrink(s, n)
  PROVE  Covered'
<1>1. s \in Files /\ sde \in [Files -> Entry] /\ sde[s] \in Entry
  BY Numbers, TypeFacts
<1>2. PICK vec : vec = cluster_vec[s]
  OBVIOUS
<1>3. PICK l : l = Ceil(n, ClusterSize)
  OBVIOUS
<1>4. CASE Panic("handle")
  BY <1>4, SameCovered DEF Panic, table, history
<1>5. CASE ~ Panic("handle")
  <2>1. CutBack(s, vec, l) /\ sde' = [sde EXCEPT ![s].size = n] /\ UNCHANGED <<moved, leaky>>
    BY <1>2, <1>3, <1>5, ShrinkCuts
  <2>2. \A g \in Files : sde'[g].first = sde[g].first /\ sde'[g].state = sde[g].state
    BY <1>1, <2>1 DEF Entry
  <2>3. /\ ChainOf(fat, sde[s].first, vec) /\ l \in 0 .. Len(vec) /\ KeepOthers(s)
        /\ ChainOf(fat', sde[s].first, SubSeq(vec, 1, l))
        /\ \A c \in Clusters :
             fat'[c] = FREE_CLUSTER <=> fat[c] = FREE_CLUSTER \/ c \in Elems(SubSeq(vec, l + 1, Len(vec)))
    BY <2>1 DEF CutBack, Given
  <2>4. sde[s].first # 0
    <3>1. 1 \in 1 .. Len(vec) /\ vec[1] = sde[s].first
      BY <2>3, ChainLinks
    <3>. QED
      BY <2>3, <3>1, ChainLinks, Numbers
  <2>5. NotLost => NotLost'
    BY <1>1, <2>2, <2>3, <2>4, ReleaseCovers
  <2>. QED
    BY <2>1, <2>2, <2>5 DEF Covered
<1>. QED
  BY <1>4, <1>5

LEMMA InitCovers == Init => Covered
<1>. SUFFICES ASSUME Init PROVE Covered
  OBVIOUS
<1>1. Inv
  BY InitInv
<1>2. /\ RootCluster \in Clusters /\ Root \in Files /\ moved = {}
      /\ \A f \in Files : sde[f].state # "deleted"
      /\ sde[Root].first = RootCluster /\ RootCluster # 0
      /\ \A c \in Clusters : fat[c] # FREE_CLUSTER => c = RootCluster
  BY Numbers DEF Init, Fresh
<1>3. PICK q : ChainOf(fat, sde[Root].first, q)
  BY <1>1, <1>2 DEF Inv, Own
<1>4. RootCluster \in Elems(q) /\ q \in Seq(Clusters)
  <2>1. 1 \in 1 .. Len(q) /\ q[1] = RootCluster
    BY <1>2, <1>3, ChainLinks
  <2>. QED
    BY <1>3, <2>1 DEF Elems, ChainOf
<1>5. NotLost
  BY <1>2, <1>3, <1>4 DEF NotLost, OnChain
<1>. QED
  BY <1>2, <1>5 DEF Covered

LEMMA StepCovers == Inv /\ Covered /\ [Next]_vars => Covered'
<1>. SUFFICES ASSUME Inv, Covered, [Next]_vars PROVE Covered'
  OBVIOUS
<1>1. CASE Remount
  BY <1>1, SameCovered DEF Remount
<1>2. CASE \E s \in Slots : Open(s)
  BY <1>2, SameCovered DEF Open, table, history
<1>3. CASE \E s \in Slots : Close(s)
  BY <1>3, SameCovered DEF Close, table
<1>4. CASE \E s \in Slots : Create(s) \/ Clear(s)
  BY <1>4, CreateCovers, ClearCovers
<1>5. CASE \E s \in Slots, w \in Writes, val \in Byte \ {0} : WriteAt(s, w[1], w[2], val)
  BY <1>5, WriteAtCovers
<1>6. CASE \E s \in Slots, n \in Sizes : ModifySize(s, n)
  <2>1. PICK s \in Slots, n \in Sizes : ModifySize(s, n)
    BY <1>6
  <2>. QED
    BY <2>1, ClearContentCovers, ShrinkCovers, GrowCovers DEF ModifySize
<1>7. CASE \E s, t \in Slots : Rename(s, t)
  <2>1. PICK s \in Slots, t \in Slots : Rename(s, t)
    BY <1>7
  <2>2. leaky' = TRUE \/ Panic(GrowPanic(Root, Ceil(t, SlotsPerClus)))
    BY <2>1 DEF Rename
  <2>3. CASE leaky' = TRUE
    BY <2>3 DEF Covered
  <2>4. CASE Panic(GrowPanic(Root, Ceil(t, SlotsPerClus)))
    BY <2>4, SameCovered DEF Panic, table, history
  <2>. QED
    BY <2>2, <2>3, <2>4
<1>8. CASE UNCHANGED vars
  BY <1>8, SameCovered DEF vars, table, history
<1>. QED
  BY <1>1, <1>2, <1>3, <1>4, <1>5, <1>6, <1>7, <1>8 DEF Next

-----------------------------------------------------------------------------
(* The scan finds a blank cluster *)

\* Until the volume is mounted again, the free clusters that are not recycled are the
\* ones behind k: the scan has never skipped one.
Packed(k) ==
  /\ k \in 1 .. LastCluster
  /\ \A c \in Clusters : (fat[c] = FREE_CLUSTER /\ c \notin Elems(recycled_cluster)) <=> c > k

Segment == mounts = 0 => halt # "volume" /\ \E k : Packed(k)

\* The clusters that the next calls of get_blank_cluster return.
NextPicks(k, num) ==
  [i \in 1 .. num |-> IF i <= Len(recycled_cluster) THEN recycled_cluster[i]
                      ELSE k + (i - Len(recycled_cluster))]

\* Cluster i of q is the first one that the scan finds.
Scanned(q, i, start) ==
  LET blank == Blank(IF i = 1 THEN start ELSE q[i - 1], {q[j] : j \in 1 .. (i - 2)}) IN
  q[i] \in blank /\ \A c \in blank : q[i] <= c

LEMMA FreeBehind ==
  ASSUME Inv, NEW k, Packed(k)
  PROVE  free_cluster_cnt = Len(recycled_cluster) + (LastCluster - k)
<1>1. PICK rec \in Seq(Clusters) : rec = recycled_cluster
  BY TypeFacts
<1>2. LastCluster \in Nat /\ k \in Nat /\ 1 <= k /\ k <= LastCluster
  BY Fat32Assumption DEF Packed
<1>3. FreeIsFree /\ \A i, j \in 1 .. Len(rec) : rec[i] = rec[j] => i = j
  BY <1>1 DEF Inv, FreeIsFree
<1>4. IsFiniteSet(Elems(rec)) /\ Cardinality(Elems(rec)) = Len(rec)
  BY <1>3, CountElems
<1>5. PICK S : S = (k + 1) .. LastCluster
  OBVIOUS
<1>6. IsFiniteSet(S) /\ Cardinality(S) = LastCluster - k
  <2>1. k + 1 \in Int /\ LastCluster \in Int
    BY <1>2
  <2>2. /\ IsFiniteSet((k + 1) .. LastCluster)
        /\ Cardinality((k + 1) .. LastCluster) = IF k + 1 > LastCluster THEN 0 ELSE LastCluster - (k + 1) + 1
    BY <2>1, FS_Interval
  <2>. QED
    BY <1>2, <1>5, <2>2
<1>7. \A c \in Elems(rec) : c \in Clusters /\ fat[c] = FREE_CLUSTER
  BY <1>1, <1>3 DEF Elems, FreeIsFree
<1>8. \A c : c \in S <=> c \in Clusters /\ c > k
  BY <1>2, <1>5 DEF Clusters
<1>9. FreeSet(fat) = Elems(rec) \cup S
  <2>1. ASSUME NEW c \in FreeSet(fat) PROVE c \in Elems(rec) \cup S
    BY <1>1, <1>8 DEF FreeSet, Packed
  <2>2. ASSUME NEW c \in Elems(rec) \cup S PROVE c \in FreeSet(fat)
    BY <1>1, <1>7, <1>8 DEF FreeSet, Packed
  <2>. QED
    BY <2>1, <2>2
<1>10. Elems(rec) \cap S = {}
  BY <1>1, <1>8 DEF Packed
<1>11. Cardinality(Elems(rec) \cup S) = Cardinality(Elems(rec)) + Cardinality(S) - Cardinality(Elems(rec) \cap S)
  BY <1>4, <1>6, FS_Union
<1>12. Cardinality({}) = 0
  BY FS_EmptySet
<1>13. Cardinality(FreeSet(fat)) = Len(rec) + (LastCluster - k)
  <2>1. Len(rec) \in Nat
    BY <1>1
  <2>2. Cardinality(Elems(rec) \cup S) = Len(rec) + (LastCluster - k) - 0
    BY <1>4, <1>6, <1>10, <1>11, <1>12
  <2>. QED
    BY <1>2, <1>9, <2>1, <2>2
<1>. QED
  BY <1>1, <1>3, <1>13, SameFree

\* A scan for number i of NextPicks finds it, and nothing before it.
LEMMA NextIsLeast ==
  ASSUME Inv, NEW k, Packed(k), NEW num \in Nat, num <= free_cluster_cnt,
         NEW start \in {0} \cup Clusters, start # 0 => fat[start] # FREE_CLUSTER
  PROVE  /\ NextPicks(k, num) \in [1 .. num -> Clusters]
         /\ \A i \in 1 .. num : i > Len(recycled_cluster) => Scanned(NextPicks(k, num), i, start)
<1>1. PICK rec \in Seq(Clusters) : rec = recycled_cluster
  BY TypeFacts
<1>2. PICK len \in Nat : len = Len(rec)
  BY <1>1
<1>3. LastCluster \in Nat /\ k \in Nat /\ 1 <= k /\ k <= LastCluster
  BY Fat32Assumption DEF Packed
<1>4. num <= len + (LastCluster - k)
  BY <1>1, <1>2, FreeBehind
<1>5. PICK form : form = NextPicks(k, num)
  OBVIOUS
<1>6. /\ form = [i \in 1 .. num |-> form[i]]
      /\ \A i \in 1 .. num : form[i] = IF i <= len THEN rec[i] ELSE k + (i - len)
  BY <1>1, <1>2, <1>5 DEF NextPicks
<1>7. \A i \in 1 .. num : i <= len => form[i] \in Elems(rec) /\ form[i] \in Clusters
  BY <1>2, <1>6 DEF Elems
<1>8. \A i \in 1 .. num : i > len => form[i] = k + (i - len) /\ form[i] \in Nat /\ form[i] > k
                                     /\ form[i] <= LastCluster /\ form[i] \in Clusters
  <2>1. ASSUME NEW i \in 1 .. num, i > len
        PROVE  /\ form[i] = k + (i - len) /\ form[i] \in Nat /\ form[i] > k
               /\ form[i] <= LastCluster /\ form[i] \in Clusters
    <3>1. form[i] = k + (i - len)
      BY <1>6, <2>1
    <3>2. PICK n \in Nat \ {0} : n = i - len
      BY <2>1
    <3>3. n <= LastCluster - k
      BY <1>3, <1>4, <3>2
    <3>. QED
      BY <1>3, <3>1, <3>2, <3>3 DEF Clusters
  <2>. QED
    BY <2>1
<1>9. \A i \in 1 .. num : form[i] \in Clusters /\ form[i] \in Nat
  <2>1. ASSUME NEW i \in 1 .. num PROVE form[i] \in Clusters
    <3>1. i <= len \/ i > len
      OBVIOUS
    <3>. QED
      BY <1>7, <1>8, <3>1
  <2>2. Clusters \subseteq Nat
    BY Numbers
  <2>. QED
    BY <2>1, <2>2
<1>10. \A c \in Clusters : (fat[c] = FREE_CLUSTER /\ c \notin Elems(rec)) <=> c > k
  BY <1>1 DEF Packed
<1>11. \A i \in 1 .. num : i <= len => form[i] <= k
  BY <1>3, <1>7, <1>9, <1>10
<1>12. start <= k /\ start \in Nat
  BY <1>3, <1>10, Numbers
<1>13. ASSUME NEW i \in 1 .. num, i > len PROVE Scanned(form, i, start)
  <2>1. PICK prev : prev = IF i = 1 THEN start ELSE form[i - 1]
    OBVIOUS
  <2>2. PICK linked : linked = {form[j] : j \in 1 .. (i - 2)}
    OBVIOUS
  <2>3. \A j \in 1 .. (i - 1) : j \in 1 .. num /\ form[j] < form[i]
    <3>1. ASSUME NEW j \in 1 .. (i - 1) PROVE j \in 1 .. num /\ form[j] < form[i]
      <4>1. j \in 1 .. num /\ j < i
        OBVIOUS
      <4>2. CASE j <= len
        BY <1>3, <1>8, <1>9, <1>11, <1>13, <4>1, <4>2
      <4>3. CASE j > len
        BY <1>3, <1>8, <1>13, <4>1, <4>3
      <4>. QED
        BY <4>1, <4>2, <4>3
    <3>. QED
      BY <3>1
  <2>4. prev < form[i]
    <3>1. CASE i = 1
      BY <1>3, <1>8, <1>12, <1>13, <2>1, <3>1
    <3>2. CASE i # 1
      <4>1. i - 1 \in 1 .. (i - 1)
        BY <3>2
      <4>. QED
        BY <2>1, <2>3, <3>2, <4>1
    <3>. QED
      BY <3>1, <3>2
  <2>5. form[i] \notin linked
    <3>1. \A j \in 1 .. (i - 2) : j \in 1 .. (i - 1) /\ j \in 1 .. num
      OBVIOUS
    <3>2. \A j \in 1 .. (i - 2) : form[j] # form[i]
      BY <1>9, <2>3, <3>1
    <3>. QED
      BY <2>2, <3>2
  <2>6. form[i] \in Clusters /\ fat[form[i]] = FREE_CLUSTER
    BY <1>8, <1>10, <1>13
  <2>7. form[i] \in Blank(prev, linked)
    <3>1. form[i] > prev
      BY <1>9, <1>12, <2>1, <2>4, <1>13
    <3>. QED
      BY <2>5, <2>6, <3>1 DEF Blank
  <2>8. ASSUME NEW c \in Blank(prev, linked) PROVE form[i] <= c
    <3>1. c \in Clusters /\ c \in Nat /\ fat[c] = FREE_CLUSTER /\ c > prev /\ c \notin linked
      BY Numbers DEF Blank
    <3>2. SUFFICES ASSUME c < form[i] PROVE FALSE
      BY <1>9, <3>1
    <3>3. \E j \in 1 .. (i - 1) : form[j] = c
      <4>1. CASE c > k
        <5>1. PICK j \in Nat : j = len + (c - k)
          BY <1>3, <3>1, <4>1
        <5>2. j > len /\ j < i /\ j \in 1 .. (i - 1) /\ j \in 1 .. num
          BY <1>3, <1>8, <1>13, <3>1, <3>2, <4>1, <5>1
        <5>3. form[j] = c
          BY <1>3, <1>8, <3>1, <5>1, <5>2
        <5>. QED
          BY <5>2, <5>3
      <4>2. CASE ~ (c > k)
        <5>1. PICK j \in 1 .. len : rec[j] = c
          BY <1>2, <1>10, <3>1, <4>2 DEF Elems
        <5>2. j \in 1 .. (i - 1) /\ j \in 1 .. num /\ j <= len
          BY <1>13
        <5>. QED
          BY <1>6, <5>1, <5>2
      <4>. QED
        BY <4>1, <4>2
    <3>4. PICK j \in 1 .. (i - 1) : form[j] = c
      BY <3>3
    <3>5. CASE j = i - 1
      <4>1. i # 1 /\ prev = c
        BY <2>1, <3>4, <3>5
      <4>. QED
        BY <3>1, <4>1
    <3>6. CASE j # i - 1
      <4>1. j \in 1 .. (i - 2)
        BY <3>6
      <4>. QED
        BY <2>2, <3>1, <3>4, <4>1
    <3>. QED
      BY <3>5, <3>6
  <2>. QED
    BY <2>1, <2>2, <2>7, <2>8 DEF Scanned
<1>14. form \in [1 .. num -> Clusters]
  BY <1>6, <1>9
<1>. QED
  BY <1>1, <1>2, <1>5, <1>13, <1>14

\* The calls of get_blank_cluster succeed when the count says so.
LEMMA PicksExist ==
  ASSUME Inv, NEW k, Packed(k), NEW num \in Nat, num <= free_cluster_cnt,
         NEW start \in {0} \cup Clusters, start # 0 => fat[start] # FREE_CLUSTER
  PROVE  Picks(num, start) # {}
<1>1. PICK form : form = NextPicks(k, num)
  OBVIOUS
<1>2. PICK len \in Nat : len = Len(recycled_cluster)
  BY TypeFacts
<1>3. form \in [1 .. num -> Clusters]
  BY <1>1, NextIsLeast
<1>4. ASSUME NEW i \in 1 .. num
      PROVE  IF i <= Len(recycled_cluster) THEN form[i] = recycled_cluster[i]
             ELSE Scanned(form, i, start)
  <2>1. CASE i <= len
    BY <1>1, <1>2, <2>1 DEF NextPicks
  <2>2. CASE ~ (i <= len)
    <3>1. i > len
      BY <2>2
    <3>2. \A j \in 1 .. num : j > Len(recycled_cluster) => Scanned(form, j, start)
      BY <1>1, NextIsLeast
    <3>. QED
      BY <1>2, <2>2, <3>1, <3>2
  <2>. QED
    BY <2>1, <2>2
<1>5. form \in Picks(num, start)
  BY <1>3, <1>4 DEF Picks, Scanned
<1>. QED
  BY <1>5

\* And they return these clusters.
LEMMA PicksAreNext ==
  ASSUME Inv, NEW k, Packed(k), NEW num \in Nat, num <= free_cluster_cnt,
         NEW start \in {0} \cup Clusters, start # 0 => fat[start] # FREE_CLUSTER,
         NEW q \in Picks(num, start)
  PROVE  \A i \in 1 .. num : q[i] = NextPicks(k, num)[i]
<1>1. PICK form : form = NextPicks(k, num)
  OBVIOUS
<1>2. PICK len \in Nat : len = Len(recycled_cluster)
  BY TypeFacts
<1>3. form \in [1 .. num -> Clusters] /\ q \in [1 .. num -> Clusters] /\ Clusters \subseteq Nat
  BY <1>1, NextIsLeast, Numbers DEF Picks
<1>. DEFINE bad == {i \in 1 .. num : q[i] # form[i]}
<1>4. bad = {}
  <2>1. SUFFICES ASSUME bad # {} PROVE FALSE
    OBVIOUS
  <2>2. bad \in SUBSET Nat
    OBVIOUS
  <2>3. PICK i \in bad : \A y \in bad : i <= y
    <3>. HIDE DEF bad
    <3>. QED
      BY <2>1, <2>2, LeastOf
  <2>4. i \in 1 .. num /\ q[i] # form[i]
    BY <2>3
  <2>5. ASSUME NEW j \in 1 .. (i - 1) PROVE q[j] = form[j]
    <3>1. j \in 1 .. num /\ ~ (i <= j)
      BY <2>4
    <3>2. j \notin bad
      <4>. HIDE DEF bad
      <4>. QED
        BY <2>3, <3>1
    <3>. QED
      BY <3>1, <3>2
  <2>6. CASE i <= len
    <3>1. q[i] = recycled_cluster[i]
      BY <1>2, <2>4, <2>6 DEF Picks
    <3>2. form[i] = recycled_cluster[i]
      BY <1>1, <1>2, <2>4, <2>6 DEF NextPicks
    <3>. QED
      BY <2>4, <3>1, <3>2
  <2>7. CASE ~ (i <= len)
    <3>1. PICK blank : blank = Blank(IF i = 1 THEN start ELSE q[i - 1], {q[j] : j \in 1 .. (i - 2)})
      OBVIOUS
    <3>2. q[i] \in blank /\ \A c \in blank : q[i] <= c
      BY <1>2, <2>4, <2>7, <3>1 DEF Picks
    <3>3. (IF i = 1 THEN start ELSE q[i - 1]) = (IF i = 1 THEN start ELSE form[i - 1])
      <4>1. i # 1 => i - 1 \in 1 .. (i - 1)
        BY <2>4
      <4>. QED
        BY <2>5, <4>1
    <3>4. {q[j] : j \in 1 .. (i - 2)} = {form[j] : j \in 1 .. (i - 2)}
      <4>1. \A j \in 1 .. (i - 2) : j \in 1 .. (i - 1)
        BY <2>4
      <4>. QED
        BY <2>5, <4>1
    <3>5. blank = Blank(IF i = 1 THEN start ELSE form[i - 1], {form[j] : j \in 1 .. (i - 2)})
      BY <3>1, <3>3, <3>4
    <3>6. i > Len(recycled_cluster)
      BY <1>2, <2>4, <2>7
    <3>7. Scanned(form, i, start)
      BY <1>1, <2>4, <3>6, NextIsLeast
    <3>8. form[i] \in blank /\ \A c \in blank : form[i] <= c
      BY <3>5, <3>7 DEF Scanned
    <3>9. q[i] <= form[i] /\ form[i] <= q[i] /\ q[i] \in Nat /\ form[i] \in Nat
      BY <1>3, <2>4, <3>2, <3>8
    <3>. QED
      BY <2>4, <3>9
  <2>. QED
    BY <2>6, <2>7
<1>. QED
  BY <1>1, <1>4

\* incerase_size does not run past the volume, and what it takes is the next of the free
\* clusters.
LEMMA GrowPacks ==
  ASSUME Inv, NEW k, Packed(k), NEW f \in opened, NEW cnt \in Nat
  PROVE  /\ GrowPanic(f, cnt) # "volume"
         /\ GrowPanic(f, cnt) = "no" /\ incerase_size(f, cnt) => \E k2 : Packed(k2)'
<1>1. /\ fat \in [Clusters -> Link] /\ recycled_cluster \in Seq(Clusters)
      /\ cluster_vec \in [Files -> Seq(Clusters)] /\ f \in Files
      /\ Firsts \in FirstFcn /\ \A g \in Files : Firsts[g] = sde[g].first
      /\ Apart(fat, Firsts) /\ sde[f].first \in {0} \cup Clusters /\ sde[f].first \in Nat
  BY TypeFacts
<1>2. FreeIsFree /\ Handle(f) /\ free_cluster_cnt \in Nat
  BY <1>1 DEF Inv, TypeOK
<1>3. sde[f].first # 0 => fat[sde[f].first] # FREE_CLUSTER
  BY <1>1 DEF Inv, ChainsApart
<1>4. PICK num \in Nat : num = Need(f, cnt)
  <2>1. Len(cluster_vec[f]) \in Nat
    BY <1>1
  <2>2. Need(f, cnt) \in Nat
    BY <2>1 DEF Need
  <2>. QED
    BY <2>2
<1>5. GrowPanic(f, cnt) # "volume"
  <2>1. SUFFICES ASSUME num # 0, ~ (free_cluster_cnt < num), Picks(num, sde[f].first) = {} PROVE FALSE
    BY <1>4 DEF GrowPanic
  <2>2. num <= free_cluster_cnt
    BY <1>2, <2>1
  <2>. QED
    BY <1>1, <1>3, <2>1, <2>2, PicksExist
<1>6. ASSUME GrowPanic(f, cnt) = "no", incerase_size(f, cnt)
      PROVE  \E k2 : Packed(k2)'
  <2>1. CASE num = 0
    <3>1. UNCHANGED <<fat, recycled_cluster>>
      BY <1>4, <1>6, <2>1 DEF incerase_size, table
    <3>. QED
      BY <3>1 DEF Packed
  <2>2. CASE num # 0
    <3>1. num <= free_cluster_cnt /\ (sde[f].first # 0 => cluster_vec[f] # <<>>)
      BY <1>2, <1>4, <1>6, <2>2 DEF GrowPanic
    <3>2. PICK tail : tail = IF sde[f].first = 0 THEN <<>> ELSE cluster_vec[f]
      OBVIOUS
    <3>3. PICK q \in Picks(num, sde[f].first) : take(q) /\ fat' = Linked(q, tail)
      BY <1>4, <1>6, <2>2, <3>2 DEF incerase_size
    <3>4. NewClusters(q) /\ Len(q) = num
      BY <1>1, <1>2, <2>2, PicksAreNew
    <3>5. (Firsts[f] = 0 /\ tail = <<>>) \/ (Firsts[f] # 0 /\ ChainOf(fat, Firsts[f], tail))
      BY <1>1, <1>2, <3>1, <3>2 DEF Handle
    <3>6. \A c \in Clusters : fat'[c] = FREE_CLUSTER <=> fat[c] = FREE_CLUSTER /\ c \notin Elems(q)
      <4>1. Grows(f, q, tail, Firsts, fat', [Firsts EXCEPT ![f] = IF Firsts[f] = 0 THEN q[1] ELSE Firsts[f]])
        BY <1>1, <3>3, <3>4, <3>5, GrowTable
      <4>. QED
        BY <4>1 DEF Grows
    <3>7. PICK rec \in Seq(Clusters) : rec = recycled_cluster
      BY <1>1
    <3>8. PICK len \in Nat : len = Len(rec)
      BY <3>7
    <3>9. \A i \in 1 .. num : q[i] = IF i <= len THEN rec[i] ELSE k + (i - len)
      <4>1. \A i \in 1 .. num : q[i] = NextPicks(k, num)[i]
        BY <1>1, <1>3, <3>1, PicksAreNext
      <4>. QED
        BY <3>7, <3>8, <4>1 DEF NextPicks
    <3>10. PICK rest : rest = SubSeq(rec, num + 1, len)
      OBVIOUS
    <3>11. recycled_cluster' = rest
      BY <3>3, <3>4, <3>7, <3>8, <3>10 DEF take
    <3>12. \A c : c \in Elems(rest) <=> \E i \in 1 .. len : i > num /\ rec[i] = c
      <4>1. CASE num <= len
        BY <3>7, <3>8, <3>10, <4>1, PieceElems
      <4>2. CASE num > len
        <5>1. rest = <<>>
          BY <3>7, <3>8, <3>10, <4>2
        <5>2. Elems(rest) = {}
          BY <5>1 DEF Elems
        <5>. QED
          BY <4>2, <5>2
      <4>. QED
        BY <4>1, <4>2
    <3>13. LastCluster \in Nat /\ k \in Nat /\ 1 <= k /\ k <= LastCluster
      BY Fat32Assumption DEF Packed
    <3>14. PICK k2 \in Nat : k2 = IF num > len THEN k + (num - len) ELSE k
      <4>1. num > len => k + (num - len) \in Nat
        BY <3>13
      <4>. QED
        BY <3>13, <4>1
    <3>15. k2 \in 1 .. LastCluster /\ k <= k2
      <4>1. free_cluster_cnt = len + (LastCluster - k)
        BY <3>7, <3>8, FreeBehind
      <4>2. num <= len + (LastCluster - k)
        BY <1>2, <3>1, <4>1
      <4>. QED
        BY <3>13, <3>14, <4>2
    <3>16. \A c \in Clusters : (fat[c] = FREE_CLUSTER /\ c \notin Elems(rec)) <=> c > k
      BY <3>7 DEF Packed
    <3>17. ASSUME NEW c \in Clusters, fat'[c] = FREE_CLUSTER, c \notin Elems(rest) PROVE c > k2
      <4>1. fat[c] = FREE_CLUSTER /\ c \notin Elems(q) /\ c \in Nat
        BY <3>6, <3>17, Numbers
      <4>2. c \notin Elems(rec)
        <5>1. SUFFICES ASSUME NEW j \in 1 .. len, rec[j] = c PROVE FALSE
          BY <3>8 DEF Elems
        <5>2. CASE j <= num
          <6>1. j \in 1 .. num /\ j \in 1 .. Len(q) /\ q[j] = c
            BY <3>4, <3>9, <5>1, <5>2
          <6>. QED
            BY <4>1, <6>1 DEF Elems
        <5>3. CASE j > num
          BY <3>12, <3>17, <5>1, <5>3
        <5>. QED
          BY <5>2, <5>3
      <4>3. c > k
        BY <3>16, <4>1, <4>2
      <4>4. SUFFICES ASSUME c <= k2 PROVE FALSE
        BY <4>1
      <4>5. num > len
        BY <3>13, <3>14, <4>1, <4>3, <4>4
      <4>6. PICK j \in Nat : j = len + (c - k)
        BY <3>13, <4>1, <4>3
      <4>7. j \in 1 .. num /\ j > len /\ k + (j - len) = c
        BY <3>13, <3>14, <4>1, <4>3, <4>4, <4>5, <4>6
      <4>8. q[j] = c /\ j \in 1 .. Len(q)
        BY <3>4, <3>9, <4>7
      <4>. QED
        BY <4>1, <4>8 DEF Elems
    <3>18. ASSUME NEW c \in Clusters, c > k2 PROVE fat'[c] = FREE_CLUSTER /\ c \notin Elems(rest)
      <4>1. c \in Nat /\ c > k
        BY <3>13, <3>15, <3>18, Numbers
      <4>2. fat[c] = FREE_CLUSTER /\ c \notin Elems(rec)
        BY <3>16, <4>1
      <4>3. \A i \in 1 .. len : rec[i] # c
        BY <3>8, <4>2 DEF Elems
      <4>4. c \notin Elems(rest)
        BY <3>12, <4>3
      <4>5. c \notin Elems(q)
        <5>1. SUFFICES ASSUME NEW i \in 1 .. num, q[i] = c PROVE FALSE
          BY <3>4 DEF Elems
        <5>2. CASE i <= len
          BY <3>9, <4>3, <5>1, <5>2
        <5>3. CASE i > len
          <6>1. c = k + (i - len)
            BY <3>9, <5>1, <5>3
          <6>. QED
            BY <3>13, <3>14, <3>18, <5>3, <6>1
        <5>. QED
          BY <5>2, <5>3
      <4>. QED
        BY <3>6, <4>2, <4>4, <4>5
    <3>19. Packed(k2)'
      BY <3>11, <3>15, <3>17, <3>18 DEF Packed
    <3>. QED
      BY <3>19
  <2>. QED
    BY <2>1, <2>2
<1>. QED
  BY <1>5, <1>6

\* Released clusters are recycled.
LEMMA ReleasePacks ==
  ASSUME Inv, NEW k, Packed(k), NEW w \in Seq(Clusters), \A c \in Elems(w) : fat[c] # FREE_CLUSTER,
         recycled_cluster' = recycled_cluster \o w,
         \A c \in Clusters : fat'[c] = FREE_CLUSTER <=> fat[c] = FREE_CLUSTER \/ c \in Elems(w)
  PROVE  Packed(k)'
<1>1. PICK rec \in Seq(Clusters) : rec = recycled_cluster
  BY TypeFacts
<1>2. Elems(rec) \subseteq Elems(rec \o w) /\ Elems(w) \subseteq Elems(rec \o w)
  BY ElemsOfBoth
<1>3. \A c : c \in Elems(rec \o w) => c \in Elems(rec) \/ c \in Elems(w)
  <2>1. PICK z : z = rec \o w
    OBVIOUS
  <2>2. PICK m \in Nat : m = Len(rec)
    OBVIOUS
  <2>3. /\ Len(z) = m + Len(w) /\ Len(w) \in Nat
        /\ \A i \in 1 .. m : z[i] = rec[i]
        /\ \A i \in 1 .. Len(w) : z[m + i] = w[i]
    BY <2>1, <2>2
  <2>4. ASSUME NEW i \in 1 .. Len(z) PROVE z[i] \in Elems(rec) \/ z[i] \in Elems(w)
    <3>1. CASE i <= m
      BY <2>2, <2>3, <3>1 DEF Elems
    <3>2. CASE i > m
      <4>1. i - m \in 1 .. Len(w) /\ m + (i - m) = i
        BY <2>3, <3>2
      <4>2. z[i] = w[i - m]
        BY <2>3, <4>1
      <4>. QED
        BY <4>1, <4>2 DEF Elems
    <3>. QED
      BY <3>1, <3>2
  <2>. QED
    BY <2>1, <2>4 DEF Elems
<1>4. \A c \in Clusters : (fat[c] = FREE_CLUSTER /\ c \notin Elems(rec)) <=> c > k
  BY <1>1 DEF Packed
<1>5. \A c \in Clusters : (fat'[c] = FREE_CLUSTER /\ c \notin Elems(rec \o w)) <=> c > k
  BY <1>2, <1>3, <1>4
<1>6. recycled_cluster' = rec \o w
  BY <1>1
<1>. QED
  BY <1>5, <1>6 DEF Packed

\* A step that keeps what Packed is about.
LEMMA SameSegment ==
  ASSUME Segment, UNCHANGED <<fat, recycled_cluster, mounts>>, halt' = halt \/ halt' = "handle"
  PROVE  Segment'
BY DEF Segment, Packed

\* A step of incerase_size, or the panic instead of it.
LEMMA GrowSegment ==
  ASSUME Inv, Segment, NEW f \in opened, NEW cnt \in Nat, UNCHANGED mounts,
         \/ GrowPanic(f, cnt) # "no" /\ Panic(GrowPanic(f, cnt))
         \/ GrowPanic(f, cnt) = "no" /\ incerase_size(f, cnt) /\ UNCHANGED halt
  PROVE  Segment'
<1>1. SUFFICES ASSUME mounts = 0 PROVE halt' # "volume" /\ \E k2 : Packed(k2)'
  BY DEF Segment
<1>2. PICK k : Packed(k)
  BY <1>1 DEF Segment
<1>3. CASE GrowPanic(f, cnt) # "no" /\ Panic(GrowPanic(f, cnt))
  <2>1. halt' # "volume"
    BY <1>2, <1>3, GrowPacks DEF Panic
  <2>2. Packed(k)'
    BY <1>2, <1>3 DEF Panic, table, Packed
  <2>. QED
    BY <2>1, <2>2
<1>4. CASE GrowPanic(f, cnt) = "no" /\ incerase_size(f, cnt) /\ UNCHANGED halt
  <2>1. \E k2 : Packed(k2)'
    BY <1>2, <1>4, GrowPacks
  <2>. QED
    BY <1>1, <1>4, <2>1 DEF Segment
<1>. QED
  BY <1>3, <1>4

\* A step that releases the clusters w of the chain v.
LEMMA ReleaseSegment ==
  ASSUME Inv, Segment, UNCHANGED <<mounts, halt>>, NEW s \in Files, NEW v, ChainOf(fat, sde[s].first, v),
         NEW w \in Seq(Clusters), Elems(w) \subseteq Elems(v), recycled_cluster' = recycled_cluster \o w,
         \A c \in Clusters : fat'[c] = FREE_CLUSTER <=> fat[c] = FREE_CLUSTER \/ c \in Elems(w)
  PROVE  Segment'
<1>1. SUFFICES ASSUME mounts = 0 PROVE halt' # "volume" /\ \E k2 : Packed(k2)'
  BY DEF Segment
<1>2. PICK k : Packed(k)
  BY <1>1 DEF Segment
<1>3. \A c \in Elems(w) : fat[c] # FREE_CLUSTER
  <2>1. \A i \in 1 .. Len(v) : fat[v[i]] # FREE_CLUSTER
    BY ChainLinks
  <2>. QED
    BY <2>1 DEF Elems
<1>4. Packed(k)'
  BY <1>2, <1>3, ReleasePacks
<1>. QED
  BY <1>1, <1>4 DEF Segment

LEMMA CeilType ==
  ASSUME NEW n \in Nat, NEW u \in Nat \ {0}
  PROVE  Ceil(n, u) \in Nat
BY CeilFacts

LEMMA RootSegment ==
  ASSUME Inv, Segment, NEW n \in Slots, UNCHANGED mounts,
         \/ GrowPanic(Root, Ceil(n, SlotsPerClus)) # "no" /\ Panic(GrowPanic(Root, Ceil(n, SlotsPerClus)))
         \/ /\ GrowPanic(Root, Ceil(n, SlotsPerClus)) = "no"
            /\ incerase_size(Root, Ceil(n, SlotsPerClus)) /\ UNCHANGED halt
  PROVE  Segment'
<1>1. n \in Nat /\ SlotsPerClus \in Nat \ {0}
  BY Numbers, Fat32Assumption
<1>2. PICK cnt \in Nat : cnt = Ceil(n, SlotsPerClus)
  BY <1>1, CeilType
<1>3. Root \in opened
  BY DEF Inv, Shape
<1>. QED
  BY <1>2, <1>3, GrowSegment

LEMMA WriteAtSegment ==
  ASSUME Inv, Segment, NEW s \in Slots, NEW w \in Writes, NEW val, WriteAt(s, w[1], w[2], val)
  PROVE  Segment'
<1>1. PICK end \in Nat : end = w[1] + w[2]
  BY Fat32Assumption
<1>2. PICK cnt \in Nat : cnt = Ceil(end, ClusterSize)
  BY Fat32Assumption, CeilType
<1>3. s \in opened
  BY DEF WriteAt
<1>4. CASE end <= sde[s].size /\ Len(cluster_vec[s]) < cnt
  BY <1>1, <1>2, <1>4, SameSegment DEF WriteAt, Panic, table, history
<1>5. CASE end <= sde[s].size /\ ~ (Len(cluster_vec[s]) < cnt)
  BY <1>1, <1>2, <1>5, SameSegment DEF WriteAt, table, history
<1>6. CASE ~ (end <= sde[s].size)
  <2>1. IF GrowPanic(s, cnt) # "no" THEN Panic(GrowPanic(s, cnt))
        ELSE incerase_size(s, cnt) /\ UNCHANGED <<halt, mounts>>
    BY <1>1, <1>2, <1>6 DEF WriteAt
  <2>. QED
    BY <1>3, <2>1, GrowSegment DEF Panic, history
<1>. QED
  BY <1>4, <1>5, <1>6

LEMMA GrowFileSegment ==
  ASSUME Inv, Segment, NEW s \in opened, NEW n \in Sizes, grow(s, n)
  PROVE  Segment'
<1>1. n \in Nat
  BY Fat32Assumption
<1>2. PICK cnt \in Nat : cnt = Ceil(n, ClusterSize)
  BY <1>1, Fat32Assumption, CeilType
<1>3. IF GrowPanic(s, cnt) # "no" THEN Panic(GrowPanic(s, cnt))
      ELSE incerase_size(s, cnt) /\ UNCHANGED <<halt, mounts>>
  BY <1>2 DEF grow
<1>. QED
  BY <1>3, GrowSegment DEF Panic, history

LEMMA ClearContentSegment ==
  ASSUME Inv, Segment, NEW s \in Slots, clear_content(s)
  PROVE  Segment'
<1>1. s \in Files
  BY Numbers
<1>2. PICK q \in Chain(fat, sde[s].first) : dealloc_cluster(q, fat)
  BY DEF clear_content
<1>3. UNCHANGED <<halt, mounts>>
  BY DEF clear_content, history
<1>4. CASE sde[s].first = 0
  <2>1. q = <<>>
    BY <1>4, ChainReads
  <2>. QED
    BY <1>2, <1>3, <2>1, DeallocNothing, SameSegment
<1>5. CASE sde[s].first # 0
  <2>1. ChainOf(fat, sde[s].first, q) /\ q \in Seq(Clusters)
    BY <1>5, ChainReads
  <2>2. \A c \in Clusters : fat'[c] = FREE_CLUSTER <=> fat[c] = FREE_CLUSTER \/ c \in Elems(q)
    BY <1>1, <1>2, <1>5, <2>1, ReleaseAll
  <2>3. recycled_cluster' = recycled_cluster \o q
    BY <1>2 DEF dealloc_cluster
  <2>. QED
    BY <1>1, <1>3, <2>1, <2>2, <2>3, ReleaseSegment
<1>. QED
  BY <1>4, <1>5

LEMMA ClearSegment ==
  ASSUME Inv, Segment, NEW s \in Slots, Clear(s)
  PROVE  Segment'
<1>1. s \in Files /\ s \in opened /\ UNCHANGED <<halt, mounts>>
  BY Numbers DEF Clear, history
<1>2. CASE sde[s].first = 0
  BY <1>1, <1>2, SameSegment DEF Clear, table
<1>3. CASE sde[s].first # 0 /\ cluster_vec[s] = <<>>
  <2>1. dealloc_cluster(<<>>, fat)
    BY <1>3 DEF Clear
  <2>. QED
    BY <1>1, <2>1, DeallocNothing, SameSegment
<1>4. CASE sde[s].first # 0 /\ cluster_vec[s] # <<>>
  <2>1. ChainOf(fat, sde[s].first, cluster_vec[s]) /\ dealloc_cluster(cluster_vec[s], fat)
    BY <1>1, <1>4 DEF Clear, Inv, Handle
  <2>2. cluster_vec[s] \in Seq(Clusters)
    BY <2>1 DEF ChainOf
  <2>3. \A c \in Clusters : fat'[c] = FREE_CLUSTER <=> fat[c] = FREE_CLUSTER \/ c \in Elems(cluster_vec[s])
    BY <1>1, <1>4, <2>1, ReleaseAll
  <2>4. recycled_cluster' = recycled_cluster \o cluster_vec[s]
    BY <2>1 DEF dealloc_cluster
  <2>. QED
    BY <1>1, <2>1, <2>2, <2>3, <2>4, ReleaseSegment
<1>. QED
  BY <1>2, <1>3, <1>4

LEMMA ShrinkSegment ==
  ASSUME Inv, Segment, NEW s \in Slots, s \in opened, NEW n \in Sizes, 0 < n, n < sde[s].size, shrink(s, n)
  PROVE  Segment'
<1>1. PICK v : v = cluster_vec[s]
  OBVIOUS
<1>2. PICK l : l = Ceil(n, ClusterSize)
  OBVIOUS
<1>3. CASE Panic("handle")
  BY <1>3, SameSegment DEF Panic, table, history
<1>4. CASE ~ Panic("handle")
  <2>1. CutBack(s, v, l) /\ UNCHANGED <<mounts, halt>>
    BY <1>1, <1>2, <1>4, ShrinkCuts
  <2>2. s \in Files /\ ChainOf(fat, sde[s].first, v) /\ v \in Seq(Clusters) /\ l \in 0 .. Len(v)
    BY <2>1, Numbers DEF CutBack, ChainOf
  <2>3. PICK w : w = SubSeq(v, l + 1, Len(v))
    OBVIOUS
  <2>4. w \in Seq(Clusters) /\ Elems(w) \subseteq Elems(v)
    BY <2>2, <2>3, PieceElems DEF Elems
  <2>5. /\ recycled_cluster' = recycled_cluster \o w
        /\ \A c \in Clusters : fat'[c] = FREE_CLUSTER <=> fat[c] = FREE_CLUSTER \/ c \in Elems(w)
    BY <2>1, <2>3 DEF CutBack
  <2>. QED
    BY <2>1, <2>2, <2>4, <2>5, ReleaseSegment
<1>. QED
  BY <1>3, <1>4

LEMMA InitSegment == Init => Segment
<1>. SUFFICES ASSUME Init PROVE Segment
  OBVIOUS
<1>1. Elems(recycled_cluster) = {}
  BY DEF Init, Elems
<1>2. \A c \in Clusters : fat[c] = FREE_CLUSTER <=> c # 2
  BY Numbers DEF Init, RootCluster
<1>3. \A c \in Clusters : c # 2 <=> c > 2
  BY Fat32Assumption DEF Clusters
<1>4. 2 \in 1 .. LastCluster
  BY Fat32Assumption
<1>5. Packed(2)
  BY <1>1, <1>2, <1>3, <1>4 DEF Packed
<1>. QED
  BY <1>5 DEF Segment, Init

LEMMA StepSegment == Inv /\ Segment /\ [Next]_vars => Segment'
<1>. SUFFICES ASSUME Inv, Segment, [Next]_vars PROVE Segment'
  OBVIOUS
<1>1. CASE Remount
  <2>1. mounts' # 0
    BY <1>1 DEF Remount, Inv, TypeOK
  <2>. QED
    BY <2>1 DEF Segment
<1>2. CASE \E s \in Slots : Create(s)
  <2>1. PICK s \in Slots : Create(s)
    BY <1>2
  <2>2. PICK cnt : cnt = Ceil(s, SlotsPerClus)
    OBVIOUS
  <2>3. IF GrowPanic(Root, cnt) # "no" THEN Panic(GrowPanic(Root, cnt))
        ELSE incerase_size(Root, cnt) /\ UNCHANGED <<halt, mounts>>
    BY <2>1, <2>2 DEF Create, history
  <2>. QED
    BY <2>2, <2>3, RootSegment DEF Panic, history
<1>3. CASE \E s, t \in Slots : Rename(s, t)
  <2>1. PICK s \in Slots, t \in Slots : Rename(s, t)
    BY <1>3
  <2>2. PICK cnt : cnt = Ceil(t, SlotsPerClus)
    OBVIOUS
  <2>3. IF GrowPanic(Root, cnt) # "no" THEN Panic(GrowPanic(Root, cnt))
        ELSE incerase_size(Root, cnt) /\ UNCHANGED <<halt, mounts>>
    BY <2>1, <2>2 DEF Rename
  <2>. QED
    BY <2>2, <2>3, RootSegment DEF Panic, history
<1>4. CASE \E s \in Slots : Open(s)
  BY <1>4, SameSegment DEF Open, table, history
<1>5. CASE \E s \in Slots : Close(s)
  BY <1>5, SameSegment DEF Close, table
<1>6. CASE \E s \in Slots : Clear(s)
  BY <1>6, ClearSegment
<1>7. CASE \E s \in Slots, w \in Writes, val \in Byte \ {0} : WriteAt(s, w[1], w[2], val)
  BY <1>7, WriteAtSegment
<1>8. CASE \E s \in Slots, n \in Sizes : ModifySize(s, n)
  <2>1. PICK s \in Slots, n \in Sizes : ModifySize(s, n)
    BY <1>8
  <2>. QED
    BY <2>1, ClearContentSegment, ShrinkSegment, GrowFileSegment DEF ModifySize
<1>9. CASE UNCHANGED vars
  BY <1>9, SameSegment DEF vars, table, history
<1>. QED
  BY <1>1, <1>2, <1>3, <1>4, <1>5, <1>6, <1>7, <1>8, <1>9 DEF Next

-----------------------------------------------------------------------------
\* The state of the volume and of the VirtFiles keeps its types: the count of free
\* clusters never leaves the volume's size and never underflows, no list ever names a
\* cluster outside the volume.
THEOREM TypesAreKept == Spec => []TypeOK
<1>1. Inv => TypeOK
  BY DEF Inv
<1>. QED
  BY <1>1, InvHolds, PTL

\* No cluster is ever on two chains, whatever is written, truncated, renamed, unlinked
\* and reused (alloc_cluster, dealloc_cluster, incerase_size, modify_size, clear, rename).
THEOREM ClustersHaveOneOwner == Spec => []ChainsApart
<1>1. Inv => ChainsApart
  BY DEF Inv
<1>. QED
  BY <1>1, InvHolds, PTL

\* The recycled clusters are free and different, and the count in FSInfo is the number of
\* free entries of the FAT: what alloc_cluster relies on when it hands out clusters.
THEOREM FreeCountIsRight == Spec => []FreeIsFree
<1>1. Inv => FreeIsFree
  BY DEF Inv
<1>. QED
  BY <1>1, InvHolds, PTL

\* A VirtFile's cached cluster list is the chain in the FAT, of the length that the file's
\* size asks for, unless rename made the VirtFile.
THEOREM HandlesAreCurrent == Spec => []HandleHasChain
<1>1. Inv => HandleHasChain
  BY InvHandle
<1>. QED
  BY <1>1, InvHolds, PTL

\* Every allocated cluster is on the chain of an entry in use, as long as no file was
\* renamed and no unlinked file has grown: clear and modify_size give back all they should.
THEOREM NoClusterLeaks == Spec => []NothingLeaks
<1>1. Init => Inv /\ Covered
  BY InitInv, InitCovers
<1>2. (Inv /\ Covered) /\ [Next]_vars => (Inv /\ Covered)'
  BY StepInv, StepCovers
<1>3. Inv /\ Covered => NothingLeaks
  BY CoveredLeaksNothing
<1>. QED
  BY <1>1, <1>2, <1>3, PTL DEF Spec

\* Until the volume is mounted again, the upward scan of find_blank_cluster never runs past
\* the last cluster: what it has not reached yet and what is recycled are all the free
\* clusters, so a count that says there is space is right about the scan too.
THEOREM ScanStaysInside == Spec => []ScanFinds
<1>1. Init => Inv /\ Segment
  BY InitInv, InitSegment
<1>2. (Inv /\ Segment) /\ [Next]_vars => (Inv /\ Segment)'
  BY StepInv, StepSegment
<1>3. Inv /\ Segment => ScanFinds
  <2>1. Inv => mounts \in Nat
    BY Fat32Assumption DEF Inv, TypeOK
  <2>. QED
    BY <2>1 DEF Segment, ScanFinds
<1>. QED
  BY <1>1, <1>2, <1>3, PTL DEF Spec

==============================================================================
