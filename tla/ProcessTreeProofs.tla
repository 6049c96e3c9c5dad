-------------------------- MODULE ProcessTreeProofs --------------------------
(***************************************************************************)
(* Proofs about ProcessTree, for any number of pids: as long as the kernel *)
(* has not panicked, the parent links and the children vectors of living   *)
(* tasks are two views of one tree, whatever order tasks exit in.          *)
(***************************************************************************)
EXTENDS ProcessTree, FiniteSetTheorems, SequenceTheorems, WellFoundedInduction, TLAPS

\* No task is listed twice.
NoDup(s) == \A i, j \in 1..Len(s) : s[i] = s[j] => i = j

\* The parent links pa and the vectors ch of the tasks with states st, when n is the
\* next pid.  Zombies keep their vectors, so only those of living tasks count.
Tree(n, st, pa, ch) ==
  LET exists(p) == st[p] \in {"live", "zombie"}
  IN  /\ st[INITPROC] = "live"
      /\ \A p \in Pids : p >= n => st[p] = "none"
      /\ \A p \in Pids : st[p] = "none" => ch[p] = <<>>
      /\ \A p \in Pids \ {INITPROC} : exists(p) =>
           /\ pa[p] < p /\ st[pa[p]] = "live"
           /\ \E i \in 1..Len(ch[pa[p]]) : ch[pa[p]][i] = p
      /\ \A q \in Pids : st[q] = "live" =>
           /\ NoDup(ch[q])
           /\ \A i \in 1..Len(ch[q]) :
                ch[q][i] # INITPROC /\ exists(ch[q][i]) /\ pa[ch[q][i]] = q

\* The inductive invariant.
IInv == TypeOK /\ (panicked = "no" => Tree(nextPid, state, parent, children))

-----------------------------------------------------------------------------
(* Lemmas about sequences *)

\* Taking one entry out of a vector closes the gap.
LEMMA RemoveAtProperties ==
  ASSUME NEW S, NEW s \in Seq(S), NEW i \in 1..Len(s)
  PROVE  /\ RemoveAt(s, i) \in Seq(S) /\ Len(RemoveAt(s, i)) = Len(s) - 1
         /\ \A j \in 1..(Len(s) - 1) : RemoveAt(s, i)[j] = s[IF j < i THEN j ELSE j + 1]
<1> DEFINE u == SubSeq(s, 1, i - 1)
           v == SubSeq(s, i + 1, Len(s))
<1>1. Len(s) \in Nat /\ i \in Nat \ {0} /\ i <= Len(s)
  OBVIOUS
<1>2. u \in Seq(S) /\ Len(u) = i - 1 /\ \A j \in 1..(i - 1) : u[j] = s[j]
  BY <1>1
<1>3. v \in Seq(S) /\ Len(v) = Len(s) - i /\ \A j \in 1..(Len(s) - i) : v[j] = s[i + j]
  <2> DEFINE m == i + 1
             n == Len(s)
  <2>1. m \in 1..(n + 1) /\ n \in Nat /\ n <= Len(s)
    BY <1>1
  <2>2. /\ v \in Seq(S) /\ Len(v) = n - m + 1
        /\ \A j \in 1..(n - m + 1) : v[j] = s[m + j - 1]
    <3> HIDE DEF m, n
    <3>1. v = SubSeq(s, m, n)
      BY DEF v, m, n
    <3> HIDE DEF v
    <3> QED
      BY <2>1, <3>1
  <2>3. n - m + 1 = Len(s) - i
    BY <1>1
  <2>4. ASSUME NEW j \in 1..(Len(s) - i)
        PROVE  v[j] = s[i + j]
    <3>1. m + j - 1 = i + j
      BY <1>1
    <3> HIDE DEF v, m, n
    <3> QED
      BY <2>2, <2>3, <3>1
  <2> HIDE DEF v, m, n
  <2> QED
    BY <2>2, <2>3, <2>4
<1>4. RemoveAt(s, i) = u \o v
  BY DEF RemoveAt
<1> HIDE DEF u, v
<1>5. /\ u \o v \in Seq(S) /\ Len(u \o v) = Len(u) + Len(v)
      /\ \A j \in 1..(Len(u) + Len(v)) : (u \o v)[j] = IF j <= Len(u) THEN u[j] ELSE v[j - Len(u)]
  BY <1>2, <1>3, ConcatProperties
<1>6. ASSUME NEW j \in 1..(Len(s) - 1)
      PROVE  (u \o v)[j] = s[IF j < i THEN j ELSE j + 1]
  <2>1. CASE j < i
    BY <2>1, <1>1, <1>2, <1>3, <1>5
  <2>2. CASE j >= i
    <3>1. j \in 1..(Len(u) + Len(v)) /\ ~ (j <= Len(u)) /\ j - Len(u) = j - i + 1
      BY <2>2, <1>1, <1>2, <1>3
    <3>2. j - i + 1 \in 1..(Len(s) - i) /\ i + (j - i + 1) = j + 1
      BY <2>2, <1>1
    <3>3. (u \o v)[j] = v[j - i + 1]
      BY <3>1, <1>5
    <3>4. v[j - i + 1] = s[i + (j - i + 1)]
      BY <3>2, <1>3
    <3> QED
      BY <3>2, <3>3, <3>4, <2>2, <1>1
  <2>3. j < i \/ j >= i
    BY <1>1
  <2> QED
    BY <2>1, <2>2, <2>3
<1> QED
  BY <1>1, <1>2, <1>3, <1>4, <1>5, <1>6

\* What is left lists the others once, and not the one that was taken out.
LEMMA RemoveOnce ==
  ASSUME NEW S, NEW s \in Seq(S), NoDup(s), NEW i \in 1..Len(s)
  PROVE  LET r == RemoveAt(s, i) IN
         /\ NoDup(r)
         /\ \A j \in 1..Len(r) : r[j] # s[i] /\ \E k \in 1..Len(s) : r[j] = s[k]
         /\ \A k \in 1..Len(s) : s[k] # s[i] => \E j \in 1..Len(r) : r[j] = s[k]
<1> DEFINE r == RemoveAt(s, i)
           at(j) == IF j < i THEN j ELSE j + 1
<1>1. /\ Len(s) \in Nat /\ Len(r) = Len(s) - 1
      /\ \A j \in 1..Len(r) : r[j] = s[at(j)]
  BY RemoveAtProperties
<1> HIDE DEF r
<1>2. \A j \in 1..Len(r) : at(j) \in 1..Len(s) /\ at(j) # i
  BY <1>1
<1>3. \A j, k \in 1..Len(r) : at(j) = at(k) => j = k
  BY <1>1
<1>4. \A j \in 1..Len(r) : r[j] # s[i] /\ \E k \in 1..Len(s) : r[j] = s[k]
  BY <1>1, <1>2 DEF NoDup
<1>5. NoDup(r)
  BY <1>1, <1>2, <1>3 DEF NoDup
<1>6. ASSUME NEW k \in 1..Len(s), s[k] # s[i]
      PROVE  \E j \in 1..Len(r) : r[j] = s[k]
  <2>1. k # i
    BY <1>6
  <2>2. CASE k < i
    <3>1. k \in 1..Len(r) /\ at(k) = k
      BY <2>2, <1>1
    <3> QED
      BY <3>1, <1>1
  <2>3. CASE k > i
    <3>1. k - 1 \in 1..Len(r) /\ at(k - 1) = k
      BY <2>3, <1>1
    <3> QED
      BY <3>1, <1>1
  <2> QED
    BY <2>1, <2>2, <2>3, <1>1
<1> QED
  BY <1>4, <1>5, <1>6 DEF r

\* The position that the exit of a thread looks for in its parent's vector.
LEMMA IndexOfProperties ==
  ASSUME NEW S, NEW s \in Seq(S), NoDup(s), NEW k \in 1..Len(s)
  PROVE  IndexOf(s, s[k]) \in 1..Len(s) /\ s[IndexOf(s, s[k])] = s[k]
<1>1. \A j \in 1..(k - 1) : s[j] # s[k]
  BY DEF NoDup
<1> QED
  BY <1>1 DEF IndexOf

\* wait4 finds the first zombie that matches.
LEMMA FirstZombie ==
  ASSUME NEW T \in SUBSET Nat, T # {}
  PROVE  (CHOOSE i \in T : \A j \in T : i <= j) \in T
<1> DEFINE R == {ss \in Nat \X Nat : ss[1] < ss[2]}
<1>1. IsWellFoundedOn(R, Nat)
  BY NatLessThanWellFounded DEF OpToRel
<1>2. PICK x \in T : \A y \in T : ~ (<<y, x>> \in R)
  <2> HIDE DEF R
  <2> QED
    BY <1>1, WFMin
<1>3. ASSUME NEW y \in T
      PROVE  x <= y
  <2>1. <<y, x>> \in Nat \X Nat /\ <<y, x>>[1] = y /\ <<y, x>>[2] = x
    OBVIOUS
  <2>2. ~ (y < x)
    BY <1>2, <2>1
  <2> QED
    BY <2>2
<1> QED
  BY <1>3

-----------------------------------------------------------------------------
(* What the operations do to the tree *)

\* The types that the tree is about.
TreeTypes(n, st, pa, ch) ==
  /\ n \in 0..(MaxPid + 1)
  /\ st \in [Pids -> {"none", "live", "zombie", "freed"}]
  /\ pa \in [Pids -> Pids] /\ ch \in [Pids -> Seq(Pids)]

\* A task c without children leaves the vector of its parent q and is freed: what wait4
\* does to a zombie and the exit of a thread to itself.
LEMMA TakeOut ==
  ASSUME TreeTypes(nextPid, state, parent, children), Tree(nextPid, state, parent, children),
         NEW q \in Pids, state[q] = "live", NEW i \in 1..Len(children[q]),
         TreeTypes(nextPid, state', parent, children'),
         state' = [state EXCEPT ![children[q][i]] = "freed"], children'[q] = RemoveAt(children[q], i),
         \A v \in Pids \ {q, children[q][i]} : children'[v] = children[v],
         \A v \in Pids \ {INITPROC} : state[v] \in {"live", "zombie"} => parent[v] # children[q][i]
  PROVE  Tree(nextPid, state', parent, children')
<1> DEFINE c == children[q][i]
           r == RemoveAt(children[q], i)
<1>1. /\ children[q] \in Seq(Pids) /\ Len(children[q]) \in Nat /\ c \in Pids /\ NoDup(children[q])
      /\ c # INITPROC /\ state[c] \in {"live", "zombie"} /\ parent[c] = q
  BY DEF TreeTypes, Tree
<1>2. c # q
  BY <1>1 DEF Tree, TreeTypes, Pids
<1>3. /\ NoDup(r)
      /\ \A j \in 1..Len(r) : r[j] # c /\ \E k \in 1..Len(children[q]) : r[j] = children[q][k]
      /\ \A k \in 1..Len(children[q]) : children[q][k] # c => \E j \in 1..Len(r) : r[j] = children[q][k]
  BY <1>1, RemoveOnce
<1>4. \A v \in Pids : state'[v] = IF v = c THEN "freed" ELSE state[v]
  BY <1>1 DEF TreeTypes
<1>5. INITPROC \in Pids
  BY PidsAssumption DEF INITPROC, Pids
<1> HIDE DEF r, c
<1>6. children'[q] = r /\ \A v \in Pids \ {q, c} : children'[v] = children[v]
  BY DEF r, c
<1>7. /\ state'[INITPROC] = "live"
      /\ \A p \in Pids : p >= nextPid => state'[p] = "none"
      /\ \A p \in Pids : state'[p] = "none" => children'[p] = <<>>
  BY <1>1, <1>4, <1>5, <1>6 DEF Tree
<1>8. ASSUME NEW p \in Pids \ {INITPROC}, state'[p] \in {"live", "zombie"}
      PROVE  /\ parent[p] < p /\ state'[parent[p]] = "live"
             /\ \E j \in 1..Len(children'[parent[p]]) : children'[parent[p]][j] = p
  <2>1. p # c /\ state[p] \in {"live", "zombie"}
    BY <1>4, <1>8
  <2>2. /\ parent[p] < p /\ state[parent[p]] = "live" /\ parent[p] \in Pids
        /\ \E j \in 1..Len(children[parent[p]]) : children[parent[p]][j] = p
    BY <2>1 DEF Tree, TreeTypes
  <2>3. parent[p] # c
    BY <2>1 DEF c
  <2>4. state'[parent[p]] = "live"
    BY <2>2, <2>3, <1>4
  <2>5. CASE parent[p] = q
    BY <2>1, <2>2, <2>5, <1>3, <1>6
  <2>6. CASE parent[p] # q
    <3>1. children'[parent[p]] = children[parent[p]]
      BY <2>2, <2>3, <2>6, <1>6
    <3> QED
      BY <2>2, <2>4, <3>1
  <2> QED
    BY <2>2, <2>4, <2>5, <2>6
<1>9. ASSUME NEW v \in Pids, state'[v] = "live"
      PROVE  /\ NoDup(children'[v])
             /\ \A j \in 1..Len(children'[v]) :
                  /\ children'[v][j] # INITPROC /\ state'[children'[v][j]] \in {"live", "zombie"}
                  /\ parent[children'[v][j]] = v
  <2>1. v # c /\ state[v] = "live"
    BY <1>4, <1>9
  <2>2. /\ NoDup(children[v]) /\ children[v] \in Seq(Pids)
        /\ \A j \in 1..Len(children[v]) : /\ children[v][j] # INITPROC /\ children[v][j] \in Pids
                                    /\ state[children[v][j]] \in {"live", "zombie"} /\ parent[children[v][j]] = v
    BY <2>1 DEF Tree, TreeTypes
  <2>3. CASE v = q
    <3>1. children'[v] = r
      BY <2>3, <1>6
    <3>2. ASSUME NEW j \in 1..Len(r)
          PROVE  r[j] # INITPROC /\ state'[r[j]] \in {"live", "zombie"} /\ parent[r[j]] = q
      <4>1. PICK k \in 1..Len(children[q]) : r[j] = children[q][k]
        BY <1>3
      <4>2. r[j] # c
        BY <1>3
      <4> QED
        BY <2>2, <2>3, <4>1, <4>2, <1>4
    <3> QED
      BY <2>3, <3>1, <3>2, <1>3
  <2>4. CASE v # q
    <3>1. \A j \in 1..Len(children[v]) : children[v][j] # c
      BY <2>2, <2>4, <1>1
    <3> QED
      BY <2>1, <2>2, <2>4, <3>1, <1>4, <1>6
  <2> QED
    BY <2>3, <2>4
<1> QED
  BY <1>7, <1>8, <1>9 DEF Tree

\* A process p becomes a zombie and its children go to initproc.
LEMMA HandOver ==
  ASSUME TreeTypes(nextPid, state, parent, children), Tree(nextPid, state, parent, children),
         NEW p \in Pids \ {INITPROC}, state[p] = "live",
         TreeTypes(nextPid, state', parent', children'),
         state' = [state EXCEPT ![p] = "zombie"],
         parent' = [c \in Pids |-> IF c \in ToSet(children[p]) THEN INITPROC ELSE parent[c]],
         children' = [children EXCEPT ![INITPROC] = @ \o children[p]]
  PROVE  Tree(nextPid, state', parent', children')
<1> DEFINE I == children[INITPROC]
           C == children[p]
           A == I \o C
<1>1. INITPROC \in Pids
  BY PidsAssumption DEF INITPROC, Pids
<1>2. I \in Seq(Pids) /\ C \in Seq(Pids) /\ Len(I) \in Nat /\ Len(C) \in Nat
  BY <1>1 DEF TreeTypes
<1>3. /\ A \in Seq(Pids) /\ Len(A) = Len(I) + Len(C)
      /\ \A j \in 1..(Len(I) + Len(C)) : A[j] = IF j <= Len(I) THEN I[j] ELSE C[j - Len(I)]
  BY <1>2, ConcatProperties
<1>4. /\ state' = [state EXCEPT ![p] = "zombie"] /\ children'[INITPROC] = A
      /\ \A v \in Pids \ {INITPROC} : children'[v] = children[v]
  BY <1>1 DEF TreeTypes
<1>5. /\ NoDup(I) /\ NoDup(C)
      /\ \A j \in 1..Len(I) : /\ I[j] # INITPROC /\ I[j] \in Pids /\ parent[I[j]] = INITPROC
                              /\ state[I[j]] \in {"live", "zombie"}
      /\ \A j \in 1..Len(C) : /\ C[j] # INITPROC /\ C[j] \in Pids /\ parent[C[j]] = p
                              /\ state[C[j]] \in {"live", "zombie"}
  BY <1>1, <1>2 DEF Tree
<1>6. ToSet(C) = {C[j] : j \in 1..Len(C)}
  BY <1>2 DEF ToSet
<1>7. \A v \in Pids : parent'[v] = IF \E j \in 1..Len(C) : C[j] = v THEN INITPROC ELSE parent[v]
  BY <1>6
<1>8. \A v \in Pids : state'[v] = IF v = p THEN "zombie" ELSE state[v]
  BY DEF TreeTypes
<1> HIDE DEF I, C, A
<1>9. \A j \in 1..Len(A) : \/ j \in 1..Len(I) /\ A[j] = I[j]
                           \/ j - Len(I) \in 1..Len(C) /\ A[j] = C[j - Len(I)]
  BY <1>2, <1>3
<1>10. /\ \A j \in 1..Len(I) : \E k \in 1..Len(A) : A[k] = I[j]
       /\ \A j \in 1..Len(C) : \E k \in 1..Len(A) : A[k] = C[j]
  <2>1. \A j \in 1..Len(I) : j \in 1..Len(A) /\ A[j] = I[j]
    BY <1>2, <1>3
  <2>2. ASSUME NEW j \in 1..Len(C)
        PROVE  Len(I) + j \in 1..Len(A) /\ A[Len(I) + j] = C[j]
    <3>1. Len(I) + j \in 1..(Len(I) + Len(C)) /\ ~ (Len(I) + j <= Len(I)) /\ Len(I) + j - Len(I) = j
      BY <1>2
    <3> QED
      BY <3>1, <1>3
  <2> QED
    BY <2>1, <2>2
<1>11. NoDup(A)
  <2> SUFFICES ASSUME NEW j \in 1..Len(A), NEW k \in 1..Len(A), A[j] = A[k]
               PROVE  j = k
    BY DEF NoDup
  <2>1. \A x \in 1..Len(I), y \in 1..Len(C) : I[x] # C[y]
    BY <1>5
  <2>2. CASE j \in 1..Len(I) /\ A[j] = I[j]
    <3>1. k \in 1..Len(I) /\ A[k] = I[k]
      BY <2>1, <2>2, <1>9
    <3> QED
      BY <2>2, <3>1, <1>5 DEF NoDup
  <2>3. CASE j - Len(I) \in 1..Len(C) /\ A[j] = C[j - Len(I)]
    <3>1. k - Len(I) \in 1..Len(C) /\ A[k] = C[k - Len(I)]
      BY <2>1, <2>3, <1>9
    <3>2. j - Len(I) = k - Len(I)
      BY <2>3, <3>1, <1>5 DEF NoDup
    <3> QED
      BY <3>2, <1>2, <1>3
  <2> QED
    BY <2>2, <2>3, <1>9
<1>12. /\ state'[INITPROC] = "live"
       /\ \A v \in Pids : v >= nextPid => state'[v] = "none"
       /\ \A v \in Pids : state'[v] = "none" => children'[v] = <<>>
  BY <1>1, <1>4, <1>8 DEF Tree
<1>13. ASSUME NEW v \in Pids \ {INITPROC}, state'[v] \in {"live", "zombie"}
       PROVE  /\ parent'[v] < v /\ state'[parent'[v]] = "live"
              /\ \E j \in 1..Len(children'[parent'[v]]) : children'[parent'[v]][j] = v
  <2>1. state[v] \in {"live", "zombie"}
    BY <1>8, <1>13
  <2>2. /\ parent[v] < v /\ state[parent[v]] = "live" /\ parent[v] \in Pids
        /\ \E j \in 1..Len(children[parent[v]]) : children[parent[v]][j] = v
    BY <2>1 DEF Tree, TreeTypes
  <2>3. CASE \E j \in 1..Len(C) : C[j] = v
    <3>1. parent'[v] = INITPROC /\ INITPROC < v
      BY <2>3, <1>7 DEF INITPROC, Pids
    <3>2. \E j \in 1..Len(A) : A[j] = v
      BY <2>3, <1>10
    <3>3. children'[parent'[v]] = A /\ state'[parent'[v]] = "live"
      BY <3>1, <1>4, <1>12
    <3> QED
      BY <3>1, <3>2, <3>3
  <2>4. CASE ~ \E j \in 1..Len(C) : C[j] = v
    <3>1. parent'[v] = parent[v] /\ parent[v] # p
      BY <2>2, <2>4, <1>7 DEF C
    <3>2. state'[parent[v]] = "live"
      BY <2>2, <3>1, <1>8
    <3>3. \E j \in 1..Len(children'[parent[v]]) : children'[parent[v]][j] = v
      <4>1. CASE parent[v] = INITPROC
        BY <4>1, <2>2, <1>4, <1>10 DEF I
      <4>2. CASE parent[v] # INITPROC
        BY <4>2, <2>2, <1>4
      <4> QED
        BY <4>1, <4>2
    <3> QED
      BY <2>2, <3>1, <3>2, <3>3
  <2> QED
    BY <2>3, <2>4
<1>14. ASSUME NEW v \in Pids, state'[v] = "live"
       PROVE  /\ NoDup(children'[v])
              /\ \A j \in 1..Len(children'[v]) :
                   /\ children'[v][j] # INITPROC /\ state'[children'[v][j]] \in {"live", "zombie"}
                   /\ parent'[children'[v][j]] = v
  <2>1. v # p /\ state[v] = "live"
    BY <1>8, <1>14
  <2>2. CASE v = INITPROC
    <3>1. ASSUME NEW j \in 1..Len(A)
          PROVE  A[j] # INITPROC /\ state'[A[j]] \in {"live", "zombie"} /\ parent'[A[j]] = INITPROC
      BY <1>5, <1>7, <1>8, <1>9
    <3> QED
      BY <2>2, <3>1, <1>4, <1>11
  <2>3. CASE v # INITPROC
    <3>1. /\ NoDup(children[v]) /\ children[v] \in Seq(Pids)
          /\ \A j \in 1..Len(children[v]) : /\ children[v][j] # INITPROC /\ children[v][j] \in Pids
                                      /\ state[children[v][j]] \in {"live", "zombie"} /\ parent[children[v][j]] = v
      BY <2>1 DEF Tree, TreeTypes
    <3>2. \A j \in 1..Len(children[v]) : ~ \E k \in 1..Len(C) : C[k] = children[v][j]
      BY <2>1, <3>1, <1>5
    <3> QED
      BY <2>3, <3>1, <3>2, <1>4, <1>7, <1>8
  <2> QED
    BY <2>2, <2>3
<1> QED
  BY <1>12, <1>13, <1>14 DEF Tree

\* fork: a new task n under p.
LEMMA NewChild ==
  ASSUME NEW n \in Pids, NEW st, NEW pa, NEW ch, TreeTypes(n, st, pa, ch), Tree(n, st, pa, ch),
         NEW p \in Pids, st[p] = "live"
  PROVE  Tree(n + 1, [st EXCEPT ![n] = "live"], [pa EXCEPT ![n] = p],
              [ch EXCEPT ![p] = Append(@, n)])
<1> DEFINE st2 == [st EXCEPT ![n] = "live"]
           pa2 == [pa EXCEPT ![n] = p]
           A == Append(ch[p], n)
           ch2 == [ch EXCEPT ![p] = A]
<1>0. INITPROC \in Pids /\ Pids \subseteq Nat /\ n \in Nat
  BY PidsAssumption DEF INITPROC, Pids
<1>1. st[n] = "none" /\ ch[n] = <<>> /\ p # n /\ p < n /\ n # INITPROC
  BY <1>0 DEF Tree, Pids
<1>2. /\ ch[p] \in Seq(Pids) /\ Len(ch[p]) \in Nat /\ Len(A) = Len(ch[p]) + 1
      /\ A[Len(ch[p]) + 1] = n /\ \A j \in 1..Len(ch[p]) : A[j] = ch[p][j]
  BY DEF TreeTypes
<1>3. \A v \in Pids : /\ st2[v] = IF v = n THEN "live" ELSE st[v]
                      /\ pa2[v] = IF v = n THEN p ELSE pa[v]
                      /\ ch2[v] = IF v = p THEN A ELSE ch[v]
  BY DEF TreeTypes
<1> HIDE DEF st2, pa2, ch2, A
<1>4. \A v \in Pids : st[v] = "live" => \A j \in 1..Len(ch[v]) : ch[v][j] # n /\ ch[v][j] \in Pids
  BY <1>1 DEF Tree, TreeTypes
<1>5. /\ st2[INITPROC] = "live"
      /\ \A v \in Pids : v >= n + 1 => st2[v] = "none"
      /\ \A v \in Pids : st2[v] = "none" => ch2[v] = <<>>
  BY <1>0, <1>1, <1>3 DEF Tree
<1>6. ASSUME NEW v \in Pids \ {INITPROC}, st2[v] \in {"live", "zombie"}
      PROVE  /\ pa2[v] < v /\ st2[pa2[v]] = "live"
             /\ \E j \in 1..Len(ch2[pa2[v]]) : ch2[pa2[v]][j] = v
  <2>1. CASE v = n
    BY <2>1, <1>1, <1>2, <1>3
  <2>2. CASE v # n
    <3>1. /\ pa[v] < v /\ st[pa[v]] = "live" /\ pa[v] \in Pids
          /\ \E j \in 1..Len(ch[pa[v]]) : ch[pa[v]][j] = v
      BY <2>2, <1>3, <1>6 DEF Tree, TreeTypes
    <3>2. CASE pa[v] = p
      <4>1. \E j \in 1..Len(A) : A[j] = v
        BY <3>1, <3>2, <1>2
      <4> QED
        BY <2>2, <3>1, <3>2, <4>1, <1>1, <1>3
    <3>3. CASE pa[v] # p
      BY <2>2, <3>1, <3>3, <1>1, <1>3
    <3> QED
      BY <3>2, <3>3
  <2> QED
    BY <2>1, <2>2
<1>7. ASSUME NEW v \in Pids, st2[v] = "live"
      PROVE  /\ NoDup(ch2[v])
             /\ \A j \in 1..Len(ch2[v]) :
                  /\ ch2[v][j] # INITPROC /\ st2[ch2[v][j]] \in {"live", "zombie"}
                  /\ pa2[ch2[v][j]] = v
  <2>1. CASE v = n
    <3>1. ch2[v] = <<>> /\ Len(<<>>) = 0
      BY <2>1, <1>1, <1>3
    <3> QED
      BY <3>1 DEF NoDup
  <2>2. CASE v # n
    <3>1. /\ st[v] = "live" /\ NoDup(ch[v])
          /\ \A j \in 1..Len(ch[v]) : /\ ch[v][j] # INITPROC /\ st[ch[v][j]] \in {"live", "zombie"}
                                      /\ pa[ch[v][j]] = v
      BY <2>2, <1>3, <1>7 DEF Tree
    <3>2. CASE v = p
      <4>1. NoDup(A)
        BY <3>1, <3>2, <1>2, <1>4 DEF NoDup
      <4>2. \A j \in 1..Len(A) : A[j] = n \/ \E k \in 1..Len(ch[p]) : A[j] = ch[p][k]
        BY <1>2
      <4> QED
        BY <3>1, <3>2, <4>1, <4>2, <1>1, <1>3, <1>4
    <3>3. CASE v # p
      BY <2>2, <3>1, <3>3, <1>3, <1>4
    <3> QED
      BY <3>2, <3>3
  <2> QED
    BY <2>1, <2>2
<1>8. Tree(n + 1, st2, pa2, ch2)
  BY <1>5, <1>6, <1>7 DEF Tree
<1> QED
  BY <1>8 DEF st2, pa2, ch2, A

-----------------------------------------------------------------------------
(* Every action keeps the invariant *)

\* What the actions of a running task start from.
LEMMA RunningFacts ==
  ASSUME IInv, NEW p \in Pids, Running(p)
  PROVE  /\ TreeTypes(nextPid, state, parent, children)
         /\ Tree(nextPid, state, parent, children)
         /\ state[p] = "live" /\ panicked = "no"
  BY DEF IInv, TypeOK, TreeTypes, Running

\* exit_current_and_run_next: a process becomes a zombie that its parent lists, a thread
\* is gone from its parent's vector, or the kernel panics.
LEMMA ExitKeeps ==
  ASSUME IInv, NEW p \in Pids, Running(p), NEW lost \in Nat, ExitCurrent(p, lost),
         UNCHANGED <<pending, frame, waitFor>>
  PROVE  IInv'
<1> DEFINE n == nextPid
<1>1. /\ TreeTypes(n, state, parent, children) /\ Tree(n, state, parent, children)
      /\ state[p] = "live" /\ panicked = "no"
  BY RunningFacts
<1>2. /\ pid2tcb' \subseteq Pids /\ leaked' \in [Pids -> Nat]
      /\ nextPid' = n /\ tgid' = tgid
  <2>1. /\ pid2tcb' = remove_from_pid2task(p) /\ leaked' = [leaked EXCEPT ![p] = @ + lost]
        /\ nextPid' = n /\ tgid' = tgid
    BY DEF ExitCurrent
  <2>2. pid2tcb \subseteq Pids /\ leaked \in [Pids -> Nat]
    BY DEF IInv, TypeOK
  <2> QED
    BY <2>1, <2>2 DEF remove_from_pid2task
<1>3. SUFFICES /\ TreeTypes(n, state', parent', children') /\ panicked' \in Panics \union {"no"}
               /\ panicked' = "no" => Tree(n, state', parent', children')
  BY <1>2 DEF IInv, TypeOK, TreeTypes
<1>4. INITPROC \in Pids /\ Pids \subseteq Nat
  BY PidsAssumption DEF INITPROC, Pids
<1>5. CASE /\ panicked' \in {"initproc return", "thread with children"}
           /\ state' = [state EXCEPT ![p] = "zombie"] /\ UNCHANGED <<parent, children>>
  BY <1>1, <1>5 DEF TreeTypes, Panics
<1>6. CASE /\ p # INITPROC /\ IsThread(p) /\ children[p] = <<>>
           /\ children' = Detached(Adopted(p), p) /\ UNCHANGED parent
           /\ \/ state' = [state EXCEPT ![p] = "freed"] /\ UNCHANGED panicked
              \/ state' = [state EXCEPT ![p] = "zombie"] /\ panicked' = "thread still referenced"
  <2> DEFINE q == parent[p]
             k == IndexOf(children[q], p)
  <2>1. /\ q \in Pids /\ q < p /\ state[q] = "live" /\ children[q] \in Seq(Pids) /\ NoDup(children[q])
        /\ \E i \in 1..Len(children[q]) : children[q][i] = p
    BY <1>1, <1>6 DEF Tree, TreeTypes
  <2>2. k \in 1..Len(children[q]) /\ children[q][k] = p
    BY <2>1, IndexOfProperties
  <2>3. Adopted(p) = children
    <3>1. children[INITPROC] \o <<>> = children[INITPROC]
      BY <1>1, <1>4, ConcatEmptySeq DEF TreeTypes
    <3> QED
      BY <3>1, <1>1, <1>6 DEF Adopted, TreeTypes
  <2>4. children' = [children EXCEPT ![q] = RemoveAt(children[q], k)]
    BY <2>3, <1>6 DEF Detached
  <2>5. RemoveAt(children[q], k) \in Seq(Pids)
    BY <2>1, <2>2, RemoveAtProperties
  <2>6. TreeTypes(n, state', parent', children') /\ panicked' \in Panics \union {"no"}
    <3> HIDE DEF k
    <3>1. children' \in [Pids -> Seq(Pids)]
      BY <2>1, <2>4, <2>5, <1>1 DEF TreeTypes
    <3>2. state' \in [Pids -> {"none", "live", "zombie", "freed"}]
      BY <1>1, <1>6 DEF TreeTypes
    <3>3. panicked' \in Panics \union {"no"}
      BY <1>1, <1>6 DEF Panics
    <3> QED
      BY <3>1, <3>2, <3>3, <1>1, <1>6 DEF TreeTypes
  <2>7. ASSUME panicked' = "no"
        PROVE  Tree(n, state', parent', children')
    <3>1. state' = [state EXCEPT ![children[q][k]] = "freed"] /\ parent' = parent
      BY <2>2, <2>7, <1>6
    <3>2. /\ children'[q] = RemoveAt(children[q], k)
          /\ \A v \in Pids \ {q, children[q][k]} : children'[v] = children[v]
      BY <2>1, <2>4, <1>1 DEF TreeTypes
    <3>3. \A v \in Pids \ {INITPROC} : state[v] \in {"live", "zombie"} => parent[v] # children[q][k]
      <4>1. children[p] = <<>> /\ Len(<<>>) = 0
        BY <1>6, Zenon
      <4>2. ASSUME NEW v \in Pids \ {INITPROC}, state[v] \in {"live", "zombie"}
            PROVE  parent[v] # p
        <5>1. \E i \in 1..Len(children[parent[v]]) : children[parent[v]][i] = v
          BY <4>2, <1>1 DEF Tree
        <5> QED
          BY <4>1, <5>1
      <4> QED
        BY <4>2, <2>2
    <3> HIDE DEF q, k
    <3>4. TreeTypes(n, state', parent, children')
      BY <2>6, <3>1
    <3>5. Tree(n, state', parent, children')
      BY <2>1, <2>2, <3>1, <3>2, <3>3, <3>4, <1>1, TakeOut
    <3> QED
      BY <3>1, <3>5
  <2> QED
    BY <2>6, <2>7
<1>7. CASE /\ p # INITPROC /\ state' = [state EXCEPT ![p] = "zombie"]
           /\ parent' = Reparented(p) /\ children' = Adopted(p) /\ UNCHANGED panicked
  <2>1. children[INITPROC] \o children[p] \in Seq(Pids)
    BY <1>1, <1>4 DEF TreeTypes
  <2>2. /\ parent' = [c \in Pids |-> IF c \in ToSet(children[p]) THEN INITPROC ELSE parent[c]]
        /\ children' = [children EXCEPT ![INITPROC] = @ \o children[p]]
    BY <1>7 DEF Reparented, Adopted
  <2>3. TreeTypes(n, state', parent', children')
    BY <2>1, <2>2, <1>1, <1>4, <1>7 DEF TreeTypes
  <2>4. Tree(n, state', parent', children')
    BY <2>2, <2>3, <1>1, <1>7, HandOver
  <2> QED
    BY <2>3, <2>4, <1>1, <1>7
<1> QED
  BY <1>5, <1>6, <1>7 DEF ExitCurrent

\* sys_do_fork keeps the invariant.
LEMMA ForkKeeps ==
  ASSUME IInv, NEW p \in Pids, NEW thread \in BOOLEAN, Fork(p, thread)
  PROVE  IInv'
<1> DEFINE n == nextPid
<1>1. Running(p)
  BY DEF Fork, InUser
<1>2. /\ TreeTypes(n, state, parent, children) /\ Tree(n, state, parent, children)
      /\ state[p] = "live"
  BY <1>1, RunningFacts
<1>3. n \in Pids /\ n + 1 \in 0..(MaxPid + 1)
  BY <1>2, PidsAssumption DEF Fork, TreeTypes, Pids
<1>4. /\ nextPid' = n + 1 /\ state' = [state EXCEPT ![n] = "live"]
      /\ parent' = [parent EXCEPT ![n] = p]
      /\ children' = [children EXCEPT ![p] = Append(@, n)]
      /\ pid2tcb' = pid2tcb \union {n} /\ frame' = [frame EXCEPT ![p] = "user"]
      /\ tgid' = [tgid EXCEPT ![n] = IF thread THEN p ELSE n]
      /\ UNCHANGED <<pending, waitFor, leaked, panicked>>
  BY DEF Fork, PidAfterAlloc
<1>5. Tree(nextPid', state', parent', children')
  BY <1>2, <1>3, <1>4, NewChild
<1>6. Append(children[p], n) \in Seq(Pids)
  BY <1>2, <1>3 DEF TreeTypes
<1>7. tgid' \in [Pids -> Pids] /\ pid2tcb' \subseteq Pids
  BY <1>3, <1>4 DEF IInv, TypeOK
<1>8. children' \in [Pids -> Seq(Pids)] /\ parent' \in [Pids -> Pids]
  BY <1>2, <1>3, <1>4, <1>6 DEF TreeTypes
<1>9. TypeOK'
  BY <1>3, <1>4, <1>7, <1>8 DEF IInv, TypeOK
<1> QED
  BY <1>5, <1>9 DEF IInv

\* wait4 that reaps a zombie keeps the invariant, or the kernel panics.
LEMMA ReapKeeps ==
  ASSUME IInv, NEW p \in Pids, Running(p), NEW pid, Reap(p, pid)
  PROVE  IInv'
<1> DEFINE n == nextPid
           i == CHOOSE i \in Zombies(p, pid) : \A j \in Zombies(p, pid) : i <= j
           c == children[p][i]
           ch == [children EXCEPT ![p] = RemoveAt(@, i)]
<1>1. /\ TreeTypes(n, state, parent, children) /\ Tree(n, state, parent, children)
      /\ state[p] = "live" /\ panicked = "no"
  BY RunningFacts
<1>2. children[p] \in Seq(Pids) /\ Len(children[p]) \in Nat
  BY <1>1 DEF TreeTypes
<1>3. i \in Zombies(p, pid)
  <2>1. Zombies(p, pid) \in SUBSET Nat /\ Zombies(p, pid) # {}
    <3>1. Zombies(p, pid) # {}
      BY DEF Reap
    <3>2. Zombies(p, pid) \in SUBSET Nat
      BY <1>2 DEF Zombies
    <3> QED
      BY <3>1, <3>2
  <2> QED
    BY <2>1, FirstZombie
<1>4. /\ \/ /\ state' = [state EXCEPT ![c] = "freed"]
            /\ children' = [ch EXCEPT ![c] = <<>>] /\ UNCHANGED panicked
         \/ children' = ch /\ panicked' = "child still referenced" /\ UNCHANGED state
      /\ frame' = [frame EXCEPT ![p] = "user"]
      /\ waitFor' = [waitFor EXCEPT ![p] = NoWait]
      /\ UNCHANGED <<nextPid, tgid, parent, pid2tcb, pending, leaked>>
  BY DEF Reap
<1> HIDE DEF i
<1>5. i \in 1..Len(children[p]) /\ c \in Pids /\ state[c] = "zombie"
  BY <1>2, <1>3 DEF Zombies
<1>6. RemoveAt(children[p], i) \in Seq(Pids)
  BY <1>2, <1>5, RemoveAtProperties
<1>7. ch \in [Pids -> Seq(Pids)] /\ [ch EXCEPT ![c] = <<>>] \in [Pids -> Seq(Pids)]
  <2> DEFINE fs == <<>>
  <2>1. fs \in Seq(Pids)
    OBVIOUS
  <2> HIDE DEF fs
  <2>2. ch \in [Pids -> Seq(Pids)] /\ [ch EXCEPT ![c] = fs] \in [Pids -> Seq(Pids)]
    BY <2>1, <1>1, <1>6 DEF TreeTypes
  <2> QED
    BY <2>2 DEF fs
<1>8. /\ children' \in [Pids -> Seq(Pids)] /\ panicked' \in Panics \union {"no"}
      /\ state' \in [Pids -> {"none", "live", "zombie", "freed"}]
  BY <1>1, <1>4, <1>5, <1>7 DEF TreeTypes, Panics
<1>9. TypeOK'
  BY <1>4, <1>8 DEF IInv, TypeOK
<1>10. ASSUME panicked' = "no"
       PROVE  Tree(nextPid', state', parent', children')
  <2>1. state' = [state EXCEPT ![children[p][i]] = "freed"] /\ children' = [ch EXCEPT ![c] = <<>>]
    BY <1>4, <1>10
  <2>2. c # p
    BY <1>1, <1>5
  <2>3. /\ children'[p] = RemoveAt(children[p], i)
        /\ \A v \in Pids \ {p, children[p][i]} : children'[v] = children[v]
    BY <2>1, <2>2, <1>1, <1>5 DEF TreeTypes
  <2>4. \A v \in Pids \ {INITPROC} : state[v] \in {"live", "zombie"} => parent[v] # children[p][i]
    BY <1>1, <1>5 DEF Tree
  <2>5. TreeTypes(n, state', parent, children')
    BY <1>1, <1>8 DEF TreeTypes
  <2>6. Tree(n, state', parent, children')
    BY <2>1, <2>3, <2>4, <2>5, <1>1, <1>5, TakeOut
  <2> QED
    BY <2>6, <1>4
<1> QED
  BY <1>9, <1>10 DEF IInv

\* Steps that change neither the tasks nor their links.
LEMMA LinksKept ==
  ASSUME IInv, UNCHANGED <<nextPid, state, tgid, parent, children, pid2tcb, leaked, panicked>>,
         pending' \in [Pids -> SUBSET Signals], frame' \in [Pids -> {"new", "user", "wait"}],
         waitFor' \in [Pids -> Pids \union {AnyChild, NoWait}]
  PROVE  IInv'
  BY DEF IInv, TypeOK

\* wait4 that finds nothing to reap keeps the invariant, if the signal it looks at ends
\* the task, too.
LEMMA SuspendKeeps ==
  ASSUME IInv, NEW p \in Pids, Running(p), NEW pid \in Pids \union {AnyChild, NoWait},
         SuspendInWait(p, pid)
  PROVE  IInv'
<1>1. CASE ExitCurrent(p, 1) /\ UNCHANGED <<pending, frame, waitFor>>
  BY <1>1, ExitKeeps
<1>2. CASE /\ pending' = [pending EXCEPT ![p] = @ \ {"USR"}] /\ frame' = [frame EXCEPT ![p] = "wait"]
           /\ waitFor' = [waitFor EXCEPT ![p] = pid]
           /\ UNCHANGED <<nextPid, state, tgid, parent, children, pid2tcb, leaked, panicked>>
  <2>1. /\ pending' \in [Pids -> SUBSET Signals] /\ frame' \in [Pids -> {"new", "user", "wait"}]
        /\ waitFor' \in [Pids -> Pids \union {AnyChild, NoWait}]
    BY <1>2 DEF IInv, TypeOK
  <2> QED
    BY <1>2, <2>1, LinksKept
<1> QED
  BY <1>1, <1>2 DEF SuspendInWait

\* sys_kill keeps the invariant.
LEMMA KillKeeps ==
  ASSUME IInv, NEW p \in Pids, NEW q \in Pids, NEW sig \in Sigs, Kill(p, q, sig)
  PROVE  IInv'
<1>1. /\ pending' \in [Pids -> SUBSET Signals] /\ frame' \in [Pids -> {"new", "user", "wait"}]
      /\ waitFor' \in [Pids -> Pids \union {AnyChild, NoWait}]
  BY InputsAssumption DEF Kill, IInv, TypeOK
<1> QED
  BY <1>1, LinksKept DEF Kill

\* The delivery of signals keeps the invariant, if it ends the task, too.
LEMMA DeliverKeeps ==
  ASSUME IInv, NEW p \in Pids, Deliver(p)
  PROVE  IInv'
<1>1. CASE ExitCurrent(p, 0) /\ UNCHANGED <<pending, frame, waitFor>>
  <2>1. Running(p)
    BY DEF Deliver
  <2> QED
    BY <1>1, <2>1, ExitKeeps
<1>2. ASSUME NEW sig, NEW f \in {"new", frame[p]},
             pending' = [pending EXCEPT ![p] = @ \ {sig}], frame' = [frame EXCEPT ![p] = f],
             UNCHANGED <<nextPid, state, tgid, parent, children, pid2tcb, leaked, panicked, waitFor>>
      PROVE  IInv'
  <2>1. /\ pending' \in [Pids -> SUBSET Signals] /\ frame' \in [Pids -> {"new", "user", "wait"}]
        /\ waitFor' \in [Pids -> Pids \union {AnyChild, NoWait}]
    BY <1>2 DEF IInv, TypeOK
  <2> QED
    BY <1>2, <2>1, LinksKept
<1> QED
  BY <1>1, <1>2 DEF Deliver

\* wait4 without a child keeps the invariant.
LEMMA WaitNoChildKeeps ==
  ASSUME IInv, NEW p \in Pids, NEW pid \in WaitPids, WaitNoChild(p, pid)
  PROVE  IInv'
<1>1. /\ pending' \in [Pids -> SUBSET Signals] /\ frame' \in [Pids -> {"new", "user", "wait"}]
      /\ waitFor' \in [Pids -> Pids \union {AnyChild, NoWait}]
  BY DEF WaitNoChild, IInv, TypeOK
<1> QED
  BY <1>1, LinksKept DEF WaitNoChild

-----------------------------------------------------------------------------
(* The theorems *)

\* The invariant holds when initproc is the only task.
LEMMA InitIInv == Init => IInv
<1> SUFFICES ASSUME Init
             PROVE  IInv
  OBVIOUS
<1> DEFINE fs == <<>>
<1>1. INITPROC \in Pids /\ Pids \subseteq Nat /\ 1 \in 0..(MaxPid + 1)
  BY PidsAssumption DEF INITPROC, Pids
<1>2. fs \in Seq(Pids) /\ Len(fs) = 0
  OBVIOUS
<1>3. children = [p \in Pids |-> fs]
  BY DEF Init
<1> HIDE DEF fs
<1>4. TypeOK
  <2>1. nextPid \in 0..(MaxPid + 1) /\ pid2tcb \subseteq Pids /\ panicked \in Panics \union {"no"}
    BY <1>1 DEF Init
  <2>2. /\ state \in [Pids -> {"none", "live", "zombie", "freed"}] /\ tgid \in [Pids -> Pids]
        /\ parent \in [Pids -> Pids] /\ children \in [Pids -> Seq(Pids)]
    BY <1>1, <1>2, <1>3 DEF Init
  <2>3. /\ pending \in [Pids -> SUBSET Signals] /\ frame \in [Pids -> {"new", "user", "wait"}]
        /\ waitFor \in [Pids -> Pids \union {AnyChild, NoWait}] /\ leaked \in [Pids -> Nat]
    BY DEF Init
  <2> QED
    BY <2>1, <2>2, <2>3 DEF TypeOK
<1>5. /\ \A p \in Pids : state[p] = IF p = INITPROC THEN "live" ELSE "none"
      /\ \A p \in Pids : children[p] = fs
      /\ nextPid = 1
  BY <1>3 DEF Init
<1>6. NoDup(fs)
  BY <1>2 DEF NoDup
<1>7. \A p \in Pids : p >= 1 => p # INITPROC
  BY DEF INITPROC
<1>8. Tree(nextPid, state, parent, children)
  BY <1>1, <1>2, <1>5, <1>6, <1>7 DEF Tree, fs
<1> QED
  BY <1>4, <1>8 DEF IInv

\* The invariant is inductive.
LEMMA NextIInv == IInv /\ [Next]_vars => IInv'
<1> SUFFICES ASSUME IInv, [Next]_vars
             PROVE  IInv'
  OBVIOUS
<1>1. CASE UNCHANGED vars
  BY <1>1 DEF vars, IInv, TypeOK
<1>2. CASE Panicked
  BY <1>2 DEF Panicked, vars, IInv, TypeOK
<1>3. ASSUME NEW p \in Pids, NEW thread \in {FALSE, Threads}, Fork(p, thread)
      PROVE  IInv'
  BY <1>3, ForkKeeps, InputsAssumption
<1>4. ASSUME NEW p \in Pids, Exit(p)
      PROVE  IInv'
  BY <1>4, ExitKeeps DEF Exit, InUser
<1>5. ASSUME NEW p \in Pids, NEW q \in Pids, NEW sig \in Sigs, Kill(p, q, sig)
      PROVE  IInv'
  BY <1>5, KillKeeps
<1>6. ASSUME NEW p \in Pids, Deliver(p)
      PROVE  IInv'
  BY <1>6, DeliverKeeps
<1>7. ASSUME NEW p \in Pids, NEW pid \in WaitPids, WaitNoChild(p, pid) \/ Wait(p, pid)
      PROVE  IInv'
  <2>1. pid \in Pids \union {AnyChild, NoWait}
    BY InputsAssumption
  <2> QED
    BY <2>1, <1>7, WaitNoChildKeeps, ReapKeeps, SuspendKeeps DEF Wait, InUser
<1>8. ASSUME NEW p \in Pids, WaitAgain(p)
      PROVE  IInv'
  <2>1. waitFor[p] \in Pids \union {AnyChild, NoWait}
    BY DEF IInv, TypeOK
  <2> QED
    BY <2>1, <1>8, ReapKeeps, SuspendKeeps DEF WaitAgain
<1> QED
  BY <1>1, <1>2, <1>3, <1>4, <1>5, <1>6, <1>7, <1>8 DEF Next

\* The invariant holds throughout.
LEMMA Invariant == Spec => []IInv
<1> QED
  BY InitIInv, NextIInv, PTL DEF Spec

\* The state keeps its types: the vectors that exits splice together and that wait4 and
\* threads take entries out of stay sequences of pids, after a panic, too.
THEOREM TypeCorrect == Spec => []TypeOK
<1>1. IInv => TypeOK
  BY DEF IInv
<1> QED
  BY <1>1, Invariant, PTL

\* Every task but initproc has a living parent that lists it exactly once, in whatever
\* order parents and children exit: the unwraps in the exit of a thread succeed.
THEOREM ChildrenAreListed == Spec => []ParentListsChild
<1>1. IInv => ParentListsChild
  <2> SUFFICES ASSUME IInv, panicked = "no", NEW p \in Exists \ {INITPROC}
               PROVE  /\ state[parent[p]] = "live"
                      /\ Cardinality({i \in 1..Len(children[parent[p]]) :
                                        children[parent[p]][i] = p}) = 1
    BY DEF ParentListsChild
  <2> DEFINE q == parent[p]
             s == children[q]
             T == {i \in 1..Len(s) : s[i] = p}
  <2>1. /\ state[q] = "live" /\ NoDup(s)
        /\ \E i \in 1..Len(s) : s[i] = p
    BY DEF IInv, TypeOK, Tree, Exists
  <2>2. PICK i \in 1..Len(s) : s[i] = p
    BY <2>1
  <2>3. T = {i}
    BY <2>1, <2>2 DEF NoDup
  <2>4. Cardinality(T) = 1
    BY <2>3, FS_Singleton
  <2> QED
    BY <2>1, <2>4
<1> QED
  BY <1>1, Invariant, PTL

\* A living task lists only tasks whose parent it is: no two wait for the same child.
THEOREM OwnersAreParents == Spec => []OneLiveOwner
<1>1. IInv => OneLiveOwner
  <2> SUFFICES ASSUME IInv, panicked = "no", NEW p \in Pids, NEW q \in Pids,
                      state[q] = "live", p \in ToSet(children[q])
               PROVE  parent[p] = q
    BY DEF OneLiveOwner
  <2>1. children[q] \in Seq(Pids) /\ Tree(nextPid, state, parent, children)
    BY DEF IInv, TypeOK
  <2>2. PICK i \in 1..Len(children[q]) : p = children[q][i]
    BY <2>1 DEF ToSet
  <2> QED
    BY <2>1, <2>2 DEF Tree
<1> QED
  BY <1>1, Invariant, PTL

=============================================================================
