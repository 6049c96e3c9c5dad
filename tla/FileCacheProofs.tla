-------------------------- MODULE FileCacheProofs --------------------------
(***************************************************************************)
(* Proofs about FileCache, for any names, KFiles, Inodes and sizes.  An    *)
(* operation may drop a path from INODE_CACHE before it opens the next, so *)
(* the invariant is stated for the Inodes in use, as the state is in the   *)
(* middle of an operation, and that state is followed from call to call.   *)
(***************************************************************************)
EXTENDS FileCache, WellFoundedInduction, TLAPS

\* What open, shrink, clear and the like work on.
State == [dirent : [Slots -> Dirent], free : SUBSET Clusters,
          inode : [Fids -> Inode \cup {None}], cache : [Names -> Fids \cup {None}]]

\* The types of the state.
TypeOK ==
  /\ Now \in State
  /\ data \in [Clusters -> [Offsets -> Byte]]
  /\ kfile \in [Descs -> KFile \cup {None}]
  /\ muddled \subseteq Slots /\ muddles \in 0 .. MaxMuddles

\* An Inode that KFiles or the running call hold, or that has a path in the cache.
InUse(st, held, f) == f \in held \/ \E n \in Names : st.cache[n] = f

\* The Inodes in use have entries of their own; one whose entry is live is in the
\* cache under the name of the entry, and the cache has no wrong path for it.
Mid(st, held) ==
  /\ \A f \in Fids : InUse(st, held, f) =>
       /\ st.inode[f] # None
       /\ st.dirent[st.inode[f].slot].state # "empty"
       /\ st.dirent[st.inode[f].slot].state = "live" =>
            \A n \in Names : st.cache[n] = f <=> n = st.dirent[st.inode[f].slot].name
  /\ \A f, g \in Fids :
       InUse(st, held, f) /\ InUse(st, held, g) /\ st.inode[f].slot = st.inode[g].slot => f = g
  /\ \A s \in Slots : st.dirent[s].state = "live" => st.dirent[s].name \in Names

\* The inductive invariant.  Between operations every Inode is in use.
IInv ==
  /\ TypeOK
  /\ Mid(Now, Held(kfile, {}))
  /\ \A f \in Fids : inode[f] # None => InUse(Now, Held(kfile, {}), f)
-----------------------------------------------------------------------------
(* Lemmas about the operators of the model *)

\* The first free entry or identifier is one of those that are free.
LEMMA LeastIn ==
  ASSUME NEW S \in SUBSET Nat, S # {}
  PROVE  Least(S) \in S
<1> DEFINE R == {ss \in Nat \X Nat : ss[1] < ss[2]}
<1>1. IsWellFoundedOn(R, Nat)
  BY NatLessThanWellFounded DEF OpToRel
<1>2. PICK x \in S : \A y \in S : ~ (<<y, x>> \in R)
  <2> HIDE DEF R
  <2> QED
    BY <1>1, WFMin
<1>3. ASSUME NEW y \in S
      PROVE  x <= y
  <2>1. <<y, x>> \in Nat \X Nat /\ <<y, x>>[1] = y /\ <<y, x>>[2] = x
    OBVIOUS
  <2>2. ~ (y < x)
    BY <1>2, <2>1
  <2> QED
    BY <2>2
<1> QED
  BY <1>3 DEF Least

\* The fields of a state.
LEMMA StateFields ==
  ASSUME NEW st \in State
  PROVE  /\ st.dirent \in [Slots -> Dirent] /\ st.free \in SUBSET Clusters
         /\ st.inode \in [Fids -> Inode \cup {None}] /\ st.cache \in [Names -> Fids \cup {None}]
  BY DEF State

\* When an operation ends, the Inodes go that nobody has any more.
LEMMA LivingKeeps ==
  ASSUME NEW st \in State, NEW more \in SUBSET Fids, NEW held \in SUBSET more, Mid(st, more)
  PROVE  LET r == Living(st, held) IN
         /\ r \in State /\ Mid(r, held)
         /\ \A f \in Fids : r.inode[f] # None => InUse(r, held, f)
<1> DEFINE r == Living(st, held)
           in == [f \in Fids |-> IF f \in held \/ \E n \in Names : st.cache[n] = f
                                 THEN st.inode[f] ELSE None]
<1>1. r = [st EXCEPT !.inode = in]
  BY DEF Living
<1>2. in \in [Fids -> Inode \cup {None}]
  BY StateFields
<1>3. \A f \in Fids : in[f] = IF InUse(st, held, f) THEN st.inode[f] ELSE None
  BY DEF InUse
<1> HIDE DEF in
<1>4. r \in State /\ r.inode = in /\ r.cache = st.cache /\ r.dirent = st.dirent
  BY <1>1, <1>2 DEF State
<1> HIDE DEF r
<1>5. \A f \in Fids : InUse(r, held, f) <=> InUse(st, held, f)
  BY <1>4 DEF InUse
<1>6. \A f \in Fids : InUse(st, held, f) => InUse(st, more, f)
  BY DEF InUse
<1>7. Mid(r, held)
  BY <1>3, <1>4, <1>5, <1>6 DEF Mid
<1> QED
  BY <1>3, <1>4, <1>5, <1>7 DEF r

\* InodeCache::shrink drops no path of an Inode that is held.
LEMMA ShrinkKeeps ==
  ASSUME NEW st \in State, NEW held \in SUBSET Fids, Mid(st, held)
  PROVE  LET r == shrink(st, held) IN
         /\ r \in State /\ Mid(r, held) /\ r.inode = st.inode /\ r.dirent = st.dirent
         /\ \A n \in Names : r.cache[n] = IF st.cache[n] \in held THEN st.cache[n] ELSE None
<1> DEFINE r == shrink(st, held)
           ca == [n \in Names |-> IF st.cache[n] \in held THEN st.cache[n] ELSE None]
<1>1. r = [st EXCEPT !.cache = ca]
  BY DEF shrink
<1>2. ca \in [Names -> Fids \cup {None}]
  OBVIOUS
<1>3. \A n \in Names : ca[n] = IF st.cache[n] \in held THEN st.cache[n] ELSE None
  OBVIOUS
<1> HIDE DEF ca
<1>4. r \in State /\ r.inode = st.inode /\ r.cache = ca /\ r.dirent = st.dirent
  BY <1>1, <1>2 DEF State
<1> HIDE DEF r
<1>5. None \notin held /\ None \notin Fids
  BY FileCacheAssumption
<1>6. \A f \in Fids : InUse(r, held, f) => f \in held /\ InUse(st, held, f)
  BY <1>3, <1>4, <1>5 DEF InUse
<1>7. \A f \in held, n \in Names : r.cache[n] = f <=> st.cache[n] = f
  BY <1>3, <1>4, <1>5
<1>8. Mid(r, held)
  BY <1>4, <1>6, <1>7 DEF Mid
<1> QED
  BY <1>3, <1>4, <1>8 DEF r

\* InodeCache::insert of an Inode that is held: its path is in the cache afterwards.
LEMMA InsertKeeps ==
  ASSUME NEW st \in State, NEW held \in SUBSET Fids, NEW n \in Names, NEW f \in held,
         Mid([st EXCEPT !.cache[n] = f], held)
  PROVE  LET r == insert(st, n, f, held) IN
         r \in State /\ Mid(r, held) /\ r.inode = st.inode /\ r.cache[n] = f
<1> DEFINE in == [st EXCEPT !.cache[n] = f]
<1>1. in = [st EXCEPT !.cache = [st.cache EXCEPT ![n] = f]]
  OBVIOUS
<1>2. [st.cache EXCEPT ![n] = f] \in [Names -> Fids \cup {None}]
  BY StateFields
<1>3. in \in State /\ in.inode = st.inode /\ in.cache[n] = f
  BY <1>1, <1>2, StateFields DEF State
<1>4. insert(st, n, f, held) \in {in, shrink(in, held)}
  BY DEF insert
<1> HIDE DEF in
<1>5. LET r == shrink(in, held) IN
      r \in State /\ Mid(r, held) /\ r.inode = st.inode /\ r.cache[n] = f
  <2>1. Mid(in, held)
    BY DEF in
  <2> QED
    BY <2>1, <1>3, ShrinkKeeps
<1>6. Mid(in, held)
  BY DEF in
<1> QED
  BY <1>3, <1>4, <1>5, <1>6

\* A new Inode for an entry that no Inode in use has, under a path that is not cached.
LEMMA NewInodeKeeps ==
  ASSUME NEW st \in State, NEW held \in SUBSET Fids, Mid(st, held), NEW n \in Names,
         NEW s \in Slots, NEW f \in Fids, ~ InUse(st, held, f), st.cache[n] = None,
         st.dirent[s].state # "empty", st.dirent[s].state = "live" => st.dirent[s].name = n,
         \A g \in Fids : InUse(st, held, g) => st.inode[g].slot # s
  PROVE  LET r == NewInode(st, n, s, f, held) IN
         r \in State /\ Mid(r, held \cup {f}) /\ r.inode[f] \in Inode /\ r.cache[n] = f
<1> DEFINE i == [slot |-> s, vec |-> st.dirent[s].first, file_size |-> st.dirent[s].size,
                 loaded |-> {}, page |-> Zeros]
           a == [st EXCEPT !.inode[f] = i]
           b == [a EXCEPT !.cache[n] = f]
           more == held \cup {f}
<1>1. /\ st.dirent \in [Slots -> Dirent] /\ st.inode \in [Fids -> Inode \cup {None}]
      /\ st.cache \in [Names -> Fids \cup {None}]
  BY StateFields
<1>2. Zeros \in [Offsets -> Byte]
  BY FileCacheAssumption DEF Zeros
<1>3. i \in Inode /\ i.slot = s
  BY <1>1, <1>2 DEF Inode, Dirent
<1>4. i # None /\ None \notin Fids
  BY <1>3, FileCacheAssumption
<1>5. NewInode(st, n, s, f, held) = insert(a, n, f, more)
  BY DEF NewInode
<1> HIDE DEF i
<1>6. a \in State /\ a.inode = [st.inode EXCEPT ![f] = i] /\ a.cache = st.cache /\ a.dirent = st.dirent
  BY <1>1, <1>3 DEF State
<1> HIDE DEF a
<1>7. b.inode = a.inode /\ b.cache = [st.cache EXCEPT ![n] = f] /\ b.dirent = st.dirent
  BY <1>1, <1>6 DEF State
<1> HIDE DEF b
<1>8. \A g \in Fids : /\ b.inode[g] = IF g = f THEN i ELSE st.inode[g]
                      /\ InUse(b, more, g) <=> (g = f \/ InUse(st, held, g))
  <2>1. ASSUME NEW g \in Fids
        PROVE  InUse(b, more, g) <=> (g = f \/ InUse(st, held, g))
    BY <1>1, <1>4, <1>7 DEF InUse
  <2> QED
    BY <2>1, <1>1, <1>6, <1>7
<1>9. \A m \in Names : b.cache[m] = IF m = n THEN f ELSE st.cache[m]
  BY <1>1, <1>7
<1>10. Mid(b, more)
  <2>1. ASSUME NEW g \in Fids, InUse(b, more, g)
        PROVE  /\ b.inode[g] # None
               /\ b.dirent[b.inode[g].slot].state # "empty"
               /\ b.dirent[b.inode[g].slot].state = "live" =>
                    \A m \in Names : b.cache[m] = g <=> m = b.dirent[b.inode[g].slot].name
    <3>1. CASE g = f
      <4>1. \A m \in Names : st.cache[m] # f
        BY DEF InUse
      <4> QED
        BY <3>1, <4>1, <1>3, <1>4, <1>7, <1>8, <1>9
    <3>2. CASE g # f
      <4>1. InUse(st, held, g) /\ b.inode[g] = st.inode[g]
        BY <2>1, <3>2, <1>8
      <4>2. /\ st.inode[g] # None
            /\ st.dirent[st.inode[g].slot].state # "empty"
            /\ st.dirent[st.inode[g].slot].state = "live" =>
                 \A m \in Names : st.cache[m] = g <=> m = st.dirent[st.inode[g].slot].name
        BY <4>1 DEF Mid
      <4>3. g # None
        BY <1>4
      <4> QED
        BY <3>2, <4>1, <4>2, <4>3, <1>7, <1>9
    <3> QED
      BY <3>1, <3>2
  <2>2. ASSUME NEW g \in Fids, NEW h \in Fids, InUse(b, more, g), InUse(b, more, h),
               b.inode[g].slot = b.inode[h].slot
        PROVE  g = h
    <3>1. CASE g # f /\ h # f
      <4>1. InUse(st, held, g) /\ InUse(st, held, h) /\ st.inode[g].slot = st.inode[h].slot
        BY <2>2, <3>1, <1>8
      <4> QED
        BY <4>1 DEF Mid
    <3>2. CASE g = f /\ h # f
      <4>1. InUse(st, held, h) /\ st.inode[h].slot = s
        BY <2>2, <3>2, <1>3, <1>8
      <4> QED
        BY <4>1
    <3>3. CASE g # f /\ h = f
      <4>1. InUse(st, held, g) /\ st.inode[g].slot = s
        BY <2>2, <3>3, <1>3, <1>8
      <4> QED
        BY <4>1
    <3> QED
      BY <3>1, <3>2, <3>3
  <2> QED
    BY <2>1, <2>2, <1>7 DEF Mid
<1>11. LET r == insert(a, n, f, more) IN
       r \in State /\ Mid(r, more) /\ r.inode = a.inode /\ r.cache[n] = f
  <2>1. more \in SUBSET Fids /\ f \in more
    OBVIOUS
  <2> HIDE DEF more
  <2> QED
    BY <2>1, <1>6, <1>10, InsertKeeps DEF b
<1> QED
  BY <1>1, <1>3, <1>5, <1>6, <1>11

\* Sizes, contents and clusters may change, and entries may go: the Inodes that are
\* left are still found by their names.
LEMMA EntriesKeep ==
  ASSUME NEW st \in State, NEW r \in State, NEW held \in SUBSET Fids, Mid(st, held),
         r.cache = st.cache,
         \A f \in Fids : InUse(st, held, f) =>
           r.inode[f] # None /\ r.inode[f].slot = st.inode[f].slot,
         \A s \in Slots : \/ r.dirent[s].state = "deleted"
                          \/ /\ r.dirent[s].state = st.dirent[s].state
                             /\ r.dirent[s].name = st.dirent[s].name
  PROVE  Mid(r, held)
<1>1. \A f \in Fids : InUse(r, held, f) <=> InUse(st, held, f)
  BY DEF InUse
<1>2. \A f \in Fids : InUse(st, held, f) => st.inode[f].slot \in Slots
  BY StateFields DEF Mid, Inode
<1>3. ASSUME NEW f \in Fids, InUse(r, held, f)
      PROVE  /\ r.inode[f] # None
             /\ r.dirent[r.inode[f].slot].state # "empty"
             /\ r.dirent[r.inode[f].slot].state = "live" =>
                  \A n \in Names : r.cache[n] = f <=> n = r.dirent[r.inode[f].slot].name
  BY <1>1, <1>2, <1>3 DEF Mid
<1>4. ASSUME NEW f \in Fids, NEW g \in Fids, InUse(r, held, f), InUse(r, held, g),
             r.inode[f].slot = r.inode[g].slot
      PROVE  f = g
  BY <1>1, <1>4 DEF Mid
<1>5. \A s \in Slots : r.dirent[s].state = "live" => r.dirent[s].name \in Names
  BY DEF Mid
<1> QED
  BY <1>3, <1>4, <1>5 DEF Mid

\* VirtFile::clear: an Inode whose entry goes is no longer found by a name.
LEMMA ClearKeeps ==
  ASSUME NEW st \in State, NEW s \in Slots, NEW vec \in {0} \cup Clusters
  PROVE  LET r == clear(st, s, vec) IN
         /\ r \in State /\ r.inode = st.inode /\ r.cache = st.cache
         /\ \A t \in Slots : r.dirent[t] = IF t = s THEN Deleted ELSE st.dirent[t]
         /\ Deleted.state = "deleted"
         /\ \A held \in SUBSET Fids : Mid(st, held) => Mid(r, held)
<1> DEFINE r == clear(st, s, vec)
           di == [st.dirent EXCEPT ![s] = Deleted]
           fr == IF st.dirent[s].first # 0 THEN st.free \cup ({vec} \ {0}) ELSE st.free
<1>1. Deleted \in Dirent /\ Deleted.state = "deleted"
  BY FileCacheAssumption DEF Deleted, Dirent
<1>2. r = [st EXCEPT !.dirent = di, !.free = fr]
  BY DEF clear
<1>3. /\ di \in [Slots -> Dirent] /\ fr \in SUBSET Clusters
      /\ \A t \in Slots : di[t] = IF t = s THEN Deleted ELSE st.dirent[t]
  BY <1>1, StateFields
<1> HIDE DEF di, fr
<1>4. r \in State /\ r.inode = st.inode /\ r.cache = st.cache /\ r.dirent = di
  BY <1>2, <1>3 DEF State
<1> HIDE DEF r
<1>5. ASSUME NEW held \in SUBSET Fids, Mid(st, held)
      PROVE  Mid(r, held)
  <2>1. \A f \in Fids : InUse(st, held, f) => r.inode[f] # None /\ r.inode[f].slot = st.inode[f].slot
    BY <1>4, <1>5 DEF Mid
  <2> QED
    BY <2>1, <1>1, <1>3, <1>4, <1>5, EntriesKeep
<1> QED
  BY <1>1, <1>3, <1>4, <1>5 DEF r

\* open: the Inode it gives is in use, and in the cache under the path.
LEMMA OpenKeeps ==
  ASSUME NEW st \in State, NEW held \in SUBSET Fids, Mid(st, held), NEW n \in Names,
         NEW creat \in BOOLEAN, NEW trunc \in BOOLEAN, CanOpen(st, n, creat)
  PROVE  LET r == open(st, n, creat, trunc, held)
             f == Opened(st, n) IN
         /\ f \in Fids /\ r \in State /\ Mid(r, held \cup {f}) /\ r.cache[n] = f
         /\ r.inode[f] \in Inode
<1> DEFINE none == {g \in Fids : st.inode[g] = None}
           f == Least(none)
           s == Least(Found(st, n))
           unused == {u \in Slots : st.dirent[u].state = "empty"}
           t == Least(unused)
           cleared == IF trunc /\ ~ creat THEN clear(st, s, st.dirent[s].first) ELSE st
           created == [st EXCEPT !.dirent[t] = Entry(n)]
<1>1. /\ st.dirent \in [Slots -> Dirent] /\ st.inode \in [Fids -> Inode \cup {None}]
      /\ st.cache \in [Names -> Fids \cup {None}]
  BY StateFields
<1>2. None \notin Fids /\ Fids \subseteq Nat /\ Slots \subseteq Nat
  BY FileCacheAssumption DEF Slots
<1>3. /\ Opened(st, n) = IF st.cache[n] # None THEN st.cache[n] ELSE f
      /\ open(st, n, creat, trunc, held) =
           IF st.cache[n] # None THEN st
           ELSE IF Found(st, n) # {} THEN NewInode(cleared, n, s, f, held)
           ELSE NewInode(created, n, t, f, held)
  BY DEF Opened, open
<1>4. CASE st.cache[n] # None
  <2> DEFINE g == st.cache[n]
  <2>1. g \in Fids
    BY <1>1, <1>4
  <2>2. \A h \in Fids : InUse(st, held \cup {g}, h) <=> InUse(st, held, h)
    BY <2>1 DEF InUse
  <2>3. InUse(st, held, g)
    BY <2>1 DEF InUse
  <2>4. st.inode[g] \in Inode
    BY <2>1, <2>3, <1>1 DEF Mid
  <2> HIDE DEF g
  <2>5. Mid(st, held \cup {g})
    BY <2>2 DEF Mid
  <2> QED
    BY <1>3, <1>4, <2>1, <2>4, <2>5 DEF g
<1>5. ASSUME st.cache[n] = None
      PROVE  /\ f \in Fids /\ ~ InUse(st, held, f)
             /\ Found(st, n) # {} \/ unused # {}
  <2>1. none # {} /\ (Found(st, n) # {} \/ unused # {})
    BY <1>5 DEF CanOpen
  <2>2. f \in none
    BY <2>1, <1>2, LeastIn
  <2> QED
    BY <2>1, <2>2 DEF Mid
<1> HIDE DEF f
<1>6. CASE st.cache[n] = None /\ Found(st, n) # {}
  <2>1. s \in Found(st, n)
    <3>1. Found(st, n) \in SUBSET Nat
      BY <1>2 DEF Found
    <3> QED
      BY <3>1, <1>6, LeastIn
  <2>2. s \in Slots /\ st.dirent[s].state = "live" /\ st.dirent[s].name = n
    BY <2>1 DEF Found
  <2> HIDE DEF s
  <2>3. \A g \in Fids : InUse(st, held, g) => st.inode[g].slot # s
    BY <2>2, <1>2, <1>6 DEF Mid
  <2>4. st.dirent[s].first \in {0} \cup Clusters
    BY <2>2, <1>1 DEF Dirent
  <2>5. /\ cleared \in State /\ Mid(cleared, held) /\ cleared.inode = st.inode
        /\ cleared.cache = st.cache /\ cleared.dirent[s].state # "empty"
        /\ cleared.dirent[s].state = "live" => cleared.dirent[s].name = n
    <3>1. CASE trunc /\ ~ creat
      <4> DEFINE c == clear(st, s, st.dirent[s].first)
      <4>1. /\ c \in State /\ c.inode = st.inode /\ c.cache = st.cache /\ Mid(c, held)
            /\ c.dirent[s].state = "deleted"
        BY <2>2, <2>4, ClearKeeps
      <4>2. cleared = c
        BY <3>1
      <4> HIDE DEF c, cleared
      <4> QED
        BY <4>1, <4>2
    <3>2. CASE ~ (trunc /\ ~ creat)
      BY <3>2, <2>2
    <3> QED
      BY <3>1, <3>2
  <2> HIDE DEF cleared
  <2>6. ~ InUse(cleared, held, f) /\ \A g \in Fids : InUse(cleared, held, g) => cleared.inode[g].slot # s
    BY <2>3, <2>5, <1>5, <1>6 DEF InUse
  <2>7. LET r == NewInode(cleared, n, s, f, held) IN
        r \in State /\ Mid(r, held \cup {f}) /\ r.inode[f] \in Inode /\ r.cache[n] = f
    <3>1. f \in Fids /\ cleared.cache[n] = None
      BY <2>5, <1>5, <1>6
    <3> QED
      BY <3>1, <2>2, <2>5, <2>6, NewInodeKeeps
  <2> QED
    BY <2>7, <1>3, <1>5, <1>6
<1>7. CASE st.cache[n] = None /\ Found(st, n) = {}
  <2>1. t \in Slots /\ st.dirent[t].state = "empty"
    <3>1. unused \in SUBSET Nat /\ unused # {}
      BY <1>2, <1>5, <1>7
    <3>2. t \in unused
      BY <3>1, LeastIn
    <3> QED
      BY <3>2
  <2> HIDE DEF t
  <2>2. \A g \in Fids : InUse(st, held, g) => st.inode[g].slot # t /\ st.inode[g].slot \in Slots
    BY <2>1, <1>1 DEF Mid, Inode
  <2>3. Entry(n) \in Dirent /\ Entry(n).state = "live" /\ Entry(n).name = n
    BY FileCacheAssumption DEF Entry, Dirent
  <2> DEFINE di == [st.dirent EXCEPT ![t] = Entry(n)]
  <2>4. di \in [Slots -> Dirent] /\ \A u \in Slots : di[u] = IF u = t THEN Entry(n) ELSE st.dirent[u]
    BY <2>1, <2>3, <1>1
  <2>5. created = [st EXCEPT !.dirent = di]
    OBVIOUS
  <2> HIDE DEF di, created
  <2>6. created \in State /\ created.dirent = di /\ created.inode = st.inode /\ created.cache = st.cache
    BY <2>4, <2>5 DEF State
  <2>7. \A g \in Fids : InUse(created, held, g) <=> InUse(st, held, g)
    BY <2>6 DEF InUse
  <2>8. Mid(created, held)
    BY <2>1, <2>2, <2>3, <2>4, <2>6, <2>7 DEF Mid
  <2>9. created.dirent[t].state = "live" /\ created.dirent[t].name = n
    BY <2>1, <2>3, <2>4, <2>6
  <2>10. LET r == NewInode(created, n, t, f, held) IN
         r \in State /\ Mid(r, held \cup {f}) /\ r.inode[f] \in Inode /\ r.cache[n] = f
    <3>1. \A g \in Fids : InUse(created, held, g) => created.inode[g].slot # t
      BY <2>2, <2>6, <2>7
    <3>2. f \in Fids /\ ~ InUse(created, held, f) /\ created.cache[n] = None
      BY <2>6, <2>7, <1>5, <1>7
    <3> QED
      BY <3>1, <3>2, <2>1, <2>6, <2>8, <2>9, NewInodeKeeps
  <2> QED
    BY <2>10, <1>3, <1>5, <1>7
<1> QED
  BY <1>4, <1>6, <1>7

\* The Inodes that KFiles hold.
LEMMA HeldTypes ==
  ASSUME NEW kf \in [Descs -> KFile \cup {None}]
  PROVE  /\ Held(kf, {}) \in SUBSET Fids
         /\ \A f : Held(kf, {f}) = Held(kf, {}) \cup {f}
         /\ \A d \in Descs : kf[d] # None => kf[d] \in KFile /\ kf[d].fid \in Held(kf, {})
  BY DEF Held, KFile

\* An operation that ends in state st, where the Inodes in more are in use.
LEMMA Settle ==
  ASSUME NEW st \in State, NEW more \in SUBSET Fids, Mid(st, more),
         Held(kfile', {}) \subseteq more, Become(Living(st, Held(kfile', {}))),
         data' \in [Clusters -> [Offsets -> Byte]], kfile' \in [Descs -> KFile \cup {None}],
         muddled' \subseteq Slots, muddles' \in 0 .. MaxMuddles
  PROVE  IInv'
<1> DEFINE held == Held(kfile', {})
           r == Living(st, held)
<1>1. /\ r \in State /\ Mid(r, held)
      /\ \A f \in Fids : r.inode[f] # None => InUse(r, held, f)
  BY LivingKeeps
<1>2. Become(r)
  OBVIOUS
<1> HIDE DEF r
<1>3. r = [dirent |-> r.dirent, free |-> r.free, inode |-> r.inode, cache |-> r.cache]
  BY <1>1 DEF State
<1>4. Now' = r /\ inode' = r.inode
  BY <1>2, <1>3 DEF Become, Now
<1>5. TypeOK'
  BY <1>1, <1>4 DEF TypeOK
<1> QED
  BY <1>1, <1>4, <1>5 DEF IInv

\* An operation that changes neither the cache nor which Inode has which entry.
LEMMA Steady ==
  ASSUME IInv, Now' \in State, cache' = cache, Held(kfile', {}) = Held(kfile, {}),
         \A f \in Fids : /\ inode'[f] # None <=> inode[f] # None
                         /\ inode[f] # None => inode'[f].slot = inode[f].slot,
         \A s \in Slots : dirent'[s].state = dirent[s].state /\ dirent'[s].name = dirent[s].name,
         data' \in [Clusters -> [Offsets -> Byte]], kfile' \in [Descs -> KFile \cup {None}],
         muddled' \subseteq Slots, muddles' \in 0 .. MaxMuddles
  PROVE  IInv'
<1> DEFINE held == Held(kfile, {})
           st == Now
           r == Now'
<1>1. held \in SUBSET Fids /\ st \in State /\ Mid(st, held)
  BY HeldTypes DEF IInv, TypeOK
<1>2. /\ st.cache = cache /\ st.inode = inode /\ st.dirent = dirent
      /\ r.cache = cache' /\ r.inode = inode' /\ r.dirent = dirent' /\ r \in State
  BY DEF Now
<1>3. \A f \in Fids : inode[f] # None => InUse(st, held, f)
  BY DEF IInv
<1> HIDE DEF held, st, r
<1>4. \A f \in Fids : InUse(st, held, f) => r.inode[f] # None /\ r.inode[f].slot = st.inode[f].slot
  BY <1>1, <1>2 DEF Mid
<1>5. Mid(r, held)
  BY <1>1, <1>2, <1>4, EntriesKeep
<1>6. \A f \in Fids : inode'[f] # None => InUse(r, held, f)
  BY <1>2, <1>3 DEF InUse
<1> QED
  BY <1>5, <1>6 DEF IInv, TypeOK, held, r
-----------------------------------------------------------------------------
(* Opening, closing and removing *)

LEMMA NowIn ==
  ASSUME IInv
  PROVE  /\ Now \in State /\ Mid(Now, Held(kfile, {})) /\ Held(kfile, {}) \in SUBSET Fids
         /\ Now.dirent = dirent /\ Now.inode = inode /\ Now.cache = cache /\ Now.free = free
         /\ dirent \in [Slots -> Dirent] /\ free \in SUBSET Clusters
         /\ inode \in [Fids -> Inode \cup {None}] /\ cache \in [Names -> Fids \cup {None}]
         /\ data \in [Clusters -> [Offsets -> Byte]] /\ kfile \in [Descs -> KFile \cup {None}]
         /\ muddled \subseteq Slots /\ muddles \in 0 .. MaxMuddles
<1>1. /\ Now \in State /\ Mid(Now, Held(kfile, {})) /\ kfile \in [Descs -> KFile \cup {None}]
      /\ data \in [Clusters -> [Offsets -> Byte]] /\ muddled \subseteq Slots /\ muddles \in 0 .. MaxMuddles
  BY DEF IInv, TypeOK
<1>2. Now.dirent = dirent /\ Now.inode = inode /\ Now.cache = cache /\ Now.free = free
  BY DEF Now
<1> QED
  BY <1>1, <1>2, HeldTypes, StateFields

LEMMA OpenStep ==
  ASSUME IInv, NEW d \in Descs, NEW n \in Names, NEW creat \in BOOLEAN, NEW trunc \in BOOLEAN,
         NEW append \in BOOLEAN, Open(d, n, creat, trunc, append)
  PROVE  IInv'
<1> DEFINE held == Held(kfile, {})
           st == open(Now, n, creat, trunc, held)
           f == Opened(Now, n)
           k == [fid |-> f, offset |-> 0, append |-> append /\ (cache[n] # None \/ ~ creat)]
<1>1. f \in Fids /\ st \in State /\ Mid(st, held \cup {f}) /\ held \in SUBSET Fids
  BY NowIn, OpenKeeps DEF Open
<1>2. /\ kfile' = [kfile EXCEPT ![d] = k] /\ Become(Living(st, Held(kfile', {})))
      /\ data' = data /\ muddled' = muddled /\ muddles' = muddles
  BY DEF Open, history
<1> HIDE DEF f, st
<1>3. k \in KFile /\ k.fid = f
  <2>1. 0 \in 0 .. MaxSize
    BY FileCacheAssumption
  <2> QED
    BY <2>1, <1>1 DEF KFile
<1> HIDE DEF k
<1>4. kfile' \in [Descs -> KFile \cup {None}] /\ kfile \in [Descs -> KFile \cup {None}]
  BY <1>2, <1>3, NowIn
<1>5. Held(kfile', {}) \subseteq held \cup {f}
  BY <1>2, <1>3, <1>4 DEF Held
<1> HIDE DEF held
<1> QED
  BY <1>1, <1>2, <1>4, <1>5, NowIn, Settle

LEMMA OpenNoFdStep ==
  ASSUME IInv, NEW n \in Names, NEW creat \in BOOLEAN, NEW trunc \in BOOLEAN,
         OpenNoFd(n, creat, trunc)
  PROVE  IInv'
<1> DEFINE held == Held(kfile, {})
           st == open(Now, n, creat, trunc, held)
           f == Opened(Now, n)
<1>1. f \in Fids /\ st \in State /\ Mid(st, held \cup {f}) /\ held \in SUBSET Fids
  BY NowIn, OpenKeeps DEF OpenNoFd
<1>2. /\ kfile' = kfile /\ Become(Living(st, held))
      /\ data' = data /\ muddled' = muddled /\ muddles' = muddles
  BY DEF OpenNoFd, history
<1> HIDE DEF f, st
<1>3. Held(kfile', {}) = held
  BY <1>2
<1>4. Held(kfile', {}) \subseteq held \cup {f} /\ Become(Living(st, Held(kfile', {})))
  BY <1>2, <1>3
<1> HIDE DEF held
<1> QED
  BY <1>1, <1>2, <1>4, NowIn, Settle

LEMMA CloseStep ==
  ASSUME IInv, NEW d \in Descs, Close(d)
  PROVE  IInv'
<1>1. /\ kfile' = [kfile EXCEPT ![d] = None] /\ Become(Living(Now, Held(kfile', {})))
      /\ data' = data /\ muddled' = muddled /\ muddles' = muddles
  BY DEF Close, history
<1>2. kfile' \in [Descs -> KFile \cup {None}] /\ kfile \in [Descs -> KFile \cup {None}]
  BY <1>1, NowIn
<1>3. Held(kfile', {}) \subseteq Held(kfile, {})
  BY <1>1, <1>2 DEF Held
<1> QED
  BY <1>1, <1>2, <1>3, NowIn, Settle

\* The path leaves the cache together with the entry, so the file that is gone is
\* found by no name, and the others still are.
LEMMA UnlinkStep ==
  ASSUME IInv, NEW n \in Names, Unlink(n)
  PROVE  IInv'
<1> DEFINE held == Held(kfile, {})
           st == open(Now, n, FALSE, FALSE, held)
           f == Opened(Now, n)
           more == held \cup {f}
           i == st.inode[f]
           vec == IF st.dirent[i.slot].first # 0 THEN 0 ELSE i.vec
           gone == [st EXCEPT !.cache[n] = None, !.inode[f].vec = vec]
           slot == i.slot
           was == i.vec
           r == clear(gone, slot, was)
<1>1. /\ f \in Fids /\ st \in State /\ Mid(st, more) /\ held \in SUBSET Fids
      /\ st.cache[n] = f /\ i \in Inode
  BY NowIn, OpenKeeps DEF Unlink
<1>2. Become(Living(r, held)) /\ data' = data /\ kfile' = kfile /\ muddled' = muddled /\ muddles' = muddles
  BY DEF Unlink, history
<1> HIDE DEF st, f
<1>3. i.slot \in Slots /\ vec \in {0} \cup Clusters /\ i.vec \in {0} \cup Clusters
  BY <1>1 DEF Inode
<1> DEFINE j == [i EXCEPT !.vec = vec]
<1>4. j \in Inode /\ j.slot = i.slot
  BY <1>1, <1>3 DEF Inode
<1> DEFINE ca == [st.cache EXCEPT ![n] = None]
           in == [st.inode EXCEPT ![f] = j]
<1>5. gone = [st EXCEPT !.cache = ca, !.inode = in]
  OBVIOUS
<1> HIDE DEF vec, j
<1>6. /\ ca \in [Names -> Fids \cup {None}] /\ in \in [Fids -> Inode \cup {None}]
      /\ \A m \in Names : ca[m] = IF m = n THEN None ELSE st.cache[m]
      /\ \A g \in Fids : in[g] = IF g = f THEN j ELSE st.inode[g]
  BY <1>1, <1>4, StateFields
<1> HIDE DEF ca, in
<1>7. gone \in State /\ gone.cache = ca /\ gone.inode = in /\ gone.dirent = st.dirent
  BY <1>1, <1>5, <1>6 DEF State
<1> HIDE DEF gone
<1>8. slot \in Slots /\ was \in {0} \cup Clusters /\ st.inode[f].slot = slot /\ j.slot = slot
  BY <1>3, <1>4
<1> HIDE DEF slot, was
<1>9. /\ r \in State /\ r.inode = gone.inode /\ r.cache = gone.cache
      /\ \A t \in Slots : r.dirent[t] = IF t = slot THEN Deleted ELSE gone.dirent[t]
      /\ Deleted.state = "deleted"
  BY <1>8, <1>7, ClearKeeps
<1>10. /\ r \in State /\ r.inode = in /\ r.cache = ca
       /\ \A t \in Slots : r.dirent[t] = IF t = slot THEN Deleted ELSE st.dirent[t]
       /\ Deleted.state = "deleted"
  BY <1>7, <1>9
<1> HIDE DEF r, i, more
<1>11. None \notin Fids /\ None \notin Inode
  BY FileCacheAssumption
<1>12. f \in more /\ more \in SUBSET Fids /\ held \subseteq more
  BY <1>1 DEF more
<1>13. \A g \in Fids : InUse(r, more, g) => InUse(st, more, g)
  BY <1>6, <1>10, <1>11 DEF InUse
<1>14. \A g \in Fids : InUse(st, more, g) =>
         r.inode[g] # None /\ r.inode[g].slot = st.inode[g].slot /\ st.inode[g].slot \in Slots
  <2>1. \A g \in Fids : InUse(st, more, g) => st.inode[g] \in Inode
    BY <1>1, StateFields DEF Mid
  <2>2. \A g \in Fids : InUse(st, more, g) => st.inode[g].slot \in Slots
    BY <2>1 DEF Inode
  <2> QED
    BY <2>1, <2>2, <1>4, <1>6, <1>10, <1>11, <1>8
<1>15. Mid(r, more)
  <2>1. ASSUME NEW g \in Fids, InUse(r, more, g)
        PROVE  /\ r.inode[g] # None
               /\ r.dirent[r.inode[g].slot].state # "empty"
               /\ r.dirent[r.inode[g].slot].state = "live" =>
                    \A m \in Names : r.cache[m] = g <=> m = r.dirent[r.inode[g].slot].name
    <3>1. InUse(st, more, g) /\ InUse(st, more, f)
      BY <2>1, <1>12, <1>13 DEF InUse
    <3>2. CASE st.inode[g].slot = slot
      BY <3>1, <3>2, <1>10, <1>14
    <3>3. CASE st.inode[g].slot # slot
      <4>1. r.dirent[r.inode[g].slot] = st.dirent[st.inode[g].slot] /\ g # f
        BY <3>1, <3>3, <1>10, <1>14, <1>8
      <4>2. /\ st.dirent[st.inode[g].slot].state # "empty"
            /\ st.dirent[st.inode[g].slot].state = "live" =>
                 \A m \in Names : st.cache[m] = g <=> m = st.dirent[st.inode[g].slot].name
        BY <3>1, <1>1 DEF Mid
      <4>3. g # None
        BY <1>11
      <4> QED
        BY <4>1, <4>2, <4>3, <3>1, <1>1, <1>6, <1>10, <1>14
    <3> QED
      BY <3>2, <3>3
  <2>2. ASSUME NEW g \in Fids, NEW h \in Fids, InUse(r, more, g), InUse(r, more, h),
               r.inode[g].slot = r.inode[h].slot
        PROVE  g = h
    <3>1. /\ InUse(st, more, g) /\ InUse(st, more, h)
          /\ st.inode[g].slot = st.inode[h].slot
      BY <2>2, <1>13, <1>14
    <3> QED
      BY <3>1, <1>1 DEF Mid
  <2>3. \A s \in Slots : r.dirent[s].state = "live" => r.dirent[s].name \in Names
    BY <1>1, <1>10 DEF Mid
  <2> QED
    BY <2>1, <2>2, <2>3 DEF Mid
<1>16. Held(kfile', {}) = held
  BY <1>2
<1>17. Held(kfile', {}) \subseteq more /\ Become(Living(r, Held(kfile', {})))
  BY <1>2, <1>12, <1>16
<1> HIDE DEF held
<1> QED
  BY <1>2, <1>10, <1>12, <1>15, <1>17, NowIn, Settle
-----------------------------------------------------------------------------
(* Reading and writing *)

\* Blocks of a page cache have numbers.
LEMMA BlockNumbers ==
  ASSUME NEW off \in Nat, NEW end \in Nat
  PROVE  Blocks(off, end) \subseteq Nat
<1>1. BLOCK_SIZE \in Nat \ {0}
  BY FileCacheAssumption
<1>2. ASSUME NEW i \in off .. (end - 1)
      PROVE  i \div BLOCK_SIZE \in Nat
  BY <1>1
<1> QED
  BY <1>2 DEF Blocks

\* load_buffer_if_needed changes the pages of the Inode, and nothing else of it.
LEMMA LoadKeeps ==
  ASSUME IInv, NEW f \in Fids, inode[f] \in Inode, NEW set \in SUBSET Nat
  PROVE  LET i == load_buffer_if_needed(f, set) IN
         i \in Inode /\ i.slot = inode[f].slot /\ i.file_size = inode[f].file_size
<1> DEFINE page == [i \in Offsets |-> IF i \div BLOCK_SIZE \in set \ inode[f].loaded
                                      THEN Virt(f, i) ELSE inode[f].page[i]]
           loaded == inode[f].loaded \cup set
           i == [inode[f] EXCEPT !.loaded = loaded, !.page = page]
<1>1. load_buffer_if_needed(f, set) = i
  BY DEF load_buffer_if_needed
<1>2. /\ inode[f].vec \in {0} \cup Clusters /\ inode[f].page \in [Offsets -> Byte]
      /\ inode[f].loaded \subseteq Nat
  BY DEF Inode
<1>3. \A k \in Offsets : Virt(f, k) \in Byte
  BY <1>2, NowIn, FileCacheAssumption DEF Virt
<1>4. page \in [Offsets -> Byte] /\ loaded \in SUBSET Nat
  BY <1>2, <1>3
<1> HIDE DEF page, loaded
<1>5. i \in Inode /\ i.slot = inode[f].slot /\ i.file_size = inode[f].file_size
  BY <1>4 DEF Inode
<1> QED
  BY <1>1, <1>5

\* What reads do to the Inode, and the offset after them.
LEMMA GetKeeps ==
  ASSUME IInv, NEW f \in Fids, inode[f] \in Inode, NEW off \in 0 .. MaxSize, NEW len \in Lens
  PROVE  LET got == Get(f, off, len) IN
         got.inode \in Inode /\ got.inode.slot = inode[f].slot /\ got.end \in 0 .. MaxSize
<1> DEFINE size == inode[f].file_size
           end == IF off + len < size THEN off + len ELSE size
<1>1. size \in 0 .. MaxSize /\ MaxSize \in Nat /\ len \in Nat
  BY FileCacheAssumption DEF Inode
<1>2. Get(f, off, len) = IF off >= size THEN [inode |-> inode[f], end |-> off]
                         ELSE [inode |-> load_buffer_if_needed(f, Blocks(off, end)), end |-> end]
  BY DEF Get
<1> HIDE DEF size
<1>3. end \in 0 .. MaxSize
  BY <1>1
<1> HIDE DEF end
<1>4. Blocks(off, end) \in SUBSET Nat
  BY <1>1, <1>3, BlockNumbers
<1> DEFINE l == load_buffer_if_needed(f, Blocks(off, end))
<1>5. l \in Inode /\ l.slot = inode[f].slot
  BY <1>4, LoadKeeps
<1> HIDE DEF l
<1>6. Get(f, off, len) \in {[inode |-> inode[f], end |-> off], [inode |-> l, end |-> end]}
  BY <1>2 DEF l
<1> QED
  BY <1>3, <1>5, <1>6

\* What writes do to the Inode.
LEMMA PutKeeps ==
  ASSUME IInv, NEW f \in Fids, inode[f] \in Inode, NEW off \in 0 .. MaxSize, NEW len \in Lens,
         NEW val \in Vals, off + len <= MaxSize
  PROVE  LET i == Put(f, off, len, val) IN i \in Inode /\ i.slot = inode[f].slot
<1> DEFINE end == off + len
           l == load_buffer_if_needed(f, Blocks(off, end))
           page == [k \in Offsets |-> IF k \in off .. (end - 1) THEN val ELSE l.page[k]]
           size == IF l.file_size < end THEN end ELSE l.file_size
           i == [l EXCEPT !.page = page, !.file_size = size]
<1>1. Put(f, off, len, val) = i
  BY DEF Put, mark_buffer_dirty_if_needed
<1>2. MaxSize \in Nat /\ end \in 0 .. MaxSize
  BY FileCacheAssumption
<1> HIDE DEF end
<1>3. Blocks(off, end) \in SUBSET Nat
  BY <1>2, BlockNumbers
<1>4. l \in Inode /\ l.slot = inode[f].slot
  BY <1>3, LoadKeeps
<1> HIDE DEF l
<1>5. l.page \in [Offsets -> Byte] /\ l.file_size \in 0 .. MaxSize
  BY <1>4 DEF Inode
<1>6. page \in [Offsets -> Byte] /\ size \in 0 .. MaxSize
  BY <1>2, <1>5, FileCacheAssumption
<1> HIDE DEF page, size
<1>7. i \in Inode /\ i.slot = inode[f].slot
  BY <1>4, <1>6 DEF Inode
<1> QED
  BY <1>1, <1>7

\* The Inode of a KFile.
LEMMA InodeOf ==
  ASSUME IInv, NEW d \in Descs, kfile[d] # None
  PROVE  /\ kfile[d] \in KFile /\ kfile[d].fid \in Fids /\ inode[kfile[d].fid] \in Inode
         /\ kfile[d].offset \in 0 .. MaxSize
<1>1. kfile[d] \in KFile /\ kfile[d].fid \in Held(kfile, {})
  BY NowIn, HeldTypes
<1>2. kfile[d].fid \in Fids /\ kfile[d].offset \in 0 .. MaxSize
  BY <1>1 DEF KFile
<1>3. Now.inode[kfile[d].fid] # None
  BY <1>1, <1>2, NowIn DEF Mid, InUse
<1> QED
  BY <1>1, <1>2, <1>3, NowIn

\* A step that gives one Inode other contents and one KFile another offset.
LEMMA ContentStep ==
  ASSUME IInv, NEW d \in Descs, kfile[d] # None, NEW i \in Inode, i.slot = inode[kfile[d].fid].slot,
         NEW off \in 0 .. MaxSize, inode' = [inode EXCEPT ![kfile[d].fid] = i],
         kfile' \in {kfile, [kfile EXCEPT ![d].offset = off]},
         UNCHANGED <<dirent, free, data, cache, history>>
  PROVE  IInv'
<1> DEFINE f == kfile[d].fid
           k == [kfile[d] EXCEPT !.offset = off]
<1>1. f \in Fids /\ inode[f] \in Inode /\ kfile[d] \in KFile
  BY InodeOf
<1>2. k \in KFile /\ k.fid = f
  BY <1>1 DEF KFile
<1>3. kfile' \in {kfile, [kfile EXCEPT ![d] = k]}
  OBVIOUS
<1>4. inode' = [inode EXCEPT ![f] = i] /\ i.slot = inode[f].slot
  OBVIOUS
<1> HIDE DEF k
<1>5. None \notin Inode /\ None \notin KFile
  BY FileCacheAssumption
<1>6. kfile' \in [Descs -> KFile \cup {None}] /\ kfile \in [Descs -> KFile \cup {None}]
  BY <1>2, <1>3, NowIn
<1>7. Held(kfile', {}) = Held(kfile, {})
  <2>1. \A e \in Descs : (kfile'[e] # None <=> kfile[e] # None)
                         /\ (kfile[e] # None => kfile'[e].fid = kfile[e].fid)
    BY <1>1, <1>2, <1>3, <1>5, <1>6
  <2> QED
    BY <2>1 DEF Held
<1> HIDE DEF f
<1>8. \A g \in Fids : /\ inode'[g] # None <=> inode[g] # None
                      /\ inode[g] # None => inode'[g].slot = inode[g].slot
  BY <1>1, <1>4, <1>5, NowIn
<1>9. inode' \in [Fids -> Inode \cup {None}] /\ dirent' = dirent /\ free' = free /\ cache' = cache
  BY <1>1, <1>4, NowIn
<1>10. Now' \in State
  BY <1>9, NowIn DEF Now, State
<1> QED
  BY <1>6, <1>7, <1>8, <1>9, <1>10, NowIn, Steady DEF history

LEMMA ReadStep ==
  ASSUME IInv, NEW d \in Descs, NEW len \in Lens, Read(d, len)
  PROVE  IInv'
<1> DEFINE got == Get(kfile[d].fid, kfile[d].offset, len)
<1>1. kfile[d] # None
  BY DEF Read
<1>2. /\ got.inode \in Inode /\ got.inode.slot = inode[kfile[d].fid].slot
      /\ got.end \in 0 .. MaxSize
  BY <1>1, InodeOf, GetKeeps
<1>3. /\ inode' = [inode EXCEPT ![kfile[d].fid] = got.inode]
      /\ kfile' = [kfile EXCEPT ![d].offset = got.end]
      /\ UNCHANGED <<dirent, free, data, cache, history>>
  BY DEF Read
<1> HIDE DEF got
<1> QED
  BY <1>1, <1>2, <1>3, ContentStep

LEMMA PreadStep ==
  ASSUME IInv, NEW d \in Descs, NEW off \in Places, NEW len \in Lens, Pread(d, off, len)
  PROVE  IInv'
<1> DEFINE got == Get(kfile[d].fid, off, len)
<1>1. kfile[d] # None /\ off \in 0 .. MaxSize
  BY FileCacheAssumption DEF Pread
<1>2. got.inode \in Inode /\ got.inode.slot = inode[kfile[d].fid].slot
  BY <1>1, InodeOf, GetKeeps
<1>3. /\ inode' = [inode EXCEPT ![kfile[d].fid] = got.inode] /\ kfile' = kfile
      /\ UNCHANGED <<dirent, free, data, cache, history>>
  BY DEF Pread
<1> HIDE DEF got
<1> QED
  BY <1>1, <1>2, <1>3, ContentStep

LEMMA WriteStep ==
  ASSUME IInv, NEW d \in Descs, NEW len \in Lens, NEW val \in Vals, Write(d, len, val)
  PROVE  IInv'
<1> DEFINE off == WriteTo(d, kfile[d].offset)
           i == Put(kfile[d].fid, off, len, val)
           end == off + len
<1>1. /\ kfile[d] # None /\ off + len <= MaxSize
      /\ inode' = [inode EXCEPT ![kfile[d].fid] = i]
      /\ kfile' = [kfile EXCEPT ![d].offset = end]
      /\ UNCHANGED <<dirent, free, data, cache, history>>
  BY DEF Write
<1>2. off \in 0 .. MaxSize
  BY <1>1, InodeOf DEF WriteTo, Inode
<1> HIDE DEF off
<1>3. i \in Inode /\ i.slot = inode[kfile[d].fid].slot
  BY <1>1, <1>2, InodeOf, PutKeeps
<1>4. end \in 0 .. MaxSize
  BY <1>1, <1>2, FileCacheAssumption
<1> HIDE DEF i, end
<1> QED
  BY <1>1, <1>3, <1>4, ContentStep

LEMMA PwriteStep ==
  ASSUME IInv, NEW d \in Descs, NEW off \in Places, NEW len \in Lens, NEW val \in Vals,
         Pwrite(d, off, len, val)
  PROVE  IInv'
<1> DEFINE at == WriteTo(d, off)
           i == Put(kfile[d].fid, at, len, val)
<1>1. /\ kfile[d] # None /\ at + len <= MaxSize
      /\ inode' = [inode EXCEPT ![kfile[d].fid] = i] /\ kfile' = kfile
      /\ UNCHANGED <<dirent, free, data, cache, history>>
  BY DEF Pwrite
<1>2. off \in 0 .. MaxSize
  BY FileCacheAssumption
<1>3. at \in 0 .. MaxSize
  BY <1>1, <1>2, InodeOf DEF WriteTo, Inode
<1> HIDE DEF at
<1>4. i \in Inode /\ i.slot = inode[kfile[d].fid].slot
  BY <1>1, <1>3, InodeOf, PutKeeps
<1> HIDE DEF i
<1> QED
  BY <1>1, <1>2, <1>4, ContentStep

LEMMA LseekStep ==
  ASSUME IInv, NEW d \in Descs, NEW off \in Seeks, Lseek(d, off)
  PROVE  IInv'
<1> DEFINE i == inode[kfile[d].fid]
<1>1. /\ kfile[d] # None /\ kfile' = [kfile EXCEPT ![d].offset = off] /\ inode' = inode
      /\ UNCHANGED <<dirent, free, data, cache, history>>
  BY DEF Lseek
<1>2. off \in 0 .. MaxSize
  BY FileCacheAssumption
<1>3. i \in Inode /\ inode' = [inode EXCEPT ![kfile[d].fid] = i]
  BY <1>1, InodeOf, NowIn
<1> HIDE DEF i
<1> QED
  BY <1>1, <1>2, <1>3, ContentStep DEF i
-----------------------------------------------------------------------------
(* ftruncate and rename *)

\* sys_ftruncate64 leaves every entry its name and every Inode its entry.
LEMMA TruncateStep ==
  ASSUME IInv, NEW d \in Descs, NEW n \in Sizes, Truncate(d, n)
  PROVE  IInv'
<1> DEFINE f == kfile[d].fid
           s == inode[f].slot
           old == dirent[s]
           new == dirent'[s]
<1>1. kfile[d] # None /\ cache' = cache /\ kfile' = kfile /\ Muddle({s})
  BY DEF Truncate
<1>2. f \in Fids /\ inode[f] \in Inode
  BY <1>1, InodeOf
<1>3. s \in Slots
  BY <1>2 DEF Inode
<1>4. old \in Dirent /\ old.first \in {0} \cup Clusters
  BY <1>3, NowIn DEF Dirent
<1>5. n \in 0 .. MaxSize /\ 0 \in 0 .. MaxSize
  BY FileCacheAssumption
<1>6. muddled' \subseteq Slots /\ muddles' \in 0 .. MaxMuddles
  BY <1>1, <1>3, NowIn, FileCacheAssumption DEF Muddle
<1>7. /\ free' \in SUBSET Clusters /\ data' \in [Clusters -> [Offsets -> Byte]]
      /\ \E first \in {0} \cup Clusters, size \in 0 .. MaxSize :
           dirent' = [dirent EXCEPT ![s] = [@ EXCEPT !.first = first, !.size = size]]
      /\ \/ inode' = inode
         \/ \E c \in Clusters : inode' = [inode EXCEPT ![f] = [@ EXCEPT !.vec = c]]
  <2>1. CASE /\ free' = free \cup ({old.first} \ {0})
             /\ dirent' = [dirent EXCEPT ![s].first = 0, ![s].size = 0]
             /\ UNCHANGED <<data, inode>>
    <3>1. dirent' = [dirent EXCEPT ![s] = [@ EXCEPT !.first = 0, !.size = 0]]
      BY <2>1, <1>3, NowIn
    <3>2. 0 \in {0} \cup Clusters
      OBVIOUS
    <3> QED
      BY <2>1, <3>1, <3>2, <1>4, <1>5, NowIn
  <2>2. CASE /\ dirent' = [dirent EXCEPT ![s].size = n]
             /\ UNCHANGED <<free, data, inode>>
    <3>1. dirent' = [dirent EXCEPT ![s] = [@ EXCEPT !.first = old.first, !.size = n]]
      BY <2>2, <1>3, <1>4, NowIn DEF Dirent
    <3> QED
      BY <2>2, <3>1, <1>4, <1>5, NowIn
  <2>3. CASE \E c \in free :
               /\ free' = free \ {c}
               /\ data' = [data EXCEPT ![c] = Zeros]
               /\ dirent' = [dirent EXCEPT ![s].first = c, ![s].size = n]
               /\ inode' = [inode EXCEPT ![f].vec = c]
    <3>1. PICK c \in free :
               /\ free' = free \ {c}
               /\ data' = [data EXCEPT ![c] = Zeros]
               /\ dirent' = [dirent EXCEPT ![s].first = c, ![s].size = n]
               /\ inode' = [inode EXCEPT ![f].vec = c]
      BY <2>3
    <3>2. c \in Clusters
      BY NowIn
    <3>3. Zeros \in [Offsets -> Byte]
      BY FileCacheAssumption DEF Zeros
    <3>4. data' \in [Clusters -> [Offsets -> Byte]]
      BY <3>1, <3>3, NowIn
    <3>5. dirent' = [dirent EXCEPT ![s] = [@ EXCEPT !.first = c, !.size = n]]
      BY <3>1, <1>3, NowIn
    <3>6. inode' = [inode EXCEPT ![f] = [@ EXCEPT !.vec = c]]
      BY <3>1
    <3>7. free' \in SUBSET Clusters
      BY <3>1, NowIn
    <3> QED
      BY <3>2, <3>4, <3>5, <3>6, <3>7, <1>5
  <2> QED
    BY <2>1, <2>2, <2>3 DEF Truncate
<1>8. PICK first \in {0} \cup Clusters, size \in 0 .. MaxSize :
        dirent' = [dirent EXCEPT ![s] = [@ EXCEPT !.first = first, !.size = size]]
  BY <1>7
<1> DEFINE e == [old EXCEPT !.first = first, !.size = size]
<1>9. e \in Dirent /\ e.state = old.state /\ e.name = old.name
  BY <1>4 DEF Dirent
<1>10. dirent' = [dirent EXCEPT ![s] = e]
  BY <1>8
<1> HIDE DEF e
<1>11. /\ dirent' \in [Slots -> Dirent]
       /\ \A t \in Slots : dirent'[t].state = dirent[t].state /\ dirent'[t].name = dirent[t].name
  BY <1>3, <1>9, <1>10, NowIn
<1>12. /\ inode' \in [Fids -> Inode \cup {None}]
       /\ \A g \in Fids : /\ inode'[g] # None <=> inode[g] # None
                          /\ inode[g] # None => inode'[g].slot = inode[g].slot
  <2>1. CASE inode' = inode
    BY <2>1, NowIn
  <2>2. CASE \E c \in Clusters : inode' = [inode EXCEPT ![f] = [@ EXCEPT !.vec = c]]
    <3>1. PICK c \in Clusters : inode' = [inode EXCEPT ![f] = [@ EXCEPT !.vec = c]]
      BY <2>2
    <3> DEFINE i == [inode[f] EXCEPT !.vec = c]
    <3>2. i \in Inode /\ i.slot = inode[f].slot
      BY <1>2 DEF Inode
    <3>3. inode' = [inode EXCEPT ![f] = i]
      BY <3>1
    <3> HIDE DEF i, f
    <3>4. None \notin Inode
      BY FileCacheAssumption
    <3> QED
      BY <3>2, <3>3, <3>4, <1>2, NowIn
  <2> QED
    BY <2>1, <2>2, <1>7
<1>13. Now' \in State
  BY <1>1, <1>7, <1>11, <1>12, NowIn DEF Now, State
<1>14. Held(kfile', {}) = Held(kfile, {})
  BY <1>1
<1> QED
  BY <1>1, <1>6, <1>7, <1>11, <1>12, <1>13, <1>14, NowIn, Steady

\* sys_renameat2: the Inode of the old path loses its entry, the one of the new path
\* keeps it and stays in the cache under the new name.
LEMMA RenameStep ==
  ASSUME IInv, NEW a \in Names, NEW b \in Names, Rename(a, b)
  PROVE  IInv'
<1> DEFINE held == Held(kfile, {})
           st == open(Now, a, FALSE, FALSE, held)
           fa == Opened(Now, a)
           ha == Held(kfile, {fa})
           to == open(st, b, TRUE, FALSE, ha)
           fb == Opened(st, b)
           more == ha \cup {fb}
           sa == to.inode[fa].slot
           sb == to.inode[fb].slot
           r == [to EXCEPT !.dirent[sb].first = to.dirent[sa].first,
                           !.dirent[sb].size = to.dirent[sa].size,
                           !.dirent[sa] = Deleted]
<1>1. /\ CanOpen(Now, a, FALSE) /\ CanOpen(st, b, TRUE) /\ Become(Living(r, held))
      /\ Muddle({sa, sb}) /\ data' = data /\ kfile' = kfile
  BY DEF Rename
<1>2. fa \in Fids /\ st \in State /\ Mid(st, held \cup {fa}) /\ held \in SUBSET Fids
  BY <1>1, NowIn, OpenKeeps
<1> HIDE DEF st, fa
<1>3. ha = held \cup {fa} /\ ha \in SUBSET Fids
  <2>1. ha = held \cup {fa}
    BY DEF Held
  <2> QED
    BY <2>1, <1>2
<1> HIDE DEF ha
<1>4. fb \in Fids /\ to \in State /\ Mid(to, more) /\ to.inode[fb] \in Inode
  BY <1>1, <1>2, <1>3, OpenKeeps
<1> HIDE DEF to, fb
<1>5. more \in SUBSET Fids /\ held \subseteq more /\ fa \in more
  BY <1>2, <1>3, <1>4
<1> HIDE DEF more
<1>6. to.inode[fa] \in Inode
  BY <1>2, <1>4, <1>5, StateFields DEF Mid, InUse
<1>7. sa \in Slots /\ sb \in Slots
  BY <1>4, <1>6 DEF Inode
<1>8. /\ to.dirent \in [Slots -> Dirent]
      /\ to.dirent[sa].first \in {0} \cup Clusters /\ to.dirent[sa].size \in 0 .. MaxSize
  BY <1>4, <1>7, StateFields DEF Dirent
<1> DEFINE first == to.dirent[sa].first
           size == to.dirent[sa].size
           e == [to.dirent[sb] EXCEPT !.first = first, !.size = size]
           di == [[to.dirent EXCEPT ![sb] = e] EXCEPT ![sa] = Deleted]
<1>9. /\ e \in Dirent /\ e.state = to.dirent[sb].state /\ e.name = to.dirent[sb].name
      /\ Deleted \in Dirent /\ Deleted.state = "deleted"
  <2>1. to.dirent[sb] \in Dirent
    BY <1>7, <1>8
  <2>2. Deleted \in Dirent /\ Deleted.state = "deleted"
    BY FileCacheAssumption DEF Deleted, Dirent
  <2> QED
    BY <2>1, <2>2, <1>8 DEF Dirent
<1>10. r = [to EXCEPT !.dirent = di]
  BY <1>4, <1>7, <1>8 DEF State
<1> HIDE DEF sa, sb, e
<1>11. /\ di \in [Slots -> Dirent]
       /\ \A t \in Slots : \/ di[t].state = "deleted"
                           \/ di[t].state = to.dirent[t].state /\ di[t].name = to.dirent[t].name
  BY <1>7, <1>8, <1>9
<1> HIDE DEF di, r
<1>12. r \in State /\ r.dirent = di /\ r.inode = to.inode /\ r.cache = to.cache
  BY <1>4, <1>10, <1>11 DEF State
<1>13. Mid(r, more)
  <2>1. \A g \in Fids : InUse(to, more, g) => r.inode[g] # None /\ r.inode[g].slot = to.inode[g].slot
    BY <1>4, <1>12 DEF Mid
  <2> QED
    BY <2>1, <1>4, <1>5, <1>11, <1>12, EntriesKeep
<1>14. muddled' \subseteq Slots /\ muddles' \in 0 .. MaxMuddles
  BY <1>1, <1>7, NowIn, FileCacheAssumption DEF Muddle
<1>15. Held(kfile', {}) \subseteq more /\ Become(Living(r, Held(kfile', {})))
  BY <1>1, <1>5
<1> HIDE DEF held
<1> QED
  BY <1>1, <1>5, <1>12, <1>13, <1>14, <1>15, NowIn, Settle
-----------------------------------------------------------------------------
(* The theorems *)

LEMMA InitIInv == Init => IInv
<1> SUFFICES ASSUME Init PROVE IInv
  OBVIOUS
<1> DEFINE e == [Entry(OnDisk) EXCEPT !.first = 1, !.size = DiskSize]
<1>1. 1 \in Slots /\ 0 \in 0 .. MaxSize /\ DiskSize \in 0 .. MaxSize /\ OnDisk \in Names /\ None \notin Fids
  BY FileCacheAssumption DEF Slots
<1>2. e \in Dirent /\ e.state = "live" /\ e.name = OnDisk
  BY <1>1 DEF Entry, Dirent, Clusters
<1>3. Empty \in Dirent /\ Empty.state = "empty"
  BY <1>1 DEF Empty, Dirent
<1>4. dirent = [s \in Slots |-> IF s = 1 THEN e ELSE Empty]
  BY DEF Init
<1> HIDE DEF e
<1>5. dirent \in [Slots -> Dirent] /\ \A s \in Slots : dirent[s].state = "live" => dirent[s].name \in Names
  BY <1>1, <1>2, <1>3, <1>4
<1>6. /\ inode \in [Fids -> Inode \cup {None}] /\ cache \in [Names -> Fids \cup {None}]
      /\ kfile \in [Descs -> KFile \cup {None}] /\ free \in SUBSET Clusters
      /\ muddled \subseteq Slots /\ muddles \in 0 .. MaxMuddles
      /\ \A f \in Fids : inode[f] = None
      /\ \A n \in Names : cache[n] = None
      /\ \A d \in Descs : kfile[d] = None
  BY FileCacheAssumption DEF Init
<1>7. data \in [Clusters -> [Offsets -> Byte]]
  BY FileCacheAssumption DEF Init
<1>8. Now \in State /\ Now.inode = inode /\ Now.cache = cache /\ Now.dirent = dirent
  BY <1>5, <1>6 DEF Now, State
<1>9. TypeOK
  BY <1>6, <1>7, <1>8 DEF TypeOK
<1>10. \A f \in Fids : ~ InUse(Now, Held(kfile, {}), f)
  BY <1>1, <1>6, <1>8 DEF InUse, Held
<1> QED
  BY <1>5, <1>6, <1>8, <1>9, <1>10 DEF IInv, Mid

LEMMA NextIInv == IInv /\ [Next]_vars => IInv'
<1> SUFFICES ASSUME IInv, [Next]_vars PROVE IInv'
  OBVIOUS
<1>1. ASSUME NEW n \in Names, NEW fl \in Flags, OpenNoFd(n, fl.creat, fl.trunc)
      PROVE  IInv'
  <2>1. fl.creat \in BOOLEAN /\ fl.trunc \in BOOLEAN
    BY DEF Flags
  <2> QED
    BY <2>1, <1>1, OpenNoFdStep
<1>2. ASSUME NEW n \in Names, Unlink(n)
      PROVE  IInv'
  BY <1>2, UnlinkStep
<1>3. ASSUME NEW n \in Names, NEW m \in Names, Rename(n, m)
      PROVE  IInv'
  BY <1>3, RenameStep
<1>4. ASSUME NEW d \in Descs, NEW n \in Names, NEW fl \in Flags, NEW append \in BOOLEAN,
             Open(d, n, fl.creat, fl.trunc, append)
      PROVE  IInv'
  <2>1. fl.creat \in BOOLEAN /\ fl.trunc \in BOOLEAN
    BY DEF Flags
  <2> QED
    BY <2>1, <1>4, OpenStep
<1>5. ASSUME NEW d \in Descs, Close(d)
      PROVE  IInv'
  BY <1>5, CloseStep
<1>6. ASSUME NEW d \in Descs, NEW off \in Seeks, Lseek(d, off)
      PROVE  IInv'
  BY <1>6, LseekStep
<1>7. ASSUME NEW d \in Descs, NEW n \in Sizes, Truncate(d, n)
      PROVE  IInv'
  BY <1>7, TruncateStep
<1>8. ASSUME NEW d \in Descs, NEW len \in Lens, Read(d, len)
      PROVE  IInv'
  BY <1>8, ReadStep
<1>9. ASSUME NEW d \in Descs, NEW len \in Lens, NEW val \in Vals, Write(d, len, val)
      PROVE  IInv'
  BY <1>9, WriteStep
<1>10. ASSUME NEW d \in Descs, NEW len \in Lens, NEW off \in Places, Pread(d, off, len)
       PROVE  IInv'
  BY <1>10, PreadStep
<1>11. ASSUME NEW d \in Descs, NEW len \in Lens, NEW off \in Places, NEW val \in Vals,
              Pwrite(d, off, len, val)
       PROVE  IInv'
  BY <1>11, PwriteStep
<1>12. CASE UNCHANGED vars
  BY <1>12 DEF vars, history, IInv, TypeOK, Now, State, Mid, InUse, Held
<1> QED
  BY <1>1, <1>2, <1>3, <1>4, <1>5, <1>6, <1>7, <1>8, <1>9, <1>10, <1>11, <1>12 DEF Next

LEMMA Invariant == Spec => []IInv
  BY InitIInv, NextIInv, PTL DEF Spec

\* The state keeps its types: entries, clusters, Inodes, paths, sizes and offsets stay in
\* range through every operation of the kernel's files.
THEOREM TypeCorrect == Spec => []TypeOK
<1>1. IInv => TypeOK
  BY DEF IInv
<1> QED
  BY <1>1, Invariant, PTL

\* An open file whose entry is in use is in INODE_CACHE under the name of the entry, and
\* no file has two Inodes: shrink spares what a KFile holds, unlinkat takes the path with
\* the entry, and open looks into the cache before it makes an Inode.
THEOREM OneInodePerFile == Spec => []OpenIsCached
<1>1. ASSUME IInv
      PROVE  OpenIsCached
  <2>1. ASSUME NEW d \in Descs, kfile[d] # None, dirent[inode[kfile[d].fid].slot].state = "live"
        PROVE  cache[dirent[inode[kfile[d].fid].slot].name] = kfile[d].fid
    <3> DEFINE f == kfile[d].fid
               s == inode[f].slot
    <3>1. f \in Fids /\ inode[f] \in Inode /\ f \in Held(kfile, {})
      BY <1>1, <2>1, InodeOf, NowIn, HeldTypes
    <3>2. s \in Slots
      BY <3>1 DEF Inode
    <3>3. dirent[s].name \in Names
      BY <1>1, <2>1, <3>2, NowIn DEF Mid
    <3> QED
      BY <1>1, <2>1, <3>1, <3>3, NowIn DEF Mid, InUse
  <2>2. ASSUME NEW f \in Fids, NEW g \in Fids, inode[f] # None, inode[g] # None,
               inode[f].slot = inode[g].slot
        PROVE  f = g
    <3>1. InUse(Now, Held(kfile, {}), f) /\ InUse(Now, Held(kfile, {}), g)
      BY <1>1, <2>2 DEF IInv
    <3> QED
      BY <3>1, <2>2, <1>1, NowIn DEF Mid
  <2> QED
    BY <2>1, <2>2 DEF OpenIsCached
<1> QED
  BY <1>1, Invariant, PTL
=============================================================================
