------------------------------- MODULE Fat32 -------------------------------
(***************************************************************************)
(* The FAT32 crate (crates/fat32) as the kernel uses it: the table of      *)
(* cluster links and its allocator, the entries of the root directory, and *)
(* the VirtFiles, each with a cached copy of its file's cluster chain.     *)
(*                                                                         *)
(* Every operation runs to its end without a suspension, hence is one      *)
(* action.  The inode cache keeps one VirtFile per path, so an entry has   *)
(* at most one VirtFile at a time; deleted entries are not reused.  The    *)
(* root directory is entry 0 and its VirtFile, ROOT_INODE, is never        *)
(* dropped; subdirectories and the block cache are left out.  Programs     *)
(* reach write_at through directories, in builds without the page cache    *)
(* and, with the feature inode-drop, when dirty pages are synced.  A panic *)
(* stops the system and is recorded in halt: no space left, a scan past    *)
(* the last cluster of the volume, or a VirtFile without clusters.         *)
(***************************************************************************)
EXTENDS Naturals, Sequences, FiniteSets

CONSTANTS
  NumSlots,      \* directory entries (a long entry and its short one count as one)
  SlotsPerClus,  \* directory entries in a cluster
  LastCluster,   \* last cluster of the volume; the first is 2
  ClusterSize,   \* bytes in a cluster
  MaxSize,       \* bound: bytes of a file
  MaxChain,      \* bound: clusters of a file or directory
  Writes,        \* bound: the offset and length of the writes of programs
  Sizes,         \* bound: the sizes that programs ask ftruncate for
  Byte,          \* contents of a byte of the data area; 0 is cleared
  MaxMounts,     \* bound: times the volume is mounted again
  Gone           \* the file of an entry that is not in use

Root == 0
Slots == 1 .. NumSlots
Files == {Root} \cup Slots
Clusters == 2 .. LastCluster
FREE_CLUSTER == 0
END_OF_CLUSTER == LastCluster + 1
RootCluster == 2

ASSUME Fat32Assumption ==
  /\ NumSlots \in Nat /\ SlotsPerClus \in Nat \ {0}
  /\ LastCluster \in Nat \ {0, 1} /\ ClusterSize \in Nat \ {0}
  /\ MaxSize \in Nat /\ MaxMounts \in Nat /\ MaxChain \in Nat \ {0}
  /\ MaxSize <= MaxChain * ClusterSize /\ NumSlots <= MaxChain * SlotsPerClus
  /\ Writes \subseteq Nat \X (Nat \ {0}) /\ \A w \in Writes : w[1] + w[2] <= MaxSize
  /\ Sizes \subseteq 0 .. MaxSize
  /\ 0 \in Byte

VARIABLES
  fat,               \* the FAT: next cluster, END_OF_CLUSTER or FREE_CLUSTER
  recycled_cluster,  \* FATManager.recycled_cluster
  free_cluster_cnt,  \* FileSystem.free_cluster_cnt, also kept in FSInfo
  sde,               \* the short directory entries
  cluster_vec,       \* ClusterChain.cluster_vec of the VirtFile of an entry
  opened,            \* entries that have a VirtFile
  data,              \* content of the data area
  halt,              \* "no", or the panic that stopped the system
  mounts,            \* times the volume was mounted again
  moved,             \* history: entries whose VirtFile was made by rename
  leaky              \* history: a rename, or growth of an unlinked file, happened

table == <<fat, recycled_cluster, free_cluster_cnt>>
history == <<mounts, moved, leaky>>
vars == <<table, sde, cluster_vec, opened, data, halt, history>>

Fresh == [state |-> "live", first |-> 0, size |-> 0]
Deleted == [state |-> "deleted", first |-> 0, size |-> 0]
Elems(q) == {q[i] : i \in 1 .. Len(q)}
Last(q) == q[Len(q)]
Ceil(n, unit) == (n + unit - 1) \div unit
Running == halt = "no"

Panic(why) ==
  /\ halt' = why
  /\ UNCHANGED <<table, sde, cluster_vec, opened, data, history>>
-----------------------------------------------------------------------------
\* q is the chain of table f that starts at cluster c.
IsChain(f, c, q) ==
  /\ Len(q) > 0 /\ q[1] = c
  /\ \A i \in 1 .. (Len(q) - 1) : f[q[i]] = q[i + 1]
  /\ f[Last(q)] = END_OF_CLUSTER

\* get_all_cluster_id, and generate for a VirtFile that is looked up: the one
\* chain that starts at c, and no clusters for an entry that has none.
Chain(f, c) ==
  IF c = 0 THEN {<<>>}
  ELSE {q \in UNION {[1 .. n -> Clusters] : n \in 1 .. MaxChain} : IsChain(f, c, q)}

\* Mutant: the scan starts at start_from itself.
BlankFromHere(start_from, linked) ==
  {c \in Clusters : c >= start_from /\ fat[c] = FREE_CLUSTER /\ c \notin linked}

\* The clusters that find_blank_cluster may return: it scans upwards from the
\* cluster after start_from, which is taken but not linked in the FAT yet.
Blank(start_from, linked) ==
  {c \in Clusters : c > start_from /\ fat[c] = FREE_CLUSTER /\ c \notin linked}

\* num calls of get_blank_cluster: recycled clusters first, then the scan.  There
\* is no such sequence when a scan runs past the last cluster of the volume.
Picks(num, start) ==
  {q \in [1 .. num -> Clusters] :
     \A i \in 1 .. num :
       IF i <= Len(recycled_cluster) THEN q[i] = recycled_cluster[i]
       ELSE LET blank == Blank(IF i = 1 THEN start ELSE q[i - 1], {q[j] : j \in 1 .. (i - 2)}) IN
            q[i] \in blank /\ \A c \in blank : q[i] <= c}

\* Mutant: a recycled cluster stays in the queue.
take_keeping(q) ==
  /\ recycled_cluster' = recycled_cluster
  /\ free_cluster_cnt' = free_cluster_cnt - Len(q)

\* What alloc_cluster_chain leaves of the queue and of the count.
take(q) ==
  /\ recycled_cluster' = SubSeq(recycled_cluster, Len(q) + 1, Len(recycled_cluster))
  /\ free_cluster_cnt' = free_cluster_cnt - Len(q)

\* The new clusters q are linked in order behind the file's last cluster, if any.
Linked(q, tail) ==
  [c \in Clusters |-> IF c = Last(q) THEN END_OF_CLUSTER
                      ELSE IF \E i \in 1 .. Len(q) : q[i] = c
                      THEN q[(CHOOSE i \in 1 .. Len(q) : q[i] = c) + 1]
                      ELSE IF tail # <<>> /\ c = Last(tail) THEN q[1] ELSE fat[c]]

\* Mutants: the count is raised twice, or the queue is not used.
dealloc_twice(q, f) ==
  /\ fat' = [c \in Clusters |-> IF c \in Elems(q) THEN FREE_CLUSTER ELSE f[c]]
  /\ recycled_cluster' = recycled_cluster \o q
  /\ free_cluster_cnt' = free_cluster_cnt + 2 * Len(q)

dealloc_forgetting(q, f) ==
  /\ fat' = [c \in Clusters |-> IF c \in Elems(q) THEN FREE_CLUSTER ELSE f[c]]
  /\ free_cluster_cnt' = free_cluster_cnt + Len(q)
  /\ UNCHANGED recycled_cluster

\* The clusters q are released; f is the FAT with the chain cut before them.
dealloc_cluster(q, f) ==
  /\ fat' = [c \in Clusters |-> IF c \in Elems(q) THEN FREE_CLUSTER ELSE f[c]]
  /\ recycled_cluster' = recycled_cluster \o q
  /\ free_cluster_cnt' = free_cluster_cnt + Len(q)

\* Mutant: a new cluster keeps the bytes of the file that had it before.
Uncleared == data

\* clear_cluster on every cluster that was allocated.
Cleared == [c \in Clusters |-> IF fat[c] = FREE_CLUSTER /\ fat'[c] # FREE_CLUSTER
                               THEN [i \in 0 .. (ClusterSize - 1) |-> 0] ELSE data[c]]
-----------------------------------------------------------------------------
\* Clusters that incerase_size adds so that file f holds cnt of them.
Need(f, cnt) ==
  IF sde[f].first = 0 THEN cnt
  ELSE IF cnt > Len(cluster_vec[f]) THEN cnt - Len(cluster_vec[f]) ELSE 0

\* Why incerase_size panics: no space left, a scan that leaves the volume, or a
\* VirtFile without the clusters that its entry has.
GrowPanic(f, cnt) ==
  LET need == Need(f, cnt) IN
  IF need = 0 THEN "no"
  ELSE IF free_cluster_cnt < need THEN "space"
  ELSE IF Picks(need, sde[f].first) = {} THEN "volume"
  ELSE IF sde[f].first # 0 /\ cluster_vec[f] = <<>> THEN "handle" ELSE "no"

\* incerase_size of file f to cnt clusters: the FAT and the chain.
incerase_size(f, cnt) ==
  LET need == Need(f, cnt)
      tail == IF sde[f].first = 0 THEN <<>> ELSE cluster_vec[f] IN
  \/ need = 0 /\ UNCHANGED <<table, cluster_vec>>
  \/ /\ need > 0
     /\ \E q \in Picks(need, sde[f].first) :
          /\ take(q)
          /\ fat' = Linked(q, tail)
          /\ cluster_vec' = [cluster_vec EXCEPT ![f] = tail \o q]

\* The entry of a file that has grown to n bytes.
Grown(s, n) ==
  [sde[s] EXCEPT !.first = IF @ = 0 THEN cluster_vec'[s][1] ELSE @, !.size = n]

\* Dir::create: the entry goes behind the last one, in a new cluster of the
\* directory if the others are full; the new file has no cluster.
Create(s) ==
  LET cnt == Ceil(s, SlotsPerClus) IN
  /\ Running
  /\ sde[s].state = "empty" /\ \A t \in 1 .. (s - 1) : sde[t].state # "empty"
  /\ IF GrowPanic(Root, cnt) # "no" THEN Panic(GrowPanic(Root, cnt))
     ELSE /\ incerase_size(Root, cnt)
          /\ sde' = [sde EXCEPT ![s] = Fresh]
          /\ data' = Cleared
          /\ opened' = opened \cup {s}
          /\ UNCHANGED <<halt, history>>

\* A lookup of a name that is not in the inode cache.
Open(s) ==
  /\ Running
  /\ sde[s].state = "live" /\ s \notin opened
  /\ opened' = opened \cup {s}
  /\ \E q \in Chain(fat, sde[s].first) : cluster_vec' = [cluster_vec EXCEPT ![s] = q]
  /\ UNCHANGED <<table, sde, data, halt, history>>

\* The inode is dropped: nobody has the file open, and the cache let go of it.
Close(s) ==
  /\ Running
  /\ s \in opened
  /\ opened' = opened \ {s}
  /\ cluster_vec' = [cluster_vec EXCEPT ![s] = <<>>]
  /\ moved' = moved \ {s}
  /\ UNCHANGED <<table, sde, data, halt, mounts, leaky>>

\* The bytes off .. off + len - 1 of the file with clusters q become val.
Stored(d, q, off, len, val) ==
  [c \in Clusters |-> [i \in 0 .. (ClusterSize - 1) |->
     IF \E n \in 0 .. (len - 1) : q[(off + n) \div ClusterSize + 1] = c /\ (off + n) % ClusterSize = i
     THEN val ELSE d[c][i]]]

\* Growth of a file whose entry is gone takes clusters that nobody will free.
Unlinked(s) == leaky \/ sde[s].state = "deleted"

\* VirtFile::write_at.
WriteAt(s, off, len, val) ==
  LET end == off + len
      cnt == Ceil(end, ClusterSize) IN
  /\ Running
  /\ s \in opened
  /\ IF end <= sde[s].size
     THEN IF Len(cluster_vec[s]) < cnt THEN Panic("handle")
          ELSE /\ data' = Stored(data, cluster_vec[s], off, len, val)
               /\ UNCHANGED <<table, sde, cluster_vec, opened, halt, history>>
     ELSE IF GrowPanic(s, cnt) # "no" THEN Panic(GrowPanic(s, cnt))
          ELSE /\ incerase_size(s, cnt)
               /\ sde' = [sde EXCEPT ![s] = Grown(s, end)]
               /\ data' = Stored(Cleared, cluster_vec'[s], off, len, val)
               /\ leaky' = Unlinked(s)
               /\ UNCHANGED <<opened, halt, mounts, moved>>
-----------------------------------------------------------------------------
\* modify_size to 0 is clear_content: the chain is read from the FAT, and the
\* VirtFile keeps its list of clusters.
clear_content(s) ==
  /\ \E q \in Chain(fat, sde[s].first) : dealloc_cluster(q, fat)
  /\ sde' = [sde EXCEPT ![s].first = 0, ![s].size = 0]
  /\ UNCHANGED <<cluster_vec, opened, data, halt, history>>

\* Mutants: the chain is not cut, and the clusters past the end are not released.
shrink_uncut(s, n) ==
  LET left == Ceil(n, ClusterSize)
      right == Ceil(sde[s].size, ClusterSize)
      vec == cluster_vec[s] IN
  IF Len(vec) < right THEN Panic("handle")
  ELSE /\ dealloc_cluster(SubSeq(vec, left + 1, right), fat)
       /\ cluster_vec' = [cluster_vec EXCEPT ![s] = SubSeq(vec, 1, left)]
       /\ sde' = [sde EXCEPT ![s].size = n]
       /\ UNCHANGED <<opened, data, halt, history>>

shrink_unreleased(s, n) ==
  LET left == Ceil(n, ClusterSize)
      vec == cluster_vec[s] IN
  IF Len(vec) < left THEN Panic("handle")
  ELSE /\ fat' = [fat EXCEPT ![vec[left]] = END_OF_CLUSTER]
       /\ cluster_vec' = [cluster_vec EXCEPT ![s] = SubSeq(vec, 1, left)]
       /\ sde' = [sde EXCEPT ![s].size = n]
       /\ UNCHANGED <<recycled_cluster, free_cluster_cnt, opened, data, halt, history>>

\* modify_size to fewer bytes: the clusters past the new end are released.
shrink(s, n) ==
  LET left == Ceil(n, ClusterSize)
      right == Ceil(sde[s].size, ClusterSize)
      vec == cluster_vec[s]
      freed == SubSeq(vec, left + 1, right) IN
  IF Len(vec) < right THEN Panic("handle")
  ELSE /\ dealloc_cluster(freed, [fat EXCEPT ![vec[left]] = END_OF_CLUSTER])
       /\ cluster_vec' = [cluster_vec EXCEPT ![s] = SubSeq(vec, 1, left)]
       /\ sde' = [sde EXCEPT ![s].size = n]
       /\ UNCHANGED <<opened, data, halt, history>>

grow(s, n) ==
  LET cnt == Ceil(n, ClusterSize) IN
  IF GrowPanic(s, cnt) # "no" THEN Panic(GrowPanic(s, cnt))
  ELSE /\ incerase_size(s, cnt)
       /\ sde' = [sde EXCEPT ![s] = Grown(s, n)]
       /\ data' = Cleared
       /\ leaky' = Unlinked(s)
       /\ UNCHANGED <<opened, halt, mounts, moved>>

\* VirtFile::modify_size, called by ftruncate on any open file.
ModifySize(s, n) ==
  /\ Running
  /\ s \in opened
  /\ \/ n = 0 /\ clear_content(s)
     \/ 0 < n /\ n < sde[s].size /\ shrink(s, n)
     \/ n > sde[s].size /\ grow(s, n)

\* VirtFile::clear, called by unlink: the clusters are those of the VirtFile.  A name
\* that was renamed away can be unlinked as long as the inode cache has it.
Clear(s) ==
  /\ Running
  /\ s \in opened
  /\ sde' = [sde EXCEPT ![s] = Deleted]
  /\ IF sde[s].first # 0
     THEN /\ dealloc_cluster(cluster_vec[s], fat)
          /\ cluster_vec' = [cluster_vec EXCEPT ![s] = <<>>]
     ELSE UNCHANGED <<table, cluster_vec>>
  /\ UNCHANGED <<opened, data, halt, history>>

\* KFile::rename to a new name: its entry is created, gets the first cluster and the
\* size of the old entry, and the old entry is deleted.  Neither VirtFile learns of
\* it.  Programs do not rename onto a name in use; module FileCache has that case.
Rename(s, t) ==
  LET cnt == Ceil(t, SlotsPerClus) IN
  /\ Running
  /\ s \in opened /\ sde[s].state = "live"
  /\ sde[t].state = "empty" /\ \A u \in 1 .. (t - 1) : sde[u].state # "empty"
  /\ IF GrowPanic(Root, cnt) # "no" THEN Panic(GrowPanic(Root, cnt))
     ELSE /\ incerase_size(Root, cnt)
          /\ sde' = [sde EXCEPT ![t] = sde[s], ![s] = Deleted]
          /\ data' = Cleared
          /\ opened' = opened \cup {t}
          /\ moved' = moved \cup {t}
          /\ leaky' = TRUE
          /\ UNCHANGED <<halt, mounts>>

\* A shutdown with sync_all, and FileSystem::open at the next boot.
Remount ==
  /\ Running /\ mounts < MaxMounts
  /\ mounts' = mounts + 1
  /\ recycled_cluster' = <<>>
  /\ opened' = {Root}
  /\ moved' = {}
  /\ \E q \in Chain(fat, sde[Root].first) :
       cluster_vec' = [f \in Files |-> IF f = Root THEN q ELSE <<>>]
  /\ UNCHANGED <<fat, free_cluster_cnt, sde, data, halt, leaky>>

\* A freshly formatted volume, mounted.
Init ==
  /\ fat = [c \in Clusters |-> IF c = RootCluster THEN END_OF_CLUSTER ELSE FREE_CLUSTER]
  /\ recycled_cluster = <<>>
  /\ free_cluster_cnt = LastCluster - 2
  /\ sde = [f \in Files |-> IF f = Root THEN [Fresh EXCEPT !.first = RootCluster]
                            ELSE [Fresh EXCEPT !.state = "empty"]]
  /\ cluster_vec = [f \in Files |-> IF f = Root THEN <<RootCluster>> ELSE <<>>]
  /\ opened = {Root}
  /\ data = [c \in Clusters |-> [i \in 0 .. (ClusterSize - 1) |-> 0]]
  /\ halt = "no" /\ mounts = 0 /\ moved = {} /\ leaky = FALSE

Next ==
  \/ Remount
  \/ \E s \in Slots :
       \/ Create(s) \/ Open(s) \/ Close(s) \/ Clear(s)
       \/ \E w \in Writes, val \in Byte \ {0} : WriteAt(s, w[1], w[2], val)
       \/ \E n \in Sizes : ModifySize(s, n)
       \/ \E t \in Slots : Rename(s, t)

Spec == Init /\ [][Next]_vars
-----------------------------------------------------------------------------
Link == Clusters \cup {FREE_CLUSTER, END_OF_CLUSTER}
Entry == [state : {"empty", "live", "deleted"}, first : {0} \cup Clusters, size : 0 .. MaxSize]

\* The types of the state; a list of clusters holds each at most once.
TypeOK ==
  /\ fat \in [Clusters -> Link]
  /\ recycled_cluster \in Seq(Clusters)
  /\ free_cluster_cnt \in 0 .. (LastCluster - 1)
  /\ sde \in [Files -> Entry]
  /\ cluster_vec \in [Files -> Seq(Clusters)]
  /\ opened \subseteq Files /\ moved \subseteq Slots
  /\ data \in [Clusters -> [0 .. (ClusterSize - 1) -> Byte]]
  /\ halt \in {"no", "space", "volume", "handle"}
  /\ mounts \in 0 .. MaxMounts /\ leaky \in BOOLEAN

\* No cluster is on two chains: a cluster that some entry or cluster leads to is
\* allocated, and nothing else leads to it.
ChainsApart ==
  /\ \A f, g \in Files : sde[f].first # 0 /\ sde[f].first = sde[g].first => f = g
  /\ \A c, d \in Clusters : fat[c] \in Clusters /\ fat[c] = fat[d] => c = d
  /\ \A f \in Files, c \in Clusters : fat[c] \in Clusters => fat[c] # sde[f].first
  /\ \A f \in Files : sde[f].first # 0 => fat[sde[f].first] # FREE_CLUSTER
  /\ \A c \in Clusters : fat[c] \in Clusters => fat[fat[c]] # FREE_CLUSTER

\* The recycled clusters are free, and none of them is there twice: alloc never
\* hands out a cluster that a file still has, nor the same one to two files.  The
\* count kept in FSInfo is the number of free entries of the FAT, over any number of
\* allocations, releases and remounts.
FreeIsFree ==
  /\ \A i \in 1 .. Len(recycled_cluster) : fat[recycled_cluster[i]] = FREE_CLUSTER
  /\ \A i, j \in 1 .. Len(recycled_cluster) : recycled_cluster[i] = recycled_cluster[j] => i = j
  /\ free_cluster_cnt = Cardinality({c \in Clusters : fat[c] = FREE_CLUSTER})

\* Every VirtFile that rename did not make, and whose file has clusters, has the
\* chain of the FAT in its list, of the length the size asks for.
HandleHasChain ==
  \A f \in opened \ moved :
    sde[f].first # 0 =>
      /\ IsChain(fat, sde[f].first, cluster_vec[f])
      /\ f # Root => Len(cluster_vec[f]) = Ceil(sde[f].size, ClusterSize)

\* Every allocated cluster is on the chain of an entry in use, unless a rename or
\* the growth of an unlinked file happened.
NothingLeaks ==
  leaky \/ \A c \in Clusters :
    fat[c] # FREE_CLUSTER =>
      \E f \in Files : sde[f].state = "live" /\ \E q \in Chain(fat, sde[f].first) : c \in Elems(q)

\* While the volume has not been mounted again, the upward scan for a blank
\* cluster finds one whenever the count says there is one.
ScanFinds == halt = "volume" => mounts > 0

\* get_cluster_at: the cluster at index k of the chain that starts at c.
ClusterAt(c, k) ==
  LET at[n \in 0 .. k] == IF n = 0 THEN c ELSE fat[at[n - 1]] IN at[k]

\* The content of an entry in use, read along the FAT as far as its size asks for.
FileOf(s) ==
  LET cnt == Ceil(sde[s].size, ClusterSize)
      q == [k \in 0 .. (cnt - 1) |-> ClusterAt(sde[s].first, k)] IN
  [size  |-> sde[s].size,
   bytes |-> [i \in 0 .. (cnt * ClusterSize - 1) |-> data[q[i \div ClusterSize]][i % ClusterSize]]]

Store == INSTANCE FileStore WITH
  Unit <- ClusterSize, Zero <- 0, Bytes <- Byte, Writes <- Writes,
  file <- [s \in Slots |-> IF sde[s].state = "live" THEN FileOf(s) ELSE Gone]

\* Clusters are invisible: the volume behaves as files with bytes of their own,
\* whatever the order in which clusters are taken, linked, released and reused.
FilesArePrivate == Store!Spec
=============================================================================
