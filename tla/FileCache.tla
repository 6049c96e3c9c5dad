----------------------------- MODULE FileCache -----------------------------
(***************************************************************************)
(* The kernel's files over the FAT32 volume (kernel/src/fs): KFiles, the   *)
(* Inodes they share, each with a size and a page cache of its own, and    *)
(* INODE_CACHE, which finds the Inode of a path.  In the default build     *)
(* nothing is written back: a page that leaves the cache is lost.          *)
(*                                                                         *)
(* No operation suspends, so each is one action.  The volume is a root     *)
(* directory with files of at most one cluster; module Fat32 has the rest. *)
(* Entries are not reused.  Paths are names that differ in more than case. *)
(* KFiles are open for reading and writing (the access mode is not kept).  *)
(* A panic (an unwrap of a missing cluster) is not enabled.                *)
(***************************************************************************)
EXTENDS Naturals, FiniteSets

CONSTANTS
  Names,
  OnDisk,             \* the name that the volume has a file for at boot
  Descs,              \* KFiles; dup and fork share them
  Fids,               \* identifiers of the living Inodes, numbers
  INODE_CACHE_LIMIT,
  BLOCK_SIZE,
  NumSlots,           \* bound: directory entries
  MaxSize,            \* bound: bytes of a file
  DiskSize,           \* bytes of the file at boot
  Byte,               \* contents of a byte; 0 is cleared
  Lens,               \* bound: lengths of reads and writes
  Vals,               \* bound: what is written
  Seeks,              \* bound: offsets given to lseek
  Places,             \* bound: offsets given to pread64 and pwrite64
  Sizes,              \* bound: lengths given to ftruncate
  MaxMuddles,         \* bound: calls of ftruncate and renameat2
  Gone,               \* no content
  None                \* no Inode, KFile or entry

Slots == 1 .. NumSlots
Clusters == Slots
Offsets == 0 .. (MaxSize - 1)

Dirent == [state : {"live", "empty", "deleted"}, name : Names \cup {None},
           first : {0} \cup Clusters, size : 0 .. MaxSize]
Inode == [slot : Slots, vec : {0} \cup Clusters, file_size : 0 .. MaxSize,
          loaded : SUBSET Nat, page : [Offsets -> Byte]]
KFile == [fid : Fids, offset : 0 .. MaxSize, append : BOOLEAN]

ASSUME FileCacheAssumption ==
  /\ OnDisk \in Names /\ Fids \subseteq Nat /\ IsFiniteSet(Fids) /\ IsFiniteSet(Names)
  /\ INODE_CACHE_LIMIT \in Nat /\ BLOCK_SIZE \in Nat \ {0} /\ NumSlots \in Nat \ {0}
  /\ MaxSize \in Nat /\ DiskSize \in 1 .. MaxSize
  /\ {0, 1} \subseteq Byte
  /\ Lens \subseteq Nat \ {0} /\ Sizes \cup Seeks \cup Places \subseteq 0 .. MaxSize
  /\ Vals \subseteq Byte /\ MaxMuddles \in Nat
  /\ None \notin Fids \cup Names /\ None \notin Inode /\ None \notin KFile

VARIABLES
  dirent,    \* directory entries: name, first cluster and size
  free,      \* free clusters
  data,      \* content of the data area
  inode,     \* the living Inodes; vec is the cluster list of their VirtFile
  cache,     \* INODE_CACHE
  kfile,     \* the open KFiles
  muddled,   \* history: entries that ftruncate or rename changed behind their Inode
  muddles    \* history: calls of ftruncate and renameat2

history == <<muddled, muddles>>
vars == <<dirent, free, data, inode, cache, kfile, history>>

Entry(n) == [state |-> "live", name |-> n, first |-> 0, size |-> 0]
Empty == [state |-> "empty", name |-> None, first |-> 0, size |-> 0]
Deleted == [state |-> "deleted", name |-> None, first |-> 0, size |-> 0]
Zeros == [i \in Offsets |-> 0]
Least(S) == CHOOSE x \in S : \A y \in S : x <= y

\* What the operations below change, as one value.
Now == [dirent |-> dirent, free |-> free, inode |-> inode, cache |-> cache]
Become(st) ==
  /\ dirent' = st.dirent /\ free' = st.free
  /\ inode' = st.inode /\ cache' = st.cache
-----------------------------------------------------------------------------
\* ROOT_INODE.find.
Found(st, n) == {s \in Slots : st.dirent[s].state = "live" /\ st.dirent[s].name = n}

\* The Inodes that KFiles hold, those that the running call opened included.
Held(kf, own) == own \cup {kf[d].fid : d \in {e \in Descs : kf[e] # None}}

\* An Inode lives as long as the cache or a KFile has it.
Living(st, held) ==
  [st EXCEPT !.inode = [f \in Fids |-> IF f \in held \/ \E n \in Names : st.cache[n] = f
                                       THEN st.inode[f] ELSE None]]

\* Mutant: the strong count is not looked at.
shrink_all(st, held) == [st EXCEPT !.cache = [n \in Names |-> None]]

\* InodeCache::shrink: the paths go whose Inode nobody but the cache has.
shrink(st, held) ==
  [st EXCEPT !.cache = [n \in Names |-> IF st.cache[n] \in held THEN st.cache[n] ELSE None]]

\* InodeCache::insert.
insert(st, n, f, held) ==
  LET in == [st EXCEPT !.cache[n] = f] IN
  IF Cardinality({m \in Names : in.cache[m] # None}) > INODE_CACHE_LIMIT
  THEN shrink(in, held) ELSE in

\* A new Inode f for the file of entry s, under path n.
NewInode(st, n, s, f, held) ==
  insert([st EXCEPT !.inode[f] = [slot |-> s, vec |-> st.dirent[s].first,
                                  file_size |-> st.dirent[s].size, loaded |-> {}, page |-> Zeros]],
         n, f, held \cup {f})

\* VirtFile::clear: the entry goes, and the clusters that the VirtFile lists.
clear(st, s, vec) ==
  [st EXCEPT !.dirent[s] = Deleted,
             !.free = IF st.dirent[s].first # 0 THEN @ \cup ({vec} \ {0}) ELSE @]

\* open: the Inode in the cache, or one for the file that is found, or for a new
\* file.  O_TRUNC clears a file that is found, unless it is in the cache or O_CREAT
\* is there too; its entry is gone then.  held are the Inodes in use.
open(st, n, creat, trunc, held) ==
  LET f == Least({g \in Fids : st.inode[g] = None})
      s == Least(Found(st, n))
      t == Least({u \in Slots : st.dirent[u].state = "empty"})
      cleared == IF trunc /\ ~ creat THEN clear(st, s, st.dirent[s].first) ELSE st
      created == [st EXCEPT !.dirent[t] = Entry(n)] IN
  IF st.cache[n] # None THEN st
  ELSE IF Found(st, n) # {} THEN NewInode(cleared, n, s, f, held)
  ELSE NewInode(created, n, t, f, held)

\* open does not fail: ENOENT, and the bounds on entries and living Inodes.
CanOpen(st, n, creat) ==
  \/ st.cache[n] # None
  \/ /\ Found(st, n) # {} \/ (creat /\ \E u \in Slots : st.dirent[u].state = "empty")
     /\ \E g \in Fids : st.inode[g] = None

\* The Inode that open gives for path n.
Opened(old, n) ==
  IF old.cache[n] # None THEN old.cache[n] ELSE Least({g \in Fids : old.inode[g] = None})

\* sys_openat.  The flags are forgotten when O_CREAT misses the cache.
Open(d, n, creat, trunc, append) ==
  LET st == open(Now, n, creat, trunc, Held(kfile, {}))
      f == Opened(Now, n) IN
  /\ kfile[d] = None
  /\ CanOpen(Now, n, creat)
  /\ kfile' = [kfile EXCEPT ![d] = [fid |-> f, offset |-> 0,
                                    append |-> append /\ (cache[n] # None \/ ~ creat)]]
  /\ Become(Living(st, Held(kfile', {})))
  /\ UNCHANGED <<data, history>>

\* sys_openat at the limit of the descriptors: EMFILE comes after the open.
\* Below the limit it would be Open and Close.
OpenNoFd(n, creat, trunc) ==
  /\ \A d \in Descs : kfile[d] # None
  /\ CanOpen(Now, n, creat)
  /\ Become(Living(open(Now, n, creat, trunc, Held(kfile, {})), Held(kfile, {})))
  /\ UNCHANGED <<data, kfile, history>>

\* sys_close of the last descriptor of a KFile.
Close(d) ==
  /\ kfile[d] # None
  /\ kfile' = [kfile EXCEPT ![d] = None]
  /\ Become(Living(Now, Held(kfile', {})))
  /\ UNCHANGED <<data, history>>
-----------------------------------------------------------------------------
\* VirtFile::read_at of one byte; past the clusters the buffer keeps its zeros.
Virt(f, i) == IF inode[f].vec = 0 THEN 0 ELSE data[inode[f].vec][i]

Blocks(off, end) == {i \div BLOCK_SIZE : i \in off .. (end - 1)}

\* load_buffer_if_needed for the blocks in set.
load_buffer_if_needed(f, set) ==
  [inode[f] EXCEPT !.loaded = @ \cup set,
                   !.page = [i \in Offsets |-> IF i \div BLOCK_SIZE \in set \ inode[f].loaded
                                               THEN Virt(f, i) ELSE inode[f].page[i]]]

\* Mutant: a block that will be written is not loaded before.
mark_buffer_dirty_unloaded(f, set) == [inode[f] EXCEPT !.loaded = @ \cup set]

\* mark_buffer_dirty_if_needed.
mark_buffer_dirty_if_needed(f, set) == load_buffer_if_needed(f, set)

\* read_to_ubuf and pread of what sys_read asks for: blocks are loaded.
Get(f, off, len) ==
  LET end == IF off + len < inode[f].file_size THEN off + len ELSE inode[f].file_size IN
  IF off >= inode[f].file_size THEN [inode |-> inode[f], end |-> off]
  ELSE [inode |-> load_buffer_if_needed(f, Blocks(off, end)), end |-> end]

\* write_from_ubuf and pwrite: the pages and the size of the Inode change.
Put(f, off, len, val) ==
  LET end == off + len
      i == mark_buffer_dirty_if_needed(f, Blocks(off, end)) IN
  [i EXCEPT !.page = [k \in Offsets |-> IF k \in off .. (end - 1) THEN val ELSE i.page[k]],
            !.file_size = IF @ < end THEN end ELSE @]

\* sys_read.
Read(d, len) ==
  /\ kfile[d] # None
  /\ LET got == Get(kfile[d].fid, kfile[d].offset, len) IN
     /\ inode' = [inode EXCEPT ![kfile[d].fid] = got.inode]
     /\ kfile' = [kfile EXCEPT ![d].offset = got.end]
  /\ UNCHANGED <<dirent, free, data, cache, history>>

\* sys_pread64.
Pread(d, off, len) ==
  /\ kfile[d] # None
  /\ inode' = [inode EXCEPT ![kfile[d].fid] = Get(kfile[d].fid, off, len).inode]
  /\ UNCHANGED <<dirent, free, data, cache, kfile, history>>

\* Where a write through KFile d goes that asks for offset off.
WriteTo(d, off) == IF kfile[d].append THEN inode[kfile[d].fid].file_size ELSE off

\* sys_write.
Write(d, len, val) ==
  /\ kfile[d] # None
  /\ LET off == WriteTo(d, kfile[d].offset) IN
     /\ off + len <= MaxSize
     /\ inode' = [inode EXCEPT ![kfile[d].fid] = Put(kfile[d].fid, off, len, val)]
     /\ kfile' = [kfile EXCEPT ![d].offset = off + len]
  /\ UNCHANGED <<dirent, free, data, cache, history>>

\* sys_pwrite64.
Pwrite(d, off, len, val) ==
  /\ kfile[d] # None
  /\ LET at == WriteTo(d, off) IN
     /\ at + len <= MaxSize
     /\ inode' = [inode EXCEPT ![kfile[d].fid] = Put(kfile[d].fid, at, len, val)]
  /\ UNCHANGED <<dirent, free, data, cache, kfile, history>>

\* sys_lseek.
Lseek(d, off) ==
  /\ kfile[d] # None
  /\ kfile' = [kfile EXCEPT ![d].offset = off]
  /\ UNCHANGED <<dirent, free, data, inode, cache, history>>
-----------------------------------------------------------------------------
\* sys_unlinkat: the path is opened, leaves the cache, and the file is cleared.
Unlink(n) ==
  LET st == open(Now, n, FALSE, FALSE, Held(kfile, {}))
      f == Opened(Now, n)
      i == st.inode[f]
      vec == IF st.dirent[i.slot].first # 0 THEN 0 ELSE i.vec
      gone == [st EXCEPT !.cache[n] = None, !.inode[f].vec = vec] IN
  /\ CanOpen(Now, n, FALSE)
  /\ Become(Living(clear(gone, i.slot, i.vec), Held(kfile, {})))
  /\ UNCHANGED <<data, kfile, history>>

Muddle(slots) ==
  /\ muddles < MaxMuddles /\ muddles' = muddles + 1
  /\ muddled' = muddled \cup slots

\* sys_ftruncate64: the entry and the clusters change; the Inode does not learn of it.
Truncate(d, n) ==
  LET f == kfile[d].fid
      s == inode[f].slot
      old == dirent[s] IN
  /\ kfile[d] # None
  /\ Muddle({s})
  /\ \/ /\ n = 0
        /\ free' = free \cup ({old.first} \ {0})
        /\ dirent' = [dirent EXCEPT ![s].first = 0, ![s].size = 0]
        /\ UNCHANGED <<data, inode>>
     \/ /\ 0 < n /\ n # old.size /\ old.first # 0 /\ inode[f].vec # 0
        /\ dirent' = [dirent EXCEPT ![s].size = n]
        /\ UNCHANGED <<free, data, inode>>
     \/ /\ n > old.size /\ old.first = 0
        /\ \E c \in free :
             /\ free' = free \ {c}
             /\ data' = [data EXCEPT ![c] = Zeros]
             /\ dirent' = [dirent EXCEPT ![s].first = c, ![s].size = n]
             /\ inode' = [inode EXCEPT ![f].vec = c]
  /\ UNCHANGED <<cache, kfile>>

\* sys_renameat2: both paths are opened; the entry of the new one gets the clusters
\* and the size of the old, which is deleted.  Neither Inode and neither path in the
\* cache changes.
Rename(a, b) ==
  LET st == open(Now, a, FALSE, FALSE, Held(kfile, {}))
      fa == Opened(Now, a)
      to == open(st, b, TRUE, FALSE, Held(kfile, {fa}))
      fb == Opened(st, b)
      sa == to.inode[fa].slot
      sb == to.inode[fb].slot IN
  /\ a # b
  /\ CanOpen(Now, a, FALSE) /\ CanOpen(st, b, TRUE)
  /\ Become(Living([to EXCEPT !.dirent[sb].first = to.dirent[sa].first,
                              !.dirent[sb].size = to.dirent[sa].size,
                              !.dirent[sa] = Deleted], Held(kfile, {})))
  /\ Muddle({sa, sb})
  /\ UNCHANGED <<data, kfile>>

Init ==
  /\ dirent = [s \in Slots |-> IF s = 1 THEN [Entry(OnDisk) EXCEPT !.first = 1, !.size = DiskSize]
                               ELSE Empty]
  /\ free = Clusters \ {1}
  /\ data = [c \in Clusters |-> [i \in Offsets |-> IF c = 1 /\ i < DiskSize THEN 1 ELSE 0]]
  /\ inode = [f \in Fids |-> None]
  /\ cache = [n \in Names |-> None]
  /\ kfile = [d \in Descs |-> None]
  /\ muddled = {} /\ muddles = 0

\* O_TRUNC adds nothing to O_CREAT.
Flags == {fl \in [creat : BOOLEAN, trunc : BOOLEAN] : ~ (fl.creat /\ fl.trunc)}

Next ==
  \/ \E n \in Names, fl \in Flags : OpenNoFd(n, fl.creat, fl.trunc)
  \/ \E n \in Names : Unlink(n) \/ \E m \in Names : Rename(n, m)
  \/ \E d \in Descs :
       \/ \E n \in Names, fl \in Flags, append \in BOOLEAN : Open(d, n, fl.creat, fl.trunc, append)
       \/ Close(d)
       \/ \E off \in Seeks : Lseek(d, off)
       \/ \E n \in Sizes : Truncate(d, n)
       \/ \E len \in Lens :
            \/ Read(d, len)
            \/ \E val \in Vals : Write(d, len, val)
            \/ \E off \in Places : Pread(d, off, len) \/ \E val \in Vals : Pwrite(d, off, len, val)

Spec == Init /\ [][Next]_vars
-----------------------------------------------------------------------------
\* An open file whose entry is in use is in INODE_CACHE under the name of the entry:
\* whoever opens the name gets the same Inode, and no file has two of them, whatever
\* the order of opens, closes, unlinks, renames and evictions.
OpenIsCached ==
  /\ \A d \in Descs :
       kfile[d] # None /\ dirent[inode[kfile[d].fid].slot].state = "live" =>
         cache[dirent[inode[kfile[d].fid].slot].name] = kfile[d].fid
  /\ \A f, g \in Fids : inode[f] # None /\ inode[g] # None /\ inode[f].slot = inode[g].slot => f = g

\* The file that the volume has, and the one that reads see.
OnVolume(s) ==
  [size |-> dirent[s].size,
   bytes |-> [i \in 0 .. (dirent[s].size - 1) |-> data[dirent[s].first][i]]]

Seen(f) ==
  [size |-> inode[f].file_size,
   bytes |-> [i \in 0 .. (inode[f].file_size - 1) |->
                IF i \div BLOCK_SIZE \in inode[f].loaded THEN inode[f].page[i] ELSE Virt(f, i)]]

InodesOf(s) == {f \in Fids : inode[f] # None /\ inode[f].slot = s}
File(s) ==
  IF dirent[s].state # "live" \/ s \in muddled THEN Gone
  ELSE IF InodesOf(s) = {} THEN OnVolume(s) ELSE Seen(Least(InodesOf(s)))

Store == INSTANCE FileStore WITH
  Unit <- 1, Zero <- 0, Bytes <- Byte, Writes <- Offsets \X Lens, file <- [s \in Slots |-> File(s)]

IsOpen(s) == \E d \in Descs : kfile[d] # None /\ inode[kfile[d].fid].slot = s

\* Files behave as bytes that all who open them share: a step creates a file,
\* removes it or writes it as FileStore says and changes no other.  The exceptions
\* are a file that nobody has open, which is what the volume has once the cache drops
\* it, and one whose entry ftruncate or rename has changed behind its Inode.
FilesAreShared ==
  [][\A s \in Slots :
       LET old == File(s)
           new == File(s)' IN
       old # new =>
         \/ Store!Create(old, new) \/ Store!Remove(old, new)
         \/ Store!Write(old, new) /\ \A t \in Slots \ {s} : File(t)' = File(t)
         \/ ~ IsOpen(s) /\ InodesOf(s)' = {} /\ new = OnVolume(s)']_vars
=============================================================================
