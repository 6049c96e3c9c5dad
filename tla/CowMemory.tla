----------------------------- MODULE CowMemory -----------------------------
(***************************************************************************)
(* User address spaces (kernel/src/mm): frames counted by FrameTrackers,   *)
(* ELF pages mapped eagerly, stack, heap and mmap pages on their first     *)
(* fault, fork by copy on write, and the kernel's own stores into user     *)
(* buffers.  Threads share a space (CLONE_VM clones the Arc), so a space   *)
(* stands for the Arc and not for a task.  One hart runs the kernel and    *)
(* nothing preempts it, so what a call does between two suspensions is one *)
(* action.  A read that waits is several: it translates its buffer to      *)
(* frames, suspends, and stores into these frames when the bytes come,     *)
(* whatever the other threads of the space have done meanwhile.  Where the *)
(* kernel panics (no frame left, an unwrap of a missing entry) the action  *)
(* is not enabled.                                                         *)
(*                                                                         *)
(* Pages are virtual page numbers.  A leaf page table entry is ppn[v] with *)
(* flags[v] (V is "ppn[v] # NoFrame"; R, X and U are left out).  frame[v]  *)
(* is the FrameTracker held for v by the frame_map of the area v lies in.  *)
(* The frames of the page tables themselves, of kernel stacks and of       *)
(* System V shared memory are left out.  The free list is a set: which     *)
(* free frame alloc returns is left open.                                  *)
(***************************************************************************)
EXTENDS Naturals, FiniteSets

CONSTANTS
  Spaces,        \* address spaces (Arc<RwLock<MemorySet>>)
  INITPROC,      \* the space of initproc
  BUSYBOX,       \* the template space of the preloaded busybox; it never runs
  Frames,        \* physical frames between ekernel and PHYSICAL_MEM_END
  NoFrame,
  TextPages,     \* ELF segments without PF_W
  DataPages,     \* ELF segments with PF_W
  TrapPages,     \* the trap context, never copied on write
  LazyPages,     \* user stack and heap
  ArgPages,      \* the stack pages that exec fills with the arguments
  MmapStart,     \* first page of the mmap region
  MmapEnd,       \* bound: last page of the mmap region that programs use
  MmapAddrs,     \* the addresses that programs pass to mmap; 0 is "anywhere"
  Writable,      \* which of PROT_WRITE and its absence programs ask for
  ProtPages,     \* bound: the pages that programs pass to mprotect
  MmapInits,     \* what a mapping shows when first read: 0 or file content
  Byte,          \* page contents; 0 is a zeroed frame
  ElfByte,       \* content of a loaded page
  Hole,          \* content of a page that is not mapped
  Gone,          \* memory of a space that does not exist
  RefMod,        \* refcounter is a u8: 256
  Readers,       \* tasks that may be suspended in a call with a buffer to fill
  NoBuf,
  Calls          \* which of AllCalls the programs make

\* Calls that not every program makes: buffers on pages not written since fork
\* ("untouched"), MAP_FIXED and munmap of pages that were touched, mprotect of pages
\* that are shared, and fork and exec while another thread of the space is suspended
\* in a call with a buffer to fill ("suspended").
AllCalls == {"untouched", "fixed", "munmap", "mprotect", "suspended"}

MmapPages == MmapStart .. MmapEnd
ElfPages == TextPages \cup DataPages
EagerPages == ElfPages \cup TrapPages
\* Page 0 is where mmap puts a mapping asked for with a hint.
Vpns == {0} \cup EagerPages \cup LazyPages \cup MmapPages
UserPages == Vpns \ TrapPages

ASSUME PagesAssumption ==
  /\ MmapStart \in Nat \ {0} /\ MmapEnd \in Nat /\ MmapStart <= MmapEnd + 1
  /\ EagerPages \cup LazyPages \subseteq 1 .. (MmapStart - 1)
  /\ TextPages \cap DataPages = {} /\ ElfPages \cap TrapPages = {}
  /\ EagerPages \cap LazyPages = {} /\ ArgPages \subseteq LazyPages

ASSUME DataAssumption ==
  /\ {0, ElfByte} \cup MmapInits \subseteq Byte /\ Hole \notin Byte
  /\ MmapAddrs \subseteq {0} \cup MmapPages /\ Writable \subseteq BOOLEAN
  /\ ProtPages \subseteq UserPages
  /\ NoFrame \notin Frames /\ {INITPROC, BUSYBOX} \subseteq Spaces
  /\ INITPROC # BUSYBOX /\ Calls \subseteq AllCalls

\* A frame has at most one tracker in each space.
ASSUME RefAssumption ==
  /\ RefMod \in Nat
  /\ IsFiniteSet(Spaces) /\ Cardinality(Spaces) < RefMod

VARIABLES
  live,        \* spaces in use
  space,       \* MemorySet of each space
  refcounter,  \* StackFrameAllocator.refcounter, 0 where it has no entry
  free,        \* recycled, and the frames from current to end
  data,        \* content of each frame
  buf          \* UserBuffer on the kernel stack of each reader

vars == <<live, space, refcounter, free, data, buf>>
-----------------------------------------------------------------------------
\* MmapPage: prot is writable or not; valid once a frame was mapped.
NoMmap == [mapped |-> FALSE, w |-> FALSE, valid |-> FALSE, init |-> 0]
MmapPage(w, init) == [mapped |-> TRUE, w |-> w, valid |-> FALSE, init |-> init]

\* A space whose eager pages are mapped to the frames g.
Loaded(g) ==
  LET at(v) == IF v \in DOMAIN g THEN g[v] ELSE NoFrame IN
  [ppn      |-> [v \in Vpns |-> at(v)],
   flags    |-> [v \in Vpns |-> IF v \in DOMAIN g \ TextPages THEN {"W"} ELSE {}],
   frame    |-> [v \in Vpns |-> at(v)],
   mmap_map |-> [v \in Vpns |-> NoMmap],
   mmap_top |-> MmapStart]

Bare == Loaded([v \in {} |-> NoFrame])

Injections(S, T) == {g \in [S -> T] : \A v, w \in S : g[v] = g[w] => v = w}

Count(sp, f) == Cardinality({v \in Vpns : sp.frame[v] = f})

\* The trackers of new come into being, then those of old are dropped.
Retrack(old, new) ==
  LET refs(f) == (refcounter[f] + Count(new, f)) % RefMod IN
  /\ \A f \in Frames : refs(f) >= Count(old, f)
  /\ refcounter' = [f \in Frames |-> refs(f) - Count(old, f)]
  /\ free' = {f \in Frames : \/ refcounter'[f] = 0 /\ Count(old, f) > 0
                             \/ f \in free /\ Count(new, f) = 0}

\* Mutant: the tracker that is replaced is forgotten instead of dropped.
RetrackPageLeaky(f, g) ==
  /\ refcounter' = [h \in Frames |-> IF h = g THEN 1 ELSE refcounter[h]]
  /\ free' = free \ {g}

\* One page changes its tracker from frame f (or none) to frame g (or none).
RetrackPage(f, g) ==
  /\ f # NoFrame => refcounter[f] > 0
  /\ refcounter' = [h \in Frames |-> IF h = f THEN refcounter[h] - 1
                                     ELSE IF h = g THEN 1 ELSE refcounter[h]]
  /\ free' = (free \ {g}) \cup {h \in {f} \ {NoFrame} : refcounter[h] = 1}

Running(s) == s \in live \ {BUSYBOX}

\* No thread of s is suspended with a buffer to fill.
Idle(s) == \A r \in Readers : buf[r] # NoBuf => buf[r].space # s

\* The program may fork or exec: it does so at any time, or s is idle.
Quiet(s) == "suspended" \in Calls \/ Idle(s)
-----------------------------------------------------------------------------
\* Mutant: fork leaves the mapped stack and heap pages behind.
SharedNotLazy(sp, v) ==
  /\ sp.ppn[v] # NoFrame
  /\ v \in ElfPages \/ sp.mmap_map[v].valid

\* Pages that from_copy_on_write shares: ELF pages, and mapped lazy or mmap pages.
Shared(sp, v) ==
  /\ sp.ppn[v] # NoFrame
  /\ v \in ElfPages \cup LazyPages \/ sp.mmap_map[v].valid

CowFlags(sp, v) == IF Shared(sp, v) THEN (sp.flags[v] \ {"W"}) \cup {"COW"} ELSE sp.flags[v]

\* Mutant: only the child's entries lose the write permission.
CowParentWritable(sp) == sp

CowParent(sp) == [sp EXCEPT !.flags = [v \in Vpns |-> CowFlags(sp, v)]]

\* g holds the child's own frames: its trap context, and the arguments of an exec.
CowChild(sp, g) ==
  LET own(v) == v \in DOMAIN g IN
  [ppn      |-> [v \in Vpns |-> IF own(v) THEN g[v]
                                ELSE IF Shared(sp, v) THEN sp.ppn[v] ELSE NoFrame],
   flags    |-> [v \in Vpns |-> IF own(v) THEN {"W"}
                                ELSE IF Shared(sp, v) THEN CowFlags(sp, v) ELSE {}],
   frame    |-> [v \in Vpns |-> IF own(v) THEN g[v]
                                ELSE IF v \in {0} \cup MmapPages THEN sp.frame[v]
                                ELSE IF Shared(sp, v) THEN sp.ppn[v] ELSE NoFrame],
   mmap_map |-> sp.mmap_map,
   mmap_top |-> sp.mmap_top]

\* fork without CLONE_VM: the trap context is copied, everything else shared.
Fork(s, c) ==
  /\ Running(s) /\ Quiet(s) /\ c \notin live
  /\ \E g \in Injections(TrapPages, free) :
       LET child == CowChild(space[s], g) IN
       /\ live' = live \cup {c}
       /\ space' = [space EXCEPT ![s] = CowParent(space[s]), ![c] = child]
       /\ Retrack(Bare, child)
       /\ data' = [f \in Frames |->
                     IF \E v \in TrapPages : g[v] = f
                     THEN data[space[s].ppn[CHOOSE v \in TrapPages : g[v] = f]]
                     ELSE data[f]]

\* Frames g are allocated and filled.
Fill(g) == data' = [f \in Frames |-> IF \E v \in DOMAIN g : g[v] = f THEN ElfByte ELSE data[f]]

\* exec builds the new space before the old one is dropped.
Exec(s) ==
  /\ Running(s) /\ Quiet(s)
  /\ \E g \in Injections(EagerPages \cup ArgPages, free) :
       /\ space' = [space EXCEPT ![s] = Loaded(g)]
       /\ Retrack(space[s], Loaded(g))
       /\ Fill(g)
  /\ UNCHANGED live

\* exec of busybox shares the template's pages instead of loading the file.
ExecBusybox(s) ==
  /\ Running(s) /\ Quiet(s)
  /\ \E g \in Injections(TrapPages \cup ArgPages, free) :
       LET new == CowChild(space[BUSYBOX], g) IN
       /\ space' = [space EXCEPT ![s] = new, ![BUSYBOX] = CowParent(space[BUSYBOX])]
       /\ Retrack(space[s], new)
       /\ Fill(g)
  /\ UNCHANGED live

\* The last reference to the space goes; the task of a suspended thread is one.
Drop(s) ==
  /\ Running(s) /\ Idle(s) /\ s # INITPROC
  /\ live' = live \ {s}
  /\ space' = [space EXCEPT ![s] = Bare]
  /\ Retrack(space[s], Bare)
  /\ UNCHANGED data
-----------------------------------------------------------------------------
\* cow_alloc with a single reference left: the page is made writable in place.
CowReuse(s, v) ==
  /\ refcounter[space[s].ppn[v]] = 1
  /\ space' = [space EXCEPT ![s].flags[v] = (@ \ {"COW"}) \cup {"W"}]
  /\ UNCHANGED <<refcounter, free, data>>

\* Mutant: the new frame is mapped but its tracker is not stored in frame_map.
CowCopyUntracked(s, v) ==
  /\ refcounter[space[s].ppn[v]] > 1
  /\ \E f \in free :
       /\ space' = [space EXCEPT ![s].ppn[v] = f, ![s].flags[v] = @ \cup {"W"}]
       /\ data' = [data EXCEPT ![f] = data[space[s].ppn[v]]]
  /\ UNCHANGED <<refcounter, free>>

\* cow_alloc otherwise: the page moves to a new frame.  remap_cow keeps the COW bit.
CowCopy(s, v) ==
  /\ refcounter[space[s].ppn[v]] > 1
  /\ \E f \in free :
       /\ space' = [space EXCEPT ![s].ppn[v] = f, ![s].frame[v] = f,
                                 ![s].flags[v] = @ \cup {"W"}]
       /\ RetrackPage(space[s].frame[v], f)
       /\ data' = [data EXCEPT ![f] = data[space[s].ppn[v]]]

\* lazy_alloc_stack, lazy_alloc_heap and lazy_mmap: a frame with content d.
LazyMap(s, v, w, d) ==
  \E f \in free :
    /\ space' = [space EXCEPT ![s].ppn[v] = f, ![s].frame[v] = f,
                              ![s].flags[v] = IF w THEN {"W"} ELSE {},
                              ![s].mmap_map[v].valid = @ \/ v \in MmapPages]
    /\ RetrackPage(space[s].frame[v], f)
    /\ data' = [data EXCEPT ![f] = d]

\* The pages check_lazy maps, with the content and permission they get.
InMmap(s, v) == v \in MmapPages /\ v < space[s].mmap_top /\ space[s].mmap_map[v].mapped
Lazy(s, v) == space[s].ppn[v] = NoFrame /\ (v \in LazyPages \/ InMmap(s, v))
LazyByte(s, v) == IF v \in LazyPages THEN 0 ELSE space[s].mmap_map[v].init
LazyPerm(s, v) == v \in LazyPages \/ space[s].mmap_map[v].w

\* check_lazy on a page fault.  A fault it cannot serve sends SIGSEGV and changes nothing.
PageFault(s, v) ==
  /\ Running(s)
  /\ \/ /\ space[s].ppn[v] # NoFrame /\ "W" \notin space[s].flags[v]
        /\ "COW" \in space[s].flags[v]
        /\ CowReuse(s, v) \/ CowCopy(s, v)
     \/ /\ Lazy(s, v)
        /\ LazyMap(s, v, LazyPerm(s, v), LazyByte(s, v))
  /\ UNCHANGED live

\* A store of the program that the MMU lets through.
Store(s, v, d) ==
  /\ Running(s)
  /\ space[s].ppn[v] # NoFrame /\ "W" \in space[s].flags[v]
  /\ data' = [data EXCEPT ![space[s].ppn[v]] = d]
  /\ UNCHANGED <<live, space, refcounter, free>>

\* The kernel fills a user buffer in a call that does not suspend in between:
\* translated_bytes_buffer asks check_lazy only for a page that has no entry, and the
\* frame is written whatever its flags.
CopyOut(s, v, d) ==
  /\ Running(s)
  /\ \/ /\ space[s].ppn[v] # NoFrame
        /\ "untouched" \in Calls \/ "W" \in space[s].flags[v]
        /\ data' = [data EXCEPT ![space[s].ppn[v]] = d]
        /\ UNCHANGED <<space, refcounter, free>>
     \/ /\ Lazy(s, v)
        /\ LazyMap(s, v, LazyPerm(s, v), d)
  /\ UNCHANGED live

\* sys_read and sys_readv on a pipe or the terminal, and pselect: the buffer is
\* translated to frames first, and nothing holds memory_set after that.
Translate(r, s, v) ==
  /\ Running(s) /\ buf[r] = NoBuf
  /\ \/ /\ space[s].ppn[v] # NoFrame
        /\ "untouched" \in Calls \/ "W" \in space[s].flags[v]
        /\ UNCHANGED <<space, refcounter, free, data>>
     \/ /\ Lazy(s, v)
        /\ LazyMap(s, v, LazyPerm(s, v), LazyByte(s, v))
  /\ buf' = [buf EXCEPT ![r] = [space |-> s, page |-> v, frame |-> space'[s].ppn[v]]]
  /\ UNCHANGED live

\* Bytes have come: they go to the frame that was translated.
FillBuffer(r, d) ==
  /\ buf[r] # NoBuf
  /\ data' = [data EXCEPT ![buf[r].frame] = d]
  /\ buf' = [buf EXCEPT ![r] = NoBuf]
  /\ UNCHANGED <<live, space, refcounter, free>>

\* End of file, or the reader is killed.
Abandon(r) ==
  /\ buf[r] # NoBuf
  /\ buf' = [buf EXCEPT ![r] = NoBuf]
  /\ UNCHANGED <<live, space, refcounter, free, data>>
-----------------------------------------------------------------------------
\* The program may make the call on page v: it makes all such calls, or v is untouched.
Untouched(s, v, call) == call \in Calls \/ space[s].ppn[v] = NoFrame

\* MmapManager::remove drops the page and its frame; the page table entry stays.
remove(sp, v) == [sp EXCEPT !.mmap_map[v] = NoMmap, !.frame[v] = NoFrame]

\* Mutant: mmap_top is raised past the end of the mapping.
push_past(sp, v, page) ==
  [sp EXCEPT !.mmap_map[v] = page,
             !.mmap_top = IF @ <= v THEN v + 2 ELSE @]

push(sp, v, page) ==
  [sp EXCEPT !.mmap_map[v] = page,
             !.mmap_top = IF @ <= v THEN v + 1 ELSE @]

\* mmap of one page.  A hint without MAP_FIXED is taken for address 0.
Mmap(s, addr, page) ==
  LET start == IF addr = 0 THEN space[s].mmap_top ELSE 0 IN
  /\ Running(s)
  /\ start \in {0} \cup MmapPages
  /\ space' = [space EXCEPT ![s] = push(space[s], start, page)]
  /\ UNCHANGED <<live, refcounter, free, data>>

MmapFixed(s, addr, page) ==
  /\ Running(s) /\ Untouched(s, addr, "fixed")
  /\ space' = [space EXCEPT ![s] = push(remove(space[s], addr), addr, page)]
  /\ RetrackPage(space[s].frame[addr], NoFrame)
  /\ UNCHANGED <<live, data>>

Munmap(s, v) ==
  /\ Running(s) /\ Untouched(s, v, "munmap")
  /\ space' = [space EXCEPT ![s] = remove(space[s], v)]
  /\ RetrackPage(space[s].frame[v], NoFrame)
  /\ UNCHANGED <<live, data>>

\* mprotect writes the flags of a mapped page and forgets its COW bit.
Mprotect(s, v, w) ==
  /\ Running(s)
  /\ \/ /\ space[s].ppn[v] # NoFrame
        /\ "mprotect" \in Calls \/ refcounter[space[s].ppn[v]] = 1
        /\ space' = [space EXCEPT ![s].flags[v] = IF w THEN {"W"} ELSE {}]
     \/ /\ space[s].ppn[v] = NoFrame /\ InMmap(s, v)
        /\ space' = [space EXCEPT ![s].mmap_map[v].w = w]
  /\ UNCHANGED <<live, refcounter, free, data>>
-----------------------------------------------------------------------------
\* initproc and the busybox template are loaded; neither has had arguments pushed.
Init ==
  \E g \in Injections({INITPROC, BUSYBOX} \X EagerPages, Frames) :
    LET eager(s) == [v \in EagerPages |-> g[<<s, v>>]]
        used == {g[x] : x \in DOMAIN g} IN
    /\ live = {INITPROC, BUSYBOX}
    /\ space = [s \in Spaces |-> IF s \in live THEN Loaded(eager(s)) ELSE Bare]
    /\ refcounter = [f \in Frames |-> IF f \in used THEN 1 ELSE 0]
    /\ free = Frames \ used
    /\ data = [f \in Frames |-> IF f \in used THEN ElfByte ELSE 0]
    /\ buf = [r \in Readers |-> NoBuf]

Step(s) ==
  \/ Exec(s) \/ ExecBusybox(s) \/ Drop(s)
  \/ \E c \in Spaces : Fork(s, c)
  \/ \E v \in UserPages : \/ PageFault(s, v)
                          \/ \E d \in Byte : Store(s, v, d) \/ CopyOut(s, v, d)
  \/ \E v \in ProtPages, w \in Writable : Mprotect(s, v, w)
  \/ \E w \in Writable, init \in MmapInits :
       \/ \E addr \in MmapAddrs : Mmap(s, addr, MmapPage(w, init))
       \/ \E addr \in MmapPages : MmapFixed(s, addr, MmapPage(w, init))
  \/ \E v \in MmapPages : Munmap(s, v)

Read(r) ==
  \/ \E s \in Spaces, v \in UserPages : Translate(r, s, v)
  \/ \E d \in Byte : FillBuffer(r, d)
  \/ Abandon(r)

Next == \/ \E s \in Spaces : Step(s) /\ UNCHANGED buf
        \/ \E r \in Readers : Read(r)
Spec == Init /\ [][Next]_vars
-----------------------------------------------------------------------------
Owner == Frames \cup {NoFrame}
MmapEntry == [mapped : BOOLEAN, w : BOOLEAN, valid : BOOLEAN, init : Byte]
MemorySet == [ppn : [Vpns -> Owner], flags : [Vpns -> SUBSET {"W", "COW"}],
              frame : [Vpns -> Owner], mmap_map : [Vpns -> MmapEntry],
              mmap_top : MmapStart .. (MmapEnd + 1)]

UserBuffer == [space : Spaces, page : UserPages, frame : Frames]

MemoryTypes ==
  /\ live \in SUBSET Spaces
  /\ space \in [Spaces -> MemorySet]
  /\ refcounter \in [Frames -> 0 .. (RefMod - 1)]
  /\ free \in SUBSET Frames
  /\ data \in [Frames -> Byte]

BufferTypes == buf \in [Readers -> UserBuffer \cup {NoBuf}]

\* The types of the state; the counters stay within a u8.
TypeOK == MemoryTypes /\ BufferTypes

Trackers(f) == {x \in Spaces \X Vpns : space[x[1]].frame[x[2]] = f}

\* refcounter counts the FrameTrackers of every frame, and exactly the frames
\* without a tracker are free: nothing leaks and nothing is freed twice.
RefsAreTrackers ==
  \A f \in Frames : /\ refcounter[f] = Cardinality(Trackers(f))
                    /\ f \in free <=> Trackers(f) = {}

\* Every page table entry leads to a frame its own space keeps alive, so neither
\* the MMU nor cow_alloc's enquire_refcount ever meets a freed frame.
MappedIsTracked ==
  \A s \in live, v \in Vpns : space[s].ppn[v] = space[s].frame[v]

\* A frame that some page may be stored to is mapped nowhere else.
WritableIsExclusive ==
  \A s, t \in live, v, u \in Vpns :
    /\ space[s].ppn[v] # NoFrame /\ "W" \in space[s].flags[v]
    /\ space[t].ppn[u] = space[s].ppn[v]
    => s = t /\ u = v

\* After munmap the page is gone: no access reaches a page that is not mapped.
UnmappedIsInaccessible ==
  \A s \in live, v \in MmapPages :
    space[s].ppn[v] # NoFrame => space[s].mmap_map[v].mapped
-----------------------------------------------------------------------------
\* What the process sees in page v, whether or not a frame backs it yet.
View(s, v) ==
  IF space[s].ppn[v] # NoFrame THEN data[space[s].ppn[v]]
  ELSE IF Lazy(s, v) THEN LazyByte(s, v) ELSE Hole

Views(s) == [v \in UserPages |-> View(s, v)]

\* A step changes what at most one of the surviving processes sees: neither a
\* store nor a system call of one process shows in the memory of another.
OthersKeepTheirMemory ==
  [][\E s \in Spaces : \A t \in (live \cap live') \ {s} : Views(t)' = Views(t)]_vars

Image(args) ==
  [v \in UserPages |-> IF v \in ElfPages \cup args THEN ElfByte
                       ELSE IF v \in LazyPages THEN 0 ELSE Hole]

\* The memories of all spaces, as their processes see them.
Mem == [s \in Spaces |-> IF s \in live THEN Views(s) ELSE Gone]

Private == INSTANCE PrivateMemory WITH
  InitLive <- {INITPROC, BUSYBOX}, Vpns <- UserPages, Contents <- Byte \cup {Hole},
  Images <- {Image({}), Image(ArgPages)}, mem <- Mem

\* Copy on write, lazy allocation and the shared busybox pages are invisible:
\* the spaces behave as private memories that fork copies, and the bytes of a read
\* that was suspended appear in the page of the space that asked for them.
IsPrivate == Private!Spec
=============================================================================
