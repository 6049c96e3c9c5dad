------------------------ MODULE CowMemoryRefinement ------------------------
(***************************************************************************)
(* CowMemory implements PrivateMemory, for any number of spaces, pages and *)
(* frames, while the programs do nothing of AllCalls.                      *)
(***************************************************************************)
EXTENDS CowMemoryProofs

\* What a process sees in page v of a space sp when the frames hold d.
Look(sp, d, v) ==
  IF sp.ppn[v] # NoFrame THEN d[sp.ppn[v]]
  ELSE IF v \in LazyPages THEN 0
  ELSE IF v \in MmapPages /\ v < sp.mmap_top /\ sp.mmap_map[v].mapped THEN sp.mmap_map[v].init
  ELSE Hole

\* mmap pages lie below mmap_top: raising it makes no other page visible.
Fits(sp) == \A v \in MmapPages : sp.mmap_map[v].mapped => v < sp.mmap_top

\* No program calls what takes a shared frame or a touched page from another, or forks or
\* calls exec in a process that has a thread waiting in a read.
Plain == Calls = {}

\* What refinement needs besides IInv and TInv: the template of busybox stays as loaded,
\* whoever shares its pages.
VInv ==
  /\ \A s \in Spaces : Fits(space[s])
  /\ \A v \in UserPages : View(BUSYBOX, v) = Image({})[v]

\* The frames that suspended reads will store into are still those of the pages they were
\* asked to fill, and no other space has them.
Alone(s, f) == \A t \in Spaces \ {s} : ~ Holds(space[t], f)

Reserved(b) ==
  /\ b.space \in live \ {BUSYBOX} /\ b.page \in UserPages /\ b.frame # NoFrame
  /\ space[b.space].ppn[b.page] = b.frame /\ Alone(b.space, b.frame)

PInv == \A r \in Readers : buf[r] # NoBuf => Reserved(buf[r])

\* The step leaves what t sees alone.
Alike(t) == \A v \in UserPages : View(t, v)' = View(t, v)

\* The step changes one page of s, or none, and no other space.
Touches(s) ==
  /\ live' = live
  /\ \A t \in Spaces \ {s} : Alike(t)
  /\ \E v \in UserPages : /\ View(s, v)' \in Byte \cup {Hole}
                          /\ \A u \in UserPages \ {v} : View(s, u)' = View(s, u)

FitsNext == \A t \in Spaces : Fits(space'[t])
-----------------------------------------------------------------------------
LEMMA ViewIs ==
  ASSUME NEW s \in Spaces, NEW v
  PROVE  View(s, v) = Look(space[s], data, v) /\ View(s, v)' = Look(space'[s], data', v)
<1>1. View(s, v) = Look(space[s], data, v)
  BY DEF View, Look, Lazy, InMmap, LazyByte
<1>2. View(s, v)' = Look(space'[s], data', v)
  BY DEF View, Look, Lazy, InMmap, LazyByte
<1> QED
  BY <1>1, <1>2

LEMMA PlainTame ==
  ASSUME Plain
  PROVE  Tame
  BY DEF Plain, Tame

LEMMA UserFacts ==
  /\ UserPages \subseteq Vpns /\ MapPages \subseteq UserPages /\ MmapPages \subseteq MapPages
  /\ LazyPages \subseteq UserPages /\ ElfPages \subseteq UserPages /\ 0 \in MapPages
  /\ UserPages = MapPages \cup ElfPages \cup LazyPages /\ UserPages \cap TrapPages = {}
  /\ (ElfPages \cup LazyPages) \cap MapPages = {} /\ ArgPages \subseteq LazyPages
<1>1. TrapPages \subseteq EagerPages /\ MapPages \subseteq Vpns /\ 0 \in MapPages /\ MmapPages \subseteq MapPages
  BY PageFacts DEF MapPages
<1> QED
  BY <1>1, PageFacts DEF UserPages

\* What a tracked space has mapped it holds, and tracks once.
LEMMA Mapped ==
  ASSUME IInv, TInv, NEW t \in Spaces, NEW v \in Vpns, space[t].ppn[v] # NoFrame
  PROVE  /\ space[t].ppn[v] \in Frames /\ Holds(space[t], space[t].ppn[v])
         /\ space[t].ppn[v] \notin free
         /\ \A u \in Vpns : space[t].ppn[u] = space[t].ppn[v] => u = v
<1>1. space[t].ppn[v] \in Frames
  BY Facts DEF Owner
<1>2. \A u \in Vpns : space[t].ppn[u] = space[t].frame[u]
  BY Facts DEF TInv, Tracked, Sound
<1>3. Holds(space[t], space[t].ppn[v])
  BY <1>2 DEF Holds
<1>4. \A u \in Vpns : space[t].ppn[u] = space[t].ppn[v] => u = v
  BY <1>2, Facts DEF Once
<1> QED
  BY <1>1, <1>3, <1>4, Facts

\* A space whose entries and whose frames keep their content looks the same.
LEMMA SameLook ==
  ASSUME IInv, TInv, NEW t \in Spaces, NEW sp, NEW v \in Vpns,
         sp.ppn[v] = space[t].ppn[v], sp.mmap_map[v] = space[t].mmap_map[v],
         sp.mmap_top = space[t].mmap_top,
         \A f \in Frames : Holds(space[t], f) => data'[f] = data[f]
  PROVE  Look(sp, data', v) = Look(space[t], data, v)
<1>1. CASE space[t].ppn[v] # NoFrame
  BY <1>1, Mapped DEF Look
<1>2. CASE space[t].ppn[v] = NoFrame
  BY <1>2 DEF Look
<1> QED
  BY <1>1, <1>2

LEMMA LookTypes ==
  ASSUME IInv, NEW t \in Spaces, NEW v \in Vpns
  PROVE  Look(space[t], data, v) \in Byte \cup {Hole}
<1>1. space[t].ppn[v] # NoFrame => data[space[t].ppn[v]] \in Byte
  BY Facts DEF Owner
<1>2. space[t].mmap_map[v].init \in Byte
  <2>1. space[t].mmap_map[v] \in MmapEntry
    BY Facts
  <2> QED
    BY <2>1 DEF MmapEntry
<1> QED
  BY <1>1, <1>2, DataAssumption DEF Look

\* One space changes what one page shows.
LEMMA PageChange ==
  ASSUME IInv, TInv, VInv, NEW s \in Spaces, NEW sp, space' = [space EXCEPT ![s] = sp], live' = live,
         NEW v \in UserPages, Fits(sp), Look(sp, data', v) \in Byte \cup {Hole},
         \A u \in UserPages \ {v} : Look(sp, data', u) = Look(space[s], data, u),
         \A t \in Spaces \ {s}, f \in Frames : Holds(space[t], f) => data'[f] = data[f]
  PROVE  Touches(s) /\ FitsNext
<1>1. \A t \in Spaces : space'[t] = IF t = s THEN sp ELSE space[t]
  BY Facts
<1>2. FitsNext
  BY <1>1 DEF FitsNext, VInv
<1>3. ASSUME NEW t \in Spaces \ {s}, NEW u \in UserPages
      PROVE  View(t, u)' = View(t, u)
  <2>1. u \in Vpns
    BY UserFacts
  <2>2. space'[t] = space[t]
    BY <1>1
  <2>3. Look(space[t], data', u) = Look(space[t], data, u)
    BY <2>1, SameLook
  <2> QED
    BY <2>2, <2>3, ViewIs
<1>4. \A u \in UserPages : View(s, u)' = Look(sp, data', u) /\ View(s, u) = Look(space[s], data, u)
  BY <1>1, ViewIs
<1> QED
  BY <1>2, <1>3, <1>4 DEF Touches, Alike
-----------------------------------------------------------------------------
(* Steps that change one page *)

\* A page that may be stored to is alone on its frame.
LEMMA WritableAlone ==
  ASSUME TInv, NEW s \in Spaces, NEW v \in UserPages,
         space[s].ppn[v] # NoFrame, "W" \in space[s].flags[v]
  PROVE  Alone(s, space[s].ppn[v])
  BY UserFacts DEF TInv, Exclusive, Alone

\* A store into a frame that no other space has.
LEMMA ExclusiveStore ==
  ASSUME IInv, TInv, VInv, NEW s \in Spaces, NEW v \in UserPages, NEW d \in Byte,
         space[s].ppn[v] # NoFrame, Alone(s, space[s].ppn[v]),
         data' = [data EXCEPT ![space[s].ppn[v]] = d], UNCHANGED <<live, space>>
  PROVE  Touches(s) /\ FitsNext
<1> DEFINE f == space[s].ppn[v]
           sp == space[s]
<1>1. v \in Vpns /\ UserPages \subseteq Vpns
  BY UserFacts
<1>2. f \in Frames /\ Holds(sp, f) /\ \A u \in Vpns : sp.ppn[u] = f => u = v
  BY <1>1, Mapped
<1>3. \A t \in Spaces \ {s} : ~ Holds(space[t], f)
  BY DEF Alone
<1>4. \A h \in Frames : data'[h] = IF h = f THEN d ELSE data[h]
  BY Facts
<1>5. Look(sp, data', v) = d
  BY <1>2, <1>4 DEF Look
<1>6. ASSUME NEW u \in UserPages \ {v}
      PROVE  Look(sp, data', u) = Look(sp, data, u)
  <2>1. CASE sp.ppn[u] # NoFrame
    <3>1. sp.ppn[u] \in Frames /\ sp.ppn[u] # f
      BY <1>1, <1>2, <2>1, Mapped
    <3> QED
      BY <2>1, <3>1, <1>4 DEF Look
  <2>2. CASE sp.ppn[u] = NoFrame
    BY <2>2 DEF Look
  <2> QED
    BY <2>1, <2>2
<1>7. space' = [space EXCEPT ![s] = sp] /\ Fits(sp) /\ live' = live
  BY Facts DEF VInv
<1>8. \A t \in Spaces \ {s}, h \in Frames : Holds(space[t], h) => data'[h] = data[h]
  BY <1>3, <1>4
<1> HIDE DEF f, sp
<1>9. \A u \in UserPages \ {v} : Look(sp, data', u) = Look(space[s], data, u)
  BY <1>6 DEF sp
<1> QED
  BY <1>5, <1>7, <1>8, <1>9, PageChange

\* Space new is old with page v on frame f.
Moved(old, new, v, f) ==
  /\ new.ppn[v] = f /\ new.mmap_top = old.mmap_top
  /\ new.mmap_map[v].mapped = old.mmap_map[v].mapped
  /\ \A u \in Vpns \ {v} : new.ppn[u] = old.ppn[u] /\ new.mmap_map[u] = old.mmap_map[u]

\* A new frame that is filled with d gives page v the content d.
LEMMA NewPage ==
  ASSUME IInv, TInv, VInv, NEW s \in Spaces, NEW v \in UserPages, NEW f \in free, NEW d \in Byte,
         NEW sp, space' = [space EXCEPT ![s] = sp], live' = live, data' = [data EXCEPT ![f] = d],
         Moved(space[s], sp, v, f)
  PROVE  Touches(s) /\ FitsNext
<1>1. v \in Vpns /\ UserPages \subseteq Vpns /\ MmapPages \subseteq Vpns
  BY UserFacts
<1>2. f \in Frames /\ f # NoFrame /\ \A t \in Spaces : ~ Holds(space[t], f)
  BY Facts
<1>3. \A h \in Frames : data'[h] = IF h = f THEN d ELSE data[h]
  BY <1>2, Facts
<1>4. \A t \in Spaces, h \in Frames : Holds(space[t], h) => data'[h] = data[h]
  BY <1>2, <1>3
<1>5. Look(sp, data', v) = d
  BY <1>2, <1>3 DEF Look, Moved
<1>6. ASSUME NEW u \in UserPages \ {v}
      PROVE  Look(sp, data', u) = Look(space[s], data, u)
  <2>1. /\ u \in Vpns /\ sp.ppn[u] = space[s].ppn[u] /\ sp.mmap_map[u] = space[s].mmap_map[u]
        /\ sp.mmap_top = space[s].mmap_top
    BY <1>1 DEF Moved
  <2>2. \A h \in Frames : Holds(space[s], h) => data'[h] = data[h]
    BY <1>4
  <2> QED
    BY <2>1, <2>2, SameLook
<1>7. Fits(sp)
  BY <1>1 DEF VInv, Fits, Moved
<1>8. Look(sp, data', v) \in Byte \cup {Hole}
  BY <1>5
<1>9. \A t \in Spaces \ {s}, h \in Frames : Holds(space[t], h) => data'[h] = data[h]
  BY <1>4
<1> QED
  BY <1>6, <1>7, <1>8, <1>9, PageChange

\* A space changes and the frames do not: what it sees changes in one page.
LEMMA EntryChange ==
  ASSUME IInv, TInv, VInv, NEW s \in Spaces, NEW v \in UserPages, NEW sp,
         space' = [space EXCEPT ![s] = sp], UNCHANGED <<live, data>>, Fits(sp),
         Look(sp, data, v) \in Byte \cup {Hole},
         \A u \in UserPages \ {v} : Look(sp, data, u) = Look(space[s], data, u)
  PROVE  Touches(s) /\ FitsNext
<1>1. data' = data
  OBVIOUS
<1>2. /\ Look(sp, data', v) \in Byte \cup {Hole} /\ live' = live
      /\ \A u \in UserPages \ {v} : Look(sp, data', u) = Look(space[s], data, u)
      /\ \A t \in Spaces \ {s}, f \in Frames : Holds(space[t], f) => data'[f] = data[f]
  BY <1>1
<1> QED
  BY <1>2, PageChange

\* A lazy page gets the content it was seen to have, or what the kernel stores in it.
LEMMA LazyTouches ==
  ASSUME IInv, TInv, VInv, NEW s \in Spaces, NEW v \in UserPages, NEW w, NEW d \in Byte,
         LazyMap(s, v, w, d), live' = live
  PROVE  Touches(s) /\ FitsNext
<1> DEFINE sp == space[s]
           mm == [sp.mmap_map[v] EXCEPT !.valid = @ \/ v \in MmapPages]
<1>1. v \in Vpns /\ sp \in MemorySet
  BY UserFacts, Facts
<1>2. PICK f \in free :
        /\ space' = [space EXCEPT ![s].ppn[v] = f, ![s].frame[v] = f,
                                  ![s].flags[v] = IF w THEN {"W"} ELSE {},
                                  ![s].mmap_map[v].valid = @ \/ v \in MmapPages]
        /\ data' = [data EXCEPT ![f] = d]
  BY DEF LazyMap
<1> DEFINE new == [sp EXCEPT !.ppn[v] = f, !.frame[v] = f, !.flags[v] = IF w THEN {"W"} ELSE {},
                             !.mmap_map[v] = mm]
<1>3. space' = [space EXCEPT ![s] = new]
  BY <1>1, <1>2, Facts DEF MemorySet
<1>4. sp.mmap_map \in [Vpns -> MmapEntry] /\ sp.ppn \in [Vpns -> Owner]
  BY <1>1 DEF MemorySet
<1>5. mm.mapped = sp.mmap_map[v].mapped
  <2>1. sp.mmap_map[v] \in MmapEntry
    BY <1>1, <1>4
  <2> QED
    BY <2>1 DEF MmapEntry
<1> HIDE DEF mm
<1>6. /\ new.ppn = [sp.ppn EXCEPT ![v] = f] /\ new.mmap_map = [sp.mmap_map EXCEPT ![v] = mm]
      /\ new.mmap_top = sp.mmap_top
  BY <1>1 DEF MemorySet
<1> HIDE DEF new
<1>7. Moved(space[s], new, v, f)
  BY <1>1, <1>4, <1>5, <1>6 DEF Moved
<1>8. data' = [data EXCEPT ![f] = d]
  BY <1>2
<1> QED
  BY <1>3, <1>7, <1>8, NewPage

LEMMA FaultTouches ==
  ASSUME IInv, TInv, VInv, NEW s \in Spaces, NEW v \in UserPages, PageFault(s, v)
  PROVE  Touches(s) /\ FitsNext
<1> DEFINE sp == space[s]
<1>1. v \in Vpns /\ live' = live /\ sp \in MemorySet /\ UserPages \subseteq Vpns
  BY UserFacts, Facts DEF PageFault
<1>2. CASE CowReuse(s, v)
  <2> DEFINE new == [sp EXCEPT !.flags[v] = (@ \ {"COW"}) \cup {"W"}]
  <2>1. space' = [space EXCEPT ![s] = new] /\ UNCHANGED <<live, data>>
    BY <1>1, <1>2, Facts DEF CowReuse
  <2>2. new.ppn = sp.ppn /\ new.mmap_map = sp.mmap_map /\ new.mmap_top = sp.mmap_top
    BY <1>1 DEF MemorySet
  <2> HIDE DEF new
  <2>3. \A u \in UserPages : Look(new, data, u) = Look(sp, data, u)
    BY <2>2 DEF Look
  <2>4. Fits(new) /\ Look(new, data, v) \in Byte \cup {Hole}
    BY <1>1, <2>2, <2>3, LookTypes DEF VInv, Fits
  <2> QED
    BY <2>1, <2>3, <2>4, EntryChange
<1>3. CASE sp.ppn[v] # NoFrame /\ CowCopy(s, v)
  <2>1. PICK f \in free :
          /\ space' = [space EXCEPT ![s].ppn[v] = f, ![s].frame[v] = f, ![s].flags[v] = @ \cup {"W"}]
          /\ data' = [data EXCEPT ![f] = data[sp.ppn[v]]]
    BY <1>3 DEF CowCopy
  <2> DEFINE new == [sp EXCEPT !.ppn[v] = f, !.frame[v] = f, !.flags[v] = @ \cup {"W"}]
             d == data[sp.ppn[v]]
  <2>2. space' = [space EXCEPT ![s] = new] /\ data' = [data EXCEPT ![f] = d]
    BY <1>1, <2>1, Facts DEF MemorySet
  <2>3. d \in Byte
    BY <1>1, <1>3, Facts DEF Owner
  <2>4. /\ new.ppn = [sp.ppn EXCEPT ![v] = f] /\ new.mmap_map = sp.mmap_map
        /\ new.mmap_top = sp.mmap_top /\ sp.ppn \in [Vpns -> Owner]
    BY <1>1 DEF MemorySet
  <2> HIDE DEF new, d
  <2>5. Moved(space[s], new, v, f)
    BY <1>1, <2>4 DEF Moved
  <2>6. live' = live
    BY <1>1
  <2> QED
    BY <2>2, <2>3, <2>5, <2>6, NewPage
<1>4. CASE LazyMap(s, v, LazyPerm(s, v), LazyByte(s, v))
  <2> DEFINE w == LazyPerm(s, v)
             d == LazyByte(s, v)
  <2>1. d \in Byte /\ live' = live /\ LazyMap(s, v, w, d)
    BY <1>1, <1>4, LazyTypes
  <2> HIDE DEF w, d
  <2> QED
    BY <2>1, LazyTouches
<1> QED
  BY <1>2, <1>3, <1>4 DEF PageFault

LEMMA StoreTouches ==
  ASSUME IInv, TInv, VInv, NEW s \in Spaces, NEW v \in UserPages, NEW d \in Byte, Store(s, v, d)
  PROVE  Touches(s) /\ FitsNext
<1>1. /\ space[s].ppn[v] # NoFrame /\ "W" \in space[s].flags[v]
      /\ data' = [data EXCEPT ![space[s].ppn[v]] = d] /\ UNCHANGED <<live, space>>
  BY DEF Store
<1> QED
  BY <1>1, WritableAlone, ExclusiveStore

LEMMA CopyOutTouches ==
  ASSUME Plain, IInv, TInv, VInv, NEW s \in Spaces, NEW v \in UserPages, NEW d \in Byte,
         CopyOut(s, v, d)
  PROVE  Touches(s) /\ FitsNext
<1>1. live' = live
  BY DEF CopyOut
<1>2. CASE /\ space[s].ppn[v] # NoFrame /\ "W" \in space[s].flags[v]
           /\ data' = [data EXCEPT ![space[s].ppn[v]] = d] /\ UNCHANGED space
  <2>1. UNCHANGED <<live, space>>
    BY <1>1, <1>2
  <2> QED
    BY <1>2, <2>1, WritableAlone, ExclusiveStore
<1>3. CASE LazyMap(s, v, LazyPerm(s, v), d)
  <2> DEFINE w == LazyPerm(s, v)
  <2>1. LazyMap(s, v, w, d)
    BY <1>3
  <2> HIDE DEF w
  <2> QED
    BY <1>1, <2>1, LazyTouches
<1> QED
  BY <1>2, <1>3 DEF CopyOut, Plain

\* mprotect changes permissions, which a process does not see in its memory.
LEMMA MprotectTouches ==
  ASSUME IInv, TInv, VInv, NEW s \in Spaces, NEW v \in ProtPages, NEW w, Mprotect(s, v, w)
  PROVE  Touches(s) /\ FitsNext
<1> DEFINE sp == space[s]
           byte == IF w THEN {"W"} ELSE {}
<1>1. v \in UserPages /\ v \in Vpns /\ sp \in MemorySet /\ UserPages \subseteq Vpns
  BY UserFacts, Facts, DataAssumption
<1>2. UNCHANGED <<live, data>>
  BY DEF Mprotect
<1>3. ASSUME NEW new, space' = [space EXCEPT ![s] = new], new.ppn = sp.ppn, new.mmap_top = sp.mmap_top,
             \A u \in Vpns : /\ new.mmap_map[u].mapped = sp.mmap_map[u].mapped
                             /\ new.mmap_map[u].init = sp.mmap_map[u].init
      PROVE  Touches(s) /\ FitsNext
  <2>1. \A u \in UserPages : Look(new, data, u) = Look(space[s], data, u)
    BY <1>1, <1>3 DEF Look
  <2>2. Fits(new)
    BY <1>3, UserFacts DEF VInv, Fits
  <2>3. Look(new, data, v) \in Byte \cup {Hole}
    BY <1>1, <2>1, LookTypes
  <2> QED
    BY <1>1, <1>2, <1>3, <2>1, <2>2, <2>3, EntryChange
<1>4. CASE space' = [space EXCEPT ![s].flags[v] = byte]
  <2> DEFINE new == [sp EXCEPT !.flags[v] = byte]
  <2>1. space' = [space EXCEPT ![s] = new]
    BY <1>4, Facts
  <2>2. new.ppn = sp.ppn /\ new.mmap_map = sp.mmap_map /\ new.mmap_top = sp.mmap_top
    BY <1>1 DEF MemorySet
  <2> HIDE DEF new
  <2> QED
    BY <2>1, <2>2, <1>3
<1>5. CASE space' = [space EXCEPT ![s].mmap_map[v].w = w]
  <2> DEFINE mm == [sp.mmap_map[v] EXCEPT !.w = w]
             new == [sp EXCEPT !.mmap_map[v] = mm]
  <2>1. space' = [space EXCEPT ![s] = new]
    BY <1>1, <1>5, Facts DEF MemorySet
  <2>2. sp.mmap_map \in [Vpns -> MmapEntry] /\ sp.mmap_map[v] \in MmapEntry
    BY <1>1, Facts
  <2>3. mm.mapped = sp.mmap_map[v].mapped /\ mm.init = sp.mmap_map[v].init
    BY <2>2 DEF MmapEntry
  <2> HIDE DEF mm
  <2>4. /\ new.ppn = sp.ppn /\ new.mmap_map = [sp.mmap_map EXCEPT ![v] = mm]
        /\ new.mmap_top = sp.mmap_top
    BY <1>1 DEF MemorySet
  <2> HIDE DEF new
  <2>5. \A u \in Vpns : /\ new.mmap_map[u].mapped = sp.mmap_map[u].mapped
                         /\ new.mmap_map[u].init = sp.mmap_map[u].init
    BY <1>1, <2>2, <2>3, <2>4
  <2> QED
    BY <2>1, <2>4, <2>5, <1>3
<1> QED
  BY <1>4, <1>5 DEF Mprotect

\* mmap shows its page and no other: what lies between the old mmap_top and the new one
\* was never mapped.
LEMMA PushLook ==
  ASSUME NEW sp \in MemorySet, Fits(sp), NEW v \in MapPages, NEW page \in MmapEntry,
         data \in [Frames -> Byte]
  PROVE  LET new == push(sp, v, page) IN
         /\ Fits(new) /\ Look(new, data, v) \in Byte \cup {Hole}
         /\ \A u \in UserPages \ {v} : Look(new, data, u) = Look(sp, data, u)
<1> DEFINE new == push(sp, v, page)
           top == IF sp.mmap_top <= v THEN v + 1 ELSE sp.mmap_top
<1>1. /\ v \in Vpns /\ UserPages \subseteq Vpns /\ MmapPages \subseteq Vpns /\ MapPages \subseteq Nat
      /\ sp.mmap_top \in Nat /\ sp.mmap_map \in [Vpns -> MmapEntry] /\ sp.ppn \in [Vpns -> Owner]
  <2>1. MapPages \subseteq Nat
    BY PagesAssumption DEF MapPages, MmapPages
  <2>2. sp.mmap_top \in MmapStart .. (MmapEnd + 1)
    BY DEF MemorySet
  <2>3. sp.mmap_top \in Nat
    BY <2>2, PagesAssumption
  <2> QED
    BY <2>1, <2>3, UserFacts DEF MemorySet
<1>2. top \in Nat /\ sp.mmap_top <= top /\ v < top
  BY <1>1
<1>3. new = [sp EXCEPT !.mmap_map = [sp.mmap_map EXCEPT ![v] = page], !.mmap_top = top]
  BY DEF push, MemorySet
<1> HIDE DEF top
<1>4. new.ppn = sp.ppn /\ new.mmap_top = top /\ new.mmap_map = [sp.mmap_map EXCEPT ![v] = page]
  BY <1>3 DEF MemorySet
<1> HIDE DEF new
<1>5. \A u \in Vpns : new.mmap_map[u] = IF u = v THEN page ELSE sp.mmap_map[u]
  BY <1>1, <1>4
<1>6. \A u \in MmapPages : u \in Nat
  BY <1>1, UserFacts
<1>7. Fits(new)
  <2>1. ASSUME NEW u \in MmapPages, new.mmap_map[u].mapped
        PROVE  u < top
    <3>1. CASE u = v
      BY <3>1, <1>2
    <3>2. CASE u # v
      <4>1. u < sp.mmap_top
        BY <3>2, <2>1, <1>1, <1>5 DEF Fits
      <4> QED
        BY <4>1, <1>1, <1>2, <1>6
    <3> QED
      BY <3>1, <3>2
  <2> QED
    BY <2>1, <1>4 DEF Fits
<1>8. Look(new, data, v) \in Byte \cup {Hole}
  <2>1. page.init \in Byte /\ 0 \in Byte
    BY DataAssumption DEF MmapEntry
  <2>2. new.ppn[v] # NoFrame => data[new.ppn[v]] \in Byte
    BY <1>1, <1>4 DEF Owner
  <2> QED
    BY <2>1, <2>2, <1>1, <1>5 DEF Look
<1>9. ASSUME NEW u \in UserPages \ {v}
      PROVE  Look(new, data, u) = Look(sp, data, u)
  <2>1. u \in Vpns /\ new.mmap_map[u] = sp.mmap_map[u] /\ new.ppn[u] = sp.ppn[u]
    BY <1>1, <1>4, <1>5
  <2>2. u \in MmapPages /\ sp.mmap_map[u].mapped => u < sp.mmap_top /\ u < new.mmap_top
    BY <1>1, <1>2, <1>4, <1>6 DEF Fits
  <2> QED
    BY <2>1, <2>2 DEF Look
<1> QED
  BY <1>7, <1>8, <1>9 DEF new

\* munmap hides its page and no other.
LEMMA RemoveLook ==
  ASSUME NEW sp \in MemorySet, Fits(sp), NEW v \in MapPages, data \in [Frames -> Byte]
  PROVE  LET new == remove(sp, v) IN
         /\ new \in MemorySet /\ Fits(new) /\ Look(new, data, v) \in Byte \cup {Hole}
         /\ \A u \in UserPages \ {v} : Look(new, data, u) = Look(sp, data, u)
<1> DEFINE new == remove(sp, v)
           mm == [sp.mmap_map EXCEPT ![v] = NoMmap]
           fr == [sp.frame EXCEPT ![v] = NoFrame]
<1>1. /\ v \in Vpns /\ UserPages \subseteq Vpns /\ MmapPages \subseteq Vpns
      /\ sp.mmap_map \in [Vpns -> MmapEntry] /\ sp.ppn \in [Vpns -> Owner] /\ sp.frame \in [Vpns -> Owner]
  BY UserFacts DEF MemorySet
<1>2. NoMmap \in MmapEntry /\ ~ NoMmap.mapped /\ NoMmap.init \in Byte
  BY DataAssumption DEF NoMmap, MmapEntry
<1>3. mm \in [Vpns -> MmapEntry] /\ fr \in [Vpns -> Owner]
  BY <1>1, <1>2 DEF Owner
<1>4. new = [sp EXCEPT !.mmap_map = mm, !.frame = fr]
  BY DEF remove, MemorySet
<1>5. \A u \in Vpns : mm[u] = IF u = v THEN NoMmap ELSE sp.mmap_map[u]
  BY <1>1
<1> HIDE DEF mm, fr
<1>6. new \in MemorySet /\ new.ppn = sp.ppn /\ new.mmap_top = sp.mmap_top /\ new.mmap_map = mm
  BY <1>3, <1>4 DEF MemorySet
<1> HIDE DEF new
<1>7. Fits(new)
  BY <1>1, <1>2, <1>5, <1>6 DEF Fits
<1>8. Look(new, data, v) \in Byte \cup {Hole}
  <2>1. new.ppn[v] # NoFrame => data[new.ppn[v]] \in Byte
    BY <1>1, <1>6 DEF Owner
  <2> QED
    BY <2>1, <1>1, <1>2, <1>5, <1>6, DataAssumption DEF Look
<1>9. ASSUME NEW u \in UserPages \ {v}
      PROVE  Look(new, data, u) = Look(sp, data, u)
  <2>1. u \in Vpns /\ new.mmap_map[u] = sp.mmap_map[u] /\ new.ppn[u] = sp.ppn[u]
    BY <1>1, <1>5, <1>6
  <2> QED
    BY <2>1, <1>6 DEF Look
<1> QED
  BY <1>6, <1>7, <1>8, <1>9 DEF new

LEMMA MmapTouches ==
  ASSUME IInv, TInv, VInv, NEW s \in Spaces, NEW addr, NEW page \in MmapEntry, Mmap(s, addr, page)
  PROVE  Touches(s) /\ FitsNext
<1> DEFINE v == IF addr = 0 THEN space[s].mmap_top ELSE 0
           new == push(space[s], v, page)
<1>1. v \in MapPages /\ space' = [space EXCEPT ![s] = new] /\ UNCHANGED <<live, data>>
  BY DEF Mmap, MapPages
<1>2. v \in UserPages
  BY <1>1, UserFacts
<1> HIDE DEF v
<1>3. space[s] \in MemorySet /\ Fits(space[s]) /\ data \in [Frames -> Byte]
  BY Facts DEF VInv
<1>4. /\ Fits(new) /\ Look(new, data, v) \in Byte \cup {Hole}
      /\ \A u \in UserPages \ {v} : Look(new, data, u) = Look(space[s], data, u)
  BY <1>1, <1>3, PushLook
<1> HIDE DEF new
<1> QED
  BY <1>1, <1>2, <1>4, EntryChange

LEMMA MunmapTouches ==
  ASSUME IInv, TInv, VInv, NEW s \in Spaces, NEW v \in MmapPages, Munmap(s, v)
  PROVE  Touches(s) /\ FitsNext
<1> DEFINE new == remove(space[s], v)
<1>1. v \in MapPages /\ v \in UserPages /\ space' = [space EXCEPT ![s] = new] /\ UNCHANGED <<live, data>>
  BY UserFacts DEF Munmap
<1>2. space[s] \in MemorySet /\ Fits(space[s]) /\ data \in [Frames -> Byte]
  BY Facts DEF VInv
<1>3. /\ Fits(new) /\ Look(new, data, v) \in Byte \cup {Hole}
      /\ \A u \in UserPages \ {v} : Look(new, data, u) = Look(space[s], data, u)
  BY <1>1, <1>2, RemoveLook
<1> HIDE DEF new
<1> QED
  BY <1>1, <1>3, EntryChange

LEMMA MmapFixedTouches ==
  ASSUME IInv, TInv, VInv, NEW s \in Spaces, NEW v \in MmapPages, NEW page \in MmapEntry,
         MmapFixed(s, v, page)
  PROVE  Touches(s) /\ FitsNext
<1> DEFINE old == remove(space[s], v)
           new == push(old, v, page)
<1>1. v \in MapPages /\ v \in UserPages /\ space' = [space EXCEPT ![s] = new] /\ UNCHANGED <<live, data>>
  BY UserFacts DEF MmapFixed
<1>2. space[s] \in MemorySet /\ Fits(space[s]) /\ data \in [Frames -> Byte]
  BY Facts DEF VInv
<1>3. /\ old \in MemorySet /\ Fits(old)
      /\ \A u \in UserPages \ {v} : Look(old, data, u) = Look(space[s], data, u)
  BY <1>1, <1>2, RemoveLook
<1> HIDE DEF old
<1>4. /\ Fits(new) /\ Look(new, data, v) \in Byte \cup {Hole}
      /\ \A u \in UserPages \ {v} : Look(new, data, u) = Look(old, data, u)
  BY <1>1, <1>2, <1>3, PushLook
<1> HIDE DEF new
<1>5. \A u \in UserPages \ {v} : Look(new, data, u) = Look(space[s], data, u)
  BY <1>3, <1>4
<1> QED
  BY <1>1, <1>4, <1>5, EntryChange
-----------------------------------------------------------------------------
(* Steps that make or drop a space *)

\* Only frames that were free get a new content.
OnlyFree == \A f \in Frames \ free : data'[f] = data[f]

\* Then a space that keeps its entries looks the same.
LEMMA KeepsLook ==
  ASSUME IInv, TInv, OnlyFree, NEW t \in Spaces,
         space'[t].ppn = space[t].ppn, space'[t].mmap_map = space[t].mmap_map,
         space'[t].mmap_top = space[t].mmap_top
  PROVE  Alike(t)
<1>1. \A f \in Frames : Holds(space[t], f) => data'[f] = data[f]
  BY Facts DEF OnlyFree
<1> DEFINE sp == space'[t]
<1>2. ASSUME NEW v \in UserPages
      PROVE  View(t, v)' = View(t, v)
  <2>1. v \in Vpns /\ sp.ppn[v] = space[t].ppn[v] /\ sp.mmap_map[v] = space[t].mmap_map[v]
    BY UserFacts
  <2>2. sp.mmap_top = space[t].mmap_top
    OBVIOUS
  <2> HIDE DEF sp
  <2>3. Look(sp, data', v) = Look(space[t], data, v)
    BY <2>1, <2>2, <1>1, SameLook
  <2> QED
    BY <2>3, ViewIs DEF sp
<1> QED
  BY <1>2 DEF Alike

\* A copy of a space shows what the space shows, off the pages of its own.
LEMMA CopyLook ==
  ASSUME IInv, TInv, VInv, OnlyFree, NEW s \in Spaces, NEW S \in SUBSET (Vpns \ MapPages),
         NEW g \in Injections(S, free), TrapPages \subseteq S
  PROVE  LET child == CowChild(space[s], g) IN
         /\ Fits(child)
         /\ \A v \in UserPages \ S : Look(child, data', v) = Look(space[s], data, v)
         /\ \A v \in S : Look(child, data', v) = data'[g[v]]
<1> DEFINE sp == space[s]
           child == CowChild(sp, g)
<1>1. IsCopy(sp, S, free, g, child)
  <2>1. Sound(sp) /\ free \in SUBSET Frames /\ \A f \in free : ~ Holds(sp, f)
    BY Facts
  <2> HIDE DEF sp
  <2> QED
    BY <2>1, CowChildSound
<1>2. Fits(space[s]) /\ Tracked(space[s])
  BY DEF VInv, TInv
<1> HIDE DEF child
<1>3. Fits(child)
  BY <1>1, <1>2 DEF Fits, IsCopy
<1>4. \A f \in Frames : Holds(space[s], f) => data'[f] = data[f]
  BY Facts DEF OnlyFree
<1>5. ASSUME NEW v \in UserPages \ S
      PROVE  Look(child, data', v) = Look(space[s], data, v)
  <2>1. v \in Vpns
    BY UserFacts
  <2>2. Shared(sp, v) \/ sp.ppn[v] = NoFrame
    <3>1. CASE v \in ElfPages \cup LazyPages
      BY <3>1 DEF Shared
    <3>2. CASE v \in MapPages
      BY <3>2, <1>2 DEF Shared, Tracked, MapPages
    <3> QED
      BY <3>1, <3>2, UserFacts
  <2>3. child.ppn[v] = space[s].ppn[v] /\ child.mmap_map[v] = space[s].mmap_map[v]
    BY <2>1, <2>2, <1>1 DEF IsCopy
  <2>4. child.mmap_top = space[s].mmap_top
    BY <1>1 DEF IsCopy
  <2> QED
    BY <2>1, <2>3, <2>4, <1>4, SameLook
<1>6. \A v \in S : Look(child, data', v) = data'[g[v]]
  BY <1>1, Facts DEF Look, IsCopy
<1> QED
  BY <1>3, <1>5, <1>6 DEF child

\* fork: the child sees what the parent sees, and nobody sees a change.
LEMMA ForkCopies ==
  ASSUME IInv, TInv, VInv, NEW s \in Spaces, NEW c \in Spaces, Fork(s, c)
  PROVE  /\ live' = live \cup {c} /\ s \in live /\ c \notin live
         /\ \A t \in Spaces \ {c} : Alike(t)
         /\ \A v \in UserPages : View(c, v)' = View(s, v)
         /\ FitsNext
<1>1. s \in live /\ c \notin live /\ s # c
  BY DEF Fork, Running
<1>2. PICK g \in Injections(TrapPages, free) :
        /\ live' = live \cup {c}
        /\ space' = [space EXCEPT ![s] = CowParent(space[s]), ![c] = CowChild(space[s], g)]
        /\ data' = [f \in Frames |->
                      IF \E v \in TrapPages : g[v] = f
                      THEN data[space[s].ppn[CHOOSE v \in TrapPages : g[v] = f]]
                      ELSE data[f]]
  BY DEF Fork
<1> DEFINE S == TrapPages
           child == CowChild(space[s], g)
           parent == CowParent(space[s])
<1>3. OnlyFree
  <2>1. \A v \in TrapPages : g[v] \in free
    BY DEF Injections
  <2> QED
    BY <2>1, <1>2 DEF OnlyFree
<1>4. S \in SUBSET (Vpns \ MapPages) /\ TrapPages \subseteq S /\ g \in Injections(S, free)
  BY PageFacts
<1>5. \A t \in Spaces : space'[t] = IF t = c THEN child ELSE IF t = s THEN parent ELSE space[t]
  BY <1>2, Facts
<1>6. parent.ppn = space[s].ppn /\ parent.mmap_map = space[s].mmap_map /\ parent.mmap_top = space[s].mmap_top
  BY Facts, CowParentSound
<1> HIDE DEF S
<1>7. /\ Fits(child)
      /\ \A v \in UserPages \ S : Look(child, data', v) = Look(space[s], data, v)
  BY <1>3, <1>4, CopyLook
<1> HIDE DEF parent, child
<1>8. \A t \in Spaces \ {c} : Alike(t)
  <2>1. ASSUME NEW t \in Spaces \ {c}
        PROVE  Alike(t)
    <3>1. /\ space'[t].ppn = space[t].ppn /\ space'[t].mmap_map = space[t].mmap_map
          /\ space'[t].mmap_top = space[t].mmap_top
      BY <1>5, <1>6
    <3> QED
      BY <3>1, <1>3, KeepsLook
  <2> QED
    BY <2>1
<1>9. \A v \in UserPages : View(c, v)' = View(s, v)
  BY <1>5, <1>7, ViewIs, UserFacts DEF S
<1>10. FitsNext
  BY <1>1, <1>5, <1>6, <1>7 DEF FitsNext, VInv, Fits
<1> QED
  BY <1>1, <1>2, <1>8, <1>9, <1>10

\* The frames that exec fills are new.
LEMMA FillIsFree ==
  ASSUME IInv, NEW S, NEW g \in Injections(S, free), Fill(g)
  PROVE  OnlyFree /\ \A v \in S : data'[g[v]] = ElfByte
<1>1. DOMAIN g = S /\ \A v \in S : g[v] \in free
  BY DEF Injections
<1>2. free \in SUBSET Frames
  BY Facts
<1>3. \A f \in Frames : data'[f] = IF \E v \in S : g[v] = f THEN ElfByte ELSE data[f]
  BY <1>1 DEF Fill
<1> QED
  BY <1>1, <1>2, <1>3 DEF OnlyFree

\* exec: the process sees a freshly loaded program with its arguments.
LEMMA ExecLoads ==
  ASSUME IInv, TInv, VInv, NEW s \in Spaces, Exec(s)
  PROVE  /\ live' = live /\ \A t \in Spaces \ {s} : Alike(t)
         /\ \A v \in UserPages : View(s, v)' = Image(ArgPages)[v]
         /\ FitsNext
<1> DEFINE S == EagerPages \cup ArgPages
<1>1. live' = live
  BY DEF Exec
<1>2. PICK g \in Injections(S, free) : space' = [space EXCEPT ![s] = Loaded(g)] /\ Fill(g)
  BY DEF Exec
<1> DEFINE new == Loaded(g)
<1>3. S \in SUBSET (Vpns \ MapPages) /\ MapPages \cap S = {}
  BY PageFacts
<1>4. \A v \in UserPages : v \in S <=> v \in ElfPages \cup ArgPages
  BY PageFacts, UserFacts
<1> HIDE DEF S
<1>5. /\ new.mmap_top = MmapStart
      /\ \A v \in Vpns : /\ new.ppn[v] = IF v \in S THEN g[v] ELSE NoFrame
                         /\ v \in S => g[v] \in free
                         /\ new.mmap_map[v] = NoMmap
  <2>1. free \in SUBSET Frames
    BY Facts
  <2> QED
    BY <2>1, <1>3, LoadedSound
<1>6. \A t \in Spaces : space'[t] = IF t = s THEN new ELSE space[t]
  BY <1>2, Facts
<1> HIDE DEF new
<1>7. OnlyFree /\ \A v \in S : data'[g[v]] = ElfByte
  BY <1>2, FillIsFree
<1>8. ASSUME NEW t \in Spaces \ {s}
      PROVE  Alike(t)
  <2>1. /\ space'[t].ppn = space[t].ppn /\ space'[t].mmap_map = space[t].mmap_map
        /\ space'[t].mmap_top = space[t].mmap_top
    BY <1>6
  <2> QED
    BY <2>1, <1>7, KeepsLook
<1>9. ~ NoMmap.mapped
  BY DEF NoMmap
<1>10. ASSUME NEW v \in UserPages
       PROVE  View(s, v)' = Image(ArgPages)[v]
  <2>1. v \in Vpns /\ (v \in S <=> v \in ElfPages \cup ArgPages)
    BY <1>4, UserFacts
  <2>2. CASE v \in S
    <3>1. new.ppn[v] = g[v] /\ g[v] # NoFrame /\ data'[g[v]] = ElfByte
      BY <2>1, <2>2, <1>5, <1>7, Facts
    <3>2. Look(new, data', v) = ElfByte
      BY <3>1 DEF Look
    <3> QED
      BY <2>1, <2>2, <3>2, <1>6, ViewIs DEF Image
  <2>3. CASE v \notin S
    <3>1. new.ppn[v] = NoFrame /\ ~ new.mmap_map[v].mapped
      BY <2>1, <2>3, <1>5, <1>9
    <3>2. Look(new, data', v) = IF v \in LazyPages THEN 0 ELSE Hole
      BY <3>1 DEF Look
    <3> QED
      BY <2>1, <2>3, <3>2, <1>6, ViewIs DEF Image
  <2> QED
    BY <2>2, <2>3
<1>11. FitsNext
  <2>1. Fits(new)
    BY <1>5, <1>9, UserFacts DEF Fits
  <2> QED
    BY <2>1, <1>6 DEF FitsNext, VInv
<1> QED
  BY <1>1, <1>8, <1>10, <1>11

\* exec of busybox gives the same memory, though its pages are those of the template.
LEMMA ExecBusyboxLoads ==
  ASSUME IInv, TInv, VInv, NEW s \in Spaces, ExecBusybox(s)
  PROVE  /\ live' = live /\ \A t \in Spaces \ {s} : Alike(t)
         /\ \A v \in UserPages : View(s, v)' = Image(ArgPages)[v]
         /\ FitsNext
<1> DEFINE S == TrapPages \cup ArgPages
           b == BUSYBOX
<1>1. s # b /\ b \in Spaces /\ live' = live
  BY RunningSpace DEF ExecBusybox
<1>2. PICK g \in Injections(S, free) :
        /\ space' = [space EXCEPT ![s] = CowChild(space[b], g), ![b] = CowParent(space[b])]
        /\ Fill(g)
  BY DEF ExecBusybox
<1> DEFINE new == CowChild(space[b], g)
           parent == CowParent(space[b])
<1>3. S \in SUBSET (Vpns \ MapPages) /\ TrapPages \subseteq S
  BY PageFacts
<1>4. \A v \in UserPages : v \in S <=> v \in ArgPages
  BY UserFacts
<1> HIDE DEF S, b
<1>5. \A t \in Spaces : space'[t] = IF t = s THEN new ELSE IF t = b THEN parent ELSE space[t]
  BY <1>1, <1>2, Facts
<1>6. parent.ppn = space[b].ppn /\ parent.mmap_map = space[b].mmap_map /\ parent.mmap_top = space[b].mmap_top
  BY <1>1, Facts, CowParentSound
<1>7. OnlyFree /\ \A v \in S : data'[g[v]] = ElfByte
  BY <1>2, FillIsFree
<1>8. /\ Fits(new)
      /\ \A v \in UserPages \ S : Look(new, data', v) = Look(space[b], data, v)
      /\ \A v \in S : Look(new, data', v) = data'[g[v]]
  BY <1>1, <1>3, <1>7, CopyLook
<1> HIDE DEF new, parent
<1>9. ASSUME NEW t \in Spaces \ {s}
      PROVE  Alike(t)
  <2>1. /\ space'[t].ppn = space[t].ppn /\ space'[t].mmap_map = space[t].mmap_map
        /\ space'[t].mmap_top = space[t].mmap_top
    BY <1>5, <1>6
  <2> QED
    BY <2>1, <1>7, KeepsLook
<1>10. ASSUME NEW v \in UserPages
       PROVE  View(s, v)' = Image(ArgPages)[v]
  <2>1. View(s, v)' = Look(new, data', v)
    BY <1>5, ViewIs
  <2>2. CASE v \in S
    BY <2>1, <2>2, <1>4, <1>7, <1>8 DEF Image
  <2>3. CASE v \notin S
    <3>1. Look(space[b], data, v) = View(b, v)
      BY <1>1, ViewIs
    <3>2. View(b, v) = Image({})[v]
      BY DEF VInv, b
    <3>3. v \notin ArgPages
      BY <2>3, <1>4
    <3> QED
      BY <2>1, <2>3, <3>1, <3>2, <3>3, <1>8 DEF Image
  <2> QED
    BY <2>2, <2>3
<1>11. FitsNext
  BY <1>1, <1>5, <1>6, <1>8 DEF FitsNext, VInv, Fits
<1> QED
  BY <1>1, <1>9, <1>10, <1>11

LEMMA DropForgets ==
  ASSUME IInv, TInv, VInv, NEW s \in Spaces, Drop(s)
  PROVE  /\ live' = live \ {s} /\ s \in live /\ \A t \in Spaces \ {s} : Alike(t)
         /\ FitsNext
<1>1. s \in live /\ live' = live \ {s} /\ space' = [space EXCEPT ![s] = Bare] /\ data' = data
  BY RunningSpace DEF Drop
<1>2. \A t \in Spaces : space'[t] = IF t = s THEN Bare ELSE space[t]
  BY <1>1, Facts
<1>3. ASSUME NEW t \in Spaces \ {s}
      PROVE  Alike(t)
  <2>1. /\ space'[t].ppn = space[t].ppn /\ space'[t].mmap_map = space[t].mmap_map
        /\ space'[t].mmap_top = space[t].mmap_top
    BY <1>2
  <2>2. OnlyFree
    BY <1>1 DEF OnlyFree
  <2> QED
    BY <2>1, <2>2, KeepsLook
<1>4. Fits(Bare)
  BY BareSound, UserFacts DEF Fits, NoMmap
<1> QED
  BY <1>1, <1>2, <1>3, <1>4 DEF FitsNext, VInv
-----------------------------------------------------------------------------
(* Reads that wait *)

\* PInv speaks of each buffer by itself.
LEMMA ReservedNext ==
  ASSUME \A r \in Readers : \A b : buf'[r] = b /\ b # NoBuf => Reserved(b)'
  PROVE  PInv'
<1>1. ASSUME NEW r \in Readers, buf'[r] # NoBuf
      PROVE  Reserved(buf[r])'
  <2>1. PICK b : b = buf'[r]
    OBVIOUS
  <2>2. Reserved(b)'
    BY <1>1, <2>1
  <2> QED
    BY <2>1, <2>2 DEF Reserved, Alone
<1> QED
  BY <1>1 DEF PInv

\* The frame of such a buffer has one tracker: cow_alloc does not take the page off it.
LEMMA ReservedFacts ==
  ASSUME IInv, TInv, NEW b, Reserved(b)
  PROVE  /\ b.space \in Spaces /\ b.page \in Vpns /\ b.frame \in Frames /\ b.frame \notin free
         /\ refcounter[b.frame] = 1
<1>1. b.space \in Spaces /\ b.page \in Vpns /\ space[b.space].ppn[b.page] # NoFrame
  BY Facts, UserFacts DEF Reserved
<1>2. b.frame \in Frames /\ b.frame \notin free /\ Holds(space[b.space], b.frame)
  BY <1>1, Mapped DEF Reserved
<1>3. Holders(b.frame) = {b.space}
  BY <1>1, <1>2 DEF Holders, Reserved, Alone
<1> QED
  BY <1>1, <1>2, <1>3, Facts, FS_Singleton DEF Counts

\* One space changes: the page of the buffer keeps its frame, other frames come from free.
LEMMA OneReserved ==
  ASSUME IInv, TInv, NEW b, Reserved(b), NEW s \in Spaces, NEW new,
         space' = [space EXCEPT ![s] = new], b.space \in live',
         b.space = s => new.ppn[b.page] = b.frame,
         \A w \in Vpns : new.frame[w] \in {space[s].frame[w], NoFrame} \cup free
  PROVE  Reserved(b)'
<1>1. \A t \in Spaces : space'[t] = IF t = s THEN new ELSE space[t]
  BY Facts
<1>2. b.space \in Spaces /\ b.frame \in Frames /\ b.frame \notin free /\ b.frame # NoFrame
  BY ReservedFacts, Facts
<1>3. Holds(new, b.frame) => Holds(space[s], b.frame)
  BY <1>2 DEF Holds
<1>4. \A t \in Spaces \ {b.space} : ~ Holds(space'[t], b.frame)
  BY <1>1, <1>3 DEF Reserved, Alone
<1>5. space'[b.space].ppn[b.page] = b.frame
  BY <1>1, <1>2 DEF Reserved
<1>6. Alone(b.space, b.frame)'
  BY <1>4 DEF Alone, Holds
<1> QED
  BY <1>5, <1>6 DEF Reserved

\* A space becomes a copy of one of which no buffer is outstanding.
LEMMA CopyReserved ==
  ASSUME IInv, TInv, NEW b, Reserved(b), NEW s \in Spaces, NEW c \in Spaces, s # c,
         b.space # s, b.space # c, b.space \in live', NEW S \in SUBSET (Vpns \ MapPages),
         TrapPages \subseteq S, NEW g \in Injections(S, free),
         space' = [space EXCEPT ![s] = CowParent(space[s]), ![c] = CowChild(space[s], g)]
  PROVE  Reserved(b)'
<1> DEFINE parent == CowParent(space[s])
           child == CowChild(space[s], g)
<1>1. \A t \in Spaces : space'[t] = IF t = c THEN child ELSE IF t = s THEN parent ELSE space[t]
  BY Facts
<1>2. parent.frame = space[s].frame
  BY Facts, CowParentSound
<1>3. IsCopy(space[s], S, free, g, child)
  <2>1. Sound(space[s]) /\ free \in SUBSET Frames /\ \A f \in free : ~ Holds(space[s], f)
    BY Facts
  <2> QED
    BY <2>1, CowChildSound
<1> HIDE DEF parent, child
<1>4. b.space \in Spaces /\ b.frame \in Frames /\ b.frame \notin free /\ b.frame # NoFrame
  BY ReservedFacts, Facts
<1>5. \A v \in Vpns : space[s].ppn[v] = space[s].frame[v]
  BY Facts DEF TInv, Tracked, Sound
<1>6. Holds(child, b.frame) => Holds(space[s], b.frame)
  BY <1>3, <1>4, <1>5 DEF Holds, IsCopy
<1>7. Holds(parent, b.frame) => Holds(space[s], b.frame)
  BY <1>2 DEF Holds
<1>8. \A t \in Spaces \ {b.space} : ~ Holds(space'[t], b.frame)
  BY <1>1, <1>6, <1>7 DEF Reserved, Alone
<1>9. space'[b.space].ppn[b.page] = b.frame
  BY <1>1, <1>4 DEF Reserved
<1>10. Alone(b.space, b.frame)'
  BY <1>8 DEF Alone, Holds
<1> QED
  BY <1>9, <1>10 DEF Reserved

\* A page that had no frame gets a free one.
LEMMA LazyReserved ==
  ASSUME IInv, TInv, NEW b, Reserved(b), NEW s \in Spaces, NEW v \in UserPages, NEW w, NEW d,
         space[s].ppn[v] = NoFrame, LazyMap(s, v, w, d), live' = live
  PROVE  Reserved(b)'
<1>1. PICK f \in free :
        space' = [space EXCEPT ![s].ppn[v] = f, ![s].frame[v] = f,
                               ![s].flags[v] = IF w THEN {"W"} ELSE {},
                               ![s].mmap_map[v].valid = @ \/ v \in MmapPages]
  BY DEF LazyMap
<1>2. v \in Vpns /\ space[s] \in MemorySet
  BY UserFacts, Facts
<1> DEFINE sp == space[s]
           mm == [sp.mmap_map[v] EXCEPT !.valid = @ \/ v \in MmapPages]
           new == [sp EXCEPT !.ppn[v] = f, !.frame[v] = f, !.flags[v] = IF w THEN {"W"} ELSE {},
                             !.mmap_map[v] = mm]
<1>3. space' = [space EXCEPT ![s] = new]
  BY <1>1, <1>2, Facts DEF MemorySet
<1> HIDE DEF mm
<1>4. /\ new.ppn = [space[s].ppn EXCEPT ![v] = f]
      /\ new.frame = [space[s].frame EXCEPT ![v] = f]
  BY <1>2 DEF MemorySet
<1> HIDE DEF new
<1>5. b.space = s => new.ppn[b.page] = b.frame
  BY <1>2, <1>4, ReservedFacts, Facts DEF Reserved
<1>6. \A u \in Vpns : new.frame[u] \in {space[s].frame[u], NoFrame} \cup free
  BY <1>2, <1>4, Facts
<1>7. b.space \in live'
  BY DEF Reserved
<1> QED
  BY <1>3, <1>5, <1>6, <1>7, OneReserved

\* The page table stays: entries change their flags, or their mapping and tracker.
LEMMA SameEntries ==
  ASSUME IInv, TInv, NEW b, Reserved(b), NEW s \in Spaces, NEW new,
         space' = [space EXCEPT ![s] = new], live' = live, new.ppn = space[s].ppn,
         \A w \in Vpns : new.frame[w] \in {space[s].frame[w], NoFrame}
  PROVE  Reserved(b)'
<1>1. b.space \in live' /\ (b.space = s => new.ppn[b.page] = b.frame)
  BY DEF Reserved
<1> QED
  BY <1>1, OneReserved

LEMMA FaultReserved ==
  ASSUME IInv, TInv, NEW b, Reserved(b), NEW s \in Spaces, NEW v \in UserPages, PageFault(s, v)
  PROVE  Reserved(b)'
<1>1. v \in Vpns /\ live' = live /\ space[s] \in MemorySet
  BY UserFacts, Facts DEF PageFault
<1>2. CASE CowReuse(s, v)
  <2> DEFINE new == [space[s] EXCEPT !.flags[v] = (@ \ {"COW"}) \cup {"W"}]
  <2>1. space' = [space EXCEPT ![s] = new] /\ new.ppn = space[s].ppn /\ new.frame = space[s].frame
    BY <1>1, <1>2, Facts DEF CowReuse, MemorySet
  <2> HIDE DEF new
  <2> QED
    BY <1>1, <2>1, SameEntries
<1>3. CASE CowCopy(s, v)
  <2>1. PICK f \in free :
          space' = [space EXCEPT ![s].ppn[v] = f, ![s].frame[v] = f, ![s].flags[v] = @ \cup {"W"}]
    BY <1>3 DEF CowCopy
  <2> DEFINE new == space'[s]
  <2>2. /\ space' = [space EXCEPT ![s] = new]
        /\ new.ppn = [space[s].ppn EXCEPT ![v] = f] /\ new.frame = [space[s].frame EXCEPT ![v] = f]
    BY <1>1, <2>1, Facts DEF MemorySet
  <2> HIDE DEF new
  <2>3. refcounter[space[s].ppn[v]] > 1
    BY <1>3 DEF CowCopy
  <2>4. b.space = s => new.ppn[b.page] = b.frame
    BY <1>1, <2>2, <2>3, ReservedFacts, Facts DEF Reserved
  <2>5. \A u \in Vpns : new.frame[u] \in {space[s].frame[u], NoFrame} \cup free
    BY <1>1, <2>2, Facts
  <2>6. b.space \in live'
    BY <1>1 DEF Reserved
  <2> QED
    BY <2>2, <2>4, <2>5, <2>6, OneReserved
<1>4. CASE Lazy(s, v) /\ LazyMap(s, v, LazyPerm(s, v), LazyByte(s, v))
  BY <1>1, <1>4, LazyReserved DEF Lazy
<1> QED
  BY <1>2, <1>3, <1>4 DEF PageFault

\* mprotect, mmap and munmap do not move a page.
LEMMA EntriesReserved ==
  ASSUME IInv, TInv, NEW b, Reserved(b), NEW s \in Spaces, NEW v \in UserPages,
         \/ \E w : Mprotect(s, v, w)
         \/ \E addr, page : Mmap(s, addr, page)
         \/ v \in MmapPages /\ ((\E page : MmapFixed(s, v, page)) \/ Munmap(s, v))
  PROVE  Reserved(b)'
<1>1. v \in Vpns /\ space[s] \in MemorySet /\ space[s].frame \in [Vpns -> Owner] /\ space \in [Spaces -> MemorySet]
  BY UserFacts, Facts
<1>2. ASSUME NEW w, Mprotect(s, v, w)
      PROVE  Reserved(b)'
  <2> DEFINE new == space'[s]
  <2>1. space' = [space EXCEPT ![s] = new] /\ new.ppn = space[s].ppn /\ new.frame = space[s].frame
    BY <1>1, <1>2 DEF Mprotect, MemorySet
  <2> HIDE DEF new
  <2>2. live' = live
    BY <1>2 DEF Mprotect
  <2> QED
    BY <2>1, <2>2, SameEntries
<1>3. ASSUME NEW addr, NEW page, Mmap(s, addr, page)
      PROVE  Reserved(b)'
  <2> DEFINE u == IF addr = 0 THEN space[s].mmap_top ELSE 0
             new == push(space[s], u, page)
  <2>1. space' = [space EXCEPT ![s] = new] /\ live' = live
    BY <1>3 DEF Mmap
  <2>2. new.ppn = space[s].ppn /\ new.frame = space[s].frame
    BY <1>1 DEF push, MemorySet
  <2> HIDE DEF new
  <2> QED
    BY <2>1, <2>2, SameEntries
<1>4. ASSUME NEW page, MmapFixed(s, v, page)
      PROVE  Reserved(b)'
  <2> DEFINE new == push(remove(space[s], v), v, page)
  <2>1. space' = [space EXCEPT ![s] = new] /\ live' = live
    BY <1>4 DEF MmapFixed
  <2>2. new.ppn = space[s].ppn /\ new.frame = [space[s].frame EXCEPT ![v] = NoFrame]
    BY <1>1 DEF push, remove, MemorySet
  <2> HIDE DEF new
  <2>3. \A w \in Vpns : new.frame[w] \in {space[s].frame[w], NoFrame}
    BY <1>1, <2>2
  <2> QED
    BY <2>1, <2>2, <2>3, SameEntries
<1>5. CASE Munmap(s, v)
  <2> DEFINE new == remove(space[s], v)
  <2>1. space' = [space EXCEPT ![s] = new] /\ live' = live
    BY <1>5 DEF Munmap
  <2>2. new.ppn = space[s].ppn /\ new.frame = [space[s].frame EXCEPT ![v] = NoFrame]
    BY <1>1 DEF remove, MemorySet
  <2> HIDE DEF new
  <2>3. \A w \in Vpns : new.frame[w] \in {space[s].frame[w], NoFrame}
    BY <1>1, <2>2
  <2> QED
    BY <2>1, <2>2, <2>3, SameEntries
<1> QED
  BY <1>2, <1>3, <1>4, <1>5
LEMMA StepReserved ==
  ASSUME Plain, IInv, TInv, NEW s \in Spaces, Step(s), NEW r \in Readers, NEW b,
         buf[r] = b, b # NoBuf, Reserved(b)
  PROVE  Reserved(b)'
<1>1. Quiet(s) => b.space # s
  BY DEF Plain, Quiet, Idle
<1>2. Idle(s) => b.space # s
  BY DEF Idle
<1>3. b.space \in Spaces /\ b.space \in live /\ b.space # BUSYBOX
  BY Facts DEF Reserved
<1>4. ASSUME NEW c \in Spaces, Fork(s, c)
      PROVE  Reserved(b)'
  <2>1. s # c /\ b.space # s /\ b.space # c /\ b.space \in live'
    BY <1>1, <1>3, <1>4, RunningSpace DEF Fork
  <2>2. TrapPages \in SUBSET (Vpns \ MapPages)
    BY PageFacts
  <2>3. PICK g \in Injections(TrapPages, free) :
          space' = [space EXCEPT ![s] = CowParent(space[s]), ![c] = CowChild(space[s], g)]
    BY <1>4 DEF Fork
  <2> QED
    BY <2>1, <2>2, <2>3, CopyReserved
<1>5. CASE Exec(s)
  <2> DEFINE S == EagerPages \cup ArgPages
  <2>1. PICK g \in Injections(S, free) : space' = [space EXCEPT ![s] = Loaded(g)]
    BY <1>5 DEF Exec
  <2>2. S \in SUBSET (Vpns \ MapPages) /\ free \in SUBSET Frames
    BY PageFacts, Facts
  <2> HIDE DEF S
  <2> DEFINE new == Loaded(g)
  <2>3. \A v \in Vpns : /\ new.ppn[v] = IF v \in S THEN g[v] ELSE NoFrame
                        /\ new.frame[v] = new.ppn[v]
                        /\ v \in S => g[v] \in free
    BY <2>2, LoadedSound
  <2> HIDE DEF new
  <2>4. b.space # s /\ b.space \in live' /\ space' = [space EXCEPT ![s] = new]
    BY <1>1, <1>3, <1>5, <2>1 DEF Exec, new
  <2>5. \A v \in Vpns : new.frame[v] \in {space[s].frame[v], NoFrame} \cup free
    BY <2>3
  <2> QED
    BY <2>4, <2>5, OneReserved
<1>6. CASE ExecBusybox(s)
  <2> DEFINE S == TrapPages \cup ArgPages
  <2>1. s # BUSYBOX /\ BUSYBOX \in Spaces /\ b.space # s /\ b.space \in live'
    BY <1>1, <1>3, <1>6, RunningSpace DEF ExecBusybox
  <2>2. PICK g \in Injections(S, free) :
          space' = [space EXCEPT ![s] = CowChild(space[BUSYBOX], g), ![BUSYBOX] = CowParent(space[BUSYBOX])]
    BY <1>6 DEF ExecBusybox
  <2>3. S \in SUBSET (Vpns \ MapPages) /\ TrapPages \subseteq S
    BY PageFacts
  <2> HIDE DEF S
  <2>4. space' = [space EXCEPT ![BUSYBOX] = CowParent(space[BUSYBOX]), ![s] = CowChild(space[BUSYBOX], g)]
    BY <2>1, <2>2, Facts
  <2> QED
    BY <1>3, <2>1, <2>3, <2>4, CopyReserved
<1>7. CASE Drop(s)
  <2>1. b.space # s /\ b.space \in live' /\ space' = [space EXCEPT ![s] = Bare]
    BY <1>2, <1>3, <1>7 DEF Drop
  <2>2. \A v \in Vpns : Bare.frame[v] \in {space[s].frame[v], NoFrame} \cup free
    BY BareSound
  <2> QED
    BY <2>1, <2>2, OneReserved
<1>8. ASSUME NEW v \in UserPages, NEW d \in Byte, Store(s, v, d) \/ CopyOut(s, v, d)
      PROVE  Reserved(b)'
  <2>1. CASE UNCHANGED <<live, space>>
    BY <2>1 DEF Reserved, Alone, Holds
  <2>2. CASE Lazy(s, v) /\ LazyMap(s, v, LazyPerm(s, v), d) /\ live' = live
    BY <2>2, LazyReserved DEF Lazy
  <2> QED
    BY <1>8, <2>1, <2>2 DEF Store, CopyOut
<1>9. ASSUME NEW v \in UserPages, PageFault(s, v)
      PROVE  Reserved(b)'
  BY <1>9, FaultReserved
<1>10. ASSUME NEW v \in ProtPages, NEW w, Mprotect(s, v, w)
       PROVE  Reserved(b)'
  BY <1>10, EntriesReserved, DataAssumption
<1>11. ASSUME NEW addr, NEW page, Mmap(s, addr, page)
       PROVE  Reserved(b)'
  BY <1>11, EntriesReserved, UserFacts
<1>12. ASSUME NEW v \in MmapPages, NEW page, MmapFixed(s, v, page) \/ Munmap(s, v)
       PROVE  Reserved(b)'
  BY <1>12, EntriesReserved, UserFacts
<1> QED
  BY <1>4, <1>5, <1>6, <1>7, <1>8, <1>9, <1>10, <1>11, <1>12 DEF Step

\* A read translates its buffer while the page is alone on its frame, and gives the
\* buffer up with the store.
LEMMA ReadReserved ==
  ASSUME Plain, IInv, TInv, PInv, NEW q \in Readers, Read(q)
  PROVE  PInv'
<1>1. ASSUME NEW s \in Spaces, NEW v \in UserPages, Translate(q, s, v)
      PROVE  PInv'
  <2>1. s \in live \ {BUSYBOX} /\ live' = live /\ v \in Vpns
    BY <1>1, RunningSpace, UserFacts DEF Translate
  <2>2. \/ /\ space[s].ppn[v] # NoFrame /\ "W" \in space[s].flags[v] /\ space' = space
        \/ space[s].ppn[v] = NoFrame /\ LazyMap(s, v, LazyPerm(s, v), LazyByte(s, v))
    BY <1>1 DEF Translate, Plain, Lazy
  <2>3. PICK n : n = [space |-> s, page |-> v, frame |-> space'[s].ppn[v]]
    OBVIOUS
  <2>4. Reserved(n)'
    <3>1. CASE space[s].ppn[v] # NoFrame /\ "W" \in space[s].flags[v] /\ space' = space
      <4>1. PICK f : f = space[s].ppn[v]
        OBVIOUS
      <4>2. Alone(s, f)
        BY <3>1, <4>1, WritableAlone
      <4>3. Alone(s, f)'
        BY <3>1, <4>2 DEF Alone, Holds
      <4> QED
        BY <2>1, <2>3, <3>1, <4>1, <4>3 DEF Reserved, Alone
    <3>2. CASE space[s].ppn[v] = NoFrame /\ LazyMap(s, v, LazyPerm(s, v), LazyByte(s, v))
      <4>1. PICK f \in free :
              space' = [space EXCEPT ![s].ppn[v] = f, ![s].frame[v] = f,
                                     ![s].flags[v] = IF LazyPerm(s, v) THEN {"W"} ELSE {},
                                     ![s].mmap_map[v].valid = @ \/ v \in MmapPages]
        BY <3>2 DEF LazyMap
      <4>2. space'[s].ppn[v] = f /\ \A t \in Spaces \ {s} : space'[t] = space[t]
        BY <2>1, <4>1, Facts DEF MemorySet
      <4>3. f # NoFrame /\ \A t \in Spaces \ {s} : ~ Holds(space'[t], f)
        BY <4>2, Facts
      <4>4. Alone(s, f)'
        BY <4>3 DEF Alone, Holds
      <4> QED
        BY <2>1, <2>3, <4>2, <4>3, <4>4 DEF Reserved, Alone
    <3> QED
      BY <2>2, <3>1, <3>2
  <2>5. ASSUME NEW b, Reserved(b)
        PROVE  Reserved(b)'
    <3>1. CASE space' = space
      BY <2>1, <2>5, <3>1 DEF Reserved, Alone, Holds
    <3>2. CASE space[s].ppn[v] = NoFrame /\ LazyMap(s, v, LazyPerm(s, v), LazyByte(s, v))
      BY <2>1, <2>5, <3>2, LazyReserved
    <3> QED
      BY <2>2, <3>1, <3>2
  <2>6. ASSUME NEW r \in Readers, NEW b, buf'[r] = b, b # NoBuf
        PROVE  Reserved(b)'
    <3>1. buf' = [buf EXCEPT ![q] = n]
      BY <1>1, <2>3 DEF Translate
    <3>2. CASE r = q /\ b = n
      BY <3>2, <2>4
    <3>3. CASE buf[r] = b
      BY <3>3, <2>5, <2>6 DEF PInv
    <3>4. r = q => b = n \/ buf[r] = b
      BY <2>6, <3>1
    <3> QED
      BY <2>6, <3>1, <3>2, <3>3, <3>4
  <2> QED
    BY <2>6, ReservedNext
<1>2. CASE (\E d \in Byte : FillBuffer(q, d)) \/ Abandon(q)
  <2>1. buf' = [buf EXCEPT ![q] = NoBuf] /\ UNCHANGED <<live, space>>
    BY <1>2 DEF FillBuffer, Abandon
  <2>2. ASSUME NEW r \in Readers, NEW b, buf'[r] = b, b # NoBuf
        PROVE  Reserved(b)'
    <3>1. buf[r] = b
      BY <2>1, <2>2
    <3>2. Reserved(b)
      BY <2>2, <3>1 DEF PInv
    <3> QED
      BY <2>1, <3>2 DEF Reserved, Alone, Holds
  <2> QED
    BY <2>2, ReservedNext
<1> QED
  BY <1>1, <1>2 DEF Read

LEMMA BuffersStay ==
  ASSUME Plain, IInv, TInv, PInv, [Next]_vars
  PROVE  PInv'
<1>1. CASE UNCHANGED vars
  BY <1>1 DEF vars, PInv, Reserved, Alone, Holds
<1>2. ASSUME NEW s \in Spaces, Step(s), UNCHANGED buf
      PROVE  PInv'
  <2>1. ASSUME NEW r \in Readers, NEW b, buf'[r] = b, b # NoBuf
        PROVE  Reserved(b)'
    <3>1. buf[r] = b /\ Reserved(b)
      BY <1>2, <2>1 DEF PInv
    <3> QED
      BY <1>2, <2>1, <3>1, StepReserved
  <2> QED
    BY <2>1, ReservedNext
<1>3. CASE \E r \in Readers : Read(r)
  BY <1>3, ReadReserved
<1> QED
  BY <1>1, <1>2, <1>3 DEF Next
-----------------------------------------------------------------------------
(* The refinement *)

\* A step that touches one page of a running space is a store, or a stutter, of its memory.
LEMMA TouchStores ==
  ASSUME NEW s \in Spaces, s \in live, Touches(s)
  PROVE  Private!Store(s)
<1>1. PICK v \in UserPages : /\ View(s, v)' \in Byte \cup {Hole}
                             /\ \A u \in UserPages \ {v} : View(s, u)' = View(s, u)
  BY DEF Touches
<1> DEFINE d == View(s, v)'
<1>2. live' = live /\ \A t \in Spaces \ {s} : Views(t)' = Views(t)
  BY DEF Touches, Alike, Views
<1>3. Views(s)' = [Views(s) EXCEPT ![v] = d]
  BY <1>1 DEF Views
<1>4. \A t \in Spaces : Mem[t] = IF t \in live THEN Views(t) ELSE Gone
  BY DEF Mem
<1>5. Mem' = [t \in Spaces |-> IF t \in live' THEN Views(t)' ELSE Gone]
  BY DEF Mem
<1>6. Mem = [t \in Spaces |-> Mem[t]] /\ Mem[s] = Views(s)
  BY <1>4 DEF Mem
<1>7. d \in Byte \cup {Hole}
  BY <1>1
<1> HIDE DEF d
<1>8. Mem' = [Mem EXCEPT ![s] = [Mem[s] EXCEPT ![v] = d]]
  BY <1>2, <1>3, <1>4, <1>5, <1>6
<1>9. Mem' = [Mem EXCEPT ![s][v] = d]
  BY <1>8
<1> QED
  BY <1>2, <1>7, <1>9 DEF Private!Store

LEMMA ForkForks ==
  ASSUME IInv, TInv, VInv, NEW s \in Spaces, NEW c \in Spaces, Fork(s, c)
  PROVE  Private!Fork(s, c) /\ s \in live /\ c \in Spaces \ live
<1>1. /\ live' = live \cup {c} /\ s \in live /\ c \notin live
      /\ \A t \in Spaces \ {c} : Alike(t)
      /\ \A v \in UserPages : View(c, v)' = View(s, v)
  BY ForkCopies
<1>2. Views(c)' = Views(s) /\ \A t \in Spaces \ {c} : Views(t)' = Views(t)
  BY <1>1 DEF Views, Alike
<1>3. Mem' = [Mem EXCEPT ![c] = Mem[s]]
  BY <1>1, <1>2 DEF Mem
<1> QED
  BY <1>1, <1>3 DEF Private!Fork

LEMMA ExecExecs ==
  ASSUME IInv, TInv, VInv, NEW s \in Spaces, s \in live, Exec(s) \/ ExecBusybox(s)
  PROVE  Private!Exec(s)
<1> DEFINE m == Image(ArgPages)
<1>1. /\ live' = live /\ \A t \in Spaces \ {s} : Alike(t)
      /\ \A v \in UserPages : View(s, v)' = m[v]
  BY ExecLoads, ExecBusyboxLoads
<1>2. m = [v \in UserPages |-> m[v]]
  BY DEF Image
<1> HIDE DEF m
<1>3. Views(s)' = m /\ \A t \in Spaces \ {s} : Views(t)' = Views(t)
  BY <1>1, <1>2 DEF Views, Alike
<1>4. Mem' = [Mem EXCEPT ![s] = m]
  BY <1>1, <1>3 DEF Mem
<1>5. m \in {Image({}), Image(ArgPages)}
  BY DEF m
<1> QED
  BY <1>1, <1>4, <1>5 DEF Private!Exec

LEMMA DropDrops ==
  ASSUME IInv, TInv, VInv, NEW s \in Spaces, Drop(s)
  PROVE  Private!Drop(s) /\ s \in live
<1>1. live' = live \ {s} /\ s \in live /\ \A t \in Spaces \ {s} : Alike(t)
  BY DropForgets
<1>2. \A t \in Spaces \ {s} : Views(t)' = Views(t)
  BY <1>1 DEF Views, Alike
<1>3. Mem' = [Mem EXCEPT ![s] = Gone]
  BY <1>1, <1>2 DEF Mem
<1> QED
  BY <1>1, <1>3 DEF Private!Drop

\* Every step of a page is one of Touches.
LEMMA PageSteps ==
  ASSUME Plain, IInv, TInv, VInv, NEW s \in Spaces, Step(s),
         ~ (Exec(s) \/ ExecBusybox(s) \/ Drop(s)), ~ \E c \in Spaces : Fork(s, c)
  PROVE  Touches(s) /\ FitsNext /\ Running(s)
<1>1. CASE \E v \in UserPages : \/ PageFault(s, v)
                               \/ \E d \in Byte : Store(s, v, d) \/ CopyOut(s, v, d)
  BY <1>1, FaultTouches, StoreTouches, CopyOutTouches DEF PageFault, Store, CopyOut
<1>2. CASE \E v \in ProtPages, w \in Writable : Mprotect(s, v, w)
  BY <1>2, MprotectTouches DEF Mprotect
<1>3. \A w \in Writable, init \in MmapInits : MmapPage(w, init) \in MmapEntry
  BY DataAssumption DEF MmapPage, MmapEntry
<1>4. CASE \E w \in Writable, init \in MmapInits :
             \E addr \in MmapAddrs : Mmap(s, addr, MmapPage(w, init))
  BY <1>3, <1>4, MmapTouches DEF Mmap
<1>5. CASE \E w \in Writable, init \in MmapInits :
             \E addr \in MmapPages : MmapFixed(s, addr, MmapPage(w, init))
  BY <1>3, <1>5, MmapFixedTouches DEF MmapFixed
<1>6. CASE \E v \in MmapPages : Munmap(s, v)
  BY <1>6, MunmapTouches DEF Munmap
<1> QED
  BY <1>1, <1>2, <1>4, <1>5, <1>6 DEF Step

\* The step of the implementation is a step of PrivateMemory, and keeps VInv.
LEMMA RefinesStep ==
  ASSUME Plain, IInv, TInv, VInv, NEW s \in Spaces, Step(s)
  PROVE  Private!Next /\ VInv'
<1>1. s \in live /\ s # BUSYBOX /\ BUSYBOX \in Spaces
  <2>1. Running(s)
    BY PageSteps DEF Exec, ExecBusybox, Drop, Fork
  <2> QED
    BY <2>1, RunningSpace
<1>2. ASSUME FitsNext, Alike(BUSYBOX)
      PROVE  VInv'
  BY <1>2 DEF VInv, FitsNext, Alike, Image
<1>3. CASE Exec(s) \/ ExecBusybox(s)
  <2>1. FitsNext /\ Alike(BUSYBOX)
    BY <1>1, <1>3, ExecLoads, ExecBusyboxLoads
  <2> QED
    BY <1>1, <1>2, <1>3, <2>1, ExecExecs DEF Private!Next
<1>4. CASE Drop(s)
  <2>1. FitsNext /\ Alike(BUSYBOX)
    BY <1>1, <1>4, DropForgets
  <2> QED
    BY <1>2, <1>4, <2>1, DropDrops DEF Private!Next
<1>5. ASSUME NEW c \in Spaces, Fork(s, c)
      PROVE  Private!Next /\ VInv'
  <2>1. c # BUSYBOX
    BY <1>5, <1>1 DEF Fork, IInv
  <2>2. FitsNext /\ Alike(BUSYBOX)
    BY <1>1, <1>5, <2>1, ForkCopies
  <2> QED
    BY <1>2, <1>5, <2>2, ForkForks DEF Private!Next
<1>6. CASE ~ (Exec(s) \/ ExecBusybox(s) \/ Drop(s)) /\ ~ \E c \in Spaces : Fork(s, c)
  <2>1. Touches(s) /\ FitsNext
    BY <1>6, PageSteps
  <2>2. Alike(BUSYBOX)
    BY <1>1, <2>1 DEF Touches
  <2> QED
    BY <1>1, <1>2, <2>1, <2>2, TouchStores DEF Private!Next
<1> QED
  BY <1>3, <1>4, <1>5, <1>6

LEMMA RefinesInit ==
  ASSUME Init
  PROVE  Private!Init /\ VInv
<1> DEFINE Boot == {INITPROC, BUSYBOX}
<1>1. PICK g \in Injections(Boot \X EagerPages, Frames) :
        LET eager(s) == [v \in EagerPages |-> g[<<s, v>>]]
            used == {g[x] : x \in DOMAIN g} IN
        /\ live = Boot
        /\ space = [s \in Spaces |-> IF s \in live THEN Loaded(eager(s)) ELSE Bare]
        /\ data = [f \in Frames |-> IF f \in used THEN ElfByte ELSE 0]
  BY DEF Init
<1> DEFINE eager(s) == [v \in EagerPages |-> g[<<s, v>>]]
<1>2. /\ g \in [Boot \X EagerPages -> Frames] /\ DOMAIN g = Boot \X EagerPages
      /\ \A x, y \in Boot \X EagerPages : g[x] = g[y] => x = y
  BY DEF Injections
<1>3. /\ live = Boot /\ Boot \subseteq Spaces /\ BUSYBOX \in Boot
      /\ \A s \in Boot : space[s] = Loaded(eager(s))
      /\ \A s \in Spaces \ Boot : space[s] = Bare
      /\ \A x \in Boot \X EagerPages : data[g[x]] = ElfByte
  <2>1. Boot \subseteq Spaces
    BY DataAssumption
  <2>2. \A x \in Boot \X EagerPages : g[x] \in Frames
    BY <1>2
  <2> QED
    BY <1>1, <1>2, <2>1, <2>2
<1> HIDE DEF Boot
<1>4. NoFrame \notin Frames /\ ~ NoMmap.mapped
  BY DataAssumption DEF NoMmap
<1>5. EagerPages \in SUBSET (Vpns \ MapPages) /\ Frames \in SUBSET Frames
  BY PageFacts
<1>6. ASSUME NEW s \in Boot
      PROVE  Fits(space[s]) /\ \A v \in UserPages : View(s, v) = Image({})[v]
  <2> DEFINE e == eager(s)
             l == Loaded(e)
  <2>1. \A v \in EagerPages : <<s, v>> \in Boot \X EagerPages /\ e[v] = g[<<s, v>>]
    OBVIOUS
  <2>2. e \in [EagerPages -> Frames] /\ \A v, w \in EagerPages : e[v] = e[w] => v = w
    BY <2>1, <1>2
  <2>3. \A v \in EagerPages : data[e[v]] = ElfByte
    BY <2>1, <1>3
  <2>4. space[s] = l
    BY <1>3
  <2> HIDE DEF e
  <2>5. e \in Injections(EagerPages, Frames)
    BY <2>2 DEF Injections
  <2>6. \A v \in Vpns : /\ l.ppn[v] = IF v \in EagerPages THEN e[v] ELSE NoFrame
                        /\ v \in EagerPages => e[v] \in Frames
                        /\ l.mmap_map[v] = NoMmap
    BY <2>5, <1>5, LoadedSound
  <2> HIDE DEF l
  <2>7. Fits(l)
    BY <2>6, <1>4, UserFacts DEF Fits
  <2>8. ASSUME NEW v \in UserPages
        PROVE  Look(l, data, v) = Image({})[v]
    <3>1. v \in Vpns /\ (v \in EagerPages <=> v \in ElfPages)
      BY UserFacts, PageFacts
    <3>2. CASE v \in ElfPages
      BY <3>1, <3>2, <2>3, <2>6, <1>4 DEF Look, Image
    <3>3. CASE v \notin ElfPages
      BY <3>1, <3>3, <2>6, <1>4 DEF Look, Image
    <3> QED
      BY <3>2, <3>3
  <2> QED
    BY <2>4, <2>7, <2>8, <1>3, ViewIs
<1>7. VInv
  <2>1. Fits(Bare)
    BY BareSound, UserFacts, <1>4 DEF Fits
  <2> QED
    BY <2>1, <1>3, <1>6 DEF VInv
<1>8. \A s \in Boot : Views(s) = Image({})
  BY <1>6 DEF Views, Image
<1> DEFINE m == Image({})
<1>9. Mem = [s \in Spaces |-> IF s \in Boot THEN m ELSE Gone]
  BY <1>3, <1>8 DEF Mem
<1>10. m \in {Image({}), Image(ArgPages)}
  OBVIOUS
<1> HIDE DEF m
<1>11. live = {INITPROC, BUSYBOX} /\ Mem = [s \in Spaces |-> IF s \in {INITPROC, BUSYBOX} THEN m ELSE Gone]
  BY <1>3, <1>9 DEF Boot
<1> QED
  BY <1>7, <1>10, <1>11 DEF Private!Init

\* Nothing but buffers changes.
LEMMA SameMemory ==
  ASSUME VInv, UNCHANGED <<live, space, data>>
  PROVE  UNCHANGED <<live, Mem>> /\ VInv'
<1>1. UNCHANGED <<live, Mem>>
  BY DEF Mem, Views, View, Lazy, InMmap, LazyByte
<1>2. VInv'
  BY DEF VInv, View, Lazy, InMmap, LazyByte, Image, Fits
<1> QED
  BY <1>1, <1>2

\* A step that touches one page of a running space keeps the template of busybox.
LEMMA RefinesTouch ==
  ASSUME VInv, NEW s \in live \ {BUSYBOX}, s \in Spaces, Touches(s), FitsNext
  PROVE  Private!Next /\ VInv'
<1>1. BUSYBOX \in Spaces
  BY DataAssumption
<1>2. Alike(BUSYBOX)
  BY <1>1 DEF Touches
<1>3. VInv'
  BY <1>2 DEF VInv, FitsNext, Alike, Image
<1> QED
  BY <1>3, TouchStores DEF Private!Next

\* A read that waits is a store, or nothing, when it translates its buffer, and a store when
\* the bytes come.
LEMMA RefinesRead ==
  ASSUME Plain, IInv, TInv, VInv, PInv, NEW r \in Readers, Read(r)
  PROVE  [Private!Next]_<<live, Mem>> /\ VInv'
<1>1. ASSUME NEW s \in Spaces, NEW v \in UserPages, Translate(r, s, v)
      PROVE  [Private!Next]_<<live, Mem>> /\ VInv'
  <2>1. s \in live \ {BUSYBOX} /\ live' = live
    BY <1>1, RunningSpace DEF Translate
  <2>2. CASE UNCHANGED <<space, refcounter, free, data>>
    BY <2>1, <2>2, SameMemory
  <2>3. CASE LazyMap(s, v, LazyPerm(s, v), LazyByte(s, v))
    <3> DEFINE w == LazyPerm(s, v)
               d == LazyByte(s, v)
    <3>1. d \in Byte /\ LazyMap(s, v, w, d)
      BY <2>3, LazyTypes
    <3> HIDE DEF w, d
    <3>2. Touches(s) /\ FitsNext
      BY <2>1, <3>1, LazyTouches
    <3> QED
      BY <2>1, <3>2, RefinesTouch
  <2> QED
    BY <1>1, <2>2, <2>3 DEF Translate
<1>2. ASSUME NEW d \in Byte, FillBuffer(r, d)
      PROVE  [Private!Next]_<<live, Mem>> /\ VInv'
  <2>1. PICK b : b = buf[r]
    OBVIOUS
  <2>2. /\ b.space \in live \ {BUSYBOX} /\ b.space \in Spaces /\ b.page \in UserPages
        /\ space[b.space].ppn[b.page] # NoFrame /\ Alone(b.space, space[b.space].ppn[b.page])
        /\ data' = [data EXCEPT ![space[b.space].ppn[b.page]] = d] /\ UNCHANGED <<live, space>>
    BY <1>2, <2>1, Facts DEF FillBuffer, PInv, Reserved
  <2>3. Touches(b.space) /\ FitsNext
    BY <2>2, ExclusiveStore
  <2> QED
    BY <2>2, <2>3, RefinesTouch
<1>3. CASE Abandon(r)
  BY <1>3, SameMemory DEF Abandon
<1> QED
  BY <1>1, <1>2, <1>3 DEF Read

LEMMA RefinesNext ==
  ASSUME Plain, IInv, TInv, VInv, PInv, [Next]_vars
  PROVE  [Private!Next]_<<live, Mem>> /\ VInv'
<1>1. CASE UNCHANGED vars
  BY <1>1, SameMemory DEF vars
<1>2. CASE \E s \in Spaces : Step(s)
  BY <1>2, RefinesStep
<1>3. CASE \E r \in Readers : Read(r)
  BY <1>3, RefinesRead
<1> QED
  BY <1>1, <1>2, <1>3 DEF Next

\* Copy on write, lazy allocation and the pages shared with the template of busybox are
\* invisible, for any spaces, pages and frames, and so is the frame a waiting read has kept
\* from before it was suspended: while the programs do nothing of AllCalls, every space
\* behaves as a memory of its own, which fork copies and exec replaces.  Without that the
\* bytes of a waiting read land in a frame that fork has shared meanwhile, or exec freed.
THEOREM SpacesArePrivate ==
  ASSUME Plain
  PROVE  Spec => IsPrivate
<1>1. Tame
  BY PlainTame
<1>2. Spec => [](IInv /\ TInv)
  BY <1>1, TameInvariant
<1>3. Init => Private!Init /\ VInv /\ PInv
  BY RefinesInit DEF Init, PInv
<1>4. IInv /\ TInv /\ VInv /\ PInv /\ [Next]_vars => [Private!Next]_<<live, Mem>> /\ VInv' /\ PInv'
  BY RefinesNext, BuffersStay
<1> QED
  BY <1>2, <1>3, <1>4, PTL DEF Spec, IsPrivate, Private!Spec
=============================================================================
