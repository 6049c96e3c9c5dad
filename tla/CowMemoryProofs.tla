-------------------------- MODULE CowMemoryProofs --------------------------
(***************************************************************************)
(* Proofs about CowMemory, for any number of spaces, pages and frames.     *)
(* Frames are counted right whatever the programs call; that every entry   *)
(* is tracked and every writable frame exclusive takes programs that leave *)
(* their touched mmap pages alone.                                         *)
(***************************************************************************)
EXTENDS CowMemory, FiniteSetTheorems, FunctionTheorems, TLAPS

\* Space sp has a tracker of frame f.
Holds(sp, f) == \E v \in Vpns : sp.frame[v] = f

\* The spaces that have one.
Holders(f) == {s \in Spaces : Holds(space[s], f)}

\* A space tracks a frame once.
Once(sp) ==
  \A v, u \in Vpns : sp.frame[v] = sp.frame[u] /\ sp.frame[v] # NoFrame => v = u

\* The pages that mmap gives.
MapPages == {0} \cup MmapPages

\* Every space: off the mmap region the entry of a page is the frame it tracks.
Sound(sp) ==
  /\ sp \in MemorySet
  /\ Once(sp)
  /\ \A v \in Vpns \ MapPages : sp.ppn[v] = sp.frame[v]

\* refcounter counts the spaces that track a frame.
Counts ==
  \A f \in Frames : /\ refcounter[f] = Cardinality(Holders(f))
                    /\ f \in free <=> Holders(f) = {}

\* The inductive invariant for any programs.
IInv ==
  /\ MemoryTypes
  /\ \A s \in Spaces : Sound(space[s])
  /\ BUSYBOX \in live /\ \A s \in Spaces \ live : space[s] = Bare
  /\ \A s \in live, v \in TrapPages : space[s].ppn[v] # NoFrame
  /\ Counts

\* The programs leave their touched mmap pages alone.
Tame == Calls \subseteq {"untouched", "suspended"}

\* Then the mmap region is tracked too: an mmap page with an entry is valid, so that
\* fork shares it, and lies below mmap_top, so that mmap does not give it again.
Tracked(sp) ==
  /\ sp.ppn[0] = NoFrame /\ \A v \in MapPages : sp.ppn[v] = sp.frame[v]
  /\ \A v \in MmapPages : sp.ppn[v] # NoFrame => sp.mmap_map[v].valid /\ v < sp.mmap_top
  /\ \A v \in Vpns : sp.mmap_map[v].valid => v \in MmapPages

\* No other space has the frame of a page that may be stored to.
Exclusive ==
  \A s, t \in Spaces, v \in Vpns :
    space[s].ppn[v] # NoFrame /\ "W" \in space[s].flags[v] /\ Holds(space[t], space[s].ppn[v]) => s = t

TInv == (\A s \in Spaces : Tracked(space[s])) /\ Exclusive
-----------------------------------------------------------------------------
(* Counting *)

LEMMA CountIs ==
  ASSUME NEW sp, Once(sp), NEW f \in Frames
  PROVE  Count(sp, f) = IF Holds(sp, f) THEN 1 ELSE 0
<1> DEFINE S == {v \in Vpns : sp.frame[v] = f}
<1>1. f # NoFrame
  BY DataAssumption
<1>2. CASE Holds(sp, f)
  <2>1. PICK v \in Vpns : sp.frame[v] = f
    BY <1>2 DEF Holds
  <2>2. S = {v}
    BY <1>1, <2>1 DEF Once
  <2> QED
    BY <1>2, <2>2, FS_Singleton DEF Count
<1>3. CASE ~ Holds(sp, f)
  <2>1. S = {}
    BY <1>3 DEF Holds
  <2> QED
    BY <1>3, <2>1, FS_EmptySet DEF Count
<1> QED
  BY <1>2, <1>3

\* The counter of a frame fits: there are fewer spaces than the u8 can count.
LEMMA HoldersBound ==
  ASSUME NEW f
  PROVE  /\ IsFiniteSet(Holders(f)) /\ Cardinality(Holders(f)) \in Nat
         /\ Cardinality(Holders(f)) <= Cardinality(Spaces)
         /\ Cardinality(Holders(f)) = 0 <=> Holders(f) = {}
         /\ Cardinality(Spaces) \in Nat /\ Cardinality(Spaces) < RefMod /\ RefMod \in Nat
<1>1. Holders(f) \in SUBSET Spaces
  BY DEF Holders
<1>2. IsFiniteSet(Holders(f)) /\ Cardinality(Holders(f)) <= Cardinality(Spaces)
  BY <1>1, RefAssumption, FS_Subset
<1> QED
  BY <1>2, RefAssumption, FS_CardinalityType, FS_EmptySet

LEMMA HoldersBoundPrimed ==
  ASSUME NEW f
  PROVE  /\ IsFiniteSet(Holders(f)') /\ Cardinality(Holders(f)') \in Nat
         /\ Cardinality(Holders(f)') <= Cardinality(Spaces)
         /\ Cardinality(Holders(f)') = 0 <=> Holders(f)' = {}
<1>1. Holders(f)' \in SUBSET Spaces
  BY DEF Holders
<1>2. IsFiniteSet(Holders(f)') /\ Cardinality(Holders(f)') <= Cardinality(Spaces)
  BY <1>1, RefAssumption, FS_Subset
<1> QED
  BY <1>2, RefAssumption, FS_CardinalityType, FS_EmptySet

LEMMA Modulo ==
  ASSUME NEW n \in Nat, n <= RefMod, RefMod \in Nat, RefMod > 0
  PROVE  n % RefMod = IF n = RefMod THEN 0 ELSE n
  OBVIOUS

\* How the holders of a frame change when the trackers of one space do.
LEMMA HoldersChange ==
  ASSUME NEW s \in Spaces, NEW new,
         \A t \in Spaces : space'[t].frame = IF t = s THEN new.frame ELSE space[t].frame,
         NEW f
  PROVE  /\ Holders(f)' = IF Holds(new, f) THEN Holders(f) \cup {s} ELSE Holders(f) \ {s}
         /\ s \in Holders(f) <=> Holds(space[s], f)
         /\ Cardinality(Holders(f)') =
              Cardinality(Holders(f)) + (IF Holds(new, f) THEN 1 ELSE 0)
                                      - (IF Holds(space[s], f) THEN 1 ELSE 0)
<1>1. \A t \in Spaces : Holds(space[t], f)' <=> IF t = s THEN Holds(new, f) ELSE Holds(space[t], f)
  BY DEF Holds
<1>2. Holders(f)' = IF Holds(new, f) THEN Holders(f) \cup {s} ELSE Holders(f) \ {s}
  BY <1>1 DEF Holders
<1>3. s \in Holders(f) <=> Holds(space[s], f)
  BY DEF Holders
<1>4. IsFiniteSet(Holders(f)) /\ Cardinality(Holders(f)) \in Nat
  BY HoldersBound
<1>5. /\ Cardinality(Holders(f) \cup {s}) =
           IF s \in Holders(f) THEN Cardinality(Holders(f)) ELSE Cardinality(Holders(f)) + 1
      /\ Cardinality(Holders(f) \ {s}) =
           IF s \in Holders(f) THEN Cardinality(Holders(f)) - 1 ELSE Cardinality(Holders(f))
  BY <1>4, FS_AddElement, FS_RemoveElement
<1>6. Cardinality(Holders(f)') =
        Cardinality(Holders(f)) + (IF Holds(new, f) THEN 1 ELSE 0)
                                - (IF Holds(space[s], f) THEN 1 ELSE 0)
  <2>1. CASE Holds(new, f)
    <3>1. Cardinality(Holders(f)') = Cardinality(Holders(f) \cup {s})
      BY <2>1, <1>2
    <3> QED
      BY <2>1, <3>1, <1>3, <1>4, <1>5
  <2>2. CASE ~ Holds(new, f)
    <3>1. Cardinality(Holders(f)') = Cardinality(Holders(f) \ {s})
      BY <2>2, <1>2
    <3> QED
      BY <2>2, <3>1, <1>3, <1>4, <1>5
  <2> QED
    BY <2>1, <2>2
<1> QED
  BY <1>2, <1>3, <1>6

\* A space gets other trackers: fork, exec and the end of a process.
LEMMA RetrackKeeps ==
  ASSUME Counts, NEW s \in Spaces, NEW new, Once(space[s]), Once(new),
         \A t \in Spaces : space'[t].frame = IF t = s THEN new.frame ELSE space[t].frame,
         Retrack(space[s], new)
  PROVE  Counts' /\ refcounter' \in [Frames -> 0 .. (RefMod - 1)] /\ free' \in SUBSET Frames
<1> DEFINE refs(f) == (refcounter[f] + Count(new, f)) % RefMod
<1>1. ASSUME NEW f \in Frames
      PROVE  /\ refcounter'[f] = Cardinality(Holders(f)')
             /\ refcounter'[f] \in 0 .. (RefMod - 1)
             /\ f \in free' <=> Holders(f)' = {}
  <2> DEFINE n == Cardinality(Holders(f))
             m == Cardinality(Holders(f)')
             a == Count(space[s], f)
             b == Count(new, f)
  <2>1. /\ a = IF Holds(space[s], f) THEN 1 ELSE 0
        /\ b = IF Holds(new, f) THEN 1 ELSE 0
    BY CountIs
  <2>2. /\ n \in Nat /\ n <= Cardinality(Spaces) /\ Cardinality(Spaces) \in Nat
        /\ Cardinality(Spaces) < RefMod /\ RefMod \in Nat /\ (n = 0 <=> Holders(f) = {})
    BY HoldersBound
  <2>3. m \in Nat /\ m <= Cardinality(Spaces) /\ (m = 0 <=> Holders(f)' = {})
    BY HoldersBoundPrimed
  <2>4. /\ Holders(f)' = IF Holds(new, f) THEN Holders(f) \cup {s} ELSE Holders(f) \ {s}
        /\ s \in Holders(f) <=> Holds(space[s], f)
        /\ m = n + (IF Holds(new, f) THEN 1 ELSE 0) - (IF Holds(space[s], f) THEN 1 ELSE 0)
    BY HoldersChange
  <2>5. refcounter[f] = n /\ (f \in free <=> n = 0)
    BY <2>2 DEF Counts
  <2>6. /\ refs(f) >= a /\ refcounter'[f] = refs(f) - a
        /\ f \in free' <=> (refcounter'[f] = 0 /\ a > 0) \/ (f \in free /\ b = 0)
    BY DEF Retrack
  <2>7. a \in {0, 1} /\ b \in {0, 1} /\ m = n + b - a /\ (a = 1 => n > 0)
    <3>1. Holds(space[s], f) => Holders(f) # {}
      BY <2>4
    <3> QED
      BY <3>1, <2>1, <2>2, <2>4
  <2>8. refs(f) = IF n + b = RefMod THEN 0 ELSE n + b
    <3>1. refs(f) = (n + b) % RefMod
      BY <2>5
    <3>2. n + b \in Nat /\ n + b <= RefMod /\ RefMod > 0
      BY <2>2, <2>7
    <3> HIDE DEF n, b, refs
    <3> QED
      BY <3>1, <3>2, <2>2, Modulo
  <2> HIDE DEF n, m, a, b, refs
  <2>9. refcounter'[f] = m /\ m < RefMod
    BY <2>2, <2>3, <2>6, <2>7, <2>8
  <2>10. f \in free' <=> m = 0
    BY <2>2, <2>3, <2>5, <2>6, <2>7, <2>9
  <2> QED
    BY <2>2, <2>3, <2>9, <2>10 DEF m
<1>2. refcounter' = [f \in Frames |-> refs(f) - Count(space[s], f)] /\ free' \subseteq Frames
  BY DEF Retrack
<1> HIDE DEF refs
<1>3. refcounter' \in [Frames -> 0 .. (RefMod - 1)]
  BY <1>1, <1>2
<1> QED
  BY <1>1, <1>2, <1>3 DEF Counts

\* One page gets another frame, or loses the one it has: faults, munmap and mmap.
LEMMA RetrackPageKeeps ==
  ASSUME Counts, NEW s \in Spaces, NEW v \in Vpns, NEW g \in free \cup {NoFrame}, free \subseteq Frames,
         space[s].frame \in [Vpns -> Owner], Once(space[s]),
         space'[s].frame = [space[s].frame EXCEPT ![v] = g],
         \A t \in Spaces \ {s} : space'[t].frame = space[t].frame,
         RetrackPage(space[s].frame[v], g)
  PROVE  /\ Counts' /\ refcounter' \in [Frames -> 0 .. (RefMod - 1)] /\ free' \in SUBSET Frames
         /\ Once(space'[s])
<1> DEFINE old == space[s].frame
           new == space'[s]
           fv == old[v]
<1>1. \A t \in Spaces : space'[t].frame = IF t = s THEN new.frame ELSE space[t].frame
  OBVIOUS
<1>2. \A u \in Vpns : new.frame[u] = IF u = v THEN g ELSE old[u]
  OBVIOUS
<1>3. fv \in Owner /\ g \in Owner /\ NoFrame \notin Frames
  BY DataAssumption DEF Owner
<1>4. g # NoFrame => g \in Frames /\ ~ Holds(space[s], g) /\ Holders(g) = {}
  BY DEF Counts, Holders
<1>5. Once(new)
  <2>1. ASSUME NEW w \in Vpns, NEW u \in Vpns, new.frame[w] = new.frame[u], new.frame[w] # NoFrame
        PROVE  w = u
    BY <2>1, <1>2, <1>4 DEF Once, Holds
  <2> QED
    BY <2>1 DEF Once
<1>6. ASSUME NEW h \in Frames
      PROVE  Holds(new, h) <=> h = g \/ (h # fv /\ Holds(space[s], h))
  <2>1. h # NoFrame
    BY <1>3
  <2>2. CASE h = g
    BY <2>2, <1>2 DEF Holds
  <2>3. CASE h # g /\ h = fv
    BY <2>1, <2>3, <1>2 DEF Holds, Once
  <2>4. CASE h # g /\ h # fv
    BY <2>4, <1>2 DEF Holds
  <2> QED
    BY <2>2, <2>3, <2>4
<1>7. /\ fv # NoFrame => refcounter[fv] > 0
      /\ refcounter' = [h \in Frames |-> IF h = fv THEN refcounter[h] - 1
                                         ELSE IF h = g THEN 1 ELSE refcounter[h]]
      /\ free' = (free \ {g}) \cup {h \in {fv} \ {NoFrame} : refcounter[h] = 1}
  BY DEF RetrackPage
<1>8. ASSUME NEW h \in Frames
      PROVE  /\ refcounter'[h] = Cardinality(Holders(h)')
             /\ refcounter'[h] \in 0 .. (RefMod - 1)
             /\ h \in free' <=> Holders(h)' = {}
  <2> DEFINE n == Cardinality(Holders(h))
             m == Cardinality(Holders(h)')
  <2>1. /\ n \in Nat /\ n <= Cardinality(Spaces) /\ Cardinality(Spaces) \in Nat
        /\ Cardinality(Spaces) < RefMod /\ RefMod \in Nat /\ (n = 0 <=> Holders(h) = {})
    BY HoldersBound
  <2>2. m \in Nat /\ m <= Cardinality(Spaces) /\ (m = 0 <=> Holders(h)' = {})
    BY HoldersBoundPrimed
  <2>3. m = n + (IF Holds(new, h) THEN 1 ELSE 0) - (IF Holds(space[s], h) THEN 1 ELSE 0)
    BY <1>1, HoldersChange
  <2>4. refcounter[h] = n /\ (h \in free <=> n = 0)
    BY <2>1 DEF Counts
  <2>5. refcounter'[h] = IF h = fv THEN refcounter[h] - 1 ELSE IF h = g THEN 1 ELSE refcounter[h]
    BY <1>7
  <2>6. h \in free' <=> (h \in free /\ h # g) \/ (h = fv /\ refcounter[h] = 1)
    BY <1>3, <1>7
  <2>7. /\ h = fv => h # g /\ Holds(space[s], h) /\ ~ Holds(new, h)
        /\ h = g => h # fv /\ n = 0 /\ ~ Holds(space[s], h) /\ Holds(new, h)
        /\ h # g /\ h # fv => (Holds(space[s], h) <=> Holds(new, h))
    <3>1. h = fv => Holds(space[s], h) /\ h # g
      BY <1>3, <1>4 DEF Holds
    <3> QED
      BY <3>1, <2>1, <1>3, <1>4, <1>6
  <2> HIDE DEF n, m, fv, new
  <2>8. refcounter'[h] = m
    <3>1. CASE h = fv
      BY <3>1, <2>1, <2>2, <2>3, <2>4, <2>5, <2>7
    <3>2. CASE h = g
      BY <3>2, <2>1, <2>2, <2>3, <2>4, <2>5, <2>7
    <3>3. CASE h # g /\ h # fv
      BY <3>3, <2>1, <2>2, <2>3, <2>4, <2>5, <2>7
    <3> QED
      BY <3>1, <3>2, <3>3
  <2>9. h \in free' <=> m = 0
    <3>1. CASE h = fv
      <4>1. m = n - 1 /\ h # g
        BY <3>1, <2>1, <2>3, <2>7
      <4> QED
        BY <3>1, <4>1, <2>1, <2>2, <2>4, <2>6
    <3>2. CASE h = g
      BY <3>2, <2>1, <2>2, <2>3, <2>4, <2>6, <2>7
    <3>3. CASE h # g /\ h # fv
      BY <3>3, <2>1, <2>2, <2>3, <2>4, <2>6, <2>7
    <3> QED
      BY <3>1, <3>2, <3>3
  <2> QED
    BY <2>1, <2>2, <2>8, <2>9 DEF m
<1>9. refcounter' \in [Frames -> 0 .. (RefMod - 1)]
  BY <1>7, <1>8
<1>10. free' \in SUBSET Frames
  BY <1>3, <1>7 DEF Owner
<1> QED
  BY <1>5, <1>8, <1>9, <1>10 DEF Counts
-----------------------------------------------------------------------------
(* The spaces that exec and fork make *)

LEMMA PageFacts ==
  /\ EagerPages \subseteq Vpns /\ TrapPages \subseteq EagerPages /\ ArgPages \subseteq LazyPages
  /\ LazyPages \subseteq Vpns /\ MapPages \subseteq Vpns /\ Vpns = MapPages \cup EagerPages \cup LazyPages
  /\ (EagerPages \cup LazyPages) \cap MapPages = {} /\ 0 \notin MmapPages
  /\ ElfPages \cap TrapPages = {} /\ EagerPages \cap LazyPages = {} /\ ElfPages \subseteq EagerPages
  /\ EagerPages = ElfPages \cup TrapPages
  /\ MmapStart \in MmapStart .. (MmapEnd + 1)
<1>1. MmapStart \in Nat \ {0} /\ MmapEnd \in Nat /\ MmapStart <= MmapEnd + 1
  BY PagesAssumption
<1>2. /\ EagerPages \cup LazyPages \subseteq 1 .. (MmapStart - 1)
      /\ ElfPages \cap TrapPages = {}
      /\ EagerPages \cap LazyPages = {} /\ ArgPages \subseteq LazyPages
  BY PagesAssumption
<1>3. (EagerPages \cup LazyPages) \cap MapPages = {} /\ 0 \notin MmapPages
  BY <1>1, <1>2 DEF MapPages, MmapPages
<1>4. MmapStart \in MmapStart .. (MmapEnd + 1)
  BY <1>1
<1> QED
  BY <1>2, <1>3, <1>4 DEF Vpns, MapPages, EagerPages

\* A space that is loaded has the frames it was given.
LEMMA LoadedSound ==
  ASSUME NEW S \in SUBSET (Vpns \ MapPages), NEW F \in SUBSET Frames, NEW g \in Injections(S, F)
  PROVE  /\ Sound(Loaded(g))
         /\ \A v \in Vpns : /\ Loaded(g).ppn[v] = IF v \in S THEN g[v] ELSE NoFrame
                            /\ Loaded(g).frame[v] = Loaded(g).ppn[v]
                            /\ v \in S => g[v] \in F
                            /\ Loaded(g).mmap_map[v] = NoMmap
         /\ Loaded(g).mmap_top = MmapStart
<1> DEFINE sp == Loaded(g)
           pp == [v \in Vpns |-> IF v \in S THEN g[v] ELSE NoFrame]
           fl == [v \in Vpns |-> IF v \in S \ TextPages THEN {"W"} ELSE {}]
           mm == [v \in Vpns |-> NoMmap]
<1>1. g \in [S -> F] /\ DOMAIN g = S /\ \A v, w \in S : g[v] = g[w] => v = w
  BY DEF Injections
<1>2. sp = [ppn |-> pp, flags |-> fl, frame |-> pp, mmap_map |-> mm, mmap_top |-> MmapStart]
  BY <1>1 DEF Loaded
<1>3. \A v \in S : g[v] \in F /\ g[v] \in Frames
  BY <1>1
<1>4. NoMmap \in MmapEntry
  BY DataAssumption DEF NoMmap, MmapEntry
<1>5. /\ pp \in [Vpns -> Owner] /\ fl \in [Vpns -> SUBSET {"W", "COW"}] /\ mm \in [Vpns -> MmapEntry]
      /\ \A v \in Vpns : pp[v] = (IF v \in S THEN g[v] ELSE NoFrame) /\ mm[v] = NoMmap
  BY <1>3, <1>4 DEF Owner
<1> HIDE DEF pp, fl, mm
<1>6. sp \in MemorySet /\ sp.ppn = pp /\ sp.frame = pp /\ sp.mmap_map = mm /\ sp.mmap_top = MmapStart
  BY <1>2, <1>5, PageFacts DEF MemorySet
<1> HIDE DEF sp
<1>7. Once(sp)
  BY <1>1, <1>5, <1>6 DEF Once
<1> QED
  BY <1>3, <1>5, <1>6, <1>7 DEF Sound, sp

LEMMA BareSound ==
  /\ Sound(Bare) /\ \A v \in Vpns : Bare.ppn[v] = NoFrame /\ Bare.frame[v] = NoFrame
  /\ \A v \in Vpns : Bare.mmap_map[v] = NoMmap
  /\ Bare.mmap_top = MmapStart /\ \A f \in Frames : ~ Holds(Bare, f)
<1> DEFINE S == {}
           g == [v \in S |-> NoFrame]
<1>1. g \in Injections(S, S)
  BY DEF Injections
<1>2. S \in SUBSET (Vpns \ MapPages) /\ S \in SUBSET Frames /\ \A v : v \notin S
  OBVIOUS
<1>3. Bare = Loaded(g)
  BY DEF Bare
<1> HIDE DEF g, S
<1>4. /\ Sound(Bare) /\ \A v \in Vpns : Bare.ppn[v] = NoFrame /\ Bare.frame[v] = NoFrame
      /\ \A v \in Vpns : Bare.mmap_map[v] = NoMmap
      /\ Bare.mmap_top = MmapStart
  <2> DEFINE l == Loaded(g)
  <2>1. /\ Sound(l) /\ l.mmap_top = MmapStart
        /\ \A v \in Vpns : /\ l.ppn[v] = IF v \in S THEN g[v] ELSE NoFrame
                           /\ l.frame[v] = l.ppn[v] /\ l.mmap_map[v] = NoMmap
    BY <1>1, <1>2, LoadedSound
  <2> HIDE DEF l
  <2>2. Bare = l
    BY <1>3 DEF l
  <2> QED
    BY <2>1, <2>2, <1>2
<1> QED
  BY <1>4, DataAssumption DEF Holds

\* The parent of a fork keeps its frames.
LEMMA CowParentSound ==
  ASSUME NEW sp, Sound(sp)
  PROVE  LET p == CowParent(sp) IN
         /\ Sound(p) /\ p.ppn = sp.ppn /\ p.frame = sp.frame
         /\ p.mmap_map = sp.mmap_map /\ p.mmap_top = sp.mmap_top
         /\ \A v \in Vpns : p.flags[v] = CowFlags(sp, v)
<1> DEFINE p == CowParent(sp)
           fl == [v \in Vpns |-> CowFlags(sp, v)]
<1>1. sp.flags \in [Vpns -> SUBSET {"W", "COW"}]
  BY DEF Sound, MemorySet
<1>2. fl \in [Vpns -> SUBSET {"W", "COW"}] /\ \A v \in Vpns : fl[v] = CowFlags(sp, v)
  BY <1>1 DEF CowFlags
<1>3. p = [sp EXCEPT !.flags = fl]
  BY DEF CowParent
<1> HIDE DEF fl
<1>4. /\ p \in MemorySet /\ p.ppn = sp.ppn /\ p.frame = sp.frame /\ p.flags = fl
      /\ p.mmap_map = sp.mmap_map /\ p.mmap_top = sp.mmap_top
  BY <1>2, <1>3 DEF Sound, MemorySet
<1> HIDE DEF p
<1>5. Sound(p)
  BY <1>4 DEF Sound, Once
<1> QED
  BY <1>2, <1>4, <1>5 DEF p

\* Space c is a copy of sp with the frames g, of F, on the pages S.
IsCopy(sp, S, F, g, c) ==
  /\ Sound(c)
  /\ \A v \in Vpns :
       /\ c.ppn[v] = IF v \in S THEN g[v] ELSE IF Shared(sp, v) THEN sp.ppn[v] ELSE NoFrame
       /\ c.flags[v] = IF v \in S THEN {"W"} ELSE IF Shared(sp, v) THEN CowFlags(sp, v) ELSE {}
       /\ c.frame[v] = IF v \in S THEN g[v] ELSE IF v \in MapPages THEN sp.frame[v]
                       ELSE IF Shared(sp, v) THEN sp.ppn[v] ELSE NoFrame
       /\ v \in S => g[v] \in F
  /\ c.mmap_map = sp.mmap_map /\ c.mmap_top = sp.mmap_top

\* The child tracks frames of the parent, on the same pages, and new ones.
LEMMA CowChildSound ==
  ASSUME NEW sp, Sound(sp), NEW S \in SUBSET (Vpns \ MapPages), TrapPages \subseteq S,
         NEW F \in SUBSET Frames, NEW g \in Injections(S, F), \A f \in F : ~ Holds(sp, f)
  PROVE  IsCopy(sp, S, F, g, CowChild(sp, g))
<1> DEFINE c == CowChild(sp, g)
           pp == [v \in Vpns |-> IF v \in S THEN g[v] ELSE IF Shared(sp, v) THEN sp.ppn[v] ELSE NoFrame]
           fl == [v \in Vpns |-> IF v \in S THEN {"W"} ELSE IF Shared(sp, v) THEN CowFlags(sp, v) ELSE {}]
           fr == [v \in Vpns |-> IF v \in S THEN g[v] ELSE IF v \in MapPages THEN sp.frame[v]
                                 ELSE IF Shared(sp, v) THEN sp.ppn[v] ELSE NoFrame]
<1>1. g \in [S -> F] /\ DOMAIN g = S /\ \A v, w \in S : g[v] = g[w] => v = w
  BY DEF Injections
<1>2. c = [ppn |-> pp, flags |-> fl, frame |-> fr, mmap_map |-> sp.mmap_map, mmap_top |-> sp.mmap_top]
  BY <1>1 DEF CowChild, MapPages
<1>3. /\ sp.ppn \in [Vpns -> Owner] /\ sp.flags \in [Vpns -> SUBSET {"W", "COW"}]
      /\ sp.frame \in [Vpns -> Owner] /\ sp.mmap_map \in [Vpns -> MmapEntry]
      /\ sp.mmap_top \in MmapStart .. (MmapEnd + 1)
  BY DEF Sound, MemorySet
<1>4. \A v \in S : g[v] \in F /\ g[v] \in Frames /\ g[v] # NoFrame
  BY <1>1, DataAssumption
<1>5. \A v \in Vpns : CowFlags(sp, v) \in SUBSET {"W", "COW"}
  BY <1>3 DEF CowFlags
<1>6. pp \in [Vpns -> Owner] /\ fr \in [Vpns -> Owner]
  BY <1>3, <1>4 DEF Owner
<1>7. fl \in [Vpns -> SUBSET {"W", "COW"}]
  BY <1>5
<1>8. \A v \in Vpns :
        /\ pp[v] = IF v \in S THEN g[v] ELSE IF Shared(sp, v) THEN sp.ppn[v] ELSE NoFrame
        /\ fl[v] = IF v \in S THEN {"W"} ELSE IF Shared(sp, v) THEN CowFlags(sp, v) ELSE {}
        /\ fr[v] = IF v \in S THEN g[v] ELSE IF v \in MapPages THEN sp.frame[v]
                   ELSE IF Shared(sp, v) THEN sp.ppn[v] ELSE NoFrame
  OBVIOUS
<1> HIDE DEF pp, fl, fr
<1>9. /\ c \in MemorySet /\ c.ppn = pp /\ c.flags = fl /\ c.frame = fr
      /\ c.mmap_map = sp.mmap_map /\ c.mmap_top = sp.mmap_top
  BY <1>2, <1>3, <1>6, <1>7 DEF MemorySet
<1> HIDE DEF c
<1>10. \A v \in Vpns : IF v \in S THEN c.frame[v] = g[v] ELSE c.frame[v] \in {sp.frame[v], NoFrame}
  BY <1>8, <1>9 DEF Sound
<1>11. Once(c)
  <2>1. ASSUME NEW v \in Vpns, NEW u \in Vpns, c.frame[v] = c.frame[u], c.frame[v] # NoFrame
        PROVE  v = u
    <3>1. CASE v \in S /\ u \in S
      BY <2>1, <3>1, <1>1, <1>10
    <3>2. CASE v \in S /\ u \notin S
      BY <2>1, <3>2, <1>4, <1>10 DEF Holds
    <3>3. CASE v \notin S /\ u \in S
      BY <2>1, <3>3, <1>4, <1>10 DEF Holds
    <3>4. CASE v \notin S /\ u \notin S
      BY <2>1, <3>4, <1>10 DEF Sound, Once
    <3> QED
      BY <3>1, <3>2, <3>3, <3>4
  <2> QED
    BY <2>1 DEF Once
<1>12. \A v \in Vpns \ MapPages : c.ppn[v] = c.frame[v]
  BY <1>8, <1>9
<1>13. Sound(c)
  BY <1>9, <1>11, <1>12 DEF Sound
<1>14. IsCopy(sp, S, F, g, c)
  BY <1>4, <1>8, <1>9, <1>13 DEF IsCopy
<1> QED
  BY <1>14 DEF c
-----------------------------------------------------------------------------
(* Steps that make or end a space *)

LEMMA Facts ==
  ASSUME IInv
  PROVE  /\ live \in SUBSET Spaces /\ space \in [Spaces -> MemorySet] /\ free \in SUBSET Frames
         /\ refcounter \in [Frames -> 0 .. (RefMod - 1)] /\ data \in [Frames -> Byte] /\ Counts
         /\ \A s \in Spaces : /\ Sound(space[s]) /\ Once(space[s]) /\ space[s] \in MemorySet
                              /\ space[s].ppn \in [Vpns -> Owner] /\ space[s].frame \in [Vpns -> Owner]
                              /\ space[s].flags \in [Vpns -> SUBSET {"W", "COW"}]
                              /\ space[s].mmap_map \in [Vpns -> MmapEntry]
                              /\ space[s].mmap_top \in MmapStart .. (MmapEnd + 1)
         /\ \A s \in Spaces, f \in free : ~ Holds(space[s], f)
         /\ NoFrame \notin Frames
<1>1. /\ live \in SUBSET Spaces /\ space \in [Spaces -> MemorySet] /\ free \in SUBSET Frames
      /\ refcounter \in [Frames -> 0 .. (RefMod - 1)] /\ data \in [Frames -> Byte] /\ Counts
      /\ \A s \in Spaces : Sound(space[s]) /\ Once(space[s])
  BY DEF IInv, MemoryTypes, Sound
<1>2. \A s \in Spaces : /\ space[s] \in MemorySet
                        /\ space[s].ppn \in [Vpns -> Owner] /\ space[s].frame \in [Vpns -> Owner]
                        /\ space[s].flags \in [Vpns -> SUBSET {"W", "COW"}]
                        /\ space[s].mmap_map \in [Vpns -> MmapEntry]
                        /\ space[s].mmap_top \in MmapStart .. (MmapEnd + 1)
  BY <1>1 DEF MemorySet
<1>3. \A s \in Spaces, f \in free : ~ Holds(space[s], f)
  BY <1>1 DEF Counts, Holders
<1> QED
  BY <1>1, <1>2, <1>3, DataAssumption

\* Two spaces change at most, and one of them keeps its frames.
LEMMA TwoSpaces ==
  ASSUME IInv, NEW s \in Spaces, NEW c \in Spaces, s # c, NEW parent, NEW child,
         Sound(parent), parent.ppn = space[s].ppn, parent.frame = space[s].frame, Sound(child),
         space' = [space EXCEPT ![s] = parent, ![c] = child],
         Retrack(space[c], child),
         live' \in {live, live \cup {c}, live \ {c}}, BUSYBOX \in live',
         c \in live' => \A v \in TrapPages : child.ppn[v] # NoFrame,
         c \notin live' => child = Bare, s \notin live => parent = Bare,
         data' \in [Frames -> Byte]
  PROVE  IInv'
<1>1. \A t \in Spaces : space'[t] = IF t = c THEN child ELSE IF t = s THEN parent ELSE space[t]
  BY Facts
<1>2. \A t \in Spaces : Sound(space'[t])
  BY <1>1, Facts
<1>3. \A t \in Spaces : space'[t].frame = IF t = c THEN child.frame ELSE space[t].frame
  <2>1. space \in [Spaces -> MemorySet]
    BY Facts
  <2> QED
    BY <2>1, <1>1
<1>4. Counts' /\ refcounter' \in [Frames -> 0 .. (RefMod - 1)] /\ free' \in SUBSET Frames
  <2>1. Once(child) /\ Once(space[c]) /\ Counts
    BY Facts DEF Sound
  <2> QED
    BY <2>1, <1>3, RetrackKeeps
<1>5. space' \in [Spaces -> MemorySet]
  <2>1. parent \in MemorySet /\ child \in MemorySet
    BY DEF Sound
  <2> QED
    BY <2>1, Facts
<1>6. MemoryTypes'
  BY <1>4, <1>5, Facts DEF MemoryTypes
<1>7. \A t \in Spaces \ live' : space'[t] = Bare
  BY <1>1 DEF IInv
<1>8. \A t \in live', v \in TrapPages : space'[t].ppn[v] # NoFrame
  BY <1>1, Facts DEF IInv
<1> QED
  BY <1>2, <1>4, <1>6, <1>7, <1>8 DEF IInv

\* A space becomes a copy of another that shares its pages, with frames g of its own.
LEMMA CopySpace ==
  ASSUME IInv, NEW s \in Spaces, NEW c \in Spaces, s # c, NEW S \in SUBSET (Vpns \ MapPages),
         TrapPages \subseteq S, NEW g \in Injections(S, free),
         space' = [space EXCEPT ![s] = CowParent(space[s]), ![c] = CowChild(space[s], g)],
         Retrack(space[c], CowChild(space[s], g)), live' = live \cup {c}, s \in live,
         data' \in [Frames -> Byte]
  PROVE  IInv' /\ (TInv => TInv')
<1> DEFINE sp == space[s]
           parent == CowParent(sp)
           child == CowChild(sp, g)
<1>1. /\ Sound(parent) /\ parent.ppn = sp.ppn /\ parent.frame = sp.frame
      /\ parent.mmap_map = sp.mmap_map /\ parent.mmap_top = sp.mmap_top
      /\ \A v \in Vpns : parent.flags[v] = CowFlags(sp, v)
  BY Facts, CowParentSound
<1>2. /\ Sound(child)
      /\ \A v \in Vpns :
           /\ child.ppn[v] = IF v \in S THEN g[v] ELSE IF Shared(sp, v) THEN sp.ppn[v] ELSE NoFrame
           /\ child.flags[v] = IF v \in S THEN {"W"} ELSE IF Shared(sp, v) THEN CowFlags(sp, v) ELSE {}
           /\ child.frame[v] = IF v \in S THEN g[v] ELSE IF v \in MapPages THEN sp.frame[v]
                               ELSE IF Shared(sp, v) THEN sp.ppn[v] ELSE NoFrame
           /\ v \in S => g[v] \in free
      /\ child.mmap_map = sp.mmap_map /\ child.mmap_top = sp.mmap_top
  <2>1. Sound(sp) /\ free \in SUBSET Frames /\ \A f \in free : ~ Holds(sp, f)
    BY Facts
  <2> HIDE DEF sp
  <2>2. IsCopy(sp, S, free, g, CowChild(sp, g))
    BY <2>1, CowChildSound
  <2> QED
    BY <2>2 DEF IsCopy
<1>3. space' = [space EXCEPT ![s] = parent, ![c] = child] /\ Retrack(space[c], child)
  OBVIOUS
<1> HIDE DEF parent, child
<1>4. \A v \in S : v \in Vpns /\ child.ppn[v] = g[v] /\ g[v] \in free /\ g[v] \in Frames /\ g[v] # NoFrame
  BY <1>2, Facts
<1>5. IInv'
  <2>1. c \in live' => \A v \in TrapPages : child.ppn[v] # NoFrame
    BY <1>4
  <2> QED
    BY <2>1, <1>1, <1>2, <1>3, TwoSpaces DEF IInv
<1>6. \A t \in Spaces : space'[t] = IF t = c THEN child ELSE IF t = s THEN parent ELSE space[t]
  BY <1>3, Facts
<1>7. ASSUME TInv
      PROVE  \A t \in Spaces : Tracked(space'[t])
  <2>1. Tracked(sp)
    BY <1>7 DEF TInv
  <2>2. Tracked(parent)
    BY <2>1, <1>1 DEF Tracked
  <2>3. 0 \in MapPages /\ MmapPages \subseteq MapPages /\ MapPages \subseteq Vpns /\ S \cap MapPages = {}
    BY PageFacts DEF MapPages
  <2>4. \A v \in MapPages : v \notin S /\ child.ppn[v] = sp.ppn[v] /\ child.frame[v] = sp.frame[v]
    <3>1. ASSUME NEW v \in MapPages
          PROVE  Shared(sp, v) \/ sp.ppn[v] = NoFrame
      BY <2>1 DEF Tracked, Shared, MapPages
    <3> QED
      BY <3>1, <2>3, <1>2
  <2>5. Tracked(child)
    BY <2>1, <2>3, <2>4, <1>2 DEF Tracked
  <2> QED
    BY <2>2, <2>5, <1>6, <1>7 DEF TInv
<1>8. ASSUME TInv
      PROVE  Exclusive'
  <2>1. Tracked(sp) /\ Exclusive /\ \A v \in Vpns : sp.ppn[v] = sp.frame[v]
    BY <1>7, <1>8, Facts DEF TInv, Tracked, Sound
  <2>2. \A v \in MapPages : Shared(sp, v) \/ sp.ppn[v] = NoFrame
    BY <2>1 DEF Tracked, Shared, MapPages
  <2>3. \A v \in Vpns : "W" \in CowFlags(sp, v) => "W" \in sp.flags[v] /\ ~ Shared(sp, v)
    BY DEF CowFlags
  <2>4. \A f : Holds(child, f) => f \in free \/ f = NoFrame \/ \E v \in Vpns \ S : Shared(sp, v) /\ sp.ppn[v] = f
    BY <2>1, <2>2, <1>2 DEF Holds
  <2>5. \A f : Holds(parent, f) <=> Holds(sp, f)
    BY <1>1 DEF Holds
  <2>6. \A f : (\E v \in Vpns : sp.ppn[v] = f) => Holds(sp, f)
    BY <2>1 DEF Holds
  <2>7. ASSUME NEW p \in Spaces, NEW q \in Spaces, NEW v \in Vpns, p # q,
               space'[p].ppn[v] # NoFrame, "W" \in space'[p].flags[v],
               Holds(space'[q], space'[p].ppn[v])
        PROVE  FALSE
    <3> DEFINE f == space'[p].ppn[v]
    <3>1. CASE p = c
      <4>1. space'[p] = child
        BY <3>1, <1>6
      <4>2. v \in S /\ f \in free
        BY <4>1, <2>3, <2>7, <1>2
      <4>3. q # c /\ Holds(space[q], f)
        BY <3>1, <2>5, <2>7, <1>6
      <4> QED
        BY <4>2, <4>3, Facts
    <3>2. CASE p = s
      <4>1. space'[p] = parent
        BY <3>2, <1>6
      <4>2. f = sp.ppn[v] /\ "W" \in sp.flags[v] /\ ~ Shared(sp, v) /\ f # NoFrame
        BY <4>1, <2>3, <2>7, <1>1
      <4>3. Holds(sp, f)
        BY <4>2, <2>6
      <4>4. CASE q = c
        <5>1. Holds(child, f)
          BY <4>4, <2>7, <1>6
        <5>2. PICK u \in Vpns \ S : Shared(sp, u) /\ sp.ppn[u] = f
          BY <5>1, <4>2, <4>3, <2>4, Facts
        <5>3. sp.frame[u] = sp.frame[v] /\ sp.frame[v] # NoFrame
          BY <5>2, <4>2, <2>1
        <5>4. u = v
          BY <5>3, Facts DEF Once
        <5> QED
          BY <5>2, <5>4, <4>2
      <4>5. CASE q # c
        <5>1. Holds(space[q], f) /\ q # s
          BY <4>5, <3>2, <2>7, <1>6
        <5> QED
          BY <5>1, <4>2, <2>1 DEF Exclusive
      <4> QED
        BY <4>4, <4>5
    <3>3. CASE p # c /\ p # s
      <4>1. space'[p] = space[p]
        BY <3>3, <1>6
      <4>2. Holds(space[p], f)
        BY <4>1, <2>1, <2>7, <1>5, <1>7, <1>8, Facts DEF TInv, Tracked, Sound, Holds
      <4>3. Holds(space[q], f) \/ Holds(sp, f)
        <5>1. CASE q = c
          <6>1. Holds(child, f)
            BY <5>1, <2>7, <1>6
          <6> QED
            BY <6>1, <4>2, <2>4, <2>6, <2>7, Facts
        <5>2. CASE q # c
          BY <5>2, <2>5, <2>7, <1>6
        <5> QED
          BY <5>1, <5>2
      <4>4. CASE Holds(sp, f)
        BY <4>1, <4>4, <3>3, <2>1, <2>7 DEF Exclusive
      <4>5. CASE Holds(space[q], f)
        BY <4>1, <4>5, <2>1, <2>7 DEF Exclusive
      <4> QED
        BY <4>3, <4>4, <4>5
    <3> QED
      BY <3>1, <3>2, <3>3
  <2> QED
    BY <2>7 DEF Exclusive
<1> QED
  BY <1>5, <1>7, <1>8 DEF TInv

LEMMA RunningSpace ==
  ASSUME IInv, NEW s \in Spaces, Running(s)
  PROVE  s \in live /\ s # BUSYBOX /\ s \in Spaces /\ BUSYBOX \in Spaces /\ BUSYBOX \in live
  BY DataAssumption DEF Running, IInv

LEMMA ForkStep ==
  ASSUME IInv, NEW s \in Spaces, NEW c \in Spaces, Fork(s, c)
  PROVE  IInv' /\ (TInv => TInv')
<1>1. s \in live /\ c \notin live
  BY RunningSpace DEF Fork
<1>2. PICK g \in Injections(TrapPages, free) :
        /\ live' = live \cup {c}
        /\ space' = [space EXCEPT ![s] = CowParent(space[s]), ![c] = CowChild(space[s], g)]
        /\ Retrack(Bare, CowChild(space[s], g))
        /\ data' = [f \in Frames |->
                      IF \E v \in TrapPages : g[v] = f
                      THEN data[space[s].ppn[CHOOSE v \in TrapPages : g[v] = f]]
                      ELSE data[f]]
  BY DEF Fork
<1>3. space[c] = Bare
  BY <1>1 DEF IInv
<1>4. data' \in [Frames -> Byte]
  <2>1. ASSUME NEW f \in Frames
        PROVE  (IF \E v \in TrapPages : g[v] = f
                THEN data[space[s].ppn[CHOOSE v \in TrapPages : g[v] = f]] ELSE data[f]) \in Byte
    <3> DEFINE v == CHOOSE u \in TrapPages : g[u] = f
    <3>1. CASE \E u \in TrapPages : g[u] = f
      <4>1. v \in TrapPages
        BY <3>1
      <4> HIDE DEF v
      <4>2. space[s].ppn[v] \in Frames
        BY <4>1, <1>1, Facts, PageFacts DEF IInv, Owner
      <4> QED
        BY <3>1, <4>2, Facts DEF v
    <3>2. CASE ~ \E u \in TrapPages : g[u] = f
      BY <3>2, Facts
    <3> QED
      BY <3>1, <3>2
  <2> QED
    BY <2>1, <1>2
<1>5. TrapPages \in SUBSET (Vpns \ MapPages)
  BY PageFacts
<1>6. Retrack(space[c], CowChild(space[s], g))
  BY <1>2, <1>3
<1>7. s # c
  BY <1>1
<1> QED
  BY <1>1, <1>2, <1>4, <1>5, <1>6, <1>7, CopySpace

\* Frames that are filled hold bytes.
LEMMA FillTypes ==
  ASSUME IInv, NEW g, Fill(g)
  PROVE  data' \in [Frames -> Byte]
  BY Facts, DataAssumption DEF Fill

LEMMA ExecBusyboxStep ==
  ASSUME IInv, NEW s \in Spaces, ExecBusybox(s)
  PROVE  IInv' /\ (TInv => TInv')
<1>1. s \in live /\ s # BUSYBOX /\ BUSYBOX \in Spaces /\ BUSYBOX \in live
  BY RunningSpace DEF ExecBusybox
<1> DEFINE S == TrapPages \cup ArgPages
<1>2. PICK g \in Injections(S, free) :
        /\ space' = [space EXCEPT ![s] = CowChild(space[BUSYBOX], g), ![BUSYBOX] = CowParent(space[BUSYBOX])]
        /\ Retrack(space[s], CowChild(space[BUSYBOX], g))
        /\ Fill(g)
  BY DEF ExecBusybox
<1>3. live' = live \cup {s}
  BY <1>1 DEF ExecBusybox
<1>4. S \in SUBSET (Vpns \ MapPages) /\ TrapPages \subseteq S
  BY PageFacts
<1> HIDE DEF S
<1>5. data' \in [Frames -> Byte]
  BY <1>2, FillTypes
<1>6. space' = [space EXCEPT ![BUSYBOX] = CowParent(space[BUSYBOX]), ![s] = CowChild(space[BUSYBOX], g)]
  BY <1>1, <1>2, Facts
<1> QED
  BY <1>1, <1>2, <1>3, <1>4, <1>5, <1>6, CopySpace

\* A space is replaced by one that has new frames, or none.
LEMMA FreshSpace ==
  ASSUME IInv, NEW s \in Spaces, s # BUSYBOX, NEW new, Sound(new), Tracked(new),
         \A v \in Vpns : new.frame[v] \in free \cup {NoFrame},
         space' = [space EXCEPT ![s] = new], Retrack(space[s], new),
         live' \in {live, live \ {s}},
         s \in live' => \A v \in TrapPages : new.ppn[v] # NoFrame, s \notin live' => new = Bare,
         data' \in [Frames -> Byte]
  PROVE  IInv' /\ (TInv => TInv')
<1>1. \A t \in Spaces : space'[t] = IF t = s THEN new ELSE space[t]
  BY Facts
<1>2. \A t \in Spaces : Sound(space'[t])
  BY <1>1, Facts
<1>3. Counts' /\ refcounter' \in [Frames -> 0 .. (RefMod - 1)] /\ free' \in SUBSET Frames
  <2>1. Once(new) /\ Once(space[s]) /\ Counts /\ space \in [Spaces -> MemorySet]
    BY Facts DEF Sound
  <2>2. \A t \in Spaces : space'[t].frame = IF t = s THEN new.frame ELSE space[t].frame
    BY <2>1, <1>1
  <2> QED
    BY <2>1, <2>2, RetrackKeeps
<1>4. MemoryTypes'
  <2>1. new \in MemorySet
    BY DEF Sound
  <2>2. space' \in [Spaces -> MemorySet]
    BY <2>1, Facts
  <2> QED
    BY <2>2, <1>3, Facts DEF MemoryTypes
<1>5. IInv'
  <2>1. \A t \in Spaces \ live' : space'[t] = Bare
    BY <1>1 DEF IInv
  <2>2. \A t \in live', v \in TrapPages : space'[t].ppn[v] # NoFrame
    BY <1>1, Facts DEF IInv
  <2>3. BUSYBOX \in live'
    BY DEF IInv
  <2> QED
    BY <2>1, <2>2, <2>3, <1>2, <1>3, <1>4 DEF IInv
<1>6. ASSUME TInv
      PROVE  TInv'
  <2>1. \A t \in Spaces : Tracked(space'[t])
    BY <1>1, <1>6 DEF TInv
  <2>2. \A t \in Spaces, v \in Vpns : space'[t].ppn[v] = space'[t].frame[v]
    BY <2>1, <1>2 DEF Tracked, Sound
  <2>3. ASSUME NEW p \in Spaces, NEW q \in Spaces, NEW v \in Vpns, p # q,
               space'[p].ppn[v] # NoFrame, "W" \in space'[p].flags[v],
               Holds(space'[q], space'[p].ppn[v])
        PROVE  FALSE
    <3> DEFINE f == space'[p].ppn[v]
    <3>1. Holds(space'[p], f) /\ f # NoFrame
      BY <2>2, <2>3 DEF Holds
    <3>2. \A h : Holds(new, h) => h \in free \cup {NoFrame}
      BY DEF Holds
    <3>3. CASE p = s
      <4>1. f \in free /\ Holds(space[q], f)
        BY <3>1, <3>2, <3>3, <2>3, <1>1
      <4> QED
        BY <4>1, Facts
    <3>4. CASE q = s
      <4>1. f \in free /\ Holds(space[p], f)
        BY <3>1, <3>2, <3>4, <2>3, <1>1
      <4> QED
        BY <4>1, Facts
    <3>5. CASE p # s /\ q # s
      BY <3>5, <2>3, <1>1, <1>6 DEF TInv, Exclusive
    <3> QED
      BY <3>3, <3>4, <3>5
  <2> QED
    BY <2>1, <2>3 DEF TInv, Exclusive
<1> QED
  BY <1>5, <1>6

LEMMA ExecStep ==
  ASSUME IInv, NEW s \in Spaces, Exec(s)
  PROVE  IInv' /\ (TInv => TInv')
<1> DEFINE S == EagerPages \cup ArgPages
<1>1. s \in live /\ s # BUSYBOX /\ live' = live
  BY RunningSpace DEF Exec
<1>2. PICK g \in Injections(S, free) :
        space' = [space EXCEPT ![s] = Loaded(g)] /\ Retrack(space[s], Loaded(g)) /\ Fill(g)
  BY DEF Exec
<1>3. S \in SUBSET (Vpns \ MapPages) /\ TrapPages \subseteq S /\ MapPages \subseteq Vpns
  BY PageFacts
<1> HIDE DEF S
<1> DEFINE new == Loaded(g)
<1>4. /\ Sound(new) /\ new.mmap_top = MmapStart
      /\ \A v \in Vpns : /\ new.ppn[v] = IF v \in S THEN g[v] ELSE NoFrame
                         /\ new.frame[v] = new.ppn[v]
                         /\ v \in S => g[v] \in free
                         /\ new.mmap_map[v] = NoMmap
  <2>1. free \in SUBSET Frames
    BY Facts
  <2> QED
    BY <2>1, <1>3, LoadedSound
<1>5. space' = [space EXCEPT ![s] = new] /\ Retrack(space[s], new)
  BY <1>2
<1> HIDE DEF new
<1>6. Tracked(new)
  <2>1. ~ NoMmap.valid
    BY DEF NoMmap
  <2>2. \A v \in MapPages : v \in Vpns /\ new.ppn[v] = NoFrame
    BY <1>3, <1>4
  <2>3. 0 \in MapPages /\ MmapPages \subseteq MapPages
    BY DEF MapPages
  <2> QED
    BY <2>1, <2>2, <2>3, <1>4 DEF Tracked
<1>7. \A v \in Vpns : new.frame[v] \in free \cup {NoFrame}
  BY <1>4
<1>8. \A v \in TrapPages : new.ppn[v] # NoFrame
  BY <1>3, <1>4, Facts
<1>9. data' \in [Frames -> Byte]
  BY <1>2, FillTypes
<1> QED
  BY <1>1, <1>4, <1>5, <1>6, <1>7, <1>8, <1>9, FreshSpace

LEMMA DropStep ==
  ASSUME IInv, NEW s \in Spaces, Drop(s)
  PROVE  IInv' /\ (TInv => TInv')
<1>1. /\ s # BUSYBOX /\ live' = live \ {s} /\ space' = [space EXCEPT ![s] = Bare]
      /\ Retrack(space[s], Bare) /\ data' = data
  BY RunningSpace DEF Drop
<1>2. Tracked(Bare) /\ \A v \in Vpns : Bare.frame[v] \in free \cup {NoFrame}
  <2>1. ~ NoMmap.valid
    BY DEF NoMmap
  <2>2. \A v \in MapPages : v \in Vpns /\ Bare.ppn[v] = NoFrame
    BY BareSound, PageFacts
  <2>3. 0 \in MapPages /\ MmapPages \subseteq MapPages
    BY DEF MapPages
  <2> QED
    BY <2>1, <2>2, <2>3, BareSound DEF Tracked
<1>3. Sound(Bare) /\ s \notin live' /\ live' \in {live, live \ {s}} /\ data' \in [Frames -> Byte]
  BY <1>1, BareSound, Facts
<1> QED
  BY <1>1, <1>2, <1>3, FreshSpace
-----------------------------------------------------------------------------
(* Steps that change one page *)

\* One space changes and the frames are counted right.
LEMMA OneSpace ==
  ASSUME IInv, NEW s \in Spaces, s \in live, NEW new, Sound(new), space' = [space EXCEPT ![s] = new],
         live' = live, \A v \in TrapPages : new.ppn[v] = space[s].ppn[v],
         Counts', refcounter' \in [Frames -> 0 .. (RefMod - 1)], free' \in SUBSET Frames,
         data' \in [Frames -> Byte]
  PROVE  IInv'
<1>1. \A t \in Spaces : space'[t] = IF t = s THEN new ELSE space[t]
  BY Facts
<1>2. \A t \in Spaces : Sound(space'[t])
  BY <1>1, Facts
<1>3. MemoryTypes'
  <2>1. new \in MemorySet
    BY DEF Sound
  <2>2. space' \in [Spaces -> MemorySet]
    BY <2>1, Facts
  <2> QED
    BY <2>2, Facts DEF MemoryTypes
<1>4. \A t \in Spaces \ live' : space'[t] = Bare
  BY <1>1 DEF IInv
<1>5. \A t \in live', v \in TrapPages : space'[t].ppn[v] # NoFrame
  BY <1>1, Facts DEF IInv
<1>6. BUSYBOX \in live'
  BY DEF IInv
<1> QED
  BY <1>2, <1>3, <1>4, <1>5, <1>6 DEF IInv

\* One space changes, keeps frames or takes free ones, and lets stores go only to
\* frames that were free, writable before or counted once.
LEMMA OneTracked ==
  ASSUME IInv, TInv, NEW s \in Spaces, NEW new, Sound(new), Tracked(new),
         space' = [space EXCEPT ![s] = new],
         \A v \in Vpns : new.frame[v] \in {space[s].frame[v], NoFrame} \cup free,
         \A v \in Vpns : new.ppn[v] # NoFrame /\ "W" \in new.flags[v] =>
           \/ new.ppn[v] \in free
           \/ /\ new.ppn[v] = space[s].ppn[v]
              /\ "W" \in space[s].flags[v] \/ refcounter[new.ppn[v]] = 1
  PROVE  TInv'
<1>1. \A t \in Spaces : space'[t] = IF t = s THEN new ELSE space[t]
  BY Facts
<1>2. \A t \in Spaces : Tracked(space'[t])
  BY <1>1 DEF TInv
<1>3. \A t \in Spaces, v \in Vpns : space[t].ppn[v] = space[t].frame[v]
  BY Facts DEF TInv, Tracked, Sound
<1>4. Exclusive
  BY DEF TInv
<1>5. ASSUME NEW p \in Spaces, NEW q \in Spaces, NEW v \in Vpns, p # q,
             space'[p].ppn[v] # NoFrame, "W" \in space'[p].flags[v],
             Holds(space'[q], space'[p].ppn[v])
      PROVE  FALSE
  <2> DEFINE f == space'[p].ppn[v]
  <2>1. CASE p = s
    <3>1. f = new.ppn[v] /\ "W" \in new.flags[v] /\ f # NoFrame /\ Holds(space[q], f)
      BY <2>1, <1>1, <1>5
    <3>2. f \notin free
      BY <3>1, Facts
    <3>3. CASE f = space[s].ppn[v] /\ "W" \in space[s].flags[v]
      BY <3>1, <3>3, <2>1, <1>4, <1>5 DEF Exclusive
    <3>4. CASE f = space[s].ppn[v] /\ refcounter[f] = 1
      <4>1. Holds(space[s], f)
        BY <3>4, <1>3 DEF Holds
      <4>2. s \in Holders(f) /\ q \in Holders(f)
        BY <4>1, <3>1 DEF Holders
      <4>3. f \in Frames
        BY <3>1, <3>4, Facts DEF Owner
      <4>4. Cardinality(Holders(f)) = 1 /\ IsFiniteSet(Holders(f))
        BY <4>3, <3>4, Facts, HoldersBound DEF Counts
      <4>5. \E x : Holders(f) = {x}
        BY <4>4, FS_Singleton
      <4> QED
        BY <4>2, <4>5, <2>1, <1>5
    <3> QED
      BY <3>1, <3>2, <3>3, <3>4
  <2>2. CASE q = s
    <3>1. f = space[p].ppn[v] /\ "W" \in space[p].flags[v] /\ f # NoFrame /\ Holds(new, f)
      BY <2>2, <1>1, <1>5
    <3>2. Holds(space[p], f)
      BY <3>1, <1>3 DEF Holds
    <3>3. Holds(space[s], f) \/ f \in free
      BY <3>1 DEF Holds
    <3>4. ~ Holds(space[s], f)
      BY <3>1, <2>2, <1>4, <1>5 DEF Exclusive
    <3> QED
      BY <3>2, <3>3, <3>4, Facts
  <2>3. CASE p # s /\ q # s
    BY <2>3, <1>1, <1>4, <1>5 DEF Exclusive
  <2> QED
    BY <2>1, <2>2, <2>3
<1> QED
  BY <1>2, <1>5 DEF TInv, Exclusive

\* The trackers stay as they are.
LEMMA SameCounts ==
  ASSUME IInv, \A t \in Spaces : space'[t].frame = space[t].frame, refcounter' = refcounter, free' = free
  PROVE  Counts' /\ refcounter' \in [Frames -> 0 .. (RefMod - 1)] /\ free' \in SUBSET Frames
<1>1. \A f : Holders(f)' = Holders(f)
  BY DEF Holders, Holds
<1> QED
  BY <1>1, Facts DEF Counts

\* A page gets a free frame: the first fault of a lazy page, and a copy on write.
LEMMA FreshPage ==
  ASSUME IInv, NEW s \in Spaces, s \in live, NEW v \in UserPages, NEW f \in free,
         NEW fl \in SUBSET {"W", "COW"}, NEW ms \in [Vpns -> MmapEntry],
         \A u \in Vpns : u # v => ms[u] = space[s].mmap_map[u],
         space' = [space EXCEPT ![s] = [space[s] EXCEPT !.ppn = [space[s].ppn EXCEPT ![v] = f],
                                                        !.frame = [space[s].frame EXCEPT ![v] = f],
                                                        !.flags = [space[s].flags EXCEPT ![v] = fl],
                                                        !.mmap_map = ms]],
         RetrackPage(space[s].frame[v], f), live' = live, data' \in [Frames -> Byte]
  PROVE  /\ IInv'
         /\ TInv /\ (v \in MapPages => v \in MmapPages /\ ms[v].valid /\ v < space[s].mmap_top)
                 /\ (ms[v].valid => v \in MmapPages)
            => TInv'
<1> DEFINE sp == space[s]
           pp == [sp.ppn EXCEPT ![v] = f]
           fr == [sp.frame EXCEPT ![v] = f]
           fs == [sp.flags EXCEPT ![v] = fl]
           new == [sp EXCEPT !.ppn = pp, !.frame = fr, !.flags = fs, !.mmap_map = ms]
<1>1. v \in Vpns /\ v \notin TrapPages /\ f \in Owner /\ f \in Frames /\ f # NoFrame
  BY Facts DEF UserPages, Owner
<1>2. /\ new \in MemorySet /\ new.mmap_top = sp.mmap_top /\ new.mmap_map = ms
      /\ new.frame = [sp.frame EXCEPT ![v] = f]
      /\ \A u \in Vpns : /\ new.ppn[u] = IF u = v THEN f ELSE sp.ppn[u]
                         /\ new.flags[u] = IF u = v THEN fl ELSE sp.flags[u]
                         /\ new.frame[u] = IF u = v THEN f ELSE sp.frame[u]
  <2>1. /\ sp \in MemorySet /\ sp.ppn \in [Vpns -> Owner] /\ sp.frame \in [Vpns -> Owner]
        /\ sp.flags \in [Vpns -> SUBSET {"W", "COW"}]
    BY Facts
  <2>2. /\ pp \in [Vpns -> Owner] /\ fr \in [Vpns -> Owner] /\ fs \in [Vpns -> SUBSET {"W", "COW"}]
        /\ \A u \in Vpns : /\ pp[u] = IF u = v THEN f ELSE sp.ppn[u]
                           /\ fs[u] = IF u = v THEN fl ELSE sp.flags[u]
                           /\ fr[u] = IF u = v THEN f ELSE sp.frame[u]
    BY <2>1, <1>1
  <2>3. fr = [sp.frame EXCEPT ![v] = f]
    OBVIOUS
  <2> HIDE DEF pp, fr, fs
  <2>4. /\ new \in MemorySet /\ new.ppn = pp /\ new.frame = fr /\ new.flags = fs
        /\ new.mmap_map = ms /\ new.mmap_top = sp.mmap_top
    BY <2>1, <2>2 DEF MemorySet
  <2> HIDE DEF new
  <2> QED
    BY <2>2, <2>3, <2>4
<1>3. space' = [space EXCEPT ![s] = new]
  OBVIOUS
<1> HIDE DEF new
<1>4. \A t \in Spaces : space'[t] = IF t = s THEN new ELSE space[t]
  BY <1>3, Facts
<1>5. /\ Counts' /\ refcounter' \in [Frames -> 0 .. (RefMod - 1)] /\ free' \in SUBSET Frames
      /\ Once(new)
  <2>1. space'[s] = new /\ space'[s].frame = [space[s].frame EXCEPT ![v] = f]
    BY <1>2, <1>4
  <2>2. \A t \in Spaces \ {s} : space'[t].frame = space[t].frame
    BY <1>4
  <2>3. /\ Counts /\ free \subseteq Frames /\ space[s].frame \in [Vpns -> Owner] /\ Once(space[s])
        /\ f \in free \cup {NoFrame}
    BY Facts
  <2>4. /\ Counts' /\ refcounter' \in [Frames -> 0 .. (RefMod - 1)] /\ free' \in SUBSET Frames
        /\ Once(space'[s])
    BY <2>1, <2>2, <2>3, <1>1, RetrackPageKeeps
  <2> QED
    BY <2>1, <2>4
<1>6. Sound(new)
  BY <1>2, <1>5, Facts DEF Sound
<1>7. IInv'
  <2>1. \A u \in TrapPages : new.ppn[u] = space[s].ppn[u]
    BY <1>1, <1>2, PageFacts
  <2> QED
    BY <2>1, <1>3, <1>5, <1>6, OneSpace
<1>8. ASSUME TInv, v \in MapPages => v \in MmapPages /\ ms[v].valid /\ v < sp.mmap_top,
             ms[v].valid => v \in MmapPages
      PROVE  TInv'
  <2>1. Tracked(sp)
    BY <1>8 DEF TInv
  <2>2. 0 \in MapPages /\ MmapPages \subseteq MapPages /\ MapPages \subseteq Vpns /\ 0 \notin MmapPages
    BY PageFacts DEF MapPages
  <2>3. Tracked(new)
    BY <2>1, <2>2, <1>2, <1>8 DEF Tracked
  <2>4. \A u \in Vpns : new.frame[u] \in {sp.frame[u], NoFrame} \cup free
    BY <1>2
  <2>5. \A u \in Vpns : new.ppn[u] # NoFrame /\ "W" \in new.flags[u] =>
          \/ new.ppn[u] \in free
          \/ /\ new.ppn[u] = space[s].ppn[u]
             /\ "W" \in space[s].flags[u] \/ refcounter[new.ppn[u]] = 1
    BY <1>2
  <2> QED
    BY <2>3, <2>4, <2>5, <1>3, <1>6, <1>8, OneTracked
<1> QED
  BY <1>7, <1>8

\* A page gets other flags.
LEMMA FlagsStep ==
  ASSUME IInv, NEW s \in Spaces, s \in live, NEW v \in UserPages, NEW fl \in SUBSET {"W", "COW"},
         space' = [space EXCEPT ![s].flags[v] = fl],
         UNCHANGED <<live, refcounter, free, data>>
  PROVE  IInv' /\ (TInv /\ refcounter[space[s].ppn[v]] = 1 => TInv')
<1> DEFINE sp == space[s]
           fs == [sp.flags EXCEPT ![v] = fl]
           new == [sp EXCEPT !.flags = fs]
<1>1. v \in Vpns /\ v \notin TrapPages
  BY DEF UserPages
<1>2. sp \in MemorySet /\ sp.flags \in [Vpns -> SUBSET {"W", "COW"}]
  BY Facts
<1>3. fs \in [Vpns -> SUBSET {"W", "COW"}] /\ \A u \in Vpns : fs[u] = IF u = v THEN fl ELSE sp.flags[u]
  BY <1>1, <1>2
<1>4. space' = [space EXCEPT ![s] = new]
  OBVIOUS
<1> HIDE DEF fs
<1>5. /\ new \in MemorySet /\ new.ppn = sp.ppn /\ new.flags = fs /\ new.frame = sp.frame
      /\ new.mmap_map = sp.mmap_map /\ new.mmap_top = sp.mmap_top
  BY <1>2, <1>3 DEF MemorySet
<1> HIDE DEF new
<1>6. \A t \in Spaces : space'[t] = IF t = s THEN new ELSE space[t]
  BY <1>4, Facts
<1>7. Counts' /\ refcounter' \in [Frames -> 0 .. (RefMod - 1)] /\ free' \in SUBSET Frames
  <2>1. \A t \in Spaces : space'[t].frame = space[t].frame
    BY <1>5, <1>6
  <2> QED
    BY <2>1, SameCounts
<1>8. Sound(new)
  BY <1>5, Facts DEF Sound, Once
<1>9. IInv'
  <2>1. \A u \in TrapPages : new.ppn[u] = space[s].ppn[u]
    BY <1>5, PageFacts
  <2> QED
    BY <2>1, <1>4, <1>7, <1>8, Facts, OneSpace
<1>10. ASSUME TInv, refcounter[space[s].ppn[v]] = 1
       PROVE  TInv'
  <2>1. Tracked(sp)
    BY <1>10 DEF TInv
  <2>2. Tracked(new)
    BY <2>1, <1>5, PageFacts DEF Tracked, MapPages
  <2>3. \A u \in Vpns : new.frame[u] \in {sp.frame[u], NoFrame} \cup free
    BY <1>5
  <2>4. \A u \in Vpns : new.ppn[u] # NoFrame /\ "W" \in new.flags[u] =>
          \/ new.ppn[u] \in free
          \/ /\ new.ppn[u] = space[s].ppn[u]
             /\ "W" \in space[s].flags[u] \/ refcounter[new.ppn[u]] = 1
    BY <1>3, <1>5, <1>10
  <2> QED
    BY <2>2, <2>3, <2>4, <1>4, <1>8, <1>10, OneTracked
<1> QED
  BY <1>9, <1>10

\* A page of the mmap region gets another mmap entry, and may lose its tracker.
LEMMA MmapEntryStep ==
  ASSUME IInv, NEW s \in Spaces, s \in live, NEW v \in MapPages, NEW fr \in {space[s].frame[v], NoFrame},
         NEW mm \in MmapEntry, NEW top \in MmapStart .. (MmapEnd + 1),
         space' = [space EXCEPT ![s] = [space[s] EXCEPT !.frame = [space[s].frame EXCEPT ![v] = fr],
                                                        !.mmap_map = [space[s].mmap_map EXCEPT ![v] = mm],
                                                        !.mmap_top = top]],
         live' = live, data' = data,
         Counts', refcounter' \in [Frames -> 0 .. (RefMod - 1)], free' \in SUBSET Frames
  PROVE  /\ IInv'
         /\ TInv /\ space[s].ppn[v] = NoFrame /\ (mm.valid => v \in MmapPages) /\ space[s].mmap_top <= top
            => TInv'
<1> DEFINE sp == space[s]
           fs == [sp.frame EXCEPT ![v] = fr]
           ms == [sp.mmap_map EXCEPT ![v] = mm]
           new == [sp EXCEPT !.frame = fs, !.mmap_map = ms, !.mmap_top = top]
<1>1. v \in Vpns /\ v \notin TrapPages
  BY PageFacts
<1>2. /\ sp \in MemorySet /\ sp.frame \in [Vpns -> Owner] /\ sp.mmap_map \in [Vpns -> MmapEntry]
      /\ fr \in Owner
  BY <1>1, Facts DEF Owner
<1>3. /\ fs \in [Vpns -> Owner] /\ ms \in [Vpns -> MmapEntry]
      /\ \A u \in Vpns : /\ fs[u] = IF u = v THEN fr ELSE sp.frame[u]
                         /\ ms[u] = IF u = v THEN mm ELSE sp.mmap_map[u]
  BY <1>1, <1>2
<1>4. space' = [space EXCEPT ![s] = new]
  OBVIOUS
<1> HIDE DEF fs, ms
<1>5. /\ new \in MemorySet /\ new.ppn = sp.ppn /\ new.flags = sp.flags /\ new.frame = fs
      /\ new.mmap_map = ms /\ new.mmap_top = top
  BY <1>2, <1>3 DEF MemorySet
<1> HIDE DEF new
<1>6. Sound(new)
  <2>1. Once(new)
    BY <1>3, <1>5, Facts DEF Once
  <2>2. \A u \in Vpns \ MapPages : new.ppn[u] = new.frame[u]
    BY <1>3, <1>5, Facts DEF Sound
  <2> QED
    BY <2>1, <2>2, <1>5 DEF Sound
<1>7. IInv'
  <2>1. \A u \in TrapPages : new.ppn[u] = space[s].ppn[u]
    BY <1>5
  <2>2. data' \in [Frames -> Byte]
    BY Facts
  <2> QED
    BY <2>1, <2>2, <1>4, <1>6, OneSpace
<1>8. ASSUME TInv, sp.ppn[v] = NoFrame, mm.valid => v \in MmapPages, sp.mmap_top <= top
      PROVE  TInv'
  <2>1. Tracked(sp)
    BY <1>8 DEF TInv
  <2>2. 0 \in MapPages /\ MmapPages \subseteq MapPages /\ MapPages \subseteq Vpns
    BY PageFacts DEF MapPages
  <2>3. fr = NoFrame
    BY <2>1, <1>8 DEF Tracked
  <2>4. \A u \in MmapPages : u < sp.mmap_top => u < top
    <3>1. sp.mmap_top \in Int /\ top \in Int /\ MmapPages \subseteq Int
      BY Facts, PagesAssumption DEF MmapPages
    <3> QED
      BY <3>1, <1>8
  <2>5. Tracked(new)
    BY <2>1, <2>2, <2>3, <2>4, <1>3, <1>5, <1>8 DEF Tracked
  <2>6. \A u \in Vpns : new.frame[u] \in {sp.frame[u], NoFrame} \cup free
    BY <1>3, <1>5
  <2>7. \A u \in Vpns : new.ppn[u] # NoFrame /\ "W" \in new.flags[u] =>
          \/ new.ppn[u] \in free
          \/ /\ new.ppn[u] = space[s].ppn[u]
             /\ "W" \in space[s].flags[u] \/ refcounter[new.ppn[u]] = 1
    BY <1>3, <1>5
  <2> QED
    BY <2>5, <2>6, <2>7, <1>4, <1>6, <1>8, OneTracked
<1> QED
  BY <1>7, <1>8

LEMMA CowReuseStep ==
  ASSUME IInv, NEW s \in Spaces, s \in live, NEW v \in UserPages, CowReuse(s, v), live' = live
  PROVE  IInv' /\ (TInv => TInv')
<1> DEFINE fl == (space[s].flags[v] \ {"COW"}) \cup {"W"}
<1>1. v \in Vpns
  BY DEF UserPages
<1>2. fl \in SUBSET {"W", "COW"}
  BY <1>1, Facts
<1>3. /\ space' = [space EXCEPT ![s].flags[v] = fl] /\ refcounter[space[s].ppn[v]] = 1
      /\ UNCHANGED <<live, refcounter, free, data>>
  BY DEF CowReuse
<1> HIDE DEF fl
<1> QED
  BY <1>2, <1>3, FlagsStep

LEMMA CowCopyStep ==
  ASSUME IInv, NEW s \in Spaces, s \in live, NEW v \in UserPages, space[s].ppn[v] # NoFrame,
         CowCopy(s, v), live' = live
  PROVE  IInv' /\ (TInv => TInv')
<1> DEFINE sp == space[s]
           fl == sp.flags[v] \cup {"W"}
           ms == sp.mmap_map
<1>1. PICK f \in free :
        /\ space' = [space EXCEPT ![s].ppn[v] = f, ![s].frame[v] = f, ![s].flags[v] = @ \cup {"W"}]
        /\ RetrackPage(sp.frame[v], f)
        /\ data' = [data EXCEPT ![f] = data[sp.ppn[v]]]
  BY DEF CowCopy
<1>2. v \in Vpns /\ fl \in SUBSET {"W", "COW"} /\ ms \in [Vpns -> MmapEntry] /\ sp \in MemorySet
  BY Facts DEF UserPages
<1>3. space' = [space EXCEPT ![s] = [space[s] EXCEPT !.ppn = [space[s].ppn EXCEPT ![v] = f],
                                                     !.frame = [space[s].frame EXCEPT ![v] = f],
                                                     !.flags = [space[s].flags EXCEPT ![v] = fl],
                                                     !.mmap_map = ms]]
  BY <1>1, <1>2, Facts DEF MemorySet
<1>4. data' \in [Frames -> Byte]
  <2>1. sp.ppn[v] \in Frames
    BY <1>2, Facts DEF Owner
  <2> QED
    BY <2>1, <1>1, Facts
<1>5. ASSUME TInv
      PROVE  /\ v \in MapPages => v \in MmapPages /\ ms[v].valid /\ v < space[s].mmap_top
             /\ ms[v].valid => v \in MmapPages
  <2>1. Tracked(sp)
    BY <1>5 DEF TInv
  <2> QED
    BY <2>1, <1>2 DEF Tracked, MapPages
<1>6. RetrackPage(space[s].frame[v], f) /\ \A u \in Vpns : u # v => ms[u] = space[s].mmap_map[u]
  BY <1>1
<1> HIDE DEF ms, fl
<1> QED
  BY <1>2, <1>3, <1>4, <1>5, <1>6, FreshPage

LEMMA LazyMapStep ==
  ASSUME IInv, NEW s \in Spaces, s \in live, NEW v \in UserPages, Lazy(s, v),
         NEW w \in BOOLEAN, NEW d \in Byte, LazyMap(s, v, w, d), live' = live
  PROVE  IInv' /\ (TInv => TInv')
<1> DEFINE sp == space[s]
           fl == IF w THEN {"W"} ELSE {}
           mm == [sp.mmap_map[v] EXCEPT !.valid = @ \/ v \in MmapPages]
           ms == [sp.mmap_map EXCEPT ![v] = mm]
<1>1. PICK f \in free :
        /\ space' = [space EXCEPT ![s].ppn[v] = f, ![s].frame[v] = f,
                                  ![s].flags[v] = IF w THEN {"W"} ELSE {},
                                  ![s].mmap_map[v].valid = @ \/ v \in MmapPages]
        /\ RetrackPage(sp.frame[v], f)
        /\ data' = [data EXCEPT ![f] = d]
  BY DEF LazyMap
<1>2. /\ v \in Vpns /\ fl \in SUBSET {"W", "COW"} /\ sp \in MemorySet
      /\ sp.mmap_map \in [Vpns -> MmapEntry]
  BY Facts DEF UserPages
<1>3. sp.mmap_map[v] \in MmapEntry
  BY <1>2
<1>4. mm \in MmapEntry /\ (mm.valid <=> (sp.mmap_map[v].valid \/ v \in MmapPages))
  BY <1>3 DEF MmapEntry
<1>5. space' = [space EXCEPT ![s] = [space[s] EXCEPT !.ppn = [space[s].ppn EXCEPT ![v] = f],
                                                     !.frame = [space[s].frame EXCEPT ![v] = f],
                                                     !.flags = [space[s].flags EXCEPT ![v] = fl],
                                                     !.mmap_map = ms]]
  BY <1>1, <1>2, Facts DEF MemorySet
<1> HIDE DEF mm
<1>6. ms \in [Vpns -> MmapEntry] /\ ms[v] = mm /\ \A u \in Vpns : u # v => ms[u] = space[s].mmap_map[u]
  BY <1>2, <1>4
<1>7. data' \in [Frames -> Byte]
  BY <1>1, Facts
<1>8. ASSUME TInv
      PROVE  /\ v \in MapPages => v \in MmapPages /\ ms[v].valid /\ v < space[s].mmap_top
             /\ ms[v].valid => v \in MmapPages
  <2>1. Tracked(sp)
    BY <1>8 DEF TInv
  <2>2. v \in LazyPages \/ (v \in MmapPages /\ v < space[s].mmap_top)
    BY DEF Lazy, InMmap
  <2>3. v \in LazyPages => v \notin MapPages
    BY PageFacts
  <2> QED
    BY <2>1, <2>2, <2>3, <1>2, <1>4, <1>6 DEF Tracked
<1>9. RetrackPage(space[s].frame[v], f)
  BY <1>1
<1> HIDE DEF ms, fl
<1> QED
  BY <1>2, <1>5, <1>6, <1>7, <1>8, <1>9, FreshPage

\* What lazy pages get.
LEMMA LazyTypes ==
  ASSUME IInv, NEW s \in Spaces, NEW v \in UserPages
  PROVE  LazyPerm(s, v) \in BOOLEAN /\ LazyByte(s, v) \in Byte
<1>1. v \in Vpns
  BY DEF UserPages
<1>2. space[s].mmap_map[v] \in MmapEntry
  BY <1>1, Facts
<1>3. space[s].mmap_map[v].init \in Byte /\ space[s].mmap_map[v].w \in BOOLEAN
  BY <1>2 DEF MmapEntry
<1>4. LazyByte(s, v) \in Byte
  BY <1>3, DataAssumption DEF LazyByte
<1> QED
  BY <1>3, <1>4 DEF LazyPerm

LEMMA PageFaultStep ==
  ASSUME IInv, NEW s \in Spaces, NEW v \in UserPages, PageFault(s, v)
  PROVE  IInv' /\ (TInv => TInv')
<1>1. s \in live /\ live' = live
  BY RunningSpace DEF PageFault
<1>2. CASE space[s].ppn[v] # NoFrame /\ CowReuse(s, v)
  BY <1>1, <1>2, CowReuseStep
<1>3. CASE space[s].ppn[v] # NoFrame /\ CowCopy(s, v)
  BY <1>1, <1>3, CowCopyStep
<1>4. CASE Lazy(s, v) /\ LazyMap(s, v, LazyPerm(s, v), LazyByte(s, v))
  BY <1>1, <1>4, LazyTypes, LazyMapStep
<1> QED
  BY <1>2, <1>3, <1>4 DEF PageFault

\* A step that changes the content of frames and nothing else.
LEMMA ContentStep ==
  ASSUME IInv, UNCHANGED <<live, space, refcounter, free>>, data' \in [Frames -> Byte]
  PROVE  IInv' /\ (TInv => TInv')
<1>1. Counts'
  BY SameCounts
<1>2. MemoryTypes'
  BY Facts DEF MemoryTypes
<1>3. IInv'
  BY <1>1, <1>2 DEF IInv
<1>4. TInv => TInv'
  BY DEF TInv, Exclusive, Holds
<1> QED
  BY <1>3, <1>4

LEMMA StoreStep ==
  ASSUME IInv, NEW s \in Spaces, NEW v \in UserPages, NEW d \in Byte, Store(s, v, d)
  PROVE  IInv' /\ (TInv => TInv')
<1>1. data' \in [Frames -> Byte] /\ UNCHANGED <<live, space, refcounter, free>>
  BY Facts DEF Store
<1> QED
  BY <1>1, ContentStep

LEMMA CopyOutStep ==
  ASSUME IInv, NEW s \in Spaces, NEW v \in UserPages, NEW d \in Byte, CopyOut(s, v, d)
  PROVE  IInv' /\ (TInv => TInv')
<1>1. s \in live /\ live' = live
  BY RunningSpace DEF CopyOut
<1>2. CASE data' = [data EXCEPT ![space[s].ppn[v]] = d] /\ UNCHANGED <<space, refcounter, free>>
  <2>1. data' \in [Frames -> Byte]
    BY <1>2, Facts
  <2> QED
    BY <2>1, <1>1, <1>2, ContentStep
<1>3. CASE Lazy(s, v) /\ LazyMap(s, v, LazyPerm(s, v), d)
  BY <1>1, <1>3, LazyTypes, LazyMapStep
<1> QED
  BY <1>2, <1>3 DEF CopyOut

\* A read that waits maps the page of its buffer at most, and stores into a frame later.
LEMMA ReadStep ==
  ASSUME IInv, NEW r \in Readers, Read(r)
  PROVE  IInv' /\ (TInv => TInv')
<1>1. ASSUME NEW s \in Spaces, NEW v \in UserPages, Translate(r, s, v)
      PROVE  IInv' /\ (TInv => TInv')
  <2>1. s \in live /\ live' = live
    BY <1>1, RunningSpace DEF Translate
  <2>2. CASE UNCHANGED <<space, refcounter, free, data>>
    BY <2>1, <2>2, Facts, ContentStep
  <2>3. CASE Lazy(s, v) /\ LazyMap(s, v, LazyPerm(s, v), LazyByte(s, v))
    BY <2>1, <2>3, LazyTypes, LazyMapStep
  <2> QED
    BY <1>1, <2>2, <2>3 DEF Translate
<1>2. ASSUME NEW d \in Byte, FillBuffer(r, d)
      PROVE  IInv' /\ (TInv => TInv')
  <2>1. data' \in [Frames -> Byte] /\ UNCHANGED <<live, space, refcounter, free>>
    BY <1>2, Facts DEF FillBuffer
  <2> QED
    BY <2>1, ContentStep
<1>3. CASE Abandon(r)
  BY <1>3, Facts, ContentStep DEF Abandon
<1> QED
  BY <1>1, <1>2, <1>3 DEF Read

\* What push does to mmap_top, and the entries that mmap makes.
LEMMA PushTypes ==
  ASSUME IInv, NEW s \in Spaces, NEW v \in MapPages, NEW w \in Writable, NEW init \in MmapInits
  PROVE  LET top == IF space[s].mmap_top <= v THEN v + 1 ELSE space[s].mmap_top IN
         /\ top \in MmapStart .. (MmapEnd + 1) /\ space[s].mmap_top <= top
         /\ MmapPage(w, init) \in MmapEntry /\ ~ MmapPage(w, init).valid
         /\ NoMmap \in MmapEntry /\ ~ NoMmap.valid
<1>1. /\ space[s].mmap_top \in MmapStart .. (MmapEnd + 1)
      /\ MmapStart \in Nat \ {0} /\ MmapEnd \in Nat /\ (v = 0 \/ v \in MmapStart .. MmapEnd)
  BY Facts, PagesAssumption DEF MapPages, MmapPages
<1>2. w \in BOOLEAN /\ init \in Byte /\ 0 \in Byte
  BY DataAssumption
<1>3. /\ MmapPage(w, init) \in MmapEntry /\ ~ MmapPage(w, init).valid
      /\ NoMmap \in MmapEntry /\ ~ NoMmap.valid
  BY <1>2 DEF MmapPage, MmapEntry, NoMmap
<1> QED
  BY <1>1, <1>3

LEMMA MmapStep ==
  ASSUME IInv, NEW s \in Spaces, NEW addr \in MmapAddrs, NEW w \in Writable, NEW init \in MmapInits,
         Mmap(s, addr, MmapPage(w, init))
  PROVE  IInv' /\ (TInv => TInv')
<1> DEFINE sp == space[s]
           v == IF addr = 0 THEN sp.mmap_top ELSE 0
           page == MmapPage(w, init)
           top == IF sp.mmap_top <= v THEN v + 1 ELSE sp.mmap_top
<1>1. /\ s \in live /\ v \in MapPages /\ space' = [space EXCEPT ![s] = push(sp, v, page)]
      /\ UNCHANGED <<live, refcounter, free, data>>
  BY RunningSpace DEF Mmap, MapPages
<1>2. v = 0 \/ v = sp.mmap_top
  OBVIOUS
<1> HIDE DEF v
<1>3. top \in MmapStart .. (MmapEnd + 1) /\ sp.mmap_top <= top /\ page \in MmapEntry /\ ~ page.valid
  BY <1>1, PushTypes
<1>4. push(sp, v, page) = [sp EXCEPT !.mmap_map = [sp.mmap_map EXCEPT ![v] = page], !.mmap_top = top]
  BY DEF push
<1>5. sp \in MemorySet /\ sp.frame = [sp.frame EXCEPT ![v] = sp.frame[v]] /\ v \in Vpns
  BY <1>1, Facts, PageFacts
<1>6. space' = [space EXCEPT ![s] = [sp EXCEPT !.frame = [sp.frame EXCEPT ![v] = sp.frame[v]],
                                               !.mmap_map = [sp.mmap_map EXCEPT ![v] = page],
                                               !.mmap_top = top]]
  <2>1. push(sp, v, page) = [sp EXCEPT !.frame = sp.frame,
                                       !.mmap_map = [sp.mmap_map EXCEPT ![v] = page], !.mmap_top = top]
    BY <1>4, <1>5 DEF MemorySet
  <2> QED
    BY <2>1, <1>1, <1>5
<1>7. Counts' /\ refcounter' \in [Frames -> 0 .. (RefMod - 1)] /\ free' \in SUBSET Frames
  <2> DEFINE new == push(sp, v, page)
  <2>1. new.frame = sp.frame
    BY <1>4, <1>5 DEF MemorySet
  <2> HIDE DEF new
  <2>2. \A t \in Spaces : space'[t] = IF t = s THEN new ELSE space[t]
    BY <1>1, Facts DEF new
  <2>3. \A t \in Spaces : space'[t].frame = space[t].frame
    BY <2>1, <2>2
  <2> QED
    BY <2>3, <1>1, SameCounts
<1>8. ASSUME TInv
      PROVE  sp.ppn[v] = NoFrame
  <2>1. Tracked(sp)
    BY <1>8 DEF TInv
  <2>2. sp.mmap_top \in Int /\ (v \in MapPages /\ v # 0 => v \in MmapPages)
    BY Facts, PagesAssumption DEF MapPages
  <2> QED
    BY <2>1, <2>2, <1>1, <1>2 DEF Tracked
<1> DEFINE fr == sp.frame[v]
<1>9. /\ fr \in {space[s].frame[v], NoFrame} /\ live' = live /\ data' = data
      /\ space' = [space EXCEPT ![s] = [space[s] EXCEPT !.frame = [space[s].frame EXCEPT ![v] = fr],
                                                        !.mmap_map = [space[s].mmap_map EXCEPT ![v] = page],
                                                        !.mmap_top = top]]
  BY <1>1, <1>6
<1>10. s \in live /\ live' = live /\ data' = data /\ v \in MapPages
  BY <1>1, <1>2
<1> HIDE DEF top, page, fr
<1> QED
  BY <1>3, <1>7, <1>8, <1>9, <1>10, MmapEntryStep

\* The tracker of a page goes.
LEMMA UntrackPage ==
  ASSUME IInv, NEW s \in Spaces, NEW v \in MapPages, NEW new, new.frame = [space[s].frame EXCEPT ![v] = NoFrame],
         space' = [space EXCEPT ![s] = new], RetrackPage(space[s].frame[v], NoFrame)
  PROVE  Counts' /\ refcounter' \in [Frames -> 0 .. (RefMod - 1)] /\ free' \in SUBSET Frames
<1>1. \A t \in Spaces : space'[t] = IF t = s THEN new ELSE space[t]
  BY Facts
<1>2. space'[s].frame = [space[s].frame EXCEPT ![v] = NoFrame]
  BY <1>1, Facts
<1>3. \A t \in Spaces \ {s} : space'[t].frame = space[t].frame
  BY <1>1, Facts
<1>4. /\ Counts /\ free \subseteq Frames /\ space[s].frame \in [Vpns -> Owner] /\ Once(space[s])
      /\ v \in Vpns /\ NoFrame \in free \cup {NoFrame}
  BY Facts, PageFacts
<1> QED
  BY <1>2, <1>3, <1>4, RetrackPageKeeps

\* A tame program gives only untouched pages to MAP_FIXED and munmap.
LEMMA TameUntouched ==
  ASSUME Tame, NEW s, NEW v, NEW call \in {"fixed", "munmap"}, Untouched(s, v, call)
  PROVE  space[s].ppn[v] = NoFrame
  BY DEF Tame, Untouched

LEMMA MmapFixedStep ==
  ASSUME IInv, NEW s \in Spaces, NEW v \in MmapPages, NEW w \in Writable, NEW init \in MmapInits,
         MmapFixed(s, v, MmapPage(w, init))
  PROVE  IInv' /\ (Tame /\ TInv => TInv')
<1> DEFINE sp == space[s]
           page == MmapPage(w, init)
           top == IF sp.mmap_top <= v THEN v + 1 ELSE sp.mmap_top
           new == [sp EXCEPT !.frame = [sp.frame EXCEPT ![v] = NoFrame],
                             !.mmap_map = [sp.mmap_map EXCEPT ![v] = page],
                             !.mmap_top = top]
<1>1. /\ s \in live /\ Untouched(s, v, "fixed") /\ live' = live /\ data' = data
      /\ space' = [space EXCEPT ![s] = push(remove(sp, v), v, page)]
      /\ RetrackPage(sp.frame[v], NoFrame)
  BY RunningSpace DEF MmapFixed
<1>2. v \in MapPages /\ v \in Vpns
  BY PageFacts DEF MapPages
<1>3. top \in MmapStart .. (MmapEnd + 1) /\ sp.mmap_top <= top /\ page \in MmapEntry /\ ~ page.valid
  BY <1>2, PushTypes
<1>4. /\ sp \in MemorySet /\ sp.mmap_map \in [Vpns -> MmapEntry] /\ sp.frame \in [Vpns -> Owner]
  BY Facts
<1>5. push(remove(sp, v), v, page) = new /\ new.frame = [sp.frame EXCEPT ![v] = NoFrame]
  <2> DEFINE gone == [sp EXCEPT !.mmap_map = [sp.mmap_map EXCEPT ![v] = NoMmap],
                                !.frame = [sp.frame EXCEPT ![v] = NoFrame]]
  <2>1. remove(sp, v) = gone
    BY DEF remove
  <2>2. gone.mmap_map = [sp.mmap_map EXCEPT ![v] = NoMmap] /\ gone.mmap_top = sp.mmap_top
    BY <1>4 DEF MemorySet
  <2>3. [gone.mmap_map EXCEPT ![v] = page] = [sp.mmap_map EXCEPT ![v] = page]
    BY <2>2, <1>2, <1>4
  <2>4. push(gone, v, page) = [gone EXCEPT !.mmap_map = [gone.mmap_map EXCEPT ![v] = page], !.mmap_top = top]
    BY <2>2 DEF push
  <2>5. [gone EXCEPT !.mmap_map = [sp.mmap_map EXCEPT ![v] = page], !.mmap_top = top] = new
    BY <1>4 DEF MemorySet
  <2>6. new.frame = [sp.frame EXCEPT ![v] = NoFrame]
    BY <1>4 DEF MemorySet
  <2> HIDE DEF new, gone
  <2> QED
    BY <2>1, <2>3, <2>4, <2>5, <2>6
<1>6. space' = [space EXCEPT ![s] = new]
  BY <1>1, <1>5
<1>7. Counts' /\ refcounter' \in [Frames -> 0 .. (RefMod - 1)] /\ free' \in SUBSET Frames
  <2> HIDE DEF new
  <2> QED
    BY <1>1, <1>2, <1>5, <1>6, UntrackPage
<1>8. Tame => sp.ppn[v] = NoFrame
  BY <1>1, TameUntouched
<1> DEFINE fr == NoFrame
<1>9. /\ fr \in {space[s].frame[v], NoFrame}
      /\ space' = [space EXCEPT ![s] = [space[s] EXCEPT !.frame = [space[s].frame EXCEPT ![v] = fr],
                                                        !.mmap_map = [space[s].mmap_map EXCEPT ![v] = page],
                                                        !.mmap_top = top]]
  BY <1>6
<1>10. s \in live /\ live' = live /\ data' = data /\ v \in MapPages
  BY <1>1, <1>2
<1> HIDE DEF top, page, fr, new
<1> QED
  BY <1>3, <1>7, <1>8, <1>9, <1>10, MmapEntryStep

LEMMA MunmapStep ==
  ASSUME IInv, NEW s \in Spaces, NEW v \in MmapPages, Munmap(s, v)
  PROVE  IInv' /\ (Tame /\ TInv => TInv')
<1> DEFINE sp == space[s]
           mm == NoMmap
           top == sp.mmap_top
           new == [sp EXCEPT !.frame = [sp.frame EXCEPT ![v] = NoFrame],
                             !.mmap_map = [sp.mmap_map EXCEPT ![v] = mm],
                             !.mmap_top = top]
<1>1. /\ s \in live /\ Untouched(s, v, "munmap") /\ live' = live /\ data' = data
      /\ space' = [space EXCEPT ![s] = remove(sp, v)]
      /\ RetrackPage(sp.frame[v], NoFrame)
  BY RunningSpace DEF Munmap
<1>2. v \in MapPages /\ v \in Vpns
  BY PageFacts DEF MapPages
<1>3. top \in MmapStart .. (MmapEnd + 1) /\ sp.mmap_top <= top /\ mm \in MmapEntry /\ ~ mm.valid
  BY Facts, PagesAssumption, DataAssumption DEF NoMmap, MmapEntry
<1>4. sp \in MemorySet
  BY Facts
<1>5. remove(sp, v) = new /\ new.frame = [sp.frame EXCEPT ![v] = NoFrame]
  BY <1>4 DEF remove, MemorySet
<1>6. space' = [space EXCEPT ![s] = new]
  BY <1>1, <1>5
<1>7. Counts' /\ refcounter' \in [Frames -> 0 .. (RefMod - 1)] /\ free' \in SUBSET Frames
  <2> HIDE DEF new
  <2> QED
    BY <1>1, <1>2, <1>5, <1>6, UntrackPage
<1>8. Tame => sp.ppn[v] = NoFrame
  BY <1>1, TameUntouched
<1> DEFINE fr == NoFrame
<1>9. /\ fr \in {space[s].frame[v], NoFrame}
      /\ space' = [space EXCEPT ![s] = [space[s] EXCEPT !.frame = [space[s].frame EXCEPT ![v] = fr],
                                                        !.mmap_map = [space[s].mmap_map EXCEPT ![v] = mm],
                                                        !.mmap_top = top]]
  BY <1>6
<1>10. s \in live /\ live' = live /\ data' = data /\ v \in MapPages
  BY <1>1, <1>2
<1> HIDE DEF top, mm, fr, new
<1> QED
  BY <1>3, <1>7, <1>8, <1>9, <1>10, MmapEntryStep

LEMMA MprotectStep ==
  ASSUME IInv, NEW s \in Spaces, NEW v \in ProtPages, NEW w \in Writable, Mprotect(s, v, w)
  PROVE  IInv' /\ (Tame /\ TInv => TInv')
<1> DEFINE sp == space[s]
<1>1. s \in live /\ UNCHANGED <<live, refcounter, free, data>>
  BY RunningSpace DEF Mprotect
<1>2. v \in UserPages /\ v \in Vpns /\ w \in BOOLEAN
  BY DataAssumption DEF UserPages
<1>3. CASE /\ "mprotect" \in Calls \/ refcounter[space[s].ppn[v]] = 1
           /\ space' = [space EXCEPT ![s].flags[v] = IF w THEN {"W"} ELSE {}]
  <2> DEFINE fl == IF w THEN {"W"} ELSE {}
  <2>1. fl \in SUBSET {"W", "COW"} /\ space' = [space EXCEPT ![s].flags[v] = fl]
    BY <1>3
  <2>2. Tame => refcounter[space[s].ppn[v]] = 1
    BY <1>3 DEF Tame
  <2> HIDE DEF fl
  <2> QED
    BY <2>1, <2>2, <1>1, <1>2, FlagsStep
<1>4. CASE /\ space[s].ppn[v] = NoFrame /\ InMmap(s, v)
           /\ space' = [space EXCEPT ![s].mmap_map[v].w = w]
  <2> DEFINE mm == [sp.mmap_map[v] EXCEPT !.w = w]
             top == sp.mmap_top
             new == [sp EXCEPT !.mmap_map = [sp.mmap_map EXCEPT ![v] = mm]]
  <2>1. /\ sp \in MemorySet /\ sp.mmap_map[v] \in MmapEntry /\ top \in MmapStart .. (MmapEnd + 1)
        /\ sp.frame \in [Vpns -> Owner]
    BY <1>2, Facts
  <2>2. mm \in MmapEntry
    BY <2>1, <1>2 DEF MmapEntry
  <2>3. v \in MmapPages /\ v \in MapPages
    BY <1>4 DEF InMmap, MapPages
  <2>4. space' = [space EXCEPT ![s] = new]
    BY <1>4
  <2> HIDE DEF mm
  <2>5. sp.frame = [sp.frame EXCEPT ![v] = sp.frame[v]]
    BY <2>1, <1>2
  <2>6. new = [sp EXCEPT !.frame = [sp.frame EXCEPT ![v] = sp.frame[v]],
                         !.mmap_map = [sp.mmap_map EXCEPT ![v] = mm],
                         !.mmap_top = top]
    BY <2>1, <2>5 DEF MemorySet
  <2>7. space' = [space EXCEPT ![s] = [sp EXCEPT !.frame = [sp.frame EXCEPT ![v] = sp.frame[v]],
                                                 !.mmap_map = [sp.mmap_map EXCEPT ![v] = mm],
                                                 !.mmap_top = top]]
    BY <2>4, <2>6
  <2>8. Counts' /\ refcounter' \in [Frames -> 0 .. (RefMod - 1)] /\ free' \in SUBSET Frames
    <3>1. new.frame = sp.frame
      BY <2>1 DEF MemorySet
    <3> HIDE DEF new
    <3>2. \A t \in Spaces : space'[t] = IF t = s THEN new ELSE space[t]
      BY <2>4, Facts
    <3>3. \A t \in Spaces : space'[t].frame = space[t].frame
      BY <3>1, <3>2
    <3> QED
      BY <3>3, <1>1, SameCounts
  <2>9. sp.mmap_top <= top
    BY <2>1, PagesAssumption
  <2> DEFINE fr == sp.frame[v]
  <2>10. /\ fr \in {space[s].frame[v], NoFrame} /\ live' = live /\ data' = data
         /\ space' = [space EXCEPT ![s] = [space[s] EXCEPT !.frame = [space[s].frame EXCEPT ![v] = fr],
                                                           !.mmap_map = [space[s].mmap_map EXCEPT ![v] = mm],
                                                           !.mmap_top = top]]
    BY <2>7, <1>1
  <2>11. top \in MmapStart .. (MmapEnd + 1) /\ s \in live /\ space[s].ppn[v] = NoFrame
    BY <2>1, <1>1, <1>4
  <2> HIDE DEF top, fr, new
  <2> QED
    BY <2>2, <2>3, <2>8, <2>9, <2>10, <2>11, MmapEntryStep
<1> QED
  BY <1>3, <1>4 DEF Mprotect
-----------------------------------------------------------------------------
(* The theorems *)

LEMMA InitIInv ==
  ASSUME Init
  PROVE  IInv /\ TInv
<1> DEFINE Boot == {INITPROC, BUSYBOX}
<1>1. PICK g \in Injections(Boot \X EagerPages, Frames) :
        LET eager(s) == [v \in EagerPages |-> g[<<s, v>>]]
            used == {g[x] : x \in DOMAIN g} IN
        /\ live = Boot
        /\ space = [s \in Spaces |-> IF s \in live THEN Loaded(eager(s)) ELSE Bare]
        /\ refcounter = [f \in Frames |-> IF f \in used THEN 1 ELSE 0]
        /\ free = Frames \ used
        /\ data = [f \in Frames |-> IF f \in used THEN ElfByte ELSE 0]
  BY DEF Init
<1> DEFINE eager(s) == [v \in EagerPages |-> g[<<s, v>>]]
           used == {g[x] : x \in DOMAIN g}
<1>2. Boot \subseteq Spaces /\ BUSYBOX \in Boot
  BY DataAssumption
<1>3. /\ g \in [Boot \X EagerPages -> Frames]
      /\ \A x, y \in Boot \X EagerPages : g[x] = g[y] => x = y
  BY DEF Injections
<1>4. used = {g[x] : x \in Boot \X EagerPages}
  BY <1>3
<1>5. /\ live = Boot
      /\ refcounter = [f \in Frames |-> IF f \in used THEN 1 ELSE 0]
      /\ free = Frames \ used
      /\ data = [f \in Frames |-> IF f \in used THEN ElfByte ELSE 0]
      /\ \A s \in Spaces : space[s] = IF s \in Boot THEN Loaded(eager(s)) ELSE Bare
      /\ space = [s \in Spaces |-> space[s]]
  BY <1>1
<1> HIDE DEF Boot, used
<1>6. EagerPages \in SUBSET (Vpns \ MapPages) /\ EagerPages \subseteq Vpns /\ Frames \in SUBSET Frames
  BY PageFacts
<1>7. ASSUME NEW s \in Boot
      PROVE  /\ Sound(space[s]) /\ Tracked(space[s])
             /\ \A v \in Vpns : /\ space[s].ppn[v] = IF v \in EagerPages THEN g[<<s, v>>] ELSE NoFrame
                                /\ space[s].frame[v] = space[s].ppn[v]
                                /\ v \in EagerPages => g[<<s, v>>] \in Frames
  <2> DEFINE e == eager(s)
             l == Loaded(e)
  <2>1. \A v \in EagerPages : <<s, v>> \in Boot \X EagerPages /\ e[v] = g[<<s, v>>]
    OBVIOUS
  <2>2. e \in [EagerPages -> Frames] /\ \A v, w \in EagerPages : e[v] = e[w] => v = w
    BY <2>1, <1>3
  <2> HIDE DEF e
  <2>3. e \in Injections(EagerPages, Frames)
    BY <2>2 DEF Injections
  <2>4. /\ Sound(l) /\ l.mmap_top = MmapStart
        /\ \A v \in Vpns : /\ l.ppn[v] = IF v \in EagerPages THEN e[v] ELSE NoFrame
                           /\ l.frame[v] = l.ppn[v]
                           /\ v \in EagerPages => e[v] \in Frames
                           /\ l.mmap_map[v] = NoMmap
    BY <2>3, <1>6, LoadedSound
  <2>5. space[s] = l
    BY <1>2, <1>5 DEF e
  <2> HIDE DEF l
  <2>6. Tracked(l)
    <3>1. ~ NoMmap.valid
      BY DEF NoMmap
    <3>2. \A v \in MapPages : v \in Vpns /\ l.ppn[v] = NoFrame
      BY <2>4, <1>6, PageFacts
    <3>3. 0 \in MapPages /\ MmapPages \subseteq MapPages
      BY DEF MapPages
    <3> QED
      BY <3>1, <3>2, <3>3, <2>4 DEF Tracked
  <2> QED
    BY <2>1, <2>4, <2>5, <2>6
<1>8. ASSUME NEW s \in Spaces \ Boot
      PROVE  space[s] = Bare /\ Sound(space[s]) /\ Tracked(space[s]) /\ \A f \in Frames : ~ Holds(space[s], f)
  <2>1. ~ NoMmap.valid
    BY DEF NoMmap
  <2>2. Tracked(Bare)
    <3>1. \A v \in MapPages : v \in Vpns /\ Bare.ppn[v] = NoFrame /\ Bare.frame[v] = NoFrame
      BY BareSound, PageFacts
    <3>2. 0 \in MapPages /\ MmapPages \subseteq MapPages
      BY DEF MapPages
    <3> QED
      BY <3>1, <3>2, <2>1, BareSound DEF Tracked
  <2>3. space[s] = Bare
    BY <1>5
  <2> QED
    BY <2>2, <2>3, BareSound
<1>9. \A s \in Spaces : Sound(space[s]) /\ Tracked(space[s])
  BY <1>2, <1>7, <1>8
<1>10. \A s \in Boot, f \in Frames : Holds(space[s], f) <=> \E v \in EagerPages : g[<<s, v>>] = f
  <2>1. NoFrame \notin Frames
    BY DataAssumption
  <2> SUFFICES ASSUME NEW s \in Boot, NEW f \in Frames
               PROVE  Holds(space[s], f) <=> \E v \in EagerPages : g[<<s, v>>] = f
    OBVIOUS
  <2>2. \A v \in Vpns : space[s].frame[v] = IF v \in EagerPages THEN g[<<s, v>>] ELSE NoFrame
    BY <1>7
  <2>3. f # NoFrame
    BY <2>1
  <2> QED
    BY <2>2, <2>3, <1>6 DEF Holds
<1>11. ASSUME NEW s \in Spaces, NEW t \in Spaces, NEW f \in Frames, Holds(space[s], f), Holds(space[t], f)
       PROVE  s = t
  <2>1. s \in Boot /\ t \in Boot
    BY <1>8, <1>11
  <2>2. PICK v \in EagerPages, u \in EagerPages : g[<<s, v>>] = f /\ g[<<t, u>>] = f
    BY <2>1, <1>10, <1>11
  <2>3. <<s, v>> = <<t, u>>
    BY <2>1, <2>2, <1>3
  <2> QED
    BY <2>3
<1>12. ASSUME NEW f \in Frames
       PROVE  /\ refcounter[f] = Cardinality(Holders(f))
              /\ f \in free <=> Holders(f) = {}
  <2>1. CASE f \in used
    <3>1. PICK x \in Boot \X EagerPages : g[x] = f
      BY <2>1, <1>4
    <3>2. PICK s \in Boot, v \in EagerPages : x = <<s, v>>
      OBVIOUS
    <3>3. Holders(f) = {s}
      BY <3>1, <3>2, <1>2, <1>10, <1>11 DEF Holders
    <3>4. Cardinality({s}) = 1
      BY FS_Singleton
    <3> QED
      BY <2>1, <3>3, <3>4, <1>5
  <2>2. CASE f \notin used
    <3>1. \A s \in Spaces : ~ Holds(space[s], f)
      BY <2>2, <1>4, <1>8, <1>10
    <3>2. Holders(f) = {}
      BY <3>1 DEF Holders
    <3> QED
      BY <2>2, <3>2, <1>5, FS_EmptySet
  <2> QED
    BY <2>1, <2>2
<1>13. MemoryTypes
  <2>1. space \in [Spaces -> MemorySet]
    BY <1>5, <1>9 DEF Sound
  <2>2. 0 \in 0 .. (RefMod - 1) /\ 1 \in 0 .. (RefMod - 1)
    <3>1. Cardinality(Spaces) \in Nat /\ Cardinality(Spaces) # 0
      <4>1. Spaces # {}
        BY DataAssumption
      <4> QED
        BY <4>1, RefAssumption, FS_CardinalityType, FS_EmptySet
    <3> QED
      BY <3>1, RefAssumption
  <2> QED
    BY <2>1, <2>2, <1>2, <1>5, DataAssumption DEF MemoryTypes
<1>14. IInv
  <2>1. \A s \in live, v \in TrapPages : space[s].ppn[v] # NoFrame
    <3>1. NoFrame \notin Frames /\ TrapPages \subseteq EagerPages
      BY DataAssumption, PageFacts
    <3> QED
      BY <3>1, <1>5, <1>6, <1>7
  <2>2. \A s \in Spaces \ live : space[s] = Bare
    BY <1>5, <1>8
  <2>3. Counts
    BY <1>12 DEF Counts
  <2> QED
    BY <2>1, <2>2, <2>3, <1>2, <1>5, <1>9, <1>13 DEF IInv
<1>15. Exclusive
  <2>1. ASSUME NEW s \in Spaces, NEW t \in Spaces, NEW v \in Vpns, space[s].ppn[v] # NoFrame,
               Holds(space[t], space[s].ppn[v])
        PROVE  s = t
    <3>1. s \in Boot
      BY <2>1, <1>8, BareSound
    <3>2. space[s].ppn[v] \in Frames /\ Holds(space[s], space[s].ppn[v])
      BY <3>1, <2>1, <1>7 DEF Holds
    <3> QED
      BY <3>2, <2>1, <1>11
  <2> QED
    BY <2>1 DEF Exclusive
<1> QED
  BY <1>9, <1>14, <1>15 DEF TInv

\* One step of any program keeps both invariants; the second needs tame programs.
LEMMA NextIInv ==
  ASSUME IInv, [Next]_vars
  PROVE  IInv' /\ (Tame /\ TInv => TInv')
<1>1. CASE UNCHANGED vars
  <2>1. UNCHANGED <<live, space, refcounter, free>> /\ data' \in [Frames -> Byte]
    BY <1>1, Facts DEF vars
  <2> QED
    BY <2>1, ContentStep
<1>2. ASSUME NEW s \in Spaces, Step(s)
      PROVE  IInv' /\ (Tame /\ TInv => TInv')
  <2>1. CASE Exec(s) \/ ExecBusybox(s) \/ Drop(s)
    BY <2>1, ExecStep, ExecBusyboxStep, DropStep
  <2>2. CASE \E c \in Spaces : Fork(s, c)
    BY <2>2, ForkStep
  <2>3. CASE \E v \in UserPages : \/ PageFault(s, v)
                                  \/ \E d \in Byte : Store(s, v, d) \/ CopyOut(s, v, d)
    BY <2>3, PageFaultStep, StoreStep, CopyOutStep
  <2>4. CASE \E v \in ProtPages, w \in Writable : Mprotect(s, v, w)
    BY <2>4, MprotectStep
  <2>5. CASE \E w \in Writable, init \in MmapInits :
               \E addr \in MmapAddrs : Mmap(s, addr, MmapPage(w, init))
    BY <2>5, MmapStep
  <2>6. CASE \E w \in Writable, init \in MmapInits :
               \E addr \in MmapPages : MmapFixed(s, addr, MmapPage(w, init))
    BY <2>6, MmapFixedStep
  <2>7. CASE \E v \in MmapPages : Munmap(s, v)
    BY <2>7, MunmapStep
  <2> QED
    BY <1>2, <2>1, <2>2, <2>3, <2>4, <2>5, <2>6, <2>7 DEF Step
<1>3. ASSUME NEW r \in Readers, Read(r)
      PROVE  IInv' /\ (Tame /\ TInv => TInv')
  BY <1>3, ReadStep
<1> QED
  BY <1>1, <1>2, <1>3 DEF Next

LEMMA Invariant == Spec => []IInv
<1>1. Init => IInv
  BY InitIInv
<1>2. IInv /\ [Next]_vars => IInv'
  BY NextIInv
<1> QED
  BY <1>1, <1>2, PTL DEF Spec

LEMMA TameInvariant ==
  ASSUME Tame
  PROVE  Spec => [](IInv /\ TInv)
<1>1. Init => IInv /\ TInv
  BY InitIInv
<1>2. IInv /\ TInv /\ [Next]_vars => (IInv /\ TInv)'
  BY NextIInv
<1> QED
  BY <1>1, <1>2, PTL DEF Spec

\* The state keeps its types, whatever the programs call: no counter leaves the range of
\* its u8, and mmap_top stays in the mmap region.
THEOREM TypeCorrect == Spec => []TypeOK
<1>1. Init => BufferTypes
  BY DEF Init, BufferTypes
<1>2. ASSUME IInv, BufferTypes, [Next]_vars
      PROVE  BufferTypes'
  <2>1. CASE UNCHANGED buf
    BY <1>2, <2>1 DEF BufferTypes
  <2>2. ASSUME NEW r \in Readers, NEW s \in Spaces, NEW v \in UserPages, Translate(r, s, v)
        PROVE  BufferTypes'
    <3>1. v \in Vpns
      BY DEF UserPages
    <3>2. space'[s].ppn[v] \in Frames
      <4>1. CASE space[s].ppn[v] # NoFrame /\ UNCHANGED space
        BY <3>1, <4>1, <1>2, Facts DEF Owner
      <4>2. CASE LazyMap(s, v, LazyPerm(s, v), LazyByte(s, v))
        <5>1. PICK f \in free :
                space' = [space EXCEPT ![s].ppn[v] = f, ![s].frame[v] = f,
                                       ![s].flags[v] = IF LazyPerm(s, v) THEN {"W"} ELSE {},
                                       ![s].mmap_map[v].valid = @ \/ v \in MmapPages]
          BY <4>2 DEF LazyMap
        <5>2. space'[s].ppn[v] = f
          BY <3>1, <5>1, <1>2, Facts DEF MemorySet
        <5> QED
          BY <5>2, <1>2, Facts
      <4> QED
        BY <2>2, <4>1, <4>2 DEF Translate
    <3> DEFINE b == [space |-> s, page |-> v, frame |-> space'[s].ppn[v]]
    <3>3. b \in UserBuffer
      BY <3>2 DEF UserBuffer
    <3>4. buf' = [buf EXCEPT ![r] = b]
      BY <2>2 DEF Translate
    <3> HIDE DEF b
    <3> QED
      BY <3>3, <3>4, <1>2 DEF BufferTypes
  <2>3. ASSUME NEW r \in Readers, (\E d \in Byte : FillBuffer(r, d)) \/ Abandon(r)
        PROVE  BufferTypes'
    BY <2>3, <1>2 DEF FillBuffer, Abandon, BufferTypes
  <2> QED
    BY <1>2, <2>1, <2>2, <2>3 DEF Next, Read, vars
<1>3. IInv /\ BufferTypes => TypeOK
  BY DEF IInv, TypeOK
<1> QED
  BY <1>1, <1>2, <1>3, Invariant, PTL DEF Spec

\* refcounter counts the FrameTrackers of every frame and exactly the frames without one
\* are free, whatever the programs call and however forks, execs, faults and exits mix.
THEOREM FramesAreCounted == Spec => []RefsAreTrackers
<1>1. ASSUME IInv
      PROVE  RefsAreTrackers
  <2>1. ASSUME NEW f \in Frames
        PROVE  Cardinality(Trackers(f)) = Cardinality(Holders(f)) /\ (Trackers(f) = {} <=> Holders(f) = {})
    <3> DEFINE F == [x \in Trackers(f) |-> x[1]]
    <3>1. \A s \in Spaces : s \in Holders(f) <=> \E v \in Vpns : <<s, v>> \in Trackers(f)
      BY DEF Holders, Holds, Trackers
    <3>2. \A x \in Trackers(f) : \E s \in Spaces, v \in Vpns : x = <<s, v>> /\ space[s].frame[v] = f
      BY DEF Trackers
    <3>3. F \in [Trackers(f) -> Holders(f)]
      BY <3>2 DEF Holders, Holds
    <3>4. ASSUME NEW x \in Trackers(f), NEW y \in Trackers(f), F[x] = F[y]
          PROVE  x = y
      <4>1. PICK s \in Spaces, v \in Vpns : x = <<s, v>> /\ space[s].frame[v] = f
        BY <3>2
      <4>2. PICK t \in Spaces, u \in Vpns : y = <<t, u>> /\ space[t].frame[u] = f
        BY <3>2
      <4>3. s = t
        BY <3>4, <4>1, <4>2
      <4>4. v = u
        BY <1>1, <4>1, <4>2, <4>3, Facts DEF Once
      <4> QED
        BY <4>1, <4>2, <4>3, <4>4
    <3>5. F \in Injection(Trackers(f), Holders(f))
      BY <3>3, <3>4 DEF Injection, IsInjective
    <3>6. \A s \in Holders(f) : \E x \in Trackers(f) : F[x] = s
      <4>1. ASSUME NEW s \in Holders(f)
            PROVE  \E x \in Trackers(f) : F[x] = s
        <5>1. PICK v \in Vpns : <<s, v>> \in Trackers(f)
          BY <3>1 DEF Holders
        <5> QED
          BY <5>1
      <4> QED
        BY <4>1
    <3>7. F \in Surjection(Trackers(f), Holders(f))
      BY <3>3, <3>6 DEF Surjection
    <3> HIDE DEF F
    <3>8. IsFiniteSet(Holders(f))
      BY HoldersBound
    <3>9. Trackers(f) = {} <=> Holders(f) = {}
      BY <3>3, <3>6
    <3>10. Cardinality(Trackers(f)) = Cardinality(Holders(f))
      BY <3>5, <3>7, <3>8, FS_Injection
    <3> QED
      BY <3>9, <3>10
  <2> QED
    BY <1>1, <2>1, Facts DEF Counts, RefsAreTrackers
<1> QED
  BY <1>1, Invariant, PTL

\* While programs leave their touched mmap pages alone, every page table entry leads to a
\* frame that its own space keeps alive: no fork, exec or copy on write leaves one behind.
THEOREM EntriesAreTracked ==
  ASSUME Tame
  PROVE  Spec => []MappedIsTracked
<1>1. ASSUME IInv, TInv
      PROVE  MappedIsTracked
  BY <1>1, Facts DEF TInv, Tracked, Sound, MappedIsTracked
<1> QED
  BY <1>1, TameInvariant, PTL

\* For the same programs, a frame that some page may be stored to is mapped nowhere else:
\* fork takes the permission from both sides, and cow_alloc gives it back only for a frame
\* that is counted once or new.
THEOREM StoresAreExclusive ==
  ASSUME Tame
  PROVE  Spec => []WritableIsExclusive
<1>1. ASSUME IInv, TInv
      PROVE  WritableIsExclusive
  <2>1. ASSUME NEW s \in live, NEW t \in live, NEW v \in Vpns, NEW u \in Vpns,
               space[s].ppn[v] # NoFrame, "W" \in space[s].flags[v],
               space[t].ppn[u] = space[s].ppn[v]
        PROVE  s = t /\ u = v
    <3>1. s \in Spaces /\ t \in Spaces
      BY <1>1, Facts
    <3>2. space[t].ppn[u] = space[t].frame[u] /\ space[s].ppn[v] = space[s].frame[v]
      BY <1>1, <3>1, Facts DEF TInv, Tracked, Sound
    <3>3. s = t
      BY <1>1, <2>1, <3>1, <3>2 DEF TInv, Exclusive, Holds
    <3> QED
      BY <1>1, <2>1, <3>1, <3>2, <3>3, Facts DEF Once
  <2> QED
    BY <2>1 DEF WritableIsExclusive
<1> QED
  BY <1>1, TameInvariant, PTL
=============================================================================
