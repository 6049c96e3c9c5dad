----------------------------- MODULE FileStore -----------------------------
(***************************************************************************)
(* What the FAT32 crate promises its caller: every file has bytes of its   *)
(* own.  A file holds whole allocation units of Unit bytes, as many as its *)
(* size asks for; the bytes between its size and the end of its last unit  *)
(* are kept.  There are no clusters, FAT, recycled queue or cached chains. *)
(***************************************************************************)
EXTENDS Naturals

CONSTANTS
  Slots,   \* directory entries, which name the files
  Unit,    \* bytes of an allocation unit
  Bytes,
  Zero,    \* the content of a byte that was never written
  Writes,  \* offset and length of the writes
  Gone     \* stands for the file of an entry that is not in use

VARIABLE file

Units(n) == (n + Unit - 1) \div Unit

\* The bytes of b, cut or extended with zeros to what n bytes need.
Resized(b, n) ==
  [i \in 0 .. (Units(n) * Unit - 1) |-> IF i \in DOMAIN b THEN b[i] ELSE Zero]

Grown(f, n) ==
  IF n <= f.size THEN f ELSE [size |-> n, bytes |-> Resized(f.bytes, n)]

Empty == [size |-> 0, bytes |-> [i \in {} |-> Zero]]

Init == file = [s \in Slots |-> Gone]

Create(old, new) == old = Gone /\ new = Empty

Remove(old, new) == old # Gone /\ new = Gone

Resize(old, new) ==
  /\ old # Gone /\ new # Gone
  /\ new.bytes = Resized(old.bytes, new.size)

\* The bytes off .. end - 1 become val, and nothing else changes.
Write(old, new) ==
  /\ old # Gone /\ new # Gone
  /\ \E w \in Writes, val \in Bytes :
       LET off == w[1]
           end == w[1] + w[2]
           g == Grown(old, end) IN
       /\ new.size = g.size
       /\ new.bytes = [i \in DOMAIN g.bytes |->
                         IF i \in off .. (end - 1) THEN val ELSE g.bytes[i]]

\* A step changes one file, or moves one to an entry that is not in use.
Next ==
  LET f == file
      g == file' IN
  \/ \E s \in Slots :
       /\ \A t \in Slots \ {s} : g[t] = f[t]
       /\ \/ Create(f[s], g[s]) \/ Remove(f[s], g[s])
          \/ Resize(f[s], g[s]) \/ Write(f[s], g[s])
  \/ \E s, t \in Slots :
       /\ f[s] # Gone /\ f[t] = Gone
       /\ g = [f EXCEPT ![t] = f[s], ![s] = Gone]

Spec == Init /\ [][Next]_file
=============================================================================
