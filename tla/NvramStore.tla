----------------------------- MODULE NvramStore -----------------------------
(***************************************************************************)
(* What the nvram tool does as a store, apart from how it is done: get, set *)
(* and del work on a cache, commit flushes the cache into the flash, and    *)
(* after a power loss the cache is what the flash holds.  A section is a    *)
(* map from keys to values.                                                *)
(*                                                                         *)
(* Where the usage text promises more than the code keeps, this is the      *)
(* store the code keeps, with each failure as a step of its own:            *)
(*   - loadfile ignores the section it is given.  It replaces every         *)
(*     section, read-only ones included, one after the other, up to the     *)
(*     first that does not fit, and flushes them if all do (Load, Fail)     *)
(*   - clear reaches the cache only (Clear)                                 *)
(*   - a section filled to within the size of a checksum has its last entry *)
(*     cut off when it is written (Written)                                 *)
(*   - an error of the device, or a power loss, while a block is flushed    *)
(*     loses that block (WriteFails, Torn)                                 *)
(* All of this is for one command at a time.                               *)
(***************************************************************************)
EXTENDS Naturals, Sequences

CONSTANTS
  Layout, ReadOnly, Blocks,
  Keys, NoValue, Values,
  Mangled,   \* the value of an entry that was cut off
  File,      \* the entries of the file that loadfile reads
  Fits,      \* its sections that are not refused for their size
  Tight,     \* the maps that fill a section to its last four bytes
  Factory,   \* what the flash holds at first
  TORN       \* the power may fail while a block is flushed

VARIABLES
  cache, flash,
  phase,     \* "ready", or a "load", a "flush" between two blocks or the
             \* "write" of a block is under way
  done       \* the sections that are loaded, or the blocks that are flushed

vars == <<cache, flash, phase, done>>

Sections == {Layout[i] : i \in DOMAIN Layout}

Init == flash = Factory /\ cache = flash /\ phase = "ready" /\ done = 0

Ready == phase' = "ready" /\ done' = 0

\* What a section may hold once m has been written to it
Written(m) ==
  {m} \cup {[m EXCEPT ![k] = Mangled] : k \in {k \in Keys : m \in Tight /\ m[k] # NoValue}}

Put(s, m) == \E w \in Written(m) : cache' = [cache EXCEPT ![s] = w]

\* A command that changes the cache alone
Command(s) == phase = "ready" /\ s \notin ReadOnly /\ UNCHANGED <<flash, phase, done>>

Set(s, k, v) == Command(s) /\ Put(s, [cache[s] EXCEPT ![k] = v])

Del(s, k) == Command(s) /\ Put(s, [cache[s] EXCEPT ![k] = NoValue])

Clear(s) == Command(s) /\ cache' = [cache EXCEPT ![s] = [k \in Keys |-> NoValue]]

\* Commands write the sections that they do not change, too
Rewrite(s) == phase = "ready" /\ Put(s, cache[s]) /\ UNCHANGED <<flash, phase, done>>

\* The next section of the file
Load ==
  /\ phase \in {"ready", "load"} /\ done < Len(Layout)
  /\ LET s == Layout[done + 1] IN s \in Fits /\ Put(s, File[s])
  /\ phase' = "load" /\ done' = done + 1
  /\ UNCHANGED flash

\* A commit, or a loadfile whose sections are all loaded, flushes block after block
Flush(i) ==
  /\ \/ i = 1 /\ (phase = "ready" \/ (phase = "load" /\ done = Len(Layout)))
     \/ i = done + 1 /\ phase = "flush"
  /\ flash' = [s \in Sections |-> IF s \in Blocks[i] THEN cache[s] ELSE flash[s]]
  /\ phase' = "write" /\ done' = i
  /\ UNCHANGED cache

Flushed ==
  /\ phase = "write"
  /\ IF done = Len(Blocks) THEN Ready ELSE phase' = "flush" /\ UNCHANGED done
  /\ UNCHANGED <<cache, flash>>

\* A section does not fit, or the flash device refuses to erase a block: what was
\* done before stays
Fail ==
  /\ \/ phase = "load" /\ (done = Len(Layout) \/ Layout[done + 1] \notin Fits)
     \/ phase = "flush"
  /\ Ready /\ UNCHANGED <<cache, flash>>

PowerLoss == phase # "write" /\ cache' = flash /\ Ready /\ UNCHANGED flash

\* The block that is being written stays erased
Erased ==
  /\ phase = "write" /\ Ready
  /\ flash' = [s \in Sections |->
                 IF s \in Blocks[done] THEN [k \in Keys |-> NoValue] ELSE flash[s]]

\* The device refuses to write it, or the power fails
WriteFails == Erased /\ UNCHANGED cache

Torn == TORN /\ Erased /\ cache' = flash'

Next ==
  \/ \E s \in Sections, k \in Keys :
       Del(s, k) \/ \E v \in Values : Set(s, k, v)
  \/ \E s \in Sections : Clear(s) \/ Rewrite(s)
  \/ Load
  \/ \E i \in DOMAIN Blocks : Flush(i)
  \/ Flushed \/ Fail
  \/ PowerLoss \/ WriteFails \/ Torn

Spec == Init /\ [][Next]_vars
=============================================================================
