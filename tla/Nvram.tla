------------------------------- MODULE Nvram --------------------------------
(***************************************************************************)
(* The nvram tool (nvram.c, flash.c, main_nvram.c).  Every command is a     *)
(* process of its own: it creates the cache file from the flash if there is *)
(* none, reads the file into nvramcache, changes that, and writes all       *)
(* sections back to the file, and with commit to the flash.  There is no    *)
(* lock, so processes interleave between any two reads and writes, and the  *)
(* power may fail between an erase and the write that follows it.           *)
(*                                                                         *)
(* A section is the sequence of its entries.  Entries have a length; the    *)
(* bytes and the checksum, which the code compares but never acts on, are   *)
(* left out.  An erased block reads as a section without entries.           *)
(***************************************************************************)
EXTENDS Integers, Sequences, SequencesExt

CONSTANTS
  Layout,       \* nvlayout: the sections in their order
  ReadOnly,     \* those with NV_RO
  Keys, Values,
  Len1,         \* the length of an entry with a given value, "k=v" and its end
  SIZE,         \* the size of a section
  MAX_ENTRY,    \* entries of a section
  Blocks,       \* the sections of each erase block of the flash
  File,         \* the entries of the file that loadfile reads
  InitFlash,    \* the entries in the flash when it comes from the factory
  Procs,        \* processes that run at the same time
  Commands,     \* what they run
  TORN          \* the power may fail between erase and write

Sections == Range(Layout)
CRC == 4
\* No section has content: there is no cache file
NoFile == <<>>
NoValue == "NoValue"
\* The value of an entry that was cut off at the end of its section
Mangled == "Mangled"

Entry(k, v) == [name |-> k, value |-> v]
Entries == [name : Keys, value : Values \cup {Mangled}]

\* A key at most once, so that _nvram_buf_get finds the entry that
\* _nvram_buf_set left, and at most MAX_ENTRY entries
Unique(c) == \A i, j \in DOMAIN c : c[i].name = c[j].name => i = j
IsContent(c) == c \in Seq(Entries) /\ Unique(c) /\ Len(c) <= MAX_ENTRY
IsContents(m) ==
  m \in [Sections -> Seq(Entries)] /\ \A s \in Sections : IsContent(m[s])

ASSUME NvramAssumption ==
  /\ Layout \in Seq(Sections) /\ Layout # <<>> /\ ReadOnly \subseteq Sections
  /\ Blocks \in Seq(SUBSET Sections) /\ UNION Range(Blocks) = Sections
  /\ MAX_ENTRY \in Nat /\ SIZE \in Nat /\ TORN \in BOOLEAN
  /\ \A v \in Values : Len1[v] \in Nat \ {0}
  /\ NoValue \notin Values /\ Mangled \notin Values

ASSUME ContentsAssumption == IsContents(File) /\ IsContents(InitFlash)

\* A command that names no section of the layout ends at once and is left out;
\* loadfile does not look at the name
ASSUME CommandsAssumption ==
  \A c \in Commands :
    /\ c.op \in {"set", "del", "clear", "commit", "loadfile", "get"}
    /\ c.op \in {"set", "del", "clear"} => c.s \in Sections
    /\ c.op \in {"set", "del"} => c.k \in Keys
    /\ c.op = "set" => c.v \in Values

VARIABLES
  flash,   \* the MTD partition
  file,    \* NVRAM_CACHE_FILE, or NoFile
  proc     \* each process: pc, its command, nvramcache and a position

vars == <<flash, file, proc>>

Named(c, k) == {i \in DOMAIN c : c[i].name = k}
NoCache == [s \in Sections |-> <<>>]
NoCommand == [op |-> "none"]
Idle == [pc |-> "idle", cmd |-> NoCommand, mem |-> NoCache, at |-> 0]

-----------------------------------------------------------------------------
(* nvramcache.                                                             *)

\* A plausible slip: the old entry is not looked for
Set_Append(c, k, v) == Append(c, Entry(k, v))

\* _nvram_buf_set on the entries of a section: in place, or in an empty room
_nvram_buf_set(c, k, v) ==
  IF Named(c, k) # {} THEN [i \in DOMAIN c |-> IF c[i].name = k THEN Entry(k, v) ELSE c[i]]
  ELSE Append(c, Entry(k, v))

\* Its early returns
SetRefused(s, c, k) ==
  \/ s \in ReadOnly
  \/ Named(c, k) = {} /\ Len(c) >= MAX_ENTRY

\* _nvram_buf_del frees the entry it finds
_nvram_buf_del(c, k) == RemoveAt(c, CHOOSE i \in Named(c, k) : TRUE)

DelRefused(s, c, k) == s \in ReadOnly \/ Named(c, k) = {}

\* nvram_commit: the bytes the entries of a section take
Total(c) == FoldLeft(LAMBDA n, e : n + Len1[e.value], 0, c)

\* A plausible slip: the limit leaves room for another checksum
Exceeds_Twice(c) == Total(c) >= SIZE + CRC

\* The test of nvram_commit, whose end mark q is CRC bytes past the section
Exceeds(c) == Total(c) >= SIZE

\* The section as it is written: what does not fit behind the checksum is cut
\* off, so the last entry runs into the next section
Image(c) ==
  IF CRC + Total(c) > SIZE THEN [c EXCEPT ![Len(c)].value = Mangled] ELSE c

-----------------------------------------------------------------------------
(* The steps of a process.                                                 *)

Go(p, pc) == proc' = [proc EXCEPT ![p].pc = pc, ![p].at = 1]
Exit(p) == proc' = [proc EXCEPT ![p] = Idle]

\* main: nvram_filecache creates the cache file if there is none
Start(p, cmd) ==
  /\ proc[p].pc = "idle"
  /\ proc' = [proc EXCEPT ![p] = [pc |-> IF file = NoFile THEN "dump" ELSE "parse",
                                  cmd |-> cmd, mem |-> NoCache, at |-> 1]]
  /\ file' = IF file = NoFile THEN NoCache ELSE file
  /\ UNCHANGED flash

\* nvram_filecache: one section after the other is read from the flash; a
\* section that is not there yet has no entries
Dump(p) ==
  /\ proc[p].pc = "dump"
  /\ LET s == Layout[proc[p].at]
     IN file' = [file EXCEPT ![s] = flash[s]]
  /\ IF proc[p].at < Len(Layout) THEN proc' = [proc EXCEPT ![p].at = proc[p].at + 1]
     ELSE Go(p, "parse")
  /\ UNCHANGED flash

nvram_parse(p) ==
  /\ proc[p].pc = "parse"
  /\ proc' = [proc EXCEPT ![p].pc = "run", ![p].mem = file]
  /\ UNCHANGED <<flash, file>>

\* nvram_set and nvram_del: a refusal ends the command
nvram_set(p) ==
  LET c == proc[p].cmd  m == proc[p].mem
  IN /\ proc[p].pc = "run" /\ c.op = "set"
     /\ \/ SetRefused(c.s, m[c.s], c.k) /\ Exit(p)
        \/ ~SetRefused(c.s, m[c.s], c.k)
           /\ proc' = [proc EXCEPT ![p].pc = "save", ![p].at = 1,
                         ![p].mem[c.s] = _nvram_buf_set(m[c.s], c.k, c.v)]
     /\ UNCHANGED <<flash, file>>

nvram_del(p) ==
  LET c == proc[p].cmd  m == proc[p].mem
  IN /\ proc[p].pc = "run" /\ c.op = "del"
     /\ \/ DelRefused(c.s, m[c.s], c.k) /\ Exit(p)
        \/ ~DelRefused(c.s, m[c.s], c.k)
           /\ proc' = [proc EXCEPT ![p].pc = "save", ![p].at = 1,
                         ![p].mem[c.s] = _nvram_buf_del(m[c.s], c.k)]
     /\ UNCHANGED <<flash, file>>

\* nvram_clear: the section of the cache file is zeroed
nvram_clear(p) ==
  LET s == proc[p].cmd.s
  IN /\ proc[p].pc = "run" /\ proc[p].cmd.op = "clear"
     /\ file' = IF s \in ReadOnly THEN file ELSE [file EXCEPT ![s] = <<>>]
     /\ Exit(p)
     /\ UNCHANGED flash

\* commit saves what was parsed; loadfile first parses its file instead,
\* whatever section it was given
CommitOrLoad(p) ==
  /\ proc[p].pc = "run" /\ proc[p].cmd.op \in {"commit", "loadfile"}
  /\ proc' = [proc EXCEPT ![p].pc = "save", ![p].at = 1,
                ![p].mem = IF proc[p].cmd.op = "loadfile" THEN File
                            ELSE proc[p].mem]
  /\ UNCHANGED <<flash, file>>

\* get, show and layout only read
Read(p) ==
  /\ proc[p].pc = "run" /\ proc[p].cmd.op = "get"
  /\ Exit(p)
  /\ UNCHANGED <<flash, file>>

\* nvram_commit: one section after the other is written to the cache file; a
\* section that exceeds its size ends the command
Save(p) ==
  LET s == Layout[proc[p].at]  c == proc[p].mem[s]
  IN /\ proc[p].pc = "save"
     /\ \/ Exceeds(c) /\ Exit(p) /\ UNCHANGED file
        \/ /\ ~Exceeds(c)
           /\ file' = [file EXCEPT ![s] = Image(c)]
           /\ IF proc[p].at < Len(Layout)
              THEN proc' = [proc EXCEPT ![p].at = proc[p].at + 1]
              ELSE IF proc[p].cmd.op \in {"commit", "loadfile"} THEN Go(p, "erase")
              ELSE Exit(p)
     /\ UNCHANGED flash

\* flash_write: erase a block, and write it.  An error of the device ends the
\* command, and leaves the block erased if it comes in between
Erase(p) ==
  /\ proc[p].pc = "erase"
  /\ \/ /\ flash' = [s \in Sections |->
                       IF s \in Blocks[proc[p].at] THEN <<>> ELSE flash[s]]
        /\ proc' = [proc EXCEPT ![p].pc = "write"]
     \/ Exit(p) /\ UNCHANGED flash
  /\ UNCHANGED file

\* A plausible slip: a section that is read-only is not written back
Write_SkipReadOnly(p) ==
  /\ proc[p].pc = "write"
  /\ flash' = [s \in Sections |->
                 IF s \in ReadOnly THEN flash[s] ELSE Image(proc[p].mem[s])]
  /\ Exit(p)
  /\ UNCHANGED file

Write(p) ==
  /\ proc[p].pc = "write"
  /\ \/ /\ flash' = [s \in Sections |->
                       IF s \in Blocks[proc[p].at] THEN Image(proc[p].mem[s]) ELSE flash[s]]
        /\ IF proc[p].at < Len(Blocks)
           THEN proc' = [proc EXCEPT ![p].pc = "erase", ![p].at = proc[p].at + 1]
           ELSE Exit(p)
     \/ Exit(p) /\ UNCHANGED flash
  /\ UNCHANGED file

\* The power fails: the processes and the cache file, which is in /tmp, are gone
PowerLoss ==
  /\ TORN \/ \A p \in Procs : proc[p].pc # "write"
  /\ proc' = [p \in Procs |-> Idle]
  /\ file' = NoFile
  /\ UNCHANGED flash

-----------------------------------------------------------------------------
Init ==
  /\ flash = InitFlash
  /\ file = NoFile
  /\ proc = [p \in Procs |-> Idle]

Step(p) ==
  \/ \E cmd \in Commands : Start(p, cmd)
  \/ Dump(p) \/ nvram_parse(p)
  \/ nvram_set(p) \/ nvram_del(p) \/ nvram_clear(p) \/ CommitOrLoad(p) \/ Read(p)
  \/ Save(p) \/ Erase(p) \/ Write(p)

Next == (\E p \in Procs : Step(p)) \/ PowerLoss

Spec == Init /\ [][Next]_vars

-----------------------------------------------------------------------------
\* Types of the variables: every copy of a section, in the flash, in the cache
\* file and in every process, holds at most MAX_ENTRY entries and a key at most
\* once, and a process that runs has a cache file and a place in its loop
TypeOK ==
  /\ IsContents(flash)
  /\ file # NoFile => IsContents(file)
  /\ proc \in [Procs ->
       [pc : {"idle", "dump", "parse", "run", "save", "erase", "write"},
        cmd : Commands \cup {NoCommand}, mem : [Sections -> Seq(Entries)], at : Nat]]
  /\ \A p \in Procs :
       /\ IsContents(proc[p].mem)
       /\ proc[p].pc # "idle" => proc[p].cmd \in Commands /\ file # NoFile
       /\ proc[p].pc \in {"dump", "save"} => proc[p].at \in DOMAIN Layout
       /\ proc[p].pc \in {"erase", "write"} => proc[p].at \in DOMAIN Blocks

AsMap(c) ==
  [k \in Keys |-> IF Named(c, k) = {} THEN NoValue
                  ELSE c[CHOOSE i \in Named(c, k) : TRUE].value]
AsMaps(cs) == [s \in Sections |-> AsMap(cs[s])]

\* The maps that nvram_commit lets pass and cuts off
Contents == {c \in UNION {[1 .. n -> Entries] : n \in 0 .. MAX_ENTRY} : Unique(c)}
Tight == {AsMap(c) : c \in {c \in Contents : ~Exceeds(c) /\ CRC + Total(c) > SIZE}}

\* A block counts as flushed from the moment it is erased
FlashNow ==
  LET W == {p \in Procs : proc[p].pc = "write"}
      r == proc[CHOOSE p \in W : TRUE]
  IN IF W = {} THEN flash
     ELSE [s \in Sections |-> IF s \in Blocks[r.at] THEN Image(r.mem[s]) ELSE flash[s]]

\* Until the cache file is complete, the flash is what a command will see
CacheNow ==
  IF file = NoFile \/ \E p \in Procs : proc[p].pc = "dump" THEN flash ELSE file

\* How far a process is that loads a file or flushes the cache
Ready == [phase |-> "ready", done |-> 0]
ProgressOf(r) ==
  CASE r.pc = "save" /\ r.cmd.op = "loadfile" /\ r.at > 1 -> [phase |-> "load", done |-> r.at - 1]
    [] r.pc = "erase" /\ r.at > 1 -> [phase |-> "flush", done |-> r.at - 1]
    [] r.pc = "erase" /\ r.at = 1 /\ r.cmd.op = "loadfile" ->
         [phase |-> "load", done |-> Len(Layout)]
    [] r.pc = "write" -> [phase |-> "write", done |-> r.at]
    [] OTHER -> Ready

Progress ==
  LET B == {p \in Procs : ProgressOf(proc[p]) # Ready}
  IN IF B = {} THEN Ready ELSE ProgressOf(proc[CHOOSE p \in B : TRUE])

Store == INSTANCE NvramStore WITH
           cache <- AsMaps(CacheNow), flash <- AsMaps(FlashNow),
           phase <- Progress.phase, done <- Progress.done,
           File <- AsMaps(File), Factory <- AsMaps(InitFlash),
           Fits <- {s \in Sections : ~Exceeds(File[s])}

\* One command at a time implements the store: a set or del changes its own entry
\* of the cache and no other, and none of a read-only section, however many sections
\* it rewrites; a command that is refused changes nothing, and a loadfile that
\* fails has replaced the sections before the one that does not fit; a commit
\* flushes the cache and nothing else; and a power loss leaves the cache with what
\* the flash holds, which lacks at most the block that was being flushed
StoreImplemented == Store!Spec

\* loadfile flushes its file "into the section" it is given, and into no other
LoadKeepsOthers ==
  [][\A p \in Procs :
       (proc[p].pc = "save" /\ proc[p].cmd.op = "loadfile" /\ file' # NoFile)
          => \A s \in Sections \ {proc[p].cmd.s} : file'[s] = file[s]]_vars

\* A section that is read-only keeps its entries in the flash
ReadOnlySurvives ==
  [][\A s \in ReadOnly :
       (\A p \in Procs : proc'[p].pc # "write") => flash'[s] = InitFlash[s]]_vars

\* When clear returns, the entries of its section are gone from the flash
ClearReachesFlash ==
  [][\A p \in Procs :
       (proc[p].pc = "run" /\ proc[p].cmd.op = "clear" /\ proc'[p].pc = "idle"
        /\ proc[p].cmd.s \notin ReadOnly)
          => flash'[proc[p].cmd.s] = <<>>]_vars

\* Behind the four bytes of its checksum, a section in the cache file holds the
\* entries it was given, whole.  nvram_commit refuses a section that is as long
\* as its room and the checksum together; one that is up to four bytes shorter it
\* cuts off, so this is kept only where no section has such a length
EntriesWhole ==
  file # NoFile => \A s \in Sections : \A i \in DOMAIN file[s] : file[s][i].value # Mangled
=============================================================================
