---------------------------- MODULE Nvram_proofs ----------------------------
(***************************************************************************)
(* The sections of the nvram tool, for any layout, keys, values and sizes.  *)
(*                                                                         *)
(* Types: no copy of a section ever holds a key twice or more than          *)
(* MAX_ENTRY entries, however many processes run and whenever the power     *)
(* fails.  The invariant is inductive as it stands.                         *)
(*                                                                         *)
(* Whole entries: nvram_commit cuts no section off, where none comes within *)
(* four bytes of its size.  WholeInv says it of every copy, and of a        *)
(* process that what it has saved is written as it is.                      *)
(*                                                                         *)
(* Refinement: one command at a time implements NvramStore.  CopiesInv      *)
(* relates the three copies of a section: while nvram_commit saves them one *)
(* by one, each is written, or waits to be, as it was or with the change of *)
(* the command, so that a write is a step of the store's or none; and when  *)
(* blocks are flushed, every section is written.                            *)
(***************************************************************************)
EXTENDS Nvram, SequenceTheorems, TLAPS

Pcs == {"idle", "dump", "parse", "run", "save", "erase", "write"}
ProcType == [pc : Pcs, cmd : Commands \cup {NoCommand},
             mem : [Sections -> Seq(Entries)], at : Nat]

\* What TypeOK says of one process
ProcOK(p) ==
  /\ IsContents(proc[p].mem)
  /\ proc[p].pc # "idle" => proc[p].cmd \in Commands /\ file # NoFile
  /\ proc[p].pc \in {"dump", "save"} => proc[p].at \in DOMAIN Layout
  /\ proc[p].pc \in {"erase", "write"} => proc[p].at \in DOMAIN Blocks

-----------------------------------------------------------------------------
(* Sections and their entries.                                             *)

\* There is a section, and a block that holds it; every position of the layout
\* is one of a section.
LEMMA SectionsFacts ==
  /\ Sections # {}
  /\ Len(Layout) \in Nat \ {0} /\ DOMAIN Layout = 1 .. Len(Layout)
  /\ \A i \in DOMAIN Layout : Layout[i] \in Sections
  /\ \A s \in Sections : \E i \in DOMAIN Layout : Layout[i] = s
  /\ Len(Blocks) \in Nat \ {0} /\ DOMAIN Blocks = 1 .. Len(Blocks)
<1>1. /\ Len(Layout) \in Nat \ {0} /\ DOMAIN Layout = 1 .. Len(Layout)
  BY NvramAssumption, EmptySeq, LenProperties
<1>2. /\ \A i \in DOMAIN Layout : Layout[i] \in Sections
      /\ \A s \in Sections : \E i \in DOMAIN Layout : Layout[i] = s
  BY DEF Sections, Range
<1>3. Sections # {}
  BY <1>1, <1>2
<1>4. DOMAIN Blocks = 1 .. Len(Blocks) /\ Len(Blocks) \in Nat
  BY NvramAssumption, LenProperties
<1>5. Len(Blocks) # 0
  <2>1. PICK s : s \in UNION Range(Blocks)
    BY <1>3, NvramAssumption
  <2>2. DOMAIN Blocks # {}
    BY <2>1 DEF Range
  <2>3. QED
    BY <2>2, <1>4
<1>6. QED
  BY <1>1, <1>2, <1>3, <1>4, <1>5

\* A file of all sections is a file.
LEMMA NotNoFile ==
  ASSUME NEW f, DOMAIN f = Sections
  PROVE  f # NoFile
<1>1. DOMAIN NoFile = {}
  BY DEF NoFile
<1>2. QED
  BY <1>1, SectionsFacts

\* A section without entries.
LEMMA EmptyContent == IsContent(<<>>) /\ IsContents(NoCache)
<1>1. IsContent(<<>>)
  BY NvramAssumption DEF IsContent, Unique
<1>2. QED
  BY <1>1 DEF IsContents, NoCache, IsContent

\* Replacing one section.
LEMMA ContentsExcept ==
  ASSUME NEW m, IsContents(m), NEW t \in Sections, NEW c, IsContent(c)
  PROVE  /\ IsContents([m EXCEPT ![t] = c])
         /\ DOMAIN [m EXCEPT ![t] = c] = Sections
BY DEF IsContents, IsContent

\* _nvram_buf_set of a key and a value, where it is not refused, keeps a
\* section one.
LEMMA SetContent ==
  ASSUME NEW c, IsContent(c), NEW k \in Keys, NEW v \in Values,
         ~(Named(c, k) = {} /\ Len(c) >= MAX_ENTRY)
  PROVE  IsContent(_nvram_buf_set(c, k, v))
<1> DEFINE d == _nvram_buf_set(c, k, v)
<1>1. Entry(k, v) \in Entries /\ Entry(k, v).name = k
  BY DEF Entry, Entries
<1>2. c \in Seq(Entries) /\ Unique(c) /\ Len(c) <= MAX_ENTRY
      /\ DOMAIN c = 1 .. Len(c) /\ Len(c) \in Nat
  BY DEF IsContent
<1>3. CASE Named(c, k) # {}
  <2>1. d = [i \in DOMAIN c |-> IF c[i].name = k THEN Entry(k, v) ELSE c[i]]
    BY <1>3 DEF _nvram_buf_set
  <2>2. d \in Seq(Entries) /\ Len(d) = Len(c) /\ DOMAIN d = DOMAIN c
    BY <2>1, <1>1, <1>2
  <2>3. \A i \in DOMAIN d : d[i].name = c[i].name
    BY <2>1, <1>1
  <2>4. QED
    BY <2>2, <2>3, <1>2 DEF IsContent, Unique
<1>4. CASE Named(c, k) = {}
  <2>1. d = Append(c, Entry(k, v))
    BY <1>4 DEF _nvram_buf_set
  <2>2. d \in Seq(Entries) /\ Len(d) = Len(c) + 1 /\ DOMAIN d = 1 .. Len(c) + 1
        /\ d[Len(c) + 1] = Entry(k, v)
        /\ \A i \in 1 .. Len(c) : d[i] = c[i]
    BY <2>1, <1>1, <1>2
  <2>3. \A i \in 1 .. Len(c) : c[i].name # k
    BY <1>4, <1>2 DEF Named
  <2>4. Unique(d)
    <3> SUFFICES ASSUME NEW i \in DOMAIN d, NEW j \in DOMAIN d,
                        d[i].name = d[j].name
                 PROVE  i = j
      BY DEF Unique
    <3>1. i \in 1 .. Len(c) \/ i = Len(c) + 1
      BY <2>2, <1>2
    <3>2. j \in 1 .. Len(c) \/ j = Len(c) + 1
      BY <2>2, <1>2
    <3>3. QED
      BY <3>1, <3>2, <2>2, <2>3, <1>1, <1>2 DEF Unique
  <2>5. Len(d) <= MAX_ENTRY
    BY <2>2, <1>2, <1>4, NvramAssumption
  <2>6. QED
    BY <2>2, <2>4, <2>5 DEF IsContent
<1>5. QED
  BY <1>3, <1>4

\* The section without its i-th entry.
LEMMA RemoveContent ==
  ASSUME NEW c, IsContent(c), NEW i \in DOMAIN c
  PROVE  /\ IsContent(RemoveAt(c, i))
         /\ Len(RemoveAt(c, i)) = Len(c) - 1
         /\ DOMAIN RemoveAt(c, i) = 1 .. Len(c) - 1
         /\ \A j \in 1 .. Len(c) - 1 :
              RemoveAt(c, i)[j] = IF j < i THEN c[j] ELSE c[j + 1]
<1> DEFINE a == SubSeq(c, 1, i - 1)
           b == SubSeq(c, i + 1, Len(c))
           d == RemoveAt(c, i)
<1>1. c \in Seq(Entries) /\ Unique(c) /\ Len(c) <= MAX_ENTRY
      /\ DOMAIN c = 1 .. Len(c) /\ Len(c) \in Nat /\ i \in 1 .. Len(c)
  BY DEF IsContent
<1>2. a \in Seq(Entries) /\ Len(a) = i - 1
      /\ \A j \in 1 .. i - 1 : a[j] = c[j]
  BY <1>1, SubSeqProperties
<1>3. b \in Seq(Entries) /\ Len(b) = Len(c) - i
      /\ \A j \in 1 .. Len(c) - i : b[j] = c[i + j]
  BY <1>1, SubSeqProperties
<1>4. d = a \o b
  BY DEF RemoveAt
<1> HIDE DEF a, b, d
<1>5. d \in Seq(Entries) /\ Len(d) = Len(a) + Len(b)
      /\ \A j \in 1 .. Len(a) + Len(b) :
           d[j] = IF j <= Len(a) THEN a[j] ELSE b[j - Len(a)]
  BY <1>2, <1>3, <1>4, ConcatProperties
<1>6. Len(d) = Len(c) - 1 /\ Len(a) + Len(b) = Len(c) - 1
  BY <1>1, <1>2, <1>3, <1>5
<1>7. \A j \in 1 .. Len(c) - 1 : d[j] = IF j < i THEN c[j] ELSE c[j + 1]
  <2> SUFFICES ASSUME NEW j \in 1 .. Len(c) - 1
               PROVE  d[j] = IF j < i THEN c[j] ELSE c[j + 1]
    OBVIOUS
  <2>0. d[j] = IF j <= i - 1 THEN a[j] ELSE b[j - (i - 1)]
    BY <1>2, <1>5, <1>6
  <2>1. CASE j < i
    <3>1. j \in 1 .. i - 1
      BY <2>1, <1>1
    <3>2. QED
      BY <3>1, <2>0, <2>1, <1>1, <1>2
  <2>2. CASE ~(j < i)
    <3>1. j - (i - 1) \in 1 .. Len(c) - i /\ i + (j - (i - 1)) = j + 1
          /\ ~(j <= i - 1)
      BY <2>2, <1>1
    <3>2. b[j - (i - 1)] = c[i + (j - (i - 1))]
      BY <3>1, <1>3
    <3>3. QED
      BY <3>1, <3>2, <2>0, <2>2
  <2>3. QED
    BY <2>1, <2>2
<1>8. DOMAIN d = 1 .. Len(c) - 1
  BY <1>5, <1>6, LenProperties
<1>9. Unique(d)
  <2> SUFFICES ASSUME NEW j \in DOMAIN d, NEW l \in DOMAIN d,
                      d[j].name = d[l].name
               PROVE  j = l
    BY DEF Unique
  <2> DEFINE At(n) == IF n < i THEN n ELSE n + 1
  <2>1. j \in 1 .. Len(c) - 1 /\ l \in 1 .. Len(c) - 1
    BY <1>8
  <2>2. d[j] = c[At(j)] /\ d[l] = c[At(l)]
    BY <2>1, <1>7
  <2>3. At(j) \in DOMAIN c /\ At(l) \in DOMAIN c
    BY <2>1, <1>1
  <2>4. At(j) = At(l)
    BY <2>2, <2>3, <1>1 DEF Unique
  <2>5. QED
    BY <2>1, <2>4, <1>1
<1>10. IsContent(d)
  BY <1>1, <1>5, <1>9, <1>6, NvramAssumption DEF IsContent
<1>11. QED
  BY <1>7, <1>8, <1>10, <1>6 DEF d

\* _nvram_buf_del of a key that is there.
LEMMA DelContent ==
  ASSUME NEW c, IsContent(c), NEW k, Named(c, k) # {}
  PROVE  IsContent(_nvram_buf_del(c, k))
<1>1. (CHOOSE i \in Named(c, k) : TRUE) \in DOMAIN c
  BY DEF Named
<1>2. QED
  BY <1>1, RemoveContent DEF _nvram_buf_del

\* What is written of a section has its keys in its order.
LEMMA ImageShape ==
  ASSUME NEW c, IsContent(c)
  PROVE  /\ Image(c) \in Seq(Entries) /\ Len(Image(c)) = Len(c)
         /\ DOMAIN Image(c) = DOMAIN c
         /\ \A i \in DOMAIN c : Image(c)[i].name = c[i].name
<1>1. c \in Seq(Entries) /\ DOMAIN c = 1 .. Len(c) /\ Len(c) \in Nat
  BY DEF IsContent
<1>2. \A i \in DOMAIN c : c[i] \in Entries
  BY <1>1
<1> DEFINE d == [c EXCEPT ![Len(c)].value = Mangled]
<1>3. DOMAIN d = DOMAIN c
  OBVIOUS
<1>4. \A i \in DOMAIN c : d[i] \in Entries /\ d[i].name = c[i].name
  BY <1>2 DEF Entries
<1>5. d \in Seq(Entries) /\ Len(d) = Len(c)
  <2>1. d = [i \in 1 .. Len(c) |-> d[i]]
    BY <1>1
  <2> HIDE DEF d
  <2>2. [i \in 1 .. Len(c) |-> d[i]] \in Seq(Entries)
        /\ Len([i \in 1 .. Len(c) |-> d[i]]) = Len(c)
    BY <1>1, <1>4
  <2>3. QED
    BY <2>1, <2>2
<1>6. Image(c) = d \/ Image(c) = c
  BY DEF Image
<1>7. QED
  BY <1>1, <1>3, <1>4, <1>5, <1>6

\* What is written of a section is one.
LEMMA ImageContent ==
  ASSUME NEW c, IsContent(c)
  PROVE  IsContent(Image(c))
BY ImageShape DEF IsContent, Unique

-----------------------------------------------------------------------------
(* Types.                                                                  *)

\* The typed state.
LEMMA Typed ==
  ASSUME TypeOK, NEW p \in Procs
  PROVE  /\ proc \in [Procs -> ProcType] /\ proc[p] \in ProcType /\ ProcOK(p)
         /\ proc[p].pc # "idle" => IsContents(file)
BY DEF TypeOK, ProcOK, ProcType, Pcs

\* A step of one process keeps the types if what it leaves behind has them and
\* it does not take the cache file away.
LEMMA StepTypes ==
  ASSUME TypeOK, NEW p \in Procs, NEW r \in ProcType,
         proc' = [proc EXCEPT ![p] = r],
         IsContents(r.mem),
         r.pc # "idle" => r.cmd \in Commands /\ file' # NoFile,
         r.pc \in {"dump", "save"} => r.at \in DOMAIN Layout,
         r.pc \in {"erase", "write"} => r.at \in DOMAIN Blocks,
         IsContents(flash'),
         file' # NoFile => IsContents(file'),
         file # NoFile => file' # NoFile
  PROVE  TypeOK'
<1>1. proc' \in [Procs -> ProcType]
  BY Typed
<1>2. ASSUME NEW q \in Procs PROVE ProcOK(q)'
  <2>1. CASE q = p
    <3>1. proc'[q] = r
      BY <2>1, Typed
    <3>2. QED
      BY <3>1 DEF ProcOK
  <2>2. CASE q # p
    <3>1. proc'[q] = proc[q] /\ ProcOK(q)
      BY <2>2, Typed
    <3>2. QED
      BY <3>1 DEF ProcOK
  <2>3. QED
    BY <2>1, <2>2
<1>3. QED
  BY <1>1, <1>2 DEF TypeOK, ProcOK, ProcType, Pcs

\* A command that ends, with what it leaves in the cache file and the flash.
LEMMA ExitTypes ==
  ASSUME TypeOK, NEW p \in Procs, Exit(p),
         IsContents(flash'),
         file' # NoFile => IsContents(file'),
         file # NoFile => file' # NoFile
  PROVE  TypeOK'
<1>1. Idle \in ProcType /\ IsContents(Idle.mem) /\ Idle.pc = "idle"
  BY EmptyContent DEF Idle, ProcType, Pcs, IsContents
<1>2. proc' = [proc EXCEPT ![p] = Idle]
  BY DEF Exit
<1>3. QED
  BY <1>1, <1>2, StepTypes

\* main and nvram_filecache.
LEMMA StartTypes ==
  ASSUME TypeOK, NEW p \in Procs, NEW cmd \in Commands, Start(p, cmd)
  PROVE  TypeOK'
<1> DEFINE r == [pc |-> IF file = NoFile THEN "dump" ELSE "parse",
                 cmd |-> cmd, mem |-> NoCache, at |-> 1]
<1>1. r \in ProcType /\ IsContents(r.mem) /\ r.cmd \in Commands /\ r.at = 1
      /\ r.pc \in {"dump", "parse"}
  BY EmptyContent DEF ProcType, Pcs, IsContents
<1>2. proc' = [proc EXCEPT ![p] = r]
  BY DEF Start
<1>3. IsContents(file') /\ file' # NoFile
  <2>1. DOMAIN NoCache = Sections
    BY DEF NoCache
  <2>2. NoCache # NoFile
    BY <2>1, NotNoFile
  <2>3. QED
    BY <2>2, EmptyContent DEF Start, TypeOK
<1>4. IsContents(flash')
  BY DEF Start, TypeOK
<1>5. 1 \in DOMAIN Layout
  BY SectionsFacts
<1> HIDE DEF r
<1>6. QED
  BY <1>1, <1>2, <1>3, <1>4, <1>5, StepTypes

\* One section of the cache file is written.
LEMMA FileTypes ==
  ASSUME NEW s \in Sections, NEW c, IsContents(file), IsContent(c),
         file' = [file EXCEPT ![s] = c]
  PROVE  IsContents(file') /\ file' # NoFile
BY ContentsExcept, NotNoFile

\* A command goes on, to another place or another step.
Moved(p, pc, n) ==
  proc' = [proc EXCEPT ![p] = [proc[p] EXCEPT !.pc = pc, !.at = n]]

\* Such a move keeps the types, wherever it has a place.
LEMMA MoveTypes ==
  ASSUME TypeOK, NEW p \in Procs, proc[p].pc # "idle",
         NEW pc \in Pcs \ {"idle"}, NEW n \in Nat,
         Moved(p, pc, n),
         pc \in {"dump", "save"} => n \in DOMAIN Layout,
         pc \in {"erase", "write"} => n \in DOMAIN Blocks,
         IsContents(flash'), IsContents(file'), file' # NoFile
  PROVE  TypeOK'
<1> DEFINE r == [proc[p] EXCEPT !.pc = pc, !.at = n]
<1>1. proc[p] \in ProcType /\ ProcOK(p)
  BY Typed
<1>2. r \in ProcType /\ r.mem = proc[p].mem /\ r.cmd = proc[p].cmd
      /\ r.pc = pc /\ r.at = n
  BY <1>1 DEF ProcType
<1>3. IsContents(r.mem) /\ r.cmd \in Commands
  BY <1>1, <1>2 DEF ProcOK
<1> HIDE DEF r
<1>4. QED
  BY <1>2, <1>3, StepTypes DEF r, Moved

\* Go, and the next place of a loop, as such moves.
LEMMA MoveForms ==
  ASSUME TypeOK, NEW p \in Procs
  PROVE  /\ \A pc : Go(p, pc) => Moved(p, pc, 1)
         /\ \A n : proc' = [proc EXCEPT ![p].at = n]
                     => Moved(p, proc[p].pc, n)
<1>1. proc \in [Procs -> ProcType] /\ proc[p] \in ProcType
  BY Typed
<1>2. \A n : [proc[p] EXCEPT !.pc = proc[p].pc, !.at = n] =
              [proc[p] EXCEPT !.at = n]
  BY <1>1 DEF ProcType
<1>3. \A n : [proc EXCEPT ![p].at = n] =
              [proc EXCEPT ![p] = [proc[p] EXCEPT !.at = n]]
  BY <1>1
<1>4. \A pc : [proc EXCEPT ![p].pc = pc, ![p].at = 1] =
         [proc EXCEPT ![p] = [proc[p] EXCEPT !.pc = pc, !.at = 1]]
  BY <1>1
<1>5. QED
  BY <1>2, <1>3, <1>4 DEF Go, Moved

\* nvram_filecache reads a section.
LEMMA DumpTypes ==
  ASSUME TypeOK, NEW p \in Procs, Dump(p)
  PROVE  TypeOK'
<1>1. ProcOK(p) /\ proc[p].pc = "dump" /\ IsContents(file)
  BY Typed DEF Dump
<1>2. proc[p].at \in 1 .. Len(Layout) /\ Layout[proc[p].at] \in Sections
      /\ DOMAIN Layout = 1 .. Len(Layout) /\ Len(Layout) \in Nat
  BY <1>1, SectionsFacts DEF ProcOK
<1>3. IsContents(file') /\ file' # NoFile
  <2>1. IsContent(flash[Layout[proc[p].at]])
    BY <1>2 DEF TypeOK, IsContents
  <2>2. QED
    BY <2>1, <1>1, <1>2, FileTypes DEF Dump
<1>4. IsContents(flash')
  BY DEF Dump, TypeOK
<1>5. CASE proc[p].at < Len(Layout)
  <2>1. proc' = [proc EXCEPT ![p].at = proc[p].at + 1]
    BY <1>5 DEF Dump
  <2>2. proc[p].at + 1 \in 1 .. Len(Layout)
    BY <1>2, <1>5
  <2>3. Moved(p, "dump", proc[p].at + 1)
    BY <1>1, <2>1, MoveForms
  <2>4. QED
    BY <1>1, <1>2, <1>3, <1>4, <2>2, <2>3, MoveTypes DEF Pcs
<1>6. CASE ~(proc[p].at < Len(Layout))
  <2>1. Go(p, "parse")
    BY <1>6 DEF Dump
  <2>2. Moved(p, "parse", 1)
    BY <2>1, MoveForms
  <2>3. QED
    BY <1>1, <1>3, <1>4, <2>2, MoveTypes DEF Pcs
<1>7. QED
  BY <1>5, <1>6

\* nvram_parse.
LEMMA ParseTypes ==
  ASSUME TypeOK, NEW p \in Procs, nvram_parse(p)
  PROVE  TypeOK'
<1> DEFINE r == [proc[p] EXCEPT !.pc = "run", !.mem = file]
<1>1. proc[p] \in ProcType /\ ProcOK(p) /\ proc[p].pc = "parse"
      /\ IsContents(file)
  BY Typed DEF nvram_parse
<1>2. proc' = [proc EXCEPT ![p] = r]
  BY Typed DEF nvram_parse
<1>3. r \in ProcType /\ r.mem = file /\ r.cmd = proc[p].cmd /\ r.pc = "run"
  BY <1>1 DEF ProcType, Pcs, IsContents
<1>4. IsContents(flash') /\ file' = file /\ proc[p].cmd \in Commands
      /\ file # NoFile
  BY <1>1 DEF nvram_parse, TypeOK, ProcOK
<1> HIDE DEF r
<1>5. QED
  BY <1>1, <1>2, <1>3, <1>4, StepTypes

\* A command goes on to nvram_commit with what it made of nvramcache.
LEMMA ToSaveTypes ==
  ASSUME TypeOK, NEW p \in Procs, proc[p].pc = "run", NEW m, IsContents(m),
         proc' = [proc EXCEPT ![p].pc = "save", ![p].at = 1, ![p].mem = m],
         UNCHANGED <<flash, file>>
  PROVE  TypeOK'
<1> DEFINE r == [proc[p] EXCEPT !.pc = "save", !.at = 1, !.mem = m]
<1>1. proc[p] \in ProcType /\ ProcOK(p) /\ IsContents(file)
  BY Typed
<1>2. proc' = [proc EXCEPT ![p] = r]
  BY Typed
<1>3. r \in ProcType /\ r.mem = m /\ r.cmd = proc[p].cmd /\ r.pc = "save"
      /\ r.at = 1
  BY <1>1 DEF ProcType, Pcs, IsContents
<1>4. IsContents(flash') /\ file' = file /\ proc[p].cmd \in Commands
      /\ file # NoFile /\ 1 \in DOMAIN Layout
  BY <1>1, SectionsFacts DEF TypeOK, ProcOK
<1> HIDE DEF r
<1>5. QED
  BY <1>1, <1>2, <1>3, <1>4, StepTypes

\* nvram_set.
LEMMA SetTypes ==
  ASSUME TypeOK, NEW p \in Procs, nvram_set(p)
  PROVE  TypeOK'
<1> DEFINE c == proc[p].cmd
           m == proc[p].mem
           n == [m EXCEPT ![c.s] = _nvram_buf_set(m[c.s], c.k, c.v)]
<1>1. ProcOK(p) /\ proc[p].pc = "run" /\ c.op = "set" /\ IsContents(file)
      /\ proc \in [Procs -> ProcType]
  BY Typed DEF nvram_set
<1>2. c.s \in Sections /\ c.k \in Keys /\ c.v \in Values /\ IsContents(m)
  BY <1>1, CommandsAssumption DEF ProcOK
<1>3. CASE Exit(p)
  BY <1>1, <1>3, ExitTypes DEF nvram_set, TypeOK
<1>4. CASE /\ ~SetRefused(c.s, m[c.s], c.k)
           /\ proc' = [proc EXCEPT ![p].pc = "save", ![p].at = 1,
                         ![p].mem[c.s] = _nvram_buf_set(m[c.s], c.k, c.v)]
  <2>1. IsContent(_nvram_buf_set(m[c.s], c.k, c.v))
    <3>1. ~(Named(m[c.s], c.k) = {} /\ Len(m[c.s]) >= MAX_ENTRY)
      BY <1>4 DEF SetRefused
    <3>2. QED
      BY <3>1, <1>2, SetContent DEF IsContents
  <2>2. IsContents(n)
    BY <2>1, <1>2, ContentsExcept
  <2>3. proc' = [proc EXCEPT ![p].pc = "save", ![p].at = 1, ![p].mem = n]
    BY <1>4, <1>1
  <2> HIDE DEF n, c, m
  <2>4. QED
    BY <1>1, <2>2, <2>3, ToSaveTypes DEF nvram_set
<1>5. QED
  BY <1>3, <1>4 DEF nvram_set

\* nvram_del.
LEMMA DelTypes ==
  ASSUME TypeOK, NEW p \in Procs, nvram_del(p)
  PROVE  TypeOK'
<1> DEFINE c == proc[p].cmd
           m == proc[p].mem
           n == [m EXCEPT ![c.s] = _nvram_buf_del(m[c.s], c.k)]
<1>1. ProcOK(p) /\ proc[p].pc = "run" /\ c.op = "del" /\ IsContents(file)
      /\ proc \in [Procs -> ProcType]
  BY Typed DEF nvram_del
<1>2. c.s \in Sections /\ c.k \in Keys /\ IsContents(m)
  BY <1>1, CommandsAssumption DEF ProcOK
<1>3. CASE Exit(p)
  BY <1>1, <1>3, ExitTypes DEF nvram_del, TypeOK
<1>4. CASE /\ ~DelRefused(c.s, m[c.s], c.k)
           /\ proc' = [proc EXCEPT ![p].pc = "save", ![p].at = 1,
                         ![p].mem[c.s] = _nvram_buf_del(m[c.s], c.k)]
  <2>1. IsContent(_nvram_buf_del(m[c.s], c.k))
    <3>1. Named(m[c.s], c.k) # {}
      BY <1>4 DEF DelRefused
    <3>2. QED
      BY <3>1, <1>2, DelContent DEF IsContents
  <2>2. IsContents(n)
    BY <2>1, <1>2, ContentsExcept
  <2>3. proc' = [proc EXCEPT ![p].pc = "save", ![p].at = 1, ![p].mem = n]
    BY <1>4, <1>1
  <2> HIDE DEF n, c, m
  <2>4. QED
    BY <1>1, <2>2, <2>3, ToSaveTypes DEF nvram_del
<1>5. QED
  BY <1>3, <1>4 DEF nvram_del

\* nvram_clear.
LEMMA ClearTypes ==
  ASSUME TypeOK, NEW p \in Procs, nvram_clear(p)
  PROVE  TypeOK'
<1>1. ProcOK(p) /\ proc[p].pc = "run" /\ proc[p].cmd.op = "clear"
      /\ IsContents(file) /\ Exit(p) /\ flash' = flash
  BY Typed DEF nvram_clear
<1>2. proc[p].cmd.s \in Sections /\ file # NoFile
  BY <1>1, CommandsAssumption DEF ProcOK
<1>3. IsContents(file') /\ file' # NoFile
  <2>1. CASE file' = file
    BY <2>1, <1>1, <1>2
  <2>2. CASE file' = [file EXCEPT ![proc[p].cmd.s] = <<>>]
    BY <2>2, <1>1, <1>2, EmptyContent, FileTypes
  <2>3. QED
    BY <2>1, <2>2 DEF nvram_clear
<1>4. QED
  BY <1>1, <1>3, ExitTypes DEF TypeOK

\* commit and loadfile.
LEMMA CommitTypes ==
  ASSUME TypeOK, NEW p \in Procs, CommitOrLoad(p)
  PROVE  TypeOK'
<1> DEFINE n == IF proc[p].cmd.op = "loadfile" THEN File ELSE proc[p].mem
<1>1. ProcOK(p) /\ proc[p].pc = "run"
  BY Typed DEF CommitOrLoad
<1>2. IsContents(n)
  BY <1>1, ContentsAssumption DEF ProcOK
<1>3. proc' = [proc EXCEPT ![p].pc = "save", ![p].at = 1, ![p].mem = n]
  BY DEF CommitOrLoad
<1> HIDE DEF n
<1>4. QED
  BY <1>1, <1>2, <1>3, ToSaveTypes DEF CommitOrLoad

\* nvram_commit writes a section.
LEMMA SaveTypes ==
  ASSUME TypeOK, NEW p \in Procs, Save(p)
  PROVE  TypeOK'
<1> DEFINE s == Layout[proc[p].at]
           c == proc[p].mem[s]
<1>1. ProcOK(p) /\ proc[p].pc = "save" /\ IsContents(file) /\ flash' = flash
  BY Typed DEF Save
<1>2. proc[p].at \in 1 .. Len(Layout) /\ s \in Sections
      /\ DOMAIN Layout = 1 .. Len(Layout) /\ Len(Layout) \in Nat
  BY <1>1, SectionsFacts DEF ProcOK
<1>3. IsContents(flash')
  BY <1>1 DEF TypeOK
<1>4. CASE Exit(p) /\ UNCHANGED file
  BY <1>1, <1>3, <1>4, ExitTypes
<1>5. CASE file' = [file EXCEPT ![s] = Image(c)]
  <2>1. IsContent(Image(c))
    BY <1>1, <1>2, ImageContent DEF ProcOK, IsContents
  <2>2. IsContents(file') /\ file' # NoFile
    BY <2>1, <1>1, <1>2, <1>5, FileTypes
  <2>3. CASE proc' = [proc EXCEPT ![p].at = proc[p].at + 1]
             /\ proc[p].at < Len(Layout)
    <3>1. proc[p].at + 1 \in 1 .. Len(Layout)
      BY <1>2, <2>3
    <3>2. Moved(p, "save", proc[p].at + 1)
      BY <1>1, <2>3, MoveForms
    <3>3. QED
      BY <1>1, <1>2, <1>3, <2>2, <3>1, <3>2, MoveTypes DEF Pcs
  <2>4. CASE Go(p, "erase")
    <3>1. Moved(p, "erase", 1) /\ 1 \in DOMAIN Blocks
      BY <2>4, SectionsFacts, MoveForms
    <3>2. QED
      BY <1>1, <1>3, <2>2, <3>1, MoveTypes DEF Pcs
  <2>5. CASE Exit(p)
    BY <1>3, <2>2, <2>5, ExitTypes
  <2>6. QED
    BY <1>4, <2>3, <2>4, <2>5 DEF Save
<1>6. QED
  BY <1>4, <1>5 DEF Save

\* flash_write erases a block.
LEMMA EraseTypes ==
  ASSUME TypeOK, NEW p \in Procs, Erase(p)
  PROVE  TypeOK'
<1>1. ProcOK(p) /\ proc[p].pc = "erase" /\ IsContents(file) /\ file' = file
  BY Typed DEF Erase
<1>2. file # NoFile /\ proc[p].at \in DOMAIN Blocks /\ proc[p].at \in Nat
  BY <1>1, SectionsFacts DEF ProcOK
<1>3. CASE Exit(p) /\ UNCHANGED flash
  BY <1>1, <1>3, ExitTypes DEF TypeOK
<1>4. CASE /\ flash' = [s \in Sections |->
                         IF s \in Blocks[proc[p].at] THEN <<>> ELSE flash[s]]
           /\ proc' = [proc EXCEPT ![p].pc = "write"]
  <2>1. IsContents(flash')
    BY <1>4, EmptyContent DEF IsContents, IsContent, TypeOK
  <2>2. Moved(p, "write", proc[p].at)
    <3>1. proc \in [Procs -> ProcType] /\ proc[p] \in ProcType
      BY Typed
    <3>2. [proc[p] EXCEPT !.pc = "write", !.at = proc[p].at] =
          [proc[p] EXCEPT !.pc = "write"]
      BY <3>1 DEF ProcType
    <3>3. QED
      BY <1>4, <3>1, <3>2 DEF Moved
  <2>3. QED
    BY <1>1, <1>2, <2>1, <2>2, MoveTypes DEF Pcs
<1>5. QED
  BY <1>3, <1>4 DEF Erase

\* flash_write writes a block.
LEMMA WriteTypes ==
  ASSUME TypeOK, NEW p \in Procs, Write(p)
  PROVE  TypeOK'
<1>1. ProcOK(p) /\ proc[p].pc = "write" /\ IsContents(file) /\ file' = file
      /\ file # NoFile /\ proc[p].at \in 1 .. Len(Blocks)
      /\ DOMAIN Blocks = 1 .. Len(Blocks) /\ Len(Blocks) \in Nat
  BY Typed, SectionsFacts DEF Write, ProcOK
<1>2. IsContents(flash')
  <2>1. \A s \in Sections : /\ IsContent(Image(proc[p].mem[s]))
                            /\ IsContent(flash[s])
    BY <1>1, ImageContent DEF ProcOK, IsContents, TypeOK
  <2>2. flash \in [Sections -> Seq(Entries)]
    BY DEF TypeOK, IsContents
  <2>3. CASE UNCHANGED flash
    BY <2>1, <2>2, <2>3 DEF IsContents
  <2>4. QED
    BY <2>1, <2>3 DEF Write, IsContents, IsContent
<1>3. CASE Exit(p)
  BY <1>1, <1>2, <1>3, ExitTypes
<1>4. CASE /\ proc[p].at < Len(Blocks)
           /\ proc' = [proc EXCEPT ![p].pc = "erase", ![p].at = proc[p].at + 1]
  <2>1. Moved(p, "erase", proc[p].at + 1)
    BY <1>4, Typed DEF Moved
  <2>2. proc[p].at + 1 \in 1 .. Len(Blocks)
    BY <1>1, <1>4
  <2>3. QED
    BY <1>1, <1>2, <2>1, <2>2, MoveTypes DEF Pcs
<1>5. QED
  BY <1>3, <1>4 DEF Write

\* The power fails.
LEMMA PowerTypes ==
  ASSUME TypeOK, PowerLoss
  PROVE  TypeOK'
<1>1. Idle \in ProcType /\ IsContents(Idle.mem) /\ Idle.pc = "idle"
  BY EmptyContent DEF Idle, ProcType, Pcs, IsContents
<1>2. \A p \in Procs : proc'[p] = Idle
  BY DEF PowerLoss
<1>3. proc' \in [Procs -> ProcType] /\ file' = NoFile /\ flash' = flash
  BY <1>1 DEF PowerLoss
<1>4. QED
  BY <1>1, <1>2, <1>3 DEF TypeOK, ProcType, Pcs

\* Every step keeps the types.
LEMMA NextTypes == TypeOK /\ [Next]_vars => TypeOK'
<1> SUFFICES ASSUME TypeOK, [Next]_vars PROVE TypeOK'
  OBVIOUS
<1>1. CASE PowerLoss
  BY <1>1, PowerTypes
<1>2. ASSUME NEW p \in Procs, Step(p) PROVE TypeOK'
  <2>1. ASSUME NEW cmd \in Commands, Start(p, cmd) PROVE TypeOK'
    BY <2>1, StartTypes
  <2>2. CASE Dump(p)
    BY <2>2, DumpTypes
  <2>3. CASE nvram_parse(p)
    BY <2>3, ParseTypes
  <2>4. CASE nvram_set(p)
    BY <2>4, SetTypes
  <2>5. CASE nvram_del(p)
    BY <2>5, DelTypes
  <2>6. CASE nvram_clear(p)
    BY <2>6, ClearTypes
  <2>7. CASE CommitOrLoad(p)
    BY <2>7, CommitTypes
  <2>8. CASE Read(p)
    BY <2>8, Typed, ExitTypes DEF Read, TypeOK
  <2>9. CASE Save(p)
    BY <2>9, SaveTypes
  <2>10. CASE Erase(p)
    BY <2>10, EraseTypes
  <2>11. CASE Write(p)
    BY <2>11, WriteTypes
  <2>12. QED
    BY <1>2, <2>1, <2>2, <2>3, <2>4, <2>5, <2>6, <2>7, <2>8, <2>9, <2>10,
       <2>11 DEF Step
<1>3. CASE UNCHANGED vars
  BY <1>3 DEF vars, TypeOK
<1>4. QED
  BY <1>1, <1>2, <1>3 DEF Next

\* No copy of a section, in the flash, in the cache file or in a process, ever
\* holds a key twice or more than MAX_ENTRY entries (_nvram_buf_set), and every
\* command finds its cache file, for any number of processes that interleave
\* between any two reads and writes, and any power losses.
THEOREM TypeCorrect == Spec => []TypeOK
<1>1. Init => TypeOK
  <2> SUFFICES ASSUME Init PROVE TypeOK
    OBVIOUS
  <2>1. Idle \in ProcType /\ IsContents(Idle.mem) /\ Idle.pc = "idle"
    BY EmptyContent DEF Idle, ProcType, Pcs, IsContents
  <2>2. \A p \in Procs : proc[p] = Idle
    BY DEF Init
  <2>3. proc \in [Procs -> ProcType] /\ file = NoFile /\ flash = InitFlash
    BY <2>1 DEF Init
  <2>4. QED
    BY <2>1, <2>2, <2>3, ContentsAssumption DEF TypeOK, ProcType, Pcs
<1>2. QED
  BY <1>1, NextTypes, PTL DEF Spec

-----------------------------------------------------------------------------
(* Sections as maps.                                                       *)

\* The value of a key is that of its only entry.
LEMMA MapFound ==
  ASSUME NEW c, IsContent(c), NEW i \in DOMAIN c, c[i].name \in Keys
  PROVE  AsMap(c)[c[i].name] = c[i].value
<1> DEFINE k == c[i].name
           j == CHOOSE n \in Named(c, k) : TRUE
<1>1. i \in Named(c, k)
  BY DEF Named
<1>2. j \in Named(c, k)
  BY <1>1
<1>3. j = i
  BY <1>2 DEF Named, IsContent, Unique
<1>4. QED
  BY <1>1, <1>3 DEF AsMap

\* A key without an entry has no value.
LEMMA MapAbsent ==
  ASSUME NEW c, NEW k \in Keys, Named(c, k) = {}
  PROVE  AsMap(c)[k] = NoValue
BY DEF AsMap

\* Two maps are one if they agree on every key.
SameMap(c, f) == \A k \in Keys : AsMap(c)[k] = f[k]

\* A map is a function of its keys.
LEMMA MapIs ==
  ASSUME NEW c, NEW f, f = [k \in Keys |-> f[k]], SameMap(c, f)
  PROVE  AsMap(c) = f
<1>1. AsMap(c) = [k \in Keys |-> AsMap(c)[k]]
  BY DEF AsMap
<1> DEFINE A(k) == AsMap(c)[k]
<1>2. \A k \in Keys : A(k) = f[k]
  BY DEF SameMap
<1> HIDE DEF A
<1>3. [k \in Keys |-> A(k)] = [k \in Keys |-> f[k]]
  BY <1>2
<1>4. QED
  BY <1>1, <1>3 DEF A

\* A section that has the entries of another, but for one key.
LEMMA MapChanged ==
  ASSUME NEW c, IsContent(c), NEW d, IsContent(d), NEW k \in Keys, NEW w,
         AsMap(d)[k] = w,
         \A i \in DOMAIN c : c[i].name # k => \E j \in DOMAIN d : d[j] = c[i],
         \A j \in DOMAIN d : d[j].name # k => \E i \in DOMAIN c : d[j] = c[i]
  PROVE  AsMap(d) = [AsMap(c) EXCEPT ![k] = w]
<1> DEFINE g == AsMap(c)
           f == [g EXCEPT ![k] = w]
<1>0. g = [l \in Keys |-> g[l]]
  BY DEF AsMap
<1> HIDE DEF g
<1>1. f = [l \in Keys |-> IF l = k THEN w ELSE g[l]]
  BY <1>0
<1>2. f = [l \in Keys |-> f[l]]
  BY <1>1
<1> USE DEF g
<1> HIDE DEF f
<1>3. SameMap(d, f)
  <2> SUFFICES ASSUME NEW l \in Keys PROVE AsMap(d)[l] = f[l]
    BY DEF SameMap
  <2>1. CASE l = k
    BY <2>1, <1>1
  <2>2. CASE l # k /\ Named(c, l) = {}
    <3>1. Named(d, l) = {}
      BY <2>2 DEF Named
    <3>2. QED
      BY <3>1, <2>2, <1>1, MapAbsent
  <2>3. CASE l # k /\ Named(c, l) # {}
    <3>1. PICK i \in DOMAIN c : c[i].name = l
      BY <2>3 DEF Named
    <3>2. PICK j \in DOMAIN d : d[j] = c[i]
      BY <3>1, <2>3
    <3>3. AsMap(c)[l] = c[i].value /\ AsMap(d)[l] = d[j].value
      BY <3>1, <3>2, MapFound
    <3>4. QED
      BY <3>2, <3>3, <2>3, <1>1
  <2>4. QED
    BY <2>1, <2>2, <2>3
<1>4. QED
  BY <1>2, <1>3, MapIs DEF f

\* _nvram_buf_set changes the value of its key.
LEMMA SetMap ==
  ASSUME NEW c, IsContent(c), NEW k \in Keys, NEW v \in Values,
         ~(Named(c, k) = {} /\ Len(c) >= MAX_ENTRY)
  PROVE  AsMap(_nvram_buf_set(c, k, v)) = [AsMap(c) EXCEPT ![k] = v]
<1> DEFINE d == _nvram_buf_set(c, k, v)
<1>0. c \in Seq(Entries) /\ DOMAIN c = 1 .. Len(c) /\ Len(c) \in Nat
      /\ Entry(k, v) \in Entries
      /\ Entry(k, v).name = k /\ Entry(k, v).value = v
  BY DEF IsContent, Entry, Entries
<1>1. IsContent(d)
  BY SetContent
<1>2. /\ \E i \in DOMAIN d : d[i] = Entry(k, v)
      /\ \A i \in DOMAIN c : c[i].name # k => \E j \in DOMAIN d : d[j] = c[i]
      /\ \A j \in DOMAIN d : d[j].name # k => \E i \in DOMAIN c : d[j] = c[i]
  <2>1. CASE Named(c, k) # {}
    <3>1. d = [i \in DOMAIN c |-> IF c[i].name = k THEN Entry(k, v) ELSE c[i]]
      BY <2>1 DEF _nvram_buf_set
    <3>2. PICK i \in DOMAIN c : c[i].name = k
      BY <2>1 DEF Named
    <3> HIDE DEF d
    <3>3. d[i] = Entry(k, v) /\ DOMAIN d = DOMAIN c
      BY <3>1, <3>2
    <3>4. \A j \in DOMAIN c : IF c[j].name = k THEN d[j].name = k
                             ELSE d[j] = c[j]
      BY <3>1, <1>0
    <3>5. QED
      BY <3>2, <3>3, <3>4
  <2>2. CASE Named(c, k) = {}
    <3>1. d = Append(c, Entry(k, v))
      BY <2>2 DEF _nvram_buf_set
    <3> HIDE DEF d
    <3>2. DOMAIN d = 1 .. Len(c) + 1 /\ d[Len(c) + 1] = Entry(k, v)
          /\ \A i \in 1 .. Len(c) : d[i] = c[i]
      BY <3>1, <1>0
    <3>3. \A j \in DOMAIN d : j \in DOMAIN c \/ j = Len(c) + 1
      BY <3>2, <1>0
    <3>4. DOMAIN c \subseteq DOMAIN d /\ Len(c) + 1 \in DOMAIN d
      BY <3>2, <1>0
    <3>5. QED
      BY <3>2, <3>3, <3>4, <1>0
  <2>3. QED
    BY <2>1, <2>2
<1> HIDE DEF d
<1>3. AsMap(d)[k] = v
  BY <1>0, <1>1, <1>2, MapFound
<1>4. AsMap(d) = [AsMap(c) EXCEPT ![k] = v]
  BY <1>1, <1>2, <1>3, MapChanged
<1>5. QED
  BY <1>4 DEF d

\* _nvram_buf_del takes the value of its key away.
LEMMA DelMap ==
  ASSUME NEW c, IsContent(c), NEW k \in Keys, Named(c, k) # {}
  PROVE  AsMap(_nvram_buf_del(c, k)) = [AsMap(c) EXCEPT ![k] = NoValue]
<1> DEFINE i == CHOOSE n \in Named(c, k) : TRUE
           d == RemoveAt(c, i)
<1>0. c \in Seq(Entries) /\ DOMAIN c = 1 .. Len(c) /\ Len(c) \in Nat
      /\ Unique(c)
  BY DEF IsContent
<1>1. i \in 1 .. Len(c) /\ c[i].name = k
  BY <1>0 DEF Named
<1> HIDE DEF i
<1>2. /\ IsContent(d) /\ DOMAIN d = 1 .. Len(c) - 1
      /\ \A j \in 1 .. Len(c) - 1 : d[j] = IF j < i THEN c[j] ELSE c[j + 1]
  BY <1>0, <1>1, RemoveContent
<1> HIDE DEF d
<1>3. \A j \in DOMAIN d : \E n \in DOMAIN c : n # i /\ d[j] = c[n]
  <2> SUFFICES ASSUME NEW j \in 1 .. Len(c) - 1
               PROVE  \E n \in 1 .. Len(c) : n # i /\ d[j] = c[n]
    BY <1>0, <1>2
  <2>1. CASE j < i
    BY <2>1, <1>0, <1>1, <1>2
  <2>2. CASE ~(j < i)
    <3>1. j + 1 \in 1 .. Len(c) /\ j + 1 # i /\ d[j] = c[j + 1]
      BY <2>2, <1>0, <1>1, <1>2
    <3>2. QED
      BY <3>1
  <2>3. QED
    BY <2>1, <2>2
<1>4. \A n \in DOMAIN c : n # i => \E j \in DOMAIN d : d[j] = c[n]
  <2> SUFFICES ASSUME NEW n \in 1 .. Len(c), n # i
               PROVE  \E j \in 1 .. Len(c) - 1 : d[j] = c[n]
    BY <1>0, <1>2
  <2>1. CASE n < i
    <3>1. n \in 1 .. Len(c) - 1 /\ d[n] = c[n]
      BY <2>1, <1>0, <1>1, <1>2
    <3>2. QED
      BY <3>1
  <2>2. CASE ~(n < i)
    <3>1. n - 1 \in 1 .. Len(c) - 1 /\ ~(n - 1 < i) /\ (n - 1) + 1 = n
      BY <2>2, <1>0, <1>1
    <3>2. d[n - 1] = c[n]
      BY <3>1, <1>2
    <3>3. QED
      BY <3>1, <3>2
  <2>3. QED
    BY <2>1, <2>2
<1>5. \A n \in DOMAIN c : n # i => c[n].name # k
  BY <1>0, <1>1 DEF Unique
<1>6. AsMap(d)[k] = NoValue
  <2>1. Named(d, k) = {}
    BY <1>3, <1>5 DEF Named
  <2>2. QED
    BY <2>1, MapAbsent
<1>7. \A n \in DOMAIN c : c[n].name # k => \E j \in DOMAIN d : d[j] = c[n]
  BY <1>1, <1>4
<1>8. \A j \in DOMAIN d : d[j].name # k => \E n \in DOMAIN c : d[j] = c[n]
  BY <1>3
<1>9. AsMap(d) = [AsMap(c) EXCEPT ![k] = NoValue]
  BY <1>2, <1>6, <1>7, <1>8, MapChanged
<1>10. QED
  BY <1>9 DEF _nvram_buf_del, i, d

\* A section without entries has no values.
LEMMA EmptyMap == AsMap(<<>>) = [k \in Keys |-> NoValue]
<1>1. \A k \in Keys : Named(<<>>, k) = {}
  BY DEF Named
<1>2. QED
  BY <1>1 DEF AsMap

\* What is written of a section that is not refused is what the store may hold of
\* it: the section, or that section with its last entry cut off.
LEMMA WrittenImage ==
  ASSUME NEW c, IsContent(c), ~Exceeds(c)
  PROVE  AsMap(Image(c)) \in Store!Written(AsMap(c))
<1> DEFINE n == Len(c)
           d == [c EXCEPT ![n].value = Mangled]
           m == AsMap(c)
<1>1. /\ c \in Seq(Entries) /\ DOMAIN c = 1 .. n /\ n \in Nat
      /\ n <= MAX_ENTRY /\ MAX_ENTRY \in Nat /\ Unique(c)
      /\ \A i \in DOMAIN c : c[i] \in Entries
  BY NvramAssumption DEF IsContent
<1>2. CASE Image(c) = c
  BY <1>2 DEF Store!Written
<1>3. CASE Image(c) # c
  <2>1. Image(c) = d /\ CRC + Total(c) > SIZE
    BY <1>3 DEF Image
  <2>2. n \in DOMAIN c
    <3>1. n \notin DOMAIN c => d = c
      BY <1>1
    <3>2. QED
      BY <3>1, <2>1, <1>3
  <2> DEFINE k == c[n].name
  <2>3. k \in Keys /\ c[n].value \in Values \cup {Mangled}
    BY <1>1, <2>2 DEF Entries
  <2>4. IsContent(d)
    BY <2>1, ImageContent
  <2>5. /\ DOMAIN d = DOMAIN c /\ d[n].value = Mangled /\ d[n].name = k
        /\ \A i \in DOMAIN c : i # n => d[i] = c[i]
    BY <1>1, <2>2 DEF Entries
  <2> HIDE DEF d
  <2>6. AsMap(d)[k] = Mangled
    BY <2>2, <2>3, <2>4, <2>5, MapFound
  <2>7. AsMap(d) = [m EXCEPT ![k] = Mangled]
    <3>1. \A i \in DOMAIN c : c[i].name # k => \E j \in DOMAIN d : d[j] = c[i]
      BY <2>5
    <3>2. \A j \in DOMAIN d : d[j].name # k => \E i \in DOMAIN c : d[j] = c[i]
      BY <2>5
    <3> HIDE DEF k
    <3>3. QED
      BY <2>3, <2>4, <2>6, <3>1, <3>2, MapChanged
  <2>8. m \in Tight
    <3>1. c \in [1 .. n -> Entries] /\ n \in 0 .. MAX_ENTRY
      BY <1>1
    <3> HIDE DEF n
    <3>2. c \in Contents
      BY <3>1, <1>1 DEF Contents
    <3>3. QED
      BY <3>2, <2>1 DEF Tight
  <2>9. m[k] # NoValue
    <3>1. m[k] = c[n].value
      BY <2>2, <2>3, MapFound
    <3>2. NoValue \notin Values \cup {Mangled}
      BY NvramAssumption DEF NoValue, Mangled
    <3>3. QED
      BY <2>3, <3>1, <3>2
  <2> HIDE DEF k, m
  <2>10. QED
    BY <2>1, <2>3, <2>7, <2>8, <2>9 DEF Store!Written, m
<1>4. QED
  BY <1>2, <1>3

-----------------------------------------------------------------------------
(* The refinement: one command at a time.                                  *)

\* q is the only process.
Alone(q) == Procs = {q}

\* Two copies agree on the sections before a place of the layout.
SameBefore(m, n, k) == \A i \in 1 .. k - 1 : m[Layout[i]] = n[Layout[i]]

\* A section c of nvramcache that nvram_commit has still to write over what the
\* cache file has, f: it is f, or f with the one change of the command, or what
\* loadfile read.
Waits(cmd, s, c, f) ==
  \/ cmd.op \in {"set", "del", "commit"} /\ c = f
  \/ /\ cmd.op = "set" /\ s = cmd.s /\ ~SetRefused(s, f, cmd.k)
     /\ c = _nvram_buf_set(f, cmd.k, cmd.v)
  \/ /\ cmd.op = "del" /\ s = cmd.s /\ ~DelRefused(s, f, cmd.k)
     /\ c = _nvram_buf_del(f, cmd.k)
  \/ cmd.op = "loadfile" /\ c = File[s]

\* nvram_commit before its section n: those before n are written, the others
\* are, or wait to be.
Pending(r, f) ==
  /\ r.cmd.op \in {"set", "del", "commit", "loadfile"}
  /\ r.cmd.op = "loadfile" => r.mem = File
  /\ \A s \in Sections : f[s] = Image(r.mem[s]) \/ Waits(r.cmd, s, r.mem[s], f[s])
  /\ \A i \in 1 .. r.at - 1 : f[Layout[i]] = Image(r.mem[Layout[i]])

\* nvram_commit has written every section.
Saved(r, f) ==
  /\ r.cmd.op \in {"commit", "loadfile"}
  /\ \A s \in Sections : f[s] = Image(r.mem[s])

\* How the copies of a section are related while a command runs.
CopiesInv(q) ==
  LET r == proc[q]
  IN /\ r.pc = "dump" => SameBefore(file, flash, r.at)
     /\ r.pc = "run" => r.mem = file
     /\ r.pc = "save" => Pending(r, file)
     /\ r.pc \in {"erase", "write"} => Saved(r, file)
     /\ r.pc = "write" => \A s \in Sections : s \in Blocks[r.at] => flash[s] = <<>>

\* What a step has to do: keep the invariant, and be a step of the store.
Implements(q) == CopiesInv(q)' /\ [Store!Next]_(Store!vars)

\* The flash as it is when the block of r is written.
Flushing(r, f) ==
  [s \in Sections |-> IF s \in Blocks[r.at] THEN Image(r.mem[s]) ELSE f[s]]

\* What the store sees of the cache file, the flash and the process.
LEMMA NowFacts ==
  ASSUME NEW q, Procs = {q}
  PROVE  /\ CacheNow = IF file = NoFile \/ proc[q].pc = "dump" THEN flash
                       ELSE file
         /\ CacheNow' = IF file' = NoFile \/ proc'[q].pc = "dump" THEN flash'
                        ELSE file'
         /\ FlashNow = IF proc[q].pc = "write" THEN Flushing(proc[q], flash)
                       ELSE flash
         /\ FlashNow' = IF proc'[q].pc = "write" THEN Flushing(proc'[q], flash')
                        ELSE flash'
         /\ Progress = ProgressOf(proc[q])
         /\ Progress' = ProgressOf(proc'[q])
<1>1. /\ CacheNow = IF file = NoFile \/ proc[q].pc = "dump" THEN flash ELSE file
      /\ CacheNow' = IF file' = NoFile \/ proc'[q].pc = "dump" THEN flash' ELSE file'
  BY DEF CacheNow
<1>2. FlashNow = IF proc[q].pc = "write" THEN Flushing(proc[q], flash) ELSE flash
  BY DEF FlashNow, Flushing
<1>3. FlashNow' = IF proc'[q].pc = "write" THEN Flushing(proc'[q], flash') ELSE flash'
  BY DEF FlashNow, Flushing
<1>4. Progress = ProgressOf(proc[q])
  <2>1. CASE ProgressOf(proc[q]) = Ready
    <3>1. {p \in Procs : ProgressOf(proc[p]) # Ready} = {}
      BY <2>1
    <3>2. QED
      BY <2>1, <3>1 DEF Progress
  <2>2. CASE ProgressOf(proc[q]) # Ready
    <3>1. {p \in Procs : ProgressOf(proc[p]) # Ready} = {q}
      BY <2>2
    <3>2. QED
      BY <3>1 DEF Progress
  <2>3. QED
    BY <2>1, <2>2
<1>5. Progress' = ProgressOf(proc'[q])
  <2> DEFINE P(p) == ProgressOf(proc'[p])
  <2>0. Progress' = LET B == {p \in Procs : P(p) # Ready}
                    IN IF B = {} THEN Ready ELSE P(CHOOSE p \in B : TRUE)
    BY DEF Progress, ProgressOf, Ready
  <2> HIDE DEF P
  <2>1. CASE P(q) = Ready
    <3>1. {p \in Procs : P(p) # Ready} = {}
      BY <2>1
    <3>2. QED
      BY <2>0, <2>1, <3>1 DEF P
  <2>2. CASE P(q) # Ready
    <3>1. {p \in Procs : P(p) # Ready} = {q}
      BY <2>2
    <3>2. QED
      BY <2>0, <3>1 DEF P
  <2>3. QED
    BY <2>1, <2>2
<1>6. QED
  BY <1>1, <1>2, <1>3, <1>4, <1>5

\* How far the process is.
LEMMA ProgressFacts ==
  ASSUME NEW r
  PROVE  /\ Ready.phase = "ready" /\ Ready.done = 0
         /\ r.pc \notin {"save", "erase", "write"} => ProgressOf(r) = Ready
         /\ r.cmd.op # "loadfile" /\ r.pc = "save" => ProgressOf(r) = Ready
         /\ r.cmd.op # "loadfile" /\ r.pc = "erase" /\ r.at = 1 => ProgressOf(r) = Ready
         /\ r.cmd.op = "loadfile" /\ r.pc = "save" /\ ~(r.at > 1) => ProgressOf(r) = Ready
         /\ r.cmd.op = "loadfile" /\ r.pc = "save" /\ r.at > 1
              => ProgressOf(r) = [phase |-> "load", done |-> r.at - 1]
         /\ r.cmd.op = "loadfile" /\ r.pc = "erase" /\ r.at = 1
              => ProgressOf(r) = [phase |-> "load", done |-> Len(Layout)]
         /\ r.pc = "erase" /\ r.at > 1
              => ProgressOf(r) = [phase |-> "flush", done |-> r.at - 1]
         /\ r.pc = "write" => ProgressOf(r) = [phase |-> "write", done |-> r.at]
BY DEF ProgressOf, Ready

\* A step that changes none of this is none of the store.
LEMMA StoreStutters ==
  ASSUME CacheNow' = CacheNow, FlashNow' = FlashNow, Progress' = Progress
  PROVE  UNCHANGED Store!vars
BY DEF Store!vars, AsMaps, AsMap

\* The store has the sections of the layout.
LEMMA StoreSections == Store!Sections = Sections
BY DEF Store!Sections, Sections, Range

\* The process after its own step.
LEMMA ExitProc ==
  ASSUME TypeOK, NEW q \in Procs, Exit(q)
  PROVE  proc'[q].pc = "idle"
BY Typed DEF Exit, Idle

\* A command that ends without having written anything now: one that had
\* written sections or blocks fails.
LEMMA ExitImplements ==
  ASSUME NEW q, Alone(q), TypeOK, CopiesInv(q), Exit(q), UNCHANGED <<flash, file>>,
         proc[q].pc \in {"run", "save", "erase"},
         proc[q].pc = "save" => Exceeds(proc[q].mem[Layout[proc[q].at]])
  PROVE  Implements(q)
<1> DEFINE r == proc[q]
<1>1. proc'[q].pc = "idle" /\ Procs = {q} /\ q \in Procs
  BY ExitProc DEF Alone
<1>2. CopiesInv(q)'
  BY <1>1 DEF CopiesInv
<1>3. CacheNow' = CacheNow /\ FlashNow' = FlashNow /\ Progress' = Ready
      /\ Progress = ProgressOf(r)
  BY <1>1, NowFacts, ProgressFacts
<1>4. CASE Progress = Ready
  BY <1>2, <1>3, <1>4, StoreStutters DEF Implements
<1>5. CASE Progress # Ready
  <2>1. \/ Progress.phase = "flush"
        \/ /\ Progress.phase = "load"
           /\ Progress.done = Len(Layout) \/ Layout[Progress.done + 1] \notin {s \in Sections : ~Exceeds(File[s])}
    <3>1. CASE r.pc = "save"
      <4>1. r.cmd.op = "loadfile" /\ r.mem = File
        BY <1>3, <1>5, <3>1, ProgressFacts DEF CopiesInv, Pending
      <4>2. Progress = [phase |-> "load", done |-> r.at - 1]
        BY <1>3, <1>5, <3>1, <4>1, ProgressFacts
      <4>3. r.at \in Nat
        BY <1>1, Typed DEF ProcType
      <4>4. Progress.phase = "load" /\ Progress.done + 1 = r.at
        BY <4>2, <4>3
      <4>5. QED
        BY <3>1, <4>1, <4>4
    <3>2. CASE r.pc = "erase" /\ r.at > 1
      BY <1>3, <3>2, ProgressFacts
    <3>3. CASE r.pc = "erase" /\ ~(r.at > 1)
      <4>1. r.at = 1
        BY <1>1, <3>3, Typed, SectionsFacts DEF ProcOK
      <4>2. r.cmd.op = "loadfile"
        BY <1>3, <1>5, <3>3, <4>1, ProgressFacts
      <4>3. QED
        BY <1>3, <3>3, <4>1, <4>2, ProgressFacts
    <3>4. CASE r.pc = "run"
      BY <1>3, <1>5, <3>4, ProgressFacts
    <3>5. QED
      BY <3>1, <3>2, <3>3, <3>4
  <2>2. Progress.phase' = "ready" /\ Progress.done' = 0
    BY <1>3, ProgressFacts
  <2>3. UNCHANGED <<AsMaps(CacheNow), AsMaps(FlashNow)>>
    BY <1>3 DEF AsMaps, AsMap
  <2>4. Store!Fail
    BY <2>1, <2>2, <2>3 DEF Store!Fail, Store!Ready
  <2>5. QED
    BY <1>2, <2>4 DEF Implements, Store!Next
<1>6. QED
  BY <1>4, <1>5

\* main and nvram_filecache.
LEMMA StartImplements ==
  ASSUME NEW q, Alone(q), TypeOK, NEW cmd \in Commands, Start(q, cmd)
  PROVE  Implements(q)
<1>1. /\ Procs = {q} /\ flash' = flash
      /\ proc[q].pc = "idle" /\ proc'[q].at = 1
      /\ proc'[q].pc = IF file = NoFile THEN "dump" ELSE "parse"
      /\ file # NoFile => file' = file
  BY Typed DEF Start, Alone
<1>2. CopiesInv(q)'
  BY <1>1 DEF CopiesInv, SameBefore
<1>3. CacheNow' = CacheNow /\ FlashNow' = FlashNow /\ Progress' = Progress
  BY <1>1, NowFacts, ProgressFacts
<1>4. QED
  BY <1>2, <1>3, StoreStutters DEF Implements

\* nvram_filecache reads a section: the last one completes the file.
LEMMA DumpImplements ==
  ASSUME NEW q, Alone(q), TypeOK, TypeOK', CopiesInv(q), Dump(q)
  PROVE  Implements(q)
<1> DEFINE n == proc[q].at
<1>1. /\ Procs = {q} /\ flash' = flash /\ proc[q].pc = "dump"
      /\ IsContents(file) /\ IsContents(flash) /\ file # NoFile
      /\ file' = [file EXCEPT ![Layout[n]] = flash[Layout[n]]]
  BY Typed DEF Dump, Alone, ProcOK, TypeOK
<1>2. n \in 1 .. Len(Layout) /\ Len(Layout) \in Nat
      /\ \A i \in 1 .. Len(Layout) : Layout[i] \in Sections
  BY <1>1, Typed, SectionsFacts DEF ProcOK
<1>3. SameBefore(file', flash, n + 1)
  <2> SUFFICES ASSUME NEW i \in 1 .. (n + 1) - 1
               PROVE  file'[Layout[i]] = flash[Layout[i]]
    BY DEF SameBefore
  <2>1. Layout[i] \in Sections /\ (i \in 1 .. n - 1 \/ i = n)
    BY <1>2
  <2>2. i \in 1 .. n - 1 => file[Layout[i]] = flash[Layout[i]]
    BY <1>1 DEF CopiesInv, SameBefore
  <2>3. QED
    BY <2>1, <2>2, <1>1 DEF IsContents
<1>4. DOMAIN file' = Sections
  BY <1>1 DEF IsContents
<1>5. file' # NoFile
  BY <1>4, NotNoFile
<1>6. CASE n < Len(Layout)
  <2>1. proc'[q].pc = "dump" /\ proc'[q].at = n + 1
    BY <1>1, <1>6, Typed DEF Dump, ProcType
  <2>2. CopiesInv(q)'
    BY <2>1, <1>1, <1>3 DEF CopiesInv
  <2>3. CacheNow' = CacheNow /\ FlashNow' = FlashNow /\ Progress' = Progress
    BY <2>1, <1>1, NowFacts, ProgressFacts
  <2>4. QED
    BY <2>2, <2>3, StoreStutters DEF Implements
<1>7. CASE ~(n < Len(Layout))
  <2>1. proc'[q].pc = "parse"
    BY <1>1, <1>7, Typed DEF Dump, Go, ProcType
  <2>2. CopiesInv(q)'
    BY <2>1 DEF CopiesInv
  <2>3. file' = flash
    <3>1. \A s \in Sections : file'[s] = flash[s]
      BY <1>2, <1>3, <1>7, SectionsFacts DEF SameBefore
    <3>2. file' \in [Sections -> Seq(Entries)]
          /\ flash \in [Sections -> Seq(Entries)]
      BY <1>1, <1>5 DEF TypeOK, IsContents
    <3>3. QED
      BY <3>1, <3>2
  <2>4. CacheNow' = CacheNow /\ FlashNow' = FlashNow /\ Progress' = Progress
    BY <2>1, <2>3, <1>1, <1>5, NowFacts, ProgressFacts
  <2>5. QED
    BY <2>2, <2>4, StoreStutters DEF Implements
<1>8. QED
  BY <1>6, <1>7

\* nvram_parse.
LEMMA ParseImplements ==
  ASSUME NEW q, Alone(q), TypeOK, nvram_parse(q)
  PROVE  Implements(q)
<1>1. /\ Procs = {q} /\ UNCHANGED <<flash, file>> /\ proc[q].pc = "parse"
      /\ proc'[q].pc = "run" /\ proc'[q].mem = file
  BY Typed DEF nvram_parse, Alone, ProcType
<1>2. CopiesInv(q)'
  BY <1>1 DEF CopiesInv
<1>3. CacheNow' = CacheNow /\ FlashNow' = FlashNow /\ Progress' = Progress
  BY <1>1, NowFacts, ProgressFacts
<1>4. QED
  BY <1>2, <1>3, StoreStutters DEF Implements

\* A command goes on to nvram_commit with m.
ToSave(q, m) ==
  /\ proc' = [proc EXCEPT ![q].pc = "save", ![q].at = 1, ![q].mem = m]
  /\ UNCHANGED <<flash, file>>

\* Nothing is written yet.
LEMMA ToSaveImplements ==
  ASSUME NEW q, Alone(q), TypeOK, proc[q].pc = "run", NEW m, ToSave(q, m),
         proc[q].cmd.op \in {"set", "del", "commit", "loadfile"},
         proc[q].cmd.op = "loadfile" => m = File,
         \A s \in Sections : Waits(proc[q].cmd, s, m[s], file[s])
  PROVE  Implements(q)
<1>1. /\ Procs = {q} /\ proc'[q].pc = "save" /\ proc'[q].at = 1
      /\ proc'[q].mem = m /\ proc'[q].cmd = proc[q].cmd
      /\ file' = file /\ flash' = flash
  BY Typed DEF Alone, ProcType, ToSave
<1>2. Pending(proc'[q], file')
  BY <1>1 DEF Pending
<1>3. CopiesInv(q)'
  BY <1>1, <1>2 DEF CopiesInv
<1>4. CacheNow' = CacheNow /\ FlashNow' = FlashNow /\ Progress' = Progress
  <2>1. Progress = Ready
    BY <1>1, NowFacts, ProgressFacts
  <2>2. Progress' = Ready
    BY <1>1, NowFacts, ProgressFacts
  <2>3. QED
    BY <1>1, <2>1, <2>2, NowFacts
<1>5. QED
  BY <1>3, <1>4, StoreStutters DEF Implements

\* nvram_set.
LEMMA SetImplements ==
  ASSUME NEW q, Alone(q), TypeOK, CopiesInv(q), nvram_set(q)
  PROVE  Implements(q)
<1> DEFINE c == proc[q].cmd
           m == proc[q].mem
           n == [m EXCEPT ![c.s] = _nvram_buf_set(m[c.s], c.k, c.v)]
<1>1. /\ q \in Procs /\ proc[q].pc = "run" /\ c.op = "set"
      /\ UNCHANGED <<flash, file>>
      /\ m = file /\ proc \in [Procs -> ProcType] /\ ProcOK(q)
  BY Typed DEF nvram_set, Alone, CopiesInv
<1>2. c.s \in Sections /\ IsContents(m) /\ DOMAIN m = Sections
  BY <1>1, CommandsAssumption DEF ProcOK, IsContents
<1>3. CASE Exit(q)
  BY <1>1, <1>3, ExitImplements
<1>4. CASE /\ ~SetRefused(c.s, m[c.s], c.k)
           /\ proc' = [proc EXCEPT ![q].pc = "save", ![q].at = 1,
                         ![q].mem[c.s] = _nvram_buf_set(m[c.s], c.k, c.v)]
  <2>1. proc' = [proc EXCEPT ![q].pc = "save", ![q].at = 1, ![q].mem = n]
    BY <1>1, <1>4
  <2>2. n[c.s] = _nvram_buf_set(file[c.s], c.k, c.v)
        /\ \A s \in Sections \ {c.s} : n[s] = file[s]
    BY <1>1, <1>2
  <2> HIDE DEF n
  <2>3. \A s \in Sections : Waits(c, s, n[s], file[s])
    BY <1>1, <1>4, <2>2 DEF Waits
  <2>4. ToSave(q, n)
    BY <1>1, <2>1 DEF ToSave
  <2>5. QED
    BY <1>1, <2>3, <2>4, ToSaveImplements
<1>5. QED
  BY <1>3, <1>4 DEF nvram_set

\* nvram_del.
LEMMA DelImplements ==
  ASSUME NEW q, Alone(q), TypeOK, CopiesInv(q), nvram_del(q)
  PROVE  Implements(q)
<1> DEFINE c == proc[q].cmd
           m == proc[q].mem
           n == [m EXCEPT ![c.s] = _nvram_buf_del(m[c.s], c.k)]
<1>1. /\ q \in Procs /\ proc[q].pc = "run" /\ c.op = "del"
      /\ UNCHANGED <<flash, file>>
      /\ m = file /\ proc \in [Procs -> ProcType] /\ ProcOK(q)
  BY Typed DEF nvram_del, Alone, CopiesInv
<1>2. c.s \in Sections /\ IsContents(m) /\ DOMAIN m = Sections
  BY <1>1, CommandsAssumption DEF ProcOK, IsContents
<1>3. CASE Exit(q)
  BY <1>1, <1>3, ExitImplements
<1>4. CASE /\ ~DelRefused(c.s, m[c.s], c.k)
           /\ proc' = [proc EXCEPT ![q].pc = "save", ![q].at = 1,
                         ![q].mem[c.s] = _nvram_buf_del(m[c.s], c.k)]
  <2>1. proc' = [proc EXCEPT ![q].pc = "save", ![q].at = 1, ![q].mem = n]
    BY <1>1, <1>4
  <2>2. n[c.s] = _nvram_buf_del(file[c.s], c.k)
        /\ \A s \in Sections \ {c.s} : n[s] = file[s]
    BY <1>1, <1>2
  <2> HIDE DEF n
  <2>3. \A s \in Sections : Waits(c, s, n[s], file[s])
    BY <1>1, <1>4, <2>2 DEF Waits
  <2>4. ToSave(q, n)
    BY <1>1, <2>1 DEF ToSave
  <2>5. QED
    BY <1>1, <2>3, <2>4, ToSaveImplements
<1>5. QED
  BY <1>3, <1>4 DEF nvram_del

\* commit and loadfile.
LEMMA CommitImplements ==
  ASSUME NEW q, Alone(q), TypeOK, CopiesInv(q), CommitOrLoad(q)
  PROVE  Implements(q)
<1> DEFINE n == IF proc[q].cmd.op = "loadfile" THEN File ELSE proc[q].mem
<1>1. /\ proc[q].pc = "run" /\ proc[q].cmd.op \in {"commit", "loadfile"}
      /\ proc[q].mem = file /\ UNCHANGED <<flash, file>>
  BY DEF CommitOrLoad, CopiesInv
<1>2. \A s \in Sections : Waits(proc[q].cmd, s, n[s], file[s])
  BY <1>1 DEF Waits
<1>3. ToSave(q, n)
  BY <1>1 DEF CommitOrLoad, ToSave
<1>4. proc[q].cmd.op = "loadfile" => n = File
  OBVIOUS
<1> HIDE DEF n
<1>5. QED
  BY <1>1, <1>2, <1>3, <1>4, ToSaveImplements

\* One section of the cache is another map, and the flash stays.
LEMMA SectionStep ==
  ASSUME IsContents(CacheNow), FlashNow' = FlashNow,
         NEW s \in Sections, NEW c,
         CacheNow' = [CacheNow EXCEPT ![s] = c]
  PROVE  /\ AsMaps(CacheNow)' = [AsMaps(CacheNow) EXCEPT ![s] = AsMap(c)]
         /\ AsMaps(FlashNow)' = AsMaps(FlashNow)
         /\ AsMaps(CacheNow)[s] = AsMap(CacheNow[s])
<1>1. \A t \in Sections : CacheNow'[t] = IF t = s THEN c ELSE CacheNow[t]
  BY DEF IsContents
<1>2. AsMaps(CacheNow)' = [t \in Sections |-> AsMap(CacheNow'[t])]
  BY DEF AsMaps, AsMap
<1>3. AsMaps(CacheNow) = [t \in Sections |-> AsMap(CacheNow[t])]
  BY DEF AsMaps
<1>4. AsMaps(FlashNow)' = AsMaps(FlashNow)
  BY DEF AsMaps, AsMap
<1>5. QED
  BY <1>1, <1>2, <1>3, <1>4

\* nvram_clear.
LEMMA ClearImplements ==
  ASSUME NEW q, Alone(q), TypeOK, CopiesInv(q), nvram_clear(q)
  PROVE  Implements(q)
<1> DEFINE s == proc[q].cmd.s
<1>1. /\ q \in Procs /\ Procs = {q} /\ proc[q].pc = "run"
      /\ IsContents(file) /\ Exit(q) /\ flash' = flash
      /\ proc'[q].pc = "idle" /\ file # NoFile
  BY Typed, ExitProc DEF nvram_clear, Alone, ProcOK
<1>2. s \in Sections
  BY <1>1, Typed, CommandsAssumption DEF ProcOK, nvram_clear
<1>3. CASE file' = file
  BY <1>1, <1>3, ExitImplements
<1>4. CASE s \notin ReadOnly /\ file' = [file EXCEPT ![s] = <<>>]
  <2>1. file' # NoFile
    BY <1>1, <1>2, <1>4, EmptyContent, FileTypes
  <2>2. CacheNow = file /\ CacheNow' = file' /\ FlashNow' = FlashNow
        /\ Progress = Ready /\ Progress' = Ready
    BY <2>1, <1>1, NowFacts, ProgressFacts
  <2>3. CacheNow' = [CacheNow EXCEPT ![s] = <<>>] /\ IsContents(CacheNow)
    BY <2>2, <1>1, <1>4
  <2>4. /\ AsMaps(CacheNow)' = [AsMaps(CacheNow) EXCEPT ![s] = AsMap(<<>>)]
        /\ AsMaps(FlashNow)' = AsMaps(FlashNow)
    BY <2>2, <2>3, <1>2, SectionStep
  <2>5. Store!Clear(s)
    BY <1>4, <2>2, <2>4, EmptyMap, ProgressFacts DEF Store!Clear, Store!Command
  <2>6. CopiesInv(q)'
    BY <1>1 DEF CopiesInv
  <2>7. s \in Store!Sections
    BY <1>2, StoreSections
  <2>8. QED
    BY <2>5, <2>6, <2>7 DEF Implements, Store!Next
<1>5. QED
  BY <1>3, <1>4 DEF nvram_clear

\* A section is written: the store puts one of the sections it may then hold.
LEMMA PutSection ==
  ASSUME IsContents(CacheNow), NEW s \in Sections, NEW c, IsContent(c), ~Exceeds(c),
         CacheNow' = [CacheNow EXCEPT ![s] = Image(c)], FlashNow' = FlashNow
  PROVE  /\ Store!Put(s, AsMap(c))
         /\ AsMaps(FlashNow)' = AsMaps(FlashNow)
         /\ AsMaps(CacheNow)[s] = AsMap(CacheNow[s])
<1>1. /\ AsMaps(CacheNow)' = [AsMaps(CacheNow) EXCEPT ![s] = AsMap(Image(c))]
      /\ AsMaps(FlashNow)' = AsMaps(FlashNow)
      /\ AsMaps(CacheNow)[s] = AsMap(CacheNow[s])
  BY SectionStep
<1>2. AsMap(Image(c)) \in Store!Written(AsMap(c))
  BY WrittenImage
<1>3. Store!Put(s, AsMap(c))
  BY <1>1, <1>2 DEF Store!Put
<1>4. QED
  BY <1>1, <1>3

\* A section that waits is none of the store, or the set or the del of the
\* command.
LEMMA SavedSection ==
  ASSUME NEW cmd \in Commands, NEW c, IsContent(c), ~Exceeds(c), NEW s \in Sections,
         cmd.op # "loadfile", IsContents(file),
         file[s] = Image(c) \/ Waits(cmd, s, c, file[s]),
         file' = [file EXCEPT ![s] = Image(c)],
         CacheNow = file, CacheNow' = file', FlashNow' = FlashNow,
         Progress = Ready, Progress' = Ready
  PROVE  [Store!Next]_(Store!vars)
<1>0. DOMAIN file = Sections /\ IsContent(file[s])
  BY DEF IsContents
<1>1. CASE file[s] = Image(c)
  <2>1. file' = file
    BY <1>0, <1>1 DEF IsContents
  <2>2. QED
    BY <2>1, StoreStutters
<1>2. CASE Waits(cmd, s, c, file[s])
  <2>1. /\ Store!Put(s, AsMap(c)) /\ AsMaps(FlashNow)' = AsMaps(FlashNow)
        /\ AsMaps(CacheNow)[s] = AsMap(file[s])
    <3>1. CacheNow' = [CacheNow EXCEPT ![s] = Image(c)] /\ IsContents(CacheNow)
      OBVIOUS
    <3>2. QED
      BY <3>1, PutSection
  <2>2. s \in Store!Sections
    BY StoreSections
  <2>3. /\ Progress.phase = "ready" /\ Progress.phase' = Progress.phase
        /\ Progress.done' = Progress.done
    BY ProgressFacts
  <2>4. CASE c = file[s]
    <3>1. Store!Rewrite(s)
      BY <2>1, <2>3, <2>4 DEF Store!Rewrite
    <3>2. QED
      BY <2>2, <3>1 DEF Store!Next
  <2>5. CASE /\ cmd.op = "set" /\ ~SetRefused(s, file[s], cmd.k)
             /\ c = _nvram_buf_set(file[s], cmd.k, cmd.v)
    <3>1. cmd.k \in Keys /\ cmd.v \in Values
      BY <2>5, CommandsAssumption
    <3>2. s \notin ReadOnly /\ ~(Named(file[s], cmd.k) = {} /\ Len(file[s]) >= MAX_ENTRY)
      BY <2>5 DEF SetRefused
    <3>3. AsMap(c) = [AsMap(file[s]) EXCEPT ![cmd.k] = cmd.v]
      BY <1>0, <2>5, <3>1, <3>2, SetMap
    <3>4. Store!Set(s, cmd.k, cmd.v)
      BY <2>1, <2>3, <3>2, <3>3 DEF Store!Set, Store!Command
    <3>5. QED
      BY <2>2, <3>1, <3>4 DEF Store!Next
  <2>6. CASE /\ cmd.op = "del" /\ ~DelRefused(s, file[s], cmd.k)
             /\ c = _nvram_buf_del(file[s], cmd.k)
    <3>1. cmd.k \in Keys
      BY <2>6, CommandsAssumption
    <3>2. s \notin ReadOnly /\ Named(file[s], cmd.k) # {}
      BY <2>6 DEF DelRefused
    <3>3. AsMap(c) = [AsMap(file[s]) EXCEPT ![cmd.k] = NoValue]
      BY <1>0, <2>6, <3>1, <3>2, DelMap
    <3>4. Store!Del(s, cmd.k)
      BY <2>1, <2>3, <3>2, <3>3 DEF Store!Del, Store!Command
    <3>5. QED
      BY <2>2, <3>1, <3>4 DEF Store!Next
  <2>7. QED
    BY <1>2, <2>4, <2>5, <2>6 DEF Waits
<1>3. QED
  BY <1>1, <1>2

\* A section of the file that loadfile reads.
LEMMA LoadedSection ==
  ASSUME NEW s \in Sections, IsContents(file), ~Exceeds(File[s]),
         file' = [file EXCEPT ![s] = Image(File[s])],
         CacheNow = file, CacheNow' = file', FlashNow' = FlashNow,
         NEW n \in 1 .. Len(Layout), s = Layout[n],
         IF n > 1 THEN Progress = [phase |-> "load", done |-> n - 1] ELSE Progress = Ready,
         Progress' = [phase |-> "load", done |-> n]
  PROVE  Store!Next
<1>1. /\ Store!Put(s, AsMap(File[s])) /\ AsMaps(FlashNow)' = AsMaps(FlashNow)
  <2>1. CacheNow' = [CacheNow EXCEPT ![s] = Image(File[s])] /\ IsContents(CacheNow)
        /\ IsContent(File[s])
    BY ContentsAssumption DEF IsContents
  <2>2. QED
    BY <2>1, PutSection
<1>2. AsMaps(File)[s] = AsMap(File[s])
  BY DEF AsMaps
<1>3. Len(Layout) \in Nat
  BY SectionsFacts
<1>4. Progress.phase \in {"ready", "load"} /\ Progress.done < Len(Layout)
      /\ Progress.done + 1 = n
  BY <1>3, ProgressFacts
<1>5. Progress.phase' = "load" /\ Progress.done' = Progress.done + 1
  BY <1>3, <1>4
<1>6. s \in {t \in Sections : ~Exceeds(File[t])}
  OBVIOUS
<1>7. Store!Load
  BY <1>1, <1>2, <1>4, <1>5, <1>6 DEF Store!Load
<1>8. QED
  BY <1>7 DEF Store!Next

\* nvram_commit writes a section.
LEMMA SaveImplements ==
  ASSUME NEW q, Alone(q), TypeOK, CopiesInv(q), Save(q)
  PROVE  Implements(q)
<1> DEFINE r == proc[q]
           n == r.at
           s == Layout[n]
           c == r.mem[s]
<1>1. /\ q \in Procs /\ Procs = {q} /\ flash' = flash
      /\ r.pc = "save" /\ IsContents(file) /\ file # NoFile
      /\ IsContents(r.mem) /\ r.cmd \in Commands /\ Pending(r, file)
      /\ r \in ProcType
  BY Typed DEF Save, Alone, ProcOK, CopiesInv
<1>2. n \in 1 .. Len(Layout) /\ Len(Layout) \in Nat /\ s \in Sections
      /\ \A i \in 1 .. Len(Layout) : Layout[i] \in Sections
  BY <1>1, Typed, SectionsFacts DEF ProcOK
<1>3. CASE Exceeds(c) /\ Exit(q) /\ UNCHANGED file
  BY <1>1, <1>3, ExitImplements
<1>4. CASE ~Exceeds(c) /\ file' = [file EXCEPT ![s] = Image(c)]
  <2>1. IsContent(c) /\ IsContent(Image(c))
    BY <1>1, <1>2, ImageContent DEF IsContents
  <2>2. IsContents(file') /\ file' # NoFile
    <3>1. file' = [file EXCEPT ![s] = Image(c)]
      BY <1>4
    <3> HIDE DEF s, c
    <3>2. QED
      BY <1>1, <1>2, <2>1, <3>1, FileTypes
  <2>3. \A t \in Sections : file'[t] = IF t = s THEN Image(r.mem[t]) ELSE file[t]
    BY <1>1, <1>4 DEF IsContents
  <2>4. \A i \in 1 .. n : file'[Layout[i]] = Image(r.mem[Layout[i]])
    <3> SUFFICES ASSUME NEW i \in 1 .. n
                 PROVE  file'[Layout[i]] = Image(r.mem[Layout[i]])
      OBVIOUS
    <3>1. Layout[i] \in Sections /\ (i \in 1 .. n - 1 \/ i = n)
      BY <1>2
    <3>2. i \in 1 .. n - 1 => file[Layout[i]] = Image(r.mem[Layout[i]])
      BY <1>1 DEF Pending
    <3>3. QED
      BY <3>1, <3>2, <2>3
  <2>5. /\ r.cmd.op \in {"set", "del", "commit", "loadfile"}
        /\ r.cmd.op = "loadfile" => r.mem = File
        /\ \A t \in Sections : file[t] = Image(r.mem[t]) \/ Waits(r.cmd, t, r.mem[t], file[t])
    BY <1>1 DEF Pending
  <2>6. ASSUME proc'[q].pc \notin {"dump", "write"},
               r.cmd.op = "loadfile" => Progress' = [phase |-> "load", done |-> n],
               r.cmd.op # "loadfile" => Progress' = Ready
        PROVE  [Store!Next]_(Store!vars)
    <3>1. CacheNow = file /\ CacheNow' = file' /\ FlashNow' = FlashNow
          /\ Progress = ProgressOf(r)
      BY <1>1, <2>2, <2>6, NowFacts
    <3>2. CASE r.cmd.op = "loadfile"
      <4>1. c = File[s] /\ ~Exceeds(File[s])
        BY <1>4, <2>5, <3>2
      <4>2. file' = [file EXCEPT ![s] = Image(File[s])]
        BY <1>4, <4>1
      <4>3. n > 1 => Progress = [phase |-> "load", done |-> n - 1]
        BY <1>1, <3>1, <3>2, ProgressFacts
      <4>4. ~(n > 1) => Progress = Ready
        BY <1>1, <3>1, <3>2, ProgressFacts
      <4>5. Progress' = [phase |-> "load", done |-> n]
        BY <2>6, <3>2
      <4> HIDE DEF n, s, c, r
      <4>6. Store!Next
        BY <1>1, <1>2, <3>1, <4>1, <4>2, <4>3, <4>4, <4>5, LoadedSection DEF s
      <4>7. QED
        BY <4>6
    <3>3. CASE r.cmd.op # "loadfile"
      <4>1. Progress = Ready
        BY <1>1, <3>1, <3>3, ProgressFacts
      <4>2. file[s] = Image(c) \/ Waits(r.cmd, s, c, file[s])
        BY <1>2, <2>5
      <4>3. Progress' = Ready
        BY <2>6, <3>3
      <4> HIDE DEF n, s, c, r
      <4>4. QED
        BY <1>1, <1>2, <1>4, <2>1, <3>1, <3>3, <4>1, <4>2, <4>3, SavedSection
    <3>4. QED
      BY <3>2, <3>3
  <2>7. CASE /\ proc' = [proc EXCEPT ![q].at = proc[q].at + 1]
             /\ proc[q].at < Len(Layout)
    <3>1. /\ proc'[q].pc = "save" /\ proc'[q].at = n + 1
          /\ proc'[q].mem = r.mem /\ proc'[q].cmd = r.cmd
      BY <1>1, <2>7, Typed DEF ProcType
    <3>2. \A t \in Sections :
             file'[t] = Image(r.mem[t]) \/ Waits(r.cmd, t, r.mem[t], file'[t])
      BY <2>3, <2>5
    <3>3. n + 1 > 1 /\ (n + 1) - 1 = n
      BY <1>2
    <3>4. Pending(proc'[q], file')
      BY <2>4, <2>5, <3>1, <3>2, <3>3 DEF Pending
    <3>5. CopiesInv(q)'
      BY <3>1, <3>4 DEF CopiesInv
    <3>6. Progress' = ProgressOf(proc'[q])
      BY <1>1, NowFacts
    <3>7. r.cmd.op = "loadfile" => Progress' = [phase |-> "load", done |-> n]
      BY <3>1, <3>3, <3>6, ProgressFacts
    <3>8. r.cmd.op # "loadfile" => Progress' = Ready
      BY <3>1, <3>6, ProgressFacts
    <3>9. QED
      BY <2>6, <3>1, <3>5, <3>7, <3>8 DEF Implements
  <2>8. CASE /\ Go(q, "erase") /\ ~(proc[q].at < Len(Layout))
             /\ proc[q].cmd.op \in {"commit", "loadfile"}
    <3>1. /\ proc'[q].pc = "erase" /\ proc'[q].mem = r.mem /\ proc'[q].cmd = r.cmd
          /\ proc'[q].at = 1
      BY <1>1, <2>8, Typed DEF ProcType, Go
    <3>2. n = Len(Layout)
      BY <1>2, <2>8
    <3>3. \A t \in Sections : file'[t] = Image(r.mem[t])
      BY <1>2, <2>4, <3>2, SectionsFacts
    <3>4. Saved(proc'[q], file')
      BY <2>8, <3>1, <3>3 DEF Saved
    <3>5. CopiesInv(q)'
      BY <3>1, <3>4 DEF CopiesInv
    <3>6. Progress' = ProgressOf(proc'[q])
      BY <1>1, NowFacts
    <3>7. r.cmd.op = "loadfile" => Progress' = [phase |-> "load", done |-> n]
      BY <3>1, <3>2, <3>6, ProgressFacts
    <3>8. r.cmd.op # "loadfile" => Progress' = Ready
      BY <3>1, <3>6, ProgressFacts
    <3>9. QED
      BY <2>6, <3>1, <3>5, <3>7, <3>8 DEF Implements
  <2>9. CASE Exit(q) /\ proc[q].cmd.op \notin {"commit", "loadfile"}
    <3>1. proc'[q].pc = "idle"
      BY <1>1, <2>9, ExitProc
    <3>2. CopiesInv(q)'
      BY <3>1 DEF CopiesInv
    <3>3. Progress' = Ready
      BY <1>1, <3>1, NowFacts, ProgressFacts
    <3>4. QED
      BY <2>6, <2>9, <3>1, <3>2, <3>3 DEF Implements
  <2>10. QED
    BY <1>4, <2>7, <2>8, <2>9 DEF Save
<1>5. QED
  BY <1>3, <1>4 DEF Save

\* flash_write erases a block: from then on it counts as flushed.
LEMMA EraseImplements ==
  ASSUME NEW q, Alone(q), TypeOK, CopiesInv(q), Erase(q)
  PROVE  Implements(q)
<1> DEFINE r == proc[q]
           i == r.at
<1>1. /\ q \in Procs /\ Procs = {q} /\ r.pc = "erase" /\ file' = file
      /\ file # NoFile /\ Saved(r, file) /\ i \in DOMAIN Blocks
  BY Typed DEF Erase, Alone, ProcOK, CopiesInv
<1>2. CASE Exit(q) /\ UNCHANGED flash
  BY <1>1, <1>2, ExitImplements
<1>3. CASE /\ proc' = [proc EXCEPT ![q].pc = "write"]
           /\ flash' = [s \in Sections |-> IF s \in Blocks[i] THEN <<>> ELSE flash[s]]
  <2>1. proc'[q].pc = "write" /\ proc'[q].mem = r.mem /\ proc'[q].at = i
        /\ proc'[q].cmd = r.cmd
    BY <1>1, <1>3, Typed DEF ProcType
  <2>2. CopiesInv(q)'
    <3>1. Saved(proc'[q], file')
      BY <1>1, <2>1 DEF Saved
    <3>2. \A s \in Sections : s \in Blocks[i] => flash'[s] = <<>>
      BY <1>3
    <3>3. QED
      BY <2>1, <3>1, <3>2 DEF CopiesInv
  <2>3. /\ CacheNow = file /\ CacheNow' = file /\ FlashNow = flash
        /\ FlashNow' = Flushing(proc'[q], flash')
        /\ Progress = ProgressOf(r) /\ Progress' = ProgressOf(proc'[q])
    BY <1>1, <2>1, NowFacts
  <2>4. FlashNow' = [s \in Sections |-> IF s \in Blocks[i] THEN file[s] ELSE flash[s]]
    <3>1. \A s \in Sections : Image(r.mem[s]) = file[s]
      BY <1>1 DEF Saved
    <3>2. \A s \in Sections : s \notin Blocks[i] => flash'[s] = flash[s]
      BY <1>3
    <3>3. QED
      BY <2>1, <2>3, <3>1, <3>2 DEF Flushing
  <2>5. AsMaps(CacheNow)' = AsMaps(CacheNow)
    BY <2>3 DEF AsMaps, AsMap
  <2>6. AsMaps(FlashNow)' =
          [s \in Sections |-> IF s \in Blocks[i] THEN AsMaps(CacheNow)[s] ELSE AsMaps(FlashNow)[s]]
    <3>1. AsMaps(FlashNow)' = [s \in Sections |-> AsMap(FlashNow'[s])]
      BY DEF AsMaps, AsMap
    <3>2. \A s \in Sections :
             FlashNow'[s] = IF s \in Blocks[i] THEN file[s] ELSE flash[s]
      BY <2>4
    <3>3. \A s \in Sections : AsMaps(CacheNow)[s] = AsMap(file[s])
                              /\ AsMaps(FlashNow)[s] = AsMap(flash[s])
      BY <2>3 DEF AsMaps
    <3>4. QED
      BY <3>1, <3>2, <3>3
  <2>7. Progress.phase' = "write" /\ Progress.done' = i
    BY <2>1, <2>3, ProgressFacts
  <2>8. \/ i = 1 /\ (Progress.phase = "ready"
                      \/ (Progress.phase = "load" /\ Progress.done = Len(Layout)))
        \/ i = Progress.done + 1 /\ Progress.phase = "flush"
    <3>1. i \in Nat \ {0}
      BY <1>1, SectionsFacts
    <3>2. CASE i > 1
      BY <1>1, <2>3, <3>1, <3>2, ProgressFacts
    <3>3. CASE ~(i > 1)
      <4>1. i = 1
        BY <3>1, <3>3
      <4>2. CASE r.cmd.op = "loadfile"
        BY <1>1, <2>3, <4>1, <4>2, ProgressFacts
      <4>3. CASE r.cmd.op # "loadfile"
        BY <1>1, <2>3, <4>1, <4>3, ProgressFacts
      <4>4. QED
        BY <4>2, <4>3
    <3>4. QED
      BY <3>2, <3>3
  <2> HIDE DEF i, r
  <2>9. Store!Flush(i)
    BY <2>5, <2>6, <2>7, <2>8, StoreSections DEF Store!Flush
  <2>10. QED
    BY <1>1, <2>2, <2>9 DEF Implements, Store!Next
<1>4. QED
  BY <1>2, <1>3 DEF Erase

\* The block that is being written reads as erased.
LEMMA ErasedBlock ==
  ASSUME NEW q, Procs = {q}, CopiesInv(q), proc[q].pc = "write"
  PROVE  AsMaps(flash) =
           [s \in Sections |-> IF s \in Blocks[proc[q].at] THEN [k \in Keys |-> NoValue]
                               ELSE AsMaps(FlashNow)[s]]
<1>1. FlashNow = Flushing(proc[q], flash)
  BY NowFacts
<1>2. \A s \in Sections : s \in Blocks[proc[q].at] => flash[s] = <<>>
  BY DEF CopiesInv
<1>3. \A s \in Sections : s \notin Blocks[proc[q].at] => FlashNow[s] = flash[s]
  BY <1>1 DEF Flushing
<1>4. \A s \in Sections : AsMaps(FlashNow)[s] = AsMap(FlashNow[s])
  BY DEF AsMaps
<1>5. AsMaps(flash) = [s \in Sections |-> AsMap(flash[s])]
  BY DEF AsMaps
<1>6. QED
  BY <1>2, <1>3, <1>4, <1>5, EmptyMap

\* flash_write writes the block: the flash is now what it counted as, or the
\* block stays erased.
LEMMA WriteImplements ==
  ASSUME NEW q, Alone(q), TypeOK, CopiesInv(q), Write(q)
  PROVE  Implements(q)
<1> DEFINE r == proc[q]
           i == r.at
<1>1. /\ q \in Procs /\ Procs = {q} /\ r.pc = "write" /\ file' = file
      /\ file # NoFile /\ Saved(r, file) /\ i \in 1 .. Len(Blocks)
      /\ Len(Blocks) \in Nat
  BY Typed, SectionsFacts DEF Write, Alone, ProcOK, CopiesInv
<1>2. /\ CacheNow = file /\ FlashNow = Flushing(r, flash)
      /\ Progress.phase = "write" /\ Progress.done = i
  BY <1>1, NowFacts, ProgressFacts
<1>3. ASSUME proc'[q].pc \notin {"write", "dump"}, flash' = Flushing(r, flash)
      PROVE  UNCHANGED <<AsMaps(CacheNow), AsMaps(FlashNow)>>
  <2>1. CacheNow' = CacheNow /\ FlashNow' = FlashNow
    BY <1>1, <1>2, <1>3, NowFacts
  <2>2. QED
    BY <2>1 DEF AsMaps, AsMap
<1>4. CASE /\ i < Len(Blocks) /\ flash' = Flushing(r, flash)
           /\ proc' = [proc EXCEPT ![q].pc = "erase", ![q].at = proc[q].at + 1]
  <2>1. proc'[q].pc = "erase" /\ proc'[q].at = i + 1 /\ proc'[q].mem = r.mem
        /\ proc'[q].cmd = r.cmd
    BY <1>1, <1>4, Typed DEF ProcType
  <2>2. CopiesInv(q)'
    BY <1>1, <2>1 DEF CopiesInv, Saved
  <2>3. Progress' = [phase |-> "flush", done |-> (i + 1) - 1]
    <3>1. i + 1 > 1
      BY <1>1
    <3>2. QED
      BY <1>1, <2>1, <3>1, NowFacts, ProgressFacts
  <2>4. Progress.phase' = "flush" /\ Progress.done' = i
    BY <1>1, <2>3
  <2>5. i # Len(Blocks)
    BY <1>1, <1>4
  <2>6. Store!Flushed
    BY <1>2, <1>3, <1>4, <2>1, <2>4, <2>5 DEF Store!Flushed
  <2>7. QED
    BY <2>2, <2>6 DEF Implements, Store!Next
<1>5. CASE ~(i < Len(Blocks)) /\ Exit(q) /\ flash' = Flushing(r, flash)
  <2>1. proc'[q].pc = "idle"
    BY <1>1, <1>5, ExitProc
  <2>2. CopiesInv(q)'
    BY <2>1 DEF CopiesInv
  <2>3. Progress.phase' = "ready" /\ Progress.done' = 0
    BY <1>1, <2>1, NowFacts, ProgressFacts
  <2>4. i = Len(Blocks)
    BY <1>1, <1>5
  <2>5. Store!Flushed
    BY <1>2, <1>3, <1>5, <2>1, <2>3, <2>4 DEF Store!Flushed, Store!Ready
  <2>6. QED
    BY <2>2, <2>5 DEF Implements, Store!Next
<1>6. CASE Exit(q) /\ UNCHANGED flash
  <2>1. proc'[q].pc = "idle"
    BY <1>1, <1>6, ExitProc
  <2>2. CopiesInv(q)'
    BY <2>1 DEF CopiesInv
  <2>3. /\ Progress.phase' = "ready" /\ Progress.done' = 0
        /\ CacheNow' = CacheNow /\ FlashNow' = flash
    BY <1>1, <1>2, <1>6, <2>1, NowFacts, ProgressFacts
  <2>4. AsMaps(CacheNow)' = AsMaps(CacheNow) /\ AsMaps(FlashNow)' = AsMaps(flash)
    BY <2>3 DEF AsMaps, AsMap
  <2>5. Store!WriteFails
    BY <1>1, <1>2, <2>3, <2>4, ErasedBlock, StoreSections
       DEF Store!WriteFails, Store!Erased, Store!Ready
  <2>6. QED
    BY <2>2, <2>5 DEF Implements, Store!Next
<1>7. QED
  BY <1>4, <1>5, <1>6 DEF Write, Flushing

\* The power fails: between an erasure and its writing the block is lost.
LEMMA PowerImplements ==
  ASSUME NEW q, Alone(q), TypeOK, CopiesInv(q), PowerLoss
  PROVE  Implements(q)
<1> DEFINE r == proc[q]
<1>1. /\ q \in Procs /\ Procs = {q} /\ proc'[q].pc = "idle"
      /\ file' = NoFile /\ flash' = flash
  BY DEF PowerLoss, Alone, Idle
<1>2. CacheNow' = flash /\ FlashNow' = flash
      /\ Progress.phase' = "ready" /\ Progress.done' = 0
  BY <1>1, NowFacts, ProgressFacts
<1>3. AsMaps(CacheNow)' = AsMaps(flash) /\ AsMaps(FlashNow)' = AsMaps(flash)
  BY <1>2 DEF AsMaps, AsMap
<1>4. CopiesInv(q)'
  BY <1>1 DEF CopiesInv
<1>5. CASE r.pc # "write"
  <2>1. FlashNow = flash
    BY <1>1, <1>5, NowFacts
  <2>2. Progress.phase # "write"
    <3>1. r.pc \in {"idle", "dump", "parse", "run", "save", "erase"}
      BY <1>1, <1>5, Typed DEF ProcType, Pcs
    <3>2. Progress.phase \in {"ready", "load", "flush"}
      BY <1>1, <3>1, NowFacts DEF ProgressOf, Ready
    <3>3. QED
      BY <3>2
  <2>3. Store!PowerLoss
    BY <1>2, <1>3, <2>1, <2>2 DEF Store!PowerLoss, Store!Ready
  <2>4. QED
    BY <1>4, <2>3 DEF Implements, Store!Next
<1>6. CASE r.pc = "write"
  <2>1. TORN
    BY <1>1, <1>6 DEF PowerLoss
  <2>2. Progress.phase = "write" /\ Progress.done = r.at
        /\ FlashNow = Flushing(r, flash)
    BY <1>1, <1>6, NowFacts, ProgressFacts
  <2>3. Store!Torn
    BY <1>1, <1>2, <1>3, <1>6, <2>1, <2>2, ErasedBlock, StoreSections
       DEF Store!Torn, Store!Erased, Store!Ready
  <2>4. QED
    BY <1>4, <2>3 DEF Implements, Store!Next
<1>7. QED
  BY <1>5, <1>6

\* Every step.
LEMMA NextImplements ==
  ASSUME NEW q, Alone(q), TypeOK, TypeOK', CopiesInv(q), [Next]_vars
  PROVE  Implements(q)
<1>1. CASE PowerLoss
  BY <1>1, PowerImplements
<1>2. CASE Step(q)
  <2>1. ASSUME NEW cmd \in Commands, Start(q, cmd) PROVE Implements(q)
    BY <2>1, StartImplements
  <2>2. CASE Read(q)
    BY <2>2, ExitImplements DEF Read
  <2>3. QED
    BY <1>2, <2>1, <2>2, DumpImplements, ParseImplements, SetImplements,
       DelImplements, ClearImplements, CommitImplements, SaveImplements,
       EraseImplements, WriteImplements DEF Step
<1>3. CASE UNCHANGED vars
  <2>1. CopiesInv(q)'
    BY <1>3 DEF CopiesInv, vars
  <2>2. CacheNow' = CacheNow /\ FlashNow' = FlashNow /\ Progress' = Progress
    BY <1>3 DEF CacheNow, FlashNow, Progress, vars
  <2>3. QED
    BY <2>1, <2>2, StoreStutters DEF Implements
<1>4. QED
  BY <1>1, <1>2, <1>3 DEF Next, Alone

\* The factory contents are a state of the store.
LEMMA InitImplements ==
  ASSUME NEW q, Alone(q), Init
  PROVE  CopiesInv(q) /\ Store!Init
<1>1. proc[q].pc = "idle" /\ Procs = {q} /\ file = NoFile
      /\ flash = InitFlash
  BY DEF Init, Idle, Alone
<1>2. CopiesInv(q)
  BY <1>1 DEF CopiesInv
<1>3. CacheNow = InitFlash /\ FlashNow = InitFlash
      /\ Progress.phase = "ready" /\ Progress.done = 0
  BY <1>1, NowFacts, ProgressFacts
<1>4. Store!Init
  BY <1>3 DEF Store!Init
<1>5. QED
  BY <1>2, <1>4

\* A single command at a time (main_nvram.c) implements the store, for every
\* layout, partition into blocks, limit and file, and wherever the power fails: a
\* set or del changes its own entry and no other, and none of a read-only
\* section, though nvram_commit rewrites every section; a refused command changes
\* nothing, a loadfile replaces the sections up to the first that does not fit,
\* a commit flushes the cache block by block, and after a power loss the cache is
\* the flash, without the block that was being written.
THEOREM StoreRefined ==
  ASSUME NEW q, Alone(q)
  PROVE  Spec => StoreImplemented
<1>1. Init => CopiesInv(q) /\ Store!Init
  BY InitImplements
<1>2. TypeOK /\ TypeOK' /\ CopiesInv(q) /\ [Next]_vars
        => CopiesInv(q)' /\ [Store!Next]_(Store!vars)
  BY NextImplements DEF Implements
<1>3. QED
  BY <1>1, <1>2, TypeCorrect, PTL DEF Spec, StoreImplemented, Store!Spec

-----------------------------------------------------------------------------
(* Entries are whole, where no section is within four bytes of full.       *)

Whole(c) == \A i \in DOMAIN c : c[i].value # Mangled

\* What is written of the section is the section.
Fits(c) == Image(c) = c

\* No section of whole entries is so long that it is only the checksum it has
\* no room for.
RoomForChecksum ==
  \A c \in Seq(Entries) : IsContent(c) /\ Whole(c) =>
     Total(c) >= SIZE \/ ~(CRC + Total(c) > SIZE)

\* The file of loadfile and the factory contents are whole.
WholeContents == \A s \in Sections : Whole(File[s]) /\ Whole(InitFlash[s])

\* What a process holds is whole, and what it has written, or is about to write
\* to the flash, is written as it is.
WholeProc(r) ==
  /\ \A s \in Sections : Whole(r.mem[s])
  /\ r.pc = "save" => \A i \in 1 .. r.at - 1 : Fits(r.mem[Layout[i]])
  /\ r.pc \in {"erase", "write"} => \A s \in Sections : Fits(r.mem[s])

WholeInv ==
  /\ \A s \in Sections : Whole(flash[s])
  /\ file # NoFile => \A s \in Sections : Whole(file[s])
  /\ \A p \in Procs : WholeProc(proc[p])

\* A section nvram_commit does not refuse is written as it is.
LEMMA NotCut ==
  ASSUME RoomForChecksum, NEW c, IsContent(c), Whole(c), ~Exceeds(c)
  PROVE  Fits(c)
<1>1. c \in Seq(Entries)
  BY DEF IsContent
<1>2. ~(CRC + Total(c) > SIZE)
  BY <1>1 DEF RoomForChecksum, Exceeds
<1>3. QED
  BY <1>2 DEF Fits, Image

\* _nvram_buf_set leaves whole entries.
LEMMA SetWhole ==
  ASSUME NEW c, IsContent(c), Whole(c), NEW k, NEW v \in Values
  PROVE  Whole(_nvram_buf_set(c, k, v))
<1>1. c \in Seq(Entries) /\ DOMAIN c = 1 .. Len(c) /\ Len(c) \in Nat
  BY DEF IsContent
<1>2. Entry(k, v).value # Mangled
  BY NvramAssumption DEF Entry
<1>3. CASE Named(c, k) # {}
  BY <1>2, <1>3 DEF _nvram_buf_set, Whole
<1>4. CASE Named(c, k) = {}
  <2> DEFINE d == Append(c, Entry(k, v))
  <2>1. DOMAIN d = 1 .. Len(c) + 1 /\ d[Len(c) + 1] = Entry(k, v)
        /\ \A i \in 1 .. Len(c) : d[i] = c[i]
    BY <1>1
  <2> HIDE DEF d
  <2>2. \A i \in DOMAIN d : i \in 1 .. Len(c) \/ i = Len(c) + 1
    BY <2>1, <1>1
  <2>3. Whole(d)
    BY <1>1, <1>2, <2>1, <2>2 DEF Whole
  <2>4. QED
    BY <1>4, <2>3 DEF _nvram_buf_set, d
<1>5. QED
  BY <1>3, <1>4

\* _nvram_buf_del leaves whole entries.
LEMMA DelWhole ==
  ASSUME NEW c, IsContent(c), Whole(c), NEW k, Named(c, k) # {}
  PROVE  Whole(_nvram_buf_del(c, k))
<1> DEFINE n == CHOOSE i \in Named(c, k) : TRUE
           d == RemoveAt(c, n)
<1>1. c \in Seq(Entries) /\ DOMAIN c = 1 .. Len(c) /\ Len(c) \in Nat
  BY DEF IsContent
<1>2. n \in DOMAIN c
  BY DEF Named
<1> HIDE DEF n
<1>3. /\ DOMAIN d = 1 .. Len(c) - 1
      /\ \A j \in 1 .. Len(c) - 1 : d[j] = IF j < n THEN c[j] ELSE c[j + 1]
  BY <1>2, RemoveContent
<1> HIDE DEF d
<1>4. \A j \in DOMAIN d : \E i \in DOMAIN c : d[j] = c[i]
  <2> SUFFICES ASSUME NEW j \in 1 .. Len(c) - 1
               PROVE  \E i \in 1 .. Len(c) : d[j] = c[i]
    BY <1>1, <1>3
  <2>1. j \in 1 .. Len(c) /\ j + 1 \in 1 .. Len(c)
    BY <1>1
  <2>2. QED
    BY <2>1, <1>3
<1>5. Whole(d)
  BY <1>4 DEF Whole
<1>6. QED
  BY <1>5 DEF _nvram_buf_del, n, d

\* A step of a process leaves the others as they are.
LEMMA OtherProcs ==
  ASSUME TypeOK, NEW p \in Procs, Step(p), NEW r \in Procs \ {p}
  PROVE  proc'[r] = proc[r]
<1>1. proc \in [Procs -> ProcType]
  BY Typed
<1>2. \A cmd : Start(p, cmd) => proc'[r] = proc[r]
  BY <1>1 DEF Start
<1>3. Exit(p) => proc'[r] = proc[r]
  BY <1>1 DEF Exit
<1>4. \A pc : Go(p, pc) => proc'[r] = proc[r]
  BY <1>1 DEF Go
<1>5. Dump(p) \/ nvram_parse(p) \/ CommitOrLoad(p) => proc'[r] = proc[r]
  BY <1>1, <1>4 DEF Dump, nvram_parse, CommitOrLoad
<1>6. nvram_set(p) \/ nvram_del(p) \/ nvram_clear(p) \/ Read(p)
        => proc'[r] = proc[r]
  BY <1>1, <1>3 DEF nvram_set, nvram_del, nvram_clear, Read
<1>7. Save(p) \/ Erase(p) \/ Write(p) => proc'[r] = proc[r]
  BY <1>1, <1>3, <1>4 DEF Save, Erase, Write
<1>8. QED
  BY <1>2, <1>5, <1>6, <1>7 DEF Step

\* What a step of a process has to keep.
LEMMA StepWhole ==
  ASSUME TypeOK, WholeInv, NEW p \in Procs, Step(p),
         WholeProc(proc'[p]),
         \A s \in Sections : Whole(flash'[s]),
         file' # NoFile => \A s \in Sections : Whole(file'[s])
  PROVE  WholeInv'
<1>1. \A r \in Procs : WholeProc(proc'[r])
  BY OtherProcs DEF WholeInv
<1>2. QED
  BY <1>1 DEF WholeInv

\* A command that has ended holds nothing.
LEMMA IdleWhole == WholeProc(Idle)
BY DEF WholeProc, Whole, Idle, NoCache

\* A command that ends.
LEMMA ExitWhole ==
  ASSUME TypeOK, NEW p \in Procs, Exit(p)
  PROVE  WholeProc(proc'[p])
<1>1. proc'[p] = Idle
  BY Typed DEF Exit
<1>2. QED
  BY <1>1, IdleWhole

\* main and nvram_filecache.
LEMMA StartWhole ==
  ASSUME TypeOK, WholeInv, NEW p \in Procs, NEW cmd \in Commands,
         Start(p, cmd)
  PROVE  WholeInv'
<1>1. /\ proc'[p].mem = NoCache /\ proc'[p].pc \in {"dump", "parse"}
      /\ flash' = flash /\ (file' = NoCache \/ file' = file)
  BY Typed DEF Start
<1>2. \A s \in Sections : Whole(NoCache[s])
  BY DEF NoCache, Whole
<1>3. WholeProc(proc'[p])
  BY <1>1, <1>2 DEF WholeProc
<1>4. QED
  BY <1>1, <1>2, <1>3, StepWhole DEF WholeInv, Step

\* nvram_filecache reads a section of the flash.
LEMMA DumpWhole ==
  ASSUME TypeOK, WholeInv, NEW p \in Procs, Dump(p)
  PROVE  WholeInv'
<1> DEFINE t == Layout[proc[p].at]
<1>1. /\ flash' = flash /\ file # NoFile /\ IsContents(file)
      /\ file' = [file EXCEPT ![t] = flash[t]]
      /\ proc[p].pc = "dump" /\ proc[p].at \in DOMAIN Layout
  BY Typed DEF Dump, ProcOK
<1>2. t \in Sections
  BY <1>1, SectionsFacts
<1>3. \A s \in Sections : file'[s] = IF s = t THEN flash[s] ELSE file[s]
  BY <1>1 DEF IsContents
<1>4. proc'[p].mem = proc[p].mem /\ proc'[p].pc \in {"dump", "parse"}
  BY <1>1, Typed DEF Dump, Go, ProcType
<1>5. WholeProc(proc'[p])
  BY <1>4 DEF WholeProc, WholeInv
<1>6. QED
  BY <1>1, <1>3, <1>5, StepWhole DEF WholeInv, Step

\* nvram_parse reads the cache file.
LEMMA ParseWhole ==
  ASSUME TypeOK, WholeInv, NEW p \in Procs, nvram_parse(p)
  PROVE  WholeInv'
<1>1. /\ UNCHANGED <<flash, file>> /\ file # NoFile
      /\ proc'[p].mem = file /\ proc'[p].pc = "run"
  BY Typed DEF nvram_parse, ProcType, ProcOK
<1>2. WholeProc(proc'[p])
  BY <1>1 DEF WholeProc, WholeInv
<1>3. QED
  BY <1>1, <1>2, StepWhole DEF WholeInv, Step

\* A command goes on to nvram_commit with whole entries.
LEMMA ToSaveWhole ==
  ASSUME TypeOK, WholeInv, NEW p \in Procs, Step(p), NEW m, ToSave(p, m),
         \A s \in Sections : Whole(m[s])
  PROVE  WholeInv'
<1>1. /\ UNCHANGED <<flash, file>>
      /\ proc'[p].mem = m /\ proc'[p].pc = "save" /\ proc'[p].at = 1
  BY Typed DEF ToSave, ProcType
<1>2. WholeProc(proc'[p])
  BY <1>1 DEF WholeProc
<1>3. QED
  BY <1>1, <1>2, StepWhole DEF WholeInv

\* nvram_set.
LEMMA SetStepWhole ==
  ASSUME TypeOK, WholeInv, NEW p \in Procs, nvram_set(p)
  PROVE  WholeInv'
<1> DEFINE c == proc[p].cmd
           m == proc[p].mem
           n == [m EXCEPT ![c.s] = _nvram_buf_set(m[c.s], c.k, c.v)]
<1>1. /\ proc[p].pc = "run" /\ c.op = "set" /\ UNCHANGED <<flash, file>>
      /\ proc \in [Procs -> ProcType] /\ ProcOK(p) /\ Step(p)
      /\ \A s \in Sections : Whole(m[s])
  BY Typed DEF nvram_set, WholeInv, WholeProc, Step
<1>2. c.s \in Sections /\ c.v \in Values /\ IsContents(m)
      /\ DOMAIN m = Sections
  BY <1>1, CommandsAssumption DEF ProcOK, IsContents
<1>3. CASE Exit(p)
  BY <1>1, <1>3, ExitWhole, StepWhole DEF WholeInv
<1>4. CASE proc' = [proc EXCEPT ![p].pc = "save", ![p].at = 1,
                      ![p].mem[c.s] = _nvram_buf_set(m[c.s], c.k, c.v)]
  <2>1. ToSave(p, n)
    BY <1>1, <1>4 DEF ToSave
  <2>2. Whole(_nvram_buf_set(m[c.s], c.k, c.v))
    BY <1>1, <1>2, SetWhole DEF IsContents
  <2>3. \A s \in Sections : Whole(n[s])
    BY <1>1, <1>2, <2>2
  <2> HIDE DEF n
  <2>4. QED
    BY <1>1, <2>1, <2>3, ToSaveWhole
<1>5. QED
  BY <1>3, <1>4 DEF nvram_set

\* nvram_del.
LEMMA DelStepWhole ==
  ASSUME TypeOK, WholeInv, NEW p \in Procs, nvram_del(p)
  PROVE  WholeInv'
<1> DEFINE c == proc[p].cmd
           m == proc[p].mem
           n == [m EXCEPT ![c.s] = _nvram_buf_del(m[c.s], c.k)]
<1>1. /\ proc[p].pc = "run" /\ c.op = "del" /\ UNCHANGED <<flash, file>>
      /\ proc \in [Procs -> ProcType] /\ ProcOK(p) /\ Step(p)
      /\ \A s \in Sections : Whole(m[s])
  BY Typed DEF nvram_del, WholeInv, WholeProc, Step
<1>2. c.s \in Sections /\ IsContents(m) /\ DOMAIN m = Sections
  BY <1>1, CommandsAssumption DEF ProcOK, IsContents
<1>3. CASE Exit(p)
  BY <1>1, <1>3, ExitWhole, StepWhole DEF WholeInv
<1>4. CASE /\ ~DelRefused(c.s, m[c.s], c.k)
           /\ proc' = [proc EXCEPT ![p].pc = "save", ![p].at = 1,
                         ![p].mem[c.s] = _nvram_buf_del(m[c.s], c.k)]
  <2>1. ToSave(p, n)
    BY <1>1, <1>4 DEF ToSave
  <2>2. Named(m[c.s], c.k) # {}
    BY <1>4 DEF DelRefused
  <2>3. Whole(_nvram_buf_del(m[c.s], c.k))
    BY <1>1, <1>2, <2>2, DelWhole DEF IsContents
  <2>4. \A s \in Sections : Whole(n[s])
    BY <1>1, <1>2, <2>3
  <2> HIDE DEF n
  <2>5. QED
    BY <1>1, <2>1, <2>4, ToSaveWhole
<1>5. QED
  BY <1>3, <1>4 DEF nvram_del

\* nvram_clear.
LEMMA ClearWhole ==
  ASSUME TypeOK, WholeInv, NEW p \in Procs, nvram_clear(p)
  PROVE  WholeInv'
<1> DEFINE t == proc[p].cmd.s
<1>1. /\ Exit(p) /\ flash' = flash /\ file # NoFile /\ IsContents(file)
      /\ file' = file \/ file' = [file EXCEPT ![t] = <<>>]
  BY Typed DEF nvram_clear, ProcOK
<1>2. \A s \in Sections : file'[s] = file[s] \/ file'[s] = <<>>
  BY <1>1 DEF IsContents
<1>3. Whole(<<>>)
  BY DEF Whole
<1>4. \A s \in Sections : Whole(file'[s])
  BY <1>1, <1>2, <1>3 DEF WholeInv
<1>5. QED
  BY <1>1, <1>4, ExitWhole, StepWhole DEF WholeInv, Step

\* commit and loadfile.
LEMMA CommitWhole ==
  ASSUME TypeOK, WholeInv, WholeContents, NEW p \in Procs, CommitOrLoad(p)
  PROVE  WholeInv'
<1> DEFINE n == IF proc[p].cmd.op = "loadfile" THEN File ELSE proc[p].mem
<1>1. ToSave(p, n) /\ Step(p)
  BY DEF CommitOrLoad, ToSave, Step
<1>2. \A s \in Sections : Whole(n[s])
  BY DEF WholeInv, WholeProc, WholeContents
<1> HIDE DEF n
<1>3. QED
  BY <1>1, <1>2, ToSaveWhole

\* nvram_commit writes a section it does not refuse.
LEMMA SaveWhole ==
  ASSUME TypeOK, WholeInv, RoomForChecksum, NEW p \in Procs, Save(p)
  PROVE  WholeInv'
<1> DEFINE n == proc[p].at
           m == proc[p].mem
           t == Layout[n]
<1>1. /\ Step(p) /\ flash' = flash /\ file # NoFile /\ IsContents(file)
      /\ IsContents(m) /\ proc[p].pc = "save" /\ n \in DOMAIN Layout
      /\ \A s \in Sections : Whole(m[s])
      /\ \A i \in 1 .. n - 1 : Fits(m[Layout[i]])
  BY Typed DEF Save, ProcOK, Step, WholeInv, WholeProc
<1>2. n \in 1 .. Len(Layout) /\ Len(Layout) \in Nat /\ t \in Sections
      /\ \A i \in 1 .. Len(Layout) : Layout[i] \in Sections
  BY <1>1, SectionsFacts
<1>3. CASE Exit(p) /\ UNCHANGED file
  BY <1>1, <1>3, ExitWhole, StepWhole DEF WholeInv
<1>4. CASE /\ ~Exceeds(m[t])
           /\ file' = [file EXCEPT ![t] = Image(m[t])]
  <2>1. Fits(m[t])
    BY <1>1, <1>2, <1>4, NotCut DEF IsContents
  <2>2. \A s \in Sections : file'[s] = IF s = t THEN m[s] ELSE file[s]
    BY <1>1, <1>4, <2>1 DEF IsContents, Fits
  <2>3. \A s \in Sections : Whole(file'[s])
    BY <1>1, <2>2 DEF WholeInv
  <2>4. \A i \in 1 .. (n + 1) - 1 : Fits(m[Layout[i]])
    <3> SUFFICES ASSUME NEW i \in 1 .. (n + 1) - 1
                 PROVE  Fits(m[Layout[i]])
      OBVIOUS
    <3>1. i \in 1 .. n - 1 \/ i = n
      BY <1>2
    <3>2. QED
      BY <3>1, <1>1, <2>1
  <2>5. CASE proc' = [proc EXCEPT ![p].at = proc[p].at + 1]
    <3>1. /\ proc'[p].pc = "save" /\ proc'[p].at = n + 1
          /\ proc'[p].mem = m
      BY <1>1, <2>5, Typed DEF ProcType
    <3>2. WholeProc(proc'[p])
      BY <1>1, <2>4, <3>1 DEF WholeProc
    <3>3. QED
      BY <1>1, <2>3, <3>2, StepWhole DEF WholeInv
  <2>6. CASE Go(p, "erase") /\ ~(n < Len(Layout))
    <3>1. proc'[p].pc = "erase" /\ proc'[p].mem = m
      BY <1>1, <2>6, Typed DEF ProcType, Go
    <3>2. \A s \in Sections : Fits(m[s])
      <4>1. n = Len(Layout)
        BY <1>2, <2>6
      <4>2. QED
        BY <4>1, <1>2, <2>4, SectionsFacts
    <3>3. WholeProc(proc'[p])
      BY <1>1, <3>1, <3>2 DEF WholeProc
    <3>4. QED
      BY <1>1, <2>3, <3>3, StepWhole DEF WholeInv
  <2>7. CASE Exit(p)
    BY <1>1, <2>3, <2>7, ExitWhole, StepWhole DEF WholeInv
  <2>8. QED
    BY <1>3, <2>5, <2>6, <2>7 DEF Save
<1>5. QED
  BY <1>3, <1>4 DEF Save

\* flash_write erases a block.
LEMMA EraseWhole ==
  ASSUME TypeOK, WholeInv, NEW p \in Procs, Erase(p)
  PROVE  WholeInv'
<1>1. /\ Step(p) /\ file' = file /\ proc[p].pc = "erase"
      /\ \A s \in Sections : Whole(flash[s])
      /\ file # NoFile => \A s \in Sections : Whole(file[s])
  BY DEF Erase, Step, WholeInv
<1>2. CASE Exit(p) /\ UNCHANGED flash
  BY <1>1, <1>2, ExitWhole, StepWhole
<1>3. CASE /\ flash' = [s \in Sections |->
                         IF s \in Blocks[proc[p].at] THEN <<>> ELSE flash[s]]
           /\ proc' = [proc EXCEPT ![p].pc = "write"]
  <2>1. proc'[p].pc = "write" /\ proc'[p].mem = proc[p].mem
    BY <1>3, Typed DEF ProcType
  <2>2. WholeProc(proc'[p])
    BY <1>1, <2>1 DEF WholeProc, WholeInv
  <2>3. \A s \in Sections : flash'[s] = <<>> \/ flash'[s] = flash[s]
    BY <1>3
  <2>4. \A s \in Sections : Whole(flash'[s])
    BY <1>1, <2>3 DEF Whole
  <2>5. QED
    BY <1>1, <2>2, <2>4, StepWhole
<1>4. QED
  BY <1>2, <1>3 DEF Erase

\* flash_write writes a block.
LEMMA WriteWhole ==
  ASSUME TypeOK, WholeInv, NEW p \in Procs, Write(p)
  PROVE  WholeInv'
<1>1. /\ Step(p) /\ file' = file /\ proc[p].pc = "write"
      /\ \A s \in Sections : Whole(flash[s])
      /\ file # NoFile => \A s \in Sections : Whole(file[s])
      /\ \A s \in Sections : Whole(proc[p].mem[s]) /\ Fits(proc[p].mem[s])
  BY DEF Write, Step, WholeInv, WholeProc
<1>2. \A s \in Sections : Whole(flash'[s])
  <2>1. \A s \in Sections :
          flash'[s] = Image(proc[p].mem[s]) \/ flash'[s] = flash[s]
    BY DEF Write
  <2>2. QED
    BY <2>1, <1>1 DEF Fits
<1>3. CASE Exit(p)
  BY <1>1, <1>2, <1>3, ExitWhole, StepWhole
<1>4. CASE proc' = [proc EXCEPT ![p].pc = "erase", ![p].at = proc[p].at + 1]
  <2>1. proc'[p].pc = "erase" /\ proc'[p].mem = proc[p].mem
    BY <1>4, Typed DEF ProcType
  <2>2. WholeProc(proc'[p])
    BY <1>1, <2>1 DEF WholeProc
  <2>3. QED
    BY <1>1, <1>2, <2>2, StepWhole
<1>5. QED
  BY <1>3, <1>4 DEF Write

\* Every step.
LEMMA NextWhole ==
  ASSUME RoomForChecksum, WholeContents, TypeOK, WholeInv, [Next]_vars
  PROVE  WholeInv'
<1>1. CASE PowerLoss
  <2>1. \A p \in Procs : proc'[p] = Idle
    BY <1>1 DEF PowerLoss
  <2>2. file' = NoFile /\ flash' = flash
    BY <1>1 DEF PowerLoss
  <2>3. QED
    BY <2>1, <2>2, IdleWhole DEF WholeInv
<1>2. ASSUME NEW p \in Procs, Step(p) PROVE WholeInv'
  <2>1. ASSUME NEW cmd \in Commands, Start(p, cmd) PROVE WholeInv'
    BY <2>1, StartWhole
  <2>2. CASE Read(p)
    BY <1>2, <2>2, ExitWhole, StepWhole DEF Read, WholeInv
  <2>3. QED
    BY <1>2, <2>1, <2>2, DumpWhole, ParseWhole, SetStepWhole, DelStepWhole,
       ClearWhole, CommitWhole, SaveWhole, EraseWhole, WriteWhole DEF Step
<1>3. CASE UNCHANGED vars
  BY <1>3 DEF vars, WholeInv
<1>4. QED
  BY <1>1, <1>2, <1>3 DEF Next

\* nvram_commit compares with an end mark that is past the checksum, so it cuts
\* a section off only in the four bytes between the two limits: where no section
\* of whole entries has such a length, every entry of the cache file stays whole,
\* for any number of processes, blocks and power losses.
THEOREM EntriesStayWhole ==
  ASSUME RoomForChecksum, WholeContents
  PROVE  Spec => []EntriesWhole
<1>1. Init => WholeInv
  BY IdleWhole DEF Init, WholeInv, WholeContents
<1>2. TypeOK /\ WholeInv /\ [Next]_vars => WholeInv'
  BY NextWhole
<1>3. WholeInv => EntriesWhole
  BY DEF WholeInv, EntriesWhole, Whole
<1>4. QED
  BY <1>1, <1>2, <1>3, TypeCorrect, PTL DEF Spec
=============================================================================
