------------------------------ MODULE MCNvram -------------------------------
(* Small instances of Nvram for TLC.                                       *)
EXTENDS Nvram, TLC

CONSTANTS p1, p2

\* A read-only section, as uboot's, and two that may be written
Layout3 == <<"uboot", "test1", "test2">>
Uboot == {"uboot"}

\* Two values whose entries are long enough to fill a section
Lengths == "v" :> 3 @@ "w" :> 9 @@ Mangled :> 9

Factory == [s \in Sections |-> IF s = "uboot" THEN <<Entry("k", "v")>> ELSE <<>>]
FileDefault == [s \in Sections |-> <<Entry("l", "v")>>]
\* A file whose last section does not fit
FileLong == [s \in Sections |->
   IF s = "test2" THEN <<Entry("k", "w"), Entry("l", "w")>> ELSE <<Entry("l", "v")>>]

\* Config is one erase block
OneBlock == <<Sections>>

Sets == [op : {"set"}, s : {"uboot", "test1"}, k : Keys, v : Values]
Dels == [op : {"del"}, s : {"uboot", "test1"}, k : {"k"}]
SetOne == [op : {"set"}, s : {"test1"}, k : Keys, v : {"v"}]
Commits == {[op |-> "commit"]}
Clears == [op : {"clear"}, s : {"test1", "uboot"}]
Loads == [op : {"loadfile"}, s : {"test1"}]
Reads == {[op |-> "get"]}

AllCommands == Sets \cup Dels \cup Commits \cup Clears \cup Loads \cup Reads
=============================================================================
