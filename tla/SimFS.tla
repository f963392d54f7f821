------------------------------- MODULE SimFS -------------------------------
(***************************************************************************)
(* The simulated inode/zone filesystem of src/fs/fs.c, driven by the shell *)
(* commands of src/kernel/cli.c.                                           *)
(*                                                                         *)
(* The disk is RAM.  Block 1 holds the superblock with both bitmaps (sb),  *)
(* block 2 the inode table (table).  Everything else lives in the first    *)
(* block of a zone, block zone << 1, and the second block of a zone is     *)
(* never written, so disk is indexed by zone.  Zone 0 starts at block 0,   *)
(* the boot block; the root inode is never given a zone, its zones[0]      *)
(* stays 0, and so the boot block holds the root directory.                *)
(*                                                                         *)
(* Strings.  A name is a string value, "" the name of an unused slot.  A   *)
(* file holds one typed word of Texts, of up to four characters, or        *)
(* nothing; LinkOf is what its first four bytes are as an inode number.    *)
(* lit is what the string literal "" of fs.c contains: read_file appends   *)
(* to that literal, and all uses of "" in fs.c are one object, so lit is   *)
(* the concatenation of what was read so far.                              *)
(*                                                                         *)
(* The code checks no capacity.  A command that would index past the inode *)
(* table copy, past a directory block or past the bitmap scan leaves       *)
(* defined behaviour: CreateOverrun and FollowOverrun set wild, and        *)
(* nothing is said of the machine from there on.                           *)
(***************************************************************************)
EXTENDS Integers, Sequences

CONSTANTS
  Names,       \* names a user types as an argument
  Texts,       \* contents a user types, words of up to four characters
  LinkOf,      \* a text -> the link a reader of directories takes it for
  InodeSlots,  \* inodes in block 2:         BLOCK_SIZE / sizeof(inode_t) = 42
  DirSlots,    \* entries in a block:        BLOCK_SIZE / sizeof(dir_entry_t) = 36
  ZoneScan,    \* zones allocate_zone scans: ZONE_BITMAP_SIZE = 256
  MaxLit       \* bound: words appended to the literal ""

Empty  == ""  \* the empty string
Inodes == 0 .. InodeSlots - 1
Slots  == 0 .. DirSlots - 1
Zones  == 0 .. ZoneScan - 1

\* A link past every inode in the table: what a word of letters is as a number.
TextLink  == InodeSlots
\* What strcat copies from a directory block: one byte, the first link.
InodeByte == "#"

ASSUME FsAssumption ==
  /\ InodeSlots \in Nat /\ InodeSlots > 0
  /\ DirSlots \in Nat /\ DirSlots > 2
  /\ ZoneScan \in Nat /\ ZoneScan > 1
  /\ MaxLit \in Nat
  /\ LinkOf \in [Texts -> (Inodes \ {0}) \cup {TextLink}]
  /\ Empty \notin Texts

Args      == Names \cup {Empty, ".", ".."}
UserNames == Names \ {Empty, ".", ".."}

Entry == [link : Inodes \cup {TextLink}, name : Args]
Block == [text : Texts \cup {Empty}, ents : [Slots -> Entry]]
Inode == [mode : {"none", "dir", "reg"}, zone : Zones,
          links : 0 .. DirSlots, size : 0 .. DirSlots]

NoEntry    == [link |-> 0, name |-> Empty]
BlankBlock == [text |-> Empty, ents |-> [k \in Slots |-> NoEntry]]
NoInode    == [mode |-> "none", zone |-> 0, links |-> 0, size |-> 0]

VARIABLES
  sb,     \* block 1: the inode bitmap and the zone bitmap, as sets of set bits
  table,  \* block 2: the inode table
  disk,   \* zone -> its first block
  cwd,    \* current_dir_id
  count,  \* current_num_inode
  lit,    \* contents of the literal ""
  wild    \* defined behaviour has been left

vars == <<sb, table, disk, cwd, count, lit, wild>>

TypeOK ==
  /\ sb \in [inodes : SUBSET Inodes, zones : SUBSET Zones]
  /\ table \in [Inodes -> Inode]
  /\ disk \in [Zones -> Block]
  /\ cwd \in Inodes \cup {TextLink}
  /\ count \in Nat
  /\ lit \in Seq(Texts \cup {InodeByte})
  /\ wild \in BOOLEAN

\* setup_fs and mount_sim_fs on zeroed RAM.  Bits 0 and 1 of the zone bitmap
\* cover blocks 0-3; no inode, not even the root's, is marked used.
Init ==
  /\ sb = [inodes |-> {}, zones |-> {0, 1}]
  /\ table = [i \in Inodes |-> NoInode]
  /\ disk = [z \in Zones |-> BlankBlock]
  /\ cwd = 0
  /\ count = 0
  /\ lit = <<>>
  /\ wild = FALSE

-----------------------------------------------------------------------------
\* Looking things up.

DirBlock(d) == disk[table[d].zone]
Here        == DirBlock(cwd)

\* Mutant of FirstNamed: the loop without its break.
LastNamed(b, k, n) ==
  /\ b.ents[k].name = n
  /\ \A j \in k + 1 .. DirSlots - 1 : b.ents[j].name # n

\* Slot k of block b is the one a strcmp loop over the entries stops at.
FirstNamed(b, k, n) ==
  /\ b.ents[k].name = n
  /\ \A j \in 0 .. k - 1 : b.ents[j].name # n

\* The inode the name n leads to from directory d: a set of at most one.
Resolve(d, n) ==
  {DirBlock(d).ents[k].link : k \in {j \in Slots : FirstNamed(DirBlock(d), j, n)}}

\* strcmp of a name with the literal "", whatever that contains by now.
EqualsLit(n) == IF n = Empty THEN lit = <<>> ELSE lit = <<n>>

\* list_dir leaves a NULL where a name equals the literal "", and ls and
\* write read the list up to its first NULL.
Listed(k) == \A j \in 0 .. k : ~ EqualsLit(Here.ents[j].name)
ListHas(n) == \E k \in Slots : Listed(k) /\ Here.ents[k].name = n

BlockString(b) ==
  IF b.text # Empty THEN <<b.text>>
  ELSE IF b.ents[0].link # 0 THEN <<InodeByte>> ELSE <<>>

\* The zones of inode i that read_file concatenates (a zone 0 is skipped).
FileString(i) == IF table[i].zone = 0 THEN <<>> ELSE BlockString(DirBlock(i))

\* get_inode_name(current_dir_id): "/" for the root, else the name of the
\* first entry of the parent that links to it; {} is the NULL result.
CwdParent == IF Resolve(cwd, "..") = {} THEN 0 ELSE CHOOSE p \in Resolve(cwd, "..") : TRUE
CwdName ==
  IF cwd = 0 THEN {"/"}
  ELSE {DirBlock(CwdParent).ents[k].name :
          k \in {j \in Slots : /\ DirBlock(CwdParent).ents[j].link = cwd
                               /\ \A i \in 0 .. j - 1 :
                                    DirBlock(CwdParent).ents[i].link # cwd}}

-----------------------------------------------------------------------------
\* Writing.

\* allocate_zone takes the first clear bit.
FirstFree(z) == z \notin sb.zones /\ 0 .. z - 1 \subseteq sb.zones

PutEntry(b, k, e) ==
  [text |-> IF k = 0 THEN Empty ELSE b.text, ents |-> [b.ents EXCEPT ![k] = e]]

\* Mutant of DotEntries: every ".." leads to the root.
DotEntriesToRoot(b, ino, parent) ==
  PutEntry(PutEntry(b, 0, [link |-> ino, name |-> "."]),
           1, [link |-> 0, name |-> ".."])

\* A new directory's block: read from its zone, entries 0 and 1 overwritten.
DotEntries(b, ino, parent) ==
  PutEntry(PutEntry(b, 0, [link |-> ino, name |-> "."]),
           1, [link |-> parent, name |-> ".."])

\* A block of text, as the directory code would see it: one character below
\* '*' is the number of an inode of the table, made or not.
TextBlock(t) ==
  [text |-> t,
   ents |-> [k \in Slots |-> [link |-> IF k = 0 THEN LinkOf[t] ELSE 0, name |-> Empty]]]

NeedsZone(mode, text) == mode = "dir" \/ text # Empty

\* Where defined behaviour ends: the code tests none of this.  Every index
\* create_file and create_dir use is inside its array; an inode that is its
\* own parent, cd having followed a number to it, counts its entries afresh.
CreateFits(mode, text) ==
  /\ cwd \in Inodes
  /\ count + 1 \in Inodes
  /\ cwd = count + 1 \/ table[cwd].links \in Slots
  /\ NeedsZone(mode, text) => \E z \in Zones : FirstFree(z)

\* Mutants of Marked: the bit of the previous inode, or of the next; no write
\* of the zone bit.
MarkedLate(ino, zones) ==
  [inodes |-> sb.inodes \cup {ino + 1}, zones |-> sb.zones \cup zones]
MarkedEarly(ino, zones) ==
  [inodes |-> sb.inodes \cup {ino - 1}, zones |-> sb.zones \cup zones]
MarkedInodeOnly(ino, zones) == [sb EXCEPT !.inodes = @ \cup {ino}]

\* The superblock with the bits allocate_inode and allocate_zone set.
Marked(ino, zones) ==
  [inodes |-> sb.inodes \cup {ino}, zones |-> sb.zones \cup zones]

\* Mutant of NewInode: a new directory counts one entry.
NewInodeOneLink(mode, ino, zone) ==
  [mode |-> mode, zone |-> zone, links |-> 1, size |-> 0]

\* The inode allocate_inode fills in, given the zone it allocated (if any).
NewInode(mode, ino, zone) ==
  [mode |-> mode, zone |-> zone,
   links |-> IF mode = "dir" THEN 2 ELSE 1, size |-> 0]

\* The parent's entry goes to slot num_links, which then counts it.
LinkUnder(t, d) == [t EXCEPT ![d].links = @ + 1, ![d].size = @ + 1]

\* What allocate_inode writes to the zone it allocated, which held b.
FirstBlock(mode, b, ino, text) ==
  IF mode = "dir" THEN DotEntries(b, ino, cwd) ELSE TextBlock(text)

\* create_file and create_dir, with allocate_inode: the new inode and its
\* zone (z, if it needs one), the parent's inode, then the parent's block.
Create(mode, name, text) ==
  LET ino  == count + 1
      t(z) == [table EXCEPT ![ino] = NewInode(mode, ino, z)]
      EnterIn(d, parent) ==
        [d EXCEPT ![parent.zone] = PutEntry(@, parent.links, [link |-> ino, name |-> name])]
  IN
  /\ CreateFits(mode, text)
  /\ count' = ino
  /\ \E z \in Zones :
       /\ table' = LinkUnder(t(z), cwd)
       /\ \/ /\ ~ NeedsZone(mode, text)
             /\ z = table[ino].zone
             /\ sb' = Marked(ino, {})
             /\ disk' = EnterIn(disk, t(z)[cwd])
          \/ /\ NeedsZone(mode, text)
             /\ FirstFree(z)
             /\ sb' = Marked(ino, {z})
             /\ disk' = EnterIn([disk EXCEPT ![z] = FirstBlock(mode, @, ino, text)], t(z)[cwd])
  /\ UNCHANGED <<cwd, lit, wild>>

\* A create that leaves its arrays, in the inode table, the directory's block
\* or the zone bitmap, has counted its inode all the same.
CreateOverrun ==
  /\ ~ CreateFits("dir", Empty)
  /\ count' = count + 1
  /\ wild' = TRUE
  /\ UNCHANGED <<sb, table, disk, cwd, lit>>

-----------------------------------------------------------------------------
\* The commands.

Mkdir(n) == Create("dir", n, Empty)

Touch(n) == Create("reg", n, Empty)

\* write creates the file unless it finds the name in the listing.
Write(n, t) ==
  /\ cwd \in Inodes
  /\ ~ ListHas(n)
  /\ Create("reg", n, t)

\* write with a name alone: the text is the string at address 0, whatever low
\* memory holds there.
WriteNothing(n) == \E t \in Texts \cup {Empty} : Write(n, t)

\* cd follows the first entry with that name, whatever it is the name of.
ChangeDir(n) ==
  /\ cwd \in Inodes
  /\ \E k \in Slots : FirstNamed(Here, k, n) /\ cwd' = Here.ents[k].link
  /\ UNCHANGED <<sb, table, disk, count, lit, wild>>

\* cat: read_file appends the zones of the file to the literal "".
Cat(n) ==
  /\ cwd \in Inodes
  /\ \E k \in Slots :
       /\ FirstNamed(Here, k, n)
       /\ Here.ents[k].link \in Inodes
       /\ lit' = lit \o FileString(Here.ents[k].link)
  /\ Len(lit') <= MaxLit
  /\ UNCHANGED <<sb, table, disk, cwd, count, wild>>

\* write_file (no command calls it): every entry with that name has its
\* first zone replaced.
WriteFile(n, t) ==
  LET hit == {k \in Slots : Here.ents[k].name = n} IN
  /\ cwd \in Inodes
  /\ \A k \in hit : Here.ents[k].link \in Inodes
  /\ disk' = [z \in Zones |-> IF \E k \in hit : table[Here.ents[k].link].zone = z
                              THEN TextBlock(t) ELSE disk[z]]
  /\ UNCHANGED <<sb, table, cwd, count, lit, wild>>

\* A command that looks up an inode outside the table: with such a number for
\* the current directory, or on a link found in a block of text (ls follows
\* the links of all it lists, cat and write_file those of the name they look
\* for).
FollowOverrun ==
  /\ cwd \in Inodes => \E k \in Slots : Here.ents[k].link \notin Inodes
  /\ wild' = TRUE
  /\ UNCHANGED <<sb, table, disk, cwd, count, lit>>

\* Whatever is typed at the prompt.
Shell ==
  \/ \E n \in Names : Mkdir(n) \/ Touch(n) \/ WriteNothing(n) \/ \E t \in Texts : Write(n, t)
  \/ \E n \in Args : ChangeDir(n) \/ Cat(n)
  \/ CreateOverrun \/ FollowOverrun

\* The commands used as the README lists them: things have names, write has a
\* text, and cd is given a directory.
AsDocumented ==
  \/ \E n \in UserNames : Mkdir(n) \/ Touch(n) \/ \E t \in Texts : Write(n, t)
  \/ \E n \in Args : /\ \A i \in Resolve(cwd, n) : i = 0 \/ table[i].mode = "dir"
                     /\ ChangeDir(n)
  \/ \E n \in Args : Cat(n)
  \/ CreateOverrun \/ FollowOverrun

\* The shell, plus the calls of fs.h that no command makes.
Api == Shell \/ \E n \in Args, t \in Texts : WriteFile(n, t)

NextShell  == ~ wild /\ Shell
NextReadme == ~ wild /\ AsDocumented
NextApi    == ~ wild /\ Api

Spec       == Init /\ [][NextShell]_vars
SpecReadme == Init /\ [][NextReadme]_vars
SpecApi    == Init /\ [][NextApi]_vars

-----------------------------------------------------------------------------
\* What holds of every sequence of calls, cd into a file included.

\* Two inodes never share a zone and the zone bitmap marks exactly the zones
\* in use: allocate_zone never hands out a zone twice, nor the superblock's
\* or the inode table's, although the bitmap goes through a stack copy.
ZoneOwnership ==
  /\ sb.zones = {0, 1} \cup {table[i].zone : i \in Inodes}
  /\ \A i \in Inodes : table[i].zone # 1
  /\ \A i, j \in Inodes : table[i].zone = table[j].zone => i = j \/ table[i].zone = 0

\* The counter current_num_inode, the inode bitmap and the modes in the
\* table, written by three different statements, always tell the same story;
\* the counter runs ahead only in a create that leaves the table behind.
InodesAgree ==
  /\ ~ wild => sb.inodes = 1 .. count
  /\ \A i \in Inodes : table[i].mode # "none" <=> i \in sb.inodes

\* A zone that is free holds zeroes.  allocate_inode relies on it: it reads
\* the block of a new directory and overwrites two entries only.
FreeZonesBlank == \A z \in Zones \ sb.zones : disk[z] = BlankBlock

-----------------------------------------------------------------------------
\* What holds as long as cd is given directories.

Dirs == {i \in Inodes : i = 0 \/ table[i].mode = "dir"}
FirstChild(d) == IF d = 0 THEN 0 ELSE 2
ChildSlots(d) == {k \in Slots : FirstChild(d) <= k /\ k < table[d].links}

\* Where inode i is entered: directory and slot, the dot entries aside.
Homes(i) == {p \in Dirs \X Slots : /\ DirBlock(p[1]).ents[p[2]].link = i
                                   /\ p[2] \in ChildSlots(p[1])}

\* num_links doubles as the append cursor of a directory: the slots below it
\* are in use, those from it on were never written, so that no create
\* overwrites an entry and a scan for the first blank name stops there.
AppendCursor ==
  \A d \in Dirs, k \in Slots :
    IF k < table[d].links THEN DirBlock(d).ents[k].name # Empty
                          ELSE DirBlock(d).ents[k] = NoEntry

\* Every inode but the root is entered in exactly one directory, one made
\* before it; a directory's "." leads to itself and its ".." to the directory
\* that holds it: cd .. undoes cd.
TreeShape ==
  \A i \in sb.inodes : \E p \in Homes(i) :
    /\ Homes(i) = {p}
    /\ p[1] < i
    /\ table[i].mode = "dir" => Resolve(i, ".") = {i} /\ Resolve(i, "..") = {p[1]}

\* pwd and the prompt always find a name to print, the one the current
\* directory was made with: get_inode_name never returns NULL.
PwdResolves ==
  cwd # 0 => \A p \in Homes(cwd) : CwdName = {DirBlock(p[1]).ents[p[2]].name}

\* The tree that the inodes and directory blocks represent.
NodeOf(i) ==
  LET p == CHOOSE q \in Homes(i) : TRUE IN
  [kind |-> table[i].mode, name |-> DirBlock(p[1]).ents[p[2]].name, parent |-> p[1],
   text |-> IF table[i].zone = 0 THEN Empty ELSE DirBlock(i).text]

Tree == INSTANCE DirTree WITH Names <- UserNames,
                              nodes <- [i \in sb.inodes |-> NodeOf(i)], here <- cwd

\* The shell implements the growing tree: each command adds one node under the
\* current directory, or moves to the first child of the name, to the parent
\* or to the root, and changes nothing that was there.
ImplementsTree == Tree!Spec

-----------------------------------------------------------------------------
\* What the documentation says and the code does not do.

\* README.md:34, "cat <file> -- print file contents": what read_file returns,
\* the literal it appended to, is the content of the file.
CatPrintsFile ==
  [][\A n \in Names : Cat(n) => \A i \in Resolve(cwd, n) :
       table[i].mode = "reg" => lit' = FileString(i)]_vars
=============================================================================
