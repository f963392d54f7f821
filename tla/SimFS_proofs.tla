---------------------------- MODULE SimFS_proofs ----------------------------
(***************************************************************************)
(* Proofs about SimFS: what holds of every sequence of filesystem calls,   *)
(* for every number of inodes, directory slots and zones.                  *)
(***************************************************************************)
EXTENDS SimFS, TLAPS

\* The strengthening.  allocate_inode leaves zones[0] of an empty file as it
\* finds it, so an inode not yet made must own no zone; file_size and num_links
\* grow together, which is what bounds the first.  The marked inodes stay a run
\* from 1 on, even where the counter has gone on without them.
MadeInOrder      == \E n \in Inodes : sb.inodes = 1 .. n
UnmadeOwnNothing == \A i \in Inodes \ sb.inodes : table[i].zone = 0
SizeBelowLinks   == \A i \in Inodes : table[i].size <= table[i].links

IInv ==
  /\ TypeOK
  /\ ZoneOwnership
  /\ InodesAgree
  /\ FreeZonesBlank
  /\ MadeInOrder
  /\ UnmadeOwnNothing
  /\ SizeBelowLinks

LEMMA Constants ==
  /\ InodeSlots \in Nat /\ InodeSlots > 0
  /\ DirSlots \in Nat /\ DirSlots > 2
  /\ ZoneScan \in Nat /\ ZoneScan > 1
  /\ Empty \notin Texts
  /\ \A t \in Texts : LinkOf[t] \in Inodes \cup {TextLink}
  /\ 0 \in Inodes
  /\ 0 \in Slots /\ 1 \in Slots
  /\ 0 \in Zones /\ 1 \in Zones
<1>1. /\ InodeSlots \in Nat /\ InodeSlots > 0
      /\ DirSlots \in Nat /\ DirSlots > 2
      /\ ZoneScan \in Nat /\ ZoneScan > 1
      /\ Empty \notin Texts
      /\ \A t \in Texts : LinkOf[t] \in Inodes \cup {TextLink}
  BY FsAssumption DEF FsAssumption
<1>2. 0 \in Inodes
  BY <1>1 DEF Inodes
<1>3. 0 \in Slots /\ 1 \in Slots
  BY <1>1 DEF Slots
<1>4. 0 \in Zones /\ 1 \in Zones
  BY <1>1 DEF Zones
<1> QED BY <1>1, <1>2, <1>3, <1>4

LEMMA BlankTypes ==
  /\ NoEntry \in Entry
  /\ BlankBlock \in Block
  /\ NoInode \in Inode
<1>1. NoEntry \in Entry
  BY Constants DEF NoEntry, Entry, Args
<1>2. BlankBlock \in Block
  BY <1>1 DEF BlankBlock, Block
<1>3. NoInode \in Inode
  BY Constants DEF NoInode, Inode
<1> QED BY <1>1, <1>2, <1>3

\* What the writers of a block return is a block.
LEMMA PutEntryType ==
  ASSUME NEW b \in Block, NEW k \in Slots, NEW e \in Entry
  PROVE  PutEntry(b, k, e) \in Block
BY DEF PutEntry, Block

LEMMA DotEntriesType ==
  ASSUME NEW b \in Block, NEW ino \in Inodes, NEW parent \in Inodes
  PROVE  DotEntries(b, ino, parent) \in Block
<1> DEFINE dot    == [link |-> ino, name |-> "."]
           dotdot == [link |-> parent, name |-> ".."]
<1>1. dot \in Entry /\ dotdot \in Entry
  BY DEF Entry, Args
<1>2. PutEntry(b, 0, dot) \in Block
  BY <1>1, Constants, PutEntryType
<1>3. PutEntry(PutEntry(b, 0, dot), 1, dotdot) \in Block
  BY <1>1, <1>2, Constants, PutEntryType
<1> QED BY <1>3 DEF DotEntries

LEMMA TextBlockType ==
  ASSUME NEW t \in Texts
  PROVE  TextBlock(t) \in Block
<1>1. \A k \in Slots :
        [link |-> IF k = 0 THEN LinkOf[t] ELSE 0, name |-> Empty] \in Entry
  BY Constants DEF Entry, Args
<1> QED BY <1>1 DEF TextBlock, Block

LEMMA InitInv == Init => IInv
<1> SUFFICES ASSUME Init PROVE IInv
  OBVIOUS
<1>1. TypeOK
  <2>1. /\ sb \in [inodes : SUBSET Inodes, zones : SUBSET Zones]
        /\ cwd \in Inodes \cup {TextLink}
        /\ count \in Nat
        /\ wild \in BOOLEAN
    BY Constants DEF Init
  <2>2. table \in [Inodes -> Inode] /\ disk \in [Zones -> Block]
    BY BlankTypes DEF Init
  <2>3. lit \in Seq(Texts \cup {InodeByte})
    BY DEF Init
  <2> QED BY <2>1, <2>2, <2>3 DEF TypeOK
<1>2. ZoneOwnership
  BY Constants DEF Init, ZoneOwnership, NoInode
<1>3. InodesAgree
  <2>1. 1 .. 0 = {}
    OBVIOUS
  <2>2. \A i \in Inodes : table[i].mode = "none"
    BY DEF Init, NoInode
  <2> QED BY <2>1, <2>2 DEF Init, InodesAgree
<1>4. FreeZonesBlank /\ UnmadeOwnNothing /\ SizeBelowLinks
  BY DEF Init, FreeZonesBlank, UnmadeOwnNothing, SizeBelowLinks, NoInode, Zones
<1>5. MadeInOrder
  <2>1. sb.inodes = 1 .. 0
    BY DEF Init
  <2> QED BY <2>1, Constants DEF MadeInOrder
<1> QED BY <1>1, <1>2, <1>3, <1>4, <1>5 DEF IInv

-----------------------------------------------------------------------------
\* Creating: the inode number is new, and so is the zone.

LEMMA NewIno ==
  ASSUME IInv, ~ wild, NEW mode, NEW text, CreateFits(mode, text)
  PROVE  /\ count + 1 \in Inodes /\ count \in Nat /\ cwd \in Inodes
         /\ count + 1 \notin sb.inodes /\ sb.inodes = 1 .. count
         /\ table[count + 1].zone = 0
         /\ cwd # count + 1 => table[cwd].links \in Slots
<1>1. /\ count \in Nat /\ count + 1 \in Inodes /\ cwd \in Inodes
      /\ cwd # count + 1 => table[cwd].links \in Slots
  BY DEF IInv, TypeOK, CreateFits
<1>2. sb.inodes = 1 .. count /\ count + 1 \notin 1 .. count
  BY <1>1 DEF IInv, InodesAgree
<1> QED BY <1>1, <1>2 DEF IInv, UnmadeOwnNothing

\* Every inode's zone but a new one's is marked.
LEMMA ZonesMarked ==
  ASSUME ZoneOwnership
  PROVE  /\ 0 \in sb.zones /\ 1 \in sb.zones
         /\ \A i \in Inodes : table[i].zone \in sb.zones
BY DEF ZoneOwnership

\* The inode table a create leaves, which may make the current directory.
LEMMA NewTable ==
  ASSUME TypeOK, NEW ino \in Inodes, NEW n \in Inode, cwd \in Inodes,
         table' = LinkUnder([table EXCEPT ![ino] = n], cwd)
  PROVE  LET parent == IF cwd = ino THEN n ELSE table[cwd] IN
         /\ [table EXCEPT ![ino] = n][cwd] = parent
         /\ table'[cwd] = [parent EXCEPT !.links = @ + 1, !.size = @ + 1]
         /\ ino # cwd => table'[ino] = n
         /\ \A i \in Inodes : i # ino /\ i # cwd => table'[i] = table[i]
         /\ table' = [i \in Inodes |-> table'[i]]
BY DEF TypeOK, LinkUnder

\* A create, for the zone z it uses.
LEMMA CreatePreserves ==
  ASSUME IInv, ~ wild, NEW mode \in {"dir", "reg"}, NEW name \in Args,
         NEW text \in Texts \cup {Empty}, Create(mode, name, text)
  PROVE  IInv'
<1> DEFINE ino == count + 1
           new(z) == NewInode(mode, ino, z)
           entry == [link |-> ino, name |-> name]
           parent(z) == [table EXCEPT ![ino] = new(z)][cwd]
<1>1. /\ CreateFits(mode, text)
      /\ count' = ino
      /\ UNCHANGED <<cwd, lit, wild>>
  BY DEF Create
<1>2. PICK z \in Zones :
        /\ table' = LinkUnder([table EXCEPT ![ino] = new(z)], cwd)
        /\ \/ /\ ~ NeedsZone(mode, text)
              /\ z = table[ino].zone
              /\ sb' = Marked(ino, {})
              /\ disk' = [disk EXCEPT ![parent(z).zone] = PutEntry(@, parent(z).links, entry)]
           \/ /\ NeedsZone(mode, text)
              /\ FirstFree(z)
              /\ sb' = Marked(ino, {z})
              /\ disk' = [[disk EXCEPT ![z] = FirstBlock(mode, @, ino, text)]
                                EXCEPT ![parent(z).zone] = PutEntry(@, parent(z).links, entry)]
  BY DEF Create
<1>3. /\ ino \in Inodes /\ cwd \in Inodes /\ count \in Nat
      /\ ino \notin sb.inodes /\ sb.inodes = 1 .. count
      /\ table[ino].zone = 0
      /\ cwd # ino => table[cwd].links \in Slots
  BY <1>1, NewIno
<1>4. TypeOK /\ ZoneOwnership /\ InodesAgree /\ FreeZonesBlank
      /\ MadeInOrder /\ UnmadeOwnNothing /\ SizeBelowLinks
  BY DEF IInv
<1>5. new(z) \in Inode /\ new(z).links \in Slots /\ new(z).size = 0 /\ new(z).zone = z /\ new(z).mode = mode
  <2>1. /\ mode \in {"none", "dir", "reg"} /\ 0 \in 0 .. DirSlots
        /\ 1 \in 0 .. DirSlots /\ 2 \in 0 .. DirSlots /\ 1 \in Slots /\ 2 \in Slots
    BY Constants DEF Slots
  <2> QED BY <2>1 DEF NewInode, Inode
<1> DEFINE from == IF cwd = ino THEN new(z) ELSE table[cwd]
<1>6. /\ parent(z) = from
      /\ table'[cwd] = [from EXCEPT !.links = @ + 1, !.size = @ + 1]
      /\ ino # cwd => table'[ino] = new(z)
      /\ \A i \in Inodes : i # ino /\ i # cwd => table'[i] = table[i]
      /\ table' = [i \in Inodes |-> table'[i]]
  BY <1>2, <1>3, <1>4, <1>5, NewTable
<1>7. /\ from \in Inode /\ from.links \in Slots
      /\ from.size <= from.links /\ from.size \in 0 .. DirSlots
  <2>1. CASE cwd = ino
    <3>1. from = new(z)  BY <2>1
    <3>2. \A k \in Slots : 0 <= k  BY DEF Slots
    <3>3. 0 \in 0 .. DirSlots  BY Constants
    <3> QED BY <1>5, <3>1, <3>2, <3>3
  <2>2. CASE cwd # ino
    <3>1. from = table[cwd]  BY <2>2
    <3>2. table[cwd] \in Inode  BY <1>3, <1>4 DEF TypeOK
    <3>3. table[cwd].size \in 0 .. DirSlots  BY <3>2 DEF Inode
    <3> QED BY <1>3, <1>4, <2>2, <3>1, <3>2, <3>3 DEF SizeBelowLinks
  <2> QED BY <2>1, <2>2
<1> HIDE DEF from, new
<1>8. table' \in [Inodes -> Inode] /\ SizeBelowLinks'
  <2>1. table'[cwd] \in Inode /\ table'[cwd].size <= table'[cwd].links
    <3>1. /\ from.links + 1 \in 0 .. DirSlots
          /\ from.size + 1 \in 0 .. DirSlots
          /\ from.size + 1 <= from.links + 1
      BY <1>7, Constants DEF Slots
    <3> QED BY <1>6, <1>7, <3>1 DEF Inode
  <2>2. new(z).size <= new(z).links
    BY <1>5, Constants DEF Slots
  <2>3. \A i \in Inodes : table'[i] \in Inode /\ table'[i].size <= table'[i].links
    BY <1>4, <1>5, <1>6, <2>1, <2>2 DEF TypeOK, SizeBelowLinks
  <2> QED BY <1>6, <2>3 DEF SizeBelowLinks
<1>9. /\ \A i \in Inodes : table'[i].zone = IF i = ino THEN z ELSE table[i].zone
      /\ \A i \in Inodes : table'[i].mode = IF i = ino THEN mode ELSE table[i].mode
  <2>1. table'[cwd].zone = from.zone /\ table'[cwd].mode = from.mode
    BY <1>6, <1>7 DEF Inode
  <2>2. CASE cwd = ino
    BY <1>5, <1>6, <2>1, <2>2 DEF from
  <2>3. CASE cwd # ino
    BY <1>5, <1>6, <2>1, <2>3 DEF from
  <2> QED BY <2>2, <2>3
<1>10. sb' \in [inodes : SUBSET Inodes, zones : SUBSET Zones] /\ ZoneOwnership' /\ UnmadeOwnNothing'
  <2>1. sb'.inodes = sb.inodes \cup {ino}
    BY <1>2 DEF Marked
  <2>2. UnmadeOwnNothing'
    BY <1>4, <1>9, <2>1 DEF UnmadeOwnNothing
  <2>3. CASE ~ NeedsZone(mode, text)
    <3>1. \A i \in Inodes : table'[i].zone = table[i].zone
      BY <1>2, <1>3, <1>9, <2>3
    <3>2. sb' = [inodes |-> sb.inodes \cup {ino}, zones |-> sb.zones]
      BY <1>2, <2>3 DEF Marked
    <3>3. sb'.zones = {0, 1} \cup {table'[i].zone : i \in Inodes}
      BY <1>4, <3>1, <3>2 DEF ZoneOwnership
    <3> QED BY <1>3, <1>4, <2>2, <3>1, <3>2, <3>3 DEF ZoneOwnership, TypeOK
  <2>4. CASE NeedsZone(mode, text)
    <3>1. z \notin sb.zones /\ sb' = [inodes |-> sb.inodes \cup {ino}, zones |-> sb.zones \cup {z}]
      BY <1>2, <2>4 DEF FirstFree, Marked
    <3>2. \A i \in Inodes : table[i].zone # z /\ table[i].zone \in sb.zones
      BY <1>4, <3>1, ZonesMarked
    <3>3. sb'.zones = {0, 1} \cup {table'[i].zone : i \in Inodes}
      <4>1. ASSUME NEW y \in {table'[i].zone : i \in Inodes}
            PROVE  y = z \/ y \in sb.zones
        BY <1>9, <3>2
      <4>2. ASSUME NEW y \in sb.zones
            PROVE  y \in {0, 1} \cup {table'[i].zone : i \in Inodes}
        BY <1>3, <1>4, <1>9 DEF ZoneOwnership
      <4>3. z \in {table'[i].zone : i \in Inodes}
        BY <1>3, <1>9
      <4>4. 0 \in sb'.zones /\ 1 \in sb'.zones
        BY <1>4, <3>1, ZonesMarked
      <4> QED BY <3>1, <4>1, <4>2, <4>3, <4>4
    <3>4. \A i \in Inodes : table'[i].zone # 1
      BY <1>4, <1>9, <3>1, ZonesMarked DEF ZoneOwnership
    <3>5. \A i, j \in Inodes :
            table'[i].zone = table'[j].zone => i = j \/ table'[i].zone = 0
      BY <1>4, <1>9, <3>2 DEF ZoneOwnership
    <3>6. sb' \in [inodes : SUBSET Inodes, zones : SUBSET Zones]
      BY <1>3, <1>4, <3>1 DEF TypeOK
    <3> QED BY <2>2, <3>3, <3>4, <3>5, <3>6 DEF ZoneOwnership
  <2> QED BY <2>3, <2>4
<1>11. from.zone \in sb'.zones /\ from.zone \in Zones
  <2>1. from.zone = table'[cwd].zone
    BY <1>6, <1>7 DEF Inode
  <2> QED BY <1>3, <1>7, <1>10, <2>1, ZonesMarked DEF ZoneOwnership, Inode
<1>12. disk' \in [Zones -> Block] /\ FreeZonesBlank'
  <2> DEFINE first == FirstBlock(mode, disk[z], ino, text)
             between == IF NeedsZone(mode, text) THEN [disk EXCEPT ![z] = first] ELSE disk
  <2>1. disk[z] \in Block
    BY <1>4 DEF TypeOK
  <2>2. NeedsZone(mode, text) => first \in Block
    <3>1. CASE mode = "dir"
      BY <1>3, <2>1, <3>1, DotEntriesType DEF FirstBlock
    <3>2. CASE mode # "dir" /\ text # Empty
      BY <3>2, TextBlockType DEF FirstBlock
    <3> QED BY <3>1, <3>2 DEF NeedsZone
  <2>3. between \in [Zones -> Block]
    BY <1>4, <2>2 DEF TypeOK
  <2>4. disk' = [between EXCEPT ![from.zone] = PutEntry(@, from.links, entry)]
    BY <1>2, <1>6
  <2>5. entry \in Entry
    BY <1>3 DEF Entry
  <2>6. PutEntry(between[from.zone], from.links, entry) \in Block
    BY <1>7, <1>11, <2>3, <2>5, PutEntryType
  <2>7. disk' \in [Zones -> Block]
    BY <1>11, <2>3, <2>4, <2>6
  <2>8. FreeZonesBlank'
    <3> SUFFICES ASSUME NEW y \in Zones, y \notin sb'.zones
                 PROVE  disk'[y] = BlankBlock
      BY DEF FreeZonesBlank
    <3>1. y \notin sb.zones /\ (NeedsZone(mode, text) => y # z)
      BY <1>2 DEF Marked
    <3>2. disk[y] = BlankBlock /\ y # from.zone
      BY <1>4, <1>11, <3>1 DEF FreeZonesBlank
    <3>3. between[y] = disk[y]
      BY <1>4, <3>1 DEF TypeOK
    <3> QED BY <2>3, <2>4, <3>2, <3>3
  <2> QED BY <2>7, <2>8
<1>13. InodesAgree' /\ MadeInOrder'
  <2>1. sb'.inodes = sb.inodes \cup {ino}
    BY <1>2 DEF Marked
  <2>2. 1 .. ino = (1 .. count) \cup {ino}
    BY <1>3
  <2>3. sb'.inodes = 1 .. count'
    BY <1>1, <1>3, <2>1, <2>2
  <2>4. \A i \in Inodes : table'[i].mode # "none" <=> i \in sb'.inodes
    BY <1>4, <1>9, <2>1 DEF InodesAgree
  <2> QED BY <1>1, <1>3, <2>3, <2>4 DEF InodesAgree, MadeInOrder
<1>14. TypeOK'
  <2>1. count' \in Nat
    BY <1>1, <1>3
  <2> QED BY <1>1, <1>4, <1>8, <1>10, <1>12, <2>1 DEF TypeOK
<1> QED BY <1>8, <1>10, <1>12, <1>13, <1>14 DEF IInv

-----------------------------------------------------------------------------
\* The other calls.

\* A call that writes neither block of metadata nor any directory or file.
LEMMA ReadPreserves ==
  ASSUME IInv, UNCHANGED <<sb, table, disk>>, count' \in Nat, wild' \/ (count' = count /\ wild' = wild),
         cwd' \in Inodes \cup {TextLink}, lit' \in Seq(Texts \cup {InodeByte}), wild' \in BOOLEAN
  PROVE  IInv'
<1>1. TypeOK'
  BY DEF IInv, TypeOK
<1>2. InodesAgree'
  BY DEF IInv, InodesAgree
<1> QED
  BY <1>1, <1>2 DEF IInv, ZoneOwnership, FreeZonesBlank,
                    MadeInOrder, UnmadeOwnNothing, SizeBelowLinks

LEMMA ChangeDirPreserves ==
  ASSUME IInv, NEW n \in Args, ChangeDir(n)
  PROVE  IInv'
<1>1. PICK k \in Slots : cwd' = Here.ents[k].link
  BY DEF ChangeDir
<1>2. Here \in Block
  BY DEF ChangeDir, IInv, TypeOK, Inode, Here, DirBlock
<1>3. cwd' \in Inodes \cup {TextLink}
  BY <1>1, <1>2 DEF Block, Entry
<1> QED BY <1>3, ReadPreserves DEF ChangeDir, IInv, TypeOK

LEMMA CatPreserves ==
  ASSUME IInv, NEW n \in Args, Cat(n)
  PROVE  IInv'
<1>1. PICK k \in Slots : /\ Here.ents[k].link \in Inodes
                         /\ lit' = lit \o FileString(Here.ents[k].link)
  BY DEF Cat
<1>2. ASSUME NEW i \in Inodes
      PROVE  FileString(i) \in Seq(Texts \cup {InodeByte})
  <2>1. DirBlock(i) \in Block
    BY DEF IInv, TypeOK, Inode, DirBlock
  <2>2. ASSUME NEW b \in Block PROVE BlockString(b) \in Seq(Texts \cup {InodeByte})
    <3>1. CASE b.text # Empty
      <4>1. b.text \in Texts
        BY <3>1 DEF Block
      <4> QED BY <3>1, <4>1 DEF BlockString
    <3>2. CASE b.text = Empty
      <4>1. BlockString(b) = <<InodeByte>> \/ BlockString(b) = << >>
        BY <3>2 DEF BlockString
      <4>2. <<InodeByte>> \in Seq(Texts \cup {InodeByte})
        OBVIOUS
      <4>3. << >> \in Seq(Texts \cup {InodeByte})
        OBVIOUS
      <4> QED BY <4>1, <4>2, <4>3
    <3> QED BY <3>1, <3>2
  <2> QED BY <2>1, <2>2 DEF FileString
<1>3. lit' \in Seq(Texts \cup {InodeByte})
  BY <1>1, <1>2 DEF IInv, TypeOK
<1> QED BY <1>3, ReadPreserves DEF Cat, IInv, TypeOK

LEMMA OverrunPreserves == IInv /\ (CreateOverrun \/ FollowOverrun) => IInv'
<1>1. ASSUME IInv, CreateOverrun PROVE IInv'
  <2>1. count' \in Nat  BY <1>1 DEF CreateOverrun, IInv, TypeOK
  <2> QED BY <1>1, <2>1, ReadPreserves DEF CreateOverrun, IInv, TypeOK
<1>2. ASSUME IInv, FollowOverrun PROVE IInv'
  BY <1>2, ReadPreserves DEF FollowOverrun, IInv, TypeOK
<1> QED BY <1>1, <1>2

\* write_file writes to zones that inodes own, never to a free one.
LEMMA WriteFilePreserves ==
  ASSUME IInv, NEW n \in Args, NEW t \in Texts, WriteFile(n, t)
  PROVE  IInv'
<1> DEFINE hit == {k \in Slots : Here.ents[k].name = n}
           touched(z) == \E k \in hit : table[Here.ents[k].link].zone = z
<1>1. /\ \A k \in hit : Here.ents[k].link \in Inodes
      /\ disk' = [z \in Zones |-> IF touched(z) THEN TextBlock(t) ELSE disk[z]]
      /\ UNCHANGED <<sb, table, cwd, count, lit, wild>>
  BY DEF WriteFile
<1>2. \A z \in Zones \ sb.zones : ~ touched(z)
  BY <1>1, ZonesMarked DEF IInv
<1>3. FreeZonesBlank'
  BY <1>1, <1>2 DEF IInv, FreeZonesBlank
<1>4. disk' \in [Zones -> Block]
  BY <1>1, TextBlockType DEF IInv, TypeOK
<1>5. TypeOK'
  BY <1>1, <1>4 DEF IInv, TypeOK
<1> QED
  BY <1>1, <1>3, <1>5 DEF IInv, ZoneOwnership, InodesAgree,
                          MadeInOrder, UnmadeOwnNothing, SizeBelowLinks

LEMMA NextInv == IInv /\ [NextApi]_vars => IInv'
<1> SUFFICES ASSUME IInv, [NextApi]_vars PROVE IInv'
  OBVIOUS
<1>1. ASSUME NEW n \in Args, ~ wild, Mkdir(n) PROVE IInv'
  BY <1>1, CreatePreserves DEF Mkdir
<1>2. ASSUME NEW n \in Args, ~ wild, Touch(n) PROVE IInv'
  BY <1>2, CreatePreserves DEF Touch
<1>3. ASSUME NEW n \in Args, NEW t \in Texts \cup {Empty}, ~ wild, Write(n, t) PROVE IInv'
  BY <1>3, CreatePreserves DEF Write
<1>4. ASSUME NEW n \in Args, ChangeDir(n) \/ Cat(n) PROVE IInv'
  BY <1>4, ChangeDirPreserves, CatPreserves
<1>5. ASSUME NEW n \in Args, NEW t \in Texts, WriteFile(n, t) PROVE IInv'
  BY <1>5, WriteFilePreserves
<1>6. CASE UNCHANGED vars
  BY <1>6, ReadPreserves DEF vars, IInv, TypeOK
<1>7. Names \subseteq Args
  BY DEF Args
<1> QED
  BY <1>1, <1>2, <1>3, <1>4, <1>5, <1>6, <1>7, OverrunPreserves
  DEF NextApi, Api, Shell, WriteNothing

-----------------------------------------------------------------------------
\* The invariant holds of every behaviour of the filesystem, whatever its
\* capacity and whatever calls are made.
THEOREM Invariance == SpecApi => []IInv
<1>1. SpecApi => []IInv
  BY InitInv, NextInv, PTL DEF SpecApi
<1> QED BY <1>1

\* The filesystem's state always has the types declared for it: no call that
\* fits its arrays leaves a link, a zone number or a size outside its range.
THEOREM TypeCorrect == SpecApi => []TypeOK
<1>1. IInv => TypeOK
  BY DEF IInv
<1> QED BY <1>1, Invariance, PTL

\* No two inodes ever share a zone, and the zone bitmap marks exactly the
\* zones in use: allocate_zone never hands out a zone twice.
THEOREM ZonesOwned == SpecApi => []ZoneOwnership
<1>1. IInv => ZoneOwnership
  BY DEF IInv
<1> QED BY <1>1, Invariance, PTL

\* The inode counter, the inode bitmap and the modes in the table agree.
THEOREM InodesConsistent == SpecApi => []InodesAgree
<1>1. IInv => InodesAgree
  BY DEF IInv
<1> QED BY <1>1, Invariance, PTL

\* A free zone holds zeroes when allocate_inode reads it for a new directory.
THEOREM FreshZonesBlank == SpecApi => []FreeZonesBlank
<1>1. IInv => FreeZonesBlank
  BY DEF IInv
<1> QED BY <1>1, Invariance, PTL

\* The shell used as documented, and the shell used in any way, are calls of
\* the filesystem: what holds of all calls holds of them.
THEOREM ShellIsApi == (Spec => SpecApi) /\ (SpecReadme => SpecApi)
<1>1. [NextShell]_vars => [NextApi]_vars
  BY DEF NextShell, NextApi, Api
<1>2. [NextReadme]_vars => [NextApi]_vars
  BY DEF NextReadme, NextApi, Api, AsDocumented, Shell, UserNames
<1> QED BY <1>1, <1>2, PTL DEF Spec, SpecReadme, SpecApi
=============================================================================
