---------------------------- MODULE Tree_proofs ----------------------------
(***************************************************************************)
(* Proofs about SimFS used as the README describes it: the directories     *)
(* form a tree, pwd finds a name, and the shell implements DirTree, for    *)
(* every number of inodes, directory slots and zones.                      *)
(***************************************************************************)
EXTENDS SimFS_proofs

\* The newest inode made: current_num_inode, unless a create has overrun.
Last == CHOOSE n \in Inodes : sb.inodes = 1 .. n

\* The strengthening.  A create writes two blocks only, that of the current
\* directory and a new one, because no two directories share a block: each but
\* the root has a zone of its own, and what is current is a directory.
CwdIsDir    == cwd \in Dirs
RootAtZero  == table[0].zone = 0
DirsHaveZone == \A d \in Dirs : d # 0 => table[d].zone # 0
\* Directories hold links to inodes made, never text; first the dot entries,
\* then the children, named by the user and oldest first.
LinksAreInodes == \A d \in Dirs, k \in Slots : DirBlock(d).ents[k].link \in 0 .. Last
DotsFirst ==
  \A d \in Dirs : d # 0 =>
    /\ table[d].links >= 2
    /\ DirBlock(d).ents[0] = [link |-> d, name |-> "."]
    /\ DirBlock(d).ents[1].name = ".."
ChildrenNamed ==
  \A d \in Dirs : \A k \in ChildSlots(d) :
    DirBlock(d).ents[k].name \in UserNames /\ DirBlock(d).ents[k].link # 0
OldestFirst ==
  \A d \in Dirs : \A j, k \in ChildSlots(d) :
    j < k => DirBlock(d).ents[j].link < DirBlock(d).ents[k].link
\* Each inode has one home, and a directory's second entry leads there.
OneHome ==
  \A i \in 1 .. Last : \E p \in Dirs \X Slots :
    /\ Homes(i) = {p} /\ p[1] < i
    /\ table[i].mode = "dir" => DirBlock(i).ents[1].link = p[1]

TInv ==
  /\ IInv
  /\ CwdIsDir
  /\ RootAtZero
  /\ DirsHaveZone
  /\ AppendCursor
  /\ LinksAreInodes
  /\ DotsFirst
  /\ ChildrenNamed
  /\ OldestFirst
  /\ OneHome

LEMMA RunEnds ==
  ASSUME NEW S, NEW n \in Inodes, S = 1 .. n
  PROVE  (CHOOSE m \in Inodes : S = 1 .. m) = n
<1>1. \A m \in Inodes : m \in Nat
  BY Constants DEF Inodes
<1>2. ASSUME NEW m \in Inodes, S = 1 .. m PROVE m = n
  <2>1. m < n => n \in 1 .. n /\ n \notin 1 .. m  BY <1>1
  <2>2. n < m => m \in 1 .. m /\ m \notin 1 .. n  BY <1>1
  <2> QED BY <1>1, <1>2, <2>1, <2>2
<1> QED BY <1>2

LEMMA LastIs ==
  ASSUME IInv
  PROVE  Last \in Inodes /\ Last \in Nat /\ sb.inodes = 1 .. Last /\ (~ wild => Last = count)
<1>1. PICK n \in Inodes : sb.inodes = 1 .. n
  BY DEF IInv, MadeInOrder
<1>2. Last = n /\ n \in Nat
  BY <1>1, RunEnds, Constants DEF Last, Inodes
<1>3. ASSUME ~ wild PROVE n = count
  <2>1. count \in Nat /\ 1 .. count = 1 .. n
    BY <1>1, <1>3 DEF IInv, TypeOK, InodesAgree
  <2>2. count < n => n \in 1 .. n /\ n \notin 1 .. count  BY <1>2, <2>1
  <2>3. n < count => count \in 1 .. count /\ count \notin 1 .. n  BY <1>2, <2>1
  <2> QED BY <1>2, <2>1, <2>2, <2>3
<1> QED BY <1>1, <1>2, <1>3

LEMMA DirBasics ==
  ASSUME IInv
  PROVE  /\ Last \in Nat /\ Last \in Inodes /\ 0 .. Last \subseteq Inodes
         /\ 0 \in Dirs /\ Dirs \subseteq 0 .. Last /\ Dirs \subseteq Inodes
         /\ \A i \in Inodes : /\ table[i] \in Inode
                              /\ DirBlock(i) \in Block
                              /\ i \in Dirs /\ i # 0 => table[i].mode = "dir"
                              /\ table[i].mode = "dir" => i \in Dirs /\ i # 0
<1>1. Last \in Nat /\ Last \in Inodes /\ 0 .. Last \subseteq Inodes
  BY LastIs, Constants DEF Inodes
<1>2. ASSUME NEW i \in Inodes
      PROVE  /\ table[i] \in Inode /\ DirBlock(i) \in Block
             /\ table[i].mode # "none" => i \in 1 .. Last
  BY LastIs DEF IInv, TypeOK, InodesAgree, DirBlock, Inode
<1>3. 0 \in Dirs /\ Dirs \subseteq Inodes
  BY Constants DEF Dirs
<1>4. ASSUME NEW i \in Inodes
      PROVE  /\ i \in Dirs /\ i # 0 => table[i].mode = "dir"
             /\ table[i].mode = "dir" => i \in Dirs /\ i # 0
  BY <1>2 DEF Dirs
<1>5. Dirs \subseteq 0 .. Last
  BY <1>1, <1>2, <1>3, <1>4
<1> QED BY <1>1, <1>2, <1>3, <1>4, <1>5

\* A directory shares its zone with no inode, the root, in zone 0, aside.
LEMMA OwnZone ==
  ASSUME IInv, RootAtZero, DirsHaveZone, NEW d \in Dirs, NEW i \in Inodes,
         table[i].zone = table[d].zone, i # d
  PROVE  d = 0 /\ table[i].zone = 0
BY DirBasics DEF IInv, ZoneOwnership, DirsHaveZone, RootAtZero

\* What a create of inode ino leaves of the inodes and of the blocks they
\* point at.
Created(mode, name, text, ino) ==
  /\ Last' = ino /\ cwd' = cwd /\ lit' = lit
  /\ ino \in Inodes /\ ino \notin Dirs /\ cwd < ino /\ table[cwd].links \in Slots
  /\ \A i \in Inodes : i # ino => table'[i].zone = table[i].zone /\ table'[i].mode = table[i].mode
  /\ \A i \in Inodes : i # ino /\ i # cwd => table'[i] = table[i]
  /\ table'[cwd].links = table[cwd].links + 1
  /\ table'[ino].mode = mode /\ (mode = "dir" => table'[ino].links = 2)
  /\ Dirs' = IF mode = "dir" THEN Dirs \cup {ino} ELSE Dirs
  /\ \A i \in Inodes : i # ino /\ i # cwd /\ (i \in Dirs \/ table[i].zone # 0)
         => DirBlock(i)' = DirBlock(i)
  /\ DirBlock(cwd)' = PutEntry(DirBlock(cwd), table[cwd].links, [link |-> ino, name |-> name])
  /\ IF NeedsZone(mode, text)
     THEN table'[ino].zone # 0 /\ DirBlock(ino)' = FirstBlock(mode, BlankBlock, ino, text)
     ELSE table'[ino].zone = 0

LEMMA CreateEffect ==
  ASSUME IInv, ~ wild, CwdIsDir, RootAtZero, DirsHaveZone,
         NEW mode \in {"dir", "reg"}, NEW name \in UserNames,
         NEW text \in Texts \cup {Empty}, mode = "dir" => text = Empty,
         Create(mode, name, text), NEW ino, ino = Last + 1
  PROVE  Created(mode, name, text, ino)
<1> DEFINE new(z) == NewInode(mode, ino, z)
           entry == [link |-> ino, name |-> name]
           home == table[cwd].zone
           parent(z) == [table EXCEPT ![ino] = new(z)][cwd]
<1>1. CreateFits(mode, text) /\ ino = count + 1 /\ cwd' = cwd /\ lit' = lit
  BY LastIs DEF Create
<1>2. PICK z \in Zones :
        /\ table' = LinkUnder([table EXCEPT ![ino] = new(z)], cwd)
        /\ \/ /\ ~ NeedsZone(mode, text)
              /\ z = table[ino].zone
              /\ sb' = Marked(ino, {})
              /\ disk' = [disk EXCEPT ![parent(z).zone] = PutEntry(@, parent(z).links, entry)]
           \/ /\ NeedsZone(mode, text)
              /\ FirstFree(z)
              /\ sb' = Marked(ino, {z})
              /\ disk' = [[disk EXCEPT ![z] = FirstBlock(mode, @, ino, text)]
                                EXCEPT ![parent(z).zone] = PutEntry(@, parent(z).links, entry)]
  BY <1>1 DEF Create
<1>3. /\ ino \in Inodes /\ cwd \in Inodes /\ table[cwd].links \in Slots
      /\ ino > Last /\ cwd <= Last /\ cwd # ino /\ table[ino].zone = 0
  <2>1. cwd \in 0 .. Last /\ Last \in Nat  BY DirBasics DEF CwdIsDir
  <2>2. cwd <= Last /\ ino > Last /\ cwd # ino  BY <2>1
  <2> QED BY <1>1, <2>2, NewIno
<1>4. cwd < ino /\ ino \notin Dirs /\ Last' = ino
  <2>1. cwd < ino /\ ino \notin Dirs
    BY <1>3, DirBasics DEF CwdIsDir
  <2>2. sb.inodes = 1 .. Last /\ Last \in Nat
    BY LastIs
  <2>3. 1 .. ino = (1 .. Last) \cup {ino}
    BY <2>2
  <2>4. sb'.inodes = sb.inodes \cup {ino}
    BY <1>2 DEF Marked
  <2>5. sb'.inodes = 1 .. ino
    BY <2>2, <2>3, <2>4
  <2> QED BY <1>3, <2>1, <2>5, RunEnds DEF Last
<1>5. new(z) \in Inode
  <2>1. mode \in {"none", "dir", "reg"} /\ 1 \in 0 .. DirSlots /\ 2 \in 0 .. DirSlots /\ 0 \in 0 .. DirSlots
    BY Constants
  <2> QED BY <2>1 DEF NewInode, Inode
<1>6. /\ table'[ino] = new(z)
      /\ parent(z) = table[cwd]
      /\ table'[cwd] = [table[cwd] EXCEPT !.links = @ + 1, !.size = @ + 1]
      /\ \A i \in Inodes : i # ino /\ i # cwd => table'[i] = table[i]
  <2>1. PICK n \in Inode : n = new(z)
    BY <1>5
  <2>2. table' = LinkUnder([table EXCEPT ![ino] = n], cwd) /\ parent(z) = [table EXCEPT ![ino] = n][cwd]
    BY <1>2, <2>1
  <2> HIDE DEF new, parent
  <2> DEFINE from == IF cwd = ino THEN n ELSE table[cwd]
  <2>3. /\ [table EXCEPT ![ino] = n][cwd] = from
        /\ table'[cwd] = [from EXCEPT !.links = @ + 1, !.size = @ + 1]
        /\ ino # cwd => table'[ino] = n
        /\ \A i \in Inodes : i # ino /\ i # cwd => table'[i] = table[i]
    BY <1>3, <2>2, NewTable DEF IInv
  <2>4. from = table[cwd]
    BY <1>3
  <2> HIDE DEF from
  <2>5. /\ [table EXCEPT ![ino] = n][cwd] = table[cwd]
        /\ table'[cwd] = [table[cwd] EXCEPT !.links = @ + 1, !.size = @ + 1]
        /\ table'[ino] = n
        /\ \A i \in Inodes : i # ino /\ i # cwd => table'[i] = table[i]
    BY <1>3, <2>3, <2>4
  <2> QED BY <2>1, <2>2, <2>5
<1>7. /\ table'[cwd].links = table[cwd].links + 1
      /\ table'[cwd].zone = table[cwd].zone /\ table'[cwd].mode = table[cwd].mode
  <2>1. table[cwd] \in Inode  BY <1>3, DirBasics
  <2> QED BY <1>6, <2>1 DEF Inode
<1>8. \A i \in Inodes : i # ino => table'[i].zone = table[i].zone /\ table'[i].mode = table[i].mode
  BY <1>6, <1>7
<1>9. table'[ino].mode = mode /\ table'[ino].zone = z /\ (mode = "dir" => table'[ino].links = 2)
  BY <1>6 DEF NewInode
<1>10. Dirs' = IF mode = "dir" THEN Dirs \cup {ino} ELSE Dirs
  <2>1. \A i \in Inodes : i \in Dirs' <=> i = 0 \/ table'[i].mode = "dir"
    BY DEF Dirs
  <2>2. \A i \in Inodes : i \in Dirs <=> i = 0 \/ table[i].mode = "dir"
    BY DEF Dirs
  <2>3. ino # 0  BY <1>4, DirBasics
  <2>4. \A i \in Inodes : i \in Dirs' <=> i \in Dirs \/ (mode = "dir" /\ i = ino)
    BY <1>4, <1>8, <1>9, <2>1, <2>2, <2>3
  <2>5. Dirs' \subseteq Inodes /\ Dirs \subseteq Inodes  BY DEF Dirs
  <2> QED BY <1>3, <2>4, <2>5
<1>11. home \in Zones /\ home \in sb.zones /\ 0 \in sb.zones /\ disk \in [Zones -> Block]
  BY <1>3, ZonesMarked DEF IInv, TypeOK, Inode
<1>12. NeedsZone(mode, text) => z # home /\ z \notin sb.zones /\ disk[z] = BlankBlock /\ z # 0
  BY <1>2, <1>11 DEF FirstFree, IInv, FreeZonesBlank
<1>13. ASSUME NEW y \in Zones, y # home, NeedsZone(mode, text) => y # z
       PROVE  disk'[y] = disk[y]
  BY <1>2, <1>6, <1>11, <1>13
<1>14. ASSUME NEW i \in Inodes, i # ino, i # cwd, i \in Dirs \/ table[i].zone # 0
       PROVE  DirBlock(i)' = DirBlock(i)
  <2>1. table[i].zone \in Zones /\ table[i].zone \in sb.zones
    BY ZonesMarked, DirBasics DEF IInv, Inode
  <2>2. table[i].zone # home
    <3>1. CASE table[i].zone # 0
      BY <1>3, <1>14, <3>1 DEF IInv, ZoneOwnership
    <3>2. CASE table[i].zone = 0
      <4>1. i = 0  BY <1>14, <3>2 DEF DirsHaveZone
      <4> QED BY <1>14, <3>2, <4>1 DEF DirsHaveZone, CwdIsDir
    <3> QED BY <3>1, <3>2
  <2>3. disk'[table[i].zone] = disk[table[i].zone]
    BY <1>12, <1>13, <2>1, <2>2
  <2> QED BY <1>8, <1>14, <2>3 DEF DirBlock
<1>15. DirBlock(cwd)' = PutEntry(DirBlock(cwd), table[cwd].links, entry)
  <2>1. disk'[home] = PutEntry(disk[home], table[cwd].links, entry)
    BY <1>2, <1>6, <1>11, <1>12
  <2> QED BY <1>1, <1>7, <2>1 DEF DirBlock
<1>16. CASE NeedsZone(mode, text)
  <2>1. disk'[z] = FirstBlock(mode, BlankBlock, ino, text)
    BY <1>2, <1>6, <1>11, <1>12, <1>16
  <2>2. DirBlock(ino)' = FirstBlock(mode, BlankBlock, ino, text)
    BY <1>9, <2>1 DEF DirBlock
  <2> QED BY <1>1, <1>3, <1>4, <1>6, <1>7, <1>8, <1>9, <1>10, <1>12, <1>14, <1>15, <1>16, <2>2
     DEF Created
<1>17. CASE ~ NeedsZone(mode, text)
  <2>1. table'[ino].zone = 0  BY <1>2, <1>3, <1>9, <1>17
  <2> QED BY <1>1, <1>3, <1>4, <1>6, <1>7, <1>8, <1>9, <1>10, <1>14, <1>15, <1>17, <2>1
     DEF Created
<1> QED BY <1>16, <1>17

-----------------------------------------------------------------------------
\* The entries a create leaves.

LEMMA PutEntryEffect ==
  ASSUME NEW b \in Block, NEW k \in Slots, NEW e
  PROVE  /\ \A j \in Slots : PutEntry(b, k, e).ents[j] = IF j = k THEN e ELSE b.ents[j]
         /\ PutEntry(b, k, e).text = IF k = 0 THEN Empty ELSE b.text
BY DEF PutEntry, Block

\* The block of a new directory.
LEMMA NewDirBlock ==
  ASSUME NEW ino \in Inodes, NEW parent \in Inodes
  PROVE  /\ DotEntries(BlankBlock, ino, parent).text = Empty
         /\ DotEntries(BlankBlock, ino, parent).ents[0] = [link |-> ino, name |-> "."]
         /\ DotEntries(BlankBlock, ino, parent).ents[1] = [link |-> parent, name |-> ".."]
         /\ \A j \in Slots : j >= 2 => DotEntries(BlankBlock, ino, parent).ents[j] = NoEntry
<1> DEFINE dot    == [link |-> ino, name |-> "."]
           dotdot == [link |-> parent, name |-> ".."]
           b == PutEntry(BlankBlock, 0, dot)
<1>1. dot \in Entry /\ dotdot \in Entry
  BY DEF Entry, Args
<1>2. b \in Block
  BY <1>1, Constants, BlankTypes, PutEntryType
<1>3. /\ \A j \in Slots : b.ents[j] = IF j = 0 THEN dot ELSE BlankBlock.ents[j]
      /\ b.text = Empty
  BY Constants, BlankTypes, PutEntryEffect
<1>4. /\ \A j \in Slots : PutEntry(b, 1, dotdot).ents[j] = IF j = 1 THEN dotdot ELSE b.ents[j]
      /\ PutEntry(b, 1, dotdot).text = b.text
  BY <1>2, Constants, PutEntryEffect
<1>5. DotEntries(BlankBlock, ino, parent) = PutEntry(b, 1, dotdot)
  BY DEF DotEntries
<1>6. \A j \in Slots : BlankBlock.ents[j] = NoEntry
  BY DEF BlankBlock
<1> HIDE DEF b, dot, dotdot
<1>7. ASSUME NEW j \in Slots, j >= 2 PROVE PutEntry(b, 1, dotdot).ents[j] = NoEntry
  <2>1. j # 0 /\ j # 1  BY <1>7
  <2> QED BY <1>3, <1>4, <1>6, <2>1
<1> QED BY <1>3, <1>4, <1>5, <1>7, Constants DEF dot, dotdot

\* One entry more in the current directory, a directory more if one is made,
\* and nothing else in any directory.
Entered(mode, name, ino) ==
  /\ \A d \in Dirs : \A k \in Slots :
       DirBlock(d)'.ents[k] = IF d = cwd /\ k = table[cwd].links
                              THEN [link |-> ino, name |-> name]
                              ELSE DirBlock(d).ents[k]
  /\ \A d \in Dirs : /\ table'[d].links = IF d = cwd THEN table[cwd].links + 1 ELSE table[d].links
                     /\ ChildSlots(d)' = IF d = cwd THEN ChildSlots(d) \cup {table[cwd].links}
                                                    ELSE ChildSlots(d)
  /\ mode = "dir" =>
       /\ table'[ino].zone # 0 /\ table'[ino].links = 2 /\ ChildSlots(ino)' = {}
       /\ DirBlock(ino)'.ents[0] = [link |-> ino, name |-> "."]
       /\ DirBlock(ino)'.ents[1] = [link |-> cwd, name |-> ".."]
       /\ \A j \in Slots : j >= 2 => DirBlock(ino)'.ents[j] = NoEntry
  /\ table[cwd].links \notin ChildSlots(cwd)

LEMMA EntriesAfterCreate ==
  ASSUME TInv, ~ wild, NEW mode \in {"dir", "reg"}, NEW name \in UserNames,
         NEW text \in Texts \cup {Empty}, mode = "dir" => text = Empty,
         Create(mode, name, text), NEW ino, ino = Last + 1
  PROVE  Entered(mode, name, ino)
<1> USE DEF TInv
<1> DEFINE entry == [link |-> ino, name |-> name]
<1>1. /\ ino \in Inodes /\ ino \notin Dirs /\ cwd < ino /\ table[cwd].links \in Slots
      /\ \A i \in Inodes : i # ino /\ i # cwd => table'[i] = table[i]
      /\ table'[cwd].links = table[cwd].links + 1
      /\ mode = "dir" => table'[ino].links = 2
      /\ \A i \in Inodes : i # ino /\ i # cwd /\ (i \in Dirs \/ table[i].zone # 0)
            => DirBlock(i)' = DirBlock(i)
      /\ DirBlock(cwd)' = PutEntry(DirBlock(cwd), table[cwd].links, entry)
      /\ NeedsZone(mode, text) => /\ table'[ino].zone # 0
                                  /\ DirBlock(ino)' = FirstBlock(mode, BlankBlock, ino, text)
  <2>1. Created(mode, name, text, ino)  BY CreateEffect
  <2> QED BY <2>1 DEF Created
<1>2. cwd \in Dirs /\ cwd \in Inodes /\ Dirs \subseteq Inodes /\ DirBlock(cwd) \in Block
  BY DirBasics DEF CwdIsDir
<1>3. \A k \in Slots : DirBlock(cwd)'.ents[k] =
        IF k = table[cwd].links THEN entry ELSE DirBlock(cwd).ents[k]
  BY <1>1, <1>2, PutEntryEffect
<1>4. \A d \in Dirs : d # cwd => DirBlock(d)' = DirBlock(d) /\ table'[d] = table[d]
  BY <1>1, <1>2
<1>5. \A d \in Dirs : \A k \in Slots :
        DirBlock(d)'.ents[k] = IF d = cwd /\ k = table[cwd].links THEN entry ELSE DirBlock(d).ents[k]
  <2>1. cwd' = cwd  BY DEF Create
  <2>2. \A k \in Slots : disk'[table'[cwd].zone].ents[k] =
          IF k = table[cwd].links THEN entry ELSE DirBlock(cwd).ents[k]
    BY <1>3, <2>1 DEF DirBlock
  <2> QED BY <1>4, <2>2 DEF DirBlock
<1>6. \A d \in Dirs : table'[d].links = IF d = cwd THEN table[cwd].links + 1 ELSE table[d].links
  BY <1>1, <1>4
<1>7. FirstChild(cwd) <= table[cwd].links /\ FirstChild(cwd) \in Nat
  <2>1. table[cwd].links \in Nat  BY <1>1, Constants DEF Slots
  <2>2. cwd # 0 => table[cwd].links >= 2  BY <1>2 DEF DotsFirst
  <2> QED BY <2>1, <2>2 DEF FirstChild
<1>8. ASSUME NEW d \in Dirs
      PROVE  ChildSlots(d)' = IF d = cwd THEN ChildSlots(d) \cup {table[cwd].links} ELSE ChildSlots(d)
  <2>1. ChildSlots(d)' = {k \in Slots : FirstChild(d) <= k /\ k < table'[d].links}
    BY DEF ChildSlots, FirstChild
  <2>2. CASE d # cwd
    BY <1>6, <2>1, <2>2 DEF ChildSlots
  <2>3. CASE d = cwd
    <3>1. \A k \in Slots : k < table[cwd].links + 1 <=> k < table[cwd].links \/ k = table[cwd].links
      BY <1>1, Constants DEF Slots
    <3>2. \A k \in Slots : k \in ChildSlots(d)' <=> k \in ChildSlots(d) \cup {table[cwd].links}
      BY <1>6, <1>7, <2>1, <2>3, <3>1 DEF ChildSlots
    <3>3. ChildSlots(d)' \subseteq Slots /\ ChildSlots(d) \cup {table[cwd].links} \subseteq Slots
      BY <1>1, <2>1 DEF ChildSlots
    <3> QED BY <2>3, <3>2, <3>3
  <2> QED BY <2>2, <2>3
<1>9. ASSUME mode = "dir"
      PROVE  /\ table'[ino].zone # 0 /\ table'[ino].links = 2 /\ ChildSlots(ino)' = {}
             /\ DirBlock(ino)'.ents[0] = [link |-> ino, name |-> "."]
             /\ DirBlock(ino)'.ents[1] = [link |-> cwd, name |-> ".."]
             /\ \A j \in Slots : j >= 2 => DirBlock(ino)'.ents[j] = NoEntry
  <2>1. DirBlock(ino)' = DotEntries(BlankBlock, ino, cwd)
    BY <1>1, <1>9 DEF NeedsZone, FirstBlock
  <2>2. ChildSlots(ino)' = {k \in Slots : FirstChild(ino) <= k /\ k < 2}
    BY <1>1, <1>9 DEF ChildSlots, FirstChild
  <2>3. ino # 0  BY <1>1, DirBasics
  <2>4. ChildSlots(ino)' = {}
    BY <2>2, <2>3 DEF FirstChild, Slots
  <2> QED BY <1>1, <1>2, <1>9, <2>1, <2>4, NewDirBlock DEF NeedsZone
<1>10. table[cwd].links \notin ChildSlots(cwd)
  BY <1>1 DEF ChildSlots, Slots
<1> QED BY <1>5, <1>6, <1>8, <1>9, <1>10 DEF Entered

-----------------------------------------------------------------------------
\* Creating keeps the tree.

\* The new inode has one home, and nobody else's changes.
LEMMA HomesAfterCreate ==
  ASSUME TInv, ~ wild, NEW mode \in {"dir", "reg"}, NEW name \in UserNames,
         NEW text \in Texts \cup {Empty}, mode = "dir" => text = Empty,
         Create(mode, name, text), NEW ino, ino = Last + 1
  PROVE  /\ \A i \in 1 .. Last : Homes(i)' = Homes(i)
         /\ Homes(ino)' = {<<cwd, table[cwd].links>>}
<1> USE DEF TInv
<1>1. ino = Last + 1
  OBVIOUS
<1> DEFINE here == table[cwd].links
           entry == [link |-> ino, name |-> name]
<1>2. /\ Last' = ino /\ cwd' = cwd
      /\ ino \in Inodes /\ ino \notin Dirs /\ cwd < ino /\ here \in Slots
      /\ \A i \in Inodes : i # ino => table'[i].zone = table[i].zone /\ table'[i].mode = table[i].mode
      /\ table'[ino].mode = mode
      /\ Dirs' = IF mode = "dir" THEN Dirs \cup {ino} ELSE Dirs
  <2>1. Created(mode, name, text, ino)  BY CreateEffect
  <2> QED BY <2>1 DEF Created
<1>3. /\ \A d \in Dirs : \A k \in Slots :
           DirBlock(d)'.ents[k] = IF d = cwd /\ k = here THEN entry ELSE DirBlock(d).ents[k]
      /\ \A d \in Dirs : /\ table'[d].links = IF d = cwd THEN here + 1 ELSE table[d].links
                         /\ ChildSlots(d)' = IF d = cwd THEN ChildSlots(d) \cup {here} ELSE ChildSlots(d)
      /\ mode = "dir" =>
           /\ table'[ino].zone # 0 /\ table'[ino].links = 2 /\ ChildSlots(ino)' = {}
           /\ DirBlock(ino)'.ents[0] = [link |-> ino, name |-> "."]
           /\ DirBlock(ino)'.ents[1] = [link |-> cwd, name |-> ".."]
           /\ \A j \in Slots : j >= 2 => DirBlock(ino)'.ents[j] = NoEntry
      /\ here \notin ChildSlots(cwd)
  <2>1. Entered(mode, name, ino)  BY EntriesAfterCreate
  <2> QED BY <2>1 DEF Entered
<1>4. /\ cwd \in Dirs /\ 0 \in Dirs /\ Dirs \subseteq Inodes /\ Dirs \subseteq 0 .. Last
      /\ Last \in Nat /\ ino \in Nat /\ ino # 0 /\ ino # cwd /\ cwd \in Nat
  BY <1>1, <1>2, DirBasics DEF CwdIsDir
<1>5. \A i \in 1 .. Last : Homes(i)' = Homes(i)
  <2> SUFFICES ASSUME NEW i \in 1 .. Last, NEW d, NEW k
               PROVE  <<d, k>> \in Homes(i)' <=> <<d, k>> \in Homes(i)
    <3>1. \A i : Homes(i)' \subseteq Dirs' \X Slots /\ Homes(i) \subseteq Dirs \X Slots
      BY DEF Homes
    <3> QED BY <3>1
  <2>1. <<d, k>> \in Homes(i)' <=> /\ d \in Dirs' /\ k \in Slots
                                   /\ DirBlock(d)'.ents[k].link = i /\ k \in ChildSlots(d)'
    BY DEF Homes
  <2>2. <<d, k>> \in Homes(i) <=> /\ d \in Dirs /\ k \in Slots
                                  /\ DirBlock(d).ents[k].link = i /\ k \in ChildSlots(d)
    BY DEF Homes
  <2>3. i # ino  BY <1>1, <1>4
  <2>4. CASE d \in Dirs
    BY <1>2, <1>3, <1>4, <2>1, <2>2, <2>3, <2>4
  <2>5. CASE d \notin Dirs
    BY <1>2, <1>3, <2>1, <2>2, <2>5
  <2> QED BY <2>4, <2>5
<1>6. Homes(ino)' = {<<cwd, here>>}
  <2>1. ASSUME NEW d, NEW k
        PROVE  <<d, k>> \in Homes(ino)' <=> d = cwd /\ k = here
    <3>1. <<d, k>> \in Homes(ino)' <=> /\ d \in Dirs' /\ k \in Slots
                                       /\ DirBlock(d)'.ents[k].link = ino /\ k \in ChildSlots(d)'
      BY <1>1 DEF Homes
    <3>2. CASE d \in Dirs
      <4>1. k \in Slots => DirBlock(d).ents[k].link # ino
        <5>1. \A m \in 0 .. Last : m # ino  BY <1>1, <1>4
        <5> QED BY <3>2, <5>1 DEF LinksAreInodes
      <4>2. d \in Dirs' /\ (k \in ChildSlots(d)' <=> k \in ChildSlots(d) \/ (d = cwd /\ k = here))
        BY <1>2, <1>3, <3>2
      <4>3. CASE d = cwd /\ k = here
        BY <1>2, <1>3, <3>1, <3>2, <4>2, <4>3
      <4>4. CASE ~ (d = cwd /\ k = here)
        BY <1>3, <3>1, <3>2, <4>1, <4>4
      <4> QED BY <4>3, <4>4
    <3>3. CASE d \notin Dirs
      BY <1>2, <1>3, <1>4, <3>1, <3>3
    <3> QED BY <3>2, <3>3
  <2>2. Homes(ino)' \subseteq Dirs' \X Slots
    BY DEF Homes
  <2> QED BY <2>1, <2>2
<1> QED BY <1>5, <1>6

\* The tree's invariant survives a create.
LEMMA CreateKeepsTree ==
  ASSUME TInv, ~ wild, NEW mode \in {"dir", "reg"}, NEW name \in UserNames,
         NEW text \in Texts \cup {Empty}, mode = "dir" => text = Empty,
         Create(mode, name, text), NEW ino, ino = Last + 1
  PROVE  TInv'
<1> USE DEF TInv
<1>1. ino = Last + 1
  OBVIOUS
<1> DEFINE here == table[cwd].links
           entry == [link |-> ino, name |-> name]
<1>2. /\ Last' = ino /\ cwd' = cwd
      /\ ino \in Inodes /\ ino \notin Dirs /\ cwd < ino /\ here \in Slots
      /\ \A i \in Inodes : i # ino => table'[i].zone = table[i].zone /\ table'[i].mode = table[i].mode
      /\ table'[ino].mode = mode
      /\ Dirs' = IF mode = "dir" THEN Dirs \cup {ino} ELSE Dirs
  <2>1. Created(mode, name, text, ino)  BY CreateEffect
  <2> QED BY <2>1 DEF Created
<1>3. /\ \A d \in Dirs : \A k \in Slots :
           DirBlock(d)'.ents[k] = IF d = cwd /\ k = here THEN entry ELSE DirBlock(d).ents[k]
      /\ \A d \in Dirs : /\ table'[d].links = IF d = cwd THEN here + 1 ELSE table[d].links
                         /\ ChildSlots(d)' = IF d = cwd THEN ChildSlots(d) \cup {here} ELSE ChildSlots(d)
      /\ mode = "dir" =>
           /\ table'[ino].zone # 0 /\ table'[ino].links = 2 /\ ChildSlots(ino)' = {}
           /\ DirBlock(ino)'.ents[0] = [link |-> ino, name |-> "."]
           /\ DirBlock(ino)'.ents[1] = [link |-> cwd, name |-> ".."]
           /\ \A j \in Slots : j >= 2 => DirBlock(ino)'.ents[j] = NoEntry
      /\ here \notin ChildSlots(cwd)
  <2>1. Entered(mode, name, ino)  BY EntriesAfterCreate
  <2> QED BY <2>1 DEF Entered
<1>4. /\ cwd \in Dirs /\ 0 \in Dirs /\ Dirs \subseteq Inodes /\ Dirs \subseteq 0 .. Last
      /\ Last \in Nat /\ ino \in Nat /\ ino # 0 /\ ino # cwd /\ cwd \in Nat
  BY <1>1, <1>2, DirBasics DEF CwdIsDir
<1>5. IInv'
  BY CreatePreserves DEF UserNames, Args
<1>6. CwdIsDir'
  BY <1>2, <1>4 DEF CwdIsDir
<1>7. RootAtZero' /\ DirsHaveZone'
  BY <1>2, <1>3, <1>4 DEF RootAtZero, DirsHaveZone
<1>8. AppendCursor'
  <2>1. ASSUME NEW d \in Dirs', NEW k \in Slots
        PROVE  IF k < table'[d].links THEN DirBlock(d)'.ents[k].name # Empty
                                      ELSE DirBlock(d)'.ents[k] = NoEntry
    <3>1. CASE d = cwd
      <4>1. IF k < here THEN DirBlock(d).ents[k].name # Empty ELSE DirBlock(d).ents[k] = NoEntry
        BY <1>4, <3>1 DEF AppendCursor
      <4>2. k \in Nat /\ here \in Nat  BY <1>2, Constants DEF Slots
      <4>3. name # Empty  BY DEF UserNames
      <4> QED BY <1>3, <1>4, <3>1, <4>1, <4>2, <4>3
    <3>2. CASE d \in Dirs /\ d # cwd
      BY <1>3, <3>2 DEF AppendCursor
    <3>3. CASE mode = "dir" /\ d = ino
      <4>1. k \in Nat  BY Constants DEF Slots
      <4>2. k = 0 \/ k = 1 \/ k >= 2  BY <4>1
      <4>3. "." # Empty /\ ".." # Empty  BY DEF Empty
      <4> QED BY <1>3, <3>3, <4>1, <4>2, <4>3
    <3> QED BY <1>2, <3>1, <3>2, <3>3
  <2> QED BY <2>1 DEF AppendCursor
<1>9. LinksAreInodes'
  <2>1. ASSUME NEW d \in Dirs', NEW k \in Slots PROVE DirBlock(d)'.ents[k].link \in 0 .. ino
    <3>1. CASE d \in Dirs
      <4>1. DirBlock(d).ents[k].link \in 0 .. Last  BY <3>1 DEF LinksAreInodes
      <4>2. DirBlock(d).ents[k].link \in 0 .. ino  BY <1>1, <1>4, <4>1
      <4>3. entry.link \in 0 .. ino  BY <1>4
      <4>4. DirBlock(d)'.ents[k] = IF d = cwd /\ k = here THEN entry ELSE DirBlock(d).ents[k]
        BY <1>3, <3>1
      <4> QED BY <4>2, <4>3, <4>4
    <3>2. CASE mode = "dir" /\ d = ino
      <4>1. k = 0 \/ k = 1 \/ k >= 2  BY Constants DEF Slots
      <4>2. cwd \in 0 .. ino /\ ino \in 0 .. ino /\ 0 \in 0 .. ino  BY <1>2, <1>4
      <4> QED BY <1>3, <3>2, <4>1, <4>2 DEF NoEntry
    <3> QED BY <1>2, <3>1, <3>2
  <2> QED BY <1>2, <2>1 DEF LinksAreInodes
<1>10. DotsFirst'
  <2>1. ASSUME NEW d \in Dirs', d # 0
        PROVE  /\ table'[d].links >= 2
               /\ DirBlock(d)'.ents[0] = [link |-> d, name |-> "."]
               /\ DirBlock(d)'.ents[1].name = ".."
    <3>1. CASE d \in Dirs
      <4>1. /\ table[d].links >= 2
            /\ DirBlock(d).ents[0] = [link |-> d, name |-> "."]
            /\ DirBlock(d).ents[1].name = ".."
        BY <2>1, <3>1 DEF DotsFirst
      <4>2. d = cwd => here >= 2 /\ here \in Nat /\ here # 0 /\ here # 1 /\ here + 1 >= 2
        BY <1>2, <4>1, Constants DEF Slots
      <4> QED BY <1>3, <3>1, <4>1, <4>2, Constants
    <3>2. CASE mode = "dir" /\ d = ino
      BY <1>3, <3>2
    <3> QED BY <1>2, <3>1, <3>2
  <2> QED BY <2>1 DEF DotsFirst
<1>11. ChildrenNamed'
  <2>1. ASSUME NEW d \in Dirs', NEW k \in ChildSlots(d)' PROVE DirBlock(d)'.ents[k].name \in UserNames /\ DirBlock(d)'.ents[k].link # 0
    <3>1. CASE d \in Dirs
      <4>1. k \in ChildSlots(d) \/ (d = cwd /\ k = here)  BY <1>3, <3>1
      <4>2. k \in Slots  BY <1>2, <4>1 DEF ChildSlots
      <4> QED BY <1>3, <1>4, <3>1, <4>1, <4>2 DEF ChildrenNamed
    <3>2. CASE mode = "dir" /\ d = ino
      BY <1>3, <2>1, <3>2
    <3> QED BY <1>2, <3>1, <3>2
  <2> QED BY <2>1 DEF ChildrenNamed
<1>12. OldestFirst'
  <2>1. ASSUME NEW d \in Dirs', NEW j \in ChildSlots(d)', NEW k \in ChildSlots(d)', j < k
        PROVE  DirBlock(d)'.ents[j].link < DirBlock(d)'.ents[k].link
    <3>1. CASE d \in Dirs
      <4>1. /\ j \in ChildSlots(d) \/ (d = cwd /\ j = here)
            /\ k \in ChildSlots(d) \/ (d = cwd /\ k = here)
        BY <1>3, <3>1
      <4>2. j \in Slots /\ k \in Slots /\ j \in Nat /\ k \in Nat /\ here \in Nat
        BY <1>2, <4>1, Constants DEF ChildSlots, Slots
      <4>3. d = cwd => /\ j \in ChildSlots(d) => j < here
                       /\ k \in ChildSlots(d) => k < here
        BY DEF ChildSlots
      <4>4. DirBlock(d).ents[j].link < ino
        <5>1. DirBlock(d).ents[j].link \in 0 .. Last  BY <3>1, <4>2 DEF LinksAreInodes
        <5> QED BY <1>1, <1>4, <5>1
      <4>5. CASE d = cwd /\ k = here
        <5>1. j # here  BY <2>1, <4>2, <4>5
        <5> QED BY <1>3, <1>4, <3>1, <4>2, <4>4, <4>5, <5>1
      <4>6. CASE ~ (d = cwd /\ k = here)
        <5>1. k \in ChildSlots(d)  BY <4>1, <4>6
        <5>2. ~ (d = cwd /\ j = here)  BY <2>1, <4>2, <4>3, <5>1
        <5> QED BY <1>3, <2>1, <3>1, <4>1, <4>2, <4>6, <5>1, <5>2 DEF OldestFirst
      <4> QED BY <4>5, <4>6
    <3>2. CASE mode = "dir" /\ d = ino
      BY <1>3, <2>1, <3>2
    <3> QED BY <1>2, <3>1, <3>2
  <2> QED BY <2>1 DEF OldestFirst
<1>13. /\ \A i \in 1 .. Last : Homes(i)' = Homes(i)
       /\ Homes(ino)' = {<<cwd, here>>}
  BY HomesAfterCreate
<1>15. OneHome'
  <2>1. ASSUME NEW i \in 1 .. ino
        PROVE  \E p \in Dirs' \X Slots :
                 /\ Homes(i)' = {p} /\ p[1] < i
                 /\ table'[i].mode = "dir" => DirBlock(i)'.ents[1].link = p[1]
    <3>1. CASE i \in 1 .. Last
      <4>1. PICK p \in Dirs \X Slots :
              /\ Homes(i) = {p} /\ p[1] < i
              /\ table[i].mode = "dir" => DirBlock(i).ents[1].link = p[1]
        BY <3>1 DEF OneHome
      <4>2. i \in Inodes /\ i # ino /\ i # 0  BY <1>1, <1>4, <3>1, DirBasics
      <4>3. table'[i].mode = table[i].mode  BY <1>2, <4>2
      <4>4. table[i].mode = "dir" => DirBlock(i)'.ents[1].link = DirBlock(i).ents[1].link
        <5>1. i = cwd => here >= 2  BY <1>4, <4>2 DEF DotsFirst
        <5>2. i = cwd => here # 1  BY <1>2, <5>1, Constants DEF Slots
        <5>3. table[i].mode = "dir" => i \in Dirs  BY <4>2, DirBasics
        <5> QED BY <1>3, <5>2, <5>3, Constants
      <4>5. p \in Dirs' \X Slots  BY <1>2
      <4> QED BY <1>13, <3>1, <4>1, <4>3, <4>4, <4>5
    <3>2. CASE i = ino
      <4>1. <<cwd, here>> \in Dirs' \X Slots  BY <1>2, <1>4
      <4>2. mode = "dir" => DirBlock(ino)'.ents[1].link = cwd  BY <1>3
      <4> QED BY <1>2, <1>13, <3>2, <4>1, <4>2
    <3>3. i \in 1 .. Last \/ i = ino  BY <1>1, <1>4
    <3> QED BY <3>1, <3>2, <3>3
  <2> QED BY <1>2, <2>1 DEF OneHome
<1> QED BY <1>5, <1>6, <1>7, <1>8, <1>9, <1>10, <1>11, <1>12, <1>15

-----------------------------------------------------------------------------
\* The other commands.

LEMMA InitTree == Init => TInv
<1> SUFFICES ASSUME Init PROVE TInv
  OBVIOUS
<1>1. IInv  BY InitInv
<1>2. Last = 0 /\ cwd = 0 /\ \A i \in Inodes : table[i] = NoInode
  <2>1. sb.inodes = 1 .. 0  BY DEF Init
  <2> QED BY <2>1, RunEnds, Constants DEF Init, Last
<1>3. Dirs = {0} /\ table[0].zone = 0 /\ table[0].links = 0 /\ 0 \in Inodes
  BY <1>2, Constants DEF Dirs, NoInode
<1>4. DirBlock(0) = BlankBlock
  BY <1>3, Constants DEF Init, DirBlock
<1>5. \A k \in Slots : DirBlock(0).ents[k] = NoEntry
  BY <1>4 DEF BlankBlock
<1>6. \A k \in Slots : ~ (k < 0)
  BY Constants DEF Slots
<1>7. ChildSlots(0) = {}
  BY <1>3, <1>6 DEF ChildSlots
<1>8. AppendCursor /\ LinksAreInodes
  BY <1>2, <1>3, <1>5, <1>6 DEF AppendCursor, LinksAreInodes, NoEntry
<1>9. OneHome
  BY <1>2 DEF OneHome
<1> QED
  BY <1>1, <1>2, <1>3, <1>7, <1>8, <1>9
  DEF TInv, CwdIsDir, RootAtZero, DirsHaveZone, DotsFirst, ChildrenNamed, OldestFirst

\* A command that changes nothing but the current directory.
LEMMA ReadKeepsTree ==
  ASSUME TInv, IInv', UNCHANGED <<sb, table, disk>>, cwd' \in Dirs
  PROVE  TInv'
<1>1. Dirs' = Dirs /\ Last' = Last
  BY DEF Dirs, Last
<1>2. \A d : DirBlock(d)' = DirBlock(d) /\ ChildSlots(d)' = ChildSlots(d)
  BY DEF DirBlock, ChildSlots, FirstChild
<1>3. \A i : Homes(i)' = Homes(i)
  BY <1>1, <1>2 DEF Homes
<1>4. CwdIsDir' /\ RootAtZero' /\ DirsHaveZone' /\ AppendCursor'
  BY <1>1, <1>2 DEF TInv, CwdIsDir, RootAtZero, DirsHaveZone, AppendCursor
<1>5. LinksAreInodes' /\ DotsFirst' /\ ChildrenNamed' /\ OldestFirst'
  BY <1>1, <1>2 DEF TInv, LinksAreInodes, DotsFirst, ChildrenNamed, OldestFirst
<1>6. OneHome'
  BY <1>1, <1>2, <1>3 DEF TInv, OneHome
<1> QED BY <1>4, <1>5, <1>6 DEF TInv

\* A loop over the entries stops at one slot.
LEMMA FirstIsOne ==
  ASSUME NEW b, NEW n, NEW j \in Slots, NEW k \in Slots, FirstNamed(b, j, n), FirstNamed(b, k, n)
  PROVE  j = k
<1>1. j \in Nat /\ k \in Nat  BY Constants DEF Slots
<1>2. ~ (j < k)  BY <1>1 DEF FirstNamed
<1>3. ~ (k < j)  BY <1>1 DEF FirstNamed
<1> QED BY <1>1, <1>2, <1>3

LEMMA ResolveIs ==
  ASSUME NEW d, NEW n, NEW k \in Slots, FirstNamed(DirBlock(d), k, n)
  PROVE  Resolve(d, n) = {DirBlock(d).ents[k].link}
<1>1. {j \in Slots : FirstNamed(DirBlock(d), j, n)} = {k}
  BY FirstIsOne
<1> QED BY <1>1 DEF Resolve

\* cd as documented leads to a directory.
LEMMA CdToDir ==
  ASSUME TInv, NEW n \in Args, ChangeDir(n),
         \A i \in Resolve(cwd, n) : i = 0 \/ table[i].mode = "dir"
  PROVE  cwd' \in Dirs
<1>1. PICK k \in Slots : FirstNamed(Here, k, n) /\ cwd' = Here.ents[k].link
  BY DEF ChangeDir
<1>2. cwd' \in Resolve(cwd, n)
  BY <1>1, ResolveIs DEF Here
<1>3. cwd' \in 0 .. Last
  BY <1>1 DEF TInv, CwdIsDir, LinksAreInodes, Here
<1>4. cwd' \in Inodes
  BY <1>3, DirBasics DEF TInv
<1> QED BY <1>2, <1>4 DEF Dirs

LEMMA NextTree == TInv /\ [NextReadme]_vars => TInv'
<1> SUFFICES ASSUME TInv, [NextReadme]_vars PROVE TInv'
  OBVIOUS
<1>1. IInv'
  <2>1. [NextReadme]_vars => [NextApi]_vars
    BY DEF NextReadme, NextApi, Api, AsDocumented, Shell, UserNames
  <2> QED BY <2>1, NextInv DEF TInv
<1>2. ASSUME NEW n \in UserNames, ~ wild, Mkdir(n) PROVE TInv'
  BY <1>2, CreateKeepsTree DEF Mkdir
<1>3. ASSUME NEW n \in UserNames, ~ wild, Touch(n) PROVE TInv'
  BY <1>3, CreateKeepsTree DEF Touch
<1>4. ASSUME NEW n \in UserNames, NEW t \in Texts, ~ wild, Write(n, t) PROVE TInv'
  BY <1>4, CreateKeepsTree DEF Write
<1>5. ASSUME NEW n \in Args, ChangeDir(n),
             \A i \in Resolve(cwd, n) : i = 0 \/ table[i].mode = "dir"
      PROVE  TInv'
  BY <1>1, <1>5, CdToDir, ReadKeepsTree DEF ChangeDir
<1>6. ASSUME UNCHANGED <<sb, table, disk, cwd>> PROVE TInv'
  BY <1>1, <1>6, ReadKeepsTree DEF TInv, CwdIsDir
<1> QED
  BY <1>2, <1>3, <1>4, <1>5, <1>6
  DEF NextReadme, AsDocumented, Cat, CreateOverrun, FollowOverrun, vars

THEOREM TreeInvariance == SpecReadme => []TInv
<1>1. SpecReadme => []TInv
  BY InitTree, NextTree, PTL DEF SpecReadme
<1> QED BY <1>1

-----------------------------------------------------------------------------
\* What the tree's invariant says of looking things up.

\* The dot entries of a directory made by mkdir are the first two.
LEMMA DotsFound ==
  ASSUME TInv, NEW d \in Dirs, d # 0
  PROVE  FirstNamed(DirBlock(d), 0, ".") /\ FirstNamed(DirBlock(d), 1, "..")
<1>1. DirBlock(d).ents[0].name = "." /\ DirBlock(d).ents[1].name = ".."
  <2>1. DotsFirst  BY DEF TInv
  <2>2. DirBlock(d).ents[0] = [link |-> d, name |-> "."] /\ DirBlock(d).ents[1].name = ".."
    BY <2>1 DEF DotsFirst
  <2> QED BY <2>2
<1>2. 0 .. 0 - 1 = {} /\ 0 .. 1 - 1 = {0}
  OBVIOUS
<1> QED BY <1>1, <1>2 DEF FirstNamed

LEMMA ShapeOfTree == TInv => TreeShape
<1>0. TInv => sb.inodes = 1 .. Last
  BY LastIs DEF TInv
<1> SUFFICES ASSUME TInv, NEW i \in 1 .. Last
             PROVE  \E p \in Homes(i) :
                      /\ Homes(i) = {p}
                      /\ p[1] < i
                      /\ table[i].mode = "dir" => Resolve(i, ".") = {i} /\ Resolve(i, "..") = {p[1]}
  BY <1>0 DEF TreeShape
<1>1. PICK p \in Dirs \X Slots :
        /\ Homes(i) = {p} /\ p[1] < i
        /\ table[i].mode = "dir" => DirBlock(i).ents[1].link = p[1]
  BY DEF TInv, OneHome
<1>2. i \in Inodes /\ i # 0
  BY DirBasics DEF TInv
<1>3. ASSUME table[i].mode = "dir"
      PROVE  Resolve(i, ".") = {i} /\ Resolve(i, "..") = {p[1]}
  <2>1. i \in Dirs  BY <1>2, <1>3 DEF Dirs
  <2>2. DirBlock(i).ents[0].link = i
    <3>1. DotsFirst  BY DEF TInv
    <3>2. DirBlock(i).ents[0] = [link |-> i, name |-> "."]  BY <1>2, <2>1, <3>1 DEF DotsFirst
    <3> QED BY <3>2
  <2>3. Resolve(i, ".") = {DirBlock(i).ents[0].link} /\ Resolve(i, "..") = {DirBlock(i).ents[1].link}
    BY <1>2, <2>1, DotsFound, ResolveIs, Constants
  <2> QED BY <1>1, <1>3, <2>2, <2>3
<1> QED BY <1>1, <1>3

\* A home is the only slot of its directory that leads to the inode: the dot
\* entries of the directory lead to itself and to an older one.
LEMMA HomeSlot ==
  ASSUME TInv, NEW i \in 1 .. Last, NEW d \in Dirs, NEW k \in Slots, Homes(i) = {<<d, k>>}, d < i,
         NEW j \in Slots, DirBlock(d).ents[j].link = i
  PROVE  j = k
<1>1. j \in Nat /\ i \in Nat /\ d \in Nat /\ d \in 0 .. Last
  BY Constants, DirBasics DEF Slots, TInv
<1>2. j < table[d].links
  <2>1. CASE ~ (j < table[d].links)
    <3>1. DirBlock(d).ents[j] = NoEntry  BY <2>1 DEF TInv, AppendCursor
    <3> QED BY <1>1, <3>1 DEF NoEntry
  <2> QED BY <2>1
<1>3. FirstChild(d) <= j
  <2>1. CASE d = 0
    BY <1>1, <2>1 DEF FirstChild
  <2>2. CASE d # 0 /\ ~ (2 <= j)
    <3>1. d \in 1 .. Last /\ table[d].mode = "dir"
      <4>1. d \in Inodes /\ Last \in Nat  BY DirBasics DEF TInv
      <4>2. table[d].mode = "dir"  BY <2>2, <4>1, DirBasics DEF TInv
      <4> QED BY <1>1, <2>2, <4>1, <4>2
    <3>2. DirBlock(d).ents[0].link = d
      <4>1. DotsFirst  BY DEF TInv
      <4>2. DirBlock(d).ents[0] = [link |-> d, name |-> "."]  BY <2>2, <4>1 DEF DotsFirst
      <4> QED BY <4>2
    <3>3. DirBlock(d).ents[1].link < d
      BY <3>1 DEF TInv, OneHome
    <3>4. DirBlock(d).ents[1].link \in Nat
      BY Constants DEF TInv, LinksAreInodes
    <3>5. j = 0 \/ j = 1
      BY <1>1, <2>2
    <3> QED BY <1>1, <3>2, <3>3, <3>4, <3>5
  <2> QED BY <2>1, <2>2 DEF FirstChild
<1>4. <<d, j>> \in Homes(i)
  BY <1>2, <1>3 DEF Homes, ChildSlots
<1> QED BY <1>4

LEMMA PwdOfTree == TInv => PwdResolves
<1> SUFFICES ASSUME TInv, cwd # 0, NEW p \in Homes(cwd)
             PROVE  CwdName = {DirBlock(p[1]).ents[p[2]].name}
  BY DEF PwdResolves
<1>1. cwd \in Dirs /\ cwd \in 1 .. Last /\ table[cwd].mode = "dir"
  BY DirBasics DEF TInv, CwdIsDir
<1>2. PICK q \in Dirs \X Slots :
        Homes(cwd) = {q} /\ q[1] < cwd /\ DirBlock(cwd).ents[1].link = q[1]
  BY <1>1 DEF TInv, OneHome
<1>3. PICK d \in Dirs, k \in Slots : q = <<d, k>>
  OBVIOUS
<1>4. p = <<d, k>> /\ Homes(cwd) = {<<d, k>>} /\ d < cwd /\ DirBlock(d).ents[k].link = cwd
  BY <1>2, <1>3 DEF Homes
<1>5. CwdParent = d
  <2>1. Resolve(cwd, "..") = {d}
    BY <1>1, <1>2, <1>3, DotsFound, ResolveIs, Constants
  <2> QED BY <2>1 DEF CwdParent
<1>6. ASSUME NEW j \in Slots
      PROVE  /\ DirBlock(d).ents[j].link = cwd
             /\ \A i \in 0 .. j - 1 : DirBlock(d).ents[i].link # cwd
             <=> j = k
  <2>1. DirBlock(d).ents[j].link = cwd <=> j = k
    BY <1>1, <1>4, HomeSlot
  <2>2. ASSUME NEW i \in 0 .. k - 1 PROVE DirBlock(d).ents[i].link # cwd
    <3>1. i \in Slots /\ i # k  BY Constants DEF Slots
    <3> QED BY <1>1, <1>4, <3>1, HomeSlot
  <2> QED BY <2>1, <2>2
<1>7. {j \in Slots : /\ DirBlock(d).ents[j].link = cwd
                     /\ \A i \in 0 .. j - 1 : DirBlock(d).ents[i].link # cwd} = {k}
  BY <1>6
<1>8. CwdName = {DirBlock(d).ents[j].name : j \in {k}}
  BY <1>5, <1>7 DEF CwdName
<1> QED BY <1>4, <1>8

\* A directory's num_links is its append cursor for every capacity: no create
\* overwrites an entry, and nothing lies above it.
THEOREM CursorAppends == SpecReadme => []AppendCursor
<1>1. TInv => AppendCursor
  BY DEF TInv
<1> QED BY <1>1, TreeInvariance, PTL

\* Every inode made is entered once, in an older directory, and cd .. leads
\* from a directory to the one that holds it.
THEOREM TreeStands == SpecReadme => []TreeShape
<1> QED BY ShapeOfTree, TreeInvariance, PTL

\* get_inode_name finds the name of the current directory.
THEOREM PwdFinds == SpecReadme => []PwdResolves
<1> QED BY PwdOfTree, TreeInvariance, PTL

-----------------------------------------------------------------------------
\* The refinement: the nodes of the tree are the inodes above the root's.

Nodes == [i \in sb.inodes |-> NodeOf(i)]

LEMMA NodesAre ==
  ASSUME IInv
  PROVE  Nodes = [i \in 1 .. Last |-> NodeOf(i)]
<1>1. sb.inodes = 1 .. Last
  BY LastIs
<1> QED BY <1>1 DEF Nodes

LEMMA NodeIs ==
  ASSUME NEW i, NEW d, NEW k, Homes(i) = {<<d, k>>}
  PROVE  NodeOf(i) = [kind |-> table[i].mode, name |-> DirBlock(d).ents[k].name, parent |-> d,
                      text |-> IF table[i].zone = 0 THEN Empty ELSE DirBlock(i).text]
<1>1. (CHOOSE q \in Homes(i) : TRUE) = <<d, k>>
  OBVIOUS
<1> QED BY <1>1 DEF NodeOf

LEMMA HomeOf ==
  ASSUME TInv, NEW i \in 1 .. Last
  PROVE  \E d \in Dirs, k \in Slots :
           /\ Homes(i) = {<<d, k>>} /\ d < i
           /\ k \in ChildSlots(d) /\ DirBlock(d).ents[k].link = i
           /\ NodeOf(i) = [kind |-> table[i].mode, name |-> DirBlock(d).ents[k].name, parent |-> d,
                           text |-> IF table[i].zone = 0 THEN Empty ELSE DirBlock(i).text]
<1>1. PICK q \in Dirs \X Slots : Homes(i) = {q} /\ q[1] < i
  BY DEF TInv, OneHome
<1>2. PICK d \in Dirs, k \in Slots : q = <<d, k>>
  OBVIOUS
<1>3. <<d, k>> \in Homes(i) /\ Homes(i) = {<<d, k>>} /\ d < i
  BY <1>1, <1>2
<1>4. k \in ChildSlots(d) /\ DirBlock(d).ents[k].link = i
  BY <1>3 DEF Homes
<1> QED BY <1>3, <1>4, NodeIs

LEMMA AppendIs ==
  ASSUME NEW n \in Nat, NEW s, s = [i \in 1 .. n |-> s[i]], NEW e
  PROVE  Append(s, e) = [i \in 1 .. n + 1 |-> IF i = n + 1 THEN e ELSE s[i]]
<1> DEFINE S == {s[i] : i \in 1 .. n} \cup {e}
<1>1. s \in [1 .. n -> S]
  OBVIOUS
<1>2. s \in Seq(S) /\ Len(s) = n
  BY <1>1
<1> QED BY <1>2

LEMMA CreateMakes ==
  ASSUME TInv, ~ wild, NEW mode \in {"dir", "reg"}, NEW name \in UserNames,
         NEW text \in Texts \cup {Empty}, mode = "dir" => text = Empty,
         Create(mode, name, text), NEW ino, ino = Last + 1
  PROVE  Nodes' = Append(Nodes, [kind |-> mode, name |-> name, parent |-> cwd, text |-> text])
<1> DEFINE here == table[cwd].links
           node == [kind |-> mode, name |-> name, parent |-> cwd, text |-> text]
<1>1. Created(mode, name, text, ino)
  BY CreateEffect DEF TInv
<1>2. Entered(mode, name, ino)
  BY EntriesAfterCreate
<1>3. TInv'
  BY CreateKeepsTree
<1>4. /\ Last \in Nat /\ Last' = ino /\ ino \in Inodes /\ cwd \in Inodes /\ cwd \in Dirs /\ cwd # ino
      /\ here \in Slots /\ here \in Nat /\ 1 .. Last \subseteq Inodes /\ DirBlock(cwd) \in Block
  BY <1>1, DirBasics, Constants DEF Created, TInv, CwdIsDir, Slots
<1>5. /\ \A i \in 1 .. Last : Homes(i)' = Homes(i)
      /\ Homes(ino)' = {<<cwd, here>>}
  BY HomesAfterCreate
<1>6. ASSUME NEW i, NEW d, NEW k, Homes(i)' = {<<d, k>>}
      PROVE  NodeOf(i)' = [kind |-> table'[i].mode, name |-> DirBlock(d)'.ents[k].name, parent |-> d,
                           text |-> IF table'[i].zone = 0 THEN Empty ELSE DirBlock(i)'.text]
  <2> DEFINE home == CHOOSE q \in Homes(i)' : TRUE
  <2>1. home = <<d, k>>
    BY <1>6
  <2>2. NodeOf(i)' = [kind |-> table'[i].mode,
                      name |-> disk'[table'[home[1]].zone].ents[home[2]].name, parent |-> home[1],
                      text |-> IF table'[i].zone = 0 THEN Empty ELSE disk'[table'[i].zone].text]
    BY DEF NodeOf, DirBlock
  <2> HIDE DEF home
  <2>3. home[1] = d /\ home[2] = k
    BY <2>1
  <2> QED BY <2>2, <2>3 DEF DirBlock
<1>7. ASSUME NEW i \in 1 .. Last PROVE NodeOf(i)' = NodeOf(i)
  <2>1. PICK d \in Dirs, k \in Slots :
          /\ Homes(i) = {<<d, k>>} /\ k \in ChildSlots(d) /\ DirBlock(d).ents[k].link = i
          /\ NodeOf(i) = [kind |-> table[i].mode, name |-> DirBlock(d).ents[k].name, parent |-> d,
                          text |-> IF table[i].zone = 0 THEN Empty ELSE DirBlock(i).text]
    BY HomeOf
  <2>2. i # ino /\ i # 0 /\ i \in Inodes
    BY <1>4
  <2>3. table'[i].mode = table[i].mode /\ table'[i].zone = table[i].zone
    BY <1>1, <2>2 DEF Created
  <2>4. DirBlock(d)'.ents[k].name = DirBlock(d).ents[k].name
    BY <1>2, <2>1 DEF Entered
  <2>5. table[i].zone # 0 => DirBlock(i)'.text = DirBlock(i).text
    <3>1. CASE i # cwd
      BY <1>1, <2>2, <3>1 DEF Created
    <3>2. CASE i = cwd
      <4>1. here # 0
        <5>1. DotsFirst  BY DEF TInv
        <5>2. here >= 2  BY <1>4, <2>2, <3>2, <5>1 DEF DotsFirst
        <5> QED BY <5>2
      <4>2. DirBlock(cwd)'.text = DirBlock(cwd).text
        BY <1>1, <1>4, <4>1, PutEntryEffect DEF Created
      <4>3. DirBlock(i)' = DirBlock(cwd)'
        BY <1>1, <3>2 DEF Created, DirBlock
      <4> QED BY <3>2, <4>2, <4>3
    <3> QED BY <3>1, <3>2
  <2>6. Homes(i)' = {<<d, k>>}
    BY <1>5, <2>1
  <2> QED BY <1>6, <2>1, <2>3, <2>4, <2>5, <2>6
<1>8. NodeOf(ino)' = node
  <2>1. NodeOf(ino)' = [kind |-> table'[ino].mode, name |-> DirBlock(cwd)'.ents[here].name, parent |-> cwd,
                        text |-> IF table'[ino].zone = 0 THEN Empty ELSE DirBlock(ino)'.text]
    <3>1. PICK d : d = cwd
      OBVIOUS
    <3>2. NodeOf(ino)' = [kind |-> table'[ino].mode, name |-> DirBlock(d)'.ents[here].name, parent |-> d,
                          text |-> IF table'[ino].zone = 0 THEN Empty ELSE DirBlock(ino)'.text]
      BY <1>5, <1>6, <3>1
    <3>3. cwd' = cwd
      BY <1>1 DEF Created
    <3> QED BY <3>1, <3>2, <3>3 DEF DirBlock
  <2>2. table'[ino].mode = mode
    BY <1>1 DEF Created
  <2>3. DirBlock(cwd)'.ents[here].name = name
    BY <1>1, <1>4, PutEntryEffect DEF Created
  <2>4. (IF table'[ino].zone = 0 THEN Empty ELSE DirBlock(ino)'.text) = text
    <3>1. CASE NeedsZone(mode, text)
      <4>1. table'[ino].zone # 0 /\ DirBlock(ino)' = FirstBlock(mode, BlankBlock, ino, text)
        BY <1>1, <3>1 DEF Created
      <4>2. CASE mode = "dir"
        BY <1>4, <4>1, <4>2, NewDirBlock DEF FirstBlock
      <4>3. CASE mode # "dir"
        BY <4>1, <4>3 DEF FirstBlock, TextBlock
      <4> QED BY <4>1, <4>2, <4>3
    <3>2. CASE ~ NeedsZone(mode, text)
      <4>1. text = Empty  BY <3>2 DEF NeedsZone
      <4>2. table'[ino].zone = 0  BY <1>1, <3>2 DEF Created
      <4> QED BY <4>1, <4>2
    <3> QED BY <3>1, <3>2
  <2> QED BY <2>1, <2>2, <2>3, <2>4
<1>9. Nodes = [i \in 1 .. Last |-> Nodes[i]] /\ \A i \in 1 .. Last : Nodes[i] = NodeOf(i)
  BY NodesAre DEF TInv
<1>10. Append(Nodes, node) = [i \in 1 .. Last + 1 |-> IF i = Last + 1 THEN node ELSE Nodes[i]]
  BY <1>4, <1>9, AppendIs
<1>11. \A i \in 1 .. Last + 1 : NodeOf(i)' = IF i = Last + 1 THEN node ELSE Nodes[i]
  <2>1. \A i \in 1 .. Last + 1 : i = Last + 1 \/ i \in 1 .. Last
    BY <1>4
  <2> QED BY <1>7, <1>8, <1>9, <2>1
<1>12. Nodes' = [i \in 1 .. Last + 1 |-> NodeOf(i)']
  <2>1. sb'.inodes = 1 .. ino
    <3>1. PICK n \in Inodes : sb'.inodes = 1 .. n
      BY <1>3 DEF TInv, IInv, MadeInOrder
    <3>2. Last' = n
      BY <3>1, RunEnds DEF Last
    <3> QED BY <1>4, <3>1, <3>2
  <2> QED BY <2>1 DEF Nodes
<1> QED BY <1>10, <1>11, <1>12

LEMMA MakeShown ==
  ASSUME TInv, ~ wild, NEW mode \in {"dir", "reg"}, NEW name \in UserNames,
         NEW text \in Texts \cup {Empty}, mode = "dir" => text = Empty,
         Create(mode, name, text)
  PROVE  Tree!Next
<1>1. PICK ino : ino = Last + 1
  OBVIOUS
<1>2. Nodes' = Append(Nodes, [kind |-> mode, name |-> name, parent |-> cwd, text |-> text])
  BY <1>1, CreateMakes
<1>3. cwd' = cwd
  BY DEF Create
<1>4. Tree!Make(mode, name, text)
  BY <1>2, <1>3 DEF Tree!Make, Tree!Empty, Nodes, Empty
<1> QED BY <1>4 DEF Tree!Next, Tree!Empty, Empty

\* cd, for each kind of name.
LEMMA CdShown ==
  ASSUME TInv, NEW n \in Args, ChangeDir(n),
         \A i \in Resolve(cwd, n) : i = 0 \/ table[i].mode = "dir"
  PROVE  Tree!Next \/ UNCHANGED <<Nodes, cwd>>
<1>1. PICK k \in Slots : FirstNamed(Here, k, n) /\ cwd' = Here.ents[k].link
  BY DEF ChangeDir
<1>2. Here = DirBlock(cwd) /\ cwd \in Dirs /\ Here.ents[k].name = n
  BY <1>1 DEF Here, TInv, CwdIsDir, FirstNamed
<1>3. Nodes' = Nodes
  <2>1. \A d : DirBlock(d)' = DirBlock(d) /\ ChildSlots(d)' = ChildSlots(d)
    BY DEF ChangeDir, DirBlock, ChildSlots, FirstChild
  <2>2. Dirs' = Dirs
    BY DEF ChangeDir, Dirs
  <2>3. \A i : Homes(i)' = Homes(i)
    BY <2>1, <2>2 DEF Homes
  <2>4. \A i : NodeOf(i)' = NodeOf(i)
    BY <2>3 DEF NodeOf, DirBlock, ChangeDir
  <2> QED BY <2>4 DEF Nodes, ChangeDir
<1>4. \A i \in 1 .. Last : Nodes[i] = NodeOf(i)
  BY NodesAre DEF TInv
<1>5. DOMAIN Nodes = 1 .. Last
  BY NodesAre DEF TInv
<1>6. k \in Nat /\ cwd \in 0 .. Last
  BY <1>2, DirBasics, Constants DEF Slots, TInv
<1>7. CASE n = Empty
  <2>1. ~ (k < table[cwd].links)
    BY <1>2, <1>7 DEF TInv, AppendCursor
  <2>2. Here.ents[k] = NoEntry
    BY <1>2, <2>1 DEF TInv, AppendCursor
  <2>3. Tree!Home
    BY <1>1, <1>3, <2>2 DEF Tree!Home, NoEntry, Nodes
  <2> QED BY <2>3 DEF Tree!Next
<1>8. ASSUME n # Empty, cwd = 0 PROVE n \in UserNames
  <2>1. k < table[cwd].links
    <3>1. CASE ~ (k < table[cwd].links)
      <4>1. Here.ents[k] = NoEntry  BY <1>2, <3>1 DEF TInv, AppendCursor
      <4> QED BY <1>2, <1>8, <4>1 DEF NoEntry
    <3> QED BY <3>1
  <2>2. k \in ChildSlots(cwd)
    BY <1>6, <1>8, <2>1 DEF ChildSlots, FirstChild
  <2> QED BY <1>2, <2>2 DEF TInv, ChildrenNamed
<1>9. CASE n = "."
  <2>1. cwd # 0
    BY <1>8, <1>9 DEF UserNames, Empty
  <2>2. k = 0
    BY <1>1, <1>2, <1>9, <2>1, DotsFound, FirstIsOne, Constants
  <2>3. DotsFirst  BY DEF TInv
  <2>4. Here.ents[0] = [link |-> cwd, name |-> "."]
    BY <1>2, <2>1, <2>3 DEF DotsFirst
  <2> QED BY <1>1, <1>3, <2>2, <2>4
<1>10. CASE n = ".."
  <2>1. cwd # 0
    BY <1>8, <1>10 DEF UserNames, Empty
  <2>2. k = 1
    BY <1>1, <1>2, <1>10, <2>1, DotsFound, FirstIsOne, Constants
  <2>3. cwd \in 1 .. Last /\ table[cwd].mode = "dir"
    <3>1. cwd \in Inodes /\ Last \in Nat  BY <1>2, DirBasics DEF TInv
    <3>2. table[cwd].mode = "dir"  BY <1>2, <2>1, <3>1, DirBasics DEF TInv
    <3> QED BY <1>6, <2>1, <3>1, <3>2
  <2>4. PICK q \in Dirs \X Slots : Homes(cwd) = {q} /\ Here.ents[1].link = q[1]
    BY <1>2, <2>3 DEF TInv, OneHome
  <2>5. PICK d \in Dirs, j \in Slots : q = <<d, j>>
    OBVIOUS
  <2>6. Nodes[cwd].parent = d
    <3>1. Homes(cwd) = {<<d, j>>}  BY <2>4, <2>5
    <3>2. NodeOf(cwd) = [kind |-> table[cwd].mode, name |-> DirBlock(d).ents[j].name, parent |-> d,
                         text |-> IF table[cwd].zone = 0 THEN Empty ELSE DirBlock(cwd).text]
      BY <3>1, NodeIs
    <3>3. Nodes[cwd] = NodeOf(cwd)  BY <1>4, <2>3
    <3> QED BY <3>2, <3>3
  <2>7. Tree!Up
    BY <1>1, <1>3, <2>1, <2>2, <2>4, <2>5, <2>6 DEF Tree!Up, Nodes
  <2> QED BY <2>7 DEF Tree!Next
<1>11. CASE n \in UserNames
  <2>1. n # Empty /\ n # "." /\ n # ".."
    BY <1>11 DEF UserNames
  <2>2. k < table[cwd].links
    <3>1. CASE ~ (k < table[cwd].links)
      <4>1. Here.ents[k] = NoEntry  BY <1>2, <3>1 DEF TInv, AppendCursor
      <4> QED BY <1>2, <2>1, <4>1 DEF NoEntry
    <3> QED BY <3>1
  <2>3. FirstChild(cwd) <= k
    <3>1. CASE cwd = 0
      BY <1>6, <3>1 DEF FirstChild
    <3>2. CASE cwd # 0
      <4>1. DotsFirst  BY DEF TInv
      <4>2. Here.ents[0] = [link |-> cwd, name |-> "."] /\ Here.ents[1].name = ".."
        BY <1>2, <3>2, <4>1 DEF DotsFirst
      <4>3. k # 0 /\ k # 1
        BY <1>2, <2>1, <4>2
      <4> QED BY <1>6, <3>2, <4>3 DEF FirstChild
    <3> QED BY <3>1, <3>2
  <2>4. k \in ChildSlots(cwd)
    BY <2>2, <2>3 DEF ChildSlots
  <2> DEFINE i == Here.ents[k].link
  <2>5. i \in 1 .. Last
    <3>1. i \in 0 .. Last /\ i # 0
      BY <1>2, <2>4 DEF TInv, LinksAreInodes, ChildrenNamed
    <3> QED BY <3>1
  <2>6. <<cwd, k>> \in Homes(i)
    BY <1>2, <2>4 DEF Homes
  <2>7. Homes(i) = {<<cwd, k>>}
    BY <2>5, <2>6 DEF TInv, OneHome
  <2>8. Nodes[i].parent = cwd /\ Nodes[i].name = n /\ Nodes[i].kind = table[i].mode
    <3>1. NodeOf(i) = [kind |-> table[i].mode, name |-> Here.ents[k].name, parent |-> cwd,
                       text |-> IF table[i].zone = 0 THEN Empty ELSE DirBlock(i).text]
      BY <1>2, <2>7, NodeIs
    <3>2. Nodes[i] = NodeOf(i)  BY <1>4, <2>5
    <3> QED BY <1>2, <3>1, <3>2
  <2>9. table[i].mode = "dir"
    <3>1. i \in Resolve(cwd, n)
      BY <1>1, <1>2, ResolveIs
    <3> QED BY <2>5, <3>1
  <2>10. ASSUME NEW j \in 1 .. Last, Nodes[j].parent = cwd, Nodes[j].name = n
         PROVE  i <= j
    <3>1. PICK d \in Dirs, h \in Slots :
            /\ h \in ChildSlots(d) /\ DirBlock(d).ents[h].link = j
            /\ NodeOf(j) = [kind |-> table[j].mode, name |-> DirBlock(d).ents[h].name, parent |-> d,
                            text |-> IF table[j].zone = 0 THEN Empty ELSE DirBlock(j).text]
      BY HomeOf
    <3>2. d = cwd /\ Here.ents[h].name = n
      BY <1>2, <1>4, <2>10, <3>1
    <3>3. ~ (h < k)
      <4>1. h \in Nat  BY Constants DEF Slots
      <4> QED BY <1>1, <1>6, <3>2, <4>1 DEF FirstNamed
    <3>4. CASE h = k
      BY <1>2, <2>5, <3>1, <3>2, <3>4
    <3>5. CASE k < h
      <4>1. i < j
        BY <1>2, <2>4, <3>1, <3>2, <3>5 DEF TInv, OldestFirst
      <4> QED BY <2>5, <4>1
    <3>6. h = k \/ k < h
      BY <1>6, <3>3, Constants DEF Slots
    <3> QED BY <3>4, <3>5, <3>6
  <2>11. Tree!Named(n) = {j \in 1 .. Last : Nodes[j].parent = cwd /\ Nodes[j].name = n}
    BY <1>5 DEF Tree!Named, Nodes
  <2>12. i \in Tree!Named(n) /\ \A j \in Tree!Named(n) : i <= j
    BY <2>5, <2>8, <2>10, <2>11
  <2>13. Tree!Enter(n)
    BY <1>1, <1>3, <2>8, <2>9, <2>12 DEF Tree!Enter, Nodes
  <2> QED BY <1>11, <2>13 DEF Tree!Next
<1> QED BY <1>7, <1>9, <1>10, <1>11 DEF Args, UserNames

LEMMA NextShown == TInv /\ [NextReadme]_vars => [Tree!Next]_<<Nodes, cwd>>
<1> SUFFICES ASSUME TInv, [NextReadme]_vars
             PROVE  Tree!Next \/ UNCHANGED <<Nodes, cwd>>
  OBVIOUS
<1>1. ASSUME NEW n \in UserNames, ~ wild, Mkdir(n) PROVE Tree!Next
  BY <1>1, MakeShown DEF Mkdir
<1>2. ASSUME NEW n \in UserNames, ~ wild, Touch(n) PROVE Tree!Next
  BY <1>2, MakeShown DEF Touch
<1>3. ASSUME NEW n \in UserNames, NEW t \in Texts, ~ wild, Write(n, t) PROVE Tree!Next
  BY <1>3, MakeShown DEF Write
<1>4. ASSUME NEW n \in Args, ChangeDir(n),
             \A i \in Resolve(cwd, n) : i = 0 \/ table[i].mode = "dir"
      PROVE  Tree!Next \/ UNCHANGED <<Nodes, cwd>>
  BY <1>4, CdShown
<1>5. ASSUME UNCHANGED <<sb, table, disk, cwd>> PROVE UNCHANGED <<Nodes, cwd>>
  <2>1. \A d : DirBlock(d)' = DirBlock(d) /\ ChildSlots(d)' = ChildSlots(d)
    BY <1>5 DEF DirBlock, ChildSlots, FirstChild
  <2>2. Dirs' = Dirs
    BY <1>5 DEF Dirs
  <2>3. \A i : Homes(i)' = Homes(i)
    BY <2>1, <2>2 DEF Homes
  <2>4. \A i : NodeOf(i)' = NodeOf(i)
    BY <1>5, <2>3 DEF NodeOf, DirBlock
  <2> QED BY <1>5, <2>4 DEF Nodes
<1> QED
  BY <1>1, <1>2, <1>3, <1>4, <1>5
  DEF NextReadme, AsDocumented, Cat, CreateOverrun, FollowOverrun, vars

\* The shell used as documented implements the growing tree, whatever the
\* capacities: each command adds one node under the current directory or moves
\* along the tree's edges, and nothing a node holds ever changes.
THEOREM ShellImplementsTree == SpecReadme => ImplementsTree
<1>1. Init => Tree!Init
  <2>1. Init => Nodes = << >>
    <3>1. Init => sb.inodes = {}  BY DEF Init
    <3> QED BY <3>1 DEF Nodes
  <2> QED BY <2>1 DEF Init, Tree!Init, Nodes
<1>2. TInv /\ [NextReadme]_vars => [Tree!Next]_<<Nodes, cwd>>
  BY NextShown
<1> QED BY <1>1, <1>2, TreeInvariance, PTL DEF SpecReadme, ImplementsTree, Tree!Spec, Tree!treeVars, Nodes
=============================================================================
