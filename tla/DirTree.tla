------------------------------ MODULE DirTree ------------------------------
(***************************************************************************)
(* What the shell's user is promised of the filesystem: a tree that only   *)
(* grows.  mkdir, touch and write add a node under the current directory;  *)
(* cd moves to the first child of that name, to the parent, or to the      *)
(* root; nothing a node holds ever changes.  Nodes are numbered in the     *)
(* order they were made, 0 being the root, which has no record.            *)
(***************************************************************************)
EXTENDS Integers, Sequences

CONSTANTS Names, Texts

Empty == ""  \* the text of a directory or an empty file

VARIABLES
  nodes,  \* the nodes, in the order they were made
  here    \* the current directory

treeVars == <<nodes, here>>

Init == nodes = <<>> /\ here = 0

Make(kind, name, text) ==
  /\ kind = "dir" => text = Empty
  /\ UNCHANGED here
  /\ nodes' = Append(nodes, [kind |-> kind, name |-> name, parent |-> here, text |-> text])

Named(n) == {i \in DOMAIN nodes : nodes[i].parent = here /\ nodes[i].name = n}

Enter(n) ==
  /\ \E i \in Named(n) : /\ here' = i
                         /\ nodes[i].kind = "dir"
                         /\ \A j \in Named(n) : i <= j
  /\ UNCHANGED nodes

Up ==
  /\ here # 0
  /\ here' = nodes[here].parent
  /\ UNCHANGED nodes

Home == here' = 0 /\ UNCHANGED nodes

Next ==
  \/ \E k \in {"dir", "reg"}, n \in Names, t \in Texts \cup {Empty} : Make(k, n, t)
  \/ \E n \in Names : Enter(n)
  \/ Up
  \/ Home

Spec == Init /\ [][Next]_treeVars
=============================================================================
