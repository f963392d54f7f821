---------------------------- MODULE CommandLine ----------------------------
(***************************************************************************)
(* What a shell promises of the lines it is sent: each is run once, in the *)
(* order they came, as its first word with the rest as the argument; lines *)
(* are cut at MaxLine characters, and what follows a NUL does not count.   *)
(* When memory is short a line may be ignored or lose its argument, but no *)
(* command runs that was not sent.                                         *)
(***************************************************************************)
EXTENDS Naturals, Sequences

CONSTANTS
  Letters,   \* the characters of a word
  Space, Nul,
  MaxLine,   \* characters of a line that count
  Commands,  \* the words that are commands
  Writer     \* the command that takes two words

VARIABLES
  cur,   \* the line being sent
  todo,  \* the lines sent and not yet run
  ran,   \* what came of the line run last
  poor   \* memory is short

Places(c, l) == {i \in DOMAIN l : l[i] = c}

\* What stands before the first c.
Before(c, l) ==
  IF Places(c, l) = {} THEN l
  ELSE SubSeq(l, 1, (CHOOSE i \in Places(c, l) : \A j \in Places(c, l) : i <= j) - 1)

\* What counts of a line, its first word, and what follows the space behind it.
Counted(l) == Before(Nul, l)
First(l)   == Before(Space, l)
Rest(l)    == SubSeq(l, Len(First(l)) + 2, Len(l))

Nothing == [how |-> "none", name |-> <<>>, args |-> <<>>]

Does(h, l, a) == [how |-> h, name |-> First(l), args |-> a]

\* A writer without a second word may write anything.
Outcome(l) ==
  IF First(l) \notin Commands THEN Does("unknown", l, <<>>)
  ELSE IF First(l) = Writer /\ Places(Space, Rest(l)) = {} THEN Does("garbage", l, Rest(l))
  ELSE Does("run", l, Rest(l))

\* What may come of a line when memory is short.
PoorOutcomes(l) ==
  {Does("quiet", l, <<>>)} \cup
  (IF First(l) \in Commands
   THEN {Does("garbage", l, a) : a \in {<<>>, Rest(l)} } \cup {Does("run", l, <<>>)}
   ELSE {})

Init == cur = <<>> /\ todo = <<>> /\ ran = Nothing /\ poor \in BOOLEAN

Send(c) ==
  /\ cur' = IF Len(cur) < MaxLine THEN Append(cur, c) ELSE cur
  /\ UNCHANGED <<todo, ran, poor>>

Enter ==
  /\ todo' = Append(todo, cur) /\ cur' = <<>>
  /\ UNCHANGED <<ran, poor>>

Run ==
  /\ todo # <<>> /\ ran = Nothing
  /\ todo' = Tail(todo)
  /\ \E l \in {Counted(Head(todo))} :
       ran' \in {Outcome(l)} \cup (IF poor THEN PoorOutcomes(l) ELSE {})
  /\ poor => poor'
  /\ UNCHANGED cur

Done ==
  /\ ran # Nothing /\ ran' = Nothing
  /\ poor => poor'
  /\ UNCHANGED <<cur, todo>>

Next == (\E c \in Letters \cup {Space, Nul} : Send(c)) \/ Enter \/ Run \/ Done

Spec == Init /\ [][Next]_<<cur, todo, ran, poor>>
=============================================================================
