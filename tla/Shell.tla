------------------------------- MODULE Shell -------------------------------
(***************************************************************************)
(* The command loop of src/kernel/cli.c from the UART to the handlers:     *)
(* poll_cli_input with its line buffer, handle_cmd, split_str and the      *)
(* command table, on a heap that runs out because nothing is ever freed.   *)
(*                                                                         *)
(* The UART receives characters while the loop or a handler is busy; its   *)
(* FIFO drops what it has no room for.  '\r' and '\n' are one character,   *)
(* Newline: the loop treats them alike.  A NUL received is a character     *)
(* like others to the loop, and the end of the line to handle_cmd.  The    *)
(* heap is what is left of KERNEL_HEAP_SIZE: kmalloc compares the size     *)
(* asked for with that, and a block takes a header more.  NULL is a place  *)
(* that can be written to and read from, address 0; what is read there is  *)
(* garbage.                                                                *)
(***************************************************************************)
EXTENDS Integers, Sequences, SequencesExt

CONSTANTS
  Letters,     \* characters that make words
  Space, Newline, Nul,
  Commands,    \* the names in cmd_entries
  Writer,      \* "write", which splits its argument again
  MaxCmd,      \* MAX_CMD_SIZE = 25
  FifoDepth,   \* 16 in the PL011
  HeapBytes,   \* KERNEL_HEAP_SIZE
  Header,      \* what a block takes beside its payload
  TupleBytes,  \* the array of two pointers
  HandlerUse   \* what a handler and the prompt may take from the heap

\* uart_read_input returns every byte.
Chars == Letters \cup {Space, Newline, Nul}

ASSUME ShellAssumption ==
  /\ Letters \cap {Space, Newline, Nul} = {}
  /\ Space # Newline /\ Space # Nul /\ Newline # Nul
  /\ Commands \subseteq Seq(Letters) /\ Writer \in Commands
  /\ MaxCmd \in Nat /\ MaxCmd > 1 /\ FifoDepth \in Nat
  /\ HeapBytes \in Nat /\ Header \in Nat /\ TupleBytes \in Nat
  /\ HandlerUse \subseteq Nat

VARIABLES
  fifo,       \* the receive FIFO
  buffer,     \* the line buffer, an array
  buf_index,
  pc,         \* where poll_cli_input is
  heap,       \* bytes kmalloc still hands out
  ran         \* what became of the line handled last

vars == <<fifo, buffer, buf_index, pc, heap, ran>>

Outcomes == {"none", "quiet", "unknown", "run", "garbage"}

TypeOK ==
  /\ fifo \in Seq(Chars) /\ Len(fifo) <= FifoDepth
  /\ buffer \in [0 .. MaxCmd - 1 -> Chars]
  /\ buf_index \in 0 .. MaxCmd - 1
  /\ pc \in {"poll", "handle", "prompt"}
  /\ heap \in Int
  /\ ran.how \in Outcomes /\ ran.name \in Seq(Chars) /\ ran.args \in Seq(Chars)

Nothing == [how |-> "none", name |-> <<>>, args |-> <<>>]

\* poll_cli_input up to its loop; the buffer's contents do not matter.
Init ==
  /\ fifo = <<>>
  /\ buffer = [i \in 0 .. MaxCmd - 1 |-> Nul] /\ buf_index = 0
  /\ pc = "poll"
  /\ heap = HeapBytes
  /\ ran = Nothing

-----------------------------------------------------------------------------
\* The UART receives a character; without room for it, it is lost.
Receive(c) ==
  /\ Len(fifo) < FifoDepth
  /\ fifo' = Append(fifo, c)
  /\ UNCHANGED <<buffer, buf_index, pc, heap, ran>>

\* Mutant of Stored: the terminator forgotten.
StoredOpen(c) == [buffer EXCEPT ![buf_index] = c]

Stored(c) == [buffer EXCEPT ![buf_index] = c, ![buf_index + 1] = Nul]

\* Mutant of HasRoom: no place left for the terminator.
HasRoomFull == buf_index < MaxCmd

HasRoom == buf_index < MaxCmd - 1

\* Mutant of EndsLine: a newline that finds the buffer full is dropped whole.
EndsLineStored(c) == c = Newline /\ HasRoom

EndsLine(c) == c = Newline

\* uart_read_input, when the FIFO is not empty; when it is, the loop goes round.
Read(c) ==
  /\ fifo # <<>>
  /\ c = Head(fifo)
  /\ fifo' = Tail(fifo)

\* One turn of the loop that finds a character.
Poll ==
  /\ pc = "poll"
  /\ \E c \in Chars :
       /\ Read(c)
       /\ pc' = IF EndsLine(c) THEN "handle" ELSE "poll"
       /\ \/ /\ HasRoom
             /\ buffer' = Stored(c) /\ buf_index' = buf_index + 1
          \/ /\ ~ HasRoom
             /\ UNCHANGED <<buffer, buf_index>>
  /\ UNCHANGED <<heap, ran>>

-----------------------------------------------------------------------------
\* The string at the start of the buffer, up to its terminator.
Length == CHOOSE n \in 0 .. MaxCmd - 1 :
            buffer[n] = Nul /\ \A i \in 0 .. n - 1 : buffer[i] # Nul

\* What handle_cmd keeps of it: the newlines at the end are cut.
Kept == CHOOSE n \in 0 .. Length :
          /\ n > 0 => buffer[n - 1] # Newline
          /\ \A i \in n .. Length - 1 : buffer[i] = Newline

Line == [i \in 1 .. Kept |-> buffer[i - 1]]

\* The loop of split_str stops at i, or at the end of the string.
Stops(l, i) == l[i] = Space /\ \A j \in 1 .. i - 1 : l[j] # Space
Splits(l)   == \E i \in DOMAIN l : Stops(l, i)
Break(l)    == IF Splits(l) THEN CHOOSE i \in DOMAIN l : Stops(l, i) ELSE Len(l) + 1

\* split_str with two tokens: up to the first space, and all that follows it.
Token1(l) == SubSeq(l, 1, Break(l) - 1)
Token2(l) == SubSeq(l, Break(l) + 1, Len(l))

\* kmalloc(n) with h bytes left, and what is left then.  Header stands for all
\* that a block takes besides: its header, the rounding, an unsplit rest.
Served(n, h)  == n <= h
Left(n, h)    == IF Served(n, h) THEN h - n - Header ELSE h

\* split_str: whether the array and the first token are there, whether the
\* second is, and the heap it leaves.
Split(l, h) ==
  LET h1 == Left(TupleBytes, h)
      h2 == Left(Len(Token1(l)) + 1, h1)
      h3 == IF Splits(l) THEN Left(Len(Token2(l)) + 1, h2) ELSE h2 IN
  IF ~ Served(TupleBytes, h) THEN [ok |-> FALSE, arg |-> FALSE, heap |-> h]
  ELSE [ok  |-> Served(Len(Token1(l)) + 1, h1),
        arg |-> Splits(l) /\ Served(Len(Token2(l)) + 1, h2),
        heap |-> h3]

Did(h, l, a) == [how |-> h, name |-> Token1(l), args |-> a]

\* get_cmd_entry finds it.
Known(name) == name \in Commands

\* handle_cmd on line l, split into s; the handler included, which if it is
\* write splits its argument into w.
Dispatch(l, s, arg, w) ==
  \/ /\ ~ s.ok
     /\ ran' = Did("quiet", l, <<>>) /\ heap' = s.heap
  \/ /\ s.ok /\ ~ Known(Token1(l))
     /\ ran' = Did("unknown", l, <<>>) /\ heap' = s.heap
  \/ /\ s.ok /\ Known(Token1(l)) /\ Token1(l) # Writer
     /\ ran' = Did("run", l, arg)
     /\ \E u \in HandlerUse : heap' = s.heap - u
  \/ /\ s.ok /\ Known(Token1(l)) /\ Token1(l) = Writer
     /\ ran' = Did(IF w.ok /\ w.arg THEN "run" ELSE "garbage", l, arg)
     /\ \E u \in HandlerUse : heap' = w.heap - u

Handle ==
  /\ pc = "handle"
  /\ \E l \in {Line} : \E s \in {Split(l, heap)} :
       \E arg \in {IF s.arg THEN Token2(l) ELSE <<>>} :
         Dispatch(l, s, arg, Split(arg, s.heap))
  /\ buffer' = [i \in DOMAIN buffer |-> IF i \in Kept .. Length - 1 THEN Nul ELSE buffer[i]]
  /\ pc' = "prompt"
  /\ UNCHANGED <<fifo, buf_index>>

\* The new prompt, and the buffer starts over.
Prompt ==
  /\ pc = "prompt"
  /\ buf_index' = 0
  /\ ran' = Nothing
  /\ pc' = "poll"
  /\ UNCHANGED <<fifo, buffer, heap>>

Next == (\E c \in Chars : Receive(c)) \/ Poll \/ Handle \/ Prompt

\* The loop runs for ever, and every handler returns.
Spec == Init /\ [][Next]_vars /\ WF_vars(Poll \/ Handle \/ Prompt)
-----------------------------------------------------------------------------
\* The string handle_cmd is given ends where the loop stopped storing or, for a
\* NUL typed, before, whether its newline still fitted or not: nothing of an
\* earlier, longer line shows behind it, no newline stands in it but its own,
\* and strlen stays in the buffer.
LineWhole ==
  pc = "handle" =>
    /\ Length <= buf_index
    /\ \A i \in 0 .. Length - 1 : buffer[i] = Newline => i = buf_index - 1

\* The first n characters stored.
Typed(n) == [i \in 1 .. n |-> buffer[i - 1]]

\* The line entered is all of them but its newline, where that was stored.
Entered == Typed(IF buffer[buf_index - 1] = Newline THEN buf_index - 1 ELSE buf_index)

\* What the shell still has to do, read off the buffer and the FIFO: the lines
\* that are complete, and the one that is not.
Start == [todo |-> IF pc = "handle" THEN <<Entered>> ELSE <<>>,
          cur  |-> IF pc = "poll" THEN Typed(buf_index) ELSE <<>>]

\* The loop's part in it: a line ends at its newline, and what comes after
\* MaxCmd - 1 characters does not count.
Takes(s, c) ==
  IF c = Newline THEN [todo |-> Append(s.todo, s.cur), cur |-> <<>>]
  ELSE IF Len(s.cur) < MaxCmd - 1 THEN [s EXCEPT !.cur = Append(@, c)]
  ELSE s

Sent ==
  LET after[i \in 0 .. Len(fifo)] ==
        IF i = 0 THEN Start ELSE Takes(after[i - 1], fifo[i])
  IN  after[Len(fifo)]

\* Too little heap for the requests a line may need.
Poor == heap < 2 * (TupleBytes + 3 * Header + MaxCmd)

Abstract == INSTANCE CommandLine WITH MaxLine <- MaxCmd - 1, cur <- Sent.cur,
                                      todo <- Sent.todo, poor <- Poor

\* Each line the UART received is run once, in order, cut at 24 characters and
\* at a NUL among them, as the command and argument it says; when the heap is
\* short it may be ignored or run without its argument, but never as another
\* command.
RunsEachLine == Abstract!Spec

\* The shell never stops listening: while lines wait in the FIFO one of them is
\* handled in the end, full buffer or empty heap notwithstanding.
LinesGetHandled == Sent.todo # <<>> ~> ran # Nothing
=============================================================================
