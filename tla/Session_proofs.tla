--------------------------- MODULE Session_proofs ---------------------------
(***************************************************************************)
(* Proofs about Session, for every screen and line buffer and whatever the *)
(* prompts, answers and commands are.                                      *)
(***************************************************************************)
EXTENDS Session, Shell_proofs

ScreenOK ==
  /\ page \in [0 .. Rows - 1 -> [0 .. Cols - 1 -> Printable]]
  /\ line \in 0 .. Rows - 1 /\ col \in 0 .. Cols
  /\ tidy \in BOOLEAN /\ lost \in BOOLEAN
  /\ dropped \in BOOLEAN /\ rubbed \in BOOLEAN /\ unfit \in BOOLEAN
  /\ out \in Seq(Chars \cup Marks)

\* A line is typed behind its prompt.
Waiting ==
  /\ pc = "handle" => out = <<>>
  /\ pc = "poll" /\ out # <<>> => buf_index = 0

\* What was typed so far stands left of the cursor.
Editing ==
  pc = "poll" /\ tidy /\ ~ RuboutIn(buf_index) =>
    /\ buf_index <= col
    /\ \A i \in 0 .. buf_index - 1 : page[line][col - buf_index + i] = buffer[i]

\* A line whose newline is echoed ends in column 0, and so does all that is
\* printed in answer to it.
LineEnds ==
  /\ pc = "handle" /\ tidy => col = 0 \/ lost
  /\ pc = "prompt" =>
       /\ EndsLines(out)
       /\ out = <<>> /\ tidy => col = 0 \/ lost

\* Text o printed from column c on keeps to the screen.
FitsFrom(o, c) ==
  /\ FitsScreen(o) /\ EndsLines(o)
  /\ o \in Seq(Printable \cup {Newline})
  /\ \A j \in 0 .. Len(o) : (\A k \in 1 .. j : o[k] # Newline) => c + j <= Cols

\* Until something goes wrong there is room on the screen line for all that the
\* line buffer has room for, and for the rest of what is being printed.
Room ==
  ~ dropped /\ ~ rubbed /\ ~ unfit =>
    /\ tidy
    /\ pc = "poll" => /\ out \in Seq(Printable)
                      /\ col + Len(out) + MaxCmd - 1 <= Cols + buf_index
    /\ pc = "handle" => col = 0
    /\ pc = "prompt" => FitsFrom(out, col) /\ (out = <<>> => col = 0)
    /\ pc \in {"poll", "handle"} => ~ RuboutIn(buf_index)

SInv == IInv /\ ScreenOK /\ Waiting /\ Editing /\ LineEnds /\ Room

LEMMA SessionFacts ==
  /\ Rows \in Nat /\ Rows > 0 /\ Cols \in Nat /\ MaxCmd - 1 <= Cols
  /\ Newline \notin Printable /\ Rubout \notin Printable /\ Newline # Rubout
  /\ Printable \cup {Newline} \subseteq Chars \cup Marks
  /\ Chars \cup Marks \subseteq Printable \cup {Newline, Rubout}
  /\ Rubout \in Chars
  /\ Text \subseteq Chars \cup Marks /\ Text \ {Rubout} \subseteq Printable \cup {Newline}
<1>1. PICK p \in Prompts : p \in Seq(Text \ {Newline}) /\ Len(p) + MaxCmd - 1 <= Cols
  BY SessionAssumption
<1>2. Len(p) \in Nat /\ Cols \in Nat /\ MaxCmd \in Nat  BY <1>1, SessionAssumption, ConstFacts
<1>3. MaxCmd - 1 <= Cols  BY <1>1, <1>2
<1> QED BY <1>3, SessionAssumption, ShellAssumption DEF Printable, Glyphs, Chars, Text

-----------------------------------------------------------------------------
\* gpu_putc: the character stands where the cursor was, a newline takes it to
\* column 0, and only a character right of the last column or a rubout left of
\* the first one ends tidy.
LEMMA PutcEffect ==
  ASSUME ScreenOK, NEW c \in Chars \cup Marks, Putc(c)
  PROVE  /\ page' \in [0 .. Rows - 1 -> [0 .. Cols - 1 -> Printable]]
         /\ line' \in 0 .. Rows - 1 /\ col' \in 0 .. Cols /\ tidy' \in BOOLEAN
         /\ tidy' => tidy
         /\ tidy' /\ c = Newline => col' = 0
         /\ tidy' /\ c \in Printable =>
              /\ col < Cols /\ col' = col + 1 /\ line' = line
              /\ page' = [page EXCEPT ![line][col] = c]
         /\ tidy /\ (c = Newline \/ (c \in Printable /\ col < Cols)) => tidy'
<1>1. CASE tidy /\ Draws(c) /\ UNCHANGED tidy
  <2>1. CASE c = Newline /\ Term!NewLine
    <3>1. col' = 0 /\ 0 \in 0 .. Cols  BY <2>1, SessionFacts DEF Term!NewLine
    <3>2. CASE line < Rows - 1 /\ line' = line + 1 /\ UNCHANGED page
      <4>1. line' \in 0 .. Rows - 1  BY <3>2, SessionFacts DEF ScreenOK
      <4> QED BY <1>1, <2>1, <3>1, <3>2, <4>1, SessionFacts DEF ScreenOK
    <3>3. CASE /\ line = Rows - 1 /\ UNCHANGED line
               /\ page' = [r \in 0 .. Rows - 1 |-> IF r < Rows - 1 THEN page[r + 1] ELSE Term!BlankLine]
      <4>1. Term!BlankLine \in [0 .. Cols - 1 -> Printable]  BY DEF Term!BlankLine, Printable
      <4>2. \A r \in 0 .. Rows - 1 : r < Rows - 1 => r + 1 \in 0 .. Rows - 1  BY SessionFacts
      <4>3. page' \in [0 .. Rows - 1 -> [0 .. Cols - 1 -> Printable]]
        BY <3>3, <4>1, <4>2 DEF ScreenOK
      <4> QED BY <1>1, <2>1, <3>1, <3>3, <4>3, SessionFacts DEF ScreenOK
    <3> QED BY <2>1, <3>2, <3>3 DEF Term!NewLine
  <2>2. CASE c = Rubout /\ Term!Erase
    <3>1. /\ col > 0 /\ col' = col - 1 /\ UNCHANGED line
          /\ page' = [page EXCEPT ![line][col - 1] = Space]
      BY <2>2 DEF Term!Erase
    <3>2. col' \in 0 .. Cols  BY <3>1, SessionFacts DEF ScreenOK
    <3>3. page' \in [0 .. Rows - 1 -> [0 .. Cols - 1 -> Printable]]
      <4>1. Space \in Printable  BY DEF Printable
      <4> QED BY <3>1, <4>1 DEF ScreenOK
    <3> QED BY <1>1, <2>2, <3>1, <3>2, <3>3, SessionFacts DEF ScreenOK
  <2>3. CASE c \in Printable /\ Term!PutChar(c)
    <3>1. /\ col < Cols /\ col' = col + 1 /\ UNCHANGED line
          /\ page' = [page EXCEPT ![line][col] = c]
      BY <2>3 DEF Term!PutChar
    <3>2. col' \in 0 .. Cols  BY <3>1, SessionFacts DEF ScreenOK
    <3>3. page' \in [0 .. Rows - 1 -> [0 .. Cols - 1 -> Printable]]
      BY <2>3, <3>1 DEF ScreenOK
    <3> QED BY <1>1, <2>3, <3>1, <3>2, <3>3, SessionFacts DEF ScreenOK
  <2> QED BY <1>1, <2>1, <2>2, <2>3 DEF Draws
<1>2. CASE (tidy => OffScreen(c)) /\ tidy' = FALSE /\ UNCHANGED <<page, line, col>>
  <2>1. tidy => ~ (c = Newline \/ (c \in Printable /\ col < Cols))
    BY <1>2, SessionFacts DEF OffScreen, ScreenOK
  <2>2. tidy' \in BOOLEAN /\ ~ tidy'  BY <1>2
  <2> QED BY <1>2, <2>1, <2>2 DEF ScreenOK
<1> QED BY <1>1, <1>2 DEF Putc

-----------------------------------------------------------------------------
\* A text that ends with a newline does so until it is printed.
LEMMA TailEnds ==
  ASSUME NEW S, NEW o \in Seq(S), o # <<>>, o[Len(o)] = Newline
  PROVE  /\ Tail(o) = <<>> => Head(o) = Newline
         /\ Tail(o) # <<>> => Tail(o)[Len(Tail(o))] = Newline
<1> DEFINE t == Tail(o)
<1>1. /\ t \in Seq(S) /\ Len(t) = Len(o) - 1 /\ Len(o) \in Nat
      /\ Len(o) > 0 /\ Head(o) = o[1] /\ \A k \in 1 .. Len(t) : t[k] = o[k + 1]
  OBVIOUS
<1> HIDE DEF t
<1>2. t = <<>> => Head(o) = Newline
  <2>1. t = <<>> => Len(o) = 1  BY <1>1
  <2> QED BY <1>1, <2>1
<1>3. t # <<>> => t[Len(t)] = Newline
  <2>1. t # <<>> => Len(t) \in 1 .. Len(t) /\ Len(t) + 1 = Len(o)  BY <1>1
  <2> QED BY <1>1, <2>1
<1> QED BY <1>2, <1>3 DEF t

\* What is printed next, once the first character is.
LEMMA FitsTail ==
  ASSUME NEW o \in Seq(Printable \cup {Newline}), o # <<>>, NEW c \in Nat, FitsFrom(o, c)
  PROVE  /\ Head(o) = Newline => FitsFrom(Tail(o), 0)
         /\ Head(o) # Newline => c + 1 <= Cols /\ FitsFrom(Tail(o), c + 1)
         /\ Tail(o) = <<>> => Head(o) = Newline
         /\ Tail(o) # <<>> => Tail(o)[Len(Tail(o))] = Newline
<1> DEFINE t == Tail(o)
<1>1. /\ t \in Seq(Printable \cup {Newline}) /\ Len(t) = Len(o) - 1 /\ Len(o) \in Nat
      /\ Len(o) > 0 /\ Head(o) = o[1] /\ \A k \in 1 .. Len(t) : t[k] = o[k + 1]
  OBVIOUS
<1>2. o[Len(o)] = Newline  BY DEF FitsFrom, EndsLines
<1>3. t = <<>> => Head(o) = Newline  BY <1>2, TailEnds
<1>4. t # <<>> => t[Len(t)] = Newline  BY <1>2, TailEnds
<1> HIDE DEF t
<1>5. \A i \in 0 .. Len(t) : \A j \in i .. Len(t) :
        (\A k \in i + 1 .. j : t[k] # Newline) => \A k \in i + 2 .. j + 1 : o[k] # Newline
  <2> SUFFICES ASSUME NEW i \in 0 .. Len(t), NEW j \in i .. Len(t),
                      \A k \in i + 1 .. j : t[k] # Newline,
                      NEW k \in i + 2 .. j + 1
               PROVE  o[k] # Newline
    OBVIOUS
  <2>1. k - 1 \in i + 1 .. j /\ k - 1 \in 1 .. Len(t) /\ (k - 1) + 1 = k  BY <1>1
  <2>2. t[k - 1] = o[(k - 1) + 1]  BY <1>1, <2>1
  <2> QED BY <2>1, <2>2
<1>6. \A i \in DOMAIN t : t[i] # Rubout
  <2> SUFFICES ASSUME NEW i \in 1 .. Len(t) PROVE t[i] # Rubout  BY <1>1
  <2>1. i + 1 \in DOMAIN o /\ t[i] = o[i + 1]  BY <1>1
  <2> QED BY <2>1 DEF FitsFrom, FitsScreen
<1>7. EndsLines(t)  BY <1>4 DEF EndsLines
<1>8. FitsScreen(t)
  <2> SUFFICES ASSUME NEW i \in 0 .. Len(t), NEW j \in i .. Len(t),
                      \A k \in i + 1 .. j : t[k] # Newline
               PROVE  j - i <= Cols
    BY <1>6 DEF FitsScreen
  <2>1. i + 1 \in 0 .. Len(o) /\ j + 1 \in i + 1 .. Len(o) /\ (i + 1) + 1 = i + 2  BY <1>1
  <2>2. \A k \in (i + 1) + 1 .. j + 1 : o[k] # Newline  BY <1>5, <2>1
  <2>3. (j + 1) - (i + 1) <= Cols  BY <2>1, <2>2 DEF FitsFrom, FitsScreen
  <2> QED BY <2>3, SessionFacts
<1>9. ASSUME Head(o) = Newline PROVE FitsFrom(t, 0)
  <2> SUFFICES ASSUME NEW j \in 0 .. Len(t), \A k \in 1 .. j : t[k] # Newline
               PROVE  0 + j <= Cols
    BY <1>1, <1>8, <1>7 DEF FitsFrom
  <2>1. 0 \in 0 .. Len(t) /\ j \in 0 .. Len(t)  BY <1>1
  <2>2. \A k \in 0 + 1 .. j : t[k] # Newline  OBVIOUS
  <2>3. j - 0 <= Cols  BY <1>8, <2>1, <2>2 DEF FitsScreen
  <2> QED BY <2>3, SessionFacts
<1>10. ASSUME Head(o) # Newline PROVE c + 1 <= Cols /\ FitsFrom(t, c + 1)
  <2>1. ASSUME NEW j \in 0 .. Len(t), \A k \in 1 .. j : t[k] # Newline
        PROVE  c + 1 + j <= Cols
    <3>1. j + 1 \in 0 .. Len(o) /\ 0 \in 0 .. Len(t) /\ j \in 0 .. Len(t)  BY <1>1
    <3>2. \A k \in 0 + 2 .. j + 1 : o[k] # Newline  BY <1>5, <2>1, <3>1
    <3>3. \A k \in 1 .. j + 1 : k = 1 \/ k \in 0 + 2 .. j + 1  BY <3>1
    <3>4. \A k \in 1 .. j + 1 : o[k] # Newline  BY <1>1, <1>10, <3>2, <3>3
    <3>5. c + (j + 1) <= Cols  BY <3>1, <3>4 DEF FitsFrom
    <3> QED BY <3>5, SessionFacts
  <2>2. FitsFrom(t, c + 1)  BY <1>1, <1>8, <1>7, <2>1 DEF FitsFrom
  <2>3. 0 \in 0 .. Len(t) /\ \A k \in 1 .. 0 : t[k] # Newline  BY <1>1
  <2>4. c + 1 + 0 <= Cols  BY <2>1, <2>3
  <2> QED BY <2>2, <2>4, SessionFacts
<1> QED BY <1>3, <1>4, <1>9, <1>10 DEF t

\* What echo prints of a line the screen is wide enough for.
LEMMA EchoFits ==
  ASSUME NEW a \in Seq(Printable), Len(a) <= Cols
  PROVE  FitsFrom(Append(a, Newline), 0)
<1> DEFINE o == Append(a, Newline)
<1>1. /\ o \in Seq(Printable \cup {Newline}) /\ Len(o) = Len(a) + 1 /\ Len(a) \in Nat
      /\ o[Len(o)] = Newline
  OBVIOUS
<1> HIDE DEF o
<1>2. \A i \in 0 .. Len(o) : \A j \in i .. Len(o) :
        (\A k \in i + 1 .. j : o[k] # Newline) => j - i <= Cols
  <2> SUFFICES ASSUME NEW i \in 0 .. Len(o), NEW j \in i .. Len(o),
                      \A k \in i + 1 .. j : o[k] # Newline, i # j
               PROVE  j - i <= Cols
    BY <1>1, SessionFacts
  <2>1. j \in i + 1 .. j  BY <1>1
  <2>2. j # Len(o)  BY <1>1, <2>1
  <2> QED BY <1>1, <2>2, SessionFacts
<1>3. FitsScreen(o) /\ EndsLines(o)
  <2>1. \A i \in DOMAIN o : o[i] # Rubout  BY <1>1, SessionFacts
  <2> QED BY <1>1, <1>2, <2>1 DEF FitsScreen, EndsLines
<1>4. ASSUME NEW j \in 0 .. Len(o), \A k \in 1 .. j : o[k] # Newline PROVE 0 + j <= Cols
  <2>1. 0 \in 0 .. Len(o) /\ \A k \in 0 + 1 .. j : o[k] # Newline  BY <1>1, <1>4
  <2>2. j - 0 <= Cols  BY <1>2, <2>1
  <2> QED BY <2>2, SessionFacts
<1>5. FitsFrom(o, 0)  BY <1>1, <1>3, <1>4 DEF FitsFrom
<1> QED BY <1>5 DEF o

\* A string without a rubout is one of printable characters and newlines.
LEMMA TextPrintable ==
  ASSUME NEW o \in Seq(Text), FitsScreen(o)
  PROVE  o \in Seq(Printable \cup {Newline})
<1>1. \A i \in 1 .. Len(o) : o[i] \in Text /\ o[i] # Rubout
  BY DEF FitsScreen
<1>2. \A i \in 1 .. Len(o) : o[i] \in Printable \cup {Newline}
  BY <1>1, SessionFacts
<1> QED BY <1>2

LEMMA AnswerFits ==
  ASSUME NEW o \in Outputs \cup {NotFound} \cup {<<>>},
         o \in Outputs => FitsScreen(o)
  PROVE  FitsFrom(o, 0)
<1>1. <<>> \in Seq(Text) /\ FitsScreen(<<>>) /\ EndsLines(<<>>)
  <2>1. \A i \in 0 .. 0 : \A j \in i .. 0 : j - i <= Cols  BY SessionFacts
  <2> QED BY <2>1 DEF FitsScreen, EndsLines
<1>2. o \in Seq(Text) /\ FitsScreen(o) /\ EndsLines(o)  BY <1>1, SessionAssumption
<1>3. ASSUME NEW j \in 0 .. Len(o), \A k \in 1 .. j : o[k] # Newline PROVE 0 + j <= Cols
  <2>1. 0 \in 0 .. Len(o) /\ j \in 0 .. Len(o) /\ \A k \in 0 + 1 .. j : o[k] # Newline
    BY <1>2, <1>3
  <2>2. j - 0 <= Cols  BY <1>2, <2>1 DEF FitsScreen
  <2> QED BY <2>2, SessionFacts
<1>4. o \in Seq(Printable \cup {Newline})  BY <1>2, TextPrintable
<1> QED BY <1>2, <1>3, <1>4 DEF FitsFrom

\* A prompt, and what the line buffer holds, fit a line of the screen.
LEMMA PromptFits ==
  ASSUME NEW p \in Prompts
  PROVE  /\ p \in Seq(Chars \cup Marks) /\ Len(p) \in Nat /\ Len(p) + MaxCmd - 1 <= Cols
         /\ FitsScreen(p) => p \in Seq(Printable)
<1>1. p \in Seq(Text \ {Newline}) /\ Len(p) + MaxCmd - 1 <= Cols /\ Len(p) \in Nat
  BY SessionAssumption
<1>2. p \in Seq(Chars \cup Marks)  BY <1>1, SessionFacts
<1>3. ASSUME FitsScreen(p) PROVE p \in Seq(Printable)
  <2>1. \A i \in 1 .. Len(p) : p[i] \in Text \ {Newline} /\ p[i] # Rubout
    BY <1>1, <1>3 DEF FitsScreen
  <2>2. \A i \in 1 .. Len(p) : p[i] \in Printable  BY <2>1, SessionFacts
  <2> QED BY <1>1, <2>2
<1> QED BY <1>1, <1>2, <1>3

-----------------------------------------------------------------------------
LEMMA SessionInitInv == SessionInit => SInv
<1> SUFFICES ASSUME SessionInit PROVE SInv  OBVIOUS
<1>1. IInv /\ buf_index = 0 /\ pc = "poll"  BY InitInv DEF SessionInit, Init
<1>2. PICK p \in Prompts : out = p  BY DEF SessionInit
<1>3. /\ out \in Seq(Chars \cup Marks) /\ Len(out) \in Nat /\ Len(out) + MaxCmd - 1 <= Cols
      /\ FitsScreen(out) => out \in Seq(Printable)
  BY <1>2, PromptFits
<1>4. /\ page = [r \in 0 .. Rows - 1 |-> Term!BlankLine] /\ line = 0 /\ col = 0
      /\ tidy = TRUE /\ lost = FALSE /\ dropped = FALSE /\ rubbed = FALSE
      /\ unfit \in BOOLEAN /\ (~ unfit => FitsScreen(out))
  BY DEF SessionInit, Term!Init
<1>5. ScreenOK
  <2>1. Term!BlankLine \in [0 .. Cols - 1 -> Printable]  BY DEF Term!BlankLine, Printable
  <2>2. page \in [0 .. Rows - 1 -> [0 .. Cols - 1 -> Printable]]  BY <1>4, <2>1
  <2>3. 0 \in 0 .. Rows - 1 /\ 0 \in 0 .. Cols  BY SessionFacts
  <2> QED BY <1>3, <1>4, <2>2, <2>3 DEF ScreenOK
<1>6. Waiting /\ LineEnds  BY <1>1 DEF Waiting, LineEnds
<1>7. Editing  BY <1>1, <1>4 DEF Editing
<1>8. ~ RuboutIn(buf_index)  BY <1>1 DEF RuboutIn
<1>9. Room
  <2>1. col + Len(out) + MaxCmd - 1 <= Cols + buf_index
    BY <1>1, <1>3, <1>4, SessionFacts, ConstFacts
  <2> QED BY <1>1, <1>3, <1>4, <1>8, <2>1 DEF Room
<1> QED BY <1>1, <1>5, <1>6, <1>7, <1>9 DEF SInv

LEMMA ArriveInv == SInv /\ Arrive => SInv'
<1> SUFFICES ASSUME SInv, Arrive PROVE SInv'  OBVIOUS
<1>1. PICK c \in Chars : Receive(c)  BY DEF Arrive
<1>2. IInv'  BY <1>1, ReceiveInv DEF SInv
<1>3. /\ UNCHANGED <<buffer, buf_index, pc>>
      /\ UNCHANGED <<page, line, col, tidy, out, lost, dropped, rubbed, unfit>>
  BY <1>1 DEF Arrive, Receive, screen, history
<1>4. RuboutIn(buf_index)' <=> RuboutIn(buf_index)  BY <1>3 DEF RuboutIn
<1>5. ScreenOK'  BY <1>3 DEF SInv, ScreenOK
<1>6. Waiting' /\ LineEnds'  BY <1>3 DEF SInv, Waiting, LineEnds, EndsLines
<1>7. Editing'  BY <1>3, <1>4 DEF SInv, Editing
<1>8. FitsFrom(out, col)' <=> FitsFrom(out, col)  BY <1>3 DEF FitsFrom, FitsScreen, EndsLines
<1>9. Room'  BY <1>3, <1>4, <1>8 DEF SInv, Room
<1> QED BY <1>2, <1>5, <1>6, <1>7, <1>9 DEF SInv

\* A character that finds room.
LEMMA TypeStored ==
  ASSUME SInv, out = <<>>, pc = "poll", NEW c \in Chars, HasRoom,
         buffer' = Stored(c), buf_index' = buf_index + 1, Putc(c),
         pc' = IF EndsLine(c) THEN "handle" ELSE "poll",
         UNCHANGED <<out, dropped, unfit>>, lost' \in BOOLEAN, rubbed' = (rubbed \/ c = Rubout)
  PROVE  ScreenOK' /\ Waiting' /\ Editing' /\ LineEnds' /\ Room'
<1>1. /\ buffer' \in [0 .. MaxCmd - 1 -> Chars]
      /\ buf_index' \in 0 .. MaxCmd - 1
      /\ buffer'[buf_index] = c /\ buffer'[buf_index + 1] = Nul
      /\ \A i \in 0 .. buf_index - 1 : buffer'[i] = buffer[i]
  BY StoredFits DEF SInv, IInv
<1>2. /\ buf_index \in Nat /\ buf_index < MaxCmd - 1 /\ col \in Nat /\ line \in Nat
      /\ col <= Cols
  BY ConstFacts, SessionFacts DEF SInv, IInv, TypeOK, HasRoom, ScreenOK
<1>3. /\ page' \in [0 .. Rows - 1 -> [0 .. Cols - 1 -> Printable]]
      /\ line' \in 0 .. Rows - 1 /\ col' \in 0 .. Cols /\ tidy' \in BOOLEAN
      /\ tidy' => tidy
      /\ tidy' /\ c = Newline => col' = 0
      /\ tidy' /\ c \in Printable =>
           /\ col < Cols /\ col' = col + 1 /\ line' = line
           /\ page' = [page EXCEPT ![line][col] = c]
      /\ tidy /\ (c = Newline \/ (c \in Printable /\ col < Cols)) => tidy'
  BY PutcEffect DEF SInv
<1>4. pc' \in {"poll", "handle"} /\ (pc' = "handle" <=> c = Newline)  BY DEF EndsLine
<1>5. ScreenOK'
  <2>1. dropped' \in BOOLEAN /\ rubbed' \in BOOLEAN  BY DEF SInv, ScreenOK
  <2> QED BY <1>3, <2>1 DEF SInv, ScreenOK
<1>6. Waiting'  BY DEF Waiting
<1>7. \A i \in 0 .. buf_index' - 1 : i = buf_index \/ i \in 0 .. buf_index - 1
  BY <1>2
<1>8. \A i \in 0 .. buf_index - 1 : i \in 0 .. buf_index' - 1  BY <1>2
<1>9. RuboutIn(buf_index)' <=> RuboutIn(buf_index) \/ c = Rubout
  <2>1. buf_index \in 0 .. buf_index' - 1  BY <1>2
  <2> QED BY <1>1, <1>7, <1>8, <2>1 DEF RuboutIn
<1>10. c \in Printable \cup {Newline, Rubout}  BY SessionFacts
<1>11. Editing'
  <2> SUFFICES ASSUME pc' = "poll", tidy', ~ RuboutIn(buf_index)'
               PROVE  /\ buf_index' <= col'
                      /\ \A i \in 0 .. buf_index' - 1 : page'[line'][col' - buf_index' + i] = buffer'[i]
    BY DEF Editing
  <2>1. c \in Printable /\ ~ RuboutIn(buf_index) /\ tidy  BY <1>3, <1>4, <1>9, <1>10
  <2>2. /\ buf_index <= col
        /\ \A i \in 0 .. buf_index - 1 : page[line][col - buf_index + i] = buffer[i]
    BY <2>1 DEF SInv, Editing
  <2>3. /\ col < Cols /\ col' = col + 1 /\ line' = line
        /\ page' = [page EXCEPT ![line][col] = c]
    BY <1>3, <2>1
  <2>4. col' - buf_index' = col - buf_index /\ buf_index' <= col'  BY <1>2, <2>2, <2>3
  <2>5. /\ page'[line][col] = c
        /\ \A k \in 0 .. Cols - 1 : k # col => page'[line][k] = page[line][k]
    <3>1. line \in 0 .. Rows - 1 /\ col \in 0 .. Cols - 1  BY <1>2, <2>3, SessionFacts DEF SInv, ScreenOK
    <3> QED BY <2>3, <3>1 DEF SInv, ScreenOK
  <2>6. \A i \in 0 .. buf_index - 1 :
          col - buf_index + i \in 0 .. Cols - 1 /\ col - buf_index + i # col
    BY <1>2, <2>2, <2>3, SessionFacts
  <2>7. \A i \in 0 .. buf_index - 1 : page'[line][col - buf_index + i] = buffer'[i]
    BY <1>1, <2>2, <2>5, <2>6
  <2>8. col - buf_index + buf_index = col  BY <1>2
  <2>9. \A i \in 0 .. buf_index' - 1 : page'[line][col - buf_index + i] = buffer'[i]
    BY <1>1, <1>7, <2>5, <2>7, <2>8
  <2> QED BY <2>3, <2>4, <2>9
<1>12. LineEnds'
  <2>1. pc' = "handle" /\ tidy' => col' = 0  BY <1>3, <1>4
  <2> QED BY <1>4, <2>1 DEF LineEnds
<1>13. Room'
  <2> SUFFICES ASSUME ~ dropped', ~ rubbed', ~ unfit'
               PROVE  /\ tidy'
                      /\ pc' = "poll" => /\ out' \in Seq(Printable)
                                         /\ col' + Len(out') + MaxCmd - 1 <= Cols + buf_index'
                      /\ pc' = "handle" => col' = 0
                      /\ ~ RuboutIn(buf_index)'
    BY <1>4 DEF Room
  <2>1. ~ dropped /\ ~ rubbed /\ ~ unfit /\ c # Rubout  BY DEF SInv, ScreenOK
  <2>2. /\ tidy /\ col + Len(out) + MaxCmd - 1 <= Cols + buf_index
        /\ ~ RuboutIn(buf_index)
    BY <2>1 DEF SInv, Room
  <2>3. Len(out) = 0 /\ out' = <<>> /\ Len(out') = 0 /\ out' \in Seq(Printable)  OBVIOUS
  <2>4. col < Cols  BY <1>2, <2>2, <2>3, ConstFacts, SessionFacts
  <2>5. tidy'  BY <1>3, <1>10, <2>1, <2>2, <2>4
  <2>6. pc' = "handle" => col' = 0  BY <1>3, <1>4, <2>5
  <2>7. pc' = "poll" => col' = col + 1  BY <1>3, <1>4, <1>10, <2>1, <2>5
  <2>8. pc' = "poll" => col' + Len(out') + MaxCmd - 1 <= Cols + buf_index'
    BY <1>2, <2>2, <2>3, <2>7, ConstFacts, SessionFacts
  <2> QED BY <1>9, <2>1, <2>2, <2>3, <2>5, <2>6, <2>8
<1> QED BY <1>5, <1>6, <1>11, <1>12, <1>13

\* A character that finds none: it is not echoed either.
LEMMA TypeDropped ==
  ASSUME SInv, out = <<>>, pc = "poll", NEW c \in Chars, ~ HasRoom,
         UNCHANGED <<buffer, buf_index, page, line, col, tidy, out, rubbed, unfit>>,
         pc' = IF EndsLine(c) THEN "handle" ELSE "poll",
         lost' = (c = Newline), dropped' = (dropped \/ c = Newline)
  PROVE  ScreenOK' /\ Waiting' /\ Editing' /\ LineEnds' /\ Room'
<1>1. pc' \in {"poll", "handle"} /\ (pc' = "handle" <=> c = Newline)  BY DEF EndsLine
<1>2. RuboutIn(buf_index)' <=> RuboutIn(buf_index)  BY DEF RuboutIn
<1>3. ScreenOK'
  <2>1. dropped' \in BOOLEAN  BY DEF SInv, ScreenOK
  <2> QED BY <2>1 DEF SInv, ScreenOK
<1>4. Waiting'  BY DEF Waiting
<1>5. Editing'  BY <1>2 DEF SInv, Editing
<1>6. LineEnds'  BY <1>1 DEF LineEnds
<1>7. Room'
  <2>1. ~ dropped' => pc' = "poll" /\ ~ dropped  BY <1>1
  <2> QED BY <1>1, <1>2, <2>1 DEF SInv, Room
<1> QED BY <1>3, <1>4, <1>5, <1>6, <1>7

LEMMA TypeInv == SInv /\ Type => SInv'
<1> SUFFICES ASSUME SInv, Type PROVE SInv'  OBVIOUS
<1>1. out = <<>> /\ pc = "poll" /\ UNCHANGED <<out, unfit>>  BY DEF Type, Poll
<1>2. PICK c \in Chars :
        /\ Read(c)
        /\ pc' = IF EndsLine(c) THEN "handle" ELSE "poll"
        /\ \/ HasRoom /\ buffer' = Stored(c) /\ buf_index' = buf_index + 1
           \/ ~ HasRoom /\ UNCHANGED <<buffer, buf_index>>
  BY DEF Type, Poll
<1>3. c = Head(fifo)  BY <1>2 DEF Read
<1>4. /\ IF Echoed(c) THEN Putc(c) ELSE UNCHANGED screen
      /\ lost' = (c = Newline /\ ~ HasRoom)
      /\ dropped' = (dropped \/ (c = Newline /\ ~ HasRoom))
      /\ rubbed' = (rubbed \/ (c = Rubout /\ HasRoom))
  BY <1>3 DEF Type
<1>5. IInv'  BY PollInv DEF SInv, Type
<1>6. CASE HasRoom
  <2>1. buffer' = Stored(c) /\ buf_index' = buf_index + 1 /\ Putc(c)
    BY <1>2, <1>4, <1>6 DEF Echoed
  <2>2. lost' \in BOOLEAN /\ dropped' = dropped /\ rubbed' = (rubbed \/ c = Rubout)
    BY <1>4, <1>6 DEF SInv, ScreenOK
  <2>3. ScreenOK' /\ Waiting' /\ Editing' /\ LineEnds' /\ Room'
    BY <1>1, <1>2, <1>6, <2>1, <2>2, TypeStored
  <2> QED BY <1>5, <2>3 DEF SInv
<1>7. CASE ~ HasRoom
  <2>1. UNCHANGED <<buffer, buf_index>> /\ UNCHANGED <<page, line, col, tidy>>
    BY <1>2, <1>4, <1>7 DEF Echoed, screen
  <2>2. lost' = (c = Newline) /\ dropped' = (dropped \/ c = Newline) /\ rubbed' = rubbed
    BY <1>4, <1>7 DEF SInv, ScreenOK
  <2>3. ScreenOK' /\ Waiting' /\ Editing' /\ LineEnds' /\ Room'
    BY <1>1, <1>2, <1>7, <2>1, <2>2, TypeDropped
  <2> QED BY <1>5, <2>3 DEF SInv
<1> QED BY <1>6, <1>7

-----------------------------------------------------------------------------
\* The line that is run, and its argument, as echo would print them.
LEMMA LinePrintable ==
  ASSUME SInv, pc = "handle", ~ RuboutIn(buf_index)
  PROVE  Line \in Seq(Printable) /\ Len(Line) <= Cols
<1>1. /\ Length \in 0 .. buf_index /\ Kept \in 0 .. Length
      /\ Kept > 0 => buffer[Kept - 1] # Newline
  BY LineType DEF SInv
<1>2. /\ buf_index \in 0 .. MaxCmd - 1 /\ buf_index > 0
      /\ \A i \in 0 .. buf_index - 1 : buffer[i] = Newline => i = buf_index - 1
      /\ buffer \in [0 .. MaxCmd - 1 -> Chars]
  BY DEF SInv, IInv, TypeOK, Closed
<1>3. Kept \in Nat /\ Kept <= buf_index /\ Kept <= Cols
  BY <1>1, <1>2, ConstFacts, SessionFacts
<1>4. \A i \in 1 .. Kept : buffer[i - 1] \in Printable
  <2> SUFFICES ASSUME NEW i \in 1 .. Kept PROVE buffer[i - 1] \in Printable  OBVIOUS
  <2>1. i - 1 \in 0 .. buf_index - 1 /\ i - 1 \in 0 .. MaxCmd - 1
    BY <1>2, <1>3, ConstFacts
  <2>2. buffer[i - 1] \in Chars  BY <1>2, <2>1
  <2>3. buffer[i - 1] # Rubout  BY <2>1 DEF RuboutIn
  <2>4. buffer[i - 1] # Newline
    <3> SUFFICES ASSUME buffer[i - 1] = Newline PROVE FALSE  OBVIOUS
    <3>1. i - 1 = buf_index - 1  BY <1>2, <2>1
    <3>2. i - 1 = Kept - 1 /\ Kept > 0  BY <1>2, <1>3, <3>1, ConstFacts
    <3> QED BY <1>1, <3>2
  <2> QED BY <2>2, <2>3, <2>4, SessionFacts
<1>5. Line \in [1 .. Kept -> Printable]  BY <1>4 DEF Line
<1>6. Line \in Seq(Printable) /\ Len(Line) = Kept  BY <1>3, <1>5
<1> QED BY <1>3, <1>6

LEMMA ArgumentPrintable ==
  ASSUME NEW l \in Seq(Printable), Len(l) <= Cols, l \in Seq(Chars)
  PROVE  Token2(l) \in Seq(Printable) /\ Len(Token2(l)) <= Cols
<1>1. Break(l) \in 1 .. Len(l) + 1 /\ Len(l) \in Nat  BY BreakRange
<1>2. CASE Break(l) + 1 <= Len(l)
  <2>1. /\ Token2(l) \in Seq(Printable)
        /\ Len(Token2(l)) = Len(l) - (Break(l) + 1) + 1
    BY <1>1, <1>2, SubSeqProperties DEF Token2
  <2> QED BY <1>1, <2>1, SessionFacts
<1>3. CASE Break(l) + 1 > Len(l)
  <2>1. Token2(l) = <<>>  BY <1>1, <1>3, SubSeqProperties DEF Token2
  <2>2. Len(<<>>) <= Cols  BY SessionFacts
  <2> QED BY <2>1, <2>2
<1> QED BY <1>1, <1>2, <1>3

LEMMA RunInv == SInv /\ Run => SInv'
<1> SUFFICES ASSUME SInv, Run PROVE SInv'  OBVIOUS
<1>1. /\ out = <<>> /\ pc = "handle" /\ pc' = "prompt" /\ buf_index' = buf_index
      /\ UNCHANGED <<page, line, col, tidy, lost, dropped, rubbed>>
      /\ unfit' = (unfit \/ (out' \in Outputs /\ ~ FitsScreen(out')))
  BY DEF Run, Handle, screen, Starts
<1>2. IInv'  BY HandleInv DEF SInv, Run
<1>3. ran'.args \in {<<>>, Token2(Line)}
  <2>1. PICK arg \in {IF Split(Line, heap).arg THEN Token2(Line) ELSE <<>>} :
          Dispatch(Line, Split(Line, heap), arg, Split(arg, Split(Line, heap).heap))
    BY DEF Run, Handle
  <2>2. \E o \in Outcomes : \E a \in {<<>>, arg} : ran' = Did(o, Line, a)
    BY <2>1 DEF Dispatch, Outcomes
  <2>3. ran'.args \in {<<>>, arg}  BY <2>2 DEF Did
  <2> QED BY <2>1, <2>3
<1>4. Line \in Seq(Chars)  BY <1>1, LineType DEF SInv
<1>5. ran'.args \in Seq(Chars)  BY <1>2 DEF IInv, TypeOK
<1>6. out' \in {<<>>, NotFound} \cup Outputs \cup {Append(ran'.args, Newline)}
  BY DEF Run, Printed
<1>7. /\ out' \in Seq(Chars \cup Marks)
      /\ EndsLines(out')
  <2>1. CASE out' = <<>>  BY <2>1 DEF EndsLines
  <2>2. CASE out' \in Outputs \cup {NotFound}
    <3>1. out' \in Seq(Text) /\ EndsLines(out')  BY <2>2, SessionAssumption
    <3>2. out' \in Seq(Chars \cup Marks)  BY <3>1, SessionFacts
    <3> QED BY <3>1, <3>2
  <2>3. CASE out' = Append(ran'.args, Newline)
    <3>1. /\ Append(ran'.args, Newline) \in Seq(Chars \cup Marks)
          /\ Len(Append(ran'.args, Newline)) = Len(ran'.args) + 1
          /\ Append(ran'.args, Newline)[Len(ran'.args) + 1] = Newline
      BY <1>5, ConstFacts
    <3> QED BY <2>3, <3>1 DEF EndsLines
  <2> QED BY <1>6, <2>1, <2>2, <2>3
<1>8. ScreenOK'  BY <1>1, <1>7 DEF SInv, ScreenOK
<1>9. Waiting'  BY <1>1 DEF Waiting
<1>10. Editing'  BY <1>1 DEF Editing
<1>11. LineEnds'  BY <1>1, <1>7 DEF SInv, LineEnds, EndsLines
<1>12. Room'
  <2> SUFFICES ASSUME ~ dropped', ~ rubbed', ~ unfit'
               PROVE  tidy' /\ FitsFrom(out', col') /\ col' = 0
    BY <1>1 DEF Room, FitsFrom, FitsScreen, EndsLines
  <2>1. tidy /\ col = 0 /\ ~ RuboutIn(buf_index)  BY <1>1 DEF SInv, Room, ScreenOK
  <2>2. Line \in Seq(Printable) /\ Len(Line) <= Cols  BY <1>1, <2>1, LinePrintable
  <2>3. Token2(Line) \in Seq(Printable) /\ Len(Token2(Line)) <= Cols
    BY <1>4, <2>2, ArgumentPrintable
  <2>4. <<>> \in Seq(Printable) /\ Len(<<>>) <= Cols  BY SessionFacts
  <2>5. FitsFrom(Append(ran'.args, Newline), 0)  BY <1>3, <2>3, <2>4, EchoFits
  <2>6. FitsFrom(out', 0)
    <3>1. out' \in Outputs => FitsScreen(out')  BY <1>1
    <3> QED BY <1>6, <2>5, <3>1, AnswerFits
  <2> QED BY <1>1, <2>1, <2>6
<1> QED BY <1>2, <1>8, <1>9, <1>10, <1>11, <1>12 DEF SInv

LEMMA AskInv == SInv /\ Ask => SInv'
<1> SUFFICES ASSUME SInv, Ask PROVE SInv'  OBVIOUS
<1>1. /\ out = <<>> /\ pc = "prompt" /\ pc' = "poll" /\ buf_index' = 0 /\ out' \in Prompts
      /\ UNCHANGED <<page, line, col, tidy, lost, dropped, rubbed>>
      /\ unfit' = (unfit \/ (out' \in Prompts /\ ~ FitsScreen(out')))
  BY DEF Ask, Prompt, screen, Starts
<1>2. IInv'  BY PromptInv DEF SInv, Ask
<1>3. /\ out' \in Seq(Chars \cup Marks) /\ Len(out') \in Nat
      /\ Len(out') + MaxCmd - 1 <= Cols
      /\ FitsScreen(out') => out' \in Seq(Printable)
  BY <1>1, PromptFits
<1>5. ScreenOK'  BY <1>1, <1>3 DEF SInv, ScreenOK
<1>6. Waiting' /\ LineEnds'  BY <1>1 DEF Waiting, LineEnds
<1>7. Editing'
  <2>1. 0 <= col  BY SessionFacts DEF SInv, ScreenOK
  <2> QED BY <1>1, <2>1 DEF Editing
<1>8. ~ RuboutIn(buf_index)'  BY <1>1 DEF RuboutIn
<1>9. Room'
  <2> SUFFICES ASSUME ~ dropped', ~ rubbed', ~ unfit'
               PROVE  tidy' /\ col' + Len(out') + MaxCmd - 1 <= Cols + buf_index'
    BY <1>1, <1>3, <1>8 DEF Room, SInv, ScreenOK
  <2>1. tidy /\ col = 0  BY <1>1 DEF SInv, Room, ScreenOK
  <2> QED BY <1>1, <1>3, <2>1, ConstFacts, SessionFacts
<1> QED BY <1>2, <1>5, <1>6, <1>7, <1>9 DEF SInv

\* gpu_puts: only prompts and answers are printed, and a prompt before anything
\* is typed.
LEMMA SayInv == SInv /\ Say => SInv'
<1> SUFFICES ASSUME SInv, Say PROVE SInv'  OBVIOUS
<1> DEFINE c == Head(out)
<1>1. /\ out # <<>> /\ Putc(c) /\ out' = Tail(out)
      /\ UNCHANGED <<fifo, buffer, buf_index, pc, heap, ran, lost, dropped, rubbed, unfit>>
  BY DEF Say, vars, history
<1>2. out \in Seq(Chars \cup Marks) /\ c \in Chars \cup Marks
      /\ Tail(out) \in Seq(Chars \cup Marks)
  BY <1>1 DEF SInv, ScreenOK
<1>3. /\ page' \in [0 .. Rows - 1 -> [0 .. Cols - 1 -> Printable]]
      /\ line' \in 0 .. Rows - 1 /\ col' \in 0 .. Cols /\ tidy' \in BOOLEAN
      /\ tidy' => tidy
      /\ tidy' /\ c = Newline => col' = 0
      /\ tidy' /\ c \in Printable => col' = col + 1
      /\ tidy /\ (c = Newline \/ (c \in Printable /\ col < Cols)) => tidy'
  BY <1>1, <1>2, PutcEffect DEF SInv
<1>4. IInv'
  <2>1. UNCHANGED vars  BY <1>1 DEF vars
  <2> QED BY <2>1, NextInv DEF SInv
<1>5. ScreenOK'  BY <1>1, <1>2, <1>3 DEF SInv, ScreenOK
<1>6. pc # "handle" /\ pc \in {"poll", "prompt"} /\ (pc = "poll" => buf_index = 0)
  BY <1>1 DEF SInv, Waiting, IInv, TypeOK
<1>7. Waiting'  BY <1>1, <1>6 DEF Waiting
<1>8. Editing'
  <2>1. 0 <= col'  BY <1>3, SessionFacts
  <2> QED BY <1>1, <1>6, <2>1 DEF Editing
<1>9. LineEnds'
  <2> SUFFICES ASSUME pc = "prompt"
               PROVE  /\ out' # <<>> => out'[Len(out')] = Newline
                      /\ out' = <<>> /\ tidy' => col' = 0
    BY <1>1, <1>6 DEF LineEnds, EndsLines
  <2>1. out[Len(out)] = Newline  BY <1>1 DEF SInv, LineEnds, EndsLines
  <2>2. /\ Tail(out) = <<>> => c = Newline
        /\ Tail(out) # <<>> => Tail(out)[Len(Tail(out))] = Newline
    BY <1>1, <1>2, <2>1, TailEnds
  <2> QED BY <1>1, <1>3, <2>2
<1>10. RuboutIn(buf_index)' <=> RuboutIn(buf_index)  BY <1>1 DEF RuboutIn
<1>11. Room'
  <2> SUFFICES ASSUME ~ dropped, ~ rubbed, ~ unfit
               PROVE  /\ tidy'
                      /\ pc = "poll" => /\ out' \in Seq(Printable)
                                        /\ col' + Len(out') + MaxCmd - 1 <= Cols + buf_index
                                        /\ ~ RuboutIn(buf_index)
                      /\ pc = "prompt" => FitsFrom(out', col') /\ (out' = <<>> => col' = 0)
    BY <1>1, <1>6, <1>10 DEF Room, FitsFrom, FitsScreen, EndsLines
  <2>1. tidy  BY DEF SInv, Room
  <2>2. CASE pc = "poll"
    <3>1. /\ out \in Seq(Printable) /\ col + Len(out) + MaxCmd - 1 <= Cols + buf_index
          /\ ~ RuboutIn(buf_index)
      BY <2>2 DEF SInv, Room
    <3>2. /\ c \in Printable /\ out' \in Seq(Printable)
          /\ Len(out) \in Nat /\ Len(out) > 0 /\ Len(out') = Len(out) - 1
      BY <1>1, <3>1
    <3>3. col \in Nat /\ Cols \in Nat /\ buf_index = 0  BY <1>6, <2>2, SessionFacts DEF SInv, ScreenOK
    <3>4. col < Cols  BY <3>1, <3>2, <3>3, ConstFacts
    <3>5. tidy' /\ col' = col + 1  BY <1>3, <2>1, <3>2, <3>4
    <3>6. col' + Len(out') + MaxCmd - 1 <= Cols + buf_index
      BY <3>1, <3>2, <3>3, <3>5, ConstFacts
    <3> QED BY <2>2, <3>1, <3>2, <3>5, <3>6
  <2>3. CASE pc = "prompt"
    <3>1. FitsFrom(out, col) /\ out \in Seq(Printable \cup {Newline})
      BY <2>3 DEF SInv, Room, FitsFrom
    <3>2. col \in Nat /\ Cols \in Nat  BY SessionFacts DEF SInv, ScreenOK
    <3>3. /\ c = Newline => FitsFrom(Tail(out), 0)
          /\ c # Newline => col + 1 <= Cols /\ FitsFrom(Tail(out), col + 1)
          /\ Tail(out) = <<>> => c = Newline
      BY <1>1, <3>1, <3>2, FitsTail
    <3>4. c \in Printable \cup {Newline}  BY <1>1, <3>1
    <3>5. c # Newline => col < Cols /\ c \in Printable  BY <3>2, <3>3, <3>4
    <3>6. tidy'  BY <1>3, <2>1, <3>5
    <3>7. CASE c = Newline  BY <1>1, <1>3, <2>3, <3>3, <3>6, <3>7
    <3>8. CASE c # Newline  BY <1>1, <1>3, <2>3, <3>3, <3>5, <3>6, <3>8
    <3> QED BY <3>7, <3>8
  <2> QED BY <1>6, <2>2, <2>3
<1> QED BY <1>4, <1>5, <1>7, <1>8, <1>9, <1>11 DEF SInv

LEMMA SessionNextInv == SInv /\ [SessionNext]_sessionVars => SInv'
<1> SUFFICES ASSUME SInv, [SessionNext]_sessionVars PROVE SInv'  OBVIOUS
<1>1. CASE SessionNext
  BY <1>1, ArriveInv, TypeInv, RunInv, AskInv, SayInv DEF SessionNext
<1>2. CASE UNCHANGED sessionVars
  <2>1. UNCHANGED vars /\ UNCHANGED <<buffer, buf_index, pc>>
        /\ UNCHANGED <<page, line, col, tidy, out, lost, dropped, rubbed, unfit>>
    BY <1>2 DEF sessionVars, vars, screen, history
  <2>2. IInv'  BY <2>1, NextInv DEF SInv
  <2>3. RuboutIn(buf_index)' <=> RuboutIn(buf_index)  BY <2>1 DEF RuboutIn
  <2>4. FitsFrom(out, col)' <=> FitsFrom(out, col)  BY <2>1 DEF FitsFrom, FitsScreen, EndsLines
  <2>5. ScreenOK' /\ Waiting' /\ LineEnds'  BY <2>1 DEF SInv, ScreenOK, Waiting, LineEnds, EndsLines
  <2>6. Editing'  BY <2>1, <2>3 DEF SInv, Editing
  <2>7. Room'  BY <2>1, <2>3, <2>4 DEF SInv, Room
  <2> QED BY <2>2, <2>5, <2>6, <2>7 DEF SInv
<1> QED BY <1>1, <1>2

THEOREM SessionInvariance == SessionSpec => []SInv
<1> QED BY SessionInitInv, SessionNextInv, PTL DEF SessionSpec

-----------------------------------------------------------------------------
\* The cursor and the page keep their types with the shell on top of them.
THEOREM SessionTypes == SessionSpec => []SessionTypeOK
<1>1. SInv => SessionTypeOK  BY DEF SInv, IInv, ScreenOK, SessionTypeOK
<1> QED BY <1>1, SessionInvariance, PTL

\* On every screen that has room for a prompt and a full line buffer, gpu_putc
\* stays on the screen as long as no newline is dropped, no rubout typed and no
\* output wider than the screen.
THEOREM UntidyHasCause == SessionSpec => []UntidyNeedsCause
<1>1. SInv => UntidyNeedsCause  BY DEF SInv, Room, UntidyNeedsCause
<1> QED BY <1>1, SessionInvariance, PTL

\* A prompt starts in column 0 unless the newline before it was dropped.
THEOREM PromptsApart == SessionSpec => []PromptOnOwnLine
<1>1. SInv => PromptOnOwnLine  BY DEF SInv, LineEnds, PromptOnOwnLine
<1> QED BY <1>1, SessionInvariance, PTL

\* The line handed over is what counts of the one typed, and that is shown.
LEMMA TypeShows ==
  ASSUME SInv, SInv', Type, pc' = "handle", tidy, ~ RuboutIn(buf_index)
  PROVE  Line' = Abstract!Counted(Shown)
<1>1. Line' = Abstract!Counted(Typed(buf_index))
  <2>1. (IInv /\ pc = "handle" =>
           Line = Abstract!Counted(Entered) /\ Entered \in Seq(Chars))'
    BY LineCounted, PTL
  <2>2. Entered' = Typed(buf_index)  BY LineTyped DEF SInv, Type
  <2>3. Line' = Abstract!Counted(Entered')  BY <2>1 DEF SInv, Abstract!Counted, Abstract!Before, Abstract!Places
  <2> QED BY <2>2, <2>3
<1>2. pc = "poll" /\ buf_index \in Nat  BY ConstFacts DEF Type, Poll, SInv, IInv, TypeOK
<1>3. /\ buf_index <= col /\ col \in Nat
      /\ \A i \in 0 .. buf_index - 1 : page[line][col - buf_index + i] = buffer[i]
  BY <1>2, SessionFacts DEF SInv, Editing, ScreenOK
<1>4. ASSUME NEW i \in 1 .. buf_index
      PROVE  buffer[i - 1] = page[line][col - buf_index + i - 1]
  <2>1. i - 1 \in 0 .. buf_index - 1 /\ col - buf_index + (i - 1) = col - buf_index + i - 1
    BY <1>2, <1>3
  <2>2. page[line][col - buf_index + (i - 1)] = buffer[i - 1]  BY <1>3, <2>1
  <2> QED BY <2>1, <2>2
<1>5. Typed(buf_index) = Shown  BY <1>4 DEF Shown, Typed
<1> QED BY <1>1, <1>5

\* Enter runs what stands on the screen, for every buffer and screen.
THEOREM ShownIsRun == SessionSpec => RunsWhatIsShown
<1> DEFINE A == pc = "poll" /\ pc' = "handle" /\ tidy /\ ~ RuboutIn(buf_index)
                => Line' = Abstract!Counted(Shown)
<1>1. SInv /\ SInv' /\ [SessionNext]_sessionVars => A
  <2> SUFFICES ASSUME SInv, SInv', [SessionNext]_sessionVars,
                      pc = "poll", pc' = "handle", tidy, ~ RuboutIn(buf_index)
               PROVE  Line' = Abstract!Counted(Shown)
    OBVIOUS
  <2>1. Type
    <3>1. ~ Arrive  BY DEF Arrive, Receive
    <3>2. ~ Run  BY DEF Run, Handle
    <3>3. ~ Ask  BY DEF Ask, Prompt
    <3>4. ~ Say  BY DEF Say, vars
    <3>5. ~ UNCHANGED sessionVars  BY DEF sessionVars, vars
    <3> QED BY <3>1, <3>2, <3>3, <3>4, <3>5 DEF SessionNext
  <2> QED BY <2>1, TypeShows
<1>2. SInv /\ SInv' /\ [SessionNext]_sessionVars => [A]_sessionVars  BY <1>1
<1> QED BY <1>2, SessionInvariance, PTL DEF SessionSpec, RunsWhatIsShown

\* The screen is only looked at: with echo, prompts and answers printed one
\* character at a time while the UART receives, each line is still run once, in
\* order, as what it says.
THEOREM SessionRunsLines == SessionSpec => RunsEachLine
<1>1. SessionInit => Init  BY DEF SessionInit
<1>2. [SessionNext]_sessionVars => [Next]_vars
  BY DEF SessionNext, sessionVars, Arrive, Type, Run, Ask, Say, Next
<1> QED BY <1>1, <1>2, EachLineIsRun, PTL DEF SessionSpec
=============================================================================
