------------------------------ MODULE Session ------------------------------
(***************************************************************************)
(* What a user of the shell sees: the loop of src/kernel/cli.c (Shell) and *)
(* the console of src/kernel/gpu.c together.                               *)
(*                                                                         *)
(* Every character that finds room in the line buffer is echoed, rubouts   *)
(* included; handlers and the loop itself print texts with gpu_puts, one   *)
(* character at a time, and do nothing else until they are printed.  The   *)
(* console is the abstract one, Terminal, which Console is proved to       *)
(* implement as long as it is tidy: a character right of the last column,  *)
(* or a rubout left of the first one, ends that, and nothing is said of    *)
(* the screen from there on.                                               *)
(*                                                                         *)
(* What a handler prints is one of Outputs, or the argument (echo).  An    *)
(* output may be wider than the screen, as cat's is when it shows a file   *)
(* once more: it prints the literal that grew with every file before.  It  *)
(* may hold rubouts, and so may a prompt: names are what was typed.  What  *)
(* write prints when it has no argument, the text at address 0, is taken   *)
(* for one of Outputs.                                                     *)
(***************************************************************************)
EXTENDS Shell

CONSTANTS
  Rows, Cols,
  Rubout,    \* 0x08 and 0x7F, a character like others to the line buffer
  Marks,     \* what only the kernel prints
  Prompts,   \* CLI_PROMPT with the names of the current directories
  NotFound,  \* "\nCommand not found\n"
  Outputs    \* what handlers print

\* What may stand in a cell of the screen; the font has a glyph for NUL, too, as
\* blank as that of the space.
Glyphs    == (Letters \ {Rubout}) \cup Marks \cup {Nul}
Printable == Glyphs \cup {Space}

\* What a string may consist of.
Text == Letters \cup Marks \cup {Space, Newline}

\* No line of the text is longer than the screen is wide, and nothing is erased.
FitsScreen(text) ==
  /\ \A i \in DOMAIN text : text[i] # Rubout
  /\ \A i \in 0 .. Len(text) :
       \A j \in i .. Len(text) :
         (\A k \in i + 1 .. j : text[k] # Newline) => j - i <= Cols

EndsLines(text) == text # <<>> => text[Len(text)] = Newline

ASSUME SessionAssumption ==
  /\ Rows \in Nat \ {0} /\ Cols \in Nat
  /\ Rubout \in Letters /\ Marks \cap {Rubout, Space, Newline, Nul} = {}
  /\ Prompts # {} /\ Prompts \subseteq Seq(Text \ {Newline})
  /\ \A p \in Prompts : Len(p) + MaxCmd - 1 <= Cols
  /\ Outputs # {} /\ Outputs \cup {NotFound} \subseteq Seq(Text)
  /\ \A o \in Outputs \cup {NotFound} : EndsLines(o)
  /\ FitsScreen(NotFound)

VARIABLES
  page, line, col,  \* the console
  tidy,             \* it is still the one of Terminal
  out,              \* what gpu_puts still has to print
  lost,             \* the newline of the line ended last found the buffer full
  dropped,          \* so far some newline did
  rubbed,           \* so far some rubout was echoed
  unfit             \* so far some output or prompt did not fit the screen

screen == <<page, line, col, tidy>>
history == <<lost, dropped, rubbed, unfit>>
sessionVars == <<vars, screen, out, history>>

Term == INSTANCE Terminal WITH Blank <- Space

SessionInit ==
  /\ Init
  /\ Term!Init /\ tidy = TRUE
  /\ out \in Prompts
  /\ lost = FALSE /\ dropped = FALSE /\ rubbed = FALSE
  /\ unfit = ~ FitsScreen(out)

-----------------------------------------------------------------------------
\* Mutant of Draws: a rubout drawn like other characters.
DrawsRubout(c) ==
  \/ c = Newline /\ Term!NewLine
  \/ c # Newline /\ Term!PutChar(c)

Draws(c) ==
  \/ c = Newline /\ Term!NewLine
  \/ c = Rubout /\ Term!Erase
  \/ c \in Printable /\ Term!PutChar(c)

OffScreen(c) ==
  \/ c = Rubout /\ col = 0
  \/ c \in Printable /\ col = Cols

\* gpu_putc.
Putc(c) ==
  \/ tidy /\ Draws(c) /\ UNCHANGED tidy
  \/ /\ tidy => OffScreen(c)
     /\ tidy' = FALSE
     /\ UNCHANGED <<page, line, col>>

\* Mutants of Echoed: characters without room echoed too; no newline echoed.
EchoedAll(c)     == TRUE
EchoedLetters(c) == HasRoom /\ c # Newline

\* The echo is in the branch that stores the character.
Echoed(c) == HasRoom

\* A turn of the loop, with its echo.
Type ==
  /\ out = <<>>
  /\ Poll
  /\ \E c \in {Head(fifo)} :
       /\ IF Echoed(c) THEN Putc(c) ELSE UNCHANGED screen
       /\ lost' = (c = Newline /\ ~ HasRoom)
       /\ dropped' = (dropped \/ lost')
       /\ rubbed' = (rubbed \/ (c = Rubout /\ HasRoom))
  /\ UNCHANGED <<out, unfit>>

\* What is printed for the line just handled.
Printed ==
  {o \in {<<>>} : ran'.how = "quiet"} \cup
  {o \in {NotFound} : ran'.how = "unknown"} \cup
  {o \in Outputs \cup {Append(ran'.args, Newline)} : ran'.how \in {"run", "garbage"}}

\* A text starts to be printed, which may be one of these.
Starts(texts) ==
  /\ unfit' = (unfit \/ (out' \in texts /\ ~ FitsScreen(out')))
  /\ UNCHANGED <<lost, dropped, rubbed>>

Run ==
  /\ out = <<>>
  /\ Handle
  /\ out' \in Printed
  /\ Starts(Outputs)
  /\ UNCHANGED screen

Ask ==
  /\ out = <<>>
  /\ Prompt
  /\ out' \in Prompts
  /\ Starts(Prompts)
  /\ UNCHANGED screen

\* gpu_puts, one turn.
Say ==
  /\ out # <<>>
  /\ Putc(Head(out))
  /\ out' = Tail(out)
  /\ UNCHANGED <<vars, history>>

Arrive == (\E c \in Chars : Receive(c)) /\ UNCHANGED <<screen, out, history>>

SessionNext == Arrive \/ Type \/ Run \/ Ask \/ Say

SessionSpec == SessionInit /\ [][SessionNext]_sessionVars

-----------------------------------------------------------------------------
SessionTypeOK ==
  /\ TypeOK
  /\ page \in [0 .. Rows - 1 -> [0 .. Cols - 1 -> Printable]]
  /\ line \in 0 .. Rows - 1 /\ col \in 0 .. Cols
  /\ {tidy, lost, dropped, rubbed, unfit} \subseteq BOOLEAN
  /\ out \in Seq(Chars \cup Marks)

\* What stands left of the cursor, as long as the line buffer.
Shown == [i \in 1 .. buf_index |-> page[line][col - buf_index + i - 1]]

RuboutIn(n) == \E i \in 0 .. n - 1 : buffer[i] = Rubout

\* What Enter runs is what the screen shows left of the cursor, up to the first
\* NUL there: characters the buffer had no room for are neither shown nor run.
\* Only a line with a rubout is another one than it looks, for the buffer keeps
\* what it erases.
RunsWhatIsShown ==
  [][pc = "poll" /\ pc' = "handle" /\ tidy /\ ~ RuboutIn(buf_index)
       => Line' = Abstract!Counted(Shown)]_sessionVars

\* Each prompt has a line of its own, whatever the command printed, unless the
\* command's line was so long that its newline was dropped, and not echoed.
PromptOnOwnLine ==
  pc = "prompt" /\ out = <<>> /\ tidy => col = 0 \/ lost

\* The shell alone never runs over the edges of the screen: it takes a rubout, a
\* line whose newline was dropped, behind which the next prompt and line go on,
\* or a text that is wider than the screen, as cat's becomes.
UntidyNeedsCause == ~ tidy => dropped \/ rubbed \/ unfit
=============================================================================
