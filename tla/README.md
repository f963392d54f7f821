# BetamaBridgeOS: TLA+ models and proofs

BetamaBridgeOS is a bare-metal kernel for the Raspberry Pi 2: it boots into C,
sets up a heap, a filesystem simulated in RAM and a framebuffer console, and
then runs a shell for ever. This directory models its core in TLA+, checks the
models with TLC and proves most of what they say with TLAPS. Paths below are
relative to the root of the repository, the directory with `src/`, `include/`
and `README.md`.

## 1. The system

| Part | State | Operations | Correct when |
|---|---|---|---|
| Filesystem, `src/fs/fs.c`, `include/fs/fs.h` | RAM from `FS_START_ADDR`: superblock with the inode and zone bitmaps (block 1), inode table (block 2), zones of two blocks; `current_dir_id`, `current_num_inode` | `setup_fs`, `mount_sim_fs`, `create_file`, `create_dir`, `change_dir`, `list_dir`, `list_dir_addr`, `read_file`, `write_file`, `get_inode_name` | zones and inodes are never handed out twice; bitmaps, table and directory blocks tell the same story; the directories form a tree that only grows |
| Shell commands, `src/kernel/cli.c` | none of their own | `mkdir touch write ls cd cat pwd echo` | each does what `README.md` lists for it |
| Heap, `src/kernel/memory.c`, `include/kernel/memory.h`, `include/common/list.h` | page table and list of free pages; list of blocks with their headers in memory; `heap_size` | `memory_init`, `alloc_page`, `find_best_fit`, `split_block`, `kmalloc`, `kfree` | what `kmalloc` returns is disjoint, inside the heap's pages, and `kmalloc` returns |
| Line editor and dispatch, `src/kernel/cli.c`, `split_str` | 25-byte line buffer, command table | `poll_cli_input`, `handle_cmd`, `get_cmd_entry` | each line typed is one command, run once, as what it says and as what the screen shows |
| UART, `src/kernel/uart.c` | the device's FIFOs | `uart_init`, `uart_read_input`, `putc` | no character is read twice |
| Console, `src/kernel/gpu.c` | cursor, screen | `gpu_putc`, `gpu_puts`, `framebuffer_set_background` | the screen shows what was printed; no pixel falls outside it |
| Mailbox, `src/kernel/framebuffer.c` | one message buffer, the device's queues | `mailbox_send`, `mailbox_read`, `send_messages`, `framebuffer_init` | an answer is read by the request it belongs to; the boot ends |
| SD and SPI, `src/drivers/` | device registers | `sd_init`, `sd_read_block`, `sd_write_block` | called by nothing in this tree |
| Strings, `src/common/stdio.c` | none | `strcmp strcat split_str int_to_ascii pointer_to_hex_str printf` | each computes its function and stays in its buffer |
| Boot, `boot.S`, `kernel.c` | none | stack, `.bss`, `kernel_main` | the parts are set up in the order they need each other |

How they interact. `kernel_main` calls `uart_init`, `memory_init`, `setup_fs`,
`mount_sim_fs`, `framebuffer_init`, `shell_install` and `poll_cli_input`, which
never returns. A command is a call chain: shell, then filesystem, which reads
and writes the disk's RAM directly and takes scratch memory from the heap, then
console and UART for output. Interrupts are never enabled and the other cores
are parked in `boot.S`: there is one thread, nothing preempts anything, and the
only concurrent actors are the devices: the UART, which fills its FIFO while
the shell is busy, and the GPU behind its mailbox.

What is hard here is therefore less scheduling than state that several
functions must keep in step without any check: stack copies of disk blocks
written back in pieces, a counter that doubles as an append cursor, a string
literal that is appended to, a free list whose order is relied on, block sizes
that count the header in one place and not in another, a line buffer and a
screen that are two pictures of one line, an answer that is told from stale
mail by its channel only, and limits that nobody tests. Section 7 and `hazards`
in `PROJECT.json` list them.

## 2. Modules

    DirTree        what the shell promises: a tree that only grows
      ^ implemented by
    SimFS          fs.c and the commands of cli.c   (MCSimFS)
      ^ SimFS_proofs     invariants under any calls, proved
          ^ Tree_proofs  the tree and the refinement, proved

    Allocator      what callers of kmalloc rely on
      ^ implemented by
    Heap           memory.c
      ^ Heap_proofs

    Mailbox        framebuffer.c and the GPU
      ^ Mailbox_proofs

    Terminal       what a text console promises
      ^ implemented by
    Console        gpu.c down to rows of pixels
      ^ Console_proofs

    CommandLine    what a shell promises of the lines it is sent
      ^ implemented by
    Shell          UART, line buffer, split_str, dispatch   (MCShell)
      ^ Shell_proofs
    Session        Shell composed with Terminal: what the user sees   (MCSession)
      ^ Session_proofs

`^` is EXTENDS, or INSTANCE where it says "implemented by". `MCSimFS`,
`MCShell` and `MCSession` hold the definitions of their instances' constants.
`InductionTheorems`, which Heap_proofs and Shell_proofs extend, has induction
over the numbers and the facts about sums that follow from it.

### SimFS

| Variable | Code |
|---|---|
| `sb.inodes`, `sb.zones` | the bitmaps in block 1, as the sets of bits set |
| `table` | block 2, an `inode_t` per number: mode, `zones[0]`, `num_links`, `file_size` in entries |
| `disk[z]` | the first block of zone `z`, block `z << 1`, both as text and as directory entries |
| `cwd`, `count` | `current_dir_id`, `current_num_inode` |
| `lit` | what fs.c's string literal `""` contains; `read_file` appends to it |
| `wild` | an index outside its array was used |

The boot state is the one after `setup_fs` and `mount_sim_fs` on zeroed RAM. An
action is a whole command: `Create` is `create_file` or `create_dir` with the
`allocate_inode` and `allocate_zone` they call, the parent's inode and entry
included, since nothing can run in between. The stack copies of the blocks are
not variables: each is filled at the start of the call from which it is written
back, and `Create` computes what is written last.

The root inode is an ordinary inode whose `zones[0]` is 0: its directory is in
zone 0. An empty file has no zone either, `zones[0]` stays 0, and so operations
on it reach the root directory's block; the model has this because it follows
`zones[0]` the way the code does.

Names are strings. A file's content is one word of up to four characters: what
the directory code sees in such a block is a single entry with an empty name,
whose link is the word as a number, `LinkOf`. That is a number past the table
(`TextLink`) for a word of letters, and an inode of the table, made or not, for
a single character below `*`. Longer texts would give more entries, of the same
kind. The contents of the literal `""` are the sequence of the words appended
to it. `write` with a name and no text takes its text from address 0
(`WriteNothing`): nothing, or any of the texts.

The code tests no capacity, and the model has no test either: it ends where
defined behaviour does. `CreateFits` is that border for a create (inode 42,
entry 36, no free zone, or a current directory outside the table). A create
past it is `CreateOverrun`, which counts its inode, as the code does, and sets
`wild`; a command that follows a link made of letters is `FollowOverrun`.
Nothing is said of the disk from there on. `fs.h` announces 512 inodes and says
of the counter "MAX IS 512" (fs.h:119); the table of block 2 holds 42, and no
line compares the counter with either.

Three next-state relations differ in who calls: `NextShell` is anything typed at
the prompt; `NextReadme` is the shell used as `README.md` describes it (names
are not empty and not `.` or `..`, and `cd` is given a directory); `NextApi`
is the shell and the call of `fs.h` that no command makes, `write_file`.

### DirTree

The abstract specification: `nodes`, the sequence of nodes in the order of
their making, and `here`. `Make`, `Enter`, `Up` and `Home` are all that can
happen. `SimFS!Tree` instantiates it with a tree read off the inodes, the
directory entries and the text blocks.

### Allocator

The abstract specification: `given`, the length of the memory given away, by
address; `wanted`, the call under way; `lost`, set once the allocator has
written over what it gave. `Ask`, `Answer` and `Lose` are all that can happen.
Memory once given is not taken back, since `kfree` gives nothing back.

### Heap

| Variable | Code |
|---|---|
| `hdr` | the block headers in memory, by address |
| `heap_head`, `heap_tail`, `heap_size` | the globals |
| `num_pages`, `free_pages` | the page table's length, the free list (`list.h`: append at the tail, pop at the head) |
| `pc`, `req`, `curr`, `best`, `run` | where `kmalloc` is and its locals and those of `find_best_fit` |
| `low` | addresses below the kernel where a header was written |
| `booted` | `setup_fs` has cleared its table |
| `wild` | a header was put over other data, so that its `next` is unknown |

`Kmalloc` is the call up to the search; `Visit` one turn of the loop in
`find_best_fit`; `Found` and `Miss` its end with the call of `split_block`;
`TakePage` one `alloc_page`; `NewRun` the header on the pages taken, and its
split; `AppendBlock` the rest. The first request is the inode table, and
`ClearTable` is the loop of `setup_fs` whose `memset` runs past it.
`kfree` treats a payload as a header. What its two loops do depends on the
payload's bytes: zeroes stop them, everything else is `wild`; and in a payload
smaller than a header it writes to its neighbour's, which is `wild` too.
`Dirty` belongs to the model and not to the code: it notices when a header is
put over other data. `Given`, the
refinement of Allocator, is the payloads of the blocks in use by address; the
block `kmalloc` has split but not yet put into its list is not among them.

### Console and Terminal

| Variable | Code |
|---|---|
| `fb` | the framebuffer as strips, one pixel row of one character cell each, in the order of their addresses |
| `chars_x`, `chars_y` | the cursor in `fbinfo`, `uint32_t` |
| `outside` | `write_pixel` was given an address outside the framebuffer |
| `tidy` | no character was drawn right of the last column or erased left of the first |

A strip knows which row of which glyph it is, so that a character whose rows
land on different lines of the screen shows as what it is, no character. The
address arithmetic is the code's, with `x*BYTES_PER_PIXEL` wrapping before it
is divided. `PutChar`, `Erase` and `NewLine` are the branches of `gpu_putc`,
each with the scroll it starts with and the wrap it ends with. `Terminal` is
the page a user expects, with the scroll done at once: `Page` reads it off the
strips, with the scroll that is due already made.

### Mailbox

| Variable | Code |
|---|---|
| `inbox`, `outbox` | the hardware's queues to the kernel and to the GPU, as the channels of their mails |
| `buf` | `mail_buffer`: response code, first tag, its value |
| `call`, `pc`, `tags` | which `send_messages` of `framebuffer_init`, where it is, its tags array |
| `fbinfo` | width and address, as far as they are set |
| `gpu`, `owed` | the GPU's framebuffer; it has answered in the buffer and not yet by mail |
| `noise` | mails so far that answer nothing |

`Fill`, `Post`, `Receive`, `Fail` and `Accept` follow `send_messages` through
`mailbox_send` and `mailbox_read`; `Grant`, `Refuse` and `Answer` are the GPU,
modelled from how it is used; `Intrude` puts a foreign mail into the queue,
of the property channel too. The code's `MAIL0_STATUS` test before sending is
about the queue it reads from, and `Post` has that guard. `send_messages` ends
with `kfree(mail_buffer)`, which may overwrite the buffer's first tag: `Accept`
leaves it as it was or as `scrap`.

### Shell and CommandLine

| Variable | Code |
|---|---|
| `fifo` | the PL011's receive FIFO |
| `buffer`, `buf_index` | the line buffer, an array with its terminator, and the index |
| `pc` | where `poll_cli_input` is: its loop, `handle_cmd`, the new prompt |
| `heap` | bytes `kmalloc` still hands out; nothing is ever freed |
| `ran` | what became of the line handled last |

`Poll` is one turn of the loop that finds a character; `Handle` is `handle_cmd`
with `split_str`, the lookup and the handler, which for `write` splits its
argument again; `Prompt` the rest of the turn. A NUL that the UART delivers is
stored and echoed like any character, and `strlen` ends the line at it. A token
is not found to be missing: with the heap exhausted `split_str` works on address
0, and the outcome `garbage` stands for whatever that gives. `CommandLine` says
what a user may rely on: lines are queued and run in order, each as the first
word and the rest of what stands before its first NUL (`Counted`); `poor` says
that memory is short. The refinement reads `cur` and `todo` off the line buffer
and the characters still in the FIFO.

### Session

| Variable | Code |
|---|---|
| those of Shell | as above |
| `page`, `line`, `col`, `tidy` | the console, as Terminal sees it |
| `out` | what `gpu_puts` still has to print |
| `lost` | the newline of the line ended last found the buffer full |
| `dropped`, `rubbed`, `unfit` | history: some newline did; a rubout was echoed; an output or a prompt was printed that does not fit the screen (`FitsScreen`) |

`Type` is `Shell!Poll` with the echo, which is in the branch that stores the
character; `Run` and `Ask` are `Handle` and `Prompt` with what they print; `Say`
is one character of it. While something is printed the loop does nothing else,
and the FIFO fills. Outputs are any texts that end their last line, some of them
wider than the screen, as what `cat` prints becomes. The console is the abstract
one, which Console is proved to implement while it is tidy; after that nothing
is said of the screen.

## 3. Runs

| Run | Module, config | Outcome | Question |
|---|---|---|---|
| `fs_api` | MCSimFS, `SimFS_api.cfg` | holds, 1.5 million states | zones, inodes, bitmaps and blank zones under any calls |
| `fs_readme` | MCSimFS, `SimFS_readme.cfg` | holds, 65 thousand | the tree, `pwd`, the append cursor, and that SimFS implements DirTree |
| `heap` | Heap, `Heap.cfg` | holds, 155 thousand | order, disjointness, accounting, termination, and that Heap implements Allocator |
| `console` | Console, `Console.cfg` | holds | cursor, pixels, lines above the cursor, and that Console implements Terminal while tidy |
| `mailbox` | Mailbox, `Mailbox.cfg` | holds | answers and requests are not mixed up; the boot ends |
| `shell` | MCShell, `MCShell.cfg` | holds, 300 thousand | every line is run once, in order, as what it says; the shell goes on listening |
| `session` | MCSession, `MCSession.cfg` | holds, 6.9 million | what is run is what is shown; prompts; what it takes to leave the screen |
| `fs_cat` | MCSimFS, `SimFS_cat.cfg` | violated | what `README.md` says of `cat` |
| `heap_below_fs`, `heap_null_split`, `heap_kfree`, `heap_overlap` | Heap, `Heap_*.cfg` | violated | what comments and `README.md` say of the heap |

Properties of SimFS that hold:

- `ZoneOwnership`: no two inodes share a zone other than 0, none owns the zone
  of the superblock's table, and the bitmap marks exactly the zones owned.
- `InodesAgree`: `current_num_inode`, the inode bitmap and the modes agree, the
  counter until a create overruns.
- `FreeZonesBlank`: a free zone holds zeroes. `allocate_inode` reads a new
  directory's block and overwrites two entries; it relies on this.
- `AppendCursor`: `num_links` is the number of entries of a directory, its slots
  below are named and those above untouched. It counts the dot entries of a
  directory made by `mkdir` and none for the root, which has none.
- `TreeShape`: each inode is entered once, in an older directory, and `.` and
  `..` lead where they should.
- `PwdResolves`: `get_inode_name` finds the name the directory was made with,
  though it looks through `current_dir_id`.
- `ImplementsTree`: each command is one step of DirTree or a stutter. `cd` enters
  the oldest child of that name.

The last four need the documented use. `cd` does not look at the mode and enters
files too; from inside an empty file a `touch` overwrites an entry of the root.
The first three hold of that as well.

Properties of Heap that hold:

- `ListOrder`: addresses grow along the list, and only its last block can be
  free, so that the list has no cycle and the search, which keeps the last fit
  and not the best, has one candidate.
- `RunContiguous`: the pages of a request follow each other, which `kmalloc`
  assumes.
- `DisjointUnlessWild`: payloads do not overlap, and no header lies in one.
- `SizeAccounted`: between calls `heap_size` is the sum of the blocks in use,
  plus one for each.
- `ImplementsAllocator`: a call is answered with new memory of the size asked
  for; no later split, merge or `memset` moves it or cuts it; and all that is
  given stays within `KERNEL_HEAP_SIZE`.
- `RunShortens`: each step of `kmalloc` lowers `Remaining`, the blocks its search
  has before it and the pages it has to take.
- `KmallocReturns`: every request ends.

A run's size is rounded up past its last page, by 24 bytes in the code, so that
a later run's header may be put inside a payload. `NewRun` notices: it compares
the header's address with what was written before and sets `wild`, and
all but `RunContiguous`, `RunShortens` and `KmallocReturns` speak of the heap
until then. `SizeAccounted` needs this too: after a request that fills a page
with its header to the byte, a request of four bytes is given the 24 bytes left
over, whose header is on the next page, and the next run overwrites it.
`heap_overlap` shows the overlap itself.

Properties of Console that hold:

- `CursorOnScreen`: whatever is printed or erased, the cursor is on the screen
  or one past its edge. An erase in column 0 takes the column to 2^32-1, and
  the wrap, which compares with `>`, brings it back.
- `TidyStaysInside`: as long as it is tidy, no pixel is written outside the
  framebuffer. Untidy, one is: the character in column 80 of the last row.
- `LinesAboveKept`: no step damages a line above the cursor's, untidy or not.
- `ShowsPage`: while tidy, `gpu_putc` is the terminal.

Properties of Mailbox that hold:

- `FbinfoIsGpus`: what `fbinfo` says is what the GPU has. A stale mail of the
  property channel ends the wait early, and then it is the response code that
  keeps the kernel from taking the request for the answer.
- `RequestIntact`: until the GPU has read it, the buffer holds the request.
- `OnlyNoiseClogs`: only foreign mails that fill the whole queue can stop the
  kernel before it sends.
- `AnswerComing`: whenever the kernel is in `mailbox_read`, which has no timeout,
  a mail that ends its wait is on its way.
- `BootShortens`: each step of the kernel, the GPU or a stranger lowers
  `Remaining`: nobody asks twice, whatever is answered.
- `BootEnds`: otherwise the boot comes to the shell.

Properties of Shell that hold:

- `LineWhole`: the string given to `handle_cmd` ends where storing stopped, for
  lines longer than the buffer too, or at a NUL before; nothing of an earlier
  line shows behind it, and no newline stands in it but its own.
- `RunsEachLine`: Shell implements CommandLine; a line is run as far as its first
  NUL, one with `echo a`, NUL, `b` as `echo a`.
- `LinesGetHandled`: a line in the FIFO leads to a line being run.

Properties of Session that hold:

- `RunsWhatIsShown`: when Enter is pressed, the line run is the text left of the
  cursor, up to the first NUL there, which the font shows as a blank; unless it
  has a rubout in it: the buffer keeps what the screen erases.
- `PromptOnOwnLine`: when a prompt is about to be printed, the cursor is in
  column 0, unless the line before was so long that its newline was dropped.
- `UntidyNeedsCause`: nothing leaves the screen but for one of three causes. A
  dropped newline: two full lines in a row, whose commands print nothing, are on
  one line of the screen and run past its edge. A rubout: 24 of them walk over
  the prompt and out of the left edge. A text printed that is wider than the
  screen: `cat` prints the literal that each `cat` lengthens, and the sixth of a
  file of 15 letters prints 90 of them. What the property rules out is a fourth
  cause, such as the echo of characters the buffer did not store.

Each config checks one type invariant besides, where the module has variables.

### Findings

1. `fs_cat`: a second `cat` prints the first file too (README.md:34).
2. `heap_below_fs`: the heap grows over the disk (fs.h:141).
3. `heap_null_split`: a failed search writes headers at address 0 (README.md:118).
4. `heap_kfree`: `kfree` frees nothing (README.md:118).
5. `heap_overlap`: the last block of a run reaches into the next (memory.h:57).

### Bounds

- SimFS: in `fs_readme` five inodes (42 in the code), directories of four entries
  (36), five zones of which three can be handed out (256). Four creations make a
  directory inside a directory inside a directory, two children of one name, a
  full root and a full table, in every order. The zones run out first in some
  behaviours, the slots of a directory or the table in others, so that
  `CreateOverrun` has each of its causes. In `fs_api`, where `write_file` and
  `cd` into files multiply the states, one inode less. The texts are `a`, a
  number past the table, and `!`, the number of its last inode, which `cd` from
  inside a file enters before it is made and after. Two names suffice, since
  names are only compared: in `fs_api` they are a name and the empty one, which
  a command without an argument passes; in `fs_readme` two names, one of them
  also a text, so that the literal `""` can equal a name. `MaxLit` bounds how
  much `cat` appends, one or two words; more only makes the literal equal to no
  name.
- Heap: pages of 128 bytes (4096), `Requests` {4, 25, 60, 108, 150}: what fits
  the smallest remainder, just over a header, half a page, a page to the byte
  with the header, more than a page. The table asks for 60
  bytes and its `memset` clears 90, into the header behind it, the proportion
  the code has (12288 and 18 KB). Eight pages make runs of one page and of
  two, in every order, with both halves of a batch; `HeapLimit` 500 makes the
  out-of-memory return reachable. `FsStart` lies just below `HeapBase` +
  `HeapLimit`, as 0x540000 does in the shipped image.
- Console: two columns, three rows, cells two pixels high, two glyphs: two
  columns are enough for a character past the edge and for an erase in column
  0, three rows for a scroll with a line above and one below, two pixel rows
  for a cell that is drawn half on one line and half on the next. `Word` is
  2^20, small enough for TLC's integers when multiplied by the stride.
- Mailbox: queues of three mails (eight), four foreign mails: one more than
  clogs the queue. Two sizes, so that the GPU may change the one asked for.
- Shell: a buffer of five bytes (25), a FIFO of two (16), two commands of which
  one is `write`, written with one letter once and twice; lines longer than the
  buffer, lines that fill it exactly, empty ones and lines with a NUL at any
  place occur. The heap starts with 26 bytes and every request takes a
  few, so that each of the requests a line makes is the first to fail somewhere.
- Session: the screen has one line of five columns, the prompt one character and
  the buffer four bytes, so that prompt and full line just fit, as 24 + 24
  characters and more do in 80 columns; one line is enough because each newline
  then scrolls. Letters are one and a rubout, besides NUL, space and newline.
  Outputs are nothing and one of six characters, wider than the screen.
- `CHECK_DEADLOCK FALSE` in the configs of SimFS, Heap and Mailbox: after `wild`
  nothing is said; the bounds (`MaxLit`, `MaxPages`, a full table) stop the
  model where the machine goes on; and the boot ends, or clogs. Console, Shell
  and Session are checked for deadlock and have none.

### Fairness

- SimFS, Console and Session state none: a user may stop typing.
- Heap has `WF_vars(Run)`, `Run` being the steps inside `kmalloc`: one thread
  runs, with interrupts off, so once called it goes on until it returns.
- Mailbox has weak fairness of `Kernel` and of `Gpu`: the kernel does nothing
  else during the boot, and the firmware serves its mailbox. Foreign mails are
  under no fairness. If the GPU did not answer, `mailbox_read` would wait for
  ever; it has no timeout.
- Shell has `WF_vars(Poll \/ Handle \/ Prompt)`: the loop runs for ever and
  every handler returns, which for the heap is `KmallocReturns`. Nothing is
  assumed of `Receive`.

## 4. Proofs

Every theorem holds for all values of the constants that satisfy the named
assumption of its module. Every invariant, action property and refinement that a
passing run checks is the statement of one.

`InductionTheorems` is what the proofs about data stand on. The library's
induction theorems take the predicate as an operator, which the provers cannot
instantiate; here it is a set. `NatInductionOnSet` follows from the library's
theorem that a well-founded relation has a minimal element in every set that is
not empty: the least number outside the set would follow one inside. From it
come `SmallestSubset`, the same for finite sets, and then that the sum over a
finite set does not depend on the order in which its definition picks the
elements (`SubtotalsAgree`), which gives `SumAdd`: one element more adds itself.

`SimFS_proofs` proves, for every number of inodes, entries and zones and every
set of names and texts (`FsAssumption`; its only demands on them are that `""`
is not a text, and that a text is as a number an inode other than the root's or
past the table: its first byte is not NUL), that `TypeOK`, `ZoneOwnership`,
`InodesAgree` and `FreeZonesBlank` hold in every state of `SpecApi` (theorems
`TypeCorrect`, `ZonesOwned`, `InodesConsistent`, `FreshZonesBlank`), and that
`Spec` and `SpecReadme` imply `SpecApi` (`ShellIsApi`), so that they hold of the
shell as well. Its inductive invariant `IInv` adds three facts:

- `MadeInOrder`: the inodes marked are a run from 1 on. `InodesAgree` says so
  through the counter, which an overrun takes away.
- `UnmadeOwnNothing`: an inode not marked has no zone. Without it a new inode
  could already own one, and `ZoneOwnership` would break. That it may have
  entries all the same is what a `cd` by number to an inode not yet made gives.
- `SizeBelowLinks`: `file_size` counts no more entries than `num_links`, which
  bounds it; the code increments both at the same place.

`Tree_proofs` builds on it and proves of `SpecReadme` that `AppendCursor`,
`TreeShape` and `PwdResolves` always hold (`CursorAppends`, `TreeStands`,
`PwdFinds`) and that the shell implements DirTree (`ShellImplementsTree`). Its
invariant `TInv` speaks of the newest inode made, `Last`, which is the counter
until an overrun. It adds that the current inode is a directory and every
directory but the root has a zone of its own, so that a create writes two known
blocks (`Created`); that directories hold links to inodes, the dot entries first
and then the children, named by the user and oldest first (`LinksAreInodes`,
`DotsFirst`, `ChildrenNamed`, `OldestFirst`); and that every inode has one home
to which a directory's second entry leads (`OneHome`). `EntriesAfterCreate` and
`HomesAfterCreate` say what a create adds; `CreateKeepsTree` then preserves the
invariant conjunct by conjunct. For the refinement `CreateMakes` shows that the
sequence of nodes grows by the new one and keeps the others, and `CdShown` takes
the kinds of names one by one; that a first match among the entries is the
oldest child of the name is where `OldestFirst` is needed.

`Heap_proofs` proves, for every page size, limit and set of requests
(`HeapAssumption`), that `TypeOK`, `ListOrder`, `RunContiguous`,
`DisjointUnlessWild` and `SizeAccounted` hold in every state of `Spec` (theorems
`TypeCorrect`, `ListOrdered`, `RunsContiguous`, `PayloadsDisjoint`,
`SizesAccounted`), that Heap implements Allocator (`Implements`) and that
`kmalloc`'s steps lower `Remaining` (`RunsShorten`). None of the invariants is
inductive. Its
`IInv` says, as long as `wild` is not set:

- `Blocks`: a header with a next field is in use and leads upward; the block with
  the highest address (`Last`) is the tail or the free remainder behind it.
- `Payloads`: what a block in use holds ends before every later header, the block
  about to be appended (`Pending`) being counted with the size requested.
- `Searching`: what a search has found can only be that remainder. This is why a
  block is never linked twice, and why the split is at the end of everything.
- `Appending`: the block about to be appended lies above the tail, with nothing
  above it but what was cut from it.
- `Booting`: until `setup_fs` has cleared its table, that table is the only block
  in use, so that the overrun meets no header that matters.

and, `wild` or not, `PagesInv` (the free list is empty or holds the second page
of the last batch, and the pages taken end where it begins) and `Locals` (which
locals are set at which `pc`). There is one lemma per action for types and
pages, and one for the list; `SplitEffect`, `NewRunEffect` and `AppendEffect`
say what the three writers of headers leave. `HeapInv` adds two more for the
sizes: `Accounts`, that `heap_size` is the sum over the blocks in use except the
one about to be appended, in every state and not only between calls; and
`PendingHolds`, that this one is as large as the request and its header. The
refinement follows: `KmallocAsks` needs that the payloads are together no larger
than the blocks `heap_size` counts, so that the code's limit on the one is
Allocator's limit on the other; `AppendAnswers` that the payload is new and
apart from all before it; `RestStutters` that no other step changes `Given`.
For `RunShortens` the blocks at and above `curr` are a finite set which `Visit`
leaves by an element, because `next` leads upward (`VisitLeaves`).

`Console_proofs` proves, for every size of screen and cell and every word the
screen's addresses fit (`ConsoleAssumption`), `TypeCorrect`, `CursorStays`,
`TidyInside`, `AboveKept` and `ImplementsTerminal`. The first three are
inductive together; the rest is arithmetic, in lemmas of their own
(`AddressFacts`, `CellInside`, what a character and a scroll do to a cell): two
cells never share a strip, so that a character changes one cell of the page.

`Mailbox_proofs` proves, for every depth of the queues and any number of
foreign mails, `TypeCorrect`, `FbinfoTrue`, `RequestKept` and `NoiseClogs`. The
invariant adds that there is one request at a time (`OneRequest`), that a
granted request is what the GPU has while the kernel waits (`GrantStands`), what
each call has added to `fbinfo` (`Progress`), and a count of the mails on their
way (`Backlog`). `AnswersCome` and `BootRunsOut` are about the end of the boot:
`AnswerComing` is inductive beside `IInv`, and for `BootShortens` a request is
weighed as the three steps it still takes, an answer owed as two and a mail in
the queue as one, so that `Post`, which makes a request, has to be worth four.

`Shell_proofs` proves, for every buffer, FIFO and heap and every set of
commands, `TypeCorrect`, `LineIsWhole` and that Shell implements CommandLine
(`LinesAreRun`), whatever bytes are received. `Closed` says that a newline can
only be the last character stored, and that the terminator is behind it; what
`strlen` and the cutting of newlines then leave of the characters stored is what
stands before the first NUL among them (`LineCounted`). `Sent`, the lines the
shell still has to run, is a fold over the FIFO, given by a recursive function.
Such a function exists for every FIFO and there is only one (`FoldExists`,
`FoldUnique`, by induction on its length), so that a character more is one step
more at the end (`FoldAppend`) and a character read is one step less at the
front (`FoldTail`). Hence `Receive` sends a character, `Poll` is a stutter (the
character moves from the fold over the FIFO into its start), and `Handle` runs
the oldest line; that the two tokens `split_str` makes are the words CommandLine
speaks of is `TokensAreWords`, and that its requests fit the heap unless memory
is poor is `TokenLengths`. `EachLineIsRun` is the same of the safety part alone,
for Session.

`Session_proofs` proves, for every screen on which a prompt and a full line fit
one row, and whatever else is printed (`SessionAssumption`), `SessionTypes`,
`UntidyHasCause`, `PromptsApart`, `ShownIsRun` and that Shell's refinement
survives the composition (`SessionRunsLines`). The invariant `SInv` is
that of Shell and four facts: a line is typed behind its prompt (`Waiting`);
what is typed stands left of the cursor (`Editing`); answers end in column 0
(`LineEnds`); and, until a newline is dropped, a rubout echoed or a text printed
that does not fit, the rest of the screen's row has room for all that the buffer
still takes (`Room`).

Only model-checked: `KmallocReturns`, `BootEnds` and `LinesGetHandled`, which are
liveness. Of the first two, the part that is about the code is proved:
`RunShortens` and `BootShortens` say that the steps come to an end, and
`AnswerComing` that the kernel does not wait in vain. What is left to TLC is that
fairness makes each step happen, which takes ENABLED. The runs that expect a
violation have no theorem.

## 5. Not modelled

- Filesystem: texts longer than four characters and files of more than one zone,
  the overlong text that `write` without one may find at address 0 included; the
  superblock's fields nobody reads; what the two dumps print; and the disk after
  an index outside its array.
- Commands: what they print, in detail: Session takes it for one of a few texts.
  The prompt is taken for a text as well, although it is built at the low address
  that is left of its pointer in a `char`.
- Heap: the write to `next->prev` through the word at address 0, when a failed
  search splits NULL; it stays in low memory. Shell's heap is a number of bytes:
  `Header` stands for the header, the rounding and what is not split off.
- Console: glyphs above 127, which the font does not have.
- UART: `uart_init`'s register writes, transmission, and `getc`, which nothing
  calls.
- Strings: `int_to_ascii`, `pointer_to_hex_str` and the printing functions. They
  keep no state; the one way they can go wrong is the two-byte array `ls` and
  `write` give `int_to_ascii`, which a count of ten or more overruns.
  `hex_to_string` is called by nothing.
- SD card and SPI: called by nothing, so that no behaviour of the program reaches
  them. What they do depends on device registers whose behaviour the code does
  not show.
- Boot: `boot.S` and the clearing of `.bss` are straight-line code. That
  `kernel_main` goes on after a failed `framebuffer_init`, with a screen of size
  0 or at address 0, is where Mailbox ends.
- The memory contents behind `low` and `wild`.

## 6. Plan

The plan was: SimFS with DirTree and Heap first, then Console, Shell and
Mailbox, their composition in Session, and the proofs of every invariant and
refinement, with Allocator and the induction theorems for those that need one.
All of it is done. What could be added: texts of several words in
SimFS, so that `cd` into a file meets more than one entry; the heap composed
with SimFS, whose table it overwrites; and the number conversions as functions
with a reference definition.

## 7. Hazards

`PROJECT.json` lists each at its line, with the properties that cover it. The
main groups: disk copies written back in pieces (`ZoneOwnership`,
`InodesAgree`); implicit preconditions such as blank zones and append cursors
(`FreeZonesBlank`, `AppendCursor`); commands in an order nobody tried, such as
`cd` into a file (`ZoneOwnership`, `InodesAgree`); the literal `""`
(`CatPrintsFile`); limits (`HeapBelowFs`, `LineWhole`, `RunsEachLine`); bytes
that end a string early (`LineWhole`, `RunsEachLine`, `RunsWhatIsShown`);
outputs that outgrow the screen (`UntidyNeedsCause`); the arithmetic of block
sizes (`DisjointUnlessWild`, `BlocksDisjoint`, `SizeAccounted`,
`ImplementsAllocator`); the list of blocks (`ListOrder`, `RunShortens`,
`KmallocReturns`); the edges of the screen (`CursorOnScreen`, `TidyStaysInside`,
`LinesAboveKept`, `ShowsPage`, `UntidyNeedsCause`); stale and foreign mails
(`FbinfoIsGpus`, `RequestIntact`, `OnlyNoiseClogs`, `AnswerComing`, `BootEnds`);
the line buffer and its picture on the screen (`LineWhole`, `RunsWhatIsShown`,
`PromptOnOwnLine`). Those without a property say why in their note.
