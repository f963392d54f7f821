-------------------------------- MODULE Heap --------------------------------
(***************************************************************************)
(* The page allocator and the kernel heap of src/kernel/memory.c, one      *)
(* action per stretch of kmalloc between two loop tests.                   *)
(*                                                                         *)
(* Addresses are numbers, 0 is NULL.  hdr maps the address of every block  *)
(* header kmalloc has written in the heap to its fields; prev is left out, *)
(* since only kfree reads it, and kfree is given a payload, never a        *)
(* header.  The heap's pages follow each other from HeapBase, so that page *)
(* i is at HeapBase + i * PageSize; pages start as zeroes.                 *)
(*                                                                         *)
(* The size of a run of pages is rounded up past its end, so that the last *)
(* block of a run may reach into the page after it.  A header written      *)
(* there later meets the contents of that block; what the next field then  *)
(* holds depends on the payload, wild is set, and nothing is said of the   *)
(* heap from there on.                                                     *)
(***************************************************************************)
EXTENDS Integers, Sequences, FiniteSets, Functions

CONSTANTS
  PageSize,   \* PAGE_SIZE = 4096
  HeapLimit,  \* KERNEL_HEAP_SIZE = 4 MB
  HeapBase,   \* address of the first page handed out
  FsStart,    \* FS_START_ADDR
  TableSize,  \* the request of setup_fs: MAX_INODES * sizeof(inode_t)
  TableWipe,  \* bytes its memset clears from the start of that payload
  Requests,   \* sizes asked for by the shell and the filesystem
  MaxPages    \* bound: pages handed out

ASSUME HeapAssumption ==
  /\ PageSize \in Nat /\ PageSize > 0
  /\ HeapLimit \in Nat
  /\ HeapBase \in Nat /\ HeapBase > 0
  /\ FsStart \in Nat
  /\ TableSize \in Nat /\ TableWipe \in Nat
  /\ Requests \subseteq Nat
  /\ MaxPages \in Nat

Hdr   == 20        \* sizeof(heap_block_t)
Slack == Hdr + 16  \* what a block may exceed a request by without a split

\* Mutant of Need: the header not counted.
NeedPayload(size) == ((size + 7) \div 8) * 8

Align8(n)      == ((n + 7) \div 8) * 8
Need(size)     == Align8(size + Hdr)
PagesFor(size) == (size + Hdr + PageSize - 1) \div PageSize
PageAddr(i)    == HeapBase + i * PageSize

VARIABLES
  hdr,         \* the block headers, by address
  heap_head, heap_tail, heap_size,
  num_pages,   \* pages in the page table, counted from the first heap page
  free_pages,  \* the list of free pages
  pc,          \* where kmalloc is
  req,         \* its argument
  curr, best,  \* find_best_fit: the block looked at, the last one that fits
  run,         \* the pages taken for this request
  low,         \* addresses below the kernel where a header was written
  booted,      \* setup_fs has cleared its table
  wild         \* the next field of a header is unknown

listVars == <<heap_head, heap_tail, heap_size>>
pageVars == <<num_pages, free_pages>>
callVars == <<req, curr, best, run>>
vars == <<hdr, listVars, pageVars, pc, callVars, low, booted, wild>>

Header == [next : Nat, size : Nat, csize : Nat, alloc : BOOLEAN]

TypeOK ==
  /\ DOMAIN hdr \subseteq Nat \ {0}
  /\ hdr \in [DOMAIN hdr -> Header]
  /\ heap_head \in Nat /\ heap_tail \in Nat /\ heap_size \in Nat
  /\ num_pages \in Nat /\ free_pages \in Seq(Nat)
  /\ pc \in {"idle", "search", "pages", "append"}
  /\ req \in Nat /\ curr \in Nat /\ best \in Nat /\ run \in Seq(Nat)
  /\ low \subseteq Nat
  /\ booted \in BOOLEAN /\ wild \in BOOLEAN

\* memory_init.
Init ==
  /\ hdr = [b \in {} |-> [next |-> 0, size |-> 0, csize |-> 0, alloc |-> FALSE]]
  /\ heap_head = 0 /\ heap_tail = 0 /\ heap_size = 0
  /\ num_pages = 0 /\ free_pages = <<>>
  /\ pc = "idle"
  /\ req = 0 /\ curr = 0 /\ best = 0 /\ run = <<>>
  /\ low = {}
  /\ booted = FALSE /\ wild = FALSE

-----------------------------------------------------------------------------
\* h with header e at address b.
With(h, b, e) == [x \in DOMAIN h \cup {b} |-> IF x = b THEN e ELSE h[x]]

\* Mutant of Split: the sizes subtracted the wrong way round.
SplitSwapped(h, b, size) ==
  With(With(h, b + size, [next |-> h[b].next, size |-> size - h[b].size,
                          csize |-> 0, alloc |-> FALSE]),
       b, [h[b] EXCEPT !.next = b + size, !.size = size, !.alloc = TRUE])

\* split_block: the first size bytes of b are taken, the rest becomes a free
\* block after it.
Split(h, b, size) ==
  With(With(h, b + size, [next |-> h[b].next, size |-> h[b].size - size,
                          csize |-> 0, alloc |-> FALSE]),
       b, [h[b] EXCEPT !.next = b + size, !.size = size, !.alloc = TRUE])

\* Mutant of Fits: the flag not looked at.
FitsAny(b) == hdr[b].size >= Need(req)

\* A free block large enough.
Fits(b) == ~ hdr[b].alloc /\ hdr[b].size >= Need(req)

\* Where what is known of a header ends; the code tests nothing of the kind.
\* Something already written lies where a header at address p has its next
\* field: a block in use, or next, prev and size of a free block's header.
Dirty(p) ==
  \E b \in DOMAIN hdr : IF hdr[b].alloc THEN b + Hdr + hdr[b].csize > p
                                        ELSE b + 12 > p

\* Mutant of UnderLimit: the request itself not counted.
UnderLimitBefore(size) == heap_size <= HeapLimit

\* The check at the head of kmalloc.
UnderLimit(size) == heap_size + size <= HeapLimit

\* kmalloc up to the loop of find_best_fit.  A request over the limit returns
\* NULL and changes nothing.  The first request is the one of setup_fs.
Kmalloc(size) ==
  /\ pc = "idle" /\ ~ wild
  /\ IF booted THEN size \in Requests ELSE heap_head = 0 /\ size = TableSize
  /\ num_pages < MaxPages
  /\ UnderLimit(size)
  /\ req' = size
  /\ curr' = heap_head
  /\ pc' = IF heap_head = 0 THEN "pages" ELSE "search"
  /\ UNCHANGED <<hdr, listVars, pageVars, best, run, low, booted, wild>>

\* One turn of the loop of find_best_fit: the last block that fits is kept.
Visit ==
  /\ pc = "search" /\ curr # 0
  /\ best' = IF Fits(curr) THEN curr ELSE best
  /\ curr' = hdr[curr].next
  /\ UNCHANGED <<hdr, listVars, pageVars, pc, req, run, low, booted, wild>>

\* The loop ends with a block, which is split if it is much too large.
Found ==
  /\ pc = "search" /\ curr = 0 /\ best # 0
  /\ hdr' = IF hdr[best].size - Need(req) > Slack THEN Split(hdr, best, Need(req))
                                                  ELSE hdr
  /\ pc' = "append"
  /\ UNCHANGED <<listVars, pageVars, callVars, low, booted, wild>>

\* The loop ends without a block: split_block is called with NULL all the
\* same, and writes headers at address 0 and after it.  It also writes the prev
\* field behind the word at address 0 (new_block->next->prev): the header an
\* earlier miss left in low memory, the first time whatever the loader did.
Miss ==
  /\ pc = "search" /\ curr = 0 /\ best = 0
  /\ low' = low \cup {0, Need(req)}
  /\ pc' = "pages"
  /\ UNCHANGED <<hdr, listVars, pageVars, callVars, booted, wild>>

\* Mutant of NewBatch: the pages pushed to the front of the list, not the end.
NewBatchPushed == <<num_pages + 1, num_pages>>

\* The pages alloc_page makes when the list is empty.
NewBatch == <<num_pages, num_pages + 1>>

\* alloc_page: pop a free page, after making a batch of two if there is none.
TakePage ==
  /\ pc = "pages" /\ Len(run) < PagesFor(req)
  /\ LET avail == IF free_pages = <<>> THEN NewBatch ELSE free_pages IN
     /\ run' = Append(run, Head(avail))
     /\ free_pages' = Tail(avail)
  /\ num_pages' = IF free_pages = <<>> THEN num_pages + 2 ELSE num_pages
  /\ UNCHANGED <<hdr, listVars, pc, req, curr, best, low, booted, wild>>

\* The pages taken become one block at the first of them.
NewRun ==
  /\ pc = "pages" /\ Len(run) = PagesFor(req)
  /\ LET b    == PageAddr(run[1])
         size == Align8(PagesFor(req) * PageSize + Hdr)
         h    == With(hdr, b, [next |-> 0, size |-> size, csize |-> 0, alloc |-> FALSE])
     IN /\ best' = b
        /\ wild' = Dirty(b)
        /\ hdr' = IF size - req > Slack THEN Split(h, b, req + Hdr) ELSE h
  /\ pc' = "append"
  /\ UNCHANGED <<listVars, pageVars, req, curr, run, low, booted>>

\* The block goes to the end of the list, and kmalloc returns its payload; its
\* locals are gone.
AppendBlock ==
  /\ pc = "append"
  /\ LET taken == [hdr EXCEPT ![best].alloc = TRUE, ![best].csize = req] IN
     hdr' = IF heap_head = 0 THEN taken ELSE [taken EXCEPT ![heap_tail].next = best]
  /\ heap_head' = IF heap_head = 0 THEN best ELSE heap_head
  /\ heap_tail' = best
  /\ heap_size' = heap_size + 1 + hdr[best].size
  /\ pc' = "idle"
  /\ req' = 0 /\ curr' = 0 /\ best' = 0 /\ run' = <<>>
  /\ UNCHANGED <<pageVars, low, booted, wild>>

\* setup_fs clears its table, and with it whatever header lies up to TableWipe.
ClearTable ==
  /\ pc = "idle" /\ ~ booted /\ heap_head # 0
  /\ hdr' = [b \in DOMAIN hdr |->
               IF b >= heap_head + Hdr /\ b < heap_head + Hdr + TableWipe
               THEN [next |-> 0, size |-> 0, csize |-> 0, alloc |-> FALSE]
               ELSE hdr[b]]
  /\ booted' = TRUE
  /\ UNCHANGED <<listVars, pageVars, pc, callVars, low, wild>>

\* kfree: the payload at b + Hdr is taken for a header.  A payload of zeroes
\* has no neighbours to merge with, and the flag cleared is one of the block's
\* own bytes; in any other payload the loops follow what it holds.  In a block
\* too small for a second header the flag is a byte of its neighbour's header.
Kfree(b) ==
  /\ pc = "idle" /\ ~ wild
  /\ b \in DOMAIN hdr /\ hdr[b].alloc
  /\ wild' \in IF hdr[b].size < 2 * Hdr THEN {TRUE} ELSE BOOLEAN
  /\ UNCHANGED <<hdr, listVars, pageVars, pc, callVars, low, booted>>

Run == Visit \/ Found \/ Miss \/ TakePage \/ NewRun \/ AppendBlock

Next ==
  \/ \E size \in Requests \cup {TableSize} : Kmalloc(size)
  \/ ClearTable
  \/ \E b \in DOMAIN hdr : Kfree(b)
  \/ Run

\* kmalloc runs to its end: nothing preempts it.
Spec == Init /\ [][Next]_vars /\ WF_vars(Run)

-----------------------------------------------------------------------------
\* The only free block that a search can meet is the last one, and addresses
\* grow along the list: no block is found twice, and the list has no cycle.
ListOrder ==
  ~ wild => \A b \in DOMAIN hdr :
    /\ hdr[b].next # 0 => hdr[b].next \in DOMAIN hdr /\ hdr[b].next > b
    /\ hdr[b].next # 0 /\ b # heap_tail => hdr[hdr[b].next].alloc \/ pc = "append"

\* kmalloc uses the first page it was given as the start of all of them: the
\* page list always yields pages that follow each other.
RunContiguous == \A i \in DOMAIN run : run[i] = run[1] + i - 1

\* No two payloads overlap, and no payload holds a header: two calls never
\* return the same memory.
BlocksDisjoint ==
  \A b, c \in {x \in DOMAIN hdr : hdr[x].alloc /\ pc # "append"} :
    b < c => b + Hdr + hdr[b].csize <= c
DisjointUnlessWild == ~ wild => BlocksDisjoint

\* heap_size counts every block in use once, its header included, and one
\* more per block: the limit in kmalloc is a limit on what was handed out.  A
\* run whose header is put over one in use ends this, with the rest.
SizeAccounted ==
  ~ wild /\ pc = "idle" =>
    heap_size = SumFunctionOnSet([b \in DOMAIN hdr |-> hdr[b].size + 1],
                                 {b \in DOMAIN hdr : hdr[b].alloc})

\* The payloads kmalloc has returned, by address, and the request it works on.
Given ==
  IF wild THEN [a \in {} |-> 0]
  ELSE LET blocks == {b \in DOMAIN hdr : hdr[b].alloc /\ ~ (pc = "append" /\ b = best)}
       IN  [a \in {b + Hdr : b \in blocks} |-> hdr[a - Hdr].csize]

Wanted == IF wild \/ pc = "idle" THEN {} ELSE {req}

Abstract == INSTANCE Allocator WITH Sizes <- Requests \cup {TableSize}, Limit <- HeapLimit,
                                    given <- Given, wanted <- Wanted, lost <- wild

\* Every call is answered with new memory of the size asked for; what was given
\* is never moved, cut, given again or taken back by a later split, merge or
\* memset; and all of it together stays within KERNEL_HEAP_SIZE.
ImplementsAllocator == Abstract!Spec

\* What kmalloc still has to do: the blocks to look at, the pages to take, the
\* block to append.
Remaining ==
  CASE pc = "idle"   -> 0
    [] pc = "append" -> 1
    [] pc = "pages"  -> 2 + PagesFor(req) - Len(run)
    [] pc = "search" -> 3 + PagesFor(req)
                          + Cardinality({b \in DOMAIN hdr : curr # 0 /\ b >= curr})

\* Each step of kmalloc brings it nearer its end: no search meets a block twice,
\* no loop over pages asks for more of them.
RunShortens == [][Run => Remaining' \in 0 .. Remaining - 1]_vars

\* A search ends, and so does every kmalloc.
KmallocReturns == pc # "idle" ~> pc = "idle"

-----------------------------------------------------------------------------
\* What the documentation says and the code does not do.

\* fs.h:141, "AFTER HEAP": the filesystem's memory starts after the heap's.
HeapBelowFs == \A i \in 0 .. num_pages - Len(free_pages) - 1 : PageAddr(i + 1) <= FsStart

\* README.md:118, "a simple page allocator (4KB pages) plus a small heap
\* allocator": what the heap writes, it writes to the pages it allocated.
HeadersInPages == low = {}

\* README.md:118, "kmalloc/kfree": a block that is freed is free.
KfreeFrees == [][\A b \in DOMAIN hdr : Kfree(b) => ~ hdr'[b].alloc]_vars
=============================================================================
