---------------------------- MODULE Heap_proofs ----------------------------
(***************************************************************************)
(* Proofs about Heap: the order of the block list, the runs of pages and   *)
(* the disjointness of what kmalloc returns, for every page size and every *)
(* sequence of requests.                                                   *)
(***************************************************************************)
EXTENDS Heap, InductionTheorems, TLAPS

\* The free pages: none, or the second of the last batch.
PagesInv ==
  /\ free_pages = <<>> \/ (num_pages > 0 /\ free_pages = <<num_pages - 1>>)
  /\ Len(run) <= num_pages - Len(free_pages)
  /\ \A i \in 1 .. Len(run) : run[i] = num_pages - Len(free_pages) - Len(run) + i - 1

InUse(b) == hdr[b].alloc

\* The block with the highest address: the free one after the tail, if any.
Last == IF heap_tail = 0 THEN 0
        ELSE IF hdr[heap_tail].next # 0 THEN hdr[heap_tail].next ELSE heap_tail

\* The block a request ends with is not yet on the list: its next field leads
\* to what is left of the block it was cut from.
Pending(b) == pc = "append" /\ b = best

Blocks ==
  /\ heap_head = 0 <=> heap_tail = 0
  /\ heap_tail # 0 => \A b \in {heap_head, heap_tail} :
                        b \in DOMAIN hdr /\ InUse(b) /\ ~ Pending(b)
  /\ \A b \in DOMAIN hdr : hdr[b].next # 0 =>
       /\ InUse(b) /\ hdr[b].next \in DOMAIN hdr /\ hdr[b].next > b
       /\ b # heap_tail /\ ~ Pending(b) => InUse(hdr[b].next)
  /\ pc # "append" => \A b \in DOMAIN hdr : b <= Last

Payloads ==
  \A b, c \in DOMAIN hdr : InUse(b) /\ b < c =>
    b + Hdr + (IF Pending(b) THEN req ELSE hdr[b].csize) <= c

\* What a search has found so far.
Searching ==
  pc = "search" =>
    /\ heap_tail # 0
    /\ curr # 0 => curr \in DOMAIN hdr /\ (InUse(curr) \/ curr = hdr[heap_tail].next)
    /\ best # 0 => /\ best = hdr[heap_tail].next /\ best \in DOMAIN hdr
                   /\ ~ InUse(best) /\ hdr[best].size >= Need(req)

Appending ==
  pc = "append" =>
    /\ best \in DOMAIN hdr /\ best > heap_tail
    /\ \A b \in DOMAIN hdr : b <= best \/ b = hdr[best].next
    /\ hdr[best].next # 0 => InUse(best) /\ ~ InUse(hdr[best].next)

\* Until setup_fs has cleared its table, that table is the only block.
Booting ==
  ~ booted =>
    /\ heap_tail = heap_head
    /\ pc # "idle" => heap_head = 0
    /\ \A b \in DOMAIN hdr : InUse(b) => b = IF pc = "append" THEN best ELSE heap_head

Locals ==
  /\ pc = "idle" => best = 0 /\ run = <<>>
  /\ pc = "search" => run = <<>>
  /\ pc = "pages" => best = 0
  /\ pc = "append" => best \in DOMAIN hdr
  /\ wild => pc \in {"idle", "append"}

ListInv == Blocks /\ Payloads /\ Searching /\ Appending /\ Booting

IInv == TypeOK /\ PagesInv /\ Locals /\ (~ wild => ListInv)

-----------------------------------------------------------------------------
\* The operators.

\* The constants, as the arithmetic below needs them.
LEMMA Constants ==
  /\ PageSize \in Nat /\ PageSize > 0
  /\ HeapBase \in Nat /\ HeapBase > 0
  /\ TableSize \in Nat /\ TableWipe \in Nat
  /\ Requests \subseteq Nat
  /\ Hdr = 20 /\ Slack = 36
BY HeapAssumption DEF HeapAssumption, Hdr, Slack

\* Rounding up never loses a byte.
LEMMA AlignUp == \A n \in Nat : Align8(n) \in Nat /\ n <= Align8(n)
BY DEF Align8

\* A block that fits holds the request and its header.
LEMMA NeedCovers ==
  \A size \in Nat : Need(size) \in Nat /\ size + Hdr <= Need(size)
BY AlignUp, Constants DEF Need

\* Every request takes at least one page.
LEMMA PagesForType == \A size \in Nat : PagesFor(size) \in Nat /\ PagesFor(size) >= 1
<1> SUFFICES ASSUME NEW size \in Nat
             PROVE  PagesFor(size) \in Nat /\ PagesFor(size) >= 1
  OBVIOUS
<1>1. size + Hdr + PageSize - 1 \in Nat /\ size + Hdr + PageSize - 1 >= PageSize
  BY Constants
<1>2. \A n \in Nat : n >= PageSize => n \div PageSize \in Nat /\ n \div PageSize >= 1
  BY Constants
<1> QED BY <1>1, <1>2 DEF PagesFor

\* No page is at address 0, which is NULL.
LEMMA PageAddrType == \A i \in Nat : PageAddr(i) \in Nat /\ PageAddr(i) > 0
<1>1. \A i \in Nat : i * PageSize \in Nat
  BY Constants
<1> QED BY <1>1, Constants DEF PageAddr

\* The size of a run is a number.
LEMMA RunSizeType ==
  \A n \in Nat : Align8(n * PageSize + Hdr) \in Nat
<1>1. \A n \in Nat : n * PageSize \in Nat
  BY Constants
<1> QED BY <1>1, AlignUp, Constants

\* A block of h that can be split, and what the split leaves: the block taken,
\* the rest after it, all else as it was.
CanSplit(h, b, size) ==
  /\ DOMAIN h \subseteq Nat /\ h \in [DOMAIN h -> Header]
  /\ b \in DOMAIN h
  /\ size \in Nat /\ size > 0 /\ h[b].size - size \in Nat

IsSplit(h, b, size, s) ==
  /\ DOMAIN s = DOMAIN h \cup {b + size}
  /\ s \in [DOMAIN s -> Header]
  /\ s[b] = [h[b] EXCEPT !.next = b + size, !.size = size, !.alloc = TRUE]
  /\ s[b + size] = [next |-> h[b].next, size |-> h[b].size - size,
                    csize |-> 0, alloc |-> FALSE]
  /\ \A x \in DOMAIN h : x # b /\ x # b + size => s[x] = h[x]

LEMMA SplitEffect ==
  ASSUME NEW h, NEW b, NEW size, CanSplit(h, b, size)
  PROVE  IsSplit(h, b, size, Split(h, b, size))
<1>1. b \in Nat /\ b # b + size /\ b + size \in Nat /\ h[b] \in Header
  BY DEF CanSplit
<1> DEFINE rest == [next |-> h[b].next, size |-> h[b].size - size,
                    csize |-> 0, alloc |-> FALSE]
           used == [h[b] EXCEPT !.next = b + size, !.size = size, !.alloc = TRUE]
           D == DOMAIN h \cup {b + size}
<1>2. rest \in Header /\ used \in Header
  BY <1>1 DEF CanSplit, Header
<1>3. Split(h, b, size) = [x \in D |-> IF x = b THEN used ELSE IF x = b + size THEN rest ELSE h[x]]
  <2>1. With(h, b + size, rest) = [x \in D |-> IF x = b + size THEN rest ELSE h[x]]
    BY DEF With
  <2>2. D \cup {b} = D
    BY DEF CanSplit
  <2> QED BY <2>1, <2>2 DEF Split, With
<1>4. h \in [DOMAIN h -> Header] /\ b \in DOMAIN h
  BY DEF CanSplit
<1> HIDE DEF rest, used
<1> QED BY <1>1, <1>2, <1>3, <1>4 DEF rest, used, IsSplit

-----------------------------------------------------------------------------
\* Types, pages and locals.

Base == TypeOK /\ PagesInv /\ Locals

\* memory_init establishes the invariant.
LEMMA InitInv == Init => IInv
<1> SUFFICES ASSUME Init PROVE IInv
  OBVIOUS
<1>1. DOMAIN hdr = {} /\ hdr \in [DOMAIN hdr -> Header]
  BY DEF Init
<1>2. TypeOK
  <2>1. DOMAIN hdr \subseteq Nat \ {0}
    BY <1>1
  <2>2. /\ heap_head \in Nat /\ heap_tail \in Nat /\ heap_size \in Nat
        /\ num_pages \in Nat /\ free_pages \in Seq(Nat)
        /\ req \in Nat /\ curr \in Nat /\ best \in Nat /\ run \in Seq(Nat)
    BY DEF Init
  <2>3. /\ pc \in {"idle", "search", "pages", "append"}
        /\ low \subseteq Nat /\ booted \in BOOLEAN /\ wild \in BOOLEAN
    BY DEF Init
  <2> QED BY <1>1, <2>1, <2>2, <2>3 DEF TypeOK
<1>3. PagesInv /\ Locals
  BY DEF Init, PagesInv, Locals
<1>4. ListInv
  BY <1>1 DEF Init, ListInv, Blocks, Payloads, Searching, Appending, Booting
<1> QED BY <1>2, <1>3, <1>4 DEF IInv

\* The call: only the locals of kmalloc change.
LEMMA KmallocBase ==
  ASSUME Base, NEW size \in Requests \cup {TableSize}, Kmalloc(size)
  PROVE  Base'
<1>1. size \in Nat
  BY Constants
<1>2. TypeOK'
  BY <1>1 DEF Base, TypeOK, Kmalloc, listVars, pageVars
<1>3. PagesInv'
  BY DEF Base, PagesInv, Kmalloc, pageVars
<1>4. Locals'
  BY DEF Base, Locals, Kmalloc
<1> QED BY <1>2, <1>3, <1>4 DEF Base

\* A turn of the search: curr is a header, so that its next is an address.
LEMMA VisitBase ==
  ASSUME IInv, Visit
  PROVE  Base'
<1>1. curr \in DOMAIN hdr
  BY DEF IInv, Locals, ListInv, Searching, Visit
<1>2. hdr[curr] \in Header
  BY <1>1 DEF IInv, TypeOK
<1>3. TypeOK'
  BY <1>2 DEF IInv, TypeOK, Visit, listVars, pageVars, Header
<1>4. PagesInv' /\ Locals'
  BY DEF IInv, PagesInv, Locals, Visit, pageVars
<1> QED BY <1>3, <1>4 DEF Base

\* A search that fails.
LEMMA MissBase ==
  ASSUME Base, Miss
  PROVE  Base'
<1>1. TypeOK'
  BY NeedCovers DEF Base, TypeOK, Miss, listVars, pageVars, callVars
<1>2. PagesInv' /\ Locals'
  BY DEF Base, PagesInv, Locals, Miss, pageVars, callVars
<1> QED BY <1>1, <1>2 DEF Base

\* alloc_page: the page popped is the one after the last one taken, whether the
\* list holds the second page of a batch or is empty.
LEMMA TakePageBase ==
  ASSUME Base, TakePage
  PROVE  Base'
<1>1. TypeOK'
  <2>1. CASE free_pages = <<>>
    BY <2>1 DEF Base, TypeOK, TakePage, NewBatch, listVars
  <2>2. CASE free_pages # <<>>
    BY <2>2 DEF Base, TypeOK, TakePage, listVars
  <2> QED BY <2>1, <2>2
<1>2. PagesInv'
  <2>1. CASE free_pages = <<>>
    <3>1. /\ free_pages' = <<num_pages + 1>> /\ num_pages' = num_pages + 2
          /\ run' = Append(run, num_pages)
      BY <2>1 DEF TakePage, NewBatch
    <3>2. /\ Len(free_pages) = 0 /\ Len(free_pages') = 1 /\ Len(run') = Len(run) + 1
          /\ Len(run) \in Nat /\ num_pages \in Nat
      BY <2>1, <3>1 DEF Base, TypeOK
    <3>3. \A i \in 1 .. Len(run) : run'[i] = run[i]
      BY <3>1 DEF Base, TypeOK
    <3>4. \A i \in 1 .. Len(run) : run[i] = num_pages - Len(run) + i - 1
      BY <2>1, <3>2 DEF Base, PagesInv
    <3>5. run'[Len(run) + 1] = num_pages
      BY <3>1 DEF Base, TypeOK
    <3>6. \A i \in 1 .. Len(run') :
            run'[i] = num_pages' - Len(free_pages') - Len(run') + i - 1
      BY <3>1, <3>2, <3>3, <3>4, <3>5
    <3>7. Len(run') <= num_pages' - Len(free_pages')
      BY <2>1, <3>1, <3>2 DEF Base, PagesInv
    <3>8. num_pages' > 0 /\ free_pages' = <<num_pages' - 1>>
      BY <3>1, <3>2
    <3> QED BY <3>6, <3>7, <3>8 DEF PagesInv
  <2>2. CASE free_pages # <<>>
    <3>1. num_pages > 0 /\ free_pages = <<num_pages - 1>>
      BY <2>2 DEF Base, PagesInv
    <3>2. free_pages' = <<>> /\ num_pages' = num_pages /\ run' = Append(run, num_pages - 1)
      BY <2>2, <3>1 DEF TakePage
    <3>3. /\ Len(free_pages) = 1 /\ Len(free_pages') = 0 /\ Len(run') = Len(run) + 1
          /\ \A i \in 1 .. Len(run) : run'[i] = run[i] /\ run[i] = num_pages - 1 - Len(run) + i - 1
          /\ run'[Len(run) + 1] = num_pages - 1
      BY <3>1, <3>2 DEF Base, TypeOK, PagesInv
    <3> QED BY <3>1, <3>2, <3>3 DEF Base, TypeOK, PagesInv
  <2> QED BY <2>1, <2>2
<1>3. Locals'
  BY DEF Base, Locals, TakePage
<1> QED BY <1>1, <1>2, <1>3 DEF Base

\* The clearing of the table.
LEMMA ClearTableBase ==
  ASSUME Base, ClearTable
  PROVE  Base'
<1> DEFINE blank == [next |-> 0, size |-> 0, csize |-> 0, alloc |-> FALSE]
<1>1. blank \in Header
  BY DEF Header
<1>2. DOMAIN hdr' = DOMAIN hdr /\ hdr' \in [DOMAIN hdr -> Header]
  BY <1>1 DEF ClearTable, Base, TypeOK
<1>3. TypeOK'
  BY <1>2 DEF Base, TypeOK, ClearTable, listVars, pageVars, callVars
<1>4. PagesInv' /\ Locals'
  BY DEF Base, PagesInv, Locals, ClearTable, pageVars, callVars
<1> QED BY <1>3, <1>4 DEF Base

\* kfree.
LEMMA KfreeBase ==
  ASSUME Base, NEW b \in DOMAIN hdr, Kfree(b)
  PROVE  Base'
<1>1. TypeOK'
  BY DEF Base, TypeOK, Kfree, listVars, pageVars, callVars
<1>2. PagesInv' /\ Locals'
  BY DEF Base, PagesInv, Locals, Kfree, pageVars, callVars
<1> QED BY <1>1, <1>2 DEF Base

\* A search that succeeds: the block found is in the list, free and large enough.
LEMMA FoundBase ==
  ASSUME IInv, Found
  PROVE  /\ Base'
         /\ best \in DOMAIN hdr /\ ~ InUse(best) /\ best = hdr[heap_tail].next
         /\ ListInv /\ ~ wild /\ req \in Nat /\ heap_tail # 0
<1>1. /\ best \in DOMAIN hdr /\ ~ InUse(best) /\ best = hdr[heap_tail].next
      /\ ListInv /\ ~ wild /\ req \in Nat /\ heap_tail # 0
  BY DEF IInv, Locals, ListInv, Searching, Found, TypeOK
<1>2. hdr' \in [DOMAIN hdr' -> Header] /\ DOMAIN hdr' \subseteq Nat \ {0} /\ best \in DOMAIN hdr'
  <2>1. CASE hdr[best].size - Need(req) > Slack
    <3>1. /\ DOMAIN hdr \subseteq Nat \ {0}
          /\ hdr \in [DOMAIN hdr -> Header]
      BY DEF IInv, TypeOK
    <3>4. /\ Need(req) \in Nat /\ Need(req) > 0
      BY <1>1, NeedCovers, Constants
    <3>5. hdr[best] \in Header /\ hdr[best].size \in Nat
      BY <1>1, <3>1 DEF Header
    <3>6. hdr[best].size - Need(req) \in Nat
      BY <2>1, <3>4, <3>5, Constants
    <3>2. hdr' = Split(hdr, best, Need(req))
      BY <2>1 DEF Found
    <3>3. CanSplit(hdr, best, Need(req))
      BY <1>1, <3>1, <3>4, <3>6 DEF CanSplit
    <3>7. IsSplit(hdr, best, Need(req), hdr')
      BY <3>2, <3>3, SplitEffect
    <3> QED BY <1>1, <3>1, <3>4, <3>7 DEF IsSplit
  <2>2. CASE ~ (hdr[best].size - Need(req) > Slack)
    BY <1>1, <2>2 DEF Found, IInv, TypeOK
  <2> QED BY <2>1, <2>2
<1>3. TypeOK'
  BY <1>2 DEF IInv, TypeOK, Found, listVars, pageVars, callVars
<1>4. PagesInv' /\ Locals'
  BY <1>1, <1>2 DEF IInv, PagesInv, Locals, Found, pageVars, callVars
<1> QED BY <1>1, <1>3, <1>4 DEF Base

\* The header of a new run, before and after the split.
LEMMA NewRunEffect ==
  ASSUME Base, NewRun
  PROVE  LET p == PageAddr(run[1]) IN
         /\ p \in Nat /\ p > 0 /\ best' = p
         /\ hdr' \in [DOMAIN hdr' -> Header]
         /\ \/ /\ DOMAIN hdr' = DOMAIN hdr \cup {p}
               /\ hdr'[p].next = 0
            \/ /\ DOMAIN hdr' = DOMAIN hdr \cup {p, p + (req + Hdr)}
               /\ hdr'[p].next = p + (req + Hdr) /\ hdr'[p].alloc
               /\ p + (req + Hdr) # p
               /\ hdr'[p + (req + Hdr)].next = 0
               /\ ~ hdr'[p + (req + Hdr)].alloc
         /\ \A x \in DOMAIN hdr : x # p /\ x # p + (req + Hdr) => hdr'[x] = hdr[x]
         /\ \A x \in DOMAIN hdr : x < p => hdr'[x] = hdr[x]
<1> DEFINE p    == PageAddr(run[1])
           size == Align8(PagesFor(req) * PageSize + Hdr)
           e    == [next |-> 0, size |-> size, csize |-> 0, alloc |-> FALSE]
           h    == With(hdr, p, e)
<1>1. run[1] \in Nat /\ req \in Nat
  BY PagesForType DEF Base, TypeOK, NewRun
<1>2. p \in Nat /\ p > 0 /\ size \in Nat
  BY <1>1, PageAddrType, PagesForType, RunSizeType
<1>3. /\ best' = p
      /\ hdr' = IF size - req > Slack THEN Split(h, p, req + Hdr) ELSE h
  BY DEF NewRun
<1>4. e \in Header /\ e.next = 0 /\ e.size = size
  BY <1>2 DEF Header
<1>5. /\ DOMAIN h = DOMAIN hdr \cup {p}
      /\ h \in [DOMAIN h -> Header]
      /\ h[p] = e
      /\ \A x \in DOMAIN hdr : x # p => h[x] = hdr[x]
      /\ DOMAIN hdr \subseteq Nat
  BY <1>4 DEF With, Base, TypeOK
<1> HIDE DEF p, size, e, h
<1>8. \A x \in DOMAIN hdr : x < p => x # p /\ x # p + (req + Hdr)
  <2>1. \A x \in Nat : x < p => x # p /\ x # p + (req + Hdr)
    BY <1>1, <1>2, Constants
  <2> QED BY <1>5, <2>1
<1>6. CASE size - req > Slack
  <2>1. /\ req + Hdr \in Nat /\ req + Hdr > 0 /\ size - (req + Hdr) \in Nat
        /\ p + (req + Hdr) # p
    BY <1>1, <1>2, <1>6, Constants
  <2>2. p \in DOMAIN h /\ DOMAIN h \subseteq Nat
    BY <1>2, <1>5
  <2>3. hdr' = Split(h, p, req + Hdr)
    BY <1>3, <1>6
  <2>4. CanSplit(h, p, req + Hdr)
    BY <1>4, <1>5, <2>1, <2>2 DEF CanSplit
  <2>5. IsSplit(h, p, req + Hdr, hdr')
    BY <2>3, <2>4, SplitEffect
  <2>6. /\ DOMAIN hdr' = DOMAIN hdr \cup {p, p + (req + Hdr)}
        /\ hdr' \in [DOMAIN hdr' -> Header]
        /\ hdr'[p + (req + Hdr)].next = 0 /\ ~ hdr'[p + (req + Hdr)].alloc
    BY <1>4, <1>5, <2>5 DEF IsSplit
  <2>7. hdr'[p].next = p + (req + Hdr) /\ hdr'[p].alloc
    BY <1>4, <1>5, <2>5 DEF IsSplit, Header
  <2>8. \A x \in DOMAIN hdr : x # p /\ x # p + (req + Hdr) => hdr'[x] = hdr[x]
    BY <1>5, <2>5 DEF IsSplit
  <2> QED BY <1>2, <1>3, <1>8, <2>1, <2>6, <2>7, <2>8 DEF p
<1>7. CASE ~ (size - req > Slack)
  <2>1. hdr' = h
    BY <1>3, <1>7
  <2>2. DOMAIN hdr' = DOMAIN hdr \cup {p} /\ hdr'[p].next = 0 /\ hdr' \in [DOMAIN hdr' -> Header]
    BY <1>4, <1>5, <2>1
  <2> QED BY <1>2, <1>3, <1>5, <1>8, <2>1, <2>2 DEF p
<1> QED BY <1>6, <1>7

\* A new run.
LEMMA NewRunBase ==
  ASSUME Base, NewRun
  PROVE  Base'
<1> DEFINE p == PageAddr(run[1])
<1>1. /\ p \in Nat /\ p > 0 /\ best' = p
      /\ hdr' \in [DOMAIN hdr' -> Header]
      /\ DOMAIN hdr' = DOMAIN hdr \cup {p} \/ DOMAIN hdr' = DOMAIN hdr \cup {p, p + (req + Hdr)}
  BY NewRunEffect
<1>2. req \in Nat /\ Hdr = 20 /\ DOMAIN hdr \subseteq Nat \ {0}
  BY Constants DEF Base, TypeOK
<1> HIDE DEF p
<1>3. DOMAIN hdr' \subseteq Nat \ {0} /\ p \in DOMAIN hdr'
  BY <1>1, <1>2
<1>4. TypeOK'
  <2>1. wild' \in BOOLEAN
    BY DEF NewRun, Dirty
  <2> QED BY <1>1, <1>3, <2>1 DEF Base, TypeOK, NewRun, listVars, pageVars
<1>5. PagesInv' /\ Locals'
  BY <1>1, <1>3 DEF Base, PagesInv, Locals, NewRun, pageVars
<1> QED BY <1>4, <1>5 DEF Base

\* What AppendBlock leaves of the headers.
LEMMA AppendEffect ==
  ASSUME Base, AppendBlock
  PROVE  /\ DOMAIN hdr' = DOMAIN hdr /\ hdr' \in [DOMAIN hdr -> Header]
         /\ best \in DOMAIN hdr
         /\ hdr'[best].alloc /\ hdr'[best].csize = req
         /\ heap_head = 0 \/ heap_tail # best => hdr'[best].next = hdr[best].next
         /\ heap_head # 0 /\ heap_tail \in DOMAIN hdr => hdr'[heap_tail].next = best
         /\ \A x \in DOMAIN hdr \ {best} :
              /\ hdr'[x].alloc = hdr[x].alloc /\ hdr'[x].csize = hdr[x].csize
              /\ heap_head = 0 \/ x # heap_tail => hdr'[x].next = hdr[x].next
<1> DEFINE taken == [hdr EXCEPT ![best].alloc = TRUE, ![best].csize = req]
<1>1. /\ DOMAIN hdr \subseteq Nat \ {0} /\ hdr \in [DOMAIN hdr -> Header]
      /\ best \in DOMAIN hdr /\ best \in Nat /\ req \in Nat
  BY DEF Base, TypeOK, Locals, AppendBlock
<1>2. /\ DOMAIN taken = DOMAIN hdr /\ taken \in [DOMAIN hdr -> Header]
      /\ taken[best].alloc /\ taken[best].csize = req /\ taken[best].next = hdr[best].next
      /\ \A x \in DOMAIN hdr \ {best} : taken[x] = hdr[x]
  BY <1>1 DEF Header
<1>3. hdr' = IF heap_head = 0 THEN taken ELSE [taken EXCEPT ![heap_tail].next = best]
  BY DEF AppendBlock
<1> HIDE DEF taken
<1>4. CASE heap_head = 0
  BY <1>1, <1>2, <1>3, <1>4
<1>5. CASE heap_head # 0
  <2>1. hdr' = [taken EXCEPT ![heap_tail].next = best]
    BY <1>3, <1>5
  <2>2. /\ DOMAIN hdr' = DOMAIN hdr
        /\ \A x \in DOMAIN hdr : x # heap_tail => hdr'[x] = taken[x]
        /\ heap_tail \in DOMAIN hdr => hdr'[heap_tail] = [taken[heap_tail] EXCEPT !.next = best]
    BY <1>2, <2>1
  <2>3. hdr' \in [DOMAIN hdr -> Header]
    BY <1>1, <1>2, <2>1 DEF Header
  <2>4. heap_tail \in DOMAIN hdr => /\ hdr'[heap_tail].next = best
                                    /\ hdr'[heap_tail].alloc = taken[heap_tail].alloc
                                    /\ hdr'[heap_tail].csize = taken[heap_tail].csize
    BY <1>2, <2>2 DEF Header
  <2> QED BY <1>1, <1>2, <1>5, <2>2, <2>3, <2>4
<1> QED BY <1>4, <1>5

\* The end of kmalloc.
LEMMA AppendBlockBase ==
  ASSUME Base, AppendBlock
  PROVE  Base'
<1>1. /\ DOMAIN hdr' = DOMAIN hdr /\ hdr' \in [DOMAIN hdr -> Header] /\ best \in DOMAIN hdr
  BY AppendEffect
<1>2. hdr[best].size \in Nat
  BY <1>1 DEF Base, TypeOK, Header
<1>3. TypeOK'
  BY <1>1, <1>2 DEF Base, TypeOK, AppendBlock, pageVars
<1>4. PagesInv' /\ Locals'
  <2>1. run' = <<>> /\ free_pages' = free_pages /\ num_pages' = num_pages
    BY DEF AppendBlock, pageVars
  <2>2. Len(run') = 0 /\ 0 <= num_pages - Len(free_pages)
    BY <2>1 DEF Base, TypeOK, PagesInv
  <2>3. PagesInv'
    BY <2>1, <2>2 DEF Base, PagesInv
  <2> QED BY <2>3 DEF Base, Locals, AppendBlock
<1> QED BY <1>3, <1>4 DEF Base

-----------------------------------------------------------------------------
\* The list.

\* A step that leaves the headers and the list alone, outside the last part of
\* kmalloc, leaves its order and its payloads alone.
LEMMA SameList ==
  ASSUME Blocks, Payloads, UNCHANGED <<hdr, heap_head, heap_tail>>,
         pc # "append", pc' # "append"
  PROVE  Blocks' /\ Payloads' /\ Appending'
<1>1. Last' = Last
  BY DEF Last
<1>2. Blocks'
  BY <1>1 DEF Blocks, InUse, Pending
<1> QED BY <1>2 DEF Payloads, Appending, InUse, Pending

\* The call: the search starts at the head, or there is no list yet.
LEMMA KmallocList ==
  ASSUME IInv, NEW size \in Requests \cup {TableSize}, Kmalloc(size)
  PROVE  ListInv'
<1>1. /\ TypeOK /\ Locals /\ ListInv /\ pc = "idle" /\ best = 0
      /\ UNCHANGED <<hdr, heap_head, heap_tail, best, booted>>
      /\ curr' = heap_head
      /\ pc' = IF heap_head = 0 THEN "pages" ELSE "search"
  BY DEF IInv, Kmalloc, Locals, listVars
<1>2. Blocks' /\ Payloads' /\ Appending'
  BY <1>1, SameList DEF ListInv
<1>3. Searching'
  BY <1>1 DEF ListInv, Searching, Blocks, InUse
<1>4. Booting'
  <2>1. ~ booted => heap_head = 0
    BY DEF Kmalloc
  <2> QED BY <1>1, <2>1 DEF ListInv, Booting, InUse
<1> QED BY <1>2, <1>3, <1>4 DEF ListInv

\* A turn of the search: a block that fits is the one after the tail.
LEMMA VisitList ==
  ASSUME IInv, Visit
  PROVE  ListInv'
<1>1. /\ TypeOK /\ ListInv /\ pc = "search" /\ pc' = "search" /\ curr # 0
      /\ UNCHANGED <<hdr, heap_head, heap_tail, req, booted>>
      /\ best' = IF Fits(curr) THEN curr ELSE best
      /\ curr' = hdr[curr].next
  BY DEF IInv, Locals, Visit, listVars
<1>2. Blocks' /\ Payloads' /\ Appending'
  BY <1>1, SameList DEF ListInv
<1>3. curr \in DOMAIN hdr /\ (InUse(curr) \/ curr = hdr[heap_tail].next) /\ heap_tail # 0
  BY <1>1 DEF ListInv, Searching
<1>4. curr' # 0 => curr' \in DOMAIN hdr /\ (InUse(curr') \/ curr' = hdr[heap_tail].next)
  BY <1>1, <1>3 DEF ListInv, Blocks, Pending
<1>5. best' # 0 => /\ best' = hdr[heap_tail].next /\ best' \in DOMAIN hdr
                   /\ ~ InUse(best') /\ hdr[best'].size >= Need(req)
  BY <1>1, <1>3 DEF ListInv, Searching, Fits, InUse
<1>6. Searching'
  BY <1>1, <1>3, <1>4, <1>5 DEF Searching, InUse
<1>7. Booting'
  BY <1>1 DEF ListInv, Booting, InUse
<1> QED BY <1>2, <1>6, <1>7 DEF ListInv

\* A search that fails writes no header of the list.
LEMMA MissList ==
  ASSUME IInv, Miss
  PROVE  ListInv'
<1>1. /\ ListInv /\ pc = "search" /\ pc' = "pages"
      /\ UNCHANGED <<hdr, heap_head, heap_tail, booted>>
  BY DEF IInv, Locals, Miss, listVars
<1>2. Blocks' /\ Payloads' /\ Appending'
  BY <1>1, SameList DEF ListInv
<1> QED BY <1>1, <1>2 DEF ListInv, Searching, Booting, InUse

\* Pages taken are not yet part of the list.
LEMMA TakePageList ==
  ASSUME IInv, TakePage
  PROVE  ListInv'
<1>1. /\ ListInv /\ pc = "pages" /\ pc' = "pages"
      /\ UNCHANGED <<hdr, heap_head, heap_tail, booted>>
  BY DEF IInv, Locals, TakePage, listVars
<1>2. Blocks' /\ Payloads' /\ Appending'
  BY <1>1, SameList DEF ListInv
<1> QED BY <1>1, <1>2 DEF ListInv, Searching, Booting, InUse

\* The table cleared, and what lies behind it: the blocks in use stay.
LEMMA ClearTableList ==
  ASSUME IInv, ClearTable, ~ wild
  PROVE  ListInv'
<1>1. /\ TypeOK /\ ListInv /\ pc = "idle" /\ pc' = "idle" /\ ~ booted /\ heap_head # 0
      /\ booted' /\ UNCHANGED <<heap_head, heap_tail>> /\ heap_tail = heap_head
  BY DEF IInv, ListInv, Booting, ClearTable, listVars
<1>2. /\ heap_head \in DOMAIN hdr /\ heap_head \in Nat /\ DOMAIN hdr \subseteq Nat \ {0}
      /\ hdr \in [DOMAIN hdr -> Header]
      /\ \A b \in DOMAIN hdr : InUse(b) => b = heap_head
  BY <1>1 DEF TypeOK, ListInv, Blocks, Booting
<1>3. /\ DOMAIN hdr' = DOMAIN hdr
      /\ \A b \in DOMAIN hdr : hdr'[b] = hdr[b] \/ (hdr'[b].next = 0 /\ ~ hdr'[b].alloc)
      /\ hdr'[heap_head] = hdr[heap_head]
  BY <1>2, Constants DEF ClearTable
<1>4. Last' = Last
  BY <1>1, <1>3 DEF Last
<1>5. Blocks'
  <2>1. heap_head' = 0 <=> heap_tail' = 0
    BY <1>1
  <2>2. \A b \in {heap_head', heap_tail'} : b \in DOMAIN hdr' /\ hdr'[b].alloc
    BY <1>1, <1>2, <1>3 DEF ListInv, Blocks, InUse
  <2>3. ASSUME NEW b \in DOMAIN hdr, hdr'[b].next # 0
        PROVE  /\ hdr'[b].alloc /\ hdr'[b].next \in DOMAIN hdr /\ hdr'[b].next > b
               /\ b = heap_tail'
    BY <1>1, <1>2, <1>3, <2>3 DEF ListInv, Blocks, InUse
  <2>4. \A b \in DOMAIN hdr : b <= Last'
    BY <1>1, <1>4 DEF ListInv, Blocks
  <2> QED BY <1>1, <1>3, <2>1, <2>2, <2>3, <2>4 DEF Blocks, InUse, Pending
<1>6. Payloads'
  <2>1. \A b \in DOMAIN hdr : hdr'[b].alloc => hdr'[b] = hdr[b] /\ InUse(b)
    BY <1>3 DEF InUse
  <2> QED BY <1>1, <1>3, <2>1 DEF ListInv, Payloads, InUse, Pending
<1> QED BY <1>1, <1>5, <1>6 DEF ListInv, Searching, Appending, Booting

\* A new run lies above every block that was written before, or wild is set.
LEMMA NewRunList ==
  ASSUME IInv, NewRun, ~ wild'
  PROVE  ListInv'
<1> DEFINE p == PageAddr(run[1])
           rest == p + (req + Hdr)
<1>1. /\ p \in Nat /\ p > 0 /\ best' = p
      /\ \/ DOMAIN hdr' = DOMAIN hdr \cup {p} /\ hdr'[p].next = 0
         \/ /\ DOMAIN hdr' = DOMAIN hdr \cup {p, rest}
            /\ hdr'[p].next = rest /\ hdr'[p].alloc
            /\ hdr'[rest].next = 0 /\ ~ hdr'[rest].alloc
      /\ \A x \in DOMAIN hdr : x < p => hdr'[x] = hdr[x]
  BY NewRunEffect DEF IInv, Base
<1> HIDE DEF p
<1>2. rest \in Nat /\ rest = p + req + 20 /\ rest > p /\ req \in Nat
  <2>1. p \in Nat /\ req \in Nat
    BY <1>1 DEF IInv, TypeOK
  <2> QED BY <2>1, Constants
<1>3. /\ ListInv /\ pc = "pages" /\ pc' = "append"
      /\ UNCHANGED <<heap_head, heap_tail, req, booted>>
      /\ DOMAIN hdr \subseteq Nat \ {0} /\ hdr \in [DOMAIN hdr -> Header]
      /\ heap_tail \in Nat
  BY DEF IInv, TypeOK, Locals, NewRun, listVars
<1>4. ~ Dirty(p)
  BY DEF NewRun, p
<1> HIDE DEF rest
<1>5. \A b \in DOMAIN hdr : b < p /\ hdr'[b] = hdr[b] /\ (InUse(b) => b + Hdr + hdr[b].csize <= p)
  <2>1. \A b \in DOMAIN hdr : b \in Nat /\ hdr[b].csize \in Nat
    BY <1>3 DEF Header
  <2>2. \A b \in DOMAIN hdr : b < p /\ (InUse(b) => b + Hdr + hdr[b].csize <= p)
    BY <1>1, <1>4, <2>1, Constants DEF Dirty, InUse
  <2> QED BY <1>1, <2>2
<1>6. /\ \A b \in DOMAIN hdr' : b \in DOMAIN hdr \/ b = p \/ (b = rest /\ hdr'[p].next = rest)
      /\ DOMAIN hdr \subseteq DOMAIN hdr' /\ p \in DOMAIN hdr'
      /\ hdr'[p].next # 0 => /\ hdr'[p].next = rest /\ rest \in DOMAIN hdr' /\ hdr'[p].alloc
                             /\ hdr'[rest].next = 0 /\ ~ hdr'[rest].alloc
  BY <1>1, <1>2
<1>7. Blocks'
  <2>1. heap_head' = 0 <=> heap_tail' = 0
    BY <1>3 DEF ListInv, Blocks
  <2>2. heap_tail' # 0 => \A b \in {heap_head', heap_tail'} :
                            b \in DOMAIN hdr' /\ hdr'[b].alloc /\ b # p
    BY <1>1, <1>3, <1>5, <1>6 DEF ListInv, Blocks, InUse
  <2>3. ASSUME NEW b \in DOMAIN hdr', hdr'[b].next # 0
        PROVE  /\ hdr'[b].alloc /\ hdr'[b].next \in DOMAIN hdr' /\ hdr'[b].next > b
               /\ b # heap_tail' /\ b # p => hdr'[hdr'[b].next].alloc
    <3>1. CASE b \in DOMAIN hdr
      BY <1>3, <1>5, <1>6, <2>3, <3>1 DEF ListInv, Blocks, InUse, Pending
    <3>2. CASE b \notin DOMAIN hdr
      BY <1>1, <1>2, <1>6, <2>3, <3>2
    <3> QED BY <3>1, <3>2
  <2> QED BY <1>1, <1>3, <2>1, <2>2, <2>3 DEF Blocks, InUse, Pending
<1>8. Payloads'
  <2>1. ASSUME NEW b \in DOMAIN hdr', NEW c \in DOMAIN hdr', hdr'[b].alloc, b < c
        PROVE  b + Hdr + (IF b = p THEN req ELSE hdr'[b].csize) <= c
    <3>1. CASE b \in DOMAIN hdr /\ c \in DOMAIN hdr
      BY <1>3, <1>5, <2>1, <3>1 DEF ListInv, Payloads, InUse, Pending
    <3>2. CASE b \in DOMAIN hdr /\ c \notin DOMAIN hdr
      <4>1. InUse(b) /\ hdr'[b] = hdr[b] /\ b < p /\ b + Hdr + hdr[b].csize <= p
        BY <1>5, <2>1, <3>2 DEF InUse
      <4>2. c = p \/ c = rest
        BY <1>6, <3>2
      <4>3. b \in Nat /\ hdr[b].csize \in Nat
        BY <1>3, <3>2 DEF Header
      <4> QED BY <1>1, <1>2, <4>1, <4>2, <4>3, Constants
    <3>3. CASE b \notin DOMAIN hdr
      <4>1. b = p
        BY <1>1, <1>2, <1>6, <2>1, <3>3
      <4>2. c = rest
        BY <1>1, <1>3, <1>5, <1>6, <2>1, <4>1
      <4> QED BY <1>1, <1>2, <4>1, <4>2, Constants
    <3> QED BY <3>1, <3>2, <3>3
  <2> QED BY <1>1, <1>3, <2>1 DEF Payloads, InUse, Pending
<1>9. Appending'
  <2>1. best' \in DOMAIN hdr' /\ best' > heap_tail'
    BY <1>1, <1>3, <1>5, <1>6 DEF ListInv, Blocks
  <2>2. \A b \in DOMAIN hdr' : b <= best' \/ b = hdr'[best'].next
    BY <1>1, <1>3, <1>5, <1>6
  <2>3. hdr'[best'].next # 0 => hdr'[best'].alloc /\ ~ hdr'[hdr'[best'].next].alloc
    BY <1>1, <1>6
  <2> QED BY <2>1, <2>2, <2>3 DEF Appending, InUse
<1>10. Booting'
  <2>1. ASSUME ~ booted
        PROVE  /\ heap_tail = heap_head /\ heap_head = 0
               /\ \A b \in DOMAIN hdr : ~ InUse(b)
    BY <1>3, <2>1 DEF ListInv, Booting
  <2>2. ~ booted => \A b \in DOMAIN hdr' : hdr'[b].alloc => b = best'
    BY <1>1, <1>5, <1>6, <2>1 DEF InUse
  <2> QED BY <1>3, <2>1, <2>2 DEF Booting, InUse
<1> QED BY <1>3, <1>7, <1>8, <1>9, <1>10 DEF ListInv, Searching

\* The block found is the last one; what is cut from it comes after all others.
LEMMA FoundEffect ==
  ASSUME IInv, Found
  PROVE  LET rest == best + Need(req) IN
         /\ Need(req) \in Nat /\ req + Hdr <= Need(req)
         /\ rest \in Nat /\ rest > best
         /\ \A b \in DOMAIN hdr : b <= best
         /\ best > heap_tail /\ hdr[best].next = 0
         /\ \/ DOMAIN hdr' = DOMAIN hdr /\ hdr'[best] = hdr[best]
            \/ /\ DOMAIN hdr' = DOMAIN hdr \cup {rest}
               /\ hdr'[best].next = rest /\ hdr'[best].alloc
               /\ hdr'[rest].next = 0 /\ ~ hdr'[rest].alloc
         /\ hdr'[best].size >= Need(req)
         /\ \A x \in DOMAIN hdr : x # best => hdr'[x] = hdr[x]
<1> DEFINE rest == best + Need(req)
<1>1. /\ best \in DOMAIN hdr /\ ~ InUse(best) /\ best = hdr[heap_tail].next
      /\ ListInv /\ req \in Nat /\ heap_tail # 0
  BY FoundBase
<1>2. /\ pc = "search" /\ pc' = "append"
      /\ UNCHANGED <<heap_head, heap_tail, req, best, booted>>
      /\ DOMAIN hdr \subseteq Nat \ {0} /\ hdr \in [DOMAIN hdr -> Header]
      /\ heap_tail \in Nat /\ best \in Nat
  BY <1>1 DEF IInv, TypeOK, Found, listVars, callVars
<1>3. /\ Need(req) \in Nat /\ req + Hdr <= Need(req)
      /\ rest \in Nat /\ rest > best
  BY <1>1, <1>2, NeedCovers, Constants
<1>4. /\ \A b \in DOMAIN hdr : b <= best
      /\ best > heap_tail /\ hdr[best].next = 0
  BY <1>1, <1>2 DEF ListInv, Blocks, Last, InUse
<1>5. /\ \/ DOMAIN hdr' = DOMAIN hdr /\ hdr'[best] = hdr[best]
         \/ /\ DOMAIN hdr' = DOMAIN hdr \cup {rest}
            /\ hdr'[best].next = rest /\ hdr'[best].alloc
            /\ hdr'[rest].next = 0 /\ ~ hdr'[rest].alloc
      /\ hdr'[best].size >= Need(req)
      /\ \A x \in DOMAIN hdr : x # best => hdr'[x] = hdr[x]
  <2>1. CASE hdr[best].size - Need(req) > Slack
    <3>1. hdr' = Split(hdr, best, Need(req))
      BY <2>1 DEF Found
    <3>2. hdr[best].size \in Nat /\ Need(req) > 0
      BY <1>1, <1>2, <1>3, Constants DEF Header
    <3>3. CanSplit(hdr, best, Need(req))
      BY <1>1, <1>2, <1>3, <2>1, <3>2, Constants DEF CanSplit
    <3>4. IsSplit(hdr, best, Need(req), hdr')
      BY <3>1, <3>3, SplitEffect
    <3>5. DOMAIN hdr' = DOMAIN hdr \cup {rest} /\ hdr'[rest].next = 0 /\ ~ hdr'[rest].alloc
      BY <1>4, <3>4 DEF IsSplit
    <3>6. hdr'[best].next = rest /\ hdr'[best].alloc /\ hdr'[best].size = Need(req)
      BY <1>1, <1>2, <3>4 DEF IsSplit, Header
    <3>7. \A x \in DOMAIN hdr : x # best => hdr'[x] = hdr[x]
      BY <1>2, <1>3, <1>4, <3>4 DEF IsSplit
    <3> QED BY <1>3, <3>5, <3>6, <3>7
  <2>2. CASE ~ (hdr[best].size - Need(req) > Slack)
    <3>1. hdr[best].size >= Need(req)
      BY <1>1, <1>2 DEF IInv, ListInv, Searching, Found
    <3> QED BY <2>2, <3>1 DEF Found
  <2> QED BY <2>1, <2>2
<1> QED BY <1>3, <1>4, <1>5

\* Found keeps the list in order.
LEMMA FoundList ==
  ASSUME IInv, Found
  PROVE  ListInv'
<1> DEFINE rest == best + Need(req)
<1>1. /\ best \in DOMAIN hdr /\ ~ InUse(best) /\ best = hdr[heap_tail].next
      /\ ListInv /\ req \in Nat /\ heap_tail # 0
  BY FoundBase
<1>2. /\ pc = "search" /\ pc' = "append"
      /\ UNCHANGED <<heap_head, heap_tail, req, best, booted>>
      /\ DOMAIN hdr \subseteq Nat \ {0} /\ hdr \in [DOMAIN hdr -> Header]
      /\ heap_tail \in Nat /\ best \in Nat
  BY <1>1 DEF IInv, TypeOK, Found, listVars, callVars
<1>3. Need(req) \in Nat /\ req + Hdr <= Need(req) /\ rest \in Nat /\ rest > best
  BY FoundEffect
<1>4. (\A b \in DOMAIN hdr : b <= best) /\ best > heap_tail /\ hdr[best].next = 0
  BY FoundEffect
<1>5. /\ \/ DOMAIN hdr' = DOMAIN hdr /\ hdr'[best] = hdr[best]
         \/ /\ DOMAIN hdr' = DOMAIN hdr \cup {rest}
            /\ hdr'[best].next = rest /\ hdr'[best].alloc
            /\ hdr'[rest].next = 0 /\ ~ hdr'[rest].alloc
      /\ \A x \in DOMAIN hdr : x # best => hdr'[x] = hdr[x]
  BY FoundEffect
<1> HIDE DEF rest
<1>6. /\ \A b \in DOMAIN hdr' : b \in DOMAIN hdr \/ (b = rest /\ hdr'[best].next = rest)
      /\ DOMAIN hdr \subseteq DOMAIN hdr'
      /\ hdr'[best].next # 0 => /\ hdr'[best].next = rest /\ rest \in DOMAIN hdr'
                                /\ hdr'[best].alloc
                                /\ hdr'[rest].next = 0 /\ ~ hdr'[rest].alloc
  BY <1>1, <1>3, <1>4, <1>5
<1>7. Blocks'
  <2>1. \A b \in {heap_head, heap_tail} : b \in DOMAIN hdr' /\ hdr'[b].alloc /\ b # best
    BY <1>1, <1>5, <1>6 DEF ListInv, Blocks, InUse
  <2>2. ASSUME NEW b \in DOMAIN hdr', hdr'[b].next # 0
        PROVE  /\ hdr'[b].alloc /\ hdr'[b].next \in DOMAIN hdr' /\ hdr'[b].next > b
               /\ b # heap_tail /\ b # best => hdr'[hdr'[b].next].alloc
    <3>1. CASE b \in DOMAIN hdr /\ b # best
      <4>1. /\ InUse(b) /\ hdr[b].next \in DOMAIN hdr /\ hdr[b].next > b
            /\ b # heap_tail => InUse(hdr[b].next)
        BY <1>1, <1>2, <1>5, <2>2, <3>1 DEF ListInv, Blocks, Pending
      <4> QED BY <1>1, <1>5, <1>6, <3>1, <4>1 DEF InUse
    <3>2. CASE b = best
      BY <1>3, <1>6, <2>2, <3>2
    <3>3. CASE b \notin DOMAIN hdr
      BY <1>2, <1>3, <1>6, <2>2, <3>3
    <3> QED BY <3>1, <3>2, <3>3
  <2>3. heap_head' = 0 <=> heap_tail' = 0
    BY <1>1, <1>2 DEF ListInv, Blocks
  <2> QED BY <1>2, <2>1, <2>2, <2>3 DEF Blocks, InUse, Pending
<1>8. Payloads'
  <2>1. ASSUME NEW b \in DOMAIN hdr', NEW c \in DOMAIN hdr', hdr'[b].alloc, b < c
        PROVE  b + Hdr + (IF b = best THEN req ELSE hdr'[b].csize) <= c
    <3>1. CASE b \in DOMAIN hdr /\ b # best
      <4>1. InUse(b) /\ hdr'[b] = hdr[b] /\ b < best /\ b \in Nat /\ hdr[b].csize \in Nat
        BY <1>2, <1>4, <1>5, <2>1, <3>1 DEF InUse, Header
      <4>2. \A x \in DOMAIN hdr : b < x => b + Hdr + hdr[b].csize <= x
        BY <1>1, <1>2, <3>1, <4>1 DEF ListInv, Payloads, Pending
      <4>3. CASE c \in DOMAIN hdr
        BY <2>1, <3>1, <4>1, <4>2, <4>3
      <4>4. CASE c = rest
        <5>1. b + Hdr + hdr[b].csize <= best
          BY <1>1, <4>1, <4>2
        <5> QED BY <1>2, <1>3, <3>1, <4>1, <4>4, <5>1, Constants
      <4> QED BY <1>6, <4>3, <4>4
    <3>2. CASE b = best
      <4>1. c = rest
        BY <1>2, <1>4, <1>6, <2>1, <3>2
      <4> QED BY <1>1, <1>2, <1>3, <3>2, <4>1, Constants DEF rest
    <3>3. CASE b \notin DOMAIN hdr
      BY <1>2, <1>3, <1>6, <2>1, <3>3
    <3> QED BY <3>1, <3>2, <3>3
  <2> QED BY <1>2, <2>1 DEF Payloads, InUse, Pending
<1>9. Appending'
  BY <1>1, <1>2, <1>4, <1>6 DEF Appending, InUse
<1>10. Booting'
  <2>1. booted
    BY <1>1, <1>2 DEF ListInv, Booting
  <2> QED BY <1>2, <2>1 DEF Booting
<1> QED BY <1>2, <1>7, <1>8, <1>9, <1>10 DEF ListInv, Searching

\* The block becomes the tail: it lies above the old one.
LEMMA AppendBlockList ==
  ASSUME IInv, AppendBlock, ~ wild
  PROVE  ListInv'
<1>1. /\ ListInv /\ TypeOK /\ pc = "append" /\ pc' = "idle"
      /\ heap_head' = IF heap_head = 0 THEN best ELSE heap_head
      /\ heap_tail' = best /\ booted' = booted
      /\ DOMAIN hdr \subseteq Nat \ {0} /\ hdr \in [DOMAIN hdr -> Header]
      /\ heap_tail \in Nat /\ best \in Nat
  BY DEF IInv, TypeOK, AppendBlock
<1>2. /\ best \in DOMAIN hdr /\ best > heap_tail /\ best # 0
      /\ \A b \in DOMAIN hdr : b <= best \/ b = hdr[best].next
      /\ hdr[best].next # 0 => InUse(best) /\ ~ InUse(hdr[best].next)
  BY <1>1 DEF ListInv, Appending
<1>3. /\ DOMAIN hdr' = DOMAIN hdr
      /\ hdr'[best].alloc /\ hdr'[best].csize = req
      /\ hdr'[best].next = hdr[best].next
      /\ heap_head # 0 /\ heap_tail \in DOMAIN hdr => hdr'[heap_tail].next = best
      /\ \A x \in DOMAIN hdr \ {best} :
           /\ hdr'[x].alloc = hdr[x].alloc /\ hdr'[x].csize = hdr[x].csize
           /\ heap_head = 0 \/ x # heap_tail => hdr'[x].next = hdr[x].next
  BY <1>1, <1>2, AppendEffect DEF IInv, Base
<1>4. Blocks'
  <2>1. \A b \in {heap_head', heap_tail'} : b \in DOMAIN hdr /\ hdr'[b].alloc /\ b # 0
    BY <1>1, <1>2, <1>3 DEF ListInv, Blocks, InUse
  <2>2. ASSUME NEW b \in DOMAIN hdr, hdr'[b].next # 0
        PROVE  /\ hdr'[b].alloc /\ hdr'[b].next \in DOMAIN hdr /\ hdr'[b].next > b
               /\ b # best => hdr'[hdr'[b].next].alloc
    <3>1. CASE b = best
      BY <1>1, <1>2, <1>3, <2>2, <3>1 DEF ListInv, Blocks, InUse
    <3>2. CASE b # best /\ b = heap_tail
      BY <1>1, <1>2, <1>3, <2>2, <3>2 DEF ListInv, Blocks, InUse
    <3>3. CASE b # best /\ b # heap_tail
      <4>1. /\ InUse(b) /\ hdr[b].next \in DOMAIN hdr /\ hdr[b].next > b
            /\ InUse(hdr[b].next) /\ hdr'[b].next = hdr[b].next
        BY <1>1, <1>3, <2>2, <3>3 DEF ListInv, Blocks, Pending
      <4> QED BY <1>3, <3>3, <4>1 DEF InUse
    <3> QED BY <3>1, <3>2, <3>3
  <2>3. \A b \in DOMAIN hdr : b <= Last'
    BY <1>1, <1>2, <1>3 DEF ListInv, Blocks, Last
  <2> QED BY <1>1, <1>3, <2>1, <2>2, <2>3 DEF Blocks, InUse, Pending
<1>5. Payloads'
  <2>1. ASSUME NEW b \in DOMAIN hdr, NEW c \in DOMAIN hdr, hdr'[b].alloc, b < c
        PROVE  b + Hdr + hdr'[b].csize <= c
    <3>1. CASE b = best
      <4>1. hdr[best].next # 0
        BY <1>1, <1>2, <2>1, <3>1
      <4> QED BY <1>1, <1>2, <1>3, <2>1, <3>1, <4>1 DEF ListInv, Payloads, Pending
    <3>2. CASE b # best
      BY <1>1, <1>3, <2>1, <3>2 DEF ListInv, Payloads, InUse, Pending
    <3> QED BY <3>1, <3>2
  <2> QED BY <1>1, <1>3, <2>1 DEF Payloads, InUse, Pending
<1>6. Booting'
  <2>1. ~ booted => heap_head = 0 /\ \A b \in DOMAIN hdr : InUse(b) => b = best
    BY <1>1 DEF ListInv, Booting
  <2>2. ~ booted => \A b \in DOMAIN hdr : hdr'[b].alloc => b = best
    BY <1>3, <2>1 DEF InUse
  <2> QED BY <1>1, <1>3, <2>1, <2>2 DEF Booting, InUse
<1> QED BY <1>1, <1>4, <1>5, <1>6 DEF ListInv, Searching, Appending

-----------------------------------------------------------------------------
\* The theorems.

\* Every step keeps the invariant.
LEMMA NextInv == IInv /\ [Next]_vars => IInv'
<1> SUFFICES ASSUME IInv, [Next]_vars PROVE IInv'
  OBVIOUS
<1> USE DEF IInv
<1>1. Base
  BY DEF Base
<1>2. ASSUME NEW size \in Requests \cup {TableSize}, Kmalloc(size)
      PROVE  IInv'
  BY <1>1, <1>2, KmallocBase, KmallocList DEF Base
<1>3. CASE ClearTable
  <2>1. wild' = wild
    BY <1>3 DEF ClearTable
  <2> QED BY <1>1, <1>3, <2>1, ClearTableBase, ClearTableList DEF Base
<1>4. ASSUME NEW b \in DOMAIN hdr, Kfree(b)
      PROVE  IInv'
  <2>1. Base'
    BY <1>1, <1>4, KfreeBase
  <2>2. ListInv'
    <3>1. /\ ListInv /\ pc = "idle" /\ pc' = "idle"
          /\ UNCHANGED <<hdr, heap_head, heap_tail, booted>>
      BY <1>4 DEF Kfree, listVars
    <3>2. Blocks' /\ Payloads' /\ Appending'
      BY <3>1, SameList DEF ListInv
    <3> QED BY <3>1, <3>2 DEF ListInv, Searching, Booting, InUse
  <2> QED BY <2>1, <2>2 DEF Base
<1>5. CASE Run
  <2>1. CASE Visit
    BY <2>1, VisitBase, VisitList DEF Base
  <2>2. CASE Found
    BY <2>2, FoundBase, FoundList DEF Base
  <2>3. CASE Miss
    BY <1>1, <2>3, MissBase, MissList DEF Base
  <2>4. CASE TakePage
    BY <1>1, <2>4, TakePageBase, TakePageList DEF Base
  <2>5. CASE NewRun
    BY <1>1, <2>5, NewRunBase, NewRunList DEF Base
  <2>6. CASE AppendBlock
    <3>1. wild' = wild
      BY <2>6 DEF AppendBlock
    <3> QED BY <1>1, <2>6, <3>1, AppendBlockBase, AppendBlockList DEF Base
  <2> QED BY <1>5, <2>1, <2>2, <2>3, <2>4, <2>5, <2>6 DEF Run
<1>6. CASE UNCHANGED vars
  <2>1. UNCHANGED <<hdr, heap_head, heap_tail, heap_size, num_pages, free_pages, pc,
                    req, curr, best, run, low, booted, wild>>
    BY <1>6 DEF vars, listVars, pageVars, callVars
  <2>2. TypeOK' /\ PagesInv' /\ Locals'
    BY <2>1 DEF TypeOK, PagesInv, Locals
  <2>3. ListInv => ListInv'
    BY <2>1 DEF ListInv, Blocks, Payloads, Searching, Appending, Booting, InUse, Pending, Last
  <2> QED BY <2>1, <2>2, <2>3
<1> QED BY <1>2, <1>3, <1>4, <1>5, <1>6 DEF Next

\* The invariant holds of every behaviour of the heap.
THEOREM Invariance == Spec => []IInv
<1>1. Init => IInv
  BY InitInv
<1> QED BY <1>1, NextInv, PTL DEF Spec

\* memory.c keeps its types: split_block never takes more than a block has, so
\* that no size becomes negative and wraps.
THEOREM TypeCorrect == Spec => []TypeOK
<1>1. IInv => TypeOK
  BY DEF IInv
<1> QED BY <1>1, Invariance, PTL

\* The block list is ordered by address and only its last block can be free:
\* the search of find_best_fit meets no block twice.
THEOREM ListOrdered == Spec => []ListOrder
<1>1. IInv => ListOrder
  BY DEF IInv, ListInv, Blocks, InUse, Pending, ListOrder
<1> QED BY <1>1, Invariance, PTL

\* The pages kmalloc takes for one request follow each other, as it assumes
\* when it uses the first as the start of all.
THEOREM RunsContiguous == Spec => []RunContiguous
<1>1. IInv => RunContiguous
  <2> SUFFICES ASSUME IInv, NEW i \in DOMAIN run
               PROVE  run[i] = run[1] + i - 1
    BY DEF RunContiguous
  <2>1. DOMAIN run = 1 .. Len(run) /\ Len(run) \in Nat /\ i \in 1 .. Len(run) /\ 1 \in 1 .. Len(run)
    BY DEF IInv, TypeOK
  <2>2. num_pages - Len(free_pages) - Len(run) \in Int
    BY <2>1 DEF IInv, TypeOK
  <2> QED BY <2>1, <2>2 DEF IInv, PagesInv
<1> QED BY <1>1, Invariance, PTL

\* As long as no header was put over other data, the payloads kmalloc returned
\* are disjoint and hold no header.
THEOREM PayloadsDisjoint == Spec => []DisjointUnlessWild
<1>1. IInv => DisjointUnlessWild
  BY DEF IInv, ListInv, Payloads, InUse, Pending, DisjointUnlessWild, BlocksDisjoint
<1> QED BY <1>1, Invariance, PTL

-----------------------------------------------------------------------------
\* What has been given.

\* The blocks kmalloc has returned.
Used == {b \in DOMAIN hdr : InUse(b) /\ ~ Pending(b)}

\* A search that succeeds: the block found is pending, its remainder is free.
LEMMA FoundUsed ==
  ASSUME IInv, Found
  PROVE  ~ wild /\ Used' = Used /\ \A b \in Used : hdr'[b] = hdr[b]
<1> DEFINE rest == best + Need(req)
<1>1. /\ pc = "search" /\ pc' = "append" /\ best' = best /\ ~ wild
      /\ best \in DOMAIN hdr /\ ~ InUse(best)
  BY FoundBase DEF Found, callVars
<1>2. rest \in Nat /\ rest > best /\ \A b \in DOMAIN hdr : b <= best /\ b \in Nat
  BY FoundEffect DEF IInv, TypeOK
<1>3. /\ \/ DOMAIN hdr' = DOMAIN hdr
         \/ DOMAIN hdr' = DOMAIN hdr \cup {rest} /\ ~ hdr'[rest].alloc
      /\ \A x \in DOMAIN hdr : x # best => hdr'[x] = hdr[x]
  BY FoundEffect
<1> HIDE DEF rest
<1> QED BY <1>1, <1>2, <1>3 DEF Used, InUse, Pending

\* A new run, above everything written before: its block is pending.
LEMMA NewRunUsed ==
  ASSUME IInv, NewRun, ~ wild'
  PROVE  ~ wild /\ Used' = Used /\ \A b \in Used : hdr'[b] = hdr[b]
<1> DEFINE p    == PageAddr(run[1])
           rest == p + (req + Hdr)
<1>1. /\ p \in Nat /\ best' = p
      /\ \/ DOMAIN hdr' = DOMAIN hdr \cup {p}
         \/ DOMAIN hdr' = DOMAIN hdr \cup {p, rest} /\ ~ hdr'[rest].alloc
      /\ \A x \in DOMAIN hdr : x < p => hdr'[x] = hdr[x]
  BY NewRunEffect DEF IInv, Base
<1>2. pc = "pages" /\ pc' = "append" /\ ~ wild /\ req \in Nat
  BY DEF IInv, TypeOK, Locals, NewRun
<1>3. ~ Dirty(p)
  BY DEF NewRun
<1> HIDE DEF p
<1>4. rest \in Nat /\ rest > p
  BY <1>1, <1>2, Constants
<1> HIDE DEF rest
<1>5. \A b \in DOMAIN hdr : b < p /\ b \in Nat
  <2>1. \A b \in DOMAIN hdr : b \in Nat /\ hdr[b].csize \in Nat
    BY DEF IInv, TypeOK, Header
  <2> QED BY <1>1, <1>3, <2>1, Constants DEF Dirty
<1> QED BY <1>1, <1>2, <1>4, <1>5 DEF Used, InUse, Pending

\* No step but the last of kmalloc changes them; a NewRun that would sets wild.
LEMMA UsedKept ==
  ASSUME IInv, [Next]_vars, ~ wild', ~ AppendBlock
  PROVE  /\ ~ wild /\ Used' = Used
         /\ \A b \in Used : hdr'[b] = hdr[b]
<1>1. /\ DOMAIN hdr \subseteq Nat \ {0} /\ hdr \in [DOMAIN hdr -> Header]
  BY DEF IInv, TypeOK
<1>2. ASSUME NEW size \in Requests \cup {TableSize}, Kmalloc(size)
      PROVE  ~ wild /\ Used' = Used /\ \A b \in Used : hdr'[b] = hdr[b]
  BY <1>2 DEF Kmalloc, Used, InUse, Pending
<1>3. CASE ClearTable
  <2>1. /\ ~ wild /\ pc = "idle" /\ pc' = "idle" /\ ~ booted /\ heap_head \in Nat
        /\ \A b \in DOMAIN hdr : InUse(b) => b = heap_head
    BY <1>3 DEF ClearTable, IInv, TypeOK, ListInv, Booting
  <2>2. /\ DOMAIN hdr' = DOMAIN hdr
        /\ \A b \in DOMAIN hdr : hdr'[b] = hdr[b] \/ ~ hdr'[b].alloc
        /\ heap_head \in DOMAIN hdr => hdr'[heap_head] = hdr[heap_head]
    BY <1>3, <2>1, Constants DEF ClearTable
  <2> QED BY <2>1, <2>2 DEF Used, InUse, Pending
<1>4. ASSUME NEW b \in DOMAIN hdr, Kfree(b)
      PROVE  ~ wild /\ Used' = Used /\ \A x \in Used : hdr'[x] = hdr[x]
  BY <1>4 DEF Kfree, Used, InUse, Pending
<1>5. CASE Visit \/ Miss \/ TakePage
  BY <1>5 DEF Visit, Miss, TakePage, IInv, Locals, Used, InUse, Pending
<1>6. CASE Found
  BY <1>6, FoundUsed
<1>7. CASE NewRun
  BY <1>7, NewRunUsed
<1>8. CASE UNCHANGED vars
  BY <1>8 DEF vars, callVars, Used, InUse, Pending
<1> QED BY <1>2, <1>3, <1>4, <1>5, <1>6, <1>7, <1>8 DEF Next, Run

\* The last step of kmalloc adds the pending block to them.
LEMMA UsedGrows ==
  ASSUME IInv, AppendBlock, ~ wild
  PROVE  /\ best \in DOMAIN hdr \ Used /\ Used' = Used \cup {best}
         /\ Used \subseteq DOMAIN hdr /\ DOMAIN hdr' = DOMAIN hdr
         /\ hdr'[best].csize = req
         /\ \A b \in Used : hdr'[b].csize = hdr[b].csize
         /\ \A b \in DOMAIN hdr : hdr'[b].size = hdr[b].size
<1>1. /\ DOMAIN hdr' = DOMAIN hdr /\ best \in DOMAIN hdr
      /\ hdr'[best].alloc /\ hdr'[best].csize = req
      /\ \A x \in DOMAIN hdr \ {best} : hdr'[x].alloc = hdr[x].alloc /\ hdr'[x].csize = hdr[x].csize
  BY AppendEffect DEF IInv, Base
<1>2. pc = "append" /\ pc' = "idle" /\ DOMAIN hdr \subseteq Nat \ {0} /\ hdr \in [DOMAIN hdr -> Header]
  BY DEF AppendBlock, IInv, TypeOK
<1>3. \A b \in DOMAIN hdr : hdr'[b].size = hdr[b].size
  <2> DEFINE taken == [hdr EXCEPT ![best].alloc = TRUE, ![best].csize = req]
  <2>1. taken \in [DOMAIN hdr -> Header] /\ \A b \in DOMAIN hdr : taken[b].size = hdr[b].size
    <3>1. req \in Nat
      BY DEF IInv, TypeOK
    <3> QED BY <1>1, <1>2, <3>1 DEF Header
  <2>2. hdr' = IF heap_head = 0 THEN taken ELSE [taken EXCEPT ![heap_tail].next = best]
    BY DEF AppendBlock
  <2> HIDE DEF taken
  <2> QED BY <2>1, <2>2 DEF Header
<1> QED BY <1>1, <1>2, <1>3 DEF Used, InUse, Pending

\* A step writes at most two headers more.
LEMMA HeadersFinite ==
  ASSUME IInv, [Next]_vars, ~ wild, IsFiniteSet(DOMAIN hdr)
  PROVE  IsFiniteSet(DOMAIN hdr')
<1>1. ASSUME NEW x, NEW y, DOMAIN hdr' \subseteq DOMAIN hdr \cup {x, y}
      PROVE  IsFiniteSet(DOMAIN hdr')
  <2>1. IsFiniteSet((DOMAIN hdr \cup {x}) \cup {y})
    BY FS_AddElement
  <2>2. (DOMAIN hdr \cup {x}) \cup {y} = DOMAIN hdr \cup {x, y}
    OBVIOUS
  <2> QED BY <1>1, <2>1, <2>2, FS_Subset
<1>2. CASE Found
  BY <1>1, <1>2, FoundEffect
<1>3. CASE NewRun
  BY <1>1, <1>3, NewRunEffect DEF IInv, Base
<1>4. CASE AppendBlock
  BY <1>4, UsedGrows
<1>5. CASE ClearTable
  BY <1>5 DEF ClearTable
<1>6. CASE UNCHANGED hdr
  BY <1>6
<1>7. Found \/ NewRun \/ AppendBlock \/ ClearTable \/ UNCHANGED hdr
  BY DEF Next, Run, Kmalloc, Kfree, Visit, Miss, TakePage, vars
<1> QED BY <1>2, <1>3, <1>4, <1>5, <1>6, <1>7

\* The block a request ends with is large enough for it.
PendingHolds == pc = "append" => hdr[best].size >= req

\* Rounding down to pages loses less than a page.
LEMMA PagesFloor == \A n \in Nat : n - PageSize + 1 <= (n \div PageSize) * PageSize
BY Constants

\* Pages enough for a request hold its header too.
LEMMA PagesCover == \A size \in Nat : size + Hdr <= PagesFor(size) * PageSize
<1> SUFFICES ASSUME NEW size \in Nat PROVE size + Hdr <= PagesFor(size) * PageSize
  OBVIOUS
<1> DEFINE n == size + Hdr + PageSize - 1
<1>1. n \in Nat /\ n - PageSize + 1 = size + Hdr
  BY Constants
<1> HIDE DEF n
<1>2. n - PageSize + 1 <= (n \div PageSize) * PageSize
  BY <1>1, PagesFloor
<1> QED BY <1>1, <1>2 DEF PagesFor, n

\* The size of a new run, and what its first block keeps of it.
LEMMA NewRunHolds ==
  ASSUME IInv, NewRun
  PROVE  hdr'[best'].size >= req
<1> DEFINE p    == PageAddr(run[1])
           size == Align8(PagesFor(req) * PageSize + Hdr)
           e    == [next |-> 0, size |-> size, csize |-> 0, alloc |-> FALSE]
           h    == With(hdr, p, e)
<1>1. run[1] \in Nat /\ req \in Nat /\ DOMAIN hdr \subseteq Nat /\ hdr \in [DOMAIN hdr -> Header]
  BY PagesForType DEF IInv, TypeOK, NewRun
<1>2. p \in Nat /\ size \in Nat
  BY <1>1, PageAddrType, PagesForType, RunSizeType
<1>3. size >= req
  <2> DEFINE m == PagesFor(req) * PageSize
  <2>1. m \in Nat /\ req + Hdr <= m
    BY <1>1, PagesForType, PagesCover, Constants
  <2> HIDE DEF m
  <2>2. m + Hdr \in Nat /\ m + Hdr <= Align8(m + Hdr)
    BY <2>1, AlignUp, Constants
  <2>3. req <= Align8(m + Hdr)
    BY <1>1, <2>1, <2>2, AlignUp, Constants
  <2> QED BY <2>3 DEF m
<1>4. best' = p /\ hdr' = IF size - req > Slack THEN Split(h, p, req + Hdr) ELSE h
  BY DEF NewRun
<1>5. e \in Header /\ e.size = size
  BY <1>2 DEF Header
<1>6. p \in DOMAIN h /\ h[p] = e /\ DOMAIN h \subseteq Nat /\ h \in [DOMAIN h -> Header]
  BY <1>1, <1>2, <1>5 DEF With
<1> HIDE DEF p, size, e, h
<1>7. CASE size - req > Slack
  <2>1. req + Hdr \in Nat /\ req + Hdr > 0 /\ size - (req + Hdr) \in Nat /\ req + Hdr >= req
    BY <1>1, <1>2, <1>7, Constants
  <2>2. CanSplit(h, p, req + Hdr)
    BY <1>5, <1>6, <2>1 DEF CanSplit
  <2>3. IsSplit(h, p, req + Hdr, hdr')
    BY <1>4, <1>7, <2>2, SplitEffect
  <2>4. hdr'[p].size = req + Hdr
    BY <1>6, <2>3 DEF IsSplit, Header
  <2> QED BY <1>4, <2>1, <2>4
<1>8. CASE ~ (size - req > Slack)
  BY <1>3, <1>4, <1>5, <1>6, <1>8
<1> QED BY <1>7, <1>8

\* No step leaves a pending block too small.
LEMMA PendingKept ==
  ASSUME IInv, [Next]_vars, PendingHolds
  PROVE  PendingHolds'
<1>1. CASE Found
  <2>1. best' = best /\ req' = req /\ req \in Nat /\ hdr'[best].size \in Nat
    BY <1>1, FoundBase DEF Found, callVars, Base, TypeOK, Locals, Header
  <2>2. Need(req) \in Nat /\ req + Hdr <= Need(req) /\ hdr'[best].size >= Need(req)
    BY <1>1, FoundEffect
  <2> QED BY <2>1, <2>2, Constants DEF PendingHolds
<1>2. CASE NewRun
  BY <1>2, NewRunHolds DEF NewRun, PendingHolds
<1>3. CASE UNCHANGED vars
  BY <1>3 DEF vars, callVars, PendingHolds
<1>4. CASE pc' # "append"
  BY <1>4 DEF PendingHolds
<1>5. Found \/ NewRun \/ UNCHANGED vars \/ pc' # "append"
  BY DEF Next, Run, Kmalloc, ClearTable, Kfree, Visit, Miss, TakePage, AppendBlock, IInv, Locals
<1> QED BY <1>1, <1>2, <1>3, <1>4, <1>5

-----------------------------------------------------------------------------
\* The accounts.

BlockSizes == [b \in DOMAIN hdr |-> hdr[b].size + 1]

\* heap_size is the sum of the blocks given; the payloads, the one asked for
\* included, are less than that and than the limit.
Accounts ==
  ~ wild =>
    /\ IsFiniteSet(DOMAIN hdr)
    /\ heap_size = SumFunctionOnSet(BlockSizes, Used)
    /\ SumFunction(Given) <= heap_size
    /\ pc # "idle" => SumFunction(Given) + req <= HeapLimit

\* Without wild, Given lists the blocks in use by the address of their payload.
LEMMA GivenBlocks ==
  ~ wild => Given = [a \in {b + Hdr : b \in Used} |-> hdr[a - Hdr].csize]
BY DEF Given, Used, InUse, Pending

LEMMA GivenAt ==
  ASSUME TypeOK, ~ wild, NEW b \in Used
  PROVE  b + Hdr \in DOMAIN Given /\ Given[b + Hdr] = hdr[b].csize
<1>1. b \in Nat /\ (b + Hdr) - Hdr = b
  BY Constants DEF TypeOK, Used
<1> QED BY <1>1, GivenBlocks

\* Its domain is finite and its lengths are numbers.
LEMMA GivenType ==
  ASSUME TypeOK, ~ wild, IsFiniteSet(DOMAIN hdr)
  PROVE  /\ IsFiniteSet(DOMAIN Given) /\ DOMAIN Given \subseteq Nat
         /\ \A a \in DOMAIN Given : Given[a] \in Nat
         /\ SumFunction(Given) \in Int
<1>1. IsFiniteSet(Used) /\ Used \subseteq DOMAIN hdr
  BY FS_Subset DEF Used
<1>2. DOMAIN Given = {b + Hdr : b \in Used}
  BY GivenBlocks
<1>3. IsFiniteSet({b + Hdr : b \in Used})
  <2> DEFINE f == [b \in Used |-> b + Hdr]
  <2>1. f \in Surjection(Used, {b + Hdr : b \in Used})
    BY DEF Surjection
  <2> QED BY <1>1, <2>1, FS_Surjection
<1>4. DOMAIN Given \subseteq Nat /\ \A a \in DOMAIN Given : Given[a] \in Nat
  <2>1. \A b \in Used : b \in Nat /\ hdr[b].csize \in Nat
    BY <1>1 DEF TypeOK, Header
  <2> QED BY <1>2, <2>1, GivenAt, Constants
<1>5. SumFunction(Given) \in Int
  <2>1. \A a \in DOMAIN Given : Given[a] \in Int
    BY <1>4
  <2> QED BY <1>2, <1>3, <2>1, SumType DEF SumFunction
<1> QED BY <1>2, <1>3, <1>4, <1>5

\* While no block is added, nothing of it changes.
LEMMA GivenKept ==
  ASSUME IInv, [Next]_vars, ~ wild', ~ AppendBlock
  PROVE  Given' = Given
<1>1. ~ wild /\ Used' = Used /\ \A b \in Used : hdr'[b] = hdr[b]
  BY UsedKept
<1>2. Given' = [a \in {b + Hdr : b \in Used} |-> hdr'[a - Hdr].csize]
  <2>1. Given' = [a \in {b + Hdr : b \in Used'} |-> hdr'[a - Hdr].csize]
    BY DEF Given, Used, InUse, Pending
  <2> QED BY <1>1, <2>1
<1>3. \A b \in Used : b \in Nat /\ (b + Hdr) - Hdr = b
  BY Constants DEF IInv, TypeOK, Used
<1> QED BY <1>1, <1>2, <1>3, GivenBlocks

\* A block appended adds its payload.
LEMMA GivenGrows ==
  ASSUME IInv, AppendBlock, ~ wild
  PROVE  /\ best + Hdr \notin DOMAIN Given
         /\ Given' = Abstract!Grant(Given, best + Hdr, req)
<1>1. /\ best \in DOMAIN hdr \ Used /\ Used' = Used \cup {best}
      /\ Used \subseteq DOMAIN hdr
      /\ hdr'[best].csize = req
      /\ \A b \in Used : hdr'[b].csize = hdr[b].csize
  BY UsedGrows
<1>2. ~ wild'
  BY DEF AppendBlock
<1>3. \A b \in DOMAIN hdr : b \in Nat /\ (b + Hdr) - Hdr = b
  BY Constants DEF IInv, TypeOK
<1>4. Given = [a \in {b + Hdr : b \in Used} |-> hdr[a - Hdr].csize]
  BY GivenBlocks
<1>5. Given' = [a \in {b + Hdr : b \in Used \cup {best}} |-> hdr'[a - Hdr].csize]
  <2>1. Given' = [a \in {b + Hdr : b \in Used'} |-> hdr'[a - Hdr].csize]
    BY <1>2 DEF Given, Used, InUse, Pending
  <2> QED BY <1>1, <2>1
<1>6. best + Hdr \notin DOMAIN Given
  BY <1>1, <1>3, <1>4, Constants
<1>7. {b + Hdr : b \in Used \cup {best}} = DOMAIN Given \cup {best + Hdr}
  BY <1>4
<1>8. \A a \in DOMAIN Given \cup {best + Hdr} :
        hdr'[a - Hdr].csize = IF a = best + Hdr THEN req ELSE Given[a]
  BY <1>1, <1>3, <1>4, <1>6
<1> QED BY <1>5, <1>6, <1>7, <1>8 DEF Abstract!Grant

\* memory_init: nothing is given and nothing counted.
LEMMA InitAccounts == Init => Accounts /\ PendingHolds
<1> SUFFICES ASSUME Init PROVE Accounts /\ PendingHolds
  OBVIOUS
<1>1. DOMAIN hdr = {} /\ Used = {} /\ DOMAIN Given = {} /\ heap_size = 0 /\ pc = "idle"
  <2>1. DOMAIN hdr = {} /\ Used = {} /\ heap_size = 0 /\ pc = "idle" /\ ~ wild
    BY DEF Init, Used
  <2> QED BY <2>1, GivenBlocks
<1>2. IsFiniteSet({}) /\ SumFunctionOnSet(BlockSizes, {}) = 0 /\ SumFunction(Given) = 0
  BY <1>1, SumEmpty, FS_EmptySet DEF SumFunction
<1> QED BY <1>1, <1>2 DEF Accounts, PendingHolds

\* Steps that append no block change neither side; a call checks the limit.
LEMMA StepAccounts ==
  ASSUME IInv, Accounts, [Next]_vars, ~ AppendBlock
  PROVE  Accounts'
<1> SUFFICES ASSUME ~ wild' PROVE Accounts'
  BY DEF Accounts
<1>1. ~ wild /\ Used' = Used /\ \A b \in Used : hdr'[b] = hdr[b]
  BY UsedKept
<1>2. Given' = Given
  BY GivenKept
<1>3. heap_size' = heap_size
  BY DEF Next, Run, Kmalloc, ClearTable, Kfree, Visit, Found, Miss, TakePage, NewRun, vars, listVars
<1>4. IsFiniteSet(DOMAIN hdr')
  BY <1>1, HeadersFinite DEF Accounts
<1>5. SumFunctionOnSet(BlockSizes', Used) = SumFunctionOnSet(BlockSizes, Used)
  <2>1. IsFiniteSet(Used) /\ Used \subseteq DOMAIN hdr
    BY <1>1, FS_Subset DEF Used, Accounts
  <2>2. Used \subseteq DOMAIN hdr'
    BY <1>1 DEF Used
  <2>3. \A b \in Used : BlockSizes'[b] = BlockSizes[b]
    BY <1>1, <2>1, <2>2 DEF BlockSizes
  <2> QED BY <2>1, <2>3, SumSame
<1>6. pc' # "idle" => SumFunction(Given) + req' <= HeapLimit
  <2>1. ASSUME NEW size \in Requests \cup {TableSize}, Kmalloc(size)
        PROVE  SumFunction(Given) + req' <= HeapLimit
    <3>1. req' = size /\ heap_size + size <= HeapLimit
      BY <2>1 DEF Kmalloc, UnderLimit
    <3>2. SumFunction(Given) <= heap_size /\ SumFunction(Given) \in Int
      BY <1>1, GivenType DEF Accounts, IInv
    <3>3. size \in Nat /\ heap_size \in Nat /\ HeapLimit \in Nat
      BY HeapAssumption DEF HeapAssumption, IInv, TypeOK
    <3> QED BY <3>1, <3>2, <3>3
  <2>2. CASE pc' = "idle"
    BY <2>2
  <2>3. CASE pc # "idle" /\ req' = req
    BY <1>1, <2>3 DEF Accounts
  <2>4. (\E size \in Requests \cup {TableSize} : Kmalloc(size))
        \/ pc' = "idle" \/ (pc # "idle" /\ req' = req)
    BY DEF Next, Run, ClearTable, Kfree, Visit, Found, Miss, TakePage, NewRun, vars, callVars
  <2> QED BY <2>1, <2>2, <2>3, <2>4
<1> QED BY <1>1, <1>2, <1>3, <1>4, <1>5, <1>6 DEF Accounts

\* The end of kmalloc adds the block to one side, its payload to the other.
LEMMA AppendAccounts ==
  ASSUME IInv, Accounts, PendingHolds, AppendBlock
  PROVE  Accounts'
<1> SUFFICES ASSUME ~ wild' PROVE Accounts'
  BY DEF Accounts
<1>1. ~ wild /\ pc = "append" /\ pc' = "idle" /\ heap_size' = heap_size + 1 + hdr[best].size
  BY DEF AppendBlock
<1>2. /\ best \in DOMAIN hdr \ Used /\ Used' = Used \cup {best}
      /\ Used \subseteq DOMAIN hdr /\ DOMAIN hdr' = DOMAIN hdr
      /\ \A b \in DOMAIN hdr : hdr'[b].size = hdr[b].size
  BY <1>1, UsedGrows
<1>3. /\ IsFiniteSet(DOMAIN hdr) /\ IsFiniteSet(Used)
      /\ \A b \in DOMAIN hdr : hdr[b].size \in Nat
      /\ req \in Nat /\ heap_size \in Nat
      /\ heap_size = SumFunctionOnSet(BlockSizes, Used)
  BY <1>1, <1>2, FS_Subset DEF Accounts, IInv, TypeOK, Header
<1>4. heap_size' = SumFunctionOnSet(BlockSizes', Used')
  <2>1. BlockSizes' = BlockSizes
    BY <1>2 DEF BlockSizes
  <2>2. \A b \in Used \cup {best} : BlockSizes[b] \in Int /\ BlockSizes[b] = hdr[b].size + 1
    BY <1>2, <1>3 DEF BlockSizes
  <2>3. SumFunctionOnSet(BlockSizes, Used \cup {best})
          = BlockSizes[best] + SumFunctionOnSet(BlockSizes, Used)
    BY <1>2, <1>3, <2>2, SumAdd
  <2>4. BlockSizes[best] = hdr[best].size + 1 /\ hdr[best].size \in Nat
    BY <1>2, <1>3, <2>2
  <2> QED BY <1>1, <1>2, <1>3, <2>1, <2>3, <2>4
<1>5. SumFunction(Given') = req + SumFunction(Given)
  <2> DEFINE a == best + Hdr
             D == DOMAIN Given
  <2>1. a \notin D /\ Given' = [x \in D \cup {a} |-> IF x = a THEN req ELSE Given[x]]
    BY <1>1, GivenGrows DEF Abstract!Grant
  <2>2. IsFiniteSet(D) /\ \A x \in D : Given[x] \in Nat
    BY <1>1, <1>3, GivenType DEF IInv
  <2> HIDE DEF a, D
  <2>3. DOMAIN Given' = D \cup {a} /\ Given'[a] = req /\ \A x \in D : Given'[x] = Given[x]
    BY <2>1
  <2>4. \A x \in D \cup {a} : Given'[x] \in Int
    BY <1>3, <2>2, <2>3
  <2>5. SumFunctionOnSet(Given', D \cup {a}) = Given'[a] + SumFunctionOnSet(Given', D)
    BY <2>1, <2>2, <2>4, SumAdd
  <2>6. SumFunctionOnSet(Given', D) = SumFunctionOnSet(Given, D)
    BY <2>2, <2>3, SumSame
  <2> QED BY <2>3, <2>5, <2>6 DEF SumFunction, D
<1>6. SumFunction(Given') <= heap_size'
  <2>1. SumFunction(Given) \in Int /\ SumFunction(Given) <= heap_size /\ hdr[best].size >= req
    BY <1>1, <1>3, GivenType DEF Accounts, PendingHolds, IInv
  <2>2. hdr[best].size \in Nat
    BY <1>2, <1>3
  <2> QED BY <1>1, <1>3, <1>5, <2>1, <2>2
<1> QED BY <1>1, <1>2, <1>3, <1>4, <1>6 DEF Accounts

\* All that is proved of the heap, in one invariant.
HeapInv == IInv /\ PendingHolds /\ Accounts

THEOREM HeapInvariance == Spec => []HeapInv
<1>1. Init => HeapInv
  BY InitInv, InitAccounts DEF HeapInv
<1>2. HeapInv /\ [Next]_vars => HeapInv'
  <2> SUFFICES ASSUME HeapInv, [Next]_vars PROVE HeapInv'
    OBVIOUS
  <2>1. IInv' /\ PendingHolds'
    BY NextInv, PendingKept DEF HeapInv
  <2>2. Accounts'
    BY StepAccounts, AppendAccounts DEF HeapInv
  <2> QED BY <2>1, <2>2 DEF HeapInv
<1> QED BY <1>1, <1>2, PTL DEF Spec

\* heap_size is what was handed out, each block with its header and one more:
\* between two calls, however they were split and found, none is missed or
\* counted twice.
THEOREM SizesAccounted == Spec => []SizeAccounted
<1>1. HeapInv => SizeAccounted
  BY DEF HeapInv, Accounts, SizeAccounted, BlockSizes, Used, InUse, Pending
<1> QED BY <1>1, HeapInvariance, PTL

-----------------------------------------------------------------------------
\* What callers rely on.

\* memory_init: nothing is given, nobody waits.
LEMMA InitAbstract == Init => Abstract!Init
<1> SUFFICES ASSUME Init PROVE Abstract!Init
  OBVIOUS
<1>1. ~ wild /\ wild = FALSE /\ pc = "idle" /\ DOMAIN hdr = {}
  BY DEF Init
<1>2. Given = [a \in {} |-> 0]
  <2>1. Used = {}
    BY <1>1 DEF Used
  <2> QED BY <1>1, <2>1, GivenBlocks
<1> QED BY <1>1, <1>2 DEF Wanted, Abstract!Init, Abstract!Nowhere

\* The sum in the abstract specification is the one of the accounts.
LEMMA SameSum == Abstract!SumFunction(Given) = SumFunction(Given)
BY DEF SumFunction, SumFunctionOnSet, FoldFunctionOnSet, MapThenFoldSet,
       Abstract!SumFunction, Abstract!SumFunctionOnSet, Abstract!FoldFunctionOnSet,
       Abstract!MapThenFoldSet

\* A call under the limit of heap_size is one under the limit of what was given.
LEMMA KmallocAsks ==
  ASSUME HeapInv, NEW size \in Requests \cup {TableSize}, Kmalloc(size)
  PROVE  Abstract!Ask(size)
<1>1. /\ ~ wild /\ wild' = wild /\ pc = "idle" /\ pc' # "idle" /\ req' = size
      /\ heap_size + size <= HeapLimit
  BY DEF Kmalloc, UnderLimit
<1>2. Given' = Given
  <2>1. [Next]_vars /\ ~ AppendBlock
    BY <1>1 DEF Next, AppendBlock
  <2> QED BY <1>1, <2>1, GivenKept DEF HeapInv
<1>3. SumFunction(Given) + size <= HeapLimit
  <2>1. SumFunction(Given) \in Int /\ SumFunction(Given) <= heap_size
    BY <1>1, GivenType DEF HeapInv, IInv, Accounts
  <2>2. size \in Nat /\ heap_size \in Nat /\ HeapLimit \in Nat
    BY Constants, HeapAssumption DEF HeapAssumption, HeapInv, IInv, TypeOK
  <2> QED BY <1>1, <2>1, <2>2
<1>4. Wanted = {} /\ Wanted' = {size}
  BY <1>1 DEF Wanted
<1> QED BY <1>1, <1>2, <1>3, <1>4, SameSum DEF Abstract!Ask

\* The end of kmalloc returns new memory, apart from all that was given.
LEMMA AppendAnswers ==
  ASSUME HeapInv, HeapInv', AppendBlock, ~ wild
  PROVE  Abstract!Answer
<1>1. /\ wild' = wild /\ pc = "append" /\ pc' = "idle"
  BY DEF AppendBlock
<1>2. Wanted = {req} /\ Wanted' = {}
  BY <1>1 DEF Wanted
<1>3. /\ best + Hdr \notin DOMAIN Given
      /\ Given' = Abstract!Grant(Given, best + Hdr, req)
  BY GivenGrows DEF HeapInv
<1>4. best + Hdr \in DOMAIN Given'
  BY <1>3 DEF Abstract!Grant
<1>5. Abstract!Apart(Given')
  <2>1. /\ DOMAIN Given' = {b + Hdr : b \in Used'}
        /\ \A b \in Used' : Given'[b + Hdr] = hdr'[b].csize
    <3>1. Given' = [a \in {b + Hdr : b \in Used'} |-> hdr'[a - Hdr].csize]
      BY <1>1 DEF Given, Used, InUse, Pending
    <3>2. Used' \subseteq Nat
      BY DEF HeapInv, IInv, TypeOK, Used
    <3>3. \A b \in Nat : (b + Hdr) - Hdr = b
      BY Constants
    <3> QED BY <3>1, <3>2, <3>3
  <2>2. \A b, c \in Used' : b < c => b + Hdr + hdr'[b].csize <= c
    BY <1>1 DEF HeapInv, IInv, ListInv, Payloads, Used, InUse, Pending
  <2>3. \A b \in Used' : b \in Nat /\ hdr'[b].csize \in Nat
    BY DEF HeapInv, IInv, TypeOK, Used, Header
  <2>4. ASSUME NEW b \in Used', NEW c \in Used', b + Hdr < c + Hdr
        PROVE  b + Hdr + hdr'[b].csize <= c + Hdr
    BY <2>2, <2>3, <2>4, Constants
  <2>5. ASSUME NEW x \in DOMAIN Given', NEW y \in DOMAIN Given', x < y
        PROVE  x + Given'[x] <= y
    <3>1. PICK b \in Used', c \in Used' : x = b + Hdr /\ y = c + Hdr
      BY <2>1
    <3> QED BY <2>1, <2>4, <2>5, <3>1
  <2> QED BY <2>5 DEF Abstract!Apart
<1> QED BY <1>1, <1>2, <1>3, <1>4, <1>5 DEF Abstract!Answer

\* A header put over other data, or a kfree of a payload that is no header.
LEMMA WildLoses ==
  ASSUME ~ wild, wild', TypeOK'
  PROVE  Abstract!Lose
BY DEF TypeOK, Given, Wanted, Abstract!Lose, Abstract!Nowhere

\* Every other step is inside a call, or is none of the callers' business.
LEMMA RestStutters ==
  ASSUME HeapInv, [Next]_vars, wild' = wild, ~ AppendBlock \/ wild,
         \A size \in Requests \cup {TableSize} : ~ Kmalloc(size)
  PROVE  UNCHANGED <<Given, Wanted, wild>>
<1>1. CASE wild
  BY <1>1 DEF Given, Wanted
<1>2. CASE ~ wild
  <2>1. Given' = Given
    BY <1>2, GivenKept DEF HeapInv
  <2>2. \/ pc = "idle" /\ pc' = "idle"
        \/ pc # "idle" /\ pc' # "idle" /\ req' = req
    BY <1>2 DEF Next, Run, ClearTable, Kfree, Visit, Found, Miss, TakePage, NewRun, vars, callVars
  <2>3. Wanted' = Wanted
    BY <1>2, <2>2 DEF Wanted
  <2> QED BY <2>1, <2>3
<1> QED BY <1>1, <1>2

\* kmalloc implements the allocator its callers rely on: disjoint memory of the
\* size asked for, kept for ever, within KERNEL_HEAP_SIZE, until a header is put
\* over data.
THEOREM Implements == Spec => ImplementsAllocator
<1>1. HeapInv /\ HeapInv' /\ [Next]_vars => [Abstract!Next]_<<Given, Wanted, wild>>
  <2> SUFFICES ASSUME HeapInv, HeapInv', [Next]_vars
               PROVE  Abstract!Next \/ UNCHANGED <<Given, Wanted, wild>>
    OBVIOUS
  <2>1. ASSUME NEW size \in Requests \cup {TableSize}, Kmalloc(size)
        PROVE  Abstract!Next
    BY <2>1, KmallocAsks DEF Abstract!Next
  <2>2. CASE AppendBlock /\ ~ wild
    BY <2>2, AppendAnswers DEF Abstract!Next
  <2>3. CASE ~ wild /\ wild'
    BY <2>3, WildLoses DEF HeapInv, IInv, Abstract!Next
  <2>4. wild => wild'
    BY DEF Next, Run, Kmalloc, ClearTable, Kfree, Visit, Found, Miss, TakePage, NewRun,
           AppendBlock, HeapInv, IInv, Locals, vars
  <2>5. wild \in BOOLEAN /\ wild' \in BOOLEAN
    BY DEF HeapInv, IInv, TypeOK
  <2> QED BY <2>1, <2>2, <2>3, <2>4, <2>5, RestStutters
<1> QED BY <1>1, InitAbstract, HeapInvariance, PTL DEF Spec, ImplementsAllocator, Abstract!Spec

-----------------------------------------------------------------------------
\* kmalloc comes to an end.

\* No more pages are taken than the request needs.
PagesLeft == pc = "pages" => Len(run) <= PagesFor(req)

LEMMA PagesLeftKept ==
  ASSUME IInv, PagesLeft, [Next]_vars
  PROVE  PagesLeft'
<1>1. pc \in {"idle", "search"} => Len(run) = 0
  BY DEF IInv, Locals
<1>2. req \in Nat /\ req' \in Nat /\ Len(run) \in Nat
  BY NextInv DEF IInv, TypeOK
<1>3. PagesFor(req) \in Nat /\ PagesFor(req') \in Nat
  BY <1>2, PagesForType
<1>4. CASE TakePage
  <2>1. /\ Len(run') = Len(run) + 1 /\ Len(run) < PagesFor(req) /\ req' = req
    BY <1>4 DEF TakePage, IInv, TypeOK
  <2> QED BY <1>2, <1>3, <2>1 DEF PagesLeft
<1>5. CASE pc' = "pages" /\ pc # "pages"
  <2>1. pc \in {"idle", "search"} /\ run' = run
    BY <1>5 DEF Next, Run, Kmalloc, ClearTable, Kfree, Visit, Found, Miss, TakePage, NewRun,
                AppendBlock, callVars, vars
  <2> QED BY <1>1, <1>3, <2>1 DEF PagesLeft
<1>6. CASE pc' # "pages"
  BY <1>6 DEF PagesLeft
<1>7. CASE pc = "pages" /\ pc' = "pages" /\ ~ TakePage
  <2>1. run' = run /\ req' = req
    BY <1>7 DEF Next, Run, Kmalloc, ClearTable, Kfree, Visit, Found, Miss, NewRun,
                AppendBlock, callVars, vars
  <2> QED BY <1>7, <2>1 DEF PagesLeft
<1> QED BY <1>4, <1>5, <1>6, <1>7

\* The blocks a search may still meet: they are finitely many, and the one it
\* is at is not met again.
Ahead == {b \in DOMAIN hdr : curr # 0 /\ b >= curr}

LEMMA AheadFinite ==
  ASSUME IInv, Accounts, pc = "search"
  PROVE  IsFiniteSet(Ahead) /\ Cardinality(Ahead) \in Nat
<1>1. ~ wild
  BY DEF IInv, Locals
<1>2. IsFiniteSet(DOMAIN hdr) /\ Ahead \subseteq DOMAIN hdr
  BY <1>1 DEF Accounts, Ahead
<1> QED BY <1>2, FS_Subset, FS_CardinalityType

LEMMA VisitLeaves ==
  ASSUME IInv, Accounts, Visit
  PROVE  Cardinality(Ahead') \in 0 .. Cardinality(Ahead) - 1
<1>1. /\ pc = "search" /\ ~ wild /\ curr # 0 /\ curr \in DOMAIN hdr
      /\ DOMAIN hdr \subseteq Nat
      /\ hdr' = hdr /\ curr' = hdr[curr].next
  BY DEF Visit, IInv, TypeOK, Locals, ListInv, Searching
<1>2. curr' # 0 => curr' \in DOMAIN hdr /\ curr' > curr
  BY <1>1 DEF IInv, ListInv, Blocks
<1>3. Ahead' \subseteq Ahead /\ curr \in Ahead /\ curr \notin Ahead'
  BY <1>1, <1>2 DEF Ahead
<1>4. IsFiniteSet(Ahead) /\ Cardinality(Ahead) \in Nat
  BY <1>1, AheadFinite
<1>5. /\ IsFiniteSet(Ahead') /\ Cardinality(Ahead') <= Cardinality(Ahead)
      /\ Cardinality(Ahead') # Cardinality(Ahead)
  BY <1>3, <1>4, FS_Subset
<1>6. Cardinality(Ahead') \in Nat
  BY <1>5, FS_CardinalityType
<1> QED BY <1>4, <1>5, <1>6

\* Whatever kmalloc does next, less remains to be done.
LEMMA LessRemains ==
  ASSUME IInv, IInv', Accounts, PagesLeft, Run
  PROVE  Remaining' \in 0 .. Remaining - 1
<1>1. req \in Nat /\ Len(run) \in Nat /\ PagesFor(req) \in Nat
  <2>1. req \in Nat /\ run \in Seq(Nat)
    BY DEF IInv, TypeOK
  <2> QED BY <2>1, PagesForType
<1>2. CASE Visit
  <2>1. /\ Remaining = 3 + PagesFor(req) + Cardinality(Ahead)
        /\ Remaining' = 3 + PagesFor(req) + Cardinality(Ahead')
    BY <1>2 DEF Visit, Remaining, Ahead
  <2>2. Cardinality(Ahead) \in Nat
    BY <1>2, AheadFinite DEF Visit
  <2> QED BY <1>1, <1>2, <2>1, <2>2, VisitLeaves
<1>3. CASE Found
  <2>1. Remaining = 3 + PagesFor(req) + Cardinality(Ahead) /\ Remaining' = 1
    BY <1>3 DEF Found, Remaining, Ahead
  <2>2. Cardinality(Ahead) \in Nat
    BY <1>3, AheadFinite DEF Found
  <2> QED BY <1>1, <2>1, <2>2
<1>4. CASE Miss
  <2>1. /\ Remaining = 3 + PagesFor(req) + Cardinality(Ahead)
        /\ Remaining' = 2 + PagesFor(req) - Len(run) /\ Len(run) = 0
    BY <1>4 DEF Miss, Remaining, Ahead, callVars, IInv, Locals
  <2>2. Cardinality(Ahead) \in Nat
    BY <1>4, AheadFinite DEF Miss
  <2> QED BY <1>1, <2>1, <2>2
<1>5. CASE TakePage
  <2>1. /\ Remaining = 2 + PagesFor(req) - Len(run)
        /\ Remaining' = 2 + PagesFor(req) - Len(run')
        /\ Len(run') = Len(run) + 1 /\ Len(run) < PagesFor(req)
    BY <1>5 DEF TakePage, Remaining, IInv, TypeOK
  <2> QED BY <1>1, <2>1
<1>6. CASE NewRun
  BY <1>1, <1>6 DEF NewRun, Remaining
<1>7. CASE AppendBlock
  BY <1>7 DEF AppendBlock, Remaining
<1> QED BY <1>2, <1>3, <1>4, <1>5, <1>6, <1>7 DEF Run

\* Each step of kmalloc shortens what remains of it: its search meets no block
\* twice and its loop over pages stops at the number it computed.
THEOREM RunsShorten == Spec => RunShortens
<1>1. Init => PagesLeft
  BY DEF Init, PagesLeft
<1>2. HeapInv /\ PagesLeft /\ [Next]_vars => PagesLeft'
  BY PagesLeftKept DEF HeapInv
<1>3. HeapInv /\ HeapInv' /\ PagesLeft /\ [Next]_vars
        => [Run => Remaining' \in 0 .. Remaining - 1]_vars
  BY LessRemains DEF HeapInv
<1> QED BY <1>1, <1>2, <1>3, HeapInvariance, PTL DEF Spec, RunShortens

=============================================================================
