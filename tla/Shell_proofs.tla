---------------------------- MODULE Shell_proofs ----------------------------
(***************************************************************************)
(* Proofs about Shell, for every size of the line buffer, the FIFO and the *)
(* heap and every set of commands.                                         *)
(***************************************************************************)
EXTENDS Shell, InductionTheorems, SequenceTheorems, TLAPS

\* What has been stored since the last prompt, and its terminator behind it.  A
\* newline is only ever the last character: it ends the line.
Closed ==
  pc \in {"poll", "handle"} =>
    /\ buf_index > 0 => buffer[buf_index] = Nul
    /\ pc = "handle" => buf_index > 0
    /\ \A i \in 0 .. buf_index - 1 : buffer[i] = Newline => pc = "handle" /\ i = buf_index - 1

IInv == TypeOK /\ Closed

LEMMA ConstFacts ==
  /\ MaxCmd \in Nat /\ MaxCmd >= 2 /\ FifoDepth \in Nat
  /\ Nul \in Chars /\ Newline \in Chars /\ Newline # Nul
  /\ HeapBytes \in Int /\ Header \in Int /\ TupleBytes \in Int /\ HandlerUse \subseteq Int
BY ShellAssumption DEF Chars

LEMMA InitInv == Init => IInv
<1> SUFFICES ASSUME Init PROVE IInv  OBVIOUS
<1>1. buffer \in [0 .. MaxCmd - 1 -> Chars]  BY ConstFacts DEF Init
<1>2. buf_index = 0 /\ buf_index \in 0 .. MaxCmd - 1 /\ pc = "poll"  BY ConstFacts DEF Init
<1>3. ran = Nothing /\ fifo = <<>> /\ heap \in Int  BY ConstFacts DEF Init
<1>4. fifo \in Seq(Chars) /\ Len(fifo) <= FifoDepth  BY <1>3, ConstFacts
<1>5. ran.how \in Outcomes /\ ran.name \in Seq(Chars) /\ ran.args \in Seq(Chars)
  BY <1>3 DEF Nothing, Outcomes
<1>6. TypeOK  BY <1>1, <1>2, <1>3, <1>4, <1>5 DEF TypeOK
<1>7. Closed  BY <1>2 DEF Closed
<1> QED BY <1>6, <1>7 DEF IInv

LEMMA ReceiveInv == \A c \in Chars : IInv /\ Receive(c) => IInv'
<1> SUFFICES ASSUME NEW c \in Chars, IInv, Receive(c) PROVE IInv'  OBVIOUS
<1>1. fifo' \in Seq(Chars) /\ Len(fifo') <= FifoDepth
  BY ConstFacts DEF Receive, IInv, TypeOK
<1>2. UNCHANGED <<buffer, buf_index, pc, heap, ran>>  BY DEF Receive
<1>3. TypeOK'  BY <1>1, <1>2 DEF IInv, TypeOK
<1>4. Closed'  BY <1>2 DEF IInv, Closed
<1> QED BY <1>3, <1>4 DEF IInv

\* Both characters stored are in the buffer, because a place is kept for the
\* terminator.
LEMMA StoredFits ==
  ASSUME TypeOK, HasRoom, NEW c \in Chars, buffer' = Stored(c), buf_index' = buf_index + 1
  PROVE  /\ buffer' \in [0 .. MaxCmd - 1 -> Chars]
         /\ buf_index' \in 0 .. MaxCmd - 1
         /\ buffer'[buf_index] = c /\ buffer'[buf_index + 1] = Nul
         /\ \A i \in 0 .. buf_index - 1 : buffer'[i] = buffer[i]
<1>1. /\ buf_index \in 0 .. MaxCmd - 1 /\ buf_index + 1 \in 0 .. MaxCmd - 1
      /\ buf_index # buf_index + 1
      /\ \A i \in 0 .. buf_index - 1 : i \in 0 .. MaxCmd - 1 /\ i # buf_index /\ i # buf_index + 1
  BY ConstFacts DEF TypeOK, HasRoom
<1>2. buffer \in [0 .. MaxCmd - 1 -> Chars]  BY DEF TypeOK
<1>3. buffer' = [buffer EXCEPT ![buf_index] = c, ![buf_index + 1] = Nul]  BY DEF Stored
<1> QED BY <1>1, <1>2, <1>3, ConstFacts

LEMMA PollInv == IInv /\ Poll => IInv'
<1> SUFFICES ASSUME IInv, Poll PROVE IInv'  OBVIOUS
<1>1. PICK c \in Chars :
        /\ Read(c)
        /\ pc' = IF EndsLine(c) THEN "handle" ELSE "poll"
        /\ \/ HasRoom /\ buffer' = Stored(c) /\ buf_index' = buf_index + 1
           \/ ~ HasRoom /\ UNCHANGED <<buffer, buf_index>>
  BY DEF Poll
<1>2. pc = "poll" /\ UNCHANGED <<heap, ran>>  BY DEF Poll
<1>3. fifo' \in Seq(Chars) /\ Len(fifo') <= FifoDepth
  BY <1>1, ConstFacts DEF Read, IInv, TypeOK
<1>4. pc' \in {"poll", "handle"} /\ (pc' = "handle" <=> c = Newline)
  BY <1>1 DEF EndsLine
<1>5. CASE HasRoom /\ buffer' = Stored(c) /\ buf_index' = buf_index + 1
  <2>1. /\ buffer' \in [0 .. MaxCmd - 1 -> Chars]
        /\ buf_index' \in 0 .. MaxCmd - 1
        /\ buffer'[buf_index] = c /\ buffer'[buf_index + 1] = Nul
        /\ \A i \in 0 .. buf_index - 1 : buffer'[i] = buffer[i]
    BY <1>5, StoredFits DEF IInv
  <2>2. buf_index \in Nat  BY ConstFacts DEF IInv, TypeOK
  <2>3. TypeOK'  BY <1>2, <1>3, <1>4, <2>1 DEF IInv, TypeOK
  <2>4. \A i \in 0 .. buf_index - 1 : buffer[i] # Newline
    BY <1>2 DEF IInv, Closed
  <2>5. \A i \in 0 .. buf_index' - 1 : i = buf_index \/ i \in 0 .. buf_index - 1
    BY <1>5, <2>2
  <2>6. \A i \in 0 .. buf_index' - 1 :
          buffer'[i] = Newline => pc' = "handle" /\ i = buf_index' - 1
    BY <1>4, <1>5, <2>1, <2>2, <2>4, <2>5, ConstFacts
  <2>7. buf_index' > 0 /\ buffer'[buf_index'] = Nul  BY <1>5, <2>1, <2>2
  <2>8. Closed'  BY <2>6, <2>7 DEF Closed
  <2> QED BY <2>3, <2>8 DEF IInv
<1>6. CASE ~ HasRoom /\ UNCHANGED <<buffer, buf_index>>
  <2>1. TypeOK'  BY <1>2, <1>3, <1>4, <1>6 DEF IInv, TypeOK
  <2>2. buf_index > 0  BY <1>6, ConstFacts DEF HasRoom, IInv, TypeOK
  <2>3. Closed'  BY <1>2, <1>4, <1>6, <2>2 DEF IInv, Closed
  <2> QED BY <2>1, <2>3 DEF IInv
<1> QED BY <1>1, <1>5, <1>6

-----------------------------------------------------------------------------
\* The string in the buffer ends at buf_index or before, and what handle_cmd
\* keeps of it is all but a newline at its end.
LEMMA LineType ==
  ASSUME IInv, pc = "handle"
  PROVE  /\ Length \in 0 .. buf_index /\ buffer[Length] = Nul
         /\ \A i \in 0 .. Length - 1 : buffer[i] # Nul
         /\ Kept \in 0 .. Length /\ Line \in Seq(Chars)
         /\ Kept > 0 => buffer[Kept - 1] # Newline
         /\ \A i \in Kept .. Length - 1 : buffer[i] = Newline
<1>1. /\ buf_index \in 0 .. MaxCmd - 1 /\ buf_index > 0 /\ buffer[buf_index] = Nul
      /\ \A i \in 0 .. buf_index - 1 : buffer[i] = Newline => i = buf_index - 1
      /\ buffer \in [0 .. MaxCmd - 1 -> Chars]
  BY DEF IInv, TypeOK, Closed
<1> DEFINE ends(n) == buffer[n] = Nul /\ \A i \in 0 .. n - 1 : buffer[i] # Nul
<1>2. \E n \in 0 .. MaxCmd - 1 : ends(n)
  <2> DEFINE S == {n \in 0 .. MaxCmd - 1 : buffer[n] = Nul}
  <2>1. S \in SUBSET Nat /\ buf_index \in S  BY <1>1, ConstFacts
  <2> HIDE DEF S
  <2>2. PICK n \in S : \A i \in S : n <= i  BY <2>1, SmallestNumber
  <2>3. n \in 0 .. MaxCmd - 1 /\ buffer[n] = Nul  BY DEF S
  <2>4. ASSUME NEW i \in 0 .. n - 1 PROVE buffer[i] # Nul
    <3>1. i \in 0 .. MaxCmd - 1 /\ ~ (n <= i)  BY <2>3, ConstFacts
    <3> QED BY <2>2, <3>1 DEF S
  <2> QED BY <2>3, <2>4
<1>3. Length \in 0 .. MaxCmd - 1 /\ ends(Length)
  <2>1. Length = CHOOSE n \in 0 .. MaxCmd - 1 : ends(n)  BY DEF Length
  <2> HIDE DEF ends
  <2> QED BY <1>2, <2>1
<1>4. Length \in 0 .. buf_index
  <2> SUFFICES ASSUME buf_index < Length PROVE FALSE  BY <1>1, <1>3, ConstFacts
  <2>1. buf_index \in 0 .. Length - 1  BY <1>1, <1>3, ConstFacts
  <2> QED BY <1>1, <1>3, <2>1
<1> DEFINE cut(n) == /\ n > 0 => buffer[n - 1] # Newline
                     /\ \A i \in n .. Length - 1 : buffer[i] = Newline
<1>5. \E n \in 0 .. Length : cut(n)
  <2>1. CASE Length > 0 /\ buffer[Length - 1] = Newline
    <3>1. Length - 1 = buf_index - 1 /\ \A i \in Length - 1 .. Length - 1 : i = Length - 1
      BY <1>1, <1>4, <2>1
    <3>2. Length - 1 > 0 => /\ (Length - 1) - 1 \in 0 .. buf_index - 1
                            /\ (Length - 1) - 1 # buf_index - 1
      BY <1>1, <1>4, <3>1
    <3>3. cut(Length - 1) /\ Length - 1 \in 0 .. Length
      BY <1>1, <1>4, <2>1, <3>1, <3>2
    <3> HIDE DEF cut
    <3> QED BY <3>3
  <2>2. CASE ~ (Length > 0 /\ buffer[Length - 1] = Newline)
    <3>1. cut(Length) /\ Length \in 0 .. Length  BY <1>1, <1>4, <2>2
    <3> HIDE DEF cut
    <3> QED BY <3>1
  <2> QED BY <2>1, <2>2
<1>6. Kept \in 0 .. Length /\ cut(Kept)
  <2>1. Kept = CHOOSE n \in 0 .. Length : cut(n)  BY DEF Kept
  <2> HIDE DEF cut
  <2> QED BY <1>5, <2>1
<1>7. \A i \in 1 .. Kept : buffer[i - 1] \in Chars
  <2> SUFFICES ASSUME NEW i \in 1 .. Kept PROVE buffer[i - 1] \in Chars  OBVIOUS
  <2>1. i - 1 \in 0 .. MaxCmd - 1
    BY <1>1, <1>4, <1>6, ConstFacts
  <2> QED BY <1>1, <2>1
<1>8. Line \in Seq(Chars)
  <2>1. Kept \in Nat  BY <1>1, <1>4, <1>6
  <2>2. Line \in [1 .. Kept -> Chars]  BY <1>7 DEF Line
  <2> QED BY <2>1, <2>2
<1> QED BY <1>1, <1>3, <1>4, <1>6, <1>8

\* handle_cmd's two loops keep what was entered, its newline not counted, up to
\* the first NUL typed.
LEMMA KeptIsEntered ==
  ASSUME IInv, pc = "handle",
         NEW n, n = IF buffer[buf_index - 1] = Newline THEN buf_index - 1 ELSE buf_index
  PROVE  n \in Nat /\ n <= buf_index /\ Length \in Nat /\ Kept = IF Length < n THEN Length ELSE n
<1>1. /\ Length \in 0 .. buf_index /\ buffer[Length] = Nul
      /\ Kept \in 0 .. Length
      /\ Kept > 0 => buffer[Kept - 1] # Newline
      /\ \A i \in Kept .. Length - 1 : buffer[i] = Newline
  BY LineType
<1>2. /\ buf_index \in Nat /\ buf_index > 0
      /\ \A i \in 0 .. buf_index - 1 : buffer[i] = Newline => i = buf_index - 1
  BY ConstFacts DEF IInv, TypeOK, Closed
<1>3. CASE Length = buf_index
  <2>1. Kept >= buf_index - 1
    <3> SUFFICES ASSUME Kept < buf_index - 1 PROVE FALSE  BY <1>1, <1>2
    <3>1. Kept \in Kept .. Length - 1 /\ Kept \in 0 .. buf_index - 1  BY <1>1, <1>2, <1>3
    <3>2. Kept = buf_index - 1  BY <1>1, <1>2, <3>1
    <3> QED BY <1>1, <1>2, <3>2
  <2>2. Kept = buf_index - 1 => buffer[buf_index - 1] = Newline
    <3>1. Kept = buf_index - 1 => buf_index - 1 \in Kept .. Length - 1  BY <1>1, <1>2, <1>3
    <3> QED BY <1>1, <3>1
  <2>3. Kept = buf_index => buffer[buf_index - 1] # Newline  BY <1>1, <1>2
  <2>4. Kept \in {buf_index - 1, buf_index}  BY <1>1, <1>2, <1>3, <2>1
  <2> QED BY <1>2, <1>3, <2>2, <2>3, <2>4
<1>4. CASE Length < buf_index
  <2>1. Kept = Length
    <3> SUFFICES ASSUME Kept < Length PROVE FALSE  BY <1>1, <1>2
    <3>1. Kept \in Kept .. Length - 1 /\ Length - 1 \in Kept .. Length - 1
          /\ Kept \in 0 .. buf_index - 1
      BY <1>1, <1>2, <1>4
    <3>2. Kept = buf_index - 1  BY <1>1, <1>2, <3>1
    <3> QED BY <1>1, <1>2, <1>4, <3>2
  <2>2. Length = buf_index - 1 => n = buf_index  BY <1>1, ConstFacts
  <2>3. n = buf_index \/ n = buf_index - 1  OBVIOUS
  <2>4. Length < n  BY <1>1, <1>2, <1>4, <2>2, <2>3
  <2> QED BY <1>1, <1>2, <2>1, <2>3, <2>4
<1> QED BY <1>1, <1>2, <1>3, <1>4

\* What the shell promises of a line with a c in it, and of one without.
LEMMA BeforeFirst ==
  ASSUME NEW l \in Seq(Chars), NEW c, NEW i \in DOMAIN l, l[i] = c,
         \A j \in 1 .. i - 1 : l[j] # c
  PROVE  Abstract!Before(c, l) = SubSeq(l, 1, i - 1)
<1> DEFINE T == Abstract!Places(c, l)
           least(k) == \A j \in T : k <= j
<1>1. DOMAIN l = 1 .. Len(l) /\ Len(l) \in Nat /\ i \in 1 .. Len(l)
  OBVIOUS
<1>2. T = {k \in 1 .. Len(l) : l[k] = c} /\ i \in T
  BY <1>1 DEF Abstract!Places
<1>3. least(i)
  <2> SUFFICES ASSUME NEW j \in T, j < i PROVE FALSE
    BY <1>1, <1>2
  <2>1. j \in 1 .. i - 1 /\ l[j] = c
    BY <1>1, <1>2
  <2> QED BY <2>1
<1>4. \A k \in T : least(k) => k = i
  BY <1>1, <1>2, <1>3
<1>5. T # {} /\ Abstract!Before(c, l) = SubSeq(l, 1, (CHOOSE k \in T : least(k)) - 1)
  BY <1>2 DEF Abstract!Before
<1> HIDE DEF T, least
<1> QED BY <1>2, <1>3, <1>4, <1>5

LEMMA BeforeNone ==
  ASSUME NEW l \in Seq(Chars), NEW c, \A i \in DOMAIN l : l[i] # c
  PROVE  Abstract!Before(c, l) = l
BY DEF Abstract!Before, Abstract!Places

LEMMA TypedType ==
  ASSUME TypeOK, NEW n \in 0 .. buf_index
  PROVE  /\ Typed(n) \in Seq(Chars) /\ Len(Typed(n)) = n
         /\ \A i \in 1 .. n : Typed(n)[i] = buffer[i - 1]
<1>1. n \in Nat /\ \A i \in 1 .. n : i - 1 \in 0 .. MaxCmd - 1
  BY ConstFacts DEF TypeOK
<1>2. Typed(n) \in [1 .. n -> Chars]
  BY <1>1 DEF Typed, TypeOK
<1> QED BY <1>1, <1>2 DEF Typed

\* What handle_cmd makes of the line is what counts of the one entered.
LEMMA LineCounted ==
  IInv /\ pc = "handle" =>
    /\ Line = Abstract!Counted(Entered) /\ Entered \in Seq(Chars)
<1> SUFFICES ASSUME IInv, pc = "handle"
             PROVE  Line = Abstract!Counted(Entered) /\ Entered \in Seq(Chars)
  OBVIOUS
<1> DEFINE n == IF buffer[buf_index - 1] = Newline THEN buf_index - 1 ELSE buf_index
<1>1. n \in Nat /\ n <= buf_index /\ Length \in Nat
      /\ Kept = IF Length < n THEN Length ELSE n
  BY KeptIsEntered
<1>2. Entered = Typed(n)
  BY DEF Entered
<1> HIDE DEF n
<1>3. n \in 0 .. buf_index /\ buf_index \in Nat
  BY <1>1, ConstFacts DEF IInv, TypeOK
<1>4. /\ Entered \in Seq(Chars) /\ Len(Entered) = n
      /\ \A i \in 1 .. n : Entered[i] = buffer[i - 1]
  BY <1>2, <1>3, TypedType DEF IInv
<1>5. buffer[Length] = Nul /\ \A i \in 0 .. Length - 1 : buffer[i] # Nul
  BY LineType
<1>6. CASE Length < n
  <2>1. Length + 1 \in DOMAIN Entered /\ Entered[Length + 1] = Nul
    BY <1>1, <1>4, <1>5, <1>6
  <2>2. \A j \in 1 .. (Length + 1) - 1 : Entered[j] # Nul
    <3> SUFFICES ASSUME NEW j \in 1 .. Length PROVE Entered[j] # Nul
      BY <1>1
    <3>1. j \in 1 .. n /\ j - 1 \in 0 .. Length - 1
      BY <1>1, <1>6
    <3> QED BY <1>4, <1>5, <3>1
  <2>3. Abstract!Counted(Entered) = SubSeq(Entered, 1, (Length + 1) - 1)
    BY <1>4, <2>1, <2>2, BeforeFirst DEF Abstract!Counted
  <2>4. (Length + 1) - 1 = Length /\ Length <= Len(Entered)
    BY <1>1, <1>4, <1>6
  <2>5. SubSeq(Entered, 1, Length) = [i \in 1 .. Length |-> Entered[i]]
    BY <1>1, <1>4, <2>4, SubSeqProperties
  <2>6. \A i \in 1 .. Length : Entered[i] = buffer[i - 1]
    BY <1>1, <1>4, <1>6
  <2>7. Kept = Length
    BY <1>1, <1>6
  <2> QED BY <1>4, <2>3, <2>4, <2>5, <2>6, <2>7 DEF Line
<1>7. CASE ~ (Length < n)
  <2>1. \A i \in DOMAIN Entered : Entered[i] # Nul
    <3> SUFFICES ASSUME NEW i \in 1 .. n PROVE Entered[i] # Nul
      BY <1>4
    <3>1. i - 1 \in 0 .. Length - 1
      BY <1>1, <1>7
    <3> QED BY <1>4, <1>5, <3>1
  <2>2. Abstract!Counted(Entered) = Entered
    BY <1>4, <2>1, BeforeNone DEF Abstract!Counted
  <2>3. Kept = n
    BY <1>1, <1>7
  <2> QED BY <1>2, <1>4, <2>2, <2>3 DEF Line, Typed
<1> QED BY <1>6, <1>7

LEMMA BreakRange ==
  ASSUME NEW l \in Seq(Chars)
  PROVE  /\ Break(l) \in 1 .. Len(l) + 1
         /\ Splits(l) => l[Break(l)] = Space /\ Break(l) <= Len(l)
<1>1. CASE Splits(l)
  <2>1. \E i \in DOMAIN l : Stops(l, i)  BY <1>1 DEF Splits
  <2>2. Break(l) = CHOOSE i \in DOMAIN l : Stops(l, i)  BY <1>1 DEF Break
  <2>3. Break(l) \in DOMAIN l /\ Stops(l, Break(l))  BY <2>1, <2>2
  <2>4. Break(l) \in 1 .. Len(l)  BY <2>3
  <2> QED BY <2>3, <2>4 DEF Stops
<1>2. CASE ~ Splits(l)
  BY <1>2 DEF Break
<1> QED BY <1>1, <1>2

\* What split_str makes of a line are pieces of it.
LEMMA TokenTypes ==
  ASSUME NEW l \in Seq(Chars)
  PROVE  Token1(l) \in Seq(Chars) /\ Token2(l) \in Seq(Chars)
<1>1. Break(l) \in 1 .. Len(l) + 1 /\ Len(l) \in Nat  BY BreakRange
<1>2. \A i \in 1 .. Break(l) - 1 : l[i] \in Chars  BY <1>1
<1>3. Token1(l) \in Seq(Chars)
  BY <1>1, SubSeqProperties DEF Token1
<1>4. Token2(l) \in Seq(Chars)
  BY <1>1, SubSeqProperties DEF Token2
<1> QED BY <1>3, <1>4

LEMMA HeapType ==
  ASSUME NEW l \in Seq(Chars), NEW h \in Int
  PROVE  Split(l, h).heap \in Int
<1>1. \A n \in Nat, k \in Int : Left(n, k) \in Int  BY ConstFacts DEF Left
<1>2. Token1(l) \in Seq(Chars) /\ Token2(l) \in Seq(Chars)  BY TokenTypes
<1>3. Len(Token1(l)) + 1 \in Nat /\ Len(Token2(l)) + 1 \in Nat /\ TupleBytes \in Nat
  BY <1>2, ShellAssumption
<1> DEFINE h1 == Left(TupleBytes, h)
           h2 == Left(Len(Token1(l)) + 1, h1)
           h3 == IF Splits(l) THEN Left(Len(Token2(l)) + 1, h2) ELSE h2
<1>4. h1 \in Int  BY <1>1, <1>3
<1>5. h2 \in Int  BY <1>1, <1>3, <1>4
<1>6. h3 \in Int  BY <1>1, <1>3, <1>5
<1>7. Split(l, h).heap = IF ~ Served(TupleBytes, h) THEN h ELSE h3
  BY DEF Split
<1> HIDE DEF h3
<1> QED BY <1>6, <1>7

LEMMA DispatchTypes ==
  ASSUME NEW l \in Seq(Chars), NEW arg \in Seq(Chars), NEW h \in Int, NEW k \in Int,
         Dispatch(l, Split(l, h), arg, Split(arg, k))
  PROVE  /\ ran'.how \in Outcomes /\ ran'.name \in Seq(Chars) /\ ran'.args \in Seq(Chars)
         /\ heap' \in Int
<1> DEFINE s == Split(l, h)   w == Split(arg, k)
<1>1. s.heap \in Int /\ w.heap \in Int  BY HeapType
<1>2. \E o \in Outcomes : \E a \in {<<>>, arg} : ran' = Did(o, l, a)
  BY DEF Dispatch, Outcomes
<1>3. \E u \in HandlerUse \cup {0} : heap' = s.heap - u \/ heap' = w.heap - u
  <2>1. \/ heap' = s.heap
        \/ \E u \in HandlerUse : heap' = s.heap - u
        \/ \E u \in HandlerUse : heap' = w.heap - u
    BY DEF Dispatch
  <2>2. s.heap = s.heap - 0  BY <1>1
  <2> HIDE DEF s, w
  <2> QED BY <2>1, <2>2
<1> HIDE DEF s, w
<1>4. heap' \in Int  BY <1>1, <1>3, ConstFacts
<1>5. Token1(l) \in Seq(Chars)  BY TokenTypes
<1>6. <<>> \in Seq(Chars)  OBVIOUS
<1>7. PICK o \in Outcomes, a \in {<<>>, arg} : ran' = Did(o, l, a)  BY <1>2
<1>8. ran'.how = o /\ ran'.name = Token1(l) /\ ran'.args = a  BY <1>7 DEF Did
<1> QED BY <1>4, <1>5, <1>6, <1>8

LEMMA HandleInv == IInv /\ Handle => IInv'
<1> SUFFICES ASSUME IInv, Handle PROVE IInv'  OBVIOUS
<1>1. pc = "handle" /\ pc' = "prompt" /\ UNCHANGED <<fifo, buf_index>>  BY DEF Handle
<1>2. Line \in Seq(Chars) /\ heap \in Int  BY <1>1, LineType DEF IInv, TypeOK
<1>3. buffer' \in [0 .. MaxCmd - 1 -> Chars]
  <2>1. buffer \in [0 .. MaxCmd - 1 -> Chars]  BY DEF IInv, TypeOK
  <2>2. buffer' = [i \in DOMAIN buffer |-> IF i \in Kept .. Length - 1 THEN Nul ELSE buffer[i]]
    BY DEF Handle
  <2> QED BY <2>1, <2>2, ConstFacts
<1>4. PICK arg \in {IF Split(Line, heap).arg THEN Token2(Line) ELSE <<>>} :
        Dispatch(Line, Split(Line, heap), arg, Split(arg, Split(Line, heap).heap))
  BY DEF Handle
<1>5. arg \in Seq(Chars)
  <2>1. Token2(Line) \in Seq(Chars) /\ <<>> \in Seq(Chars)  BY <1>2, TokenTypes
  <2> QED BY <2>1
<1>6. Split(Line, heap).heap \in Int  BY <1>2, HeapType
<1>7. /\ ran'.how \in Outcomes /\ ran'.name \in Seq(Chars) /\ ran'.args \in Seq(Chars)
      /\ heap' \in Int
  BY <1>2, <1>4, <1>5, <1>6, DispatchTypes
<1>8. TypeOK'  BY <1>1, <1>3, <1>7 DEF IInv, TypeOK
<1>9. Closed'  BY <1>1 DEF Closed
<1> QED BY <1>8, <1>9 DEF IInv

LEMMA PromptInv == IInv /\ Prompt => IInv'
<1> SUFFICES ASSUME IInv, Prompt PROVE IInv'  OBVIOUS
<1>1. /\ buf_index' = 0 /\ ran' = Nothing /\ pc' = "poll"
      /\ UNCHANGED <<fifo, buffer, heap>>
  BY DEF Prompt
<1>2. ran'.how \in Outcomes /\ ran'.name \in Seq(Chars) /\ ran'.args \in Seq(Chars)
  BY <1>1 DEF Nothing, Outcomes
<1>3. 0 \in 0 .. MaxCmd - 1  BY ConstFacts
<1>4. TypeOK'  BY <1>1, <1>2, <1>3 DEF IInv, TypeOK
<1>5. Closed'  BY <1>1 DEF Closed
<1> QED BY <1>4, <1>5 DEF IInv

LEMMA NextInv == IInv /\ [Next]_vars => IInv'
<1> SUFFICES ASSUME IInv, [Next]_vars PROVE IInv'  OBVIOUS
<1>1. ASSUME NEW c \in Chars, Receive(c) PROVE IInv'  BY <1>1, ReceiveInv
<1>2. CASE Poll  BY <1>2, PollInv
<1>3. CASE Handle  BY <1>3, HandleInv
<1>4. CASE Prompt  BY <1>4, PromptInv
<1>5. CASE UNCHANGED vars  BY <1>5 DEF vars, IInv, TypeOK, Closed
<1> QED BY <1>1, <1>2, <1>3, <1>4, <1>5 DEF Next

THEOREM Invariance == Spec => []IInv
<1>1. Init => IInv  BY InitInv
<1>2. IInv /\ [Next]_vars => IInv'  BY NextInv
<1> QED BY <1>1, <1>2, PTL DEF Spec

\* The loop never writes outside its buffer, whatever is typed and however large
\* the buffer is.
THEOREM TypeCorrect == Spec => []TypeOK
<1>1. IInv => TypeOK  BY DEF IInv
<1> QED BY <1>1, Invariance, PTL

\* handle_cmd gets what the loop stored since the last prompt, or the part of it
\* before a NUL typed, and nothing of a line before.
THEOREM LineIsWhole == Spec => []LineWhole
<1>1. IInv => LineWhole
  <2> SUFFICES ASSUME IInv, pc = "handle"
               PROVE  /\ Length <= buf_index
                      /\ \A i \in 0 .. Length - 1 : buffer[i] = Newline => i = buf_index - 1
    BY DEF LineWhole
  <2>1. Length \in 0 .. buf_index /\ buf_index \in Nat
    BY LineType, ConstFacts DEF IInv, TypeOK
  <2>2. \A i \in 0 .. Length - 1 : i \in 0 .. buf_index - 1
    BY <2>1
  <2> QED BY <2>1, <2>2 DEF IInv, Closed
<1> QED BY <1>1, Invariance, PTL

-----------------------------------------------------------------------------
\* Sent is a fold of Takes over the FIFO.  Its recursive function is given by
\* CHOOSE: that it exists, and that it is the only one, is induction over the
\* length of the FIFO.
States == [todo : Seq(Seq(Chars)), cur : Seq(Chars)]

\* g[i] is what the first i characters of q make of s.
IsFold(g, s, q) ==
  g = [i \in 0 .. Len(q) |-> IF i = 0 THEN s ELSE Takes(g[i - 1], q[i])]

Fold(s, q) == (CHOOSE g : IsFold(g, s, q))[Len(q)]

LEMMA SentIsFold == Sent = Fold(Start, fifo) /\ Sent' = Fold(Start', fifo')
BY DEF Sent, Fold, IsFold

LEMMA TakesType ==
  ASSUME NEW s \in States, NEW c \in Chars
  PROVE  Takes(s, c) \in States
<1>1. /\ s.todo \in Seq(Seq(Chars)) /\ s.cur \in Seq(Chars)
      /\ s = [todo |-> s.todo, cur |-> s.cur]
  BY DEF States
<1>2. Append(s.todo, s.cur) \in Seq(Seq(Chars)) /\ Append(s.cur, c) \in Seq(Chars)
      /\ <<>> \in Seq(Chars)
  BY <1>1
<1> QED BY <1>1, <1>2 DEF Takes, States

\* The values of a fold, one by one.
LEMMA FoldAt ==
  ASSUME NEW g, NEW s, NEW q, Len(q) \in Nat, IsFold(g, s, q)
  PROVE  /\ g[0] = s
         /\ \A i \in 1 .. Len(q) : g[i] = Takes(g[i - 1], q[i])
<1>1. \A i \in 0 .. Len(q) : g[i] = IF i = 0 THEN s ELSE Takes(g[i - 1], q[i])
  BY DEF IsFold
<1> QED BY <1>1

\* There is one.
LEMMA FoldExists ==
  ASSUME NEW s, NEW q, Len(q) \in Nat
  PROVE  \E g : IsFold(g, s, q)
<1> DEFINE Upto(g, n) == g = [i \in 0 .. n |-> IF i = 0 THEN s ELSE Takes(g[i - 1], q[i])]
           N == {n \in Nat : \E g : Upto(g, n)}
<1>1. 0 \in N
  <2> DEFINE g == [i \in 0 .. 0 |-> s]
  <2>1. Upto(g, 0)
    OBVIOUS
  <2> HIDE DEF g, Upto
  <2> QED BY <2>1
<1>2. ASSUME NEW n \in Nat, n \in N PROVE n + 1 \in N
  <2>1. PICK g : Upto(g, n)
    BY <1>2
  <2>2. \A i \in 0 .. n : g[i] = IF i = 0 THEN s ELSE Takes(g[i - 1], q[i])
    BY <2>1
  <2> DEFINE h == [i \in 0 .. n + 1 |-> IF i = 0 THEN s ELSE Takes(g[i - 1], q[i])]
  <2>3. \A i \in 0 .. n : h[i] = g[i]
    BY <2>2
  <2>4. \A i \in 0 .. n + 1 : h[i] = IF i = 0 THEN s ELSE Takes(h[i - 1], q[i])
    <3> SUFFICES ASSUME NEW i \in 0 .. n + 1, i # 0
                 PROVE  h[i] = Takes(h[i - 1], q[i])
      OBVIOUS
    <3>1. h[i] = Takes(g[i - 1], q[i])
      OBVIOUS
    <3> HIDE DEF h
    <3>2. i - 1 \in 0 .. n
      OBVIOUS
    <3> QED BY <2>3, <3>1, <3>2
  <2>5. Upto(h, n + 1)
    <3>1. h = [i \in 0 .. n + 1 |-> h[i]]
      OBVIOUS
    <3> HIDE DEF h
    <3> QED BY <2>4, <3>1
  <2> HIDE DEF h, Upto
  <2> QED BY <2>5
<1>3. Len(q) \in N
  <2> HIDE DEF N
  <2> QED BY <1>1, <1>2, NatInductionOnSet
<1> QED BY <1>3 DEF IsFold

\* And no other.
LEMMA FoldUnique ==
  ASSUME NEW g, NEW s, NEW q, Len(q) \in Nat, IsFold(g, s, q)
  PROVE  Fold(s, q) = g[Len(q)]
<1> DEFINE h == CHOOSE f : IsFold(f, s, q)
           N == {n \in Nat : n <= Len(q) => h[n] = g[n]}
<1>1. IsFold(h, s, q)
  BY FoldExists
<1> HIDE DEF h
<1>2. 0 \in N
  BY <1>1, FoldAt
<1>3. ASSUME NEW n \in Nat, n \in N PROVE n + 1 \in N
  <2> SUFFICES ASSUME n + 1 <= Len(q) PROVE h[n + 1] = g[n + 1]
    OBVIOUS
  <2>1. n + 1 \in 1 .. Len(q) /\ (n + 1) - 1 = n /\ h[n] = g[n]
    BY <1>3
  <2>2. h[n + 1] = Takes(h[n], q[n + 1]) /\ g[n + 1] = Takes(g[n], q[n + 1])
    BY <1>1, <2>1, FoldAt
  <2> QED BY <2>1, <2>2
<1>4. Len(q) \in N
  <2> HIDE DEF N
  <2> QED BY <1>2, <1>3, NatInductionOnSet
<1>5. h[Len(q)] = g[Len(q)]
  BY <1>4
<1> QED BY <1>5 DEF Fold, h

\* What a fold is: its functions, picked.
LEMMA FoldPick ==
  ASSUME NEW s, NEW q, Len(q) \in Nat
  PROVE  \E g : IsFold(g, s, q) /\ Fold(s, q) = g[Len(q)]
BY FoldExists, FoldUnique

LEMMA FoldEmpty == ASSUME NEW s PROVE Fold(s, <<>>) = s
<1>1. Len(<<>>) = 0
  OBVIOUS
<1>2. PICK g : IsFold(g, s, <<>>) /\ Fold(s, <<>>) = g[0]
  BY <1>1, FoldPick
<1> QED BY <1>1, <1>2, FoldAt

\* A character received is taken last.
LEMMA FoldAppend ==
  ASSUME NEW s, NEW q \in Seq(Chars), NEW c \in Chars
  PROVE  Fold(s, Append(q, c)) = Takes(Fold(s, q), c)
<1> DEFINE n == Len(q)
           r == Append(q, c)
<1>1. n \in Nat /\ Len(r) = n + 1 /\ r[n + 1] = c /\ \A i \in 1 .. n : r[i] = q[i]
  OBVIOUS
<1>2. PICK g : IsFold(g, s, q) /\ Fold(s, q) = g[n]
  BY <1>1, FoldPick
<1> HIDE DEF n, r
<1> DEFINE h == [i \in 0 .. n + 1 |-> IF i = n + 1 THEN Takes(g[n], c) ELSE g[i]]
<1>3. /\ \A i \in 0 .. n : h[i] = g[i]
      /\ h[n + 1] = Takes(g[n], c)
  BY <1>1
<1>4. /\ g[0] = s
      /\ \A i \in 1 .. n : g[i] = Takes(g[i - 1], q[i])
  BY <1>1, <1>2, FoldAt DEF n
<1>5. \A i \in 0 .. n + 1 : h[i] = IF i = 0 THEN s ELSE Takes(h[i - 1], r[i])
  <2> SUFFICES ASSUME NEW i \in 0 .. n + 1
               PROVE  h[i] = IF i = 0 THEN s ELSE Takes(h[i - 1], r[i])
    OBVIOUS
  <2> HIDE DEF h
  <2>1. CASE i = 0
    BY <1>1, <1>3, <1>4, <2>1
  <2>2. CASE i \in 1 .. n
    <3>1. i - 1 \in 0 .. n /\ i \in 0 .. n /\ i # 0
      BY <1>1, <2>2
    <3> QED BY <1>1, <1>3, <1>4, <2>2, <3>1
  <2>3. CASE i = n + 1
    <3>1. i - 1 = n /\ n \in 0 .. n /\ i # 0
      BY <1>1, <2>3
    <3> QED BY <1>1, <1>3, <2>3, <3>1
  <2> QED BY <1>1, <2>1, <2>2, <2>3
<1>6. h = [i \in 0 .. n + 1 |-> h[i]]
  OBVIOUS
<1> HIDE DEF h
<1>7. IsFold(h, s, r)
  BY <1>1, <1>5, <1>6 DEF IsFold
<1>8. Fold(s, r) = h[n + 1]
  BY <1>1, <1>7, FoldUnique
<1> QED BY <1>2, <1>3, <1>8 DEF r

\* A character read is taken first.
LEMMA FoldTail ==
  ASSUME NEW s, NEW q \in Seq(Chars), q # <<>>
  PROVE  Fold(Takes(s, Head(q)), Tail(q)) = Fold(s, q)
<1> DEFINE n == Len(q)
           r == Tail(q)
<1>1. /\ n \in Nat /\ n > 0 /\ Len(r) = n - 1 /\ Len(r) \in Nat
      /\ Head(q) = q[1] /\ \A i \in 1 .. n - 1 : r[i] = q[i + 1]
  OBVIOUS
<1>2. PICK g : IsFold(g, s, q) /\ Fold(s, q) = g[n]
  BY <1>1, FoldPick
<1> HIDE DEF r
<1>3. g[0] = s /\ \A i \in 1 .. n : g[i] = Takes(g[i - 1], q[i])
  BY <1>1, <1>2, FoldAt
<1> HIDE DEF n
<1> DEFINE h == [i \in 0 .. n - 1 |-> g[i + 1]]
<1>4. \A i \in 0 .. n - 1 :
        h[i] = IF i = 0 THEN Takes(s, Head(q)) ELSE Takes(h[i - 1], r[i])
  <2> SUFFICES ASSUME NEW i \in 0 .. n - 1
               PROVE  h[i] = IF i = 0 THEN Takes(s, Head(q)) ELSE Takes(h[i - 1], r[i])
    OBVIOUS
  <2>1. /\ i + 1 \in 1 .. n /\ (i + 1) - 1 = i
        /\ i # 0 => i - 1 \in 0 .. n - 1 /\ (i - 1) + 1 = i /\ i \in 1 .. n - 1
    BY <1>1
  <2>2. h[i] = g[i + 1] /\ (i # 0 => h[i - 1] = g[i])
    BY <2>1
  <2> HIDE DEF h
  <2>3. g[i + 1] = Takes(g[i], q[i + 1])
    BY <1>3, <2>1
  <2> QED BY <1>1, <1>3, <2>1, <2>2, <2>3
<1>5. h = [i \in 0 .. n - 1 |-> h[i]] /\ h[n - 1] = g[n]
  BY <1>1
<1> HIDE DEF h
<1>6. IsFold(h, Takes(s, Head(q)), r)
  BY <1>1, <1>4, <1>5 DEF IsFold
<1>7. Fold(Takes(s, Head(q)), r) = h[n - 1]
  BY <1>1, <1>6, FoldUnique
<1> QED BY <1>2, <1>5, <1>7 DEF r

\* Folds keep their type, and a line already complete stays in front.
Behind(l, s) == [todo |-> <<l>> \o s.todo, cur |-> s.cur]

LEMMA AppendBehind ==
  ASSUME NEW S, NEW t \in Seq(S), NEW l \in S, NEW x \in S
  PROVE  Append(<<l>> \o t, x) = <<l>> \o Append(t, x)
<1>1. <<l>> \in Seq(S) /\ <<x>> \in Seq(S)
  OBVIOUS
<1>2. <<l>> \o t \in Seq(S)
  BY <1>1, ConcatProperties
<1>3. Append(<<l>> \o t, x) = (<<l>> \o t) \o <<x>>
  BY <1>2, AppendIsConcat
<1>4. Append(t, x) = t \o <<x>>
  BY AppendIsConcat
<1>5. (<<l>> \o t) \o <<x>> = <<l>> \o (t \o <<x>>)
  BY <1>1, ConcatAssociative
<1> QED BY <1>3, <1>4, <1>5

LEMMA TakesBehind ==
  ASSUME NEW s \in States, NEW c \in Chars, NEW l \in Seq(Chars)
  PROVE  Takes(Behind(l, s), c) = Behind(l, Takes(s, c))
<1>1. s.todo \in Seq(Seq(Chars)) /\ s.cur \in Seq(Chars) /\ <<l>> \in Seq(Seq(Chars))
  BY DEF States
<1>2. Append(<<l>> \o s.todo, s.cur) = <<l>> \o Append(s.todo, s.cur)
  BY <1>1, AppendBehind
<1>3. CASE c = Newline
  BY <1>2, <1>3 DEF Takes, Behind
<1>4. CASE c # Newline /\ Len(s.cur) < MaxCmd - 1
  <2>1. Takes(s, c) = [todo |-> s.todo, cur |-> Append(s.cur, c)]
    BY <1>4 DEF Takes, States
  <2>2. Takes(Behind(l, s), c) = [todo |-> <<l>> \o s.todo, cur |-> Append(s.cur, c)]
    BY <1>4 DEF Takes, Behind
  <2> QED BY <2>1, <2>2 DEF Behind
<1>5. CASE c # Newline /\ ~ (Len(s.cur) < MaxCmd - 1)
  BY <1>5 DEF Takes, Behind
<1> QED BY <1>3, <1>4, <1>5

LEMMA FoldBehind ==
  ASSUME NEW s \in States, NEW q \in Seq(Chars), NEW l \in Seq(Chars)
  PROVE  Fold(s, q) \in States /\ Fold(Behind(l, s), q) = Behind(l, Fold(s, q))
<1>1. Len(q) \in Nat /\ \A i \in 1 .. Len(q) : q[i] \in Chars
  OBVIOUS
<1>2. PICK g : IsFold(g, s, q) /\ Fold(s, q) = g[Len(q)]
  BY <1>1, FoldPick
<1>3. PICK h : IsFold(h, Behind(l, s), q) /\ Fold(Behind(l, s), q) = h[Len(q)]
  BY <1>1, FoldPick
<1>4. g[0] = s /\ h[0] = Behind(l, s)
  BY <1>1, <1>2, <1>3, FoldAt
<1>5. \A i \in 1 .. Len(q) : g[i] = Takes(g[i - 1], q[i]) /\ h[i] = Takes(h[i - 1], q[i])
  BY <1>1, <1>2, <1>3, FoldAt
<1> DEFINE N == {n \in Nat : n <= Len(q) => g[n] \in States /\ h[n] = Behind(l, g[n])}
<1>6. 0 \in N
  BY <1>4
<1>7. ASSUME NEW n \in Nat, n \in N PROVE n + 1 \in N
  <2> SUFFICES ASSUME n + 1 <= Len(q)
               PROVE  g[n + 1] \in States /\ h[n + 1] = Behind(l, g[n + 1])
    OBVIOUS
  <2>1. /\ n + 1 \in 1 .. Len(q) /\ (n + 1) - 1 = n
        /\ g[n] \in States /\ h[n] = Behind(l, g[n])
    BY <1>1, <1>7
  <2>2. g[n + 1] = Takes(g[n], q[n + 1]) /\ h[n + 1] = Takes(h[n], q[n + 1])
    BY <1>5, <2>1
  <2> QED BY <1>1, <2>1, <2>2, TakesType, TakesBehind
<1>8. Len(q) \in N
  <2> HIDE DEF N
  <2> QED BY <1>1, <1>6, <1>7, NatInductionOnSet
<1> QED BY <1>1, <1>2, <1>3, <1>8

-----------------------------------------------------------------------------
\* What the loop has to do before and after each step.

\* The line so far, as poll_cli_input holds it.
LEMMA StartType ==
  ASSUME IInv
  PROVE  Start \in States
<1>1. pc = "handle" => Entered \in Seq(Chars)
  BY LineCounted
<1>2. pc = "handle" => <<Entered>> \in Seq(Seq(Chars))
  BY <1>1
<1>3. pc = "poll" => Typed(buf_index) \in Seq(Chars)
  <2>1. buf_index \in 0 .. buf_index
    BY ConstFacts DEF IInv, TypeOK
  <2> QED BY <2>1, TypedType DEF IInv
<1>4. <<>> \in Seq(Chars) /\ <<>> \in Seq(Seq(Chars))
  OBVIOUS
<1> QED BY <1>2, <1>3, <1>4 DEF Start, States

\* The line handed to handle_cmd is the one typed before the newline.
LEMMA LineTyped ==
  ASSUME IInv, IInv', Poll, pc' = "handle"
  PROVE  Entered' = Typed(buf_index)
<1>1. PICK c \in Chars :
        /\ pc' = IF EndsLine(c) THEN "handle" ELSE "poll"
        /\ \/ HasRoom /\ buffer' = Stored(c) /\ buf_index' = buf_index + 1
           \/ ~ HasRoom /\ UNCHANGED <<buffer, buf_index>>
  BY DEF Poll
<1>2. c = Newline /\ pc = "poll" /\ buf_index \in Nat
  BY <1>1, ConstFacts DEF EndsLine, Poll, IInv, TypeOK
<1>3. CASE HasRoom /\ buffer' = Stored(c) /\ buf_index' = buf_index + 1
  <2>1. buffer'[buf_index] = c /\ \A i \in 0 .. buf_index - 1 : buffer'[i] = buffer[i]
    BY <1>3, StoredFits DEF IInv
  <2>2. buf_index' - 1 = buf_index
    BY <1>2, <1>3
  <2>3. Entered' = [i \in 1 .. buf_index |-> buffer'[i - 1]]
    BY <1>2, <2>1, <2>2 DEF Entered, Typed
  <2>4. \A i \in 1 .. buf_index : i - 1 \in 0 .. buf_index - 1
    BY <1>2
  <2> QED BY <2>1, <2>3, <2>4 DEF Typed
<1>4. CASE ~ HasRoom /\ UNCHANGED <<buffer, buf_index>>
  <2>1. buf_index - 1 \in 0 .. buf_index - 1
    BY <1>4, ConstFacts DEF HasRoom, IInv, TypeOK
  <2>2. buffer[buf_index - 1] # Newline
    BY <1>2, <2>1 DEF IInv, Closed
  <2> QED BY <1>4, <2>2 DEF Entered, Typed
<1> QED BY <1>1, <1>3, <1>4

\* A character read is taken by the line buffer as Takes says, with room for it
\* or without.
LEMMA PollTakes ==
  ASSUME IInv, IInv', Poll
  PROVE  Start' = Takes(Start, Head(fifo))
<1> DEFINE typed == Typed(buf_index)
<1>1. PICK c \in Chars :
        /\ c = Head(fifo)
        /\ pc' = IF EndsLine(c) THEN "handle" ELSE "poll"
        /\ \/ HasRoom /\ buffer' = Stored(c) /\ buf_index' = buf_index + 1
           \/ ~ HasRoom /\ UNCHANGED <<buffer, buf_index>>
  BY DEF Poll, Read
<1>2. pc = "poll" /\ buf_index \in Nat
  BY ConstFacts DEF Poll, IInv, TypeOK
<1>3. Start = [todo |-> <<>>, cur |-> typed] /\ typed \in Seq(Chars) /\ Len(typed) = buf_index
  <2>1. Start = [todo |-> <<>>, cur |-> typed]
    BY <1>2 DEF Start
  <2>2. typed \in Seq(Chars)
    BY <2>1, StartType DEF States
  <2>3. buf_index \in 0 .. buf_index
    BY <1>2
  <2> QED BY <2>1, <2>2, <2>3, TypedType DEF IInv
<1>4. CASE c = Newline
  <2>1. pc' = "handle" /\ Entered' = typed
    BY <1>1, <1>4, LineTyped DEF EndsLine
  <2>2. Start' = [todo |-> <<typed>>, cur |-> <<>>]
    BY <2>1 DEF Start
  <2>3. Takes(Start, c) = [todo |-> Append(<<>>, typed), cur |-> <<>>]
    BY <1>3, <1>4 DEF Takes
  <2>4. Append(<<>>, typed) = <<typed>>
    OBVIOUS
  <2> QED BY <1>1, <2>2, <2>3, <2>4
<1>5. CASE c # Newline /\ HasRoom
  <2>1. pc' = "poll" /\ buf_index' = buf_index + 1 /\ buffer' = Stored(c)
    BY <1>1, <1>5 DEF EndsLine
  <2>2. buffer'[buf_index] = c /\ \A i \in 0 .. buf_index - 1 : buffer'[i] = buffer[i]
    BY <1>5, <2>1, StoredFits DEF IInv
  <2>3. Typed(buf_index)' = Append(typed, c)
    <3> DEFINE longer == Typed(buf_index)'
    <3>1. longer = [i \in 1 .. buf_index + 1 |-> buffer'[i - 1]]
      BY <2>1 DEF Typed
    <3>2. longer \in Seq(Chars)
      <4>1. Start'.cur = longer
        BY <2>1 DEF Start
      <4>2. (IInv => Start \in States)'
        BY StartType, PTL
      <4> QED BY <4>1, <4>2 DEF States
    <3>3. Append(typed, c) \in Seq(Chars) /\ Len(Append(typed, c)) = buf_index + 1
      <4> HIDE DEF typed
      <4> QED BY <1>3, AppendProperties
    <3>4. Len(longer) = buf_index + 1
      <4> HIDE DEF longer
      <4> QED BY <1>2, <3>1, <3>2
    <3>5. ASSUME NEW i \in 1 .. buf_index + 1 PROVE longer[i] = Append(typed, c)[i]
      <4>1. longer[i] = buffer'[i - 1]
        BY <3>1
      <4> HIDE DEF longer
      <4>2. CASE i = buf_index + 1
        <5> HIDE DEF typed
        <5> QED BY <1>2, <1>3, <2>2, <4>1, <4>2, AppendProperties
      <4>3. CASE i # buf_index + 1
        <5>1. i \in 1 .. buf_index /\ i - 1 \in 0 .. buf_index - 1
          BY <1>2, <4>3
        <5>2. longer[i] = buffer[i - 1] /\ typed[i] = buffer[i - 1]
          BY <2>2, <4>1, <5>1 DEF Typed
        <5>3. Append(typed, c)[i] = typed[i]
          <6> HIDE DEF typed
          <6> QED BY <1>2, <1>3, <5>1
        <5> QED BY <5>2, <5>3
      <4> QED BY <4>2, <4>3
    <3> HIDE DEF longer, typed
    <3>6. longer = Append(typed, c)
      BY <3>2, <3>3, <3>4, <3>5, SeqEqual
    <3> QED BY <3>6 DEF longer
  <2>4. Start' = [todo |-> <<>>, cur |-> Append(typed, c)]
    BY <2>1, <2>3 DEF Start
  <2>5. Len(typed) < MaxCmd - 1
    BY <1>3, <1>5 DEF HasRoom
  <2> HIDE DEF typed
  <2>6. Takes(Start, c) = [todo |-> <<>>, cur |-> Append(typed, c)]
    BY <1>3, <1>5, <2>5 DEF Takes
  <2> QED BY <1>1, <2>4, <2>6
<1>6. CASE c # Newline /\ ~ HasRoom
  <2>1. pc' = "poll" /\ buf_index' = buf_index /\ buffer' = buffer
    BY <1>1, <1>6 DEF EndsLine
  <2>2. Start' = Start
    BY <1>2, <2>1 DEF Start, Typed
  <2>3. ~ (Len(Start.cur) < MaxCmd - 1)
    BY <1>3, <1>6 DEF HasRoom
  <2> QED BY <1>1, <1>6, <2>2, <2>3 DEF Takes
<1> QED BY <1>4, <1>5, <1>6

-----------------------------------------------------------------------------
\* split_str and what the shell promises of words.

\* The loop of split_str stops at the first space.
LEMMA TokensAreWords ==
  ASSUME NEW l \in Seq(Chars)
  PROVE  /\ Abstract!First(l) = Token1(l) /\ Abstract!Rest(l) = Token2(l)
         /\ Abstract!Places(Space, l) = {} <=> ~ Splits(l)
<1>1. DOMAIN l = 1 .. Len(l) /\ Len(l) \in Nat
  OBVIOUS
<1>2. Abstract!Places(Space, l) = {} <=> ~ Splits(l)
  <2>1. Splits(l) => Abstract!Places(Space, l) # {}
    BY DEF Splits, Stops, Abstract!Places
  <2>2. ASSUME Abstract!Places(Space, l) # {} PROVE Splits(l)
    <3> DEFINE T == Abstract!Places(Space, l)
    <3>1. T \in SUBSET Nat /\ T = {i \in 1 .. Len(l) : l[i] = Space}
      BY <1>1 DEF Abstract!Places
    <3> HIDE DEF T
    <3>2. PICK i \in T : \A j \in T : i <= j
      BY <2>2, <3>1, SmallestNumber DEF T
    <3>3. ASSUME NEW j \in 1 .. i - 1 PROVE l[j] # Space
      <4>1. i \in 1 .. Len(l) /\ j \in 1 .. Len(l) /\ ~ (i <= j)
        BY <1>1, <3>1
      <4> QED BY <3>1, <3>2, <4>1
    <3> QED BY <1>1, <3>1, <3>3 DEF Splits, Stops
  <2> QED BY <2>1, <2>2
<1>3. CASE Splits(l)
  <2>1. Break(l) \in DOMAIN l /\ Stops(l, Break(l))
    <3>1. Break(l) = CHOOSE i \in DOMAIN l : Stops(l, i)
      BY <1>3 DEF Break
    <3> QED BY <1>3, <3>1 DEF Splits
  <2>2. Abstract!First(l) = Token1(l)
    BY <2>1, BeforeFirst DEF Abstract!First, Token1, Stops
  <2>3. Len(Token1(l)) = Break(l) - 1
    <3>1. \A i \in 1 .. Break(l) - 1 : l[i] \in Chars
      BY <1>1, <2>1
    <3>2. Len(Token1(l)) = IF 1 <= Break(l) - 1 THEN (Break(l) - 1) - 1 + 1 ELSE 0
      BY <1>1, <2>1, <3>1, SubSeqProperties DEF Token1
    <3> QED BY <1>1, <2>1, <3>2
  <2>4. Len(Abstract!First(l)) + 2 = Break(l) + 1
    BY <1>1, <2>1, <2>2, <2>3
  <2> QED BY <1>2, <2>2, <2>4 DEF Abstract!Rest, Token2
<1>4. CASE ~ Splits(l)
  <2>1. Abstract!First(l) = l
    BY <1>2, <1>4 DEF Abstract!First, Abstract!Before
  <2>2. Break(l) = Len(l) + 1
    BY <1>4 DEF Break
  <2>3. Token1(l) = l
    <3>1. Break(l) - 1 = Len(l)
      BY <1>1, <2>2
    <3> QED BY <3>1, SubSeqFull DEF Token1
  <2>4. Len(Abstract!First(l)) + 2 = Break(l) + 1
    BY <1>1, <2>1, <2>2
  <2> QED BY <1>2, <2>1, <2>3, <2>4 DEF Abstract!Rest, Token2
<1> QED BY <1>3, <1>4

\* The tokens and the space between them are no longer than the line, and a
\* line without a space has no second one.
LEMMA TokenLengths ==
  ASSUME NEW l \in Seq(Chars)
  PROVE  /\ Len(Token1(l)) \in Nat /\ Len(Token2(l)) \in Nat
         /\ Len(Token1(l)) <= Len(l) /\ Len(Token2(l)) <= Len(l)
         /\ Splits(l) => Len(Token1(l)) + Len(Token2(l)) + 1 <= Len(l)
         /\ ~ Splits(l) => Token2(l) = <<>>
<1>1. /\ Len(l) \in Nat /\ \A i \in 1 .. Len(l) : l[i] \in Chars
      /\ Break(l) \in 1 .. Len(l) + 1
      /\ Splits(l) => Break(l) <= Len(l)
      /\ ~ Splits(l) => Break(l) = Len(l) + 1
  <2>1. Len(l) \in Nat /\ \A i \in 1 .. Len(l) : l[i] \in Chars
    OBVIOUS
  <2>2. ~ Splits(l) => Break(l) = Len(l) + 1
    BY DEF Break
  <2> QED BY <2>1, <2>2, BreakRange
<1>2. Len(Token1(l)) = IF 1 <= Break(l) - 1 THEN (Break(l) - 1) - 1 + 1 ELSE 0
  <2>1. \A i \in 1 .. Break(l) - 1 : l[i] \in Chars
    BY <1>1
  <2> QED BY <1>1, <2>1, SubSeqProperties DEF Token1
<1>3. Len(Token2(l)) = IF Break(l) + 1 <= Len(l) THEN Len(l) - (Break(l) + 1) + 1 ELSE 0
  <2>1. \A i \in Break(l) + 1 .. Len(l) : l[i] \in Chars
    BY <1>1
  <2> QED BY <1>1, <2>1, SubSeqProperties DEF Token2
<1>4. ~ Splits(l) => Token2(l) = <<>>
  BY <1>1, SubSeqEmpty DEF Token2
<1> QED BY <1>1, <1>2, <1>3, <1>4

\* The most a split takes from the heap.
SplitUse == TupleBytes + 3 * Header + MaxCmd

\* split_str never gives memory back; with enough of it, all it asks for is served.
LEMMA SplitServed ==
  ASSUME NEW l \in Seq(Chars), NEW h \in Int
  PROVE  /\ Split(l, h).heap \in Int /\ Split(l, h).heap <= h
         /\ Split(l, h).arg => Splits(l)
         /\ h >= SplitUse /\ Len(l) <= MaxCmd - 1 =>
              /\ Split(l, h).ok /\ (Splits(l) => Split(l, h).arg)
              /\ Split(l, h).heap >= h - SplitUse
<1> DEFINE a == Len(Token1(l)) + 1
           b == Len(Token2(l)) + 1
           h1 == Left(TupleBytes, h)
           h2 == Left(a, h1)
           h3 == IF Splits(l) THEN Left(b, h2) ELSE h2
<1>1. /\ a \in Nat /\ b \in Nat /\ Len(l) \in Nat
      /\ a <= Len(l) + 1
      /\ Splits(l) => a + b <= Len(l) + 1
  BY TokenLengths
<1>2. MaxCmd \in Nat /\ TupleBytes \in Nat /\ Header \in Nat
  BY ShellAssumption
<1>3. /\ ~ Served(TupleBytes, h) => Split(l, h) = [ok |-> FALSE, arg |-> FALSE, heap |-> h]
      /\ Served(TupleBytes, h) =>
           Split(l, h) = [ok |-> Served(a, h1), arg |-> Splits(l) /\ Served(b, h2), heap |-> h3]
  BY DEF Split
<1> HIDE DEF a, b
<1>4. h1 \in Int /\ h1 <= h /\ (h >= SplitUse => h1 = h - TupleBytes - Header)
  BY <1>2 DEF Left, Served, SplitUse
<1> HIDE DEF h1
<1>5. /\ h2 \in Int /\ h2 <= h
      /\ h >= SplitUse /\ Len(l) <= MaxCmd - 1 =>
           Served(a, h1) /\ h2 = h - TupleBytes - a - 2 * Header
  BY <1>1, <1>2, <1>4 DEF Left, Served, SplitUse
<1> HIDE DEF h2
<1>6. /\ h3 \in Int /\ h3 <= h
      /\ h >= SplitUse /\ Len(l) <= MaxCmd - 1 =>
           /\ Splits(l) => Served(b, h2)
           /\ h3 >= h - SplitUse
  BY <1>1, <1>2, <1>5 DEF Left, Served, SplitUse
<1> HIDE DEF h3
<1>7. CASE Served(TupleBytes, h)
  <2>1. /\ Split(l, h).ok = Served(a, h1)
        /\ Split(l, h).arg = (Splits(l) /\ Served(b, h2))
        /\ Split(l, h).heap = h3
    BY <1>3, <1>7
  <2> QED BY <1>5, <1>6, <2>1
<1>8. CASE ~ Served(TupleBytes, h)
  <2>1. ~ (h >= SplitUse)
    BY <1>2, <1>8 DEF Served, SplitUse
  <2> QED BY <1>3, <1>8, <2>1
<1> QED BY <1>7, <1>8

\* What becomes of a line is what the shell promises; a short heap excuses the
\* rest.
LEMMA DispatchPromised ==
  ASSUME NEW l \in Seq(Chars), Len(l) <= MaxCmd - 1, NEW arg, heap \in Int,
         arg = IF Split(l, heap).arg THEN Token2(l) ELSE <<>>,
         Dispatch(l, Split(l, heap), arg, Split(arg, Split(l, heap).heap))
  PROVE  /\ ran' \in {Abstract!Outcome(l)} \cup (IF Poor THEN Abstract!PoorOutcomes(l) ELSE {})
         /\ ran' # Nothing
         /\ heap' \in Int /\ heap' <= heap
<1> DEFINE s == Split(l, heap)
           w == Split(arg, s.heap)
<1>1. /\ Abstract!First(l) = Token1(l) /\ Abstract!Rest(l) = Token2(l)
      /\ Token2(l) \in Seq(Chars) /\ Len(Token2(l)) <= Len(l) /\ Len(l) \in Nat
      /\ Len(Token2(l)) \in Nat
      /\ ~ Splits(l) => Token2(l) = <<>>
  BY TokensAreWords, TokenTypes, TokenLengths
<1>2. /\ s.heap \in Int /\ s.heap <= heap
      /\ s.arg => Splits(l)
  BY SplitServed
<1>3. arg \in Seq(Chars) /\ (arg = Token2(l) \/ arg = <<>>) /\ Len(arg) <= MaxCmd - 1
  <2>1. <<>> \in Seq(Chars) /\ Len(<<>>) = 0
    OBVIOUS
  <2> QED BY <1>1, <2>1, ConstFacts
<1>4. /\ w.heap \in Int /\ w.heap <= s.heap
      /\ w.arg => Splits(arg)
  BY <1>2, <1>3, SplitServed
<1>5. ~ Poor => /\ s.ok /\ arg = Token2(l)
                /\ w.ok /\ (Splits(arg) => w.arg)
  <2> SUFFICES ASSUME ~ Poor PROVE /\ s.ok /\ arg = Token2(l)
                                   /\ w.ok /\ (Splits(arg) => w.arg)
    OBVIOUS
  <2>1. heap >= 2 * SplitUse /\ SplitUse \in Nat
    BY ShellAssumption DEF Poor, SplitUse
  <2>2. s.ok /\ (Splits(l) => s.arg) /\ s.heap >= heap - SplitUse
    BY <2>1, SplitServed
  <2>3. s.heap >= SplitUse
    BY <1>2, <2>1, <2>2
  <2>4. w.ok /\ (Splits(arg) => w.arg)
    BY <1>2, <1>3, <2>3, SplitServed
  <2> QED BY <1>1, <2>2, <2>4
<1>6. Splits(arg) => arg = Token2(l) /\ Abstract!Places(Space, Token2(l)) # {}
  <2>1. ~ Splits(<<>>)
    BY DEF Splits
  <2> QED BY <1>1, <1>3, <2>1, TokensAreWords
<1>7. ~ Splits(arg) /\ arg = Token2(l) => Abstract!Places(Space, Token2(l)) = {}
  BY <1>1, TokensAreWords
<1>8. \A how, as : Did(how, l, as) = Abstract!Does(how, l, as)
  BY <1>1 DEF Did, Abstract!Does
<1>9. heap' \in Int /\ heap' <= heap
  <2>1. \/ heap' = s.heap
        \/ \E u \in HandlerUse : heap' = s.heap - u
        \/ \E u \in HandlerUse : heap' = w.heap - u
    BY DEF Dispatch
  <2>2. HandlerUse \subseteq Nat
    BY ShellAssumption
  <2> HIDE DEF s, w
  <2> QED BY <1>2, <1>4, <2>1, <2>2
<1>10. ran' # Nothing
  <2>1. \E how \in {"quiet", "unknown", "run", "garbage"}, as \in {<<>>, arg} :
          ran' = Did(how, l, as)
    BY DEF Dispatch
  <2> QED BY <2>1 DEF Did, Nothing
<1>11. ran' \in {Abstract!Outcome(l)} \cup (IF Poor THEN Abstract!PoorOutcomes(l) ELSE {})
  <2> USE <1>1, <1>8
  <2>1. CASE ~ s.ok /\ ran' = Did("quiet", l, <<>>)
    BY <1>5, <2>1 DEF Abstract!PoorOutcomes
  <2>2. CASE ~ Known(Token1(l)) /\ ran' = Did("unknown", l, <<>>)
    BY <2>2 DEF Known, Abstract!Outcome
  <2>3. CASE Known(Token1(l)) /\ Token1(l) # Writer /\ ran' = Did("run", l, arg)
    <3>1. CASE arg = Token2(l)
      BY <2>3, <3>1 DEF Known, Abstract!Outcome
    <3>2. CASE arg # Token2(l)
      BY <1>3, <1>5, <2>3, <3>2 DEF Known, Abstract!PoorOutcomes
    <3> QED BY <3>1, <3>2
  <2>4. CASE /\ Known(Token1(l)) /\ Token1(l) = Writer
             /\ ran' = Did(IF w.ok /\ w.arg THEN "run" ELSE "garbage", l, arg)
    <3>1. CASE w.ok /\ w.arg
      BY <1>4, <1>6, <2>4, <3>1 DEF Known, Abstract!Outcome
    <3>2. CASE ~ (w.ok /\ w.arg) /\ ~ Poor
      BY <1>5, <1>7, <2>4, <3>2 DEF Known, Abstract!Outcome
    <3>3. CASE ~ (w.ok /\ w.arg) /\ Poor
      BY <1>3, <2>4, <3>3 DEF Known, Abstract!PoorOutcomes
    <3> QED BY <3>1, <3>2, <3>3
  <2> QED BY <2>1, <2>2, <2>3, <2>4 DEF Dispatch
<1> QED BY <1>9, <1>10, <1>11

-----------------------------------------------------------------------------
\* The shell does what it promises.

\* Between a line's handling and the next prompt, and only there, ran says what
\* came of it.
RanShown == ran = Nothing <=> pc # "prompt"

RInv == IInv /\ RanShown

LEMMA LineLength ==
  ASSUME IInv, pc = "handle"
  PROVE  Line \in Seq(Chars) /\ Len(Line) <= MaxCmd - 1
<1>1. /\ Length \in 0 .. buf_index /\ Kept \in 0 .. Length /\ Line \in Seq(Chars)
  BY LineType
<1>2. buf_index \in 0 .. MaxCmd - 1
  BY DEF IInv, TypeOK
<1>3. Kept \in Nat /\ Kept <= MaxCmd - 1
  BY <1>1, <1>2, ConstFacts
<1>4. Len(Line) = Kept
  BY <1>1, <1>3 DEF Line
<1> QED BY <1>1, <1>3, <1>4

\* handle_cmd and its handler, as far as the line goes.
LEMMA HandlePromised ==
  ASSUME IInv, Handle
  PROVE  /\ ran' \in {Abstract!Outcome(Line)} \cup
                     (IF Poor THEN Abstract!PoorOutcomes(Line) ELSE {})
         /\ ran' # Nothing
         /\ Poor => Poor'
<1>1. Line \in Seq(Chars) /\ Len(Line) <= MaxCmd - 1 /\ heap \in Int
  BY LineLength DEF Handle, IInv, TypeOK
<1> DEFINE arg == IF Split(Line, heap).arg THEN Token2(Line) ELSE <<>>
<1>2. Dispatch(Line, Split(Line, heap), arg, Split(arg, Split(Line, heap).heap))
  BY DEF Handle
<1> HIDE DEF arg
<1>3. /\ ran' \in {Abstract!Outcome(Line)} \cup
                  (IF Poor THEN Abstract!PoorOutcomes(Line) ELSE {})
      /\ ran' # Nothing
      /\ heap' \in Int /\ heap' <= heap
  BY <1>1, <1>2, DispatchPromised DEF arg
<1>4. Poor => Poor'
  <2>1. 2 * (TupleBytes + 3 * Header + MaxCmd) \in Int
    BY ConstFacts
  <2> QED BY <1>1, <1>3, <2>1 DEF Poor
<1> QED BY <1>3, <1>4

LEMMA RanShownKept == RInv /\ [Next]_vars => RInv'
<1>1. RInv /\ [Next]_vars => IInv'
  BY NextInv DEF RInv
<1> SUFFICES ASSUME RInv, [Next]_vars PROVE RanShown'
  BY <1>1 DEF RInv
<1>2. CASE Handle
  BY <1>2, HandlePromised DEF RInv, RanShown, Handle
<1>3. CASE Prompt
  BY <1>3 DEF RanShown, Prompt
<1>4. CASE Poll
  BY <1>4 DEF RInv, RanShown, Poll
<1>5. CASE UNCHANGED <<pc, ran>>
  BY <1>5 DEF RInv, RanShown
<1>6. Handle \/ Prompt \/ Poll \/ UNCHANGED <<pc, ran>>
  BY DEF Next, Receive, vars
<1> QED BY <1>2, <1>3, <1>4, <1>5, <1>6

\* A character received is the next one sent.
LEMMA ReceiveSends ==
  ASSUME IInv, NEW c \in Chars, Receive(c)
  PROVE  Abstract!Next
<1>1. Start' = Start /\ Poor' = Poor /\ ran' = ran
  BY DEF Receive, Start, Entered, Typed, Poor
<1>2. fifo \in Seq(Chars) /\ fifo' = Append(fifo, c)
  BY DEF Receive, IInv, TypeOK
<1>3. Sent' = Takes(Sent, c)
  BY <1>1, <1>2, SentIsFold, FoldAppend
<1>4. Sent \in States
  <2>1. <<>> \in Seq(Chars)
    OBVIOUS
  <2> QED BY <1>2, <2>1, StartType, SentIsFold, FoldBehind
<1>5. CASE c = Newline
  <2>1. Sent'.todo = Append(Sent.todo, Sent.cur) /\ Sent'.cur = <<>>
    BY <1>3, <1>5 DEF Takes
  <2> QED BY <1>1, <2>1 DEF Abstract!Enter, Abstract!Next
<1>6. CASE c # Newline
  <2>1. /\ Sent'.todo = Sent.todo
        /\ Sent'.cur = IF Len(Sent.cur) < MaxCmd - 1 THEN Append(Sent.cur, c) ELSE Sent.cur
    BY <1>3, <1>4, <1>6 DEF Takes, States
  <2>2. c \in Letters \cup {Space, Nul}
    BY <1>6 DEF Chars
  <2>3. Abstract!Send(c)
    BY <1>1, <2>1 DEF Abstract!Send
  <2> QED BY <2>2, <2>3 DEF Abstract!Next
<1> QED BY <1>5, <1>6

\* A character read moves from the FIFO to the buffer, and is sent all the same.
LEMMA PollStutters ==
  ASSUME IInv, IInv', Poll
  PROVE  UNCHANGED <<Sent.cur, Sent.todo, ran, Poor>>
<1>1. fifo \in Seq(Chars) /\ fifo # <<>> /\ fifo' = Tail(fifo) /\ UNCHANGED <<heap, ran>>
  BY DEF Poll, Read, IInv, TypeOK
<1>2. Sent' = Sent
  BY <1>1, PollTakes, SentIsFold, FoldTail
<1> QED BY <1>1, <1>2 DEF Poor

\* The first line waiting is the one handled.
LEMMA HandleRuns ==
  ASSUME RInv, Handle
  PROVE  Abstract!Run
<1> DEFINE idle == [todo |-> <<>>, cur |-> <<>>]
<1>1. /\ pc = "handle" /\ pc' = "prompt" /\ fifo' = fifo /\ fifo \in Seq(Chars)
      /\ ran = Nothing
  BY DEF Handle, RInv, RanShown, IInv, TypeOK
<1>2. Entered \in Seq(Chars) /\ Line = Abstract!Counted(Entered)
  BY <1>1, LineCounted DEF RInv
<1>3. Start = Behind(Entered, idle) /\ Start' = idle
  <2>1. <<Entered>> \o <<>> = <<Entered>>
    OBVIOUS
  <2> QED BY <1>1, <2>1 DEF Start, Behind
<1>4. idle \in States
  BY DEF States
<1>5. Sent' = Fold(idle, fifo)
  BY <1>1, <1>3, SentIsFold
<1> HIDE DEF idle
<1>6. Sent' \in States /\ Sent = Behind(Entered, Sent')
  BY <1>1, <1>2, <1>3, <1>4, <1>5, SentIsFold, FoldBehind
<1>7. Sent.todo = <<Entered>> \o Sent'.todo /\ Sent.cur = Sent'.cur /\ Sent'.todo \in Seq(Seq(Chars))
  BY <1>6 DEF Behind, States
<1>8. Sent.todo # <<>> /\ Head(Sent.todo) = Entered /\ Tail(Sent.todo) = Sent'.todo
  BY <1>2, <1>7
<1>9. /\ ran' \in {Abstract!Outcome(Line)} \cup
                  (IF Poor THEN Abstract!PoorOutcomes(Line) ELSE {})
      /\ Poor => Poor'
  BY HandlePromised DEF RInv
<1>10. Abstract!Nothing = Nothing
  BY DEF Abstract!Nothing, Nothing
<1> QED BY <1>1, <1>2, <1>7, <1>8, <1>9, <1>10 DEF Abstract!Run

\* The prompt ends it; what was received meanwhile still waits.
LEMMA PromptEnds ==
  ASSUME RInv, Prompt
  PROVE  Abstract!Done
<1>1. /\ pc = "prompt" /\ pc' = "poll" /\ buf_index' = 0 /\ ran # Nothing /\ ran' = Nothing
      /\ fifo' = fifo /\ heap' = heap
  BY DEF Prompt, RInv, RanShown
<1>2. Start' = Start
  BY <1>1 DEF Start, Typed
<1>3. Sent' = Sent
  BY <1>1, <1>2, SentIsFold
<1>4. Abstract!Nothing = Nothing /\ Poor' = Poor
  BY <1>1 DEF Abstract!Nothing, Nothing, Poor
<1> QED BY <1>1, <1>3, <1>4 DEF Abstract!Done

\* Nothing is sent yet.
LEMMA InitPromises == Init => Abstract!Init
<1> SUFFICES ASSUME Init PROVE Abstract!Init
  OBVIOUS
<1>1. fifo = <<>> /\ pc = "poll" /\ buf_index = 0 /\ ran = Nothing
  BY DEF Init
<1>2. Start = [todo |-> <<>>, cur |-> <<>>]
  BY <1>1 DEF Start, Typed
<1>3. Sent = Start
  BY <1>1, SentIsFold, FoldEmpty
<1> QED BY <1>1, <1>2, <1>3 DEF Abstract!Init, Abstract!Nothing, Nothing, Poor

\* The steps of the loop are steps of the promise, or none.
LEMMA StepPromises ==
  ASSUME RInv, RInv', [Next]_vars
  PROVE  Abstract!Next \/ UNCHANGED <<Sent.cur, Sent.todo, ran, Poor>>
<1>1. ASSUME NEW c \in Chars, Receive(c) PROVE Abstract!Next
  BY <1>1, ReceiveSends DEF RInv
<1>2. CASE Poll
  BY <1>2, PollStutters DEF RInv
<1>3. CASE Handle
  BY <1>3, HandleRuns DEF Abstract!Next
<1>4. CASE Prompt
  BY <1>4, PromptEnds DEF Abstract!Next
<1>5. CASE UNCHANGED vars
  <2>1. UNCHANGED <<fifo, buffer, buf_index, pc, heap, ran>>
    BY <1>5 DEF vars
  <2>2. Start' = Start
    BY <2>1 DEF Start, Entered, Typed
  <2>3. Sent' = Sent
    BY <2>1, <2>2, SentIsFold
  <2> QED BY <2>1, <2>3 DEF Poor
<1> QED BY <1>1, <1>2, <1>3, <1>4, <1>5 DEF Next

\* Whatever is typed while the loop, a handler or the prompt is busy, each line
\* is run once, in the order sent, as the words it says.
THEOREM EachLineIsRun == Init /\ [][Next]_vars => RunsEachLine
<1>1. Init => RInv
  BY InitInv DEF Init, RInv, RanShown
<1>2. RInv /\ RInv' /\ [Next]_vars => [Abstract!Next]_<<Sent.cur, Sent.todo, ran, Poor>>
  BY StepPromises
<1> QED BY <1>1, <1>2, InitPromises, RanShownKept, PTL DEF RunsEachLine, Abstract!Spec

\* The same of the specification with its fairness, as the run checks it.
THEOREM LinesAreRun == Spec => RunsEachLine
BY EachLineIsRun, PTL DEF Spec
=============================================================================
