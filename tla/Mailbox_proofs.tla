--------------------------- MODULE Mailbox_proofs ---------------------------
(***************************************************************************)
(* Proofs about Mailbox, for every depth of the queues, every choice of    *)
(* the GPU and any number of mails that answer nothing.                    *)
(***************************************************************************)
EXTENDS Mailbox, SequenceTheorems, TLAPS

-----------------------------------------------------------------------------
(***************************************************************************)
(* The inductive invariant.                                                *)
(***************************************************************************)

Request == [code |-> "request", kind |-> Kinds[call], value |-> tags]

\* There is one request at a time, and none before the buffer is ready.
OneRequest ==
  /\ outbox \in {<<>>, <<"property">>}
  /\ pc \in {"fill", "post"} => outbox = <<>>
  /\ pc = "post" => buf = Request

\* While the kernel waits, a granted request is what the GPU has.
GrantStands ==
  pc \in {"wait", "check"} /\ buf.code = "success" =>
    /\ buf.kind = Kinds[call]
    /\ buf.value = IF call = 1 THEN gpu.width ELSE gpu.addr
    /\ call > 1 => gpu.addr # 0

\* What each call of send_messages has added to fbinfo.
Progress ==
  /\ fbinfo.width = IF call = 1 THEN 0 ELSE gpu.width
  /\ fbinfo.addr = IF call < 3 THEN 0 ELSE gpu.addr
  /\ call = 3 => gpu.addr # 0

\* Mails on their way are noise, but for the answer the kernel waits for.
Backlog ==
  Len(inbox) + Len(outbox) + (IF owed THEN 1 ELSE 0)
    <= noise + (IF pc = "wait" THEN 1 ELSE 0)

IInv == TypeOK /\ RequestIntact /\ OneRequest /\ GrantStands /\ Progress /\ Backlog

LEMMA KindsIs ==
  Kinds[1] = "sizes" /\ Kinds[2] = "allocate" /\ Kinds[3] = "allocate"
BY DEF Kinds

LEMMA InitInv == Init => IInv
<1> SUFFICES ASSUME Init PROVE IInv  OBVIOUS
<1>1. TypeOK
  <2>1. inbox \in Seq(Channels) /\ Len(inbox) <= Depth /\ outbox \in Seq(Channels)
    BY MailboxAssumption DEF Init
  <2>2. fbinfo \in Screen /\ gpu \in Screen  BY DEF Init, Screen
  <2>3. buf \in [code : {"request", "success", "error"},
                 kind : {"sizes", "allocate", "scrap"}, value : Values]
    BY DEF Init, Values
  <2>4. tags \in Values  BY MailboxAssumption DEF Init, Values
  <2>5. noise \in 0 .. MaxNoise  BY MailboxAssumption DEF Init
  <2>6. call \in 1 .. 3 /\ pc \in {"fill", "post", "wait", "check", "shell"}  BY DEF Init
  <2>7. owed \in BOOLEAN  BY DEF Init
  <2> QED BY <2>1, <2>2, <2>3, <2>4, <2>5, <2>6, <2>7 DEF TypeOK
<1>2. RequestIntact  BY DEF Init, RequestIntact
<1>3. OneRequest  BY DEF Init, OneRequest
<1>4. GrantStands  BY DEF Init, GrantStands
<1>5. Progress  BY DEF Init, Progress
<1>6. Backlog  BY MailboxAssumption DEF Init, Backlog
<1> QED BY <1>1, <1>2, <1>3, <1>4, <1>5, <1>6 DEF IInv

-----------------------------------------------------------------------------
(***************************************************************************)
(* The kernel's steps.                                                     *)
(***************************************************************************)

LEMMA FillInv == IInv /\ Fill => IInv'
<1> SUFFICES ASSUME IInv, Fill PROVE IInv'  OBVIOUS
<1> USE MailboxAssumption, KindsIs DEF IInv, Fill
<1>1. call \in 1 .. 3 /\ Kinds[call] \in {"sizes", "allocate"}  BY DEF TypeOK
<1>2. TypeOK'  BY <1>1 DEF TypeOK, gpuVars
<1>3. outbox = <<>>  BY DEF OneRequest
<1>4. RequestIntact'  BY <1>3 DEF RequestIntact
<1>5. OneRequest'  BY <1>3 DEF OneRequest, Request
<1>6. GrantStands'  BY DEF GrantStands
<1>7. Progress'  BY DEF Progress, gpuVars
<1>8. Backlog'  BY DEF Backlog, gpuVars
<1> QED BY <1>2, <1>4, <1>5, <1>6, <1>7, <1>8

LEMMA PostInv == IInv /\ Post => IInv'
<1> SUFFICES ASSUME IInv, Post PROVE IInv'  OBVIOUS
<1> USE MailboxAssumption DEF IInv, Post
<1>1. outbox = <<>> /\ buf = Request  BY DEF OneRequest
<1>2. outbox' = <<"property">>  BY <1>1 DEF Sent
<1>3. TypeOK'  BY <1>2 DEF TypeOK, gpuVars, Channels
<1>4. RequestIntact'  BY <1>1 DEF RequestIntact, Request
<1>5. OneRequest'  BY <1>2 DEF OneRequest
<1>6. GrantStands'  BY <1>1 DEF GrantStands, Request
<1>7. Progress'  BY DEF Progress, gpuVars
<1>8. Backlog'
  <2>1. Len(outbox) = 0 /\ Len(outbox') = 1  BY <1>1, <1>2
  <2>2. Len(inbox) \in Nat /\ noise \in Nat  BY DEF TypeOK
  <2> QED BY <2>1, <2>2 DEF Backlog, gpuVars
<1> QED BY <1>3, <1>4, <1>5, <1>6, <1>7, <1>8

LEMMA ReceiveInv == IInv /\ Receive => IInv'
<1> SUFFICES ASSUME IInv, Receive PROVE IInv'  OBVIOUS
<1> USE MailboxAssumption DEF IInv, Receive
<1>1. /\ inbox \in Seq(Channels) /\ inbox # <<>>
      /\ inbox' \in Seq(Channels) /\ Len(inbox') = Len(inbox) - 1 /\ Len(inbox) \in Nat
  BY DEF TypeOK
<1>2. pc' \in {"check", "wait"}  OBVIOUS
<1>3. TypeOK'  BY <1>1, <1>2 DEF TypeOK, gpuVars
<1>4. RequestIntact'  BY DEF RequestIntact
<1>5. OneRequest'  BY <1>2 DEF OneRequest
<1>6. GrantStands'  BY <1>2 DEF GrantStands, gpuVars
<1>7. Progress'  BY DEF Progress, gpuVars
<1>8. Backlog'
  <2>1. Len(outbox) \in Nat /\ noise \in Nat  BY DEF TypeOK
  <2> QED BY <1>1, <1>2, <2>1 DEF Backlog, gpuVars
<1> QED BY <1>3, <1>4, <1>5, <1>6, <1>7, <1>8

LEMMA FailInv == IInv /\ Fail => IInv'
<1> SUFFICES ASSUME IInv, Fail PROVE IInv'  OBVIOUS
<1> USE MailboxAssumption DEF IInv, Fail
<1>1. TypeOK'  BY DEF TypeOK, gpuVars
<1>2. RequestIntact'  BY DEF RequestIntact
<1>3. OneRequest'  BY DEF OneRequest
<1>4. GrantStands'  BY DEF GrantStands
<1>5. Progress'  BY DEF Progress, gpuVars
<1>6. Backlog'  BY DEF Backlog, gpuVars
<1> QED BY <1>1, <1>2, <1>3, <1>4, <1>5, <1>6

\* An answer accepted is the one to this call's request: the request is no
\* longer in the queue, so that the GPU has carried it out.
LEMMA AcceptInv == IInv /\ Accept => IInv'
<1> SUFFICES ASSUME IInv, Accept PROVE IInv'  OBVIOUS
<1> USE MailboxAssumption, KindsIs DEF IInv, Accept
<1>1. call \in 1 .. 3 /\ buf.code = "success"  BY DEF TypeOK, Answered
<1>2. outbox = <<>>  BY <1>1 DEF RequestIntact
<1>3. /\ buf.value = IF call = 1 THEN gpu.width ELSE gpu.addr
      /\ call > 1 => gpu.addr # 0
  BY <1>1 DEF GrantStands
<1>4. /\ fbinfo'.width = IF call = 1 THEN buf.value ELSE fbinfo.width
      /\ fbinfo'.addr = IF call = 2 THEN buf.value ELSE fbinfo.addr
      /\ fbinfo' \in Screen
  <2>1. gpu.width \in Sizes \cup {0} /\ gpu.addr \in Addrs \cup {0}  BY DEF TypeOK, Screen
  <2>2. fbinfo \in [width : Sizes \cup {0}, addr : Addrs \cup {0}]  BY DEF TypeOK, Screen
  <2>3. CASE call = 1  BY <1>3, <2>1, <2>2, <2>3 DEF Screen
  <2>4. CASE call = 2  BY <1>3, <2>1, <2>2, <2>4 DEF Screen
  <2>5. CASE call = 3  BY <2>2, <2>5 DEF Screen
  <2> QED BY <1>1, <2>3, <2>4, <2>5
<1>5. call' = (IF call < 3 THEN call + 1 ELSE call) /\ call' \in 1 .. 3  BY <1>1 DEF NextCall
<1>6. pc' \in {"fill", "shell"}  OBVIOUS
<1>7. PICK k \in {buf.kind, "scrap"} : buf' = [buf EXCEPT !.kind = k]  OBVIOUS
<1>8. TypeOK'
  <2>1. tags' \in Values  BY DEF NextRequest, TypeOK, Values
  <2>2. buf' \in [code : {"request", "success", "error"},
                  kind : {"sizes", "allocate", "scrap"}, value : Values]
    BY <1>7 DEF TypeOK
  <2> QED BY <1>4, <1>5, <1>6, <2>1, <2>2 DEF TypeOK, gpuVars
<1>9. RequestIntact'  BY <1>2 DEF RequestIntact
<1>10. OneRequest'  BY <1>2, <1>6 DEF OneRequest
<1>11. GrantStands'  BY <1>6 DEF GrantStands
<1>12. Progress'
  <2>1. UNCHANGED gpu  BY DEF gpuVars
  <2>2. CASE call = 1  BY <1>3, <1>4, <1>5, <2>1, <2>2 DEF Progress
  <2>3. CASE call = 2  BY <1>3, <1>4, <1>5, <2>1, <2>3 DEF Progress
  <2>4. CASE call = 3  BY <1>3, <1>4, <1>5, <2>1, <2>4 DEF Progress
  <2> QED BY <1>1, <2>2, <2>3, <2>4
<1>13. Backlog'  BY <1>6 DEF Backlog, gpuVars
<1> QED BY <1>8, <1>9, <1>10, <1>11, <1>12, <1>13

-----------------------------------------------------------------------------
(***************************************************************************)
(* The GPU's steps.                                                        *)
(***************************************************************************)

\* What is queued is the request of the call the kernel waits for.
LEMMA Queued ==
  ASSUME IInv, outbox # <<>>
  PROVE  /\ outbox = <<"property">> /\ Tail(outbox) = <<>>
         /\ Len(outbox) = 1 /\ Len(Tail(outbox)) = 0
         /\ buf = Request /\ pc \in {"wait", "check", "shell"}
         /\ call \in 1 .. 3
<1>1. outbox = <<"property">>  BY DEF IInv, OneRequest
<1>2. buf = Request  BY DEF IInv, RequestIntact, Request
<1>3. pc \in {"wait", "check", "shell"}  BY DEF IInv, OneRequest, TypeOK
<1>4. call \in 1 .. 3  BY DEF IInv, TypeOK
<1> QED BY <1>1, <1>2, <1>3, <1>4

LEMMA GrantInv == IInv /\ Grant => IInv'
<1> SUFFICES ASSUME IInv, Grant PROVE IInv'  OBVIOUS
<1> USE MailboxAssumption, KindsIs
<1>1. /\ outbox = <<"property">> /\ outbox' = <<>> /\ Len(outbox) = 1 /\ Len(outbox') = 0
      /\ buf = Request /\ call \in 1 .. 3 /\ pc \in {"wait", "check", "shell"}
      /\ owed = FALSE /\ owed' = TRUE
  BY Queued DEF Grant, IInv, TypeOK
<1>2. UNCHANGED <<inbox, call, pc, tags, fbinfo, noise>>  BY DEF Grant, kernelVars
<1>3. buf.kind = Kinds[call]  BY <1>1 DEF Request
<1>4. CASE call = 1
  <2>1. buf.kind = "sizes"  BY <1>3, <1>4
  <2>2. PICK s \in Sizes : /\ gpu' = [gpu EXCEPT !.width = s]
                           /\ buf' = [buf EXCEPT !.code = "success", !.value = s]
    BY <2>1 DEF Grant
  <2>3. TypeOK'
    <3>1. gpu' \in Screen  BY <2>2 DEF IInv, TypeOK, Screen
    <3>2. buf' \in [code : {"request", "success", "error"},
                    kind : {"sizes", "allocate", "scrap"}, value : Values]
      BY <2>2 DEF IInv, TypeOK, Values
    <3> QED BY <1>1, <1>2, <3>1, <3>2 DEF IInv, TypeOK
  <2>4. GrantStands'
    <3>1. gpu'.width = s  BY <2>2 DEF IInv, TypeOK, Screen
    <3>2. buf'.kind = "sizes" /\ buf'.value = s  BY <2>1, <2>2 DEF IInv, TypeOK
    <3> QED BY <1>2, <1>4, <3>1, <3>2 DEF GrantStands
  <2>5. Progress'
    <3>1. gpu'.addr = gpu.addr  BY <2>2 DEF IInv, TypeOK, Screen
    <3> QED BY <1>2, <1>4, <3>1 DEF IInv, Progress
  <2> QED BY <2>3, <2>4, <2>5, <1>1, <1>2 DEF IInv, RequestIntact, OneRequest, Backlog
<1>5. CASE call # 1
  <2>1. buf.kind = "allocate"  BY <1>1, <1>3, <1>5
  <2>2. PICK a \in IF gpu.addr = 0 THEN Addrs ELSE {gpu.addr} :
          /\ gpu' = [gpu EXCEPT !.addr = a]
          /\ buf' = [buf EXCEPT !.code = "success", !.value = a]
    BY <2>1 DEF Grant
  <2>3. gpu.addr # 0 => a = gpu.addr  BY <2>2
  <2>4. a \in Addrs /\ a # 0  BY <2>2 DEF IInv, TypeOK, Screen
  <2>5. TypeOK'
    <3>1. gpu' \in Screen  BY <2>2, <2>4 DEF IInv, TypeOK, Screen
    <3>2. buf' \in [code : {"request", "success", "error"},
                    kind : {"sizes", "allocate", "scrap"}, value : Values]
      BY <2>2, <2>4 DEF IInv, TypeOK, Values
    <3> QED BY <1>1, <1>2, <3>1, <3>2 DEF IInv, TypeOK
  <2>6. gpu'.addr = a /\ gpu'.width = gpu.width  BY <2>2 DEF IInv, TypeOK, Screen
  <2>7. GrantStands'
    <3>1. buf'.kind = Kinds[call] /\ buf'.value = a  BY <1>3, <2>2 DEF IInv, TypeOK
    <3> QED BY <1>2, <1>5, <2>4, <2>6, <3>1 DEF GrantStands
  <2>8. Progress'  BY <1>1, <1>2, <1>5, <2>3, <2>4, <2>6 DEF IInv, Progress
  <2> QED BY <2>5, <2>7, <2>8, <1>1, <1>2 DEF IInv, RequestIntact, OneRequest, Backlog
<1> QED BY <1>4, <1>5

LEMMA RefuseInv == IInv /\ Refuse => IInv'
<1> SUFFICES ASSUME IInv, Refuse PROVE IInv'  OBVIOUS
<1> USE MailboxAssumption
<1>1. /\ outbox = <<"property">> /\ outbox' = <<>> /\ Len(outbox) = 1 /\ Len(outbox') = 0
      /\ pc \in {"wait", "check", "shell"} /\ owed = FALSE /\ owed' = TRUE
  BY Queued DEF Refuse, IInv, TypeOK
<1>2. UNCHANGED <<inbox, call, pc, tags, fbinfo, gpu, noise>>  BY DEF Refuse, kernelVars
<1>3. buf' = [buf EXCEPT !.code = "error"]  BY DEF Refuse
<1>4. TypeOK'  BY <1>1, <1>2, <1>3 DEF IInv, TypeOK
<1>5. buf'.code = "error"  BY <1>3 DEF IInv, TypeOK
<1>6. GrantStands'  BY <1>5 DEF GrantStands
<1>7. Progress'  BY <1>2 DEF IInv, Progress
<1> QED BY <1>1, <1>2, <1>4, <1>6, <1>7 DEF IInv, RequestIntact, OneRequest, Backlog

LEMMA AnswerInv == IInv /\ Answer => IInv'
<1> SUFFICES ASSUME IInv, Answer PROVE IInv'  OBVIOUS
<1> USE MailboxAssumption
<1>1. /\ inbox' \in Seq(Channels) /\ Len(inbox') = Len(inbox) + 1 /\ Len(inbox') <= Depth
      /\ Len(inbox) \in Nat /\ Len(outbox) \in Nat /\ noise \in Nat
      /\ owed = TRUE /\ owed' = FALSE
  BY DEF Answer, IInv, TypeOK, Channels
<1>2. UNCHANGED <<outbox, buf, call, pc, tags, fbinfo, gpu, noise>>  BY DEF Answer, kernelVars
<1>3. TypeOK'  BY <1>1, <1>2 DEF IInv, TypeOK
<1>4. RequestIntact'  BY <1>2 DEF IInv, RequestIntact
<1>5. OneRequest'  BY <1>2 DEF IInv, OneRequest, Request
<1>6. GrantStands'  BY <1>2 DEF IInv, GrantStands
<1>7. Progress'  BY <1>2 DEF IInv, Progress
<1>8. Backlog'  BY <1>1, <1>2 DEF IInv, Backlog
<1> QED BY <1>3, <1>4, <1>5, <1>6, <1>7, <1>8 DEF IInv

LEMMA IntrudeInv == \A c \in Channels : IInv /\ Intrude(c) => IInv'
<1> SUFFICES ASSUME NEW c \in Channels, IInv, Intrude(c) PROVE IInv'  OBVIOUS
<1> USE MailboxAssumption
<1>1. /\ inbox' \in Seq(Channels) /\ Len(inbox') = Len(inbox) + 1 /\ Len(inbox') <= Depth
      /\ Len(inbox) \in Nat /\ Len(outbox) \in Nat /\ noise \in Nat
      /\ noise' = noise + 1 /\ noise' \in 0 .. MaxNoise
  BY DEF Intrude, IInv, TypeOK
<1>2. UNCHANGED <<outbox, buf, call, pc, tags, fbinfo, gpu, owed>>
  BY DEF Intrude, kernelVars, gpuVars
<1>3. TypeOK'  BY <1>1, <1>2 DEF IInv, TypeOK
<1>4. RequestIntact'  BY <1>2 DEF IInv, RequestIntact
<1>5. OneRequest'  BY <1>2 DEF IInv, OneRequest, Request
<1>6. GrantStands'  BY <1>2 DEF IInv, GrantStands
<1>7. Progress'  BY <1>2 DEF IInv, Progress
<1>8. Backlog'  BY <1>1, <1>2 DEF IInv, Backlog
<1> QED BY <1>3, <1>4, <1>5, <1>6, <1>7, <1>8 DEF IInv

-----------------------------------------------------------------------------
LEMMA NextInv == IInv /\ [Next]_vars => IInv'
<1> SUFFICES ASSUME IInv, [Next]_vars PROVE IInv'  OBVIOUS
<1>1. CASE Kernel
  BY <1>1, FillInv, PostInv, ReceiveInv, FailInv, AcceptInv DEF Kernel
<1>2. CASE Gpu
  BY <1>2, GrantInv, RefuseInv, AnswerInv DEF Gpu
<1>3. ASSUME NEW c \in Channels, Intrude(c) PROVE IInv'
  BY <1>3, IntrudeInv
<1>4. CASE UNCHANGED vars
  BY <1>4 DEF vars, kernelVars, gpuVars, IInv, TypeOK, RequestIntact, OneRequest, Request,
              GrantStands, Progress, Backlog
<1> QED BY <1>1, <1>2, <1>3, <1>4 DEF Next

THEOREM Invariance == Spec => []IInv
<1>1. Init => IInv  BY InitInv
<1>2. IInv /\ [Next]_vars => IInv'  BY NextInv
<1> QED BY <1>1, <1>2, PTL DEF Spec

\* The protocol keeps its types; in particular what the kernel copies out of the
\* buffer is a screen size or an address of the GPU's, never something else.
THEOREM TypeCorrect == Spec => []TypeOK
<1>1. IInv => TypeOK  BY DEF IInv
<1> QED BY <1>1, Invariance, PTL

\* However many foreign mails come and whatever the GPU chooses, fbinfo never
\* describes another framebuffer than the GPU's.
THEOREM FbinfoTrue == Spec => []FbinfoIsGpus
<1>1. IInv => FbinfoIsGpus
  BY DEF IInv, Progress, FbinfoIsGpus
<1> QED BY <1>1, Invariance, PTL

\* The one buffer is not changed while the GPU has not read its request.
THEOREM RequestKept == Spec => []RequestIntact
<1>1. IInv => RequestIntact  BY DEF IInv
<1> QED BY <1>1, Invariance, PTL

\* The protocol's own mails never fill the queue, however short it is.
THEOREM NoiseClogs == Spec => []OnlyNoiseClogs
<1>1. IInv => OnlyNoiseClogs
  <2> SUFFICES ASSUME IInv, pc = "post", Len(inbox) = Depth PROVE noise >= Depth
    BY DEF OnlyNoiseClogs, Clogged
  <2>1. Len(outbox) \in Nat /\ Len(inbox) \in Nat /\ noise \in Nat  BY DEF IInv, TypeOK
  <2> QED BY <2>1, MailboxAssumption DEF IInv, Backlog
<1> QED BY <1>1, Invariance, PTL

-----------------------------------------------------------------------------
(***************************************************************************)
(* The boot cannot get stuck in mailbox_read, and it cannot go on for      *)
(* ever: what BootEnds needs besides fairness.                             *)
(***************************************************************************)

\* A mail at the end of the queue leaves those before it where they are.
LEMMA ArrivalKeeps ==
  ASSUME NEW c \in Channels, inbox \in Seq(Channels), inbox' = Append(inbox, c),
         NEW i \in DOMAIN inbox, Ours(inbox[i])
  PROVE  \E j \in DOMAIN inbox' : Ours(inbox'[j])
<1>1. i \in DOMAIN inbox' /\ inbox'[i] = inbox[i]  OBVIOUS
<1> QED BY <1>1 DEF Ours

LEMMA AnswerStep == IInv /\ AnswerComing /\ [Next]_vars => AnswerComing'
<1> SUFFICES ASSUME IInv, AnswerComing, [Next]_vars, pc' = "wait"
             PROVE  outbox' # <<>> \/ owed' \/ \E i \in DOMAIN inbox' : Ours(inbox'[i])
  BY DEF AnswerComing
<1> DEFINE Coming == outbox # <<>> \/ owed \/ \E i \in DOMAIN inbox : Ours(inbox[i])
<1>1. inbox \in Seq(Channels) /\ outbox \in Seq(Channels) /\ owed \in BOOLEAN
      /\ pc \in {"fill", "post", "wait", "check", "shell"}
  BY DEF IInv, TypeOK
<1>2. ~ Fill /\ ~ Fail /\ ~ Accept  BY DEF Fill, Fail, Accept
<1>3. CASE Post  BY <1>1, <1>3 DEF Post, Sent
<1>4. CASE Receive
  <2>1. pc = "wait" /\ Coming  BY <1>4 DEF Receive, AnswerComing
  <2>2. ~ Ours(Head(inbox)) /\ inbox # <<>> /\ inbox' = Tail(inbox)  BY <1>4 DEF Receive
  <2>3. ASSUME NEW i \in DOMAIN inbox, Ours(inbox[i])
        PROVE  \E j \in DOMAIN inbox' : Ours(inbox'[j])
    <3>1. i # 1  BY <1>1, <2>2, <2>3
    <3>2. i - 1 \in DOMAIN inbox' /\ inbox'[i - 1] = inbox[i]  BY <1>1, <2>2, <3>1
    <3> QED BY <2>3, <3>2 DEF Ours
  <2>4. UNCHANGED <<outbox, owed>>  BY <1>4 DEF Receive, gpuVars
  <2> QED BY <2>1, <2>3, <2>4
<1>5. CASE Grant \/ Refuse  BY <1>5 DEF Grant, Refuse
<1>6. CASE Answer
  <2>1. inbox' = Append(inbox, "property")  BY <1>6 DEF Answer
  <2>2. Len(inbox) + 1 \in DOMAIN inbox' /\ inbox'[Len(inbox) + 1] = "property"
    BY <1>1, <2>1
  <2> QED BY <2>2 DEF Ours
<1>7. ASSUME NEW c \in Channels, Intrude(c)
      PROVE  outbox' # <<>> \/ owed' \/ \E i \in DOMAIN inbox' : Ours(inbox'[i])
  <2>1. inbox' = Append(inbox, c) /\ UNCHANGED <<outbox, pc, owed>>
    BY <1>7 DEF Intrude, kernelVars, gpuVars
  <2>2. Coming  BY <2>1 DEF AnswerComing
  <2> QED BY <1>1, <2>1, <2>2, ArrivalKeeps
<1>8. CASE UNCHANGED vars  BY <1>8 DEF vars, kernelVars, gpuVars, AnswerComing
<1> QED BY <1>2, <1>3, <1>4, <1>5, <1>6, <1>7, <1>8 DEF Next, Kernel, Gpu

\* mailbox_read never waits for an answer that is not on its way, for every depth
\* of the queues and every order in which foreign mails come in between.
THEOREM AnswersCome == Spec => []AnswerComing
<1>1. Init => AnswerComing  BY DEF Init, AnswerComing
<1>2. IInv /\ AnswerComing /\ [Next]_vars => AnswerComing'  BY AnswerStep
<1> QED BY <1>1, <1>2, Invariance, PTL DEF Spec

\* The terms of what is left of the boot are numbers.
LEMMA RemainingType ==
  ASSUME IInv
  PROVE  /\ call \in 1 .. 3 /\ Len(inbox) \in Nat /\ Len(outbox) \in Nat
         /\ MaxNoise - noise \in Nat /\ owed \in BOOLEAN
         /\ StepsAhead \in Nat /\ MailsAhead \in Nat
<1>1. /\ call \in 1 .. 3 /\ Len(inbox) \in Nat /\ Len(outbox) \in Nat
      /\ MaxNoise - noise \in Nat /\ owed \in BOOLEAN
  BY MailboxAssumption DEF IInv, TypeOK
<1> QED BY <1>1 DEF StepsAhead, MailsAhead

\* Fill, Fail and Accept leave the mails alone and bring the kernel on.
LEMMA CallShortens ==
  ASSUME IInv, Fill \/ Fail \/ Accept
  PROVE  MailsAhead' = MailsAhead /\ StepsAhead' \in 0 .. StepsAhead - 1
<1>1. call \in 1 .. 3  BY RemainingType
<1>2. MailsAhead' = MailsAhead  BY DEF Fill, Fail, Accept, gpuVars, MailsAhead
<1>3. CASE Fill  BY <1>1, <1>2, <1>3 DEF Fill, StepsAhead
<1>4. CASE Fail  BY <1>1, <1>2, <1>4 DEF Fail, StepsAhead
<1>5. CASE Accept
  <2>1. pc = "check" /\ pc' = (IF call < 3 THEN "fill" ELSE "shell")  BY <1>5 DEF Accept
  <2>2. call < 3 => call' = call + 1  BY <1>5 DEF Accept, NextCall
  <2>3. call < 3 \/ call = 3  BY <1>1
  <2> QED BY <1>1, <1>2, <2>1, <2>2, <2>3 DEF StepsAhead
<1> QED BY <1>3, <1>4, <1>5

\* Post turns four steps into one mail and a wait; Receive takes a mail.
LEMMA MailShortens ==
  ASSUME IInv, Post \/ Receive
  PROVE  Remaining' \in 0 .. Remaining - 1
<1>1. /\ call \in 1 .. 3 /\ Len(inbox) \in Nat /\ Len(outbox) \in Nat
      /\ MaxNoise - noise \in Nat /\ owed \in BOOLEAN
  BY RemainingType
<1>2. inbox \in Seq(Channels) /\ outbox \in Seq(Channels)  BY DEF IInv, TypeOK
<1>3. CASE Post
  <2>1. Len(outbox') = Len(outbox) + 1  BY <1>2, <1>3 DEF Post, Sent
  <2>2. MailsAhead' = MailsAhead + 3  BY <1>1, <1>3, <2>1 DEF Post, gpuVars, MailsAhead
  <2>3. StepsAhead' = StepsAhead - 4  BY <1>1, <1>3 DEF Post, StepsAhead
  <2>4. StepsAhead' \in Nat  BY <1>1, <1>3 DEF Post, StepsAhead
  <2> QED BY <2>2, <2>3, <2>4, RemainingType DEF Remaining
<1>4. CASE Receive
  <2>1. Len(inbox') = Len(inbox) - 1 /\ Len(inbox') \in Nat  BY <1>2, <1>4 DEF Receive
  <2>2. MailsAhead' = MailsAhead - 1 /\ MailsAhead' \in Nat
    BY <1>1, <1>4, <2>1 DEF Receive, gpuVars, MailsAhead
  <2>3. StepsAhead' = StepsAhead  BY <1>4 DEF Receive, StepsAhead
  <2> QED BY <2>2, <2>3, RemainingType DEF Remaining
<1> QED BY <1>3, <1>4

\* The GPU turns a request into an answer it owes, and that into a mail.  A
\* stranger's mail is one fewer that may come.
LEMMA DeviceShortens ==
  ASSUME IInv, Gpu \/ \E c \in Channels : Intrude(c)
  PROVE  Remaining' \in 0 .. Remaining - 1
<1>1. /\ call \in 1 .. 3 /\ Len(inbox) \in Nat /\ Len(outbox) \in Nat
      /\ MaxNoise - noise \in Nat /\ owed \in BOOLEAN
  BY RemainingType
<1>2. inbox \in Seq(Channels) /\ outbox \in Seq(Channels) /\ noise \in 0 .. MaxNoise
  BY DEF IInv, TypeOK
<1>3. StepsAhead' = StepsAhead
  BY DEF Gpu, Grant, Refuse, Answer, Intrude, kernelVars, StepsAhead
<1>4. MailsAhead' \in 0 .. MailsAhead - 1
  <2>1. CASE Grant \/ Refuse
    <3>1. Len(outbox) = 1 /\ Len(outbox') = 0  BY <2>1, Queued DEF Grant, Refuse
    <3>2. ~ owed /\ owed' /\ UNCHANGED <<inbox, noise>>  BY <2>1 DEF Grant, Refuse
    <3> QED BY <1>1, <3>1, <3>2 DEF MailsAhead
  <2>2. CASE Answer
    <3>1. Len(inbox') = Len(inbox) + 1  BY <1>2, <2>2 DEF Answer
    <3>2. owed /\ ~ owed' /\ UNCHANGED <<outbox, noise>>  BY <2>2 DEF Answer
    <3> QED BY <1>1, <3>1, <3>2 DEF MailsAhead
  <2>3. ASSUME NEW c \in Channels, Intrude(c) PROVE MailsAhead' \in 0 .. MailsAhead - 1
    <3>1. Len(inbox') = Len(inbox) + 1  BY <1>2, <2>3 DEF Intrude
    <3>2. noise' = noise + 1 /\ noise < MaxNoise /\ UNCHANGED <<outbox, owed>>
      BY <2>3 DEF Intrude, gpuVars
    <3> QED BY <1>1, <1>2, MailboxAssumption, <3>1, <3>2 DEF MailsAhead
  <2> QED BY <2>1, <2>2, <2>3 DEF Gpu
<1> QED BY <1>3, <1>4, RemainingType DEF Remaining

\* No behaviour of the kernel and the GPU goes on for ever, however many foreign
\* mails come, and whatever the GPU answers: each step lowers a number.
THEOREM BootRunsOut == Spec => BootShortens
<1>1. IInv /\ [Next]_vars => [Remaining' \in 0 .. Remaining - 1]_vars
  <2> SUFFICES ASSUME IInv, Next PROVE Remaining' \in 0 .. Remaining - 1  OBVIOUS
  <2>1. CASE Fill \/ Fail \/ Accept  BY <2>1, CallShortens, RemainingType DEF Remaining
  <2>2. CASE Post \/ Receive  BY <2>2, MailShortens
  <2>3. CASE Gpu \/ \E c \in Channels : Intrude(c)  BY <2>3, DeviceShortens
  <2> QED BY <2>1, <2>2, <2>3 DEF Next, Kernel
<1> QED BY <1>1, Invariance, PTL DEF Spec, BootShortens
=============================================================================
