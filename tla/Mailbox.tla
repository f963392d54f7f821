------------------------------ MODULE Mailbox ------------------------------
(***************************************************************************)
(* How src/kernel/framebuffer.c gets a framebuffer: the kernel and the GPU *)
(* as two processes, the two queues of the mailbox between them, and the   *)
(* one buffer, mail_buffer, both read and write.                           *)
(*                                                                         *)
(* framebuffer_init calls send_messages three times, for the sizes, for    *)
(* the framebuffer and for the framebuffer again.  A mail is its channel:  *)
(* its data is always the address of mail_buffer, and nobody looks at it.  *)
(* MAIL0_STATUS describes the queue the kernel reads, for mailbox_send     *)
(* too.  Mails that answer nothing may come at any time, for the property  *)
(* channel (left by who ran before) or for another one; kernel_main goes   *)
(* on to the shell whatever framebuffer_init returns.                      *)
(*                                                                         *)
(* send_messages ends with kfree(mail_buffer), which takes the start of    *)
(* the buffer for a heap block: it clears the word behind the first tag    *)
(* and may overwrite the tag itself.  The other words survive it; that its *)
(* walk ends, through the response code as an address, is taken for        *)
(* granted.                                                                *)
(*                                                                         *)
(* The GPU is modelled from how it is used here: it answers each request,  *)
(* first in the buffer and then with a mail, it may change the size asked  *)
(* for or refuse, and it keeps the framebuffer it gave when asked again.   *)
(***************************************************************************)
EXTENDS Naturals, Sequences

CONSTANTS
  Depth,      \* mails a queue holds
  Sizes,      \* screen sizes the GPU may choose
  Asked,      \* the one asked for, 640 x 480
  Addrs,      \* where the GPU may put the framebuffer
  MaxNoise    \* bound: mails that answer nothing

ASSUME MailboxAssumption ==
  /\ Depth \in Nat \ {0} /\ MaxNoise \in Nat
  /\ Sizes \subseteq Nat \ {0} /\ Asked \in Sizes
  /\ Addrs \subseteq Nat \ {0}

Channels == {"property", "other"}

\* The request of each call of send_messages.
Kinds == <<"sizes", "allocate", "allocate">>

VARIABLES
  inbox,   \* mails to the kernel, mailbox 0
  outbox,  \* mails to the GPU
  buf,     \* mail_buffer: response code, kind of request, value
  call,    \* which call of send_messages
  pc,      \* where the kernel is
  tags,    \* the value in framebuffer_init's tags array
  fbinfo,  \* width and buf, 0 until they are set
  gpu,     \* the GPU's framebuffer: its width and address, 0 while there is none
  owed,    \* the GPU has answered in the buffer and owes the mail
  noise    \* mails that answer nothing so far

kernelVars == <<call, pc, tags, fbinfo>>
gpuVars    == <<gpu, owed>>
vars == <<inbox, outbox, buf, kernelVars, gpuVars, noise>>

Screen == [width : Sizes \cup {0}, addr : Addrs \cup {0}]
Values == Sizes \cup Addrs \cup {0}

TypeOK ==
  /\ inbox \in Seq(Channels) /\ Len(inbox) <= Depth
  /\ outbox \in Seq(Channels)
  /\ buf \in [code : {"request", "success", "error"}, kind : {"sizes", "allocate", "scrap"},
              value : Values]
  /\ call \in 1 .. 3
  /\ pc \in {"fill", "post", "wait", "check", "shell"}
  /\ tags \in Values
  /\ fbinfo \in Screen /\ gpu \in Screen
  /\ owed \in BOOLEAN
  /\ noise \in 0 .. MaxNoise

Init ==
  /\ inbox = <<>> /\ outbox = <<>>
  /\ buf = [code |-> "request", kind |-> "sizes", value |-> 0]
  /\ call = 1 /\ pc = "fill" /\ tags = Asked
  /\ fbinfo = [width |-> 0, addr |-> 0]
  /\ gpu = [width |-> 0, addr |-> 0]
  /\ owed = FALSE /\ noise = 0

-----------------------------------------------------------------------------
\* send_messages up to mailbox_send: the request is copied into the buffer.
Fill ==
  /\ pc = "fill"
  /\ buf' = [code |-> "request", kind |-> Kinds[call], value |-> tags]
  /\ pc' = "post"
  /\ UNCHANGED <<inbox, outbox, call, tags, fbinfo, gpuVars, noise>>

\* Mutant of Sent: the mail sent again before an answer.
SentTwice == outbox \o <<"property", "property">>

Sent == Append(outbox, "property")

\* mailbox_send, once the full bit is clear.
Post ==
  /\ pc = "post"
  /\ Len(inbox) < Depth
  /\ outbox' = Sent
  /\ pc' = "wait"
  /\ UNCHANGED <<inbox, buf, call, tags, fbinfo, gpuVars, noise>>

\* Mutant of Ours: the framebuffer's channel.
OursOther(mail) == mail = "other"

Ours(mail) == mail = "property"

\* mailbox_read, once the empty bit is clear: mails of other channels are
\* dropped.
Receive ==
  /\ pc = "wait"
  /\ inbox # <<>>
  /\ inbox' = Tail(inbox)
  /\ pc' = IF Ours(Head(inbox)) THEN "check" ELSE "wait"
  /\ UNCHANGED <<outbox, buf, call, tags, fbinfo, gpuVars, noise>>

\* Mutant of Answered: a missing answer not noticed.
AnsweredUnchecked == buf.code # "error"

\* The response code says that the GPU has carried out the request.
Answered == buf.code \notin {"request", "error"}

\* send_messages returns an error, and so does framebuffer_init.
Fail ==
  /\ pc = "check"
  /\ ~ Answered
  /\ pc' = "shell"
  /\ UNCHANGED <<inbox, outbox, buf, call, tags, fbinfo, gpuVars, noise>>

\* What framebuffer_init leaves in tags for the next call: 0 and the alignment,
\* or the answer itself.
NextRequest == IF call = 1 THEN 0 ELSE buf.value

\* Mutant of NextCall: one call too many.
NextCallOn == call + 1

NextCall == IF call < 3 THEN call + 1 ELSE call

\* send_messages copies the answer back, frees the buffer and returns 0;
\* framebuffer_init stores the answer and prepares the next call.
Accept ==
  /\ pc = "check"
  /\ Answered
  /\ tags' = NextRequest
  /\ fbinfo' = CASE call = 1 -> [fbinfo EXCEPT !.width = buf.value]
                 [] call = 2 -> [fbinfo EXCEPT !.addr = buf.value]
                 [] call = 3 -> fbinfo
  /\ call' = NextCall
  /\ pc' = IF call < 3 THEN "fill" ELSE "shell"
  /\ \E k \in {buf.kind, "scrap"} : buf' = [buf EXCEPT !.kind = k]
  /\ UNCHANGED <<inbox, outbox, gpuVars, noise>>

Kernel == Fill \/ Post \/ Receive \/ Fail \/ Accept

-----------------------------------------------------------------------------
\* The GPU takes a mail and carries out the request it finds in the buffer.
Grant ==
  /\ outbox # <<>> /\ ~ owed
  /\ \/ /\ buf.kind = "sizes"
        /\ \E s \in Sizes : /\ gpu' = [gpu EXCEPT !.width = s]
                            /\ buf' = [buf EXCEPT !.code = "success", !.value = s]
     \/ /\ buf.kind = "allocate"
        /\ \E a \in IF gpu.addr = 0 THEN Addrs ELSE {gpu.addr} :
             /\ gpu' = [gpu EXCEPT !.addr = a]
             /\ buf' = [buf EXCEPT !.code = "success", !.value = a]
  /\ outbox' = Tail(outbox) /\ owed' = TRUE
  /\ UNCHANGED <<inbox, kernelVars, noise>>

Refuse ==
  /\ outbox # <<>> /\ ~ owed
  /\ buf' = [buf EXCEPT !.code = "error"]
  /\ outbox' = Tail(outbox) /\ owed' = TRUE
  /\ UNCHANGED <<inbox, kernelVars, gpu, noise>>

Answer ==
  /\ owed
  /\ Len(inbox) < Depth
  /\ inbox' = Append(inbox, "property") /\ owed' = FALSE
  /\ UNCHANGED <<outbox, buf, kernelVars, gpu, noise>>

Gpu == Grant \/ Refuse \/ Answer

\* A mail that answers nothing.
Intrude(c) ==
  /\ Len(inbox) < Depth /\ noise < MaxNoise
  /\ inbox' = Append(inbox, c) /\ noise' = noise + 1
  /\ UNCHANGED <<outbox, buf, kernelVars, gpuVars>>

Next == Kernel \/ Gpu \/ \E c \in Channels : Intrude(c)

\* The kernel does nothing else until the shell starts, and the GPU answers.
Spec == Init /\ [][Next]_vars /\ WF_vars(Kernel) /\ WF_vars(Gpu)

-----------------------------------------------------------------------------
\* What send_messages accepts is what the GPU did for this very request:
\* fbinfo describes the GPU's framebuffer, whatever mails come in between.
FbinfoIsGpus ==
  /\ fbinfo.width \in {0, gpu.width}
  /\ fbinfo.addr \in {0, gpu.addr}

\* Until the GPU has read it, the buffer holds the request as it was sent,
\* although a mail of the property channel need not mean that it has.
RequestIntact ==
  outbox # <<>> => buf = [code |-> "request", kind |-> Kinds[call], value |-> tags]

\* The kernel waits for room it will not get: nobody reads the inbox.
Clogged == pc = "post" /\ Len(inbox) = Depth

\* It takes a whole queue of foreign mails to stop the kernel before it sends.
OnlyNoiseClogs == Clogged => noise >= Depth

\* mailbox_read has no timeout: whenever the kernel is in it, a mail that ends
\* its wait is in the queue, or the GPU has still to send one.  No foreign mail
\* makes it drop the only answer or wait for one that an earlier call has read.
AnswerComing ==
  pc = "wait" => outbox # <<>> \/ owed \/ \E i \in DOMAIN inbox : Ours(inbox[i])

\* What is left to do: the mails on their way, those that may still come, and
\* the kernel's steps, of which Post makes a mail for the GPU, and that one an
\* answer.
StepsAhead == IF pc = "shell" THEN 0
              ELSE 7 * (3 - call) + (IF pc = "fill" THEN 6 ELSE IF pc = "post" THEN 5 ELSE 1)

MailsAhead == 3 * Len(outbox) + (IF owed THEN 2 ELSE 0) + Len(inbox)
                + 2 * (MaxNoise - noise)

Remaining == StepsAhead + MailsAhead

\* Every step of the kernel, the GPU or a stranger brings the boot nearer its
\* end: no answer, refusal or stale mail makes the kernel ask again.
BootShortens == [][Remaining' \in 0 .. Remaining - 1]_vars

\* The boot comes to the shell, whatever the GPU answers and whichever mails
\* get in between, unless the queue is clogged when mailbox_send looks at it.
BootEnds == <>(pc = "shell" \/ Clogged)
=============================================================================
