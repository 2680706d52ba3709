------------------------------- MODULE AcmRecv -------------------------------
(***************************************************************************)
(* The CDC-ACM receive path of uvc_camera.c: the USB interrupt             *)
(* (ext_cmd_out_ep_complete) files what the host sends in a list of        *)
(* buffers, and one task, the shell, takes it out with                     *)
(* usb_bulk_acm_recv_buffer.                                               *)
(*                                                                         *)
(* A buffer without a free successor stays with the usb_request, "parked": *)
(* the state is IDLE, req->actual says how much it holds, and it is for    *)
(* the task to file it and to queue the request again.                     *)
(***************************************************************************)
EXTENDS AcmLists, SequencesExt

CONSTANTS
  NBuf,       \* descriptors left in the lists after bind()
  Full,       \* DWC_REQ_SIZE, the capacity of a buffer
  TaskQueue,  \* what ep->ops->queue may answer the task (TRUE: accepted)
  IsrQueue,   \* what ep->ops->queue may answer the interrupt handler
  MaxRead,    \* bound: bytes one call asks for
  MaxWait,    \* bound: largest finite wait_option
  MaxHost,    \* bound: bytes the host sends in all
  MaxEmpty    \* bound: transfers of no bytes

ASSUME RecvAssumption ==
  /\ NBuf \in Nat \ {0} /\ Full \in Nat \ {0}
  /\ MaxRead \in Nat /\ MaxWait \in Nat /\ MaxHost \in Nat /\ MaxEmpty \in Nat
  /\ TaskQueue \subseteq BOOLEAN /\ IsrQueue \subseteq BOOLEAN

Descs == 1 .. NBuf        \* m_acm_recv_bufs without the entry bind() takes
NoDesc == 0
Buffers == 0 .. NBuf      \* 0: the buffer bind() gives to the request

VARIABLES
  ready,      \* ext_cmd_out_ep and ext_cmd_out_req are set
  state,      \* m_acm_recv_state
  freeList,   \* m_acm_recv_free_list
  recvList,   \* m_acm_recv_list
  buf, cnt, off,   \* descriptor -> buffer pointer, count, offset
  reqBuf,     \* req->buf; queue() sets req->dma to it
  actual,     \* req->actual
  queued,     \* times the request is in the controller's queue
  mem,        \* buffer -> its bytes; the host numbers its bytes 1, 2, ...
  sent,       \* bytes the host has sent
  empties,    \* transfers of no bytes so far
  received,   \* bytes the callers have been given
  pc, bytes, asked, remain, wait, held,  \* *bytes and the locals of the call
  halted      \* a configASSERT failed and stopped the system

hostVars == <<sent, empties>>
usbVars  == <<ready, state, queued>>
listVars == <<freeList, recvList, buf, cnt, off, reqBuf, actual>>
callVars == <<pc, bytes, asked, remain, wait, held, received>>
vars == <<hostVars, usbVars, listVars, mem, callVars, halted>>

States == {"UNINITED", "IDLE", "BUSY", "LAST_DATA"}
PCs == {"idle", "ep", "get", "null", "kick", "copy", "free", "back", "check", "last"}

TypeOK ==
  /\ ready \in BOOLEAN /\ halted \in BOOLEAN /\ state \in States
  /\ freeList \in Seq(Descs) /\ recvList \in Seq(Descs)
  /\ buf \in [Descs -> Buffers]
  /\ cnt \in [Descs -> 0 .. Full] /\ off \in [Descs -> 0 .. Full]
  /\ reqBuf \in Buffers /\ actual \in 0 .. Full
  /\ queued \in Nat /\ sent \in Nat /\ empties \in Nat
  /\ mem \in [Buffers -> Seq(Nat)] /\ received \in Seq(Nat)
  /\ pc \in PCs /\ bytes \in Nat /\ asked \in Nat /\ remain \in Nat
  /\ wait \in Int /\ held \in Descs \cup {NoDesc}

-----------------------------------------------------------------------------
(* usb_acm_buffer_lists_init and bind(). *)
Init ==
  /\ ready = FALSE /\ state = "UNINITED"
  /\ freeList = [i \in 1 .. NBuf |-> i] /\ recvList = <<>>
  /\ buf = [d \in Descs |-> d]
  /\ cnt = [d \in Descs |-> 0] /\ off = [d \in Descs |-> 0]
  /\ reqBuf = 0 /\ actual = 0 /\ queued = 0
  /\ mem = [b \in Buffers |-> <<>>]
  /\ sent = 0 /\ empties = 0 /\ received = <<>>
  /\ pc = "idle" /\ bytes = 0 /\ asked = 0 /\ remain = 0 /\ wait = 0 /\ held = NoDesc
  /\ halted = FALSE

Goto(l) == pc' = l

\* USB_FUNC_NO_WAIT, a countdown, or USB_FUNC_WAIT_FOREVER.
Retry(again, out) ==
  /\ Goto(IF wait = 0 THEN out ELSE again)
  /\ wait' = IF wait > 0 THEN wait - 1 ELSE wait

\* Variants with one plausible slip each, for the mutation runs.
RequeueLosesParked(ok) ==         \* req->actual cleared before it is copied
  LET d == Head(freeList) IN
  /\ actual' = 0
  /\ off' = [off EXCEPT ![d] = 0] /\ cnt' = [cnt EXCEPT ![d] = 0]
  /\ IF ok
       THEN /\ buf' = [buf EXCEPT ![d] = reqBuf] /\ reqBuf' = buf[d]
            /\ freeList' = Tail(freeList) /\ recvList' = Append(recvList, d)
            /\ queued' = queued + 1 /\ state' = "BUSY"
       ELSE UNCHANGED <<freeList, recvList, buf, reqBuf, queued, state>>
  /\ UNCHANGED ready

(* File the parked buffer under the first free descriptor and queue the request
   with that descriptor's buffer.  A refused request is given its buffer back,
   but req->actual is already 0. *)
Requeue(ok) ==
  LET d == Head(freeList) IN
  /\ actual' = 0
  /\ off' = [off EXCEPT ![d] = 0]
  /\ IF ok
       THEN /\ buf' = [buf EXCEPT ![d] = reqBuf] /\ reqBuf' = buf[d]
            /\ cnt' = [cnt EXCEPT ![d] = actual]
            /\ freeList' = Tail(freeList) /\ recvList' = Append(recvList, d)
            /\ queued' = queued + 1 /\ state' = "BUSY"
       ELSE /\ cnt' = [cnt EXCEPT ![d] = 0]
            /\ UNCHANGED <<freeList, recvList, buf, reqBuf, queued, state>>
  /\ UNCHANGED ready

-----------------------------------------------------------------------------
(* The task calls usb_function_acm_recv_buffer with room for n bytes. *)
Call ==
  /\ pc = "idle"
  /\ \E n \in 0 .. MaxRead, w \in -1 .. MaxWait :
       bytes' = n /\ asked' = n /\ remain' = n /\ wait' = w
  /\ Goto("ep")
  /\ UNCHANGED <<hostVars, usbVars, listVars, mem, held, received, halted>>

\* Without an endpoint the call returns 0 and leaves *bytes alone.
ReadEp ==
  /\ pc = "ep"
  /\ IF ready
       THEN Goto(IF remain > 0 THEN "get" ELSE "check") /\ UNCHANGED wait
       ELSE Retry("ep", "idle")
  /\ UNCHANGED <<hostVars, usbVars, listVars, mem, bytes, asked, remain, held, received, halted>>

GetReceived ==
  /\ pc = "get"
  /\ IF recvList = <<>>
       THEN Goto("null") /\ UNCHANGED <<held, recvList>>
       ELSE held' = Head(recvList) /\ recvList' = Tail(recvList) /\ Goto("copy")
  /\ UNCHANGED <<hostVars, usbVars, freeList, buf, cnt, off, reqBuf, actual, mem,
                 bytes, asked, remain, wait, received, halted>>

ReadStateWhenEmptyNoKick ==       \* an idle request is only waited for
  /\ pc = "null"
  /\ Retry("get", "check")
  /\ UNCHANGED <<hostVars, usbVars, listVars, mem, bytes, asked, remain, held, received, halted>>

ReadStateWhenEmpty ==
  /\ pc = "null"
  /\ IF state = "IDLE" THEN Goto("kick") /\ UNCHANGED wait ELSE Retry("get", "check")
  /\ UNCHANGED <<hostVars, usbVars, listVars, mem, bytes, asked, remain, held, received, halted>>

Kick(ok) ==
  /\ pc = "kick"
  /\ IF freeList = <<>>
       THEN halted' = TRUE /\ UNCHANGED <<usbVars, listVars, pc, wait>>
       ELSE Requeue(ok) /\ Retry("get", "check") /\ UNCHANGED halted
  /\ UNCHANGED <<hostVars, mem, bytes, asked, remain, held, received>>

\* Copy what there is or what was asked for, outside the lock.
CopyOut ==
  /\ pc = "copy"
  /\ LET all == remain >= cnt[held]
         n == IF all THEN cnt[held] ELSE remain IN
       /\ received' = received \o SubSeq(mem[buf[held]], off[held] + 1, off[held] + n)
       /\ remain' = remain - n
       /\ cnt' = [cnt EXCEPT ![held] = IF all THEN 0 ELSE @ - n]
       /\ off' = [off EXCEPT ![held] = IF all THEN 0 ELSE @ + n]
       /\ Goto(IF all THEN "free" ELSE "back")
  /\ UNCHANGED <<hostVars, usbVars, freeList, recvList, buf, reqBuf, actual, mem,
                 bytes, asked, wait, held, halted>>

GiveBackToTail ==                 \* a partly read buffer goes behind the others
  /\ pc \in {"free", "back"}
  /\ IF pc = "free"
       THEN freeList' = Append(freeList, held) /\ UNCHANGED recvList
       ELSE recvList' = Append(recvList, held) /\ UNCHANGED freeList
  /\ held' = NoDesc
  /\ Goto(IF remain > 0 THEN "get" ELSE "check")
  /\ UNCHANGED <<hostVars, usbVars, buf, cnt, off, reqBuf, actual, mem,
                 bytes, asked, remain, wait, received, halted>>

\* An emptied buffer goes to the free list, a partly read one back to the front.
GiveBack ==
  /\ pc \in {"free", "back"}
  /\ IF pc = "free"
       THEN freeList' = Append(freeList, held) /\ UNCHANGED recvList
       ELSE recvList' = <<held>> \o recvList /\ UNCHANGED freeList
  /\ held' = NoDesc
  /\ Goto(IF remain > 0 THEN "get" ELSE "check")
  /\ UNCHANGED <<hostVars, usbVars, buf, cnt, off, reqBuf, actual, mem,
                 bytes, asked, remain, wait, received, halted>>

CheckState ==
  /\ pc = "check"
  /\ bytes' = asked - remain
  /\ Goto(IF state = "IDLE" THEN "last" ELSE "idle")
  /\ UNCHANGED <<hostVars, usbVars, listVars, mem, asked, remain, wait, held, received, halted>>

LastKick(ok) ==
  /\ pc = "last"
  /\ IF freeList = <<>> THEN UNCHANGED <<usbVars, listVars>> ELSE Requeue(ok)
  /\ Goto("idle")
  /\ UNCHANGED <<hostVars, mem, bytes, asked, remain, wait, held, received, halted>>

Step ==
  \/ Call \/ ReadEp \/ GetReceived \/ ReadStateWhenEmpty \/ CopyOut \/ GiveBack \/ CheckState
  \/ \E ok \in TaskQueue : Kick(ok) \/ LastKick(ok)

-----------------------------------------------------------------------------
\* set_interface(0): the command endpoint is enabled and its request queued.
Configure ==
  /\ ~ready
  /\ ready' = TRUE /\ actual' = 0 /\ queued' = 1 /\ state' = "BUSY"
  /\ UNCHANGED <<hostVars, freeList, recvList, buf, cnt, off, reqBuf, mem, callVars, halted>>

FileReceivedStaleCount(n, ok) ==  \* count taken from the transfer before
  LET d == Head(freeList) IN
  /\ buf' = [buf EXCEPT ![d] = reqBuf] /\ reqBuf' = buf[d]
  /\ cnt' = [cnt EXCEPT ![d] = actual]
  /\ recvList' = Append(recvList, d) /\ freeList' = Tail(freeList)
  /\ state' = IF Len(freeList) = 1 THEN "LAST_DATA" ELSE "BUSY"
  /\ queued' = IF ok THEN queued ELSE queued - 1
FileReceivedKeepsFree(n, ok) ==   \* the descriptor stays in the free list
  LET d == Head(freeList) IN
  /\ buf' = [buf EXCEPT ![d] = reqBuf] /\ reqBuf' = buf[d]
  /\ cnt' = [cnt EXCEPT ![d] = n]
  /\ recvList' = Append(recvList, d) /\ UNCHANGED freeList
  /\ state' = IF Len(freeList) = 1 THEN "LAST_DATA" ELSE "BUSY"
  /\ queued' = IF ok THEN queued ELSE queued - 1
FileReceivedIdleEarly(n, ok) ==   \* IDLE at once when the last free buffer is taken
  LET d == Head(freeList) IN
  /\ buf' = [buf EXCEPT ![d] = reqBuf] /\ reqBuf' = buf[d]
  /\ cnt' = [cnt EXCEPT ![d] = n]
  /\ recvList' = Append(recvList, d) /\ freeList' = Tail(freeList)
  /\ state' = IF Len(freeList) = 1 THEN "IDLE" ELSE "BUSY"
  /\ queued' = IF ok THEN queued ELSE queued - 1

\* BUSY and there is a free descriptor: file the n bytes, receive into its buffer.
FileReceived(n, ok) ==
  LET d == Head(freeList) IN
  /\ buf' = [buf EXCEPT ![d] = reqBuf] /\ reqBuf' = buf[d]
  /\ cnt' = [cnt EXCEPT ![d] = n]
  /\ recvList' = Append(recvList, d) /\ freeList' = Tail(freeList)
  /\ state' = IF Len(freeList) = 1 THEN "LAST_DATA" ELSE "BUSY"
  /\ queued' = IF ok THEN queued ELSE queued - 1

(* The host ends a transfer of n bytes: complete() with status 0, and in it
   ext_cmd_out_ep_complete.  (After an error the request is queued again with
   the same buffer, which changes nothing here.) *)
Receive(n, ok) ==
  /\ queued > 0
  /\ sent + n <= MaxHost /\ sent' = sent + n
  /\ IF n = 0 THEN empties < MaxEmpty /\ empties' = empties + 1 ELSE UNCHANGED empties
  /\ mem' = [mem EXCEPT ![reqBuf] = [i \in 1 .. n |-> sent + i]]
  /\ actual' = n
  /\ IF state = "BUSY" /\ n > 0 /\ freeList # <<>>
       THEN FileReceived(n, ok)
       ELSE /\ queued' = queued - 1
            /\ state' = IF state \in {"BUSY", "LAST_DATA"} THEN "IDLE" ELSE state
            /\ UNCHANGED <<freeList, recvList, buf, cnt, reqBuf>>
  /\ UNCHANGED <<ready, off, callVars, halted>>

Next ==
  /\ ~halted
  /\ Step \/ Configure \/ \E n \in 0 .. Full, ok \in IsrQueue : Receive(n, ok)

(* A task in a call keeps running, the shell calls again and again, and the
   controller does not refuse it for ever.  The host need not send. *)
Fairness ==
  /\ WF_vars(~halted /\ Step)
  /\ SF_vars(~halted /\ Kick(TRUE))
  /\ SF_vars(~halted /\ pc = "idle" /\ Call /\ remain' > 0)
  /\ WF_vars(~halted /\ Configure)

Spec == Init /\ [][Next]_vars
FairSpec == Spec /\ Fairness

-----------------------------------------------------------------------------
Owned(d) == d = held /\ held # NoDesc

(* Every descriptor is in exactly one place, and no two owners (descriptors, the
   request) share a buffer: the controller never writes into a buffer a task
   reads. *)
Ownership ==
  /\ NoRepeat(freeList) /\ NoRepeat(recvList)
  /\ \A d \in Descs :
       /\ Owned(d) \/ In(d, freeList) \/ In(d, recvList)
       /\ ~(In(d, freeList) /\ In(d, recvList))
       /\ Owned(d) => ~In(d, freeList) /\ ~In(d, recvList)
  /\ \A d, e \in Descs : buf[d] = buf[e] => d = e
  /\ \A d \in Descs : buf[d] # reqBuf

(* The assertion before the copy: what is left of a received buffer lies
   inside what was received into it, across partial reads. *)
InsideBuffer == \A d \in Descs : off[d] + cnt[d] <= Len(mem[buf[d]]) \/ cnt[d] = 0

(* The request is not queued again before it is done, and a parked buffer
   never has bytes filed before it is itself filed: IDLE means one parked
   buffer, nothing in flight. *)
OneTransfer == queued <= 1 /\ (state = "IDLE" => queued = 0)

(* The bytes reach the callers in the order in which the host sent them, each
   once and none lost, through full lists, parked buffers, empty transfers and
   partial reads. *)
Unread(d) == SubSeq(mem[buf[d]], off[d] + 1, off[d] + cnt[d])
Taken == IF held = NoDesc THEN <<>> ELSE Unread(held)
Parked == IF state = "IDLE" THEN SubSeq(mem[reqBuf], 1, actual) ELSE <<>>
Filed == FlattenSeq([i \in 1 .. Len(recvList) |-> Unread(recvList[i])])
Pipe == INSTANCE FifoPipe WITH waiting <- Taken \o Filed \o Parked, passed <- received
PipeSpec == Pipe!Spec

(* A task that found nothing received and the request idle always has a free
   buffer to start it with: the assertion on the buffer it takes
   (uvc_camera.c:2111).  Both were seen before the lock was taken; meanwhile the
   interrupt may have filed every free buffer and gone idle again. *)
KickFails == pc = "kick" /\ freeList = <<>>
KickFindsBuffer == ~KickFails

(* What the host was able to send is given to the shell, as long as it calls,
   unless that assertion fails and stops the system: a parked buffer is not
   forgotten. *)
ReadUnlessKickFails ==
  \A n \in 1 .. MaxHost : sent >= n ~> (Len(received) >= n \/ KickFails)

(* A full receive path opens again, unless that assertion fails: once the shell
   has called, the host can always send another transfer. *)
ReopensUnlessKickFails == (ready /\ queued = 0) ~> (queued > 0 \/ KickFails)
=============================================================================
