------------------------------- MODULE AcmSend -------------------------------
(***************************************************************************)
(* The CDC-ACM transmit path of uvc_camera.c: tasks in                     *)
(* usb_bulk_acm_send_buffer feed a list of buffers, and the USB interrupt  *)
(* (ext_resp_in_ep_complete) drains it through one usb_request.            *)
(*                                                                         *)
(* The list operations run with the mutex held and the USB interrupt       *)
(* masked, so each is one step.  The reads of m_acm_send_state and the     *)
(* copy into a buffer happen outside the lock and are steps of their own.  *)
(***************************************************************************)
EXTENDS AcmLists, SequencesExt

CONSTANTS
  Senders,    \* the tasks that send (log output, shell, file transfer)
  NBuf,       \* descriptors left in the lists after bind()
  Full,       \* DWC_REQ_SIZE, the capacity of a buffer
  NoData,     \* content of a buffer nobody has filled
  TaskQueue,  \* what ep->ops->queue may answer a task (TRUE: accepted)
  IsrQueue,   \* what ep->ops->queue may answer the interrupt handler
  MaxChunks,  \* bound: chunks of one call
  MaxSeq,     \* bound: chunks one sender sends in all
  MaxWait,    \* bound: largest finite wait_option
  MaxErrors   \* bound: transfers the controller ends with an error

\* A chunk of at most Full bytes: who sent it and the how-manieth it is.
Chunk == [by : Senders, seq : Nat, len : 1 .. Full]

ASSUME SendAssumption ==
  /\ NBuf \in Nat \ {0} /\ Full \in Nat \ {0}
  /\ MaxChunks \in Nat /\ MaxSeq \in Nat /\ MaxWait \in Nat /\ MaxErrors \in Nat
  /\ NoData \notin Chunk
  /\ TaskQueue \subseteq BOOLEAN /\ IsrQueue \subseteq BOOLEAN

\* The array m_acm_send_bufs without the entry whose buffer bind() takes.
Descs == 1 .. NBuf
NoDesc == 0
\* m_acm_send_mem_buf: buffer d was first given to descriptor d, 0 to the request.
Buffers == 0 .. NBuf

VARIABLES
  ready,      \* ext_resp_in_ep and ext_resp_in_req are set
  state,      \* m_acm_send_state
  freeList,   \* m_acm_send_free_list
  sendList,   \* m_acm_send_list
  buf,        \* descriptor -> buffer pointer
  cnt,        \* descriptor -> count
  reqBuf,     \* req->buf (and req->dma)
  reqLen,     \* req->length
  queued,     \* times the request is in the controller's queue
  mem,        \* buffer -> content
  wire,       \* transfers the host has received
  errors,     \* transfers ended with an error so far
  pc, left, final, wait, held, nseq,  \* locals of each call in progress
  halted      \* a configASSERT failed and stopped the system

usbVars  == <<ready, state, reqLen, queued, wire, errors>>
listVars == <<freeList, sendList, buf, cnt, reqBuf>>
callVars == <<pc, left, final, wait, held, nseq>>
vars == <<usbVars, listVars, mem, callVars, halted>>

States == {"UNINITED", "INITED", "IDLE", "BUSY", "LAST_DATA"}
PCs == {"idle", "ep", "get", "null", "kick", "fill", "append", "check", "last"}

TypeOK ==
  /\ ready \in BOOLEAN /\ halted \in BOOLEAN
  /\ state \in States
  /\ freeList \in Seq(Descs) /\ sendList \in Seq(Descs)
  /\ buf \in [Descs -> Buffers] /\ cnt \in [Descs -> 0 .. Full]
  /\ reqBuf \in Buffers /\ reqLen \in 0 .. Full
  /\ queued \in Nat /\ errors \in Nat
  /\ mem \in [Buffers -> Chunk \cup {NoData}]
  /\ wire \in Seq([data : Chunk \cup {NoData}, len : 0 .. Full])
  /\ pc \in [Senders -> PCs]
  /\ left \in [Senders -> Nat] /\ final \in [Senders -> 1 .. Full]
  /\ wait \in [Senders -> Int] /\ nseq \in [Senders -> Nat]
  /\ held \in [Senders -> Descs \cup {NoDesc}]

-----------------------------------------------------------------------------
(* usb_acm_buffer_lists_init and bind(): every descriptor is free and has a
   buffer of its own; no endpoint is enabled yet. *)
Init ==
  /\ ready = FALSE /\ state = "UNINITED"
  /\ freeList = [i \in 1 .. NBuf |-> i] /\ sendList = <<>>
  /\ buf = [d \in Descs |-> d] /\ cnt = [d \in Descs |-> 0]
  /\ reqBuf = 0 /\ reqLen = 0 /\ queued = 0
  /\ mem = [b \in Buffers |-> NoData]
  /\ wire = <<>> /\ errors = 0
  /\ pc = [t \in Senders |-> "idle"] /\ left = [t \in Senders |-> 0]
  /\ final = [t \in Senders |-> Full] /\ wait = [t \in Senders |-> 0]
  /\ held = [t \in Senders |-> NoDesc] /\ nseq = [t \in Senders |-> 0]
  /\ halted = FALSE

\* Variants of the definitions with one plausible slip each, for the mutation
\* runs; the specification uses none of them.
StartTransferKeepsBuffer(ok) ==   \* the request's old buffer is not given back
  LET d == Head(sendList) IN
  /\ reqBuf' = buf[d] /\ reqLen' = cnt[d]
  /\ cnt' = [cnt EXCEPT ![d] = 0]
  /\ sendList' = Tail(sendList) /\ freeList' = Append(freeList, d)
  /\ queued' = queued + 1 /\ state' = "BUSY"
  /\ UNCHANGED <<buf, ready, wire, errors>>
StartTransferRefusedToTail(ok) == \* a refused buffer goes behind the others
  LET d == Head(sendList) IN
  /\ reqLen' = cnt[d]
  /\ IF ok
       THEN /\ buf' = [buf EXCEPT ![d] = reqBuf] /\ reqBuf' = buf[d]
            /\ cnt' = [cnt EXCEPT ![d] = 0]
            /\ sendList' = Tail(sendList)
            /\ freeList' = Append(freeList, d)
            /\ queued' = queued + 1 /\ state' = "BUSY"
       ELSE /\ sendList' = Append(Tail(sendList), d)
            /\ UNCHANGED <<freeList, buf, cnt, reqBuf, queued, state>>
  /\ UNCHANGED <<ready, wire, errors>>

(* The request takes over the first buffer of the send list, its own buffer
   goes back with the descriptor, and the request is queued.  A refused
   request leaves the list as it was. *)
StartTransfer(ok) ==
  LET d == Head(sendList) IN
  /\ reqLen' = cnt[d]
  /\ IF ok
       THEN /\ buf' = [buf EXCEPT ![d] = reqBuf] /\ reqBuf' = buf[d]
            /\ cnt' = [cnt EXCEPT ![d] = 0]
            /\ sendList' = Tail(sendList)
            /\ freeList' = Append(freeList, d)
            /\ queued' = queued + 1
            /\ state' = "BUSY"
       ELSE UNCHANGED <<listVars, queued, state>>
  /\ UNCHANGED <<ready, wire, errors>>

Goto(t, l) == pc' = [pc EXCEPT ![t] = l]

(* USB_FUNC_NO_WAIT gives up, USB_FUNC_WAIT_FOREVER tries again, a positive
   wait_option is counted down, over both waits of the call together. *)
Retry(t, again, out) ==
  /\ Goto(t, IF wait[t] = 0 THEN out ELSE again)
  /\ wait' = [wait EXCEPT ![t] = IF @ > 0 THEN @ - 1 ELSE @]

-----------------------------------------------------------------------------
(* A task calls usb_function_acm_send_buffer with n chunks, the last of them
   l bytes long. *)
Call(t) ==
  /\ pc[t] = "idle"
  /\ \E n \in 0 .. MaxChunks, l \in {1, Full}, w \in -1 .. MaxWait :
       /\ nseq[t] + n <= MaxSeq
       /\ left' = [left EXCEPT ![t] = n]
       /\ final' = [final EXCEPT ![t] = l]
       /\ wait' = [wait EXCEPT ![t] = w]
  /\ Goto(t, "ep")
  /\ UNCHANGED <<usbVars, listVars, mem, held, nseq, halted>>

ReadEp(t) ==
  /\ pc[t] = "ep"
  /\ IF ready
       THEN Goto(t, IF left[t] > 0 THEN "get" ELSE "check") /\ UNCHANGED wait
       ELSE Retry(t, "ep", "idle")
  /\ UNCHANGED <<usbVars, listVars, mem, left, final, held, nseq, halted>>

GetFree(t) ==
  /\ pc[t] = "get"
  /\ IF freeList = <<>>
       THEN Goto(t, "null") /\ UNCHANGED <<held, freeList>>
       ELSE /\ held' = [held EXCEPT ![t] = Head(freeList)]
            /\ freeList' = Tail(freeList)
            /\ Goto(t, "fill")
  /\ UNCHANGED <<usbVars, sendList, buf, cnt, reqBuf, mem, left, final, wait, nseq, halted>>

ReadStateWhenFullNoKick(t) ==     \* a full list is only waited for
  /\ pc[t] = "null"
  /\ Retry(t, "get", "check")
  /\ UNCHANGED <<usbVars, listVars, mem, left, final, held, nseq, halted>>
ReadStateWhenFullNotBusy(t) ==    \* LAST_DATA taken for idle
  /\ pc[t] = "null"
  /\ IF state # "BUSY"
       THEN Goto(t, "kick") /\ UNCHANGED wait
       ELSE Retry(t, "get", "check")
  /\ UNCHANGED <<usbVars, listVars, mem, left, final, held, nseq, halted>>

ReadStateWhenFull(t) ==
  /\ pc[t] = "null"
  /\ IF state = "IDLE"
       THEN Goto(t, "kick") /\ UNCHANGED wait
       ELSE Retry(t, "get", "check")
  /\ UNCHANGED <<usbVars, listVars, mem, left, final, held, nseq, halted>>

(* The state was IDLE and there was no free buffer: restart the transfer. *)
Kick(t, ok) ==
  /\ pc[t] = "kick"
  /\ IF sendList = <<>>
       THEN /\ halted' = TRUE
            /\ UNCHANGED <<usbVars, listVars, pc, wait>>
       ELSE /\ StartTransfer(ok)
            /\ Retry(t, "get", "check")
            /\ UNCHANGED halted
  /\ UNCHANGED <<mem, left, final, held, nseq>>

FillUncapped(t) ==                \* count not limited to DWC_REQ_SIZE
  /\ pc[t] = "fill"
  /\ LET c == [by |-> t, seq |-> nseq[t] + 1,
               len |-> (left[t] - 1) * Full + final[t]] IN
       /\ mem' = [mem EXCEPT ![buf[held[t]]] = c]
       /\ cnt' = [cnt EXCEPT ![held[t]] = c.len]
  /\ Goto(t, "append")
  /\ UNCHANGED <<usbVars, freeList, sendList, buf, reqBuf, left, final, wait, held, nseq, halted>>

Fill(t) ==
  /\ pc[t] = "fill"
  /\ LET c == [by |-> t, seq |-> nseq[t] + 1,
               len |-> IF left[t] = 1 THEN final[t] ELSE Full] IN
       /\ mem' = [mem EXCEPT ![buf[held[t]]] = c]
       /\ cnt' = [cnt EXCEPT ![held[t]] = c.len]
  /\ Goto(t, "append")
  /\ UNCHANGED <<usbVars, freeList, sendList, buf, reqBuf, left, final, wait, held, nseq, halted>>

AddToSendList(t) ==
  /\ pc[t] = "append"
  /\ sendList' = Append(sendList, held[t])
  /\ held' = [held EXCEPT ![t] = NoDesc]
  /\ nseq' = [nseq EXCEPT ![t] = @ + 1]
  /\ left' = [left EXCEPT ![t] = @ - 1]
  /\ Goto(t, IF left[t] > 1 THEN "get" ELSE "check")
  /\ UNCHANGED <<usbVars, freeList, buf, cnt, reqBuf, mem, final, wait, halted>>

(* The last look at the state, with the interrupt enabled. *)
CheckState(t) ==
  /\ pc[t] = "check"
  /\ Goto(t, IF state = "IDLE" THEN "last" ELSE "idle")
  /\ UNCHANGED <<usbVars, listVars, mem, left, final, wait, held, nseq, halted>>

LastKick(t, ok) ==
  /\ pc[t] = "last"
  /\ IF sendList = <<>> THEN UNCHANGED <<usbVars, listVars>> ELSE StartTransfer(ok)
  /\ Goto(t, "idle")
  /\ UNCHANGED <<mem, left, final, wait, held, nseq, halted>>

Step(t) ==
  \/ Call(t) \/ ReadEp(t) \/ GetFree(t) \/ ReadStateWhenFull(t)
  \/ Fill(t) \/ AddToSendList(t) \/ CheckState(t)
  \/ \E ok \in TaskQueue : Kick(t, ok) \/ LastKick(t, ok)

-----------------------------------------------------------------------------
(* set_interface(0): the response endpoint is enabled and a request of length
   0 is queued on it; the state passes through INITED before it is BUSY. *)
Configure ==
  /\ ~ready
  /\ ready' = TRUE /\ reqLen' = 0 /\ queued' = 1 /\ state' = "BUSY"
  /\ UNCHANGED <<wire, errors, listVars, mem, callVars, halted>>

\* What the host has received once the transfer in flight is over.
Received ==
  IF reqLen = 0 THEN wire ELSE Append(wire, [data |-> mem[reqBuf], len |-> reqLen])

SendNextKeepsCount(ok) ==         \* the freed buffer is not reset
  LET d == Head(sendList) IN
  /\ buf' = [buf EXCEPT ![d] = reqBuf] /\ reqBuf' = buf[d]
  /\ reqLen' = cnt[d] /\ UNCHANGED cnt
  /\ sendList' = Tail(sendList) /\ freeList' = Append(freeList, d)
  /\ state' = IF Len(sendList) = 1 THEN "LAST_DATA" ELSE "BUSY"
  /\ queued' = IF ok THEN queued ELSE queued - 1
SendNextAlwaysLast(ok) ==         \* LAST_DATA while the list is not empty
  LET d == Head(sendList) IN
  /\ buf' = [buf EXCEPT ![d] = reqBuf] /\ reqBuf' = buf[d]
  /\ reqLen' = cnt[d] /\ cnt' = [cnt EXCEPT ![d] = 0]
  /\ sendList' = Tail(sendList) /\ freeList' = Append(freeList, d)
  /\ state' = "LAST_DATA"
  /\ queued' = IF ok THEN queued ELSE queued - 1

SendNextKeepsLength(ok) ==        \* req->length is left as it was
  LET d == Head(sendList) IN
  /\ buf' = [buf EXCEPT ![d] = reqBuf] /\ reqBuf' = buf[d]
  /\ UNCHANGED reqLen
  /\ cnt' = [cnt EXCEPT ![d] = 0]
  /\ sendList' = Tail(sendList) /\ freeList' = Append(freeList, d)
  /\ state' = IF Len(sendList) = 1 THEN "LAST_DATA" ELSE "BUSY"
  /\ queued' = IF ok THEN queued ELSE queued - 1

\* BUSY and a buffer is waiting: send it next.
SendNext(ok) ==
  LET d == Head(sendList) IN
  /\ buf' = [buf EXCEPT ![d] = reqBuf] /\ reqBuf' = buf[d]
  /\ reqLen' = cnt[d]
  /\ cnt' = [cnt EXCEPT ![d] = 0]
  /\ sendList' = Tail(sendList) /\ freeList' = Append(freeList, d)
  /\ state' = IF Len(sendList) = 1 THEN "LAST_DATA" ELSE "BUSY"
  /\ queued' = IF ok THEN queued ELSE queued - 1

(* complete() with status 0, and in it ext_resp_in_ep_complete: only BUSY looks
   at the send list; after the last data the state is IDLE whatever the list
   holds by then; in the other states nothing is done. *)
Complete(ok) ==
  /\ queued > 0
  /\ wire' = Received
  /\ IF state = "BUSY" /\ sendList # <<>>
       THEN SendNext(ok)
       ELSE /\ queued' = queued - 1
            /\ state' = IF state \in {"BUSY", "LAST_DATA"} THEN "IDLE" ELSE state
            /\ UNCHANGED <<reqLen, listVars>>
  /\ UNCHANGED <<ready, errors, mem, callVars, halted>>

(* complete() with another status than 0 or -ESHUTDOWN: the transfer is tried
   again, with the length of a full buffer. *)
CompleteError ==
  /\ queued > 0 /\ errors < MaxErrors
  /\ errors' = errors + 1
  /\ reqLen' = Full
  /\ UNCHANGED <<ready, state, queued, wire, listVars, mem, callVars, halted>>

Next ==
  /\ ~halted
  /\ \/ \E t \in Senders : Step(t)
     \/ Configure
     \/ \E ok \in IsrQueue : Complete(ok)
     \/ CompleteError

(* A task in a call keeps running, the host enumerates the device and reads
   the endpoint, and the controller does not refuse a task for ever. *)
Fairness ==
  /\ \A t \in Senders :
       /\ WF_vars(~halted /\ pc[t] # "idle" /\ Step(t))
       /\ SF_vars(~halted /\ Kick(t, TRUE))
  /\ WF_vars(~halted /\ Configure)
  /\ WF_vars(~halted /\ \E ok \in IsrQueue : Complete(ok))

Spec == Init /\ [][Next]_vars
FairSpec == Spec /\ Fairness

-----------------------------------------------------------------------------
(* Ownership: descriptors are never lost or listed twice, and no two owners
   (descriptors, the request the controller reads by DMA) share a buffer. *)
DescsDisjoint ==
  /\ NoRepeat(freeList) /\ NoRepeat(sendList)
  /\ \A d \in Descs : ~(In(d, freeList) /\ In(d, sendList))
  /\ \A t \in Senders : held[t] # NoDesc =>
       ~In(held[t], freeList) /\ ~In(held[t], sendList)
  /\ \A t, u \in Senders : held[t] = held[u] /\ held[t] # NoDesc => t = u

NoDescLost ==
  \A d \in Descs : \/ In(d, freeList) \/ In(d, sendList)
                   \/ \E t \in Senders : held[t] = d

BuffersDistinct ==
  /\ \A d, e \in Descs : buf[d] = buf[e] => d = e
  /\ \A d \in Descs : buf[d] # reqBuf

\* The system's ownership discipline, for any number of senders.
Ownership == DescsDisjoint /\ NoDescLost /\ BuffersDistinct

(* The assertions on a buffer taken from the free list (count, offset and size
   are those of an empty buffer) hold for whoever takes it next. *)
FreeBuffersReset ==
  /\ \A i \in 1 .. Len(freeList) : cnt[freeList[i]] = 0
  /\ \A t \in Senders : pc[t] = "fill" => cnt[held[t]] = 0

(* uvc_camera.c:2007, "DMA is idle, get one acm_buf from send list and start
   transfer": the request is never queued while the controller still has it, for
   then the buffer under the running DMA goes to the free list.  True of one
   sender; two senders that both read IDLE break it, and what the host receives
   after that is not modelled. *)
OneTransfer == queued <= 1

(* The channel is a FIFO pipe: chunks reach the host in the order in which the
   calls appended them, each once, an errored and repeated transfer included,
   and none is lost between the lists and the request.  What a buffer holds is a
   chunk or nothing.  A chunk whose transfer was refused to the interrupt is still
   in flight: it stops the pipe. *)
Content(c) == IF c = NoData THEN <<>> ELSE <<c>>
InFlight == IF state # "IDLE" /\ reqLen > 0 THEN Content(mem[reqBuf]) ELSE <<>>
Listed == [i \in 1 .. Len(sendList) |-> mem[buf[sendList[i]]]]
OnWire == FlattenSeq([i \in 1 .. Len(wire) |-> Content(wire[i].data)])
Pipe == INSTANCE FifoPipe WITH waiting <- InFlight \o Listed, passed <- OnWire
PipeSpec == Pipe!Spec

(* uvc_camera.c:1281, the request is queued again with the length of a full buffer
   after an error: the host is told a wrong length for as many transfers as ended
   with an error, at most.  Every other transfer has the length of what its buffer
   holds, however often buffer and count have changed hands: a wrong length never
   outlives its transfer. *)
LenOf(c) == IF c = NoData THEN 0 ELSE c.len
Spoiled == {i \in 1 .. Len(wire) : wire[i].len # LenOf(wire[i].data)}
LengthsKept == Cardinality(Spoiled) <= errors

(* A call with USB_FUNC_WAIT_FOREVER on a configured device returns: neither
   the LAST_DATA to IDLE step nor a refused request leaves it polling for ever. *)
ForeverReturns ==
  \A t \in Senders :
    (ready /\ pc[t] # "idle" /\ wait[t] = -1) ~> (pc[t] = "idle" \/ halted)

(* What is in the send list while the state is BUSY is sent by the interrupt
   handler alone, without another call. *)
Delivered(t, n) == \E i \in 1 .. Len(wire) : wire[i].data # NoData
                                          /\ wire[i].data.by = t /\ wire[i].data.seq = n
Waiting(t, n) == \E i \in 1 .. Len(sendList) :
  LET c == mem[buf[sendList[i]]] IN c # NoData /\ c.by = t /\ c.seq = n
BusyDrains ==
  \A t \in Senders, n \in 1 .. MaxSeq :
    (state = "BUSY" /\ Waiting(t, n)) ~> (Delivered(t, n) \/ halted)

(* uvc_camera.c:1235, "All data are sent, switch to ready state to start a new
   request": once the channel is idle and no call is in progress to restart it,
   nothing is left in the send list. *)
AllSentWhenIdle ==
  state = "IDLE" /\ (\A t \in Senders : pc[t] = "idle") => sendList = <<>>

(* uvc_camera.c:1941, "All buffers are in send list, it must not be NULL!!!",
   and the assertion under it. *)
KickFindsBuffer == ~halted
=============================================================================
