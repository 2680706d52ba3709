----------------------------- MODULE UvcStream -----------------------------
(***************************************************************************)
(* Video over the bulk endpoint of uvc_camera.c.  A task commits frames    *)
(* (usb_bulk_commit_frame, the whole of it under the mutex); the interrupt *)
(* (video_in_ep_complete) sends them part by part through one request; and *)
(* the host starts and stops the stream, also in the interrupt             *)
(* (uvc_start_stream, uvc_stop_stream).  The interrupt is masked only      *)
(* around the exchanges of frame pointers: the rest of a commit, its       *)
(* reading of the state first of all, is interleaved with it.              *)
(*                                                                         *)
(* The endpoint is enabled and the request allocated throughout.           *)
(***************************************************************************)
EXTENDS Integers

CONSTANTS
  Frames,     \* the frame buffers of the pool
  NoFrame,    \* NULL
  Formats,    \* frame formats the host may choose
  MaxCommit,  \* MAX_COMMIT_CNT
  Queue,      \* what ep->ops->queue may answer (TRUE: accepted)
  MaxParts,   \* bound: transfers a frame is cut into (VIDEO_MAX_DATA_SIZE)
  MaxSeq,     \* bound: frames committed
  MaxHost,    \* bound: starts and stops of the stream by the host
  MaxErrors   \* bound: transfers that fail and are repeated

ASSUME StreamAssumption ==
  /\ NoFrame \notin Frames /\ Queue \subseteq BOOLEAN /\ Formats # {}
  /\ MaxCommit \in Nat \ {0} /\ MaxParts \in Nat \ {0}
  /\ MaxSeq \in Nat /\ MaxHost \in Nat /\ MaxErrors \in Nat

VARIABLES
  started,    \* m_uvc_strm_started
  format,     \* the format the user's start callback was given
  state,      \* m_uvc_stream_state
  current,    \* m_cur_frame
  next,       \* m_ready_frame
  updated,    \* m_ready_frame_updated
  remain,     \* m_remain_size, in parts
  fid,        \* UVC_HEADER_FRAME_ID of g_uvc_header
  req,        \* the request: frame and part it points to, header, full length
  queued,     \* times the request is in the controller's queue
  timeout, preRemain,  \* the static counters of usb_bulk_commit_frame
  free,       \* frames with reference count 0
  meta,       \* frame -> number of its content, parts, format
  pc, arg, seen, nseq,  \* the commit in progress, its frame, the state it read
  last,       \* the latest part the host has received
  commands, errors,
  failed,     \* history: the transfer in flight has ended with an error before
  cut,        \* a start or a stop came while a transfer was in flight
  halted      \* a configASSERT failed and stopped the system

hostVars   == <<started, format, commands, cut>>
frameVars  == <<current, next, updated, free, meta>>
xferVars   == <<remain, fid, req, queued>>
countVars  == <<timeout, preRemain>>
commitVars == <<pc, arg, seen, nseq>>
wireVars   == <<last, errors, failed>>
vars == <<hostVars, state, frameVars, xferVars, countVars, commitVars, wireVars, halted>>

States == {"UNINITED", "INITED", "IDLE", "BUSY", "LAST_DATA"}
PCs == {"idle", "enter", "read", "act", "inited", "ready", "pending", "exchange"}
Held == Frames \cup {NoFrame}
Parts == [frame : Held, part : Nat, eof : BOOLEAN, fid : {0, 1}, whole : BOOLEAN]

TypeOK ==
  /\ started \in BOOLEAN /\ updated \in BOOLEAN /\ cut \in BOOLEAN
  /\ halted \in BOOLEAN /\ failed \in BOOLEAN
  /\ state \in States /\ format \in Formats
  /\ current \in Held /\ next \in Held /\ arg \in Held /\ free \subseteq Frames
  /\ remain \in 0 .. MaxParts /\ preRemain \in 0 .. MaxParts /\ fid \in {0, 1}
  /\ req \in Parts /\ queued \in Nat
  /\ timeout \in 1 .. MaxCommit
  /\ meta \in [Frames -> [seq : 0 .. MaxSeq, parts : 1 .. MaxParts, fmt : Formats]]
  /\ pc \in PCs /\ seen \in States /\ nseq \in 0 .. MaxSeq
  /\ last \in [seq : 0 .. MaxSeq, part : Nat, eof : BOOLEAN, fid : {0, 1}, whole : BOOLEAN,
               turn : {0, 1}]
  /\ commands \in 0 .. MaxHost /\ errors \in 0 .. MaxErrors

Init ==
  /\ started = FALSE /\ state = "UNINITED" /\ format \in Formats
  /\ current = NoFrame /\ next = NoFrame /\ updated = FALSE
  /\ remain = 0 /\ fid = 0 /\ queued = 0
  /\ req = [frame |-> NoFrame, part |-> 1, eof |-> FALSE, fid |-> 0, whole |-> TRUE]
  /\ timeout = MaxCommit /\ preRemain = 0
  /\ free = Frames
  /\ meta = [f \in Frames |-> [seq |-> 0, parts |-> 1, fmt |-> format]]
  /\ pc = "idle" /\ arg = NoFrame /\ seen = "UNINITED" /\ nseq = 0
  /\ last = [seq |-> 0, part |-> 1, eof |-> TRUE, fid |-> 1, whole |-> TRUE, turn |-> 0]
  /\ commands = 0 /\ errors = 0 /\ failed = FALSE /\ cut = FALSE /\ halted = FALSE

-----------------------------------------------------------------------------
\* Variants with one plausible slip each, here and below, for the mutation runs.
UpdateRequestKeepsLength(f, p, left) ==
  /\ req' = [frame |-> f, part |-> p, eof |-> left <= 1, fid |-> fid, whole |-> req.whole]
  /\ remain' = IF left > 0 THEN left - 1 ELSE 0
  /\ fid' = IF left <= 1 THEN 1 - fid ELSE fid

(* update_uvc_request: the part at which the request now points gets a header;
   after the last part of a frame the frame id toggles. *)
UpdateRequest(f, p, left) ==
  /\ req' = [frame |-> f, part |-> p, eof |-> left <= 1, fid |-> fid, whole |-> TRUE]
  /\ remain' = IF left > 0 THEN left - 1 ELSE 0
  /\ fid' = IF left <= 1 THEN 1 - fid ELSE fid

\* The first part of frame f.
BeginFrame(f) ==
  /\ UpdateRequest(f, 1, meta[f].parts)
  /\ state' = IF remain' # 0 THEN "BUSY" ELSE "LAST_DATA"

\* SWAP_FRAME_BUFS asserts that the two frames have one format.
SameFormat(f, g) == meta[f].fmt = meta[g].fmt
Release(f) == free' = free \cup {f}
Done == pc' = "idle" /\ arg' = NoFrame

-----------------------------------------------------------------------------
(* The task, told by the start callback that the stream runs, has a frame from
   the pool filled in the format it was given then, and commits it. *)
Commit ==
  /\ pc = "idle" /\ started /\ nseq < MaxSeq
  /\ \E f \in free, n \in 1 .. MaxParts :
       /\ arg' = f /\ free' = free \ {f}
       /\ meta' = [meta EXCEPT ![f] = [seq |-> nseq + 1, parts |-> n, fmt |-> format]]
  /\ nseq' = nseq + 1 /\ pc' = "enter"
  /\ UNCHANGED <<hostVars, state, current, next, updated, xferVars, countVars, seen,
                 wireVars, halted>>

Enter ==
  /\ pc = "enter"
  /\ IF started
       THEN pc' = "read" /\ UNCHANGED <<arg, free>>
       ELSE Done /\ Release(arg)
  /\ UNCHANGED <<hostVars, state, current, next, updated, meta, xferVars, countVars, seen,
                 nseq, wireVars, halted>>

ReadState ==
  /\ pc = "read"
  /\ seen' = state /\ pc' = "act"
  /\ UNCHANGED <<hostVars, state, frameVars, xferVars, countVars, arg, nseq, wireVars, halted>>

KeepFirstLeaks ==                 \* the old current frame is not released
  /\ pc = "act" /\ seen = "UNINITED"
  /\ current' = arg /\ remain' = 0 /\ arg' = NoFrame
  /\ pc' = "inited"
  /\ UNCHANGED <<hostVars, state, next, updated, free, meta, fid, req, queued, countVars,
                 seen, nseq, wireVars, halted>>

\* The first two frames of a stream are kept, as current and as next frame.
KeepFirst ==
  /\ pc = "act" /\ seen = "UNINITED"
  /\ IF current = NoFrame THEN UNCHANGED free ELSE Release(current)
  /\ current' = arg /\ remain' = 0 /\ arg' = NoFrame
  /\ pc' = "inited"
  /\ UNCHANGED <<hostVars, state, next, updated, meta, fid, req, queued, countVars,
                 seen, nseq, wireVars, halted>>

KeepSecond ==
  /\ pc = "act" /\ seen = "INITED"
  /\ IF next = NoFrame THEN UNCHANGED free ELSE Release(next)
  /\ next' = arg /\ remain' = 0 /\ arg' = NoFrame
  /\ pc' = "ready"
  /\ UNCHANGED <<hostVars, state, current, updated, meta, fid, req, queued, countVars,
                 seen, nseq, wireVars, halted>>

\* The state is written last, whatever the interrupt has made of it since.
SetKept ==
  /\ pc \in {"inited", "ready"}
  /\ state' = IF pc = "inited" THEN "INITED" ELSE "IDLE"
  /\ pc' = "idle"
  /\ UNCHANGED <<hostVars, frameVars, xferVars, countVars, arg, seen, nseq, wireVars, halted>>

(* IDLE: the frame committed is sent, or the pending one, which it then
   replaces; updated stays as it was. *)
SendWhenIdle(ok) ==
  /\ pc = "act" /\ seen = "IDLE"
  /\ IF SameFormat(current, IF updated THEN next ELSE arg)
          /\ (updated => SameFormat(current, arg))
       THEN /\ current' = IF updated THEN next ELSE arg
            /\ next' = IF updated THEN arg ELSE next
            /\ Release(current)
            /\ BeginFrame(current')
            /\ queued' = IF ok THEN queued + 1 ELSE queued
            /\ Done /\ UNCHANGED halted
       ELSE halted' = TRUE /\ UNCHANGED <<current, next, free, state, xferVars, pc, arg>>
  /\ UNCHANGED <<hostVars, updated, meta, timeout, preRemain, seen, nseq, wireVars>>

WatchTransferLate ==              \* one commit too late
  /\ pc = "act" /\ seen \in {"BUSY", "LAST_DATA"}
  /\ preRemain' = remain
  /\ LET t == IF preRemain # remain THEN MaxCommit ELSE timeout - 1 IN
       IF t < 0
         THEN /\ timeout' = MaxCommit
              /\ req' = IF queued > 0 THEN [req EXCEPT !.whole = FALSE] ELSE req
              /\ failed' = (failed \/ queued > 0)
         ELSE timeout' = t /\ UNCHANGED <<req, failed>>
  /\ pc' = "pending"
  /\ UNCHANGED <<hostVars, state, frameVars, remain, fid, queued, arg, seen, nseq,
                 last, errors, halted>>

(* BUSY, LAST_DATA: count the commits between which m_remain_size has not
   changed.  When there are too many, dequeue the request; it completes with an
   error and complete() queues it again, with another length. *)
WatchTransfer ==
  /\ pc = "act" /\ seen \in {"BUSY", "LAST_DATA"}
  /\ preRemain' = remain
  /\ LET t == IF preRemain # remain THEN MaxCommit ELSE timeout - 1 IN
       IF t <= 0
         THEN /\ timeout' = MaxCommit
              /\ req' = IF queued > 0 THEN [req EXCEPT !.whole = FALSE] ELSE req
              /\ failed' = (failed \/ queued > 0)
         ELSE timeout' = t /\ UNCHANGED <<req, failed>>
  /\ pc' = "pending"
  /\ UNCHANGED <<hostVars, state, frameVars, remain, fid, queued, arg, seen, nseq,
                 last, errors, halted>>

\* A frame that finds another one pending is dropped.
ReadPending ==
  /\ pc = "pending"
  /\ IF updated
       THEN Done /\ Release(arg)
       ELSE pc' = "exchange" /\ UNCHANGED <<arg, free>>
  /\ UNCHANGED <<hostVars, state, current, next, updated, meta, xferVars, countVars, seen,
                 nseq, wireVars, halted>>

ExchangeNext ==
  /\ pc = "exchange"
  /\ IF SameFormat(next, arg)
       THEN next' = arg /\ Release(next) /\ updated' = TRUE /\ Done /\ UNCHANGED halted
       ELSE halted' = TRUE /\ UNCHANGED <<next, free, updated, pc, arg>>
  /\ UNCHANGED <<hostVars, state, current, meta, xferVars, countVars, seen, nseq, wireVars>>

CommitStep ==
  \/ Commit \/ Enter \/ ReadState \/ KeepFirst \/ KeepSecond \/ SetKept
  \/ WatchTransfer \/ ReadPending \/ ExchangeNext
  \/ \E ok \in Queue : SendWhenIdle(ok)

-----------------------------------------------------------------------------
\* What the host has received once the transfer in flight is over: the part with its own
\* length, or DWC_REQ_SIZE bytes of it.
Receive ==
  /\ last' = [seq |-> meta[req.frame].seq, part |-> req.part, eof |-> req.eof,
              fid |-> req.fid, whole |-> req.whole, turn |-> 1 - last.turn]
  /\ failed' = FALSE

NextPart(ok) ==
  /\ UpdateRequest(req.frame, req.part + 1, remain)
  /\ state' = IF remain' # 0 THEN "BUSY" ELSE "LAST_DATA"
  /\ queued' = IF ok THEN queued ELSE queued - 1
  /\ UNCHANGED frameVars

NextFrameStays(ok) ==             \* m_ready_frame_updated is not cleared
  /\ BeginFrame(next)
  /\ current' = next /\ next' = current
  /\ meta' = [meta EXCEPT ![current].fmt = meta[next].fmt]
  /\ UNCHANGED <<free, updated>>
  /\ queued' = IF ok THEN queued ELSE queued - 1
NextFrameNoSwap(ok) ==            \* the pointers are not exchanged
  /\ BeginFrame(next)
  /\ updated' = FALSE
  /\ UNCHANGED <<current, next, free, meta>>
  /\ queued' = IF ok THEN queued ELSE queued - 1

\* The assertion on the formats assigns: the old current frame is relabelled.
NextFrame(ok) ==
  /\ BeginFrame(next)
  /\ current' = next /\ next' = current /\ updated' = FALSE
  /\ meta' = [meta EXCEPT ![current].fmt = meta[next].fmt]
  /\ UNCHANGED free
  /\ queued' = IF ok THEN queued ELSE queued - 1

CompleteStaysLast(ok) ==          \* the state does not become IDLE
  /\ queued > 0
  /\ Receive
  /\ CASE state = "BUSY" -> NextPart(ok)
       [] state = "LAST_DATA" /\ started /\ updated -> NextFrame(ok)
       [] OTHER ->
            /\ queued' = queued - 1
            /\ UNCHANGED <<state, remain, fid, req, frameVars>>
  /\ UNCHANGED <<hostVars, timeout, preRemain, commitVars, errors, halted>>

\* video_in_ep_complete after a whole transfer.
Complete(ok) ==
  /\ queued > 0
  /\ Receive
  /\ CASE state = "BUSY" -> NextPart(ok)
       [] state = "LAST_DATA" /\ started /\ updated -> NextFrame(ok)
       [] OTHER ->
            /\ queued' = queued - 1
            /\ state' = IF state = "LAST_DATA" THEN "IDLE" ELSE state
            /\ UNCHANGED <<remain, fid, req, frameVars>>
  /\ UNCHANGED <<hostVars, timeout, preRemain, commitVars, errors, halted>>

(* A transfer that ended short is queued again as it is; one that ended with an
   error, with the length DWC_REQ_SIZE whatever the part's is. *)
Fail(short) ==
  /\ queued > 0 /\ errors < MaxErrors
  /\ errors' = errors + 1
  /\ req' = IF short THEN req ELSE [req EXCEPT !.whole = FALSE]
  /\ failed' = (failed \/ ~short)
  /\ UNCHANGED <<hostVars, state, frameVars, remain, fid, queued, countVars, commitVars,
                 last, halted>>

-----------------------------------------------------------------------------
\* COMMIT_CTRL SET_CUR: uvc_start_stream, which stops a running stream first.
Start(fmt) ==
  /\ commands < MaxHost /\ commands' = commands + 1
  /\ state' = IF started \/ state # "IDLE" THEN "UNINITED" ELSE state
  /\ started' = TRUE /\ format' = fmt /\ updated' = FALSE
  /\ cut' = (cut \/ queued > 0)
  /\ UNCHANGED <<current, next, free, meta, xferVars, countVars, commitVars, wireVars, halted>>

\* SET_INTERFACE 0 of the streaming interface while 0 is selected: it calls
\* uvc_stop_stream and leaves the endpoints alone.
Stop ==
  /\ commands < MaxHost /\ commands' = commands + 1
  /\ started
  /\ started' = FALSE /\ state' = "UNINITED"
  /\ cut' = (cut \/ queued > 0)
  /\ UNCHANGED <<format, frameVars, xferVars, countVars, commitVars, wireVars, halted>>

Next ==
  /\ ~halted
  /\ \/ CommitStep
     \/ \E ok \in Queue : Complete(ok)
     \/ \E short \in BOOLEAN : Fail(short)
     \/ \E fmt \in Formats : Start(fmt)
     \/ Stop

\* The task keeps running inside a commit and the host keeps reading.
Fairness ==
  /\ WF_vars(~halted /\ pc # "idle" /\ CommitStep)
  /\ WF_vars(~halted /\ \E ok \in Queue : Complete(ok))

Spec == Init /\ [][Next]_vars
FairSpec == Spec /\ Fairness

-----------------------------------------------------------------------------
(* Frames are neither leaked nor released twice, through starts and stops at
   any moment of a commit: current, next and the frame being committed are
   different frames, and all others are back in the pool. *)
Apart(f, g) == f = g => f = NoFrame
FramesAccounted ==
  /\ free = Frames \ {current, next, arg}
  /\ Apart(current, next) /\ Apart(current, arg) /\ Apart(next, arg)

(* The controller reads the current frame and no other: a frame is not released
   or refilled while it is being sent, as long as the host does not start or
   stop the stream in the middle of a transfer. *)
DmaReadsCurrent == ~cut /\ queued > 0 => req.frame = current

(* One transfer at a time, and the state says whether there is one. *)
StateTellsTransfer ==
  ~cut => queued = IF state \in {"BUSY", "LAST_DATA"} THEN 1 ELSE 0

(* What the host receives is frames in the order in which they were committed,
   none twice: after a part comes the next part of the same frame, with the
   same frame id; after the end of a frame the first part of a later frame,
   with the other frame id.  The frames are not always whole: a part whose own
   transfer ended with an error is sent again with the length DWC_REQ_SIZE
   (uvc_camera.c:1281), so a longer one is cut and a shorter one padded.  No
   other part is: the wrong length ends with the transfer. *)
Follows(a, b) ==
  IF a.eof
    THEN b.part = 1 /\ b.seq > a.seq /\ b.fid # a.fid
    ELSE b.part = a.part + 1 /\ b.seq = a.seq /\ b.fid = a.fid
FramesInOrder ==
  [][last' # last /\ ~cut => Follows(last, last') /\ (last'.whole \/ failed)]_vars

(* A frame handed over while another is being sent is sent after it, without
   another commit. *)
PendingTaken ==
  (updated /\ state \in {"BUSY", "LAST_DATA"}) ~> (~updated \/ ~started \/ halted)

(* SWAP_FRAME_BUFS asserts that two frames it exchanges have one format. *)
FormatsAgree == ~halted
=============================================================================
