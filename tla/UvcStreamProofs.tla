--------------------------- MODULE UvcStreamProofs ---------------------------
(***************************************************************************)
(* Bulk video for any number of frames, parts and commits, and any moments *)
(* at which the host starts and stops the stream: types and ownership of   *)
(* the frames; and, until a start or stop cuts a transfer, that the        *)
(* controller reads the current frame, that the state tells whether it     *)
(* does, and that the host receives the frames in order, whole but for the *)
(* parts whose own transfer failed.                                        *)
(***************************************************************************)
EXTENDS UvcStream, TLAPS

(* Which pointers are set.  Once set, the current and the next frame are replaced and never
   taken away; the task holds a frame from the pool until it has placed or dropped it. *)
Kept ==
  /\ arg # NoFrame <=> pc \in {"enter", "read", "act", "pending", "exchange"}
  /\ state # "UNINITED" \/ seen # "UNINITED" \/ pc \in {"inited", "ready"} => current # NoFrame
  /\ state \notin {"UNINITED", "INITED"} \/ seen \notin {"UNINITED", "INITED"} \/ pc = "ready"
       => next # NoFrame
  /\ pc \in {"pending", "exchange"} => seen \in {"BUSY", "LAST_DATA"}
  /\ queued > 0 => req.frame # NoFrame

FrameInv == TypeOK /\ Kept /\ FramesAccounted

LEMMA FrameInit == Init => FrameInv
<1> SUFFICES ASSUME Init PROVE FrameInv
  OBVIOUS
<1> USE StreamAssumption DEF Init
<1>1. 1 \in 1 .. MaxParts /\ 0 \in 0 .. MaxParts /\ 0 \in 0 .. MaxSeq /\ MaxCommit \in 1 .. MaxCommit
      /\ 0 \in 0 .. MaxHost /\ 0 \in 0 .. MaxErrors /\ 0 \in Nat /\ 1 \in Nat
  BY SMT
<1>2. meta \in [Frames -> [seq : 0 .. MaxSeq, parts : 1 .. MaxParts, fmt : Formats]]
  BY <1>1
<1>3. TypeOK
  BY <1>1, <1>2 DEF TypeOK, Held, Parts, States, PCs
<1>4. Kept
  BY SMT DEF Kept
<1>5. FramesAccounted
  BY DEF FramesAccounted, Apart
<1> QED BY <1>3, <1>4, <1>5 DEF FrameInv

-----------------------------------------------------------------------------
(* The helpers keep the types of what they write. *)
LEMMA UpdateRequestType ==
  ASSUME TypeOK, NEW f \in Held, NEW p \in Nat, NEW left \in 0 .. MaxParts,
         UpdateRequest(f, p, left)
  PROVE  /\ req' \in Parts /\ req'.frame = f
         /\ remain' \in 0 .. MaxParts /\ fid' \in {0, 1}
<1>1. fid \in {0, 1}
  BY DEF TypeOK
<1>2. req' = [frame |-> f, part |-> p, eof |-> left <= 1, fid |-> fid, whole |-> TRUE]
  BY DEF UpdateRequest
<1>3. (left <= 1) \in BOOLEAN
  OBVIOUS
<1>4. req' \in Parts /\ req'.frame = f
  BY <1>1, <1>2, <1>3 DEF Parts
<1>5. remain' \in 0 .. MaxParts
  BY StreamAssumption, SMT DEF UpdateRequest
<1>6. fid' \in {0, 1}
  BY <1>1, SMT DEF UpdateRequest
<1> QED BY <1>4, <1>5, <1>6

LEMMA BeginFrameType ==
  ASSUME TypeOK, NEW f \in Frames, BeginFrame(f)
  PROVE  /\ req' \in Parts /\ req'.frame = f
         /\ remain' \in 0 .. MaxParts /\ fid' \in {0, 1} /\ state' \in {"BUSY", "LAST_DATA"}
<1>1. f \in Held /\ 1 \in Nat /\ meta[f].parts \in 1 .. MaxParts
  BY DEF TypeOK, Held
<1>2. meta[f].parts \in 0 .. MaxParts
  BY <1>1, StreamAssumption, SMT
<1>3. UpdateRequest(f, 1, meta[f].parts) /\ state' \in {"BUSY", "LAST_DATA"}
  BY DEF BeginFrame
<1> QED BY <1>1, <1>2, <1>3, UpdateRequestType

LEMMA CommitFrame == FrameInv /\ Commit => FrameInv'
<1> SUFFICES ASSUME FrameInv, Commit PROVE FrameInv'
  OBVIOUS
<1>0. TypeOK /\ Kept /\ FramesAccounted
  BY DEF FrameInv
<1>1. PICK f \in free, n \in 1 .. MaxParts :
        /\ arg' = f /\ free' = free \ {f}
        /\ meta' = [meta EXCEPT ![f] = [seq |-> nseq + 1, parts |-> n, fmt |-> format]]
  BY DEF Commit
<1>2. /\ pc = "idle" /\ nseq < MaxSeq /\ nseq' = nseq + 1 /\ pc' = "enter"
      /\ UNCHANGED <<hostVars, state, current, next, updated, xferVars, countVars, seen,
                     wireVars, halted>>
  BY DEF Commit
<1>3. f \in Frames /\ f # NoFrame /\ f \notin {current, next}
  BY <1>0, StreamAssumption DEF TypeOK, FramesAccounted, Apart
<1>4. nseq' \in 0 .. MaxSeq
  BY <1>0, <1>2, StreamAssumption, SMT DEF TypeOK
<1>5. meta' \in [Frames -> [seq : 0 .. MaxSeq, parts : 1 .. MaxParts, fmt : Formats]]
  BY <1>0, <1>1, <1>2, <1>3, <1>4 DEF TypeOK
<1>6. TypeOK'
  <2>1. arg' \in Held /\ pc' \in PCs
    BY <1>1, <1>2, <1>3 DEF PCs, Held
  <2>2. free \subseteq Frames
    BY <1>0 DEF TypeOK
  <2>3. free' \subseteq Frames
    BY <1>1, <2>2
  <2> QED BY <1>0, <1>2, <1>4, <1>5, <2>1, <2>3 DEF TypeOK, hostVars, xferVars, countVars, wireVars
<1>7. Kept'
  BY <1>0, <1>1, <1>2, <1>3 DEF Kept, xferVars
<1>8. FramesAccounted'
  <2>1. arg = NoFrame
    BY <1>0, <1>2 DEF Kept
  <2>2. free = Frames \ {current, next}
    BY <1>0, <2>1, StreamAssumption DEF FramesAccounted, Apart
  <2>3. free' = Frames \ {current', next', arg'}
    BY <1>1, <1>2, <2>2
  <2> QED BY <1>0, <1>1, <1>2, <1>3, <2>3 DEF FramesAccounted, Apart
<1> QED BY <1>6, <1>7, <1>8 DEF FrameInv

LEMMA EnterFrame == FrameInv /\ (Enter \/ ReadPending) => FrameInv'
<1> SUFFICES ASSUME FrameInv, Enter \/ ReadPending PROVE FrameInv'
  OBVIOUS
<1>0. TypeOK /\ Kept /\ FramesAccounted
  BY DEF FrameInv
<1>1. /\ pc \in {"enter", "pending"} /\ arg # NoFrame /\ arg \in Frames
      /\ UNCHANGED <<hostVars, state, current, next, updated, meta, xferVars, countVars, seen,
                     nseq, wireVars, halted>>
  BY <1>0 DEF Enter, ReadPending, Kept, TypeOK, Held
<1>2. \/ pc' = "idle" /\ arg' = NoFrame /\ free' = free \cup {arg}
      \/ /\ (pc = "enter" /\ pc' = "read") \/ (pc = "pending" /\ pc' = "exchange")
         /\ UNCHANGED <<arg, free>>
  BY DEF Enter, ReadPending, Done, Release
<1>3. TypeOK'
  BY <1>0, <1>1, <1>2 DEF TypeOK, PCs, Held, hostVars, xferVars, countVars, wireVars
<1>4. Kept'
  <2>1. pc \notin {"inited", "ready"} /\ pc' \notin {"inited", "ready"}
        /\ (pc' \in {"pending", "exchange"} => pc \in {"pending", "exchange"})
    BY <1>1, <1>2
  <2>2. arg' # NoFrame <=> pc' \in {"enter", "read", "act", "pending", "exchange"}
    BY <1>1, <1>2
  <2> QED BY <1>0, <1>1, <2>1, <2>2 DEF Kept, xferVars
<1>5. FramesAccounted'
  <2>1. current # arg /\ next # arg
    BY <1>0, <1>1 DEF FramesAccounted, Apart
  <2>2. CASE arg' = NoFrame /\ free' = free \cup {arg}
    BY <1>0, <1>1, <2>1, <2>2, StreamAssumption DEF FramesAccounted, Apart
  <2>3. CASE UNCHANGED <<arg, free>>
    BY <1>0, <1>1, <2>3 DEF FramesAccounted, Apart
  <2> QED BY <1>2, <2>2, <2>3
<1> QED BY <1>3, <1>4, <1>5 DEF FrameInv

LEMMA ReadStateFrame == FrameInv /\ (ReadState \/ WatchTransfer) => FrameInv'
<1> SUFFICES ASSUME FrameInv, ReadState \/ WatchTransfer PROVE FrameInv'
  OBVIOUS
<1>0. TypeOK /\ Kept /\ FramesAccounted
  BY DEF FrameInv
<1>1. CASE ReadState
  <2>1. /\ pc = "read" /\ seen' = state /\ pc' = "act"
        /\ UNCHANGED <<hostVars, state, frameVars, xferVars, countVars, arg, nseq, wireVars,
                       halted>>
    BY <1>1 DEF ReadState
  <2>2. TypeOK'
    BY <1>0, <2>1
       DEF TypeOK, PCs, Held, hostVars, frameVars, xferVars, countVars, wireVars
  <2>3. Kept'
    BY <1>0, <2>1 DEF Kept, xferVars, frameVars
  <2>4. FramesAccounted'
    BY <1>0, <2>1 DEF FramesAccounted, Apart, frameVars
  <2> QED BY <2>2, <2>3, <2>4 DEF FrameInv
<1>2. CASE WatchTransfer
  <2>1. /\ pc = "act" /\ seen \in {"BUSY", "LAST_DATA"} /\ pc' = "pending" /\ preRemain' = remain
        /\ UNCHANGED <<hostVars, state, frameVars, remain, fid, queued, arg, seen, nseq,
                       last, errors, halted>>
    BY <1>2 DEF WatchTransfer
  <2>2. timeout' \in 1 .. MaxCommit
    <3>1. timeout \in 1 .. MaxCommit
      BY <1>0 DEF TypeOK
    <3>2. \/ timeout' = MaxCommit
          \/ timeout' = timeout - 1 /\ ~(timeout - 1 <= 0)
      BY <1>2 DEF WatchTransfer
    <3> QED BY <3>1, <3>2, StreamAssumption, SMT
  <2>3. req' = req \/ req' = [req EXCEPT !.whole = FALSE]
    BY <1>2 DEF WatchTransfer
  <2>4. req' \in Parts /\ req'.frame = req.frame
    BY <1>0, <2>3 DEF TypeOK, Parts
  <2>5. failed' \in BOOLEAN
    BY <1>0, <1>2 DEF WatchTransfer, TypeOK
  <2>6. TypeOK'
    BY <1>0, <2>1, <2>2, <2>4, <2>5 DEF TypeOK, PCs, Held, hostVars, frameVars
  <2>7. Kept'
    BY <1>0, <2>1, <2>4 DEF Kept, frameVars
  <2>8. FramesAccounted'
    BY <1>0, <2>1 DEF FramesAccounted, Apart, frameVars
  <2> QED BY <2>6, <2>7, <2>8 DEF FrameInv
<1> QED BY <1>1, <1>2

LEMMA KeepFrame == FrameInv /\ (KeepFirst \/ KeepSecond \/ SetKept) => FrameInv'
<1> SUFFICES ASSUME FrameInv, KeepFirst \/ KeepSecond \/ SetKept PROVE FrameInv'
  OBVIOUS
<1>0. TypeOK /\ Kept /\ FramesAccounted
  BY DEF FrameInv
<1>1. CASE KeepFirst
  <2>1. /\ pc = "act" /\ seen = "UNINITED" /\ pc' = "inited"
        /\ current' = arg /\ remain' = 0 /\ arg' = NoFrame
        /\ UNCHANGED <<hostVars, state, next, updated, meta, fid, req, queued, countVars,
                       seen, nseq, wireVars, halted>>
    BY <1>1 DEF KeepFirst
  <2>2. arg # NoFrame /\ arg \in Frames /\ free \subseteq Frames /\ current \in Held
    BY <1>0, <2>1 DEF Kept, TypeOK, Held
  <2>3. free' = IF current = NoFrame THEN free ELSE free \cup {current}
    BY <1>1 DEF KeepFirst, Release
  <2>4. free' \subseteq Frames
    BY <2>2, <2>3 DEF Held
  <2>5. remain' \in 0 .. MaxParts
    BY <2>1, StreamAssumption, SMT
  <2>6. TypeOK'
    BY <1>0, <2>1, <2>2, <2>4, <2>5 DEF TypeOK, PCs, Held, hostVars, countVars, wireVars
  <2>7. Kept'
    BY <1>0, <2>1, <2>2 DEF Kept
  <2>8. FramesAccounted'
    <3>1. free = Frames \ {current, next, arg} /\ arg # next
      BY <1>0, <2>2 DEF FramesAccounted, Apart
    <3>2. current = NoFrame \/ current \notin {next, arg}
      BY <1>0 DEF FramesAccounted, Apart
    <3>3. free' = Frames \ {arg, next}
      BY <2>2, <2>3, <3>1, <3>2, StreamAssumption DEF Held
    <3>4. free' = Frames \ {arg, next, NoFrame}
      BY <3>3, StreamAssumption
    <3> QED BY <2>1, <3>1, <3>4, <2>2 DEF FramesAccounted, Apart
  <2> QED BY <2>6, <2>7, <2>8 DEF FrameInv
<1>2. CASE KeepSecond
  <2>1. /\ pc = "act" /\ seen = "INITED" /\ pc' = "ready"
        /\ next' = arg /\ remain' = 0 /\ arg' = NoFrame
        /\ UNCHANGED <<hostVars, state, current, updated, meta, fid, req, queued, countVars,
                       seen, nseq, wireVars, halted>>
    BY <1>2 DEF KeepSecond
  <2>2. arg # NoFrame /\ arg \in Frames /\ free \subseteq Frames /\ next \in Held
    BY <1>0, <2>1 DEF Kept, TypeOK, Held
  <2>3. free' = IF next = NoFrame THEN free ELSE free \cup {next}
    BY <1>2 DEF KeepSecond, Release
  <2>4. free' \subseteq Frames
    BY <2>2, <2>3 DEF Held
  <2>5. remain' \in 0 .. MaxParts
    BY <2>1, StreamAssumption, SMT
  <2>6. TypeOK'
    BY <1>0, <2>1, <2>2, <2>4, <2>5 DEF TypeOK, PCs, Held, hostVars, countVars, wireVars
  <2>7. Kept'
    BY <1>0, <2>1, <2>2 DEF Kept
  <2>8. FramesAccounted'
    <3>1. free = Frames \ {current, next, arg} /\ arg # current
      BY <1>0, <2>2 DEF FramesAccounted, Apart
    <3>2. next = NoFrame \/ next \notin {current, arg}
      BY <1>0 DEF FramesAccounted, Apart
    <3>3. free' = Frames \ {arg, current}
      BY <2>2, <2>3, <3>1, <3>2, StreamAssumption DEF Held
    <3>4. free' = Frames \ {current, arg, NoFrame}
      BY <3>3, StreamAssumption
    <3>5. current # NoFrame
      BY <1>0, <2>1 DEF Kept
    <3> QED BY <2>1, <3>1, <3>4, <3>5, <2>2 DEF FramesAccounted, Apart
  <2> QED BY <2>6, <2>7, <2>8 DEF FrameInv
<1>3. CASE SetKept
  <2>1. /\ pc \in {"inited", "ready"} /\ pc' = "idle"
        /\ state' = IF pc = "inited" THEN "INITED" ELSE "IDLE"
        /\ UNCHANGED <<hostVars, frameVars, xferVars, countVars, arg, seen, nseq, wireVars, halted>>
    BY <1>3 DEF SetKept
  <2>2. TypeOK'
    BY <1>0, <2>1
       DEF TypeOK, States, PCs, Held, hostVars, frameVars, xferVars, countVars, wireVars
  <2>3. Kept'
    BY <1>0, <2>1 DEF Kept, frameVars, xferVars
  <2>4. FramesAccounted'
    BY <1>0, <2>1 DEF FramesAccounted, Apart, frameVars
  <2> QED BY <2>2, <2>3, <2>4 DEF FrameInv
<1> QED BY <1>1, <1>2, <1>3

LEMMA ExchangeNextFrame == FrameInv /\ ExchangeNext => FrameInv'
<1> SUFFICES ASSUME FrameInv, ExchangeNext PROVE FrameInv'
  OBVIOUS
<1>0. TypeOK /\ Kept /\ FramesAccounted
  BY DEF FrameInv
<1>1. /\ pc = "exchange"
      /\ UNCHANGED <<hostVars, state, current, meta, xferVars, countVars, seen, nseq, wireVars>>
  BY DEF ExchangeNext
<1>2. /\ arg # NoFrame /\ next # NoFrame /\ arg \in Frames /\ next \in Frames
      /\ current # NoFrame /\ free \subseteq Frames /\ seen \in {"BUSY", "LAST_DATA"}
  BY <1>0, <1>1 DEF Kept, TypeOK, Held
<1>3. CASE next' = arg /\ free' = free \cup {next} /\ updated' = TRUE /\ pc' = "idle"
           /\ arg' = NoFrame /\ halted' = halted
  <2>1. TypeOK'
    BY <1>0, <1>1, <1>2, <1>3 DEF TypeOK, PCs, Held, hostVars, xferVars, countVars, wireVars
  <2>2. Kept'
    BY <1>0, <1>1, <1>2, <1>3 DEF Kept, xferVars
  <2>3. free' = Frames \ {current, arg}
    BY <1>0, <1>2, <1>3 DEF FramesAccounted, Apart
  <2>4. free' = Frames \ {current, arg, NoFrame}
    BY <2>3, StreamAssumption
  <2>5. FramesAccounted'
    BY <1>0, <1>1, <1>2, <1>3, <2>4 DEF FramesAccounted, Apart
  <2> QED BY <2>1, <2>2, <2>5 DEF FrameInv
<1>4. CASE halted' = TRUE /\ UNCHANGED <<next, free, updated, pc, arg>>
  <2>1. TypeOK'
    BY <1>0, <1>1, <1>4 DEF TypeOK, hostVars, xferVars, countVars, wireVars
  <2>2. Kept' /\ FramesAccounted'
    BY <1>0, <1>1, <1>4 DEF Kept, FramesAccounted, Apart, xferVars
  <2> QED BY <2>1, <2>2 DEF FrameInv
<1> QED BY <1>3, <1>4 DEF ExchangeNext, Done, Release

LEMMA SendWhenIdleFrame ==
  ASSUME FrameInv, NEW ok \in Queue, SendWhenIdle(ok)
  PROVE  FrameInv'
<1>0. TypeOK /\ Kept /\ FramesAccounted
  BY DEF FrameInv
<1>1. /\ pc = "act" /\ seen = "IDLE"
      /\ UNCHANGED <<hostVars, updated, meta, timeout, preRemain, seen, nseq, wireVars>>
  BY DEF SendWhenIdle
<1>2. /\ arg # NoFrame /\ next # NoFrame /\ arg \in Frames /\ next \in Frames
      /\ current # NoFrame /\ current \in Frames /\ free \subseteq Frames
  BY <1>0, <1>1 DEF Kept, TypeOK, Held
<1>3. CASE /\ current' = IF updated THEN next ELSE arg
           /\ next' = IF updated THEN arg ELSE next
           /\ free' = free \cup {current}
           /\ BeginFrame(current')
           /\ queued' = IF ok THEN queued + 1 ELSE queued
           /\ pc' = "idle" /\ arg' = NoFrame /\ UNCHANGED halted
  <2>1. /\ {current', next'} = {arg, next} /\ current' # next'
        /\ current' \in Frames /\ next' \in Frames /\ current' # NoFrame /\ next' # NoFrame
    BY <1>0, <1>2, <1>3 DEF FramesAccounted, Apart
  <2>2. /\ req' \in Parts /\ req'.frame = current'
        /\ remain' \in 0 .. MaxParts /\ fid' \in {0, 1} /\ state' \in {"BUSY", "LAST_DATA"}
    <3>1. PICK f \in Frames : f = current'
      BY <2>1
    <3>2. BeginFrame(f)
      BY <1>3, <3>1
    <3> QED BY <1>0, <3>1, <3>2, BeginFrameType
  <2>3. queued' \in Nat
    BY <1>0, <1>3, SMT DEF TypeOK
  <2>4. TypeOK'
    BY <1>0, <1>1, <1>2, <1>3, <2>1, <2>2, <2>3
       DEF TypeOK, PCs, Held, States, hostVars, wireVars
  <2>5. Kept'
    BY <1>1, <1>3, <2>1, <2>2 DEF Kept
  <2>6. free' = Frames \ {arg, next}
    BY <1>0, <1>2, <1>3 DEF FramesAccounted, Apart
  <2>7. free' = Frames \ {current', next', arg'}
    BY <1>3, <2>1, <2>6, StreamAssumption
  <2>8. FramesAccounted'
    BY <1>3, <2>1, <2>7 DEF FramesAccounted, Apart
  <2> QED BY <2>4, <2>5, <2>8 DEF FrameInv
<1>4. CASE halted' = TRUE /\ UNCHANGED <<current, next, free, state, xferVars, pc, arg>>
  <2>1. TypeOK'
    BY <1>0, <1>1, <1>4 DEF TypeOK, hostVars, xferVars, wireVars
  <2>2. Kept' /\ FramesAccounted'
    BY <1>0, <1>1, <1>4 DEF Kept, FramesAccounted, Apart, xferVars
  <2> QED BY <2>1, <2>2 DEF FrameInv
<1> QED BY <1>3, <1>4 DEF SendWhenIdle, Done, Release

LEMMA ReceiveType ==
  ASSUME FrameInv, queued > 0, Receive
  PROVE  /\ last' \in [seq : 0 .. MaxSeq, part : Nat, eof : BOOLEAN, fid : {0, 1},
                       whole : BOOLEAN, turn : {0, 1}]
         /\ failed' = FALSE
<1>1. req \in Parts /\ req.frame # NoFrame
  BY DEF FrameInv, TypeOK, Kept
<1>2. /\ req.frame \in Frames /\ req.part \in Nat /\ req.eof \in BOOLEAN /\ req.fid \in {0, 1}
      /\ req.whole \in BOOLEAN
  BY <1>1 DEF Parts, Held
<1>3. meta[req.frame].seq \in 0 .. MaxSeq
  BY <1>2 DEF FrameInv, TypeOK
<1>4. 1 - last.turn \in {0, 1}
  <2>1. last.turn \in {0, 1}
    BY DEF FrameInv, TypeOK
  <2> QED BY <2>1, SMT
<1> QED BY <1>2, <1>3, <1>4 DEF Receive

LEMMA CompleteFrame ==
  ASSUME FrameInv, NEW ok \in Queue, Complete(ok)
  PROVE  FrameInv'
<1>0. TypeOK /\ Kept /\ FramesAccounted
  BY DEF FrameInv
<1>1. /\ queued > 0 /\ Receive
      /\ UNCHANGED <<hostVars, timeout, preRemain, commitVars, errors, halted>>
  BY DEF Complete
<1>2. /\ last' \in [seq : 0 .. MaxSeq, part : Nat, eof : BOOLEAN, fid : {0, 1},
                    whole : BOOLEAN, turn : {0, 1}]
      /\ failed' = FALSE
  BY <1>1, ReceiveType
<1>3. queued - 1 \in Nat
  BY <1>0, <1>1, SMT DEF TypeOK
<1>4. req.frame # NoFrame /\ req.frame \in Held /\ req.part + 1 \in Nat
  <2>1. req \in Parts
    BY <1>0 DEF TypeOK
  <2>2. req.frame \in Held /\ req.part \in Nat
    BY <2>1 DEF Parts
  <2>3. req.part + 1 \in Nat
    BY <2>2, SMT
  <2> QED BY <1>0, <1>1, <2>2, <2>3 DEF Kept
<1>5. CASE state = "BUSY" /\ NextPart(ok)
  <2>1. UpdateRequest(req.frame, req.part + 1, remain) /\ UNCHANGED frameVars
        /\ state' \in {"BUSY", "LAST_DATA"} /\ queued' \in {queued, queued - 1}
    BY <1>5 DEF NextPart
  <2>2. /\ req' \in Parts /\ req'.frame = req.frame
        /\ remain' \in 0 .. MaxParts /\ fid' \in {0, 1}
    <3>1. remain \in 0 .. MaxParts
      BY <1>0 DEF TypeOK
    <3> QED BY <1>0, <1>4, <2>1, <3>1, UpdateRequestType
  <2>3. queued' \in Nat
    BY <1>0, <1>3, <2>1 DEF TypeOK
  <2>4. TypeOK'
    BY <1>0, <1>1, <1>2, <2>1, <2>2, <2>3 DEF TypeOK, States, hostVars, frameVars, commitVars
  <2>5. Kept'
    BY <1>0, <1>1, <1>4, <1>5, <2>1, <2>2 DEF Kept, frameVars, commitVars
  <2>6. FramesAccounted'
    BY <1>0, <1>1, <2>1 DEF FramesAccounted, Apart, frameVars, commitVars
  <2> QED BY <2>4, <2>5, <2>6 DEF FrameInv
<1>6. CASE state = "LAST_DATA" /\ NextFrame(ok)
  <2>1. /\ BeginFrame(next) /\ current' = next /\ next' = current /\ updated' = FALSE
        /\ free' = free /\ queued' \in {queued, queued - 1}
        /\ meta' = [meta EXCEPT ![current].fmt = meta[next].fmt]
    BY <1>6 DEF NextFrame
  <2>2. current # NoFrame /\ next # NoFrame /\ current \in Frames /\ next \in Frames
    BY <1>0, <1>6 DEF Kept, TypeOK, Held
  <2>3. /\ req' \in Parts /\ req'.frame = next
        /\ remain' \in 0 .. MaxParts /\ fid' \in {0, 1} /\ state' \in {"BUSY", "LAST_DATA"}
    BY <1>0, <2>1, <2>2, BeginFrameType
  <2>4. meta' \in [Frames -> [seq : 0 .. MaxSeq, parts : 1 .. MaxParts, fmt : Formats]]
    BY <1>0, <2>1, <2>2 DEF TypeOK
  <2>5. queued' \in Nat
    BY <1>0, <1>3, <2>1 DEF TypeOK
  <2>6. TypeOK'
    BY <1>0, <1>1, <1>2, <2>1, <2>2, <2>3, <2>4, <2>5
       DEF TypeOK, Held, States, hostVars, commitVars
  <2>7. Kept'
    BY <1>0, <1>1, <1>6, <2>1, <2>2, <2>3 DEF Kept, commitVars
  <2>8. FramesAccounted'
    BY <1>0, <1>1, <2>1, <2>2 DEF FramesAccounted, Apart, commitVars
  <2> QED BY <2>6, <2>7, <2>8 DEF FrameInv
<1>7. CASE /\ queued' = queued - 1
           /\ state' = IF state = "LAST_DATA" THEN "IDLE" ELSE state
           /\ UNCHANGED <<remain, fid, req, frameVars>>
  <2>1. TypeOK'
    BY <1>0, <1>1, <1>2, <1>3, <1>7 DEF TypeOK, States, hostVars, frameVars, commitVars
  <2>2. Kept'
    BY <1>0, <1>1, <1>4, <1>7 DEF Kept, frameVars, commitVars
  <2>3. FramesAccounted'
    BY <1>0, <1>1, <1>7 DEF FramesAccounted, Apart, frameVars, commitVars
  <2> QED BY <2>1, <2>2, <2>3 DEF FrameInv
<1> QED
  <2>1. \/ state = "BUSY" /\ NextPart(ok)
        \/ state = "LAST_DATA" /\ NextFrame(ok)
        \/ /\ queued' = queued - 1
           /\ state' = IF state = "LAST_DATA" THEN "IDLE" ELSE state
           /\ UNCHANGED <<remain, fid, req, frameVars>>
    BY DEF Complete
  <2> QED BY <1>5, <1>6, <1>7, <2>1

LEMMA HostFrame ==
  ASSUME FrameInv, \/ \E short \in BOOLEAN : Fail(short)
                   \/ \E fmt \in Formats : Start(fmt)
                   \/ Stop
  PROVE  FrameInv'
<1>0. TypeOK /\ Kept /\ FramesAccounted
  BY DEF FrameInv
<1>1. ASSUME NEW short \in BOOLEAN, Fail(short) PROVE FrameInv'
  <2>1. /\ errors < MaxErrors /\ errors' = errors + 1 /\ failed' = (failed \/ ~short)
        /\ UNCHANGED <<hostVars, state, frameVars, remain, fid, queued, countVars, commitVars,
                       last, halted>>
    BY <1>1 DEF Fail
  <2>2. req' = req \/ req' = [req EXCEPT !.whole = FALSE]
    BY <1>1 DEF Fail
  <2>3. req' \in Parts /\ req'.frame = req.frame
    BY <1>0, <2>2 DEF TypeOK, Parts
  <2>4. errors' \in 0 .. MaxErrors
    BY <1>0, <2>1, StreamAssumption, SMT DEF TypeOK
  <2>5. TypeOK'
    BY <1>0, <2>1, <2>3, <2>4 DEF TypeOK, hostVars, frameVars, countVars, commitVars
  <2>6. Kept' /\ FramesAccounted'
    BY <1>0, <2>1, <2>3 DEF Kept, FramesAccounted, Apart, frameVars, commitVars
  <2> QED BY <2>5, <2>6 DEF FrameInv
<1>2. ASSUME (\E fmt \in Formats : Start(fmt)) \/ Stop PROVE FrameInv'
  <2>1. /\ commands < MaxHost /\ commands' = commands + 1
        /\ format' \in Formats /\ started' \in BOOLEAN /\ updated' \in {updated, FALSE}
        /\ state' \in {state, "UNINITED"} /\ cut' = (cut \/ queued > 0)
        /\ UNCHANGED <<current, next, free, meta, xferVars, countVars, commitVars, wireVars, halted>>
    BY <1>0, <1>2 DEF Start, Stop, frameVars, TypeOK
  <2>2. commands' \in 0 .. MaxHost
    BY <1>0, <2>1, StreamAssumption, SMT DEF TypeOK
  <2>3. TypeOK'
    <3>1. updated' \in BOOLEAN /\ state' \in States /\ cut' \in BOOLEAN
      BY <1>0, <2>1 DEF TypeOK, States
    <3> QED BY <1>0, <2>1, <2>2, <3>1 DEF TypeOK, xferVars, countVars, commitVars, wireVars
  <2>4. Kept' /\ FramesAccounted'
    BY <1>0, <2>1 DEF Kept, FramesAccounted, Apart, xferVars, commitVars
  <2> QED BY <2>3, <2>4 DEF FrameInv
<1> QED BY <1>1, <1>2

LEMMA FrameStep == FrameInv /\ [Next]_vars => FrameInv'
<1> SUFFICES ASSUME FrameInv, [Next]_vars PROVE FrameInv'
  OBVIOUS
<1>1. CASE UNCHANGED vars
  BY <1>1 DEF FrameInv, TypeOK, Kept, FramesAccounted, Apart, vars, hostVars, frameVars, xferVars, countVars,
              commitVars, wireVars
<1>2. CASE CommitStep
  BY <1>2, CommitFrame, EnterFrame, ReadStateFrame, KeepFrame, ExchangeNextFrame,
     SendWhenIdleFrame DEF CommitStep
<1>3. CASE \E ok \in Queue : Complete(ok)
  BY <1>3, CompleteFrame
<1>4. CASE (\E short \in BOOLEAN : Fail(short)) \/ (\E fmt \in Formats : Start(fmt)) \/ Stop
  BY <1>4, HostFrame
<1> QED BY <1>1, <1>2, <1>3, <1>4 DEF Next

LEMMA FrameInvHolds == Spec => []FrameInv
BY FrameInit, FrameStep, PTL DEF Spec

(* Every state of the stream is well typed: a pointer that is followed is not NULL, the part
   counter never becomes negative, the watching counter stays between 1 and its start. *)
THEOREM TypeCorrect == Spec => []TypeOK
<1>1. FrameInv => TypeOK
  BY DEF FrameInv
<1> QED BY FrameInvHolds, <1>1, PTL

(* Frames are neither leaked nor released twice: the exchanges with the interrupt masked are
   enough, wherever in a commit the host starts or stops the stream. *)
THEOREM FramesAccountedHolds == Spec => []FramesAccounted
<1>1. FrameInv => FramesAccounted
  BY DEF FrameInv
<1> QED BY FrameInvHolds, <1>1, PTL

-----------------------------------------------------------------------------
(* The state a commit has read is still true when it acts on it, unless the host has reset
   the state since: only the task leaves a state in which nothing is sent. *)
Sending == {"BUSY", "LAST_DATA"}
Decided ==
  /\ pc = "act" /\ seen \notin Sending => state \in {seen, "UNINITED"}
  /\ pc = "inited" => state = "UNINITED"
  /\ pc = "ready" => state \in {"INITED", "UNINITED"}

\* One transfer at a time, of the current frame, until the host cuts one.
OneSent ==
  ~cut => /\ queued \in {0, 1}
          /\ queued = 1 => req.frame = current
          /\ state \notin Sending => queued = 0

LEMMA DecidedStep == FrameInv /\ Decided /\ [Next]_vars => Decided'
<1> SUFFICES ASSUME FrameInv, Decided, [Next]_vars PROVE Decided'
  OBVIOUS
<1>1. CASE UNCHANGED vars
  BY <1>1 DEF Decided, vars, commitVars
<1>2. CASE CommitStep
  <2>1. CASE Commit \/ Enter \/ WatchTransfer \/ ReadPending \/ ExchangeNext
    BY <2>1 DEF Commit, Enter, WatchTransfer, ReadPending, ExchangeNext, Done, Decided
  <2>2. CASE ReadState
    BY <2>2 DEF ReadState, Decided
  <2>3. CASE KeepFirst \/ KeepSecond
    BY <2>3 DEF KeepFirst, KeepSecond, Decided, Sending
  <2>4. CASE SetKept
    BY <2>4 DEF SetKept, Decided
  <2>5. ASSUME NEW ok \in Queue, SendWhenIdle(ok) PROVE Decided'
    BY <2>5 DEF SendWhenIdle, Done, Decided
  <2> QED BY <1>2, <2>1, <2>2, <2>3, <2>4, <2>5 DEF CommitStep
<1>3. ASSUME NEW ok \in Queue, Complete(ok) PROVE Decided'
  <2>1. UNCHANGED <<pc, seen>>
    BY <1>3 DEF Complete, commitVars
  <2>2. state' = state \/ state \in Sending
    BY <1>3 DEF Complete, Sending
  <2>3. Sending \cap {"UNINITED", "INITED"} = {}
    BY DEF Sending
  <2> QED BY <2>1, <2>2, <2>3 DEF Decided
<1>4. ASSUME NEW short \in BOOLEAN, Fail(short) PROVE Decided'
  BY <1>4 DEF Fail, Decided, commitVars
<1>5. CASE (\E fmt \in Formats : Start(fmt)) \/ Stop
  <2>1. UNCHANGED <<pc, seen>> /\ state' \in {state, "UNINITED"}
    BY <1>5 DEF Start, Stop, commitVars
  <2> QED BY <2>1 DEF Decided
<1> QED BY <1>1, <1>2, <1>3, <1>4, <1>5 DEF Next

LEMMA OneSentStep == FrameInv /\ Decided /\ OneSent /\ [Next]_vars => OneSent'
<1> SUFFICES ASSUME FrameInv, Decided, OneSent, [Next]_vars, ~cut' PROVE OneSent'
  BY DEF OneSent
<1>0. ~cut
  BY DEF Next, CommitStep, Commit, Enter, ReadState, KeepFirst, KeepSecond, SetKept, WatchTransfer,
         ReadPending, ExchangeNext, SendWhenIdle, Complete, Fail, Start, Stop, hostVars, vars
<1>1. /\ queued \in {0, 1} /\ (queued = 1 => req.frame = current)
      /\ (state \notin Sending => queued = 0)
  BY <1>0 DEF OneSent
<1>2. CASE UNCHANGED vars
  BY <1>1, <1>2 DEF OneSent, vars, frameVars, xferVars
<1>3. CASE CommitStep
  <2>1. CASE Commit \/ Enter \/ ReadState \/ ReadPending \/ ExchangeNext
    <3>1. UNCHANGED <<queued, req, current, state>>
      BY <2>1 DEF Commit, Enter, ReadState, ReadPending, ExchangeNext, xferVars, frameVars
    <3> QED BY <1>1, <3>1 DEF OneSent
  <2>2. CASE WatchTransfer
    <3>1. UNCHANGED <<queued, current, state>>
      BY <2>2 DEF WatchTransfer, frameVars
    <3>2. req' = req \/ req' = [req EXCEPT !.whole = FALSE]
      BY <2>2 DEF WatchTransfer
    <3>3. req'.frame = req.frame
      BY <3>2 DEF FrameInv, TypeOK, Parts
    <3> QED BY <1>1, <3>1, <3>3 DEF OneSent
  <2>3. CASE KeepFirst \/ KeepSecond \/ SetKept
    <3>1. state \notin Sending
      BY <2>3 DEF KeepFirst, KeepSecond, SetKept, Decided, Sending
    <3>2. queued = 0 /\ queued' = queued
      BY <1>1, <2>3, <3>1 DEF KeepFirst, KeepSecond, SetKept, xferVars
    <3> QED BY <3>2 DEF OneSent
  <2>4. ASSUME NEW ok \in Queue, SendWhenIdle(ok) PROVE OneSent'
    <3>1. state \notin Sending /\ queued = 0
      BY <1>1, <2>4 DEF SendWhenIdle, Decided, Sending
    <3>2. CASE UNCHANGED <<current, state, xferVars>>
      BY <3>1, <3>2 DEF OneSent, xferVars
    <3>3. CASE BeginFrame(current') /\ queued' = IF ok THEN queued + 1 ELSE queued
      <4>1. state' \in Sending /\ req'.frame = current'
        BY <3>3 DEF BeginFrame, UpdateRequest, Sending
      <4>2. queued' \in {0, 1}
        BY <3>1, <3>3, SMT
      <4> QED BY <4>1, <4>2 DEF OneSent
    <3> QED BY <2>4, <3>2, <3>3 DEF SendWhenIdle
  <2> QED BY <1>3, <2>1, <2>2, <2>3, <2>4 DEF CommitStep
<1>4. ASSUME NEW ok \in Queue, Complete(ok) PROVE OneSent'
  <2>1. queued = 1 /\ req.frame = current /\ state \in Sending
    BY <1>1, <1>4, SMT DEF Complete
  <2>2. CASE state = "BUSY" /\ NextPart(ok)
    <3>1. state' \in Sending /\ req'.frame = current'
      BY <2>1, <2>2 DEF NextPart, UpdateRequest, Sending, frameVars
    <3>2. queued' \in {0, 1}
      BY <2>1, <2>2, SMT DEF NextPart
    <3> QED BY <3>1, <3>2 DEF OneSent
  <2>3. CASE NextFrame(ok)
    <3>1. state' \in Sending /\ req'.frame = current'
      BY <2>3 DEF NextFrame, BeginFrame, UpdateRequest, Sending
    <3>2. queued' \in {0, 1}
      BY <2>1, <2>3, SMT DEF NextFrame
    <3> QED BY <3>1, <3>2 DEF OneSent
  <2>4. CASE queued' = queued - 1
    BY <2>1, <2>4, SMT DEF OneSent
  <2> QED BY <1>4, <2>1, <2>2, <2>3, <2>4 DEF Complete
<1>5. ASSUME NEW short \in BOOLEAN, Fail(short) PROVE OneSent'
  <2>1. UNCHANGED <<queued, current, state>>
    BY <1>5 DEF Fail, frameVars
  <2>2. req' = req \/ req' = [req EXCEPT !.whole = FALSE]
    BY <1>5 DEF Fail
  <2>3. req'.frame = req.frame
    BY <2>2 DEF FrameInv, TypeOK, Parts
  <2> QED BY <1>1, <2>1, <2>3 DEF OneSent
<1>6. CASE (\E fmt \in Formats : Start(fmt)) \/ Stop
  <2>1. cut' = (cut \/ queued > 0) /\ UNCHANGED <<queued, req, current>>
    BY <1>6 DEF Start, Stop, xferVars, frameVars
  <2>2. ~(queued > 0)
    BY <2>1, Zenon
  <2>3. queued' = 0
    BY <1>1, <2>1, <2>2, SMT
  <2> QED BY <2>3 DEF OneSent
<1> QED BY <1>2, <1>3, <1>4, <1>5, <1>6 DEF Next

LEMMA SendInvHolds == Spec => [](FrameInv /\ Decided /\ OneSent)
<1>1. Init => Decided /\ OneSent
  BY DEF Init, Decided, OneSent
<1> QED BY FrameInit, FrameStep, <1>1, DecidedStep, OneSentStep, PTL DEF Spec

(* The controller reads the current frame and no other until the host cuts a transfer, for
   any answers to queue() and whatever the commits do meanwhile. *)
THEOREM DmaReadsCurrentHolds == Spec => []DmaReadsCurrent
<1>1. FrameInv /\ OneSent => DmaReadsCurrent
  <2> SUFFICES ASSUME FrameInv, OneSent, ~cut, queued > 0 PROVE req.frame = current
    BY DEF DmaReadsCurrent
  <2>1. queued = 1
    BY SMT DEF OneSent
  <2> QED BY <2>1 DEF OneSent
<1> QED BY SendInvHolds, <1>1, PTL

-----------------------------------------------------------------------------
(* Frames are numbered as they are committed: the one in the task's hands is the newest, and
   the next frame is newer than the current one whenever it may be sent after it.  Between
   restarts this need not be so: the exchange of a commit may come after a restart, and the
   first frame kept then is newer than the one exchanged. *)
MayFollow == \/ state \notin {"UNINITED", "INITED"}
             \/ pc = "ready"
             \/ pc = "act" /\ seen = "IDLE"
Numbered ==
  /\ arg # NoFrame => meta[arg].seq = nseq
  /\ \A f \in {current, next} \ {NoFrame} :
       meta[f].seq <= nseq /\ (arg # NoFrame => meta[f].seq < nseq)
  /\ updated /\ MayFollow => meta[next].seq > meta[current].seq

LEMMA CommitNumbered ==
  ASSUME FrameInv, Decided, Numbered, CommitStep
  PROVE  Numbered'
<1> DEFINE Seq(f) == meta[f].seq
<1>0. nseq \in Nat /\ \A f \in Frames : Seq(f) \in Nat
  BY StreamAssumption, SMT DEF FrameInv, TypeOK
<1>1. Kept /\ FramesAccounted /\ current \in Held /\ next \in Held /\ arg \in Held
  BY DEF FrameInv, TypeOK
<1>2. CASE Commit
  <2>1. PICK f \in free, n \in 1 .. MaxParts :
          /\ arg' = f
          /\ meta' = [meta EXCEPT ![f] = [seq |-> nseq + 1, parts |-> n, fmt |-> format]]
    BY <1>2 DEF Commit
  <2>2. /\ pc = "idle" /\ nseq' = nseq + 1 /\ pc' = "enter"
        /\ UNCHANGED <<state, current, next, updated>>
    BY <1>2 DEF Commit
  <2>3. f \in Frames /\ f \notin {current, next}
    BY <1>1 DEF FramesAccounted
  <2>4. meta'[f].seq = nseq + 1
    BY <2>1, <2>3 DEF FrameInv, TypeOK
  <2>5. \A g \in Frames \ {f} : meta'[g] = meta[g]
    BY <2>1, <2>3 DEF FrameInv, TypeOK
  <2>6. \A g \in {current, next} \ {NoFrame} : meta'[g] = meta[g] /\ Seq(g) \in Nat
    BY <1>0, <1>1, <2>3, <2>5 DEF Held
  <2>7. \A g \in {current', next'} \ {NoFrame} : meta'[g].seq < nseq'
    BY <1>0, <2>2, <2>6, SMT DEF Numbered
  <2>8. updated /\ MayFollow' => current # NoFrame /\ next # NoFrame /\ MayFollow
    BY <1>1, <2>2 DEF MayFollow, Kept
  <2>9. updated' /\ MayFollow' => meta'[next'].seq > meta'[current'].seq
    BY <2>2, <2>6, <2>8 DEF Numbered
  <2>10. nseq' \in Nat /\ \A g \in {current', next'} \ {NoFrame} : meta'[g].seq \in Nat
    BY <1>0, <2>2, <2>6, SMT
  <2>11. \A g \in {current', next'} \ {NoFrame} : meta'[g].seq <= nseq'
    BY <2>7, <2>10, SMT
  <2>12. meta'[arg'].seq = nseq'
    BY <2>1, <2>2, <2>4
  <2> QED BY <2>7, <2>9, <2>11, <2>12 DEF Numbered
<1>3. CASE Enter \/ ReadPending \/ WatchTransfer \/ ReadState \/ SetKept
  <2>1. UNCHANGED <<current, next, updated, meta, nseq>> /\ arg' \in {arg, NoFrame}
    BY <1>3 DEF Enter, ReadPending, WatchTransfer, ReadState, SetKept, Done, frameVars
  <2>2. MayFollow' => MayFollow
    BY <1>3 DEF Enter, ReadPending, WatchTransfer, ReadState, SetKept, Done, MayFollow
  <2> QED BY <2>1, <2>2 DEF Numbered
<1>4. nseq <= nseq
  BY <1>0, SMT
<1>5. CASE KeepFirst
  <2>1. /\ current' = arg /\ arg' = NoFrame /\ pc' = "inited" /\ state' = state
        /\ state = "UNINITED" /\ UNCHANGED <<next, meta, nseq>>
    BY <1>5 DEF KeepFirst, Decided, Sending
  <2>2. ~MayFollow'
    BY <2>1 DEF MayFollow
  <2>3. arg # NoFrame /\ Seq(arg) = nseq
    BY <1>1, <1>5 DEF KeepFirst, Kept, Numbered
  <2>4. \A f \in {arg, next} \ {NoFrame} : Seq(f) <= nseq
    BY <1>4, <2>3 DEF Numbered
  <2> QED BY <2>1, <2>2, <2>4 DEF Numbered
<1>6. CASE KeepSecond
  <2>1. /\ next' = arg /\ arg' = NoFrame /\ UNCHANGED <<current, meta, nseq>>
    BY <1>6 DEF KeepSecond
  <2>2. arg # NoFrame /\ Seq(arg) = nseq /\ current # NoFrame
    BY <1>1, <1>6 DEF KeepSecond, Kept, Numbered
  <2>3. Seq(current) < nseq
    BY <2>2 DEF Numbered
  <2>4. \A f \in {current, arg} \ {NoFrame} : Seq(f) <= nseq
    BY <1>4, <2>2 DEF Numbered
  <2>5. Seq(arg) > Seq(current)
    BY <1>0, <1>1, <2>2, <2>3, SMT DEF Held
  <2> QED BY <2>1, <2>4, <2>5 DEF Numbered
<1>7. ASSUME \/ next' = arg /\ current' = current /\ updated' = TRUE /\ arg' = NoFrame
             \/ next' = arg /\ current' = next /\ updated' = TRUE /\ arg' = NoFrame
             \/ next' = next /\ current' = arg /\ updated' = FALSE /\ arg' = NoFrame,
             UNCHANGED <<meta, nseq>>, arg # NoFrame, next # NoFrame, current # NoFrame
      PROVE  Numbered'
  <2>1. Seq(arg) = nseq /\ Seq(next) < nseq /\ Seq(current) < nseq
    BY <1>7 DEF Numbered
  <2>2. \A f \in {current', next'} : Seq(f) <= nseq
    BY <1>0, <1>1, <1>7, <2>1, SMT DEF Held
  <2>3. updated' => Seq(next') > Seq(current')
    BY <1>0, <1>1, <1>7, <2>1, SMT DEF Held
  <2> QED BY <1>7, <2>2, <2>3 DEF Numbered
<1>8. CASE ExchangeNext
  <2>1. arg # NoFrame /\ next # NoFrame /\ current # NoFrame
    BY <1>1, <1>8 DEF ExchangeNext, Kept
  <2>2. UNCHANGED <<state, seen, meta, nseq, current>>
    BY <1>8 DEF ExchangeNext
  <2>3. CASE next' = arg /\ updated' = TRUE /\ arg' = NoFrame
    BY <1>7, <2>1, <2>2, <2>3
  <2>4. CASE UNCHANGED <<next, updated, pc, arg>>
    BY <2>2, <2>4 DEF Numbered, MayFollow
  <2> QED BY <1>8, <2>3, <2>4 DEF ExchangeNext, Done
<1>9. ASSUME NEW ok \in Queue, SendWhenIdle(ok) PROVE Numbered'
  <2>1. arg # NoFrame /\ next # NoFrame /\ current # NoFrame
    BY <1>1, <1>9 DEF SendWhenIdle, Kept
  <2>2. UNCHANGED <<seen, meta, nseq, updated>> /\ updated \in BOOLEAN
    BY <1>9 DEF SendWhenIdle, FrameInv, TypeOK
  <2>3. CASE /\ current' = IF updated THEN next ELSE arg
             /\ next' = IF updated THEN arg ELSE next
             /\ arg' = NoFrame
    BY <1>7, <2>1, <2>2, <2>3
  <2>4. CASE UNCHANGED <<current, next, state, pc, arg>>
    BY <2>2, <2>4 DEF Numbered, MayFollow
  <2> QED BY <1>9, <2>3, <2>4 DEF SendWhenIdle, Done
<1> QED BY <1>2, <1>3, <1>5, <1>6, <1>8, <1>9 DEF CommitStep

LEMMA NumberedStep == FrameInv /\ Decided /\ Numbered /\ [Next]_vars => Numbered'
<1> SUFFICES ASSUME FrameInv, Decided, Numbered, [Next]_vars PROVE Numbered'
  OBVIOUS
<1>1. CASE UNCHANGED vars
  BY <1>1 DEF Numbered, MayFollow, vars, frameVars, commitVars
<1>2. CASE CommitStep
  BY <1>2, CommitNumbered
<1>3. ASSUME UNCHANGED <<current, next, meta, commitVars>>, updated' \in {updated, FALSE},
             state' \in {"UNINITED", "INITED"} \/ state \notin {"UNINITED", "INITED"}
      PROVE  Numbered'
  <2>1. MayFollow' => MayFollow
    BY <1>3 DEF MayFollow, commitVars
  <2>2. updated' => updated
    BY <1>3
  <2> QED BY <1>3, <2>1, <2>2 DEF Numbered, commitVars
<1>4. ASSUME NEW ok \in Queue, Complete(ok) PROVE Numbered'
  <2>1. UNCHANGED commitVars
    BY <1>4 DEF Complete
  <2>2. CASE state = "BUSY" /\ NextPart(ok)
    BY <1>3, <2>1, <2>2 DEF NextPart, frameVars
  <2>3. CASE state = "LAST_DATA" /\ NextFrame(ok)
    <3>1. /\ current' = next /\ next' = current /\ updated' = FALSE
          /\ meta' = [meta EXCEPT ![current].fmt = meta[next].fmt]
      BY <2>3 DEF NextFrame
    <3>2. \A f \in Frames : meta'[f].seq = meta[f].seq
      BY <3>1 DEF FrameInv, TypeOK
    <3>3. current \in Held /\ next \in Held /\ arg \in Held
      BY DEF FrameInv, TypeOK
    <3>4. \A f \in {current, next, arg} \ {NoFrame} : meta'[f].seq = meta[f].seq
      BY <3>2, <3>3 DEF Held
    <3> QED BY <2>1, <3>1, <3>4 DEF Numbered, commitVars
  <2>4. CASE UNCHANGED frameVars /\ state' = IF state = "LAST_DATA" THEN "IDLE" ELSE state
    BY <1>3, <2>1, <2>4 DEF frameVars
  <2> QED BY <1>4, <2>2, <2>3, <2>4 DEF Complete
<1>5. ASSUME NEW short \in BOOLEAN, Fail(short) PROVE Numbered'
  BY <1>5 DEF Fail, Numbered, MayFollow, frameVars, commitVars
<1>6. CASE (\E fmt \in Formats : Start(fmt)) \/ Stop
  <2>1. /\ UNCHANGED <<current, next, meta, commitVars>> /\ updated' \in {updated, FALSE}
        /\ state' \in {state, "UNINITED"}
    BY <1>6 DEF Start, Stop, frameVars
  <2>2. state' \in {"UNINITED", "INITED"} \/ state \notin {"UNINITED", "INITED"}
    BY <2>1
  <2> QED BY <1>3, <2>1, <2>2
<1> QED BY <1>1, <1>2, <1>4, <1>5, <1>6 DEF Next

-----------------------------------------------------------------------------
(* A part is in flight with its own length, unless its own transfer has failed: the length
   is written again for every part, so that an earlier failure is not inherited. *)
Lengths == ~cut /\ queued > 0 => req.whole \/ failed

LEMMA LengthsStep == FrameInv /\ Decided /\ OneSent /\ Lengths /\ [Next]_vars => Lengths'
<1> SUFFICES ASSUME FrameInv, Decided, OneSent, Lengths, [Next]_vars, ~cut', queued' > 0
             PROVE  (req.whole \/ failed)'
  BY DEF Lengths
<1>0. ~cut
  BY DEF Next, CommitStep, Commit, Enter, ReadState, KeepFirst, KeepSecond, SetKept, WatchTransfer,
         ReadPending, ExchangeNext, SendWhenIdle, Complete, Fail, Start, Stop, hostVars, vars
<1>1. ASSUME UNCHANGED <<req, queued, failed>> PROVE (req.whole \/ failed)'
  BY <1>0, <1>1 DEF Lengths
<1>2. ASSUME NEW f, NEW p, NEW left, UpdateRequest(f, p, left) PROVE (req.whole \/ failed)'
  BY <1>2 DEF UpdateRequest
<1>3. CASE UNCHANGED vars
  BY <1>1, <1>3 DEF vars, xferVars, wireVars
<1>4. CASE CommitStep
  <2>1. CASE \/ Commit \/ Enter \/ ReadState \/ KeepFirst \/ KeepSecond \/ SetKept
             \/ ReadPending \/ ExchangeNext
    BY <1>1, <2>1 DEF Commit, Enter, ReadState, KeepFirst, KeepSecond, SetKept, ReadPending,
                      ExchangeNext, xferVars, wireVars
  <2>2. CASE WatchTransfer
    <3>1. queued' = queued
      BY <2>2 DEF WatchTransfer
    <3>2. UNCHANGED <<req, failed>> \/ failed'
      BY <2>2, <3>1 DEF WatchTransfer
    <3> QED BY <1>1, <3>1, <3>2
  <2>3. ASSUME NEW ok \in Queue, SendWhenIdle(ok) PROVE (req.whole \/ failed)'
    <3>1. CASE BeginFrame(current')
      BY <1>2, <3>1 DEF BeginFrame
    <3>2. CASE UNCHANGED xferVars
      BY <1>1, <2>3, <3>2 DEF SendWhenIdle, xferVars, wireVars
    <3> QED BY <2>3, <3>1, <3>2 DEF SendWhenIdle
  <2> QED BY <1>4, <2>1, <2>2, <2>3 DEF CommitStep
<1>5. ASSUME NEW ok \in Queue, Complete(ok) PROVE (req.whole \/ failed)'
  <2>1. CASE NextPart(ok)
    BY <1>2, <2>1 DEF NextPart
  <2>2. CASE NextFrame(ok)
    BY <1>2, <2>2 DEF NextFrame, BeginFrame
  <2>3. CASE queued' = queued - 1
    BY <1>0, <2>3, SMT DEF OneSent
  <2> QED BY <1>5, <2>1, <2>2, <2>3 DEF Complete
<1>6. ASSUME NEW short \in BOOLEAN, Fail(short) PROVE (req.whole \/ failed)'
  <2>1. CASE short
    BY <1>1, <1>6, <2>1 DEF Fail, FrameInv, TypeOK
  <2>2. CASE ~short
    BY <1>6, <2>2 DEF Fail
  <2> QED BY <2>1, <2>2
<1>7. CASE (\E fmt \in Formats : Start(fmt)) \/ Stop
  BY <1>1, <1>7 DEF Start, Stop, xferVars, wireVars
<1> QED BY <1>3, <1>4, <1>5, <1>6, <1>7 DEF Next

LEMMA LengthsHolds == Spec => []Lengths
<1>1. Init => Lengths
  BY DEF Init, Lengths
<1> QED BY SendInvHolds, <1>1, LengthsStep, PTL DEF Spec

-----------------------------------------------------------------------------
(* If queue() never refuses: what is in flight follows what the host has received last, and
   the header's frame id is the one of the next part. *)
NeverRefused == Queue \subseteq {TRUE}

Pending == [seq |-> meta[req.frame].seq, part |-> req.part, eof |-> req.eof, fid |-> req.fid]
InFlight == queued = 1 /\ Follows(last, Pending)
Header ==
  /\ state = "BUSY" => ~req.eof /\ fid = req.fid
  /\ state = "LAST_DATA" => req.eof /\ fid # req.fid
Between == last.eof /\ fid # last.fid
NotAhead == IF current = NoFrame THEN last.seq = 0 ELSE last.seq <= meta[current].seq

InOrder ==
  ~cut => /\ IF state \in Sending THEN InFlight /\ Header ELSE Between
          /\ NotAhead

StreamInv == FrameInv /\ Decided /\ OneSent /\ Numbered

LEMMA HeaderSet ==
  ASSUME TypeOK, NEW f, NEW p, NEW left \in 0 .. MaxParts, UpdateRequest(f, p, left),
         state' = IF remain' # 0 THEN "BUSY" ELSE "LAST_DATA"
  PROVE  /\ state' \in Sending /\ Header'
         /\ req'.frame = f /\ req'.part = p /\ req'.fid = fid
<1>1. req' = [frame |-> f, part |-> p, eof |-> left <= 1, fid |-> fid, whole |-> TRUE]
  BY DEF UpdateRequest
<1>2. /\ remain' = IF left > 0 THEN left - 1 ELSE 0
      /\ fid' = IF left <= 1 THEN 1 - fid ELSE fid
  BY DEF UpdateRequest
<1>3. fid \in {0, 1} /\ left \in Nat
  BY SMT DEF TypeOK
<1>4. state' \in Sending
  BY DEF Sending
<1>5. CASE left <= 1
  <2>1. remain' = 0 /\ fid' # fid
    BY <1>2, <1>3, <1>5, SMT
  <2> QED BY <1>1, <1>4, <1>5, <2>1 DEF Header
<1>6. CASE ~(left <= 1)
  <2>1. remain' # 0 /\ fid' = fid
    BY <1>2, <1>3, <1>6, SMT
  <2> QED BY <1>1, <1>4, <1>6, <2>1 DEF Header
<1> QED BY <1>5, <1>6

\* A step that does not touch the transfer.
LEMMA Untouched ==
  ASSUME StreamInv, InOrder,
         UNCHANGED <<state, queued, fid, last, current, cut>>,
         req' = req \/ req' = [req EXCEPT !.whole = FALSE],
         current # NoFrame => meta'[current] = meta[current]
  PROVE  InOrder'
<1> SUFFICES ASSUME ~cut PROVE InOrder'
  BY DEF InOrder
<1>1. /\ req'.frame = req.frame /\ req'.part = req.part /\ req'.eof = req.eof
      /\ req'.fid = req.fid
  BY DEF StreamInv, FrameInv, TypeOK, Parts
<1>2. NotAhead'
  BY DEF InOrder, NotAhead
<1>3. CASE state \in Sending
  <2>1. queued = 1 /\ Follows(last, Pending) /\ Header
    BY <1>3 DEF InOrder, InFlight
  <2>2. req.frame = current /\ current # NoFrame
    BY <1>3, <2>1 DEF StreamInv, OneSent, FrameInv, Kept, Sending
  <2>3. Pending' = Pending
    BY <1>1, <2>2 DEF Pending
  <2>4. Header'
    BY <1>1, <2>1 DEF Header
  <2>5. Follows(last', Pending')
    BY <2>1, <2>3
  <2> QED BY <1>2, <1>3, <2>1, <2>4, <2>5 DEF InOrder, InFlight
<1>4. CASE state \notin Sending
  <2>1. Between'
    BY <1>4 DEF InOrder, Between
  <2> QED BY <1>2, <1>4, <2>1 DEF InOrder
<1> QED BY <1>3, <1>4

\* The first part of a frame newer than the current one goes out behind the end of a frame.
LEMMA FrameBegun ==
  ASSUME StreamInv, NEW f \in Frames, BeginFrame(f), current' = f, queued' = 1,
         meta'[f].seq = meta[f].seq,
         last'.eof, fid # last'.fid, last'.seq \in Nat, last'.seq < meta[f].seq
  PROVE  InOrder'
<1>1. meta[f].parts \in 0 .. MaxParts
  <2>1. meta[f].parts \in 1 .. MaxParts
    BY DEF StreamInv, FrameInv, TypeOK
  <2> QED BY <2>1, SMT
<1>2. UpdateRequest(f, 1, meta[f].parts) /\ state' = IF remain' # 0 THEN "BUSY" ELSE "LAST_DATA"
  BY DEF BeginFrame
<1>3. TypeOK
  BY DEF StreamInv, FrameInv
<1>4. /\ state' \in Sending /\ Header'
      /\ req'.frame = f /\ req'.part = 1 /\ req'.fid = fid
  BY <1>1, <1>2, <1>3, HeaderSet
<1>5. /\ Pending'.part = 1 /\ Pending'.seq = meta[f].seq /\ Pending'.fid = fid
  BY <1>4 DEF Pending
<1>6. Pending'.seq > last'.seq
  BY <1>5
<1>7. Follows(last', Pending')
  BY <1>5, <1>6 DEF Follows
<1>8. f # NoFrame
  BY StreamAssumption
<1>9. NotAhead'
  <2>1. meta[f].seq \in Nat
    BY <1>3, StreamAssumption, SMT DEF TypeOK
  <2>2. last'.seq <= meta[f].seq
    BY <2>1, SMT
  <2> QED BY <1>8, <2>2 DEF NotAhead
<1> QED BY <1>4, <1>7, <1>9 DEF InOrder, InFlight

LEMMA Numbers ==
  ASSUME StreamInv
  PROVE  /\ nseq \in Nat /\ last.seq \in Nat
         /\ \A f \in Frames : meta[f].seq \in Nat
         /\ current # NoFrame => current \in Frames
         /\ next # NoFrame => next \in Frames
         /\ arg # NoFrame => arg \in Frames
<1>1. TypeOK
  BY DEF StreamInv, FrameInv
<1>2. nseq \in 0 .. MaxSeq /\ last.seq \in 0 .. MaxSeq /\ \A f \in Frames : meta[f].seq \in 0 .. MaxSeq
  BY <1>1 DEF TypeOK
<1>3. \A n \in 0 .. MaxSeq : n \in Nat
  BY StreamAssumption, SMT
<1> QED BY <1>1, <1>2, <1>3 DEF TypeOK, Held

LEMMA CommitInOrder ==
  ASSUME NeverRefused, StreamInv, InOrder, CommitStep
  PROVE  InOrder'
<1>1. CASE Commit
  <2>1. PICK f \in free, n \in 1 .. MaxParts :
          meta' = [meta EXCEPT ![f] = [seq |-> nseq + 1, parts |-> n, fmt |-> format]]
    BY <1>1 DEF Commit
  <2>2. current # f /\ free \subseteq Frames
    BY DEF StreamInv, FrameInv, TypeOK, FramesAccounted
  <2>3. current # NoFrame => current \in Frames
    BY Numbers
  <2>4. current # NoFrame => meta'[current] = meta[current]
    BY <2>1, <2>2, <2>3 DEF StreamInv, FrameInv, TypeOK
  <2> QED BY <1>1, <2>4, Untouched DEF Commit, hostVars, xferVars, wireVars
<1>2. CASE Enter \/ ReadState \/ ReadPending \/ ExchangeNext
  BY <1>2, Untouched
     DEF Enter, ReadState, ReadPending, ExchangeNext, hostVars, frameVars, xferVars, wireVars
<1>3. CASE WatchTransfer
  <2>1. req' = req \/ req' = [req EXCEPT !.whole = FALSE]
    BY <1>3 DEF WatchTransfer
  <2> QED BY <1>3, <2>1, Untouched DEF WatchTransfer, hostVars, frameVars
<1>4. CASE KeepFirst \/ KeepSecond \/ SetKept
  <2> SUFFICES ASSUME ~cut PROVE InOrder'
    BY <1>4 DEF KeepFirst, KeepSecond, SetKept, InOrder, hostVars
  <2>1. state \notin Sending /\ state' \notin Sending
    BY <1>4 DEF KeepFirst, KeepSecond, SetKept, StreamInv, Decided, Sending
  <2>2. UNCHANGED <<fid, last, meta>>
    BY <1>4 DEF KeepFirst, KeepSecond, SetKept, frameVars, xferVars, wireVars
  <2>3. Between'
    BY <2>1, <2>2 DEF InOrder, Between
  <2>4. NotAhead'
    <3>1. CASE current' = current
      BY <2>2, <3>1 DEF InOrder, NotAhead
    <3>2. CASE KeepFirst
      <4>1. current' = arg /\ arg # NoFrame
        BY <3>2 DEF KeepFirst, StreamInv, FrameInv, Kept
      <4>2. meta[arg].seq = nseq /\ (current # NoFrame => meta[current].seq < nseq)
        BY <4>1 DEF StreamInv, Numbered
      <4>3. IF current = NoFrame THEN last.seq = 0 ELSE last.seq <= meta[current].seq
        BY DEF InOrder, NotAhead
      <4>4. last.seq <= nseq
        BY <4>2, <4>3, Numbers, SMT
      <4> QED BY <2>2, <4>1, <4>2, <4>4 DEF NotAhead
    <3>3. KeepFirst \/ current' = current
      BY <1>4 DEF KeepSecond, SetKept, frameVars
    <3> QED BY <3>1, <3>2, <3>3
  <2> QED BY <2>1, <2>3, <2>4 DEF InOrder
<1>5. ASSUME NEW ok \in Queue, SendWhenIdle(ok) PROVE InOrder'
  <2> SUFFICES ASSUME ~cut PROVE InOrder'
    BY <1>5 DEF SendWhenIdle, InOrder, hostVars
  <2>1. state \notin Sending
    BY <1>5 DEF SendWhenIdle, StreamInv, Decided, Sending
  <2>2. queued = 0 /\ Between /\ NotAhead
    BY <2>1 DEF StreamInv, OneSent, InOrder
  <2>3. UNCHANGED <<meta, last>>
    BY <1>5 DEF SendWhenIdle, wireVars
  <2>4. current # NoFrame /\ next # NoFrame /\ arg # NoFrame
    BY <1>5 DEF SendWhenIdle, StreamInv, FrameInv, Kept
  <2>5. CASE /\ current' = IF updated THEN next ELSE arg
             /\ BeginFrame(current')
             /\ queued' = IF ok THEN queued + 1 ELSE queued
    <3>1. PICK f \in Frames : f = current'
      BY <2>4, <2>5, Numbers
    <3>2. last.seq < meta[f].seq
      <4>1. last.seq <= meta[current].seq
        BY <2>2, <2>4 DEF NotAhead
      <4>2. ~updated => meta[f].seq = nseq /\ meta[current].seq < nseq
        BY <2>4, <2>5, <3>1 DEF StreamInv, Numbered
      <4>3. updated => meta[f].seq > meta[current].seq
        BY <1>5, <2>5, <3>1 DEF SendWhenIdle, StreamInv, Numbered, MayFollow
      <4>4. meta[current].seq < meta[f].seq
        <5>1. CASE updated
          BY <4>3, <5>1, <2>4, Numbers, SMT
        <5>2. CASE ~updated
          BY <4>2, <5>2
        <5> QED BY <5>1, <5>2
      <4> QED BY <4>1, <4>4, <2>4, Numbers, SMT
    <3>3. queued' = 1
      <4>1. ok = TRUE
        BY DEF NeverRefused
      <4> QED BY <2>2, <2>5, <4>1, SMT
    <3>4. last'.eof /\ fid # last'.fid /\ last'.seq < meta[f].seq /\ meta'[f].seq = meta[f].seq
          /\ last'.seq \in Nat
      BY <2>2, <2>3, <3>2, Numbers DEF Between
    <3>5. BeginFrame(f) /\ current' = f
      BY <2>5, <3>1
    <3> QED BY <3>3, <3>4, <3>5, FrameBegun
  <2>6. CASE UNCHANGED <<current, state, xferVars>>
    BY <1>5, <2>6, Untouched DEF SendWhenIdle, hostVars, xferVars, wireVars
  <2> QED BY <1>5, <2>5, <2>6 DEF SendWhenIdle
<1> QED BY <1>1, <1>2, <1>3, <1>4, <1>5 DEF CommitStep

LEMMA CompleteInOrder ==
  ASSUME NeverRefused, StreamInv, InOrder, NEW ok \in Queue, Complete(ok), ~cut
  PROVE  InOrder' /\ Follows(last, last')
<1>1. /\ queued = 1 /\ req.frame = current /\ state \in Sending
  <2>1. queued > 0 /\ queued \in {0, 1}
    BY DEF Complete, StreamInv, OneSent
  <2>2. queued = 1
    BY <2>1, SMT
  <2> QED BY <2>2 DEF StreamInv, OneSent
<1>2. Follows(last, Pending) /\ Header
  BY <1>1 DEF InOrder, InFlight
<1>3. /\ last'.seq = meta[current].seq /\ last'.part = req.part /\ last'.eof = req.eof
      /\ last'.fid = req.fid /\ cut' = cut
  BY <1>1 DEF Complete, Receive, hostVars
<1>4. Follows(last, last')
  BY <1>1, <1>2, <1>3 DEF Follows, Pending
<1>5. ok = TRUE
  BY DEF NeverRefused
<1>6. current # NoFrame /\ current \in Frames
  BY <1>1, Numbers DEF StreamInv, FrameInv, Kept, Sending
<1>7. last'.seq \in Nat /\ last'.seq <= meta[current].seq
  <2>1. meta[current].seq \in Nat
    BY <1>6, Numbers
  <2> QED BY <1>3, <2>1, SMT
<1>8. CASE state = "BUSY" /\ NextPart(ok)
  <2>1. /\ UpdateRequest(req.frame, req.part + 1, remain) /\ UNCHANGED frameVars
        /\ state' = IF remain' # 0 THEN "BUSY" ELSE "LAST_DATA"
        /\ queued' = queued
    BY <1>5, <1>8 DEF NextPart
  <2>2. TypeOK /\ remain \in 0 .. MaxParts
    BY DEF StreamInv, FrameInv, TypeOK
  <2>3. /\ state' \in Sending /\ Header' /\ req'.frame = current
        /\ req'.part = req.part + 1 /\ req'.fid = fid
    BY <1>1, <2>1, <2>2, HeaderSet
  <2>4. ~last'.eof /\ last'.fid = fid
    BY <1>2, <1>3, <1>8 DEF Header
  <2>5. /\ Pending'.part = last'.part + 1 /\ Pending'.seq = last'.seq /\ Pending'.fid = last'.fid
    BY <1>3, <2>1, <2>3, <2>4 DEF Pending, frameVars
  <2>6. Follows(last', Pending')
    BY <2>4, <2>5 DEF Follows
  <2>7. NotAhead'
    BY <1>6, <1>7, <2>1 DEF NotAhead, frameVars
  <2> QED BY <1>1, <1>4, <2>1, <2>3, <2>6, <2>7 DEF InOrder, InFlight
<1>9. CASE state = "LAST_DATA" /\ updated /\ NextFrame(ok)
  <2>1. /\ BeginFrame(next) /\ current' = next /\ queued' = queued
        /\ meta' = [meta EXCEPT ![current].fmt = meta[next].fmt]
    BY <1>5, <1>9 DEF NextFrame
  <2>2. next \in Frames
    BY <1>9, Numbers DEF StreamInv, FrameInv, Kept
  <2>3. meta'[next].seq = meta[next].seq
    BY <1>6, <2>1, <2>2 DEF StreamInv, FrameInv, TypeOK
  <2>4. meta[next].seq > meta[current].seq
    BY <1>9 DEF StreamInv, Numbered, MayFollow
  <2>5. last'.seq < meta[next].seq
    BY <1>3, <1>6, <2>2, <2>4, Numbers, SMT
  <2>6. last'.eof /\ fid # last'.fid
    BY <1>2, <1>3, <1>9 DEF Header
  <2>7. InOrder'
    BY <1>1, <1>7, <2>1, <2>2, <2>3, <2>5, <2>6, FrameBegun
  <2> QED BY <1>4, <2>7
<1>10. CASE state = "LAST_DATA" /\ state' = "IDLE" /\ UNCHANGED <<fid, frameVars>>
  <2>1. last'.eof /\ fid # last'.fid
    BY <1>2, <1>3, <1>10 DEF Header
  <2>2. Between' /\ NotAhead'
    BY <1>6, <1>7, <1>10, <2>1 DEF Between, NotAhead, frameVars
  <2> QED BY <1>4, <1>10, <2>2 DEF InOrder, Sending
<1>11. \/ state = "BUSY" /\ NextPart(ok)
       \/ state = "LAST_DATA" /\ updated /\ NextFrame(ok)
       \/ state = "LAST_DATA" /\ state' = "IDLE" /\ UNCHANGED <<fid, frameVars>>
  BY <1>1 DEF Complete, Sending
<1> QED BY <1>8, <1>9, <1>10, <1>11

LEMMA InOrderStep == NeverRefused /\ StreamInv /\ InOrder /\ [Next]_vars => InOrder'
<1> SUFFICES ASSUME NeverRefused, StreamInv, InOrder, [Next]_vars PROVE InOrder'
  OBVIOUS
<1>1. CASE UNCHANGED vars
  BY <1>1, Untouched DEF vars, hostVars, frameVars, xferVars, wireVars
<1>2. CASE CommitStep
  BY <1>2, CommitInOrder
<1>3. ASSUME NEW ok \in Queue, Complete(ok) PROVE InOrder'
  <2>1. cut' = cut
    BY <1>3 DEF Complete, hostVars
  <2>2. CASE cut
    BY <2>1, <2>2 DEF InOrder
  <2>3. CASE ~cut
    BY <1>3, <2>3, CompleteInOrder
  <2> QED BY <2>2, <2>3
<1>4. ASSUME NEW short \in BOOLEAN, Fail(short) PROVE InOrder'
  <2>1. req' = req \/ req' = [req EXCEPT !.whole = FALSE]
    BY <1>4 DEF Fail
  <2> QED BY <1>4, <2>1, Untouched DEF Fail, hostVars, frameVars
<1>5. CASE (\E fmt \in Formats : Start(fmt)) \/ Stop
  <2>1. /\ cut' = (cut \/ queued > 0) /\ state' \in {state, "UNINITED"}
        /\ UNCHANGED <<current, meta, fid, last>>
    BY <1>5 DEF Start, Stop, frameVars, xferVars, wireVars
  <2> SUFFICES ASSUME ~cut' PROVE InOrder'
    BY DEF InOrder
  <2>2. ~cut /\ ~(queued > 0)
    BY <2>1, Zenon
  <2>3. queued # 1
    BY <2>2, SMT
  <2>4. state \notin Sending /\ state' \notin Sending
    BY <2>1, <2>2, <2>3 DEF InOrder, InFlight, Sending
  <2>5. Between' /\ NotAhead'
    BY <2>1, <2>2, <2>4 DEF InOrder, Between, NotAhead
  <2> QED BY <2>4, <2>5 DEF InOrder
<1> QED BY <1>1, <1>2, <1>3, <1>4, <1>5 DEF Next

LEMMA StreamInvHolds == Spec => []StreamInv
<1>1. Init => Numbered
  BY SMT DEF Init, Numbered, MayFollow
<1> QED BY SendInvHolds, <1>1, NumberedStep, PTL DEF Spec, StreamInv

LEMMA InOrderHolds == NeverRefused /\ Spec => []InOrder
<1> SUFFICES ASSUME NeverRefused PROVE Spec => []InOrder
  OBVIOUS
<1>1. Init => InOrder
  BY DEF Init, InOrder, Between, NotAhead, Sending
<1>2. StreamInv /\ InOrder /\ [Next]_vars => InOrder'
  BY InOrderStep
<1> QED BY StreamInvHolds, <1>1, <1>2, PTL DEF Spec

(* The state says whether a transfer is in flight, and there is never a second one, unless
   queue() refuses the interrupt. *)
THEOREM StateTellsTransferHolds == NeverRefused /\ Spec => []StateTellsTransfer
<1>1. StreamInv /\ InOrder => StateTellsTransfer
  BY DEF StreamInv, OneSent, InOrder, InFlight, StateTellsTransfer, Sending
<1> QED BY StreamInvHolds, InOrderHolds, <1>1, PTL

(* The host receives the frames in the order in which they were committed, each with the
   other frame id than the one before, and every part with its own length unless the
   transfer of that part failed, for any number of frames, parts and failures. *)
THEOREM FramesInOrderHolds == NeverRefused /\ Spec => FramesInOrder
<1> SUFFICES ASSUME NeverRefused PROVE Spec => FramesInOrder
  OBVIOUS
<1>1. StreamInv /\ InOrder /\ Lengths /\ [Next]_vars
        => [last' # last /\ ~cut => Follows(last, last') /\ (last'.whole \/ failed)]_vars
  <2> SUFFICES ASSUME StreamInv, InOrder, Lengths, [Next]_vars, last' # last, ~cut
               PROVE  Follows(last, last') /\ (last'.whole \/ failed)
    OBVIOUS
  <2>1. PICK ok \in Queue : Complete(ok)
    BY DEF Next, CommitStep, Commit, Enter, ReadState, KeepFirst, KeepSecond, SetKept, WatchTransfer,
           ReadPending, ExchangeNext, SendWhenIdle, Fail, Start, Stop, wireVars, vars
  <2>2. Follows(last, last')
    BY <2>1, CompleteInOrder
  <2>3. queued > 0 /\ last'.whole = req.whole
    BY <2>1 DEF Complete, Receive
  <2> QED BY <2>2, <2>3 DEF Lengths
<1> QED BY StreamInvHolds, InOrderHolds, LengthsHolds, <1>1, PTL DEF Spec, FramesInOrder
=============================================================================
