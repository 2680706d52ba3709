---------------------------- MODULE AcmSendProofs ----------------------------
(***************************************************************************)
(* The transmit path for any number of senders, buffers and chunks: types, *)
(* ownership of descriptors and buffers; and, for one sender, that the     *)
(* request is never queued twice, that the state tells whether it is       *)
(* queued, and that the path is a FIFO pipe.                               *)
(***************************************************************************)
EXTENDS AcmSend, AcmListsProofs, FiniteSetTheorems

(* What the locals of a call say: chunks are left inside the loop, and a
   descriptor is held exactly between GetFree and AddToSendList. *)
Locals ==
  \A t \in Senders :
    /\ pc[t] \in {"get", "null", "kick", "fill", "append"} => left[t] > 0
    /\ pc[t] \in {"fill", "append"} <=> held[t] # NoDesc

TypeInv == TypeOK /\ Locals

LEMMA TypeInit == Init => TypeInv
<1> SUFFICES ASSUME Init PROVE TypeInv
  OBVIOUS
<1> USE SendAssumption DEF Init, Descs, Buffers, NoDesc
<1>1. freeList \in Seq(Descs) /\ sendList \in Seq(Descs)
  BY SMT
<1>2. wire \in Seq([data : Chunk \cup {NoData}, len : 0 .. Full])
  BY SMT
<1>3. TypeOK
  BY <1>1, <1>2, SMT DEF TypeOK, States, PCs
<1>4. Locals
  <2> SUFFICES ASSUME NEW t \in Senders
               PROVE  pc[t] = "idle" /\ held[t] = NoDesc
    BY DEF Locals
  <2> QED OBVIOUS
<1> QED BY <1>3, <1>4 DEF TypeInv

(* StartTransfer and SendNext keep the types of what they write. *)
LEMMA StartTransferType ==
  ASSUME TypeOK, sendList # <<>>, NEW ok \in BOOLEAN, StartTransfer(ok)
  PROVE  /\ freeList' \in Seq(Descs) /\ sendList' \in Seq(Descs)
         /\ buf' \in [Descs -> Buffers] /\ cnt' \in [Descs -> 0 .. Full]
         /\ reqBuf' \in Buffers /\ reqLen' \in 0 .. Full
         /\ queued' \in Nat /\ state' \in States
<1>1. Head(sendList) \in Descs /\ Tail(sendList) \in Seq(Descs)
  BY SMT DEF TypeOK
<1>2. Append(freeList, Head(sendList)) \in Seq(Descs)
  BY <1>1, SMT DEF TypeOK
<1>3. CASE ok
  <2>1. /\ reqLen' = cnt[Head(sendList)] /\ reqBuf' = buf[Head(sendList)]
        /\ buf' = [buf EXCEPT ![Head(sendList)] = reqBuf]
        /\ cnt' = [cnt EXCEPT ![Head(sendList)] = 0]
        /\ sendList' = Tail(sendList) /\ freeList' = Append(freeList, Head(sendList))
        /\ queued' = queued + 1 /\ state' = "BUSY"
    BY <1>3 DEF StartTransfer
  <2>2. 0 \in 0 .. Full
    BY SendAssumption, SMT
  <2>3. state' \in States
    BY <2>1 DEF States
  <2>4. queued' \in Nat
    BY <2>1, SMT DEF TypeOK
  <2> QED BY <1>1, <1>2, <2>1, <2>2, <2>3, <2>4 DEF TypeOK
<1>4. CASE ~ok
  BY <1>1, <1>4, SMT DEF TypeOK, StartTransfer, listVars
<1> QED BY <1>3, <1>4

LEMMA SendNextType ==
  ASSUME TypeOK, sendList # <<>>, queued > 0, NEW ok \in BOOLEAN, SendNext(ok)
  PROVE  /\ freeList' \in Seq(Descs) /\ sendList' \in Seq(Descs)
         /\ buf' \in [Descs -> Buffers] /\ cnt' \in [Descs -> 0 .. Full]
         /\ reqBuf' \in Buffers /\ reqLen' \in 0 .. Full
         /\ queued' \in Nat /\ state' \in States
<1>1. Head(sendList) \in Descs /\ Tail(sendList) \in Seq(Descs)
  BY SMT DEF TypeOK
<1>2. Append(freeList, Head(sendList)) \in Seq(Descs)
  BY <1>1, SMT DEF TypeOK
<1> QED
  BY <1>1, <1>2, SendAssumption, SMT DEF TypeOK, SendNext, States

LEMMA TypeStep == TypeInv /\ [Next]_vars => TypeInv'
<1> SUFFICES ASSUME TypeInv, [Next]_vars PROVE TypeInv'
  OBVIOUS
<1> USE SendAssumption DEF TypeInv
<1>0. TypeOK /\ Locals
  OBVIOUS
<1>1. CASE UNCHANGED vars
  BY <1>0, <1>1 DEF vars, usbVars, listVars, callVars, TypeOK, Locals
<1>2. ASSUME NEW t \in Senders, Call(t) PROVE TypeInv'
  <2>1. PICK n \in 0 .. MaxChunks, l \in {1, Full}, w \in -1 .. MaxWait :
          /\ left' = [left EXCEPT ![t] = n]
          /\ final' = [final EXCEPT ![t] = l]
          /\ wait' = [wait EXCEPT ![t] = w]
    BY <1>2 DEF Call
  <2>2. /\ pc[t] = "idle" /\ pc' = [pc EXCEPT ![t] = "ep"]
        /\ UNCHANGED <<usbVars, listVars, mem, held, nseq, halted>>
    BY <1>2 DEF Call, Goto
  <2>3. n \in Nat /\ l \in 1 .. Full /\ w \in Int
    BY SMT
  <2>4. TypeOK'
    BY <1>0, <2>1, <2>2, <2>3, SMT DEF TypeOK, PCs, usbVars, listVars
  <2>5. Locals'
    BY <1>0, <2>1, <2>2, SMT DEF TypeOK, Locals
  <2> QED BY <2>4, <2>5
<1>3. ASSUME NEW t \in Senders, ReadEp(t) PROVE TypeInv'
  <2>1. pc[t] = "ep" /\ wait' \in [Senders -> Int]
        /\ UNCHANGED <<usbVars, listVars, mem, left, final, held, nseq, halted>>
    BY <1>0, <1>3, SMT DEF ReadEp, Retry, TypeOK
  <2>2. \/ left[t] > 0 /\ pc' = [pc EXCEPT ![t] = "get"]
        \/ pc' = [pc EXCEPT ![t] = "check"]
        \/ pc' = [pc EXCEPT ![t] = "ep"]
        \/ pc' = [pc EXCEPT ![t] = "idle"]
    BY <1>3 DEF ReadEp, Retry, Goto
  <2>3. TypeOK'
    <3>1. pc' \in [Senders -> PCs]
      BY <1>0, <2>2 DEF TypeOK, PCs
    <3> QED BY <1>0, <2>1, <3>1 DEF TypeOK, usbVars, listVars
  <2>4. Locals'
    <3>1. /\ pc'[t] \in {"get", "check", "ep", "idle"} /\ (pc'[t] = "get" => left[t] > 0)
          /\ \A u \in Senders : u # t => pc'[u] = pc[u]
      BY <1>0, <2>2 DEF TypeOK
    <3> QED BY <1>0, <2>1, <3>1 DEF Locals
  <2> QED BY <2>3, <2>4
<1>4. ASSUME NEW t \in Senders, GetFree(t) PROVE TypeInv'
  <2>1. CASE freeList = <<>>
    <3>1. pc[t] = "get" /\ pc' = [pc EXCEPT ![t] = "null"]
          /\ UNCHANGED <<held, freeList, usbVars, sendList, buf, cnt, reqBuf, mem,
                         left, final, wait, nseq, halted>>
      BY <1>4, <2>1 DEF GetFree, Goto
    <3>2. TypeOK'
      BY <1>0, <3>1, SMT DEF TypeOK, PCs, usbVars
    <3>3. Locals'
      BY <1>0, <3>1, SMT DEF TypeOK, Locals
    <3> QED BY <3>2, <3>3
  <2>2. CASE freeList # <<>>
    <3>1. Head(freeList) \in Descs /\ Tail(freeList) \in Seq(Descs)
      BY <1>0, <2>2, SMT DEF TypeOK
    <3>2. Head(freeList) # NoDesc
      BY <3>1, SMT DEF Descs, NoDesc
    <3>3. /\ pc[t] = "get" /\ pc' = [pc EXCEPT ![t] = "fill"]
          /\ held' = [held EXCEPT ![t] = Head(freeList)]
          /\ freeList' = Tail(freeList)
          /\ UNCHANGED <<usbVars, sendList, buf, cnt, reqBuf, mem,
                         left, final, wait, nseq, halted>>
      BY <1>4, <2>2 DEF GetFree, Goto
    <3>4. TypeOK'
      <4>1. pc' \in [Senders -> PCs]
        BY <1>0, <3>3 DEF TypeOK, PCs
      <4>2. held' \in [Senders -> Descs \cup {NoDesc}] /\ freeList' \in Seq(Descs)
        BY <1>0, <3>1, <3>3 DEF TypeOK
      <4> QED BY <1>0, <3>3, <4>1, <4>2 DEF TypeOK, usbVars
    <3>5. Locals'
      BY <1>0, <3>2, <3>3, SMT DEF TypeOK, Locals
    <3> QED BY <3>4, <3>5
  <2> QED BY <2>1, <2>2
<1>5. ASSUME NEW t \in Senders, ReadStateWhenFull(t) PROVE TypeInv'
  <2>1. /\ pc[t] = "null"
        /\ \E l \in {"kick", "get", "check"} : pc' = [pc EXCEPT ![t] = l]
        /\ wait' \in [Senders -> Int]
        /\ UNCHANGED <<usbVars, listVars, mem, left, final, held, nseq, halted>>
    <3>1. wait' \in [Senders -> Int]
      BY <1>0, <1>5, SMT DEF ReadStateWhenFull, Retry, TypeOK
    <3>2. \E l \in {"kick", "get", "check"} : pc' = [pc EXCEPT ![t] = l]
      <4>1. \/ pc' = [pc EXCEPT ![t] = "kick"]
            \/ pc' = [pc EXCEPT ![t] = "get"]
            \/ pc' = [pc EXCEPT ![t] = "check"]
        BY <1>5 DEF ReadStateWhenFull, Retry, Goto
      <4> QED BY <4>1
    <3> QED BY <1>5, <3>1, <3>2 DEF ReadStateWhenFull
  <2>2. TypeOK'
    <3>1. pc' \in [Senders -> PCs]
      BY <1>0, <2>1 DEF TypeOK, PCs
    <3> QED BY <1>0, <2>1, <3>1 DEF TypeOK, usbVars, listVars
  <2>3. Locals'
    BY <1>0, <2>1, SMT DEF TypeOK, Locals
  <2> QED BY <2>2, <2>3
<1>6. ASSUME NEW t \in Senders, NEW ok \in BOOLEAN, Kick(t, ok) PROVE TypeInv'
  <2>1. CASE sendList = <<>>
    BY <1>0, <1>6, <2>1 DEF Kick, TypeOK, Locals, usbVars, listVars
  <2>2. CASE sendList # <<>>
    <3>1. StartTransfer(ok) /\ Retry(t, "get", "check") /\ pc[t] = "kick"
          /\ UNCHANGED <<halted, mem, left, final, held, nseq>>
      BY <1>6, <2>2 DEF Kick
    <3>2. UNCHANGED <<ready, wire, errors>>
      BY <3>1 DEF StartTransfer
    <3>3. pc' \in [Senders -> PCs] /\ wait' \in [Senders -> Int]
      BY <1>0, <3>1, SMT DEF Retry, Goto, TypeOK, PCs
    <3>4. TypeOK'
      BY <1>0, <2>2, <3>1, <3>2, <3>3, StartTransferType DEF TypeOK
    <3>5. Locals'
      BY <1>0, <3>1, SMT DEF Retry, Goto, TypeOK, Locals
    <3> QED BY <3>4, <3>5
  <2> QED BY <2>1, <2>2
<1>7. ASSUME NEW t \in Senders, Fill(t) PROVE TypeInv'
  <2> DEFINE c == [by |-> t, seq |-> nseq[t] + 1,
                   len |-> IF left[t] = 1 THEN final[t] ELSE Full]
  <2>1. c \in Chunk
    BY <1>0, SMT DEF TypeOK, Chunk
  <2>2. held[t] \in Descs /\ buf[held[t]] \in Buffers
    BY <1>0, <1>7, SMT DEF Fill, TypeOK, Locals
  <2>3. mem' = [mem EXCEPT ![buf[held[t]]] = c] /\ cnt' = [cnt EXCEPT ![held[t]] = c.len]
        /\ c.len \in 0 .. Full
    BY <1>0, <1>7, SMT DEF Fill, TypeOK
  <2> HIDE DEF c
  <2>4. TypeOK'
    BY <1>0, <1>7, <2>1, <2>2, <2>3, SMT DEF Fill, Goto, TypeOK, PCs, usbVars
  <2>5. Locals'
    BY <1>0, <1>7, SMT DEF Fill, Goto, TypeOK, Locals
  <2> QED BY <2>4, <2>5
<1>8. ASSUME NEW t \in Senders, AddToSendList(t) PROVE TypeInv'
  <2>1. held[t] \in Descs /\ left[t] > 0
    BY <1>0, <1>8, SMT DEF AddToSendList, TypeOK, Locals
  <2>2. Append(sendList, held[t]) \in Seq(Descs)
    BY <1>0, <2>1, SMT DEF TypeOK
  <2>3. PICK l \in {"get", "check"} :
          /\ pc[t] = "append" /\ pc' = [pc EXCEPT ![t] = l] /\ (l = "get" => left[t] > 1)
          /\ sendList' = Append(sendList, held[t]) /\ held' = [held EXCEPT ![t] = NoDesc]
          /\ nseq' = [nseq EXCEPT ![t] = @ + 1] /\ left' = [left EXCEPT ![t] = @ - 1]
          /\ UNCHANGED <<usbVars, freeList, buf, cnt, reqBuf, mem, final, wait, halted>>
    BY <1>8 DEF AddToSendList, Goto
  <2>4. nseq[t] + 1 \in Nat /\ left[t] - 1 \in Nat /\ (left[t] > 1 => left[t] - 1 > 0)
    BY <1>0, <2>1, SMT DEF TypeOK
  <2>5. TypeOK'
    BY <1>0, <2>2, <2>3, <2>4 DEF TypeOK, PCs, usbVars
  <2>6. Locals'
    BY <1>0, <2>3, <2>4 DEF TypeOK, Locals
  <2> QED BY <2>5, <2>6
<1>9. ASSUME NEW t \in Senders, CheckState(t) PROVE TypeInv'
  BY <1>0, <1>9, SMT DEF CheckState, Goto, TypeOK, Locals, PCs, usbVars, listVars
<1>10. ASSUME NEW t \in Senders, NEW ok \in BOOLEAN, LastKick(t, ok) PROVE TypeInv'
  <2>1. CASE sendList = <<>>
    BY <1>0, <1>10, <2>1, SMT DEF LastKick, Goto, TypeOK, Locals, PCs, usbVars, listVars
  <2>2. CASE sendList # <<>>
    <3>1. StartTransfer(ok) /\ Goto(t, "idle") /\ pc[t] = "last"
          /\ UNCHANGED <<mem, left, final, wait, held, nseq, halted>>
      BY <1>10, <2>2 DEF LastKick
    <3>2. UNCHANGED <<ready, wire, errors>>
      BY <3>1 DEF StartTransfer
    <3>3. pc' \in [Senders -> PCs]
      BY <1>0, <3>1, SMT DEF Goto, TypeOK, PCs
    <3>4. TypeOK'
      BY <1>0, <2>2, <3>1, <3>2, <3>3, StartTransferType DEF TypeOK
    <3>5. Locals'
      BY <1>0, <3>1, SMT DEF Goto, TypeOK, Locals
    <3> QED BY <3>4, <3>5
  <2> QED BY <2>1, <2>2
<1>11. ASSUME Configure PROVE TypeInv'
  <2>1. Locals'
    BY <1>0, <1>11 DEF Configure, Locals, callVars
  <2>2. TypeOK'
    BY <1>0, <1>11, SMT DEF Configure, TypeOK, States, listVars, callVars
  <2> QED BY <2>1, <2>2
<1>12. ASSUME NEW ok \in BOOLEAN, Complete(ok) PROVE TypeInv'
  <2>1. Received \in Seq([data : Chunk \cup {NoData}, len : 0 .. Full])
    <3> DEFINE R == [data : Chunk \cup {NoData}, len : 0 .. Full]
               x == [data |-> mem[reqBuf], len |-> reqLen]
    <3>1. x \in R /\ wire \in Seq(R)
      BY <1>0 DEF TypeOK
    <3>2. Received = IF reqLen = 0 THEN wire ELSE Append(wire, x)
      BY DEF Received
    <3> HIDE DEF R, x
    <3>3. Append(wire, x) \in Seq(R)
      BY <3>1, SMT
    <3>4. Received \in Seq(R)
      BY <3>1, <3>2, <3>3
    <3> QED BY <3>4 DEF R
  <2>2. UNCHANGED <<ready, errors, mem, callVars, halted>> /\ wire' = Received /\ queued > 0
    BY <1>12 DEF Complete
  <2>3. CASE state = "BUSY" /\ sendList # <<>>
    <3>1. SendNext(ok)
      BY <1>12, <2>3 DEF Complete
    <3>2. TypeOK'
      BY <1>0, <2>1, <2>2, <2>3, <3>1, SendNextType DEF TypeOK, callVars
    <3>3. Locals'
      BY <1>0, <2>2 DEF Locals, callVars
    <3> QED BY <3>2, <3>3
  <2>4. CASE ~(state = "BUSY" /\ sendList # <<>>)
    BY <1>0, <1>12, <2>1, <2>2, <2>4, SMT
       DEF Complete, TypeOK, Locals, States, callVars, listVars
  <2> QED BY <2>3, <2>4
<1>13. ASSUME CompleteError PROVE TypeInv'
  BY <1>0, <1>13, SMT DEF CompleteError, TypeOK, Locals, listVars, callVars
<1> QED
  BY <1>1, <1>2, <1>3, <1>4, <1>5, <1>6, <1>7, <1>8, <1>9, <1>10, <1>11, <1>12, <1>13
     DEF Next, Step

(* Every state of the transmit path is well typed: no call count runs below
   zero, no length exceeds a buffer, the request is never taken off an empty
   queue. *)
THEOREM TypeCorrect == Spec => []TypeOK
<1>1. TypeInv => TypeOK
  BY DEF TypeInv
<1> QED BY TypeInit, TypeStep, <1>1, PTL DEF Spec

-----------------------------------------------------------------------------
(* Ownership changes in three ways only: a task takes a free descriptor, a task
   appends the descriptor it holds, the head of the send list goes back to the
   free list while its buffer is exchanged with the request's. *)
owned == <<freeList, sendList, buf, reqBuf, held>>

Recycle ==
  /\ sendList # <<>>
  /\ sendList' = Tail(sendList) /\ freeList' = Append(freeList, Head(sendList))
  /\ buf' = [buf EXCEPT ![Head(sendList)] = reqBuf]
  /\ reqBuf' = buf[Head(sendList)]
  /\ UNCHANGED held

LEMMA UnmovedOwnership == Ownership /\ UNCHANGED owned => Ownership'
BY DEF Ownership, DescsDisjoint, NoDescLost, BuffersDistinct, In, NoRepeat, owned

LEMMA RecycleOwnership ==
  ASSUME TypeInv, Ownership, Recycle
  PROVE  Ownership'
<1> DEFINE d == Head(sendList)
<1>1. /\ freeList \in Seq(Descs) /\ sendList \in Seq(Descs) /\ sendList # <<>>
      /\ NoRepeat(freeList) /\ NoRepeat(sendList)
  BY DEF TypeInv, TypeOK, Ownership, DescsDisjoint, Recycle
<1>2. /\ d \in Descs /\ Tail(sendList) \in Seq(Descs) /\ NoRepeat(Tail(sendList))
      /\ In(d, sendList)
      /\ \A e : In(e, Tail(sendList)) <=> In(e, sendList) /\ e # d
  BY <1>1, TailFacts
<1>3. ~In(d, freeList)
  BY <1>2 DEF Ownership, DescsDisjoint
<1>4. /\ NoRepeat(Append(freeList, d))
      /\ \A e : In(e, Append(freeList, d)) <=> In(e, freeList) \/ e = d
  BY <1>1, <1>2, <1>3, AppendFacts
<1>5. sendList' = Tail(sendList) /\ freeList' = Append(freeList, d) /\ held' = held
      /\ buf' = [buf EXCEPT ![d] = reqBuf] /\ reqBuf' = buf[d]
  BY DEF Recycle
<1> HIDE DEF d
<1>6. DescsDisjoint'
  <2>1. NoRepeat(freeList') /\ NoRepeat(sendList')
    BY <1>2, <1>4, <1>5
  <2>2. /\ \A e : In(e, sendList') <=> In(e, sendList) /\ e # d
        /\ \A e : In(e, freeList') <=> In(e, freeList) \/ e = d
    BY <1>2, <1>4, <1>5
  <2>3. \A e \in Descs : ~(In(e, freeList') /\ In(e, sendList'))
    BY <2>2 DEF Ownership, DescsDisjoint
  <2>4. \A t \in Senders : held[t] # NoDesc =>
          ~In(held[t], freeList') /\ ~In(held[t], sendList')
    BY <1>2, <2>2 DEF Ownership, DescsDisjoint
  <2> QED BY <1>5, <2>1, <2>3, <2>4 DEF Ownership, DescsDisjoint, In, NoRepeat
<1>7. NoDescLost'
  BY <1>2, <1>4, <1>5 DEF Ownership, NoDescLost, In
<1>8. BuffersDistinct'
  <2>1. buf \in [Descs -> Buffers]
    BY DEF TypeInv, TypeOK
  <2> QED BY <1>2, <1>5, <2>1 DEF Ownership, BuffersDistinct
<1> QED BY <1>6, <1>7, <1>8 DEF Ownership

LEMMA StartTransferOwnership ==
  ASSUME TypeInv, Ownership, sendList # <<>>, NEW ok \in BOOLEAN, StartTransfer(ok),
         UNCHANGED held
  PROVE  Ownership'
<1>1. CASE ok
  <2>1. Recycle
    BY <1>1 DEF StartTransfer, Recycle
  <2> QED BY <2>1, RecycleOwnership
<1>2. CASE ~ok
  BY <1>2, UnmovedOwnership DEF StartTransfer, owned, listVars
<1> QED BY <1>1, <1>2

LEMMA OwnershipInit == Init => Ownership
<1> SUFFICES ASSUME Init PROVE Ownership
  OBVIOUS
<1>1. Len(freeList) = NBuf /\ Len(sendList) = 0
      /\ \A i \in 1 .. NBuf : freeList[i] = i
  BY SendAssumption, SMT DEF Init
<1>2. /\ \A d \in Descs : buf[d] = d
      /\ reqBuf = 0 /\ \A t \in Senders : held[t] = NoDesc
  BY DEF Init
<1>3. \A d : In(d, freeList) <=> d \in Descs
  BY <1>1 DEF In, Descs
<1>4. \A d : ~In(d, sendList)
  BY <1>1, SMT DEF In
<1>5. NoRepeat(freeList) /\ NoRepeat(sendList)
  BY <1>1, SMT DEF NoRepeat
<1>6. BuffersDistinct
  BY <1>2, SendAssumption, SMT DEF BuffersDistinct, Descs
<1> QED BY <1>2, <1>3, <1>4, <1>5, <1>6 DEF Ownership, DescsDisjoint, NoDescLost

LEMMA OwnershipStep == TypeInv /\ Ownership /\ [Next]_vars => Ownership'
<1> SUFFICES ASSUME TypeInv, Ownership, [Next]_vars PROVE Ownership'
  OBVIOUS
<1>0. TypeOK /\ Locals /\ DescsDisjoint /\ NoDescLost /\ BuffersDistinct
  BY DEF TypeInv, Ownership
<1>1. ASSUME NEW t \in Senders, GetFree(t), freeList # <<>> PROVE Ownership'
  <2> DEFINE d == Head(freeList)
  <2>1. /\ d \in Descs /\ Tail(freeList) \in Seq(Descs) /\ NoRepeat(Tail(freeList))
        /\ In(d, freeList)
        /\ \A e : In(e, Tail(freeList)) <=> In(e, freeList) /\ e # d
    BY <1>0, <1>1, TailFacts DEF TypeOK, DescsDisjoint
  <2>2. held' = [held EXCEPT ![t] = d] /\ freeList' = Tail(freeList)
        /\ UNCHANGED <<sendList, buf, reqBuf>> /\ pc[t] = "get"
    BY <1>1 DEF GetFree
  <2>3. held[t] = NoDesc /\ held \in [Senders -> Descs \cup {NoDesc}]
    BY <1>0, <2>2 DEF Locals, TypeOK
  <2> HIDE DEF d
  <2>4. /\ held'[t] = d
        /\ \A u \in Senders : u # t => held'[u] = held[u]
    BY <2>2, <2>3
  <2>5. /\ \A u \in Senders : held[u] # d \/ held[u] = NoDesc
        /\ ~In(d, sendList)
    BY <1>0, <2>1 DEF DescsDisjoint
  <2>6. DescsDisjoint'
    <3>1. \A e : In(e, freeList') <=> In(e, freeList) /\ e # d
      BY <2>1, <2>2
    <3>2. NoRepeat(freeList') /\ NoRepeat(sendList')
      BY <1>0, <2>1, <2>2 DEF DescsDisjoint
    <3>3. \A u \in Senders : held'[u] # NoDesc =>
            ~In(held'[u], freeList') /\ ~In(held'[u], sendList')
      BY <1>0, <2>2, <2>4, <2>5, <3>1 DEF DescsDisjoint
    <3>4. \A u, v \in Senders : held'[u] = held'[v] /\ held'[u] # NoDesc => u = v
      BY <1>0, <2>4, <2>5 DEF DescsDisjoint
    <3>5. \A e \in Descs : ~(In(e, freeList') /\ In(e, sendList'))
      BY <1>0, <2>2, <3>1 DEF DescsDisjoint
    <3> QED BY <3>2, <3>3, <3>4, <3>5 DEF DescsDisjoint, In, NoRepeat
  <2>7. NoDescLost'
    <3>1. ASSUME NEW e \in Descs
          PROVE  In(e, freeList') \/ In(e, sendList') \/ \E u \in Senders : held'[u] = e
      <4>1. NoDesc \notin Descs
        BY SMT DEF NoDesc, Descs
      <4>2. \A u \in Senders : held[u] = e => held'[u] = e
        BY <2>3, <2>4, <4>1
      <4>3. In(e, freeList) => e = d \/ In(e, freeList')
        BY <2>1, <2>2
      <4> QED BY <1>0, <2>2, <2>4, <4>2, <4>3 DEF NoDescLost
    <3> QED BY <3>1 DEF NoDescLost, In
  <2>8. BuffersDistinct'
    BY <1>0, <2>2 DEF BuffersDistinct
  <2> QED BY <2>6, <2>7, <2>8 DEF Ownership
<1>2. ASSUME NEW t \in Senders, AddToSendList(t) PROVE Ownership'
  <2> DEFINE d == held[t]
  <2>1. pc[t] = "append" /\ d # NoDesc /\ d \in Descs
        /\ held \in [Senders -> Descs \cup {NoDesc}]
    BY <1>0, <1>2 DEF AddToSendList, Locals, TypeOK
  <2>2. ~In(d, freeList) /\ ~In(d, sendList) /\ \A u \in Senders : held[u] = d => u = t
    BY <1>0, <2>1 DEF DescsDisjoint
  <2>3. /\ sendList' = Append(sendList, d) /\ held' = [held EXCEPT ![t] = NoDesc]
        /\ UNCHANGED <<freeList, buf, reqBuf>>
    BY <1>2 DEF AddToSendList
  <2>4. /\ NoRepeat(Append(sendList, d))
        /\ \A e : In(e, Append(sendList, d)) <=> In(e, sendList) \/ e = d
    BY <1>0, <2>1, <2>2, AppendFacts DEF TypeOK, DescsDisjoint
  <2> HIDE DEF d
  <2>5. /\ held'[t] = NoDesc
        /\ \A u \in Senders : u # t => held'[u] = held[u]
    BY <2>1, <2>3
  <2>6. \A e : In(e, sendList') <=> In(e, sendList) \/ e = d
    BY <2>3, <2>4
  <2>7. DescsDisjoint'
    <3>1. NoRepeat(freeList') /\ NoRepeat(sendList')
      BY <1>0, <2>3, <2>4 DEF DescsDisjoint
    <3>2. \A e \in Descs : ~(In(e, freeList') /\ In(e, sendList'))
      BY <1>0, <2>2, <2>3, <2>6 DEF DescsDisjoint
    <3>3. \A u \in Senders : held'[u] # NoDesc =>
            ~In(held'[u], freeList') /\ ~In(held'[u], sendList')
      BY <1>0, <2>2, <2>3, <2>5, <2>6 DEF DescsDisjoint
    <3>4. \A u, v \in Senders : held'[u] = held'[v] /\ held'[u] # NoDesc => u = v
      BY <1>0, <2>5 DEF DescsDisjoint
    <3> QED BY <3>1, <3>2, <3>3, <3>4 DEF DescsDisjoint, In, NoRepeat
  <2>8. NoDescLost'
    <3>1. ASSUME NEW e \in Descs
          PROVE  In(e, freeList') \/ In(e, sendList') \/ \E u \in Senders : held'[u] = e
      <4>1. \A u \in Senders : held[u] = e => e = d \/ held'[u] = e
        BY <2>2, <2>5 DEF d
      <4> QED BY <1>0, <2>3, <2>6, <4>1 DEF NoDescLost
    <3> QED BY <3>1 DEF NoDescLost, In
  <2>9. BuffersDistinct'
    BY <1>0, <2>3 DEF BuffersDistinct
  <2> QED BY <2>7, <2>8, <2>9 DEF Ownership
<1>3. ASSUME NEW t \in Senders, NEW ok \in BOOLEAN, Kick(t, ok) \/ LastKick(t, ok)
      PROVE  Ownership'
  <2>1. CASE sendList = <<>>
    <3>1. UNCHANGED owned
      BY <1>3, <2>1 DEF Kick, LastKick, owned, listVars
    <3> QED BY <3>1, UnmovedOwnership
  <2>2. CASE sendList # <<>>
    <3>1. StartTransfer(ok) /\ UNCHANGED held
      BY <1>3, <2>2 DEF Kick, LastKick
    <3> QED BY <2>2, <3>1, StartTransferOwnership
  <2> QED BY <2>1, <2>2
<1>4. ASSUME NEW ok \in BOOLEAN, Complete(ok) PROVE Ownership'
  <2>1. CASE state = "BUSY" /\ sendList # <<>>
    <3>1. Recycle
      BY <1>4, <2>1 DEF Complete, SendNext, Recycle, callVars
    <3> QED BY <3>1, RecycleOwnership
  <2>2. CASE ~(state = "BUSY" /\ sendList # <<>>)
    <3>1. UNCHANGED owned
      BY <1>4, <2>2 DEF Complete, owned, listVars, callVars
    <3> QED BY <3>1, UnmovedOwnership
  <2> QED BY <2>1, <2>2
<1>5. ASSUME NEW t \in Senders,
             \/ Call(t) \/ ReadEp(t) \/ ReadStateWhenFull(t) \/ Fill(t) \/ CheckState(t)
             \/ GetFree(t) /\ freeList = <<>>
      PROVE  Ownership'
  <2>1. UNCHANGED owned
    BY <1>5 DEF Call, ReadEp, ReadStateWhenFull, Fill, CheckState, GetFree, owned, listVars
  <2> QED BY <2>1, UnmovedOwnership
<1>6. ASSUME Configure \/ CompleteError \/ UNCHANGED vars PROVE Ownership'
  <2>1. UNCHANGED owned
    BY <1>6 DEF Configure, CompleteError, owned, listVars, callVars, vars
  <2> QED BY <2>1, UnmovedOwnership
<1> QED
  BY <1>1, <1>2, <1>3, <1>4, <1>5, <1>6, SendAssumption DEF Next, Step

(* No descriptor is lost or listed twice and no buffer has two owners, whatever
   the number of senders and of buffers and however the interrupt interleaves
   with them: the masked sections are enough for this. *)
THEOREM OwnershipHolds == Spec => []Ownership
<1>1. Init => TypeInv /\ Ownership
  BY TypeInit, OwnershipInit
<1>2. TypeInv /\ Ownership /\ [Next]_vars => (TypeInv /\ Ownership)'
  BY TypeStep, OwnershipStep
<1> QED BY <1>1, <1>2, PTL DEF Spec

-----------------------------------------------------------------------------
(* With one sender the state IDLE it has read stays IDLE until it acts on it:
   only a completion could change it, and in IDLE nothing is queued. *)
OneSender == \A s, t \in Senders : s = t

IdleMeansFree ==
  /\ queued <= 1
  /\ state = "IDLE" => queued = 0
  /\ ~ready => state = "UNINITED" /\ queued = 0
  /\ ready => state \in {"IDLE", "BUSY", "LAST_DATA"}
  /\ \A t \in Senders : pc[t] \in {"kick", "last"} => state = "IDLE"

LEMMA IdleMeansFreeStep ==
  ASSUME OneSender, TypeInv, IdleMeansFree, [Next]_vars
  PROVE  IdleMeansFree'
<1> USE DEF IdleMeansFree
<1>0. queued \in Nat /\ pc \in [Senders -> PCs]
  BY DEF TypeInv, TypeOK
<1>1. ASSUME NEW t \in Senders, NEW ok \in BOOLEAN, Kick(t, ok) \/ LastKick(t, ok)
      PROVE  IdleMeansFree'
  <2>1. state = "IDLE" /\ queued = 0 /\ ready /\ \A u \in Senders : u = t
    BY <1>1 DEF Kick, LastKick, OneSender
  <2>2. CASE sendList = <<>>
    <3>1. UNCHANGED <<ready, state, queued>>
      BY <1>1, <2>2 DEF Kick, LastKick, usbVars
    <3> QED BY <2>1, <3>1, SMT
  <2>3. CASE sendList # <<>>
    <3>1. StartTransfer(ok) /\ pc'[t] \notin {"kick", "last"}
      BY <1>0, <1>1, <2>3 DEF Kick, LastKick, Retry, Goto
    <3>2. ready' = ready /\ (\/ state' = "BUSY" /\ queued' = queued + 1
                             \/ state' = state /\ queued' = queued)
      BY <3>1 DEF StartTransfer
    <3> QED BY <2>1, <3>1, <3>2, SMT
  <2> QED BY <2>2, <2>3
<1>2. ASSUME NEW t \in Senders, ReadStateWhenFull(t) \/ CheckState(t)
      PROVE  IdleMeansFree'
  <2>1. /\ UNCHANGED <<ready, state, queued>>
        /\ pc'[t] \in {"kick", "last"} => state = "IDLE"
        /\ \A u \in Senders : u = t
    BY <1>0, <1>2 DEF ReadStateWhenFull, CheckState, Retry, Goto, usbVars, OneSender
  <2> QED BY <2>1
<1>3. ASSUME NEW t \in Senders,
             Call(t) \/ ReadEp(t) \/ GetFree(t) \/ Fill(t) \/ AddToSendList(t)
      PROVE  IdleMeansFree'
  <2>1. /\ UNCHANGED <<ready, state, queued>>
        /\ pc'[t] \notin {"kick", "last"}
        /\ \A u \in Senders : u = t
    BY <1>0, <1>3 DEF Call, ReadEp, GetFree, Fill, AddToSendList, Retry, Goto, usbVars, OneSender
  <2> QED BY <2>1
<1>4. ASSUME Configure PROVE IdleMeansFree'
  <2>1. ready' = TRUE /\ queued' = 1 /\ state' = "BUSY" /\ pc' = pc /\ state = "UNINITED"
    BY <1>4 DEF Configure, callVars
  <2> QED BY <2>1
<1>5. ASSUME NEW ok \in BOOLEAN, Complete(ok) PROVE IdleMeansFree'
  <2>1. queued = 1 /\ state # "IDLE" /\ ready /\ ready' = ready /\ pc' = pc
    BY <1>0, <1>5, SMT DEF Complete, callVars
  <2>2. CASE state = "BUSY" /\ sendList # <<>>
    <3>1. /\ state' = "LAST_DATA" \/ state' = "BUSY"
          /\ queued' = queued \/ queued' = queued - 1
      BY <1>5, <2>2 DEF Complete, SendNext
    <3> QED BY <2>1, <3>1, SMT
  <2>3. CASE ~(state = "BUSY" /\ sendList # <<>>)
    <3>1. queued' = queued - 1 /\ state' = "IDLE"
      BY <1>5, <2>1, <2>3 DEF Complete
    <3> QED BY <2>1, <3>1, SMT
  <2> QED BY <2>2, <2>3
<1>6. ASSUME CompleteError \/ UNCHANGED vars PROVE IdleMeansFree'
  BY <1>6 DEF CompleteError, callVars, vars, usbVars
<1> QED
  BY <1>1, <1>2, <1>3, <1>4, <1>5, <1>6, SendAssumption DEF Next, Step

(* While one task sends, the request is never handed to the controller twice,
   although the state is read outside the lock and acted on under it.  The
   hypothesis is needed: with two tasks the property fails. *)
THEOREM OneTransferHolds == OneSender /\ Spec => []OneTransfer
<1> SUFFICES ASSUME OneSender PROVE Spec => []OneTransfer
  OBVIOUS
<1>1. Init => TypeInv /\ IdleMeansFree
  BY TypeInit DEF Init, IdleMeansFree
<1>2. TypeInv /\ IdleMeansFree /\ [Next]_vars => (TypeInv /\ IdleMeansFree)'
  BY TypeStep, IdleMeansFreeStep
<1>3. IdleMeansFree => OneTransfer
  BY DEF IdleMeansFree, OneTransfer
<1> QED BY <1>1, <1>2, <1>3, PTL DEF Spec

-----------------------------------------------------------------------------
(* What is in the free list is empty, and so is what was taken from it until it is filled. *)
Reset ==
  /\ \A d : In(d, freeList) => cnt[d] = 0
  /\ \A t \in Senders : pc[t] = "fill" => cnt[held[t]] = 0

LEMMA UnmovedReset ==
  ASSUME Reset, UNCHANGED <<freeList, cnt, held>>,
         \A t \in Senders : pc'[t] = "fill" => pc[t] = "fill"
  PROVE  Reset'
BY DEF Reset, In

\* The descriptor at the head of the send list is emptied and goes to the free list.
LEMMA RecycleReset ==
  ASSUME TypeInv, Ownership, Reset, Recycle, cnt' = [cnt EXCEPT ![Head(sendList)] = 0],
         \A t \in Senders : pc'[t] = "fill" => pc[t] = "fill"
  PROVE  Reset'
<1>1. /\ freeList \in Seq(Descs) /\ sendList \in Seq(Descs) /\ sendList # <<>>
      /\ NoRepeat(freeList) /\ NoRepeat(sendList) /\ cnt \in [Descs -> 0 .. Full]
  BY DEF TypeInv, TypeOK, Ownership, DescsDisjoint, Recycle
<1>2. PICK d \in Descs : d = Head(sendList) /\ In(d, sendList)
  BY <1>1, TailFacts
<1>3. ~In(d, freeList)
  BY <1>2 DEF Ownership, DescsDisjoint
<1>4. \A e : In(e, Append(freeList, d)) <=> In(e, freeList) \/ e = d
  BY <1>1, <1>3, AppendFacts
<1>5. freeList' = Append(freeList, d) /\ held' = held /\ cnt' = [cnt EXCEPT ![d] = 0]
  BY <1>2 DEF Recycle
<1>6. \A e : In(e, freeList)' => In(e, freeList) \/ e = d
  BY <1>4, <1>5 DEF In
<1>7. cnt'[d] = 0 /\ \A e : e # d => cnt'[e] = cnt[e]
  BY <1>1, <1>5
<1> QED BY <1>5, <1>6, <1>7 DEF Reset

LEMMA ResetStep == TypeInv /\ Ownership /\ Reset /\ [Next]_vars => Reset'
<1> SUFFICES ASSUME TypeInv, Ownership, Reset, [Next]_vars PROVE Reset'
  OBVIOUS
<1>0. TypeOK /\ Locals /\ DescsDisjoint /\ pc \in [Senders -> PCs]
  BY DEF TypeInv, TypeOK, Ownership
<1>1. ASSUME NEW t \in Senders, GetFree(t) PROVE Reset'
  <2>1. CASE freeList = <<>>
    <3>1. UNCHANGED <<freeList, cnt, held>> /\ pc' = [pc EXCEPT ![t] = "null"]
      BY <1>1, <2>1 DEF GetFree, Goto
    <3> QED BY <1>0, <3>1, UnmovedReset
  <2>2. CASE freeList # <<>>
    <3>1. PICK d \in Descs :
            /\ d = Head(freeList) /\ In(d, freeList)
            /\ \A e : In(e, Tail(freeList)) <=> In(e, freeList) /\ e # d
      BY <1>0, <2>2, TailFacts DEF TypeOK, DescsDisjoint
    <3>2. /\ held' = [held EXCEPT ![t] = d] /\ freeList' = Tail(freeList) /\ cnt' = cnt
          /\ pc' = [pc EXCEPT ![t] = "fill"]
      BY <1>1, <2>2, <3>1 DEF GetFree, Goto
    <3>3. held'[t] = d /\ \A u \in Senders : u # t => held'[u] = held[u] /\ pc'[u] = pc[u]
      BY <1>0, <3>2 DEF TypeOK
    <3>4. \A e : In(e, freeList)' => In(e, freeList)
      BY <3>1, <3>2 DEF In
    <3> QED BY <3>1, <3>2, <3>3, <3>4 DEF Reset
  <2> QED BY <2>1, <2>2
<1>2. ASSUME NEW t \in Senders, Fill(t) PROVE Reset'
  <2>1. PICK n : cnt' = [cnt EXCEPT ![held[t]] = n]
    BY <1>2 DEF Fill
  <2>2. UNCHANGED <<freeList, held>> /\ pc[t] = "fill" /\ pc' = [pc EXCEPT ![t] = "append"]
    BY <1>2 DEF Fill, Goto
  <2>3. held[t] # NoDesc /\ cnt \in [Descs -> 0 .. Full]
    BY <1>0, <2>2 DEF Locals, TypeOK
  <2>4. ~In(held[t], freeList) /\ \A u \in Senders : held[u] = held[t] => u = t
    BY <1>0, <2>3 DEF DescsDisjoint
  <2>5. \A e : e # held[t] => cnt'[e] = cnt[e]
    BY <2>1, <2>3
  <2>6. \A u \in Senders : pc'[u] = "fill" => u # t /\ pc[u] = "fill"
    BY <1>0, <2>2
  <2>7. \A e : In(e, freeList)' => In(e, freeList) /\ e # held[t]
    BY <2>2, <2>4 DEF In
  <2> QED BY <2>2, <2>4, <2>5, <2>6, <2>7 DEF Reset
<1>3. ASSUME NEW t \in Senders, AddToSendList(t) PROVE Reset'
  <2>1. /\ UNCHANGED <<freeList, cnt>> /\ held' = [held EXCEPT ![t] = NoDesc]
        /\ \E l \in {"get", "check"} : pc' = [pc EXCEPT ![t] = l]
    BY <1>3 DEF AddToSendList, Goto
  <2>2. \A u \in Senders : pc'[u] = "fill" => u # t /\ pc[u] = "fill"
    BY <1>0, <2>1
  <2>3. \A u \in Senders : u # t => held'[u] = held[u]
    BY <1>0, <2>1 DEF TypeOK
  <2> QED BY <2>1, <2>2, <2>3 DEF Reset, In
<1>4. ASSUME NEW t \in Senders, NEW ok \in BOOLEAN, Kick(t, ok) \/ LastKick(t, ok)
      PROVE  Reset'
  <2>1. \A u \in Senders : pc'[u] = "fill" => pc[u] = "fill"
    BY <1>0, <1>4 DEF Kick, LastKick, Retry, Goto
  <2>2. held' = held
    BY <1>4 DEF Kick, LastKick
  <2>3. CASE sendList = <<>> \/ ~ok
    <3>1. UNCHANGED <<freeList, cnt>>
      BY <1>4, <2>3 DEF Kick, LastKick, StartTransfer, listVars
    <3> QED BY <2>1, <2>2, <3>1, UnmovedReset
  <2>4. CASE sendList # <<>> /\ ok
    <3>1. Recycle /\ cnt' = [cnt EXCEPT ![Head(sendList)] = 0]
      BY <1>4, <2>2, <2>4 DEF Kick, LastKick, StartTransfer, Recycle
    <3> QED BY <2>1, <3>1, RecycleReset
  <2> QED BY <2>3, <2>4
<1>5. ASSUME NEW ok \in BOOLEAN, Complete(ok) PROVE Reset'
  <2>1. UNCHANGED <<held, pc>>
    BY <1>5 DEF Complete, callVars
  <2>2. CASE state = "BUSY" /\ sendList # <<>>
    <3>1. Recycle /\ cnt' = [cnt EXCEPT ![Head(sendList)] = 0]
      BY <1>5, <2>1, <2>2 DEF Complete, SendNext, Recycle
    <3> QED BY <2>1, <3>1, RecycleReset
  <2>3. CASE ~(state = "BUSY" /\ sendList # <<>>)
    <3>1. UNCHANGED <<freeList, cnt>>
      BY <1>5, <2>3 DEF Complete, listVars
    <3> QED BY <2>1, <3>1, UnmovedReset
  <2> QED BY <2>2, <2>3
<1>6. ASSUME NEW t \in Senders, Call(t) \/ ReadEp(t) \/ ReadStateWhenFull(t) \/ CheckState(t)
      PROVE  Reset'
  <2>1. UNCHANGED <<freeList, cnt, held>>
    BY <1>6 DEF Call, ReadEp, ReadStateWhenFull, CheckState, listVars
  <2>2. \A u \in Senders : pc'[u] = "fill" => pc[u] = "fill"
    BY <1>0, <1>6 DEF Call, ReadEp, ReadStateWhenFull, CheckState, Retry, Goto
  <2> QED BY <2>1, <2>2, UnmovedReset
<1>7. ASSUME Configure \/ CompleteError \/ UNCHANGED vars PROVE Reset'
  <2>1. UNCHANGED <<freeList, cnt, held, pc>>
    BY <1>7 DEF Configure, CompleteError, listVars, callVars, vars
  <2> QED BY <2>1, UnmovedReset
<1> QED
  BY <1>1, <1>2, <1>3, <1>4, <1>5, <1>6, <1>7, SendAssumption DEF Next, Step

(* A buffer taken from the free list is empty, whoever takes it: the three assertions
   after GetFree never fail, for any number of senders. *)
THEOREM FreeBuffersResetHolds == Spec => []FreeBuffersReset
<1>1. Init => TypeInv /\ Ownership /\ Reset
  <2> SUFFICES ASSUME Init PROVE Reset
    BY TypeInit, OwnershipInit
  <2>1. \A i \in 1 .. Len(freeList) : freeList[i] \in Descs
    BY SendAssumption, SMT DEF Init, Descs
  <2> QED BY <2>1 DEF Init, Reset, In
<1>2. TypeInv /\ Ownership /\ Reset /\ [Next]_vars => (TypeInv /\ Ownership /\ Reset)'
  BY TypeStep, OwnershipStep, ResetStep
<1>3. Reset => FreeBuffersReset
  BY DEF Reset, FreeBuffersReset, In
<1> QED BY <1>1, <1>2, <1>3, PTL DEF Spec

-----------------------------------------------------------------------------
(* The state tells whether a transfer is running.  BUSY or LAST_DATA without one would be
   the end of the channel: no completion would come, and no sender restarts what it
   believes to be running. *)
StateTellsTransfer == queued = IF state \in {"BUSY", "LAST_DATA"} THEN 1 ELSE 0

LEMMA StateTellsTransferStep ==
  ASSUME OneSender, IsrQueue \subseteq {TRUE}, TypeInv, IdleMeansFree, StateTellsTransfer,
         [Next]_vars
  PROVE  StateTellsTransfer'
<1> USE DEF StateTellsTransfer
<1>0. queued \in Nat
  BY DEF TypeInv, TypeOK
<1>1. ASSUME NEW t \in Senders, NEW ok \in BOOLEAN, Kick(t, ok) \/ LastKick(t, ok)
      PROVE  StateTellsTransfer'
  <2>1. state = "IDLE" /\ queued = 0
    BY <1>1 DEF Kick, LastKick, IdleMeansFree
  <2>2. \/ UNCHANGED <<state, queued>>
        \/ state' = "BUSY" /\ queued' = queued + 1
    BY <1>1 DEF Kick, LastKick, StartTransfer, usbVars
  <2> QED BY <2>1, <2>2, SMT
<1>2. ASSUME NEW t \in Senders,
             \/ Call(t) \/ ReadEp(t) \/ GetFree(t) \/ ReadStateWhenFull(t)
             \/ Fill(t) \/ AddToSendList(t) \/ CheckState(t)
      PROVE  StateTellsTransfer'
  BY <1>2 DEF Call, ReadEp, GetFree, ReadStateWhenFull, Fill, AddToSendList, CheckState, usbVars
<1>3. ASSUME Configure PROVE StateTellsTransfer'
  BY <1>3 DEF Configure
<1>4. ASSUME NEW ok \in IsrQueue, Complete(ok) PROVE StateTellsTransfer'
  <2>1. ok /\ queued = 1 /\ state \in {"BUSY", "LAST_DATA"}
    <3>1. queued > 0
      BY <1>4 DEF Complete
    <3>2. queued # 0
      BY <1>0, <3>1, SMT
    <3> QED BY <3>2
  <2>2. CASE state = "BUSY" /\ sendList # <<>>
    <3>1. queued' = queued /\ (state' = "LAST_DATA" \/ state' = "BUSY")
      BY <1>4, <2>1, <2>2 DEF Complete, SendNext
    <3> QED BY <2>1, <3>1
  <2>3. CASE ~(state = "BUSY" /\ sendList # <<>>)
    <3>1. queued' = queued - 1 /\ state' = "IDLE"
      BY <1>4, <2>1, <2>3 DEF Complete
    <3> QED BY <2>1, <3>1, SMT
  <2> QED BY <2>2, <2>3
<1>5. ASSUME CompleteError \/ UNCHANGED vars PROVE StateTellsTransfer'
  BY <1>5 DEF CompleteError, vars, usbVars
<1> QED BY <1>1, <1>2, <1>3, <1>4, <1>5, SendAssumption DEF Next, Step

(* One sender never meets a state that claims a transfer the controller does not have, nor
   IDLE while it has one, as long as the controller accepts what the interrupt queues:
   the safety half of "calls return" and "what is listed is sent". *)
THEOREM StateTellsTransferHolds ==
  OneSender /\ IsrQueue \subseteq {TRUE} /\ Spec => []StateTellsTransfer
<1> SUFFICES ASSUME OneSender, IsrQueue \subseteq {TRUE} PROVE Spec => []StateTellsTransfer
  OBVIOUS
<1>1. Init => TypeInv /\ IdleMeansFree /\ StateTellsTransfer
  BY TypeInit DEF Init, IdleMeansFree, StateTellsTransfer
<1>2. TypeInv /\ IdleMeansFree /\ StateTellsTransfer /\ [Next]_vars
        => (TypeInv /\ IdleMeansFree /\ StateTellsTransfer)'
  BY TypeStep, IdleMeansFreeStep, StateTellsTransferStep
<1> QED BY <1>1, <1>2, PTL DEF Spec

-----------------------------------------------------------------------------
(* A descriptor in the send list has been filled, and so has the one about to be appended;
   the request is empty only when it carries nothing, that is on the first transfer. *)
Filled ==
  /\ \A d : In(d, sendList) => cnt[d] > 0 /\ mem[buf[d]] # NoData
  /\ \A t \in Senders : pc[t] = "append" => cnt[held[t]] > 0 /\ mem[buf[held[t]]] # NoData
  /\ queued > 0 /\ reqLen = 0 => mem[reqBuf] = NoData
  /\ ~ready => mem[reqBuf] = NoData /\ \A t \in Senders : pc[t] \in {"idle", "ep"}

Inv == TypeInv /\ Ownership /\ IdleMeansFree /\ Filled

LEMMA FilledInit == Init => Filled
<1> SUFFICES ASSUME Init PROVE Filled
  OBVIOUS
<1>1. \A d : ~In(d, sendList)
  BY SMT DEF Init, In
<1>2. /\ \A t \in Senders : pc[t] = "idle"
      /\ ~(queued > 0) /\ mem[reqBuf] = NoData
  <2>1. 0 \in Buffers /\ ~(queued > 0)
    BY SendAssumption, SMT DEF Init, Buffers
  <2> QED BY <2>1 DEF Init
<1> QED BY <1>1, <1>2 DEF Filled

(* The head of the send list goes into the request: the others stay filled. *)
LEMMA RecycleFilled ==
  ASSUME Inv, Recycle, reqLen' = cnt[Head(sendList)], cnt' = [cnt EXCEPT ![Head(sendList)] = 0],
         UNCHANGED <<mem, ready>>, ready, \A t \in Senders : pc'[t] = "append" => pc[t] = "append"
  PROVE  Filled'
<1>1. /\ sendList \in Seq(Descs) /\ sendList # <<>> /\ NoRepeat(sendList)
      /\ cnt \in [Descs -> 0 .. Full] /\ buf \in [Descs -> Buffers]
      /\ held \in [Senders -> Descs \cup {NoDesc}]
  BY DEF Inv, TypeInv, TypeOK, Ownership, DescsDisjoint, Recycle
<1>2. PICK d \in Descs : /\ d = Head(sendList) /\ In(d, sendList)
                         /\ \A e : In(e, Tail(sendList)) <=> In(e, sendList) /\ e # d
  BY <1>1, TailFacts
<1>3. /\ sendList' = Tail(sendList) /\ buf' = [buf EXCEPT ![d] = reqBuf]
      /\ cnt' = [cnt EXCEPT ![d] = 0] /\ reqLen' = cnt[d] /\ held' = held /\ mem' = mem
      /\ reqBuf' = buf[d]
  BY <1>2 DEF Recycle
<1>4. \A e : e # d => cnt'[e] = cnt[e] /\ buf'[e] = buf[e]
  BY <1>1, <1>3
<1>5. \A e : In(e, sendList)' => In(e, sendList) /\ e # d
  BY <1>2, <1>3 DEF In
<1>6. \A t \in Senders : pc'[t] = "append" => held[t] # d
  BY <1>2 DEF Inv, Ownership, DescsDisjoint, TypeInv, Locals
<1>7. cnt[d] > 0 /\ cnt[d] \in Nat
  BY <1>1, <1>2, SMT DEF Inv, Filled
<1>8. reqLen' # 0
  BY <1>3, <1>7, SMT
<1> QED BY <1>3, <1>4, <1>5, <1>6, <1>8 DEF Inv, Filled

LEMMA UnmovedFilled ==
  ASSUME Filled, UNCHANGED <<sendList, cnt, buf, mem, reqBuf, ready>>,
         \A t \in Senders : pc'[t] = "append" => pc[t] = "append" /\ held'[t] = held[t],
         ~ready => \A t \in Senders : pc'[t] \in {"idle", "ep"},
         queued' > 0 /\ reqLen' = 0 => queued > 0 /\ reqLen = 0
  PROVE  Filled'
BY DEF Filled, In

LEMMA FilledStep == OneSender /\ Inv /\ [Next]_vars => Filled'
<1> SUFFICES ASSUME OneSender, Inv, [Next]_vars PROVE Filled'
  OBVIOUS
<1>0. /\ TypeOK /\ Locals /\ Ownership /\ IdleMeansFree /\ Filled
      /\ pc \in [Senders -> PCs] /\ held \in [Senders -> Descs \cup {NoDesc}]
      /\ queued \in Nat
  BY DEF Inv, TypeInv, TypeOK
<1>1. ASSUME NEW t \in Senders, NEW ok \in BOOLEAN, Kick(t, ok) \/ LastKick(t, ok)
      PROVE  Filled'
  <2>1. state = "IDLE" /\ queued = 0 /\ ready
    BY <1>0, <1>1 DEF Kick, LastKick, IdleMeansFree
  <2>2. /\ \A u \in Senders : pc'[u] = "append" => pc[u] = "append"
        /\ UNCHANGED <<held, mem>>
    BY <1>0, <1>1 DEF Kick, LastKick, Retry, Goto
  <2>3. CASE sendList = <<>> \/ ~ok
    <3>1. UNCHANGED <<sendList, cnt, buf, reqBuf, ready, queued>>
      BY <1>1, <2>3 DEF Kick, LastKick, StartTransfer, listVars, usbVars
    <3>2. ~(queued' > 0)
      BY <2>1, <3>1, SMT
    <3> QED BY <1>0, <2>1, <2>2, <3>1, <3>2, UnmovedFilled
  <2>4. CASE sendList # <<>> /\ ok
    <3>1. /\ Recycle /\ cnt' = [cnt EXCEPT ![Head(sendList)] = 0]
          /\ reqLen' = cnt[Head(sendList)] /\ ready' = ready
      BY <1>1, <2>2, <2>4 DEF Kick, LastKick, StartTransfer, Recycle
    <3> QED BY <2>1, <2>2, <3>1, RecycleFilled
  <2> QED BY <2>3, <2>4
<1>2. ASSUME NEW ok \in BOOLEAN, Complete(ok) PROVE Filled'
  <2>1. UNCHANGED <<held, pc, mem, ready>> /\ queued > 0
    BY <1>2 DEF Complete, callVars
  <2>2. queued = 1 /\ ready
    BY <1>0, <2>1, SMT DEF IdleMeansFree
  <2>3. CASE state = "BUSY" /\ sendList # <<>>
    <3>1. /\ Recycle /\ cnt' = [cnt EXCEPT ![Head(sendList)] = 0]
          /\ reqLen' = cnt[Head(sendList)]
      BY <1>2, <2>1, <2>3 DEF Complete, SendNext, Recycle
    <3> QED BY <2>1, <2>2, <3>1, RecycleFilled
  <2>4. CASE ~(state = "BUSY" /\ sendList # <<>>)
    <3>1. UNCHANGED <<sendList, cnt, buf, reqBuf>> /\ queued' = queued - 1
      BY <1>2, <2>4 DEF Complete, listVars
    <3>2. ~(queued' > 0)
      BY <2>2, <3>1, SMT
    <3> QED BY <1>0, <2>1, <2>2, <3>1, <3>2, UnmovedFilled
  <2> QED BY <2>3, <2>4
<1>3. ASSUME NEW t \in Senders, Fill(t) PROVE Filled'
  <2> DEFINE c == [by |-> t, seq |-> nseq[t] + 1,
                   len |-> IF left[t] = 1 THEN final[t] ELSE Full]
             d == held[t]
  <2>1. c \in Chunk /\ c.len > 0
    BY <1>0, SendAssumption, SMT DEF TypeOK, Chunk
  <2>2. c # NoData
    BY <2>1, SendAssumption
  <2>3. /\ mem' = [mem EXCEPT ![buf[d]] = c] /\ cnt' = [cnt EXCEPT ![d] = c.len]
        /\ pc[t] = "fill" /\ pc' = [pc EXCEPT ![t] = "append"]
        /\ UNCHANGED <<held, sendList, buf, reqBuf, ready, queued, reqLen>>
    BY <1>3 DEF Fill, Goto, usbVars
  <2>4. d \in Descs /\ d # NoDesc /\ ready
    BY <1>0, <2>3 DEF Locals, Filled
  <2>5. /\ ~In(d, sendList) /\ \A e \in Descs : buf[e] = buf[d] => e = d
        /\ buf[d] # reqBuf /\ mem \in [Buffers -> Chunk \cup {NoData}]
        /\ cnt \in [Descs -> 0 .. Full] /\ buf \in [Descs -> Buffers]
        /\ sendList \in Seq(Descs)
    BY <1>0, <2>4 DEF Ownership, DescsDisjoint, BuffersDistinct, TypeOK
  <2> HIDE DEF c, d
  <2>6. /\ mem'[buf[d]] = c /\ cnt'[d] = c.len
        /\ \A e \in Descs : e # d => mem'[buf[e]] = mem[buf[e]] /\ cnt'[e] = cnt[e]
        /\ mem'[reqBuf] = mem[reqBuf]
    BY <2>3, <2>4, <2>5
  <2>7. \A e : In(e, sendList) => e \in Descs /\ e # d
    BY <2>5, ElementOfSeq DEF In
  <2>8. \A u \in Senders : u = t
    BY DEF OneSender
  <2>9. \A e : In(e, sendList)' => cnt'[e] > 0 /\ mem'[buf'[e]] # NoData
    BY <1>0, <2>3, <2>6, <2>7 DEF In, Filled
  <2>10. cnt'[held'[t]] > 0 /\ mem'[buf'[held'[t]]] # NoData
    BY <2>1, <2>2, <2>3, <2>6 DEF d
  <2> QED BY <1>0, <2>3, <2>4, <2>6, <2>8, <2>9, <2>10 DEF Filled
<1>4. ASSUME NEW t \in Senders, AddToSendList(t) PROVE Filled'
  <2>1. /\ pc[t] = "append" /\ sendList' = Append(sendList, held[t])
        /\ held' = [held EXCEPT ![t] = NoDesc]
        /\ \E l \in {"get", "check"} : pc' = [pc EXCEPT ![t] = l]
        /\ UNCHANGED <<cnt, buf, mem, reqBuf, ready, queued, reqLen>>
    BY <1>4 DEF AddToSendList, Goto, usbVars
  <2>2. held[t] \in Descs /\ held[t] # NoDesc /\ ready
    BY <1>0, <2>1 DEF Locals, Filled
  <2>3. \A e : In(e, Append(sendList, held[t])) <=> In(e, sendList) \/ e = held[t]
    BY <1>0, <2>2, AppendFacts DEF TypeOK, Ownership, DescsDisjoint
  <2>4. \A e : In(e, sendList)' => In(e, sendList) \/ e = held[t]
    BY <2>1, <2>3 DEF In
  <2>5. \A u \in Senders : u = t /\ pc'[u] # "append"
    BY <1>0, <2>1 DEF OneSender
  <2> QED BY <1>0, <2>1, <2>2, <2>4, <2>5 DEF Filled
<1>5. ASSUME NEW t \in Senders, Call(t) \/ ReadEp(t) PROVE Filled'
  <2>1. /\ UNCHANGED <<sendList, cnt, buf, mem, reqBuf, ready, held, queued, reqLen>>
        /\ ready \/ \E l \in {"ep", "idle"} : pc' = [pc EXCEPT ![t] = l]
        /\ \E l \in {"ep", "idle", "get", "check"} : pc' = [pc EXCEPT ![t] = l]
    <3>1. ASSUME Call(t) PROVE pc' = [pc EXCEPT ![t] = "ep"]
      BY <3>1 DEF Call, Goto
    <3>2. ASSUME ReadEp(t), ready
          PROVE  pc' = [pc EXCEPT ![t] = "get"] \/ pc' = [pc EXCEPT ![t] = "check"]
      BY <3>2 DEF ReadEp, Goto
    <3>3. ASSUME ReadEp(t), ~ready
          PROVE  pc' = [pc EXCEPT ![t] = "ep"] \/ pc' = [pc EXCEPT ![t] = "idle"]
      BY <3>3 DEF ReadEp, Retry, Goto
    <3> QED BY <1>5, <3>1, <3>2, <3>3 DEF Call, ReadEp, usbVars, listVars
  <2>2. \A u \in Senders : u = t
    BY DEF OneSender
  <2> QED BY <1>0, <2>1, <2>2, UnmovedFilled
<1>6. ASSUME NEW t \in Senders, GetFree(t) \/ ReadStateWhenFull(t) \/ CheckState(t)
      PROVE  Filled'
  <2>1. pc[t] \in {"get", "null", "check"}
        /\ UNCHANGED <<sendList, cnt, buf, mem, reqBuf, ready, queued, reqLen>>
    BY <1>6 DEF GetFree, ReadStateWhenFull, CheckState, usbVars, listVars
  <2>2. ready
    BY <1>0, <2>1 DEF Filled
  <2>3. \A u \in Senders : u = t /\ pc'[u] # "append"
    BY <1>0, <1>6 DEF GetFree, ReadStateWhenFull, CheckState, Retry, Goto, OneSender
  <2> QED BY <1>0, <2>1, <2>2, <2>3, UnmovedFilled
<1>7. ASSUME Configure PROVE Filled'
  BY <1>0, <1>7 DEF Configure, listVars, callVars, Filled, In
<1>8. ASSUME CompleteError PROVE Filled'
  <2>1. /\ reqLen' = Full /\ UNCHANGED <<sendList, cnt, buf, mem, reqBuf, ready, held, pc, queued>>
    BY <1>8 DEF CompleteError, listVars, callVars
  <2>2. reqLen' # 0
    BY <2>1, SendAssumption, SMT
  <2> QED BY <1>0, <2>1, <2>2, UnmovedFilled DEF Filled
<1>9. ASSUME UNCHANGED vars PROVE Filled'
  BY <1>0, <1>9, UnmovedFilled DEF vars, usbVars, listVars, callVars, Filled
<1> QED
  BY <1>1, <1>2, <1>3, <1>4, <1>5, <1>6, <1>7, <1>8, <1>9, SendAssumption DEF Next, Step

-----------------------------------------------------------------------------
(* Lengths.  A descriptor on its way to the request has the count of what its buffer
   holds, whoever filled it. *)
Sized ==
  /\ \A d : In(d, sendList) => cnt[d] = LenOf(mem[buf[d]])
  /\ \A t \in Senders : pc[t] = "append" => cnt[held[t]] = LenOf(mem[buf[held[t]]])

LEMMA UnmovedSized ==
  ASSUME Sized, UNCHANGED <<sendList, cnt, buf, mem>>,
         \A t \in Senders : pc'[t] = "append" => pc[t] = "append" /\ held'[t] = held[t]
  PROVE  Sized'
BY DEF Sized, In

\* The head of the send list goes into the request, and its count with it.
LEMMA RecycleSized ==
  ASSUME TypeInv, Ownership, Sized, Recycle, cnt' = [cnt EXCEPT ![Head(sendList)] = 0], mem' = mem,
         \A t \in Senders : pc'[t] = "append" => pc[t] = "append"
  PROVE  Sized' /\ cnt[Head(sendList)] = LenOf(mem'[reqBuf'])
<1>1. /\ sendList \in Seq(Descs) /\ sendList # <<>> /\ NoRepeat(sendList)
      /\ cnt \in [Descs -> 0 .. Full] /\ buf \in [Descs -> Buffers]
  BY DEF TypeInv, TypeOK, Ownership, DescsDisjoint, Recycle
<1>2. PICK d \in Descs : /\ d = Head(sendList) /\ In(d, sendList)
                         /\ \A e : In(e, Tail(sendList)) <=> In(e, sendList) /\ e # d
  BY <1>1, TailFacts
<1>3. /\ sendList' = Tail(sendList) /\ buf' = [buf EXCEPT ![d] = reqBuf]
      /\ cnt' = [cnt EXCEPT ![d] = 0] /\ held' = held /\ reqBuf' = buf[d]
  BY <1>2 DEF Recycle
<1>4. \A e : e # d => cnt'[e] = cnt[e] /\ buf'[e] = buf[e]
  BY <1>1, <1>3
<1>5. \A e : In(e, sendList)' => In(e, sendList) /\ e # d
  BY <1>2, <1>3 DEF In
<1>6. \A t \in Senders : pc'[t] = "append" => held[t] # d
  BY <1>2 DEF Ownership, DescsDisjoint, TypeInv, Locals
<1>7. Sized'
  BY <1>3, <1>4, <1>5, <1>6 DEF Sized
<1> QED BY <1>2, <1>3, <1>7 DEF Sized

LEMMA FillSized ==
  ASSUME TypeInv, Ownership, Sized, NEW t \in Senders, Fill(t)
  PROVE  Sized' /\ mem'[reqBuf'] = mem[reqBuf]
<1> DEFINE c == [by |-> t, seq |-> nseq[t] + 1,
                 len |-> IF left[t] = 1 THEN final[t] ELSE Full]
           d == held[t]
<1>0. TypeOK /\ Locals /\ DescsDisjoint /\ BuffersDistinct
  BY DEF TypeInv, Ownership
<1>1. c \in Chunk
  BY <1>0, SendAssumption, SMT DEF TypeOK, Chunk
<1>2. LenOf(c) = c.len
  BY <1>1, SendAssumption DEF LenOf
<1>3. /\ mem' = [mem EXCEPT ![buf[d]] = c] /\ cnt' = [cnt EXCEPT ![d] = c.len]
      /\ pc[t] = "fill" /\ pc' = [pc EXCEPT ![t] = "append"]
      /\ UNCHANGED <<held, sendList, buf, reqBuf>>
  BY DEF Fill, Goto, usbVars
<1>4. d \in Descs /\ d # NoDesc
  BY <1>0, <1>3 DEF Locals, TypeOK
<1>5. /\ ~In(d, sendList) /\ \A e \in Descs : buf[e] = buf[d] => e = d
      /\ buf[d] # reqBuf /\ mem \in [Buffers -> Chunk \cup {NoData}] /\ reqBuf \in Buffers
      /\ cnt \in [Descs -> 0 .. Full] /\ buf \in [Descs -> Buffers]
      /\ sendList \in Seq(Descs) /\ pc \in [Senders -> PCs]
  BY <1>0, <1>4 DEF DescsDisjoint, BuffersDistinct, TypeOK
<1>6. \A u \in Senders : u # t /\ pc[u] = "append" => held[u] \in Descs /\ held[u] # d
  BY <1>0, <1>4 DEF DescsDisjoint, Locals, TypeOK
<1> HIDE DEF c, d
<1>7. /\ mem'[buf[d]] = c /\ cnt'[d] = c.len
      /\ \A e \in Descs : e # d => mem'[buf[e]] = mem[buf[e]] /\ cnt'[e] = cnt[e]
      /\ mem'[reqBuf] = mem[reqBuf]
  BY <1>3, <1>4, <1>5
<1>8. \A e : In(e, sendList) => e \in Descs /\ e # d
  BY <1>5, ElementOfSeq DEF In
<1>9. \A e : In(e, sendList)' => cnt'[e] = LenOf(mem'[buf'[e]])
  BY <1>3, <1>7, <1>8 DEF In, Sized
<1>10. cnt'[held'[t]] = LenOf(mem'[buf'[held'[t]]])
  BY <1>2, <1>3, <1>7 DEF d
<1>11. \A u \in Senders : u # t /\ pc'[u] = "append" => cnt'[held'[u]] = LenOf(mem'[buf'[held'[u]]])
  <2> SUFFICES ASSUME NEW u \in Senders, u # t, pc'[u] = "append"
               PROVE  cnt'[held'[u]] = LenOf(mem'[buf'[held'[u]]])
    OBVIOUS
  <2>1. pc[u] = "append" /\ held'[u] = held[u] /\ held[u] \in Descs /\ held[u] # d
    BY <1>3, <1>5, <1>6
  <2>2. cnt'[held[u]] = cnt[held[u]] /\ mem'[buf[held[u]]] = mem[buf[held[u]]]
    BY <1>7, <2>1
  <2> QED BY <1>3, <2>1, <2>2 DEF Sized
<1> QED BY <1>3, <1>7, <1>9, <1>10, <1>11 DEF Sized

LEMMA AppendSized ==
  ASSUME TypeInv, Ownership, Sized, NEW t \in Senders, AddToSendList(t)
  PROVE  Sized'
<1>0. TypeOK /\ Locals /\ DescsDisjoint /\ held \in [Senders -> Descs \cup {NoDesc}]
      /\ pc \in [Senders -> PCs]
  BY DEF TypeInv, TypeOK, Ownership
<1>1. /\ pc[t] = "append" /\ sendList' = Append(sendList, held[t])
      /\ held' = [held EXCEPT ![t] = NoDesc]
      /\ \E l \in {"get", "check"} : pc' = [pc EXCEPT ![t] = l]
      /\ UNCHANGED <<cnt, buf, mem>>
  BY DEF AddToSendList, Goto
<1>2. held[t] \in Descs /\ held[t] # NoDesc
  BY <1>0, <1>1 DEF Locals
<1>3. \A e : In(e, Append(sendList, held[t])) <=> In(e, sendList) \/ e = held[t]
  BY <1>0, <1>2, AppendFacts DEF TypeOK, DescsDisjoint
<1>4. \A e : In(e, sendList)' => In(e, sendList) \/ e = held[t]
  BY <1>1, <1>3 DEF In
<1>5. \A u \in Senders : pc'[u] = "append" => u # t /\ pc[u] = "append" /\ held'[u] = held[u]
  BY <1>0, <1>1
<1> QED BY <1>1, <1>4, <1>5 DEF Sized

(* What a transfer that ends adds to what the host has received: nothing wrong, if the
   length was right; one spoiled transfer otherwise. *)
LEMMA SpoiledGrows ==
  ASSUME TypeInv, IsFiniteSet(Spoiled), wire' = Received
  PROVE  /\ IsFiniteSet(Spoiled') /\ Cardinality(Spoiled') <= Cardinality(Spoiled) + 1
         /\ reqLen = LenOf(mem[reqBuf]) => Spoiled' = Spoiled
<1> DEFINE R == [data : Chunk \cup {NoData}, len : 0 .. Full]
           x == [data |-> mem[reqBuf], len |-> reqLen]
           n == Len(wire) + 1
<1>1. x \in R /\ wire \in Seq(R)
  BY DEF TypeInv, TypeOK
<1>2. Cardinality(Spoiled) \in Nat
  BY FS_CardinalityType
<1>3. CASE reqLen = 0
  <2>1. wire' = wire
    BY <1>3 DEF Received
  <2>2. Spoiled' = Spoiled
    BY <2>1 DEF Spoiled
  <2>3. Cardinality(Spoiled) <= Cardinality(Spoiled) + 1
    BY <1>2, SMT
  <2> QED BY <2>2, <2>3
<1>4. CASE reqLen # 0
  <2>1. wire' = Append(wire, x)
    BY <1>4 DEF Received
  <2>2. x.data = mem[reqBuf] /\ x.len = reqLen
    OBVIOUS
  <2> HIDE DEF R, x
  <2>3. /\ Len(wire') = n /\ wire'[n] = x
        /\ \A i \in 1 .. Len(wire) : wire'[i] = wire[i]
    BY <1>1, <2>1, AppendProperties
  <2>4. Len(wire) \in Nat
    BY <1>1, LenProperties
  <2>5. \A i : i \in 1 .. n <=> i \in 1 .. Len(wire) \/ i = n
    BY <2>4, SMT
  <2>6. n \notin 1 .. Len(wire)
    BY <2>4, SMT
  <2> HIDE DEF n
  <2>7. \A i : i \in Spoiled' <=> i \in 1 .. n /\ wire'[i].len # LenOf(wire'[i].data)
    BY <2>3 DEF Spoiled
  <2>8. \A i : i \in Spoiled <=> i \in 1 .. Len(wire) /\ wire[i].len # LenOf(wire[i].data)
    BY DEF Spoiled
  <2>9. \A i : i \in Spoiled' <=> i \in Spoiled \/ (i = n /\ reqLen # LenOf(mem[reqBuf]))
    BY <2>2, <2>3, <2>5, <2>6, <2>7, <2>8
  <2>10. PICK S : S = Spoiled
    OBVIOUS
  <2>11. PICK T : T = Spoiled'
    OBVIOUS
  <2>12. T \in SUBSET (S \cup {n}) /\ (reqLen = LenOf(mem[reqBuf]) => T = S)
    BY <2>9, <2>10, <2>11
  <2>13. /\ IsFiniteSet(S \cup {n})
         /\ Cardinality(S \cup {n}) = IF n \in S THEN Cardinality(S) ELSE Cardinality(S) + 1
    BY <2>10, FS_AddElement
  <2>14. IsFiniteSet(T) /\ Cardinality(T) <= Cardinality(S \cup {n})
    BY <2>12, <2>13, FS_Subset
  <2>15. Cardinality(T) \in Nat /\ Cardinality(S) \in Nat
    BY <1>2, <2>10, <2>14, FS_CardinalityType
  <2>16. Cardinality(T) <= Cardinality(S) + 1
    BY <2>13, <2>14, <2>15, SMT
  <2> QED BY <2>10, <2>11, <2>12, <2>14, <2>16
<1> QED BY <1>3, <1>4

(* Every transfer the host has got with a wrong length is paid for by an error, and the
   one being repeated with the length of a full buffer is still to be counted. *)
Paid ==
  /\ IsFiniteSet(Spoiled) /\ Cardinality(Spoiled) <= errors
  /\ queued > 0 /\ reqLen # LenOf(mem[reqBuf]) => Cardinality(Spoiled) + 1 <= errors

LengthInv == Inv /\ Sized /\ Paid

LEMMA UnmovedPaid ==
  ASSUME Paid, UNCHANGED <<wire, errors>>,
         queued' > 0 => \/ reqLen' = LenOf(mem'[reqBuf'])
                        \/ queued > 0 /\ reqLen' = reqLen /\ mem'[reqBuf'] = mem[reqBuf]
  PROVE  Paid'
<1>1. Spoiled' = Spoiled
  BY DEF Spoiled
<1> QED BY <1>1 DEF Paid

LEMMA LengthInit == Init => Sized /\ Paid
<1> SUFFICES ASSUME Init PROVE Sized /\ Paid
  OBVIOUS
<1>1. \A d : ~In(d, sendList)
  BY SMT DEF Init, In
<1>2. \A t \in Senders : pc[t] = "idle"
  BY DEF Init
<1>3. Spoiled = {}
  BY SMT DEF Init, Spoiled
<1>4. ~(queued > 0) /\ errors = 0 /\ 0 <= 0
  BY SMT DEF Init
<1>5. IsFiniteSet(Spoiled) /\ Cardinality(Spoiled) = 0
  BY <1>3, FS_EmptySet
<1> QED BY <1>1, <1>2, <1>4, <1>5 DEF Sized, Paid

LEMMA LengthStep ==
  ASSUME OneSender, LengthInv, [Next]_vars
  PROVE  Sized' /\ Paid'
<1>0. /\ Inv /\ Sized /\ Paid /\ TypeInv /\ TypeOK /\ Locals /\ Ownership /\ IdleMeansFree
      /\ Filled /\ pc \in [Senders -> PCs] /\ held \in [Senders -> Descs \cup {NoDesc}]
      /\ queued \in Nat /\ errors \in Nat
  BY DEF LengthInv, Inv, TypeInv, TypeOK
<1>1. ASSUME NEW t \in Senders, NEW ok \in BOOLEAN, Kick(t, ok) \/ LastKick(t, ok)
      PROVE  Sized' /\ Paid'
  <2>1. queued = 0
    BY <1>0, <1>1 DEF Kick, LastKick, IdleMeansFree
  <2>2. /\ \A u \in Senders : pc'[u] = "append" => pc[u] = "append"
        /\ UNCHANGED <<held, mem, wire, errors>>
    BY <1>0, <1>1 DEF Kick, LastKick, Retry, Goto, StartTransfer, usbVars
  <2>3. CASE sendList = <<>> \/ ~ok
    <3>1. UNCHANGED <<sendList, cnt, buf, queued>>
      BY <1>1, <2>3 DEF Kick, LastKick, StartTransfer, listVars, usbVars
    <3>2. ~(queued' > 0)
      BY <2>1, <3>1, SMT
    <3> QED BY <1>0, <2>2, <3>1, <3>2, UnmovedSized, UnmovedPaid
  <2>4. CASE sendList # <<>> /\ ok
    <3>1. /\ Recycle /\ cnt' = [cnt EXCEPT ![Head(sendList)] = 0]
          /\ reqLen' = cnt[Head(sendList)]
      BY <1>1, <2>2, <2>4 DEF Kick, LastKick, StartTransfer, Recycle
    <3>2. Sized' /\ reqLen' = LenOf(mem'[reqBuf'])
      BY <1>0, <2>2, <3>1, RecycleSized
    <3> QED BY <1>0, <2>2, <3>2, UnmovedPaid
  <2> QED BY <2>3, <2>4
<1>2. ASSUME NEW ok \in BOOLEAN, Complete(ok) PROVE Sized' /\ Paid'
  <2>1. UNCHANGED <<held, pc, mem, errors>> /\ queued > 0 /\ wire' = Received
    BY <1>2 DEF Complete, callVars
  <2>2. queued = 1
    BY <1>0, <2>1, SMT DEF IdleMeansFree
  <2>3. /\ IsFiniteSet(Spoiled') /\ Cardinality(Spoiled') <= errors
    <3>1. /\ IsFiniteSet(Spoiled') /\ Cardinality(Spoiled') <= Cardinality(Spoiled) + 1
          /\ reqLen = LenOf(mem[reqBuf]) => Spoiled' = Spoiled
      BY <1>0, <2>1, SpoiledGrows DEF Paid
    <3>2. Cardinality(Spoiled) \in Nat /\ Cardinality(Spoiled') \in Nat
      BY <1>0, <3>1, FS_CardinalityType DEF Paid
    <3>3. CASE reqLen = LenOf(mem[reqBuf])
      BY <1>0, <3>1, <3>3 DEF Paid
    <3>4. CASE reqLen # LenOf(mem[reqBuf])
      <4>1. Cardinality(Spoiled) + 1 <= errors
        BY <1>0, <2>1, <3>4 DEF Paid
      <4> QED BY <1>0, <3>1, <3>2, <4>1, SMT
    <3> QED BY <3>3, <3>4
  <2>4. CASE state = "BUSY" /\ sendList # <<>>
    <3>1. /\ Recycle /\ cnt' = [cnt EXCEPT ![Head(sendList)] = 0]
          /\ reqLen' = cnt[Head(sendList)]
      BY <1>2, <2>1, <2>4 DEF Complete, SendNext, Recycle
    <3>2. Sized' /\ reqLen' = LenOf(mem'[reqBuf'])
      BY <1>0, <2>1, <3>1, RecycleSized
    <3> QED BY <2>1, <2>3, <3>2 DEF Paid
  <2>5. CASE ~(state = "BUSY" /\ sendList # <<>>)
    <3>1. UNCHANGED <<sendList, cnt, buf>> /\ queued' = queued - 1
      BY <1>2, <2>5 DEF Complete, listVars
    <3>2. ~(queued' > 0)
      BY <2>2, <3>1, SMT
    <3>3. Sized'
      BY <1>0, <2>1, <3>1, UnmovedSized
    <3> QED BY <2>1, <2>3, <3>2, <3>3 DEF Paid
  <2> QED BY <2>4, <2>5
<1>3. ASSUME NEW t \in Senders, Fill(t) PROVE Sized' /\ Paid'
  <2>1. UNCHANGED <<wire, errors, queued, reqLen>>
    BY <1>3 DEF Fill, usbVars
  <2>2. Sized' /\ mem'[reqBuf'] = mem[reqBuf]
    BY <1>0, <1>3, FillSized
  <2> QED BY <1>0, <2>1, <2>2, UnmovedPaid
<1>4. ASSUME NEW t \in Senders, AddToSendList(t) PROVE Sized' /\ Paid'
  <2>1. UNCHANGED <<wire, errors, queued, reqLen, mem, reqBuf>>
    BY <1>4 DEF AddToSendList, usbVars
  <2> QED BY <1>0, <1>4, <2>1, AppendSized, UnmovedPaid
<1>5. ASSUME NEW t \in Senders,
             Call(t) \/ ReadEp(t) \/ GetFree(t) \/ ReadStateWhenFull(t) \/ CheckState(t)
      PROVE  Sized' /\ Paid'
  <2>1. UNCHANGED <<wire, errors, queued, reqLen, mem, reqBuf, sendList, cnt, buf>>
    BY <1>5 DEF Call, ReadEp, GetFree, ReadStateWhenFull, CheckState, usbVars, listVars
  <2>2. \A u \in Senders : u = t /\ pc'[u] # "append"
    BY <1>0, <1>5 DEF Call, ReadEp, GetFree, ReadStateWhenFull, CheckState, Retry, Goto, OneSender
  <2> QED BY <1>0, <2>1, <2>2, UnmovedSized, UnmovedPaid
<1>6. ASSUME Configure PROVE Sized' /\ Paid'
  <2>1. /\ UNCHANGED <<wire, errors, mem, reqBuf, sendList, cnt, buf, pc, held>>
        /\ reqLen' = 0 /\ mem[reqBuf] = NoData
    BY <1>0, <1>6 DEF Configure, listVars, callVars, Filled
  <2>2. reqLen' = LenOf(mem'[reqBuf'])
    BY <2>1 DEF LenOf
  <2> QED BY <1>0, <2>1, <2>2, UnmovedSized, UnmovedPaid
<1>7. ASSUME CompleteError PROVE Sized' /\ Paid'
  <2>1. /\ errors' = errors + 1
        /\ UNCHANGED <<wire, mem, reqBuf, sendList, cnt, buf, pc, held>>
    BY <1>7 DEF CompleteError, listVars, callVars
  <2>2. Sized'
    BY <1>0, <2>1, UnmovedSized
  <2>3. Spoiled' = Spoiled
    BY <2>1 DEF Spoiled
  <2>4. Cardinality(Spoiled) \in Nat
    BY <1>0, FS_CardinalityType DEF Paid
  <2>5. Cardinality(Spoiled) <= errors
    BY <1>0 DEF Paid
  <2>6. Cardinality(Spoiled) <= errors' /\ Cardinality(Spoiled) + 1 <= errors'
    BY <1>0, <2>1, <2>4, <2>5, SMT
  <2> QED BY <1>0, <2>2, <2>3, <2>6 DEF Paid
<1>8. ASSUME UNCHANGED vars PROVE Sized' /\ Paid'
  <2>1. UNCHANGED <<wire, errors, queued, reqLen, mem, reqBuf, sendList, cnt, buf, pc, held>>
    BY <1>8 DEF vars, usbVars, listVars, callVars
  <2> QED BY <1>0, <2>1, UnmovedSized, UnmovedPaid
<1> QED
  BY <1>1, <1>2, <1>3, <1>4, <1>5, <1>6, <1>7, <1>8, SendAssumption DEF Next, Step

(* With one sender no more transfers reach the host with a wrong length than ended with an
   error: the length 1024 an error leaves in the request is gone with that transfer,
   whatever the controller accepts and however the buffers change hands. *)
THEOREM LengthsKeptAlways == OneSender /\ Spec => []LengthsKept
<1> SUFFICES ASSUME OneSender PROVE Spec => []LengthsKept
  OBVIOUS
<1>1. Init => LengthInv
  BY TypeInit, OwnershipInit, FilledInit, LengthInit DEF LengthInv, Inv, Init, IdleMeansFree
<1>2. LengthInv /\ [Next]_vars => LengthInv'
  <2> SUFFICES ASSUME LengthInv, [Next]_vars PROVE LengthInv'
    OBVIOUS
  <2>1. Inv
    BY DEF LengthInv
  <2>2. Inv'
    BY <2>1, TypeStep, OwnershipStep, IdleMeansFreeStep, FilledStep DEF Inv
  <2> QED BY <2>2, LengthStep DEF LengthInv
<1>3. LengthInv => LengthsKept
  BY DEF LengthInv, Paid, LengthsKept
<1> QED BY <1>1, <1>2, <1>3, PTL DEF Spec

-----------------------------------------------------------------------------
(* What the two ends of the pipe see of a step. *)
LEMMA ContentType == ASSUME NEW c \in Chunk \cup {NoData} PROVE Content(c) \in Seq(Chunk)
BY SMT DEF Content

LEMMA InFlightType == TypeInv => InFlight \in Seq(Chunk)
<1> SUFFICES ASSUME TypeInv PROVE InFlight \in Seq(Chunk)
  OBVIOUS
<1>1. mem[reqBuf] \in Chunk \cup {NoData}
  BY DEF TypeInv, TypeOK
<1> QED BY <1>1, ContentType, EmptySeq DEF InFlight

LEMMA ListedType == Inv => /\ Listed \in Seq(Chunk) /\ Len(Listed) = Len(sendList)
                          /\ \A i \in 1 .. Len(sendList) : Listed[i] = mem[buf[sendList[i]]]
<1> SUFFICES ASSUME Inv PROVE /\ Listed \in Seq(Chunk) /\ Len(Listed) = Len(sendList)
                              /\ \A i \in 1 .. Len(sendList) : Listed[i] = mem[buf[sendList[i]]]
  OBVIOUS
<1>1. /\ sendList \in Seq(Descs) /\ buf \in [Descs -> Buffers]
      /\ mem \in [Buffers -> Chunk \cup {NoData}] /\ Len(sendList) \in Nat
  BY LenProperties DEF Inv, TypeInv, TypeOK
<1>2. ASSUME NEW i \in 1 .. Len(sendList) PROVE mem[buf[sendList[i]]] \in Chunk
  <2>1. sendList[i] \in Descs /\ In(sendList[i], sendList)
    BY <1>1, ElementOfSeq DEF In
  <2> QED BY <1>1, <2>1 DEF Inv, Filled
<1>3. Listed \in [1 .. Len(sendList) -> Chunk]
  BY <1>2 DEF Listed
<1>4. Listed \in Seq(Chunk) /\ Len(Listed) = Len(sendList)
  BY <1>1, <1>3, SMT
<1> QED BY <1>4 DEF Listed

LEMMA OnWireType == TypeInv => OnWire \in Seq(Chunk)
<1> SUFFICES ASSUME TypeInv PROVE OnWire \in Seq(Chunk)
  OBVIOUS
<1> DEFINE D == [i \in 1 .. Len(wire) |-> Content(wire[i].data)]
<1>1. /\ Len(wire) \in Nat
      /\ \A i \in 1 .. Len(wire) : wire[i] \in [data : Chunk \cup {NoData}, len : 0 .. Full]
  BY LenProperties, ElementOfSeq DEF TypeInv, TypeOK
<1>2. D \in [1 .. Len(wire) -> Seq(Chunk)]
  BY <1>1, ContentType
<1>3. OnWire = FlattenSeq(D)
  BY DEF OnWire
<1> HIDE DEF D
<1>4. D \in Seq(Seq(Chunk))
  BY <1>1, <1>2, SMT
<1> QED BY <1>3, <1>4, FlattenType

(* The host receives a transfer: its chunk is the next one on the wire. *)
LEMMA OnWireGrows ==
  ASSUME TypeInv, NEW x, x \in [data : Chunk \cup {NoData}, len : 0 .. Full],
         wire' = Append(wire, x)
  PROVE  OnWire' = OnWire \o Content(x.data)
<1> DEFINE D == [i \in 1 .. Len(wire) |-> Content(wire[i].data)]
           E == [i \in 1 .. Len(wire') |-> Content(wire'[i].data)]
           R == [data : Chunk \cup {NoData}, len : 0 .. Full]
           y == Content(x.data)
<1>1. wire \in Seq(R) /\ x \in R /\ wire' = Append(wire, x)
  BY DEF TypeInv, TypeOK
<1>2. y \in Seq(Chunk) /\ \A z \in R : Content(z.data) \in Seq(Chunk)
  BY ContentType
<1>3. OnWire = FlattenSeq(D) /\ OnWire' = FlattenSeq(E)
  BY DEF OnWire
<1> HIDE DEF R
<1>4. /\ Len(wire) \in Nat /\ Len(wire') = Len(wire) + 1 /\ wire'[Len(wire) + 1] = x
      /\ \A i \in 1 .. Len(wire) : wire'[i] = wire[i] /\ wire[i] \in R
  BY <1>1, LenProperties, AppendProperties, ElementOfSeq
<1>5. D \in Seq(Seq(Chunk)) /\ Len(D) = Len(wire)
  <2>1. D \in [1 .. Len(wire) -> Seq(Chunk)]
    BY <1>2, <1>4
  <2> HIDE DEF D
  <2> QED BY <1>4, <2>1, SMT
<1>6. E = Append(D, y)
  <2> DEFINE F == Append(D, y)
  <2>1. /\ F \in Seq(Seq(Chunk)) /\ Len(F) = Len(wire) + 1 /\ F[Len(wire) + 1] = y
        /\ \A i \in 1 .. Len(wire) : F[i] = D[i]
    <3> HIDE DEF D, y
    <3> QED BY <1>2, <1>5, AppendProperties
  <2>2. \A i \in 1 .. Len(wire) : D[i] = Content(wire[i].data)
    OBVIOUS
  <2> HIDE DEF F, D
  <2>3. \A i \in 1 .. Len(wire) + 1 : i = Len(wire) + 1 \/ i \in 1 .. Len(wire)
    BY <1>4, SMT
  <2>4. \A i \in 1 .. Len(wire) + 1 : F[i] = Content(wire'[i].data)
    BY <1>4, <2>1, <2>2, <2>3
  <2>5. F = [i \in 1 .. Len(wire) + 1 |-> F[i]]
    BY <2>1, LenProperties
  <2>6. E = F
    BY <1>4, <2>4, <2>5
  <2> QED BY <2>6 DEF F
<1> HIDE DEF D, E, y
<1> QED BY <1>2, <1>3, <1>5, <1>6, FlattenAppend DEF y

(* The head of the send list leaves the front of what is listed. *)
LEMMA RecycleListed ==
  ASSUME Inv, Recycle, UNCHANGED mem
  PROVE  Listed = <<mem[reqBuf']>> \o Listed' /\ mem[reqBuf'] \in Chunk
<1>1. /\ sendList \in Seq(Descs) /\ sendList # <<>> /\ NoRepeat(sendList)
      /\ buf \in [Descs -> Buffers]
  BY DEF Inv, TypeInv, TypeOK, Ownership, DescsDisjoint, Recycle
<1>2. PICK d \in Descs : d = Head(sendList)
  BY <1>1, TailFacts
<1>3. /\ sendList' = Tail(sendList) /\ buf' = [buf EXCEPT ![d] = reqBuf] /\ mem' = mem
      /\ reqBuf' = buf[d]
  BY <1>2 DEF Recycle
<1> DEFINE n == Len(Tail(sendList))
           c == mem[reqBuf']
<1>4. /\ n \in Nat /\ Len(sendList) = n + 1 /\ sendList[1] = d
      /\ \A i \in 1 .. n : Tail(sendList)[i] = sendList[i + 1]
  BY <1>1, <1>2, SMT
<1> HIDE DEF n
<1>5. /\ Listed \in Seq(Chunk) /\ Len(Listed) = n + 1
      /\ \A i \in 1 .. n + 1 : Listed[i] = mem[buf[sendList[i]]]
  BY <1>4, ListedType
<1>6. 1 \in 1 .. n + 1 /\ \A i \in 1 .. n : i + 1 \in 1 .. n + 1 /\ i + 1 # 1
  BY <1>4, SMT
<1>7. c \in Chunk /\ c = Listed[1]
  <2>1. c = Listed[1]
    BY <1>3, <1>4, <1>5, <1>6
  <2> QED BY <1>5, <1>6, <2>1, ElementOfSeq
<1>8. \A i \in 1 .. n : sendList[i + 1] # d
  BY <1>1, <1>4, <1>6 DEF NoRepeat
<1>9. Listed' = [i \in 1 .. n |-> Listed[i + 1]]
  <2>1. Listed' = [i \in 1 .. n |-> mem[buf'[Tail(sendList)[i]]]]
    BY <1>3 DEF Listed, n
  <2>2. \A i \in 1 .. n : sendList[i + 1] \in Descs
    BY <1>1, <1>4, <1>6, ElementOfSeq
  <2>3. \A i \in 1 .. n : buf'[Tail(sendList)[i]] = buf[sendList[i + 1]]
    BY <1>1, <1>3, <1>4, <1>8, <2>2
  <2>4. \A i \in 1 .. n : mem[buf'[Tail(sendList)[i]]] = Listed[i + 1]
    BY <1>5, <1>6, <2>3
  <2> QED BY <2>1, <2>4
<1> DEFINE L == [i \in 1 .. n |-> Listed[i + 1]]
           w == <<c>> \o L
<1> HIDE DEF c
<1>10. L \in Seq(Chunk) /\ Len(L) = n /\ \A i \in 1 .. n : L[i] = Listed[i + 1]
  <2>1. L \in [1 .. n -> Chunk]
    BY <1>5, <1>6, ElementOfSeq
  <2>2. \A i \in 1 .. n : L[i] = Listed[i + 1]
    OBVIOUS
  <2> HIDE DEF L
  <2> QED BY <1>4, <2>1, <2>2, SMT
<1>11. /\ w \in Seq(Chunk) /\ Len(w) = n + 1 /\ w[1] = c
       /\ \A i \in 1 .. n : w[i + 1] = L[i]
  <2> HIDE DEF L
  <2> QED BY <1>4, <1>7, <1>10, SMT
<1> HIDE DEF L, w
<1>12. \A i \in 1 .. n + 1 : i = 1 \/ (i - 1 \in 1 .. n /\ (i - 1) + 1 = i)
  BY <1>4, SMT
<1>13. \A i \in 1 .. n + 1 : Listed[i] = w[i]
  BY <1>7, <1>10, <1>11, <1>12
<1>14. Listed = w
  BY <1>5, <1>11, <1>13, SeqEqual
<1> QED BY <1>7, <1>9, <1>14 DEF L, w, c

LEMMA UnmovedListed == UNCHANGED <<sendList, buf, mem>> => Listed' = Listed
BY DEF Listed

(* Every step is one of three for the pipe: nothing enters or leaves, the chunk of an
   AddToSendList enters, or the chunk of the request that is done leaves. *)
Still == (InFlight \o Listed)' = InFlight \o Listed /\ OnWire' = OnWire

LEMMA StartTransferStill ==
  ASSUME Inv, state = "IDLE", sendList # <<>>, NEW ok \in BOOLEAN, StartTransfer(ok),
         UNCHANGED <<mem, held>>
  PROVE  Still
<1>0. queued \in Nat /\ cnt \in [Descs -> 0 .. Full] /\ sendList \in Seq(Descs)
      /\ NoRepeat(sendList)
  BY DEF Inv, TypeInv, TypeOK, Ownership, DescsDisjoint
<1>1. InFlight = <<>>
  BY DEF InFlight
<1>2. wire' = wire
  BY DEF StartTransfer
<1>3. OnWire' = OnWire
  BY <1>2 DEF OnWire
<1>4. Listed \in Seq(Chunk)
  BY ListedType
<1>5. CASE ok
  <2>1. Recycle /\ state' = "BUSY" /\ reqLen' = cnt[Head(sendList)] /\ mem' = mem
    BY <1>5 DEF StartTransfer, Recycle
  <2>2. Listed = <<mem[reqBuf']>> \o Listed' /\ mem[reqBuf'] \in Chunk
    BY <2>1, RecycleListed
  <2>3. Head(sendList) \in Descs /\ In(Head(sendList), sendList)
    BY <1>0, TailFacts
  <2>4. cnt[Head(sendList)] > 0
    BY <2>3 DEF Inv, Filled
  <2>5. reqLen' > 0
    BY <2>1, <2>4
  <2>6. mem[reqBuf'] # NoData
    BY <2>2, SendAssumption
  <2>7. InFlight' = <<mem[reqBuf']>>
    BY <2>1, <2>5, <2>6 DEF InFlight, Content
  <2>8. InFlight \o Listed = Listed
    BY <1>1, <1>4, ConcatEmptySeq
  <2> QED BY <1>3, <2>2, <2>7, <2>8 DEF Still
<1>6. CASE ~ok
  <2>1. UNCHANGED <<sendList, buf, mem, state>>
    BY <1>6 DEF StartTransfer, listVars
  <2>2. InFlight' = <<>>
    BY <2>1 DEF InFlight
  <2>3. Listed' = Listed
    BY <2>1, UnmovedListed
  <2> QED BY <1>1, <1>3, <2>2, <2>3 DEF Still
<1> QED BY <1>5, <1>6

LEMMA AppendEnters ==
  ASSUME Inv, NEW t \in Senders, AddToSendList(t)
  PROVE  Pipe!Put
<1> DEFINE c == mem[buf[held[t]]]
<1>1. /\ sendList' = Append(sendList, held[t])
      /\ UNCHANGED <<buf, mem, state, reqLen, reqBuf, wire>> /\ pc[t] = "append"
  BY DEF AddToSendList, usbVars
<1>2. InFlight' = InFlight /\ OnWire' = OnWire
  BY <1>1 DEF InFlight, OnWire
<1>3. /\ held[t] \in Descs /\ buf \in [Descs -> Buffers] /\ sendList \in Seq(Descs)
      /\ mem \in [Buffers -> Chunk \cup {NoData}]
  BY <1>1 DEF Inv, TypeInv, TypeOK, Locals
<1>4. c \in Chunk
  BY <1>1, <1>3 DEF Inv, Filled
<1>5. /\ Listed \in Seq(Chunk) /\ Len(Listed) = Len(sendList) /\ InFlight \in Seq(Chunk)
      /\ \A i \in 1 .. Len(sendList) : Listed[i] = mem[buf[sendList[i]]]
  BY ListedType, InFlightType DEF Inv
<1>6. Listed' = Listed \o <<c>>
  <2> DEFINE n == Len(sendList)
             L == Append(Listed, c)
  <2>1. /\ n \in Nat /\ Len(sendList') = n + 1 /\ sendList'[n + 1] = held[t]
        /\ \A i \in 1 .. n : sendList'[i] = sendList[i]
    BY <1>1, <1>3, LenProperties, AppendProperties
  <2> HIDE DEF c
  <2>2. /\ L \in Seq(Chunk) /\ Len(L) = n + 1 /\ L[n + 1] = c
        /\ \A i \in 1 .. n : L[i] = Listed[i]
    BY <1>4, <1>5, AppendProperties
  <2> HIDE DEF L
  <2>3. \A i \in 1 .. n + 1 : i = n + 1 \/ i \in 1 .. n
    BY <2>1, SMT
  <2>4. \A i \in 1 .. n + 1 : L[i] = mem[buf[sendList'[i]]]
    BY <1>5, <2>1, <2>2, <2>3 DEF c
  <2>5. Listed' = [i \in 1 .. n + 1 |-> mem[buf[sendList'[i]]]]
    BY <1>1, <2>1 DEF Listed
  <2>6. L = [i \in 1 .. n + 1 |-> L[i]]
    BY <2>2, LenProperties
  <2>7. Listed' = L
    BY <2>4, <2>5, <2>6
  <2> QED BY <1>4, <1>5, <2>7, AppendIsConcat DEF L
<1> HIDE DEF c
<1>7. <<c>> \in Seq(Chunk) /\ <<c>> # <<>>
  BY <1>4, SMT
<1>8. InFlight \o Listed \in Seq(Chunk)
  BY <1>5, ConcatProperties
<1>9. InFlight' \o Listed' = (InFlight \o Listed) \o <<c>>
  <2>1. Regrouped(InFlight, Listed, <<c>>)
    BY <1>5, <1>7, Regroup
  <2> QED BY <1>2, <1>6, <2>1 DEF Regrouped
<1>10. /\ Len(InFlight' \o Listed') > Len(InFlight \o Listed)
       /\ SubSeq(InFlight' \o Listed', 1, Len(InFlight \o Listed)) = InFlight \o Listed
  BY <1>7, <1>8, <1>9, GrowsAtEnd
<1> QED BY <1>2, <1>10 DEF Pipe!Put

LEMMA CompleteLeaves ==
  ASSUME Inv, NEW ok \in BOOLEAN, Complete(ok)
  PROVE  Still \/ Pipe!Take
<1>1. wire' = Received /\ mem' = mem /\ queued > 0 /\ held' = held
  BY DEF Complete, callVars
<1>2. state \in {"BUSY", "LAST_DATA"}
  <2>1. queued # 0
    BY <1>1, SMT DEF Inv, TypeInv, TypeOK
  <2> QED BY <2>1 DEF Inv, IdleMeansFree
<1>3. /\ cnt \in [Descs -> 0 .. Full] /\ sendList \in Seq(Descs) /\ NoRepeat(sendList)
      /\ reqLen \in 0 .. Full /\ mem[reqBuf] \in Chunk \cup {NoData}
  BY DEF Inv, TypeInv, TypeOK, Ownership, DescsDisjoint
<1>4. Listed \in Seq(Chunk) /\ InFlight \in Seq(Chunk)
  BY ListedType, InFlightType DEF Inv
<1>5. InFlight' \o Listed' = Listed
  <2>1. CASE state = "BUSY" /\ sendList # <<>>
    <3>1. SendNext(ok)
      BY <2>1 DEF Complete
    <3>2. Recycle /\ state' # "IDLE" /\ reqLen' = cnt[Head(sendList)]
      BY <1>1, <2>1, <3>1 DEF SendNext, Recycle
    <3>3. Listed = <<mem[reqBuf']>> \o Listed' /\ mem[reqBuf'] \in Chunk
      BY <1>1, <3>2, RecycleListed
    <3>4. cnt[Head(sendList)] > 0
      BY <1>3, <2>1, TailFacts DEF Inv, Filled
    <3>5. mem[reqBuf'] # NoData
      BY <3>3, SendAssumption
    <3>6. InFlight' = <<mem[reqBuf']>>
      BY <1>1, <3>2, <3>4, <3>5 DEF InFlight, Content
    <3> QED BY <3>3, <3>6
  <2>2. CASE ~(state = "BUSY" /\ sendList # <<>>)
    <3>1. state' = "IDLE" /\ UNCHANGED <<sendList, buf>>
      BY <1>2, <2>2 DEF Complete, listVars
    <3>3. InFlight' = <<>>
      BY <3>1 DEF InFlight
    <3>4. Listed' = Listed
      BY <1>1, <3>1, UnmovedListed
    <3> QED BY <1>4, <3>3, <3>4, ConcatEmptySeq
  <2> QED BY <2>1, <2>2
<1>6. OnWire' = OnWire \o InFlight
  <2>1. OnWire \in Seq(Chunk)
    BY OnWireType DEF Inv
  <2>2. CASE reqLen = 0
    <3>1. wire' = wire
      BY <1>1, <2>2 DEF Received
    <3>2. InFlight = <<>>
      BY <2>2, SMT DEF InFlight
    <3> QED BY <2>1, <3>1, <3>2, ConcatEmptySeq DEF OnWire
  <2>3. CASE reqLen # 0
    <3>1. reqLen > 0
      BY <1>3, <2>3, SMT
    <3>2. InFlight = Content(mem[reqBuf])
      BY <1>2, <3>1 DEF InFlight
    <3> DEFINE x == [data |-> mem[reqBuf], len |-> reqLen]
    <3>3. wire' = Append(wire, x) /\ x.data = mem[reqBuf]
      BY <1>1, <2>3 DEF Received
    <3>4. x \in [data : Chunk \cup {NoData}, len : 0 .. Full]
      BY <1>3
    <3> HIDE DEF x
    <3>5. OnWire' = OnWire \o Content(x.data)
      BY <3>3, <3>4, OnWireGrows DEF Inv
    <3> QED BY <3>2, <3>3, <3>5
  <2> QED BY <2>2, <2>3
<1>7. CASE InFlight = <<>>
  <2>1. OnWire' = OnWire
    BY <1>6, <1>7, OnWireType, ConcatEmptySeq DEF Inv
  <2>2. InFlight \o Listed = Listed
    BY <1>4, <1>7, ConcatEmptySeq
  <2> QED BY <1>5, <2>1, <2>2 DEF Still
<1>8. CASE InFlight # <<>>
  <2>1. PICK n \in 1 .. Len(InFlight \o Listed) :
          /\ InFlight = SubSeq(InFlight \o Listed, 1, n)
          /\ Listed = SubSeq(InFlight \o Listed, n + 1, Len(InFlight \o Listed))
    <3>1. /\ Len(InFlight) \in 1 .. Len(InFlight \o Listed)
          /\ InFlight = SubSeq(InFlight \o Listed, 1, Len(InFlight))
          /\ Listed = SubSeq(InFlight \o Listed, Len(InFlight) + 1, Len(InFlight \o Listed))
      BY <1>4, <1>8, LeavesAtFront
    <3> QED BY <3>1
  <2> QED BY <1>5, <1>6, <2>1 DEF Pipe!Take
<1> QED BY <1>7, <1>8

(* The same chunks in the same places: a step that fills another buffer, or none. *)
LEMMA UnmovedStill ==
  UNCHANGED <<sendList, buf, mem, state, reqLen, reqBuf, wire>> => Still
BY DEF Still, InFlight, Listed, OnWire

LEMMA FillStill == ASSUME Inv, NEW t \in Senders, Fill(t) PROVE Still
<1>1. PICK c : mem' = [mem EXCEPT ![buf[held[t]]] = c]
  BY DEF Fill
<1>2. UNCHANGED <<sendList, buf, state, reqLen, reqBuf, wire>> /\ pc[t] = "fill"
  BY DEF Fill, usbVars
<1>3. /\ held[t] \in Descs /\ held[t] # NoDesc /\ buf \in [Descs -> Buffers]
      /\ sendList \in Seq(Descs) /\ mem \in [Buffers -> Chunk \cup {NoData}]
  BY <1>2 DEF Inv, TypeInv, TypeOK, Locals
<1>4. ~In(held[t], sendList) /\ buf[held[t]] # reqBuf
  BY <1>3 DEF Inv, Ownership, DescsDisjoint, BuffersDistinct
<1>5. mem'[reqBuf] = mem[reqBuf]
  BY <1>1, <1>4 DEF Inv, TypeInv, TypeOK
<1>6. \A i \in 1 .. Len(sendList) : mem'[buf[sendList[i]]] = mem[buf[sendList[i]]]
  <2>1. \A i \in 1 .. Len(sendList) : sendList[i] \in Descs /\ sendList[i] # held[t]
    BY <1>3, <1>4, ElementOfSeq DEF In
  <2>2. \A i \in 1 .. Len(sendList) : buf[sendList[i]] # buf[held[t]]
    BY <1>3, <2>1 DEF Inv, Ownership, BuffersDistinct
  <2> QED BY <1>1, <1>3, <2>1, <2>2
<1>7. Listed' = Listed
  BY <1>2, <1>6 DEF Listed
<1>8. InFlight' = InFlight /\ OnWire' = OnWire
  BY <1>2, <1>5 DEF InFlight, OnWire
<1> QED BY <1>7, <1>8 DEF Still

LEMMA PipeStep ==
  ASSUME OneSender, Inv, [Next]_vars
  PROVE  Still \/ Pipe!Put \/ Pipe!Take
<1>1. ASSUME NEW t \in Senders, NEW ok \in BOOLEAN, Kick(t, ok) \/ LastKick(t, ok) PROVE Still
  <2>1. state = "IDLE" /\ UNCHANGED <<mem, held>>
    BY <1>1 DEF Kick, LastKick, Inv, IdleMeansFree
  <2>2. CASE sendList = <<>>
    <3>1. UNCHANGED <<sendList, buf, state, reqLen, reqBuf, wire>>
      BY <1>1, <2>2 DEF Kick, LastKick, listVars, usbVars
    <3> QED BY <2>1, <3>1, UnmovedStill
  <2>3. CASE sendList # <<>>
    <3>1. StartTransfer(ok)
      BY <1>1, <2>3 DEF Kick, LastKick
    <3> QED BY <2>1, <2>3, <3>1, StartTransferStill
  <2> QED BY <2>2, <2>3
<1>2. ASSUME NEW t \in Senders,
             Call(t) \/ ReadEp(t) \/ GetFree(t) \/ ReadStateWhenFull(t) \/ CheckState(t)
      PROVE  Still
  <2>1. UNCHANGED <<sendList, buf, mem, state, reqLen, reqBuf, wire>>
    BY <1>2 DEF Call, ReadEp, GetFree, ReadStateWhenFull, CheckState, listVars, usbVars
  <2> QED BY <2>1, UnmovedStill
<1>3. ASSUME Configure PROVE Still
  <2>1. UNCHANGED <<sendList, buf, mem, wire>> /\ mem[reqBuf] = NoData /\ reqLen' = 0
    BY <1>3 DEF Configure, listVars, Inv, Filled
  <2>2. InFlight = <<>> /\ InFlight' = <<>>
    <3>1. ~(reqLen' > 0)
      BY <2>1, SMT
    <3> QED BY <2>1, <3>1 DEF InFlight, Content
  <2>3. Listed' = Listed /\ OnWire' = OnWire
    BY <2>1 DEF Listed, OnWire
  <2> QED BY <2>2, <2>3 DEF Still
<1>4. ASSUME CompleteError PROVE Still
  <2>1. /\ UNCHANGED <<sendList, buf, mem, wire, state, reqBuf>> /\ reqLen' = Full
        /\ queued > 0 /\ state # "IDLE"
    <3>1. UNCHANGED <<sendList, buf, mem, wire, state, reqBuf>> /\ reqLen' = Full /\ queued > 0
      BY <1>4 DEF CompleteError, listVars
    <3>2. queued # 0
      BY <3>1, SMT
    <3> QED BY <3>1, <3>2 DEF Inv, IdleMeansFree
  <2>2. Listed' = Listed /\ OnWire' = OnWire
    BY <2>1 DEF Listed, OnWire
  <2>3. reqLen' > 0
    BY <2>1, SendAssumption, SMT
  <2>4. InFlight' = Content(mem[reqBuf])
    BY <2>1, <2>3 DEF InFlight
  <2>5. CASE reqLen = 0
    <3>1. mem[reqBuf] = NoData
      BY <2>1, <2>5 DEF Inv, Filled
    <3>2. InFlight' = <<>>
      BY <2>4, <3>1 DEF Content
    <3>3. ~(reqLen > 0)
      BY <2>5, SMT
    <3>4. InFlight = <<>>
      BY <3>3 DEF InFlight
    <3> QED BY <2>1, <2>2, <3>2, <3>4 DEF Still, Listed
  <2>6. CASE reqLen # 0
    <3>1. reqLen > 0
      BY <2>6, SMT DEF Inv, TypeInv, TypeOK
    <3> QED BY <2>1, <2>2, <2>4, <3>1 DEF Still, InFlight
  <2> QED BY <2>5, <2>6
<1>5. ASSUME UNCHANGED vars PROVE Still
  BY <1>5, UnmovedStill DEF vars, usbVars, listVars
<1> QED
  BY <1>1, <1>2, <1>3, <1>4, <1>5, FillStill, AppendEnters, CompleteLeaves, SendAssumption
     DEF Next, Step

(* The transmit path is a FIFO pipe from the calls of one task to the host, for any number
   of buffers and chunks, with errored transfers and with requests refused to the task or to
   the interrupt handler: chunks arrive in the order in which they were appended, each once,
   none out of its turn.  A request refused to the handler stops the pipe with the chunk in
   it and loses nothing.  The hypothesis is needed: two senders break the order. *)
THEOREM PipeRefined == OneSender /\ Spec => PipeSpec
<1> SUFFICES ASSUME OneSender PROVE Spec => PipeSpec
  OBVIOUS
<1>1. Init => Inv /\ Pipe!Init
  <2> SUFFICES ASSUME Init PROVE Inv /\ Pipe!Init
    OBVIOUS
  <2>1. Inv
    BY TypeInit, OwnershipInit, FilledInit DEF Inv, Init, IdleMeansFree
  <2>2. ~(reqLen > 0) /\ sendList = <<>> /\ wire = <<>>
    BY SMT DEF Init
  <2>3. InFlight = <<>> /\ Listed = <<>>
    BY <2>2, SMT DEF InFlight, Listed
  <2>4. InFlight \o Listed = <<>>
    BY <2>3, SMT
  <2>5. OnWire = <<>>
    BY <2>2, FlattenEmpty, SMT DEF OnWire
  <2> QED BY <2>1, <2>4, <2>5 DEF Pipe!Init
<1>2. Inv /\ [Next]_vars => Inv'
  BY TypeStep, OwnershipStep, IdleMeansFreeStep, FilledStep DEF Inv
<1>3. Inv /\ [Next]_vars => [Pipe!Put \/ Pipe!Take]_<<InFlight \o Listed, OnWire>>
  BY PipeStep DEF Still
<1> QED BY <1>1, <1>2, <1>3, PTL DEF Spec, PipeSpec, Pipe!Spec
=============================================================================
