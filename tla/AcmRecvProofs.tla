---------------------------- MODULE AcmRecvProofs ----------------------------
(***************************************************************************)
(* The receive path for any number of buffers and any capacity: types,     *)
(* ownership of descriptors and buffers, that the request is never queued  *)
(* twice and the state tells whether it is queued, that what is read lies  *)
(* inside what was received, and that the path is a FIFO pipe, which loses *)
(* at most the end of what waits when a request is refused.                *)
(***************************************************************************)
EXTENDS AcmRecv, AcmListsProofs

(* The types but for what depends on the bytes in the buffers, and what the locals of a
   call say: a descriptor is held exactly while its bytes are copied and given back. *)
Types ==
  /\ ready \in BOOLEAN /\ halted \in BOOLEAN /\ state \in States
  /\ freeList \in Seq(Descs) /\ recvList \in Seq(Descs)
  /\ buf \in [Descs -> Buffers]
  /\ cnt \in [Descs -> 0 .. Full] /\ off \in [Descs -> Nat]
  /\ reqBuf \in Buffers /\ actual \in 0 .. Full
  /\ queued \in Nat /\ sent \in Nat /\ empties \in Nat
  /\ mem \in [Buffers -> Seq(Nat)]
  /\ pc \in PCs /\ bytes \in Nat /\ asked \in Nat /\ remain \in Nat
  /\ wait \in Int /\ held \in Descs \cup {NoDesc}

Locals ==
  /\ remain <= asked
  /\ pc \in {"copy", "free", "back"} <=> held # NoDesc

TypeInv == Types /\ Locals

LEMMA TypeInit == Init => TypeInv
<1> SUFFICES ASSUME Init PROVE TypeInv
  OBVIOUS
<1> USE RecvAssumption DEF Init, Descs, Buffers, NoDesc
<1>1. freeList \in Seq(Descs) /\ recvList \in Seq(Descs)
  BY SMT
<1>2. mem \in [Buffers -> Seq(Nat)]
  BY SMT
<1>3. Types
  BY <1>1, <1>2, SMT DEF Types, States, PCs
<1>4. Locals
  BY SMT DEF Locals
<1> QED BY <1>3, <1>4 DEF TypeInv

(* Requeue and FileReceived keep the types of what they write. *)
LEMMA RequeueType ==
  ASSUME Types, freeList # <<>>, NEW ok \in BOOLEAN, Requeue(ok)
  PROVE  /\ freeList' \in Seq(Descs) /\ recvList' \in Seq(Descs)
         /\ buf' \in [Descs -> Buffers] /\ cnt' \in [Descs -> 0 .. Full]
         /\ off' \in [Descs -> Nat] /\ reqBuf' \in Buffers /\ actual' \in 0 .. Full
         /\ queued' \in Nat /\ state' \in States /\ ready' = ready
<1>1. Head(freeList) \in Descs /\ Tail(freeList) \in Seq(Descs)
  BY SMT DEF Types
<1>2. Append(recvList, Head(freeList)) \in Seq(Descs)
  BY <1>1, SMT DEF Types
<1>3. 0 \in 0 .. Full
  BY RecvAssumption, SMT
<1>4. CASE ok
  <2>1. /\ freeList' = Tail(freeList) /\ recvList' = Append(recvList, Head(freeList))
        /\ buf' = [buf EXCEPT ![Head(freeList)] = reqBuf] /\ reqBuf' = buf[Head(freeList)]
        /\ cnt' = [cnt EXCEPT ![Head(freeList)] = actual] /\ actual' = 0
        /\ off' = [off EXCEPT ![Head(freeList)] = 0]
        /\ queued' = queued + 1 /\ state' = "BUSY" /\ ready' = ready
    BY <1>4 DEF Requeue
  <2>2. queued' \in Nat
    BY <2>1, SMT DEF Types
  <2> QED BY <1>1, <1>2, <1>3, <2>1, <2>2 DEF Types, States
<1>5. CASE ~ok
  <2>1. /\ UNCHANGED <<ready, freeList, recvList, buf, reqBuf, queued, state>> /\ actual' = 0
        /\ cnt' = [cnt EXCEPT ![Head(freeList)] = 0]
        /\ off' = [off EXCEPT ![Head(freeList)] = 0]
    BY <1>5 DEF Requeue
  <2> QED BY <1>1, <1>3, <2>1 DEF Types
<1> QED BY <1>4, <1>5

LEMMA FileReceivedType ==
  ASSUME Types, freeList # <<>>, queued > 0, NEW n \in 0 .. Full, NEW ok \in BOOLEAN,
         FileReceived(n, ok)
  PROVE  /\ freeList' \in Seq(Descs) /\ recvList' \in Seq(Descs)
         /\ buf' \in [Descs -> Buffers] /\ cnt' \in [Descs -> 0 .. Full]
         /\ reqBuf' \in Buffers /\ queued' \in Nat /\ state' \in States
<1>1. Head(freeList) \in Descs /\ Tail(freeList) \in Seq(Descs)
  BY SMT DEF Types
<1>2. Append(recvList, Head(freeList)) \in Seq(Descs)
  BY <1>1, SMT DEF Types
<1>3. /\ freeList' = Tail(freeList) /\ recvList' = Append(recvList, Head(freeList))
      /\ buf' = [buf EXCEPT ![Head(freeList)] = reqBuf] /\ reqBuf' = buf[Head(freeList)]
      /\ cnt' = [cnt EXCEPT ![Head(freeList)] = n] /\ state' \in {"LAST_DATA", "BUSY"}
      /\ queued' \in {queued, queued - 1}
  BY DEF FileReceived
<1>4. buf' \in [Descs -> Buffers] /\ cnt' \in [Descs -> 0 .. Full] /\ reqBuf' \in Buffers
  BY <1>1, <1>3 DEF Types
<1>5. queued' \in Nat
  BY <1>3, SMT DEF Types
<1> QED BY <1>1, <1>2, <1>3, <1>4, <1>5 DEF States

LEMMA TypeStep == TypeInv /\ [Next]_vars => TypeInv'
<1> SUFFICES ASSUME TypeInv, [Next]_vars PROVE TypeInv'
  OBVIOUS
<1> USE RecvAssumption DEF TypeInv
<1>0. Types /\ Locals
  OBVIOUS
<1>1. CASE UNCHANGED vars
  BY <1>0, <1>1 DEF vars, hostVars, usbVars, listVars, callVars, Types, Locals
<1>2. ASSUME Call PROVE TypeInv'
  <2>1. /\ bytes' \in Nat /\ asked' \in Nat /\ remain' \in Nat /\ wait' \in Int
        /\ remain' = asked'
    BY <1>2, SMT DEF Call
  <2>2. /\ pc = "idle" /\ pc' = "ep"
        /\ UNCHANGED <<hostVars, usbVars, listVars, mem, held, received, halted>>
    BY <1>2 DEF Call, Goto
  <2>3. Types'
    BY <1>0, <2>1, <2>2 DEF Types, PCs, hostVars, usbVars, listVars
  <2>4. Locals'
    BY <1>0, <2>1, <2>2, SMT DEF Locals
  <2> QED BY <2>3, <2>4
<1>3. ASSUME ReadEp \/ ReadStateWhenEmpty PROVE TypeInv'
  <2>1. /\ pc \in {"ep", "null"} /\ wait' \in Int
        /\ pc' \in {"get", "check", "ep", "idle", "kick"}
        /\ UNCHANGED <<hostVars, usbVars, listVars, mem, bytes, asked, remain, held, halted>>
    BY <1>0, <1>3, SMT DEF ReadEp, ReadStateWhenEmpty, Retry, Goto, Types
  <2>2. Types'
    BY <1>0, <2>1 DEF Types, PCs, hostVars, usbVars, listVars
  <2>3. Locals'
    BY <1>0, <2>1 DEF Locals
  <2> QED BY <2>2, <2>3
<1>4. ASSUME GetReceived PROVE TypeInv'
  <2>1. CASE recvList = <<>>
    BY <1>0, <1>4, <2>1 DEF GetReceived, Goto, Types, Locals, PCs, hostVars, usbVars
  <2>2. CASE recvList # <<>>
    <3>1. Head(recvList) \in Descs /\ Tail(recvList) \in Seq(Descs)
      BY <1>0, <2>2, SMT DEF Types
    <3>2. Head(recvList) # NoDesc
      BY <3>1, SMT DEF Descs, NoDesc
    <3>3. Types'
      BY <1>0, <1>4, <2>2, <3>1 DEF GetReceived, Goto, Types, PCs, hostVars, usbVars
    <3>4. Locals'
      BY <1>0, <1>4, <2>2, <3>2 DEF GetReceived, Goto, Locals
    <3> QED BY <3>3, <3>4
  <2> QED BY <2>1, <2>2
<1>5. ASSUME NEW ok \in BOOLEAN, Kick(ok) \/ LastKick(ok) PROVE TypeInv'
  <2>1. /\ pc \in {"kick", "last"} /\ wait' \in Int
        /\ pc' \in {"get", "check", "idle", pc}
        /\ UNCHANGED <<hostVars, mem, bytes, asked, remain, held>> /\ halted' \in BOOLEAN
    <3>1. wait \in Int
      BY <1>0 DEF Types
    <3>2. wait' = wait \/ wait' = wait - 1
      BY <1>5 DEF Kick, LastKick, Retry
    <3>3. wait' \in Int
      BY <3>1, <3>2, SMT
    <3>4. pc \in {"kick", "last"} /\ pc' \in {"get", "check", "idle", pc}
      BY <1>5 DEF Kick, LastKick, Retry, Goto
    <3>5. UNCHANGED <<hostVars, mem, bytes, asked, remain, held>> /\ halted' \in BOOLEAN
      BY <1>0, <1>5 DEF Kick, LastKick, Types
    <3> QED BY <3>3, <3>4, <3>5
  <2>2. CASE freeList = <<>>
    <3>1. UNCHANGED <<usbVars, listVars>>
      BY <1>5, <2>2 DEF Kick, LastKick
    <3>2. Types'
      BY <1>0, <2>1, <3>1 DEF Types, PCs, hostVars, usbVars, listVars
    <3> QED BY <1>0, <2>1, <3>2 DEF Locals
  <2>3. CASE freeList # <<>>
    <3>1. Requeue(ok)
      BY <1>5, <2>3 DEF Kick, LastKick
    <3>2. Types'
      BY <1>0, <2>1, <2>3, <3>1, RequeueType DEF Types, PCs, hostVars
    <3> QED BY <1>0, <2>1, <3>2 DEF Locals
  <2> QED BY <2>2, <2>3
<1>6. ASSUME CopyOut PROVE TypeInv'
  <2>1. /\ pc = "copy" /\ held \in Descs /\ cnt[held] \in 0 .. Full /\ off[held] \in Nat
        /\ UNCHANGED <<hostVars, usbVars, freeList, recvList, buf, reqBuf, actual, mem,
                       bytes, asked, wait, held, halted>>
    BY <1>0, <1>6 DEF CopyOut, Types, Locals
  <2>2. /\ remain' \in Nat /\ remain' <= asked /\ pc' \in {"free", "back"}
        /\ cnt' \in [Descs -> 0 .. Full] /\ off' \in [Descs -> Nat]
    <3>1. CASE remain >= cnt[held]
      <4>1. /\ remain' = remain - cnt[held] /\ pc' = "free"
            /\ cnt' = [cnt EXCEPT ![held] = 0] /\ off' = [off EXCEPT ![held] = 0]
        BY <1>6, <3>1 DEF CopyOut, Goto
      <4> QED BY <1>0, <2>1, <3>1, <4>1, SMT DEF Types, Locals
    <3>2. CASE ~(remain >= cnt[held])
      <4>1. /\ remain' = remain - remain /\ pc' = "back"
            /\ cnt' = [cnt EXCEPT ![held] = cnt[held] - remain]
            /\ off' = [off EXCEPT ![held] = off[held] + remain]
        BY <1>6, <3>2 DEF CopyOut, Goto
      <4> QED BY <1>0, <2>1, <3>2, <4>1, SMT DEF Types, Locals
    <3> QED BY <3>1, <3>2
  <2>3. Types'
    BY <1>0, <2>1, <2>2 DEF Types, PCs, hostVars, usbVars
  <2> QED BY <1>0, <2>1, <2>2, <2>3 DEF Locals
<1>7. ASSUME GiveBack PROVE TypeInv'
  <2>1. held \in Descs
    BY <1>0, <1>7 DEF GiveBack, Types, Locals
  <2>2. Append(freeList, held) \in Seq(Descs) /\ <<held>> \o recvList \in Seq(Descs)
    BY <1>0, <2>1, SMT DEF Types
  <2>3. /\ freeList' = Append(freeList, held) \/ freeList' = freeList
        /\ recvList' = <<held>> \o recvList \/ recvList' = recvList
        /\ held' = NoDesc /\ pc' \in {"get", "check"}
        /\ UNCHANGED <<hostVars, usbVars, buf, cnt, off, reqBuf, actual, mem,
                       bytes, asked, remain, wait, halted>>
    BY <1>7 DEF GiveBack, Goto
  <2>4. Types'
    BY <1>0, <2>2, <2>3 DEF Types, PCs, hostVars, usbVars
  <2> QED BY <1>0, <2>3, <2>4 DEF Locals
<1>8. ASSUME CheckState PROVE TypeInv'
  <2>1. bytes' \in Nat
    BY <1>0, <1>8, SMT DEF CheckState, Types, Locals
  <2> QED
    BY <1>0, <1>8, <2>1 DEF CheckState, Goto, Types, Locals, PCs, hostVars, usbVars, listVars
<1>9. ASSUME Configure PROVE TypeInv'
  <2>1. Types'
    BY <1>0, <1>9, SMT DEF Configure, Types, States, hostVars, callVars
  <2> QED BY <1>0, <1>9, <2>1 DEF Configure, Locals, callVars
<1>10. ASSUME NEW n \in 0 .. Full, NEW ok \in BOOLEAN, Receive(n, ok) PROVE TypeInv'
  <2>1. /\ queued > 0 /\ sent' \in Nat /\ actual' \in 0 .. Full /\ empties' \in Nat
        /\ UNCHANGED <<ready, off, callVars, halted>>
    <3>1. /\ queued > 0 /\ sent' = sent + n /\ actual' = n
          /\ empties' = empties + 1 \/ empties' = empties
          /\ UNCHANGED <<ready, off, callVars, halted>>
      BY <1>10 DEF Receive
    <3>2. sent \in Nat /\ empties \in Nat /\ n \in Nat
      BY <1>0, SMT DEF Types
    <3>3. sent' \in Nat /\ empties' \in Nat
      BY <3>1, <3>2, SMT
    <3> QED BY <3>1, <3>3
  <2>2. mem' \in [Buffers -> Seq(Nat)]
    <3> DEFINE s == [i \in 1 .. n |-> sent + i]
    <3>1. s \in Seq(Nat)
      BY <1>0, SMT DEF Types
    <3>2. mem' = [mem EXCEPT ![reqBuf] = s]
      BY <1>10 DEF Receive
    <3> HIDE DEF s
    <3> QED BY <1>0, <3>1, <3>2 DEF Types
  <2>3. Locals'
    BY <1>0, <2>1 DEF Locals, callVars
  <2>4. CASE state = "BUSY" /\ n > 0 /\ freeList # <<>>
    <3>1. FileReceived(n, ok)
      BY <1>10, <2>4 DEF Receive
    <3>2. Types'
      BY <1>0, <2>1, <2>2, <2>4, <3>1, FileReceivedType DEF Types, callVars
    <3> QED BY <2>3, <3>2
  <2>5. CASE ~(state = "BUSY" /\ n > 0 /\ freeList # <<>>)
    <3>1. /\ queued' = queued - 1 /\ UNCHANGED <<freeList, recvList, buf, cnt, reqBuf>>
          /\ state' \in {"IDLE", state}
      BY <1>10, <2>5 DEF Receive
    <3>2. queued' \in Nat
      BY <1>0, <2>1, <3>1, SMT DEF Types
    <3>3. Types'
      BY <1>0, <2>1, <2>2, <3>1, <3>2 DEF Types, States, callVars
    <3> QED BY <2>3, <3>3
  <2> QED BY <2>4, <2>5
<1> QED
  BY <1>1, <1>2, <1>3, <1>4, <1>5, <1>6, <1>7, <1>8, <1>9, <1>10 DEF Next, Step

-----------------------------------------------------------------------------
(* Ownership changes in three ways: the task takes the head of the received list, it
   gives the descriptor it holds to one of the lists, or the first free descriptor is
   filed while its buffer is exchanged with the request's. *)
owned == <<freeList, recvList, buf, reqBuf, held>>

File ==
  /\ freeList # <<>>
  /\ freeList' = Tail(freeList) /\ recvList' = Append(recvList, Head(freeList))
  /\ buf' = [buf EXCEPT ![Head(freeList)] = reqBuf]
  /\ reqBuf' = buf[Head(freeList)]
  /\ UNCHANGED held

LEMMA UnmovedOwnership == Ownership /\ UNCHANGED owned => Ownership'
BY DEF Ownership, Owned, In, NoRepeat, owned

LEMMA FileOwnership ==
  ASSUME TypeInv, Ownership, File
  PROVE  Ownership'
<1> DEFINE d == Head(freeList)
<1>1. /\ freeList \in Seq(Descs) /\ recvList \in Seq(Descs) /\ freeList # <<>>
      /\ NoRepeat(freeList) /\ NoRepeat(recvList) /\ buf \in [Descs -> Buffers]
  BY DEF TypeInv, Types, Ownership, File
<1>2. /\ d \in Descs /\ NoRepeat(Tail(freeList)) /\ In(d, freeList)
      /\ \A e : In(e, Tail(freeList)) <=> In(e, freeList) /\ e # d
  BY <1>1, TailFacts
<1>3. ~In(d, recvList) /\ ~Owned(d)
  BY <1>2 DEF Ownership
<1>4. /\ NoRepeat(Append(recvList, d))
      /\ \A e : In(e, Append(recvList, d)) <=> In(e, recvList) \/ e = d
  BY <1>1, <1>2, <1>3, AppendFacts
<1>5. freeList' = Tail(freeList) /\ recvList' = Append(recvList, d) /\ held' = held
      /\ buf' = [buf EXCEPT ![d] = reqBuf] /\ reqBuf' = buf[d]
  BY DEF File
<1> HIDE DEF d
<1>6. NoRepeat(freeList)' /\ NoRepeat(recvList)'
  BY <1>2, <1>4, <1>5 DEF NoRepeat
<1>7. /\ \A e : In(e, freeList)' <=> In(e, freeList) /\ e # d
      /\ \A e : In(e, recvList)' <=> In(e, recvList) \/ e = d
      /\ \A e : Owned(e)' <=> Owned(e)
  BY <1>2, <1>4, <1>5 DEF In, Owned
<1>8. \A e, f \in Descs : buf'[e] = buf'[f] => e = f
  BY <1>1, <1>2, <1>5 DEF Ownership
<1>9. \A e \in Descs : buf'[e] # reqBuf'
  BY <1>1, <1>2, <1>5 DEF Ownership
<1>10. \A e \in Descs :
         /\ Owned(e)' \/ In(e, freeList)' \/ In(e, recvList)'
         /\ ~(In(e, freeList)' /\ In(e, recvList)')
         /\ Owned(e)' => ~In(e, freeList)' /\ ~In(e, recvList)'
  BY <1>2, <1>3, <1>7 DEF Ownership
<1> QED BY <1>6, <1>8, <1>9, <1>10 DEF Ownership

LEMMA OwnershipInit == Init => Ownership
<1> SUFFICES ASSUME Init PROVE Ownership
  OBVIOUS
<1>1. Len(freeList) = NBuf /\ Len(recvList) = 0
      /\ \A i \in 1 .. NBuf : freeList[i] = i
  BY RecvAssumption, SMT DEF Init
<1>2. (\A d \in Descs : buf[d] = d) /\ reqBuf = 0 /\ held = NoDesc
  BY DEF Init
<1>3. \A d : In(d, freeList) <=> d \in Descs
  BY <1>1 DEF In, Descs
<1>4. \A d : ~In(d, recvList)
  BY <1>1, SMT DEF In
<1>5. NoRepeat(freeList) /\ NoRepeat(recvList)
  BY <1>1, SMT DEF NoRepeat
<1>6. \A d \in Descs : buf[d] # reqBuf
  BY <1>2, SMT DEF Descs
<1> QED BY <1>2, <1>3, <1>4, <1>5, <1>6 DEF Ownership, Owned

LEMMA OwnershipStep == TypeInv /\ Ownership /\ [Next]_vars => Ownership'
<1> SUFFICES ASSUME TypeInv, Ownership, [Next]_vars PROVE Ownership'
  OBVIOUS
<1>0. Types /\ Locals /\ NoRepeat(freeList) /\ NoRepeat(recvList)
  BY DEF TypeInv, Ownership
<1>1. ASSUME GetReceived, recvList # <<>> PROVE Ownership'
  <2> DEFINE d == Head(recvList)
  <2>1. /\ d \in Descs /\ NoRepeat(Tail(recvList)) /\ In(d, recvList)
        /\ \A e : In(e, Tail(recvList)) <=> In(e, recvList) /\ e # d
    BY <1>0, <1>1, TailFacts DEF Types
  <2>2. held' = d /\ recvList' = Tail(recvList) /\ UNCHANGED <<freeList, buf, reqBuf>>
        /\ held = NoDesc
    BY <1>0, <1>1 DEF GetReceived, Locals
  <2>3. d # NoDesc
    BY <2>1, SMT DEF Descs, NoDesc
  <2> HIDE DEF d
  <2>4. NoRepeat(freeList)' /\ NoRepeat(recvList)'
    BY <1>0, <2>1, <2>2 DEF NoRepeat
  <2>5. /\ \A e : In(e, recvList)' <=> In(e, recvList) /\ e # d
        /\ \A e : In(e, freeList)' <=> In(e, freeList)
        /\ \A e : ~Owned(e)
        /\ \A e : Owned(e)' <=> e = d
    BY <2>1, <2>2, <2>3 DEF In, Owned
  <2>6. \A e \in Descs :
          /\ Owned(e)' \/ In(e, freeList)' \/ In(e, recvList)'
          /\ ~(In(e, freeList)' /\ In(e, recvList)')
          /\ Owned(e)' => ~In(e, freeList)' /\ ~In(e, recvList)'
    BY <2>1, <2>5 DEF Ownership
  <2> QED BY <2>2, <2>4, <2>6 DEF Ownership
<1>2. ASSUME GiveBack PROVE Ownership'
  <2> DEFINE d == held
  <2>1. d \in Descs /\ d # NoDesc
    BY <1>0, <1>2 DEF GiveBack, Locals, Types
  <2>2. Owned(d) /\ ~In(d, freeList) /\ ~In(d, recvList)
    BY <2>1 DEF Owned, Ownership
  <2>3. /\ NoRepeat(Append(freeList, d))
        /\ \A e : In(e, Append(freeList, d)) <=> In(e, freeList) \/ e = d
    BY <1>0, <2>1, <2>2, AppendFacts DEF Types
  <2>4. /\ NoRepeat(<<d>> \o recvList)
        /\ \A e : In(e, <<d>> \o recvList) <=> In(e, recvList) \/ e = d
    BY <1>0, <2>1, <2>2, PushFacts DEF Types
  <2>5. /\ held' = NoDesc /\ UNCHANGED <<buf, reqBuf>>
        /\ \/ freeList' = Append(freeList, d) /\ recvList' = recvList
           \/ recvList' = <<d>> \o recvList /\ freeList' = freeList
    BY <1>2 DEF GiveBack
  <2>6. \A e : (Owned(e) <=> e = d) /\ ~Owned(e)'
    BY <2>1, <2>5 DEF Owned
  <2> HIDE DEF d
  <2>7. NoRepeat(freeList)' /\ NoRepeat(recvList)'
    BY <1>0, <2>3, <2>4, <2>5 DEF NoRepeat
  <2>8. \/ /\ \A e : In(e, freeList)' <=> In(e, freeList) \/ e = d
           /\ \A e : In(e, recvList)' <=> In(e, recvList)
        \/ /\ \A e : In(e, recvList)' <=> In(e, recvList) \/ e = d
           /\ \A e : In(e, freeList)' <=> In(e, freeList)
    <3>1. CASE freeList' = Append(freeList, d) /\ recvList' = recvList
      BY <2>3, <3>1 DEF In
    <3>2. CASE recvList' = <<d>> \o recvList /\ freeList' = freeList
      BY <2>4, <3>2 DEF In
    <3> QED BY <2>5, <3>1, <3>2
  <2>9. \A e \in Descs :
          /\ Owned(e)' \/ In(e, freeList)' \/ In(e, recvList)'
          /\ ~(In(e, freeList)' /\ In(e, recvList)')
          /\ Owned(e)' => ~In(e, freeList)' /\ ~In(e, recvList)'
    BY <2>2, <2>6, <2>8 DEF Ownership
  <2> QED BY <2>5, <2>7, <2>9 DEF Ownership
<1>3. ASSUME NEW ok \in BOOLEAN, Kick(ok) \/ LastKick(ok) PROVE Ownership'
  <2>1. CASE freeList = <<>> \/ ~ok
    <3>1. UNCHANGED owned
      BY <1>3, <2>1 DEF Kick, LastKick, Requeue, owned, listVars
    <3> QED BY <3>1, UnmovedOwnership
  <2>2. CASE freeList # <<>> /\ ok
    <3>1. File
      BY <1>3, <2>2 DEF Kick, LastKick, Requeue, File
    <3> QED BY <3>1, FileOwnership
  <2> QED BY <2>1, <2>2
<1>4. ASSUME NEW n \in 0 .. Full, NEW ok \in BOOLEAN, Receive(n, ok) PROVE Ownership'
  <2>1. CASE state = "BUSY" /\ n > 0 /\ freeList # <<>>
    <3>1. File
      BY <1>4, <2>1 DEF Receive, FileReceived, File, callVars
    <3> QED BY <3>1, FileOwnership
  <2>2. CASE ~(state = "BUSY" /\ n > 0 /\ freeList # <<>>)
    <3>1. UNCHANGED owned
      BY <1>4, <2>2 DEF Receive, owned, callVars
    <3> QED BY <3>1, UnmovedOwnership
  <2> QED BY <2>1, <2>2
<1>5. ASSUME \/ Call \/ ReadEp \/ ReadStateWhenEmpty \/ CopyOut \/ CheckState \/ Configure
             \/ UNCHANGED vars
             \/ GetReceived /\ recvList = <<>>
      PROVE  Ownership'
  <2>1. UNCHANGED owned
    BY <1>5 DEF Call, ReadEp, ReadStateWhenEmpty, CopyOut, CheckState, Configure, GetReceived,
                owned, listVars, callVars, vars
  <2> QED BY <2>1, UnmovedOwnership
<1> QED
  BY <1>1, <1>2, <1>3, <1>4, <1>5, RecvAssumption DEF Next, Step

(* No descriptor is lost or listed twice, and no buffer has two owners, whatever the number
   of buffers and however the interrupt interleaves with the task: the controller never
   writes into a buffer the task reads. *)
THEOREM OwnershipHolds == Spec => []Ownership
<1>1. Init => TypeInv /\ Ownership
  BY TypeInit, OwnershipInit
<1>2. TypeInv /\ Ownership /\ [Next]_vars => (TypeInv /\ Ownership)'
  BY TypeStep, OwnershipStep
<1> QED BY <1>1, <1>2, PTL DEF Spec

-----------------------------------------------------------------------------
(* The one task acts on a state IDLE it has read outside the lock, and it is still
   IDLE then: only a completion could change it, and in IDLE nothing is queued. *)
IdleMeansParked ==
  /\ queued <= 1
  /\ state = "IDLE" => queued = 0
  /\ ~ready => state = "UNINITED" /\ queued = 0
  /\ pc \in {"kick", "last"} => state = "IDLE"

LEMMA IdleMeansParkedStep ==
  TypeInv /\ IdleMeansParked /\ [Next]_vars => IdleMeansParked'
<1> SUFFICES ASSUME TypeInv, IdleMeansParked, [Next]_vars PROVE IdleMeansParked'
  OBVIOUS
<1> USE DEF IdleMeansParked
<1>0. queued \in Nat
  BY DEF TypeInv, Types
<1>1. ASSUME NEW ok \in BOOLEAN, Kick(ok) \/ LastKick(ok) PROVE IdleMeansParked'
  <2>1. state = "IDLE" /\ queued = 0 /\ ready
    BY <1>1 DEF Kick, LastKick
  <2>2. CASE freeList = <<>> \/ ~ok
    <3>1. UNCHANGED <<ready, state, queued>>
      BY <1>1, <2>2 DEF Kick, LastKick, Requeue, usbVars
    <3> QED BY <2>1, <3>1, SMT
  <2>3. CASE freeList # <<>> /\ ok
    <3>1. /\ pc' \notin {"kick", "last"} /\ ready' = ready
          /\ state' = "BUSY" /\ queued' = queued + 1
      BY <1>1, <2>3 DEF Kick, LastKick, Retry, Goto, Requeue
    <3> QED BY <2>1, <3>1, SMT
  <2> QED BY <2>2, <2>3
<1>2. ASSUME ReadStateWhenEmpty \/ CheckState PROVE IdleMeansParked'
  <2>1. /\ UNCHANGED <<ready, state, queued>>
        /\ pc' \in {"kick", "last"} => state = "IDLE"
    BY <1>2 DEF ReadStateWhenEmpty, CheckState, Retry, Goto, usbVars
  <2> QED BY <2>1
<1>3. ASSUME Call \/ ReadEp \/ GetReceived \/ CopyOut \/ GiveBack PROVE IdleMeansParked'
  <2>1. /\ UNCHANGED <<ready, state, queued>>
        /\ pc' \notin {"kick", "last"}
    BY <1>3 DEF Call, ReadEp, GetReceived, CopyOut, GiveBack, Retry, Goto, usbVars
  <2> QED BY <2>1
<1>4. ASSUME Configure PROVE IdleMeansParked'
  <2>1. ready' = TRUE /\ queued' = 1 /\ state' = "BUSY" /\ pc' = pc /\ state = "UNINITED"
    BY <1>4 DEF Configure, callVars
  <2> QED BY <2>1
<1>5. ASSUME NEW n \in 0 .. Full, NEW ok \in BOOLEAN, Receive(n, ok) PROVE IdleMeansParked'
  <2>1. queued = 1 /\ state # "IDLE" /\ ready /\ ready' = ready /\ pc' = pc
    <3>1. queued > 0 /\ ready' = ready /\ pc' = pc
      BY <1>5 DEF Receive, callVars
    <3>2. queued = 1
      BY <1>0, <3>1, SMT
    <3> QED BY <3>1, <3>2
  <2>2. CASE state = "BUSY" /\ n > 0 /\ freeList # <<>>
    <3>1. /\ state' = "LAST_DATA" \/ state' = "BUSY"
          /\ queued' = queued \/ queued' = queued - 1
      BY <1>5, <2>2 DEF Receive, FileReceived
    <3> QED BY <2>1, <3>1, SMT
  <2>3. CASE ~(state = "BUSY" /\ n > 0 /\ freeList # <<>>)
    <3>1. queued' = queued - 1
      BY <1>5, <2>3 DEF Receive
    <3> QED BY <2>1, <3>1, SMT
  <2> QED BY <2>2, <2>3
<1>6. ASSUME UNCHANGED vars PROVE IdleMeansParked'
  BY <1>6 DEF callVars, vars, usbVars
<1> QED
  BY <1>1, <1>2, <1>3, <1>4, <1>5, <1>6, RecvAssumption DEF Next, Step

(* The request is never handed to the controller twice, although the task reads the state
   outside the lock; IDLE means one parked buffer and nothing in flight. *)
THEOREM OneTransferHolds == Spec => []OneTransfer
<1>1. Init => TypeInv /\ IdleMeansParked
  BY TypeInit DEF Init, IdleMeansParked
<1>2. TypeInv /\ IdleMeansParked /\ [Next]_vars => (TypeInv /\ IdleMeansParked)'
  BY TypeStep, IdleMeansParkedStep
<1>3. IdleMeansParked => OneTransfer
  BY DEF IdleMeansParked, OneTransfer
<1> QED BY <1>1, <1>2, <1>3, PTL DEF Spec

-----------------------------------------------------------------------------
(* The state tells whether a transfer is running.  BUSY or LAST_DATA without one would be
   the end of the channel: nothing more would be received, and no read restarts what it
   believes to be running. *)
StateTellsTransfer == queued = IF state \in {"BUSY", "LAST_DATA"} THEN 1 ELSE 0

LEMMA StateTellsTransferStep ==
  ASSUME IsrQueue \subseteq {TRUE}, TypeInv, IdleMeansParked, StateTellsTransfer, [Next]_vars
  PROVE  StateTellsTransfer'
<1> USE DEF StateTellsTransfer
<1>0. queued \in Nat
  BY DEF TypeInv, Types
<1>1. ASSUME NEW ok \in BOOLEAN, Kick(ok) \/ LastKick(ok) PROVE StateTellsTransfer'
  <2>1. state = "IDLE" /\ queued = 0
    BY <1>1 DEF Kick, LastKick, IdleMeansParked
  <2>2. \/ UNCHANGED <<state, queued>>
        \/ state' = "BUSY" /\ queued' = queued + 1
    BY <1>1 DEF Kick, LastKick, Requeue, usbVars
  <2> QED BY <2>1, <2>2, SMT
<1>2. ASSUME \/ Call \/ ReadEp \/ GetReceived \/ ReadStateWhenEmpty
             \/ CopyOut \/ GiveBack \/ CheckState
      PROVE  StateTellsTransfer'
  BY <1>2 DEF Call, ReadEp, GetReceived, ReadStateWhenEmpty, CopyOut, GiveBack, CheckState,
              usbVars
<1>3. ASSUME Configure PROVE StateTellsTransfer'
  BY <1>3 DEF Configure
<1>4. ASSUME NEW n \in 0 .. Full, NEW ok \in IsrQueue, Receive(n, ok)
      PROVE  StateTellsTransfer'
  <2>1. ok /\ queued = 1 /\ state \in {"BUSY", "LAST_DATA"}
    <3>1. queued > 0
      BY <1>4 DEF Receive
    <3>2. queued # 0
      BY <1>0, <3>1, SMT
    <3> QED BY <3>2
  <2>2. CASE state = "BUSY" /\ n > 0 /\ freeList # <<>>
    <3>1. queued' = queued /\ (state' = "LAST_DATA" \/ state' = "BUSY")
      BY <1>4, <2>1, <2>2 DEF Receive, FileReceived
    <3> QED BY <2>1, <3>1
  <2>3. CASE ~(state = "BUSY" /\ n > 0 /\ freeList # <<>>)
    <3>1. queued' = queued - 1 /\ state' = "IDLE"
      BY <1>4, <2>1, <2>3 DEF Receive
    <3> QED BY <2>1, <3>1, SMT
  <2> QED BY <2>2, <2>3
<1>5. ASSUME UNCHANGED vars PROVE StateTellsTransfer'
  BY <1>5 DEF vars, usbVars
<1> QED BY <1>1, <1>2, <1>3, <1>4, <1>5, RecvAssumption DEF Next, Step

(* A reader never meets a state that claims a transfer the controller does not have, nor
   IDLE while it has one, as long as the controller accepts what the interrupt queues:
   the safety half of "a closed channel opens again". *)
THEOREM StateTellsTransferHolds == IsrQueue \subseteq {TRUE} /\ Spec => []StateTellsTransfer
<1> SUFFICES ASSUME IsrQueue \subseteq {TRUE} PROVE Spec => []StateTellsTransfer
  OBVIOUS
<1>1. Init => TypeInv /\ IdleMeansParked /\ StateTellsTransfer
  BY TypeInit DEF Init, IdleMeansParked, StateTellsTransfer
<1>2. TypeInv /\ IdleMeansParked /\ StateTellsTransfer /\ [Next]_vars
        => (TypeInv /\ IdleMeansParked /\ StateTellsTransfer)'
  BY TypeStep, IdleMeansParkedStep, StateTellsTransferStep
<1> QED BY <1>1, <1>2, PTL DEF Spec

-----------------------------------------------------------------------------
(* What the counts say of the bytes in the buffers.  A free descriptor holds nothing, and
   an emptied one starts at offset 0 again: the count and offset of the transfer filed
   under it next therefore describe the buffer it has been given. *)
Within(d) == cnt[d] = 0 \/ off[d] + cnt[d] <= Len(mem[buf[d]])

Contents ==
  /\ \A d \in Descs : Within(d) /\ (cnt[d] = 0 => off[d] = 0)
  /\ \A d \in Descs : In(d, freeList) => cnt[d] = 0
  /\ pc = "free" => cnt[held] = 0
  /\ \A b \in Buffers : Len(mem[b]) <= Full
  /\ state = "IDLE" => actual <= Len(mem[reqBuf])

Inv == TypeInv /\ Ownership /\ IdleMeansParked /\ Contents

LEMMA ContentsInit == Init => Contents
<1> SUFFICES ASSUME Init PROVE Contents
  OBVIOUS
<1>1. /\ \A d \in Descs : cnt[d] = 0 /\ off[d] = 0
      /\ pc = "idle" /\ state = "UNINITED" /\ \A b \in Buffers : mem[b] = <<>>
  BY DEF Init
<1>2. \A b \in Buffers : Len(mem[b]) <= Full
  BY <1>1, RecvAssumption, SMT
<1> QED BY <1>1, <1>2 DEF Contents, Within

LEMMA UnmovedContents ==
  Contents /\ UNCHANGED <<cnt, off, buf, mem, freeList, held, reqBuf, actual, state>>
           /\ pc' # "free" => Contents'
BY DEF Contents, Within, In

(* The parked transfer is filed, or its length is forgotten when the request is refused. *)
LEMMA RequeueContents ==
  ASSUME Inv, freeList # <<>>, state = "IDLE", NEW ok \in BOOLEAN, Requeue(ok),
         UNCHANGED mem, pc' # "free"
  PROVE  Contents'
<1>1. /\ cnt \in [Descs -> 0 .. Full] /\ off \in [Descs -> Nat] /\ buf \in [Descs -> Buffers]
      /\ freeList \in Seq(Descs) /\ NoRepeat(freeList) /\ actual \in 0 .. Full
  BY DEF Inv, TypeInv, Types, Ownership
<1>2. PICK d \in Descs : /\ d = Head(freeList)
                         /\ \A e : In(e, Tail(freeList)) <=> In(e, freeList) /\ e # d
  BY <1>1, TailFacts
<1>3. Contents /\ actual <= Len(mem[reqBuf])
  BY DEF Inv, Contents
<1>4. CASE ok
  <2>1. /\ off' = [off EXCEPT ![d] = 0] /\ cnt' = [cnt EXCEPT ![d] = actual]
        /\ buf' = [buf EXCEPT ![d] = reqBuf] /\ freeList' = Tail(freeList)
        /\ state' = "BUSY" /\ mem' = mem
    BY <1>2, <1>4 DEF Requeue
  <2>2. Within(d)' /\ off'[d] = 0
    <3>1. off'[d] = 0 /\ cnt'[d] = actual /\ buf'[d] = reqBuf
      BY <1>1, <1>2, <2>1
    <3>2. 0 + actual = actual
      BY <1>1, SMT
    <3> QED BY <1>3, <2>1, <3>1, <3>2 DEF Within
  <2>3. ASSUME NEW e \in Descs, e # d PROVE Within(e)' /\ cnt'[e] = cnt[e] /\ off'[e] = off[e]
    BY <1>1, <1>3, <2>1, <2>3 DEF Contents, Within
  <2>4. \A e : In(e, freeList)' => In(e, freeList) /\ e # d
    BY <1>2, <2>1 DEF In
  <2> QED BY <1>3, <2>1, <2>2, <2>3, <2>4 DEF Contents
<1>5. CASE ~ok
  <2>1. /\ off' = [off EXCEPT ![d] = 0] /\ cnt' = [cnt EXCEPT ![d] = 0] /\ actual' = 0
        /\ UNCHANGED <<buf, freeList, reqBuf, state, mem>>
    BY <1>2, <1>5 DEF Requeue
  <2>2. cnt'[d] = 0 /\ off'[d] = 0
    BY <1>1, <1>2, <2>1
  <2>3. ASSUME NEW e \in Descs, e # d PROVE Within(e)' /\ cnt'[e] = cnt[e] /\ off'[e] = off[e]
    BY <1>1, <1>3, <2>1, <2>3 DEF Contents, Within
  <2>4. mem[reqBuf] \in Seq(Nat)
    BY DEF Inv, TypeInv, Types
  <2>5. actual' <= Len(mem'[reqBuf'])
    <3>1. 0 <= Len(mem[reqBuf])
      BY <2>4, SMT
    <3> QED BY <2>1, <3>1
  <2> QED BY <1>3, <2>1, <2>2, <2>3, <2>5 DEF Contents, Within, In
<1> QED BY <1>4, <1>5

LEMMA ReceiveContents ==
  ASSUME Inv, NEW n \in 0 .. Full, NEW ok \in BOOLEAN, Receive(n, ok)
  PROVE  Contents'
<1> DEFINE s == [i \in 1 .. n |-> sent + i]
<1>1. /\ cnt \in [Descs -> 0 .. Full] /\ off \in [Descs -> Nat] /\ buf \in [Descs -> Buffers]
      /\ freeList \in Seq(Descs) /\ NoRepeat(freeList) /\ reqBuf \in Buffers
      /\ mem \in [Buffers -> Seq(Nat)] /\ sent \in Nat
      /\ \A e \in Descs : buf[e] # reqBuf
  BY DEF Inv, TypeInv, Types, Ownership
<1>2. Contents
  BY DEF Inv
<1>3. mem' = [mem EXCEPT ![reqBuf] = s] /\ actual' = n /\ UNCHANGED <<off, held, pc>>
  BY DEF Receive, callVars
<1>4. Len(s) = n
  BY <1>1, SMT
<1> HIDE DEF s
<1>5. /\ mem'[reqBuf] = s
      /\ \A b \in Buffers : b # reqBuf => mem'[b] = mem[b]
  BY <1>1, <1>3
<1>6. \A b \in Buffers : Len(mem'[b]) <= Full
  <2>1. n <= Full
    BY SMT
  <2> QED BY <1>2, <1>4, <1>5, <2>1 DEF Contents
<1>7. \A e \in Descs : mem'[buf[e]] = mem[buf[e]]
  BY <1>1, <1>5
<1>8. n <= n
  BY SMT
<1>9. CASE state = "BUSY" /\ n > 0 /\ freeList # <<>>
  <2>1. PICK d \in Descs :
          /\ d = Head(freeList) /\ In(d, freeList)
          /\ \A e : In(e, Tail(freeList)) <=> In(e, freeList) /\ e # d
    BY <1>1, <1>9, TailFacts
  <2>2. /\ cnt' = [cnt EXCEPT ![d] = n]
        /\ buf' = [buf EXCEPT ![d] = reqBuf] /\ freeList' = Tail(freeList)
        /\ state' = "BUSY" \/ state' = "LAST_DATA"
    BY <1>9, <2>1 DEF Receive, FileReceived
  <2>3. off[d] = 0
    BY <1>2, <2>1 DEF Contents
  <2>4. ~Owned(d)
    BY <2>1 DEF Inv, Ownership
  <2>5. Within(d)' /\ off'[d] = 0
    <3>1. off'[d] = 0 /\ cnt'[d] = n /\ buf'[d] = reqBuf
      BY <1>1, <1>3, <2>1, <2>2, <2>3
    <3>2. 0 + n = n
      BY SMT
    <3> QED BY <1>4, <1>5, <1>8, <3>1, <3>2 DEF Within
  <2>6. ASSUME NEW e \in Descs, e # d PROVE Within(e)' /\ cnt'[e] = cnt[e] /\ off'[e] = off[e]
    <3>1. cnt'[e] = cnt[e] /\ off'[e] = off[e] /\ buf'[e] = buf[e]
      BY <1>1, <1>3, <2>2, <2>6
    <3> QED BY <1>2, <1>7, <3>1 DEF Contents, Within
  <2>7. \A e : In(e, freeList)' => In(e, freeList) /\ e # d
    BY <2>1, <2>2 DEF In
  <2>8. pc = "free" => held \in Descs /\ held # d
    BY <2>4 DEF Inv, TypeInv, Types, Locals, Owned
  <2> QED BY <1>2, <1>3, <1>6, <2>2, <2>5, <2>6, <2>7, <2>8 DEF Contents
<1>10. CASE ~(state = "BUSY" /\ n > 0 /\ freeList # <<>>)
  <2>1. UNCHANGED <<freeList, buf, cnt, reqBuf>>
    BY <1>10 DEF Receive
  <2>2. \A e \in Descs : Within(e)'
    BY <1>2, <1>3, <1>7, <2>1 DEF Contents, Within
  <2> QED BY <1>2, <1>3, <1>4, <1>5, <1>6, <1>8, <2>1, <2>2 DEF Contents, In
<1> QED BY <1>9, <1>10

LEMMA ContentsStep == Inv /\ [Next]_vars => Contents'
<1> SUFFICES ASSUME Inv, [Next]_vars PROVE Contents'
  OBVIOUS
<1>0. Contents /\ Types /\ Locals /\ Ownership /\ IdleMeansParked
  BY DEF Inv, TypeInv
<1>1. ASSUME NEW ok \in BOOLEAN, Kick(ok) \/ LastKick(ok) PROVE Contents'
  <2>1. state = "IDLE" /\ UNCHANGED <<mem, held>>
    BY <1>0, <1>1 DEF Kick, LastKick, IdleMeansParked
  <2>2. pc' # "free"
    BY <1>1 DEF Kick, LastKick, Retry, Goto
  <2>3. CASE freeList = <<>>
    BY <1>0, <1>1, <2>1, <2>2, <2>3, UnmovedContents
       DEF Kick, LastKick, usbVars, listVars
  <2>4. CASE freeList # <<>>
    <3>1. Requeue(ok)
      BY <1>1, <2>4 DEF Kick, LastKick
    <3> QED BY <2>1, <2>2, <2>4, <3>1, RequeueContents
  <2> QED BY <2>3, <2>4
<1>2. ASSUME CopyOut PROVE Contents'
  <2>1. /\ held \in Descs /\ cnt \in [Descs -> 0 .. Full] /\ off \in [Descs -> Nat]
        /\ ~In(held, freeList) /\ remain \in Nat
        /\ UNCHANGED <<state, freeList, buf, reqBuf, actual, mem, held>>
    BY <1>0, <1>2 DEF CopyOut, Types, Locals, Ownership, Owned, usbVars
  <2>2. /\ \A e \in Descs : e # held => cnt'[e] = cnt[e] /\ off'[e] = off[e]
        /\ \/ cnt'[held] = 0 /\ off'[held] = 0
           \/ /\ cnt'[held] > 0 /\ pc' = "back"
              /\ off'[held] + cnt'[held] = off[held] + cnt[held] /\ cnt[held] # 0
    <3>1. CASE remain >= cnt[held]
      <4>1. cnt' = [cnt EXCEPT ![held] = 0] /\ off' = [off EXCEPT ![held] = 0]
        BY <1>2, <3>1 DEF CopyOut
      <4> QED BY <2>1, <4>1
    <3>2. CASE ~(remain >= cnt[held])
      <4>1. /\ pc' = "back" /\ cnt' = [cnt EXCEPT ![held] = cnt[held] - remain]
            /\ off' = [off EXCEPT ![held] = off[held] + remain]
        BY <1>2, <3>2 DEF CopyOut, Goto
      <4>2. /\ cnt'[held] = cnt[held] - remain /\ off'[held] = off[held] + remain
            /\ \A e \in Descs : e # held => cnt'[e] = cnt[e] /\ off'[e] = off[e]
        BY <2>1, <4>1
      <4>3. cnt[held] \in Nat /\ off[held] \in Nat
        BY <2>1, SMT
      <4>4. /\ cnt[held] - remain > 0 /\ cnt[held] # 0
            /\ (off[held] + remain) + (cnt[held] - remain) = off[held] + cnt[held]
        BY <2>1, <3>2, <4>3, SMT
      <4> QED BY <4>1, <4>2, <4>4
    <3> QED BY <3>1, <3>2
  <2>3. Within(held)' /\ (cnt'[held] = 0 => off'[held] = 0) /\ (pc' = "free" => cnt'[held'] = 0)
    BY <1>0, <2>1, <2>2, SMT DEF Contents, Within
  <2>4. ASSUME NEW e \in Descs, e # held PROVE Within(e)' /\ (cnt'[e] = 0 => off'[e] = 0)
    BY <1>0, <2>1, <2>2, <2>4 DEF Contents, Within
  <2> QED BY <1>0, <2>1, <2>2, <2>3, <2>4 DEF Contents, In
<1>3. ASSUME GiveBack PROVE Contents'
  <2>1. /\ UNCHANGED <<state, buf, cnt, off, reqBuf, actual, mem>> /\ pc' # "free"
        /\ \/ pc = "free" /\ freeList' = Append(freeList, held)
           \/ freeList' = freeList
    BY <1>3 DEF GiveBack, Goto, usbVars
  <2>2. held \in Descs /\ ~In(held, freeList) /\ NoRepeat(freeList)
    BY <1>0, <1>3 DEF GiveBack, Types, Locals, Ownership, Owned
  <2>3. \A e : In(e, Append(freeList, held)) <=> In(e, freeList) \/ e = held
    BY <1>0, <2>2, AppendFacts DEF Types
  <2>4. \A e \in Descs : In(e, freeList)' => cnt[e] = 0
    <3>1. CASE pc = "free" /\ freeList' = Append(freeList, held)
      BY <1>0, <2>3, <3>1 DEF Contents, In
    <3>2. CASE freeList' = freeList
      BY <1>0, <3>2 DEF Contents, In
    <3> QED BY <2>1, <3>1, <3>2
  <2> QED BY <1>0, <2>1, <2>4 DEF Contents, Within
<1>4. ASSUME GetReceived PROVE Contents'
  <2>1. UNCHANGED <<cnt, off, buf, mem, freeList, reqBuf, actual, state>> /\ pc' # "free"
    BY <1>4 DEF GetReceived, Goto, usbVars
  <2> QED BY <1>0, <2>1 DEF Contents, Within, In
<1>5. ASSUME Configure PROVE Contents'
  BY <1>0, <1>5 DEF Configure, callVars, Contents, Within, In
<1>6. ASSUME Call \/ ReadEp \/ ReadStateWhenEmpty \/ CheckState PROVE Contents'
  <2>1. UNCHANGED <<cnt, off, buf, mem, freeList, held, reqBuf, actual, state>>
    BY <1>6 DEF Call, ReadEp, ReadStateWhenEmpty, CheckState, usbVars, listVars
  <2>2. pc' # "free"
    BY <1>6 DEF Call, ReadEp, ReadStateWhenEmpty, CheckState, Retry, Goto
  <2> QED BY <1>0, <2>1, <2>2, UnmovedContents
<1>7. ASSUME UNCHANGED vars PROVE Contents'
  BY <1>0, <1>7 DEF vars, usbVars, listVars, callVars, Contents, Within, In
<1>8. ASSUME NEW n \in 0 .. Full, NEW ok \in BOOLEAN, Receive(n, ok) PROVE Contents'
  BY <1>8, ReceiveContents
<1> QED
  BY <1>1, <1>2, <1>3, <1>4, <1>5, <1>6, <1>7, <1>8, RecvAssumption DEF Next, Step

LEMMA InvHolds == Spec => []Inv
<1>1. Init => Inv
  BY TypeInit, OwnershipInit, ContentsInit DEF Inv, Init, IdleMeansParked
<1>2. Inv /\ [Next]_vars => Inv'
  BY TypeStep, OwnershipStep, IdleMeansParkedStep, ContentsStep DEF Inv
<1> QED BY <1>1, <1>2, PTL DEF Spec

(* What a descriptor still has to give lies inside what was received into its buffer,
   across partial reads, exchanged buffers and refused requests: the assertion before
   the copy never fails and nothing stale is handed out. *)
THEOREM InsideBufferHolds == Spec => []InsideBuffer
<1>1. Inv => InsideBuffer
  BY DEF Inv, Contents, Within, InsideBuffer
<1> QED BY InvHolds, <1>1, PTL

(* What is copied out are bytes that were received: the copy does not run past them. *)
LEMMA SubSeqNat ==
  ASSUME NEW s \in Seq(Nat), NEW o \in Nat, NEW n \in Nat, n = 0 \/ o + n <= Len(s)
  PROVE  SubSeq(s, o + 1, o + n) \in Seq(Nat)
<1>1. Len(s) \in Nat /\ \A i \in 1 .. Len(s) : s[i] \in Nat
  BY SMT
<1>2. SubSeq(s, o + 1, o + n) = [i \in 1 .. n |-> s[o + i]]
  BY <1>1, SMT
<1>3. \A i \in 1 .. n : s[o + i] \in Nat
  BY <1>1, SMT
<1> QED BY <1>2, <1>3, SMT

LEMMA ReceivedStep ==
  Inv /\ received \in Seq(Nat) /\ [Next]_vars => received' \in Seq(Nat)
<1> SUFFICES ASSUME Inv, received \in Seq(Nat), [Next]_vars PROVE received' \in Seq(Nat)
  OBVIOUS
<1>1. CASE CopyOut
  <2>1. /\ held \in Descs /\ cnt[held] \in Nat /\ off[held] \in Nat /\ remain \in Nat
        /\ buf[held] \in Buffers
    <3>1. /\ held \in Descs /\ cnt \in [Descs -> 0 .. Full] /\ off \in [Descs -> Nat]
          /\ remain \in Nat /\ buf \in [Descs -> Buffers]
      BY <1>1 DEF CopyOut, Inv, TypeInv, Types, Locals
    <3>2. cnt[held] \in 0 .. Full
      BY <3>1
    <3>3. cnt[held] \in Nat
      BY <3>2, SMT
    <3> QED BY <3>1, <3>3
  <2>2. mem[buf[held]] \in Seq(Nat)
    BY <2>1 DEF Inv, TypeInv, Types
  <2>3. cnt[held] = 0 \/ off[held] + cnt[held] <= Len(mem[buf[held]])
    BY <2>1 DEF Inv, Contents, Within
  <2>4. PICK n \in Nat :
          /\ n = 0 \/ off[held] + n <= Len(mem[buf[held]])
          /\ received' = received \o SubSeq(mem[buf[held]], off[held] + 1, off[held] + n)
    <3>1. CASE remain >= cnt[held]
      BY <1>1, <2>1, <2>3, <3>1 DEF CopyOut
    <3>2. CASE ~(remain >= cnt[held])
      <4>1. remain = 0 \/ off[held] + remain <= Len(mem[buf[held]])
        <5>1. Len(mem[buf[held]]) \in Nat
          BY <2>2, SMT
        <5> QED BY <2>1, <2>3, <3>2, <5>1, SMT
      <4>2. received' = received \o
                          SubSeq(mem[buf[held]], off[held] + 1, off[held] + remain)
        BY <1>1, <3>2 DEF CopyOut
      <4> QED BY <2>1, <4>1, <4>2
    <3> QED BY <3>1, <3>2
  <2>5. SubSeq(mem[buf[held]], off[held] + 1, off[held] + n) \in Seq(Nat)
    BY <2>1, <2>2, <2>4, SubSeqNat
  <2> QED BY <2>4, <2>5, SMT
<1>2. CASE UNCHANGED received
  BY <1>2
<1>3. CASE UNCHANGED vars
  BY <1>3 DEF vars, callVars
<1> QED
  BY <1>1, <1>2, <1>3
     DEF Next, Step, Call, ReadEp, GetReceived, ReadStateWhenEmpty, Kick, GiveBack, CheckState,
         LastKick, Configure, Receive, callVars

(* Every state of the receive path is well typed: counts and offsets stay within a
   buffer, the request is never taken off an empty queue, and every byte handed out is
   one that was received. *)
THEOREM TypeCorrect == Spec => []TypeOK
<1>1. Init => received \in Seq(Nat)
  BY SMT DEF Init
<1>2. Inv => \A d \in Descs : off[d] \in 0 .. Full
  <2> SUFFICES ASSUME Inv, NEW d \in Descs PROVE off[d] \in 0 .. Full
    OBVIOUS
  <2>1. /\ cnt \in [Descs -> 0 .. Full] /\ off \in [Descs -> Nat]
        /\ buf \in [Descs -> Buffers] /\ mem \in [Buffers -> Seq(Nat)]
    BY DEF Inv, TypeInv, Types
  <2>2. /\ cnt[d] \in 0 .. Full /\ off[d] \in Nat /\ mem[buf[d]] \in Seq(Nat)
        /\ Len(mem[buf[d]]) <= Full
        /\ cnt[d] = 0 => off[d] = 0
        /\ cnt[d] = 0 \/ off[d] + cnt[d] <= Len(mem[buf[d]])
    BY <2>1 DEF Inv, Contents, Within
  <2>3. Len(mem[buf[d]]) \in Nat /\ Full \in Nat
    BY <2>2, RecvAssumption, SMT
  <2> QED BY <2>2, <2>3, SMT
<1>3. Inv /\ received \in Seq(Nat) => TypeOK
  <2> SUFFICES ASSUME Inv, received \in Seq(Nat) PROVE TypeOK
    OBVIOUS
  <2>1. Types
    BY DEF Inv, TypeInv
  <2>2. off \in [Descs -> 0 .. Full]
    BY <1>2, <2>1 DEF Types
  <2> QED BY <2>1, <2>2 DEF Types, TypeOK
<1>4. Inv /\ received \in Seq(Nat) /\ [Next]_vars => (received \in Seq(Nat))'
  BY ReceivedStep
<1> QED BY InvHolds, <1>1, <1>3, <1>4, PTL DEF Spec

-----------------------------------------------------------------------------
(* What the callers have not yet been given, oldest first; a step that leaves it and what
   they have been given alone; and what the descriptors of a list hold, in its order. *)
Coming == Taken \o Filed \o Parked
Still == UNCHANGED <<Coming, received>>
Bytes(s) == FlattenSeq([i \in 1 .. Len(s) |-> Unread(s[i])])

PipeInv == Inv /\ received \in Seq(Nat)

LEMMA UnreadType == ASSUME Inv, NEW d \in Descs PROVE Unread(d) \in Seq(Nat)
<1>1. /\ cnt \in [Descs -> 0 .. Full] /\ off \in [Descs -> Nat]
      /\ buf \in [Descs -> Buffers] /\ mem \in [Buffers -> Seq(Nat)]
  BY DEF Inv, TypeInv, Types
<1>2. cnt[d] \in 0 .. Full /\ off[d] \in Nat /\ mem[buf[d]] \in Seq(Nat)
  BY <1>1
<1>3. cnt[d] \in Nat
  BY <1>2, RecvAssumption, SMT
<1>4. cnt[d] = 0 \/ off[d] + cnt[d] <= Len(mem[buf[d]])
  BY DEF Inv, Contents, Within
<1> QED BY <1>2, <1>3, <1>4, SubSeqNat DEF Unread

LEMMA TakenType == Inv => Taken \in Seq(Nat)
<1>1. Inv => held = NoDesc \/ held \in Descs
  BY DEF Inv, TypeInv, Types
<1> QED BY <1>1, UnreadType, EmptySeq DEF Taken

LEMMA ParkedType == Inv => Parked \in Seq(Nat)
<1> SUFFICES ASSUME Inv PROVE Parked \in Seq(Nat)
  OBVIOUS
<1>1. CASE state = "IDLE"
  <2>1. mem[reqBuf] \in Seq(Nat) /\ actual \in 0 .. Full /\ actual <= Len(mem[reqBuf])
    BY <1>1 DEF Inv, TypeInv, Types, Contents
  <2>2. actual \in Nat /\ 0 \in Nat /\ 0 + 1 = 1 /\ 0 + actual = actual
    BY <2>1, RecvAssumption, SMT
  <2>3. SubSeq(mem[reqBuf], 0 + 1, 0 + actual) \in Seq(Nat)
    BY <2>1, <2>2, SubSeqNat
  <2> QED BY <1>1, <2>2, <2>3 DEF Parked
<1>2. CASE state # "IDLE"
  BY <1>2, EmptySeq DEF Parked
<1> QED BY <1>1, <1>2

LEMMA UnreadListType ==
  ASSUME Inv, NEW s \in Seq(Descs)
  PROVE  [i \in 1 .. Len(s) |-> Unread(s[i])] \in Seq(Seq(Nat))
<1>1. Len(s) \in Nat /\ \A i \in 1 .. Len(s) : Unread(s[i]) \in Seq(Nat)
  BY LenProperties, ElementOfSeq, UnreadType
<1> QED BY <1>1, SMT

LEMMA FiledType == Inv => Filed \in Seq(Nat)
<1>1. Inv => recvList \in Seq(Descs)
  BY DEF Inv, TypeInv, Types
<1> QED BY <1>1, UnreadListType, FlattenType DEF Filed

LEMMA BytesPush ==
  ASSUME Inv, NEW s \in Seq(Descs), NEW d \in Descs
  PROVE  Bytes(<<d>> \o s) = Unread(d) \o Bytes(s)
<1> DEFINE t == <<d>> \o s
           u == [i \in 1 .. Len(s) |-> Unread(s[i])]
           x == Unread(d)
           v == [i \in 1 .. Len(t) |-> Unread(t[i])]
<1>1. u \in Seq(Seq(Nat)) /\ x \in Seq(Nat)
  BY UnreadListType, UnreadType
<1>2. /\ Len(s) \in Nat /\ Len(t) = Len(s) + 1 /\ t[1] = d
      /\ \A i \in 1 .. Len(s) : t[i + 1] = s[i]
  BY SMT
<1>3. Len(u) = Len(s) /\ \A i \in 1 .. Len(s) : u[i] = Unread(s[i])
  BY <1>2, SMT
<1>4. \A i \in 1 .. Len(t) : v[i] = Unread(t[i])
  OBVIOUS
<1>5. v = <<x>> \o u
  <2>1. v = [i \in 1 .. Len(s) + 1 |-> v[i]]
    BY <1>2
  <2>2. v[1] = x
    <3>1. 1 \in 1 .. Len(t)
      BY <1>2, SMT
    <3> QED BY <1>2, <1>4, <3>1
  <2>3. ASSUME NEW i \in 1 .. Len(s) + 1, i # 1 PROVE v[i] = u[i - 1]
    <3>1. i - 1 \in 1 .. Len(s) /\ (i - 1) + 1 = i /\ i \in 1 .. Len(t)
      BY <1>2, <2>3, SMT
    <3> QED BY <1>2, <1>3, <1>4, <3>1
  <2> HIDE DEF t, u, v, x
  <2>4. <<x>> \o u = [i \in 1 .. Len(s) + 1 |-> IF i = 1 THEN x ELSE u[i - 1]]
    BY <1>1, <1>2, <1>3, SMT
  <2>5. \A i \in 1 .. Len(s) + 1 : v[i] = IF i = 1 THEN x ELSE u[i - 1]
    BY <2>2, <2>3
  <2> QED BY <2>1, <2>4, <2>5
<1> HIDE DEF u, v, x, t
<1>6. FlattenSeq(v) = x \o FlattenSeq(u)
  BY <1>1, <1>5, FlattenPush
<1> QED BY <1>6 DEF Bytes, u, v, x, t

LEMMA BytesFiled == Filed = Bytes(recvList)
BY DEF Filed, Bytes

(* A step that leaves what every owned descriptor holds, and the parked bytes, alone. *)
LEMMA UnmovedStill ==
  UNCHANGED <<mem, buf, cnt, off, recvList, held, state, reqBuf, actual, received>> => Still
BY DEF Still, Coming, Taken, Filed, Parked, Unread

(* A descriptor is filed at the end of the list with the bytes x, and the others stay as
   they are. *)
LEMMA FiledGrows ==
  ASSUME Inv, NEW d \in Descs, d # held, ~In(d, recvList), NEW x \in Seq(Nat),
         recvList' = Append(recvList, d), held' = held, Unread(d)' = x,
         \A e \in Descs : e # d => Unread(e)' = Unread(e)
  PROVE  Taken' = Taken /\ Filed' = Filed \o x
<1> DEFINE u == [i \in 1 .. Len(recvList) |-> Unread(recvList[i])]
           v == [i \in 1 .. Len(recvList)' |-> Unread(recvList[i])']
<1>1. /\ recvList \in Seq(Descs) /\ held \in Descs \cup {NoDesc}
      /\ u \in Seq(Seq(Nat))
  BY UnreadListType DEF Inv, TypeInv, Types
<1>2. Taken' = Taken
  BY <1>1 DEF Taken
<1>3. /\ Len(recvList) \in Nat /\ Len(recvList)' = Len(recvList) + 1
      /\ recvList'[Len(recvList) + 1] = d
      /\ \A i \in 1 .. Len(recvList) : recvList'[i] = recvList[i] /\ recvList[i] \in Descs
  BY <1>1, LenProperties, ElementOfSeq, AppendProperties
<1>4. \A i \in 1 .. Len(recvList) : recvList[i] # d
  BY DEF In
<1>5. ASSUME NEW e \in Descs, NEW i \in Nat, recvList'[i] = e
      PROVE  Unread(recvList[i])' = Unread(e)'
  BY <1>5 DEF Unread
<1>6. ASSUME NEW i \in 1 .. Len(recvList) + 1
      PROVE  Unread(recvList[i])' = IF i <= Len(recvList) THEN u[i] ELSE x
  <2>1. \/ i \in 1 .. Len(recvList) /\ i <= Len(recvList)
        \/ i = Len(recvList) + 1 /\ ~(i <= Len(recvList))
    BY <1>3, SMT
  <2>2. i \in Nat
    BY <1>3, SMT
  <2>3. CASE i \in 1 .. Len(recvList) /\ i <= Len(recvList)
    <3>1. PICK e \in Descs : e = recvList[i] /\ e # d /\ recvList'[i] = e
      BY <1>3, <1>4, <2>3
    <3>2. Unread(recvList[i])' = Unread(e)'
      BY <1>5, <2>2, <3>1
    <3>3. Unread(e)' = Unread(e) /\ u[i] = Unread(e)
      BY <2>3, <3>1
    <3> QED BY <2>3, <3>2, <3>3
  <2>4. CASE i = Len(recvList) + 1 /\ ~(i <= Len(recvList))
    <3>1. recvList'[i] = d
      BY <1>3, <2>4
    <3>2. Unread(recvList[i])' = Unread(d)'
      BY <1>5, <2>2, <3>1
    <3> QED BY <2>4, <3>2
  <2> QED BY <2>1, <2>3, <2>4
<1>7. v = [i \in 1 .. Len(recvList) + 1 |-> IF i <= Len(recvList) THEN u[i] ELSE x]
  BY <1>3, <1>6
<1>8. Len(u) = Len(recvList)
  BY <1>3, SMT
<1> HIDE DEF u, v
<1>9. Append(u, x) = [i \in 1 .. Len(recvList) + 1 |-> IF i <= Len(recvList) THEN u[i] ELSE x]
  BY <1>1, <1>3, <1>8, AppendPointwise
<1>10. v = Append(u, x)
  BY <1>7, <1>9
<1>11. FlattenSeq(v) = FlattenSeq(u) \o x
  BY <1>1, <1>10, FlattenAppend
<1> QED BY <1>2, <1>11 DEF Filed, u, v

LEMMA RegroupFiled ==
  ASSUME Inv, NEW x \in Seq(Nat) PROVE (Taken \o Filed) \o x = Taken \o (Filed \o x)
<1>1. Taken \in Seq(Nat) /\ Filed \in Seq(Nat) /\ x \in Seq(Nat)
  BY TakenType, FiledType
<1>2. Regrouped(Taken, Filed, x)
  BY <1>1, Regroup
<1> QED BY <1>2 DEF Regrouped

\* What is put in leaves the rest as it was.
LEMMA ComingGrows ==
  ASSUME Inv, NEW x \in Seq(Nat), received' = received,
         \/ Taken' = Taken /\ Filed' = Filed \o x /\ Parked = <<>> /\ Parked' = <<>>
         \/ Taken' = Taken /\ Filed' = Filed /\ Parked = <<>> /\ Parked' = x
  PROVE  Still \/ Pipe!Put
<1>1. /\ Taken \in Seq(Nat) /\ Filed \in Seq(Nat) /\ Parked \in Seq(Nat)
      /\ Taken \o Filed \in Seq(Nat)
  BY TakenType, FiledType, ParkedType, ConcatProperties
<1>2. Coming = Taken \o Filed
  BY <1>1, ConcatEmptySeq DEF Coming
<1>3. (Taken \o Filed) \o x = Taken \o (Filed \o x)
  BY RegroupFiled
<1>4. Coming' = Coming \o x
  <2>1. CASE Taken' = Taken /\ Filed' = Filed \o x /\ Parked = <<>> /\ Parked' = <<>>
    <3>1. Filed \o x \in Seq(Nat) /\ Taken \o (Filed \o x) \in Seq(Nat)
      BY <1>1, ConcatProperties
    <3>2. Coming' = (Taken \o (Filed \o x)) \o <<>>
      BY <2>1 DEF Coming
    <3>3. (Taken \o (Filed \o x)) \o <<>> = Taken \o (Filed \o x)
      BY <3>1, ConcatEmptySeq
    <3> QED BY <1>2, <1>3, <3>2, <3>3
  <2>2. CASE Taken' = Taken /\ Filed' = Filed /\ Parked = <<>> /\ Parked' = x
    <3>1. Coming' = (Taken \o Filed) \o x
      BY <2>2 DEF Coming
    <3> QED BY <1>2, <3>1
  <2> QED BY <2>1, <2>2
<1>5. CASE x = <<>>
  <2>1. Coming' = Coming
    BY <1>1, <1>2, <1>4, <1>5, ConcatEmptySeq
  <2> QED BY <2>1 DEF Still
<1>6. CASE x # <<>>
  <2>1. Coming \in Seq(Nat)
    BY <1>1, <1>2
  <2>2. Len(Coming') > Len(Coming) /\ SubSeq(Coming', 1, Len(Coming)) = Coming
    BY <1>4, <1>6, <2>1, GrowsAtEnd
  <2> QED BY <2>2 DEF Pipe!Put, Coming
<1> QED BY <1>5, <1>6

(* A read of n bytes of the c that a buffer still has splits them. *)
LEMMA SubSeqSplit ==
  ASSUME NEW s \in Seq(Nat), NEW o \in Nat, NEW c \in Nat, NEW n \in 1 .. c,
         o + c <= Len(s)
  PROVE  /\ SubSeq(s, o + 1, o + n) \in Seq(Nat) /\ SubSeq(s, o + 1, o + n) # <<>>
         /\ SubSeq(s, o + n + 1, o + n + (c - n)) \in Seq(Nat)
         /\ SubSeq(s, o + 1, o + c)
              = SubSeq(s, o + 1, o + n) \o SubSeq(s, o + n + 1, o + n + (c - n))
<1> DEFINE x == SubSeq(s, o + 1, o + n)
           y == SubSeq(s, o + n + 1, o + n + (c - n))
           z == SubSeq(s, o + 1, o + c)
           m == c - n
           p == o + n
<1>1. /\ Len(s) \in Nat /\ n \in Nat /\ n # 0 /\ m \in Nat /\ n + m = c /\ p \in Nat
      /\ p + m <= Len(s) /\ o + n <= Len(s)
  BY SMT
<1>2. /\ x \in Seq(Nat) /\ z \in Seq(Nat)
  BY <1>1, SubSeqNat
<1>3. SubSeq(s, p + 1, p + m) \in Seq(Nat)
  <2> HIDE DEF p, m
  <2> QED BY <1>1, SubSeqNat
<1>4. /\ x = [i \in 1 .. n |-> s[o + i]]
      /\ z = [i \in 1 .. n + m |-> s[o + i]]
  BY <1>1, SMT
<1>5. y = [i \in 1 .. m |-> s[o + n + i]]
  BY <1>1, SMT
<1>6. Len(x) = n /\ Len(y) = m
  BY <1>1, <1>4, <1>5, SMT
<1>7. /\ \A i \in 1 .. n : x[i] = s[o + i]
      /\ \A i \in 1 .. m : y[i] = s[o + n + i]
  BY <1>4, <1>5
<1>8. y \in Seq(Nat)
  BY <1>3
<1> HIDE DEF x, y, z
<1>9. /\ x \o y \in Seq(Nat) /\ Len(x \o y) = n + m
      /\ \A i \in 1 .. n + m : (x \o y)[i] = IF i <= n THEN x[i] ELSE y[i - n]
  <2> HIDE DEF m
  <2>1. /\ x \o y \in Seq(Nat) /\ Len(x \o y) = Len(x) + Len(y)
        /\ \A i \in 1 .. Len(x) + Len(y) :
             (x \o y)[i] = IF i <= Len(x) THEN x[i] ELSE y[i - Len(x)]
    BY <1>2, <1>8, ConcatProperties
  <2> QED BY <1>6, <2>1
<1>10. ASSUME NEW i \in 1 .. n + m PROVE (x \o y)[i] = s[o + i]
  <2>1. CASE i <= n
    <3>1. i \in 1 .. n
      BY <1>1, <2>1, SMT
    <3> QED BY <1>7, <1>9, <2>1, <3>1
  <2>2. CASE ~(i <= n)
    <3>1. i - n \in 1 .. m /\ o + n + (i - n) = o + i
      BY <1>1, <2>2, SMT
    <3> QED BY <1>7, <1>9, <2>2, <3>1
  <2> QED BY <2>1, <2>2
<1>11. x \o y = [i \in 1 .. n + m |-> (x \o y)[i]]
  BY <1>9, LenProperties
<1>12. z = x \o y
  BY <1>4, <1>10, <1>11
<1>13. x # <<>>
  BY <1>1, <1>6, <1>2, EmptySeq
<1> QED BY <1>2, <1>8, <1>12, <1>13 DEF x, y, z

LEMMA NoBytes == \A s \in Seq(Nat), o \in Nat : SubSeq(s, o + 1, o + 0) = <<>>
BY SMT

LEMMA GetReceivedStill == ASSUME Inv, GetReceived PROVE Still
<1>1. UNCHANGED <<mem, buf, cnt, off, state, reqBuf, actual, received>>
  BY DEF GetReceived, usbVars
<1>2. CASE recvList = <<>>
  BY <1>1, <1>2, UnmovedStill DEF GetReceived
<1>3. CASE recvList # <<>>
  <2>1. recvList \in Seq(Descs) /\ held = NoDesc
    BY DEF GetReceived, Inv, TypeInv, Types, Locals
  <2>2. PICK h \in Descs, s \in Seq(Descs) : h = Head(recvList) /\ s = Tail(recvList)
    BY <1>3, <2>1, HeadTailProperties
  <2>3. recvList = <<h>> \o s
    BY <1>3, <2>1, <2>2, SMT
  <2>4. held' = h /\ recvList' = s
    BY <1>3, <2>2 DEF GetReceived
  <2>5. Bytes(s)' = Bytes(s) /\ Unread(h)' = Unread(h)
    BY <1>1 DEF Bytes, Unread
  <2>6. Filed' = Bytes(s)
    BY <1>1, <2>4 DEF Filed, Bytes, Unread
  <2>7. h # NoDesc
    BY RecvAssumption, SMT DEF Descs, NoDesc
  <2>8. Taken' = Unread(h)
    BY <1>1, <2>4, <2>7 DEF Taken, Unread
  <2>9. Filed = Unread(h) \o Bytes(s)
    BY <2>3, BytesFiled, BytesPush
  <2>10. Taken = <<>> /\ Filed \in Seq(Nat)
    BY <2>1, FiledType DEF Taken
  <2>11. Taken \o Filed = Taken' \o Filed'
    <3>1. Taken \o Filed = Filed
      BY <2>10, ConcatEmptySeq
    <3> QED BY <2>6, <2>8, <2>9, <3>1
  <2>12. Parked' = Parked
    BY <1>1 DEF Parked
  <2> QED BY <1>1, <2>11, <2>12 DEF Still, Coming
<1> QED BY <1>2, <1>3

LEMMA GiveBackStill == ASSUME Inv, GiveBack PROVE Still
<1>1. UNCHANGED <<mem, buf, cnt, off, state, reqBuf, actual, received>> /\ held' = NoDesc
  BY DEF GiveBack, usbVars
<1>2. /\ held \in Descs /\ held # NoDesc /\ recvList \in Seq(Descs)
      /\ pc = "free" => cnt[held] = 0
  BY DEF GiveBack, Inv, TypeInv, Types, Locals, Contents
<1>3. Taken' = <<>> /\ Taken = Unread(held) /\ Parked' = Parked
  BY <1>1, <1>2 DEF Taken, Parked
<1>4. Unread(held) \in Seq(Nat) /\ Filed \in Seq(Nat)
  BY <1>2, UnreadType, FiledType
<1>5. CASE pc = "free"
  <2>1. recvList' = recvList /\ cnt[held] = 0
    BY <1>2, <1>5 DEF GiveBack
  <2>2. Filed' = Filed
    BY <1>1, <2>1 DEF Filed, Unread
  <2>3. Unread(held) = <<>>
    <3>1. off[held] \in Nat /\ mem[buf[held]] \in Seq(Nat)
      BY <1>2 DEF Inv, TypeInv, Types
    <3>2. SubSeq(mem[buf[held]], off[held] + 1, off[held] + 0) = <<>>
      BY <3>1, NoBytes
    <3> QED BY <2>1, <3>2 DEF Unread
  <2>4. Taken' = Taken
    BY <1>3, <2>3
  <2> QED BY <1>1, <1>3, <2>2, <2>4 DEF Still, Coming
<1>6. CASE pc # "free"
  <2>1. recvList' = <<held>> \o recvList
    BY <1>6 DEF GiveBack
  <2>2. PICK s \in Seq(Descs) : s = recvList'
    <3>1. <<held>> \o recvList \in Seq(Descs)
      BY <1>2, SMT
    <3> QED BY <2>1, <3>1
  <2>3. Filed' = Bytes(s)
    BY <1>1, <2>2 DEF Filed, Bytes, Unread
  <2>4. Bytes(s) = Unread(held) \o Filed
    BY <1>2, <2>1, <2>2, BytesPush, BytesFiled
  <2>5. Taken' \o Filed' = Taken \o Filed
    <3>1. Filed' \in Seq(Nat)
      BY <1>4, <2>3, <2>4, ConcatProperties
    <3>2. Taken' \o Filed' = Filed'
      BY <1>3, <3>1, ConcatEmptySeq
    <3> QED BY <1>3, <2>3, <2>4, <3>2
  <2> QED BY <1>1, <1>3, <2>5 DEF Still, Coming
<1> QED BY <1>5, <1>6

\* What the caller is given leaves at the front.
LEMMA FrontTaken ==
  ASSUME Inv, NEW x \in Seq(Nat), NEW y \in Seq(Nat), x # <<>>, Taken = x \o y,
         Taken' = y, Filed' = Filed, Parked' = Parked, received' = received \o x
  PROVE  Pipe!Take
<1>1. PICK f \in Seq(Nat), p \in Seq(Nat) : f = Filed /\ p = Parked
  BY FiledType, ParkedType
<1>2. PICK u \in Seq(Nat), v \in Seq(Nat) : u = y \o f /\ v = u \o p
  <2>1. y \o f \in Seq(Nat)
    BY ConcatProperties
  <2>2. (y \o f) \o p \in Seq(Nat)
    BY <2>1, ConcatProperties
  <2> QED BY <2>1, <2>2
<1>3. (x \o y) \o f = x \o (y \o f) /\ (x \o u) \o p = x \o (u \o p)
  <2>1. Regrouped(x, y, f)
    BY Regroup
  <2>2. Regrouped(x, u, p)
    BY Regroup
  <2> QED BY <2>1, <2>2 DEF Regrouped
<1>4. Coming = x \o v /\ Coming' = v
  BY <1>1, <1>2, <1>3 DEF Coming
<1>5. /\ Len(x) \in 1 .. Len(x \o v)
      /\ x = SubSeq(x \o v, 1, Len(x)) /\ v = SubSeq(x \o v, Len(x) + 1, Len(x \o v))
  BY LeavesAtFront
<1> QED BY <1>4, <1>5 DEF Pipe!Take, Coming

LEMMA CopyOutTakes == ASSUME PipeInv, CopyOut PROVE Still \/ Pipe!Take
<1>1. /\ UNCHANGED <<mem, buf, recvList, held, state, reqBuf, actual>>
      /\ held \in Descs /\ held # NoDesc
      /\ remain \in Nat /\ received \in Seq(Nat)
  BY DEF CopyOut, usbVars, PipeInv, Inv, TypeInv, Types, Locals
<1>2. PICK s, o, c :
        /\ s = mem[buf[held]] /\ o = off[held] /\ c = cnt[held]
        /\ s \in Seq(Nat) /\ o \in Nat /\ c \in 0 .. Full
        /\ c = 0 \/ o + c <= Len(s)
  BY <1>1 DEF PipeInv, Inv, TypeInv, Types, Contents, Within
<1>3. c \in Nat
  BY <1>2, RecvAssumption, SMT
<1>4. Parked' = Parked
  BY <1>1 DEF Parked
<1>5. Filed' = Filed
  <2>1. recvList \in Seq(Descs) /\ ~In(held, recvList)
    BY <1>1 DEF PipeInv, Inv, TypeInv, Types, Ownership, Owned
  <2>2. \A e \in Descs : e # held => cnt'[e] = cnt[e] /\ off'[e] = off[e]
    <3>1. PICK k, l : cnt' = [cnt EXCEPT ![held] = k] /\ off' = [off EXCEPT ![held] = l]
      BY DEF CopyOut
    <3>2. cnt \in [Descs -> 0 .. Full] /\ off \in [Descs -> Nat]
      BY DEF PipeInv, Inv, TypeInv, Types
    <3> QED BY <3>1, <3>2
  <2>3. \A i \in 1 .. Len(recvList) : recvList[i] \in Descs /\ recvList[i] # held
    BY <2>1, ElementOfSeq DEF In
  <2>4. \A i \in 1 .. Len(recvList) :
          cnt'[recvList[i]] = cnt[recvList[i]] /\ off'[recvList[i]] = off[recvList[i]]
    BY <2>2, <2>3
  <2>5. ASSUME NEW i \in 1 .. Len(recvList)
        PROVE  Unread(recvList[i])' = Unread(recvList[i])
    <3>1. PICK e : e = recvList[i] /\ e = recvList'[i]
      BY <1>1
    <3>2. cnt'[e] = cnt[e] /\ off'[e] = off[e]
      BY <2>4, <3>1
    <3>3. Unread(e)' = Unread(e)
      BY <1>1, <3>2 DEF Unread
    <3> QED BY <3>1, <3>3 DEF Unread
  <2> QED BY <1>1, <2>5 DEF Filed
<1>6. PICK n \in 0 .. c, o2 \in Nat, c2 \in Nat :
        /\ received' = received \o SubSeq(s, o + 1, o + n)
        /\ off'[held] = o2 /\ cnt'[held] = c2
        /\ n = c => o2 = 0 /\ c2 = 0
        /\ n # c => o2 = o + n /\ c2 = c - n
  <2>1. cnt \in [Descs -> 0 .. Full] /\ off \in [Descs -> Nat]
    BY DEF PipeInv, Inv, TypeInv, Types
  <2>2. CASE remain >= c
    <3>1. /\ received' = received \o SubSeq(s, o + 1, o + c)
          /\ cnt' = [cnt EXCEPT ![held] = 0] /\ off' = [off EXCEPT ![held] = 0]
      BY <1>2, <2>2 DEF CopyOut
    <3>2. cnt'[held] = 0 /\ off'[held] = 0
      BY <1>1, <2>1, <3>1
    <3>3. c \in 0 .. c /\ 0 \in Nat
      BY <1>3, SMT
    <3> QED BY <3>1, <3>2, <3>3
  <2>3. CASE ~(remain >= c)
    <3>1. /\ received' = received \o SubSeq(s, o + 1, o + remain)
          /\ cnt' = [cnt EXCEPT ![held] = c - remain]
          /\ off' = [off EXCEPT ![held] = o + remain]
      BY <1>2, <2>3 DEF CopyOut
    <3>2. cnt'[held] = c - remain /\ off'[held] = o + remain
      BY <1>1, <2>1, <3>1
    <3>3. remain \in 0 .. c /\ remain # c /\ c - remain \in Nat /\ o + remain \in Nat
      BY <1>1, <1>2, <1>3, <2>3, SMT
    <3> QED BY <3>1, <3>2, <3>3
  <2> QED BY <2>2, <2>3
<1>7. /\ Taken = SubSeq(s, o + 1, o + c)
      /\ Taken' = SubSeq(s, o2 + 1, o2 + c2)
  BY <1>1, <1>2, <1>6 DEF Taken, Unread
<1>8. CASE n = 0
  <2>1. SubSeq(s, o + 1, o + n) = <<>>
    <3>1. SubSeq(s, o + 1, o + 0) = <<>>
      BY <1>2, NoBytes
    <3> QED BY <1>8, <3>1
  <2>2. received' = received
    BY <1>1, <1>6, <2>1, ConcatEmptySeq
  <2>3. Taken' = Taken
    <3>1. CASE n = c
      <4>1. c = 0 /\ o2 = 0 /\ c2 = 0
        BY <1>6, <1>8, <3>1
      <4>2. SubSeq(s, o + 1, o + 0) = <<>> /\ SubSeq(s, 0 + 1, 0 + 0) = <<>>
        BY <1>2, NoBytes
      <4> QED BY <1>7, <4>1, <4>2
    <3>2. CASE n # c
      <4>1. o2 = o /\ c2 = c
        BY <1>2, <1>3, <1>6, <1>8, <3>2, SMT
      <4> QED BY <1>7, <4>1
    <3> QED BY <3>1, <3>2
  <2> QED BY <1>4, <1>5, <2>2, <2>3 DEF Still, Coming
<1>9. CASE n # 0
  <2> DEFINE x == SubSeq(s, o + 1, o + n)
             y == SubSeq(s, o + n + 1, o + n + (c - n))
  <2>1. n \in 1 .. c /\ o + c <= Len(s)
    <3>1. n \in 1 .. c /\ c # 0
      BY <1>3, <1>9, SMT
    <3> QED BY <1>2, <3>1
  <2>2. /\ x \in Seq(Nat) /\ x # <<>> /\ y \in Seq(Nat)
        /\ Taken = x \o y
    <3>1. s \in Seq(Nat) /\ o \in Nat /\ c \in Nat
      BY <1>2, <1>3
    <3>2. SubSeq(s, o + 1, o + c) = x \o y /\ x \in Seq(Nat) /\ x # <<>> /\ y \in Seq(Nat)
      BY <2>1, <3>1, SubSeqSplit
    <3> QED BY <1>7, <3>2
  <2>3. Taken' = y
    <3>1. CASE n = c
      <4>1. SubSeq(s, 0 + 1, 0 + 0) = <<>> /\ SubSeq(s, o + n + 1, o + n + 0) = <<>>
        <5>1. o + n \in Nat
          BY <1>2, <1>3, <1>6, SMT
        <5> QED BY <1>2, <5>1, NoBytes
      <4>2. c - n = 0 /\ o2 = 0 /\ c2 = 0
        BY <1>3, <1>6, <3>1, SMT
      <4> QED BY <1>7, <4>1, <4>2
    <3>2. CASE n # c
      BY <1>6, <1>7, <3>2
    <3> QED BY <3>1, <3>2
  <2> HIDE DEF x, y
  <2>4. received' = received \o x
    BY <1>6 DEF x
  <2> QED BY <1>4, <1>5, <2>2, <2>3, <2>4, FrontTaken DEF PipeInv
<1> QED BY <1>8, <1>9

(* The task files the parked bytes: they stay where they were in the order. *)
LEMMA RequeueStill ==
  ASSUME Inv, freeList # <<>>, state = "IDLE", Requeue(TRUE), UNCHANGED <<mem, held, received>>
  PROVE  Still
<1>1. /\ cnt \in [Descs -> 0 .. Full] /\ off \in [Descs -> Nat] /\ buf \in [Descs -> Buffers]
      /\ freeList \in Seq(Descs) /\ NoRepeat(freeList) /\ actual \in 0 .. Full
  BY DEF Inv, TypeInv, Types, Ownership
<1>2. PICK d \in Descs : d = Head(freeList) /\ In(d, freeList)
  BY <1>1, TailFacts
<1>3. /\ off' = [off EXCEPT ![d] = 0] /\ cnt' = [cnt EXCEPT ![d] = actual]
      /\ buf' = [buf EXCEPT ![d] = reqBuf] /\ recvList' = Append(recvList, d)
      /\ state' = "BUSY" /\ mem' = mem
  BY <1>2 DEF Requeue
<1>4. d # held /\ ~In(d, recvList)
  <2>1. d # NoDesc
    BY RecvAssumption, SMT DEF Descs, NoDesc
  <2> QED BY <1>2, <2>1 DEF Inv, Ownership, Owned
<1>5. Unread(d)' = Parked
  <2>1. off'[d] = 0 /\ cnt'[d] = actual /\ buf'[d] = reqBuf
    BY <1>1, <1>3
  <2>2. 0 + 1 = 1 /\ 0 + actual = actual
    BY <1>1, RecvAssumption, SMT
  <2>3. Unread(d)' = SubSeq(mem[reqBuf], 0 + 1, 0 + actual)
    BY <1>3, <2>1 DEF Unread
  <2>4. Parked = SubSeq(mem[reqBuf], 1, actual)
    BY DEF Parked
  <2> QED BY <2>2, <2>3, <2>4
<1>6. \A e \in Descs : e # d => Unread(e)' = Unread(e)
  BY <1>1, <1>3 DEF Unread
<1>7. Parked \in Seq(Nat)
  BY ParkedType
<1>8. Taken' = Taken /\ Filed' = Filed \o Parked
  BY <1>3, <1>4, <1>5, <1>6, <1>7, FiledGrows
<1>9. Parked' = <<>>
  BY <1>3 DEF Parked
<1>10. (Taken \o Filed) \o Parked = Taken \o (Filed \o Parked)
  BY <1>7, RegroupFiled
<1>11. Taken \o (Filed \o Parked) \in Seq(Nat)
  BY <1>7, TakenType, FiledType, ConcatProperties
<1>12. (Taken \o (Filed \o Parked)) \o <<>> = Taken \o (Filed \o Parked)
  BY <1>11, ConcatEmptySeq
<1> QED BY <1>8, <1>9, <1>10, <1>12 DEF Still, Coming

(* What the host sends goes behind everything that waits. *)
LEMMA ReceiveEnters ==
  ASSUME Inv, NEW n \in 0 .. Full, NEW ok \in BOOLEAN, Receive(n, ok)
  PROVE  Still \/ Pipe!Put
<1>1. /\ cnt \in [Descs -> 0 .. Full] /\ off \in [Descs -> Nat] /\ buf \in [Descs -> Buffers]
      /\ freeList \in Seq(Descs) /\ NoRepeat(freeList) /\ recvList \in Seq(Descs)
      /\ reqBuf \in Buffers /\ mem \in [Buffers -> Seq(Nat)] /\ sent \in Nat
      /\ held \in Descs \cup {NoDesc}
      /\ \A e \in Descs : buf[e] # reqBuf
  BY DEF Inv, TypeInv, Types, Ownership
<1>2. PICK x : x = [i \in 1 .. n |-> sent + i]
  OBVIOUS
<1>3. n \in Nat
  BY RecvAssumption, SMT
<1>4. x \in Seq(Nat) /\ SubSeq(x, 1, n) = x
  <2>1. x \in [1 .. n -> Nat]
    BY <1>1, <1>2, SMT
  <2>2. x \in Seq(Nat) /\ Len(x) = n
    BY <1>3, <2>1, SMT
  <2>3. SubSeq(x, 1, n) = [i \in 1 .. n |-> x[i]]
    BY <1>3, <2>2, SMT
  <2> QED BY <2>1, <2>2, <2>3
<1>5. /\ mem' = [mem EXCEPT ![reqBuf] = x] /\ actual' = n
      /\ UNCHANGED <<off, held, received>> /\ queued > 0
  BY <1>2 DEF Receive, callVars
<1>6. Parked = <<>>
  <2>1. state # "IDLE"
    BY <1>5, SMT DEF Inv, IdleMeansParked
  <2> QED BY <2>1 DEF Parked
<1>7. mem'[reqBuf] = x /\ \A e \in Descs : mem'[buf[e]] = mem[buf[e]]
  BY <1>1, <1>5
<1>8. CASE state = "BUSY" /\ n > 0 /\ freeList # <<>>
  <2>1. PICK d \in Descs : d = Head(freeList) /\ In(d, freeList)
    BY <1>1, <1>8, TailFacts
  <2>2. /\ cnt' = [cnt EXCEPT ![d] = n] /\ buf' = [buf EXCEPT ![d] = reqBuf]
        /\ recvList' = Append(recvList, d) /\ state' # "IDLE"
    BY <1>8, <2>1 DEF Receive, FileReceived
  <2>3. d # held /\ ~In(d, recvList) /\ off[d] = 0
    <3>1. d # NoDesc
      BY RecvAssumption, SMT DEF Descs, NoDesc
    <3> QED BY <2>1, <3>1 DEF Inv, Ownership, Owned, Contents
  <2>4. Unread(d)' = x
    <3>1. off'[d] = 0 /\ cnt'[d] = n /\ buf'[d] = reqBuf
      BY <1>1, <1>5, <2>2, <2>3
    <3>2. 0 + 1 = 1 /\ 0 + n = n
      BY <1>3, SMT
    <3> QED BY <1>4, <1>7, <3>1, <3>2 DEF Unread
  <2>5. \A e \in Descs : e # d => Unread(e)' = Unread(e)
    <3> SUFFICES ASSUME NEW e \in Descs, e # d PROVE Unread(e)' = Unread(e)
      OBVIOUS
    <3>1. off'[e] = off[e] /\ cnt'[e] = cnt[e] /\ buf'[e] = buf[e]
      BY <1>1, <1>5, <2>2
    <3>2. mem'[buf'[e]] = mem[buf[e]]
      BY <1>7, <3>1
    <3> QED BY <3>1, <3>2 DEF Unread
  <2>6. Taken' = Taken /\ Filed' = Filed \o x
    BY <1>4, <1>5, <2>2, <2>3, <2>4, <2>5, FiledGrows
  <2>7. Parked' = <<>>
    BY <2>2 DEF Parked
  <2> QED BY <1>4, <1>5, <1>6, <2>6, <2>7, ComingGrows
<1>9. CASE ~(state = "BUSY" /\ n > 0 /\ freeList # <<>>)
  <2>1. /\ UNCHANGED <<recvList, buf, cnt, reqBuf>>
        /\ state' = IF state \in {"BUSY", "LAST_DATA"} THEN "IDLE" ELSE state
    BY <1>9 DEF Receive
  <2>2. \A e \in Descs : Unread(e)' = Unread(e)
    BY <1>5, <1>7, <2>1 DEF Unread
  <2>3. Taken' = Taken
    BY <1>1, <1>5, <2>2 DEF Taken
  <2>4. Filed' = Filed
    <3>1. \A i \in 1 .. Len(recvList) : recvList[i] \in Descs
      BY <1>1, ElementOfSeq
    <3>2. ASSUME NEW i \in 1 .. Len(recvList)
          PROVE  Unread(recvList[i])' = Unread(recvList[i])
      <4>1. PICK e \in Descs : e = recvList[i] /\ e = recvList'[i]
        BY <2>1, <3>1
      <4>2. Unread(recvList[i])' = Unread(e)'
        BY <4>1 DEF Unread
      <4> QED BY <2>2, <4>1, <4>2
    <3> QED BY <2>1, <3>2 DEF Filed
  <2>5. CASE state \in {"BUSY", "LAST_DATA"}
    <3>1. Parked' = x
      BY <1>4, <1>5, <1>7, <2>1, <2>5 DEF Parked
    <3> QED BY <1>4, <1>5, <1>6, <2>3, <2>4, <3>1, ComingGrows
  <2>6. CASE state \notin {"BUSY", "LAST_DATA"}
    <3>1. state # "IDLE"
      BY <1>5, SMT DEF Inv, IdleMeansParked
    <3>2. Parked' = <<>>
      BY <2>1, <2>6, <3>1 DEF Parked
    <3> QED BY <1>5, <1>6, <2>3, <2>4, <3>2 DEF Still, Coming
  <2> QED BY <2>5, <2>6
<1> QED BY <1>8, <1>9

(* A refused request has already cleared req->actual: the parked bytes are forgotten,
   the last ones of all that wait. *)
LEMMA RefusedLoses ==
  ASSUME Inv, freeList # <<>>, Requeue(FALSE), UNCHANGED <<mem, held, received>>
  PROVE  Still \/ Pipe!Lose
<1>1. /\ cnt \in [Descs -> 0 .. Full] /\ off \in [Descs -> Nat] /\ buf \in [Descs -> Buffers]
      /\ freeList \in Seq(Descs) /\ NoRepeat(freeList) /\ recvList \in Seq(Descs)
  BY DEF Inv, TypeInv, Types, Ownership
<1>2. PICK d \in Descs : d = Head(freeList) /\ In(d, freeList)
  BY <1>1, TailFacts
<1>3. /\ off' = [off EXCEPT ![d] = 0] /\ cnt' = [cnt EXCEPT ![d] = 0]
      /\ UNCHANGED <<buf, recvList, state, reqBuf, mem>> /\ actual' = 0
  BY <1>2 DEF Requeue
<1>4. d # held /\ ~In(d, recvList)
  <2>1. d # NoDesc
    BY RecvAssumption, SMT DEF Descs, NoDesc
  <2> QED BY <1>2, <2>1 DEF Inv, Ownership, Owned
<1>5. \A e \in Descs : e # d => Unread(e)' = Unread(e)
  BY <1>1, <1>3 DEF Unread
<1>6. Taken' = Taken
  <2>1. held = NoDesc \/ held \in Descs
    BY DEF Inv, TypeInv, Types
  <2> QED BY <1>4, <1>5, <2>1 DEF Taken
<1>7. Filed' = Filed
  <2>1. \A i \in 1 .. Len(recvList) : recvList[i] \in Descs /\ recvList[i] # d
    BY <1>1, <1>4, ElementOfSeq DEF In
  <2>2. ASSUME NEW i \in 1 .. Len(recvList)
        PROVE  Unread(recvList[i])' = Unread(recvList[i])
    <3>1. PICK e \in Descs : e = recvList[i] /\ e = recvList'[i] /\ e # d
      BY <1>3, <2>1
    <3>2. Unread(recvList[i])' = Unread(e)'
      BY <3>1 DEF Unread
    <3> QED BY <1>5, <3>1, <3>2
  <2> QED BY <1>3, <2>2 DEF Filed
<1>8. Parked' = <<>>
  <2>1. CASE state = "IDLE"
    <3>1. mem[reqBuf] \in Seq(Nat) /\ 0 \in Nat /\ 0 + 1 = 1 /\ 0 + 0 = 0
      BY SMT DEF Inv, TypeInv, Types
    <3>2. SubSeq(mem[reqBuf], 0 + 1, 0 + 0) = <<>>
      BY <3>1, NoBytes
    <3> QED BY <1>3, <2>1, <3>1, <3>2 DEF Parked
  <2>2. CASE state # "IDLE"
    BY <1>3, <2>2 DEF Parked
  <2> QED BY <2>1, <2>2
<1>9. PICK w \in Seq(Nat) : w = Taken \o Filed
  BY TakenType, FiledType, ConcatProperties
<1>10. Coming = w \o Parked /\ Coming' = w
  <2>1. w \o <<>> = w
    BY ConcatEmptySeq
  <2> QED BY <1>6, <1>7, <1>8, <1>9, <2>1 DEF Coming
<1>11. CASE Parked = <<>>
  <2>1. w \o <<>> = w
    BY ConcatEmptySeq
  <2> QED BY <1>10, <1>11, <2>1 DEF Still
<1>12. CASE Parked # <<>>
  <2>1. Parked \in Seq(Nat) /\ Coming = w \o Parked
    BY <1>10, ParkedType
  <2>2. Len(Coming) > Len(w) /\ SubSeq(Coming, 1, Len(w)) = w
    BY <1>12, <2>1, GrowsAtEnd
  <2>3. Coming \in Seq(Nat)
    BY <2>1, ConcatProperties
  <2>4. Len(w) \in Nat /\ Len(Coming) \in Nat
    BY <2>3, LenProperties
  <2>5. Len(w) \in 0 .. Len(Coming) - 1
    BY <2>2, <2>4, SMT
  <2> QED BY <1>10, <2>2, <2>5 DEF Pipe!Lose, Coming
<1> QED BY <1>11, <1>12

LEMMA LossyStep ==
  ASSUME PipeInv, [Next]_vars
  PROVE  /\ Still \/ Pipe!Put \/ Pipe!Take \/ Pipe!Lose
         /\ TaskQueue \subseteq {TRUE} => Still \/ Pipe!Put \/ Pipe!Take
<1>0. Inv
  BY DEF PipeInv
<1>1. ASSUME Kick(TRUE) \/ LastKick(TRUE) PROVE Still
  <2>1. state = "IDLE" /\ UNCHANGED <<mem, held, received>>
    BY <1>0, <1>1 DEF Kick, LastKick, Inv, IdleMeansParked
  <2>2. CASE freeList = <<>>
    <3>1. UNCHANGED <<mem, buf, cnt, off, recvList, held, state, reqBuf, actual, received>>
      BY <1>1, <2>1, <2>2 DEF Kick, LastKick, usbVars, listVars
    <3> QED BY <3>1, UnmovedStill
  <2>3. CASE freeList # <<>>
    <3>1. Requeue(TRUE)
      BY <1>1, <2>3 DEF Kick, LastKick
    <3> QED BY <1>0, <2>1, <2>3, <3>1, RequeueStill
  <2> QED BY <2>2, <2>3
<1>2. ASSUME Call \/ ReadEp \/ ReadStateWhenEmpty \/ CheckState PROVE Still
  <2>1. UNCHANGED <<mem, buf, cnt, off, recvList, held, state, reqBuf, actual, received>>
    BY <1>2 DEF Call, ReadEp, ReadStateWhenEmpty, CheckState, usbVars, listVars
  <2> QED BY <2>1, UnmovedStill
<1>3. ASSUME Configure PROVE Still
  <2>1. /\ UNCHANGED <<mem, buf, cnt, off, recvList, held, received>>
        /\ state # "IDLE" /\ state' # "IDLE"
    BY <1>0, <1>3 DEF Configure, callVars, Inv, IdleMeansParked
  <2>2. Taken' = Taken /\ Filed' = Filed /\ Parked' = Parked
    BY <2>1 DEF Taken, Filed, Unread, Parked
  <2> QED BY <2>1, <2>2 DEF Still, Coming
<1>4. ASSUME UNCHANGED vars PROVE Still
  BY <1>4, UnmovedStill DEF vars, usbVars, listVars, callVars
<1>5. ASSUME NEW n \in 0 .. Full, NEW ok \in IsrQueue, Receive(n, ok)
      PROVE  Still \/ Pipe!Put
  <2>1. ok \in BOOLEAN
    BY RecvAssumption
  <2> QED BY <1>0, <1>5, <2>1, ReceiveEnters
<1>6. ASSUME GetReceived \/ GiveBack PROVE Still
  BY <1>0, <1>6, GetReceivedStill, GiveBackStill
<1>7. ASSUME CopyOut PROVE Still \/ Pipe!Take
  BY <1>7, CopyOutTakes
<1>8. ASSUME Kick(FALSE) \/ LastKick(FALSE) PROVE Still \/ Pipe!Lose
  <2>1. UNCHANGED <<mem, held, received>>
    BY <1>8 DEF Kick, LastKick
  <2>2. CASE freeList = <<>>
    <3>1. UNCHANGED <<mem, buf, cnt, off, recvList, held, state, reqBuf, actual, received>>
      BY <1>8, <2>1, <2>2 DEF Kick, LastKick, usbVars, listVars
    <3> QED BY <3>1, UnmovedStill
  <2>3. CASE freeList # <<>>
    <3>1. Requeue(FALSE)
      BY <1>8, <2>3 DEF Kick, LastKick
    <3> QED BY <1>0, <2>1, <2>3, <3>1, RefusedLoses
  <2> QED BY <2>2, <2>3
<1>9. ASSUME NEW ok \in TaskQueue, Kick(ok) \/ LastKick(ok)
      PROVE  Still \/ Pipe!Lose
  <2>1. ok = TRUE \/ ok = FALSE
    BY RecvAssumption
  <2> QED BY <1>1, <1>8, <1>9, <2>1
<1>10. ASSUME TaskQueue \subseteq {TRUE}, NEW ok \in TaskQueue, Kick(ok) \/ LastKick(ok)
       PROVE  Still
  BY <1>1, <1>10
<1> QED
  BY <1>2, <1>3, <1>4, <1>5, <1>6, <1>7, <1>9, <1>10 DEF Next, Step

LEMMA PipeInit == Init => received \in Seq(Nat) /\ Pipe!Init
<1> SUFFICES ASSUME Init PROVE received \in Seq(Nat) /\ Pipe!Init
  OBVIOUS
<1>1. /\ received = <<>> /\ held = NoDesc /\ state = "UNINITED" /\ recvList = <<>>
  BY DEF Init
<1>2. Taken = <<>> /\ Parked = <<>>
  BY <1>1 DEF Taken, Parked
<1>3. Filed = <<>>
  <2>1. [i \in 1 .. Len(recvList) |-> Unread(recvList[i])] = <<>>
    BY <1>1, SMT
  <2> QED BY <2>1, FlattenEmpty, EmptySeq DEF Filed
<1>4. (<<>> \o <<>>) \o <<>> = <<>>
  BY SMT
<1>5. received \in Seq(Nat)
  BY <1>1, EmptySeq
<1> QED BY <1>1, <1>2, <1>3, <1>4, <1>5 DEF Pipe!Init

LEMMA PipeInvHolds == Spec => []PipeInv
<1>1. Init => received \in Seq(Nat)
  BY PipeInit
<1>2. PipeInv /\ [Next]_vars => (received \in Seq(Nat))'
  BY ReceivedStep DEF PipeInv
<1>3. Inv /\ received \in Seq(Nat) => PipeInv
  BY DEF PipeInv
<1> QED BY InvHolds, <1>1, <1>2, <1>3, PTL DEF Spec

(* The receive path is a FIFO pipe from the host to the shell, for any number and size of
   buffers, through full lists, parked buffers, empty transfers and partial reads, whatever
   the controller answers the interrupt handler, as long as it accepts what the task
   queues: bytes are given to the callers in the order in which the host sent them, each
   once, none lost.  Without the hypothesis the bytes parked in a refused request are. *)
THEOREM PipeRefined == TaskQueue \subseteq {TRUE} /\ Spec => PipeSpec
<1> SUFFICES ASSUME TaskQueue \subseteq {TRUE} PROVE Spec => PipeSpec
  OBVIOUS
<1>1. Init => Pipe!Init
  BY PipeInit
<1>2. PipeInv /\ [Next]_vars => [Pipe!Put \/ Pipe!Take]_<<Coming, received>>
  BY LossyStep DEF Still
<1> QED BY PipeInvHolds, <1>1, <1>2, PTL DEF Spec, PipeSpec, Pipe!Spec, Coming

(* Whatever the controller refuses, to the task or to the interrupt handler: the bytes of a
   parked transfer may be lost, never anything filed before them, and what is given to
   the callers is still in the order in which the host sent it and given once. *)
THEOREM LossyRefined == Spec => Pipe!LossySpec
<1>1. Init => Pipe!Init
  BY PipeInit
<1>2. PipeInv /\ [Next]_vars
        => [Pipe!Put \/ Pipe!Take \/ Pipe!Lose]_<<Coming, received>>
  BY LossyStep DEF Still
<1> QED BY PipeInvHolds, <1>1, <1>2, PTL DEF Spec, Pipe!LossySpec, Coming
=============================================================================
