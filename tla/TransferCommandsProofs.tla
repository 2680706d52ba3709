----------------------- MODULE TransferCommandsProofs -----------------------
(***************************************************************************)
(* The load and upload commands for any number of targets: types, that     *)
(* every way out of a command gives back what it took, and that SUCCESS    *)
(* and FAILED mean what they say.                                          *)
(***************************************************************************)
EXTENDS TransferCommands, TLAPS

(* What a program counter says: which command can be there, and that the lock of the
   file system is held only while the raw flash is written or read back. *)
Course ==
  /\ pc # "idle" => cmd \in Commands
  /\ cmd \in AcmLoads \cup AcmUploads => chan = "usb"
  /\ pc = "item" => cmd = "ota"
  /\ lock = "load" => pc \in {"writing", "verifying"} /\ kind = "raw"

TypeInv == TypeOK /\ Course

LEMMA TypeInit == Init => TypeInv
<1> SUFFICES ASSUME Init PROVE TypeInv
  OBVIOUS
<1>1. target \in Targets
  BY TargetsAssumption, SMT DEF Init, Targets
<1>2. /\ content \in [Targets -> Contents]
      /\ before \in [Targets -> (Contents \ {"new"})]
  BY SMT DEF Init, Contents
<1>3. reach \subseteq Targets /\ off \subseteq Changes /\ heap \subseteq Buffers
      /\ ptrs \subseteq Buffers /\ stray \subseteq Changes \cup Buffers
      /\ leaked \in BOOLEAN
  BY DEF Init
<1>4. TypeOK
  BY <1>1, <1>2, <1>3, SMT DEF Init, TypeOK, Reasons
<1>5. Course
  BY SMT DEF Init, Course, AcmLoads, AcmUploads
<1> QED BY <1>4, <1>5 DEF TypeInv

(* What Begin switches off, takes and assigns has the types of the variables. *)
LEMMA BeginType ==
  ASSUME TypeInv, NEW c \in Commands, NEW t \in Targets,
         NEW hitch \in {"none"} \cup Hitches(c), Begin(c, t, hitch)
  PROVE  TypeInv'
<1> USE TargetsAssumption
<1>1. /\ pc' \in {"transfer", "out", "halted"} /\ cmd' = c /\ cmd' \in Commands
      /\ target' \in Targets /\ reach' \subseteq Targets
      /\ told' = "none" /\ stray' = {} /\ leaked' \in BOOLEAN /\ ret' \in {"ok", "error"}
      /\ mode' = mode /\ lock' = lock
  BY SMT DEF Begin, envVars, Targets
<1>2. kind' \in {"raw", "file", "eeprom"}
  BY SMT DEF Begin
<1>3. why' \in Reasons
  BY SMT DEF Begin, Hitches, Reasons
<1>4. /\ chan' \in {"uart", "usb"}
      /\ cmd' \in AcmLoads \cup AcmUploads => chan' = "usb"
  BY SMT DEF Begin, TypeInv, TypeOK, SerialLoads, SerialUploads, AcmLoads, AcmUploads
<1>5. off' \subseteq Changes
  BY SMT DEF Begin, ChangedFirst, ChangedAll, Irqs, Changes
<1>6. heap' \subseteq Buffers /\ ptrs' \subseteq Buffers
  BY SMT DEF Begin, TakenBefore, Buffers
<1>7. /\ content' \in [Targets -> Contents]
      /\ before' \in [Targets -> (Contents \ {"new"})]
  BY SMT DEF Begin, TypeInv, TypeOK, Contents
<1>8. lock' # "load"
  BY SMT DEF Begin, TypeInv, Course, envVars
<1>9. TypeOK'
  BY <1>1, <1>2, <1>3, <1>4, <1>5, <1>6, <1>7, SMT DEF TypeOK, TypeInv, Commands
<1>10. Course'
  BY <1>1, <1>4, <1>8, SMT DEF Course
<1> QED BY <1>9, <1>10 DEF TypeInv

\* The next item of a package is one of its items.
LEMMA NextItemType ==
  ASSUME target \in Targets, NextItem
  PROVE  target' \in Targets /\ pc' \in {"item", "out"}
  BY TargetsAssumption, SMT DEF NextItem, Targets

LEMMA TypeStep == TypeInv /\ [Next]_vars => TypeInv'
<1> SUFFICES ASSUME TypeInv, [Next]_vars PROVE TypeInv'
  OBVIOUS
<1> USE TargetsAssumption DEF TypeInv
<1>0. TypeOK /\ Course
  OBVIOUS
<1>1. CASE UNCHANGED vars
  BY <1>0, <1>1 DEF vars, envVars, heldVars, historyVars, TypeOK, Course
<1>2. ASSUME NEW c \in Commands, NEW t \in Targets,
             NEW hitch \in {"none"} \cup Hitches(c), Begin(c, t, hitch)
      PROVE  TypeInv'
  BY <1>2, BeginType
<1>3. ASSUME NEW got \in {"nothing", "empty", "plain", "packed"}, Transfer(got) PROVE TypeInv'
  <2>1. /\ pc' \in {"out", "item", "unpack", "write"} /\ ret' \in {"ok", "error"}
        /\ pc' = "item" => cmd = "ota"
        /\ off' \subseteq off /\ cmd \in Commands /\ lock' # "load"
        /\ heap' \subseteq heap /\ leaked' \in BOOLEAN
    BY <1>0, <1>3, SMT DEF Transfer, Fail, TypeOK, Course, envVars
  <2>2. why' \in Reasons
    BY <1>0, <1>3, SMT DEF Transfer, Fail, First, TypeOK, Reasons
  <2>3. UNCHANGED <<mode, lock, content, cmd, target, chan, kind, reach, ptrs, told,
                    before, stray>>
    BY <1>3 DEF Transfer, envVars
  <2> QED BY <1>0, <2>1, <2>2, <2>3, SMT DEF TypeOK, Course
<1>4. ASSUME NEW outcome \in {"nomem", "corrupt", "full", "fits", "large"}, Unpack(outcome)
      PROVE  TypeInv'
  <2>1. /\ pc' \in {"out", "halted", "write"} /\ ret' \in {"ok", "error"}
        /\ cmd \in Commands /\ lock # "load"
    BY <1>0, <1>4, SMT DEF Unpack, Fail, TypeOK, Course
  <2>2. why' \in Reasons
    BY <1>0, <1>4, SMT DEF Unpack, Fail, First, TypeOK, Reasons
  <2>3. heap' \subseteq Buffers /\ ptrs' \subseteq Buffers
    <3>1. /\ heap' \in {heap, heap \cup {"tmp"}, {"tmp"} \cup {}, {"tmp"} \cup heap}
          /\ ptrs' \in {ptrs, ptrs \cup {"tmp"}, {"tmp"} \cup {}, {"tmp"} \cup ptrs}
      BY <1>4 DEF Unpack
    <3> QED BY <1>0, <3>1, SMT DEF TypeOK, Buffers
  <2>4. reach' \subseteq Targets
    BY <1>0, <1>4, SMT DEF Unpack, TypeOK
  <2>5. UNCHANGED <<mode, lock, content, cmd, target, chan, kind, off, told,
                    before, stray, leaked>>
    BY <1>4 DEF Unpack, envVars, historyVars
  <2> QED BY <1>0, <2>1, <2>2, <2>3, <2>4, <2>5, SMT DEF TypeOK, Course
<1>5. CASE StartWrite
  BY <1>0, <1>5, SMT DEF StartWrite, LockRaw, TypeOK, Course, Buffers, Contents, historyVars
<1>6. CASE OpenFails
  BY <1>0, <1>6, SMT DEF OpenFails, Fail, First, TypeOK, Course, Reasons, envVars, heldVars, historyVars
<1>7. ASSUME NEW memory \in BOOLEAN, StartVerify(memory) PROVE TypeInv'
  <2>1. /\ pc = "verify" /\ pc' \in {"verifying", "halted"} /\ (kind = "raw" => pc' = "verifying")
        /\ lock' \in {"none", "load", "other"} /\ (lock' = "load" => kind = "raw")
    BY <1>0, <1>7, SMT DEF StartVerify, LockRaw, TypeOK, Course
  <2>2. heap' \subseteq Buffers /\ ptrs' \subseteq Buffers /\ why' \in Reasons
    BY <1>0, <1>7, SMT DEF StartVerify, TypeOK, Buffers, Reasons
  <2>3. UNCHANGED <<mode, content, cmd, target, ret, chan, kind, reach, off, told, before, stray, leaked>>
    BY <1>7 DEF StartVerify, historyVars
  <2> QED BY <1>0, <2>1, <2>2, <2>3, SMT DEF TypeOK, Course
<1>8. ASSUME NEW outcome \in {"new", "bad", "error"}, EndWrite(outcome) PROVE TypeInv'
  BY <1>0, <1>8, SMT DEF EndWrite, UnlockRaw, Fail, First, TypeOK, Course, Reasons, Contents,
     heldVars, historyVars
<1>9. ASSUME NEW outcome \in {"same", "differs", "error"}, EndVerify(outcome) PROVE TypeInv'
  <2>1. target' \in Targets /\ pc' \in {"item", "out"} /\ (pc' = "item" => cmd = "ota")
    <3>1. NextItem => target' \in Targets /\ pc' \in {"item", "out"}
      BY <1>0, NextItemType DEF TypeOK
    <3> QED BY <1>0, <1>9, <3>1, SMT DEF EndVerify, Fail, TypeOK
  <2>2. heap' \subseteq Buffers /\ ptrs' \subseteq Buffers
    BY <1>0, <1>9, SMT DEF EndVerify, NextItem, TypeOK
  <2>3. why' \in Reasons /\ ret' \in {"ok", "error"}
    BY <1>0, <1>9, SMT DEF EndVerify, Fail, First, TypeOK, Reasons
  <2>4. /\ lock' \in {"none", "load", "other"} /\ lock' # "load" /\ cmd \in Commands
    BY <1>0, <1>9, SMT DEF EndVerify, UnlockRaw, TypeOK, Course
  <2>5. UNCHANGED <<mode, content, cmd, chan, kind, reach, off, told, before, stray, leaked>>
    BY <1>9 DEF EndVerify, historyVars
  <2> QED BY <1>0, <2>1, <2>2, <2>3, <2>4, <2>5, SMT DEF TypeOK, Course
<1>10. ASSUME NEW outcome \in {"md5", "nomem", "corrupt", "refused", "good"}, NEW packed \in BOOLEAN,
              NEW how \in {"raw", "file"}, Item(outcome, packed, how)
       PROVE  TypeInv'
  <2>1. target' \in Targets /\ pc' \in {"item", "out", "write"}
    <3>1. NextItem => target' \in Targets /\ pc' \in {"item", "out"}
      BY <1>0, NextItemType DEF TypeOK
    <3> QED BY <1>0, <1>10, <3>1, SMT DEF Item, Fail, TypeOK
  <2>7. heap' \subseteq Buffers /\ ptrs' \subseteq Buffers
    <3>1. CASE outcome = "md5"
      BY <1>0, <1>10, <3>1, SMT DEF Item, NextItem, TypeOK
    <3>2. CASE outcome # "md5"
      <4>1. /\ heap' \in {heap, heap \ {"tmp"}, heap \cup {"tmp"}}
            /\ ptrs' \in {ptrs, ptrs \ {"tmp"}, ptrs \cup {"tmp"}}
        BY <1>10, <3>2 DEF Item
      <4> QED BY <1>0, <4>1, SMT DEF TypeOK, Buffers
    <3> QED BY <3>1, <3>2
  <2>2. /\ why' \in Reasons /\ ret' \in {"ok", "error"}
        /\ kind' \in {"raw", "file", "eeprom"} /\ leaked' \in BOOLEAN
    BY <1>0, <1>10, SMT DEF Item, Fail, First, TypeOK, Reasons
  <2>3. reach' \subseteq Targets
    BY <1>0, <1>10, SMT DEF Item, TypeOK
  <2>4. /\ pc = "item" /\ cmd = "ota" /\ cmd \in Commands
        /\ UNCHANGED <<mode, lock, content, cmd, chan, off, told, before, stray>>
    BY <1>0, <1>10, SMT DEF Item, Course, envVars
  <2>5. TypeOK'
    BY <1>0, <2>1, <2>2, <2>3, <2>4, <2>7, SMT DEF TypeOK
  <2>6. Course'
    BY <1>0, <2>1, <2>4, SMT DEF Course
  <2> QED BY <2>5, <2>6
<1>11. CASE Out
  BY <1>0, <1>11, SMT DEF Out, GivenBack, Irqs, TypeOK, Course, Changes, Buffers, envVars
<1>12. CASE SwitchConsole
  BY <1>0, <1>12, SMT DEF SwitchConsole, TypeOK, Course, heldVars, historyVars
<1>13. CASE OtherLocks
  BY <1>0, <1>13, SMT DEF OtherLocks, TypeOK, Course, heldVars, historyVars
<1>14. CASE Reset
  <2>1. target' \in Targets
    BY <1>14, SMT DEF Reset, Targets
  <2>2. /\ reach' \subseteq Targets /\ off' \subseteq Changes /\ heap' \subseteq Buffers
        /\ ptrs' \subseteq Buffers /\ stray' \subseteq Changes \cup Buffers
        /\ leaked' \in BOOLEAN
    BY <1>14 DEF Reset
  <2>3. TypeOK'
    BY <1>0, <1>14, <2>1, <2>2, SMT DEF Reset, TypeOK, Reasons
  <2>4. Course'
    BY <1>14, SMT DEF Reset, Course, AcmLoads, AcmUploads
  <2> QED BY <2>3, <2>4
<1> QED
  BY <1>1, <1>2, <1>3, <1>4, <1>5, <1>6, <1>7, <1>8, <1>9, <1>10, <1>11, <1>12, <1>13, <1>14
     DEF Next

(* Every variable keeps its type; the log mode and the lock stay what the other tasks
   and the command make of them. *)
THEOREM TypeCorrect == Spec => []TypeOK
<1>1. TypeInv => TypeOK
  BY DEF TypeInv
<1> QED BY TypeInit, TypeStep, <1>1, PTL DEF Spec

-----------------------------------------------------------------------------
(* What is off while a command transfers, and what is still off when it works on what
   it received: the end gives back exactly that, but for the log, which may be on. *)
Held == {"priority"} \cup ChangedAll(cmd, chan)

Working == {"unpack", "item", "write", "writing", "verify", "verifying"}

NoMemory == cmd \in {"addr", "mem"} /\ why = "nomem"

OffMatches ==
  /\ pc = "idle" => off = {}
  /\ pc = "transfer" => off = Held
  /\ pc \in Working => off = Held \ BackAfter(cmd)
  /\ pc = "out" =>
       /\ off \subseteq GivenBack(cmd)
       /\ GivenBack(cmd) \ off \subseteq {"log"} \/ NoMemory

(* The pointers that are not NULL are those of the buffers, the handle is there during
   the transfer only, and what is lost or given back too often is what Restored names. *)
HeapMatches ==
  /\ ptrs = heap \ {"handle"}
  /\ "handle" \in heap => pc = "transfer"
  /\ pc = "transfer" => why = "none"
  /\ IF pc = "idle" THEN heap = {} ELSE stray = {}
  /\ leaked => \/ cmd = "ota"
               \/ /\ pc \in {"out", "idle"}
                  /\ \/ cmd = "acm_up_part" /\ why = "read"
                     \/ cmd = "acm_up_eeprom" /\ why \in {"none", "empty"}
  /\ stray \subseteq {"log"} \/ (NoMemory /\ stray \subseteq Changes)

Inv == TypeInv /\ OffMatches /\ HeapMatches

LEMMA InvImpliesRestored == Inv => Restored
  BY SMT DEF Inv, TypeInv, Course, OffMatches, HeapMatches, NoMemory, Restored

LEMMA InvInit == Init => Inv
<1> SUFFICES ASSUME Init PROVE Inv
  OBVIOUS
<1>1. TypeInv
  BY TypeInit
<1>2. OffMatches
  BY SMT DEF Init, OffMatches, Working
<1>3. HeapMatches
  BY SMT DEF Init, HeapMatches, NoMemory
<1> QED BY <1>1, <1>2, <1>3 DEF Inv

(* What is off after the transfer, the end gives back, and nothing else but the log. *)
LEMMA LateEnd ==
  ASSUME cmd \in Commands, cmd \in AcmLoads \cup AcmUploads => chan = "usb"
  PROVE  /\ Held \ BackAfter(cmd) \subseteq GivenBack(cmd)
         /\ GivenBack(cmd) \ (Held \ BackAfter(cmd)) \subseteq {"log"}
<1>1. Held \ BackAfter(cmd) \subseteq GivenBack(cmd)
  BY SMT DEF Held, ChangedAll, BackAfter, GivenBack, Irqs, Commands, SerialLoads, AcmLoads,
     Uploads, SerialUploads, AcmUploads
<1>2. GivenBack(cmd) \ (Held \ BackAfter(cmd)) \subseteq {"log"}
  BY SMT DEF Held, ChangedAll, BackAfter, GivenBack, Irqs, Commands, SerialLoads, AcmLoads,
     Uploads, SerialUploads, AcmUploads
<1> QED BY <1>1, <1>2

(* A command that failed before its transfer has changed what its end gives back, but
   for the log; only addr and mem give back what they have not changed. *)
LEMMA BeginRestores ==
  ASSUME Inv, NEW c \in Commands, NEW t \in Targets,
         NEW hitch \in {"none"} \cup Hitches(c), Begin(c, t, hitch)
  PROVE  OffMatches' /\ HeapMatches'
<1>1. cmd' = c /\ why' = hitch /\ stray' = {}
  BY DEF Begin
<1>8. ptrs' = heap' \ {"handle"} /\ ("handle" \in heap' => hitch = "none")
  <2>1. "handle" \notin TakenBefore(c, hitch)
    BY SMT DEF TakenBefore
  <2> QED BY <2>1, SMT DEF Begin
<1>5. leaked' => c = "acm_up_part" /\ hitch = "read"
  BY DEF Begin
<1>6. /\ pc' \in {"transfer", "halted", "out"}
      /\ hitch = "none" <=> pc' = "transfer"
  BY SMT DEF Begin
<1>7. off' = {"priority"} \cup (IF hitch = "none" THEN ChangedAll(c, chan') ELSE ChangedFirst(c, chan'))
  BY DEF Begin
<1>2. cmd' \in AcmLoads \cup AcmUploads => chan' = "usb"
  BY BeginType DEF Inv, TypeInv, Course
<1>3. HeapMatches'
  <2>1. pc' = "transfer" => why' = "none"
    BY <1>1, <1>6
  <2>2. "handle" \in heap' => pc' = "transfer"
    BY <1>6, <1>8
  <2>3. leaked' => cmd' = "acm_up_part" /\ why' = "read" /\ pc' \in {"out", "idle"}
    <3>1. c = "acm_up_part" => pc' \in {"transfer", "out"}
      BY SMT DEF Begin
    <3> QED BY <1>1, <1>5, <1>6, <3>1
  <2>4. pc' # "idle"
    BY <1>6
  <2>5. stray' \subseteq {"log"}
    BY <1>1
  <2> QED BY <1>1, <1>8, <2>1, <2>2, <2>3, <2>4, <2>5 DEF HeapMatches
<1>4. OffMatches'
  <2>1. CASE hitch = "none"
    BY <1>1, <1>6, <1>7, <2>1, SMT DEF OffMatches, Held, Working
  <2>2. CASE hitch # "none"
    <3>1. hitch \in Hitches(c) /\ off' = {"priority"} \cup ChangedFirst(c, chan')
      BY <1>7, <2>2
    <3>2. off' \subseteq GivenBack(c)'
      BY <1>1, <3>1, SMT DEF ChangedFirst, GivenBack, Irqs, Commands, SerialLoads, AcmLoads, Uploads,
         SerialUploads, AcmUploads
    <3>3. c \notin {"addr", "mem"} => GivenBack(c)' \ off' \subseteq {"log"}
      BY <1>1, <1>2, <3>1, SMT DEF ChangedFirst, GivenBack, Irqs, Commands, SerialLoads, AcmLoads,
         Uploads, SerialUploads, AcmUploads, Hitches, Partition
    <3>4. c \in {"addr", "mem"} => hitch = "nomem"
      BY <3>1, SMT DEF Hitches, Partition, Uploads, SerialUploads, AcmUploads
    <3> QED BY <1>1, <1>6, <2>2, <3>2, <3>3, <3>4, SMT DEF OffMatches, NoMemory, Working
  <2> QED BY <2>1, <2>2
<1> QED BY <1>3, <1>4

LEMMA InvStep == Inv /\ [Next]_vars => Inv'
<1> SUFFICES ASSUME Inv, [Next]_vars PROVE Inv'
  OBVIOUS
<1>0. TypeInv /\ TypeOK /\ Course /\ OffMatches /\ HeapMatches
  BY DEF Inv, TypeInv
<1>t. TypeInv'
  BY <1>0, TypeStep
<1> SUFFICES OffMatches' /\ HeapMatches'
  BY <1>t DEF Inv
<1>1. CASE UNCHANGED vars
  BY <1>0, <1>1 DEF vars, envVars, heldVars, historyVars, OffMatches, HeapMatches, NoMemory,
     Held, ChangedAll, BackAfter, GivenBack, Irqs
<1>2. ASSUME NEW c \in Commands, NEW t \in Targets,
             NEW hitch \in {"none"} \cup Hitches(c), Begin(c, t, hitch)
      PROVE  OffMatches' /\ HeapMatches'
  BY <1>2, BeginRestores
  (* What the steps of a command between its transfer and its end have in common. *)
<1>w. ASSUME pc \in Working, UNCHANGED <<cmd, chan, off, stray>>,
             ptrs' = heap', "handle" \notin heap',
             pc' \in Working \cup {"out", "halted"},
             leaked' => cmd = "ota"
      PROVE  OffMatches' /\ HeapMatches'
  <2>1. off' = Held' \ BackAfter(cmd)'
    BY <1>0, <1>w, SMT DEF OffMatches, Held, ChangedAll, BackAfter, Irqs
  <2>2. cmd \in Commands /\ (cmd \in AcmLoads \cup AcmUploads => chan = "usb")
    BY <1>0, <1>w, SMT DEF Course, Working
  <2>3. off' \subseteq GivenBack(cmd)' /\ GivenBack(cmd)' \ off' \subseteq {"log"}
    <3>1. off = Held \ BackAfter(cmd) /\ GivenBack(cmd)' = GivenBack(cmd)
      BY <1>0, <1>w DEF OffMatches, GivenBack, Irqs
    <3> QED BY <1>w, <2>2, <3>1, LateEnd
  <2>4. OffMatches'
    BY <1>w, <2>1, <2>3, SMT DEF OffMatches, Working
  <2>5. HeapMatches'
    BY <1>0, <1>w, SMT DEF HeapMatches, Working
  <2> QED BY <2>4, <2>5
<1>3. ASSUME NEW got \in {"nothing", "empty", "plain", "packed"}, Transfer(got)
      PROVE  OffMatches' /\ HeapMatches'
  <2>1. /\ pc = "transfer" /\ pc' \in {"out", "item", "unpack", "write"}
        /\ off' = off \ BackAfter(cmd)
        /\ heap' = heap \ {"handle"} /\ leaked' = (leaked \/ cmd = "acm_up_eeprom")
        /\ UNCHANGED <<cmd, chan, ptrs, stray>>
    BY <1>3, SMT DEF Transfer, Fail
  <2>2. /\ why = "none" /\ why' \in {"none", "empty"}
        /\ cmd = "acm_up_eeprom" => pc' = "out"
    BY <1>0, <1>3, SMT DEF Transfer, Fail, First, HeapMatches, Uploads, AcmUploads
  <2>3. off' = Held \ BackAfter(cmd)
    BY <1>0, <2>1 DEF OffMatches
  <2>4. /\ Held' = Held /\ BackAfter(cmd)' = BackAfter(cmd)
        /\ GivenBack(cmd)' = GivenBack(cmd)
    BY <2>1 DEF Held, ChangedAll, BackAfter, GivenBack, Irqs
  <2>5. off' \subseteq GivenBack(cmd) /\ GivenBack(cmd) \ off' \subseteq {"log"}
    BY <1>0, <2>1, <2>3, LateEnd DEF Course
  <2>6. OffMatches'
    BY <2>1, <2>3, <2>4, <2>5, SMT DEF OffMatches, Working
  <2>7. HeapMatches'
    <3>1. ptrs' = heap' \ {"handle"} /\ "handle" \notin heap' /\ stray' = {}
      BY <1>0, <2>1 DEF HeapMatches
    <3>2. pc' \notin {"transfer", "idle"} /\ stray' \subseteq {"log"}
      BY <2>1, <3>1
    <3>3. leaked' => cmd' = "ota" \/ (cmd' = "acm_up_eeprom" /\ pc' = "out")
      <4>1. leaked => cmd = "ota"
        BY <1>0, <2>1 DEF HeapMatches
      <4>2. leaked' => leaked \/ cmd = "acm_up_eeprom"
        BY <2>1
      <4> QED BY <2>1, <2>2, <4>1, <4>2
    <3> QED BY <2>2, <3>1, <3>2, <3>3 DEF HeapMatches
  <2> QED BY <2>6, <2>7
<1>4. ASSUME NEW outcome \in {"nomem", "corrupt", "full", "fits", "large"}, Unpack(outcome)
      PROVE  OffMatches' /\ HeapMatches'
  <2>1. /\ pc = "unpack" /\ pc' \in {"out", "halted", "write"}
        /\ UNCHANGED <<cmd, chan, off, stray, leaked>>
        /\ why' = why \/ (why = "none" /\ why' # "none")
    BY <1>4, SMT DEF Unpack, Fail, First, historyVars
  <2>2. ptrs' = heap' /\ "handle" \notin heap'
    BY <1>0, <1>4, SMT DEF Unpack, HeapMatches
  <2> QED BY <1>0, <1>w, <2>1, <2>2, SMT DEF Working, HeapMatches
<1>5. CASE StartWrite
  <2>1. /\ pc = "write" /\ pc' = "writing" /\ ptrs' = heap' /\ "handle" \notin heap'
        /\ UNCHANGED <<cmd, chan, off, stray, leaked, why>>
    BY <1>0, <1>5, SMT DEF StartWrite, HeapMatches, historyVars
  <2> QED BY <1>0, <1>w, <2>1, SMT DEF Working, HeapMatches
<1>6. CASE OpenFails
  <2>1. /\ pc = "write" /\ pc' = "out" /\ ptrs' = heap' /\ "handle" \notin heap'
        /\ UNCHANGED <<cmd, chan, off, stray, leaked>>
        /\ why' = why \/ (why = "none" /\ why' # "none")
    BY <1>0, <1>6, SMT DEF OpenFails, Fail, First, HeapMatches, heldVars, historyVars
  <2> QED BY <1>0, <1>w, <2>1, SMT DEF Working, HeapMatches
<1>7. ASSUME NEW memory \in BOOLEAN, StartVerify(memory) PROVE OffMatches' /\ HeapMatches'
  <2>1. /\ pc = "verify" /\ pc' \in {"verifying", "halted"}
        /\ ptrs' = heap' /\ "handle" \notin heap'
        /\ UNCHANGED <<cmd, chan, off, stray, leaked>>
    BY <1>0, <1>7, SMT DEF StartVerify, HeapMatches, historyVars
  <2> QED BY <1>0, <1>w, <2>1, SMT DEF Working, HeapMatches
<1>8. ASSUME NEW outcome \in {"new", "bad", "error"}, EndWrite(outcome)
      PROVE  OffMatches' /\ HeapMatches'
  <2>1. /\ pc = "writing" /\ pc' \in {"out", "verify"} /\ ptrs' = heap' /\ "handle" \notin heap'
        /\ UNCHANGED <<cmd, chan, off, stray, leaked>>
        /\ why' = why \/ (why = "none" /\ why' # "none")
    BY <1>0, <1>8, SMT DEF EndWrite, Fail, First, HeapMatches, heldVars, historyVars
  <2> QED BY <1>0, <1>w, <2>1, SMT DEF Working, HeapMatches
<1>9. ASSUME NEW outcome \in {"same", "differs", "error"}, EndVerify(outcome)
      PROVE  OffMatches' /\ HeapMatches'
  <2>1. /\ pc = "verifying" /\ pc' \in {"out", "item"} /\ ptrs' = heap' /\ "handle" \notin heap'
        /\ UNCHANGED <<cmd, chan, off, stray, leaked>>
        /\ why' = why \/ (why = "none" /\ why' # "none")
    BY <1>0, <1>9, SMT DEF EndVerify, NextItem, Fail, First, HeapMatches, historyVars
  <2> QED BY <1>0, <1>w, <2>1, SMT DEF Working, HeapMatches
<1>10. ASSUME NEW outcome \in {"md5", "nomem", "corrupt", "refused", "good"}, NEW packed \in BOOLEAN,
              NEW how \in {"raw", "file"}, Item(outcome, packed, how)
       PROVE  OffMatches' /\ HeapMatches'
  <2>1. /\ pc = "item" /\ pc' \in {"item", "out", "write"} /\ cmd = "ota"
        /\ UNCHANGED <<cmd, chan, off, stray>>
    BY <1>0, <1>10, SMT DEF Item, NextItem, Fail, Course
  <2>2. ptrs' = heap' /\ "handle" \notin heap'
    BY <1>0, <1>10, SMT DEF Item, NextItem, HeapMatches
  <2> QED BY <1>0, <1>w, <2>1, <2>2, SMT DEF Working
<1>11. CASE Out
  <2>1. /\ pc = "out" /\ pc' = "idle" /\ UNCHANGED <<cmd, why, leaked>>
        /\ off' = off \ GivenBack(cmd) /\ heap' = heap \ ptrs /\ ptrs' = {}
        /\ stray' = (GivenBack(cmd) \ off) \cup (ptrs \ heap)
    BY <1>11, SMT DEF Out
  <2>2. off' = {} /\ OffMatches'
    BY <1>0, <2>1, SMT DEF OffMatches, Working
  <2>3. heap' = {} /\ stray' = GivenBack(cmd) \ off
    BY <1>0, <2>1, SMT DEF HeapMatches
  <2>4. GivenBack(cmd) \subseteq Changes
    BY SMT DEF GivenBack, Irqs, Changes
  <2>5. stray' \subseteq {"log"} \/ (NoMemory' /\ stray' \subseteq Changes)
    BY <1>0, <2>1, <2>3, <2>4, SMT DEF OffMatches, NoMemory
  <2> QED BY <1>0, <2>1, <2>2, <2>3, <2>5, SMT DEF HeapMatches
<1>12. CASE SwitchConsole
  BY <1>0, <1>12 DEF SwitchConsole, heldVars, historyVars, OffMatches, HeapMatches, NoMemory,
     Held, ChangedAll, BackAfter, GivenBack, Irqs
<1>13. CASE OtherLocks
  BY <1>0, <1>13 DEF OtherLocks, heldVars, historyVars, OffMatches, HeapMatches, NoMemory,
     Held, ChangedAll, BackAfter, GivenBack, Irqs
<1>14. CASE Reset
  <2>1. OffMatches'
    BY <1>14, SMT DEF Reset, OffMatches, Working
  <2>2. HeapMatches'
    BY <1>14, SMT DEF Reset, HeapMatches, NoMemory
  <2> QED BY <2>1, <2>2
<1> QED
  BY <1>1, <1>2, <1>3, <1>4, <1>5, <1>6, <1>7, <1>8, <1>9, <1>10, <1>11, <1>12, <1>13, <1>14
     DEF Next

(* Whatever way a command ends on, it has given back what it took; what is given back
   too often or lost is named in Restored. *)
THEOREM RestoredHolds == Spec => []Restored
  BY InvInit, InvStep, InvImpliesRestored, PTL DEF Spec

-----------------------------------------------------------------------------
(* The way to SUCCESS: which targets a package has done, which the data in hand will
   cover, and that everything else is as it was. *)
Done == IF cmd = "ota" THEN 1 .. target - 1 ELSE {}

Files == {"file", "acm_file", "ota"}

Started == {"writing", "verify", "verifying"}

OthersAsBefore ==
  \A t \in Targets :
    t \notin Done /\ (pc \in Started => t \notin reach) => content[t] = before[t]

\* What may have become of a target whose item is done, when w went wrong.
Left(t, w) ==
  \/ content[t] = "new"
  \/ w \in {"md5", "null"} /\ content[t] = before[t]
  \/ w = "null" /\ content[t] \in {"bad", "empty"}

DoneHold == \A t \in Done : Left(t, why)

InHand ==
  /\ pc # "item" => target \in reach /\ reach \cap Done = {} /\ (why # "spill" => reach = {target})
  /\ pc # "transfer" => cmd \notin Uploads \cup {"mem"}
  /\ kind = "file" => cmd \in Files

WrittenAlike ==
  pc \in {"verify", "verifying"} =>
    \/ \A t \in reach : content[t] = "new"
    \/ \A t \in reach : content[t] = "bad"
    \/ why \in {"empty", "null"} /\ \A t \in reach : content[t] = "empty"

\* A file without a buffer to read it back is known.
Missed == pc = "verifying" /\ kind = "file" /\ "read" \notin heap => why = "null"

(* What has gone wrong so far and was passed over: a skipped item, an empty transfer, a
   file that goes on into the next partition or could not be read back. *)
SoFar ==
  /\ pc \in {"transfer", "unpack"} => why = "none"
  /\ cmd = "ota" => why \in {"none", "md5", "null"}
  /\ cmd = "file" => why \in {"none", "null"}
  /\ cmd = "acm_file" => why \in {"none", "empty", "null"}
  /\ cmd \in Partition => why \in {"none", "spill"}
  /\ cmd \notin Partition \cup Files => why = "none"

Progress ==
  /\ ret = "ok" /\ cmd \in Commands
  /\ OthersAsBefore /\ DoneHold /\ InHand /\ WrittenAlike /\ Missed /\ SoFar

Outcome(result) ==
  /\ result = "failed" => why # "none"
  /\ result = "success" /\ why # "none" =>
       /\ <<cmd, why>> \in Silent
       /\ \A t \in Targets :
            \/ content[t] \in {"new", before[t]}
            \/ <<cmd, why>> \in Unverified /\ content[t] \in {"bad", "empty"}
  /\ result = "success" /\ why = "none" =>
       content = [t \in Targets |-> IF t \in Wanted THEN "new" ELSE before[t]]

Result == IF ret = "error" THEN "failed" ELSE "success"

ReportInv ==
  /\ pc \in {"transfer"} \cup Working => Progress
  /\ pc = "out" => Outcome(Result)
  /\ pc = "idle" => Outcome(told)
  /\ pc # "idle" => told = "none"

LEMMA ReportImpliesSuccess == ReportInv => SuccessHolds
  BY SMT DEF ReportInv, Outcome, SuccessHolds

LEMMA SilentPairs ==
  /\ \A c \in {"addr", "mem"}, r \in {"nomem", "empty"} : <<c, r>> \in Silent
  /\ \A r \in {"noname", "open"} : <<"acm_up_file", r>> \in Silent
  /\ \A c \in AcmUploads : <<c, "empty">> \in Silent
  /\ \A c \in Partition : <<c, "spill">> \in Silent
  /\ \A r \in {"md5", "nomem", "corrupt"} : <<"ota", r>> \in Silent
<1>1. \A c \in {"addr", "mem"}, r \in {"nomem", "empty"} : <<c, r>> \in Silent
  BY SMT DEF Silent, Harmless
<1>2. \A r \in {"noname", "open"} : <<"acm_up_file", r>> \in Silent
  BY SMT DEF Silent, Harmless
<1>3. \A c \in AcmUploads : <<c, "empty">> \in Silent
  BY SMT DEF Silent, Harmless
<1>4. \A c \in Partition : <<c, "spill">> \in Silent
  BY SMT DEF Silent, Harmless
<1>5. \A r \in {"md5", "nomem", "corrupt"} : <<"ota", r>> \in Silent
  BY SMT DEF Silent, Harmless
<1> QED BY <1>1, <1>2, <1>3, <1>4, <1>5

LEMMA UnverifiedPairs ==
  /\ <<"file", "differs">> \in Unverified /\ <<"acm_file", "empty">> \in Unverified
  /\ \A c \in Files : <<c, "null">> \in Unverified
  /\ Unverified \subseteq Silent
<1>1. <<"file", "differs">> \in Unverified /\ <<"acm_file", "empty">> \in Unverified
  BY SMT DEF Unverified
<1>2. \A c \in Files : <<c, "null">> \in Unverified
  BY SMT DEF Unverified, Files
<1>3. Unverified \subseteq Silent
  BY DEF Silent
<1> QED BY <1>1, <1>2, <1>3

LEMMA ReportInit == Init => ReportInv
  BY SMT DEF Init, ReportInv, Outcome, Working

LEMMA BeginReports ==
  ASSUME TypeInv, NEW c \in Commands, NEW t \in Targets,
         NEW hitch \in {"none"} \cup Hitches(c), Begin(c, t, hitch)
  PROVE  ReportInv'
<1>1. /\ cmd' = c /\ why' = hitch /\ content' = before' /\ told' = "none"
      /\ cmd' = "ota" => target' = 1
      /\ reach' = {target'}
  BY DEF Begin
<1>2. /\ pc' \in {"transfer", "halted", "out"}
      /\ hitch = "none" <=> pc' = "transfer"
      /\ hitch = "none" => ret' = "ok"
  BY SMT DEF Begin
<1>3. ret' = "ok" /\ hitch # "none" => \/ c \in {"addr", "mem"}
                                       \/ c = "acm_up_file" /\ hitch \in {"noname", "open"}
  BY SMT DEF Begin
<1>4. Done' = {}
  BY <1>1, SMT DEF Done
<1>7. kind' = "file" => c \in Files
  BY SMT DEF Begin, Files
<1>5. pc' = "transfer" => Progress'
  <2>1. OthersAsBefore' /\ DoneHold'
    BY <1>1, <1>4, SMT DEF OthersAsBefore, DoneHold
  <2>2. pc' = "transfer" => InHand' /\ WrittenAlike' /\ Missed' /\ SoFar'
    BY <1>1, <1>2, <1>4, <1>7, SMT DEF InHand, WrittenAlike, Missed, SoFar, Started
  <2> QED BY <1>1, <1>2, <2>1, <2>2 DEF Progress
<1>6. pc' = "out" => Outcome(Result)'
  <2> SUFFICES ASSUME pc' = "out" PROVE Outcome(Result)'
    OBVIOUS
  <2>1. why' # "none"
    BY <1>1, <1>2
  <2>2. \A u \in Targets : content'[u] = before'[u]
    BY <1>1
  <2>3. c \in {"addr", "mem"} => hitch = "nomem"
    BY <1>1, <2>1, SMT DEF Hitches, Partition, Uploads, SerialUploads, AcmUploads
  <2>4. Result' = "success" => <<cmd', why'>> \in Silent
    <3>1. Result' = "success" => ret' # "error"
      BY SMT DEF Result
    <3>2. ret' \in {"ok", "error"}
      BY BeginType DEF TypeInv, TypeOK
    <3>3. Result' = "success" => \/ cmd' \in {"addr", "mem"} /\ why' = "nomem"
                                 \/ cmd' = "acm_up_file" /\ why' \in {"noname", "open"}
      BY <1>1, <1>2, <1>3, <2>1, <2>3, <3>1, <3>2
    <3> QED BY <3>3, SilentPairs, SMT
  <2> QED BY <2>1, <2>2, <2>4, SMT DEF Outcome
<1> QED BY <1>1, <1>2, <1>5, <1>6, SMT DEF ReportInv, Working

LEMMA DoneAreTargets == target \in Targets => Done \subseteq Targets
  BY TargetsAssumption, SMT DEF Done, Targets

\* The item in hand is written or was skipped: so are all, if it was the last.
LEMMA NextItemReports ==
  ASSUME TypeOK, Progress, cmd = "ota", told = "none", NextItem,
         ret' = ret, why' \in {"none", "md5", "null"}, why # "none" => why' = why,
         Left(target, why'),
         \A t \in Targets : t \notin Done /\ t # target => content[t] = before[t],
         kind' = "file" => cmd \in Files,
         UNCHANGED <<content, cmd, told, before>>
  PROVE  ReportInv'
<1>1. \A t \in Done \cup {target} : Left(t, why')
  BY SMT DEF Progress, DoneHold, Left
<1>2. CASE target < NTargets
  <2>1. target' = target + 1 /\ pc' = "item"
    BY <1>2 DEF NextItem
  <2>2. Done' = Done \cup {target}
    BY <2>1, SMT DEF Done, TypeOK, Targets
  <2>3. OthersAsBefore' /\ DoneHold'
    BY <1>1, <2>1, <2>2, SMT DEF OthersAsBefore, DoneHold, Left
  <2>4. InHand' /\ WrittenAlike' /\ Missed' /\ SoFar'
    BY <2>1, SMT DEF InHand, WrittenAlike, Missed, SoFar, Files, Partition, Uploads, SerialUploads,
       AcmUploads
  <2> QED BY <2>1, <2>3, <2>4, SMT DEF Progress, ReportInv, Working
<1>3. CASE ~(target < NTargets)
  <2>1. pc' = "out" /\ ret' = "ok"
    BY <1>3, SMT DEF NextItem, Progress
  <2>2. Targets \subseteq Done \cup {target}
    BY <1>3, TargetsAssumption, SMT DEF Done, TypeOK, Targets
  <2>3. CASE why' = "none"
    <3>1. \A t \in Targets : content'[t] = "new"
      BY <1>1, <2>2, <2>3, SMT DEF Left
    <3>2. Wanted' = Targets
      BY DEF Wanted
    <3>3. content' = [t \in Targets |-> IF t \in Wanted' THEN "new" ELSE before'[t]]
      BY <3>1, <3>2, SMT DEF TypeOK
    <3> QED BY <2>1, <2>3, <3>3, SMT DEF Outcome, Result, ReportInv, Working
  <2>4. CASE why' = "md5"
    <3>1. <<cmd', why'>> \in Silent
      BY <2>4, SilentPairs
    <3>2. \A t \in Targets : content'[t] \in {"new", before'[t]}
      BY <1>1, <2>2, <2>4, SMT DEF Left
    <3> QED BY <2>1, <2>4, <3>1, <3>2, SMT DEF Outcome, Result, ReportInv, Working
  <2>5. CASE why' = "null"
    <3>1. <<cmd', why'>> \in Unverified /\ <<cmd', why'>> \in Silent
      BY <2>5, UnverifiedPairs DEF Files
    <3>2. \A t \in Targets : content'[t] \in {"new", before'[t], "bad", "empty"}
      BY <1>1, <2>2, <2>5, SMT DEF Left
    <3> QED BY <2>1, <2>5, <3>1, <3>2, SMT DEF Outcome, Result, ReportInv, Working
  <2> QED BY <2>3, <2>4, <2>5
<1> QED BY <1>2, <1>3

\* What is read back is right, for all that was written; NextItem has one item more.
LEMMA VerifyReports ==
  ASSUME TypeInv, ReportInv, NEW outcome \in {"same", "differs", "error"}, EndVerify(outcome)
  PROVE  ReportInv'
<1>0. TypeOK /\ Course
  BY DEF TypeInv
<1>1. /\ pc = "verifying" /\ Progress /\ told = "none"
      /\ UNCHANGED <<content, cmd, reach, told, before>>
  BY SMT DEF EndVerify, ReportInv, Working, historyVars
<1>2. CASE outcome = "error"
  <2>1. pc' = "out" /\ ret' = "error" /\ why' # "none"
    BY <1>2, SMT DEF EndVerify, Fail, First
  <2> QED BY <1>1, <2>1, SMT DEF ReportInv, Working, Outcome, Result
<1>5. \A t \in Targets : t \notin Done /\ t \notin reach => content[t] = before[t]
  BY <1>1, SMT DEF Progress, OthersAsBefore, Started
<1>6. \A t \in reach : content[t] \in {"new", "bad", "empty"}
  BY <1>1, SMT DEF Progress, WrittenAlike
<1>3. CASE outcome = "differs"
  <2>1. /\ pc' = "out" /\ why' = First("differs")
        /\ ret' = IF cmd = "file" THEN "ok" ELSE "error"
    BY <1>3, SMT DEF EndVerify, Fail
  <2>2. why' # "none" /\ (cmd = "file" => why' \in {"differs", "null"})
    BY <1>1, <2>1, SMT DEF First, Progress, SoFar, Partition
  <2>3. cmd = "file" => <<cmd', why'>> \in Unverified /\ <<cmd', why'>> \in Silent
    BY <1>1, <2>2, UnverifiedPairs DEF Files
  <2>4. cmd = "file" => Done = {}
    BY SMT DEF Done
  <2>5. Outcome(Result)'
    BY <1>1, <1>5, <1>6, <2>1, <2>2, <2>3, <2>4, SMT DEF Outcome, Result
  <2> QED BY <1>1, <2>1, <2>5, SMT DEF ReportInv, Working
<1>4. CASE outcome = "same"
  <2>1. ret' = ret /\ why' = why
    BY <1>4, SMT DEF EndVerify
  <2>2. why \notin {"empty", "null"} => \A t \in reach : content[t] = "new"
    <3> SUFFICES ASSUME why \notin {"empty", "null"} PROVE \A t \in reach : content[t] = "new"
      OBVIOUS
    <3>1. ~(kind = "file" /\ "read" \notin heap)
      BY <1>1, SMT DEF Progress, Missed
    <3>2. ~ \E t \in reach : content[t] = "bad"
      BY <1>4, <3>1, SMT DEF EndVerify, Compared
    <3>3. target \in reach
      BY <1>1, SMT DEF Progress, InHand
    <3> QED BY <1>1, <3>2, <3>3, SMT DEF Progress, WrittenAlike
  <2>4. CASE cmd = "ota"
    <3>1. NextItem /\ reach = {target} /\ why \in {"none", "md5", "null"} /\ kind' = kind
      BY <1>1, <1>4, <2>4, SMT DEF EndVerify, Progress, InHand, SoFar
    <3>2. Left(target, why')
      BY <1>6, <2>1, <2>2, <3>1, SMT DEF Left
    <3>3. \A t \in Targets : t \notin Done /\ t # target => content[t] = before[t]
      BY <1>5, <3>1
    <3> QED BY <1>0, <1>1, <2>1, <2>4, <3>1, <3>2, <3>3, NextItemReports DEF Files
  <2>5. CASE cmd # "ota"
    <3>1. pc' = "out" /\ UNCHANGED target /\ Done = {} /\ ret' = "ok"
      BY <1>1, <1>4, <2>5, SMT DEF EndVerify, Done, Progress
    <3>3. CASE why = "none"
      <4>1. reach = {target} /\ Wanted' = {target}
        BY <1>1, <2>5, <3>1, <3>3, SMT DEF Progress, InHand, Wanted
      <4>2. content' = [t \in Targets |-> IF t \in Wanted' THEN "new" ELSE before'[t]]
        BY <1>0, <1>1, <1>5, <2>2, <3>1, <3>3, <4>1, SMT DEF TypeOK
      <4> QED BY <1>1, <2>1, <3>1, <3>3, <4>2, SMT DEF Outcome, Result, ReportInv, Working
    <3>4. CASE why = "spill"
      <4>1. cmd \in Partition
        BY <1>1, <2>5, <3>4, SMT DEF Progress, SoFar, Files
      <4>2. <<cmd', why'>> \in Silent
        BY <1>1, <2>1, <3>4, <4>1, SilentPairs
      <4>3. \A t \in Targets : content[t] \in {"new", before[t]}
        BY <1>5, <2>2, <3>1, <3>4
      <4> QED BY <1>1, <2>1, <3>1, <3>4, <4>2, <4>3, SMT DEF Outcome, Result, ReportInv, Working
    <3>5. CASE why \notin {"none", "spill"}
      <4>1. <<cmd, why>> \in Unverified
        <5>1. \/ cmd = "acm_file" /\ why = "empty"
              \/ cmd \in Files /\ why = "null"
          BY <1>1, <2>5, <3>5, SMT DEF Progress, SoFar, Files
        <5> QED BY <5>1, UnverifiedPairs
      <4>2. <<cmd', why'>> \in Unverified /\ <<cmd', why'>> \in Silent
        BY <1>1, <2>1, <4>1, UnverifiedPairs
      <4>3. \A t \in Targets : content[t] \in {"new", before[t], "bad", "empty"}
        BY <1>5, <1>6, <3>1
      <4> QED BY <1>1, <2>1, <3>1, <3>5, <4>2, <4>3, SMT DEF Outcome, Result, ReportInv, Working
    <3> QED BY <3>3, <3>4, <3>5
  <2> QED BY <2>4, <2>5
<1> QED BY <1>2, <1>3, <1>4

LEMMA ItemReports ==
  ASSUME TypeInv, ReportInv, NEW outcome \in {"md5", "nomem", "corrupt", "refused", "good"},
         NEW packed \in BOOLEAN, NEW how \in {"raw", "file"}, Item(outcome, packed, how)
  PROVE  ReportInv'
<1>0. TypeOK /\ Course
  BY DEF TypeInv
<1>1. /\ pc = "item" /\ Progress /\ told = "none" /\ cmd = "ota" /\ why \in {"none", "md5", "null"}
      /\ UNCHANGED <<content, cmd, told, before>>
  BY <1>0, SMT DEF Item, ReportInv, Working, Course, Progress, SoFar
<1>2. \A t \in Targets : t \notin Done => content[t] = before[t]
  BY <1>1, SMT DEF Progress, OthersAsBefore, Started
<1>3. CASE outcome = "md5"
  <2>1. NextItem /\ why' \in {"md5", "null"} /\ (why # "none" => why' = why) /\ ret' = ret
    BY <1>1, <1>3, SMT DEF Item, First
  <2>2. target \notin Done
    BY <1>0, SMT DEF Done, TypeOK, Targets
  <2>3. Left(target, why')
    BY <1>0, <1>2, <2>1, <2>2 DEF TypeOK, Left
  <2> QED BY <1>0, <1>1, <1>2, <2>1, <2>3, NextItemReports DEF Files
<1>4. CASE outcome = "good"
  <2>1. /\ pc' = "write" /\ reach' = {target} /\ Done' = Done
        /\ UNCHANGED <<ret, why, target>>
    BY <1>1, <1>4, SMT DEF Item, Done
  <2>2. target \notin Done
    BY <1>0, SMT DEF Done, TypeOK, Targets
  <2>3. OthersAsBefore' /\ DoneHold' /\ InHand'
    BY <1>1, <2>1, <2>2, SMT DEF Progress, OthersAsBefore, DoneHold, Left, InHand, Files, Started
  <2>4. WrittenAlike' /\ Missed' /\ SoFar'
    BY <1>1, <2>1, SMT DEF Progress, WrittenAlike, Missed, SoFar
  <2> QED BY <1>1, <2>1, <2>3, <2>4, SMT DEF Progress, ReportInv, Working
<1>5. CASE outcome \notin {"md5", "good"}
  <2>1. /\ pc' = "out" /\ why' = First(outcome)
        /\ ret' = IF outcome = "refused" THEN "error" ELSE "ok"
    BY <1>5, SMT DEF Item, Fail
  <2>2. why' # "none" /\ (outcome # "refused" => why' \in {"md5", "nomem", "corrupt", "null"})
    BY <1>1, <1>5, <2>1, SMT DEF First
  <2>3. outcome # "refused" => <<cmd', why'>> \in Silent
    BY <1>1, <2>2, SilentPairs, UnverifiedPairs DEF Files
  <2>4. why' = "null" => <<cmd', why'>> \in Unverified
    BY <1>1, UnverifiedPairs DEF Files
  <2>5. \A t \in Targets : \/ content[t] \in {"new", before[t]}
                           \/ why = "null" /\ content[t] \in {"bad", "empty"}
    BY <1>1, <1>2, SMT DEF Progress, DoneHold, Left
  <2>6. why = "null" => why' = "null"
    BY <2>1 DEF First
  <2>7. Outcome(Result)'
    BY <1>1, <2>1, <2>2, <2>3, <2>4, <2>5, <2>6, SMT DEF Outcome, Result
  <2> QED BY <1>1, <2>1, <2>7, SMT DEF ReportInv, Working
<1> QED BY <1>3, <1>4, <1>5

LEMMA ReportStep == TypeInv /\ ReportInv /\ [Next]_vars => ReportInv'
<1> SUFFICES ASSUME TypeInv, ReportInv, [Next]_vars PROVE ReportInv'
  OBVIOUS
<1>0. TypeOK /\ Course
  BY DEF TypeInv
<1>1. CASE UNCHANGED vars
  BY <1>1 DEF vars, envVars, heldVars, historyVars, ReportInv, Progress, OthersAsBefore, DoneHold,
     Left, InHand, WrittenAlike, Missed, SoFar, Done, Outcome, Result, Wanted
<1>2. ASSUME NEW c \in Commands, NEW t \in Targets,
             NEW hitch \in {"none"} \cup Hitches(c), Begin(c, t, hitch)
      PROVE  ReportInv'
  BY <1>2, BeginReports
<1>3. ASSUME NEW got \in {"nothing", "empty", "plain", "packed"}, Transfer(got) PROVE ReportInv'
  <2>1. /\ pc = "transfer" /\ Progress /\ told = "none" /\ why = "none"
        /\ UNCHANGED <<content, cmd, target, chan, kind, reach, told, before>>
    BY <1>3, SMT DEF Transfer, ReportInv, Progress, SoFar
  <2>2. pc' \in {"out", "unpack", "item", "write"}
    BY <1>3, SMT DEF Transfer, Fail
  <2>3. CASE got = "nothing"
    <3>1. /\ pc' = "out" /\ why' = "empty"
          /\ ret' = IF cmd \in {"addr", "mem"} THEN "ok" ELSE "error"
      BY <1>3, <2>1, <2>3, SMT DEF Transfer, Fail, First
    <3>2. Result' = "success" => cmd \in {"addr", "mem"}
      BY <3>1, SMT DEF Result
    <3>3. cmd \in {"addr", "mem"} => \A t \in Targets : content'[t] = before'[t]
      BY <2>1, SMT DEF Progress, OthersAsBefore, Done, Started
    <3>4. cmd \in {"addr", "mem"} => <<cmd', why'>> \in Silent
      BY <2>1, <3>1, SilentPairs, SMT
    <3>5. Outcome(Result)'
      BY <2>1, <3>1, <3>2, <3>3, <3>4, SMT DEF Outcome
    <3> QED BY <2>1, <3>1, <3>5, SMT DEF ReportInv, Working
  <2>4. CASE got # "nothing" /\ cmd \in Uploads \cup {"mem"}
    <3>1. /\ pc' = "out" /\ ret' = "ok"
          /\ why' = IF got = "empty" THEN "empty" ELSE "none"
      BY <1>3, <2>1, <2>4, SMT DEF Transfer, Progress, First
    <3>2. cmd # "ota" /\ cmd # "acm_file"
      BY <2>4, SMT DEF Uploads, SerialUploads, AcmUploads
    <3>3. \A t \in Targets : content[t] = before[t]
      BY <2>1, <3>2, SMT DEF Progress, OthersAsBefore, Done, Started
    <3>4. Wanted' = {}
      BY <2>1, <2>4, <3>2 DEF Wanted
    <3>5. content' = [t \in Targets |-> IF t \in Wanted' THEN "new" ELSE before'[t]]
      BY <1>0, <2>1, <3>3, <3>4, SMT DEF TypeOK
    <3>6. got = "empty" => <<cmd', why'>> \in Silent
      <4>1. got = "empty" => cmd \in AcmUploads
        BY <1>3, <3>2 DEF Transfer
      <4> QED BY <2>1, <3>1, <4>1, SilentPairs
    <3>7. Outcome(Result)'
      BY <2>1, <3>1, <3>3, <3>5, <3>6, SMT DEF Outcome, Result
    <3> QED BY <2>1, <3>1, <3>7, SMT DEF ReportInv, Working
  <2>5. CASE got # "nothing" /\ cmd \notin Uploads \cup {"mem"}
    <3>1. /\ pc' \in {"unpack", "item", "write"} /\ ret' = ret
          /\ why' = why \/ (why' = "empty" /\ cmd = "acm_file" /\ pc' = "write")
      BY <1>3, <2>1, <2>5, SMT DEF Transfer, First, Uploads
    <3>2. Done' = Done /\ (pc' = "item" <=> cmd = "ota")
      BY <1>3, <2>1, <2>5, SMT DEF Transfer, Done, Partition
    <3>3. OthersAsBefore' /\ DoneHold'
      BY <2>1, <2>2, <3>1, <3>2, SMT DEF Progress, OthersAsBefore, DoneHold, Left, Done, Started
    <3>4. InHand' /\ WrittenAlike' /\ Missed' /\ SoFar'
      BY <2>1, <2>2, <2>5, <3>1, <3>2, SMT DEF Progress, InHand, WrittenAlike, Missed, SoFar, Started,
         Partition, Files
    <3> QED BY <2>1, <3>1, <3>3, <3>4, SMT DEF Progress, ReportInv, Working
  <2> QED BY <2>3, <2>4, <2>5
<1>4. ASSUME NEW outcome \in {"nomem", "corrupt", "full", "fits", "large"}, Unpack(outcome)
      PROVE  ReportInv'
  <2>1. /\ pc = "unpack" /\ Progress /\ told = "none" /\ why = "none"
        /\ UNCHANGED <<content, cmd, target, kind, told, before>>
    BY <1>4, SMT DEF Unpack, ReportInv, Working, Progress, SoFar, historyVars
  <2>2. \/ pc' = "out" /\ ret' = "error" /\ why' # "none"
        \/ pc' = "halted"
        \/ pc' = "write" /\ outcome \in {"fits", "large"}
    BY <1>4, <2>1, SMT DEF Unpack, Fail, First
  <2>3. CASE pc' # "write"
    BY <2>1, <2>2, <2>3, SMT DEF ReportInv, Working, Outcome, Result
  <2>4. CASE pc' = "write"
    <3>1. /\ ret' = "ok" /\ Done' = Done
          /\ target \in reach' /\ reach' \subseteq Targets
          /\ \/ why' = "none" /\ reach' = reach
             \/ why' = "spill" /\ cmd \in Partition
      BY <1>0, <1>4, <2>1, <2>2, <2>4, SMT DEF Unpack, First, Fail, Progress, InHand, Done, TypeOK
    <3>2. cmd \in Partition => Done = {}
      BY SMT DEF Done, Partition
    <3>3. OthersAsBefore' /\ DoneHold'
      BY <2>1, <2>4, <3>1, <3>2, SMT DEF Progress, OthersAsBefore, DoneHold, Left, Started
    <3>4. InHand' /\ WrittenAlike' /\ Missed'
      BY <2>1, <2>4, <3>1, <3>2, SMT DEF Progress, InHand, WrittenAlike, Missed
    <3>5. SoFar'
      BY <2>1, <2>4, <3>1, SMT DEF Progress, SoFar, Partition, Files
    <3> QED BY <2>1, <2>4, <3>1, <3>3, <3>4, <3>5, SMT DEF Progress, ReportInv, Working
  <2> QED BY <2>3, <2>4
<1>5. CASE StartWrite
  <2>1. /\ pc = "write" /\ pc' = "writing" /\ Progress /\ told = "none" /\ Done' = Done
        /\ UNCHANGED <<cmd, target, ret, kind, reach, told, why, before>>
        /\ \A t \in Targets : t \notin reach => content'[t] = content[t]
    BY <1>0, <1>5, SMT DEF StartWrite, ReportInv, Working, Done, historyVars
  <2>2. OthersAsBefore' /\ InHand' /\ WrittenAlike' /\ Missed' /\ SoFar'
    BY <2>1, SMT DEF Progress, OthersAsBefore, InHand, WrittenAlike, Missed, SoFar, Started
  <2>3. DoneHold'
    <3>1. \A t \in Done : content'[t] = content[t]
      BY <1>0, <2>1, DoneAreTargets, SMT DEF TypeOK, Progress, InHand
    <3> QED BY <2>1, <3>1, SMT DEF Progress, DoneHold, Left
  <2> QED BY <2>1, <2>2, <2>3, SMT DEF Progress, ReportInv, Working
<1>6. CASE OpenFails
  <2>1. /\ pc = "write" /\ pc' = "out" /\ ret' = "error" /\ why' # "none" /\ told' = "none"
    BY <1>6, SMT DEF OpenFails, Fail, First, ReportInv
  <2> QED BY <2>1, SMT DEF ReportInv, Working, Outcome, Result
<1>7. ASSUME NEW memory \in BOOLEAN, StartVerify(memory) PROVE ReportInv'
  <2>1. /\ pc = "verify" /\ pc' \in {"verifying", "halted"} /\ Progress /\ told = "none"
        /\ Done' = Done
        /\ UNCHANGED <<content, cmd, target, ret, kind, reach, told, before>>
    BY <1>7, SMT DEF StartVerify, ReportInv, Working, Done, historyVars
  <2>2. \/ why' = why /\ (kind = "file" => "read" \in heap')
        \/ why' = "null" /\ cmd \in Files
    BY <1>7, <2>1, SMT DEF StartVerify, Progress, InHand
  <2>3. CASE pc' = "halted"
    BY <2>1, <2>3, SMT DEF ReportInv, Working
  <2>4. CASE pc' = "verifying"
    <3>1. DoneHold'
      BY <2>1, <2>2, SMT DEF Progress, SoFar, DoneHold, Left, Done, Files
    <3>2. InHand'
      BY <2>1, <2>2, <2>4, SMT DEF Progress, SoFar, InHand, Partition, Files
    <3>3. OthersAsBefore' /\ WrittenAlike' /\ Missed'
      BY <2>1, <2>2, <2>4, SMT DEF Progress, OthersAsBefore, WrittenAlike, Missed, Started
    <3>4. SoFar'
      BY <2>1, <2>2, <2>4, SMT DEF Progress, SoFar, Partition, Files
    <3> QED BY <2>1, <2>4, <3>1, <3>2, <3>3, <3>4, SMT DEF Progress, ReportInv, Working
  <2> QED BY <2>1, <2>3, <2>4
<1>8. ASSUME NEW outcome \in {"new", "bad", "error"}, EndWrite(outcome) PROVE ReportInv'
  <2>1. CASE outcome = "error"
    <3>1. /\ pc = "writing" /\ pc' = "out" /\ ret' = "error" /\ why' # "none" /\ told' = "none"
      BY <1>8, <2>1, SMT DEF EndWrite, Fail, First, ReportInv
    <3> QED BY <3>1, SMT DEF ReportInv, Working, Outcome, Result
  <2>2. CASE outcome # "error"
    <3>1. /\ pc = "writing" /\ pc' = "verify" /\ Progress /\ told = "none" /\ Done' = Done
          /\ UNCHANGED <<cmd, target, ret, kind, reach, told, why, before>>
          /\ content' = [t \in Targets |->
                          IF t \notin reach THEN content[t]
                          ELSE IF why = "empty" THEN "empty" ELSE outcome]
      BY <1>8, <2>2, SMT DEF EndWrite, ReportInv, Working, Done, historyVars
    <3>2. OthersAsBefore' /\ InHand' /\ Missed' /\ SoFar'
      BY <3>1, SMT DEF Progress, OthersAsBefore, InHand, Missed, SoFar, Started
    <3>3. DoneHold'
      <4>1. \A t \in Done : content'[t] = content[t]
        BY <1>0, <3>1, DoneAreTargets, SMT DEF TypeOK, Progress, InHand
      <4> QED BY <3>1, <4>1, SMT DEF Progress, DoneHold, Left
    <3>4. WrittenAlike'
      BY <1>0, <3>1, <2>2, SMT DEF WrittenAlike, TypeOK
    <3> QED BY <3>1, <3>2, <3>3, <3>4, SMT DEF Progress, ReportInv, Working
  <2> QED BY <2>1, <2>2
<1>9. ASSUME NEW outcome \in {"same", "differs", "error"}, EndVerify(outcome) PROVE ReportInv'
  BY <1>9, VerifyReports
<1>10. ASSUME NEW outcome \in {"md5", "nomem", "corrupt", "refused", "good"}, NEW packed \in BOOLEAN,
              NEW how \in {"raw", "file"}, Item(outcome, packed, how)
       PROVE  ReportInv'
  BY <1>10, ItemReports
<1>11. CASE Out
  <2>1. /\ pc = "out" /\ pc' = "idle" /\ told' = Result
        /\ UNCHANGED <<content, cmd, target, ret, why, before>>
    BY <1>11, SMT DEF Out, Result
  <2>2. Outcome(Result)
    BY <2>1 DEF ReportInv
  <2>3. Outcome(told)'
    BY <2>1, <2>2, SMT DEF Outcome, Wanted
  <2> QED BY <2>1, <2>3, SMT DEF ReportInv, Working
<1>12. CASE SwitchConsole
  BY <1>12 DEF SwitchConsole, heldVars, historyVars, ReportInv, Progress, OthersAsBefore, DoneHold,
     Left, InHand, WrittenAlike, Missed, SoFar, Done, Outcome, Result, Wanted
<1>13. CASE OtherLocks
  BY <1>13 DEF OtherLocks, heldVars, historyVars, ReportInv, Progress, OthersAsBefore, DoneHold,
     Left, InHand, WrittenAlike, Missed, SoFar, Done, Outcome, Result, Wanted
<1>14. CASE Reset
  BY <1>14, SMT DEF Reset, ReportInv, Working, Outcome
<1> QED
  BY <1>1, <1>2, <1>3, <1>4, <1>5, <1>6, <1>7, <1>8, <1>9, <1>10, <1>11, <1>12, <1>13, <1>14
     DEF Next

(* SUCCESS and FAILED mean what SuccessHolds says, for any number of targets. *)
THEOREM SuccessHoldsAlways == Spec => []SuccessHolds
  BY TypeInit, TypeStep, ReportInit, ReportStep, ReportImpliesSuccess, PTL DEF Spec
=============================================================================
