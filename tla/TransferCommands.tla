-------------------------- MODULE TransferCommands --------------------------
(***************************************************************************)
(* The shell commands that load a file from the host and write it to the   *)
(* device, and those that upload one: `load' and `upload' over the         *)
(* console's serial line or its USB channel (cmds_load.c, cmds_upload.c),  *)
(* `usb_acm_load' and `usb_acm_upload' over CDC-ACM (cmds_usb_acm_load.c,  *)
(* cmds_usb_acm_upload.c).                                                 *)
(*                                                                         *)
(* A command takes the console for itself: the log and the shell are       *)
(* switched off, the watchdog stopped, interrupts saved.  A load writes,   *)
(* reads back, gives everything back and reports SUCCESS or FAILED.        *)
(* Meanwhile another task may switch the console to USB or hold the lock   *)
(* of the file system, and the device may be reset.                        *)
(***************************************************************************)
EXTENDS Integers

CONSTANT NTargets     \* partitions (or files), in their order; a package updates them all

ASSUME TargetsAssumption == NTargets \in Nat \ {0}

Targets == 1 .. NTargets
SerialLoads == {"addr", "mem", "part", "file", "eeprom"}
AcmLoads == {"acm_addr", "acm_part", "acm_file", "ota"}
SerialUploads == {"up_file", "up_eeprom"}
AcmUploads == {"acm_up_file", "acm_up_part", "acm_up_eeprom"}
Uploads == SerialUploads \cup AcmUploads
Commands == SerialLoads \cup AcmLoads \cup Uploads
Partition == {"part", "acm_part"}

VARIABLES
  mode,       \* the log mode, "uart" or "usb": another task may change it
  lock,       \* the lock of the file system: "none", "load", "other"
  content,    \* what each target holds
  pc, cmd, target, ret,
  chan,       \* the channel of the transfer, read once
  kind,       \* how the target is written: to the raw flash, a file, the EEPROM
  reach,      \* the targets the data written will cover
  off,        \* what the command has switched off, or changed
  heap, ptrs, \* its buffers, open file and transfer handle, and the pointers the end frees
  told,       \* what it has reported in the end
  why,        \* history: what went wrong first
  before,     \* history: what the targets held
  stray,      \* history: what was given back though it had not been taken
  leaked      \* history: a buffer was lost

envVars == <<mode, lock>>
heldVars == <<off, heap, ptrs>>
historyVars == <<before, stray, leaked>>
vars == <<envVars, content, pc, cmd, target, ret, chan, kind, reach, heldVars, told, why,
          historyVars>>

Changes == {"priority", "watchdog", "irqs", "log", "shell"}
Buffers == {"recv", "tmp", "read", "send", "file", "handle"}
Reasons == {"none", "noname", "nomem", "nofs", "nopart", "zero", "empty", "corrupt", "spill",
            "open", "write", "null", "differs", "read", "md5", "refused"}
Contents == {"old", "torn", "bad", "empty", "new"}

TypeOK ==
  /\ mode \in {"uart", "usb"} /\ chan \in {"uart", "usb"} /\ lock \in {"none", "load", "other"}
  /\ content \in [Targets -> Contents] /\ before \in [Targets -> Contents \ {"new"}]
  /\ pc \in {"idle", "transfer", "unpack", "item", "write", "writing", "verify", "verifying",
             "out", "halted"}
  /\ cmd \in Commands \cup {"none"} /\ target \in Targets /\ reach \subseteq Targets
  /\ kind \in {"raw", "file", "eeprom"} /\ ret \in {"ok", "error"}
  /\ off \subseteq Changes /\ heap \subseteq Buffers /\ ptrs \subseteq Buffers
  /\ told \in {"none", "success", "failed"} /\ why \in Reasons
  /\ stray \subseteq Changes \cup Buffers /\ leaked \in BOOLEAN

Init ==
  /\ mode = "uart" /\ lock = "none" /\ content = [t \in Targets |-> "old"]
  /\ pc = "idle" /\ cmd = "none" /\ target = 1 /\ ret = "ok" /\ chan = "uart" /\ kind = "raw"
  /\ reach = {} /\ off = {} /\ heap = {} /\ ptrs = {} /\ told = "none" /\ why = "none"
  /\ before = content /\ stray = {} /\ leaked = FALSE

-----------------------------------------------------------------------------
Irqs(ch) == IF ch = "uart" THEN {"irqs"} ELSE {}
First(reason) == IF why = "none" THEN reason ELSE why

\* The rest of the command is skipped; r is what ret holds by then.
Fail(reason, r) == pc' = "out" /\ ret' = r /\ why' = First(reason)

\* What can stop a command before its transfer.
Hitches(c) ==
  (IF c = "eeprom" THEN {} ELSE {"nomem"})
    \cup (IF c \in {"file", "acm_file", "up_file", "acm_up_file"} THEN {"nofs"} ELSE {})
    \cup (IF c \in Partition \cup {"acm_up_part"} THEN {"nopart"} ELSE {})
    \cup (IF c \in {"up_file", "acm_up_file", "acm_up_part"} THEN {"open", "zero"} ELSE {})
    \cup (IF c \in {"up_file", "acm_up_file"} THEN {"noname"} ELSE {})
    \cup (IF c \in Uploads THEN {"read"} ELSE {})

\* What it has changed by then, and what is off during the transfer.
ChangedFirst(c, ch) ==
  (IF c \in {"part", "acm_addr", "acm_part", "ota", "acm_up_part"} THEN {"watchdog"} ELSE {})
    \cup (IF c = "part" THEN Irqs(ch) ELSE {})
ChangedAll(c, ch) ==
  {"log", "shell"} \cup Irqs(ch)
    \cup (IF c \in {"acm_file", "acm_up_file", "acm_up_eeprom"} THEN {} ELSE {"watchdog"})

\* The buffers and files it has by then.
TakenBefore(c, hitch) ==
  (IF c \in SerialLoads \cup AcmLoads /\ c # "eeprom"
        /\ (hitch = "none" \/ (c = "acm_file" /\ hitch = "nofs")) THEN {"recv"} ELSE {})
    \cup (IF c \in Uploads /\ (hitch \in {"none", "read"} \/ (c = "acm_up_part" /\ hitch = "open"))
            THEN {"send"} ELSE {})
    \cup (IF c \in {"up_file", "acm_up_file"} /\ hitch \in {"none", "read", "zero", "nomem"}
            THEN {"file"} ELSE {})

(* A command is typed in.  serial_load has ret = 0 when it gets no memory, and
   usb_acm_upload_file when it has no name or cannot open the file; usb_acm_load_file
   asserts that it gets memory, and only then looks for the file system;
   usb_acm_upload_part leaves the flash stream open when it cannot read it.  No pointer
   to the handle of simpl_trans_init is looked at by the end. *)
Begin(c, t, hitch) ==
  LET ch == IF c \in SerialLoads \cup SerialUploads THEN mode ELSE "usb" IN
  /\ pc = "idle"
  /\ cmd' = c /\ chan' = ch /\ why' = hitch
  /\ target' = IF c = "ota" THEN 1 ELSE t
  /\ reach' = {target'}
  /\ kind' = IF c = "eeprom" THEN "eeprom"
             ELSE IF c \in {"file", "acm_file"} THEN "file" ELSE "raw"
  /\ off' = {"priority"} \cup IF hitch = "none" THEN ChangedAll(c, ch) ELSE ChangedFirst(c, ch)
  /\ ptrs' = TakenBefore(c, hitch)
  /\ heap' = ptrs' \cup IF hitch = "none" /\ c \in AcmLoads \cup AcmUploads THEN {"handle"} ELSE {}
  /\ pc' = IF hitch = "none" THEN "transfer"
           ELSE IF c = "acm_file" /\ hitch = "nomem" THEN "halted" ELSE "out"
  /\ ret' = IF hitch = "none" \/ c \in {"addr", "mem"} \/ (c = "acm_up_file" /\ hitch \in {"noname", "open"})
               THEN "ok" ELSE "error"
  /\ content' = [u \in Targets |-> IF content[u] = "new" THEN "old" ELSE content[u]]
  /\ before' = content' /\ told' = "none" /\ stray' = {}
  /\ leaked' = (c = "acm_up_part" /\ hitch = "read")
  /\ UNCHANGED envVars

\* What is switched on again as soon as the transfer has ended.
BackAfter(c) ==
  (IF c \in {"addr", "mem"} THEN {} ELSE {"shell"})
    \cup (IF c \in AcmLoads \cup Uploads THEN {"log"} ELSE {})
    \cup (IF c \in SerialUploads \cup {"file"} THEN {"watchdog"} \cup Irqs(chan) ELSE {})

(* ota_load_ymodem or simpl_trans_recv, ymodem_transfer or simpl_trans_send.
   "nothing" is an error, and for most commands also a transfer of no bytes, or one
   without the right length, header or checksum (eeprom, ota); serial_load takes it for
   a success.  "empty", no error but no bytes (of an upload: not all), goes on like any
   other where only ret < 0 is looked at.  simpl_trans_uninit follows at once, except in
   usb_acm_upload_eeprom. *)
Transfer(got) ==
  /\ pc = "transfer"
  /\ got = "packed" => cmd \in Partition \cup {"addr"}
  /\ got = "empty" => cmd \in AcmUploads \cup {"acm_file"}
  /\ off' = off \ BackAfter(cmd)
  /\ heap' = heap \ {"handle"}
  /\ leaked' = (leaked \/ cmd = "acm_up_eeprom")
  /\ IF got = "nothing"
       THEN Fail("empty", IF cmd \in {"addr", "mem"} THEN "ok" ELSE "error")
       ELSE /\ pc' = IF cmd \in Uploads \cup {"mem"} THEN "out"
                     ELSE IF cmd = "ota" THEN "item"
                     ELSE IF got = "packed" THEN "unpack" ELSE "write"
            /\ why' = IF got = "empty" THEN First("empty") ELSE why
            /\ UNCHANGED ret
  /\ UNCHANGED <<envVars, content, cmd, target, chan, kind, reach, ptrs, told, before, stray>>

(* gunzip.  A partition's file was received into a buffer of the partition's size,
   but may be larger when it is unpacked ("large"); a buffer it fills ("full") fails
   the assertion. *)
Unpack(outcome) ==
  /\ pc = "unpack"
  /\ outcome \in {"large", "full"} => cmd \in Partition
  /\ \/ outcome = "nomem" /\ Fail("nomem", "error") /\ UNCHANGED <<heap, ptrs, reach>>
     \/ /\ outcome = "corrupt" /\ Fail("corrupt", "error")
        /\ heap' = heap \cup {"tmp"} /\ ptrs' = ptrs \cup {"tmp"} /\ UNCHANGED reach
     \/ /\ outcome = "full" /\ pc' = "halted"
        /\ heap' = heap \cup {"tmp"} /\ ptrs' = ptrs \cup {"tmp"} /\ UNCHANGED <<ret, why, reach>>
     \/ /\ outcome \in {"fits", "large"}
        /\ heap' = {"tmp"} \cup IF cmd \in Partition THEN {} ELSE heap
        /\ ptrs' = {"tmp"} \cup IF cmd \in Partition THEN {} ELSE ptrs
        /\ reach' = IF outcome = "large" THEN Targets \cap {target, target + 1} ELSE reach
        /\ why' = IF outcome = "large" THEN First("spill") ELSE why
        /\ pc' = "write" /\ UNCHANGED ret
  /\ UNCHANGED <<envVars, content, cmd, target, chan, kind, off, told, historyVars>>

\* The raw flash is written, and read back, under the lock of the file system.
LockRaw == IF kind = "raw" THEN lock = "none" /\ lock' = "load" ELSE UNCHANGED lock
UnlockRaw == lock' = IF kind = "raw" THEN "none" ELSE lock

\* The old contents are gone with the first byte; a file is truncated when it is opened.
StartWrite ==
  /\ pc = "write" /\ LockRaw
  /\ content' = [t \in Targets |-> IF t \in reach THEN "torn" ELSE content[t]]
  /\ heap' = IF kind = "file" THEN heap \cup {"file"} ELSE heap
  /\ ptrs' = IF kind = "file" THEN ptrs \cup {"file"} ELSE ptrs
  /\ pc' = "writing"
  /\ UNCHANGED <<mode, cmd, target, ret, chan, kind, reach, off, told, why, historyVars>>

OpenFails ==
  /\ pc = "write" /\ kind = "file" /\ Fail("open", "error")
  /\ UNCHANGED <<envVars, content, cmd, target, chan, kind, reach, heldVars, told, historyVars>>

(* "bad": without an error, but not what was to be written.  Writing no bytes leaves a
   truncated file as it is. *)
EndWrite(outcome) ==
  /\ pc = "writing" /\ UnlockRaw
  /\ IF outcome = "error"
       THEN Fail("write", "error") /\ UNCHANGED content
       ELSE /\ content' = [t \in Targets |->
                            IF t \notin reach THEN content[t]
                            ELSE IF why = "empty" THEN "empty" ELSE outcome]
            /\ pc' = "verify" /\ UNCHANGED <<ret, why>>
  /\ UNCHANGED <<mode, cmd, target, chan, kind, reach, heldVars, told, historyVars>>

(* Raw flash is read back into the buffer that was written, a file into one of its own.
   Nobody looks whether there is memory for it: without, the file is read to address 0,
   and the system stops there or goes on.  From then on "null" is what went wrong. *)
StartVerify(memory) ==
  /\ pc = "verify" /\ LockRaw
  /\ memory \/ kind = "file"
  /\ heap' = IF kind = "file" /\ memory THEN heap \cup {"read"} ELSE heap
  /\ ptrs' = IF kind = "file" /\ memory THEN ptrs \cup {"read"} ELSE ptrs
  /\ pc' \in IF memory THEN {"verifying"} ELSE {"verifying", "halted"}
  /\ why' = IF memory THEN why ELSE "null"
  /\ UNCHANGED <<mode, content, cmd, target, ret, chan, kind, reach, off, told, historyVars>>

\* The next item of a package; load_fs leaves nothing open.
NextItem ==
  /\ IF target < NTargets
       THEN target' = target + 1 /\ pc' = "item"
       ELSE pc' = "out" /\ UNCHANGED target
  /\ heap' = heap \ {"file", "read"} /\ ptrs' = ptrs \ {"file", "read"}

(* What the comparison may find: behind address 0 may be anything. *)
Compared ==
  IF kind = "file" /\ "read" \notin heap THEN {"same", "differs"}
  ELSE {IF \E t \in reach : content[t] = "bad" THEN "differs" ELSE "same"}

EndVerifyUnchecked(outcome) ==     \* only a failing read is an error
  /\ pc = "verifying" /\ UnlockRaw
  /\ outcome \in {"error"} \cup Compared
  /\ \/ outcome = "error" /\ Fail("read", "error") /\ UNCHANGED <<target, heap, ptrs>>
     \/ outcome = "differs" /\ Fail("differs", "ok") /\ UNCHANGED <<target, heap, ptrs>>
     \/ outcome = "same" /\ cmd = "ota" /\ NextItem /\ UNCHANGED <<ret, why>>
     \/ outcome = "same" /\ cmd # "ota" /\ pc' = "out" /\ UNCHANGED <<target, ret, why, heap, ptrs>>
  /\ UNCHANGED <<mode, content, cmd, chan, kind, reach, off, told, historyVars>>

(* The comparison, or the checksum of what was read.  serial_load_file prints that
   they differ, but its ret is still the number of bytes. *)
EndVerify(outcome) ==
  /\ pc = "verifying" /\ UnlockRaw
  /\ outcome \in {"error"} \cup Compared
  /\ \/ outcome = "error" /\ Fail("read", "error") /\ UNCHANGED <<target, heap, ptrs>>
     \/ /\ outcome = "differs" /\ Fail("differs", IF cmd = "file" THEN "ok" ELSE "error")
        /\ UNCHANGED <<target, heap, ptrs>>
     \/ outcome = "same" /\ cmd = "ota" /\ NextItem /\ UNCHANGED <<ret, why>>
     \/ outcome = "same" /\ cmd # "ota" /\ pc' = "out" /\ UNCHANGED <<target, ret, why, heap, ptrs>>
  /\ UNCHANGED <<mode, content, cmd, chan, kind, reach, off, told, historyVars>>

(* An item of a package.  One whose md5 is not right is skipped; one that cannot be
   unpacked ends the loop, with ret still 0; unzip_buffer is overwritten. *)
Item(outcome, packed, how) ==
  /\ pc = "item"
  /\ outcome \in {"nomem", "corrupt"} => packed
  /\ outcome = "md5" => ~packed
  /\ leaked' = (leaked \/ (packed /\ "tmp" \in heap))
  /\ IF outcome = "md5"
       THEN NextItem /\ why' = First("md5") /\ UNCHANGED <<ret, kind, reach>>
       ELSE /\ heap' = IF ~packed THEN heap
                       ELSE IF outcome = "nomem" THEN heap \ {"tmp"} ELSE heap \cup {"tmp"}
            /\ ptrs' = IF ~packed THEN ptrs
                       ELSE IF outcome = "nomem" THEN ptrs \ {"tmp"} ELSE ptrs \cup {"tmp"}
            /\ IF outcome = "good"
                 THEN /\ kind' = how /\ reach' = {target} /\ pc' = "write"
                      /\ UNCHANGED <<ret, why>>
                 ELSE /\ Fail(outcome, IF outcome = "refused" THEN "error" ELSE "ok")
                      /\ UNCHANGED <<kind, reach>>
            /\ UNCHANGED target
  /\ UNCHANGED <<envVars, content, cmd, chan, off, told, before, stray>>

GivenBackByMode(c) ==              \* the log mode is read once more
  {"priority"} \cup (IF c \in SerialLoads THEN {"log"} ELSE {})
    \cup (IF c \in SerialLoads \cup AcmLoads \cup {"acm_up_part"} /\ c \notin {"file", "acm_file"}
            THEN {"watchdog"} ELSE {})
    \cup (IF c \in {"addr", "mem"} THEN {"shell"} ELSE {})
    \cup (IF c \in SerialLoads \ {"file"} THEN Irqs(mode) ELSE {})

\* What the end of a command switches on again, taken or not.
GivenBack(c) ==
  {"priority"} \cup (IF c \in SerialLoads THEN {"log"} ELSE {})
    \cup (IF c \in SerialLoads \cup AcmLoads \cup {"acm_up_part"} /\ c \notin {"file", "acm_file"}
            THEN {"watchdog"} ELSE {})
    \cup (IF c \in {"addr", "mem"} THEN {"shell"} ELSE {})
    \cup (IF c \in SerialLoads \ {"file"} THEN Irqs(chan) ELSE {})

\* The end, which failures jump to.  A pointer that is not NULL is freed.
Out ==
  /\ pc = "out" /\ pc' = "idle"
  /\ off' = off \ GivenBack(cmd) /\ heap' = heap \ ptrs /\ ptrs' = {}
  /\ stray' = (GivenBack(cmd) \ off) \cup (ptrs \ heap)
  /\ told' = IF ret = "error" THEN "failed" ELSE "success"
  /\ UNCHANGED <<envVars, content, cmd, target, ret, chan, kind, reach, why, before, leaked>>

-----------------------------------------------------------------------------
(* The other tasks, and the power (or the watchdog). *)
SwitchConsole ==
  /\ mode' \in {"uart", "usb"} \ {mode}
  /\ UNCHANGED <<lock, content, pc, cmd, target, ret, chan, kind, reach, heldVars, told, why, historyVars>>

OtherLocks ==
  /\ \/ lock = "none" /\ lock' = "other"
     \/ lock = "other" /\ lock' = "none"
  /\ UNCHANGED <<mode, content, pc, cmd, target, ret, chan, kind, reach, heldVars, told, why, historyVars>>

Reset ==
  /\ mode' = "uart" /\ lock' = "none"
  /\ pc' = "idle" /\ cmd' = "none" /\ target' = 1 /\ ret' = "ok" /\ chan' = "uart" /\ kind' = "raw"
  /\ reach' = {} /\ off' = {} /\ heap' = {} /\ ptrs' = {} /\ told' = "none" /\ why' = "none"
  /\ stray' = {} /\ leaked' = FALSE
  /\ UNCHANGED <<content, before>>

Next ==
  \/ \E c \in Commands : \E t \in Targets, hitch \in {"none"} \cup Hitches(c) : Begin(c, t, hitch)
  \/ \E got \in {"nothing", "empty", "plain", "packed"} : Transfer(got)
  \/ \E outcome \in {"nomem", "corrupt", "full", "fits", "large"} : Unpack(outcome)
  \/ StartWrite \/ OpenFails \/ \E memory \in BOOLEAN : StartVerify(memory)
  \/ \E outcome \in {"new", "bad", "error"} : EndWrite(outcome)
  \/ \E outcome \in {"same", "differs", "error"} : EndVerify(outcome)
  \/ \E outcome \in {"md5", "nomem", "corrupt", "refused", "good"}, packed \in BOOLEAN,
        how \in {"raw", "file"} : Item(outcome, packed, how)
  \/ Out \/ SwitchConsole \/ OtherLocks \/ Reset

Spec == Init /\ [][Next]_vars

-----------------------------------------------------------------------------
(* A command that has ended, on whatever way, has given back what it took: the
   watchdog runs, interrupts, log and shell are as they were, the file system is
   unlocked, no buffer, file or handle is left.  Four things it may do wrong: ota()
   loses the buffer of a packed item when the next one is packed too,
   usb_acm_upload_part leaves the flash stream open when it cannot read it,
   usb_acm_upload_eeprom never gives back the handle of its transfer, and serial_load
   without memory gives back what it had not taken (os_log_enable apart, which does no
   harm).  Nothing is freed twice. *)
Restored ==
  pc = "idle" =>
    /\ off = {} /\ heap = {} /\ lock # "load"
    /\ leaked => \/ cmd = "ota" \/ <<cmd, why>> = <<"acm_up_part", "read">>
                 \/ cmd = "acm_up_eeprom" /\ why \in {"none", "empty"}
    /\ stray \subseteq {"log"} \/ (cmd \in {"addr", "mem"} /\ why = "nomem" /\ stray \subseteq Changes)

(* The failures that are reported as a success: those that leave every target as it was
   or as it should be, and those that leave another file, an empty or a wrong one. *)
Harmless ==
  {<<c, r>> : c \in {"addr", "mem"}, r \in {"nomem", "empty"}}   \* out with ret = 0
    \cup {<<"acm_up_file", r>> : r \in {"noname", "open"}}       \* likewise
    \cup {<<c, "empty">> : c \in AcmUploads}   \* what was sent is not compared
    \cup {<<c, "spill">> : c \in Partition}    \* written into the next partition
    \cup {<<"ota", r>> : r \in {"md5", "nomem", "corrupt"}}   \* ret of an inner scope, or none
Unverified ==
  {<<"file", "differs">>}                       \* ret is the number of bytes read
    \cup {<<"acm_file", "empty">>}              \* only ret < 0 is an error
    \cup {<<c, "null">> : c \in {"file", "acm_file", "ota"}}   \* compared with address 0
Silent == Harmless \cup Unverified

Wanted ==
  IF cmd = "ota" THEN Targets ELSE IF cmd \in Uploads \cup {"mem"} THEN {} ELSE {target}

(* SUCCESS means that what was asked for is on the device, was read back, and
   nothing else was touched (an upload touches nothing); FAILED means that something
   went wrong.  Every failure on the way is reported, but for those in Silent, which
   leave no target half written either; a file that was never compared with what was
   received, or with an empty transfer, may be wrong or empty. *)
SuccessHolds ==
  /\ told = "failed" => why # "none"
  /\ told = "success" /\ why # "none" =>
       /\ <<cmd, why>> \in Silent
       /\ \A t \in Targets :
            \/ content[t] \in {"new", before[t]}
            \/ <<cmd, why>> \in Unverified /\ content[t] \in {"bad", "empty"}
  /\ told = "success" /\ why = "none" =>
       content = [t \in Targets |-> IF t \in Wanted THEN "new" ELSE before[t]]
=============================================================================
