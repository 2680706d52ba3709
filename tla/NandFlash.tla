------------------------------ MODULE NandFlash ------------------------------
(***************************************************************************)
(* The NAND flash driver gd5fxx.c: its bad-block table, and the calls that *)
(* read, write, erase, program and protect the chip.  A write takes the    *)
(* request block by block: read the old contents of a block that is only   *)
(* partly written, erase the block whatever the table says of it, program  *)
(* all its pages.  A page that was torn by a failure or by the loss of     *)
(* power shows an ECC error when it is read.                               *)
(*                                                                         *)
(* The chip works on its own: a command it accepts is pending until        *)
(* Finish.  The bus, the wait for the chip and the chip itself can fail at *)
(* every step, and the power can go away between any two.                  *)
(***************************************************************************)
EXTENDS Integers

CONSTANTS
  PageSize,    \* GD5FXX_PAGE_SIZE, in cells
  NPages,      \* GD5FXX_PAGE_NUM_PER_BLK
  NBlocks,     \* blocks of the chip
  Factory,     \* the blocks the chip was delivered with as bad
  CacheRead,   \* the chip has NAND_CACHE_RD_SUP
  Requests,    \* bound: addresses and lengths of the calls
  Unreadable,  \* bound: the sets of blocks whose marker cannot be read at a start
  MaxCalls     \* bound: the calls but for initialisation

BlockSize == NPages * PageSize
ChipSize == NBlocks * BlockSize      \* gd5fxx_FLASH_CHIP_SIZE
Blocks == 0 .. NBlocks - 1
Addr == 0 .. ChipSize - 1
Pages == 0 .. NBlocks * NPages - 1

ASSUME NandAssumption ==
  /\ PageSize \in Nat \ {0} /\ NPages \in Nat \ {0} /\ NBlocks \in Nat \ {0}
  /\ Factory \subseteq Blocks /\ CacheRead \in BOOLEAN
  /\ Requests \subseteq Nat \X Nat
  /\ Unreadable \subseteq SUBSET Blocks /\ MaxCalls \in Nat

(* What a cell holds: nothing, what call number n had for address a, what no ECC
   can correct; and in a buffer, what its memory held before. *)
Erased == [kind |-> "erased", at |-> 0, call |-> 0]
Junk == [kind |-> "junk", at |-> 0, call |-> 0]
Stale == [kind |-> "stale", at |-> 0, call |-> 0]
Data(a, n) == [kind |-> "data", at |-> a, call |-> n]
Content == [kind : {"erased", "junk", "stale", "data"}, at : Nat, call : Nat]

VARIABLES
  \* the chip
  mem,           \* the main areas
  mark,          \* blocks with a bad-block marker in the spare area of page 0
  prot,          \* some blocks are protected
  op,            \* the command it is working on
  failed,        \* P_FAIL or E_FAIL in its status
  register,      \* the page in its data register
  \* the driver
  up, lut,       \* m_gd5fxx_inited, m_bblk_lut
  pc, job,
  addr, length,  \* the rest of the request
  readAddr, readLength, mode,    \* locals of gd5fxx_read
  buf,           \* the buffer read into: the caller's, or swap_buf
  index,         \* pages of the block already programmed
  marker,        \* what gd5fxx_mark_bad_blk is to write
  ret,           \* what the latest call has returned
  \* for the properties
  calls, first, before,   \* how many calls there were, where the last began, and what the chip held
  late,          \* the chip is busy with what an earlier call has sent
  missed,        \* it was taken for ready while it was busy
  lost           \* cells of a rewritten block that could not be read

chipVars == <<mem, mark, prot, op, failed>>
readVars == <<readAddr, readLength, mode>>
callVars == <<addr, length, index>>
ghostVars == <<calls, first, before, late>>
vars == <<chipVars, register, up, lut, pc, job, callVars, readVars, buf, marker, ret,
          ghostVars, missed, lost>>

NoOp == [kind |-> "none", at |-> 0, from |-> [i \in 0 .. PageSize - 1 |-> Erased]]
NoPage == -1
Fresh == [k \in Addr |-> Stale]
PCs == {"idle", "ecc", "page", "erase", "erasing", "mark", "marking", "program",
        "programming", "locking"}
Transfers == {"read", "write", "erase", "page"}
Jobs == {"none", "init", "lock"} \cup Transfers

TypeOK ==
  /\ mem \in [Addr -> Content] /\ before \in [Addr -> Content] /\ buf \in [Addr -> Content]
  /\ mark \subseteq Blocks /\ lut \in [Blocks -> BOOLEAN] /\ lost \subseteq Addr
  /\ op \in [kind : {"none", "erase", "program", "mark", "unmark"}, at : Addr,
             from : [0 .. PageSize - 1 -> Content]]
  /\ {prot, failed, up, late, missed} \subseteq BOOLEAN
  /\ register \in Pages \cup {NoPage}
  /\ pc \in PCs /\ job \in Jobs /\ mode \in {"plain", "first", "next"}
  /\ marker \in {"good", "bad"} /\ ret \in {"none", "ok", "error", "reset"}
  /\ {addr, length, readAddr, readLength, first, calls} \subseteq Nat
  /\ index \in 0 .. NPages - 1

\* The power is on and the chip locks itself; the driver has not been started.
Init ==
  /\ mem = [a \in Addr |-> Data(a, 0)] /\ mark = Factory /\ prot = TRUE
  /\ op = NoOp /\ failed = FALSE /\ register = NoPage
  /\ up = FALSE /\ lut = [b \in Blocks |-> FALSE]
  /\ pc = "idle" /\ job = "none" /\ addr = 0 /\ length = 0 /\ index = 0
  /\ readAddr = 0 /\ readLength = 0 /\ mode = "plain" /\ buf = Fresh /\ marker = "good"
  /\ ret = "none" /\ calls = 0 /\ first = 0 /\ before = mem
  /\ late = FALSE /\ missed = FALSE /\ lost = {}

-----------------------------------------------------------------------------
Busy == op.kind # "none"
\* A failed poll is taken for "ready".  Bound: once, until the driver is started again.
Misreadable == Busy /\ ~missed
Block(a) == a \div BlockSize
BlockBase(a) == BlockSize * Block(a)
BlockCells(b) == {a \in Addr : Block(a) = b}
Requested(a) == addr <= a /\ a < addr + length
\* The block a read, or a command, is about.
Current == IF job = "read" THEN Block(readAddr) ELSE Block(addr)

Goto(l) == pc' = l /\ ret' = "none"
\* The call ends, and its locals are gone.
Return(r) ==
  /\ pc' = "idle" /\ ret' = r
  /\ length' = 0 /\ index' = 0 /\ marker' = "good"
  /\ readAddr' = 0 /\ readLength' = 0 /\ mode' = "plain"

\* The parameters of gd5fxx_read: cached if the chip can and there are pages enough.
StartRead(a, n) ==
  /\ readAddr' = a /\ readLength' = n
  /\ mode' = IF CacheRead /\ n > 2 * PageSize THEN "first" ELSE "plain"
  /\ Goto("ecc")

\* The next block of a write: nothing of a block that is wholly written is read.
StartBlock(a, n) ==
  IF a % BlockSize = 0 /\ n >= BlockSize
    THEN Goto("erase") /\ UNCHANGED readVars
    ELSE StartRead(BlockBase(a), BlockSize)

\* What is left of a request at the end of the chip.
Cut(a, n) == IF a + n > ChipSize THEN ChipSize - a ELSE n

-----------------------------------------------------------------------------
(* The calls.  What a driver that is not initialised refuses changes nothing. *)
Call(j, a) ==
  /\ pc = "idle" /\ calls < MaxCalls
  /\ calls' = calls + 1 /\ job' = j /\ addr' = a /\ first' = a
  /\ before' = mem /\ late' = Busy /\ lost' = {} /\ buf' = Fresh
  /\ UNCHANGED <<chipVars, register, up, lut, missed>>

Read(a, n) ==                     \* gd5fxx_read
  /\ Call("read", a)
  /\ IF ~up \/ a >= ChipSize
       THEN Return("error")
       ELSE StartRead(a, Cut(a, n)) /\ UNCHANGED <<length, index, marker>>

Write(a, n) ==                    \* gd5fxx_write
  /\ Call("write", a)
  /\ IF ~up \/ a >= ChipSize \/ n = 0
       THEN Return(IF up /\ a < ChipSize THEN "ok" ELSE "error")
       ELSE /\ length' = Cut(a, n) /\ UNCHANGED <<index, marker>>
            /\ StartBlock(a, Cut(a, n))

EraseBlock(a, force) ==           \* gd5fxx_blk_erase
  /\ a \in Addr /\ Call("erase", a)
  /\ IF ~up \/ (lut[Block(a)] /\ ~force)
       THEN Return("error")
       ELSE Goto("erase") /\ UNCHANGED <<length, index, marker, readVars>>

ProgramPage(a, n) ==              \* gd5fxx_page_program, inside one page
  /\ a \in Addr /\ (a % PageSize) + n <= PageSize /\ Call("page", a)
  /\ IF ~up \/ n = 0
       THEN Return(IF up THEN "ok" ELSE "error")
       ELSE /\ length' = n /\ index' = (a % BlockSize) \div PageSize
            /\ Goto("program") /\ UNCHANGED <<marker, readVars>>

(* gd5fxx_lock and gd5fxx_unlock.  A busy chip ignores the command; an error can
   strike before or after the chip has taken it. *)
Protect(p, ok, sent) ==
  /\ pc = "idle" /\ calls < MaxCalls /\ (ok => sent)
  /\ calls' = calls + 1 /\ job' = "lock"
  /\ prot' = IF sent /\ ~Busy THEN p ELSE prot
  /\ IF ok THEN Goto("locking") /\ UNCHANGED <<length, index, marker, readVars>> ELSE Return("error")
  /\ UNCHANGED <<mem, mark, op, failed, register, up, lut, addr, buf, first, before, late, missed, lost>>

(* gd5fxx_init: the table is built from the markers; a block whose marker cannot
   be read counts as bad.  gd5fxx_release is an init that fails. *)
InitDriver(ok, unread) ==
  /\ pc = "idle" /\ (ok => ~Busy)
  /\ up' = ok
  /\ lut' = [b \in Blocks |-> ok /\ b \in mark \cup unread]
  /\ job' = "init" /\ ret' = IF ok THEN "ok" ELSE "error"
  /\ missed' = (missed /\ ~ok)
  /\ UNCHANGED <<chipVars, register, pc, callVars, readVars, buf, marker, ghostVars, lost>>

-----------------------------------------------------------------------------
(* Reading.  The loop of gd5fxx_read serves the caller, or fills swap_buf. *)

\* The buffer of a write with the request laid over the old contents.
Merged(b) ==
  [k \in Addr |-> IF k < BlockSize /\ Requested(BlockBase(addr) + k)
                    THEN Data(BlockBase(addr) + k, calls) ELSE b[k]]

\* A write goes on to erase the block whether or not it could be read.
EndRead(b, r) ==
  IF job = "read"
    THEN Return(r) /\ buf' = b /\ UNCHANGED lost
    ELSE /\ buf' = Merged(b) /\ readLength' = 0 /\ readAddr' = 0 /\ mode' = "plain" /\ marker' = "good"
         /\ Goto("erase") /\ UNCHANGED <<length, index>>
         /\ lost' = IF r = "ok" THEN lost
                    ELSE lost \cup {a \in BlockCells(Block(addr)) : a >= readAddr /\ ~Requested(a)}

\* gd5fxx_enable_ecc, which also waits for the chip.
EnableEcc(outcome) ==
  /\ pc = "ecc" /\ outcome \in {"ok", "error", "misread"}
  /\ (outcome = "ok" => ~Busy) /\ (outcome = "misread" => Misreadable)
  /\ missed' = (missed \/ outcome = "misread")
  /\ IF outcome = "error" \/ readLength = 0
       THEN EndRead(buf, IF outcome = "error" THEN "error" ELSE "ok")
       ELSE Goto("page") /\ UNCHANGED <<length, index, readVars, marker, buf, lost>>
  /\ UNCHANGED <<chipVars, register, up, lut, job, addr, ghostVars>>

\* The page the chip has in its register when the driver fetches it: the next one
\* of a cached read was loaded when this one was fetched, but not from the next block.
Loaded == IF mode = "next" THEN register ELSE readAddr \div PageSize
NextLoaded == IF (Loaded + 1) % NPages = 0 THEN NoPage ELSE Loaded + 1
Fetched(i) == IF Busy \/ Loaded = NoPage THEN Stale ELSE mem[Loaded * PageSize + i]
Uncorrectable == \E i \in 0 .. PageSize - 1 : Fetched(i) = Junk

LastCachedByLength ==             \* pages are loaded ahead across the end of a block
  readLength <= PageSize

(* CACHE_RD_LAST: len is compared with length before it is cut to the page. *)
LastCached ==
  \/ (readAddr \div PageSize) % NPages = NPages - 1
  \/ readLength <= PageSize

\* How many cells of the page are read, and where they go.
ReadLen == LET rest == PageSize - (readAddr % PageSize) IN
           IF readLength < rest THEN readLength ELSE rest
BufAt == readAddr - (IF job = "read" THEN first ELSE BlockBase(addr))

CondemnMarksFirst(b) ==           \* the marker is programmed while the table still lets it
  UNCHANGED lut /\ b \in Blocks /\ marker' = "bad" /\ Goto("mark")
\* The block is bad from now on: entered in the table first, then marked.
Condemn(b) == lut' = [lut EXCEPT ![b] = TRUE] /\ marker' = "bad" /\ Goto("mark")

\* If the chip was not waited for, the driver gets what was in the register before.
FetchPage(waited) ==
  LET b == [k \in Addr |-> IF BufAt <= k /\ k < BufAt + ReadLen
                             THEN IF waited THEN Fetched((readAddr % PageSize) + k - BufAt) ELSE Stale
                             ELSE buf[k]]
      cached == mode # "plain" /\ ~LastCached
  IN /\ register' = IF cached THEN NextLoaded ELSE NoPage
     /\ IF readLength = ReadLen
          THEN /\ EndRead(b, "ok")
               /\ addr' = IF job = "read" THEN readAddr + ReadLen ELSE addr
          ELSE /\ readAddr' = readAddr + ReadLen /\ readLength' = readLength - ReadLen
               /\ mode' = IF mode = "plain" THEN "plain" ELSE IF cached THEN "next" ELSE "first"
               /\ buf' = b /\ Goto("page") /\ UNCHANGED <<addr, length, index, marker, lost>>
     /\ UNCHANGED lut

(* gd5fxx_read_page.  "nostatus": the ECC status cannot be read, which is taken
   for an ECC error; "misread": a failed poll is taken for "ready". *)
ReadPage(outcome) ==
  /\ pc = "page" /\ outcome \in {"ok", "error", "nostatus", "misread"}
  /\ (outcome = "misread" => ~missed /\ ~lut[Current]) /\ missed' = (missed \/ outcome = "misread")
  /\ CASE outcome = "error" \/ lut[Current] ->
            EndRead(buf, "error") /\ UNCHANGED <<lut, register, addr>>
       [] ~lut[Current] /\ (outcome = "nostatus" \/ (outcome = "ok" /\ Uncorrectable)) ->
            /\ Condemn(Current)
            /\ UNCHANGED <<register, callVars, readVars, buf, lost>>
       [] ~lut[Current] /\ (outcome = "misread" \/ (outcome = "ok" /\ ~Uncorrectable)) ->
            FetchPage(outcome = "ok")
  /\ UNCHANGED <<chipVars, up, job, ghostVars>>

-----------------------------------------------------------------------------
SendProtected(command, outcome) ==    \* the chip is not unprotected
  /\ outcome \in {"sent", "late"} => ~Busy
  /\ outcome = "lost" => Misreadable
  /\ op' = IF outcome \in {"sent", "late"} THEN command ELSE op
  /\ missed' = (missed \/ outcome = "lost")
  /\ UNCHANGED <<mem, mark, failed, prot>>

(* Commands.  gd5fxx_write_enable waits for the chip, unprotects it and looks at
   its answer: "refused" is an error on the way to the command, "late" one after
   the chip has taken it; "lost" is a command to a chip that was taken for ready. *)
Send(command, outcome) ==
  /\ outcome \in {"sent", "late"} => ~Busy
  /\ outcome = "lost" => Misreadable
  /\ op' = IF outcome \in {"sent", "late"} THEN command ELSE op
  /\ IF outcome \in {"sent", "late"} THEN prot' = FALSE ELSE prot' \in {prot, FALSE}
  /\ missed' = (missed \/ outcome = "lost")
  /\ UNCHANGED <<mem, mark, failed>>

Taken(outcome) == outcome \in {"sent", "lost"}

Erase(outcome) ==
  /\ pc = "erase"
  /\ Send([NoOp EXCEPT !.kind = "erase", !.at = BlockBase(addr)], outcome)
  /\ IF Taken(outcome)
       THEN Goto("erasing") /\ UNCHANGED <<length, index, readVars, marker>>
       ELSE Return("error")
  /\ UNCHANGED <<register, up, lut, job, addr, buf, ghostVars, lost>>

SourceOverErased(o) ==            \* the old contents are not kept
  LET a == BlockBase(addr) + o IN IF Requested(a) THEN Data(a, calls) ELSE Erased

\* What a page program puts into cell o of the block.
Source(o) ==
  LET a == BlockBase(addr) + o IN
  IF Requested(a) THEN Data(a, calls) ELSE IF job = "page" THEN Erased ELSE buf[o]

Program(outcome) ==               \* gd5fxx_page_program
  /\ pc = "program"
  /\ IF lut[Current]
       THEN outcome = "refused" /\ Return("error") /\ UNCHANGED <<chipVars, missed>>
       ELSE /\ Send([kind |-> "program", at |-> BlockBase(addr) + index * PageSize,
                     from |-> [i \in 0 .. PageSize - 1 |-> Source(index * PageSize + i)]], outcome)
            /\ IF Taken(outcome)
                 THEN Goto("programming") /\ UNCHANGED <<length, index, readVars, marker>>
                 ELSE Return("error")
  /\ UNCHANGED <<register, up, lut, job, addr, buf, ghostVars, lost>>

\* After gd5fxx_mark_bad_blk, whose result nobody looks at.
AfterMark ==
  CASE marker = "bad" /\ readLength > 0 -> EndRead(buf, "error")
    [] marker = "bad" /\ readLength = 0 -> Return("error") /\ UNCHANGED <<buf, lost>>
    [] marker = "good" /\ job = "erase" -> Return("ok") /\ UNCHANGED <<buf, lost>>
    [] marker = "good" /\ job # "erase" ->
         Goto("program") /\ UNCHANGED <<length, index, readVars, marker, buf, lost>>

(* gd5fxx_mark_bad_blk, a page program, which a block that is bad by the table
   refuses. *)
Mark(outcome) ==
  /\ pc = "mark"
  /\ IF lut[Current]
       THEN outcome = "refused" /\ AfterMark /\ UNCHANGED <<chipVars, missed>>
       ELSE /\ Send([NoOp EXCEPT !.kind = IF marker = "bad" THEN "mark" ELSE "unmark",
                                  !.at = BlockSize * Current], outcome)
            /\ IF Taken(outcome)
                 THEN Goto("marking") /\ UNCHANGED <<length, index, readVars, marker, buf, lost>>
                 ELSE AfterMark
  /\ UNCHANGED <<register, up, lut, job, addr, ghostVars>>

AdvanceTooFar ==                  \* page <= page_cnt
  LET rest == BlockBase(addr) + BlockSize - addr
      n == IF length < rest THEN length ELSE rest
  IN /\ CASE job = "page" -> Return("ok") /\ UNCHANGED addr
          [] job = "write" /\ index < NPages ->
               index' = index + 1 /\ Goto("program") /\ UNCHANGED <<addr, length, readVars, marker>>
          [] job = "write" /\ index = NPages ->
               /\ addr' = addr + n
               /\ IF length = n
                    THEN Return("ok")
                    ELSE /\ length' = length - n /\ index' = 0 /\ UNCHANGED marker
                         /\ StartBlock(addr + n, length - n)
     /\ UNCHANGED <<buf, lost>>

\* The next page; after the last one the next block, or the end of the call.
Advance ==
  LET rest == BlockBase(addr) + BlockSize - addr
      n == IF length < rest THEN length ELSE rest
  IN /\ CASE job = "page" -> Return("ok") /\ UNCHANGED addr
          [] job = "write" /\ index + 1 < NPages ->
               index' = index + 1 /\ Goto("program") /\ UNCHANGED <<addr, length, readVars, marker>>
          [] job = "write" /\ index + 1 = NPages ->
               /\ addr' = addr + n
               /\ IF length = n
                    THEN Return("ok")
                    ELSE /\ length' = length - n /\ index' = 0 /\ UNCHANGED marker
                         /\ StartBlock(addr + n, length - n)
     /\ UNCHANGED <<buf, lost>>

\* What follows, when the chip has failed, or the call has given up.
AfterWait(bad, gone) ==
  /\ CASE pc = "locking" ->
            Return(IF gone THEN "error" ELSE "ok") /\ UNCHANGED <<lut, addr, buf, lost>>
       [] pc = "marking" ->
            /\ lut' = [lut EXCEPT ![Current] = @ \/ bad]
            /\ AfterMark /\ UNCHANGED addr
       [] pc \in {"erasing", "programming"} /\ gone ->
            Return("error") /\ UNCHANGED <<lut, addr, buf, lost>>
       [] pc \in {"erasing", "programming"} /\ bad ->
            Condemn(Current) /\ UNCHANGED <<callVars, readVars, buf, lost>>
       [] pc = "erasing" /\ ~gone /\ ~bad ->
            /\ lut' = [lut EXCEPT ![Current] = FALSE]
            /\ marker' = "good" /\ Goto("mark")
            /\ UNCHANGED <<callVars, readVars, buf, lost>>
       [] pc = "programming" /\ ~gone /\ ~bad -> Advance /\ UNCHANGED lut
  /\ UNCHANGED <<chipVars, register, up, job, ghostVars>>

(* gd5fxx_wait_for_ready and the status after it: ready; polled for 20 seconds; a
   failed poll, taken for "ready"; the status itself cannot be read. *)
Polled(outcome) ==
  /\ pc \in {"erasing", "marking", "programming", "locking"}
  /\ \/ outcome = "ready" /\ ~Busy
     \/ outcome = "nostatus" /\ ~Busy /\ pc # "locking"
     \/ outcome = "timeout" /\ Busy
     \/ outcome = "misread" /\ Misreadable
  /\ missed' = (missed \/ outcome = "misread")

WaitIgnored(outcome) ==           \* a wait that has given up is not looked at
  Polled(outcome) /\ AfterWait(outcome = "ready" /\ failed, FALSE)
WaitForEver(outcome) ==           \* no limit to the polls
  outcome # "timeout" /\ Polled(outcome) /\ AfterWait(outcome = "ready" /\ failed, outcome = "nostatus")

Wait(outcome) ==
  Polled(outcome) /\ AfterWait(outcome = "ready" /\ failed, outcome \in {"timeout", "nostatus"})

-----------------------------------------------------------------------------
(* The chip. *)

\* The cells a command works on, and what it makes of them: only an erased cell
\* can be programmed, and only an erase removes a marker.
Touched(c) == CASE c.kind = "erase" -> BlockCells(Block(c.at))
                [] c.kind = "program" -> {a \in Addr : c.at <= a /\ a < c.at + PageSize}
                [] OTHER -> {}
Written(c, a) ==
  IF c.kind = "erase" THEN Erased
  ELSE IF c.from[a - c.at] = Erased THEN mem[a]
  ELSE IF mem[a] = Erased THEN c.from[a - c.at] ELSE Junk
Marked(c) ==
  CASE c.kind = "erase" -> mark \ {Block(c.at)}
    [] c.kind = "mark" -> mark \cup {Block(c.at)}
    [] OTHER -> mark

\* A command that fails, or is cut off, is done, has had no effect or left its cells
\* torn (an erase all of them alike).
Torn(c) ==
  /\ \E how \in {"done", "untouched", "torn"} :
       mem' = [a \in Addr |->
                 IF a \notin Touched(c) \/ how = "untouched" THEN mem[a]
                 ELSE IF how = "done" THEN Written(c, a) ELSE Junk]
  /\ mark' \in {mark, Marked(c)}

\* What a call finds if the chip was at work when it began.
Overtake == IF late THEN before' = mem' /\ late' = FALSE ELSE UNCHANGED <<before, late>>

\* The command ends; on a protected chip it fails without any effect.
Finish(fails) ==
  /\ Busy /\ op' = NoOp /\ failed' = fails
  /\ IF prot THEN fails /\ UNCHANGED <<mem, mark>>
     ELSE IF fails THEN Torn(op)
     ELSE /\ mem' = [a \in Addr |-> IF a \in Touched(op) THEN Written(op, a) ELSE mem[a]]
          /\ mark' = Marked(op)
  /\ Overtake
  /\ UNCHANGED <<prot, register, up, lut, pc, job, callVars, readVars, buf, marker, ret,
                 calls, first, missed, lost>>

PowerLoss ==
  /\ Torn(op) /\ op' = NoOp /\ failed' = FALSE /\ prot' = TRUE /\ register' = NoPage
  /\ up' = FALSE /\ lut' = [b \in Blocks |-> FALSE]
  /\ Return("reset") /\ buf' = Fresh
  /\ Overtake
  /\ UNCHANGED <<job, addr, calls, first, missed, lost>>

Driver(outcomes) ==
  \/ \E outcome \in outcomes : EnableEcc(outcome) \/ ReadPage(outcome) \/ Wait(outcome)
  \/ \E outcome \in {"sent", "late", "refused"} \cup (outcomes \cap {"lost"}) :
       Erase(outcome) \/ Program(outcome) \/ Mark(outcome)

Request ==
  \/ \E r \in Requests :
       \/ Read(r[1], r[2]) \/ Write(r[1], r[2]) \/ ProgramPage(r[1], r[2])
       \/ \E force \in BOOLEAN : EraseBlock(r[1], force)
  \/ \E p, ok, sent \in BOOLEAN : Protect(p, ok, sent)
  \/ \E ok \in BOOLEAN, unread \in Unreadable : InitDriver(ok, unread)

Next ==
  \/ Request
  \/ Driver({"ok", "error", "nostatus", "ready", "timeout", "misread", "lost"})
  \/ \E fails \in BOOLEAN : Finish(fails)
  \/ PowerLoss

Spec == Init /\ [][Next]_vars
\* The calling task keeps running and wait_for_ready gives up after 20 seconds; the
\* chip need not finish, nor the bus fail.
FairSpec == Spec /\ WF_vars(Driver({"ok", "error", "nostatus", "ready", "timeout"}))

-----------------------------------------------------------------------------
Done(a) == job = "write" /\ first <= a /\ a < addr

(* nand_flash.h:47, "random write, will do erase automatically": a write that
   returns FLASH_OK has put the request where it belongs, and its blocks are good
   by the table again; every other cell is as it was, but for those of a block
   that could not be read before it was erased. *)
OkMeansWritten ==
  pc = "idle" /\ job = "write" /\ ret = "ok" /\ ~missed =>
    \A a \in Addr :
      /\ a \notin lost => mem[a] = IF Done(a) THEN Data(a, calls) ELSE before[a]
      /\ Done(a) /\ up => ~lut[Block(a)]

(* A read that returns FLASH_OK has delivered the cells it was asked for, in their
   order, whether or not the pages were loaded ahead, and nothing uncorrectable. *)
OkMeansRead ==
  pc = "idle" /\ job = "read" /\ ret = "ok" /\ ~missed =>
    \A a \in first .. addr - 1 : buf[a - first] = mem[a] /\ mem[a] # Junk

(* Whatever goes wrong in a call, only the block it was at is harmed: those before
   it hold the request, those behind it what they held. *)
DamageConfined ==
  ~missed /\ ~late /\ job \in Transfers => \A a \in Addr : Block(a) # Block(addr) /\ a \notin lost =>
    mem[a] = IF Done(a) THEN Data(a, calls) ELSE before[a]

(* The table knows every marker on the chip, until an erase has removed it: a
   marked block is refused.  And only the factory's blocks carry a marker: what
   the driver finds bad at run time it forgets with the power, because the marker
   is programmed after the table was changed, and refused. *)
TableKnowsMarkers ==
  /\ up /\ ~missed => \A b \in mark : lut[b]
  /\ mark \subseteq Factory

(* A command never reaches a protected chip, which would answer with a failure and
   have a healthy block condemned. *)
CommandsUnprotected == Busy => ~prot

\* A call returns, in spite of any mixture of errors.
CallReturns == pc # "idle" ~> pc = "idle"
=============================================================================
