------------------------------ MODULE NorFlash ------------------------------
(***************************************************************************)
(* A write through the NOR flash driver w25qxx.c.  The chip can only clear *)
(* bits of a page and only set the bits of a whole sector, so w25qxx_write *)
(* takes the request sector by sector: read the old contents, erase if a   *)
(* bit must be set, program all pages of the sector again.  Every command  *)
(* over the SPI bus can fail, the wait for the chip can time out, and the  *)
(* power can go away between any two steps.  w25qxx_lock has the chip      *)
(* protect its lowest sectors, w25qxx_unlock none.                         *)
(*                                                                         *)
(* The chip works on its own: a command it accepts is pending until        *)
(* Finish, and one that reaches it before that, or that is meant for a     *)
(* protected sector, is ignored.                                           *)
(***************************************************************************)
EXTENDS Integers

CONSTANTS
  Bits,       \* the bits of a cell: an erased cell holds all of them
  PageSize,   \* w25qxx_FLASH_PAGE_SIZE, in cells
  NPages,     \* w25qxx_FLASH_PAGE_NUM_PER_SECTOR
  NSectors,   \* sectors of the chip
  Word,       \* 2^32: addresses and lengths are kept modulo Word
  Bounds,     \* addr_protected_bound of the chip's table; w25q128 has no table
  Starts,     \* bound: addresses of the requests
  Lengths     \* bound: lengths of the requests

SectorSize == NPages * PageSize
ChipSize == NSectors * SectorSize       \* m_chip_size

ASSUME NorAssumption ==
  /\ PageSize \in Nat \ {0} /\ NPages \in Nat \ {0} /\ NSectors \in Nat \ {0}
  /\ Word \in Nat /\ ChipSize < Word
  /\ Bounds \subseteq {k * SectorSize : k \in 1 .. NSectors}
  /\ Bounds # {} => ChipSize \in Bounds
  /\ Starts \subseteq 0 .. Word - 1 /\ Lengths \subseteq 0 .. Word - 1

Addr == 0 .. ChipSize - 1
Offsets == 0 .. SectorSize - 1
Cell == SUBSET Bits
Levels == Bounds \cup {0}

VARIABLES
  mem,      \* what the chip holds
  protected,    \* the chip protects the addresses below this one
  op,       \* the command the chip is working on
  pc,
  addr, length,    \* the rest of the request
  data,     \* data_buf, by the address each of its bytes is for
  base,     \* sector_addr
  swap,     \* swap_buf: the old contents of the sector
  index,    \* pages of the sector already programmed
  ret,      \* what the latest call has returned
  first, before,   \* where the call began, and what the chip held then
  missed,   \* the chip was busy when the call began, or taken for ready while busy
  locked    \* the region of the latest lock, if it was carried out

requestVars == <<data, first, before>>
chipVars == <<mem, protected, op>>
vars == <<chipVars, pc, addr, length, base, swap, index, ret, requestVars, missed, locked>>

PageOffsets == 0 .. PageSize - 1
NoOp == [kind |-> "none", at |-> 0, from |-> [i \in PageOffsets |-> {}]]
Clean == [o \in Offsets |-> {}]
PCs == {"idle", "read", "erase", "erasing", "program", "programming", "protecting"}

TypeOK ==
  /\ mem \in [Addr -> Cell] /\ before \in [Addr -> Cell] /\ data \in [Addr -> Cell]
  /\ swap \in [Offsets -> Cell]
  /\ op \in [kind : {"none", "erase", "program", "protect"}, at : Addr \cup Levels,
             from : [PageOffsets -> Cell]]
  /\ protected \in Levels /\ locked \subseteq Addr
  /\ pc \in PCs /\ ret \in {"none", "ok", "error", "reset"}
  /\ addr \in Nat /\ first \in Nat /\ length \in 0 .. Word - 1
  /\ base \in Addr /\ index \in 0 .. NPages - 1 /\ missed \in BOOLEAN

Init ==
  /\ mem = [a \in Addr |-> Bits] /\ op = NoOp
  /\ protected \in Levels /\ locked = {}
  /\ pc = "idle" /\ addr = 0 /\ length = 0 /\ base = 0 /\ index = 0
  /\ data = [a \in Addr |-> {}] /\ swap = Clean
  /\ ret = "none" /\ first = 0 /\ before = mem /\ missed = FALSE

-----------------------------------------------------------------------------
Busy == op.kind # "none"
Protected(a) == a < protected
\* The call ends, its buffer is freed and its locals are gone.
Return(r) == pc' = "idle" /\ ret' = r /\ length' = 0 /\ index' = 0 /\ swap' = Clean
Goto(l) == pc' = l /\ UNCHANGED ret

\* write_len: the rest of the request, or of the sector.
WriteLen == IF length < base + SectorSize - addr THEN length ELSE base + SectorSize - addr
Requested(a) == addr <= a /\ a < addr + length

\* Variants with one plausible slip each, here and below, for the mutation runs.
MustEraseTurnedRound(b, s) == \E o \in Offsets : Requested(b + o) /\ ~(s[o] \subseteq data[b + o])

\* A bit of the request is 1 where the sector at b, which holds s, has a 0.
MustErase(b, s) == \E o \in Offsets : Requested(b + o) /\ ~(data[b + o] \subseteq s[o])

MergedOverErased ==               \* the old contents are not kept
  [o \in Offsets |-> IF Requested(base + o) THEN data[base + o] ELSE Bits]

\* What the sector is to hold: the old contents with the request laid over them.
Merged == [o \in Offsets |-> IF Requested(base + o) THEN data[base + o] ELSE swap[o]]

-----------------------------------------------------------------------------
(* w25qxx_write(a, d, n).  The sum is taken modulo 2^32: a request that wraps is
   not cut to the chip, and is given up at the chip's end. *)
Call(a, n) ==
  /\ pc = "idle"
  /\ \E d \in [{x \in Addr : a <= x /\ x < a + n} -> Cell] :
       data' = [x \in Addr |-> IF a <= x /\ x < a + n THEN d[x] ELSE {}]
  /\ addr' = a /\ first' = a
  /\ IF a >= ChipSize \/ n = 0
       THEN Return(IF a >= ChipSize THEN "error" ELSE "ok")
       ELSE /\ length' = IF (a + n) % Word > ChipSize THEN ChipSize - a ELSE n
            /\ Goto("read") /\ UNCHANGED <<swap, index>>
  /\ before' = mem /\ missed' = Busy
  /\ UNCHANGED <<chipVars, base, locked>>

(* Read the sector and compare.  A busy chip answers with anything. *)
Read(ok) ==
  /\ pc = "read"
  /\ LET b == addr - (addr % SectorSize) IN
       IF b >= ChipSize \/ ~ok
         THEN Return("error") /\ UNCHANGED base
         ELSE /\ base' = b
              /\ swap' \in IF Busy THEN [Offsets -> Cell] ELSE {[o \in Offsets |-> mem[b + o]]}
              /\ Goto(IF MustErase(b, swap') THEN "erase" ELSE "program")
              /\ UNCHANGED <<length, index>>
  /\ UNCHANGED <<chipVars, addr, requestVars, missed, locked>>

(* Write-enable and the command itself.  An error can strike before or after the
   chip has taken the command. *)
Send(command, sent) ==
  LET refused == command.kind # "protect" /\ Protected(command.at) IN
  op' = IF sent /\ ~Busy /\ ~refused THEN command ELSE op

Erase(ok, sent) ==                \* w25qxx_sector_erase
  /\ pc = "erase" /\ (ok => sent)
  /\ Send([NoOp EXCEPT !.kind = "erase", !.at = base], sent)
  /\ IF ok THEN Goto("erasing") /\ UNCHANGED <<length, swap, index>> ELSE Return("error")
  /\ UNCHANGED <<mem, protected, addr, base, requestVars, missed, locked>>

Program(ok, sent) ==              \* w25qxx_page_program
  /\ pc = "program" /\ (ok => sent)
  /\ LET page == index * PageSize IN
       Send([kind |-> "program", at |-> base + page,
             from |-> [i \in PageOffsets |-> Merged[page + i]]], sent)
  /\ IF ok THEN Goto("programming") /\ UNCHANGED <<length, swap, index>> ELSE Return("error")
  /\ UNCHANGED <<mem, protected, addr, base, requestVars, missed, locked>>

\* The next page; after the last one the next sector, or the end of the call.
Advance ==
  IF index + 1 < NPages
    THEN index' = index + 1 /\ Goto("program") /\ UNCHANGED <<addr, length, swap>>
    ELSE /\ addr' = addr + WriteLen
         /\ IF length = WriteLen
              THEN Return("ok")
              ELSE length' = length - WriteLen /\ index' = 0 /\ Goto("read") /\ UNCHANGED swap

WaitIgnored(outcome) ==           \* the answer of wait_for_ready is not looked at
  /\ pc \in {"erasing", "programming"}
  /\ outcome = "ready" => ~Busy
  /\ missed' = (missed \/ (outcome = "misread" /\ Busy))
  /\ IF pc = "erasing"
       THEN Goto("program") /\ UNCHANGED <<addr, length, swap, index>>
       ELSE Advance
  /\ UNCHANGED <<chipVars, base, requestVars, locked>>
WaitForEver(outcome) ==           \* no limit to the polls
  /\ pc \in {"erasing", "programming"} /\ outcome # "timeout"
  /\ outcome = "ready" => ~Busy
  /\ missed' = (missed \/ (outcome = "misread" /\ Busy))
  /\ IF pc = "erasing"
       THEN Goto("program") /\ UNCHANGED <<addr, length, swap, index>>
       ELSE Advance
  /\ UNCHANGED <<chipVars, base, requestVars, locked>>

(* w25qxx_wait_for_ready: the chip is ready; or it has been polled for 20
   seconds; or a status read fails, which w25qxx_is_busy takes for "ready". *)
Wait(outcome) ==
  /\ pc \in {"erasing", "programming"}
  /\ outcome = "ready" => ~Busy
  /\ outcome = "timeout" => Busy
  /\ missed' = (missed \/ (outcome = "misread" /\ Busy))
  /\ IF outcome = "timeout"
       THEN Return("error") /\ UNCHANGED addr
       ELSE IF pc = "erasing"
              THEN Goto("program") /\ UNCHANGED <<addr, length, swap, index>>
              ELSE Advance
  /\ UNCHANGED <<chipVars, base, requestVars, locked>>

-----------------------------------------------------------------------------
LockLevelOfStart(a, n) ==         \* the length is forgotten
  LET above == {t \in Bounds : a < t} IN
  IF above # {} THEN CHOOSE t \in above : \A u \in above : t <= u
  ELSE IF Bounds # {} THEN ChipSize ELSE 0

(* The first bound of the table behind the region's end, or the last one of all;
   without a table nothing is protected. *)
LockLevel(a, n) ==
  LET above == {t \in Bounds : (a + n) % Word < t} IN
  IF above # {} THEN CHOOSE t \in above : \A u \in above : t <= u
  ELSE IF Bounds # {} THEN ChipSize ELSE 0

(* w25qxx_write_prot_cfg for lock(a, n) and, with level 0, for unlock.  Whatever
   fails, the answer is FLASH_OK. *)
Protect(a, n, level, ok, sent) ==
  /\ pc = "idle" /\ (ok => sent)
  /\ Send([NoOp EXCEPT !.kind = "protect", !.at = level], sent)
  /\ addr' = a /\ first' = a /\ before' = mem /\ data' = [x \in Addr |-> {}]
  /\ IF ok THEN Goto("protecting") /\ length' = n /\ UNCHANGED <<swap, index>> ELSE Return("ok")
  /\ missed' = Busy /\ locked' = {}
  /\ UNCHANGED <<mem, protected, base>>

Lock(a, n, ok, sent) == Protect(a, n, LockLevel(a, n), ok, sent)
Unlock(ok, sent) == Protect(0, 0, 0, ok, sent)

\* The region of a lock; a table is needed, and an end that does not wrap.
Region == {x \in Addr : Bounds # {} /\ addr + length < Word /\ Requested(x)}

\* The answer of wait_for_ready is not looked at.
EndProtect(outcome) ==
  /\ pc = "protecting"
  /\ outcome = "ready" => ~Busy
  /\ outcome = "timeout" => Busy
  /\ missed' = (missed \/ (outcome = "misread" /\ Busy))
  /\ locked' = IF Busy \/ missed THEN {} ELSE Region
  /\ Return("ok")
  /\ UNCHANGED <<chipVars, addr, base, requestVars>>

-----------------------------------------------------------------------------
\* The cells a command works on, and what it makes of them.
Sector(b) == {a \in Addr : b <= a /\ a < b + SectorSize}
Touched(c) == CASE c.kind = "none" -> {}
                [] c.kind = "erase" -> Sector(c.at)
                [] c.kind = "protect" -> {}
                [] c.kind = "program" -> {a \in Addr : c.at <= a /\ a < c.at + PageSize}
Effect(c, a) == IF c.kind = "erase" THEN Bits ELSE mem[a] \cap c.from[a - c.at]

Finish ==
  /\ Busy
  /\ mem' = [a \in Addr |-> IF a \in Touched(op) THEN Effect(op, a) ELSE mem[a]]
  /\ protected' = IF op.kind = "protect" THEN op.at ELSE protected
  /\ op' = NoOp
  /\ UNCHANGED <<pc, addr, length, base, swap, index, ret, requestVars, missed, locked>>

(* The power goes away: what the chip was working on is left with some of its
   bits changed and others not, the protection bits included. *)
PowerLoss ==
  /\ \E m \in [Touched(op) -> Cell] :
       /\ \A a \in Touched(op) : LET e == Effect(op, a) IN
            m[a] \subseteq (mem[a] \cup e) /\ (mem[a] \cap e) \subseteq m[a]
       /\ mem' = [a \in Addr |-> IF a \in Touched(op) THEN m[a] ELSE mem[a]]
  /\ protected' \in IF op.kind = "protect" THEN Levels ELSE {protected}
  /\ op' = NoOp
  /\ Return("reset")
  /\ UNCHANGED <<addr, base, requestVars, missed, locked>>

Driver(outcomes) ==
  \/ \E ok \in BOOLEAN : Read(ok)
  \/ \E ok, sent \in BOOLEAN : Erase(ok, sent) \/ Program(ok, sent)
  \/ \E outcome \in outcomes : Wait(outcome) \/ EndProtect(outcome)

Next ==
  \/ \E a \in Starts, n \in Lengths : Call(a, n)
  \/ \E ok, sent \in BOOLEAN : \/ \E a \in Starts, n \in Lengths : Lock(a, n, ok, sent)
                               \/ Unlock(ok, sent)
  \/ Driver({"ready", "timeout", "misread"}) \/ Finish \/ PowerLoss

Spec == Init /\ [][Next]_vars
\* The calling task keeps running, and wait_for_ready gives up after 20 seconds;
\* the chip need not finish, nor the bus fail.
FairSpec == Spec /\ WF_vars(Driver({"ready", "timeout"}))

-----------------------------------------------------------------------------
\* What the call has dealt with: it goes through its addresses in order.
Written(a) == first <= a /\ a < addr

\* What a cell is to hold: a protected one what it held, whatever the answer is.
Want(a) == IF Written(a) /\ ~Protected(a) THEN data[a] ELSE before[a]

(* nor_flash.h:39, "random write, will do erase automatically": a write that
   returns FLASH_OK has put the request where it belongs, except into protected
   sectors, and has left every other cell as it was, whatever had to be erased on
   the way; lock and unlock change no cell.  Nothing is claimed if the chip was
   taken for ready while it was not. *)
OkMeansWritten ==
  pc = "idle" /\ ret = "ok" /\ ~missed => \A a \in Addr : mem[a] = Want(a)

(* Wherever a write stops, by an error or by the loss of power, only the sector
   it was at can be harmed, and not even that if it is protected: the sectors
   before it hold the request, those behind it what they held before. *)
DamageConfined ==
  ~missed => \A a \in Addr : a \notin Sector(base) \/ Protected(a) => mem[a] = Want(a)

(* A page is never programmed over cleared bits that it needs: the decision not to
   erase was made for the whole sector, and holds to its last page. *)
ProgramTakes ==
  ~missed /\ op.kind = "program" => \A a \in Touched(op) : op.from[a - op.at] \subseteq mem[a]

(* nor_flash.h:54, "lock a specific region": once a lock was carried out, no call of
   any kind changes its region before the next lock or unlock, also when commands
   are lost, late or cut by a loss of power. *)
LockedUnchanged == [][\A a \in locked \cap locked' : mem'[a] = mem[a]]_vars

\* A call returns, in spite of any mixture of errors.
CallReturns == pc # "idle" ~> pc = "idle"
=============================================================================
