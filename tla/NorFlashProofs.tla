--------------------------- MODULE NorFlashProofs ---------------------------
(***************************************************************************)
(* The NOR driver, for every size of page, sector and chip and every table *)
(* of protection bounds: types, that an error or a loss of power harms one *)
(* open sector at most, that a write that returns FLASH_OK has written,    *)
(* and that a locked region stays as it is.                                *)
(***************************************************************************)
EXTENDS NorFlash, WellFoundedInduction, TLAPS

-----------------------------------------------------------------------------
(* Arithmetic of pages and sectors, the only place where products occur. *)
LEMMA Sizes ==
  /\ SectorSize \in Nat \ {0} /\ ChipSize \in Nat \ {0}
  /\ SectorSize <= ChipSize /\ ChipSize < Word /\ Word \in Nat
  /\ PageSize \in Nat \ {0} /\ NPages \in Nat \ {0}
<1>1. SectorSize \in Nat \ {0}
  BY NorAssumption, SMT DEF SectorSize
<1> DEFINE S == SectorSize
<1>2. S \in Nat \ {0}
  BY <1>1
<1> HIDE DEF S
<1>3. NSectors * S \in Nat /\ S <= NSectors * S
  BY <1>2, NorAssumption, SMT
<1> QED BY <1>1, <1>3, NorAssumption, SMT DEF ChipSize, S

LEMMA Requests ==
  /\ \A a \in Starts : a \in 0 .. Word - 1 /\ a \in Nat
  /\ \A n \in Lengths : n \in 0 .. Word - 1 /\ n \in Nat
<1>1. Starts \subseteq 0 .. Word - 1 /\ Lengths \subseteq 0 .. Word - 1
  BY NorAssumption, Zenon
<1> QED BY <1>1, SMT

\* Page i lies inside the sector, and the pages cover it.
LEMMA Pages ==
  ASSUME NEW i \in 0 .. NPages - 1
  PROVE  /\ i * PageSize \in Nat
         /\ i * PageSize + PageSize <= SectorSize
         /\ (i + 1) * PageSize = i * PageSize + PageSize
         /\ i + 1 = NPages => i * PageSize + PageSize = SectorSize
<1>1. i \in Nat /\ i + 1 <= NPages /\ PageSize \in Nat /\ NPages \in Nat
  BY NorAssumption, SMT
<1>2. i * PageSize \in Nat
  BY <1>1, SMT
<1>3. (i + 1) * PageSize = i * PageSize + PageSize
  BY <1>1, SMT
<1>4. (i + 1) * PageSize <= NPages * PageSize
  BY <1>1, SMT
<1> QED BY <1>1, <1>2, <1>3, <1>4, SMT DEF SectorSize

\* The sector of an address is inside the chip as a whole or not at all.
LEMMA SectorBase ==
  ASSUME NEW a \in Nat, a - (a % SectorSize) < ChipSize
  PROVE  LET b == a - (a % SectorSize) IN
         /\ b \in Nat /\ b <= a /\ a < b + SectorSize
         /\ b + SectorSize <= ChipSize
         /\ \E k \in 0 .. NSectors : b = k * SectorSize
<1> DEFINE S == SectorSize  k == a \div S  b == a - (a % S)
<1>1. S \in Nat \ {0} /\ ChipSize = NSectors * S /\ NSectors \in Nat
  BY Sizes, NorAssumption DEF ChipSize
<1> HIDE DEF S
<1>2. k \in Nat /\ a = S * k + (a % S) /\ a % S \in 0 .. S - 1
  BY <1>1, SMT
<1> HIDE DEF k
<1>3. b = S * k /\ S * k \in Nat
  BY <1>1, <1>2, SMT
<1>4. k < NSectors
  <2>1. SUFFICES ASSUME k >= NSectors PROVE FALSE
    BY <1>1, <1>2, SMT
  <2>2. NSectors * S <= S * k
    BY <1>1, <1>2, <2>1, SMT
  <2>3. b < ChipSize
    BY DEF S
  <2> QED BY <1>1, <1>2, <1>3, <2>2, <2>3, SMT
<1>5. S * k + S <= NSectors * S
  <2>1. k + 1 <= NSectors
    BY <1>1, <1>2, <1>4, SMT
  <2>2. S * (k + 1) <= NSectors * S
    BY <1>1, <1>2, <2>1, SMT
  <2> QED BY <1>1, <1>2, <2>2, SMT
<1>6. b \in Nat /\ b <= a /\ a < b + S /\ b + S <= ChipSize
  BY <1>1, <1>2, <1>3, <1>5, SMT
<1>7. k \in 0 .. NSectors /\ b = k * S
  BY <1>1, <1>2, <1>3, <1>4, SMT
<1> QED BY <1>6, <1>7 DEF S

\* A sector lies below the bound of the protected area or above it, never across.
Boundaries == {k * SectorSize : k \in 0 .. NSectors}

LEMMA LevelsAreBoundaries ==
  /\ Levels \subseteq Boundaries /\ 0 \in Boundaries
  /\ Boundaries \subseteq Nat /\ Bounds \subseteq Nat
  /\ Bounds # {} => ChipSize \in Levels
<1> DEFINE S == SectorSize
<1>1. S \in Nat \ {0} /\ NSectors \in Nat /\ Boundaries = {k * S : k \in 0 .. NSectors}
  BY Sizes, NorAssumption DEF Boundaries
<1>2. Bounds \subseteq {k * S : k \in 1 .. NSectors} /\ (Bounds # {} => ChipSize \in Bounds)
  BY NorAssumption
<1> HIDE DEF S
<1>3. \A k \in 0 .. NSectors : k * S \in Nat
  BY <1>1, SMT
<1>4. 0 = 0 * S /\ 0 \in 0 .. NSectors /\ 1 .. NSectors \subseteq 0 .. NSectors
  BY <1>1, SMT
<1>5. 0 \in Boundaries
  BY <1>1, <1>4, Zenon
<1>6. Bounds \subseteq Boundaries
  BY <1>1, <1>2, <1>4
<1> QED BY <1>1, <1>2, <1>3, <1>5, <1>6 DEF Levels

LEMMA NotAcross ==
  ASSUME NEW b \in Boundaries, NEW p \in Boundaries, b < p
  PROVE  b + SectorSize <= p
<1> DEFINE S == SectorSize
<1>1. PICK k \in 0 .. NSectors : b = k * S
  BY DEF Boundaries
<1>2. PICK m \in 0 .. NSectors : p = m * S
  BY DEF Boundaries
<1>3. S \in Nat \ {0} /\ NSectors \in Nat
  BY Sizes, NorAssumption
<1> HIDE DEF S
<1>4. k < m
  <2>1. SUFFICES ASSUME m <= k PROVE FALSE
    BY <1>1, <1>2, <1>3, SMT
  <2>2. m * S <= k * S
    BY <1>3, <2>1, SMT
  <2>3. m * S \in Nat /\ k * S \in Nat
    BY <1>3, SMT
  <2> QED BY <1>1, <1>2, <2>2, <2>3, SMT
<1>5. (k + 1) * S <= m * S
  <2>1. k + 1 <= m
    BY <1>3, <1>4, SMT
  <2> QED BY <1>3, <2>1, SMT
<1>6. (k + 1) * S = k * S + S
  BY <1>3, SMT
<1>7. b + S <= p
  BY <1>1, <1>2, <1>5, <1>6
<1> QED BY <1>7 DEF S

\* The area a lock protects: one of the table, and enough for the region.
LEMMA LockLevelFacts ==
  ASSUME NEW a \in 0 .. Word - 1, NEW n \in 0 .. Word - 1
  PROVE  /\ LockLevel(a, n) \in Levels
         /\ Bounds # {} => (a + n) % Word < LockLevel(a, n) \/ LockLevel(a, n) = ChipSize
<1> DEFINE e == (a + n) % Word  above == {t \in Bounds : e < t}
<1>1. CASE above # {}
  <2>1. above \subseteq Nat
    BY LevelsAreBoundaries
  <2>2. \E t \in above : \A u \in above : ~(<<u, t>> \in OpToRel(<, Nat))
    <3> HIDE DEF above
    <3> QED BY <1>1, <2>1, NatLessThanWellFounded, WFMin
  <2>3. \E t \in above : \A u \in above : t <= u
    <3>1. PICK t \in above : \A u \in above : ~(<<u, t>> \in OpToRel(<, Nat))
      BY <2>2
    <3> HIDE DEF above
    <3>2. \A u \in above : ~(u < t)
      BY <2>1, <3>1 DEF OpToRel
    <3> QED BY <2>1, <3>2, SMT
  <2>4. LockLevel(a, n) = CHOOSE t \in above : \A u \in above : t <= u
    BY <1>1 DEF LockLevel
  <2>5. LockLevel(a, n) \in above
    <3> HIDE DEF above
    <3> QED BY <2>3, <2>4, Zenon
  <2> QED BY <2>5 DEF Levels
<1>2. CASE above = {}
  <2>1. LockLevel(a, n) = IF Bounds # {} THEN ChipSize ELSE 0
    BY <1>2 DEF LockLevel
  <2> QED BY <2>1, LevelsAreBoundaries DEF Levels
<1> QED BY <1>1, <1>2

-----------------------------------------------------------------------------
(* Types.  The locals of a call stay in their ranges: the sector lies inside the
   chip, the address inside the sector, and a rest is left. *)
Locals ==
  /\ base + SectorSize <= ChipSize /\ base \in Boundaries /\ first <= addr
  /\ pc \notin {"idle", "protecting"} => length > 0
  /\ pc \notin {"idle", "read", "protecting"} => base <= addr /\ addr < base + SectorSize
  /\ pc \notin {"program", "programming"} => index = 0
  /\ op.kind = "protect" => op.at \in Levels

TypeInv == TypeOK /\ Locals

Commands == [kind : {"none", "erase", "program", "protect"}, at : Addr \cup Levels,
             from : [PageOffsets -> Cell]]

LEMMA SimpleTypes ==
  /\ 0 \in Addr /\ 0 \in 0 .. NPages - 1 /\ 0 \in 0 .. Word - 1
  /\ NoOp \in Commands /\ Clean \in [Offsets -> Cell]
<1>1. 0 \in Addr /\ 0 \in 0 .. NPages - 1 /\ 0 \in 0 .. Word - 1
  BY Sizes, SMT DEF Addr
<1>2. NoOp \in Commands
  BY <1>1 DEF NoOp, Commands, Cell
<1>3. Clean \in [Offsets -> Cell]
  BY DEF Clean, Cell
<1> QED BY <1>1, <1>2, <1>3

\* Where the sector and the pages of the command being sent lie.
LEMMA CellsInside ==
  ASSUME TypeInv
  PROVE  /\ \A o \in Offsets : o \in Nat /\ base + o \in Addr
         /\ base + index * PageSize \in Addr
         /\ \A i \in PageOffsets : index * PageSize + i \in Offsets
<1> DEFINE page == index * PageSize
<1>1. base \in Nat /\ base + SectorSize <= ChipSize
  BY Sizes, SMT DEF TypeInv, TypeOK, Locals, Addr
<1>2. page \in Nat /\ page + PageSize <= SectorSize
  BY Pages DEF TypeInv, TypeOK
<1> HIDE DEF page
<1>3. \A o \in Offsets : o \in Nat /\ base + o \in Addr
  BY <1>1, Sizes, SMT DEF Offsets, Addr
<1>4. base + page \in Addr
  BY <1>1, <1>2, Sizes, SMT DEF Addr
<1>5. \A i \in PageOffsets : page + i \in Offsets
  BY <1>2, Sizes, SMT DEF PageOffsets, Offsets
<1> QED BY <1>3, <1>4, <1>5 DEF page

LEMMA MergedType == TypeInv => Merged \in [Offsets -> Cell]
<1> SUFFICES ASSUME TypeInv, NEW o \in Offsets
             PROVE  data[base + o] \in Cell /\ swap[o] \in Cell
  BY DEF Merged
<1> QED BY CellsInside DEF TypeInv, TypeOK

\* What is written of the rest of a request: something, and no more than there is.
LEMMA WriteLenFacts ==
  ASSUME TypeInv, pc \notin {"idle", "read", "protecting"}
  PROVE  /\ WriteLen \in Nat \ {0} /\ WriteLen <= length
         /\ length - WriteLen \in 0 .. Word - 1
         /\ length # WriteLen => length - WriteLen > 0
         /\ addr + WriteLen \in Nat /\ addr <= addr + WriteLen
BY Sizes, SMT DEF TypeInv, TypeOK, Locals, WriteLen, Addr

LEMMA TypeInit == Init => TypeInv
<1> SUFFICES ASSUME Init PROVE TypeInv
  OBVIOUS
<1>1. mem \in [Addr -> Cell] /\ before \in [Addr -> Cell] /\ data \in [Addr -> Cell]
  BY DEF Init, Cell
<1>2. TypeOK
  <2>1. op \in Commands /\ swap \in [Offsets -> Cell]
    BY SimpleTypes DEF Init
  <2>2. /\ pc \in PCs /\ ret \in {"none", "ok", "error", "reset"}
        /\ addr \in Nat /\ first \in Nat /\ length \in 0 .. Word - 1
        /\ base \in Addr /\ index \in 0 .. NPages - 1 /\ missed \in BOOLEAN
        /\ protected \in Levels /\ locked \subseteq Addr
    BY SimpleTypes DEF Init, PCs
  <2> QED BY <1>1, <2>1, <2>2 DEF TypeOK, Commands
<1>3. Locals
  <2>1. base \in Boundaries /\ op.kind # "protect"
    BY LevelsAreBoundaries DEF Init, NoOp
  <2> QED BY <2>1, Sizes, SMT DEF Init, Locals
<1> QED BY <1>2, <1>3 DEF TypeInv

\* A call that ends leaves its locals in their ranges.
LEMMA ReturnType ==
  ASSUME TypeInv, NEW r \in {"ok", "error", "reset"}, Return(r)
  PROVE  /\ pc' = "idle" /\ index' = 0
         /\ pc' \in PCs /\ ret' \in {"none", "ok", "error", "reset"}
         /\ length' \in 0 .. Word - 1 /\ index' \in 0 .. NPages - 1
         /\ swap' \in [Offsets -> Cell]
BY SimpleTypes, Zenon DEF Return, PCs

LEMMA TypeStep == TypeInv /\ [Next]_vars => TypeInv'
<1> SUFFICES ASSUME TypeInv, [Next]_vars PROVE TypeInv'
  OBVIOUS
<1>0. TypeOK /\ Locals
  BY DEF TypeInv
<1>1. CASE UNCHANGED vars
  BY <1>0, <1>1 DEF vars, chipVars, requestVars, TypeInv, TypeOK, Locals
<1>2. ASSUME NEW a \in Starts, NEW n \in Lengths, Call(a, n) PROVE TypeInv'
  <2>1. data' \in [Addr -> Cell]
    <3>1. PICK d \in [{x \in Addr : a <= x /\ x < a + n} -> Cell] :
            data' = [x \in Addr |-> IF a <= x /\ x < a + n THEN d[x] ELSE {}]
      BY <1>2 DEF Call
    <3> QED BY <3>1 DEF Cell
  <2>2. a \in Nat /\ n \in Nat /\ n \in 0 .. Word - 1
    BY Requests
  <2>3. /\ addr' = a /\ first' = a /\ before' = mem /\ missed' = Busy
        /\ UNCHANGED <<mem, protected, op, base, locked>>
    BY <1>2 DEF Call, chipVars
  <2>4. /\ pc' \in PCs /\ ret' \in {"none", "ok", "error", "reset"}
        /\ length' \in 0 .. Word - 1 /\ index' \in 0 .. NPages - 1
        /\ swap' \in [Offsets -> Cell]
        /\ index' = 0 /\ (pc' # "idle" => length' > 0 /\ pc' = "read")
    <3>1. CASE a >= ChipSize \/ n = 0
      <4>1. \/ Return("error") \/ Return("ok")
        BY <1>2, <3>1 DEF Call
      <4> QED BY <4>1, ReturnType
    <3>2. CASE ~(a >= ChipSize \/ n = 0)
      <4>1. /\ length' = IF (a + n) % Word > ChipSize THEN ChipSize - a ELSE n
            /\ pc' = "read" /\ UNCHANGED <<ret, swap, index>>
        BY <1>2, <3>2 DEF Call, Goto
      <4>2. length' \in 0 .. Word - 1 /\ length' > 0
        BY <2>2, <3>2, <4>1, Sizes, SMT
      <4> QED BY <1>0, <1>2, <4>1, <4>2 DEF TypeOK, PCs, Locals, Call
    <3> QED BY <3>1, <3>2
  <2>5. TypeOK'
    BY <1>0, <2>1, <2>2, <2>3, <2>4 DEF TypeOK, Busy
  <2>6. Locals'
    BY <1>0, <2>2, <2>3, <2>4, SMT DEF Locals
  <2> QED BY <2>5, <2>6 DEF TypeInv
<1>3. ASSUME NEW ok \in BOOLEAN, Read(ok) PROVE TypeInv'
  <2> DEFINE b == addr - (addr % SectorSize)
  <2>1. pc = "read" /\ UNCHANGED <<mem, protected, op, addr, requestVars, missed, locked>>
    BY <1>3 DEF Read, chipVars
  <2>2. CASE b >= ChipSize \/ ~ok
    <3>1. Return("error") /\ UNCHANGED base
      BY <1>3, <2>2 DEF Read
    <3>2. /\ pc' = "idle" /\ index' = 0 /\ pc' \in PCs
          /\ ret' \in {"none", "ok", "error", "reset"}
          /\ length' \in 0 .. Word - 1 /\ index' \in 0 .. NPages - 1
          /\ swap' \in [Offsets -> Cell]
      BY <3>1, ReturnType
    <3> QED BY <1>0, <2>1, <3>1, <3>2 DEF TypeInv, TypeOK, Locals, requestVars
  <2>3. CASE ~(b >= ChipSize \/ ~ok)
    <3>1. /\ base' = b
          /\ swap' \in IF Busy THEN [Offsets -> Cell] ELSE {[o \in Offsets |-> mem[b + o]]}
          /\ pc' \in {"erase", "program"} /\ UNCHANGED <<ret, length, index>>
      BY <1>3, <2>3 DEF Read, Goto
    <3>2. /\ b \in Nat /\ b <= addr /\ addr < b + SectorSize /\ b + SectorSize <= ChipSize
          /\ b \in Boundaries
      <4>1. addr \in Nat /\ ~(b >= ChipSize)
        BY <1>0, <2>3 DEF TypeOK
      <4>2. b < ChipSize
        BY <4>1, Sizes, SMT
      <4> QED BY <4>1, <4>2, SectorBase DEF Boundaries
    <3> HIDE DEF b
    <3>3. b \in Addr /\ \A o \in Offsets : b + o \in Addr
      BY <3>2, Sizes, SMT DEF Addr, Offsets
    <3>4. swap' \in [Offsets -> Cell]
      <4>1. [o \in Offsets |-> mem[b + o]] \in [Offsets -> Cell]
        BY <1>0, <3>3 DEF TypeOK
      <4> QED BY <3>1, <4>1
    <3>5. TypeOK'
      BY <1>0, <2>1, <3>1, <3>3, <3>4 DEF TypeOK, PCs, requestVars
    <3>6. Locals'
      BY <1>0, <2>1, <3>1, <3>2, SMT DEF Locals, requestVars
    <3> QED BY <3>5, <3>6 DEF TypeInv
  <2> QED BY <2>2, <2>3
<1>4. ASSUME NEW ok \in BOOLEAN, NEW sent \in BOOLEAN, Erase(ok, sent) PROVE TypeInv'
  <2>1. pc = "erase" /\ UNCHANGED <<mem, protected, addr, base, requestVars, missed, locked>>
    BY <1>4 DEF Erase
  <2>2. op' \in Commands /\ (op'.kind = "protect" => op'.at \in Levels)
    <3> DEFINE c == [NoOp EXCEPT !.kind = "erase", !.at = base]
    <3>1. c \in Commands /\ c.kind # "protect"
      BY <1>0, SimpleTypes DEF TypeOK, Commands
    <3>2. op' = c \/ op' = op
      BY <1>4 DEF Erase, Send
    <3> HIDE DEF c
    <3> QED BY <1>0, <3>1, <3>2 DEF TypeOK, Commands, Locals
  <2>3. \/ Return("error")
        \/ pc' = "erasing" /\ UNCHANGED <<ret, length, swap, index>>
    BY <1>4 DEF Erase, Goto
  <2> QED BY <1>0, <2>1, <2>2, <2>3, ReturnType
        DEF TypeInv, TypeOK, Locals, PCs, Commands, requestVars
<1>5. ASSUME NEW ok \in BOOLEAN, NEW sent \in BOOLEAN, Program(ok, sent) PROVE TypeInv'
  <2> DEFINE page == index * PageSize
             c == [kind |-> "program", at |-> base + page,
                   from |-> [i \in PageOffsets |-> Merged[page + i]]]
  <2>1. pc = "program" /\ UNCHANGED <<mem, protected, addr, base, requestVars, missed, locked>>
    BY <1>5 DEF Program
  <2>2. op' \in Commands /\ (op'.kind = "protect" => op'.at \in Levels)
    <3>1. c \in Commands /\ c.kind # "protect"
      <4>1. c \in Commands
        BY CellsInside, MergedType, Zenon DEF Commands
      <4> QED BY <4>1
    <3>2. op' = c \/ op' = op
      BY <1>5 DEF Program, Send
    <3> HIDE DEF c
    <3> QED BY <1>0, <3>1, <3>2 DEF TypeOK, Commands, Locals
  <2>3. \/ Return("error")
        \/ pc' = "programming" /\ UNCHANGED <<ret, length, swap, index>>
    BY <1>5 DEF Program, Goto
  <2> QED BY <1>0, <2>1, <2>2, <2>3, ReturnType
        DEF TypeInv, TypeOK, Locals, PCs, Commands, requestVars
<1>6. ASSUME NEW outcome \in {"ready", "timeout", "misread"}, Wait(outcome) PROVE TypeInv'
  <2>1. /\ pc \in {"erasing", "programming"} /\ missed' \in BOOLEAN
        /\ UNCHANGED <<mem, protected, op, base, requestVars, locked>>
    BY <1>0, <1>6 DEF Wait, TypeOK, Busy, chipVars
  <2>2. CASE Return("error") /\ UNCHANGED addr
    BY <1>0, <2>1, <2>2, ReturnType DEF TypeInv, TypeOK, Locals, requestVars
  <2>3. CASE pc' = "program" /\ UNCHANGED <<ret, addr, length, swap, index>>
    BY <1>0, <2>1, <2>3 DEF TypeInv, TypeOK, Locals, PCs, requestVars
  <2>4. CASE Advance
    <3>1. CASE index + 1 < NPages
      <4>1. index' = index + 1 /\ pc' = "program" /\ UNCHANGED <<ret, addr, length, swap>>
        BY <2>4, <3>1 DEF Advance, Goto
      <4>2. index' \in 0 .. NPages - 1
        BY <1>0, <3>1, <4>1, Sizes, SMT DEF TypeOK
      <4> QED BY <1>0, <2>1, <4>1, <4>2 DEF TypeInv, TypeOK, Locals, PCs, requestVars
    <3>2. CASE ~(index + 1 < NPages)
      <4>1. addr' = addr + WriteLen
        BY <2>4, <3>2 DEF Advance
      <4>2. addr' \in Nat /\ first' <= addr'
        BY <1>0, <2>1, <4>1, WriteLenFacts, SMT DEF TypeOK, Locals, requestVars
      <4>3. CASE length = WriteLen
        <5>1. Return("ok")
          BY <2>4, <3>2, <4>3 DEF Advance
        <5> QED BY <1>0, <2>1, <4>2, <5>1, ReturnType DEF TypeInv, TypeOK, Locals, requestVars
      <4>4. CASE length # WriteLen
        <5>1. length' = length - WriteLen /\ index' = 0 /\ pc' = "read" /\ UNCHANGED <<ret, swap>>
          BY <2>4, <3>2, <4>4 DEF Advance, Goto
        <5>2. length' \in 0 .. Word - 1 /\ length' > 0
          BY <2>1, <4>4, <5>1, WriteLenFacts
        <5> QED BY <1>0, <2>1, <4>2, <5>1, <5>2, SimpleTypes
              DEF TypeInv, TypeOK, Locals, PCs, requestVars
      <4> QED BY <4>3, <4>4
    <3> QED BY <3>1, <3>2
  <2> QED BY <1>6, <2>2, <2>3, <2>4 DEF Wait, Goto
<1>7. ASSUME NEW a \in Nat, NEW n \in 0 .. Word - 1, NEW level \in Levels,
             NEW ok \in BOOLEAN, NEW sent \in BOOLEAN, Protect(a, n, level, ok, sent)
      PROVE  TypeInv'
  <2>1. /\ addr' = a /\ first' = a /\ before' = mem /\ data' = [x \in Addr |-> {}]
        /\ missed' = Busy /\ locked' = {} /\ UNCHANGED <<mem, protected, base>>
    BY <1>7 DEF Protect
  <2>2. op' \in Commands /\ (op'.kind = "protect" => op'.at \in Levels)
    <3> DEFINE c == [NoOp EXCEPT !.kind = "protect", !.at = level]
    <3>1. c \in Commands /\ c.at \in Levels
      BY SimpleTypes DEF Commands, NoOp
    <3>2. op' = c \/ op' = op
      BY <1>7 DEF Protect, Send
    <3> HIDE DEF c
    <3> QED BY <1>0, <3>1, <3>2 DEF TypeOK, Commands, Locals
  <2>3. /\ pc' \in {"idle", "protecting"} /\ index' = 0
        /\ ret' \in {"none", "ok", "error", "reset"} /\ length' \in 0 .. Word - 1
        /\ index' \in 0 .. NPages - 1 /\ swap' \in [Offsets -> Cell]
    <3>1. CASE ok
      <4>1. pc = "idle" /\ pc' = "protecting" /\ length' = n /\ UNCHANGED <<ret, swap, index>>
        BY <1>7, <3>1 DEF Protect, Goto
      <4> QED BY <1>0, <4>1 DEF TypeOK, Locals
    <3>2. CASE ~ok
      <4>1. Return("ok")
        BY <1>7, <3>2 DEF Protect
      <4> QED BY <4>1, ReturnType
    <3> QED BY <3>1, <3>2
  <2>4. data' \in [Addr -> Cell] /\ before' \in [Addr -> Cell]
    BY <1>0, <2>1 DEF TypeOK, Cell
  <2>5. TypeOK'
    BY <1>0, <2>1, <2>2, <2>3, <2>4 DEF TypeOK, PCs, Busy, Commands
  <2>6. Locals'
    BY <1>0, <2>1, <2>2, <2>3, SMT DEF Locals
  <2> QED BY <2>5, <2>6 DEF TypeInv
<1>8. ASSUME NEW a \in Starts, NEW n \in Lengths, NEW ok \in BOOLEAN, NEW sent \in BOOLEAN,
             Lock(a, n, ok, sent)
      PROVE  TypeInv'
  <2>1. a \in Nat /\ a \in 0 .. Word - 1 /\ n \in 0 .. Word - 1
    BY Requests
  <2> QED BY <1>7, <1>8, <2>1, LockLevelFacts DEF Lock
<1>9. ASSUME NEW ok \in BOOLEAN, NEW sent \in BOOLEAN, Unlock(ok, sent) PROVE TypeInv'
  BY <1>7, <1>9, SimpleTypes DEF Unlock, Levels
<1>10. ASSUME NEW outcome \in {"ready", "timeout", "misread"}, EndProtect(outcome) PROVE TypeInv'
  <2>1. /\ missed' \in BOOLEAN /\ Return("ok")
        /\ locked' \in {{}, Region} /\ UNCHANGED <<mem, protected, op, addr, base, requestVars>>
    BY <1>0, <1>10 DEF EndProtect, TypeOK, Busy, chipVars
  <2>2. locked' \subseteq Addr
    BY <2>1 DEF Region
  <2> QED BY <1>0, <2>1, <2>2, ReturnType DEF TypeInv, TypeOK, Locals, Commands, requestVars
<1>11. CASE Finish
  <2>1. mem' \in [Addr -> Cell]
    <3>1. mem' = [a \in Addr |-> IF a \in Touched(op) THEN Effect(op, a) ELSE mem[a]]
      BY <1>11 DEF Finish
    <3>2. \A a \in Addr : mem[a] \in Cell /\ Effect(op, a) \in Cell
      BY <1>0 DEF TypeOK, Effect, Cell
    <3> QED BY <3>1, <3>2
  <2>2. protected' \in Levels /\ op' = NoOp
        /\ UNCHANGED <<pc, addr, length, base, swap, index, ret, requestVars, missed, locked>>
    BY <1>0, <1>11 DEF Finish, TypeOK, Locals
  <2> QED BY <1>0, <2>1, <2>2, SimpleTypes
        DEF TypeInv, TypeOK, Locals, Commands, requestVars, NoOp
<1>12. CASE PowerLoss
  <2>1. mem' \in [Addr -> Cell]
    <3>1. PICK m \in [Touched(op) -> Cell] :
            mem' = [a \in Addr |-> IF a \in Touched(op) THEN m[a] ELSE mem[a]]
      BY <1>12 DEF PowerLoss
    <3> QED BY <1>0, <3>1 DEF TypeOK
  <2>2. /\ op' = NoOp /\ Return("reset") /\ protected' \in Levels
        /\ UNCHANGED <<addr, base, requestVars, missed, locked>>
    BY <1>0, <1>12 DEF PowerLoss, TypeOK
  <2> QED BY <1>0, <2>1, <2>2, SimpleTypes, ReturnType
        DEF TypeInv, TypeOK, Locals, Commands, requestVars, NoOp
<1> QED BY <1>1, <1>2, <1>3, <1>4, <1>5, <1>6, <1>8, <1>9, <1>10, <1>11, <1>12 DEF Next, Driver

(* Every variable of the driver and of the chip keeps its type. *)
THEOREM TypeCorrect == Spec => []TypeOK
<1>1. TypeInv => TypeOK
  BY DEF TypeInv
<1> QED BY <1>1, TypeInit, TypeStep, PTL DEF Spec

-----------------------------------------------------------------------------
(* What is true in the middle of a call.  Want is what the chip is to hold once
   the call has come to addr.  Each clause says, for one place of the call, how
   far the sector at base has come; the others are as they should be.  A protected
   sector ignores every command, and is as it should be all the time. *)
AllWant == \A a \in Addr : mem[a] = Want(a)
Done == ~Busy /\ AllWant
Holds(o, c) == mem[base + o] = c
Working == pc \in {"erase", "erasing", "program", "programming"}
Open == ~Protected(base)

Outside == \A a \in Addr : a \notin Sector(base) \/ Protected(a) => mem[a] = Want(a)
Pending ==
  /\ \A a \in Touched(op) : a \in Sector(base) /\ ~Protected(a)
  /\ op.kind = "program" => \A a \in Touched(op) : op.from[a - op.at] \subseteq mem[a]
AtRest ==
  /\ pc = "read" => Done
  /\ (pc = "idle" /\ ret = "ok") \/ pc = "protecting" => AllWant /\ op.kind \in {"none", "protect"}
Protecting ==
  /\ op.kind = "protect" => pc \in {"idle", "protecting"} /\ addr = first /\ AllWant
  /\ pc = "protecting" => addr = first
Shielded == Working /\ ~Open => Done
Kept == Working => \A o \in Offsets : swap[o] = Want(base + o)
Erasing ==
  /\ pc = "erase" => ~Busy
  /\ pc = "erasing" /\ Open => IF Busy THEN op.kind = "erase" /\ op.at = base
                               ELSE \A o \in Offsets : Holds(o, Bits)
Programming ==
  pc \in {"program", "programming"} /\ Open =>
    \A o \in Offsets : /\ o < index * PageSize => Holds(o, Merged[o])
                       /\ Merged[o] \subseteq mem[base + o]
ThisPage ==
  /\ pc = "program" => ~Busy
  /\ pc = "programming" /\ Open =>
       IF Busy THEN /\ op.kind = "program" /\ op.at = base + index * PageSize
                    /\ \A i \in PageOffsets : op.from[i] = Merged[index * PageSize + i]
               ELSE \A i \in PageOffsets :
                      Holds(index * PageSize + i, Merged[index * PageSize + i])

SectorWork == Kept /\ Erasing /\ Programming /\ ThisPage
Progress == Outside /\ Pending /\ AtRest /\ Protecting /\ Shielded /\ SectorWork
SafeInv == ~missed => Progress

\* A sector is protected as a whole or not at all.
LEMMA WholeSector ==
  ASSUME TypeInv
  PROVE  /\ Open => \A a \in Sector(base) : ~Protected(a)
         /\ ~Open => \A a \in Sector(base) : Protected(a)
<1>1. base \in Boundaries /\ protected \in Boundaries
  BY LevelsAreBoundaries DEF TypeInv, TypeOK, Locals
<1>2. base \in Nat /\ protected \in Nat /\ SectorSize \in Nat
  BY <1>1, LevelsAreBoundaries, Sizes
<1>3. base < protected => base + SectorSize <= protected
  BY <1>1, NotAcross
<1> QED BY <1>2, <1>3, Sizes, SMT DEF Open, Protected, Sector, Addr

\* The cells of the sector are its offsets.
LEMMA InSector ==
  ASSUME TypeInv
  PROVE  /\ \A a \in Sector(base) : a - base \in Offsets /\ a = base + (a - base)
         /\ \A o \in Offsets : base + o \in Sector(base)
<1>1. base \in Nat
  BY Sizes, SMT DEF TypeInv, TypeOK, Addr
<1>2. \A a \in Sector(base) : a - base \in Offsets /\ a = base + (a - base)
  BY <1>1, Sizes, SMT DEF Sector, Offsets, Addr
<1>3. \A o \in Offsets : base + o \in Sector(base)
  <2>1. \A o \in Offsets : o \in Nat /\ base + o \in Addr
    BY CellsInside
  <2> QED BY <1>1, <2>1, Sizes, SMT DEF Sector, Offsets
<1> QED BY <1>2, <1>3

\* Where nothing is in progress there is one thing to show.
LEMMA DoneIsProgress == Done /\ pc \in {"idle", "read"} => Progress
<1> SUFFICES ASSUME Done, pc \in {"idle", "read"} PROVE Progress
  OBVIOUS
<1>1. op.kind = "none" /\ AllWant
  BY DEF Done, Busy
<1>2. Touched(op) = {}
  BY <1>1 DEF Touched
<1>3. Outside /\ Pending /\ AtRest /\ Protecting /\ Shielded
  BY <1>1, <1>2 DEF Outside, Pending, AtRest, Done, AllWant, Protecting, Shielded, Working
<1>4. SectorWork
  BY DEF SectorWork, Kept, Working, Erasing, Programming, ThisPage
<1> QED BY <1>3, <1>4 DEF Progress

\* Nor where the sector is protected.
LEMMA ShieldedIsProgress == Done /\ Working /\ ~Open /\ Kept => Progress
<1> SUFFICES ASSUME Done, Working, ~Open, Kept PROVE Progress
  OBVIOUS
<1>1. op.kind = "none" /\ AllWant
  BY DEF Done, Busy
<1>2. Touched(op) = {}
  BY <1>1 DEF Touched
<1>3. Outside /\ Pending /\ AtRest /\ Protecting /\ Shielded
  BY <1>1, <1>2 DEF Outside, Pending, AtRest, Done, AllWant, Protecting, Shielded, Working
<1>4. SectorWork
  BY DEF SectorWork, Done, Erasing, Programming, ThisPage
<1> QED BY <1>3, <1>4 DEF Progress

\* A call that ends with an error leaves its sector as it is.
LEMMA FailureIsProgress ==
  Outside /\ Pending /\ pc = "idle" /\ ret # "ok" /\ op.kind # "protect" => Progress
BY DEF Progress, AtRest, Protecting, Shielded, SectorWork, Kept, Working, Erasing, Programming, ThisPage

\* What a call that has dealt with no address is to leave.
LEMMA NothingWritten == TypeInv /\ addr = first => \A a \in Addr : ~Written(a)
BY Sizes, SMT DEF TypeInv, TypeOK, Written, Addr

LEMMA SafeInit == Init => SafeInv
<1> SUFFICES ASSUME Init PROVE Done /\ pc = "idle"
  BY DoneIsProgress DEF SafeInv
<1>1. \A a \in Addr : ~Written(a)
  BY SMT DEF Init, Written, Addr
<1> QED BY <1>1 DEF Init, Done, AllWant, Busy, NoOp, Want

\* The same facts of the state after a step.
LEMMA DoneIsProgressNext == Done' /\ pc' \in {"idle", "read"} => Progress'
<1> DEFINE F == Done /\ pc \in {"idle", "read"} => Progress
<1>1. F
  BY DoneIsProgress
<1> HIDE DEF F
<1>2. F'
  BY <1>1, PTL
<1> QED BY <1>2, Zenon DEF F

LEMMA ShieldedIsProgressNext == Done' /\ Working' /\ ~Open' /\ Kept' => Progress'
<1> DEFINE F == Done /\ Working /\ ~Open /\ Kept => Progress
<1>1. F
  BY ShieldedIsProgress
<1> HIDE DEF F
<1>2. F'
  BY <1>1, PTL
<1> QED BY <1>2, Zenon DEF F

LEMMA FailureIsProgressNext ==
  Outside' /\ Pending' /\ pc' = "idle" /\ ret' # "ok" /\ op'.kind # "protect" => Progress'
<1> DEFINE F == Outside /\ Pending /\ pc = "idle" /\ ret # "ok" /\ op.kind # "protect" => Progress
<1>1. F
  BY FailureIsProgress
<1> HIDE DEF F
<1>2. F'
  BY <1>1, PTL
<1> QED BY <1>2, Zenon DEF F

LEMMA NothingWrittenNext == TypeInv' /\ addr' = first' => \A a \in Addr : ~Written(a)'
<1> DEFINE F == TypeInv /\ addr = first => \A a \in Addr : ~Written(a)
<1>1. F
  BY NothingWritten
<1> HIDE DEF F
<1>2. F'
  BY <1>1, PTL
<1> QED BY <1>2, Zenon DEF F

LEMMA CellsInsideNext == TypeInv' => \A o \in Offsets : base' + o \in Addr
<1> DEFINE F == TypeInv => \A o \in Offsets : base + o \in Addr
<1>1. F
  BY CellsInside
<1> HIDE DEF F
<1>2. F'
  BY <1>1, PTL
<1> QED BY <1>2, Zenon DEF F

-----------------------------------------------------------------------------
(* One lemma per action.  The hypotheses are those of a step at whose end no
   command has been missed, and so at whose beginning none had been. *)
LEMMA CallSafe ==
  ASSUME TypeInv, NEW a \in Starts, NEW n \in Lengths, Call(a, n), ~missed'
  PROVE  Progress'
<1>1. /\ ~Busy /\ addr' = a /\ first' = a /\ before' = mem
      /\ UNCHANGED <<mem, protected, op, base>>
  BY DEF Call, chipVars
<1>2. pc' \in {"idle", "read"}
  BY DEF Call, Return, Goto
<1>3. a \in Int
  BY Requests, SMT
<1>4. \A x \in Addr : ~Written(x)'
  BY <1>1, <1>3, SMT DEF Written, Addr
<1>5. Done'
  BY <1>1, <1>4 DEF Done, AllWant, Busy, Want
<1> QED BY <1>2, <1>5, DoneIsProgressNext

LEMMA ReadSafe ==
  ASSUME TypeInv, TypeInv', Progress, NEW ok \in BOOLEAN, Read(ok)
  PROVE  Progress'
<1> DEFINE b == addr - (addr % SectorSize)
<1>1. pc = "read" /\ UNCHANGED <<mem, protected, op, addr, data, first, before>>
  BY DEF Read, requestVars, chipVars
<1>2. Done
  BY <1>1 DEF Progress, AtRest
<1>3. Done'
  BY <1>1, <1>2 DEF Done, AllWant, Busy, Want, Written, Protected
<1>4. CASE b >= ChipSize \/ ~ok
  <2>1. pc' = "idle"
    BY <1>4 DEF Read, Return
  <2> QED BY <1>3, <2>1, DoneIsProgressNext
<1>5. CASE ~(b >= ChipSize \/ ~ok)
  <2>1. /\ base' = b /\ swap' = [o \in Offsets |-> mem[b + o]]
        /\ pc' = IF MustErase(b, swap') THEN "erase" ELSE "program"
        /\ UNCHANGED <<ret, length, index>>
    BY <1>2, <1>5 DEF Read, Goto, Done
  <2> HIDE DEF b
  <2>2. \A o \in Offsets : swap'[o] = mem'[base' + o] /\ mem'[base' + o] = Want(base + o)'
    <3>1. \A o \in Offsets : base' + o \in Addr
      BY CellsInsideNext
    <3> QED BY <1>1, <1>3, <2>1, <3>1 DEF Done, AllWant
  <2>3. Outside' /\ Pending' /\ Protecting'
    <3>1. op'.kind = "none"
      BY <1>3 DEF Done, Busy
    <3>2. Touched(op') = {}
      BY <3>1 DEF Touched
    <3> QED BY <1>3, <2>1, <3>1, <3>2 DEF Outside, Pending, Done, AllWant, Touched, Protecting
  <2>4. pc' \in {"erase", "program"} /\ ~Busy'
    BY <1>3, <2>1 DEF Done
  <2>5. AtRest' /\ Shielded' /\ Kept' /\ Erasing' /\ ThisPage'
    BY <1>3, <2>2, <2>4 DEF AtRest, Shielded, Kept, Erasing, ThisPage
  <2>6. Programming'
    <3>1. SUFFICES ASSUME pc' = "program", NEW o \in Offsets
                   PROVE  /\ ~(o < index' * PageSize)
                          /\ Merged'[o] \subseteq mem'[base' + o]
      BY <2>4, Zenon DEF Programming
    <3>2. ~(o < index' * PageSize)
      <4>1. index' = 0
        BY <1>1, <2>1 DEF TypeInv, Locals
      <4> QED BY <4>1, Sizes, SMT DEF Offsets
    <3>3. Requested(b + o) => data[b + o] \subseteq swap'[o]
      BY <2>1, <3>1 DEF MustErase
    <3>4. Merged'[o] = IF Requested(b + o) THEN data[b + o] ELSE swap'[o]
      BY <1>1, <2>1 DEF Merged, Requested
    <3> QED BY <2>2, <3>2, <3>3, <3>4
  <2> QED BY <2>3, <2>5, <2>6 DEF Progress, SectorWork
<1> QED BY <1>4, <1>5

LEMMA EraseSafe ==
  ASSUME TypeInv, Progress, NEW ok \in BOOLEAN, NEW sent \in BOOLEAN, Erase(ok, sent)
  PROVE  Progress'
<1> DEFINE c == [NoOp EXCEPT !.kind = "erase", !.at = base]
<1>1. /\ pc = "erase" /\ (ok => sent) /\ ~Busy
      /\ UNCHANGED <<mem, protected, addr, base, data, first, before>>
  BY DEF Erase, requestVars, Progress, SectorWork, Erasing
<1>2. c.kind = "erase" /\ c.at = base
  BY DEF NoOp
<1>3. op' = IF sent /\ Open THEN c ELSE op
  BY <1>1, <1>2 DEF Erase, Send, Open
<1>4. /\ ok => pc' = "erasing" /\ UNCHANGED <<ret, length, swap, index>>
      /\ ~ok => pc' = "idle" /\ ret' # "ok"
  BY DEF Erase, Return, Goto
<1>5. Open' = Open
  BY <1>1 DEF Open, Protected
<1> HIDE DEF c
<1>6. ok => Kept'
  BY <1>1, <1>4 DEF Progress, SectorWork, Kept, Working, Want, Written, Protected
<1>7. CASE ~Open
  <2>1. Done'
    BY <1>1, <1>3, <1>7 DEF Progress, Shielded, Working, Done, AllWant, Busy, Want, Written, Protected
  <2>2. CASE ok
    BY <1>4, <1>5, <1>6, <1>7, <2>1, <2>2, ShieldedIsProgressNext DEF Working
  <2>3. CASE ~ok
    BY <1>4, <2>1, <2>3, DoneIsProgressNext
  <2> QED BY <2>2, <2>3
<1>8. CASE Open
  <2>1. op' = IF sent THEN c ELSE op
    BY <1>3, <1>8
  <2>2. ~sent => op'.kind = "none"
    BY <1>1, <2>1 DEF Busy
  <2>3. Outside'
    BY <1>1 DEF Progress, Outside, Want, Written, Sector, Protected
  <2>4. Touched(op') \subseteq Sector(base)
    BY <1>2, <2>1, <2>2 DEF Touched
  <2>5. Pending' /\ op'.kind # "protect"
    BY <1>1, <1>2, <1>8, <2>1, <2>2, <2>4, WholeSector DEF Pending, Touched, Sector, Protected
  <2>6. CASE ok
    <3>1. AtRest' /\ Protecting' /\ Shielded'
      BY <1>4, <1>5, <1>8, <2>5, <2>6 DEF AtRest, Protecting, Shielded
    <3>2. Erasing' /\ Programming' /\ ThisPage'
      BY <1>1, <1>2, <1>4, <2>1, <2>6 DEF Erasing, Programming, ThisPage, Busy
    <3> QED BY <1>6, <2>3, <2>5, <2>6, <3>1, <3>2 DEF Progress, SectorWork
  <2>7. CASE ~ok
    BY <1>4, <2>3, <2>5, <2>7, FailureIsProgressNext
  <2> QED BY <2>6, <2>7
<1> QED BY <1>7, <1>8

LEMMA ProgramSafe ==
  ASSUME TypeInv, Progress, NEW ok \in BOOLEAN, NEW sent \in BOOLEAN, Program(ok, sent)
  PROVE  Progress'
<1> DEFINE page == index * PageSize
           c == [kind |-> "program", at |-> base + page,
                 from |-> [i \in PageOffsets |-> Merged[page + i]]]
<1>1. /\ pc = "program" /\ (ok => sent) /\ ~Busy
      /\ UNCHANGED <<mem, protected, addr, base, data, first, before>>
  BY DEF Program, requestVars, Progress, SectorWork, ThisPage
<1>2. op' = IF sent /\ ~Protected(base + page) THEN c ELSE op
  BY <1>1 DEF Program, Send
<1>3. page \in Nat /\ page + PageSize <= SectorSize /\ base \in Nat /\ base + SectorSize <= ChipSize
  BY Pages, Sizes, SMT DEF TypeInv, TypeOK, Locals, Addr
<1>4. /\ \A i \in PageOffsets : page + i \in Offsets
      /\ base + page \in Addr
  BY CellsInside
<1>5. /\ ok => pc' = "programming" /\ UNCHANGED <<ret, length, swap, index>>
      /\ ~ok => pc' = "idle" /\ ret' # "ok"
  BY DEF Program, Return, Goto
<1>6. page = index * PageSize
  OBVIOUS
<1> HIDE DEF page
<1>7. base + page \in Sector(base)
  BY <1>3, <1>4, Sizes, SMT DEF Sector
<1>8. Open' = Open
  BY <1>1 DEF Open, Protected
<1>9. ok => Kept'
  BY <1>1, <1>5 DEF Progress, SectorWork, Kept, Working, Want, Written, Protected
<1>10. CASE ~Open
  <2>1. op' = op
    BY <1>2, <1>7, <1>10, WholeSector
  <2>2. Done'
    BY <1>1, <1>10, <2>1 DEF Progress, Shielded, Working, Done, AllWant, Busy, Want, Written, Protected
  <2>3. CASE ok
    BY <1>5, <1>8, <1>9, <1>10, <2>2, <2>3, ShieldedIsProgressNext DEF Working
  <2>4. CASE ~ok
    BY <1>5, <2>2, <2>4, DoneIsProgressNext
  <2> QED BY <2>3, <2>4
<1>11. CASE Open
  <2>1. op' = IF sent THEN c ELSE op
    BY <1>2, <1>7, <1>11, WholeSector
  <2>2. \A o \in Offsets : Merged[o] \subseteq mem[base + o]
    BY <1>1, <1>11 DEF Progress, SectorWork, Programming
  <2>3. Outside'
    BY <1>1 DEF Progress, Outside, Want, Written, Sector, Protected
  <2>4. Pending' /\ op'.kind # "protect"
    <3>1. CASE sent
      <4>1. op'.kind = "program" /\ op'.at = base + page
            /\ \A i \in PageOffsets : op'.from[i] = Merged[page + i]
        BY <2>1, <3>1
      <4>2. \A a \in Touched(op') : /\ a \in Addr /\ base + page <= a
                                   /\ a < base + page + PageSize
        BY <4>1 DEF Touched
      <4>3. \A a \in Touched(op') : a \in Sector(base)
        BY <1>3, <4>2, Sizes, SMT DEF Sector, Addr
      <4>4. ASSUME NEW a \in Touched(op')
            PROVE  op'.from[a - op'.at] \subseteq mem[a]
        <5> DEFINE i == a - (base + page)
        <5>1. i \in PageOffsets /\ base + (page + i) = a
          BY <1>3, <4>2, Sizes, SMT DEF PageOffsets, Addr
        <5> HIDE DEF i
        <5>2. op'.from[i] = Merged[page + i] /\ Merged[page + i] \subseteq mem[base + (page + i)]
          BY <1>4, <2>2, <4>1, <5>1
        <5> QED BY <4>1, <5>1, <5>2 DEF i
      <4>5. \A a \in Touched(op') : ~Protected(a)
        BY <1>11, <4>3, WholeSector
      <4>6. (\A a \in Touched(op') : a \in Sector(base)' /\ ~Protected(a)')
        BY <1>1, <4>3, <4>5 DEF Sector, Protected
      <4> QED BY <1>1, <4>1, <4>4, <4>6 DEF Pending, Touched
    <3>2. CASE ~sent
      <4>1. op'.kind = "none"
        BY <1>1, <2>1, <3>2 DEF Busy
      <4> QED BY <4>1 DEF Pending, Touched
    <3> QED BY <3>1, <3>2
  <2>5. CASE ok
    <3>1. op' = c /\ Merged' = Merged /\ page = index' * PageSize
      BY <1>1, <1>5, <1>6, <2>1, <2>5 DEF Merged, Requested
    <3>2. Programming'
      BY <1>1, <1>5, <1>6, <1>11, <2>5, <3>1 DEF Progress, SectorWork, Programming, Holds
    <3>3. ThisPage'
      <4>1. /\ op'.kind = "program" /\ op'.at = base' + page
            /\ \A i \in PageOffsets : op'.from[i] = Merged'[page + i]
        BY <1>1, <3>1
      <4> QED BY <1>5, <2>5, <3>1, <4>1 DEF ThisPage, Busy
    <3>4. AtRest' /\ Protecting' /\ Shielded' /\ Erasing'
      BY <1>5, <1>8, <1>11, <2>4, <2>5 DEF AtRest, Protecting, Shielded, Erasing
    <3> QED BY <1>9, <2>3, <2>4, <2>5, <3>2, <3>3, <3>4 DEF Progress, SectorWork
  <2>6. CASE ~ok
    BY <1>5, <2>3, <2>4, <2>6, FailureIsProgressNext
  <2> QED BY <2>5, <2>6
<1> QED BY <1>10, <1>11

LEMMA WaitSafe ==
  ASSUME TypeInv, Progress, NEW outcome \in {"ready", "timeout", "misread"},
         Wait(outcome), ~missed'
  PROVE  Progress'
<1> DEFINE page == index * PageSize
<1>1. /\ pc \in {"erasing", "programming"} /\ Working
      /\ UNCHANGED <<mem, protected, op, base, data, first, before>>
  BY DEF Wait, Working, requestVars, chipVars
<1>2. outcome # "timeout" => ~Busy
  BY DEF Wait
<1>3. Open' = Open /\ op.kind # "protect"
  BY <1>1 DEF Open, Protected, Progress, Protecting
<1>4. CASE outcome = "timeout"
  <2>1. pc' = "idle" /\ ret' # "ok" /\ addr' = addr
    BY <1>4 DEF Wait, Return
  <2>2. Outside' /\ Pending'
    BY <1>1, <2>1 DEF Progress, Outside, Pending, Want, Written, Sector, Touched, Protected
  <2> QED BY <1>1, <1>3, <2>1, <2>2, FailureIsProgressNext
<1>5. CASE outcome # "timeout" /\ pc = "erasing"
  <2>1. pc' = "program" /\ UNCHANGED <<ret, addr, length, swap, index>>
    BY <1>5 DEF Wait, Goto
  <2>2. Kept'
    BY <1>1, <2>1 DEF Progress, SectorWork, Kept, Want, Written, Protected
  <2>3. CASE ~Open
    <3>1. Done'
      BY <1>1, <2>1, <2>3 DEF Progress, Shielded, Done, AllWant, Busy, Want, Written, Protected
    <3> QED BY <1>3, <2>1, <2>2, <2>3, <3>1, ShieldedIsProgressNext DEF Working
  <2>4. CASE Open
    <3>1. Outside' /\ Pending'
      BY <1>1, <2>1 DEF Progress, Outside, Pending, Want, Written, Sector, Touched, Protected
    <3>2. AtRest' /\ Protecting' /\ Shielded' /\ Erasing' /\ ThisPage'
      BY <1>1, <1>2, <1>3, <1>5, <2>1, <2>4 DEF AtRest, Protecting, Shielded, Erasing, ThisPage, Busy
    <3>3. Programming'
      <4>1. Merged' = Merged
        BY <1>1, <2>1 DEF Merged, Requested
      <4>2. \A o \in Offsets : mem[base + o] = Bits /\ Merged[o] \subseteq Bits
        BY <1>2, <1>5, <2>4, MergedType DEF Progress, SectorWork, Erasing, Holds, Cell
      <4>3. \A o \in Offsets : ~(o < index' * PageSize)
        <5>1. index' = 0
          BY <1>5, <2>1 DEF TypeInv, Locals
        <5> QED BY <5>1, Sizes, SMT DEF Offsets
      <4> QED BY <1>1, <4>1, <4>2, <4>3 DEF Programming
    <3> QED BY <2>2, <3>1, <3>2, <3>3 DEF Progress, SectorWork
  <2> QED BY <2>3, <2>4
<1>6. CASE outcome # "timeout" /\ pc = "programming"
  <2>1. Advance /\ ~Busy
    BY <1>2, <1>6 DEF Wait
  <2>2. /\ page \in Nat /\ page + PageSize <= SectorSize
        /\ (index + 1) * PageSize = page + PageSize
        /\ index + 1 = NPages => page + PageSize = SectorSize
    BY Pages DEF TypeInv, TypeOK
  <2>3. Open => \A i \in PageOffsets : mem[base + (page + i)] = Merged[page + i]
    BY <1>6, <2>1 DEF Progress, SectorWork, ThisPage, Holds
  <2>4. Open => /\ \A o \in Offsets : o < page => mem[base + o] = Merged[o]
                /\ \A o \in Offsets : Merged[o] \subseteq mem[base + o]
    BY <1>6 DEF Progress, SectorWork, Programming, Holds
  <2> HIDE DEF page
  <2>5. ASSUME Open, NEW o \in Offsets, o < page + PageSize PROVE mem[base + o] = Merged[o]
    <3>1. CASE o < page
      BY <2>4, <2>5, <3>1
    <3>2. CASE ~(o < page)
      <4> DEFINE i == o - page
      <4>1. i \in PageOffsets /\ page + i = o
        BY <2>2, <2>5, <3>2, Sizes, SMT DEF PageOffsets, Offsets
      <4> HIDE DEF i
      <4> QED BY <2>3, <2>5, <4>1
    <3> QED BY <3>1, <3>2
  <2>6. CASE index + 1 < NPages
    <3>1. index' = index + 1 /\ pc' = "program" /\ UNCHANGED <<ret, addr, length, swap>>
      BY <2>1, <2>6 DEF Advance, Goto
    <3>2. Kept'
      BY <1>1, <3>1 DEF Progress, SectorWork, Kept, Want, Written, Protected
    <3>3. CASE ~Open
      <4>1. Done'
        BY <1>1, <3>1, <3>3 DEF Progress, Shielded, Done, AllWant, Busy, Want, Written, Protected
      <4> QED BY <1>3, <3>1, <3>2, <3>3, <4>1, ShieldedIsProgressNext DEF Working
    <3>4. CASE Open
      <4>1. Outside' /\ Pending'
        BY <1>1, <3>1 DEF Progress, Outside, Pending, Want, Written, Sector, Touched, Protected
      <4>2. AtRest' /\ Protecting' /\ Shielded' /\ Erasing' /\ ThisPage'
        BY <1>1, <1>3, <2>1, <3>1, <3>4 DEF AtRest, Protecting, Shielded, Erasing, ThisPage, Busy
      <4>3. Programming'
        <5>1. Merged' = Merged
          BY <1>1, <3>1 DEF Merged, Requested
        <5>2. index' * PageSize = page + PageSize
          BY <2>2, <3>1
        <5> QED BY <1>1, <2>4, <2>5, <3>4, <5>1, <5>2, Zenon DEF Programming, Holds
      <4> QED BY <3>2, <4>1, <4>2, <4>3 DEF Progress, SectorWork
    <3> QED BY <3>3, <3>4
  <2>7. CASE ~(index + 1 < NPages)
    <3>1. addr' = addr + WriteLen /\ pc' \in {"idle", "read"}
      BY <2>1, <2>7 DEF Advance, Return, Goto
    <3>2. Open => \A o \in Offsets : mem[base + o] = Merged[o]
      <4>1. index + 1 = NPages
        BY <2>7, Sizes, SMT DEF TypeInv, TypeOK
      <4> QED BY <2>2, <2>5, <4>1, Sizes, SMT DEF Offsets
    <3>3. /\ base \in Nat /\ addr \in Nat /\ first \in Nat /\ length \in Nat
          /\ first <= addr /\ base <= addr /\ addr < base + SectorSize
          /\ WriteLen \in Nat
      BY <1>6, WriteLenFacts, Sizes, SMT DEF TypeInv, TypeOK, Locals, Addr
    <3>4. ASSUME NEW a \in Addr PROVE mem[a] = Want(a)'
      <4>1. Want(a)' = IF first <= a /\ a < addr + WriteLen /\ ~Protected(a) THEN data[a]
                       ELSE before[a]
        BY <1>1, <3>1 DEF Want, Written, Protected
      <4>2. Want(a) = IF first <= a /\ a < addr /\ ~Protected(a) THEN data[a] ELSE before[a]
        BY DEF Want, Written
      <4>3. a \in Nat
        BY Sizes, SMT DEF Addr
      <4>4. CASE a \notin Sector(base) \/ Protected(a)
        <5>1. (a < addr <=> a < addr + WriteLen) \/ Protected(a)
          BY <3>3, <4>3, <4>4, Sizes, SMT DEF Sector, WriteLen
        <5>2. mem[a] = Want(a)
          BY <4>4 DEF Progress, Outside
        <5> QED BY <4>1, <4>2, <5>1, <5>2
      <4>5. CASE a \in Sector(base) /\ ~Protected(a)
        <5>0. Open
          BY <4>5, WholeSector
        <5>1. PICK o \in Offsets : base + o = a
          BY <4>5, InSector
        <5>2. mem[a] = IF Requested(a) THEN data[a] ELSE Want(a)
          BY <1>1, <3>2, <5>0, <5>1 DEF Merged, Progress, SectorWork, Kept
        <5>3. Requested(a) <=> addr <= a /\ a < addr + WriteLen
          BY <3>3, <4>3, <4>5, Sizes, SMT DEF Requested, Sector, WriteLen
        <5>4. CASE Requested(a)
          <6>1. first <= a /\ a < addr + WriteLen
            BY <3>3, <4>3, <5>3, <5>4, SMT
          <6> QED BY <4>1, <4>5, <5>2, <5>4, <6>1
        <5>5. CASE ~Requested(a)
          <6>1. a < addr <=> a < addr + WriteLen
            BY <3>3, <4>3, <5>3, <5>5, SMT
          <6> QED BY <4>1, <4>2, <5>2, <5>5, <6>1
        <5> QED BY <5>4, <5>5
      <4> QED BY <4>4, <4>5
    <3>5. Done'
      BY <1>1, <2>1, <3>4 DEF Done, AllWant, Busy
    <3> QED BY <3>1, <3>5, DoneIsProgressNext
  <2> QED BY <2>6, <2>7
<1> QED BY <1>1, <1>4, <1>5, <1>6

\* lock and unlock: no cell is to change.
LEMMA ProtectSafe ==
  ASSUME TypeInv', NEW a, NEW n, NEW level, NEW ok, NEW sent,
         Protect(a, n, level, ok, sent), ~missed'
  PROVE  Progress'
<1> DEFINE c == [NoOp EXCEPT !.kind = "protect", !.at = level]
<1>1. /\ ~Busy /\ addr' = first' /\ before' = mem /\ UNCHANGED <<mem, protected, base>>
      /\ pc' \in {"idle", "protecting"}
  BY DEF Protect, Return, Goto
<1>2. op' = c \/ op' = op
  BY DEF Protect, Send
<1>3. op'.kind \in {"none", "protect"}
  BY <1>1, <1>2 DEF Busy, NoOp
<1> HIDE DEF c
<1>4. AllWant'
  BY <1>1, NothingWrittenNext DEF AllWant, Want
<1>5. Outside' /\ Pending'
  <2>1. Touched(op') = {}
    BY <1>3 DEF Touched
  <2> QED BY <1>3, <1>4, <2>1 DEF Outside, Pending, AllWant, Touched
<1>6. AtRest' /\ Protecting' /\ Shielded' /\ SectorWork'
  BY <1>1, <1>3, <1>4
  DEF AtRest, Protecting, Shielded, Working, SectorWork, Kept, Erasing, Programming, ThisPage
<1> QED BY <1>5, <1>6 DEF Progress

LEMMA EndProtectSafe ==
  ASSUME TypeInv, Progress, NEW outcome, EndProtect(outcome)
  PROVE  Progress'
<1>1. /\ pc = "protecting" /\ pc' = "idle"
      /\ UNCHANGED <<mem, protected, op, addr, base, data, first, before>>
  BY DEF EndProtect, Return, chipVars, requestVars
<1>2. AllWant /\ op.kind \in {"none", "protect"} /\ addr = first
  BY <1>1 DEF Progress, AtRest, Protecting
<1>3. AllWant'
  BY <1>1, <1>2 DEF AllWant, Want, Written, Protected
<1>4. Outside' /\ Pending'
  BY <1>1 DEF Progress, Outside, Pending, Want, Written, Sector, Touched, Protected
<1>5. AtRest' /\ Protecting' /\ Shielded' /\ SectorWork'
  BY <1>1, <1>2, <1>3
  DEF AtRest, Protecting, Shielded, Working, SectorWork, Kept, Erasing, Programming, ThisPage
<1> QED BY <1>4, <1>5 DEF Progress

\* The chip takes over new protection bits, or loses its power while it does.
LEMMA NewLevelSafe ==
  ASSUME TypeInv, TypeInv', Progress, op.kind = "protect", op' = NoOp, addr' = addr,
         mem' = [a \in Addr |-> mem[a]], UNCHANGED <<data, first, before>>,
         pc' \in {"idle", pc}
  PROVE  Progress'
<1>1. pc \in {"idle", "protecting"} /\ addr = first /\ AllWant
  BY DEF Progress, Protecting
<1>2. \A a \in Addr : ~Written(a) /\ ~Written(a)'
  BY <1>1, NothingWritten, NothingWrittenNext
<1>3. AllWant'
  BY <1>1, <1>2 DEF AllWant, Want
<1>4. ~Busy' /\ op'.kind = "none" /\ Touched(op') = {}
  BY DEF Busy, NoOp, Touched
<1>5. Outside' /\ Pending'
  BY <1>3, <1>4 DEF Outside, Pending, AllWant
<1>6. AtRest' /\ Protecting' /\ Shielded' /\ SectorWork'
  BY <1>1, <1>3, <1>4
  DEF AtRest, Protecting, Shielded, Working, SectorWork, Kept, Erasing, Programming, ThisPage
<1> QED BY <1>5, <1>6 DEF Progress

LEMMA FinishSafe ==
  ASSUME TypeInv, TypeInv', Progress, Finish
  PROVE  Progress'
<1> DEFINE page == index * PageSize
<1>1. /\ Busy /\ op' = NoOp
      /\ mem' = [a \in Addr |-> IF a \in Touched(op) THEN Effect(op, a) ELSE mem[a]]
      /\ UNCHANGED <<pc, addr, length, base, swap, index, ret, data, first, before>>
  BY DEF Finish, requestVars
<1>2. ~Busy' /\ Touched(op') = {} /\ op'.kind = "none"
  BY <1>1 DEF Busy, NoOp, Touched
<1>3. CASE op.kind = "protect"
  <2>1. Touched(op) = {}
    BY <1>3 DEF Touched
  <2>2. mem' = [a \in Addr |-> mem[a]]
    BY <1>1, <2>1
  <2> QED BY <1>1, <1>3, <2>2, NewLevelSafe
<1>4. CASE op.kind # "protect"
  <2>1. protected' = protected /\ Open' = Open
    BY <1>1, <1>4 DEF Finish, Open, Protected
  <2>2. \A a \in Touched(op) : a \in Sector(base) /\ ~Protected(a)
    BY DEF Progress, Pending
  <2>3. Outside'
    BY <1>1, <2>1, <2>2 DEF Progress, Outside, Want, Written, Sector, Protected
  <2>4. Pending'
    BY <1>2 DEF Pending
  <2>5. pc \notin {"read", "erase", "program", "protecting"} /\ ~(pc = "idle" /\ ret = "ok")
    BY <1>1, <1>4 DEF Progress, AtRest, SectorWork, Erasing, ThisPage, Done, Busy
  <2>6. Working => Open
    BY <1>1 DEF Progress, Shielded, Done
  <2>7. AtRest' /\ Protecting' /\ Shielded' /\ Kept'
    BY <1>1, <1>2, <2>1, <2>5, <2>6
    DEF Progress, SectorWork, AtRest, Protecting, Shielded, Kept, Working, Want, Written, Protected
  <2>8. CASE pc \notin {"erasing", "programming"}
    BY <1>1, <2>3, <2>4, <2>5, <2>7, <2>8 DEF Progress, SectorWork, Erasing, Programming, ThisPage
  <2>9. CASE pc = "erasing"
    <3>1. op.kind = "erase" /\ op.at = base
      BY <1>1, <2>6, <2>9 DEF Progress, SectorWork, Erasing, Working
    <3>2. \A o \in Offsets : base + o \in Addr /\ base + o \in Sector(base)
      BY CellsInside, InSector
    <3>3. \A o \in Offsets : mem'[base + o] = Bits
      BY <1>1, <3>1, <3>2 DEF Touched, Effect
    <3>4. Erasing' /\ Programming' /\ ThisPage'
      BY <1>1, <1>2, <2>9, <3>3 DEF Erasing, Programming, ThisPage, Holds
    <3> QED BY <2>3, <2>4, <2>7, <3>4 DEF Progress, SectorWork
  <2>10. CASE pc = "programming"
    <3>0. Open
      BY <2>6, <2>10 DEF Working
    <3>1. /\ op.kind = "program" /\ op.at = base + page
          /\ \A i \in PageOffsets : op.from[i] = Merged[page + i]
      BY <1>1, <2>10, <3>0 DEF Progress, SectorWork, ThisPage
    <3>2. /\ \A o \in Offsets : o < page => mem[base + o] = Merged[o]
          /\ \A o \in Offsets : Merged[o] \subseteq mem[base + o]
      BY <2>10, <3>0 DEF Progress, SectorWork, Programming, Holds
    <3>3. Merged' = Merged
      BY <1>1 DEF Merged, Requested
    <3>4. page \in Nat /\ base \in Nat
      BY Pages, Sizes, SMT DEF TypeInv, TypeOK, Addr
    <3>5. /\ \A o \in Offsets : o \in Nat /\ base + o \in Addr
          /\ \A i \in PageOffsets : page + i \in Offsets
      BY CellsInside
    <3> HIDE DEF page
    <3>6. ASSUME NEW o \in Offsets, o < page \/ ~(o < page + PageSize)
          PROVE  mem'[base + o] = mem[base + o]
      <4>1. base + o \notin Touched(op)
        BY <3>1, <3>4, <3>5, <3>6, Sizes, SMT DEF Touched
      <4> QED BY <1>1, <3>5, <4>1
    <3>7. ASSUME NEW i \in PageOffsets
          PROVE  mem'[base + (page + i)] = Merged[page + i]
      <4> DEFINE a == base + (page + i)
      <4>1. a - op.at = i /\ op.at <= a /\ a < op.at + PageSize
        BY <3>1, <3>4, Sizes, SMT DEF PageOffsets
      <4>2. a \in Addr /\ page + i \in Offsets
        BY <3>5
      <4>3. a \in Touched(op)
        BY <3>1, <4>1, <4>2 DEF Touched
      <4> HIDE DEF a
      <4>4. mem'[a] = mem[a] \cap op.from[i]
        BY <1>1, <3>1, <4>1, <4>2, <4>3 DEF Effect
      <4>5. op.from[i] = Merged[page + i] /\ Merged[page + i] \subseteq mem[a]
        BY <3>1, <3>2, <4>2 DEF a
      <4> QED BY <4>4, <4>5 DEF a
    <3>8. Programming'
      <4>1. ASSUME NEW o \in Offsets
            PROVE  /\ o < page => mem'[base + o] = Merged[o]
                   /\ Merged[o] \subseteq mem'[base + o]
        <5>1. CASE o < page \/ ~(o < page + PageSize)
          BY <3>2, <3>6, <5>1
        <5>2. CASE ~(o < page \/ ~(o < page + PageSize))
          <6> DEFINE i == o - page
          <6>1. i \in PageOffsets /\ page + i = o
            BY <3>4, <3>5, <5>2, Sizes, SMT DEF PageOffsets
          <6> HIDE DEF i
          <6> QED BY <3>7, <5>2, <6>1
        <5> QED BY <5>1, <5>2
      <4>2. page = index' * PageSize
        BY <1>1 DEF page
      <4> QED BY <1>1, <3>3, <4>1, <4>2, Zenon DEF Programming, Holds
    <3>9. ThisPage'
      <4>1. page = index' * PageSize
        BY <1>1 DEF page
      <4> QED BY <1>1, <1>2, <2>10, <3>3, <3>7, <4>1 DEF ThisPage, Holds
    <3>10. Erasing'
      BY <1>1, <2>10 DEF Erasing
    <3> QED BY <2>3, <2>4, <2>7, <3>8, <3>9, <3>10 DEF Progress, SectorWork
  <2> QED BY <2>8, <2>9, <2>10
<1> QED BY <1>3, <1>4

LEMMA PowerLossSafe ==
  ASSUME TypeInv, TypeInv', Progress, PowerLoss
  PROVE  Progress'
<1>1. PICK m : mem' = [a \in Addr |-> IF a \in Touched(op) THEN m[a] ELSE mem[a]]
  BY DEF PowerLoss
<1>2. /\ op' = NoOp /\ pc' = "idle" /\ ret' # "ok"
      /\ UNCHANGED <<addr, base, data, first, before>>
  BY DEF PowerLoss, Return, requestVars
<1>3. CASE op.kind = "protect"
  <2>1. Touched(op) = {}
    BY <1>3 DEF Touched
  <2>2. mem' = [a \in Addr |-> mem[a]]
    BY <1>1, <2>1
  <2> QED BY <1>2, <1>3, <2>2, NewLevelSafe
<1>4. CASE op.kind # "protect"
  <2>1. protected' = protected
    BY <1>4 DEF PowerLoss
  <2>2. Outside'
    BY <1>1, <1>2, <2>1 DEF Progress, Pending, Outside, Want, Written, Sector, Protected
  <2>3. op'.kind = "none" /\ Touched(op') = {}
    BY <1>2 DEF NoOp, Touched
  <2>4. Pending'
    BY <2>3 DEF Pending
  <2> QED BY <1>2, <2>2, <2>3, <2>4, FailureIsProgressNext
<1> QED BY <1>3, <1>4

LEMMA SafeStep == TypeInv /\ TypeInv' /\ SafeInv /\ [Next]_vars => SafeInv'
<1> SUFFICES ASSUME TypeInv, TypeInv', SafeInv, [Next]_vars, ~missed' PROVE Progress'
  BY DEF SafeInv
<1>1. CASE UNCHANGED vars
  <2>1. /\ Progress
        /\ UNCHANGED <<mem, protected, op, pc, addr, length, base, swap, index, ret, data, first, before>>
    BY <1>1 DEF SafeInv, vars, chipVars, requestVars
  <2>2. Merged' = Merged /\ Busy' = Busy /\ Open' = Open
    BY <2>1 DEF Merged, Requested, Busy, Open, Protected
  <2>3. Outside' /\ Pending'
    BY <2>1 DEF Progress, Outside, Pending, Want, Written, Sector, Touched, Protected
  <2>4. AtRest' /\ Protecting' /\ Shielded' /\ Kept'
    <3>1. AllWant' = AllWant /\ Done' = Done
      BY <2>1, <2>2 DEF Done, AllWant, Want, Written, Protected
    <3> QED BY <2>1, <2>2, <3>1 DEF Progress, SectorWork, AtRest, Protecting, Shielded, Kept,
          Working, Want, Written, Protected
  <2>5. Erasing' /\ Programming' /\ ThisPage'
    BY <2>1, <2>2 DEF Progress, SectorWork, Erasing, Programming, ThisPage, Holds
  <2> QED BY <2>3, <2>4, <2>5 DEF Progress, SectorWork
<1>2. ASSUME NEW a \in Starts, NEW n \in Lengths, Call(a, n) PROVE Progress'
  BY <1>2, CallSafe
<1>3. ASSUME NEW ok \in BOOLEAN, Read(ok) PROVE Progress'
  <2>1. Progress
    BY <1>3 DEF Read, SafeInv
  <2> QED BY <1>3, <2>1, ReadSafe
<1>4. ASSUME NEW ok \in BOOLEAN, NEW sent \in BOOLEAN, Erase(ok, sent) PROVE Progress'
  <2>1. Progress
    BY <1>4 DEF Erase, SafeInv
  <2> QED BY <1>4, <2>1, EraseSafe
<1>5. ASSUME NEW ok \in BOOLEAN, NEW sent \in BOOLEAN, Program(ok, sent) PROVE Progress'
  <2>1. Progress
    BY <1>5 DEF Program, SafeInv
  <2> QED BY <1>5, <2>1, ProgramSafe
<1>6. ASSUME NEW outcome \in {"ready", "timeout", "misread"}, Wait(outcome) PROVE Progress'
  <2>1. Progress
    BY <1>6 DEF Wait, SafeInv
  <2> QED BY <1>6, <2>1, WaitSafe
<1>7. ASSUME NEW a \in Starts, NEW n \in Lengths, NEW ok \in BOOLEAN, NEW sent \in BOOLEAN,
             Lock(a, n, ok, sent)
      PROVE  Progress'
  BY <1>7, ProtectSafe DEF Lock
<1>8. ASSUME NEW ok \in BOOLEAN, NEW sent \in BOOLEAN, Unlock(ok, sent) PROVE Progress'
  BY <1>8, ProtectSafe DEF Unlock
<1>9. ASSUME NEW outcome \in {"ready", "timeout", "misread"}, EndProtect(outcome) PROVE Progress'
  <2>1. Progress
    BY <1>9 DEF EndProtect, SafeInv
  <2> QED BY <1>9, <2>1, EndProtectSafe
<1>10. CASE Finish
  <2>1. Progress
    BY <1>10 DEF Finish, SafeInv
  <2> QED BY <1>10, <2>1, FinishSafe
<1>11. CASE PowerLoss
  <2>1. Progress
    BY <1>11 DEF PowerLoss, SafeInv
  <2> QED BY <1>11, <2>1, PowerLossSafe
<1> QED BY <1>1, <1>2, <1>3, <1>4, <1>5, <1>6, <1>7, <1>8, <1>9, <1>10, <1>11 DEF Next, Driver

(* What the three safety properties rest on: in every reachable state in which no
   busy chip has been overlooked, the call is where Progress says it is. *)
THEOREM SafeInvHolds == Spec => []SafeInv
<1>1. Spec => []TypeInv
  BY TypeInit, TypeStep, PTL DEF Spec
<1> QED BY <1>1, SafeInit, SafeStep, PTL DEF Spec

(* An error, a timeout or a loss of power in the middle of w25qxx_write harms no
   sector but the one being rewritten: those before it hold the request and those
   behind it their old contents, for every size of page, sector and chip. *)
THEOREM DamageConfinedHolds == Spec => []DamageConfined
<1>1. SafeInv => DamageConfined
  BY DEF SafeInv, Progress, Outside, DamageConfined
<1> QED BY <1>1, SafeInvHolds, PTL

(* FLASH_OK means that the request is in the chip, except in protected sectors, and
   that nothing else has changed, erased sectors included. *)
THEOREM OkMeansWrittenHolds == Spec => []OkMeansWritten
<1>1. SafeInv => OkMeansWritten
  BY DEF SafeInv, Progress, AtRest, AllWant, OkMeansWritten
<1> QED BY <1>1, SafeInvHolds, PTL

(* No page is programmed over a cleared bit that it needs: one look at the sector
   before its first page is enough for all of them. *)
THEOREM ProgramTakesHolds == Spec => []ProgramTakes
<1>1. SafeInv => ProgramTakes
  BY DEF SafeInv, Progress, Pending, ProgramTakes
<1> QED BY <1>1, SafeInvHolds, PTL

-----------------------------------------------------------------------------
(* Locks.  Unlike the contents, what is locked survives a chip that was overlooked:
   a command the chip has taken was meant for an open sector, and no new level comes
   into force while a region counts as locked. *)
LockInv ==
  /\ \A x \in locked : Protected(x)
  /\ op.kind = "protect" => locked = {}
  /\ op.kind \in {"erase", "program"} => ~Protected(op.at)
  /\ pc = "protecting" /\ ~missed =>
       /\ ~Busy => \A x \in Region : Protected(x)
       /\ Busy => op.kind = "protect" /\ \A x \in Region : x < op.at

\* The level chosen for a region covers it.
LEMMA LevelCovers ==
  ASSUME NEW a \in 0 .. Word - 1, NEW n \in 0 .. Word - 1, NEW x \in Addr,
         Bounds # {}, a + n < Word, x < a + n
  PROVE  x < LockLevel(a, n)
<1>1. (a + n) % Word = a + n
  BY Sizes, SMT
<1>2. LockLevel(a, n) \in Nat
  BY LockLevelFacts, LevelsAreBoundaries
<1>3. a + n < LockLevel(a, n) \/ LockLevel(a, n) = ChipSize
  BY <1>1, LockLevelFacts
<1> QED BY <1>2, <1>3, Sizes, SMT DEF Addr

LEMMA LockInit == Init => LockInv
BY DEF Init, LockInv, NoOp

\* Commands of a write.
LEMMA SendKeepsLock ==
  ASSUME LockInv, NEW c, c.kind \in {"erase", "program"}, NEW sent, Send(c, sent),
         UNCHANGED <<protected, locked>>, pc' # "protecting"
  PROVE  LockInv'
<1>1. (op' = c /\ ~Protected(c.at)) \/ op' = op
  BY DEF Send
<1>2. CASE op' = c /\ ~Protected(c.at)
  BY <1>2 DEF LockInv, Protected
<1>3. CASE op' = op
  BY <1>3 DEF LockInv, Protected
<1> QED BY <1>1, <1>2, <1>3

LEMMA ProtectLocks ==
  ASSUME TypeInv, TypeInv', LockInv, NEW a, NEW n, NEW level, NEW ok \in BOOLEAN,
         NEW sent \in BOOLEAN, Protect(a, n, level, ok, sent),
         \A x \in Addr : Bounds # {} /\ a + n < Word /\ a <= x /\ x < a + n => x < level
  PROVE  LockInv'
<1> DEFINE c == [NoOp EXCEPT !.kind = "protect", !.at = level]
<1>1. locked' = {} /\ missed' = Busy /\ protected' = protected /\ addr' = a /\ (ok => sent)
  BY DEF Protect
<1>2. /\ ok => pc' = "protecting" /\ length' = n
      /\ ~ok => pc' = "idle"
  BY DEF Protect, Return, Goto
<1>3. c.kind = "protect" /\ c.at = level
  BY DEF NoOp
<1>4. op' = IF sent /\ ~Busy THEN c ELSE op
  BY <1>3 DEF Protect, Send
<1> HIDE DEF c
<1>5. op'.kind \in {"erase", "program"} => ~(op'.at < protected')
  BY <1>1, <1>3, <1>4 DEF LockInv, Protected
<1>6. pc' = "protecting" /\ ~missed' => op' = c /\ Busy'
  BY <1>1, <1>2, <1>3, <1>4 DEF Busy
<1>7. pc' = "protecting" /\ ~missed' => \A x \in Region' : x < op'.at
  BY <1>1, <1>2, <1>3, <1>6 DEF Region, Requested
<1> QED BY <1>1, <1>3, <1>5, <1>6, <1>7 DEF LockInv, Protected

LEMMA LockStep == TypeInv /\ TypeInv' /\ LockInv /\ [Next]_vars => LockInv'
<1> SUFFICES ASSUME TypeInv, TypeInv', LockInv, [Next]_vars PROVE LockInv'
  OBVIOUS
<1>1. CASE UNCHANGED vars
  BY <1>1 DEF vars, chipVars, requestVars, LockInv, Protected, Busy, Region, Requested
<1>2. ASSUME NEW a \in Starts, NEW n \in Lengths, Call(a, n) PROVE LockInv'
  BY <1>2 DEF Call, chipVars, Return, Goto, LockInv, Protected
<1>3. ASSUME NEW ok \in BOOLEAN, Read(ok) PROVE LockInv'
  <2>1. pc' # "protecting" /\ UNCHANGED <<protected, op, locked>>
    BY <1>3 DEF Read, chipVars, Return, Goto
  <2> QED BY <2>1 DEF LockInv, Protected
<1>4. ASSUME NEW ok \in BOOLEAN, NEW sent \in BOOLEAN, Erase(ok, sent) PROVE LockInv'
  <2>1. pc' # "protecting" /\ UNCHANGED <<protected, locked>>
    BY <1>4 DEF Erase, Return, Goto
  <2> DEFINE c == [NoOp EXCEPT !.kind = "erase", !.at = base]
  <2>2. Send(c, sent) /\ c.kind = "erase"
    BY <1>4 DEF Erase, NoOp
  <2> HIDE DEF c
  <2> QED BY <2>1, <2>2, SendKeepsLock
<1>5. ASSUME NEW ok \in BOOLEAN, NEW sent \in BOOLEAN, Program(ok, sent) PROVE LockInv'
  <2> DEFINE page == index * PageSize
  <2>1. pc' # "protecting" /\ UNCHANGED <<protected, locked>>
    BY <1>5 DEF Program, Return, Goto
  <2>2. Send([kind |-> "program", at |-> base + page,
              from |-> [i \in PageOffsets |-> Merged[page + i]]], sent)
    BY <1>5 DEF Program
  <2> HIDE DEF page
  <2> QED BY <2>1, <2>2, SendKeepsLock
<1>6. ASSUME NEW outcome \in {"ready", "timeout", "misread"}, Wait(outcome) PROVE LockInv'
  <2>1. pc' # "protecting" /\ UNCHANGED <<protected, op, locked>>
    BY <1>6 DEF Wait, Advance, chipVars, Return, Goto
  <2> QED BY <2>1 DEF LockInv, Protected
<1>7. ASSUME NEW a \in Starts, NEW n \in Lengths, NEW ok \in BOOLEAN, NEW sent \in BOOLEAN,
             Lock(a, n, ok, sent)
      PROVE  LockInv'
  <2>1. \A x \in Addr : Bounds # {} /\ a + n < Word /\ a <= x /\ x < a + n => x < LockLevel(a, n)
    BY Requests, LevelCovers
  <2> QED BY <1>7, <2>1, ProtectLocks DEF Lock
<1>8. ASSUME NEW ok \in BOOLEAN, NEW sent \in BOOLEAN, Unlock(ok, sent) PROVE LockInv'
  <2>1. \A x \in Addr : Bounds # {} /\ 0 + 0 < Word /\ 0 <= x /\ x < 0 + 0 => x < 0
    BY SMT DEF Addr
  <2> QED BY <1>8, <2>1, ProtectLocks DEF Unlock
<1>9. ASSUME NEW outcome \in {"ready", "timeout", "misread"}, EndProtect(outcome) PROVE LockInv'
  <2>1. /\ pc = "protecting" /\ pc' = "idle" /\ UNCHANGED <<protected, op>>
        /\ locked' = IF Busy \/ missed THEN {} ELSE Region
    BY <1>9 DEF EndProtect, chipVars, Return
  <2> QED BY <2>1 DEF LockInv, Protected, Busy
<1>10. CASE Finish
  <2>1. /\ op' = NoOp /\ protected' = IF op.kind = "protect" THEN op.at ELSE protected
        /\ UNCHANGED <<pc, missed, locked, addr, length>> /\ Busy
    BY <1>10 DEF Finish
  <2>2. Region' = Region /\ op'.kind = "none" /\ ~Busy'
    BY <2>1 DEF Region, Requested, NoOp, Busy
  <2> QED BY <2>1, <2>2 DEF LockInv, Protected
<1>11. CASE PowerLoss
  <2>1. /\ op' = NoOp /\ pc' = "idle" /\ locked' = locked
        /\ op.kind # "protect" => protected' = protected
    BY <1>11 DEF PowerLoss, Return
  <2> QED BY <2>1 DEF LockInv, Protected, NoOp
<1> QED BY <1>1, <1>2, <1>3, <1>4, <1>5, <1>6, <1>7, <1>8, <1>9, <1>10, <1>11 DEF Next, Driver

\* What the chip works on is open.
LEMMA TouchedIsOpen ==
  ASSUME TypeInv, LockInv, NEW x \in locked
  PROVE  x \in Addr /\ x \notin Touched(op)
<1>1. x \in Addr /\ x \in Nat /\ x < protected
  BY Sizes, SMT DEF TypeInv, TypeOK, LockInv, Protected, Addr
<1>2. op.at \in Nat /\ protected \in Nat
  <2>1. Levels \subseteq Nat
    BY LevelsAreBoundaries
  <2>2. Addr \subseteq Nat
    BY Sizes, SMT DEF Addr
  <2>3. op.at \in Addr \cup Levels /\ protected \in Levels
    BY DEF TypeInv, TypeOK
  <2> QED BY <2>1, <2>2, <2>3
<1>3. op.kind \in {"erase", "program"} => protected <= op.at
  BY <1>2, SMT DEF LockInv, Protected
<1>4. op.kind \in {"erase", "program"} /\ x \in Touched(op) => op.at <= x
  BY DEF Touched, Sector
<1>5. op.kind \notin {"erase", "program"} => Touched(op) = {}
  BY DEF Touched, TypeInv, TypeOK
<1> QED BY <1>1, <1>2, <1>3, <1>4, <1>5, SMT

(* A locked region stays as it is until the next lock or unlock, for every geometry
   and table, and even where the other properties claim nothing: after a status read
   that failed, or a call made to a busy chip. *)
THEOREM LockedUnchangedHolds == Spec => LockedUnchanged
<1>1. TypeInv /\ LockInv /\ [Next]_vars
      => [\A a \in locked \cap locked' : mem'[a] = mem[a]]_vars
  <2> SUFFICES ASSUME TypeInv, LockInv, Next, NEW a \in locked PROVE mem'[a] = mem[a]
    OBVIOUS
  <2>1. a \in Addr /\ a \notin Touched(op)
    BY TouchedIsOpen
  <2>2. CASE Finish
    BY <2>1, <2>2 DEF Finish
  <2>3. CASE PowerLoss
    BY <2>1, <2>3 DEF PowerLoss
  <2>4. CASE ~Finish /\ ~PowerLoss
    BY <2>4 DEF Next, Driver, Call, Lock, Unlock, Protect, Read, Erase, Program, Wait,
                EndProtect, chipVars
  <2> QED BY <2>2, <2>3, <2>4
<1>2. Spec => []TypeInv
  BY TypeInit, TypeStep, PTL DEF Spec
<1>3. Spec => []LockInv
  BY <1>2, LockInit, LockStep, PTL DEF Spec
<1> QED BY <1>1, <1>2, <1>3, PTL DEF Spec, LockedUnchanged
-----------------------------------------------------------------------------
(* A call goes on only towards its end.  How far it is with a sector; within the rest of
   the request, every step of the driver takes it down. *)
Phase ==
  CASE pc = "idle" -> 0
    [] pc = "protecting" -> 1
    [] pc = "programming" -> 2 * (NPages - index) - 1
    [] pc = "program" -> 2 * (NPages - index)
    [] pc = "erasing" -> 2 * NPages + 1
    [] pc = "erase" -> 2 * NPages + 2
    [] pc = "read" -> 2 * NPages + 3

Nearer == length' < length \/ (length' = length /\ Phase' < Phase)

\* What is left is a pair of natural numbers, and every step taken during a call, but for
\* those the chip takes by itself, makes the pair smaller.
StepsNearer ==
  /\ [](length \in Nat /\ Phase \in Nat)
  /\ [][pc # "idle" => Nearer \/ (Finish /\ UNCHANGED <<pc, length, index>>)]_vars

LEMMA PhaseType == TypeInv => length \in Nat /\ Phase \in Nat
<1> SUFFICES ASSUME TypeInv PROVE length \in Nat /\ Phase \in Nat
  OBVIOUS
<1>1. pc \in PCs /\ index \in 0 .. NPages - 1 /\ NPages \in Nat \ {0} /\ length \in Nat
  BY Sizes, SMT DEF TypeInv, TypeOK
<1>2. /\ 2 * (NPages - index) - 1 \in Nat /\ 2 * (NPages - index) \in Nat
      /\ 2 * NPages + 1 \in Nat /\ 2 * NPages + 2 \in Nat /\ 2 * NPages + 3 \in Nat
  BY <1>1, SMT
<1> QED BY <1>1, <1>2 DEF Phase, PCs

\* A call that ends has nothing left.
LEMMA ReturnNearer ==
  ASSUME TypeInv, pc # "idle", NEW r, Return(r)
  PROVE  Nearer
<1>1. pc' = "idle" /\ length' = 0
  BY DEF Return
<1>2. Phase' = 0
  BY <1>1 DEF Phase
<1>3. CASE length = 0
  <2>1. pc = "protecting"
    BY <1>3, SMT DEF TypeInv, TypeOK, Locals
  <2>2. Phase = 1
    BY <2>1 DEF Phase
  <2> QED BY <1>1, <1>2, <1>3, <2>2, SMT DEF Nearer
<1>4. CASE length # 0
  <2>1. length' < length
    BY <1>1, <1>4, SMT DEF TypeInv, TypeOK
  <2> QED BY <2>1 DEF Nearer
<1> QED BY <1>3, <1>4

LEMMA DriverNearer ==
  ASSUME TypeInv, Driver({"ready", "timeout", "misread"})
  PROVE  Nearer
<1>0. /\ index \in Nat /\ index < NPages /\ NPages \in Nat \ {0} /\ length \in Nat
      /\ pc \notin {"program", "programming"} => index = 0
  BY Sizes, SMT DEF TypeInv, TypeOK, Locals
<1>1. ASSUME NEW ok \in BOOLEAN, Read(ok) PROVE Nearer
  <2>1. pc = "read" /\ index = 0 /\ Phase = 2 * NPages + 3
    BY <1>0, <1>1 DEF Read, Phase
  <2>2. CASE Return("error")
    BY <2>1, <2>2, ReturnNearer
  <2>3. CASE ~Return("error")
    <3>1. pc' \in {"erase", "program"} /\ UNCHANGED <<length, index>>
      BY <1>1, <2>3 DEF Read, Goto
    <3>2. Phase' \in {2 * NPages + 2, 2 * (NPages - index)}
      BY <3>1 DEF Phase
    <3> QED BY <1>0, <2>1, <3>1, <3>2, SMT DEF Nearer
  <2> QED BY <2>2, <2>3
<1>2. ASSUME NEW ok \in BOOLEAN, NEW sent \in BOOLEAN, Erase(ok, sent) PROVE Nearer
  <2>1. pc = "erase" /\ Phase = 2 * NPages + 2
    BY <1>2 DEF Erase, Phase
  <2>2. CASE Return("error")
    BY <2>1, <2>2, ReturnNearer
  <2>3. CASE ~Return("error")
    <3>1. pc' = "erasing" /\ length' = length
      BY <1>2, <2>3 DEF Erase, Goto
    <3>2. Phase' = 2 * NPages + 1
      BY <3>1 DEF Phase
    <3> QED BY <1>0, <2>1, <3>1, <3>2, SMT DEF Nearer
  <2> QED BY <2>2, <2>3
<1>3. ASSUME NEW ok \in BOOLEAN, NEW sent \in BOOLEAN, Program(ok, sent) PROVE Nearer
  <2>1. pc = "program" /\ Phase = 2 * (NPages - index)
    BY <1>3 DEF Program, Phase
  <2>2. CASE Return("error")
    BY <2>1, <2>2, ReturnNearer
  <2>3. CASE ~Return("error")
    <3>1. pc' = "programming" /\ UNCHANGED <<length, index>>
      BY <1>3, <2>3 DEF Program, Goto
    <3>2. Phase' = 2 * (NPages - index) - 1
      BY <3>1 DEF Phase
    <3> QED BY <1>0, <2>1, <3>1, <3>2, SMT DEF Nearer
  <2> QED BY <2>2, <2>3
<1>4. ASSUME NEW outcome, Wait(outcome) PROVE Nearer
  <2>1. pc \in {"erasing", "programming"}
    BY <1>4 DEF Wait
  <2>2. ASSUME NEW r, Return(r) PROVE Nearer
    BY <2>1, <2>2, ReturnNearer
  <2>3. CASE pc = "erasing" /\ pc' = "program" /\ UNCHANGED <<length, index>>
    <3>1. Phase = 2 * NPages + 1 /\ Phase' = 2 * (NPages - index)
      BY <2>3 DEF Phase
    <3> QED BY <1>0, <2>3, <3>1, SMT DEF Nearer
  <2>4. CASE pc = "programming" /\ Advance
    <3>1. Phase = 2 * (NPages - index) - 1
      BY <2>4 DEF Phase
    <3>2. CASE index + 1 < NPages
      <4>1. index' = index + 1 /\ pc' = "program" /\ length' = length
        BY <2>4, <3>2 DEF Advance, Goto
      <4>2. Phase' = 2 * (NPages - (index + 1))
        BY <4>1 DEF Phase
      <4> QED BY <1>0, <3>1, <4>1, <4>2, SMT DEF Nearer
    <3>3. CASE ~(index + 1 < NPages) /\ length # WriteLen
      <4>1. length' = length - WriteLen
        BY <2>4, <3>3 DEF Advance
      <4>2. WriteLen \in Nat \ {0}
        BY <2>1, WriteLenFacts
      <4>3. length' < length
        BY <1>0, <4>1, <4>2, SMT
      <4> QED BY <4>3 DEF Nearer
    <3>4. CASE ~(index + 1 < NPages) /\ length = WriteLen
      BY <2>2, <2>4, <3>4 DEF Advance
    <3> QED BY <3>2, <3>3, <3>4
  <2>5. \/ Return("error")
        \/ pc = "erasing" /\ pc' = "program" /\ UNCHANGED <<length, index>>
        \/ pc = "programming" /\ Advance
    BY <1>4, <2>1 DEF Wait, Goto
  <2> QED BY <2>2, <2>3, <2>4, <2>5
<1>5. ASSUME NEW outcome, EndProtect(outcome) PROVE Nearer
  <2>1. pc = "protecting" /\ Return("ok")
    BY <1>5 DEF EndProtect
  <2> QED BY <2>1, ReturnNearer
<1> QED BY <1>1, <1>2, <1>3, <1>4, <1>5 DEF Driver

(* Every step of the driver brings a call nearer to its end, for a chip of any size, for a
   request that wraps and is not cut, and whatever fails or is polled in vain: no call can
   go on for ever.  What CallReturns needs besides is that the driver keeps running. *)
THEOREM StepsNearerAlways == Spec => StepsNearer
<1>1. TypeInv /\ [Next]_vars
      => [pc # "idle" => Nearer \/ (Finish /\ UNCHANGED <<pc, length, index>>)]_vars
  <2> SUFFICES ASSUME TypeInv, Next, pc # "idle"
               PROVE  Nearer \/ (Finish /\ UNCHANGED <<pc, length, index>>)
    OBVIOUS
  <2>1. CASE Finish
    BY <2>1 DEF Finish
  <2>2. CASE PowerLoss
    BY <2>2, ReturnNearer DEF PowerLoss
  <2>3. CASE ~Finish /\ ~PowerLoss
    <3>1. Driver({"ready", "timeout", "misread"})
      BY <2>3 DEF Next, Call, Lock, Unlock, Protect
    <3> QED BY <3>1, DriverNearer
  <2> QED BY <2>1, <2>2, <2>3
<1>2. Spec => []TypeInv
  BY TypeInit, TypeStep, PTL DEF Spec
<1> QED BY <1>1, <1>2, PhaseType, PTL DEF Spec, StepsNearer
=============================================================================
