--------------------------- MODULE NandFlashProofs ---------------------------
(***************************************************************************)
(* The NAND driver, for every size of page, block and chip, every set of   *)
(* factory-bad blocks, and any mixture of failures and losses of power.    *)
(***************************************************************************)
EXTENDS NandFlash, TLAPS

-----------------------------------------------------------------------------
(* Arithmetic of pages and blocks, the only place where products occur. *)
LEMMA Sizes ==
  /\ PageSize \in Nat \ {0} /\ NPages \in Nat \ {0} /\ NBlocks \in Nat \ {0}
  /\ BlockSize \in Nat \ {0} /\ BlockSize = NPages * PageSize /\ PageSize <= BlockSize
  /\ ChipSize \in Nat \ {0} /\ ChipSize = NBlocks * BlockSize /\ BlockSize <= ChipSize
<1> DEFINE B == BlockSize
<1>1. PageSize \in Nat \ {0} /\ NPages \in Nat \ {0} /\ NBlocks \in Nat \ {0}
  BY NandAssumption
<1>2. B \in Nat \ {0} /\ PageSize <= B
  BY <1>1, SMT DEF BlockSize
<1> HIDE DEF B
<1>3. NBlocks * B \in Nat \ {0} /\ B <= NBlocks * B
  BY <1>1, <1>2, SMT
<1> QED BY <1>1, <1>2, <1>3 DEF B, BlockSize, ChipSize

\* Division by the size of a block or page.
LEMMA Division ==
  ASSUME NEW s \in Nat \ {0}, NEW a \in Nat
  PROVE  /\ a \div s \in Nat /\ a % s \in 0 .. s - 1 /\ s * (a \div s) \in Nat
         /\ a = s * (a \div s) + (a % s)
<1>1. a \div s \in Nat /\ a % s \in 0 .. s - 1 /\ a = s * (a \div s) + (a % s)
  BY SMT
<1> DEFINE k == a \div s
<1>2. k \in Nat
  BY <1>1
<1> HIDE DEF k
<1>3. s * k \in Nat
  BY <1>2, SMT
<1> QED BY <1>1, <1>3 DEF k

\* There is one quotient.
LEMMA Quotient ==
  ASSUME NEW s \in Nat \ {0}, NEW a \in Nat, NEW k \in Nat, s * k <= a, a < s * k + s
  PROVE  k = a \div s
<1> DEFINE q == a \div s  r == a % s
<1>1. q \in Nat /\ r \in 0 .. s - 1 /\ a = s * q + r
  BY Division
<1> HIDE DEF q, r
<1>2. CASE q < k
  <2>1. s * (q + 1) <= s * k
    BY <1>1, <1>2, SMT
  <2>2. s * (q + 1) = s * q + s
    BY <1>1, SMT
  <2>3. s * q \in Nat /\ s * k \in Nat
    BY <1>1, SMT
  <2> QED BY <1>1, <2>1, <2>2, <2>3, SMT
<1>3. CASE k < q
  <2>1. s * (k + 1) <= s * q
    BY <1>1, <1>3, SMT
  <2>2. s * (k + 1) = s * k + s
    BY <1>1, SMT
  <2>3. s * q \in Nat /\ s * k \in Nat
    BY <1>1, SMT
  <2> QED BY <1>1, <2>1, <2>2, <2>3, SMT
<1>4. q = k \/ q < k \/ k < q
  BY <1>1, SMT
<1> QED BY <1>2, <1>3, <1>4 DEF q

\* A multiple below a multiple is a whole unit below it.
LEMMA Multiples ==
  ASSUME NEW s \in Nat \ {0}, NEW k \in Nat, NEW n \in Nat
  PROVE  /\ s * k \in Nat /\ s * n \in Nat /\ s * k = k * s
         /\ s * (k + 1) = s * k + s
         /\ s * k < s * n => k < n
         /\ k < n => s * k + s <= s * n
<1>1. s * k \in Nat /\ s * n \in Nat /\ s * (k + 1) = s * k + s /\ s * k = k * s
  BY SMT
<1>2. ASSUME n <= k PROVE s * n <= s * k
  BY <1>2, SMT
<1>3. s * k < s * n => k < n
  BY <1>1, <1>2, SMT
<1>4. ASSUME k < n PROVE s * k + s <= s * n
  <2>1. k + 1 <= n
    BY <1>4, SMT
  <2>2. s * (k + 1) <= s * n
    BY <2>1, SMT
  <2> QED BY <1>1, <2>2
<1> QED BY <1>1, <1>3, <1>4

LEMMA BlockFacts ==
  ASSUME NEW a \in Addr
  PROVE  /\ a \in Nat /\ Block(a) \in Blocks /\ BlockBase(a) \in Addr
         /\ BlockBase(a) <= a /\ a < BlockBase(a) + BlockSize
         /\ BlockBase(a) + BlockSize <= ChipSize
         /\ a % BlockSize = a - BlockBase(a)
<1> DEFINE B == BlockSize  k == a \div B
<1>1. B \in Nat \ {0} /\ NBlocks \in Nat \ {0} /\ ChipSize = B * NBlocks /\ ChipSize \in Nat
  BY Sizes, Multiples
<1> HIDE DEF B
<1>2. a \in Nat /\ a < ChipSize
  BY <1>1, SMT DEF Addr
<1>3. k \in Nat /\ a % B \in 0 .. B - 1 /\ B * k \in Nat /\ a = B * k + (a % B)
  BY <1>1, <1>2, Division
<1> HIDE DEF k
<1>4. B * k < B * NBlocks
  BY <1>1, <1>2, <1>3, SMT
<1>5. k < NBlocks /\ B * k + B <= B * NBlocks
  BY <1>1, <1>3, <1>4, Multiples
<1>6. k \in Blocks
  BY <1>1, <1>3, <1>5, SMT DEF Blocks
<1>7. /\ B * k <= a /\ a < B * k + B /\ B * k + B <= ChipSize /\ B * k \in Addr
      /\ a % B = a - B * k
  BY <1>1, <1>2, <1>3, <1>5, SMT DEF Addr
<1> QED BY <1>2, <1>6, <1>7 DEF Block, BlockBase, k, B

\* The block of an address is the one between whose bounds it lies.
LEMMA InBlock ==
  ASSUME NEW a \in Addr, NEW b \in Addr
  PROVE  /\ Block(a) = Block(b) <=> BlockBase(b) <= a /\ a < BlockBase(b) + BlockSize
         /\ Block(a) = Block(b) => BlockBase(a) = BlockBase(b)
         /\ Block(BlockBase(b)) = Block(b)
<1>1. \A c \in Addr : BlockBase(b) <= c /\ c < BlockBase(b) + BlockSize => Block(c) = Block(b)
  <2> SUFFICES ASSUME NEW c \in Addr, BlockBase(b) <= c, c < BlockBase(b) + BlockSize
               PROVE  Block(c) = Block(b)
    OBVIOUS
  <2>1. Block(b) \in Nat /\ c \in Nat
    BY BlockFacts, Sizes, SMT DEF Blocks
  <2> QED BY <2>1, Quotient, Sizes DEF Block, BlockBase
<1>2. Block(a) = Block(b) => BlockBase(a) = BlockBase(b)
  BY DEF BlockBase
<1>3. BlockBase(b) \in Addr /\ BlockBase(b) <= BlockBase(b) /\ BlockBase(b) < BlockBase(b) + BlockSize
  <2>1. BlockBase(b) \in Nat
    BY BlockFacts
  <2> QED BY <2>1, BlockFacts, Sizes, SMT
<1> QED BY <1>1, <1>2, <1>3, BlockFacts

\* The next block, if the chip has one.
LEMMA NextBlock ==
  ASSUME NEW a \in Addr, NEW c, c = BlockBase(a) + BlockSize, c < ChipSize
  PROVE  c \in Addr /\ BlockBase(c) = c /\ c % BlockSize = 0
<1> DEFINE B == BlockSize  k == Block(a)
<1>1. B \in Nat \ {0} /\ k \in Nat /\ c = B * k + B
  <2>1. Block(a) \in Nat
    BY BlockFacts, Sizes, SMT DEF Blocks
  <2> QED BY <2>1, Sizes DEF BlockBase
<1> HIDE DEF B, k
<1>2. c = B * (k + 1) /\ c \in Nat /\ k + 1 \in Nat
  BY <1>1, SMT
<1>3. B * (k + 1) <= c /\ c < B * (k + 1) + B
  BY <1>1, <1>2, SMT
<1>4. k + 1 = c \div B
  BY <1>1, <1>2, <1>3, Quotient
<1>5. c % B = 0
  <2> DEFINE r == c % B
  <2>1. c = B * (k + 1) + r /\ r \in 0 .. B - 1
    BY <1>1, <1>2, <1>4, Division
  <2> HIDE DEF r
  <2>2. \A m \in Nat : m = m + r => r = 0
    BY <1>1, <2>1, SMT
  <2>3. r = 0
    BY <1>2, <2>1, <2>2
  <2> QED BY <2>3 DEF r
<1>6. c \in Addr
  BY <1>2, Sizes, SMT DEF Addr
<1> QED BY <1>2, <1>4, <1>5, <1>6 DEF BlockBase, Block, B

LEMMA PageFacts ==
  ASSUME NEW p \in Pages
  PROVE  /\ p \in Nat /\ p * PageSize \in Nat /\ p * PageSize + PageSize <= ChipSize
<1> DEFINE S == PageSize
<1>1. NBlocks * NPages \in Nat /\ S \in Nat \ {0} /\ ChipSize = S * (NBlocks * NPages)
  BY Sizes, SMT
<1>2. p \in Nat /\ p < NBlocks * NPages
  BY <1>1, SMT DEF Pages
<1> HIDE DEF S
<1> DEFINE n == NBlocks * NPages
<1>3. n \in Nat /\ p < n
  BY <1>1, <1>2
<1>4. S * p \in Nat /\ S * p = p * S /\ S * p + S <= S * n
  <2> HIDE DEF n
  <2> QED BY <1>1, <1>2, <1>3, Multiples
<1> QED BY <1>1, <1>2, <1>4 DEF S

LEMMA PageOf ==
  ASSUME NEW a \in Addr
  PROVE  LET p == a \div PageSize IN
         /\ p \in Pages /\ p * PageSize <= a /\ a < p * PageSize + PageSize
         /\ a % PageSize = a - p * PageSize /\ a % PageSize \in 0 .. PageSize - 1
<1> DEFINE S == PageSize  p == a \div S  n == NBlocks * NPages
<1>1. n \in Nat /\ S \in Nat \ {0} /\ ChipSize = S * n
  BY Sizes, SMT
<1> HIDE DEF S
<1>2. a \in Nat /\ a < S * n
  BY <1>1, Sizes, SMT DEF Addr
<1>3. p \in Nat /\ a % S \in 0 .. S - 1 /\ S * p \in Nat /\ a = S * p + (a % S)
  BY <1>1, <1>2, Division
<1> HIDE DEF p, n
<1>4. S * p < S * n /\ S * n \in Nat
  BY <1>1, <1>2, <1>3, SMT
<1>5. p < n /\ S * p = p * S
  BY <1>1, <1>3, <1>4, Multiples
<1>6. p \in 0 .. n - 1
  BY <1>1, <1>3, <1>5, SMT
<1>7. p * S <= a /\ a < p * S + S /\ a % S = a - p * S
  BY <1>1, <1>2, <1>3, <1>5, SMT
<1> QED BY <1>3, <1>6, <1>7 DEF Pages, p, n, S

\* Page i of a block lies inside it, and the pages cover it.
LEMMA PageInBlock ==
  ASSUME NEW i \in 0 .. NPages - 1
  PROVE  /\ i \in Nat /\ i * PageSize \in Nat /\ i * PageSize + PageSize <= BlockSize
         /\ (i + 1) * PageSize = i * PageSize + PageSize
         /\ i + 1 = NPages => i * PageSize + PageSize = BlockSize
<1>1. i \in Nat /\ i < NPages
  BY Sizes, SMT
<1>2. /\ PageSize * i \in Nat /\ PageSize * i = i * PageSize
      /\ PageSize * (i + 1) = PageSize * i + PageSize /\ PageSize * i + PageSize <= PageSize * NPages
      /\ PageSize * (i + 1) = (i + 1) * PageSize /\ PageSize * NPages = NPages * PageSize
  <2>1. i + 1 \in Nat /\ NPages \in Nat
    BY <1>1, Sizes, SMT
  <2> QED BY <1>1, <2>1, Sizes, Multiples
<1> QED BY <1>1, <1>2, Sizes

\* The page behind one that is not the last of its block is in the chip.
LEMMA NextPage ==
  ASSUME NEW p \in Pages \cup {NoPage}, (p + 1) % NPages # 0
  PROVE  p + 1 \in Pages
<1> DEFINE N == NPages  n == NBlocks * NPages
<1>1. N \in Nat \ {0} /\ NBlocks \in Nat \ {0} /\ n = N * NBlocks /\ n \in Nat \ {0}
  BY Sizes, SMT
<1>2. p + 1 \in Nat /\ p + 1 <= n
  BY <1>1, SMT DEF Pages, NoPage
<1>3. n % N = 0
  <2> HIDE DEF N, n
  <2>1. N * NBlocks <= n /\ n < N * NBlocks + N
    BY <1>1, SMT
  <2>2. NBlocks = n \div N
    BY <1>1, <2>1, Quotient
  <2>3. n = N * (n \div N) + (n % N) /\ n % N \in 0 .. N - 1
    BY <1>1, Division
  <2> QED BY <1>1, <2>2, <2>3, SMT
<1>4. p + 1 # n
  BY <1>3
<1> HIDE DEF n
<1>5. p + 1 \in 0 .. n - 1
  BY <1>1, <1>2, <1>4, SMT
<1> QED BY <1>5 DEF Pages, n

-----------------------------------------------------------------------------
(* The type invariant by parts. *)
Commands == [kind : {"none", "erase", "program", "mark", "unmark"}, at : Addr,
             from : [0 .. PageSize - 1 -> Content]]
ChipType ==
  /\ mem \in [Addr -> Content] /\ mark \subseteq Blocks /\ op \in Commands
  /\ prot \in BOOLEAN /\ failed \in BOOLEAN
DriverType ==
  /\ up \in BOOLEAN /\ lut \in [Blocks -> BOOLEAN] /\ register \in Pages \cup {NoPage}
  /\ buf \in [Addr -> Content] /\ lost \subseteq Addr
GhostType ==
  /\ before \in [Addr -> Content] /\ calls \in Nat /\ first \in Nat
  /\ late \in BOOLEAN /\ missed \in BOOLEAN
CallType ==
  /\ pc \in PCs /\ job \in Jobs /\ mode \in {"plain", "first", "next"}
  /\ marker \in {"good", "bad"} /\ ret \in {"none", "ok", "error", "reset"}
  /\ addr \in Nat /\ length \in Nat /\ readAddr \in Nat /\ readLength \in Nat
  /\ index \in 0 .. NPages - 1

LEMMA Types == TypeOK <=> ChipType /\ DriverType /\ GhostType /\ CallType
BY DEF TypeOK, ChipType, Commands, DriverType, GhostType, CallType

(* Which call can be at which place: only a write reads and programs, only a write and an
   erase remove a marker, and the marker is "bad" only on the way there. *)
Idle == pc \in {"idle", "locking"}
Marking == pc \in {"mark", "marking"}
Reading == pc \in {"ecc", "page"} \/ (Marking /\ readLength > 0)
Places ==
  /\ pc \in {"ecc", "page"} => job \in {"read", "write"}
  /\ pc \in {"erase", "erasing"} => job \in {"write", "erase"}
  /\ pc \in {"program", "programming"} => job \in {"write", "page"}
  /\ Marking => job \in Transfers
  /\ Marking /\ marker = "good" => job \in {"write", "erase"}
  /\ ~Marking => marker = "good"
  /\ Reading => job \in {"read", "write"} /\ (Marking => marker = "bad")
  /\ job = "read" /\ Marking => Reading

\* The request stays inside the chip, and the pages of a block are programmed from its first on.
Extent ==
  /\ ~Idle /\ job # "read" => addr \in Addr
  /\ ~Idle /\ job = "write" => length > 0 /\ addr + length <= ChipSize
  /\ ~Idle /\ job = "page" =>
       /\ length > 0 /\ (addr % PageSize) + length <= PageSize
       /\ index = (addr % BlockSize) \div PageSize
  /\ ~Idle /\ job = "write" /\ index > 0 =>
       pc \in {"program", "programming"} \/ (Marking /\ marker = "bad" /\ readLength = 0)
  /\ Idle => index = 0 /\ length = 0

\* So does what is read; a write reads its block to the end.
ReadExtent ==
  /\ Reading =>
       /\ readAddr \in Addr /\ readAddr + readLength <= ChipSize
       /\ job = "read" => first <= readAddr
       /\ job = "write" => /\ BlockBase(addr) <= readAddr
                           /\ readAddr + readLength = BlockBase(addr) + BlockSize
  /\ pc = "page" => readLength > 0
  /\ ~Reading => readLength = 0 /\ readAddr = 0 /\ mode = "plain"

CallInv == CallType /\ Places /\ Extent /\ ReadExtent
TypeInv == ChipType /\ DriverType /\ GhostType /\ CallInv

LEMMA CurrentBlock ==
  ASSUME TypeInv, ~Idle
  PROVE  /\ Current \in Blocks
         /\ job # "read" => addr \in Addr /\ Current = Block(addr) /\ BlockSize * Current = BlockBase(addr)
         /\ job = "read" => Reading /\ readAddr \in Addr
         /\ BlockSize * Current \in Addr
<1>1. CallType /\ Places /\ Extent /\ ReadExtent
  BY DEF TypeInv, CallInv
<1>2. CASE job = "read"
  <2>1. Reading
    BY <1>1, <1>2 DEF Places, Idle, Marking, Reading, CallType, PCs
  <2>2. readAddr \in Addr
    BY <1>1, <2>1 DEF ReadExtent
  <2> QED BY <1>2, <2>1, <2>2, BlockFacts DEF Current, BlockBase
<1>3. CASE job # "read"
  BY <1>1, <1>3, BlockFacts DEF Extent, Current, BlockBase
<1> QED BY <1>2, <1>3

LEMMA Initial == Init => TypeInv
<1> SUFFICES ASSUME Init PROVE TypeInv
  OBVIOUS
<1> USE DEF Init
<1>1. 0 \in Addr /\ 0 \in 0 .. NPages - 1
  BY Sizes, SMT DEF Addr
<1>2. \A a \in Addr : Data(a, 0) \in Content
  BY Sizes, SMT DEF Data, Content, Addr
<1>3. Erased \in Content /\ Stale \in Content
  BY DEF Erased, Stale, Content
<1>4. NoOp \in Commands
  BY <1>1, <1>3 DEF NoOp, Commands
<1>5. ChipType
  BY <1>2, <1>4, NandAssumption DEF ChipType
<1>6. DriverType /\ GhostType
  BY <1>2, <1>3 DEF DriverType, GhostType, Fresh
<1>7. CallType
  BY <1>1 DEF CallType, PCs, Jobs
<1>8. Places /\ Extent /\ ReadExtent
  BY SMT DEF Places, Extent, ReadExtent, Idle, Marking, Reading
<1> QED BY <1>5, <1>6, <1>7, <1>8 DEF TypeInv, CallInv

-----------------------------------------------------------------------------
(* The ways on: the end of a call, the next block of a write, the end of a read. *)
LEMMA ReturnInv ==
  ASSUME NEW r \in {"ok", "error", "reset"}, Return(r), job' \in Jobs, addr' \in Nat
  PROVE  CallInv'
<1>1. /\ pc' = "idle" /\ ret' = r /\ length' = 0 /\ index' = 0 /\ marker' = "good"
      /\ readAddr' = 0 /\ readLength' = 0 /\ mode' = "plain"
  BY DEF Return
<1>2. 0 \in 0 .. NPages - 1 /\ 0 \in Nat
  BY Sizes, SMT
<1>3. CallType'
  BY <1>1, <1>2 DEF CallType, PCs
<1>4. Idle' /\ ~Marking' /\ ~Reading'
  BY <1>1 DEF Idle, Marking, Reading
<1>5. Places' /\ Extent' /\ ReadExtent'
  BY <1>1, <1>4 DEF Places, Extent, ReadExtent
<1> QED BY <1>3, <1>5 DEF CallInv

\* What is left of a request at the end of the chip.
LEMMA CutFacts ==
  ASSUME NEW a \in Addr, NEW n \in Nat
  PROVE  Cut(a, n) \in Nat /\ a + Cut(a, n) <= ChipSize /\ (n > 0 => Cut(a, n) > 0)
BY Sizes, SMT DEF Cut, Addr

LEMMA StartBlockInv ==
  ASSUME NEW a \in Addr, NEW n \in Nat, n > 0, a + n <= ChipSize, StartBlock(a, n),
         job' = "write", addr' = a, length' = n, index' = 0, marker' = "good",
         readAddr = 0, readLength = 0, mode = "plain"
  PROVE  CallInv'
<1>1. 0 \in 0 .. NPages - 1 /\ 0 \in Nat /\ a \in Nat /\ BlockSize \in Nat \ {0}
  BY Sizes, SMT DEF Addr
<1>2. BlockBase(a) \in Addr /\ BlockBase(a) \in Nat /\ BlockBase(a) + BlockSize <= ChipSize
      /\ BlockBase(a) <= BlockBase(a)
  <2>1. BlockBase(a) \in Addr /\ BlockBase(a) + BlockSize <= ChipSize
    BY BlockFacts
  <2>2. BlockBase(a) \in Nat
    BY <2>1, BlockFacts
  <2> QED BY <2>1, <2>2, SMT
<1>3. CASE pc' = "erase" /\ ret' = "none" /\ UNCHANGED readVars
  <2>1. CallType'
    BY <1>1, <1>3 DEF CallType, PCs, Jobs, Transfers, readVars
  <2>2. ~Idle' /\ ~Marking' /\ ~Reading'
    BY <1>3 DEF Idle, Marking, Reading
  <2>3. Places' /\ Extent' /\ ReadExtent'
    BY <1>1, <1>3, <2>2, SMT DEF Places, Extent, ReadExtent, readVars
  <2> QED BY <2>1, <2>3 DEF CallInv
<1>4. CASE /\ pc' = "ecc" /\ ret' = "none" /\ readAddr' = BlockBase(a) /\ readLength' = BlockSize
           /\ mode' \in {"plain", "first"}
  <2>1. CallType'
    BY <1>1, <1>2, <1>4 DEF CallType, PCs, Jobs, Transfers
  <2>2. ~Idle' /\ ~Marking' /\ Reading'
    BY <1>4 DEF Idle, Marking, Reading
  <2>3. Places' /\ ReadExtent'
    BY <1>2, <1>4, <2>2 DEF Places, ReadExtent, Transfers
  <2>4. Extent'
    BY <1>1, <2>2, SMT DEF Extent
  <2> QED BY <2>1, <2>3, <2>4 DEF CallInv
<1> QED BY <1>3, <1>4 DEF StartBlock, StartRead, Goto

LEMMA MergedType ==
  ASSUME TypeInv, NEW b \in [Addr -> Content], addr \in Addr
  PROVE  Merged(b) \in [Addr -> Content]
<1>1. BlockBase(addr) \in Nat /\ calls \in Nat
  BY BlockFacts DEF TypeInv, GhostType
<1>2. \A k \in Addr : BlockBase(addr) + k \in Nat
  BY <1>1, Sizes, SMT DEF Addr
<1>3. \A k \in Addr : Data(BlockBase(addr) + k, calls) \in Content
  BY <1>1, <1>2 DEF Data, Content
<1> QED BY <1>3 DEF Merged

LEMMA EndReadInv ==
  ASSUME TypeInv, Reading, NEW b \in [Addr -> Content], NEW r \in {"ok", "error"}, EndRead(b, r),
         job' = job, addr' \in Nat, job # "read" => addr' = addr
  PROVE  CallInv' /\ buf' \in [Addr -> Content] /\ lost' \subseteq Addr
<1>1. CallType /\ Places /\ Extent /\ ReadExtent /\ lost \subseteq Addr
  BY DEF TypeInv, CallInv, DriverType
<1>2. CASE job = "read"
  <2>1. Return(r) /\ buf' = b /\ lost' = lost
    BY <1>2 DEF EndRead
  <2>2. CallInv'
    BY <1>1, <2>1, ReturnInv DEF CallType
  <2> QED BY <1>1, <2>1, <2>2
<1>3. CASE job # "read"
  <2>1. job = "write" /\ addr \in Addr /\ ~Idle
    BY <1>1, <1>3 DEF Places, Extent, Idle, Reading, Marking
  <2>2. /\ buf' = Merged(b) /\ readLength' = 0 /\ readAddr' = 0 /\ mode' = "plain" /\ marker' = "good"
        /\ pc' = "erase" /\ ret' = "none" /\ length' = length /\ index' = index
        /\ \/ lost' = lost
           \/ lost' = lost \cup {a \in BlockCells(Block(addr)) : a >= readAddr /\ ~Requested(a)}
    BY <1>3 DEF EndRead, Goto
  <2>3. buf' \in [Addr -> Content]
    BY <2>1, <2>2, MergedType
  <2>4. lost' \subseteq Addr
    BY <1>1, <2>2 DEF BlockCells
  <2>5. index = 0
    <3>1. index > 0 => FALSE
      <4> SUFFICES ASSUME index > 0 PROVE FALSE
        OBVIOUS
      <4>1. pc \in {"program", "programming"} \/ (Marking /\ readLength = 0)
        BY <1>1, <2>1 DEF Extent
      <4>2. pc \in {"ecc", "page"} \/ (Marking /\ readLength > 0)
        BY DEF Reading
      <4>3. readLength > 0 => readLength # 0
        BY <1>1, SMT DEF CallType
      <4> QED BY <4>1, <4>2, <4>3 DEF Marking
    <3> QED BY <1>1, <3>1, SMT DEF CallType
  <2>6. CallType'
    BY <1>1, <2>1, <2>2 DEF CallType, PCs, Jobs
  <2>7. ~Idle' /\ ~Marking' /\ ~Reading'
    BY <2>2 DEF Idle, Marking, Reading
  <2>8. Places' /\ ReadExtent'
    BY <2>1, <2>2, <2>7 DEF Places, ReadExtent
  <2>9. Extent'
    <3>1. length > 0 /\ addr + length <= ChipSize
      BY <1>1, <2>1 DEF Extent
    <3>2. ~(index > 0)
      BY <2>5, SMT
    <3> QED BY <1>3, <2>1, <2>2, <2>7, <3>1, <3>2 DEF Extent
  <2> QED BY <2>3, <2>4, <2>6, <2>8, <2>9 DEF CallInv
<1> QED BY <1>2, <1>3

-----------------------------------------------------------------------------
(* Every action keeps the types. *)
LEMMA PageIndex ==
  ASSUME NEW a \in Addr
  PROVE  LET i == (a % BlockSize) \div PageSize IN
         /\ i \in 0 .. NPages - 1
         /\ BlockBase(a) + i * PageSize <= a
         /\ a - (a % PageSize) = BlockBase(a) + i * PageSize
<1> DEFINE r == a % BlockSize  S == PageSize  i == r \div S  N == NPages  c == BlockBase(a)
<1>1. S \in Nat \ {0} /\ N \in Nat \ {0} /\ BlockSize = S * N /\ BlockSize \in Nat \ {0}
  BY Sizes, SMT
<1>2. a \in Nat /\ r = a - c /\ c \in Nat /\ c <= a /\ a < c + BlockSize /\ c = BlockSize * Block(a)
      /\ Block(a) \in Nat
  <2>1. c \in Nat
    BY BlockFacts
  <2>2. Block(a) \in Nat
    BY BlockFacts, SMT DEF Blocks
  <2> QED BY <2>1, <2>2, BlockFacts DEF BlockBase
<1>3. r \in Nat /\ r < S * N
  BY <1>1, <1>2, SMT
<1> HIDE DEF r, S, N, c
<1>4. i \in Nat /\ r = S * i + (r % S) /\ r % S \in 0 .. S - 1 /\ S * i \in Nat
  BY <1>1, <1>3, Division
<1> HIDE DEF i
<1>5. i < N /\ S * i = i * S
  <2>1. S * i < S * N
    BY <1>1, <1>3, <1>4, SMT
  <2> QED BY <1>1, <1>4, <2>1, Multiples
<1>6. i \in 0 .. N - 1 /\ c + i * S <= a
  BY <1>1, <1>2, <1>3, <1>4, <1>5, SMT
<1>7. a % S = r % S
  <2> DEFINE k == Block(a)  m == N * k + i
  <2>1. k \in Nat /\ c = BlockSize * k
    BY <1>2
  <2> HIDE DEF k
  <2>2. m \in Nat /\ S * m = c + S * i
    <3>1. N * k \in Nat /\ S * (N * k + i) = S * (N * k) + S * i
      BY <1>1, <1>4, <2>1, SMT
    <3>2. S * (N * k) = (S * N) * k
      BY <1>1, <2>1, SMT
    <3> QED BY <1>1, <1>4, <2>1, <3>1, <3>2, SMT
  <2> HIDE DEF m
  <2>3. S * m <= a /\ a < S * m + S
    BY <1>1, <1>2, <1>4, <2>2, SMT
  <2>4. m = a \div S
    BY <1>1, <1>2, <2>2, <2>3, Quotient
  <2>5. a = S * (a \div S) + (a % S)
    BY <1>1, <1>2, Division
  <2>6. a % S \in 0 .. S - 1
    BY <1>1, <1>2, Division
  <2>7. a = S * m + (a % S)
    BY <2>4, <2>5
  <2> DEFINE x == S * m  y == S * i  u == a % S  v == r % S
  <2>8. x \in Nat /\ y \in Nat /\ x = c + y /\ a = x + u /\ r = y + v /\ u \in Int /\ v \in Int
    <3>1. x \in Nat /\ y \in Nat
      BY <1>1, <1>4, <2>2, SMT
    <3>2. u \in Int /\ v \in Int
      BY <1>1, <1>4, <2>6, SMT
    <3> QED BY <1>4, <2>2, <2>7, <3>1, <3>2
  <2> HIDE DEF x, y, u, v
  <2>9. u = v
    BY <1>2, <2>8, SMT
  <2> QED BY <2>9 DEF u, v
<1>8. a - (a % S) = c + i * S
  BY <1>2, <1>3, <1>4, <1>5, <1>7, SMT
<1> QED BY <1>6, <1>8 DEF i, r, S, N, c

LEMMA AtRest ==
  ASSUME TypeInv, pc = "idle"
  PROVE  /\ index = 0 /\ length = 0 /\ readAddr = 0 /\ readLength = 0
         /\ mode = "plain" /\ marker = "good"
<1>1. Idle /\ ~Marking /\ ~Reading
  BY DEF Idle, Marking, Reading
<1> QED BY <1>1 DEF TypeInv, CallInv, Places, Extent, ReadExtent

\* What all calls do at their beginning.
LEMMA CallParts ==
  ASSUME TypeInv, NEW j \in Jobs, NEW a \in Nat, Call(j, a)
  PROVE  ChipType' /\ DriverType' /\ GhostType' /\ job' = j /\ addr' = a /\ pc = "idle"
<1>1. ChipType /\ DriverType /\ GhostType
  BY DEF TypeInv
<1>2. /\ calls' = calls + 1 /\ job' = j /\ addr' = a /\ first' = a /\ pc = "idle"
      /\ before' = mem /\ late' = Busy /\ lost' = {} /\ buf' = Fresh
      /\ UNCHANGED <<mem, mark, prot, op, failed, register, up, lut, missed>>
  BY DEF Call, chipVars
<1>3. ChipType'
  BY <1>1, <1>2 DEF ChipType
<1>4. Fresh \in [Addr -> Content]
  BY DEF Fresh, Stale, Content
<1>5. DriverType'
  BY <1>1, <1>2, <1>4 DEF DriverType
<1>6. calls' \in Nat
  BY <1>1, <1>2, SMT DEF GhostType
<1>7. late' \in BOOLEAN
  BY <1>2 DEF Busy
<1>8. GhostType'
  BY <1>1, <1>2, <1>6, <1>7 DEF GhostType, ChipType
<1> QED BY <1>2, <1>3, <1>5, <1>8

LEMMA ReadWriteType ==
  ASSUME TypeInv, NEW a \in Nat, NEW n \in Nat, Read(a, n) \/ Write(a, n)
  PROVE  TypeInv'
<1>1. CASE Read(a, n)
  <2>1. ChipType' /\ DriverType' /\ GhostType' /\ job' = "read" /\ addr' = a /\ pc = "idle"
        /\ first' = a
    <3>1. "read" \in Jobs /\ Call("read", a)
      BY <1>1 DEF Read, Jobs, Transfers
    <3> QED BY <3>1, CallParts DEF Call
  <2>2. CASE Return("error")
    BY <2>1, <2>2, ReturnInv DEF TypeInv, Jobs, Transfers
  <2>3. CASE a < ChipSize /\ StartRead(a, Cut(a, n)) /\ UNCHANGED <<length, index, marker>>
    <3>1. a \in Addr
      BY <2>3, Sizes, SMT DEF Addr
    <3>2. Cut(a, n) \in Nat /\ a + Cut(a, n) <= ChipSize
      BY <3>1, CutFacts
    <3>3. /\ readAddr' = a /\ readLength' = Cut(a, n) /\ mode' \in {"plain", "first"}
          /\ pc' = "ecc" /\ ret' = "none" /\ UNCHANGED <<length, index, marker>>
      BY <2>3 DEF StartRead, Goto
    <3>4. CallType'
      BY <2>1, <3>2, <3>3 DEF CallType, PCs, Jobs, Transfers, TypeInv, CallInv
    <3>5. ~Idle' /\ ~Marking' /\ Reading'
      BY <3>3 DEF Idle, Marking, Reading
    <3>6. marker' = "good" /\ first' = a /\ a <= a
      BY <2>1, <3>3, AtRest, SMT
    <3>7. Places' /\ Extent'
      BY <2>1, <3>3, <3>5, <3>6 DEF Places, Extent
    <3>8. ReadExtent'
      BY <2>1, <3>1, <3>2, <3>3, <3>5, <3>6 DEF ReadExtent
    <3> QED BY <2>1, <3>4, <3>7, <3>8 DEF TypeInv, CallInv
  <2>4. ~(a >= ChipSize) => a < ChipSize
    BY Sizes, SMT
  <2> QED BY <1>1, <2>2, <2>3, <2>4 DEF Read
<1>2. CASE Write(a, n)
  <2>1. ChipType' /\ DriverType' /\ GhostType' /\ job' = "write" /\ addr' = a /\ pc = "idle"
    <3>1. "write" \in Jobs /\ Call("write", a)
      BY <1>2 DEF Write, Jobs, Transfers
    <3> QED BY <3>1, CallParts
  <2>2. CASE Return("ok") \/ Return("error")
    BY <2>1, <2>2, ReturnInv DEF TypeInv, Jobs, Transfers
  <2>3. CASE /\ a < ChipSize /\ n > 0
             /\ length' = Cut(a, n) /\ UNCHANGED <<index, marker>> /\ StartBlock(a, Cut(a, n))
    <3>1. a \in Addr
      BY <2>3, Sizes, SMT DEF Addr
    <3>2. Cut(a, n) \in Nat /\ a + Cut(a, n) <= ChipSize /\ Cut(a, n) > 0
      BY <2>3, <3>1, CutFacts
    <3>3. index' = 0 /\ marker' = "good" /\ readAddr = 0 /\ readLength = 0 /\ mode = "plain"
      BY <2>1, <2>3, AtRest
    <3>4. CallInv'
      BY <2>1, <2>3, <3>1, <3>2, <3>3, StartBlockInv
    <3> QED BY <2>1, <3>4 DEF TypeInv
  <2>4. (~(a >= ChipSize) => a < ChipSize) /\ (n # 0 => n > 0)
    BY Sizes, SMT
  <2> QED BY <1>2, <2>2, <2>3, <2>4 DEF Write
<1> QED BY <1>1, <1>2

LEMMA ErasePageType ==
  ASSUME TypeInv, NEW a \in Nat, NEW n \in Nat, NEW force \in BOOLEAN,
         EraseBlock(a, force) \/ ProgramPage(a, n)
  PROVE  TypeInv'
<1>1. CASE EraseBlock(a, force)
  <2>1. ChipType' /\ DriverType' /\ GhostType' /\ job' = "erase" /\ addr' = a /\ pc = "idle"
        /\ a \in Addr
    <3>1. "erase" \in Jobs /\ Call("erase", a) /\ a \in Addr
      BY <1>1 DEF EraseBlock, Jobs, Transfers
    <3> QED BY <3>1, CallParts
  <2>2. CASE Return("error")
    BY <2>1, <2>2, ReturnInv DEF TypeInv, Jobs, Transfers
  <2>3. CASE Goto("erase") /\ UNCHANGED <<length, index, marker, readVars>>
    <3>1. /\ pc' = "erase" /\ ret' = "none" /\ length' = 0 /\ index' = 0 /\ readAddr' = 0
          /\ readLength' = 0 /\ mode' = "plain" /\ marker' = "good"
      BY <2>1, <2>3, AtRest DEF Goto, readVars
    <3>2. 0 \in 0 .. NPages - 1 /\ 0 \in Nat
      BY Sizes, SMT
    <3>3. CallType'
      BY <2>1, <3>1, <3>2 DEF CallType, PCs, Jobs, Transfers
    <3>4. ~Idle' /\ ~Marking' /\ ~Reading'
      BY <3>1 DEF Idle, Marking, Reading
    <3>5. Places' /\ Extent' /\ ReadExtent'
      BY <2>1, <3>1, <3>4 DEF Places, Extent, ReadExtent
    <3> QED BY <2>1, <3>3, <3>5 DEF TypeInv, CallInv
  <2> QED BY <1>1, <2>2, <2>3 DEF EraseBlock
<1>2. CASE ProgramPage(a, n)
  <2>1. ChipType' /\ DriverType' /\ GhostType' /\ job' = "page" /\ addr' = a /\ pc = "idle"
        /\ a \in Addr /\ (a % PageSize) + n <= PageSize
    <3>1. "page" \in Jobs /\ Call("page", a) /\ a \in Addr /\ (a % PageSize) + n <= PageSize
      BY <1>2 DEF ProgramPage, Jobs, Transfers
    <3> QED BY <3>1, CallParts
  <2>2. CASE Return("ok") \/ Return("error")
    BY <2>1, <2>2, ReturnInv DEF TypeInv, Jobs, Transfers
  <2>3. CASE /\ n # 0 /\ length' = n /\ index' = (a % BlockSize) \div PageSize
             /\ Goto("program") /\ UNCHANGED <<marker, readVars>>
    <3>1. /\ pc' = "program" /\ ret' = "none" /\ readAddr' = 0
          /\ readLength' = 0 /\ mode' = "plain" /\ marker' = "good"
      BY <2>1, <2>3, AtRest DEF Goto, readVars
    <3>2. index' \in 0 .. NPages - 1 /\ 0 \in Nat /\ length' > 0
      BY <2>1, <2>3, PageIndex, SMT
    <3>3. CallType'
      BY <2>1, <2>3, <3>1, <3>2 DEF CallType, PCs, Jobs, Transfers
    <3>4. ~Idle' /\ ~Marking' /\ ~Reading'
      BY <3>1 DEF Idle, Marking, Reading
    <3>5. Places' /\ Extent' /\ ReadExtent'
      BY <2>1, <2>3, <3>1, <3>2, <3>4 DEF Places, Extent, ReadExtent
    <3> QED BY <2>1, <3>3, <3>5 DEF TypeInv, CallInv
  <2> QED BY <1>2, <2>2, <2>3 DEF ProgramPage
<1> QED BY <1>1, <1>2

LEMMA ProtectType ==
  ASSUME TypeInv, NEW p \in BOOLEAN, NEW ok \in BOOLEAN, NEW sent \in BOOLEAN, Protect(p, ok, sent)
  PROVE  TypeInv'
<1>1. ChipType /\ DriverType /\ GhostType /\ CallInv /\ CallType
  BY DEF TypeInv, CallInv
<1>2. /\ pc = "idle" /\ calls' = calls + 1 /\ job' = "lock" /\ prot' \in {p, prot}
      /\ UNCHANGED <<mem, mark, op, failed, register, up, lut, addr, buf, first, before, late,
                     missed, lost>>
  BY DEF Protect
<1>3. ChipType' /\ DriverType'
  BY <1>1, <1>2 DEF ChipType, DriverType
<1>4. calls' \in Nat
  BY <1>1, <1>2, SMT DEF GhostType
<1>5. GhostType'
  BY <1>1, <1>2, <1>4 DEF GhostType
<1>6. CASE Return("error")
  <2>1. CallInv'
    BY <1>1, <1>2, <1>6, ReturnInv DEF Jobs, CallType
  <2> QED BY <1>3, <1>5, <2>1 DEF TypeInv
<1>7. CASE Goto("locking") /\ UNCHANGED <<length, index, marker, readVars>>
  <2>1. pc' = "locking" /\ ret' = "none" /\ UNCHANGED <<length, index, marker, readAddr, readLength, mode>>
    BY <1>7 DEF Goto, readVars
  <2>2. CallType'
    BY <1>1, <1>2, <2>1 DEF CallType, PCs, Jobs
  <2>3. Idle' /\ ~Marking' /\ ~Reading'
    BY <2>1 DEF Idle, Marking, Reading
  <2>4. Places' /\ Extent' /\ ReadExtent'
    BY <1>2, <2>1, <2>3, AtRest DEF Places, Extent, ReadExtent
  <2> QED BY <1>3, <1>5, <2>2, <2>4 DEF TypeInv, CallInv
<1> QED BY <1>6, <1>7 DEF Protect

LEMMA InitDriverType ==
  ASSUME TypeInv, NEW ok \in BOOLEAN, NEW unread \in Unreadable, InitDriver(ok, unread)
  PROVE  TypeInv'
<1>1. ChipType /\ DriverType /\ GhostType /\ CallInv
  BY DEF TypeInv
<1>2. /\ pc = "idle" /\ up' = ok /\ lut' = [b \in Blocks |-> ok /\ b \in mark \cup unread]
      /\ job' = "init" /\ ret' \in {"ok", "error"} /\ missed' = (missed /\ ~ok)
      /\ UNCHANGED <<chipVars, register, pc, callVars, readVars, buf, marker, ghostVars, lost>>
  BY DEF InitDriver
<1>3. ChipType'
  BY <1>1, <1>2 DEF ChipType, chipVars
<1>4. lut' \in [Blocks -> BOOLEAN]
  BY <1>2
<1>5. DriverType' /\ GhostType'
  BY <1>1, <1>2, <1>4 DEF DriverType, GhostType, ghostVars
<1>6. CallType'
  BY <1>1, <1>2 DEF CallInv, CallType, Jobs, callVars, readVars
<1>7. Idle' /\ ~Marking' /\ ~Reading'
  BY <1>2 DEF Idle, Marking, Reading
<1>8. Places' /\ Extent' /\ ReadExtent'
  BY <1>2, <1>7, AtRest DEF Places, Extent, ReadExtent, callVars, readVars
<1> QED BY <1>3, <1>5, <1>6, <1>8 DEF TypeInv, CallInv

\* What a step that leaves them alone keeps.
LEMMA ChipKept == ASSUME ChipType, UNCHANGED chipVars PROVE ChipType'
BY DEF ChipType, chipVars

LEMMA GhostKept ==
  ASSUME GhostType, UNCHANGED ghostVars, NEW p \in BOOLEAN, missed' = (missed \/ p)
  PROVE  GhostType'
<1>1. missed' \in BOOLEAN
  BY DEF GhostType
<1> QED BY <1>1 DEF GhostType, ghostVars

LEMMA EnableEccType ==
  ASSUME TypeInv, NEW outcome, EnableEcc(outcome)
  PROVE  TypeInv'
<1>1. ChipType /\ DriverType /\ GhostType /\ CallType /\ Places /\ Extent /\ ReadExtent
  BY DEF TypeInv, CallInv
<1>2. /\ pc = "ecc" /\ missed' = (missed \/ outcome = "misread")
      /\ UNCHANGED <<chipVars, register, up, lut, job, addr, ghostVars>>
  BY DEF EnableEcc
<1>3. Reading /\ ~Marking /\ ~Idle /\ addr' = addr /\ job' = job
  BY <1>2 DEF Reading, Marking, Idle
<1>4. ChipType'
  BY <1>1, <1>2, ChipKept
<1>5. GhostType'
  BY <1>1, <1>2, GhostKept
<1>6. CASE EndRead(buf, IF outcome = "error" THEN "error" ELSE "ok")
  <2>1. CallInv' /\ buf' \in [Addr -> Content] /\ lost' \subseteq Addr
    <3> DEFINE r == IF outcome = "error" THEN "error" ELSE "ok"
    <3>1. r \in {"ok", "error"} /\ EndRead(buf, r) /\ addr' \in Nat /\ buf \in [Addr -> Content]
      BY <1>1, <1>3, <1>6 DEF CallType, DriverType
    <3> HIDE DEF r
    <3> QED BY <1>3, <3>1, EndReadInv
  <2>2. DriverType'
    BY <1>1, <1>2, <2>1 DEF DriverType
  <2> QED BY <1>4, <1>5, <2>1, <2>2 DEF TypeInv
<1>7. CASE /\ readLength # 0 /\ Goto("page")
           /\ UNCHANGED <<length, index, readVars, marker, buf, lost>>
  <2>1. /\ pc' = "page" /\ ret' = "none"
        /\ UNCHANGED <<length, index, readAddr, readLength, mode, marker, buf, lost, first>>
    BY <1>2, <1>7 DEF Goto, readVars, ghostVars
  <2>2. DriverType'
    BY <1>1, <1>2, <2>1 DEF DriverType
  <2>3. CallType'
    BY <1>1, <1>3, <2>1 DEF CallType, PCs
  <2>4. ~Idle' /\ ~Marking' /\ Reading' /\ readLength' > 0
    <3>1. readLength > 0
      BY <1>1, <1>7, SMT DEF CallType
    <3> QED BY <2>1, <3>1 DEF Idle, Marking, Reading
  <2>5. Places'
    BY <1>1, <1>2, <1>3, <2>1, <2>4 DEF Places
  <2>6. Extent'
    BY <1>1, <1>2, <1>3, <2>1, <2>4 DEF Extent
  <2>7. ReadExtent'
    BY <1>1, <1>3, <2>1, <2>4 DEF ReadExtent, BlockBase, Block
  <2> QED BY <1>4, <1>5, <2>2, <2>3, <2>5, <2>6, <2>7 DEF TypeInv, CallInv
<1> QED BY <1>6, <1>7 DEF EnableEcc

-----------------------------------------------------------------------------
(* One page of a read. *)
LEMMA FetchFacts ==
  ASSUME TypeInv, pc = "page"
  PROVE  /\ readAddr \in Addr /\ readLength \in Nat \ {0} /\ readAddr + readLength <= ChipSize
         /\ ReadLen \in Nat \ {0} /\ ReadLen <= readLength
         /\ (readAddr % PageSize) + ReadLen <= PageSize
         /\ readAddr % PageSize \in 0 .. PageSize - 1
         /\ BufAt \in Nat
<1>1. CallType /\ Places /\ Extent /\ ReadExtent /\ Reading /\ ~Idle /\ first \in Nat
  BY DEF TypeInv, CallInv, Reading, Idle, GhostType
<1>2. readAddr \in Addr /\ readLength \in Nat \ {0} /\ readAddr + readLength <= ChipSize
  BY <1>1, SMT DEF ReadExtent, CallType
<1>3. readAddr % PageSize \in 0 .. PageSize - 1
  BY <1>2, PageOf
<1>4. /\ ReadLen \in Nat \ {0} /\ ReadLen <= readLength
      /\ (readAddr % PageSize) + ReadLen <= PageSize
  <2> DEFINE r == readAddr % PageSize
  <2>1. r \in 0 .. PageSize - 1 /\ PageSize \in Nat
    BY <1>3, Sizes
  <2>2. ReadLen = IF readLength < PageSize - r THEN readLength ELSE PageSize - r
    BY DEF ReadLen
  <2> HIDE DEF r
  <2>3. ReadLen \in Nat \ {0} /\ ReadLen <= readLength /\ r + ReadLen <= PageSize
    BY <1>2, <2>1, <2>2, SMT
  <2> QED BY <2>3 DEF r
<1>5. BufAt \in Nat
  <2>1. CASE job = "read"
    BY <1>1, <1>2, <2>1, Sizes, SMT DEF BufAt, ReadExtent, Addr
  <2>2. CASE job # "read"
    <3>1. job = "write" /\ BlockBase(addr) <= readAddr /\ addr \in Addr
      BY <1>1, <2>2 DEF Places, ReadExtent, Extent
    <3>2. BlockBase(addr) \in Nat /\ readAddr \in Nat
      BY <1>2, <3>1, BlockFacts
    <3>3. BufAt = readAddr - BlockBase(addr)
      BY <2>2 DEF BufAt
    <3> QED BY <3>1, <3>2, <3>3, SMT
  <2> QED BY <2>1, <2>2
<1> QED BY <1>2, <1>3, <1>4, <1>5

LEMMA LoadedPage ==
  ASSUME TypeInv, pc = "page"
  PROVE  /\ Loaded \in Pages \cup {NoPage} /\ NextLoaded \in Pages \cup {NoPage}
         /\ \A i \in 0 .. PageSize - 1 : Fetched(i) \in Content
<1>1. Loaded \in Pages \cup {NoPage}
  BY FetchFacts, PageOf DEF Loaded, TypeInv, DriverType
<1>2. NextLoaded \in Pages \cup {NoPage}
  BY <1>1, NextPage DEF NextLoaded
<1>3. ASSUME NEW i \in 0 .. PageSize - 1 PROVE Fetched(i) \in Content
  <2>1. CASE Busy \/ Loaded = NoPage
    BY <2>1 DEF Fetched, Stale, Content
  <2>2. CASE ~(Busy \/ Loaded = NoPage)
    <3>1. Loaded \in Pages
      BY <1>1, <2>2
    <3>2. Loaded * PageSize \in Nat /\ Loaded * PageSize + PageSize <= ChipSize
      BY <3>1, PageFacts
    <3> DEFINE c == Loaded * PageSize
    <3>3. c \in Nat /\ c + PageSize <= ChipSize
      BY <3>2
    <3> HIDE DEF c
    <3>4. c + i \in Addr
      BY <3>3, Sizes, SMT DEF Addr
    <3>5. mem \in [Addr -> Content]
      BY DEF TypeInv, ChipType
    <3>6. mem[c + i] \in Content
      BY <3>4, <3>5
    <3>7. Fetched(i) = mem[c + i]
      BY <2>2 DEF Fetched, c
    <3> QED BY <3>6, <3>7
  <2> QED BY <2>1, <2>2
<1> QED BY <1>1, <1>2, <1>3

LEMMA FetchType ==
  ASSUME TypeInv, pc = "page", NEW waited \in BOOLEAN, FetchPage(waited),
         job' = job, first' = first
  PROVE  /\ CallInv' /\ buf' \in [Addr -> Content] /\ lost' \subseteq Addr
         /\ register' \in Pages \cup {NoPage} /\ lut' = lut
<1> DEFINE b == [k \in Addr |-> IF BufAt <= k /\ k < BufAt + ReadLen
                                  THEN IF waited THEN Fetched((readAddr % PageSize) + k - BufAt)
                                                 ELSE Stale
                                  ELSE buf[k]]
           cached == mode # "plain" /\ ~LastCached
<1>1. CallType /\ Places /\ Extent /\ ReadExtent /\ DriverType
  BY DEF TypeInv, CallInv
<1>2. Reading /\ ~Marking /\ ~Idle
  BY DEF Reading, Marking, Idle
<1>3. b \in [Addr -> Content]
  <2>1. ASSUME NEW k \in Addr, BufAt <= k, k < BufAt + ReadLen
        PROVE  (readAddr % PageSize) + k - BufAt \in 0 .. PageSize - 1
    <3> DEFINE r == readAddr % PageSize
    <3>1. r \in 0 .. PageSize - 1 /\ ReadLen \in Nat /\ r + ReadLen <= PageSize /\ BufAt \in Nat
          /\ PageSize \in Nat
      BY FetchFacts, Sizes
    <3>2. k \in Nat
      BY BlockFacts
    <3> HIDE DEF r
    <3>3. r + k - BufAt \in 0 .. PageSize - 1
      BY <2>1, <3>1, <3>2, SMT
    <3> QED BY <3>3 DEF r
  <2>2. ASSUME NEW k \in Addr, BufAt <= k, k < BufAt + ReadLen
        PROVE  Fetched((readAddr % PageSize) + k - BufAt) \in Content
    BY <2>1, <2>2, LoadedPage
  <2>3. Stale \in Content /\ buf \in [Addr -> Content]
    BY <1>1 DEF Stale, Content, DriverType
  <2> QED BY <2>2, <2>3
<1>4. /\ register' = IF cached THEN NextLoaded ELSE NoPage
      /\ lut' = lut
      /\ IF readLength = ReadLen
           THEN EndRead(b, "ok") /\ addr' = IF job = "read" THEN readAddr + ReadLen ELSE addr
           ELSE /\ readAddr' = readAddr + ReadLen /\ readLength' = readLength - ReadLen
                /\ mode' = IF mode = "plain" THEN "plain" ELSE IF cached THEN "next" ELSE "first"
                /\ buf' = b /\ Goto("page") /\ UNCHANGED <<addr, length, index, marker, lost>>
  BY DEF FetchPage
<1>5. register' \in Pages \cup {NoPage}
  BY <1>4, LoadedPage
<1> HIDE DEF b, cached
<1>6. CASE readLength = ReadLen
  <2>1. EndRead(b, "ok") /\ addr' = IF job = "read" THEN readAddr + ReadLen ELSE addr
    BY <1>4, <1>6
  <2>2. addr' \in Nat
    <3>1. readAddr + ReadLen \in Nat
      BY FetchFacts, Sizes, SMT DEF Addr
    <3> QED BY <1>1, <2>1, <3>1 DEF CallType
  <2> QED BY <1>2, <1>3, <1>4, <1>5, <2>1, <2>2, EndReadInv
<1>7. CASE readLength # ReadLen
  <2>1. /\ readAddr' = readAddr + ReadLen /\ readLength' = readLength - ReadLen
        /\ mode' \in {"plain", "next", "first"} /\ buf' = b /\ pc' = "page" /\ ret' = "none"
        /\ UNCHANGED <<addr, length, index, marker, lost>>
    BY <1>4, <1>7 DEF Goto
  <2>2. /\ readAddr \in Nat /\ readLength \in Nat /\ readAddr' \in Addr /\ readAddr' \in Nat
        /\ readAddr <= readAddr' /\ readLength' \in Nat /\ readLength' > 0
        /\ readAddr' + readLength' = readAddr + readLength
        /\ \A x \in Nat : x <= readAddr => x <= readAddr'
    BY <1>7, <2>1, FetchFacts, Sizes, SMT DEF Addr
  <2>3. CallType'
    BY <1>1, <2>1, <2>2 DEF CallType, PCs
  <2>4. ~Idle' /\ ~Marking' /\ Reading'
    BY <2>1 DEF Idle, Marking, Reading
  <2>5. Places'
    BY <1>1, <1>2, <2>1, <2>4 DEF Places
  <2>6. Extent'
    BY <1>1, <1>2, <2>1, <2>4 DEF Extent
  <2>7. ReadExtent'
    <3>1. readAddr + readLength <= ChipSize /\ (job = "read" => first <= readAddr)
          /\ (job = "write" => /\ BlockBase(addr) <= readAddr
                               /\ readAddr + readLength = BlockBase(addr) + BlockSize)
      BY <1>1, <1>2 DEF ReadExtent
    <3>2. first \in Nat
      BY DEF TypeInv, GhostType
    <3>3. job = "write" => BlockBase(addr) \in Nat
      BY <1>1, <1>2, BlockFacts DEF Extent
    <3>4. BlockBase(addr)' = BlockBase(addr)
      BY <2>1 DEF BlockBase, Block
    <3> QED BY <2>1, <2>2, <2>4, <3>1, <3>2, <3>3, <3>4 DEF ReadExtent
  <2> QED BY <1>1, <1>3, <1>4, <1>5, <2>1, <2>3, <2>5, <2>6, <2>7 DEF CallInv, DriverType
<1> QED BY <1>6, <1>7

\* A block is condemned, on the way or at its end.
LEMMA CondemnType ==
  ASSUME TypeInv, ~Idle, pc # "locking", Condemn(Current), job \in Transfers,
         pc \in {"page", "erasing", "programming"},
         UNCHANGED <<job, first, callVars, readVars>>
  PROVE  CallInv' /\ lut' \in [Blocks -> BOOLEAN]
<1>1. CallType /\ Places /\ Extent /\ ReadExtent /\ lut \in [Blocks -> BOOLEAN]
  BY DEF TypeInv, CallInv, DriverType
<1>2. /\ lut' = [lut EXCEPT ![Current] = TRUE] /\ marker' = "bad" /\ pc' = "mark" /\ ret' = "none"
      /\ UNCHANGED <<job, first, addr, length, index, readAddr, readLength, mode>>
  BY DEF Condemn, Goto, callVars, readVars
<1>3. lut' \in [Blocks -> BOOLEAN]
  BY <1>1, <1>2, CurrentBlock
<1>4. CallType'
  BY <1>1, <1>2 DEF CallType, PCs
<1>5. ~Idle' /\ Marking' /\ (Reading' <=> readLength > 0) /\ ~Marking
  BY <1>2 DEF Idle, Marking, Reading
<1>6. readLength > 0 <=> pc = "page"
  <2>1. pc # "page" => ~Reading
    BY <1>5 DEF Reading, Marking
  <2>2. 0 > 0 <=> FALSE
    BY SMT
  <2> QED BY <1>1, <2>1, <2>2 DEF ReadExtent
<1>7. Reading <=> Reading'
  BY <1>5, <1>6 DEF Reading, Marking
<1>8. Places'
  <2>1. pc = "page" => Reading
    BY DEF Reading
  <2> QED BY <1>1, <1>2, <1>5, <1>6, <1>7, <2>1 DEF Places
<1>9. Extent'
  <2>1. pc # "page" => readLength = 0
    BY <1>1, <1>5 DEF ReadExtent, Reading
  <2>2. job = "write" /\ index > 0 => pc \in {"program", "programming"}
    BY <1>1, <1>5 DEF Extent, Marking
  <2> QED BY <1>1, <1>2, <1>5, <2>1, <2>2 DEF Extent
<1>10. ReadExtent'
  <2>1. BlockBase(addr)' = BlockBase(addr)
    BY <1>2 DEF BlockBase, Block
  <2> QED BY <1>1, <1>2, <1>5, <1>6, <1>7, <2>1 DEF ReadExtent
<1> QED BY <1>3, <1>4, <1>8, <1>9, <1>10 DEF CallInv

LEMMA ReadPageType ==
  ASSUME TypeInv, NEW outcome, ReadPage(outcome)
  PROVE  TypeInv'
<1>1. ChipType /\ DriverType /\ GhostType /\ CallType /\ Places /\ Extent /\ ReadExtent
  BY DEF TypeInv, CallInv
<1>2. /\ pc = "page" /\ missed' = (missed \/ outcome = "misread")
      /\ UNCHANGED <<chipVars, up, job, ghostVars>>
  BY DEF ReadPage
<1>3. Reading /\ ~Marking /\ ~Idle /\ job' = job /\ first' = first
  BY <1>2 DEF Reading, Marking, Idle, ghostVars
<1>4. ChipType'
  BY <1>1, <1>2, ChipKept
<1>5. GhostType'
  BY <1>1, <1>2, GhostKept
<1>6. \/ EndRead(buf, "error") /\ UNCHANGED <<lut, register, addr>>
      \/ Condemn(Current) /\ UNCHANGED <<register, callVars, readVars, buf, lost>>
      \/ FetchPage(outcome = "ok")
  BY DEF ReadPage
<1>7. CASE EndRead(buf, "error") /\ UNCHANGED <<lut, register, addr>>
  <2>1. buf \in [Addr -> Content] /\ addr' \in Nat
    BY <1>1, <1>7 DEF DriverType, CallType
  <2>2. CallInv' /\ buf' \in [Addr -> Content] /\ lost' \subseteq Addr
    BY <1>3, <1>7, <2>1, EndReadInv
  <2>3. DriverType'
    BY <1>1, <1>2, <1>7, <2>2 DEF DriverType
  <2> QED BY <1>4, <1>5, <2>2, <2>3 DEF TypeInv
<1>8. CASE Condemn(Current) /\ UNCHANGED <<register, callVars, readVars, buf, lost>>
  <2>1. job \in Transfers /\ pc # "locking"
    BY <1>1, <1>2, <1>3 DEF Places, Transfers
  <2>2. CallInv' /\ lut' \in [Blocks -> BOOLEAN]
    BY <1>2, <1>3, <1>8, <2>1, CondemnType
  <2>3. DriverType'
    BY <1>1, <1>2, <1>8, <2>2 DEF DriverType
  <2> QED BY <1>4, <1>5, <2>2, <2>3 DEF TypeInv
<1>9. CASE FetchPage(outcome = "ok")
  <2> DEFINE waited == outcome = "ok"
  <2>1. waited \in BOOLEAN /\ FetchPage(waited)
    BY <1>9
  <2> HIDE DEF waited
  <2>2. /\ CallInv' /\ buf' \in [Addr -> Content] /\ lost' \subseteq Addr
        /\ register' \in Pages \cup {NoPage} /\ lut' = lut
    BY <1>2, <1>3, <2>1, FetchType
  <2>3. DriverType'
    BY <1>1, <1>2, <2>2 DEF DriverType
  <2> QED BY <1>4, <1>5, <2>2, <2>3 DEF TypeInv
<1> QED BY <1>6, <1>7, <1>8, <1>9

-----------------------------------------------------------------------------
(* The commands, and what follows them. *)
LEMMA SendType ==
  ASSUME ChipType, GhostType, NEW command \in Commands, NEW outcome, Send(command, outcome),
         UNCHANGED ghostVars
  PROVE  ChipType' /\ GhostType'
<1>1. /\ op' \in {command, op} /\ prot' \in {prot, FALSE} /\ missed' = (missed \/ outcome = "lost")
      /\ UNCHANGED <<mem, mark, failed>>
  BY DEF Send
<1>2. ChipType'
  BY <1>1 DEF ChipType
<1> QED BY <1>1, <1>2, GhostKept

\* A command for a whole block.
LEMMA BlockCommand ==
  ASSUME NEW k \in {"erase", "mark", "unmark"}, NEW a \in Addr
  PROVE  /\ [NoOp EXCEPT !.kind = k, !.at = a] \in Commands
         /\ [NoOp EXCEPT !.kind = k, !.at = a].kind = k
         /\ [NoOp EXCEPT !.kind = k, !.at = a].at = a
<1>1. Erased \in Content
  BY DEF Erased, Content
<1> QED BY <1>1 DEF NoOp, Commands

\* What is programmed comes from the request, or from swap_buf inside the block.
LEMMA SourceType ==
  ASSUME TypeInv, addr \in Addr, NEW i \in 0 .. NPages - 1
  PROVE  [kind |-> "program", at |-> BlockBase(addr) + i * PageSize,
          from |-> [j \in 0 .. PageSize - 1 |-> Source(i * PageSize + j)]] \in Commands
<1> DEFINE c == BlockBase(addr)  d == i * PageSize
<1>1. /\ c \in Nat /\ c + BlockSize <= ChipSize /\ d \in Nat /\ d + PageSize <= BlockSize
      /\ PageSize \in Nat \ {0} /\ BlockSize \in Nat /\ ChipSize \in Nat
  <2>1. c \in Nat /\ c + BlockSize <= ChipSize
    BY BlockFacts
  <2> QED BY <2>1, PageInBlock, Sizes
<1>2. calls \in Nat /\ buf \in [Addr -> Content]
  BY DEF TypeInv, GhostType, DriverType
<1> HIDE DEF c, d
<1>3. c + d \in Addr
  BY <1>1, SMT DEF Addr
<1>4. ASSUME NEW j \in 0 .. PageSize - 1 PROVE Source(d + j) \in Content
  <2>1. d + j \in Addr /\ c + (d + j) \in Nat
    BY <1>1, SMT DEF Addr
  <2>2. Data(c + (d + j), calls) \in Content /\ buf[d + j] \in Content /\ Erased \in Content
    BY <1>2, <2>1 DEF Data, Content, Erased
  <2> QED BY <2>2 DEF Source, c
<1>5. [kind |-> "program", at |-> c + d, from |-> [j \in 0 .. PageSize - 1 |-> Source(d + j)]]
      \in Commands
  BY <1>3, <1>4 DEF Commands
<1> QED BY <1>5 DEF c, d

LEMMA EraseType ==
  ASSUME TypeInv, NEW outcome, Erase(outcome)
  PROVE  TypeInv'
<1>1. ChipType /\ DriverType /\ GhostType /\ CallType /\ Places /\ Extent /\ ReadExtent
  BY DEF TypeInv, CallInv
<1>2. /\ pc = "erase" /\ Send([NoOp EXCEPT !.kind = "erase", !.at = BlockBase(addr)], outcome)
      /\ UNCHANGED <<register, up, lut, job, addr, buf, ghostVars, lost>>
  BY DEF Erase
<1>3. job \in {"write", "erase"} /\ addr \in Addr /\ ~Idle /\ ~Marking /\ ~Reading /\ BlockBase(addr) \in Addr
  <2>1. job \in {"write", "erase"} /\ ~Idle /\ ~Marking /\ ~Reading
    BY <1>1, <1>2 DEF Places, Idle, Marking, Reading
  <2>2. addr \in Addr
    BY <1>1, <2>1 DEF Extent
  <2> QED BY <2>1, <2>2, BlockFacts
<1>4. ChipType' /\ GhostType'
  <2>1. [NoOp EXCEPT !.kind = "erase", !.at = BlockBase(addr)] \in Commands
    BY <1>3, BlockCommand
  <2> QED BY <1>1, <1>2, <2>1, SendType
<1>5. DriverType'
  BY <1>1, <1>2 DEF DriverType
<1>6. CASE Return("error")
  <2>1. job' \in Jobs /\ addr' \in Nat
    BY <1>1, <1>2 DEF CallType
  <2>2. CallInv'
    BY <1>6, <2>1, ReturnInv
  <2> QED BY <1>4, <1>5, <2>2 DEF TypeInv
<1>7. CASE Goto("erasing") /\ UNCHANGED <<length, index, readVars, marker>>
  <2>1. /\ pc' = "erasing" /\ ret' = "none"
        /\ UNCHANGED <<length, index, readAddr, readLength, mode, marker, job, addr>>
    BY <1>2, <1>7 DEF Goto, readVars
  <2>2. CallType'
    BY <1>1, <2>1 DEF CallType, PCs
  <2>3. ~Idle' /\ ~Marking' /\ ~Reading'
    BY <2>1 DEF Idle, Marking, Reading
  <2>4. Places' /\ ReadExtent'
    BY <1>1, <1>3, <2>1, <2>3 DEF Places, ReadExtent
  <2>5. Extent'
    BY <1>1, <1>2, <1>3, <2>1, <2>3 DEF Extent
  <2> QED BY <1>4, <1>5, <2>2, <2>4, <2>5 DEF TypeInv, CallInv
<1> QED BY <1>6, <1>7 DEF Erase

LEMMA ProgramType ==
  ASSUME TypeInv, NEW outcome, Program(outcome)
  PROVE  TypeInv'
<1>1. ChipType /\ DriverType /\ GhostType /\ CallType /\ Places /\ Extent /\ ReadExtent
  BY DEF TypeInv, CallInv
<1>2. pc = "program" /\ UNCHANGED <<register, up, lut, job, addr, buf, ghostVars, lost>>
  BY DEF Program
<1>3. job \in {"write", "page"} /\ addr \in Addr /\ ~Idle /\ ~Marking /\ ~Reading
  <2>1. job \in {"write", "page"} /\ ~Idle /\ ~Marking /\ ~Reading
    BY <1>1, <1>2 DEF Places, Idle, Marking, Reading
  <2> QED BY <1>1, <2>1 DEF Extent
<1>4. DriverType' /\ job' \in Jobs /\ addr' \in Nat
  BY <1>1, <1>2 DEF DriverType, CallType
<1>5. CASE lut[Current]
  <2>1. Return("error") /\ UNCHANGED <<chipVars, missed>>
    BY <1>5 DEF Program
  <2>2. ChipType' /\ GhostType'
    BY <1>1, <1>2, <2>1 DEF ChipType, GhostType, chipVars, ghostVars
  <2>3. CallInv'
    BY <1>4, <2>1, ReturnInv
  <2> QED BY <1>4, <2>2, <2>3 DEF TypeInv
<1>6. CASE ~lut[Current]
  <2> DEFINE command == [kind |-> "program", at |-> BlockBase(addr) + index * PageSize,
                         from |-> [i \in 0 .. PageSize - 1 |-> Source(index * PageSize + i)]]
  <2>1. /\ Send(command, outcome)
        /\ \/ Goto("programming") /\ UNCHANGED <<length, index, readVars, marker>>
           \/ Return("error")
    BY <1>6 DEF Program
  <2>2. command \in Commands
    BY <1>1, <1>3, SourceType DEF CallType
  <2> HIDE DEF command
  <2>3. ChipType' /\ GhostType'
    BY <1>1, <1>2, <2>1, <2>2, SendType
  <2>4. CASE Return("error")
    BY <1>4, <2>3, <2>4, ReturnInv DEF TypeInv
  <2>5. CASE Goto("programming") /\ UNCHANGED <<length, index, readVars, marker>>
    <3>1. /\ pc' = "programming" /\ ret' = "none"
          /\ UNCHANGED <<length, index, readAddr, readLength, mode, marker, job, addr>>
      BY <1>2, <2>5 DEF Goto, readVars
    <3>2. CallType'
      BY <1>1, <3>1 DEF CallType, PCs
    <3>3. ~Idle' /\ ~Marking' /\ ~Reading'
      BY <3>1 DEF Idle, Marking, Reading
    <3>4. Places' /\ ReadExtent'
      BY <1>1, <1>3, <3>1, <3>3 DEF Places, ReadExtent
    <3>5. Extent'
      BY <1>1, <1>3, <3>1, <3>3 DEF Extent
    <3> QED BY <1>4, <2>3, <3>2, <3>4, <3>5 DEF TypeInv, CallInv
  <2> QED BY <2>1, <2>4, <2>5
<1> QED BY <1>5, <1>6

LEMMA AfterMarkType ==
  ASSUME TypeInv, Marking, AfterMark, UNCHANGED <<job, addr>>
  PROVE  CallInv' /\ buf' \in [Addr -> Content] /\ lost' \subseteq Addr
<1>1. CallType /\ Places /\ Extent /\ ReadExtent /\ DriverType
  BY DEF TypeInv, CallInv
<1>2. ~Idle /\ job \in Transfers /\ job' \in Jobs /\ addr' \in Nat /\ marker \in {"good", "bad"}
      /\ buf \in [Addr -> Content] /\ lost \subseteq Addr
  BY <1>1 DEF Marking, Idle, Places, CallType, Jobs, DriverType
<1>3. readLength = 0 \/ readLength > 0
  BY <1>1, SMT DEF CallType
<1>4. CASE marker = "bad" /\ readLength > 0
  <2>1. EndRead(buf, "error") /\ Reading
    <3>1. readLength # 0
      BY <1>4, SMT
    <3> QED BY <1>4, <3>1 DEF AfterMark, Reading
  <2> QED BY <1>2, <2>1, EndReadInv
<1>5. CASE marker = "bad" /\ readLength = 0
  <2>1. ~(0 > 0)
    BY SMT
  <2>2. Return("error") /\ UNCHANGED <<buf, lost>>
    BY <1>5, <2>1 DEF AfterMark
  <2> QED BY <1>2, <2>2, ReturnInv
<1>6. CASE marker = "good" /\ job = "erase"
  <2>1. Return("ok") /\ UNCHANGED <<buf, lost>>
    BY <1>6 DEF AfterMark
  <2> QED BY <1>2, <2>1, ReturnInv
<1>7. CASE marker = "good" /\ job # "erase"
  <2>1. /\ pc' = "program" /\ ret' = "none"
        /\ UNCHANGED <<length, index, readAddr, readLength, mode, marker, buf, lost, job, addr>>
    BY <1>7 DEF AfterMark, Goto, readVars
  <2>2. job = "write" /\ ~Reading
    BY <1>1, <1>7 DEF Places
  <2>3. CallType'
    BY <1>1, <2>1 DEF CallType, PCs
  <2>4. ~Idle' /\ ~Marking' /\ ~Reading'
    BY <2>1 DEF Idle, Marking, Reading
  <2>5. Places' /\ ReadExtent'
    BY <1>1, <1>7, <2>1, <2>2, <2>4 DEF Places, ReadExtent
  <2>6. Extent'
    BY <1>1, <1>2, <2>1, <2>2, <2>4 DEF Extent
  <2> QED BY <1>2, <2>1, <2>3, <2>5, <2>6 DEF CallInv
<1> QED BY <1>2, <1>3, <1>4, <1>5, <1>6, <1>7

LEMMA MarkType ==
  ASSUME TypeInv, NEW outcome, Mark(outcome)
  PROVE  TypeInv'
<1>1. ChipType /\ DriverType /\ GhostType /\ CallType /\ Places /\ Extent /\ ReadExtent
  BY DEF TypeInv, CallInv
<1>2. pc = "mark" /\ UNCHANGED <<register, up, lut, job, addr, ghostVars>>
  BY DEF Mark
<1>3. Marking /\ ~Idle /\ first' = first
  BY <1>2 DEF Marking, Idle, ghostVars
<1>4. ChipType' /\ GhostType'
  <2>1. CASE lut[Current]
    BY <1>1, <1>2, <2>1 DEF Mark, ChipType, GhostType, chipVars, ghostVars
  <2>2. CASE ~lut[Current]
    <3> DEFINE k == IF marker = "bad" THEN "mark" ELSE "unmark"  a == BlockSize * Current
               command == [NoOp EXCEPT !.kind = k, !.at = a]
    <3>1. Send(command, outcome)
      BY <2>2 DEF Mark
    <3>2. k \in {"erase", "mark", "unmark"} /\ a \in Addr
      BY <1>3, CurrentBlock
    <3> HIDE DEF k, a
    <3>3. command \in Commands
      BY <3>2, BlockCommand
    <3> HIDE DEF command
    <3> QED BY <1>1, <1>2, <3>1, <3>3, SendType
  <2> QED BY <2>1, <2>2
<1>5. AfterMark \/ (Goto("marking") /\ UNCHANGED <<length, index, readVars, marker, buf, lost>>)
  BY DEF Mark
<1>6. CASE AfterMark
  <2>1. CallInv' /\ buf' \in [Addr -> Content] /\ lost' \subseteq Addr
    BY <1>2, <1>3, <1>6, AfterMarkType
  <2>2. DriverType'
    BY <1>1, <1>2, <2>1 DEF DriverType
  <2> QED BY <1>4, <2>1, <2>2 DEF TypeInv
<1>7. CASE Goto("marking") /\ UNCHANGED <<length, index, readVars, marker, buf, lost>>
  <2>1. /\ pc' = "marking" /\ ret' = "none"
        /\ UNCHANGED <<length, index, readAddr, readLength, mode, marker, buf, lost, job, addr>>
    BY <1>2, <1>7 DEF Goto, readVars
  <2>2. CallType' /\ DriverType'
    BY <1>1, <1>2, <2>1 DEF CallType, PCs, DriverType
  <2>3. ~Idle' /\ Marking' /\ (Reading' <=> Reading)
    BY <1>2, <2>1 DEF Idle, Marking, Reading
  <2>4. Places'
    BY <1>1, <1>3, <2>1, <2>3 DEF Places
  <2>5. Extent'
    BY <1>1, <1>2, <1>3, <2>1, <2>3 DEF Extent
  <2>6. ReadExtent'
    <3>1. BlockBase(addr)' = BlockBase(addr)
      BY <2>1 DEF BlockBase, Block
    <3> QED BY <1>1, <1>3, <2>1, <2>3, <3>1 DEF ReadExtent
  <2> QED BY <1>4, <2>2, <2>4, <2>5, <2>6 DEF TypeInv, CallInv
<1> QED BY <1>5, <1>6, <1>7

\* After a program: the next page, the next block or the end of the call.
LEMMA AdvanceFacts ==
  ASSUME TypeInv, pc = "programming", Advance
  PROVE  LET rest == BlockBase(addr) + BlockSize - addr IN
         /\ job \in {"write", "page"} /\ addr \in Addr /\ BlockBase(addr) \in Nat /\ length \in Nat
         /\ rest \in Nat \ {0} /\ addr + rest = BlockBase(addr) + BlockSize
         /\ UNCHANGED <<buf, lost>>
         /\ \/ job = "page" /\ Return("ok") /\ addr' = addr
            \/ /\ job = "write" /\ index + 1 < NPages /\ index' = index + 1 /\ Goto("program")
               /\ UNCHANGED <<addr, length, readVars, marker>>
            \/ /\ job = "write" /\ index + 1 = NPages
               /\ length <= rest /\ addr' = addr + length /\ Return("ok")
            \/ /\ job = "write" /\ index + 1 = NPages
               /\ addr' = addr + rest /\ addr' \in Addr
               /\ length' = length - rest /\ length' \in Nat /\ length' > 0
               /\ addr' + length' <= ChipSize
               /\ index' = 0 /\ UNCHANGED marker /\ StartBlock(addr', length')
<1>1. CallType /\ Places /\ Extent
  BY DEF TypeInv, CallInv
<1>2. ~Idle /\ job \in {"write", "page"} /\ addr \in Addr /\ length \in Nat /\ UNCHANGED <<buf, lost>>
  BY <1>1 DEF Idle, Places, Extent, CallType, Advance
<1> DEFINE rest == BlockBase(addr) + BlockSize - addr
           n == IF length < rest THEN length ELSE rest
<1>3. /\ BlockBase(addr) \in Nat /\ addr \in Nat /\ rest \in Nat \ {0}
      /\ addr + rest = BlockBase(addr) + BlockSize /\ n \in Nat
  <2> DEFINE c == BlockBase(addr)
  <2>1. c \in Nat /\ addr \in Nat /\ addr < c + BlockSize /\ BlockSize \in Nat
    BY <1>2, BlockFacts, Sizes
  <2> HIDE DEF c
  <2>2. c + BlockSize - addr \in Nat \ {0} /\ addr + (c + BlockSize - addr) = c + BlockSize
    BY <2>1, SMT
  <2> QED BY <1>2, <2>1, <2>2 DEF c
<1>4. CASE job = "page"
  <2>1. Return("ok") /\ addr' = addr
    BY <1>4 DEF Advance
  <2> QED BY <1>2, <1>3, <1>4, <2>1
<1>5. ~(index + 1 < NPages /\ index + 1 = NPages) /\ (index + 1 < NPages \/ index + 1 = NPages)
  BY <1>1, Sizes, SMT DEF CallType
<1>6. CASE job = "write" /\ index + 1 < NPages
  <2>1. index' = index + 1 /\ Goto("program") /\ UNCHANGED <<addr, length, readVars, marker>>
    BY <1>5, <1>6 DEF Advance
  <2> QED BY <1>2, <1>3, <1>6, <2>1
<1>7. CASE job = "write" /\ index + 1 = NPages
  <2>1. /\ addr' = addr + n
        /\ IF length = n
             THEN Return("ok")
             ELSE /\ length' = length - n /\ index' = 0 /\ UNCHANGED marker
                  /\ StartBlock(addr + n, length - n)
    BY <1>5, <1>7 DEF Advance
  <2> HIDE DEF n
  <2>2. CASE length = n
    <3>1. length <= rest
      <4> HIDE DEF rest
      <4> QED BY <1>2, <1>3, <2>2, SMT DEF n
    <3> QED BY <1>2, <1>3, <1>7, <2>1, <2>2, <3>1
  <2>3. CASE length # n
    <3>1. n = rest /\ length > rest
      <4> HIDE DEF rest
      <4> QED BY <1>2, <1>3, <2>3, SMT DEF n
    <3>2. addr + length <= ChipSize
      BY <1>1, <1>2, <1>7 DEF Extent
    <3>3. /\ length - rest \in Nat /\ length - rest > 0
          /\ (addr + rest) + (length - rest) <= ChipSize /\ addr + rest \in Addr
      <4> HIDE DEF rest
      <4> QED BY <1>2, <1>3, <3>1, <3>2, Sizes, SMT DEF Addr
    <3>4. /\ addr' = addr + rest /\ length' = length - rest /\ index' = 0 /\ UNCHANGED marker
          /\ StartBlock(addr', length')
      BY <2>1, <2>3, <3>1
    <3> QED BY <1>2, <1>3, <1>7, <3>3, <3>4
  <2> QED BY <2>2, <2>3
<1> QED BY <1>2, <1>4, <1>5, <1>6, <1>7

LEMMA AdvanceType ==
  ASSUME TypeInv, pc = "programming", Advance, job' = job
  PROVE  CallInv' /\ UNCHANGED <<buf, lost>>
<1>1. CallType /\ Places /\ Extent /\ ReadExtent
  BY DEF TypeInv, CallInv
<1>2. /\ ~Idle /\ ~Marking /\ ~Reading /\ job' \in Jobs
      /\ readLength = 0 /\ readAddr = 0 /\ mode = "plain" /\ marker = "good"
  BY <1>1 DEF Idle, Marking, Reading, Places, ReadExtent, CallType
<1>3. job \in {"write", "page"} /\ addr \in Nat /\ length \in Nat /\ UNCHANGED <<buf, lost>>
  BY <1>1, AdvanceFacts DEF CallType
<1>4. CASE Return("ok") /\ (addr' = addr \/ addr' = addr + length)
  <2>1. addr' \in Nat
    BY <1>3, <1>4, SMT
  <2> QED BY <1>2, <1>3, <1>4, <2>1, ReturnInv
<1>5. CASE /\ job = "write" /\ index + 1 < NPages /\ index' = index + 1 /\ Goto("program")
           /\ UNCHANGED <<addr, length, readVars, marker>>
  <2>1. /\ pc' = "program" /\ ret' = "none" /\ index' = index + 1
        /\ UNCHANGED <<addr, length, readAddr, readLength, mode, marker, job>>
    BY <1>5 DEF Goto, readVars
  <2>2. index' \in 0 .. NPages - 1
    BY <1>1, <1>5, Sizes, SMT DEF CallType
  <2>3. CallType'
    BY <1>1, <2>1, <2>2 DEF CallType, PCs
  <2>4. ~Idle' /\ ~Marking' /\ ~Reading'
    BY <2>1 DEF Idle, Marking, Reading
  <2>5. Places' /\ Extent' /\ ReadExtent'
    BY <1>1, <1>2, <1>5, <2>1, <2>4 DEF Places, Extent, ReadExtent
  <2> QED BY <1>3, <2>3, <2>5 DEF CallInv
<1>6. CASE /\ job = "write" /\ addr' \in Addr /\ length' \in Nat /\ length' > 0
           /\ addr' + length' <= ChipSize /\ index' = 0 /\ UNCHANGED marker
           /\ StartBlock(addr', length')
  <2>1. PICK a \in Addr, n \in Nat : a = addr' /\ n = length'
    BY <1>6
  <2>2. /\ n > 0 /\ a + n <= ChipSize /\ StartBlock(a, n)
        /\ job' = "write" /\ addr' = a /\ length' = n /\ index' = 0 /\ marker' = "good"
    BY <1>2, <1>6, <2>1
  <2>3. CallInv'
    BY <1>2, <2>2, StartBlockInv
  <2> QED BY <1>3, <2>3
<1> QED BY <1>4, <1>5, <1>6, AdvanceFacts

LEMMA WaitType ==
  ASSUME TypeInv, NEW outcome, Wait(outcome)
  PROVE  TypeInv'
<1> DEFINE bad == outcome = "ready" /\ failed  gone == outcome \in {"timeout", "nostatus"}
<1>1. ChipType /\ DriverType /\ GhostType /\ CallType /\ Places /\ Extent /\ ReadExtent
  BY DEF TypeInv, CallInv
<1>2. /\ pc \in {"erasing", "marking", "programming", "locking"}
      /\ missed' = (missed \/ outcome = "misread")
      /\ UNCHANGED <<chipVars, register, up, job, ghostVars>>
      /\ AfterWait(bad, gone)
  BY DEF Wait, Polled, AfterWait
<1>3. bad \in BOOLEAN /\ gone \in BOOLEAN /\ ~(bad /\ gone)
  BY <1>1 DEF ChipType
<1>4. ChipType'
  BY <1>1, <1>2, ChipKept
<1>5. GhostType'
  BY <1>1, <1>2, GhostKept
<1>6. job' = job /\ first' = first /\ job' \in Jobs /\ register' = register /\ up' = up
  BY <1>1, <1>2 DEF CallType, ghostVars
<1> HIDE DEF bad, gone
<1>7. SUFFICES CallInv' /\ buf' \in [Addr -> Content] /\ lost' \subseteq Addr
               /\ lut' \in [Blocks -> BOOLEAN]
  BY <1>1, <1>4, <1>5, <1>6 DEF TypeInv, DriverType
<1>8. buf \in [Addr -> Content] /\ lost \subseteq Addr /\ lut \in [Blocks -> BOOLEAN] /\ addr \in Nat
  BY <1>1 DEF DriverType, CallType
<1>9. CASE pc = "locking"
  <2>1. (Return("error") \/ Return("ok")) /\ UNCHANGED <<lut, addr, buf, lost>>
    BY <1>2, <1>9 DEF AfterWait
  <2> QED BY <1>6, <1>8, <2>1, ReturnInv
<1>10. CASE pc = "marking"
  <2>1. lut' = [lut EXCEPT ![Current] = @ \/ bad] /\ AfterMark /\ addr' = addr
    BY <1>2, <1>10 DEF AfterWait
  <2>2. lut' \in [Blocks -> BOOLEAN]
    BY <1>3, <1>8, <2>1
  <2>3. CallInv' /\ buf' \in [Addr -> Content] /\ lost' \subseteq Addr
    BY <1>6, <1>10, <2>1, AfterMarkType DEF Marking
  <2> QED BY <2>2, <2>3
<1>11. CASE pc \in {"erasing", "programming"} /\ gone
  <2>1. Return("error") /\ UNCHANGED <<lut, addr, buf, lost>>
    BY <1>2, <1>3, <1>11 DEF AfterWait
  <2> QED BY <1>6, <1>8, <2>1, ReturnInv
<1>12. CASE pc \in {"erasing", "programming"} /\ ~gone /\ bad
  <2>1. Condemn(Current) /\ UNCHANGED <<callVars, readVars, buf, lost>>
    BY <1>2, <1>12 DEF AfterWait
  <2>2. ~Idle /\ pc # "locking" /\ job \in Transfers
    BY <1>1, <1>12 DEF Idle, Places, Transfers
  <2>3. CallInv' /\ lut' \in [Blocks -> BOOLEAN]
    BY <1>6, <1>12, <2>1, <2>2, CondemnType
  <2> QED BY <1>8, <2>1, <2>3
<1>13. CASE pc = "erasing" /\ ~gone /\ ~bad
  <2>1. /\ lut' = [lut EXCEPT ![Current] = FALSE] /\ marker' = "good" /\ pc' = "mark" /\ ret' = "none"
        /\ UNCHANGED <<addr, length, index, readAddr, readLength, mode, buf, lost>>
    BY <1>2, <1>13 DEF AfterWait, Goto, callVars, readVars
  <2>2. ~Idle /\ ~Marking /\ ~Reading /\ job \in {"write", "erase"}
    BY <1>1, <1>13 DEF Idle, Marking, Reading, Places
  <2>3. lut' \in [Blocks -> BOOLEAN]
    BY <1>8, <2>1
  <2>4. CallType'
    BY <1>1, <1>6, <2>1 DEF CallType, PCs
  <2>5. readLength' = 0 /\ ~(readLength' > 0)
    <3>1. readLength' = 0
      BY <1>1, <2>1, <2>2 DEF ReadExtent
    <3> QED BY <3>1, SMT
  <2>6. ~Idle' /\ Marking' /\ ~Reading'
    BY <2>1, <2>5 DEF Idle, Marking, Reading
  <2>7. Places'
    BY <1>6, <2>1, <2>2, <2>6 DEF Places, Transfers
  <2>8. Extent'
    BY <1>1, <1>6, <1>13, <2>1, <2>2, <2>6 DEF Extent, Marking
  <2>9. ReadExtent'
    BY <1>1, <2>1, <2>2, <2>6 DEF ReadExtent
  <2> QED BY <1>8, <2>1, <2>3, <2>4, <2>7, <2>8, <2>9 DEF CallInv
<1>14. CASE pc = "programming" /\ ~gone /\ ~bad
  <2>1. Advance /\ lut' = lut
    BY <1>2, <1>14 DEF AfterWait
  <2>2. CallInv' /\ UNCHANGED <<buf, lost>>
    BY <1>6, <1>14, <2>1, AdvanceType
  <2> QED BY <1>8, <2>1, <2>2
<1> QED BY <1>2, <1>9, <1>10, <1>11, <1>12, <1>13, <1>14

-----------------------------------------------------------------------------
(* The chip. *)
LEMMA WrittenType ==
  ASSUME ChipType
  PROVE  /\ \A a \in Touched(op) : a \in Addr /\ Written(op, a) \in Content
         /\ Marked(op) \subseteq Blocks
<1>1. mem \in [Addr -> Content] /\ mark \subseteq Blocks /\ op \in Commands
  BY DEF ChipType
<1>2. op.at \in Addr /\ op.from \in [0 .. PageSize - 1 -> Content]
  BY <1>1 DEF Commands
<1>3. Erased \in Content /\ Junk \in Content
  BY DEF Erased, Junk, Content
<1>4. ASSUME NEW a \in Touched(op) PROVE a \in Addr /\ Written(op, a) \in Content
  <2>1. CASE op.kind = "erase"
    BY <1>3, <1>4, <2>1 DEF Touched, BlockCells, Written
  <2>2. CASE op.kind = "program"
    <3>1. a \in Addr /\ op.at <= a /\ a < op.at + PageSize
      BY <1>4, <2>2 DEF Touched
    <3> DEFINE c == op.at
    <3>2. c \in Nat /\ a \in Nat
      BY <1>2, <3>1, BlockFacts
    <3>3. c <= a /\ a < c + PageSize
      BY <3>1
    <3> HIDE DEF c
    <3>4. a - c \in 0 .. PageSize - 1
      BY <3>2, <3>3, Sizes, SMT
    <3>5. op.from[a - c] \in Content /\ mem[a] \in Content
      BY <1>1, <1>2, <3>1, <3>4
    <3>6. Written(op, a) \in {Erased, mem[a], op.from[a - c], Junk}
      BY DEF Written, c
    <3> QED BY <1>3, <3>1, <3>5, <3>6
  <2>3. CASE op.kind \notin {"erase", "program"}
    BY <1>4, <2>3 DEF Touched
  <2> QED BY <2>1, <2>2, <2>3
<1>5. Marked(op) \in {mark \ {Block(op.at)}, mark \cup {Block(op.at)}, mark}
  BY DEF Marked
<1>6. Block(op.at) \in Blocks
  BY <1>2, BlockFacts
<1> QED BY <1>1, <1>4, <1>5, <1>6

LEMMA TornType ==
  ASSUME ChipType, Torn(op)
  PROVE  mem' \in [Addr -> Content] /\ mark' \subseteq Blocks
<1>1. PICK how \in {"done", "untouched", "torn"} :
        mem' = [a \in Addr |->
                  IF a \notin Touched(op) \/ how = "untouched" THEN mem[a]
                  ELSE IF how = "done" THEN Written(op, a) ELSE Junk]
  BY Zenon DEF Torn
<1>2. mem \in [Addr -> Content] /\ mark \subseteq Blocks /\ Junk \in Content
  BY DEF ChipType, Junk, Content
<1>3. \A a \in Touched(op) : Written(op, a) \in Content
  BY WrittenType
<1>4. mem' \in [Addr -> Content]
  BY <1>1, <1>2, <1>3
<1>5. mark' \in {mark, Marked(op)}
  BY DEF Torn
<1> QED BY <1>2, <1>4, <1>5, WrittenType

LEMMA NoOpType == NoOp \in Commands /\ NoOp.kind = "none"
<1>1. 0 \in Addr /\ Erased \in Content
  BY Sizes, SMT DEF Addr, Erased, Content
<1> QED BY <1>1 DEF NoOp, Commands

LEMMA FinishType ==
  ASSUME TypeInv, NEW fails \in BOOLEAN, Finish(fails)
  PROVE  TypeInv'
<1>1. ChipType /\ DriverType /\ GhostType /\ CallInv
  BY DEF TypeInv
<1>2. /\ op' = NoOp /\ failed' = fails /\ Overtake
      /\ UNCHANGED <<prot, register, up, lut, pc, job, callVars, readVars, buf, marker, ret,
                     calls, first, missed, lost>>
  BY DEF Finish
<1>3. mem' \in [Addr -> Content] /\ mark' \subseteq Blocks
  <2>1. mem \in [Addr -> Content] /\ mark \subseteq Blocks
    BY <1>1 DEF ChipType
  <2>2. \/ UNCHANGED <<mem, mark>>
        \/ Torn(op)
        \/ /\ mem' = [a \in Addr |-> IF a \in Touched(op) THEN Written(op, a) ELSE mem[a]]
           /\ mark' = Marked(op)
    BY DEF Finish
  <2>3. \A a \in Touched(op) : Written(op, a) \in Content
    BY <1>1, WrittenType
  <2> QED BY <1>1, <2>1, <2>2, <2>3, WrittenType, TornType
<1>4. ChipType'
  BY <1>1, <1>2, <1>3, NoOpType DEF ChipType
<1>5. DriverType'
  BY <1>1, <1>2 DEF DriverType
<1>6. GhostType'
  BY <1>1, <1>2, <1>3 DEF GhostType, Overtake
<1>7. CallType' /\ Places' /\ Extent' /\ ReadExtent'
  <2>1. UNCHANGED <<pc, job, addr, length, index, readAddr, readLength, mode, marker, ret, first>>
    BY <1>2 DEF callVars, readVars
  <2>2. Idle' = Idle /\ Marking' = Marking /\ Reading' = Reading
    BY <2>1 DEF Idle, Marking, Reading
  <2>3. BlockBase(addr)' = BlockBase(addr)
    BY <2>1 DEF BlockBase, Block
  <2>4. CallType' /\ Places' /\ Extent'
    BY <1>1, <2>1, <2>2 DEF CallInv, CallType, Places, Extent
  <2> QED BY <1>1, <2>1, <2>2, <2>3, <2>4 DEF CallInv, ReadExtent
<1> QED BY <1>4, <1>5, <1>6, <1>7 DEF TypeInv, CallInv

LEMMA PowerLossType == ASSUME TypeInv, PowerLoss PROVE TypeInv'
<1>1. ChipType /\ DriverType /\ GhostType /\ CallType
  BY DEF TypeInv, CallInv
<1>2. /\ Torn(op) /\ op' = NoOp /\ failed' = FALSE /\ prot' = TRUE /\ register' = NoPage
      /\ up' = FALSE /\ lut' = [b \in Blocks |-> FALSE] /\ Return("reset") /\ buf' = Fresh
      /\ Overtake /\ UNCHANGED <<job, addr, calls, first, missed, lost>>
  BY DEF PowerLoss
<1>3. mem' \in [Addr -> Content] /\ mark' \subseteq Blocks
  BY <1>1, <1>2, TornType
<1>4. ChipType'
  BY <1>2, <1>3, NoOpType DEF ChipType
<1>5. DriverType'
  BY <1>1, <1>2 DEF DriverType, Fresh, Stale, Content
<1>6. GhostType'
  BY <1>1, <1>2, <1>3 DEF GhostType, Overtake
<1>7. CallInv'
  BY <1>1, <1>2, ReturnInv DEF CallType
<1> QED BY <1>4, <1>5, <1>6, <1>7 DEF TypeInv

LEMMA StutterType == ASSUME TypeInv, UNCHANGED vars PROVE TypeInv'
<1> USE DEF vars, chipVars, readVars, callVars, ghostVars
<1>1. ChipType' /\ DriverType' /\ GhostType' /\ CallType'
  BY DEF TypeInv, ChipType, DriverType, GhostType, CallInv, CallType
<1>2. Idle' = Idle /\ Marking' = Marking /\ Reading' = Reading
  BY DEF Idle, Marking, Reading
<1>3. BlockBase(addr)' = BlockBase(addr)
  BY DEF BlockBase, Block
<1>4. Places' /\ Extent' /\ ReadExtent'
  BY <1>2, <1>3 DEF TypeInv, CallInv, Places, Extent, ReadExtent
<1> QED BY <1>1, <1>4 DEF TypeInv, CallInv

\* One step of the driver or the chip, whichever it is.
LEMMA Steps ==
  ASSUME Next
  PROVE  \/ \E a, n \in Nat : Read(a, n) \/ Write(a, n) \/ ProgramPage(a, n)
         \/ \E a \in Nat, force \in BOOLEAN : EraseBlock(a, force)
         \/ \E p, ok, sent \in BOOLEAN : Protect(p, ok, sent)
         \/ \E ok \in BOOLEAN, unread \in Unreadable : InitDriver(ok, unread)
         \/ \E outcome : \/ EnableEcc(outcome) \/ ReadPage(outcome) \/ Wait(outcome)
                         \/ Erase(outcome) \/ Program(outcome) \/ Mark(outcome)
         \/ \E fails \in BOOLEAN : Finish(fails)
         \/ PowerLoss
<1>1. CASE Request
  <2>1. \A r \in Requests : r[1] \in Nat /\ r[2] \in Nat
    BY NandAssumption
  <2> QED BY <1>1, <2>1, Zenon DEF Request
<1>2. CASE Driver({"ok", "error", "nostatus", "ready", "timeout", "misread", "lost"})
  BY <1>2, Zenon DEF Driver
<1> QED BY <1>1, <1>2, Zenon DEF Next

LEMMA Inductive == ASSUME TypeInv, [Next]_vars PROVE TypeInv'
<1>1. CASE UNCHANGED vars
  BY <1>1, StutterType
<1>2. CASE Next
  <2>1. ASSUME NEW a \in Nat, NEW n \in Nat, Read(a, n) \/ Write(a, n) \/ ProgramPage(a, n)
        PROVE  TypeInv'
    BY <2>1, ReadWriteType, ErasePageType
  <2>2. ASSUME NEW a \in Nat, NEW force \in BOOLEAN, EraseBlock(a, force) PROVE TypeInv'
    <3>1. 0 \in Nat
      OBVIOUS
    <3> QED BY <2>2, <3>1, ErasePageType
  <2>3. ASSUME NEW p \in BOOLEAN, NEW ok \in BOOLEAN, NEW sent \in BOOLEAN, Protect(p, ok, sent)
        PROVE  TypeInv'
    BY <2>3, ProtectType
  <2>4. ASSUME NEW ok \in BOOLEAN, NEW unread \in Unreadable, InitDriver(ok, unread) PROVE TypeInv'
    BY <2>4, InitDriverType
  <2>5. ASSUME NEW outcome,
               \/ EnableEcc(outcome) \/ ReadPage(outcome) \/ Wait(outcome)
               \/ Erase(outcome) \/ Program(outcome) \/ Mark(outcome)
        PROVE  TypeInv'
    BY <2>5, EnableEccType, ReadPageType, WaitType, EraseType, ProgramType, MarkType
  <2>6. ASSUME NEW fails \in BOOLEAN, Finish(fails) PROVE TypeInv'
    BY <2>6, FinishType
  <2> QED BY <1>2, <2>1, <2>2, <2>3, <2>4, <2>5, <2>6, PowerLossType, Steps, Zenon
<1> QED BY <1>1, <1>2

(* Whatever is asked of the driver and whatever fails, what it reads and programs lies inside
   the chip, and inside the block it is at; every variable keeps its type. *)
THEOREM TypeCorrect == Spec => []TypeOK
<1>1. TypeInv => TypeOK
  BY Types DEF TypeInv, CallInv
<1> QED BY <1>1, Initial, Inductive, PTL DEF Spec

-----------------------------------------------------------------------------
(* A command is sent to a chip whose protection it has itself taken away, and nobody protects a
   busy chip again: whatever fails on the way, a command that runs runs on an unprotected chip. *)
THEOREM CommandsUnprotectedHolds == Spec => []CommandsUnprotected
<1>1. Init => CommandsUnprotected
  BY DEF Init, CommandsUnprotected, Busy, NoOp
<1>2. ASSUME CommandsUnprotected, [Next]_vars PROVE CommandsUnprotected'
  <2>1. CASE UNCHANGED <<op, prot>>
    BY <1>2, <2>1 DEF CommandsUnprotected, Busy
  <2>2. CASE op' = NoOp
    BY <2>2, NoOpType DEF CommandsUnprotected, Busy
  <2>3. ASSUME NEW command, NEW outcome, Send(command, outcome) PROVE CommandsUnprotected'
    BY <1>2, <2>3 DEF Send, CommandsUnprotected, Busy
  <2>4. ASSUME NEW p, NEW ok, NEW sent, Protect(p, ok, sent) PROVE CommandsUnprotected'
    BY <1>2, <2>4 DEF Protect, CommandsUnprotected, Busy
  <2>5. ASSUME NEW outcome, Erase(outcome) \/ Program(outcome) \/ Mark(outcome)
        PROVE  CommandsUnprotected'
    <3>1. UNCHANGED <<op, prot>> \/ \E command : Send(command, outcome)
      BY <2>5, Zenon DEF Erase, Program, Mark, chipVars
    <3> QED BY <2>1, <2>3, <3>1
  <2>6. ASSUME NEW a, NEW n, NEW force,
               Read(a, n) \/ Write(a, n) \/ ProgramPage(a, n) \/ EraseBlock(a, force)
        PROVE  UNCHANGED <<op, prot>>
    BY <2>6 DEF Read, Write, ProgramPage, EraseBlock, Call, chipVars
  <2>7. ASSUME NEW outcome, EnableEcc(outcome) \/ ReadPage(outcome) \/ Wait(outcome)
        PROVE  UNCHANGED <<op, prot>>
    BY <2>7 DEF EnableEcc, ReadPage, Wait, AfterWait, chipVars
  <2>8. ASSUME NEW ok, NEW unread, InitDriver(ok, unread) PROVE UNCHANGED <<op, prot>>
    BY <2>8 DEF InitDriver, chipVars
  <2>9. ASSUME NEW fails, Finish(fails) PROVE op' = NoOp
    BY <2>9 DEF Finish
  <2>10. PowerLoss => op' = NoOp
    BY DEF PowerLoss
  <2>11. UNCHANGED vars => UNCHANGED <<op, prot>>
    BY DEF vars, chipVars
  <2>12. CASE Next
    BY <2>12, <2>1, <2>2, <2>4, <2>5, <2>6, <2>7, <2>8, <2>9, <2>10, Steps, Zenon
  <2> QED BY <1>2, <2>1, <2>11, <2>12
<1> QED BY <1>1, <1>2, PTL DEF Spec

-----------------------------------------------------------------------------
(* The table and the markers. *)

\* A block is marked bad when the table already has it, so the marker is refused: no command
\* that puts a marker on the chip is ever sent.
MarkRefused ==
  /\ Marking /\ marker = "bad" => lut[Current]
  /\ op.kind # "mark"
\* A block leaves the table after an erase, which has taken its marker away or failed.
EraseInv ==
  pc = "erasing" /\ ~missed =>
    IF Busy THEN op.kind = "erase" /\ op.at = BlockBase(addr) ELSE failed \/ Block(addr) \notin mark
TableInv == MarkRefused /\ EraseInv /\ TableKnowsMarkers

\* At the places where nothing is erased and nothing marked.
Elsewhere == pc \notin {"erasing", "mark", "marking"}

LEMMA TableElsewhere ==
  ASSUME TableInv, Elsewhere', UNCHANGED <<op, mark>>, up' => up, missed => missed', lut' = lut
  PROVE  TableInv'
<1>1. MarkRefused'
  BY DEF TableInv, MarkRefused, Elsewhere, Marking
<1>2. EraseInv'
  BY DEF Elsewhere, EraseInv
<1>3. TableKnowsMarkers'
  BY DEF TableInv, TableKnowsMarkers
<1> QED BY <1>1, <1>2, <1>3 DEF TableInv

\* Where the calls, the reads and the end of a call go.
LEMMA CallGoes ==
  ASSUME NEW a, NEW n, NEW force,
         Read(a, n) \/ Write(a, n) \/ ProgramPage(a, n) \/ EraseBlock(a, force)
  PROVE  Elsewhere' /\ UNCHANGED <<op, mark, up, missed, lut>>
<1>1. UNCHANGED <<op, mark, up, missed, lut>>
  BY DEF Read, Write, ProgramPage, EraseBlock, Call, chipVars
<1>2. pc' \in {"idle", "ecc", "erase", "program"}
  BY DEF Read, Write, ProgramPage, EraseBlock, StartBlock, StartRead, Return, Goto
<1> QED BY <1>1, <1>2 DEF Elsewhere

LEMMA EndReadGoes ==
  ASSUME NEW b, NEW r, EndRead(b, r)
  PROVE  pc' \in {"idle", "erase"}
BY DEF EndRead, Return, Goto

LEMMA AfterMarkGoes ==
  ASSUME TypeInv, Marking, AfterMark
  PROVE  Elsewhere' /\ pc' \in {"idle", "erase", "program"}
<1>1. /\ CallType /\ ~(readLength > 0 /\ readLength = 0) /\ (readLength > 0 \/ readLength = 0)
  BY SMT DEF TypeInv, CallInv, CallType
<1>2. marker = "good" \/ marker = "bad"
  BY <1>1 DEF CallType
<1>3. pc' \in {"idle", "erase", "program"}
  <2>1. CASE marker = "good"
    BY <2>1 DEF AfterMark, Return, Goto
  <2>2. CASE marker = "bad" /\ readLength = 0
    BY <1>1, <2>2 DEF AfterMark, Return
  <2>3. CASE marker = "bad" /\ readLength > 0
    <3>1. EndRead(buf, "error")
      BY <1>1, <2>3 DEF AfterMark
    <3> QED BY <3>1, EndReadGoes
  <2> QED BY <1>1, <1>2, <2>1, <2>2, <2>3
<1> QED BY <1>3 DEF Elsewhere

LEMMA CondemnTable ==
  ASSUME TypeInv, ~Idle, TableInv, Condemn(Current), missed => missed',
         UNCHANGED <<op, mark, up, job, addr, readAddr>>
  PROVE  TableInv'
<1>1. lut \in [Blocks -> BOOLEAN] /\ Current \in Blocks
  BY CurrentBlock DEF TypeInv, DriverType
<1>2. lut' = [lut EXCEPT ![Current] = TRUE] /\ pc' = "mark"
  BY DEF Condemn, Goto
<1>3. lut'[Current] /\ \A b \in Blocks : lut[b] => lut'[b]
  BY <1>1, <1>2
<1>4. Current' = Current
  BY DEF Current, Block
<1>5. MarkRefused'
  BY <1>3, <1>4 DEF MarkRefused, TableInv
<1>6. EraseInv'
  BY <1>2 DEF EraseInv
<1>7. TableKnowsMarkers'
  BY <1>3 DEF TableKnowsMarkers, TableInv, TypeInv, ChipType
<1> QED BY <1>5, <1>6, <1>7 DEF TableInv

LEMMA ReadTable ==
  ASSUME TypeInv, TableInv, NEW outcome, EnableEcc(outcome) \/ ReadPage(outcome)
  PROVE  TableInv'
<1>1. /\ UNCHANGED <<op, mark, up, job>> /\ missed' = (missed \/ outcome = "misread")
      /\ pc \in {"ecc", "page"}
  BY DEF EnableEcc, ReadPage, chipVars
<1>2. CASE EnableEcc(outcome)
  <2>1. pc' \in {"idle", "erase", "page"} /\ lut' = lut
    BY <1>2, EndReadGoes DEF EnableEcc, Goto
  <2>2. Elsewhere'
    BY <2>1 DEF Elsewhere
  <2> QED BY <1>1, <2>1, <2>2, TableElsewhere
<1>3. CASE ReadPage(outcome)
  <2>1. \/ EndRead(buf, "error") /\ lut' = lut
        \/ Condemn(Current) /\ UNCHANGED <<addr, readAddr>>
        \/ FetchPage(outcome = "ok")
    BY <1>3 DEF ReadPage, callVars, readVars
  <2>2. CASE Condemn(Current) /\ UNCHANGED <<addr, readAddr>>
    <3>1. ~Idle
      BY <1>1 DEF Idle
    <3> QED BY <1>1, <2>2, <3>1, CondemnTable
  <2>3. CASE (EndRead(buf, "error") /\ lut' = lut) \/ FetchPage(outcome = "ok")
    <3>1. pc' \in {"idle", "erase", "page"} /\ lut' = lut
      BY <2>3, EndReadGoes DEF FetchPage, Goto
    <3>2. Elsewhere'
      BY <3>1 DEF Elsewhere
    <3> QED BY <1>1, <3>1, <3>2, TableElsewhere
  <2> QED BY <2>1, <2>2, <2>3
<1> QED BY <1>2, <1>3

LEMMA SendTable ==
  ASSUME TypeInv, TableInv, NEW outcome, Erase(outcome) \/ Program(outcome) \/ Mark(outcome)
  PROVE  TableInv'
<1>1. CallType /\ Places /\ Extent /\ UNCHANGED <<up, lut, job, addr>>
  BY DEF TypeInv, CallInv, Erase, Program, Mark
<1>2. CASE Erase(outcome)
  <2> DEFINE command == [NoOp EXCEPT !.kind = "erase", !.at = BlockBase(addr)]
  <2>1. /\ pc = "erase" /\ op' \in {command, op} /\ mark' = mark /\ missed' = (missed \/ outcome = "lost")
        /\ outcome = "sent" => op' = command
        /\ \/ pc' = "erasing" /\ outcome \in {"sent", "lost"}
           \/ pc' = "idle"
    BY <1>2 DEF Erase, Send, Taken, Goto, Return
  <2>2. addr \in Addr
    BY <1>1, <2>1 DEF Places, Extent, Idle
  <2>3. command.kind = "erase" /\ command.at = BlockBase(addr)
    BY <2>2, BlockFacts, BlockCommand
  <2> HIDE DEF command
  <2>4. MarkRefused'
    BY <2>1, <2>3 DEF MarkRefused, TableInv, Marking
  <2>5. EraseInv'
    <3>1. pc' = "erasing" /\ ~missed' => outcome = "sent"
      BY <2>1
    <3>2. BlockBase(addr)' = BlockBase(addr)
      BY <1>1 DEF BlockBase, Block
    <3> QED BY <2>1, <2>3, <3>1, <3>2 DEF EraseInv, Busy
  <2>6. TableKnowsMarkers'
    BY <1>1, <2>1 DEF TableKnowsMarkers, TableInv
  <2> QED BY <2>4, <2>5, <2>6 DEF TableInv
<1>3. CASE Program(outcome)
  <2>1. pc' \in {"idle", "programming"} /\ mark' = mark /\ (missed => missed')
    BY <1>3 DEF Program, Send, Goto, Return, chipVars
  <2>2. op'.kind # "mark"
    <3>1. \A c, from : [kind |-> "program", at |-> c, from |-> from].kind # "mark"
      OBVIOUS
    <3>2. op' = op \/ \E c, from : op' = [kind |-> "program", at |-> c, from |-> from]
      BY <1>3 DEF Program, Send, chipVars
    <3>3. op.kind # "mark"
      BY DEF TableInv, MarkRefused
    <3> QED BY <3>1, <3>2, <3>3
  <2>3. MarkRefused' /\ EraseInv'
    BY <2>1, <2>2 DEF MarkRefused, EraseInv, Marking
  <2>4. TableKnowsMarkers'
    BY <1>1, <2>1 DEF TableKnowsMarkers, TableInv
  <2> QED BY <2>3, <2>4 DEF TableInv
<1>4. CASE Mark(outcome)
  <2>1. pc = "mark" /\ Marking /\ ~Idle
    BY <1>4 DEF Mark, Marking, Idle
  <2>2. CASE lut[Current]
    <3>1. AfterMark /\ UNCHANGED <<op, mark, missed>>
      BY <1>4, <2>2 DEF Mark, chipVars
    <3>2. Elsewhere'
      BY <2>1, <3>1, AfterMarkGoes
    <3> QED BY <1>1, <3>1, <3>2, TableElsewhere
  <2>3. CASE ~lut[Current]
    <3> DEFINE k == IF marker = "bad" THEN "mark" ELSE "unmark"  a == BlockSize * Current
               command == [NoOp EXCEPT !.kind = k, !.at = a]
    <3>1. /\ op' \in {command, op} /\ mark' = mark /\ (missed => missed')
          /\ \/ Goto("marking") /\ UNCHANGED <<readVars, marker>>
             \/ AfterMark
      BY <1>4, <2>3 DEF Mark, Send
    <3>2. marker = "good"
      BY <1>1, <2>1, <2>3 DEF TableInv, MarkRefused, CallType
    <3>3. k = "unmark" /\ a \in Addr
      BY <2>1, <3>2, CurrentBlock
    <3> HIDE DEF k, a
    <3>4. command.kind = "unmark"
      BY <3>3, BlockCommand
    <3> HIDE DEF command
    <3>5. op'.kind # "mark"
      BY <3>1, <3>4 DEF TableInv, MarkRefused
    <3>6. TableKnowsMarkers'
      BY <1>1, <3>1 DEF TableKnowsMarkers, TableInv
    <3>7. CASE Goto("marking") /\ UNCHANGED <<readVars, marker>>
      <4>1. pc' = "marking" /\ marker' = "good"
        BY <3>2, <3>7 DEF Goto
      <4> QED BY <3>5, <3>6, <4>1 DEF TableInv, MarkRefused, EraseInv
    <3>8. CASE AfterMark
      <4>1. Elsewhere'
        BY <2>1, <3>8, AfterMarkGoes
      <4> QED BY <3>5, <3>6, <4>1 DEF TableInv, MarkRefused, EraseInv, Elsewhere, Marking
    <3> QED BY <3>1, <3>7, <3>8
  <2> QED BY <2>2, <2>3
<1> QED BY <1>2, <1>3, <1>4

\* Only after an erase that has succeeded is a block taken out of the table.
LEMMA WaitTable ==
  ASSUME TypeInv, TableInv, NEW outcome, Wait(outcome)
  PROVE  TableInv'
<1> DEFINE bad == outcome = "ready" /\ failed  gone == outcome \in {"timeout", "nostatus"}
<1>1. CallType /\ Places /\ Extent /\ failed \in BOOLEAN /\ lut \in [Blocks -> BOOLEAN] /\ mark \subseteq Blocks
  BY DEF TypeInv, CallInv, ChipType, DriverType
<1>2. /\ pc \in {"erasing", "marking", "programming", "locking"}
      /\ missed' = (missed \/ outcome = "misread")
      /\ UNCHANGED <<op, mark, failed, up, job>>
      /\ AfterWait(bad, gone)
  BY DEF Wait, Polled, AfterWait, chipVars
<1>3. bad \in BOOLEAN /\ gone \in BOOLEAN /\ ~(bad /\ gone)
  BY <1>1
<1>4. ~bad /\ ~gone /\ outcome # "misread" => outcome = "ready" /\ ~Busy /\ ~failed
  BY DEF Wait, Polled
<1> HIDE DEF bad, gone
<1>5. CASE pc = "locking"
  <2>1. pc' = "idle" /\ lut' = lut
    BY <1>2, <1>5 DEF AfterWait, Return
  <2>2. Elsewhere'
    BY <2>1 DEF Elsewhere
  <2> QED BY <1>2, <2>1, <2>2, TableElsewhere
<1>6. CASE pc = "marking"
  <2>1. lut' = [lut EXCEPT ![Current] = @ \/ bad] /\ AfterMark
    BY <1>2, <1>6 DEF AfterWait
  <2>2. Elsewhere'
    BY <1>6, <2>1, AfterMarkGoes DEF Marking
  <2>3. \A b \in Blocks : lut[b] => lut'[b]
    BY <1>1, <1>3, <2>1
  <2>4. MarkRefused' /\ EraseInv'
    BY <1>2, <2>2 DEF TableInv, MarkRefused, EraseInv, Elsewhere, Marking
  <2>5. TableKnowsMarkers'
    BY <1>1, <1>2, <2>3 DEF TableInv, TableKnowsMarkers
  <2> QED BY <2>4, <2>5 DEF TableInv
<1>7. CASE pc \in {"erasing", "programming"} /\ gone
  <2>1. pc' = "idle" /\ lut' = lut
    BY <1>2, <1>3, <1>7 DEF AfterWait, Return
  <2>2. Elsewhere'
    BY <2>1 DEF Elsewhere
  <2> QED BY <1>2, <2>1, <2>2, TableElsewhere
<1>8. CASE pc \in {"erasing", "programming"} /\ ~gone /\ bad
  <2>1. Condemn(Current) /\ UNCHANGED <<addr, readAddr>>
    BY <1>2, <1>8 DEF AfterWait, callVars, readVars
  <2>2. ~Idle
    BY <1>8 DEF Idle
  <2> QED BY <1>2, <2>1, <2>2, CondemnTable
<1>9. CASE pc = "erasing" /\ ~gone /\ ~bad
  <2>1. lut' = [lut EXCEPT ![Current] = FALSE] /\ marker' = "good" /\ pc' = "mark"
    BY <1>2, <1>9 DEF AfterWait, Goto
  <2>2. ~Idle /\ job # "read"
    BY <1>1, <1>9 DEF Idle, Places
  <2>3. Current = Block(addr) /\ Current \in Blocks
    BY <2>2, CurrentBlock
  <2>4. ~missed' => Current \notin mark
    <3>1. ~missed' => ~missed /\ outcome # "misread"
      BY <1>2
    <3> QED BY <1>4, <1>9, <2>3, <3>1 DEF TableInv, EraseInv
  <2>5. \A b \in Blocks : b # Current => lut'[b] = lut[b]
    BY <1>1, <2>1
  <2>6. TableKnowsMarkers'
    <3>1. ~missed' => ~missed
      BY <1>2
    <3> QED BY <1>1, <1>2, <2>4, <2>5, <3>1 DEF TableInv, TableKnowsMarkers
  <2>7. MarkRefused' /\ EraseInv'
    BY <1>2, <2>1 DEF TableInv, MarkRefused, EraseInv
  <2> QED BY <2>6, <2>7 DEF TableInv
<1>10. CASE pc = "programming" /\ ~gone /\ ~bad
  <2>1. Advance /\ lut' = lut
    BY <1>2, <1>10 DEF AfterWait
  <2>2. job = "page" \/ (job = "write" /\ (index + 1 < NPages \/ index + 1 = NPages))
    <3>1. job \in {"write", "page"}
      BY <1>1, <1>10 DEF Places
    <3>2. index + 1 < NPages \/ index + 1 = NPages
      BY <1>1, Sizes, SMT DEF CallType
    <3> QED BY <3>1, <3>2
  <2>3. ~(index + 1 < NPages /\ index + 1 = NPages)
    BY <1>1, Sizes, SMT DEF CallType
  <2>4. pc' \in {"idle", "program", "erase", "ecc"}
    BY <2>1, <2>2, <2>3 DEF Advance, Goto, Return, StartBlock, StartRead
  <2>5. Elsewhere'
    BY <2>4 DEF Elsewhere
  <2> QED BY <1>2, <2>1, <2>5, TableElsewhere
<1> QED BY <1>2, <1>3, <1>5, <1>6, <1>7, <1>8, <1>9, <1>10

\* The chip adds no marker, for it is never asked to.
LEMMA MarkedLess == ASSUME op.kind # "mark" PROVE Marked(op) \subseteq mark
BY DEF Marked

LEMMA ChipTable ==
  ASSUME TypeInv, TableInv, (\E fails \in BOOLEAN : Finish(fails)) \/ PowerLoss
  PROVE  TableInv'
<1>1. op' = NoOp /\ NoOp.kind = "none" /\ missed' = missed
  BY NoOpType DEF Finish, PowerLoss
<1>2. mark' \subseteq mark
  <2>1. Torn(op) => mark' \subseteq mark
    BY MarkedLess DEF Torn, TableInv, MarkRefused
  <2> QED BY <2>1, MarkedLess DEF Finish, PowerLoss, TableInv, MarkRefused
<1>3. ASSUME NEW fails \in BOOLEAN, Finish(fails) PROVE TableInv'
  <2>1. UNCHANGED <<up, lut, pc, job, addr, readAddr, marker>> /\ failed' = fails
    BY <1>3 DEF Finish, callVars, readVars
  <2>2. Current' = Current /\ Marking' = Marking /\ Block(addr)' = Block(addr)
    BY <2>1 DEF Current, Block, Marking
  <2>3. MarkRefused'
    BY <1>1, <2>1, <2>2 DEF MarkRefused, TableInv
  <2>4. TableKnowsMarkers'
    BY <1>1, <1>2, <2>1 DEF TableKnowsMarkers, TableInv
  <2>5. EraseInv'
    <3> SUFFICES ASSUME pc = "erasing", ~missed, ~fails PROVE Block(addr) \notin mark'
      BY <1>1, <2>1, <2>2 DEF EraseInv, Busy
    <3>1. op.kind = "erase" /\ op.at = BlockBase(addr)
      BY <1>3 DEF TableInv, EraseInv, Finish
    <3>2. Block(op.at) = Block(addr)
      <4>1. addr \in Addr
        BY DEF TypeInv, CallInv, Places, Extent, Idle
      <4> QED BY <3>1, <4>1, InBlock
    <3>3. mark' = mark \ {Block(op.at)}
      BY <1>3, <3>1 DEF Finish, Marked
    <3> QED BY <3>2, <3>3
  <2> QED BY <2>3, <2>4, <2>5 DEF TableInv
<1>4. CASE PowerLoss
  <2>1. up' = FALSE /\ pc' = "idle"
    BY <1>4 DEF PowerLoss, Return
  <2>2. MarkRefused' /\ EraseInv'
    BY <1>1, <2>1 DEF MarkRefused, EraseInv, Marking
  <2>3. TableKnowsMarkers'
    BY <1>2, <2>1 DEF TableKnowsMarkers, TableInv
  <2> QED BY <2>2, <2>3 DEF TableInv
<1> QED BY <1>3, <1>4

LEMMA InitTable == Init => TableInv
<1> SUFFICES ASSUME Init PROVE TableInv
  OBVIOUS
<1> QED BY NoOpType DEF Init, TableInv, MarkRefused, EraseInv, TableKnowsMarkers, Marking

LEMMA TableInductive == ASSUME TypeInv, TableInv, [Next]_vars PROVE TableInv'
<1>1. CASE UNCHANGED vars
  <2>1. UNCHANGED <<op, mark, up, missed, lut, pc, job, addr, readAddr, marker, failed>>
    BY <1>1 DEF vars, chipVars, callVars, readVars
  <2> QED BY <2>1 DEF TableInv, MarkRefused, EraseInv, TableKnowsMarkers, Marking, Current,
                            Block, BlockBase, Busy
<1>2. ASSUME NEW a, NEW n, NEW force,
             Read(a, n) \/ Write(a, n) \/ ProgramPage(a, n) \/ EraseBlock(a, force)
      PROVE  TableInv'
  BY <1>2, CallGoes, TableElsewhere
<1>3. ASSUME NEW p, NEW ok, NEW sent, Protect(p, ok, sent) PROVE TableInv'
  <2>1. pc' \in {"locking", "idle"} /\ UNCHANGED <<op, mark, up, missed, lut>>
    BY <1>3 DEF Protect, Goto, Return
  <2>2. Elsewhere'
    BY <2>1 DEF Elsewhere
  <2> QED BY <2>1, <2>2, TableElsewhere
<1>4. ASSUME NEW ok \in BOOLEAN, NEW unread \in Unreadable, InitDriver(ok, unread) PROVE TableInv'
  <2>1. /\ pc = "idle" /\ pc' = pc /\ UNCHANGED <<op, mark>>
        /\ up' = ok /\ lut' = [b \in Blocks |-> ok /\ b \in mark \cup unread]
    BY <1>4 DEF InitDriver, chipVars
  <2>2. mark \subseteq Blocks
    BY DEF TypeInv, ChipType
  <2>3. TableKnowsMarkers'
    BY <2>1, <2>2 DEF TableInv, TableKnowsMarkers
  <2>4. MarkRefused' /\ EraseInv'
    BY <2>1 DEF TableInv, MarkRefused, EraseInv, Marking
  <2> QED BY <2>3, <2>4 DEF TableInv
<1>5. CASE Next
  BY <1>2, <1>3, <1>4, <1>5, Steps, ReadTable, SendTable, WaitTable, ChipTable, Zenon
<1> QED BY <1>1, <1>5

(* As long as no failed poll was taken for "ready", every block that carries a marker is in the
   table, so that nothing but a forced erase touches it; and the driver, which means to mark
   the blocks it finds bad, never adds a marker to the factory's. *)
THEOREM TableKnowsMarkersHolds == Spec => []TableKnowsMarkers
<1>1. TableInv => TableKnowsMarkers
  BY DEF TableInv
<1> QED BY <1>1, InitTable, TableInductive, Initial, Inductive, PTL DEF Spec

-----------------------------------------------------------------------------
(* What a call leaves on the chip.  Unless a failed poll was taken for "ready", the chip works,
   once the commands of earlier calls have ended, at nothing but the last command of this one. *)
Sound == ~missed /\ job \in Transfers
Cells == BlockCells(Block(addr))
Command == [kind |-> "program", at |-> BlockBase(addr) + index * PageSize,
            from |-> [i \in 0 .. PageSize - 1 |-> Source(index * PageSize + i)]]

\* Until the chip has done what an earlier call has sent, this call has sent nothing.
Late ==
  late => /\ Busy /\ before = mem /\ addr = first
          /\ pc \in {"idle", "ecc", "erase"} \/ (pc = "program" /\ job = "page")
\* After that it works at what this call has sent.
Calm ==
  ~late =>
    /\ pc \in {"ecc", "page", "erase", "mark"} => ~Busy
    /\ pc = "erasing" /\ Busy => op.kind = "erase" /\ op.at = BlockBase(addr)
    /\ pc \in {"marking", "program"} /\ Busy => op.kind = "unmark"
    /\ pc = "programming" /\ Busy => op = Command
    /\ Touched(op) \subseteq Cells
    /\ job = "read" \/ (job = "write" /\ pc = "idle" /\ ret = "ok") => ~Busy
AtWork == pc # "locking" /\ (pc = "marking" => marker = "good") /\ Late /\ Calm
WorkInv == Sound => AtWork

LEMMA QuietCalm == ASSUME ~Busy' PROVE Calm'
<1>1. op'.kind = "none"
  BY DEF Busy
<1>2. Touched(op)' = {}
  BY <1>1 DEF Touched
<1> QED BY <1>2 DEF Calm

\* What is at work stays at work.
LEMMA CallWork ==
  ASSUME NEW a, NEW n, NEW force,
         Read(a, n) \/ Write(a, n) \/ ProgramPage(a, n) \/ EraseBlock(a, force)
  PROVE  AtWork' /\ late' = Busy /\ op' = op
<1>1. /\ op' = op /\ mem' = mem /\ late' = Busy /\ before' = mem /\ addr' = a /\ first' = a
      /\ job' \in {"read", "write", "page", "erase"}
  BY DEF Read, Write, ProgramPage, EraseBlock, Call, chipVars
<1>2. pc' \in {"idle", "ecc", "erase"} \/ (pc' = "program" /\ job' = "page")
  BY DEF Read, Write, ProgramPage, EraseBlock, Call, StartBlock, StartRead, Return, Goto
<1>3. Late'
  BY <1>1, <1>2 DEF Late, Busy
<1>4. CASE ~late'
  <2>1. ~Busy'
    BY <1>1, <1>4 DEF Busy
  <2> QED BY <1>1, <1>2, <1>3, <2>1, QuietCalm DEF AtWork
<1>5. CASE late'
  BY <1>1, <1>2, <1>3, <1>5 DEF AtWork, Calm
<1> QED BY <1>1, <1>4, <1>5

\* A call does not become sound under way.
LEMMA Unsound ==
  ASSUME Sound', (missed => missed'), job' = job
  PROVE  Sound
BY DEF Sound

LEMMA ReadWork ==
  ASSUME TypeInv, WorkInv, NEW outcome, EnableEcc(outcome) \/ ReadPage(outcome), Sound'
  PROVE  Sound /\ AtWork /\ AtWork' /\ UNCHANGED <<mem, op, late, before, first, job>>
<1>1. /\ missed' = (missed \/ outcome = "misread")
      /\ UNCHANGED <<mem, op, late, before, first, job>>
  BY DEF EnableEcc, ReadPage, chipVars, ghostVars
<1>2. Sound /\ outcome # "misread" /\ AtWork
  BY <1>1, Unsound DEF Sound, WorkInv
<1>3. CASE EnableEcc(outcome)
  <2>1. /\ pc = "ecc" /\ addr' = addr /\ (outcome = "ok" => ~Busy) /\ outcome \in {"ok", "error"}
        /\ pc' \in {"idle", "erase", "page"} /\ (outcome = "error" => pc' \in {"idle", "erase"})
    BY <1>2, <1>3, EndReadGoes DEF EnableEcc, Goto
  <2>2. CASE late
    <3>1. outcome = "error"
      BY <1>2, <2>1, <2>2 DEF AtWork, Late
    <3> QED BY <1>1, <1>2, <2>1, <2>2, <3>1 DEF AtWork, Late, Calm, Busy
  <2>3. CASE ~late
    <3>1. ~Busy'
      BY <1>1, <1>2, <2>1, <2>3 DEF AtWork, Calm, Busy
    <3> QED BY <1>1, <1>2, <2>1, <2>3, <3>1, QuietCalm DEF AtWork, Late
  <2> QED BY <1>1, <1>2, <2>2, <2>3
<1>4. CASE ReadPage(outcome)
  <2>1. pc = "page" /\ pc' \in {"idle", "erase", "page", "mark"}
    BY <1>4, EndReadGoes DEF ReadPage, FetchPage, Condemn, Goto
  <2>2. ~late /\ ~Busy'
    BY <1>1, <1>2, <2>1 DEF AtWork, Late, Calm, Busy
  <2> QED BY <1>1, <1>2, <2>1, <2>2, QuietCalm DEF AtWork, Late
<1> QED BY <1>3, <1>4

\* A page lies in its block.
LEMMA TouchedCells ==
  ASSUME TypeInv, addr \in Addr
  PROVE  /\ \A c : c.kind = "erase" /\ c.at = BlockBase(addr) => Touched(c) = Cells
         /\ Touched(Command) \subseteq Cells
         /\ Command.kind = "program"
         /\ \A c : c.kind \in {"none", "mark", "unmark"} => Touched(c) = {}
<1>1. ASSUME NEW c, c.kind = "erase", c.at = BlockBase(addr) PROVE Touched(c) = Cells
  BY <1>1, InBlock DEF Touched, Cells
<1>2. Touched(Command) \subseteq Cells
  <2> DEFINE c == BlockBase(addr)  d == index * PageSize
  <2>1. /\ c \in Nat /\ d \in Nat /\ d + PageSize <= BlockSize /\ PageSize \in Nat /\ BlockSize \in Nat
    <3>1. c \in Nat
      BY BlockFacts
    <3>2. index \in 0 .. NPages - 1
      BY DEF TypeInv, CallInv, CallType
    <3> QED BY <3>1, <3>2, PageInBlock, Sizes
  <2>2. Command.kind = "program" /\ Command.at = c + d
    BY DEF Command
  <2>3. Touched(Command) = {a \in Addr : c + d <= a /\ a < c + d + PageSize}
    BY <2>2 DEF Touched
  <2> SUFFICES ASSUME NEW a \in Addr, c + d <= a, a < c + d + PageSize
               PROVE  Block(a) = Block(addr)
    BY <2>3 DEF Cells, BlockCells
  <2> HIDE DEF d, c
  <2>4. a \in Nat
    BY BlockFacts
  <2>5. c <= a /\ a < c + BlockSize
    BY <2>1, <2>4, SMT
  <2> QED BY <2>5, InBlock DEF c
<1>3. Command.kind = "program"
  BY DEF Command
<1>4. \A c : c.kind \in {"none", "mark", "unmark"} => Touched(c) = {}
  BY DEF Touched
<1> QED BY <1>1, <1>2, <1>3, <1>4

LEMMA EraseWork ==
  ASSUME TypeInv, WorkInv, NEW outcome, Erase(outcome), Sound'
  PROVE  /\ Sound /\ AtWork /\ AtWork' /\ UNCHANGED <<mem, late, before, first, job, addr>>
         /\ pc' \in {"erasing", "idle"}
         /\ pc' = "erasing" => Busy' /\ ~late
         /\ pc' = "idle" => ret' = "error"
<1> DEFINE command == [NoOp EXCEPT !.kind = "erase", !.at = BlockBase(addr)]
<1>1. /\ pc = "erase" /\ missed' = (missed \/ outcome = "lost") /\ (outcome \in {"sent", "late"} => ~Busy)
      /\ op' = IF outcome \in {"sent", "late"} THEN command ELSE op
      /\ \/ pc' = "erasing" /\ outcome \in {"sent", "lost"}
         \/ pc' = "idle" /\ ret' = "error"
      /\ UNCHANGED <<mem, late, before, first, job, addr>>
  BY DEF Erase, Send, Taken, Goto, Return, ghostVars
<1>2. Sound /\ outcome # "lost" /\ AtWork
  BY <1>1, Unsound DEF Sound, WorkInv
<1>3. job \in {"write", "erase"} /\ addr \in Addr
  BY <1>1 DEF TypeInv, CallInv, Places, Extent, Idle
<1>4. command.kind = "erase" /\ command.at = BlockBase(addr)
  BY <1>3, BlockFacts, BlockCommand
<1> HIDE DEF command
<1>5. Touched(command) = Cells
  BY <1>3, <1>4, TouchedCells
<1>6. UNCHANGED <<Cells, BlockBase(addr)>>
  BY <1>1 DEF Cells, BlockCells, BlockBase, Block
<1>7. CASE outcome \in {"sent", "late"}
  <2>1. ~Busy /\ ~late /\ op' = command /\ Busy'
    BY <1>1, <1>2, <1>4, <1>7 DEF AtWork, Late, Busy
  <2>2. Touched(op)' = Cells'
    BY <1>5, <1>6, <2>1 DEF Touched
  <2>3. Late' /\ Calm'
    BY <1>1, <1>3, <1>4, <1>6, <2>1, <2>2 DEF Late, Calm
  <2> QED BY <1>1, <1>2, <2>1, <2>3 DEF AtWork
<1>8. CASE outcome \notin {"sent", "late"}
  <2>1. op' = op /\ pc' = "idle" /\ ret' = "error"
    BY <1>1, <1>2, <1>8
  <2>2. Busy' = Busy /\ Touched(op)' = Touched(op)
    BY <2>1 DEF Busy, Touched
  <2>3. Late' /\ Calm'
    BY <1>1, <1>2, <1>3, <1>6, <2>1, <2>2 DEF AtWork, Late, Calm
  <2> QED BY <1>1, <1>2, <2>1, <2>3 DEF AtWork
<1> QED BY <1>7, <1>8

LEMMA ProgramWork ==
  ASSUME TypeInv, WorkInv, NEW outcome, Program(outcome), Sound'
  PROVE  /\ Sound /\ AtWork /\ AtWork' /\ UNCHANGED <<mem, late, before, first, job, addr>>
         /\ pc' \in {"programming", "idle"}
         /\ pc' = "programming" =>
              /\ Busy' /\ ~late /\ ~lut[Current]
              /\ UNCHANGED <<lut, buf, index, length, calls, lost>>
         /\ pc' = "idle" => ret' = "error"
<1>1. /\ pc = "program" /\ missed' = (missed \/ outcome = "lost") /\ (outcome \in {"sent", "late"} => ~Busy)
      /\ op' \in {op, Command} /\ (outcome \in {"sent", "late"} \/ op' = op)
      /\ \/ /\ pc' = "programming" /\ outcome \in {"sent", "lost"} /\ UNCHANGED <<index, length>> /\ ~lut[Current]
            /\ (outcome = "sent" => op' = Command)
         \/ pc' = "idle" /\ ret' = "error"
      /\ UNCHANGED <<mem, late, before, first, job, addr, buf, calls, lut, lost>>
  <2>1. /\ UNCHANGED <<late, before, first, job, addr, buf, calls, lut, lost>> /\ pc = "program"
        /\ missed \in BOOLEAN
    BY DEF Program, ghostVars, TypeInv, GhostType
  <2>2. CASE lut[Current]
    BY <2>1, <2>2 DEF Program, Return, chipVars
  <2>3. CASE ~lut[Current]
    BY <2>1, <2>3 DEF Program, Send, Taken, Goto, Return, Command
  <2> QED BY <2>2, <2>3
<1>2. Sound /\ outcome # "lost" /\ AtWork
  BY <1>1, Unsound DEF Sound, WorkInv
<1>3. job \in {"write", "page"} /\ addr \in Addr
  BY <1>1 DEF TypeInv, CallInv, Places, Extent, Idle
<1>4. Touched(Command) \subseteq Cells /\ Command.kind = "program"
  BY <1>3, TouchedCells
<1>5. Cells' = Cells
  BY <1>1 DEF Cells, BlockCells, Block
<1>6. CASE op' = Command /\ outcome \in {"sent", "late"}
  <2>1. ~Busy /\ ~late /\ Busy'
    BY <1>1, <1>2, <1>4, <1>6 DEF AtWork, Late, Busy
  <2>2. Touched(op)' \subseteq Cells'
    BY <1>4, <1>5, <1>6 DEF Touched
  <2>3. pc' = "programming" => Command' = Command
    BY <1>1 DEF Command, Source, Requested, BlockBase, Block
  <2>4. Late' /\ Calm'
    BY <1>1, <1>3, <1>6, <2>1, <2>2, <2>3 DEF Late, Calm
  <2> QED BY <1>1, <1>2, <2>1, <2>4 DEF AtWork
<1>7. CASE op' = op /\ pc' = "idle"
  <2>1. ret' = "error"
    BY <1>1, <1>7
  <2>2. Busy' = Busy /\ Touched(op)' = Touched(op)
    BY <1>7 DEF Busy, Touched
  <2>3. Late' /\ Calm'
    BY <1>1, <1>2, <1>3, <1>5, <1>7, <2>1, <2>2 DEF AtWork, Late, Calm
  <2> QED BY <1>1, <1>2, <1>7, <2>1, <2>3 DEF AtWork
<1>8. (op' = Command /\ outcome \in {"sent", "late"}) \/ (op' = op /\ pc' = "idle")
  BY <1>1, <1>2
<1> QED BY <1>6, <1>7, <1>8

\* Only the removal of a marker is ever sent, and it touches no cell.
LEMMA MarkWork ==
  ASSUME TypeInv, TableInv, WorkInv, NEW outcome, Mark(outcome), Sound'
  PROVE  /\ Sound /\ AtWork /\ AtWork' /\ UNCHANGED <<mem, late, before, first, job, addr>>
         /\ ~late /\ ~Busy
         /\ \/ AfterMark
            \/ pc' = "marking" /\ marker = "good" /\ UNCHANGED <<length, index, readVars, marker, buf, lost>>
<1>1. /\ pc = "mark" /\ (missed => missed')
      /\ UNCHANGED <<mem, late, before, first, job, addr>>
  BY DEF Mark, Send, ghostVars, chipVars
<1>2. Sound /\ AtWork /\ ~late /\ ~Busy
  BY <1>1, Unsound DEF WorkInv, AtWork, Late, Calm
<1>3. Marking /\ ~Idle /\ marker \in {"good", "bad"} /\ (marker = "bad" => lut[Current])
      /\ Places /\ (marker = "good" => job \in {"write", "erase"})
  BY <1>1 DEF TableInv, MarkRefused, TypeInv, CallInv, CallType, Places, Marking, Idle
<1>4. CASE lut[Current]
  <2>1. AfterMark /\ op' = op
    BY <1>4 DEF Mark, chipVars
  <2>2. Elsewhere' /\ ~Busy'
    BY <1>2, <1>3, <2>1, AfterMarkGoes DEF Busy
  <2>3. pc' # "locking"
    BY <1>3, <2>1, AfterMarkGoes
  <2> QED BY <1>1, <1>2, <2>1, <2>2, <2>3, QuietCalm DEF AtWork, Late, Elsewhere
<1>5. CASE ~lut[Current]
  <2> DEFINE command == [NoOp EXCEPT !.kind = "unmark", !.at = BlockSize * Current]
  <2>1. marker = "good" /\ job \in {"write", "erase"}
    BY <1>3, <1>5
  <2>2. /\ op' \in {op, command}
        /\ \/ pc' = "marking" /\ UNCHANGED <<length, index, readVars, marker, buf, lost>>
           \/ AfterMark
    BY <1>5, <2>1 DEF Mark, Send, Goto
  <2>3. command.kind = "unmark"
    BY <1>3, CurrentBlock, BlockCommand
  <2> HIDE DEF command
  <2>4. op'.kind \in {"none", "unmark"}
    BY <1>2, <2>2, <2>3 DEF Busy
  <2>5. Touched(op)' = {}
    BY <2>4 DEF Touched
  <2>6. CASE pc' = "marking" /\ UNCHANGED <<length, index, readVars, marker, buf, lost>>
    <3>1. Calm'
      BY <1>1, <2>1, <2>4, <2>5, <2>6 DEF Calm, Busy
    <3> QED BY <1>1, <1>2, <2>1, <2>6, <3>1 DEF AtWork, Late
  <2>7. CASE AfterMark
    <3>1. pc' = "program" \/ (pc' = "idle" /\ job = "erase")
      BY <2>1, <2>7 DEF AfterMark, Goto, Return
    <3>2. Calm'
      BY <1>1, <2>1, <2>4, <2>5, <3>1 DEF Calm, Busy
    <3> QED BY <1>1, <1>2, <2>7, <3>1, <3>2 DEF AtWork, Late
  <2> QED BY <2>2, <2>6, <2>7
<1> QED BY <1>4, <1>5

LEMMA WaitWork ==
  ASSUME TypeInv, WorkInv, NEW outcome, Wait(outcome), Sound'
  PROVE  /\ Sound /\ AtWork /\ AtWork' /\ ~late /\ UNCHANGED <<mem, op, failed, late, before, first, job, calls>>
         /\ outcome \in {"ready", "nostatus"} => ~Busy
         /\ \/ /\ pc \in {"erasing", "programming"} /\ outcome \in {"timeout", "nostatus"}
               /\ pc' = "idle" /\ ret' = "error" /\ UNCHANGED <<addr, lost, lut>>
            \/ /\ pc \in {"erasing", "programming"} /\ outcome = "ready" /\ failed
               /\ Condemn(Current) /\ UNCHANGED <<callVars, readVars, buf, lost>>
            \/ /\ pc = "erasing" /\ outcome = "ready" /\ ~failed
               /\ lut' = [lut EXCEPT ![Current] = FALSE]
               /\ marker' = "good" /\ Goto("mark") /\ UNCHANGED <<callVars, readVars, buf, lost>>
            \/ pc = "programming" /\ outcome = "ready" /\ ~failed /\ Advance /\ lut' = lut
            \/ /\ pc = "marking" /\ AfterMark /\ marker = "good" /\ addr' = addr
               /\ lut' = [lut EXCEPT ![Current] = @ \/ (outcome = "ready" /\ failed)]
<1> DEFINE bad == outcome = "ready" /\ failed  gone == outcome \in {"timeout", "nostatus"}
<1>1. /\ pc \in {"erasing", "marking", "programming", "locking"}
      /\ \/ outcome = "ready" /\ ~Busy
         \/ outcome = "nostatus" /\ ~Busy
         \/ outcome = "timeout" /\ Busy
         \/ outcome = "misread"
      /\ missed' = (missed \/ outcome = "misread")
      /\ UNCHANGED <<mem, op, failed, late, before, first, job, calls>>
      /\ AfterWait(bad, gone)
  BY DEF Wait, Polled, AfterWait, chipVars, ghostVars
<1>2. Sound /\ outcome # "misread" /\ AtWork
  BY <1>1, Unsound DEF Sound, WorkInv
<1>3. pc \in {"erasing", "marking", "programming"} /\ ~late /\ (pc = "marking" => marker = "good")
  BY <1>1, <1>2 DEF AtWork, Late
<1>4. /\ Marking => pc \in {"mark", "marking"}
      /\ ~Idle /\ CallType /\ Places /\ failed \in BOOLEAN
  BY <1>3 DEF Marking, Idle, TypeInv, CallInv, ChipType
<1>5. (bad <=> outcome = "ready" /\ failed) /\ (gone <=> outcome \in {"timeout", "nostatus"})
  OBVIOUS
<1> HIDE DEF bad, gone
<1>6. \/ /\ pc \in {"erasing", "programming"} /\ gone
         /\ pc' = "idle" /\ ret' = "error" /\ UNCHANGED <<addr, lost, lut>>
      \/ /\ pc \in {"erasing", "programming"} /\ bad
         /\ Condemn(Current) /\ UNCHANGED <<callVars, readVars, buf, lost>>
      \/ /\ pc = "erasing" /\ ~bad /\ ~gone /\ lut' = [lut EXCEPT ![Current] = FALSE]
         /\ marker' = "good" /\ Goto("mark") /\ UNCHANGED <<callVars, readVars, buf, lost>>
      \/ pc = "programming" /\ ~bad /\ ~gone /\ Advance /\ lut' = lut
      \/ pc = "marking" /\ AfterMark /\ addr' = addr /\ lut' = [lut EXCEPT ![Current] = @ \/ bad]
  <2>1. ~(bad /\ gone)
    BY <1>5
  <2>2. CASE pc = "marking"
    BY <1>1, <2>2 DEF AfterWait
  <2>3. CASE pc \in {"erasing", "programming"} /\ gone
    BY <1>1, <2>1, <2>3 DEF AfterWait, Return
  <2>4. CASE pc \in {"erasing", "programming"} /\ bad
    BY <1>1, <2>1, <2>4 DEF AfterWait
  <2>5. CASE pc = "erasing" /\ ~bad /\ ~gone
    BY <1>1, <2>5 DEF AfterWait
  <2>6. CASE pc = "programming" /\ ~bad /\ ~gone
    BY <1>1, <2>6 DEF AfterWait
  <2> QED BY <1>3, <2>2, <2>3, <2>4, <2>5, <2>6
<1>7. AtWork'
  <2>1. CASE ~Busy
    <3>1. ~Busy'
      BY <1>1, <2>1 DEF Busy
    <3>2. pc' # "locking" /\ pc' # "marking"
      <4>1. AfterMark /\ pc = "marking" => pc' \in {"idle", "erase", "program"}
        BY AfterMarkGoes DEF Marking
      <4>2. Advance /\ pc = "programming" => pc' \in {"idle", "program", "erase", "ecc"}
        <5> SUFFICES ASSUME Advance, pc = "programming" PROVE pc' \in {"idle", "program", "erase", "ecc"}
          OBVIOUS
        <5>1. job \in {"write", "page"}
          BY <1>4 DEF Places
        <5>2. /\ index + 1 < NPages \/ index + 1 = NPages
              /\ ~(index + 1 < NPages /\ index + 1 = NPages)
          BY <1>4, Sizes, SMT DEF CallType
        <5> QED BY <5>1, <5>2 DEF Advance, Goto, Return, StartBlock, StartRead
      <4> QED BY <1>6, <4>1, <4>2 DEF Condemn, Goto
    <3> QED BY <1>1, <1>3, <3>1, <3>2, QuietCalm DEF AtWork, Late
  <2>2. CASE Busy
    <3>1. outcome = "timeout" /\ gone /\ ~bad
      BY <1>1, <1>2, <1>5, <2>2
    <3>2. addr' = addr /\ UNCHANGED <<op, late, job>> /\ Busy'
      BY <1>1, <1>6, <2>2, <3>1 DEF Busy
    <3>3. Touched(op)' \subseteq Cells'
      BY <1>2, <1>3, <3>2 DEF AtWork, Calm, Touched, Cells, BlockCells, Block
    <3>4. job # "read"
      BY <1>2, <1>3, <2>2 DEF AtWork, Calm
    <3>5. CASE pc \in {"erasing", "programming"}
      <4>1. pc' = "idle" /\ ret' = "error"
        BY <1>6, <3>1, <3>5
      <4> QED BY <1>3, <3>2, <3>3, <3>4, <4>1 DEF AtWork, Late, Calm
    <3>6. CASE pc = "marking"
      <4>1. AfterMark /\ marker = "good"
        BY <1>3, <1>6, <3>6
      <4>2. pc' = "program" \/ (pc' = "idle" /\ job = "erase")
        BY <4>1 DEF AfterMark, Goto, Return
      <4>3. op'.kind = "unmark"
        BY <1>2, <1>3, <2>2, <3>2, <3>6 DEF AtWork, Calm
      <4> QED BY <1>3, <3>2, <3>3, <3>4, <4>2, <4>3 DEF AtWork, Late, Calm
    <3> QED BY <1>3, <3>5, <3>6
  <2> QED BY <2>1, <2>2
<1>8. outcome \in {"ready", "nostatus", "timeout"} /\ (outcome \in {"ready", "nostatus"} => ~Busy)
  BY <1>1, <1>2
<1> QED BY <1>1, <1>2, <1>3, <1>5, <1>6, <1>7, <1>8

LEMMA ChipWork ==
  ASSUME TypeInv, WorkInv, (\E fails \in BOOLEAN : Finish(fails)) \/ PowerLoss, Sound'
  PROVE  Sound /\ AtWork /\ AtWork' /\ ~late' /\ ~Busy'
<1>1. /\ op' = NoOp /\ NoOp.kind = "none" /\ UNCHANGED <<missed, job>>
      /\ (pc' = pc /\ marker' = marker) \/ pc' = "idle"
  BY NoOpType DEF Finish, PowerLoss, Return
<1>2. Sound /\ AtWork /\ ~Busy'
  BY <1>1, Unsound DEF WorkInv, Busy
<1>3. ~late'
  <2>1. Overtake
    BY DEF Finish, PowerLoss
  <2> QED BY <2>1 DEF Overtake
<1> QED BY <1>1, <1>2, <1>3, QuietCalm DEF AtWork, Late

\* Neither is a sound call.
LEMMA NoCall ==
  ASSUME NEW p, NEW ok, NEW sent, NEW unread, Protect(p, ok, sent) \/ InitDriver(ok, unread)
  PROVE  ~Sound'
BY DEF Protect, InitDriver, Sound, Transfers

LEMMA StutterWork ==
  ASSUME UNCHANGED vars, WorkInv
  PROVE  WorkInv'
BY DEF vars, chipVars, callVars, readVars, ghostVars, WorkInv, Sound, AtWork, Late, Calm, Busy, Touched,
       Cells, BlockCells, BlockBase, Block, Command, Source, Requested

LEMMA WorkInductive ==
  ASSUME TypeInv, TableInv, WorkInv, [Next]_vars
  PROVE  WorkInv'
<1>1. CASE Next
  <2> SUFFICES ASSUME Sound' PROVE AtWork'
    BY DEF WorkInv
  <2>1. ASSUME NEW outcome, \/ EnableEcc(outcome) \/ ReadPage(outcome) \/ Wait(outcome)
                            \/ Erase(outcome) \/ Program(outcome) \/ Mark(outcome)
        PROVE  AtWork'
    BY <2>1, ReadWork, WaitWork, EraseWork, ProgramWork, MarkWork
  <2>2. ASSUME NEW a, NEW n, NEW force,
               Read(a, n) \/ Write(a, n) \/ ProgramPage(a, n) \/ EraseBlock(a, force)
        PROVE  AtWork'
    BY <2>2, CallWork
  <2>3. \A p, ok, sent, unread : ~Protect(p, ok, sent) /\ ~InitDriver(ok, unread)
    BY NoCall
  <2> QED BY <1>1, <2>1, <2>2, <2>3, ChipWork, Steps, Zenon
<1>2. CASE UNCHANGED vars
  BY <1>2, StutterWork
<1> QED BY <1>1, <1>2

-----------------------------------------------------------------------------
(* What a read has delivered. *)
Delivered(b, from, to) ==
  \A a \in Addr : from <= a /\ a < to => b[a - from] = mem[a] /\ mem[a] # Junk

\* The address that cell 0 of the buffer stands for.
From == IF job = "read" THEN first ELSE BlockBase(addr)

\* The buffer holds what is on the chip, up to the page that is read next; that page is the one
\* which was loaded ahead.
Filled ==
  /\ pc = "ecc" => readAddr = From /\ mode # "next"
  /\ pc = "page" /\ mode = "next" => register = readAddr \div PageSize
  /\ job = "read" /\ Reading => addr = first
  /\ Reading => Delivered(buf, From, readAddr)
  /\ pc = "idle" /\ job = "read" /\ ret = "ok" =>
       ~late /\ addr <= ChipSize /\ Delivered(buf, first, addr)
FillInv == Sound => Filled

LEMMA FilledElsewhere ==
  ASSUME pc' \notin {"ecc", "page"}, ~Reading', pc' = "idle" /\ job' = "read" => ret' # "ok"
  PROVE  Filled'
BY DEF Filled

LEMMA StartBlockFilled ==
  ASSUME NEW a \in Addr, NEW n, StartBlock(a, n), job' = "write", addr' = a
  PROVE  Filled'
<1>1. CASE pc' = "erase"
  <2>1. ~Reading'
    BY <1>1 DEF Reading, Marking
  <2> QED BY <1>1, <2>1, FilledElsewhere
<1>2. CASE pc' = "ecc" /\ readAddr' = BlockBase(a) /\ mode' \in {"first", "plain"}
  <2>1. From' = BlockBase(a)
    BY DEF From, BlockBase, Block
  <2>2. BlockBase(a) \in Nat
    BY BlockFacts
  <2>3. Delivered(buf, From, readAddr)'
    <3> DEFINE c == BlockBase(a)
    <3>1. c \in Nat /\ From' = c /\ readAddr' = c
      BY <1>2, <2>1, <2>2
    <3> HIDE DEF c
    <3>2. \A x \in Addr : ~(c <= x /\ x < c)
      BY <3>1, Sizes, SMT DEF Addr
    <3> QED BY <3>1, <3>2 DEF Delivered
  <2> QED BY <1>2, <2>1, <2>3 DEF Filled
<1> QED BY <1>1, <1>2 DEF StartBlock, StartRead, Goto

LEMMA CallFilled ==
  ASSUME TypeInv, NEW a \in Nat, NEW n \in Nat, NEW force,
         Read(a, n) \/ Write(a, n) \/ ProgramPage(a, n) \/ EraseBlock(a, force)
  PROVE  Filled'
<1>1. CASE Read(a, n)
  <2>1. job' = "read" /\ addr' = a /\ first' = a
    BY <1>1 DEF Read, Call
  <2>2. CASE pc' = "idle" /\ ret' = "error"
    BY <2>2, FilledElsewhere DEF Reading, Marking
  <2>3. CASE pc' = "ecc" /\ readAddr' = a /\ mode' \in {"first", "plain"}
    <3>1. \A x \in Addr : ~(a <= x /\ x < a)
      BY Sizes, SMT DEF Addr
    <3>2. Delivered(buf, From, readAddr)'
      BY <2>1, <2>3, <3>1 DEF Delivered, From
    <3> QED BY <2>1, <2>3, <3>2 DEF Filled, From
  <2> QED BY <1>1, <2>2, <2>3 DEF Read, Return, StartRead, Goto
<1>2. CASE Write(a, n)
  <2>1. job' = "write" /\ addr' = a
    BY <1>2 DEF Write, Call
  <2>2. CASE pc' = "idle"
    BY <2>1, <2>2, FilledElsewhere DEF Reading, Marking
  <2>3. CASE a < ChipSize /\ StartBlock(a, Cut(a, n))
    <3>1. a \in Addr
      BY <2>3, Sizes, SMT DEF Addr
    <3> QED BY <2>1, <2>3, <3>1, StartBlockFilled
  <2>4. ~(a >= ChipSize) => a < ChipSize
    BY Sizes, SMT
  <2> QED BY <1>2, <2>2, <2>3, <2>4 DEF Write, Return
<1>3. CASE ProgramPage(a, n) \/ EraseBlock(a, force)
  <2>1. pc' \in {"idle", "erase", "program"} /\ job' # "read"
    BY <1>3 DEF ProgramPage, EraseBlock, Call, Return, Goto
  <2> QED BY <2>1, FilledElsewhere DEF Reading, Marking
<1> QED BY <1>1, <1>2, <1>3

\* The page behind one that is not the last of its block.
LEMMA NotLast ==
  ASSUME NEW N \in Nat \ {0}, NEW p \in Nat, p % N # N - 1
  PROVE  (p + 1) % N # 0
<1> DEFINE q == p \div N  r == p % N  u == p + 1
<1>1. q \in Nat /\ r \in 0 .. N - 1 /\ p = N * q + r /\ N * q \in Nat /\ r # N - 1
  BY Division
<1> DEFINE m == N * q
<1> HIDE DEF q, r, m
<1>2. r + 1 < N /\ u = m + (r + 1) /\ u \in Nat /\ m \in Nat
  <2>1. m \in Nat /\ p = m + r
    BY <1>1 DEF m
  <2> QED BY <1>1, <2>1, SMT
<1> HIDE DEF u
<1>3. q = u \div N
  <2>1. m <= u /\ u < m + N
    BY <1>1, <1>2, SMT
  <2> QED BY <1>1, <1>2, <2>1, Quotient DEF m
<1>4. u = N * (u \div N) + (u % N) /\ u % N \in 0 .. N - 1
  BY <1>2, Division
<1> DEFINE w == u % N
<1>5. u = m + w /\ w \in 0 .. N - 1
  BY <1>3, <1>4 DEF m
<1> HIDE DEF w
<1>6. w # 0
  BY <1>1, <1>2, <1>5, SMT
<1> QED BY <1>6 DEF w, u

\* A page is fetched: it is the right one, and goes to the right place.
LEMMA FetchDelivers ==
  ASSUME TypeInv, pc = "page", AtWork, Filled, ~Uncorrectable, FetchPage(TRUE), job' = job
  PROVE  \E b \in [Addr -> Content] :
           /\ Delivered(b, From, readAddr + ReadLen)
           /\ readLength = ReadLen =>
                EndRead(b, "ok") /\ addr' = IF job = "read" THEN readAddr + ReadLen ELSE addr
           /\ readLength # ReadLen =>
                /\ pc' = "page" /\ buf' = b /\ readAddr' = readAddr + ReadLen
                /\ mode' = "next" => register' = readAddr' \div PageSize
                /\ UNCHANGED <<addr, length, index, marker, lost>>
<1> DEFINE b == [k \in Addr |-> IF BufAt <= k /\ k < BufAt + ReadLen
                                  THEN Fetched((readAddr % PageSize) + k - BufAt) ELSE buf[k]]
           cached == mode # "plain" /\ ~LastCached
           p == readAddr \div PageSize
<1>1. /\ readAddr \in Addr /\ readAddr \in Nat /\ BufAt \in Nat /\ ReadLen \in Nat \ {0}
      /\ (readAddr % PageSize) + ReadLen <= PageSize /\ readAddr % PageSize \in 0 .. PageSize - 1
      /\ BufAt = readAddr - From /\ From \in Nat /\ Reading
  <2>1. BufAt = readAddr - From /\ Reading
    BY DEF BufAt, From, Reading
  <2>2. readAddr \in Addr /\ readAddr \in Nat
    BY FetchFacts, BlockFacts
  <2>3. From \in Nat
    <3>1. first \in Nat
      BY DEF TypeInv, GhostType
    <3>2. job # "read" => addr \in Addr
      BY DEF TypeInv, CallInv, Extent, Idle
    <3> QED BY <3>1, <3>2, BlockFacts DEF From
  <2> QED BY <2>1, <2>2, <2>3, FetchFacts
<1>2. ~Busy
  BY DEF AtWork, Late, Calm
<1>3. Loaded = p /\ p \in Pages /\ p \in Nat /\ p # NoPage
  <2>1. mode = "next" => register = p
    BY DEF Filled
  <2>2. p \in Pages /\ p \in Nat
    BY <1>1, PageOf, PageFacts
  <2>3. p # NoPage
    BY <2>2, SMT DEF NoPage
  <2> QED BY <2>1, <2>2, <2>3 DEF Loaded
<1>4. p * PageSize \in Nat /\ readAddr = p * PageSize + (readAddr % PageSize) /\ PageSize \in Nat \ {0}
  <2>1. p * PageSize \in Nat /\ readAddr % PageSize = readAddr - p * PageSize
    BY <1>1, <1>3, PageOf, PageFacts
  <2> DEFINE c == p * PageSize  r == readAddr % PageSize
  <2>2. c \in Nat /\ r = readAddr - c
    BY <2>1
  <2> HIDE DEF c, r
  <2>3. readAddr = c + r
    BY <1>1, <2>2, SMT
  <2> QED BY <2>1, <2>3, Sizes DEF c, r
<1>5. \A i \in 0 .. PageSize - 1 : Fetched(i) = mem[p * PageSize + i] /\ Fetched(i) # Junk
  BY <1>2, <1>3 DEF Fetched, Uncorrectable
<1>6. Delivered(b, From, readAddr + ReadLen)
  <2> SUFFICES ASSUME NEW x \in Addr, From <= x, x < readAddr + ReadLen
               PROVE  b[x - From] = mem[x] /\ mem[x] # Junk
    BY DEF Delivered
  <2> DEFINE k == x - From  r == readAddr % PageSize  c == p * PageSize
  <2>1. x \in Nat
    BY BlockFacts
  <2>2. c \in Nat /\ r \in Nat /\ readAddr = c + r /\ r + ReadLen <= PageSize /\ x < ChipSize
    BY <1>1, <1>4, Sizes, SMT DEF Addr
  <2> HIDE DEF c, r
  <2>3. k \in Addr
    BY <1>1, <2>1, <2>2, Sizes, SMT DEF Addr
  <2>4. CASE x < readAddr
    <3>1. ~(BufAt <= k)
      BY <1>1, <2>1, <2>4, SMT
    <3>2. b[k] = buf[k]
      BY <2>3, <3>1
    <3>3. buf[k] = mem[x] /\ mem[x] # Junk
      BY <1>1, <2>4 DEF Filled, Delivered
    <3> QED BY <3>2, <3>3
  <2>5. CASE readAddr <= x
    <3>1. /\ BufAt <= k /\ k < BufAt + ReadLen
          /\ r + k - BufAt \in 0 .. PageSize - 1 /\ c + (r + k - BufAt) = x
      BY <1>1, <1>4, <2>1, <2>2, <2>5, SMT
    <3>2. b[k] = Fetched(r + k - BufAt)
      <4> HIDE DEF k
      <4> QED BY <2>3, <3>1 DEF r
    <3> DEFINE i == r + k - BufAt
    <3>3. i \in 0 .. PageSize - 1 /\ c + i = x /\ b[k] = Fetched(i)
      BY <3>1, <3>2
    <3> HIDE DEF i, b, k
    <3>4. Fetched(i) = mem[x] /\ Fetched(i) # Junk
      BY <1>5, <3>3 DEF c
    <3> QED BY <3>3, <3>4 DEF k
  <2>6. x < readAddr \/ readAddr <= x
    BY <1>1, <2>1, SMT
  <2> QED BY <2>4, <2>5, <2>6
<1>7. b \in [Addr -> Content]
  <2>1. ASSUME NEW k \in Addr, BufAt <= k, k < BufAt + ReadLen
        PROVE  (readAddr % PageSize) + k - BufAt \in 0 .. PageSize - 1
    <3> DEFINE r == readAddr % PageSize
    <3>1. r \in 0 .. PageSize - 1 /\ r + ReadLen <= PageSize /\ k \in Nat
      BY <1>1, BlockFacts
    <3> HIDE DEF r
    <3>2. r + k - BufAt \in 0 .. PageSize - 1
      BY <1>1, <1>4, <2>1, <3>1, SMT
    <3> QED BY <3>2 DEF r
  <2>2. buf \in [Addr -> Content]
    BY DEF TypeInv, DriverType
  <2> QED BY <2>1, <2>2, LoadedPage
<1>8. /\ register' = IF cached THEN NextLoaded ELSE NoPage
      /\ IF readLength = ReadLen
           THEN EndRead(b, "ok") /\ addr' = IF job = "read" THEN readAddr + ReadLen ELSE addr
           ELSE /\ readAddr' = readAddr + ReadLen
                /\ mode' = IF mode = "plain" THEN "plain" ELSE IF cached THEN "next" ELSE "first"
                /\ buf' = b /\ Goto("page") /\ UNCHANGED <<addr, length, index, marker, lost>>
  BY Zenon DEF FetchPage
<1> HIDE DEF b
<1>9. ASSUME readLength # ReadLen, mode' = "next" PROVE register' = readAddr' \div PageSize
  <2>1. cached /\ readAddr' = readAddr + ReadLen
    BY <1>8, <1>9
  <2>2. p % NPages # NPages - 1 /\ ~(readLength <= PageSize)
    BY <2>1 DEF LastCached
  <2>3. (p + 1) % NPages # 0
    BY <1>3, <2>2, Sizes, NotLast
  <2>4. register' = p + 1
    BY <1>3, <1>8, <2>1, <2>3 DEF NextLoaded
  <2> DEFINE c == p * PageSize  r == readAddr % PageSize  y == readAddr + ReadLen
  <2>5. c \in Nat /\ r \in Nat /\ readAddr = c + r /\ readLength \in Nat
        /\ ReadLen = IF readLength < PageSize - r THEN readLength ELSE PageSize - r
    BY <1>1, <1>4, FetchFacts, Sizes, SMT DEF ReadLen
  <2> HIDE DEF c, r
  <2>6. y = c + PageSize /\ y \in Nat
    BY <1>1, <1>4, <2>2, <2>5, SMT
  <2> HIDE DEF y
  <2>7. PageSize * (p + 1) = c + PageSize /\ p + 1 \in Nat
    <3>1. PageSize * p = p * PageSize /\ PageSize * (p + 1) = PageSize * p + PageSize /\ p + 1 \in Nat
      <4> HIDE DEF p
      <4> QED BY <1>3, <1>4, Multiples, SMT
    <3> QED BY <3>1 DEF c
  <2>8. p + 1 = y \div PageSize
    <3> DEFINE q == p + 1
    <3>1. q \in Nat /\ PageSize * q <= y /\ y < PageSize * q + PageSize
      <4> HIDE DEF p
      <4> QED BY <1>4, <2>5, <2>6, <2>7, SMT
    <3> HIDE DEF q
    <3>2. q = y \div PageSize
      BY <1>4, <2>6, <3>1, Quotient
    <3> QED BY <3>2 DEF q
  <2> QED BY <2>1, <2>4, <2>8 DEF y
<1> WITNESS b \in [Addr -> Content]
<1> QED BY <1>6, <1>7, <1>8, <1>9 DEF Goto

LEMMA EndReadFilled ==
  ASSUME Reading, job' = job, NEW b, NEW r, EndRead(b, r), job = "read" => r # "ok"
  PROVE  Filled'
<1>1. CASE job = "read"
  <2>1. pc' = "idle" /\ ret' # "ok"
    BY <1>1 DEF EndRead, Return
  <2> QED BY <2>1, FilledElsewhere DEF Reading, Marking
<1>2. CASE job # "read"
  <2>1. pc' = "erase"
    BY <1>2 DEF EndRead, Goto
  <2> QED BY <2>1, FilledElsewhere DEF Reading, Marking
<1> QED BY <1>1, <1>2

LEMMA ReadFilled ==
  ASSUME TypeInv, WorkInv, FillInv, NEW outcome, EnableEcc(outcome) \/ ReadPage(outcome), Sound'
  PROVE  Filled'
<1>1. Sound /\ AtWork /\ Filled /\ UNCHANGED <<mem, op, late, first, job>>
  BY ReadWork DEF FillInv
<1>2. outcome # "misread"
  BY DEF EnableEcc, ReadPage, Sound
<1>3. CASE EnableEcc(outcome)
  <2>1. /\ pc = "ecc" /\ Reading /\ addr' = addr /\ outcome \in {"ok", "error"} /\ (outcome = "ok" => ~Busy)
        /\ \/ EndRead(buf, IF outcome = "error" THEN "error" ELSE "ok")
           \/ pc' = "page" /\ UNCHANGED <<readAddr, mode, buf>>
    BY <1>2, <1>3 DEF EnableEcc, Goto, readVars, Reading
  <2>2. readAddr = From /\ mode # "next" /\ (job = "read" => addr = first)
    BY <1>1, <2>1 DEF Filled
  <2>3. CASE pc' = "page" /\ UNCHANGED <<readAddr, mode, buf>>
    <3>1. From' = From /\ Reading'
      BY <1>1, <2>1, <2>3 DEF From, BlockBase, Block, Reading
    <3>2. Delivered(buf, From, readAddr)'
      BY <1>1, <2>1, <2>3, <3>1 DEF Filled, Delivered
    <3> QED BY <1>1, <2>1, <2>2, <2>3, <3>1, <3>2 DEF Filled
  <2>4. CASE EndRead(buf, IF outcome = "error" THEN "error" ELSE "ok") /\ (outcome = "error" \/ job # "read")
    <3> DEFINE r == IF outcome = "error" THEN "error" ELSE "ok"
    <3>1. EndRead(buf, r) /\ (job = "read" => r # "ok")
      BY <2>4
    <3> HIDE DEF r
    <3> QED BY <1>1, <2>1, <3>1, EndReadFilled
  <2>5. CASE EndRead(buf, "ok") /\ outcome = "ok" /\ job = "read"
    <3>1. pc' = "idle" /\ job' = "read" /\ ~late' /\ ~Reading'
      BY <1>1, <2>1, <2>5 DEF EndRead, Return, AtWork, Late, Reading, Marking
    <3>2. first \in Nat /\ addr' = first /\ first' = first /\ first \in Addr
      <4>1. first = readAddr
        BY <2>2, <2>5 DEF From
      <4>2. readAddr \in Addr
        BY <2>1 DEF TypeInv, CallInv, ReadExtent
      <4> QED BY <1>1, <2>1, <2>2, <2>5, <4>1, <4>2, BlockFacts
    <3>3. addr' <= ChipSize
      BY <3>2, Sizes, SMT DEF Addr
    <3>4. Delivered(buf, first, addr)'
      <4>1. \A x \in Addr : ~(first <= x /\ x < first)
        BY <3>2, Sizes, SMT DEF Addr
      <4> QED BY <3>2, <4>1 DEF Delivered
    <3> QED BY <3>1, <3>3, <3>4 DEF Filled
  <2> QED BY <2>1, <2>3, <2>4, <2>5
<1>4. CASE ReadPage(outcome)
  <2>1. pc = "page" /\ Reading
    BY <1>4 DEF ReadPage, Reading
  <2>2. \/ EndRead(buf, "error")
        \/ Condemn(Current) /\ UNCHANGED <<callVars, readVars, buf>>
        \/ FetchPage(TRUE) /\ ~Uncorrectable
    <3>1. outcome = "error" \/ lut[Current] => EndRead(buf, "error")
      BY <1>4 DEF ReadPage
    <3>2. CASE ~lut[Current] /\ outcome = "nostatus"
      BY <1>4, <3>2 DEF ReadPage
    <3>3. CASE ~lut[Current] /\ outcome = "ok" /\ Uncorrectable
      BY <1>4, <3>3 DEF ReadPage
    <3>4. CASE ~lut[Current] /\ outcome = "ok" /\ ~Uncorrectable
      BY <1>4, <3>4 DEF ReadPage
    <3>5. outcome \in {"ok", "error", "nostatus"}
      BY <1>2, <1>4 DEF ReadPage
    <3> QED BY <3>1, <3>2, <3>3, <3>4, <3>5
  <2>3. CASE EndRead(buf, "error")
    BY <1>1, <2>1, <2>3, EndReadFilled
  <2>4. CASE Condemn(Current) /\ UNCHANGED <<callVars, readVars, buf>>
    <3>1. pc' = "mark" /\ UNCHANGED <<addr, readAddr, buf>>
      BY <2>4 DEF Condemn, Goto, callVars, readVars
    <3>2. From' = From
      BY <1>1, <3>1 DEF From, BlockBase, Block
    <3>3. Delivered(buf, From, readAddr)'
      BY <1>1, <2>1, <3>1, <3>2 DEF Filled, Delivered
    <3> QED BY <1>1, <2>1, <3>1, <3>3 DEF Filled
  <2>5. CASE FetchPage(TRUE) /\ ~Uncorrectable
    <3>1. PICK b \in [Addr -> Content] :
           /\ Delivered(b, From, readAddr + ReadLen)
           /\ readLength = ReadLen =>
                EndRead(b, "ok") /\ addr' = IF job = "read" THEN readAddr + ReadLen ELSE addr
           /\ readLength # ReadLen =>
                /\ pc' = "page" /\ buf' = b /\ readAddr' = readAddr + ReadLen
                /\ mode' = "next" => register' = readAddr' \div PageSize
                /\ UNCHANGED <<addr, length, index, marker, lost>>
      BY <1>1, <2>1, <2>5, FetchDelivers, Zenon
    <3>2. CASE readLength # ReadLen
      <4>1. /\ pc' = "page" /\ buf' = b /\ readAddr' = readAddr + ReadLen
            /\ mode' = "next" => register' = readAddr' \div PageSize
            /\ addr' = addr
        BY <3>1, <3>2
      <4>2. From' = From
        BY <1>1, <4>1 DEF From, BlockBase, Block
      <4>3. Delivered(buf, From, readAddr)'
        BY <1>1, <3>1, <4>1, <4>2 DEF Delivered
      <4> QED BY <1>1, <2>1, <4>1, <4>3 DEF Filled
    <3>3. CASE readLength = ReadLen /\ job # "read"
      BY <1>1, <2>1, <3>1, <3>3, EndReadFilled
    <3>4. CASE readLength = ReadLen /\ job = "read"
      <4>1. pc' = "idle" /\ buf' = b /\ addr' = readAddr + ReadLen /\ job' = "read"
        BY <1>1, <3>1, <3>4 DEF EndRead, Return
      <4>2. ~late'
        BY <1>1, <2>1 DEF AtWork, Late
      <4>3. addr' <= ChipSize
        BY <2>1, <3>4, <4>1, FetchFacts
      <4>4. Delivered(buf, first, addr)'
        BY <1>1, <3>1, <3>4, <4>1 DEF Delivered, From
      <4>5. ~Reading'
        BY <4>1 DEF Reading, Marking
      <4> QED BY <4>1, <4>2, <4>3, <4>4, <4>5 DEF Filled
    <3> QED BY <3>2, <3>3, <3>4
  <2> QED BY <2>2, <2>3, <2>4, <2>5
<1> QED BY <1>3, <1>4

\* After a marker: a read gives up, everything else does not read.
LEMMA AfterMarkFilled ==
  ASSUME TypeInv, Marking, AfterMark, job' = job
  PROVE  Filled'
<1>1. /\ CallType /\ Places /\ ~(readLength > 0 /\ readLength = 0) /\ (readLength > 0 \/ readLength = 0)
  BY SMT DEF TypeInv, CallInv, CallType
<1>2. CASE marker = "bad" /\ readLength > 0
  <2>1. EndRead(buf, "error") /\ Reading
    BY <1>1, <1>2 DEF AfterMark, Reading
  <2> QED BY <2>1, EndReadFilled
<1>3. CASE marker = "good" \/ readLength = 0
  <2>1. pc' \in {"idle", "program"}
    BY <1>1, <1>3 DEF AfterMark, Return, Goto, CallType
  <2>2. job # "read"
    <3>1. job = "read" => Reading /\ marker = "bad"
      BY <1>1 DEF Places
    <3>2. Reading => readLength > 0
      BY DEF Reading, Marking
    <3> QED BY <1>1, <1>3, <3>1, <3>2
  <2> QED BY <2>1, <2>2, FilledElsewhere DEF Reading, Marking
<1> QED BY <1>1, <1>2, <1>3 DEF CallType

LEMMA SendFilled ==
  ASSUME TypeInv, TableInv, WorkInv, NEW outcome, Erase(outcome) \/ Program(outcome) \/ Mark(outcome), Sound'
  PROVE  Filled'
<1>1. CASE Erase(outcome)
  <2>1. pc' \in {"erasing", "idle"} /\ (pc' = "idle" => ret' = "error")
    BY <1>1, EraseWork
  <2> QED BY <2>1, FilledElsewhere DEF Reading, Marking
<1>2. CASE Program(outcome)
  <2>1. pc' \in {"programming", "idle"} /\ (pc' = "idle" => ret' = "error")
    BY <1>2, ProgramWork
  <2> QED BY <2>1, FilledElsewhere DEF Reading, Marking
<1>3. CASE Mark(outcome)
  <2>1. Marking /\ job' = job
    BY <1>3 DEF Mark, Marking
  <2>2. CASE AfterMark
    BY <2>1, <2>2, AfterMarkFilled
  <2>3. CASE pc' = "marking" /\ marker = "good" /\ UNCHANGED <<readVars, marker>>
    <3>1. ~Reading
      BY <2>1, <2>3 DEF TypeInv, CallInv, Places
    <3>2. ~Reading'
      BY <2>1, <2>3, <3>1 DEF Reading, Marking, readVars
    <3> QED BY <2>3, <3>2, FilledElsewhere
  <2> QED BY <1>3, <2>2, <2>3, MarkWork
<1> QED BY <1>1, <1>2, <1>3

LEMMA WaitFilled ==
  ASSUME TypeInv, WorkInv, NEW outcome, Wait(outcome), Sound'
  PROVE  Filled'
<1>1. CallType /\ Places /\ ReadExtent /\ job' = job
  BY WaitWork DEF TypeInv, CallInv
<1>2. CASE pc' = "idle" /\ ret' = "error"
  BY <1>2, FilledElsewhere DEF Reading, Marking
<1>3. CASE pc \in {"erasing", "programming"} /\ pc' = "mark" /\ readLength' = readLength
  <2>1. readLength = 0 /\ ~(0 > 0)
    BY <1>1, <1>3, SMT DEF ReadExtent, Reading, Marking
  <2>2. ~Reading'
    BY <1>3, <2>1 DEF Reading, Marking
  <2> QED BY <1>3, <2>2, FilledElsewhere
<1>4. CASE pc = "programming" /\ Advance
  <2>1. job \in {"write", "page"}
    BY <1>4, AdvanceFacts
  <2>2. CASE Return("ok") \/ Goto("program")
    <3>1. pc' \in {"idle", "program"}
      BY <2>2 DEF Return, Goto
    <3> QED BY <1>1, <2>1, <3>1, FilledElsewhere DEF Reading, Marking
  <2>3. CASE job = "write" /\ addr' \in Addr /\ length' \in Nat /\ StartBlock(addr', length')
    <3>1. PICK a \in Addr, n \in Nat : a = addr' /\ n = length'
      BY <2>3
    <3>2. StartBlock(a, n) /\ job' = "write" /\ addr' = a
      BY <1>1, <2>3, <3>1
    <3> QED BY <3>2, StartBlockFilled
  <2> QED BY <1>4, <2>2, <2>3, AdvanceFacts
<1>5. CASE pc = "marking" /\ AfterMark
  BY <1>1, <1>5, AfterMarkFilled DEF Marking
<1> QED BY <1>2, <1>3, <1>4, <1>5, WaitWork DEF Condemn, Goto, readVars

\* While pages are fetched, and after a read, the chip is quiet: what was read stays true.
LEMMA ChipFilled ==
  ASSUME TypeInv, WorkInv, FillInv, (\E fails \in BOOLEAN : Finish(fails)) \/ PowerLoss, Sound'
  PROVE  Filled'
<1>1. Sound /\ AtWork /\ Filled /\ job' = job
  BY ChipWork DEF FillInv, Finish, PowerLoss
<1>2. CASE PowerLoss
  <2>1. pc' = "idle" /\ ret' = "reset"
    BY <1>2 DEF PowerLoss, Return
  <2> QED BY <2>1, FilledElsewhere DEF Reading, Marking
<1>3. ASSUME NEW fails \in BOOLEAN, Finish(fails) PROVE Filled'
  <2>1. Busy /\ UNCHANGED <<pc, addr, first, readAddr, readLength, mode, marker, buf, register, ret>>
    BY <1>3 DEF Finish, callVars, readVars
  <2>2. pc \notin {"page", "mark"} /\ ~(pc = "idle" /\ job = "read" /\ ret = "ok")
    BY <1>1, <2>1 DEF AtWork, Late, Calm, Filled
  <2>3. pc = "marking" => ~Reading
    BY <1>1 DEF AtWork, TypeInv, CallInv, Places, Marking
  <2>4. Reading' = Reading
    BY <2>1 DEF Reading, Marking
  <2>5. CASE ~Reading
    BY <1>1, <2>1, <2>2, <2>4, <2>5, FilledElsewhere DEF Reading
  <2>6. CASE Reading
    <3>1. pc = "ecc" /\ readAddr = From /\ mode # "next" /\ readAddr \in Nat
      BY <1>1, <2>2, <2>3, <2>6 DEF Reading, Marking, Filled, TypeInv, CallInv, CallType
    <3>2. From' = From
      BY <1>1, <2>1 DEF From, BlockBase, Block
    <3>3. Delivered(buf, From, readAddr)'
      <4>1. \A x \in Addr : ~(readAddr <= x /\ x < readAddr)
        BY <3>1, Sizes, SMT DEF Addr
      <4> QED BY <2>1, <3>1, <3>2, <4>1 DEF Delivered
    <3> QED BY <1>1, <2>1, <2>4, <2>6, <3>1, <3>2, <3>3 DEF Filled
  <2> QED BY <2>5, <2>6
<1> QED BY <1>2, <1>3

LEMMA FillInductive ==
  ASSUME TypeInv, TableInv, WorkInv, FillInv, [Next]_vars
  PROVE  FillInv'
<1>1. CASE Next
  <2> SUFFICES ASSUME Sound' PROVE Filled'
    BY DEF FillInv
  <2>1. ASSUME NEW outcome, \/ EnableEcc(outcome) \/ ReadPage(outcome) \/ Wait(outcome)
                            \/ Erase(outcome) \/ Program(outcome) \/ Mark(outcome)
        PROVE  Filled'
    BY <2>1, ReadFilled, WaitFilled, SendFilled
  <2>2. ASSUME NEW a \in Nat, NEW n \in Nat, NEW force,
               Read(a, n) \/ Write(a, n) \/ ProgramPage(a, n) \/ EraseBlock(a, force)
        PROVE  Filled'
    BY <2>2, CallFilled
  <2>3. \A p, ok, sent, unread : ~Protect(p, ok, sent) /\ ~InitDriver(ok, unread)
    BY NoCall
  <2>4. 0 \in Nat
    OBVIOUS
  <2> QED BY <1>1, <2>1, <2>2, <2>3, <2>4, ChipFilled, Steps, Zenon
<1>2. CASE UNCHANGED vars
  BY <1>2 DEF vars, chipVars, callVars, readVars, ghostVars, FillInv, Sound, Filled, Delivered, From,
              Reading, Marking, BlockBase, Block
<1> QED BY <1>1, <1>2

\* No call has been made yet.
LEMMA InitSound == Init => ~Sound
BY DEF Init, Sound, Transfers

-----------------------------------------------------------------------------
(* What a write leaves on the chip.  While a block is rewritten the buffer has what the request
   leaves of it, but for the cells that could not be read. *)
Settled(a) == mem[a] = IF Done(a) THEN Data(a, calls) ELSE before[a]
Kept(a) == a \in lost \/ (~late /\ buf[a - BlockBase(addr)] = before[a])

\* The first i pages of the block have been programmed, and the rest is erased.
Programmed(i) ==
  \A a \in Cells :
    mem[a] = IF a >= BlockBase(addr) + i * PageSize THEN Erased
             ELSE IF Requested(a) THEN Data(a, calls) ELSE buf[a - BlockBase(addr)]

Writing == job = "write" /\ pc # "idle"
Rewriting == pc \in {"erase", "erasing", "program", "programming"} \/ (Marking /\ marker = "good")

\* Every block but the first is begun at its start; the blocks behind this one are done.
Begun ==
  /\ addr = first \/ addr = BlockBase(addr)
  /\ first <= addr
  /\ \A a \in lost : a < BlockBase(addr) + BlockSize
  /\ \A a \in Addr : Done(a) => ~lut[Block(a)]
Intact == ~late /\ (pc = "erase" \/ Reading) => \A a \in Cells : mem[a] = before[a]
Saved == Rewriting => \A a \in Cells : Requested(a) \/ Kept(a)
Progress ==
  /\ pc = "erasing" /\ ~Busy /\ ~failed => Programmed(0)
  /\ pc = "program" \/ (Marking /\ marker = "good") \/ (pc = "programming" /\ Busy) => Programmed(index)
  /\ pc = "programming" /\ ~Busy /\ ~failed => Programmed(index + 1)
  /\ pc = "programming" => ~lut[Block(addr)]
Course == Begun /\ Intact /\ Saved /\ Progress

Confined ==
  ~late => /\ \A a \in Addr : Block(a) # Block(addr) /\ a \notin lost => Settled(a)
           /\ job = "read" => before = mem
WriteDone == \A a \in Addr : (a \in lost \/ Settled(a)) /\ (Done(a) => ~lut[Block(a)])
Wrote ==
  /\ Confined
  /\ Writing => Course
  /\ pc = "idle" /\ job = "write" /\ ret = "ok" => WriteDone
WriteInv == Sound => Wrote

LEMMA CellFacts ==
  ASSUME addr \in Addr, NEW a \in Cells
  PROVE  /\ a \in Addr /\ a \in Nat /\ BlockBase(addr) \in Nat /\ Block(a) = Block(addr)
         /\ BlockBase(addr) <= a /\ a < BlockBase(addr) + BlockSize
         /\ a - BlockBase(addr) \in Addr /\ a - BlockBase(addr) \in Nat /\ a - BlockBase(addr) < BlockSize
         /\ BlockBase(addr) + (a - BlockBase(addr)) = a
<1> DEFINE c == BlockBase(addr)
<1>1. a \in Addr /\ a \in Nat /\ c \in Nat /\ Block(a) = Block(addr)
  BY BlockFacts DEF Cells, BlockCells
<1>2. c <= a /\ a < c + BlockSize
  BY <1>1, InBlock
<1> HIDE DEF c
<1>3. a - c \in Addr /\ a - c \in Nat /\ a - c < BlockSize /\ c + (a - c) = a
  BY <1>1, <1>2, Sizes, SMT DEF Addr
<1> QED BY <1>1, <1>2, <1>3 DEF c

\* The end of a call that has not said "ok", and steps that change neither chip nor request.
LEMMA Quit ==
  ASSUME Confined', pc' = "idle", ret' # "ok" \/ job' # "write"
  PROVE  Wrote'
BY DEF Wrote, Writing

LEMMA ConfinedKept ==
  ASSUME Confined, UNCHANGED <<mem, before, first, addr, calls, job, late>>, lost \subseteq lost'
  PROVE  Confined'
BY DEF Confined, Settled, Done, Block

\* What is done lies in other blocks.
LEMMA DoneElsewhere ==
  ASSUME addr \in Addr, addr = first \/ addr = BlockBase(addr), NEW a \in Addr, Done(a)
  PROVE  Block(a) # Block(addr)
<1>1. a \in Nat /\ addr \in Nat /\ BlockBase(addr) \in Nat /\ first <= a /\ a < addr
  BY BlockFacts DEF Done
<1>2. addr # first
  <2>1. ~(addr <= a /\ a < addr)
    BY <1>1, SMT
  <2> QED BY <1>1, <2>1
<1>3. ~(BlockBase(addr) <= a)
  <2>1. ~(addr <= a)
    BY <1>1, SMT
  <2> QED BY <1>2, <2>1
<1> QED BY <1>3, InBlock

LEMMA BegunKept ==
  ASSUME addr \in Addr, Begun, UNCHANGED <<addr, first, job>>, lost' \subseteq lost \cup Cells,
         \A b \in Blocks : b # Block(addr) => lut'[b] = lut[b]
  PROVE  Begun'
<1>1. ASSUME NEW a \in lost' PROVE a < BlockBase(addr) + BlockSize
  BY <1>1, CellFacts DEF Begun
<1>2. ASSUME NEW a \in Addr, Done(a) PROVE ~lut'[Block(a)]
  <2>1. Block(a) \in Blocks /\ Block(a) # Block(addr) /\ ~lut[Block(a)]
    BY <1>2, BlockFacts, DoneElsewhere DEF Begun
  <2> QED BY <2>1
<1>3. (BlockBase(addr))' = BlockBase(addr) /\ (\A a \in Addr : Done(a)' <=> Done(a))
  BY DEF BlockBase, Block, Done
<1>4. \A a \in Addr : Done(a)' => ~lut'[Block(a)]
  BY <1>2, <1>3
<1> QED BY <1>1, <1>3, <1>4 DEF Begun, Block

\* The next block of a write.
LEMMA StartBlockCourse ==
  ASSUME NEW a \in Addr, NEW n \in Nat, StartBlock(a, n), job' = "write", addr' = a, length' = n,
         marker' = "good", Begun', ~late' => \A x \in Cells' : mem'[x] = before'[x]
  PROVE  Course'
<1> DEFINE c == BlockBase(a)
<1>1. c \in Nat /\ a \in Nat /\ (BlockBase(addr))' = c /\ BlockSize \in Nat
  BY BlockFacts, Sizes DEF BlockBase, Block
<1>2. Intact'
  BY DEF Intact
<1>3. CASE a % BlockSize = 0 /\ n >= BlockSize /\ pc' = "erase"
  <2>1. a = c
    <3>1. a - c = 0
      BY <1>3, BlockFacts
    <3> HIDE DEF c
    <3> QED BY <1>1, <3>1, SMT
  <2>2. ASSUME NEW x \in Cells' PROVE Requested(x)'
    <3>1. x \in Addr /\ Block(x) = Block(a)
      BY <2>2 DEF Cells, BlockCells, Block
    <3>2. c <= x /\ x < c + BlockSize /\ x \in Nat
      BY <3>1, InBlock, BlockFacts
    <3> HIDE DEF c
    <3>3. a <= x /\ x < a + n
      BY <1>1, <1>3, <2>1, <3>2, SMT
    <3> QED BY <3>3 DEF Requested
  <2>3. Saved'
    BY <2>2 DEF Saved
  <2>4. Progress'
    BY <1>3 DEF Progress, Marking
  <2> QED BY <1>2, <2>3, <2>4 DEF Course
<1>4. CASE pc' = "ecc"
  BY <1>2, <1>4 DEF Course, Saved, Rewriting, Progress, Marking
<1> QED BY <1>3, <1>4 DEF StartBlock, StartRead, Goto
LEMMA CallWrites ==
  ASSUME TypeInv, NEW a \in Nat, NEW n \in Nat, NEW force,
         Read(a, n) \/ Write(a, n) \/ ProgramPage(a, n) \/ EraseBlock(a, force)
  PROVE  Wrote'
<1>1. /\ mem' = mem /\ before' = mem /\ addr' = a /\ first' = a /\ lost' = {} /\ late' = Busy
      /\ job' \in {"read", "write", "page", "erase"} /\ (job' = "write" <=> Write(a, n))
  BY DEF Read, Write, ProgramPage, EraseBlock, Call, chipVars
<1>2. \A x \in Addr : ~Done(x)'
  <2>1. \A x \in Addr : ~(a <= x /\ x < a)
    BY Sizes, SMT DEF Addr
  <2> QED BY <1>1, <2>1 DEF Done
<1>3. \A x \in Addr : Settled(x)'
  BY <1>1, <1>2 DEF Settled
<1>4. Confined' /\ WriteDone'
  BY <1>1, <1>2, <1>3 DEF Confined, WriteDone
<1>5. ASSUME Writing' PROVE Course'
  <2>1. Write(a, n) /\ pc' # "idle"
    BY <1>1, <1>5 DEF Writing
  <2>2. ~(a >= ChipSize) /\ n # 0 /\ length' = Cut(a, n) /\ marker' = marker /\ StartBlock(a, Cut(a, n)) /\ pc = "idle"
    BY <2>1 DEF Write, Call, Return
  <2>3. a \in Addr
    BY <2>2, Sizes, SMT DEF Addr
  <2>4. Cut(a, n) \in Nat
    BY <2>3, CutFacts
  <2>5. marker' = "good"
    BY <2>2 DEF TypeInv, CallInv, Places, Marking
  <2>6. Begun'
    <3>1. a <= a
      BY SMT
    <3> QED BY <1>1, <1>2, <3>1 DEF Begun
  <2>7. job' = "write"
    BY <1>1, <2>1
  <2> QED BY <1>1, <2>2, <2>3, <2>4, <2>5, <2>6, <2>7, StartBlockCourse
<1> QED BY <1>4, <1>5 DEF Wrote

\* A block is rewritten whether or not it could be read; what could not be read is lost.
LEMMA EndReadCourse ==
  ASSUME addr \in Addr, job = "write", NEW b, NEW r, EndRead(b, r),
         UNCHANGED <<mem, before, first, calls, addr, job, late>>,
         Begun, \A x \in Blocks : x # Block(addr) => lut'[x] = lut[x],
         ~late => \A a \in Cells : mem[a] = before[a],
         \A a \in Cells : \/ Requested(a) \/ (r # "ok" /\ a >= readAddr)
                          \/ (~late /\ b[a - BlockBase(addr)] = before[a])
  PROVE  Course' /\ pc' = "erase" /\ lost \subseteq lost'
<1>1. /\ pc' = "erase" /\ buf' = Merged(b) /\ length' = length
      /\ lost' = IF r = "ok" THEN lost
                 ELSE lost \cup {a \in Cells : a >= readAddr /\ ~Requested(a)}
  BY DEF EndRead, Goto, Cells
<1>2. lost \subseteq lost' /\ lost' \subseteq lost \cup Cells
  BY <1>1
<1>3. Begun'
  BY <1>2, BegunKept
<1>4. Cells' = Cells /\ (BlockBase(addr))' = BlockBase(addr) /\ (\A a : Requested(a)' <=> Requested(a))
  BY <1>1 DEF Cells, BlockCells, BlockBase, Block, Requested
<1>5. Intact'
  BY <1>4 DEF Intact
<1>6. ASSUME NEW a \in Cells, ~Requested(a) PROVE Kept(a)'
  <2>1. CASE r # "ok" /\ a >= readAddr
    BY <1>1, <1>6, <2>1 DEF Kept
  <2>2. CASE ~late /\ b[a - BlockBase(addr)] = before[a]
    <3> DEFINE k == a - BlockBase(addr)
    <3>1. k \in Addr /\ BlockBase(addr) + k = a
      BY CellFacts
    <3> HIDE DEF k
    <3>2. Merged(b)[k] = b[k]
      BY <1>6, <3>1 DEF Merged
    <3> QED BY <1>1, <1>4, <2>2, <3>2 DEF Kept, k
  <2> QED BY <1>6, <2>1, <2>2
<1>7. Saved'
  BY <1>4, <1>6 DEF Saved
<1>8. Progress'
  BY <1>1 DEF Progress, Marking
<1> QED BY <1>1, <1>2, <1>3, <1>5, <1>7, <1>8 DEF Course

\* What has been delivered of the block, and what has not.
LEMMA ReadCells ==
  ASSUME TypeInv, job = "write", addr \in Addr, Intact, Reading, ~late, NEW b, Delivered(b, From, readAddr)
  PROVE  \A a \in Cells : a >= readAddr \/ b[a - BlockBase(addr)] = before[a]
<1>1. TAKE a \in Cells
<1>2. a \in Addr /\ a \in Nat /\ BlockBase(addr) <= a /\ readAddr \in Nat
  BY CellFacts DEF TypeInv, CallInv, CallType
<1>3. CASE a < readAddr
  <2>1. b[a - BlockBase(addr)] = mem[a]
    BY <1>2, <1>3 DEF Delivered, From
  <2> QED BY <2>1 DEF Intact
<1>4. a >= readAddr \/ a < readAddr
  BY <1>2, SMT
<1> QED BY <1>3, <1>4
LEMMA ReadWrites ==
  ASSUME TypeInv, WorkInv, FillInv, WriteInv, NEW outcome, EnableEcc(outcome) \/ ReadPage(outcome), Sound'
  PROVE  Wrote'
<1>1. Sound /\ AtWork /\ Filled /\ Wrote /\ UNCHANGED <<mem, op, late, before, first, job, calls>>
  BY ReadWork DEF FillInv, WriteInv, EnableEcc, ReadPage, ghostVars
<1>2. outcome # "misread"
  BY DEF EnableEcc, ReadPage, Sound
<1>3. /\ pc \in {"ecc", "page"} /\ Reading /\ ~Idle /\ job \in {"read", "write"}
      /\ CallType /\ ReadExtent /\ Extent /\ (pc = "page" => ~late) /\ marker = "good"
  BY <1>1 DEF EnableEcc, ReadPage, Reading, Idle, TypeInv, CallInv, Places, Marking, AtWork, Late
<1>4. CASE job = "read"
  <2>1. Confined'
    BY <1>1, <1>4 DEF Wrote, Confined, Settled, Done
  <2> QED BY <1>1, <1>4, <2>1 DEF Wrote, Writing
<1>5. CASE job = "write"
  <2>1. Confined /\ Course /\ Begun /\ Intact /\ addr \in Addr
    BY <1>1, <1>3, <1>5 DEF Wrote, Writing, Course, Extent
  <2>2. ~late => \A a \in Cells : mem[a] = before[a]
    BY <1>3, <2>1 DEF Intact
  <2>3. SUFFICES Course' /\ pc' # "idle" /\ lost \subseteq lost' /\ addr' = addr
    BY <1>1, <2>1, ConfinedKept DEF Wrote
  <2>4. CASE /\ pc' \in {"page", "mark"} /\ UNCHANGED <<addr, length, lost>> /\ (pc' = "mark" => marker' = "bad")
             /\ \A x \in Blocks : x # Block(addr) => lut'[x] = lut[x]
    <3>1. Begun'
      BY <1>1, <2>1, <2>4, BegunKept
    <3>2. Intact'
      BY <1>1, <2>2, <2>4 DEF Intact, Cells, BlockCells, Block
    <3>3. Saved' /\ Progress'
      BY <2>4 DEF Saved, Rewriting, Progress, Marking
    <3> QED BY <2>4, <3>1, <3>2, <3>3 DEF Course
  <2>5. ASSUME NEW b, NEW r, EndRead(b, r), UNCHANGED <<addr, lut>>,
               \A a \in Cells : (r # "ok" /\ a >= readAddr) \/ (~late /\ b[a - BlockBase(addr)] = before[a])
        PROVE  Course' /\ pc' # "idle" /\ lost \subseteq lost' /\ addr' = addr
    BY <1>1, <1>5, <2>1, <2>2, <2>5, EndReadCourse
  <2>6. CASE EnableEcc(outcome)
    <3>1. readAddr = BlockBase(addr) /\ readLength # 0
      <4>1. readAddr = BlockBase(addr)
        BY <1>1, <1>5, <2>6 DEF EnableEcc, Filled, From
      <4>2. readAddr + readLength = BlockBase(addr) + BlockSize
        BY <1>3, <1>5 DEF ReadExtent
      <4>3. BlockBase(addr) \in Nat /\ readLength \in Nat
        BY <1>3, <2>1, BlockFacts DEF CallType
      <4> QED BY <4>1, <4>2, <4>3, Sizes, SMT
    <3>2. CASE outcome = "error"
      <4>1. EndRead(buf, "error") /\ UNCHANGED <<addr, lut>>
        BY <2>6, <3>2 DEF EnableEcc
      <4>2. \A a \in Cells : a >= readAddr
        BY <2>1, <3>1, CellFacts
      <4> QED BY <2>5, <4>1, <4>2
    <3>3. CASE outcome # "error"
      <4>1. pc' = "page" /\ UNCHANGED <<addr, length, lost, lut>>
        BY <2>6, <3>1, <3>3 DEF EnableEcc, Goto
      <4> QED BY <2>4, <4>1
    <3> QED BY <3>2, <3>3
  <2>7. CASE ReadPage(outcome)
    <3>1. pc = "page" /\ ~late /\ Delivered(buf, From, readAddr) /\ Current = Block(addr)
      BY <1>1, <1>3, <1>5, <2>7 DEF ReadPage, Filled, Current
    <3>2. \/ EndRead(buf, "error") /\ UNCHANGED <<addr, lut>>
          \/ Condemn(Current) /\ UNCHANGED <<callVars, readVars, buf, lost>>
          \/ FetchPage(TRUE) /\ ~Uncorrectable
      <4>1. outcome = "error" \/ lut[Current] => EndRead(buf, "error") /\ UNCHANGED <<addr, lut>>
        BY <2>7 DEF ReadPage
      <4>2. CASE ~lut[Current] /\ outcome = "nostatus"
        BY <2>7, <4>2 DEF ReadPage
      <4>3. CASE ~lut[Current] /\ outcome = "ok" /\ Uncorrectable
        BY <2>7, <4>3 DEF ReadPage
      <4>4. CASE ~lut[Current] /\ outcome = "ok" /\ ~Uncorrectable
        BY <2>7, <4>4 DEF ReadPage
      <4>5. outcome \in {"ok", "error", "nostatus"}
        BY <1>2, <2>7 DEF ReadPage
      <4> QED BY <4>1, <4>2, <4>3, <4>4, <4>5
    <3>3. CASE EndRead(buf, "error") /\ UNCHANGED <<addr, lut>>
      <4>1. \A a \in Cells : a >= readAddr \/ buf[a - BlockBase(addr)] = before[a]
        BY <1>3, <1>5, <2>1, <3>1, ReadCells
      <4> QED BY <2>5, <3>1, <3>3, <4>1
    <3>4. CASE Condemn(Current) /\ UNCHANGED <<callVars, readVars, buf, lost>>
      <4>1. /\ pc' = "mark" /\ marker' = "bad" /\ UNCHANGED <<addr, length, lost>>
            /\ \A x \in Blocks : x # Block(addr) => lut'[x] = lut[x]
        BY <3>1, <3>4 DEF Condemn, Goto, callVars, TypeInv, DriverType
      <4> QED BY <2>4, <4>1
    <3>5. CASE FetchPage(TRUE) /\ ~Uncorrectable
      <4>1. PICK b \in [Addr -> Content] :
              /\ Delivered(b, From, readAddr + ReadLen)
              /\ readLength = ReadLen =>
                   EndRead(b, "ok") /\ addr' = IF job = "read" THEN readAddr + ReadLen ELSE addr
              /\ readLength # ReadLen =>
                   /\ pc' = "page" /\ buf' = b /\ readAddr' = readAddr + ReadLen
                   /\ mode' = "next" => register' = readAddr' \div PageSize
                   /\ UNCHANGED <<addr, length, index, marker, lost>>
        BY <1>1, <3>1, <3>5, FetchDelivers, Zenon
      <4>2. lut' = lut
        BY <3>5 DEF FetchPage
      <4>3. CASE readLength # ReadLen
        <5>1. pc' = "page" /\ UNCHANGED <<addr, length, lost, lut>>
          BY <4>1, <4>2, <4>3
        <5> QED BY <2>4, <5>1
      <4>4. CASE readLength = ReadLen
        <5>1. EndRead(b, "ok") /\ UNCHANGED <<addr, lut>> /\ readAddr + ReadLen = BlockBase(addr) + BlockSize
          BY <1>3, <1>5, <4>1, <4>2, <4>4 DEF ReadExtent
        <5>2. \A a \in Cells : b[a - BlockBase(addr)] = before[a]
          <6> SUFFICES ASSUME NEW a \in Cells PROVE b[a - BlockBase(addr)] = before[a]
            OBVIOUS
          <6>1. a \in Addr /\ BlockBase(addr) <= a /\ a < BlockBase(addr) + BlockSize /\ From = BlockBase(addr)
            BY <1>5, <2>1, CellFacts DEF From
          <6>2. b[a - From] = mem[a]
            BY <4>1, <5>1, <6>1 DEF Delivered
          <6> QED BY <2>2, <3>1, <6>1, <6>2
        <5> QED BY <2>5, <3>1, <5>1, <5>2
      <4> QED BY <4>3, <4>4
    <3> QED BY <3>2, <3>3, <3>4, <3>5
  <2> QED BY <2>6, <2>7
<1> QED BY <1>3, <1>4, <1>5
LEMMA EraseWrites ==
  ASSUME TypeInv, WorkInv, WriteInv, NEW outcome, Erase(outcome), Sound'
  PROVE  Wrote'
<1>1. /\ Wrote /\ UNCHANGED <<mem, late, before, first, job, addr, calls, buf, lost, lut>>
      /\ pc = "erase" /\ pc' \in {"erasing", "idle"} /\ (pc' = "idle" => ret' = "error")
      /\ pc' = "erasing" => Busy'
  BY EraseWork DEF WriteInv, Erase, ghostVars
<1>2. Confined'
  BY <1>1, ConfinedKept DEF Wrote
<1>3. CASE pc' = "idle"
  BY <1>1, <1>2, <1>3, Quit
<1>4. CASE pc' = "erasing" /\ job # "write"
  BY <1>1, <1>2, <1>4 DEF Wrote, Writing
<1>5. CASE pc' = "erasing" /\ job = "write"
  <2>1. Course /\ addr \in Addr /\ length' = length
    <3>1. Course /\ ~Idle
      BY <1>1, <1>5 DEF Wrote, Writing, Idle
    <3>2. length' = length
      BY <1>5 DEF Erase, Return, Goto
    <3> QED BY <1>5, <3>1, <3>2 DEF TypeInv, CallInv, Extent
  <2>2. Begun'
    BY <1>1, <2>1, BegunKept DEF Course
  <2>3. Saved'
    BY <1>1, <1>5, <2>1 DEF Course, Saved, Rewriting, Kept, Cells, BlockCells, BlockBase, Block, Requested
  <2>4. Intact' /\ Progress'
    BY <1>1, <1>5 DEF Intact, Reading, Progress, Marking
  <2> QED BY <1>2, <1>5, <2>2, <2>3, <2>4 DEF Wrote, Course
<1> QED BY <1>1, <1>3, <1>4, <1>5

LEMMA ProgramWrites ==
  ASSUME TypeInv, WorkInv, WriteInv, NEW outcome, Program(outcome), Sound'
  PROVE  Wrote'
<1>1. /\ Wrote /\ UNCHANGED <<mem, late, before, first, job, addr, calls, lost>>
      /\ pc = "program" /\ pc' \in {"programming", "idle"} /\ (pc' = "idle" => ret' = "error")
      /\ pc' = "programming" => /\ Busy' /\ ~lut[Current] /\ UNCHANGED <<lut, buf, index, length>>
  BY ProgramWork DEF WriteInv, Program, ghostVars
<1>2. Confined'
  BY <1>1, ConfinedKept DEF Wrote
<1>3. CASE pc' = "idle"
  BY <1>1, <1>2, <1>3, Quit
<1>4. CASE pc' = "programming" /\ job # "write"
  BY <1>1, <1>2, <1>4 DEF Wrote, Writing
<1>5. CASE pc' = "programming" /\ job = "write"
  <2>1. Course /\ addr \in Addr /\ Current = Block(addr)
    <3>1. Course /\ ~Idle
      BY <1>1, <1>5 DEF Wrote, Writing, Idle
    <3> QED BY <1>5, <3>1 DEF TypeInv, CallInv, Extent, Current
  <2>2. Begun'
    BY <1>1, <1>5, <2>1, BegunKept DEF Course
  <2>3. Saved'
    BY <1>1, <1>5, <2>1 DEF Course, Saved, Rewriting, Kept, Cells, BlockCells, BlockBase, Block, Requested
  <2>4. Intact'
    BY <1>1, <1>5 DEF Intact, Reading, Marking
  <2>5. Progress'
    <3>1. Programmed(index)
      BY <1>1, <2>1 DEF Course, Progress
    <3>2. Programmed(index)'
      BY <1>1, <1>5, <3>1 DEF Programmed, Requested, Cells, BlockCells, BlockBase, Block
    <3> QED BY <1>1, <1>5, <2>1, <3>2 DEF Progress, Marking, Block
  <2> QED BY <1>2, <1>5, <2>2, <2>3, <2>4, <2>5 DEF Wrote, Course
<1> QED BY <1>1, <1>3, <1>4, <1>5

\* After a marker: the block is given up, or its pages are programmed.
LEMMA AfterMarkWrites ==
  ASSUME TypeInv, AtWork, Filled, Wrote, Marking, AfterMark,
         UNCHANGED <<mem, before, first, calls, addr, job, late>>,
         \A x \in Blocks : x # Current => lut'[x] = lut[x]
  PROVE  Wrote'
<1>1. /\ Confined /\ ~Idle /\ ~late /\ CallType /\ Places
      /\ readLength > 0 <=> readLength # 0
  BY SMT DEF Wrote, Idle, Marking, AtWork, Late, TypeInv, CallInv, CallType
<1>2. CASE pc' = "idle" /\ lost' = lost /\ (ret' # "ok" \/ job # "write")
  <2>1. Confined'
    BY <1>1, <1>2, ConfinedKept
  <2> QED BY <1>2, <2>1, Quit
<1>3. CASE marker = "bad" /\ readLength > 0
  <2>1. EndRead(buf, "error") /\ Reading /\ job \in {"read", "write"}
    BY <1>1, <1>3 DEF AfterMark, Reading, Places
  <2>2. CASE job = "read"
    BY <1>2, <2>1, <2>2 DEF EndRead, Return
  <2>3. CASE job = "write"
    <3>1. Course /\ addr \in Addr /\ Delivered(buf, From, readAddr) /\ Current = Block(addr)
      BY <1>1, <2>1, <2>3 DEF Wrote, Writing, Idle, TypeInv, CallInv, Extent, Filled, Current
    <3>2. \A a \in Cells : mem[a] = before[a]
      BY <1>1, <2>1, <3>1 DEF Course, Intact
    <3>3. \A a \in Cells : a >= readAddr \/ buf[a - BlockBase(addr)] = before[a]
      BY <1>1, <2>1, <2>3, <3>1, ReadCells DEF Course
    <3>4. Course' /\ pc' = "erase" /\ lost \subseteq lost'
      BY <1>1, <2>1, <2>3, <3>1, <3>2, <3>3, EndReadCourse DEF Course
    <3>5. Confined'
      BY <1>1, <3>4, ConfinedKept
    <3> QED BY <3>4, <3>5 DEF Wrote
  <2> QED BY <2>1, <2>2, <2>3
<1>4. CASE marker = "bad" /\ readLength = 0
  BY <1>1, <1>2, <1>4 DEF AfterMark, Return
<1>5. CASE marker = "good" /\ job = "erase"
  BY <1>1, <1>2, <1>5 DEF AfterMark, Return
<1>6. CASE marker = "good" /\ job # "erase"
  <2>1. /\ pc' = "program" /\ UNCHANGED <<length, index, buf, lost>> /\ job = "write"
    BY <1>1, <1>6 DEF AfterMark, Goto, Places
  <2>2. Course /\ addr \in Addr /\ Current = Block(addr)
    BY <1>1, <2>1 DEF Wrote, Writing, Idle, TypeInv, CallInv, Extent, Current
  <2>3. Begun'
    BY <2>1, <2>2, BegunKept DEF Course
  <2>4. Saved'
    BY <1>6, <2>1, <2>2 DEF Course, Saved, Rewriting, Kept, Cells, BlockCells, BlockBase, Block, Requested
  <2>5. Intact'
    BY <2>1 DEF Intact, Reading, Marking
  <2>6. Progress'
    <3>1. Programmed(index)
      BY <1>6, <2>2 DEF Course, Progress
    <3>2. Programmed(index)'
      BY <2>1, <3>1 DEF Programmed, Requested, Cells, BlockCells, BlockBase, Block
    <3> QED BY <2>1, <3>2 DEF Progress, Marking
  <2>7. Confined'
    BY <1>1, <2>1, ConfinedKept
  <2> QED BY <2>1, <2>3, <2>4, <2>5, <2>6, <2>7 DEF Wrote, Course
<1> QED BY <1>1, <1>3, <1>4, <1>5, <1>6 DEF CallType

LEMMA MarkWrites ==
  ASSUME TypeInv, TableInv, WorkInv, FillInv, WriteInv, NEW outcome, Mark(outcome), Sound'
  PROVE  Wrote'
<1>1. /\ AtWork /\ Filled /\ Wrote /\ Marking /\ ~Idle /\ UNCHANGED <<mem, before, first, calls, addr, job, late, lut>>
      /\ pc = "mark"
      /\ \/ AfterMark
         \/ pc' = "marking" /\ marker = "good" /\ UNCHANGED <<length, index, readVars, marker, buf, lost>>
  BY MarkWork DEF FillInv, WriteInv, Mark, ghostVars, Marking, Idle
<1>2. CASE AfterMark
  BY <1>1, <1>2, AfterMarkWrites
<1>3. CASE pc' = "marking" /\ marker = "good" /\ UNCHANGED <<length, index, readVars, marker, buf, lost>>
  <2>1. Confined'
    BY <1>1, <1>3, ConfinedKept DEF Wrote
  <2>2. ASSUME job = "write" PROVE Course'
    <3>1. Course /\ addr \in Addr
      BY <1>1, <2>2 DEF Wrote, Writing, Idle, TypeInv, CallInv, Extent
    <3>2. Begun'
      BY <1>1, <1>3, <3>1, BegunKept DEF Course
    <3>3. Saved'
      BY <1>1, <1>3, <3>1 DEF Course, Saved, Rewriting, Kept, Cells, BlockCells, BlockBase, Block, Requested
    <3>4. Intact'
      <4>1. ~Reading
        BY <1>1, <1>3 DEF TypeInv, CallInv, Places
      <4> QED BY <1>1, <1>3, <4>1 DEF Intact, Reading, Marking, readVars
    <3>5. Progress'
      <4>1. Programmed(index)
        BY <1>1, <1>3, <3>1 DEF Course, Progress
      <4>2. Programmed(index)'
        BY <1>1, <1>3, <4>1 DEF Programmed, Requested, Cells, BlockCells, BlockBase, Block
      <4> QED BY <1>3, <4>2 DEF Progress
    <3> QED BY <3>2, <3>3, <3>4, <3>5 DEF Course
  <2> QED BY <1>1, <1>3, <2>1, <2>2 DEF Wrote, Writing
<1> QED BY <1>1, <1>2, <1>3
\* The last page of a block has been programmed: the request is where it belongs, up to e.
LEMMA BlockDone ==
  ASSUME TypeInv, addr \in Addr, job = "write", pc = "programming", ~Busy, ~failed, ~late,
         Course, Confined, index + 1 = NPages, UNCHANGED <<mem, before, first, calls, job>>,
         NEW e \in Nat, addr' = e, e <= addr + length, e <= BlockBase(addr) + BlockSize,
         e = addr + length \/ e = BlockBase(addr) + BlockSize
  PROVE  \A a \in Addr : (a \in lost \/ Settled(a)') /\ (Done(a)' => ~lut[Block(a)])
<1> DEFINE c == BlockBase(addr)
<1>1. /\ first \in Nat /\ length \in Nat /\ addr \in Nat /\ c \in Nat /\ c <= addr /\ first <= addr
      /\ addr = first \/ addr = c
      /\ e <= addr + length /\ e <= c + BlockSize /\ (e = addr + length \/ e = c + BlockSize)
      /\ addr + length \in Nat /\ BlockSize \in Nat
  <2>1. length \in Nat /\ addr \in Nat /\ first \in Nat
    BY DEF TypeInv, CallInv, CallType, GhostType
  <2>2. addr + length \in Nat
    BY <2>1, SMT
  <2> QED BY <2>1, <2>2, BlockFacts, Sizes DEF Course, Begun
<1>2. \A a : Done(a)' <=> first <= a /\ a < e
  BY DEF Done
<1>3. TAKE a \in Addr
<1>4. a \in Nat
  BY BlockFacts
<1>5. CASE Block(a) = Block(addr)
  <2>1. a \in Cells /\ c <= a /\ a < c + BlockSize
    BY <1>5, InBlock DEF Cells, BlockCells
  <2>2. mem[a] = IF Requested(a) THEN Data(a, calls) ELSE buf[a - c]
    <3>1. (index + 1) * PageSize = BlockSize /\ Programmed(index + 1)
      <4>1. index \in 0 .. NPages - 1
        BY DEF TypeInv, CallInv, CallType
      <4> QED BY <4>1, PageInBlock DEF Course, Progress
    <3>2. ~(a >= c + BlockSize)
      <4> HIDE DEF c
      <4> QED BY <1>1, <1>4, <2>1, SMT
    <3> QED BY <2>1, <3>1, <3>2 DEF Programmed
  <2>3. CASE Requested(a)
    <3>1. first <= a /\ a < e
      <4> HIDE DEF c
      <4> QED BY <1>1, <1>4, <2>1, <2>3, SMT DEF Requested
    <3>2. ~lut[Block(a)]
      BY <1>5 DEF Course, Progress
    <3> QED BY <1>2, <2>2, <2>3, <3>1, <3>2 DEF Settled
  <2>4. CASE ~Requested(a)
    <3>1. ~(first <= a /\ a < e)
      <4> HIDE DEF c
      <4> QED BY <1>1, <1>4, <2>1, <2>4, SMT DEF Requested
    <3>2. a \in lost \/ buf[a - c] = before[a]
      BY <2>1, <2>4 DEF Course, Saved, Rewriting, Kept
    <3> QED BY <1>2, <2>2, <2>4, <3>1, <3>2 DEF Settled
  <2> QED BY <2>3, <2>4
<1>6. CASE Block(a) # Block(addr)
  <2>1. ~(c <= a /\ a < c + BlockSize)
    BY <1>6, InBlock
  <2>2. Done(a)' <=> Done(a)
    <3>1. (first <= a /\ a < e) <=> (first <= a /\ a < addr)
      <4>1. addr <= e
        <5> HIDE DEF c
        <5>1. addr < c + BlockSize
          BY BlockFacts DEF c
        <5> QED BY <1>1, <5>1, SMT
      <4> HIDE DEF c
      <4> QED BY <1>1, <1>4, <2>1, <4>1, SMT
    <3> QED BY <1>2, <3>1 DEF Done
  <2>3. a \in lost \/ Settled(a)
    BY <1>6 DEF Confined
  <2>4. Settled(a)' <=> Settled(a)
    BY <2>2 DEF Settled
  <2>5. Done(a) => ~lut[Block(a)]
    BY DEF Course, Begun
  <2> QED BY <2>2, <2>3, <2>4, <2>5
<1> QED BY <1>5, <1>6

LEMMA AdvanceWrites ==
  ASSUME TypeInv, pc = "programming", Advance, Wrote, ~Busy, ~failed, ~late, lut' = lut,
         UNCHANGED <<mem, op, failed, late, before, first, job, calls>>
  PROVE  Wrote'
<1> DEFINE rest == BlockBase(addr) + BlockSize - addr
<1>1. /\ Confined /\ (job = "write" => Course) /\ job \in {"write", "page"} /\ addr \in Addr
      /\ BlockBase(addr) \in Nat /\ length \in Nat /\ addr \in Nat /\ BlockSize \in Nat
      /\ rest \in Nat \ {0} /\ addr + rest = BlockBase(addr) + BlockSize /\ UNCHANGED <<buf, lost>>
  BY AdvanceFacts, BlockFacts, Sizes DEF Wrote, Writing
<1>2. CASE job = "page" /\ Return("ok") /\ addr' = addr
  <2>1. Confined'
    BY <1>1, <1>2, ConfinedKept
  <2> QED BY <1>2, <2>1, Quit DEF Return
<1>3. CASE /\ job = "write" /\ index + 1 < NPages /\ index' = index + 1 /\ Goto("program")
           /\ UNCHANGED <<addr, length, readVars, marker>>
  <2>1. Course /\ pc' = "program"
    BY <1>1, <1>3 DEF Goto
  <2>2. Confined' /\ Begun'
    BY <1>1, <1>3, <2>1, ConfinedKept, BegunKept DEF Course
  <2>3. Saved'
    BY <1>1, <1>3, <2>1 DEF Course, Saved, Rewriting, Kept, Cells, BlockCells, BlockBase, Block, Requested
  <2>4. Intact'
    BY <2>1 DEF Intact, Reading, Marking
  <2>5. Progress'
    <3>1. Programmed(index + 1)
      BY <2>1 DEF Course, Progress
    <3>2. Programmed(index)'
      BY <1>1, <1>3, <3>1 DEF Programmed, Requested, Cells, BlockCells, BlockBase, Block
    <3> QED BY <2>1, <3>2 DEF Progress, Marking
  <2> QED BY <2>1, <2>2, <2>3, <2>4, <2>5 DEF Wrote, Course
<1>4. CASE job = "write" /\ index + 1 = NPages /\ length <= rest /\ addr' = addr + length /\ Return("ok")
  <2> DEFINE e == addr + length  top == BlockBase(addr) + BlockSize
  <2>1. e \in Nat /\ addr' = e /\ e <= addr + length /\ e <= top
    <3>1. addr + length <= addr + rest
      <4> HIDE DEF rest
      <4> QED BY <1>1, <1>4, SMT
    <3>2. addr + length \in Nat /\ addr + length <= addr + length
      BY <1>1, SMT
    <3> QED BY <1>1, <1>4, <3>1, <3>2
  <2>2. \A a \in Addr : (a \in lost \/ Settled(a)') /\ (Done(a)' => ~lut[Block(a)])
    BY <1>1, <1>4, <2>1, BlockDone
  <2>3. WriteDone'
    BY <1>1, <2>2 DEF WriteDone, Block
  <2>4. Confined'
    BY <1>1, <1>4, <2>2 DEF Confined, Block
  <2> QED BY <1>4, <2>3, <2>4 DEF Wrote, Writing, Return
<1>5. CASE /\ job = "write" /\ index + 1 = NPages
           /\ addr' = addr + rest /\ addr' \in Addr
           /\ length' = length - rest /\ length' \in Nat /\ length' > 0
           /\ addr' + length' <= ChipSize
           /\ index' = 0 /\ UNCHANGED marker /\ StartBlock(addr', length')
  <2> DEFINE top == BlockBase(addr) + BlockSize
  <2>1. PICK a \in Addr, n \in Nat : a = addr' /\ n = length'
    BY <1>5
  <2>2. a = top /\ top \in Nat /\ top <= addr + length /\ top <= top /\ top < ChipSize /\ addr < top
    <3>1. a = top
      BY <1>1, <1>5, <2>1
    <3>2. a \in Nat /\ a < ChipSize /\ a <= a
      BY Sizes, SMT DEF Addr
    <3>3. length - rest > 0 /\ addr + rest <= addr + length /\ addr < addr + rest
      <4> HIDE DEF rest
      <4> QED BY <1>1, <1>5, SMT
    <3> QED BY <1>1, <3>1, <3>2, <3>3
  <2>3. BlockBase(a) = a
    BY <1>1, <2>2, NextBlock
  <2>4. \A x \in Addr : (x \in lost \/ Settled(x)') /\ (Done(x)' => ~lut[Block(x)])
    BY <1>1, <1>5, <2>1, <2>2, BlockDone
  <2>5. Confined'
    BY <1>1, <1>5, <2>4 DEF Confined, Block
  <2>6. Begun'
    <3>1. first <= a
      <4>1. first <= addr /\ first \in Nat
        BY <1>1, <1>5 DEF Course, Begun, TypeInv, GhostType
      <4> HIDE DEF top
      <4> QED BY <1>1, <2>2, <4>1, SMT
    <3>2. \A x \in lost' : x < BlockBase(a) + BlockSize
      <4> SUFFICES ASSUME NEW x \in lost PROVE x < a + BlockSize
        BY <1>1, <2>3
      <4>1. x < top /\ x \in Nat
        BY <1>1, <1>5, BlockFacts DEF Course, Begun, TypeInv, DriverType
      <4> HIDE DEF top
      <4> QED BY <1>1, <2>2, <4>1, SMT
    <3>3. (BlockBase(addr))' = BlockBase(a)
      BY <2>1 DEF BlockBase, Block
    <3> QED BY <1>5, <2>1, <2>3, <2>4, <3>1, <3>2, <3>3 DEF Begun, Block
  <2>7. ASSUME NEW x \in Cells' PROVE mem'[x] = before'[x]
    <3>1. x \in Addr /\ Block(x) = Block(a)
      BY <2>1, <2>7 DEF Cells, BlockCells, Block
    <3>2. x \in Nat /\ a <= x
      BY <2>3, <3>1, InBlock, BlockFacts
    <3>3. x \notin lost
      <4>1. x \in lost => x < top
        BY <1>1, <1>5 DEF Course, Begun
      <4> HIDE DEF top
      <4> QED BY <2>2, <3>2, <4>1, SMT
    <3>4. ~Done(x)'
      <4>1. ~(x < a)
        BY <2>2, <3>2, SMT
      <4> QED BY <2>1, <4>1 DEF Done
    <3> QED BY <2>4, <3>1, <3>3, <3>4 DEF Settled
  <2>8. marker' = "good"
    BY <1>5 DEF TypeInv, CallInv, Places, Marking
  <2>9. StartBlock(a, n) /\ job' = "write" /\ addr' = a /\ length' = n
    BY <1>5, <2>1
  <2>10. Course'
    BY <2>6, <2>7, <2>8, <2>9, StartBlockCourse
  <2>11. pc' # "idle"
    BY <2>9 DEF StartBlock, StartRead, Goto
  <2> QED BY <2>5, <2>10, <2>11 DEF Wrote
<1> QED BY <1>2, <1>3, <1>4, <1>5, AdvanceFacts
LEMMA WaitWrites ==
  ASSUME TypeInv, WorkInv, FillInv, WriteInv, NEW outcome, Wait(outcome), Sound'
  PROVE  Wrote'
<1>1. /\ AtWork /\ Filled /\ Wrote /\ Confined /\ ~late /\ CallType /\ Places /\ Extent /\ ReadExtent
      /\ UNCHANGED <<mem, op, failed, late, before, first, job, calls>>
  BY WaitWork DEF FillInv, WriteInv, Wrote, TypeInv, CallInv
<1>2. CASE pc' = "idle" /\ ret' = "error" /\ UNCHANGED <<addr, lost>>
  <2>1. Confined'
    BY <1>1, <1>2, ConfinedKept
  <2> QED BY <1>2, <2>1, Quit
<1>3. CASE /\ pc \in {"erasing", "programming"} /\ pc' = "mark" /\ UNCHANGED <<callVars, readVars, buf, lost>>
           /\ lut' \in {[lut EXCEPT ![Current] = TRUE], [lut EXCEPT ![Current] = FALSE]}
           /\ \/ marker' = "bad"
              \/ marker' = "good" /\ pc = "erasing" /\ ~Busy /\ ~failed
  <2>1. UNCHANGED <<addr, length, index, readLength>> /\ ~Idle /\ job # "read" /\ ~Reading
    BY <1>1, <1>3 DEF callVars, readVars, Idle, Places, Reading, Marking
  <2>2. Confined'
    BY <1>1, <1>3, <2>1, ConfinedKept
  <2>3. ASSUME job = "write" PROVE Course'
    <3>1. Course /\ addr \in Addr /\ Current = Block(addr) /\ lut \in [Blocks -> BOOLEAN]
      BY <1>1, <1>3, <2>1, <2>3 DEF Wrote, Writing, Extent, Current, TypeInv, DriverType
    <3>2. Begun'
      BY <1>1, <1>3, <2>1, <3>1, BegunKept DEF Course
    <3>3. ~Reading'
      <4>1. readLength = 0 /\ ~(0 > 0)
        BY <1>1, <2>1, SMT DEF ReadExtent
      <4> QED BY <1>3, <2>1, <4>1 DEF Reading
    <3>4. Intact'
      BY <1>3, <3>3 DEF Intact
    <3>5. Saved'
      BY <1>1, <1>3, <2>1, <3>1 DEF Course, Saved, Rewriting, Kept, Cells, BlockCells, BlockBase, Block, Requested,
         Marking
    <3>6. ASSUME marker' = "good" PROVE Programmed(index)'
      <4>1. Programmed(0)
        BY <1>3, <3>1, <3>6 DEF Course, Progress
      <4>2. index' = 0
        <5>1. ~(index > 0) /\ index \in 0 .. NPages - 1
          BY <1>1, <1>3, <2>1, <2>3, <3>6 DEF Extent, Marking, CallType
        <5> QED BY <2>1, <5>1, Sizes, SMT
      <4> QED BY <1>1, <1>3, <2>1, <4>1, <4>2
              DEF Programmed, Requested, Cells, BlockCells, BlockBase, Block
    <3>7. Progress'
      BY <1>3, <3>6 DEF Progress
    <3> QED BY <3>2, <3>4, <3>5, <3>7 DEF Course
  <2> QED BY <1>1, <1>3, <2>2, <2>3 DEF Wrote, Writing
<1>4. CASE pc = "programming" /\ outcome = "ready" /\ ~failed /\ Advance /\ lut' = lut
  <2>1. ~Busy
    BY <1>4, WaitWork
  <2> QED BY <1>1, <1>4, <2>1, AdvanceWrites
<1>5. CASE /\ pc = "marking" /\ AfterMark /\ addr' = addr
           /\ lut' = [lut EXCEPT ![Current] = @ \/ (outcome = "ready" /\ failed)]
  <2>1. Marking /\ \A x \in Blocks : x # Current => lut'[x] = lut[x]
    BY <1>5 DEF Marking, TypeInv, DriverType
  <2> QED BY <1>1, <1>5, <2>1, AfterMarkWrites
<1>6. outcome = "ready" => ~Busy
  BY WaitWork
<1> QED BY <1>2, <1>3, <1>4, <1>5, <1>6, WaitWork DEF Condemn, Goto

\* Whatever becomes of a command, the cells outside its block are not touched.
LEMMA TornOutside ==
  ASSUME TypeInv, (\E fails \in BOOLEAN : Finish(fails)) \/ PowerLoss
  PROVE  /\ \A a \in Addr : a \notin Touched(op) => mem'[a] = mem[a]
         /\ PowerLoss /\ ~Busy => mem' = mem
<1>1. mem \in [Addr -> Content] /\ op.kind \in {"none", "erase", "program", "mark", "unmark"}
  BY DEF TypeInv, ChipType, Commands
<1>2. ASSUME Torn(op)
      PROVE  (\A a \in Addr : a \notin Touched(op) => mem'[a] = mem[a]) /\ (~Busy => mem' = mem)
  <2>1. PICK how \in {"done", "untouched", "torn"} :
          mem' = [a \in Addr |-> IF a \notin Touched(op) \/ how = "untouched" THEN mem[a]
                                 ELSE IF how = "done" THEN Written(op, a) ELSE Junk]
    BY <1>2 DEF Torn
  <2>2. \A a \in Addr : a \notin Touched(op) => mem'[a] = mem[a]
    BY <2>1
  <2>3. ASSUME ~Busy PROVE mem' = mem
    <3>1. Touched(op) = {}
      BY <2>3 DEF Busy, Touched
    <3>2. mem' = [a \in Addr |-> mem[a]]
      BY <2>1, <3>1
    <3> QED BY <1>1, <3>2
  <2> QED BY <2>2, <2>3
<1>3. CASE PowerLoss
  BY <1>2, <1>3 DEF PowerLoss
<1>4. ASSUME NEW fails \in BOOLEAN, Finish(fails)
      PROVE  (\A a \in Addr : a \notin Touched(op) => mem'[a] = mem[a]) /\ Busy
  BY <1>2, <1>4 DEF Finish
<1> QED BY <1>3, <1>4

LEMMA ChipConfined ==
  ASSUME TypeInv, WorkInv, WriteInv, (\E fails \in BOOLEAN : Finish(fails)) \/ PowerLoss, Sound'
  PROVE  Confined'
<1>1. /\ Sound /\ AtWork /\ Confined /\ Overtake /\ ~late' /\ UNCHANGED <<job, addr, calls, first, lost>>
  BY ChipWork DEF WriteInv, Wrote, Finish, PowerLoss, callVars
<1>2. CASE late
  <2>1. before' = mem' /\ addr' = first'
    BY <1>1, <1>2 DEF AtWork, Late, Overtake
  <2>2. \A a \in Addr : ~Done(a)'
    <3>1. first \in Nat /\ addr' = first /\ first' = first
      BY <1>1, <2>1 DEF TypeInv, GhostType
    <3>2. \A a \in Addr : ~(first <= a /\ a < first)
      BY <3>1, Sizes, SMT DEF Addr
    <3> QED BY <3>1, <3>2 DEF Done
  <2> QED BY <2>1, <2>2 DEF Confined, Settled
<1>3. CASE ~late
  <2>1. before' = before /\ Touched(op) \subseteq Cells /\ (job = "read" => ~Busy)
    BY <1>1, <1>3 DEF AtWork, Calm, Overtake
  <2>2. ASSUME NEW a \in Addr, Block(a) # Block(addr), a \notin lost PROVE Settled(a)'
    <3>1. mem'[a] = mem[a]
      BY <2>1, <2>2, TornOutside DEF Cells, BlockCells
    <3>2. Settled(a)
      BY <1>1, <1>3, <2>2 DEF Confined
    <3> QED BY <1>1, <2>1, <3>1, <3>2 DEF Settled, Done
  <2>3. ASSUME job = "read" PROVE before' = mem'
    <3>1. PowerLoss
      BY <2>1, <2>3 DEF Finish
    <3>2. mem' = mem
      BY <2>1, <2>3, <3>1, TornOutside
    <3> QED BY <1>1, <1>3, <2>1, <2>3, <3>2 DEF Confined
  <2> QED BY <1>1, <2>2, <2>3 DEF Confined, Block
<1> QED BY <1>2, <1>3

\* What the chip makes of a command for a page or a block that can take it.
LEMMA FinishProgress ==
  ASSUME TypeInv, addr \in Addr, job = "write", pc # "idle", AtWork, ~late, Course, NEW fails \in BOOLEAN,
         Finish(fails)
  PROVE  Progress'
<1>1. /\ Busy /\ ~Busy' /\ failed' = fails /\ UNCHANGED <<pc, addr, length, index, marker, calls, buf, lut, job>>
      /\ ~fails => \A a \in Addr : mem'[a] = IF a \in Touched(op) THEN Written(op, a) ELSE mem[a]
  BY NoOpType DEF Finish, Busy, callVars
<1>2. Cells' = Cells /\ (BlockBase(addr))' = BlockBase(addr) /\ (\A a : Requested(a)' <=> Requested(a))
      /\ Marking' = Marking
  BY <1>1 DEF Cells, BlockCells, BlockBase, Block, Requested, Marking
<1>3. BlockBase(addr) \in Nat /\ PageSize \in Nat \ {0}
  BY BlockFacts, Sizes
<1>4. ASSUME pc = "erasing", ~failed' PROVE Programmed(0)'
  <2>1. op.kind = "erase" /\ Touched(op) = Cells
    BY <1>1, <1>4, TouchedCells DEF AtWork, Calm
  <2> SUFFICES ASSUME NEW a \in Cells PROVE mem'[a] = Erased /\ a >= BlockBase(addr) + 0 * PageSize
    BY <1>2 DEF Programmed
  <2>2. mem'[a] = Erased
    BY <1>1, <1>4, <2>1, CellFacts DEF Written
  <2>3. BlockBase(addr) + 0 * PageSize = BlockBase(addr)
    BY <1>3, SMT
  <2>4. BlockBase(addr) <= a
    BY CellFacts
  <2> QED BY <2>2, <2>3, <2>4
<1>5. ASSUME pc = "program" \/ (Marking /\ marker = "good") PROVE Programmed(index)'
  <2>1. Touched(op) = {} /\ pc # "mark"
    BY <1>1, <1>5 DEF AtWork, Calm, Touched, Marking
  <2>2. \A a \in Addr : mem'[a] = mem[a]
    BY <2>1, TornOutside
  <2>3. Programmed(index)
    BY <1>5 DEF Course, Progress
  <2> QED BY <1>1, <1>2, <2>2, <2>3 DEF Programmed, Cells, BlockCells
<1>6. ASSUME pc = "programming", ~failed' PROVE Programmed(index + 1)'
  <2> DEFINE c == BlockBase(addr)  d == index * PageSize  p == c + d
  <2>1. op = Command /\ Programmed(index) /\ ~fails
    BY <1>1, <1>6 DEF AtWork, Calm, Course, Progress
  <2>2. /\ op.kind = "program" /\ op.at = p
        /\ op.from = [i \in 0 .. PageSize - 1 |-> Source(d + i)]
        /\ Touched(op) = {a \in Addr : p <= a /\ a < p + PageSize}
    BY <2>1 DEF Command, Touched
  <2>3. c \in Nat /\ d \in Nat /\ (index + 1) * PageSize = d + PageSize
    <3>1. index \in 0 .. NPages - 1
      BY DEF TypeInv, CallInv, CallType
    <3> QED BY <1>3, <3>1, PageInBlock
  <2>4. p \in Nat /\ c + (d + PageSize) = p + PageSize
    <3> HIDE DEF c, d
    <3> QED BY <1>3, <2>3, SMT
  <2> SUFFICES ASSUME NEW a \in Cells
               PROVE  mem'[a] = IF a >= p + PageSize THEN Erased
                                ELSE IF Requested(a) THEN Data(a, calls) ELSE buf[a - c]
    BY <1>1, <1>2, <2>3, <2>4 DEF Programmed
  <2>5. a \in Addr /\ a \in Nat /\ c <= a
    BY CellFacts
  <2>6. mem[a] = IF a >= p THEN Erased ELSE IF Requested(a) THEN Data(a, calls) ELSE buf[a - c]
    BY <2>1 DEF Programmed
  <2>7. mem'[a] = IF p <= a /\ a < p + PageSize THEN Written(op, a) ELSE mem[a]
    BY <1>1, <2>1, <2>2, <2>5
  <2>8. CASE p <= a /\ a < p + PageSize
    <3> DEFINE i == a - p
    <3>1. i \in 0 .. PageSize - 1 /\ d + i = a - c /\ c + (a - c) = a
      <4>1. p = c + d
        OBVIOUS
      <4> HIDE DEF c, d, p
      <4> QED BY <1>3, <2>3, <2>4, <2>5, <2>8, <4>1, SMT
    <3>2. op.from[a - op.at] = Source(a - c)
      <4>1. op.from[i] = Source(d + i)
        <5> HIDE DEF i
        <5> QED BY <2>2, <3>1
      <4> QED BY <2>2, <3>1, <4>1
    <3>3. Source(a - c) = IF Requested(a) THEN Data(a, calls) ELSE buf[a - c]
      <4> DEFINE o == a - c
      <4>1. c + o = a
        BY <3>1
      <4> HIDE DEF o
      <4>2. Source(o) = IF Requested(a) THEN Data(a, calls) ELSE buf[o]
        BY <4>1 DEF Source
      <4> QED BY <4>2 DEF o
    <3>4. mem[a] = Erased
      <4>1. a >= p
        <5> HIDE DEF c, d, p
        <5> QED BY <2>4, <2>5, <2>8, SMT
      <4> QED BY <2>6, <4>1
    <3>5. Written(op, a) = op.from[a - op.at]
      BY <2>2, <3>4 DEF Written
    <3>6. ~(a >= p + PageSize)
      <4> HIDE DEF c, d, p
      <4> QED BY <1>3, <2>4, <2>5, <2>8, SMT
    <3> QED BY <2>7, <2>8, <3>2, <3>3, <3>5, <3>6
  <2>9. CASE ~(p <= a /\ a < p + PageSize)
    <3>1. mem'[a] = mem[a]
      BY <2>7, <2>9
    <3>2. a >= p <=> a >= p + PageSize
      <4> HIDE DEF c, d, p
      <4> QED BY <1>3, <2>4, <2>5, <2>9, SMT
    <3> QED BY <2>6, <3>1, <3>2
  <2> QED BY <2>8, <2>9
<1>7. pc' = "programming" => ~(lut[Block(addr)])'
  BY <1>1 DEF Course, Progress, Block
<1> QED BY <1>1, <1>2, <1>4, <1>5, <1>6, <1>7 DEF Progress

LEMMA ChipWrites ==
  ASSUME TypeInv, WorkInv, FillInv, WriteInv, (\E fails \in BOOLEAN : Finish(fails)) \/ PowerLoss, Sound'
  PROVE  Wrote'
<1>1. Sound /\ AtWork /\ Wrote /\ Confined' /\ ~late' /\ ~Busy'
  BY ChipWork, ChipConfined DEF WriteInv
<1>2. CASE PowerLoss
  BY <1>1, <1>2, Quit DEF PowerLoss, Return
<1>3. ASSUME NEW fails \in BOOLEAN, Finish(fails) PROVE Wrote'
  <2>1. /\ Busy /\ Overtake
        /\ UNCHANGED <<pc, job, addr, length, index, readLength, marker, ret, buf, lut, calls, first, lost>>
    BY <1>3 DEF Finish, callVars, readVars
  <2>2. ASSUME job = "write", pc = "idle", ret = "ok" PROVE WriteDone'
    <3>1. before' = mem' /\ addr' = first' /\ first \in Nat /\ first' = first
      BY <1>1, <2>1, <2>2 DEF AtWork, Late, Calm, Overtake, TypeInv, GhostType
    <3>2. \A a \in Addr : ~Done(a)'
      <4>1. \A a \in Addr : ~(first <= a /\ a < first)
        BY <3>1, Sizes, SMT DEF Addr
      <4> QED BY <3>1, <4>1 DEF Done
    <3> QED BY <3>1, <3>2 DEF WriteDone, Settled
  <2>3. ASSUME Writing PROVE Course'
    <3>1. Course /\ job = "write" /\ pc # "idle" /\ pc # "locking" /\ addr \in Addr
      BY <1>1, <2>3 DEF Wrote, Writing, AtWork, TypeInv, CallInv, Extent, Idle
    <3>2. Begun'
      BY <2>1, <3>1, BegunKept DEF Course
    <3>3. Cells' = Cells /\ (BlockBase(addr))' = BlockBase(addr) /\ (\A a : Requested(a)' <=> Requested(a))
          /\ Rewriting' = Rewriting /\ Reading' = Reading
      BY <2>1 DEF Cells, BlockCells, BlockBase, Block, Requested, Rewriting, Reading, Marking
    <3>4. CASE late
      <4>1. before' = mem' /\ pc \in {"ecc", "erase"}
        BY <1>1, <2>1, <3>1, <3>4 DEF AtWork, Late, Overtake
      <4>2. Saved'
        BY <2>1, <3>1, <3>3, <3>4 DEF Course, Saved, Kept
      <4>3. Intact' /\ Progress'
        BY <2>1, <4>1 DEF Intact, Progress, Marking
      <4> QED BY <3>2, <4>2, <4>3 DEF Course
    <3>5. CASE ~late
      <4>1. before' = before /\ pc \notin {"ecc", "page", "erase", "mark"} /\ (pc = "marking" => marker = "good")
        BY <1>1, <2>1, <3>1, <3>5 DEF AtWork, Calm, Overtake
      <4>2. ~Reading'
        BY <3>3, <4>1 DEF Reading, Marking, TypeInv, CallInv, Places
      <4>3. Saved'
        BY <1>1, <2>1, <3>1, <3>3, <4>1 DEF Course, Saved, Kept
      <4>4. Intact'
        BY <2>1, <4>1, <4>2 DEF Intact
      <4>5. Progress'
        BY <1>1, <1>3, <3>1, <3>5, FinishProgress
      <4> QED BY <3>2, <4>3, <4>4, <4>5 DEF Course
    <3> QED BY <3>4, <3>5
  <2> QED BY <1>1, <2>1, <2>2, <2>3 DEF Wrote, Writing
<1> QED BY <1>2, <1>3

LEMMA WriteInductive ==
  ASSUME TypeInv, TableInv, WorkInv, FillInv, WriteInv, [Next]_vars
  PROVE  WriteInv'
<1>1. CASE Next
  <2> SUFFICES ASSUME Sound' PROVE Wrote'
    BY DEF WriteInv
  <2>1. ASSUME NEW outcome, \/ EnableEcc(outcome) \/ ReadPage(outcome) \/ Wait(outcome)
                            \/ Erase(outcome) \/ Program(outcome) \/ Mark(outcome)
        PROVE  Wrote'
    BY <2>1, ReadWrites, WaitWrites, EraseWrites, ProgramWrites, MarkWrites
  <2>2. ASSUME NEW a \in Nat, NEW n \in Nat, NEW force,
               Read(a, n) \/ Write(a, n) \/ ProgramPage(a, n) \/ EraseBlock(a, force)
        PROVE  Wrote'
    BY <2>2, CallWrites
  <2>3. \A p, ok, sent, unread : ~Protect(p, ok, sent) /\ ~InitDriver(ok, unread)
    BY NoCall
  <2>4. 0 \in Nat
    OBVIOUS
  <2> QED BY <1>1, <2>1, <2>2, <2>3, <2>4, ChipWrites, Steps, Zenon
<1>2. CASE UNCHANGED vars
  <2>1. Confined' = Confined /\ WriteDone' = WriteDone
    BY <1>2 DEF vars, chipVars, callVars, ghostVars, Confined, WriteDone, Settled, Done, Block
  <2>2. Course' = Course
    BY <1>2 DEF vars, chipVars, callVars, readVars, ghostVars, Course, Begun, Intact, Saved, Progress,
       Programmed, Kept, Rewriting, Reading, Marking, Busy, Done, Requested, Cells, BlockCells, BlockBase, Block
  <2> QED BY <1>2, <2>1, <2>2 DEF vars, WriteInv, Sound, Wrote, Writing
<1> QED BY <1>1, <1>2

\* What holds of every state.
WholeInv == TypeInv /\ TableInv /\ WorkInv /\ FillInv /\ WriteInv
LEMMA Whole == Spec => []WholeInv
<1>1. Init => WholeInv
  BY Initial, InitTable, InitSound DEF WholeInv, WorkInv, FillInv, WriteInv
<1>2. WholeInv /\ [Next]_vars => WholeInv'
  BY Inductive, TableInductive, WorkInductive, FillInductive, WriteInductive DEF WholeInv
<1> QED BY <1>1, <1>2, PTL DEF Spec

(* A read that returns FLASH_OK has delivered what it was asked for, cell by cell, and nothing that
   no ECC could correct: with and without pages loaded ahead, across the ends of pages and blocks,
   and whatever failed in calls before it. *)
THEOREM OkMeansReadHolds == Spec => []OkMeansRead
<1>1. WholeInv => OkMeansRead
  <2> SUFFICES ASSUME TypeInv, FillInv, pc = "idle", job = "read", ret = "ok", ~missed,
                      NEW a \in first .. addr - 1
               PROVE  buf[a - first] = mem[a] /\ mem[a] # Junk
    BY DEF OkMeansRead, WholeInv
  <2>1. addr <= ChipSize /\ Delivered(buf, first, addr)
    BY DEF FillInv, Sound, Transfers, Filled
  <2>2. first \in Nat /\ addr \in Nat
    BY DEF TypeInv, GhostType, CallInv, CallType
  <2>3. a \in Addr /\ first <= a /\ a < addr
    BY <2>1, <2>2, Sizes, SMT DEF Addr
  <2> QED BY <2>1, <2>3 DEF Delivered
<1> QED BY <1>1, Whole, PTL

(* A write that returns FLASH_OK has put the whole request where it belongs, and kept every other
   cell of the chip but those of a block that could not be read before it was erased: whatever the
   alignment and length, and whatever earlier calls have left unfinished. *)
THEOREM OkMeansWrittenHolds == Spec => []OkMeansWritten
<1>1. WholeInv => OkMeansWritten
  <2> SUFFICES ASSUME WholeInv, pc = "idle", job = "write", ret = "ok", ~missed, NEW a \in Addr
               PROVE  /\ a \notin lost => mem[a] = IF Done(a) THEN Data(a, calls) ELSE before[a]
                      /\ Done(a) => ~lut[Block(a)]
    BY DEF OkMeansWritten
  <2>1. WriteDone
    BY DEF WholeInv, WriteInv, Sound, Transfers, Wrote
  <2> QED BY <2>1 DEF WriteDone, Settled
<1> QED BY <1>1, Whole, PTL

(* A call that fails, at whatever step and for whatever reason, or is cut off by the loss of power,
   harms at most the block it was at. *)
THEOREM DamageConfinedHolds == Spec => []DamageConfined
<1>1. WholeInv => DamageConfined
  BY DEF WholeInv, WriteInv, Sound, Wrote, Confined, Settled, DamageConfined
<1> QED BY <1>1, Whole, PTL
-----------------------------------------------------------------------------
(* A call goes on only towards its end.  How far it is with a block; within the rest of the
   request, every step of the driver takes it down.  A mark that ends the call comes last,
   and one on the way out of a read comes before the erase that follows it. *)
Phase ==
  CASE pc = "idle" -> 0
    [] pc = "locking" \/ (pc = "marking" /\ marker = "bad" /\ readLength = 0) -> 1
    [] pc = "mark" /\ marker = "bad" /\ readLength = 0 -> 2
    [] pc = "programming" -> 2 * (NPages - index) + 1
    [] pc = "program" -> 2 * (NPages - index) + 2
    [] pc = "marking" /\ marker = "good" -> 2 * NPages + 3
    [] pc = "mark" /\ marker = "good" -> 2 * NPages + 4
    [] pc = "erasing" -> 2 * NPages + 5
    [] pc = "erase" -> 2 * NPages + 6
    [] pc = "marking" /\ marker = "bad" /\ readLength # 0 -> 2 * NPages + 7
    [] pc = "mark" /\ marker = "bad" /\ readLength # 0 -> 2 * NPages + 8
    [] pc = "page" -> 2 * NPages + 9
    [] pc = "ecc" -> 2 * NPages + 10

Nearer ==
  \/ length' < length
  \/ length' = length /\ Phase' < Phase
  \/ length' = length /\ Phase' = Phase /\ readLength' < readLength

\* What is left is a triple of natural numbers, and every step taken during a call, but for
\* those the chip takes by itself, makes the triple smaller.
StepsNearer ==
  /\ [](length \in Nat /\ Phase \in Nat /\ readLength \in Nat)
  /\ [][pc # "idle" => \/ Nearer
                       \/ \E fails \in BOOLEAN : Finish(fails) /\ UNCHANGED <<pc, callVars, readVars, marker>>]_vars

LEMMA PhaseType ==
  ASSUME TypeInv
  PROVE  /\ length \in Nat /\ readLength \in Nat /\ index \in Nat /\ index < NPages
         /\ NPages \in Nat \ {0} /\ Phase \in Nat /\ (pc # "idle" => Phase > 0)
<1>1. /\ pc \in PCs /\ marker \in {"good", "bad"} /\ length \in Nat /\ readLength \in Nat
      /\ index \in Nat /\ index < NPages /\ NPages \in Nat \ {0}
  BY Sizes, SMT DEF TypeInv, CallInv, CallType
<1>2. \A x \in {0, 1, 2, 2 * (NPages - index) + 1, 2 * (NPages - index) + 2, 2 * NPages + 3,
                2 * NPages + 4, 2 * NPages + 5, 2 * NPages + 6, 2 * NPages + 7,
                2 * NPages + 8, 2 * NPages + 9, 2 * NPages + 10} :
        x \in Nat /\ (x # 0 => x > 0)
  BY <1>1, SMT
<1>3. /\ 2 * (NPages - index) + 1 # 0 /\ 2 * (NPages - index) + 2 # 0
      /\ 2 * NPages + 3 # 0 /\ 2 * NPages + 4 # 0 /\ 2 * NPages + 5 # 0 /\ 2 * NPages + 6 # 0
      /\ 2 * NPages + 7 # 0 /\ 2 * NPages + 8 # 0 /\ 2 * NPages + 9 # 0 /\ 2 * NPages + 10 # 0
  BY <1>1, SMT
<1>4. Phase \in Nat /\ (pc # "idle" => Phase > 0)
  <2>1. CASE pc \in {"idle", "locking", "programming", "program", "erasing", "erase", "page", "ecc"}
    BY <1>2, <1>3, <2>1 DEF Phase
  <2>2. CASE pc \in {"mark", "marking"} /\ marker = "good"
    BY <1>2, <1>3, <2>2 DEF Phase
  <2>3. CASE pc \in {"mark", "marking"} /\ marker = "bad"
    BY <1>2, <1>3, <2>3 DEF Phase
  <2> QED BY <1>1, <2>1, <2>2, <2>3 DEF PCs
<1> QED BY <1>1, <1>4

\* A call that ends has nothing left.
LEMMA ReturnNearer ==
  ASSUME TypeInv, pc # "idle", NEW r, Return(r)
  PROVE  Nearer
<1>1. pc' = "idle" /\ length' = 0
  BY DEF Return
<1>2. Phase' = 0
  BY <1>1 DEF Phase
<1>3. length \in Nat /\ Phase > 0
  BY PhaseType
<1>4. length' < length \/ (length' = length /\ Phase' < Phase)
  BY <1>1, <1>2, <1>3, SMT
<1> QED BY <1>4 DEF Nearer

\* The end of a read is the end of the call, or a write goes on to erase the block.
LEMMA EndReadNearer ==
  ASSUME TypeInv, Reading, NEW b, NEW r, EndRead(b, r)
  PROVE  Nearer
<1>1. pc # "idle"
  BY DEF Reading, Marking
<1>2. CASE job = "read"
  BY <1>1, <1>2, ReturnNearer DEF EndRead
<1>3. CASE job # "read"
  <2>1. pc' = "erase" /\ length' = length
    BY <1>3 DEF EndRead, Goto
  <2>2. Phase' = 2 * NPages + 6
    BY <2>1 DEF Phase
  <2>3. /\ pc \in {"ecc", "page"} \/ (Marking /\ marker = "bad" /\ readLength # 0)
        /\ NPages \in Nat \ {0}
    <3>1. readLength > 0 => readLength # 0
      BY PhaseType, SMT
    <3> QED BY <3>1, PhaseType DEF TypeInv, CallInv, Places, Reading
  <2>4. Phase \in {2 * NPages + 7, 2 * NPages + 8, 2 * NPages + 9, 2 * NPages + 10}
    BY <2>3 DEF Phase, Marking
  <2>5. Phase' < Phase
    BY <2>2, <2>3, <2>4, SMT
  <2> QED BY <2>1, <2>5 DEF Nearer
<1> QED BY <1>2, <1>3

LEMMA CondemnNearer ==
  ASSUME TypeInv, pc \in {"erasing", "programming", "page"}, NEW b, Condemn(b),
         UNCHANGED <<length, readLength>>
  PROVE  Nearer
<1>1. pc' = "mark" /\ marker' = "bad"
  BY DEF Condemn, Goto
<1>2. index \in Nat /\ index < NPages /\ NPages \in Nat \ {0} /\ readLength \in Nat
  BY PhaseType
<1>3. CASE pc = "page"
  <2>1. readLength # 0
    BY <1>2, <1>3, SMT DEF TypeInv, CallInv, ReadExtent
  <2>2. Phase = 2 * NPages + 9 /\ Phase' = 2 * NPages + 8
    BY <1>1, <1>3, <2>1 DEF Phase
  <2>3. Phase' < Phase
    BY <1>2, <2>2, SMT
  <2> QED BY <2>3 DEF Nearer
<1>4. CASE pc \in {"erasing", "programming"}
  <2>1. readLength = 0
    BY <1>4 DEF TypeInv, CallInv, ReadExtent, Reading, Marking
  <2>2. Phase \in {2 * NPages + 5, 2 * (NPages - index) + 1} /\ Phase' = 2
    BY <1>1, <1>4, <2>1 DEF Phase
  <2>3. Phase' < Phase
    BY <1>2, <2>2, SMT
  <2> QED BY <2>3 DEF Nearer
<1> QED BY <1>3, <1>4

LEMMA AfterMarkNearer ==
  ASSUME TypeInv, Marking, AfterMark
  PROVE  Nearer
<1>1. /\ index \in Nat /\ index < NPages /\ NPages \in Nat \ {0} /\ readLength \in Nat
      /\ marker \in {"good", "bad"} /\ pc # "idle"
  BY PhaseType DEF TypeInv, CallInv, CallType, Marking
<1>2. CASE marker = "bad" /\ readLength > 0
  <2>1. readLength # 0
    BY <1>2, SMT
  <2>2. EndRead(buf, "error") /\ Reading
    BY <1>2, <2>1 DEF AfterMark, Reading
  <2> QED BY <2>2, EndReadNearer
<1>3. CASE marker = "bad" /\ readLength = 0
  <2>1. ~(readLength > 0)
    BY <1>3, SMT
  <2>2. Return("error")
    BY <1>3, <2>1 DEF AfterMark
  <2> QED BY <1>1, <2>2, ReturnNearer
<1>4. CASE marker = "good" /\ job = "erase"
  BY <1>1, <1>4, ReturnNearer DEF AfterMark
<1>5. CASE marker = "good" /\ job # "erase"
  <2>1. pc' = "program" /\ UNCHANGED <<length, index>>
    BY <1>5 DEF AfterMark, Goto
  <2>2. Phase \in {2 * NPages + 3, 2 * NPages + 4} /\ Phase' = 2 * (NPages - index) + 2
    BY <1>5, <2>1 DEF Phase, Marking
  <2>3. Phase' < Phase
    BY <1>1, <2>2, SMT
  <2> QED BY <2>1, <2>3 DEF Nearer
<1>6. readLength > 0 \/ readLength = 0
  BY <1>1, SMT
<1> QED BY <1>1, <1>2, <1>3, <1>4, <1>5, <1>6

LEMMA ReadNearer ==
  ASSUME TypeInv, NEW outcome, EnableEcc(outcome) \/ ReadPage(outcome)
  PROVE  Nearer
<1>1. NPages \in Nat \ {0} /\ readLength \in Nat
  BY PhaseType
<1>2. CASE EnableEcc(outcome)
  <2>1. pc = "ecc" /\ Reading
    BY <1>2 DEF EnableEcc, Reading
  <2>2. CASE outcome = "error" \/ readLength = 0
    <3>1. PICK r : EndRead(buf, r)
      BY <1>2, <2>2 DEF EnableEcc
    <3> QED BY <2>1, <3>1, EndReadNearer
  <2>3. CASE ~(outcome = "error" \/ readLength = 0)
    <3>1. pc' = "page" /\ length' = length
      BY <1>2, <2>3 DEF EnableEcc, Goto
    <3>2. Phase = 2 * NPages + 10 /\ Phase' = 2 * NPages + 9
      BY <2>1, <3>1 DEF Phase
    <3>3. Phase' < Phase
      BY <1>1, <3>2, SMT
    <3> QED BY <3>1, <3>3 DEF Nearer
  <2> QED BY <2>2, <2>3
<1>3. CASE ReadPage(outcome)
  <2>1. pc = "page" /\ Reading /\ outcome \in {"ok", "error", "nostatus", "misread"}
    BY <1>3 DEF ReadPage, Reading
  <2>2. CASE outcome = "error" \/ lut[Current]
    BY <1>3, <2>1, <2>2, EndReadNearer DEF ReadPage
  <2>3. CASE ~lut[Current] /\ (outcome = "nostatus" \/ (outcome = "ok" /\ Uncorrectable))
    <3>1. Condemn(Current) /\ UNCHANGED <<length, readLength>>
      BY <1>3, <2>3 DEF ReadPage, callVars, readVars
    <3> QED BY <2>1, <3>1, CondemnNearer
  <2>4. CASE ~lut[Current] /\ (outcome = "misread" \/ (outcome = "ok" /\ ~Uncorrectable))
    <3>1. FetchPage(outcome = "ok")
      BY <1>3, <2>4 DEF ReadPage
    <3>2. CASE readLength = ReadLen
      <4>1. \E b : EndRead(b, "ok")
        BY <3>1, <3>2 DEF FetchPage
      <4> QED BY <2>1, <4>1, EndReadNearer
    <3>3. CASE readLength # ReadLen
      <4>1. readLength' = readLength - ReadLen /\ pc' = "page" /\ length' = length
        BY <3>1, <3>3 DEF FetchPage, Goto
      <4>2. ReadLen \in Nat \ {0}
        BY <2>1, FetchFacts
      <4>3. readLength' < readLength
        BY <1>1, <4>1, <4>2, SMT
      <4>4. Phase = 2 * NPages + 9 /\ Phase' = 2 * NPages + 9
        BY <2>1, <4>1 DEF Phase
      <4> QED BY <4>1, <4>3, <4>4 DEF Nearer
    <3> QED BY <3>2, <3>3
  <2> QED BY <2>1, <2>2, <2>3, <2>4
<1> QED BY <1>2, <1>3

LEMMA CommandNearer ==
  ASSUME TypeInv, NEW outcome, Erase(outcome) \/ Program(outcome) \/ Mark(outcome)
  PROVE  Nearer
<1>1. index \in Nat /\ index < NPages /\ NPages \in Nat \ {0} /\ marker \in {"good", "bad"}
  BY PhaseType DEF TypeInv, CallInv, CallType
<1>2. CASE Erase(outcome)
  <2>1. pc = "erase" /\ Phase = 2 * NPages + 6
    BY <1>2 DEF Erase, Phase
  <2>2. CASE Taken(outcome)
    <3>1. pc' = "erasing" /\ length' = length
      BY <1>2, <2>2 DEF Erase, Goto
    <3>2. Phase' = 2 * NPages + 5
      BY <3>1 DEF Phase
    <3>3. Phase' < Phase
      BY <1>1, <2>1, <3>2, SMT
    <3> QED BY <3>1, <3>3 DEF Nearer
  <2>3. CASE ~Taken(outcome)
    <3>1. Return("error")
      BY <1>2, <2>3 DEF Erase
    <3> QED BY <2>1, <3>1, ReturnNearer
  <2> QED BY <2>2, <2>3
<1>3. CASE Program(outcome)
  <2>1. pc = "program" /\ Phase = 2 * (NPages - index) + 2
    BY <1>3 DEF Program, Phase
  <2>2. CASE ~lut[Current] /\ Taken(outcome)
    <3>1. pc' = "programming" /\ UNCHANGED <<length, index>>
      BY <1>3, <2>2 DEF Program, Goto
    <3>2. Phase' = 2 * (NPages - index) + 1
      BY <3>1 DEF Phase
    <3>3. Phase' < Phase
      BY <1>1, <2>1, <3>2, SMT
    <3> QED BY <3>1, <3>3 DEF Nearer
  <2>3. CASE lut[Current] \/ ~Taken(outcome)
    <3>1. Return("error")
      BY <1>3, <2>3 DEF Program
    <3> QED BY <2>1, <3>1, ReturnNearer
  <2> QED BY <2>2, <2>3
<1>4. CASE Mark(outcome)
  <2>1. pc = "mark" /\ Marking
    BY <1>4 DEF Mark, Marking
  <2>2. CASE ~lut[Current] /\ Taken(outcome)
    <3>1. pc' = "marking" /\ UNCHANGED <<length, index, marker, readLength>>
      BY <1>4, <2>2 DEF Mark, Goto, readVars
    <3>2. \/ Phase = 2 /\ Phase' = 1
          \/ Phase = 2 * NPages + 4 /\ Phase' = 2 * NPages + 3
          \/ Phase = 2 * NPages + 8 /\ Phase' = 2 * NPages + 7
      <4>1. CASE marker = "bad" /\ readLength = 0
        BY <2>1, <3>1, <4>1 DEF Phase
      <4>2. CASE marker = "good"
        BY <2>1, <3>1, <4>2 DEF Phase
      <4>3. CASE marker = "bad" /\ readLength # 0
        BY <2>1, <3>1, <4>3 DEF Phase
      <4> QED BY <1>1, <4>1, <4>2, <4>3
    <3>3. Phase' < Phase
      BY <1>1, <3>2, SMT
    <3> QED BY <3>1, <3>3 DEF Nearer
  <2>3. CASE lut[Current] \/ ~Taken(outcome)
    <3>1. AfterMark
      BY <1>4, <2>3 DEF Mark
    <3> QED BY <2>1, <3>1, AfterMarkNearer
  <2> QED BY <2>2, <2>3
<1> QED BY <1>2, <1>3, <1>4

LEMMA WaitNearer ==
  ASSUME TypeInv, NEW outcome, Wait(outcome)
  PROVE  Nearer
<1>1. index \in Nat /\ index < NPages /\ NPages \in Nat \ {0} /\ length \in Nat
  BY PhaseType
<1> DEFINE bad == outcome = "ready" /\ failed  gone == outcome \in {"timeout", "nostatus"}
<1>2. AfterWait(bad, gone) /\ (gone => ~bad)
  BY DEF Wait
<1>3. pc \in {"erasing", "marking", "programming", "locking"} /\ pc # "idle"
  BY DEF Wait, Polled
<1> HIDE DEF bad, gone
<1>4. CASE pc = "locking"
  <2>1. Return("error") \/ Return("ok")
    BY <1>2, <1>4 DEF AfterWait
  <2> QED BY <1>3, <2>1, ReturnNearer
<1>5. CASE pc = "marking"
  <2>1. AfterMark /\ Marking
    BY <1>2, <1>5 DEF AfterWait, Marking
  <2> QED BY <2>1, AfterMarkNearer
<1>6. CASE pc \in {"erasing", "programming"} /\ gone
  <2>1. Return("error")
    BY <1>2, <1>6 DEF AfterWait
  <2> QED BY <1>3, <2>1, ReturnNearer
<1>7. CASE pc \in {"erasing", "programming"} /\ ~gone /\ bad
  <2>1. Condemn(Current) /\ UNCHANGED <<length, readLength>>
    BY <1>2, <1>7 DEF AfterWait, callVars, readVars
  <2> QED BY <1>7, <2>1, CondemnNearer
<1>8. CASE pc = "erasing" /\ ~gone /\ ~bad
  <2>1. marker' = "good" /\ pc' = "mark" /\ length' = length
    BY <1>2, <1>8 DEF AfterWait, Goto, callVars
  <2>2. Phase = 2 * NPages + 5 /\ Phase' = 2 * NPages + 4
    BY <1>8, <2>1 DEF Phase
  <2>3. Phase' < Phase
    BY <1>1, <2>2, SMT
  <2> QED BY <2>1, <2>3 DEF Nearer
<1>9. CASE pc = "programming" /\ ~gone /\ ~bad
  <2>1. Advance
    BY <1>2, <1>9 DEF AfterWait
  <2> DEFINE rest == BlockBase(addr) + BlockSize - addr
  <2>2. /\ rest \in Nat \ {0}
        /\ \/ Return("ok")
           \/ index' = index + 1 /\ pc' = "program" /\ length' = length
           \/ length' = length - rest
    BY <1>9, <2>1, AdvanceFacts DEF Goto
  <2> HIDE DEF rest
  <2>3. CASE Return("ok")
    BY <1>3, <2>3, ReturnNearer
  <2>4. CASE index' = index + 1 /\ pc' = "program" /\ length' = length
    <3>1. Phase = 2 * (NPages - index) + 1 /\ Phase' = 2 * (NPages - (index + 1)) + 2
      BY <1>9, <2>4 DEF Phase
    <3>2. Phase' < Phase
      BY <1>1, <3>1, SMT
    <3> QED BY <2>4, <3>2 DEF Nearer
  <2>5. CASE length' = length - rest
    <3>1. length' < length
      BY <1>1, <2>2, <2>5, SMT
    <3> QED BY <3>1 DEF Nearer
  <2> QED BY <2>2, <2>3, <2>4, <2>5
<1> QED BY <1>3, <1>4, <1>5, <1>6, <1>7, <1>8, <1>9

(* Every step of the driver brings a call nearer to its end, whatever it reads, writes,
   finds bad and marks on the way, and whatever fails or is polled in vain: no call can go
   on for ever, on a chip of any size.  What CallReturns needs besides is that the driver
   keeps running. *)
THEOREM StepsNearerAlways == Spec => StepsNearer
<1>1. TypeInv /\ [Next]_vars
      => [pc # "idle" => \/ Nearer
                         \/ \E fails \in BOOLEAN : Finish(fails) /\ UNCHANGED <<pc, callVars, readVars, marker>>]_vars
  <2> SUFFICES ASSUME TypeInv, Next, pc # "idle"
               PROVE  \/ Nearer
                      \/ \E fails \in BOOLEAN : Finish(fails) /\ UNCHANGED <<pc, callVars, readVars, marker>>
    OBVIOUS
  <2>1. ASSUME NEW fails \in BOOLEAN, Finish(fails)
        PROVE  Finish(fails) /\ UNCHANGED <<pc, callVars, readVars, marker>>
    BY <2>1 DEF Finish
  <2>2. CASE PowerLoss
    BY <2>2, ReturnNearer DEF PowerLoss
  <2>3. ASSUME NEW outcome,
               \/ EnableEcc(outcome) \/ ReadPage(outcome) \/ Wait(outcome)
               \/ Erase(outcome) \/ Program(outcome) \/ Mark(outcome)
        PROVE  Nearer
    BY <2>3, ReadNearer, CommandNearer, WaitNearer
  <2>4. /\ \A a, n : ~Read(a, n) /\ ~Write(a, n) /\ ~ProgramPage(a, n)
        /\ \A a, force : ~EraseBlock(a, force)
        /\ \A p, ok, sent : ~Protect(p, ok, sent)
        /\ \A ok, unread : ~InitDriver(ok, unread)
    BY DEF Read, Write, ProgramPage, EraseBlock, Call, Protect, InitDriver
  <2> QED BY <2>1, <2>2, <2>3, <2>4, Steps, Zenon
<1>2. Spec => []TypeInv
  BY Initial, Inductive, PTL DEF Spec
<1> QED BY <1>1, <1>2, PhaseType, PTL DEF Spec, StepsNearer
=============================================================================
