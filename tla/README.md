# A verification development of ST_face

ST_face is the firmware of a face-recognition camera: an application and shell
commands on top of a FreeRTOS-based SDK (`src/sdk-release-v1.4.0/sdk-v1.4.0`,
"SDK" below) whose kernel, USB controller driver and vision library come without
source.  The logic that is the repository's own and that is hard to get right is
in the drivers: a USB function driver shared by tasks and an interrupt handler,
flash drivers that rewrite sectors in several steps, and the load and upload
commands that sit between the two.  This directory models that logic in TLA+, checks it with
TLC and proves the central invariants with TLAPS.

## 1. Inventory

Paths are relative to the SDK; `uvc_camera.c` is
`components/drivers/usb2otg/functions/uvc_camera/uvc_camera.c`.

| Component | State it keeps | Operations | Who calls it |
|---|---|---|---|
| CDC-ACM transmit path, `uvc_camera.c` 1180-1253, 1870-2035 | `m_acm_send_state`, free list and send list of buffer descriptors, one `usb_request` | `usb_bulk_acm_send_buffer`, `ext_resp_in_ep_complete`, `complete` | tasks (log, shell, file upload); USB interrupt |
| CDC-ACM receive path, `uvc_camera.c` 1099-1178, 2037-2232 | `m_acm_recv_state`, free list and receive list, one `usb_request` | `usb_bulk_acm_recv_buffer`, `ext_cmd_out_ep_complete`, `complete` | the shell, the load commands; USB interrupt |
| UVC bulk video, `uvc_camera.c` 257-307, 952-1097, 1691-1843 | `m_uvc_stream_state`, `m_cur_frame`, `m_ready_frame` with its flag, `m_remain_size`, the header's frame id | `usb_bulk_commit_frame`, `video_in_ep_complete`, `uvc_start_stream`, `uvc_stop_stream` | the camera application; USB interrupt |
| Gadget life cycle, `uvc_camera.c` 808-930, 1255-1320, 1468-1541, 1621-1652 | `cfg`, `ifc`, endpoints, three requests | `set_interface`, SET_CONFIG, SET_INTERFACE, `disconnect`, shutdown | USB interrupt |
| Class requests and descriptors, `uvc_camera_ep0.c` | descriptor tables, probe and commit controls | `setup` | USB interrupt |
| SPI NOR flash, `components/drivers/flash/nor_flash/device` | the chip's contents and protection bits | `write` (read, erase, program a sector), `lock`, `unlock` | file system, load commands |
| SPI NAND flash, `components/drivers/flash/nand_flash/device` | the chip's contents and protection, bad-block table | `init`, `read`, `write`, `blk_erase`, `page_program`, `lock`, `unlock` | file system, load commands |
| Load and upload commands, `components/shell_utils/cmds_load.c`, `cmds_usb_acm_load.c`, `cmds_upload.c`, `cmds_usb_acm_upload.c` | log, shell and watchdog on or off, interrupts saved, file-system lock, buffers and files, what each target holds | `load`, `usb_acm_load`, `upload`, `usb_acm_upload` with their variants (address, memory, partition, file, EEPROM, package) | shell |
| USB sink/loopback gadget | as the gadget above, one loop of two requests | `set_interface`, `complete`, `setup` | USB interrupt |
| Face-recognition client, `src/libfacelock/facelock_sdk_test.c` | `m_test_state` and the result | start a command, poll, callback | test task; library |
| Sensor, display, audio, touch, fingerprint drivers; examples; GUI libraries | registers | I2C/SPI sequences | application |

How they interact.  A task in a USB call holds the function driver's mutex while
it works on a list, and masks the USB interrupt in addition; the interrupt
handler needs no lock.  The *decisions* what to do with a list, however, are made
from a volatile state variable that is read outside both.  Buffers travel by
pointer swap between list descriptors and the request the controller reads or
writes by DMA.  The host's control requests run in the same interrupt and free
and re-create the requests under tasks that may be sleeping in a poll loop.

What is hard, and so what the properties are about (the complete list, line by
line, is `hazards` in `PROJECT.json`):

* a state read before the lock and used under it (four of the findings);
* buffers that change owner by pointer swap at four places in two contexts;
* the order of data through a full list, a refused request, a repeated transfer;
* calls that poll for ever and must be released by the other party;
* a configuration that fails half way, and requests freed at five places;
* a sector or block that is erased and not yet programmed again, a chip that is
  still busy when the driver goes on, and a bad-block table that has to agree with
  what the chip says;
* one exit for a dozen failures of a command, some of them before it has switched
  anything off.

What makes each component correct:

* *transmit / receive*: one owner per buffer; the channel is a FIFO pipe; the
  request is queued at most once; a call that waits for ever returns; nothing is
  forgotten in a list or in a parked request;
* *video*: no frame is leaked or released while it is sent; frames in order, with
  alternating frame ids, and no part with the length of another transfer; a pending
  frame is taken without another commit;
* *life cycle*: each request is freed once and none is lost; without a
  configuration nothing is enabled or queued; a clean SET_CONFIG recovers from
  whatever came before;
* *NOR flash*: a write that reports success leaves exactly the bytes asked for
  changed; a failed one harms no sector but the one it stopped in; a locked region
  stays as it is;
* *NAND flash*: the same by block; a read that reports success delivers what was
  asked for, also when pages are loaded ahead; the table knows every marker on the
  chip; no command meets a protected chip;
* *load and upload commands*: what was switched off or taken is given back on every
  way out; SUCCESS means that the targets hold what was sent and nothing else was
  touched, and the exceptions to that are known.

## 2. Plan

Order of the modules, the most important behaviour first.  Done so far: 1 to 8.

1. `AcmSend` with the abstract `FifoPipe`: the path every log line and reply
   takes, two contexts and no lock between decision and action.
2. `AcmRecv`: the mirror path, with partial reads and parked buffers.
3. `UvcStream`: video frames between a committing task, the interrupt and a host
   that starts and stops the stream.
4. `UvcGadget`: what the first three take for granted, the life of endpoints and
   requests.
5. `NorFlash`: a write of the NOR driver, with errors, timeouts and power loss.
6. `NorFlash`, continued: `lock` and `unlock` with the protection tables.
7. `NandFlash`: the bad-block table, the rewriting of a block and cached reads in
   `gd5fxx.c`.
8. `TransferCommands`: what the load and upload commands suspend, what they restore
   on each error path and what they report.
9. Compositions: `AcmSend` under the reconfigurations of `UvcGadget` (the hazard of
   `uvc_camera.c:886`).
10. The sink/loopback gadget, as a second instance of the life cycle.

Abstract specifications worth stating: `FifoPipe` (both ACM directions refine it,
now; the receive path under refusals its lossy variant); an atomic sector store that `NorFlash` refines as long as no power is lost;
a latest-frame mailbox for `UvcStream`.

Theorems, in order: types, ownership and the single transfer of `AcmSend` (done);
types and the four safety properties of `NorFlash` (done); types and both properties
of `TransferCommands` (done); types and the three safety invariants of `AcmRecv`
(done); all safety properties of `UvcGadget` and of `UvcStream` (done); all safety
properties of `NandFlash` (done); the three refinements of
`FifoPipe` (done); that the calls of both flash drivers come to an end (done, as a
variant).

The modules are written for both tools: parameters and bounds are CONSTANTS with
a named assumption, one action per handler or per uninterrupted section of a
task, invariants as conjunctions of named parts, and no RECURSIVE operator.

## 3. Modules and code

| Module | Models | MC module, configurations | Proofs |
|---|---|---|---|
| `FifoPipe` | what a byte channel promises (abstract) | through `AcmSend`, `AcmRecv` | |
| `AcmLists` | lists of buffer descriptors | | `AcmListsProofs` |
| `AcmSend` | the transmit path | `MCAcmSend`: `AcmSend`, `AcmSendIdle`, `AcmSendKick`, `AcmSendTwo` | `AcmSendProofs` |
| `AcmRecv` | the receive path | `MCAcmRecv`: `AcmRecv`, `AcmRecvKick` | `AcmRecvProofs` |
| `UvcStream` | bulk video | `MCUvcStream`: `UvcStream`, `UvcStreamFormats` | `UvcStreamProofs` |
| `UvcGadget` | life cycle of endpoints and requests | `MCUvcGadget`: `UvcGadget` | `UvcGadgetProofs` |
| `NorFlash` | `w25qxx_write`, `_lock`, `_unlock` and the chip | `MCNorFlash`: `NorFlash` | `NorFlashProofs` |
| `NandFlash` | `gd5fxx.c` and the chip | `MCNandFlash`: `NandFlash` | `NandFlashProofs` |
| `TransferCommands` | the load and upload commands | `MCTransferCommands`: `TransferCommands` | `TransferCommandsProofs` |

`map` in `PROJECT.json` gives the lines of every definition.  The correspondence
in outline:

**AcmSend, AcmRecv.**  Variables are the driver's: `state` is `m_acm_send_state` or
`m_acm_recv_state`, `freeList`, `sendList` and `recvList` the three kinds of list,
`buf`, `cnt` and `off` the fields of a descriptor, `reqBuf`, `reqLen` and `actual`
those of the `usb_request`, `queued` how often the controller has it.  A section
that runs with the mutex held and the USB interrupt masked is one action; the
unmasked reads of the state, and the copy into a buffer, are actions of their own
with a program counter between them: `GetFree`, `ReadStateWhenFull`, `Kick`,
`Fill`, `AddToSendList`, `CheckState`, `LastKick` are the statements of
`usb_bulk_acm_send_buffer` in order.  `Complete` and `Receive` are `complete()` with
the endpoint's handler, as a whole.  A buffer's content is the chunk (sender,
number, length) put in it, or, in `AcmRecv`, the numbers of its bytes.

**UvcStream.**  A commit holds the mutex throughout, so there is one task; its reads
of the state, the keeping of the first two frames, the exchange with `m_ready_frame`
and the watching of a transfer are steps between which the interrupt may run.
`NextPart` and `NextFrame` are the branches of `video_in_ep_complete`.  A frame is a
number of parts (payload transfers) with a sequence number and a format.  After an
error, or when the watching commit takes a transfer off the controller, the request is
queued again with length `DWC_REQ_SIZE` (1281): a longer part reaches the host cut, a
shorter one padded.  `req.whole` is FALSE then, `last.whole` says how a part arrived, and
the history variable `failed` which parts may arrive so: `FramesInOrder` does not promise
whole frames, but that only a part whose own transfer failed has a wrong length.

**UvcGadget.**  `dev` is what the handlers of the USB interrupt work on: whether the
endpoints are enabled, the request each points to, the allocator, the controller's
queues.  `SetUp(d, f)` is the straight line of `set_interface` up to the call that
fails at `f`, `Cleanup` its error exit.  Tasks are reduced to what matters here:
they read a request, keep it, and queue it later.

**NorFlash.**  `pc` tells where `w25qxx_write` is in the sector it works on; `base`,
`addr`, `length`, `index` and `swap` are its locals.  `Read` is the read of a sector
and the comparison that decides on the erase; `Erase`, `Program` send a command,
`Wait` is `w25qxx_wait_for_ready`, `Advance` the two loops.  The chip (`op`, `Finish`,
`PowerLoss`) is external: it executes one command at a time, ignores commands
while busy, sets the bits of a sector by an erase and clears bits of a page by a
program.  `LockLevel` is the search of `w25qxx_lock` in `feature_prot_cfg_lut`, whose
bounds are the constant `Bounds` (empty for `w25q128`, which has no table); `Protect` is
`w25qxx_write_prot_cfg` up to its command, `EndProtect` the wait behind it.
`protected` is the area the chip's bits protect, `locked` the region of the latest
lock that was carried out.

**NandFlash.**  `lut` is `m_bblk_lut`, `up` is `m_gd5fxx_inited`; `addr`, `length`,
`readAddr`, `readLength` and `mode` are the locals of `gd5fxx_write` and
`gd5fxx_read`, `buf` the buffer read into (the caller's or `swap_buf`).  `Write`
enters `StartBlock`, which reads a block only if it is partly written; `EnableEcc`,
`ReadPage` and `FetchPage` are the loop of `gd5fxx_read` with its three ways to load a
page; `Erase`, `Program` and `Mark` send a command, `Wait` polls, and `Condemn` is
`gd5fxx_mark_bad_blk`, which changes the table first and is then refused the program of
the marker.  A cell holds the address and the call its contents came from, or junk
that no ECC corrects.  The chip (`Finish`, `PowerLoss`) may fail a command, refuses
it while protected, and tears what it was working on.

**TransferCommands.**  All commands have one shape, so `cmd` tells which runs, and
tables (`ChangedFirst`, `ChangedAll`, `TakenBefore`, `BackAfter`, `GivenBack`) what each
takes, switches off and gives back at which of its lines.  `Begin` is a command up to
its transfer or its first failure, `Transfer` the protocol, `Unpack`, `StartWrite`,
`EndWrite`, `StartVerify`, `EndVerify` the steps behind it, `Item` the loop of `ota()` over
a package, `Out` the common end.  `off` is what is off now, `heap` and `ptrs` are the
buffers, the open file, the transfer's handle and the pointers to them that the end
frees; `told` is what the command has printed.  A load whose transfer brings no bytes
goes on if only `ret < 0` is an error there (`Transfer("empty")`), and a file is read back
into memory nobody has checked (`StartVerify(FALSE)`).

### What is external, and what is assumed of it

* *The USB controller driver* has no source.  `queue()` accepts a request or not; it
  takes the request's buffer, as `uvc_camera.c` relies on when it swaps `req->buf`;
  a completed request is out of the queue; completion callbacks run in the USB
  interrupt, one at a time.  `uvc_camera.c:1223` says that a refusal in the interrupt
  "should never happen", so `IsrQueue` and `Queue` are `{TRUE}` in the runs; tasks may
  be refused (`TaskQueue` is `BOOLEAN` in `AcmSend`).
* *`configASSERT`* loops for ever with interrupts off (`syslog.h:56`): `halted`.
* *The frame manager* counts references: a frame released by its last owner is in
  the pool again.
* *The senders* are the shell and the log, both redirected to USB by
  `cmds_os_acm_shell.c:96`, and file upload; two of them can be in
  `usb_bulk_acm_send_buffer` at once, since the mutex covers only the list sections.
* *The NOR chip* is taken from how the driver uses it (write-enable, erase, program,
  BUSY bit).  What a busy chip answers to a read is arbitrary; an erase or program
  cut by a loss of power leaves each bit old or new.  Its protection bits are kept
  without power, so any level may be set at the beginning; a protected sector ignores
  erase and program as a whole, and the chip answers like at any other.
* *The NAND chip* answers a failed or refused command with P_FAIL or E_FAIL; it
  protects all its blocks at power-up; a page that was torn shows an ECC error; a
  cached read loads the next page of the same block.
* *The console, the file system's lock, the flash streams and the transfer protocols*
  have no source (`os_log_*`, `shell_suspend`, `ota_load_ymodem`, `simpl_trans_*`,
  `flash_io_*`): each call works or fails, a transfer may bring nothing, and a write
  may leave something else than it was given.  `Reset` stands for the power and for
  the watchdog.

### What is abstracted

* `AcmSend`: `wait_option` counts down over both waits of a call together, as in the
  code.  After a failed transfer the request is always accepted again.  After the
  request has been queued twice (two senders) the contents on the wire are not
  followed.
* `AcmRecv`: one reading task; the repetition of a failed transfer changes nothing.
* `UvcStream`: a watched transfer reads `m_remain_size` once, the code twice.  A start
  or stop in the middle of a transfer sets `cut`; the properties about transfers
  claim nothing from then on (the request of the old stream is still queued when
  the state is reset: see the hazards).
* `UvcGadget`: one class of task per endpoint; `bind`, `unbind` and suspend are left out.
* `NorFlash`: a byte is a set of bits; the read of a sector and the comparison are one
  step, since nobody else uses the chip; the assertion after `aiva_malloc` is left
  out.  `missed` is set when a call begins while the chip is still busy, or when a
  failed status read is taken for "ready" while it is busy; the three safety
  properties claim nothing for such a call.  That is a real weakness of the code and
  listed among the hazards: `w25qxx_is_busy` drops the result of its read, and
  `w25qxx_write` does not wait for a chip left busy by a timed-out call.
  `LockedUnchanged` needs no such exception.  It counts a region as locked only if the
  chip answered "ready", the driver has a table for the chip, and the region's end does
  not wrap: without a table `lock` unprotects, and a wrapped end protects too little.
* `NandFlash`: requests whose end stays below 2^32.  `missed`, `late` and `lost` mark
  what no property can claim: a failed poll taken for "ready" (at most once until the
  driver is started again), a chip busy with what an earlier call has sent, and cells
  that could not be read before their block was erased.  `gd5fxx_init` is one step,
  which reads every marker but those in `Unreadable`.
* `TransferCommands`: wrong arguments of a load, a missing file name included, and the
  registration of the state callbacks are left out, and so is `usb_acm_load_eeprom`,
  which no command calls.  Closing a file and moving in it are taken to work (the code
  looks at neither result), and a transfer whose handle could not be made counts as a
  failed one.  Contents are old, torn, bad, empty or new.  Where a command depends on nothing but its own steps these are one action;
  the file system's lock, the console and a reset come between any two.

## 4. Runs

| Run | Question | Bounds | Result |
|---|---|---|---|
| `acm_send` | one sender: ownership, order, no loss, right lengths, calls return | 2 list buffers, 4 chunks in calls of up to 3, one failed transfer, any refusal | holds |
| `acm_send_idle` | is everything sent when the channel is idle? | the same without errors | violated |
| `acm_send_kick` | does the asserted buffer exist? | the same | violated |
| `acm_send_two` | is the request queued once with two senders? | one chunk each | violated |
| `acm_recv` | ownership, order, partial reads; all read and reopened unless the assertion of `acm_recv_kick` fails | 2 list buffers of 2 bytes, 5 bytes, reads of up to 3, one empty transfer | holds |
| `acm_recv_kick` | does the asserted buffer exist? | the same | violated |
| `uvc_stream` | frames: leaks, order, lengths, hand-over, DMA | 3 frames of 1 or 2 parts, 5 commits, 2 commands of the host, 1 failed transfer | holds |
| `uvc_formats` | do exchanged frames agree in format? | 2 formats, 2 commands | violated |
| `gadget` | requests freed once, none lost, recovery, failed configurations refused | 4 request addresses, 2 alternate settings, every point of failure | holds |
| `nor_flash` | success means written, failure harms one sector, a locked region stays, calls return | 2 sectors of 2 pages, requests within, across and past sectors, one whose length wraps; a table of 2 bounds | holds |
| `nand_flash` | success means written or read, failure harms one block, table and markers agree, no command on a protected chip, calls return | 2 blocks of 2 pages of 2 cells, one bad from the factory, cached reads, 2 calls, 3 requests | holds |
| `transfer_commands` | what is taken is given back, SUCCESS and FAILED mean it | 3 targets, every command, every failure, two other tasks, a reset at any step | holds |

Why the bounds are enough.  The lists are full with two buffers, which is where the
interesting branches start, and they wrap around within four chunks: each
descriptor is used more than once and each buffer passes through the request.
Three frames fill the roles current, ready and committed at once, and the fourth
and fifth commit go through each exchange again.  Four request addresses let a
freed address be handed out to another endpoint while a task still holds it.  Two
sectors of two pages have a first, a last and a neighbouring page and sector; one
bit per cell is enough because erase and program treat bits alike.  The NAND
requests are one cell of a page, all the chip behind its first cell with a length that
is cut (one block partly, one wholly written, a cached read with a first, a next and a
last page), and an address outside; two calls are enough for one to find what another
has left.  With three partitions a package has a first item, one after a skipped
one, and two packed ones.  Every run
explores its bounded state space completely (no constraint on the search), and no
symmetry is used.

`CHECK_DEADLOCK FALSE` stands where a system may really stop: on a failed assertion, or
when a bounded host or sender has nothing more to do.  The flash runs and
`transfer_commands` are checked for deadlock.

Every property of a passing run has a mutant in `PROJECT.json`: a variant of one
definition with a plausible slip, defined in the module just before it, with
which TLC finds the property violated.

### Findings

* **Data left behind** (`uvc_camera.c:1236`, `acm_send_idle`).  In LAST_DATA the
  interrupt goes to IDLE without looking at the send list.  A buffer appended during
  the last transfer stays there until another call.
* **An assertion that can stop the system** (`uvc_camera.c:1942`, `acm_send_kick`).  A
  task that found no free buffer and then read IDLE asserts that the send list is
  not empty; the interrupt may have emptied it between the two reads.
* **The same on the way in** (`uvc_camera.c:2111`, `acm_recv_kick`).  A task that found
  nothing received and then read IDLE asserts that there is a free buffer; between the
  two reads the interrupt may have filed them all and parked one more.  The system stops
  with the bytes unread.  So `ReadUnlessKickFails` and `ReopensUnlessKickFails`, which say
  that everything is read and that the channel opens again, say so only until then.
* **A request queued twice** (`uvc_camera.c:2006`, `acm_send_two`).  Two senders that
  both read IDLE both start a transfer.  `OneTransferHolds` proves that one sender
  cannot.
* **Frames of two formats exchanged** (`uvc_camera.c:1766`, `uvc_formats`).  A stream
  restarted in another format meets a frame of the old one, and the assertion in
  `SWAP_FRAME_BUFS` fails.

What the passing properties name as exceptions is not in this list, since no
document of the repository says otherwise, but worth knowing.  `Silent` in
`TransferCommands` holds the failures reported as a success.  `Harmless` are: no memory or
an empty transfer in `serial_load`, an upload without a file name or of a file that cannot
be opened (`usb_acm_upload_file`), an upload that sends less than everything, a file that
grows into the next partition when it is unpacked, and an item of a package that is
skipped or cannot be unpacked.  `Unverified` may leave another file: one that differs
(`serial_load_file`), one emptied by a transfer of no bytes (`usb_acm_load_file` tests
`ret < 0` at 171, the other commands `<= 0`), and one compared with address 0, since the
buffer to read back into is not checked (`cmds_load.c:337`, `cmds_usb_acm_load.c:201`,
775).  `Restored` names what is lost: the buffer of a packed item before another one, the
flash stream of `usb_acm_upload_part` when reading fails, and the handle of the transfer
in `usb_acm_upload_eeprom` (`cmds_usb_acm_upload.c:282`), always; and `serial_load` without
memory gives back what it had not taken.  `ConfigRecovers` names the one failure of
`set_interface` that is not reported: the allocation at `uvc_camera.c:882`, with `ret` still
0, after which SET_CONFIG is accepted and nothing is enabled.  Beside the model:
`usb_acm_upload_part` reads the flash without the file system's lock, and
`serial_load_file` writes with the watchdog running.  `TableKnowsMarkers` states that a
block the NAND driver finds bad is good again after a restart.

## 5. Fairness

* *Tasks* (`AcmSend`, `AcmRecv`, `UvcStream`): weak fairness of a call's own steps.  The
  polling loops sleep (`usleep`, `msleep`) and are scheduled again; nothing blocks
  for ever on the mutex, which is held for bounded sections.  Nothing makes a task
  begin a call, except for `AcmRecv`, whose shell reads again and again.
* *The host* enumerates the device and reads the endpoint (weak fairness of
  `Configure` and `Complete`); in `AcmRecv` it need not send anything.
* *The controller* does not refuse a task for ever (strong fairness of an accepted
  `Kick`): a refusal comes from a device state (reset, suspended) that passes.  This is
  needed only for calls that wait for ever.
* *NorFlash, NandFlash*: the caller's task runs and a wait ends, with "ready" or after
  20 seconds with "timeout".  The chip need not finish, and commands and status reads
  may fail or not.

The liveness properties are stated under `FairSpec`; the safety properties and all
theorems need only `Spec`.

## 6. What is proved

All theorems hold for every value of the constants that the named assumptions
(`SendAssumption`, `RecvAssumption`, `StreamAssumption`, `GadgetAssumption`,
`NorAssumption`, `NandAssumption`, `TargetsAssumption`) allow, in particular without
the bounds of the runs: any number of senders, buffers, chunks and frames, any set of
more than three request addresses, any size of page, sector and chip, any table of
bounds, any number of targets.

**AcmListsProofs**: head and tail of a list without repetitions, an entry put at either
end.  Stated with ASSUME/PROVE once and cited by both ownership proofs.  For the
refinements it adds the laws of concatenation: `FlattenAppend` and `FlattenPush` say what
an entry at the end or at the front does to `FlattenSeq`, and `GrowsAtEnd` and
`LeavesAtFront` are the two steps of the pipe.  `FlattenSeq` of the community modules is a
recursive function, so its laws need induction.  The induction theorems of the library
take an operator as a parameter, which the installed provers cannot instantiate; instead
`SetInduction` is stated of a set of numbers and proved from the well-foundedness of `<`:
a least number outside the set would have its predecessor inside.  With it
`FlattensUnique` shows that the partial concatenations are determined, whatever function
`CHOOSE` picks, and the laws follow by extending them by one entry.

**AcmSendProofs.**

* `TypeCorrect`.  `TypeOK` is not inductive: that `left` never becomes negative and
  that a descriptor is in hand when it is used depends on the program counter.
  `TypeInv` adds `Locals`, which says both.
* `OwnershipHolds`.  `Ownership` is inductive together with `TypeInv`.  The proof has
  one step per action; the cases of interest are the two swaps (`StartTransfer`,
  `SendNext`), where two owners exchange buffers, and `GetFree`/`AddToSendList`, where
  a descriptor passes through a task's hands.  It needs no assumption on how many
  tasks send: the masked sections suffice.
* `OneTransferHolds`, for one sender (`OneSender`).  The strengthening is
  `IdleMeansFree`: the state IDLE means that nothing is queued, and a sender that has
  decided to start a transfer still finds it so.  Only the sender leaves IDLE, so what
  it read outside the lock is still true under it.  With two senders this step fails,
  as run `acm_send_two` shows.
* `FreeBuffersResetHolds`.  A free descriptor has count 0 because two places clear the count of
  one they take off the send list.  `Reset` adds the descriptor in a sender's hands before it is
  filled, and the proof cites `OwnershipHolds`' invariant: what is cleared is in no other list.
* `StateTellsTransferHolds`, for one sender and as long as the controller accepts what the
  interrupt queues (`IsrQueue \subseteq {TRUE}`): BUSY and LAST_DATA mean exactly one
  request in the controller, any other state none.  This is the safety half of
  `ForeverReturns` and `BusyDrains`: a state that claims a transfer which is not there
  would never be left.  A refusal in the interrupt makes just that.
* `PipeRefined`: the transmit path implements `FifoPipe`, for one sender (`OneSender`),
  whatever the controller refuses, to the task or to the interrupt.  `Init` maps to `Pipe!Init`; `AddToSendList` is
  `Pipe!Put` (`AppendEnters`); a completed transfer is `Pipe!Take` when it carried a chunk
  (`CompleteLeaves`), and every other step stutters (`Still`), the swap in
  `StartTransfer` included: the head of the list becomes what is in flight.  The
  invariant is `Filled`: what is listed holds a chunk and has a count, so the request that
  carries nothing is exactly the empty first transfer, also when an error makes the
  driver queue it again with the length of a full buffer.  What is in flight is what the
  request carries while the state is not IDLE, in the controller or, after a refusal in
  the interrupt, still waiting for it: such a refusal stops the pipe, and nothing overtakes
  the chunk that is stuck in it.  One sender is needed: two of them swap the buffer of a
  running transfer (`acm_send_two`), and the chunk in it leaves the pipe unsent.
* `LengthsKeptAlways`, for one sender, whatever the controller refuses.  After an error
  the driver queues the request with the length of a full buffer (`uvc_camera.c:1281`),
  so the transfers whose length is not that of their chunk cannot be none; `LengthsKept`
  says that there are at most as many as errors.  `LengthInv` adds two facts.  `Sized`:
  the count of every filled descriptor, in a sender's hands or in the list, is the
  length of what its buffer holds; it is carried through the swaps by `Ownership`, since
  the buffer that is filled or exchanged is no other descriptor's.  `Paid`: if the
  request itself has a wrong length now, that error is not yet used up, so the transfer
  it completes (`SpoiledGrows`) stays within the bound.

**AcmRecvProofs.**  The path has one reading task, in the model as in the program.

* `OwnershipHolds`, with `TypeInv` (the types, and that a descriptor is in hand exactly
  while its bytes are copied and given back).  Both handlers that file a transfer, the
  task's and the interrupt's, are the one step `File`.
* `OneTransferHolds`, from `IdleMeansParked`: what the task read outside the lock, IDLE,
  is still true under it.
* `InsideBufferHolds`, from `Contents`, the strengthening that `InsideBuffer` needs: a
  free descriptor has count 0, a count 0 goes with offset 0, and a parked `actual` is
  not larger than what was received.  Without the second fact the interrupt, which
  sets the count of a free descriptor but not its offset, would file bytes behind an
  old offset.
* `TypeCorrect` comes last: that an offset does not exceed a buffer and that the copy
  yields bytes follow from `Contents`.
* `PipeRefined`: the receive path implements `FifoPipe`, as long as the controller accepts
  what the task queues (`TaskQueue \subseteq {TRUE}`); to the interrupt it may answer
  anything.  What waits is what is left of the buffer in hand, the bytes filed and the
  bytes parked, in this order.  `Receive` is `Pipe!Put`, by whichever of its branches
  (`ReceiveEnters`: filed, or parked), `CopyOut` is `Pipe!Take` of the bytes copied
  (`CopyOutTakes`), and the rest stutters: the head of the list goes into the caller's
  hand (`GetReceivedStill`), a rest goes back to the front (`GiveBackStill`), and the parked
  bytes become the last ones filed (`RequeueStill`).  It rests on `Contents` again, and on
  `Ownership`: a buffer that is filled anew is nobody else's.  Without the hypothesis the
  theorem is false, since a refused `Requeue` has already cleared `actual` and forgets
  what was parked (a hazard of `PROJECT.json`).
* `LossyRefined` says how much is lost then, with no hypothesis at all: the path implements
  `Pipe!LossySpec`, a pipe that may also drop the end of what waits (`Lose`).  A refusal
  costs the parked bytes, which are the last ones received (`RefusedLoses`), and nothing
  that was filed; order holds, and nothing is given twice.
* `StateTellsTransferHolds`, as in the transmit path, for `IsrQueue \subseteq {TRUE}`: the
  safety half of `ReopensUnlessKickFails`.

**UvcStreamProofs.**

* `TypeCorrect` and `FramesAccountedHolds`.  `Kept` says which pointers are set in which state and
  at which place of a commit; once set, the current and the next frame are replaced and never
  taken away, so nothing that is followed is NULL and nothing is released twice.
* `DmaReadsCurrentHolds`.  `Decided` is what the unmasked read of the state is worth: a state in
  which nothing is sent is left only by the task itself or by the host's reset, so it is still
  true, or reset, when the commit acts on it.  With it `OneSent` is inductive.
* `StateTellsTransferHolds` and `FramesInOrderHolds`, under `NeverRefused`: a refusal in the
  interrupt leaves the state BUSY with nothing queued.  `InOrder` says that what is in flight
  follows what the host has received last, and `Numbered` that the next frame is newer than
  the current one whenever it may be sent after it.  `Numbered` is not so in every state: when
  a restart comes between a commit's decision and its exchange, the frame exchanged is older
  than the first one kept then.  `MayFollow` names the states in which it must hold.
  `Lengths` is the part about lengths: what is in flight has its own length unless its own
  transfer has failed, since every part has its length written anew; it needs `OneSent`, but
  not `NeverRefused`.

**UvcGadgetProofs.**  All six properties follow from one invariant, `Inv`: types, and `Order`,
which says that requests and endpoints correspond one to one (`Tidy`), that a disabled device
holds nothing (`Blank`), and that, until a task has queued a request that had been freed, what
the controller holds is its endpoint's request or one of a device no longer configured
(`Fresh`).  `SetUpFacts` says of every point at which `set_interface` may stop what it has made
of the device.  `ConfigRecoversHolds` uses `Blank` twice: `set_interface` starts from a device
without endpoints, or it would return 0 at once.  That an address is left to allocate rests on
the size of the set and on the well-foundedness of the order, which the theorem modules provide.

**NorFlashProofs.**

* `TypeCorrect`.  Sector and page addresses stay inside the chip although the length of
  the request need not (it is not cut when `addr + length` wraps).  `Locals` holds the
  relations of `base`, `addr` and `index`.  The arithmetic of pages and sectors
  (`Sizes`, `Pages`, `SectorBase`, and for the tables `LevelsAreBoundaries`,
  `LockLevelFacts`) is separated, since only there products occur.
* `DamageConfinedHolds`, `OkMeansWrittenHolds`, `ProgramTakesHolds` follow from one
  invariant, `SafeInv`: unless a busy chip was overlooked, `Progress`.  `Progress` says,
  for each place of the call, how far the sector has come: outside it everything is
  as it should be (`Outside`); a command in progress touches only this sector and
  sets no bit by a program (`Pending`); `swap` is what the sector held (`Kept`); pages
  before `index` hold their new contents, and the later ones still allow them
  (`Programming`).  None of the three properties is inductive: that the neighbours of
  the request survive an erase is true only because of what `swap` still holds.  A
  protected sector is `Shielded`: whatever place the call has come to, it is as it
  was; no sector is protected in part, since all bounds lie between sectors.
* `LockedUnchangedHolds`, an action property, from `LockInv`: what is locked is
  protected, a command the chip has accepted was not meant for a protected sector, and
  while a lock is being carried out nothing counts as locked.  `LockLevelFacts` says
  that the level chosen from any table covers the region.
* `StepsNearerAlways` is the part of `CallReturns` that is not about fairness: a call
  cannot go round for ever.  `Phase` numbers the places of a call within a sector, and
  every step of the driver lowers the pair of `length` and `Phase`, or returns.  `PhaseType`
  shows that these are natural numbers, so there are finitely many steps for any
  geometry, also when the length wraps and is not cut.

**NandFlashProofs.**

* `TypeCorrect`.  `TypeOK` is not inductive: that an address which is read, erased or
  programmed lies in the chip depends on the place of the call.  `TypeInv` adds `Places`
  (which call can be where), `Extent` (what is left of the request) and `ReadExtent` (what
  is left to read).  As for the NOR driver, products occur only in the lemmas on pages and
  blocks; that a page loaded ahead exists is `NextPage`.
* `CommandsUnprotectedHolds` is inductive as it stands.
* `TableKnowsMarkersHolds`, from `TableInv`.  Two facts are added: a block is condemned in
  the table before it is to be marked, so its marker is always refused (`MarkRefused`), and
  an erase that ends well has taken the marker away before the block leaves the table
  (`EraseInv`).
* `OkMeansReadHolds`, `OkMeansWrittenHolds` and `DamageConfinedHolds` are properties of a
  call during which no failed poll was taken for "ready", and so are the three invariants
  they rest on.  `WorkInv`: until the chip has done what an earlier call has sent (`Late`),
  this call has sent nothing; from then on the chip works at the last command of this call
  or at nothing (`Calm`).  `FillInv`: the buffer holds what is on the chip up to the page
  that is fetched next, and a page loaded ahead is that page (`FetchDelivers`).
  `WriteInv`: for every place, which pages of the block are programmed (`Progress`), that
  the buffer has what the request leaves of the block but for what was lost (`Saved`),
  that a block is as it was before it is erased (`Intact`), and that the blocks behind are
  done (`Begun`, `Confined`).  The steps to prove are the end of a program (`FinishProgress`)
  and the change to the next block (`BlockDone`, `AdvanceWrites`).  `Whole` joins all
  invariants of the module.
* `StepsNearerAlways`, as for the NOR driver, with the triple of what is left of the
  request, the place in the block and what is left to read: a block found bad by an erase or a
  program ends the call, one found bad while a write reads it is marked and then erased,
  and neither is tried again.

**TransferCommandsProofs.**

* `TypeCorrect`, from `TypeInv`, which adds `Course`: which command can be at which place,
  and that the lock of the file system is held only there.
* `RestoredHolds`.  `Inv` says for every place what is off (`OffMatches`) and that
  pointers and buffers agree, but for the handle of a running transfer (`HeapMatches`); the step to prove is that what a way to
  the end has left off is what the end gives back (`LateEnd`, `BeginRestores`).
* `SuccessHoldsAlways`, from `ReportInv`: on the way to SUCCESS (`Progress`) the items
  done hold what was sent, the others are as before, and what went wrong without an
  error is in `Silent`; at the end `Outcome` holds of what will be printed.

Only model-checked: the seven liveness properties, which TLAPS does not prove
(`ForeverReturns`, `BusyDrains`, `ReadUnlessKickFails`, `ReopensUnlessKickFails`,
`PendingTaken` and the `CallReturns` of both flash drivers; of the last two the variant is proved, and that
the driver keeps running is the fairness assumed).  The other way round, the type
invariants of `NorFlash`, `AcmRecv` and `TransferCommands`, and both `StepsNearer`, are
proved and not part of a run.

## 7. What is not modelled

Class requests, descriptors and the control endpoint's data stage (answers from
tables); `bind` and `unbind` of the gadget; the sink/loopback gadget (planned, see 2);
of the NOR drivers page program and sector erase as calls of their own,
initialisation and quad mode, and the siblings of `w25qxx.c`, which repeat its
algorithm, but whose writes always return `FLASH_OK`; of the NAND drivers the
identifier pages and the siblings of `gd5fxx.c`; sensors, display, audio, touch and
fingerprint drivers (register sequences without a state of their own); the
face-recognition client (a test of a closed library); the other shell commands
(wrappers around one call); vendored graphics, which is nearly all of the repository's
text, examples, and the libraries without source.  `components` in `PROJECT.json`
gives the reason for each.
