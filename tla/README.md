# A TLA+ verification of rtss-mailbox-umd

rtss-mailbox-umd is the Linux user-space side of a shared-memory mailbox
between an application processor and a real-time subsystem (RTSS): a ring-buffer
library, the open/read/write/close middleware on it, and applications that log
and that update the RTSS firmware over it. This directory models its own logic
in TLA+, checks it with TLC on small instances, and proves with TLAPS, for every
size, that the ring is a queue and all the safety properties of the rest.

Paths below are relative to the repository root; `lib.c` is
`middleware/safemlib/src/rtss_mailbox_lib.c`, `mailbox.c` is
`middleware/mailbox/src/rtss_mailbox.c`, `update_lib.c` is
`apps/rtss-updater/lib/rtss_update/src/rtss_update_lib.c`, `updater.c` and
`updater_cmd.c` are in `apps/rtss-updater/demo/src`, `guidpt.c` is
`apps/rtss-updater/lib/rtss_gpt/src/rtss_guidpt.c`, `mbdemo.c` is
`apps/rtss-mbdemo/rtss_mbdemo.c` and `dbg.c` is `apps/rtss-dbg/rtss_dbg.c`.

## Inventory

| Component | State it keeps | Operations | What is hard | What makes it correct |
|---|---|---|---|---|
| Ring (`lib.c`) | per channel, in shared memory: `item_in_index`, `item_out_index`, the items | `LibMB_Write`, `LibMB_Read`, `LibMB_ChanReset`, the item counts | two processors and no lock; wrap-around; full against empty; a reset of two stores | nothing lost, repeated, torn or reordered; the two copies never meet |
| Layout (`lib.c`) | the descriptor, the magic number | `LibMB_ChanMapInit`, `LibMB_Create`, `LibMB_Validate` | sums that wrap, sizes at the limit, offsets set by hand, creating again under a client | regions disjoint and inside the mailbox; a map that was made is accepted; no write leaves its region |
| Receive path (`mailbox.c`) | an eventfd per channel | `rtss_mb_read`, `_read_timed`, `_get_fd`, `_chan_reset` | interrupts that coalesce, arrive before the wait or long after their items were read; short buffers; signals | no lost wake-up, bounded waits, everything delivered |
| Send path (`mailbox.c`) | none | `rtss_mb_write`, `_write_batch`, `_send_trigger` | the interrupt fails after the items are in the ring | what was acknowledged is consumed; nobody sleeps on announced items |
| Handles (`mailbox.c`) | heap block, fd, mapping, eventfd | `rtss_mb_open`, `rtss_mb_close` | seven steps that fail, each with its own clean-up | no leak, no double close |
| Console (`apps/rtss-console`) | `g_running` | loop on `rtss_mb_read` | a signal between any two steps | stops when told, and only then |
| Handshake (`update_lib.c`) | `libstate`, two counters | `rtss_upd_is_ready` | late answers, retries, what a killed process left in the rings, resets against a live peer | always ends; leaves known state |
| OTA buffer (`update_lib.c`) | one mapping, a reference count, a mutex | `rtss_upd_get_ota_buffer`, `_release_` | threads; unmapping outside the lock; a signal handler that releases | nobody holds a dead mapping; the count is exact |
| Update sequences (`updater.c`, `updater_cmd.c`) | `rtss_updater_hndshk`, the OTA buffer | pre-reboot, post-reboot, flasher, GPT update | answers without numbers, a stale status, a buffer shared with RTSS, kills and restarts | flash only from a healthy boot, commit only what is flashed, buffer stable under RTSS |
| GPT library (`guidpt.c`) | the header last read, the device, the work buffer, `init_done` | `rtss_gpt_partition_init`, `_deinit`, `rtss_gpt_get_partition_info` | a table rewritten or torn under the reader, state an earlier or refused init leaves | the best copy is found; a lookup answers from the table that was verified; reads fit the buffer |
| Mailbox demo (`mbdemo.c`) | the open status of each channel, a signal flag | open, write and read core by core, close | a signal at any point, opening that stops in the middle, answers of an earlier run | answers match requests; nothing left open or unread |
| Debug utility (`dbg.c`) | two handles, two more in the performance test | rounds, file commands, performance test | series of answers, resets, a busy wait for a timestamp | the same, and every run ends |
| CRC, configuration parsing, command lines, logging | | | parsing and formatting | not modelled, see below |

RTSS firmware and the kernel driver are not in the repository. They are modelled
from how this code uses them and marked external: RTSS takes requests in order,
answers each, reads the rings and raises an interrupt after a write, as slowly as
it likes; the driver turns an interrupt into an eventfd signal.

How the parts meet: an application calls the middleware; the middleware calls
the ring library on the shared mapping and the driver by ioctl; the driver
signals the eventfd; the update library adds a message protocol on two channels
and a second shared buffer for payloads; the updater runs its sequences on it.

## Modules

`MailboxFifo` (abstract) <- `MailboxRing` implements it; `MailboxRx` and
`MailboxTx` use a channel as that queue; `RtssConsole` extends `MailboxRx`;
`UpdHandshake` uses two such queues; `UpdaterFlow` extends `UpdHandshake`.
`MailboxCreate` extends `MailboxLayout`. `MailboxClient` extends `MailboxHandle`
with the channels and RTSS; the two programs `MbDemo` and `RtssDbg` extend it, and
`MailboxClients` runs them one after another. `GptPartition` and `OtaBuffer` stand
alone. The `MC...` modules hold constants.

**MailboxRing.** One action per access to shared memory that the peer can tell:
looking at the peer's index (`LibMB_Write`, `LibMB_Read` and their refusals),
copying one item (`WriteItem_Copy`, `ReadItem_Copy`), storing an index
(`..._Publish`), and the two stores of a reset. The library puts a barrier around
each index access, so program order is kept. Items are serial numbers, which
makes any loss, repetition or mixture visible. A reset happens only while both
sides are idle, as the interface demands; what the one caller in the repository
makes of that demand is checked in `UpdHandshake`. `MaxItems` bounds what is
ever published; the proofs do not depend on its value.

**MailboxLayout, MailboxCreate.** `LibMB_ChanMapInit` computes the offsets and
`LibMB_Boundary_Check` checks them, both modulo `Word`; between them the owner of
the memory may change an offset by hand, since the configuration is his.
`RegionBytes` and `FitsExactly` are the same in numbers that do not wrap.
Of the memory `MailboxCreate` keeps the fields that a client looks at.
`LibMB_Create` stores without a barrier, so its stores are `pending` until they are
seen, in any order (`CreateStore`). `LibMB_Write` has a barrier after each load, so
its loads are in program order and each is a step: four in
`LibMB_Mailbox_sanity_check`, two or three in `LibMB_Free_Item`, which loads the
number of items only when it is needed. A client that finds the magic number before
the offset of its sub-region is `astray`: it takes the descriptor for the sub-region,
and what it does there is not modelled.
RTSS may restart at any moment, also with stores of a creation not made yet, and create
the mailbox again in the memory as it is. It does so with the same map: another map
under a running client would move the regions, and nothing in the library could notice.

**MailboxRx.** `rtss_mb_read_timed` with a program counter: check the ring, poll,
drain the eventfd, check again, read. Time is counted only while blocked, so that
`waited` is what the code chose to wait. `poll()` may be interrupted, find the fd in
error, or fail for want of memory (`PollFails`). A reset comes from the one thread
that also reads, and so never in the middle of a read: that is what the channel's
users do, not a test in `rtss_mb_chan_reset`. Three users call the read: any caller with any
timeout, one that waits on the fd first, as `rtss_mb_get_fd` invites it to, and
the console. Argument checks are left out: callers pass valid arguments.

**MailboxTx.** Sizes are in bytes and items are derived from them as the code
does. `rtss_mb_write` is two steps, commit and ioctl, so that RTSS and failures
come in between.

**MailboxHandle.** A ledger of what the process holds; each step of
`rtss_mb_open` that can fail is an action with the clean-up of its own branch.
A directory entry can be broken or have an over-long name, as
`rtssmb_getdevctx` tests.

**MailboxClient.** What a request and answer program rests on: a process and its
handles, pairs of channels that outlast it, and RTSS, which takes requests in
order and answers by one message, by a series ended by an empty one, or by an
echo and a timestamp. A call is one step of whole items, which may fail; a write
may fail after its items are in the ring. Every item carries the request it
belongs to, which no program can see. When a program ends, what it left in the
channels becomes nobody's.

**MbDemo, RtssDbg, MailboxClients.** The two programs, one action per call or
decision; arguments of the command line are chosen where they are first used. A
signal sets the demo's flag and may fail the read it waits in; the debug
utility's handler exits at once (`Killed`). A mapping that a closed handle left is
counted in the ledger as long as the process lives. Each reset of a channel is a step.

**GptPartition.** A copy of the table is a header and entries, each of some
version, or what an interrupted writer leaves: torn, or void, a header of zeroes
whose checksum over zero bytes is right. Each read of the device is a step;
another processor rewrites one copy while the other is whole, as GPT asks, and may
stop in the middle. A checksum matches what it was computed from and nothing else.

**RtssConsole.** `main` and `handle_signal`, on the receive path.

**UpdHandshake.** The labels of `rtss_upd_hello_ping`. The rings outlast the
process; `Relaunch` is a kill and a new start at any point. RTSS answers a HELLO
with any status. The send channel and the receive channel are reset in two steps. A
reset stores both indices as 0; an RTSS in the middle of a step on that ring stores its own
index after it, which counts from before. Then the ring is not empty: the slots on one side
of that index are in it again, with what they last held, which are answers before the one that
is being written (`ResetRx`) or requests behind the one that is being taken (`ResetTx`).
Otherwise the ring is empty and RTSS goes on from there. `OldMessages` is what the slots may hold,
`MaxReplay` how many come back at once. `strays` is history: the messages the process
found in the channels, and those that such a race brought back.

**UpdaterFlow.** A sequence is a list of commands; each is prepared (which may
fill the OTA buffer), sent and answered. The handler takes whatever answer is
first in the ring. A send may fail with the command in the ring (`SendCommandFails`): the
sequence ends there, and RTSS goes on with the command. A read may fail because RTSS is
down, or by itself with RTSS up (`notify_handler_ReadFails`): then the answer stays and is
one more stray. A short read (`update_lib.c:498`) is not one of these failures, since
both sides put exactly one message into an item. A payload is reduced to who wrote the image
entries in the OTA buffer, the boot information to five kinds of boot (`Boots` chooses among
them), the statuses to success and failure. An answer may be corrupted on its way: its CRC
does not match then, and its status may be anything. Of the payload's CRC only that a payload
of length 0 has none is kept, since a sequence can run into it. How RTSS booted is chosen when
it is first asked, and again after a restart (`RtssUp`): `rebooted` says that RTSS went down
after this process had read how it booted. RTSS restarts while a sequence runs; during
the handshake it is taken to stay up. Which sequence a process runs is chosen when the
handshake is done, since nothing depends on it before. `dead` is the state after a failed
load, whose length of 2^32 - 1 makes the CRC run off the buffer.

**OtaBuffer.** Threads and the signal handler, which runs on the main thread and
stops it. What happens under the lock is one step, except that a signal may come
between taking and leaving it.

## Runs

Passing:

| Run | Instance | What it shows |
|---|---|---|
| `ring` | 4 slots, batches of up to 4, 9 items | Between the indices lie exactly the unread items in order, reads copy them out in order, the two copies never share a slot, and the ring implements `MailboxFifo` of capacity 3. The indices go around twice and every batch size meets every position; a batch of 4 is the one that never fits. |
| `receive` | 2 slots, 3 items, timeouts for ever, 0 and 1, a signal, a reset, a poll that fails, any caller, a caller that waits on the fd, and the console | No lost wake-up, a timeout that holds when no signal was pending, every item delivered; the console stops for a reason, and by the next item. 3 items in 2 slots are enough for a short read, a coalesced interrupt and a stale signal. |
| `tx` | 3 slots, items of 2 bytes, sizes 1 to 7 | Full, exactly full, one byte too many, less than one item, and partial items all occur, with two failing interrupts: what was acknowledged is consumed, RTSS never sleeps on announced items. |
| `clients` | 2 runs of either program, 2 cores, a test pair and a data pair of 2 items, a name too long and a broken region, series of up to 2 messages, 2 rounds, sizes 0 and 3 of the performance test | After each failure memory, descriptors and eventfds are those of the open handles, and so are the mappings until a handle is closed; nothing is left open or unread, answers match requests, every run ends. 2 runs are one that leaves something and one that finds it; size 3 does not fit the ring and is cut to it, size 0 is the one that a write refuses. |
| `layout` | `Word` 64, up to 2 regions, 0, 3, 7 or 9 items (the maximum is 8) of 0, 3, 9 or 10 bytes (the maximum is 9), mailboxes of 40 and 63 bytes, offsets one off, 2 creations | Accepted regions are disjoint and inside the mailbox, a map that was made is accepted, and a client that began to write on a whole mailbox neither leaves its region nor loses a write it was told of. The products wrap, maps end before, at and after the end of the mailbox, and the stores of the second creation are seen in any order between any two loads. |
| `gpt` | 2 devices, 2 versions of a table, entries of 128 and 256 bytes, buffers of 128 and 512, one rewrite, any content of one device | Reads fit the buffer, lookups answer from the verified table, the best copy is found. One rewrite is enough to tear the copy that is being read; two versions and two devices are what a stale header can be taken for. |
| `updater` | 2 pings, 2 errors, rings of 3, 2 images, 2 processes, one fault (a failing send, also after the message is in the ring, a restart of RTSS, a corrupted answer or a failed read), boots from A, from B and with a damaged GPT, races with a reset that bring back one FLASH_IMAGE | What a handshake leaves behind is counted; programming in step with the answers, a stable buffer, commit after flash, no flash from B. The code has 3 pings and 10 errors; what matters for the sequences is how many surplus answers a handshake may leave, and that errors may reach the number of pings. A FLASH_IMAGE is the message that does most harm if it comes back, as a request or as an answer. |
| `updater_live` | 2 pings, 1 error, rings of 3, 1 image, 2 processes, a boot from A, two faults (restarts and one failing send), races that bring back a FLASH_IMAGE or a HELLO, and the sequences pre-reboot, acknowledge and GPT update | The handshake returns, whatever RTSS does; the sequence after it ends. |
| `ota` | 3 threads, 3 mappings, one signal | No dangling client, references balanced, a signal ends the program unless the main thread holds the lock. |

Deadlock is not checked where the system may stop: a console or sequence that
has ended, a process that has used up its opens or runs.

Violations. Each of these runs states what the repository says of the program,
and TLC shows a behaviour of the code that is otherwise:

| Run | The code | Where it says otherwise |
|---|---|---|
| `handshake_reset` | the receive ring is reset while RTSS may write it (`update_lib.c:397`) | `api/rtss_mailbox_api.h:157-159` |
| `clients_close` | `rtss_mb_close` closes the fd and frees the handle, and leaves the mapping (`mailbox.c:621`) | `api/rtss_mailbox_api.h:196`, `:200` |
| `updater_ok` | an unread answer leaves the last status (`updater.c:1629-1632`), and the command passes | `updater.c:668` |

### Conditions in the passing properties

Some properties hold only under a condition that a reader of the interface would
not expect. Each condition is there because the code behaves as follows; without
it TLC finds the counterexample described.

* `WaitBounded` requires that no signal was pending or due when the call began
  (`stale`). Each wake-up without data starts the whole timeout again
  (`mailbox.c:408`), so with a stale signal a call takes longer than its
  `timeout_ms` (`api/rtss_mailbox_api.h:123-124`).
* `Delivered` asks a caller that waits on the fd to read until the ring is empty
  before it waits again (`MayCall`): items that a short buffer left behind are not
  announced by the fd (`mailbox.c:447`, against `api/rtss_mailbox_api.h:136-137`).
* The fd also errs the other way: a read that finds items does not drain the
  eventfd, so it stays readable with nothing to read and an `rtss_mb_read` after
  it blocks (`api/rtss_mailbox_api.h:137-139`).
* `RegionsDisjoint` and `MapAccepted` require `Sound`: items of
  more than 2^32 minus a region's header, and less than 2^32, wrap the sum of
  `lib.c:230` back past the start of the region and are accepted, although the
  region then ends before its items do. 65535 items of 65537 bytes are such
  (`MB_MAX_SIZE` is not compared at this place).
* `MapAccepted` names where `LibMB_ChanMapInit` and `LibMB_Boundary_Check`
  disagree: a map whose last byte is at `mb_size` passes the first (`lib.c:438`)
  and not the second, and so do a mailbox without regions and too many items.
* `CopyInBounds` and `AckedIsWritten` are about writes that began when all the stores of a
  creation had been seen (`sure`). `LibMB_Create` has no barrier (`lib.c:163-177`,
  `:473`), so that before that a client may find the magic number without the offset of its
  sub-region, and write relative to the descriptor, or without the size of the items, and
  report a write that was dropped. Inside the sub-region the copy of a write that found it stays in
  bounds from the beginning. A later creation with the same map stores what is there
  already, except the indices.
* `AckedIsWritten` also excepts items of no bytes: `LibMB_Write` then returns success
  and writes nothing (`lib.c:292`). What is written across a creation may
  still be lost to the receiver, because the indices start again at 0.
* `LookupVerified` excepts a table rewritten since the search (nothing verifies the
  entries again) and an init with too small a buffer, which stores its device and
  buffer before it fails, so that the header of the earlier device is used with
  them (`guidpt.c:446-456`). `g_gpt_partition_init_done` is not cleared by a failed search, nor
  `g_gpt_id` by `rtss_gpt_partition_deinit`.
* `BestCopy` excepts a void header, whose zero lengths make both checksums pass:
  it hides a good backup and counts as an empty table.
* `AnswersMatch` is about runs in which no call failed, on channels found clean:
  no answer carries a number, the demo resets nothing and takes an earlier run's
  answers for its own (`mbdemo.c:351`), and what RTSS already holds cannot be
  recalled by a reset (`dbg.c:1326`). A failing read of the timestamp is only
  logged (`dbg.c:1219`), so that the next size's round may read it as its echo.
* `NothingLeftBehind` allows unread answers where a call failed, and the channels
  that were found in use.
* `StopsByNextItem` rather than "stops": a signal between the loop test and
  `poll()` interrupts nothing (`apps/rtss-console/src/rtss_console.c:52`).
* `LedgerBalanced` counts the mappings only until the process closes a handle:
  `rtss_mb_close` does not unmap, and closing the fd does not do it either, so that each
  open and close adds a mapping until the process ends. `clients_close` shows it.
* `HandshakeReturns` says nothing of a reset on a mismatch: an unexpected answer is
  counted, and neither resets the channels nor sends the HELLO again
  (`update_lib.c:407-419`), against the comment at `update_lib.c:357-358`.
* `LeftoversCounted` allows one message more than those accounted for while the sequence
  waits, and also after it has failed: a send whose interrupt fails after the item is in
  the ring (`mailbox.c:333-342`) is reported as failed, and RTSS carries the command out all
  the same (`update_lib.c:470-474`).
* `ProgramsInStep`, `BufferStable`, `CommitAfterFlash` and `NoFlashFromB` are
  about processes without `strays`: they found clean channels, no reset of their own handshake
  raced with a step of RTSS, and no answer was left unread by a failed read before. No answer
  carries a number, so that the answers to the commands of a killed process pass for a new
  process's own. Sends that are reported as failed and reached the ring are included.
* `NoFlashFromB` requires that RTSS has not gone down since it told how it had booted
  (`~rebooted`): a sequence asks once, and then flashes every image, so that it
  does not notice an RTSS that comes up from partition B in between. It speaks of
  partition B and the GPT checksums only: `bootGptId` is not looked at and an image that booted
  from partition 2, the invalid one, passes (`updater.c:46-63`), against
  `rtss_update_lib.h:288` and `:293`, where no update is to be attempted then.
* `CommitAfterFlash` requires `~unanswered`, that every answer was read and whole,
  for the reason `updater_ok` shows and because the handler keeps the status of an
  answer before it verifies the CRC (`updater.c:1635`), and promises the acknowledgement only without a restart of RTSS: a restart can drop an
  OTA_DONE for which a surplus HELLO answer was already read, and the sequence goes
  on to declare redundancy without it.
* `SequenceEnds` counts `dead` as an end: the -1 of a failed load passes the test
  `bufLen <= 0` on an unsigned (`updater.c:618`) and the CRC runs off the buffer.
* No property says that the answer taken by `--ackstate` is that of OTA_DONE: a
  surplus HELLO answer is taken as well (`updater.c:768`).
* `HandlerExits` excepts a main thread that holds the lock: the handler then waits
  for a mutex of its own thread (`updater.c:1548-1549`).

## Fairness

* `receive`: RTSS raises the interrupt it owes, the driver forwards it, the calling
  thread is scheduled, and the caller comes back, as the console's loop does.
  Weak fairness is enough: each of these stays enabled until it happens. No signal
  is assumed.
* `tx`: the writer finishes its call; RTSS wakes up on a pending interrupt and
  drains.
* `clients`: the program is scheduled, and RTSS takes and answers what it is asked.
  A read that waits is not bound to fail: `Progress` leaves the failure of a
  waiting read to chance, so that `EveryRunEnds` cannot lean on it. That RTSS ends
  a series with an empty message and sends a timestamp after the echo is assumed;
  the program waits for both without a bound.
* `updater_live`: only the process itself is fair, which is all that
  `HandshakeReturns` needs: RTSS need not answer at all. `SequenceEnds` needs an
  RTSS that goes on with its requests, because the answer is awaited without a
  timeout, and states that as its premise. Nobody kills, restarts or launches
  anything for either.
* `ota`: every thread is scheduled and gives the lock back. The handler's wait for
  the lock is strongly fair: the program's threads get and release the buffer a
  few times, so that none takes the lock for ever in front of the handler.

## Proofs

Each theorem holds for every value of the constants that the module's `ASSUME`s
allow, which the models' own instances satisfy (TLC evaluates them on each run).
What they ask for is what the code has: natural bounds, at least one slot in a
ring, headers of more than one byte, numbers and sizes of items that fit a word,
finitely many threads, the demo's cores a sequence of pairs, the channels of a
pair among the names one may open, and that the two nodes given to the
performance test are the two channels of one pair unless one of them cannot be
opened.

The properties say what is true at the ends of calls. They are not inductive: a
call that is half done is nowhere in them. The invariants `IInv` add what a step
relies on that was established by an earlier one.

**MailboxRing_proofs**: `TypeCorrect`, `Intact` (`ItemsIntact`),
`DeliveryInOrder` (`InOrderDelivery`), `NoRace` (`NoSlotConflict`) and
`RefinesFifo`, that the ring implements `MailboxFifo`. `ItemsIntact` says nothing
of a batch half copied, so publishing it could make anything readable, and
nothing of the receiver's count, so that consuming could take more than there is.
`IInv` adds `SenderInv` (a batch fits what is free now, and the items copied so far
are the right ones in the slots they will be read from), `ReceiverInv` (a read
covers no more than what is readable) and `ResetInv` (both sides are idle between
the two stores of a reset). Copying in touches no readable slot
(`BatchOutsideReadable`); publishing a batch adds exactly its length to what is
readable (`ValidAfterWrite`), consuming takes it away (`ValidAfterRead`); the
other side's progress only ever makes more room or more items, which is why a
stale index is safe. The modulo and the two-chunk copy are both shown to be a
single wrap (`AdvanceIsWrap`, `SlotIsWrap`), after which the rest is linear
arithmetic. The refinement maps the slots between the indices to the abstract
queue, which is empty between the two stores of a reset: by `Intact` they are a run
of consecutive items (`QueueIsRun`), so that only the two `Publish` steps and a
reset change it, the first two by joining and splitting runs (`RunConcat`,
`RunSplit`); refusals are the queue's refusals, and all other steps stutter.

**MailboxCreate_proofs**, first part: `CopyInBoundsAlways`
and `AckedIsWrittenAlways`. No order of the stores of a creation is assumed, and each
load is a step of its own, those of the sanity check and of the free count included. Each speaks of the end of a write, which rests on loads
made at moments between which RTSS may have created the mailbox again. `IInv` says
what survives that: `MapInv`, that the map is fixed from the first moment anything of it
can be seen; `StoresInv`, that a field is either still zero or has the value every later
creation stores there, and that no index that is not 0 lies beyond the number of items;
`SeenInv`, that a field which is not pending has been seen, and that all have once the
mailbox was whole; `ClientInv`, what each single load of a write has established. So the
loads of a write agree with each other, whichever stores fall between them, and after the
mailbox was whole the guard of `LibMB_Write_Item` fires for items of no bytes only.

Second part: `RegionsDisjointAlways` (`RegionsDisjoint`) and `MapAcceptedAlways`
(`MapAccepted`). `LayoutInv` keeps what `LibMB_ChanMapInit` computed and that a verdict of
`LibMB_Boundary_Check` is what the check would say now. That a recursive function
of the offsets computes what its equation says, and that the regions of a map are
in ascending order however many there are, are inductions over the number of
regions: they are done with sets of numbers and the least-number principle
(`LeastNumber`, `UpTo`), which needs no operator as a parameter. A test that
passes although its sums are modulo `Word` is shown not to have wrapped.

**MailboxTx_proofs**: `TypeCorrect` (the ring is never overfilled: the test of
`rtss_mb_write` is in bytes, the ring counts items, and the division is what
`ItemsFitBuffer` is about) and `NothingStranded` (`NoStrandedItems`). The two
together are inductive.

**RtssConsole_proofs**: `TypeCorrect`, `WakeupKept` (`NoLostWakeup`),
`WaitIsBounded` (`WaitBounded`) and
`StopsOnlyForAReason` (`StopsForAReason`), and `NoLostWakeup` and `WaitBounded` for
the receive path alone (`ReceiveAlone`). The bound on a wait is the hard one, since each wake-up
starts the timeout again. The invariant says that a signal which is not stale
stands for items nobody else reads (`SignalMeansItems`), so that the recheck after a
wake-up finds them (`RecheckFinds`) and there is no second wait; and that what was
waited and what is left make up the timeout (`TimeAddsUp`).

**OtaBuffer_proofs**: `TypeCorrect`, `ClientsMapped` (`NoDanglingClient`) and
`Balanced` (`ReferencesBalanced`), for any finite number of threads. A thread clears its
pointer before it takes the lock to give its reference up, and unmaps after it has
released the lock. So the count is the number of `Holders`, who have the buffer or are on
their way to the lock, and the process has the shared mapping and those taken out
of the context by a thread that has not unmapped them yet (`MappedIsOwned`,
`TornApart`).

**GptPartition_proofs**: `ReadsFit` (`ReadFits`), `FoundIsVerified`
(`LookupVerified`) and `BestCopyFound` (`BestCopy`, an action property). The
invariant says what a search knows on its way, as long as nobody wrote to the
device (`SearchKnows`: the header in memory is the one on the device, and a search
of the backup means that the primary does not fit), and what the header left in
memory stands for afterwards (`TableVerified`).

**MailboxClients_proofs**: `TypeCorrect`, `LedgerKept` (`LedgerBalanced`),
`AnswersToRequests` (`AnswersMatch`) and `LeavesNothing` (`NothingLeftBehind`), for
both programs together, any number of launches, pairs of any depth, series of any
length. `Ledger` counts what each step inside `rtss_mb_open` holds on top of what
the handles need; `Believed` relates the handles the process has to those the
program's own flags say are open, which differ between the return of
`rtss_mb_open` and the look at its result; `DemoState` and `DbgState` say what the
program's variables are at each label. `Conversation` is the reason why answers
match: as long as no call failed, each pair that no earlier program left in use is
`Quiet`, except the one the program waits on, which carries its request, or what is left of
the series or of the echo and timestamp that answer it.

**UpdaterFlow_proofs**: `TypeCorrect` (for any number of images no sequence runs past
its last command, and the channels never overflow) and `Leftovers`
(`LeftoversCounted`), for every number of pings and errors. `LeftoversCounted`
speaks of the end of a handshake only; the invariant counts at every label. A HELLO
is `Pending` from its sending until its answer is read or an error is counted for
it: a reset may drop the answers of the receive ring, but not the request, nor what
RTSS already holds, so each error may leave one message behind, and no more. What a raced
reset brings back and the answer a failed read leaves are `strays`. A command is `Pending`
while it is waited on, and after the sequence has failed, since a send that was reported
as failed may have put it into the ring.

Also `FlashedInStep` (`ProgramsInStep`), `FlashedFromA` (`NoFlashFromB`), `BufferKept`
(`BufferStable`) and `CommittedAreFlashed` (`CommitAfterFlash`), for every sequence, any
number of images, surplus answers, processes and faults. No answer carries a number, and
the handler compares none with the command, so a sequence may run for a while on answers
of its own handshake. What ends that is its `Marker`, the boot information or, in the GPT
update, the check of the GPT: it is asked for once and before anything is programmed
(`MarkerFirst`), and a sequence goes past it only with its data in hand, or, in the GPT
update, fails at the empty payload of the next command. The channels are queues, so the
answer to the marker is the last message in flight until another is sent (`OnlyLast`);
once it has been read the channels are empty, and from then on the sequence is in step
(`InStep`). `CleanInv` says this for each label:

* `MarkerInv`: until the marker is sent it is nowhere, and until its answer is read it is
  the last in flight;
* `StepInv`: past it, nothing is in flight but the command waited on or, when the sequence
  has failed, the one whose send was reported as failed;
* `ProgramsInv`: a sequence that is not in step has no programming command in flight, which
  is what `BufferStable` needs for the time before;
* `BootInv`: the boot information that was read is what RTSS wrote to the OTA buffer last,
  which the handler trusts without looking at whose answer it has. After a restart
  (`rebooted`) it promises nothing of the boot.

`CommitInv` builds on it. In step, every message in flight is the current command, its
answer, or a corrupted answer (`CurrentInv`). So the image that RTSS erases when it takes
a FLASH_IMAGE is that of the current command, no other has that image (`FlashedOnce`), and
each command that was passed has flashed its own (`FlashedInv`); the command that commits
comes after all of them (`CommitLast`). OTA_DONE is sent before the marker, out of step:
`AckInv` follows it in flight, or behind the answer that was taken for its own, and
`DoneInv` uses that the marker's answer is read when nothing is left in flight behind it, so
that the acknowledgement is accepted by then unless RTSS restarted. TLC checked `SeqInv`
and `CommitInv` as invariants of the `updater` instance before they were proved.

Only model-checked:

* liveness (`Delivered`, `StopsByNextItem`, `EveryRunEnds`, `HandshakeReturns`,
  `SequenceEnds`, `HandlerExits`, `AckedIsConsumed`): fairness and `ENABLED`
  are out of the prover's reach;
* what the disagreements under "Violations" show, of which a counterexample is
  all there is.

## Not modelled

* The RTSS firmware and the driver beyond their use.
* Several processes using one channel at once (the performance test's channels are
  assumed to be its own and a matching pair), and closing a handle another thread
  is using, which the interface forbids.
* Corruption of shared memory other than the descriptor becoming invalid, a mailbox
  created again, and a damaged answer to the updater.
* Reordering of stores by the processor where the code has no barrier, except in
  `LibMB_Create`: two resets of a channel or the two stores of one are taken in order.
* A restart of RTSS in the middle of a handshake, and what a client does that takes the
  descriptor for its sub-region (`astray`).
* `rtss_upd_is_ready` called twice in a process: `libstate` becomes READY at the
  first matching answer (`update_lib.c:300`) even if the handshake then fails, so
  that a second call could not succeed. No caller in the repository retries it.
* The contents of messages beyond identifier, image and status; the CRCs, which
  are pure functions of bytes no property tells apart; the byte order and the name
  decoding of `guidpt.c`, and that it truncates a block number to 32 bits.
* The updater commands that nothing in the repository sends: MRC update, image
  query, boot image and boot continue, fault injection, metadata of single
  entries, image digest.
* Option parsing, the configuration file, output, statistics, timing and logging:
  sequential text handling that keeps no state the protocol depends on, beyond the
  choices the models make nondeterministically.

## Plan

Done: every component that keeps state of its own is modelled; every invariant and every
safety property of steps that the runs check, and the refinement of `MailboxFifo`, is
proved. What is left:

1. An abstract update (images, a boot that was asked for, a commit) that `UpdaterFlow`
   refines when the channels were found clean: `CommitInv` has what the mapping needs.
2. The safety half of the liveness properties, such as what each wait waits for (`AckInv`
   is of that kind), so that only fairness is left to TLC.
