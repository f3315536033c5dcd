# A TLA+ verification of parts of ps2sdk

ps2sdk is the development kit for the PlayStation 2: libraries for the main
processor (EE), modules for the I/O processor (IOP), and code both share. It has
no design documents of its own; the models here are translated from the C code
and name its lines. This project specifies the parts in which several actors
share state or power can fail at any step, checks them with TLC on small
instances, and proves the central ones with TLAPS for all instances.

## 1. The system and its parts

| Part | State | Operations | What makes it hard |
|---|---|---|---|
| APA journal (`iop/hdd/libapa/src/journal.c`, flush in `cache.c`) | dirty header buffers, journal buffer, APAL sector, log slots, headers | flush all dirty, write, flush, reset, restore | power cuts between transfers, a drive that reorders cached writes, torn headers, failing transfers |
| APA partition table (`libapa/src/apa.c`, `apa/src/hdd.c`, `hdd_fio.c`) | doubly linked list of headers on disk, sub-partition lists, file slots | create, open, close, add and delete sub, remove, rename, swap, format | long sequences of splits and merges, power cuts between the flushes of one call, 32-bit sums, names cached in file slots |
| SIF RPC client (`ee/kernel/src/sifrpc.c`) | packet table, client data, semaphores | bind, call, fetch, check status, END handler | threads and an interrupt handler share packets; answers come in any order |
| SIF RPC server (same file) | queues, servers, ring of answer packets | register, loop, execute, bind, call and fetch handlers | wake-ups that race the decision to sleep, a ring without a full test, DMA that reads packets later |
| Alarms (`ee/kernel/src/srcfile/src/alarm.c`) | sorted list, timer comparator, id bits | set, release, interrupt handler | the timer counts on inside calls; 16-bit wrap; callbacks that set and release |
| Memory card cache and recovery (`iop/memorycard/mcman/src/main.c`, `ps2mc_fio.c`, `mcsio2.c`) | cache of clusters, flash blocks, two backup blocks | read and write a cluster, flush, detect a card and restore | flash is erased by the block, the card can be pulled out at any page, cached clusters share blocks |
| Audio server (`iop/sound/audsrv/src/audsrv.c`) | ring buffer, two heads, semaphores | set format, play, wait, stop, threshold, playing thread | two threads share the ring without a lock |
| lwIP port (`ee/network/tcpip/src/sys_arch.c`) | mailboxes, message pool, semaphores | post, fetch, wait with timeout, signal | chains, counts and a pool that must agree; a timeout alarm that races the signal it guards |
| Top thread (`ee/kernel/src/thread.c`) | request ring, semaphore | iWakeupThread, iRotate, iSuspend | ring and semaphore with different limits |
| SIF commands, SBUS, siftoo | handler tables, mailboxes | send, add handler, interrupts | two processors and one register file |
| PFS (`iop/hdd/libpfs`, `pfs`) | journal, cache, bitmaps, inodes, directories | file calls | the same crash questions, with allocation on top |
| iomanX, usbd, usbhdfsd, netman, smap, freepad | tables, queues, rings, caches | drivers' calls and interrupts | queues at their limit, callbacks into drivers |
| Everything else (graphics, fonts, math, libc, debug, RPC marshalling) | none shared | | sequential |

`PROJECT.json` lists each part with its files and status, and the hazards of the
code at the lines where they bite.

How the modelled parts interact: every call of the partition driver ends its
steps with `apaCacheFlushAllDirty`, which `ApaJournal` shows to be atomic, so
`ApaPartitions` takes a flush as one step and a power cut only between steps. The
RPC client and server are the two directions of one file, sharing no variable of
the EE except the command layer below them. Alarms are below the timeouts of the
lwIP port. The memory card's flush promises of a block of the file system what
the APA journal promises of headers, so both refine `HeaderStore`.

## 2. Modules and the code

| Module | Models | Notes |
|---|---|---|
| `HeaderStore` | the promise of a flush: all of an update, or nothing of it | abstract specification, no code of its own; refined by `ApaJournal` and `McCard` |
| `ApaJournal`, `MCApaJournal` | `apaCacheFlushAllDirty`, `apaJournalWrite/Flush/Reset/Restore` | refines `HeaderStore` |
| `ApaJournal_proof`, `ApaJournalAtomic_proof` | | theorems |
| `ApaPartitions`, `MCApaPartitions` | partition list and driver calls | |
| `SifRpcClient`, `SifRpcClient_proof` | client half of SIF RPC | |
| `SifRpcServer`, `MCSifRpcServer`, `SifRpcServer_proof`, `SifRpcAnswers_proof` | server half of SIF RPC | |
| `Alarm`, `Alarm_proof` | the alarm patch of the EE kernel | |
| `McCard`, `MCMcCard`, `McCard_proof` | cache, flush and recovery of a PS2 memory card | refines `HeaderStore` |
| `Audsrv`, `MCAudsrv`, `Audsrv_proof` | the streaming half of audsrv | |
| `SysArch`, `MCSysArch` | mailboxes, semaphores and timed waits of the lwIP port | |

In every module an operator whose comment begins with "Mutant" is a faulty
version of the definition after it. No specification uses them; they document
that the properties notice such a fault.

### ApaJournal

`platter` and `wcache` are the drive (external): a write goes to the volatile
cache, moves to the platter in any order (`Destage`) or at a flush, and is lost
or, for a two-sector header, torn by `PowerCut`. The one-sector APAL record is
not torn. `dirty`, `journal` and `pos` are the dirty cache buffers, `journalBuf`
and the loop counter of the replay. `JournalFlush` is one step per drive command,
with program counters `c1..c3` for the commit, `r1..r3` for the reset and
`b1..b3` for the reset that ends a replay. `txn` is a history variable used by
the refinement. `Faults` says which transfers may fail.

Not modelled: headers are never read back with errors, and one device is
modelled (the journal buffer is shared by both, one call at a time).

### ApaPartitions

`hdr[u]` is the header at unit `u` (128 MB, the smallest partition); `jobs` is
what is left of the call under way, each step ending in one flush; `slots` are
the open files with the extents they cached. `Wrap` keeps the 32-bit width of
the space check. Calls exclude each other by `fioSema`. `hddFormat` takes no
semaphore; it is modelled between calls and with no file open.

### SifRpcClient and SifRpcServer

Handlers run at interrupt level and are one action; code between `DI` and `EI`
is one action; elsewhere a thread can be preempted between any two calls. The
IOP's half is in its ROM and is modelled from what this file sends it and expects
of it, and marked external. `pid` is capped by `MaxPid`: ids do not wrap in the
model (the code's is an int, incremented once a request). `lost` is a history
variable: the packets of requests whose semaphore or transfer failed, which the
code leaves allocated.

The server runs give each client its own server, as the servers of the SDK do; a
waiting client receives data and a polling one does not. The other combinations
are broken in the code. After the END packet of a call without data
`SifExecRequest` goes on to clear the client's packet (`sifrpc.c:620`), and a call
made without waiting that returns data is answered without an END and without
clearing the packet (`sifrpc.c:628`). `Laps` says whether the ring of answer
packets, which has no full test, may come round to a packet that is still in use.

### Alarm

`count`, `comp`, `enabled` and `istat` are timer 3 and its interrupt (external in
`Tick`; the dispatcher is taken to clear the interrupt's bit before the handler).
The handler is three actions: start, one dispatched alarm, return of its callback.
Between them callbacks set and release alarms and the timer counts. `MaxLag`
bounds the ticks from an interrupt to the end of its handler. `style` is what the
callbacks of a program do: they set and release alarms and return within the
tick, or they are slow and make no calls. `SlowRelease` lets a tick fall between
the two halves of `ReleaseAlarm`. A
thread with interrupts on takes a pending interrupt before it calls `SetAlarm`.
An alarm of time 0 is excluded: it is set on the present count and fires one round
later.

### McCard

`card`, `bb1` and `bb2` are the erase blocks of the card: the file system's, and
the two backup blocks. A page is a value, erased, or `Bad` after power was lost
while it was programmed or erased (`Torn`). `cache` is `pmcman_mccache` from the
most to the least recently used entry, with `wr_flag` and `rd_flag`; `call` is the
call under way, `fl` the locals of `mcman_flushcacheentry` or of
`mcman_checkBackupBlocks`, `pc` the statement. A cluster is a pair of a block and
an index, and a page stands for a cluster. `Meta` are the clusters of the FAT and
of directories, which the code never marks with `rd_flag`. `want` is a history
variable: what the program wrote, or found after a card change. Each page that is
programmed and each block that is erased is a step, with `PowerCut` between any
two. `Faults` lets reads of pages fail.

### Audsrv

One variable for each shared variable of `audsrv.c` and for each semaphore. The
playing thread has the higher priority, so its steps are whole and the RPC
thread's are single assignments, each possible only while the playing thread is
blocked (`PlayBlocked`). A format is the pair of its feed size and of what its
upsampler reads. `MaxLate` bounds the transfers that end before the RPC thread
takes its next step. `unread` and `broken` are history variables: the positions
queued and not yet played, and whether the stream has been broken by an
underrun, which the code does not detect. While it is broken the properties say
nothing, until the next `audsrv_set_format`.

### SysArch

`pool` is `msg_pool`, `box` the first and last message of each mailbox, `sema` and
`waitq` the kernel's semaphores (external), `alarm` the alarms (external; an id is
reused once its alarm has fired). Code with interrupts off is one step. `queued`
is a history variable. A thread that fetches with a timeout sets its alarm in one
step and waits in the next one.

## 3. Runs

Passing runs:

| Run | Bounds | Distinct states | Shows |
|---|---|---|---|
| `apa_journal` | 3 headers, 2 versions, 2 dirty at once | 70,656 | a start finds whole headers, refinement of `HeaderStore`, a start ends |
| `apa_journal_faults` | same, four kinds of failing transfers | 186,582 | a replay never sends a header to a wrong sector |
| `apa_partitions` | 8 units, 2 names, 2 subs, 1 slot | 347,870 | `WellFormed` (linked, tiling, aligned, inside the drive, names used once, no free end), sub lists, file slots, what a deletion may touch |
| `apa_partitions_cut` | 6 units, 1 sub, power cuts | 1,109,330 | `WellFormed` and live subs across power cuts, except cuts that leave a free partition at the end of the list; every pass of a loop leaves less to do |
| `sif_client` | 2 threads, 3 packets, 4 ids, failing sends and semaphores | 103,701 | exclusive packets that only failures lose, matching answers, exact status and wake-ups, a call that waits returns |
| `sif_server` | 2 servers, 2 clients, ring of 2, lost answers | about 108,000 | no lost wake-up, current request served and found, right answers, packets stay marked |
| `sif_server_live` | 1 server, 1 client | 2,010 | every request is answered |
| `alarm` | 4 ticks, 3 alarms at once, 4 calls of SetAlarm, handlers up to 2 ticks late | 176,058 | exact ids, armed comparator, handler has the right alarm, an alarm fires or is released |
| `mc_card` | 2 blocks of 2 clusters, 2 cache entries, failing reads | 1,078,432 | a read sees the last write, a flush is durable, blocks of the file system change whole (`CardStoreSpec`), calls and detections end |
| `audsrv` | rings of 20 and 40 bytes, chunks of 3 | 2,049,886 | heads stay in the buffer, what is queued is played in order, a copy never covers it, a wait for space ends |
| `sys_arch` | 5 threads, pool of 2, 1 alarm | 308,172 | chains hold what was posted in order, one owner to a message, a post on an empty pool ends |

Why these are enough. Two dirty headers and a third outside the update are the
least in which an update can be half done and a slot reused. Eight units allow a
free partition of four to be split twice and merged back. A failed request makes
the table of three packets full for two threads; a ring of two makes it wrap. Four
ticks let alarms wrap while another is pending, and `Word` smaller than `MaxAlarms` reaches the
end of the id word. `VIEW`s of the partition and server instances leave out
fields that are written before they are read again, such as headers that left the
list; the symmetric sets are interchangeable, and symmetry is used in safety runs
only.

Two clusters to a block and two cache entries are the least in which a flush finds
a neighbour in the cache and in which reading one cluster evicts the other. A chunk
of three bytes puts the writing head at every position of both rings. A pool of two
for two posting threads and two fetching ones is empty, full and in between, and
with one alarm for two timed waits the second `SetAlarm` fails.

`CHECK_DEADLOCK FALSE` where the system may stop: a full drive with nothing left
to remove in the reduced call sets, the cap on request ids, and an answer that was
lost.

One run ends in a violation, of a sentence of the source: `alarm_order`. Alarms are
inserted by duration instead of target, and one is missed for a round of the timer;
the finding in `PROJECT.json` gives the lines.

The constants that switch a behaviour off in the passing runs do so because the
property fails with it. Each of these was tried, and TLC shows the violation:

| Change | Violates | What happens |
|---|---|---|
| `"reset"` in `Faults` of `ApaJournal` | `ReplayRightSector` | emptying the log fails (`journal.c:45`), the next flush reuses its slots, a restart copies them to wrong sectors |
| `"swap"` in `Calls` of `ApaPartitions` | `SlotsCurrent` | after a swap (`hdd_fio.c:877`) the open partition can be removed under its other name |
| `NUnits = 15`, `Wrap = 16`, `MaxSize = 8` | `WellFormed` | near 2^32 sectors the space check (`hdd.c:112`) wraps |
| `"trailing"` in `CutWhen`, `NUnits = 10` | `ListLinked` of `WellFormed` | a power cut leaves a free partition at the end of the list; removing its predecessor links past the end (`apa.c:288`), which `apaGetNextHeader` reports as "Invalid partition information. start != prev" |
| `Rmode <- Waits`, `Rsize <- NoData` of `MCSifRpcServer` | `PacketMarked` | after END the client's next packet can be cleared (`sifrpc.c:620`) |
| `Laps = TRUE`, both clients wait for data | `EndsRight` | a preempted answer's packet (`sifrpc.c:614`) is handed out again |
| `SlowRelease = TRUE` | `HandlerHasAlarm` | an alarm triggers while it is released (`alarm.c:126`): the handler has none |

Two promises of comments do not hold of the models and are no properties here.
`sys_arch_sem_wait` should "Wait u32Timeout msec" (`sys_arch.c:360`), but an alarm
that fires before the thread has reached `WaitSema` releases nothing, and a thread
whose alarm has fired releases whatever alarm has its id by then; either way a
wait is left without its timeout. `audsrv_play_audio` limits a chunk once, "no
crossing possible" (`audsrv.c:341`), but when the playing thread underruns between
that and the copy, a piece goes over the reading head.

Two smaller disagreements need no run. `hddFormat`'s loop commented "clear apa
headers" (`hdd_fio.c:286`) clears other sectors than the headers, and with
`1 << i` an int only 32 of the 64 alarms can be set (`alarm.c:89`).

## 4. Fairness

Weak fairness only. Journal and partition runs: the thread in the driver keeps
running (`RestartEnds` also assumes that power cuts stop). RPC: every ready thread
is run eventually, which on this kernel means that no thread of a higher priority
runs for ever; the SIF interrupts and DMA make progress, and in the client's run
the IOP answers. Nothing makes a client issue a request. Alarms: the timer counts
and handlers and callbacks end. Memory card: the call under way goes on, one
condition for all its steps; nothing makes a card stay in its slot. Audio: the SPU2
goes on playing, the EE answers its callbacks, both threads run. lwIP port: ready
threads run, alarms fire, and the threads that serve a mailbox come back to it, as
`tcpip_thread` does; nothing makes a thread post.

## 5. Proofs

All constants arbitrary, subject to the named assumptions of the modules.

* `ApaJournal_proof!TypeCorrect`: the type invariant, with any faults. The
  strengthening `LogFits` counts the headers still to be logged, since the log's
  length is bounded only by how many are dirty.
* `ApaJournalAtomic_proof`, when transfers do not fail (`Faults = {}`; with them
  the reset finding above is a counterexample): `RecoveryWhole`, `ReplaySound`,
  `FlushDurable`, `LoggedFirst` and the refinement `FlushAtomic`. The inductive
  invariant `FInv` has one conjunct for each stage of a flush. `LogSound` is its
  core: slots listed on the platter are whole, have no newer write waiting in the
  cache, and agree with whatever waits for the sectors they repair; sectors not
  listed are whole and have nothing waiting. `Logging` and `Committing` say that
  the log holds the update before it is listed, `Writing` that sectors already
  visited have the new header, `Resetting` that all have it before the list is
  emptied, `Booting` that a replay has copied what is before `pos`. Each step then
  leaves `Recovered`, what a start would find, unchanged, or makes it the old
  headers with the whole update (when the APAL sector reaches the platter), which
  are the stuttering and `Commit` steps of `HeaderStore`.
* `SifRpcClient_proof`: `TypeCorrect`, `Exclusive`, `AnswersMatch`, `StatExact`,
  and `WakesRight`, with any failures. The invariant says that ids
  in packets and client data are at most `pid` and differ between clients
  (`Ids`), that a request's client data names its packet (`Carried`), that
  messages under way are the ones clients have open (`Messages`), and that a
  packet lost by a failure keeps an id that no live request has (`Lost`), so that
  it is never taken for one.
* `SifRpcServer_proof!CallsNoticed`: a server never sleeps on a call, for any
  numbers and with lost answers. The invariant adds that between
  `SifGetNextRequest` and `SleepThread` a queued call comes with a pending wake-up.
* `SifRpcAnswers_proof`: `RunsCurrent` (`ServesCurrent`), `AnswersRight`
  (`EndsRight`) and `PacketsKept` (`PacketMarked`), for any numbers and with lost
  answers, under the hypotheses `Usual`: a server has one client, as in the SDK;
  the ring is not lapped; a client that waits for END wants data back (section 3
  shows what happens without the last two). The invariant follows each request:
  it is in one place at most, the inbox, a server or the outbox (`Single`), and
  there it is the one its client has under way, in a packet marked for it
  (`Right`). `Apart` says that a ring packet is filled or sent by one at a time,
  `Names` that servers work for their own client and that a transfer which clears
  a packet clears the one of the call it ends, which is why a cleared packet is
  never the client's next one.
* `McCard_proof`: `TypeCorrect`, `CacheCoherent` (`ReadsLast`), `FlushIsDurable`
  and the refinement `FlushAllOrNothing`, for any number of blocks, clusters and
  cache entries and with any failing reads. `Marks` says what the backup block's
  two pages hold at each step, `Pages` how much of the backup and of the block is
  programmed: once both marks stand, the backup is the new block, and while either
  is missing the block is untouched, so that a power cut is a stuttering step of
  `HeaderStore` except where page 1 is marked, which is its `Commit`. `Data` says
  that cached clusters are what the program wrote, that a cluster that is not
  dirty is on the card or in the block under way, and that the block under way is
  what the program wrote; it needs `Once` (a cluster is cached once) and
  `Replacing` (the cluster a call reads is not cached, and its entry is among
  those the flush writes).
* `Audsrv_proof`: `TypeCorrect`, `PlayedInOrder` (`QueueInOrder`) and `CopiesFit`
  (`CopyFits`), for any formats whose ten blocks fit the buffer and any chunks.
  Three lemmas on a ring carry the argument: reading and copying keep the queued
  positions in order between the heads, and space that was found stays when the
  reading head moves on. The invariant adds what `audsrv_set_format` has assigned
  so far (`Setting`; the heads are inside the ring except between the new size
  and the new heads, `Heads`) and that the bytes `audsrv_play_audio` has left to
  copy fit (`Space`), which is why one look at the space is enough.
* `Alarm_proof`: `TypeCorrect`, `IdsExact` (`StatusExact`) and `Armed`
  (`ComparatorArmed`), for any timer width, times, array and style of callback.
  `Exact` adds that no id above 31 is ever in the list: the lowest free id is
  taken, and the bits above 31 are set while 31 is. Without it two alarms might
  share a bit and releasing one would free the other's. Lemmas on `InsertAt` and
  `RemoveAt` carry it through the list.

Only model-checked: liveness (outside the prover's reach, as is `ENABLED`), the
partition table, `HandlerHasAlarm`, the lwIP port and the server's type invariant.
No module with a theorem uses a recursive operator.

## 6. Not modelled, and the plan

Not modelled because nothing in them interleaves or fails half-way: graphics,
fonts, mathematics, C library, RPC marshalling, debugging and loaders. lwIP is a
third party's.

In the order in which they are worth doing:

1. `TopThread` (`thread.c`): the ring of requests and its semaphore; the wake-up
   counter of `SifRpcServer` is the promise it should meet. Hazard: 512 requests
   against a semaphore of 255.
2. `ApaCache` and the users of `fioSema`: buffers are returned (a read error in
   `apaGetPartErrorSector`, `apa.c:53`, keeps one), the least recently used one is
   taken, one call at a time.
3. `PfsJournal`, then `PfsBitmap`: refine the `HeaderStore` pattern for metadata
   blocks; allocation never gives a block twice across crashes.
4. Bad blocks of memory cards (`mcman_replacebadblock`) and the walks of the FAT.
5. SIF commands with initialisation and IOP reboot (the packet table is not reset,
   `sifrpc.c:392`); `SifRemoveRpc`; composition with the client.
6. SBUS, iomanX descriptor tables, netman queues, usbd transfers.
7. Proofs: `HandlerHasAlarm` of `Alarm`; linking and tiling of the partition list;
   the chains of `SysArch`.

Hazards of modelled code that the models leave out: the journal's list of 126
sectors is not tested for room (`journal.c:54`); `mcman_checkBackupBlocks` ignores
read errors (`main.c:2285`); the upsamplers of some formats read a step that does
not divide the ring (`audsrv.c:435`).
