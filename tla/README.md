# A TLA+ model of the ImDisk virtual disk drivers and of parts of FastFAT

This directory models what in the repository runs concurrently and keeps state
of its own: the ImDisk kernel driver (`src/ImDiskSource/sys`), the shared memory
protocol with its user mode image server (`src/ImDiskSource/devio`), the
`awealloc` driver, and two parts of the FastFAT sample (`src/FAST FAT`), its work
queue and its closes. `PROJECT.json` maps every definition to the source lines it
stands for.

## Inventory

| Component | State | Operations | Hard behaviours | What makes it correct |
|---|---|---|---|---|
| Virtual disk (`iodisp.cpp`, `devthrd.cpp`, `imdisk.cpp`) | `list_head` of IRPs, `request_event`, `terminate_thread`, the image, the device object with its `ReferenceCount` | create/close, read, write, flush, device controls; removal; the loop of the device thread | any number of dispatch routines against one device thread; removal racing requests in flight; release of the image before the last reference is gone | no lost wakeup, no lost or doubled request, FIFO, deletion last |
| Last-I/O buffer (`devthrd.cpp`, `iodisp.cpp`, `lowerdev.cpp`, `floppy.cpp`) | `last_io_data/offset/length`, `last_io_lock`, image contents | lookup in the dispatcher, transfers in the device thread, completion routines of parallel I/O, format | publication outside the lock, completions in any order, short and failed transfers | a read returns current data; copies stay in the buffer |
| Proxy client, shared memory (`proxy.cpp`) and devio server (`devio.c`) | shared header and data area, two auto-reset events, cancel event | INFO, READ, WRITE, CLOSE; server loop | cancellation while the server works, server death, late answers | success means done; removal never blocks; the server ends |
| Proxy client, stream (`proxy.cpp`) | a pipe, socket or serial device | the same requests, CONNECT | partial transfers, cancellation | not modelled yet |
| Device creation and registry (`createdev.cpp`, `imdisk.cpp`, `devthrd.cpp`, control device in `iodisp.cpp`) | the I/O manager's device list, device numbers, names and links, drive letters | create (by clients, by `DriverEntry`), remove by number, eject, unload | a number is looked for and taken in two steps; failures at every step; removal while the disk is made; removal through a pointer that is no longer protected | numbers are unique; the creator's answer is true; nothing is left behind; removal and unload come to an end |
| `awealloc` driver (`awealloc.c`) | per file: sizes, list of blocks, counts of readers and writers, one stored page mapping | create (also from an image), read, write, set size, close | growth by a write among other transfers; mappings that change hands; memory that is short | the size changes under exclusion only; mappings have one owner; a page stays where it is |
| FastFAT work queue (`workque.c`, `fspdisp.c`) | per volume: count of posted requests, overflow queue | post, wait for an oplock, serve, take from the overflow queue | workers that leave while callers post; requests posted again | no place is lost, no request is stranded or served twice |
| FastFAT closes (`close.c`, dismount in `strucsup.c`, `fsctrl.c`, `shutdown.c`) | async and delayed close lists, the worker's flag, counts of a volume, its condition | close, delay, run down a volume, worker, dismount, delete, shut down | locks dropped and taken again in another order; creates on their way; a worker that ends while a close is queued | a volume goes last, counts are exact, closes are done |
| Common file I/O (`commonio.cpp`) | - | loops that fill or drain a buffer | short transfers | not modelled yet |
| `imdsksvc` service | sessions | connect | - | not modelled |
| `cli`, `cpl`, `cplcore`, `ImDiskNet` | - | user interface, calls to the driver | - | not modelled |
| the rest of `FAST FAT`, `NTFsrc`, `libdb-dotnet`, `Tutorial` | - | - | - | not modelled, see below |

Components interact in three ways. Dispatch routines hand IRPs to the device
thread through a locked list and an event. The device thread calls the image:
memory, a file, or a proxy. A parallel I/O disk's dispatch routines call the
image's driver and its completion routines come back in arbitrary context and
order. The last-I/O buffer is shared by all of these. An `awealloc` file is one of
the images a disk can have; it sees the disk's reads, writes and resizing as
those of any client. FastFAT is a file system that may be mounted on a disk and
shares no state with the driver; its own two parts meet only in the system's
worker threads.

## Modules

`ImDiskDevice` is one disk with any number of requests (`Irps`) and file objects
(`Handles`). `kind` is the backing chosen at creation: `vm`, `file`, `parallel`,
`proxy` (stream) or `shm`. A dispatch call is cut where another thread can come
in between with an effect: `Send` (entry), `TestTerminate`, then
`CompleteInDispatch`, `InsertTail` followed by `SetRequestEvent`, or
`ReadWriteLowerDevice` followed by `LowerDeviceCompletion`. The device thread's
`pc` follows the loop of `ImDiskDeviceThread`: `clear`, `take`, `serve` or `wait`,
`woken`, `teardown`, `refcheck`, `delay` or `delete`, `done`. `status` tells
success, want of resources, refusal, removal and I/O error apart and no more;
`DispatchAnswers` is what a dispatch routine can report for each operation and
backing without queueing the request, `Answers` what the device thread can: one
operator per service routine, with the routine's own rules for turning a failure
into `STATUS_DEVICE_REMOVED`. Serving a request on a released `vm` image is undefined in the code; the
model keeps the state visible to `NoUseOfReleasedImage` and answers without
success. The I/O manager's part (reference count, opening, completion) is marked
external. It is assumed that a file object is not closed while a dispatch routine
runs for it.

`DeviceService` is what the queue promises: first in first out, one answer each,
the disk goes away only when asked to and with nothing queued. `ImDiskDevice`
refines it with `pending <- Pending`, `state <- Phase`.

`LastIoCache` follows the data of a disk that is not a `vm` disk. A block is a
pair of bytes, so byte swapping is visible; `last_io_data` is a sequence whose
length is the allocated size and `<<>>` is NULL. `content` and `legit` are
history: what clients may have stored in a block (both the old and the new
content after a write that failed), and what a read in progress may return. A
lookup loads `last_io_offset` up to three times with the lock held: for the lower
bound of its test (`LoadOffset`), for the upper bound (`TestHit`, where a compiler
may also use the first load), and for the address of its copy (`FinishLookup`,
with `Copied`). The device thread publishes offset and length in two steps without
the lock. `TornLookups` says whether a publication may fall between these loads:
TRUE is the code as it is, FALSE restricts attention to executions in which it
does not happen. `Parallel` distinguishes image devices that are direct
I/O from the others, as `ImDiskReadWriteLowerDevice` does. Removal is left to
`ImDiskDevice`.

`ProxyShm` has the device thread, from the calls of `ImDiskCreateDevice` on
(`IMDPROXY_REQ_INFO`, then the boot sector or not, then `Created`), in
`ImDiskReadProxy`/`ImDiskWriteProxy` over `ImDiskCallProxy`, and devio's `do_comm`
loop. While the disk is created the calls have no `CancelEvent`, and nobody can
remove it (`creating`). What devio makes of a transfer is in `Execute`: a read
that gets less than it asked for is filled with zeros and answered as complete, a
write answers what it wrote, both may fail, and a write longer than the buffer
ends the server. The header is a sequence of words
and is overwritten in place by requests and responses, which is what the hard
cases are about. A wait is satisfied in the step that sets its event, as in the
kernel. `Backlog` bounds the requests still queued when the disk is removed, and
`givenUp` is history: some call was cancelled by the removal.

`DeviceRegistry` is the life of disks from the request to the end of the device
thread. `pc` of a disk follows `ImDiskCreateDevice` (`start`, `open`, `proxy` if
its image is a server that has to answer first, `create`, `link`, `init`, then
`created` or `failed`) and `ImDiskDeviceThread` after it
(`preload`, `running`, `unlink`, `delete`, `ended`); `client` is the thread that
waits in `ImDiskAddVirtualDisk`. What the driver learns from the executive is
kept as the executive keeps it: `devices` is the list of device objects, newest
first, `named` those whose name is taken, `links` and `letters` the symbolic
links. `IoDeleteDevice` frees the name at once and takes the object off the list
only when the last reference is gone. `found` is the pointer that
`IOCTL_IMDISK_REMOVE_DEVICE` has got under `DeviceListLock` and uses after it: if
the device has gone by then the memory is the pool's, and nothing or any other
disk is removed. Requests and the contents of the image are `ImDiskDevice`'s
business; here the backing is open or closed. `ImDiskUnload` walks the list
without a lock; `Quiet` says that the walk begins with no creation or removal
under way.

`AweAlloc` is one file of `awealloc`. Offsets count a unit smaller than a page,
so that transfers start and end within pages, cross them and leave the last one
partly filled. `blocks` is the list in its order, newest first, with the byte
count of each memory descriptor list, which need not be a multiple of the page.
The data is left out: what matters is which block an offset leads to.
A step of a request ends where `IOLock` is released. `lost` counts the
protections that a read beyond the end keeps for ever; it exists for
`ProtectionIsExact` only.

`FatWorkQueue` is the requests of one volume. A request is with its caller, with
the oplock package or the cache manager, a work item of the system, on the
overflow queue, or served; serving ends in completion, in another wait, or in
posting it again (an exception on the way). A worker keeps the volume (`VolDo`)
until it finds the overflow queue empty.

`FatClose` has the file objects of volumes, the two close lists, the worker, the
threads that run down one volume's closes, dismount in its two parts (`TearDownVcb`
in `CheckForDismount`, then `DeleteVcb` with its second look at the counts), the
scan for dismounted volumes and shut down. The resources of the volumes and the
global one are variables with a holder; a closer that needs the global resource
lets go of the volume and takes both in order, with `OpenFileCount` biased, as
`FatCommonClose` does. `FCB_STATE_DELAY_CLOSE` is read twice before the close mutex is
taken, by `FsdClose` and for the argument of `FatQueueClose` (`PassDelayClose`), and
used under it (`QueueClose`), so that a create may clear it in between and leave
a close on the delayed list. `mounted` are the volumes whose Vpb the I/O manager
sends creates to: a dismounted volume keeps its Vpb until `SwapVpb`, in
`CheckForDismount`, in a scan or by a forced dismount (`ForceDismount`). A `nested` close is one inside another request of the same
thread. The lists that a volume has of its own are the entries of the global lists
that are on it, in the same order: a close is taken from a list by its position
(`OldestIn`, `Without`). The I/O manager's part (`Vpb->ReferenceCount`, creates on their way) is
external.

The proofs about a module `M` are in `MProofs`: `ImDiskDeviceProofs`,
`LastIoCacheProofs`, `ProxyShmProofs`, `DeviceRegistryProofs`, `AweAllocProofs`,
`FatWorkQueueProofs` and `FatCloseProofs`. The `MC*` modules only give constants.
Operators introduced as mutants show what a plausible slip in the code would be;
no specification uses them.

## Runs

| Run | Shows |
|---|---|
| `device_safety` | all backings and operations, 2 requests, 2 file objects: the invariants |
| `device_service` | refinement of `DeviceService` and liveness under fairness |
| `device_released_image` (violation) | a request inserted late is served from the released image |
| `cache_serial` | cached reads are current and copies stay in the buffer on a disk served by the thread, 2 requests, no publication inside a lookup |
| `cache_parallel` | 2 clients of a buffered parallel disk, completions in any order, formats: copies stay in the buffer |
| `cache_torn_lookup` (violation) | a publication between the test of a lookup and its copy: memory from before the buffer is copied |
| `shm_alone` | creation, handshake, short and failed transfers, removal with a request queued, server death; safety and liveness |
| `registry` | 2 disks made, removed and unloaded, a failure at every step: uniqueness, true answers, nothing left, three liveness properties |
| `awealloc` | 2 threads on one file of up to two pages: exclusion, ownership of mappings, pages that stay |
| `fat_workque` | 4 requests and a mount, 3 workers, a threshold of 1: exact counts, nothing stranded or served twice, everything posted is served |
| `workque_threshold` (violation) | with the code's threshold of 2, three workers serve the volume |
| `fat_close` | 2 users' file objects and a stream on one volume: the volume goes last, exact counts, one worker, closes are done |

Bounds. Two requests are the least at which one is queued while another is
served, inserted, or in a dispatch routine; the proofs cover any number. Two file
objects let one keep the device while the other comes and goes. Two blocks give
overlapping, disjoint and enclosing extents. Two written values, one of them zero, tell old from
new and exercise the zero path; `cache_parallel`, whose property is about places
and not about values, writes zeros only. In `shm_alone` four header words are one
more than a request, the alignment is devio's default of 1, and one request is
queued behind the call that removal cancels (`Backlog = 1`).
In `registry` two disks meet in every pair of steps; `MaxDevices = 2` makes a
chosen number too high, numbers 0, 1 and `AutoNumber` are asked for, number 1 is
removed (not 0, which is also what an extension that is not initialised holds:
with 0 a removal can be undone by the initialisation, `createdev.cpp:2056`). In
`awealloc` a page has two units and the file up to three, so that a request can
lie in, cross or start on a page and memory can come in one piece, in two, or
short; `MaxLost = 1` is enough to show what a lost protection does and no more.
In `fat_workque` four requests fill the two places that a threshold of 1 gives
and queue two, and a third worker serves the mount. `fat_close` has one volume, two user file objects that may be
opens of the same file, its root directory stream, two worker threads (one
finishing while another starts) and `MaxDelayed = 1`; `FatRemoveClose`'s levels
above that limit (`HighAsync`, `HighDelayed`) are modelled and never reached.
Symmetry is used only where no temporal property is checked.
`CHECK_DEADLOCK FALSE` is set where the system may stop: a deleted device, a
closed connection, an unloaded driver, a file whose creation failed, a file
system that is shut down.

Fairness. `ImDiskDevice` assumes weak fairness of the device thread, of every
dispatch call, of an open in progress, of the image driver's completion and of
the I/O manager's release of a completed request: these are threads that are
runnable and not controlled by a client. Nothing obliges clients to send, to
close handles or to remove the disk. The liveness run leaves out `shm`, where the
code really waits for ever on a dead server until the disk is removed;
`RemovalIsNotBlocked` covers that case in `ProxyShm`, which assumes weak fairness
of the device thread and of the server while it lives (it may die at any time).
`DeviceRegistry` assumes that `DriverEntry` returns, that the device threads and
`ImDiskUnload` run, and that a client that has a disk open closes it some time;
without the last, `UnloadFinishes` has no premise and `RemovedDiskGoes` only says
that the disk waits for the client. Nothing is assumed of a proxy server:
`ImDiskCreateDevice` calls it without a `CancelEvent` and without a time limit
(`createdev.cpp:1071`, `1331`, `1394`; the waits are `proxy.cpp:258` and `289`), so
`ProxyAnswers` has no fairness, and a creator whose server stays silent waits for
ever. `CreatorIsAnswered` says so: it has as its premise that the device thread
does not stay in that state. `FatWorkQueue` assumes that a worker ends the
request it serves and that the system finds a worker for a work item; a system
with fewer workers than places, all of them blocked, is out of its reach.
`FatClose` assumes strong fairness of the threads that wait for a resource,
because the executive grants resources to waiters in turn, and weak fairness of
the rest. Of the workers it assumes that some one makes progress, as one at a
time runs through the lists. `AweAlloc` has no fairness: nobody waits there.

## Proofs

`ImDiskDeviceProofs` proves for every set of requests, file objects, kinds and
operations, from `ConstantsAssumption` alone:

- `TypeCorrect`, `Invariance`: `TypeOK` and the inductive invariant `IInv`.
- `WakeupsAreNotLost`, `RequestsAreNotLost`, `DeviceDeletedLast`,
  `RequestsAreOwnedOnce`, `RequestsHoldTheirFile`: `NoLostWakeup`,
  `NoRequestLost`, `NothingOutlivesDevice`, `OwnedOnce`, `RequestHoldsFile`.
- `ImplementsService`: the safety part of the refinement of `DeviceService`.

`IInv` joins `TypeOK`, `OwnedOnce`, `NoRequestLost`, `RequestHoldsFile`,
`NoLostWakeup` and `ThreadPhase`. None is inductive alone. That the device is
deleted last needs that an unanswered request, or one whose dispatch routine has
not returned, holds a file object open (`RequestHoldsFile`); then at the test of
`ReferenceCount` nobody is in a dispatch routine and `NoRequestLost` leaves only
the queue, which `OwnedOnce` says contains requests the driver owns: none. After
the test only opens that will be refused can come, because `terminate_thread` is
set (`ThreadPhase`). `NoLostWakeup` rests on the order clear-then-look and
insert-then-set.

`FatWorkQueueProofs` proves for every threshold and any finite sets of requests
and workers, from `WorkQueueAssumption` alone: `TypeCorrect`, `Invariance`,
`NoPlaceIsLost` (`PlacesAreExact`: the count is the places taken, and requests
wait on the overflow queue only while it is above the threshold) and
`NoneServedTwice` (`ServedOnce`). The invariant `IInv` joins these with `QueuedOnce`: no request is on a queue twice.
That is what makes taking the head of a queue remove its request from the set
that the counts speak of, and so what keeps `PostedRequestCount` equal to the
cardinality of the places taken. The three lemmas `PlaceTaken`, `PlaceGiven` and
`PlacePassed` are the only ways in which that cardinality changes; a worker that
finds the overflow queue empty gives its place back in the same step, under the
spin lock, which is why no request is stranded. The proof of a step is split in
the part about the queues, the same for every caller of `FatAddToWorkque`
(`AddStep`), and the part about the workers.

`DeviceRegistryProofs` proves for any sets of disks, removers and letters and any
highest number, from `RegistryAssumption` alone: `TypeCorrect`, `NumbersAreUnique`
(`UniqueNumbers`), `CreatorsHearTheTruth` (`AnswerIsTrue`) and `NothingIsLeft`
(`ThreadsLeaveNothing`). A number is looked for in one step and taken in another,
and `number` in the extension is set later still, so uniqueness of `number` is not
inductive. `Names` says it of `chosen`: two named disks differ in it because
`IoCreateDevice` refuses a name that is taken, and `number` is `chosen` once the
extension is initialised. `Holdings` and `Clients` say by the phase of the device
thread what it holds and what its creator can have been told, `UnloadWalk` that
the only thread that ends during the walk of `ImDiskUnload` is the one it waits
for. `ThreadsLeaveNothing` speaks of a letter only when no other disk asks for
the same one.

`AweAllocProofs` proves for any page size, bound and finite set of threads, from
`AweAssumption`: `TypeCorrect`, `ProtectionHolds` (`ProtectionIsExact`), `OneOwner`
(`MappingsOwnedOnce`), `CopiesStayInFile` (`CopiesAreInTheFile`) and the action
property `PagesDoNotMove` (`PagesStay`). `AweAssumption` has more memory descriptor
lists than threads, so that the model is never short of a name for one: each
thread holds at most one and one is stored (`Owners`; the lemma that a spare one
is left is the pigeonhole principle). `Extent` says that the blocks cover every
page below `TotalSize` and that a transfer past its checks ends within the file;
it needs that no size changes under a transfer, which is `ProtectionIsExact`. The
lemmas on pages (`PageBase` of sums, of whole pages, of what lies between) are
proved once; that `AWEAllocAddBlock` hides no page is one lemma that both the
invariant and `PagesStay` rest on.

`ProxyShmProofs` proves for any number of blocks, values, header words, any
alignment and any `Backlog`, from `ConstantsAssumption`: `TypeCorrect`,
`TurnsAreTaken` (`TakesTurns`) and `SuccessIsReal` (`SuccessMeansDone`). The last says
of a read that each block came from the image or is zeros, because devio answers
with zeros what it cannot read, and it speaks of the time until a call is
cancelled: the next call of a removed disk can take the answer to that one for
its own. `Uncancelled` is the condition under which the two sides are in step; then
`Turns` says whose turn it is and what the header holds, and `BlocksDone` that each
block counted in `length_done` is done and that a response is `Truthful`: it reports
an error, or a length that is not the block's, or the block is done. After a
cancellation nothing but `Lengths` is left: the header may be read as anything, and
`TypeOK` holds still.

`LastIoCacheProofs` proves for any number of blocks, requests and values:
`TypeCorrect` for every disk with `OneFiller`, `CopiesAreInside`
(`CopiesStayInBuffer`) for such a disk without torn lookups, `PublishedIsImage`
(`PublishedMatchesImage`) under `Serial`, and `ReadsReturnContent` (`ReadsAreCurrent`)
under `Serial` without byte swapping and torn lookups. The hypotheses are
conditions on the disk and on the schedule, and each is needed: on a sparse disk
with buffered parallel I/O the device thread and completion routines both fill
the buffer and `CopiesStayInBuffer` is false; formats and parallel I/O leave the
buffer behind the image (`Serial`); with byte swapping reads are swapped and writes
are not; a torn lookup is the violation of `cache_torn_lookup`. `Transfers` and
`Queue` bound requests and give the device thread the one it serves, `Buffer` says
that nothing is published while the buffer is filled and that it is large enough,
`Lookups` that a hit lies in what is published until it is copied, `Published`,
`Expected` and `Returned` follow a block from the image through the buffer to the
reader.

`FatCloseProofs` proves for any volumes, worker threads and limit of delayed closes
and any finite set of file objects, from `CloseAssumption`: `TypeCorrect`,
`CountsHold` (`CountsAreExact`), `OneWorker` (`OneWorkerPerFlag`) and
`VolumesOutlive` (`VolumeOutlivesFiles`). The counts are cardinalities of sets of
file objects (`OpenUsers`, `OpenInternals`, `Biased`, `FilesOf`), and the lemmas say
how each kind of step changes them: a file object moves on and none changes
(`Moved`), it is closed and leaves two of them (`Closed`), a close is taken from a
list (`Dequeued`), a volume is torn down and loses its open streams (`TornDown`).
`Lists` and `Hands` say that a queued close is on one list once and that one taken
off is in the hands of one thread, so that none is counted down twice. A volume
is deleted with `vcb` held, when `Holders` says that its `OpenFileCount` is zero; with
the second look at the two other counts every set is empty, and the only file
object whose thread is not done is the one that deletes. `Flag` states the flag,
the work item and the worker together; that a worker which stops leaves no async
close and at most `MaxDelayed` delayed ones needs that a volume with closes on a
list has an oldest one (`OldestExists`, from the library's well-foundedness of the
natural numbers). These parts are `Core`. `Unmounted` says that no create sets out
to a volume that is being deleted: until then creates come to a dismounted volume
and are refused, and after the swap of the Vpb only those on their way are left,
which the second look at `Vpb->ReferenceCount` sees.

The strengthened invariants were checked by TLC on the instances of the runs, and
on a few more: `LastIoCache` for each value of `Parallel`, with a sparse image or
not, with swapped bytes, formats and torn lookups; `ProxyShm` with
`Backlog` 0 and 1; `FatClose` with two volumes and `MaxDelayed = 0`.

What stays with TLC: every liveness property and the fairness part of `ServiceSpec`
(the prover has no rules for fairness and `ENABLED`), and the three violations.
`cache_parallel` has torn lookups, as the code does, where `CopiesAreInside` excludes
them: on a disk that is not sparse only completion routines publish, and they hold
the lock.

## What the violations mean

Each contradicts a comment that `PROJECT.json` quotes. Two need a narrow schedule:
a request inserted while the device thread goes from the release of the image to
its reference poll (`device_released_image`), and a publication between the test of
a lookup and its copy (`cache_torn_lookup`). There the lookup is a read of the first
blocks: it passes the test with the old offset 0, the copy then starts at
`last_io_data` plus its own offset minus the new `last_io_offset` (`iodisp.cpp:258`),
which is before the buffer. The third, `workque_threshold`, needs no more than three
requests: `workque.c:325` compares with `>` before it counts, and so gives out one
place more than the constant whose comment calls it the maximum. `PlacesAreExact`
states the count as the code keeps it.

## Other disagreements seen while modelling

These were met and are modelled as the code is, without a run of their own.

- A write on a connection that is lost keeps the disk, a read removes it: the
  write path turns the status into `STATUS_IO_DEVICE_ERROR` before
  `devthrd.cpp:340` looks at it.
- With byte swapping `devthrd.cpp:295` swaps `IoStatus.Information` bytes of a write,
  which is 0 at that point: the write is stored as it came, while every read is
  swapped, and a client reads back its data with the bytes exchanged.
  `ReadsAreCurrent` is refuted with `ByteSwap = TRUE`. It is with formats, too:
  `ImDiskFloppyFormat` does not touch the last-I/O buffer.
- A request queued behind a shared memory call that removal cancels takes that
  call's answer for its own (`proxy.cpp:298`; it happens in `shm_alone`, and
  `SuccessMeansDone` is refuted without its `~givenUp`).
- devio reports a read that it could not do in full as a complete one, with zeros
  (`devio.c:736`-`747`); `SuccessMeansDone` allows for the zeros.
- `ReadsAreCurrent` is refuted with two requests on a parallel disk (completions
  reordered) and with one on a sparse direct I/O parallel disk (writes pass the
  buffer by), `CopiesStayInBuffer` on a sparse parallel disk.
- A shared memory disk that is removed before its first transfer may leave its
  server waiting: the server takes the alignment of 1 that it reported for an
  `IMDPROXY_REQ_INFO` (`ServerEnds` speaks of disks that made or tried a transfer).
- A creator whose proxy server stays silent is never answered, and its disk cannot
  be removed.
- `inc/imdisk.h:246` says of `IMDISK_AUTO_DEVICE_NUMBER` that the first free
  number is taken; `ImDiskFindFreeDeviceNumber` takes one more than the highest,
  so that a disk may be refused although lower numbers are free.
- A read beyond the end of an `awealloc` file keeps its protection
  (`awealloc.c:832`), and the file cannot be resized from then on.

## Not modelled

The repository has some 259 000 lines of implementation, most of it third-party
samples that it collects and does not change: FastFAT (73 000 lines), the sample
drivers and headers under `NTFsrc`, a library's demo. A model of a driver's
control, faithful to its code, covers that driver only, and the modules here stay
with the code that is the repository's own and with the two parts of FastFAT
whose correctness is a matter of interleaving. The share of all lines that the
map covers stays small for that reason; it is not widened past what the
definitions translate.

Within the modelled components these are left out: PnP and pass-through requests,
image resizing and trim; CONNECT, UNMAP and ZERO of the proxy protocol and its
stream transport; queries of the disk list, the refresh event and
reference-object requests; detection of image sizes and geometry;
`AWEAllocControl` and `AWEAllocQueryInformation`; FastFAT's on-disk structures,
name lookup, data path, EA file, subdirectories and virtual volume file.
Formatting, parsing, logging and registry access are not modelled.

Smaller simplifications: `DispatchCreate` has no file names (a non-empty one is
refused, `iodisp.cpp:62`) and `TestTerminate` no negative offsets (refused,
`iodisp.cpp:118`); `ReadBusy` does not count readers up to `LONG_MAX`
(`awealloc.c:427`), and `LostBound` keeps a second read past the end away while one is
being checked; `AddToWorkque` counts a request and queues its work item in one step,
as `QueueClose` does with the close work item; `Dismount` takes neither the global
resource nor the run down of the volume that `FatFlushAndCleanVolume` makes, which
gives it more behaviours than the code has.

## Plan

Done: `ImDiskDevice` with `DeviceService`, `LastIoCache`, `ProxyShm`,
`DeviceRegistry`, `AweAlloc`, `FatWorkQueue` and `FatClose`, each with the proofs of
the invariants that its runs check. Left, in this order:

1. Theorems: `CopiesStayInBuffer` of a parallel disk that is not sparse with torn
   lookups; what a removal may do to a backlog in `ProxyShm` (at most the next call
   is mistaken).
2. `LastIoCache` composed with the teardown of `ImDiskDevice` (the buffer is freed
   without the lock).
3. `ProxyStream` (`ImDiskCallProxy` over `ImDiskSafeIOStream`) and `SafeIO`, the loops
   of `commonio.cpp`, against one abstract `ImageService`.
