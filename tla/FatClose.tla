------------------------------ MODULE FatClose ------------------------------
(***************************************************************************)
(* How the FAT file system closes file objects and deletes volumes         *)
(* (close.c, FatCheckForDismount in strucsup.c).  A close is done at once, *)
(* put on the delayed list because the file may be opened again soon, or   *)
(* put on the async list because the volume cannot be had.  One worker     *)
(* thread at a time runs both lists down; a thread that needs a volume for *)
(* itself runs down the closes of that volume.  A volume that is dismounted*)
(* is deleted by whoever finds that nothing refers to it any more.         *)
(*                                                                         *)
(* A volume has user file objects, which OpenFileCount counts, and the     *)
(* stream file of its root directory, which InternalOpenCount and          *)
(* ResidualOpenCount count.  The virtual volume file, the EA file and      *)
(* subdirectories are left out.  The lists a volume has of its own are the *)
(* entries of the global lists that are on it, in the same order.          *)
(***************************************************************************)
EXTENDS Integers, Sequences, FiniteSets

CONSTANTS
  Vols,
  Users,       \* user file objects
  Streams,     \* root directory stream files
  VolOf,       \* the volume of a file object
  Fcbs,
  Opens,       \* the files that a user file object may be opened on
  Workers,     \* threads that may run FatCloseItem
  MaxDelayed,  \* FatMaxDelayedCloseCount
  Nobody, Flusher, Scanner, ShutsDown, NoFile, NoVol, NoFcb

Files == Users \cup Streams

ASSUME CloseAssumption ==
  /\ VolOf \in [Files -> Vols]
  /\ Opens \in [Users -> SUBSET Fcbs]
  /\ \A f, g \in Users : Opens[f] \cap Opens[g] # {} => VolOf[f] = VolOf[g]
  /\ NoFcb \notin Fcbs
  /\ MaxDelayed \in Nat
  /\ Users \cap Streams = {}
  /\ IsFiniteSet(Files)
  /\ {Nobody, Flusher, Scanner, ShutsDown} \cap (Files \cup Workers) = {}
  /\ Nobody \notin {Flusher, Scanner, ShutsDown}
  /\ Flusher # Scanner
  /\ Files \cap Workers = {}
  /\ NoFile \notin Files
  /\ NoVol \notin Vols

VARIABLES
  state,         \* the life of each file object
  FcbOf,         \* the Fcb of a user file object
  DelayClose,    \* FCB_STATE_DELAY_CLOSE
  OpenCount,     \* of each Fcb
  AsyncCloseList, DelayedCloseList,
  AsyncCloseActive, HighAsync, HighDelayed, ShutdownStarted,
  FatCloseItem,  \* how often the work item is queued
  wpc, CurrentVcb, wctx,   \* the worker threads
  vcb,           \* the holder of each Vcb's resource
  global,        \* the holder of FatData.Resource
  hand,          \* the close that a run down of the volume has taken
  OpenFileCount, InternalOpenCount, CloseInProgress,
  condition,     \* VcbCondition, or that the Vcb is gone
  mounted,       \* the volumes that the I/O manager sends creates to
  toFlush        \* volumes that shut down has not come to

fileVars == <<state, FcbOf, DelayClose, OpenCount>>
listVars == <<AsyncCloseList, DelayedCloseList, AsyncCloseActive, FatCloseItem>>
highVars == <<HighAsync, HighDelayed>>
workerVars == <<wpc, CurrentVcb, wctx>>
volumeVars == <<OpenFileCount, InternalOpenCount, CloseInProgress, condition,
                mounted>>
lockVars == <<vcb, global, hand>>
shutdownVars == <<ShutdownStarted, toFlush>>
vars == <<fileVars, listVars, highVars, workerVars, volumeVars, lockVars,
          shutdownVars>>

(* How FatCommonClose is called: it may wait for the volume, it may not,   *)
(* or the thread is inside of another request (not top level).             *)
Calls == {"wait", "try", "nested"}

States == {"none", "enroute", "open", "clean", "post", "delay", "async",
           "queued", "held", "global", "check", "dismount"} \cup Calls

TypeOK ==
  /\ state \in [Files -> States]
  /\ FcbOf \in [Users -> Fcbs \cup {NoFcb}]
  /\ DelayClose \in [Fcbs -> BOOLEAN]
  /\ OpenCount \in [Fcbs -> Nat]
  /\ AsyncCloseList \in Seq(Files)
  /\ DelayedCloseList \in Seq(Users)
  /\ {AsyncCloseActive, HighAsync, HighDelayed, ShutdownStarted} \subseteq BOOLEAN
  /\ FatCloseItem \in {0, 1}
  /\ wpc \in [Workers -> {"idle", "remove", "lock", "close", "end"}]
  /\ CurrentVcb \in [Workers -> Vols \cup {NoVol}]
  /\ wctx \in [Workers -> Files \cup {NoFile}]
  /\ vcb \in [Vols -> {Nobody, Flusher, Scanner} \cup Files \cup Workers]
  /\ global \in {Nobody, Scanner, ShutsDown} \cup Files
  /\ hand \in [Vols -> Files \cup {NoFile}]
  /\ OpenFileCount \in [Vols -> Nat]
  /\ InternalOpenCount \in [Vols -> Nat]
  /\ CloseInProgress \in [Vols -> BOOLEAN]
  /\ condition \in [Vols -> {"good", "bad", "deleted"}]
  /\ mounted \subseteq Vols
  /\ toFlush \subseteq Vols

On(v) == {f \in Files : VolOf[f] = v}

(* Volumes are mounted and their root directories have a stream file.      *)
Init ==
  /\ state = [f \in Files |-> IF f \in Streams THEN "open" ELSE "none"]
  /\ FcbOf = [f \in Users |-> NoFcb]
  /\ DelayClose = [c \in Fcbs |-> FALSE]
  /\ OpenCount = [c \in Fcbs |-> 0]
  /\ AsyncCloseList = <<>>
  /\ DelayedCloseList = <<>>
  /\ AsyncCloseActive = FALSE
  /\ HighAsync = FALSE
  /\ HighDelayed = FALSE
  /\ ShutdownStarted = FALSE
  /\ FatCloseItem = 0
  /\ wpc = [w \in Workers |-> "idle"]
  /\ CurrentVcb = [w \in Workers |-> NoVol]
  /\ wctx = [w \in Workers |-> NoFile]
  /\ vcb = [v \in Vols |-> Nobody]
  /\ global = Nobody
  /\ hand = [v \in Vols |-> NoFile]
  /\ OpenFileCount = [v \in Vols |-> 0]
  /\ InternalOpenCount = [v \in Vols |-> Cardinality(Streams \cap On(v))]
  /\ CloseInProgress = [v \in Vols |-> FALSE]
  /\ condition = [v \in Vols |-> "good"]
  /\ mounted = Vols
  /\ toFlush = Vols

Free(v) == vcb[v] = Nobody

MoveTo(f, s) == state' = [state EXCEPT ![f] = s]

-----------------------------------------------------------------------------
(* Creates and cleanups, as far as closes depend on them.                  *)

(* The I/O manager references the Vpb before it sends the create.  It      *)
(* looks at VPB_MOUNTED, which a dismounted volume keeps until its Vpb is  *)
(* swapped.                                                                *)
CreateEnRoute(f) ==
  /\ f \in Users
  /\ state[f] = "none"
  /\ VolOf[f] \in mounted
  /\ MoveTo(f, "enroute")
  /\ UNCHANGED <<FcbOf, DelayClose, OpenCount, listVars, highVars, workerVars,
                 volumeVars, lockVars, shutdownVars>>

Create(f, c) ==
  LET v == VolOf[f] IN
  /\ f \in Users
  /\ state[f] = "enroute"
  /\ c \in Opens[f]
  /\ Free(v)
  /\ \/ /\ condition[v] = "good"
        /\ MoveTo(f, "open")
        /\ FcbOf' = [FcbOf EXCEPT ![f] = c]
        /\ OpenFileCount' = [OpenFileCount EXCEPT ![v] = @ + 1]
        /\ OpenCount' = [OpenCount EXCEPT ![c] = @ + 1]
        /\ DelayClose' = [DelayClose EXCEPT ![c] = FALSE]
     \/ /\ condition[v] = "bad"
        /\ MoveTo(f, "none")
        /\ UNCHANGED <<FcbOf, OpenFileCount, OpenCount, DelayClose>>
  /\ UNCHANGED <<listVars, highVars, workerVars, InternalOpenCount,
                 CloseInProgress, condition, mounted, lockVars, shutdownVars>>

(* FatCommonCleanup: a file that nobody else has open is one to delay,     *)
(* unless it is to be deleted or has a section.                            *)
Cleanup(f) ==
  LET c == FcbOf[f] IN
  /\ f \in Users
  /\ state[f] = "open"
  /\ MoveTo(f, "clean")
  /\ \E delay \in BOOLEAN :
       /\ delay => OpenCount[c] = 1
       /\ DelayClose' = [DelayClose EXCEPT ![c] = @ \/ delay]
  /\ UNCHANGED <<FcbOf, OpenCount, listVars, highVars, workerVars, volumeVars,
                 lockVars, shutdownVars>>

-----------------------------------------------------------------------------
(* FatFsdClose.  The I/O manager has dropped its reference on the Vpb.     *)

Delays(f) == f \in Users /\ DelayClose[FcbOf[f]]

FsdClose(f, call) ==
  /\ state[f] = "clean"
  /\ MoveTo(f, IF Delays(f) /\ ~ShutdownStarted THEN "post" ELSE call)
  /\ UNCHANGED <<FcbOf, DelayClose, OpenCount, listVars, highVars, workerVars,
                 volumeVars, lockVars, shutdownVars>>

(* The flag is read again for the call of FatQueueClose, and may change    *)
(* before that has the close mutex: the file may be opened again.          *)
PassDelayClose(f) ==
  /\ state[f] = "post"
  /\ MoveTo(f, IF Delays(f) THEN "delay" ELSE "async")
  /\ UNCHANGED <<FcbOf, DelayClose, OpenCount, listVars, highVars, workerVars,
                 volumeVars, lockVars, shutdownVars>>

(* Mutant of QueueClose: the worker is looked for before the entry is on   *)
(* the list and not started for a short list of async closes.              *)
QueueCloseAboveLimit(f) ==
  LET delay == state[f] = "delay"
      delayed == Append(DelayedCloseList, f)
      async == Append(AsyncCloseList, f)
      start == /\ ~AsyncCloseActive
               /\ IF delay THEN Len(delayed) > MaxDelayed
                  ELSE Len(async) > MaxDelayed
  IN
  /\ state[f] \in {"delay", "async"}
  /\ MoveTo(f, "queued")
  /\ DelayedCloseList' = IF delay THEN delayed ELSE DelayedCloseList
  /\ AsyncCloseList' = IF delay THEN AsyncCloseList ELSE async
  /\ AsyncCloseActive' = (AsyncCloseActive \/ start)
  /\ FatCloseItem' = IF start THEN FatCloseItem + 1 ELSE FatCloseItem
  /\ UNCHANGED <<FcbOf, DelayClose, OpenCount, highVars, workerVars,
                 volumeVars, lockVars, shutdownVars>>

(* Mutant of QueueClose: the worker is started for every close.            *)
QueueCloseAlwaysStarts(f) ==
  LET delay == state[f] = "delay"
      delayed == Append(DelayedCloseList, f)
  IN
  /\ state[f] \in {"delay", "async"}
  /\ MoveTo(f, "queued")
  /\ DelayedCloseList' = IF delay THEN delayed ELSE DelayedCloseList
  /\ AsyncCloseList' = IF delay THEN AsyncCloseList
                       ELSE Append(AsyncCloseList, f)
  /\ AsyncCloseActive' = TRUE
  /\ FatCloseItem' = FatCloseItem + 1
  /\ UNCHANGED <<FcbOf, DelayClose, OpenCount, highVars, workerVars,
                 volumeVars, lockVars, shutdownVars>>

(* FatQueueClose, under the close mutex.                                   *)
QueueClose(f) ==
  LET delay == state[f] = "delay"
      delayed == Append(DelayedCloseList, f)
      start == /\ ~AsyncCloseActive
               /\ delay => Len(delayed) > MaxDelayed
  IN
  /\ state[f] \in {"delay", "async"}
  /\ MoveTo(f, "queued")
  /\ DelayedCloseList' = IF delay THEN delayed ELSE DelayedCloseList
  /\ AsyncCloseList' = IF delay THEN AsyncCloseList
                       ELSE Append(AsyncCloseList, f)
  /\ AsyncCloseActive' = (AsyncCloseActive \/ start)
  /\ FatCloseItem' = IF start THEN FatCloseItem + 1 ELSE FatCloseItem
  /\ UNCHANGED <<FcbOf, DelayClose, OpenCount, highVars, workerVars,
                 volumeVars, lockVars, shutdownVars>>

-----------------------------------------------------------------------------
(* FatCommonClose.                                                         *)

(* What becomes of the counts; bias is the reference that the close keeps  *)
(* on the volume.  The Fcb goes with its last file object, and its flag    *)
(* with it.                                                                *)
CloseFile(f, bias) ==
  LET v == VolOf[f] IN
  IF f \in Users
  THEN /\ OpenFileCount' = [OpenFileCount EXCEPT ![v] = @ - 1 + bias]
       /\ OpenCount' = [OpenCount EXCEPT ![FcbOf[f]] = @ - 1]
       /\ DelayClose' = [DelayClose EXCEPT ![FcbOf[f]] =
                            @ /\ OpenCount[FcbOf[f]] > 1]
       /\ FcbOf' = [FcbOf EXCEPT ![f] = NoFcb]
       /\ UNCHANGED InternalOpenCount
  ELSE /\ OpenFileCount' = [OpenFileCount EXCEPT ![v] = @ + bias]
       /\ InternalOpenCount' = [InternalOpenCount EXCEPT ![v] = @ - 1]
       /\ UNCHANGED <<FcbOf, OpenCount, DelayClose>>

(* STATUS_PENDING: the volume is held and the thread may not wait, or it   *)
(* is itself amid a create on the volume.                                  *)
CommonClosePends(f) ==
  /\ \/ state[f] = "try" /\ ~Free(VolOf[f])
     \/ state[f] = "nested"
  /\ MoveTo(f, "post")
  /\ UNCHANGED <<FcbOf, DelayClose, OpenCount, listVars, highVars, workerVars,
                 volumeVars, lockVars, shutdownVars>>

(* Is this the last file of a dismounted volume, in a thread that can deal *)
(* with its deletion, and not inside of another close?                     *)
ChecksForDismount(f) ==
  LET v == VolOf[f] IN
  /\ ~CloseInProgress[v]
  /\ OpenFileCount[v] = (IF f \in Users THEN 1 ELSE 0)
  /\ condition[v] = "bad"
  /\ state[f] # "nested"

(* Mutant of CommonClose: the volume is let go without a reference.        *)
CommonCloseUnbiased(f) ==
  LET v == VolOf[f] IN
  /\ state[f] \in Calls
  /\ Free(v)
  /\ CloseFile(f, 0)
  /\ IF ChecksForDismount(f)
     THEN /\ MoveTo(f, "global")
          /\ CloseInProgress' = [CloseInProgress EXCEPT ![v] = TRUE]
     ELSE MoveTo(f, "none") /\ UNCHANGED CloseInProgress
  /\ UNCHANGED <<listVars, highVars, workerVars, condition, mounted,
                 lockVars, shutdownVars>>

CommonClose(f) ==
  LET v == VolOf[f] IN
  /\ state[f] \in Calls
  /\ Free(v)
  /\ IF ChecksForDismount(f)
     THEN /\ CloseFile(f, 1)
          /\ MoveTo(f, "global")
          /\ CloseInProgress' = [CloseInProgress EXCEPT ![v] = TRUE]
     ELSE /\ CloseFile(f, 0)
          /\ MoveTo(f, "none")
          /\ UNCHANGED CloseInProgress
  /\ UNCHANGED <<listVars, highVars, workerVars, condition, mounted,
                 lockVars, shutdownVars>>

(* The volume has been released; the global resource comes first.          *)
AcquireGlobal(f) ==
  /\ state[f] = "global"
  /\ global = Nobody
  /\ global' = f
  /\ MoveTo(f, "check")
  /\ UNCHANGED <<FcbOf, DelayClose, OpenCount, listVars, highVars, workerVars,
                 volumeVars, vcb, hand, shutdownVars>>

-----------------------------------------------------------------------------
(* FatCheckForDismount, under the global resource and the volume's.        *)

(* Vpb->ReferenceCount, which the I/O manager keeps.                       *)
VpbReferenceCount(v) ==
  Cardinality({f \in On(v) : state[f] \in {"enroute", "open", "clean"}})

CanDismount(v) ==
  /\ condition[v] = "bad"
  /\ VpbReferenceCount(v) = InternalOpenCount[v]

(* FatTearDownVcb gives up the stream files.  Their closes come at once,   *)
(* or when the memory manager lets go of them.                             *)
TearDownVcb(v, now, st) ==
  [f \in Files |->
     IF f \in Streams \cap On(v) /\ st[f] = "open"
     THEN IF now THEN "none" ELSE "clean"
     ELSE st[f]]

OpenStreams(v) == {f \in Streams \cap On(v) : state[f] = "open"}

StreamsClosed(v, now) ==
  InternalOpenCount' = [InternalOpenCount EXCEPT ![v] =
    IF now THEN @ - Cardinality(OpenStreams(v)) ELSE @]

(* FatSwapVpb: creates go to another Vpb from now on.                      *)
SwapVpb(v) == mounted' = mounted \ {v}

(* The thread of a close takes the volume again and its reference back.    *)
CheckForDismount(f, now) ==
  LET v == VolOf[f] IN
  /\ state[f] = "check"
  /\ Free(v)
  /\ OpenFileCount' = [OpenFileCount EXCEPT ![v] = @ - 1]
  /\ IF CanDismount(v) /\ OpenFileCount[v] = 1
     THEN /\ vcb' = [vcb EXCEPT ![v] = f]
          /\ state' = TearDownVcb(v, now, [state EXCEPT ![f] = "dismount"])
          /\ StreamsClosed(v, now)
          /\ SwapVpb(v)
          /\ UNCHANGED <<global, CloseInProgress>>
     ELSE /\ global' = Nobody
          /\ MoveTo(f, "none")
          /\ CloseInProgress' = [CloseInProgress EXCEPT ![v] = FALSE]
          /\ UNCHANGED <<vcb, InternalOpenCount, mounted>>
  /\ UNCHANGED <<FcbOf, DelayClose, OpenCount, listVars, highVars, workerVars,
                 condition, hand, shutdownVars>>

(* FatScanForDismountedVcb, when some volume is mounted.  It passes by a   *)
(* volume that is held.                                                    *)
ScanForDismountedVcb(v, now) ==
  /\ global = Nobody
  /\ Free(v)
  /\ CanDismount(v)
  /\ OpenFileCount[v] = 0
  /\ global' = Scanner
  /\ vcb' = [vcb EXCEPT ![v] = Scanner]
  /\ state' = TearDownVcb(v, now, state)
  /\ StreamsClosed(v, now)
  /\ SwapVpb(v)
  /\ UNCHANGED <<FcbOf, DelayClose, OpenCount, listVars, highVars, workerVars,
                 OpenFileCount, CloseInProgress, condition, hand,
                 shutdownVars>>

-----------------------------------------------------------------------------
(* FatFspClose for one volume: by a create, purge or lock that holds it,   *)
(* and in the middle of FatCheckForDismount.                               *)

(* The oldest entry of a list that is on a volume.                         *)
OldestIn(list, v, f) ==
  \E k \in DOMAIN list :
    /\ f = list[k] /\ VolOf[f] = v
    /\ \A j \in 1 .. k - 1 : VolOf[list[j]] # v

HasAny(list, v) == \E k \in DOMAIN list : VolOf[list[k]] = v

HasCloses(v) == HasAny(AsyncCloseList, v) \/ HasAny(DelayedCloseList, v)

(* FatRemoveClose for a volume: the oldest async close, or delayed close.  *)
VolumeClose(v, f) ==
  IF HasAny(AsyncCloseList, v) THEN OldestIn(AsyncCloseList, v, f)
  ELSE OldestIn(DelayedCloseList, v, f)

(* RemoveEntryList                                                         *)
Without(list, f) ==
  IF \E k \in DOMAIN list : list[k] = f
  THEN LET i == CHOOSE k \in DOMAIN list : list[k] = f
       IN  [k \in 1 .. Len(list) - 1 |-> IF k < i THEN list[k] ELSE list[k + 1]]
  ELSE list

(* One that finds nothing to do is left out.                               *)
FspCloseVcb(v) ==
  /\ Free(v)
  /\ HasCloses(v)
  /\ vcb' = [vcb EXCEPT ![v] = Flusher]
  /\ UNCHANGED <<fileVars, listVars, highVars, workerVars, volumeVars, global,
                 hand, shutdownVars>>

RunsDown(v) == vcb[v] \in {Flusher, Scanner} \cup Files

Dequeue(f) ==
  /\ AsyncCloseList' = Without(AsyncCloseList, f)
  /\ DelayedCloseList' = Without(DelayedCloseList, f)
  /\ MoveTo(f, "held")

RemoveVolumeClose(v) ==
  /\ RunsDown(v)
  /\ hand[v] = NoFile
  /\ \E f \in Files :
       /\ VolumeClose(v, f)
       /\ Dequeue(f)
       /\ hand' = [hand EXCEPT ![v] = f]
  /\ UNCHANGED <<FcbOf, DelayClose, OpenCount, AsyncCloseActive, FatCloseItem,
                 highVars, workerVars, volumeVars, vcb, global,
                 shutdownVars>>

CloseInHand(v) ==
  LET f == hand[v] IN
  /\ f # NoFile
  /\ CloseFile(f, 0)
  /\ MoveTo(f, "none")
  /\ hand' = [hand EXCEPT ![v] = NoFile]
  /\ UNCHANGED <<listVars, highVars, workerVars,
                 CloseInProgress, condition, mounted, vcb, global,
                 shutdownVars>>

VolumeIsRunDown(v) == hand[v] = NoFile /\ ~HasCloses(v)

FspCloseVcbEnds(v) ==
  /\ vcb[v] = Flusher
  /\ VolumeIsRunDown(v)
  /\ vcb' = [vcb EXCEPT ![v] = Nobody]
  /\ UNCHANGED <<fileVars, listVars, highVars, workerVars, volumeVars, global,
                 hand, shutdownVars>>

(* Mutant of DeleteVcb: the internal opens are not looked at again.        *)
DeleteVcbUnchecked(v) ==
  LET f == vcb[v] IN
  /\ f \in Files \cup {Scanner}
  /\ VolumeIsRunDown(v)
  /\ condition' = [condition EXCEPT ![v] =
       IF VpbReferenceCount(v) = 0 THEN "deleted" ELSE @]
  /\ vcb' = [vcb EXCEPT ![v] = Nobody]
  /\ global' = Nobody
  /\ state' = [g \in Files |-> IF g = f THEN "none" ELSE state[g]]
  /\ CloseInProgress' = [CloseInProgress EXCEPT ![v] = @ /\ f = Scanner]
  /\ UNCHANGED <<FcbOf, DelayClose, OpenCount, listVars, highVars, workerVars,
                 OpenFileCount, InternalOpenCount, mounted, hand,
                 shutdownVars>>

(* The counts are looked at again: FatDeleteVcb and IoDeleteDevice, or a   *)
(* later check.                                                            *)
DeleteVcb(v) ==
  LET f == vcb[v] IN
  /\ f \in Files \cup {Scanner}
  /\ VolumeIsRunDown(v)
  /\ condition' = [condition EXCEPT ![v] =
       IF VpbReferenceCount(v) = 0 /\ InternalOpenCount[v] = 0
       THEN "deleted" ELSE @]
  /\ vcb' = [vcb EXCEPT ![v] = Nobody]
  /\ global' = Nobody
  /\ state' = [g \in Files |-> IF g = f THEN "none" ELSE state[g]]
  /\ CloseInProgress' = [CloseInProgress EXCEPT ![v] = @ /\ f = Scanner]
  /\ UNCHANGED <<FcbOf, DelayClose, OpenCount, listVars, highVars, workerVars,
                 OpenFileCount, InternalOpenCount, mounted, hand,
                 shutdownVars>>

-----------------------------------------------------------------------------
(* FatFspClose in the worker thread, which keeps the volume from one close *)
(* to the next.                                                            *)

(* The system starts the worker in any thread.                             *)
CloseWorker(w) ==
  /\ FatCloseItem > 0
  /\ wpc[w] = "idle"
  /\ w = CHOOSE u \in Workers : wpc[u] = "idle"
  /\ FatCloseItem' = FatCloseItem - 1
  /\ wpc' = [wpc EXCEPT ![w] = "remove"]
  /\ UNCHANGED <<fileVars, AsyncCloseList, DelayedCloseList, AsyncCloseActive,
                 highVars, CurrentVcb, wctx, volumeVars, lockVars,
                 shutdownVars>>

(* The pressure that a list makes, from twice the limit down to the limit. *)
High(was, n) == IF was THEN n >= MaxDelayed ELSE n > 2 * MaxDelayed

(* Async closes, and delayed closes above half of the limit.               *)
AnyClose(f) ==
  IF AsyncCloseList # <<>> THEN f = Head(AsyncCloseList)
  ELSE /\ DelayedCloseList # <<>>
       /\ Len(DelayedCloseList) > MaxDelayed \div 2 \/ ShutdownStarted
       /\ f = Head(DelayedCloseList)

(* Mutant of RemoveClose: a worker that stops is still taken for active.   *)
RemoveCloseStaysActive(w) ==
  /\ wpc[w] = "remove"
  /\ \/ \E f \in Files : /\ AnyClose(f)
                         /\ Dequeue(f)
                         /\ wctx' = [wctx EXCEPT ![w] = f]
                         /\ wpc' = [wpc EXCEPT ![w] = "lock"]
     \/ /\ \A f \in Files : ~AnyClose(f)
        /\ wpc' = [wpc EXCEPT ![w] = "end"]
        /\ UNCHANGED <<state, AsyncCloseList, DelayedCloseList, wctx>>
  /\ UNCHANGED <<FcbOf, DelayClose, OpenCount, AsyncCloseActive, FatCloseItem,
                 highVars, CurrentVcb, volumeVars, lockVars, shutdownVars>>

(* FatRemoveClose: under pressure, closes of the volume that is held       *)
(* first.  When there is nothing to do the worker is no longer active.     *)
WorkerClose(v, pressure, f) ==
  IF v # NoVol /\ pressure /\ HasCloses(v) THEN VolumeClose(v, f)
  ELSE AnyClose(f)

RemoveClose(w) ==
  LET v == CurrentVcb[w]
      highAsync == High(HighAsync, Len(AsyncCloseList))
      highDelayed == High(HighDelayed, Len(DelayedCloseList))
      pressure == highAsync \/ highDelayed
  IN
  /\ wpc[w] = "remove"
  /\ HighAsync' = IF v = NoVol THEN HighAsync ELSE highAsync
  /\ HighDelayed' = IF v = NoVol THEN HighDelayed ELSE highDelayed
  /\ \/ /\ \E f \in Files : /\ WorkerClose(v, pressure, f)
                            /\ Dequeue(f)
                            /\ wctx' = [wctx EXCEPT ![w] = f]
        /\ wpc' = [wpc EXCEPT ![w] = "lock"]
        /\ UNCHANGED AsyncCloseActive
     \/ /\ \A f \in Files : ~WorkerClose(v, pressure, f)
        /\ AsyncCloseActive' = FALSE
        /\ wpc' = [wpc EXCEPT ![w] = "end"]
        /\ UNCHANGED <<state, AsyncCloseList, DelayedCloseList, wctx>>
  /\ UNCHANGED <<FcbOf, DelayClose, OpenCount, FatCloseItem, CurrentVcb,
                 volumeVars, lockVars, shutdownVars>>

ReleaseCurrentVcb(w) ==
  /\ vcb' = [v \in Vols |-> IF v = CurrentVcb[w] THEN Nobody ELSE vcb[v]]
  /\ CurrentVcb' = [CurrentVcb EXCEPT ![w] = NoVol]

(* The volume is released for another one, after the start of a shut down, *)
(* or now and then when others wait for it.                                *)
WorkerReleases(w) ==
  /\ wpc[w] = "lock"
  /\ CurrentVcb[w] # NoVol
  /\ ReleaseCurrentVcb(w)
  /\ UNCHANGED <<fileVars, listVars, highVars, wpc, wctx, volumeVars, global,
                 hand, shutdownVars>>

(* The volume is taken, or is the one that is held; it is not kept for     *)
(* what may be the last close on it.                                       *)
WorkerHolds(w) ==
  LET v == VolOf[wctx[w]] IN
  /\ wpc[w] = "lock"
  /\ \/ CurrentVcb[w] = NoVol /\ Free(v)
     \/ CurrentVcb[w] = v /\ ~ShutdownStarted
  /\ wpc' = [wpc EXCEPT ![w] = "close"]
  /\ IF OpenFileCount[v] <= 1
     THEN ReleaseCurrentVcb(w)
     ELSE /\ vcb' = [vcb EXCEPT ![v] = w]
          /\ CurrentVcb' = [CurrentVcb EXCEPT ![w] = v]
  /\ UNCHANGED <<fileVars, listVars, highVars, wctx, volumeVars, global, hand,
                 shutdownVars>>

WorkerInShutdown(w) ==
  /\ wpc[w] = "lock"
  /\ CurrentVcb[w] = NoVol
  /\ ShutdownStarted
  /\ wpc' = [wpc EXCEPT ![w] = "close"]
  /\ UNCHANGED <<fileVars, listVars, highVars, CurrentVcb, wctx, volumeVars,
                 lockVars, shutdownVars>>

(* FatCommonClose without VcbDeleted: no check for a dismount.             *)
WorkerCloses(w) ==
  LET f == wctx[w] IN
  /\ wpc[w] = "close"
  /\ Free(VolOf[f]) \/ vcb[VolOf[f]] = w
  /\ CloseFile(f, 0)
  /\ MoveTo(f, "none")
  /\ wctx' = [wctx EXCEPT ![w] = NoFile]
  /\ wpc' = [wpc EXCEPT ![w] = "remove"]
  /\ UNCHANGED <<listVars, highVars, CurrentVcb,
                 CloseInProgress, condition, mounted, lockVars, shutdownVars>>

WorkerEnds(w) ==
  /\ wpc[w] = "end"
  /\ ReleaseCurrentVcb(w)
  /\ wpc' = [wpc EXCEPT ![w] = "idle"]
  /\ UNCHANGED <<fileVars, listVars, highVars, wctx, volumeVars, global, hand,
                 shutdownVars>>

-----------------------------------------------------------------------------
(* A volume is dismounted by a verify, a removal or a control request.     *)
Dismount(v) ==
  /\ condition[v] = "good"
  /\ Free(v)
  /\ condition' = [condition EXCEPT ![v] = "bad"]
  /\ UNCHANGED <<fileVars, listVars, highVars, workerVars, OpenFileCount,
                 InternalOpenCount, CloseInProgress, mounted, lockVars,
                 shutdownVars>>

(* FatCheckForDismount with Force, by the cleanup of the handle that the   *)
(* volume was dismounted through and by Plug and Play, of a volume that is *)
(* still referred to.                                                      *)
ForceDismount(v) ==
  /\ condition[v] = "bad"
  /\ v \in mounted
  /\ ~CanDismount(v)
  /\ global = Nobody
  /\ Free(v)
  /\ SwapVpb(v)
  /\ UNCHANGED <<fileVars, listVars, highVars, workerVars, OpenFileCount,
                 InternalOpenCount, CloseInProgress, condition, lockVars,
                 shutdownVars>>

(* FatCommonShutdown: from then on closes are neither delayed nor left on  *)
(* the lists by a worker.  It holds the global resource while it takes one *)
(* volume after the other to flush it; the dismount it then tries for is   *)
(* refused for a volume in good condition, and others are passed by.       *)
Shutdown ==
  /\ ~ShutdownStarted
  /\ ShutdownStarted' = TRUE
  /\ UNCHANGED <<fileVars, listVars, highVars, workerVars, volumeVars,
                 lockVars, toFlush>>

ShutdownGlobal ==
  /\ ShutdownStarted
  /\ global = Nobody
  /\ toFlush = Vols
  /\ global' = ShutsDown
  /\ UNCHANGED <<fileVars, listVars, highVars, workerVars, volumeVars, vcb,
                 hand, shutdownVars>>

ShutdownVolume(v) ==
  /\ global = ShutsDown
  /\ v \in toFlush
  /\ condition[v] = "good" => Free(v)
  /\ toFlush' = toFlush \ {v}
  /\ global' = IF toFlush = {v} THEN Nobody ELSE global
  /\ UNCHANGED <<fileVars, listVars, highVars, workerVars, volumeVars, vcb,
                 hand, ShutdownStarted>>

-----------------------------------------------------------------------------
CloserStep(f) ==
  \/ PassDelayClose(f)
  \/ QueueClose(f)
  \/ CommonClosePends(f)
  \/ CommonClose(f)
  \/ AcquireGlobal(f)
  \/ \E now \in BOOLEAN : CheckForDismount(f, now)

VolumeStep(v) ==
  \/ RemoveVolumeClose(v)
  \/ CloseInHand(v)
  \/ FspCloseVcbEnds(v)
  \/ DeleteVcb(v)

WorkerStep(w) ==
  \/ RemoveClose(w)
  \/ WorkerReleases(w)
  \/ WorkerHolds(w)
  \/ WorkerInShutdown(w)
  \/ WorkerCloses(w)
  \/ WorkerEnds(w)

Next ==
  \/ \E f \in Files :
       \/ CreateEnRoute(f)
       \/ \E c \in Fcbs : Create(f, c)
       \/ Cleanup(f)
       \/ \E call \in Calls : FsdClose(f, call)
       \/ CloserStep(f)
  \/ \E v \in Vols :
       \/ Dismount(v) \/ ForceDismount(v)
       \/ \E now \in BOOLEAN : ScanForDismountedVcb(v, now)
       \/ FspCloseVcb(v)
       \/ VolumeStep(v)
  \/ \E w \in Workers : CloseWorker(w) \/ WorkerStep(w)
  \/ Shutdown
  \/ ShutdownGlobal
  \/ \E v \in Vols : ShutdownVolume(v)

(* Threads run.  The executive's resources are handed to those that wait   *)
(* for them in turn, so that a thread that waits for one and often could   *)
(* have it gets it (strong fairness).  Of the workers, of which one at a   *)
(* time runs through the lists, some one makes progress.                   *)
Fairness ==
  /\ \A f \in Files : SF_vars(CloserStep(f))
  /\ \A v \in Vols : WF_vars(VolumeStep(v))
  /\ SF_vars(\E w \in Workers : WorkerStep(w))
  /\ WF_vars(\E w \in Workers : CloseWorker(w))
  /\ \A v \in Vols : SF_vars(ShutdownVolume(v))

Spec == Init /\ [][Next]_vars /\ Fairness

-----------------------------------------------------------------------------
(* Properties.                                                             *)

(* The file object is not closed yet.                                      *)
Referenced(f) == state[f] \notin {"none", "enroute", "global", "check", "dismount"}

OpenUsers(v) == {f \in Users \cap On(v) : Referenced(f)}
OpenInternals(v) == {f \in Streams \cap On(v) : Referenced(f)}
Biased(v) == {f \in On(v) : state[f] \in {"global", "check"}}
FilesOf(c) == {f \in Users : FcbOf[f] = c /\ Referenced(f)}

(* A volume is deleted only when nothing refers to it any more: no file    *)
(* object that is open or on its way, no close on a list, in the hand of a *)
(* worker or about to be queued, no thread that will take its resource,    *)
(* whoever dismounts it and in whatever order closes, creates, scans and   *)
(* the worker come.                                                        *)
VolumeOutlivesFiles ==
  \A v \in Vols : condition[v] = "deleted" =>
    /\ Free(v)
    /\ \A f \in On(v) : state[f] = "none"

(* The counts that decide about the deletion of a volume and of an Fcb are *)
(* the file objects that are not closed yet, and one more for a close that *)
(* has let go of the volume to check for a dismount.                       *)
CountsAreExact ==
  /\ \A v \in Vols :
       /\ OpenFileCount[v] = Cardinality(OpenUsers(v)) + Cardinality(Biased(v))
       /\ InternalOpenCount[v] = Cardinality(OpenInternals(v))
  /\ \A c \in Fcbs : OpenCount[c] = Cardinality(FilesOf(c))

(* The flag stands for one worker that is queued or runs through the       *)
(* lists: never two, and none is missing while there is something to do.   *)
Running == {w \in Workers : wpc[w] \in {"remove", "lock", "close"}}

OneWorkerPerFlag ==
  /\ FatCloseItem + Cardinality(Running) = (IF AsyncCloseActive THEN 1 ELSE 0)
  /\ \/ AsyncCloseList # <<>>
     \/ Len(DelayedCloseList) > MaxDelayed
     => AsyncCloseActive

(***************************************************************************)
(* The inductive invariant, in parts.                                      *)
(***************************************************************************)
(* A file object has an Fcb until it is closed.                            *)
HasFcb == \A f \in Users : Referenced(f) <=> FcbOf[f] \in Fcbs

(* A queued close is on one of the lists, once.                            *)
EntriesOf(list) ==
  /\ \A k \in DOMAIN list : state[list[k]] = "queued"
  /\ \A k, m \in DOMAIN list : list[k] = list[m] => k = m

Lists ==
  /\ EntriesOf(AsyncCloseList)
  /\ EntriesOf(DelayedCloseList)
  /\ \A k \in DOMAIN AsyncCloseList, m \in DOMAIN DelayedCloseList :
       AsyncCloseList[k] # DelayedCloseList[m]

(* A close that has been taken from the lists is in one thread's hands.    *)
Takes(w) == wpc[w] \in {"lock", "close"}

Hands ==
  /\ \A v \in Vols : hand[v] # NoFile =>
       state[hand[v]] = "held" /\ VolOf[hand[v]] = v
  /\ \A w \in Workers : Takes(w) => wctx[w] \in Files /\ state[wctx[w]] = "held"
  /\ \A w, u \in Workers : Takes(w) /\ Takes(u) /\ wctx[w] = wctx[u] => w = u
  /\ \A w \in Workers, v \in Vols : Takes(w) => wctx[w] # hand[v]

(* A thread amid the deletion of a volume holds it, and the volume has no  *)
(* user files; a worker holds the volume it keeps.                         *)
Holders ==
  /\ \A v \in Vols : vcb[v] \in Files \cup {Scanner} =>
       condition[v] = "bad" /\ OpenFileCount[v] = 0
  /\ \A f \in Files : state[f] = "dismount" <=> vcb[VolOf[f]] = f
  /\ \A v \in Vols : vcb[v] \in Files => VolOf[vcb[v]] = v
  /\ \A w \in Workers : CurrentVcb[w] # NoVol => vcb[CurrentVcb[w]] = w

(* No create sets out to a volume that is being deleted or has been, and   *)
(* only closes of user files are delayed.                                  *)
Unmounted ==
  \A v \in Vols :
    vcb[v] \in Files \cup {Scanner} \/ condition[v] = "deleted" => v \notin mounted

DelaysUsers == \A f \in Streams : state[f] # "delay"

(* The flag, the work item and the worker.                                 *)
Flag ==
  /\ ~AsyncCloseActive => FatCloseItem = 0 /\ Running = {}
  /\ AsyncCloseActive =>
       \/ FatCloseItem = 1 /\ Running = {}
       \/ FatCloseItem = 0 /\ \E w \in Workers : Running = {w}
  /\ AsyncCloseList # <<>> \/ Len(DelayedCloseList) > MaxDelayed
       => AsyncCloseActive

Core ==
  /\ TypeOK /\ HasFcb /\ Lists /\ Hands /\ Holders /\ Flag
  /\ CountsAreExact /\ VolumeOutlivesFiles

IInv == Core /\ Unmounted /\ DelaysUsers

(* Every close is done or put on the delayed list, and a thread that waits *)
(* for a resource gets it: the global resource and those of the volumes    *)
(* are taken in the same order by closers, the worker, a scan and shut     *)
(* down.  No close is under way for ever; one that is under way is left    *)
(* only when it is done or delayed.                                        *)
IsDelayed(f) == \E k \in DOMAIN DelayedCloseList : DelayedCloseList[k] = f

UnderWay(f) == state[f] \notin {"none", "enroute", "open", "clean"} /\ ~IsDelayed(f)

ClosesAreDone == \A f \in Files : []<>~UnderWay(f)
=============================================================================
