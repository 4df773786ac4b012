---------------------------- MODULE FatWorkQueue ----------------------------
(***************************************************************************)
(* Requests of one FAT volume that a thread of the file system process     *)
(* carries out (workque.c, fspdisp.c).  A request that its caller's thread *)
(* cannot finish is posted: to the system's worker threads while few       *)
(* requests of the volume are there, to the volume's overflow queue        *)
(* otherwise.  A worker that has served a request goes on with the         *)
(* overflow queue and leaves when that is empty.                           *)
(*                                                                         *)
(* What a request does is left out: it ends, it waits for an oplock break  *)
(* or for the cache manager, or it raises an exception and is posted       *)
(* again.  Closes never come here: FatFsdClose has queues of its own       *)
(* (module FatClose).                                                      *)
(***************************************************************************)
EXTENDS Integers, Sequences, FiniteSets

CONSTANTS
  FileReqs,   \* requests with a file object, and so with a volume
  OtherReqs,  \* requests without: mount and verify
  Workers,    \* the system's worker threads
  Threshold,  \* FSP_PER_DEVICE_THRESHOLD
  NoReq

Reqs == FileReqs \cup OtherReqs

ASSUME WorkQueueAssumption ==
  /\ Threshold \in Nat
  /\ FileReqs \cap OtherReqs = {}
  /\ Reqs \cap Workers = {}
  /\ NoReq \notin Reqs
  /\ IsFiniteSet(Reqs)
  /\ IsFiniteSet(Workers)

VARIABLES
  where,       \* where each request is
  ExQueue,     \* the system's queue of work items
  PostedRequestCount,
  OverflowQueue, OverflowQueueCount,
  serving,     \* the request a worker serves
  VolDo        \* does the worker know a volume, whose overflow queue it serves?

queueVars == <<ExQueue, PostedRequestCount, OverflowQueue, OverflowQueueCount>>
vars == <<where, queueVars, serving, VolDo>>

Places == {"caller", "waiting", "item", "overflow", "served"}

TypeOK ==
  /\ where \in [Reqs -> Places]
  /\ ExQueue \in Seq(Reqs)
  /\ PostedRequestCount \in Nat
  /\ OverflowQueue \in Seq(FileReqs)
  /\ OverflowQueueCount \in Nat
  /\ serving \in [Workers -> Reqs \cup {NoReq}]
  /\ VolDo \in [Workers -> BOOLEAN]

Init ==
  /\ where = [r \in Reqs |-> "caller"]
  /\ ExQueue = <<>>
  /\ PostedRequestCount = 0
  /\ OverflowQueue = <<>>
  /\ OverflowQueueCount = 0
  /\ serving = [w \in Workers |-> NoReq]
  /\ VolDo = [w \in Workers |-> FALSE]

-----------------------------------------------------------------------------
(* FatAddToWorkque, under OverflowQueueSpinLock.                           *)

Overflows(r) == r \in FileReqs /\ PostedRequestCount > Threshold

(* Mutant of AddToWorkque: a request that goes to a worker is not counted. *)
AddUncounted(r) ==
  \/ /\ Overflows(r)
     /\ OverflowQueue' = Append(OverflowQueue, r)
     /\ OverflowQueueCount' = OverflowQueueCount + 1
     /\ where' = [where EXCEPT ![r] = "overflow"]
     /\ UNCHANGED <<ExQueue, PostedRequestCount>>
  \/ /\ ~Overflows(r)
     /\ ExQueue' = Append(ExQueue, r)
     /\ where' = [where EXCEPT ![r] = "item"]
     /\ UNCHANGED <<PostedRequestCount, OverflowQueue, OverflowQueueCount>>

AddToWorkque(r) ==
  \/ /\ Overflows(r)
     /\ OverflowQueue' = Append(OverflowQueue, r)
     /\ OverflowQueueCount' = OverflowQueueCount + 1
     /\ where' = [where EXCEPT ![r] = "overflow"]
     /\ UNCHANGED <<ExQueue, PostedRequestCount>>
  \/ /\ ~Overflows(r)
     /\ ExQueue' = Append(ExQueue, r)
     /\ PostedRequestCount' = IF r \in FileReqs THEN PostedRequestCount + 1
                              ELSE PostedRequestCount
     /\ where' = [where EXCEPT ![r] = "item"]
     /\ UNCHANGED <<OverflowQueue, OverflowQueueCount>>

MoveTo(r, place) ==
  /\ where' = [where EXCEPT ![r] = place]
  /\ UNCHANGED queueVars

(* FatFsdPostRequest in the thread of the caller.                          *)
FsdPostRequest(r) ==
  /\ where[r] = "caller"
  /\ AddToWorkque(r)
  /\ UNCHANGED <<serving, VolDo>>

(* The oplock package or CcDeferWrite takes the request.                   *)
Defer(r) ==
  /\ where[r] = "caller"
  /\ r \in FileReqs
  /\ MoveTo(r, "waiting")
  /\ UNCHANGED <<serving, VolDo>>

(* FatOplockComplete, or the cache manager's call of FatAddToWorkque.  A   *)
(* wait that fails completes the request.                                  *)
OplockComplete(r) ==
  /\ where[r] = "waiting"
  /\ AddToWorkque(r) \/ MoveTo(r, "caller")
  /\ UNCHANGED <<serving, VolDo>>

-----------------------------------------------------------------------------
(* FatFspDispatch.                                                         *)

Free(w) == serving[w] = NoReq /\ ~VolDo[w]

(* A worker thread of the system takes the oldest item.                    *)
StartWorker(w) ==
  LET r == Head(ExQueue) IN
  /\ Free(w)
  /\ ExQueue # <<>>
  /\ ExQueue' = Tail(ExQueue)
  /\ serving' = [serving EXCEPT ![w] = r]
  /\ VolDo' = [VolDo EXCEPT ![w] = r \in FileReqs]
  /\ where' = [where EXCEPT ![r] = "served"]
  /\ UNCHANGED <<PostedRequestCount, OverflowQueue, OverflowQueueCount>>

(* Mutant of Dispatch: a worker goes on with a request it has posted.      *)
DispatchTwice(w) ==
  LET r == serving[w] IN
  /\ r # NoReq
  /\ \/ MoveTo(r, "caller") /\ serving' = [serving EXCEPT ![w] = NoReq]
     \/ AddToWorkque(r) /\ UNCHANGED serving
  /\ UNCHANGED VolDo

(* The FSP routine completes the request, leaves it with somebody who will *)
(* post it later, or raises an exception for which FatProcessException     *)
(* posts it again.                                                         *)
Dispatch(w) ==
  LET r == serving[w] IN
  /\ r # NoReq
  /\ \/ MoveTo(r, "caller")
     \/ r \in FileReqs /\ MoveTo(r, "waiting")
     \/ AddToWorkque(r)
  /\ serving' = [serving EXCEPT ![w] = NoReq]
  /\ UNCHANGED VolDo

(* Mutant of RemoveOverflowEntry: the worker leaves after one request.     *)
RemoveNoEntry(w) ==
  /\ VolDo[w]
  /\ serving[w] = NoReq
  /\ PostedRequestCount' = PostedRequestCount - 1
  /\ VolDo' = [VolDo EXCEPT ![w] = FALSE]
  /\ UNCHANGED <<where, ExQueue, OverflowQueue, OverflowQueueCount, serving>>

(* FatRemoveOverflowEntry, under OverflowQueueSpinLock.                    *)
RemoveOverflowEntry(w) ==
  /\ VolDo[w]
  /\ serving[w] = NoReq
  /\ \/ /\ OverflowQueueCount > 0
        /\ OverflowQueueCount' = OverflowQueueCount - 1
        /\ OverflowQueue' = Tail(OverflowQueue)
        /\ serving' = [serving EXCEPT ![w] = Head(OverflowQueue)]
        /\ where' = [where EXCEPT ![Head(OverflowQueue)] = "served"]
        /\ UNCHANGED <<ExQueue, PostedRequestCount, VolDo>>
     \/ /\ OverflowQueueCount = 0
        /\ PostedRequestCount' = PostedRequestCount - 1
        /\ VolDo' = [VolDo EXCEPT ![w] = FALSE]
        /\ UNCHANGED <<where, ExQueue, OverflowQueue, OverflowQueueCount,
                       serving>>

-----------------------------------------------------------------------------
WorkerStep(w) == StartWorker(w) \/ Dispatch(w) \/ RemoveOverflowEntry(w)

Next ==
  \/ \E r \in Reqs : FsdPostRequest(r) \/ Defer(r) \/ OplockComplete(r)
  \/ \E w \in Workers : WorkerStep(w)

(* Every request ends some time, and the system has a worker for every     *)
(* item: it makes more when items wait for too long.                       *)
Spec ==
  /\ Init
  /\ [][Next]_vars
  /\ \A w \in Workers : WF_vars(Dispatch(w)) /\ WF_vars(RemoveOverflowEntry(w))
  /\ WF_vars(\E w \in Workers : StartWorker(w))

-----------------------------------------------------------------------------
(* Properties.                                                             *)

Image(s) == {s[i] : i \in 1 .. Len(s)}

(* A place on the volume is taken by a work item of one of its requests or *)
(* by a worker that serves the volume.                                     *)
PlacesTaken ==
  {r \in FileReqs : where[r] = "item"} \cup {w \in Workers : VolDo[w]}

(* PostedRequestCount is what its comment in fatstruc.h says: the requests *)
(* that have been given to worker threads or are being served by them.  A  *)
(* place that is counted and not taken would be lost for good.  And a      *)
(* request on the overflow queue is never left without a worker that will  *)
(* look at the queue again: as long as one waits, so many places are taken *)
(* that FatAddToWorkque gives out no more.                                 *)
PlacesAreExact ==
  /\ PostedRequestCount = Cardinality(PlacesTaken)
  /\ OverflowQueue # <<>> => PostedRequestCount > Threshold

(* The comment on FSP_PER_DEVICE_THRESHOLD in workque.c: it is the maximum *)
(* number of worker threads that serve a device at any one time.           *)
WorkersWithinThreshold ==
  Cardinality({w \in Workers : VolDo[w]}) <= Threshold

(* A request is on one of the queues, or with one worker, or with neither: *)
(* a request that is posted again by the worker that serves it, or by the  *)
(* oplock package in another thread, is never served twice.                *)
ServedOnce ==
  /\ \A w1, w2 \in Workers :
       w1 # w2 => serving[w1] = NoReq \/ serving[w1] # serving[w2]
  /\ \A w \in Workers : serving[w] # NoReq => where[serving[w]] = "served"
  /\ \A r \in Reqs : r \in Image(ExQueue) <=> where[r] = "item"
  /\ \A r \in Reqs : r \in Image(OverflowQueue) <=> where[r] = "overflow"
  /\ Len(OverflowQueue) = OverflowQueueCount

(* No request is on a queue twice.                                         *)
QueuedOnce ==
  /\ \A m, n \in DOMAIN ExQueue : ExQueue[m] = ExQueue[n] => m = n
  /\ \A m, n \in DOMAIN OverflowQueue :
       OverflowQueue[m] = OverflowQueue[n] => m = n

(* The invariant that implies the others and is preserved by every step.   *)
IInv == TypeOK /\ PlacesAreExact /\ ServedOnce /\ QueuedOnce

(* Whatever is posted is served, also while callers go on posting.         *)
PostedIsServed ==
  \A r \in Reqs : where[r] \in {"item", "overflow"} ~> where[r] = "served"
=============================================================================
