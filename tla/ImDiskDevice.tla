---------------------------- MODULE ImDiskDevice ----------------------------
(***************************************************************************)
(* One ImDisk virtual disk: the dispatch routines that any thread of the   *)
(* system may be running for it (iodisp.cpp), the device thread that       *)
(* serves the queued IRPs and at last deletes the device (devthrd.cpp),    *)
(* and the file objects that keep the device object referenced.            *)
(*                                                                         *)
(* A dispatch call is cut where another thread can come in between with an *)
(* effect: on entry, after the test of terminate_thread, between           *)
(* InsertTailList and KeSetEvent.  The data that requests carry is left to *)
(* module LastIoCache; here a request is a model value.                    *)
(***************************************************************************)
EXTENDS Sequences, FiniteSets

CONSTANTS
  Irps,      \* I/O requests; each may be sent again after it is completed
  Handles,   \* file objects that clients open on the device
  Kinds,     \* the backing kinds the device may have been created with
  Sent,      \* the operations that clients send
  NoIrp,     \* the device thread serves nothing
  NoHandle   \* the request is not sent

Ops == {"READ", "WRITE", "FLUSH", "VERIFY", "FORMAT", "GROW", "UNMAP", "EJECT"}

AllKinds == {"vm", "file", "parallel", "proxy", "shm"}

ASSUME ConstantsAssumption ==
  /\ NoIrp \notin Irps
  /\ NoHandle \notin Handles
  /\ Kinds \subseteq AllKinds
  /\ Sent \subseteq Ops

VARIABLES
  kind,            \* vm_disk, use_proxy, parallel_io and proxy.connection_type
  handle,          \* the life of each file object
  call,            \* how far the dispatch call of each request has come
  irp,             \* who owns each request
  op,              \* what each request asks for
  on,              \* the file object through which each request was sent
  status,          \* IoStatus.Status of each request
  list,            \* list_head: the queued requests
  request_event,   \* KEVENT, set by dispatchers, cleared by the device thread
  terminate_thread,\* KEVENT, set by ImDiskRemoveVirtualDisk, never cleared
  pc,              \* where the device thread is
  current,         \* the request the device thread serves
  image,           \* "open" until the device thread releases the backing
  link,            \* "up" until the proxy server goes away
  device           \* the device object

threadVars == <<pc, current, image>>
eventVars == <<request_event, terminate_thread>>
sendVars == <<op, on>>
worldVars == <<kind, link>>
vars == <<kind, handle, call, irp, op, on, status, list, request_event,
          terminate_thread, pc, current, image, link, device>>

HandleStates == {"none", "opening", "open"}
CallStates == {"idle", "entered", "checked", "inserted"}
IrpStates == {"free", "driver", "lower", "done"}
Statuses == {"pending", "success", "resources", "refused", "removed", "error"}
ThreadStates == {"preload", "clear", "take", "wait", "woken", "teardown",
                 "refcheck", "delay", "delete", "serve", "done"}

TypeOK ==
  /\ kind \in AllKinds
  /\ handle \in [Handles -> HandleStates]
  /\ call \in [Irps -> CallStates]
  /\ irp \in [Irps -> IrpStates]
  /\ op \in [Irps -> Ops]
  /\ on \in [Irps -> Handles \cup {NoHandle}]
  /\ status \in [Irps -> Statuses]
  /\ list \in Seq(Irps)
  /\ request_event \in BOOLEAN
  /\ terminate_thread \in BOOLEAN
  /\ pc \in ThreadStates
  /\ current \in Irps \cup {NoIrp}
  /\ image \in {"open", "closed"}
  /\ link \in {"up", "down"}
  /\ device \in {"present", "delete_pending", "freed"}

(* The device as ImDiskCreateDevice leaves it to its thread.                *)
Init ==
  /\ kind \in Kinds
  /\ handle = [h \in Handles |-> "none"]
  /\ call = [i \in Irps |-> "idle"]
  /\ irp = [i \in Irps |-> "free"]
  /\ op = [i \in Irps |-> "READ"]
  /\ on = [i \in Irps |-> NoHandle]
  /\ status = [i \in Irps |-> "pending"]
  /\ list = <<>>
  /\ request_event = FALSE
  /\ terminate_thread = FALSE
  /\ pc = IF kind = "vm" THEN "preload" ELSE "clear"
  /\ current = NoIrp
  /\ image = "open"
  /\ link = "up"
  /\ device = "present"

-----------------------------------------------------------------------------
(* File objects.  The I/O manager counts a file object in                  *)
(* DeviceObject->ReferenceCount from before IRP_MJ_CREATE until after      *)
(* IRP_MJ_CLOSE, and frees a device that is pending deletion with the last *)
(* one.  IRP_MJ_CLOSE comes when no request on the file object is left.    *)

Referenced == \E h \in Handles : handle[h] # "none"

Dereference(h) ==
  /\ handle' = [handle EXCEPT ![h] = "none"]
  /\ device' = IF device = "delete_pending"
                  /\ \A g \in Handles \ {h} : handle[g] = "none"
               THEN "freed" ELSE device

OpenFile(h) ==
  /\ device = "present"
  /\ handle[h] = "none"
  /\ handle' = [handle EXCEPT ![h] = "opening"]
  /\ UNCHANGED <<worldVars, call, irp, sendVars, status, list, eventVars,
                 threadVars, device>>

DispatchCreate(h) ==
  /\ handle[h] = "opening"
  /\ \/ /\ terminate_thread
        /\ Dereference(h)
     \/ /\ ~terminate_thread
        /\ handle' = [handle EXCEPT ![h] = "open"]
        /\ UNCHANGED device
  /\ UNCHANGED <<worldVars, call, irp, sendVars, status, list, eventVars,
                 threadVars>>

DispatchClose(h) ==
  /\ handle[h] = "open"
  /\ \A i \in Irps : on[i] # h
  /\ Dereference(h)
  /\ UNCHANGED <<worldVars, call, irp, sendVars, status, list, eventVars,
                 threadVars>>

-----------------------------------------------------------------------------
(* Dispatch routines.  Which requests end inside the dispatch routine,     *)
(* which are queued to the device thread and which are sent to the driver  *)
(* of the image file depends on the backing.                               *)

(* What a dispatch routine may answer on its own.  A trim is passed to the *)
(* image's file system there and then, or ignored; want of file level trim *)
(* is no failure.                                                          *)
UnmapInDispatch(k) ==
  {"success", "refused"}
  \cup (IF k \in {"file", "parallel"} THEN {"resources", "error"} ELSE {})

(* Read only media and bad parameters are refused, beyond the end of the   *)
(* medium and an empty transfer succeed, a read may be found in the        *)
(* last-I/O buffer, a vm disk verifies and a disk without image file       *)
(* flushes with nothing to do.  The empty set: the routine decides nothing.*)
DispatchAnswers(k, o) ==
  CASE o = "READ"   -> {"success"} \cup (IF k = "vm" THEN {} ELSE {"resources"})
    [] o = "WRITE"  -> {"success", "refused"}
    [] o = "FLUSH"  -> {"refused"} \cup
                       (IF k \in {"file", "parallel"} THEN {} ELSE {"success"})
    [] o = "VERIFY" -> IF k = "vm" THEN {"success"} ELSE {}
    [] o = "FORMAT" -> {"refused", "resources"}
    [] o = "GROW"   -> {"refused"}
    [] o = "UNMAP"  -> UnmapInDispatch(k)
    [] o = "EJECT"  -> {"success", "refused"}

Pends(k, o) ==
  \/ o \in {"FORMAT", "GROW"}
  \/ o = "READ" /\ k # "parallel"
  \/ o = "WRITE"
  \/ o = "VERIFY" /\ k # "vm"
  \/ o = "FLUSH" /\ k = "file"
  \/ o = "UNMAP" /\ k \in {"proxy", "shm"}

GoesToLowerDevice(k, o) == k = "parallel" /\ o \in {"READ", "WRITE", "FLUSH"}

Send(i, h, o) ==
  /\ irp[i] = "free"
  /\ handle[h] = "open"
  /\ call' = [call EXCEPT ![i] = "entered"]
  /\ irp' = [irp EXCEPT ![i] = "driver"]
  /\ op' = [op EXCEPT ![i] = o]
  /\ on' = [on EXCEPT ![i] = h]
  /\ status' = [status EXCEPT ![i] = "pending"]
  /\ UNCHANGED <<worldVars, handle, list, eventVars, threadVars, device>>

(* Mutants of TestTerminate: return without IoCompleteRequest, and complete *)
(* the request but go on with it.                                          *)
ReturnWithoutCompleting(i) ==
  /\ call[i] = "entered"
  /\ call' = [call EXCEPT ![i] = IF terminate_thread THEN "idle" ELSE "checked"]
  /\ UNCHANGED <<worldVars, handle, irp, sendVars, status, list, eventVars,
                 threadVars, device>>

CompleteAndGoOn(i) ==
  /\ call[i] = "entered"
  /\ irp' = [irp EXCEPT ![i] = IF terminate_thread THEN "done" ELSE @]
  /\ call' = [call EXCEPT ![i] = "checked"]
  /\ UNCHANGED <<worldVars, handle, sendVars, status, list, eventVars,
                 threadVars, device>>

(* KeReadStateEvent(&terminate_thread) at the head of each routine.         *)
TestTerminate(i) ==
  /\ call[i] = "entered"
  /\ \/ /\ terminate_thread
        /\ irp' = [irp EXCEPT ![i] = "done"]
        /\ status' = [status EXCEPT ![i] = "removed"]
        /\ call' = [call EXCEPT ![i] = "idle"]
     \/ /\ ~terminate_thread
        /\ call' = [call EXCEPT ![i] = "checked"]
        /\ UNCHANGED <<irp, status>>
  /\ UNCHANGED <<worldVars, handle, sendVars, list, eventVars, threadVars,
                 device>>

(* The routine completes the request; an eject that is not refused also    *)
(* asks for the removal of the device.                                     *)
CompleteInDispatch(i) ==
  /\ call[i] = "checked"
  /\ irp' = [irp EXCEPT ![i] = "done"]
  /\ \E s \in DispatchAnswers(kind, op[i]) :
       /\ status' = [status EXCEPT ![i] = s]
       /\ terminate_thread' = \/ terminate_thread
                              \/ op[i] = "EJECT" /\ s = "success"
  /\ call' = [call EXCEPT ![i] = "idle"]
  /\ UNCHANGED <<worldVars, handle, sendVars, list, request_event, threadVars,
                 device>>

(* Mutants of InsertTail: the wrong entry is linked, or at the wrong end.   *)
InsertFileObject(i) ==
  /\ call[i] = "checked"
  /\ Pends(kind, op[i])
  /\ list' = Append(list, on[i])
  /\ call' = [call EXCEPT ![i] = "inserted"]
  /\ UNCHANGED <<worldVars, handle, irp, sendVars, status, eventVars,
                 threadVars, device>>

InsertHead(i) ==
  /\ call[i] = "checked"
  /\ Pends(kind, op[i])
  /\ list' = <<i>> \o list
  /\ call' = [call EXCEPT ![i] = "inserted"]
  /\ UNCHANGED <<worldVars, handle, irp, sendVars, status, eventVars,
                 threadVars, device>>

(* IoMarkIrpPending and ImDiskInterlockedInsertTailList ...                 *)
InsertTail(i) ==
  /\ call[i] = "checked"
  /\ Pends(kind, op[i])
  /\ list' = Append(list, i)
  /\ call' = [call EXCEPT ![i] = "inserted"]
  /\ UNCHANGED <<worldVars, handle, irp, sendVars, status, eventVars,
                 threadVars, device>>

(* Mutant of SetRequestEvent: the event is not set.                         *)
ForgetRequestEvent(i) ==
  /\ call[i] = "inserted"
  /\ call' = [call EXCEPT ![i] = "idle"]
  /\ UNCHANGED <<worldVars, handle, irp, sendVars, status, list, eventVars,
                 threadVars, device>>

(* ... and then KeSetEvent.                                                 *)
SetRequestEvent(i) ==
  /\ call[i] = "inserted"
  /\ request_event' = TRUE
  /\ call' = [call EXCEPT ![i] = "idle"]
  /\ UNCHANGED <<worldVars, handle, irp, sendVars, status, list,
                 terminate_thread, threadVars, device>>

(* ImDiskReadWriteLowerDevice: the IRP, or one made from it, is passed on. *)
ReadWriteLowerDevice(i) ==
  /\ call[i] = "checked"
  /\ GoesToLowerDevice(kind, op[i])
  /\ \/ /\ irp' = [irp EXCEPT ![i] = "lower"]
        /\ UNCHANGED status
     \/ /\ irp' = [irp EXCEPT ![i] = "done"]
        /\ status' = [status EXCEPT ![i] = "resources"]
  /\ call' = [call EXCEPT ![i] = "idle"]
  /\ UNCHANGED <<worldVars, handle, sendVars, list, eventVars, threadVars,
                 device>>

LowerDeviceCompletion(i) ==
  /\ irp[i] = "lower"
  /\ irp' = [irp EXCEPT ![i] = "done"]
  /\ \E s \in {"success", "error"} : status' = [status EXCEPT ![i] = s]
  /\ UNCHANGED <<worldVars, handle, call, sendVars, list, eventVars,
                 threadVars, device>>

(* The client sees the result.  The file object is released by the I/O     *)
(* manager when the request is complete and its system call has returned.  *)
Retire(i) ==
  /\ irp[i] = "done"
  /\ call[i] = "idle"
  /\ irp' = [irp EXCEPT ![i] = "free"]
  /\ op' = [op EXCEPT ![i] = "READ"]
  /\ on' = [on EXCEPT ![i] = NoHandle]
  /\ status' = [status EXCEPT ![i] = "pending"]
  /\ UNCHANGED <<worldVars, handle, call, list, eventVars, threadVars, device>>

(* IOCTL_IMDISK_REMOVE_DEVICE on the control device, or driver unload.      *)
RemoveVirtualDisk ==
  /\ device = "present"
  /\ ~terminate_thread
  /\ terminate_thread' = TRUE
  /\ UNCHANGED <<worldVars, handle, call, irp, sendVars, status, list,
                 request_event, threadVars, device>>

(* The proxy server exits or its connection breaks.                         *)
ProxyDies ==
  /\ kind \in {"proxy", "shm"}
  /\ link = "up"
  /\ link' = "down"
  /\ UNCHANGED <<kind, handle, call, irp, sendVars, status, list, eventVars,
                 threadVars, device>>

-----------------------------------------------------------------------------
(* The device thread.                                                      *)

Goto(from, to) == pc = from /\ pc' = to

(* A vm disk made from an image file first loads it.  A failure to do so   *)
(* asks for the removal of the device and enters the loop all the same.    *)
Preload ==
  /\ Goto("preload", "clear")
  /\ \E failed \in BOOLEAN : terminate_thread' = (terminate_thread \/ failed)
  /\ UNCHANGED <<worldVars, handle, call, irp, sendVars, status, list,
                 request_event, current, image, device>>

ClearRequestEvent ==
  /\ Goto("clear", "take")
  /\ request_event' = FALSE
  /\ UNCHANGED <<worldVars, handle, call, irp, sendVars, status, list,
                 terminate_thread, current, image, device>>

(* Mutant of RemoveHead: the head is not unlinked.                          *)
PeekHead ==
  /\ \/ list = <<>> /\ Goto("take", "wait") /\ UNCHANGED current
     \/ list # <<>> /\ Goto("take", "serve") /\ current' = Head(list)
  /\ UNCHANGED <<worldVars, handle, call, irp, sendVars, status, list,
                 eventVars, image, device>>

RemoveHead ==
  /\ \/ /\ list = <<>>
        /\ Goto("take", "wait")
        /\ UNCHANGED <<list, current>>
     \/ /\ list # <<>>
        /\ Goto("take", "serve")
        /\ current' = Head(list)
        /\ list' = Tail(list)
  /\ UNCHANGED <<worldVars, handle, call, irp, sendVars, status, eventVars,
                 image, device>>

(* Mutants of WaitForWork: request_event made a synchronization event, and  *)
(* terminate_thread left out of the wait objects.                          *)
WaitAndReset ==
  /\ request_event \/ terminate_thread
  /\ Goto("wait", "woken")
  /\ request_event' = FALSE
  /\ UNCHANGED <<worldVars, handle, call, irp, sendVars, status, list,
                 terminate_thread, current, image, device>>

WaitForRequestOnly ==
  /\ request_event
  /\ Goto("wait", "woken")
  /\ UNCHANGED <<worldVars, handle, call, irp, sendVars, status, list,
                 eventVars, current, image, device>>

(* KeWaitForMultipleObjects(request_event, terminate_thread, WaitAny)       *)
WaitForWork ==
  /\ request_event \/ terminate_thread
  /\ Goto("wait", "woken")
  /\ UNCHANGED <<worldVars, handle, call, irp, sendVars, status, list,
                 eventVars, current, image, device>>

ReadRequestEvent ==
  /\ \/ request_event /\ Goto("woken", "clear")
     \/ ~request_event /\ Goto("woken", "teardown")
  /\ UNCHANGED <<worldVars, handle, call, irp, sendVars, status, list,
                 eventVars, current, image, device>>

(* Close the proxy, free the last-I/O buffer, the image and its name.       *)
Teardown ==
  /\ Goto("teardown", "refcheck")
  /\ image' = "closed"
  /\ UNCHANGED <<worldVars, handle, call, irp, sendVars, status, list,
                 eventVars, current, device>>

(* Mutant of CheckReferenceCount: the device goes whoever has it open.      *)
IgnoreReferenceCount ==
  /\ Goto("refcheck", "delete")
  /\ UNCHANGED <<worldVars, handle, call, irp, sendVars, status, list,
                 eventVars, current, image, device>>

CheckReferenceCount ==
  /\ \/ Referenced /\ Goto("refcheck", "delay")
     \/ ~Referenced /\ Goto("refcheck", "delete")
  /\ UNCHANGED <<worldVars, handle, call, irp, sendVars, status, list,
                 eventVars, current, image, device>>

(* KeDelayExecutionThread, then the loop again from its head.               *)
Delay ==
  /\ Goto("delay", "clear")
  /\ UNCHANGED <<worldVars, handle, call, irp, sendVars, status, list,
                 eventVars, current, image, device>>

(* IoDeleteDevice: the object goes at once unless an open is in progress.   *)
DeleteDevice ==
  /\ Goto("delete", "done")
  /\ device' = IF Referenced THEN "delete_pending" ELSE "freed"
  /\ UNCHANGED <<worldVars, handle, call, irp, sendVars, status, list,
                 eventVars, current, image>>

(* What the service routines may answer.  Nothing succeeds on a released   *)
(* image or a dead link, but for what never touches them.                  *)
Proxied == kind \in {"proxy", "shm"}

IfUsable ==
  IF image = "open" /\ (Proxied => link = "up") THEN {"success"} ELSE {}

(* A proxy failure is STATUS_DEVICE_REMOVED whatever it was.                *)
TransferAnswers ==
  {"resources"} \cup IfUsable
  \cup (CASE kind = "vm" -> {} [] Proxied -> {"removed"} [] OTHER -> {"error"})

(* The image's file object is fetched again if need be, before the IRP to  *)
(* pass on is built.                                                       *)
FlushAnswers ==
  {"error"} \cup (IF image = "open" THEN {"success", "resources"} ELSE {})

(* A read of no bytes, for which no proxy server is ever asked.             *)
VerifyAnswers ==
  {"resources"} \cup (IF Proxied THEN {"success"} ELSE {"removed"} \cup IfUsable)

(* Every failure of ImDiskFloppyFormat becomes STATUS_DEVICE_REMOVED.  It   *)
(* cannot fail on a vm disk, unless the image is released.                 *)
FormatAnswers ==
  IfUsable \cup (IF kind = "vm" /\ image = "open" THEN {} ELSE {"removed"})

UnmapAnswers == {"resources", "error"} \cup IfUsable

(* A vm disk is copied into new memory, a proxy disk only told its size,   *)
(* an image file that is too short extended.                               *)
GrowAnswers ==
  {"refused"}
  \cup (CASE kind = "vm" -> {"resources"} \cup IfUsable
          [] Proxied -> {"success"}
          [] OTHER -> {"error"} \cup IfUsable)

Answers(o) ==
  CASE o \in {"READ", "WRITE"} -> TransferAnswers
    [] o = "FLUSH"  -> FlushAnswers
    [] o = "VERIFY" -> VerifyAnswers
    [] o = "FORMAT" -> FormatAnswers
    [] o = "UNMAP"  -> UnmapAnswers
    [] o = "GROW"   -> GrowAnswers
    [] OTHER        -> {"error"}

(* ImDiskDeviceThreadRead removes the device when the proxy fails; the     *)
(* other routines do so only for STATUS_CONNECTION_RESET, which            *)
(* ImDiskWriteProxy never returns.                                         *)
RemovesDevice(o, s) ==
  Proxied /\ o = "READ" /\ s = "removed"

(* Nothing tells the device thread that a shared memory server has died:   *)
(* it waits for the response or for the removal of the device.             *)
WaitsForServer(o) ==
  /\ kind = "shm" /\ link = "down" /\ image = "open"
  /\ o \in {"READ", "WRITE", "FORMAT", "UNMAP"}

Serve ==
  /\ Goto("serve", "clear")
  /\ WaitsForServer(op[current]) => terminate_thread
  /\ \E s \in Answers(op[current]) :
       /\ status' = [status EXCEPT ![current] = s]
       /\ terminate_thread' = \/ terminate_thread
                              \/ RemovesDevice(op[current], s)
  /\ irp' = [irp EXCEPT ![current] = "done"]
  /\ current' = NoIrp
  /\ UNCHANGED <<worldVars, handle, call, sendVars, list, request_event,
                 image, device>>

-----------------------------------------------------------------------------
DispatchStep(i) ==
  \/ TestTerminate(i)
  \/ CompleteInDispatch(i)
  \/ InsertTail(i)
  \/ SetRequestEvent(i)
  \/ ReadWriteLowerDevice(i)

DeviceThread ==
  \/ Preload
  \/ ClearRequestEvent
  \/ RemoveHead
  \/ WaitForWork
  \/ ReadRequestEvent
  \/ Teardown
  \/ CheckReferenceCount
  \/ Delay
  \/ DeleteDevice
  \/ Serve

Next ==
  \/ \E h \in Handles : OpenFile(h) \/ DispatchCreate(h) \/ DispatchClose(h)
  \/ \E i \in Irps, h \in Handles, o \in Sent : Send(i, h, o)
  \/ \E i \in Irps : DispatchStep(i) \/ LowerDeviceCompletion(i) \/ Retire(i)
  \/ RemoveVirtualDisk
  \/ ProxyDies
  \/ DeviceThread

(* Every thread that is in the driver goes on running and the image's own  *)
(* driver completes what it is sent.  Clients owe nothing: they may stop   *)
(* sending, keep a handle open for ever, never remove the disk.            *)
Fairness ==
  /\ WF_vars(DeviceThread)
  /\ \A h \in Handles : WF_vars(DispatchCreate(h))
  /\ \A i \in Irps : /\ WF_vars(DispatchStep(i))
                     /\ WF_vars(LowerDeviceCompletion(i))
                     /\ WF_vars(Retire(i))

Spec == Init /\ [][Next]_vars /\ Fairness
-----------------------------------------------------------------------------
(* Properties.                                                             *)

Queued == {list[n] : n \in DOMAIN list}

(* A request belongs to one place at a time: it is queued at most once, is *)
(* not queued while the device thread serves it, is unanswered in both     *)
(* places, and neither place holds one whose dispatch routine has yet to   *)
(* insert it.  (ImDiskInterlockedInsertTailList, RemoveHeadList)           *)
OwnedOnce ==
  /\ \A m, n \in DOMAIN list : list[m] = list[n] => m = n
  /\ current \notin Queued
  /\ (pc = "serve") <=> (current # NoIrp)
  /\ \A i \in Queued \cup ({current} \ {NoIrp}) :
       irp[i] = "driver" /\ call[i] \in {"idle", "inserted"}

(* No request is forgotten: one that the driver owns is in a dispatch      *)
(* routine that has not handed it on, or queued, or being served.          *)
(* (every return path of the dispatch routines and of ImDiskDeviceThread)  *)
NoRequestLost ==
  \A i \in Irps : irp[i] = "driver" =>
    call[i] \in {"entered", "checked"} \/ i \in Queued \/ i = current

(* A request that is not yet answered, or whose dispatch routine has not   *)
(* yet returned, keeps a file object open and so ReferenceCount above      *)
(* zero; what the removal of the device relies on.                         *)
(* (ImDiskDispatchCreateClose, the ReferenceCount test)                    *)
RequestHoldsFile ==
  \A i \in Irps :
    /\ irp[i] = "free" => call[i] = "idle"
    /\ call[i] \in {"entered", "checked"} => irp[i] = "driver"
    /\ irp[i] # "free" => on[i] \in Handles /\ handle[on[i]] = "open"

(* The device thread never sleeps on a queued request: while it waits, or  *)
(* has just woken, either request_event is set or a dispatcher that has    *)
(* inserted its request is still to set it.  (KeClearEvent before          *)
(* RemoveHeadList in ImDiskDeviceThread, insert before KeSetEvent in the   *)
(* dispatch routines)                                                      *)
NoLostWakeup ==
  pc \in {"wait", "woken"} /\ list # <<>> =>
    request_event \/ \E i \in Irps : call[i] = "inserted"

(* From the moment the device thread finds ReferenceCount zero no dispatch *)
(* routine runs on the device, no request is queued, served or with the    *)
(* lower driver, and none will be: a later open only finds the removal.    *)
(* (the ReferenceCount test before IoDeleteDevice)                         *)
NothingOutlivesDevice ==
  pc \in {"delete", "done"} =>
    /\ terminate_thread
    /\ list = <<>> /\ current = NoIrp
    /\ \A h \in Handles : handle[h] # "open"
    /\ \A i \in Irps : irp[i] = "free" /\ call[i] = "idle"

(* Where the device thread can be, as the device comes to its end.          *)
ThreadPhase ==
  /\ pc = "woken" => request_event \/ terminate_thread
  /\ pc \in {"teardown", "refcheck", "delay", "delete", "done"} =>
       terminate_thread
  /\ (pc = "done") <=> (device # "present")
  /\ pc \in {"delete", "done"} => \A h \in Handles : handle[h] # "open"

(* The invariant that implies the others and is preserved by every step.   *)
IInv ==
  /\ TypeOK
  /\ OwnedOnce
  /\ NoRequestLost
  /\ RequestHoldsFile
  /\ NoLostWakeup
  /\ ThreadPhase

(* Once released, the backing is not used: the device thread serves no     *)
(* request that dereferences image_buffer or the proxy's shared memory     *)
(* after it has freed or unmapped it.  (ImDiskDeviceThreadRead, Write,     *)
(* ImDiskFloppyFormat, ImDiskCallProxy against the release in              *)
(* ImDiskDeviceThread)                                                     *)
NoUseOfReleasedImage ==
  ~ /\ pc = "serve"
    /\ image = "closed"
    /\ \/ kind = "vm" /\ op[current] \in {"READ", "WRITE", "FORMAT", "GROW"}
       \/ kind = "shm" /\ op[current] \in {"READ", "WRITE", "FORMAT", "UNMAP"}

(* Every request that enters the driver is answered.  (the dispatch        *)
(* routines, the loop of ImDiskDeviceThread)                               *)
EveryRequestCompletes ==
  \A i \in Irps : irp[i] \in {"driver", "lower"} ~> irp[i] = "done"

(* A disk that is asked to go, and that nobody keeps a file object on,     *)
(* is deleted.  (the shut down branch of ImDiskDeviceThread)               *)
RemovedDiskIsDeleted ==
  <>[](terminate_thread /\ ~Referenced) => <>(device = "freed")

(* The queue as its clients see it: the request being served and then the  *)
(* queued ones, and how far the removal of the disk has come.              *)
Pending == (IF current = NoIrp THEN <<>> ELSE <<current>>) \o list

Phase == IF pc = "done" THEN "gone"
         ELSE IF terminate_thread THEN "removing" ELSE "live"

Service == INSTANCE DeviceService WITH pending <- Pending, state <- Phase

(* The disk keeps the promises of DeviceService: first in first out, one   *)
(* answer per queued request, no queued request left when the thread ends, *)
(* and every queued request answered in the end.  (ImDiskDeviceThread)     *)
ServiceSpec == Service!Spec
=============================================================================
