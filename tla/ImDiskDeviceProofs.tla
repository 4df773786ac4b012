------------------------- MODULE ImDiskDeviceProofs -------------------------
(***************************************************************************)
(* Proofs of the safety properties of ImDiskDevice for every set of        *)
(* requests, file objects and backings, and of the step refinement of      *)
(* DeviceService.                                                          *)
(***************************************************************************)
EXTENDS ImDiskDevice, Integers, TLAPS

-----------------------------------------------------------------------------
(* What the two list operations do to the queue.                           *)

(* ImDiskInterlockedInsertTailList keeps what was queued where it was and  *)
(* adds the new request at the end.                                        *)
LEMMA AppendFacts ==
  ASSUME NEW S, NEW s \in Seq(S), NEW e \in S
  PROVE  /\ Append(s, e) \in Seq(S)
         /\ Append(s, e) # <<>>
         /\ DOMAIN Append(s, e) = DOMAIN s \cup {Len(s) + 1}
         /\ Len(s) + 1 \notin DOMAIN s
         /\ Append(s, e)[Len(s) + 1] = e
         /\ \A n \in DOMAIN s : Append(s, e)[n] = s[n]
  OBVIOUS

(* ImDiskInterlockedRemoveHeadList moves every other request up by one.    *)
LEMMA TailFacts ==
  ASSUME NEW S, NEW s \in Seq(S), s # <<>>
  PROVE  /\ Head(s) \in S
         /\ Tail(s) \in Seq(S)
         /\ 1 \in DOMAIN s /\ s[1] = Head(s)
         /\ \A n \in DOMAIN Tail(s) :
              n + 1 \in DOMAIN s /\ Tail(s)[n] = s[n + 1] /\ n + 1 # 1
         /\ \A n \in DOMAIN s : n # 1 =>
              n - 1 \in DOMAIN Tail(s) /\ Tail(s)[n - 1] = s[n]
  OBVIOUS

(* A list no request of which is anywhere is empty.                         *)
LEMMA EmptyQueue ==
  ASSUME NEW S, NEW s \in Seq(S), {s[n] : n \in DOMAIN s} = {}
  PROVE  s = <<>>
<1>1. DOMAIN s = {}
  OBVIOUS
<1>2. QED
  BY <1>1

-----------------------------------------------------------------------------
(* The variables keep their types through every step of the driver and of  *)
(* its clients.                                                            *)
LEMMA TypeStep == TypeOK /\ [Next]_vars => TypeOK'
<1> USE DEF HandleStates, CallStates, IrpStates, Statuses, ThreadStates,
            AllKinds, Ops, worldVars, sendVars, eventVars, threadVars
<1> SUFFICES ASSUME TypeOK, [Next]_vars
             PROVE  TypeOK'
  OBVIOUS
<1>1. ASSUME NEW h \in Handles,
             OpenFile(h) \/ DispatchCreate(h) \/ DispatchClose(h)
      PROVE  TypeOK'
  BY <1>1 DEF TypeOK, OpenFile, DispatchCreate, DispatchClose, Dereference
<1>2. ASSUME NEW i \in Irps, NEW h \in Handles, NEW o \in Sent, Send(i, h, o)
      PROVE  TypeOK'
  BY <1>2, ConstantsAssumption DEF TypeOK, Send
<1>3. ASSUME NEW i \in Irps, DispatchStep(i)
      PROVE  TypeOK'
  <2>1. CASE TestTerminate(i)
    BY <2>1 DEF TypeOK, TestTerminate
  <2>2. CASE CompleteInDispatch(i)
    <3>1. op[i] \in Ops
      BY DEF TypeOK
    <3>2. DispatchAnswers(kind, op[i]) \subseteq Statuses
      BY <3>1 DEF DispatchAnswers, UnmapInDispatch
    <3>3. QED
      BY <2>2, <3>2 DEF TypeOK, CompleteInDispatch
  <2>3. CASE InsertTail(i)
    BY <2>3 DEF TypeOK, InsertTail
  <2>4. CASE SetRequestEvent(i)
    BY <2>4 DEF TypeOK, SetRequestEvent
  <2>5. CASE ReadWriteLowerDevice(i)
    BY <2>5 DEF TypeOK, ReadWriteLowerDevice
  <2>6. QED
    BY <1>3, <2>1, <2>2, <2>3, <2>4, <2>5 DEF DispatchStep
<1>4. ASSUME NEW i \in Irps, LowerDeviceCompletion(i) \/ Retire(i)
      PROVE  TypeOK'
  BY <1>4 DEF TypeOK, LowerDeviceCompletion, Retire
<1>5. CASE RemoveVirtualDisk \/ ProxyDies
  <2>1. CASE RemoveVirtualDisk
    BY <2>1 DEF TypeOK, RemoveVirtualDisk
  <2>2. CASE ProxyDies
    BY <2>2 DEF TypeOK, ProxyDies
  <2>3. QED
    BY <1>5, <2>1, <2>2
<1>6. CASE DeviceThread
  <2> USE DEF Goto
  <2>1. CASE Preload \/ ClearRequestEvent
    BY <2>1 DEF TypeOK, Preload, ClearRequestEvent
  <2>2. CASE RemoveHead
    <3>1. CASE list = <<>>
      BY <2>2, <3>1 DEF TypeOK, RemoveHead
    <3>2. CASE list # <<>>
      <4>1. Head(list) \in Irps /\ Tail(list) \in Seq(Irps)
        BY <3>2, TailFacts DEF TypeOK
      <4>2. QED
        BY <2>2, <3>2, <4>1 DEF TypeOK, RemoveHead
    <3>3. QED
      BY <3>1, <3>2
  <2>3. CASE WaitForWork \/ ReadRequestEvent \/ Teardown
    BY <2>3 DEF TypeOK, WaitForWork, ReadRequestEvent, Teardown
  <2>4. CASE CheckReferenceCount \/ Delay \/ DeleteDevice
    BY <2>4 DEF TypeOK, CheckReferenceCount, Delay, DeleteDevice
  <2>5. CASE Serve
    <3>1. \A o : Answers(o) \subseteq Statuses
      BY DEF Answers, TransferAnswers, FlushAnswers, VerifyAnswers,
             FormatAnswers, UnmapAnswers, GrowAnswers, IfUsable
    <3>2. PICK s \in Answers(op[current]) :
            /\ status' = [status EXCEPT ![current] = s]
            /\ terminate_thread' = \/ terminate_thread
                                   \/ RemovesDevice(op[current], s)
      BY <2>5 DEF Serve
    <3>3. status' \in [Irps -> Statuses]
      BY <3>1, <3>2 DEF TypeOK
    <3>4. terminate_thread' \in BOOLEAN
      BY <3>2 DEF TypeOK, RemovesDevice
    <3>5. QED
      BY <2>5, <3>3, <3>4 DEF TypeOK, Serve
  <2>6. QED
    BY <1>6, <2>1, <2>2, <2>3, <2>4, <2>5 DEF DeviceThread
<1>7. CASE UNCHANGED vars
  BY <1>7 DEF TypeOK, vars
<1>8. QED
  BY <1>1, <1>2, <1>3, <1>4, <1>5, <1>6, <1>7 DEF Next

(* The device that ImDiskCreateDevice hands to its thread is well typed.    *)
LEMMA InitType == Init => TypeOK
<1> SUFFICES ASSUME Init
             PROVE  TypeOK
  OBVIOUS
<1>1. pc \in ThreadStates
  BY DEF Init, ThreadStates
<1>2. kind \in AllKinds /\ op \in [Irps -> Ops]
  BY ConstantsAssumption DEF Init, Ops
<1>3. list \in Seq(Irps) /\ current \in Irps \cup {NoIrp}
  BY DEF Init
<1>4. handle \in [Handles -> HandleStates] /\ call \in [Irps -> CallStates]
  BY DEF Init, HandleStates, CallStates
<1>5. QED
  BY <1>1, <1>2, <1>3, <1>4
  DEF Init, TypeOK, HandleStates, CallStates, IrpStates, Statuses

(* Every variable of the device extension, of the requests and of the      *)
(* device thread always has a value of its type.                           *)
THEOREM TypeCorrect == Spec => []TypeOK
BY InitType, TypeStep, PTL DEF Spec

-----------------------------------------------------------------------------
(* The inductive invariant is preserved, action by action.                 *)
LEMMA InvStep == IInv /\ [Next]_vars => IInv'
<1> USE ConstantsAssumption
    DEF worldVars, sendVars, eventVars, threadVars, Goto, IInv, TypeOK
<1> SUFFICES ASSUME IInv, [Next]_vars
             PROVE  OwnedOnce' /\ NoRequestLost' /\ RequestHoldsFile'
                    /\ NoLostWakeup' /\ ThreadPhase'
  BY TypeStep
<1> DEFINE Goal == OwnedOnce' /\ NoRequestLost' /\ RequestHoldsFile'
                   /\ NoLostWakeup' /\ ThreadPhase'
<1>t. TypeOK'
  BY TypeStep
<1>1. ASSUME NEW h \in Handles, OpenFile(h)
      PROVE  Goal
  BY <1>1, <1>t
  DEF OpenFile, Queued, OwnedOnce, NoRequestLost, RequestHoldsFile,
      NoLostWakeup,
      ThreadPhase
<1>2. ASSUME NEW h \in Handles, DispatchCreate(h)
      PROVE  Goal
  BY <1>2, <1>t
  DEF DispatchCreate, Dereference, Queued, OwnedOnce, NoRequestLost,
      RequestHoldsFile, NoLostWakeup,
      ThreadPhase
<1>3. ASSUME NEW h \in Handles, DispatchClose(h)
      PROVE  Goal
  BY <1>3, <1>t
  DEF DispatchClose, Dereference, Queued, OwnedOnce, NoRequestLost,
      RequestHoldsFile, NoLostWakeup,
      ThreadPhase
<1>4. ASSUME NEW i \in Irps, NEW h \in Handles, NEW o \in Sent, Send(i, h, o)
      PROVE  Goal
  BY <1>4, <1>t
  DEF Send, Queued, OwnedOnce, NoRequestLost, RequestHoldsFile, NoLostWakeup,
      ThreadPhase
<1>5. ASSUME NEW i \in Irps, TestTerminate(i)
      PROVE  Goal
  BY <1>5, <1>t
  DEF TestTerminate, Queued, OwnedOnce, NoRequestLost, RequestHoldsFile,
      NoLostWakeup,
      ThreadPhase
<1>6. ASSUME NEW i \in Irps, CompleteInDispatch(i)
      PROVE  Goal
  BY <1>6, <1>t
  DEF CompleteInDispatch, Queued, OwnedOnce, NoRequestLost, RequestHoldsFile,
      NoLostWakeup,
      ThreadPhase
<1>7. ASSUME NEW i \in Irps, InsertTail(i)
      PROVE  Goal
  <2>1. i \notin Queued /\ i # current
    BY <1>7 DEF InsertTail, OwnedOnce
  <2>2. Queued' = Queued \cup {i}
    BY <1>7, AppendFacts DEF InsertTail, Queued
  <2>3. OwnedOnce'
    <3>1. \A m, n \in DOMAIN list' : list'[m] = list'[n] => m = n
      BY <1>7, <2>1, AppendFacts DEF InsertTail, OwnedOnce, Queued
    <3>2. QED
      BY <1>7, <2>1, <2>2, <3>1 DEF InsertTail, OwnedOnce, RequestHoldsFile
  <2>4. NoRequestLost' /\ NoLostWakeup'
    BY <1>7, <2>2 DEF InsertTail, NoRequestLost, NoLostWakeup
  <2>5. RequestHoldsFile' /\ ThreadPhase'
    BY <1>7 DEF InsertTail, RequestHoldsFile, ThreadPhase
  <2>6. QED
    BY <2>3, <2>4, <2>5
<1>8. ASSUME NEW i \in Irps, SetRequestEvent(i)
      PROVE  Goal
  BY <1>8, <1>t
  DEF SetRequestEvent, Queued, OwnedOnce, NoRequestLost, RequestHoldsFile,
      NoLostWakeup,
      ThreadPhase
<1>9. ASSUME NEW i \in Irps, ReadWriteLowerDevice(i)
      PROVE  Goal
  BY <1>9, <1>t
  DEF ReadWriteLowerDevice, Queued, OwnedOnce, NoRequestLost,
      RequestHoldsFile, NoLostWakeup,
      ThreadPhase
<1>10. ASSUME NEW i \in Irps, LowerDeviceCompletion(i)
      PROVE  Goal
  BY <1>10, <1>t
  DEF LowerDeviceCompletion, Queued, OwnedOnce, NoRequestLost,
      RequestHoldsFile, NoLostWakeup,
      ThreadPhase
<1>11. ASSUME NEW i \in Irps, Retire(i)
      PROVE  Goal
  BY <1>11, <1>t
  DEF Retire, Queued, OwnedOnce, NoRequestLost, RequestHoldsFile, NoLostWakeup,
      ThreadPhase
<1>12. CASE RemoveVirtualDisk
  BY <1>12, <1>t
  DEF RemoveVirtualDisk, Queued, OwnedOnce, NoRequestLost, RequestHoldsFile,
      NoLostWakeup,
      ThreadPhase
<1>13. CASE ProxyDies
  BY <1>13, <1>t
  DEF ProxyDies, Queued, OwnedOnce, NoRequestLost, RequestHoldsFile,
      NoLostWakeup,
      ThreadPhase
<1>14. CASE Preload
  BY <1>14, <1>t
  DEF Preload, Queued, OwnedOnce, NoRequestLost, RequestHoldsFile,
      NoLostWakeup,
      ThreadPhase
<1>15. CASE ClearRequestEvent
  BY <1>15, <1>t
  DEF ClearRequestEvent, Queued, OwnedOnce, NoRequestLost, RequestHoldsFile,
      NoLostWakeup,
      ThreadPhase
<1>16. CASE RemoveHead
  <2>1. CASE list = <<>>
    BY <1>16, <2>1, <1>t
    DEF RemoveHead, Queued, OwnedOnce, NoRequestLost, RequestHoldsFile,
        NoLostWakeup, ThreadPhase
  <2>2. CASE list # <<>>
    <3>1. /\ pc' = "serve" /\ current' = Head(list) /\ list' = Tail(list)
          /\ Head(list) \in Irps
      BY <1>16, <2>2, TailFacts DEF RemoveHead
    <3>2. /\ Queued = Queued' \cup {current'}
          /\ current' \notin Queued'
      <4>1. \A n \in DOMAIN list : list[n] \in Queued' \cup {current'}
        BY <2>2, <3>1, TailFacts DEF Queued
      <4>2. \A n \in DOMAIN list' : list'[n] \in Queued /\ list'[n] # current'
        BY <2>2, <3>1, TailFacts DEF Queued, OwnedOnce
      <4>3. current' \in Queued
        BY <2>2, <3>1, TailFacts DEF Queued
      <4>4. QED
        BY <4>1, <4>2, <4>3 DEF Queued
    <3>3. OwnedOnce'
      <4>1. \A m, n \in DOMAIN list' : list'[m] = list'[n] => m = n
        BY <2>2, <3>1, TailFacts DEF OwnedOnce
      <4>2. QED
        BY <1>16, <3>1, <3>2, <4>1 DEF RemoveHead, OwnedOnce
    <3>4. NoRequestLost'
      BY <1>16, <3>1, <3>2 DEF RemoveHead, NoRequestLost, OwnedOnce
    <3>5. RequestHoldsFile' /\ NoLostWakeup' /\ ThreadPhase'
      BY <1>16, <3>1
      DEF RemoveHead, RequestHoldsFile, NoLostWakeup, ThreadPhase
    <3>6. QED
      BY <3>3, <3>4, <3>5
  <2>3. QED
    BY <2>1, <2>2
<1>17. CASE WaitForWork
  BY <1>17, <1>t
  DEF WaitForWork, Queued, OwnedOnce, NoRequestLost, RequestHoldsFile,
      NoLostWakeup,
      ThreadPhase
<1>18. CASE ReadRequestEvent
  BY <1>18, <1>t
  DEF ReadRequestEvent, Queued, OwnedOnce, NoRequestLost, RequestHoldsFile,
      NoLostWakeup,
      ThreadPhase
<1>19. CASE Teardown
  BY <1>19, <1>t
  DEF Teardown, Queued, OwnedOnce, NoRequestLost, RequestHoldsFile,
      NoLostWakeup,
      ThreadPhase
<1>20. CASE CheckReferenceCount
  BY <1>20, <1>t
  DEF CheckReferenceCount, Referenced, Queued, OwnedOnce, NoRequestLost,
      RequestHoldsFile, NoLostWakeup,
      ThreadPhase
<1>21. CASE Delay
  BY <1>21, <1>t
  DEF Delay, Queued, OwnedOnce, NoRequestLost, RequestHoldsFile, NoLostWakeup,
      ThreadPhase
<1>22. CASE DeleteDevice
  BY <1>22, <1>t
  DEF DeleteDevice, Referenced, Queued, OwnedOnce, NoRequestLost,
      RequestHoldsFile, NoLostWakeup,
      ThreadPhase
<1>23. CASE Serve
  BY <1>23, <1>t
  DEF Serve, Queued, OwnedOnce, NoRequestLost, RequestHoldsFile, NoLostWakeup,
      ThreadPhase
<1>24. CASE UNCHANGED vars
  BY <1>24, <1>t
  DEF vars, Queued, OwnedOnce, NoRequestLost, RequestHoldsFile, NoLostWakeup,
      ThreadPhase
<1>q. QED
  BY <1>1, <1>2, <1>3, <1>4, <1>5, <1>6, <1>7, <1>8, <1>9, <1>10, <1>11,
     <1>12, <1>13, <1>14, <1>15, <1>16, <1>17, <1>18, <1>19, <1>20, <1>21,
     <1>22, <1>23, <1>24
  DEF Next, DispatchStep, DeviceThread

(* IInv holds in every state that the driver and its clients can reach.     *)
THEOREM Invariance == Spec => []IInv
<1>1. Init => IInv
  <2> SUFFICES ASSUME Init
               PROVE  IInv
    OBVIOUS
  <2>1. TypeOK
    BY InitType
  <2>2. Queued = {}
    BY DEF Init, Queued
  <2>3. QED
    BY <2>1, <2>2, ConstantsAssumption
    DEF Init, IInv, OwnedOnce, NoRequestLost, RequestHoldsFile, NoLostWakeup,
        ThreadPhase
<1>2. QED
  BY <1>1, InvStep, PTL DEF Spec

(* The device thread is never asleep with a request queued and nobody left *)
(* to wake it, however many threads are in the dispatch routines.          *)
THEOREM WakeupsAreNotLost == Spec => []NoLostWakeup
<1>1. IInv => NoLostWakeup
  BY DEF IInv
<1>2. QED
  BY <1>1, Invariance, PTL

(* No path of the dispatch routines or of the device thread drops a        *)
(* request without answering it.                                           *)
THEOREM RequestsAreNotLost == Spec => []NoRequestLost
<1>1. IInv => NoRequestLost
  BY DEF IInv
<1>2. QED
  BY <1>1, Invariance, PTL

(* No interleaving of the dispatch routines and the device thread has a    *)
(* request in two places of the driver, or queued twice, or answered while *)
(* it is still queued.                                                     *)
THEOREM RequestsAreOwnedOnce == Spec => []OwnedOnce
<1>1. IInv => OwnedOnce
  BY DEF IInv
<1>2. QED
  BY <1>1, Invariance, PTL

(* As long as a request is not retired its file object is open, so that    *)
(* the ReferenceCount which the device thread polls covers it.             *)
THEOREM RequestsHoldTheirFile == Spec => []RequestHoldsFile
<1>1. IInv => RequestHoldsFile
  BY DEF IInv
<1>2. QED
  BY <1>1, Invariance, PTL

(* A device thread that found ReferenceCount zero has the device to itself. *)
LEMMA DeletedIdle == IInv => NothingOutlivesDevice
<1> SUFFICES ASSUME IInv, pc \in {"delete", "done"}
             PROVE  /\ terminate_thread
                    /\ list = <<>> /\ current = NoIrp
                    /\ \A h \in Handles : handle[h] # "open"
                    /\ \A i \in Irps : irp[i] = "free" /\ call[i] = "idle"
  BY DEF NothingOutlivesDevice
<1>1. terminate_thread /\ \A h \in Handles : handle[h] # "open"
  BY DEF IInv, ThreadPhase
<1>2. \A i \in Irps : irp[i] = "free" /\ call[i] = "idle"
  BY <1>1 DEF IInv, RequestHoldsFile
<1>3. current = NoIrp
  BY DEF IInv, OwnedOnce
<1>4. Queued = {}
  BY <1>2 DEF IInv, OwnedOnce, TypeOK, Queued
<1>5. list = <<>>
  BY <1>4, EmptyQueue DEF IInv, TypeOK, Queued
<1>6. QED
  BY <1>1, <1>2, <1>3, <1>5

(* When the device thread goes on to IoDeleteDevice nothing in the driver  *)
(* still uses the device, although the ReferenceCount it tested and the    *)
(* opens that change it are not under a lock.                              *)
THEOREM DeviceDeletedLast == Spec => []NothingOutlivesDevice
BY DeletedIdle, Invariance, PTL

-----------------------------------------------------------------------------
(* The disk implements the steps of DeviceService.                         *)

(* What the queue operations do to the request being served followed by    *)
(* the queued ones.                                                        *)
LEMMA ConsFacts ==
  ASSUME NEW S, NEW s \in Seq(S), NEW e \in S, NEW c \in S
  PROVE  /\ <<>> \o s = s
         /\ <<c>> \o s # <<>>
         /\ Tail(<<c>> \o s) = s
         /\ <<c>> \o Append(s, e) = Append(<<c>> \o s, e)
         /\ s # <<>> => <<Head(s)>> \o Tail(s) = s
         /\ \A n \in DOMAIN (<<c>> \o s) :
              (<<c>> \o s)[n] \in {c} \cup {s[m] : m \in DOMAIN s}
  OBVIOUS

(* Each step of the driver and of its clients accepts one request at the   *)
(* tail, answers the one at the head, begins or ends the removal of the    *)
(* disk, or changes nothing that the clients of the queue see.             *)
LEMMA ServiceStep == IInv /\ [Next]_vars => [Service!Next]_(Service!vars)
<1> USE ConstantsAssumption
    DEF worldVars, sendVars, eventVars, threadVars, Goto
<1> SUFFICES ASSUME IInv, [Next]_vars
             PROVE  [Service!Next]_(Service!vars)
  OBVIOUS
<1>t. TypeOK /\ (pc = "serve" <=> current # NoIrp)
  BY DEF IInv, OwnedOnce
<1>1. ASSUME NEW i \in Irps, InsertTail(i)
      PROVE  Service!Accept(i)
  <2>1. i \notin Queued /\ i # current
    BY <1>1 DEF IInv, InsertTail, OwnedOnce
  <2>2. Pending' = Append(Pending, i)
    BY <1>1, <1>t, ConsFacts DEF InsertTail, Pending, TypeOK
  <2>3. \A n \in DOMAIN Pending : Pending[n] # i
    BY <2>1, <1>t, ConsFacts DEF Pending, Queued, TypeOK
  <2>4. Phase' = Phase /\ Phase # "gone"
    BY <1>1 DEF InsertTail, Phase, IInv, ThreadPhase, RequestHoldsFile
  <2>5. QED
    BY <2>2, <2>3, <2>4 DEF Service!Accept
<1>2. ASSUME RemoveHead
      PROVE  UNCHANGED Service!vars
  <2>1. current = NoIrp
    BY <1>2, <1>t DEF RemoveHead
  <2>2. Pending' = Pending
    <3>1. CASE list = <<>>
      BY <1>2, <2>1, <3>1 DEF RemoveHead, Pending
    <3>2. CASE list # <<>>
      <4>1. Head(list) \in Irps /\ <<Head(list)>> \o Tail(list) = list
        BY <1>t, <3>2, TailFacts, ConsFacts DEF TypeOK
      <4>2. <<>> \o list = list
        BY <1>t DEF TypeOK
      <4>3. QED
        BY <1>2, <2>1, <3>2, <4>1, <4>2 DEF RemoveHead, Pending
    <3>3. QED
      BY <3>1, <3>2
  <2>3. QED
    BY <1>2, <2>2 DEF RemoveHead, Phase, Service!vars
<1>3. ASSUME Serve
      PROVE  Service!Answer
  <2>1. current \in Irps /\ current # NoIrp /\ current' = NoIrp /\ list' = list
    BY <1>3, <1>t DEF Serve, TypeOK
  <2>2. Pending # <<>> /\ Pending' = Tail(Pending)
    BY <1>t, <2>1, ConsFacts DEF Pending, TypeOK
  <2>3. Phase' = Phase \/ Phase' = "removing"
    BY <1>3 DEF Serve, Phase
  <2>4. QED
    BY <2>2, <2>3 DEF Service!Answer
<1>4. ASSUME DeleteDevice
      PROVE  Service!Vanish
  <2>1. list = <<>> /\ current = NoIrp /\ terminate_thread
    BY <1>4, DeletedIdle DEF DeleteDevice, NothingOutlivesDevice
  <2>2. QED
    BY <1>4, <2>1 DEF DeleteDevice, Pending, Phase, Service!Vanish
<1>5. ASSUME UNCHANGED <<list, current>>,
             pc' = pc \/ (pc # "done" /\ pc' # "done"),
             terminate_thread => terminate_thread'
      PROVE  [Service!Next]_(Service!vars)
  <2>1. Pending' = Pending
    BY <1>5 DEF Pending
  <2>2. Phase' = Phase \/ (Phase = "live" /\ Phase' = "removing")
    BY <1>5 DEF Phase
  <2>3. QED
    BY <2>1, <2>2 DEF Service!Next, Service!Remove, Service!vars
<1>6. ASSUME NEW h \in Handles,
             OpenFile(h) \/ DispatchCreate(h) \/ DispatchClose(h)
      PROVE  [Service!Next]_(Service!vars)
  BY <1>5, <1>6 DEF OpenFile, DispatchCreate, DispatchClose
<1>7. ASSUME NEW i \in Irps, NEW h \in Handles, NEW o \in Sent, Send(i, h, o)
      PROVE  [Service!Next]_(Service!vars)
  BY <1>5, <1>7 DEF Send
<1>8. ASSUME NEW i \in Irps,
             \/ TestTerminate(i) \/ CompleteInDispatch(i) \/ SetRequestEvent(i)
             \/ ReadWriteLowerDevice(i) \/ LowerDeviceCompletion(i) \/ Retire(i)
      PROVE  [Service!Next]_(Service!vars)
  BY <1>5, <1>8
  DEF TestTerminate, CompleteInDispatch, SetRequestEvent, ReadWriteLowerDevice,
      LowerDeviceCompletion, Retire
<1>9. CASE \/ RemoveVirtualDisk \/ ProxyDies \/ Preload \/ ClearRequestEvent
           \/ WaitForWork \/ ReadRequestEvent \/ Teardown
           \/ CheckReferenceCount \/ Delay
  BY <1>5, <1>9
  DEF RemoveVirtualDisk, ProxyDies, Preload, ClearRequestEvent, WaitForWork,
      ReadRequestEvent, Teardown, CheckReferenceCount, Delay
<1>10. CASE UNCHANGED vars
  BY <1>5, <1>10 DEF vars
<1>11. QED
  BY <1>1, <1>2, <1>3, <1>4, <1>6, <1>7, <1>8, <1>9, <1>10
  DEF Next, DispatchStep, DeviceThread, Service!Next

(* Every behaviour of the disk, seen through Pending and Phase, is one of  *)
(* DeviceService without its fairness: first in first out, one answer per  *)
(* queued request, and no request queued when the device thread ends.      *)
THEOREM ImplementsService ==
  Spec => Service!Init /\ [][Service!Next]_(Service!vars)
<1>1. Init => Service!Init
  BY DEF Init, Service!Init, Pending, Phase
<1>2. QED
  BY <1>1, ServiceStep, Invariance, PTL DEF Spec

=============================================================================
