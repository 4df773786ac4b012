------------------------- MODULE FatWorkQueueProofs -------------------------
(***************************************************************************)
(* Proofs of the safety properties of FatWorkQueue for every threshold and *)
(* every finite set of requests and worker threads.                        *)
(***************************************************************************)
EXTENDS FatWorkQueue, FiniteSetTheorems, TLAPS

-----------------------------------------------------------------------------
(* The queues.                                                             *)

(* InsertTailList: the elements of the queue and the new one.              *)
LEMMA AppendImage ==
  ASSUME NEW S, NEW s \in Seq(S), NEW e \in S
  PROVE  /\ Append(s, e) \in Seq(S)
         /\ Append(s, e) # <<>>
         /\ Len(Append(s, e)) = Len(s) + 1
         /\ Image(Append(s, e)) = Image(s) \cup {e}
<1>1. /\ Append(s, e) \in Seq(S)
      /\ Append(s, e) # <<>>
      /\ Len(Append(s, e)) = Len(s) + 1
      /\ Append(s, e)[Len(s) + 1] = e
      /\ \A n \in 1 .. Len(s) : Append(s, e)[n] = s[n]
      /\ Len(s) \in Nat
  OBVIOUS
<1>2. 1 .. Len(s) + 1 = (1 .. Len(s)) \cup {Len(s) + 1}
  BY <1>1
<1>3. QED
  BY <1>1, <1>2 DEF Image

(* An element that is not on a queue may be put there.                     *)
LEMMA AppendOnce ==
  ASSUME NEW S, NEW s \in Seq(S), NEW e \in S,
         \A m, n \in DOMAIN s : s[m] = s[n] => m = n,
         e \notin Image(s)
  PROVE  \A m, n \in DOMAIN Append(s, e) :
           Append(s, e)[m] = Append(s, e)[n] => m = n
<1>1. /\ DOMAIN Append(s, e) = DOMAIN s \cup {Len(s) + 1}
      /\ Append(s, e)[Len(s) + 1] = e
      /\ \A n \in DOMAIN s : Append(s, e)[n] = s[n]
  OBVIOUS
<1>2. \A n \in DOMAIN s : s[n] # e
  BY DEF Image
<1>3. QED
  BY <1>1, <1>2

(* RemoveHeadList: every element but the first stays, as often as before.  *)
LEMMA TailImage ==
  ASSUME NEW S, NEW s \in Seq(S), s # <<>>,
         \A m, n \in DOMAIN s : s[m] = s[n] => m = n
  PROVE  /\ Head(s) \in S
         /\ Head(s) \in Image(s)
         /\ Tail(s) \in Seq(S)
         /\ Len(Tail(s)) = Len(s) - 1
         /\ Image(Tail(s)) = Image(s) \ {Head(s)}
         /\ \A m, n \in DOMAIN Tail(s) : Tail(s)[m] = Tail(s)[n] => m = n
<1>1. /\ Head(s) \in S /\ Tail(s) \in Seq(S)
      /\ Len(Tail(s)) = Len(s) - 1
      /\ DOMAIN s = 1 .. Len(s)
      /\ DOMAIN Tail(s) = 1 .. Len(s) - 1
      /\ 1 \in DOMAIN s /\ s[1] = Head(s)
      /\ \A n \in DOMAIN Tail(s) : Tail(s)[n] = s[n + 1]
      /\ Len(s) \in Nat
  OBVIOUS
<1>2. \A n \in DOMAIN Tail(s) :
        n \in Int /\ n + 1 \in DOMAIN s /\ Tail(s)[n] = s[n + 1] /\ n + 1 # 1
  BY <1>1
<1>3. \A n \in DOMAIN s : n # 1 =>
        n - 1 \in DOMAIN Tail(s) /\ Tail(s)[n - 1] = s[n]
  BY <1>1
<1>4. Image(Tail(s)) = {Tail(s)[n] : n \in DOMAIN Tail(s)}
  BY <1>1 DEF Image
<1>5. Image(s) = {s[n] : n \in DOMAIN s}
  BY <1>1 DEF Image
<1>6. Image(Tail(s)) \subseteq Image(s) \ {Head(s)}
  BY <1>1, <1>2, <1>4, <1>5
<1>7. Image(s) \ {Head(s)} \subseteq Image(Tail(s))
  BY <1>1, <1>3, <1>4, <1>5
<1>8. \A m, n \in DOMAIN Tail(s) : Tail(s)[m] = Tail(s)[n] => m = n
  BY <1>2
<1>9. QED
  BY <1>1, <1>5, <1>6, <1>7, <1>8

-----------------------------------------------------------------------------
(* The places of the volume.                                               *)

(* There are finitely many places.                                         *)
LEMMA PlacesFinite ==
  ASSUME TypeOK
  PROVE  IsFiniteSet(PlacesTaken) /\ Cardinality(PlacesTaken) \in Nat
<1>1. IsFiniteSet(Reqs \cup Workers)
  BY WorkQueueAssumption, FS_Union
<1>2. PlacesTaken \subseteq Reqs \cup Workers
  BY DEF PlacesTaken, Reqs
<1>3. QED
  BY <1>1, <1>2, FS_Subset, FS_CardinalityType

(* FatAddToWorkque takes a place.                                          *)
LEMMA PlaceTaken ==
  ASSUME TypeOK, NEW x, x \notin PlacesTaken, PlacesTaken' = PlacesTaken \cup {x}
  PROVE  Cardinality(PlacesTaken)' = Cardinality(PlacesTaken) + 1
BY PlacesFinite, FS_AddElement

(* A worker that leaves FatFspDispatch gives its place back.               *)
LEMMA PlaceGiven ==
  ASSUME TypeOK, NEW x, x \in PlacesTaken, PlacesTaken' = PlacesTaken \ {x}
  PROVE  /\ Cardinality(PlacesTaken)' = Cardinality(PlacesTaken) - 1
         /\ Cardinality(PlacesTaken) > 0
<1>1. Cardinality(PlacesTaken \ {x}) = Cardinality(PlacesTaken) - 1
  BY PlacesFinite, FS_RemoveElement
<1>2. IsFiniteSet(PlacesTaken \ {x})
  BY PlacesFinite, FS_Subset
<1>3. Cardinality(PlacesTaken \ {x}) \in Nat
  BY <1>2, FS_CardinalityType
<1>4. QED
  BY <1>1, <1>3, PlacesFinite

(* A place passes from a work item to the worker that starts with it.      *)
LEMMA PlacePassed ==
  ASSUME TypeOK, NEW x, NEW y, x \in PlacesTaken, y \notin PlacesTaken,
         PlacesTaken' = (PlacesTaken \ {x}) \cup {y}
  PROVE  Cardinality(PlacesTaken)' = Cardinality(PlacesTaken)
<1>1. Cardinality(PlacesTaken \ {x}) = Cardinality(PlacesTaken) - 1
  BY PlacesFinite, FS_RemoveElement
<1>2. IsFiniteSet(PlacesTaken \ {x})
  BY PlacesFinite, FS_Subset
<1>3. Cardinality((PlacesTaken \ {x}) \cup {y}) = Cardinality(PlacesTaken \ {x}) + 1
  BY <1>2, FS_AddElement
<1>4. QED
  BY <1>1, <1>3, PlacesFinite

-----------------------------------------------------------------------------
(* What of IInv depends on the queues alone.  serving comes in with where  *)
(* the served requests are.                                                *)
Queues ==
  /\ where \in [Reqs -> Places]
  /\ ExQueue \in Seq(Reqs)
  /\ PostedRequestCount \in Nat
  /\ OverflowQueue \in Seq(FileReqs)
  /\ OverflowQueueCount \in Nat
  /\ PlacesAreExact
  /\ QueuedOnce
  /\ \A r \in Reqs : r \in Image(ExQueue) <=> where[r] = "item"
  /\ \A r \in Reqs : r \in Image(OverflowQueue) <=> where[r] = "overflow"
  /\ Len(OverflowQueue) = OverflowQueueCount

Serving ==
  /\ serving \in [Workers -> Reqs \cup {NoReq}]
  /\ VolDo \in [Workers -> BOOLEAN]
  /\ \A v, w \in Workers :
       v # w => serving[v] = NoReq \/ serving[v] # serving[w]
  /\ \A w \in Workers : serving[w] # NoReq => where[serving[w]] = "served"

(* The invariant is what it says of the queues and of the workers.         *)
LEMMA Parts == IInv <=> Queues /\ Serving
BY DEF IInv, TypeOK, ServedOnce, Queues, Serving

(* The same of the next state.                                             *)
LEMMA PartsNext == Queues' /\ Serving' => IInv'
BY DEF IInv, TypeOK, ServedOnce, Queues, Serving

(* FatAddToWorkque keeps the counts, whoever calls it, for a request that  *)
(* is on no queue.                                                         *)
LEMMA AddStep ==
  ASSUME IInv, NEW r \in Reqs, where[r] \notin {"item", "overflow"},
         AddToWorkque(r), UNCHANGED VolDo
  PROVE  /\ Queues'
         /\ \A q \in Reqs : q # r => where'[q] = where[q]
<1> USE DEF Places
<1>1. TypeOK /\ Queues
  BY Parts DEF IInv
<1>2. CASE /\ Overflows(r)
           /\ OverflowQueue' = Append(OverflowQueue, r)
           /\ OverflowQueueCount' = OverflowQueueCount + 1
           /\ where' = [where EXCEPT ![r] = "overflow"]
           /\ UNCHANGED <<ExQueue, PostedRequestCount>>
  <2>1. r \in FileReqs /\ r \notin Image(OverflowQueue)
    BY <1>1, <1>2 DEF Overflows, Queues
  <2>2. /\ OverflowQueue' \in Seq(FileReqs)
        /\ Len(OverflowQueue') = OverflowQueueCount'
        /\ Image(OverflowQueue') = Image(OverflowQueue) \cup {r}
    BY <1>1, <1>2, <2>1, AppendImage DEF Queues
  <2>3. QueuedOnce'
    <3>1. \A m, n \in DOMAIN Append(OverflowQueue, r) :
            Append(OverflowQueue, r)[m] = Append(OverflowQueue, r)[n] => m = n
      BY <1>1, <2>1, AppendOnce DEF Queues, QueuedOnce
    <3>2. QED
      BY <1>1, <1>2, <3>1 DEF Queues, QueuedOnce
  <2>4. PostedRequestCount > Threshold
    BY <1>1, <1>2, WorkQueueAssumption DEF Queues, PlacesAreExact, Overflows
  <2>5. PlacesTaken' = PlacesTaken
    BY <1>1, <1>2 DEF PlacesTaken, Queues, Reqs
  <2>6. PlacesAreExact'
    BY <1>1, <1>2, <2>4, <2>5, WorkQueueAssumption DEF Queues, PlacesAreExact
  <2>7. \A q \in Reqs : /\ q \in Image(ExQueue') <=> where'[q] = "item"
                        /\ q \in Image(OverflowQueue') <=> where'[q] = "overflow"
    BY <1>1, <1>2, <2>2 DEF Queues
  <2>8. QED
    BY <1>1, <1>2, <2>2, <2>3, <2>6, <2>7 DEF Queues
<1>3. CASE /\ ~Overflows(r)
           /\ ExQueue' = Append(ExQueue, r)
           /\ PostedRequestCount' = IF r \in FileReqs THEN PostedRequestCount + 1
                                    ELSE PostedRequestCount
           /\ where' = [where EXCEPT ![r] = "item"]
           /\ UNCHANGED <<OverflowQueue, OverflowQueueCount>>
  <2>1. r \notin Image(ExQueue)
    BY <1>1 DEF Queues
  <2>2. /\ ExQueue' \in Seq(Reqs)
        /\ Image(ExQueue') = Image(ExQueue) \cup {r}
    BY <1>1, <1>3, AppendImage DEF Queues
  <2>3. QueuedOnce'
    BY <1>1, <1>3, <2>1, AppendOnce DEF Queues, QueuedOnce
  <2>4. PlacesAreExact'
    <3>1. CASE r \in FileReqs
      <4>1. PlacesTaken' = PlacesTaken \cup {r} /\ r \notin PlacesTaken
        BY <1>1, <1>3, <3>1, WorkQueueAssumption DEF PlacesTaken, Queues, Reqs
      <4>2. PostedRequestCount' = Cardinality(PlacesTaken)'
        BY <1>1, <1>3, <3>1, <4>1, PlaceTaken DEF Queues, PlacesAreExact
      <4>3. PostedRequestCount <= Threshold
        BY <1>1, <1>3, <3>1, WorkQueueAssumption DEF Overflows, Queues
      <4>4. OverflowQueue' = <<>>
        BY <1>1, <1>3, <4>3, WorkQueueAssumption DEF Queues, PlacesAreExact
      <4>5. QED
        BY <1>1, <1>3, <3>1, <4>2, <4>3, <4>4, WorkQueueAssumption
        DEF Queues, PlacesAreExact
    <3>2. CASE r \notin FileReqs
      <4>1. PlacesTaken' = PlacesTaken
        BY <1>1, <1>3, <3>2 DEF PlacesTaken, Queues, Reqs
      <4>2. QED
        BY <1>1, <1>3, <3>2, <4>1 DEF Queues, PlacesAreExact
    <3>3. QED
      BY <3>1, <3>2
  <2>5. \A q \in Reqs : /\ q \in Image(ExQueue') <=> where'[q] = "item"
                        /\ q \in Image(OverflowQueue') <=> where'[q] = "overflow"
    BY <1>1, <1>3, <2>2 DEF Queues
  <2>6. PostedRequestCount' \in Nat
    BY <1>1, <1>3 DEF Queues
  <2>7. QED
    BY <1>1, <1>3, <2>2, <2>3, <2>4, <2>5, <2>6 DEF Queues
<1>4. QED
  BY <1>2, <1>3 DEF AddToWorkque

(* A request that is on no queue may go wherever else.                     *)
LEMMA MoveStep ==
  ASSUME IInv, NEW r \in Reqs, where[r] \notin {"item", "overflow"},
         NEW place \in Places \ {"item", "overflow"},
         MoveTo(r, place), UNCHANGED VolDo
  PROVE  /\ Queues'
         /\ \A q \in Reqs : q # r => where'[q] = where[q]
<1>1. Queues
  BY Parts
<1>2. PlacesTaken' = PlacesTaken
  BY <1>1 DEF PlacesTaken, Queues, Reqs, MoveTo
<1>3. PlacesAreExact' /\ QueuedOnce'
  BY <1>1, <1>2 DEF Queues, PlacesAreExact, QueuedOnce, MoveTo, queueVars
<1>4. QED
  BY <1>1, <1>3 DEF Queues, MoveTo, queueVars

(* Every step of callers, of the oplock package and of the workers keeps   *)
(* the invariant.                                                          *)
LEMMA InvStep == IInv /\ [Next]_vars => IInv'
<1> SUFFICES ASSUME IInv, [Next]_vars
             PROVE  IInv'
  OBVIOUS
<1>1. Queues /\ Serving /\ TypeOK
  BY Parts DEF IInv
<1>2. ASSUME NEW r \in Reqs, FsdPostRequest(r) \/ Defer(r) \/ OplockComplete(r)
      PROVE  IInv'
  <2>1. where[r] \in {"caller", "waiting"} /\ UNCHANGED <<serving, VolDo>>
    BY <1>2 DEF FsdPostRequest, Defer, OplockComplete
  <2>2. \/ AddToWorkque(r)
        \/ \E place \in Places \ {"item", "overflow"} : MoveTo(r, place)
    BY <1>2 DEF FsdPostRequest, Defer, OplockComplete, Places
  <2>3. Queues' /\ \A q \in Reqs : q # r => where'[q] = where[q]
    BY <2>1, <2>2, AddStep, MoveStep
  <2>4. Serving'
    BY <1>1, <2>1, <2>3 DEF Serving
  <2>5. QED
    BY <2>3, <2>4, PartsNext
<1>3. ASSUME NEW w \in Workers, Dispatch(w)
      PROVE  IInv'
  <2> DEFINE r == serving[w]
  <2>1. r \in Reqs /\ where[r] = "served"
    BY <1>1, <1>3 DEF Dispatch, Serving
  <2>2. /\ serving' = [serving EXCEPT ![w] = NoReq]
        /\ UNCHANGED VolDo
    BY <1>3 DEF Dispatch
  <2>3. \/ AddToWorkque(r)
        \/ \E place \in Places \ {"item", "overflow"} : MoveTo(r, place)
    BY <1>3 DEF Dispatch, Places
  <2>4. Queues' /\ \A q \in Reqs : q # r => where'[q] = where[q]
    BY <2>1, <2>2, <2>3, AddStep, MoveStep
  <2>5. Serving'
    BY <1>1, <2>1, <2>2, <2>4 DEF Serving
  <2>6. QED
    BY <2>4, <2>5, PartsNext
<1>4. ASSUME NEW w \in Workers, StartWorker(w)
      PROVE  IInv'
  <2> DEFINE r == Head(ExQueue)
  <2>1. /\ Free(w)
        /\ ExQueue # <<>>
        /\ ExQueue' = Tail(ExQueue)
        /\ serving' = [serving EXCEPT ![w] = r]
        /\ VolDo' = [VolDo EXCEPT ![w] = r \in FileReqs]
        /\ where' = [where EXCEPT ![r] = "served"]
        /\ UNCHANGED <<PostedRequestCount, OverflowQueue, OverflowQueueCount>>
    BY <1>4 DEF StartWorker
  <2>2. /\ r \in Reqs /\ r \in Image(ExQueue)
        /\ ExQueue' \in Seq(Reqs)
        /\ Image(ExQueue') = Image(ExQueue) \ {r}
        /\ QueuedOnce'
    BY <1>1, <2>1, TailImage DEF Queues, QueuedOnce
  <2>3. where[r] = "item"
    BY <1>1, <2>2 DEF Queues
  <2>4. Cardinality(PlacesTaken)' = Cardinality(PlacesTaken)
    <3>1. w \notin PlacesTaken
      BY <2>1, WorkQueueAssumption DEF PlacesTaken, Free, Reqs
    <3>2. CASE r \in FileReqs
      <4>1. r \in PlacesTaken
        BY <2>3, <3>2 DEF PlacesTaken
      <4>2. PlacesTaken' = (PlacesTaken \ {r}) \cup {w}
        <5>1. {q \in FileReqs : where'[q] = "item"}
                = {q \in FileReqs : where[q] = "item"} \ {r}
          BY <1>1, <2>1, <3>2 DEF Queues, Reqs
        <5>2. {v \in Workers : VolDo'[v]} = {v \in Workers : VolDo[v]} \cup {w}
          BY <1>1, <2>1, <3>2 DEF Serving
        <5>3. r \notin {v \in Workers : VolDo[v]}
          BY <2>2, WorkQueueAssumption
        <5>4. QED
          BY <5>1, <5>2, <5>3 DEF PlacesTaken
      <4>3. QED
        BY <1>1, <3>1, <4>1, <4>2, PlacePassed
    <3>3. CASE r \notin FileReqs
      <4>1. PlacesTaken' = PlacesTaken
        BY <1>1, <2>1, <3>3 DEF PlacesTaken, Queues, Serving, Reqs, Free
      <4>2. QED
        BY <4>1
    <3>4. QED
      BY <3>2, <3>3
  <2>5. PlacesAreExact'
    BY <1>1, <2>1, <2>4 DEF Queues, PlacesAreExact
  <2>6. \A q \in Reqs : /\ q \in Image(ExQueue') <=> where'[q] = "item"
                        /\ q \in Image(OverflowQueue') <=> where'[q] = "overflow"
    BY <1>1, <2>1, <2>2, <2>3 DEF Queues
  <2>7. Queues'
    BY <1>1, <2>1, <2>2, <2>5, <2>6 DEF Queues, Places
  <2>8. Serving'
    BY <1>1, <2>1, <2>2, <2>3 DEF Serving, Queues
  <2>9. QED
    BY <2>7, <2>8, PartsNext
<1>5. ASSUME NEW w \in Workers, RemoveOverflowEntry(w)
      PROVE  IInv'
  <2>1. CASE /\ OverflowQueueCount > 0
             /\ OverflowQueueCount' = OverflowQueueCount - 1
             /\ OverflowQueue' = Tail(OverflowQueue)
             /\ serving' = [serving EXCEPT ![w] = Head(OverflowQueue)]
             /\ where' = [where EXCEPT ![Head(OverflowQueue)] = "served"]
             /\ UNCHANGED <<ExQueue, PostedRequestCount, VolDo>>
    <3> DEFINE r == Head(OverflowQueue)
    <3>1. OverflowQueue # <<>>
      BY <1>1, <2>1 DEF Queues
    <3>2. /\ r \in FileReqs /\ r \in Reqs /\ r \in Image(OverflowQueue)
          /\ OverflowQueue' \in Seq(FileReqs)
          /\ Len(OverflowQueue') = Len(OverflowQueue) - 1
          /\ Image(OverflowQueue') = Image(OverflowQueue) \ {r}
          /\ QueuedOnce'
      <4>1. \A m, n \in DOMAIN OverflowQueue :
              OverflowQueue[m] = OverflowQueue[n] => m = n
        BY <1>1 DEF Queues, QueuedOnce
      <4>2. OverflowQueue \in Seq(FileReqs)
        BY <1>1 DEF Queues
      <4>3. /\ r \in FileReqs /\ r \in Image(OverflowQueue)
            /\ Tail(OverflowQueue) \in Seq(FileReqs)
            /\ Len(Tail(OverflowQueue)) = Len(OverflowQueue) - 1
            /\ Image(Tail(OverflowQueue)) = Image(OverflowQueue) \ {r}
            /\ \A m, n \in DOMAIN Tail(OverflowQueue) :
                 Tail(OverflowQueue)[m] = Tail(OverflowQueue)[n] => m = n
        BY <3>1, <4>1, <4>2, TailImage
      <4>4. QueuedOnce'
        BY <1>1, <2>1, <4>3 DEF Queues, QueuedOnce
      <4>5. QED
        BY <2>1, <4>3, <4>4 DEF Reqs
    <3>3. where[r] = "overflow"
      BY <1>1, <3>2 DEF Queues
    <3>4. PlacesTaken' = PlacesTaken
      BY <1>1, <2>1, <3>3 DEF PlacesTaken, Queues, Reqs
    <3>5. PlacesAreExact'
      BY <1>1, <2>1, <3>1, <3>4 DEF Queues, PlacesAreExact
    <3>6. \A q \in Reqs : /\ q \in Image(ExQueue') <=> where'[q] = "item"
                          /\ q \in Image(OverflowQueue') <=> where'[q] = "overflow"
      BY <1>1, <2>1, <3>2, <3>3 DEF Queues
    <3>7. OverflowQueueCount' \in Nat /\ Len(OverflowQueue') = OverflowQueueCount'
      BY <1>1, <2>1, <3>2 DEF Queues
    <3>8. Queues'
      BY <1>1, <2>1, <3>2, <3>5, <3>6, <3>7 DEF Queues, Places
    <3>9. Serving'
      BY <1>1, <2>1, <3>2, <3>3 DEF Serving, Queues
    <3>10. QED
      BY <3>8, <3>9, PartsNext
  <2>2. CASE /\ OverflowQueueCount = 0
             /\ PostedRequestCount' = PostedRequestCount - 1
             /\ VolDo' = [VolDo EXCEPT ![w] = FALSE]
             /\ UNCHANGED <<where, ExQueue, OverflowQueue, OverflowQueueCount,
                            serving>>
    <3>1. OverflowQueue = <<>>
      BY <1>1, <2>2 DEF Queues
    <3>2. w \in PlacesTaken
      BY <1>5 DEF RemoveOverflowEntry, PlacesTaken
    <3>3. PlacesTaken' = PlacesTaken \ {w}
      BY <1>1, <2>2, WorkQueueAssumption DEF PlacesTaken, Serving, Reqs
    <3>4. /\ Cardinality(PlacesTaken)' = Cardinality(PlacesTaken) - 1
          /\ Cardinality(PlacesTaken) > 0
      BY <1>1, <3>2, <3>3, PlaceGiven
    <3>5. PostedRequestCount' \in Nat /\ PlacesAreExact'
      BY <1>1, <2>2, <3>1, <3>4, WorkQueueAssumption DEF Queues, PlacesAreExact
    <3>6. Queues'
      BY <1>1, <2>2, <3>5 DEF Queues, QueuedOnce
    <3>7. Serving'
      BY <1>1, <2>2 DEF Serving
    <3>8. QED
      BY <3>6, <3>7, PartsNext
  <2>3. QED
    BY <1>5, <2>1, <2>2 DEF RemoveOverflowEntry
<1>6. CASE UNCHANGED vars
  BY <1>6 DEF vars, queueVars, IInv, TypeOK, PlacesAreExact, PlacesTaken,
              ServedOnce, QueuedOnce
<1>7. QED
  BY <1>2, <1>3, <1>4, <1>5, <1>6 DEF Next, WorkerStep

(* The counts, the queues and the workers' requests fit together in every  *)
(* state of the volume.                                                    *)
THEOREM Invariance == Spec => []IInv
<1>1. Init => IInv
  <2> SUFFICES ASSUME Init
               PROVE  IInv
    OBVIOUS
  <2>1. TypeOK
    BY DEF Init, TypeOK, Places
  <2>2. PlacesTaken = {}
    BY DEF Init, PlacesTaken, Reqs
  <2>3. PlacesAreExact
    BY <2>2, FS_EmptySet, WorkQueueAssumption DEF Init, PlacesAreExact
  <2>4. Image(<<>>) = {} /\ Len(<<>>) = 0
    BY DEF Image
  <2>5. ServedOnce /\ QueuedOnce
    BY <2>4 DEF Init, ServedOnce, QueuedOnce, Reqs
  <2>6. QED
    BY <2>1, <2>3, <2>5 DEF IInv
<1>2. QED
  BY <1>1, InvStep, PTL DEF Spec

(* The variables of the volume's work queue keep their types; that         *)
(* PostedRequestCount never becomes negative is a part of it.              *)
THEOREM TypeCorrect == Spec => []TypeOK
<1>1. IInv => TypeOK
  BY DEF IInv
<1>2. QED
  BY <1>1, Invariance, PTL

(* No place of a volume is lost or counted twice, and a request on the     *)
(* overflow queue always has a worker that will come to it, for every      *)
(* threshold and any number of workers.                                    *)
THEOREM NoPlaceIsLost == Spec => []PlacesAreExact
<1>1. IInv => PlacesAreExact
  BY DEF IInv
<1>2. QED
  BY <1>1, Invariance, PTL

(* No two workers have the same request, and none has one that is queued,  *)
(* however often requests are posted again.                                *)
THEOREM NoneServedTwice == Spec => []ServedOnce
<1>1. IInv => ServedOnce
  BY DEF IInv
<1>2. QED
  BY <1>1, Invariance, PTL

=============================================================================
