--------------------------- MODULE FatCloseProofs ---------------------------
(***************************************************************************)
(* Proofs about FatClose for any number of volumes, file objects, Fcbs and *)
(* worker threads and any limit of delayed closes: the open counts are     *)
(* exact, one worker runs for the flag, and a volume outlives its files.   *)
(***************************************************************************)
EXTENDS FatClose, FiniteSetTheorems, SequenceTheorems,
        WellFoundedInduction, TLAPS

(* What the provers need of the constants.                                 *)
LEMMA Constants ==
  /\ VolOf \in [Files -> Vols] /\ Opens \in [Users -> SUBSET Fcbs]
  /\ NoFcb \notin Fcbs /\ MaxDelayed \in Nat /\ Users \cap Streams = {}
  /\ Files = Users \cup Streams
  /\ IsFiniteSet(Files) /\ NoFile \notin Files /\ NoVol \notin Vols
  /\ Nobody \notin Files /\ Flusher \notin Files /\ Scanner \notin Files
  /\ ShutsDown \notin Files
  /\ Nobody \notin Workers /\ Flusher \notin Workers /\ Scanner \notin Workers
  /\ Nobody # Flusher /\ Nobody # Scanner /\ Flusher # Scanner
  /\ \A f \in Files : f \notin Workers
BY CloseAssumption DEF Files

-----------------------------------------------------------------------------
(* Counting file objects.                                                  *)

LEMMA SubsetIsFinite ==
  ASSUME NEW S \in SUBSET Files
  PROVE  IsFiniteSet(S) /\ Cardinality(S) \in Nat
BY Constants, FS_Subset, FS_CardinalityType

LEMMA OneMore ==
  ASSUME NEW S \in SUBSET Files, NEW T, NEW f, f \notin S, T = S \cup {f}
  PROVE  Cardinality(T) = Cardinality(S) + 1
BY SubsetIsFinite, FS_AddElement

LEMMA OneLess ==
  ASSUME NEW S \in SUBSET Files, NEW T, NEW f \in S, T = S \ {f}
  PROVE  Cardinality(T) = Cardinality(S) - 1 /\ Cardinality(S) > 0
<1>1. IsFiniteSet(S) /\ Cardinality(S) \in Nat
  BY SubsetIsFinite
<1>2. Cardinality(T) = Cardinality(S) - 1
  BY <1>1, FS_RemoveElement
<1>3. Cardinality(S) # 0
  BY <1>1, FS_EmptySet
<1>4. QED
  BY <1>1, <1>2, <1>3

LEMMA ManyLess ==
  ASSUME NEW S \in SUBSET Files, NEW D \in SUBSET S, NEW T, T = S \ D
  PROVE  Cardinality(T) = Cardinality(S) - Cardinality(D)
<1>1. IsFiniteSet(S)
  BY SubsetIsFinite
<1>2. S \cap D = D
  OBVIOUS
<1>3. QED
  BY <1>1, <1>2, FS_Difference

LEMMA NoneLeft ==
  ASSUME NEW S \in SUBSET Files, Cardinality(S) = 0
  PROVE  S = {}
BY SubsetIsFinite, FS_EmptySet

(* The sets that are counted.                                              *)
LEMMA Counted ==
  /\ \A v : /\ OpenUsers(v) \in SUBSET Files
            /\ OpenInternals(v) \in SUBSET Files
            /\ Biased(v) \in SUBSET Files
  /\ \A c : FilesOf(c) \in SUBSET Files
BY Constants DEF OpenUsers, OpenInternals, Biased, FilesOf, On

LEMMA CountedNext ==
  /\ \A v : /\ OpenUsers(v)' \in SUBSET Files
            /\ OpenInternals(v)' \in SUBSET Files
            /\ Biased(v)' \in SUBSET Files
  /\ \A c : FilesOf(c)' \in SUBSET Files
BY Constants DEF OpenUsers, OpenInternals, Biased, FilesOf, On

-----------------------------------------------------------------------------
(* What keeps the parts of the invariant.                                  *)

LEMMA CountsKept ==
  ASSUME CountsAreExact, HasFcb,
         \A g \in Files : /\ Referenced(g)' <=> Referenced(g)
                          /\ state'[g] \in {"global", "check"} <=>
                               state[g] \in {"global", "check"},
         UNCHANGED <<FcbOf, OpenCount, OpenFileCount, InternalOpenCount>>
  PROVE  CountsAreExact' /\ HasFcb'
<1>0. Users \subseteq Files /\ Streams \subseteq Files
  BY Constants
<1>1. \A v \in Vols : /\ OpenUsers(v)' = OpenUsers(v)
                      /\ OpenInternals(v)' = OpenInternals(v)
                      /\ Biased(v)' = Biased(v)
  BY <1>0 DEF OpenUsers, OpenInternals, Biased, On
<1>2. \A c \in Fcbs : FilesOf(c)' = FilesOf(c)
  BY <1>0 DEF FilesOf
<1>3. CountsAreExact'
  BY <1>1, <1>2 DEF CountsAreExact
<1>4. HasFcb'
  BY <1>0 DEF HasFcb
<1>5. QED
  BY <1>3, <1>4

LEMMA ListsKept ==
  ASSUME TypeOK, Lists, UNCHANGED <<AsyncCloseList, DelayedCloseList>>,
         \A g \in Files : state[g] = "queued" => state'[g] = "queued"
  PROVE  Lists'
<1>1. /\ \A k \in DOMAIN AsyncCloseList : AsyncCloseList[k] \in Files
      /\ \A k \in DOMAIN DelayedCloseList : DelayedCloseList[k] \in Files
  BY ElementOfSeq, Constants DEF TypeOK
<1>2. QED
  BY <1>1 DEF Lists, EntriesOf

LEMMA HandsKept ==
  ASSUME TypeOK, Hands, UNCHANGED <<hand, wctx>>,
         \A w \in Workers : Takes(w)' => Takes(w),
         \A g \in Files : state[g] = "held" => state'[g] = "held"
  PROVE  Hands'
<1>1. \A v \in Vols : hand[v] \in Files \cup {NoFile}
  BY DEF TypeOK
<1>2. QED
  BY <1>1 DEF Hands

LEMMA HoldersKept ==
  ASSUME Holders, UNCHANGED <<vcb, CurrentVcb, condition>>,
         \A v \in Vols : vcb[v] \in Files \cup {Scanner} =>
           OpenFileCount'[v] = OpenFileCount[v],
         \A g \in Files : state'[g] = "dismount" <=> state[g] = "dismount"
  PROVE  Holders'
BY DEF Holders

LEMMA FlagKept ==
  ASSUME Flag, UNCHANGED listVars,
         \A w \in Workers : wpc'[w] \in {"remove", "lock", "close"} <=>
           wpc[w] \in {"remove", "lock", "close"}
  PROVE  Flag'
<1>1. Running' = Running
  BY DEF Running
<1>2. QED
  BY <1>1 DEF Flag, listVars

LEMMA DeletedKept ==
  ASSUME VolumeOutlivesFiles, UNCHANGED condition,
         \A g \in Files : state[g] = "none" =>
           state'[g] = "none" \/ condition[VolOf[g]] # "deleted",
         \A v \in Vols : condition[v] = "deleted" /\ Free(v) => Free(v)'
  PROVE  VolumeOutlivesFiles'
BY DEF VolumeOutlivesFiles, On

(* A file object moves on without being opened or closed.                  *)
LEMMA Moved ==
  ASSUME Core, NEW f \in Files, NEW s \in States,
         state' = [state EXCEPT ![f] = s],
         state[f] \notin {"queued", "held", "dismount"}, s # "dismount",
         state[f] = "none" => condition[VolOf[f]] # "deleted",
         state[f] \in {"none", "enroute", "global", "check"} <=>
           s \in {"none", "enroute", "global", "check"},
         state[f] \in {"global", "check"} <=> s \in {"global", "check"},
         UNCHANGED <<FcbOf, OpenCount, OpenFileCount, InternalOpenCount, vcb,
                     CurrentVcb, condition, hand, wctx, wpc>>
  PROVE  /\ CountsAreExact' /\ HasFcb' /\ Hands' /\ Holders'
         /\ VolumeOutlivesFiles' /\ state' \in [Files -> States]
         /\ UNCHANGED <<AsyncCloseList, DelayedCloseList>> => Lists'
         /\ UNCHANGED listVars => Flag'
<1>1. /\ state \in [Files -> States] /\ state' \in [Files -> States]
      /\ state'[f] = s /\ \A g \in Files : g # f => state'[g] = state[g]
  BY DEF Core, TypeOK
<1>2. CountsAreExact' /\ HasFcb'
  <2>1. \A g \in Files : /\ Referenced(g)' <=> Referenced(g)
                         /\ state'[g] \in {"global", "check"} <=>
                              state[g] \in {"global", "check"}
    BY <1>1 DEF Referenced
  <2>2. QED
    BY <2>1, CountsKept DEF Core
<1>3. Hands'
  <2>1. \A w \in Workers : Takes(w)' => Takes(w)
    BY DEF Takes
  <2>2. \A g \in Files : state[g] = "held" => state'[g] = "held"
    BY <1>1
  <2>3. QED
    BY <2>1, <2>2, HandsKept DEF Core
<1>4. Holders'
  <2>1. \A g \in Files : state'[g] = "dismount" <=> state[g] = "dismount"
    BY <1>1
  <2>2. QED
    BY <2>1, HoldersKept DEF Core
<1>5. VolumeOutlivesFiles'
  <2>1. \A g \in Files : state[g] = "none" =>
          state'[g] = "none" \/ condition[VolOf[g]] # "deleted"
    BY <1>1
  <2>2. \A v \in Vols : Free(v) => Free(v)'
    BY DEF Free
  <2>3. QED
    BY <2>1, <2>2, DeletedKept DEF Core
<1>6. UNCHANGED <<AsyncCloseList, DelayedCloseList>> => Lists'
  <2>1. \A g \in Files : state[g] = "queued" => state'[g] = "queued"
    BY <1>1
  <2>2. QED
    BY <2>1, ListsKept DEF Core
<1>7. UNCHANGED listVars => Flag'
  BY FlagKept DEF Core
<1>8. QED
  BY <1>1, <1>2, <1>3, <1>4, <1>5, <1>6, <1>7

(* Counts that are exact are natural numbers.                              *)
LEMMA CountsAreNat ==
  ASSUME CountsAreExact'
  PROVE  /\ \A v \in Vols : OpenFileCount'[v] \in Nat /\ InternalOpenCount'[v] \in Nat
         /\ \A c \in Fcbs : OpenCount'[c] \in Nat
<1>1. ASSUME NEW v \in Vols
      PROVE  OpenFileCount'[v] \in Nat /\ InternalOpenCount'[v] \in Nat
  <2>1. /\ Cardinality(OpenUsers(v)') \in Nat /\ Cardinality(Biased(v)') \in Nat
        /\ Cardinality(OpenInternals(v)') \in Nat
    BY CountedNext, SubsetIsFinite
  <2>2. QED
    BY <1>1, <2>1 DEF CountsAreExact
<1>2. ASSUME NEW c \in Fcbs
      PROVE  OpenCount'[c] \in Nat
  <2>1. Cardinality(FilesOf(c)') \in Nat
    BY CountedNext, SubsetIsFinite
  <2>2. QED
    BY <1>2, <2>1 DEF CountsAreExact
<1>3. QED
  BY <1>1, <1>2

(* The decrements of FatCommonClose are those of a file that was counted,  *)
(* and the reference it keeps is counted as well.                          *)
LEMMA Closed ==
  ASSUME Core, NEW f \in Files, Referenced(f), NEW bias \in {0, 1},
         CloseFile(f, bias), NEW s, s = IF bias = 0 THEN "none" ELSE "global",
         state' = [state EXCEPT ![f] = s]
  PROVE  /\ CountsAreExact' /\ HasFcb'
         /\ state' \in [Files -> States]
         /\ FcbOf' \in [Users -> Fcbs \cup {NoFcb}]
         /\ DelayClose' \in [Fcbs -> BOOLEAN]
         /\ OpenCount' \in [Fcbs -> Nat]
         /\ OpenFileCount' \in [Vols -> Nat]
         /\ InternalOpenCount' \in [Vols -> Nat]
<1> DEFINE v == VolOf[f]
<1>c. /\ VolOf \in [Files -> Vols] /\ NoFcb \notin Fcbs /\ Users \cap Streams = {}
      /\ Files = Users \cup Streams
  BY Constants
<1>0. v \in Vols
  BY <1>c
<1>1. /\ state \in [Files -> States] /\ state' \in [Files -> States]
      /\ state'[f] = s /\ \A g \in Files : g # f => state'[g] = state[g]
  BY DEF Core, TypeOK, States
<1>2. /\ ~Referenced(f)'
      /\ \A g \in Files : g # f => Referenced(g)' = Referenced(g)
      /\ state[f] \notin {"global", "check"}
      /\ bias = 0 => state'[f] \notin {"global", "check"}
      /\ bias = 1 => state'[f] \in {"global", "check"}
  BY <1>1 DEF Referenced
<1>3. /\ bias = 0 => \A u \in Vols : Biased(u)' = Biased(u)
      /\ bias = 1 => \A u \in Vols : u # v => Biased(u)' = Biased(u)
      /\ bias = 1 => Biased(v)' = Biased(v) \cup {f} /\ f \notin Biased(v)
  BY <1>0, <1>1, <1>2 DEF Biased, On
<1>4. /\ \A u \in Vols : /\ Cardinality(OpenUsers(u)) \in Nat
                         /\ Cardinality(Biased(u)) \in Nat
                         /\ Cardinality(OpenInternals(u)) \in Nat
      /\ \A c \in Fcbs : Cardinality(FilesOf(c)) \in Nat
  BY Counted, SubsetIsFinite
<1>5. /\ \A u \in Vols : u # v => Cardinality(Biased(u)') = Cardinality(Biased(u))
      /\ Cardinality(Biased(v)') = Cardinality(Biased(v)) + bias
  <2>1. CASE bias = 0
    BY <1>0, <1>3, <1>4, <2>1
  <2>2. CASE bias = 1
    BY <1>0, <1>3, <2>2, Counted, OneMore
  <2>3. QED
    BY <2>1, <2>2
<1>6. /\ \A u \in Vols :
           OpenFileCount[u] = Cardinality(OpenUsers(u)) + Cardinality(Biased(u))
      /\ \A u \in Vols : InternalOpenCount[u] = Cardinality(OpenInternals(u))
      /\ \A c \in Fcbs : OpenCount[c] = Cardinality(FilesOf(c))
      /\ OpenFileCount \in [Vols -> Nat] /\ InternalOpenCount \in [Vols -> Nat]
      /\ OpenCount \in [Fcbs -> Nat]
      /\ FcbOf \in [Users -> Fcbs \cup {NoFcb}] /\ DelayClose \in [Fcbs -> BOOLEAN]
  BY DEF Core, CountsAreExact, TypeOK
<1> HIDE DEF v
<1>a. CASE f \in Users
  <2>1. PICK c \in Fcbs : c = FcbOf[f]
    BY <1>a DEF Core, HasFcb
  <2>2. /\ OpenFileCount' = [OpenFileCount EXCEPT ![v] = @ - 1 + bias]
        /\ OpenCount' = [OpenCount EXCEPT ![c] = @ - 1]
        /\ DelayClose' = [DelayClose EXCEPT ![c] = @ /\ OpenCount[c] > 1]
        /\ FcbOf' = [FcbOf EXCEPT ![f] = NoFcb]
        /\ UNCHANGED InternalOpenCount
    BY <1>a, <2>1 DEF CloseFile, v
  <2>3. /\ OpenUsers(v)' = OpenUsers(v) \ {f} /\ f \in OpenUsers(v)
        /\ \A u \in Vols : u # v => OpenUsers(u)' = OpenUsers(u)
        /\ \A u \in Vols : OpenInternals(u)' = OpenInternals(u)
    BY <1>a, <1>c, <1>2 DEF OpenUsers, OpenInternals, On, v
  <2>g. /\ FcbOf'[f] = NoFcb /\ FcbOf[f] = c
        /\ \A g \in Users : g # f => FcbOf'[g] = FcbOf[g]
    BY <1>a, <1>6, <2>1, <2>2
  <2>h. \A g \in Users : g # f => Referenced(g)' = Referenced(g)
    BY <1>c, <1>2
  <2>4. /\ FilesOf(c)' = FilesOf(c) \ {f} /\ f \in FilesOf(c)
        /\ \A d \in Fcbs : d # c => FilesOf(d)' = FilesOf(d)
    <3>1. f \in FilesOf(c)
      BY <1>a, <2>g DEF FilesOf
    <3>2. ASSUME NEW d \in Fcbs, NEW g
          PROVE  g \in FilesOf(d)' <=> g \in FilesOf(d) /\ g # f
      <4>1. CASE g = f
        BY <1>2, <4>1 DEF FilesOf
      <4>2. CASE g # f
        BY <2>g, <2>h, <4>2 DEF FilesOf
      <4>3. QED
        BY <4>1, <4>2
    <3>3. \A d \in Fcbs : d # c => f \notin FilesOf(d)
      BY <2>g DEF FilesOf
    <3>4. QED
      BY <2>1, <3>1, <3>2, <3>3
  <2>5. /\ Cardinality(OpenUsers(v)') = Cardinality(OpenUsers(v)) - 1
        /\ Cardinality(OpenUsers(v)) > 0
    BY <2>3, Counted, OneLess
  <2>6. /\ Cardinality(FilesOf(c)') = Cardinality(FilesOf(c)) - 1
        /\ Cardinality(FilesOf(c)) > 0
    BY <2>4, Counted, OneLess
  <2>7. ASSUME NEW u \in Vols
        PROVE  /\ OpenFileCount'[u] =
                    Cardinality(OpenUsers(u)') + Cardinality(Biased(u)')
               /\ InternalOpenCount'[u] = Cardinality(OpenInternals(u)')
    <3>1. CASE u = v
      <4>1. OpenFileCount'[v] = OpenFileCount[v] - 1 + bias
        BY <1>0, <1>6, <2>2
      <4>2. OpenFileCount'[v] =
              Cardinality(OpenUsers(v)') + Cardinality(Biased(v)')
        BY <1>0, <1>4, <1>5, <1>6, <2>5, <4>1
      <4>3. QED
        BY <1>6, <2>2, <2>3, <2>7, <3>1, <4>2
    <3>2. CASE u # v
      <4>1. OpenFileCount'[u] = OpenFileCount[u]
        BY <1>6, <2>2, <2>7, <3>2
      <4>2. QED
        BY <1>5, <1>6, <2>2, <2>3, <2>7, <3>2, <4>1
    <3>3. QED
      BY <3>1, <3>2
  <2>8. ASSUME NEW d \in Fcbs
        PROVE  OpenCount'[d] = Cardinality(FilesOf(d)')
    <3>1. CASE d = c
      <4>1. OpenCount'[c] = OpenCount[c] - 1
        BY <1>6, <2>1, <2>2
      <4>2. QED
        BY <1>6, <2>1, <2>6, <3>1, <4>1
    <3>2. CASE d # c
      BY <1>6, <2>2, <2>4, <2>8, <3>2
    <3>3. QED
      BY <3>1, <3>2
  <2>9. CountsAreExact'
    BY <2>7, <2>8 DEF CountsAreExact
  <2>10. HasFcb'
    BY <1>a, <1>c, <1>2, <1>6, <2>2 DEF Core, HasFcb
  <2>11. /\ FcbOf' \in [Users -> Fcbs \cup {NoFcb}]
         /\ OpenCount' \in [Fcbs -> Nat] /\ OpenFileCount' \in [Vols -> Nat]
         /\ InternalOpenCount' \in [Vols -> Nat]
    BY <1>6, <2>2, <2>9, CountsAreNat
  <2>12. DelayClose' \in [Fcbs -> BOOLEAN]
    <3>1. (DelayClose[c] /\ OpenCount[c] > 1) \in BOOLEAN
      OBVIOUS
    <3>2. QED
      BY <1>6, <2>2, <3>1
  <2>13. QED
    BY <1>1, <2>9, <2>10, <2>11, <2>12
<1>b. CASE f \in Streams
  <2>1. f \notin Users
    BY <1>b, <1>c
  <2>2. /\ OpenFileCount' = [OpenFileCount EXCEPT ![v] = @ + bias]
        /\ InternalOpenCount' = [InternalOpenCount EXCEPT ![v] = @ - 1]
        /\ UNCHANGED <<FcbOf, OpenCount, DelayClose>>
    BY <2>1 DEF CloseFile, v
  <2>3. /\ OpenInternals(v)' = OpenInternals(v) \ {f} /\ f \in OpenInternals(v)
        /\ \A u \in Vols : u # v => OpenInternals(u)' = OpenInternals(u)
        /\ \A u \in Vols : OpenUsers(u)' = OpenUsers(u)
    BY <1>b, <1>c, <1>2 DEF OpenUsers, OpenInternals, On, v
  <2>4. \A d \in Fcbs : FilesOf(d)' = FilesOf(d)
    BY <1>c, <1>2, <2>1, <2>2 DEF FilesOf
  <2>5. Cardinality(OpenInternals(v)') = Cardinality(OpenInternals(v)) - 1
    BY <2>3, Counted, OneLess
  <2>6. ASSUME NEW u \in Vols
        PROVE  /\ OpenFileCount'[u] =
                    Cardinality(OpenUsers(u)') + Cardinality(Biased(u)')
               /\ InternalOpenCount'[u] = Cardinality(OpenInternals(u)')
    <3>1. CASE u = v
      <4>1. /\ OpenFileCount'[v] = OpenFileCount[v] + bias
            /\ InternalOpenCount'[v] = InternalOpenCount[v] - 1
        BY <1>0, <1>6, <2>2
      <4>2. OpenFileCount'[v] =
              Cardinality(OpenUsers(v)') + Cardinality(Biased(v)')
        BY <1>0, <1>4, <1>5, <1>6, <2>3, <4>1
      <4>3. QED
        BY <1>0, <1>6, <2>5, <3>1, <4>1, <4>2
    <3>2. CASE u # v
      <4>1. /\ OpenFileCount'[u] = OpenFileCount[u]
            /\ InternalOpenCount'[u] = InternalOpenCount[u]
        BY <1>6, <2>2, <2>6, <3>2
      <4>2. QED
        BY <1>5, <1>6, <2>3, <2>6, <3>2, <4>1
    <3>3. QED
      BY <3>1, <3>2
  <2>7. CountsAreExact'
    BY <1>6, <2>2, <2>4, <2>6 DEF CountsAreExact
  <2>8. HasFcb'
    BY <1>c, <1>2, <2>1, <2>2 DEF Core, HasFcb
  <2>9. QED
    BY <1>1, <1>6, <2>2, <2>7, <2>8, CountsAreNat
<1>d. QED
  BY <1>a, <1>b, <1>c

-----------------------------------------------------------------------------
(* The lists of closes.                                                    *)

(* What RemoveEntryList leaves of a list without duplicates.               *)
LEMMA Removed ==
  ASSUME NEW S, NEW list \in Seq(S), NEW f,
         \A k, m \in DOMAIN list : list[k] = list[m] => k = m
  PROVE  /\ Without(list, f) \in Seq(S)
         /\ Len(Without(list, f)) <= Len(list)
         /\ \A k \in DOMAIN Without(list, f) :
              /\ Without(list, f)[k] # f
              /\ \E m \in DOMAIN list : Without(list, f)[k] = list[m]
         /\ \A k, m \in DOMAIN Without(list, f) :
              Without(list, f)[k] = Without(list, f)[m] => k = m
<1>0. Len(list) \in Nat /\ DOMAIN list = 1 .. Len(list)
  OBVIOUS
<1>1. CASE \E k \in DOMAIN list : list[k] = f
  <2> DEFINE i == CHOOSE k \in DOMAIN list : list[k] = f
             n == Len(list) - 1
             rest == [k \in 1 .. n |-> IF k < i THEN list[k] ELSE list[k + 1]]
             old(k) == IF k < i THEN k ELSE k + 1
  <2>1. Without(list, f) = rest
    BY <1>1 DEF Without
  <2>2. i \in 1 .. Len(list) /\ list[i] = f
    BY <1>0, <1>1
  <2> HIDE DEF i
  <2>3. n \in Nat /\ n <= Len(list)
    BY <1>0, <2>2
  <2>4. \A k \in 1 .. n : old(k) \in 1 .. Len(list) /\ old(k) # i
    BY <1>0, <2>2
  <2>5. \A k, m \in 1 .. n : old(k) = old(m) => k = m
    BY <1>0, <2>2
  <2>6. \A k \in 1 .. n : rest[k] = list[old(k)]
    OBVIOUS
  <2>7. \A k \in 1 .. Len(list) : list[k] \in S
    BY ElementOfSeq
  <2>8. rest \in [1 .. n -> S]
    BY <2>4, <2>6, <2>7
  <2>9. rest \in Seq(S) /\ Len(rest) = n /\ DOMAIN rest = 1 .. n
    BY <2>3, <2>8, IsASeq
  <2> HIDE DEF rest, n, old
  <2>10. \A k \in 1 .. n : rest[k] # f /\ \E m \in DOMAIN list : rest[k] = list[m]
    BY <1>0, <2>2, <2>4, <2>6
  <2>11. \A k, m \in 1 .. n : rest[k] = rest[m] => k = m
    BY <1>0, <2>4, <2>5, <2>6
  <2>12. QED
    BY <2>1, <2>3, <2>9, <2>10, <2>11
<1>2. CASE ~\E k \in DOMAIN list : list[k] = f
  <2>1. Without(list, f) = list
    BY <1>2 DEF Without
  <2>2. QED
    BY <1>0, <1>2, <2>1
<1>3. QED
  BY <1>1, <1>2

(* FatRemoveClose takes a close that is on a list.                         *)
LEMMA TakenIsQueued ==
  ASSUME TypeOK, Lists, NEW f
  PROVE  /\ \A v : VolumeClose(v, f) => state[f] = "queued" /\ VolOf[f] = v
         /\ AnyClose(f) => state[f] = "queued"
<1>1. /\ \A k \in DOMAIN AsyncCloseList : state[AsyncCloseList[k]] = "queued"
      /\ \A k \in DOMAIN DelayedCloseList : state[DelayedCloseList[k]] = "queued"
  BY DEF Lists, EntriesOf
<1>2. \A v : VolumeClose(v, f) => state[f] = "queued" /\ VolOf[f] = v
  BY <1>1 DEF VolumeClose, OldestIn
<1>3. AnyClose(f) => state[f] = "queued"
  <2>1. AsyncCloseList \in Seq(Files) /\ DelayedCloseList \in Seq(Users)
    BY DEF TypeOK
  <2>2. /\ AsyncCloseList # <<>> =>
             1 \in DOMAIN AsyncCloseList /\ Head(AsyncCloseList) = AsyncCloseList[1]
        /\ DelayedCloseList # <<>> =>
             /\ 1 \in DOMAIN DelayedCloseList
             /\ Head(DelayedCloseList) = DelayedCloseList[1]
    BY <2>1, HeadTailProperties, EmptySeq
  <2>3. QED
    BY <1>1, <2>2 DEF AnyClose
<1>4. QED
  BY <1>2, <1>3

(* and leaves the others where they are.                                   *)
LEMMA Dequeued ==
  ASSUME Core, NEW f \in Files, state[f] = "queued", Dequeue(f),
         UNCHANGED <<FcbOf, OpenCount, OpenFileCount, InternalOpenCount, vcb,
                     condition, CurrentVcb>>
  PROVE  /\ state' \in [Files -> States] /\ state'[f] = "held"
         /\ \A g \in Files : g # f => state'[g] = state[g]
         /\ AsyncCloseList' \in Seq(Files) /\ DelayedCloseList' \in Seq(Users)
         /\ AsyncCloseList' # <<>> => AsyncCloseList # <<>>
         /\ Len(DelayedCloseList') <= Len(DelayedCloseList)
         /\ Lists' /\ CountsAreExact' /\ HasFcb' /\ Holders'
         /\ VolumeOutlivesFiles'
<1>1. /\ state' = [state EXCEPT ![f] = "held"]
      /\ AsyncCloseList' = Without(AsyncCloseList, f)
      /\ DelayedCloseList' = Without(DelayedCloseList, f)
  BY DEF Dequeue, MoveTo
<1>2. /\ state' \in [Files -> States] /\ state'[f] = "held"
      /\ \A g \in Files : g # f => state'[g] = state[g]
  BY <1>1 DEF Core, TypeOK, States
<1>t. /\ AsyncCloseList \in Seq(Files) /\ DelayedCloseList \in Seq(Users)
      /\ \A k, m \in DOMAIN AsyncCloseList :
           AsyncCloseList[k] = AsyncCloseList[m] => k = m
      /\ \A k, m \in DOMAIN DelayedCloseList :
           DelayedCloseList[k] = DelayedCloseList[m] => k = m
  BY DEF Core, TypeOK, Lists, EntriesOf
<1>3. /\ AsyncCloseList' \in Seq(Files)
      /\ Len(AsyncCloseList') <= Len(AsyncCloseList)
      /\ \A k \in DOMAIN AsyncCloseList' :
           /\ AsyncCloseList'[k] # f
           /\ \E m \in DOMAIN AsyncCloseList : AsyncCloseList'[k] = AsyncCloseList[m]
      /\ \A k, m \in DOMAIN AsyncCloseList' :
           AsyncCloseList'[k] = AsyncCloseList'[m] => k = m
  <2> DEFINE rest == Without(AsyncCloseList, f)
  <2>1. /\ rest \in Seq(Files) /\ Len(rest) <= Len(AsyncCloseList)
        /\ \A k \in DOMAIN rest : /\ rest[k] # f
                                  /\ \E m \in DOMAIN AsyncCloseList :
                                       rest[k] = AsyncCloseList[m]
        /\ \A k, m \in DOMAIN rest : rest[k] = rest[m] => k = m
    BY <1>t, Removed
  <2>2. AsyncCloseList' = rest
    BY <1>1
  <2> HIDE DEF rest
  <2>3. QED
    BY <2>1, <2>2
<1>4. /\ DelayedCloseList' \in Seq(Users)
      /\ Len(DelayedCloseList') <= Len(DelayedCloseList)
      /\ \A k \in DOMAIN DelayedCloseList' :
           /\ DelayedCloseList'[k] # f
           /\ \E m \in DOMAIN DelayedCloseList :
                DelayedCloseList'[k] = DelayedCloseList[m]
      /\ \A k, m \in DOMAIN DelayedCloseList' :
           DelayedCloseList'[k] = DelayedCloseList'[m] => k = m
  <2> DEFINE rest == Without(DelayedCloseList, f)
  <2>1. /\ rest \in Seq(Users) /\ Len(rest) <= Len(DelayedCloseList)
        /\ \A k \in DOMAIN rest : /\ rest[k] # f
                                  /\ \E m \in DOMAIN DelayedCloseList :
                                       rest[k] = DelayedCloseList[m]
        /\ \A k, m \in DOMAIN rest : rest[k] = rest[m] => k = m
    BY <1>t, Removed
  <2>2. DelayedCloseList' = rest
    BY <1>1
  <2> HIDE DEF rest
  <2>3. QED
    BY <2>1, <2>2
<1>5. AsyncCloseList' # <<>> => AsyncCloseList # <<>>
  <2>1. AsyncCloseList \in Seq(Files)
    BY DEF Core, TypeOK
  <2>2. QED
    BY <1>3, <2>1, EmptySeq
<1>6. Lists'
  <2>1. /\ \A k \in DOMAIN AsyncCloseList : /\ AsyncCloseList[k] \in Files
                                            /\ state[AsyncCloseList[k]] = "queued"
        /\ \A k \in DOMAIN DelayedCloseList :
             /\ DelayedCloseList[k] \in Files
             /\ state[DelayedCloseList[k]] = "queued"
    BY ElementOfSeq, Constants DEF Core, TypeOK, Lists, EntriesOf
  <2>2. \A k \in DOMAIN AsyncCloseList' : state'[AsyncCloseList'[k]] = "queued"
    BY <1>2, <1>3, <2>1
  <2>3. \A k \in DOMAIN DelayedCloseList' : state'[DelayedCloseList'[k]] = "queued"
    BY <1>2, <1>4, <2>1
  <2>4. \A k \in DOMAIN AsyncCloseList', m \in DOMAIN DelayedCloseList' :
          AsyncCloseList'[k] # DelayedCloseList'[m]
    BY <1>3, <1>4 DEF Core, Lists
  <2>5. QED
    BY <1>3, <1>4, <2>2, <2>3, <2>4 DEF Lists, EntriesOf
<1>7. CountsAreExact' /\ HasFcb'
  <2>1. \A g \in Files : /\ Referenced(g)' <=> Referenced(g)
                         /\ state'[g] \in {"global", "check"} <=>
                              state[g] \in {"global", "check"}
    BY <1>2 DEF Referenced
  <2>2. QED
    BY <2>1, CountsKept DEF Core
<1>8. Holders'
  <2>1. \A g \in Files : state'[g] = "dismount" <=> state[g] = "dismount"
    BY <1>2
  <2>2. QED
    BY <2>1, HoldersKept DEF Core
<1>9. VolumeOutlivesFiles'
  <2>1. \A g \in Files : state[g] = "none" =>
          state'[g] = "none" \/ condition[VolOf[g]] # "deleted"
    BY <1>2
  <2>2. \A v \in Vols : Free(v) => Free(v)'
    BY DEF Free
  <2>3. QED
    BY <2>1, <2>2, DeletedKept DEF Core
<1>10. QED
  BY <1>2, <1>3, <1>4, <1>5, <1>6, <1>7, <1>8, <1>9

-----------------------------------------------------------------------------
(* The steps.                                                              *)

(* A file object is opened on its way to the volume, cleaned up, and its   *)
(* close is started, posted or waits for the global resource.              *)
LEMMA MoveSteps ==
  ASSUME Core, Unmounted, NEW f \in Files,
         \/ CreateEnRoute(f) \/ Cleanup(f) \/ CommonClosePends(f)
         \/ AcquireGlobal(f) \/ PassDelayClose(f)
         \/ \E call \in Calls : FsdClose(f, call)
  PROVE  Core'
<1>0. VolOf[f] \in Vols
  BY Constants
<1>1. CASE CreateEnRoute(f)
  <2>1. /\ state' = [state EXCEPT ![f] = "enroute"] /\ state[f] = "none"
        /\ VolOf[f] \in mounted
        /\ UNCHANGED <<FcbOf, DelayClose, OpenCount, listVars, highVars,
                       workerVars, volumeVars, lockVars, shutdownVars>>
    BY <1>1 DEF CreateEnRoute, MoveTo
  <2>d. condition[VolOf[f]] # "deleted"
    BY <1>0, <2>1 DEF Unmounted
  <2>2. /\ CountsAreExact' /\ HasFcb' /\ Hands' /\ Holders' /\ Lists' /\ Flag'
        /\ VolumeOutlivesFiles' /\ state' \in [Files -> States]
    BY <2>1, <2>d, Moved DEF States, listVars, workerVars, volumeVars, lockVars
  <2>3. TypeOK'
    BY <2>1, <2>2 DEF Core, TypeOK, listVars, highVars, workerVars, volumeVars,
       lockVars, shutdownVars
  <2>4. QED
    BY <2>2, <2>3 DEF Core
<1>2. CASE Cleanup(f)
  <2>1. /\ state' = [state EXCEPT ![f] = "clean"] /\ state[f] = "open"
        /\ f \in Users
        /\ UNCHANGED <<FcbOf, OpenCount, listVars, highVars,
                       workerVars, volumeVars, lockVars, shutdownVars>>
    BY <1>2 DEF Cleanup, MoveTo
  <2>2. /\ CountsAreExact' /\ HasFcb' /\ Hands' /\ Holders' /\ Lists' /\ Flag'
        /\ VolumeOutlivesFiles' /\ state' \in [Files -> States]
    BY <2>1, Moved DEF States, listVars, workerVars, volumeVars, lockVars
  <2>3. DelayClose' \in [Fcbs -> BOOLEAN]
    <3>1. PICK delay \in BOOLEAN :
            DelayClose' = [DelayClose EXCEPT ![FcbOf[f]] = @ \/ delay]
      BY <1>2 DEF Cleanup
    <3>2. (DelayClose[FcbOf[f]] \/ delay) \in BOOLEAN
      OBVIOUS
    <3>3. QED
      BY <3>1, <3>2 DEF Core, TypeOK
  <2>4. TypeOK'
    BY <2>1, <2>2, <2>3 DEF Core, TypeOK, listVars, highVars, workerVars,
       volumeVars, lockVars, shutdownVars
  <2>5. QED
    BY <2>2, <2>4 DEF Core
<1>3. CASE CommonClosePends(f)
  <2>1. /\ state' = [state EXCEPT ![f] = "post"] /\ state[f] \in {"try", "nested"}
        /\ UNCHANGED <<FcbOf, DelayClose, OpenCount, listVars, highVars,
                       workerVars, volumeVars, lockVars, shutdownVars>>
    BY <1>3 DEF CommonClosePends, MoveTo
  <2>2. /\ CountsAreExact' /\ HasFcb' /\ Hands' /\ Holders' /\ Lists' /\ Flag'
        /\ VolumeOutlivesFiles' /\ state' \in [Files -> States]
    BY <2>1, Moved DEF States, listVars, workerVars, volumeVars, lockVars
  <2>3. TypeOK'
    BY <2>1, <2>2 DEF Core, TypeOK, listVars, highVars, workerVars, volumeVars,
       lockVars, shutdownVars
  <2>4. QED
    BY <2>2, <2>3 DEF Core
<1>4. CASE AcquireGlobal(f)
  <2>1. /\ state' = [state EXCEPT ![f] = "check"] /\ state[f] = "global"
        /\ global' = f
        /\ UNCHANGED <<FcbOf, DelayClose, OpenCount, listVars, highVars,
                       workerVars, volumeVars, vcb, hand, shutdownVars>>
    BY <1>4 DEF AcquireGlobal, MoveTo
  <2>2. /\ CountsAreExact' /\ HasFcb' /\ Hands' /\ Holders' /\ Lists' /\ Flag'
        /\ VolumeOutlivesFiles' /\ state' \in [Files -> States]
    BY <2>1, Moved DEF States, listVars, workerVars, volumeVars
  <2>3. TypeOK'
    BY <2>1, <2>2 DEF Core, TypeOK, listVars, highVars, workerVars, volumeVars,
       lockVars, shutdownVars
  <2>4. QED
    BY <2>2, <2>3 DEF Core
<1>5. CASE \E call \in Calls : FsdClose(f, call)
  <2>1. PICK s \in Calls \cup {"post"} : state' = [state EXCEPT ![f] = s]
    BY <1>5 DEF FsdClose, MoveTo
  <2>2. /\ state[f] = "clean"
        /\ UNCHANGED <<FcbOf, DelayClose, OpenCount, listVars, highVars,
                       workerVars, volumeVars, lockVars, shutdownVars>>
    BY <1>5 DEF FsdClose
  <2>3. s \in States /\ s \in {"wait", "try", "nested", "post"}
    BY DEF States, Calls
  <2>4. /\ CountsAreExact' /\ HasFcb' /\ Hands' /\ Holders' /\ Lists' /\ Flag'
        /\ VolumeOutlivesFiles' /\ state' \in [Files -> States]
    BY <2>1, <2>2, <2>3, Moved DEF listVars, workerVars, volumeVars, lockVars
  <2>5. TypeOK'
    BY <2>2, <2>4 DEF Core, TypeOK, listVars, highVars, workerVars, volumeVars,
       lockVars, shutdownVars
  <2>6. QED
    BY <2>4, <2>5 DEF Core
<1>6. CASE PassDelayClose(f)
  <2>1. PICK s \in {"delay", "async"} : state' = [state EXCEPT ![f] = s]
    BY <1>6 DEF PassDelayClose, MoveTo
  <2>2. /\ state[f] = "post"
        /\ UNCHANGED <<FcbOf, DelayClose, OpenCount, listVars, highVars,
                       workerVars, volumeVars, lockVars, shutdownVars>>
    BY <1>6 DEF PassDelayClose
  <2>3. s \in States
    BY DEF States
  <2>4. /\ CountsAreExact' /\ HasFcb' /\ Hands' /\ Holders' /\ Lists' /\ Flag'
        /\ VolumeOutlivesFiles' /\ state' \in [Files -> States]
    BY <2>1, <2>2, <2>3, Moved DEF listVars, workerVars, volumeVars, lockVars
  <2>5. TypeOK'
    BY <2>2, <2>4 DEF Core, TypeOK, listVars, highVars, workerVars, volumeVars,
       lockVars, shutdownVars
  <2>6. QED
    BY <2>4, <2>5 DEF Core
<1>7. QED
  BY <1>1, <1>2, <1>3, <1>4, <1>5, <1>6

(* A create finds the volume good and counts the file object, or fails.    *)
LEMMA CreateSteps ==
  ASSUME Core, NEW f \in Files, NEW c \in Fcbs, Create(f, c)
  PROVE  Core'
<1> DEFINE v == VolOf[f]
<1>0. v \in Vols /\ f \in Users
  BY Constants DEF Create
<1>1. /\ state[f] = "enroute" /\ c \in Opens[f] /\ vcb[v] = Nobody
      /\ UNCHANGED <<listVars, highVars, workerVars, InternalOpenCount,
                     CloseInProgress, condition, mounted, lockVars,
                     shutdownVars>>
  BY DEF Create, Free
<1>2. CASE /\ condition[v] = "bad" /\ MoveTo(f, "none")
           /\ UNCHANGED <<FcbOf, OpenFileCount, OpenCount, DelayClose>>
  <2>1. /\ CountsAreExact' /\ HasFcb' /\ Hands' /\ Holders' /\ Lists' /\ Flag'
        /\ VolumeOutlivesFiles' /\ state' \in [Files -> States]
    BY <1>1, <1>2, Moved
    DEF MoveTo, States, listVars, workerVars, volumeVars, lockVars
  <2>2. TypeOK'
    BY <1>1, <1>2, <2>1
    DEF Core, TypeOK, listVars, highVars, workerVars, volumeVars,
       lockVars, shutdownVars
  <2>3. QED
    BY <2>1, <2>2 DEF Core
<1>3. CASE /\ condition[v] = "good"
           /\ MoveTo(f, "open")
           /\ FcbOf' = [FcbOf EXCEPT ![f] = c]
           /\ OpenFileCount' = [OpenFileCount EXCEPT ![v] = @ + 1]
           /\ OpenCount' = [OpenCount EXCEPT ![c] = @ + 1]
           /\ DelayClose' = [DelayClose EXCEPT ![c] = FALSE]
  <2>c. /\ VolOf \in [Files -> Vols] /\ NoFcb \notin Fcbs /\ Users \cap Streams = {}
        /\ Files = Users \cup Streams
    BY Constants
  <2>1. /\ state \in [Files -> States] /\ FcbOf \in [Users -> Fcbs \cup {NoFcb}]
        /\ DelayClose \in [Fcbs -> BOOLEAN]
        /\ OpenCount \in [Fcbs -> Nat] /\ OpenFileCount \in [Vols -> Nat]
    BY DEF Core, TypeOK
  <2>2. /\ state' \in [Files -> States] /\ state'[f] = "open"
        /\ \A g \in Files : g # f => state'[g] = state[g]
    BY <1>3, <2>1 DEF MoveTo, States
  <2>3. /\ Referenced(f)' /\ ~Referenced(f)
        /\ \A g \in Files : g # f => Referenced(g)' = Referenced(g)
        /\ \A g \in Files : state'[g] \in {"global", "check"} <=>
                              state[g] \in {"global", "check"}
    BY <1>1, <2>2 DEF Referenced
  <2>4. /\ FcbOf' \in [Users -> Fcbs \cup {NoFcb}] /\ FcbOf'[f] = c
        /\ \A g \in Users : g # f => FcbOf'[g] = FcbOf[g]
    BY <1>0, <1>3, <2>1
  <2> HIDE DEF v
  <2>5. /\ OpenUsers(v)' = OpenUsers(v) \cup {f} /\ f \notin OpenUsers(v)
        /\ \A u \in Vols : u # v => OpenUsers(u)' = OpenUsers(u)
        /\ \A u \in Vols : /\ OpenInternals(u)' = OpenInternals(u)
                           /\ Biased(u)' = Biased(u)
    BY <1>0, <2>c, <2>3 DEF OpenUsers, OpenInternals, Biased, On, v
  <2>6. /\ FilesOf(c)' = FilesOf(c) \cup {f} /\ f \notin FilesOf(c)
        /\ \A d \in Fcbs : d # c => FilesOf(d)' = FilesOf(d)
    <3>1. f \in FilesOf(c)' /\ \A d : f \notin FilesOf(d)
      BY <1>0, <2>3, <2>4 DEF FilesOf
    <3>2. \A g : g # f => \A d : g \in FilesOf(d)' <=> g \in FilesOf(d)
      BY <2>c, <2>3, <2>4 DEF FilesOf
    <3>3. \A d : d # c => f \notin FilesOf(d)'
      BY <2>4 DEF FilesOf
    <3>4. FilesOf(c)' = FilesOf(c) \cup {f}
      BY <3>1, <3>2
    <3>5. ASSUME NEW d \in Fcbs, d # c
          PROVE  FilesOf(d)' = FilesOf(d)
      BY <3>1, <3>2, <3>3, <3>5
    <3>6. QED
      BY <3>1, <3>4, <3>5
  <2>7. /\ Cardinality(OpenUsers(v)') = Cardinality(OpenUsers(v)) + 1
        /\ Cardinality(FilesOf(c)') = Cardinality(FilesOf(c)) + 1
    BY <2>5, <2>6, Counted, OneMore
  <2>8. /\ \A u \in Vols : /\ Cardinality(OpenUsers(u)) \in Nat
                           /\ Cardinality(Biased(u)) \in Nat
        /\ \A d \in Fcbs : Cardinality(FilesOf(d)) \in Nat
    BY Counted, SubsetIsFinite
  <2>9. /\ \A u \in Vols :
             OpenFileCount[u] = Cardinality(OpenUsers(u)) + Cardinality(Biased(u))
        /\ \A u \in Vols : InternalOpenCount[u] = Cardinality(OpenInternals(u))
        /\ \A d \in Fcbs : OpenCount[d] = Cardinality(FilesOf(d))
    BY DEF Core, CountsAreExact
  <2>10. /\ OpenFileCount' \in [Vols -> Nat] /\ OpenCount' \in [Fcbs -> Nat]
         /\ OpenFileCount'[v] = OpenFileCount[v] + 1
         /\ \A u \in Vols : u # v => OpenFileCount'[u] = OpenFileCount[u]
         /\ OpenCount'[c] = OpenCount[c] + 1
         /\ \A d \in Fcbs : d # c => OpenCount'[d] = OpenCount[d]
         /\ DelayClose' \in [Fcbs -> BOOLEAN]
    BY <1>0, <1>3, <2>1
  <2>11. ASSUME NEW u \in Vols
         PROVE  /\ OpenFileCount'[u] =
                     Cardinality(OpenUsers(u)') + Cardinality(Biased(u)')
                /\ InternalOpenCount'[u] = Cardinality(OpenInternals(u)')
    <3>1. CASE u = v
      <4>1. OpenFileCount'[v] =
              Cardinality(OpenUsers(v)') + Cardinality(Biased(v)')
        BY <1>0, <2>5, <2>7, <2>8, <2>9, <2>10
      <4>2. QED
        BY <1>1, <2>5, <2>9, <2>11, <3>1, <4>1
    <3>2. CASE u # v
      BY <1>1, <2>5, <2>9, <2>10, <2>11, <3>2
    <3>3. QED
      BY <3>1, <3>2
  <2>12. \A d \in Fcbs : OpenCount'[d] = Cardinality(FilesOf(d)')
    BY <2>6, <2>7, <2>9, <2>10
  <2>13. CountsAreExact'
    BY <2>11, <2>12 DEF CountsAreExact
  <2>14. HasFcb'
    BY <1>0, <2>c, <2>3, <2>4 DEF Core, HasFcb
  <2>15. Lists'
    <3>1. \A g \in Files : state[g] = "queued" => state'[g] = "queued"
      BY <1>1, <2>2
    <3>2. QED
      BY <1>1, <3>1, ListsKept DEF Core, listVars
  <2>16. Hands'
    <3>1. \A g \in Files : state[g] = "held" => state'[g] = "held"
      BY <1>1, <2>2
    <3>2. \A w \in Workers : Takes(w)' => Takes(w)
      BY <1>1 DEF Takes, workerVars
    <3>3. QED
      BY <1>1, <3>1, <3>2, HandsKept DEF Core, lockVars, workerVars
  <2>17. Holders'
    <3>1. \A g \in Files : state'[g] = "dismount" <=> state[g] = "dismount"
      BY <1>1, <2>2
    <3>2. \A u \in Vols : vcb[u] \in Files \cup {Scanner} =>
            OpenFileCount'[u] = OpenFileCount[u]
      BY <1>1, <2>10, Constants DEF v
    <3>3. QED
      BY <1>1, <3>1, <3>2, HoldersKept DEF Core, lockVars, workerVars
  <2>18. Flag'
    BY <1>1, FlagKept DEF Core, workerVars
  <2>19. VolumeOutlivesFiles'
    <3>1. \A g \in Files : state[g] = "none" =>
            state'[g] = "none" \/ condition[VolOf[g]] # "deleted"
      BY <1>1, <2>2
    <3>2. \A u \in Vols : Free(u) => Free(u)'
      BY <1>1 DEF Free, lockVars
    <3>3. QED
      BY <1>1, <3>1, <3>2, DeletedKept DEF Core
  <2>20. TypeOK'
    BY <1>1, <2>2, <2>4, <2>10
    DEF Core, TypeOK, listVars, highVars, workerVars,
       lockVars, shutdownVars
  <2>21. QED
    BY <2>13, <2>14, <2>15, <2>16, <2>17, <2>18, <2>19, <2>20 DEF Core
<1>4. QED
  BY <1>2, <1>3 DEF Create

(* FatQueueClose puts the entry on one list, and it was on none.           *)
LEMMA QueueSteps ==
  ASSUME Core, DelaysUsers, NEW f \in Files, QueueClose(f)
  PROVE  Core'
<1> DEFINE delay == state[f] = "delay"
           delayed == Append(DelayedCloseList, f)
           async == Append(AsyncCloseList, f)
           start == ~AsyncCloseActive /\ (delay => Len(delayed) > MaxDelayed)
<1>1. /\ state' = [state EXCEPT ![f] = "queued"] /\ state[f] \in {"delay", "async"}
      /\ DelayedCloseList' = IF delay THEN delayed ELSE DelayedCloseList
      /\ AsyncCloseList' = IF delay THEN AsyncCloseList ELSE async
      /\ AsyncCloseActive' = (AsyncCloseActive \/ start)
      /\ FatCloseItem' = IF start THEN FatCloseItem + 1 ELSE FatCloseItem
      /\ UNCHANGED <<FcbOf, DelayClose, OpenCount, highVars, workerVars,
                     volumeVars, lockVars, shutdownVars>>
  BY DEF QueueClose, MoveTo
<1>2. /\ CountsAreExact' /\ HasFcb' /\ Hands' /\ Holders'
      /\ VolumeOutlivesFiles' /\ state' \in [Files -> States]
  BY <1>1, Moved DEF States, workerVars, volumeVars, lockVars
<1>3. /\ AsyncCloseList \in Seq(Files) /\ DelayedCloseList \in Seq(Users)
      /\ AsyncCloseActive \in BOOLEAN /\ MaxDelayed \in Nat
      /\ Users \subseteq Files
      /\ state \in [Files -> States]
  BY Constants DEF Core, TypeOK
<1>4. /\ state'[f] = "queued"
      /\ \A g \in Files : g # f => state'[g] = state[g]
  BY <1>1, <1>3 DEF Core, TypeOK
<1>5. /\ \A k \in DOMAIN AsyncCloseList :
           /\ AsyncCloseList[k] \in Files /\ AsyncCloseList[k] # f
           /\ state[AsyncCloseList[k]] = "queued"
      /\ \A k \in DOMAIN DelayedCloseList :
           /\ DelayedCloseList[k] \in Files /\ DelayedCloseList[k] # f
           /\ state[DelayedCloseList[k]] = "queued"
  <2>1. /\ \A k \in DOMAIN AsyncCloseList : AsyncCloseList[k] \in Files
        /\ \A k \in DOMAIN DelayedCloseList : DelayedCloseList[k] \in Files
    BY <1>3, ElementOfSeq
  <2>2. /\ \A k \in DOMAIN AsyncCloseList : state[AsyncCloseList[k]] = "queued"
        /\ \A k \in DOMAIN DelayedCloseList : state[DelayedCloseList[k]] = "queued"
    BY DEF Core, Lists, EntriesOf
  <2>3. QED
    BY <1>1, <2>1, <2>2
<1>6. /\ \A k, m \in DOMAIN AsyncCloseList :
           AsyncCloseList[k] = AsyncCloseList[m] => k = m
      /\ \A k, m \in DOMAIN DelayedCloseList :
           DelayedCloseList[k] = DelayedCloseList[m] => k = m
      /\ \A k \in DOMAIN AsyncCloseList, m \in DOMAIN DelayedCloseList :
           AsyncCloseList[k] # DelayedCloseList[m]
  BY DEF Core, Lists, EntriesOf
<1>7. /\ ~AsyncCloseActive => FatCloseItem = 0 /\ Running = {}
      /\ AsyncCloseActive => \/ FatCloseItem = 1 /\ Running = {}
                             \/ FatCloseItem = 0 /\ \E w \in Workers : Running = {w}
      /\ AsyncCloseList # <<>> \/ Len(DelayedCloseList) > MaxDelayed => AsyncCloseActive
      /\ Running' = Running
  BY <1>1 DEF Core, Flag, Running, workerVars
<1>8. ASSUME NEW S, NEW list \in Seq(S), f \in S
      PROVE  /\ Append(list, f) \in Seq(S) /\ Len(Append(list, f)) = Len(list) + 1
             /\ DOMAIN list = 1 .. Len(list)
             /\ DOMAIN Append(list, f) = 1 .. Len(list) + 1
             /\ Append(list, f)[Len(list) + 1] = f
             /\ \A k \in DOMAIN list : Append(list, f)[k] = list[k]
  BY <1>8, AppendProperties
<1>9. Lists' /\ AsyncCloseList' \in Seq(Files) /\ DelayedCloseList' \in Seq(Users)
  <2>1. CASE delay
    <3>1. /\ AsyncCloseList' = AsyncCloseList /\ DelayedCloseList' = delayed
          /\ f \in Users
      BY <1>1, <2>1, Constants DEF DelaysUsers
    <3>2. /\ delayed \in Seq(Users) /\ Len(delayed) = Len(DelayedCloseList) + 1
          /\ DOMAIN DelayedCloseList = 1 .. Len(DelayedCloseList)
          /\ Len(DelayedCloseList) \in Nat
          /\ DOMAIN delayed = 1 .. Len(DelayedCloseList) + 1
          /\ delayed[Len(DelayedCloseList) + 1] = f
          /\ \A k \in DOMAIN DelayedCloseList : delayed[k] = DelayedCloseList[k]
      BY <1>3, <1>8, <3>1, LenProperties
    <3> HIDE DEF delayed
    <3>3. \A k \in DOMAIN delayed :
            \/ k \in DOMAIN DelayedCloseList
            \/ delayed[k] = f /\ k = Len(DelayedCloseList) + 1
      BY <3>2
    <3>4. \A k \in DOMAIN delayed : state'[delayed[k]] = "queued"
      BY <1>4, <1>5, <3>2, <3>3
    <3>5. \A k, m \in DOMAIN delayed : delayed[k] = delayed[m] => k = m
      BY <1>5, <1>6, <3>2, <3>3
    <3>6. \A k \in DOMAIN AsyncCloseList, m \in DOMAIN delayed :
            AsyncCloseList[k] # delayed[m]
      BY <1>5, <1>6, <3>2, <3>3
    <3>7. \A k \in DOMAIN AsyncCloseList : state'[AsyncCloseList[k]] = "queued"
      BY <1>4, <1>5
    <3>8. QED
      BY <1>3, <1>6, <3>1, <3>2, <3>4, <3>5, <3>6, <3>7 DEF Lists, EntriesOf
  <2>2. CASE ~delay
    <3>1. AsyncCloseList' = async /\ DelayedCloseList' = DelayedCloseList
      BY <1>1, <2>2
    <3>2. /\ async \in Seq(Files) /\ Len(async) = Len(AsyncCloseList) + 1
          /\ DOMAIN AsyncCloseList = 1 .. Len(AsyncCloseList)
          /\ Len(AsyncCloseList) \in Nat
          /\ DOMAIN async = 1 .. Len(AsyncCloseList) + 1
          /\ async[Len(AsyncCloseList) + 1] = f
          /\ \A k \in DOMAIN AsyncCloseList : async[k] = AsyncCloseList[k]
      BY <1>3, <1>8, LenProperties
    <3> HIDE DEF async
    <3>3. \A k \in DOMAIN async :
            \/ k \in DOMAIN AsyncCloseList
            \/ async[k] = f /\ k = Len(AsyncCloseList) + 1
      BY <3>2
    <3>4. \A k \in DOMAIN async : state'[async[k]] = "queued"
      BY <1>4, <1>5, <3>2, <3>3
    <3>5. \A k, m \in DOMAIN async : async[k] = async[m] => k = m
      BY <1>5, <1>6, <3>2, <3>3
    <3>6. \A k \in DOMAIN async, m \in DOMAIN DelayedCloseList :
            async[k] # DelayedCloseList[m]
      BY <1>5, <1>6, <3>2, <3>3
    <3>7. \A k \in DOMAIN DelayedCloseList : state'[DelayedCloseList[k]] = "queued"
      BY <1>4, <1>5
    <3>8. QED
      BY <1>3, <1>6, <3>1, <3>2, <3>4, <3>5, <3>6, <3>7 DEF Lists, EntriesOf
  <2>3. QED
    BY <2>1, <2>2
<1>10. Flag' /\ FatCloseItem' \in {0, 1} /\ AsyncCloseActive' \in BOOLEAN
  <2>1. CASE AsyncCloseActive
    <3>1. AsyncCloseActive' = TRUE /\ FatCloseItem' = FatCloseItem
      BY <1>1, <2>1
    <3>2. QED
      BY <1>7, <2>1, <3>1 DEF Flag
  <2>2. CASE ~AsyncCloseActive /\ start
    <3>1. AsyncCloseActive' = TRUE /\ FatCloseItem' = FatCloseItem + 1
      BY <1>1, <2>2
    <3>2. FatCloseItem = 0 /\ Running = {}
      BY <1>7, <2>2
    <3>3. QED
      BY <1>7, <3>1, <3>2 DEF Flag
  <2>3. CASE ~AsyncCloseActive /\ ~start
    <3>1. AsyncCloseActive' = FALSE /\ FatCloseItem' = FatCloseItem
      BY <1>1, <2>3
    <3>2. delay /\ ~(Len(delayed) > MaxDelayed)
      BY <2>3
    <3>3. AsyncCloseList' = AsyncCloseList /\ ~(Len(DelayedCloseList') > MaxDelayed)
      BY <1>1, <3>2
    <3>4. QED
      BY <1>7, <2>3, <3>1, <3>3 DEF Flag
  <2>4. QED
    BY <2>1, <2>2, <2>3
<1>11. TypeOK'
  BY <1>1, <1>2, <1>9, <1>10
  DEF Core, TypeOK, highVars, workerVars, volumeVars,
     lockVars, shutdownVars
<1>12. QED
  BY <1>2, <1>9, <1>10, <1>11 DEF Core

(* FatCommonClose, with or without the reference it keeps on the volume.   *)
LEMMA CommonCloseSteps ==
  ASSUME Core, NEW f \in Files, CommonClose(f)
  PROVE  Core'
<1>1. /\ state[f] \in {"wait", "try", "nested"} /\ vcb[VolOf[f]] = Nobody
      /\ UNCHANGED <<listVars, highVars, workerVars, condition, mounted,
                     lockVars, shutdownVars>>
  BY DEF CommonClose, Calls, Free
<1>2. PICK bias \in {0, 1} :
        /\ CloseFile(f, bias)
        /\ state' = [state EXCEPT ![f] = IF bias = 0 THEN "none" ELSE "global"]
        /\ \/ CloseInProgress' = [CloseInProgress EXCEPT ![VolOf[f]] = TRUE]
           \/ UNCHANGED CloseInProgress
  <2>1. CASE ChecksForDismount(f)
    <3>1. /\ CloseFile(f, 1) /\ state' = [state EXCEPT ![f] = "global"]
          /\ CloseInProgress' = [CloseInProgress EXCEPT ![VolOf[f]] = TRUE]
      BY <2>1 DEF CommonClose, MoveTo
    <3>2. QED
      BY <3>1
  <2>2. CASE ~ChecksForDismount(f)
    <3>1. /\ CloseFile(f, 0) /\ state' = [state EXCEPT ![f] = "none"]
          /\ UNCHANGED CloseInProgress
      BY <2>2 DEF CommonClose, MoveTo
    <3>2. QED
      BY <3>1
  <2>3. QED
    BY <2>1, <2>2
<1> DEFINE s == IF bias = 0 THEN "none" ELSE "global"
<1>3. Referenced(f) /\ state[f] \notin {"none", "queued", "held", "dismount"}
  BY <1>1 DEF Referenced
<1>4. /\ CountsAreExact' /\ HasFcb' /\ state' \in [Files -> States]
      /\ FcbOf' \in [Users -> Fcbs \cup {NoFcb}]
      /\ DelayClose' \in [Fcbs -> BOOLEAN] /\ OpenCount' \in [Fcbs -> Nat]
      /\ OpenFileCount' \in [Vols -> Nat] /\ InternalOpenCount' \in [Vols -> Nat]
  <2>1. state' = [state EXCEPT ![f] = s]
    BY <1>2
  <2>2. QED
    BY <1>2, <1>3, <2>1, Closed
<1>5. /\ state'[f] = s /\ s \in {"none", "global"}
      /\ \A g \in Files : g # f => state'[g] = state[g]
  BY <1>2 DEF Core, TypeOK
<1> HIDE DEF s
<1>6. Lists'
  <2>1. \A g \in Files : state[g] = "queued" => state'[g] = "queued"
    BY <1>3, <1>5
  <2>2. QED
    BY <1>1, <2>1, ListsKept DEF Core, listVars
<1>7. Hands'
  <2>1. \A g \in Files : state[g] = "held" => state'[g] = "held"
    BY <1>3, <1>5
  <2>2. \A w \in Workers : Takes(w)' => Takes(w)
    BY <1>1 DEF Takes, workerVars
  <2>3. QED
    BY <1>1, <2>1, <2>2, HandsKept DEF Core, lockVars, workerVars
<1>8. Holders'
  <2>1. \A g \in Files : state'[g] = "dismount" <=> state[g] = "dismount"
    BY <1>3, <1>5
  <2>2. \A u \in Vols : vcb[u] \in Files \cup {Scanner} => u # VolOf[f]
    BY <1>1, Constants
  <2>3. \A u \in Vols : u # VolOf[f] => OpenFileCount'[u] = OpenFileCount[u]
    BY <1>2 DEF CloseFile, Core, TypeOK
  <2>4. QED
    BY <1>1, <2>1, <2>2, <2>3, HoldersKept DEF Core, lockVars, workerVars
<1>9. Flag'
  BY <1>1, FlagKept DEF Core, workerVars
<1>10. VolumeOutlivesFiles'
  <2>1. \A g \in Files : state[g] = "none" =>
          state'[g] = "none" \/ condition[VolOf[g]] # "deleted"
    BY <1>3, <1>5
  <2>2. \A u \in Vols : Free(u) => Free(u)'
    BY <1>1 DEF Free, lockVars
  <2>3. QED
    BY <1>1, <2>1, <2>2, DeletedKept DEF Core
<1>11. CloseInProgress' \in [Vols -> BOOLEAN]
  BY <1>2 DEF Core, TypeOK
<1>12. TypeOK'
  BY <1>1, <1>4, <1>11 DEF Core, TypeOK, listVars, highVars, workerVars,
     lockVars, shutdownVars
<1>13. QED
  BY <1>4, <1>6, <1>7, <1>8, <1>9, <1>10, <1>12 DEF Core

(* A close that was taken from a list is done: the volume is not amid a    *)
(* deletion, or the file is none of its users.                             *)
LEMMA HeldIsClosed ==
  ASSUME Core, NEW f \in Files, state[f] = "held", CloseFile(f, 0),
         state' = [state EXCEPT ![f] = "none"],
         UNCHANGED <<listVars, highVars, CurrentVcb, CloseInProgress, condition,
                     mounted, vcb, global, shutdownVars>>
  PROVE  /\ CountsAreExact' /\ HasFcb' /\ Lists' /\ Holders'
         /\ VolumeOutlivesFiles'
         /\ hand' \in [Vols -> Files \cup {NoFile}]
            /\ wpc' \in [Workers -> {"idle", "remove", "lock", "close", "end"}]
            /\ wctx' \in [Workers -> Files \cup {NoFile}] => TypeOK'
         /\ \A g \in Files : g # f => state'[g] = state[g]
<1>1. Referenced(f)
  BY DEF Referenced
<1>2. /\ CountsAreExact' /\ HasFcb' /\ state' \in [Files -> States]
      /\ FcbOf' \in [Users -> Fcbs \cup {NoFcb}]
      /\ DelayClose' \in [Fcbs -> BOOLEAN] /\ OpenCount' \in [Fcbs -> Nat]
      /\ OpenFileCount' \in [Vols -> Nat] /\ InternalOpenCount' \in [Vols -> Nat]
  <2> DEFINE s == IF 0 = 0 THEN "none" ELSE "global"
  <2>1. state' = [state EXCEPT ![f] = s] /\ 0 \in {0, 1}
    OBVIOUS
  <2>2. QED
    BY <1>1, <2>1, Closed
<1>3. /\ state'[f] = "none"
      /\ \A g \in Files : g # f => state'[g] = state[g]
  BY DEF Core, TypeOK
<1>4. Lists'
  <2>1. \A g \in Files : state[g] = "queued" => state'[g] = "queued"
    BY <1>3
  <2>2. QED
    BY <2>1, ListsKept DEF Core, listVars
<1>5. Holders'
  <2>1. \A g \in Files : state'[g] = "dismount" <=> state[g] = "dismount"
    BY <1>3
  <2>2. ASSUME NEW u \in Vols, vcb[u] \in Files \cup {Scanner}
        PROVE  OpenFileCount'[u] = OpenFileCount[u]
    <3>1. OpenFileCount \in [Vols -> Nat] /\ VolOf[f] \in Vols
      BY Constants DEF Core, TypeOK
    <3>2. CASE u # VolOf[f]
      BY <3>1, <3>2 DEF CloseFile
    <3>3. CASE u = VolOf[f] /\ f \in Users
      <4>1. f \in OpenUsers(u)
        BY <1>1, <3>3 DEF OpenUsers, On
      <4>2. Cardinality(OpenUsers(u)) > 0
        BY <4>1, Counted, OneLess
      <4>3. Cardinality(OpenUsers(u)) \in Nat /\ Cardinality(Biased(u)) \in Nat
        BY Counted, SubsetIsFinite
      <4>4. OpenFileCount[u] = Cardinality(OpenUsers(u)) + Cardinality(Biased(u))
        BY DEF Core, CountsAreExact
      <4>5. OpenFileCount[u] = 0
        BY <2>2 DEF Core, Holders
      <4>6. QED
        BY <4>2, <4>3, <4>4, <4>5
    <3>4. CASE u = VolOf[f] /\ f \notin Users
      <4>1. OpenFileCount' = [OpenFileCount EXCEPT ![u] = @ + 0]
        BY <3>4 DEF CloseFile
      <4>2. QED
        BY <3>1, <4>1
    <3>5. QED
      BY <3>2, <3>3, <3>4
  <2>3. QED
    BY <2>1, <2>2, HoldersKept DEF Core
<1>6. VolumeOutlivesFiles'
  <2>1. \A g \in Files : state[g] = "none" =>
          state'[g] = "none" \/ condition[VolOf[g]] # "deleted"
    BY <1>3
  <2>2. \A u \in Vols : Free(u) => Free(u)'
    BY DEF Free
  <2>3. QED
    BY <2>1, <2>2, DeletedKept DEF Core
<1>7. hand' \in [Vols -> Files \cup {NoFile}]
      /\ wpc' \in [Workers -> {"idle", "remove", "lock", "close", "end"}]
      /\ wctx' \in [Workers -> Files \cup {NoFile}] => TypeOK'
  BY <1>2 DEF Core, TypeOK, listVars, highVars, shutdownVars
<1>8. QED
  BY <1>2, <1>3, <1>4, <1>5, <1>6, <1>7

LEMMA HandSteps ==
  ASSUME Core, NEW v \in Vols, CloseInHand(v)
  PROVE  Core'
<1>1. PICK f \in Files : f = hand[v]
  BY DEF CloseInHand, Core, TypeOK
<1>2. /\ CloseFile(f, 0) /\ state' = [state EXCEPT ![f] = "none"]
      /\ hand' = [hand EXCEPT ![v] = NoFile]
      /\ UNCHANGED <<listVars, highVars, workerVars,
                     CloseInProgress, condition, mounted, vcb, global,
                     shutdownVars>>
  BY <1>1 DEF CloseInHand, MoveTo
<1>3. state[f] = "held" /\ VolOf[f] = v
  BY <1>1, Constants DEF Core, Hands
<1>4. /\ hand \in [Vols -> Files \cup {NoFile}]
      /\ hand' \in [Vols -> Files \cup {NoFile}] /\ hand'[v] = NoFile
      /\ \A u \in Vols : u # v => hand'[u] = hand[u]
      /\ wpc' \in [Workers -> {"idle", "remove", "lock", "close", "end"}]
      /\ wctx' \in [Workers -> Files \cup {NoFile}]
      /\ UNCHANGED <<wpc, wctx, CurrentVcb>>
  BY <1>2 DEF Core, TypeOK, workerVars
<1>5. /\ CountsAreExact' /\ HasFcb' /\ Lists' /\ Holders'
      /\ VolumeOutlivesFiles' /\ TypeOK'
      /\ \A g \in Files : g # f => state'[g] = state[g]
  BY <1>2, <1>3, <1>4, HeldIsClosed
<1>6. Flag'
  BY <1>2, <1>4, FlagKept DEF Core
<1>7. Hands'
  <2>1. \A u \in Vols : hand[u] # NoFile =>
          state[hand[u]] = "held" /\ VolOf[hand[u]] = u
    BY DEF Core, Hands
  <2>2. \A u \in Vols : hand'[u] # NoFile =>
          /\ hand'[u] = hand[u] /\ hand[u] \in Files /\ hand[u] # f
    BY <1>3, <1>4, <2>1
  <2>3. \A u \in Vols : hand'[u] # NoFile =>
          state'[hand'[u]] = "held" /\ VolOf[hand'[u]] = u
    BY <1>5, <2>1, <2>2
  <2>4. \A w \in Workers : Takes(w)' <=> Takes(w)
    BY <1>4 DEF Takes
  <2>5. \A w \in Workers : Takes(w) =>
          /\ wctx[w] \in Files /\ state[wctx[w]] = "held" /\ wctx[w] # f
          /\ \A u \in Vols : wctx[w] # hand[u]
    BY <1>1 DEF Core, Hands
  <2>6. \A w, u \in Workers : Takes(w) /\ Takes(u) /\ wctx[w] = wctx[u] => w = u
    BY DEF Core, Hands
  <2>7. \A w \in Workers : Takes(w)' => wctx'[w] \in Files /\ state'[wctx'[w]] = "held"
    BY <1>4, <1>5, <2>4, <2>5
  <2>8. \A w \in Workers, u \in Vols : Takes(w)' => wctx'[w] # hand'[u]
    BY <1>4, <2>2, <2>4, <2>5, Constants
  <2>9. QED
    BY <1>4, <2>3, <2>4, <2>6, <2>7, <2>8 DEF Hands
<1>8. QED
  BY <1>5, <1>6, <1>7 DEF Core

LEMMA WorkerCloseSteps ==
  ASSUME Core, NEW w \in Workers, WorkerCloses(w)
  PROVE  Core'
<1>0. Takes(w)
  BY DEF WorkerCloses, Takes
<1>1. PICK f \in Files : f = wctx[w]
  BY <1>0 DEF Core, Hands
<1>2. /\ CloseFile(f, 0) /\ state' = [state EXCEPT ![f] = "none"]
      /\ wpc[w] = "close"
      /\ wctx' = [wctx EXCEPT ![w] = NoFile] /\ wpc' = [wpc EXCEPT ![w] = "remove"]
      /\ UNCHANGED <<listVars, highVars, CurrentVcb,
                     CloseInProgress, condition, mounted, lockVars,
                     shutdownVars>>
  BY <1>1 DEF WorkerCloses, MoveTo
<1>3. state[f] = "held"
  BY <1>0, <1>1 DEF Core, Hands
<1>4. /\ wpc' \in [Workers -> {"idle", "remove", "lock", "close", "end"}]
      /\ wctx' \in [Workers -> Files \cup {NoFile}]
      /\ hand' \in [Vols -> Files \cup {NoFile}]
      /\ wpc'[w] = "remove"
      /\ \A u \in Workers : u # w => wpc'[u] = wpc[u] /\ wctx'[u] = wctx[u]
      /\ UNCHANGED <<vcb, global, hand>>
  BY <1>2 DEF Core, TypeOK, lockVars
<1>5. /\ CountsAreExact' /\ HasFcb' /\ Lists' /\ Holders'
      /\ VolumeOutlivesFiles' /\ TypeOK'
      /\ \A g \in Files : g # f => state'[g] = state[g]
  BY <1>2, <1>3, <1>4, HeldIsClosed
<1>6. Flag'
  <2>1. \A u \in Workers : wpc'[u] \in {"remove", "lock", "close"} <=>
          wpc[u] \in {"remove", "lock", "close"}
    BY <1>2, <1>4
  <2>2. QED
    BY <1>2, <2>1, FlagKept DEF Core
<1>7. Hands'
  <2>1. \A u \in Vols : hand[u] # NoFile =>
          /\ hand[u] \in Files /\ hand[u] # f
          /\ state[hand[u]] = "held" /\ VolOf[hand[u]] = u
    BY <1>0, <1>1 DEF Core, Hands, TypeOK
  <2>2. \A u \in Vols : hand'[u] # NoFile =>
          state'[hand'[u]] = "held" /\ VolOf[hand'[u]] = u
    BY <1>4, <1>5, <2>1
  <2>3. \A u \in Workers : Takes(u)' => u # w /\ Takes(u) /\ wctx'[u] = wctx[u]
    BY <1>4 DEF Takes
  <2>4. \A u \in Workers : Takes(u) =>
          /\ wctx[u] \in Files /\ state[wctx[u]] = "held"
          /\ wctx[u] = f => u = w
          /\ \A x \in Vols : wctx[u] # hand[x]
    BY <1>0, <1>1 DEF Core, Hands
  <2>5. \A u \in Workers : Takes(u)' => wctx'[u] \in Files /\ state'[wctx'[u]] = "held"
    BY <1>5, <2>3, <2>4
  <2>6. \A u, x \in Workers : Takes(u)' /\ Takes(x)' /\ wctx'[u] = wctx'[x] => u = x
    BY <2>3 DEF Core, Hands
  <2>7. \A u \in Workers, x \in Vols : Takes(u)' => wctx'[u] # hand'[x]
    BY <1>4, <2>3, <2>4
  <2>8. QED
    BY <2>2, <2>5, <2>6, <2>7 DEF Hands
<1>8. QED
  BY <1>5, <1>6, <1>7 DEF Core

(* FatCheckForDismount begins the deletion: h is the thread of a close,    *)
(* whose reference on the volume was the last, or a scan.                  *)
LEMMA TornDown ==
  ASSUME Core, NEW v \in Vols, NEW now \in BOOLEAN,
         NEW h \in On(v) \cup {Scanner}, NEW st,
         vcb[v] = Nobody, condition[v] = "bad",
         h \in Files => state[h] = "check" /\ st = [state EXCEPT ![h] = "dismount"],
         h = Scanner => st = state,
         OpenFileCount[v] = IF h \in Files THEN 1 ELSE 0,
         OpenFileCount' = [OpenFileCount EXCEPT ![v] = 0],
         state' = TearDownVcb(v, now, st), StreamsClosed(v, now),
         vcb' = [vcb EXCEPT ![v] = h],
         global' \in {Nobody, Scanner, ShutsDown} \cup Files,
         mounted' \subseteq Vols,
         UNCHANGED <<FcbOf, DelayClose, OpenCount, listVars, highVars, workerVars,
                     CloseInProgress, condition, hand, shutdownVars>>
  PROVE  Core'
<1>c. /\ VolOf \in [Files -> Vols] /\ Users \cap Streams = {}
      /\ Files = Users \cup Streams /\ Scanner \notin Files
      /\ Nobody \notin Files /\ Nobody # Scanner /\ Nobody \notin Workers
  BY Constants
<1>0. h \in Files => VolOf[h] = v
  BY <1>c DEF On
<1>1. /\ state \in [Files -> States] /\ OpenFileCount \in [Vols -> Nat]
      /\ InternalOpenCount \in [Vols -> Nat]
      /\ vcb \in [Vols -> {Nobody, Flusher, Scanner} \cup Files \cup Workers]
  BY DEF Core, TypeOK
<1>s. \A g \in Files : st[g] = IF g = h THEN "dismount" ELSE state[g]
  <2>1. CASE h = Scanner
    BY <1>c, <2>1
  <2>2. CASE h \in Files
    BY <1>1, <2>2
  <2>3. QED
    BY <2>1, <2>2 DEF On
<1>t. /\ \A g \in Files : state'[g] =
           IF g \in Streams \cap On(v) /\ st[g] = "open"
           THEN IF now THEN "none" ELSE "clean" ELSE st[g]
      /\ state' = [g \in Files |-> state'[g]]
  BY DEF TearDownVcb
<1>u. h \in Files => state[h] # "open"
  OBVIOUS
<1>2. \A g \in Files :
        /\ g \in OpenStreams(v) => state[g] = "open" /\ g # h
        /\ g \in OpenStreams(v) /\ now => state'[g] = "none"
        /\ g \in OpenStreams(v) /\ ~now => state'[g] = "clean"
        /\ g \notin OpenStreams(v) /\ g # h => state'[g] = state[g]
        /\ g = h => state'[g] = "dismount" /\ g \notin OpenStreams(v)
  BY <1>s, <1>t, <1>u DEF OpenStreams
<1>3. state' \in [Files -> States]
  <2>1. \A g \in Files : state[g] \in States
    BY <1>1
  <2>2. {"none", "clean", "dismount"} \subseteq States
    BY DEF States
  <2>3. \A g \in Files : state'[g] \in States
    BY <1>s, <1>t, <2>1, <2>2
  <2>4. QED
    BY <1>t, <2>3
<1>4. \A g \in Files :
        /\ g \notin OpenStreams(v) => Referenced(g)' = Referenced(g)
        /\ g \in OpenStreams(v) => Referenced(g)
        /\ g \in OpenStreams(v) => (Referenced(g)' <=> ~now)
        /\ g # h => (state'[g] \in {"global", "check"} <=>
                     state[g] \in {"global", "check"})
        /\ g = h => state'[g] \notin {"global", "check"}
  BY <1>2 DEF Referenced
<1>5. /\ OpenStreams(v) \subseteq Streams \cap On(v)
      /\ OpenStreams(v) \subseteq OpenInternals(v)
  BY DEF OpenStreams, OpenInternals, Referenced
<1>6. /\ \A u \in Vols : OpenUsers(u)' = OpenUsers(u)
      /\ \A d \in Fcbs : FilesOf(d)' = FilesOf(d)
      /\ \A u \in Vols : u # v => OpenInternals(u)' = OpenInternals(u)
      /\ now => OpenInternals(v)' = OpenInternals(v) \ OpenStreams(v)
      /\ ~now => OpenInternals(v)' = OpenInternals(v)
  <2>1. \A g \in Users : g \in Files /\ Referenced(g)' = Referenced(g)
    BY <1>c, <1>4, <1>5
  <2>2. \A u \in Vols : OpenUsers(u)' = OpenUsers(u)
    BY <2>1 DEF OpenUsers, On
  <2>3. \A d \in Fcbs : FilesOf(d)' = FilesOf(d)
    BY <2>1 DEF FilesOf
  <2>4. \A u \in Vols : u # v => OpenInternals(u)' = OpenInternals(u)
    BY <1>c, <1>4, <1>5 DEF OpenInternals, On
  <2>5. now => OpenInternals(v)' = OpenInternals(v) \ OpenStreams(v)
    BY <1>c, <1>4, <1>5 DEF OpenInternals, On
  <2>6. ~now => OpenInternals(v)' = OpenInternals(v)
    BY <1>c, <1>4, <1>5 DEF OpenInternals, On
  <2>7. QED
    BY <2>2, <2>3, <2>4, <2>5, <2>6
<1>7. /\ \A u \in Vols : u # v => Biased(u)' = Biased(u)
      /\ h = Scanner => Biased(v)' = Biased(v)
      /\ h \in Files => Biased(v)' = Biased(v) \ {h} /\ h \in Biased(v)
  BY <1>c, <1>0, <1>4 DEF Biased, On
<1>8. /\ \A u \in Vols :
           /\ OpenFileCount[u] = Cardinality(OpenUsers(u)) + Cardinality(Biased(u))
           /\ InternalOpenCount[u] = Cardinality(OpenInternals(u))
           /\ Cardinality(OpenUsers(u)) \in Nat /\ Cardinality(Biased(u)) \in Nat
      /\ \A d \in Fcbs : OpenCount[d] = Cardinality(FilesOf(d))
  BY Counted, SubsetIsFinite DEF Core, CountsAreExact
<1>9. /\ OpenFileCount'[v] = 0
      /\ \A u \in Vols : u # v => OpenFileCount'[u] = OpenFileCount[u]
  BY <1>1
<1>10. /\ \A u \in Vols : u # v => InternalOpenCount'[u] = InternalOpenCount[u]
       /\ InternalOpenCount'[v] = IF now
            THEN InternalOpenCount[v] - Cardinality(OpenStreams(v))
            ELSE InternalOpenCount[v]
       /\ InternalOpenCount' = [u \in Vols |-> InternalOpenCount'[u]]
  BY <1>1 DEF StreamsClosed
<1>11. 0 = Cardinality(OpenUsers(v)') + Cardinality(Biased(v)')
  <2>1. CASE h = Scanner
    <3>1. Cardinality(OpenUsers(v)) + Cardinality(Biased(v)) = 0
      BY <1>c, <1>8, <2>1
    <3>2. QED
      BY <1>6, <1>7, <2>1, <3>1
  <2>2. CASE h \in Files
    <3>1. Cardinality(OpenUsers(v)) + Cardinality(Biased(v)) = 1
      BY <1>8, <2>2
    <3>2. Cardinality(Biased(v)') = Cardinality(Biased(v)) - 1
      BY <1>7, <2>2, Counted, OneLess
    <3>3. QED
      BY <1>6, <1>8, <3>1, <3>2
  <2>3. QED
    BY <2>1, <2>2 DEF On
<1>12. InternalOpenCount'[v] = Cardinality(OpenInternals(v)')
  <2>1. CASE now
    <3>1. Cardinality(OpenInternals(v)') =
            Cardinality(OpenInternals(v)) - Cardinality(OpenStreams(v))
      BY <1>5, <1>6, <2>1, Counted, ManyLess
    <3>2. QED
      BY <1>8, <1>10, <2>1, <3>1
  <2>2. CASE ~now
    BY <1>6, <1>8, <1>10, <2>2
  <2>3. QED
    BY <2>1, <2>2
<1>13. CountsAreExact'
  <2>1. ASSUME NEW u \in Vols
        PROVE  /\ OpenFileCount'[u] =
                    Cardinality(OpenUsers(u)') + Cardinality(Biased(u)')
               /\ InternalOpenCount'[u] = Cardinality(OpenInternals(u)')
    <3>1. CASE u = v
      BY <1>9, <1>11, <1>12, <3>1
    <3>2. CASE u # v
      BY <1>6, <1>7, <1>8, <1>9, <1>10, <2>1, <3>2
    <3>3. QED
      BY <3>1, <3>2
  <2>2. \A d \in Fcbs : OpenCount'[d] = Cardinality(FilesOf(d)')
    BY <1>6, <1>8
  <2>3. QED
    BY <2>1, <2>2 DEF CountsAreExact
<1>14. HasFcb'
  <2>1. \A g \in Users : Referenced(g)' = Referenced(g)
    BY <1>c, <1>4, <1>5
  <2>2. QED
    BY <2>1 DEF Core, HasFcb
<1>15. Lists'
  <2>1. \A g \in Files : state[g] = "queued" => state'[g] = "queued"
    BY <1>2
  <2>2. QED
    BY <2>1, ListsKept DEF Core, listVars
<1>16. Hands'
  <2>1. \A g \in Files : state[g] = "held" => state'[g] = "held"
    BY <1>2
  <2>2. \A w \in Workers : Takes(w)' => Takes(w)
    BY DEF Takes, workerVars
  <2>3. QED
    BY <2>1, <2>2, HandsKept DEF Core, workerVars
<1>17. /\ vcb'[v] = h /\ \A u \in Vols : u # v => vcb'[u] = vcb[u]
       /\ vcb' \in [Vols -> {Nobody, Flusher, Scanner} \cup Files \cup Workers]
  BY <1>1 DEF On
<1>18. Holders'
  <2>1. \A u \in Vols : vcb'[u] \in Files \cup {Scanner} =>
          condition[u] = "bad" /\ OpenFileCount'[u] = 0
    BY <1>9, <1>17 DEF Core, Holders
  <2>2. \A g \in Files : g # h =>
          (state'[g] = "dismount" <=> state[g] = "dismount")
    BY <1>2
  <2>3. \A g \in Files : state'[g] = "dismount" <=> vcb'[VolOf[g]] = g
    BY <1>c, <1>0, <1>2, <1>17, <2>2 DEF Core, Holders
  <2>4. \A u \in Vols : vcb'[u] \in Files => VolOf[vcb'[u]] = u
    BY <1>0, <1>17 DEF Core, Holders
  <2>5. \A w \in Workers : CurrentVcb[w] # NoVol => vcb'[CurrentVcb[w]] = w
    BY <1>c, <1>17 DEF Core, Holders, TypeOK
  <2>6. QED
    BY <2>1, <2>3, <2>4, <2>5 DEF Holders, workerVars
<1>19. Flag'
  BY FlagKept DEF Core, workerVars
<1>20. VolumeOutlivesFiles'
  <2>1. \A g \in Files : state[g] = "none" =>
          state'[g] = "none" \/ condition[VolOf[g]] # "deleted"
    BY <1>2
  <2>2. \A u \in Vols : condition[u] = "deleted" /\ Free(u) => Free(u)'
    BY <1>17 DEF Free
  <2>3. QED
    BY <2>1, <2>2, DeletedKept DEF Core
<1>21. InternalOpenCount' \in [Vols -> Nat] /\ OpenFileCount' \in [Vols -> Nat]
  BY <1>1, <1>10, <1>13, CountsAreNat
<1>22. TypeOK'
  BY <1>3, <1>17, <1>21 DEF Core, TypeOK, listVars, highVars, workerVars,
     shutdownVars
<1>23. QED
  BY <1>13, <1>14, <1>15, <1>16, <1>18, <1>19, <1>20, <1>22 DEF Core

LEMMA DismountSteps ==
  ASSUME Core, NEW now \in BOOLEAN
  PROVE  /\ \A f \in Files : CheckForDismount(f, now) => Core'
         /\ \A v \in Vols : ScanForDismountedVcb(v, now) => Core'
<1>1. ASSUME NEW v \in Vols, ScanForDismountedVcb(v, now)
      PROVE  Core'
  <2>1. /\ vcb[v] = Nobody /\ condition[v] = "bad" /\ OpenFileCount[v] = 0
        /\ global' = Scanner /\ vcb' = [vcb EXCEPT ![v] = Scanner]
        /\ state' = TearDownVcb(v, now, state) /\ StreamsClosed(v, now)
        /\ UNCHANGED <<FcbOf, DelayClose, OpenCount, listVars, highVars,
                       workerVars, OpenFileCount, CloseInProgress, condition,
                       hand, shutdownVars>>
    BY <1>1 DEF ScanForDismountedVcb, Free, CanDismount
  <2>2. OpenFileCount' = [OpenFileCount EXCEPT ![v] = 0]
    BY <2>1 DEF Core, TypeOK
  <2>3. Scanner \notin Files
    BY Constants
  <2>m. mounted' \subseteq Vols
    BY <1>1 DEF ScanForDismountedVcb, SwapVpb, Core, TypeOK
  <2>4. QED
    BY <2>1, <2>2, <2>3, <2>m, TornDown
<1>2. ASSUME NEW f \in Files, CheckForDismount(f, now),
             CanDismount(VolOf[f]), OpenFileCount[VolOf[f]] = 1
      PROVE  Core'
  <2> DEFINE v == VolOf[f]
             st == [state EXCEPT ![f] = "dismount"]
  <2>0. v \in Vols /\ f \in On(v) /\ Scanner \notin Files
    BY Constants DEF On
  <2>1. /\ vcb[v] = Nobody /\ condition[v] = "bad" /\ state[f] = "check"
        /\ OpenFileCount' = [OpenFileCount EXCEPT ![v] = @ - 1]
        /\ vcb' = [vcb EXCEPT ![v] = f]
        /\ state' = TearDownVcb(v, now, st) /\ StreamsClosed(v, now)
        /\ UNCHANGED <<FcbOf, DelayClose, OpenCount, listVars, highVars,
                       workerVars, CloseInProgress, condition, global,
                       hand, shutdownVars>>
    BY <1>2 DEF CheckForDismount, Free, CanDismount
  <2> HIDE DEF v, st
  <2>2. OpenFileCount' = [OpenFileCount EXCEPT ![v] = 0]
    BY <1>2, <2>0, <2>1 DEF v
  <2>3. global' \in {Nobody, Scanner, ShutsDown} \cup Files
    BY <2>1 DEF Core, TypeOK
  <2>4. f \in Files /\ f # Scanner /\ OpenFileCount[v] = 1
    BY <1>2, <2>0 DEF v
  <2>5. st = [state EXCEPT ![f] = "dismount"]
    BY DEF st
  <2>m. mounted' \subseteq Vols
    BY <1>2 DEF CheckForDismount, SwapVpb, Core, TypeOK
  <2>6. QED
    BY <2>0, <2>1, <2>2, <2>3, <2>4, <2>5, <2>m, TornDown
<1>3. ASSUME NEW f \in Files, CheckForDismount(f, now),
             ~(CanDismount(VolOf[f]) /\ OpenFileCount[VolOf[f]] = 1)
      PROVE  Core'
  <2> DEFINE v == VolOf[f]
  <2>c. VolOf \in [Files -> Vols] /\ Files = Users \cup Streams
    BY Constants
  <2>0. v \in Vols
    BY <2>c
  <2>1. /\ vcb[v] = Nobody /\ state[f] = "check"
        /\ OpenFileCount' = [OpenFileCount EXCEPT ![v] = @ - 1]
        /\ global' = Nobody /\ state' = [state EXCEPT ![f] = "none"]
        /\ CloseInProgress' = [CloseInProgress EXCEPT ![v] = FALSE]
        /\ UNCHANGED <<FcbOf, DelayClose, OpenCount, listVars, highVars,
                       workerVars, condition, hand, shutdownVars, vcb,
                       InternalOpenCount, mounted>>
    BY <1>3 DEF CheckForDismount, Free, MoveTo
  <2>2. /\ state' \in [Files -> States] /\ state'[f] = "none"
        /\ \A g \in Files : g # f => state'[g] = state[g]
    BY <2>1 DEF Core, TypeOK, States
  <2>3. /\ \A g \in Files : Referenced(g)' = Referenced(g)
        /\ state'[f] \notin {"global", "check"}
        /\ state[f] \in {"global", "check"}
    BY <2>1, <2>2 DEF Referenced
  <2>4. /\ \A u \in Vols : /\ OpenUsers(u)' = OpenUsers(u)
                           /\ OpenInternals(u)' = OpenInternals(u)
                           /\ u # v => Biased(u)' = Biased(u)
        /\ Biased(v)' = Biased(v) \ {f} /\ f \in Biased(v)
        /\ \A d \in Fcbs : FilesOf(d)' = FilesOf(d)
    BY <2>c, <2>1, <2>2, <2>3 DEF OpenUsers, OpenInternals, Biased, FilesOf, On
  <2> HIDE DEF v
  <2>5. Cardinality(Biased(v)') = Cardinality(Biased(v)) - 1
    BY <2>4, Counted, OneLess
  <2>6. /\ \A u \in Vols :
             /\ OpenFileCount[u] = Cardinality(OpenUsers(u)) + Cardinality(Biased(u))
             /\ InternalOpenCount[u] = Cardinality(OpenInternals(u))
             /\ Cardinality(OpenUsers(u)) \in Nat /\ Cardinality(Biased(u)) \in Nat
        /\ \A d \in Fcbs : OpenCount[d] = Cardinality(FilesOf(d))
    BY Counted, SubsetIsFinite DEF Core, CountsAreExact
  <2>7. /\ OpenFileCount'[v] = OpenFileCount[v] - 1
        /\ \A u \in Vols : u # v => OpenFileCount'[u] = OpenFileCount[u]
        /\ OpenFileCount' = [u \in Vols |-> OpenFileCount'[u]]
    BY <2>0, <2>1 DEF Core, TypeOK
  <2>8. OpenFileCount'[v] = Cardinality(OpenUsers(v)') + Cardinality(Biased(v)')
    BY <2>0, <2>4, <2>5, <2>6, <2>7
  <2>9. CountsAreExact'
    <3>1. ASSUME NEW u \in Vols
          PROVE  /\ OpenFileCount'[u] =
                      Cardinality(OpenUsers(u)') + Cardinality(Biased(u)')
                 /\ InternalOpenCount'[u] = Cardinality(OpenInternals(u)')
      <4>1. CASE u = v
        BY <2>1, <2>4, <2>6, <2>8, <3>1, <4>1
      <4>2. CASE u # v
        BY <2>1, <2>4, <2>6, <2>7, <3>1, <4>2
      <4>3. QED
        BY <4>1, <4>2
    <3>2. \A d \in Fcbs : OpenCount'[d] = Cardinality(FilesOf(d)')
      BY <2>1, <2>4, <2>6
    <3>3. QED
      BY <3>1, <3>2 DEF CountsAreExact
  <2>10. HasFcb'
    BY <2>c, <2>1, <2>3 DEF Core, HasFcb
  <2>11. Lists'
    <3>1. \A g \in Files : state[g] = "queued" => state'[g] = "queued"
      BY <2>1, <2>2
    <3>2. QED
      BY <2>1, <3>1, ListsKept DEF Core, listVars
  <2>12. Hands'
    <3>1. \A g \in Files : state[g] = "held" => state'[g] = "held"
      BY <2>1, <2>2
    <3>2. \A w \in Workers : Takes(w)' => Takes(w)
      BY <2>1 DEF Takes, workerVars
    <3>3. QED
      BY <2>1, <3>1, <3>2, HandsKept DEF Core, workerVars
  <2>13. Holders'
    <3>1. \A g \in Files : state'[g] = "dismount" <=> state[g] = "dismount"
      BY <2>1, <2>2
    <3>2. \A u \in Vols : vcb[u] \in Files \cup {Scanner} =>
            OpenFileCount'[u] = OpenFileCount[u]
      BY <2>1, <2>7, Constants
    <3>3. QED
      BY <2>1, <3>1, <3>2, HoldersKept DEF Core, workerVars
  <2>14. Flag'
    BY <2>1, FlagKept DEF Core, workerVars
  <2>15. VolumeOutlivesFiles'
    <3>1. \A g \in Files : state[g] = "none" =>
            state'[g] = "none" \/ condition[VolOf[g]] # "deleted"
      BY <2>2
    <3>2. \A u \in Vols : Free(u) => Free(u)'
      BY <2>1 DEF Free
    <3>3. QED
      BY <2>1, <3>1, <3>2, DeletedKept DEF Core
  <2>16. OpenFileCount' \in [Vols -> Nat]
    BY <2>7, <2>9, CountsAreNat
  <2>17. CloseInProgress' \in [Vols -> BOOLEAN]
    BY <2>1 DEF Core, TypeOK
  <2>18. TypeOK'
    BY <2>1, <2>2, <2>16, <2>17
    DEF Core, TypeOK, listVars, highVars, workerVars,
       shutdownVars
  <2>19. QED
    BY <2>9, <2>10, <2>11, <2>12, <2>13, <2>14, <2>15, <2>18 DEF Core
<1>4. QED
  BY <1>1, <1>2, <1>3

(* Steps that only lock, unlock, or move a worker.                         *)
LEMMA FilesRest ==
  ASSUME Core, UNCHANGED <<fileVars, AsyncCloseList, DelayedCloseList,
                           OpenFileCount, InternalOpenCount>>
  PROVE  CountsAreExact' /\ HasFcb' /\ Lists'
<1>1. /\ \A g \in Files : /\ Referenced(g)' <=> Referenced(g)
                          /\ state'[g] \in {"global", "check"} <=>
                               state[g] \in {"global", "check"}
      /\ \A g \in Files : state[g] = "queued" => state'[g] = "queued"
  BY DEF Referenced, fileVars
<1>2. CountsAreExact' /\ HasFcb'
  BY <1>1, CountsKept DEF Core, fileVars
<1>3. Lists'
  BY <1>1, ListsKept DEF Core
<1>4. QED
  BY <1>2, <1>3

LEMMA HandsRest ==
  ASSUME Core, UNCHANGED <<state, hand, wctx>>,
         \A w \in Workers : wpc'[w] \in {"lock", "close"} => wpc[w] \in {"lock", "close"}
  PROVE  Hands'
<1>1. \A w \in Workers : Takes(w)' => Takes(w)
  BY DEF Takes
<1>2. QED
  BY <1>1, HandsKept DEF Core

(* A volume is dismounted; FatFspClose for a volume starts and ends.       *)
LEMMA VolumeSteps ==
  ASSUME Core, NEW v \in Vols,
         Dismount(v) \/ FspCloseVcb(v) \/ FspCloseVcbEnds(v)
  PROVE  Core'
<1>c. /\ VolOf \in [Files -> Vols] /\ NoVol \notin Vols
      /\ Nobody \notin Files /\ Flusher \notin Files /\ Scanner \notin Files
      /\ Nobody \notin Workers /\ Flusher \notin Workers
      /\ Nobody # Scanner /\ Flusher # Scanner
  BY Constants
<1>t. /\ vcb \in [Vols -> {Nobody, Flusher, Scanner} \cup Files \cup Workers]
      /\ condition \in [Vols -> {"good", "bad", "deleted"}]
      /\ CurrentVcb \in [Workers -> Vols \cup {NoVol}]
  BY DEF Core, TypeOK
<1>h. /\ \A u \in Vols : vcb[u] \in Files \cup {Scanner} =>
           condition[u] = "bad" /\ OpenFileCount[u] = 0
      /\ \A g \in Files : state[g] = "dismount" <=> vcb[VolOf[g]] = g
      /\ \A u \in Vols : vcb[u] \in Files => VolOf[vcb[u]] = u
      /\ \A w \in Workers : CurrentVcb[w] # NoVol => vcb[CurrentVcb[w]] = w
  BY DEF Core, Holders
<1>1. CASE Dismount(v)
  <2>1. /\ vcb[v] = Nobody /\ condition[v] = "good"
        /\ condition' = [condition EXCEPT ![v] = "bad"]
        /\ UNCHANGED <<fileVars, listVars, highVars, workerVars, OpenFileCount,
                       InternalOpenCount, CloseInProgress, mounted, lockVars,
                       shutdownVars>>
    BY <1>1 DEF Dismount, Free
  <2>2. CountsAreExact' /\ HasFcb' /\ Lists' /\ Hands' /\ Flag'
    BY <2>1, FilesRest, HandsRest, FlagKept
    DEF Core, fileVars, listVars, workerVars, lockVars
  <2>3. /\ condition' \in [Vols -> {"good", "bad", "deleted"}]
        /\ \A u \in Vols : u # v => condition'[u] = condition[u]
        /\ condition'[v] = "bad"
    BY <1>t, <2>1
  <2>4. Holders'
    BY <1>c, <1>h, <2>1, <2>3
    DEF Holders, fileVars, listVars, workerVars, lockVars
  <2>5. VolumeOutlivesFiles'
    BY <2>1, <2>3 DEF Core, VolumeOutlivesFiles, Free, fileVars, lockVars
  <2>6. TypeOK'
    BY <2>1, <2>3 DEF Core, TypeOK, fileVars, listVars, highVars, workerVars,
       lockVars, shutdownVars
  <2>7. QED
    BY <2>2, <2>4, <2>5, <2>6 DEF Core
<1>2. ASSUME NEW p \in {Nobody, Flusher}, vcb[v] \in {Nobody, Flusher},
             vcb' = [vcb EXCEPT ![v] = p],
             p = Flusher => condition[v] # "deleted",
             UNCHANGED <<fileVars, listVars, highVars, workerVars, volumeVars,
                         global, hand, shutdownVars>>
      PROVE  Core'
  <2>2. CountsAreExact' /\ HasFcb' /\ Lists' /\ Hands' /\ Flag'
    BY <1>2, FilesRest, HandsRest, FlagKept
    DEF Core, fileVars, listVars, workerVars, volumeVars
  <2>3. /\ vcb' \in [Vols -> {Nobody, Flusher, Scanner} \cup Files \cup Workers]
        /\ vcb'[v] \in {Nobody, Flusher} /\ vcb'[v] = p
        /\ \A u \in Vols : u # v => vcb'[u] = vcb[u]
    BY <1>2, <1>t
  <2>4. Holders'
    <3>1. \A u \in Vols : vcb'[u] \in Files \cup {Scanner} =>
            condition[u] = "bad" /\ OpenFileCount[u] = 0
      BY <1>c, <1>h, <2>3
    <3>2. \A g \in Files : state[g] = "dismount" <=> vcb'[VolOf[g]] = g
      BY <1>c, <1>h, <1>2, <2>3
    <3>3. \A u \in Vols : vcb'[u] \in Files => VolOf[vcb'[u]] = u
      BY <1>c, <1>h, <2>3
    <3>4. \A w \in Workers : CurrentVcb[w] # NoVol => vcb'[CurrentVcb[w]] = w
      BY <1>c, <1>h, <1>t, <1>2, <2>3
    <3>5. QED
      BY <1>2, <3>1, <3>2, <3>3, <3>4
      DEF Holders, fileVars, workerVars, volumeVars
  <2>5. VolumeOutlivesFiles'
    BY <1>2, <2>3
    DEF Core, VolumeOutlivesFiles, Free, fileVars, volumeVars
  <2>6. TypeOK'
    BY <1>2, <2>3 DEF Core, TypeOK, fileVars, listVars, highVars, workerVars,
       volumeVars, shutdownVars
  <2>7. QED
    BY <2>2, <2>4, <2>5, <2>6 DEF Core
<1>3. CASE FspCloseVcb(v)
  <2>1. condition[v] # "deleted"
    <3>1. HasCloses(v)
      BY <1>3 DEF FspCloseVcb
    <3>2. /\ \A k \in DOMAIN AsyncCloseList :
               /\ state[AsyncCloseList[k]] = "queued" /\ AsyncCloseList[k] \in Files
          /\ \A k \in DOMAIN DelayedCloseList :
               /\ state[DelayedCloseList[k]] = "queued"
               /\ DelayedCloseList[k] \in Files
      BY ElementOfSeq, Constants DEF Core, TypeOK, Lists, EntriesOf
    <3>3. \E g \in On(v) : state[g] = "queued"
      BY <3>1, <3>2 DEF HasCloses, HasAny, On
    <3>4. QED
      BY <3>3 DEF Core, VolumeOutlivesFiles
  <2>2. /\ vcb[v] = Nobody /\ vcb' = [vcb EXCEPT ![v] = Flusher]
        /\ UNCHANGED <<fileVars, listVars, highVars, workerVars, volumeVars,
                       global, hand, shutdownVars>>
    BY <1>3 DEF FspCloseVcb, Free
  <2>3. QED
    BY <1>2, <2>1, <2>2
<1>4. CASE FspCloseVcbEnds(v)
  <2>1. /\ vcb[v] = Flusher /\ vcb' = [vcb EXCEPT ![v] = Nobody]
        /\ UNCHANGED <<fileVars, listVars, highVars, workerVars, volumeVars,
                       global, hand, shutdownVars>>
    BY <1>4 DEF FspCloseVcbEnds
  <2>2. Nobody # Flusher
    BY Constants
  <2>3. QED
    BY <1>2, <2>1, <2>2
<1>5. QED
  BY <1>1, <1>3, <1>4

(* The deletion ends: when the counts are zero nothing is left of it.      *)
LEMMA DeleteSteps ==
  ASSUME Core, NEW v \in Vols, DeleteVcb(v)
  PROVE  Core'
<1>c. /\ VolOf \in [Files -> Vols] /\ NoVol \notin Vols /\ Files = Users \cup Streams
      /\ Nobody \notin Files /\ Scanner \notin Files /\ Nobody # Scanner
      /\ Scanner \notin Workers /\ \A f \in Files : f \notin Workers
  BY Constants
<1>1. PICK f \in Files \cup {Scanner} : f = vcb[v]
  BY DEF DeleteVcb
<1> DEFINE gone == VpbReferenceCount(v) = 0 /\ InternalOpenCount[v] = 0
<1>2. /\ condition' = [condition EXCEPT ![v] = IF gone THEN "deleted" ELSE @]
      /\ vcb' = [vcb EXCEPT ![v] = Nobody] /\ global' = Nobody
      /\ state' = [g \in Files |-> IF g = f THEN "none" ELSE state[g]]
      /\ CloseInProgress' = [CloseInProgress EXCEPT ![v] = @ /\ f = Scanner]
      /\ UNCHANGED <<FcbOf, DelayClose, OpenCount, listVars, highVars, workerVars,
                     OpenFileCount, InternalOpenCount, mounted, hand,
                     shutdownVars>>
  BY <1>1 DEF DeleteVcb
<1>t. /\ vcb \in [Vols -> {Nobody, Flusher, Scanner} \cup Files \cup Workers]
      /\ condition \in [Vols -> {"good", "bad", "deleted"}]
      /\ CurrentVcb \in [Workers -> Vols \cup {NoVol}]
      /\ state \in [Files -> States]
  BY DEF Core, TypeOK
<1>h. /\ \A u \in Vols : vcb[u] \in Files \cup {Scanner} =>
           condition[u] = "bad" /\ OpenFileCount[u] = 0
      /\ \A g \in Files : state[g] = "dismount" <=> vcb[VolOf[g]] = g
      /\ \A u \in Vols : vcb[u] \in Files => VolOf[vcb[u]] = u
      /\ \A w \in Workers : CurrentVcb[w] # NoVol => vcb[CurrentVcb[w]] = w
  BY DEF Core, Holders
<1>3. /\ f \in Files => state[f] = "dismount" /\ state'[f] = "none" /\ VolOf[f] = v
      /\ \A g \in Files : g # f => state'[g] = state[g]
      /\ OpenFileCount[v] = 0
  BY <1>c, <1>h, <1>1, <1>2
<1>4. state' \in [Files -> States]
  BY <1>2, <1>t DEF States
<1>5. CountsAreExact' /\ HasFcb'
  <2>1. \A g \in Files : /\ Referenced(g)' <=> Referenced(g)
                         /\ state'[g] \in {"global", "check"} <=>
                              state[g] \in {"global", "check"}
    BY <1>3 DEF Referenced
  <2>2. QED
    BY <1>2, <2>1, CountsKept DEF Core
<1>6. Lists'
  <2>1. \A g \in Files : state[g] = "queued" => state'[g] = "queued"
    BY <1>3
  <2>2. QED
    BY <1>2, <2>1, ListsKept DEF Core, listVars
<1>7. Hands'
  <2>1. \A g \in Files : state[g] = "held" => state'[g] = "held"
    BY <1>3
  <2>2. \A w \in Workers : Takes(w)' => Takes(w)
    BY <1>2 DEF Takes, workerVars
  <2>3. QED
    BY <1>2, <2>1, <2>2, HandsKept DEF Core, workerVars
<1>8. /\ vcb' \in [Vols -> {Nobody, Flusher, Scanner} \cup Files \cup Workers]
      /\ vcb'[v] = Nobody /\ \A u \in Vols : u # v => vcb'[u] = vcb[u]
      /\ condition' \in [Vols -> {"good", "bad", "deleted"}]
      /\ condition'[v] = IF gone THEN "deleted" ELSE "bad"
      /\ \A u \in Vols : u # v => condition'[u] = condition[u]
  <2>1. condition[v] = "bad"
    BY <1>1, <1>h
  <2>2. QED
    BY <1>2, <1>t, <2>1
<1>9. Holders'
  <2>1. \A u \in Vols : vcb'[u] \in Files \cup {Scanner} =>
          condition'[u] = "bad" /\ OpenFileCount[u] = 0
    BY <1>c, <1>h, <1>8
  <2>2. \A g \in Files : state'[g] = "dismount" <=> vcb'[VolOf[g]] = g
    BY <1>c, <1>h, <1>1, <1>3, <1>8
  <2>3. \A u \in Vols : vcb'[u] \in Files => VolOf[vcb'[u]] = u
    BY <1>c, <1>h, <1>8
  <2>4. \A w \in Workers : CurrentVcb[w] # NoVol => vcb'[CurrentVcb[w]] = w
    BY <1>c, <1>h, <1>t, <1>1, <1>8
  <2>5. QED
    BY <1>2, <2>1, <2>2, <2>3, <2>4 DEF Holders, workerVars
<1>10. Flag'
  BY <1>2, FlagKept DEF Core, workerVars
<1>11. VolumeOutlivesFiles'
  <2>1. ASSUME gone
        PROVE  \A g \in On(v) : state'[g] = "none"
    <3> DEFINE Refs == {g \in On(v) : state[g] \in {"enroute", "open", "clean"}}
    <3>1. /\ OpenFileCount[v] = Cardinality(OpenUsers(v)) + Cardinality(Biased(v))
          /\ InternalOpenCount[v] = Cardinality(OpenInternals(v))
          /\ Cardinality(OpenUsers(v)) \in Nat /\ Cardinality(Biased(v)) \in Nat
      BY Counted, SubsetIsFinite DEF Core, CountsAreExact
    <3>2. Refs \in SUBSET Files /\ Cardinality(Refs) = 0
      BY <2>1 DEF VpbReferenceCount, On
    <3>3. Refs = {}
      BY <3>2, NoneLeft
    <3>4. Cardinality(OpenUsers(v)) = 0 /\ Cardinality(Biased(v)) = 0
      BY <1>3, <3>1
    <3>5. OpenUsers(v) = {} /\ Biased(v) = {} /\ OpenInternals(v) = {}
      BY <2>1, <3>1, <3>4, Counted, NoneLeft
    <3>6. ASSUME NEW g \in On(v)
          PROVE  state'[g] = "none"
      <4>0. g \in Files /\ VolOf[g] = v
        BY DEF On
      <4>1. ~Referenced(g)
        BY <1>c, <3>5, <4>0 DEF OpenUsers, OpenInternals
      <4>2. state[g] \notin {"enroute", "global", "check"}
        BY <3>3, <3>5 DEF Biased
      <4>3. state[g] \in {"none", "dismount"}
        BY <4>1, <4>2 DEF Referenced
      <4>4. state[g] = "dismount" => g = f
        BY <1>h, <1>1, <4>0
      <4>5. QED
        BY <1>3, <4>0, <4>3, <4>4
    <3>7. QED
      BY <3>6
  <2>2. \A u \in Vols : condition[u] = "deleted" =>
          vcb[u] = Nobody /\ \A g \in On(u) : state[g] = "none"
    BY DEF Core, VolumeOutlivesFiles, Free
  <2> HIDE DEF gone
  <2>3. ASSUME NEW u \in Vols, condition'[u] = "deleted"
        PROVE  vcb'[u] = Nobody /\ \A g \in On(u) : state'[g] = "none"
    <3>1. CASE u = v
      BY <1>8, <2>1, <2>3, <3>1
    <3>2. CASE u # v
      <4>1. \A g \in On(u) : g \in Files
        BY DEF On
      <4>2. QED
        BY <1>3, <1>8, <2>2, <2>3, <3>2, <4>1
    <3>3. QED
      BY <3>1, <3>2
  <2>4. QED
    BY <2>3 DEF VolumeOutlivesFiles, Free, On
<1>12. CloseInProgress' \in [Vols -> BOOLEAN]
  <2>1. (CloseInProgress[v] /\ f = Scanner) \in BOOLEAN
    OBVIOUS
  <2>2. QED
    BY <1>2, <2>1 DEF Core, TypeOK
<1>13. TypeOK'
  BY <1>2, <1>4, <1>8, <1>12 DEF Core, TypeOK, listVars, highVars, workerVars,
     shutdownVars
<1>14. QED
  BY <1>5, <1>6, <1>7, <1>9, <1>10, <1>11, <1>13 DEF Core

(* A run down of a volume takes a close.                                   *)
LEMMA VolumeTakes ==
  ASSUME Core, NEW v \in Vols, RemoveVolumeClose(v)
  PROVE  Core'
<1>1. PICK f \in Files : /\ VolumeClose(v, f) /\ Dequeue(f)
                         /\ hand' = [hand EXCEPT ![v] = f]
  BY DEF RemoveVolumeClose
<1>2. /\ hand[v] = NoFile
      /\ UNCHANGED <<FcbOf, DelayClose, OpenCount, AsyncCloseActive, FatCloseItem,
                     highVars, workerVars, volumeVars, vcb, global,
                     shutdownVars>>
  BY DEF RemoveVolumeClose
<1>3. state[f] = "queued" /\ VolOf[f] = v
  BY <1>1, TakenIsQueued DEF Core
<1>4. /\ state' \in [Files -> States] /\ state'[f] = "held"
      /\ \A g \in Files : g # f => state'[g] = state[g]
      /\ AsyncCloseList' \in Seq(Files) /\ DelayedCloseList' \in Seq(Users)
      /\ AsyncCloseList' # <<>> => AsyncCloseList # <<>>
      /\ Len(DelayedCloseList') <= Len(DelayedCloseList)
      /\ Lists' /\ CountsAreExact' /\ HasFcb' /\ Holders' /\ VolumeOutlivesFiles'
  BY <1>1, <1>2, <1>3, Dequeued DEF workerVars, volumeVars
<1>5. /\ hand \in [Vols -> Files \cup {NoFile}]
      /\ hand' \in [Vols -> Files \cup {NoFile}] /\ hand'[v] = f
      /\ \A u \in Vols : u # v => hand'[u] = hand[u]
      /\ UNCHANGED <<wpc, wctx>>
  BY <1>1, <1>2 DEF Core, TypeOK, workerVars
<1>6. Hands'
  <2>1. \A u \in Vols : hand[u] # NoFile =>
          /\ hand[u] \in Files /\ hand[u] # f
          /\ state[hand[u]] = "held" /\ VolOf[hand[u]] = u
    BY <1>3, <1>5 DEF Core, Hands
  <2>2. \A u \in Vols : hand'[u] # NoFile =>
          state'[hand'[u]] = "held" /\ VolOf[hand'[u]] = u
    BY <1>3, <1>4, <1>5, <2>1
  <2>3. \A w \in Workers : Takes(w)' <=> Takes(w)
    BY <1>5 DEF Takes
  <2>4. \A w \in Workers : Takes(w) =>
          /\ wctx[w] \in Files /\ wctx[w] # f /\ state[wctx[w]] = "held"
          /\ \A u \in Vols : wctx[w] # hand[u]
    BY <1>3 DEF Core, Hands
  <2>5. \A w \in Workers : Takes(w)' => wctx'[w] \in Files /\ state'[wctx'[w]] = "held"
    BY <1>4, <1>5, <2>3, <2>4
  <2>6. \A w, u \in Workers : Takes(w)' /\ Takes(u)' /\ wctx'[w] = wctx'[u] => w = u
    BY <1>5, <2>3 DEF Core, Hands
  <2>7. \A w \in Workers, u \in Vols : Takes(w)' => wctx'[w] # hand'[u]
    BY <1>5, <2>3, <2>4
  <2>8. QED
    BY <2>2, <2>5, <2>6, <2>7 DEF Hands
<1>7. Flag'
  <2>1. Running' = Running
    BY <1>5 DEF Running
  <2>2. Len(DelayedCloseList') > MaxDelayed => Len(DelayedCloseList) > MaxDelayed
    <3>1. /\ Len(DelayedCloseList') \in Nat /\ Len(DelayedCloseList) \in Nat
          /\ MaxDelayed \in Nat
      BY <1>4, LenProperties, Constants DEF Core, TypeOK
    <3>2. QED
      BY <1>4, <3>1
  <2>3. QED
    BY <1>2, <1>4, <2>1, <2>2 DEF Core, Flag
<1>8. TypeOK'
  BY <1>2, <1>4, <1>5 DEF Core, TypeOK, highVars, workerVars, volumeVars,
     shutdownVars
<1>9. QED
  BY <1>4, <1>6, <1>7, <1>8 DEF Core

-----------------------------------------------------------------------------
(* The worker thread.                                                      *)

LEMMA Least ==
  ASSUME NEW T \in SUBSET Nat, T # {}
  PROVE  \E x \in T : \A y \in T : x <= y
<1> DEFINE R == {p \in Nat \X Nat : p[1] < p[2]}
<1>1. IsWellFoundedOn(R, Nat)
  BY NatLessThanWellFounded DEF OpToRel
<1> HIDE DEF R
<1>2. PICK x \in T : \A y \in T : ~ (<<y, x>> \in R)
  BY <1>1, WFMin
<1>3. \A x1, y \in Nat : x1 < y => <<x1, y>> \in R
  BY DEF R
<1>4. ASSUME NEW y \in T
      PROVE  x <= y
  <2>1. x \in Nat /\ y \in Nat
    OBVIOUS
  <2>2. ~(y < x)
    BY <1>2, <1>3, <2>1
  <2>3. QED
    BY <2>1, <2>2
<1>5. QED
  BY <1>4

(* A volume that has closes on the lists has an oldest one.                *)
LEMMA OldestExists ==
  ASSUME NEW list \in Seq(Files), NEW v, HasAny(list, v)
  PROVE  \E f \in Files : OldestIn(list, v, f)
<1> DEFINE T == {k \in DOMAIN list : VolOf[list[k]] = v}
<1>1. Len(list) \in Nat /\ DOMAIN list = 1 .. Len(list)
  BY LenProperties
<1>2. T \in SUBSET Nat /\ T # {}
  BY <1>1 DEF HasAny
<1>3. PICK k \in T : \A m \in T : k <= m
  BY <1>2, Least
<1>4. list[k] \in Files
  BY ElementOfSeq, <1>1
<1>5. \A j \in 1 .. k - 1 : VolOf[list[j]] # v
  <2>1. ASSUME NEW j \in 1 .. k - 1, VolOf[list[j]] = v
        PROVE  FALSE
    <3>1. k \in 1 .. Len(list)
      BY <1>1
    <3>2. j \in T /\ j < k
      BY <1>1, <2>1, <3>1
    <3>3. k <= j
      BY <1>3, <3>2
    <3>4. QED
      BY <3>1, <3>2, <3>3
  <2>2. QED
    BY <2>1
<1>6. OldestIn(list, v, list[k])
  BY <1>5 DEF OldestIn
<1>7. QED
  BY <1>4, <1>6

(* When FatRemoveClose finds nothing, no async close is left behind and    *)
(* not more delayed ones than the limit.                                   *)
LEMMA NothingToDo ==
  ASSUME TypeOK, NEW v, NEW pressure,
         \A f \in Files : ~WorkerClose(v, pressure, f)
  PROVE  AsyncCloseList = <<>> /\ ~(Len(DelayedCloseList) > MaxDelayed)
<1>0. /\ AsyncCloseList \in Seq(Files) /\ DelayedCloseList \in Seq(Users)
      /\ DelayedCloseList \in Seq(Files) /\ Users \subseteq Files
      /\ MaxDelayed \in Nat /\ Len(DelayedCloseList) \in Nat
  <2>1. /\ AsyncCloseList \in Seq(Files) /\ DelayedCloseList \in Seq(Users)
        /\ Users \subseteq Files /\ MaxDelayed \in Nat
    BY Constants DEF TypeOK
  <2>2. /\ Len(DelayedCloseList) \in Nat
        /\ DelayedCloseList \in [1 .. Len(DelayedCloseList) -> Users]
    BY <2>1, LenProperties
  <2>3. DelayedCloseList \in [1 .. Len(DelayedCloseList) -> Files]
    BY <2>1, <2>2
  <2>4. DelayedCloseList \in Seq(Files)
    BY <2>2, <2>3, IsASeq
  <2>5. QED
    BY <2>1, <2>2, <2>4
<1>1. ~(v # NoVol /\ pressure /\ HasCloses(v))
  <2>1. ASSUME v # NoVol /\ pressure /\ HasCloses(v)
        PROVE  FALSE
    <3>1. \E f \in Files : VolumeClose(v, f)
      BY <1>0, <2>1, OldestExists DEF VolumeClose, HasCloses
    <3>2. QED
      BY <2>1, <3>1 DEF WorkerClose
  <2>2. QED
    BY <2>1
<1>2. \A f \in Files : ~AnyClose(f)
  BY <1>1 DEF WorkerClose
<1>3. AsyncCloseList = <<>>
  <2>1. AsyncCloseList # <<>> => Head(AsyncCloseList) \in Files
    BY <1>0, HeadTailProperties
  <2>2. QED
    BY <1>2, <2>1 DEF AnyClose
<1>4. DelayedCloseList # <<>> => ~(Len(DelayedCloseList) > MaxDelayed \div 2)
  <2>1. DelayedCloseList # <<>> => Head(DelayedCloseList) \in Files
    BY <1>0, HeadTailProperties
  <2>2. QED
    BY <1>2, <1>3, <2>1 DEF AnyClose
<1>5. DelayedCloseList = <<>> => Len(DelayedCloseList) = 0
  OBVIOUS
<1>6. MaxDelayed \div 2 <= MaxDelayed /\ MaxDelayed \div 2 \in Nat
  BY <1>0
<1>7. ~(Len(DelayedCloseList) > MaxDelayed)
  BY <1>0, <1>4, <1>5, <1>6
<1>8. QED
  BY <1>3, <1>7

(* The flag is the worker's own: w runs, nobody else and no work item.     *)
LEMMA TheWorker ==
  ASSUME Flag, NEW w \in Workers, w \in Running
  PROVE  AsyncCloseActive /\ FatCloseItem = 0 /\ Running = {w}
BY DEF Flag

LEMMA WorkerStarts ==
  ASSUME Core, NEW w \in Workers, CloseWorker(w)
  PROVE  Core'
<1>1. /\ FatCloseItem > 0 /\ wpc[w] = "idle" /\ FatCloseItem' = FatCloseItem - 1
      /\ wpc' = [wpc EXCEPT ![w] = "remove"]
      /\ UNCHANGED <<fileVars, AsyncCloseList, DelayedCloseList, AsyncCloseActive,
                     highVars, CurrentVcb, wctx, volumeVars, lockVars,
                     shutdownVars>>
  BY DEF CloseWorker
<1>2. /\ wpc' \in [Workers -> {"idle", "remove", "lock", "close", "end"}]
      /\ wpc'[w] = "remove" /\ \A u \in Workers : u # w => wpc'[u] = wpc[u]
      /\ FatCloseItem = 1 /\ FatCloseItem' = 0
  BY <1>1 DEF Core, TypeOK
<1>3. CountsAreExact' /\ HasFcb' /\ Lists' /\ Hands'
  BY <1>1, <1>2, FilesRest, HandsRest DEF fileVars, volumeVars, lockVars
<1>4. Holders' /\ VolumeOutlivesFiles'
  BY <1>1
  DEF Core, Holders, VolumeOutlivesFiles, Free, fileVars, volumeVars, lockVars
<1>5. Flag'
  <2>1. AsyncCloseActive /\ Running = {}
    BY <1>2 DEF Core, Flag
  <2>2. Running' = {w}
    BY <1>2, <2>1 DEF Running
  <2>3. QED
    BY <1>1, <1>2, <2>1, <2>2 DEF Flag
<1>6. TypeOK'
  BY <1>1, <1>2 DEF Core, TypeOK, fileVars, highVars, volumeVars, lockVars,
     shutdownVars
<1>7. QED
  BY <1>3, <1>4, <1>5, <1>6 DEF Core

LEMMA WorkerTakes ==
  ASSUME Core, NEW w \in Workers, RemoveClose(w)
  PROVE  Core'
<1> DEFINE v == CurrentVcb[w]
           pressure == \/ High(HighAsync, Len(AsyncCloseList))
                       \/ High(HighDelayed, Len(DelayedCloseList))
<1>1. /\ wpc[w] = "remove"
      /\ UNCHANGED <<FcbOf, DelayClose, OpenCount, FatCloseItem, CurrentVcb,
                     volumeVars, lockVars, shutdownVars>>
      /\ \/ /\ \E f \in Files : /\ WorkerClose(v, pressure, f)
                                /\ Dequeue(f)
                                /\ wctx' = [wctx EXCEPT ![w] = f]
            /\ wpc' = [wpc EXCEPT ![w] = "lock"]
            /\ UNCHANGED AsyncCloseActive
         \/ /\ \A f \in Files : ~WorkerClose(v, pressure, f)
            /\ AsyncCloseActive' = FALSE
            /\ wpc' = [wpc EXCEPT ![w] = "end"]
            /\ UNCHANGED <<state, AsyncCloseList, DelayedCloseList, wctx>>
  BY DEF RemoveClose
<1>2. HighAsync' \in BOOLEAN /\ HighDelayed' \in BOOLEAN
  <2>1. /\ HighAsync' = IF v = NoVol THEN HighAsync
                        ELSE High(HighAsync, Len(AsyncCloseList))
        /\ HighDelayed' = IF v = NoVol THEN HighDelayed
                          ELSE High(HighDelayed, Len(DelayedCloseList))
    BY DEF RemoveClose
  <2>2. ASSUME NEW was \in BOOLEAN, NEW n \in Nat
        PROVE  High(was, n) \in BOOLEAN
    <3>1. CASE was
      BY <3>1 DEF High
    <3>2. CASE ~was
      BY <3>2 DEF High
    <3>3. QED
      BY <3>1, <3>2
  <2>l. Len(AsyncCloseList) \in Nat /\ Len(DelayedCloseList) \in Nat
    BY LenProperties DEF Core, TypeOK
  <2>3. HighAsync \in BOOLEAN /\ HighDelayed \in BOOLEAN
    BY DEF Core, TypeOK
  <2>4. QED
    BY <2>1, <2>2, <2>l, <2>3
<1> HIDE DEF v, pressure
<1>3. w \in Running /\ AsyncCloseActive /\ FatCloseItem = 0 /\ Running = {w}
  <2>1. w \in Running
    BY <1>1 DEF Running
  <2>2. QED
    BY <2>1, TheWorker DEF Core
<1>a. /\ wpc \in [Workers -> {"idle", "remove", "lock", "close", "end"}]
      /\ wctx \in [Workers -> Files \cup {NoFile}]
  BY DEF Core, TypeOK
<1>4. CASE /\ \E f \in Files : /\ WorkerClose(v, pressure, f)
                               /\ Dequeue(f)
                               /\ wctx' = [wctx EXCEPT ![w] = f]
           /\ wpc' = [wpc EXCEPT ![w] = "lock"]
           /\ UNCHANGED AsyncCloseActive
  <2>1. PICK f \in Files : /\ WorkerClose(v, pressure, f) /\ Dequeue(f)
                           /\ wctx' = [wctx EXCEPT ![w] = f]
    BY <1>4
  <2>2. state[f] = "queued"
    BY <2>1, TakenIsQueued DEF Core, WorkerClose
  <2>3. /\ state' \in [Files -> States] /\ state'[f] = "held"
        /\ \A g \in Files : g # f => state'[g] = state[g]
        /\ AsyncCloseList' \in Seq(Files) /\ DelayedCloseList' \in Seq(Users)
        /\ Lists' /\ CountsAreExact' /\ HasFcb' /\ Holders' /\ VolumeOutlivesFiles'
    BY <1>1, <2>1, <2>2, Dequeued DEF volumeVars, lockVars
  <2>4. /\ wpc' \in [Workers -> {"idle", "remove", "lock", "close", "end"}]
        /\ wctx' \in [Workers -> Files \cup {NoFile}]
        /\ wpc'[w] = "lock" /\ wctx'[w] = f
        /\ \A u \in Workers : u # w => wpc'[u] = wpc[u] /\ wctx'[u] = wctx[u]
        /\ UNCHANGED hand
    BY <1>1, <1>4, <1>a, <2>1 DEF lockVars
  <2>5. Hands'
    <3>1. \A u \in Vols : hand[u] # NoFile =>
            /\ hand[u] \in Files /\ hand[u] # f
            /\ state[hand[u]] = "held" /\ VolOf[hand[u]] = u
      BY <2>2 DEF Core, Hands, TypeOK
    <3>2. \A u \in Vols : hand[u] # f
      BY <3>1, Constants
    <3>3. \A u \in Vols : hand'[u] # NoFile =>
            state'[hand'[u]] = "held" /\ VolOf[hand'[u]] = u
      BY <2>3, <2>4, <3>1
    <3>4. \A u \in Workers : u # w => (Takes(u)' <=> Takes(u))
      BY <2>4 DEF Takes
    <3>5. \A u \in Workers : Takes(u) =>
            /\ wctx[u] \in Files /\ wctx[u] # f /\ state[wctx[u]] = "held"
            /\ \A x \in Vols : wctx[u] # hand[x]
      BY <2>2 DEF Core, Hands
    <3>6. \A u \in Workers : Takes(u)' =>
            wctx'[u] \in Files /\ state'[wctx'[u]] = "held"
      BY <2>3, <2>4, <3>4, <3>5
    <3>7. \A u, x \in Workers : Takes(u) /\ Takes(x) /\ wctx[u] = wctx[x] => u = x
      BY DEF Core, Hands
    <3>8. \A u, x \in Workers : Takes(u)' /\ Takes(x)' /\ wctx'[u] = wctx'[x] => u = x
      BY <2>4, <3>4, <3>5, <3>7
    <3>9. \A u \in Workers, x \in Vols : Takes(u)' => wctx'[u] # hand'[x]
      BY <2>4, <3>2, <3>4, <3>5
    <3>10. QED
      BY <3>3, <3>6, <3>8, <3>9 DEF Hands
  <2>6. Flag'
    <3>1. Running' = {w}
      BY <1>3, <2>4 DEF Running
    <3>2. AsyncCloseActive' /\ FatCloseItem' = 0
      BY <1>1, <1>3, <1>4
    <3>3. QED
      BY <3>1, <3>2 DEF Flag
  <2>7. TypeOK'
    BY <1>1, <1>2, <1>4, <2>3, <2>4 DEF Core, TypeOK, volumeVars, lockVars,
       shutdownVars
  <2>8. QED
    BY <2>3, <2>5, <2>6, <2>7 DEF Core
<1>5. CASE /\ \A f \in Files : ~WorkerClose(v, pressure, f)
           /\ AsyncCloseActive' = FALSE
           /\ wpc' = [wpc EXCEPT ![w] = "end"]
           /\ UNCHANGED <<state, AsyncCloseList, DelayedCloseList, wctx>>
  <2>1. AsyncCloseList = <<>> /\ ~(Len(DelayedCloseList) > MaxDelayed)
    BY <1>5, NothingToDo DEF Core
  <2>2. /\ wpc' \in [Workers -> {"idle", "remove", "lock", "close", "end"}]
        /\ wpc'[w] = "end" /\ \A u \in Workers : u # w => wpc'[u] = wpc[u]
    BY <1>5, <1>a
  <2>3. CountsAreExact' /\ HasFcb' /\ Lists' /\ Hands'
    BY <1>1, <1>5, <2>2, FilesRest, HandsRest
    DEF fileVars, volumeVars, lockVars
  <2>4. Holders' /\ VolumeOutlivesFiles'
    BY <1>1, <1>5
    DEF Core, Holders, VolumeOutlivesFiles, Free, volumeVars, lockVars
  <2>5. Running' = {}
    BY <1>3, <2>2 DEF Running
  <2>6. Flag'
    BY <1>1, <1>3, <1>5, <2>1, <2>5 DEF Flag
  <2>7. TypeOK'
    BY <1>1, <1>2, <1>5, <2>2
    DEF Core, TypeOK, volumeVars, lockVars, shutdownVars
  <2>8. QED
    BY <2>3, <2>4, <2>6, <2>7 DEF Core
<1>6. QED
  BY <1>1, <1>4, <1>5

(* The worker takes and releases volumes between its closes.               *)
LEMMA WorkerLocks ==
  ASSUME Core, NEW w \in Workers,
         \/ WorkerReleases(w) \/ WorkerHolds(w) \/ WorkerInShutdown(w)
         \/ WorkerEnds(w)
  PROVE  Core'
<1>c. /\ VolOf \in [Files -> Vols] /\ NoVol \notin Vols
      /\ Nobody \notin Files /\ Nobody # Scanner /\ Nobody \notin Workers
      /\ Scanner \notin Workers /\ \A f \in Files : f \notin Workers
  BY Constants
<1>t. /\ vcb \in [Vols -> {Nobody, Flusher, Scanner} \cup Files \cup Workers]
      /\ CurrentVcb \in [Workers -> Vols \cup {NoVol}]
      /\ wpc \in [Workers -> {"idle", "remove", "lock", "close", "end"}]
  BY DEF Core, TypeOK
<1>h. /\ \A u \in Vols : vcb[u] \in Files \cup {Scanner} =>
           condition[u] = "bad" /\ OpenFileCount[u] = 0
      /\ \A g \in Files : state[g] = "dismount" <=> vcb[VolOf[g]] = g
      /\ \A u \in Vols : vcb[u] \in Files => VolOf[vcb[u]] = u
      /\ \A u \in Workers : CurrentVcb[u] # NoVol => vcb[CurrentVcb[u]] = u
  BY DEF Core, Holders
<1>1. ASSUME NEW p \in {"idle", "remove", "lock", "close", "end"},
             wpc' = [wpc EXCEPT ![w] = p],
             p \in {"lock", "close"} <=> wpc[w] \in {"lock", "close"},
             p \in {"remove", "lock", "close"} <=>
               wpc[w] \in {"remove", "lock", "close"},
             vcb' \in [Vols -> {Nobody, Flusher, Scanner} \cup Files \cup Workers],
             CurrentVcb' \in [Workers -> Vols \cup {NoVol}],
             \A u \in Vols :
               \/ vcb'[u] = vcb[u]
               \/ (vcb[u] \in {Nobody, w} /\ vcb'[u] \in {Nobody, w}),
             \A u \in Vols : condition[u] = "deleted" /\ vcb[u] = Nobody =>
               vcb'[u] = Nobody,
             \A u \in Workers : u # w => CurrentVcb'[u] = CurrentVcb[u],
             CurrentVcb'[w] # NoVol => vcb'[CurrentVcb'[w]] = w,
             UNCHANGED <<fileVars, listVars, highVars, wctx, volumeVars, global,
                         hand, shutdownVars>>
      PROVE  Core'
  <2>1. /\ wpc' \in [Workers -> {"idle", "remove", "lock", "close", "end"}]
        /\ wpc'[w] = p /\ \A u \in Workers : u # w => wpc'[u] = wpc[u]
    BY <1>1, <1>t
  <2>2. CountsAreExact' /\ HasFcb' /\ Lists'
    BY <1>1, FilesRest DEF listVars, volumeVars
  <2>3. Hands'
    <3>1. \A u \in Workers : wpc'[u] \in {"lock", "close"} => wpc[u] \in {"lock", "close"}
      BY <1>1, <2>1
    <3>2. QED
      BY <1>1, <3>1, HandsRest DEF fileVars
  <2>4. Flag'
    <3>1. \A u \in Workers : wpc'[u] \in {"remove", "lock", "close"} <=>
            wpc[u] \in {"remove", "lock", "close"}
      BY <1>1, <2>1
    <3>2. QED
      BY <1>1, <3>1, FlagKept DEF Core
  <2>5. Holders'
    <3>1. \A u \in Vols : vcb'[u] \in Files \cup {Scanner} => vcb'[u] = vcb[u]
      BY <1>1, <1>c
    <3>2. \A u \in Vols : vcb[u] \in Files \cup {Scanner} => vcb'[u] = vcb[u]
      BY <1>1, <1>c
    <3>3. \A g \in Files : state[g] = "dismount" <=> vcb'[VolOf[g]] = g
      BY <1>c, <1>h, <3>1, <3>2
    <3>4. \A u \in Workers : CurrentVcb'[u] # NoVol => vcb'[CurrentVcb'[u]] = u
      <4>1. ASSUME NEW u \in Workers, u # w, CurrentVcb'[u] # NoVol
            PROVE  vcb'[CurrentVcb'[u]] = u
        <5>1. CurrentVcb'[u] = CurrentVcb[u] /\ CurrentVcb[u] \in Vols
          BY <1>1, <1>t, <4>1
        <5>2. vcb[CurrentVcb[u]] = u
          BY <1>h, <4>1, <5>1
        <5>3. u \notin {Nobody, w}
          BY <1>c, <4>1
        <5>4. QED
          BY <1>1, <5>1, <5>2, <5>3
      <4>2. QED
        BY <1>1, <4>1
    <3>5. QED
      BY <1>1, <1>h, <3>1, <3>3, <3>4 DEF Holders, fileVars, volumeVars
  <2>6. VolumeOutlivesFiles'
    BY <1>1 DEF Core, VolumeOutlivesFiles, Free, fileVars, volumeVars
  <2>7. TypeOK'
    BY <1>1, <2>1 DEF Core, TypeOK, fileVars, listVars, highVars, volumeVars,
       shutdownVars
  <2>8. QED
    BY <2>2, <2>3, <2>4, <2>5, <2>6, <2>7 DEF Core
<1>2. ASSUME ReleaseCurrentVcb(w)
      PROVE  /\ vcb' \in [Vols -> {Nobody, Flusher, Scanner} \cup Files \cup Workers]
             /\ CurrentVcb' \in [Workers -> Vols \cup {NoVol}]
             /\ \A u \in Vols :
                  \/ vcb'[u] = vcb[u]
                  \/ (vcb[u] \in {Nobody, w} /\ vcb'[u] \in {Nobody, w})
             /\ \A u \in Vols : vcb[u] = Nobody => vcb'[u] = Nobody
             /\ \A u \in Workers : u # w => CurrentVcb'[u] = CurrentVcb[u]
             /\ CurrentVcb'[w] = NoVol
  <2>1. /\ vcb' = [v \in Vols |-> IF v = CurrentVcb[w] THEN Nobody ELSE vcb[v]]
        /\ CurrentVcb' = [CurrentVcb EXCEPT ![w] = NoVol]
    BY <1>2 DEF ReleaseCurrentVcb
  <2>2. \A u \in Vols : u = CurrentVcb[w] => vcb[u] = w
    BY <1>c, <1>h
  <2>3. /\ CurrentVcb' \in [Workers -> Vols \cup {NoVol}]
        /\ \A u \in Workers : u # w => CurrentVcb'[u] = CurrentVcb[u]
        /\ CurrentVcb'[w] = NoVol
    BY <1>t, <2>1
  <2>4. \A u \in Vols : vcb'[u] = IF u = CurrentVcb[w] THEN Nobody ELSE vcb[u]
    BY <2>1
  <2>5. vcb' \in [Vols -> {Nobody, Flusher, Scanner} \cup Files \cup Workers]
    BY <1>t, <2>1
  <2>6. QED
    BY <2>2, <2>3, <2>4, <2>5
<1>3. CASE WorkerReleases(w)
  <2>1. /\ wpc[w] = "lock" /\ ReleaseCurrentVcb(w)
        /\ UNCHANGED <<fileVars, listVars, highVars, wpc, wctx, volumeVars,
                       global, hand, shutdownVars>>
    BY <1>3 DEF WorkerReleases
  <2>2. wpc' = [wpc EXCEPT ![w] = "lock"]
    BY <1>t, <2>1
  <2>3. QED
    BY <1>1, <1>2, <2>1, <2>2
<1>4. CASE WorkerEnds(w)
  <2>1. /\ wpc[w] = "end" /\ ReleaseCurrentVcb(w)
        /\ wpc' = [wpc EXCEPT ![w] = "idle"]
        /\ UNCHANGED <<fileVars, listVars, highVars, wctx, volumeVars,
                       global, hand, shutdownVars>>
    BY <1>4 DEF WorkerEnds
  <2>2. QED
    BY <1>1, <1>2, <2>1
<1>5. CASE WorkerInShutdown(w)
  <2>1. /\ wpc[w] = "lock" /\ wpc' = [wpc EXCEPT ![w] = "close"]
        /\ CurrentVcb[w] = NoVol
        /\ UNCHANGED <<fileVars, listVars, highVars, CurrentVcb, wctx,
                       volumeVars, vcb, global, hand, shutdownVars>>
    BY <1>5 DEF WorkerInShutdown, lockVars
  <2>2. /\ vcb' \in [Vols -> {Nobody, Flusher, Scanner} \cup Files \cup Workers]
        /\ CurrentVcb' \in [Workers -> Vols \cup {NoVol}]
        /\ \A u \in Vols : vcb'[u] = vcb[u]
        /\ \A u \in Workers : CurrentVcb'[u] = CurrentVcb[u]
        /\ CurrentVcb'[w] = NoVol
    BY <1>t, <2>1
  <2>3. "close" \in {"idle", "remove", "lock", "close", "end"}
    OBVIOUS
  <2>4. \A u \in Vols : condition[u] = "deleted" /\ vcb[u] = Nobody =>
          vcb'[u] = Nobody
    BY <2>2
  <2>5. QED
    BY <1>1, <2>1, <2>2, <2>3, <2>4
<1>6. CASE WorkerHolds(w)
  <2>1. /\ wpc[w] = "lock" /\ wpc' = [wpc EXCEPT ![w] = "close"]
        /\ UNCHANGED <<fileVars, listVars, highVars, wctx, volumeVars,
                       global, hand, shutdownVars>>
    BY <1>6 DEF WorkerHolds
  <2>2. CASE ReleaseCurrentVcb(w)
    BY <1>1, <1>2, <2>1, <2>2
  <2>3. CASE ~ReleaseCurrentVcb(w)
    <3> DEFINE v == VolOf[wctx[w]]
    <3>1. /\ vcb' = [vcb EXCEPT ![v] = w]
          /\ CurrentVcb' = [CurrentVcb EXCEPT ![w] = v]
          /\ (CurrentVcb[w] = NoVol /\ vcb[v] = Nobody) \/ CurrentVcb[w] = v
      BY <1>6, <2>3 DEF WorkerHolds, Free
    <3>2. wctx[w] \in Files /\ state[wctx[w]] = "held"
      BY <2>1 DEF Core, Hands, Takes
    <3>3. v \in Vols /\ condition[v] # "deleted"
      <4>1. v \in Vols /\ wctx[w] \in On(v)
        BY <1>c, <3>2 DEF On
      <4>2. QED
        BY <3>2, <4>1 DEF Core, VolumeOutlivesFiles
    <3> HIDE DEF v
    <3>4. vcb[v] \in {Nobody, w}
      BY <1>c, <1>h, <3>1, <3>3
    <3>5. /\ vcb' \in [Vols -> {Nobody, Flusher, Scanner} \cup Files \cup Workers]
          /\ CurrentVcb' \in [Workers -> Vols \cup {NoVol}]
          /\ vcb'[v] = w /\ \A u \in Vols : u # v => vcb'[u] = vcb[u]
          /\ CurrentVcb'[w] = v
          /\ \A u \in Workers : u # w => CurrentVcb'[u] = CurrentVcb[u]
      BY <1>t, <3>1, <3>3
    <3>6. \A u \in Vols :
            \/ vcb'[u] = vcb[u]
            \/ (vcb[u] \in {Nobody, w} /\ vcb'[u] \in {Nobody, w})
      BY <3>4, <3>5
    <3>7. \A u \in Vols : condition[u] = "deleted" /\ vcb[u] = Nobody =>
            vcb'[u] = Nobody
      BY <3>3, <3>5
    <3>8. CurrentVcb'[w] # NoVol => vcb'[CurrentVcb'[w]] = w
      BY <3>5
    <3>9. "close" \in {"idle", "remove", "lock", "close", "end"}
      OBVIOUS
    <3>10. QED
      BY <1>1, <2>1, <3>5, <3>6, <3>7, <3>8, <3>9
  <2>4. QED
    BY <2>2, <2>3
<1>7. QED
  BY <1>3, <1>4, <1>5, <1>6

-----------------------------------------------------------------------------
(* Shut down only holds the global resource, the Vpb is swapped, or        *)
(* nothing happens.                                                        *)
LEMMA ShutdownSteps ==
  ASSUME Core,
         UNCHANGED <<fileVars, listVars, highVars, workerVars, OpenFileCount,
                     InternalOpenCount, CloseInProgress, condition, vcb, hand>>,
         ShutdownStarted' \in BOOLEAN, toFlush' \subseteq Vols,
         mounted' \subseteq Vols,
         global' \in {Nobody, Scanner, ShutsDown} \cup Files
  PROVE  Core'
<1>1. CountsAreExact' /\ HasFcb' /\ Lists' /\ Hands' /\ Flag'
  BY FilesRest, HandsRest, FlagKept
  DEF Core, fileVars, listVars, workerVars
<1>2. Holders' /\ VolumeOutlivesFiles'
  BY
  DEF Core, Holders, VolumeOutlivesFiles, Free, fileVars, workerVars
<1>3. TypeOK'
  BY DEF Core, TypeOK, fileVars, listVars, highVars, workerVars
<1>4. QED
  BY <1>1, <1>2, <1>3 DEF Core

LEMMA CoreStep == IInv /\ [Next]_vars => Core'
<1> SUFFICES ASSUME Core, Unmounted, DelaysUsers, [Next]_vars PROVE Core'
  BY DEF IInv
<1>1. ASSUME NEW f \in Files,
             \/ CreateEnRoute(f) \/ (\E c \in Fcbs : Create(f, c)) \/ Cleanup(f)
             \/ (\E call \in Calls : FsdClose(f, call)) \/ CloserStep(f)
      PROVE  Core'
  BY <1>1, MoveSteps, CreateSteps, QueueSteps, CommonCloseSteps, DismountSteps
  DEF CloserStep
<1>t. /\ global \in {Nobody, Scanner, ShutsDown} \cup Files /\ toFlush \subseteq Vols
      /\ ShutdownStarted \in BOOLEAN /\ mounted \subseteq Vols
  BY DEF Core, TypeOK
<1>f. ASSUME NEW v \in Vols, ForceDismount(v)
      PROVE  Core'
  BY <1>f, <1>t, ShutdownSteps DEF ForceDismount, SwapVpb, lockVars, shutdownVars
<1>2. ASSUME NEW v \in Vols,
             \/ Dismount(v) \/ (\E now \in BOOLEAN : ScanForDismountedVcb(v, now))
             \/ FspCloseVcb(v) \/ VolumeStep(v)
      PROVE  Core'
  BY <1>2, DismountSteps, VolumeSteps, VolumeTakes, HandSteps, DeleteSteps
  DEF VolumeStep
<1>3. ASSUME NEW w \in Workers, CloseWorker(w) \/ WorkerStep(w)
      PROVE  Core'
  BY <1>3, WorkerStarts, WorkerTakes, WorkerLocks, WorkerCloseSteps
  DEF WorkerStep
<1>4. CASE Shutdown
  BY <1>4, <1>t, ShutdownSteps DEF Shutdown, lockVars, volumeVars
<1>5. CASE ShutdownGlobal
  BY <1>5, <1>t, ShutdownSteps DEF ShutdownGlobal, shutdownVars, volumeVars
<1>6. ASSUME NEW v \in Vols, ShutdownVolume(v)
      PROVE  Core'
  BY <1>6, <1>t, ShutdownSteps DEF ShutdownVolume, volumeVars
<1>7. CASE UNCHANGED vars
  BY <1>7, <1>t, ShutdownSteps DEF vars, lockVars, shutdownVars, volumeVars
<1>8. QED
  BY <1>1, <1>f, <1>2, <1>3, <1>4, <1>5, <1>6, <1>7 DEF Next

-----------------------------------------------------------------------------
(* The Vpb of a volume is swapped before its deletion begins.              *)
LEMMA UnmountedStep == IInv /\ [Next]_vars => Unmounted'
<1> SUFFICES ASSUME Core, Unmounted, [Next]_vars PROVE Unmounted'
  BY DEF IInv
<1>c. /\ VolOf \in [Files -> Vols] /\ Nobody \notin Files /\ Nobody # Scanner
      /\ Flusher \notin Files /\ Flusher # Scanner /\ Scanner \notin Workers
      /\ \A f \in Files : f \notin Workers
  BY Constants
<1>t. /\ vcb \in [Vols -> {Nobody, Flusher, Scanner} \cup Files \cup Workers]
      /\ condition \in [Vols -> {"good", "bad", "deleted"}]
  BY DEF Core, TypeOK
<1>k. ASSUME mounted' \subseteq mounted,
             \A v \in Vols : \/ vcb'[v] = vcb[v]
                             \/ vcb'[v] \in {Nobody, Flusher} \cup Workers
                             \/ v \notin mounted',
             \A v \in Vols : \/ condition'[v] = condition[v]
                             \/ condition'[v] # "deleted"
                             \/ vcb[v] \in Files \cup {Scanner}
      PROVE  Unmounted'
  BY <1>c, <1>k DEF Unmounted
<1>1. ASSUME NEW f \in Files,
             \/ CreateEnRoute(f) \/ (\E c \in Fcbs : Create(f, c)) \/ Cleanup(f)
             \/ (\E call \in Calls : FsdClose(f, call)) \/ CloserStep(f)
      PROVE  Unmounted'
  <2>1. CASE \E now \in BOOLEAN : CheckForDismount(f, now)
    <3>1. /\ \/ vcb' = [vcb EXCEPT ![VolOf[f]] = f] /\ mounted' = mounted \ {VolOf[f]}
             \/ UNCHANGED <<vcb, mounted>>
          /\ UNCHANGED condition
      BY <2>1 DEF CheckForDismount, SwapVpb
    <3>2. QED
      BY <1>c, <1>t, <1>k, <3>1
  <2>2. CASE ~\E now \in BOOLEAN : CheckForDismount(f, now)
    <3>1. UNCHANGED <<vcb, mounted, condition>>
      BY <1>1, <2>2
      DEF CloserStep, CreateEnRoute, Create, Cleanup, FsdClose, PassDelayClose,
          QueueClose, CommonClosePends, CommonClose, AcquireGlobal, lockVars,
          volumeVars
    <3>2. QED
      BY <1>k, <3>1
  <2>3. QED
    BY <2>1, <2>2
<1>2. ASSUME NEW v \in Vols,
             \/ Dismount(v) \/ (\E now \in BOOLEAN : ScanForDismountedVcb(v, now))
             \/ FspCloseVcb(v) \/ VolumeStep(v) \/ ForceDismount(v)
      PROVE  Unmounted'
  <2>1. CASE Dismount(v)
    BY <1>t, <1>k, <2>1 DEF Dismount, lockVars
  <2>2. CASE \E now \in BOOLEAN : ScanForDismountedVcb(v, now)
    <3>1. /\ vcb' = [vcb EXCEPT ![v] = Scanner] /\ mounted' = mounted \ {v}
          /\ UNCHANGED condition
      BY <2>2 DEF ScanForDismountedVcb, SwapVpb
    <3>2. QED
      BY <1>t, <1>k, <3>1
  <2>3. CASE FspCloseVcb(v) \/ FspCloseVcbEnds(v)
    <3>1. PICK p \in {Nobody, Flusher} : vcb' = [vcb EXCEPT ![v] = p]
      BY <2>3 DEF FspCloseVcb, FspCloseVcbEnds
    <3>2. UNCHANGED <<mounted, condition>>
      BY <2>3 DEF FspCloseVcb, FspCloseVcbEnds, volumeVars
    <3>3. QED
      BY <1>t, <1>k, <3>1, <3>2
  <2>4. CASE RemoveVolumeClose(v) \/ CloseInHand(v)
    <3>1. UNCHANGED <<vcb, mounted, condition>>
      BY <2>4 DEF RemoveVolumeClose, CloseInHand, volumeVars
    <3>2. QED
      BY <1>k, <3>1
  <2>5. CASE DeleteVcb(v)
    <3>1. /\ vcb[v] \in Files \cup {Scanner} /\ vcb' = [vcb EXCEPT ![v] = Nobody]
          /\ UNCHANGED mounted
          /\ \A u \in Vols : u # v => condition'[u] = condition[u]
      BY <1>t, <2>5 DEF DeleteVcb
    <3>2. QED
      BY <1>t, <1>k, <3>1
  <2>6. CASE ForceDismount(v)
    BY <1>k, <2>6 DEF ForceDismount, SwapVpb, lockVars
  <2>7. QED
    BY <1>2, <2>1, <2>2, <2>3, <2>4, <2>5, <2>6 DEF VolumeStep
<1>3. ASSUME NEW w \in Workers, CloseWorker(w) \/ WorkerStep(w)
      PROVE  Unmounted'
  <2>1. UNCHANGED <<mounted, condition>>
    BY <1>3
    DEF WorkerStep, CloseWorker, RemoveClose, WorkerReleases, WorkerHolds,
        WorkerInShutdown, WorkerCloses, WorkerEnds, volumeVars
  <2>2. \A v \in Vols : vcb'[v] \in {vcb[v], Nobody, w}
    <3>1. CASE WorkerReleases(w) \/ WorkerEnds(w)
      BY <3>1 DEF WorkerReleases, WorkerEnds, ReleaseCurrentVcb
    <3>2. CASE WorkerHolds(w)
      BY <1>t, <3>2 DEF WorkerHolds, ReleaseCurrentVcb
    <3>3. CASE \/ CloseWorker(w) \/ RemoveClose(w) \/ WorkerInShutdown(w)
               \/ WorkerCloses(w)
      BY <3>3
      DEF CloseWorker, RemoveClose, WorkerInShutdown, WorkerCloses, lockVars
    <3>4. QED
      BY <1>3, <3>1, <3>2, <3>3 DEF WorkerStep
  <2>3. QED
    BY <1>k, <2>1, <2>2
<1>4. CASE \/ Shutdown \/ ShutdownGlobal \/ (\E v \in Vols : ShutdownVolume(v))
           \/ UNCHANGED vars
  <2>1. UNCHANGED <<vcb, mounted, condition>>
    BY <1>4
    DEF Shutdown, ShutdownGlobal, ShutdownVolume, vars, lockVars, volumeVars
  <2>2. QED
    BY <1>k, <2>1
<1>5. QED
  BY <1>1, <1>2, <1>3, <1>4 DEF Next

(* Only a close of a user file is passed on to be delayed.                 *)
LEMMA DelaysStep == IInv /\ [Next]_vars => DelaysUsers'
<1> SUFFICES ASSUME Core, DelaysUsers, [Next]_vars PROVE DelaysUsers'
  BY DEF IInv
<1>t. /\ state \in [Files -> States] /\ Streams \subseteq Files
      /\ Users \cap Streams = {}
  BY Constants DEF Core, TypeOK
<1>k. ASSUME \A g \in Streams : state'[g] = state[g] \/ state'[g] # "delay"
      PROVE  DelaysUsers'
  BY <1>k DEF DelaysUsers
<1>m. ASSUME NEW f, NEW s, s # "delay", MoveTo(f, s)
      PROVE  DelaysUsers'
  BY <1>t, <1>k, <1>m DEF MoveTo
<1>u. ASSUME UNCHANGED state
      PROVE  DelaysUsers'
  BY <1>k, <1>u
<1>d. ASSUME NEW f, Dequeue(f)
      PROVE  DelaysUsers'
  BY <1>d, <1>m DEF Dequeue
<1>1. ASSUME NEW f \in Files,
             \/ CreateEnRoute(f) \/ (\E c \in Fcbs : Create(f, c)) \/ Cleanup(f)
             \/ (\E call \in Calls : FsdClose(f, call)) \/ CloserStep(f)
      PROVE  DelaysUsers'
  <2>1. CASE \E now \in BOOLEAN : CheckForDismount(f, now)
    <3>1. PICK now \in BOOLEAN : CheckForDismount(f, now)
      BY <2>1
    <3>2. CASE MoveTo(f, "none")
      BY <1>m, <3>2
    <3>3. CASE state' = TearDownVcb(VolOf[f], now, [state EXCEPT ![f] = "dismount"])
      BY <1>t, <1>k, <3>3 DEF TearDownVcb
    <3>4. QED
      BY <3>1, <3>2, <3>3 DEF CheckForDismount
  <2>2. CASE \E call \in Calls : FsdClose(f, call)
    <3>1. PICK s \in Calls \cup {"post"} : MoveTo(f, s)
      BY <2>2 DEF FsdClose
    <3>2. QED
      BY <1>m, <3>1 DEF Calls
  <2>3. CASE PassDelayClose(f)
    <3>1. CASE f \in Users
      BY <1>t, <1>k, <2>3, <3>1 DEF PassDelayClose, MoveTo
    <3>2. CASE f \notin Users
      BY <1>m, <2>3, <3>2 DEF PassDelayClose, Delays
    <3>3. QED
      BY <3>1, <3>2
  <2>4. CASE \/ CreateEnRoute(f) \/ (\E c \in Fcbs : Create(f, c)) \/ Cleanup(f)
             \/ QueueClose(f) \/ CommonClosePends(f) \/ CommonClose(f)
             \/ AcquireGlobal(f)
    <3>1. PICK s \in {"enroute", "open", "none", "clean", "queued", "post",
                      "global", "check"} : MoveTo(f, s)
      BY <2>4
      DEF CreateEnRoute, Create, Cleanup, QueueClose, CommonClosePends,
          CommonClose, AcquireGlobal
    <3>2. QED
      BY <1>m, <3>1
  <2>5. QED
    BY <1>1, <2>1, <2>2, <2>3, <2>4 DEF CloserStep
<1>2. ASSUME NEW v \in Vols,
             \/ Dismount(v) \/ (\E now \in BOOLEAN : ScanForDismountedVcb(v, now))
             \/ FspCloseVcb(v) \/ VolumeStep(v) \/ ForceDismount(v)
      PROVE  DelaysUsers'
  <2>1. CASE \E now \in BOOLEAN : ScanForDismountedVcb(v, now)
    <3>1. PICK now \in BOOLEAN : state' = TearDownVcb(v, now, state)
      BY <2>1 DEF ScanForDismountedVcb
    <3>2. QED
      BY <1>t, <1>k, <3>1 DEF TearDownVcb
  <2>2. CASE \/ Dismount(v) \/ FspCloseVcb(v) \/ FspCloseVcbEnds(v)
             \/ ForceDismount(v)
    BY <1>u, <2>2
    DEF Dismount, FspCloseVcb, FspCloseVcbEnds, ForceDismount, fileVars
  <2>3. CASE RemoveVolumeClose(v)
    BY <1>d, <2>3 DEF RemoveVolumeClose
  <2>4. CASE CloseInHand(v)
    BY <1>m, <2>4 DEF CloseInHand
  <2>5. CASE DeleteVcb(v)
    BY <1>t, <1>k, <2>5 DEF DeleteVcb
  <2>6. QED
    BY <1>2, <2>1, <2>2, <2>3, <2>4, <2>5 DEF VolumeStep
<1>3. ASSUME NEW w \in Workers, CloseWorker(w) \/ WorkerStep(w)
      PROVE  DelaysUsers'
  <2>1. CASE RemoveClose(w)
    BY <1>d, <1>u, <2>1 DEF RemoveClose
  <2>2. CASE WorkerCloses(w)
    BY <1>m, <2>2 DEF WorkerCloses
  <2>3. CASE \/ CloseWorker(w) \/ WorkerReleases(w) \/ WorkerHolds(w)
             \/ WorkerInShutdown(w) \/ WorkerEnds(w)
    BY <1>u, <2>3
    DEF CloseWorker, WorkerReleases, WorkerHolds, WorkerInShutdown, WorkerEnds,
        fileVars
  <2>4. QED
    BY <1>3, <2>1, <2>2, <2>3 DEF WorkerStep
<1>4. CASE \/ Shutdown \/ ShutdownGlobal \/ (\E v \in Vols : ShutdownVolume(v))
           \/ UNCHANGED vars
  BY <1>u, <1>4 DEF Shutdown, ShutdownGlobal, ShutdownVolume, vars, fileVars
<1>5. QED
  BY <1>1, <1>2, <1>3, <1>4 DEF Next

LEMMA InvStep == IInv /\ [Next]_vars => IInv'
BY CoreStep, UnmountedStep, DelaysStep DEF IInv

LEMMA InitInv == Init => IInv
<1> SUFFICES ASSUME Init PROVE IInv
  OBVIOUS
<1>c. /\ Files = Users \cup Streams /\ Users \cap Streams = {} /\ NoFcb \notin Fcbs
      /\ Nobody \notin Files /\ Nobody # Scanner /\ Nobody \notin Workers
      /\ VolOf \in [Files -> Vols] /\ MaxDelayed \in Nat
  BY Constants
<1>1. \A v : Streams \cap On(v) \in SUBSET Files
  BY DEF On
<1>2. \A v \in Vols : Cardinality(Streams \cap On(v)) \in Nat
  BY <1>1, SubsetIsFinite
<1>3. \A f \in Files : /\ f \in Users => state[f] = "none"
                       /\ f \in Streams => state[f] = "open"
  BY <1>c DEF Init
<1>4. /\ \A v : /\ OpenUsers(v) = {} /\ Biased(v) = {}
               /\ OpenInternals(v) = Streams \cap On(v)
      /\ \A c : FilesOf(c) = {}
  BY <1>c, <1>3 DEF OpenUsers, Biased, OpenInternals, FilesOf, Referenced, On
<1>5. CountsAreExact
  <2>1. Cardinality({}) = 0
    BY FS_EmptySet
  <2>2. /\ \A v \in Vols : /\ OpenFileCount[v] = 0
                           /\ InternalOpenCount[v] = Cardinality(Streams \cap On(v))
        /\ \A c \in Fcbs : OpenCount[c] = 0
    BY DEF Init
  <2>3. \A v \in Vols :
          /\ OpenFileCount[v] = Cardinality(OpenUsers(v)) + Cardinality(Biased(v))
          /\ InternalOpenCount[v] = Cardinality(OpenInternals(v))
    BY <1>4, <2>1, <2>2
  <2>4. \A c \in Fcbs : OpenCount[c] = Cardinality(FilesOf(c))
    BY <1>4, <2>1, <2>2
  <2>5. QED
    BY <2>3, <2>4 DEF CountsAreExact
<1>6. HasFcb
  BY <1>c, <1>3 DEF HasFcb, Referenced, Init
<1>7. Lists /\ Hands
  BY DEF Lists, EntriesOf, Hands, Takes, Init
<1>8. Holders
  BY <1>c, <1>3 DEF Holders, Init
<1>9. Flag
  <2>1. Running = {} /\ FatCloseItem = 0 /\ ~AsyncCloseActive
    BY DEF Running, Init
  <2>2. AsyncCloseList = <<>> /\ Len(DelayedCloseList) = 0
    BY DEF Init
  <2>3. QED
    BY <1>c, <2>1, <2>2 DEF Flag
<1>10. VolumeOutlivesFiles
  BY DEF VolumeOutlivesFiles, Init
<1>11. state \in [Files -> States]
  BY DEF Init, States
<1>12. TypeOK
  <2>1. InternalOpenCount \in [Vols -> Nat]
    BY <1>2 DEF Init
  <2>2. /\ FcbOf \in [Users -> Fcbs \cup {NoFcb}] /\ DelayClose \in [Fcbs -> BOOLEAN]
        /\ OpenCount \in [Fcbs -> Nat] /\ OpenFileCount \in [Vols -> Nat]
        /\ AsyncCloseList \in Seq(Files) /\ DelayedCloseList \in Seq(Users)
        /\ wpc \in [Workers -> {"idle", "remove", "lock", "close", "end"}]
        /\ CurrentVcb \in [Workers -> Vols \cup {NoVol}]
        /\ wctx \in [Workers -> Files \cup {NoFile}]
    BY DEF Init
  <2>3. /\ vcb \in [Vols -> {Nobody, Flusher, Scanner} \cup Files \cup Workers]
        /\ hand \in [Vols -> Files \cup {NoFile}]
        /\ CloseInProgress \in [Vols -> BOOLEAN]
        /\ condition \in [Vols -> {"good", "bad", "deleted"}]
        /\ global \in {Nobody, Scanner, ShutsDown} \cup Files
        /\ mounted \subseteq Vols /\ toFlush \subseteq Vols
    BY DEF Init
  <2>4. /\ {AsyncCloseActive, HighAsync, HighDelayed, ShutdownStarted}
             \subseteq BOOLEAN
        /\ FatCloseItem \in {0, 1}
    BY DEF Init
  <2>5. QED
    BY <1>11, <2>1, <2>2, <2>3, <2>4 DEF TypeOK
<1>13. Unmounted /\ DelaysUsers
  BY <1>c, <1>3 DEF Unmounted, DelaysUsers, Init
<1>14. QED
  BY <1>5, <1>6, <1>7, <1>8, <1>9, <1>10, <1>12, <1>13 DEF IInv, Core

(* The inductive invariant, for any numbers of volumes, file objects, Fcbs *)
(* and threads.                                                            *)
THEOREM Invariance == Spec => []IInv
BY InitInv, InvStep, PTL DEF Spec

(* Type correctness: in particular no count of FatCommonClose ever drops   *)
(* below zero, and the work item of the closes is never queued twice.      *)
THEOREM TypeCorrect == Spec => []TypeOK
<1>1. IInv => TypeOK
  BY DEF IInv, Core
<1>2. QED
  BY <1>1, Invariance, PTL

(* OpenFileCount, InternalOpenCount and the Fcbs' OpenCount are the file   *)
(* objects that are not closed, whichever thread closes them.              *)
THEOREM CountsHold == Spec => []CountsAreExact
<1>1. IInv => CountsAreExact
  BY DEF IInv, Core
<1>2. QED
  BY <1>1, Invariance, PTL

(* AsyncCloseActive stands for one worker, queued or running, and is set   *)
(* while an async close waits or too many delayed ones do.                 *)
THEOREM OneWorker == Spec => []OneWorkerPerFlag
<1>1. IInv => OneWorkerPerFlag
  <2> SUFFICES ASSUME IInv PROVE OneWorkerPerFlag
    OBVIOUS
  <2>0. Flag
    BY DEF IInv, Core
  <2>1. Cardinality({}) = 0 /\ \A w : Cardinality({w}) = 1
    BY FS_EmptySet, FS_Singleton
  <2>2. CASE AsyncCloseActive
    <3>1. CASE FatCloseItem = 1 /\ Running = {}
      BY <2>1, <2>2, <3>1 DEF OneWorkerPerFlag
    <3>2. CASE FatCloseItem = 0 /\ \E w \in Workers : Running = {w}
      <4>1. Cardinality(Running) = 1
        BY <2>1, <3>2
      <4>2. QED
        BY <2>2, <3>2, <4>1 DEF OneWorkerPerFlag
    <3>3. QED
      BY <2>0, <2>2, <3>1, <3>2 DEF Flag
  <2>3. CASE ~AsyncCloseActive
    BY <2>0, <2>1, <2>3 DEF Flag, OneWorkerPerFlag
  <2>4. QED
    BY <2>2, <2>3
<1>2. QED
  BY <1>1, Invariance, PTL

(* FatCheckForDismount deletes a volume only when no file object, no close *)
(* and no thread refers to it any more.                                    *)
THEOREM VolumesOutlive == Spec => []VolumeOutlivesFiles
<1>1. IInv => VolumeOutlivesFiles
  BY DEF IInv, Core
<1>2. QED
  BY <1>1, Invariance, PTL
=============================================================================
