--------------------------- MODULE AweAllocProofs ---------------------------
(***************************************************************************)
(* Proofs about AweAlloc for any number of threads, any page size and any  *)
(* size of the file: the protection counters are exact, every mapping has  *)
(* one owner, copies stay in the file and pages stay where they are.       *)
(***************************************************************************)
EXTENDS AweAlloc, FiniteSetTheorems, SequenceTheorems, TLAPS

-----------------------------------------------------------------------------
(* Pages.                                                                  *)

(* PageBase rounds down to a multiple of the page size, by less than a     *)
(* page.                                                                   *)
LEMMA PageBaseFacts ==
  ASSUME NEW o \in Nat
  PROVE  /\ PageBase(o) \in Nat
         /\ PageBase(o) <= o
         /\ o < PageBase(o) + PageSize
         /\ \E q \in Nat : PageBase(o) = q * PageSize
<1> DEFINE q == o \div PageSize
           P == PageSize
<1>1. P \in Nat /\ P > 0
  BY AweAssumption
<1>2. q \in Nat /\ q * P <= o /\ o < q * P + P
  BY <1>1
<1>3. q * P \in Nat
  BY <1>1, <1>2
<1>4. QED
  BY <1>2, <1>3 DEF PageBase

(* Only one multiple of the page size is that near.                        *)
LEMMA PageBaseUnique ==
  ASSUME NEW o \in Nat, NEW k \in Nat,
         k * PageSize <= o, o < k * PageSize + PageSize
  PROVE  PageBase(o) = k * PageSize
<1> DEFINE P == PageSize
<1>1. P \in Nat /\ P > 0
  BY AweAssumption
<1>2. PICK q \in Nat : PageBase(o) = q * P
  BY PageBaseFacts
<1>3. q * P <= o /\ o < q * P + P
  BY <1>2, PageBaseFacts
<1>4. ~(q > k)
  <2> SUFFICES ASSUME q >= k + 1 PROVE FALSE
    OBVIOUS
  <2>1. q * P >= (k + 1) * P
    BY <1>1
  <2>2. (k + 1) * P = k * P + P
    BY <1>1
  <2>3. q * P \in Nat /\ k * P \in Nat
    BY <1>1
  <2>4. QED
    BY <2>1, <2>2, <2>3, <1>1, <1>3
<1>5. ~(k > q)
  <2> SUFFICES ASSUME k >= q + 1 PROVE FALSE
    OBVIOUS
  <2>1. k * P >= (q + 1) * P
    BY <1>1
  <2>2. (q + 1) * P = q * P + P
    BY <1>1
  <2>3. q * P \in Nat /\ k * P \in Nat
    BY <1>1
  <2>4. QED
    BY <2>1, <2>2, <2>3, <1>1, <1>3
<1>6. QED
  BY <1>2, <1>4, <1>5

(* Larger offsets are in no earlier page.                                  *)
LEMMA PageBaseMonotone ==
  ASSUME NEW a \in Nat, NEW b \in Nat, a <= b
  PROVE  PageBase(a) <= PageBase(b)
<1> DEFINE P == PageSize
<1>1. P \in Nat /\ P > 0
  BY AweAssumption
<1>2. PICK q \in Nat : PageBase(a) = q * P
  BY PageBaseFacts
<1>3. PICK r \in Nat : PageBase(b) = r * P
  BY PageBaseFacts
<1>4. q * P <= b /\ b < r * P + P
  BY <1>2, <1>3, PageBaseFacts
<1>5. ~(q > r)
  <2> SUFFICES ASSUME q >= r + 1 PROVE FALSE
    OBVIOUS
  <2>1. q * P >= (r + 1) * P
    BY <1>1
  <2>2. (r + 1) * P = r * P + P
    BY <1>1
  <2>3. q * P \in Nat /\ r * P \in Nat
    BY <1>1
  <2>4. QED
    BY <2>1, <2>2, <2>3, <1>1, <1>4
<1>6. q * P <= r * P
  BY <1>1, <1>5
<1>7. QED
  BY <1>2, <1>3, <1>6

(* A whole number of pages in front moves a page by as much.               *)
LEMMA PageBaseShift ==
  ASSUME NEW a \in Nat, NEW b \in Nat, PageBase(a) = a
  PROVE  PageBase(a + b) = a + PageBase(b)
<1> DEFINE P == PageSize
<1>1. P \in Nat /\ P > 0
  BY AweAssumption
<1>2. PICK q \in Nat : a = q * P
  BY PageBaseFacts
<1>3. PICK r \in Nat : PageBase(b) = r * P
  BY PageBaseFacts
<1>4. r * P <= b /\ b < r * P + P /\ r * P \in Nat
  BY <1>1, <1>3, PageBaseFacts
<1>5. (q + r) * P = q * P + r * P
  BY <1>1
<1>6. (q + r) * P <= a + b /\ a + b < (q + r) * P + P
  BY <1>1, <1>2, <1>4, <1>5
<1>7. PageBase(a + b) = (q + r) * P
  BY <1>6, PageBaseUnique
<1>8. QED
  BY <1>2, <1>3, <1>5, <1>7

(* The base of a page is its own base, and pages add up to pages.          *)
LEMMA PageBaseAligned ==
  ASSUME NEW a \in Nat, NEW b \in Nat, PageBase(a) = a
  PROVE  /\ PageBase(PageBase(b)) = PageBase(b)
         /\ PageBase(a + PageBase(b)) = a + PageBase(b)
<1>1. PICK r \in Nat : PageBase(b) = r * PageSize
  BY PageBaseFacts
<1>2. PageSize \in Nat /\ PageSize > 0 /\ r * PageSize \in Nat
  BY AweAssumption, <1>1, PageBaseFacts
<1>3. PageBase(PageBase(b)) = PageBase(b)
  BY <1>1, <1>2, PageBaseUnique
<1>4. QED
  BY <1>1, <1>2, <1>3, PageBaseShift

(* Whole pages are enough and end within a page.                           *)
LEMMA WholePagesFacts ==
  ASSUME NEW n \in Nat
  PROVE  /\ WholePages(n) \in Nat
         /\ n <= WholePages(n)
         /\ PageBase(WholePages(n)) = WholePages(n)
<1>1. PageSize \in Nat /\ PageSize > 0
  BY AweAssumption
<1>2. n + PageSize - 1 \in Nat
  BY <1>1
<1>3. PageBase(0) = 0
  BY <1>1, PageBaseUnique
<1>4. PageBase(n + PageSize - 1) \in Nat /\ n <= PageBase(n + PageSize - 1)
  <2>1. /\ PageBase(n + PageSize - 1) \in Nat
        /\ n + PageSize - 1 < PageBase(n + PageSize - 1) + PageSize
    BY <1>2, PageBaseFacts
  <2>2. QED
    BY <1>1, <2>1
<1>5. PageBase(PageBase(n + PageSize - 1)) = PageBase(n + PageSize - 1)
  BY <1>2, <1>3, PageBaseAligned
<1>6. QED
  BY <1>4, <1>5 DEF WholePages

(* A file that has whole pages and gets the pages that are missing up to n *)
(* has no more than the whole pages for n.                                 *)
LEMMA PagesEnough ==
  ASSUME NEW a \in Nat, NEW n \in Nat, NEW got \in Nat, PageBase(a) = a,
         a < n, got <= WholePages(n - a)
  PROVE  a + PageBase(got) <= WholePages(n)
<1>1. PageSize \in Nat /\ PageSize > 0
  BY AweAssumption
<1>2. n - a \in Nat /\ n - a + PageSize - 1 \in Nat
  BY <1>1
<1>3. WholePages(n - a) \in Nat /\ PageBase(WholePages(n - a)) = WholePages(n - a)
  BY <1>2, WholePagesFacts
<1>4. PageBase(got) <= WholePages(n - a)
  BY <1>3, PageBaseMonotone
<1>5. a + PageBase(n - a + PageSize - 1) = PageBase(a + (n - a + PageSize - 1))
  BY <1>2, PageBaseShift
<1>6. a + (n - a + PageSize - 1) = n + PageSize - 1
  BY <1>1
<1>7. PageBase(got) \in Nat
  BY PageBaseFacts
<1>8. QED
  BY <1>3, <1>4, <1>5, <1>6, <1>7 DEF WholePages

-----------------------------------------------------------------------------
(* Blocks.                                                                 *)

BlockSet == [offset : Sizes, count : 1 .. WholePages(MaxSize)]

(* A block that is put in front of the list is found for the pages from    *)
(* its offset on and hides no page before it.                              *)
LEMMA BlockAdded ==
  ASSUME blocks \in Seq(BlockSet), NEW b \in BlockSet, NEW base \in Nat,
         blocks' = <<b>> \o blocks
  PROVE  /\ base < b.offset => BlockOf(base)' = BlockOf(base)
         /\ base >= b.offset => BlockOf(base)' = b
<1>1. <<b>> \in Seq(BlockSet) /\ Len(<<b>>) = 1
  OBVIOUS
<1>2. /\ blocks' \in Seq(BlockSet)
      /\ Len(blocks') = Len(blocks) + 1
      /\ \A i \in 1 .. Len(blocks) + 1 :
           blocks'[i] = IF i = 1 THEN b ELSE blocks[i - 1]
  BY <1>1, ConcatProperties
<1>3. /\ Len(blocks) \in Nat
      /\ DOMAIN blocks = 1 .. Len(blocks)
      /\ DOMAIN blocks' = 1 .. Len(blocks) + 1
  BY <1>2
<1>4. b.offset \in Nat /\ \A i \in DOMAIN blocks : blocks[i].offset \in Nat
  <2>1. \A i \in DOMAIN blocks : blocks[i] \in BlockSet
    BY ElementOfSeq
  <2>2. \A c \in BlockSet : c.offset \in Nat
    BY AweAssumption DEF BlockSet, Sizes
  <2>3. QED
    BY <2>1, <2>2
<1>5. \A i \in 1 .. Len(blocks) : blocks'[i + 1] = blocks[i]
  BY <1>2, <1>3
<1>6. ASSUME base < b.offset PROVE BlockOf(base)' = BlockOf(base)
  <2>1. ASSUME NEW i \in DOMAIN blocks
        PROVE  FirstHit(i, base) <=> FirstHit(i + 1, base)'
    <3>1. ASSUME FirstHit(i, base) PROVE FirstHit(i + 1, base)'
      <4>1. ASSUME NEW j \in 1 .. i PROVE blocks'[j].offset > base
        <5>1. CASE j = 1
          BY <1>2, <1>3, <1>4, <1>6, <5>1
        <5>2. CASE j # 1
          <6>1. j - 1 \in 1 .. i - 1 /\ j \in 1 .. Len(blocks) + 1
            BY <1>3, <5>2
          <6>2. blocks'[j] = blocks[j - 1]
            BY <1>2, <5>2, <6>1
          <6>3. QED
            BY <3>1, <6>1, <6>2 DEF FirstHit
        <5>3. QED
          BY <5>1, <5>2
      <4>2. i + 1 - 1 = i
        BY <1>3
      <4>3. QED
        BY <1>5, <1>3, <3>1, <4>1, <4>2 DEF FirstHit
    <3>2. ASSUME FirstHit(i + 1, base)' PROVE FirstHit(i, base)
      <4>1. ASSUME NEW j \in 1 .. i - 1 PROVE blocks[j].offset > base
        BY <1>3, <1>5, <3>2 DEF FirstHit
      <4>2. QED
        BY <1>3, <1>5, <3>2, <4>1 DEF FirstHit
    <3>3. QED
      BY <3>1, <3>2
  <2>2. ~FirstHit(1, base)'
    BY <1>2, <1>3, <1>4, <1>6 DEF FirstHit
  <2>3. CASE \E i \in DOMAIN blocks : FirstHit(i, base)
    <3>1. PICK i \in DOMAIN blocks : FirstHit(i, base)
      BY <2>3
    <3>2. \A k \in DOMAIN blocks : FirstHit(k, base) => k = i
      BY <1>3, <1>4, <3>1 DEF FirstHit
    <3>3. BlockOf(base) = blocks[i]
      BY <3>1, <3>2 DEF BlockOf
    <3>4. i + 1 \in DOMAIN blocks' /\ FirstHit(i + 1, base)'
      BY <1>3, <2>1, <3>1
    <3>5. ASSUME NEW k \in DOMAIN blocks', FirstHit(k, base)' PROVE k = i + 1
      <4>1. k # 1
        BY <2>2, <3>5
      <4>2. k - 1 \in DOMAIN blocks /\ k = (k - 1) + 1
        BY <1>3, <4>1
      <4>3. FirstHit(k - 1, base)
        BY <2>1, <3>5, <4>2
      <4>4. QED
        BY <1>3, <3>2, <4>2, <4>3
    <3>6. BlockOf(base)' = blocks'[i + 1]
      BY <3>4, <3>5 DEF BlockOf
    <3>7. QED
      BY <1>3, <1>5, <3>3, <3>6
  <2>4. CASE ~\E i \in DOMAIN blocks : FirstHit(i, base)
    <3>1. ASSUME NEW k \in DOMAIN blocks' PROVE ~FirstHit(k, base)'
      <4>1. CASE k = 1
        BY <2>2, <4>1
      <4>2. CASE k # 1
        <5>1. k - 1 \in DOMAIN blocks /\ k = (k - 1) + 1
          BY <1>3, <4>2
        <5>2. QED
          BY <2>1, <2>4, <5>1
      <4>3. QED
        BY <4>1, <4>2
    <3>2. QED
      BY <2>4, <3>1 DEF BlockOf
  <2>5. QED
    BY <2>3, <2>4
<1>7. ASSUME base >= b.offset PROVE BlockOf(base)' = b
  <2>1. 1 \in DOMAIN blocks' /\ FirstHit(1, base)'
    BY <1>2, <1>3, <1>7 DEF FirstHit
  <2>2. \A k \in DOMAIN blocks' : FirstHit(k, base)' => k = 1
    BY <1>2, <1>3, <1>4, <1>7 DEF FirstHit
  <2>3. BlockOf(base)' = blocks'[1]
    BY <2>1, <2>2 DEF BlockOf
  <2>4. QED
    BY <1>2, <1>3, <2>3
<1>8. QED
  BY <1>6, <1>7

(* Blocks that stay hold the same pages.                                   *)
LEMMA BlocksStay ==
  ASSUME UNCHANGED blocks
  PROVE  /\ \A base : BlockOf(base)' = BlockOf(base)
         /\ \A base : Covered(base)' <=> Covered(base)
<1>1. \A i, base : FirstHit(i, base)' <=> FirstHit(i, base)
  BY DEF FirstHit
<1>2. \A base : BlockOf(base)' = BlockOf(base)
  BY <1>1 DEF BlockOf
<1>3. QED
  BY <1>2 DEF Covered

(* Every page from the old end of the memory to the new one is in the      *)
(* block that was added.                                                   *)
LEMMA CoversMore ==
  ASSUME blocks \in Seq(BlockSet), TotalSize \in Sizes, Covers,
         NEW got \in 1 .. WholePages(MaxSize),
         blocks' = <<[offset |-> TotalSize, count |-> got]>> \o blocks,
         TotalSize' = TotalSize + PageBase(got)
  PROVE  Covers'
<1> DEFINE b == [offset |-> TotalSize, count |-> got]
<1>1. MaxSize \in Nat /\ TotalSize \in Nat /\ WholePages(MaxSize) \in Nat
  BY AweAssumption, WholePagesFacts DEF Sizes
<1>2. got \in Nat /\ PageBase(got) \in Nat /\ PageBase(got) <= got
  BY <1>1, PageBaseFacts
<1>3. b \in BlockSet /\ b.offset = TotalSize /\ b.count = got
  BY DEF BlockSet
<1>4. SUFFICES ASSUME NEW base \in 0 .. TotalSize' - 1 PROVE Covered(base)'
  BY DEF Covers
<1>5. base \in Nat /\ base < TotalSize + PageBase(got)
  BY <1>1, <1>2
<1>6. CASE base < TotalSize
  <2>1. BlockOf(base)' = BlockOf(base)
    BY <1>3, <1>5, <1>6, BlockAdded
  <2>2. Covered(base)
    BY <1>1, <1>5, <1>6 DEF Covers
  <2>3. QED
    BY <2>1, <2>2 DEF Covered
<1>7. CASE base >= TotalSize
  <2>1. BlockOf(base)' = b
    BY <1>3, <1>5, <1>7, BlockAdded
  <2>2. QED
    BY <1>1, <1>2, <1>3, <1>5, <2>1 DEF Covered
<1>8. QED
  BY <1>1, <1>5, <1>6, <1>7

-----------------------------------------------------------------------------
(* Protections and mappings.                                               *)

Transfers == {t \in Threads : Transferring(t)}

Sizers == {t \in Threads : Sizing(t)}

(* Counting threads.                                                       *)
LEMMA Counts ==
  ASSUME NEW S \in SUBSET Threads, NEW t \in Threads
  PROVE  /\ Cardinality(S) \in Nat
         /\ Cardinality(S) = 0 <=> S = {}
         /\ t \notin S => Cardinality(S \cup {t}) = Cardinality(S) + 1
         /\ t \in S => Cardinality(S \ {t}) = Cardinality(S) - 1
         /\ t \in S /\ Cardinality(S) < 2 => S = {t}
<1>1. IsFiniteSet(S) /\ Cardinality(S) \in Nat
  BY AweAssumption, FS_Subset, FS_CardinalityType
<1>2. Cardinality(S) = 0 <=> S = {}
  BY <1>1, FS_EmptySet
<1>3. t \notin S => Cardinality(S \cup {t}) = Cardinality(S) + 1
  BY <1>1, FS_AddElement
<1>4. t \in S => Cardinality(S \ {t}) = Cardinality(S) - 1
  BY <1>1, FS_RemoveElement
<1>5. ASSUME t \in S, Cardinality(S) < 2 PROVE S = {t}
  <2>1. IsFiniteSet(S \ {t}) /\ Cardinality(S \ {t}) \in Nat
    BY <1>1, FS_Subset, FS_CardinalityType
  <2>2. Cardinality(S \ {t}) = 0
    BY <1>1, <1>4, <1>5, <2>1
  <2>3. S \ {t} = {}
    BY <2>1, <2>2, FS_EmptySet
  <2>4. QED
    BY <1>5, <2>3
<1>6. QED
  BY <1>1, <1>2, <1>3, <1>4, <1>5

(* There is a descriptor list for a new mapping: those in use, but for the *)
(* stored one, are no more than the threads.                               *)
LEMMA SpareMdl ==
  ASSUME Owners, mapped \subseteq Mdls
  PROVE  \E m \in Mdls : m \notin mapped \ {latest.mdl}
<1> DEFINE f == [t \in Threads |-> ctx[t].mdl]
           Img == {f[t] : t \in Threads}
<1>1. mapped \ {latest.mdl} \subseteq Img
  BY DEF Owners
<1>2. f \in Surjection(Threads, Img)
  BY DEF Surjection
<1>3. IsFiniteSet(Img) /\ Cardinality(Img) <= Cardinality(Threads)
  BY <1>2, AweAssumption, FS_Surjection
<1>4. SUFFICES ASSUME Mdls \subseteq mapped \ {latest.mdl} PROVE FALSE
  OBVIOUS
<1>5. Cardinality(Mdls) <= Cardinality(Img)
  BY <1>1, <1>3, <1>4, FS_Subset
<1>6. /\ Cardinality(Mdls) \in Nat
      /\ Cardinality(Threads) \in Nat
      /\ Cardinality(Img) \in Nat
  BY <1>3, AweAssumption, FS_CardinalityType
<1>7. QED
  BY <1>3, <1>5, <1>6, AweAssumption

(* The protection counters, said with the two sets.                        *)
LEMMA ProtectionSets ==
  ASSUME ProtectionIsExact
  PROVE  /\ Transfers \in SUBSET Threads /\ Sizers \in SUBSET Threads
         /\ ActiveReaders = lost + Cardinality(Transfers)
         /\ ActiveWriters = Cardinality(Sizers)
         /\ \A t \in Sizers : Transfers \subseteq {t} /\ Sizers \subseteq {t}
BY DEF ProtectionIsExact, Transfers, Sizers

(* The other way round, for the state after a step.                        *)
LEMMA ProtectionNext ==
  ASSUME ActiveReaders' = lost' + Cardinality(Transfers'),
         ActiveWriters' = Cardinality(Sizers'),
         \A t \in Sizers' : Transfers' \subseteq {t} /\ Sizers' \subseteq {t}
  PROVE  ProtectionIsExact'
<1>1. ASSUME NEW t \in Threads, Sizing(t)', NEW u \in Threads \ {t}
      PROVE  ~Transferring(u)' /\ ~Sizing(u)'
  BY <1>1 DEF Transfers, Sizers
<1>2. QED
  BY <1>1 DEF ProtectionIsExact, Transfers, Sizers

(* Nobody counted changes: neither do the counters.                        *)
LEMMA ProtectionStays ==
  ASSUME ProtectionIsExact, Transfers' = Transfers, Sizers' = Sizers,
         UNCHANGED lockVars
  PROVE  ProtectionIsExact'
BY ProtectionSets, ProtectionNext DEF lockVars

(* A thread that holds no protection gets a read protection if nobody      *)
(* changes the size.                                                       *)
LEMMA TransferBegins ==
  ASSUME ProtectionIsExact, NEW t \in Threads, ~Transferring(t), lost \in Nat,
         ~ReadBusy, Transfers' = Transfers \cup {t}, Sizers' = Sizers,
         Protect(1, 0)
  PROVE  ProtectionIsExact' /\ ActiveReaders' \in Nat /\ ActiveWriters' \in Nat
<1>1. t \notin Transfers
  BY DEF Transfers
<1>2. /\ Cardinality(Transfers) \in Nat
      /\ Cardinality(Transfers') = Cardinality(Transfers) + 1
      /\ Cardinality(Sizers) \in Nat
      /\ Cardinality(Sizers) = 0 <=> Sizers = {}
  BY <1>1, ProtectionSets, Counts
<1>3. Sizers = {}
  BY <1>2, ProtectionSets DEF ReadBusy
<1>4. /\ ActiveReaders' = lost' + Cardinality(Transfers')
      /\ ActiveWriters' = Cardinality(Sizers')
      /\ ActiveReaders' \in Nat /\ ActiveWriters' \in Nat
  BY <1>2, ProtectionSets DEF Protect
<1>5. QED
  BY <1>3, <1>4, ProtectionNext

(* A transfer that ends gives its protection back.                         *)
LEMMA TransferEnds ==
  ASSUME ProtectionIsExact, NEW t \in Threads, Transferring(t), lost \in Nat,
         Transfers' = Transfers \ {t}, Sizers' = Sizers, Protect(-1, 0)
  PROVE  ProtectionIsExact' /\ ActiveReaders' \in Nat /\ ActiveWriters' \in Nat
<1>1. t \in Transfers
  BY DEF Transfers
<1>2. /\ Cardinality(Transfers) \in Nat /\ Cardinality(Sizers) \in Nat
      /\ Cardinality(Transfers') = Cardinality(Transfers) - 1
      /\ Cardinality(Transfers) # 0
  BY <1>1, ProtectionSets, Counts
<1>3. /\ ActiveReaders' = lost' + Cardinality(Transfers')
      /\ ActiveWriters' = Cardinality(Sizers')
      /\ ActiveReaders' \in Nat /\ ActiveWriters' \in Nat
  BY <1>2, ProtectionSets DEF Protect
<1>4. QED
  BY <1>3, ProtectionNext, ProtectionSets

(* A thread gets a write protection if nobody else has one of any kind:    *)
(* a write that has its read protection, or a thread that has none.        *)
LEMMA SizingBegins ==
  ASSUME ProtectionIsExact, NEW t \in Threads, lost \in Nat,
         ~WriteBusy(Transferring(t)),
         Transfers' = Transfers, Sizers' = {t}, Protect(0, 1)
  PROVE  ProtectionIsExact' /\ ActiveReaders' \in Nat /\ ActiveWriters' \in Nat
<1>1. t \in Transfers <=> Transferring(t)
  BY DEF Transfers
<1>2. /\ Cardinality(Transfers) \in Nat /\ Cardinality(Sizers) \in Nat
      /\ Cardinality(Sizers) = 0 <=> Sizers = {}
      /\ Cardinality(Transfers) = 0 <=> Transfers = {}
      /\ t \in Transfers /\ Cardinality(Transfers) < 2 => Transfers = {t}
  BY ProtectionSets, Counts
<1>3. Cardinality({}) = 0 /\ Cardinality({t}) = 1
  BY FS_EmptySet, FS_Singleton
<1>4. Sizers = {} /\ Transfers \subseteq {t}
  BY <1>1, <1>2, ProtectionSets DEF WriteBusy
<1>5. /\ ActiveReaders' = lost' + Cardinality(Transfers')
      /\ ActiveWriters' = Cardinality(Sizers')
      /\ ActiveReaders' \in Nat /\ ActiveWriters' \in Nat
  BY <1>2, <1>3, <1>4, ProtectionSets DEF Protect
<1>6. QED
  BY <1>4, <1>5, ProtectionNext

(* A change of the size ends: alone, or with the transfer that wanted it.  *)
LEMMA SizingEnds ==
  ASSUME ProtectionIsExact, NEW t \in Threads, Sizing(t), lost \in Nat,
         Sizers' = Sizers \ {t},
         \/ Transfers' = Transfers /\ Protect(0, -1)
         \/ Transferring(t) /\ Transfers' = Transfers \ {t} /\ Protect(-1, -1)
  PROVE  ProtectionIsExact' /\ ActiveReaders' \in Nat /\ ActiveWriters' \in Nat
<1>1. t \in Sizers /\ (t \in Transfers <=> Transferring(t))
  BY DEF Transfers, Sizers
<1>2. /\ Cardinality(Transfers) \in Nat /\ Cardinality(Sizers) \in Nat
      /\ Cardinality(Sizers) # 0
      /\ Cardinality(Sizers') = Cardinality(Sizers) - 1
      /\ t \in Transfers =>
           /\ Cardinality(Transfers) # 0
           /\ Cardinality(Transfers \ {t}) = Cardinality(Transfers) - 1
  BY <1>1, ProtectionSets, Counts
<1>3. Sizers' = {}
  BY ProtectionSets, <1>1
<1>4. /\ ActiveReaders' = lost' + Cardinality(Transfers')
      /\ ActiveWriters' = Cardinality(Sizers')
      /\ ActiveReaders' \in Nat /\ ActiveWriters' \in Nat
  BY <1>1, <1>2, ProtectionSets DEF Protect
<1>5. QED
  BY <1>3, <1>4, ProtectionNext

-----------------------------------------------------------------------------
(* Every step of a request keeps the invariant.  First the steps by which *)
(* a request is refused or comes to its end.                               *)

(* What the provers need of the constants.                                 *)
LEMMA Constants ==
  /\ PageSize \in Nat \ {0} /\ MaxSize \in Nat /\ MaxLost \in Nat
  /\ WholePages(MaxSize) \in Nat /\ MaxSize <= WholePages(MaxSize)
  /\ NoMdl \notin Mdls
BY AweAssumption, WholePagesFacts

(* A request that is refused at once leaves no trace.                      *)
LEMMA Idles ==
  ASSUME IInv, NEW t \in Threads, pc[t] = "idle", Complete(t, "busy"),
         UNCHANGED <<file, contextVars, mapVars, lockVars>>
  PROVE  IInv'
<1> USE DEF contextVars, mapVars, lockVars, IInv
<1>1. TypeOK'
  BY Constants DEF Complete, Request, TypeOK, Sizes
<1>2. Phases'
  BY DEF Complete, Request, Phases, TypeOK
<1>3. ProtectionIsExact'
  <2>1. Transfers' = Transfers /\ Sizers' = Sizers
    BY DEF Complete, Request, Transfers, Sizers, Transferring, Sizing, TypeOK
  <2>2. QED
    BY <2>1, ProtectionStays
<1>4. Owners'
  BY DEF Complete, Request, Owners, TypeOK
<1>5. Extent'
  <2>1. Covers'
    BY BlocksStay DEF Covers, Extent
  <2>2. QED
    BY Constants, <2>1 DEF Complete, Request, Extent, Holds, End, Sizes, TypeOK
<1>6. Losses'
  BY DEF Complete, Request, Losses, PastEnd, TypeOK
<1>7. QED
  BY <1>1, <1>2, <1>3, <1>4, <1>5, <1>6

(* A transfer that holds no mapping and ends with an error gives its read  *)
(* protection back.                                                        *)
LEMMA TransferOver ==
  ASSUME IInv, NEW t \in Threads, Transferring(t), pc[t] # "size",
         ctx[t].mdl = NoMdl, NEW s \in {"busy", "memory"},
         Complete(t, s), Protect(-1, 0),
         UNCHANGED <<file, contextVars, mapVars>>
  PROVE  IInv'
<1> USE DEF contextVars, mapVars, IInv
<1>1. Transfers' = Transfers \ {t} /\ Sizers' = Sizers
  BY DEF Complete, Request, Transfers, Sizers, Transferring, Sizing, TypeOK
<1>2. ProtectionIsExact' /\ ActiveReaders' \in Nat /\ ActiveWriters' \in Nat
  BY Constants, <1>1, TransferEnds DEF TypeOK
<1>3. TypeOK'
  BY Constants, <1>2 DEF Complete, Request, Protect, TypeOK, Sizes
<1>4. Phases'
  BY DEF Complete, Request, Phases, TypeOK
<1>5. Owners'
  BY DEF Complete, Request, Owners, TypeOK
<1>6. Extent'
  <2>1. Covers'
    BY BlocksStay DEF Covers, Extent
  <2>2. QED
    BY Constants, <2>1 DEF Complete, Request, Extent, Holds, End, Sizes, TypeOK
<1>7. Losses'
  BY DEF Complete, Request, Protect, Losses, PastEnd, TypeOK
<1>8. QED
  BY <1>2, <1>3, <1>4, <1>5, <1>6, <1>7

(* Every step of the file keeps the invariant.                             *)
LEMMA InvStep == IInv /\ [Next]_vars => IInv'
<1> USE DEF contextVars, lockVars, mapVars, requestVars, IInv
<1> SUFFICES ASSUME IInv, [Next]_vars
             PROVE  IInv'
  OBVIOUS
<1>a. /\ PageSize \in Nat \ {0} /\ MaxSize \in Nat /\ MaxLost \in Nat
      /\ WholePages(MaxSize) \in Nat /\ MaxSize <= WholePages(MaxSize)
      /\ NoMdl \notin Mdls
  BY Constants
<1>l. lost \in Nat
  BY <1>a DEF TypeOK
<1>1. ASSUME NEW t \in Threads, Create(t)
      PROVE  IInv'
  <2>1. TypeOK'
    BY <1>1, <1>a DEF Create, TypeOK, Sizes, Contexts, NoPage
  <2>2. Phases'
    BY <1>1 DEF Create, Phases, TypeOK
  <2>3. ProtectionIsExact'
    <3>1. Transfers' = Transfers /\ Sizers' = Sizers
      BY <1>1
      DEF Create, Transfers, Sizers, Transferring, Sizing, Phases, TypeOK
    <3>2. QED
      BY <1>1, <3>1, ProtectionStays DEF Create
  <2>4. Owners'
    BY <1>1 DEF Create, Owners, Phases, TypeOK
  <2>5. Extent'
    <3>1. Covers'
      BY <1>1, BlocksStay DEF Create, Covers, Extent
    <3>2. QED
      BY <1>1, <1>a, <3>1 DEF Create, Extent, Holds, End, Sizes, TypeOK
  <2>6. Losses'
    BY <1>1, <1>a DEF Create, Losses, PastEnd, TypeOK, Sizes
  <2>7. QED
    BY <2>1, <2>2, <2>3, <2>4, <2>5, <2>6
<1>2. ASSUME NEW t \in Threads, NEW n \in Sizes, CreateFromImage(t, n)
      PROVE  IInv'
  <2>o. \A u \in Threads : pc[u] = "idle"
    BY <1>2 DEF CreateFromImage, Phases
  <2>1. TypeOK'
    BY <1>2, <1>a
    DEF CreateFromImage, Begin, Request, TypeOK, Sizes, Contexts, NoPage
  <2>2. Phases'
    BY <1>2, <2>o DEF CreateFromImage, Begin, Request, Phases, TypeOK
  <2>3. ProtectionIsExact'
    <3>1. Transfers' = Transfers /\ Sizers' = Sizers
      BY <1>2
      DEF CreateFromImage, Begin, Request, Transfers, Sizers, Transferring,
          Sizing, Phases, TypeOK
    <3>2. QED
      BY <1>2, <3>1, ProtectionStays DEF CreateFromImage, Begin, Request
  <2>4. Owners'
    BY <1>2 DEF CreateFromImage, Begin, Request, Owners, Phases, TypeOK
  <2>5. Extent'
    <3>1. Covers'
      BY <1>2, BlocksStay DEF CreateFromImage, Begin, Request, Covers, Extent
    <3>2. QED
      BY <1>2, <1>a, <3>1
      DEF CreateFromImage, Begin, Request, Extent, Holds, End, Sizes, TypeOK
  <2>6. Losses'
    BY <1>2, <1>a
    DEF CreateFromImage, Begin, Request, Losses, PastEnd, TypeOK, Sizes
  <2>7. QED
    BY <2>1, <2>2, <2>3, <2>4, <2>5, <2>6
<1>3. ASSUME NEW t \in Threads, NEW o \in {"READ", "WRITE"}, NEW f \in Sizes,
             NEW l \in Sizes, f + l <= MaxSize, o = "READ" => LostBound(f),
             ReadWrite(t, o, f, l)
      PROVE  IInv'
  <2>o. pc[t] = "idle" /\ file = "open"
    BY <1>3 DEF ReadWrite
  <2>c. CASE ReadBusy
    <3>1. /\ UNCHANGED <<file, contextVars, mapVars, lockVars>>
          /\ Complete(t, "busy")
      BY <1>3, <2>c DEF ReadWrite
    <3>2. QED
      BY <2>o, <3>1, Idles
  <2>d. CASE ~ReadBusy
    <3>o. /\ UNCHANGED <<file, contextVars, mapVars>>
          /\ Protect(1, 0) /\ Begin(t, o, f, l, "check")
      BY <1>3, <2>d DEF ReadWrite
    <3>1. Transfers' = Transfers \cup {t} /\ Sizers' = Sizers
      BY <2>o, <3>o
      DEF Begin, Request, Transfers, Sizers, Transferring, Sizing, TypeOK
    <3>2. ProtectionIsExact' /\ ActiveReaders' \in Nat /\ ActiveWriters' \in Nat
      BY <2>o, <2>d, <3>o, <3>1, <1>a, TransferBegins DEF Transferring, TypeOK
    <3>3. TypeOK'
      BY <3>o, <3>2, <1>a DEF Begin, Request, Protect, TypeOK, Sizes
    <3>4. Phases'
      BY <2>o, <3>o DEF Begin, Request, Phases, TypeOK
    <3>5. Owners'
      BY <2>o, <3>o DEF Begin, Request, Owners, TypeOK
    <3>6. Extent'
      <4>1. Covers'
        BY <3>o, BlocksStay DEF Covers, Extent
      <4>2. QED
        BY <1>3, <3>o, <4>1
        DEF Begin, Request, Extent, Holds, End, Sizes, TypeOK
    <3>7. Losses'
      BY <1>3, <2>o, <3>o, <1>a
      DEF Begin, Request, Protect, Losses, LostBound, PastEnd, TypeOK, Sizes
    <3>8. QED
      BY <3>2, <3>3, <3>4, <3>5, <3>6, <3>7
  <2>1. QED
    BY <2>c, <2>d
<1>4. ASSUME NEW t \in Threads, ReadPastEnd(t)
      PROVE  IInv'
  <2>o. /\ UNCHANGED <<file, contextVars, ActiveReaders, ActiveWriters, mapVars>>
        /\ lost' = lost + 1 /\ Complete(t, "eof")
        /\ pc[t] = "check" /\ op[t] = "READ" /\ PastEnd(t)
    BY <1>4 DEF ReadPastEnd, PastEnd
  <2>1. TypeOK'
    BY <1>4, <1>a, <2>o DEF Complete, Request, TypeOK, Losses, Sizes
  <2>2. Phases'
    BY <1>4 DEF ReadPastEnd, Complete, Request, Phases, TypeOK
  <2>3. ProtectionIsExact'
    <3>1. Transfers' = Transfers \ {t} /\ Sizers' = Sizers /\ t \in Transfers
      BY <2>o
      DEF Complete, Request, Transfers, Sizers, Transferring, Sizing, TypeOK
    <3>2. /\ Cardinality(Transfers) \in Nat
          /\ Cardinality(Transfers') = Cardinality(Transfers) - 1
      BY <3>1, ProtectionSets, Counts
    <3>3. ActiveReaders' = lost' + Cardinality(Transfers')
      BY <1>a, <2>o, <3>2, ProtectionSets DEF TypeOK
    <3>4. QED
      BY <2>o, <3>1, <3>3, ProtectionSets, ProtectionNext
  <2>4. Owners'
    BY <1>4 DEF ReadPastEnd, Complete, Request, Owners, TypeOK
  <2>5. Extent'
    <3>1. Covers'
      BY <2>o, BlocksStay DEF Covers, Extent
    <3>2. QED
      BY <1>a, <2>o, <3>1
      DEF Complete, Request, Extent, Holds, End, Sizes, TypeOK
  <2>6. Losses'
    BY <1>a, <2>o DEF Complete, Request, Losses, PastEnd, TypeOK
  <2>7. QED
    BY <2>1, <2>2, <2>3, <2>4, <2>5, <2>6
<1>5. ASSUME NEW t \in Threads, WithinFile(t)
      PROVE  IInv'
  <2>1. TypeOK'
    BY <1>5, <1>a DEF WithinFile, End, Phases, TypeOK, Sizes
  <2>2. Phases'
    BY <1>5 DEF WithinFile, End, Phases, TypeOK
  <2>3. ProtectionIsExact'
    <3>1. Transfers' = Transfers /\ Sizers' = Sizers
      BY <1>5
      DEF WithinFile, End, Transfers, Sizers, Transferring, Sizing, Phases,
          TypeOK
    <3>2. QED
      BY <1>5, <3>1, ProtectionStays DEF WithinFile, End
  <2>4. Owners'
    BY <1>5 DEF WithinFile, End, Owners, Phases, TypeOK
  <2>5. Extent'
    <3>1. Covers'
      BY <1>5, BlocksStay DEF WithinFile, End, Covers, Extent
    <3>2. QED
      BY <1>5, <1>a, <3>1
      DEF WithinFile, End, Extent, Phases, Holds, Sizes, TypeOK
  <2>6. Losses'
    BY <1>5, <1>a DEF WithinFile, End, Losses, PastEnd, TypeOK, Sizes
  <2>7. QED
    BY <2>1, <2>2, <2>3, <2>4, <2>5, <2>6
<1>6. ASSUME NEW t \in Threads, WritePastEnd(t)
      PROVE  IInv'
  <2>o. /\ UNCHANGED <<file, contextVars, mapVars>>
        /\ pc[t] = "check" /\ op[t] = "WRITE" /\ Transferring(t)
        /\ file = "open" /\ ctx[t].mdl = NoMdl
    BY <1>6 DEF WritePastEnd, Transferring, Phases, Owners
  <2>c. CASE Protect(-1, 0) /\ Complete(t, "busy")
    BY <2>o, <2>c, TransferOver
  <2>d. CASE ~WriteBusy(TRUE) /\ Protect(0, 1) /\ GoOn(t, "size")
    <3>1. Transfers' = Transfers /\ Sizers' = Sizers \cup {t}
      BY <2>o, <2>d DEF GoOn, Transfers, Sizers, Transferring, Sizing, TypeOK
    <3>2. Sizers = {}
      <4>1. ActiveWriters = 0
        BY <2>d DEF WriteBusy, TypeOK
      <4>2. QED
        BY <4>1, ProtectionSets, Counts
    <3>3. ProtectionIsExact' /\ ActiveReaders' \in Nat /\ ActiveWriters' \in Nat
      <4>1. ~WriteBusy(Transferring(t)) /\ Sizers' = {t}
        BY <2>o, <2>d, <3>1, <3>2 DEF WriteBusy
      <4>2. QED
        BY <1>l, <2>d, <3>1, <4>1, SizingBegins
    <3>4. TypeOK'
      BY <2>o, <2>d, <3>3 DEF GoOn, Protect, TypeOK
    <3>5. Phases'
      BY <2>o, <2>d DEF GoOn, Phases, TypeOK
    <3>6. Owners'
      BY <2>o, <2>d DEF GoOn, Owners, TypeOK
    <3>7. Extent'
      <4>1. Covers'
        BY <2>o, BlocksStay DEF Covers, Extent
      <4>2. QED
        BY <2>o, <2>d, <4>1 DEF GoOn, Extent, Holds, End, TypeOK
    <3>8. Losses'
      BY <2>o, <2>d DEF GoOn, Protect, Losses, PastEnd, TypeOK
    <3>9. QED
      BY <3>3, <3>4, <3>5, <3>6, <3>7, <3>8
  <2>1. QED
    BY <1>6, <2>c, <2>d DEF WritePastEnd
<1>7. ASSUME NEW t \in Threads, NEW n \in Sizes, SetInformation(t, n)
      PROVE  IInv'
  <2>o. pc[t] = "idle" /\ file = "open" /\ ~Transferring(t)
        /\ UNCHANGED <<file, contextVars, mapVars>>
    BY <1>7 DEF SetInformation, Transferring
  <2>c. CASE Complete(t, "busy") /\ UNCHANGED lockVars
    BY <2>o, <2>c, Idles
  <2>d. CASE ~WriteBusy(FALSE) /\ Protect(0, 1) /\ Begin(t, "SIZE", 0, n, "size")
    <3>1. Transfers' = Transfers /\ Sizers' = Sizers \cup {t}
      BY <2>o, <2>d
      DEF Begin, Request, Transfers, Sizers, Transferring, Sizing, TypeOK
    <3>2. Sizers = {}
      <4>1. ActiveWriters = 0
        BY <2>d DEF WriteBusy, TypeOK
      <4>2. QED
        BY <4>1, ProtectionSets, Counts
    <3>3. ProtectionIsExact' /\ ActiveReaders' \in Nat /\ ActiveWriters' \in Nat
      <4>1. ~WriteBusy(Transferring(t)) /\ Sizers' = {t}
        BY <2>o, <2>d, <3>1, <3>2 DEF WriteBusy
      <4>2. QED
        BY <1>l, <2>d, <3>1, <4>1, SizingBegins
    <3>4. TypeOK'
      BY <1>a, <2>o, <2>d, <3>3 DEF Begin, Request, Protect, TypeOK, Sizes
    <3>5. Phases'
      BY <2>o, <2>d DEF Begin, Request, Phases, TypeOK
    <3>6. Owners'
      BY <2>o, <2>d DEF Begin, Request, Owners, TypeOK
    <3>7. Extent'
      <4>1. Covers'
        BY <2>o, BlocksStay DEF Covers, Extent
      <4>2. QED
        BY <1>a, <2>o, <2>d, <4>1
        DEF Begin, Request, Extent, Holds, End, TypeOK, Sizes
    <3>8. Losses'
      BY <2>o, <2>d DEF Begin, Request, Protect, Losses, PastEnd, TypeOK
    <3>9. QED
      BY <3>3, <3>4, <3>5, <3>6, <3>7, <3>8
  <2>1. QED
    BY <1>7, <2>c, <2>d DEF SetInformation
<1>8. ASSUME NEW t \in Threads, Sized(t)
      PROVE  IInv'
  <2>o. /\ UNCHANGED <<file, TotalSize, blocks, mapVars>>
        /\ pc[t] = "size" /\ TotalSize >= End(t) /\ VirtualSize' = End(t)
    BY <1>8 DEF Sized
  <2>a. \A u \in Threads \ {t} : pc[u] = "idle"
    BY <1>8, <2>o DEF Phases, ProtectionIsExact, Transferring, Sizing, TypeOK
  <2>p. /\ pc' = [pc EXCEPT ![t] = IF op[t] = "SIZE" THEN "idle" ELSE "copy"]
        /\ op' = [op EXCEPT ![t] = IF op[t] = "SIZE" THEN "READ" ELSE op[t]]
        /\ off' = [off EXCEPT ![t] = IF op[t] = "SIZE" THEN 0 ELSE off[t]]
        /\ len' = [len EXCEPT ![t] = IF op[t] = "SIZE" THEN 0 ELSE len[t]]
        /\ done' = [done EXCEPT ![t] = IF op[t] = "SIZE" THEN 0 ELSE done[t]]
        /\ status' = [status EXCEPT ![t] = IF op[t] = "SIZE" THEN "success"
                                                              ELSE status[t]]
    BY <1>8 DEF Sized, Complete, Request, GoOn, TypeOK
  <2>3. ProtectionIsExact' /\ ActiveReaders' \in Nat /\ ActiveWriters' \in Nat
    <3>1. Transfers' = Transfers /\ Sizers' = Sizers \ {t}
      BY <2>o, <2>p DEF Transfers, Sizers, Transferring, Sizing, Phases, TypeOK
    <3>2. CASE op[t] = "LOAD"
      <4>1. t \notin Sizers
        BY <3>2 DEF Sizers, Sizing
      <4>2. UNCHANGED lockVars /\ Sizers' = Sizers
        BY <1>8, <3>1, <3>2, <4>1 DEF Sized
      <4>3. QED
        BY <3>1, <4>2, ProtectionStays DEF TypeOK
    <3>3. CASE op[t] # "LOAD"
      <4>1. Sizing(t) /\ Protect(0, -1)
        BY <1>8, <2>o, <3>3 DEF Sized, Sizing
      <4>2. QED
        BY <1>a, <3>1, <4>1, SizingEnds DEF TypeOK
    <3>4. QED
      BY <3>2, <3>3
  <2>1. TypeOK'
    <3>1. End(t) \in Sizes
      BY <1>a DEF End, Extent, TypeOK, Sizes
    <3>2. lost' = lost
      BY <1>8 DEF Sized, Protect
    <3>3. QED
      BY <1>a, <2>o, <2>p, <2>3, <3>1, <3>2 DEF TypeOK, Sizes
  <2>2. Phases'
    BY <2>o, <2>p DEF Phases, TypeOK
  <2>4. Owners'
    BY <2>o, <2>p DEF Owners, TypeOK
  <2>5. Extent'
    <3>1. Covers'
      BY <2>o, BlocksStay DEF Covers, Extent
    <3>2. QED
      BY <1>a, <2>o, <2>a, <2>p, <3>1 DEF Extent, Holds, End, Sizes, TypeOK
  <2>6. Losses'
    BY <2>o, <2>a, <2>p DEF Losses, PastEnd, TypeOK
  <2>7. QED
    BY <2>1, <2>2, <2>3, <2>4, <2>5, <2>6
<1>9. ASSUME NEW t \in Threads, NEW got \in 1 .. WholePages(MaxSize), AddBlock(t, got)
      PROVE  IInv'
  <2>o. /\ pc[t] = "size" /\ TotalSize < End(t)
        /\ got <= WholePages(End(t) - TotalSize)
        /\ blocks' = <<[offset |-> TotalSize, count |-> got]>> \o blocks
        /\ TotalSize' = TotalSize + PageBase(got)
        /\ UNCHANGED <<file, VirtualSize, lockVars, mapVars, requestVars, pc, status>>
    BY <1>9 DEF AddBlock
  <2>e. /\ End(t) \in Nat /\ End(t) <= MaxSize /\ TotalSize \in Nat /\ got \in Nat
        /\ PageBase(got) \in Nat /\ PageBase(TotalSize) = TotalSize
    <3>1. End(t) \in Nat /\ End(t) <= MaxSize
      BY <1>a DEF End, Extent, TypeOK, Sizes
    <3>2. TotalSize \in Nat /\ got \in Nat /\ PageBase(TotalSize) = TotalSize
      BY <1>a DEF Extent, TypeOK
    <3>3. QED
      BY <3>1, <3>2, PageBaseFacts
  <2>f. TotalSize \in Sizes
    BY <1>a, <2>e, <2>o DEF Sizes
  <2>g. TotalSize' \in Nat /\ TotalSize' <= WholePages(MaxSize)
    <3>1. TotalSize + PageBase(got) <= WholePages(End(t))
      BY <2>o, <2>e, PagesEnough
    <3>2. End(t) + PageSize - 1 \in Nat /\ MaxSize + PageSize - 1 \in Nat
          /\ End(t) + PageSize - 1 <= MaxSize + PageSize - 1
      BY <1>a, <2>e
    <3>3. WholePages(End(t)) <= WholePages(MaxSize)
      BY <3>2, PageBaseMonotone DEF WholePages
    <3>4. WholePages(End(t)) \in Nat
      BY <2>e, WholePagesFacts
    <3>5. QED
      BY <1>a, <2>o, <2>e, <3>1, <3>3, <3>4
  <2>1. TypeOK'
    <3>1. blocks' \in Seq([offset : Sizes, count : 1 .. WholePages(MaxSize)])
      <4>1. [offset |-> TotalSize, count |-> got]
              \in [offset : Sizes, count : 1 .. WholePages(MaxSize)]
        BY <2>f
      <4>2. QED
        BY <2>o, <4>1, ConcatProperties DEF TypeOK
    <3>2. QED
      BY <1>a, <2>o, <2>g, <3>1 DEF TypeOK
  <2>2. Phases'
    BY <2>o DEF Phases
  <2>3. ProtectionIsExact'
    BY <2>o DEF ProtectionIsExact, Transferring, Sizing
  <2>4. Owners'
    BY <2>o DEF Owners
  <2>5. Extent'
    <3>1. Covers'
      BY <2>f, <2>o, CoversMore DEF Extent, TypeOK, BlockSet
    <3>2. PageBase(TotalSize') = TotalSize'
      BY <2>e, <2>o, PageBaseAligned
    <3>3. VirtualSize' <= TotalSize'
      BY <1>a, <2>e, <2>o DEF Extent, TypeOK, Sizes
    <3>4. QED
      BY <2>o, <3>1, <3>2, <3>3 DEF Extent, Holds, End
  <2>6. Losses'
    BY <2>o DEF Losses, PastEnd
  <2>7. QED
    BY <2>1, <2>2, <2>3, <2>4, <2>5, <2>6
<1>10. ASSUME NEW t \in Threads, OutOfMemory(t)
       PROVE  IInv'
  <2>o. /\ UNCHANGED <<contextVars, mapVars>>
        /\ pc[t] = "size" /\ Complete(t, "memory")
        /\ file' = IF op[t] = "LOAD" THEN "failed" ELSE file
        /\ op[t] \in {"WRITE", "SIZE", "LOAD"}
    BY <1>10 DEF OutOfMemory, Phases
  <2>p. /\ op[t] = "WRITE" => Protect(-1, -1)
        /\ op[t] = "SIZE" => Protect(0, -1)
        /\ op[t] = "LOAD" => UNCHANGED lockVars
    BY <1>10 DEF OutOfMemory
  <2>3. ProtectionIsExact' /\ ActiveReaders' \in Nat /\ ActiveWriters' \in Nat
    <3>1. Transfers' = Transfers \ {t} /\ Sizers' = Sizers \ {t}
      BY <2>o
      DEF Complete, Request, Transfers, Sizers, Transferring, Sizing, TypeOK
    <3>2. t \in Transfers <=> op[t] = "WRITE"
      BY <2>o DEF Transfers, Transferring
    <3>3. t \in Sizers <=> op[t] # "LOAD"
      BY <2>o DEF Sizers, Sizing
    <3>4. CASE op[t] = "LOAD"
      <4>1. Transfers' = Transfers /\ Sizers' = Sizers
        BY <3>1, <3>2, <3>3, <3>4
      <4>2. QED
        BY <2>p, <3>4, <4>1, ProtectionStays DEF TypeOK
    <3>5. CASE op[t] = "SIZE"
      <4>1. Transfers' = Transfers /\ Sizing(t)
        BY <2>o, <3>1, <3>2, <3>5 DEF Sizing
      <4>2. QED
        BY <1>a, <2>p, <3>1, <3>5, <4>1, SizingEnds DEF TypeOK
    <3>6. CASE op[t] = "WRITE"
      <4>1. Transferring(t) /\ Sizing(t)
        BY <2>o, <3>6 DEF Sizing, Transferring
      <4>2. QED
        BY <1>a, <2>p, <3>1, <3>6, <4>1, SizingEnds DEF TypeOK
    <3>7. QED
      BY <2>o, <3>4, <3>5, <3>6
  <2>l. lost' = lost
    BY <2>o, <2>p DEF Protect
  <2>1. TypeOK'
    <3>1. file' \in {"none", "loading", "open", "failed"}
      BY <2>o DEF TypeOK
    <3>2. UNCHANGED <<contextVars, mapVars, lost>> /\ Complete(t, "memory")
      BY <2>o, <2>l
    <3>3. QED
      BY <1>a, <2>3, <3>1, <3>2 DEF Complete, Request, TypeOK, Sizes
  <2>2. Phases'
    BY <2>o DEF Complete, Request, Phases, TypeOK
  <2>4. Owners'
    BY <2>o DEF Complete, Request, Owners, TypeOK
  <2>5. Extent'
    <3>1. Covers'
      BY <2>o, BlocksStay DEF Covers, Extent
    <3>2. QED
      BY <1>a, <2>o, <3>1
      DEF Complete, Request, Extent, Holds, End, Sizes, TypeOK
  <2>6. Losses'
    BY <2>l, <2>o DEF Complete, Request, Losses, PastEnd, TypeOK
  <2>7. QED
    BY <2>1, <2>2, <2>3, <2>4, <2>5, <2>6
<1>11. ASSUME NEW t \in Threads, MapPage(t)
       PROVE  IInv'
  <2> DEFINE base == PageBase(off[t] + done[t])
             rest == mapped \ {latest.mdl}
             new  == CHOOSE m \in Mdls : m \notin rest
  <2>o. /\ UNCHANGED <<file, contextVars>>
        /\ pc[t] = "copy" /\ done[t] < len[t]
    BY <1>11 DEF MapPage
  <2>b. base \in Sizes /\ Covered(base)
    <3>1. /\ off[t] + done[t] \in Nat /\ off[t] + done[t] < TotalSize
          /\ off[t] + done[t] < MaxSize /\ TotalSize \in Nat
      BY <1>a, <2>o DEF Extent, End, TypeOK, Sizes
    <3>2. base \in Nat /\ base <= off[t] + done[t]
      BY <3>1, PageBaseFacts
    <3>3. base \in Sizes /\ base \in 0 .. TotalSize - 1
      BY <1>a, <3>1, <3>2 DEF Sizes
    <3>4. QED
      BY <3>3 DEF Extent, Covers
  <2>n. new \in Mdls /\ new \notin rest
    BY SpareMdl DEF TypeOK
  <2> HIDE DEF base, rest, new
  <2>g. ASSUME GoOn(t, "move"), UNCHANGED lockVars, Holds(ctx'[t], base),
               \A u \in Threads \ {t} : ctx'[u] = ctx[u]
        PROVE  Phases' /\ ProtectionIsExact' /\ Extent' /\ Losses'
    <3>1. Phases'
      BY <2>o, <2>g DEF GoOn, Phases, TypeOK
    <3>2. ProtectionIsExact'
      <4>1. Transfers' = Transfers /\ Sizers' = Sizers
        BY <2>o, <2>g
        DEF GoOn, Transfers, Sizers, Transferring, Sizing, TypeOK
      <4>2. QED
        BY <2>g, <4>1, ProtectionStays
    <3>3. Extent'
      <4>1. Covers'
        BY <2>o, BlocksStay DEF Covers, Extent
      <4>2. QED
        BY <2>o, <2>g, <4>1 DEF base, GoOn, Extent, End, TypeOK
    <3>4. Losses'
      BY <2>o, <2>g DEF GoOn, Losses, PastEnd, TypeOK
    <3>5. QED
      BY <3>1, <3>2, <3>3, <3>4
  <2>c. CASE /\ Holds(ctx[t], base) /\ UNCHANGED <<mapVars, lockVars>>
             /\ GoOn(t, "move")
    <3>1. TypeOK' /\ Owners'
      BY <2>c, <2>o DEF GoOn, Owners, TypeOK
    <3>2. QED
      BY <2>c, <2>g, <3>1
  <2>d. CASE /\ Holds(latest, base)
             /\ latest' = ctx[t] /\ ctx' = [ctx EXCEPT ![t] = latest]
             /\ GoOn(t, "move") /\ UNCHANGED <<mapped, lockVars>>
    <3>1. TypeOK'
      BY <2>d, <2>o DEF GoOn, TypeOK
    <3>2. Owners'
      BY <2>d, <2>o DEF GoOn, Owners, TypeOK
    <3>3. QED
      BY <2>d, <2>g, <3>1, <3>2 DEF TypeOK
  <2>e. CASE /\ latest' = ctx[t] /\ mapped' = rest \cup {new}
             /\ ctx' = [ctx EXCEPT ![t] = [mdl |-> new, base |-> base]]
             /\ GoOn(t, "move") /\ UNCHANGED lockVars
    <3>1. TypeOK'
      BY <2>b, <2>e, <2>n, <2>o DEF GoOn, TypeOK, Contexts, rest
    <3>2. Owners'
      BY <1>a, <2>e, <2>n, <2>o DEF GoOn, Owners, TypeOK, rest
    <3>3. Holds(ctx'[t], base)
      BY <1>a, <2>e, <2>n DEF Holds, TypeOK
    <3>4. QED
      BY <2>e, <2>g, <3>1, <3>2, <3>3 DEF TypeOK
  <2>f. CASE /\ latest' = ctx[t] /\ mapped' = rest
             /\ ctx' = [ctx EXCEPT ![t] = NoPage]
             /\ IF op[t] = "LOAD"
                THEN /\ pc' = [pc EXCEPT ![t] = "release"]
                     /\ status' = [status EXCEPT ![t] = "memory"]
                     /\ UNCHANGED <<lockVars, requestVars>>
                ELSE Complete(t, "memory") /\ Protect(-1, 0)
    <3>1. Owners'
      BY <1>a, <2>f, <2>o DEF Complete, Owners, NoPage, TypeOK, rest
    <3>2. Covers'
      BY <2>o, BlocksStay DEF Covers, Extent
    <3>3. latest' \in Contexts /\ ctx' \in [Threads -> Contexts] /\ mapped' \subseteq Mdls
      BY <1>a, <2>f DEF TypeOK, NoPage, Contexts, Sizes, rest
    <3>4. CASE op[t] = "LOAD"
      <4>1. TypeOK'
        BY <2>f, <2>o, <3>3, <3>4 DEF TypeOK
      <4>2. Phases'
        BY <2>f, <2>o, <3>4 DEF Phases, TypeOK
      <4>3. ProtectionIsExact'
        <5>1. Transfers' = Transfers /\ Sizers' = Sizers
          BY <2>f, <2>o, <3>4
          DEF Transfers, Sizers, Transferring, Sizing, TypeOK
        <5>2. QED
          BY <2>f, <3>4, <5>1, ProtectionStays
      <4>4. Extent'
        BY <2>f, <2>o, <3>2, <3>4 DEF Extent, Holds, End, TypeOK
      <4>5. Losses'
        BY <2>f, <2>o, <3>4 DEF Losses, PastEnd, TypeOK
      <4>6. QED
        BY <3>1, <4>1, <4>2, <4>3, <4>4, <4>5
    <3>5. CASE op[t] # "LOAD"
      <4>1. Complete(t, "memory") /\ Protect(-1, 0) /\ Transferring(t)
        BY <2>f, <2>o, <3>5 DEF Phases, Transferring
      <4>2. Transfers' = Transfers \ {t} /\ Sizers' = Sizers
        BY <2>o, <4>1
        DEF Complete, Request, Transfers, Sizers, Transferring, Sizing, TypeOK
      <4>3. /\ ProtectionIsExact'
            /\ ActiveReaders' \in Nat /\ ActiveWriters' \in Nat
        BY <1>l, <4>1, <4>2, TransferEnds
      <4>4. TypeOK'
        BY <1>a, <2>o, <3>3, <4>1, <4>3
        DEF Complete, Request, Protect, TypeOK, Sizes
      <4>5. Phases'
        BY <2>o, <4>1 DEF Complete, Request, Phases, TypeOK
      <4>6. Extent'
        BY <1>a, <2>f, <2>o, <3>2, <4>1
        DEF Complete, Request, Extent, Holds, End, Sizes, TypeOK
      <4>7. Losses'
        BY <2>o, <4>1 DEF Complete, Request, Protect, Losses, PastEnd, TypeOK
      <4>8. QED
        BY <3>1, <4>3, <4>4, <4>5, <4>6, <4>7
    <3>6. QED
      BY <3>4, <3>5
  <2>1. QED
    BY <1>11, <2>b, <2>c, <2>d, <2>e, <2>f DEF MapPage, base, rest, new
<1>12. ASSUME NEW t \in Threads, Move(t)
       PROVE  IInv'
  <2> DEFINE here == off[t] + done[t]
             step == IF op[t] = "LOAD" THEN PageSize ELSE len[t] - done[t]
             room == PageBase(here) + PageSize - here
             n == done[t] + IF step > room THEN room ELSE step
  <2>o. /\ pc[t] = "move"
        /\ UNCHANGED <<file, contextVars, lockVars, mapVars, op, off, len, status>>
        /\ pc' = [pc EXCEPT ![t] = "copy"]
        /\ done' = [done EXCEPT ![t] = n]
    BY <1>12 DEF Move
  <2>e. /\ done[t] \in Nat /\ off[t] \in Nat /\ len[t] \in Nat
        /\ done[t] < len[t] /\ off[t] + len[t] <= MaxSize
    BY <1>a, <2>o DEF Extent, End, TypeOK, Sizes
  <2>n. n \in 0 .. WholePages(MaxSize)
    <3>1. PageBase(here) \in Nat /\ PageBase(here) <= here
          /\ here < PageBase(here) + PageSize
      BY <2>e, PageBaseFacts
    <3>2. n \in Nat
      BY <1>a, <2>e, <3>1
    <3>3. off[t] + n <= PageBase(here) + PageSize
      BY <1>a, <2>e, <3>1
    <3>4. PageBase(here) + PageSize <= WholePages(MaxSize)
      <4>1. PageBase(PageSize) = PageSize
        BY <1>a, PageBaseUnique
      <4>2. PageBase(PageSize + here) = PageSize + PageBase(here)
        BY <1>a, <2>e, <4>1, PageBaseShift
      <4>3. PageSize + here <= MaxSize + PageSize - 1
        BY <1>a, <2>e
      <4>4. PageBase(PageSize + here) <= PageBase(MaxSize + PageSize - 1)
        BY <1>a, <2>e, <4>3, PageBaseMonotone
      <4>5. QED
        BY <1>a, <3>1, <4>2, <4>4 DEF WholePages
    <3>5. QED
      BY <1>a, <2>e, <3>1, <3>2, <3>3, <3>4
  <2> HIDE DEF n
  <2>1. TypeOK'
    BY <2>n, <2>o DEF TypeOK
  <2>2. Phases'
    BY <2>o DEF Phases, TypeOK
  <2>3. ProtectionIsExact'
    <3>1. Transfers' = Transfers /\ Sizers' = Sizers
      BY <2>o DEF Transfers, Sizers, Transferring, Sizing, TypeOK
    <3>2. QED
      BY <2>o, <3>1, ProtectionStays
  <2>4. Owners'
    BY <2>o DEF Owners, TypeOK
  <2>5. Extent'
    <3>1. Covers'
      BY <2>o, BlocksStay DEF Covers, Extent
    <3>2. QED
      BY <2>o, <3>1 DEF Extent, Holds, End, TypeOK
  <2>6. Losses'
    BY <2>o DEF Losses, PastEnd, TypeOK
  <2>7. QED
    BY <2>1, <2>2, <2>3, <2>4, <2>5, <2>6
<1>13. ASSUME NEW t \in Threads, ImageReadFails(t)
       PROVE  IInv'
  <2>1. TypeOK'
    BY <1>13, <1>a DEF ImageReadFails, TypeOK, Sizes, Contexts, NoPage
  <2>2. Phases'
    BY <1>13 DEF ImageReadFails, Phases, TypeOK
  <2>3. ProtectionIsExact'
    <3>1. Transfers' = Transfers /\ Sizers' = Sizers
      BY <1>13
      DEF ImageReadFails, Transfers, Sizers, Transferring, Sizing, Phases,
          TypeOK
    <3>2. QED
      BY <1>13, <3>1, ProtectionStays DEF ImageReadFails
  <2>4. Owners'
    BY <1>13 DEF ImageReadFails, Owners, Phases, TypeOK
  <2>5. Extent'
    <3>1. Covers'
      BY <1>13, BlocksStay DEF ImageReadFails, Covers, Extent
    <3>2. QED
      BY <1>13, <1>a, <3>1
      DEF ImageReadFails, Extent, Holds, End, Sizes, TypeOK
  <2>6. Losses'
    BY <1>13, <1>a DEF ImageReadFails, Losses, PastEnd, TypeOK, Sizes
  <2>7. QED
    BY <2>1, <2>2, <2>3, <2>4, <2>5, <2>6
<1>14. ASSUME NEW t \in Threads, Copied(t)
       PROVE  IInv'
  <2>1. TypeOK'
    BY <1>14, <1>a DEF Copied, TypeOK, Sizes, Contexts, NoPage
  <2>2. Phases'
    BY <1>14 DEF Copied, Phases, TypeOK
  <2>3. ProtectionIsExact'
    <3>1. Transfers' = Transfers /\ Sizers' = Sizers
      BY <1>14
      DEF Copied, Transfers, Sizers, Transferring, Sizing, Phases, TypeOK
    <3>2. QED
      BY <1>14, <3>1, ProtectionStays DEF Copied
  <2>4. Owners'
    BY <1>14 DEF Copied, Owners, Phases, TypeOK
  <2>5. Extent'
    <3>1. Covers'
      BY <1>14, BlocksStay DEF Copied, Covers, Extent
    <3>2. QED
      BY <1>14, <1>a, <3>1 DEF Copied, Extent, Holds, End, Sizes, TypeOK
  <2>6. Losses'
    BY <1>14, <1>a DEF Copied, Losses, PastEnd, TypeOK, Sizes
  <2>7. QED
    BY <2>1, <2>2, <2>3, <2>4, <2>5, <2>6
<1>15. ASSUME NEW t \in Threads, Release(t)
       PROVE  IInv'
  <2>o. /\ pc[t] = "release" /\ Complete(t, status[t]) /\ UNCHANGED contextVars
        /\ latest' = ctx[t] /\ mapped' = mapped \ {latest.mdl}
        /\ ctx' = [ctx EXCEPT ![t] = NoPage]
        /\ op[t] \in {"READ", "WRITE", "LOAD"}
    BY <1>15 DEF Release, Phases
  <2>f. file' \in {"none", "loading", "open", "failed"}
        /\ (op[t] # "LOAD" => file' = file)
    BY <1>15, <2>o DEF Release, TypeOK
  <2>3. /\ ProtectionIsExact' /\ lost' = lost
        /\ ActiveReaders' \in Nat /\ ActiveWriters' \in Nat
    <3>1. Transfers' = Transfers \ {t} /\ Sizers' = Sizers
      BY <2>o
      DEF Complete, Request, Transfers, Sizers, Transferring, Sizing, TypeOK
    <3>2. CASE op[t] = "LOAD"
      <4>1. UNCHANGED lockVars /\ Transfers' = Transfers
        BY <1>15, <3>1, <3>2 DEF Release, Transfers, Transferring
      <4>2. QED
        BY <3>1, <4>1, ProtectionStays DEF TypeOK
    <3>3. CASE op[t] # "LOAD"
      <4>1. Protect(-1, 0) /\ Transferring(t)
        BY <1>15, <2>o, <3>3 DEF Release, Transferring
      <4>2. QED
        BY <1>l, <3>1, <4>1, TransferEnds DEF Protect
    <3>4. QED
      BY <3>2, <3>3
  <2>1. TypeOK'
    <3>1. latest' \in Contexts /\ ctx' \in [Threads -> Contexts]
      BY <1>a, <2>o DEF TypeOK, NoPage, Contexts, Sizes
    <3>2. QED
      BY <1>a, <2>f, <2>o, <2>3, <3>1 DEF Complete, Request, TypeOK, Sizes
  <2>2. Phases'
    BY <2>f, <2>o DEF Complete, Request, Phases, TypeOK
  <2>4. Owners'
    BY <1>a, <2>o DEF Complete, Owners, NoPage, TypeOK
  <2>5. Extent'
    <3>1. Covers'
      BY <2>o, BlocksStay DEF Covers, Extent
    <3>2. QED
      BY <1>a, <2>o, <3>1
      DEF Complete, Request, Extent, Holds, End, Sizes, TypeOK
  <2>6. Losses'
    BY <2>o, <2>3 DEF Complete, Request, Losses, PastEnd, TypeOK
  <2>7. QED
    BY <2>1, <2>2, <2>3, <2>4, <2>5, <2>6
<1>16. ASSUME Close
       PROVE  IInv'
  <2>o. \A t \in Threads : pc[t] = "idle" /\ ctx[t].mdl = NoMdl
    BY <1>16 DEF Close, Owners
  <2>1. TypeOK'
    BY <1>16, <1>a DEF Close, TypeOK, NoPage, Contexts, Sizes
  <2>2. Phases'
    BY <1>16, <2>o DEF Close, Phases
  <2>3. ProtectionIsExact'
    <3>1. Transfers' = {} /\ Sizers' = {}
      BY <1>16, <2>o DEF Close, Transfers, Sizers, Transferring, Sizing
    <3>2. Cardinality({}) = 0
      BY FS_EmptySet
    <3>3. QED
      BY <1>16, <3>1, <3>2, ProtectionNext DEF Close
  <2>4. Owners'
    BY <1>16, <2>o DEF Close, Owners, NoPage
  <2>5. Extent'
    <3>1. PageBase(0) = 0
      BY <1>a, PageBaseUnique
    <3>2. Covers'
      BY <1>16 DEF Close, Covers
    <3>3. QED
      BY <1>16, <1>a, <2>o, <3>1, <3>2 DEF Close, Extent, End, TypeOK, Sizes
  <2>6. Losses'
    BY <1>16, <2>o DEF Close, Losses, PastEnd
  <2>7. QED
    BY <2>1, <2>2, <2>3, <2>4, <2>5, <2>6
<1>17. ASSUME UNCHANGED vars
       PROVE  IInv'
  <2>1. Covers'
    BY <1>17, BlocksStay DEF vars, Covers, Extent
  <2>2. Transfers' = Transfers /\ Sizers' = Sizers
    BY <1>17 DEF vars, Transfers, Sizers, Transferring, Sizing
  <2>3. ProtectionIsExact'
    BY <1>17, <2>2, ProtectionStays DEF vars
  <2>4. TypeOK' /\ Phases' /\ Owners' /\ Losses'
    BY <1>17 DEF vars, TypeOK, Phases, Owners, Losses, PastEnd
  <2>5. Extent'
    BY <1>17, <2>1 DEF vars, Extent, Holds, End
  <2>6. QED
    BY <2>3, <2>4, <2>5
<1>18. QED
  BY <1>1, <1>2, <1>3, <1>4, <1>5, <1>6, <1>7, <1>8, <1>9, <1>10, <1>11,
     <1>12, <1>13, <1>14, <1>15, <1>16, <1>17
  DEF Next, Send, Step

(* A file object that does not exist yet satisfies the invariant.            *)
LEMMA InitInv == Init => IInv
<1> SUFFICES ASSUME Init PROVE IInv
  OBVIOUS
<1>1. TypeOK
  BY Constants DEF Init, TypeOK, Sizes, NoPage, Contexts
<1>2. Phases /\ Owners /\ Losses
  BY DEF Init, Phases, Owners, Losses, PastEnd, NoPage
<1>3. ProtectionIsExact
  <2>1. Transfers = {} /\ Sizers = {}
    BY DEF Init, Transfers, Sizers, Transferring, Sizing
  <2>2. Cardinality({}) = 0
    BY FS_EmptySet
  <2>3. /\ ActiveReaders = lost + Cardinality(Transfers)
        /\ ActiveWriters = Cardinality(Sizers)
    BY <2>1, <2>2 DEF Init
  <2>4. \A t \in Threads : ~Sizing(t)
    BY DEF Init, Sizing
  <2>5. QED
    BY <2>3, <2>4 DEF ProtectionIsExact, Transfers, Sizers
<1>4. Extent
  <2>1. PageBase(0) = 0
    BY Constants, PageBaseUnique
  <2>2. QED
    BY Constants, <2>1 DEF Init, Extent, Covers, End
<1>5. QED
  BY <1>1, <1>2, <1>3, <1>4 DEF IInv

-----------------------------------------------------------------------------
(* The inductive invariant holds of every behaviour, whatever the number   *)
(* of threads and the size of pages and files.                             *)
THEOREM Invariance == Spec => []IInv
BY InitInv, InvStep, PTL DEF Spec

(* The variables keep their types: TotalSize never exceeds the whole pages *)
(* of the largest request and a block's offset is one a request can have.  *)
THEOREM TypeCorrect == Spec => []TypeOK
<1>1. IInv => TypeOK
  BY DEF IInv
<1>2. QED
  BY <1>1, Invariance, PTL

(* AWEAllocTryAcquireProtection and AWEAllocReleaseProtection balance on   *)
(* every path but the read beyond the end, and a change of the size is     *)
(* alone with the file.                                                    *)
THEOREM ProtectionHolds == Spec => []ProtectionIsExact
<1>1. IInv => ProtectionIsExact
  BY DEF IInv
<1>2. QED
  BY <1>1, Invariance, PTL

(* AWEAllocMapPage's exchanges of LatestPageContext neither lose nor share *)
(* a mapping.                                                              *)
THEOREM OneOwner == Spec => []MappingsOwnedOnce
<1>1. ASSUME IInv PROVE MappingsOwnedOnce
  <2> SUFFICES ASSUME NEW m \in Mdls
               PROVE  Holders(m) = IF m \in mapped THEN 1 ELSE 0
    BY DEF MappingsOwnedOnce
  <2> DEFINE H == {t \in Threads : ctx[t].mdl = m}
  <2>0. m # NoMdl
    BY Constants
  <2>1. Cardinality({}) = 0 /\ \A t : Cardinality({t}) = 1
    BY FS_EmptySet, FS_Singleton
  <2>2. CASE m \notin mapped
    <3>1. H = {} /\ latest.mdl # m
      BY <1>1, <2>0, <2>2 DEF IInv, Owners
    <3>2. QED
      BY <2>1, <2>2, <3>1 DEF Holders
  <2>3. CASE m \in mapped /\ latest.mdl = m
    <3>1. H = {}
      BY <1>1, <2>0, <2>3 DEF IInv, Owners
    <3>2. QED
      BY <2>1, <2>3, <3>1 DEF Holders
  <2>4. CASE m \in mapped /\ latest.mdl # m
    <3>1. PICK t \in Threads : ctx[t].mdl = m
      BY <1>1, <2>4 DEF IInv, Owners
    <3>2. H = {t}
      BY <1>1, <2>0, <3>1 DEF IInv, Owners
    <3>3. Cardinality(H) = 1
      BY <2>1, <3>2
    <3>4. QED
      BY <2>4, <3>3 DEF Holders
  <2>5. QED
    BY <2>2, <2>3, <2>4
<1>2. QED
  BY <1>1, Invariance, PTL

(* A copy goes through a mapping of its own page, the page is in a block   *)
(* of the file, and the internal errors of AWEAllocMapPage do not happen.  *)
THEOREM CopiesStayInFile == Spec => []CopiesAreInTheFile
<1>1. ASSUME IInv PROVE CopiesAreInTheFile
  <2>1. ASSUME NEW t \in Threads, pc[t] \in {"copy", "move"}, done[t] < len[t]
        PROVE  Covered(PageBase(off[t] + done[t]))
    <3>1. /\ off[t] + done[t] \in Nat /\ off[t] + done[t] < TotalSize
          /\ TotalSize \in Nat
      BY <1>1, <2>1, Constants DEF IInv, Extent, End, TypeOK, Sizes
    <3>2. /\ PageBase(off[t] + done[t]) \in Nat
          /\ PageBase(off[t] + done[t]) <= off[t] + done[t]
      BY <3>1, PageBaseFacts
    <3>3. PageBase(off[t] + done[t]) \in 0 .. TotalSize - 1
      BY <3>1, <3>2
    <3>4. QED
      BY <1>1, <3>3 DEF IInv, Extent, Covers
  <2>2. QED
    BY <1>1, <2>1 DEF IInv, Extent, CopiesAreInTheFile
<1>2. QED
  BY <1>1, Invariance, PTL

(* AWEAllocAddBlock hides no page that was there: while the file object    *)
(* lives, an offset below TotalSize leads to the same block.               *)
THEOREM PagesDoNotMove == Spec => PagesStay
<1> DEFINE Stay == file' = file =>
             \A base \in 0 .. TotalSize - 1 : PageIsWhere(base)' = PageIsWhere(base)
<1>1. ASSUME IInv, [Next]_vars PROVE [Stay]_vars
  <2>1. CASE UNCHANGED blocks
    BY <2>1, BlocksStay DEF PageIsWhere
  <2>2. ASSUME NEW t \in Threads, NEW got \in 1 .. WholePages(MaxSize),
               AddBlock(t, got), NEW base \in 0 .. TotalSize - 1
        PROVE  PageIsWhere(base)' = PageIsWhere(base)
    <3>1. /\ TotalSize \in Nat /\ TotalSize < End(t)
          /\ blocks' = <<[offset |-> TotalSize, count |-> got]>> \o blocks
      BY <1>1, <2>2, Constants DEF AddBlock, IInv, TypeOK
    <3>2. TotalSize \in Sizes
      BY <1>1, <3>1, Constants DEF IInv, Extent, End, TypeOK, Sizes
    <3>3. [offset |-> TotalSize, count |-> got] \in BlockSet
      BY <3>2 DEF BlockSet
    <3>4. blocks \in Seq(BlockSet)
      BY <1>1 DEF IInv, TypeOK, BlockSet
    <3>5. base \in Nat /\ base < TotalSize
      BY <3>1
    <3>6. BlockOf(base)' = BlockOf(base)
      BY <3>1, <3>3, <3>4, <3>5, BlockAdded
    <3>7. QED
      BY <3>6 DEF PageIsWhere
  <2>3. CASE Close
    BY <2>3 DEF Close
  <2>4. CASE UNCHANGED vars
    BY <2>1, <2>4 DEF vars, contextVars
  <2>5. ASSUME NEW t \in Threads, Send(t) PROVE UNCHANGED blocks
    BY <2>5
    DEF Send, Create, CreateFromImage, SetInformation, ReadWrite, contextVars
  <2>6. ASSUME NEW t \in Threads, Step(t),
               ~\E got \in 1 .. WholePages(MaxSize) : AddBlock(t, got)
        PROVE  UNCHANGED blocks
    BY <2>6
    DEF Step, ReadPastEnd, WithinFile, WritePastEnd, Sized, OutOfMemory,
                MapPage, Move, ImageReadFails, Copied, Release, contextVars
  <2>7. QED
    BY <1>1, <2>1, <2>2, <2>3, <2>4, <2>5, <2>6 DEF Next
<1>2. QED
  BY <1>1, Invariance, PTL DEF Spec, PagesStay
=============================================================================
