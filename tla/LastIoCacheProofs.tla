-------------------------- MODULE LastIoCacheProofs --------------------------
(***************************************************************************)
(* Proofs about LastIoCache for disks of any size and any number of        *)
(* requests: copies stay in the last-I/O buffer, what is published in it   *)
(* is what the image holds, and a read of a serial disk returns what its   *)
(* blocks held while it was in progress.                                   *)
(***************************************************************************)
EXTENDS LastIoCache, SequenceTheorems, TLAPS

(* What the provers need of the constants.                                 *)
LEMMA Constants ==
  /\ Blocks \in Nat \ {0} /\ Offsets = 0 .. Blocks - 1 /\ Offsets \subseteq Nat
  /\ Sent \subseteq {"READ", "WRITE", "FORMAT"}
  /\ {ByteSwap, Sparse, TornLookups} \subseteq BOOLEAN
  /\ Parallel \in {"no", "buffered", "direct"}
  /\ Values \subseteq Block /\ NoReq \notin Reqs
BY ConstantsAssumption DEF Offsets

(* Blocks and the bytes they are made of.                                  *)
LEMMA BlockFacts ==
  /\ Zero \in Block /\ Fill \in Block /\ Junk \in Block
  /\ \A b \in Block : Swap(b) \in Block
BY DEF Zero, Fill, Junk, Block, Bytes, Swap

(* A buffer as it comes from ExAllocatePoolWithTag.                        *)
LEMMA FreshBuffer ==
  ASSUME NEW n \in Nat
  PROVE  Uninitialized(n) \in Seq(Block) /\ Len(Uninitialized(n)) = n
BY BlockFacts, IsASeq DEF Uninitialized

(* ImDiskByteSwapBuffer changes no length.                                 *)
LEMMA SwappedBuffer ==
  ASSUME NEW buf \in Seq(Block), NEW n
  PROVE  /\ ByteSwapBuffer(buf, n) \in Seq(Block)
         /\ Len(ByteSwapBuffer(buf, n)) = Len(buf)
<1>1. Len(buf) \in Nat /\ DOMAIN buf = 1 .. Len(buf)
  OBVIOUS
<1>2. \A k \in 1 .. Len(buf) : buf[k] \in Block
  BY ElementOfSeq
<1>3. ByteSwapBuffer(buf, n) \in [1 .. Len(buf) -> Block]
  BY <1>1, <1>2, BlockFacts DEF ByteSwapBuffer
<1>4. QED
  BY <1>1, <1>3, IsASeq

(* The start of a buffer.                                                  *)
LEMMA Prefix ==
  ASSUME NEW S, NEW s \in Seq(S), NEW n \in 0 .. Len(s)
  PROVE  /\ SubSeq(s, 1, n) \in Seq(S) /\ Len(SubSeq(s, 1, n)) = n
         /\ \A k \in 1 .. n : SubSeq(s, 1, n)[k] = s[k]
<1>1. Len(s) \in Nat /\ n \in Nat /\ n <= Len(s)
  OBVIOUS
<1>2. QED
  BY <1>1, SubSeqProperties

(* A copy to the start of a buffer that is large enough changes no length  *)
(* and arrives.                                                            *)
LEMMA CopyFits ==
  ASSUME NEW dst \in Seq(Block), NEW src \in Seq(Block), Len(src) <= Len(dst)
  PROVE  /\ CopyOver(dst, src) \in Seq(Block)
         /\ Len(CopyOver(dst, src)) = Len(dst)
         /\ \A k \in 1 .. Len(src) : CopyOver(dst, src)[k] = src[k]
<1>1. Len(src) \in Nat /\ Len(dst) \in Nat
  OBVIOUS
<1> DEFINE rest == SubSeq(dst, Len(src) + 1, Len(dst))
<1>2. rest \in Seq(Block) /\ Len(rest) = Len(dst) - Len(src)
  BY <1>1, SubSeqProperties
<1> HIDE DEF rest
<1>3. /\ src \o rest \in Seq(Block)
      /\ Len(src \o rest) = Len(src) + Len(rest)
      /\ \A k \in 1 .. Len(src) : (src \o rest)[k] = src[k]
  BY <1>1, <1>2, ConcatProperties
<1>4. CopyOver(dst, src) = src \o rest
  BY DEF CopyOver, rest
<1>5. QED
  BY <1>1, <1>2, <1>3, <1>4

(* What a transfer from the image gets.                                    *)
LEMMA SliceOfImage ==
  ASSUME image \in [Offsets -> Block], NEW x \in Offsets, NEW n \in Nat,
         x + n <= Blocks
  PROVE  /\ Slice(x, n) \in Seq(Block) /\ Len(Slice(x, n)) = n
         /\ \A k \in 1 .. n : Slice(x, n)[k] = image[x + k - 1]
<1>1. x \in Nat /\ Blocks \in Nat /\ Offsets = 0 .. Blocks - 1
  BY Constants
<1>2. \A k \in 1 .. n : x + k - 1 \in Offsets
  BY <1>1
<1>3. Slice(x, n) \in [1 .. n -> Block]
  BY <1>2 DEF Slice
<1>4. QED
  BY <1>3, IsASeq DEF Slice

(* What a transfer to the image changes.                                   *)
LEMMA PutInImage ==
  ASSUME NEW S, NEW f \in [Offsets -> S], NEW buf \in Seq(S), NEW x \in Offsets,
         x + Len(buf) <= Blocks
  PROVE  /\ Put(f, x, buf) \in [Offsets -> S]
         /\ \A k \in 1 .. Len(buf) : /\ x + k - 1 \in Offsets
                                     /\ Put(f, x, buf)[x + k - 1] = buf[k]
         /\ \A b \in Offsets :
              \/ Put(f, x, buf)[b] = f[b] /\ b - x + 1 \notin 1 .. Len(buf)
              \/ /\ b - x + 1 \in 1 .. Len(buf)
                 /\ Put(f, x, buf)[b] = buf[b - x + 1]
<1>1. /\ x \in Nat /\ Blocks \in Nat /\ Offsets = 0 .. Blocks - 1
      /\ Len(buf) \in Nat /\ DOMAIN buf = 1 .. Len(buf)
  BY Constants
<1>2. \A k \in 1 .. Len(buf) : buf[k] \in S
  BY ElementOfSeq
<1>3. Put(f, x, buf) \in [Offsets -> S]
  BY <1>1, <1>2 DEF Put
<1>4. ASSUME NEW b \in Offsets
      PROVE  Put(f, x, buf)[b] =
               IF b - x + 1 \in 1 .. Len(buf) THEN buf[b - x + 1] ELSE f[b]
  BY <1>1, <1>4 DEF Put
<1>5. ASSUME NEW k \in 1 .. Len(buf)
      PROVE  x + k - 1 \in Offsets /\ Put(f, x, buf)[x + k - 1] = buf[k]
  <2>1. x + k - 1 \in Offsets /\ (x + k - 1) - x + 1 = k
    BY <1>1, <1>5
  <2>2. QED
    BY <1>4, <1>5, <2>1
<1>6. QED
  BY <1>3, <1>4, <1>5

(* A transfer to the image: what the image and the history variables are   *)
(* afterwards.                                                             *)
LEMMA Stored ==
  ASSUME TypeOK, NEW x \in Offsets, NEW raw \in Seq(Block),
         NEW plain \in Seq(Block), NEW ok \in BOOLEAN,
         Len(plain) = Len(raw), x + Len(raw) <= Blocks,
         StoreInImage(x, raw, plain, ok)
  PROVE  /\ image' \in [Offsets -> Block]
         /\ content' \in [Offsets -> SUBSET Block]
         /\ legit' \in [Reqs -> [Offsets -> SUBSET Block]]
         /\ \A k \in 1 .. Len(raw) : image'[x + k - 1] = raw[k]
         /\ (/\ \A b \in Offsets : image[b] \in content[b]
             /\ \A k \in 1 .. Len(raw) : raw[k] = plain[k])
              => \A b \in Offsets : image'[b] \in content'[b]
         /\ \A r \in Reqs : st[r] # "free" /\ op[r] = "READ" =>
              \A b \in Offsets : /\ legit[r][b] \subseteq legit'[r][b]
                                 /\ content'[b] \subseteq legit'[r][b]
<1> DEFINE sets == [k \in DOMAIN plain |-> {plain[k]}]
           stored == Put(content, x, sets)
<1>0. /\ image \in [Offsets -> Block] /\ content \in [Offsets -> SUBSET Block]
      /\ legit \in [Reqs -> [Offsets -> SUBSET Block]]
  BY DEF TypeOK
<1>1. /\ DOMAIN plain = 1 .. Len(plain) /\ Len(plain) \in Nat
      /\ \A k \in 1 .. Len(plain) : plain[k] \in Block
  BY ElementOfSeq
<1>2. sets \in [1 .. Len(plain) -> SUBSET Block]
  BY <1>1
<1>3. sets \in Seq(SUBSET Block) /\ Len(sets) = Len(plain)
  BY <1>1, <1>2, IsASeq
<1>4. \A k \in 1 .. Len(plain) : sets[k] = {plain[k]}
  BY <1>1
<1> HIDE DEF sets
<1>5. /\ stored \in [Offsets -> SUBSET Block]
      /\ \A b \in Offsets :
           \/ stored[b] = content[b] /\ b - x + 1 \notin 1 .. Len(raw)
           \/ /\ b - x + 1 \in 1 .. Len(raw)
              /\ stored[b] = sets[b - x + 1]
  BY <1>0, <1>3, PutInImage
<1>6. /\ image' \in [Offsets -> Block]
      /\ \A k \in 1 .. Len(raw) : image'[x + k - 1] = raw[k]
      /\ \A b \in Offsets :
           \/ image'[b] = image[b] /\ b - x + 1 \notin 1 .. Len(raw)
           \/ /\ b - x + 1 \in 1 .. Len(raw)
              /\ image'[b] = raw[b - x + 1]
  <2>1. image' = Put(image, x, raw)
    BY DEF StoreInImage
  <2>2. QED
    BY <1>0, <2>1, PutInImage
<1>7. content' = [b \in Offsets |->
                    stored[b] \cup (IF ok THEN {} ELSE content[b])]
  BY DEF StoreInImage, sets
<1> HIDE DEF stored
<1>8. content' \in [Offsets -> SUBSET Block]
  BY <1>0, <1>5, <1>7
<1>9. ASSUME \A b \in Offsets : image[b] \in content[b],
             \A k \in 1 .. Len(raw) : raw[k] = plain[k]
      PROVE  \A b \in Offsets : image'[b] \in content'[b]
  <2>1. TAKE b \in Offsets
  <2>2. stored[b] \subseteq content'[b]
    BY <1>7, <2>1
  <2>3. image'[b] \in stored[b]
    <3>1. CASE b - x + 1 \in 1 .. Len(raw)
      <4> DEFINE i == b - x + 1
      <4>1. i \in 1 .. Len(raw) /\ stored[b] = sets[i] /\ image'[b] = raw[i]
        BY <1>5, <1>6, <2>1, <3>1
      <4> HIDE DEF i
      <4>2. sets[i] = {plain[i]} /\ raw[i] = plain[i]
        BY <1>4, <1>9, <4>1
      <4>3. QED
        BY <4>1, <4>2
    <3>2. CASE b - x + 1 \notin 1 .. Len(raw)
      BY <1>5, <1>6, <1>9, <2>1, <3>2
    <3>3. QED
      BY <3>1, <3>2
  <2>4. QED
    BY <2>2, <2>3
<1>10. legit' = [r \in Reqs |-> [b \in Offsets |->
                   IF st[r] # "free" /\ op[r] = "READ"
                   THEN legit[r][b] \cup content'[b] ELSE {}]]
  BY DEF StoreInImage
<1>11. legit' \in [Reqs -> [Offsets -> SUBSET Block]]
  <2>1. ASSUME NEW r \in Reqs, NEW b \in Offsets
        PROVE  legit[r][b] \in SUBSET Block /\ content'[b] \in SUBSET Block
    BY <1>0, <1>8, <2>1
  <2>2. ASSUME NEW r \in Reqs
        PROVE  legit'[r] \in [Offsets -> SUBSET Block]
    BY <1>10, <2>1, <2>2
  <2>3. QED
    BY <1>10, <2>2
<1>12. ASSUME NEW r \in Reqs, st[r] # "free", op[r] = "READ", NEW b \in Offsets
       PROVE  /\ legit[r][b] \subseteq legit'[r][b]
              /\ content'[b] \subseteq legit'[r][b]
  BY <1>10, <1>12
<1>13. QED
  BY <1>6, <1>8, <1>9, <1>11, <1>12

(* A request that is not with the device thread changes its state.         *)
LEMMA QueueKept ==
  ASSUME TypeOK, Queue, NEW r \in Reqs, st[r] \notin {"queued", "serving"}, NEW s,
         st' = [st EXCEPT ![r] = s],
         UNCHANGED <<list, pc, current, use_set_zero_data>>
  PROVE  Queue'
<1>1. \A q \in Reqs : st[q] \in {"queued", "serving"} => st'[q] = st[q]
  BY DEF TypeOK
<1>2. \A k \in DOMAIN list : list[k] \in Reqs
  BY ElementOfSeq DEF TypeOK
<1>3. QED
  BY <1>1, <1>2 DEF Queue

(* The device thread completes what it serves.                             *)
LEMMA QueueServed ==
  ASSUME TypeOK, Queue, pc # "take", Complete, UNCHANGED list,
         use_set_zero_data' => use_set_zero_data
  PROVE  Queue'
<1>1. current \in Reqs /\ st[current] = "serving"
  BY DEF Queue
<1>2. st' = [st EXCEPT ![current] = "done"] /\ pc' = "take" /\ current' = NoReq
  BY DEF Complete
<1>3. \A q \in Reqs : st[q] = "queued" => st'[q] = st[q]
  BY <1>1, <1>2 DEF TypeOK
<1>4. \A k \in DOMAIN list : list[k] \in Reqs
  BY ElementOfSeq DEF TypeOK
<1>5. QED
  BY <1>2, <1>3, <1>4 DEF Queue

(* What a hit copies is as long as the read, wherever it comes from; when  *)
(* the blocks of the read are published, it is what the buffer holds.      *)
LEMMA CopiedBlocks ==
  ASSUME TypeOK, Buffer, NEW r \in Reqs
  PROVE  /\ Copied(r) \in Seq(Block) /\ Len(Copied(r)) = Len(system_buffer[r])
         /\ (/\ ~ByteSwap /\ offset[r] >= last_io_offset
             /\ offset[r] + Len(system_buffer[r])
                  <= last_io_offset + last_io_length)
              => \A k \in 1 .. Len(system_buffer[r]) :
                   /\ offset[r] - last_io_offset + k \in 1 .. last_io_length
                   /\ Copied(r)[k] = last_io_data[offset[r] - last_io_offset + k]
<1> DEFINE n == Len(system_buffer[r])
           from == offset[r] - last_io_offset
           raw == [k \in 1 .. n |-> IF from + k \in DOMAIN last_io_data
                                    THEN last_io_data[from + k] ELSE Junk]
<1>1. /\ offset[r] \in Nat /\ last_io_offset \in Nat /\ n \in Nat
      /\ last_io_length \in Nat /\ last_io_data \in Seq(Block)
      /\ Len(last_io_data) \in Nat /\ last_io_length <= Len(last_io_data)
  BY Constants DEF TypeOK, Buffer
<1>2. /\ DOMAIN last_io_data = 1 .. Len(last_io_data)
      /\ \A k \in DOMAIN last_io_data : last_io_data[k] \in Block
  BY <1>1, ElementOfSeq
<1>p. n = Len(system_buffer[r]) /\ from = offset[r] - last_io_offset
  OBVIOUS
<1>g. Copied(r) = IF ByteSwap THEN ByteSwapBuffer(raw, n) ELSE raw
  BY DEF Copied
<1> HIDE DEF n, from
<1>3. raw \in [1 .. n -> Block]
  BY <1>2, BlockFacts
<1>4. raw \in Seq(Block) /\ Len(raw) = n
  BY <1>1, <1>3, IsASeq
<1>5. \A k \in 1 .. n : from + k \in DOMAIN last_io_data
                         => raw[k] = last_io_data[from + k]
  OBVIOUS
<1> HIDE DEF raw
<1>6. /\ ByteSwapBuffer(raw, n) \in Seq(Block)
      /\ Len(ByteSwapBuffer(raw, n)) = n
  BY <1>4, SwappedBuffer
<1>7. Copied(r) \in Seq(Block) /\ Len(Copied(r)) = n
  BY <1>4, <1>6, <1>g
<1>8. ASSUME ~ByteSwap, offset[r] >= last_io_offset,
             offset[r] + n <= last_io_offset + last_io_length,
             NEW k \in 1 .. n
      PROVE  /\ from + k \in 1 .. last_io_length
             /\ Copied(r)[k] = last_io_data[from + k]
  <2>1. from + k \in 1 .. last_io_length
    BY <1>1, <1>8, <1>p
  <2>2. from + k \in 1 .. Len(last_io_data)
    BY <1>1, <2>1
  <2>3. QED
    BY <1>2, <1>5, <1>8, <1>g, <2>1, <2>2
<1>9. QED
  BY <1>7, <1>8, <1>p

(* Every step of a client, a dispatch routine, the device of the image and *)
(* the device thread keeps the invariant.                                  *)
LEMMA CoreStep == ASSUME OneFiller, IInv, [Next]_vars PROVE Core'
<1> USE DEF reqVars, cacheVars, imageVars
<1>c. /\ Blocks \in Nat \ {0} /\ Offsets = 0 .. Blocks - 1 /\ Offsets \subseteq Nat
      /\ Sent \subseteq {"READ", "WRITE", "FORMAT"}
      /\ {ByteSwap, Sparse, TornLookups} \subseteq BOOLEAN
      /\ Parallel \in {"no", "buffered", "direct"}
      /\ NoReq \notin Reqs
  BY Constants
<1>i. /\ TypeOK /\ Transfers /\ Queue /\ Buffer /\ Published /\ Expected
      /\ Returned /\ Lookups
  BY DEF IInv, Core
<1>l. \A r \in Reqs : Len(system_buffer[r]) \in Nat /\ Len(allocated[r]) \in Nat
  BY <1>i DEF TypeOK
<1>1. ASSUME NEW r \in Reqs, NEW o \in Sent, NEW x \in Offsets,
             NEW buf \in Buffers(o), Send(r, o, x, buf)
      PROVE  Core'
  <2>b. buf \in Seq(Block) /\ Len(buf) \in 1 .. Blocks
    <3>1. PICK m \in 1 .. Blocks :
            buf \in [1 .. m -> Values] \/ buf = Uninitialized(m)
      BY <1>1 DEF Buffers
    <3>2. CASE buf \in [1 .. m -> Values]
      BY <1>c, <3>1, <3>2, Constants
    <3>3. CASE buf = Uninitialized(m)
      BY <1>c, <3>1, <3>3, FreshBuffer
    <3>4. QED
      BY <3>1, <3>2, <3>3
  <2>o. /\ st[r] = "free" /\ x + Len(buf) <= Blocks
        /\ st' = [st EXCEPT ![r] = "sent"] /\ op' = [op EXCEPT ![r] = o]
        /\ offset' = [offset EXCEPT ![r] = x]
        /\ system_buffer' = [system_buffer EXCEPT ![r] = buf]
        /\ information' = [information EXCEPT ![r] = 0]
        /\ legit' = [legit EXCEPT ![r] = [b \in Offsets |->
                        IF o = "READ" THEN content[b] ELSE {}]]
        /\ UNCHANGED <<loaded, allocated, list, pc, current, cacheVars,
                       use_set_zero_data, image, content>>
    BY <1>1 DEF Send
  <2>t1. st' \in [Reqs -> ReqStates]
    BY <1>i, <2>o DEF TypeOK, ReqStates
  <2>t2. op' \in [Reqs -> {"READ", "WRITE", "FORMAT"}]
    BY <1>c, <1>i, <2>o DEF TypeOK
  <2>t3. offset' \in [Reqs -> Offsets]
    BY <1>c, <1>i, <2>o DEF TypeOK
  <2>t4. system_buffer' \in [Reqs -> Seq(Block)]
    BY <1>i, <2>b, <2>o DEF TypeOK
  <2>t5. information' \in [Reqs -> 0 .. Blocks]
    BY <1>c, <1>i, <2>o DEF TypeOK
  <2>t6. legit' \in [Reqs -> [Offsets -> SUBSET Block]]
    <3>1. [b \in Offsets |-> IF o = "READ" THEN content[b] ELSE {}]
            \in [Offsets -> SUBSET Block]
      BY <1>i DEF TypeOK
    <3>2. QED
      BY <1>i, <2>o, <3>1 DEF TypeOK
  <2>1. TypeOK'
    BY <1>i, <2>o, <2>t1, <2>t2, <2>t3, <2>t4, <2>t5, <2>t6 DEF TypeOK
  <2>2. Transfers'
    <3>1. /\ offset'[r] = x /\ system_buffer'[r] = buf /\ information'[r] = 0
          /\ op'[r] = o /\ st'[r] = "sent"
      BY <1>i, <2>o DEF TypeOK
    <3>2. \A q \in Reqs : q # r =>
            /\ offset'[q] = offset[q] /\ system_buffer'[q] = system_buffer[q]
            /\ information'[q] = information[q] /\ op'[q] = op[q] /\ st'[q] = st[q]
            /\ allocated'[q] = allocated[q]
      BY <1>i, <2>o DEF TypeOK
    <3>3. 0 <= Len(buf) /\ Len(buf) > 0
      BY <1>c, <2>b
    <3>4. QED
      BY <1>i, <2>o, <3>1, <3>2, <3>3 DEF Transfers
  <2>3. Queue'
    BY <1>i, <2>o, QueueKept
  <2>4. Buffer'
    BY <1>c, <1>i, <2>o, <2>b DEF Buffer, Queue, Asked, TypeOK
  <2>5. Published'
    BY <1>c, <1>i, <2>o, <2>b
    DEF Published, PublishedMatchesImage, Serial, Buffer, Queue, TypeOK
  <2>6. Expected'
    BY <1>c, <1>i, <2>o, <2>b
    DEF Expected, Serial, Asked, Buffer, Queue, TypeOK
  <2>7. Returned'
    <3>1. SUFFICES ASSUME Serial, ~ByteSwap, ~TornLookups
                  PROVE  Returned'
      BY DEF Returned, Serial
    <3>3. ASSUME NEW q \in Reqs, op'[q] = "READ", NEW k \in 1 .. information'[q]
          PROVE  system_buffer'[q][k] \in legit'[q][offset'[q] + k - 1]
      <4>1. q # r
        BY <1>i, <2>o, <3>3 DEF TypeOK
      <4>2. QED
        BY <1>i, <2>o, <3>1, <3>3, <4>1 DEF Returned, TypeOK
    <3>4. QED
      BY <3>3 DEF Returned
  <2>8. QED
    BY <2>1, <2>2, <2>3, <2>4, <2>5, <2>6, <2>7 DEF Core
<1>2. ASSUME NEW r \in Reqs, Retire(r)
      PROVE  Core'
  <2>o. /\ st[r] = "done"
        /\ st' = [st EXCEPT ![r] = "free"] /\ op' = [op EXCEPT ![r] = "READ"]
        /\ offset' = [offset EXCEPT ![r] = 0]
        /\ system_buffer' = [system_buffer EXCEPT ![r] = <<>>]
        /\ information' = [information EXCEPT ![r] = 0]
        /\ legit' = [legit EXCEPT ![r] = [b \in Offsets |-> {}]]
        /\ UNCHANGED <<loaded, allocated, list, pc, current, cacheVars,
                       use_set_zero_data, image, content>>
    BY <1>2 DEF Retire
  <2>t1. st' \in [Reqs -> ReqStates]
    BY <1>i, <2>o DEF TypeOK, ReqStates
  <2>t2. op' \in [Reqs -> {"READ", "WRITE", "FORMAT"}]
    BY <1>c, <1>i, <2>o DEF TypeOK
  <2>t3. offset' \in [Reqs -> Offsets]
    BY <1>c, <1>i, <2>o DEF TypeOK
  <2>t4. system_buffer' \in [Reqs -> Seq(Block)]
    BY <1>c, <1>i, <2>o DEF TypeOK
  <2>t5. information' \in [Reqs -> 0 .. Blocks]
    BY <1>c, <1>i, <2>o DEF TypeOK
  <2>t6. legit' \in [Reqs -> [Offsets -> SUBSET Block]]
    <3>1. [b \in Offsets |-> {}] \in [Offsets -> SUBSET Block]
      OBVIOUS
    <3>2. QED
      BY <1>i, <2>o, <3>1 DEF TypeOK
  <2>1. TypeOK'
    BY <1>i, <2>o, <2>t1, <2>t2, <2>t3, <2>t4, <2>t5, <2>t6 DEF TypeOK
  <2>2. Transfers'
    BY <1>c, <1>i, <2>o DEF Transfers, TypeOK
  <2>3. Queue'
    BY <1>i, <2>o, QueueKept
  <2>4. Buffer'
    BY <1>c, <1>i, <2>o DEF Buffer, Queue, Asked, TypeOK
  <2>5. Published'
    BY <1>c, <1>i, <2>o
    DEF Published, PublishedMatchesImage, Serial, Buffer, Queue, TypeOK
  <2>6. Expected'
    BY <1>c, <1>i, <2>o DEF Expected, Serial, Asked, Buffer, Queue, TypeOK
  <2>7. Returned'
    <3>1. SUFFICES ASSUME Serial, ~ByteSwap, ~TornLookups
                  PROVE  Returned'
      BY DEF Returned, Serial
    <3>3. ASSUME NEW q \in Reqs, op'[q] = "READ", NEW k \in 1 .. information'[q]
          PROVE  system_buffer'[q][k] \in legit'[q][offset'[q] + k - 1]
      <4>1. q # r
        BY <1>i, <2>o, <3>3 DEF TypeOK
      <4>2. QED
        BY <1>i, <2>o, <3>1, <3>3, <4>1 DEF Returned, TypeOK
    <3>4. QED
      BY <3>3 DEF Returned
  <2>8. QED
    BY <2>1, <2>2, <2>3, <2>4, <2>5, <2>6, <2>7 DEF Core
<1>3. ASSUME NEW r \in Reqs, LoadOffset(r)
      PROVE  Core'
  <2>a. CASE st' = [st EXCEPT ![r] = "missed"] /\ UNCHANGED loaded
    <3>o. /\ st[r] = "sent"
          /\ st' = [st EXCEPT ![r] = "missed"] /\ UNCHANGED loaded
          /\ UNCHANGED <<reqVars, allocated, list, pc, current, cacheVars,
                         use_set_zero_data, imageVars>>
      BY <1>3, <2>a DEF LoadOffset
    <3>t1. st' \in [Reqs -> ReqStates]
      BY <1>i, <3>o DEF TypeOK, ReqStates
    <3>t2. loaded' \in [Reqs -> Offsets]
      BY <1>c, <1>i, <3>o DEF TypeOK
    <3>1. TypeOK'
      BY <1>i, <3>o, <3>t1, <3>t2 DEF TypeOK
    <3>2. Transfers'
      BY <1>c, <1>i, <3>o DEF Transfers, TypeOK
    <3>3. Queue'
      BY <1>i, <3>o, QueueKept
    <3>4. Buffer'
      BY <1>c, <1>i, <3>o DEF Buffer, Queue, Asked, TypeOK
    <3>5. Published'
      BY <1>c, <1>i, <3>o
      DEF Published, PublishedMatchesImage, Serial, Buffer, Queue, TypeOK
    <3>6. Expected'
      BY <1>c, <1>i, <3>o DEF Expected, Serial, Asked, Buffer, Queue, TypeOK
    <3>7. Returned'
      BY <1>c, <1>i, <3>o DEF Returned, Serial, Queue, TypeOK
    <3>8. QED
      BY <3>1, <3>2, <3>3, <3>4, <3>5, <3>6, <3>7 DEF Core
  <2>b. CASE /\ st' = [st EXCEPT ![r] = "looking"]
               /\ loaded' = [loaded EXCEPT ![r] = last_io_offset]
    <3>o. /\ st[r] = "sent"
          /\ st' = [st EXCEPT ![r] = "looking"]
          /\ loaded' = [loaded EXCEPT ![r] = last_io_offset]
          /\ UNCHANGED <<reqVars, allocated, list, pc, current, cacheVars,
                         use_set_zero_data, imageVars>>
      BY <1>3, <2>b DEF LoadOffset
    <3>t1. st' \in [Reqs -> ReqStates]
      BY <1>i, <3>o DEF TypeOK, ReqStates
    <3>t2. loaded' \in [Reqs -> Offsets]
      BY <1>c, <1>i, <3>o DEF TypeOK
    <3>1. TypeOK'
      BY <1>i, <3>o, <3>t1, <3>t2 DEF TypeOK
    <3>2. Transfers'
      BY <1>c, <1>i, <3>o DEF Transfers, TypeOK
    <3>3. Queue'
      BY <1>i, <3>o, QueueKept
    <3>4. Buffer'
      BY <1>c, <1>i, <3>o DEF Buffer, Queue, Asked, TypeOK
    <3>5. Published'
      BY <1>c, <1>i, <3>o
      DEF Published, PublishedMatchesImage, Serial, Buffer, Queue, TypeOK
    <3>6. Expected'
      BY <1>c, <1>i, <3>o DEF Expected, Serial, Asked, Buffer, Queue, TypeOK
    <3>7. Returned'
      BY <1>c, <1>i, <3>o DEF Returned, Serial, Queue, TypeOK
    <3>8. QED
      BY <3>1, <3>2, <3>3, <3>4, <3>5, <3>6, <3>7 DEF Core
  <2>c. QED
    BY <1>3, <2>a, <2>b DEF LoadOffset
<1>4. ASSUME NEW r \in Reqs, TestHit(r)
      PROVE  Core'
  <2>1. PICK again \in {loaded[r], last_io_offset} :
          st' = [st EXCEPT ![r] = IF Inside(r, again) THEN "hit" ELSE "missed"]
    BY <1>4 DEF TestHit
  <2>2. PICK s \in {"hit", "missed"} : st' = [st EXCEPT ![r] = s]
    BY <2>1
  <2>o. /\ st[r] = "looking" /\ loaded' = [loaded EXCEPT ![r] = 0]
        /\ st' = [st EXCEPT ![r] = s]
        /\ UNCHANGED <<reqVars, allocated, list, pc, current, cacheVars,
                       use_set_zero_data, imageVars>>
    BY <1>4, <2>2 DEF TestHit
  <2>t1. st' \in [Reqs -> ReqStates]
    BY <1>i, <2>o DEF TypeOK, ReqStates
  <2>t2. loaded' \in [Reqs -> Offsets]
    BY <1>c, <1>i, <2>o DEF TypeOK
  <2>11. TypeOK'
    BY <1>i, <2>o, <2>t1, <2>t2 DEF TypeOK
  <2>12. Transfers'
    BY <1>c, <1>i, <2>o DEF Transfers, TypeOK
  <2>13. Queue'
    BY <1>i, <2>o, QueueKept
  <2>14. Buffer'
    BY <1>c, <1>i, <2>o DEF Buffer, Queue, Asked, TypeOK
  <2>15. Published'
    BY <1>c, <1>i, <2>o
    DEF Published, PublishedMatchesImage, Serial, Buffer, Queue, TypeOK
  <2>16. Expected'
    BY <1>c, <1>i, <2>o DEF Expected, Serial, Asked, Buffer, Queue, TypeOK
  <2>17. Returned'
    BY <1>c, <1>i, <2>o DEF Returned, Serial, Queue, TypeOK
  <2>18. QED
    BY <2>11, <2>12, <2>13, <2>14, <2>15, <2>16, <2>17 DEF Core
<1>f. ASSUME NEW r \in Reqs, FinishLookup(r)
      PROVE  Core'
  <2>a. CASE /\ system_buffer' = [system_buffer EXCEPT ![r] = Copied(r)]
             /\ information' = [information EXCEPT ![r] = Len(system_buffer[r])]
    <3>o. /\ st[r] = "hit" /\ UNCHANGED loaded
          /\ st' = [st EXCEPT ![r] = "done"]
          /\ system_buffer' = [system_buffer EXCEPT ![r] = Copied(r)]
          /\ information' = [information EXCEPT ![r] = Len(system_buffer[r])]
          /\ UNCHANGED <<op, offset, allocated, list, pc, current, cacheVars,
                         use_set_zero_data, imageVars>>
      BY <1>f, <2>a DEF FinishLookup
    <3>h. Copied(r) \in Seq(Block) /\ Len(Copied(r)) = Len(system_buffer[r])
      BY <1>i, CopiedBlocks
    <3>t1. st' \in [Reqs -> ReqStates]
      BY <1>i, <3>o DEF TypeOK, ReqStates
    <3>t2. loaded' \in [Reqs -> Offsets]
      BY <1>c, <1>i, <3>o DEF TypeOK
    <3>t3. system_buffer' \in [Reqs -> Seq(Block)]
      BY <1>i, <3>o, <3>h DEF TypeOK
    <3>t4. information' \in [Reqs -> 0 .. Blocks]
      <4>1. Len(system_buffer[r]) \in 0 .. Blocks
        BY <1>c, <1>i, <1>l DEF Transfers, TypeOK
      <4>2. QED
        BY <1>i, <3>o, <4>1 DEF TypeOK
    <3>1. TypeOK'
      BY <1>i, <3>o, <3>t1, <3>t2, <3>t3, <3>t4 DEF TypeOK
    <3>2. Transfers'
      <4>1. Len(system_buffer'[r]) = Len(system_buffer[r])
        BY <1>i, <3>o, <3>h DEF TypeOK
      <4>2. information'[r] = Len(system_buffer[r])
        BY <1>i, <3>o DEF TypeOK
      <4>3. QED
        BY <1>c, <1>i, <1>l, <3>o, <4>1, <4>2 DEF Transfers, TypeOK
    <3>3. Queue'
      BY <1>i, <3>o, QueueKept
    <3>4. Buffer'
      BY <1>c, <1>i, <3>o DEF Buffer, Queue, Asked, TypeOK
    <3>5. Published'
      BY <1>c, <1>i, <3>o
      DEF Published, PublishedMatchesImage, Serial, Buffer, Queue, TypeOK
    <3>6. Expected'
      BY <1>c, <1>i, <3>o DEF Expected, Serial, Asked, Buffer, Queue, TypeOK
    <3>7. Returned'
      <4>1. SUFFICES ASSUME Serial, ~ByteSwap, ~TornLookups
                    PROVE  Returned'
        BY DEF Returned, Serial
      <4>3. ASSUME op[r] = "READ", NEW k \in 1 .. Len(system_buffer[r])
            PROVE  Copied(r)[k] \in legit[r][offset[r] + k - 1]
        <5>1. /\ offset[r] >= last_io_offset
              /\ offset[r] + Len(system_buffer[r])
                   <= last_io_offset + last_io_length
          BY <1>i, <3>o, <4>1 DEF Lookups
        <5> DEFINE m == offset[r] - last_io_offset + k
        <5>2. m \in 1 .. last_io_length /\ Copied(r)[k] = last_io_data[m]
          BY <1>i, <4>1, <4>3, <5>1, CopiedBlocks
        <5>a. /\ offset[r] \in Nat /\ last_io_offset \in Nat /\ k \in Nat /\ k >= 1
              /\ Len(system_buffer[r]) \in Nat /\ k <= Len(system_buffer[r])
          BY <1>c, <1>i, <1>l, <4>3 DEF TypeOK
        <5>b. offset[r] + Len(system_buffer[r]) <= Blocks
          BY <1>i DEF Transfers
        <5>3. /\ offset[r] \in Nat /\ last_io_offset \in Nat /\ k \in Nat
              /\ offset[r] + k - 1 \in Offsets
          BY <1>c, <5>a, <5>b
        <5>4. last_io_offset + m - 1 = offset[r] + k - 1
          BY <5>1, <5>3
        <5> HIDE DEF m
        <5>5. last_io_data[m] = image[offset[r] + k - 1]
          BY <1>i, <4>1, <5>2, <5>4 DEF Published, PublishedMatchesImage
        <5>6. image[offset[r] + k - 1] \in legit[r][offset[r] + k - 1]
          BY <1>i, <3>o, <4>1, <4>3, <5>3 DEF Expected
        <5>7. QED
          BY <5>2, <5>5, <5>6
      <4>4. ASSUME NEW q \in Reqs, op'[q] = "READ", NEW k \in 1 .. information'[q]
            PROVE  system_buffer'[q][k] \in legit'[q][offset'[q] + k - 1]
        <5>1. CASE q = r
          BY <1>i, <3>o, <4>3, <4>4, <5>1 DEF TypeOK
        <5>2. CASE q # r
          BY <1>i, <3>o, <4>1, <4>4, <5>2 DEF Returned, TypeOK
        <5>3. QED
          BY <5>1, <5>2
      <4>5. QED
        BY <4>4 DEF Returned
    <3>8. QED
      BY <3>1, <3>2, <3>3, <3>4, <3>5, <3>6, <3>7 DEF Core
  <2>b. CASE UNCHANGED <<system_buffer, information>>
    <3>o. /\ st[r] = "hit" /\ UNCHANGED loaded
          /\ st' = [st EXCEPT ![r] = "done"]
          /\ UNCHANGED <<system_buffer, information>>
          /\ UNCHANGED <<op, offset, allocated, list, pc, current, cacheVars,
                         use_set_zero_data, imageVars>>
      BY <1>f, <2>b DEF FinishLookup
    <3>t1. st' \in [Reqs -> ReqStates]
      BY <1>i, <3>o DEF TypeOK, ReqStates
    <3>t2. loaded' \in [Reqs -> Offsets]
      BY <1>c, <1>i, <3>o DEF TypeOK
    <3>1. TypeOK'
      BY <1>i, <3>o, <3>t1, <3>t2 DEF TypeOK
    <3>2. Transfers'
      BY <1>c, <1>i, <3>o DEF Transfers, TypeOK
    <3>3. Queue'
      BY <1>i, <3>o, QueueKept
    <3>4. Buffer'
      BY <1>c, <1>i, <3>o DEF Buffer, Queue, Asked, TypeOK
    <3>5. Published'
      BY <1>c, <1>i, <3>o
      DEF Published, PublishedMatchesImage, Serial, Buffer, Queue, TypeOK
    <3>6. Expected'
      BY <1>c, <1>i, <3>o DEF Expected, Serial, Asked, Buffer, Queue, TypeOK
    <3>7. Returned'
      BY <1>c, <1>i, <3>o DEF Returned, Serial, Queue, TypeOK
    <3>8. QED
      BY <3>1, <3>2, <3>3, <3>4, <3>5, <3>6, <3>7 DEF Core
  <2>c. QED
    BY <1>f, <2>a, <2>b DEF FinishLookup
<1>5. ASSUME NEW r \in Reqs, Route(r)
      PROVE  Core'
  <2>u. /\ UNCHANGED <<reqVars, loaded, pc, current, cacheVars, use_set_zero_data,
                       imageVars>>
        /\ st[r] \in {"sent", "missed"}
    BY <1>5 DEF Route
  <2>a. CASE /\ ~GoesToLowerDevice(r) /\ st' = [st EXCEPT ![r] = "queued"]
             /\ list' = Append(list, r) /\ UNCHANGED allocated
    <3>o. /\ st' = [st EXCEPT ![r] = "queued"]
          /\ list' = Append(list, r) /\ UNCHANGED allocated
      BY <2>a
    <3>t1. st' \in [Reqs -> ReqStates]
      BY <1>i, <3>o DEF TypeOK, ReqStates
    <3>t2. list' \in Seq(Reqs)
      BY <1>c, <1>i, <3>o DEF TypeOK
    <3>1. TypeOK'
      BY <1>i, <2>u, <3>o, <3>t1, <3>t2 DEF TypeOK
    <3>2. Transfers'
      <4>1. Parallel = "no" \/ op[r] = "FORMAT" \/ Sparse
        BY <1>i, <2>a DEF GoesToLowerDevice, Queue
      <4>2. QED
        BY <1>i, <2>u, <3>o, <4>1 DEF Transfers, TypeOK
    <3>3. Queue'
      <4>1. /\ list \in Seq(Reqs) /\ Len(list') = Len(list) + 1
            /\ \A k \in 1 .. Len(list) : list'[k] = list[k] /\ list[k] \in Reqs
            /\ list'[Len(list) + 1] = r /\ Len(list) \in Nat
            /\ DOMAIN list = 1 .. Len(list) /\ DOMAIN list' = 1 .. Len(list) + 1
        BY <1>i, <3>o, AppendProperties, ElementOfSeq DEF TypeOK
      <4>2. \A k \in 1 .. Len(list) : st[list[k]] = "queued" /\ list[k] # r
        BY <1>i, <2>u, <4>1 DEF Queue
      <4>3. \A k \in DOMAIN list' : st'[list'[k]] = "queued"
        <5>1. TAKE k \in DOMAIN list'
        <5>2. k \in 1 .. Len(list) \/ k = Len(list) + 1
          BY <4>1
        <5>3. QED
          BY <1>i, <3>o, <4>1, <4>2, <5>2 DEF TypeOK
      <4>4. \A k, m \in DOMAIN list' : list'[k] = list'[m] => k = m
        <5>1. TAKE k, m \in DOMAIN list'
        <5>2. /\ k \in 1 .. Len(list) \/ k = Len(list) + 1
              /\ m \in 1 .. Len(list) \/ m = Len(list) + 1
          BY <4>1
        <5>3. QED
          BY <1>i, <4>1, <4>2, <5>2 DEF Queue
      <4>5. pc # "take" => current # r
        BY <1>i, <2>u DEF Queue
      <4>6. QED
        BY <1>i, <2>u, <3>o, <4>3, <4>4, <4>5 DEF Queue, TypeOK
    <3>4. Buffer'
      BY <1>c, <1>i, <3>o, <2>u DEF Buffer, Queue, Asked, TypeOK
    <3>5. Published'
      BY <1>c, <1>i, <3>o, <2>u
      DEF Published, PublishedMatchesImage, Serial, Buffer, Queue, TypeOK
    <3>6. Expected'
      BY <1>c, <1>i, <3>o, <2>u
      DEF Expected, Serial, Asked, Buffer, Queue, TypeOK
    <3>7. Returned'
      BY <1>c, <1>i, <3>o, <2>u DEF Returned, Serial, Queue, TypeOK
    <3>8. QED
      BY <3>1, <3>2, <3>3, <3>4, <3>5, <3>6, <3>7 DEF Core
  <2>b. CASE /\ GoesToLowerDevice(r) /\ st' = [st EXCEPT ![r] = "lower"]
             /\ allocated' = [allocated EXCEPT ![r] =
                  IF Parallel = "direct" THEN <<>> ELSE system_buffer[r]]
             /\ UNCHANGED list
    <3>o. /\ st' = [st EXCEPT ![r] = "lower"]
          /\ allocated' = [allocated EXCEPT ![r] =
               IF Parallel = "direct" THEN <<>> ELSE system_buffer[r]]
          /\ UNCHANGED list
          /\ Parallel # "no" /\ op[r] # "FORMAT"
      BY <2>b DEF GoesToLowerDevice
    <3>s. ~Serial'
      BY <3>o DEF Serial
    <3>t1. st' \in [Reqs -> ReqStates]
      BY <1>i, <3>o DEF TypeOK, ReqStates
    <3>t2. allocated' \in [Reqs -> Seq(Block)]
      BY <1>c, <1>i, <3>o DEF TypeOK
    <3>1. TypeOK'
      BY <1>i, <2>u, <3>o, <3>t1, <3>t2 DEF TypeOK
    <3>2. Transfers'
      <4>1. Parallel = "buffered" => Len(allocated'[r]) = Len(system_buffer[r])
        BY <1>i, <3>o DEF TypeOK
      <4>2. QED
        BY <1>i, <2>u, <3>o, <4>1 DEF Transfers, TypeOK
    <3>3. Queue'
      BY <1>i, <2>u, <3>o, QueueKept
    <3>4. Buffer'
      BY <1>c, <1>i, <3>o, <2>u DEF Buffer, Queue, Asked, TypeOK
    <3>5. Published'
      BY <3>o, <3>s DEF Published
    <3>6. Expected'
      BY <3>o, <3>s DEF Expected
    <3>7. Returned'
      BY <3>o, <3>s DEF Returned
    <3>8. QED
      BY <3>1, <3>2, <3>3, <3>4, <3>5, <3>6, <3>7 DEF Core
  <2>c. CASE st' = [st EXCEPT ![r] = "done"] /\ UNCHANGED <<allocated, list>>
    <3>o. st' = [st EXCEPT ![r] = "done"] /\ UNCHANGED <<allocated, list>>
      BY <2>c
    <3>t1. st' \in [Reqs -> ReqStates]
      BY <1>i, <3>o DEF TypeOK, ReqStates
    <3>1. TypeOK'
      BY <1>i, <2>u, <3>o, <3>t1 DEF TypeOK
    <3>2. Transfers'
      BY <1>c, <1>i, <3>o, <2>u DEF Transfers, TypeOK
    <3>3. Queue'
      BY <1>i, <2>u, <3>o, QueueKept
    <3>4. Buffer'
      BY <1>c, <1>i, <3>o, <2>u DEF Buffer, Queue, Asked, TypeOK
    <3>5. Published'
      BY <1>c, <1>i, <3>o, <2>u
      DEF Published, PublishedMatchesImage, Serial, Buffer, Queue, TypeOK
    <3>6. Expected'
      BY <1>c, <1>i, <3>o, <2>u
      DEF Expected, Serial, Asked, Buffer, Queue, TypeOK
    <3>7. Returned'
      BY <1>c, <1>i, <3>o, <2>u DEF Returned, Serial, Queue, TypeOK
    <3>8. QED
      BY <3>1, <3>2, <3>3, <3>4, <3>5, <3>6, <3>7 DEF Core
  <2>d. QED
    BY <1>5, <2>a, <2>b, <2>c DEF Route
<1>6. ASSUME NEW r \in Reqs, LowerDeviceIo(r)
      PROVE  Core'
  <2>u. /\ st[r] = "lower"
        /\ UNCHANGED <<op, offset, loaded, list, pc, current, cacheVars,
                       use_set_zero_data>>
    BY <1>6 DEF LowerDeviceIo
  <2>s. ~Serial' /\ Parallel # "no"
    BY <1>i, <2>u DEF Transfers, Serial
  <2>1. PICK n \in 0 .. Len(system_buffer[r]), ok \in BOOLEAN :
          /\ st' = [st EXCEPT ![r] = IF ok THEN "lowered" ELSE "failed"]
          /\ information' = [information EXCEPT ![r] = IF ok THEN n ELSE 0]
          /\ \/ /\ op[r] = "READ"
                /\ IF Parallel = "direct"
                   THEN /\ system_buffer' = [system_buffer EXCEPT ![r] =
                             CopyOver(system_buffer[r], Slice(offset[r], n))]
                        /\ UNCHANGED allocated
                   ELSE /\ allocated' = [allocated EXCEPT ![r] =
                             CopyOver(system_buffer[r], Slice(offset[r], n))]
                        /\ UNCHANGED system_buffer
                /\ UNCHANGED imageVars
             \/ /\ op[r] = "WRITE"
                /\ StoreInImage(offset[r], SubSeq(system_buffer[r], 1, n),
                                SubSeq(system_buffer[r], 1, n), ok)
                /\ UNCHANGED <<system_buffer, allocated>>
    BY <1>6 DEF LowerDeviceIo
  <2>2. /\ n \in Nat /\ n <= Len(system_buffer[r]) /\ offset[r] \in Offsets
        /\ system_buffer[r] \in Seq(Block) /\ Len(system_buffer[r]) \in Nat
        /\ offset[r] \in Nat /\ offset[r] + Len(system_buffer[r]) <= Blocks
    BY <1>c, <1>i, <2>1 DEF Transfers, TypeOK
  <2>3. offset[r] + n <= Blocks /\ n \in 0 .. Blocks
    BY <1>c, <2>2
  <2>4. /\ CopyOver(system_buffer[r], Slice(offset[r], n)) \in Seq(Block)
        /\ Len(CopyOver(system_buffer[r], Slice(offset[r], n))) =
             Len(system_buffer[r])
    BY <1>i, <2>2, <2>3, SliceOfImage, CopyFits DEF TypeOK
  <2>5. /\ system_buffer' \in [Reqs -> Seq(Block)]
        /\ allocated' \in [Reqs -> Seq(Block)]
        /\ Len(system_buffer'[r]) = Len(system_buffer[r])
        /\ \A q \in Reqs : q # r => /\ system_buffer'[q] = system_buffer[q]
                                    /\ allocated'[q] = allocated[q]
        /\ Parallel = "buffered" => Len(allocated'[r]) = Len(system_buffer'[r])
    <3>1. Parallel = "buffered" => Len(allocated[r]) = Len(system_buffer[r])
      BY <1>i, <2>u DEF Transfers
    <3>2. CASE op[r] = "READ" /\ Parallel = "direct"
      BY <1>i, <2>1, <2>4, <3>2 DEF TypeOK
    <3>3. CASE op[r] = "READ" /\ Parallel # "direct"
      BY <1>i, <2>1, <2>4, <3>3 DEF TypeOK
    <3>4. CASE op[r] = "WRITE"
      BY <1>i, <2>1, <3>1, <3>4 DEF TypeOK
    <3>5. QED
      BY <2>1, <3>2, <3>3, <3>4
  <2>6. /\ image' \in [Offsets -> Block]
        /\ content' \in [Offsets -> SUBSET Block]
        /\ legit' \in [Reqs -> [Offsets -> SUBSET Block]]
    <3>1. CASE op[r] = "READ"
      BY <1>i, <2>1, <3>1 DEF TypeOK
    <3>2. CASE op[r] = "WRITE"
      <4> DEFINE part == SubSeq(system_buffer[r], 1, n)
      <4>1. part \in Seq(Block) /\ Len(part) = n
        BY <2>1, <2>2, Prefix
      <4>2. StoreInImage(offset[r], part, part, ok)
        BY <2>1, <3>2
      <4> HIDE DEF part
      <4>3. QED
        BY <1>i, <2>1, <2>2, <2>3, <4>1, <4>2, Stored
    <3>3. QED
      BY <2>1, <3>1, <3>2
  <2>7. st' \in [Reqs -> ReqStates] /\ information' \in [Reqs -> 0 .. Blocks]
    <3>1. (IF ok THEN n ELSE 0) \in 0 .. Blocks
      BY <1>c, <2>3
    <3>2. information' \in [Reqs -> 0 .. Blocks]
      BY <1>i, <2>1, <3>1 DEF TypeOK
    <3>3. (IF ok THEN "lowered" ELSE "failed") \in ReqStates
      BY DEF ReqStates
    <3>4. st' \in [Reqs -> ReqStates]
      BY <1>i, <2>1, <3>3 DEF TypeOK
    <3>5. QED
      BY <3>2, <3>4
  <2>8. TypeOK'
    BY <1>i, <2>u, <2>5, <2>6, <2>7 DEF TypeOK
  <2>9. Transfers'
    <3>1. /\ st'[r] \in {"lowered", "failed"} /\ op'[r] = op[r]
          /\ offset'[r] = offset[r]
          /\ information'[r] = 0 \/ information'[r] = n
      BY <1>i, <2>1, <2>u DEF TypeOK
    <3>2. information'[r] <= Len(system_buffer'[r])
      BY <2>2, <2>5, <3>1
    <3>3. \A q \in Reqs : q # r => st'[q] = st[q] /\ information'[q] = information[q]
      BY <1>i, <2>1 DEF TypeOK
    <3>4. op[r] # "FORMAT" /\ op[r] \in Sent /\ Len(system_buffer[r]) > 0
      BY <1>i, <2>u DEF Transfers
    <3>5. ASSUME NEW q \in Reqs
          PROVE  /\ offset'[q] + Len(system_buffer'[q]) <= Blocks
                 /\ information'[q] <= Len(system_buffer'[q])
                 /\ st'[q] = "free" => information'[q] = 0
                 /\ st'[q] # "free" => op'[q] \in Sent /\ Len(system_buffer'[q]) > 0
                 /\ st'[q] \in {"lower", "lowered", "failed"} =>
                      /\ Parallel # "no"
                      /\ op'[q] # "FORMAT"
                      /\ Parallel = "buffered" =>
                           Len(allocated'[q]) = Len(system_buffer'[q])
                 /\ st'[q] \in {"queued", "serving"} =>
                      Parallel = "no" \/ op'[q] = "FORMAT" \/ Sparse
      <4>1. CASE q = r
        BY <2>2, <2>5, <2>s, <3>1, <3>2, <3>4, <4>1
      <4>2. CASE q # r
        BY <1>i, <2>5, <2>u, <3>3, <4>2 DEF Transfers
      <4>3. QED
        BY <4>1, <4>2
    <3>6. QED
      BY <3>5 DEF Transfers
  <2>10. Queue'
    BY <1>i, <2>1, <2>u, QueueKept
  <2>11. Buffer'
    <3>1. pc # "take" => current # r /\ current \in Reqs
      BY <1>i, <2>u DEF Queue
    <3>2. pc # "take" => /\ system_buffer'[current] = system_buffer[current]
                         /\ information'[current] = information[current]
      BY <1>i, <2>1, <2>5, <3>1 DEF TypeOK
    <3>3. QED
      BY <1>i, <2>u, <3>2 DEF Buffer, Asked
  <2>12. QED
    BY <2>8, <2>9, <2>10, <2>11, <2>s DEF Core, Published, Expected, Returned
<1>7. ASSUME NEW r \in Reqs, LowerDeviceCompletion(r)
      PROVE  Core'
  <2>u. /\ st[r] \in {"lowered", "failed"}
        /\ st' = [st EXCEPT ![r] = "done"]
        /\ allocated' = [allocated EXCEPT ![r] = <<>>]
        /\ UNCHANGED <<op, offset, information, loaded, list, pc, current,
                       use_set_zero_data, imageVars>>
    BY <1>7 DEF LowerDeviceCompletion
  <2>s. ~Serial' /\ Parallel # "no"
    BY <1>i, <2>u DEF Transfers, Serial
  <2>t. /\ st' \in [Reqs -> ReqStates]
        /\ allocated' \in [Reqs -> Seq(Block)]
    BY <1>i, <2>u DEF TypeOK, ReqStates
  <2>q. Queue'
    BY <1>i, <2>u, QueueKept
  <2>a. CASE /\ Parallel = "buffered"
             /\ system_buffer' = [system_buffer EXCEPT ![r] =
                  IF op[r] = "READ"
                  THEN CopyOver(@, SubSeq(allocated[r], 1, information[r])) ELSE @]
             /\ last_io_data' = allocated[r]
             /\ last_io_offset' = offset[r]
             /\ last_io_length' = information[r]
    <3>1. /\ allocated[r] \in Seq(Block) /\ system_buffer[r] \in Seq(Block)
          /\ Len(allocated[r]) = Len(system_buffer[r])
          /\ information[r] \in Nat /\ information[r] \in 0 .. Len(allocated[r])
          /\ Len(system_buffer[r]) \in Nat /\ offset[r] \in Nat
          /\ information[r] \in 0 .. Blocks /\ offset[r] \in Offsets
          /\ offset[r] + Len(system_buffer[r]) <= Blocks
      BY <1>c, <1>i, <1>l, <2>a, <2>u DEF Transfers, TypeOK
    <3> DEFINE part == SubSeq(allocated[r], 1, information[r])
    <3>2. part \in Seq(Block) /\ Len(part) = information[r]
      BY <3>1, Prefix
    <3> HIDE DEF part
    <3>3. /\ CopyOver(system_buffer[r], part) \in Seq(Block)
          /\ Len(CopyOver(system_buffer[r], part)) = Len(system_buffer[r])
      BY <3>1, <3>2, CopyFits
    <3>4. /\ system_buffer' \in [Reqs -> Seq(Block)]
          /\ \A q \in Reqs : Len(system_buffer'[q]) = Len(system_buffer[q])
      BY <1>i, <2>a, <3>3 DEF TypeOK, part
    <3>5. TypeOK'
      BY <1>i, <2>a, <2>t, <2>u, <3>1, <3>4 DEF TypeOK
    <3>6. Transfers'
      BY <1>i, <2>u, <3>4 DEF Transfers, TypeOK
    <3>7. Buffer'
      <4>1. pc \in {"take", "reset"}
        <5>1. ASSUME pc \in {"alloc", "transfer", "offset", "length"} PROVE FALSE
          <6>1. /\ current \in Reqs /\ st[current] = "serving"
                /\ op[current] # "FORMAT"
            BY <1>i, <5>1 DEF Queue, Buffer
          <6>2. QED
            BY <1>i, <2>a, <6>1 DEF Transfers, OneFiller
        <5>2. QED
          BY <1>i, <5>1 DEF TypeOK
      <4>2. offset[r] + information[r] <= Blocks
        BY <3>1, <1>c
      <4>3. information[r] <= Len(allocated[r])
        BY <3>1
      <4>4. QED
        BY <2>a, <2>u, <4>1, <4>2, <4>3 DEF Buffer
    <3>8. QED
      BY <2>q, <2>s, <3>5, <3>6, <3>7 DEF Core, Published, Expected, Returned
  <2>b. CASE UNCHANGED <<system_buffer, cacheVars>>
    <3>1. TypeOK'
      BY <1>i, <2>b, <2>t, <2>u DEF TypeOK
    <3>2. Transfers'
      BY <1>i, <2>b, <2>u DEF Transfers, TypeOK
    <3>3. Buffer'
      BY <1>i, <2>b, <2>u DEF Buffer, Asked
    <3>4. QED
      BY <2>q, <2>s, <3>1, <3>2, <3>3 DEF Core, Published, Expected, Returned
  <2>c. QED
    BY <1>7, <2>a, <2>b DEF LowerDeviceCompletion
<1>8. ASSUME Take
      PROVE  Core'
  <2> DEFINE h == Head(list)
  <2>u. /\ pc = "take" /\ list # <<>> /\ list' = Tail(list)
        /\ UNCHANGED <<reqVars, loaded, allocated, cacheVars, use_set_zero_data,
                       imageVars>>
    BY <1>8 DEF Take
  <2>1. /\ list \in Seq(Reqs) /\ Len(list) \in Nat /\ Len(list) > 0
        /\ Tail(list) \in Seq(Reqs) /\ Len(Tail(list)) = Len(list) - 1
        /\ \A k \in 1 .. Len(list) - 1 : Tail(list)[k] = list[k + 1]
        /\ h = list[1] /\ h \in Reqs
        /\ \A k \in 1 .. Len(list) : list[k] \in Reqs
        /\ DOMAIN list = 1 .. Len(list) /\ DOMAIN list' = 1 .. Len(list) - 1
    BY <1>i, <2>u, HeadTailProperties, ElementOfSeq, EmptySeq DEF TypeOK
  <2> HIDE DEF h
  <2>2. st[h] = "queued"
    BY <1>i, <2>1 DEF Queue
  <2>3. \A k \in DOMAIN list' : list'[k] # h /\ list'[k] \in Reqs
                               /\ st[list'[k]] = "queued"
    <3>1. TAKE k \in DOMAIN list'
    <3>2. k + 1 \in 1 .. Len(list) /\ 1 \in 1 .. Len(list) /\ k + 1 # 1
      BY <2>1, <3>1
    <3>3. list'[k] = list[k + 1]
      BY <2>1, <2>u, <3>1
    <3>4. QED
      BY <1>i, <2>1, <3>2, <3>3 DEF Queue
  <2>4. \A k, m \in DOMAIN list' : list'[k] = list'[m] => k = m
    <3>1. TAKE k, m \in DOMAIN list'
    <3>2. /\ k + 1 \in 1 .. Len(list) /\ m + 1 \in 1 .. Len(list)
          /\ k + 1 = m + 1 => k = m
      BY <2>1, <3>1
    <3>3. list'[k] = list[k + 1] /\ list'[m] = list[m + 1]
      BY <2>1, <2>u, <3>1
    <3>4. QED
      BY <1>i, <2>1, <3>2, <3>3 DEF Queue
  <2>5. ASSUME NEW s \in {"serving", "done"}, st' = [st EXCEPT ![h] = s],
               \/ s = "serving" /\ current' = h /\ pc' = "reset"
               \/ s = "done" /\ UNCHANGED <<pc, current>>
        PROVE  Core'
    <3>1. TypeOK'
      <4>1. st' \in [Reqs -> ReqStates]
        BY <1>i, <2>5 DEF TypeOK, ReqStates
      <4>2. pc' \in {"take", "reset"} /\ current' \in Reqs \cup {NoReq}
        BY <1>i, <2>1, <2>5, <2>u DEF TypeOK
      <4>3. QED
        BY <1>i, <2>1, <2>u, <4>1, <4>2 DEF TypeOK
    <3>2. Transfers'
      BY <1>i, <2>1, <2>2, <2>5, <2>u DEF Transfers, TypeOK
    <3>3. Queue'
      <4>1. \A k \in DOMAIN list' : st'[list'[k]] = "queued"
        BY <1>i, <2>3, <2>5 DEF TypeOK
      <4>2. s = "serving" => current' \in Reqs /\ st'[current'] = "serving"
        BY <1>i, <2>1, <2>5 DEF TypeOK
      <4>3. QED
        BY <1>i, <2>4, <2>5, <2>u, <4>1, <4>2 DEF Queue
    <3>4. Buffer' /\ Published'
      BY <1>i, <2>5, <2>u DEF Buffer, Published, PublishedMatchesImage
    <3>5. Expected'
      <4>1. \A r \in Reqs : st'[r] # "free" => st[r] # "free"
        BY <1>i, <2>2, <2>5 DEF TypeOK
      <4>2. pc' # "transfer"
        BY <2>5, <2>u
      <4>3. QED
        BY <1>i, <2>u, <4>1, <4>2 DEF Expected, Serial
    <3>6. Returned'
      BY <1>i, <2>1, <2>5, <2>u DEF Returned, Serial, TypeOK
    <3>7. QED
      BY <3>1, <3>2, <3>3, <3>4, <3>5, <3>6 DEF Core
  <2>6. QED
    BY <1>8, <2>5 DEF Take, h
<1>9. ASSUME Reset
      PROVE  Core'
  <2>o. /\ pc = "reset" /\ pc' = "alloc" /\ op[current] # "FORMAT" /\ LockFree
        /\ last_io_data' = IF last_io_length < Asked THEN <<>> ELSE last_io_data
        /\ last_io_offset' = 0 /\ last_io_length' = 0
        /\ UNCHANGED <<st, reqVars, loaded, allocated, list, current,
                       use_set_zero_data, imageVars>>
    BY <1>9 DEF Reset
  <2>t1. last_io_data' \in Seq(Block)
    BY <1>c, <1>i, <2>o DEF TypeOK
  <2>t2. last_io_offset' \in Offsets /\ last_io_length' \in 0 .. Blocks
    BY <1>c, <2>o
  <2>1. TypeOK'
    BY <1>i, <2>o, <2>t1, <2>t2 DEF TypeOK
  <2>2. Transfers'
    BY <1>c, <1>i, <2>o DEF Transfers, TypeOK
  <2>3. Queue'
    BY <1>c, <1>i, <2>o DEF Queue, TypeOK
  <2>4. Buffer'
    BY <1>c, <1>i, <2>o DEF Buffer, Queue, Asked, TypeOK
  <2>5. Published'
    BY <1>c, <1>i, <2>o
    DEF Published, PublishedMatchesImage, Serial, Buffer, Queue, TypeOK
  <2>6. Expected'
    BY <1>c, <1>i, <2>o DEF Expected, Serial, Asked, Buffer, Queue, TypeOK
  <2>7. Returned'
    BY <1>i, <2>o DEF Returned, Serial, LockFree
  <2>8. QED
    BY <2>1, <2>2, <2>3, <2>4, <2>5, <2>6, <2>7 DEF Core
<1>10. ASSUME Allocate
       PROVE  Core'
  <2>u. /\ pc = "alloc" /\ (last_io_data = <<>> \/ Asked <= Len(last_io_data))
        /\ op[current] # "FORMAT"
        /\ UNCHANGED <<reqVars, loaded, allocated, list, last_io_offset,
                       last_io_length, use_set_zero_data, imageVars>>
    BY <1>10, <1>i DEF Allocate, Buffer
  <2>g. /\ current \in Reqs /\ st[current] = "serving" /\ Asked \in Nat
        /\ Asked = Len(system_buffer[current]) /\ Asked > 0
        /\ system_buffer[current] \in Seq(Block) /\ last_io_data \in Seq(Block)
        /\ Len(last_io_data) \in Nat /\ last_io_length = 0
        /\ offset[current] \in Offsets /\ offset[current] \in Nat
        /\ offset[current] + Asked <= Blocks
    BY <1>c, <1>i, <2>u DEF Queue, Transfers, Buffer, TypeOK, Asked
  <2>a. CASE pc' = "transfer" /\ UNCHANGED <<st, current>>
    <3> DEFINE buf == IF last_io_data = <<>> THEN Uninitialized(Asked)
                      ELSE last_io_data
               copy == CopyOver(buf, system_buffer[current])
    <3>a. last_io_data' = IF op[current] = "READ" THEN buf
                          ELSE IF ByteSwap /\ ~SetsZeroData
                          THEN ByteSwapBuffer(copy, information[current])
                          ELSE copy
      <4>1. pc' # "take"
        BY <2>a
      <4>2. QED
        BY <1>10, <4>1 DEF Allocate, Complete
    <3>b. buf \in Seq(Block) /\ Asked <= Len(buf)
      BY <2>g, <2>u, FreshBuffer
    <3> HIDE DEF buf
    <3>d. /\ copy \in Seq(Block) /\ Len(copy) = Len(buf)
          /\ \A k \in 1 .. Asked : copy[k] = system_buffer[current][k]
      BY <2>g, <3>b, CopyFits
    <3> HIDE DEF copy
    <3>e. /\ ByteSwapBuffer(copy, information[current]) \in Seq(Block)
          /\ Len(ByteSwapBuffer(copy, information[current])) = Len(buf)
      BY <3>d, SwappedBuffer
    <3>f. last_io_data' \in Seq(Block) /\ Asked <= Len(last_io_data')
      BY <3>a, <3>b, <3>d, <3>e
    <3>1. TypeOK'
      BY <1>i, <2>a, <2>u, <3>f DEF TypeOK
    <3>2. Transfers' /\ Queue'
      BY <1>i, <2>a, <2>u DEF Transfers, Queue
    <3>3. Buffer'
      <4>1. Asked' = Asked
        BY <2>a, <2>u DEF Asked
      <4>2. last_io_length' <= Len(last_io_data')
        BY <2>g, <2>u, <3>f
      <4>3. QED
        BY <1>i, <2>a, <2>g, <2>u, <3>f, <4>1, <4>2 DEF Buffer
    <3>4. Published'
      BY <1>i, <2>a, <2>g, <2>u DEF Published, PublishedMatchesImage
    <3>5. Expected'
      <4>1. Asked' = Asked
        BY <2>a, <2>u DEF Asked
      <4>2. ~ByteSwap /\ op[current] = "WRITE" =>
              \A k \in 1 .. Asked : last_io_data'[k] = system_buffer[current][k]
        BY <3>a, <3>d
      <4>3. QED
        BY <1>i, <2>a, <2>u, <4>1, <4>2 DEF Expected, Serial
    <3>6. Returned'
      BY <1>i, <2>a, <2>u DEF Returned, Serial
    <3>7. QED
      BY <3>1, <3>2, <3>3, <3>4, <3>5, <3>6 DEF Core
  <2>b. CASE Complete /\ UNCHANGED last_io_data
    <3>o. /\ st' = [st EXCEPT ![current] = "done"] /\ pc' = "take"
          /\ current' = NoReq
          /\ UNCHANGED last_io_data
      BY <2>b DEF Complete
    <3>t1. st' \in [Reqs -> ReqStates]
      BY <1>i, <3>o DEF TypeOK, ReqStates
    <3>1. TypeOK'
      BY <1>i, <2>u, <3>o, <3>t1 DEF TypeOK
    <3>2. Transfers'
      BY <1>c, <1>i, <3>o, <2>g, <2>u DEF Transfers, TypeOK
    <3>3. Queue'
      BY <1>i, <2>u, <3>o, QueueServed DEF Complete
    <3>4. Buffer'
      BY <1>c, <1>i, <3>o, <2>g, <2>u DEF Buffer, Queue, Asked, TypeOK
    <3>5. Published'
      BY <1>c, <1>i, <3>o, <2>g, <2>u
      DEF Published, PublishedMatchesImage, Serial, Buffer, Queue, TypeOK
    <3>6. Expected'
      BY <1>c, <1>i, <3>o, <2>g, <2>u
      DEF Expected, Serial, Asked, Buffer, Queue, TypeOK
    <3>7. Returned'
      BY <1>c, <1>i, <3>o, <2>g, <2>u DEF Returned, Serial, Queue, TypeOK
    <3>8. QED
      BY <3>1, <3>2, <3>3, <3>4, <3>5, <3>6, <3>7 DEF Core
  <2>c. QED
    BY <1>10, <2>a, <2>b DEF Allocate
<1>11. ASSUME ThreadRead
       PROVE  Core'
  <2>u. /\ pc = "transfer" /\ op[current] = "READ" /\ Asked <= Len(last_io_data)
        /\ UNCHANGED <<op, offset, loaded, allocated, list, last_io_offset,
                       last_io_length, use_set_zero_data, imageVars>>
    BY <1>11, <1>i DEF ThreadRead, Buffer
  <2>g. /\ current \in Reqs /\ st[current] = "serving" /\ Asked \in Nat
        /\ Asked = Len(system_buffer[current]) /\ Asked > 0
        /\ system_buffer[current] \in Seq(Block) /\ last_io_data \in Seq(Block)
        /\ Len(last_io_data) \in Nat /\ last_io_length = 0
        /\ offset[current] \in Offsets /\ offset[current] \in Nat
        /\ offset[current] + Asked <= Blocks
    BY <1>c, <1>i, <2>u DEF Queue, Transfers, Buffer, TypeOK, Asked
  <2>a. ASSUME NEW n \in 0 .. Asked, NEW plain,
               plain = IF ByteSwap THEN ByteSwapBuffer(Slice(offset[current], n), n)
                       ELSE Slice(offset[current], n),
               last_io_data' = CopyOver(last_io_data, Slice(offset[current], n)),
               system_buffer' = [system_buffer EXCEPT ![current] =
                                   CopyOver(@, plain)],
               information' = [information EXCEPT ![current] = n],
               pc' = "offset", UNCHANGED <<st, current>>
        PROVE  Core'
    <3> DEFINE raw == Slice(offset[current], n)
    <3>a. n \in Nat /\ n <= Asked /\ offset[current] + n <= Blocks /\ n \in 0 .. Blocks
      BY <1>c, <2>a, <2>g
    <3>b. /\ raw \in Seq(Block) /\ Len(raw) = n
          /\ \A k \in 1 .. n : raw[k] = image[offset[current] + k - 1]
      BY <1>i, <2>g, <3>a, SliceOfImage DEF TypeOK
    <3>d. plain = IF ByteSwap THEN ByteSwapBuffer(raw, n) ELSE raw
      BY <2>a
    <3>f. /\ last_io_data' = CopyOver(last_io_data, raw)
          /\ system_buffer' = [system_buffer EXCEPT ![current] = CopyOver(@, plain)]
      BY <2>a
    <3> HIDE DEF raw
    <3>e. plain \in Seq(Block) /\ Len(plain) = n
      BY <3>b, <3>d, SwappedBuffer
    <3>h. /\ last_io_data' \in Seq(Block) /\ Len(last_io_data') = Len(last_io_data)
          /\ \A k \in 1 .. n : last_io_data'[k] = image[offset[current] + k - 1]
      <4>1. Len(raw) <= Len(last_io_data)
        BY <2>g, <2>u, <3>a, <3>b
      <4>2. /\ CopyOver(last_io_data, raw) \in Seq(Block)
            /\ Len(CopyOver(last_io_data, raw)) = Len(last_io_data)
            /\ \A k \in 1 .. Len(raw) : CopyOver(last_io_data, raw)[k] = raw[k]
        BY <2>g, <3>b, <4>1, CopyFits
      <4>3. QED
        BY <3>b, <3>f, <4>2
    <3>j. /\ CopyOver(system_buffer[current], plain) \in Seq(Block)
          /\ Len(CopyOver(system_buffer[current], plain)) = Asked
          /\ \A k \in 1 .. n : CopyOver(system_buffer[current], plain)[k] = plain[k]
      BY <2>g, <3>a, <3>e, CopyFits
    <3>k. /\ system_buffer' \in [Reqs -> Seq(Block)]
          /\ \A q \in Reqs : Len(system_buffer'[q]) = Len(system_buffer[q])
          /\ \A q \in Reqs : q # current => system_buffer'[q] = system_buffer[q]
          /\ \A k \in 1 .. n : system_buffer'[current][k] = plain[k]
      BY <1>i, <2>g, <3>f, <3>j DEF TypeOK
    <3>m. /\ information' \in [Reqs -> 0 .. Blocks] /\ information'[current] = n
          /\ \A q \in Reqs : q # current => information'[q] = information[q]
      BY <1>i, <2>a, <2>g, <3>a DEF TypeOK
    <3>n. Asked' = Asked
      BY <2>a, <2>g, <3>k DEF Asked
    <3>1. TypeOK'
      BY <1>i, <2>a, <2>u, <3>h, <3>k, <3>m DEF TypeOK
    <3>2. Transfers'
      <4>1. information'[current] <= Len(system_buffer'[current])
        BY <2>g, <3>a, <3>k, <3>m
      <4>2. QED
        BY <1>i, <2>a, <2>g, <2>u, <3>k, <3>m, <4>1 DEF Transfers
    <3>3. Queue'
      BY <1>i, <2>a, <2>u DEF Queue
    <3>4. Buffer'
      BY <1>i, <2>a, <2>g, <2>u, <3>h, <3>n DEF Buffer
    <3>5. Published'
      <4>1. last_io_length' = 0
        BY <2>g, <2>u
      <4>2. \A k \in 1 .. information'[current'] :
              last_io_data'[k] = image'[offset'[current'] + k - 1]
        BY <2>a, <2>u, <3>h, <3>m
      <4>3. \A k \in 1 .. last_io_length' :
              last_io_data'[k] = image'[last_io_offset' + k - 1]
        BY <4>1
      <4>4. QED
        BY <4>2, <4>3 DEF Published, PublishedMatchesImage
    <3>6. Expected'
      BY <1>i, <2>a, <2>u DEF Expected, Serial
    <3>7. Returned'
      <4>1. SUFFICES ASSUME Serial, ~ByteSwap, ~TornLookups
                     PROVE  Returned'
        BY DEF Returned, Serial
      <4>3. ASSUME NEW k \in 1 .. n
            PROVE  plain[k] \in legit[current][offset[current] + k - 1]
        <5>1. plain[k] = image[offset[current] + k - 1]
          BY <3>b, <3>d, <4>1, <4>3
        <5>2. offset[current] + k - 1 \in Offsets
          BY <1>c, <2>g, <3>a, <4>3
        <5>3. QED
          BY <1>i, <2>g, <2>u, <4>1, <5>1, <5>2 DEF Expected
      <4>4. ASSUME NEW q \in Reqs, op'[q] = "READ", NEW k \in 1 .. information'[q]
            PROVE  system_buffer'[q][k] \in legit'[q][offset'[q] + k - 1]
        <5>1. CASE q = current
          BY <2>u, <3>k, <3>m, <4>3, <4>4, <5>1
        <5>2. CASE q # current
          BY <1>i, <2>u, <3>k, <3>m, <4>1, <4>4, <5>2 DEF Returned
        <5>3. QED
          BY <5>1, <5>2
      <4>5. QED
        BY <4>4 DEF Returned
    <3>8. QED
      BY <3>1, <3>2, <3>3, <3>4, <3>5, <3>6, <3>7 DEF Core
  <2>b. CASE /\ last_io_data' = <<>> /\ Complete
             /\ UNCHANGED <<system_buffer, information>>
    <3>o. /\ st' = [st EXCEPT ![current] = "done"] /\ pc' = "take"
          /\ current' = NoReq
          /\ last_io_data' = <<>> /\ UNCHANGED <<system_buffer, information>>
      BY <2>b DEF Complete
    <3>t1. st' \in [Reqs -> ReqStates]
      BY <1>i, <3>o DEF TypeOK, ReqStates
    <3>t2. last_io_data' \in Seq(Block)
      BY <3>o
    <3>1. TypeOK'
      BY <1>i, <2>u, <3>o, <3>t1, <3>t2 DEF TypeOK
    <3>2. Transfers'
      BY <1>c, <1>i, <3>o, <2>g, <2>u DEF Transfers, TypeOK
    <3>3. Queue'
      BY <1>i, <2>u, <3>o, QueueServed DEF Complete
    <3>4. Buffer'
      BY <1>c, <1>i, <3>o, <2>g, <2>u DEF Buffer, Queue, Asked, TypeOK
    <3>5. Published'
      BY <1>c, <1>i, <3>o, <2>g, <2>u
      DEF Published, PublishedMatchesImage, Serial, Buffer, Queue, TypeOK
    <3>6. Expected'
      BY <1>c, <1>i, <3>o, <2>g, <2>u
      DEF Expected, Serial, Asked, Buffer, Queue, TypeOK
    <3>7. Returned'
      BY <1>c, <1>i, <3>o, <2>g, <2>u DEF Returned, Serial, Queue, TypeOK
    <3>8. QED
      BY <3>1, <3>2, <3>3, <3>4, <3>5, <3>6, <3>7 DEF Core
  <2>c. QED
    BY <1>11, <2>a, <2>b DEF ThreadRead
<1>12. ASSUME ThreadWrite
       PROVE  Core'
  <2>u. /\ pc = "transfer" /\ op[current] = "WRITE" /\ Asked <= Len(last_io_data)
        /\ use_set_zero_data' \in BOOLEAN
        /\ use_set_zero_data' => use_set_zero_data
        /\ UNCHANGED <<op, offset, system_buffer, loaded, allocated, list,
                       last_io_offset, last_io_length>>
    <3>1. use_set_zero_data \in BOOLEAN
      BY <1>i DEF TypeOK
    <3>2. use_set_zero_data' \in
            {use_set_zero_data, use_set_zero_data /\ ~SetsZeroData}
      BY <1>12 DEF ThreadWrite
    <3>3. use_set_zero_data' \in BOOLEAN /\ (use_set_zero_data' => use_set_zero_data)
      BY <3>1, <3>2
    <3>4. QED
      BY <1>12, <1>i, <3>3 DEF ThreadWrite, Buffer
  <2>g. /\ current \in Reqs /\ st[current] = "serving" /\ Asked \in Nat
        /\ Asked = Len(system_buffer[current]) /\ Asked > 0
        /\ system_buffer[current] \in Seq(Block) /\ last_io_data \in Seq(Block)
        /\ Len(last_io_data) \in Nat /\ last_io_length = 0
        /\ offset[current] \in Offsets /\ offset[current] \in Nat
        /\ offset[current] + Asked <= Blocks
    BY <1>c, <1>i, <2>u DEF Queue, Transfers, Buffer, TypeOK, Asked
  <2>1. PICK n \in 0 .. Asked, ok \in BOOLEAN :
          /\ StoreInImage(offset[current], SubSeq(last_io_data, 1, n),
                          SubSeq(system_buffer[current], 1, n), ok)
          /\ \/ /\ ok /\ n = Asked
                /\ information' = [information EXCEPT ![current] = n]
                /\ pc' = "offset"
                /\ UNCHANGED <<st, current, last_io_data>>
             \/ /\ ~ok
                /\ last_io_data' = <<>>
                /\ Complete
                /\ UNCHANGED information
    BY <1>12 DEF ThreadWrite
  <2> DEFINE raw == SubSeq(last_io_data, 1, n)
             plain == SubSeq(system_buffer[current], 1, n)
  <2>2. /\ n \in Nat /\ n <= Asked /\ n <= Len(last_io_data)
        /\ offset[current] + n <= Blocks
    BY <1>c, <2>g, <2>u, <2>1
  <2>3. /\ raw \in Seq(Block) /\ Len(raw) = n
        /\ \A k \in 1 .. n : raw[k] = last_io_data[k]
    BY <2>2, <2>g, Prefix
  <2>4. /\ plain \in Seq(Block) /\ Len(plain) = n
        /\ \A k \in 1 .. n : plain[k] = system_buffer[current][k]
    BY <2>2, <2>g, Prefix
  <2>5. StoreInImage(offset[current], raw, plain, ok)
    BY <2>1
  <2> HIDE DEF raw, plain
  <2>6. /\ image' \in [Offsets -> Block]
        /\ content' \in [Offsets -> SUBSET Block]
        /\ legit' \in [Reqs -> [Offsets -> SUBSET Block]]
        /\ \A k \in 1 .. n : image'[offset[current] + k - 1] = raw[k]
        /\ (/\ \A b \in Offsets : image[b] \in content[b]
            /\ \A k \in 1 .. n : raw[k] = plain[k])
             => \A b \in Offsets : image'[b] \in content'[b]
        /\ \A r \in Reqs : st[r] # "free" /\ op[r] = "READ" =>
             \A b \in Offsets : /\ legit[r][b] \subseteq legit'[r][b]
                                /\ content'[b] \subseteq legit'[r][b]
    <3>1. /\ TypeOK /\ offset[current] \in Offsets /\ ok \in BOOLEAN
          /\ raw \in Seq(Block) /\ plain \in Seq(Block)
          /\ Len(plain) = Len(raw) /\ offset[current] + Len(raw) <= Blocks
          /\ Len(raw) = n
      BY <1>i, <2>1, <2>2, <2>3, <2>4, <2>g
    <3>2. /\ image' \in [Offsets -> Block]
          /\ content' \in [Offsets -> SUBSET Block]
          /\ legit' \in [Reqs -> [Offsets -> SUBSET Block]]
          /\ \A k \in 1 .. Len(raw) : image'[offset[current] + k - 1] = raw[k]
          /\ (/\ \A b \in Offsets : image[b] \in content[b]
              /\ \A k \in 1 .. Len(raw) : raw[k] = plain[k])
               => \A b \in Offsets : image'[b] \in content'[b]
          /\ \A r \in Reqs : st[r] # "free" /\ op[r] = "READ" =>
               \A b \in Offsets : /\ legit[r][b] \subseteq legit'[r][b]
                                  /\ content'[b] \subseteq legit'[r][b]
      BY <2>5, <3>1, Stored
    <3>3. QED
      BY <3>1, <3>2
  <2>7. st' \in [Reqs -> ReqStates] /\ \A q \in Reqs : q # current => st'[q] = st[q]
    BY <1>i, <2>1 DEF TypeOK, ReqStates, Complete
  <2>8. \A q \in Reqs : st'[q] # "free" => st[q] # "free"
    BY <1>i, <2>1, <2>g DEF TypeOK, Complete
  <2>9. Serial /\ ~ByteSwap =>
          /\ \A b \in Offsets : image'[b] \in content'[b]
          /\ \A r \in Reqs : st'[r] # "free" /\ op'[r] = "READ" =>
               \A b \in Offsets : content'[b] \subseteq legit'[r][b]
    <3>1. SUFFICES ASSUME Serial, ~ByteSwap
                   PROVE  /\ \A b \in Offsets : image'[b] \in content'[b]
                          /\ \A r \in Reqs : st'[r] # "free" /\ op'[r] = "READ" =>
                               \A b \in Offsets : content'[b] \subseteq legit'[r][b]
      OBVIOUS
    <3>2. \A b \in Offsets : image[b] \in content[b]
      BY <1>i, <3>1 DEF Expected
    <3>3. \A k \in 1 .. Asked : last_io_data[k] = system_buffer[current][k]
      BY <1>i, <2>u, <3>1 DEF Expected
    <3>4. \A k \in 1 .. n : raw[k] = plain[k]
      BY <2>2, <2>3, <2>4, <2>g, <3>3
    <3>5. QED
      BY <2>6, <2>8, <2>u, <3>2, <3>4
  <2>10. Returned'
    <3>1. SUFFICES ASSUME Serial, ~ByteSwap, ~TornLookups
                   PROVE  Returned'
      BY DEF Returned, Serial
    <3>3. ASSUME NEW q \in Reqs, op'[q] = "READ", NEW k \in 1 .. information'[q]
          PROVE  system_buffer'[q][k] \in legit'[q][offset'[q] + k - 1]
      <4>1. q # current /\ op[q] = "READ"
        BY <2>u, <3>3
      <4>2. information'[q] = information[q]
        BY <1>i, <2>1, <4>1 DEF TypeOK
      <4>3. system_buffer[q][k] \in legit[q][offset[q] + k - 1]
        BY <1>i, <3>1, <3>3, <4>1, <4>2 DEF Returned
      <4>4. /\ k \in Nat /\ k >= 1 /\ k <= information[q] /\ information[q] \in Nat
            /\ offset[q] \in Nat
        BY <1>c, <1>i, <3>3, <4>2 DEF TypeOK
      <4>5. /\ offset[q] + Len(system_buffer[q]) <= Blocks
            /\ information[q] <= Len(system_buffer[q])
            /\ Len(system_buffer[q]) \in Nat
        BY <1>i, <1>l DEF Transfers
      <4>6. offset[q] + k - 1 \in Offsets
        BY <1>c, <4>4, <4>5
      <4>7. st[q] # "free"
        BY <1>i, <4>4 DEF Transfers
      <4>8. QED
        BY <2>6, <2>u, <4>1, <4>3, <4>6, <4>7
    <3>4. QED
      BY <3>3 DEF Returned
  <2>a. CASE /\ n = Asked /\ information' = [information EXCEPT ![current] = n]
             /\ pc' = "offset" /\ UNCHANGED <<st, current, last_io_data>>
    <3>a. /\ information' \in [Reqs -> 0 .. Blocks] /\ information'[current] = n
          /\ \A q \in Reqs : q # current => information'[q] = information[q]
      <4>1. n \in 0 .. Blocks
        BY <1>c, <2>2, <2>g
      <4>2. QED
        BY <1>i, <2>a, <2>g, <4>1 DEF TypeOK
    <3>1. TypeOK'
      BY <1>i, <2>6, <2>a, <2>u, <3>a DEF TypeOK
    <3>2. Transfers'
      BY <1>i, <2>a, <2>g, <2>u, <3>a DEF Transfers
    <3>3. Queue'
      BY <1>i, <2>a, <2>u DEF Queue
    <3>4. Buffer'
      BY <1>i, <2>a, <2>g, <2>u, <3>a DEF Buffer, Asked
    <3>5. Published'
      <4>1. last_io_length' = 0
        BY <2>g, <2>u
      <4>2. \A k \in 1 .. information'[current'] :
              last_io_data'[k] = image'[offset'[current'] + k - 1]
        BY <2>3, <2>6, <2>a, <2>u, <3>a
      <4>3. \A k \in 1 .. last_io_length' :
              last_io_data'[k] = image'[last_io_offset' + k - 1]
        BY <4>1
      <4>4. QED
        BY <4>2, <4>3 DEF Published, PublishedMatchesImage
    <3>6. Expected'
      BY <2>9, <2>a DEF Expected, Serial
    <3>7. QED
      BY <2>10, <3>1, <3>2, <3>3, <3>4, <3>5, <3>6 DEF Core
  <2>b. CASE last_io_data' = <<>> /\ Complete /\ UNCHANGED information
    <3>a. /\ st' = [st EXCEPT ![current] = "done"] /\ pc' = "take"
          /\ current' = NoReq
      BY <2>b DEF Complete
    <3>1. TypeOK'
      BY <1>i, <2>6, <2>7, <2>b, <2>u, <3>a DEF TypeOK
    <3>2. Transfers'
      BY <1>i, <2>b, <2>g, <2>u, <3>a DEF Transfers, TypeOK
    <3>3. Queue'
      BY <1>i, <2>b, <2>u, QueueServed
    <3>4. Buffer'
      BY <1>i, <2>b, <2>g, <2>u, <3>a DEF Buffer
    <3>5. Published'
      BY <2>b, <2>g, <2>u, <3>a DEF Published, PublishedMatchesImage
    <3>6. Expected'
      BY <2>9, <3>a DEF Expected, Serial
    <3>7. QED
      BY <2>10, <3>1, <3>2, <3>3, <3>4, <3>5, <3>6 DEF Core
  <2>c. QED
    BY <2>1, <2>a, <2>b
<1>13. ASSUME PublishOffset
       PROVE  Core'
  <2>u. pc \in {"alloc", "transfer", "offset", "length"}
    BY <1>13 DEF PublishOffset
  <2>g. /\ current \in Reqs /\ st[current] = "serving" /\ Asked \in Nat
        /\ Asked = Len(system_buffer[current]) /\ Asked > 0
        /\ system_buffer[current] \in Seq(Block) /\ last_io_data \in Seq(Block)
        /\ Len(last_io_data) \in Nat /\ last_io_length = 0
        /\ offset[current] \in Offsets /\ offset[current] \in Nat
        /\ offset[current] + Asked <= Blocks
    BY <1>c, <1>i, <2>u DEF Queue, Transfers, Buffer, TypeOK, Asked
  <2>o. /\ pc = "offset" /\ pc' = "length" /\ MayPublish
        /\ last_io_offset' = offset[current]
        /\ UNCHANGED <<st, reqVars, loaded, allocated, list, current,
                       last_io_data, last_io_length, use_set_zero_data, imageVars>>
    BY <1>13 DEF PublishOffset
  <2>t1. last_io_offset' \in Offsets
    BY <2>o, <2>g
  <2>1. TypeOK'
    BY <1>i, <2>o, <2>t1 DEF TypeOK
  <2>2. Transfers'
    BY <1>c, <1>i, <2>o, <2>g DEF Transfers, TypeOK
  <2>3. Queue'
    BY <1>c, <1>i, <2>o, <2>g DEF Queue, TypeOK
  <2>4. Buffer'
    BY <1>c, <1>i, <2>o, <2>g DEF Buffer, Queue, Asked, TypeOK
  <2>5. Published'
    BY <1>c, <1>i, <2>o, <2>g
    DEF Published, PublishedMatchesImage, Serial, Buffer, Queue, TypeOK
  <2>6. Expected'
    BY <1>c, <1>i, <2>o, <2>g
    DEF Expected, Serial, Asked, Buffer, Queue, TypeOK
  <2>7. Returned'
    BY <1>i, <2>o DEF Returned, Serial, MayPublish, LockFree
  <2>8. QED
    BY <2>1, <2>2, <2>3, <2>4, <2>5, <2>6, <2>7 DEF Core
<1>14. ASSUME PublishLength
       PROVE  Core'
  <2>u. /\ pc = "length" /\ MayPublish /\ Complete
        /\ last_io_length' = IF op[current] = "READ" THEN information[current]
                             ELSE Asked
        /\ UNCHANGED <<reqVars, loaded, allocated, list, last_io_data,
                       last_io_offset, use_set_zero_data, imageVars>>
    BY <1>14 DEF PublishLength
  <2>g. /\ current \in Reqs /\ st[current] = "serving" /\ Asked \in Nat
        /\ Asked = Len(system_buffer[current]) /\ Asked > 0
        /\ system_buffer[current] \in Seq(Block) /\ last_io_data \in Seq(Block)
        /\ Len(last_io_data) \in Nat /\ last_io_length = 0
        /\ offset[current] \in Offsets /\ offset[current] \in Nat
        /\ offset[current] + Asked <= Blocks
    BY <1>c, <1>i, <2>u DEF Queue, Transfers, Buffer, TypeOK, Asked
  <2>n. /\ last_io_length' = information[current]
        /\ information[current] \in Nat /\ information[current] <= Asked
        /\ Asked <= Len(last_io_data) /\ last_io_offset = offset[current]
    BY <1>c, <1>i, <2>g, <2>u DEF Buffer, Transfers, TypeOK
  <2>o. /\ st' = [st EXCEPT ![current] = "done"] /\ pc' = "take"
        /\ current' = NoReq
    BY <2>u DEF Complete
  <2>t1. st' \in [Reqs -> ReqStates]
    BY <1>i, <2>o DEF TypeOK, ReqStates
  <2>t2. last_io_length' \in 0 .. Blocks
    BY <1>c, <2>g, <2>n
  <2>1. TypeOK'
    BY <1>i, <2>u, <2>o, <2>t1, <2>t2 DEF TypeOK
  <2>2. Transfers'
    BY <1>c, <1>i, <2>o, <2>g, <2>u DEF Transfers, TypeOK
  <2>3. Queue'
    BY <1>i, <2>u, <2>o, QueueServed DEF Complete
  <2>4. Buffer'
    <3>1. last_io_length' <= Len(last_io_data)
      BY <2>g, <2>n
    <3>2. last_io_offset + last_io_length' <= Blocks
      BY <1>c, <2>g, <2>n
    <3>3. QED
      BY <2>u, <2>o, <3>1, <3>2 DEF Buffer
  <2>5. Published'
    BY <1>i, <2>u, <2>n, <2>o DEF Published, PublishedMatchesImage
  <2>6. Expected'
    BY <1>c, <1>i, <2>o, <2>g, <2>u
    DEF Expected, Serial, Asked, Buffer, Queue, TypeOK
  <2>7. Returned'
    BY <1>i, <2>u, <2>g, <2>o DEF Returned, Serial, TypeOK
  <2>8. QED
    BY <2>1, <2>2, <2>3, <2>4, <2>5, <2>6, <2>7 DEF Core
<1>15. ASSUME FloppyFormat
       PROVE  Core'
  <2>u. /\ pc = "reset" /\ op[current] = "FORMAT" /\ Complete
        /\ UNCHANGED <<reqVars, loaded, allocated, list, cacheVars,
                       use_set_zero_data>>
    BY <1>15 DEF FloppyFormat
  <2>g. /\ current \in Reqs /\ st[current] = "serving" /\ Asked \in Nat
        /\ Asked = Len(system_buffer[current])
        /\ offset[current] \in Offsets /\ offset[current] \in Nat
        /\ offset[current] + Asked <= Blocks
    BY <1>c, <1>i, <1>l, <2>u DEF Queue, Transfers, TypeOK, Asked
  <2>s. ~Serial'
    BY <1>i, <2>g, <2>u DEF Transfers, Serial
  <2>w. /\ image' \in [Offsets -> Block]
        /\ content' \in [Offsets -> SUBSET Block]
        /\ legit' \in [Reqs -> [Offsets -> SUBSET Block]]
    <3>1. PICK n \in 0 .. Asked :
            StoreInImage(offset[current], [k \in 1 .. n |-> Fill],
                         [k \in 1 .. n |-> Fill], n = Asked)
      BY <1>15 DEF FloppyFormat
    <3> DEFINE filled == [k \in 1 .. n |-> Fill]
               all == (n = Asked)
    <3>2. n \in Nat /\ offset[current] + n <= Blocks
      BY <1>c, <2>g, <3>1
    <3>3. filled \in Seq(Block) /\ Len(filled) = n
      BY <3>2, BlockFacts, IsASeq
    <3>4. StoreInImage(offset[current], filled, filled, all) /\ all \in BOOLEAN
      BY <3>1
    <3> HIDE DEF filled, all
    <3>5. QED
      BY <1>i, <2>g, <3>2, <3>3, <3>4, Stored
  <2>o. /\ st' = [st EXCEPT ![current] = "done"] /\ pc' = "take"
        /\ current' = NoReq
    BY <2>u DEF Complete
  <2>t1. st' \in [Reqs -> ReqStates]
    BY <1>i, <2>o DEF TypeOK, ReqStates
  <2>1. TypeOK'
    BY <1>i, <2>u, <2>w, <2>o, <2>t1 DEF TypeOK
  <2>2. Transfers'
    BY <1>c, <1>i, <2>o, <2>g, <2>u DEF Transfers, TypeOK
  <2>3. Queue'
    BY <1>i, <2>u, <2>o, QueueServed DEF Complete
  <2>4. Buffer'
    BY <1>c, <1>i, <2>o, <2>g, <2>u DEF Buffer, Queue, Asked, TypeOK
  <2>5. Published'
    BY <2>o, <2>s DEF Published
  <2>6. Expected'
    BY <2>o, <2>s DEF Expected
  <2>7. Returned'
    BY <2>o, <2>s DEF Returned
  <2>8. QED
    BY <2>1, <2>2, <2>3, <2>4, <2>5, <2>6, <2>7 DEF Core
<1>16. CASE UNCHANGED vars
  BY <1>16, <1>i DEF vars, Core, TypeOK, Transfers, Queue, Buffer, Published,
     PublishedMatchesImage, Expected, Returned, Serial, Asked
<1>17. QED
  BY <1>1, <1>2, <1>3, <1>4, <1>f, <1>5, <1>6, <1>7, <1>8, <1>9, <1>10, <1>11, <1>12,
     <1>13, <1>14, <1>15, <1>16 DEF Next

(* A step that leaves the loads of the lookups in progress, their reads    *)
(* and what is published alone.                                            *)
LEMMA LookupsKept ==
  ASSUME Lookups, UNCHANGED <<last_io_offset, last_io_length>>,
         \A q \in Reqs : st'[q] \in {"looking", "hit"} =>
           /\ st[q] = st'[q] /\ loaded'[q] = loaded[q] /\ offset'[q] = offset[q]
           /\ system_buffer'[q] = system_buffer[q]
  PROVE  Lookups'
BY DEF Lookups

(* A step of somebody who has the lock, or who meets nobody that has it.   *)
LEMMA LookupsNone ==
  ASSUME ~TornLookups => \A q \in Reqs : st'[q] \notin {"looking", "hit"}
  PROVE  Lookups'
BY DEF Lookups

(* Every step keeps the lookups in progress as they are, if publications   *)
(* respect the lock.                                                       *)
LEMMA LookupsStep == ASSUME IInv, [Next]_vars PROVE Lookups'
<1> USE DEF reqVars, cacheVars, imageVars
<1>i. TypeOK /\ Queue /\ Lookups
  BY DEF IInv, Core
<1>t. /\ st \in [Reqs -> ReqStates] /\ offset \in [Reqs -> Offsets]
      /\ loaded \in [Reqs -> Offsets] /\ system_buffer \in [Reqs -> Seq(Block)]
  BY <1>i DEF TypeOK
<1>q. pc # "take" => current \in Reqs /\ st[current] = "serving"
  BY <1>i DEF Queue
<1>1. ASSUME NEW r \in Reqs, NEW o, NEW x, NEW buf, Send(r, o, x, buf)
      PROVE  Lookups'
  BY <1>1, <1>i, <1>t, LookupsKept DEF Send
<1>2. ASSUME NEW r \in Reqs, Retire(r)
      PROVE  Lookups'
  BY <1>2, <1>i, <1>t, LookupsKept DEF Retire
<1>3. ASSUME NEW r \in Reqs, LoadOffset(r)
      PROVE  Lookups'
  <2>1. /\ \A q \in Reqs : st[q] \notin {"looking", "hit"}
        /\ UNCHANGED last_io_offset
        /\ \/ st' = [st EXCEPT ![r] = "missed"]
           \/ /\ st' = [st EXCEPT ![r] = "looking"]
              /\ loaded' = [loaded EXCEPT ![r] = last_io_offset]
    BY <1>3 DEF LoadOffset, LockFree
  <2>2. \A q \in Reqs : st'[q] # "hit" /\ (st'[q] = "looking" =>
          loaded'[q] = last_io_offset)
    BY <1>t, <2>1
  <2>3. QED
    BY <2>1, <2>2 DEF Lookups
<1>4. ASSUME NEW r \in Reqs, TestHit(r)
      PROVE  Lookups'
  <2>1. SUFFICES ASSUME ~TornLookups PROVE Lookups'
    BY DEF Lookups
  <2>2. PICK again \in {loaded[r], last_io_offset} :
          st' = [st EXCEPT ![r] = IF Inside(r, again) THEN "hit" ELSE "missed"]
    BY <1>4 DEF TestHit
  <2>3. /\ st[r] = "looking" /\ loaded' = [loaded EXCEPT ![r] = 0]
        /\ UNCHANGED <<offset, system_buffer, last_io_offset, last_io_length>>
    BY <1>4 DEF TestHit
  <2>4. loaded[r] = last_io_offset
    BY <1>i, <2>1, <2>3 DEF Lookups
  <2>5. st'[r] # "looking" /\ (st'[r] = "hit" =>
          /\ offset[r] >= last_io_offset
          /\ offset[r] + Len(system_buffer[r])
               <= last_io_offset + last_io_length)
    BY <1>t, <2>2, <2>4 DEF Inside
  <2>6. \A q \in Reqs : q # r => st'[q] = st[q] /\ loaded'[q] = loaded[q]
    BY <1>t, <2>2, <2>3
  <2>7. QED
    BY <1>i, <2>1, <2>3, <2>5, <2>6 DEF Lookups
<1>f. ASSUME NEW r \in Reqs, FinishLookup(r)
      PROVE  Lookups'
  BY <1>f, <1>i, <1>t, LookupsKept DEF FinishLookup
<1>5. ASSUME NEW r \in Reqs, Route(r)
      PROVE  Lookups'
  BY <1>5, <1>i, <1>t, LookupsKept DEF Route
<1>6. ASSUME NEW r \in Reqs, LowerDeviceIo(r)
      PROVE  Lookups'
  <2>1. PICK n, ok \in BOOLEAN :
          /\ st' = [st EXCEPT ![r] = IF ok THEN "lowered" ELSE "failed"]
          /\ \/ \E buf : system_buffer' = [system_buffer EXCEPT ![r] = buf]
             \/ UNCHANGED system_buffer
    BY <1>6 DEF LowerDeviceIo
  <2>2. UNCHANGED <<offset, loaded, last_io_offset, last_io_length>>
    BY <1>6 DEF LowerDeviceIo
  <2>3. \A q \in Reqs : q # r =>
          st'[q] = st[q] /\ system_buffer'[q] = system_buffer[q]
    BY <1>t, <2>1
  <2>4. st'[r] \notin {"looking", "hit"}
    BY <1>t, <2>1
  <2>5. QED
    BY <1>i, <2>2, <2>3, <2>4, LookupsKept
<1>7. ASSUME NEW r \in Reqs, LowerDeviceCompletion(r)
      PROVE  Lookups'
  <2>1. st' = [st EXCEPT ![r] = "done"] /\ UNCHANGED <<offset, loaded>>
    BY <1>7 DEF LowerDeviceCompletion
  <2>2. CASE LockFree
    BY <1>t, <2>1, <2>2, LookupsNone DEF LockFree
  <2>3. CASE UNCHANGED <<system_buffer, cacheVars>>
    BY <1>i, <1>t, <2>1, <2>3, LookupsKept
  <2>4. QED
    BY <1>7, <2>2, <2>3 DEF LowerDeviceCompletion
<1>8. CASE Take
  <2>1. list # <<>> /\ list \in Seq(Reqs)
    BY <1>8, <1>i DEF Take, TypeOK
  <2>2. Head(list) \in Reqs
    BY <2>1
  <2>3. PICK s \in {"serving", "done"} : st' = [st EXCEPT ![Head(list)] = s]
    BY <1>8 DEF Take
  <2>4. QED
    BY <1>8, <1>i, <1>t, <2>2, <2>3, LookupsKept DEF Take
<1>9. CASE Reset
  BY <1>9, LookupsNone DEF Reset, LockFree
<1>10. CASE Allocate
  BY <1>10, <1>i, <1>t, <1>q, LookupsKept DEF Allocate, Complete
<1>11. CASE ThreadRead
  <2>1. /\ pc = "transfer"
        /\ UNCHANGED <<offset, loaded, last_io_offset, last_io_length>>
        /\ UNCHANGED st \/ st' = [st EXCEPT ![current] = "done"]
        /\ \/ \E buf : system_buffer' = [system_buffer EXCEPT ![current] = buf]
           \/ UNCHANGED system_buffer
    BY <1>11 DEF ThreadRead, Complete
  <2>2. \A q \in Reqs : q # current =>
          st'[q] = st[q] /\ system_buffer'[q] = system_buffer[q]
    BY <1>t, <2>1
  <2>3. st'[current] \notin {"looking", "hit"}
    BY <1>q, <1>t, <2>1
  <2>4. QED
    BY <1>i, <2>1, <2>2, <2>3, LookupsKept
<1>12. CASE ThreadWrite
  <2>1. /\ pc = "transfer" /\ UNCHANGED <<offset, loaded, system_buffer>>
        /\ UNCHANGED <<last_io_offset, last_io_length>>
        /\ UNCHANGED st \/ st' = [st EXCEPT ![current] = "done"]
    BY <1>12 DEF ThreadWrite, Complete
  <2>2. QED
    BY <1>i, <1>q, <1>t, <2>1, LookupsKept
<1>13. CASE PublishOffset
  BY <1>13, LookupsNone DEF PublishOffset, MayPublish, LockFree
<1>14. CASE PublishLength
  BY <1>14, <1>q, <1>t, LookupsNone
  DEF PublishLength, MayPublish, LockFree, Complete
<1>15. CASE FloppyFormat
  BY <1>15, <1>i, <1>q, <1>t, LookupsKept DEF FloppyFormat, Complete
<1>16. CASE UNCHANGED vars
  BY <1>16, <1>i DEF vars, Lookups
<1>17. QED
  BY <1>1, <1>2, <1>3, <1>4, <1>f, <1>5, <1>6, <1>7, <1>8, <1>9, <1>10, <1>11,
     <1>12, <1>13, <1>14, <1>15, <1>16 DEF Next

LEMMA InvStep == ASSUME OneFiller, IInv, [Next]_vars PROVE IInv'
BY CoreStep, LookupsStep DEF IInv

(* Nothing has been sent and nothing is published.                         *)
LEMMA InitInv == Init => IInv
<1> SUFFICES ASSUME Init PROVE IInv
  OBVIOUS
<1>c. /\ Blocks \in Nat \ {0} /\ Offsets = 0 .. Blocks - 1 /\ Offsets \subseteq Nat
      /\ Sparse \in BOOLEAN /\ NoReq \notin Reqs
  BY Constants
<1>1. TypeOK
  <2>1. /\ 0 \in Offsets /\ 0 \in 0 .. Blocks /\ <<>> \in Seq(Block)
        /\ <<>> \in Seq(Reqs) /\ "free" \in ReqStates
    BY <1>c DEF ReqStates
  <2>2. /\ [b \in Offsets |-> Zero] \in [Offsets -> Block]
        /\ [b \in Offsets |-> {Zero}] \in [Offsets -> SUBSET Block]
        /\ [b \in Offsets |-> {}] \in [Offsets -> SUBSET Block]
    BY BlockFacts
  <2>3. QED
    BY <1>c, <2>1, <2>2 DEF Init, TypeOK
<1>2. Transfers
  BY <1>c DEF Init, Transfers
<1>3. Queue /\ Buffer
  BY <1>c DEF Init, Queue, Buffer
<1>4. Published /\ Expected /\ Returned
  BY <1>c DEF Init, Published, PublishedMatchesImage, Expected, Returned
<1>5. Lookups
  BY DEF Init, Lookups
<1>6. QED
  BY <1>1, <1>2, <1>3, <1>4, <1>5 DEF IInv, Core

(* The invariant of the data path, for every disk whose last-I/O buffer is *)
(* filled either by the device thread or by completion routines.           *)
THEOREM Invariance == ASSUME OneFiller PROVE Spec => []IInv
BY InitInv, InvStep, PTL DEF Spec

(* Requests, queue, last-I/O buffer and image keep their types; offsets    *)
(* and lengths stay on the disk.                                           *)
THEOREM TypeCorrect == ASSUME OneFiller PROVE Spec => []TypeOK
<1>1. IInv => TypeOK
  BY DEF IInv, Core
<1>2. QED
  BY <1>1, Invariance, PTL

(* No copy of a lookup, of a completion routine or of the device thread    *)
(* leaves last_io_data, if no publication falls between the loads of a     *)
(* lookup.                                                                 *)
THEOREM CopiesAreInside ==
  ASSUME OneFiller, ~TornLookups PROVE Spec => []CopiesStayInBuffer
<1>1. IInv => CopiesStayInBuffer
  <2> SUFFICES ASSUME IInv PROVE CopiesStayInBuffer
    OBVIOUS
  <2>1. ASSUME NEW r \in Reqs, st[r] = "hit"
        PROVE  /\ offset[r] >= last_io_offset
               /\ offset[r] - last_io_offset + Len(system_buffer[r])
                    <= Len(last_io_data)
    <3>1. /\ offset[r] \in Nat /\ last_io_offset \in Nat
          /\ last_io_length \in Nat /\ Len(system_buffer[r]) \in Nat
          /\ Len(last_io_data) \in Nat /\ last_io_length <= Len(last_io_data)
      BY Constants DEF IInv, Core, TypeOK, Buffer
    <3>2. QED
      BY <2>1, <3>1 DEF IInv, Lookups
  <2>2. QED
    BY <2>1 DEF IInv, Core, Buffer, CopiesStayInBuffer
<1>2. QED
  BY <1>1, Invariance, PTL

(* What ImDiskDeviceThreadRead and Write publish is what the image holds,  *)
(* on a disk without parallel I/O that is not formatted as a floppy, with  *)
(* swapped bytes and torn lookups too.                                     *)
THEOREM PublishedIsImage == ASSUME Serial PROVE Spec => []PublishedMatchesImage
<1>1. OneFiller
  BY DEF Serial, OneFiller
<1>2. IInv => PublishedMatchesImage
  BY DEF IInv, Core, Published
<1>3. Spec => []IInv
  BY <1>1, Invariance
<1>4. QED
  BY <1>2, <1>3, PTL

(* A read of such a disk without swapped bytes returns what its blocks     *)
(* held while it was in progress, if no publication falls between the      *)
(* loads of a lookup.                                                      *)
THEOREM ReadsReturnContent ==
  ASSUME Serial, ~ByteSwap, ~TornLookups PROVE Spec => []ReadsAreCurrent
<1>1. OneFiller
  BY DEF Serial, OneFiller
<1>2. IInv => ReadsAreCurrent
  BY DEF IInv, Core, Returned, ReadsAreCurrent
<1>3. Spec => []IInv
  BY <1>1, Invariance
<1>4. QED
  BY <1>2, <1>3, PTL
=============================================================================
