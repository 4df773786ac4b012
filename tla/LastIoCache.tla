---------------------------- MODULE LastIoCache ----------------------------
(***************************************************************************)
(* The data that passes through one ImDisk device backed by an image file  *)
(* or a proxy: the image, the last-I/O buffer that dispatch routines       *)
(* answer re-reads from (iodisp.cpp), the device thread that fills it      *)
(* (devthrd.cpp) and the parallel I/O path that replaces it (lowerdev.cpp).*)
(*                                                                         *)
(* A block is a pair of bytes, so that swapping the bytes of a block is    *)
(* visible.  Removal, the queue's events and the life of the device are    *)
(* left to module ImDiskDevice.                                            *)
(***************************************************************************)
EXTENDS Integers, Sequences, FiniteSets

CONSTANTS
  Reqs,         \* requests; one request makes a client that waits each time
  Blocks,       \* the number of blocks of the disk
  Values,       \* the blocks that clients write
  Sent,         \* the operations that clients send
  ByteSwap,     \* byte_swap
  Parallel,     \* parallel_io, and whether the image's device is direct I/O
  Sparse,       \* use_set_zero_data as the device is created
  TornLookups,  \* may a publication fall between the loads of a lookup?
  NoReq         \* the device thread serves nothing

Bytes == {"0", "1", "2", "fill", "junk"}
Block == Bytes \X Bytes
Zero == <<"0", "0">>
Fill == <<"fill", "fill">>
Junk == <<"junk", "junk">>

ASSUME ConstantsAssumption ==
  /\ Blocks \in Nat \ {0}
  /\ Values \subseteq Block
  /\ Sent \subseteq {"READ", "WRITE", "FORMAT"}
  /\ {ByteSwap, Sparse, TornLookups} \subseteq BOOLEAN
  /\ Parallel \in {"no", "buffered", "direct"}
  /\ ByteSwap => Parallel = "no"    \* refused by ImDiskCreateDevice
  /\ NoReq \notin Reqs

Offsets == 0 .. Blocks - 1

VARIABLES
  st,                \* how far each request has come
  op, offset,        \* its operation and its first block
  system_buffer,     \* its data, one entry for each block it asks for
  information,       \* IoStatus.Information: blocks done, 0 if it failed
  loaded,            \* last_io_offset as the lookup in progress loaded it
  allocated,         \* AllocatedBuffer of its parallel I/O
  list,              \* the queued requests
  pc, current,       \* the device thread and what it serves
  last_io_data,      \* <<>> when NULL; its length is the allocated size
  last_io_offset, last_io_length,
  use_set_zero_data,
  image,             \* the bytes of the image file, by block
  content,           \* history: by block, what its clients may have stored
  legit              \* history: by read and block, what it may return

reqVars == <<op, offset, system_buffer, information>>
cacheVars == <<last_io_data, last_io_offset, last_io_length>>
imageVars == <<image, content, legit>>
vars == <<st, op, offset, system_buffer, information, loaded, allocated, list,
          pc, current, last_io_data, last_io_offset, last_io_length,
          use_set_zero_data, image, content, legit>>

ReqStates == {"free", "sent", "looking", "hit", "missed", "queued", "serving",
              "lower", "lowered", "failed", "done"}

TypeOK ==
  /\ st \in [Reqs -> ReqStates]
  /\ op \in [Reqs -> {"READ", "WRITE", "FORMAT"}]
  /\ offset \in [Reqs -> Offsets]
  /\ system_buffer \in [Reqs -> Seq(Block)]
  /\ information \in [Reqs -> 0 .. Blocks]
  /\ loaded \in [Reqs -> Offsets]
  /\ allocated \in [Reqs -> Seq(Block)]
  /\ list \in Seq(Reqs)
  /\ pc \in {"take", "reset", "alloc", "transfer", "offset", "length"}
  /\ current \in Reqs \cup {NoReq}
  /\ last_io_data \in Seq(Block)
  /\ last_io_offset \in Offsets
  /\ last_io_length \in 0 .. Blocks
  /\ use_set_zero_data \in BOOLEAN
  /\ image \in [Offsets -> Block]
  /\ content \in [Offsets -> SUBSET Block]
  /\ legit \in [Reqs -> [Offsets -> SUBSET Block]]

-----------------------------------------------------------------------------
(* Buffers.                                                                *)

Swap(b) == <<b[2], b[1]>>

(* ImDiskByteSwapBuffer(Buffer, n)                                          *)
ByteSwapBuffer(buf, n) ==
  [k \in DOMAIN buf |-> IF k <= n THEN Swap(buf[k]) ELSE buf[k]]

(* ImDiskIsBufferZero                                                       *)
IsBufferZero(buf) == \A k \in DOMAIN buf : buf[k] = Zero

(* RtlCopyMemory of the blocks of src to the start of dst                   *)
CopyOver(dst, src) == src \o SubSeq(dst, Len(src) + 1, Len(dst))

Uninitialized(n) == [k \in 1 .. n |-> Junk]

Slice(x, n) == [k \in 1 .. n |-> image[x + k - 1]]

Put(f, x, buf) ==
  [b \in Offsets |-> IF b - x + 1 \in DOMAIN buf THEN buf[b - x + 1] ELSE f[b]]

(* The image takes raw from block x on; to its clients that is plain.  A   *)
(* transfer that then fails leaves them with either content.  A read that  *)
(* is in progress may return what its blocks hold before or after.         *)
StoreInImage(x, raw, plain, ok) ==
  LET stored == Put(content, x, [k \in DOMAIN plain |-> {plain[k]}])
  IN  /\ image' = Put(image, x, raw)
      /\ content' = [b \in Offsets |->
                       stored[b] \cup (IF ok THEN {} ELSE content[b])]
      /\ legit' = [r \in Reqs |-> [b \in Offsets |->
           IF st[r] # "free" /\ op[r] = "READ"
           THEN legit[r][b] \cup content'[b] ELSE {}]]

Init ==
  /\ st = [r \in Reqs |-> "free"]
  /\ op = [r \in Reqs |-> "READ"]
  /\ offset = [r \in Reqs |-> 0]
  /\ system_buffer = [r \in Reqs |-> <<>>]
  /\ information = [r \in Reqs |-> 0]
  /\ loaded = [r \in Reqs |-> 0]
  /\ allocated = [r \in Reqs |-> <<>>]
  /\ list = <<>>
  /\ pc = "take"
  /\ current = NoReq
  /\ last_io_data = <<>>
  /\ last_io_offset = 0
  /\ last_io_length = 0
  /\ use_set_zero_data = Sparse
  /\ image = [b \in Offsets |-> Zero]
  /\ content = [b \in Offsets |-> {Zero}]
  /\ legit = [r \in Reqs |-> [b \in Offsets |-> {}]]

-----------------------------------------------------------------------------
(* Clients.                                                                *)

Send(r, o, x, buf) ==
  /\ st[r] = "free"
  /\ x + Len(buf) <= Blocks
  /\ st' = [st EXCEPT ![r] = "sent"]
  /\ op' = [op EXCEPT ![r] = o]
  /\ offset' = [offset EXCEPT ![r] = x]
  /\ system_buffer' = [system_buffer EXCEPT ![r] = buf]
  /\ information' = [information EXCEPT ![r] = 0]
  /\ legit' = [legit EXCEPT ![r] = [b \in Offsets |->
                 IF o = "READ" THEN content[b] ELSE {}]]
  /\ UNCHANGED <<loaded, allocated, list, pc, current, cacheVars,
                 use_set_zero_data, image, content>>

Buffers(o) ==
  UNION {IF o = "WRITE" THEN [1 .. n -> Values] ELSE {Uninitialized(n)}
         : n \in 1 .. Blocks}

Retire(r) ==
  /\ st[r] = "done"
  /\ st' = [st EXCEPT ![r] = "free"]
  /\ op' = [op EXCEPT ![r] = "READ"]
  /\ offset' = [offset EXCEPT ![r] = 0]
  /\ system_buffer' = [system_buffer EXCEPT ![r] = <<>>]
  /\ information' = [information EXCEPT ![r] = 0]
  /\ legit' = [legit EXCEPT ![r] = [b \in Offsets |-> {}]]
  /\ UNCHANGED <<loaded, allocated, list, pc, current, cacheVars,
                 use_set_zero_data, image, content>>

-----------------------------------------------------------------------------
(* ImDiskDispatchReadWrite.                                                *)

LockFree == \A r \in Reqs : st[r] \notin {"looking", "hit"}

(* With last_io_lock held, the first load of last_io_offset.                *)
LoadOffset(r) ==
  /\ st[r] = "sent" /\ op[r] = "READ"
  /\ LockFree
  /\ \/ /\ last_io_data = <<>>
        /\ st' = [st EXCEPT ![r] = "missed"]
        /\ UNCHANGED loaded
     \/ /\ last_io_data # <<>>
        /\ st' = [st EXCEPT ![r] = "looking"]
        /\ loaded' = [loaded EXCEPT ![r] = last_io_offset]
  /\ UNCHANGED <<reqVars, allocated, list, pc, current, cacheVars,
                 use_set_zero_data, imageVars>>

(* The test: not before the offset that was loaded, and not beyond the end *)
(* of the buffer, for which the offset is taken from the first load or is  *)
(* loaded again, as the compiler likes.                                    *)
Inside(r, again) ==
  /\ offset[r] >= loaded[r]
  /\ offset[r] + Len(system_buffer[r]) <= again + last_io_length

TestHit(r) ==
  /\ st[r] = "looking"
  /\ \E again \in {loaded[r], last_io_offset} :
       st' = [st EXCEPT ![r] = IF Inside(r, again) THEN "hit" ELSE "missed"]
  /\ loaded' = [loaded EXCEPT ![r] = 0]
  /\ UNCHANGED <<reqVars, allocated, list, pc, current, cacheVars,
                 use_set_zero_data, imageVars>>

(* The blocks that a hit copies, swapped as a read is.  The place in       *)
(* last_io_data is computed with last_io_offset as it is now; outside of   *)
(* the buffer there is other memory.                                       *)
Copied(r) ==
  LET n == Len(system_buffer[r])
      from == offset[r] - last_io_offset
      raw == [k \in 1 .. n |-> IF from + k \in DOMAIN last_io_data
                               THEN last_io_data[from + k] ELSE Junk]
  IN  IF ByteSwap THEN ByteSwapBuffer(raw, n) ELSE raw

(* The copy, and the release of the lock.                                   *)
FinishLookup(r) ==
  /\ st[r] = "hit"
  /\ \/ /\ system_buffer' = [system_buffer EXCEPT ![r] = Copied(r)]
        /\ information' = [information EXCEPT ![r] = Len(system_buffer[r])]
     \/ UNCHANGED <<system_buffer, information>>         \* no system address
  /\ st' = [st EXCEPT ![r] = "done"]
  /\ UNCHANGED <<op, offset, loaded, allocated, list, pc, current, cacheVars,
                 use_set_zero_data, imageVars>>

(* Parallel I/O takes reads and writes, but not the writes of zeros that   *)
(* are to make holes in a sparse image.                                    *)
GoesToLowerDevice(r) ==
  /\ Parallel # "no"
  /\ op[r] # "FORMAT"
  /\ ~(op[r] = "WRITE" /\ use_set_zero_data /\ IsBufferZero(system_buffer[r]))

Route(r) ==
  /\ \/ st[r] = "sent" /\ op[r] # "READ"
     \/ st[r] = "missed"
  /\ \/ /\ ~GoesToLowerDevice(r)
        /\ st' = [st EXCEPT ![r] = "queued"]
        /\ list' = Append(list, r)
        /\ UNCHANGED allocated
     \/ /\ GoesToLowerDevice(r)
        /\ \/ /\ st' = [st EXCEPT ![r] = "lower"]
              /\ allocated' = [allocated EXCEPT ![r] =
                   IF Parallel = "direct" THEN <<>> ELSE system_buffer[r]]
           \/ /\ st' = [st EXCEPT ![r] = "done"]         \* out of memory
              /\ UNCHANGED allocated
        /\ UNCHANGED list
  /\ UNCHANGED <<reqVars, loaded, pc, current, cacheVars, use_set_zero_data,
                 imageVars>>

-----------------------------------------------------------------------------
(* Parallel I/O: the driver of the image does the transfer, and at some    *)
(* later time calls the completion routine, one request at a time and in   *)
(* any order.  A direct I/O device transfers to the client's own buffer    *)
(* and completes the request without a completion routine of ImDisk.       *)

LowerDeviceIo(r) ==
  LET sent == system_buffer[r]
  IN  /\ st[r] = "lower"
      /\ \E n \in 0 .. Len(sent), ok \in BOOLEAN :
           /\ op[r] = "WRITE" /\ ok => n = Len(sent)
           /\ st' = [st EXCEPT ![r] = IF ok THEN "lowered" ELSE "failed"]
           /\ information' = [information EXCEPT ![r] = IF ok THEN n ELSE 0]
           /\ \/ /\ op[r] = "READ"
                 /\ IF Parallel = "direct"
                    THEN /\ system_buffer' = [system_buffer EXCEPT ![r] =
                              CopyOver(sent, Slice(offset[r], n))]
                         /\ UNCHANGED allocated
                    ELSE /\ allocated' = [allocated EXCEPT ![r] =
                              CopyOver(sent, Slice(offset[r], n))]
                         /\ UNCHANGED system_buffer
                 /\ UNCHANGED imageVars
              \/ /\ op[r] = "WRITE"
                 /\ StoreInImage(offset[r], SubSeq(sent, 1, n),
                                 SubSeq(sent, 1, n), ok)
                 /\ UNCHANGED <<system_buffer, allocated>>
      /\ UNCHANGED <<op, offset, loaded, list, pc, current, cacheVars,
                     use_set_zero_data>>

(* Mutant of LowerDeviceCompletion: the buffer is exchanged under a lookup. *)
CompletionWithoutLock(r) ==
  /\ st[r] \in {"lowered", "failed"}
  /\ \/ /\ st[r] = "lowered" /\ Parallel = "buffered"
        /\ system_buffer' = [system_buffer EXCEPT ![r] =
             IF op[r] = "READ"
             THEN CopyOver(@, SubSeq(allocated[r], 1, information[r])) ELSE @]
        /\ last_io_data' = allocated[r]
        /\ last_io_offset' = offset[r]
        /\ last_io_length' = information[r]
     \/ /\ st[r] = "failed" \/ Parallel = "direct"
        /\ UNCHANGED <<system_buffer, cacheVars>>
  /\ st' = [st EXCEPT ![r] = "done"]
  /\ allocated' = [allocated EXCEPT ![r] = <<>>]
  /\ UNCHANGED <<op, offset, information, loaded, list, pc, current,
                 use_set_zero_data, imageVars>>

(* ImDiskReadWriteLowerDeviceCompletion: the request's buffer becomes the  *)
(* last-I/O buffer.                                                        *)
LowerDeviceCompletion(r) ==
  /\ st[r] \in {"lowered", "failed"}
  /\ \/ /\ st[r] = "lowered" /\ Parallel = "buffered"
        /\ LockFree
        /\ system_buffer' = [system_buffer EXCEPT ![r] =
             IF op[r] = "READ"
             THEN CopyOver(@, SubSeq(allocated[r], 1, information[r])) ELSE @]
        /\ last_io_data' = allocated[r]
        /\ last_io_offset' = offset[r]
        /\ last_io_length' = information[r]
     \/ /\ st[r] = "failed" \/ Parallel = "direct"
        /\ UNCHANGED <<system_buffer, cacheVars>>
  /\ st' = [st EXCEPT ![r] = "done"]
  /\ allocated' = [allocated EXCEPT ![r] = <<>>]
  /\ UNCHANGED <<op, offset, information, loaded, list, pc, current,
                 use_set_zero_data, imageVars>>

-----------------------------------------------------------------------------
(* The device thread.                                                      *)

Asked == Len(system_buffer[current])

Complete ==
  /\ st' = [st EXCEPT ![current] = "done"]
  /\ pc' = "take"
  /\ current' = NoReq

(* A request whose buffer cannot be mapped is failed at once.               *)
Take ==
  /\ pc = "take" /\ list # <<>>
  /\ list' = Tail(list)
  /\ \/ /\ st' = [st EXCEPT ![Head(list)] = "serving"]
        /\ current' = Head(list)
        /\ pc' = "reset"
     \/ /\ op[Head(list)] # "FORMAT"
        /\ st' = [st EXCEPT ![Head(list)] = "done"]
        /\ UNCHANGED <<pc, current>>
  /\ UNCHANGED <<reqVars, loaded, allocated, cacheVars, use_set_zero_data,
                 imageVars>>

(* Mutants of Reset: an offset that marks the buffer as empty, contents    *)
(* that are not forgotten, and a buffer that is kept whatever its size.    *)
ResetToMinusOne ==
  /\ pc = "reset" /\ op[current] # "FORMAT"
  /\ LockFree
  /\ last_io_data' = IF last_io_length < Asked THEN <<>> ELSE last_io_data
  /\ last_io_offset' = -1
  /\ last_io_length' = 0
  /\ pc' = "alloc"
  /\ UNCHANGED <<st, reqVars, loaded, allocated, list, current,
                 use_set_zero_data, imageVars>>

ResetKeepsContents ==
  /\ pc = "reset" /\ op[current] # "FORMAT"
  /\ LockFree
  /\ last_io_data' = IF last_io_length < Asked THEN <<>> ELSE last_io_data
  /\ last_io_offset' = last_io_offset
  /\ last_io_length' = IF last_io_length < Asked THEN 0 ELSE last_io_length
  /\ pc' = "alloc"
  /\ UNCHANGED <<st, reqVars, loaded, allocated, list, current,
                 use_set_zero_data, imageVars>>

ResetKeepsBuffer ==
  /\ pc = "reset" /\ op[current] # "FORMAT"
  /\ LockFree
  /\ last_io_data' = last_io_data
  /\ last_io_offset' = 0
  /\ last_io_length' = 0
  /\ pc' = "alloc"
  /\ UNCHANGED <<st, reqVars, loaded, allocated, list, current,
                 use_set_zero_data, imageVars>>

(* With last_io_lock held: free a buffer that is too small and forget what *)
(* the buffer holds.                                                       *)
Reset ==
  /\ pc = "reset" /\ op[current] # "FORMAT"
  /\ LockFree
  /\ last_io_data' = IF last_io_length < Asked THEN <<>> ELSE last_io_data
  /\ last_io_offset' = 0
  /\ last_io_length' = 0
  /\ pc' = "alloc"
  /\ UNCHANGED <<st, reqVars, loaded, allocated, list, current,
                 use_set_zero_data, imageVars>>

SetsZeroData ==
  op[current] = "WRITE" /\ use_set_zero_data
    /\ IsBufferZero(system_buffer[current])

(* From here on without the lock.  What is to be written is copied to the  *)
(* buffer and there swapped, over the length in IoStatus.Information.      *)
Allocate ==
  /\ pc = "alloc"
  /\ \/ LET buf == IF last_io_data = <<>> THEN Uninitialized(Asked)
                   ELSE last_io_data
            copy == CopyOver(buf, system_buffer[current])
        IN  /\ last_io_data' =
                 IF op[current] = "READ" THEN buf
                 ELSE IF ByteSwap /\ ~SetsZeroData
                 THEN ByteSwapBuffer(copy, information[current])
                 ELSE copy
            /\ pc' = "transfer"
            /\ UNCHANGED <<st, current>>
     \/ /\ last_io_data = <<>>                           \* out of memory
        /\ Complete
        /\ UNCHANGED last_io_data
  /\ UNCHANGED <<reqVars, loaded, allocated, list, last_io_offset,
                 last_io_length, use_set_zero_data, imageVars>>

(* NtReadFile or ImDiskReadProxy: all of it, less at the end of the image,  *)
(* or a failure that may leave anything in the buffer, which is freed.     *)
ThreadRead ==
  /\ pc = "transfer" /\ op[current] = "READ"
  /\ \/ \E n \in 0 .. Asked :
          LET raw == Slice(offset[current], n)
              plain == IF ByteSwap THEN ByteSwapBuffer(raw, n) ELSE raw
          IN  /\ last_io_data' = CopyOver(last_io_data, raw)
              /\ system_buffer' = [system_buffer EXCEPT ![current] =
                                     CopyOver(@, plain)]
              /\ information' = [information EXCEPT ![current] = n]
              /\ pc' = "offset"
              /\ UNCHANGED <<st, current>>
     \/ /\ last_io_data' = <<>>
        /\ Complete
        /\ UNCHANGED <<system_buffer, information>>
  /\ UNCHANGED <<op, offset, loaded, allocated, list, last_io_offset,
                 last_io_length, use_set_zero_data, imageVars>>

(* NtWriteFile, ImDiskWriteProxy, or for zeros FSCTL_SET_ZERO_DATA or       *)
(* IMDPROXY_REQ_ZERO; a volume without FSCTL_SET_ZERO_DATA is written to    *)
(* and not asked again.  A failure may come after a part is written.       *)
ThreadWrite ==
  /\ pc = "transfer" /\ op[current] = "WRITE"
  /\ use_set_zero_data' \in {use_set_zero_data, use_set_zero_data /\ ~SetsZeroData}
  /\ \E n \in 0 .. Asked, ok \in BOOLEAN :
       /\ StoreInImage(offset[current], SubSeq(last_io_data, 1, n),
                       SubSeq(system_buffer[current], 1, n), ok)
       /\ \/ /\ ok /\ n = Asked
             /\ information' = [information EXCEPT ![current] = n]
             /\ pc' = "offset"
             /\ UNCHANGED <<st, current, last_io_data>>
          \/ /\ ~ok
             /\ last_io_data' = <<>>
             /\ Complete
             /\ UNCHANGED information
  /\ UNCHANGED <<op, offset, system_buffer, loaded, allocated, list,
                 last_io_offset, last_io_length>>

(* The two stores that publish the buffer, without the lock.  An execution *)
(* in which no store falls between the loads of a lookup is one with       *)
(* TornLookups = FALSE.                                                    *)
MayPublish == TornLookups \/ LockFree

PublishOffset ==
  /\ pc = "offset"
  /\ MayPublish
  /\ last_io_offset' = offset[current]
  /\ pc' = "length"
  /\ UNCHANGED <<st, reqVars, loaded, allocated, list, current, last_io_data,
                 last_io_length, use_set_zero_data, imageVars>>

(* Mutant of PublishLength: a short read publishes all it asked for.        *)
PublishAsked ==
  /\ pc = "length"
  /\ MayPublish
  /\ last_io_length' = Asked
  /\ Complete
  /\ UNCHANGED <<reqVars, loaded, allocated, list, last_io_data,
                 last_io_offset, use_set_zero_data, imageVars>>

PublishLength ==
  /\ pc = "length"
  /\ MayPublish
  /\ last_io_length' = IF op[current] = "READ" THEN information[current]
                       ELSE Asked
  /\ Complete
  /\ UNCHANGED <<reqVars, loaded, allocated, list, last_io_data,
                 last_io_offset, use_set_zero_data, imageVars>>

(* ImDiskFloppyFormat: the fill byte goes to the image track by track, and *)
(* the last-I/O buffer is left as it is.                                   *)
FloppyFormat ==
  /\ pc = "reset" /\ op[current] = "FORMAT"
  /\ \E n \in 0 .. Asked :
       LET filled == [k \in 1 .. n |-> Fill]
       IN  StoreInImage(offset[current], filled, filled, n = Asked)
  /\ Complete
  /\ UNCHANGED <<reqVars, loaded, allocated, list, cacheVars,
                 use_set_zero_data>>

-----------------------------------------------------------------------------
Next ==
  \/ \E r \in Reqs, o \in Sent, x \in Offsets : \E buf \in Buffers(o) :
       Send(r, o, x, buf)
  \/ \E r \in Reqs : \/ Retire(r)
                     \/ LoadOffset(r)
                     \/ TestHit(r)
                     \/ FinishLookup(r)
                     \/ Route(r)
                     \/ LowerDeviceIo(r)
                     \/ LowerDeviceCompletion(r)
  \/ Take
  \/ Reset
  \/ Allocate
  \/ ThreadRead
  \/ ThreadWrite
  \/ PublishOffset
  \/ PublishLength
  \/ FloppyFormat

Spec == Init /\ [][Next]_vars
-----------------------------------------------------------------------------
(* Properties.                                                             *)

(* A read returns only what its blocks held at some time between its       *)
(* sending and its completion: not what was overwritten before it was      *)
(* sent, not bytes in the wrong order, not what a buffer held before.      *)
(* (the last-I/O lookup of ImDiskDispatchReadWrite, ImDiskDeviceThreadRead,*)
(* ImDiskReadWriteLowerDeviceCompletion)                                   *)
ReadsAreCurrent ==
  \A r \in Reqs : st[r] = "done" /\ op[r] = "READ" =>
    \A k \in 1 .. information[r] :
      system_buffer[r][k] \in legit[r][offset[r] + k - 1]

(* What is published in the last-I/O buffer is what the image holds there, *)
(* also after transfers that failed half way or came back short.           *)
(* (last_io_offset and last_io_length in ImDiskDeviceThreadRead and Write) *)
PublishedMatchesImage ==
  \A k \in 1 .. last_io_length :
    last_io_data[k] = image[last_io_offset + k - 1]

(* No copy to or from last_io_data leaves the allocated buffer: the copy   *)
(* of a hit, the transfer the device thread is about to make, and the      *)
(* blocks that are published are all inside it.  (the size test before     *)
(* ExFreePoolWithTag in ImDiskDeviceThreadRead and Write, the hit of       *)
(* ImDiskDispatchReadWrite)                                                *)
CopiesStayInBuffer ==
  /\ last_io_length <= Len(last_io_data)
  /\ pc \in {"transfer", "offset", "length"} => Asked <= Len(last_io_data)
  /\ \A r \in Reqs : st[r] = "hit" =>
       /\ offset[r] >= last_io_offset
       /\ offset[r] - last_io_offset + Len(system_buffer[r])
            <= Len(last_io_data)

(***************************************************************************)
(* The inductive invariant, in parts.                                      *)
(***************************************************************************)
(* The last-I/O buffer is filled by the device thread or by completion     *)
(* routines, never by both: only the writes of zeros to a sparse image     *)
(* that is otherwise accessed in parallel go to the device thread.         *)
OneFiller == Parallel = "buffered" => ~Sparse

(* A transfer is inside of the disk and of its buffer.                     *)
Transfers ==
  \A r \in Reqs :
    /\ offset[r] + Len(system_buffer[r]) <= Blocks
    /\ information[r] <= Len(system_buffer[r])
    /\ st[r] = "free" => information[r] = 0
    /\ st[r] # "free" => op[r] \in Sent /\ Len(system_buffer[r]) > 0
    /\ st[r] \in {"lower", "lowered", "failed"} =>
         /\ Parallel # "no"
         /\ op[r] # "FORMAT"
         /\ Parallel = "buffered" =>
              Len(allocated[r]) = Len(system_buffer[r])
    /\ st[r] \in {"queued", "serving"} =>
         Parallel = "no" \/ op[r] = "FORMAT" \/ Sparse

(* A queued request is in the list once; the device thread has the one it  *)
(* serves, and clears use_set_zero_data at most.                           *)
Queue ==
  /\ \A k \in DOMAIN list : st[list[k]] = "queued"
  /\ \A k, m \in DOMAIN list : list[k] = list[m] => k = m
  /\ pc = "take" => current = NoReq
  /\ pc # "take" => current \in Reqs /\ st[current] = "serving"
  /\ use_set_zero_data => Sparse

(* The device thread works on a buffer that is large enough and of which   *)
(* nothing is published.                                                   *)
Buffer ==
  /\ last_io_length <= Len(last_io_data)
  /\ last_io_offset + last_io_length <= Blocks
  /\ pc \in {"alloc", "transfer", "offset", "length"} =>
       /\ op[current] # "FORMAT"
       /\ last_io_length = 0
       /\ last_io_data = <<>> \/ Asked <= Len(last_io_data)
  /\ pc \in {"transfer", "offset", "length"} => Asked <= Len(last_io_data)
  /\ pc \in {"offset", "length"} => op[current] = "READ" \/ information[current] = Asked
  /\ pc = "length" => last_io_offset = offset[current]

(* On a disk without parallel I/O and floppy formats, what is published or *)
(* about to be is what the image holds.                                    *)
Serial == Parallel = "no" /\ "FORMAT" \notin Sent

Published ==
  Serial =>
    /\ PublishedMatchesImage
    /\ pc \in {"offset", "length"} => \A k \in 1 .. information[current] :
         last_io_data[k] = image[offset[current] + k - 1]

(* Without swapped bytes that is what the clients of the disk expect,      *)
Expected ==
  Serial /\ ~ByteSwap =>
    /\ \A b \in Offsets : image[b] \in content[b]
    /\ \A r \in Reqs : st[r] # "free" /\ op[r] = "READ" =>
         \A b \in Offsets : content[b] \subseteq legit[r][b]
    /\ pc = "transfer" /\ op[current] = "WRITE" => \A k \in 1 .. Asked :
         last_io_data[k] = system_buffer[current][k]

(* and, when no publication falls in a lookup, what their reads return.    *)
Returned ==
  Serial /\ ~ByteSwap /\ ~TornLookups =>
    \A r \in Reqs : op[r] = "READ" => \A k \in 1 .. information[r] :
      system_buffer[r][k] \in legit[r][offset[r] + k - 1]

(* A lookup that no publication falls into has the offset that it loaded,  *)
(* and a hit is among the published blocks until it is copied.             *)
Lookups ==
  ~TornLookups => \A r \in Reqs :
    /\ st[r] = "looking" => loaded[r] = last_io_offset
    /\ st[r] = "hit" =>
         /\ offset[r] >= last_io_offset
         /\ offset[r] + Len(system_buffer[r]) <= last_io_offset + last_io_length

Core ==
  TypeOK /\ Transfers /\ Queue /\ Buffer /\ Published /\ Expected /\ Returned

IInv == Core /\ Lookups
=============================================================================
