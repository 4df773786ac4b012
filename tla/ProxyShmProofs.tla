--------------------------- MODULE ProxyShmProofs ---------------------------
(***************************************************************************)
(* Proofs about ProxyShm for images of any size, blocks of any content,    *)
(* headers of any length and any backlog: the device thread and devio take *)
(* turns until the disk is removed, and a transfer that is reported        *)
(* successful was carried out.                                             *)
(***************************************************************************)
EXTENDS ProxyShm, SequenceTheorems, TLAPS

(* What the provers need of the constants.                                 *)
LEMMA Constants ==
  /\ Blocks \in Nat \ {0} /\ HeaderWords \in Nat /\ HeaderWords >= 3
  /\ ReqAlignment \in Nat /\ Backlog \in Nat
  /\ Offsets = 0 .. Blocks - 1 /\ Offsets \subseteq Nat
  /\ INFO = 1 /\ READ = 2 /\ WRITE = 3 /\ Ops = {READ, WRITE}
  /\ Zero \in Values /\ BlockBytes \in Nat /\ BlockBytes = 512
BY ConstantsAssumption DEF Offsets, INFO, READ, WRITE, Ops, BlockBytes

(* The header that ImDiskCallProxy sends begins with the request code.     *)
LEMMA Requests ==
  ASSUME TypeOK
  PROVE  /\ RequestHeader \in Seq(Nat)
         /\ Len(RequestHeader) = (IF op = INFO THEN 1 ELSE 3)
         /\ DOMAIN RequestHeader = 1 .. Len(RequestHeader)
         /\ 1 \in DOMAIN RequestHeader
         /\ RequestHeader[1] = op
<1>1. op \in Nat /\ first \in Nat /\ length_done \in Nat
  BY Constants DEF TypeOK
<1>2. (first + length_done) * BlockBytes \in Nat /\ BlockBytes \in Nat
  BY <1>1 DEF BlockBytes
<1>3. CASE op = INFO
  <2>1. RequestHeader = <<INFO>>
    BY <1>3 DEF RequestHeader
  <2>2. QED
    BY <1>3, <2>1 DEF INFO
<1>4. CASE op # INFO
  <2> DEFINE at == (first + length_done) * BlockBytes
  <2>1. RequestHeader = <<op, at, BlockBytes>>
    BY <1>4 DEF RequestHeader
  <2>2. at \in Nat /\ BlockBytes \in Nat /\ op \in Nat
    BY <1>1, <1>2
  <2> HIDE DEF at
  <2>3. QED
    BY <1>4, <2>1, <2>2
<1>5. QED
  BY <1>3, <1>4

(* What is copied to the header stays in the header and arrives.           *)
LEMMA Overwritten ==
  ASSUME header \in [1 .. HeaderWords -> Nat], NEW words \in Seq(Nat),
         NEW at \in Nat
  PROVE  /\ Overwrite(words, at) \in [1 .. HeaderWords -> Nat]
         /\ \A k \in DOMAIN words : at = 0 /\ Len(words) <= HeaderWords =>
              Overwrite(words, at)[k] = words[k]
<1>1. \A k \in DOMAIN words : words[k] \in Nat
  BY ElementOfSeq
<1>2. HeaderWords \in Nat
  BY Constants
<1>3. DOMAIN words = 1 .. Len(words) /\ Len(words) \in Nat
  OBVIOUS
<1>4. QED
  BY <1>1, <1>2, <1>3 DEF Overwrite

(* Every step of the device thread, the server and the removal keeps the   *)
(* invariant.                                                              *)
LEMMA InvStep == IInv /\ [Next]_vars => IInv'
<1> USE DEF memVars, callVars, lifeVars, serverVars, IInv
<1> SUFFICES ASSUME IInv, [Next]_vars
             PROVE  IInv'
  OBVIOUS
<1>c. /\ Blocks \in Nat \ {0} /\ HeaderWords \in Nat /\ HeaderWords >= 3
      /\ ReqAlignment \in Nat /\ Backlog \in Nat
      /\ Offsets = 0 .. Blocks - 1 /\ Offsets \subseteq Nat
      /\ INFO = 1 /\ READ = 2 /\ WRITE = 3 /\ Ops = {READ, WRITE}
      /\ Zero \in Values /\ BlockBytes \in Nat /\ BlockBytes = 512
  BY Constants
<1>1. ASSUME NEW o \in Ops, NEW x \in Offsets, NEW buf \in Buffers, Transfer(o, x, buf)
      PROVE  IInv'
  <2>b. buf \in Seq(Values) /\ Len(buf) \in 1 .. Blocks
    BY <1>c DEF Buffers
  <2>1. TypeOK'
    BY <1>1, <1>c, <2>b DEF Transfer, TypeOK
  <2>2. Lengths'
    BY <1>1, <1>c, <2>b DEF Transfer, Lengths, TypeOK
  <2>3. Turns'
    BY <1>1, <1>c DEF Transfer, Turns, Uncancelled, Lengths, TypeOK
  <2>4. BlocksDone'
    BY <1>1, <1>c
    DEF Transfer, BlocksDone, BlockDone, Done, Truthful, Uncancelled, Lengths,
        TypeOK
  <2>5. QED
    BY <2>1, <2>2, <2>3, <2>4
<1>2. ASSUME CopyHeader
      PROVE  IInv'
  <2>0. RequestHeader' = RequestHeader
    BY <1>2 DEF CopyHeader, RequestHeader
  <2>h. /\ header' \in [1 .. HeaderWords -> Nat]
        /\ \A k \in DOMAIN RequestHeader : header'[k] = RequestHeader[k]
    <3>1. /\ RequestHeader \in Seq(Nat) /\ Len(RequestHeader) <= HeaderWords
          /\ header \in [1 .. HeaderWords -> Nat]
      <4>1. Len(RequestHeader) = 1 \/ Len(RequestHeader) = 3
        BY Requests
      <4>2. Len(RequestHeader) <= HeaderWords
        <5>1. CASE Len(RequestHeader) = 1
          BY <1>c, <5>1
        <5>2. CASE Len(RequestHeader) = 3
          BY <1>c, <5>2
        <5>3. QED
          BY <4>1, <5>1, <5>2
      <4>3. QED
        BY <4>2, Requests DEF TypeOK
    <3>2. /\ Overwrite(RequestHeader, 0) \in [1 .. HeaderWords -> Nat]
          /\ \A k \in DOMAIN RequestHeader :
               Overwrite(RequestHeader, 0)[k] = RequestHeader[k]
      BY <3>1, Overwritten
    <3>3. header' = Overwrite(RequestHeader, 0)
      BY <1>2 DEF CopyHeader
    <3>4. QED
      BY <3>2, <3>3
  <2>1. TypeOK'
    BY <1>2, <1>c, <2>h DEF CopyHeader, TypeOK
  <2>2. Lengths'
    BY <1>2, <1>c DEF CopyHeader, Lengths, TypeOK
  <2>3. Turns'
    BY <1>2, <1>c, <2>0, <2>h
    DEF CopyHeader, Turns, Uncancelled, Lengths, TypeOK
  <2>4. BlocksDone'
    BY <1>2, <1>c
    DEF CopyHeader, BlocksDone, BlockDone, Done, Truthful, Uncancelled,
        Lengths, TypeOK
  <2>5. QED
    BY <2>1, <2>2, <2>3, <2>4
<1>3. ASSUME CopyData
      PROVE  IInv'
  <2>0. RequestHeader' = RequestHeader
    BY <1>3 DEF CopyData, RequestHeader
  <2>1. TypeOK'
    <3>1. op = WRITE => length_done + 1 \in 1 .. Len(buffer)
      BY <1>3, <1>c DEF CopyData, Lengths, TypeOK
    <3>2. data' \in Values
      BY <1>3, <3>1, ElementOfSeq DEF CopyData, TypeOK
    <3>3. QED
      BY <1>3, <3>2 DEF CopyData, TypeOK
  <2>2. Lengths'
    BY <1>3, <1>c DEF CopyData, Lengths, TypeOK
  <2>3. Turns'
    BY <1>3, <1>c, <2>0 DEF CopyData, Turns, Uncancelled, Lengths, TypeOK
  <2>4. BlocksDone'
    BY <1>3, <1>c
    DEF CopyData, BlocksDone, BlockDone, Done, Truthful, Uncancelled, Lengths,
        TypeOK
  <2>5. QED
    BY <2>1, <2>2, <2>3, <2>4
<1>4. ASSUME SignalAndWait
      PROVE  IInv'
  <2>0. RequestHeader' = RequestHeader
    BY <1>4 DEF SignalAndWait, RequestHeader
  <2>1. TypeOK'
    BY <1>4, <1>c DEF SignalAndWait, TypeOK
  <2>2. Lengths'
    BY <1>4, <1>c DEF SignalAndWait, Lengths, TypeOK
  <2>3. Turns'
    BY <1>4, <1>c, <2>0 DEF SignalAndWait, Turns, Uncancelled, Lengths, TypeOK
  <2>4. BlocksDone'
    BY <1>4, <1>c
    DEF SignalAndWait, BlocksDone, BlockDone, Done, Truthful, Turns,
        Uncancelled, Lengths,
        TypeOK
  <2>5. QED
    BY <2>1, <2>2, <2>3, <2>4
<1>5. ASSUME Cancelled
      PROVE  IInv'
  <2>0. RequestHeader' = RequestHeader
    BY <1>5 DEF Cancelled, Finish, RequestHeader
  <2>1. TypeOK'
    BY <1>5, <1>c DEF Cancelled, Finish, TypeOK
  <2>2. Lengths'
    BY <1>5, <1>c DEF Cancelled, Finish, Lengths, TypeOK
  <2>3. Turns'
    BY <1>5, <1>c, <2>0
    DEF Cancelled, Finish, Turns, Uncancelled, Lengths, TypeOK
  <2>4. BlocksDone'
    BY <1>5, <1>c
    DEF Cancelled, Finish, BlocksDone, BlockDone, Done, Truthful, Uncancelled,
        Lengths, TypeOK
  <2>5. QED
    BY <2>1, <2>2, <2>3, <2>4
<1>6. ASSUME Response
      PROVE  IInv'
  <2>a. CASE op = INFO
    <3>0. /\ pc = "response" /\ pc' = "idle" /\ result' \in {"none", "error"}
          /\ UNCHANGED <<buffer, length_done, memVars, request_event,
                         response_event, lifeVars, op, first, backlog,
                         serverVars>>
      BY <1>6, <2>a DEF Response, Finish
    <3>1. RequestHeader' = RequestHeader
      BY <3>0 DEF RequestHeader
    <3>2. TypeOK' /\ Lengths'
      BY <1>c, <2>a, <3>0 DEF TypeOK, Lengths
    <3>3. Turns' /\ BlocksDone'
      BY <1>c, <2>a, <3>0, <3>1
      DEF Turns, BlocksDone, Uncancelled, Lengths, TypeOK
    <3>4. QED
      BY <3>2, <3>3
  <2>b. CASE op # INFO
    <3>0. /\ pc = "response"
          /\ UNCHANGED <<memVars, request_event, response_event,
                         lifeVars, op, first, backlog, serverVars>>
          /\ length_done \in Nat /\ length_done < Len(buffer)
      BY <1>6, <1>c, <2>b DEF Response, Lengths, TypeOK
    <3>a. CASE pc' = "idle" /\ result' = "error" /\ UNCHANGED <<buffer, length_done>>
      <4>1. RequestHeader' = RequestHeader
        BY <3>0, <3>a DEF RequestHeader
      <4>2. TypeOK' /\ Lengths'
        BY <1>c, <2>b, <3>0, <3>a DEF TypeOK, Lengths
      <4>3. Turns' /\ BlocksDone'
        BY <1>c, <2>b, <3>0, <3>a, <4>1
        DEF Turns, BlocksDone, Done, Uncancelled, Lengths, TypeOK
      <4>4. QED
        BY <4>2, <4>3
    <3>b. CASE /\ header[1] = 0
               /\ op = WRITE => header[2] = BlockBytes
               /\ header[2] # 0
               /\ buffer' = IF op = READ
                            THEN [buffer EXCEPT ![length_done + 1] = data]
                            ELSE buffer
               /\ length_done' = length_done + 1
               /\ \/ length_done' = Len(buffer) /\ pc' = "idle" /\ result' = "success"
                  \/ length_done' # Len(buffer) /\ pc' = "call" /\ UNCHANGED result
      <4>0. /\ buffer' \in Seq(Values) /\ Len(buffer') = Len(buffer)
            /\ \A k \in 1 .. length_done : buffer'[k] = buffer[k]
            /\ buffer'[length_done + 1] =
                 IF op = READ THEN data ELSE buffer[length_done + 1]
        BY <3>0, <3>b, ExceptSeq DEF TypeOK
      <4>a. /\ first \in Nat /\ Len(buffer) \in Nat
            /\ first + Len(buffer) <= Blocks
        BY <1>c, <2>b DEF TypeOK, Lengths
      <4>b. length_done' \in 0 .. Blocks /\ length_done' <= Len(buffer)
        BY <1>c, <3>0, <3>b, <4>a
      <4>1. TypeOK'
        BY <3>0, <3>b, <4>0, <4>b DEF TypeOK
      <4>2. Lengths'
        <5>1. /\ first' + Len(buffer') <= Blocks
              /\ length_done' <= Len(buffer')
          BY <3>0, <4>0, <4>a, <4>b
        <5>2. pc' \in {"call", "copy", "signal", "wait", "response"}
                => length_done' < Len(buffer')
          <6>1. pc' # "idle" => length_done' # Len(buffer)
            BY <3>b
          <6>2. length_done' \in Nat /\ Len(buffer') = Len(buffer)
            BY <4>0, <4>b
          <6>3. length_done' # Len(buffer) => length_done' < Len(buffer')
            BY <4>a, <4>b, <6>2
          <6>4. QED
            BY <6>1, <6>3
        <5>3. QED
          BY <2>b, <3>0, <3>b, <5>1, <5>2 DEF Lengths
      <4>3. Turns'
        BY <1>c, <2>b, <3>0, <3>b
        DEF Turns, Uncancelled, Lengths, TypeOK
      <4>4. BlocksDone'
        <5>1. ASSUME Uncancelled'
              PROVE  \A k \in 1 .. length_done' : Done(k)'
          <6>1. Uncancelled
            BY <3>0, <5>1 DEF Uncancelled
          <6>2. BlockDone /\ \A k \in 1 .. length_done : Done(k)
            BY <2>b, <3>0, <3>b, <6>1 DEF BlocksDone, Truthful
          <6>3. TAKE k \in 1 .. length_done'
          <6>4. CASE k \in 1 .. length_done
            BY <3>0, <4>0, <6>2, <6>4 DEF Done
          <6>5. CASE k = length_done + 1
            <7>1. first + k - 1 = first + length_done
              BY <3>0, <4>a, <6>5
            <7>2. CASE op = WRITE
              <8>1. buffer'[k] = image[first + length_done]
                BY <1>c, <4>0, <6>2, <6>5, <7>2 DEF BlockDone
              <8>2. QED
                BY <3>0, <7>1, <8>1 DEF Done
            <7>3. CASE op = READ
              <8>1. buffer'[k] \in {image[first + length_done], Zero}
                BY <1>c, <4>0, <6>2, <6>5, <7>3 DEF BlockDone
              <8>2. QED
                BY <3>0, <7>1, <7>3, <8>1 DEF Done
            <7>4. QED
              BY <2>b, <7>2, <7>3 DEF TypeOK, Ops
          <6>6. QED
            BY <3>0, <3>b, <6>4, <6>5
        <5>2. QED
          BY <3>0, <3>b, <4>0, <5>1 DEF BlocksDone
      <4>5. QED
        BY <4>1, <4>2, <4>3, <4>4
    <3>c. CASE /\ header[1] = 0
               /\ op = WRITE => header[2] = BlockBytes
               /\ header[2] = 0
               /\ UNCHANGED <<buffer, length_done>>
               /\ pc' = "idle" /\ result' = "success"
      <4>1. RequestHeader' = RequestHeader
        BY <3>0, <3>c DEF RequestHeader
      <4>2. TypeOK' /\ Lengths'
        BY <1>c, <2>b, <3>0, <3>c DEF TypeOK, Lengths
      <4>3. ~Uncancelled
        BY <1>c, <2>b, <3>0, <3>c DEF BlocksDone, Truthful
      <4>4. ~Uncancelled'
        BY <3>0, <3>c, <4>3 DEF Uncancelled
      <4>5. QED
        BY <4>2, <4>4 DEF Turns, BlocksDone
    <3>d. QED
      BY <1>6, <2>b, <3>0, <3>a, <3>b, <3>c DEF Response, Finish
  <2>c. QED
    BY <2>a, <2>b
<1>7. ASSUME RemoveVirtualDisk
      PROVE  IInv'
  <2>0. RequestHeader' = RequestHeader
    BY <1>7 DEF RemoveVirtualDisk, RequestHeader
  <2>1. TypeOK'
    BY <1>7, <1>c DEF RemoveVirtualDisk, TypeOK
  <2>2. Lengths'
    BY <1>7, <1>c DEF RemoveVirtualDisk, Lengths, TypeOK
  <2>3. Turns'
    BY <1>7, <1>c, <2>0
    DEF RemoveVirtualDisk, Turns, Uncancelled, Lengths, TypeOK
  <2>4. BlocksDone'
    BY <1>7, <1>c
    DEF RemoveVirtualDisk, BlocksDone, BlockDone, Done, Truthful, Uncancelled,
        Lengths, TypeOK
  <2>5. QED
    BY <2>1, <2>2, <2>3, <2>4
<1>8. ASSUME CloseProxy
      PROVE  IInv'
  <2>0. RequestHeader' = RequestHeader
    BY <1>8 DEF CloseProxy, RequestHeader
  <2>1. TypeOK'
    <3>1. header' \in [1 .. HeaderWords -> Nat]
      <4>1. <<CLOSE>> \in Seq(Nat) /\ header \in [1 .. HeaderWords -> Nat]
        BY DEF CLOSE, TypeOK
      <4>2. Overwrite(<<CLOSE>>, 0) \in [1 .. HeaderWords -> Nat]
        BY <4>1, Overwritten
      <4>3. QED
        BY <1>8, <4>2 DEF CloseProxy
    <3>2. QED
      BY <1>8, <3>1 DEF CloseProxy, TypeOK
  <2>2. Lengths'
    BY <1>8, <1>c DEF CloseProxy, Lengths, TypeOK
  <2>3. Turns'
    BY <1>8, <1>c, <2>0 DEF CloseProxy, Turns, Uncancelled, Lengths, TypeOK
  <2>4. BlocksDone'
    BY <1>8, <1>c
    DEF CloseProxy, BlocksDone, BlockDone, Done, Truthful, Uncancelled,
        Lengths, TypeOK
  <2>5. QED
    BY <2>1, <2>2, <2>3, <2>4
<1>9. ASSUME Wake
      PROVE  IInv'
  <2>0. RequestHeader' = RequestHeader
    BY <1>9 DEF Wake, RequestHeader
  <2>1. TypeOK'
    BY <1>9, <1>c DEF Wake, TypeOK
  <2>2. Lengths'
    BY <1>9, <1>c DEF Wake, Lengths, TypeOK
  <2>3. Turns'
    BY <1>9, <1>c, <2>0 DEF Wake, Turns, Uncancelled, Lengths, TypeOK
  <2>4. BlocksDone'
    BY <1>9, <1>c
    DEF Wake, BlocksDone, BlockDone, Done, Truthful, Uncancelled, Lengths,
        TypeOK
  <2>5. QED
    BY <2>1, <2>2, <2>3, <2>4
<1>10. ASSUME ReadRequest
       PROVE  IInv'
  <2>0. RequestHeader' = RequestHeader
    BY <1>10 DEF ReadRequest, callVars, RequestHeader
  <2>o. /\ UNCHANGED <<data, request_event, response_event, lifeVars, pc,
                       callVars, result, backlog, resp, image>>
        /\ server = "code" /\ readptr = writeptr /\ readptr \in Nat
        /\ readptr <= HeaderWords
    BY <1>10, <1>c DEF ReadRequest, Lengths, TypeOK
  <2>s. Uncancelled => /\ readptr = 0 /\ pc = "wait" /\ ~request_event
                       /\ \A k \in DOMAIN RequestHeader : header[k] = RequestHeader[k]
    BY <2>o DEF Turns
  <2>t. Uncancelled' <=> Uncancelled
    BY <2>o DEF Uncancelled
  <2>a. CASE /\ readptr = HeaderWords \/ readptr + 3 > HeaderWords
             /\ server' = "stopped" /\ UNCHANGED <<header, readptr, writeptr, req>>
    <3>1. ~Uncancelled
      BY <1>c, <2>a, <2>s
    <3>2. TypeOK' /\ Lengths'
      BY <1>c, <2>a, <2>o DEF TypeOK, Lengths
    <3>3. QED
      BY <2>t, <3>1, <3>2 DEF Turns, BlocksDone
  <2>b. CASE /\ readptr + 3 <= HeaderWords /\ header[readptr + 1] \in Ops
             /\ server' = "exec" /\ req' = SubSeq(header, readptr + 1, readptr + 3)
             /\ readptr' = readptr + 3 /\ UNCHANGED <<header, writeptr>>
    <3>1. /\ req' \in Seq(Nat) /\ Len(req') = 3
          /\ \A k \in 1 .. 3 : req'[k] = header[readptr + k]
      <4>1. header \in Seq(Nat) /\ Len(header) = HeaderWords
        <5>1. header \in [1 .. HeaderWords -> Nat]
          BY DEF TypeOK
        <5>2. QED
          BY <1>c, <5>1, IsASeq
      <4>2. QED
        BY <1>c, <2>b, <2>o, <4>1, SubSeqProperties
    <3>2. TypeOK'
      BY <1>c, <2>b, <2>o, <3>1 DEF TypeOK
    <3>3. Lengths'
      BY <1>c, <2>b, <2>o, <3>1 DEF TypeOK, Lengths
    <3>4. Uncancelled => req' = RequestHeader
      <4>1. SUFFICES ASSUME Uncancelled PROVE req' = RequestHeader
        OBVIOUS
      <4>2. header[1] = op /\ op # INFO /\ readptr = 0
        BY <2>b, <2>s, <4>1, Requests DEF Ops, INFO, READ, WRITE
      <4>3. /\ RequestHeader \in Seq(Nat) /\ Len(RequestHeader) = 3
            /\ \A k \in 1 .. 3 : req'[k] = RequestHeader[k]
        BY <2>s, <3>1, <4>1, <4>2, Requests
      <4>4. QED
        BY <3>1, <4>3, SeqEqual
    <3>5. Turns'
      BY <2>0, <2>b, <2>o, <2>s, <2>t, <3>4 DEF Turns
    <3>6. BlocksDone'
      BY <2>b, <2>o, <2>s, <2>t DEF BlocksDone, BlockDone, Done, Truthful
    <3>7. QED
      BY <3>2, <3>3, <3>5, <3>6
  <2>c. CASE /\ readptr # HeaderWords /\ header[readptr + 1] = INFO
             /\ server' = "exec" /\ req' = <<INFO>>
             /\ readptr' = readptr + 1 /\ UNCHANGED <<header, writeptr>>
    <3>1. TypeOK' /\ Lengths'
      BY <1>c, <2>c, <2>o DEF TypeOK, Lengths, INFO
    <3>2. Uncancelled => req' = RequestHeader
      <4>1. SUFFICES ASSUME Uncancelled PROVE req' = RequestHeader
        OBVIOUS
      <4>2. header[1] = op /\ readptr = 0
        BY <2>s, <4>1, Requests
      <4>3. QED
        BY <2>c, <4>2 DEF RequestHeader
    <3>3. Turns'
      BY <2>0, <2>c, <2>o, <2>s, <2>t, <3>2 DEF Turns
    <3>4. BlocksDone'
      BY <2>c, <2>o, <2>s, <2>t DEF BlocksDone, BlockDone, Done, Truthful
    <3>5. QED
      BY <3>1, <3>3, <3>4
  <2>d. CASE /\ readptr # HeaderWords /\ header[readptr + 1] \notin Ops \cup {INFO}
             /\ readptr' = readptr + 1 /\ writeptr' = writeptr + 1
             /\ header' = Overwrite(<<ENODEV>>, writeptr) /\ UNCHANGED <<server, req>>
    <3>1. ~Uncancelled
      <4>1. SUFFICES ASSUME Uncancelled PROVE FALSE
        OBVIOUS
      <4>2. header[1] = op /\ readptr = 0
        BY <2>s, <4>1, Requests
      <4>3. QED
        BY <2>d, <4>2 DEF TypeOK
    <3>2. header' \in [1 .. HeaderWords -> Nat]
      <4>1. <<ENODEV>> \in Seq(Nat) /\ header \in [1 .. HeaderWords -> Nat]
        BY DEF ENODEV, TypeOK
      <4>2. Overwrite(<<ENODEV>>, writeptr) \in [1 .. HeaderWords -> Nat]
        BY <2>o, <4>1, Overwritten
      <4>3. QED
        BY <2>d, <4>2
    <3>p. readptr' \in 0 .. HeaderWords /\ writeptr' \in 0 .. HeaderWords
          /\ readptr' = writeptr'
      BY <1>c, <2>d, <2>o
    <3>a. TypeOK'
      BY <2>d, <2>o, <3>2, <3>p DEF TypeOK
    <3>b. Lengths'
      BY <2>d, <2>o, <3>p DEF Lengths
    <3>3. TypeOK' /\ Lengths'
      BY <3>a, <3>b
    <3>4. QED
      BY <2>t, <3>1, <3>3 DEF Turns, BlocksDone
  <2>e. QED
    BY <1>10, <1>c, <2>a, <2>b, <2>c, <2>d, <2>o
    DEF ReadRequest, Ops, INFO, READ, WRITE
<1>11. ASSUME Execute
       PROVE  IInv'
  <2> DEFINE b == req[2] \div BlockBytes
             length == IF req[3] <= BlockBytes THEN req[3] ELSE BlockBytes
  <2>0. RequestHeader' = RequestHeader
    BY <1>11 DEF Execute, RequestHeader
  <2>o. /\ UNCHANGED <<header, request_event, response_event, lifeVars,
                       pc, callVars, result, backlog, readptr, writeptr, req>>
        /\ server = "exec"
    BY <1>11 DEF Execute
  <2>t. Uncancelled' <=> Uncancelled
    BY <2>o DEF Uncancelled
  <2>q. \/ req = <<INFO>> /\ req[1] = INFO
        \/ /\ req[1] \in Ops /\ Len(req) = 3
           /\ req[2] \in Nat /\ req[3] \in Nat
    BY <2>o DEF Lengths, TypeOK
  <2>r. Uncancelled => req = RequestHeader /\ pc = "wait"
    BY <2>o DEF Turns
  <2>s. Uncancelled /\ op # INFO =>
          /\ req[1] = op /\ req[3] = BlockBytes /\ b = first + length_done
          /\ \A k \in 1 .. length_done : k \in Nat /\ first + k - 1 # b
          /\ \A k \in 1 .. length_done + 1 : first + k - 1 \in Offsets
    <3>1. SUFFICES ASSUME Uncancelled, op # INFO
                   PROVE  /\ req[1] = op /\ req[3] = BlockBytes
                          /\ b = first + length_done
                          /\ \A k \in 1 .. length_done : k \in Nat /\ first + k - 1 # b
                          /\ \A k \in 1 .. length_done + 1 : first + k - 1 \in Offsets
      OBVIOUS
    <3>2. /\ req[1] = op /\ req[2] = (first + length_done) * BlockBytes
          /\ req[3] = BlockBytes
      BY <2>r, <3>1 DEF RequestHeader
    <3>3. /\ first \in Nat /\ length_done \in Nat /\ Len(buffer) \in Nat
          /\ length_done < Len(buffer) /\ first + Len(buffer) <= Blocks
      BY <1>c, <2>r, <3>1 DEF TypeOK, Lengths
    <3>4. b = first + length_done
      BY <3>2, <3>3 DEF BlockBytes
    <3> HIDE DEF b
    <3>5. QED
      BY <1>c, <3>2, <3>3, <3>4
  <2>v. req[1] # INFO => length \in Nat
    BY <1>c, <2>q
  <2> HIDE DEF b, length
  <2>a. CASE /\ req[1] = INFO /\ resp' = <<Blocks * BlockBytes, ReqAlignment, 0>>
             /\ server' = "respond" /\ UNCHANGED <<image, data>>
    <3>1. TypeOK' /\ Lengths'
      BY <1>c, <2>a, <2>o DEF TypeOK, Lengths
    <3>2. Turns'
      BY <2>0, <2>a, <2>o, <2>t DEF Turns
    <3>3. Uncancelled => op = INFO
      BY <2>a, <2>r, Requests
    <3>4. QED
      BY <2>o, <2>t, <3>1, <3>2, <3>3 DEF BlocksDone
  <2>b. CASE /\ req[1] = READ /\ server' = "respond" /\ UNCHANGED image
             /\ \/ /\ resp' = <<0, length>>
                   /\ data' = Zero \/ (b \in Offsets /\ data' = image[b])
                \/ resp' = <<EIO, 0>> /\ data' = Zero
    <3>1. resp' \in Seq(Nat) /\ Len(resp') = 2
      BY <1>c, <2>b, <2>v DEF EIO
    <3>2. data' \in Values
      BY <1>c, <2>b DEF TypeOK
    <3>3. TypeOK'
      BY <2>b, <2>o, <3>1, <3>2 DEF TypeOK
    <3>4. Lengths'
      BY <2>b, <2>o, <3>1 DEF Lengths
    <3>5. Turns'
      BY <2>0, <2>b, <2>o, <2>t DEF Turns
    <3>6. BlocksDone'
      <4>1. SUFFICES ASSUME Uncancelled, op # INFO
                     PROVE  BlocksDone'
        BY <2>o, <2>t DEF BlocksDone
      <4>2. op = READ /\ op # WRITE /\ length = BlockBytes
        BY <1>c, <2>b, <2>s, <4>1 DEF length
      <4>3. data' \in {image[first + length_done], Zero}
        BY <2>b, <2>s, <4>1
      <4>4. Truthful(resp[1], resp[2])'
        <5>1. CASE resp' = <<0, length>>
          BY <2>b, <2>o, <4>2, <4>3, <5>1 DEF Truthful, BlockDone
        <5>2. CASE resp' = <<EIO, 0>>
          BY <5>2 DEF Truthful, EIO
        <5>3. QED
          BY <2>b, <5>1, <5>2
      <4>5. \A k \in 1 .. length_done' : Done(k)'
        BY <2>b, <2>o, <4>1 DEF BlocksDone, Done
      <4>6. QED
        BY <2>b, <2>o, <2>r, <4>1, <4>2, <4>4, <4>5 DEF BlocksDone
    <3>7. QED
      BY <3>3, <3>4, <3>5, <3>6
  <2>c. CASE /\ req[1] = WRITE /\ req[3] <= BlockBytes /\ server' = "respond"
             /\ UNCHANGED data
             /\ \/ resp' = <<0, req[3]>> /\ image' = Stored(b, data)
                \/ /\ resp' \in {<<0, 0>>, <<0, PartOfBlock>>, <<EIO, 0>>}
                   /\ \E v \in Values : image' = Stored(b, v)
    <3>p. PartOfBlock \in Nat /\ PartOfBlock # BlockBytes
      BY DEF PartOfBlock, BlockBytes
    <3>n. req[3] \in Nat
      BY <1>c, <2>c, <2>q
    <3>1. resp' \in Seq(Nat) /\ Len(resp') = 2
      <4>1. PICK e \in Nat, n \in Nat : resp' = <<e, n>>
        BY <2>c, <3>n, <3>p DEF EIO
      <4>2. QED
        BY <4>1
    <3>2. PICK w \in Values : image' = Stored(b, w)
      BY <2>c DEF TypeOK
    <3>3. TypeOK'
      <4>1. image' \in [Offsets -> Values]
        BY <3>2 DEF TypeOK, Stored
      <4>2. QED
        BY <2>c, <2>o, <3>1, <4>1 DEF TypeOK
    <3>4. Lengths'
      BY <2>c, <2>o, <3>1 DEF Lengths
    <3>5. Turns'
      BY <2>0, <2>c, <2>o, <2>t DEF Turns
    <3>6. BlocksDone'
      <4>1. SUFFICES ASSUME Uncancelled, op # INFO
                     PROVE  BlocksDone'
        BY <2>o, <2>t DEF BlocksDone
      <4>2. op = WRITE /\ req[3] = BlockBytes
        BY <1>c, <2>c, <2>s, <4>1
      <4>3. Truthful(resp[1], resp[2])'
        <5>1. CASE resp' = <<0, req[3]>> /\ image' = Stored(b, data)
          <6>1. first + length_done \in Offsets /\ b = first + length_done
            <7>1. first \in Nat /\ length_done \in Nat
              BY <1>c DEF TypeOK
            <7>2. first + (length_done + 1) - 1 \in Offsets
              BY <2>s, <4>1, <7>1
            <7>3. first + (length_done + 1) - 1 = first + length_done
              BY <7>1
            <7>4. QED
              BY <2>s, <4>1, <7>2, <7>3
          <6>2. image'[first + length_done] = data
            BY <5>1, <6>1 DEF Stored
          <6>3. data = buffer[length_done + 1]
            BY <2>o, <2>r, <4>1, <4>2 DEF BlocksDone
          <6>4. BlockDone'
            BY <2>o, <4>2, <6>2, <6>3 DEF BlockDone
          <6>5. resp'[2] = BlockBytes
            BY <4>2, <5>1
          <6>6. QED
            BY <6>4, <6>5 DEF Truthful
        <5>2. CASE resp' \in {<<0, 0>>, <<0, PartOfBlock>>, <<EIO, 0>>}
          <6>1. resp'[1] # 0 \/ resp'[2] # BlockBytes
            BY <1>c, <3>p, <5>2 DEF EIO
          <6>2. QED
            BY <2>o, <4>2, <6>1 DEF Truthful
        <5>3. QED
          BY <2>c, <5>1, <5>2
      <4>4. \A k \in 1 .. length_done : Done(k)'
        <5>1. TAKE k \in 1 .. length_done
        <5>2. buffer[k] = image[first + k - 1]
          BY <1>c, <4>1, <4>2 DEF BlocksDone, Done
        <5>3. first + k - 1 \in Offsets /\ first + k - 1 # b
          <6>1. k \in 1 .. length_done + 1
            BY <1>c DEF TypeOK
          <6>2. QED
            BY <2>s, <4>1, <6>1
        <5>4. image'[first + k - 1] = image[first + k - 1]
          BY <3>2, <5>3 DEF Stored
        <5>5. QED
          BY <2>o, <5>2, <5>4 DEF Done
      <4>5. QED
        BY <2>c, <2>o, <2>r, <4>1, <4>2, <4>3, <4>4 DEF BlocksDone
    <3>7. QED
      BY <3>3, <3>4, <3>5, <3>6
  <2>d. CASE /\ req[1] = WRITE /\ req[3] > BlockBytes /\ server' = "stopped"
             /\ UNCHANGED <<data, resp, image>>
    <3>1. ~Uncancelled
      <4>1. SUFFICES ASSUME Uncancelled PROVE FALSE
        OBVIOUS
      <4>2. op # INFO
        BY <1>c, <2>d, <2>r, <4>1, Requests
      <4>3. QED
        BY <1>c, <2>d, <2>s, <4>1, <4>2
    <3>2. TypeOK' /\ Lengths'
      BY <2>d, <2>o DEF TypeOK, Lengths
    <3>3. QED
      BY <2>t, <3>1, <3>2 DEF Turns, BlocksDone
  <2>e. QED
    BY <1>11, <2>a, <2>b, <2>c, <2>d DEF Execute, b, length
<1>12. ASSUME WriteResponse
       PROVE  IInv'
  <2>0. RequestHeader' = RequestHeader
    BY <1>12 DEF WriteResponse, callVars, RequestHeader
  <2>o. /\ UNCHANGED <<data, request_event, response_event, lifeVars, pc,
                       callVars, result, backlog, readptr, req, resp, image>>
        /\ server = "respond" /\ Len(resp) \in {2, 3}
    BY <1>12 DEF WriteResponse, Lengths
  <2>t. Uncancelled' <=> Uncancelled
    BY <2>o DEF Uncancelled
  <2>s. Uncancelled => writeptr = 0 /\ pc = "wait" /\ ~request_event /\ ~response_event
    BY <2>o DEF Turns
  <2>a. CASE /\ writeptr + Len(resp) <= HeaderWords
             /\ header' = Overwrite(resp, writeptr)
             /\ writeptr' = writeptr + Len(resp) /\ server' = "flush"
    <3>1. /\ header' \in [1 .. HeaderWords -> Nat]
          /\ \A k \in DOMAIN resp : writeptr = 0 => header'[k] = resp[k]
      <4>1. /\ header \in [1 .. HeaderWords -> Nat] /\ writeptr \in Nat
            /\ resp \in Seq(Nat)
        BY <1>c DEF TypeOK
      <4>2. Overwrite(resp, writeptr) \in [1 .. HeaderWords -> Nat]
        BY <4>1, Overwritten
      <4>3. \A k \in DOMAIN resp : writeptr = 0 /\ Len(resp) <= HeaderWords =>
              Overwrite(resp, writeptr)[k] = resp[k]
        BY <4>1, Overwritten
      <4>4. writeptr = 0 => Len(resp) <= HeaderWords
        BY <2>a, <2>o
      <4>5. QED
        BY <2>a, <4>2, <4>3, <4>4
    <3>2. TypeOK' /\ Lengths'
      BY <1>c, <2>a, <2>o, <3>1 DEF TypeOK, Lengths
    <3>3. Turns'
      BY <2>a, <2>o, <2>s, <2>t DEF Turns
    <3>4. BlocksDone'
      <4>1. Uncancelled => header'[1] = resp[1] /\ header'[2] = resp[2]
        <5>1. 1 \in DOMAIN resp /\ 2 \in DOMAIN resp
          BY <2>o DEF TypeOK
        <5>2. QED
          BY <2>s, <3>1, <5>1
      <4>2. QED
        BY <2>a, <2>o, <2>s, <2>t, <4>1
        DEF BlocksDone, BlockDone, Done, Truthful
    <3>5. QED
      BY <3>2, <3>3, <3>4
  <2>b. CASE /\ ~(writeptr + Len(resp) <= HeaderWords)
             /\ UNCHANGED <<header, writeptr>> /\ server' = "stopped"
    <3>1. ~Uncancelled
      <4>1. CASE Len(resp) = 2
        BY <1>c, <2>b, <2>s, <4>1
      <4>2. CASE Len(resp) = 3
        BY <1>c, <2>b, <2>s, <4>2
      <4>3. QED
        BY <2>o, <4>1, <4>2
    <3>2. TypeOK' /\ Lengths'
      BY <1>c, <2>b, <2>o DEF TypeOK, Lengths
    <3>3. QED
      BY <2>t, <3>1, <3>2 DEF Turns, BlocksDone
  <2>c. QED
    BY <1>12, <2>a, <2>b DEF WriteResponse
<1>13. ASSUME Flush
       PROVE  IInv'
  <2>0. RequestHeader' = RequestHeader
    BY <1>13 DEF Flush, RequestHeader
  <2>1. TypeOK'
    <3>1. /\ pc' \in {pc, "response"} /\ response_event' \in {response_event, TRUE}
          /\ readptr' = 0 /\ writeptr' = 0 /\ server' = "wait"
          /\ UNCHANGED <<memVars, request_event, lifeVars, callVars,
                         result, backlog, req, resp, image>>
      BY <1>13 DEF Flush
    <3>2. QED
      <4>1. /\ pc' \in {"idle", "call", "copy", "signal", "wait", "response",
                         "cancelled", "closed"}
            /\ response_event' \in BOOLEAN
        BY <3>1 DEF TypeOK
      <4>2. readptr' \in 0 .. HeaderWords /\ writeptr' \in 0 .. HeaderWords
        BY <1>c, <3>1
      <4>3. QED
        BY <3>1, <4>1, <4>2 DEF TypeOK
  <2>2. Lengths'
    BY <1>13, <1>c DEF Flush, Lengths, TypeOK
  <2>3. Turns'
    BY <1>13, <1>c, <2>0 DEF Flush, Turns, Uncancelled, Lengths, TypeOK
  <2>4. BlocksDone'
    BY <1>13, <1>c
    DEF Flush, BlocksDone, BlockDone, Done, Truthful, Uncancelled, Lengths,
        TypeOK
  <2>5. QED
    BY <2>1, <2>2, <2>3, <2>4
<1>14. ASSUME ServerDies
       PROVE  IInv'
  <2>0. RequestHeader' = RequestHeader
    BY <1>14 DEF ServerDies, RequestHeader
  <2>1. TypeOK'
    BY <1>14, <1>c DEF ServerDies, TypeOK
  <2>2. Lengths'
    BY <1>14, <1>c DEF ServerDies, Lengths, TypeOK
  <2>3. Turns'
    BY <1>14, <1>c, <2>0 DEF ServerDies, Turns, Uncancelled, Lengths, TypeOK
  <2>4. BlocksDone'
    BY <1>14, <1>c
    DEF ServerDies, BlocksDone, BlockDone, Done, Truthful, Uncancelled,
        Lengths, TypeOK
  <2>5. QED
    BY <2>1, <2>2, <2>3, <2>4
<1>15. ASSUME ReadBootSector
       PROVE  IInv'
  <2>0. PICK v \in Values : buffer' = <<v>>
    BY <1>15 DEF ReadBootSector
  <2>1. TypeOK'
    BY <1>15, <1>c, <2>0 DEF ReadBootSector, TypeOK
  <2>2. length_done = 0 /\ first + 1 <= Blocks
    BY <1>15, <1>c DEF ReadBootSector, Lengths, TypeOK
  <2>3. Lengths'
    BY <1>15, <1>c, <2>0, <2>2 DEF ReadBootSector, Lengths, TypeOK
  <2>4. Turns'
    BY <1>15, <1>c DEF ReadBootSector, Turns, Uncancelled, Lengths, TypeOK
  <2>5. BlocksDone'
    BY <1>15, <1>c, <2>2
    DEF ReadBootSector, BlocksDone, BlockDone, Done, Truthful, Uncancelled,
        TypeOK
  <2>6. QED
    BY <2>1, <2>3, <2>4, <2>5
<1>16. ASSUME Created
       PROVE  IInv'
  <2>0. RequestHeader' = RequestHeader
    BY <1>16 DEF Created, RequestHeader
  <2>1. TypeOK'
    BY <1>16, <1>c DEF Created, TypeOK
  <2>2. Lengths'
    BY <1>16, <1>c DEF Created, Lengths, TypeOK
  <2>3. Turns'
    BY <1>16, <1>c, <2>0 DEF Created, Turns, Uncancelled, Lengths, TypeOK
  <2>4. BlocksDone'
    BY <1>16, <1>c
    DEF Created, BlocksDone, BlockDone, Done, Truthful, Uncancelled, Lengths,
        TypeOK
  <2>5. QED
    BY <2>1, <2>2, <2>3, <2>4
<1>17. ASSUME UNCHANGED vars
       PROVE  IInv'
  <2>1. RequestHeader' = RequestHeader
    BY <1>17 DEF vars, RequestHeader
  <2>2. QED
    BY <1>17, <2>1
    DEF vars, TypeOK, Lengths, Turns, BlocksDone, BlockDone, Done, Truthful,
        Uncancelled
<1>18. QED
  BY <1>1, <1>2, <1>3, <1>4, <1>5, <1>6, <1>7, <1>8, <1>9, <1>10, <1>11,
     <1>12, <1>13, <1>14, <1>15, <1>16, <1>17
  DEF Next, DeviceThread, Server

(* The state that the first INFO call starts from.                         *)
LEMMA InitInv == Init => IInv
<1> SUFFICES ASSUME Init PROVE IInv
  OBVIOUS
<1>c. /\ Blocks \in Nat \ {0} /\ HeaderWords \in Nat /\ HeaderWords >= 3
      /\ Backlog \in Nat /\ Offsets = 0 .. Blocks - 1
      /\ INFO = 1 /\ READ = 2 /\ WRITE = 3 /\ Ops = {READ, WRITE}
  BY Constants
<1>1. TypeOK
  <2>1. header \in [1 .. HeaderWords -> Nat] /\ data \in Values
    BY DEF Init
  <2>2. first \in Offsets /\ readptr \in 0 .. HeaderWords
        /\ writeptr \in 0 .. HeaderWords /\ backlog \in 0 .. Backlog
        /\ length_done \in 0 .. Blocks
    BY <1>c DEF Init
  <2>3. QED
    BY <2>1, <2>2 DEF Init, TypeOK
<1>2. Lengths
  BY DEF Init, Lengths
<1>3. Turns /\ BlocksDone
  BY DEF Init, Turns, BlocksDone
<1>4. QED
  BY <1>1, <1>2, <1>3 DEF IInv

(* The invariant of the proxy protocol: whatever the server answers, fails *)
(* to answer or dies of, and whenever the disk is removed.                 *)
THEOREM Invariance == Spec => []IInv
BY InitInv, InvStep, PTL DEF Spec

(* The shared memory, both sides' pointers and the transfer keep their     *)
(* types: the server's header pointers stay in the header, and no call     *)
(* goes beyond the buffer of its request.                                  *)
THEOREM TypeCorrect == Spec => []TypeOK
<1>1. IInv => TypeOK
  BY DEF IInv
<1>2. QED
  BY <1>1, Invariance, PTL

(* ImDiskCallProxy and shm_flush take turns until the disk is removed, for *)
(* any backlog: no call finds an event of an earlier one.                  *)
THEOREM TurnsAreTaken == Spec => []TakesTurns
<1>1. IInv => TakesTurns
  BY DEF IInv, Lengths, Turns, Uncancelled, TakesTurns
<1>2. QED
  BY <1>1, Invariance, PTL

(* A transfer that ImDiskReadProxy or ImDiskWriteProxy reports successful  *)
(* was carried out to its last block, for any backlog, until a call is     *)
(* given up: short and failed writes, reads beyond the image and a server  *)
(* that dies are never taken for it.                                       *)
THEOREM SuccessIsReal == Spec => []SuccessMeansDone
<1>1. IInv => SuccessMeansDone
  BY DEF IInv, Lengths, BlocksDone, Uncancelled, SuccessMeansDone
<1>2. QED
  BY <1>1, Invariance, PTL
=============================================================================
