------------------------------ MODULE ProxyShm ------------------------------
(***************************************************************************)
(* A disk whose image is served by the devio process through shared memory:*)
(* the device thread, from ImDiskCreateDevice on, in ImDiskReadProxy,      *)
(* ImDiskWriteProxy, ImDiskCallProxy and ImDiskCloseProxy (sys/proxy.cpp), *)
(* and the loop of do_comm with shm_read, shm_write and shm_flush          *)
(* (devio/devio.c).                                                        *)
(*                                                                         *)
(* The shared memory is a header of 8-byte words, used for requests and    *)
(* for responses alike, and a data area that holds one block, so that a    *)
(* transfer of several blocks takes several calls.  Both events reset      *)
(* themselves when they satisfy a wait.                                    *)
(***************************************************************************)
EXTENDS Integers, Sequences

CONSTANTS
  Blocks,        \* the number of blocks of the image
  Values, Zero,  \* what a block may hold; a block of zeros
  HeaderWords,   \* IMDPROXY_HEADER_SIZE in words
  ReqAlignment,  \* req_alignment that the server reports
  Backlog        \* requests that may be queued when the disk is removed

ASSUME ConstantsAssumption ==
  /\ Blocks \in Nat \ {0}
  /\ Zero \in Values
  /\ HeaderWords \in Nat /\ HeaderWords >= 3
  /\ ReqAlignment \in Nat
  /\ Backlog \in Nat

(* IMDPROXY_REQ, with the request words the device thread sends.            *)
INFO == 1
READ == 2
WRITE == 3
CLOSE == 5
Ops == {READ, WRITE}

ENODEV == 19
EIO == 5
BlockBytes == 512

Offsets == 0 .. Blocks - 1

VARIABLES
  header, data,       \* the shared memory
  request_event, response_event,
  terminate_thread,   \* CancelEvent of the calls of a created disk
  creating,           \* ImDiskCreateDevice calls, without CancelEvent
  pc,                 \* the device thread
  op, first, buffer,  \* the transfer it makes
  length_done,        \* blocks of it that are done
  result,             \* how the last transfer ended
  backlog,            \* queued requests still to come after removal
  givenUp,            \* history: a call was cancelled
  server,             \* the devio process
  readptr, writeptr,  \* shm_readptr and shm_writeptr, in words
  req, resp,          \* req_block and resp_block
  image

memVars == <<header, data>>
callVars == <<op, first, buffer, length_done>>
lifeVars == <<terminate_thread, creating, givenUp>>
serverVars == <<server, readptr, writeptr, req, resp, image>>
vars == <<header, data, request_event, response_event, terminate_thread,
          creating, givenUp, pc, op, first, buffer, length_done, result,
          backlog, server, readptr, writeptr, req, resp, image>>

TypeOK ==
  /\ header \in [1 .. HeaderWords -> Nat]
  /\ data \in Values
  /\ {request_event, response_event} \subseteq BOOLEAN
  /\ {terminate_thread, creating, givenUp} \subseteq BOOLEAN
  /\ pc \in {"idle", "call", "copy", "signal", "wait", "response",
             "cancelled", "closed"}
  /\ op \in Ops \cup {INFO}
  /\ first \in Offsets
  /\ buffer \in Seq(Values)
  /\ length_done \in 0 .. Blocks
  /\ result \in {"none", "success", "error"}
  /\ backlog \in 0 .. Backlog
  /\ server \in {"wait", "code", "exec", "respond", "flush", "stopped", "dead"}
  /\ readptr \in 0 .. HeaderWords
  /\ writeptr \in 0 .. HeaderWords
  /\ req \in Seq(Nat)
  /\ resp \in Seq(Nat)
  /\ image \in [Offsets -> Values]

(* The server waits and ImDiskQueryInformationProxy is about to call it.    *)
Init ==
  /\ header = [k \in 1 .. HeaderWords |-> 0]
  /\ data \in Values
  /\ request_event = FALSE
  /\ response_event = FALSE
  /\ terminate_thread = FALSE
  /\ creating = TRUE
  /\ givenUp = FALSE
  /\ pc = "call"
  /\ op = INFO
  /\ first = 0
  /\ buffer = <<>>
  /\ length_done = 0
  /\ result = "none"
  /\ backlog = Backlog
  /\ server = "wait"
  /\ readptr = 0
  /\ writeptr = 0
  /\ req = <<>>
  /\ resp = <<>>
  /\ image \in [Offsets -> Values]

Overwrite(words, at) ==
  [k \in 1 .. HeaderWords |->
     IF k - at \in DOMAIN words THEN words[k - at] ELSE header[k]]

-----------------------------------------------------------------------------
(* The device thread.                                                      *)

Finish(r) == pc' = "idle" /\ result' = r

(* Transfer(o, x, buf): a read or write request is taken from the queue.    *)
Transfer(o, x, buf) ==
  /\ pc = "idle" /\ ~creating
  /\ \/ ~terminate_thread /\ UNCHANGED backlog
     \/ terminate_thread /\ backlog > 0 /\ backlog' = backlog - 1
  /\ x + Len(buf) <= Blocks
  /\ pc' = "call"
  /\ op' = o
  /\ first' = x
  /\ buffer' = buf
  /\ length_done' = 0
  /\ result' = "none"
  /\ UNCHANGED <<memVars, request_event, response_event, lifeVars,
                 serverVars>>

(* The boot sector, which ImDiskCreateDevice reads when it is to find the  *)
(* geometry, and the end of the creation.                                  *)
ReadBootSector ==
  /\ pc = "idle" /\ creating /\ op = INFO /\ result # "error"
  /\ pc' = "call"
  /\ op' = READ
  /\ \E v \in Values : buffer' = <<v>>
  /\ UNCHANGED <<memVars, request_event, response_event, lifeVars, first,
                 length_done, result, backlog, serverVars>>

Created ==
  /\ pc = "idle" /\ creating /\ result # "error"
  /\ creating' = FALSE
  /\ UNCHANGED <<memVars, request_event, response_event, terminate_thread,
                 givenUp, pc, callVars, result, backlog, serverVars>>

RequestHeader ==
  IF op = INFO THEN <<INFO>>
  ELSE <<op, (first + length_done) * BlockBytes, BlockBytes>>

(* ImDiskCallProxy: copy the header to shared memory,                       *)
CopyHeader ==
  /\ pc = "call"
  /\ header' = Overwrite(RequestHeader, 0)
  /\ pc' = "copy"
  /\ UNCHANGED <<data, request_event, response_event, lifeVars,
                 callVars, result, backlog, serverVars>>

(* Mutant of CopyData: the header is copied in place of the data.           *)
CopyHeaderTwice ==
  /\ pc = "copy"
  /\ data' = IF op = WRITE THEN RequestHeader ELSE data
  /\ pc' = "signal"
  /\ UNCHANGED <<header, request_event, response_event, lifeVars,
                 callVars, result, backlog, serverVars>>

(* then the data,                                                           *)
CopyData ==
  /\ pc = "copy"
  /\ data' = IF op = WRITE THEN buffer[length_done + 1] ELSE data
  /\ pc' = "signal"
  /\ UNCHANGED <<header, request_event, response_event, lifeVars,
                 callVars, result, backlog, serverVars>>

(* then set request_event and, in the same step, wait for response_event or *)
(* terminate_thread; of two that are set the first satisfies the wait.     *)
(* While the disk is created nobody can set terminate_thread.              *)
SignalAndWait ==
  /\ pc = "signal"
  /\ request_event' = TRUE
  /\ pc' = IF response_event THEN "response"
           ELSE IF terminate_thread THEN "cancelled" ELSE "wait"
  /\ response_event' = FALSE
  /\ givenUp' = (givenUp \/ (terminate_thread /\ ~response_event))
  /\ UNCHANGED <<memVars, terminate_thread, creating, callVars, result, backlog,
                 serverVars>>

Cancelled ==
  /\ pc = "cancelled"
  /\ Finish("error")
  /\ UNCHANGED <<memVars, request_event, response_event, lifeVars,
                 callVars, backlog, serverVars>>

(* Mutant of Response: the response is taken for a success unread.          *)
ResponseUnread ==
  /\ pc = "response"
  /\ \/ op = INFO /\ Finish("none") /\ UNCHANGED <<buffer, length_done>>
     \/ /\ op # INFO
        /\ buffer' = IF op = READ THEN [buffer EXCEPT ![length_done + 1] = data]
                     ELSE buffer
        /\ length_done' = length_done + 1
        /\ IF length_done + 1 = Len(buffer) THEN Finish("success")
           ELSE pc' = "call" /\ UNCHANGED result
  /\ UNCHANGED <<memVars, request_event, response_event, lifeVars,
                 op, first, backlog, serverVars>>

(* The response is taken from the header, errorno and length, or all of it *)
(* for INFO, which fails for an alignment of 0 or above 512.  A read goes  *)
(* on until all is done or the server sends nothing, a write until all is  *)
(* done, both with a call for each block.                                  *)
Response ==
  LET errorno == header[1]
      length == header[2]
      refused == \/ errorno # 0
                 \/ op = READ /\ length > BlockBytes
                 \/ op = WRITE /\ length # BlockBytes
      some == length # 0
      all == length_done + 1 = Len(buffer)
  IN  /\ pc = "response"
      /\ \/ /\ op = INFO
            /\ Finish(IF header[2] \in 1 .. BlockBytes THEN "none" ELSE "error")
            /\ UNCHANGED <<buffer, length_done>>
         \/ /\ op # INFO /\ refused
            /\ Finish("error")
            /\ UNCHANGED <<buffer, length_done>>
         \/ /\ op # INFO /\ ~refused
            /\ buffer' = IF op = READ /\ some
                         THEN [buffer EXCEPT ![length_done + 1] = data]
                         ELSE buffer
            /\ length_done' = IF some THEN length_done + 1 ELSE length_done
            /\ \/ (all \/ ~some) /\ Finish("success")
               \/ ~(all \/ ~some) /\ pc' = "call" /\ UNCHANGED result
      /\ UNCHANGED <<memVars, request_event, response_event, lifeVars,
                     op, first, backlog, serverVars>>

(* Mutant of RemoveVirtualDisk: the call does not wait for terminate_thread.*)
RemoveWithoutCancel ==
  /\ ~terminate_thread /\ ~creating
  /\ terminate_thread' = TRUE
  /\ UNCHANGED <<memVars, request_event, response_event, creating, givenUp, pc,
                 callVars, result, backlog, serverVars>>

(* ImDiskRemoveVirtualDisk: terminate_thread satisfies a wait in progress.  *)
RemoveVirtualDisk ==
  /\ ~terminate_thread /\ ~creating
  /\ terminate_thread' = TRUE
  /\ pc' = IF pc = "wait" THEN "cancelled" ELSE pc
  /\ givenUp' = (givenUp \/ pc = "wait")
  /\ UNCHANGED <<memVars, request_event, response_event, creating, callVars,
                 result, backlog, serverVars>>

(* Mutant of CloseProxy: request_event is not set.                          *)
CloseWithoutSignal ==
  /\ pc = "idle" /\ (terminate_thread \/ creating)
  /\ header' = Overwrite(<<CLOSE>>, 0)
  /\ pc' = "closed"
  /\ UNCHANGED <<data, request_event, response_event, lifeVars,
                 callVars, result, backlog, serverVars>>

(* ImDiskCloseProxy, of a removed disk or of one whose creation has failed: *)
(* nothing is waited for.                                                   *)
CloseProxy ==
  /\ pc = "idle" /\ (terminate_thread \/ creating)
  /\ header' = Overwrite(<<CLOSE>>, 0)
  /\ request_event' = TRUE
  /\ pc' = "closed"
  /\ UNCHANGED <<data, response_event, lifeVars, callVars, result,
                 backlog, serverVars>>

-----------------------------------------------------------------------------
(* The server.                                                             *)

(* WaitForSingleObject(shm_request_event) at the end of shm_flush           *)
Wake ==
  /\ server = "wait" /\ request_event
  /\ request_event' = FALSE
  /\ server' = "code"
  /\ UNCHANGED <<memVars, response_event, lifeVars, pc, callVars,
                 result, backlog, readptr, writeptr, req, resp, image>>

(* The head of the loop of do_comm: comm_read of the request code, and for *)
(* a read or write of the rest of the request.  Any other code is answered *)
(* by ENODEV in the header, without shm_flush: the server reads on in the  *)
(* same header until it is used up.                                        *)
ReadRequest ==
  LET ended == readptr = HeaderWords
      code == header[readptr + 1]
      cut == ~ended /\ code \in Ops /\ readptr + 3 > HeaderWords
  IN  /\ server = "code"
      /\ \/ /\ ended \/ cut
            /\ server' = "stopped"
            /\ UNCHANGED <<header, readptr, writeptr, req>>
         \/ /\ ~ended /\ ~cut /\ code \in Ops
            /\ server' = "exec"
            /\ req' = SubSeq(header, readptr + 1, readptr + 3)
            /\ readptr' = readptr + 3
            /\ UNCHANGED <<header, writeptr>>
         \/ /\ ~ended /\ code = INFO
            /\ server' = "exec"
            /\ req' = <<INFO>>
            /\ readptr' = readptr + 1
            /\ UNCHANGED <<header, writeptr>>
         \/ /\ ~ended /\ code \notin Ops \cup {INFO}
            /\ readptr' = readptr + 1
            /\ header' = Overwrite(<<ENODEV>>, writeptr)
            /\ writeptr' = writeptr + 1
            /\ UNCHANGED <<server, req>>
  /\ UNCHANGED <<data, request_event, response_event, lifeVars, pc,
                 callVars, result, backlog, resp, image>>

(* The image after a transfer to block b, which need not be of the image.   *)
Stored(b, v) == [x \in Offsets |-> IF x = b THEN v ELSE image[x]]

(* A length between nothing and a block.                                    *)
PartOfBlock == BlockBytes \div 2

(* logical_read or logical_write, straight from and to the data area.  A    *)
(* read clears the data first, and if it does not fail reports the length  *)
(* asked for whatever it got: a short read is answered with zeros.  A       *)
(* write reports what it wrote; one that is cut short or fails leaves       *)
(* anything in its block.                                                  *)
Execute ==
  LET b == req[2] \div BlockBytes
      length == IF req[3] <= BlockBytes THEN req[3] ELSE BlockBytes
  IN  /\ server = "exec"
      /\ \/ /\ req[1] = INFO
            /\ resp' = <<Blocks * BlockBytes, ReqAlignment, 0>>
            /\ server' = "respond"
            /\ UNCHANGED <<data, image>>
         \/ /\ req[1] = READ
            /\ \/ /\ resp' = <<0, length>>
                  /\ data' \in {Zero} \cup (IF b \in Offsets THEN {image[b]} ELSE {})
               \/ resp' = <<EIO, 0>> /\ data' = Zero
            /\ server' = "respond"
            /\ UNCHANGED image
         \/ /\ req[1] = WRITE /\ req[3] <= BlockBytes
            /\ \/ resp' = <<0, req[3]>> /\ image' = Stored(b, data)
               \/ /\ resp' \in {<<0, 0>>, <<0, PartOfBlock>>, <<EIO, 0>>}
                  /\ \E v \in Values : image' = Stored(b, v)
            /\ server' = "respond"
            /\ UNCHANGED data
         \/ /\ req[1] = WRITE /\ req[3] > BlockBytes
            /\ server' = "stopped"
            /\ UNCHANGED <<data, resp, image>>
      /\ UNCHANGED <<header, request_event, response_event, lifeVars, pc,
                     callVars, result, backlog, readptr, writeptr, req>>

WriteResponse ==
  /\ server = "respond"
  /\ LET fits == writeptr + Len(resp) <= HeaderWords
     IN  /\ header' = IF fits THEN Overwrite(resp, writeptr) ELSE header
         /\ writeptr' = IF fits THEN writeptr + Len(resp) ELSE writeptr
         /\ server' = IF fits THEN "flush" ELSE "stopped"
  /\ UNCHANGED <<data, request_event, response_event, lifeVars, pc,
                 callVars, result, backlog, readptr, req, resp, image>>

(* Mutant of Flush: an event that stays set after the wait.                 *)
FlushManualReset ==
  /\ server = "flush"
  /\ readptr' = 0
  /\ writeptr' = 0
  /\ server' = "wait"
  /\ pc' = IF pc = "wait" THEN "response" ELSE pc
  /\ response_event' = TRUE
  /\ UNCHANGED <<memVars, request_event, lifeVars, callVars, result,
                 backlog, req, resp, image>>

(* shm_flush: SetEvent(shm_response_event) satisfies a wait in progress.    *)
Flush ==
  /\ server = "flush"
  /\ readptr' = 0
  /\ writeptr' = 0
  /\ server' = "wait"
  /\ \/ /\ pc = "wait"
        /\ pc' = "response"
        /\ UNCHANGED response_event
     \/ /\ pc # "wait"
        /\ response_event' = TRUE
        /\ UNCHANGED pc
  /\ UNCHANGED <<memVars, request_event, lifeVars, callVars, result,
                 backlog, req, resp, image>>

(* The process ends at any point, and its mapping and events with it.       *)
ServerDies ==
  /\ server \notin {"stopped", "dead"}
  /\ server' = "dead"
  /\ UNCHANGED <<memVars, request_event, response_event, lifeVars, pc,
                 callVars, result, backlog, readptr, writeptr, req, resp,
                 image>>

-----------------------------------------------------------------------------
DeviceThread ==
  \/ ReadBootSector
  \/ Created
  \/ CopyHeader
  \/ CopyData
  \/ SignalAndWait
  \/ Cancelled
  \/ Response
  \/ CloseProxy

Server ==
  \/ Wake
  \/ ReadRequest
  \/ Execute
  \/ WriteResponse
  \/ Flush

Buffers == UNION {[1 .. n -> Values] : n \in 1 .. Blocks}

Next ==
  \/ \E o \in Ops, x \in Offsets, buf \in Buffers : Transfer(o, x, buf)
  \/ DeviceThread
  \/ RemoveVirtualDisk
  \/ Server
  \/ ServerDies

(* The device thread and a living server go on; nobody has to send         *)
(* requests, to remove the disk or to let the server live.                 *)
Fairness == WF_vars(DeviceThread) /\ WF_vars(Server)

Spec == Init /\ [][Next]_vars /\ Fairness
-----------------------------------------------------------------------------
(* Properties.                                                             *)

(* A transfer that is reported successful was carried out, block by block  *)
(* to the last: its data is in the image, or came from there or is the     *)
(* zeros that devio sends for what it cannot read.  A dying server, short  *)
(* writes, one header for both directions and a removal notwithstanding;   *)
(* what follows a cancelled call is left out, as it may take the answer to *)
(* that.  (ImDiskCallProxy against read_data, write_data and shm_flush)    *)
Done(k) ==
  \/ buffer[k] = image[first + k - 1]
  \/ op = READ /\ buffer[k] = Zero

SuccessMeansDone ==
  pc = "idle" /\ result = "success" /\ ~givenUp =>
    /\ length_done = Len(buffer)
    /\ \A k \in 1 .. length_done : Done(k)

(* The shared memory has one user at a time until the disk is removed or   *)
(* its creation fails: the server touches it only while the device thread  *)
(* waits, and no event is left set when a call begins.  (the event pair in *)
(* ImDiskCallProxy and shm_flush)                                          *)
TakesTurns ==
  ~terminate_thread /\ pc # "closed" =>
    /\ server \in {"code", "exec", "respond", "flush"} => pc = "wait"
    /\ pc # "wait" => ~request_event \/ server = "dead"
    /\ ~response_event

(***************************************************************************)
(* The inductive invariant, in parts.                                      *)
(***************************************************************************)
(* Lengths and places that hold whatever the header is read as: the blocks *)
(* of a transfer, the server's pointers and its request and response.      *)
Lengths ==
  /\ op # INFO => first + Len(buffer) <= Blocks /\ length_done <= Len(buffer)
  /\ op # INFO /\ pc \in {"call", "copy", "signal", "wait", "response"}
       => length_done < Len(buffer)
  /\ op = INFO => first = 0 /\ length_done = 0 /\ result # "success"
  /\ server = "wait" => readptr = 0 /\ writeptr = 0
  /\ server = "code" => readptr = writeptr
  /\ server = "exec" =>
       \/ req = <<INFO>>
       \/ req[1] \in Ops /\ Len(req) = 3
  /\ server = "respond" => Len(resp) \in {2, 3}
  /\ pc = "cancelled" => terminate_thread
  /\ pc = "wait" => ~terminate_thread
  /\ creating => ~terminate_thread
  /\ givenUp => terminate_thread

(* No call has been given up and the proxy is not closed.                  *)
Uncancelled == ~givenUp /\ pc # "closed"

(* Then the two sides take turns, the header is what its writer meant,     *)
Turns ==
  Uncancelled =>
    /\ ~response_event
    /\ server # "stopped"
    /\ pc # "cancelled"
    /\ pc # "wait" => server = "dead" \/ (server = "wait" /\ ~request_event)
    /\ pc = "wait" => (request_event <=> server = "wait") \/ server = "dead"
    /\ pc \in {"copy", "signal"} \/ (pc = "wait" /\ server \in {"wait", "code"})
         => \A k \in DOMAIN RequestHeader : header[k] = RequestHeader[k]
    /\ server = "code" => readptr = 0
    /\ server = "exec" => writeptr = 0 /\ req = RequestHeader
    /\ server = "respond" => writeptr = 0

(* and each block that is done is in the image and in the buffer.          *)
BlockDone ==
  IF op = WRITE THEN image[first + length_done] = buffer[length_done + 1]
  ELSE data \in {image[first + length_done], Zero}

(* A response of errorno and length says so, or that something failed.     *)
Truthful(errorno, length) ==
  \/ errorno # 0
  \/ op = WRITE /\ length # BlockBytes
  \/ length = BlockBytes /\ BlockDone

BlocksDone ==
  Uncancelled /\ op # INFO =>
    /\ \A k \in 1 .. length_done : Done(k)
    /\ pc = "idle" /\ result = "success" => length_done = Len(buffer)
    /\ op = WRITE /\ \/ pc = "signal"
                     \/ pc = "wait" /\ server \in {"wait", "code", "exec"}
         => data = buffer[length_done + 1]
    /\ pc = "wait" /\ server = "respond" => Truthful(resp[1], resp[2])
    /\ pc = "response" \/ (pc = "wait" /\ server = "flush") =>
         Truthful(header[1], header[2])

IInv == TypeOK /\ Lengths /\ Turns /\ BlocksDone

(* A removal gets the device thread out of any call, also when the server  *)
(* is dead or never answers.  (CancelEvent in ImDiskCallProxy)             *)
RemovalIsNotBlocked == terminate_thread ~> pc = "closed"

(* The server process ends after the disk is gone, even when the close     *)
(* request finds it busy with a cancelled one, if a transfer has been made *)
(* or tried.  Before that the header holds the answer to                   *)
(* IMDPROXY_REQ_INFO, and do_comm takes its default alignment of 1 for     *)
(* another IMDPROXY_REQ_INFO.  (ImDiskCloseProxy, the default branch of    *)
(* do_comm)                                                                *)
ServerEnds ==
  pc = "closed" /\ op # INFO ~> server \in {"stopped", "dead"}
=============================================================================
