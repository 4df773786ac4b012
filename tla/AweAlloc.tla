------------------------------ MODULE AweAlloc ------------------------------
(***************************************************************************)
(* One file of the AWEAlloc driver: a file in physical memory that threads *)
(* read, write and resize at the same time.  The memory is a list of       *)
(* blocks that only grows while the file is open.  A counted protection    *)
(* keeps transfers and changes of the size apart; nobody waits for it, a   *)
(* request that cannot have it is refused with STATUS_DEVICE_BUSY.  One    *)
(* page mapping is kept between requests and changes hands through         *)
(* LatestPageContext.                                                      *)
(*                                                                         *)
(* Offsets and sizes count a unit, of which a page has PageSize.  What is  *)
(* in the pages is left out: which page an offset leads to is what         *)
(* matters.  UsageCount and the conflict counters are statistics.          *)
(***************************************************************************)
EXTENDS Integers, Sequences, FiniteSets

CONSTANTS
  Threads,   \* threads that send requests
  PageSize,  \* ALLOC_PAGE_SIZE
  MaxSize,   \* bound: the largest offset plus length of a request
  MaxLost,   \* bound: how often a protection is lost
  Mdls,      \* memory descriptor lists that map a page
  NoMdl

ASSUME AweAssumption ==
  /\ PageSize \in Nat \ {0}
  /\ MaxSize \in Nat
  /\ MaxLost \in Nat
  /\ IsFiniteSet(Threads)
  /\ IsFiniteSet(Mdls)
  /\ Cardinality(Mdls) > Cardinality(Threads)
  /\ NoMdl \notin Mdls

VARIABLES
  file,          \* life of the file object
  VirtualSize, TotalSize,
  blocks,        \* FirstBlock and the NextBlock links: newest first
  latest,        \* LatestPageContext
  ActiveReaders, ActiveWriters,
  mapped,        \* the descriptor lists that are allocated
  pc, op, off, len, done, status,
  ctx,           \* current_page_context of each thread
  lost           \* protections whose holder has gone: for the properties only

contextVars == <<VirtualSize, TotalSize, blocks>>
lockVars == <<ActiveReaders, ActiveWriters, lost>>
mapVars == <<latest, mapped, ctx>>
requestVars == <<op, off, len, done>>
vars == <<file, contextVars, lockVars, mapVars, requestVars, pc, status>>

Sizes == 0 .. MaxSize

NoPage == [mdl |-> NoMdl, base |-> 0]

Contexts == [mdl : Mdls \cup {NoMdl}, base : Sizes]

PageBase(o) == (o \div PageSize) * PageSize

(* AWEAllocGetRequiredPagesForSize                                         *)
WholePages(n) == PageBase(n + PageSize - 1)

TypeOK ==
  /\ file \in {"none", "loading", "open", "failed"}
  /\ VirtualSize \in Sizes
  /\ TotalSize \in 0 .. WholePages(MaxSize)
  /\ blocks \in Seq([offset : Sizes, count : 1 .. WholePages(MaxSize)])
  /\ latest \in Contexts
  /\ ActiveReaders \in Nat
  /\ ActiveWriters \in Nat
  /\ mapped \subseteq Mdls
  /\ pc \in [Threads -> {"idle", "check", "size", "copy", "move", "release"}]
  /\ op \in [Threads -> {"READ", "WRITE", "SIZE", "LOAD"}]
  /\ off \in [Threads -> Sizes]
  /\ len \in [Threads -> Sizes]
  /\ done \in [Threads -> 0 .. WholePages(MaxSize)]
  /\ status \in [Threads -> {"none", "success", "busy", "eof", "memory",
                             "internal", "error"}]
  /\ ctx \in [Threads -> Contexts]
  /\ lost \in 0 .. MaxLost

Init ==
  /\ file = "none"
  /\ VirtualSize = 0
  /\ TotalSize = 0
  /\ blocks = <<>>
  /\ latest = NoPage
  /\ ActiveReaders = 0
  /\ ActiveWriters = 0
  /\ mapped = {}
  /\ pc = [t \in Threads |-> "idle"]
  /\ op = [t \in Threads |-> "READ"]
  /\ off = [t \in Threads |-> 0]
  /\ len = [t \in Threads |-> 0]
  /\ done = [t \in Threads |-> 0]
  /\ status = [t \in Threads |-> "none"]
  /\ ctx = [t \in Threads |-> NoPage]
  /\ lost = 0

-----------------------------------------------------------------------------
(* AWEAllocTryAcquireProtection and AWEAllocReleaseProtection.             *)

ReadBusy == ActiveWriters >= 1

(* Mutant of WriteBusy: one reader is always taken for the caller.         *)
WriteBusyOwnsRead(ownsRead) == ActiveWriters >= 1 \/ ActiveReaders >= 2

WriteBusy(ownsRead) ==
  ActiveWriters >= 1 \/ ActiveReaders >= (IF ownsRead THEN 2 ELSE 1)

Protect(read, write) ==
  /\ ActiveReaders' = ActiveReaders + read
  /\ ActiveWriters' = ActiveWriters + write
  /\ UNCHANGED lost

Request(t, o, f, l) ==
  /\ op' = [op EXCEPT ![t] = o]
  /\ off' = [off EXCEPT ![t] = f]
  /\ len' = [len EXCEPT ![t] = l]
  /\ done' = [done EXCEPT ![t] = 0]

Begin(t, o, f, l, at) ==
  /\ pc' = [pc EXCEPT ![t] = at]
  /\ status' = [status EXCEPT ![t] = "none"]
  /\ Request(t, o, f, l)

(* The locals of a request go with it.                                     *)
Complete(t, s) ==
  /\ pc' = [pc EXCEPT ![t] = "idle"]
  /\ status' = [status EXCEPT ![t] = s]
  /\ Request(t, "READ", 0, 0)

GoOn(t, at) ==
  /\ pc' = [pc EXCEPT ![t] = at]
  /\ UNCHANGED <<status, requestVars>>

-----------------------------------------------------------------------------
(* AWEAllocCreate: a file without a name is empty, one with a name is      *)
(* loaded from that image.                                                 *)
Create(t) ==
  /\ file = "none"
  /\ pc[t] = "idle"
  /\ file' = "open"
  /\ UNCHANGED <<contextVars, lockVars, mapVars, requestVars, pc, status>>

CreateFromImage(t, n) ==
  /\ file = "none"
  /\ pc[t] = "idle"
  /\ file' = "loading"
  /\ Begin(t, "LOAD", 0, n, "size")
  /\ UNCHANGED <<contextVars, lockVars, mapVars>>

(* AWEAllocReadWrite up to the read protection.                            *)
ReadWrite(t, o, f, l) ==
  /\ file = "open"
  /\ pc[t] = "idle"
  /\ l > 0
  /\ IF ReadBusy
     THEN /\ Complete(t, "busy")
          /\ UNCHANGED lockVars
     ELSE /\ Protect(1, 0)
          /\ Begin(t, o, f, l, "check")
  /\ UNCHANGED <<file, contextVars, mapVars>>

End(t) == off[t] + len[t]

(* A read that starts beyond the end returns from here and keeps its       *)
(* protection.                                                             *)
ReadPastEnd(t) ==
  /\ pc[t] = "check"
  /\ op[t] = "READ"
  /\ off[t] > VirtualSize
  /\ lost' = lost + 1
  /\ Complete(t, "eof")
  /\ UNCHANGED <<file, contextVars, ActiveReaders, ActiveWriters, mapVars>>

(* Mutant of WithinFile: a read is not cut.                                *)
WithinFileUncut(t) ==
  /\ pc[t] = "check"
  /\ op[t] = "READ" => off[t] <= VirtualSize
  /\ op[t] = "WRITE" => End(t) <= VirtualSize
  /\ GoOn(t, "copy")
  /\ UNCHANGED <<file, contextVars, lockVars, mapVars>>

(* A read is cut at the end of the file.                                   *)
WithinFile(t) ==
  /\ pc[t] = "check"
  /\ op[t] = "READ" => off[t] <= VirtualSize
  /\ op[t] = "WRITE" => End(t) <= VirtualSize
  /\ len' = [len EXCEPT ![t] = IF End(t) > VirtualSize
                               THEN VirtualSize - off[t] ELSE len[t]]
  /\ pc' = [pc EXCEPT ![t] = "copy"]
  /\ UNCHANGED <<file, contextVars, lockVars, mapVars, op, off, done, status>>

(* A write beyond the end needs the protection for itself.                 *)
WritePastEnd(t) ==
  /\ pc[t] = "check"
  /\ op[t] = "WRITE"
  /\ End(t) > VirtualSize
  /\ IF WriteBusy(TRUE)
     THEN Protect(-1, 0) /\ Complete(t, "busy")
     ELSE Protect(0, 1) /\ GoOn(t, "size")
  /\ UNCHANGED <<file, contextVars, mapVars>>

(* AWEAllocSetInformation for the end of file and the allocation size.     *)
SetInformation(t, n) ==
  /\ file = "open"
  /\ pc[t] = "idle"
  /\ IF WriteBusy(FALSE)
     THEN /\ Complete(t, "busy")
          /\ UNCHANGED lockVars
     ELSE /\ Protect(0, 1)
          /\ Begin(t, "SIZE", 0, n, "size")
  /\ UNCHANGED <<file, contextVars, mapVars>>

-----------------------------------------------------------------------------
(* AWEAllocSetSize, one turn of its loop, and what its callers do with the *)
(* result.  An image is loaded before anybody else has the file and takes  *)
(* no protection.                                                          *)

Sized(t) ==
  /\ pc[t] = "size"
  /\ TotalSize >= End(t)
  /\ VirtualSize' = End(t)
  /\ IF op[t] = "LOAD" THEN UNCHANGED lockVars ELSE Protect(0, -1)
  /\ IF op[t] = "SIZE" THEN Complete(t, "success") ELSE GoOn(t, "copy")
  /\ UNCHANGED <<file, TotalSize, blocks, mapVars>>

(* Mutant of AddBlock: the block starts where the file ends.               *)
AddBlockAtEndOfFile(t, got) ==
  /\ pc[t] = "size"
  /\ TotalSize < End(t)
  /\ got <= WholePages(End(t) - TotalSize)
  /\ PageBase(got) > 0
  /\ blocks' = <<[offset |-> VirtualSize, count |-> got]>> \o blocks
  /\ TotalSize' = TotalSize + PageBase(got)
  /\ UNCHANGED <<file, VirtualSize, lockVars, mapVars, requestVars, pc, status>>

(* AWEAllocAddBlock: memory may be short, so that fewer bytes come than    *)
(* were asked for; of those whole pages are used.                          *)
AddBlock(t, got) ==
  /\ pc[t] = "size"
  /\ TotalSize < End(t)
  /\ got <= WholePages(End(t) - TotalSize)
  /\ PageBase(got) > 0
  /\ blocks' = <<[offset |-> TotalSize, count |-> got]>> \o blocks
  /\ TotalSize' = TotalSize + PageBase(got)
  /\ UNCHANGED <<file, VirtualSize, lockVars, mapVars, requestVars, pc, status>>

(* Mutant of OutOfMemory: a change of the size gives back a read           *)
(* protection too.                                                         *)
OutOfMemoryAsWrite(t) ==
  /\ pc[t] = "size"
  /\ TotalSize < End(t) \/ (op[t] = "LOAD" /\ blocks = <<>>)
  /\ Complete(t, "memory")
  /\ IF op[t] = "LOAD" THEN UNCHANGED lockVars ELSE Protect(-1, -1)
  /\ file' = IF op[t] = "LOAD" THEN "failed" ELSE file
  /\ UNCHANGED <<contextVars, mapVars>>

(* Less than a page, or nothing.  An image file that cannot be opened ends *)
(* the creation in the same way.  A creation that fails is not followed by *)
(* a close: the blocks it has stay.                                        *)
OutOfMemory(t) ==
  /\ pc[t] = "size"
  /\ TotalSize < End(t) \/ (op[t] = "LOAD" /\ blocks = <<>>)
  /\ Complete(t, "memory")
  /\ CASE op[t] = "WRITE" -> Protect(-1, -1)
       [] op[t] = "SIZE" -> Protect(0, -1)
       [] op[t] = "LOAD" -> UNCHANGED lockVars
  /\ file' = IF op[t] = "LOAD" THEN "failed" ELSE file
  /\ UNCHANGED <<contextVars, mapVars>>

-----------------------------------------------------------------------------
(* AWEAllocMapPage.                                                        *)

(* The block that holds a page: the first on the list that does not start  *)
(* after it.                                                               *)
FirstHit(i, base) ==
  /\ blocks[i].offset <= base
  /\ \A j \in 1 .. i - 1 : blocks[j].offset > base

BlockOf(base) ==
  IF \E i \in DOMAIN blocks : FirstHit(i, base)
  THEN blocks[CHOOSE i \in DOMAIN blocks : FirstHit(i, base)]
  ELSE [offset |-> 0, count |-> 0]

Covered(base) == base - BlockOf(base).offset < BlockOf(base).count

Holds(c, base) == c.mdl # NoMdl /\ c.base = base

(* The stored mapping is exchanged for the current one.  One that is of no *)
(* use is freed and, unless the block or memory is missing, a new one made *)
(* (the descriptor list that is taken does not matter).                    *)
MapPage(t) ==
  LET base == PageBase(off[t] + done[t])
      rest == mapped \ {latest.mdl}
      new  == CHOOSE m \in Mdls : m \notin rest
      results == IF Covered(base) THEN {"none", "memory"} ELSE {"internal"}
  IN
  /\ pc[t] = "copy"
  /\ done[t] < len[t]
  /\ \/ /\ Holds(ctx[t], base)
        /\ UNCHANGED <<mapVars, lockVars>>
        /\ GoOn(t, "move")
     \/ /\ ~Holds(ctx[t], base)
        /\ Holds(latest, base)
        /\ latest' = ctx[t]
        /\ ctx' = [ctx EXCEPT ![t] = latest]
        /\ GoOn(t, "move")
        /\ UNCHANGED <<mapped, lockVars>>
     \/ /\ ~Holds(ctx[t], base)
        /\ ~Holds(latest, base)
        /\ latest' = ctx[t]
        /\ \E r \in results :
             IF r = "none"
             THEN /\ mapped' = rest \cup {new}
                  /\ ctx' = [ctx EXCEPT ![t] = [mdl |-> new, base |-> base]]
                  /\ GoOn(t, "move")
                  /\ UNCHANGED lockVars
             ELSE /\ mapped' = rest
                  /\ ctx' = [ctx EXCEPT ![t] = NoPage]
                  /\ IF op[t] = "LOAD"
                     THEN /\ pc' = [pc EXCEPT ![t] = "release"]
                          /\ status' = [status EXCEPT ![t] = r]
                          /\ UNCHANGED <<lockVars, requestVars>>
                     ELSE Complete(t, r) /\ Protect(-1, 0)
  /\ UNCHANGED <<file, contextVars>>

(* The copy between the request's buffer and the page, up to the end of    *)
(* the page.  An image is read a page at a time.                           *)
Move(t) ==
  LET here == off[t] + done[t]
      rest == IF op[t] = "LOAD" THEN PageSize ELSE len[t] - done[t]
      room == PageBase(here) + PageSize - here
  IN
  /\ pc[t] = "move"
  /\ done' = [done EXCEPT ![t] = done[t] + IF rest > room THEN room ELSE rest]
  /\ pc' = [pc EXCEPT ![t] = "copy"]
  /\ UNCHANGED <<file, contextVars, lockVars, mapVars, op, off, len, status>>

ImageReadFails(t) ==
  /\ pc[t] = "move"
  /\ op[t] = "LOAD"
  /\ pc' = [pc EXCEPT ![t] = "release"]
  /\ status' = [status EXCEPT ![t] = "error"]
  /\ UNCHANGED <<file, contextVars, lockVars, mapVars, requestVars>>

(* Nothing is left to do.                                                  *)
Copied(t) ==
  /\ pc[t] = "copy"
  /\ done[t] >= len[t]
  /\ pc' = [pc EXCEPT ![t] = "release"]
  /\ status' = [status EXCEPT ![t] = "success"]
  /\ UNCHANGED <<file, contextVars, lockVars, mapVars, requestVars>>

(* Mutant of Release: the mapping that was stored is not freed.            *)
ReleaseLeaksMapping(t) ==
  /\ pc[t] = "release"
  /\ latest' = ctx[t]
  /\ ctx' = [ctx EXCEPT ![t] = NoPage]
  /\ Complete(t, status[t])
  /\ IF op[t] = "LOAD" THEN UNCHANGED lockVars ELSE Protect(-1, 0)
  /\ file' = CASE op[t] # "LOAD" -> file
               [] op[t] = "LOAD" /\ status[t] = "success" -> "open"
               [] op[t] = "LOAD" /\ status[t] # "success" -> "failed"
  /\ UNCHANGED <<contextVars, mapped>>

(* MapPage with INVALID_OFFSET: the current mapping is stored, the one     *)
(* that was stored is freed.  Then the protection is released; a creation  *)
(* completes with the status of its last step.                             *)
Release(t) ==
  /\ pc[t] = "release"
  /\ latest' = ctx[t]
  /\ mapped' = mapped \ {latest.mdl}
  /\ ctx' = [ctx EXCEPT ![t] = NoPage]
  /\ Complete(t, status[t])
  /\ IF op[t] = "LOAD" THEN UNCHANGED lockVars ELSE Protect(-1, 0)
  /\ file' = CASE op[t] # "LOAD" -> file
               [] op[t] = "LOAD" /\ status[t] = "success" -> "open"
               [] op[t] = "LOAD" /\ status[t] # "success" -> "failed"
  /\ UNCHANGED contextVars

(* AWEAllocClose, when no request is left on the file object.              *)
Close ==
  /\ file = "open"
  /\ \A t \in Threads : pc[t] = "idle"
  /\ file' = "none"
  /\ mapped' = mapped \ {latest.mdl}
  /\ latest' = NoPage
  /\ blocks' = <<>>
  /\ VirtualSize' = 0
  /\ TotalSize' = 0
  /\ ActiveReaders' = 0
  /\ ActiveWriters' = 0
  /\ lost' = 0
  /\ UNCHANGED <<ctx, requestVars, pc, status>>

-----------------------------------------------------------------------------
Step(t) ==
  \/ ReadPastEnd(t)
  \/ WithinFile(t)
  \/ WritePastEnd(t)
  \/ Sized(t)
  \/ \E got \in 1 .. WholePages(MaxSize) : AddBlock(t, got)
  \/ OutOfMemory(t)
  \/ MapPage(t)
  \/ Move(t)
  \/ ImageReadFails(t)
  \/ Copied(t)
  \/ Release(t)

(* Bound: at most MaxLost reads beyond the end.                            *)
LostBound(f) ==
  \/ f <= VirtualSize
  \/ /\ lost < MaxLost
     /\ \A u \in Threads : pc[u] = "check" => op[u] # "READ"

Send(t) ==
  \/ Create(t)
  \/ \E n \in Sizes : CreateFromImage(t, n) \/ SetInformation(t, n)
  \/ \E o \in {"READ", "WRITE"}, f, l \in Sizes :
       /\ f + l <= MaxSize
       /\ o = "READ" => LostBound(f)
       /\ ReadWrite(t, o, f, l)

Next ==
  \/ \E t \in Threads : Send(t) \/ Step(t)
  \/ Close

Spec == Init /\ [][Next]_vars

-----------------------------------------------------------------------------
(* Properties.                                                             *)

Transferring(t) ==
  /\ pc[t] # "idle"
  /\ op[t] \in {"READ", "WRITE"}

Sizing(t) == pc[t] = "size" /\ op[t] # "LOAD"

(* The two counters are what the requests hold, which is what the check    *)
(* for a corrupt state in the driver is after: a thread that changes the   *)
(* size is alone, however a write turns its read protection into one of    *)
(* its own, fails to, or gives both back.  What reads beyond the end have  *)
(* left behind is counted apart.                                           *)
ProtectionIsExact ==
  /\ ActiveReaders =
       lost + Cardinality({t \in Threads : Transferring(t)})
  /\ ActiveWriters = Cardinality({t \in Threads : Sizing(t)})
  /\ \A t \in Threads : Sizing(t) =>
       \A u \in Threads \ {t} : ~Transferring(u) /\ ~Sizing(u)

(* Every mapping is in one place: with one thread or stored, never both,   *)
(* whatever the order of exchanges; none is freed while it is somewhere    *)
(* and none is lost.                                                       *)
Holders(m) ==
  Cardinality({t \in Threads : ctx[t].mdl = m})
    + (IF latest.mdl = m THEN 1 ELSE 0)

MappingsOwnedOnce ==
  \A m \in Mdls : Holders(m) = IF m \in mapped THEN 1 ELSE 0

(* A transfer copies through a mapping of the page its offset is in, and   *)
(* that page belongs to the file: no transfer comes to one of the two      *)
(* internal errors of MapPage.                                             *)
CopiesAreInTheFile ==
  /\ \A t \in Threads : pc[t] = "move" =>
       Holds(ctx[t], PageBase(off[t] + done[t]))
  /\ \A t \in Threads : pc[t] \in {"copy", "move"} /\ done[t] < len[t] =>
       Covered(PageBase(off[t] + done[t]))
  /\ \A t \in Threads : status[t] # "internal"

(***************************************************************************)
(* The inductive invariant, in parts.                                      *)
(***************************************************************************)
(* Where a request can be, by what it is for; an image is loaded before    *)
(* anybody else has the file.                                              *)
Phases ==
  \A t \in Threads :
    /\ pc[t] = "check" => op[t] \in {"READ", "WRITE"}
    /\ pc[t] = "size" => op[t] \in {"WRITE", "SIZE", "LOAD"}
    /\ pc[t] \in {"copy", "move", "release"} => op[t] \in {"READ", "WRITE", "LOAD"}
    /\ pc[t] # "idle" =>
         IF op[t] = "LOAD"
         THEN file = "loading" /\ \A u \in Threads \ {t} : pc[u] = "idle"
         ELSE file = "open"

(* Where the mappings are: every allocated one has one owner.              *)
Owners ==
  /\ \A t \in Threads : ctx[t].mdl \in mapped \cup {NoMdl}
  /\ latest.mdl \in mapped \cup {NoMdl}
  /\ \A t \in Threads : pc[t] \in {"idle", "check", "size"} => ctx[t].mdl = NoMdl
  /\ \A t, u \in Threads : ctx[t].mdl = ctx[u].mdl => t = u \/ ctx[t].mdl = NoMdl
  /\ \A t \in Threads : ctx[t].mdl = latest.mdl => latest.mdl = NoMdl
  /\ \A m \in mapped : latest.mdl = m \/ \E t \in Threads : ctx[t].mdl = m

Covers == \A base \in 0 .. TotalSize - 1 : Covered(base)

(* The blocks cover the file, and a transfer that has passed the check of  *)
(* its offsets stays within the file.                                      *)
Extent ==
  /\ VirtualSize <= TotalSize
  /\ PageBase(TotalSize) = TotalSize
  /\ Covers
  /\ \A t \in Threads :
       /\ End(t) <= MaxSize
       /\ pc[t] \in {"copy", "move", "release"} => End(t) <= VirtualSize
       /\ pc[t] = "move" =>
            /\ done[t] < len[t]
            /\ Holds(ctx[t], PageBase(off[t] + done[t]))
       /\ status[t] # "internal"

(* The reads that are about to leave their protection behind are within    *)
(* their bound.                                                            *)
PastEnd(t) == pc[t] = "check" /\ op[t] = "READ" /\ off[t] > VirtualSize

Losses ==
  \A t \in Threads : PastEnd(t) =>
    /\ lost < MaxLost
    /\ \A u \in Threads \ {t} : ~PastEnd(u)

IInv == TypeOK /\ Phases /\ ProtectionIsExact /\ Owners /\ Extent /\ Losses

(* A page of the file stays the same page of memory while the file is      *)
(* open: blocks that are added never come before the ones that hold it,    *)
(* and a file that is cut and grown again finds its pages where they were. *)
PageIsWhere(base) ==
  LET b == BlockOf(base) IN <<b.offset, b.count>>

PagesStay ==
  [][file' = file =>
       \A base \in 0 .. TotalSize - 1 : PageIsWhere(base)' = PageIsWhere(base)
    ]_vars
=============================================================================
