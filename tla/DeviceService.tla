--------------------------- MODULE DeviceService ---------------------------
(***************************************************************************)
(* What a virtual disk promises the clients whose requests it has queued:  *)
(* they are served one at a time in the order they were queued, each is    *)
(* answered once, and the disk goes away only after it was asked to and    *)
(* with no request left unanswered.                                        *)
(***************************************************************************)
EXTENDS Sequences

CONSTANT Irps

VARIABLES
  pending,   \* accepted and not yet answered, oldest first
  state      \* "live", then "removing", then "gone"

vars == <<pending, state>>

Init == pending = <<>> /\ state = "live"

Accept(i) ==
  /\ state # "gone"
  /\ \A n \in DOMAIN pending : pending[n] # i
  /\ pending' = Append(pending, i)
  /\ UNCHANGED state

(* A request may fail in such a way that the disk removes itself.           *)
Answer ==
  /\ pending # <<>>
  /\ pending' = Tail(pending)
  /\ state' = state \/ state' = "removing"

Remove == state = "live" /\ state' = "removing" /\ UNCHANGED pending

Vanish ==
  /\ state = "removing"
  /\ pending = <<>>
  /\ state' = "gone"
  /\ UNCHANGED pending

Next == (\E i \in Irps : Accept(i)) \/ Answer \/ Remove \/ Vanish

Spec == Init /\ [][Next]_vars /\ WF_vars(Answer)
=============================================================================
