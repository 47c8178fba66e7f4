---------------------------- MODULE SlotLimiter ----------------------------
(***************************************************************************)
(* What connection_admitter promises its callers, without its locks,       *)
(* atomics or threads: a bounded number of slots, a bounded first-come     *)
(* waiting line in front of them, and a promotion that takes a waiter out  *)
(* of the line and gives it a slot in one indivisible step.                *)
(*                                                                         *)
(* A grant and a promotion test the limit before they take the slot, so    *)
(* the promise is not "at most Slots" but "at most Slots + Slack", where   *)
(* Slack is the number of callers that can be between test and grant.      *)
(***************************************************************************)
EXTENDS Integers, Sequences

CONSTANTS
  Slots,      \* configured number of slots
  Slack,      \* grants that may be in flight past the test
  LineLength, \* places in the waiting line
  Waiter      \* what stands in the line

VARIABLES
  held,       \* slots in use
  line        \* the waiting line, first come first

lvars == <<held, line>>

Init == held = 0 /\ line = <<>>

Grant ==
  /\ held < Slots + Slack
  /\ held' = held + 1
  /\ UNCHANGED line

Wait(w) ==
  /\ Len(line) < LineLength
  /\ line' = Append(line, w)
  /\ UNCHANGED held

Promote ==
  /\ line # <<>>
  /\ held < Slots + Slack
  /\ held' = held + 1
  /\ line' = Tail(line)

\* A release of a slot that nobody holds is ignored, never counted below zero.
Release ==
  /\ held > 0
  /\ held' = held - 1
  /\ UNCHANGED line

\* The oldest n waiters have waited too long.
Expire(n) ==
  /\ line' = SubSeq(line, n + 1, Len(line))
  /\ UNCHANGED held

Next ==
  \/ Grant
  \/ \E w \in Waiter : Wait(w)
  \/ Promote
  \/ Release
  \/ \E n \in 1..Len(line) : Expire(n)

Spec == Init /\ [][Next]_lvars
=============================================================================
