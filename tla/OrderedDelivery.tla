--------------------------- MODULE OrderedDelivery ---------------------------
(***************************************************************************)
(* What an event stream promises when it may lose events: the receiver     *)
(* gets some of the events, each at most once, never before it was emitted *)
(* and in the order they were emitted.                                     *)
(***************************************************************************)
EXTENDS Naturals, Sequences

VARIABLES
  emitted,  \* how many events were emitted: they are numbered from 1
  got       \* the numbers of the events the receiver has got, in order

vars == <<emitted, got>>

Newest == IF got = <<>> THEN 0 ELSE got[Len(got)]

Init == emitted = 0 /\ got = <<>>

Emit == emitted' = emitted + 1 /\ UNCHANGED got

Deliver ==
  \E n \in (Newest + 1)..emitted : got' = Append(got, n) /\ UNCHANGED emitted

Next == Emit \/ Deliver

Spec == Init /\ [][Next]_vars
=============================================================================
