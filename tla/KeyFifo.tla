------------------------------ MODULE KeyFifo -------------------------------
(***************************************************************************)
(* What a keyboard promises the guest: key events arrive in the order they *)
(* were made, each once, and reading with none waiting gives the event     *)
(* `none`.  At most Capacity events wait; one more is a failure.           *)
(***************************************************************************)
EXTENDS Naturals, Sequences

CONSTANTS Event, none, Capacity

VARIABLES waiting, got, failed

vars == <<waiting, got, failed>>

Init == waiting = <<>> /\ got = none /\ failed = FALSE

Press(e) == /\ ~failed
            /\ IF Len(waiting) < Capacity
               THEN waiting' = Append(waiting, e) /\ UNCHANGED failed
               ELSE failed' = TRUE /\ UNCHANGED waiting
            /\ UNCHANGED got

Read == /\ ~failed
        /\ got' = IF waiting = <<>> THEN none ELSE Head(waiting)
        /\ waiting' = IF waiting = <<>> THEN waiting ELSE Tail(waiting)
        /\ UNCHANGED failed

Next == (\E e \in Event : Press(e)) \/ Read
Spec == Init /\ [][Next]_vars
=============================================================================
