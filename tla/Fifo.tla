-------------------------------- MODULE Fifo --------------------------------
(***************************************************************************)
(* What a queue promises its users: a first-in-first-out sequence of at    *)
(* most Length items.                                                      *)
(***************************************************************************)
EXTENDS Naturals, Sequences

CONSTANTS Length, Values
VARIABLE items

Init == items = << >>
Send(v) == Len(items) < Length /\ items' = Append(items, v)
Receive == items # << >> /\ items' = Tail(items)
Next == (\E v \in Values : Send(v)) \/ Receive
Spec == Init /\ [][Next]_items
=============================================================================
