----------------------------- MODULE RingBuffer -----------------------------
(***************************************************************************)
(* The storage of a FreeRTOS queue (queue.c): a fixed array, the position  *)
(* that is written next, the position that was read last, and a count.     *)
(* The queues of the application hold items of a fixed size, so positions  *)
(* are counted in items.                                                   *)
(***************************************************************************)
EXTENDS Naturals, Sequences

CONSTANTS
  Length,  \* uxLength
  Values,  \* the items that are sent
  Blank    \* what the array holds before anything is written

ASSUME RingAssumption ==
  /\ Length \in Nat \ {0}
  /\ Blank \notin Values

Slots == 0 .. Length - 1
Rings == [buf : [Slots -> Values \cup {Blank}], writeTo : Slots, readFrom : Slots,
          waiting : 0 .. Length]

(* xQueueGenericReset.                                                     *)
Fresh == [buf |-> [i \in Slots |-> Blank], writeTo |-> 0, readFrom |-> Length - 1,
          waiting |-> 0]

(* One item further; past the tail it is the head again.                   *)
After(i) == IF i + 1 >= Length THEN 0 ELSE i + 1

(* Faulty variant: one item too many is let in.                            *)
HasRoomForOneMore(q) == q.waiting <= Length

HasRoom(q) == q.waiting < Length
HasItem(q) == q.waiting > 0

(* Faulty variant: the copy at the front.                                  *)
PutToFront(q, v) ==
  [q EXCEPT !.buf = [@ EXCEPT ![q.readFrom] = v],
            !.readFrom = IF @ = 0 THEN Length - 1 ELSE @ - 1, !.waiting = @ + 1]

(* prvCopyDataToQueue, queueSEND_TO_BACK.                                  *)
Put(q, v) ==
  [q EXCEPT !.buf = [@ EXCEPT ![q.writeTo] = v], !.writeTo = After(@), !.waiting = @ + 1]

(* prvCopyDataFromQueue: the item, and what is left.                       *)
Oldest(q) == q.buf[After(q.readFrom)]
Taken(q)  == [q EXCEPT !.readFrom = After(@), !.waiting = @ - 1]

(* What a user of the queue sees: its items, the oldest first.             *)
Position(q, i) == IF q.readFrom + i < Length THEN q.readFrom + i ELSE q.readFrom + i - Length
Contents(q)    == [i \in 1 .. q.waiting |-> q.buf[Position(q, i)]]

(* The two positions and the count agree.                                  *)
Aligned(q) == q.writeTo = After(Position(q, q.waiting))
Filled(q)  == \A i \in 1 .. q.waiting : q.buf[Position(q, i)] \in Values
=============================================================================
