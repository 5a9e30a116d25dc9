------------------------------ MODULE SlotLife ------------------------------
(***************************************************************************)
(* What the durable records promise about the life of a device: the update *)
(* journal and the record of each slot change one at a time, each by its   *)
(* own table of transitions, and the step that matters for the other one   *)
(* only when that one is ready.  A reset, a power cut or a failed write is *)
(* no step: it happens before or after.  BootCore implements it.           *)
(***************************************************************************)
EXTENDS Integers

CONSTANTS
  MaxAttempts,  \* starts an image on trial is given
  Versions      \* versions of images

VARIABLES
  update,  \* the update journal, NoUpdate while none can be read
  slot     \* slot[s], the record of slot s, NoRecord while none can be read

Slots == {0, 1}
NOBODY == 2

(* States of an update: those in between are the stages of preparing it.   *)
NONE == -1
IDLE == 0
PREPARING == 1
WAITING == 8
ABORTED == 9

NoUpdate == [state |-> NONE, active |-> NOBODY, target |-> NOBODY, txn |-> 0]
NoRecord == [state |-> "NONE", version |-> 0, counter |-> 0, attempts |-> 0]

New(state, version, counter) ==
  [state |-> state, version |-> version, counter |-> counter, attempts |-> 0]

Bare == \A s \in Slots : slot[s] = NoRecord
In(s, state) == slot[s].state = state

(* A device leaves production without records, with one application, or    *)
(* with an update that firmware without slot records has verified.         *)
Init ==
  \/ update = NoUpdate /\ Bare
  \/ /\ update = [state |-> ABORTED, active |-> 0, target |-> 1, txn |-> 0]
     /\ slot[0] = New("CONFIRMED", 1, 0) /\ slot[1] = NoRecord
  \/ /\ update = [state |-> WAITING, active |-> 0, target |-> 1, txn |-> 1]
     /\ Bare
-----------------------------------------------------------------------------
(* The journal is created once, before any slot has a record.              *)
Create ==
  /\ update = NoUpdate /\ Bare
  /\ \E a \in Slots \cup {NOBODY} : \E t \in Slots \ {a} :
       update' = [state |-> ABORTED, active |-> a, target |-> t, txn |-> 0]

(* An update starts from a confirmed slot, or on a device that has none,   *)
(* and while no image is on trial.                                         *)
Begin ==
  /\ update.state \in {IDLE, WAITING, ABORTED}
  /\ \A s \in Slots : ~In(s, "TRIAL")
  /\ \E a \in Slots \cup {NOBODY} : \E t \in Slots \ {a} :
       /\ IF a = NOBODY THEN Bare ELSE In(a, "CONFIRMED")
       /\ update' = [state |-> PREPARING, active |-> a, target |-> t, txn |-> update.txn + 1]

Advance ==
  /\ update.state \in PREPARING .. WAITING - 1
  /\ update' = [update EXCEPT !.state = @ + 1]

Abort ==
  /\ update.state \in PREPARING .. WAITING
  /\ update' = [update EXCEPT !.state = ABORTED]

(* The journal lets go of an update whose slot record is in place.         *)
LetGo ==
  /\ update.state = WAITING
  /\ In(update.target, "PENDING") /\ slot[update.target].counter = update.txn
  /\ update' = [update EXCEPT !.state = IDLE]
-----------------------------------------------------------------------------
Becomes(s, record) == slot' = [slot EXCEPT ![s] = record]

(* The application that has been running gets its first record.            *)
Adopt(s) ==
  /\ update.state \in {WAITING, ABORTED} /\ s = update.active
  /\ slot[s] = NoRecord
  /\ \E v \in Versions : Becomes(s, New("CONFIRMED", v, update.txn))

(* The journal holds a verified update for slot s, ...                     *)
Held(s) ==
  /\ update.state = WAITING /\ s = update.target
  /\ update.active \in Slots => In(update.active, "CONFIRMED")

(* ... whose record it replaces, whatever it says but a trial, ...         *)
Install(s) ==
  /\ Held(s) /\ ~In(s, "TRIAL")
  /\ \E v \in Versions : Becomes(s, New("VERIFIED", v, update.txn))

(* ... and which it then lets boot.                                        *)
Pend(s) ==
  /\ Held(s) /\ In(s, "VERIFIED") /\ slot[s].counter = update.txn
  /\ Becomes(s, [slot[s] EXCEPT !.state = "PENDING"])

(* An image on trial is the one of the update the journal last let go of.  *)
Tried(s) == update.state = IDLE /\ s = update.target /\ slot[s].counter = update.txn

Start(s) ==
  /\ Tried(s)
  /\ \/ In(s, "PENDING") /\ slot[s].attempts = 0
     \/ In(s, "TRIAL") /\ slot[s].attempts < MaxAttempts
  /\ Becomes(s, [slot[s] EXCEPT !.state = "TRIAL", !.attempts = @ + 1])

Confirm(s) ==
  /\ Tried(s) /\ In(s, "TRIAL")
  /\ Becomes(s, [slot[s] EXCEPT !.state = "CONFIRMED", !.attempts = 0])

(* It is given up when it has had all its starts, and no earlier.          *)
Reject(s) ==
  /\ Tried(s) /\ In(s, "TRIAL") /\ slot[s].attempts = MaxAttempts
  /\ Becomes(s, [slot[s] EXCEPT !.state = "INVALID"])
-----------------------------------------------------------------------------
UpdateStep == Create \/ Begin \/ Advance \/ Abort \/ LetGo
SlotStep(s) == Adopt(s) \/ Install(s) \/ Pend(s) \/ Start(s) \/ Confirm(s) \/ Reject(s)

Next ==
  \/ UpdateStep /\ UNCHANGED slot
  \/ \E s \in Slots : SlotStep(s) /\ UNCHANGED update

Spec == Init /\ [][Next]_<<update, slot>>
=============================================================================
