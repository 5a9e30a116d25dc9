---------------------------- MODULE AtomicRecord ----------------------------
(***************************************************************************)
(* What one durable record store of the bootloader promises its callers:   *)
(* a register that a write replaces in one instant.  The journal has one   *)
(* such register, each slot's metadata another.                            *)
(*                                                                         *)
(* A write is accepted, may take effect at one instant, and ends with an   *)
(* acknowledgement or a refusal; a write that fails or is cut by a power   *)
(* loss may or may not have taken effect.  A register that never held a    *)
(* record may also be left unreadable, one that holds a record never is.   *)
(***************************************************************************)
CONSTANTS
  Records,   \* what callers store
  Empty,     \* content reported for a store that was never written
  Invalid    \* content reported for a store whose copies cannot be trusted

VARIABLES
  value,     \* what the next read of the register returns
  pending,   \* the write in progress, or Empty
  reply      \* what the last caller was told: "none", "ok" or "failed"

vars == <<value, pending, reply>>

Contents == Records \cup {Empty, Invalid}

Init ==
  /\ value \in {Empty, Invalid}
  /\ pending = Empty
  /\ reply = "none"

(* A caller hands over a record: accepted only while nothing is written.   *)
Accept(r) ==
  /\ pending = Empty
  /\ pending' = r
  /\ reply' = "none"
  /\ UNCHANGED value

Refuse ==
  /\ pending = Empty
  /\ reply' = "failed"
  /\ UNCHANGED <<value, pending>>

(* The write reaches the flash without having ended for its caller.        *)
TakeEffect ==
  /\ pending # Empty
  /\ value' = pending
  /\ UNCHANGED <<pending, reply>>

(* A register without a record may change between its two record-less      *)
(* contents while it is written; one that holds a record may not.          *)
Disturb ==
  /\ pending # Empty
  /\ value \in {Empty, Invalid}
  /\ value' \in {Empty, Invalid}
  /\ UNCHANGED <<pending, reply>>

(* The write ends well: its record is what a read returns from then on.    *)
Acknowledge ==
  /\ pending # Empty
  /\ value = pending
  /\ pending' = Empty
  /\ reply' = "ok"
  /\ UNCHANGED value

(* The write ends with an error, or the power fails in its midst.          *)
Fail ==
  /\ pending # Empty
  /\ \/ value' = value
     \/ value' = pending
     \/ value \in {Empty, Invalid} /\ value' \in {Empty, Invalid}
  /\ pending' = Empty
  /\ reply' \in {"none", "failed"}

(* Power lost while nothing is written: the caller's answer is forgotten.  *)
Forget ==
  /\ pending = Empty
  /\ reply' = "none"
  /\ UNCHANGED <<value, pending>>

Next ==
  \/ \E r \in Records : Accept(r)
  \/ Refuse
  \/ TakeEffect
  \/ Disturb
  \/ Acknowledge
  \/ Fail
  \/ Forget

Spec == Init /\ [][Next]_vars
=============================================================================
