------------------------------ MODULE DualCopy ------------------------------
(***************************************************************************)
(* The two-sector record store of the bootloader (boot_journal.c; the slot *)
(* metadata of boot_metadata.c keeps the same discipline).  A record lives *)
(* in two flash sectors.  A commit erases the sector that is NOT the       *)
(* latest, programs the record phrase by phrase with CRC and marker in the *)
(* last phrase, reads it back and only then reports success.  Power may    *)
(* fail between and during any two flash commands, and a command may fail. *)
(*                                                                         *)
(* A sector's bytes are abstracted to how many phrases of which record it  *)
(* holds and whether they are damaged: CRC, marker and the semantic checks *)
(* accept exactly the undamaged, complete record.                          *)
(***************************************************************************)
EXTENDS Integers

CONSTANTS
  Records,   \* payloads callers commit
  NoRecord,  \* payload of a sector in which nothing was programmed
  Empty,     \* what a reader is told of two erased sectors
  Invalid,   \* what a reader is told of sectors it cannot trust
  Half,      \* half the range of the sequence numbers (2^31 in the code)
  Phrases    \* flash phrases per record (16 in the journal, 10 in metadata)

ASSUME RecordsAssumption == {NoRecord, Empty, Invalid} \cap Records = {}
ASSUME HalfAssumption    == Half \in Nat /\ Half >= 2
ASSUME PhrasesAssumption == Phrases \in Nat /\ Phrases >= 1

VARIABLES
  rec,      \* rec[c]: payload of which sector c holds phrases
  seq,      \* seq[c]: sequence number of that record
  count,    \* count[c]: phrases of it already programmed, 0 when erased
  damaged,  \* damaged[c]: the sector was cut or worn and fails its CRC
  pc,       \* where the commit in progress stands
  target,   \* the sector it writes
  next,     \* the record it writes, NoRecord when none
  nextSeq,  \* the sequence number it gives the record
  reply     \* what the caller was told: "none", "ok" or "failed"

flash == <<rec, seq, count, damaged>>
vars  == <<rec, seq, count, damaged, pc, target, next, nextSeq, reply>>

Copies    == {0, 1}
Sequences == 0 .. (2 * Half - 1)

(* Sequence numbers are compared and advanced modulo 2 * Half.             *)
Difference(a, b) == IF a >= b THEN a - b ELSE a - b + 2 * Half

(* Faulty variants: a comparison that ignores the wrap, a counter that     *)
(* leaves its width, one that is never advanced.                           *)
SequenceGreater(a, b) == a > b
SuccessorTooWide(s) == s + 1
SuccessorStuck(s) == s

SequenceNewer(a, b) == Difference(a, b) # 0 /\ Difference(a, b) < Half
Successor(s) == IF s = 2 * Half - 1 THEN 0 ELSE s + 1

(* What validation accepts, and what reads as all 0xFF.                    *)
Valid(c)  == count[c] = Phrases /\ ~damaged[c]
Erased(c) == count[c] = 0 /\ ~damaged[c]

(* The sector a read returns, or 2 when no sector can be trusted.          *)
LatestCopy ==
  IF Valid(0) /\ Valid(1)
  THEN IF SequenceNewer(seq[0], seq[1]) THEN 0
       ELSE IF SequenceNewer(seq[1], seq[0]) THEN 1
       ELSE IF seq[0] = seq[1] /\ rec[0] = rec[1] THEN 0
       ELSE 2
  ELSE IF Valid(0) THEN 0
  ELSE IF Valid(1) THEN 1
  ELSE 2

Status == IF LatestCopy \in Copies THEN "VALID"
          ELSE IF Erased(0) /\ Erased(1) THEN "EMPTY"
          ELSE "INVALID"

(* A device leaves production with blank or with unusable sectors.         *)
Init ==
  /\ rec = [c \in Copies |-> NoRecord]
  /\ seq = [c \in Copies |-> 0]
  /\ count = [c \in Copies |-> 0]
  /\ damaged \in [Copies -> BOOLEAN]
  /\ pc = "idle"
  /\ target = 0
  /\ next = NoRecord
  /\ nextSeq = 0
  /\ reply = "none"

Idle == pc = "idle" /\ next = NoRecord

(* An ordinary commit needs a valid record to follow, an initialising one  *)
(* refuses to replace any.                                                 *)
Admitted(initialize) == (Status = "VALID") # initialize

(* Faulty variant: erases the sector it has just read.                     *)
CommitInPlace(r, initialize) ==
  /\ Idle
  /\ Admitted(initialize)
  /\ target'  = IF Status = "VALID" THEN LatestCopy ELSE 0
  /\ nextSeq' = IF Status = "VALID" THEN Successor(seq[LatestCopy]) ELSE 1
  /\ next' = r
  /\ pc' = "erase"
  /\ reply' = "none"
  /\ UNCHANGED flash

Commit(r, initialize) ==
  /\ Idle
  /\ Admitted(initialize)
  /\ target'  = IF Status = "VALID" THEN 1 - LatestCopy ELSE 0
  /\ nextSeq' = IF Status = "VALID" THEN Successor(seq[LatestCopy]) ELSE 1
  /\ next' = r
  /\ pc' = "erase"
  /\ reply' = "none"
  /\ UNCHANGED flash

Refuse(initialize) ==
  /\ Idle
  /\ ~Admitted(initialize)
  /\ reply' = "failed"
  /\ UNCHANGED <<flash, pc, target, next, nextSeq>>

Finish(answer) ==
  /\ pc' = "idle"
  /\ next' = NoRecord
  /\ target' = 0
  /\ nextSeq' = 0
  /\ reply' = answer

(* What an erase command leaves behind.                                    *)
Wiped ==
  /\ rec' = [rec EXCEPT ![target] = NoRecord]
  /\ seq' = [seq EXCEPT ![target] = 0]
  /\ count' = [count EXCEPT ![target] = 0]
  /\ damaged' = [damaged EXCEPT ![target] = FALSE]

(* What programming the next phrase leaves behind; a worn cell may read    *)
(* back right once and wrong later, which is what the read-back is for.    *)
PhraseWritten(worn) ==
  /\ rec' = [rec EXCEPT ![target] = next]
  /\ seq' = [seq EXCEPT ![target] = nextSeq]
  /\ count' = [count EXCEPT ![target] = @ + 1]
  /\ damaged' = [damaged EXCEPT ![target] = @ \/ worn]

(* A command that was cut or failed leaves the sector damaged.             *)
Spoiled ==
  /\ damaged' = [damaged EXCEPT ![target] = TRUE]
  /\ UNCHANGED <<rec, seq, count>>

Erase ==
  /\ pc = "erase"
  /\ Wiped
  /\ pc' = "program"
  /\ UNCHANGED <<target, next, nextSeq, reply>>

Program ==
  /\ pc = "program"
  /\ \E worn \in BOOLEAN : PhraseWritten(worn)
  /\ pc' = IF count[target] + 1 = Phrases THEN "readback" ELSE "program"
  /\ UNCHANGED <<target, next, nextSeq, reply>>

(* Faulty variant: trusts the flash without reading it back.               *)
ReadbackSkipped ==
  /\ pc = "readback"
  /\ Finish("ok")
  /\ UNCHANGED flash

Readback ==
  /\ pc = "readback"
  /\ Finish(IF Valid(target) /\ rec[target] = next /\ seq[target] = nextSeq
            THEN "ok" ELSE "failed")
  /\ UNCHANGED flash

(* The command in progress ends in any state between untouched and done.   *)
Interrupted(answer) ==
  /\ pc \in {"erase", "program", "readback"}
  /\ \/ UNCHANGED flash
     \/ pc # "readback" /\ Spoiled
     \/ pc = "erase" /\ Wiped
     \/ pc = "program" /\ PhraseWritten(FALSE)
  /\ Finish(answer)

(* The driver reports the command as failed: the commit returns false.     *)
CommandFails == Interrupted("failed")

(* Power is lost: the commit is forgotten, the sectors stay as they are.   *)
PowerLossInCommit == Interrupted("none")

PowerLossAtRest ==
  /\ Idle
  /\ reply' = "none"
  /\ UNCHANGED <<flash, pc, target, next, nextSeq>>

Next ==
  \/ \E r \in Records, initialize \in BOOLEAN : Commit(r, initialize)
  \/ \E initialize \in BOOLEAN : Refuse(initialize)
  \/ Erase
  \/ Program
  \/ Readback
  \/ CommandFails
  \/ PowerLossInCommit
  \/ PowerLossAtRest

Spec == Init /\ [][Next]_vars
-----------------------------------------------------------------------------
(* What a reader of the store gets.                                        *)
Content == IF Status = "VALID" THEN rec[LatestCopy]
           ELSE IF Status = "EMPTY" THEN Empty ELSE Invalid

(* Every variable keeps to its range in every step of a commit: a sequence *)
(* number never leaves its width, no sector takes more phrases than a      *)
(* record has.                                                             *)
TypeOK ==
  /\ rec \in [Copies -> Records \cup {NoRecord}]
  /\ seq \in [Copies -> Sequences]
  /\ count \in [Copies -> 0 .. Phrases]
  /\ damaged \in [Copies -> BOOLEAN]
  /\ pc \in {"idle", "erase", "program", "readback"}
  /\ target \in Copies
  /\ next \in Records \cup {NoRecord}
  /\ nextSeq \in Sequences
  /\ reply \in {"none", "ok", "failed"}

(* Two valid sectors always hold consecutive sequence numbers: the         *)
(* ambiguity BootJournal_LoadLatest guards against never arises, at any    *)
(* wrap of the counter and whatever commits were cut before.               *)
NeverAmbiguous ==
  Valid(0) /\ Valid(1) => \/ Difference(seq[0], seq[1]) = 1
                          \/ Difference(seq[1], seq[0]) = 1

(* A store that can be read stays readable through every step: no erase,   *)
(* failed command or power loss ever takes the only good sector.           *)
ReadableForever == [][Status = "VALID" => (Status = "VALID")']_vars

(* A read returns the old record or the one being committed, nothing else, *)
(* so a record stays until a later commit replaces it.                     *)
ReadsOldOrNew == [][Status = "VALID" => Content' \in {Content, next}]_vars

(* Success is only reported for a record that the next boot will read.     *)
AcknowledgedIsRead == [][reply # "ok" /\ reply' = "ok" => Content' = next]_vars

(* The register a caller sees.                                             *)
Register == INSTANCE AtomicRecord WITH
  value   <- Content,
  pending <- IF next = NoRecord THEN Empty ELSE next

(* Every step of the two-sector commit, its failures and power losses      *)
(* included, is a step of the atomic register or leaves it alone.          *)
ImplementsRegister == Register!Spec
=============================================================================
