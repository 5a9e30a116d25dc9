--------------------------- MODULE DualCopyProofs ---------------------------
(***************************************************************************)
(* What the two-sector record store guarantees for every set of payloads,  *)
(* every width of the sequence number and every record length.             *)
(*                                                                         *)
(* NeverAmbiguous is not inductive: a commit needs to know which sector it *)
(* spares.  CommitInv says so, and the two facts together are.             *)
(***************************************************************************)
EXTENDS DualCopy, TLAPS

(* The sector a commit does not write.                                     *)
Other == 1 - target

(* A commit in progress writes the sector that is not the latest, under    *)
(* the number that follows the other sector's.                             *)
CommitInv ==
  /\ pc = "idle" <=> next = NoRecord
  /\ \A c \in Copies : Valid(c) => rec[c] \in Records
  /\ pc # "idle" /\ Valid(Other) => Difference(nextSeq, seq[Other]) = 1
  /\ pc = "erase" /\ Valid(target) =>
       /\ Valid(Other)
       /\ Difference(seq[Other], seq[target]) = 1
  /\ pc = "program" => count[target] < Phrases
  /\ pc = "program" /\ count[target] > 0 =>
       rec[target] = next /\ seq[target] = nextSeq
  /\ pc = "readback" =>
       count[target] = Phrases /\ rec[target] = next /\ seq[target] = nextSeq

IInv == TypeOK /\ NeverAmbiguous /\ CommitInv

(* The next sequence number stays in range and is exactly one ahead.       *)
LEMMA SuccessorIsNext ==
  ASSUME NEW s \in Sequences
  PROVE  Successor(s) \in Sequences /\ Difference(Successor(s), s) = 1
  BY HalfAssumption DEF Sequences, Successor, Difference

(* Of two consecutive numbers exactly one is newer, whatever the wrap.     *)
LEMMA NextIsNewer ==
  ASSUME NEW a \in Sequences, NEW b \in Sequences, Difference(a, b) = 1
  PROVE  SequenceNewer(a, b) /\ ~SequenceNewer(b, a)
  BY HalfAssumption DEF Sequences, SequenceNewer, Difference

(* With at most consecutive numbers, a readable sector is always found.    *)
LEMMA ReadableWhenValid ==
  ASSUME TypeOK, NeverAmbiguous
  PROVE  /\ Status = "VALID" <=> Valid(0) \/ Valid(1)
         /\ Status = "VALID" => LatestCopy \in Copies /\ Valid(LatestCopy)
         /\ Valid(0) /\ Valid(1) =>
              \/ LatestCopy = 0 /\ Difference(seq[0], seq[1]) = 1
              \/ LatestCopy = 1 /\ Difference(seq[1], seq[0]) = 1
  <1>1. seq[0] \in Sequences /\ seq[1] \in Sequences
    BY DEF TypeOK, Copies
  <1>2. Valid(0) /\ Valid(1) =>
          \/ SequenceNewer(seq[0], seq[1]) /\ Difference(seq[0], seq[1]) = 1
          \/ /\ SequenceNewer(seq[1], seq[0])
             /\ ~SequenceNewer(seq[0], seq[1])
             /\ Difference(seq[1], seq[0]) = 1
    BY <1>1, NextIsNewer DEF NeverAmbiguous
  <1>3. QED
    BY <1>2 DEF Status, LatestCopy, Copies

LEMMA InitInv == Init => IInv
  BY HalfAssumption, PhrasesAssumption
  DEF Init, IInv, TypeOK, NeverAmbiguous, CommitInv, Valid, Copies, Sequences, Other

(* A commit starts on the sector that is not the latest.                   *)
LEMMA CommitKeepsInv ==
  ASSUME IInv, NEW r \in Records, NEW initialize \in BOOLEAN, Commit(r, initialize)
  PROVE  IInv'
  <1> USE DEF IInv
  <1>1. /\ UNCHANGED flash /\ pc = "idle" /\ pc' = "erase" /\ next' = r
        /\ reply' = "none" /\ r # NoRecord
    BY RecordsAssumption DEF Commit, Idle
  <1>2. CASE Status = "VALID"
    <2> DEFINE l == LatestCopy
    <2>1. l \in Copies /\ Valid(l) /\ target' = 1 - l /\ nextSeq' = Successor(seq[l])
      BY <1>2, ReadableWhenValid DEF Commit
    <2>2. target' \in Copies /\ Other' = l
      BY <2>1 DEF Copies, Other
    <2>3. nextSeq' \in Sequences /\ Difference(nextSeq', seq[l]) = 1
      BY <2>1, SuccessorIsNext DEF TypeOK
    <2>4. Valid(1 - l) => Difference(seq[l], seq[1 - l]) = 1
      BY <1>2, <2>1, ReadableWhenValid DEF Copies
    <2>5. TypeOK' /\ NeverAmbiguous'
      BY <1>1, <2>2, <2>3 DEF TypeOK, NeverAmbiguous, Valid, flash
    <2>6. CommitInv'
      BY <1>1, <2>1, <2>2, <2>3, <2>4 DEF CommitInv, Valid, flash, Copies, Other, TypeOK, Difference
    <2>7. QED BY <2>5, <2>6
  <1>3. CASE Status # "VALID"
    <2>1. ~Valid(0) /\ ~Valid(1) /\ target' = 0 /\ nextSeq' = 1
      BY <1>3, ReadableWhenValid DEF Commit
    <2>2. TypeOK' /\ NeverAmbiguous'
      BY <1>1, <2>1, HalfAssumption DEF TypeOK, NeverAmbiguous, Valid, flash, Copies, Sequences
    <2>3. CommitInv'
      BY <1>1, <2>1 DEF CommitInv, Valid, flash, Copies, Other
    <2>4. QED BY <2>2, <2>3
  <1>4. QED BY <1>2, <1>3

(* Erasing the target leaves only the sector the commit spares.            *)
LEMMA EraseKeepsInv == ASSUME IInv, Erase PROVE IInv'
  <1>1. TypeOK'
    BY HalfAssumption, PhrasesAssumption DEF IInv, TypeOK, Erase, Wiped, Sequences
  <1>2. ~Valid(target)' /\ target' = target /\ Other' = Other /\ target \in Copies
    BY PhrasesAssumption DEF IInv, TypeOK, Erase, Wiped, Valid, Other, Copies
  <1>3. /\ Valid(Other)' <=> Valid(Other)
        /\ seq'[Other] = seq[Other] /\ rec'[Other] = rec[Other]
    BY <1>2 DEF IInv, TypeOK, Erase, Wiped, Valid, Other, Copies
  <1>4. NeverAmbiguous'
    BY <1>2 DEF NeverAmbiguous, Copies
  <1>5. CommitInv'
    BY <1>1, <1>2, <1>3, PhrasesAssumption
    DEF IInv, CommitInv, Erase, Wiped, Copies, Other, TypeOK, Valid
  <1>6. QED BY <1>1, <1>4, <1>5 DEF IInv

(* Programming one phrase touches the target only; the record is complete  *)
(* no earlier than its last phrase, and then one ahead of the other.       *)
LEMMA PhraseKeepsInv ==
  ASSUME IInv, pc = "program", NEW worn \in BOOLEAN, PhraseWritten(worn)
  PROVE  /\ rec' \in [Copies -> Records \cup {NoRecord}]
         /\ seq' \in [Copies -> Sequences]
         /\ count' \in [Copies -> 0 .. Phrases]
         /\ damaged' \in [Copies -> BOOLEAN]
         /\ rec'[target] = next /\ seq'[target] = nextSeq
         /\ count'[target] = count[target] + 1
         /\ rec'[Other] = rec[Other] /\ seq'[Other] = seq[Other]
         /\ count'[Other] = count[Other] /\ damaged'[Other] = damaged[Other]
         /\ NeverAmbiguous'
         /\ \A c \in Copies : Valid(c)' => rec'[c] \in Records
  <1>0. target \in Copies /\ Other \in Copies /\ Other # target /\ Copies = {target, Other}
    BY DEF IInv, TypeOK, Copies, Other
  <1>1. /\ rec' \in [Copies -> Records \cup {NoRecord}]
        /\ seq' \in [Copies -> Sequences]
        /\ damaged' \in [Copies -> BOOLEAN]
        /\ rec'[target] = next /\ seq'[target] = nextSeq
    BY <1>0 DEF IInv, TypeOK, PhraseWritten
  <1>2. count[target] \in 0 .. Phrases /\ count[target] < Phrases
    BY <1>0 DEF IInv, TypeOK, CommitInv
  <1>3. count' \in [Copies -> 0 .. Phrases] /\ count'[target] = count[target] + 1
    BY <1>0, <1>2, PhrasesAssumption DEF IInv, TypeOK, PhraseWritten
  <1>4. /\ rec'[Other] = rec[Other] /\ seq'[Other] = seq[Other]
        /\ count'[Other] = count[Other] /\ damaged'[Other] = damaged[Other]
    BY <1>0 DEF IInv, TypeOK, PhraseWritten
  <1>5. next \in Records
    BY DEF IInv, CommitInv, TypeOK
  <1>6. Valid(Other) => Difference(nextSeq, seq[Other]) = 1
    BY DEF IInv, CommitInv
  <1>7. NeverAmbiguous'
    BY <1>0, <1>1, <1>4, <1>6 DEF NeverAmbiguous, Valid, Copies
  <1>8. \A c \in Copies : Valid(c)' => rec'[c] \in Records
    BY <1>0, <1>1, <1>4, <1>5 DEF Valid, IInv, CommitInv
  <1>9. QED BY <1>1, <1>3, <1>4, <1>7, <1>8

LEMMA ProgramKeepsInv == ASSUME IInv, Program PROVE IInv'
  <1>1. PICK worn \in BOOLEAN : PhraseWritten(worn)
    BY DEF Program
  <1>2. pc = "program" /\ UNCHANGED <<target, next, nextSeq, reply>>
        /\ pc' = IF count[target] + 1 = Phrases THEN "readback" ELSE "program"
    BY DEF Program
  <1>3. TypeOK' /\ NeverAmbiguous'
    BY <1>1, <1>2, PhraseKeepsInv DEF IInv, TypeOK
  <1>4. CommitInv'
    <2>1. count[target] \in 0 .. Phrases /\ count[target] < Phrases /\ next # NoRecord
      BY <1>2 DEF IInv, TypeOK, CommitInv
    <2>2. Valid(Other)' => Difference(nextSeq', seq'[Other']) = 1
      BY <1>1, <1>2, PhraseKeepsInv DEF IInv, CommitInv, Valid, Other
    <2>3. QED
      BY <1>1, <1>2, <2>1, <2>2, PhraseKeepsInv, PhrasesAssumption DEF CommitInv, Other
  <1>5. QED BY <1>3, <1>4 DEF IInv

LEMMA ReadbackKeepsInv == ASSUME IInv, Readback PROVE IInv'
  <1>1. TypeOK' /\ NeverAmbiguous'
    BY HalfAssumption DEF IInv, TypeOK, NeverAmbiguous, Readback, Finish, flash, Valid, Copies, Sequences
  <1>2. CommitInv'
    BY DEF IInv, CommitInv, Readback, Finish, flash, Valid, Copies
  <1>3. QED BY <1>1, <1>2 DEF IInv

(* However a command is cut, the sector the commit spares is untouched.    *)
LEMMA InterruptionKeepsInv ==
  ASSUME IInv, NEW answer \in {"none", "failed"}, Interrupted(answer)
  PROVE  IInv'
  <1>1. Finish(answer) /\ target \in Copies
    BY DEF Interrupted, IInv, TypeOK
  <1>2. /\ rec' \in [Copies -> Records \cup {NoRecord}]
        /\ seq' \in [Copies -> Sequences]
        /\ count' \in [Copies -> 0 .. Phrases]
        /\ damaged' \in [Copies -> BOOLEAN]
        /\ NeverAmbiguous'
        /\ \A c \in Copies : Valid(c)' => rec'[c] \in Records
    <2>1. CASE UNCHANGED flash
      BY <2>1 DEF IInv, TypeOK, NeverAmbiguous, CommitInv, Valid, flash
    <2>2. CASE Spoiled
      BY <2>2, <1>1 DEF IInv, TypeOK, NeverAmbiguous, CommitInv, Valid, Spoiled, Copies
    <2>3. CASE Wiped
      BY <2>3, <1>1, HalfAssumption, PhrasesAssumption
      DEF IInv, TypeOK, NeverAmbiguous, CommitInv, Valid, Wiped, Copies, Sequences
    <2>4. CASE pc = "program" /\ PhraseWritten(FALSE)
      BY <2>4, PhraseKeepsInv
    <2>5. QED BY <2>1, <2>2, <2>3, <2>4 DEF Interrupted
  <1>3. TypeOK'
    BY <1>1, <1>2, HalfAssumption DEF TypeOK, Finish, Copies, Sequences
  <1>4. CommitInv'
    BY <1>1, <1>2 DEF CommitInv, Finish
  <1>5. QED BY <1>2, <1>3, <1>4 DEF IInv

LEMMA StepKeepsInv == IInv /\ [Next]_vars => IInv'
  <1> SUFFICES ASSUME IInv, [Next]_vars PROVE IInv'
    OBVIOUS
  <1>1. ASSUME NEW r \in Records, NEW initialize \in BOOLEAN, Commit(r, initialize)
        PROVE  IInv'
    BY <1>1, CommitKeepsInv
  <1>2. ASSUME NEW initialize \in BOOLEAN, Refuse(initialize) PROVE IInv'
    BY <1>2 DEF Refuse, IInv, TypeOK, NeverAmbiguous, CommitInv, Valid, Other, flash
  <1>3. CASE PowerLossAtRest
    BY <1>3 DEF PowerLossAtRest, IInv, TypeOK, NeverAmbiguous, CommitInv, Valid, Other, flash
  <1>4. CASE UNCHANGED vars
    BY <1>4 DEF vars, IInv, TypeOK, NeverAmbiguous, CommitInv, Valid, Other
  <1>5. QED
    BY <1>1, <1>2, <1>3, <1>4, EraseKeepsInv, ProgramKeepsInv, ReadbackKeepsInv,
       InterruptionKeepsInv DEF Next, CommandFails, PowerLossInCommit

(* The invariant of the store, from which every theorem below follows.     *)
THEOREM Invariance == Spec => []IInv
  BY InitInv, StepKeepsInv, PTL DEF Spec

(* Type correctness of the record store (boot_journal.c:68-91).            *)
THEOREM TypeCorrect == Spec => []TypeOK
  <1>1. IInv => TypeOK
    BY DEF IInv
  <1>2. QED BY <1>1, Invariance, PTL

(* The sequence ambiguity of boot_journal.c:61 is unreachable, for every   *)
(* counter width, payload and power-loss history.                          *)
THEOREM Unambiguous == Spec => []NeverAmbiguous
  <1>1. IInv => NeverAmbiguous
    BY DEF IInv
  <1>2. QED BY <1>1, Invariance, PTL
-----------------------------------------------------------------------------
(* While phrases are missing the target sector is not readable.            *)
LEMMA ProgramIsIncomplete == ASSUME IInv, pc = "program" PROVE ~Valid(target)
  <1>1. count[target] \in 0 .. Phrases /\ count[target] < Phrases
    BY DEF IInv, TypeOK, CommitInv
  <1>2. QED BY <1>1, PhrasesAssumption DEF Valid

(* What a read returns in each stage of a commit.                          *)
LEMMA ContentOfSpared ==
  ASSUME IInv, pc # "idle", Valid(Other), pc = "erase" \/ ~Valid(target)
  PROVE  Status = "VALID" /\ Content = rec[Other]
  <1>1. target \in Copies /\ Other \in Copies /\ Other = 1 - target
    BY DEF IInv, TypeOK, Copies, Other
  <1>2. seq[target] \in Sequences /\ seq[Other] \in Sequences
    BY <1>1 DEF IInv, TypeOK
  <1>3. Valid(target) => SequenceNewer(seq[Other], seq[target]) /\ ~SequenceNewer(seq[target], seq[Other])
    BY <1>2, NextIsNewer DEF IInv, CommitInv
  <1>4. LatestCopy = Other
    BY <1>1, <1>3 DEF LatestCopy, Copies
  <1>5. QED BY <1>1, <1>4 DEF Status, Content

LEMMA ContentOfTarget ==
  ASSUME IInv, pc \in {"program", "readback"}, Valid(target)
  PROVE  Status = "VALID" /\ Content = rec[target] /\ rec[target] = next
  <1>1. target \in Copies /\ Other \in Copies /\ Other = 1 - target
    BY DEF IInv, TypeOK, Copies, Other
  <1>2. pc = "readback" /\ rec[target] = next /\ seq[target] = nextSeq
    BY <1>1, ProgramIsIncomplete DEF IInv, CommitInv
  <1>3. seq[target] \in Sequences /\ seq[Other] \in Sequences
    BY <1>1 DEF IInv, TypeOK
  <1>4. Valid(Other) => SequenceNewer(seq[target], seq[Other]) /\ ~SequenceNewer(seq[Other], seq[target])
    BY <1>2, <1>3, NextIsNewer DEF IInv, CommitInv
  <1>5. LatestCopy = target
    BY <1>1, <1>4 DEF LatestCopy, Copies
  <1>6. QED BY <1>1, <1>2, <1>5 DEF Status, Content

LEMMA NoContent ==
  ASSUME IInv, ~Valid(0), ~Valid(1)
  PROVE  Status # "VALID" /\ Content \in {Empty, Invalid}
  BY DEF LatestCopy, Status, Content, Copies

(* Two states with the same sectors read the same.                         *)
LEMMA SameFlashSameContent ==
  ASSUME UNCHANGED flash PROVE UNCHANGED <<Content, Status>>
  BY DEF flash, Content, Status, LatestCopy, Valid, Erased

(* A phrase that completes the record makes it the one that is read.       *)
LEMMA CompletedIsRead ==
  ASSUME IInv, pc = "program", NEW worn \in BOOLEAN, PhraseWritten(worn)
  PROVE  /\ Valid(target)' /\ target' = target => Status' = "VALID" /\ Content' = next
         /\ Valid(Other) /\ ~(Valid(target)') /\ target' = target
              => Status' = "VALID" /\ Content' = Content
  <1>1. target \in Copies /\ Other \in Copies /\ Other = 1 - target
    BY DEF IInv, TypeOK, Copies, Other
  <1>2. /\ rec'[target] = next /\ seq'[target] = nextSeq
        /\ rec'[Other] = rec[Other] /\ seq'[Other] = seq[Other]
        /\ count'[Other] = count[Other] /\ damaged'[Other] = damaged[Other]
    BY PhraseKeepsInv
  <1>3. nextSeq \in Sequences /\ seq[Other] \in Sequences
    BY <1>1 DEF IInv, TypeOK
  <1>4. Valid(Other) => SequenceNewer(nextSeq, seq[Other]) /\ ~SequenceNewer(seq[Other], nextSeq)
    BY <1>3, NextIsNewer DEF IInv, CommitInv
  <1>5. ASSUME Valid(target)', target' = target
        PROVE  Status' = "VALID" /\ Content' = next
    <2>1. count'[target] = Phrases /\ ~damaged'[target]
      BY <1>5 DEF Valid
    <2>2. LatestCopy' = target
      BY <1>1, <1>2, <1>4, <2>1 DEF LatestCopy, Valid, Copies
    <2>3. QED BY <1>1, <1>2, <2>2 DEF Status, Content
  <1>6. ASSUME Valid(Other), ~(Valid(target)'), target' = target
        PROVE  Status' = "VALID" /\ Content' = Content
    <2>1. ~Valid(target)
      BY ProgramIsIncomplete
    <2>2. Status = "VALID" /\ Content = rec[Other]
      BY <2>1, <1>6, ContentOfSpared
    <2>3. ~(count'[target] = Phrases /\ ~damaged'[target])
      BY <1>6 DEF Valid
    <2>4. LatestCopy' = Other
      BY <1>1, <1>2, <1>6, <2>3 DEF LatestCopy, Valid, Copies
    <2>5. QED BY <1>1, <1>2, <2>2, <2>4 DEF Status, Content
  <1>7. QED BY <1>5, <1>6

(* While it erases or spoils its target, a commit leaves what is read.     *)
LEMMA SparedIsRead ==
  ASSUME IInv, pc = "erase" \/ pc = "program", Wiped \/ Spoiled
  PROVE  \/ Valid(Other) /\ Status = "VALID" /\ Status' = "VALID" /\ Content' = Content
         \/ Status # "VALID" /\ Status' # "VALID"
            /\ Content \in {Empty, Invalid} /\ Content' \in {Empty, Invalid}
  <1>1. target \in Copies /\ Other \in Copies /\ Other = 1 - target
    BY DEF IInv, TypeOK, Copies, Other
  <1>2. /\ rec'[Other] = rec[Other] /\ seq'[Other] = seq[Other]
        /\ count'[Other] = count[Other] /\ damaged'[Other] = damaged[Other]
        /\ ~(count'[target] = Phrases /\ ~damaged'[target])
    BY <1>1, PhrasesAssumption DEF Wiped, Spoiled, IInv, TypeOK
  <1>3. pc = "program" => ~Valid(target)
    BY ProgramIsIncomplete
  <1>4. CASE Valid(Other)
    <2>1. Status = "VALID" /\ Content = rec[Other]
      BY <1>3, <1>4, ContentOfSpared
    <2>2. LatestCopy' = Other
      BY <1>1, <1>2, <1>4 DEF LatestCopy, Valid, Copies
    <2>3. QED BY <1>1, <1>2, <1>4, <2>1, <2>2 DEF Status, Content
  <1>5. CASE ~Valid(Other)
    <2>1. ~Valid(target)
      BY <1>3, <1>5 DEF IInv, CommitInv
    <2>2. Status # "VALID" /\ Content \in {Empty, Invalid}
      BY <1>1, <1>5, <2>1, NoContent DEF Copies
    <2>3. LatestCopy' \notin Copies
      BY <1>1, <1>2, <1>5 DEF LatestCopy, Valid, Copies
    <2>4. QED BY <2>2, <2>3 DEF Status, Content
  <1>6. QED BY <1>4, <1>5

(* One step of the store is one step of the register, or none.             *)
LEMMA StepImplements == IInv /\ [Next]_vars => [Register!Next]_(Register!vars)
  <1> SUFFICES ASSUME IInv, [Next]_vars PROVE [Register!Next]_(Register!vars)
    OBVIOUS
  <1> DEFINE Pending == IF next = NoRecord THEN Empty ELSE next
  <1> USE DEF Register!Next, Register!vars
  <1>0. Empty \notin Records /\ Invalid \notin Records /\ NoRecord \notin Records
    BY RecordsAssumption
  <1>a. pc # "idle" => next \in Records /\ Pending = next /\ Pending # Empty
    BY <1>0 DEF IInv, CommitInv, TypeOK
  <1>1. ASSUME NEW r \in Records, NEW initialize \in BOOLEAN, Commit(r, initialize)
        PROVE  Register!Accept(r)
    <2>1. Pending = Empty /\ Pending' = r /\ reply' = "none"
      BY <1>0, <1>1 DEF Commit, Idle
    <2>2. UNCHANGED Content
      BY <1>1, SameFlashSameContent DEF Commit
    <2>3. QED BY <2>1, <2>2 DEF Register!Accept
  <1>2. ASSUME NEW initialize \in BOOLEAN, Refuse(initialize) PROVE Register!Refuse
    <2>1. UNCHANGED Content
      BY <1>2, SameFlashSameContent DEF Refuse
    <2>2. QED BY <1>2, <2>1 DEF Refuse, Idle, Register!Refuse
  <1>3. CASE Erase
    <2>1. UNCHANGED <<next, reply>> /\ pc = "erase" /\ Wiped
      BY <1>3 DEF Erase
    <2>2. QED BY <1>a, <2>1, SparedIsRead DEF Register!Disturb
  <1>4. CASE Program
    <2>1. UNCHANGED <<target, next, reply>> /\ pc = "program"
      BY <1>4 DEF Program
    <2>2. PICK worn \in BOOLEAN : PhraseWritten(worn)
      BY <1>4 DEF Program
    <2>3. CASE Valid(target)'
      <3>1. Content' = next
        BY <2>1, <2>2, <2>3, CompletedIsRead
      <3>2. QED BY <1>a, <2>1, <3>1 DEF Register!TakeEffect
    <2>4. CASE ~(Valid(target)') /\ Valid(Other)
      BY <2>1, <2>2, <2>4, CompletedIsRead
    <2>5. CASE ~(Valid(target)') /\ ~Valid(Other)
      <3>1. Content \in {Empty, Invalid}
        BY <2>1, <2>5, ProgramIsIncomplete, NoContent DEF IInv, TypeOK, Copies, Other
      <3>2. ~(Valid(0)') /\ ~(Valid(1)')
        BY <2>1, <2>2, <2>5, PhraseKeepsInv DEF IInv, TypeOK, Copies, Other, Valid
      <3>3. Content' \in {Empty, Invalid}
        BY <3>2 DEF Content, Status, LatestCopy, Copies
      <3>4. QED BY <1>a, <2>1, <3>1, <3>3 DEF Register!Disturb
    <2>6. QED BY <2>3, <2>4, <2>5
  <1>5. CASE Readback
    <2>1. pc = "readback" /\ UNCHANGED Content /\ Pending' = Empty
      BY <1>5, SameFlashSameContent DEF Readback, Finish
    <2>2. CASE reply' = "ok"
      <3>1. Valid(target)
        BY <1>5, <2>2 DEF Readback, Finish
      <3>2. Content = next
        BY <2>1, <3>1, ContentOfTarget
      <3>3. QED BY <1>a, <2>1, <2>2, <3>2 DEF Register!Acknowledge
    <2>3. CASE reply' = "failed"
      BY <1>a, <2>1, <2>3 DEF Register!Fail
    <2>4. QED BY <1>5, <2>2, <2>3 DEF Readback, Finish
  <1>6. ASSUME NEW answer \in {"none", "failed"}, Interrupted(answer)
        PROVE  Register!Fail
    <2>1. /\ pc \in {"erase", "program", "readback"} /\ Pending' = Empty
          /\ reply' \in {"none", "failed"}
      BY <1>6 DEF Interrupted, Finish
    <2>2. \/ Content' = Content
          \/ Content' = Pending
          \/ Content \in {Empty, Invalid} /\ Content' \in {Empty, Invalid}
      <3>1. CASE UNCHANGED flash
        BY <3>1, SameFlashSameContent
      <3>2. CASE (pc # "readback" /\ Spoiled) \/ (pc = "erase" /\ Wiped)
        BY <2>1, <3>2, SparedIsRead
      <3>3. CASE pc = "program" /\ PhraseWritten(FALSE)
        <4>1. target \in Copies /\ Copies = {target, Other} /\ pc # "idle"
          BY <3>3 DEF IInv, TypeOK, Copies, Other
        <4>2. CASE count'[target] = Phrases /\ ~damaged'[target]
          <5>1. nextSeq \in Sequences /\ seq[Other] \in Sequences
            BY <4>1 DEF IInv, TypeOK, Copies, Other
          <5>2. Valid(Other) => SequenceNewer(nextSeq, seq[Other]) /\ ~SequenceNewer(seq[Other], nextSeq)
            BY <4>1, <5>1, NextIsNewer DEF IInv, CommitInv
          <5>3. LatestCopy' = target
            BY <3>3, <4>1, <4>2, <5>2, PhraseKeepsInv DEF LatestCopy, Valid, Copies, Other
          <5>4. Content' = next
            BY <3>3, <4>1, <5>3, PhraseKeepsInv DEF Content, Status
          <5>5. QED BY <1>a, <4>1, <5>4
        <4>3. CASE ~(count'[target] = Phrases /\ ~damaged'[target]) /\ Valid(Other)
          <5>1. Content = rec[Other]
            BY <3>3, <4>1, <4>3, ProgramIsIncomplete, ContentOfSpared
          <5>2. LatestCopy' = Other
            BY <3>3, <4>1, <4>3, PhraseKeepsInv DEF LatestCopy, Valid, Copies, Other
          <5>3. QED BY <3>3, <4>1, <5>1, <5>2, PhraseKeepsInv DEF Content, Status
        <4>4. CASE ~(count'[target] = Phrases /\ ~damaged'[target]) /\ ~Valid(Other)
          <5>1. Content \in {Empty, Invalid}
            BY <3>3, <4>1, <4>4, ProgramIsIncomplete, NoContent DEF Copies
          <5>2. ~(count'[Other] = Phrases /\ ~damaged'[Other])
            BY <3>3, <4>4, PhraseKeepsInv DEF Valid
          <5>3. ~(Valid(0)') /\ ~(Valid(1)')
            BY <4>1, <4>4, <5>2 DEF Valid, Copies
          <5>4. LatestCopy' \notin Copies
            BY <5>3 DEF LatestCopy, Copies
          <5>5. QED BY <5>1, <5>4 DEF Content, Status
        <4>5. QED BY <4>2, <4>3, <4>4
      <3>4. QED BY <1>6, <3>1, <3>2, <3>3 DEF Interrupted
    <2>3. QED BY <1>a, <2>1, <2>2 DEF Register!Fail
  <1>7. CASE PowerLossAtRest
    <2>1. UNCHANGED Content
      BY <1>7, SameFlashSameContent DEF PowerLossAtRest
    <2>2. QED BY <1>7, <2>1 DEF PowerLossAtRest, Idle, Register!Forget
  <1>8. CASE UNCHANGED vars
    <2>1. UNCHANGED Content
      BY <1>8, SameFlashSameContent DEF vars, flash
    <2>2. QED BY <1>8, <2>1 DEF vars
  <1>9. QED
    BY <1>1, <1>2, <1>3, <1>4, <1>5, <1>6, <1>7, <1>8
    DEF Next, CommandFails, PowerLossInCommit

LEMMA InitImplements == Init => Register!Init
  <1> SUFFICES ASSUME Init PROVE Register!Init
    OBVIOUS
  <1>1. ~Valid(0) /\ ~Valid(1)
    BY PhrasesAssumption DEF Init, Valid, Copies
  <1>2. QED BY <1>1, InitInv, NoContent DEF Init, Register!Init

(* The two-sector commit of boot_journal.c:68-91 implements the atomic     *)
(* register, whatever commands fail and whenever power is lost.            *)
THEOREM Refinement == Spec => ImplementsRegister
  <1>1. Spec => Register!Spec
    BY InitImplements, StepImplements, Invariance, PTL DEF Spec, Register!Spec
  <1>2. QED BY <1>1 DEF ImplementsRegister

(* What the register promises, read off the refinement: a store that holds *)
(* a record reads as it or as the record being committed, so no power loss *)
(* or failed flash command ever makes a good store unreadable.             *)
LEMMA RegisterKeepsRecords ==
  ASSUME IInv, [Next]_vars, Status = "VALID"
  PROVE  Status' = "VALID" /\ Content' \in {Content, next}
  <1>0. Content \in Records
    BY ReadableWhenValid DEF IInv, CommitInv, Content
  <1>1. Content \notin {Empty, Invalid}
    BY <1>0, RecordsAssumption
  <1>2. IInv'
    BY StepKeepsInv
  <1>3. [Register!Next]_(Register!vars)
    BY StepImplements
  <1>4. Content' \in {Content, next}
    BY <1>1, <1>3
    DEF Register!Next, Register!vars, Register!Accept, Register!Refuse, Register!TakeEffect,
        Register!Disturb, Register!Acknowledge, Register!Fail, Register!Forget
  <1>5. next \in Records \cup {NoRecord} /\ NoRecord \notin Records
    BY RecordsAssumption DEF IInv, TypeOK
  <1>6. Content' \in Records
    BY <1>0, <1>1, <1>3, <1>4, <1>5
    DEF Register!Next, Register!vars, Register!Accept, Register!Refuse, Register!TakeEffect,
        Register!Disturb, Register!Acknowledge, Register!Fail, Register!Forget
  <1>7. Status' = "VALID"
    BY <1>6, RecordsAssumption DEF Content, Status
  <1>8. QED BY <1>4, <1>7

(* No step makes a readable store unreadable (boot_journal.c:75-89).       *)
THEOREM AlwaysReadable == Spec => ReadableForever
  <1>1. IInv /\ [Next]_vars => [Status = "VALID" => (Status = "VALID")']_vars
    BY RegisterKeepsRecords
  <1>2. QED BY <1>1, Invariance, PTL DEF Spec, ReadableForever

(* A read never returns anything but the last record or the one being      *)
(* committed (boot_journal.c:44-67).                                       *)
THEOREM OldOrNew == Spec => ReadsOldOrNew
  <1>1. IInv /\ [Next]_vars => [Status = "VALID" => Content' \in {Content, next}]_vars
    BY RegisterKeepsRecords
  <1>2. QED BY <1>1, Invariance, PTL DEF Spec, ReadsOldOrNew

(* A commit that reports success is what the next boot reads               *)
(* (boot_journal.c:87-90).                                                 *)
THEOREM Acknowledged == Spec => AcknowledgedIsRead
  <1>1. ASSUME IInv, Next, reply # "ok", reply' = "ok"
        PROVE  Content' = next
    <2>1. Readback
      BY <1>1 DEF Next, Commit, Refuse, Erase, Program, CommandFails, PowerLossInCommit,
                  Interrupted, Finish, PowerLossAtRest
    <2>2. pc = "readback" /\ Valid(target) /\ UNCHANGED Content
      BY <1>1, <2>1, SameFlashSameContent DEF Readback, Finish
    <2>3. QED BY <1>1, <2>2, ContentOfTarget
  <1>2. IInv /\ [Next]_vars => [reply # "ok" /\ reply' = "ok" => Content' = next]_vars
    BY <1>1
  <1>3. QED BY <1>2, Invariance, PTL DEF Spec, AcknowledgedIsRead
=============================================================================
