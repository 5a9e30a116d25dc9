--------------------------- MODULE BootCoreProofs ---------------------------
(***************************************************************************)
(* Type correctness of BootCore, the bound on the starts of an unconfirmed *)
(* image, and the hand-over from journal to metadata, for any number of    *)
(* attempts, versions, transactions and faults.                            *)
(***************************************************************************)
EXTENDS BootCore, TLAPS

(* Parts of TypeOK that several actions disturb together.                  *)
Metadata == [Slots -> Metas]
Contents == [Slots -> [payload : Payloads, header : Payloads]]

LEMMA NoRecords ==
  /\ NoJournal \in Journals /\ BadJournal \in Journals
  /\ NoMeta \in Metas /\ BadMeta \in Metas
  /\ NoActive \in [slot : Slots \cup {UNKNOWN}, version : Payloads]
  /\ NoRequest \in [kind : {"none", "confirm", "program"}, slot : Slots]
  <1>1. NoJournal \in Journals
    BY DEF NoJournal, Journals, Payloads, Slots, UNKNOWN, IDLE, ABORTED
  <1>2. BadJournal \in Journals
    BY <1>1 DEF BadJournal, Journals
  <1>3. NoMeta \in Metas
    BY MaxAttemptsAssumption DEF NoMeta, Metas, Payloads
  <1>4. BadMeta \in Metas
    BY <1>3 DEF BadMeta, Metas
  <1>5. NoActive \in [slot : Slots \cup {UNKNOWN}, version : Payloads]
    BY DEF NoActive, Payloads
  <1>6. NoRequest \in [kind : {"none", "confirm", "program"}, slot : Slots]
    BY DEF NoRequest, Slots
  <1>7. QED BY <1>1, <1>2, <1>3, <1>4, <1>5, <1>6

LEMMA UpdateType ==
  ASSUME TypeOK, NEW state \in IDLE .. ABORTED
  PROVE  Update(state) \in Journals
  <1>1. jr \in Journals
    BY DEF TypeOK
  <1>2. QED BY <1>1 DEF Update, Journals

LEMMA AbortedType == TypeOK => Aborted \in Journals
  <1> SUFFICES ASSUME TypeOK PROVE Aborted \in Journals
    OBVIOUS
  <1>1. Update(ABORTED) \in Journals
    BY UpdateType DEF IDLE, ABORTED
  <1>2. QED BY <1>1 DEF Aborted, Journals

LEMMA ImageType == ASSUME TypeOK, NEW s \in Slots PROVE Image(s) \in Payloads
  BY DEF TypeOK, Image, Payloads

LEMMA DisturbType == TypeOK /\ Disturb => budget' \in 0 .. MaxFaults
  BY BoundsAssumption DEF TypeOK, Disturb

(* A journal commit, failed or not, keeps every store to its range.        *)
LEMMA SaveType ==
  ASSUME TypeOK, NEW next \in Journals, Saved(next) \/ SaveFails(next)
  PROVE  /\ journal' \in Journals /\ jr' \in Journals
         /\ meta' \in Metadata /\ flash' \in Contents
         /\ jfault' \in BOOLEAN /\ budget' \in 0 .. MaxFaults
  BY DisturbType DEF TypeOK, Saved, SaveFails, Metadata, Contents

(* So does a metadata commit; a slot that is none is left alone.           *)
LEMMA CommitType ==
  ASSUME TypeOK, NEW s, NEW next, s \in Slots => next \in Metas,
         Committed(s, next) \/ CommitFails(s, next)
  PROVE  /\ meta' \in Metadata
         /\ journal' \in Journals /\ flash' \in Contents
         /\ lfault' \in BOOLEAN /\ budget' \in 0 .. MaxFaults
  <1>1. meta' \in Metadata
    <2>1. CASE Committed(s, next)
      BY <2>1 DEF TypeOK, Committed, Metadata
    <2>2. CASE CommitFails(s, next)
      <3>1. PICK left \in {meta[s], next, NoMeta, BadMeta} : meta' = [meta EXCEPT ![s] = left]
        BY <2>2 DEF CommitFails
      <3>2. s \in Slots => left \in Metas
        BY <3>1, NoRecords DEF TypeOK
      <3>3. QED BY <3>1, <3>2 DEF TypeOK, Metadata
    <2>3. QED BY <2>1, <2>2
  <1>2. QED
    BY <1>1, DisturbType DEF TypeOK, Committed, CommitFails, Contents

(* All but the stores have one initial value.                              *)
LEMMA InitRest ==
  ASSUME Init, journal \in Journals, meta \in Metadata, flash \in Contents
  PROVE  TypeOK
  <1>1. /\ jr \in Journals
        /\ active \in [slot : Slots \cup {UNKNOWN}, version : Payloads]
        /\ req \in [kind : {"none", "confirm", "program"}, slot : Slots]
    BY NoRecords DEF Init
  <1>2. staged \in Payloads /\ running \in Slots \cup {UNKNOWN}
    BY DEF Init, Payloads
  <1>3. vouched \subseteq Slots /\ trials \in [Slots -> Nat]
    BY DEF Init
  <1>4. budget \in 0 .. MaxFaults
    BY BoundsAssumption DEF Init
  <1>5. /\ pc = "recover" /\ mode = "boot" /\ ctx = "none"
        /\ sw \in BOOLEAN /\ jfault \in BOOLEAN /\ reval \in BOOLEAN /\ lfault \in BOOLEAN
    BY DEF Init
  <1>6. QED BY <1>1, <1>2, <1>3, <1>4, <1>5 DEF TypeOK, Metadata, Contents

LEMMA InitType == Init => TypeOK
  <1> SUFFICES ASSUME Init PROVE TypeOK
    OBVIOUS
  <1>1. CASE Factory
    <2>1. journal \in Journals /\ meta \in Metadata
      BY <1>1, NoRecords DEF Factory, Metadata
    <2>2. \A v \in {0, 1} : Whole(v) \in [payload : Payloads, header : Payloads]
      BY VersionsAssumption DEF Whole, Payloads
    <2>3. flash \in Contents
      BY <1>1, <2>2 DEF Factory, Contents
    <2>4. QED BY <2>1, <2>3, InitRest
  <1>2. CASE Commissioned
    <2>1. journal \in Journals
      <3>1. journal = [status |-> "VALID", state |-> ABORTED, active |-> 0, target |-> 1,
                       txn |-> 0, commissioned |-> TRUE, header |-> 0]
        BY <1>2 DEF Commissioned, NoJournal
      <3>2. QED BY <3>1 DEF Journals, Slots, Payloads, IDLE, ABORTED
    <2>2. Record("CONFIRMED", 1, 0, 0) \in Metas
      BY MaxAttemptsAssumption, VersionsAssumption DEF Record, Metas, Payloads
    <2>3. meta \in Metadata
      BY <1>2, <2>2, NoRecords DEF Commissioned, Metadata
    <2>4. \A v \in {0, 1} : Whole(v) \in [payload : Payloads, header : Payloads]
      BY VersionsAssumption DEF Whole, Payloads
    <2>5. flash \in Contents
      BY <1>2, <2>4 DEF Commissioned, Contents
    <2>6. QED BY <2>1, <2>3, <2>5, InitRest
  <1>3. CASE Migrated
    <2>1. PICK v \in Versions \ {1} :
            /\ journal = [NoJournal EXCEPT !.status = "VALID", !.active = 0, !.target = 1,
                            !.state = PENDING_ACTIVATION, !.txn = 1, !.header = v]
            /\ meta = [s \in Slots |-> NoMeta]
            /\ flash = [s \in Slots |-> Whole(IF s = 0 THEN 1 ELSE v)]
      BY <1>3 DEF Migrated
    <2>2. journal \in Journals
      <3>1. journal = [status |-> "VALID", state |-> PENDING_ACTIVATION, active |-> 0,
                       target |-> 1, txn |-> 1, commissioned |-> FALSE, header |-> v]
        BY <2>1 DEF NoJournal
      <3>2. QED BY <3>1 DEF Journals, Slots, Payloads, IDLE, ABORTED, PENDING_ACTIVATION
    <2>3. meta \in Metadata
      BY <2>1, NoRecords DEF Metadata
    <2>4. \A w \in {1, v} : Whole(w) \in [payload : Payloads, header : Payloads]
      BY VersionsAssumption DEF Whole, Payloads
    <2>5. flash \in Contents
      BY <2>1, <2>4 DEF Contents
    <2>6. QED BY <2>2, <2>3, <2>5, InitRest
  <1>4. QED BY <1>1, <1>2, <1>3 DEF Init

LEMMA TargetType == TypeOK => Target \in Slots
  BY DEF TypeOK, Target, Slots, UNKNOWN

LEMMA SelectType == SelectBootTarget \in Slots \cup {UNKNOWN}
  BY DEF SelectBootTarget, Select, Slots

LEMMA CapturedType ==
  ASSUME TypeOK, NEW software \in BOOLEAN
  PROVE  Captured(software) \in [slot : Slots \cup {UNKNOWN}, version : Payloads]
  <1> DEFINE chosen == IF SelectBootTarget = UNKNOWN /\ jr.status = "VALID"
                       THEN jr.active ELSE SelectBootTarget
             slot   == IF software /\ Info[req.slot] # 0 THEN req.slot ELSE chosen
  <1>1. chosen \in Slots \cup {UNKNOWN}
    BY SelectType DEF TypeOK, Journals
  <1>2. slot \in Slots \cup {UNKNOWN}
    BY <1>1 DEF TypeOK
  <1>3. \A s \in Slots : Info[s] \in Payloads
    BY ImageType DEF Info, Payloads
  <1>4. (IF slot \in Slots THEN Info[slot] ELSE 0) \in Payloads
    BY <1>3 DEF Payloads
  <1>5. QED BY <1>2, <1>4 DEF Captured

(* An attempt keeps within the limit, as no used-up trial is attempted.    *)
LEMMA AttemptType ==
  ASSUME NEW m \in Metas, ~UsedUp(m)
  PROVE  Attempt(m) \in Metas
  <1>1. CASE m.state = "PENDING"
    <2>1. [m EXCEPT !.state = "TRIAL"] \in Metas
      BY DEF Metas
    <2>2. Attempt(m) = [[m EXCEPT !.state = "TRIAL"] EXCEPT !.attempts = 1]
      BY <1>1 DEF Attempt
    <2>3. 1 \in 0 .. MaxAttempts
      BY MaxAttemptsAssumption
    <2>4. QED BY <2>1, <2>2, <2>3 DEF Metas
  <1>2. CASE m.state = "TRIAL"
    <2>1. m.attempts + 1 \in 0 .. MaxAttempts
      BY <1>2, MaxAttemptsAssumption DEF UsedUp, Metas
    <2>2. Attempt(m) = [m EXCEPT !.attempts = m.attempts + 1]
      BY <1>2 DEF Attempt
    <2>3. QED BY <2>1, <2>2 DEF Metas
  <1>3. CASE m.state \notin {"PENDING", "TRIAL"}
    BY <1>3 DEF Attempt
  <1>4. QED BY <1>1, <1>2, <1>3

LEMMA ResetType ==
  ASSUME TypeOK, NEW software \in BOOLEAN, Reset(software),
         req' \in [kind : {"none", "confirm", "program"}, slot : Slots],
         vouched' \subseteq Slots, budget' \in 0 .. MaxFaults
  PROVE  TypeOK'
  <1>1. /\ NoJournal \in Journals
        /\ NoActive \in [slot : Slots \cup {UNKNOWN}, version : Payloads]
    BY NoRecords
  <1>2. 0 \in Payloads /\ UNKNOWN \in Slots \cup {UNKNOWN}
    BY DEF Payloads
  <1>3. QED BY <1>1, <1>2 DEF TypeOK, Reset, ClearRam, durable, history

(* Two steps work on a slot the program has found: the first record goes   *)
(* to the journal's active slot, and only a slot is ever started.          *)
Located ==
  /\ pc = "initialize" => jr.active \in Slots
  /\ pc \in {"jump", "launch", "app"} => running \in Slots

LEMMA BootType ==
  ASSUME TypeOK, Located, Boot
  PROVE  TypeOK'
  <1>1. CASE Recover
    BY <1>1, NoRecords DEF TypeOK, Recover, durable, history
  <1>2. CASE AbortUpdate
    <2>1. Saved(Aborted) \/ SaveFails(Aborted)
      BY <1>2 DEF AbortUpdate
    <2>2. /\ journal' \in Journals /\ jr' \in Journals
          /\ meta' \in Metadata /\ flash' \in Contents
          /\ jfault' \in BOOLEAN /\ budget' \in 0 .. MaxFaults
      BY <2>1, AbortedType, SaveType
    <2>3. QED
      BY <1>2, <2>2 DEF AbortUpdate, TypeOK, history, Metadata, Contents
  <1>3. CASE RecoverVerifying
    <2>1. Update(VERIFYING) \in Journals
      BY UpdateType DEF IDLE, VERIFYING, ABORTED
    <2>2. Saved(Update(VERIFYING)) \/ SaveFails(Update(VERIFYING))
      BY <1>3 DEF RecoverVerifying
    <2>3. QED
      BY <1>3, <2>1, <2>2, SaveType
      DEF RecoverVerifying, TypeOK, history, Metadata, Contents
  <1>4. CASE Publish
    <2>1. /\ jr.header \in Payloads /\ 0 \in Payloads
          /\ jr.target \in Slots => flash[jr.target].header \in Payloads
      BY DEF TypeOK, Journals, Payloads
    <2>2. flash' \in Contents /\ budget' \in 0 .. MaxFaults
      BY <1>4, <2>1, DisturbType DEF Publish, Publishable, TypeOK, Contents
    <2>3. pc' \in {"lifecycle", "mark", "abort"} /\ reval' \in BOOLEAN
      BY <1>4 DEF Publish, Published, TypeOK
    <2>4. QED BY <1>4, <2>2, <2>3 DEF Publish, TypeOK, history, Contents
  <1>5. CASE MarkVerified
    <2> DEFINE next == IF jr.state = VERIFYING THEN Update(VERIFIED)
                                               ELSE Update(PENDING_ACTIVATION)
    <2>1. next \in Journals
      BY UpdateType DEF IDLE, VERIFIED, PENDING_ACTIVATION, ABORTED
    <2>2. Saved(next) \/ SaveFails(next)
      BY <1>5 DEF MarkVerified
    <2>3. /\ pc' \in {"mark", "lifecycle", "prog"}
          /\ reval' \in BOOLEAN /\ ctx' \in {ctx, "verified"}
      BY <1>5 DEF MarkVerified, TypeOK
    <2> HIDE DEF next
    <2>4. QED
      BY <1>5, <2>1, <2>2, <2>3, SaveType
      DEF MarkVerified, TypeOK, history, Metadata, Contents
  <1>6. CASE Reconcile
    BY <1>6 DEF Reconcile, TypeOK, JournalUnusable, ImageLost, NoFallback, Pending, Has,
                Failed, Handover, durable, history
  <1>7. CASE InitializeConfirmed
    <2> DEFINE next == Record("CONFIRMED", Image(jr.active), jr.txn, 0)
    <2>1. jr.active \in Slots => next \in Metas
      BY ImageType, MaxAttemptsAssumption DEF TypeOK, Journals, Record, Metas
    <2>2. Committed(jr.active, next) \/ CommitFails(jr.active, next)
      BY <1>7 DEF InitializeConfirmed
    <2>3. pc' \in {"handoff", "install", "resolve", "check", "prog"}
      BY <1>7 DEF InitializeConfirmed, Handover, Failed
    <2>4. vouched' \in {vouched, vouched \cup {jr.active}}
      BY <1>7 DEF InitializeConfirmed
    <2>5. vouched' \subseteq Slots
      BY <1>7, <2>4 DEF InitializeConfirmed, Located, TypeOK
    <2> HIDE DEF next
    <2>6. QED
      BY <1>7, <2>1, <2>2, <2>3, <2>5, CommitType
      DEF InitializeConfirmed, TypeOK, Metadata, Contents
  <1>8. CASE InstallVerified
    <2> DEFINE next == Record("VERIFIED", Image(jr.target), jr.txn, 0)
    <2>1. jr.target \in Slots => next \in Metas
      BY ImageType, MaxAttemptsAssumption DEF TypeOK, Journals, Record, Metas
    <2>2. Committed(jr.target, next) \/ CommitFails(jr.target, next)
      BY <1>8 DEF InstallVerified
    <2>3. pc' \in {"pend", "check", "prog"}
      BY <1>8 DEF InstallVerified, Failed
    <2> HIDE DEF next
    <2>4. QED
      BY <1>8, <2>1, <2>2, <2>3, CommitType
      DEF InstallVerified, TypeOK, history, Metadata, Contents
  <1>9. CASE SetPending
    <2> DEFINE next == [meta[jr.target] EXCEPT !.state = "PENDING"]
    <2>1. jr.target \in Slots => next \in Metas
      <3> SUFFICES ASSUME jr.target \in Slots PROVE next \in Metas
        OBVIOUS
      <3>1. meta[jr.target] \in Metas
        BY DEF TypeOK
      <3>2. QED BY <3>1 DEF Metas
    <2>2. Committed(jr.target, next) \/ CommitFails(jr.target, next)
      BY <1>9 DEF SetPending
    <2>3. pc' \in {"handoff", "check", "prog"}
      BY <1>9 DEF SetPending, Failed
    <2>4. trials' \in [Slots -> Nat]
      BY <1>9 DEF SetPending, TypeOK
    <2> HIDE DEF next
    <2>5. QED
      BY <1>9, <2>1, <2>2, <2>3, <2>4, CommitType
      DEF SetPending, TypeOK, Metadata, Contents
  <1>10. CASE CompleteHandoff
    <2>1. Update(IDLE) \in Journals
      BY UpdateType DEF IDLE, ABORTED
    <2>2. Saved(Update(IDLE)) \/ SaveFails(Update(IDLE))
      BY <1>10 DEF CompleteHandoff
    <2>3. pc' \in {"resolve", "check", "prog"} /\ lfault' \in BOOLEAN
      BY <1>10 DEF CompleteHandoff, Failed, TypeOK
    <2>4. QED
      BY <1>10, <2>1, <2>2, <2>3, SaveType
      DEF CompleteHandoff, TypeOK, history, Metadata, Contents
  <1>11. CASE \E s \in Slots : ResolveExhausted(s)
    <2>1. PICK s \in Slots : ResolveExhausted(s)
      BY <1>11
    <2> DEFINE next == [meta[s] EXCEPT !.state = "INVALID"]
    <2>2. next \in Metas
      <3>1. meta[s] \in Metas
        BY DEF TypeOK
      <3>2. QED BY <3>1 DEF Metas
    <2>3. Committed(s, next) \/ CommitFails(s, next)
      BY <2>1 DEF ResolveExhausted
    <2>4. pc' \in {"resolve", "check", "prog"}
      BY <2>1 DEF ResolveExhausted, Failed
    <2> HIDE DEF next
    <2>5. QED
      BY <2>1, <2>2, <2>3, <2>4, CommitType
      DEF ResolveExhausted, TypeOK, history, Metadata, Contents
  <1>12. CASE EndLifecycle
    <2>1. pc' \in {"check", "prog", "refresh"} /\ lfault' \in BOOLEAN
      BY <1>12 DEF EndLifecycle, Failed, Done, TypeOK
    <2>2. QED BY <1>12, <2>1 DEF EndLifecycle, TypeOK, durable, history
  <1>13. CASE CheckConfirm
    <2> DEFINE next == [meta[req.slot] EXCEPT !.state = "CONFIRMED", !.attempts = 0]
    <2>1. req.slot \in Slots /\ next \in Metas
      <3>1. req.slot \in Slots
        BY DEF TypeOK
      <3>2. meta[req.slot] \in Metas
        BY <3>1 DEF TypeOK
      <3>3. [meta[req.slot] EXCEPT !.state = "CONFIRMED"] \in Metas
        BY <3>2 DEF Metas
      <3>4. next = [[meta[req.slot] EXCEPT !.state = "CONFIRMED"] EXCEPT !.attempts = 0]
        OBVIOUS
      <3>5. 0 \in 0 .. MaxAttempts
        BY MaxAttemptsAssumption
      <3>6. QED BY <3>1, <3>3, <3>4, <3>5 DEF Metas
    <2>2. \/ Committed(req.slot, next) \/ CommitFails(req.slot, next)
          \/ UNCHANGED <<durable, lfault, budget>>
      BY <1>13 DEF CheckConfirm
    <2>3. /\ meta' \in Metadata /\ journal' \in Journals /\ flash' \in Contents
          /\ lfault' \in BOOLEAN /\ budget' \in 0 .. MaxFaults
      <3> HIDE DEF next
      <3>1. CASE UNCHANGED <<durable, lfault, budget>>
        BY <3>1 DEF TypeOK, Metadata, Contents, durable
      <3>2. CASE Committed(req.slot, next) \/ CommitFails(req.slot, next)
        BY <3>2, <2>1, CommitType
      <3>3. QED BY <2>2, <3>1, <3>2
    <2> HIDE DEF next
    <2>4. QED
      BY <1>13, <2>3, NoRecords DEF CheckConfirm, TypeOK, history, Metadata, Contents
  <1>14. CASE CheckRequest
    <2>1. active' \in [slot : Slots \cup {UNKNOWN}, version : Payloads]
      BY <1>14, CapturedType DEF CheckRequest, Requested, TypeOK
    <2>2. QED
      BY <1>14, <2>1, NoRecords DEF CheckRequest, TypeOK, durable, history
  <1>15. CASE CheckApp
    BY <1>15, SelectType DEF CheckApp, TypeOK, durable, history
  <1>16. CASE Normalize
    <2>1. Reset(TRUE) /\ req' = NoRequest
      BY <1>16 DEF Normalize
    <2>2. vouched' \subseteq Slots /\ budget' \in 0 .. MaxFaults
      BY <1>16 DEF Normalize, Reset, TypeOK, history
    <2>3. QED BY <2>1, <2>2, ResetType, NoRecords
  <1>17. CASE PrepareBoot
    <2>1. running \in Slots
      BY <1>17 DEF PrepareBoot, Located
    <2>2. meta[running] \in Metas
      BY <2>1 DEF TypeOK
    <2> DEFINE next == Attempt(meta[running])
    <2>3. /\ pc' \in {"launch", "error"}
          /\ \/ ~UsedUp(meta[running]) /\ Committed(running, next)
             \/ ~UsedUp(meta[running]) /\ CommitFails(running, next)
             \/ UNCHANGED <<durable, budget>> /\ lfault' \in BOOLEAN
      BY <1>17 DEF PrepareBoot, TypeOK, UsedUp
    <2> HIDE DEF next
    <2>4. /\ meta' \in Metadata /\ journal' \in Journals /\ flash' \in Contents
          /\ lfault' \in BOOLEAN /\ budget' \in 0 .. MaxFaults
      <3>1. CASE UNCHANGED <<durable, budget>> /\ lfault' \in BOOLEAN
        BY <3>1 DEF TypeOK, Metadata, Contents, durable
      <3>2. CASE /\ ~UsedUp(meta[running])
                 /\ Committed(running, next) \/ CommitFails(running, next)
        <4>1. next \in Metas
          BY <2>2, <3>2, AttemptType DEF next
        <4>2. QED BY <3>2, <4>1, CommitType
      <3>3. QED BY <2>3, <3>1, <3>2
    <2>5. QED BY <1>17, <2>3, <2>4 DEF PrepareBoot, TypeOK, history, Metadata, Contents
  <1>18. CASE Launch
    <2>1. running \in Slots
      BY <1>18 DEF Launch, Located
    <2>2. trials' \in [Slots -> Nat]
      BY <1>18, <2>1 DEF Launch, TypeOK
    <2>3. QED BY <1>18, <2>2, NoRecords DEF Launch, TypeOK, durable
  <1>19. QED
    BY <1>1, <1>2, <1>3, <1>4, <1>5, <1>6, <1>7, <1>8, <1>9, <1>10, <1>11, <1>12, <1>13,
       <1>14, <1>15, <1>16, <1>17, <1>18 DEF Boot

LEMMA ApplicationType ==
  ASSUME TypeOK, Located, Application
  PROVE  TypeOK'
  <1> DEFINE Requests == [kind : {"none", "confirm", "program"}, slot : Slots]
  <1>1. CASE AppConfirm
    <2>1. running \in Slots
      BY <1>1 DEF AppConfirm, Located
    <2>2. req' \in Requests /\ vouched' \subseteq Slots
      BY <1>1, <2>1 DEF AppConfirm, TypeOK
    <2>3. /\ NoJournal \in Journals
          /\ NoActive \in [slot : Slots \cup {UNKNOWN}, version : Payloads]
      BY NoRecords
    <2>4. 0 \in Payloads /\ UNKNOWN \in Slots \cup {UNKNOWN}
      BY DEF Payloads
    <2>5. QED BY <1>1, <2>2, <2>3, <2>4 DEF AppConfirm, ClearRam, TypeOK, durable
  <1>2. CASE AppRequestProgramming
    <2>1. running \in Slots
      BY <1>2 DEF AppRequestProgramming, Located
    <2>2. req' \in Requests
      BY <1>2, <2>1 DEF AppRequestProgramming
    <2>3. Reset(TRUE) /\ vouched' \subseteq Slots /\ budget' \in 0 .. MaxFaults
      BY <1>2 DEF AppRequestProgramming, Reset, TypeOK, history
    <2>4. QED BY <2>2, <2>3, ResetType
  <1>3. CASE AppCrash
    <2>1. req' \in Requests
      BY <1>3, NoRecords DEF AppCrash
    <2>2. Reset(TRUE) /\ vouched' \subseteq Slots /\ budget' \in 0 .. MaxFaults
      BY <1>3, DisturbType DEF AppCrash, Reset, TypeOK, history
    <2>3. QED BY <2>1, <2>2, ResetType
  <1>4. QED BY <1>1, <1>2, <1>3 DEF Application

LEMMA EnvironmentType ==
  ASSUME TypeOK, Environment
  PROVE  TypeOK'
  <1>1. CASE HardwareReset
    <2>1. req' \in [kind : {"none", "confirm", "program"}, slot : Slots]
      BY <1>1, NoRecords DEF HardwareReset, TypeOK
    <2>2. Reset(FALSE) /\ vouched' \subseteq Slots /\ budget' \in 0 .. MaxFaults
      BY <1>1, DisturbType DEF HardwareReset, Reset, TypeOK, history
    <2>3. QED BY <2>1, <2>2, ResetType
  <1>2. CASE \E s \in Slots : Rot(s)
    <2>1. PICK s \in Slots : Rot(s)
      BY <1>2
    <2>2. flash' \in Contents
      BY <2>1 DEF Rot, TypeOK, Contents, Payloads
    <2>3. QED BY <2>1, <2>2, DisturbType DEF Rot, TypeOK, Contents, ram
  <1>3. QED BY <1>1, <1>2 DEF Environment

(* The record an update begins with.                                       *)
LEMMA BeginType ==
  ASSUME TypeOK, NEW next,
         next = [NoJournal EXCEPT !.status = "VALID", !.state = PREPARING,
                   !.active = active.slot, !.target = Target, !.txn = jr.txn + 1]
  PROVE  next \in Journals
  <1>1. /\ active.slot \in Slots \cup {UNKNOWN} /\ Target \in Slots
        /\ jr.txn + 1 \in Nat /\ 0 \in Payloads
    BY TargetType DEF TypeOK, Journals, Payloads
  <1>2. next = [status |-> "VALID", state |-> PREPARING, active |-> active.slot,
                target |-> Target, txn |-> jr.txn + 1, commissioned |-> FALSE, header |-> 0]
    BY DEF NoJournal
  <1>3. [status |-> "VALID", state |-> PREPARING, active |-> active.slot, target |-> Target,
         txn |-> jr.txn + 1, commissioned |-> FALSE, header |-> 0] \in Journals
    BY <1>1 DEF Journals, PREPARING, IDLE, ABORTED
  <1>4. QED BY <1>2, <1>3

LEMMA CommissionType ==
  ASSUME NEW a \in Slots \cup {UNKNOWN}, NEW next,
         next = [NoJournal EXCEPT !.status = "VALID", !.state = ABORTED, !.active = a,
                   !.target = IF a = 0 THEN 1 ELSE 0, !.commissioned = TRUE]
  PROVE  next \in Journals
  <1>1. (IF a = 0 THEN 1 ELSE 0) \in Slots /\ 0 \in Payloads
    BY DEF Slots, Payloads
  <1>2. next = [status |-> "VALID", state |-> ABORTED, active |-> a,
                target |-> IF a = 0 THEN 1 ELSE 0, txn |-> 0, commissioned |-> TRUE,
                header |-> 0]
    BY DEF NoJournal
  <1>3. [status |-> "VALID", state |-> ABORTED, active |-> a,
         target |-> IF a = 0 THEN 1 ELSE 0, txn |-> 0, commissioned |-> TRUE,
         header |-> 0] \in Journals
    BY <1>1 DEF Journals, IDLE, ABORTED
  <1>4. QED BY <1>2, <1>3

(* What a flash operation on the target slot may leave.                    *)
LEMMA TargetContents ==
  ASSUME TypeOK, NEW v \in Payloads
  PROVE  /\ [flash EXCEPT ![Target] = Whole(v)] \in Contents
         /\ [flash EXCEPT ![Target].payload = v] \in Contents
         /\ [flash EXCEPT ![Target].header = v] \in Contents
         /\ flash \in Contents /\ 0 \in Payloads
  BY TargetType DEF TypeOK, Contents, Whole, Payloads

LEMMA ProgrammingType ==
  ASSUME TypeOK, Programming
  PROVE  TypeOK'
  <1>1. CASE AbortDownload
    <2>1. \/ Saved(Aborted) \/ SaveFails(Aborted)
          \/ UNCHANGED <<durable, jr, jfault, budget>>
      BY <1>1 DEF AbortDownload
    <2>2. /\ journal' \in Journals /\ jr' \in Journals
          /\ meta' \in Metadata /\ flash' \in Contents
          /\ jfault' \in BOOLEAN /\ budget' \in 0 .. MaxFaults
      <3>1. CASE UNCHANGED <<durable, jr, jfault, budget>>
        BY <3>1 DEF TypeOK, Metadata, Contents, durable
      <3>2. CASE Saved(Aborted) \/ SaveFails(Aborted)
        BY <3>2, AbortedType, SaveType
      <3>3. QED BY <2>1, <3>1, <3>2
    <2>3. reval' \in BOOLEAN
      BY <1>1 DEF AbortDownload, TypeOK
    <2>4. QED
      BY <1>1, <2>2, <2>3 DEF AbortDownload, TypeOK, history, Metadata, Contents
  <1>2. CASE EraseRequest
    <2> DEFINE next == [NoJournal EXCEPT !.status = "VALID", !.state = PREPARING,
                          !.active = active.slot, !.target = Target, !.txn = jr.txn + 1]
    <2>1. next \in Journals
      BY BeginType
    <2>2. \/ Saved(next) \/ SaveFails(next)
          \/ UNCHANGED <<durable, jr, jfault>> /\ (UNCHANGED budget \/ Disturb)
      BY <1>2 DEF EraseRequest
    <2>3. /\ pc' \in {pc, "erasing"} /\ reval' \in BOOLEAN
      BY <1>2 DEF EraseRequest, TypeOK
    <2> HIDE DEF next
    <2>4. /\ journal' \in Journals /\ jr' \in Journals
          /\ meta' \in Metadata /\ flash' \in Contents
          /\ jfault' \in BOOLEAN /\ budget' \in 0 .. MaxFaults
      <3>1. CASE UNCHANGED <<durable, jr, jfault>> /\ (UNCHANGED budget \/ Disturb)
        BY <3>1, DisturbType DEF TypeOK, Metadata, Contents, durable
      <3>2. CASE Saved(next) \/ SaveFails(next)
        BY <3>2, <2>1, SaveType
      <3>3. QED BY <2>2, <3>1, <3>2
    <2>5. QED
      BY <1>2, <2>3, <2>4 DEF EraseRequest, TypeOK, history, Metadata, Contents
  <1>3. CASE StartErasing
    <2>1. Update(ERASING) \in Journals
      BY UpdateType DEF IDLE, ERASING, ABORTED
    <2>2. Saved(Update(ERASING)) \/ SaveFails(Update(ERASING))
      BY <1>3 DEF StartErasing
    <2>3. QED
      BY <1>3, <2>1, <2>2, SaveType
      DEF StartErasing, TypeOK, history, Metadata, Contents
  <1>4. CASE Wipe
    <2>1. flash' \in Contents
      <3>1. flash' \in {flash, [flash EXCEPT ![Target] = Whole(0)]}
        BY <1>4 DEF Wipe
      <3>2. [flash EXCEPT ![Target] = Whole(0)] \in Contents /\ flash \in Contents
        BY TargetContents DEF Payloads
      <3>3. QED BY <3>1, <3>2
    <2>2. budget' \in 0 .. MaxFaults
      BY <1>4, DisturbType DEF Wipe, TypeOK
    <2>3. QED BY <1>4, <2>1, <2>2 DEF Wipe, TypeOK, ram, Contents
  <1>5. CASE EraseDone
    <2>1. Update(DOWNLOAD_READY) \in Journals
      BY UpdateType DEF IDLE, DOWNLOAD_READY, ABORTED
    <2>2. Saved(Update(DOWNLOAD_READY)) \/ SaveFails(Update(DOWNLOAD_READY))
      BY <1>5 DEF EraseDone
    <2>3. QED
      BY <1>5, <2>1, <2>2, SaveType DEF EraseDone, TypeOK, history, Metadata, Contents
  <1>6. CASE Download
    <2>1. Update(PROGRAMMING) \in Journals
      BY UpdateType DEF IDLE, PROGRAMMING, ABORTED
    <2>2. Saved(Update(PROGRAMMING)) \/ SaveFails(Update(PROGRAMMING))
      BY <1>6 DEF Download
    <2>3. staged' \in Payloads
      BY <1>6 DEF Download, TypeOK, Payloads
    <2>4. QED
      BY <1>6, <2>1, <2>2, <2>3, SaveType
      DEF Download, TypeOK, history, Metadata, Contents
  <1>7. CASE \E v \in Versions, whole \in BOOLEAN : Transfer(v, whole)
    <2>1. PICK v \in Versions, whole \in BOOLEAN : Transfer(v, whole)
      BY <1>7
    <2> DEFINE sent == IF whole THEN v ELSE 0
    <2>2. v \in Payloads /\ sent \in Payloads
      BY DEF Payloads
    <2>3. flash' \in Contents
      <3>1. flash' \in {flash, [flash EXCEPT ![Target].payload = sent]}
        BY <2>1 DEF Transfer
      <3> HIDE DEF sent
      <3>2. [flash EXCEPT ![Target].payload = sent] \in Contents /\ flash \in Contents
        BY <2>2, TargetContents
      <3>3. QED BY <3>1, <3>2
    <2> HIDE DEF sent
    <2>4. staged' \in Payloads /\ budget' \in 0 .. MaxFaults /\ jfault' \in BOOLEAN
      BY <2>1, <2>2, DisturbType DEF Transfer, TypeOK
    <2>5. QED BY <2>1, <2>3, <2>4 DEF Transfer, TypeOK, history, Contents
  <1>8. CASE TransferExit
    <2> DEFINE next == [Update(TRANSFER_COMPLETE) EXCEPT !.header = staged]
    <2>1. next \in Journals
      <3>1. Update(TRANSFER_COMPLETE) \in Journals /\ staged \in Payloads
        BY UpdateType DEF IDLE, TRANSFER_COMPLETE, ABORTED, TypeOK
      <3>2. QED BY <3>1 DEF Journals
    <2>2. Saved(next) \/ SaveFails(next)
      BY <1>8 DEF TransferExit
    <2>3. ctx' \in {ctx, "complete"}
      BY <1>8 DEF TransferExit
    <2> HIDE DEF next
    <2>4. QED
      BY <1>8, <2>1, <2>2, <2>3, SaveType
      DEF TransferExit, TypeOK, history, Metadata, Contents
  <1>9. CASE VerifyRequest
    <2>1. Update(VERIFYING) \in Journals
      BY UpdateType DEF IDLE, VERIFYING, ABORTED
    <2>2. Saved(Update(VERIFYING)) \/ SaveFails(Update(VERIFYING))
      BY <1>9 DEF VerifyRequest
    <2>3. QED
      BY <1>9, <2>1, <2>2, SaveType
      DEF VerifyRequest, TypeOK, history, Metadata, Contents
  <1>10. CASE VerifyImage
    BY <1>10 DEF VerifyImage, TypeOK, durable, ram, history
  <1>11. CASE PublishHeader
    <2>1. staged \in Payloads
      BY DEF TypeOK
    <2>2. flash' \in Contents
      BY <1>11, <2>1, TargetContents DEF PublishHeader
    <2>3. budget' \in 0 .. MaxFaults
      BY <1>11, DisturbType DEF PublishHeader, TypeOK
    <2>4. QED BY <1>11, <2>2, <2>3 DEF PublishHeader, TypeOK, history, Contents
  <1>12. CASE ResetRequest
    <2>1. /\ Reset(TRUE) /\ vouched' \subseteq Slots /\ budget' \in 0 .. MaxFaults
          /\ req' \in [kind : {"none", "confirm", "program"}, slot : Slots]
      BY <1>12 DEF ResetRequest, Reset, TypeOK, history
    <2>2. QED BY <2>1, ResetType
  <1>13. CASE \E a \in Slots \cup {UNKNOWN} : Commission(a)
    <2>1. PICK a \in Slots \cup {UNKNOWN} : Commission(a)
      BY <1>13
    <2> DEFINE next == [NoJournal EXCEPT !.status = "VALID", !.state = ABORTED, !.active = a,
                          !.target = IF a = 0 THEN 1 ELSE 0, !.commissioned = TRUE]
    <2>2. next \in Journals /\ NoJournal \in Journals /\ BadJournal \in Journals
      BY CommissionType, NoRecords
    <2>3. /\ journal' \in {NoJournal, BadJournal, next} /\ jr' \in {jr, next}
          /\ pc' \in {pc, "lifecycle"}
          /\ reval' \in BOOLEAN /\ jfault' \in BOOLEAN
      BY <2>1 DEF Commission, TypeOK
    <2>4. budget' \in 0 .. MaxFaults
      BY <2>1, DisturbType DEF Commission, TypeOK
    <2> HIDE DEF next
    <2>5. QED BY <2>1, <2>2, <2>3, <2>4 DEF Commission, TypeOK, history
  <1>14. CASE Refresh
    <2>1. active' \in [slot : Slots \cup {UNKNOWN}, version : Payloads]
      BY <1>14, CapturedType DEF Refresh
    <2>2. staged' \in Payloads
      BY <1>14 DEF Refresh, Payloads
    <2>3. QED BY <1>14, <2>1, <2>2 DEF Refresh, TypeOK, durable, history
  <1>15. QED
    BY <1>1, <1>2, <1>3, <1>4, <1>5, <1>6, <1>7, <1>8, <1>9, <1>10, <1>11, <1>12, <1>13,
       <1>14 DEF Programming


(* Only Reconcile and CheckApp enter the steps that rely on a slot.        *)
LEMMA LocatedStep ==
  ASSUME TypeOK, Located, [Next]_vars
  PROVE  Located'
  <1>1. CASE Boot
    <2>1. CASE Recover
      BY <2>1 DEF Recover, Located
    <2>2. CASE AbortUpdate
      BY <2>2 DEF AbortUpdate, Located
    <2>3. CASE RecoverVerifying
      BY <2>3 DEF RecoverVerifying, Located
    <2>4. CASE Publish
      BY <2>4 DEF Publish, Published, Located
    <2>5. CASE MarkVerified
      BY <2>5 DEF MarkVerified, Located
    <2>6. CASE Reconcile
      BY <2>6 DEF Reconcile, Failed, FirstRecord, Handover, Located
    <2>7. CASE InitializeConfirmed
      BY <2>7 DEF InitializeConfirmed, Handover, Failed, Located
    <2>8. CASE InstallVerified
      BY <2>8 DEF InstallVerified, Failed, Located
    <2>9. CASE SetPending
      BY <2>9 DEF SetPending, Failed, Located
    <2>10. CASE CompleteHandoff
      BY <2>10 DEF CompleteHandoff, Failed, Located
    <2>11. CASE \E s \in Slots : ResolveExhausted(s)
      BY <2>11 DEF ResolveExhausted, Failed, Located
    <2>12. CASE EndLifecycle
      BY <2>12 DEF EndLifecycle, Failed, Done, Located
    <2>13. CASE CheckConfirm
      BY <2>13 DEF CheckConfirm, Located
    <2>14. CASE CheckRequest
      BY <2>14 DEF CheckRequest, Located
    <2>15. CASE CheckApp
      BY <2>15, SelectType DEF CheckApp, Located
    <2>16. CASE Normalize
      BY <2>16 DEF Normalize, Reset, Located
    <2>17. CASE PrepareBoot
      BY <2>17 DEF PrepareBoot, Located
    <2>18. CASE Launch
      BY <2>18 DEF Launch, Located
    <2>19. QED
      BY <1>1, <2>1, <2>2, <2>3, <2>4, <2>5, <2>6, <2>7, <2>8, <2>9, <2>10, <2>11, <2>12,
         <2>13, <2>14, <2>15, <2>16, <2>17, <2>18 DEF Boot
  <1>2. CASE Application
    BY <1>2 DEF Application, AppConfirm, AppRequestProgramming, AppCrash, Reset, Located
  <1>3. CASE Programming
    <2>1. pc' \in {"prog", "erasing", "wipe", "ready", "abort", "verify", "header", "mark",
                   "recover", "lifecycle"}
      BY <1>3 DEF Programming, AbortDownload, EraseRequest, StartErasing, Wipe, EraseDone,
                  Download, Transfer, TransferExit, VerifyRequest, VerifyImage,
                  PublishHeader, ResetRequest, Reset, Commission, Refresh
    <2>2. QED BY <2>1 DEF Located
  <1>4. CASE Environment
    BY <1>4 DEF Environment, HardwareReset, Reset, Rot, Located
  <1>5. CASE UNCHANGED vars
    BY <1>5 DEF Located, vars, ram
  <1>6. QED BY <1>1, <1>2, <1>3, <1>4, <1>5 DEF Next

TypeInv == TypeOK /\ Located

LEMMA TypeInvariance == Spec => []TypeInv
  <1>1. Init => TypeInv
    BY InitType DEF Init, TypeInv, Located
  <1>2. TypeInv /\ [Next]_vars => TypeInv'
    <2> SUFFICES ASSUME TypeOK, Located, [Next]_vars PROVE TypeOK' /\ Located'
      BY DEF TypeInv
    <2>1. CASE UNCHANGED vars
      BY <2>1, LocatedStep DEF TypeOK, vars, durable, ram, history
    <2>2. TypeOK'
      BY <2>1, BootType, ApplicationType, ProgrammingType, EnvironmentType DEF Next
    <2>3. QED BY <2>2, LocatedStep
  <1>3. QED BY <1>1, <1>2, PTL DEF Spec

(* Type correctness: every variable keeps to its range; no step writes a   *)
(* record the validation of boot_metadata.c or boot_update.c would reject. *)
THEOREM TypeCorrect == Spec => []TypeOK
  <1>1. TypeInv => TypeOK
    BY DEF TypeInv
  <1>2. QED BY <1>1, TypeInvariance, PTL

-----------------------------------------------------------------------------
(* The bound on trial starts.  TrialsCharged is not inductive: between the *)
(* commit of an attempt and the jump it pays for, the record must be one   *)
(* ahead of the starts, and a record that is PENDING must have had none.   *)
Charged ==
  \A s \in Slots :
    /\ trials[s] <= MaxAttempts
    /\ Has(s, "PENDING") => trials[s] = 0
    /\ Has(s, "TRIAL") => trials[s] <= meta[s].attempts
    /\ pc = "launch" /\ s = running /\ Has(s, "TRIAL") => trials[s] < meta[s].attempts

(* Steps that touch neither the records nor the count.                     *)
LEMMA ChargedElsewhere ==
  ASSUME Charged, UNCHANGED <<meta, trials>>, pc' # "launch"
  PROVE  Charged'
  BY DEF Charged, Has

(* Records that are neither PENDING nor TRIAL owe nothing.                 *)
LEMMA ChargedCommit ==
  ASSUME TypeOK, Charged, NEW s, NEW next, next.state \notin {"PENDING", "TRIAL"},
         Committed(s, next) \/ CommitFails(s, next), UNCHANGED trials, pc' # "launch"
  PROVE  Charged'
  <1>1. PICK left \in {meta[s], next, NoMeta, BadMeta} : meta' = [meta EXCEPT ![s] = left]
    BY DEF Committed, CommitFails
  <1>2. NoMeta.status = "EMPTY" /\ BadMeta.status = "INVALID"
    BY DEF NoMeta, BadMeta
  <1>3. \A o \in Slots : meta'[o] = meta[o] \/ meta'[o].status # "VALID"
                         \/ meta'[o].state \notin {"PENDING", "TRIAL"}
    BY <1>1, <1>2 DEF TypeOK
  <1>4. QED BY <1>3 DEF Charged, Has

LEMMA ChargedStep ==
  ASSUME TypeOK, Located, Charged, [Next]_vars
  PROVE  Charged'
  <1>1. CASE Boot
    <2>1. CASE Recover
      BY <2>1, ChargedElsewhere DEF Recover, durable, history
    <2>2. CASE AbortUpdate
      BY <2>2, ChargedElsewhere DEF AbortUpdate, Saved, SaveFails, history
    <2>3. CASE RecoverVerifying
      BY <2>3, ChargedElsewhere DEF RecoverVerifying, Saved, SaveFails, history
    <2>4. CASE Publish
      BY <2>4, ChargedElsewhere DEF Publish, Published, history
    <2>5. CASE MarkVerified
      <3>1. UNCHANGED meta
        BY <2>5 DEF MarkVerified, Saved, SaveFails
      <3>2. pc' # "launch" /\ UNCHANGED trials
        BY <2>5 DEF MarkVerified, history
      <3>3. QED BY <3>1, <3>2, ChargedElsewhere
    <2>6. CASE Reconcile
      BY <2>6, ChargedElsewhere DEF Reconcile, Failed, Handover, durable, history
    <2>7. CASE InitializeConfirmed
      <3> DEFINE next == Record("CONFIRMED", Image(jr.active), jr.txn, 0)
      <3>1. next.state = "CONFIRMED"
        BY DEF Record
      <3>2. Committed(jr.active, next) \/ CommitFails(jr.active, next)
        BY <2>7 DEF InitializeConfirmed
      <3>3. UNCHANGED trials /\ pc' # "launch"
        BY <2>7 DEF InitializeConfirmed, Handover, Failed
      <3> HIDE DEF next
      <3>4. QED BY <3>1, <3>2, <3>3, ChargedCommit
    <2>8. CASE InstallVerified
      <3> DEFINE next == Record("VERIFIED", Image(jr.target), jr.txn, 0)
      <3>1. next.state = "VERIFIED"
        BY DEF Record
      <3>2. Committed(jr.target, next) \/ CommitFails(jr.target, next)
        BY <2>8 DEF InstallVerified
      <3>3. UNCHANGED trials /\ pc' # "launch"
        BY <2>8 DEF InstallVerified, Failed, history
      <3> HIDE DEF next
      <3>4. QED BY <3>1, <3>2, <3>3, ChargedCommit
    <2>9. CASE SetPending
      <3> DEFINE next == [meta[jr.target] EXCEPT !.state = "PENDING"]
      <3>1. Committed(jr.target, next) \/ CommitFails(jr.target, next)
        BY <2>9 DEF SetPending
      <3>2. trials' = [trials EXCEPT ![jr.target] = 0] /\ pc' # "launch"
        BY <2>9 DEF SetPending, Failed
      <3> HIDE DEF next
      <3>3. \A o \in Slots : o # jr.target => meta'[o] = meta[o]
        BY <3>1 DEF Committed, CommitFails, TypeOK
      <3>4. \A o \in Slots : o = jr.target => meta'[o] \in Metas
        BY <2>9, <3>1, BootType DEF Boot, TypeOK
      <3>5. \A o \in Slots : trials'[o] = IF o = jr.target THEN 0 ELSE trials[o]
        BY <3>2 DEF TypeOK
      <3>6. \A o \in Slots : o = jr.target => 0 <= meta'[o].attempts /\ 0 <= MaxAttempts
        BY <3>4, MaxAttemptsAssumption DEF Metas
      <3>7. QED BY <3>2, <3>3, <3>5, <3>6 DEF Charged, Has
    <2>10. CASE CompleteHandoff
      <3>1. UNCHANGED <<meta, trials>>
        BY <2>10 DEF CompleteHandoff, Saved, SaveFails, history
      <3>2. pc' # "launch"
        BY <2>10 DEF CompleteHandoff, Failed
      <3>3. QED BY <3>1, <3>2, ChargedElsewhere
    <2>11. CASE \E s \in Slots : ResolveExhausted(s)
      <3>1. PICK s \in Slots : ResolveExhausted(s)
        BY <2>11
      <3> DEFINE next == [meta[s] EXCEPT !.state = "INVALID"]
      <3>2. next.state = "INVALID"
        <4>1. meta[s] \in Metas
          BY DEF TypeOK
        <4>2. QED BY <4>1 DEF Metas
      <3>3. Committed(s, next) \/ CommitFails(s, next)
        BY <3>1 DEF ResolveExhausted
      <3>4. UNCHANGED trials /\ pc' # "launch"
        BY <3>1 DEF ResolveExhausted, Failed, history
      <3> HIDE DEF next
      <3>5. QED BY <3>2, <3>3, <3>4, ChargedCommit
    <2>12. CASE EndLifecycle
      BY <2>12, ChargedElsewhere DEF EndLifecycle, Failed, Done, durable, history
    <2>13. CASE CheckConfirm
      <3> DEFINE next == [meta[req.slot] EXCEPT !.state = "CONFIRMED", !.attempts = 0]
      <3>1. next.state = "CONFIRMED"
        <4>1. meta[req.slot] \in Metas
          BY DEF TypeOK
        <4>2. QED BY <4>1 DEF Metas
      <3>2. \/ Committed(req.slot, next) \/ CommitFails(req.slot, next)
            \/ UNCHANGED meta
        BY <2>13 DEF CheckConfirm, durable
      <3>3. UNCHANGED trials /\ pc' # "launch"
        BY <2>13 DEF CheckConfirm, history
      <3> HIDE DEF next
      <3>4. QED BY <3>1, <3>2, <3>3, ChargedCommit, ChargedElsewhere
    <2>14. CASE CheckRequest
      BY <2>14, ChargedElsewhere DEF CheckRequest, durable, history
    <2>15. CASE CheckApp
      BY <2>15, ChargedElsewhere DEF CheckApp, durable, history
    <2>16. CASE Normalize
      BY <2>16, ChargedElsewhere DEF Normalize, Reset, durable, history
    <2>17. CASE PrepareBoot
      <3>1. running \in Slots /\ UNCHANGED <<running, trials>>
        BY <2>17 DEF PrepareBoot, Located, history
      <3>2. meta[running] \in Metas /\ trials \in [Slots -> Nat]
        BY <3>1 DEF TypeOK
      <3> DEFINE next == Attempt(meta[running])
      <3>3. /\ next.status = meta[running].status
            /\ next.state \in {meta[running].state, "TRIAL"}
            /\ meta[running].state = "PENDING" => next.state = "TRIAL"
            /\ next.state = "TRIAL" =>
                 \/ meta[running].state = "PENDING" /\ next.attempts = 1
                 \/ /\ meta[running].state = "TRIAL"
                    /\ next.attempts = meta[running].attempts + 1
        BY <3>2 DEF Attempt, Metas
      <3>4. \/ Committed(running, next)
            \/ CommitFails(running, next) /\ pc' = "error"
            \/ UNCHANGED meta /\ pc' = "error"
        BY <2>17 DEF PrepareBoot, durable
      <3> HIDE DEF next
      <3>5. CASE Committed(running, next)
        <4>1. \A o \in Slots : meta'[o] = IF o = running THEN next ELSE meta[o]
          BY <3>5 DEF Committed, TypeOK
        <4>2. Has(running, "PENDING")' => FALSE
          BY <3>1, <3>3, <4>1 DEF Has
        <4>3. Has(running, "TRIAL")' => trials[running] < next.attempts
          BY <3>1, <3>2, <3>3, <4>1 DEF Has, Charged, Metas
        <4>4. Has(running, "TRIAL")' => trials'[running] < meta'[running].attempts
          BY <3>1, <4>1, <4>3
        <4>5. Has(running, "TRIAL")' => meta'[running].attempts \in Nat
          BY <2>17, <3>1, BootType DEF Boot, TypeOK, Metas
        <4>6. \A o \in Slots : o # running => Has(o, "PENDING")' = Has(o, "PENDING")
                                              /\ Has(o, "TRIAL")' = Has(o, "TRIAL")
                                              /\ meta'[o] = meta[o]
          BY <4>1 DEF Has
        <4>7. QED BY <3>1, <3>2, <4>2, <4>4, <4>5, <4>6 DEF Charged
      <3>6. CASE CommitFails(running, next) /\ pc' = "error"
        <4>1. PICK left \in {meta[running], next, NoMeta, BadMeta} :
                meta' = [meta EXCEPT ![running] = left]
          BY <3>6 DEF CommitFails
        <4>2. \A o \in Slots : meta'[o] = IF o = running THEN left ELSE meta[o]
          BY <4>1 DEF TypeOK
        <4>3. NoMeta.status = "EMPTY" /\ BadMeta.status = "INVALID"
          BY DEF NoMeta, BadMeta
        <4>4. Has(running, "PENDING")' => left = meta[running]
          BY <3>1, <3>3, <4>1, <4>2, <4>3 DEF Has
        <4>5. Has(running, "TRIAL")' => left = meta[running] \/ left = next
          BY <3>1, <4>1, <4>2, <4>3 DEF Has
        <4>6. Has(running, "TRIAL")' => trials[running] <= left.attempts
          BY <3>1, <3>2, <3>3, <4>2, <4>5 DEF Has, Charged, Metas
        <4>7. QED BY <3>1, <3>6, <4>2, <4>4, <4>6 DEF Charged, Has
      <3>7. QED BY <3>1, <3>4, <3>5, <3>6, ChargedElsewhere
    <2>18. CASE Launch
      <3>1. running \in Slots /\ UNCHANGED <<meta, running>> /\ pc = "launch" /\ pc' # "launch"
        BY <2>18 DEF Launch, Located, durable
      <3>2. CASE UNCHANGED trials
        BY <3>1, <3>2, ChargedElsewhere
      <3>3. CASE Has(running, "TRIAL") /\ trials' = [trials EXCEPT ![running] = @ + 1]
        <4>1. trials[running] \in Nat /\ meta[running].attempts \in 0 .. MaxAttempts
          BY <3>1 DEF TypeOK, Metas
        <4>2. trials[running] < meta[running].attempts
          BY <3>1, <3>3 DEF Charged
        <4>3. \A o \in Slots : trials'[o] = IF o = running THEN trials[o] + 1 ELSE trials[o]
          BY <3>3 DEF TypeOK
        <4>4. Has(running, "PENDING")' => FALSE
          BY <3>1, <3>3 DEF Has
        <4>5. QED BY <3>1, <4>1, <4>2, <4>3, <4>4, MaxAttemptsAssumption DEF Charged, Has
      <3>4. QED BY <2>18, <3>2, <3>3 DEF Launch
    <2>19. QED
      BY <1>1, <2>1, <2>2, <2>3, <2>4, <2>5, <2>6, <2>7, <2>8, <2>9, <2>10, <2>11, <2>12,
         <2>13, <2>14, <2>15, <2>16, <2>17, <2>18 DEF Boot
  <1>2. CASE Application
    <2>1. UNCHANGED <<meta, trials>> /\ pc' = "recover"
      BY <1>2 DEF Application, AppConfirm, AppRequestProgramming, AppCrash, Reset, durable,
                  history
    <2>2. QED BY <2>1, ChargedElsewhere
  <1>3. CASE Programming
    <2>1. UNCHANGED <<meta, trials>>
      BY <1>3 DEF Programming, AbortDownload, EraseRequest, StartErasing, Wipe, EraseDone,
                  Download, Transfer, TransferExit, VerifyRequest, VerifyImage,
                  PublishHeader, ResetRequest, Reset, Commission, Refresh, Saved, SaveFails,
                  durable, history
    <2>2. pc' # "launch"
      BY <1>3 DEF Programming, AbortDownload, EraseRequest, StartErasing, Wipe, EraseDone,
                  Download, Transfer, TransferExit, VerifyRequest, VerifyImage,
                  PublishHeader, ResetRequest, Reset, Commission, Refresh
    <2>3. QED BY <2>1, <2>2, ChargedElsewhere
  <1>4. CASE Environment
    <2>1. UNCHANGED <<meta, trials>> /\ pc' = "recover"
      BY <1>4 DEF Environment, HardwareReset, Reset, Rot, durable, history
    <2>2. QED BY <2>1, ChargedElsewhere
  <1>5. CASE UNCHANGED vars
    BY <1>5 DEF Charged, Has, vars, durable, history, ram
  <1>6. QED BY <1>1, <1>2, <1>3, <1>4, <1>5 DEF Next

(* However resets, failed writes and bad images interleave, no unconfirmed *)
(* image is started more than MaxAttempts times, and its record is never   *)
(* behind its starts (BootLifecycle_PrepareBoot charges before the jump).  *)
THEOREM TrialsBounded == Spec => []TrialsCharged
  <1>1. Init => Charged
    <2> SUFFICES ASSUME Init PROVE Charged
      OBVIOUS
    <2>1. \A s \in Slots : trials[s] = 0 /\ meta[s] \in Metas
      BY InitType DEF Init, TypeOK
    <2>2. \A s \in Slots : 0 <= meta[s].attempts /\ 0 <= MaxAttempts
      BY <2>1, MaxAttemptsAssumption DEF Metas
    <2>3. QED BY <2>1, <2>2 DEF Charged, Init
  <1>2. TypeInv /\ Charged /\ [Next]_vars => Charged'
    BY ChargedStep DEF TypeInv
  <1>3. Charged => TrialsCharged
    BY DEF Charged, TrialsCharged
  <1>4. QED BY <1>1, <1>2, <1>3, TypeInvariance, PTL DEF Spec
-----------------------------------------------------------------------------
(* THE HAND-OVER of a verified update from the journal to the metadata of  *)
(* its slot: a cut between their commits neither loses nor repeats it, for *)
(* any number of attempts, versions, transactions and faults, and whether  *)
(* images rot or not.                                                      *)

(* A valid journal names two slots, or the target alone.                   *)
Paired(j) == j.status = "VALID" => j.target \in Slots /\ j.active # j.target

(* What RAM holds of the journal is what flash holds, unless a save failed *)
(* in this boot.                                                           *)
Synced == /\ Paired(journal) /\ Paired(jr)
          /\ jr.status = "VALID" /\ ~jfault => journal = jr

HandingOver == pc \in {"initialize", "install", "pend", "handoff"}

(* Metadata are written for an update only while the journal holds it ...  *)
Holds == HandingOver => jr.status = "VALID" /\ ~jfault /\ jr.state # IDLE

(* ... and it is let go of once the target's record is in place.           *)
Carried(m, txn) == m.status = "VALID" /\ m.counter = txn
Installed ==
  /\ pc \in {"pend", "handoff"} => Carried(meta[jr.target], jr.txn)
  /\ pc = "handoff" => meta[jr.target].state = "PENDING"

Later == {"PENDING", "TRIAL", "CONFIRMED", "INVALID"}
LetGo(j) == j.status = "VALID" /\ j.state = IDLE
Accepted(j, m) == LetGo(j) => Carried(m[j.target], j.txn) /\ m[j.target].state \in Later

HandoverInv == Synced /\ Holds /\ Installed /\ Accepted(journal, meta)

(* Commits of the journal that do not let go of an update.                 *)
LEMMA SaveSynced ==
  ASSUME TypeOK, Synced, Accepted(journal, meta), NEW next,
         next.status = "VALID", next.target \in Slots, next.active # next.target,
         next.state # IDLE, Saved(next) \/ SaveFails(next)
  PROVE  Synced' /\ Accepted(journal, meta)' /\ UNCHANGED meta
  BY DEF Synced, Paired, Saved, SaveFails, CanContinue, Accepted, LetGo, Carried, TypeOK

LEMMA UpdateFields ==
  ASSUME TypeOK, NEW state \in IDLE .. ABORTED
  PROVE  LET next == Update(state)
         IN  /\ next.status = jr.status /\ next.state = state
             /\ next.active = jr.active /\ next.target = jr.target /\ next.txn = jr.txn
  BY DEF Update, TypeOK, Journals

(* The states an update passes through are states it is held in.           *)
LEMMA UpdateSynced ==
  ASSUME TypeOK, Synced, Accepted(journal, meta), NEW state \in PREPARING .. ABORTED,
         Saved(Update(state)) \/ SaveFails(Update(state))
  PROVE  Synced' /\ Accepted(journal, meta)' /\ UNCHANGED meta
  <1>1. state \in IDLE .. ABORTED /\ state # IDLE
    BY DEF PREPARING, IDLE, ABORTED
  <1> DEFINE next == Update(state)
  <1>2. /\ next.status = jr.status /\ next.state = state
        /\ next.active = jr.active /\ next.target = jr.target
    BY <1>1, UpdateFields
  <1> HIDE DEF next
  <1>3. CASE CanContinue
    <2>1. jr.status = "VALID"
      BY <1>3 DEF CanContinue
    <2>2. QED BY <1>1, <1>2, <2>1, SaveSynced DEF Synced, Paired, next
  <1>4. CASE ~CanContinue
    BY <1>4 DEF Saved, SaveFails, Synced, Paired, Accepted, LetGo, Carried
  <1>5. QED BY <1>3, <1>4

LEMMA AbortedSynced ==
  ASSUME TypeOK, Synced, Accepted(journal, meta), Saved(Aborted) \/ SaveFails(Aborted)
  PROVE  Synced' /\ Accepted(journal, meta)' /\ UNCHANGED meta
  <1>1. /\ Aborted.status = jr.status /\ Aborted.state = ABORTED
        /\ Aborted.active = jr.active /\ Aborted.target = jr.target
    BY DEF Aborted, Update, TypeOK, Journals
  <1>2. CASE CanContinue
    <2>1. jr.status = "VALID" /\ ABORTED # IDLE
      BY <1>2 DEF CanContinue, ABORTED, IDLE
    <2>2. QED BY <1>1, <2>1, SaveSynced DEF Synced, Paired
  <1>3. CASE ~CanContinue
    BY <1>3 DEF Saved, SaveFails, Synced, Paired, Accepted, LetGo, Carried
  <1>4. QED BY <1>2, <1>3

(* Steps that neither write metadata nor are inside the hand-over.         *)
LEMMA QuietHandover ==
  ASSUME Synced', Accepted(journal, meta)', ~HandingOver'
  PROVE  HandoverInv'
  BY DEF HandoverInv, Holds, Installed, HandingOver

(* Steps that leave every store and RAM's copy of the journal alone.       *)
LEMMA IdleHandover ==
  ASSUME HandoverInv, UNCHANGED <<journal, meta, jr, jfault>>, ~HandingOver'
  PROVE  HandoverInv'
  BY DEF HandoverInv, Synced, Paired, Accepted, LetGo, Carried, Holds, Installed, HandingOver

(* A reset: what RAM held is forgotten.                                    *)
LEMMA ResetHandover ==
  ASSUME HandoverInv, UNCHANGED <<journal, meta>>, jr' = NoJournal, pc' = "recover"
  PROVE  HandoverInv'
  <1>1. NoJournal.status # "VALID"
    BY DEF NoJournal
  <1>2. QED
    BY <1>1 DEF HandoverInv, Synced, Paired, Accepted, LetGo, Carried, Holds, Installed,
                HandingOver

(* A metadata commit that keeps what an accepted record says.              *)
LEMMA CommitAccepted ==
  ASSUME TypeOK, Paired(journal), Accepted(journal, meta), UNCHANGED journal,
         NEW s \in Slots, NEW next,
         meta[s].status = "VALID", next.status = "VALID", next.counter = meta[s].counter,
         meta[s].state \in Later => next.state \in Later,
         Committed(s, next) \/ CommitFails(s, next)
  PROVE  Accepted(journal, meta)'
  <1>1. meta' \in {meta, [meta EXCEPT ![s] = next]}
    BY DEF Committed, CommitFails, TypeOK
  <1>2. \A o \in Slots : meta'[o] = meta[o] \/ (o = s /\ meta'[o] = next)
    BY <1>1 DEF TypeOK
  <1>3. QED BY <1>2 DEF Accepted, LetGo, Carried, Paired

LEMMA BootHandover ==
  ASSUME TypeOK, Located, HandoverInv, Boot
  PROVE  HandoverInv'
  <1>0. Synced /\ Paired(journal) /\ Accepted(journal, meta)
    BY DEF HandoverInv, Synced
  <1>1. CASE Recover
    <2>1. Synced'
      BY <1>0, <1>1 DEF Recover, Synced, Paired, NoJournal, durable
    <2>2. Accepted(journal, meta)' /\ ~HandingOver'
      BY <1>0, <1>1 DEF Recover, Accepted, LetGo, Carried, HandingOver, durable
    <2>3. QED BY <2>1, <2>2, QuietHandover
  <1>2. CASE AbortUpdate
    <2>1. (Saved(Aborted) \/ SaveFails(Aborted)) /\ ~HandingOver'
      BY <1>2 DEF AbortUpdate, HandingOver
    <2>2. QED BY <1>0, <2>1, AbortedSynced, QuietHandover
  <1>3. CASE RecoverVerifying
    <2>1. (Saved(Update(VERIFYING)) \/ SaveFails(Update(VERIFYING))) /\ ~HandingOver'
      BY <1>3 DEF RecoverVerifying, HandingOver
    <2>2. VERIFYING \in PREPARING .. ABORTED
      BY DEF VERIFYING, PREPARING, ABORTED
    <2>3. QED BY <1>0, <2>1, <2>2, UpdateSynced, QuietHandover
  <1>4. CASE Publish
    BY <1>4, IdleHandover DEF Publish, Published, HandingOver
  <1>5. CASE MarkVerified
    <2> DEFINE state == IF jr.state = VERIFYING THEN VERIFIED ELSE PENDING_ACTIVATION
    <2>1. state \in PREPARING .. ABORTED
      BY DEF VERIFIED, PENDING_ACTIVATION, PREPARING, ABORTED
    <2>2. (Saved(Update(state)) \/ SaveFails(Update(state))) /\ ~HandingOver'
      BY <1>5 DEF MarkVerified, HandingOver
    <2> HIDE DEF state
    <2>3. QED BY <1>0, <2>1, <2>2, UpdateSynced, QuietHandover
  <1>6. CASE Reconcile
    <2>1. UNCHANGED <<journal, meta, jr, jfault>>
      BY <1>6 DEF Reconcile, durable
    <2>2. Synced' /\ Accepted(journal, meta)'
      BY <1>0, <2>1 DEF Synced, Paired, Accepted, LetGo, Carried
    <2>3. Holds'
      BY <1>6, <2>1 DEF Reconcile, Holds, HandingOver, JournalUnusable, FirstRecord, Pending,
                        Handover, Failed, IDLE, PENDING_ACTIVATION, ABORTED
    <2>4. Installed'
      BY <1>6, <2>1 DEF Reconcile, Installed, Handover, HandedOver, Has, Carried, Failed
    <2>5. QED BY <2>2, <2>3, <2>4 DEF HandoverInv
  <1>7. CASE InitializeConfirmed
    <2>1. /\ pc = "initialize" /\ jr.active \in Slots
          /\ jr.status = "VALID" /\ ~jfault /\ jr.state # IDLE /\ journal = jr
      BY <1>7 DEF InitializeConfirmed, Located, HandoverInv, Holds, HandingOver, Synced
    <2> DEFINE next == Record("CONFIRMED", Image(jr.active), jr.txn, 0)
    <2>2. /\ Committed(jr.active, next) \/ CommitFails(jr.active, next)
          /\ UNCHANGED <<jr, jfault>>
          /\ pc' \in {"handoff", "install", "resolve", "check", "prog"}
          /\ pc' = "handoff" => HandedOver
      BY <1>7 DEF InitializeConfirmed, Handover, Failed
    <2>3. UNCHANGED <<journal, jr, jfault>> /\ meta'[jr.target] = meta[jr.target]
      <3>1. jr.active # jr.target /\ jr.target \in Slots
        BY <1>0, <2>1 DEF Paired
      <3> HIDE DEF next
      <3>2. QED BY <2>2, <3>1 DEF Committed, CommitFails, TypeOK
    <2>4. Synced' /\ Holds' /\ Accepted(journal, meta)'
      BY <1>0, <2>1, <2>3 DEF Synced, Paired, Holds, Accepted, LetGo
    <2>5. Installed'
      BY <2>2, <2>3 DEF Installed, HandedOver, Has, Carried
    <2>6. QED BY <2>4, <2>5 DEF HandoverInv
  <1>8. CASE InstallVerified
    <2>1. /\ pc = "install" /\ jr.target \in Slots
          /\ jr.status = "VALID" /\ ~jfault /\ jr.state # IDLE /\ journal = jr
      BY <1>8 DEF InstallVerified, HandoverInv, Holds, HandingOver, Synced, Paired
    <2> DEFINE next == Record("VERIFIED", Image(jr.target), jr.txn, 0)
    <2>2. /\ \/ Committed(jr.target, next) /\ pc' = "pend"
             \/ CommitFails(jr.target, next) /\ pc' \in {"check", "prog"}
          /\ UNCHANGED <<jr, jfault>>
      BY <1>8 DEF InstallVerified, Failed
    <2>3. next.status = "VALID" /\ next.counter = jr.txn
      BY DEF Record
    <2> HIDE DEF next
    <2>4. UNCHANGED <<journal, jr, jfault>>
      BY <2>2 DEF Committed, CommitFails
    <2>5. Synced' /\ Holds' /\ Accepted(journal, meta)'
      BY <1>0, <2>1, <2>4 DEF Synced, Paired, Holds, Accepted, LetGo
    <2>6. Installed'
      BY <2>1, <2>2, <2>3, <2>4 DEF Installed, Carried, Committed, TypeOK
    <2>7. QED BY <2>5, <2>6 DEF HandoverInv
  <1>9. CASE SetPending
    <2>1. /\ pc = "pend" /\ jr.target \in Slots
          /\ jr.status = "VALID" /\ ~jfault /\ jr.state # IDLE /\ journal = jr
          /\ Carried(meta[jr.target], jr.txn)
      BY <1>9 DEF SetPending, HandoverInv, Holds, HandingOver, Synced, Paired, Installed
    <2> DEFINE next == [meta[jr.target] EXCEPT !.state = "PENDING"]
    <2>2. /\ \/ Committed(jr.target, next) /\ pc' = "handoff"
             \/ CommitFails(jr.target, next) /\ pc' \in {"check", "prog"}
          /\ UNCHANGED <<jr, jfault>>
      BY <1>9 DEF SetPending, Failed
    <2>3. Carried(next, jr.txn) /\ next.state = "PENDING"
      <3>1. meta[jr.target] \in Metas
        BY <2>1 DEF TypeOK
      <3>2. QED BY <2>1, <3>1 DEF Metas, Carried
    <2> HIDE DEF next
    <2>4. UNCHANGED <<journal, jr, jfault>>
      BY <2>2 DEF Committed, CommitFails
    <2>5. Synced' /\ Holds' /\ Accepted(journal, meta)'
      BY <1>0, <2>1, <2>4 DEF Synced, Paired, Holds, Accepted, LetGo
    <2>6. Installed'
      BY <2>1, <2>2, <2>3, <2>4 DEF Installed, Carried, Committed, TypeOK
    <2>7. QED BY <2>5, <2>6 DEF HandoverInv
  <1>10. CASE CompleteHandoff
    <2>1. /\ jr.status = "VALID" /\ ~jfault /\ journal = jr /\ jr.target \in Slots
          /\ Carried(meta[jr.target], jr.txn) /\ meta[jr.target].state = "PENDING"
      BY <1>10 DEF CompleteHandoff, HandoverInv, Holds, HandingOver, Synced, Paired, Installed
    <2> DEFINE next == Update(IDLE)
    <2>2. /\ next.status = jr.status /\ next.active = jr.active
          /\ next.target = jr.target /\ next.txn = jr.txn
      BY UpdateFields DEF IDLE, ABORTED
    <2>3. (Saved(next) \/ SaveFails(next)) /\ pc' \in {"resolve", "check", "prog"}
      BY <1>10 DEF CompleteHandoff, Failed
    <2> HIDE DEF next
    <2>4. journal' \in {jr, next} /\ UNCHANGED meta
      BY <2>1, <2>3 DEF Saved, SaveFails
    <2>5. Accepted(journal, meta)'
      BY <2>1, <2>2, <2>4 DEF Accepted, LetGo, Carried, Later
    <2>6. Synced'
      BY <1>0, <2>1, <2>2, <2>3 DEF Synced, Paired, Saved, SaveFails
    <2>7. QED BY <2>3, <2>5, <2>6, QuietHandover DEF HandingOver
  <1>11. CASE \E s \in Slots : ResolveExhausted(s)
    <2>1. PICK s \in Slots : ResolveExhausted(s)
      BY <1>11
    <2> DEFINE next == [meta[s] EXCEPT !.state = "INVALID"]
    <2>2. /\ meta[s].status = "VALID" /\ next.status = "VALID"
          /\ next.counter = meta[s].counter /\ next.state = "INVALID"
      <3>1. meta[s] \in Metas
        BY DEF TypeOK
      <3>2. QED BY <2>1, <3>1 DEF ResolveExhausted, Exhausted, Has, Metas
    <2>3. /\ Committed(s, next) \/ CommitFails(s, next)
          /\ UNCHANGED <<jr, jfault>> /\ pc' \in {"resolve", "check", "prog"}
      BY <2>1 DEF ResolveExhausted, Failed
    <2> HIDE DEF next
    <2>4. UNCHANGED journal
      BY <2>3 DEF Committed, CommitFails
    <2>5. Accepted(journal, meta)'
      BY <1>0, <2>2, <2>3, <2>4, CommitAccepted DEF Later
    <2>6. Synced'
      BY <1>0, <2>3, <2>4 DEF Synced, Paired
    <2>7. QED BY <2>3, <2>5, <2>6, QuietHandover DEF HandingOver
  <1>12. CASE EndLifecycle
    BY <1>12, IdleHandover DEF EndLifecycle, Failed, Done, durable, HandingOver
  <1>13. CASE CheckConfirm
    <2> DEFINE next == [meta[req.slot] EXCEPT !.state = "CONFIRMED", !.attempts = 0]
    <2>1. UNCHANGED <<jr, jfault>> /\ ~HandingOver'
      BY <1>13 DEF CheckConfirm, HandingOver
    <2>2. CASE UNCHANGED durable
      BY <2>1, <2>2, IdleHandover DEF durable
    <2>3. CASE /\ Confirmable(req.slot)
               /\ Committed(req.slot, next) \/ CommitFails(req.slot, next)
      <3>1. /\ req.slot \in Slots /\ meta[req.slot].status = "VALID"
            /\ next.status = "VALID" /\ next.counter = meta[req.slot].counter
            /\ next.state = "CONFIRMED"
        <4>1. req.slot \in Slots
          BY DEF TypeOK
        <4>2. meta[req.slot] \in Metas
          BY <4>1 DEF TypeOK
        <4>3. QED BY <2>3, <4>1, <4>2 DEF Confirmable, Has, Metas
      <3> HIDE DEF next
      <3>2. UNCHANGED journal
        BY <2>3 DEF Committed, CommitFails
      <3>3. Accepted(journal, meta)'
        BY <1>0, <2>3, <3>1, <3>2, CommitAccepted DEF Later
      <3>4. Synced'
        BY <1>0, <2>1, <3>2 DEF Synced, Paired
      <3>5. QED BY <2>1, <3>3, <3>4, QuietHandover
    <2>4. QED BY <1>13, <2>2, <2>3 DEF CheckConfirm
  <1>14. CASE CheckRequest
    BY <1>14, IdleHandover DEF CheckRequest, durable, HandingOver
  <1>15. CASE CheckApp
    BY <1>15, IdleHandover DEF CheckApp, durable, HandingOver
  <1>16. CASE Normalize
    BY <1>16, ResetHandover DEF Normalize, Reset, ClearRam, durable
  <1>17. CASE PrepareBoot
    <2>1. running \in Slots
      BY <1>17 DEF PrepareBoot, Located
    <2> DEFINE next == Attempt(meta[running])
    <2>2. UNCHANGED <<jr, jfault>> /\ ~HandingOver'
      BY <1>17 DEF PrepareBoot, HandingOver
    <2>3. CASE UNCHANGED durable
      BY <2>2, <2>3, IdleHandover DEF durable
    <2>4. CASE /\ Priority(running) # 0
               /\ Committed(running, next) \/ CommitFails(running, next)
      <3>1. /\ meta[running].status = "VALID"
            /\ next.status = "VALID" /\ next.counter = meta[running].counter
            /\ meta[running].state \in Later => next.state \in Later
        <4>1. meta[running] \in Metas
          BY <2>1 DEF TypeOK
        <4>2. meta[running].status = "VALID"
          BY <2>4 DEF Priority, Has
        <4>3. QED BY <4>1, <4>2 DEF Attempt, Metas, Later
      <3> HIDE DEF next
      <3>2. UNCHANGED journal
        BY <2>4 DEF Committed, CommitFails
      <3>3. Accepted(journal, meta)'
        BY <1>0, <2>1, <2>4, <3>1, <3>2, CommitAccepted
      <3>4. Synced'
        BY <1>0, <2>2, <3>2 DEF Synced, Paired
      <3>5. QED BY <2>2, <3>3, <3>4, QuietHandover
    <2>5. QED BY <1>17, <2>3, <2>4 DEF PrepareBoot
  <1>18. CASE Launch
    BY <1>18, IdleHandover DEF Launch, durable, HandingOver
  <1>19. QED
    BY <1>1, <1>2, <1>3, <1>4, <1>5, <1>6, <1>7, <1>8, <1>9, <1>10, <1>11, <1>12, <1>13,
       <1>14, <1>15, <1>16, <1>17, <1>18 DEF Boot

LEMMA ProgrammingHandover ==
  ASSUME TypeOK, HandoverInv, Programming
  PROVE  HandoverInv'
  <1>0. Synced /\ Paired(journal) /\ Accepted(journal, meta)
    BY DEF HandoverInv, Synced
  <1> USE DEF PREPARING, ERASING, DOWNLOAD_READY, PROGRAMMING, TRANSFER_COMPLETE, VERIFYING,
              ABORTED
  <1>1. CASE AbortDownload
    <2>1. ~HandingOver'
      BY <1>1 DEF AbortDownload, HandingOver
    <2>2. CASE Saved(Aborted) \/ SaveFails(Aborted)
      BY <1>0, <2>1, <2>2, AbortedSynced, QuietHandover
    <2>3. CASE UNCHANGED <<durable, jr, jfault>>
      BY <2>1, <2>3, IdleHandover DEF durable
    <2>4. QED BY <1>1, <2>2, <2>3 DEF AbortDownload
  <1>2. CASE EraseRequest
    <2> DEFINE next == [NoJournal EXCEPT !.status = "VALID", !.state = PREPARING,
                          !.active = active.slot, !.target = Target, !.txn = jr.txn + 1]
    <2>1. ~HandingOver'
      BY <1>2 DEF EraseRequest, HandingOver
    <2>2. /\ next.status = "VALID" /\ next.target \in Slots
          /\ next.active # next.target /\ next.state # IDLE
      <3>1. Target # active.slot
        BY DEF Target, TypeOK, Slots, UNKNOWN
      <3>2. QED BY <3>1, TargetType DEF NoJournal, IDLE
    <2>3. \/ Saved(next) \/ SaveFails(next)
          \/ UNCHANGED <<durable, jr, jfault>>
      BY <1>2 DEF EraseRequest
    <2> HIDE DEF next
    <2>4. CASE Saved(next) \/ SaveFails(next)
      BY <1>0, <2>1, <2>2, <2>4, SaveSynced, QuietHandover
    <2>5. CASE UNCHANGED <<durable, jr, jfault>>
      BY <2>1, <2>5, IdleHandover DEF durable
    <2>6. QED BY <2>3, <2>4, <2>5
  <1>3. CASE StartErasing
    BY <1>0, <1>3, UpdateSynced, QuietHandover DEF StartErasing, HandingOver
  <1>4. CASE Wipe
    BY <1>4, IdleHandover DEF Wipe, ram, HandingOver
  <1>5. CASE EraseDone
    BY <1>0, <1>5, UpdateSynced, QuietHandover DEF EraseDone, HandingOver
  <1>6. CASE Download
    BY <1>0, <1>6, UpdateSynced, QuietHandover DEF Download, HandingOver
  <1>7. CASE \E v \in Versions, whole \in BOOLEAN : Transfer(v, whole)
    <2>1. /\ UNCHANGED <<journal, meta, jr>> /\ (UNCHANGED jfault \/ jfault')
          /\ ~HandingOver'
      BY <1>7 DEF Transfer, HandingOver
    <2>2. Synced'
      BY <1>0, <2>1 DEF Synced, Paired
    <2>3. Accepted(journal, meta)'
      BY <1>0, <2>1 DEF Accepted, LetGo, Carried
    <2>4. QED BY <2>1, <2>2, <2>3, QuietHandover
  <1>8. CASE TransferExit
    <2> DEFINE next == [Update(TRANSFER_COMPLETE) EXCEPT !.header = staged]
    <2>1. /\ Saved(next) \/ SaveFails(next)
          /\ ~HandingOver' /\ jr.status = "VALID"
      BY <1>8 DEF TransferExit, CanContinue, HandingOver
    <2>2. /\ next.status = jr.status /\ next.state = TRANSFER_COMPLETE
          /\ next.active = jr.active /\ next.target = jr.target
      BY UpdateFields DEF Update, TypeOK, Journals
    <2> HIDE DEF next
    <2>3. QED BY <1>0, <2>1, <2>2, SaveSynced, QuietHandover DEF Synced, Paired, IDLE
  <1>9. CASE VerifyRequest
    BY <1>0, <1>9, UpdateSynced, QuietHandover DEF VerifyRequest, HandingOver
  <1>10. CASE VerifyImage
    BY <1>10, IdleHandover DEF VerifyImage, durable, ram, HandingOver
  <1>11. CASE PublishHeader
    BY <1>11, IdleHandover DEF PublishHeader, HandingOver
  <1>12. CASE ResetRequest
    BY <1>12, ResetHandover DEF ResetRequest, Reset, ClearRam, durable
  <1>13. CASE \E a \in Slots \cup {UNKNOWN} : Commission(a)
    <2>1. PICK a \in Slots \cup {UNKNOWN} : Commission(a)
      BY <1>13
    <2> DEFINE next == [NoJournal EXCEPT !.status = "VALID", !.state = ABORTED, !.active = a,
                          !.target = IF a = 0 THEN 1 ELSE 0, !.commissioned = TRUE]
    <2>2. Paired(next) /\ ~LetGo(next) /\ next.status = "VALID"
      BY DEF Paired, LetGo, NoJournal, Slots, UNKNOWN, IDLE
    <2>3. NoJournal.status # "VALID" /\ BadJournal.status # "VALID"
      BY DEF NoJournal, BadJournal
    <2>4. /\ UNCHANGED meta /\ ~HandingOver'
          /\ \/ journal' = next /\ jr' = next
             \/ journal' \in {NoJournal, BadJournal, next} /\ jfault' = TRUE /\ UNCHANGED jr
      BY <2>1 DEF Commission, HandingOver
    <2> HIDE DEF next
    <2>5. Synced'
      BY <1>0, <2>2, <2>3, <2>4 DEF Synced, Paired
    <2>6. Accepted(journal, meta)'
      BY <2>2, <2>3, <2>4 DEF Accepted, LetGo
    <2>7. QED BY <2>4, <2>5, <2>6, QuietHandover
  <1>14. CASE Refresh
    BY <1>14, IdleHandover DEF Refresh, durable, HandingOver
  <1>15. QED
    BY <1>1, <1>2, <1>3, <1>4, <1>5, <1>6, <1>7, <1>8, <1>9, <1>10, <1>11, <1>12, <1>13,
       <1>14 DEF Programming

LEMMA HandoverStep ==
  ASSUME TypeOK, Located, HandoverInv, [Next]_vars
  PROVE  HandoverInv'
  <1>1. CASE Boot
    BY <1>1, BootHandover
  <1>2. CASE Application
    <2>1. UNCHANGED <<journal, meta>> /\ jr' = NoJournal /\ pc' = "recover"
      BY <1>2 DEF Application, AppConfirm, AppRequestProgramming, AppCrash, Reset, ClearRam,
                  durable
    <2>2. QED BY <2>1, ResetHandover
  <1>3. CASE Programming
    BY <1>3, ProgrammingHandover
  <1>4. CASE Environment
    <2>1. CASE HardwareReset
      BY <2>1, ResetHandover DEF HardwareReset, Reset, ClearRam, durable
    <2>2. CASE \E s \in Slots : Rot(s)
      BY <2>2, IdleHandover DEF Rot, ram, HandingOver
    <2>3. QED BY <1>4, <2>1, <2>2 DEF Environment
  <1>5. CASE UNCHANGED vars
    <2>1. UNCHANGED <<journal, meta, jr, jfault, pc>>
      BY <1>5 DEF vars, durable, ram
    <2>2. QED
      BY <2>1 DEF HandoverInv, Synced, Paired, Holds, HandingOver, Installed, Carried,
                  Accepted, LetGo
  <1>6. QED BY <1>1, <1>2, <1>3, <1>4, <1>5 DEF Next

LEMMA HandoverInvariance == Spec => [](TypeInv /\ HandoverInv)
  <1>1. Init => HandoverInv
    <2> SUFFICES ASSUME Init PROVE HandoverInv
      OBVIOUS
    <2>1. Paired(journal) /\ ~LetGo(journal)
      <3> USE DEF Paired, LetGo, NoJournal, Slots, IDLE
      <3>1. CASE Factory
        BY <3>1 DEF Factory, BadJournal
      <3>2. CASE Commissioned
        BY <3>2 DEF Commissioned, ABORTED
      <3>3. CASE Migrated
        <4>1. PICK v \in Versions \ {1} :
                journal = [NoJournal EXCEPT !.status = "VALID", !.active = 0, !.target = 1,
                             !.state = PENDING_ACTIVATION, !.txn = 1, !.header = v]
          BY <3>3 DEF Migrated
        <4>2. QED BY <4>1 DEF PENDING_ACTIVATION
      <3>4. QED BY <3>1, <3>2, <3>3 DEF Init
    <2>2. jr.status # "VALID" /\ ~HandingOver /\ pc = "recover"
      BY DEF Init, NoJournal, HandingOver
    <2>3. QED
      BY <2>1, <2>2 DEF HandoverInv, Synced, Paired, Accepted, Holds, Installed
  <1>2. TypeInv /\ HandoverInv /\ [Next]_vars => HandoverInv'
    BY HandoverStep DEF TypeInv
  <1>3. QED BY <1>1, <1>2, TypeInvariance, PTL DEF Spec

(* The journal lets go of an update (BootUpdate_CompleteActivationHandoff) *)
(* only when the target's metadata carry it, whatever was cut, failed or   *)
(* rotted before, and no later update, trial, rollback or confirmation     *)
(* makes them carry another transaction while the journal stays IDLE.      *)
THEOREM HandoverSafe == Spec => []HandedOverOnce
  <1>1. HandoverInv => HandedOverOnce
    BY DEF HandoverInv, Accepted, LetGo, Carried, Later, HandedOverOnce
  <1>2. QED BY <1>1, HandoverInvariance, PTL
=============================================================================
