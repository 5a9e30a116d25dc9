------------------------------ MODULE BootCore ------------------------------
(***************************************************************************)
(* The update life of a device with two application slots: boot-time       *)
(* recovery of the update journal (boot_update.c), hand-over of a verified *)
(* image to the slot metadata, trial boots, confirmation and rollback      *)
(* (boot_lifecycle.c), boot target selection (boot_manager.c) and the      *)
(* programming server that erases, fills and verifies the inactive slot    *)
(* (boot_programming.c behind boot_uds.c).                                 *)
(*                                                                         *)
(* A step is the code between two durable writes.  The power may fail      *)
(* before every step; a write that fails, or is cut by the power, leaves   *)
(* what AtomicRecord allows (a failed write followed by PowerLoss is the   *)
(* cut one).  DualCopy shows that the record stores keep that promise.     *)
(*                                                                         *)
(* An image is the number of its version, 0 when CRC or vectors reject it; *)
(* a slot boots the image both its payload and its header name.            *)
(***************************************************************************)
EXTENDS Integers

CONSTANTS
  MaxAttempts,  \* BOOT_MAX_TRIAL_ATTEMPTS
  Versions,     \* versions of images a tester may send
  MaxTxn,       \* bound: update transactions per journal life
  MaxFaults,    \* bound: failed writes and resets, unless Unlimited
  Unlimited,    \* faults may go on for ever
  MayRot,       \* a whole image may turn bad in flash after it was verified
  Pin,          \* levels the programming pin may have at boot
  Starts        \* conditions in which devices leave production

ASSUME MaxAttemptsAssumption == MaxAttempts \in Nat /\ MaxAttempts >= 1
ASSUME VersionsAssumption == Versions \subseteq Nat \ {0} /\ 1 \in Versions
ASSUME BoundsAssumption == MaxTxn \in Nat /\ MaxFaults \in Nat
ASSUME SwitchesAssumption ==
  Unlimited \in BOOLEAN /\ MayRot \in BOOLEAN /\ Pin \subseteq BOOLEAN
ASSUME StartsAssumption ==
  Starts \subseteq {"factory", "commissioned", "migrated"}

VARIABLES
  journal,  \* durable: the update journal's record
  meta,     \* durable: meta[s], the lifecycle record of slot s
  flash,    \* durable: flash[s], the image payload and header in slot s
  req,      \* retained RAM: the request the application left
  sw,       \* the last reset was a software reset (RCM_SRS_SW)
  pc,       \* the step the running program takes next
  mode,      \* where recovery steps return to: "boot" or "prog"
  jr,       \* BootUpdate_Current, status VALID iff BootUpdate_JournalValid
  jfault,   \* BootUpdate_StorageFault
  reval,    \* target_revalidated
  lfault,   \* storage_fault of boot_lifecycle.c
  active,   \* slot and version BootManager_CaptureActiveSlot found
  ctx,      \* progress of BootProgramming_Context
  staged,   \* image named by the header staged in RAM
  running,  \* the slot chosen, started or running
  vouched,  \* history: slots whose content was commissioned or vouched for
            \* by the application running from it
  trials,   \* history: trial[s] boots of slot s since it became PENDING
  budget    \* faults left to happen

durable == <<journal, meta, flash>>
ram     == <<mode, jr, jfault, reval, lfault, active, ctx, staged, running>>
history == <<vouched, trials>>
vars    == <<durable, req, sw, pc, ram, history, budget>>

Slots   == {0, 1}
UNKNOWN == 2

(* BootUpdateState                                                         *)
IDLE == 0
PREPARING == 1
ERASING == 2
DOWNLOAD_READY == 3
PROGRAMMING == 4
TRANSFER_COMPLETE == 5
VERIFYING == 6
VERIFIED == 7
PENDING_ACTIVATION == 8
ABORTED == 9

NoRequest == [kind |-> "none", slot |-> 0]

(* What BootUpdate_LoadRecoveryState clears the journal to.                *)
NoJournal == [status |-> "EMPTY", state |-> IDLE, active |-> UNKNOWN,
              target |-> UNKNOWN, txn |-> 0, commissioned |-> FALSE,
              header |-> 0]

NoMeta == [status |-> "EMPTY", state |-> "EMPTY", version |-> 0,
           counter |-> 0, attempts |-> 0]

BadJournal == [NoJournal EXCEPT !.status = "INVALID"]
BadMeta == [NoMeta EXCEPT !.status = "INVALID"]

NoActive == [slot |-> UNKNOWN, version |-> 0]

Record(state, version, counter, attempts) ==
  [status |-> "VALID", state |-> state, version |-> version,
   counter |-> counter, attempts |-> attempts]

Image(s) == IF flash[s].header = flash[s].payload THEN flash[s].header ELSE 0
Has(s, state) == meta[s].status = "VALID" /\ meta[s].state = state

Update(state) == [jr EXCEPT !.state = state]
-----------------------------------------------------------------------------
(* Devices: fresh from the factory, no record written and sectors possibly *)
(* unusable; commissioned with one application; or carrying the journal of *)
(* firmware that had no metadata yet and has just verified an update.      *)
Whole(v) == [payload |-> v, header |-> v]

Factory ==
  /\ journal \in {NoJournal, BadJournal}
  /\ meta \in [Slots -> {NoMeta, BadMeta}]
  /\ flash \in [Slots -> {Whole(0), Whole(1)}]

Commissioned ==
  /\ journal = [NoJournal EXCEPT !.status = "VALID", !.state = ABORTED,
                  !.active = 0, !.target = 1, !.commissioned = TRUE]
  /\ meta = [s \in Slots |-> IF s = 0 THEN Record("CONFIRMED", 1, 0, 0) ELSE NoMeta]
  /\ flash = [s \in Slots |-> Whole(IF s = 0 THEN 1 ELSE 0)]

Migrated ==
  \E v \in Versions \ {1} :
    /\ journal = [NoJournal EXCEPT !.status = "VALID", !.active = 0, !.target = 1,
                    !.state = PENDING_ACTIVATION, !.txn = 1, !.header = v]
    /\ meta = [s \in Slots |-> NoMeta]
    /\ flash = [s \in Slots |-> Whole(IF s = 0 THEN 1 ELSE v)]

Init ==
  /\ \/ "factory" \in Starts /\ Factory
     \/ "commissioned" \in Starts /\ Commissioned
     \/ "migrated" \in Starts /\ Migrated
  /\ req = NoRequest /\ sw = FALSE /\ pc = "recover"
  /\ mode = "boot" /\ jr = NoJournal /\ jfault = FALSE /\ reval = FALSE
  /\ lfault = FALSE /\ active = NoActive /\ ctx = "none" /\ staged = 0
  /\ running = UNKNOWN
  /\ vouched = {s \in Slots : Has(s, "CONFIRMED")}
  /\ trials = [s \in Slots |-> 0]
  /\ budget = MaxFaults

(* A fault happens: it uses up the budget.                                 *)
Disturb == IF Unlimited THEN UNCHANGED budget
           ELSE budget > 0 /\ budget' = budget - 1

(* RAM is lost; only the request record and the reset cause survive.       *)
ClearRam ==
  /\ mode' = "boot" /\ jr' = NoJournal /\ jfault' = FALSE /\ reval' = FALSE
  /\ lfault' = FALSE /\ active' = NoActive /\ ctx' = "none" /\ staged' = 0
  /\ running' = UNKNOWN

Reset(software) ==
  /\ sw' = software
  /\ pc' = "recover"
  /\ ClearRam
  /\ UNCHANGED <<durable, history>>

(* Power cycle, watchdog or pin reset: the request record may survive it.  *)
HardwareReset ==
  /\ Disturb
  /\ req' \in {req, NoRequest}
  /\ Reset(FALSE)
-----------------------------------------------------------------------------
(* Journal commits: save() of boot_update.c.  A failed commit is durable   *)
(* or not, and blocks every later one until the next reset.                *)
CanContinue == jr.status = "VALID" /\ ~jfault

TransitionAllowed(from, to) ==
  \/ from = PENDING_ACTIVATION /\ to = IDLE
  \/ to = PREPARING /\ from \in {IDLE, ABORTED, PENDING_ACTIVATION}
  \/ to = ABORTED /\ from \in PREPARING .. ABORTED
  \/ from \in PREPARING .. VERIFIED /\ to = from + 1

Saved(next) ==
  /\ CanContinue
  /\ journal' = next /\ jr' = next
  /\ UNCHANGED <<meta, flash, jfault, budget>>

SaveFails(next) ==
  /\ IF CanContinue
     THEN Disturb /\ journal' \in {journal, next} /\ jfault' = TRUE
     ELSE UNCHANGED <<journal, jfault, budget>>
  /\ UNCHANGED <<meta, flash, jr>>

(* Metadata commits: write_record() of boot_metadata.c.  A slot that has   *)
(* no valid record may be left with unreadable sectors.                    *)
Committed(s, next) ==
  /\ meta' = [meta EXCEPT ![s] = next]
  /\ UNCHANGED <<journal, flash, lfault, budget>>

CommitFails(s, next) ==
  /\ Disturb
  /\ \E left \in {meta[s], next} \cup
       (IF meta[s].status = "VALID" THEN {}
        ELSE {NoMeta, BadMeta}) :
       meta' = [meta EXCEPT ![s] = left]
  /\ lfault' = TRUE
  /\ UNCHANGED <<journal, flash>>
-----------------------------------------------------------------------------
(* Boot-time recovery: BootUpdate_LoadRecoveryState.                       *)
Recover ==
  /\ pc = "recover"
  /\ jr' = IF journal.status = "VALID" THEN journal ELSE NoJournal
  /\ pc' = IF journal.status # "VALID" \/ journal.state \in {IDLE, ABORTED} THEN "lifecycle"
           ELSE IF journal.state \in PREPARING .. PROGRAMMING THEN "abort"
           ELSE IF journal.state = TRANSFER_COMPLETE THEN "verifying"
           ELSE "publish"
  /\ UNCHANGED <<durable, req, sw, mode, jfault, reval, lfault, active, ctx,
                 staged, running, history, budget>>

(* The interrupted update is given up: BootUpdate_Abort.                   *)
Aborted == [Update(ABORTED) EXCEPT !.commissioned = FALSE]

AbortUpdate ==
  /\ pc = "abort"
  /\ Saved(Aborted) \/ SaveFails(Aborted)
  /\ reval' = FALSE
  /\ pc' = IF mode = "boot" THEN "lifecycle" ELSE "prog"
  /\ UNCHANGED <<req, sw, mode, lfault, active, ctx, staged, running, history>>

RecoverVerifying ==
  /\ pc = "verifying"
  /\ \/ Saved(Update(VERIFYING)) /\ pc' = "publish"
     \/ SaveFails(Update(VERIFYING)) /\ pc' = "lifecycle"
  /\ UNCHANGED <<req, sw, mode, reval, lfault, active, ctx, staged, running, history>>

(* Faulty variant: recovery does not compare versions.                     *)
PublishableAnyVersion(from, to, header) ==
  to \in Slots /\ to # from /\ header # 0 /\ flash[to].payload = header

(* BootImageInstall_ValidateAndPublish: the payload must be the image the  *)
(* cached header names, newer than a valid active one; the header is       *)
(* written unless it is already in place.                                  *)
Publishable(from, to, header) ==
  /\ to \in Slots /\ to # from
  /\ header # 0 /\ flash[to].payload = header
  /\ from \in Slots /\ Image(from) # 0 => header > Image(from)

Published ==
  IF jr.state = PENDING_ACTIVATION
  THEN pc' = "lifecycle" /\ reval' = TRUE
  ELSE pc' = "mark" /\ UNCHANGED reval

Publish ==
  /\ pc = "publish"
  /\ UNCHANGED <<journal, meta>>
  /\ \/ /\ Publishable(jr.active, jr.target, jr.header)
        /\ flash' = [flash EXCEPT ![jr.target].header = jr.header]
        /\ Published
        /\ UNCHANGED budget
     \/ /\ Publishable(jr.active, jr.target, jr.header)
        /\ flash[jr.target].header # jr.header
        /\ Disturb
        /\ \E left \in {flash[jr.target].header, 0, jr.header} :
             flash' = [flash EXCEPT ![jr.target].header = left]
        /\ pc' = "abort" /\ UNCHANGED reval
     \/ /\ ~Publishable(jr.active, jr.target, jr.header)
        /\ pc' = "abort"
        /\ UNCHANGED <<flash, reval, budget>>
  /\ UNCHANGED <<req, sw, mode, jr, jfault, lfault, active, ctx, staged, running, history>>

(* BootUpdate_MarkVerified: VERIFIED, then PENDING_ACTIVATION, two commits.*)
MarkVerified ==
  /\ pc = "mark"
  /\ LET next == IF jr.state = VERIFYING THEN Update(VERIFIED)
                                         ELSE Update(PENDING_ACTIVATION)
         end  == IF mode = "boot" THEN "lifecycle" ELSE "prog"
     IN  \/ /\ Saved(next)
            /\ IF next.state = VERIFIED
               THEN pc' = "mark" /\ UNCHANGED <<reval, ctx>>
               ELSE /\ pc' = end /\ reval' = TRUE
                    /\ ctx' = IF mode = "prog" THEN "verified" ELSE ctx
         \/ SaveFails(next) /\ pc' = end /\ UNCHANGED <<reval, ctx>>
  /\ UNCHANGED <<req, sw, mode, lfault, active, staged, running, history>>
-----------------------------------------------------------------------------
(* BootLifecycle_Init: reconcile_journal, then resolve_exhausted_trials.   *)
(* It runs at boot, and again when FF02 has created a journal.             *)
Failed == IF mode = "boot" THEN "check" ELSE "prog"
Done   == IF mode = "boot" THEN "check" ELSE "refresh"

(* Faulty variant: takes an earlier update's record for this one's.        *)
HandedOverAnyTxn ==
  Has(jr.target, "PENDING") /\ meta[jr.target].version = Image(jr.target)

(* The target's record already is what the hand-over has to produce.       *)
HandedOver ==
  /\ Has(jr.target, "PENDING")
  /\ meta[jr.target].version = Image(jr.target)
  /\ meta[jr.target].counter = jr.txn

Handover == IF HandedOver THEN "handoff" ELSE "install"

JournalUnusable == jr.status # "VALID" \/ jfault
Pending == jr.state = PENDING_ACTIVATION

ImageLost ==
  /\ Pending
  /\ \/ Image(jr.target) = 0
     \/ jr.active \in Slots /\ Image(jr.active) = 0

(* Faulty variant: hands over without a fallback.                          *)
FallbackUnchecked == FALSE

(* The active slot is not the confirmed fallback an update needs.          *)
NoFallback ==
  /\ Pending /\ jr.active \in Slots
  /\ meta[jr.active].status # "EMPTY" /\ ~Has(jr.active, "CONFIRMED")

(* The active slot runs an image its metadata has never heard of.          *)
FirstRecord ==
  /\ jr.active \in Slots
  /\ meta[jr.active].status = "EMPTY" /\ Image(jr.active) # 0
  /\ Pending \/ (jr.state = ABORTED /\ jr.commissioned)

Reconcile ==
  /\ pc = "lifecycle"
  /\ lfault' = (JournalUnusable \/ (~ImageLost /\ NoFallback))
  /\ \/ (JournalUnusable \/ ImageLost \/ NoFallback) /\ pc' = Failed
     \/ /\ ~(JournalUnusable \/ ImageLost \/ NoFallback)
        /\ pc' = IF FirstRecord THEN "initialize"
                 ELSE IF Pending THEN Handover ELSE "resolve"
  /\ UNCHANGED <<durable, req, sw, mode, jr, jfault, reval, active, ctx,
                 staged, running, history, budget>>

(* initialize_confirmed: the running application becomes CONFIRMED.        *)
InitializeConfirmed ==
  /\ pc = "initialize"
  /\ LET next == Record("CONFIRMED", Image(jr.active), jr.txn, 0)
     IN  \/ /\ Committed(jr.active, next)
            /\ pc' = IF jr.state = PENDING_ACTIVATION THEN Handover ELSE "resolve"
            /\ vouched' = vouched \cup {jr.active}
         \/ CommitFails(jr.active, next) /\ pc' = Failed
            /\ vouched' = IF meta'[jr.active] = next THEN vouched \cup {jr.active} ELSE vouched
  /\ UNCHANGED <<req, sw, mode, jr, jfault, reval, active, ctx, staged, running, trials>>

(* BootMetadata_InstallVerified: whatever the slot's record said, it now   *)
(* describes the verified image.                                           *)
InstallVerified ==
  /\ pc = "install"
  /\ LET next == Record("VERIFIED", Image(jr.target), jr.txn, 0)
     IN  \/ Committed(jr.target, next) /\ pc' = "pend"
         \/ meta[jr.target] # next /\ CommitFails(jr.target, next) /\ pc' = Failed
  /\ UNCHANGED <<req, sw, mode, jr, jfault, reval, active, ctx, staged, running, history>>

SetPending ==
  /\ pc = "pend"
  /\ LET next == [meta[jr.target] EXCEPT !.state = "PENDING"]
     IN  \/ Committed(jr.target, next) /\ pc' = "handoff"
            /\ trials' = [trials EXCEPT ![jr.target] = 0]
         \/ CommitFails(jr.target, next) /\ pc' = Failed
            /\ trials' = [trials EXCEPT ![jr.target] = 0]
  /\ UNCHANGED <<req, sw, mode, jr, jfault, reval, active, ctx, staged, running, vouched>>

(* BootUpdate_CompleteActivationHandoff: the journal lets go of the update.*)
CompleteHandoff ==
  /\ pc = "handoff"
  /\ \/ Saved(Update(IDLE)) /\ pc' = "resolve" /\ UNCHANGED lfault
     \/ SaveFails(Update(IDLE)) /\ pc' = Failed /\ lfault' = TRUE
  /\ UNCHANGED <<req, sw, mode, reval, active, ctx, staged, running, history>>

(* Faulty variant: gives an image on trial up one start early.             *)
ExhaustedEarly(s) == Has(s, "TRIAL") /\ meta[s].attempts >= MaxAttempts - 1

Exhausted(s) == Has(s, "TRIAL") /\ meta[s].attempts >= MaxAttempts

(* Past the trials a slot is given: INVALID, the rollback.                 *)
ResolveExhausted(s) ==
  /\ pc = "resolve"
  /\ \E o \in Slots : meta[o].status # "INVALID"
  /\ Exhausted(s) /\ (s = 1 => ~Exhausted(0))
  /\ LET next == [meta[s] EXCEPT !.state = "INVALID"]
     IN  \/ Committed(s, next) /\ UNCHANGED pc
         \/ CommitFails(s, next) /\ pc' = Failed
  /\ UNCHANGED <<req, sw, mode, jr, jfault, reval, active, ctx, staged, running, history>>

EndLifecycle ==
  /\ pc = "resolve"
  /\ \/ /\ \A o \in Slots : meta[o].status = "INVALID"
        /\ lfault' = TRUE /\ pc' = Failed
     \/ /\ \E o \in Slots : meta[o].status # "INVALID"
        /\ \A o \in Slots : ~Exhausted(o)
        /\ pc' = Done /\ UNCHANGED lfault
  /\ UNCHANGED <<durable, req, sw, mode, jr, jfault, reval, active, ctx,
                 staged, running, history, budget>>
-----------------------------------------------------------------------------
(* Faulty variant: an aborted update blocks both slots.                    *)
SlotAllowedIdle(s) ==
  jr.state = IDLE \/ (s = jr.target /\ jr.state = PENDING_ACTIVATION)

(* Which slots may run.  The journal: no slot that an unfinished update    *)
(* has touched, and its target only once revalidated in this boot.         *)
SlotAllowed(s) ==
  \/ jr.state = IDLE
  \/ s = jr.active
  \/ s = jr.target /\ jr.state = PENDING_ACTIVATION

(* Faulty variant: a journal that is readable permits both slots.          *)
JournalPermitsAny(s) == jr.status = "VALID"

JournalPermits(s) ==
  /\ jr.status = "VALID" /\ SlotAllowed(s)
  /\ s = jr.target /\ jr.state # IDLE => reval /\ ~jfault

(* Faulty variants: the wrong order of preference.                         *)
PriorityTrialLast(s) == IF Has(s, "PENDING") THEN 3
                        ELSE IF Has(s, "CONFIRMED") THEN 2
                        ELSE IF Has(s, "TRIAL") THEN 1 ELSE 0
PriorityConfirmedFirst(s) == IF Has(s, "CONFIRMED") THEN 3
                             ELSE IF Has(s, "TRIAL") THEN 2
                             ELSE IF Has(s, "PENDING") THEN 1 ELSE 0

(* The metadata: TRIAL goes before PENDING goes before CONFIRMED.          *)
Priority(s) == IF Has(s, "TRIAL") THEN 3
               ELSE IF Has(s, "PENDING") THEN 2
               ELSE IF Has(s, "CONFIRMED") THEN 1 ELSE 0

LifecyclePermits(s) == ~lfault /\ Priority(s) # 0

(* BootPolicy_SelectLifecycle among the images info finds in the slots.    *)
Best(info) ==
  {s \in Slots : /\ info[s] # 0 /\ Priority(s) # 0
                 /\ \A o \in Slots : info[o] # 0 => Priority(o) <= Priority(s)}

Select(info) ==
  IF lfault \/ Best(info) = {} THEN UNKNOWN
  ELSE IF 0 \in Best(info) /\ (1 \in Best(info) => info[0] >= info[1]) THEN 0
  ELSE 1

(* SlotAInfo and SlotBInfo: only permitted slots are looked at.            *)
Info == [s \in Slots |->
           IF JournalPermits(s) /\ LifecyclePermits(s) THEN Image(s) ELSE 0]

SelectBootTarget == Select(Info)

Requested(kind) == sw /\ req.kind = kind

(* BootLifecycle_Confirm, asked for by the application before its reset.   *)
Confirmable(s) == Has(s, "TRIAL") /\ Select([o \in Slots |-> Image(o)]) = s

CheckConfirm ==
  /\ pc = "check" /\ Requested("confirm")
  /\ LET next == [meta[req.slot] EXCEPT !.state = "CONFIRMED", !.attempts = 0]
     IN  \/ Confirmable(req.slot) /\ Committed(req.slot, next)
         \/ Confirmable(req.slot) /\ CommitFails(req.slot, next)
         \/ ~Confirmable(req.slot) /\ UNCHANGED <<durable, lfault, budget>>
  /\ req' = NoRequest
  /\ UNCHANGED <<sw, pc, mode, jr, jfault, reval, active, ctx, staged, running, history>>

(* BootManager_CaptureActiveSlot: the slot an update must not touch.  A    *)
(* protected image that cannot run keeps its identity.                     *)
Captured(software) ==
  LET chosen == IF SelectBootTarget = UNKNOWN /\ jr.status = "VALID"
                THEN jr.active ELSE SelectBootTarget
      slot   == IF software /\ Info[req.slot] # 0 THEN req.slot ELSE chosen
  IN  [slot |-> slot, version |-> IF slot \in Slots THEN Info[slot] ELSE 0]

(* BOOT_STATE_CHECK_REQUEST after confirmation: stay for programming when  *)
(* the application or the pin asks for it.                                 *)
CheckRequest ==
  /\ pc = "check" /\ ~Requested("confirm")
  /\ active' = Captured(Requested("program"))
  /\ req' = IF Requested("program") THEN NoRequest ELSE req
  /\ \E pressed \in Pin :
       IF Requested("program") \/ pressed
       THEN pc' = "prog" /\ mode' = "prog"
       ELSE pc' = "select" /\ UNCHANGED mode
  /\ UNCHANGED <<durable, sw, jr, jfault, reval, lfault, ctx, staged,
                 running, history, budget>>

CheckApp ==
  /\ pc = "select"
  /\ running' = SelectBootTarget
  /\ IF SelectBootTarget = UNKNOWN
     THEN pc' = "prog" /\ mode' = "prog"
     ELSE pc' = "jump" /\ UNCHANGED mode
  /\ UNCHANGED <<durable, req, sw, jr, jfault, reval, lfault, active, ctx,
                 staged, history, budget>>

(* Applications only start after a software reset: any other boot resets   *)
(* once more and thereby overwrites the request record.                    *)
Normalize ==
  /\ pc = "jump" /\ ~sw
  /\ req' = NoRequest
  /\ Reset(TRUE)
  /\ UNCHANGED budget

(* Faulty variant: only the first start is charged.                        *)
AttemptOnce(m) ==
  IF m.state = "PENDING" THEN [m EXCEPT !.state = "TRIAL", !.attempts = 1] ELSE m

Attempt(m) ==
  CASE m.state = "PENDING" -> [m EXCEPT !.state = "TRIAL", !.attempts = 1]
    [] m.state = "TRIAL" -> [m EXCEPT !.attempts = @ + 1]
    [] OTHER -> m

(* Faulty variant: relies on exhausted trials having been resolved.        *)
NeverUsedUp(m) == FALSE

UsedUp(m) == m.state = "TRIAL" /\ m.attempts >= MaxAttempts

(* BootLifecycle_PrepareBoot: the attempt is durable before it is made.    *)
PrepareBoot ==
  /\ pc = "jump" /\ sw
  /\ LET m    == meta[running]
         able == Priority(running) # 0 /\ ~UsedUp(m)
     IN  \/ able /\ Committed(running, Attempt(m)) /\ pc' = "launch"
         \/ able /\ Attempt(m) # m /\ CommitFails(running, Attempt(m)) /\ pc' = "error"
         \/ /\ ~able /\ pc' = "error"
            /\ lfault' = (lfault \/ UsedUp(m))
            /\ UNCHANGED <<durable, budget>>
  /\ UNCHANGED <<req, sw, mode, jr, jfault, reval, active, ctx, staged, running, history>>

(* The status record for the application, the last gate, the jump.         *)
Launchable(s) == JournalPermits(s) /\ LifecyclePermits(s) /\ Image(s) # 0

Launch ==
  /\ pc = "launch"
  /\ req' = NoRequest
  /\ pc' = IF Launchable(running) THEN "app" ELSE "error"
  /\ trials' = IF Launchable(running) /\ Has(running, "TRIAL")
               THEN [trials EXCEPT ![running] = @ + 1] ELSE trials
  /\ UNCHANGED <<durable, sw, mode, jr, jfault, reval, lfault, active, ctx,
                 staged, running, vouched, budget>>
-----------------------------------------------------------------------------
(* The application, as AppHealth.c, boot_app_if.c and AppBootRequest.c let *)
(* it act on the bootloader: a healthy one on trial asks to be confirmed,  *)
(* a diagnostic session asks for programming, a crash resets.              *)
AppConfirm ==
  /\ pc = "app" /\ Has(running, "TRIAL")
  /\ req' = [kind |-> "confirm", slot |-> running]
  /\ sw' = TRUE /\ pc' = "recover"
  /\ ClearRam
  /\ vouched' = vouched \cup {running}
  /\ UNCHANGED <<durable, trials, budget>>

AppRequestProgramming ==
  /\ pc = "app"
  /\ req' = [kind |-> "program", slot |-> running]
  /\ Reset(TRUE)
  /\ UNCHANGED budget

AppCrash ==
  /\ pc = "app"
  /\ req' = NoRequest
  /\ Reset(TRUE)
  /\ Disturb
-----------------------------------------------------------------------------
(* The programming server.  A tester that has opened the session and       *)
(* unlocked it may send any request at any time.                           *)
(* Faulty variant: forgets that the active slot may be unknown.            *)
OtherSlot == 1 - active.slot

Target == IF active.slot = UNKNOWN THEN 0 ELSE 1 - active.slot

(* BootUds_AbortDownload: a session request or the transfer time-out       *)
(* throws away whatever has not become PENDING_ACTIVATION.                 *)
AbortDownload ==
  /\ pc = "prog"
  /\ IF jr.status = "VALID" /\ jr.state \in PREPARING .. VERIFIED
     THEN (Saved(Aborted) \/ SaveFails(Aborted)) /\ reval' = FALSE
     ELSE UNCHANGED <<durable, jr, jfault, reval, budget>>
  /\ ctx' = "none"
  /\ UNCHANGED <<req, sw, pc, mode, lfault, active, staged, running, history>>

(* Faulty variant: any slot an application runs from may be updated from.  *)
CanStartUpdateAnyState ==
  ~lfault /\ (active.slot = UNKNOWN => \A s \in Slots : meta[s].status # "VALID")

CanStartUpdate ==
  /\ ~lfault
  /\ IF active.slot = UNKNOWN
     THEN \A s \in Slots : meta[s].status # "VALID"
     ELSE Has(active.slot, "CONFIRMED")

MayBegin ==
  /\ TransitionAllowed(jr.state, PREPARING)
  /\ IF active.slot = UNKNOWN THEN jr.active = UNKNOWN ELSE JournalPermits(active.slot)

(* BootProgramming_Erase: PREPARING, ERASING, the wipe, DOWNLOAD_READY.    *)
(* It first announces itself, and gives up when it cannot.                 *)
EraseRequest ==
  /\ pc = "prog" /\ CanContinue
  /\ ctx \notin {"downloading", "received"}
  /\ CanStartUpdate
  /\ jr.txn < MaxTxn
  /\ ctx' = "none"
  /\ LET next == [NoJournal EXCEPT !.status = "VALID", !.state = PREPARING,
                    !.active = active.slot, !.target = Target, !.txn = jr.txn + 1]
     IN  \/ MayBegin /\ Saved(next) /\ reval' = FALSE /\ pc' = "erasing"
         \/ MayBegin /\ SaveFails(next) /\ UNCHANGED <<reval, pc>>
         \/ ~MayBegin /\ UNCHANGED <<durable, jr, jfault, reval, pc, budget>>
         \/ Disturb /\ UNCHANGED <<durable, jr, jfault, reval, pc>>
  /\ UNCHANGED <<req, sw, mode, lfault, active, staged, running, history>>

StartErasing ==
  /\ pc = "erasing"
  /\ \/ Saved(Update(ERASING)) /\ pc' = "wipe"
     \/ SaveFails(Update(ERASING)) /\ pc' = "prog"
  /\ UNCHANGED <<req, sw, mode, reval, lfault, active, ctx, staged, running, history>>

(* Header first, then the payload, with a response-pending message before  *)
(* every sector.  What a half-done wipe leaves is no image.                *)
Wipe ==
  /\ pc = "wipe"
  /\ \/ /\ flash' = [flash EXCEPT ![Target] = Whole(0)]
        /\ pc' = "ready" /\ UNCHANGED budget
     \/ /\ flash' \in {flash, [flash EXCEPT ![Target] = Whole(0)]}
        /\ pc' = "abort" /\ Disturb
     \/ /\ flash' = [flash EXCEPT ![Target] = Whole(0)]
        /\ pc' = "prog" /\ Disturb
  /\ vouched' = vouched \ {Target}
  /\ UNCHANGED <<journal, meta, req, sw, ram, trials>>

EraseDone ==
  /\ pc = "ready" /\ pc' = "prog"
  /\ \/ Saved(Update(DOWNLOAD_READY)) /\ ctx' = "erased"
     \/ SaveFails(Update(DOWNLOAD_READY)) /\ UNCHANGED ctx
  /\ UNCHANGED <<req, sw, mode, reval, lfault, active, staged, running, history>>

Download ==
  /\ pc = "prog" /\ CanContinue /\ ctx = "erased"
  /\ TransitionAllowed(jr.state, PROGRAMMING)
  /\ \/ Saved(Update(PROGRAMMING)) /\ ctx' = "downloading" /\ staged' = 0
     \/ SaveFails(Update(PROGRAMMING)) /\ UNCHANGED <<ctx, staged>>
  /\ UNCHANGED <<req, sw, pc, mode, reval, lfault, active, running, history>>

(* All blocks of an image v, whole or damaged on the way.  A block that    *)
(* cannot be programmed aborts; a progress record that cannot be saved     *)
(* (its fields are not modelled) ends the download.                        *)
Transfer(v, whole) ==
  /\ pc = "prog" /\ CanContinue /\ ctx = "downloading"
  /\ \/ /\ flash' = [flash EXCEPT ![Target].payload = IF whole THEN v ELSE 0]
        /\ staged' = v /\ ctx' = "received"
        /\ UNCHANGED <<pc, jfault, budget>>
     \/ /\ ctx' = "none" /\ pc' = "abort" /\ Disturb
        /\ UNCHANGED <<flash, staged, jfault>>
     \/ /\ ctx' = "none" /\ jfault' = TRUE /\ Disturb
        /\ UNCHANGED <<flash, staged, pc>>
  /\ UNCHANGED <<journal, meta, req, sw, mode, jr, reval, lfault, active, running, history>>

TransferExit ==
  /\ pc = "prog" /\ CanContinue /\ ctx = "received"
  /\ LET next == [Update(TRANSFER_COMPLETE) EXCEPT !.header = staged]
     IN  \/ Saved(next) /\ ctx' = "complete"
         \/ SaveFails(next) /\ UNCHANGED ctx
  /\ UNCHANGED <<req, sw, pc, mode, reval, lfault, active, staged, running, history>>

(* BootProgramming_Verify: VERIFYING, the checks, the header, then         *)
(* MarkVerified.                                                           *)
VerifyRequest ==
  /\ pc = "prog" /\ CanContinue /\ ctx = "complete"
  /\ TransitionAllowed(jr.state, VERIFYING)
  /\ \/ Saved(Update(VERIFYING)) /\ pc' = "verify"
     \/ SaveFails(Update(VERIFYING)) /\ UNCHANGED pc
  /\ UNCHANGED <<req, sw, mode, reval, lfault, active, ctx, staged, running, history>>

Acceptable ==
  /\ staged # 0 /\ flash[Target].payload = staged
  /\ active.slot \in Slots => staged > active.version

VerifyImage ==
  /\ pc = "verify"
  /\ pc' = IF Acceptable THEN "header" ELSE "abort"
  /\ UNCHANGED <<durable, req, sw, ram, history, budget>>

PublishHeader ==
  /\ pc = "header"
  /\ \/ /\ flash' = [flash EXCEPT ![Target].header = staged]
        /\ pc' = "mark" /\ UNCHANGED <<ctx, budget>>
     \/ /\ flash' \in {flash, [flash EXCEPT ![Target].header = staged]}
        /\ pc' = "prog" /\ UNCHANGED ctx /\ Disturb
     \/ /\ flash' \in {flash, [flash EXCEPT ![Target].header = staged]}
        /\ pc' = "abort" /\ ctx' = "none" /\ Disturb
  /\ UNCHANGED <<journal, meta, req, sw, mode, jr, jfault, reval, lfault, active,
                 staged, running, history>>

(* BootProgramming_CanReset guards the reset that activates the update.    *)
ResetRequest ==
  /\ pc = "prog" /\ CanContinue
  /\ jr.state = PENDING_ACTIVATION /\ ctx = "verified"
  /\ Reset(TRUE)
  /\ UNCHANGED <<req, budget>>

(* Routine FF02 creates the journal of a device that has none it can read, *)
(* naming the slot of the application that runs there, or none.            *)
Commission(a) ==
  /\ pc = "prog" /\ journal.status # "VALID"
  /\ IF a \in Slots THEN Image(a) # 0 ELSE \A s \in Slots : Image(s) = 0
  /\ LET next == [NoJournal EXCEPT !.status = "VALID", !.state = ABORTED, !.active = a,
                    !.target = IF a = 0 THEN 1 ELSE 0, !.commissioned = TRUE]
     IN  \/ /\ journal' = next /\ jr' = next
            /\ jfault' = FALSE /\ reval' = FALSE
            /\ pc' = "lifecycle" /\ UNCHANGED budget
         \/ /\ journal' \in {NoJournal, BadJournal, next}
            /\ jfault' = TRUE /\ Disturb
            /\ UNCHANGED <<jr, reval, pc>>
  /\ UNCHANGED <<meta, flash, req, sw, mode, lfault, active, ctx, staged, running, history>>

Refresh ==
  /\ pc = "refresh" /\ pc' = "prog"
  /\ active' = Captured(FALSE)
  /\ ctx' = "none" /\ staged' = 0
  /\ UNCHANGED <<durable, req, sw, mode, jr, jfault, reval, lfault, running,
                 history, budget>>

(* An image that verified once fails its CRC at a later boot.              *)
Rot(s) ==
  /\ MayRot /\ pc = "recover" /\ Image(s) # 0
  /\ flash' = [flash EXCEPT ![s].payload = 0]
  /\ vouched' = vouched \ {s}
  /\ Disturb
  /\ UNCHANGED <<journal, meta, req, sw, pc, ram, trials>>
-----------------------------------------------------------------------------
(* What the boot code does on its own, up to the application's start.      *)
Boot ==
  \/ Recover
  \/ AbortUpdate
  \/ RecoverVerifying
  \/ Publish
  \/ MarkVerified
  \/ Reconcile
  \/ InitializeConfirmed
  \/ InstallVerified
  \/ SetPending
  \/ CompleteHandoff
  \/ \E s \in Slots : ResolveExhausted(s)
  \/ EndLifecycle
  \/ CheckConfirm
  \/ CheckRequest
  \/ CheckApp
  \/ Normalize
  \/ PrepareBoot
  \/ Launch

Application ==
  \/ AppConfirm
  \/ AppRequestProgramming
  \/ AppCrash

Programming ==
  \/ AbortDownload
  \/ EraseRequest
  \/ StartErasing
  \/ Wipe
  \/ EraseDone
  \/ Download
  \/ \E v \in Versions, whole \in BOOLEAN : Transfer(v, whole)
  \/ TransferExit
  \/ VerifyRequest
  \/ VerifyImage
  \/ PublishHeader
  \/ ResetRequest
  \/ \E a \in Slots \cup {UNKNOWN} : Commission(a)
  \/ Refresh

Environment ==
  \/ HardwareReset
  \/ \E s \in Slots : Rot(s)

Next == Boot \/ Application \/ Programming \/ Environment

Spec == Init /\ [][Next]_vars

(* The boot code runs to its end by itself; neither testers, applications  *)
(* nor faults owe anybody a step.                                          *)
FairSpec == Spec /\ WF_vars(Boot)
-----------------------------------------------------------------------------
Payloads == Versions \cup {0}

Journals ==
  [status : {"EMPTY", "INVALID", "VALID"}, state : IDLE .. ABORTED,
   active : Slots \cup {UNKNOWN}, target : Slots \cup {UNKNOWN}, txn : Nat,
   commissioned : BOOLEAN, header : Payloads]

Metas ==
  [status : {"EMPTY", "INVALID", "VALID"},
   state : {"EMPTY", "VERIFIED", "PENDING", "TRIAL", "CONFIRMED", "INVALID"},
   version : Payloads, counter : Nat, attempts : 0 .. MaxAttempts]

(* Every variable keeps to its range; in particular no record with more    *)
(* attempts than the limit, which BootMetadata_Validate would reject as no *)
(* record at all, is ever written.                                         *)
TypeOK ==
  /\ journal \in Journals /\ jr \in Journals
  /\ meta \in [Slots -> Metas]
  /\ flash \in [Slots -> [payload : Payloads, header : Payloads]]
  /\ req \in [kind : {"none", "confirm", "program"}, slot : Slots]
  /\ pc \in {"recover", "abort", "verifying", "publish", "mark", "lifecycle", "initialize",
             "install", "pend", "handoff", "resolve", "check", "select", "jump", "launch",
             "app", "error", "prog", "erasing", "wipe", "ready", "verify", "header", "refresh"}
  /\ mode \in {"boot", "prog"}
  /\ sw \in BOOLEAN /\ jfault \in BOOLEAN /\ reval \in BOOLEAN /\ lfault \in BOOLEAN
  /\ active \in [slot : Slots \cup {UNKNOWN}, version : Payloads]
  /\ ctx \in {"none", "erased", "downloading", "received", "complete", "verified"}
  /\ staged \in Payloads
  /\ running \in Slots \cup {UNKNOWN}
  /\ vouched \subseteq Slots
  /\ trials \in [Slots -> Nat]
  /\ budget \in 0 .. MaxFaults

Good(s) == Has(s, "CONFIRMED") /\ Image(s) # 0 /\ s \in vouched
OnTrial(s) == Has(s, "VERIFIED") \/ Has(s, "PENDING") \/ Has(s, "TRIAL")

(* While an update waits for its trial or undergoes it, the slot it was    *)
(* started from stays confirmed, whole and vouched for: whatever fails and *)
(* whenever, there is something to roll back to.  (A first installation    *)
(* starts from no slot.)                                                   *)
FallbackKept ==
  \A s \in Slots :
    OnTrial(s) /\ journal.active \in Slots => s = journal.target /\ Good(1 - s)

(* A device that has a confirmed, whole and vouched-for application never  *)
(* loses the last one, in any step of an update, a recovery or a rollback. *)
LastGoodKept == [][(\E s \in Slots : Good(s)) => (\E s \in Slots : Good(s))']_vars

(* No application runs as CONFIRMED unless it was commissioned or has run  *)
(* on trial from this very slot content and asked to be confirmed; and the *)
(* metadata it runs under describe the image that is in the slot.          *)
RunsVouched ==
  pc = "app" => /\ Has(running, "CONFIRMED") => running \in vouched
                /\ meta[running].version = Image(running)

(* An update on trial is newer than the application it would replace.      *)
NoDowngrade ==
  \A s \in Slots : pc = "app" /\ running = s /\ Has(s, "TRIAL") /\ Good(1 - s)
                  => Image(s) > Image(1 - s)

(* Every start of an unconfirmed image was charged to its record before    *)
(* the jump: no sequence of resets gives it more than MaxAttempts starts.  *)
TrialsCharged ==
  \A s \in Slots : /\ trials[s] <= MaxAttempts
                   /\ Has(s, "TRIAL") => trials[s] <= meta[s].attempts

(* The journal has let go of an update only when the target's metadata     *)
(* carry it: no cut between the two commits loses or repeats the hand-over.*)
HandedOverOnce ==
  journal.status = "VALID" /\ journal.state = IDLE =>
    /\ meta[journal.target].status = "VALID"
    /\ meta[journal.target].counter = journal.txn
    /\ meta[journal.target].state \in {"PENDING", "TRIAL", "CONFIRMED", "INVALID"}

(* An image whose trial has begun stays in its slot until the verdict, as  *)
(* no erase can be had while it is on trial, not even through a request an *)
(* earlier application left in retained RAM.  (A pending one may be erased *)
(* through such a request.)                                                *)
TrialImageKept == [][\A s \in Slots : Has(s, "TRIAL") => UNCHANGED flash[s]]_vars

(* The journal and the slot records live the life of SlotLife: whatever is *)
(* cut, retried or repeated, they change one at a time, an update starts   *)
(* from a confirmed slot, is installed while the journal holds it, never   *)
(* over a trial, is let go of when its record is in place, and is rejected *)
(* after exactly the starts it was given.  Where a step of this module     *)
(* leaves out the test of a table of transitions, the code's never fails.  *)
JournalSeen(j) ==
  IF j.status = "VALID"
  THEN [state |-> j.state, active |-> j.active, target |-> j.target, txn |-> j.txn]
  ELSE [state |-> -1, active |-> UNKNOWN, target |-> UNKNOWN, txn |-> 0]
RecordSeen(m) ==
  IF m.status = "VALID"
  THEN [state |-> m.state, version |-> m.version, counter |-> m.counter,
        attempts |-> m.attempts]
  ELSE [state |-> "NONE", version |-> 0, counter |-> 0, attempts |-> 0]
Life == INSTANCE SlotLife WITH
  update <- JournalSeen(journal), slot <- [s \in Slots |-> RecordSeen(meta[s])]
LifeKept == Life!Spec

(* With no more faults, a device that has a good application, and whose    *)
(* active image has not turned bad in flash, comes to run an application   *)
(* unless it was asked to stay for programming.                            *)
Calm == budget = 0 /\ ~Unlimited
Unspoilt(s) == s \in Slots => Image(s) # 0
BootsAgain ==
  Calm /\ pc = "recover" /\ ~Requested("program") /\ (\E s \in Slots : Good(s))
       /\ (journal.status = "VALID" => Unspoilt(journal.active))
    ~> pc = "app"

(* With no more faults, a verified update that is waiting in the journal   *)
(* is started, if neither its image nor the one it would replace has       *)
(* turned bad in flash.                                                    *)
UpdateStarts ==
  Calm /\ pc = "recover" /\ ~Requested("program") /\ journal.status = "VALID"
       /\ journal.state = PENDING_ACTIVATION
       /\ Unspoilt(journal.target) /\ Unspoilt(journal.active)
    ~> pc = "app" /\ running = journal.target /\ Has(running, "TRIAL")
=============================================================================
