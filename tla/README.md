# Verification of the S32K144 bootloader

TLA+ models of the S32K144 A/B bootloader (`src/Bootloader`), of its Linux
gateway (`src/linux_gateway`), of the transport and the kernel its application
(`src/src`) stands on, TLC runs over small instances, and TLAPS proofs for every
value of the constants.

| module | kind | models |
|---|---|---|
| `AtomicRecord` | abstract specification | what one durable record promises its callers |
| `DualCopy` | component | the two-sector record store of `boot_journal.c` and `boot_metadata.c` |
| `DualCopyProofs` | proofs | invariants of the store, and that it implements `AtomicRecord` |
| `BootCore` | composition | journal recovery, slot lifecycle, boot manager, programming server, application |
| `SlotLife` | abstract specification | what the durable records promise about the life of a device |
| `BootCoreClaims` | properties | statements of the documents that the code does not keep |
| `BootCoreProofs` | proofs | type correctness, the bound on trial starts, the hand-over from journal to metadata |
| `FallbackProofs` | proofs | the inductive invariant of the two slots and the safety properties it yields; that `BootCore` implements `SlotLife` |
| `InactiveSlot` | abstract specification | what an update promises about the slot it writes |
| `FlashSession` | composition | gateway flasher, UDS messages and programming server, from the first session request to the version poll |
| `FlashSlotProofs` | proofs | the server and the slot it writes: types, header, journal, and that the update implements `InactiveSlot` |
| `FlashWireProofs` | proofs | flasher, messages and server together: whose writes, whose bytes, what a passed verification means |
| `IsoTp` | composition | the three ISO-TP implementations against each other over a channel that loses frames |
| `IsoTpProofs` | proofs | type correctness and the three safety properties of `IsoTp` |
| `Fifo` | abstract specification | what a queue promises its users |
| `RingBuffer` | component | the storage of a FreeRTOS queue |
| `Kernel` | component | scheduler, tick, queue calls and interrupts of FreeRTOS as the application configures it |
| `MCKernel` | model checking | three tasks and their calls for `Kernel` |
| `KernelProofs` | proofs | the queue implements `Fifo`; the scheduler keeps its lists exact and runs a most urgent task; suspension excludes the other tasks; no wake-up is lost; no wait ends early |
| `AppTasks` | composition | the application's tasks where they share data: fault memory, diagnostics, pending reset request |
| `AppTasksProofs` | proofs | type correctness and the three properties of `AppTasks` |

`BootCore` and `FlashSession` overlap on purpose in the programming server:
`BootCore` has every device, every boot and an unrestricted tester but no bytes;
`FlashSession` has one device in order, the bytes, the messages and the tester
this repository ships. `IsoTp` is below `FlashSession` (whole messages or none),
`Kernel` below `IsoTp` (its queues and the order of its tasks). `AppTasks` takes
from `Kernel` that the most urgent busy task runs, and hands `BootCore` the
request an application leaves.

## 1. The system

A device has a bootloader, two application slots A and B, two journal sectors
and two metadata sectors per slot. The application runs from one slot; an
update goes to the other one. Nothing but the bootloader writes flash, through
a driver in RAM. Every writer can be cut by a power loss or a watchdog.

### Components, their state and their operations

**Update journal store** (`boot_journal.c`). State: two flash sectors with a
128-byte record each. `LoadLatest` picks the newer valid one by modular
sequence comparison; `Commit` and `Initialize` erase the other sector, program
16 phrases, read back. Correct when a read after any cut returns the old record
or the new one, success means durable, and two valid sectors are never
ambiguous, at a wrap included.

**Slot metadata store** (`boot_metadata.c`). The same discipline, per slot, with
a table of allowed transitions; `InstallVerified` alone may replace a record of
any state. Correct when no record is written that its own validation rejects.

**Update journal state machine** (`boot_update.c`, `boot_recovery_policy.c`,
`boot_image_install.c`). RAM: the current record, its validity, `StorageFault`,
`target_revalidated`. Operations: `Begin`, `SetState`, `SetProgress`,
`MarkTransferComplete`, `MarkVerified`, `Abort`, `CompleteActivationHandoff`,
`InitializeJournal`, `LoadRecoveryState`. Correct when a reset at any point is
followed either by an abort or by the completion of the update, and no slot an
update has touched runs before it was validated again.

**Slot lifecycle** (`boot_lifecycle.c`, `boot_policy.c`). State: one record per
slot (EMPTY, VERIFIED, PENDING, TRIAL, CONFIRMED, INVALID; attempts; version;
transaction), RAM copies and `storage_fault`. Operations: `Init` (hand-over of a
pending update, rollback of exhausted trials), `Select`, `PrepareBoot` (charges
the attempt), `Confirm`, `CanStartUpdate`, `WriteAppHandover`. Correct when
there is always a fallback, each unconfirmed start is charged before it is
made, and only confirmed images stay.

**Boot manager** (`boot_manager.c`, `boot_jump.c`, `boot_request.c`,
`boot_reset_reason.c`). A state loop INIT, CHECK_REQUEST, CHECK_APP, JUMP_APP,
PROGRAMMING, ERROR. It reads the request record in retained RAM, captures the
active slot, resets once more when the boot was not a software reset, and has a
last gate in front of the jump. Correct when a good application is reached from
every state and a stale request does no harm.

**Programming server** (`boot_programming.c`) behind the **UDS server**
(`boot_uds.c`, `boot_security.c`). RAM: `BootProgramming_Context`, session,
security state, transfer time-out. Operations: Erase, Download, Transfer, Exit,
Verify, CanReset, Abort; FF02 commissioning. Correct when only the inactive slot
is written, an abort leaves nothing bootable behind, and the reset is refused
until the update is pending.

**Bootloader transport** (`boot_isotp.c`, `boot_can.c`). One reassembly at a
time, polling; the sender waits for flow control in a loop. Correct when a
request is delivered whole or not at all.

**Flash driver** (`src/FlashDriver`, `boot_flash.c`). State: the target window.
It erases a sector or programs phrases inside the window and verifies each.
Correct when the window never leaves the target slot or the record addressed.

**Application boot interface** (`boot_app_if.c`, `AppBootRequest.c`,
`AppHealth.c`). State: `PendingMagic` and its tick, shared by the diagnostic
task and the health task. Correct when neither request swallows the other.

**Application transport** (`CanTp.c`, `PduR.c`, `CanIf.c`). ISO-TP with queues
and N_Bs/N_Cr time-outs. Correct when PDUs keep their order and content.

**Application diagnostics** (`Dcm.c`, `Dem.c`). State: session and last request,
per event two debounce counters and a status, the supervision of the control
link and its last heartbeat. UDS with an S3 time-out; faults are reported by one
task, commanded by a second and cleared by a third. Correct when a fault is
raised only for what is still so, and kept until somebody clears it.

**Application signals and tasks** (`Com.c`, `Rte.c`, `VehicleApp.c`,
`AppRTOS.c`): six periodic or waiting tasks of three priorities, signal snapshots
and a command that the receiving task runs itself.

**Gateway** (`linux_gateway/gateway`): a synchronous ISO-TP and UDS client with
retries, and two flashers that drive the programming server step by step.

**FreeRTOS** (`FreeRTOS-Kernel`). State: ready, delayed, pending and event lists,
the tick count, pended ticks and yields, the suspension of the scheduler, per
queue its storage and its locks. Correct when the most urgent ready task runs,
no wake-up is lost between a task that goes to wait and an interrupt that sends,
times are kept over the overflow of the tick, and a queue is a bounded FIFO.

**Board support, vehicle simulation, packaging tools**: not modelled.

### How they interact

- The journal describes the *update*, the metadata the *life of the image*.
  Both are durable, and no write spans both: the hand-over is three commits,
  and a reset may fall between any two.
- The boot manager calls journal recovery, then the lifecycle, then selection;
  `BootUpdate_StorageFault` becomes `storage_fault` on the way.
- Application and bootloader share sixteen bytes of retained RAM: requests one
  way, the status hand-over the other. Each overwrites the other's record.
- The tester drives the server by UDS; a response-pending message goes out
  before slow steps, and a failure to send it makes the operation return early.

### What is hard

Power losses between and inside writes; failed writes that are durable all the
same; accounts kept in two stores; a request record that outlives the boot it
was meant for; records that describe content the slot no longer has; images
that rot; retries and time-outs of the transports; tasks sharing records without
a lock. `PROJECT.json` lists each of these hazards at its line, with the
properties that cover it or the reason why none does.

## 2. DualCopy: two sectors make one atomic record

A sector is how many phrases of which record it holds (`rec`, `seq`, `count`)
and whether it is damaged. CRC, marker and field checks accept exactly a
complete undamaged record: that is the only assumption made about the CRC. A
commit runs through `erase`, `program` (once per phrase) and `readback`.
`Interrupted` ends the command in progress untouched, half done (damaged) or
done, and with it the commit: as a failed command (`CommandFails`) or by a loss
of power (`PowerLossInCommit`). A phrase may be `worn`: it programs without an
error and fails the read-back.

| TLA+ | code |
|---|---|
| `SequenceNewer`, `Difference`, `Successor` | `BootJournal_SequenceNewer`, `previous.sequence + 1` |
| `Valid`, `Erased`, `LatestCopy`, `Status`, `Content` | `BootJournal_Validate`, `BootJournal_LoadLatest` |
| `Commit`, `Refuse` | the head of `commit`, with `initialize` for `BootJournal_Initialize` |
| `Erase`, `Program`, `Readback` | its flash commands |

`AtomicRecord` is what a caller relies on: a write is accepted, takes effect at
one instant or not at all, and is acknowledged only after that. `DualCopy`
implements it with the mapping `value <- Content` and `pending <- next`.

Run `dual_copy`: two payloads, three phrases, half range 3 (six sequence
numbers). Three phrases have a first, a middle and a last one. Six sequence
numbers make the counter wrap within a few commits, at every alignment of the
two sectors. TLC visits all 1,088 states. The proofs cover every `Half`,
`Phrases` and set of records, hence the 2^31 and 16 (or 10) of the code.

| property | what would break it |
|---|---|
| `NeverAmbiguous` | a cut leaves both sectors valid with unordered numbers |
| `ReadableForever` | a commit erases the only good sector |
| `AcknowledgedIsRead` | success is reported before, or without, durability |
| `ImplementsRegister` | any of these, seen from the caller; a cut leaves a third content (`ReadsOldOrNew`, which it implies and `OldOrNew` proves) |

## 3. BootCore: the life of an update

### State

`journal`, `meta`, `flash` are durable. A journal or metadata variable is an
`AtomicRecord`, which is what DualCopy establishes; the relation between the two
modules is that a failed or cut commit leaves the old record or the new one,
and, where there was no valid record, empty or invalid sectors (`SaveFails`,
`CommitFails`, `Commission`). `flash[s]` is the image the slot's payload is and
the image its header names, as versions, 0 for none; `Image(s)` is what
`BootImage_LoadInfo` accepts. `req` is the retained RAM record, `sw` the
software reset flag. The rest is RAM and is lost on each reset (`ClearRam`):
`jr`, `jfault`, `reval` of `boot_update.c`, `lfault` of `boot_lifecycle.c`,
`active`, `ctx`, `staged` of manager and server. `vouched` and `trials` are
history: which slot content was commissioned or asked to be confirmed while it
ran, and how often an unconfirmed image was started.

### Actions

An action is the code between two durable writes, so a reset (`HardwareReset`,
enabled everywhere) falls between any two writes; a write that fails, followed
by the reset, is a cut write. `pc` names the next step.

| steps | code |
|---|---|
| `Recover`, `AbortUpdate`, `RecoverVerifying`, `Publish`, `MarkVerified` | `BootUpdate_LoadRecoveryState` and what it calls |
| `Reconcile`, `InitializeConfirmed`, `InstallVerified`, `SetPending`, `CompleteHandoff`, `ResolveExhausted`, `EndLifecycle` | `BootLifecycle_Init` |
| `CheckConfirm`, `CheckRequest`, `CheckApp`, `Normalize`, `PrepareBoot`, `Launch` | `BootManager_Run` |
| `AppConfirm`, `AppRequestProgramming`, `AppCrash` | the application's requests and resets |
| `EraseRequest`, `StartErasing`, `Wipe`, `EraseDone`, `Download`, `Transfer`, `TransferExit`, `VerifyRequest`, `VerifyImage`, `PublishHeader`, `ResetRequest`, `AbortDownload` | `BootProgramming_*` and `BootUds_AbortDownload` |
| `Commission`, `Refresh` | routine FF02 |
| `HardwareReset`, `Rot` | power, watchdog, flash cells |

The tester is unrestricted: in the programming server every request the code
accepts may come at any time, in any order. Devices start as delivered from
production (`factory`, sectors blank or unusable, any slot with or without an
application), `commissioned`, or `migrated` (with a journal of firmware that
had no metadata yet, at `PENDING_ACTIVATION`).

### Runs and bounds

| run | question | bounds |
|---|---|---|
| `boot` | safety and the refinement of `SlotLife`, all devices, unlimited faults | three versions, three transactions, 3 attempts as in the code; 510,412 states |
| `boot_live` | does a device boot once faults end, images that rot included? is an update let go of only when its record is in place? | commissioned and factory devices, 3 faults anywhere in a run, 2 transactions; 228,902 states |

Three versions are the fewest with an old, a current and a newer image; both
slots are then replaced and a downgrade is possible. The second and third
transactions meet every record the first one left behind. `MaxTxn` is a guard of
`EraseRequest`; it stands for the end of the tester's interest. Faults are not
bounded in the safety runs. In `boot_live` deadlock is not checked because the
application, or the error loop, may go on for ever without a step of the model,
and the fault budget makes "no more faults" a state (`Calm`).

| property | meaning |
|---|---|
| `FallbackKept` | while an image is on trial or waits for it, the slot it was started from is confirmed, whole and vouched for |
| `LastGoodKept` | no step takes the last good application from a device |
| `RunsVouched` | what runs as CONFIRMED is content somebody vouched for, under a record that describes it |
| `NoDowngrade` | a trial image is newer than the good one it would replace, also when recovery published it |
| `TrialsCharged` | starts of an unconfirmed image never exceed its recorded attempts, nor the limit |
| `HandedOverOnce` | a journal at IDLE means the target's metadata carry that transaction |
| `TrialImageKept` | a slot on trial is not written, not through a stale request either |
| `LifeKept` | refinement of `SlotLife`: journal and slot records change one at a time, each by its table and only when the other one is ready |
| `BootsAgain` | with no more faults, a device with a good application and an active image that has not rotted comes to run one |
| `UpdateStarts` | with no more faults, a pending update is started on trial, if both images are whole |

`SlotLife` is the device without processor, RAM, requests and faults: the journal,
the two slot records, and eleven operations on them. A reset, a cut, a failed
write or a retry is no step of it. Its journal follows
`BootUpdate_TransitionAllowed`, its slot records `transition_allowed` of
`boot_metadata.c`, and its guards say what either store must find in the other:
an update begins beside a CONFIRMED slot and while nothing is on trial, a record is
installed while the journal holds its transaction and over no trial, the journal
lets go only of a transaction whose record is PENDING, and an image is rejected
after exactly `MaxAttempts` starts. `BootCore` tests the journal's table where a
request may be refused, and leaves it out of the steps of recovery; it leaves out the
metadata's table everywhere. `LifeKept` shows that the code's tests, left out there,
never refuse anything: no boot ends in a storage fault because of them. The mapping
reads what `LoadLatest` and `BootMetadata_Load` return: an unreadable record counts
as none. `LifeKept` implies `HandedOverOnce`, which is therefore checked in
`boot_live`, with images that rot. With rot `LifeKept` does not hold: a rotten active
image lets the boot manager skip the hand-over and start a target whose update the
journal still holds (`claim_trial`, section 9). It is checked in `boot`, where images
are whole.

None of these is about one function: each takes several steps of two components
to break, most of them a reset as well, and for each there is a plausible bug of
the code (a `Faulty variant` in the modules) under which TLC finds it broken.

*Fairness.* `FairSpec` is weak fairness of `Boot`, the steps of the boot code.
They are straight-line code on a processor that runs nothing else; with faults
excluded nothing can hold them. No fairness is assumed of testers,
applications, or faults. `BootsAgain` excludes a retained programming request,
which rightly makes the device stay in the server; the pin is released in
`boot_live` for the same reason.

## 4. FlashSession: an update as seen from the wire

### State and actions

`tester` is the process that runs `V2UdsFlasher.flash` with one of five
`FlashOptions`; `toServer` the one-message mailbox of the server, `toTester` the
answers under way. On the device `spc` is where the server is inside a request,
`ctx` is `BootProgramming_Context` with the phrase buffer and the staged header,
`journal`, `flash` and `active` are durable. `unlocker` and `source` are history:
whose key unlocked the session, whose image the open download is.

A step of the server is the code between two things the outside can see: an
answer sent, a journal commit, a sector erased, a phrase programmed. Between two
steps power may fail, a message may be lost, the transfer time-out may run.
Faults (a lost request, a lost or late answer, a failed write, a power loss)
share `budget`.

| steps | code |
|---|---|
| `Start`, the request and answer steps of `tester` | `V2UdsFlasher.flash`, `_flash`, `UdsClient._exchange` |
| session, security | `BootUds` sessions, `boot_security.c` |
| `Erasing` (`EraseStart` .. `EraseDone`) | `BootProgramming_Erase`, sector by sector, with response pending |
| `Download`, `Transfer`, `TransferExit` | `BootProgramming_Download`, `_Transfer`, `_Exit`: block counter, phrase buffer, staged header |
| `Verifying` (`VerifyStart` .. `VerifyDone`) | `BootProgramming_Verify`; `ReadbackRejected` is its last check, `BootImage_LoadInfo` of the published header |
| `EcuReset`, `TransferTimeout`, `PowerLoss`, `SoftwareReset`, `Recover`, `StartUp` | reset request, `BootUds_MainFunction`, the next boot |

What it abstracts: bytes are pairs <<version, position>>, an altered byte belongs to no
version; the five status reads of the flasher are one request; images are packed
for the inactive slot; a sector holds one phrase; checkpoints of the progress
are only a save that may fail. FF02, the rollback of trial boots and failed
writes during recovery are `BootCore`'s. `Confirm`'s own reset is left out. The
bounds of 120 pendings and 30 s of `uds.py` are not reached; time is not
modelled beyond "the time-out has run", so that a refused 0x34 restarts it
makes no difference.

### Run, bounds and fairness

`flash_session`: three versions, all five options, two payload phrases and a
header phrase of two bytes each, blocks of three bytes (so that a block ends
inside a phrase and the last one is short), a block counter of two values (it
wraps), two seeds, two runs of the flasher, two faults. 676,145 states. Two runs
are what it takes for one run to meet what another left behind; two faults let
the second hit the recovery from the first.

Weak fairness of the server and of the restart (code that loops), and of the
tester's sends, receptions and time-outs (a process that waits with a limit).
None of the faults or of the start of a run.

| property | what would break it |
|---|---|
| `HeaderVouches` | a header that outlives its payload, or is written before it |
| `AcceptedIsPrefix` | a repeated or late block counted twice, a phrase buffer left from an aborted download |
| `DownloadIsProgramming` | an abort in RAM only, or in the journal only |
| `PassedMeansPending` | VERIFY answered before the journal is at PENDING_ACTIVATION |
| `WritesForUnlocker` | an unlocked session that survives a session change or a reset |
| `UpdateIsAtomic` | refinement of `InactiveSlot`: a reader meets half an image, or an older one |
| `FlashCompletes` | a left-over state of an earlier run that the flasher cannot get out of |

## 5. IsoTp: gateway, bootloader and application transports

`client` is `IsoTpClient`; `rx` and `tx` are the reassembly and the transmission
of the node, which is the bootloader (polled mailbox, blocking transmission,
`BootReceives`, `BootServes`, `BootWaitsCts`, `BootSendsCf`, `BootTimers`) or the
application (`AppReceives` in the task CAN-Rx, `DiagSamples`, `DiagServes`,
`DiagMain` in the task Diag). `toNode` and `toClient` are the two identifiers'
channels, in order; `inbox` is `g_diagRequestQueue`.

A frame is one of four kinds with a piece of a message. Faults: a frame lost in
either direction (`LoseFrame`, an overwritten mailbox included: the gateway sends
into a full mailbox only in that sense), a frame the transmit queue refuses, an
answer that comes after its time-out, and the race in `CanTp_MainFunction`,
which reads the tick before its critical section: a frame handled in between
stamps a newer tick, the unsigned difference wraps, and N_Cr elapses at once
(`Raced`, `Stamped`, `NCrElapsed`). This departs from what `CanTp.c:589` says the
branch is for; the property `RecoversSoon` bounds what it costs.

`behind` is true from the moment the gateway gives up an exchange whose frames
may still come, until it starts one with the node quiet and the channel empty.
Answers carry no request number and the client never drains its socket: while
behind, an answer may be taken for another request's, and a late flow control
together with a lost first frame can join the frames of two requests. The
properties therefore speak of the time when it is not behind; this is a limit of
the protocol as implemented, not a choice of the model.

Run `isotp`: both nodes, messages of one or four frames, sequence numbers of two
values (they wrap within a message), four exchanges, two faults. 137,586 states.
Four exchanges are one more than `RecoversSoon` needs after the last fault. Weak fairness of the gateway's steps, of the
bootloader's loop, of the two tasks and of the passing of time (`Silence`). A
run ends with the exchanges, so deadlock is not checked.

| property | what would break it |
|---|---|
| `DeliveredWhole` | pieces of an unfinished message kept when the next one starts |
| `AnswerMatches` | a request served twice, or a request taken from the queue and left there |
| `RecoversSoon` | a transmission or reassembly left over that spoils a third exchange |
| `NodeReleases` | a state in which no timer runs |

Not modelled: WAIT and overflow from the gateway, STmin, block sizes other than
0 and malformed lengths, none of which the gateway sends.

## 6. Kernel: what the application's tasks stand on

### State and actions

`k` holds the lists and the clock of `tasks.c`: a ready list is a sequence written
from the entry after `pxIndex` round to `pxIndex`, its end marker included, so
that insertion before the index and the walk of `listGET_OWNER_OF_NEXT_ENTRY` are
what they are in the code. `cur` is `pxCurrentTCB`, `susp` the suspension of the
scheduler, `pendsv` the pending switch, `lock` is `cTxLock`, `ring` the storage of
the queue. `pc` and `call` say where each task is in its call.

A step is one critical section or one stretch of code under a suspended
scheduler; between two steps the tick, the CAN interrupt and the context switch
may come. So all interleavings of an interrupt with `xQueueReceive` between its
first look at the queue and its return are there.

| steps | code |
|---|---|
| `TryReceive`, `TrySend` | the critical section at the head of the loop of `xQueueReceive`, `xQueueGenericSend` |
| `Suspend`, `Lock`, `Check`, `Test`, `Place`, `Unlock`, `Resume`, `Final` | the rest of the loop: `vTaskSuspendAll`, `prvLockQueue`, `xTaskCheckForTimeOut`, the second look, `vTaskPlaceOnEventList`, `prvUnlockQueue`, `xTaskResumeAll`, the last look |
| `Sleep`, `PlaceSleep` | `xTaskDelayUntil` |
| `SwitchContext`, `Tick`, `CanInterrupt` | PendSV with `vTaskSwitchContext`, SysTick with `xTaskIncrementTick`, `xQueueGenericSendFromISR` |

What it abstracts: one queue (tasks meet only in a queue, and two queues share
nothing but the scheduler); the wake value of a task is forgotten when it leaves
the delayed lists; the number of overflows is "one since the call began"
(`wrapped`); the begin of a call with `portMAX_DELAY` is not stored, for nothing
reads it; a task that makes another call between two sleeps starts its period
anew. `age` is history: ticks counted since a wait was asked for. The application
itself waits on queues either not at all or for ever; finite waits are in the model because
the kernel's code has them.

### Run and bounds

`kernel`: a reader that waits for ever, a poller of its level, and a more urgent
task with finite waits and sleeps; a queue of two places and two items; a tick
count of four values; one tick pended at most per suspension (`MaxPended`).
1,375,222 states. Two places are full, half full and empty; two items tell an
order; with four values the count overflows inside every second wait; two levels
and two tasks on one of them give preemption, time slicing and a wake-up that
somebody else's receive makes vain.

| property | what would break it |
|---|---|
| `Exclusive` | a context switch under a suspended scheduler, or a call that returns without resuming it |
| `UrgentRuns` | a yield asked for while the scheduler was suspended and forgotten |
| `NoLostWakeup` | an interrupt sends between the reader's look and its place on the list, and the lock count is not looked at |
| `WaitsExactly` | a wake time past the overflow on the wrong list; the list that is switched out not empty |
| `NeverEarly` | an overflow taken for an elapsed time; a pended tick counted twice |
| `ImplementsFifo` | refinement of `Fifo`: an item lost, repeated, reordered or read before it was written |

No liveness is stated of the kernel: that a task of some level gets the processor
depends on what the more urgent ones do, which is the application's matter.

## 7. AppTasks: tasks that share data without a queue

### State and actions

Four of the application's tasks are in the model, at the program points where
another task could see the difference: `rx` (CAN-Rx, which also runs control
commands), `diag`, `dtc` and `health`. `At` is the scheduling: a task takes a step
only when no task of a higher priority is busy, tasks of one priority alternate
at any point (time slicing), and a critical section keeps all others and the tick
out. `dtc`, `watched`, `beatAge` are the fault memory of `Dem.c`, `hot` the coolant
signal in the RTE, `session` and `s3Age` are `Dcm.c`'s, `pending` and `resetAge`
`AppBootRequest.c`'s. `handed`, `answerAge` and `asked` are history: what the
bootloader got, how old the last answer to 10 02 is, and whether a programming
request came before the health task could have seen it.

| steps | code |
|---|---|
| `Receive`, `InjectOvertemp`, `ControlTimeoutStart`, `ControlTimeoutStop` with `ReportsPassed`, `HeartbeatReceived`, `CommandClears`, `PublishesCooled` | `Runnable_ControlCommand` in the task CAN-Rx, `Dem_ControlTimeoutStart`, `_Stop`, `_HeartbeatReceived`, `Dem_ClearDTC` |
| `FaultMonitorBegins`, `MonitorCoolant`, `ReadHeartbeat`, `JudgeHeartbeat` | `Task_DTC`: `Runnable_FaultMonitor_100ms`, `Dem_MainFunction` |
| `DiagWakes`, `SessionControl`, `RefreshS3Timer`, `DiagClears`, `RequestProgramming`, `StampProgramming`, `DiagSleeps`, `ResetsDevice` | `Task_Diag`: `Dcm_ProcessRequest`, `Dcm_MainFunction`, `AppBootRequest_MainFunction` |
| `HealthChecks`, `RequestConfirm`, `StampConfirm` | `Task_AppHealth`: `AppHealth_RunTrialAction`, `AppBootRequest_RequestConfirmReset` |
| `Tick`, `Restart` | the tick interrupt; the bootloader starting an application again |

What it abstracts: a time stamp and the tick make an age, which stops counting
at the limit it is compared with, so the wrap of the 32-bit tick is not modelled.
Periods are not either: a task that is late catches up (`vTaskDelayUntil`), hence
its runs may come at any distance. `AppHealth_CheckBootReady` may become true at
any tick and stays so. The tasks LED, Vehicle and CAN-Tx touch none of this data,
except for the coolant signal; the simulated vehicle overheats only on the
injected fault and cools only on a clear. The fault memory's second event cannot
be reached by that vehicle and is left out.

### Run and bounds

`app_tasks`: a heartbeat time-out of two ticks, an S3 time-out and a reset delay of one, the code's three-fold
debouncing, slots that run on trial or normally. 1,857,101 states. A time-out of
two has a reading before, at and between the limits; every preemption of two
pairs of neighbouring lines is there whatever the numbers are, and the proofs
below are for all numbers. Devices restart, so one run's leftovers would be seen
in the next.

| property | what would break it |
|---|---|
| `TimeoutEarned` | a stop or a heartbeat between the monitor's reading and its verdict |
| `TimeoutRemembered` | a report that overwrites a confirmed status |
| `HandedAsAsked` | a reset before the answer has left, or for a confirmation although a programming request was there to be seen |

No liveness is stated: every step waits for a tick, a frame or a tester.

## 8. What is proved

The proofs are checked by TLAPS with no assumption beyond the constants'
(`HalfAssumption`, `PhrasesAssumption`, `RecordsAssumption`;
`MaxAttemptsAssumption`, `VersionsAssumption`, `BoundsAssumption`,
`SwitchesAssumption`, `StartsAssumption`; `SizesAssumption`; `RingAssumption`, `KernelAssumption`;
`AppAssumption`), and where a theorem says so, that images do not rot
(`MayRot = FALSE`). TLC evaluates each of these on the runs.

**DualCopyProofs.** `NeverAmbiguous` is not inductive: during a commit the sector
being written is not valid, so it says nothing about the number this sector is
about to get. The invariant `IInv` adds that a commit writes the sector that is
*not* the latest, gives it the successor of the latest one's number, and that a
sector is complete in `readback`. With it follow `TypeCorrect`, `Unambiguous`, and
per action what the latest copy is after the step; from these the action
properties `AlwaysReadable`, `OldOrNew`, `Acknowledged` and the `Refinement` of
`AtomicRecord`, for every half range of at least two and any number of phrases.

**BootCoreProofs.** `TypeOK` is not inductive either: it needs `Located`, that
the steps which write metadata of a slot are reached only with a slot chosen
(`jr.active` at `initialize`, `running` from `jump` on). `TypeCorrect` thereby
shows that no commit ever writes a record its validation would reject, for every
limit, version set and number of faults. `TrialsCharged` is not inductive:
between the commit that charges an attempt and the jump it pays for, the record
has to be *ahead* of the starts, and a PENDING record must have had none.
`Charged` says both, and `TrialsBounded` follows from it for every sequence of
resets and failed writes. It is the argument why a crash loop ends in a
rollback.

The same module has the hand-over. `HandedOverOnce` speaks of a journal at IDLE, and says
nothing of the three commits on the way there. `HandoverInv` adds: RAM and flash
agree on the journal unless a save failed in this boot (`Synced`); metadata are
written for an update only while the journal still holds it (`Holds`); the
target's record is in place before it is let go of (`Installed`); and what was
let go of stays carried by that record (`Accepted`). `HandoverSafe` holds whether
images rot or not.

**FallbackProofs.** One invariant, `Known`, yields `FallbackKept`,
`LastGoodKept`, `TrialImageKept`, `NoDowngrade` and `RunsVouched`. Its durable half
relates journal, metadata, slot contents and the retained request: there are no
metadata without a journal (`Bare`); a CONFIRMED record names the image that is
there, unless it is what an update has left behind in its target (`Vetted`); an
update is started from a slot one can return to, or by a migrated device that
has no record yet (`Backed`); what is on trial is the journal's target, beside
a good slot (`Placed`); a journal without an active slot is alone (`Alone`); what
was let go of is newer than the slot beside it (`Newer`); and while an image is
on trial, only that image asks for anything (`Asked`). The volatile half says
what the program has found out on its way to each write: without it the write
could come from anywhere. The mode of each step is known (`InMode`), the journal
was read (`Loaded`), a save meets an update that is under way (`Saving`), the
lifecycle begins with the journal's recovery done (`Settled`), hand-over steps are
for a target that boots and is newer (`Ready`), the programming session works on
the slot that does not run (`Session`), and what is started may be (`Running`).
The module first shows that each kind of durable write keeps the first half, then
that each step keeps the second. Rot is excluded because a rotten
active image lets the boot manager skip the hand-over (section 9, `claim_trial`).

`LivesTheLife` is the refinement of `SlotLife`, under the same assumption and for
every `MaxAttempts`, `Versions`, `MaxTxn` and `MaxFaults`. `Known` does not suffice:
it knows which slot a step works on, not which stage the update is in when the step
saves the next one. `LifeInv` adds `Paced`, the journal state at each `pc` that moves
the update on, and `Unstarted`, that what is VERIFIED or PENDING has no attempts and
that the record the boot is about to make PENDING is VERIFIED. Each kind of write is
then shown to be one operation of `SlotLife`, or to leave both records as they read (a
failed write leaves the old record or the new one, or one unreadable state for
another), and every step of `BootCore` writes at most one record.

**KernelProofs.** A queue's storage is `Sound` when its two
pointers are as far apart as its count says and every place between them holds
an item. `PutAppends` and `TakenDrops` show what the two copy functions do to the
sequence users see; `NextRingSteps` that no step of a task or interrupt touches
the storage in another way; and from both follows `QueueImplementsFifo`, for every
set of tasks, priorities, lengths and items.

`TypeOK`, `Exclusive` and `UrgentRuns` rest on one invariant, `KernelInv`. Its parts:
`StatesKept`, that a task is in one state list once, in its own level's if it is
ready, that both delayed lists are in the order of their wake times and that the
next time to look at them is not too late; `EventsKept`, that a task is in one
event list or in the pending list, and only while it waits; `ExclInv`, the places
at which a task may have left the queue locked; `Control`, the types, and that
nothing is pending while the scheduler runs; `Sleeping`, that a sleep ends in a
yield; and `Resting`, that no ready task is more urgent than the current one while
the scheduler is suspended or no switch is pending. `UrgentRuns` alone is not
inductive: it says nothing while the scheduler is suspended, and what becomes
ready then is remembered in `k.yield` only. That the switch finds a ready task
takes one that never waits (`NeverWaits`, the idle task), which `KernelAssumption`
asks for as `vTaskStartScheduler` creates it.

The functions of `tasks.c` are functions of the data here, so their effect is
stated once for any data that fits together (`MadeReadyKeeps`, `OffStateKeeps`,
`WokenKeeps`, `DelayedKeeps`, `PlacedKeeps`, `TickedKeeps`, `ResumedKeeps`, ...), and one
lemma per action (`TickKeeps`, `PlaceKeeps`, ...) puts them together. What a function
does that goes through a list (the expired tasks, the pending ones, the late
ticks, the sends while the queue was locked) needs an induction over the list.
The library's induction theorems cannot be used, for they take an operator; it is
done by the least number of entries for which the claim fails (`LeastNumber`, from
`WFMin`), on the function of partial results that `Through` defines (`Partial`).

`NoLostWakeup` counts tasks and items, and needs to know about the tasks between two
looks (`WakeInv`): `Awaited`, that a task in an event list has asked for what the list
is for and will look again when it leaves it; `Seen`, that what a task saw before it
goes to wait is still true but for the sends the lock has counted, which only a frame
can have made; `ItemsServed` and `RoomServed`, that while a list is not empty each item,
or each free place, has a task that was woken and is still to look, or a count in the
lock. A frame brings one item and takes one task off the list, or raises the count;
unlocking takes off as many tasks as the count says (`UnlockWakes`), or all there are.
The count stops at the number of tasks, as in `prvIncrementQueueTxLock`, and the proof shows that this loses nothing: no list is
longer. A task that takes an item stops being one that looks, and the item is gone with
it; one that is woken by its time only was in the list and joins those that look.

`WaitsExactly` and `NeverEarly` speak of three clocks that nothing in the code compares:
the wake time of a task in its delayed list, the time-out its call keeps (`xTimeOnEntering`,
`xOverflowCount` and the ticks to wait, which shrink each time round the loop), and the ticks that have
really passed (`age`). `TimeInv` relates them. `Ahead`: no task in the current delayed list
has a wake time that is over, so the list that is switched out when the count overflows is empty. For each task
`TimeFor`: whether it waits for an event, a time or both is what its call asked for
(`Kind`); the way to its wake time (`Away`, over the end of the count in the overflow list) is what
is left of the time asked for (`Exact`); and the tick count is the call's last look at the
clock plus what has passed since, minus one range of the count if an overflow was noted
(`Timing`). `Stands` says where in its call the task may rely on that: it goes to wait
right after a look at the clock, under the same suspension of the scheduler, and gives up
only when its time is over. Neither property is inductive without `Timing`: when a
task was woken in vain and goes round its loop, what it waits for next is what
`xTaskCheckForTimeOut` left (`ElapsedSince`, `CheckTimes`), and that this is right rests on
the two cases of the overflow count. `TickedTimes` is the tick: it readies a task only when
its time is over. Ticks that come under a suspended scheduler are counted one by one when
it resumes (`ResumedTimes`, by the least number for which it fails, as above), and `NeverEarly` adds them up: that the count as
a number says how many came (`TimesLeap`) needs fewer pended ticks than the count has
values, which `KernelAssumption` states (`MaxPended < TickMod`) because
`xPendedTicks` has the type of the count itself. A task that merely stays, or becomes
ready because an event woke it, keeps all of this (`StillThere`), which is what most
steps do to most tasks.

**FlashSlotProofs.** `SlotInv` is about the server alone and does not care who
sends what. Besides types (`TypeInv`, with the context counted in whole phrases
and a rest in the buffer) it says where the server can be (`Placed`), what it has
been admitted to and where its context stands inside a routine (`Inside`), that
`DownloadIsProgramming` holds at every point and not only between requests
(`Agreed`), and what the slot's header may be at each point (`Vouched`): blank from
the erase on until the payload was checked against the staged header, and from
there on the staged header, which is the journal's. `HeaderVouches` alone is not
inductive: the header stays while a sector or a phrase is written unless one knows
that it is blank there (`Unpublished`), and a recovery publishes the journal's
header, which has to be blank or the same by then. `TypeCorrect`,
`HeaderAlwaysVouches` and `DownloadAgrees` follow; `UpdateAtomic` takes each action
and shows the step of `InactiveSlot`, or the stutter, it is for a reader of the slot.

**FlashWireProofs.** Here the flasher and the messages come in. No message carries
the run it belongs to, mailbox and queue may hold what earlier runs left, and what
saves the server is that a run sends two session requests and waits for both
answers. `Flight` says how: requests arrive in the order of the runs; of two session
answers under way the second one is to a request that came last, and after it
nothing of an earlier run is left, neither a request nor an authorisation nor a
download (`Entering`); a request that is not a session request is of the run the
server's state belongs to (`Owned`). That gives `WritesOwned`. `Exchange` adds that
past the session requests there is one request and its answers at a time, so that
the flasher never takes an answer to one block for the next one's. On it stand
`Sourced` (an open download is of the flasher's image and options), `Prefix` (slot,
staged header and buffer continue the stream block by block; the blocks under way
are the next one; a complete download's staged header is the image's own) and
`Counted` (the flasher is behind by the block whose answer it has not seen), which
give `AcceptedPrefix` for all sizes, whether or not a block ends on a phrase.
`Passed` carries the end: a positive answer to VERIFY is only sent with the journal
at PENDING_ACTIVATION and the flasher's own header in the slot, and no work that can
still be under way then touches either, which is `PassedPending`. The byte
arithmetic is in lemmas of their own (`CutOfCut`, `BlockIs`, `PhraseBounds`,
`FlushCounts`, `ByteAt`).

**IsoTpProofs.** `TypeOK` is inductive with little more than the pieces' types and
the count of exchanges (`Typed`). `DeliveredWhole` is not: it says nothing of a half
message, and a sequence number modulo `SnMod` does not tell a piece from the one
`SnMod` later, so the check in `CanTp.c` and `boot_isotp.c` alone would let frames of
two places, or of two messages, be joined. What keeps them apart is that as long as
the gateway is not `behind` there is one message under way. `Delivery` says where it
can be: nine phases from the opening frame to the last consecutive frame of the
answer, each with everything that is empty meanwhile. In the two streaming phases
what the receiver holds and the frames still coming are pieces of the same message
with rising numbers, all below the sender's next one (`Coming`). A frame may be
missing in between, and then one with the right number modulo `SnMod` may be taken
for it; but rising numbers that begin with 0 and end with the last piece, and are as
many as the message has pieces, are all of them (`RisingWhole`). That is why a
message is never handed up in part, for every `SnMod` above one and every length.
`Paired` adds that the answer last returned is to the exchange that asked, and
`WholeMessages` and `MatchedAnswers` follow.

`RecoversSoon` counts failures and needs to know why the next exchange does not
fail. `Recovery` says it (`Smooth`): once exchanges have failed and no fault came
since, the message under way is complete, piece by piece, in what is received and
what is coming (`Consecutive`), no timer of it is due or raced, and the only
transmission that may still run is older than the exchange (`OutOfTheWay`). Such a
transmission can cost one more exchange: `BootIsoTp_WaitCts` takes the request for
its flow control, `CanTp_Transmit` refuses the response. Either way it has ended
when the gateway's second is over, and the third exchange finds the node idle. The
proofs use no assumption beyond `ParametersAssumption`, and `MaxExchanges` and
`MaxFaults` are any numbers.

**AppTasksProofs.** `TypeOK` is inductive. `TimeoutIsEarned` needs that the
monitor's copies are still the originals when it judges them, which holds because
it is in its critical section from its first step to its last (`MonitorInv`).
`RequestsHanded` needs what the priorities and the health task's check keep
together: a programming request is still there when its time is written, and time
never runs ahead of the answer's (`RequestInv`). `TimeoutIsRemembered` follows from
the types and from the threshold of one.

**Only model-checked.** The liveness properties (`BootsAgain`, `UpdateStarts`,
`FlashCompletes`, `NodeReleases`), which are outside what the prover does. Every
invariant and every action property of the passing runs is stated by a theorem.

## 9. Where the code departs from its documents

Five runs look for a behaviour that contradicts a sentence of the repository,
and find it; `PROJECT.json` quotes the sentences.

| run | what happens |
|---|---|
| `claim_confirm` | the third trial asks for confirmation, and `BootLifecycle_Init` makes it INVALID before the request is read |
| `claim_handover` | a cut in the first metadata record of a migrated device stops the hand-over at every later boot |
| `claim_recovery` | a device without a bootable image, but with a metadata record, refuses each erase |
| `claim_trial` | the active image rots, the hand-over is skipped, and the pending target runs under an older CONFIRMED record |
| `claim_fault` | one failed journal write in recovery keeps the intact active slot from starting, contrary to the recovery flow |

None of them contradicts a property of section 3: the first three cost
availability, the fourth needs a rotten image (which is why `RunsVouched` is
checked without `MayRot`), the fifth ends with the next reset.

Three more departures are described by the models but have no run of their own:

- `CanTp_MainFunction` reads the tick before its critical section, so a
  consecutive frame handled in between makes N_Cr elapse at once (`CanTp.c:589`;
  section 5).
- The health task tests `PendingMagic` and sets it later. A programming request
  answered in between is overwritten by the confirmation
  (`AppBootRequest.c:23`), and the device restarts into the application although
  `docs/uds_diagnostics.md:24` promises the programming session.
  `HandedAsAsked` says that this window is the only one. The next line has another:
  the request is there before its time (`AppBootRequest.c:24`), and a main function
  that runs in between resets without the delay. `HandedAsAsked` demands the delay
  of a programming request only, whose answer it is there for.
- `Dem_ReportFailed` sets the status to PENDING on the first failure after a
  recovery, which drops a confirmed flag (`Dem.c:47`). It is latent: the coolant
  event recovers only by a clear, and the time-out event has no debouncing.

## 10. Plan

Done so far, in the order of their importance: the store, the life of an update,
the session seen from the wire, the transports, the kernel under them, the tasks
on top. What is left:

1. Cyclic transmission (`Task_CanTx`, `Com.c`, `Rte.c`, `CanIf.c`): snapshots that
   mix two states, and the transmit queue at its limit.
2. `FlashWindow`: the driver's window and address arithmetic.

## 11. Not modelled, and why

- CRC arithmetic, header and vector parsing, address windows: an image is a
  version or nothing (in `FlashSession`, its bytes by version and position).
  Legacy images of slot A (an erased header with a valid old vector table) are
  left out: reconciliation only accepts `BOOT_IMAGE_VALID`, so they receive no
  record and never start.
- `BootUpdate_SetProgress`'s fields: recovery never reads them. Its failure is
  modelled in `Transfer`.
- In `BootCore` only: seeds and keys (a tester has already unlocked the server)
  and the sectors of a wipe (what is not wiped yet is without a header, hence no
  image). `FlashSession` has both. A published header that cannot be read back
  has no step of its own there either: it leaves what a response pending that
  cannot be sent and then an abort leave. In `FlashSession` it is
  `ReadbackRejected`.
- Diagnostic copies for DID F105, LEDs, delays, the reset reason's decoding, a
  watchdog that cannot be enabled. The error loop is left only by a hardware
  reset, as in the code.
- FreeRTOS beyond scheduler, tick, delays and queues: the application uses no
  notifications, event groups, timers, stream buffers, co-routines, mutexes, and
  never deletes or suspends a task. FreeRTOS is three quarters of the
  implementation's lines, and nearly all of them are these features, the MPU and
  trace variants, and the comments and macros of its headers: the share of lines
  that is modelled is therefore small although most of the bootloader is.
- Board support and clocks, FlexCAN and SBC registers, the vehicle simulation and
  its cyclic frames, CSV logging and packaging tools.
