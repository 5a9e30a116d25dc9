------------------------------ MODULE AppTasks ------------------------------
(***************************************************************************)
(* The application's tasks where they share data without a queue between   *)
(* them: the fault memory (Dem.c), fed by the DTC task, commanded by the   *)
(* CAN-Rx task and cleared by the diagnostic task; and the pending reset   *)
(* request (AppBootRequest.c), written by the diagnostic and the health    *)
(* task.                                                                   *)
(*                                                                         *)
(* One action is a stretch of code between two points at which the task    *)
(* may be interrupted so that another one sees the difference.  A task     *)
(* runs only when none of a higher priority is busy, tasks of the same     *)
(* priority alternate (time slicing), and whoever is in a critical section *)
(* keeps the others and the tick out.  Periods are not modelled: a task    *)
(* that is late catches up (vTaskDelayUntil), so its runs may follow each  *)
(* other closely.  Times count ticks, scaled down.                         *)
(*                                                                         *)
(* Left out: the vehicle model and its signals but for an overheated       *)
(* coolant (the speed it simulates never reaches the limit of the second   *)
(* event), cyclic transmission, the fields of a DTC that only a display    *)
(* uses, and requests that read.                                           *)
(***************************************************************************)
EXTENDS Naturals

CONSTANTS
  HeartbeatTimeout,  \* DEM_CONTROL_TIMEOUT_MS in ticks
  ResetDelay,        \* APP_BOOT_RESET_DELAY_MS in ticks
  S3Timeout,         \* DCM_S3_TIMEOUT_MS in ticks
  Debounce,          \* thresholds of the coolant event
  Statuses           \* what the bootloader says of the running slot

ASSUME AppAssumption ==
  /\ HeartbeatTimeout \in Nat \ {0} /\ ResetDelay \in Nat \ {0}
  /\ S3Timeout \in Nat \ {0} /\ Debounce \in Nat \ {0}
  /\ Statuses \subseteq {"trial", "normal", "unknown"} /\ Statuses # {}

VARIABLES
  pc,        \* where each task is
  masked,    \* the task in a critical section, or "none"
  dtc,       \* DemEventRuntime
  watched,   \* DemControlTimeoutMonitoringEnabled
  beatAge,   \* ticks since DemLastControlHeartbeatTick, up to the time-out
  seen,      \* the DTC task's copies of the two, as of its last reading
  hot,       \* the coolant signal in the RTE is above its limit
  session,   \* DcmCurrentSession
  s3Age,     \* ticks since DcmLastRequestTick, up to the time-out
  pending,   \* AppBootRequest_PendingMagic
  resetAge,  \* ticks since AppBootRequest_ResetTick, up to the delay
  status,    \* the boot status in retained RAM
  ready,     \* AppHealth_CheckBootReady
  handed,    \* the request left for the bootloader; "none" while running
  answerAge, \* ticks since the last answer to a programming request
  asked      \* such requests: "none", only "overtaking" the health task's
             \* check, or one it could have "seen"

memory == <<dtc, watched, beatAge, seen, hot>>
request == <<pending, resetAge, status, ready, handed, answerAge, asked>>
dcm == <<session, s3Age>>
vars == <<pc, masked, memory, dcm, request>>

Events == {"coolant", "timeout"}

Tasks == {"rx", "diag", "dtc", "health"}
Priority == [t \in Tasks |-> CASE t \in {"rx", "diag"} -> 3 [] t = "dtc" -> 2 [] t = "health" -> 1]

Alive == handed = "none"

(* Task t is at point p and has the processor.                             *)
At(t, p) ==
  /\ Alive /\ pc[t] = p
  /\ masked \in {"none", t}
  /\ \A u \in Tasks : Priority[u] > Priority[t] => pc[u] = "idle"

Goto(t, p) == pc' = [pc EXCEPT ![t] = p]

(* Faulty variant: the run of the task can be interrupted.                 *)
EnterNothing(t) == UNCHANGED masked

EnterCritical(t) == masked' = t
ExitCritical == masked' = "none"

(* Faulty variant: counts on past the limit.                               *)
OlderForEver(age, limit) == age + 1

Older(age, limit) == IF age < limit THEN age + 1 ELSE age

-----------------------------------------------------------------------------
(* Faulty variant: the time-out is debounced like the other events.        *)
FailThresholdSame(e) == Debounce

(* Dem.c: debouncing.                                                      *)
FailThreshold(e) == IF e = "timeout" THEN 1 ELSE Debounce
PassThreshold(e) == IF e = "timeout" THEN 1 ELSE Debounce

NoFault == [fail |-> 0, pass |-> 0, active |-> FALSE, stored |-> FALSE, status |-> {}]
NoFaults == [e \in Events |-> NoFault]

ReportFailed(r, e) ==
  LET n == Older(r.fail, FailThreshold(e))
  IN  IF n < FailThreshold(e)
      THEN [r EXCEPT !.fail = n, !.pass = 0, !.status = {"pending"}]
      ELSE [r EXCEPT !.fail = n, !.pass = 0, !.active = TRUE, !.stored = TRUE,
                     !.status = {"failed", "pending", "confirmed"}]

ReportPassed(r, e) ==
  LET n == Older(r.pass, PassThreshold(e))
      p == [r EXCEPT !.fail = 0, !.pass = n]
  IN  CASE n < PassThreshold(e) -> p
        [] n >= PassThreshold(e) /\ "confirmed" \in r.status ->
             [p EXCEPT !.active = FALSE, !.stored = TRUE, !.status = {"confirmed"}]
        [] OTHER -> [p EXCEPT !.active = FALSE, !.stored = FALSE, !.status = {}]

SetEventStatus(e, failed) ==
  dtc' = [dtc EXCEPT ![e] = IF failed THEN ReportFailed(@, e) ELSE ReportPassed(@, e)]
-----------------------------------------------------------------------------
Init ==
  /\ pc = [t \in Tasks |-> "idle"] /\ masked = "none"
  /\ dtc = NoFaults /\ watched = FALSE /\ beatAge = 0
  /\ seen = [watched |-> FALSE, age |-> 0] /\ hot = FALSE
  /\ session = "default" /\ s3Age = 0
  /\ pending = "none" /\ resetAge = 0
  /\ status \in Statuses /\ ready = FALSE
  /\ handed = "none" /\ answerAge = 0 /\ asked = "none"

(* The tick interrupt; the application may have become healthy.            *)
Tick ==
  /\ Alive /\ masked = "none"
  /\ beatAge' = Older(beatAge, HeartbeatTimeout)
  /\ s3Age' = Older(s3Age, S3Timeout)
  /\ resetAge' = Older(resetAge, ResetDelay)
  /\ answerAge' = Older(answerAge, ResetDelay)
  /\ ready' \in {ready, TRUE}
  /\ UNCHANGED <<pc, masked, dtc, watched, seen, hot, session, pending, status,
                 handed, asked>>

(* The CAN-Rx task takes a control command and runs it at once.            *)
Receive(c) ==
  /\ At("rx", "idle") /\ Goto("rx", c)
  /\ UNCHANGED <<masked, memory, dcm, request>>

InjectOvertemp ==
  /\ At("rx", "inject") /\ Goto("rx", "idle")
  /\ hot' = TRUE
  /\ UNCHANGED <<masked, dtc, watched, beatAge, seen, dcm, request>>

ControlTimeoutStart ==
  /\ At("rx", "start") /\ Goto("rx", "pass")
  /\ watched' = TRUE /\ beatAge' = 0
  /\ UNCHANGED <<masked, dtc, seen, hot, dcm, request>>

ControlTimeoutStop ==
  /\ At("rx", "stop") /\ Goto("rx", "pass")
  /\ watched' = FALSE
  /\ UNCHANGED <<masked, dtc, beatAge, seen, hot, dcm, request>>

ReportsPassed ==
  /\ At("rx", "pass") /\ Goto("rx", "idle")
  /\ SetEventStatus("timeout", FALSE)
  /\ UNCHANGED <<masked, watched, beatAge, seen, hot, dcm, request>>

HeartbeatReceived ==
  /\ At("rx", "heartbeat") /\ Goto("rx", "idle")
  /\ beatAge' = IF watched THEN 0 ELSE beatAge
  /\ UNCHANGED <<masked, dtc, watched, seen, hot, dcm, request>>

(* CMD_CLEAR_DTC cools the model, clears the memory, then publishes.       *)
CommandClears ==
  /\ At("rx", "clear") /\ Goto("rx", "publish")
  /\ dtc' = NoFaults
  /\ UNCHANGED <<masked, watched, beatAge, seen, hot, dcm, request>>

PublishesCooled ==
  /\ At("rx", "publish") /\ Goto("rx", "idle")
  /\ hot' = FALSE
  /\ UNCHANGED <<masked, dtc, watched, beatAge, seen, dcm, request>>
-----------------------------------------------------------------------------
(* The DTC task: its whole run is one critical section.                    *)
FaultMonitorBegins ==
  /\ At("dtc", "idle") /\ Goto("dtc", "coolant")
  /\ EnterCritical("dtc")
  /\ UNCHANGED <<memory, dcm, request>>

MonitorCoolant ==
  /\ At("dtc", "coolant") /\ Goto("dtc", "read")
  /\ SetEventStatus("coolant", hot)
  /\ UNCHANGED <<masked, watched, beatAge, seen, hot, dcm, request>>

(* Dem_MainFunction reads the tick, then copies the flag and the time of   *)
(* the last heartbeat; as the tick stands still meanwhile, the age is what *)
(* the two make at the copy ...                                            *)
ReadHeartbeat ==
  /\ At("dtc", "read") /\ Goto("dtc", "judge")
  /\ seen' = [watched |-> watched, age |-> beatAge]
  /\ UNCHANGED <<masked, dtc, watched, beatAge, hot, dcm, request>>

(* ... and judges the copies.                                              *)
JudgeHeartbeat ==
  /\ At("dtc", "judge") /\ Goto("dtc", "idle")
  /\ IF seen.watched THEN SetEventStatus("timeout", seen.age >= HeartbeatTimeout)
                     ELSE UNCHANGED dtc
  /\ ExitCritical
  /\ UNCHANGED <<watched, beatAge, seen, hot, dcm, request>>
-----------------------------------------------------------------------------
(* The diagnostic task: requests from its queue, then the main functions.  *)
DiagWakes ==
  /\ At("diag", "idle") /\ Goto("diag", "awake")
  /\ UNCHANGED <<masked, memory, dcm, request>>

(* Service 10 01 or 10 03.                                                 *)
SessionControl(new) ==
  /\ At("diag", "awake")
  /\ session' = new /\ s3Age' = 0
  /\ UNCHANGED <<pc, masked, memory, request>>

(* Services 3E, 19 and 22.                                                 *)
RefreshS3Timer ==
  /\ At("diag", "awake")
  /\ s3Age' = 0
  /\ UNCHANGED <<pc, masked, memory, session, request>>

(* Service 14 FF FF FF.                                                    *)
DiagClears ==
  /\ At("diag", "awake")
  /\ dtc' = NoFaults
  /\ s3Age' = 0
  /\ UNCHANGED <<pc, masked, watched, beatAge, seen, hot, session, request>>

(* Service 10 02 enters the session, sets the request, then its time; the  *)
(* answer goes out after that.                                             *)
RequestProgramming ==
  /\ At("diag", "awake") /\ Goto("diag", "stamp")
  /\ session' = "programming" /\ s3Age' = 0
  /\ pending' = "program"
  /\ UNCHANGED <<masked, memory, resetAge, status, ready, handed, answerAge, asked>>

(* What the health task has checked and not yet written.                   *)
Overtaken == pc["health"] = "confirm"

StampProgramming ==
  /\ At("diag", "stamp") /\ Goto("diag", "awake")
  /\ resetAge' = 0
  /\ answerAge' = 0
  /\ asked' = IF Overtaken /\ asked # "seen" THEN "overtaking" ELSE "seen"
  /\ UNCHANGED <<masked, memory, dcm, pending, status, ready, handed>>

ResetDue == pending # "none" /\ resetAge >= ResetDelay

(* Dcm_MainFunction: the pending request first, then the session.          *)
DiagSleeps ==
  /\ At("diag", "awake") /\ ~ResetDue /\ Goto("diag", "idle")
  /\ IF session = "extended" /\ s3Age >= S3Timeout
     THEN session' = "default" /\ s3Age' = 0
     ELSE UNCHANGED dcm
  /\ UNCHANGED <<masked, memory, request>>

ResetsDevice ==
  /\ At("diag", "awake") /\ ResetDue
  /\ handed' = pending
  /\ UNCHANGED <<pc, masked, memory, dcm, pending, resetAge, status, ready, answerAge, asked>>
-----------------------------------------------------------------------------
(* Faulty variant: confirms whatever is pending.                           *)
MayConfirmAnyway == status = "trial" /\ ready

(* The health task of an application on trial asks for its confirmation:   *)
(* it checks that nothing is pending, sets the request, then its time.     *)
MayConfirm == status = "trial" /\ ready /\ pending = "none"

HealthChecks ==
  /\ At("health", "idle") /\ MayConfirm /\ Goto("health", "confirm")
  /\ UNCHANGED <<masked, memory, dcm, request>>

RequestConfirm ==
  /\ At("health", "confirm") /\ Goto("health", "stamp")
  /\ pending' = "confirm"
  /\ UNCHANGED <<masked, memory, dcm, resetAge, status, ready, handed, answerAge, asked>>

StampConfirm ==
  /\ At("health", "stamp") /\ Goto("health", "idle")
  /\ resetAge' = 0
  /\ UNCHANGED <<masked, memory, dcm, pending, status, ready, handed, answerAge, asked>>

(* The bootloader starts an application again.                             *)
Restart ==
  /\ ~Alive
  /\ pc' = [t \in Tasks |-> "idle"] /\ masked' = "none"
  /\ dtc' = NoFaults /\ watched' = FALSE /\ beatAge' = 0
  /\ seen' = [watched |-> FALSE, age |-> 0] /\ hot' = FALSE
  /\ session' = "default" /\ s3Age' = 0
  /\ pending' = "none" /\ resetAge' = 0
  /\ status' \in Statuses /\ ready' = FALSE
  /\ handed' = "none" /\ answerAge' = 0 /\ asked' = "none"

Next ==
  \/ Tick
  \/ \E c \in {"inject", "start", "stop", "heartbeat", "clear"} : Receive(c)
  \/ InjectOvertemp
  \/ ControlTimeoutStart
  \/ ControlTimeoutStop
  \/ ReportsPassed
  \/ HeartbeatReceived
  \/ CommandClears
  \/ PublishesCooled
  \/ FaultMonitorBegins
  \/ MonitorCoolant
  \/ ReadHeartbeat
  \/ JudgeHeartbeat
  \/ DiagWakes
  \/ \E new \in {"default", "extended"} : SessionControl(new)
  \/ RefreshS3Timer
  \/ DiagClears
  \/ RequestProgramming
  \/ StampProgramming
  \/ DiagSleeps
  \/ ResetsDevice
  \/ HealthChecks
  \/ RequestConfirm
  \/ StampConfirm
  \/ Restart

Spec == Init /\ [][Next]_vars
-----------------------------------------------------------------------------
Flags == {"failed", "pending", "confirmed"}

Points ==
  {"idle", "inject", "start", "stop", "pass", "heartbeat", "clear", "publish",
   "awake", "stamp", "coolant", "read", "judge", "confirm"}
Fault(e) ==
  [fail : 0 .. FailThreshold(e), pass : 0 .. PassThreshold(e),
   active : BOOLEAN, stored : BOOLEAN, status : SUBSET Flags]

(* Every variable keeps to its range; in particular no debounce counter    *)
(* passes its threshold.                                                   *)
TypeOK ==
  /\ pc \in [Tasks -> Points]
  /\ pc["rx"] \in {"idle", "inject", "start", "stop", "pass", "heartbeat", "clear", "publish"}
  /\ pc["diag"] \in {"idle", "awake", "stamp"}
  /\ pc["dtc"] \in {"idle", "coolant", "read", "judge"}
  /\ pc["health"] \in {"idle", "confirm", "stamp"}
  /\ masked \in {"none", "dtc"}
  /\ DOMAIN dtc = Events /\ \A e \in Events : dtc[e] \in Fault(e)
  /\ watched \in BOOLEAN /\ beatAge \in 0 .. HeartbeatTimeout
  /\ seen \in [watched : BOOLEAN, age : 0 .. HeartbeatTimeout]
  /\ hot \in BOOLEAN
  /\ session \in {"default", "programming", "extended"} /\ s3Age \in 0 .. S3Timeout
  /\ pending \in {"none", "program", "confirm"} /\ resetAge \in 0 .. ResetDelay
  /\ status \in Statuses /\ ready \in BOOLEAN
  /\ handed \in {"none", "program", "confirm"}
  /\ answerAge \in 0 .. ResetDelay /\ asked \in {"none", "overtaking", "seen"}

(* The time-out fault is raised only while the control link is watched and *)
(* has been silent for the whole time-out: no start, stop or heartbeat     *)
(* that the CAN-Rx task handles while the monitor runs can make it judge   *)
(* what is no longer so.                                                   *)
TimeoutEarned ==
  [][~dtc["timeout"].active /\ dtc'["timeout"].active
       => watched /\ beatAge >= HeartbeatTimeout]_vars

(* A time-out fault, once confirmed, is remembered when the link recovers, *)
(* is stopped or fails again, until a tester or a command clears it.       *)
Confirmed(e) == "confirmed" \in dtc[e].status
TimeoutRemembered ==
  [][Confirmed("timeout") /\ ~Confirmed("timeout")'
       => CommandClears \/ DiagClears \/ Restart]_vars

(* The bootloader is handed a programming request only after the answer to *)
(* the last one had its time to leave, and the request of a healthy trial  *)
(* only if every programming request of the tester came between the health *)
(* task's check and its own request.                                       *)
HandedAsAsked ==
  /\ handed = "program" => asked # "none" /\ answerAge >= ResetDelay
  /\ handed = "confirm" => status = "trial" /\ ready /\ asked # "seen"
=============================================================================
