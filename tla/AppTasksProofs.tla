--------------------------- MODULE AppTasksProofs ---------------------------
(***************************************************************************)
(* Type correctness and the three properties of AppTasks, for all times    *)
(* and thresholds.  MonitorInv and RequestInv say why they hold: whoever   *)
(* is busy keeps the tasks below it out, and the DTC task keeps everybody  *)
(* out, so that                                                            *)
(*   - the copies it judges are still the originals;                       *)
(*   - a programming request that has been set is still there when its     *)
(*     time is written, and a request whose time has come was written      *)
(*     whole, as no time runs ahead of the answer's;                       *)
(*   - a confirmation is on its way only if the check of the health task   *)
(*     saw no request of a tester.                                         *)
(***************************************************************************)
EXTENDS AppTasks, TLAPS

LEMMA OlderType ==
  ASSUME NEW limit \in Nat, NEW age \in 0 .. limit
  PROVE  Older(age, limit) \in 0 .. limit
BY DEF Older

LEMMA ThresholdType ==
  ASSUME NEW e \in Events
  PROVE  FailThreshold(e) \in Nat \ {0} /\ PassThreshold(e) \in Nat \ {0}
BY AppAssumption DEF FailThreshold, PassThreshold

LEMMA NoFaultsType == DOMAIN NoFaults = Events /\ \A e \in Events : NoFaults[e] \in Fault(e)
BY ThresholdType DEF NoFaults, NoFault, Fault, Flags

LEMMA FailedType ==
  ASSUME NEW e \in Events, NEW r \in Fault(e)
  PROVE  ReportFailed(r, e) \in Fault(e)
<1>1. Older(r.fail, FailThreshold(e)) \in 0 .. FailThreshold(e)
  BY ThresholdType, OlderType DEF Fault
<1>2. 0 \in 0 .. PassThreshold(e)
  BY ThresholdType
<1> QED
  BY <1>1, <1>2 DEF ReportFailed, Fault, Flags

LEMMA PassedType ==
  ASSUME NEW e \in Events, NEW r \in Fault(e)
  PROVE  ReportPassed(r, e) \in Fault(e)
<1> DEFINE n == Older(r.pass, PassThreshold(e))
<1>1. n \in 0 .. PassThreshold(e)
  BY ThresholdType, OlderType DEF Fault
<1>2. 0 \in 0 .. FailThreshold(e)
  BY ThresholdType
<1>3. [r EXCEPT !.fail = 0, !.pass = n] \in Fault(e)
  BY <1>1, <1>2 DEF Fault
<1> HIDE DEF n
<1> QED
  BY <1>3 DEF ReportPassed, Fault, Flags, n

LEMMA EventType ==
  ASSUME NEW e \in Events, NEW failed \in BOOLEAN, SetEventStatus(e, failed),
         DOMAIN dtc = Events, \A x \in Events : dtc[x] \in Fault(x)
  PROVE  /\ DOMAIN dtc' = Events
         /\ \A x \in Events : dtc'[x] \in Fault(x)
         /\ dtc'[e] = IF failed THEN ReportFailed(dtc[e], e) ELSE ReportPassed(dtc[e], e)
         /\ \A x \in Events \ {e} : dtc'[x] = dtc[x]
<1>1. dtc'[e] = IF failed THEN ReportFailed(dtc[e], e) ELSE ReportPassed(dtc[e], e)
  BY DEF SetEventStatus
<1>2. DOMAIN dtc' = Events /\ \A x \in Events \ {e} : dtc'[x] = dtc[x]
  BY DEF SetEventStatus
<1> QED
  BY <1>1, <1>2, FailedType, PassedType
-----------------------------------------------------------------------------
(* TypeOK is inductive on its own.                                         *)
LEMMA TypeStep == TypeOK /\ [Next]_vars => TypeOK'
<1> SUFFICES ASSUME TypeOK, [Next]_vars PROVE TypeOK'
  OBVIOUS
<1> USE DEF TypeOK, Points, Tasks, At, Goto, memory, dcm, request
<1>1. CASE Tick
  <2>1. ready' \in BOOLEAN
    BY <1>1 DEF Tick
  <2> QED
    BY <1>1, <2>1, OlderType, AppAssumption DEF Tick
<1>2. ASSUME NEW c \in {"inject", "start", "stop", "heartbeat", "clear"}, Receive(c)
      PROVE  TypeOK'
  BY <1>2 DEF Receive
<1>3. CASE InjectOvertemp
  BY <1>3 DEF InjectOvertemp
<1>4. CASE ControlTimeoutStart
  BY <1>4, AppAssumption DEF ControlTimeoutStart
<1>5. CASE ControlTimeoutStop
  BY <1>5 DEF ControlTimeoutStop
<1>6. CASE ReportsPassed
  <2>1. DOMAIN dtc' = Events /\ \A x \in Events : dtc'[x] \in Fault(x)
    BY <1>6, EventType DEF ReportsPassed, Events
  <2> QED
    BY <1>6, <2>1 DEF ReportsPassed
<1>7. CASE HeartbeatReceived
  BY <1>7, AppAssumption DEF HeartbeatReceived
<1>8. CASE CommandClears
  BY <1>8, NoFaultsType DEF CommandClears
<1>9. CASE PublishesCooled
  BY <1>9 DEF PublishesCooled
<1>10. CASE FaultMonitorBegins
  BY <1>10 DEF FaultMonitorBegins, EnterCritical
<1>11. CASE MonitorCoolant
  <2>1. DOMAIN dtc' = Events /\ \A x \in Events : dtc'[x] \in Fault(x)
    BY <1>11, EventType DEF MonitorCoolant, Events
  <2> QED
    BY <1>11, <2>1 DEF MonitorCoolant
<1>12. CASE ReadHeartbeat
  BY <1>12 DEF ReadHeartbeat
<1>13. CASE JudgeHeartbeat
  <2>1. DOMAIN dtc' = Events /\ \A x \in Events : dtc'[x] \in Fault(x)
    <3>1. CASE seen.watched
      <4>1. (seen.age >= HeartbeatTimeout) \in BOOLEAN
        OBVIOUS
      <4> QED
        BY <1>13, <3>1, <4>1, EventType DEF JudgeHeartbeat, Events
    <3>2. CASE ~seen.watched
      BY <1>13, <3>2 DEF JudgeHeartbeat
    <3> QED
      BY <3>1, <3>2
  <2> QED
    BY <1>13, <2>1 DEF JudgeHeartbeat, ExitCritical
<1>14. CASE DiagWakes
  BY <1>14 DEF DiagWakes
<1>15. ASSUME NEW new \in {"default", "extended"}, SessionControl(new)
      PROVE  TypeOK'
  BY <1>15, AppAssumption DEF SessionControl
<1>16. CASE RefreshS3Timer
  BY <1>16, AppAssumption DEF RefreshS3Timer
<1>17. CASE DiagClears
  BY <1>17, NoFaultsType, AppAssumption DEF DiagClears
<1>18. CASE RequestProgramming
  BY <1>18, AppAssumption DEF RequestProgramming
<1>19. CASE StampProgramming
  BY <1>19, AppAssumption DEF StampProgramming
<1>20. CASE DiagSleeps
  BY <1>20, AppAssumption DEF DiagSleeps
<1>21. CASE ResetsDevice
  BY <1>21 DEF ResetsDevice
<1>22. CASE HealthChecks
  BY <1>22 DEF HealthChecks
<1>23. CASE RequestConfirm
  BY <1>23 DEF RequestConfirm
<1>24. CASE StampConfirm
  BY <1>24, AppAssumption DEF StampConfirm
<1>25. CASE Restart
  <2>1. pc' \in [Tasks -> Points] /\ \A t \in Tasks : pc'[t] = "idle"
    BY <1>25 DEF Restart
  <2>2. DOMAIN dtc' = Events /\ \A e \in Events : dtc'[e] \in Fault(e)
    BY <1>25, NoFaultsType DEF Restart
  <2>3. seen' \in [watched : BOOLEAN, age : 0 .. HeartbeatTimeout]
    BY <1>25, AppAssumption DEF Restart
  <2>4. 0 \in 0 .. HeartbeatTimeout /\ 0 \in 0 .. S3Timeout /\ 0 \in 0 .. ResetDelay
    BY AppAssumption
  <2> QED
    BY <1>25, <2>1, <2>2, <2>3, <2>4 DEF Restart
<1>26. CASE UNCHANGED vars
  BY <1>26 DEF vars
<1> QED
  BY <1>1, <1>2, <1>3, <1>4, <1>5, <1>6, <1>7, <1>8, <1>9, <1>10, <1>11, <1>12, <1>13, <1>14, <1>15, <1>16, <1>17, <1>18, <1>19, <1>20, <1>21, <1>22, <1>23, <1>24, <1>25, <1>26 DEF Next

LEMMA InitType == Init => TypeOK
<1> SUFFICES ASSUME Init PROVE TypeOK
  OBVIOUS
<1>1. pc \in [Tasks -> Points] /\ \A t \in Tasks : pc[t] = "idle"
  BY DEF Init, Tasks, Points
<1>2. DOMAIN dtc = Events /\ \A e \in Events : dtc[e] \in Fault(e)
  BY NoFaultsType DEF Init
<1>3. seen \in [watched : BOOLEAN, age : 0 .. HeartbeatTimeout]
  BY AppAssumption DEF Init
<1>4. 0 \in 0 .. HeartbeatTimeout /\ 0 \in 0 .. S3Timeout /\ 0 \in 0 .. ResetDelay
  BY AppAssumption
<1> QED
  BY <1>1, <1>2, <1>3, <1>4 DEF Init, TypeOK, Tasks

(* The application's type invariant holds for every time and threshold.    *)
THEOREM AppTypeCorrect == Spec => []TypeOK
<1>1. Init => TypeOK
  BY InitType
<1> QED
  BY <1>1, TypeStep, PTL DEF Spec
-----------------------------------------------------------------------------
(* What the priorities and the critical section keep together.             *)
MonitorAlone == (masked = "dtc" <=> pc["dtc"] # "idle")
CopiesHold == pc["dtc"] = "judge" => seen = [watched |-> watched, age |-> beatAge]

Healthy == status = "trial" /\ ready
ProgramStands ==
  /\ pc["diag"] = "stamp" => pending = "program"
  /\ pending = "program" /\ pc["diag"] # "stamp" => asked # "none"
  /\ asked # "none" => pending # "none"
ConfirmStands ==
  pc["health"] = "confirm" \/ pending = "confirm" => Healthy /\ asked # "seen"
AnswerFirst == resetAge <= answerAge
HandedWhole ==
  handed # "none" => handed = pending /\ resetAge >= ResetDelay /\ pc["diag"] = "awake"

MonitorInv == TypeOK /\ MonitorAlone /\ CopiesHold
RequestInv == TypeOK /\ ProgramStands /\ ConfirmStands /\ AnswerFirst /\ HandedWhole

LEMMA MonitorStep == MonitorInv /\ [Next]_vars => MonitorInv'
<1> SUFFICES ASSUME MonitorInv, [Next]_vars PROVE MonitorInv'
  OBVIOUS
<1>t. TypeOK'
  BY TypeStep DEF MonitorInv
<1> USE DEF MonitorInv, MonitorAlone, CopiesHold, TypeOK, Tasks, At, Goto, memory, dcm, request
<1>1. CASE Tick
  BY <1>1, <1>t DEF Tick
<1>2. ASSUME NEW c \in {"inject", "start", "stop", "heartbeat", "clear"}, Receive(c)
      PROVE  MonitorInv'
  BY <1>2, <1>t DEF Receive
<1>3. CASE InjectOvertemp
  BY <1>3, <1>t DEF InjectOvertemp
<1>4. CASE ControlTimeoutStart
  BY <1>4, <1>t DEF ControlTimeoutStart
<1>5. CASE ControlTimeoutStop
  BY <1>5, <1>t DEF ControlTimeoutStop
<1>6. CASE ReportsPassed
  BY <1>6, <1>t DEF ReportsPassed
<1>7. CASE HeartbeatReceived
  BY <1>7, <1>t DEF HeartbeatReceived
<1>8. CASE CommandClears
  BY <1>8, <1>t DEF CommandClears
<1>9. CASE PublishesCooled
  BY <1>9, <1>t DEF PublishesCooled
<1>10. CASE FaultMonitorBegins
  BY <1>10, <1>t DEF FaultMonitorBegins, EnterCritical
<1>11. CASE MonitorCoolant
  BY <1>11, <1>t DEF MonitorCoolant
<1>12. CASE ReadHeartbeat
  BY <1>12, <1>t DEF ReadHeartbeat
<1>13. CASE JudgeHeartbeat
  BY <1>13, <1>t DEF JudgeHeartbeat, ExitCritical
<1>14. CASE DiagWakes
  BY <1>14, <1>t DEF DiagWakes
<1>15. ASSUME NEW new \in {"default", "extended"}, SessionControl(new)
      PROVE  MonitorInv'
  BY <1>15, <1>t DEF SessionControl
<1>16. CASE RefreshS3Timer
  BY <1>16, <1>t DEF RefreshS3Timer
<1>17. CASE DiagClears
  BY <1>17, <1>t DEF DiagClears
<1>18. CASE RequestProgramming
  BY <1>18, <1>t DEF RequestProgramming
<1>19. CASE StampProgramming
  BY <1>19, <1>t DEF StampProgramming
<1>20. CASE DiagSleeps
  BY <1>20, <1>t DEF DiagSleeps
<1>21. CASE ResetsDevice
  BY <1>21, <1>t DEF ResetsDevice
<1>22. CASE HealthChecks
  BY <1>22, <1>t DEF HealthChecks
<1>23. CASE RequestConfirm
  BY <1>23, <1>t DEF RequestConfirm
<1>24. CASE StampConfirm
  BY <1>24, <1>t DEF StampConfirm
<1>25. CASE Restart
  BY <1>25, <1>t DEF Restart
<1>26. CASE UNCHANGED vars
  BY <1>26, <1>t DEF vars
<1> QED
  BY <1>1, <1>2, <1>3, <1>4, <1>5, <1>6, <1>7, <1>8, <1>9, <1>10, <1>11, <1>12, <1>13, <1>14, <1>15, <1>16, <1>17, <1>18, <1>19, <1>20, <1>21, <1>22, <1>23, <1>24, <1>25, <1>26 DEF Next

LEMMA RequestStep == RequestInv /\ [Next]_vars => RequestInv'
<1> SUFFICES ASSUME RequestInv, [Next]_vars PROVE RequestInv'
  OBVIOUS
<1>t. TypeOK'
  BY TypeStep DEF RequestInv
<1> USE DEF RequestInv, ProgramStands, ConfirmStands, Healthy, AnswerFirst, HandedWhole,
            TypeOK, Tasks, At, Goto, Alive, memory, dcm, request
<1>1. CASE Tick
  <2>1. resetAge' <= answerAge'
    BY <1>1, AppAssumption DEF Tick, Older
  <2> QED
    BY <1>1, <1>t, <2>1 DEF Tick
<1>2. ASSUME NEW c \in {"inject", "start", "stop", "heartbeat", "clear"}, Receive(c)
      PROVE  RequestInv'
  BY <1>2, <1>t DEF Receive
<1>3. CASE InjectOvertemp
  BY <1>3, <1>t DEF InjectOvertemp
<1>4. CASE ControlTimeoutStart
  BY <1>4, <1>t DEF ControlTimeoutStart
<1>5. CASE ControlTimeoutStop
  BY <1>5, <1>t DEF ControlTimeoutStop
<1>6. CASE ReportsPassed
  BY <1>6, <1>t DEF ReportsPassed
<1>7. CASE HeartbeatReceived
  BY <1>7, <1>t DEF HeartbeatReceived
<1>8. CASE CommandClears
  BY <1>8, <1>t DEF CommandClears
<1>9. CASE PublishesCooled
  BY <1>9, <1>t DEF PublishesCooled
<1>10. CASE FaultMonitorBegins
  BY <1>10, <1>t DEF FaultMonitorBegins
<1>11. CASE MonitorCoolant
  BY <1>11, <1>t DEF MonitorCoolant
<1>12. CASE ReadHeartbeat
  BY <1>12, <1>t DEF ReadHeartbeat
<1>13. CASE JudgeHeartbeat
  BY <1>13, <1>t DEF JudgeHeartbeat
<1>14. CASE DiagWakes
  BY <1>14, <1>t DEF DiagWakes
<1>15. ASSUME NEW new \in {"default", "extended"}, SessionControl(new)
      PROVE  RequestInv'
  BY <1>15, <1>t DEF SessionControl
<1>16. CASE RefreshS3Timer
  BY <1>16, <1>t DEF RefreshS3Timer
<1>17. CASE DiagClears
  BY <1>17, <1>t DEF DiagClears
<1>18. CASE RequestProgramming
  BY <1>18, <1>t DEF RequestProgramming
<1>19. CASE StampProgramming
  BY <1>19, <1>t DEF StampProgramming, Overtaken
<1>20. CASE DiagSleeps
  BY <1>20, <1>t DEF DiagSleeps
<1>21. CASE ResetsDevice
  BY <1>21, <1>t DEF ResetsDevice, ResetDue
<1>22. CASE HealthChecks
  BY <1>22, <1>t DEF HealthChecks, MayConfirm
<1>23. CASE RequestConfirm
  BY <1>23, <1>t DEF RequestConfirm, Priority
<1>24. CASE StampConfirm
  BY <1>24, <1>t DEF StampConfirm
<1>25. CASE Restart
  BY <1>25, <1>t DEF Restart
<1>26. CASE UNCHANGED vars
  BY <1>26, <1>t DEF vars
<1> QED
  BY <1>1, <1>2, <1>3, <1>4, <1>5, <1>6, <1>7, <1>8, <1>9, <1>10, <1>11, <1>12, <1>13, <1>14, <1>15, <1>16, <1>17, <1>18, <1>19, <1>20, <1>21, <1>22, <1>23, <1>24, <1>25, <1>26 DEF Next

LEMMA AppInit == Init => MonitorInv /\ RequestInv
<1> SUFFICES ASSUME Init PROVE MonitorInv /\ RequestInv
  OBVIOUS
<1>1. TypeOK
  BY InitType
<1>2. \A t \in Tasks : pc[t] = "idle"
  BY DEF Init
<1> QED
  BY <1>1, <1>2 DEF Init, MonitorInv, MonitorAlone, CopiesHold, RequestInv, ProgramStands,
       ConfirmStands, AnswerFirst, HandedWhole, Tasks

(* What the bootloader is handed was asked for, and its answer had time to *)
(* leave.                                                                  *)
THEOREM RequestsHanded == Spec => []HandedAsAsked
<1>1. RequestInv => HandedAsAsked
  BY AppAssumption DEF RequestInv, TypeOK, ProgramStands, ConfirmStands, Healthy, AnswerFirst,
       HandedWhole, HandedAsAsked
<1> QED
  BY <1>1, AppInit, RequestStep, PTL DEF Spec
-----------------------------------------------------------------------------
(* The time-out fault is raised, and forgotten, only by a report or a      *)
(* clear: every other step leaves the memory alone.                        *)
Reports ==
  \/ ReportsPassed \/ MonitorCoolant \/ JudgeHeartbeat
  \/ CommandClears \/ DiagClears \/ Restart

LEMMA OnlyReports == [Next]_vars /\ ~Reports => UNCHANGED dtc
<1> SUFFICES ASSUME [Next]_vars, ~Reports PROVE UNCHANGED dtc
  OBVIOUS
<1> USE DEF Reports, memory
<1>1. CASE Tick
  BY <1>1 DEF Tick
<1>2. ASSUME NEW c \in {"inject", "start", "stop", "heartbeat", "clear"}, Receive(c)
      PROVE  UNCHANGED dtc
  BY <1>2 DEF Receive
<1>3. CASE InjectOvertemp
  BY <1>3 DEF InjectOvertemp
<1>4. CASE ControlTimeoutStart
  BY <1>4 DEF ControlTimeoutStart
<1>5. CASE ControlTimeoutStop
  BY <1>5 DEF ControlTimeoutStop
<1>6. CASE HeartbeatReceived
  BY <1>6 DEF HeartbeatReceived
<1>7. CASE PublishesCooled
  BY <1>7 DEF PublishesCooled
<1>8. CASE FaultMonitorBegins
  BY <1>8 DEF FaultMonitorBegins
<1>9. CASE ReadHeartbeat
  BY <1>9 DEF ReadHeartbeat
<1>10. CASE DiagWakes
  BY <1>10 DEF DiagWakes
<1>11. ASSUME NEW new \in {"default", "extended"}, SessionControl(new)
      PROVE  UNCHANGED dtc
  BY <1>11 DEF SessionControl
<1>12. CASE RefreshS3Timer
  BY <1>12 DEF RefreshS3Timer
<1>13. CASE RequestProgramming
  BY <1>13 DEF RequestProgramming
<1>14. CASE StampProgramming
  BY <1>14 DEF StampProgramming
<1>15. CASE DiagSleeps
  BY <1>15 DEF DiagSleeps
<1>16. CASE ResetsDevice
  BY <1>16 DEF ResetsDevice
<1>17. CASE HealthChecks
  BY <1>17 DEF HealthChecks
<1>18. CASE RequestConfirm
  BY <1>18 DEF RequestConfirm
<1>19. CASE StampConfirm
  BY <1>19 DEF StampConfirm
<1>20. CASE UNCHANGED vars
  BY <1>20 DEF vars
<1> QED
  BY <1>1, <1>2, <1>3, <1>4, <1>5, <1>6, <1>7, <1>8, <1>9, <1>10, <1>11, <1>12, <1>13, <1>14, <1>15, <1>16, <1>17, <1>18, <1>19, <1>20 DEF Next

LEMMA PassedQuiet ==
  ASSUME NEW r \in Fault("timeout")
  PROVE  /\ ReportPassed(r, "timeout").active => r.active
         /\ "confirmed" \in r.status => "confirmed" \in ReportPassed(r, "timeout").status
<1> DEFINE n == Older(r.pass, PassThreshold("timeout"))
           p == [r EXCEPT !.fail = 0, !.pass = n]
<1>1. n >= PassThreshold("timeout")
  BY DEF Fault, PassThreshold, Older
<1>2. n \in Nat
  BY DEF Fault, PassThreshold, Older
<1>3. ReportPassed(r, "timeout") =
        IF "confirmed" \in r.status
        THEN [p EXCEPT !.active = FALSE, !.stored = TRUE, !.status = {"confirmed"}]
        ELSE [p EXCEPT !.active = FALSE, !.stored = FALSE, !.status = {}]
  <2> DEFINE m == n
             T == PassThreshold("timeout")
  <2>1. ~(m < T) /\ m >= T
    BY <1>1, <1>2 DEF PassThreshold
  <2> QED
    BY <2>1, Zenon DEF ReportPassed
<1>4. DOMAIN p = {"fail", "pass", "active", "stored", "status"}
  BY DEF Fault
<1> QED
  BY <1>3, <1>4

LEMMA FailedConfirms ==
  ASSUME NEW r \in Fault("timeout")
  PROVE  "confirmed" \in ReportFailed(r, "timeout").status
<1>1. ~(Older(r.fail, FailThreshold("timeout")) < FailThreshold("timeout"))
  BY DEF Fault, FailThreshold, Older
<1> QED
  BY <1>1 DEF ReportFailed, Fault

(* The time-out fault is raised only when it is due, whatever the          *)
(* CAN-Rx task handles meanwhile.                                          *)
THEOREM TimeoutIsEarned == Spec => TimeoutEarned
<1> DEFINE Earned == ~dtc["timeout"].active /\ dtc'["timeout"].active
                       => watched /\ beatAge >= HeartbeatTimeout
<1>1. MonitorInv /\ [Next]_vars => [Earned]_vars
  <2> SUFFICES ASSUME MonitorInv, [Next]_vars, ~dtc["timeout"].active, dtc'["timeout"].active
               PROVE  watched /\ beatAge >= HeartbeatTimeout
    OBVIOUS
  <2>t. DOMAIN dtc = Events /\ (\A e \in Events : dtc[e] \in Fault(e)) /\ hot \in BOOLEAN
    BY DEF MonitorInv, TypeOK
  <2>1. CASE ReportsPassed
    <3>1. dtc'["timeout"] = ReportPassed(dtc["timeout"], "timeout")
      BY <2>1, <2>t, EventType DEF ReportsPassed, Events
    <3> QED
      BY <3>1, <2>t, PassedQuiet DEF Events
  <2>2. CASE MonitorCoolant
    <3>1. dtc'["timeout"] = dtc["timeout"]
      BY <2>2, <2>t, EventType DEF MonitorCoolant, Events
    <3> QED
      BY <3>1
  <2>3. CASE JudgeHeartbeat
    <3>1. seen = [watched |-> watched, age |-> beatAge]
      BY <2>3 DEF MonitorInv, CopiesHold, JudgeHeartbeat, At
    <3>2. CASE seen.watched /\ seen.age >= HeartbeatTimeout
      BY <3>1, <3>2
    <3>3. CASE seen.watched /\ ~(seen.age >= HeartbeatTimeout)
      <4>1. SetEventStatus("timeout", FALSE)
        BY <2>3, <3>3 DEF JudgeHeartbeat, SetEventStatus
      <4>2. dtc'["timeout"] = ReportPassed(dtc["timeout"], "timeout")
        BY <4>1, <2>t, EventType DEF Events
      <4> QED
        BY <4>2, <2>t, PassedQuiet DEF Events
    <3>4. CASE ~seen.watched
      BY <2>3, <3>4 DEF JudgeHeartbeat
    <3> QED
      BY <3>2, <3>3, <3>4
  <2>4. CASE CommandClears \/ DiagClears \/ Restart
    BY <2>4 DEF CommandClears, DiagClears, Restart, NoFaults, NoFault, Events
  <2>5. CASE ~Reports
    BY <2>5, OnlyReports
  <2> QED
    BY <2>1, <2>2, <2>3, <2>4, <2>5 DEF Reports
<1> QED
  BY <1>1, AppInit, MonitorStep, PTL DEF Spec, TimeoutEarned

(* A confirmed time-out fault is forgotten only when it is cleared.        *)
THEOREM TimeoutIsRemembered == Spec => TimeoutRemembered
<1> DEFINE Kept == Confirmed("timeout") /\ ~Confirmed("timeout")'
                     => CommandClears \/ DiagClears \/ Restart
<1>1. TypeOK /\ [Next]_vars => [Kept]_vars
  <2> SUFFICES ASSUME TypeOK, [Next]_vars, Confirmed("timeout"),
                      ~(CommandClears \/ DiagClears \/ Restart)
               PROVE  Confirmed("timeout")'
    OBVIOUS
  <2>t. DOMAIN dtc = Events /\ (\A e \in Events : dtc[e] \in Fault(e)) /\ hot \in BOOLEAN
    BY DEF TypeOK
  <2>1. CASE ReportsPassed
    <3>1. dtc'["timeout"] = ReportPassed(dtc["timeout"], "timeout")
      BY <2>1, <2>t, EventType DEF ReportsPassed, Events
    <3> QED
      BY <3>1, <2>t, PassedQuiet DEF Events, Confirmed
  <2>2. CASE MonitorCoolant
    <3>1. dtc'["timeout"] = dtc["timeout"]
      BY <2>2, <2>t, EventType DEF MonitorCoolant, Events
    <3> QED
      BY <3>1 DEF Confirmed
  <2>3. CASE JudgeHeartbeat
    <3>1. CASE seen.watched
      <4>1. ASSUME NEW f \in BOOLEAN, SetEventStatus("timeout", f)
            PROVE  Confirmed("timeout")'
        <5>1. dtc'["timeout"] = IF f THEN ReportFailed(dtc["timeout"], "timeout")
                                     ELSE ReportPassed(dtc["timeout"], "timeout")
          BY <4>1, <2>t, EventType DEF Events
        <5> QED
          BY <5>1, <2>t, PassedQuiet, FailedConfirms DEF Events, Confirmed
      <4>2. SetEventStatus("timeout", seen.age >= HeartbeatTimeout)
        BY <2>3, <3>1 DEF JudgeHeartbeat
      <4>3. SetEventStatus("timeout", TRUE) \/ SetEventStatus("timeout", FALSE)
        BY <4>2 DEF SetEventStatus
      <4> QED
        BY <4>1, <4>3
    <3>2. CASE ~seen.watched
      BY <2>3, <3>2 DEF JudgeHeartbeat, Confirmed
    <3> QED
      BY <3>1, <3>2
  <2>4. CASE ~Reports
    BY <2>4, OnlyReports DEF Confirmed
  <2> QED
    BY <2>1, <2>2, <2>3, <2>4 DEF Reports
<1> QED
  BY <1>1, AppTypeCorrect, PTL DEF Spec, TimeoutRemembered
=============================================================================
