------------------------------- MODULE Kernel -------------------------------
(***************************************************************************)
(* FreeRTOS as the application configures it: one core, preemption and     *)
(* time slicing, no mutexes, no timers.  Tasks that sleep and that use one *)
(* queue, the CAN interrupt that sends to it, the tick interrupt and the   *)
(* context switch.  A step is one critical section, or one stretch of code *)
(* under a suspended scheduler; between two steps interrupts may come.     *)
(***************************************************************************)
EXTENDS RingBuffer, Integers, FiniteSets, SequencesExt

CONSTANTS
  Tasks,      \* in the order of their creation
  Prio,       \* uxPriority of each
  Calls,      \* the calls each may make: [op, w], w ticks to wait
  TickMod,    \* values of xTickCount (2^32)
  MaxPended   \* bound: ticks that may come while the scheduler is suspended

TaskSet == Range(Tasks)
Forever == TickMod - 1     \* portMAX_DELAY
End     == "xListEnd"
Levels  == {Prio[t] : t \in TaskSet}

NeverWaits(t) == \A c \in Calls[t] : c.op # "sleep" /\ c.w = 0

ASSUME KernelAssumption ==
  /\ Tasks \in Seq(TaskSet) /\ IsInjective(Tasks) /\ End \notin TaskSet
  /\ Prio \in [TaskSet -> Nat]
  /\ \E t \in TaskSet : NeverWaits(t)     \* the idle task
  /\ \A t \in TaskSet : \A c \in Calls[t] :
       c.op \in {"receive", "send", "sleep"} /\ c.w \in 0 .. Forever
  /\ TickMod \in Nat \ {0, 1}
  /\ MaxPended \in Nat \ {0} /\ MaxPended < TickMod     \* xPendedTicks is a TickType_t

VARIABLES
  ring,    \* the queue's storage
  lock,    \* cTxLock: -1 unlocked, else sends since it was locked
  k,       \* the lists, the clock and the missed events of tasks.c
  cur,     \* pxCurrentTCB
  susp,    \* the scheduler is suspended
  pendsv,  \* a context switch is pending
  pc,      \* where each task is: "app" outside the kernel
  call     \* the call each task makes, what it waits for, when it began

vars == <<ring, lock, k, cur, susp, pendsv, pc, call>>
-----------------------------------------------------------------------------
(* LISTS (list.c).  A ready list is written from the entry after pxIndex   *)
(* round to pxIndex itself, its end marker included.                       *)

InsertEnd(s, t)  == Front(s) \o <<t, Last(s)>>
Removed(s, t)    == IF t \in Range(s) THEN RemoveAt(s, CHOOSE i \in DOMAIN s : s[i] = t) ELSE s
Rotated(s)       == Tail(s) \o <<Head(s)>>
NextEntry(s)     == IF Head(s) = End THEN Rotated(Rotated(s)) ELSE Rotated(s)
Members(s)       == Range(s) \ {End}

(* How far one can walk from the head of s before an entry is not in S.    *)
Leading(s, S) ==
  CHOOSE n \in 0 .. Len(s) : /\ \A i \in 1 .. n : s[i] \in S
                             /\ n < Len(s) => s[n + 1] \notin S

(* vListInsert: behind the entries that are not greater, the set ahead.    *)
Inserted(s, t, ahead) == InsertAt(s, Leading(s, ahead) + 1, t)

(* Op applied for one entry after the other.                               *)
Through(Op(_, _), x, s) ==
  LET f[n \in 0 .. Len(s)] == IF n = 0 THEN x ELSE Op(f[n - 1], s[n])
  IN  f[Len(s)]

NoCall == [op |-> "none", w |-> 0, entry |-> 0, asked |-> 0, next |-> "none"]

-----------------------------------------------------------------------------
(* THE SCHEDULER (tasks.c), as functions of its data                       *)

(* prvAddTaskToReadyList.                                                  *)
MadeReady(x, t) ==
  [x EXCEPT !.ready = [@ EXCEPT ![Prio[t]] = InsertEnd(x.ready[Prio[t]], t)],
            !.top = @ \cup {Prio[t]}]

(* Before the first task is created ...                                    *)
Uncreated ==
  [ready |-> [p \in Levels |-> <<End>>], top |-> {},
   delayed |-> << >>, overflow |-> << >>, suspended |-> << >>,
   pending |-> << >>, rx |-> << >>, tx |-> << >>,
   pended |-> 0, yield |-> FALSE,
   tick |-> 0, unblock |-> Forever, wake |-> [t \in TaskSet |-> 0],
   wrapped |-> [t \in TaskSet |-> FALSE], age |-> [t \in TaskSet |-> -1]]

(* ... and when all are: of the most urgent ones the last runs first.      *)
RunsFirst(t) ==
  \E i \in DOMAIN Tasks :
    /\ t = Tasks[i]
    /\ \A j \in DOMAIN Tasks :
         Prio[Tasks[j]] < Prio[t] \/ (Prio[Tasks[j]] = Prio[t] /\ j <= i)

Init ==
  /\ ring = Fresh /\ lock = -1 /\ pendsv = FALSE
  /\ pc = [t \in TaskSet |-> "app"] /\ call = [t \in TaskSet |-> NoCall]
  /\ cur \in TaskSet /\ RunsFirst(cur)
  /\ k = Through(MadeReady, Uncreated, Tasks) /\ susp = FALSE

(* Off whichever list of waiting tasks its state item is in.               *)
OffState(x, t) ==
  [x EXCEPT !.delayed = Removed(@, t), !.overflow = Removed(@, t),
            !.suspended = Removed(@, t), !.wake = [@ EXCEPT ![t] = 0]]

OffEvents(x, t) == [x EXCEPT !.rx = Removed(@, t), !.tx = Removed(@, t)]

(* Faulty variant: a switch under a suspended scheduler.                   *)
MaySwitchAlways == TRUE

(* vTaskSwitchContext puts a switch off, and else takes the next entry of  *)
(* the highest level.                                                      *)
MaySwitch == ~susp
Top(S) == CHOOSE p \in S : \A r \in S : r <= p
NextReady(x) == NextEntry(x.ready[Top(x.top)])
Switched(x)  == [x EXCEPT !.yield = FALSE, !.ready = [@ EXCEPT ![Top(x.top)] = NextReady(x)]]

(* xTaskRemoveFromEventList on the list rx or tx, when it is not empty;    *)
(* its result is Preempts.                                                 *)
Preempts(x, list) == x[list] # << >> /\ Prio[Head(x[list])] > Prio[cur]
Woken(x, list) ==
  LET t == Head(x[list])
      y == [x EXCEPT ![list] = Tail(@), !.yield = @ \/ Preempts(x, list)]
  IN  IF x[list] = << >> THEN x
      ELSE IF susp THEN [y EXCEPT !.pending = Append(@, t)]
      ELSE MadeReady(OffState(y, t), t)

HeadWake(x) == IF x.delayed = << >> THEN Forever ELSE x.wake[Head(x.delayed)]
WithUnblock(x) == [x EXCEPT !.unblock = HeadWake(x)]

(* taskSWITCH_DELAYED_LISTS.                                               *)
ListsSwitched(x) ==
  WithUnblock([x EXCEPT !.delayed = x.overflow, !.overflow = x.delayed,
                        !.wrapped = [t \in TaskSet |-> x.age[t] >= 0]])

(* Time slicing: another task of the current one's level is ready.         *)
Slice(x) == Cardinality(Members(x.ready[Prio[cur]])) > 1

(* xTaskIncrementTick with the scheduler running, and its result.          *)
Expired(x) == SubSeq(x.delayed, 1, Leading(x.delayed, {t \in TaskSet : x.wake[t] <= x.tick}))
Counted(x) ==
  LET now == (x.tick + 1) % TickMod
      y == [x EXCEPT !.tick = now,
                     !.age = [t \in TaskSet |-> IF @[t] \in 0 .. TickMod - 1 THEN @[t] + 1 ELSE @[t]]]
  IN  IF now = 0 THEN ListsSwitched(y) ELSE y
Expires(x, t) ==
  LET y == MadeReady(OffEvents(OffState(x, t), t), t)
  IN  IF t \in Range(x.rx) \cup Range(x.tx) THEN y
      ELSE [y EXCEPT !.age = [@ EXCEPT ![t] = -1], !.wrapped = [@ EXCEPT ![t] = FALSE]]
Ticked(x) ==
  LET y == Counted(x)
  IN  IF y.tick >= y.unblock THEN WithUnblock(Through(Expires, y, Expired(y))) ELSE y
TickSwitches(x) ==
  LET y == Counted(x)
  IN  \/ y.tick >= y.unblock /\ \E t \in Range(Expired(y)) : Prio[t] > Prio[cur]
      \/ Slice(Ticked(x)) \/ x.yield

(* The current task leaves its ready list, which ends its level's bit when *)
(* it was the only one ...                                                 *)
OffReady(x, t) ==
  LET l == Removed(x.ready[Prio[t]], t)
  IN  [x EXCEPT !.ready = [@ EXCEPT ![Prio[t]] = l],
                !.top = IF Members(l) = {} THEN @ \ {Prio[t]} ELSE @]

(* Faulty variant: a wake time past the end goes to the current list.      *)
OverflowsNever(x, w) == FALSE

Overflows(x, w) == x.tick + w >= TickMod

(* ... to wait: prvAddCurrentTaskToDelayedList.                            *)
Delayed(x, t, w, indefinitely) ==
  LET y == [OffReady(x, t) EXCEPT !.wake = [@ EXCEPT ![t] = (x.tick + w) % TickMod]]
      earlier == {u \in TaskSet : y.wake[u] <= y.wake[t]}
  IN  IF w = Forever /\ indefinitely
      THEN [OffReady(x, t) EXCEPT !.suspended = Append(@, t)]
      ELSE IF Overflows(x, w)
      THEN [y EXCEPT !.overflow = Inserted(@, t, earlier)]
      ELSE [y EXCEPT !.delayed = Inserted(@, t, earlier),
                     !.unblock = IF y.wake[t] < @ THEN y.wake[t] ELSE @]

(* vTaskPlaceOnEventList: the most urgent first, then the longest waiting. *)
Placed(x, list, t, w) ==
  LET ahead == {u \in TaskSet : Prio[u] >= Prio[t]}
  IN  Delayed([x EXCEPT ![list] = Inserted(@, t, ahead)], t, w, TRUE)

(* xTaskResumeAll: the pending tasks, then the pended ticks.               *)
PendingReady(x, t) ==
  LET y == MadeReady(OffState(x, t), t)
  IN  [y EXCEPT !.yield = @ \/ Prio[t] > Prio[cur]]
TickLate(x, n) == [Ticked(x) EXCEPT !.yield = @ \/ TickSwitches(x)]
Resumed(x) ==
  LET y == [Through(PendingReady, x, x.pending) EXCEPT !.pending = << >>]
      z == IF x.pending = << >> THEN y ELSE WithUnblock(y)
  IN  [Through(TickLate, z, [n \in 1 .. x.pended |-> n]) EXCEPT !.pended = 0]
-----------------------------------------------------------------------------
(* THE CALLS OF A TASK (queue.c, tasks.c)                                  *)

At(t, place)    == pc[t] = place
Goes(t, place)  == pc' = [pc EXCEPT ![t] = place]
ReturnsWith(x, t) ==
  /\ Goes(t, "app") /\ call' = [call EXCEPT ![t] = NoCall]
  /\ k' = [x EXCEPT !.age = [@ EXCEPT ![t] = -1], !.wrapped = [@ EXCEPT ![t] = FALSE]]
Returns(t) == ReturnsWith(k, t)

(* The ticks a call begins with, or goes round its loop with.              *)
Waits(t, op) ==
  IF At(t, "app") THEN {c.w : c \in {d \in Calls[t] : d.op = op}}
  ELSE IF At(t, "try") /\ call[t].op = op THEN {call[t].w} ELSE {}

(* vTaskInternalSetTimeOutState at the first failure; then on.             *)
GoesToWait(t, op, w) ==
  /\ Goes(t, "suspend")
  /\ IF pc[t] = "app"
     THEN /\ call' = [call EXCEPT ![t] = [NoCall EXCEPT !.op = op, !.w = w, !.asked = w,
                                           !.entry = IF w = Forever THEN 0 ELSE k.tick]]
          /\ k' = [k EXCEPT !.age = [@ EXCEPT ![t] = IF w = Forever THEN -1 ELSE 0],
                            !.wrapped = [@ EXCEPT ![t] = FALSE]]
     ELSE UNCHANGED <<call, k>>
  /\ UNCHANGED <<ring, pendsv>>

(* The critical section at the head of the loop of xQueueReceive ...       *)
TryReceive(t) ==
  /\ \E w \in Waits(t, "receive") :
       \/ /\ HasItem(ring) /\ ring' = Taken(ring)
          /\ pendsv' = Preempts(k, "tx") /\ ReturnsWith(Woken(k, "tx"), t)
       \/ /\ ~HasItem(ring) /\ w = 0
          /\ Returns(t) /\ UNCHANGED <<ring, pendsv>>
       \/ ~HasItem(ring) /\ w > 0 /\ GoesToWait(t, "receive", w)
  /\ UNCHANGED <<lock, cur, susp>>

(* ... and of xQueueGenericSend.                                           *)
TrySend(t) ==
  /\ \E w \in Waits(t, "send") :
       \/ /\ HasRoom(ring) /\ \E v \in Values : ring' = Put(ring, v)
          /\ pendsv' = Preempts(k, "rx") /\ ReturnsWith(Woken(k, "rx"), t)
       \/ /\ ~HasRoom(ring) /\ w = 0
          /\ Returns(t) /\ UNCHANGED <<ring, pendsv>>
       \/ ~HasRoom(ring) /\ w > 0 /\ GoesToWait(t, "send", w)
  /\ UNCHANGED <<lock, cur, susp>>

(* vTaskSuspendAll.                                                        *)
Suspend(t) ==
  /\ At(t, "suspend")
  /\ susp' = TRUE /\ Goes(t, "lock")
  /\ UNCHANGED <<ring, lock, k, cur, pendsv, call>>

(* prvLockQueue.                                                           *)
Lock(t) ==
  /\ At(t, "lock")
  /\ lock' = (IF lock = -1 THEN 0 ELSE lock) /\ Goes(t, "check")
  /\ UNCHANGED <<ring, k, cur, susp, pendsv, call>>

(* xTaskCheckForTimeOut.                                                   *)
Elapsed(c) == (k.tick + TickMod - c.entry) % TickMod

Left(c) == [c EXCEPT !.w = @ - Elapsed(c), !.entry = k.tick]

(* Faulty variant: an overflow since then is taken for the end of the time.*)
TimedOutOnWrap(t) ==
  LET c == call[t]
  IN  c.w # Forever /\ (k.wrapped[t] \/ Elapsed(c) >= c.w)

TimedOut(t) ==
  LET c == call[t]
  IN  c.w # Forever /\ ((k.wrapped[t] /\ k.tick >= c.entry) \/ Elapsed(c) >= c.w)
Check(t) ==
  LET c == call[t]
  IN  /\ At(t, "check")
      /\ \/ /\ TimedOut(t) /\ Goes(t, "unlock")
            /\ call' = [call EXCEPT ![t] = [c EXCEPT !.w = 0, !.next = "out"]] /\ UNCHANGED k
         \/ /\ ~TimedOut(t) /\ Goes(t, "test")
            /\ IF c.w = Forever THEN UNCHANGED <<call, k>>
               ELSE /\ call' = [call EXCEPT ![t] = Left(c)]
                    /\ k' = [k EXCEPT !.wrapped = [@ EXCEPT ![t] = FALSE]]
      /\ UNCHANGED <<ring, lock, cur, susp, pendsv>>

(* Faulty variant: what the first look found is still true.                *)
StillStuckUnseen(t) == TRUE

(* prvIsQueueEmpty, prvIsQueueFull.                                        *)
StillStuck(t) == IF call[t].op = "receive" THEN ~HasItem(ring) ELSE ~HasRoom(ring)

Test(t) ==
  /\ At(t, "test")
  /\ \/ StillStuck(t) /\ Goes(t, "place") /\ UNCHANGED call
     \/ /\ ~StillStuck(t) /\ Goes(t, "unlock")
        /\ call' = [call EXCEPT ![t].next = "again"]
  /\ UNCHANGED <<ring, lock, k, cur, susp, pendsv>>

ListOf(t) == IF call[t].op = "receive" THEN "rx" ELSE "tx"
Place(t) ==
  /\ At(t, "place")
  /\ k' = Placed(k, ListOf(t), t, call[t].w)
  /\ Goes(t, "unlock") /\ call' = [call EXCEPT ![t].next = "block"]
  /\ UNCHANGED <<ring, lock, cur, susp, pendsv>>

(* Faulty variant: forgets what interrupts sent meanwhile.                 *)
SentMeanwhileNone == << >>

SentMeanwhile == [n \in 1 .. lock |-> n]

(* prvUnlockQueue; nothing takes items from an interrupt.                  *)
Unlock(t) ==
  /\ At(t, "unlock")
  /\ k' = Through(LAMBDA x, n : Woken(x, "rx"), k, SentMeanwhile)
  /\ lock' = -1 /\ Goes(t, "resume")
  /\ UNCHANGED <<ring, cur, susp, pendsv, call>>

(* Faulty variant: leaves the yield to the next tick.                      *)
YieldsOnlyToBlock(x, t) == call[t].next = "block"

YieldsAfter(x, t) == x.yield \/ call[t].next = "block"

(* xTaskResumeAll and the yield after it.                                  *)
Resume(t) ==
  LET x == Resumed(k)
  IN  /\ At(t, "resume")
      /\ pendsv' = YieldsAfter(x, t)
      /\ \/ call[t].op = "sleep" /\ Goes(t, "app") /\ k' = x /\ UNCHANGED call
         \/ /\ call[t].op # "sleep" /\ call[t].next # "out"
            /\ Goes(t, "try") /\ k' = x /\ UNCHANGED call
         \/ /\ call[t].op = "receive" /\ call[t].next = "out"
            /\ Goes(t, "final") /\ k' = x /\ UNCHANGED call
         \/ call[t].op = "send" /\ call[t].next = "out" /\ ReturnsWith(x, t)
      /\ susp' = FALSE /\ UNCHANGED <<ring, lock, cur>>

(* xQueueReceive looks once more before it gives up.                       *)
Final(t) ==
  /\ At(t, "final")
  /\ IF HasItem(ring) THEN Goes(t, "try") /\ UNCHANGED <<k, call>> ELSE Returns(t)
  /\ UNCHANGED <<ring, lock, cur, susp, pendsv>>

(* vTaskDelayUntil; call[t].entry is the caller's last wake time.          *)
Sleep(t) ==
  /\ At(t, "app")
  /\ \E c \in Calls[t] :
       /\ c.op = "sleep"
       /\ call' = [call EXCEPT ![t] = [NoCall EXCEPT !.op = "sleep", !.w = c.w, !.next = "block",
                                         !.entry = IF call[t].op = "sleep" THEN call[t].entry ELSE k.tick]]
  /\ susp' = TRUE /\ Goes(t, "delay")
  /\ UNCHANGED <<ring, lock, k, cur, pendsv>>

PlaceSleep(t) ==
  LET last == call[t].entry
      wake == (last + call[t].w) % TickMod
      ahead == IF k.tick < last THEN wake < last /\ wake > k.tick ELSE wake < last \/ wake > k.tick
      left == (wake + TickMod - k.tick) % TickMod
  IN  /\ At(t, "delay")
      /\ Goes(t, "resume")
      /\ call' = [call EXCEPT ![t] = [@ EXCEPT !.entry = wake, !.asked = IF ahead THEN left ELSE 0]]
      /\ k' = IF ahead
              THEN [Delayed(k, t, left, FALSE) EXCEPT !.age = [@ EXCEPT ![t] = 0]]
              ELSE k
      /\ UNCHANGED <<ring, lock, cur, susp, pendsv>>

Step(t) ==
  \/ TryReceive(t) \/ TrySend(t) \/ Suspend(t) \/ Lock(t) \/ Check(t) \/ Test(t)
  \/ Place(t) \/ Unlock(t) \/ Resume(t) \/ Final(t) \/ Sleep(t) \/ PlaceSleep(t)
-----------------------------------------------------------------------------
(* INTERRUPTS                                                              *)

(* PendSV, once no other interrupt and no critical section is in its way.  *)
SwitchContext ==
  /\ pendsv /\ pendsv' = FALSE
  /\ \/ MaySwitch /\ k' = Switched(k) /\ cur' = Last(NextReady(k))
     \/ ~MaySwitch /\ k' = [k EXCEPT !.yield = TRUE] /\ UNCHANGED cur
  /\ UNCHANGED <<ring, lock, susp, pc, call>>

(* SysTick.                                                                *)
Tick ==
  /\ \/ susp /\ k.pended < MaxPended /\ k' = [k EXCEPT !.pended = @ + 1] /\ UNCHANGED pendsv
     \/ ~susp /\ k' = Ticked(k) /\ pendsv' = (pendsv \/ TickSwitches(k))
  /\ UNCHANGED <<ring, lock, cur, susp, pc, call>>

(* CanIf_RxIndication: xQueueSendFromISR; a full queue drops the frame.    *)
CanInterrupt ==
  /\ HasRoom(ring) /\ \E v \in Values : ring' = Put(ring, v)
  /\ \/ /\ lock = -1 /\ k' = Woken(k, "rx")
        /\ pendsv' = (pendsv \/ Preempts(k, "rx")) /\ UNCHANGED lock
     \/ /\ lock # -1 /\ lock' = (IF lock < Len(Tasks) THEN lock + 1 ELSE lock)
        /\ UNCHANGED <<k, pendsv>>
  /\ UNCHANGED <<cur, susp, pc, call>>

Processor == SwitchContext \/ (~pendsv /\ Step(cur))
Next == Processor \/ Tick \/ CanInterrupt

Spec == Init /\ [][Next]_vars
-----------------------------------------------------------------------------
(* PROPERTIES                                                              *)

Waiting   == Range(k.delayed) \cup Range(k.overflow) \cup Range(k.suspended)
ReadyOnes == UNION {Members(k.ready[p]) : p \in Levels}
InCall(t, op) == call[t].op = op
Inside(t) == pc[t] \in {"lock", "check", "test", "place", "unlock", "resume", "delay"}

(* The storage is sound, and the bookkeeping of the lists exact: each task *)
(* is in one state list only, in its own level's when ready, in an event   *)
(* list only while it waits, and the bits of the levels and the next time  *)
(* to look at the delayed tasks are right.                                 *)
TypeOK ==
  /\ ring \in Rings /\ Aligned(ring) /\ Filled(ring) /\ lock \in -1 .. Len(Tasks)
  /\ cur \in TaskSet /\ k.tick \in 0 .. Forever /\ k.pended \in 0 .. MaxPended /\ (k.pended > 0 => susp)
  /\ k.top = {p \in Levels : Members(k.ready[p]) # {}}
  /\ Waiting \cap ReadyOnes = {} /\ Waiting \cup ReadyOnes = TaskSet
  /\ \A p \in Levels : \A t \in Members(k.ready[p]) : Prio[t] = p
  /\ Len(k.delayed) + Len(k.overflow) + Len(k.suspended) = Cardinality(Waiting)
  /\ Range(k.rx) \cup Range(k.tx) \cup Range(k.pending) \subseteq Waiting
  /\ Len(k.rx) + Len(k.tx) + Len(k.pending)
       = Cardinality(Range(k.rx) \cup Range(k.tx) \cup Range(k.pending))
  /\ k.pending # << >> => susp
  /\ k.unblock <= HeadWake(k)

(* Suspending the scheduler excludes the other tasks: one task at most is  *)
(* between vTaskSuspendAll and xTaskResumeAll, it has the processor, and a *)
(* locked queue is never left to anyone but interrupts.                    *)
Exclusive ==
  /\ \A t \in TaskSet : Inside(t) => t = cur /\ susp
  /\ susp => Inside(cur)
  /\ lock # -1 => susp

(* The processor runs a most urgent ready task as soon as no switch is     *)
(* pending and the scheduler is not suspended: no yield is ever forgotten, *)
(* whatever interrupts did while it was suspended.                         *)
UrgentRuns ==
  ~pendsv /\ ~susp => /\ cur \in ReadyOnes
                        /\ \A t \in ReadyOnes : Prio[t] <= Prio[cur]

(* No wake-up is lost: while tasks wait to receive, each item in the queue *)
(* has a task that was woken and is still to look; likewise for room.      *)
NoLostWakeup ==
  /\ lock = -1 /\ k.rx # << >> =>
       ring.waiting <= Cardinality({t \in TaskSet : InCall(t, "receive") /\ t \notin Range(k.rx)})
  /\ lock = -1 /\ k.tx # << >> =>
       Length - ring.waiting <= Cardinality({t \in TaskSet : InCall(t, "send") /\ t \notin Range(k.tx)})

(* Between overflows of the tick count a task that waits for a time waits  *)
(* exactly for what is left of the time it asked for, on whichever of the  *)
(* two lists it is, and the list that is switched out is empty.            *)
Distance(t) ==
  IF t \in Range(k.delayed) THEN k.wake[t] - k.tick ELSE k.wake[t] + TickMod - k.tick
WaitsExactly ==
  \A t \in Range(k.delayed) \cup Range(k.overflow) :
    k.age[t] < TickMod => Distance(t) > 0 /\ Distance(t) = call[t].asked - k.age[t]

(* No call times out early, and a sleeper is not woken early, however      *)
(* often it was woken in vain and went back to wait, and although ticks    *)
(* came late.                                                              *)
NeverEarly ==
  [][\A t \in TaskSet :
       /\ InCall(t, "sleep") /\ t \in Waiting /\ t \notin Waiting' =>
            k.age[t] + ((k'.tick + TickMod - k.tick) % TickMod) >= call[t].asked
       /\ /\ call[t].op \in {"receive", "send"} /\ call'[t].op # call[t].op
          /\ ring' = ring
          => k.age[t] >= call[t].asked]_vars

(* Through its users' eyes the queue is a bounded first-in-first-out       *)
(* sequence.                                                               *)
Queue == INSTANCE Fifo WITH items <- Contents(ring)
ImplementsFifo == Queue!Spec
=============================================================================
