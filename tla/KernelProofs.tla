---------------------------- MODULE KernelProofs ----------------------------
(***************************************************************************)
(* Four things about the kernel, for every set of tasks, priorities and    *)
(* calls, every length and every set of items, in whatever order tasks and *)
(* interrupts come.                                                        *)
(*                                                                         *)
(* The queue implements the abstract queue.  Its storage comes first, by   *)
(* itself: sending appends to what its users see and receiving drops the   *)
(* oldest; RingSteps says that whatever the scheduler does, a step touches *)
(* the storage only to send an item there is room for or to receive one    *)
(* that is there.                                                          *)
(*                                                                         *)
(* The scheduler keeps its lists exact and runs a most urgent task.  What  *)
(* each of its functions does to the lists is stated for any data x that   *)
(* fits together; functions that go through a list are applied entry by    *)
(* entry.  KernelInv adds where the current task is in its call, and each  *)
(* step of a task, a tick, a frame and a switch is shown to keep it.       *)
(*                                                                         *)
(* No wake-up is lost.  WakeInv counts: while tasks wait for items, each   *)
(* item in the queue has a task that was woken and is still to look, or is *)
(* noted in the queue's lock; while tasks wait for room, each free place   *)
(* has such a task.                                                        *)
(*                                                                         *)
(* No wait ends early.  TimeInv relates three clocks of a task: its wake   *)
(* time in the list it waits in, the time-out its call keeps, and the      *)
(* ticks that have really passed; each is right although ticks come late,  *)
(* the count overflows, and a call goes round its loop.                    *)
(***************************************************************************)
EXTENDS Kernel, TLAPS, FiniteSetTheorems, SequenceTheorems, WellFoundedInduction

Sound(q) == q \in Rings /\ Aligned(q) /\ Filled(q)

(* Positions are within the array, and the next one is one further.        *)
LEMMA PositionInRing ==
  ASSUME NEW q \in Rings, NEW i \in 0 .. Length
  PROVE  Position(q, i) \in Slots
BY RingAssumption DEF Rings, Slots, Position

LEMMA PositionAfter ==
  ASSUME NEW q \in Rings, NEW i \in 0 .. Length - 1
  PROVE  Position(q, i + 1) = After(Position(q, i))
BY RingAssumption DEF Rings, Slots, Position, After

(* Two items within a length of each other lie at different positions.     *)
LEMMA PositionsDiffer ==
  ASSUME NEW q \in Rings, NEW i \in 1 .. Length, NEW j \in 1 .. Length, i # j
  PROVE  Position(q, i) # Position(q, j)
BY RingAssumption DEF Rings, Slots, Position

(* The new queue is sound and empty.                                       *)
LEMMA FreshSound == Sound(Fresh) /\ Contents(Fresh) = << >>
<1>1. Fresh \in Rings
  BY RingAssumption DEF Fresh, Rings, Slots
<1>2. Aligned(Fresh) /\ Filled(Fresh)
  BY RingAssumption DEF Fresh, Aligned, Filled, After, Position
<1>3. Contents(Fresh) = << >>
  BY DEF Contents, Fresh
<1> QED BY <1>1, <1>2, <1>3 DEF Sound

(* What users see is a sequence of at most Length items.                   *)
LEMMA ContentsType ==
  ASSUME NEW q, Sound(q)
  PROVE  Contents(q) \in Seq(Values) /\ Len(Contents(q)) = q.waiting
<1>1. q.waiting \in Nat
  BY RingAssumption DEF Sound, Rings
<1>2. \A i \in 1 .. q.waiting : q.buf[Position(q, i)] \in Values
  BY DEF Sound, Filled
<1> QED BY <1>1, <1>2 DEF Contents

(* Sending to the back appends, and keeps the storage sound.               *)
THEOREM PutAppends ==
  ASSUME NEW q, Sound(q), HasRoom(q), NEW v \in Values
  PROVE  Sound(Put(q, v)) /\ Contents(Put(q, v)) = Append(Contents(q), v)
<1> DEFINE r == Put(q, v)
           n == q.waiting
<1>1. /\ q \in Rings /\ n \in Nat /\ n < Length /\ n + 1 \in 1 .. Length
      /\ q.writeTo = Position(q, n + 1)
  BY RingAssumption, PositionAfter DEF Sound, Rings, HasRoom, Aligned
<1>2. /\ r \in Rings /\ r.waiting = n + 1 /\ r.readFrom = q.readFrom
      /\ r.writeTo = After(q.writeTo)
      /\ r.buf = [q.buf EXCEPT ![q.writeTo] = v]
  <2>1. After(q.writeTo) \in Slots
    BY <1>1, RingAssumption DEF Rings, Slots, After
  <2>2. [q.buf EXCEPT ![q.writeTo] = v] \in [Slots -> Values \cup {Blank}]
    BY <1>1 DEF Rings
  <2>3. n + 1 \in 0 .. Length
    BY <1>1
  <2> QED BY <1>1, <2>1, <2>2, <2>3 DEF Put, Rings
<1>3. ASSUME NEW i \in 0 .. Length PROVE Position(r, i) = Position(q, i)
  BY <1>2 DEF Position
<1>4. \A i \in 1 .. n : r.buf[Position(r, i)] = q.buf[Position(q, i)]
  <2> TAKE i \in 1 .. n
  <2>1. i \in 1 .. Length /\ i # n + 1 /\ i \in 0 .. Length
    <3> HIDE DEF n
    <3> QED BY <1>1, RingAssumption
  <2>2. Position(q, i) # q.writeTo /\ Position(q, i) \in Slots
    BY <1>1, <2>1, PositionsDiffer, PositionInRing
  <2> QED BY <1>1, <1>2, <1>3, <2>1, <2>2 DEF Rings
<1>5. r.buf[Position(r, n + 1)] = v
  <2>1. n + 1 \in 0 .. Length
    BY <1>1
  <2> QED BY <1>1, <1>2, <1>3, <2>1, PositionInRing DEF Rings
<1>6. Aligned(r)
  BY <1>1, <1>2, <1>3 DEF Aligned
<1>7. Filled(r)
  BY <1>1, <1>2, <1>4, <1>5 DEF Filled, Sound
<1>8. Contents(r) = Append(Contents(q), v)
  <2>1. Contents(q) \in Seq(Values) /\ Len(Contents(q)) = n
    BY ContentsType
  <2>2. Contents(r) \in Seq(Values) /\ Len(Contents(r)) = n + 1
    BY <1>2, <1>6, <1>7, ContentsType DEF Sound
  <2>3. ASSUME NEW i \in 1 .. n + 1 PROVE Contents(r)[i] = Append(Contents(q), v)[i]
    <3>1. CASE i = n + 1
      BY <1>1, <1>2, <1>5, <2>1, <3>1 DEF Contents
    <3>2. CASE i # n + 1
      <4>1. i \in 1 .. n
        BY <1>1, <3>2
      <4>2. Append(Contents(q), v)[i] = Contents(q)[i]
        BY <2>1, <4>1
      <4> QED BY <1>2, <1>4, <4>1, <4>2 DEF Contents
    <3> QED BY <3>1, <3>2
  <2> HIDE DEF r
  <2> QED BY <1>1, <2>1, <2>2, <2>3
<1> QED BY <1>2, <1>6, <1>7, <1>8 DEF Sound

(* Receiving yields the oldest item and drops it, and keeps the storage    *)
(* sound.                                                                  *)
THEOREM TakenDrops ==
  ASSUME NEW q, Sound(q), HasItem(q)
  PROVE  /\ Sound(Taken(q)) /\ Contents(q) # << >>
         /\ Oldest(q) = Head(Contents(q)) /\ Contents(Taken(q)) = Tail(Contents(q))
<1> DEFINE r == Taken(q)
           n == q.waiting
<1>1. q \in Rings /\ n \in Nat /\ n > 0 /\ n <= Length
  BY RingAssumption DEF Sound, Rings, HasItem
<1>2. /\ r \in Rings /\ r.waiting = n - 1 /\ r.readFrom = After(q.readFrom)
      /\ r.writeTo = q.writeTo /\ r.buf = q.buf
  <2>1. After(q.readFrom) \in Slots /\ n - 1 \in 0 .. Length
    BY <1>1, RingAssumption DEF Rings, Slots, After
  <2> QED BY <1>1, <2>1 DEF Taken, Rings
<1>3. ASSUME NEW i \in 0 .. Length - 1 PROVE Position(r, i) = Position(q, i + 1)
  BY <1>1, <1>2, RingAssumption DEF Position, After, Rings, Slots
<1>4. Aligned(r)
  <2>1. n - 1 \in 0 .. Length - 1 /\ n - 1 + 1 = n
    BY <1>1, RingAssumption
  <2> QED BY <1>2, <1>3, <2>1 DEF Aligned, Sound
<1>5. \A i \in 1 .. n - 1 : r.buf[Position(r, i)] = q.buf[Position(q, i + 1)]
  BY <1>1, <1>2, <1>3, RingAssumption
<1>6. Filled(r)
  <2>1. \A i \in 1 .. n - 1 : i + 1 \in 1 .. n
    BY <1>1
  <2> QED BY <1>2, <1>5, <2>1 DEF Filled, Sound
<1>7. Contents(q) \in Seq(Values) /\ Len(Contents(q)) = n /\ Contents(q) # << >>
  BY <1>1, ContentsType
<1>8. Oldest(q) = Head(Contents(q))
  <2>1. Position(q, 1) = After(q.readFrom)
    BY <1>1, RingAssumption DEF Position, After, Rings, Slots
  <2>2. Head(Contents(q)) = Contents(q)[1]
    BY <1>7
  <2> QED BY <1>1, <2>1, <2>2 DEF Oldest, Contents
<1>9. Contents(r) = Tail(Contents(q))
  <2>1. Contents(r) \in Seq(Values) /\ Len(Contents(r)) = n - 1
    BY <1>2, <1>4, <1>6, ContentsType DEF Sound
  <2>2. ASSUME NEW i \in 1 .. n - 1 PROVE Contents(r)[i] = Tail(Contents(q))[i]
    <3>1. i + 1 \in 1 .. n
      BY <1>1
    <3>2. Tail(Contents(q))[i] = Contents(q)[i + 1]
      BY <1>7, <3>1
    <3> QED BY <1>2, <1>5, <3>1, <3>2 DEF Contents
  <2> HIDE DEF r
  <2> QED BY <1>1, <1>7, <2>1, <2>2
<1> QED BY <1>2, <1>4, <1>6, <1>7, <1>8, <1>9 DEF Sound
-----------------------------------------------------------------------------

Places == {"app", "suspend", "lock", "check", "test", "place", "unlock", "resume", "try",
           "final", "delay"}

(* Exclusive becomes inductive with the places at which a task may have    *)
(* left the queue locked.                                                  *)
LockInv  == lock # -1 => pc[cur] \in {"check", "test", "place", "unlock"}
ExclInv  == pc \in [TaskSet -> Places] /\ Exclusive /\ LockInv

RingSteps ==
  \/ HasRoom(ring) /\ \E v \in Values : ring' = Put(ring, v)
  \/ HasItem(ring) /\ ring' = Taken(ring)
  \/ UNCHANGED ring

(* No action, of a task or of an interrupt, does anything else to it.      *)
LEMMA NextRingSteps ==
  ASSUME [Next]_vars
  PROVE  RingSteps
<1>1. CASE UNCHANGED vars
  BY <1>1 DEF vars, RingSteps
<1>2. CASE SwitchContext
  BY <1>2 DEF SwitchContext, RingSteps
<1>3. CASE Tick
  BY <1>3 DEF Tick, RingSteps
<1>4. CASE CanInterrupt
  BY <1>4 DEF CanInterrupt, RingSteps
<1>5. ASSUME NEW t, Step(t) PROVE RingSteps
  <2>1. CASE TryReceive(t)
    BY <2>1 DEF TryReceive, GoesToWait, RingSteps
  <2>2. CASE TrySend(t)
    BY <2>2 DEF TrySend, GoesToWait, RingSteps
  <2>3. CASE Suspend(t)
    BY <2>3 DEF Suspend, RingSteps
  <2>4. CASE Lock(t)
    BY <2>4 DEF Lock, RingSteps
  <2>5. CASE Check(t)
    BY <2>5 DEF Check, RingSteps
  <2>6. CASE Test(t)
    BY <2>6 DEF Test, RingSteps
  <2>7. CASE Place(t)
    BY <2>7 DEF Place, RingSteps
  <2>8. CASE Unlock(t)
    BY <2>8 DEF Unlock, RingSteps
  <2>9. CASE Resume(t)
    BY <2>9 DEF Resume, RingSteps
  <2>10. CASE Final(t)
    BY <2>10 DEF Final, RingSteps
  <2>11. CASE Sleep(t)
    BY <2>11 DEF Sleep, RingSteps
  <2>12. CASE PlaceSleep(t)
    BY <2>12 DEF PlaceSleep, RingSteps
  <2> QED BY <1>5, <2>1, <2>2, <2>3, <2>4, <2>5, <2>6, <2>7, <2>8, <2>9, <2>10, <2>11, <2>12
         DEF Step
<1> QED BY <1>1, <1>2, <1>3, <1>4, <1>5 DEF Next, Processor

(* The storage stays sound: its positions and its count agree, and it is   *)
(* never read where nothing was written.                                   *)
THEOREM StorageSound == Spec => []Sound(ring)
<1>1. Init => Sound(ring)
  BY FreshSound DEF Init
<1>2. Sound(ring) /\ [Next]_vars => Sound(ring)'
  <2> SUFFICES ASSUME Sound(ring), [Next]_vars PROVE Sound(ring')
    BY DEF Sound, Rings, Slots, Aligned, Filled, Position, After
  <2>1. RingSteps
    BY NextRingSteps
  <2> QED BY <2>1, PutAppends, TakenDrops DEF RingSteps
<1> QED BY <1>1, <1>2, PTL DEF Spec

(* To its users the queue is a first-in-first-out sequence of at most      *)
(* Length items: no step of a task or an interrupt loses, duplicates,      *)
(* reorders or invents an item.                                            *)
THEOREM QueueImplementsFifo == Spec => ImplementsFifo
<1>1. Init => Queue!Init
  BY FreshSound DEF Init, Queue!Init
<1>2. Sound(ring) /\ [Next]_vars => [Queue!Next]_(Contents(ring))
  <2> SUFFICES ASSUME Sound(ring), [Next]_vars
               PROVE  Queue!Next \/ Contents(ring)' = Contents(ring)
    OBVIOUS
  <2>0. Contents(ring)' = Contents(ring')
    BY DEF Contents, Position
  <2>1. RingSteps
    BY NextRingSteps
  <2>2. ASSUME HasRoom(ring), NEW v \in Values, ring' = Put(ring, v)
        PROVE  Queue!Send(v)
    <3>1. Contents(ring)' = Append(Contents(ring), v)
      BY <2>0, <2>2, PutAppends
    <3>2. Len(Contents(ring)) < Length
      BY <2>2, ContentsType DEF HasRoom
    <3> QED BY <3>1, <3>2 DEF Queue!Send
  <2>3. ASSUME HasItem(ring), ring' = Taken(ring)
        PROVE  Queue!Receive
    <3>1. Contents(ring)' = Tail(Contents(ring)) /\ Contents(ring) # << >>
      BY <2>0, <2>3, TakenDrops
    <3> QED BY <3>1 DEF Queue!Receive
  <2>4. ASSUME UNCHANGED ring PROVE Contents(ring)' = Contents(ring)
    BY <2>0, <2>4
  <2> QED BY <2>1, <2>2, <2>3, <2>4 DEF RingSteps, Queue!Next
<1> QED BY <1>1, <1>2, StorageSound, PTL DEF Spec, ImplementsFifo, Queue!Spec

(* No step of a task that has the processor, no interrupt and no switch    *)
(* breaks it.                                                              *)
LEMMA ExclusiveKept ==
  ASSUME ExclInv, cur \in TaskSet, [Next]_vars
  PROVE  ExclInv'
<1> USE DEF ExclInv, Exclusive, LockInv, Inside
<1>1. CASE UNCHANGED vars
  BY <1>1 DEF vars
<1>2. CASE SwitchContext
  BY <1>2 DEF SwitchContext, MaySwitch
<1>3. CASE Tick
  BY <1>3 DEF Tick
<1>4. CASE CanInterrupt
  <2>1. UNCHANGED <<cur, susp, pc>> /\ (lock = -1 => lock' = -1)
    BY <1>4 DEF CanInterrupt
  <2> QED BY <2>1
<1>5. CASE Step(cur)
  <2>0. pc \in [TaskSet -> Places] /\ cur \in TaskSet
    OBVIOUS
  <2> USE DEF At, Goes, Places
  <2>1. CASE TryReceive(cur)
    BY <2>0, <2>1 DEF TryReceive, GoesToWait, Returns, ReturnsWith, Waits
  <2>2. CASE TrySend(cur)
    BY <2>0, <2>2 DEF TrySend, GoesToWait, Returns, ReturnsWith, Waits
  <2>3. CASE Suspend(cur)
    BY <2>0, <2>3 DEF Suspend
  <2>4. CASE Lock(cur)
    BY <2>0, <2>4 DEF Lock
  <2>5. CASE Check(cur)
    BY <2>0, <2>5 DEF Check
  <2>6. CASE Test(cur)
    BY <2>0, <2>6 DEF Test
  <2>7. CASE Place(cur)
    BY <2>0, <2>7 DEF Place
  <2>8. CASE Unlock(cur)
    BY <2>0, <2>8 DEF Unlock
  <2>9. CASE Resume(cur)
    BY <2>0, <2>9 DEF Resume, ReturnsWith
  <2>10. CASE Final(cur)
    BY <2>0, <2>10 DEF Final, Returns, ReturnsWith
  <2>11. CASE Sleep(cur)
    BY <2>0, <2>11 DEF Sleep
  <2>12. CASE PlaceSleep(cur)
    BY <2>0, <2>12 DEF PlaceSleep
  <2> QED BY <1>5, <2>1, <2>2, <2>3, <2>4, <2>5, <2>6, <2>7, <2>8, <2>9, <2>10, <2>11, <2>12
         DEF Step
<1> QED BY <1>1, <1>2, <1>3, <1>4, <1>5 DEF Next, Processor
-----------------------------------------------------------------------------
(* ENTRY BY ENTRY                                                          *)

(* A set of naturals has a least one.                                      *)
LEMMA LeastNumber ==
  ASSUME NEW T \in SUBSET Nat, T # {}
  PROVE  \E n \in T : \A m \in T : n <= m
<1> DEFINE R == {ss \in Nat \X Nat : ss[1] < ss[2]}
<1>1. OpToRel(<, Nat) = R
  BY DEF OpToRel
<1>2. \E n \in T : \A m \in T : <<m, n>> \notin OpToRel(<, Nat)
  BY NatLessThanWellFounded, WFMin
<1>3. PICK n \in T : \A m \in T : <<m, n>> \notin OpToRel(<, Nat)
  BY <1>2
<1>4. \A m \in T : m < n => <<m, n>> \in OpToRel(<, Nat)
  BY <1>1
<1>5. \A m \in T : ~(m < n)
  BY <1>3, <1>4
<1> QED BY <1>5

(* One application of what is done for each entry e of a list, and the     *)
(* results g after each of its first m entries.                            *)
Applied(kind, x, e) ==
  CASE kind = "expires" -> Expires(x, e)
    [] kind = "pending" -> PendingReady(x, e)
    [] kind = "late"    -> TickLate(x, e)
    [] kind = "woken"   -> Woken(x, "rx")
    [] kind = "ready"   -> MadeReady(x, e)

Partial(kind, x, s, m, g) ==
  g = [n \in 0 .. m |-> IF n = 0 THEN x ELSE Applied(kind, g[n - 1], s[n])]

(* The results for the first m entries can be had for one more.            *)
LEMMA PartialNext ==
  ASSUME NEW kind, NEW x, NEW s, NEW m \in Nat, NEW g, Partial(kind, x, s, m, g)
  PROVE  \E h : Partial(kind, x, s, m + 1, h)
<1> DEFINE h == [n \in 0 .. m + 1 |-> IF n = m + 1 THEN Applied(kind, g[m], s[m + 1]) ELSE g[n]]
<1>1. \A n \in 0 .. m : h[n] = g[n]
  OBVIOUS
<1>2. \A n \in 0 .. m : g[n] = IF n = 0 THEN x ELSE Applied(kind, g[n - 1], s[n])
  BY DEF Partial
<1>3. ASSUME NEW n \in 0 .. m + 1
      PROVE  h[n] = IF n = 0 THEN x ELSE Applied(kind, h[n - 1], s[n])
  <2>1. CASE n = m + 1
    <3>1. n # 0 /\ n - 1 = m /\ m \in 0 .. m
      BY <2>1
    <3> QED BY <1>1, <2>1, <3>1
  <2>2. CASE n # m + 1
    <3>1. n \in 0 .. m /\ (n # 0 => n - 1 \in 0 .. m)
      BY <2>2
    <3> QED BY <1>1, <1>2, <3>1
  <2> QED BY <2>1, <2>2
<1>4. Partial(kind, x, s, m + 1, h)
  <2>1. h = [n \in 0 .. m + 1 |-> h[n]]
    OBVIOUS
  <2> HIDE DEF h
  <2> QED BY <1>3, <2>1 DEF Partial
<1> QED BY <1>4

(* They can be had for every number of entries: were it not so, there      *)
(* would be a least number for which not.                                  *)
LEMMA PartialExists ==
  ASSUME NEW kind, NEW x, NEW s, NEW m \in Nat
  PROVE  \E g : Partial(kind, x, s, m, g)
<1> DEFINE T == {n \in Nat : ~\E g : Partial(kind, x, s, n, g)}
<1>1. SUFFICES ASSUME T # {} PROVE FALSE
  OBVIOUS
<1>2. PICK n \in T : \A j \in T : n <= j
  BY <1>1, LeastNumber
<1>3. CASE n = 0
  <2>1. Partial(kind, x, s, 0, [i \in 0 .. 0 |-> x])
    BY DEF Partial
  <2> QED BY <1>2, <1>3, <2>1
<1>4. CASE n # 0
  <2>1. n - 1 \in Nat /\ n - 1 \notin T /\ n = (n - 1) + 1
    BY <1>2, <1>4
  <2>2. PICK g : Partial(kind, x, s, n - 1, g)
    BY <2>1
  <2> QED BY <1>2, <2>1, <2>2, PartialNext
<1> QED BY <1>3, <1>4

(* So Through is the last of the results, whatever is done for each entry. *)
LEMMA ThroughExpires ==
  ASSUME NEW x, NEW s, Len(s) \in Nat
  PROVE  \E g : Partial("expires", x, s, Len(s), g) /\ Through(Expires, x, s) = g[Len(s)]
<1> DEFINE f == CHOOSE f : f = [n \in 0 .. Len(s) |-> IF n = 0 THEN x ELSE Expires(f[n - 1], s[n])]
<1>1. PICK g : Partial("expires", x, s, Len(s), g)
  BY PartialExists
<1>2. g = [n \in 0 .. Len(s) |-> IF n = 0 THEN x ELSE Expires(g[n - 1], s[n])]
  BY <1>1 DEF Partial, Applied
<1>3. f = [n \in 0 .. Len(s) |-> IF n = 0 THEN x ELSE Expires(f[n - 1], s[n])]
  BY <1>2
<1>4. Through(Expires, x, s) = f[Len(s)]
  BY DEF Through
<1>5. Partial("expires", x, s, Len(s), f)
  <2> HIDE DEF f
  <2> QED BY <1>3 DEF Partial, Applied
<1> QED BY <1>4, <1>5

(* The same for the pending tasks,                                         *)
LEMMA ThroughPending ==
  ASSUME NEW x, NEW s, Len(s) \in Nat
  PROVE  \E g : Partial("pending", x, s, Len(s), g) /\ Through(PendingReady, x, s) = g[Len(s)]
<1> DEFINE f == CHOOSE f : f = [n \in 0 .. Len(s) |-> IF n = 0 THEN x ELSE PendingReady(f[n - 1], s[n])]
<1>1. PICK g : Partial("pending", x, s, Len(s), g)
  BY PartialExists
<1>2. g = [n \in 0 .. Len(s) |-> IF n = 0 THEN x ELSE PendingReady(g[n - 1], s[n])]
  BY <1>1 DEF Partial, Applied
<1>3. f = [n \in 0 .. Len(s) |-> IF n = 0 THEN x ELSE PendingReady(f[n - 1], s[n])]
  BY <1>2
<1>4. Through(PendingReady, x, s) = f[Len(s)]
  BY DEF Through
<1>5. Partial("pending", x, s, Len(s), f)
  <2> HIDE DEF f
  <2> QED BY <1>3 DEF Partial, Applied
<1> QED BY <1>4, <1>5

(* ... for the late ticks,                                                 *)
LEMMA ThroughTicks ==
  ASSUME NEW x, NEW s, Len(s) \in Nat
  PROVE  \E g : Partial("late", x, s, Len(s), g) /\ Through(TickLate, x, s) = g[Len(s)]
<1> DEFINE f == CHOOSE f : f = [n \in 0 .. Len(s) |-> IF n = 0 THEN x ELSE TickLate(f[n - 1], s[n])]
<1>1. PICK g : Partial("late", x, s, Len(s), g)
  BY PartialExists
<1>2. g = [n \in 0 .. Len(s) |-> IF n = 0 THEN x ELSE TickLate(g[n - 1], s[n])]
  BY <1>1 DEF Partial, Applied
<1>3. f = [n \in 0 .. Len(s) |-> IF n = 0 THEN x ELSE TickLate(f[n - 1], s[n])]
  BY <1>2
<1>4. Through(TickLate, x, s) = f[Len(s)]
  BY DEF Through
<1>5. Partial("late", x, s, Len(s), f)
  <2> HIDE DEF f
  <2> QED BY <1>3 DEF Partial, Applied
<1> QED BY <1>4, <1>5

(* ... for the tasks that are created,                                     *)
LEMMA ThroughReady ==
  ASSUME NEW x, NEW s, Len(s) \in Nat
  PROVE  \E g : Partial("ready", x, s, Len(s), g) /\ Through(MadeReady, x, s) = g[Len(s)]
<1> DEFINE f == CHOOSE f : f = [n \in 0 .. Len(s) |-> IF n = 0 THEN x ELSE MadeReady(f[n - 1], s[n])]
<1>1. PICK g : Partial("ready", x, s, Len(s), g)
  BY PartialExists
<1>2. g = [n \in 0 .. Len(s) |-> IF n = 0 THEN x ELSE MadeReady(g[n - 1], s[n])]
  BY <1>1 DEF Partial, Applied
<1>3. f = [n \in 0 .. Len(s) |-> IF n = 0 THEN x ELSE MadeReady(f[n - 1], s[n])]
  BY <1>2
<1>4. Through(MadeReady, x, s) = f[Len(s)]
  BY DEF Through
<1>5. Partial("ready", x, s, Len(s), f)
  <2> HIDE DEF f
  <2> QED BY <1>3 DEF Partial, Applied
<1> QED BY <1>4, <1>5

(* ... and for the sends while the queue was locked.                       *)
LEMMA ThroughWoken ==
  ASSUME NEW x, NEW s, Len(s) \in Nat
  PROVE  \E g : Partial("woken", x, s, Len(s), g) /\ Through(LAMBDA y, n : Woken(y, "rx"), x, s) = g[Len(s)]
<1> DEFINE f == CHOOSE f : f = [n \in 0 .. Len(s) |-> IF n = 0 THEN x ELSE Woken(f[n - 1], "rx")]
<1>1. PICK g : Partial("woken", x, s, Len(s), g)
  BY PartialExists
<1>2. g = [n \in 0 .. Len(s) |-> IF n = 0 THEN x ELSE Woken(g[n - 1], "rx")]
  BY <1>1 DEF Partial, Applied
<1>3. f = [n \in 0 .. Len(s) |-> IF n = 0 THEN x ELSE Woken(f[n - 1], "rx")]
  BY <1>2
<1>4. Through(LAMBDA y, n : Woken(y, "rx"), x, s) = f[Len(s)]
  BY DEF Through
<1>5. Partial("woken", x, s, Len(s), f)
  <2> HIDE DEF f
  <2> QED BY <1>3 DEF Partial, Applied
<1> QED BY <1>4, <1>5

-----------------------------------------------------------------------------
(* LISTS                                                                   *)

Sorted(s, w) == \A i, j \in DOMAIN s : i < j => w[s[i]] <= w[s[j]]

(* What a sequence of S consists of.                                       *)
LEMMA ListType ==
  ASSUME NEW S, NEW s \in Seq(S)
  PROVE  /\ Len(s) \in Nat /\ DOMAIN s = 1 .. Len(s) /\ \A i \in DOMAIN s : s[i] \in S
         /\ Range(s) \subseteq S /\ \A u : u \in Range(s) <=> \E i \in DOMAIN s : u = s[i]
         /\ s = << >> <=> Len(s) = 0
         /\ s = << >> <=> Range(s) = {}
<1>1. Len(s) \in Nat /\ DOMAIN s = 1 .. Len(s) /\ \A i \in DOMAIN s : s[i] \in S
  BY LenProperties, ElementOfSeq
<1>2. s = << >> <=> Len(s) = 0
  BY EmptySeq
<1> QED BY <1>1, <1>2 DEF Range

(* RemoveAt leaves out one entry and moves up what follows.                *)
LEMMA AfterRemoval ==
  ASSUME NEW S, NEW s \in Seq(S), NEW m \in DOMAIN s
  PROVE  /\ RemoveAt(s, m) \in Seq(S) /\ Len(RemoveAt(s, m)) = Len(s) - 1
         /\ \A j \in 1 .. Len(s) - 1 : RemoveAt(s, m)[j] = IF j < m THEN s[j] ELSE s[j + 1]
<1> DEFINE a == SubSeq(s, 1, m - 1)
           b == SubSeq(s, m + 1, Len(s))
<1>1. m \in 1 .. Len(s) /\ Len(s) \in Nat
  BY LenProperties
<1>2. a \in Seq(S) /\ Len(a) = m - 1 /\ \A j \in 1 .. m - 1 : a[j] = s[j]
  <2>1. \A i \in 1 .. m - 1 : s[i] \in S
    BY <1>1, ElementOfSeq
  <2> QED BY <1>1, <2>1, SubSeqProperties
<1>3. b \in Seq(S) /\ Len(b) = Len(s) - m /\ \A j \in 1 .. Len(s) - m : b[j] = s[m + j]
  <2>1. \A i \in m + 1 .. Len(s) : s[i] \in S
    BY <1>1, ElementOfSeq
  <2>2. /\ b \in Seq(S)
        /\ Len(b) = IF m + 1 <= Len(s) THEN Len(s) - (m + 1) + 1 ELSE 0
        /\ \A j \in 1 .. Len(s) - (m + 1) + 1 : b[j] = s[m + 1 + j - 1]
    BY <1>1, <2>1, SubSeqProperties
  <2> QED BY <1>1, <2>2
<1> HIDE DEF a, b
<1>4. /\ a \o b \in Seq(S) /\ Len(a \o b) = Len(a) + Len(b)
      /\ \A j \in 1 .. Len(a) + Len(b) : (a \o b)[j] = IF j <= Len(a) THEN a[j] ELSE b[j - Len(a)]
  BY <1>2, <1>3, ConcatProperties
<1>5. Len(a) + Len(b) = Len(s) - 1
  BY <1>1, <1>2, <1>3
<1>6. ASSUME NEW j \in 1 .. Len(s) - 1
      PROVE  (a \o b)[j] = IF j < m THEN s[j] ELSE s[j + 1]
  <2>1. (a \o b)[j] = IF j <= m - 1 THEN a[j] ELSE b[j - (m - 1)]
    BY <1>2, <1>4, <1>5
  <2>2. CASE j < m
    <3>1. j <= m - 1 /\ j \in 1 .. m - 1
      BY <1>1, <2>2
    <3>2. a[j] = s[j]
      BY <1>2, <3>1
    <3> QED BY <2>1, <2>2, <3>1, <3>2
  <2>3. CASE ~(j < m)
    <3>1. j - (m - 1) \in 1 .. Len(s) - m /\ ~(j <= m - 1) /\ m + (j - (m - 1)) = j + 1
      BY <1>1, <2>3
    <3>2. b[j - (m - 1)] = s[m + (j - (m - 1))]
      BY <1>3, <3>1
    <3> QED BY <2>1, <2>3, <3>1, <3>2
  <2> QED BY <2>2, <2>3
<1> QED BY <1>1, <1>2, <1>3, <1>4, <1>5, <1>6 DEF RemoveAt, a, b

(* Taking an entry out of a list in which it is once, or not at all.       *)
LEMMA RemovedList ==
  ASSUME NEW S, NEW s \in Seq(S), IsInjective(s), NEW t
  PROVE  /\ Removed(s, t) \in Seq(S) /\ IsInjective(Removed(s, t))
         /\ Range(Removed(s, t)) = Range(s) \ {t}
         /\ \A w : Sorted(s, w) => Sorted(Removed(s, t), w)
         /\ t \notin Range(s) => Removed(s, t) = s
<1>1. CASE t \notin Range(s)
  BY <1>1, ListType DEF Removed
<1>2. CASE t \in Range(s)
  <2> DEFINE m == CHOOSE i \in DOMAIN s : s[i] = t
             r == RemoveAt(s, m)
  <2>1. m \in DOMAIN s /\ s[m] = t
    BY <1>2, ListType
  <2> HIDE DEF m
  <2>2. /\ r \in Seq(S) /\ Len(r) = Len(s) - 1
        /\ \A j \in 1 .. Len(s) - 1 : r[j] = IF j < m THEN s[j] ELSE s[j + 1]
    BY <2>1, AfterRemoval
  <2> HIDE DEF r
  <2>3. /\ Len(s) \in Nat /\ DOMAIN s = 1 .. Len(s) /\ DOMAIN r = 1 .. Len(s) - 1
        /\ m \in 1 .. Len(s)
    BY <2>1, <2>2, ListType
  <2> DEFINE from(j) == IF j < m THEN j ELSE j + 1
  <2>4. \A j \in DOMAIN r : from(j) \in DOMAIN s /\ from(j) # m /\ r[j] = s[from(j)]
    BY <2>2, <2>3
  <2>5. \A i, j \in DOMAIN r : (i < j => from(i) < from(j)) /\ (from(i) = from(j) => i = j)
    BY <2>3
  <2>6. \A i \in DOMAIN s : i # m => \E j \in DOMAIN r : i = from(j)
    <3> SUFFICES ASSUME NEW i \in DOMAIN s, i # m PROVE \E j \in DOMAIN r : i = from(j)
      OBVIOUS
    <3>1. CASE i < m
      BY <2>3, <3>1
    <3>2. CASE i > m
      <4>1. i - 1 \in DOMAIN r /\ from(i - 1) = i
        BY <2>3, <3>2
      <4> QED BY <4>1
    <3> QED BY <2>3, <3>1, <3>2
  <2> HIDE DEF from
  <2>7. IsInjective(r)
    BY <2>4, <2>5 DEF IsInjective
  <2>8. Range(r) = Range(s) \ {t}
    <3>1. \A j \in DOMAIN r : r[j] \in Range(s) \ {t}
      BY <2>1, <2>4 DEF IsInjective, Range
    <3>2. \A i \in DOMAIN s : s[i] # t => s[i] \in Range(r)
      BY <2>1, <2>4, <2>6 DEF Range
    <3> QED BY <3>1, <3>2 DEF Range
  <2>9. \A w : Sorted(s, w) => Sorted(r, w)
    BY <2>4, <2>5 DEF Sorted
  <2>10. Removed(s, t) = r
    BY <1>2 DEF Removed, r, m
  <2> QED BY <1>2, <2>2, <2>7, <2>8, <2>9, <2>10
<1> QED BY <1>1, <1>2

(* InsertAt puts in one entry and moves down what follows.                 *)
LEMMA AfterInsertion ==
  ASSUME NEW S, NEW s \in Seq(S), NEW p \in 1 .. Len(s) + 1, NEW t \in S
  PROVE  /\ InsertAt(s, p, t) \in Seq(S) /\ Len(InsertAt(s, p, t)) = Len(s) + 1
         /\ \A j \in 1 .. Len(s) + 1 :
              InsertAt(s, p, t)[j] = IF j < p THEN s[j] ELSE IF j = p THEN t ELSE s[j - 1]
<1> DEFINE a == SubSeq(s, 1, p - 1)
           b == SubSeq(s, p, Len(s))
           m == a \o <<t>>
<1>1. p \in 1 .. Len(s) + 1 /\ Len(s) \in Nat
  BY LenProperties
<1>2. a \in Seq(S) /\ Len(a) = p - 1 /\ \A j \in 1 .. p - 1 : a[j] = s[j]
  <2>1. \A i \in 1 .. p - 1 : s[i] \in S
    BY <1>1, ElementOfSeq
  <2> QED BY <1>1, <2>1, SubSeqProperties
<1>3. b \in Seq(S) /\ Len(b) = Len(s) - p + 1 /\ \A j \in 1 .. Len(s) - p + 1 : b[j] = s[p + j - 1]
  <2>1. \A i \in p .. Len(s) : s[i] \in S
    BY <1>1, ElementOfSeq
  <2>2. /\ b \in Seq(S)
        /\ Len(b) = IF p <= Len(s) THEN Len(s) - p + 1 ELSE 0
        /\ \A j \in 1 .. Len(s) - p + 1 : b[j] = s[p + j - 1]
    BY <1>1, <2>1, SubSeqProperties
  <2> QED BY <1>1, <2>2
<1>4. <<t>> \in Seq(S) /\ Len(<<t>>) = 1 /\ <<t>>[1] = t
  OBVIOUS
<1> HIDE DEF a, b
<1>5. m \in Seq(S) /\ Len(m) = p /\ \A j \in 1 .. p : m[j] = IF j <= p - 1 THEN s[j] ELSE t
  <2>1. /\ m \in Seq(S) /\ Len(m) = Len(a) + 1
        /\ \A j \in 1 .. Len(a) + 1 : m[j] = IF j <= Len(a) THEN a[j] ELSE <<t>>[j - Len(a)]
    BY <1>2, <1>4, ConcatProperties
  <2>2. ASSUME NEW j \in 1 .. p PROVE m[j] = IF j <= p - 1 THEN s[j] ELSE t
    <3>1. m[j] = IF j <= p - 1 THEN a[j] ELSE <<t>>[j - (p - 1)]
      BY <1>1, <1>2, <2>1
    <3>2. CASE j <= p - 1
      BY <1>1, <1>2, <3>1, <3>2
    <3>3. CASE ~(j <= p - 1)
      <4>1. j - (p - 1) = 1
        BY <1>1, <3>3
      <4> QED BY <1>4, <3>1, <3>3, <4>1
    <3> QED BY <3>2, <3>3
  <2> QED BY <1>1, <1>2, <2>1, <2>2
<1> HIDE DEF m
<1>6. /\ m \o b \in Seq(S) /\ Len(m \o b) = Len(m) + Len(b)
      /\ \A j \in 1 .. Len(m) + Len(b) : (m \o b)[j] = IF j <= Len(m) THEN m[j] ELSE b[j - Len(m)]
  BY <1>3, <1>5, ConcatProperties
<1>7. Len(m) + Len(b) = Len(s) + 1
  BY <1>1, <1>3, <1>5
<1>8. ASSUME NEW j \in 1 .. Len(s) + 1
      PROVE  (m \o b)[j] = IF j < p THEN s[j] ELSE IF j = p THEN t ELSE s[j - 1]
  <2>1. (m \o b)[j] = IF j <= p THEN m[j] ELSE b[j - p]
    BY <1>5, <1>6, <1>7
  <2>2. CASE j <= p
    <3>1. m[j] = IF j <= p - 1 THEN s[j] ELSE t
      BY <1>1, <1>5, <2>2
    <3> QED BY <1>1, <2>1, <2>2, <3>1
  <2>3. CASE ~(j <= p)
    <3>1. j - p \in 1 .. Len(s) - p + 1 /\ p + (j - p) - 1 = j - 1 /\ ~(j < p) /\ j # p
      BY <1>1, <2>3
    <3>2. b[j - p] = s[p + (j - p) - 1]
      BY <1>3, <3>1
    <3> QED BY <2>1, <2>3, <3>1, <3>2
  <2> QED BY <2>2, <2>3
<1> QED BY <1>6, <1>7, <1>8 DEF InsertAt, a, b, m

(* Putting a new entry into a list.                                        *)
LEMMA InsertedAt ==
  ASSUME NEW S, NEW s \in Seq(S), IsInjective(s), NEW t \in S, t \notin Range(s),
         NEW p \in 1 .. Len(s) + 1
  PROVE  LET r == InsertAt(s, p, t)
         IN  /\ r \in Seq(S) /\ r # << >> /\ IsInjective(r) /\ Range(r) = Range(s) \cup {t}
             /\ Head(r) = IF p = 1 THEN t ELSE Head(s)
             /\ \A w : /\ w \in [S -> Nat] /\ Sorted(s, w)
                       /\ \A j \in DOMAIN s : IF j < p THEN w[s[j]] <= w[t] ELSE w[t] <= w[s[j]]
                       => Sorted(r, w)
<1> DEFINE r == InsertAt(s, p, t)
           from(j) == IF j < p THEN j ELSE j - 1
<1>1. /\ r \in Seq(S) /\ Len(r) = Len(s) + 1
      /\ \A j \in 1 .. Len(s) + 1 : r[j] = IF j < p THEN s[j] ELSE IF j = p THEN t ELSE s[j - 1]
  BY AfterInsertion
<1> HIDE DEF r
<1>2. /\ Len(s) \in Nat /\ DOMAIN s = 1 .. Len(s) /\ DOMAIN r = 1 .. Len(s) + 1
      /\ p \in 1 .. Len(s) + 1
  BY <1>1, ListType
<1>3. r[p] = t /\ p \in DOMAIN r
  BY <1>1, <1>2
<1>4. \A j \in DOMAIN r : j # p => from(j) \in DOMAIN s /\ r[j] = s[from(j)]
  BY <1>1, <1>2
<1>5. \A i, j \in DOMAIN r : i # p /\ j # p => (i < j => from(i) < from(j)) /\ (from(i) = from(j) => i = j)
  BY <1>2
<1>6. \A i \in DOMAIN s : \E j \in DOMAIN r : j # p /\ i = from(j)
  <2> TAKE i \in DOMAIN s
  <2>1. CASE i < p
    BY <1>2, <2>1
  <2>2. CASE ~(i < p)
    <3>1. i + 1 \in DOMAIN r /\ i + 1 # p /\ from(i + 1) = i
      BY <1>2, <2>2
    <3> QED BY <3>1
  <2> QED BY <2>1, <2>2
<1>7. \A i \in DOMAIN r : i # p => (i < p <=> from(i) < p)
  BY <1>2
<1> HIDE DEF from
<1>8. \A i \in DOMAIN s : s[i] # t /\ s[i] \in Range(s)
  BY DEF Range
<1>9. IsInjective(r)
  BY <1>3, <1>4, <1>5, <1>8 DEF IsInjective
<1>10. Range(r) = Range(s) \cup {t}
  <2>1. \A j \in DOMAIN r : r[j] \in Range(s) \cup {t}
    BY <1>3, <1>4, <1>8
  <2>2. \A i \in DOMAIN s : s[i] \in Range(r)
    BY <1>4, <1>6 DEF Range
  <2> QED BY <1>3, <2>1, <2>2 DEF Range
<1>11. ASSUME NEW w, w \in [S -> Nat], Sorted(s, w),
              \A j \in DOMAIN s : IF j < p THEN w[s[j]] <= w[t] ELSE w[t] <= w[s[j]]
       PROVE  Sorted(r, w)
  <2> SUFFICES ASSUME NEW i \in DOMAIN r, NEW j \in DOMAIN r, i < j PROVE w[r[i]] <= w[r[j]]
    BY DEF Sorted
  <2>1. CASE i # p /\ j # p
    BY <1>4, <1>5, <1>11, <2>1 DEF Sorted
  <2>2. CASE i = p
    <3>1. j # p /\ ~(from(j) < p) /\ from(j) \in DOMAIN s
      BY <1>2, <1>4, <1>7, <2>2
    <3> QED BY <1>3, <1>4, <1>11, <2>2, <3>1
  <2>3. CASE j = p
    <3>1. i # p /\ from(i) < p /\ from(i) \in DOMAIN s
      BY <1>2, <1>4, <1>7, <2>3
    <3> QED BY <1>3, <1>4, <1>11, <2>3, <3>1
  <2> QED BY <2>1, <2>2, <2>3
<1>12. r # << >> /\ Head(r) = IF p = 1 THEN t ELSE Head(s)
  <2>1. r # << >> /\ Head(r) = r[1] /\ 1 \in 1 .. Len(s) + 1
    BY <1>1, <1>2
  <2>2. p # 1 => Head(s) = s[1]
    BY <1>2
  <2>3. r[1] = IF 1 < p THEN s[1] ELSE IF 1 = p THEN t ELSE s[1 - 1]
    BY <1>1, <2>1
  <2> QED BY <1>2, <2>1, <2>2, <2>3
<1> QED BY <1>1, <1>9, <1>10, <1>11, <1>12 DEF r

(* A new entry at the end of a list.                                       *)
LEMMA AppendedList ==
  ASSUME NEW S, NEW s \in Seq(S), IsInjective(s), NEW t \in S, t \notin Range(s)
  PROVE  /\ Append(s, t) \in Seq(S) /\ IsInjective(Append(s, t))
         /\ Range(Append(s, t)) = Range(s) \cup {t}
<1> DEFINE r == Append(s, t)
<1>1. /\ r \in Seq(S) /\ Len(r) = Len(s) + 1
      /\ \A i \in 1 .. Len(s) : r[i] = s[i]
      /\ r[Len(s) + 1] = t
  BY AppendProperties
<1> HIDE DEF r
<1>2. Len(s) \in Nat /\ DOMAIN s = 1 .. Len(s) /\ DOMAIN r = 1 .. Len(s) + 1
  BY <1>1, ListType
<1>3. \A i \in DOMAIN s : s[i] # t /\ s[i] \in Range(s)
  BY DEF Range
<1>4. \A i \in DOMAIN r : i \in DOMAIN s \/ i = Len(s) + 1
  BY <1>2
<1>5. Len(s) + 1 \in DOMAIN r /\ \A i \in DOMAIN s : i \in DOMAIN r
  BY <1>2
<1>6. \A i \in DOMAIN s : r[i] = s[i]
  BY <1>1, <1>2
<1>7. IsInjective(r)
  BY <1>1, <1>3, <1>4, <1>6 DEF IsInjective
<1>8. Range(r) = Range(s) \cup {t}
  <2>1. \A j \in DOMAIN r : r[j] \in Range(s) \cup {t}
    BY <1>1, <1>3, <1>4, <1>6
  <2>2. \A i \in DOMAIN s : s[i] \in Range(r)
    BY <1>5, <1>6 DEF Range
  <2>3. t \in Range(r)
    BY <1>1, <1>5 DEF Range
  <2> QED BY <2>1, <2>2, <2>3 DEF Range
<1> QED BY <1>1, <1>7, <1>8 DEF r

(* A list without its head.                                                *)
LEMMA TailList ==
  ASSUME NEW S, NEW s \in Seq(S), IsInjective(s), s # << >>
  PROVE  /\ Tail(s) \in Seq(S) /\ IsInjective(Tail(s)) /\ Range(Tail(s)) = Range(s) \ {Head(s)}
         /\ Head(s) \in Range(s)
<1> DEFINE r == Tail(s)
<1>1. /\ r \in Seq(S) /\ Len(r) = Len(s) - 1 /\ \A i \in 1 .. Len(r) : r[i] = s[i + 1]
  BY HeadTailProperties
<1> HIDE DEF r
<1>2. /\ Len(s) \in Nat /\ Len(s) # 0 /\ DOMAIN s = 1 .. Len(s) /\ DOMAIN r = 1 .. Len(s) - 1
      /\ Head(s) = s[1]
  BY <1>1, ListType
<1>3. \A j \in DOMAIN r : j + 1 \in DOMAIN s /\ j + 1 # 1 /\ r[j] = s[j + 1]
  BY <1>1, <1>2
<1>4. \A i \in DOMAIN s : i # 1 => \E j \in DOMAIN r : i = j + 1
  <2> SUFFICES ASSUME NEW i \in DOMAIN s, i # 1 PROVE \E j \in DOMAIN r : i = j + 1
    OBVIOUS
  <2>1. i - 1 \in DOMAIN r /\ i = (i - 1) + 1
    BY <1>2
  <2> QED BY <2>1
<1>5. IsInjective(r)
  <2> SUFFICES ASSUME NEW i \in DOMAIN r, NEW j \in DOMAIN r, r[i] = r[j] PROVE i = j
    BY DEF IsInjective
  <2>1. i + 1 = j + 1
    BY <1>3 DEF IsInjective
  <2> QED BY <1>2, <2>1
<1>6. 1 \in DOMAIN s
  BY <1>2
<1>7. Range(r) = Range(s) \ {Head(s)}
  <2>1. \A j \in DOMAIN r : r[j] \in Range(s) \ {Head(s)}
    BY <1>2, <1>3, <1>6 DEF IsInjective, Range
  <2>2. \A i \in DOMAIN s : s[i] # Head(s) => s[i] \in Range(r)
    BY <1>2, <1>3, <1>4 DEF Range
  <2> QED BY <2>1, <2>2 DEF Range
<1>8. Head(s) \in Range(s)
  BY <1>2, <1>6 DEF Range
<1> QED BY <1>1, <1>5, <1>7, <1>8 DEF r

(* Moving the head to the end.                                             *)
LEMMA RotatedList ==
  ASSUME NEW S, NEW s \in Seq(S), IsInjective(s), s # << >>
  PROVE  /\ Rotated(s) \in Seq(S) /\ IsInjective(Rotated(s)) /\ Range(Rotated(s)) = Range(s)
         /\ Len(Rotated(s)) = Len(s) /\ Last(Rotated(s)) = Head(s) /\ Rotated(s) # << >>
         /\ Len(s) > 1 => Head(Rotated(s)) = s[2]
<1>1. /\ Tail(s) \in Seq(S) /\ Len(Tail(s)) = Len(s) - 1 /\ Head(s) \in S
      /\ \A i \in 1 .. Len(Tail(s)) : Tail(s)[i] = s[i + 1]
  BY HeadTailProperties
<1>2. /\ IsInjective(Tail(s)) /\ Range(Tail(s)) = Range(s) \ {Head(s)} /\ Head(s) \in Range(s)
  BY TailList
<1>3. Rotated(s) = Append(Tail(s), Head(s))
  BY <1>1, AppendIsConcat DEF Rotated
<1>4. Head(s) \notin Range(Tail(s))
  BY <1>2
<1>5. /\ Rotated(s) \in Seq(S) /\ IsInjective(Rotated(s))
      /\ Range(Rotated(s)) = Range(s)
  <2> DEFINE q == Tail(s)
             h == Head(s)
  <2>1. q \in Seq(S) /\ h \in S /\ IsInjective(q) /\ h \notin Range(q)
    BY <1>1, <1>2, <1>4
  <2>2. Rotated(s) = Append(q, h) /\ Range(s) = Range(q) \cup {h}
    BY <1>2, <1>3
  <2> HIDE DEF q, h
  <2> QED BY <2>1, <2>2, AppendedList
<1>6. /\ Len(Rotated(s)) = Len(s) - 1 + 1 /\ Rotated(s) # << >>
      /\ Rotated(s)[Len(s) - 1 + 1] = Head(s)
      /\ \A i \in 1 .. Len(s) - 1 : Rotated(s)[i] = Tail(s)[i]
  BY <1>1, <1>3, AppendProperties
<1>7. Len(s) \in Nat
  BY ListType
<1>8. Len(s) - 1 + 1 = Len(s)
  BY <1>7
<1>9. Last(Rotated(s)) = Head(s)
  BY <1>6, <1>8 DEF Last
<1>10. ASSUME Len(s) > 1 PROVE Head(Rotated(s)) = s[2]
  <2>1. 1 \in 1 .. Len(s) - 1 /\ 1 + 1 = 2
    BY <1>7, <1>10
  <2>2. Rotated(s)[1] = s[2]
    BY <1>1, <1>6, <2>1
  <2> QED BY <1>5, <1>6, <2>2
<1> QED BY <1>5, <1>6, <1>8, <1>9, <1>10

(* The next entry of a ready list with a member is that of a task.         *)
LEMMA NextEntryList ==
  ASSUME NEW S, NEW s \in Seq(S), IsInjective(s), Members(s) # {}
  PROVE  /\ NextEntry(s) \in Seq(S) /\ IsInjective(NextEntry(s)) /\ Range(NextEntry(s)) = Range(s)
         /\ Last(NextEntry(s)) \in Members(s)
<1>1. s # << >> /\ Len(s) \in Nat /\ Head(s) = s[1] /\ DOMAIN s = 1 .. Len(s) /\ Len(s) > 0
  <2>1. Range(s) # {}
    BY DEF Members
  <2> QED BY <2>1, ListType
<1>2. CASE Head(s) # End
  <2>1. NextEntry(s) = Rotated(s)
    BY <1>2 DEF NextEntry
  <2>2. Head(s) \in Range(s)
    BY <1>1, TailList
  <2> QED BY <1>1, <1>2, <2>1, <2>2, RotatedList DEF Members
<1>3. CASE Head(s) = End
  <2>1. NextEntry(s) = Rotated(Rotated(s))
    BY <1>3 DEF NextEntry
  <2>2. PICK i \in DOMAIN s : s[i] # End
    BY DEF Members, Range
  <2>3. Len(s) > 1 /\ 2 \in DOMAIN s /\ 1 \in DOMAIN s
    BY <1>1, <1>3, <2>2
  <2>4. s[2] # End /\ s[2] \in Range(s)
    <3>1. s[2] = s[1] => 2 = 1
      BY <2>3 DEF IsInjective
    <3> QED BY <1>1, <1>3, <2>3, <3>1 DEF Range
  <2>5. /\ Rotated(s) \in Seq(S) /\ IsInjective(Rotated(s)) /\ Range(Rotated(s)) = Range(s)
        /\ Rotated(s) # << >> /\ Head(Rotated(s)) = s[2]
    BY <1>1, <2>3, RotatedList
  <2>6. /\ Rotated(Rotated(s)) \in Seq(S) /\ IsInjective(Rotated(Rotated(s)))
        /\ Range(Rotated(Rotated(s))) = Range(s) /\ Last(Rotated(Rotated(s))) = s[2]
    BY <2>5, RotatedList
  <2> QED BY <2>1, <2>4, <2>6 DEF Members
<1> QED BY <1>2, <1>3

(* The longest stretch of a set at the head of a list.                     *)
LEMMA LeadingIs ==
  ASSUME NEW S, NEW s \in Seq(S), NEW T
  PROVE  LET n == Leading(s, T)
         IN  /\ n \in 0 .. Len(s) /\ \A i \in 1 .. n : s[i] \in T
             /\ n < Len(s) => s[n + 1] \notin T
<1> DEFINE stop == {i \in Nat : i + 1 \in 1 .. Len(s) /\ s[i + 1] \notin T}
<1>0. Len(s) \in Nat
  BY ListType
<1>1. \E n \in 0 .. Len(s) : /\ \A i \in 1 .. n : s[i] \in T
                             /\ n < Len(s) => s[n + 1] \notin T
  <2>1. CASE stop = {}
    <3>1. \A i \in 1 .. Len(s) : s[i] \in T
      <4> SUFFICES ASSUME NEW i \in 1 .. Len(s), s[i] \notin T PROVE FALSE
        OBVIOUS
      <4>1. i - 1 \in Nat /\ (i - 1) + 1 = i
        BY <1>0
      <4> QED BY <2>1, <4>1
    <3> QED BY <1>0, <3>1
  <2>2. CASE stop # {}
    <3>1. PICK n \in stop : \A m \in stop : n <= m
      <4> HIDE DEF stop
      <4>1. stop \in SUBSET Nat
        BY DEF stop
      <4> QED BY <2>2, <4>1, LeastNumber
    <3>2. n \in Nat /\ n + 1 \in 1 .. Len(s) /\ s[n + 1] \notin T
      BY <3>1
    <3>3. \A i \in 1 .. n : s[i] \in T
      <4> SUFFICES ASSUME NEW i \in 1 .. n, s[i] \notin T PROVE FALSE
        OBVIOUS
      <4>1. i - 1 \in Nat /\ (i - 1) + 1 = i /\ i \in 1 .. Len(s) /\ ~(n <= i - 1)
        BY <1>0, <3>2
      <4> QED BY <3>1, <4>1
    <3>4. n \in 0 .. Len(s)
      BY <1>0, <3>2
    <3> QED BY <3>2, <3>3, <3>4
  <2> QED BY <2>1, <2>2
<1> QED BY <1>1 DEF Leading

(* Inserting behind the leading entries that are ahead.                    *)
LEMMA InsertedList ==
  ASSUME NEW S, NEW s \in Seq(S), IsInjective(s), NEW t \in S, t \notin Range(s), NEW ahead
  PROVE  LET r == Inserted(s, t, ahead)
         IN  /\ r \in Seq(S) /\ r # << >> /\ IsInjective(r) /\ Range(r) = Range(s) \cup {t}
             /\ Head(r) = t \/ (s # << >> /\ Head(r) = Head(s))
             /\ \A w : /\ w \in [S -> Nat] /\ Sorted(s, w)
                       /\ \A u \in S : u \in ahead <=> w[u] <= w[t]
                       => Sorted(r, w)
<1> DEFINE n == Leading(s, ahead)
<1>1. /\ n \in 0 .. Len(s) /\ \A i \in 1 .. n : s[i] \in ahead
      /\ n < Len(s) => s[n + 1] \notin ahead
  BY LeadingIs
<1> HIDE DEF n
<1>2. /\ Len(s) \in Nat /\ n + 1 \in 1 .. Len(s) + 1 /\ DOMAIN s = 1 .. Len(s)
      /\ (n + 1 # 1 => s # << >>)
      /\ \A i \in DOMAIN s : s[i] \in S
  BY <1>1, ListType
<1>3. Inserted(s, t, ahead) = InsertAt(s, n + 1, t)
  BY DEF Inserted, n
<1>4. ASSUME NEW w, w \in [S -> Nat], Sorted(s, w), \A u \in S : u \in ahead <=> w[u] <= w[t]
      PROVE  \A j \in DOMAIN s : IF j < n + 1 THEN w[s[j]] <= w[t] ELSE w[t] <= w[s[j]]
  <2> TAKE j \in DOMAIN s
  <2>1. CASE j < n + 1
    <3>1. j \in 1 .. n /\ s[j] \in S
      BY <1>1, <1>2, <2>1
    <3> QED BY <1>1, <1>4, <2>1, <3>1
  <2>2. CASE ~(j < n + 1)
    <3>1. n < Len(s) /\ n + 1 \in DOMAIN s /\ (n + 1 < j \/ n + 1 = j) /\ s[n + 1] \in S /\ s[j] \in S
      BY <1>1, <1>2, <2>2
    <3>2. ~(w[s[n + 1]] <= w[t])
      BY <1>1, <1>4, <3>1
    <3>3. w[s[n + 1]] <= w[s[j]]
      BY <1>4, <3>1 DEF Sorted
    <3>4. w[s[n + 1]] \in Nat /\ w[t] \in Nat /\ w[s[j]] \in Nat
      BY <1>4, <3>1
    <3>5. w[t] <= w[s[j]]
      BY <3>2, <3>3, <3>4
    <3> QED BY <2>2, <3>5
  <2> QED BY <2>1, <2>2
<1> DEFINE p == n + 1
           r == InsertAt(s, p, t)
<1>5. p \in 1 .. Len(s) + 1 /\ (p # 1 => s # << >>)
  BY <1>2
<1>6. Inserted(s, t, ahead) = r
  BY <1>3
<1>7. ASSUME NEW w, w \in [S -> Nat], Sorted(s, w), \A u \in S : u \in ahead <=> w[u] <= w[t]
      PROVE  \A j \in DOMAIN s : IF j < p THEN w[s[j]] <= w[t] ELSE w[t] <= w[s[j]]
  BY <1>4, <1>7
<1> HIDE DEF p
<1>8. /\ r \in Seq(S) /\ r # << >> /\ IsInjective(r) /\ Range(r) = Range(s) \cup {t}
      /\ Head(r) = IF p = 1 THEN t ELSE Head(s)
  BY <1>5, InsertedAt
<1>9. ASSUME NEW w, w \in [S -> Nat], Sorted(s, w), \A u \in S : u \in ahead <=> w[u] <= w[t]
      PROVE  Sorted(r, w)
  <2>1. \A j \in DOMAIN s : IF j < p THEN w[s[j]] <= w[t] ELSE w[t] <= w[s[j]]
    BY <1>7, <1>9
  <2> QED BY <1>5, <1>9, <2>1, InsertedAt
<1> HIDE DEF r
<1> QED BY <1>5, <1>6, <1>8, <1>9

(* The end of a ready list is just before the entry pxIndex stands at.     *)
LEMMA InsertedEnd ==
  ASSUME NEW S, NEW s \in Seq(S), IsInjective(s), s # << >>, NEW t \in S, t \notin Range(s)
  PROVE  /\ InsertEnd(s, t) \in Seq(S) /\ IsInjective(InsertEnd(s, t))
         /\ Range(InsertEnd(s, t)) = Range(s) \cup {t}
<1> DEFINE L == Len(s)
           a == SubSeq(s, 1, L - 1)
<1>1. L \in Nat /\ L # 0 /\ L \in 1 .. L + 1 /\ L \in 1 .. Len(s)
  BY ListType
<1>2. s[L] \in S
  BY <1>1, ElementOfSeq
<1>3. SubSeq(s, L, L) = <<s[L]>>
  <2>1. SubSeq(s, L, L) = <<s[L]>> \o SubSeq(s, L + 1, L)
    BY <1>1, SubSeqRecursiveFirst
  <2>2. SubSeq(s, L + 1, L) = << >>
    <3>1. L + 1 \in Int /\ L \in Int /\ L < L + 1
      BY <1>1
    <3> HIDE DEF L
    <3> QED BY <3>1, SubSeqEmpty
  <2>3. <<s[L]>> \in Seq(S)
    BY <1>2
  <2> QED BY <2>1, <2>2, <2>3, ConcatEmptySeq
<1>4. a \in Seq(S)
  <2>1. \A i \in 1 .. L - 1 : s[i] \in S
    BY <1>1, ElementOfSeq
  <2> QED BY <1>1, <2>1, SubSeqProperties
<1>5. (a \o <<t>>) \o <<s[L]>> = a \o (<<t>> \o <<s[L]>>)
  <2>1. <<t>> \in Seq(S) /\ <<s[L]>> \in Seq(S)
    BY <1>2
  <2> HIDE DEF a, L
  <2> QED BY <1>4, <2>1, ConcatAssociative
<1>6. <<t>> \o <<s[L]>> = <<t, s[L]>>
  <2> SUFFICES ASSUME NEW v \in S PROVE <<t>> \o <<v>> = <<t, v>>
    BY <1>2
  <2>1. <<t>> \in Seq(S) /\ Len(<<t>>) = 1 /\ <<t>>[1] = t
    OBVIOUS
  <2>2. <<v>> \in Seq(S) /\ Len(<<v>>) = 1 /\ <<v>>[1] = v
    OBVIOUS
  <2>3. <<t, v>> \in Seq(S) /\ Len(<<t, v>>) = 2 /\ <<t, v>>[1] = t /\ <<t, v>>[2] = v
    OBVIOUS
  <2>4. /\ <<t>> \o <<v>> \in Seq(S) /\ Len(<<t>> \o <<v>>) = 2
        /\ (<<t>> \o <<v>>)[1] = t /\ (<<t>> \o <<v>>)[2] = v
    <3>1. /\ <<t>> \o <<v>> \in Seq(S) /\ Len(<<t>> \o <<v>>) = 1 + 1
          /\ \A i \in 1 .. 1 + 1 : (<<t>> \o <<v>>)[i] = IF i <= 1 THEN <<t>>[i] ELSE <<v>>[i - 1]
      BY <2>1, <2>2, ConcatProperties
    <3>2. (<<t>> \o <<v>>)[1] = <<t>>[1] /\ (<<t>> \o <<v>>)[2] = <<v>>[1]
      BY <3>1
    <3> QED BY <2>1, <2>2, <3>1, <3>2
  <2> DEFINE l == <<t>> \o <<v>>
             r == <<t, v>>
  <2>5. \A i \in 1 .. 2 : l[i] = r[i]
    <3> SUFFICES ASSUME NEW i \in 1 .. 2 PROVE l[i] = r[i]
      OBVIOUS
    <3>1. i = 1 \/ i = 2
      OBVIOUS
    <3> QED BY <2>3, <2>4, <3>1
  <2>6. l \in Seq(S) /\ r \in Seq(S) /\ Len(l) = 2 /\ Len(r) = 2
    BY <2>3, <2>4
  <2> HIDE DEF l, r
  <2>7. l = r
    BY <2>5, <2>6, SeqEqual
  <2> QED BY <2>7 DEF l, r
<1>7. InsertEnd(s, t) = InsertAt(s, L, t)
  BY <1>3, <1>5, <1>6 DEF InsertEnd, InsertAt, Front, Last
<1>8. L \in 1 .. Len(s) + 1
  BY <1>1
<1> HIDE DEF L
<1> QED BY <1>7, <1>8, InsertedAt

(* A list without repetitions is as long as its entries are many.          *)
LEMMA ListCardinality ==
  ASSUME NEW S, NEW s \in Seq(S), IsInjective(s)
  PROVE  IsFiniteSet(Range(s)) /\ Cardinality(Range(s)) = Len(s)
<1>1. Len(s) \in Nat /\ s \in [1 .. Len(s) -> S] /\ DOMAIN s = 1 .. Len(s)
  BY LenProperties
<1>2. s \in Bijection(1 .. Len(s), Range(s))
  <2>1. s \in [1 .. Len(s) -> Range(s)]
    BY <1>1 DEF Range
  <2>2. s \in Injection(1 .. Len(s), Range(s))
    BY <2>1 DEF Injection
  <2>3. \A u \in Range(s) : \E i \in 1 .. Len(s) : s[i] = u
    BY <1>1 DEF Range
  <2>4. s \in Surjection(1 .. Len(s), Range(s))
    BY <2>1, <2>3 DEF Surjection
  <2> QED BY <2>2, <2>4 DEF Bijection
<1>3. ExistsBijection(1 .. Len(s), Range(s))
  BY <1>2 DEF ExistsBijection
<1>4. IsFiniteSet(1 .. Len(s)) /\ Cardinality(1 .. Len(s)) = Len(s)
  BY <1>1, FS_Interval
<1> QED BY <1>3, <1>4, FS_Bijection

(* Lists that share no entry are together as long as their entries are     *)
(* many.                                                                   *)
LEMMA ThreeLists ==
  ASSUME NEW S, NEW a \in Seq(S), NEW b \in Seq(S), NEW c \in Seq(S),
         IsInjective(a), IsInjective(b), IsInjective(c),
         Range(a) \cap Range(b) = {}, Range(a) \cap Range(c) = {}, Range(b) \cap Range(c) = {}
  PROVE  Len(a) + Len(b) + Len(c) = Cardinality(Range(a) \cup Range(b) \cup Range(c))
<1>1. /\ IsFiniteSet(Range(a)) /\ Cardinality(Range(a)) = Len(a)
      /\ IsFiniteSet(Range(b)) /\ Cardinality(Range(b)) = Len(b)
      /\ IsFiniteSet(Range(c)) /\ Cardinality(Range(c)) = Len(c)
  BY ListCardinality
<1>2. Len(a) \in Nat /\ Len(b) \in Nat /\ Len(c) \in Nat
  BY ListType
<1>3. Cardinality({}) = 0
  BY FS_EmptySet
<1> DEFINE A == Range(a)
           B == Range(b)
           C == Range(c)
           AB == A \cup B
<1> HIDE DEF A, B, C
<1>4. IsFiniteSet(AB) /\ Cardinality(AB) = Len(a) + Len(b) - Cardinality(A \cap B)
  BY <1>1, FS_Union DEF A, B
<1>5. Cardinality(AB) = Len(a) + Len(b)
  <2>1. Cardinality(A \cap B) = 0
    BY <1>3 DEF A, B
  <2> QED BY <1>2, <1>4, <2>1
<1> HIDE DEF AB
<1>6. Cardinality(AB \cup C) = Cardinality(AB) + Len(c) - Cardinality(AB \cap C)
  BY <1>1, <1>4, FS_Union DEF C
<1>7. AB \cap C = {}
  BY DEF AB, A, B, C
<1>8. Cardinality(AB \cup C) = Len(a) + Len(b) + Len(c)
  <2>1. Cardinality(AB \cap C) = 0
    BY <1>3, <1>7
  <2> QED BY <1>2, <1>5, <1>6, <2>1
<1> QED BY <1>8 DEF AB, A, B, C
-----------------------------------------------------------------------------
(* PRIORITIES                                                              *)

(* The tasks are finitely many, and so are their priorities.               *)
LEMMA LevelsBounded == \E b \in Nat : \A p \in Levels : p <= b
<1> DEFINE below(n) == \E b \in Nat : \A i \in 1 .. n : Prio[Tasks[i]] <= b
           bad == {n \in 0 .. Len(Tasks) : ~below(n)}
<1>1. /\ Len(Tasks) \in Nat /\ DOMAIN Tasks = 1 .. Len(Tasks)
      /\ \A i \in 1 .. Len(Tasks) : Tasks[i] \in TaskSet /\ Prio[Tasks[i]] \in Nat
  <2>1. Tasks \in Seq(TaskSet) /\ Prio \in [TaskSet -> Nat]
    BY KernelAssumption
  <2> QED BY <2>1, ListType
<1>2. bad = {}
  <2> SUFFICES ASSUME bad # {} PROVE FALSE
    OBVIOUS
  <2>1. bad \in SUBSET Nat
    BY <1>1
  <2>2. PICK n \in bad : \A m \in bad : n <= m
    <3> HIDE DEF bad
    <3> QED BY <2>1, LeastNumber
  <2>3. n \in 0 .. Len(Tasks) /\ ~below(n)
    BY <2>2
  <2>4. n # 0
    <3>1. 0 \in Nat /\ \A i \in 1 .. 0 : Prio[Tasks[i]] <= 0
      OBVIOUS
    <3> QED BY <2>3, <3>1
  <2>5. n - 1 \in 0 .. Len(Tasks) /\ ~(n <= n - 1) /\ n \in 1 .. Len(Tasks)
    BY <1>1, <2>3, <2>4
  <2>6. below(n - 1)
    BY <2>2, <2>5
  <2>7. PICK b \in Nat : \A i \in 1 .. n - 1 : Prio[Tasks[i]] <= b
    BY <2>6
  <2>8. \A i \in 1 .. n : i \in 1 .. n - 1 \/ i = n
    BY <2>5
  <2>9. CASE Prio[Tasks[n]] <= b
    <3>1. \A i \in 1 .. n : Prio[Tasks[i]] <= b
      BY <2>7, <2>8, <2>9
    <3> QED BY <2>3, <3>1
  <2>10. CASE ~(Prio[Tasks[n]] <= b)
    <3>1. \A i \in 1 .. n : i \in 1 .. Len(Tasks)
      BY <1>1, <2>5
    <3>2. \A i \in 1 .. n : Prio[Tasks[i]] <= Prio[Tasks[n]]
      <4> DEFINE P(i) == Prio[Tasks[i]]
      <4>1. ASSUME NEW i \in 1 .. n PROVE P(i) \in Nat
        BY <1>1, <3>1
      <4>2. P(n) \in Nat /\ b \in Nat /\ ~(P(n) <= b)
        BY <1>1, <2>5, <2>7, <2>10
      <4>3. \A i \in 1 .. n - 1 : P(i) <= b
        BY <2>7
      <4> HIDE DEF P
      <4>4. ASSUME NEW i \in 1 .. n PROVE P(i) <= P(n)
        <5>1. CASE i = n
          BY <4>2, <5>1
        <5>2. CASE i \in 1 .. n - 1
          <6>1. P(i) <= b /\ P(i) \in Nat
            BY <4>1, <4>3, <5>2
          <6> QED BY <4>2, <6>1
        <5> QED BY <2>8, <5>1, <5>2
      <4> QED BY <4>4 DEF P
    <3>3. Prio[Tasks[n]] \in Nat
      BY <1>1, <2>5
    <3> QED BY <2>3, <3>2, <3>3
  <2> QED BY <2>9, <2>10
<1>3. below(Len(Tasks))
  <2> SUFFICES ASSUME ~below(Len(Tasks)) PROVE FALSE
    OBVIOUS
  <2>1. Len(Tasks) \in 0 .. Len(Tasks)
    BY <1>1
  <2>2. Len(Tasks) \in bad
    <3> HIDE DEF below
    <3> QED BY <2>1
  <2> QED BY <1>2, <2>2
<1>4. \A p \in Levels : \E i \in 1 .. Len(Tasks) : p = Prio[Tasks[i]]
  BY <1>1 DEF Levels, TaskSet, Range
<1> QED BY <1>3, <1>4

(* Of some levels there is a highest.                                      *)
LEMMA TopLevel ==
  ASSUME NEW T \in SUBSET Levels, T # {}
  PROVE  Top(T) \in T /\ \A r \in T : r <= Top(T)
<1>1. T \in SUBSET Nat
  BY KernelAssumption DEF Levels
<1>2. PICK b \in Nat : \A p \in T : p <= b
  BY LevelsBounded
<1> DEFINE gaps == {b - p : p \in T}
<1>3. gaps \in SUBSET Nat /\ gaps # {}
  <2>1. \A p \in T : b - p \in Nat
    BY <1>1, <1>2
  <2> QED BY <2>1
<1>4. PICK g \in gaps : \A h \in gaps : g <= h
  <2> HIDE DEF gaps
  <2> QED BY <1>3, LeastNumber
<1>5. PICK p \in T : g = b - p
  BY <1>4
<1>6. \A r \in T : r <= p
  <2> TAKE r \in T
  <2>1. b - p <= b - r /\ b \in Nat /\ p \in Nat /\ r \in Nat
    BY <1>1, <1>4, <1>5
  <2> QED BY <2>1
<1> QED BY <1>5, <1>6 DEF Top

-----------------------------------------------------------------------------
(* THE DATA OF THE SCHEDULER                                               *)

KernelStates ==
  [ready : [Levels -> Seq(TaskSet \cup {End})], top : SUBSET Levels,
   delayed : Seq(TaskSet), overflow : Seq(TaskSet), suspended : Seq(TaskSet),
   pending : Seq(TaskSet), rx : Seq(TaskSet), tx : Seq(TaskSet),
   pended : 0 .. MaxPended, yield : BOOLEAN, tick : 0 .. Forever, unblock : 0 .. Forever,
   wake : [TaskSet -> 0 .. Forever], wrapped : [TaskSet -> BOOLEAN], age : [TaskSet -> Int]]

WaitingIn(x) == Range(x.delayed) \cup Range(x.overflow) \cup Range(x.suspended)
ReadyIn(x)   == UNION {Members(x.ready[p]) : p \in Levels}

(* A ready list holds its end marker and tasks of its level, each once, and *)
(* the bits of the levels are right.                                       *)
ReadyKept(x) ==
  /\ \A p \in Levels : /\ IsInjective(x.ready[p]) /\ End \in Range(x.ready[p])
                       /\ \A t \in Members(x.ready[p]) : Prio[t] = p
  /\ x.top = {p \in Levels : Members(x.ready[p]) # {}}

(* A task that waits is in one list, once; the delayed ones are in the     *)
(* order of their wake times, and the first one's is not overlooked.       *)
WaitKept(x) ==
  /\ IsInjective(x.delayed) /\ IsInjective(x.overflow) /\ IsInjective(x.suspended)
  /\ Range(x.delayed) \cap Range(x.overflow) = {}
  /\ Range(x.delayed) \cap Range(x.suspended) = {}
  /\ Range(x.overflow) \cap Range(x.suspended) = {}
  /\ Sorted(x.delayed, x.wake) /\ Sorted(x.overflow, x.wake)
  /\ x.unblock <= HeadWake(x)

(* Each task waits or is ready.                                            *)
Divided(x) == WaitingIn(x) \cap ReadyIn(x) = {} /\ WaitingIn(x) \cup ReadyIn(x) = TaskSet

StatesKept(x) == x \in KernelStates /\ ReadyKept(x) /\ WaitKept(x) /\ Divided(x)

(* A task waits for one event at most, or has been woken.                  *)
EventsKept(x) ==
  /\ IsInjective(x.rx) /\ IsInjective(x.tx) /\ IsInjective(x.pending)
  /\ Range(x.rx) \cap Range(x.tx) = {} /\ Range(x.rx) \cap Range(x.pending) = {}
  /\ Range(x.tx) \cap Range(x.pending) = {}
  /\ Range(x.rx) \cup Range(x.tx) \cup Range(x.pending) \subseteq WaitingIn(x)

SameReady(x, y)  == y.ready = x.ready /\ y.top = x.top
SameWaits(x, y)  ==
  /\ y.delayed = x.delayed /\ y.overflow = x.overflow /\ y.suspended = x.suspended
  /\ y.wake = x.wake /\ y.unblock = x.unblock
SameEvents(x, y) == y.rx = x.rx /\ y.tx = x.tx /\ y.pending = x.pending
SameClock(x, y)  == y.pended = x.pended /\ y.tick = x.tick

(* A task's priority is a level, and no task is the end marker.            *)
LEMMA LevelOf == \A t \in TaskSet : Prio[t] \in Levels /\ Prio[t] \in Nat /\ t # End
BY KernelAssumption DEF Levels

(* The longest time to wait is the last value of the tick count.           *)
LEMMA ForeverType == Forever \in Nat /\ Forever > 0 /\ TickMod \in Nat /\ TickMod = Forever + 1 /\ TickMod # 0
BY KernelAssumption DEF Forever

(* A task made ready joins its level, and nothing else changes.            *)
LEMMA MadeReadyKeeps ==
  ASSUME NEW x \in KernelStates, ReadyKept(x), NEW t \in TaskSet, t \notin ReadyIn(x)
  PROVE  LET y == MadeReady(x, t)
         IN  /\ y \in KernelStates /\ ReadyKept(y) /\ ReadyIn(y) = ReadyIn(x) \cup {t}
             /\ SameWaits(x, y) /\ SameEvents(x, y) /\ SameClock(x, y) /\ y.yield = x.yield
             /\ y.age = x.age /\ y.wrapped = x.wrapped
<1> DEFINE y == MadeReady(x, t)
           q == Prio[t]
           l == InsertEnd(x.ready[q], t)
<1>1. q \in Levels /\ t # End
  BY LevelOf
<1>2. /\ x.ready[q] \in Seq(TaskSet \cup {End}) /\ IsInjective(x.ready[q])
      /\ End \in Range(x.ready[q]) /\ t \notin Range(x.ready[q])
  BY <1>1 DEF KernelStates, ReadyKept, ReadyIn, Members
<1>3. x.ready[q] # << >>
  BY <1>2, ListType
<1>4. l \in Seq(TaskSet \cup {End}) /\ IsInjective(l) /\ Range(l) = Range(x.ready[q]) \cup {t}
  BY <1>2, <1>3, InsertedEnd
<1> HIDE DEF l
<1>5. /\ y = [x EXCEPT !.ready = [x.ready EXCEPT ![q] = l], !.top = x.top \cup {q}]
  BY DEF MadeReady, l
<1> HIDE DEF q
<1>6. /\ y.ready = [x.ready EXCEPT ![q] = l] /\ y.top = x.top \cup {q}
      /\ SameWaits(x, y) /\ SameEvents(x, y) /\ SameClock(x, y) /\ y.yield = x.yield
      /\ y.age = x.age /\ y.wrapped = x.wrapped
  BY <1>5 DEF KernelStates, SameWaits, SameEvents, SameClock
<1>7. y \in KernelStates
  <2>1. [x.ready EXCEPT ![q] = l] \in [Levels -> Seq(TaskSet \cup {End})]
    BY <1>1, <1>4 DEF KernelStates
  <2>2. x.top \cup {q} \in SUBSET Levels
    BY <1>1 DEF KernelStates
  <2> QED BY <1>5, <2>1, <2>2 DEF KernelStates
<1> HIDE DEF y
<1>8. \A p \in Levels : y.ready[p] = IF p = q THEN l ELSE x.ready[p]
  BY <1>1, <1>6 DEF KernelStates
<1>9. Members(l) = Members(x.ready[q]) \cup {t}
  BY <1>1, <1>4 DEF Members
<1>10. ReadyIn(y) = ReadyIn(x) \cup {t}
  BY <1>1, <1>8, <1>9 DEF ReadyIn
<1>11. ReadyKept(y)
  <2>1. ASSUME NEW p \in Levels
        PROVE  /\ IsInjective(y.ready[p]) /\ End \in Range(y.ready[p])
               /\ \A u \in Members(y.ready[p]) : Prio[u] = p
    BY <1>2, <1>4, <1>8, <1>9 DEF ReadyKept, q
  <2>2. y.top = {p \in Levels : Members(y.ready[p]) # {}}
    BY <1>1, <1>6, <1>8, <1>9 DEF ReadyKept
  <2> QED BY <2>1, <2>2 DEF ReadyKept
<1> QED BY <1>6, <1>7, <1>10, <1>11 DEF y

(* Removing an entry of a sorted list brings no earlier one to its head.   *)
LEMMA HeadOfRemoved ==
  ASSUME NEW S, NEW s \in Seq(S), IsInjective(s), NEW t, NEW w \in [S -> Nat], Sorted(s, w),
         Removed(s, t) # << >>
  PROVE  s # << >> /\ w[Head(s)] <= w[Head(Removed(s, t))]
<1> DEFINE r == Removed(s, t)
<1>1. r \in Seq(S) /\ Range(r) = Range(s) \ {t}
  BY RemovedList
<1> HIDE DEF r
<1>2. r # << >> /\ Len(r) \in Nat /\ DOMAIN r = 1 .. Len(r) /\ Head(r) = r[1] /\ Len(r) # 0
  <2>1. r # << >>
    BY DEF r
  <2> QED BY <1>1, <2>1, ListType
<1>3. Head(r) \in Range(s)
  <2>1. 1 \in DOMAIN r
    BY <1>2
  <2> QED BY <1>1, <1>2, <2>1 DEF Range
<1>4. PICK i \in DOMAIN s : s[i] = Head(r)
  BY <1>3 DEF Range
<1>5. /\ Len(s) \in Nat /\ DOMAIN s = 1 .. Len(s) /\ s # << >> /\ \A j \in DOMAIN s : s[j] \in S
  BY <1>3, ListType
<1>6. Head(s) = s[1] /\ 1 \in DOMAIN s /\ (1 < i \/ 1 = i)
  BY <1>4, <1>5
<1>7. w[s[1]] <= w[s[i]]
  <2>1. CASE 1 < i
    BY <1>4, <1>6, <2>1 DEF Sorted
  <2>2. CASE 1 = i
    <3>1. w[s[1]] \in Nat
      BY <1>5, <1>6
    <3> QED BY <2>2, <3>1
  <2> QED BY <1>6, <2>1, <2>2
<1> QED BY <1>4, <1>5, <1>6, <1>7 DEF r

(* Off its list of waiting tasks.                                          *)
LEMMA OffStateKeeps ==
  ASSUME NEW x \in KernelStates, WaitKept(x), NEW t \in TaskSet
  PROVE  LET y == OffState(x, t)
         IN  /\ y \in KernelStates /\ WaitKept(y) /\ WaitingIn(y) = WaitingIn(x) \ {t}
             /\ SameReady(x, y) /\ SameEvents(x, y) /\ SameClock(x, y) /\ y.yield = x.yield
             /\ y.age = x.age /\ y.wrapped = x.wrapped /\ y.unblock = x.unblock
             /\ \A u \in TaskSet : u # t => y.wake[u] = x.wake[u]
             /\ Range(y.delayed) = Range(x.delayed) \ {t}
             /\ Range(y.overflow) = Range(x.overflow) \ {t}
             /\ Range(y.suspended) = Range(x.suspended) \ {t}
             /\ t \notin Range(x.delayed) => y.delayed = x.delayed
             /\ t \notin Range(x.overflow) => y.overflow = x.overflow
             /\ t \notin Range(x.suspended) => y.suspended = x.suspended
<1> DEFINE y == OffState(x, t)
           d == Removed(x.delayed, t)
           o == Removed(x.overflow, t)
           s == Removed(x.suspended, t)
           w == [x.wake EXCEPT ![t] = 0]
<1>1. /\ x.delayed \in Seq(TaskSet) /\ x.overflow \in Seq(TaskSet) /\ x.suspended \in Seq(TaskSet)
      /\ IsInjective(x.delayed) /\ IsInjective(x.overflow) /\ IsInjective(x.suspended)
      /\ x.wake \in [TaskSet -> 0 .. Forever]
  BY DEF KernelStates, WaitKept
<1>2. /\ d \in Seq(TaskSet) /\ IsInjective(d) /\ Range(d) = Range(x.delayed) \ {t}
      /\ Sorted(x.delayed, x.wake) => Sorted(d, x.wake)
      /\ t \notin Range(x.delayed) => d = x.delayed
  BY <1>1, RemovedList
<1>3. /\ o \in Seq(TaskSet) /\ IsInjective(o) /\ Range(o) = Range(x.overflow) \ {t}
      /\ Sorted(x.overflow, x.wake) => Sorted(o, x.wake)
      /\ t \notin Range(x.overflow) => o = x.overflow
  BY <1>1, RemovedList
<1>4. /\ s \in Seq(TaskSet) /\ IsInjective(s) /\ Range(s) = Range(x.suspended) \ {t}
      /\ t \notin Range(x.suspended) => s = x.suspended
  BY <1>1, RemovedList
<1>5. w \in [TaskSet -> 0 .. Forever] /\ \A u \in TaskSet : u # t => w[u] = x.wake[u]
  <2>1. 0 \in 0 .. Forever
    BY ForeverType
  <2> QED BY <1>1, <2>1
<1>6. ASSUME d # << >>
      PROVE  x.delayed # << >> /\ x.wake[Head(x.delayed)] <= x.wake[Head(d)] /\ Head(d) \in Range(d)
             /\ x.wake[Head(x.delayed)] \in Nat /\ x.wake[Head(d)] \in Nat /\ Head(d) \in TaskSet
  <2>1. x.wake \in [TaskSet -> Nat]
    BY <1>1, ForeverType
  <2>2. x.delayed # << >> /\ x.wake[Head(x.delayed)] <= x.wake[Head(d)]
    BY <1>1, <1>6, <2>1, HeadOfRemoved DEF WaitKept
  <2>3. Head(x.delayed) \in TaskSet
    BY <1>1, <2>2, HeadTailProperties
  <2>4. Head(d) \in TaskSet /\ Head(d) \in Range(d)
    BY <1>2, <1>6, HeadTailProperties, TailList
  <2> QED BY <2>1, <2>2, <2>3, <2>4
<1> HIDE DEF d, o, s, w
<1>7. y = [x EXCEPT !.delayed = d, !.overflow = o, !.suspended = s, !.wake = w]
  BY DEF OffState, d, o, s, w
<1>8. /\ y.delayed = d /\ y.overflow = o /\ y.suspended = s /\ y.wake = w /\ y.unblock = x.unblock
      /\ SameReady(x, y) /\ SameEvents(x, y) /\ SameClock(x, y) /\ y.yield = x.yield
      /\ y.age = x.age /\ y.wrapped = x.wrapped
  BY <1>7 DEF KernelStates, SameReady, SameEvents, SameClock
<1>9. y \in KernelStates
  <2>1. d \in Seq(TaskSet) /\ o \in Seq(TaskSet) /\ s \in Seq(TaskSet) /\ w \in [TaskSet -> 0 .. Forever]
    BY <1>2, <1>3, <1>4, <1>5
  <2> QED BY <1>7, <2>1 DEF KernelStates
<1> HIDE DEF y
<1>10. WaitingIn(y) = WaitingIn(x) \ {t}
  BY <1>2, <1>3, <1>4, <1>8 DEF WaitingIn
<1>11. Sorted(d, w) /\ Sorted(o, w)
  <2>1. Sorted(d, x.wake) /\ Sorted(o, x.wake)
    BY <1>2, <1>3 DEF WaitKept
  <2>2. /\ \A i \in DOMAIN d : d[i] \in TaskSet /\ d[i] # t
        /\ \A i \in DOMAIN o : o[i] \in TaskSet /\ o[i] # t
    BY <1>2, <1>3, ListType
  <2> QED BY <1>5, <2>1, <2>2 DEF Sorted
<1>12. y.unblock <= HeadWake(y)
  <2>1. x.unblock <= HeadWake(x) /\ x.unblock \in 0 .. Forever
    BY DEF WaitKept, KernelStates
  <2>2. CASE d = << >>
    BY <1>8, <2>1, <2>2, ForeverType DEF HeadWake
  <2>3. CASE d # << >>
    <3>1. HeadWake(x) = x.wake[Head(x.delayed)]
      BY <1>6, <2>3 DEF HeadWake
    <3>2. HeadWake(y) = x.wake[Head(d)]
      BY <1>2, <1>5, <1>6, <1>8, <2>3 DEF HeadWake
    <3>3. x.unblock \in Nat /\ x.wake[Head(x.delayed)] \in Nat /\ x.wake[Head(d)] \in Nat
          /\ x.wake[Head(x.delayed)] <= x.wake[Head(d)]
      BY <1>6, <2>1, <2>3, ForeverType
    <3> QED BY <1>8, <2>1, <3>1, <3>2, <3>3
  <2> QED BY <2>2, <2>3
<1>13. WaitKept(y)
  BY <1>2, <1>3, <1>4, <1>8, <1>11, <1>12 DEF WaitKept
<1> QED BY <1>2, <1>3, <1>4, <1>5, <1>8, <1>9, <1>10, <1>13 DEF y

(* What waited is ready.                                                   *)
Readied(x, t) == MadeReady(OffState(x, t), t)

(* ... and no longer waits.                                                *)
LEMMA ReadiedKeeps ==
  ASSUME NEW x, StatesKept(x), NEW t \in WaitingIn(x)
  PROVE  LET y == Readied(x, t)
         IN  /\ StatesKept(y)
             /\ WaitingIn(y) = WaitingIn(x) \ {t} /\ ReadyIn(y) = ReadyIn(x) \cup {t}
             /\ SameEvents(x, y) /\ SameClock(x, y) /\ y.yield = x.yield
             /\ y.age = x.age /\ y.wrapped = x.wrapped /\ y.unblock = x.unblock
             /\ \A u \in TaskSet : u # t => y.wake[u] = x.wake[u]
             /\ Range(y.delayed) = Range(x.delayed) \ {t}
             /\ Range(y.overflow) = Range(x.overflow) \ {t}
             /\ t \notin Range(x.overflow) => y.overflow = x.overflow
<1> DEFINE z == OffState(x, t)
           y == Readied(x, t)
<1>1. x \in KernelStates /\ ReadyKept(x) /\ WaitKept(x) /\ Divided(x) /\ t \in TaskSet
  BY DEF StatesKept, Divided
<1>2. /\ z \in KernelStates /\ WaitKept(z) /\ WaitingIn(z) = WaitingIn(x) \ {t}
      /\ SameReady(x, z) /\ SameEvents(x, z) /\ SameClock(x, z) /\ z.yield = x.yield
      /\ z.age = x.age /\ z.wrapped = x.wrapped /\ z.unblock = x.unblock
      /\ \A u \in TaskSet : u # t => z.wake[u] = x.wake[u]
      /\ Range(z.delayed) = Range(x.delayed) \ {t}
      /\ Range(z.overflow) = Range(x.overflow) \ {t}
      /\ t \notin Range(x.overflow) => z.overflow = x.overflow
  BY <1>1, OffStateKeeps
<1> HIDE DEF z
<1>3. ReadyKept(z) /\ ReadyIn(z) = ReadyIn(x) /\ t \notin ReadyIn(z)
  BY <1>1, <1>2 DEF ReadyKept, ReadyIn, SameReady, Divided
<1>4. y = MadeReady(z, t)
  BY DEF Readied, z
<1> HIDE DEF y
<1>5. /\ y \in KernelStates /\ ReadyKept(y) /\ ReadyIn(y) = ReadyIn(z) \cup {t}
      /\ SameWaits(z, y) /\ SameEvents(z, y) /\ SameClock(z, y) /\ y.yield = z.yield
      /\ y.age = z.age /\ y.wrapped = z.wrapped
  BY <1>1, <1>2, <1>3, <1>4, MadeReadyKeeps
<1>6. WaitKept(y) /\ WaitingIn(y) = WaitingIn(z)
  BY <1>2, <1>5 DEF WaitKept, WaitingIn, SameWaits, HeadWake
<1>7. Divided(y)
  BY <1>1, <1>2, <1>3, <1>5, <1>6 DEF Divided
<1> QED BY <1>2, <1>3, <1>5, <1>6, <1>7 DEF StatesKept, SameEvents, SameClock, SameWaits, y

(* Off its event list, if it is in one.                                    *)
LEMMA OffEventsKeeps ==
  ASSUME NEW x \in KernelStates, EventsKept(x), NEW t \in TaskSet
  PROVE  LET y == OffEvents(x, t)
         IN  /\ y \in KernelStates /\ EventsKept(y) /\ SameReady(x, y) /\ SameWaits(x, y)
             /\ SameClock(x, y) /\ y.yield = x.yield /\ y.pending = x.pending
             /\ y.age = x.age /\ y.wrapped = x.wrapped
             /\ Range(y.rx) = Range(x.rx) \ {t} /\ Range(y.tx) = Range(x.tx) \ {t}
<1> DEFINE y == OffEvents(x, t)
           r == Removed(x.rx, t)
           s == Removed(x.tx, t)
<1>1. x.rx \in Seq(TaskSet) /\ x.tx \in Seq(TaskSet) /\ IsInjective(x.rx) /\ IsInjective(x.tx)
  BY DEF KernelStates, EventsKept
<1>2. /\ r \in Seq(TaskSet) /\ IsInjective(r) /\ Range(r) = Range(x.rx) \ {t}
      /\ s \in Seq(TaskSet) /\ IsInjective(s) /\ Range(s) = Range(x.tx) \ {t}
  BY <1>1, RemovedList
<1> HIDE DEF r, s
<1>3. y = [x EXCEPT !.rx = r, !.tx = s]
  BY DEF OffEvents, r, s
<1>4. /\ y.rx = r /\ y.tx = s /\ SameReady(x, y) /\ SameWaits(x, y)
      /\ SameClock(x, y) /\ y.yield = x.yield /\ y.pending = x.pending
      /\ y.age = x.age /\ y.wrapped = x.wrapped
  BY <1>3 DEF KernelStates, SameReady, SameWaits, SameClock
<1>5. y \in KernelStates
  BY <1>2, <1>3 DEF KernelStates
<1> HIDE DEF y
<1>6. EventsKept(y)
  BY <1>2, <1>4 DEF EventsKept, WaitingIn, SameWaits
<1> QED BY <1>2, <1>4, <1>5, <1>6 DEF y

(* Without the head of an event list, in which case nothing but the events *)
(* and the yield it asks for changes.                                      *)
Unlisted(x, list, b) == [x EXCEPT ![list] = Tail(@), !.yield = b]

(* It waited, and is in no event list any more.                            *)
LEMMA HeadLeaves ==
  ASSUME NEW x \in KernelStates, EventsKept(x), NEW list \in {"rx", "tx"}, x[list] # << >>,
         NEW b \in BOOLEAN
  PROVE  LET t == Head(x[list])
             y == Unlisted(x, list, b)
         IN  /\ y \in KernelStates /\ EventsKept(y) /\ t \in WaitingIn(x)
             /\ SameReady(x, y) /\ SameWaits(x, y) /\ SameClock(x, y)
             /\ y.pending = x.pending /\ y.yield = b
             /\ y.age = x.age /\ y.wrapped = x.wrapped
             /\ t \notin Range(y.rx) \cup Range(y.tx) \cup Range(y.pending)
             /\ IF list = "rx" THEN y.rx = Tail(x.rx) /\ y.tx = x.tx
                               ELSE y.tx = Tail(x.tx) /\ y.rx = x.rx
<1> DEFINE t == Head(x[list])
           y == Unlisted(x, list, b)
<1>1. CASE list = "rx"
  <2> DEFINE s == Tail(x.rx)
  <2>1. x.rx \in Seq(TaskSet) /\ IsInjective(x.rx) /\ x.rx # << >> /\ t = Head(x.rx)
    BY <1>1 DEF KernelStates, EventsKept
  <2>2. s \in Seq(TaskSet) /\ IsInjective(s) /\ Range(s) = Range(x.rx) \ {t} /\ t \in Range(x.rx)
    BY <2>1, TailList
  <2>3. y = [x EXCEPT !.rx = s, !.yield = b]
    BY <1>1 DEF Unlisted
  <2> HIDE DEF s, t
  <2>4. /\ y.rx = s /\ y.tx = x.tx /\ SameReady(x, y) /\ SameWaits(x, y)
        /\ SameClock(x, y) /\ y.yield = b /\ y.pending = x.pending
        /\ y.age = x.age /\ y.wrapped = x.wrapped
    BY <2>3 DEF KernelStates, SameReady, SameWaits, SameClock
  <2>5. y \in KernelStates
    BY <2>2, <2>3 DEF KernelStates
  <2> HIDE DEF y
  <2>6. EventsKept(y) /\ t \in WaitingIn(x)
    BY <2>2, <2>4 DEF EventsKept, WaitingIn, SameWaits
  <2>7. t \notin Range(y.rx) \cup Range(y.tx) \cup Range(y.pending)
    BY <2>2, <2>4 DEF EventsKept
  <2> QED BY <1>1, <2>4, <2>5, <2>6, <2>7 DEF y, t, s
<1>2. CASE list = "tx"
  <2> DEFINE s == Tail(x.tx)
  <2>1. x.tx \in Seq(TaskSet) /\ IsInjective(x.tx) /\ x.tx # << >> /\ t = Head(x.tx)
    BY <1>2 DEF KernelStates, EventsKept
  <2>2. s \in Seq(TaskSet) /\ IsInjective(s) /\ Range(s) = Range(x.tx) \ {t} /\ t \in Range(x.tx)
    BY <2>1, TailList
  <2>3. y = [x EXCEPT !.tx = s, !.yield = b]
    BY <1>2 DEF Unlisted
  <2> HIDE DEF s, t
  <2>4. /\ y.tx = s /\ y.rx = x.rx /\ SameReady(x, y) /\ SameWaits(x, y)
        /\ SameClock(x, y) /\ y.yield = b /\ y.pending = x.pending
        /\ y.age = x.age /\ y.wrapped = x.wrapped
    BY <2>3 DEF KernelStates, SameReady, SameWaits, SameClock
  <2>5. y \in KernelStates
    BY <2>2, <2>3 DEF KernelStates
  <2> HIDE DEF y
  <2>6. EventsKept(y) /\ t \in WaitingIn(x)
    BY <2>2, <2>4 DEF EventsKept, WaitingIn, SameWaits
  <2>7. t \notin Range(y.rx) \cup Range(y.tx) \cup Range(y.pending)
    BY <2>2, <2>4 DEF EventsKept
  <2> QED BY <1>2, <2>4, <2>5, <2>6, <2>7 DEF y, t, s
<1> QED BY <1>1, <1>2

(* What touches neither the ready lists nor the waiting ones keeps both.   *)
LEMMA StatesMove ==
  ASSUME NEW x, NEW y \in KernelStates, StatesKept(x), SameReady(x, y), SameWaits(x, y)
  PROVE  StatesKept(y) /\ WaitingIn(y) = WaitingIn(x) /\ ReadyIn(y) = ReadyIn(x)
<1>1. ReadyKept(y)
  BY DEF StatesKept, SameReady, ReadyKept
<1>2. WaitKept(y)
  BY DEF StatesKept, SameWaits, WaitKept, HeadWake
<1>3. WaitingIn(y) = WaitingIn(x) /\ ReadyIn(y) = ReadyIn(x)
  BY DEF WaitingIn, ReadyIn, SameReady, SameWaits
<1> QED BY <1>1, <1>2, <1>3 DEF StatesKept, Divided

(* What touches no event list keeps them, as long as no task stops         *)
(* waiting.                                                                *)
LEMMA EventsMove ==
  ASSUME NEW x, NEW y, EventsKept(x), SameEvents(x, y), WaitingIn(x) \subseteq WaitingIn(y)
  PROVE  EventsKept(y)
BY DEF EventsKept, SameEvents

(* A task woken by an event is ready, or will be once the scheduler runs.  *)
LEMMA WokenKeeps ==
  ASSUME NEW x, StatesKept(x), EventsKept(x), NEW list \in {"rx", "tx"}, x[list] # << >>
  PROVE  LET t == Head(x[list])
             y == Woken(x, list)
         IN  /\ StatesKept(y) /\ EventsKept(y) /\ SameClock(x, y) /\ t \in WaitingIn(x)
             /\ y.age = x.age /\ y.wrapped = x.wrapped /\ y.unblock = x.unblock
             /\ \A u \in TaskSet : u # t => y.wake[u] = x.wake[u]
             /\ IF susp THEN /\ SameReady(x, y) /\ SameWaits(x, y)
                             /\ y.pending = Append(x.pending, t)
                        ELSE /\ WaitingIn(y) = WaitingIn(x) \ {t}
                             /\ ReadyIn(y) = ReadyIn(x) \cup {t}
                             /\ Range(y.delayed) = Range(x.delayed) \ {t}
                             /\ Range(y.overflow) = Range(x.overflow) \ {t}
                             /\ y.pending = x.pending
             /\ IF list = "rx" THEN y.rx = Tail(x.rx) /\ y.tx = x.tx
                               ELSE y.tx = Tail(x.tx) /\ y.rx = x.rx
<1> DEFINE t == Head(x[list])
           b == x.yield \/ Preempts(x, list)
           z == Unlisted(x, list, b)
           y == Woken(x, list)
<1>1. x \in KernelStates
  BY DEF StatesKept
<1>2. b \in BOOLEAN
  BY <1>1 DEF KernelStates, Preempts
<1>3. /\ z \in KernelStates /\ EventsKept(z) /\ t \in WaitingIn(x)
      /\ SameReady(x, z) /\ SameWaits(x, z) /\ SameClock(x, z)
      /\ z.pending = x.pending /\ z.age = x.age /\ z.wrapped = x.wrapped
      /\ t \notin Range(z.rx) \cup Range(z.tx) \cup Range(z.pending)
      /\ IF list = "rx" THEN z.rx = Tail(x.rx) /\ z.tx = x.tx
                        ELSE z.tx = Tail(x.tx) /\ z.rx = x.rx
  <2> HIDE DEF b
  <2> QED BY <1>1, <1>2, HeadLeaves
<1>4. y = IF susp THEN [z EXCEPT !.pending = Append(z.pending, t)] ELSE Readied(z, t)
  BY <1>1 DEF Woken, Readied, Unlisted, KernelStates
<1> HIDE DEF z, t
<1>5. StatesKept(z) /\ WaitingIn(z) = WaitingIn(x) /\ ReadyIn(z) = ReadyIn(x)
  BY <1>3, StatesMove
<1>6. t \in TaskSet
  BY <1>3, <1>5 DEF StatesKept, Divided
<1> HIDE DEF y
<1>7. CASE susp
  <2> DEFINE p == Append(z.pending, t)
  <2>1. z.pending \in Seq(TaskSet) /\ IsInjective(z.pending) /\ t \notin Range(z.pending)
    BY <1>3 DEF KernelStates, EventsKept
  <2>2. p \in Seq(TaskSet) /\ IsInjective(p) /\ Range(p) = Range(z.pending) \cup {t}
    BY <1>6, <2>1, AppendedList
  <2> HIDE DEF p
  <2>3. y = [z EXCEPT !.pending = p]
    BY <1>4, <1>7 DEF p
  <2>4. /\ y.pending = p /\ y.rx = z.rx /\ y.tx = z.tx
        /\ SameReady(z, y) /\ SameWaits(z, y) /\ SameClock(z, y)
        /\ y.age = z.age /\ y.wrapped = z.wrapped
    BY <1>3, <2>3 DEF KernelStates, SameReady, SameWaits, SameClock
  <2>5. y \in KernelStates
    BY <1>3, <2>2, <2>3 DEF KernelStates
  <2>6. StatesKept(y) /\ WaitingIn(y) = WaitingIn(z)
    BY <1>5, <2>4, <2>5, StatesMove
  <2>7. EventsKept(y)
    BY <1>3, <1>5, <2>2, <2>4, <2>6 DEF EventsKept
  <2>8. p = Append(x.pending, t)
    BY <1>3 DEF p
  <2> QED BY <1>3, <1>7, <2>4, <2>6, <2>7, <2>8 DEF SameReady, SameWaits, SameClock, t, y
<1>8. CASE ~susp
  <2>1. y = Readied(z, t)
    BY <1>4, <1>8
  <2>2. /\ StatesKept(y)
        /\ WaitingIn(y) = WaitingIn(z) \ {t} /\ ReadyIn(y) = ReadyIn(z) \cup {t}
        /\ SameEvents(z, y) /\ SameClock(z, y)
        /\ y.age = z.age /\ y.wrapped = z.wrapped /\ y.unblock = z.unblock
        /\ \A u \in TaskSet : u # t => y.wake[u] = z.wake[u]
        /\ Range(y.delayed) = Range(z.delayed) \ {t}
        /\ Range(y.overflow) = Range(z.overflow) \ {t}
    BY <1>3, <1>5, <2>1, ReadiedKeeps
  <2>3. EventsKept(y)
    BY <1>3, <2>2 DEF EventsKept, SameEvents
  <2> QED BY <1>3, <1>5, <1>8, <2>2, <2>3 DEF SameEvents, SameWaits, SameClock, t, y
<1> QED BY <1>7, <1>8

(* It does not matter which list a task leaves first.                      *)
LEMMA OffCommutes ==
  ASSUME NEW x \in KernelStates, NEW t
  PROVE  OffEvents(OffState(x, t), t) = OffState(OffEvents(x, t), t)
<1> DEFINE d == Removed(x.delayed, t)
           o == Removed(x.overflow, t)
           s == Removed(x.suspended, t)
           w == [x.wake EXCEPT ![t] = 0]
           r == Removed(x.rx, t)
           q == Removed(x.tx, t)
           y == [x EXCEPT !.delayed = d, !.overflow = o, !.suspended = s, !.wake = w]
           z == [x EXCEPT !.rx = r, !.tx = q]
<1>1. OffState(x, t) = y /\ OffEvents(x, t) = z
  BY DEF OffState, OffEvents
<1>2. y.rx = x.rx /\ y.tx = x.tx
  BY DEF KernelStates
<1>3. z.delayed = x.delayed /\ z.overflow = x.overflow /\ z.suspended = x.suspended /\ z.wake = x.wake
  BY DEF KernelStates
<1>4. OffEvents(y, t) = [y EXCEPT !.rx = r, !.tx = q]
  <2> HIDE DEF y
  <2> QED BY <1>2 DEF OffEvents
<1>5. OffState(z, t) = [z EXCEPT !.delayed = d, !.overflow = o, !.suspended = s, !.wake = w]
  <2> HIDE DEF z
  <2> QED BY <1>3 DEF OffState
<1> HIDE DEF d, o, s, w, r, q
<1>6. [y EXCEPT !.rx = r, !.tx = q]
        = [z EXCEPT !.delayed = d, !.overflow = o, !.suspended = s, !.wake = w]
  BY DEF KernelStates
<1> QED BY <1>1, <1>4, <1>5, <1>6

(* What has become of x when the tasks of T have expired.                  *)
AfterExpiry(x, y, T) ==
  /\ StatesKept(y) /\ EventsKept(y)
  /\ WaitingIn(y) = WaitingIn(x) \ T /\ ReadyIn(y) = ReadyIn(x) \cup T
  /\ SameClock(x, y) /\ y.yield = x.yield /\ y.pending = x.pending /\ y.unblock = x.unblock
  /\ \A u \in TaskSet \ T : y.wake[u] = x.wake[u]
  /\ \A u \in TaskSet : u \notin T \/ u \in Range(x.rx) \cup Range(x.tx) =>
                        y.age[u] = x.age[u] /\ y.wrapped[u] = x.wrapped[u]
  /\ Range(y.delayed) = Range(x.delayed) \ T
  /\ Range(y.overflow) = Range(x.overflow) \ T
  /\ Range(y.rx) = Range(x.rx) \ T /\ Range(y.tx) = Range(x.tx) \ T

(* A task whose time is over is ready, and waits for no event.             *)
LEMMA ExpiresKeeps ==
  ASSUME NEW x, StatesKept(x), EventsKept(x), NEW t \in WaitingIn(x), t \notin Range(x.pending)
  PROVE  AfterExpiry(x, Expires(x, t), {t})
<1> DEFINE v == OffEvents(x, t)
           z == Readied(v, t)
           y == Expires(x, t)
<1>1. x \in KernelStates /\ t \in TaskSet
  BY DEF StatesKept, Divided
<1>2. /\ v \in KernelStates /\ EventsKept(v) /\ SameReady(x, v) /\ SameWaits(x, v)
      /\ SameClock(x, v) /\ v.yield = x.yield /\ v.pending = x.pending
      /\ v.age = x.age /\ v.wrapped = x.wrapped
      /\ Range(v.rx) = Range(x.rx) \ {t} /\ Range(v.tx) = Range(x.tx) \ {t}
  BY <1>1, OffEventsKeeps
<1>3. z = MadeReady(OffEvents(OffState(x, t), t), t)
  BY <1>1, OffCommutes DEF Readied
<1> HIDE DEF v
<1>4. StatesKept(v) /\ WaitingIn(v) = WaitingIn(x) /\ ReadyIn(v) = ReadyIn(x)
  BY <1>2, StatesMove
<1>5. /\ StatesKept(z)
      /\ WaitingIn(z) = WaitingIn(v) \ {t} /\ ReadyIn(z) = ReadyIn(v) \cup {t}
      /\ SameEvents(v, z) /\ SameClock(v, z) /\ z.yield = v.yield
      /\ z.age = v.age /\ z.wrapped = v.wrapped /\ z.unblock = v.unblock
      /\ \A u \in TaskSet : u # t => z.wake[u] = v.wake[u]
      /\ Range(z.delayed) = Range(v.delayed) \ {t}
      /\ Range(z.overflow) = Range(v.overflow) \ {t}
  BY <1>4, ReadiedKeeps
<1>6. EventsKept(z)
  BY <1>2, <1>4, <1>5 DEF EventsKept, SameEvents
<1> DEFINE age == [z.age EXCEPT ![t] = -1]
           wrapped == [z.wrapped EXCEPT ![t] = FALSE]
<1>7. \/ y = z
      \/ /\ y = [z EXCEPT !.age = age, !.wrapped = wrapped]
         /\ t \notin Range(x.rx) \cup Range(x.tx)
  BY <1>3 DEF Expires
<1> HIDE DEF z, y
<1>8. z \in KernelStates
  BY <1>5 DEF StatesKept
<1>9. CASE y = z
  BY <1>2, <1>4, <1>5, <1>6, <1>9 DEF SameEvents, SameClock, SameWaits, AfterExpiry, y
<1>10. CASE /\ y = [z EXCEPT !.age = age, !.wrapped = wrapped]
           /\ t \notin Range(x.rx) \cup Range(x.tx)
  <2>0. z.age \in [TaskSet -> Int] /\ z.wrapped \in [TaskSet -> BOOLEAN]
    BY <1>8 DEF KernelStates
  <2>1. age \in [TaskSet -> Int] /\ wrapped \in [TaskSet -> BOOLEAN]
    <3>1. -1 \in Int
      OBVIOUS
    <3>2. age \in [TaskSet -> Int]
      BY <2>0, <3>1
    <3>3. wrapped \in [TaskSet -> BOOLEAN]
      BY <2>0
    <3> QED BY <3>2, <3>3
  <2>2. \A u \in TaskSet : u # t => age[u] = z.age[u] /\ wrapped[u] = z.wrapped[u]
    BY <1>8 DEF KernelStates
  <2> HIDE DEF age, wrapped
  <2>3. /\ SameReady(z, y) /\ SameWaits(z, y) /\ SameEvents(z, y) /\ SameClock(z, y)
        /\ y.yield = z.yield /\ y.age = age /\ y.wrapped = wrapped
    BY <1>8, <1>10 DEF KernelStates, SameReady, SameWaits, SameEvents, SameClock
  <2>4. y \in KernelStates
    BY <1>8, <1>10, <2>1 DEF KernelStates
  <2>5. StatesKept(y) /\ WaitingIn(y) = WaitingIn(z) /\ ReadyIn(y) = ReadyIn(z)
    BY <1>5, <2>3, <2>4, StatesMove
  <2>6. EventsKept(y)
    BY <1>6, <2>3, <2>5, EventsMove
  <2> QED BY <1>2, <1>4, <1>5, <1>10, <2>2, <2>3, <2>5, <2>6 DEF SameEvents, SameClock, SameWaits, AfterExpiry, y
<1> QED BY <1>7, <1>9, <1>10

(* The first n entries of a list.                                          *)
FirstOf(s, n) == {s[i] : i \in 1 .. n}

(* They grow one by one to the whole list.                                 *)
LEMMA FirstOnes ==
  ASSUME NEW S, NEW s \in Seq(S), IsInjective(s)
  PROVE  /\ FirstOf(s, 0) = {} /\ FirstOf(s, Len(s)) = Range(s)
         /\ \A n \in 1 .. Len(s) : /\ n - 1 \in 0 .. Len(s) /\ s[n] \in Range(s)
                                   /\ FirstOf(s, n) = FirstOf(s, n - 1) \cup {s[n]}
                                   /\ s[n] \notin FirstOf(s, n - 1)
<1>1. Len(s) \in Nat /\ DOMAIN s = 1 .. Len(s)
  BY ListType
<1>2. FirstOf(s, 0) = {} /\ FirstOf(s, Len(s)) = Range(s)
  BY <1>1 DEF FirstOf, Range
<1>3. ASSUME NEW n \in 1 .. Len(s)
      PROVE  /\ n - 1 \in 0 .. Len(s) /\ s[n] \in Range(s)
             /\ FirstOf(s, n) = FirstOf(s, n - 1) \cup {s[n]}
             /\ s[n] \notin FirstOf(s, n - 1)
  <2>1. n - 1 \in 0 .. Len(s) /\ s[n] \in Range(s)
    BY <1>1 DEF Range
  <2>2. \A i \in 1 .. n : i \in 1 .. n - 1 \/ i = n
    BY <1>1
  <2>3. \A i \in 1 .. n - 1 : i \in 1 .. n /\ i \in DOMAIN s /\ i # n /\ n \in DOMAIN s
    BY <1>1
  <2>4. n \in 1 .. n
    BY <1>1
  <2>5. FirstOf(s, n) = FirstOf(s, n - 1) \cup {s[n]}
    BY <2>2, <2>3, <2>4 DEF FirstOf
  <2>6. s[n] \notin FirstOf(s, n - 1)
    BY <2>3 DEF FirstOf, IsInjective
  <2> QED BY <2>1, <2>5, <2>6
<1> QED BY <1>2, <1>3

(* One more of the delayed tasks,                                          *)
LEMMA OneMoreExpires ==
  ASSUME NEW x, NEW y, NEW T, AfterExpiry(x, y, T),
         NEW t \in WaitingIn(x), t \notin T, t \notin Range(x.pending)
  PROVE  AfterExpiry(x, Expires(y, t), T \cup {t})
<1> DEFINE z == Expires(y, t)
<1>1. StatesKept(y) /\ EventsKept(y) /\ t \in WaitingIn(y) /\ t \notin Range(y.pending)
  BY DEF AfterExpiry
<1>2. AfterExpiry(y, z, {t})
  BY <1>1, ExpiresKeeps
<1> HIDE DEF z
<1>3. ASSUME NEW u \in TaskSet, u \notin T \cup {t} \/ u \in Range(x.rx) \cup Range(x.tx)
      PROVE  z.age[u] = x.age[u] /\ z.wrapped[u] = x.wrapped[u]
  <2>1. y.age[u] = x.age[u] /\ y.wrapped[u] = x.wrapped[u]
    BY <1>3 DEF AfterExpiry
  <2>2. u # t \/ u \in Range(y.rx) \cup Range(y.tx)
    BY <1>3 DEF AfterExpiry
  <2> QED BY <1>2, <2>1, <2>2 DEF AfterExpiry
<1>4. AfterExpiry(x, z, T \cup {t})
  BY <1>2, <1>3 DEF AfterExpiry, SameClock
<1> QED BY <1>4 DEF z

(* ... and all of them.                                                    *)
LEMMA AllExpire ==
  ASSUME NEW x, StatesKept(x), EventsKept(x), NEW s \in Seq(TaskSet), IsInjective(s),
         Range(s) \subseteq WaitingIn(x), Range(s) \cap Range(x.pending) = {}
  PROVE  AfterExpiry(x, Through(Expires, x, s), Range(s))
<1>1. Len(s) \in Nat
  BY ListType
<1>2. PICK g : Partial("expires", x, s, Len(s), g) /\ Through(Expires, x, s) = g[Len(s)]
  BY <1>1, ThroughExpires
<1>3. g[0] = x /\ \A n \in 1 .. Len(s) : g[n] = Expires(g[n - 1], s[n])
  <2>1. \A n \in 0 .. Len(s) : g[n] = IF n = 0 THEN x ELSE Applied("expires", g[n - 1], s[n])
    BY <1>2 DEF Partial
  <2>2. 0 \in 0 .. Len(s) /\ \A n \in 1 .. Len(s) : n \in 0 .. Len(s) /\ n # 0
    BY <1>1
  <2> QED BY <2>1, <2>2 DEF Applied
<1> DEFINE bad == {n \in 0 .. Len(s) : ~AfterExpiry(x, g[n], FirstOf(s, n))}
<1>4. bad = {}
  <2> SUFFICES ASSUME bad # {} PROVE FALSE
    OBVIOUS
  <2>1. PICK n \in bad : \A m \in bad : n <= m
    <3>1. bad \in SUBSET Nat
      BY <1>1
    <3> HIDE DEF bad
    <3> QED BY <3>1, LeastNumber
  <2>2. n \in 0 .. Len(s) /\ ~AfterExpiry(x, g[n], FirstOf(s, n))
    BY <2>1
  <2>3. CASE n = 0
    <3>1. AfterExpiry(x, x, {})
      BY DEF AfterExpiry, SameClock
    <3> QED BY <1>3, <2>2, <2>3, <3>1, FirstOnes
  <2>4. CASE n # 0
    <3>1. n \in 1 .. Len(s) /\ ~(n <= n - 1)
      BY <1>1, <2>2, <2>4
    <3>2. /\ n - 1 \in 0 .. Len(s) /\ s[n] \in Range(s)
          /\ FirstOf(s, n) = FirstOf(s, n - 1) \cup {s[n]} /\ s[n] \notin FirstOf(s, n - 1)
      BY <3>1, FirstOnes
    <3>3. AfterExpiry(x, g[n - 1], FirstOf(s, n - 1))
      BY <2>1, <3>1, <3>2
    <3>4. AfterExpiry(x, Expires(g[n - 1], s[n]), FirstOf(s, n - 1) \cup {s[n]})
      BY <3>2, <3>3, OneMoreExpires
    <3> QED BY <1>3, <2>2, <3>1, <3>2, <3>4
  <2> QED BY <2>3, <2>4
<1>5. AfterExpiry(x, g[Len(s)], FirstOf(s, Len(s)))
  <2>1. Len(s) \in 0 .. Len(s)
    BY <1>1
  <2> QED BY <1>4, <2>1
<1> QED BY <1>2, <1>5, FirstOnes

-----------------------------------------------------------------------------
(* THE TICK                                                                *)

(* The next time to look at the delayed tasks is a tick count.             *)
LEMMA HeadWakeType ==
  ASSUME NEW x \in KernelStates
  PROVE  HeadWake(x) \in 0 .. Forever
<1>1. x.delayed \in Seq(TaskSet) /\ x.wake \in [TaskSet -> 0 .. Forever]
  BY DEF KernelStates
<1>2. x.delayed # << >> => Head(x.delayed) \in TaskSet
  BY <1>1, HeadTailProperties
<1> QED BY <1>1, <1>2, ForeverType DEF HeadWake

SameLists(x, y) ==
  /\ SameReady(x, y) /\ SameEvents(x, y)
  /\ y.delayed = x.delayed /\ y.overflow = x.overflow /\ y.suspended = x.suspended
  /\ y.wake = x.wake

(* Noting that time changes nothing else.                                  *)
LEMMA UnblockKeeps ==
  ASSUME NEW x, StatesKept(x), EventsKept(x)
  PROVE  LET y == WithUnblock(x)
         IN  /\ StatesKept(y) /\ EventsKept(y) /\ SameLists(x, y) /\ SameClock(x, y)
             /\ WaitingIn(y) = WaitingIn(x) /\ ReadyIn(y) = ReadyIn(x)
             /\ y.yield = x.yield /\ y.age = x.age /\ y.wrapped = x.wrapped
             /\ y.unblock = HeadWake(x)
<1> DEFINE y == WithUnblock(x)
           h == HeadWake(x)
<1>1. x \in KernelStates /\ h \in 0 .. Forever
  BY HeadWakeType DEF StatesKept
<1> HIDE DEF h
<1>2. y = [x EXCEPT !.unblock = h]
  BY DEF WithUnblock, h
<1>3. /\ SameLists(x, y) /\ SameClock(x, y) /\ y.yield = x.yield /\ y.age = x.age
      /\ y.wrapped = x.wrapped /\ y.unblock = h
  BY <1>1, <1>2 DEF KernelStates, SameLists, SameReady, SameEvents, SameClock
<1>4. y \in KernelStates
  BY <1>1, <1>2 DEF KernelStates
<1> HIDE DEF y
<1>5. WaitingIn(y) = WaitingIn(x) /\ ReadyIn(y) = ReadyIn(x)
  BY <1>3 DEF WaitingIn, ReadyIn, SameLists, SameReady
<1>6. h <= HeadWake(y)
  BY <1>1, <1>3, ForeverType DEF HeadWake, SameLists, h
<1>7. WaitKept(y)
  BY <1>3, <1>6 DEF WaitKept, SameLists, StatesKept
<1>8. ReadyKept(y) /\ Divided(y)
  BY <1>3, <1>5 DEF ReadyKept, Divided, SameLists, SameReady, StatesKept
<1>9. EventsKept(y)
  BY <1>3, <1>5, EventsMove DEF SameLists
<1> QED BY <1>3, <1>4, <1>5, <1>7, <1>8, <1>9 DEF StatesKept, y, h

(* A tick is counted, and when the count overflows the lists switch.       *)
LEMMA CountedKeeps ==
  ASSUME NEW x, StatesKept(x), EventsKept(x)
  PROVE  LET y == Counted(x)
         IN  /\ StatesKept(y) /\ EventsKept(y) /\ SameReady(x, y) /\ SameEvents(x, y)
             /\ WaitingIn(y) = WaitingIn(x) /\ ReadyIn(y) = ReadyIn(x)
             /\ y.tick = (x.tick + 1) % TickMod /\ y.pended = x.pended /\ y.yield = x.yield
             /\ y.wake = x.wake
             /\ y.age = [t \in TaskSet |-> IF x.age[t] \in 0 .. TickMod - 1
                                           THEN x.age[t] + 1 ELSE x.age[t]]
             /\ IF y.tick = 0
                THEN /\ y.delayed = x.overflow /\ y.overflow = x.delayed
                     /\ y.unblock = HeadWake(y) /\ y.wrapped = [t \in TaskSet |-> y.age[t] >= 0]
                ELSE /\ y.delayed = x.delayed /\ y.overflow = x.overflow
                     /\ y.unblock = x.unblock /\ y.wrapped = x.wrapped
<1> DEFINE now == (x.tick + 1) % TickMod
           age == [t \in TaskSet |-> IF x.age[t] \in 0 .. TickMod - 1 THEN x.age[t] + 1 ELSE x.age[t]]
           z == [x EXCEPT !.tick = now, !.age = age]
           y == Counted(x)
<1>1. x \in KernelStates /\ ReadyKept(x) /\ WaitKept(x) /\ Divided(x)
  BY DEF StatesKept
<1>2. now \in 0 .. Forever
  <2>1. x.tick \in 0 .. Forever
    BY <1>1 DEF KernelStates
  <2> QED BY <2>1, ForeverType
<1>3. age \in [TaskSet -> Int]
  <2>1. x.age \in [TaskSet -> Int]
    BY <1>1 DEF KernelStates
  <2> QED BY <2>1
<1>4. y = IF now = 0 THEN ListsSwitched(z) ELSE z
  BY DEF Counted
<1> HIDE DEF now, age
<1>5. /\ z.tick = now /\ z.age = age /\ SameReady(x, z) /\ SameWaits(x, z) /\ SameEvents(x, z)
      /\ z.pended = x.pended /\ z.yield = x.yield /\ z.wrapped = x.wrapped
  BY <1>1 DEF KernelStates, SameReady, SameWaits, SameEvents
<1>6. z \in KernelStates
  BY <1>1, <1>2, <1>3 DEF KernelStates
<1> HIDE DEF z
<1>7. StatesKept(z) /\ WaitingIn(z) = WaitingIn(x) /\ ReadyIn(z) = ReadyIn(x)
  BY <1>5, <1>6, StatesMove
<1>8. EventsKept(z)
  BY <1>5, <1>7, EventsMove
<1> HIDE DEF y
<1>9. CASE now # 0
  BY <1>4, <1>5, <1>7, <1>8, <1>9 DEF SameReady, SameWaits, SameEvents, y, now, age
<1>10. CASE now = 0
  <2> DEFINE wrapped == [t \in TaskSet |-> z.age[t] >= 0]
             h == IF x.overflow = << >> THEN Forever ELSE x.wake[Head(x.overflow)]
             v == [z EXCEPT !.delayed = z.overflow, !.overflow = z.delayed, !.wrapped = wrapped]
  <2>1. y = WithUnblock(v)
    BY <1>4, <1>10 DEF ListsSwitched
  <2>2. wrapped \in [TaskSet -> BOOLEAN]
    OBVIOUS
  <2> HIDE DEF wrapped
  <2>3. /\ v.delayed = x.overflow /\ v.overflow = x.delayed /\ v.suspended = x.suspended
        /\ v.wake = x.wake /\ v.wrapped = wrapped /\ v.age = age /\ v.tick = now
        /\ SameReady(x, v) /\ SameEvents(x, v) /\ v.pended = x.pended /\ v.yield = x.yield
    BY <1>5, <1>6 DEF KernelStates, SameReady, SameEvents, SameWaits
  <2>4. v \in KernelStates
    <3>1. z.delayed \in Seq(TaskSet) /\ z.overflow \in Seq(TaskSet)
      BY <1>6 DEF KernelStates
    <3> QED BY <1>6, <2>2, <3>1 DEF KernelStates
  <2> DEFINE r == HeadWake(v)
  <2>5. r \in 0 .. Forever
    BY <2>4, HeadWakeType
  <2> HIDE DEF v
  <2>6. y = [v EXCEPT !.unblock = r]
    BY <2>1 DEF WithUnblock
  <2> HIDE DEF r
  <2>7. /\ y.delayed = x.overflow /\ y.overflow = x.delayed /\ y.suspended = x.suspended
        /\ y.wake = x.wake /\ y.wrapped = wrapped /\ y.age = age /\ y.tick = now
        /\ SameReady(x, y) /\ SameEvents(x, y) /\ y.pended = x.pended /\ y.yield = x.yield
        /\ y.unblock = r
    BY <2>3, <2>4, <2>6 DEF KernelStates, SameReady, SameEvents
  <2>8. y \in KernelStates
    BY <2>4, <2>5, <2>6 DEF KernelStates
  <2>9. r = HeadWake(y)
    BY <2>3, <2>7 DEF HeadWake, r
  <2>10. r <= HeadWake(y)
    BY <2>5, <2>9, ForeverType
  <2>11. WaitKept(y)
    BY <1>1, <2>7, <2>10 DEF WaitKept
  <2>12. WaitingIn(y) = WaitingIn(x) /\ ReadyIn(y) = ReadyIn(x) /\ ReadyKept(y)
    BY <1>1, <2>7 DEF WaitingIn, ReadyIn, SameReady, ReadyKept
  <2>13. Divided(y)
    BY <1>1, <2>12 DEF Divided
  <2>14. EventsKept(y)
    BY <2>7, <2>12, EventsMove
  <2>15. wrapped = [t \in TaskSet |-> y.age[t] >= 0]
    BY <1>5, <2>7 DEF wrapped
  <2> QED BY <1>10, <2>7, <2>8, <2>9, <2>11, <2>12, <2>13, <2>14, <2>15 DEF StatesKept, y, now, age
<1> QED BY <1>9, <1>10

(* The delayed tasks whose time is over are a stretch of their list.       *)
LEMMA ExpiredList ==
  ASSUME NEW x \in KernelStates, WaitKept(x)
  PROVE  /\ Expired(x) \in Seq(TaskSet) /\ IsInjective(Expired(x))
         /\ Range(Expired(x)) \subseteq Range(x.delayed)
         /\ \A t \in Range(Expired(x)) : x.wake[t] <= x.tick
         /\ \A t \in Range(x.delayed) : x.wake[t] <= x.tick => t \in Range(Expired(x))
<1> DEFINE d == x.delayed
           T == {t \in TaskSet : x.wake[t] <= x.tick}
           n == Leading(d, T)
           s == Expired(x)
<1>1. /\ d \in Seq(TaskSet) /\ IsInjective(d) /\ Len(d) \in Nat /\ DOMAIN d = 1 .. Len(d)
      /\ \A i \in DOMAIN d : d[i] \in TaskSet
      /\ x.wake \in [TaskSet -> 0 .. Forever] /\ x.tick \in 0 .. Forever
  BY ListType DEF KernelStates, WaitKept
<1>2. /\ n \in 0 .. Len(d) /\ \A i \in 1 .. n : d[i] \in T
      /\ n < Len(d) => d[n + 1] \notin T
  BY <1>1, LeadingIs
<1>3. s = SubSeq(d, 1, n)
  BY DEF Expired
<1> HIDE DEF n, s
<1>4. s \in Seq(TaskSet) /\ Len(s) = n /\ \A i \in 1 .. n : s[i] = d[i]
  <2>1. \A i \in 1 .. n : d[i] \in TaskSet
    BY <1>2
  <2>2. 1 \in Int /\ n \in Int /\ n \in Nat
    BY <1>1, <1>2
  <2>3. /\ s \in Seq(TaskSet) /\ Len(s) = IF 1 <= n THEN n - 1 + 1 ELSE 0
        /\ \A i \in 1 .. n - 1 + 1 : s[i] = d[1 + i - 1]
    BY <1>3, <2>1, <2>2, SubSeqProperties
  <2> QED BY <2>2, <2>3
<1>5. DOMAIN s = 1 .. n /\ \A i \in 1 .. n : i \in DOMAIN d
  BY <1>1, <1>2, <1>4, ListType
<1> HIDE DEF d
<1>6. IsInjective(s)
  BY <1>1, <1>4, <1>5 DEF IsInjective
<1>7. Range(s) \subseteq Range(d) /\ Range(s) \subseteq T
  BY <1>2, <1>4, <1>5 DEF Range
<1>8. ASSUME NEW t \in Range(d), x.wake[t] <= x.tick
      PROVE  t \in Range(s)
  <2>1. PICK i \in DOMAIN d : t = d[i]
    BY DEF Range
  <2>2. CASE i \in 1 .. n
    BY <1>4, <1>5, <2>1, <2>2 DEF Range
  <2>3. CASE i \notin 1 .. n
    <3>1. n < Len(d) /\ n + 1 \in DOMAIN d /\ (n + 1 < i \/ n + 1 = i)
      BY <1>1, <1>2, <2>1, <2>3
    <3>2. d[n + 1] \in TaskSet /\ ~(x.wake[d[n + 1]] <= x.tick)
      BY <1>1, <1>2, <3>1
    <3>3. n + 1 < i => x.wake[d[n + 1]] <= x.wake[d[i]]
      BY <2>1, <3>1 DEF WaitKept, Sorted, d
    <3>4. /\ x.wake[d[n + 1]] \in Nat /\ x.wake[d[i]] \in Nat /\ x.tick \in Nat
      BY <1>1, <2>1, <3>2, ForeverType
    <3> QED BY <1>8, <2>1, <3>1, <3>2, <3>3, <3>4
  <2> QED BY <2>2, <2>3
<1> QED BY <1>4, <1>6, <1>7, <1>8 DEF s, d

(* The tasks a tick makes ready.                                           *)
TickReadies(x) ==
  IF Counted(x).tick >= Counted(x).unblock THEN Range(Expired(Counted(x))) ELSE {}

(* A tick makes ready what it finds expired, and nothing else.             *)
LEMMA TickedKeeps ==
  ASSUME NEW x, StatesKept(x), EventsKept(x), x.pending = << >>
  PROVE  LET y == Ticked(x)
             T == TickReadies(x)
         IN  /\ StatesKept(y) /\ EventsKept(y)
             /\ T \subseteq WaitingIn(x)
             /\ WaitingIn(y) = WaitingIn(x) \ T /\ ReadyIn(y) = ReadyIn(x) \cup T
             /\ y.pended = x.pended /\ y.tick = (x.tick + 1) % TickMod
             /\ y.yield = x.yield /\ y.pending = << >>
             /\ Range(y.rx) \subseteq Range(x.rx) /\ Range(y.tx) \subseteq Range(x.tx)
<1> DEFINE z == Counted(x)
           s == Expired(z)
           v == Through(Expires, z, s)
           y == Ticked(x)
           T == TickReadies(x)
<1>1. /\ StatesKept(z) /\ EventsKept(z) /\ SameEvents(x, z)
      /\ WaitingIn(z) = WaitingIn(x) /\ ReadyIn(z) = ReadyIn(x)
      /\ z.tick = (x.tick + 1) % TickMod /\ z.pended = x.pended /\ z.yield = x.yield
  BY CountedKeeps
<1>2. y = IF z.tick >= z.unblock THEN WithUnblock(v) ELSE z
  BY DEF Ticked
<1>3. T = IF z.tick >= z.unblock THEN Range(s) ELSE {}
  BY DEF TickReadies
<1> HIDE DEF z, y, T
<1>4. CASE ~(z.tick >= z.unblock)
  BY <1>1, <1>2, <1>3, <1>4 DEF SameEvents, y, T
<1>5. CASE z.tick >= z.unblock
  <2>1. s \in Seq(TaskSet) /\ IsInjective(s) /\ Range(s) \subseteq WaitingIn(z)
    BY <1>1, ExpiredList DEF StatesKept, WaitingIn
  <2>2. Range(s) \cap Range(z.pending) = {}
    <3>1. z.pending = << >>
      BY <1>1 DEF SameEvents
    <3> QED BY <3>1 DEF Range
  <2> HIDE DEF s
  <2>3. AfterExpiry(z, v, Range(s))
    BY <1>1, <2>1, <2>2, AllExpire
  <2> HIDE DEF v
  <2>4. LET u == WithUnblock(v)
        IN  /\ StatesKept(u) /\ EventsKept(u) /\ SameLists(v, u) /\ SameClock(v, u)
            /\ WaitingIn(u) = WaitingIn(v) /\ ReadyIn(u) = ReadyIn(v)
            /\ u.yield = v.yield
    BY <2>3, UnblockKeeps DEF AfterExpiry
  <2> QED BY <1>1, <1>2, <1>3, <1>5, <2>1, <2>3, <2>4
          DEF AfterExpiry, SameLists, SameEvents, SameClock, y, T
<1> QED BY <1>4, <1>5

-----------------------------------------------------------------------------
(* GOING TO WAIT                                                           *)

(* The current task off its ready list.                                    *)
LEMMA OffReadyKeeps ==
  ASSUME NEW x \in KernelStates, ReadyKept(x), NEW t \in TaskSet, t \in ReadyIn(x)
  PROVE  LET y == OffReady(x, t)
         IN  /\ y \in KernelStates /\ ReadyKept(y) /\ ReadyIn(y) = ReadyIn(x) \ {t}
             /\ SameWaits(x, y) /\ SameEvents(x, y) /\ SameClock(x, y) /\ y.yield = x.yield
             /\ y.age = x.age /\ y.wrapped = x.wrapped
<1> DEFINE q == Prio[t]
           l == Removed(x.ready[q], t)
           top == IF Members(l) = {} THEN x.top \ {q} ELSE x.top
           y == OffReady(x, t)
<1>1. q \in Levels /\ t # End
  BY LevelOf
<1>2. /\ \A p \in Levels : x.ready[p] \in Seq(TaskSet \cup {End}) /\ IsInjective(x.ready[p])
      /\ t \in Members(x.ready[q]) /\ End \in Range(x.ready[q])
      /\ \A p \in Levels : p # q => t \notin Members(x.ready[p])
  BY <1>1 DEF KernelStates, ReadyKept, ReadyIn
<1>3. l \in Seq(TaskSet \cup {End}) /\ IsInjective(l) /\ Range(l) = Range(x.ready[q]) \ {t}
  BY <1>1, <1>2, RemovedList
<1> HIDE DEF l
<1>4. y = [x EXCEPT !.ready = [x.ready EXCEPT ![q] = l], !.top = top]
  BY DEF OffReady, l
<1>5. top \in SUBSET Levels
  BY DEF KernelStates
<1> HIDE DEF q, top
<1>6. /\ y.ready = [x.ready EXCEPT ![q] = l] /\ y.top = top
      /\ SameWaits(x, y) /\ SameEvents(x, y) /\ SameClock(x, y) /\ y.yield = x.yield
      /\ y.age = x.age /\ y.wrapped = x.wrapped
  BY <1>4 DEF KernelStates, SameWaits, SameEvents, SameClock
<1>7. y \in KernelStates
  <2>1. [x.ready EXCEPT ![q] = l] \in [Levels -> Seq(TaskSet \cup {End})]
    BY <1>1, <1>3 DEF KernelStates
  <2> QED BY <1>4, <1>5, <2>1 DEF KernelStates
<1> HIDE DEF y
<1>8. \A p \in Levels : y.ready[p] = IF p = q THEN l ELSE x.ready[p]
  BY <1>1, <1>6 DEF KernelStates
<1>9. Members(l) = Members(x.ready[q]) \ {t}
  BY <1>3 DEF Members
<1>10. ReadyIn(y) = ReadyIn(x) \ {t}
  BY <1>1, <1>2, <1>8, <1>9 DEF ReadyIn
<1>11. ReadyKept(y)
  <2>1. ASSUME NEW p \in Levels
        PROVE  /\ IsInjective(y.ready[p]) /\ End \in Range(y.ready[p])
               /\ \A u \in Members(y.ready[p]) : Prio[u] = p
    BY <1>1, <1>2, <1>3, <1>8, <1>9 DEF ReadyKept
  <2>2. y.top = {p \in Levels : Members(y.ready[p]) # {}}
    BY <1>1, <1>6, <1>8, <1>9 DEF ReadyKept, top
  <2> QED BY <2>1, <2>2 DEF ReadyKept
<1> QED BY <1>6, <1>7, <1>10, <1>11 DEF y

(* What becomes of a task that goes to wait.                               *)
AfterDelay(x, y, t) ==
  /\ StatesKept(y)
  /\ WaitingIn(y) = WaitingIn(x) \cup {t} /\ ReadyIn(y) = ReadyIn(x) \ {t}
  /\ SameEvents(x, y) /\ SameClock(x, y) /\ y.yield = x.yield
  /\ y.age = x.age /\ y.wrapped = x.wrapped
  /\ \A u \in TaskSet : u # t => y.wake[u] = x.wake[u]

(* A ready task goes to wait for a time, in the list its wake time belongs *)
(* to.                                                                     *)
LEMMA DelayedKeeps ==
  ASSUME NEW x, StatesKept(x), NEW t \in ReadyIn(x), NEW w \in 0 .. Forever,
         NEW b \in BOOLEAN
  PROVE  LET y == Delayed(x, t, w, b)
         IN  /\ AfterDelay(x, y, t)
             /\ IF w = Forever /\ b
                THEN y.delayed = x.delayed /\ y.overflow = x.overflow /\ y.wake = x.wake
                ELSE /\ y.wake[t] = (x.tick + w) % TickMod
                     /\ IF Overflows(x, w)
                        THEN y.delayed = x.delayed /\ Range(y.overflow) = Range(x.overflow) \cup {t}
                        ELSE Range(y.delayed) = Range(x.delayed) \cup {t} /\ y.overflow = x.overflow
<1> DEFINE z == OffReady(x, t)
           at == (x.tick + w) % TickMod
           wake == [z.wake EXCEPT ![t] = at]
           v == [z EXCEPT !.wake = wake]
           earlier == {u \in TaskSet : v.wake[u] <= v.wake[t]}
           y == Delayed(x, t, w, b)
<1>1. x \in KernelStates /\ ReadyKept(x) /\ WaitKept(x) /\ Divided(x) /\ t \in TaskSet
  BY DEF StatesKept, Divided
<1>2. /\ z \in KernelStates /\ ReadyKept(z) /\ ReadyIn(z) = ReadyIn(x) \ {t}
      /\ SameWaits(x, z) /\ SameEvents(x, z) /\ SameClock(x, z) /\ z.yield = x.yield
      /\ z.age = x.age /\ z.wrapped = x.wrapped
  BY <1>1, OffReadyKeeps
<1>3. at \in 0 .. Forever /\ 0 .. Forever \subseteq Nat
  <2>1. x.tick \in 0 .. Forever
    BY <1>1 DEF KernelStates
  <2> QED BY <2>1, ForeverType
<1>4. y = IF w = Forever /\ b THEN [z EXCEPT !.suspended = Append(z.suspended, t)]
          ELSE IF Overflows(x, w) THEN [v EXCEPT !.overflow = Inserted(v.overflow, t, earlier)]
          ELSE [v EXCEPT !.delayed = Inserted(v.delayed, t, earlier),
                         !.unblock = IF v.wake[t] < v.unblock THEN v.wake[t] ELSE v.unblock]
  BY DEF Delayed
<1>5. WaitKept(z) /\ WaitingIn(z) = WaitingIn(x)
  BY <1>1, <1>2 DEF WaitKept, WaitingIn, SameWaits, HeadWake
<1>6. t \notin WaitingIn(z)
  BY <1>1, <1>5 DEF Divided
<1> HIDE DEF z, at, y
<1>7. wake \in [TaskSet -> 0 .. Forever] /\ wake[t] = at /\ \A u \in TaskSet : u # t => wake[u] = z.wake[u]
  <2>1. z.wake \in [TaskSet -> 0 .. Forever]
    BY <1>2 DEF KernelStates
  <2> QED BY <1>1, <1>3, <2>1
<1> HIDE DEF wake
<1>8. /\ v.wake = wake /\ SameReady(z, v) /\ SameEvents(z, v) /\ SameClock(z, v) /\ v.yield = z.yield
      /\ v.age = z.age /\ v.wrapped = z.wrapped /\ v.delayed = z.delayed /\ v.overflow = z.overflow
      /\ v.suspended = z.suspended /\ v.unblock = z.unblock
  BY <1>2 DEF KernelStates, SameReady, SameEvents, SameClock
<1>9. v \in KernelStates
  BY <1>2, <1>7 DEF KernelStates
<1> HIDE DEF v
<1>10. WaitKept(v) /\ WaitingIn(v) = WaitingIn(x)
  <2>1. WaitingIn(v) = WaitingIn(x)
    BY <1>5, <1>8 DEF WaitingIn
  <2>2. /\ v.delayed \in Seq(TaskSet) /\ v.overflow \in Seq(TaskSet)
    BY <1>9 DEF KernelStates
  <2>3. /\ \A i \in DOMAIN v.delayed : v.delayed[i] \in TaskSet /\ v.delayed[i] # t
        /\ \A i \in DOMAIN v.overflow : v.overflow[i] \in TaskSet /\ v.overflow[i] # t
    BY <1>5, <1>6, <2>1, <2>2, ListType DEF WaitingIn, Range
  <2>4. Sorted(v.delayed, wake) /\ Sorted(v.overflow, wake)
    BY <1>5, <1>7, <1>8, <2>3 DEF WaitKept, Sorted
  <2>5. v.delayed # << >> => Head(v.delayed) \in TaskSet /\ Head(v.delayed) # t
    <3> SUFFICES ASSUME v.delayed # << >>
                 PROVE  Head(v.delayed) \in TaskSet /\ Head(v.delayed) # t
      OBVIOUS
    <3>1. IsInjective(v.delayed)
      BY <1>5, <1>8 DEF WaitKept
    <3>2. Head(v.delayed) \in TaskSet /\ Head(v.delayed) \in Range(v.delayed)
      BY <2>2, <3>1, HeadTailProperties, TailList
    <3> QED BY <1>5, <1>6, <2>1, <3>2 DEF WaitingIn
  <2>6. HeadWake(v) = HeadWake(z)
    BY <1>7, <1>8, <2>5 DEF HeadWake
  <2> QED BY <1>5, <1>8, <2>1, <2>4, <2>6 DEF WaitKept
<1> DEFINE Goal == /\ y \in KernelStates /\ WaitKept(y) /\ WaitingIn(y) = WaitingIn(x) \cup {t}
                   /\ SameReady(z, y) /\ SameEvents(z, y) /\ SameClock(z, y) /\ y.yield = z.yield
                   /\ y.age = z.age /\ y.wrapped = z.wrapped
                   /\ \A u \in TaskSet : u # t => y.wake[u] = x.wake[u]
                   /\ IF w = Forever /\ b
                      THEN y.delayed = x.delayed /\ y.overflow = x.overflow /\ y.wake = x.wake
                      ELSE /\ y.wake[t] = at
                           /\ IF Overflows(x, w)
                              THEN y.delayed = x.delayed /\ Range(y.overflow) = Range(x.overflow) \cup {t}
                              ELSE Range(y.delayed) = Range(x.delayed) \cup {t} /\ y.overflow = x.overflow
<1>11. ASSUME w = Forever /\ b
       PROVE  Goal
  <2> DEFINE p == Append(z.suspended, t)
  <2>1. z.suspended \in Seq(TaskSet) /\ IsInjective(z.suspended) /\ t \notin Range(z.suspended)
    BY <1>2, <1>5, <1>6 DEF KernelStates, WaitKept, WaitingIn
  <2>2. p \in Seq(TaskSet) /\ IsInjective(p) /\ Range(p) = Range(z.suspended) \cup {t}
    BY <1>1, <2>1, AppendedList
  <2> HIDE DEF p
  <2>3. y = [z EXCEPT !.suspended = p]
    BY <1>4, <1>11 DEF p
  <2>4. /\ y.suspended = p /\ y.delayed = z.delayed /\ y.overflow = z.overflow /\ y.wake = z.wake
        /\ y.unblock = z.unblock /\ SameReady(z, y) /\ SameEvents(z, y) /\ SameClock(z, y)
        /\ y.yield = z.yield /\ y.age = z.age /\ y.wrapped = z.wrapped
    BY <1>2, <2>3 DEF KernelStates, SameReady, SameEvents, SameClock
  <2>5. y \in KernelStates
    BY <1>2, <2>2, <2>3 DEF KernelStates
  <2>6. WaitingIn(y) = WaitingIn(x) \cup {t}
    BY <1>5, <2>2, <2>4 DEF WaitingIn
  <2>7. t \notin Range(y.delayed) /\ t \notin Range(y.overflow)
    BY <1>5, <1>6, <2>4 DEF WaitingIn
  <2>8. WaitKept(y)
    BY <1>5, <2>2, <2>4, <2>7 DEF WaitKept, HeadWake
  <2> QED BY <1>2, <1>11, <2>4, <2>5, <2>6, <2>8 DEF SameWaits
<1>12. ASSUME ~(w = Forever /\ b), Overflows(x, w)
       PROVE  Goal
  <2> DEFINE p == Inserted(v.overflow, t, earlier)
  <2>1. v.overflow \in Seq(TaskSet) /\ IsInjective(v.overflow) /\ t \notin Range(v.overflow)
    BY <1>5, <1>6, <1>8, <1>9 DEF KernelStates, WaitKept, WaitingIn
  <2>2. wake \in [TaskSet -> Nat] /\ Sorted(v.overflow, wake)
    BY <1>3, <1>7, <1>8, <1>10 DEF WaitKept
  <2>3. \A u \in TaskSet : u \in earlier <=> wake[u] <= wake[t]
    BY <1>8
  <2> HIDE DEF earlier
  <2>4. p \in Seq(TaskSet) /\ IsInjective(p) /\ Range(p) = Range(v.overflow) \cup {t} /\ Sorted(p, wake)
    BY <1>1, <2>1, <2>2, <2>3, InsertedList
  <2> HIDE DEF p
  <2>5. y = [v EXCEPT !.overflow = p]
    BY <1>4, <1>12 DEF p
  <2>6. /\ y.overflow = p /\ y.delayed = v.delayed /\ y.suspended = v.suspended /\ y.wake = v.wake
        /\ y.unblock = v.unblock /\ SameReady(v, y) /\ SameEvents(v, y) /\ SameClock(v, y)
        /\ y.yield = v.yield /\ y.age = v.age /\ y.wrapped = v.wrapped
    BY <1>9, <2>5 DEF KernelStates, SameReady, SameEvents, SameClock
  <2>7. y \in KernelStates
    BY <1>9, <2>4, <2>5 DEF KernelStates
  <2>8. WaitingIn(y) = WaitingIn(x) \cup {t}
    BY <1>10, <2>4, <2>6 DEF WaitingIn
  <2>9. t \notin Range(v.delayed) /\ t \notin Range(v.suspended)
    BY <1>5, <1>6, <1>8 DEF WaitingIn
  <2>10. WaitKept(y)
    BY <1>8, <1>10, <2>4, <2>6, <2>9 DEF WaitKept, HeadWake
  <2> QED BY <1>2, <1>7, <1>8, <1>12, <2>4, <2>6, <2>7, <2>8, <2>10
          DEF SameWaits, SameReady, SameEvents, SameClock
<1>13. ASSUME ~(w = Forever /\ b), ~Overflows(x, w)
       PROVE  Goal
  <2> DEFINE p == Inserted(v.delayed, t, earlier)
             h == IF v.wake[t] < v.unblock THEN v.wake[t] ELSE v.unblock
  <2>1. v.delayed \in Seq(TaskSet) /\ IsInjective(v.delayed) /\ t \notin Range(v.delayed)
    BY <1>5, <1>6, <1>8, <1>9 DEF KernelStates, WaitKept, WaitingIn
  <2>2. wake \in [TaskSet -> Nat] /\ Sorted(v.delayed, wake)
    BY <1>3, <1>7, <1>8, <1>10 DEF WaitKept
  <2>3. \A u \in TaskSet : u \in earlier <=> wake[u] <= wake[t]
    BY <1>8
  <2> HIDE DEF earlier
  <2>4. /\ p \in Seq(TaskSet) /\ IsInjective(p) /\ Range(p) = Range(v.delayed) \cup {t} /\ Sorted(p, wake)
        /\ p # << >> /\ (Head(p) = t \/ (v.delayed # << >> /\ Head(p) = Head(v.delayed)))
    BY <1>1, <2>1, <2>2, <2>3, InsertedList
  <2>5. h \in 0 .. Forever /\ h <= wake[t] /\ h <= v.unblock /\ v.unblock \in 0 .. Forever
    <3>1. v.unblock \in 0 .. Forever /\ v.wake[t] \in 0 .. Forever /\ v.wake[t] = wake[t]
      BY <1>3, <1>7, <1>8, <1>9 DEF KernelStates
    <3> QED BY <3>1, ForeverType
  <2> HIDE DEF p, h
  <2>6. y = [v EXCEPT !.delayed = p, !.unblock = h]
    BY <1>4, <1>13 DEF p, h
  <2>7. /\ y.delayed = p /\ y.overflow = v.overflow /\ y.suspended = v.suspended /\ y.wake = v.wake
        /\ y.unblock = h /\ SameReady(v, y) /\ SameEvents(v, y) /\ SameClock(v, y)
        /\ y.yield = v.yield /\ y.age = v.age /\ y.wrapped = v.wrapped
    BY <1>9, <2>6 DEF KernelStates, SameReady, SameEvents, SameClock
  <2>8. y \in KernelStates
    BY <1>9, <2>4, <2>5, <2>6 DEF KernelStates
  <2>9. WaitingIn(y) = WaitingIn(x) \cup {t}
    BY <1>10, <2>4, <2>7 DEF WaitingIn
  <2>10. t \notin Range(v.overflow) /\ t \notin Range(v.suspended)
    BY <1>5, <1>6, <1>8 DEF WaitingIn
  <2>11. h <= HeadWake(y)
    <3>1. HeadWake(y) = wake[Head(p)]
      BY <1>8, <2>4, <2>7 DEF HeadWake
    <3>2. CASE Head(p) = t
      BY <2>5, <3>1, <3>2
    <3>3. CASE v.delayed # << >> /\ Head(p) = Head(v.delayed)
      <4>1. HeadWake(v) = wake[Head(p)]
        BY <1>8, <3>3 DEF HeadWake
      <4>2. v.unblock <= HeadWake(v) /\ HeadWake(v) \in 0 .. Forever
        BY <1>9, <1>10, HeadWakeType DEF WaitKept
      <4> QED BY <2>5, <3>1, <4>1, <4>2, ForeverType
    <3> QED BY <2>4, <3>2, <3>3
  <2>12. WaitKept(y)
    BY <1>8, <1>10, <2>4, <2>7, <2>10, <2>11 DEF WaitKept
  <2> QED BY <1>2, <1>7, <1>8, <1>13, <2>4, <2>7, <2>8, <2>9, <2>12
          DEF SameWaits, SameReady, SameEvents, SameClock
<1>14. Goal
  BY <1>11, <1>12, <1>13
<1> HIDE DEF v
<1>15. ReadyKept(y) /\ ReadyIn(y) = ReadyIn(x) \ {t}
  BY <1>2, <1>14 DEF ReadyKept, ReadyIn, SameReady
<1>16. Divided(y)
  BY <1>1, <1>14, <1>15 DEF Divided
<1>17. AfterDelay(x, y, t)
  BY <1>2, <1>14, <1>15, <1>16 DEF AfterDelay, StatesKept, SameEvents, SameClock
<1> QED BY <1>14, <1>17 DEF y, at

Listed(x, list, l) == [x EXCEPT ![list] = l]

(* Replacing an event list touches no state list.                          *)
LEMMA ListedKeeps ==
  ASSUME NEW x, StatesKept(x), NEW list \in {"rx", "tx"}, NEW l \in Seq(TaskSet)
  PROVE  LET y == Listed(x, list, l)
         IN  /\ StatesKept(y) /\ WaitingIn(y) = WaitingIn(x) /\ ReadyIn(y) = ReadyIn(x)
             /\ SameReady(x, y) /\ SameWaits(x, y) /\ SameClock(x, y)
             /\ y.pending = x.pending /\ y.yield = x.yield
             /\ y.age = x.age /\ y.wrapped = x.wrapped
             /\ IF list = "rx" THEN y.rx = l /\ y.tx = x.tx ELSE y.tx = l /\ y.rx = x.rx
<1> DEFINE y == Listed(x, list, l)
<1>1. x \in KernelStates
  BY DEF StatesKept
<1>2. CASE list = "rx"
  <2>1. y = [x EXCEPT !.rx = l]
    BY <1>2 DEF Listed
  <2>2. /\ SameReady(x, y) /\ SameWaits(x, y) /\ SameClock(x, y)
        /\ y.pending = x.pending /\ y.yield = x.yield
        /\ y.age = x.age /\ y.wrapped = x.wrapped /\ y.rx = l /\ y.tx = x.tx
    BY <1>1, <2>1 DEF KernelStates, SameReady, SameWaits, SameClock
  <2>3. y \in KernelStates
    BY <1>1, <2>1 DEF KernelStates
  <2> HIDE DEF y
  <2> QED BY <1>2, <2>2, <2>3, StatesMove DEF y
<1>3. CASE list = "tx"
  <2>1. y = [x EXCEPT !.tx = l]
    BY <1>3 DEF Listed
  <2>2. /\ SameReady(x, y) /\ SameWaits(x, y) /\ SameClock(x, y)
        /\ y.pending = x.pending /\ y.yield = x.yield
        /\ y.age = x.age /\ y.wrapped = x.wrapped /\ y.tx = l /\ y.rx = x.rx
    BY <1>1, <2>1 DEF KernelStates, SameReady, SameWaits, SameClock
  <2>3. y \in KernelStates
    BY <1>1, <2>1 DEF KernelStates
  <2> HIDE DEF y
  <2> QED BY <1>3, <2>2, <2>3, StatesMove DEF y
<1> QED BY <1>2, <1>3

(* A ready task goes to wait for an event, and to wait for a time.         *)
LEMMA PlacedKeeps ==
  ASSUME NEW x, StatesKept(x), EventsKept(x), NEW t \in ReadyIn(x), NEW w \in 0 .. Forever,
         NEW list \in {"rx", "tx"}
  PROVE  LET y == Placed(x, list, t, w)
         IN  /\ StatesKept(y) /\ EventsKept(y)
             /\ WaitingIn(y) = WaitingIn(x) \cup {t} /\ ReadyIn(y) = ReadyIn(x) \ {t}
             /\ SameClock(x, y) /\ y.yield = x.yield /\ y.pending = x.pending
             /\ y.age = x.age /\ y.wrapped = x.wrapped
             /\ \A u \in TaskSet : u # t => y.wake[u] = x.wake[u]
             /\ IF list = "rx" THEN Range(y.rx) = Range(x.rx) \cup {t} /\ y.tx = x.tx
                               ELSE Range(y.tx) = Range(x.tx) \cup {t} /\ y.rx = x.rx
             /\ IF w = Forever
                THEN y.delayed = x.delayed /\ y.overflow = x.overflow /\ y.wake = x.wake
                ELSE /\ y.wake[t] = (x.tick + w) % TickMod
                     /\ IF Overflows(x, w)
                        THEN y.delayed = x.delayed /\ Range(y.overflow) = Range(x.overflow) \cup {t}
                        ELSE Range(y.delayed) = Range(x.delayed) \cup {t} /\ y.overflow = x.overflow
<1> DEFINE ahead == {u \in TaskSet : Prio[u] >= Prio[t]}
           l == Inserted(x[list], t, ahead)
           z == Listed(x, list, l)
           y == Placed(x, list, t, w)
<1>1. x \in KernelStates /\ t \in TaskSet /\ t \notin WaitingIn(x)
  BY DEF StatesKept, Divided
<1>2. x[list] \in Seq(TaskSet) /\ IsInjective(x[list]) /\ t \notin Range(x[list])
  <2>1. CASE list = "rx"
    BY <1>1, <2>1 DEF KernelStates, EventsKept
  <2>2. CASE list = "tx"
    BY <1>1, <2>2 DEF KernelStates, EventsKept
  <2> QED BY <2>1, <2>2
<1> HIDE DEF ahead
<1>3. l \in Seq(TaskSet) /\ IsInjective(l) /\ Range(l) = Range(x[list]) \cup {t}
  <2> DEFINE m == x[list]
  <2>1. m \in Seq(TaskSet) /\ IsInjective(m) /\ t \notin Range(m)
    BY <1>2
  <2> HIDE DEF m
  <2>2. Inserted(m, t, ahead) \in Seq(TaskSet) /\ IsInjective(Inserted(m, t, ahead))
        /\ Range(Inserted(m, t, ahead)) = Range(m) \cup {t}
    BY <1>1, <2>1, InsertedList
  <2> QED BY <2>2 DEF m
<1>4. y = Delayed(z, t, w, TRUE)
  BY DEF Placed, Listed, ahead
<1> HIDE DEF l
<1>5. /\ StatesKept(z) /\ WaitingIn(z) = WaitingIn(x) /\ ReadyIn(z) = ReadyIn(x)
      /\ SameReady(x, z) /\ SameWaits(x, z) /\ SameClock(x, z)
      /\ z.pending = x.pending /\ z.yield = x.yield
      /\ z.age = x.age /\ z.wrapped = x.wrapped
      /\ IF list = "rx" THEN z.rx = l /\ z.tx = x.tx ELSE z.tx = l /\ z.rx = x.rx
  BY <1>3, ListedKeeps
<1> HIDE DEF z, y
<1>6. /\ AfterDelay(z, y, t)
      /\ IF w = Forever
         THEN y.delayed = z.delayed /\ y.overflow = z.overflow /\ y.wake = z.wake
         ELSE /\ y.wake[t] = (z.tick + w) % TickMod
              /\ IF Overflows(z, w)
                 THEN y.delayed = z.delayed /\ Range(y.overflow) = Range(z.overflow) \cup {t}
                 ELSE Range(y.delayed) = Range(z.delayed) \cup {t} /\ y.overflow = z.overflow
  <2>1. PICK b \in BOOLEAN : b = TRUE
    OBVIOUS
  <2>2. y = Delayed(z, t, w, b) /\ t \in ReadyIn(z) /\ b
    BY <1>4, <1>5, <2>1
  <2>3. /\ AfterDelay(z, Delayed(z, t, w, b), t)
        /\ IF w = Forever /\ b
           THEN Delayed(z, t, w, b).delayed = z.delayed /\ Delayed(z, t, w, b).overflow = z.overflow
                /\ Delayed(z, t, w, b).wake = z.wake
           ELSE /\ Delayed(z, t, w, b).wake[t] = (z.tick + w) % TickMod
                /\ IF Overflows(z, w)
                   THEN /\ Delayed(z, t, w, b).delayed = z.delayed
                        /\ Range(Delayed(z, t, w, b).overflow) = Range(z.overflow) \cup {t}
                   ELSE /\ Range(Delayed(z, t, w, b).delayed) = Range(z.delayed) \cup {t}
                        /\ Delayed(z, t, w, b).overflow = z.overflow
    BY <1>5, <2>2, DelayedKeeps
  <2> QED BY <2>2, <2>3
<1>7. EventsKept(y)
  <2>1. CASE list = "rx"
    <3>1. y.rx = l /\ y.tx = x.tx /\ y.pending = x.pending /\ Range(l) = Range(x.rx) \cup {t}
      BY <1>3, <1>5, <1>6, <2>1 DEF AfterDelay, SameEvents
    <3> QED BY <1>1, <1>3, <1>5, <1>6, <3>1 DEF EventsKept, AfterDelay
  <2>2. CASE list = "tx"
    <3>1. y.tx = l /\ y.rx = x.rx /\ y.pending = x.pending /\ Range(l) = Range(x.tx) \cup {t}
      BY <1>3, <1>5, <1>6, <2>2 DEF AfterDelay, SameEvents
    <3> QED BY <1>1, <1>3, <1>5, <1>6, <3>1 DEF EventsKept, AfterDelay
  <2> QED BY <2>1, <2>2
<1>8. IF list = "rx" THEN Range(y.rx) = Range(x.rx) \cup {t} /\ y.tx = x.tx
                     ELSE Range(y.tx) = Range(x.tx) \cup {t} /\ y.rx = x.rx
  <2>1. CASE list = "rx"
    BY <1>3, <1>5, <1>6, <2>1 DEF AfterDelay, SameEvents
  <2>2. CASE list = "tx"
    BY <1>3, <1>5, <1>6, <2>2 DEF AfterDelay, SameEvents
  <2> QED BY <2>1, <2>2
<1> QED BY <1>5, <1>6, <1>7, <1>8 DEF AfterDelay, SameEvents, SameWaits, SameClock, Overflows, y

(* The next task is a ready one, and no ready one is more urgent.          *)
LEMMA SwitchedKeeps ==
  ASSUME NEW x, StatesKept(x), EventsKept(x), ReadyIn(x) # {}
  PROVE  LET y == Switched(x)
             t == Last(NextReady(x))
         IN  /\ StatesKept(y) /\ EventsKept(y)
             /\ WaitingIn(y) = WaitingIn(x) /\ ReadyIn(y) = ReadyIn(x)
             /\ SameWaits(x, y) /\ SameEvents(x, y) /\ SameClock(x, y)
             /\ y.age = x.age /\ y.wrapped = x.wrapped
             /\ t \in ReadyIn(x) /\ \A u \in ReadyIn(x) : Prio[u] <= Prio[t]
<1> DEFINE q == Top(x.top)
           l == NextReady(x)
           t == Last(l)
           y == Switched(x)
<1>1. x \in KernelStates /\ ReadyKept(x) /\ WaitKept(x) /\ Divided(x)
  BY DEF StatesKept
<1>2. x.top \in SUBSET Levels /\ x.top # {} /\ \A u \in ReadyIn(x) : Prio[u] \in x.top
  <2>1. x.top \in SUBSET Levels
    BY <1>1 DEF KernelStates
  <2>2. ASSUME NEW u \in ReadyIn(x) PROVE Prio[u] \in x.top
    <3>1. PICK p \in Levels : u \in Members(x.ready[p])
      BY <2>2 DEF ReadyIn
    <3>2. Prio[u] = p /\ Members(x.ready[p]) # {}
      BY <1>1, <3>1 DEF ReadyKept
    <3> QED BY <1>1, <3>2 DEF ReadyKept
  <2> QED BY <2>1, <2>2
<1>3. q \in x.top /\ \A r \in x.top : r <= q
  BY <1>2, TopLevel
<1>4. l = NextEntry(x.ready[q])
  BY DEF NextReady
<1> HIDE DEF q
<1>5. q \in Levels /\ Members(x.ready[q]) # {} /\ x.ready[q] \in Seq(TaskSet \cup {End})
      /\ IsInjective(x.ready[q])
  BY <1>1, <1>2, <1>3 DEF ReadyKept, KernelStates
<1>6. /\ l \in Seq(TaskSet \cup {End}) /\ IsInjective(l) /\ Range(l) = Range(x.ready[q])
      /\ t \in Members(x.ready[q])
  BY <1>4, <1>5, NextEntryList
<1>7. y = [x EXCEPT !.yield = FALSE, !.ready = [x.ready EXCEPT ![q] = l]]
  BY DEF Switched, q
<1> HIDE DEF l, t
<1>8. /\ y.ready = [x.ready EXCEPT ![q] = l] /\ y.top = x.top
      /\ SameWaits(x, y) /\ SameEvents(x, y) /\ SameClock(x, y)
      /\ y.age = x.age /\ y.wrapped = x.wrapped
  BY <1>1, <1>7 DEF KernelStates, SameWaits, SameEvents, SameClock
<1>9. y \in KernelStates
  <2>1. [x.ready EXCEPT ![q] = l] \in [Levels -> Seq(TaskSet \cup {End})]
    BY <1>1, <1>5, <1>6 DEF KernelStates
  <2> QED BY <1>1, <1>7, <2>1 DEF KernelStates
<1> HIDE DEF y
<1>10. \A p \in Levels : y.ready[p] = IF p = q THEN l ELSE x.ready[p]
  BY <1>1, <1>5, <1>8 DEF KernelStates
<1>11. Members(l) = Members(x.ready[q])
  BY <1>6 DEF Members
<1>12. ReadyIn(y) = ReadyIn(x)
  BY <1>10, <1>11 DEF ReadyIn
<1>13. ReadyKept(y)
  <2>1. ASSUME NEW p \in Levels
        PROVE  /\ IsInjective(y.ready[p]) /\ End \in Range(y.ready[p])
               /\ \A u \in Members(y.ready[p]) : Prio[u] = p
    BY <1>1, <1>6, <1>10, <1>11 DEF ReadyKept
  <2>2. y.top = {p \in Levels : Members(y.ready[p]) # {}}
    BY <1>1, <1>8, <1>10, <1>11 DEF ReadyKept
  <2> QED BY <2>1, <2>2 DEF ReadyKept
<1>14. WaitKept(y) /\ WaitingIn(y) = WaitingIn(x)
  BY <1>1, <1>8 DEF WaitKept, WaitingIn, SameWaits, HeadWake
<1>15. Divided(y) /\ EventsKept(y)
  BY <1>1, <1>8, <1>12, <1>14, EventsMove DEF Divided
<1>16. t \in ReadyIn(x) /\ Prio[t] = q
  BY <1>1, <1>5, <1>6 DEF ReadyIn, ReadyKept
<1>17. \A u \in ReadyIn(x) : Prio[u] <= Prio[t]
  BY <1>2, <1>3, <1>16
<1> QED BY <1>8, <1>9, <1>12, <1>13, <1>14, <1>15, <1>16, <1>17 DEF StatesKept, y, t, l

-----------------------------------------------------------------------------
(* FROM ONE ENTRY TO THE NEXT                                              *)

(* The results for the first entries, one by one.                          *)
LEMMA PartialSteps ==
  ASSUME NEW kind, NEW x, NEW s, NEW m \in Nat, NEW g, Partial(kind, x, s, m, g)
  PROVE  g[0] = x /\ \A n \in 1 .. m : g[n] = Applied(kind, g[n - 1], s[n])
<1>1. \A n \in 0 .. m : g[n] = IF n = 0 THEN x ELSE Applied(kind, g[n - 1], s[n])
  BY DEF Partial
<1>2. 0 \in 0 .. m /\ \A n \in 1 .. m : n \in 0 .. m /\ n # 0
  OBVIOUS
<1> QED BY <1>1, <1>2

(* What has become of x when the pending tasks of T are ready.             *)
AfterPending(x, y, T) ==
  /\ StatesKept(y)
  /\ WaitingIn(y) = WaitingIn(x) \ T /\ ReadyIn(y) = ReadyIn(x) \cup T
  /\ SameClock(x, y) /\ y.rx = x.rx /\ y.tx = x.tx
  /\ y.age = x.age /\ y.wrapped = x.wrapped /\ y.unblock = x.unblock
  /\ y.yield <=> x.yield \/ \E t \in T : Prio[t] > Prio[cur]
  /\ \A u \in TaskSet \ T : y.wake[u] = x.wake[u]
  /\ Range(y.delayed) = Range(x.delayed) \ T
  /\ Range(y.overflow) = Range(x.overflow) \ T

(* One more of the pending tasks,                                          *)
LEMMA OneMorePending ==
  ASSUME NEW x, NEW y, NEW T, AfterPending(x, y, T), NEW t \in WaitingIn(x), t \notin T
  PROVE  AfterPending(x, PendingReady(y, t), T \cup {t})
<1> DEFINE z == Readied(y, t)
           b == z.yield \/ Prio[t] > Prio[cur]
           v == PendingReady(y, t)
<1>1. StatesKept(y) /\ t \in WaitingIn(y)
  BY DEF AfterPending
<1>2. /\ StatesKept(z)
      /\ WaitingIn(z) = WaitingIn(y) \ {t} /\ ReadyIn(z) = ReadyIn(y) \cup {t}
      /\ SameEvents(y, z) /\ SameClock(y, z) /\ z.yield = y.yield
      /\ z.age = y.age /\ z.wrapped = y.wrapped /\ z.unblock = y.unblock
      /\ \A u \in TaskSet : u # t => z.wake[u] = y.wake[u]
      /\ Range(z.delayed) = Range(y.delayed) \ {t}
      /\ Range(z.overflow) = Range(y.overflow) \ {t}
  BY <1>1, ReadiedKeeps
<1>3. v = [z EXCEPT !.yield = b]
  BY DEF PendingReady, Readied
<1> HIDE DEF z, v
<1>4. z \in KernelStates /\ b \in BOOLEAN
  BY <1>2 DEF StatesKept, KernelStates
<1> HIDE DEF b
<1>5. /\ SameReady(z, v) /\ SameWaits(z, v) /\ SameEvents(z, v) /\ SameClock(z, v)
      /\ v.age = z.age /\ v.wrapped = z.wrapped /\ v.yield = b
  BY <1>3, <1>4 DEF KernelStates, SameReady, SameWaits, SameEvents, SameClock
<1>6. v \in KernelStates
  BY <1>3, <1>4 DEF KernelStates
<1>7. StatesKept(v) /\ WaitingIn(v) = WaitingIn(z) /\ ReadyIn(v) = ReadyIn(z)
  BY <1>2, <1>5, <1>6, StatesMove
<1>8. v.yield <=> x.yield \/ \E u \in T \cup {t} : Prio[u] > Prio[cur]
  BY <1>2, <1>5 DEF AfterPending, b
<1> QED BY <1>2, <1>5, <1>7, <1>8 DEF AfterPending, SameEvents, SameWaits, SameClock, v

(* ... and all of them.                                                    *)
LEMMA AllPending ==
  ASSUME NEW x, StatesKept(x), NEW s \in Seq(TaskSet), IsInjective(s), Range(s) \subseteq WaitingIn(x)
  PROVE  AfterPending(x, Through(PendingReady, x, s), Range(s))
<1>1. Len(s) \in Nat
  BY ListType
<1>2. PICK g : Partial("pending", x, s, Len(s), g) /\ Through(PendingReady, x, s) = g[Len(s)]
  BY <1>1, ThroughPending
<1>3. g[0] = x /\ \A n \in 1 .. Len(s) : g[n] = PendingReady(g[n - 1], s[n])
  BY <1>1, <1>2, PartialSteps DEF Applied
<1> DEFINE bad == {n \in 0 .. Len(s) : ~AfterPending(x, g[n], FirstOf(s, n))}
<1>4. bad = {}
  <2> SUFFICES ASSUME bad # {} PROVE FALSE
    OBVIOUS
  <2>1. PICK n \in bad : \A m \in bad : n <= m
    <3>1. bad \in SUBSET Nat
      BY <1>1
    <3> HIDE DEF bad
    <3> QED BY <3>1, LeastNumber
  <2>2. n \in 0 .. Len(s) /\ ~AfterPending(x, g[n], FirstOf(s, n))
    BY <2>1
  <2>3. CASE n = 0
    <3>1. AfterPending(x, x, {})
      BY DEF AfterPending, SameClock
    <3> QED BY <1>3, <2>2, <2>3, <3>1, FirstOnes
  <2>4. CASE n # 0
    <3>1. n \in 1 .. Len(s) /\ ~(n <= n - 1)
      BY <1>1, <2>2, <2>4
    <3>2. /\ n - 1 \in 0 .. Len(s) /\ s[n] \in Range(s)
          /\ FirstOf(s, n) = FirstOf(s, n - 1) \cup {s[n]} /\ s[n] \notin FirstOf(s, n - 1)
      BY <3>1, FirstOnes
    <3>3. AfterPending(x, g[n - 1], FirstOf(s, n - 1))
      BY <2>1, <3>1, <3>2
    <3>4. AfterPending(x, PendingReady(g[n - 1], s[n]), FirstOf(s, n - 1) \cup {s[n]})
      BY <3>2, <3>3, OneMorePending
    <3> QED BY <1>3, <2>2, <3>1, <3>2, <3>4
  <2> QED BY <2>3, <2>4
<1>5. AfterPending(x, g[Len(s)], FirstOf(s, Len(s)))
  <2>1. Len(s) \in 0 .. Len(s)
    BY <1>1
  <2> QED BY <1>4, <2>1
<1> QED BY <1>2, <1>5, FirstOnes

(* What late ticks do: whatever they make ready that is more urgent than   *)
(* the current task, they ask for a yield.                                 *)
AfterTicks(x, y) ==
  /\ StatesKept(y) /\ EventsKept(y) /\ y.pending = << >> /\ y.pended = x.pended
  /\ ReadyIn(x) \subseteq ReadyIn(y) /\ (x.yield => y.yield)
  /\ Range(y.rx) \subseteq Range(x.rx) /\ Range(y.tx) \subseteq Range(x.tx)
  /\ y.yield \/ \A u \in ReadyIn(y) \ ReadyIn(x) : Prio[u] <= Prio[cur]

(* One more late tick,                                                     *)
LEMMA OneMoreTick ==
  ASSUME NEW x, NEW y, AfterTicks(x, y), NEW n, cur \in TaskSet
  PROVE  AfterTicks(x, TickLate(y, n))
<1> DEFINE z == Ticked(y)
           T == TickReadies(y)
           b == z.yield \/ TickSwitches(y)
           v == TickLate(y, n)
<1>1. StatesKept(y) /\ EventsKept(y) /\ y.pending = << >>
  BY DEF AfterTicks
<1>2. /\ StatesKept(z) /\ EventsKept(z) /\ T \subseteq WaitingIn(y)
      /\ WaitingIn(z) = WaitingIn(y) \ T /\ ReadyIn(z) = ReadyIn(y) \cup T
      /\ z.pended = y.pended /\ z.yield = y.yield /\ z.pending = << >>
      /\ Range(z.rx) \subseteq Range(y.rx) /\ Range(z.tx) \subseteq Range(y.tx)
  BY <1>1, TickedKeeps
<1>3. v = [z EXCEPT !.yield = b]
  BY DEF TickLate
<1>4. z \in KernelStates /\ b \in BOOLEAN
  BY <1>2 DEF StatesKept, KernelStates
<1>5. (\E t \in T : Prio[t] > Prio[cur]) => b
  BY DEF TickSwitches, TickReadies
<1> HIDE DEF z, v, b, T
<1>6. /\ SameReady(z, v) /\ SameWaits(z, v) /\ SameEvents(z, v)
      /\ v.pended = z.pended /\ v.yield = b
  BY <1>3, <1>4 DEF KernelStates, SameReady, SameWaits, SameEvents
<1>7. v \in KernelStates
  BY <1>3, <1>4 DEF KernelStates
<1>8. StatesKept(v) /\ WaitingIn(v) = WaitingIn(z) /\ ReadyIn(v) = ReadyIn(z)
  BY <1>2, <1>6, <1>7, StatesMove
<1>9. EventsKept(v)
  BY <1>2, <1>6, <1>8, EventsMove
<1>10. y.yield => b
  BY <1>2 DEF b
<1>11. b \/ \A u \in ReadyIn(v) \ ReadyIn(x) : Prio[u] <= Prio[cur]
  <2>1. \A u \in TaskSet : Prio[u] \in Nat
    BY LevelOf
  <2>2. \A u \in T : u \in TaskSet
    BY <1>1, <1>2 DEF StatesKept, Divided
  <2>3. ~b => \A u \in T : Prio[u] <= Prio[cur]
    BY <1>5, <2>1, <2>2
  <2> QED BY <1>2, <1>8, <1>10, <2>3 DEF AfterTicks
<1> QED BY <1>2, <1>6, <1>8, <1>9, <1>10, <1>11 DEF AfterTicks, SameEvents, v

Count(n) == [i \in 1 .. n |-> i]

(* ... and all of them.                                                    *)
LEMMA AllTicks ==
  ASSUME NEW x, StatesKept(x), EventsKept(x), x.pending = << >>, cur \in TaskSet, NEW m \in Nat
  PROVE  AfterTicks(x, Through(TickLate, x, Count(m)))
<1> DEFINE s == Count(m)
<1>1. Len(s) = m
  BY DEF Count
<1> HIDE DEF s
<1>2. PICK g : Partial("late", x, s, Len(s), g) /\ Through(TickLate, x, s) = g[Len(s)]
  BY <1>1, ThroughTicks
<1>3. g[0] = x /\ \A n \in 1 .. m : g[n] = TickLate(g[n - 1], s[n])
  BY <1>1, <1>2, PartialSteps DEF Applied
<1> DEFINE bad == {n \in 0 .. m : ~AfterTicks(x, g[n])}
<1>4. bad = {}
  <2> SUFFICES ASSUME bad # {} PROVE FALSE
    OBVIOUS
  <2>1. PICK n \in bad : \A j \in bad : n <= j
    <3>1. bad \in SUBSET Nat
      OBVIOUS
    <3> HIDE DEF bad
    <3> QED BY <3>1, LeastNumber
  <2>2. n \in 0 .. m /\ ~AfterTicks(x, g[n])
    BY <2>1
  <2>3. CASE n = 0
    <3>1. AfterTicks(x, x)
      BY DEF AfterTicks
    <3> QED BY <1>3, <2>2, <2>3, <3>1
  <2>4. CASE n # 0
    <3>1. n \in 1 .. m /\ n - 1 \in 0 .. m /\ ~(n <= n - 1)
      BY <2>2, <2>4
    <3>2. AfterTicks(x, g[n - 1])
      BY <2>1, <3>1
    <3>3. AfterTicks(x, TickLate(g[n - 1], s[n]))
      BY <3>2, OneMoreTick
    <3> QED BY <1>3, <2>2, <3>1, <3>3
  <2> QED BY <2>3, <2>4
<1>5. AfterTicks(x, g[m])
  BY <1>4
<1> QED BY <1>1, <1>2, <1>5 DEF s

(* What xTaskResumeAll has made of x when no task is pending any more.     *)
Recovered(x) ==
  LET y == [Through(PendingReady, x, x.pending) EXCEPT !.pending = << >>]
  IN  IF x.pending = << >> THEN y ELSE WithUnblock(y)

(* What is pending becomes ready before the late ticks are counted.        *)
LEMMA RecoveredKeeps ==
  ASSUME NEW x, StatesKept(x), EventsKept(x)
  PROVE  LET y == Recovered(x)
         IN  /\ StatesKept(y) /\ EventsKept(y) /\ y.pending = << >>
             /\ WaitingIn(y) = WaitingIn(x) \ Range(x.pending)
             /\ ReadyIn(y) = ReadyIn(x) \cup Range(x.pending)
             /\ y.yield <=> x.yield \/ \E t \in Range(x.pending) : Prio[t] > Prio[cur]
             /\ y.rx = x.rx /\ y.tx = x.tx /\ SameClock(x, y)
             /\ y.age = x.age /\ y.wrapped = x.wrapped
             /\ \A u \in TaskSet \ Range(x.pending) : y.wake[u] = x.wake[u]
             /\ Range(y.delayed) = Range(x.delayed) \ Range(x.pending)
             /\ Range(y.overflow) = Range(x.overflow) \ Range(x.pending)
<1> DEFINE s == x.pending
           T == Range(s)
           v == Through(PendingReady, x, s)
           y == [v EXCEPT !.pending = << >>]
           z == Recovered(x)
<1>0. z = IF s = << >> THEN y ELSE WithUnblock(y)
  BY DEF Recovered
<1>1. s \in Seq(TaskSet) /\ IsInjective(s) /\ Range(s) \subseteq WaitingIn(x)
  BY DEF StatesKept, KernelStates, EventsKept
<1> HIDE DEF z
<1>2. AfterPending(x, v, T)
  BY <1>1, AllPending
<1> HIDE DEF v
<1>3. v \in KernelStates
  BY <1>2 DEF AfterPending, StatesKept
<1>4. /\ SameReady(v, y) /\ SameWaits(v, y) /\ SameClock(v, y) /\ y.yield = v.yield
      /\ y.rx = v.rx /\ y.tx = v.tx /\ y.pending = << >>
      /\ y.age = v.age /\ y.wrapped = v.wrapped
  BY <1>3 DEF KernelStates, SameReady, SameWaits, SameClock
<1>5. y \in KernelStates
  <2>1. << >> \in Seq(TaskSet)
    OBVIOUS
  <2> QED BY <1>3, <2>1 DEF KernelStates
<1> HIDE DEF y
<1>6. StatesKept(y) /\ WaitingIn(y) = WaitingIn(v) /\ ReadyIn(y) = ReadyIn(v)
  BY <1>2, <1>4, <1>5, StatesMove DEF AfterPending
<1>7. EventsKept(y)
  <2>1. Range(<< >>) = {} /\ IsInjective(<< >>)
    BY DEF Range, IsInjective
  <2> QED BY <1>2, <1>4, <1>6, <2>1 DEF AfterPending, EventsKept
<1>8. /\ StatesKept(z) /\ EventsKept(z) /\ SameLists(y, z) /\ SameClock(y, z)
      /\ WaitingIn(z) = WaitingIn(y) /\ ReadyIn(z) = ReadyIn(y)
      /\ z.yield = y.yield /\ z.age = y.age /\ z.wrapped = y.wrapped
  <2>1. SameLists(y, y) /\ SameClock(y, y)
    BY DEF SameLists, SameReady, SameEvents, SameClock
  <2>2. CASE s = << >>
    BY <1>0, <1>6, <1>7, <2>1, <2>2
  <2>3. CASE s # << >>
    BY <1>0, <1>6, <1>7, <2>3, UnblockKeeps
  <2> QED BY <2>2, <2>3
<1>9. /\ z.pending = << >> /\ z.rx = x.rx /\ z.tx = x.tx /\ SameClock(x, z)
      /\ z.age = x.age /\ z.wrapped = x.wrapped /\ z.wake = v.wake
      /\ z.delayed = v.delayed /\ z.overflow = v.overflow /\ z.yield = v.yield
  BY <1>2, <1>4, <1>8 DEF AfterPending, SameLists, SameEvents, SameWaits, SameClock
<1> HIDE DEF T
<1>10. /\ WaitingIn(z) = WaitingIn(x) \ T /\ ReadyIn(z) = ReadyIn(x) \cup T
       /\ z.yield <=> x.yield \/ \E t \in T : Prio[t] > Prio[cur]
       /\ \A u \in TaskSet \ T : z.wake[u] = x.wake[u]
       /\ Range(z.delayed) = Range(x.delayed) \ T
       /\ Range(z.overflow) = Range(x.overflow) \ T
  BY <1>2, <1>6, <1>8, <1>9 DEF AfterPending
<1> QED BY <1>8, <1>9, <1>10 DEF T, z

(* When the scheduler resumes, nothing is pending any more, and for a more *)
(* urgent task that has become ready it yields.                            *)
LEMMA ResumedKeeps ==
  ASSUME NEW x, StatesKept(x), EventsKept(x), cur \in TaskSet
  PROVE  LET y == Resumed(x)
         IN  /\ StatesKept(y) /\ EventsKept(y) /\ y.pending = << >> /\ y.pended = 0
             /\ ReadyIn(x) \subseteq ReadyIn(y)
             /\ y.yield \/ \A u \in ReadyIn(y) \ ReadyIn(x) : Prio[u] <= Prio[cur]
             /\ Range(y.rx) \subseteq Range(x.rx) /\ Range(y.tx) \subseteq Range(x.tx)
<1> DEFINE z == Recovered(x)
           T == Range(x.pending)
           m == x.pended
           a == Through(TickLate, z, Count(m))
           e == Resumed(x)
<1>0. e = [a EXCEPT !.pended = 0]
  BY DEF Resumed, Recovered, Count
<1>1. m \in Nat /\ T \subseteq WaitingIn(x)
  BY KernelAssumption DEF StatesKept, KernelStates, EventsKept
<1> HIDE DEF e, m
<1>2. /\ StatesKept(z) /\ EventsKept(z) /\ z.pending = << >> /\ z.rx = x.rx /\ z.tx = x.tx
      /\ ReadyIn(z) = ReadyIn(x) \cup T
      /\ z.yield <=> x.yield \/ \E t \in T : Prio[t] > Prio[cur]
  BY RecoveredKeeps
<1> HIDE DEF z, T
<1>3. AfterTicks(z, a)
  BY <1>1, <1>2, AllTicks
<1> HIDE DEF a
<1>4. a \in KernelStates
  BY <1>3 DEF AfterTicks, StatesKept
<1>5. /\ SameReady(a, e) /\ SameWaits(a, e) /\ SameEvents(a, e) /\ e.yield = a.yield /\ e.pended = 0
  BY <1>0, <1>4 DEF KernelStates, SameReady, SameWaits, SameEvents
<1>6. e \in KernelStates
  <2>1. 0 \in 0 .. MaxPended
    BY KernelAssumption
  <2> QED BY <1>0, <1>4, <2>1 DEF KernelStates
<1>7. StatesKept(e) /\ WaitingIn(e) = WaitingIn(a) /\ ReadyIn(e) = ReadyIn(a)
  BY <1>3, <1>5, <1>6, StatesMove DEF AfterTicks
<1>8. EventsKept(e)
  BY <1>3, <1>5, <1>7, EventsMove DEF AfterTicks
<1>9. e.yield \/ \A u \in ReadyIn(e) \ ReadyIn(x) : Prio[u] <= Prio[cur]
  <2>1. z.yield \/ \A u \in T : Prio[u] <= Prio[cur]
    <3>1. \A u \in T : Prio[u] \in Nat /\ Prio[cur] \in Nat
      BY <1>1, LevelOf DEF StatesKept, Divided
    <3> QED BY <1>2, <3>1
  <2> QED BY <1>2, <1>3, <1>5, <1>7, <2>1 DEF AfterTicks
<1> QED BY <1>2, <1>3, <1>5, <1>7, <1>8, <1>9 DEF AfterTicks, SameEvents, e

(* What has become of x when n sends have been made good while the         *)
(* scheduler is suspended: the first n that wait to receive are pending.   *)
AfterWoken(x, y, n) ==
  /\ StatesKept(y) /\ EventsKept(y) /\ SameReady(x, y) /\ SameWaits(x, y) /\ SameClock(x, y)
  /\ y.age = x.age /\ y.wrapped = x.wrapped /\ y.tx = x.tx
  /\ Range(y.rx) \subseteq Range(x.rx)
  /\ Range(y.rx) \cup Range(y.pending) = Range(x.rx) \cup Range(x.pending)
  /\ Len(y.rx) = IF n <= Len(x.rx) THEN Len(x.rx) - n ELSE 0

(* One more send,                                                          *)
LEMMA OneMoreWoken ==
  ASSUME susp, NEW x, x.rx \in Seq(TaskSet), NEW y, NEW n \in Nat, AfterWoken(x, y, n)
  PROVE  AfterWoken(x, Woken(y, "rx"), n + 1)
<1> DEFINE z == Woken(y, "rx")
<1>1. y.rx \in Seq(TaskSet) /\ StatesKept(y) /\ EventsKept(y)
  BY DEF AfterWoken, StatesKept, KernelStates
<1>2. Len(x.rx) \in Nat /\ Len(y.rx) \in Nat /\ (y.rx = << >> <=> Len(y.rx) = 0)
  BY <1>1, ListType
<1>3. CASE y.rx = << >>
  <2>1. z = y
    BY <1>3 DEF Woken
  <2>2. Len(y.rx) = IF n + 1 <= Len(x.rx) THEN Len(x.rx) - (n + 1) ELSE 0
    BY <1>2, <1>3 DEF AfterWoken
  <2> QED BY <2>1, <2>2 DEF AfterWoken
<1>4. CASE y.rx # << >>
  <2> DEFINE t == Head(y.rx)
  <2>1. /\ StatesKept(z) /\ EventsKept(z) /\ SameClock(y, z)
        /\ z.age = y.age /\ z.wrapped = y.wrapped
        /\ SameReady(y, z) /\ SameWaits(y, z) /\ z.rx = Tail(y.rx) /\ z.tx = y.tx
        /\ z.pending = Append(y.pending, t)
    <3> DEFINE l == "rx"
    <3>1. l \in {"rx", "tx"} /\ y[l] # << >> /\ l = "rx" /\ z = Woken(y, l)
      BY <1>4
    <3> HIDE DEF l, z
    <3> QED BY <1>1, <3>1, WokenKeeps
  <2>2. /\ Range(z.rx) \subseteq Range(y.rx) /\ Len(z.rx) = Len(y.rx) - 1
    <3>1. IsInjective(y.rx)
      BY <1>1 DEF EventsKept
    <3>2. Len(Tail(y.rx)) = Len(y.rx) - 1
      BY <1>1, <1>4, HeadTailProperties
    <3>3. Range(Tail(y.rx)) = Range(y.rx) \ {Head(y.rx)}
      BY <1>1, <1>4, <3>1, TailList
    <3> QED BY <2>1, <3>2, <3>3
  <2> HIDE DEF z
  <2>3. Len(z.rx) = IF n + 1 <= Len(x.rx) THEN Len(x.rx) - (n + 1) ELSE 0
    BY <1>2, <1>4, <2>2 DEF AfterWoken
  <2>4. Range(z.rx) \cup Range(z.pending) = Range(y.rx) \cup Range(y.pending)
    <3>1. y.pending \in Seq(TaskSet) /\ IsInjective(y.pending) /\ IsInjective(y.rx)
      BY <1>1 DEF StatesKept, KernelStates, EventsKept
    <3>2. t \in Range(y.rx) /\ Range(Tail(y.rx)) = Range(y.rx) \ {t} /\ t \in TaskSet
      BY <1>1, <1>4, <3>1, TailList, HeadTailProperties
    <3>3. t \notin Range(y.pending)
      BY <1>1, <3>2 DEF EventsKept
    <3>4. Range(Append(y.pending, t)) = Range(y.pending) \cup {t}
      BY <3>1, <3>2, <3>3, AppendedList
    <3> QED BY <2>1, <3>2, <3>4
  <2>5. AfterWoken(x, z, n + 1)
    BY <2>1, <2>2, <2>3, <2>4 DEF AfterWoken, SameReady, SameWaits, SameClock
  <2> QED BY <2>5 DEF z
<1> QED BY <1>3, <1>4

(* ... and all of them.                                                    *)
LEMMA AllWoken ==
  ASSUME NEW x, StatesKept(x), EventsKept(x), NEW s, Len(s) \in Nat, susp
  PROVE  AfterWoken(x, Through(LAMBDA y, n : Woken(y, "rx"), x, s), Len(s))
<1> DEFINE m == Len(s)
<1>1. x.rx \in Seq(TaskSet) /\ Len(x.rx) \in Nat /\ m \in Nat
  BY ListType DEF StatesKept, KernelStates
<1>2. PICK g : /\ Partial("woken", x, s, Len(s), g)
               /\ Through(LAMBDA y, n : Woken(y, "rx"), x, s) = g[Len(s)]
  BY ThroughWoken
<1>3. g[0] = x /\ \A n \in 1 .. m : g[n] = Woken(g[n - 1], "rx")
  <2>2. g[0] = x /\ \A n \in 1 .. m : g[n] = Applied("woken", g[n - 1], s[n])
    <3>1. \A n \in 0 .. m : g[n] = IF n = 0 THEN x ELSE Applied("woken", g[n - 1], s[n])
      BY <1>2 DEF Partial
    <3>2. 0 \in 0 .. m /\ \A n \in 1 .. m : n \in 0 .. m /\ n # 0
      BY <1>1
    <3> QED BY <3>1, <3>2
  <2>3. \A y, e : Applied("woken", y, e) = Woken(y, "rx")
    BY DEF Applied
  <2> QED BY <2>2, <2>3
<1> HIDE DEF m
<1> DEFINE bad == {n \in 0 .. m : ~AfterWoken(x, g[n], n)}
<1>4. bad = {}
  <2> SUFFICES ASSUME bad # {} PROVE FALSE
    OBVIOUS
  <2>1. PICK n \in bad : \A j \in bad : n <= j
    <3>1. bad \in SUBSET Nat
      BY <1>1
    <3> HIDE DEF bad
    <3> QED BY <3>1, LeastNumber
  <2>2. n \in 0 .. m /\ ~AfterWoken(x, g[n], n)
    BY <2>1
  <2>3. CASE n = 0
    <3>1. AfterWoken(x, x, 0)
      BY <1>1 DEF AfterWoken, SameReady, SameWaits, SameClock
    <3> QED BY <1>3, <2>2, <2>3, <3>1
  <2>4. CASE n # 0
    <3>1. n \in 1 .. m /\ n - 1 \in 0 .. m /\ ~(n <= n - 1) /\ n - 1 \in Nat /\ (n - 1) + 1 = n
      BY <1>1, <2>2, <2>4
    <3>2. AfterWoken(x, g[n - 1], n - 1)
      BY <2>1, <3>1
    <3>3. AfterWoken(x, Woken(g[n - 1], "rx"), (n - 1) + 1)
      BY <1>1, <3>1, <3>2, OneMoreWoken
    <3> QED BY <1>3, <2>2, <3>1, <3>3
  <2> QED BY <2>3, <2>4
<1>5. AfterWoken(x, g[m], m)
  BY <1>1, <1>4
<1> QED BY <1>2, <1>5 DEF m

(* What there is when the tasks of T have been created.                    *)
AfterCreation(y, T) ==
  /\ y \in KernelStates /\ ReadyKept(y) /\ ReadyIn(y) = T
  /\ SameWaits(Uncreated, y) /\ SameEvents(Uncreated, y) /\ SameClock(Uncreated, y)
  /\ y.yield = FALSE /\ y.age = Uncreated.age /\ y.wrapped = Uncreated.wrapped

(* Every task is ready at the start.                                       *)
LEMMA AllCreated == AfterCreation(Through(MadeReady, Uncreated, Tasks), TaskSet)
<1> DEFINE s == Tasks
           m == Len(s)
<1>1. /\ s \in Seq(TaskSet) /\ IsInjective(s) /\ m \in Nat /\ Range(s) = TaskSet
  BY KernelAssumption, ListType DEF TaskSet
<1> HIDE DEF s
<1>2. PICK g : Partial("ready", Uncreated, s, Len(s), g) /\ Through(MadeReady, Uncreated, s) = g[Len(s)]
  BY <1>1, ThroughReady
<1>3. g[0] = Uncreated /\ \A n \in 1 .. m : g[n] = MadeReady(g[n - 1], s[n])
  BY <1>1, <1>2, PartialSteps DEF Applied
<1>4. AfterCreation(Uncreated, {})
  <2>1. << >> \in Seq(TaskSet) /\ <<End>> \in Seq(TaskSet \cup {End})
    OBVIOUS
  <2>2. 0 \in 0 .. Forever /\ Forever \in 0 .. Forever /\ 0 \in 0 .. MaxPended /\ -1 \in Int
    BY KernelAssumption, ForeverType
  <2>3. Uncreated \in KernelStates
    BY <2>1, <2>2 DEF Uncreated, KernelStates
  <2>4. \A p \in Levels : Uncreated.ready[p] = <<End>>
    BY DEF Uncreated
  <2>5. IsInjective(<<End>>) /\ Range(<<End>>) = {End}
    BY DEF IsInjective, Range
  <2>6. ReadyKept(Uncreated)
    BY <2>4, <2>5 DEF ReadyKept, Members, Uncreated
  <2>7. ReadyIn(Uncreated) = {}
    BY <2>4, <2>5 DEF ReadyIn, Members
  <2>8. Uncreated.yield = FALSE
    BY DEF Uncreated
  <2> QED BY <2>3, <2>6, <2>7, <2>8 DEF AfterCreation, SameWaits, SameEvents, SameClock
<1> DEFINE bad == {n \in 0 .. m : ~AfterCreation(g[n], FirstOf(s, n))}
<1>5. bad = {}
  <2> SUFFICES ASSUME bad # {} PROVE FALSE
    OBVIOUS
  <2>1. PICK n \in bad : \A j \in bad : n <= j
    <3>1. bad \in SUBSET Nat
      BY <1>1
    <3> HIDE DEF bad
    <3> QED BY <3>1, LeastNumber
  <2>2. n \in 0 .. m /\ ~AfterCreation(g[n], FirstOf(s, n))
    BY <2>1
  <2>3. CASE n = 0
    BY <1>1, <1>3, <1>4, <2>2, <2>3, FirstOnes
  <2>4. CASE n # 0
    <3>1. n \in 1 .. m /\ ~(n <= n - 1)
      BY <1>1, <2>2, <2>4
    <3>2. /\ n - 1 \in 0 .. m /\ s[n] \in TaskSet
          /\ FirstOf(s, n) = FirstOf(s, n - 1) \cup {s[n]} /\ s[n] \notin FirstOf(s, n - 1)
      BY <1>1, <3>1, FirstOnes
    <3>3. AfterCreation(g[n - 1], FirstOf(s, n - 1))
      BY <2>1, <3>1, <3>2
    <3> DEFINE x == g[n - 1]
               y == g[n]
    <3>4. x \in KernelStates /\ ReadyKept(x) /\ s[n] \notin ReadyIn(x) /\ y = MadeReady(x, s[n])
      BY <1>3, <3>1, <3>2, <3>3 DEF AfterCreation
    <3> HIDE DEF x, y
    <3>5. /\ y \in KernelStates /\ ReadyKept(y) /\ ReadyIn(y) = ReadyIn(x) \cup {s[n]}
          /\ SameWaits(x, y) /\ SameEvents(x, y) /\ SameClock(x, y) /\ y.yield = x.yield
          /\ y.age = x.age /\ y.wrapped = x.wrapped
      BY <3>2, <3>4, MadeReadyKeeps
    <3>6. AfterCreation(x, FirstOf(s, n - 1))
      BY <3>3 DEF x
    <3>7. AfterCreation(y, FirstOf(s, n - 1) \cup {s[n]})
      BY <3>5, <3>6 DEF AfterCreation, SameWaits, SameEvents, SameClock
    <3> QED BY <2>2, <3>2, <3>7 DEF y
  <2> QED BY <2>3, <2>4
<1>6. AfterCreation(g[m], FirstOf(s, m))
  <2>1. m \in 0 .. m
    BY <1>1
  <2> QED BY <1>5, <2>1
<1> QED BY <1>1, <1>2, <1>6, FirstOnes DEF s

-----------------------------------------------------------------------------
(* THE INVARIANT                                                           *)

(* The parts of the invariant after a step are those of the new data.      *)
LEMMA Primes ==
  /\ StatesKept(k)' <=> StatesKept(k')
  /\ EventsKept(k)' <=> EventsKept(k')
  /\ WaitingIn(k)' = WaitingIn(k') /\ ReadyIn(k)' = ReadyIn(k')
<1>1. WaitingIn(k)' = WaitingIn(k') /\ ReadyIn(k)' = ReadyIn(k')
  BY DEF WaitingIn, ReadyIn, Members, Range
<1>2. EventsKept(k)' <=> EventsKept(k')
  BY DEF EventsKept, WaitingIn, Range, IsInjective
<1>3. ReadyKept(k)' <=> ReadyKept(k')
  BY DEF ReadyKept, Members, Range, IsInjective
<1>4. WaitKept(k)' <=> WaitKept(k')
  BY DEF WaitKept, HeadWake, Sorted, Range, IsInjective
<1>5. Divided(k)' <=> Divided(k')
  BY DEF Divided, WaitingIn, ReadyIn, Members, Range
<1>6. (k \in KernelStates)' <=> k' \in KernelStates
  BY DEF KernelStates
<1> QED BY <1>3, <1>4, <1>5, <1>6, <1>2, <1>1 DEF StatesKept

Callings ==
  [op : {"none", "receive", "send", "sleep"}, w : 0 .. Forever, entry : 0 .. Forever,
   asked : 0 .. Forever, next : {"none", "again", "out", "block"}]

(* The tasks that never wait never leave the application; nothing is       *)
(* pending while the scheduler runs.                                       *)
Control ==
  /\ cur \in TaskSet /\ susp \in BOOLEAN /\ pendsv \in BOOLEAN
  /\ lock \in -1 .. Len(Tasks) /\ call \in [TaskSet -> Callings]
  /\ \A t \in TaskSet : NeverWaits(t) => pc[t] = "app" /\ t \notin WaitingIn(k)
  /\ k.pended > 0 \/ k.pending # << >> => susp

MostUrgent == \A u \in ReadyIn(k) : Prio[u] <= Prio[cur]

(* Where the current task holds the processor although it may have gone to *)
(* wait, and where it has not yet.                                         *)
NotYetWaiting ==
  \/ pc[cur] \in {"lock", "check", "test", "place", "delay"}
  \/ pc[cur] \in {"unlock", "resume"} /\ call[cur].next # "block"

(* A sleep ends in a yield, whether there was anything to wait for or not. *)
Sleeping == \A t \in TaskSet : pc[t] = "delay" => call[t].next = "block"

(* No ready task is more urgent than the current one while the scheduler   *)
(* is suspended, or no switch is pending.                                  *)
Resting ==
  /\ susp => MostUrgent /\ (NotYetWaiting => cur \in ReadyIn(k))
  /\ ~susp /\ ~pendsv => MostUrgent /\ cur \in ReadyIn(k)

KernelInv == StatesKept(k) /\ EventsKept(k) /\ ExclInv /\ Control /\ Sleeping /\ Resting

(* What the proof of each step has to show.                                *)
Keeps == StatesKept(k') /\ EventsKept(k') /\ Control' /\ Resting'

(* Notes about the time a task waits touch no list.                        *)
LEMMA NotesKeep ==
  ASSUME NEW x, StatesKept(x), EventsKept(x), NEW y \in KernelStates,
         SameReady(x, y), SameWaits(x, y), SameEvents(x, y)
  PROVE  /\ StatesKept(y) /\ EventsKept(y)
         /\ WaitingIn(y) = WaitingIn(x) /\ ReadyIn(y) = ReadyIn(x)
BY StatesMove, EventsMove

Noted(x, t, a, b) ==
  [x EXCEPT !.age = [x.age EXCEPT ![t] = a], !.wrapped = [x.wrapped EXCEPT ![t] = b]]

(* The notes on its time when a task begins to wait and when it returns.   *)
LEMMA NotedKeeps ==
  ASSUME NEW x, StatesKept(x), EventsKept(x), NEW t \in TaskSet,
         NEW a \in Int, NEW b \in BOOLEAN, NEW y, y = Noted(x, t, a, b)
  PROVE  /\ StatesKept(y) /\ EventsKept(y)
         /\ WaitingIn(y) = WaitingIn(x) /\ ReadyIn(y) = ReadyIn(x)
         /\ y.pending = x.pending /\ y.pended = x.pended /\ y.tick = x.tick
<1>1. x \in KernelStates
  BY DEF StatesKept
<1>2. /\ [x.age EXCEPT ![t] = a] \in [TaskSet -> Int]
      /\ [x.wrapped EXCEPT ![t] = b] \in [TaskSet -> BOOLEAN]
  BY <1>1 DEF KernelStates
<1>3. y \in KernelStates
  BY <1>1, <1>2 DEF KernelStates, Noted
<1>4. /\ SameReady(x, y) /\ SameWaits(x, y) /\ SameEvents(x, y)
      /\ y.pending = x.pending /\ y.pended = x.pended /\ y.tick = x.tick
  BY <1>1 DEF Noted, KernelStates, SameReady, SameWaits, SameEvents
<1>5. /\ StatesKept(y) /\ EventsKept(y)
      /\ WaitingIn(y) = WaitingIn(x) /\ ReadyIn(y) = ReadyIn(x)
  BY <1>3, <1>4, NotesKeep
<1> QED BY <1>4, <1>5

(* The idle task keeps some task ready.                                    *)
LEMMA SomeReady ==
  ASSUME KernelInv
  PROVE  ReadyIn(k) # {}
BY KernelAssumption DEF KernelInv, Control, StatesKept, Divided

(* The context switch gives the processor to a most urgent ready task.     *)
LEMMA SwitchContextKeeps ==
  ASSUME KernelInv, SwitchContext
  PROVE  Keeps
<1> USE DEF KernelInv
<1>1. UNCHANGED <<ring, lock, susp, pc, call>> /\ pendsv' = FALSE
  BY DEF SwitchContext
<1>2. CASE MaySwitch /\ k' = Switched(k) /\ cur' = Last(NextReady(k))
  <2>1. /\ StatesKept(k') /\ EventsKept(k') /\ SameEvents(k, k') /\ SameClock(k, k')
        /\ WaitingIn(k') = WaitingIn(k) /\ ReadyIn(k') = ReadyIn(k)
        /\ cur' \in ReadyIn(k) /\ \A u \in ReadyIn(k) : Prio[u] <= Prio[cur']
    BY <1>2, SomeReady, SwitchedKeeps
  <2>2. cur' \in TaskSet
    BY <2>1 DEF StatesKept, Divided
  <2>3. Control'
    BY <1>1, <2>1, <2>2, Primes DEF Control, SameEvents, SameClock
  <2>4. Resting'
    BY <1>1, <1>2, <2>1, Primes DEF Resting, MostUrgent, MaySwitch
  <2> QED BY <2>1, <2>3, <2>4 DEF Keeps
<1>3. CASE ~MaySwitch /\ k' = [k EXCEPT !.yield = TRUE] /\ UNCHANGED cur
  <2>1. k \in KernelStates
    BY DEF StatesKept
  <2>2. /\ k' \in KernelStates /\ SameReady(k, k') /\ SameWaits(k, k')
        /\ SameEvents(k, k') /\ SameClock(k, k')
    BY <2>1, <1>3 DEF KernelStates, SameReady, SameWaits, SameEvents, SameClock
  <2>3. /\ StatesKept(k') /\ EventsKept(k')
        /\ WaitingIn(k') = WaitingIn(k) /\ ReadyIn(k') = ReadyIn(k)
    BY <2>2, NotesKeep
  <2>4. Control'
    BY <1>1, <1>3, <2>2, <2>3, Primes DEF Control, SameEvents, SameClock
  <2>5. Resting'
    BY <1>1, <1>3, <2>3, Primes DEF Resting, MostUrgent, MaySwitch, NotYetWaiting
  <2> QED BY <2>3, <2>4, <2>5 DEF Keeps
<1> QED BY <1>2, <1>3 DEF SwitchContext

(* A tick asks for a switch when it readies a more urgent task.            *)
LEMMA TickKeeps ==
  ASSUME KernelInv, Tick
  PROVE  Keeps
<1> USE DEF KernelInv
<1>1. UNCHANGED <<ring, lock, cur, susp, pc, call>>
  BY DEF Tick
<1>2. CASE susp /\ k.pended < MaxPended /\ k' = [k EXCEPT !.pended = @ + 1] /\ UNCHANGED pendsv
  <2>1. k \in KernelStates
    BY DEF StatesKept
  <2>2. k.pended + 1 \in 0 .. MaxPended
    BY <1>2, <2>1, KernelAssumption DEF KernelStates
  <2>3. /\ k' \in KernelStates /\ SameReady(k, k') /\ SameWaits(k, k') /\ SameEvents(k, k')
    BY <2>1, <2>2, <1>2 DEF KernelStates, SameReady, SameWaits, SameEvents
  <2>4. /\ StatesKept(k') /\ EventsKept(k')
        /\ WaitingIn(k') = WaitingIn(k) /\ ReadyIn(k') = ReadyIn(k)
    BY <2>3, NotesKeep
  <2>5. Control'
    BY <1>1, <1>2, <2>3, <2>4, Primes DEF Control, SameEvents
  <2>6. Resting'
    BY <1>1, <1>2, <2>4, Primes DEF Resting, MostUrgent, NotYetWaiting
  <2> QED BY <2>4, <2>5, <2>6 DEF Keeps
<1>3. CASE ~susp /\ k' = Ticked(k) /\ pendsv' = (pendsv \/ TickSwitches(k))
  <2>1. k.pending = << >>
    BY <1>3 DEF Control
  <2> DEFINE T == TickReadies(k)
  <2>2. /\ StatesKept(k') /\ EventsKept(k') /\ T \subseteq WaitingIn(k)
        /\ WaitingIn(k') = WaitingIn(k) \ T /\ ReadyIn(k') = ReadyIn(k) \cup T
        /\ k'.pended = k.pended /\ k'.pending = << >>
    BY <1>3, <2>1, TickedKeeps
  <2>3. pendsv' \in BOOLEAN
    BY <1>3 DEF Control
  <2>4. Control'
    BY <1>1, <1>3, <2>2, <2>3, Primes DEF Control
  <2>5. ASSUME ~pendsv' PROVE \A t \in T : Prio[t] <= Prio[cur]
    <3>1. ~TickSwitches(k)
      BY <1>3, <2>5
    <3>2. \A t \in T : ~(Prio[t] > Prio[cur])
      BY <3>1 DEF TickSwitches, TickReadies
    <3>3. T \subseteq TaskSet /\ cur \in TaskSet
      BY <2>2 DEF StatesKept, Divided, Control
    <3> QED BY <3>2, <3>3, LevelOf
  <2>6. Resting'
    BY <1>1, <1>3, <2>2, <2>5, Primes DEF Resting, MostUrgent
  <2> QED BY <2>2, <2>4, <2>6 DEF Keeps
<1> QED BY <1>2, <1>3 DEF Tick

(* An event wakes one task at most, and it is known whether that task is   *)
(* more urgent than the current one.                                       *)
LEMMA EventWakes ==
  ASSUME NEW x, StatesKept(x), EventsKept(x), NEW list \in {"rx", "tx"}, cur \in TaskSet,
         NEW y, y = Woken(x, list)
  PROVE  \E S \in SUBSET WaitingIn(x) :
           /\ StatesKept(y) /\ EventsKept(y) /\ y.pended = x.pended
           /\ WaitingIn(y) = WaitingIn(x) \ S /\ ReadyIn(y) = ReadyIn(x) \cup S
           /\ susp => S = {}
           /\ ~susp => y.pending = x.pending
           /\ ~Preempts(x, list) => \A u \in S : Prio[u] <= Prio[cur]
<1>1. CASE x[list] = << >>
  <2>1. y = x
    BY <1>1 DEF Woken
  <2>2. {} \in SUBSET WaitingIn(x)
    OBVIOUS
  <2> QED BY <2>1, <2>2
<1>2. CASE x[list] # << >>
  <2> DEFINE t == Head(x[list])
  <2>1. /\ StatesKept(y) /\ EventsKept(y) /\ SameClock(x, y) /\ t \in WaitingIn(x)
        /\ IF susp THEN SameReady(x, y) /\ SameWaits(x, y)
                   ELSE /\ WaitingIn(y) = WaitingIn(x) \ {t}
                        /\ ReadyIn(y) = ReadyIn(x) \cup {t} /\ y.pending = x.pending
    BY <1>2, WokenKeeps
  <2>2. y.pended = x.pended
    BY <2>1 DEF SameClock
  <2>3. CASE susp
    <3>1. WaitingIn(y) = WaitingIn(x) /\ ReadyIn(y) = ReadyIn(x)
      BY <2>1, <2>3, StatesMove DEF StatesKept
    <3>2. {} \in SUBSET WaitingIn(x)
      OBVIOUS
    <3> QED BY <2>1, <2>2, <2>3, <3>1, <3>2
  <2>4. CASE ~susp
    <3>1. {t} \in SUBSET WaitingIn(x)
      BY <2>1
    <3>2. ~Preempts(x, list) => Prio[t] <= Prio[cur]
      <4>1. t \in TaskSet
        BY <2>1 DEF StatesKept, Divided
      <4>2. ~Preempts(x, list) => ~(Prio[t] > Prio[cur])
        BY <1>2 DEF Preempts
      <4> HIDE DEF t
      <4> QED BY <4>1, <4>2, LevelOf
    <3> HIDE DEF t
    <3> QED BY <2>1, <2>2, <2>4, <3>1, <3>2
  <2> QED BY <2>3, <2>4
<1> QED BY <1>1, <1>2

(* So does a frame that wakes a task, unless the queue is locked.          *)
LEMMA CanInterruptKeeps ==
  ASSUME KernelInv, CanInterrupt
  PROVE  Keeps
<1> USE DEF KernelInv
<1>1. UNCHANGED <<cur, susp, pc, call>> /\ cur \in TaskSet
  BY DEF CanInterrupt, Control
<1>2. CASE lock = -1 /\ k' = Woken(k, "rx") /\ pendsv' = (pendsv \/ Preempts(k, "rx")) /\ UNCHANGED lock
  <2>1. PICK S \in SUBSET WaitingIn(k) :
           /\ StatesKept(k') /\ EventsKept(k') /\ k'.pended = k.pended
           /\ WaitingIn(k') = WaitingIn(k) \ S /\ ReadyIn(k') = ReadyIn(k) \cup S
           /\ susp => S = {}
           /\ ~susp => k'.pending = k.pending
           /\ ~Preempts(k, "rx") => \A u \in S : Prio[u] <= Prio[cur]
    <3>1. "rx" \in {"rx", "tx"}
      OBVIOUS
    <3>2. k' = Woken(k, "rx")
      BY <1>2
    <3> QED BY <1>1, <3>1, <3>2, EventWakes
  <2>2. pendsv' \in BOOLEAN
    BY <1>2 DEF Control
  <2>3. Control'
    BY <1>1, <1>2, <2>1, <2>2, Primes DEF Control
  <2>4. Resting'
    BY <1>1, <1>2, <2>1, Primes DEF Resting, MostUrgent, NotYetWaiting
  <2> QED BY <2>1, <2>3, <2>4 DEF Keeps
<1>3. CASE lock # -1 /\ lock' = (IF lock < Len(Tasks) THEN lock + 1 ELSE lock) /\ UNCHANGED <<k, pendsv>>
  <2>1. lock' \in -1 .. Len(Tasks)
    <3>1. Len(Tasks) \in Nat
      BY KernelAssumption
    <3>2. lock \in Int /\ lock <= Len(Tasks) /\ lock >= -1
      BY <3>1 DEF Control
    <3> QED BY <1>3, <3>1, <3>2
  <2>2. Control'
    BY <1>1, <1>3, <2>1, Primes DEF Control
  <2>3. Resting'
    BY <1>1, <1>3, Primes DEF Resting, MostUrgent, NotYetWaiting
  <2> QED BY <1>3, <2>2, <2>3 DEF Keeps
<1> QED BY <1>2, <1>3 DEF CanInterrupt

(* Outside the kernel and between two looks at the queue the scheduler is  *)
(* not suspended, so that a task that has the processor is a most urgent   *)
(* one.                                                                    *)
LEMMA Running ==
  ASSUME KernelInv, ~pendsv, pc[cur] \in {"app", "try", "suspend", "final"}
  PROVE  ~susp /\ MostUrgent /\ cur \in ReadyIn(k) /\ cur \in TaskSet
<1>1. ~Inside(cur)
  BY DEF Inside
<1> QED BY <1>1 DEF KernelInv, ExclInv, Exclusive, Resting, Control

(* Between two calls.                                                      *)
LEMMA NoCallType == NoCall \in Callings
<1>1. 0 \in 0 .. Forever
  BY ForeverType
<1> QED BY <1>1 DEF NoCall, Callings

(* A call that wakes a task at most and returns.                           *)
LEMMA ReturningKeeps ==
  ASSUME KernelInv, ~pendsv, pc[cur] \in {"app", "try", "suspend", "final"},
         NEW S \in SUBSET WaitingIn(k), NEW x,
         StatesKept(x), EventsKept(x), x.pended = k.pended, x.pending = k.pending,
         WaitingIn(x) = WaitingIn(k) \ S, ReadyIn(x) = ReadyIn(k) \cup S,
         pendsv' \in BOOLEAN, ~pendsv' => \A u \in S : Prio[u] <= Prio[cur],
         ReturnsWith(x, cur), UNCHANGED <<lock, cur, susp>>
  PROVE  Keeps
<1> USE DEF KernelInv
<1>1. ~susp /\ MostUrgent /\ cur \in ReadyIn(k) /\ cur \in TaskSet
  BY Running
<1>2. /\ StatesKept(k') /\ EventsKept(k')
      /\ WaitingIn(k') = WaitingIn(x) /\ ReadyIn(k') = ReadyIn(x)
      /\ k'.pending = x.pending /\ k'.pended = x.pended
  <2>1. PICK a \in Int : a = -1
    OBVIOUS
  <2>2. PICK b \in BOOLEAN : b = FALSE
    OBVIOUS
  <2>3. k' = Noted(x, cur, a, b)
    BY <2>1, <2>2 DEF ReturnsWith, Noted
  <2>4. a \in Int /\ b \in BOOLEAN
    BY <2>1, <2>2
  <2> HIDE <2>1, <2>2
  <2> QED BY <1>1, <2>3, <2>4, NotedKeeps
<1>3. pc' = [pc EXCEPT ![cur] = "app"] /\ call' = [call EXCEPT ![cur] = NoCall]
  BY DEF ReturnsWith, Goes
<1>4. call' \in [TaskSet -> Callings]
  BY <1>1, <1>3, NoCallType DEF Control
<1>5. pc \in [TaskSet -> Places]
  BY DEF ExclInv
<1>6. Control'
  BY <1>1, <1>2, <1>3, <1>4, <1>5, Primes DEF Control
<1>7. Resting'
  BY <1>1, <1>2, Primes DEF Resting, MostUrgent
<1> QED BY <1>2, <1>6, <1>7 DEF Keeps

(* A call that finds nothing to do returns.                                *)
LEMMA ReturnKeeps ==
  ASSUME KernelInv, ~pendsv, pc[cur] \in {"app", "try", "suspend", "final"}, Returns(cur),
         UNCHANGED <<lock, cur, susp, pendsv>>
  PROVE  Keeps
<1>1. {} \in SUBSET WaitingIn(k) /\ StatesKept(k) /\ EventsKept(k) /\ pendsv \in BOOLEAN
  BY DEF KernelInv, Control
<1> DEFINE x == k
           S == {}
<1>2. x.pended = k.pended /\ x.pending = k.pending /\ ReturnsWith(x, cur)
  BY DEF Returns
<1>3. WaitingIn(x) = WaitingIn(k) \ S /\ ReadyIn(x) = ReadyIn(k) \cup S
  OBVIOUS
<1>4. \A u \in S : Prio[u] <= Prio[cur]
  OBVIOUS
<1>5. StatesKept(x) /\ EventsKept(x) /\ S \in SUBSET WaitingIn(k)
  BY <1>1
<1> HIDE DEF x, S
<1> QED BY <1>1, <1>2, <1>3, <1>4, <1>5, ReturningKeeps

(* A task wakes the one that waits for what it did to the queue.           *)
LEMMA WakingKeeps ==
  ASSUME KernelInv, ~pendsv, pc[cur] \in {"app", "try", "suspend", "final"},
         NEW list \in {"rx", "tx"}, pendsv' = Preempts(k, list),
         ReturnsWith(Woken(k, list), cur), UNCHANGED <<lock, cur, susp>>
  PROVE  Keeps
<1> DEFINE x == Woken(k, list)
<1>1. ~susp /\ cur \in TaskSet
  BY Running
<1>2. PICK S \in SUBSET WaitingIn(k) :
        /\ StatesKept(x) /\ EventsKept(x) /\ x.pended = k.pended
        /\ WaitingIn(x) = WaitingIn(k) \ S /\ ReadyIn(x) = ReadyIn(k) \cup S
        /\ susp => S = {}
        /\ ~susp => x.pending = k.pending
        /\ ~Preempts(k, list) => \A u \in S : Prio[u] <= Prio[cur]
  <2> DEFINE z == k
  <2>1. StatesKept(z) /\ EventsKept(z) /\ x = Woken(z, list)
    BY DEF KernelInv
  <2> HIDE DEF x
  <2> QED BY <1>1, <2>1, EventWakes
<1>3. pendsv' \in BOOLEAN
  BY DEF Preempts
<1>4. ReturnsWith(x, cur)
  OBVIOUS
<1> HIDE DEF x
<1> QED BY <1>1, <1>2, <1>3, <1>4, ReturningKeeps

(* A call goes to wait for a time its task may ask for, the idle task for  *)
(* none.                                                                   *)
LEMMA WaitsType ==
  ASSUME KernelInv, cur \in TaskSet, NEW op \in {"receive", "send"}, NEW w \in Waits(cur, op)
  PROVE  /\ pc[cur] \in {"app", "try"} /\ w \in 0 .. Forever
         /\ NeverWaits(cur) => w = 0
<1>1. CASE pc[cur] = "app"
  <2>1. \E c \in Calls[cur] : c.w = w
    BY <1>1 DEF Waits, At
  <2> QED BY <1>1, <2>1, KernelAssumption DEF NeverWaits
<1>2. CASE pc[cur] # "app"
  <2>1. pc[cur] = "try" /\ w = call[cur].w
    BY <1>2 DEF Waits, At
  <2> QED BY <2>1 DEF KernelInv, Control, Callings
<1> QED BY <1>1, <1>2

(* From a first or a later failure on to the stretch under a suspended     *)
(* scheduler.                                                              *)
LEMMA GoesToWaitKeeps ==
  ASSUME KernelInv, ~pendsv, NEW op \in {"receive", "send"}, NEW w \in Waits(cur, op), w > 0,
         GoesToWait(cur, op, w), UNCHANGED <<lock, cur, susp>>
  PROVE  Keeps
<1> USE DEF KernelInv
<1>1. cur \in TaskSet
  BY DEF Control
<1>2. pc[cur] \in {"app", "try"} /\ w \in 0 .. Forever /\ ~NeverWaits(cur)
  BY <1>1, WaitsType
<1>3. ~susp /\ MostUrgent /\ cur \in ReadyIn(k)
  BY <1>2, Running
<1>4. /\ pc \in [TaskSet -> Places] /\ pc' = [pc EXCEPT ![cur] = "suspend"]
      /\ UNCHANGED pendsv
  BY DEF ExclInv, GoesToWait, Goes
<1>5. /\ StatesKept(k') /\ EventsKept(k') /\ call' \in [TaskSet -> Callings]
      /\ WaitingIn(k') = WaitingIn(k) /\ ReadyIn(k') = ReadyIn(k)
      /\ k'.pending = k.pending /\ k'.pended = k.pended
  <2>1. CASE pc[cur] = "app"
    <3> DEFINE c == [NoCall EXCEPT !.op = op, !.w = w, !.asked = w,
                                   !.entry = IF w = Forever THEN 0 ELSE k.tick]
               a == IF w = Forever THEN -1 ELSE 0
    <3>1. call' = [call EXCEPT ![cur] = c]
      BY <2>1 DEF GoesToWait
    <3>2. k.tick \in 0 .. Forever /\ 0 \in 0 .. Forever
      BY ForeverType DEF StatesKept, KernelStates
    <3>3. c \in Callings
      BY <1>2, <3>2 DEF NoCall, Callings
    <3>4. PICK b \in BOOLEAN : b = FALSE
      OBVIOUS
    <3>5. k' = Noted(k, cur, a, b)
      BY <2>1, <3>4 DEF GoesToWait, Noted
    <3>6. a \in Int /\ b \in BOOLEAN
      BY <3>4
    <3> HIDE <3>4
    <3> HIDE DEF c, a
    <3>7. call' \in [TaskSet -> Callings]
      BY <1>1, <3>1, <3>3 DEF Control
    <3>8. StatesKept(k) /\ EventsKept(k)
      OBVIOUS
    <3> QED BY <1>1, <3>5, <3>6, <3>7, <3>8, NotedKeeps
  <2>2. CASE pc[cur] # "app"
    BY <2>2 DEF GoesToWait, Control
  <2> QED BY <2>1, <2>2
<1>6. Control'
  BY <1>1, <1>2, <1>3, <1>4, <1>5, Primes DEF Control
<1>7. Resting'
  BY <1>3, <1>4, <1>5, Primes DEF Resting, MostUrgent
<1> QED BY <1>5, <1>6, <1>7 DEF Keeps

(* The critical section at the head of the loop of xQueueReceive,          *)
LEMMA TryReceiveKeeps ==
  ASSUME KernelInv, ~pendsv, TryReceive(cur)
  PROVE  Keeps
<1>1. PICK w \in Waits(cur, "receive") :
        \/ /\ pendsv' = Preempts(k, "tx") /\ ReturnsWith(Woken(k, "tx"), cur)
        \/ Returns(cur) /\ UNCHANGED pendsv
        \/ w > 0 /\ GoesToWait(cur, "receive", w)
  BY DEF TryReceive
<1>2. UNCHANGED <<lock, cur, susp>>
  BY DEF TryReceive
<1>3. "receive" \in {"receive", "send"} /\ "tx" \in {"rx", "tx"} /\ cur \in TaskSet
  BY DEF KernelInv, Control
<1>4. pc[cur] \in {"app", "try", "suspend", "final"}
  BY <1>1, <1>3, WaitsType
<1> QED BY <1>1, <1>2, <1>3, <1>4, WakingKeeps, ReturnKeeps, GoesToWaitKeeps

(* ... and of xQueueGenericSend.                                           *)
LEMMA TrySendKeeps ==
  ASSUME KernelInv, ~pendsv, TrySend(cur)
  PROVE  Keeps
<1>1. PICK w \in Waits(cur, "send") :
        \/ /\ pendsv' = Preempts(k, "rx") /\ ReturnsWith(Woken(k, "rx"), cur)
        \/ Returns(cur) /\ UNCHANGED pendsv
        \/ w > 0 /\ GoesToWait(cur, "send", w)
  BY DEF TrySend
<1>2. UNCHANGED <<lock, cur, susp>>
  BY DEF TrySend
<1>3. "send" \in {"receive", "send"} /\ "rx" \in {"rx", "tx"} /\ cur \in TaskSet
  BY DEF KernelInv, Control
<1>4. pc[cur] \in {"app", "try", "suspend", "final"}
  BY <1>1, <1>3, WaitsType
<1> QED BY <1>1, <1>2, <1>3, <1>4, WakingKeeps, ReturnKeeps, GoesToWaitKeeps

(* Under a suspended scheduler the task that suspended it has the          *)
(* processor, and it is one that may wait.                                 *)
LEMMA Holding ==
  ASSUME KernelInv, Inside(cur)
  PROVE  /\ susp /\ MostUrgent /\ cur \in TaskSet /\ ~NeverWaits(cur)
         /\ NotYetWaiting => cur \in ReadyIn(k)
<1>1. cur \in TaskSet /\ susp
  BY DEF KernelInv, Control, ExclInv, Exclusive
<1>2. pc[cur] # "app"
  BY DEF Inside
<1> QED BY <1>1, <1>2 DEF KernelInv, Control, Resting

(* A step that only changes where the current task is.                     *)
LEMMA MovesKeep ==
  ASSUME KernelInv, ~NeverWaits(cur), NEW p, Goes(cur, p), UNCHANGED <<k, cur, pendsv>>,
         lock' \in -1 .. Len(Tasks), call' \in [TaskSet -> Callings],
         susp' \in BOOLEAN, susp => susp'
  PROVE  Control'
BY Primes DEF KernelInv, ExclInv, Control, Goes

(* vTaskSuspendAll finds a most urgent task running.                       *)
LEMMA SuspendKeeps ==
  ASSUME KernelInv, ~pendsv, Suspend(cur)
  PROVE  Keeps
<1>1. /\ pc[cur] = "suspend" /\ Goes(cur, "lock") /\ susp' = TRUE
      /\ UNCHANGED <<lock, k, cur, pendsv, call>>
  BY DEF Suspend, At
<1>2. MostUrgent /\ cur \in ReadyIn(k) /\ cur \in TaskSet
  BY <1>1, Running
<1>3. ~NeverWaits(cur)
  BY <1>1, <1>2 DEF KernelInv, Control
<1>4. Control'
  <2>1. lock' \in -1 .. Len(Tasks) /\ call' \in [TaskSet -> Callings] /\ susp' \in BOOLEAN
    BY <1>1 DEF KernelInv, Control
  <2> QED BY <1>1, <1>3, <2>1, MovesKeep
<1>5. Resting'
  BY <1>1, <1>2, Primes DEF Resting, MostUrgent
<1> QED BY <1>1, <1>4, <1>5 DEF Keeps, KernelInv

(* prvLockQueue.                                                           *)
LEMMA LockKeeps ==
  ASSUME KernelInv, ~pendsv, Lock(cur)
  PROVE  Keeps
<1>1. /\ pc[cur] = "lock" /\ Goes(cur, "check") /\ lock' = (IF lock = -1 THEN 0 ELSE lock)
      /\ UNCHANGED <<k, cur, susp, pendsv, call>>
  BY DEF Lock, At
<1>2. /\ susp /\ MostUrgent /\ cur \in TaskSet /\ ~NeverWaits(cur) /\ cur \in ReadyIn(k)
  BY <1>1, Holding DEF Inside, NotYetWaiting
<1>3. Control'
  <2>1. lock' \in -1 .. Len(Tasks)
    BY <1>1, KernelAssumption DEF KernelInv, Control
  <2>2. call' \in [TaskSet -> Callings] /\ susp' \in BOOLEAN /\ (susp => susp')
    BY <1>1 DEF KernelInv, Control
  <2> QED BY <1>1, <1>2, <2>1, <2>2, MovesKeep
<1>4. Resting'
  BY <1>1, <1>2, Primes DEF Resting, MostUrgent
<1> QED BY <1>1, <1>3, <1>4 DEF Keeps, KernelInv

(* The second look at the queue.                                           *)
LEMMA TestKeeps ==
  ASSUME KernelInv, ~pendsv, Test(cur)
  PROVE  Keeps
<1>1. /\ pc[cur] = "test" /\ UNCHANGED <<lock, k, cur, susp, pendsv>>
  BY DEF Test, At
<1>2. /\ susp /\ MostUrgent /\ cur \in TaskSet /\ ~NeverWaits(cur) /\ cur \in ReadyIn(k)
  BY <1>1, Holding DEF Inside, NotYetWaiting
<1>3. \E p : Goes(cur, p)
  BY DEF Test
<1>4. call' \in [TaskSet -> Callings]
  <2>1. CASE UNCHANGED call
    BY <2>1 DEF KernelInv, Control
  <2>2. CASE call' = [call EXCEPT ![cur].next = "again"]
    <3>1. call \in [TaskSet -> Callings] /\ call[cur] \in Callings
      BY <1>2 DEF KernelInv, Control
    <3>2. [call[cur] EXCEPT !.next = "again"] \in Callings
      BY <3>1 DEF Callings
    <3> QED BY <1>2, <2>2, <3>1, <3>2
  <2> QED BY <2>1, <2>2 DEF Test
<1>5. Control'
  <2>1. lock' \in -1 .. Len(Tasks) /\ susp' \in BOOLEAN /\ (susp => susp')
    BY <1>1 DEF KernelInv, Control
  <2> QED BY <1>1, <1>2, <1>3, <1>4, <2>1, MovesKeep
<1>6. Resting'
  BY <1>1, <1>2, Primes DEF Resting, MostUrgent
<1> QED BY <1>1, <1>5, <1>6 DEF Keeps, KernelInv

(* The last look of xQueueReceive.                                         *)
LEMMA FinalKeeps ==
  ASSUME KernelInv, ~pendsv, Final(cur)
  PROVE  Keeps
<1>1. pc[cur] = "final" /\ UNCHANGED <<lock, cur, susp, pendsv>>
  BY DEF Final, At
<1>2. ~susp /\ MostUrgent /\ cur \in ReadyIn(k) /\ cur \in TaskSet
  BY <1>1, Running
<1>3. CASE Goes(cur, "try") /\ UNCHANGED <<k, call>>
  <2>1. ~NeverWaits(cur)
    BY <1>1, <1>2 DEF KernelInv, Control
  <2>2. /\ lock' \in -1 .. Len(Tasks) /\ call' \in [TaskSet -> Callings]
        /\ susp' \in BOOLEAN /\ (susp => susp')
    BY <1>1, <1>3 DEF KernelInv, Control
  <2>3. Control'
    BY <1>1, <1>3, <2>1, <2>2, MovesKeep
  <2>4. Resting'
    BY <1>1, <1>2, <1>3, Primes DEF Resting, MostUrgent
  <2> QED BY <1>3, <2>3, <2>4 DEF Keeps, KernelInv
<1>4. CASE Returns(cur)
  BY <1>1, <1>4, ReturnKeeps
<1> QED BY <1>3, <1>4 DEF Final

(* vTaskDelayUntil begins; the idle task never does.                       *)
LEMMA SleepKeeps ==
  ASSUME KernelInv, ~pendsv, Sleep(cur)
  PROVE  Keeps
<1>1. /\ pc[cur] = "app" /\ Goes(cur, "delay") /\ susp' = TRUE
      /\ UNCHANGED <<lock, k, cur, pendsv>>
  BY DEF Sleep, At
<1>2. MostUrgent /\ cur \in ReadyIn(k) /\ cur \in TaskSet
  BY <1>1, Running
<1>3. PICK c \in Calls[cur] :
        /\ c.op = "sleep"
        /\ call' = [call EXCEPT ![cur] = [NoCall EXCEPT !.op = "sleep", !.w = c.w, !.next = "block",
                                            !.entry = IF call[cur].op = "sleep" THEN call[cur].entry ELSE k.tick]]
  BY DEF Sleep
<1>4. ~NeverWaits(cur)
  BY <1>3 DEF NeverWaits
<1>5. call' \in [TaskSet -> Callings]
  <2>1. call \in [TaskSet -> Callings] /\ call[cur].entry \in 0 .. Forever
    BY <1>2 DEF KernelInv, Control, Callings
  <2>2. k.tick \in 0 .. Forever /\ 0 \in 0 .. Forever /\ c.w \in 0 .. Forever
    <3>1. k.tick \in 0 .. Forever
      BY DEF KernelInv, StatesKept, KernelStates
    <3>2. c.w \in 0 .. Forever
      BY <1>2, <1>3, KernelAssumption
    <3> QED BY <3>1, <3>2, ForeverType
  <2>3. [NoCall EXCEPT !.op = "sleep", !.w = c.w, !.next = "block",
                       !.entry = IF call[cur].op = "sleep" THEN call[cur].entry ELSE k.tick] \in Callings
    BY <2>1, <2>2 DEF NoCall, Callings
  <2> QED BY <1>2, <1>3, <2>1, <2>3
<1>6. Control'
  <2>1. lock' \in -1 .. Len(Tasks) /\ susp' \in BOOLEAN /\ (susp => susp')
    BY <1>1 DEF KernelInv, Control
  <2> QED BY <1>1, <1>4, <1>5, <2>1, MovesKeep
<1>7. Resting'
  BY <1>1, <1>2, Primes DEF Resting, MostUrgent
<1> QED BY <1>1, <1>6, <1>7 DEF Keeps, KernelInv

(* The time that has passed is a number of ticks, an overflow of the count *)
(* included.                                                               *)
LEMMA ElapsedType ==
  ASSUME KernelInv, NEW c \in Callings
  PROVE  Elapsed(c) \in 0 .. Forever
<1>1. k.tick \in 0 .. Forever
  BY DEF KernelInv, StatesKept, KernelStates
<1>2. k.tick + TickMod - c.entry \in Int
  BY <1>1, ForeverType DEF Callings
<1> DEFINE d == k.tick + TickMod - c.entry
<1>3. d % TickMod \in 0 .. TickMod - 1
  <2> HIDE DEF d
  <2> QED BY <1>2, ForeverType DEF d
<1> QED BY <1>3, ForeverType DEF Elapsed

(* xTaskCheckForTimeOut takes off what has passed, never more than what is *)
(* left.                                                                   *)
LEMMA CheckKeeps ==
  ASSUME KernelInv, ~pendsv, Check(cur)
  PROVE  Keeps
<1> DEFINE c == call[cur]
<1>1. /\ pc[cur] = "check" /\ UNCHANGED <<lock, cur, susp, pendsv>>
  BY DEF Check, At
<1>2. /\ susp /\ MostUrgent /\ cur \in TaskSet /\ ~NeverWaits(cur) /\ cur \in ReadyIn(k)
  BY <1>1, Holding DEF Inside, NotYetWaiting
<1>3. call \in [TaskSet -> Callings] /\ c \in Callings /\ k \in KernelStates
  BY <1>2 DEF KernelInv, Control, StatesKept
<1>4. /\ lock' \in -1 .. Len(Tasks) /\ susp' \in BOOLEAN /\ (susp => susp')
  BY <1>1 DEF KernelInv, Control
<1>5. CASE /\ Goes(cur, "unlock") /\ UNCHANGED k
           /\ call' = [call EXCEPT ![cur] = [c EXCEPT !.w = 0, !.next = "out"]]
  <2>1. [c EXCEPT !.w = 0, !.next = "out"] \in Callings
    <3>1. 0 \in 0 .. Forever
      BY ForeverType
    <3> HIDE DEF c
    <3> QED BY <1>3, <3>1 DEF Callings
  <2>2. call' \in [TaskSet -> Callings]
    BY <1>2, <1>3, <1>5, <2>1
  <2>3. Control'
    BY <1>1, <1>2, <1>4, <1>5, <2>2, MovesKeep
  <2>4. Resting'
    BY <1>1, <1>2, <1>5, Primes DEF Resting, MostUrgent
  <2> QED BY <1>5, <2>3, <2>4 DEF Keeps, KernelInv
<1>6. CASE /\ ~TimedOut(cur) /\ Goes(cur, "test")
           /\ IF c.w = Forever THEN UNCHANGED <<call, k>>
              ELSE /\ call' = [call EXCEPT ![cur] = Left(c)]
                   /\ k' = [k EXCEPT !.wrapped = [@ EXCEPT ![cur] = FALSE]]
  <2>1. CASE c.w = Forever
    <3>1. UNCHANGED <<call, k>>
      BY <1>6, <2>1
    <3>2. Control'
      BY <1>1, <1>2, <1>3, <1>4, <1>6, <3>1, MovesKeep
    <3>3. Resting'
      BY <1>1, <1>2, <3>1, Primes DEF Resting, MostUrgent
    <3> QED BY <3>1, <3>2, <3>3 DEF Keeps, KernelInv
  <2>2. CASE c.w # Forever
    <3>1. call' = [call EXCEPT ![cur] = Left(c)] /\ k' = [k EXCEPT !.wrapped = [@ EXCEPT ![cur] = FALSE]]
      BY <1>6, <2>2
    <3>2. Left(c) \in Callings
      <4>1. Elapsed(c) \in 0 .. Forever
        BY <1>3, ElapsedType
      <4>2. ~(Elapsed(c) >= c.w)
        BY <1>6, <2>2 DEF TimedOut
      <4>3. c.w - Elapsed(c) \in 0 .. Forever /\ k.tick \in 0 .. Forever
        <5>1. c.w \in 0 .. Forever
          BY <1>3 DEF Callings
        <5>2. k.tick \in 0 .. Forever
          BY <1>3 DEF KernelStates
        <5> DEFINE e == Elapsed(c)
                   w == c.w
        <5> HIDE DEF e, w
        <5>3. w \in 0 .. Forever /\ e \in 0 .. Forever /\ ~(e >= w)
          BY <4>1, <4>2, <5>1 DEF e, w
        <5>4. w - e \in 0 .. Forever
          BY <5>3, ForeverType
        <5> QED BY <5>2, <5>4 DEF e, w
      <4> HIDE DEF c
      <4> QED BY <1>3, <4>3 DEF Left, Callings
    <3>3. call' \in [TaskSet -> Callings]
      BY <1>2, <1>3, <3>1, <3>2
    <3>4. /\ k' \in KernelStates /\ SameReady(k, k') /\ SameWaits(k, k') /\ SameEvents(k, k')
          /\ k'.pended = k.pended
      <4>1. [k.wrapped EXCEPT ![cur] = FALSE] \in [TaskSet -> BOOLEAN]
        BY <1>3 DEF KernelStates
      <4>2. k' \in KernelStates
        BY <1>3, <3>1, <4>1 DEF KernelStates
      <4> QED BY <1>3, <3>1, <4>2 DEF KernelStates, SameReady, SameWaits, SameEvents
    <3>5. /\ StatesKept(k') /\ EventsKept(k')
          /\ WaitingIn(k') = WaitingIn(k) /\ ReadyIn(k') = ReadyIn(k)
      <4>1. StatesKept(k) /\ EventsKept(k)
        BY DEF KernelInv
      <4> QED BY <3>4, <4>1, NotesKeep
    <3>6. Control'
      BY <1>1, <1>2, <1>4, <1>6, <3>3, <3>4, <3>5, Primes
         DEF KernelInv, ExclInv, Control, Goes, SameEvents
    <3>7. Resting'
      BY <1>1, <1>2, <3>5, Primes DEF Resting, MostUrgent
    <3> QED BY <3>5, <3>6, <3>7 DEF Keeps
  <2> QED BY <2>1, <2>2
<1> QED BY <1>5, <1>6 DEF Check

(* The current task goes to wait for the queue, and is the only one to     *)
(* stop being ready.                                                       *)
LEMMA PlaceKeeps ==
  ASSUME KernelInv, ~pendsv, Place(cur)
  PROVE  Keeps
<1>1. /\ pc[cur] = "place" /\ UNCHANGED <<lock, cur, susp, pendsv>> /\ Goes(cur, "unlock")
      /\ call' = [call EXCEPT ![cur].next = "block"]
      /\ k' = Placed(k, ListOf(cur), cur, call[cur].w)
  BY DEF Place, At
<1>2. /\ susp /\ MostUrgent /\ cur \in TaskSet /\ ~NeverWaits(cur) /\ cur \in ReadyIn(k)
  BY <1>1, Holding DEF Inside, NotYetWaiting
<1>3. call \in [TaskSet -> Callings] /\ call[cur] \in Callings
  BY <1>2 DEF KernelInv, Control
<1>4. call' \in [TaskSet -> Callings] /\ call'[cur].next = "block"
  <2>1. [call[cur] EXCEPT !.next = "block"] \in Callings
    BY <1>3 DEF Callings
  <2> QED BY <1>1, <1>2, <1>3, <2>1 DEF Callings
<1>5. /\ StatesKept(k') /\ EventsKept(k')
      /\ WaitingIn(k') = WaitingIn(k) \cup {cur} /\ ReadyIn(k') = ReadyIn(k) \ {cur}
      /\ k'.pended = k.pended
  <2>1. ListOf(cur) \in {"rx", "tx"} /\ call[cur].w \in 0 .. Forever
    BY <1>3 DEF ListOf, Callings
  <2>2. StatesKept(k) /\ EventsKept(k)
    BY DEF KernelInv
  <2> DEFINE w == call[cur].w
             l == ListOf(cur)
  <2> HIDE DEF w, l
  <2>3. k' = Placed(k, l, cur, w) /\ l \in {"rx", "tx"} /\ w \in 0 .. Forever
    BY <1>1, <2>1 DEF w, l
  <2>4. /\ StatesKept(k') /\ EventsKept(k')
        /\ WaitingIn(k') = WaitingIn(k) \cup {cur} /\ ReadyIn(k') = ReadyIn(k) \ {cur}
        /\ SameClock(k, k')
    BY <1>2, <2>2, <2>3, PlacedKeeps
  <2> QED BY <2>4 DEF SameClock
<1>6. Control'
  BY <1>1, <1>2, <1>4, <1>5, Primes DEF KernelInv, ExclInv, Control, Goes
<1>7. Resting'
  <2>1. pc'[cur] = "unlock"
    BY <1>1, <1>2 DEF KernelInv, ExclInv, Goes
  <2> QED BY <1>1, <1>2, <1>4, <1>5, <2>1, Primes DEF Resting, MostUrgent, NotYetWaiting
<1> QED BY <1>5, <1>6, <1>7 DEF Keeps

(* prvUnlockQueue wakes into the pending list only.                        *)
LEMMA UnlockKeeps ==
  ASSUME KernelInv, ~pendsv, Unlock(cur)
  PROVE  Keeps
<1>1. /\ pc[cur] = "unlock" /\ UNCHANGED <<cur, susp, pendsv, call>> /\ Goes(cur, "resume")
      /\ lock' = -1 /\ k' = Through(LAMBDA x, n : Woken(x, "rx"), k, SentMeanwhile)
  BY DEF Unlock, At
<1>2. /\ susp /\ MostUrgent /\ cur \in TaskSet /\ ~NeverWaits(cur)
      /\ NotYetWaiting => cur \in ReadyIn(k)
  BY <1>1, Holding DEF Inside
<1>3. Len(SentMeanwhile) \in Nat
  <2>1. lock \in Nat \/ lock = -1
    BY KernelAssumption DEF KernelInv, Control
  <2>2. CASE lock \in Nat
    BY <2>2 DEF SentMeanwhile
  <2>3. CASE lock = -1
    <3>1. SentMeanwhile = << >>
      BY <2>3 DEF SentMeanwhile
    <3> QED BY <3>1
  <2> QED BY <2>1, <2>2, <2>3
<1>4. AfterWoken(k, k', Len(SentMeanwhile))
  <2>1. StatesKept(k) /\ EventsKept(k)
    BY DEF KernelInv
  <2>2. AfterWoken(k, Through(LAMBDA y, n : Woken(y, "rx"), k, SentMeanwhile), Len(SentMeanwhile))
    BY <1>2, <1>3, <2>1, AllWoken
  <2> QED BY <1>1, <2>2
<1>5. /\ StatesKept(k') /\ EventsKept(k')
      /\ WaitingIn(k') = WaitingIn(k) /\ ReadyIn(k') = ReadyIn(k)
  <2>1. /\ StatesKept(k') /\ EventsKept(k') /\ SameReady(k, k') /\ SameWaits(k, k')
    BY <1>4 DEF AfterWoken
  <2>2. StatesKept(k) /\ k' \in KernelStates
    BY <2>1 DEF KernelInv, StatesKept
  <2> QED BY <2>1, <2>2, StatesMove
<1>6. Control'
  <2>1. -1 \in -1 .. Len(Tasks)
    BY KernelAssumption
  <2> QED BY <1>1, <1>2, <1>5, <2>1, Primes DEF KernelInv, ExclInv, Control, Goes
<1>7. Resting'
  <2>1. pc'[cur] = "resume"
    BY <1>1, <1>2 DEF KernelInv, ExclInv, Goes
  <2>2. NotYetWaiting' => NotYetWaiting
    BY <1>1, <2>1 DEF NotYetWaiting
  <2> QED BY <1>1, <1>2, <1>5, <2>2, Primes DEF Resting, MostUrgent
<1> QED BY <1>5, <1>6, <1>7 DEF Keeps

(* xTaskResumeAll readies what is pending, and yields if it is more urgent *)
(* or if the task has gone to wait.                                        *)
LEMMA ResumeKeeps ==
  ASSUME KernelInv, ~pendsv, Resume(cur)
  PROVE  Keeps
<1> DEFINE x == Resumed(k)
<1>1. /\ pc[cur] = "resume" /\ UNCHANGED <<lock, cur>> /\ susp' = FALSE
      /\ pendsv' = YieldsAfter(x, cur)
      /\ \/ (\E p : Goes(cur, p)) /\ k' = x /\ UNCHANGED call
         \/ ReturnsWith(x, cur)
  BY DEF Resume, At
<1>2. /\ susp /\ MostUrgent /\ cur \in TaskSet /\ ~NeverWaits(cur)
      /\ NotYetWaiting => cur \in ReadyIn(k)
  BY <1>1, Holding DEF Inside
<1>3. /\ StatesKept(x) /\ EventsKept(x) /\ x.pending = << >> /\ x.pended = 0
      /\ ReadyIn(k) \subseteq ReadyIn(x)
      /\ x.yield \/ \A u \in ReadyIn(x) \ ReadyIn(k) : Prio[u] <= Prio[cur]
  <2>1. StatesKept(k) /\ EventsKept(k)
    BY DEF KernelInv
  <2> QED BY <1>2, <2>1, ResumedKeeps
<1>4. x.yield \in BOOLEAN
  BY <1>3 DEF StatesKept, KernelStates
<1> HIDE DEF x
<1>5. /\ StatesKept(k') /\ EventsKept(k') /\ k'.pending = << >> /\ k'.pended = 0
      /\ WaitingIn(k') = WaitingIn(x) /\ ReadyIn(k') = ReadyIn(x)
      /\ call' \in [TaskSet -> Callings] /\ \E p : Goes(cur, p)
  <2>1. CASE (\E p : Goes(cur, p)) /\ k' = x /\ UNCHANGED call
    BY <1>3, <2>1 DEF KernelInv, Control
  <2>2. CASE ReturnsWith(x, cur)
    <3>1. PICK a \in Int : a = -1
      OBVIOUS
    <3>2. PICK b \in BOOLEAN : b = FALSE
      OBVIOUS
    <3>3. k' = Noted(x, cur, a, b)
      BY <2>2, <3>1, <3>2 DEF ReturnsWith, Noted
    <3>4. a \in Int /\ b \in BOOLEAN
      BY <3>1, <3>2
    <3> HIDE <3>1, <3>2
    <3>5. /\ StatesKept(k') /\ EventsKept(k') /\ k'.pending = << >> /\ k'.pended = 0
          /\ WaitingIn(k') = WaitingIn(x) /\ ReadyIn(k') = ReadyIn(x)
      BY <1>2, <1>3, <3>3, <3>4, NotedKeeps
    <3>6. call' = [call EXCEPT ![cur] = NoCall] /\ Goes(cur, "app")
      BY <2>2 DEF ReturnsWith
    <3>7. call' \in [TaskSet -> Callings]
      BY <1>2, <3>6, NoCallType DEF KernelInv, Control
    <3> QED BY <3>5, <3>6, <3>7
  <2> QED BY <1>1, <2>1, <2>2
<1>6. pendsv' \in BOOLEAN
  BY <1>1, <1>4 DEF YieldsAfter
<1>7. Control'
  <2>1. \A t \in TaskSet : NeverWaits(t) => t \notin WaitingIn(k')
    <3>1. \A t \in TaskSet : NeverWaits(t) => t \in ReadyIn(k)
      BY DEF KernelInv, Control, StatesKept, Divided
    <3>2. Divided(k') /\ ReadyIn(k) \subseteq ReadyIn(k')
      BY <1>3, <1>5 DEF StatesKept
    <3> QED BY <3>1, <3>2 DEF Divided
  <2>2. \A t \in TaskSet : NeverWaits(t) => pc'[t] = "app"
    <3>1. PICK p : pc' = [pc EXCEPT ![cur] = p]
      BY <1>5 DEF Goes
    <3> QED BY <1>2, <3>1 DEF KernelInv, ExclInv, Control
  <2>3. /\ cur' \in TaskSet /\ susp' \in BOOLEAN /\ lock' \in -1 .. Len(Tasks)
    BY <1>1, <1>2 DEF KernelInv, Control
  <2>4. ~(k'.pended > 0 \/ k'.pending # << >>)
    BY <1>5
  <2> QED BY <1>5, <1>6, <2>1, <2>2, <2>3, <2>4, Primes DEF Control
<1>8. Resting'
  <2>1. ASSUME ~pendsv' PROVE ~x.yield /\ cur \in ReadyIn(k)
    <3>1. ~x.yield /\ call[cur].next # "block"
      BY <1>1, <2>1 DEF YieldsAfter
    <3> QED BY <1>1, <1>2, <3>1 DEF NotYetWaiting
  <2>2. ASSUME ~pendsv' PROVE \A u \in ReadyIn(x) : Prio[u] <= Prio[cur]
    BY <1>2, <1>3, <2>1, <2>2 DEF MostUrgent
  <2> QED BY <1>1, <1>2, <1>3, <1>5, <2>1, <2>2, Primes DEF Resting, MostUrgent
<1> QED BY <1>5, <1>7, <1>8 DEF Keeps

(* What the lists are after the call has delayed its task, or not.         *)
LEMMA SleepPlaced ==
  ASSUME KernelInv, PlaceSleep(cur)
  PROVE  /\ StatesKept(k') /\ EventsKept(k') /\ SameEvents(k, k') /\ k'.pended = k.pended
         /\ WaitingIn(k') \subseteq WaitingIn(k) \cup {cur} /\ ReadyIn(k') \subseteq ReadyIn(k)
         /\ call' \in [TaskSet -> Callings] /\ call'[cur].next = call[cur].next
         /\ \E c : call' = [call EXCEPT ![cur] = c] /\ c.op = call[cur].op
<1>1. /\ pc[cur] = "delay" 
  BY DEF PlaceSleep, At
<1>2. /\ susp /\ MostUrgent /\ cur \in TaskSet /\ ~NeverWaits(cur) /\ cur \in ReadyIn(k)
  BY <1>1, Holding DEF Inside, NotYetWaiting
<1>3. /\ call \in [TaskSet -> Callings] /\ call[cur] \in Callings /\ k.tick \in 0 .. Forever
      /\ StatesKept(k) /\ EventsKept(k)
  BY <1>2 DEF KernelInv, Control, StatesKept, KernelStates
<1> DEFINE wake == (call[cur].entry + call[cur].w) % TickMod
           left == (wake + TickMod - k.tick) % TickMod
<1>4. wake \in 0 .. Forever /\ left \in 0 .. Forever
  <2>1. call[cur].entry \in Nat /\ call[cur].w \in Nat /\ k.tick \in 0 .. Forever
    BY <1>3, ForeverType DEF Callings
  <2> DEFINE s == call[cur].entry + call[cur].w
  <2>2. s \in Int
    BY <2>1
  <2>3. s % TickMod \in 0 .. TickMod - 1
    <3> HIDE DEF s
    <3> QED BY <2>2, ForeverType
  <2>4. wake \in 0 .. Forever
    BY <2>3, ForeverType
  <2> HIDE DEF wake
  <2> DEFINE d == wake + TickMod - k.tick
  <2>5. d \in Int
    BY <2>1, <2>4, ForeverType
  <2>6. d % TickMod \in 0 .. TickMod - 1
    <3> HIDE DEF d
    <3> QED BY <2>5, ForeverType
  <2> QED BY <2>4, <2>6, ForeverType
<1>5. \E a \in {left, 0} : call' = [call EXCEPT ![cur] = [call[cur] EXCEPT !.entry = wake, !.asked = a]]
  BY DEF PlaceSleep
<1>6. \/ k' = k
      \/ k' = [Delayed(k, cur, left, FALSE) EXCEPT !.age = [Delayed(k, cur, left, FALSE).age EXCEPT ![cur] = 0]]
  BY DEF PlaceSleep
<1> HIDE DEF wake, left
<1>7. /\ call' \in [TaskSet -> Callings] /\ call'[cur].next = call[cur].next
      /\ \E c : call' = [call EXCEPT ![cur] = c] /\ c.op = call[cur].op
  <2>1. PICK a \in {left, 0} : call' = [call EXCEPT ![cur] = [call[cur] EXCEPT !.entry = wake, !.asked = a]]
    BY <1>5
  <2>2. a \in 0 .. Forever
    BY <1>4, ForeverType
  <2>3. [call[cur] EXCEPT !.entry = wake, !.asked = a] \in Callings
    BY <1>3, <1>4, <2>2 DEF Callings
  <2>4. /\ [call[cur] EXCEPT !.entry = wake, !.asked = a].next = call[cur].next
        /\ [call[cur] EXCEPT !.entry = wake, !.asked = a].op = call[cur].op
    BY <1>3 DEF Callings
  <2> QED BY <1>2, <1>3, <2>1, <2>3, <2>4
<1>8. /\ StatesKept(k') /\ EventsKept(k') /\ SameEvents(k, k') /\ k'.pended = k.pended
      /\ WaitingIn(k') \subseteq WaitingIn(k) \cup {cur} /\ ReadyIn(k') \subseteq ReadyIn(k)
  <2>1. CASE k' = k
    BY <1>3, <2>1 DEF SameEvents
  <2>2. CASE k' = [Delayed(k, cur, left, FALSE) EXCEPT !.age = [Delayed(k, cur, left, FALSE).age EXCEPT ![cur] = 0]]
    <3> DEFINE y == Delayed(k, cur, left, FALSE)
    <3>1. AfterDelay(k, y, cur)
      <4>1. PICK b \in BOOLEAN : b = FALSE
        OBVIOUS
      <4>2. b \in BOOLEAN /\ y = Delayed(k, cur, left, b)
        BY <4>1
      <4> HIDE <4>1
      <4> HIDE DEF y
      <4> QED BY <1>2, <1>3, <1>4, <4>2, DelayedKeeps
    <3> HIDE DEF y
    <3>2. /\ StatesKept(y) /\ WaitingIn(y) = WaitingIn(k) \cup {cur} /\ ReadyIn(y) = ReadyIn(k) \ {cur}
          /\ SameEvents(k, y) /\ y.pended = k.pended
      BY <3>1 DEF AfterDelay, SameClock
    <3>3. y \in KernelStates
      BY <3>2 DEF StatesKept
    <3>4. k' = [y EXCEPT !.age = [y.age EXCEPT ![cur] = 0]]
      BY <2>2 DEF y
    <3>5. /\ k' \in KernelStates /\ SameReady(y, k') /\ SameWaits(y, k') /\ SameEvents(y, k')
          /\ k'.pended = y.pended
      <4>0. y.age \in [TaskSet -> Int] /\ 0 \in Int
        BY <3>3 DEF KernelStates
      <4>1. [y.age EXCEPT ![cur] = 0] \in [TaskSet -> Int]
        BY <4>0
      <4>2. k' \in KernelStates
        BY <3>3, <3>4, <4>1 DEF KernelStates
      <4> QED BY <3>3, <3>4, <4>2 DEF KernelStates, SameReady, SameWaits, SameEvents
    <3>6. EventsKept(y)
      BY <1>3, <3>2, EventsMove
    <3>7. /\ StatesKept(k') /\ EventsKept(k')
          /\ WaitingIn(k') = WaitingIn(y) /\ ReadyIn(k') = ReadyIn(y)
      BY <3>2, <3>5, <3>6, NotesKeep
    <3> QED BY <3>2, <3>5, <3>7 DEF SameEvents
  <2> QED BY <1>6, <2>1, <2>2
<1> QED BY <1>7, <1>8

(* vTaskDelayUntil delays its caller, or finds its time already over.      *)
LEMMA PlaceSleepKeeps ==
  ASSUME KernelInv, ~pendsv, PlaceSleep(cur)
  PROVE  Keeps
<1>1. /\ pc[cur] = "delay" /\ UNCHANGED <<lock, cur, susp, pendsv>> /\ Goes(cur, "resume")
  BY DEF PlaceSleep, At
<1>2. /\ susp /\ MostUrgent /\ cur \in TaskSet /\ ~NeverWaits(cur) /\ cur \in ReadyIn(k)
  BY <1>1, Holding DEF Inside, NotYetWaiting
<1>3. call' \in [TaskSet -> Callings] /\ call'[cur].next = call[cur].next
  BY SleepPlaced
<1>4. /\ StatesKept(k') /\ EventsKept(k') /\ k'.pended = k.pended
      /\ WaitingIn(k') \subseteq WaitingIn(k) \cup {cur} /\ ReadyIn(k') \subseteq ReadyIn(k)
  BY SleepPlaced
<1>5. Control'
  BY <1>1, <1>2, <1>3, <1>4, Primes DEF KernelInv, ExclInv, Control, Goes
<1>6. Resting'
  <2>1. pc'[cur] = "resume"
    BY <1>1, <1>2 DEF KernelInv, ExclInv, Goes
  <2>2. call[cur].next = "block"
    BY <1>1, <1>2 DEF KernelInv, Sleeping
  <2> QED BY <1>1, <1>2, <1>3, <1>4, <2>1, <2>2, Primes DEF Resting, MostUrgent, NotYetWaiting
<1> QED BY <1>4, <1>5, <1>6 DEF Keeps

(* No action but the beginning of a sleep goes to "delay".                 *)
LEMMA SleepingKept ==
  ASSUME KernelInv, [Next]_vars
  PROVE  Sleeping'
<1>0. cur \in TaskSet /\ call \in [TaskSet -> Callings] /\ pc \in [TaskSet -> Places] /\ Sleeping
  BY DEF KernelInv, Control, ExclInv
<1> USE DEF Sleeping
<1>1. CASE UNCHANGED vars
  BY <1>0, <1>1 DEF vars
<1>2. CASE SwitchContext
  BY <1>0, <1>2 DEF SwitchContext
<1>3. CASE Tick
  BY <1>0, <1>3 DEF Tick
<1>4. CASE CanInterrupt
  BY <1>0, <1>4 DEF CanInterrupt
<1>5. CASE Step(cur)
  <2> USE DEF At, Goes
  <2>1. ASSUME NEW p, p # "delay", pc' = [pc EXCEPT ![cur] = p],
               \A t \in TaskSet \ {cur} : call'[t] = call[t]
        PROVE  Sleeping'
    BY <1>0, <2>1
  <2>2. CASE TryReceive(cur)
    BY <1>0, <2>1, <2>2 DEF TryReceive, GoesToWait, Returns, ReturnsWith
  <2>3. CASE TrySend(cur)
    BY <1>0, <2>1, <2>3 DEF TrySend, GoesToWait, Returns, ReturnsWith
  <2>4. CASE Suspend(cur)
    BY <1>0, <2>1, <2>4 DEF Suspend
  <2>5. CASE Lock(cur)
    BY <1>0, <2>1, <2>5 DEF Lock
  <2>6. CASE Check(cur)
    BY <1>0, <2>1, <2>6 DEF Check
  <2>7. CASE Test(cur)
    BY <1>0, <2>1, <2>7 DEF Test
  <2>8. CASE Place(cur)
    BY <1>0, <2>1, <2>8 DEF Place
  <2>9. CASE Unlock(cur)
    BY <1>0, <2>1, <2>9 DEF Unlock
  <2>10. CASE Resume(cur)
    BY <1>0, <2>1, <2>10 DEF Resume, ReturnsWith
  <2>11. CASE Final(cur)
    BY <1>0, <2>1, <2>11 DEF Final, Returns, ReturnsWith
  <2>12. CASE Sleep(cur)
    <3>1. pc' = [pc EXCEPT ![cur] = "delay"]
      BY <2>12 DEF Sleep
    <3>2. PICK c : call' = [call EXCEPT ![cur] = [NoCall EXCEPT !.op = "sleep", !.w = c.w, !.next = "block",
                              !.entry = IF call[cur].op = "sleep" THEN call[cur].entry ELSE k.tick]]
      BY <2>12 DEF Sleep
    <3>3. call'[cur].next = "block" /\ \A t \in TaskSet \ {cur} : call'[t] = call[t]
      BY <1>0, <3>2 DEF NoCall
    <3> QED BY <1>0, <3>1, <3>3
  <2>13. CASE PlaceSleep(cur)
    BY <1>0, <2>1, <2>13 DEF PlaceSleep
  <2> QED BY <1>5, <2>2, <2>3, <2>4, <2>5, <2>6, <2>7, <2>8, <2>9, <2>10, <2>11, <2>12, <2>13
         DEF Step
<1> QED BY <1>1, <1>2, <1>3, <1>4, <1>5 DEF Next, Processor

(* The scheduler starts with all tasks ready and the right one running.    *)
LEMMA InitKeeps == Init => KernelInv
<1> SUFFICES ASSUME Init PROVE KernelInv
  OBVIOUS
<1>1. /\ k \in KernelStates /\ ReadyKept(k) /\ ReadyIn(k) = TaskSet
      /\ SameWaits(Uncreated, k) /\ SameEvents(Uncreated, k) /\ SameClock(Uncreated, k)
  BY AllCreated DEF Init, AfterCreation
<1>2. /\ k.delayed = << >> /\ k.overflow = << >> /\ k.suspended = << >>
      /\ k.rx = << >> /\ k.tx = << >> /\ k.pending = << >>
      /\ k.pended = 0 /\ k.unblock = Forever
  BY <1>1 DEF Uncreated, SameWaits, SameEvents, SameClock
<1>3. /\ Range(<< >>) = {} /\ IsInjective(<< >>) /\ \A w : Sorted(<< >>, w)
  BY DEF Range, IsInjective, Sorted
<1>4. WaitingIn(k) = {}
  BY <1>2, <1>3 DEF WaitingIn
<1>5. StatesKept(k)
  <2>1. WaitKept(k)
    <3>1. k.unblock <= HeadWake(k)
      BY <1>2, ForeverType DEF HeadWake
    <3> QED BY <1>2, <1>3, <3>1 DEF WaitKept
  <2> QED BY <1>1, <1>4, <2>1 DEF StatesKept, Divided
<1>6. EventsKept(k)
  BY <1>2, <1>3, <1>4 DEF EventsKept
<1>7. PICK i \in DOMAIN Tasks :
        /\ cur = Tasks[i]
        /\ \A j \in DOMAIN Tasks :
             Prio[Tasks[j]] < Prio[cur] \/ (Prio[Tasks[j]] = Prio[cur] /\ j <= i)
  BY DEF Init, RunsFirst
<1>8. \A u : u \in TaskSet <=> \E j \in DOMAIN Tasks : u = Tasks[j]
  BY DEF TaskSet, Range
<1>9. cur \in TaskSet
  BY <1>7, <1>8
<1>10. \A u \in TaskSet : Prio[u] <= Prio[cur]
  BY <1>7, <1>8, <1>9, LevelOf
<1>11. ExclInv
  BY DEF Init, ExclInv, Exclusive, LockInv, Inside, Places
<1>12. Control
  <2>1. -1 \in -1 .. Len(Tasks)
    BY KernelAssumption
  <2>2. call \in [TaskSet -> Callings]
    BY NoCallType DEF Init
  <2>3. lock = -1 /\ pendsv = FALSE /\ susp = FALSE /\ \A t \in TaskSet : pc[t] = "app"
    BY DEF Init
  <2>4. ~(k.pended > 0 \/ k.pending # << >>)
    BY <1>2
  <2> QED BY <1>4, <1>9, <2>1, <2>2, <2>3, <2>4 DEF Control
<1>13. Sleeping /\ Resting
  BY <1>1, <1>9, <1>10 DEF Init, Sleeping, Resting, MostUrgent
<1> QED BY <1>5, <1>6, <1>11, <1>12, <1>13 DEF KernelInv

(* Every step of the task that has the processor,                          *)
LEMMA StepKeeps ==
  ASSUME KernelInv, ~pendsv, Step(cur)
  PROVE  Keeps
BY SuspendKeeps, LockKeeps, TestKeeps, FinalKeeps, SleepKeeps, CheckKeeps, PlaceKeeps,
   UnlockKeeps, ResumeKeeps, PlaceSleepKeeps, TryReceiveKeeps, TrySendKeeps DEF Step

(* ... every interrupt and every switch keeps the invariant.               *)
LEMMA NextKeeps == KernelInv /\ [Next]_vars => KernelInv'
<1> SUFFICES ASSUME KernelInv, [Next]_vars PROVE KernelInv'
  OBVIOUS
<1>1. ExclInv'
  BY ExclusiveKept DEF KernelInv, Control
<1>2. Sleeping'
  BY SleepingKept
<1>3. CASE UNCHANGED vars
  <2>1. StatesKept(k') /\ EventsKept(k')
    BY <1>3 DEF vars, KernelInv
  <2>2. Control'
    BY <1>3, Primes DEF vars, KernelInv, Control
  <2>3. Resting'
    BY <1>3, Primes DEF vars, KernelInv, Resting, MostUrgent, NotYetWaiting
  <2> QED BY <1>1, <1>2, <2>1, <2>2, <2>3, Primes DEF KernelInv
<1>4. CASE Next
  <2>1. Keeps
    BY <1>4, SwitchContextKeeps, TickKeeps, CanInterruptKeeps, StepKeeps DEF Next, Processor
  <2> QED BY <1>1, <1>2, <2>1, Primes DEF KernelInv, Keeps
<1> QED BY <1>3, <1>4

(* The lists, the clock and the events fit together whatever interrupts    *)
(* do, and nothing more urgent than the current task is ready unless a     *)
(* switch is pending.                                                      *)
THEOREM KernelInvariant == Spec => []KernelInv
BY InitKeeps, NextKeeps, PTL DEF Spec

(* Suspending the scheduler excludes the other tasks, and a locked queue   *)
(* is never left to them.                                                  *)
THEOREM SuspensionExcludes == Spec => []Exclusive
<1>1. KernelInv => Exclusive
  BY DEF KernelInv, ExclInv
<1> QED BY <1>1, KernelInvariant, PTL

(* The sets of the properties and those of the invariant are the same.     *)
LEMMA SameOnes == Waiting = WaitingIn(k) /\ ReadyOnes = ReadyIn(k)
BY DEF Waiting, WaitingIn, ReadyOnes, ReadyIn

(* No yield is ever forgotten: as soon as no switch is pending and the     *)
(* scheduler runs, the current task is a most urgent ready one.            *)
THEOREM MostUrgentRuns == Spec => []UrgentRuns
<1>1. KernelInv => UrgentRuns
  BY SameOnes DEF KernelInv, Resting, MostUrgent, UrgentRuns
<1> QED BY <1>1, KernelInvariant, PTL

(* The bookkeeping of the lists is exact: each task is in one state list   *)
(* only, in its own level's when ready, in an event list only while it     *)
(* waits, and the bits of the levels and the next time to look at the      *)
(* delayed tasks are right.                                                *)
THEOREM KernelTypeCorrect == Spec => []TypeOK
<1>1. ASSUME KernelInv, Sound(ring) PROVE TypeOK
  <2> USE DEF KernelInv
  <2>1. ring \in Rings /\ Aligned(ring) /\ Filled(ring)
    BY <1>1 DEF Sound
  <2>2. k \in KernelStates
    BY <1>1 DEF StatesKept
  <2>3. lock \in -1 .. Len(Tasks) /\ cur \in TaskSet /\ (k.pended > 0 => susp) /\ (k.pending # << >> => susp)
    BY <1>1 DEF Control
  <2>4. k.tick \in 0 .. Forever /\ k.pended \in 0 .. MaxPended
    BY <2>2 DEF KernelStates
  <2>5. /\ k.top = {p \in Levels : Members(k.ready[p]) # {}}
        /\ \A p \in Levels : \A t \in Members(k.ready[p]) : Prio[t] = p
    BY <1>1 DEF StatesKept, ReadyKept
  <2>6. Waiting \cap ReadyOnes = {} /\ Waiting \cup ReadyOnes = TaskSet
    BY <1>1, SameOnes DEF StatesKept, Divided
  <2>7. Len(k.delayed) + Len(k.overflow) + Len(k.suspended) = Cardinality(Waiting)
    <3>1. k.delayed \in Seq(TaskSet) /\ k.overflow \in Seq(TaskSet) /\ k.suspended \in Seq(TaskSet)
      BY <2>2 DEF KernelStates
    <3>2. /\ IsInjective(k.delayed) /\ IsInjective(k.overflow) /\ IsInjective(k.suspended)
          /\ Range(k.delayed) \cap Range(k.overflow) = {}
          /\ Range(k.delayed) \cap Range(k.suspended) = {}
          /\ Range(k.overflow) \cap Range(k.suspended) = {}
      BY <1>1 DEF StatesKept, WaitKept
    <3> DEFINE a == k.delayed
               b == k.overflow
               c == k.suspended
    <3> HIDE DEF a, b, c
    <3>3. /\ a \in Seq(TaskSet) /\ b \in Seq(TaskSet) /\ c \in Seq(TaskSet)
          /\ IsInjective(a) /\ IsInjective(b) /\ IsInjective(c)
          /\ Range(a) \cap Range(b) = {} /\ Range(a) \cap Range(c) = {} /\ Range(b) \cap Range(c) = {}
      BY <3>1, <3>2 DEF a, b, c
    <3>4. Len(a) + Len(b) + Len(c) = Cardinality(Range(a) \cup Range(b) \cup Range(c))
      BY <3>3, ThreeLists
    <3> QED BY <3>4 DEF Waiting, a, b, c
  <2>8. Len(k.rx) + Len(k.tx) + Len(k.pending) = Cardinality(Range(k.rx) \cup Range(k.tx) \cup Range(k.pending))
    <3>1. k.rx \in Seq(TaskSet) /\ k.tx \in Seq(TaskSet) /\ k.pending \in Seq(TaskSet)
      BY <2>2 DEF KernelStates
    <3>2. /\ IsInjective(k.rx) /\ IsInjective(k.tx) /\ IsInjective(k.pending)
          /\ Range(k.rx) \cap Range(k.tx) = {} /\ Range(k.rx) \cap Range(k.pending) = {}
          /\ Range(k.tx) \cap Range(k.pending) = {}
      BY <1>1 DEF EventsKept
    <3> DEFINE a == k.rx
               b == k.tx
               c == k.pending
    <3> HIDE DEF a, b, c
    <3>3. /\ a \in Seq(TaskSet) /\ b \in Seq(TaskSet) /\ c \in Seq(TaskSet)
          /\ IsInjective(a) /\ IsInjective(b) /\ IsInjective(c)
          /\ Range(a) \cap Range(b) = {} /\ Range(a) \cap Range(c) = {} /\ Range(b) \cap Range(c) = {}
      BY <3>1, <3>2 DEF a, b, c
    <3>4. Len(a) + Len(b) + Len(c) = Cardinality(Range(a) \cup Range(b) \cup Range(c))
      BY <3>3, ThreeLists
    <3> QED BY <3>4 DEF a, b, c
  <2>9. Range(k.rx) \cup Range(k.tx) \cup Range(k.pending) \subseteq Waiting
    BY <1>1, SameOnes DEF EventsKept
  <2>10. k.unblock <= HeadWake(k)
    BY <1>1 DEF StatesKept, WaitKept
  <2> QED BY <2>1, <2>3, <2>4, <2>5, <2>6, <2>7, <2>8, <2>9, <2>10 DEF TypeOK
<1> QED BY <1>1, KernelInvariant, StorageSound, PTL

-----------------------------------------------------------------------------
(* WAKE-UPS                                                                *)

(* The tasks that will look at the queue before they return.               *)
LooksFrom(p, c) == p = "try" \/ (p \in {"unlock", "resume"} /\ c.next # "out")
Looks(t) == LooksFrom(pc[t], call[t])

Receivers == {t \in TaskSet : InCall(t, "receive") /\ t \notin Range(k.rx)}
Senders   == {t \in TaskSet : InCall(t, "send") /\ Looks(t) /\ t \notin Range(k.tx)}

(* Who waits for an event has asked for it, and will look when woken.      *)
Awaited ==
  /\ \A t \in Range(k.rx) : InCall(t, "receive") /\ Looks(t)
  /\ \A t \in Range(k.tx) : InCall(t, "send") /\ Looks(t)
  /\ \A t \in TaskSet :
       /\ pc[t] \in {"suspend", "lock", "check", "test", "place"} => call[t].op \in {"receive", "send"}
       /\ pc[t] = "app" => call[t].op \notin {"receive", "send"}

(* The lock counts the sends, up to the number of tasks: n of them are     *)
(* made good when the queue is unlocked, or as many as there are tasks.    *)
Counts(n) == n <= lock \/ lock = Len(Tasks)

(* What a task has seen when it is about to wait is true but for the sends *)
(* that are counted.                                                       *)
Seen ==
  \A t \in TaskSet :
    /\ pc[t] \in {"check", "test", "place", "unlock"} => lock # -1
    /\ pc[t] = "place" /\ InCall(t, "receive") => Counts(ring.waiting)
    /\ pc[t] = "place" /\ InCall(t, "send") => ring.waiting = Length

(* Each item has a task that was woken for it and is still to look, or is  *)
(* counted; each free place has one.                                       *)
ItemsServed ==
  k.rx # << >> => IF lock = -1 THEN ring.waiting <= Cardinality(Receivers)
                               ELSE Counts(ring.waiting - Cardinality(Receivers))
RoomServed == k.tx # << >> => Length - ring.waiting <= Cardinality(Senders)

WakeInv == Awaited /\ Seen /\ ItemsServed /\ RoomServed

(* What is known of the two lists of waiting tasks.                        *)
EventLists(x) ==
  x.rx \in Seq(TaskSet) /\ x.tx \in Seq(TaskSet) /\ IsInjective(x.rx) /\ IsInjective(x.tx)

(* The two event lists of the queue.                                       *)
LEMMA EventListsType ==
  ASSUME NEW x, StatesKept(x), EventsKept(x)
  PROVE  EventLists(x)
BY DEF StatesKept, KernelStates, EventsKept, EventLists

(* The tasks are finitely many, as many as were created.                   *)
LEMMA TaskCount ==
  /\ IsFiniteSet(TaskSet) /\ Cardinality(TaskSet) = Len(Tasks) /\ Len(Tasks) \in Nat
<1>1. Tasks \in Seq(TaskSet) /\ IsInjective(Tasks)
  BY KernelAssumption
<1> QED BY <1>1, ListCardinality, ListType DEF TaskSet

(* The sets of tasks that are counted are finite, and their numbers        *)
(* naturals.                                                               *)
LEMMA SomeTasks ==
  ASSUME NEW S \in SUBSET TaskSet
  PROVE  IsFiniteSet(S) /\ Cardinality(S) \in Nat /\ Cardinality(S) <= Len(Tasks)
BY TaskCount, FS_Subset, FS_CardinalityType

(* The larger of two sets of tasks has no fewer tasks ...                  *)
LEMMA MoreTasks ==
  ASSUME NEW S \in SUBSET TaskSet, NEW T \in SUBSET S
  PROVE  /\ Cardinality(S) \in Nat /\ Cardinality(T) \in Nat
         /\ Cardinality(T) <= Cardinality(S)
BY SomeTasks, FS_Subset, FS_CardinalityType

(* ... and one more when it has one task more.                             *)
LEMMA OneMoreTask ==
  ASSUME NEW S \in SUBSET TaskSet, NEW t \in TaskSet, t \notin S
  PROVE  /\ Cardinality(S) \in Nat /\ Cardinality(S \cup {t}) = Cardinality(S) + 1
<1>1. IsFiniteSet(S)
  BY SomeTasks
<1> QED BY <1>1, FS_AddElement, FS_CardinalityType

(* Leaving out one task leaves out one at most.                            *)
LEMMA OneTaskLess ==
  ASSUME NEW S \in SUBSET TaskSet, NEW T \in SUBSET TaskSet, NEW t, S \ {t} \subseteq T
  PROVE  /\ Cardinality(S) \in Nat /\ Cardinality(T) \in Nat
         /\ Cardinality(S) - 1 <= Cardinality(T)
<1>1. CASE t \in S
  <2> DEFINE R == S \ {t}
  <2>1. R \in SUBSET TaskSet /\ t \in TaskSet /\ t \notin R /\ S = R \cup {t}
    BY <1>1
  <2>2. Cardinality(R) \in Nat /\ Cardinality(S) = Cardinality(R) + 1
    <3> HIDE DEF R
    <3> QED BY <2>1, OneMoreTask
  <2>3. Cardinality(R) <= Cardinality(T) /\ Cardinality(T) \in Nat
    BY MoreTasks
  <2> HIDE DEF R
  <2> QED BY <2>2, <2>3
<1>2. CASE t \notin S
  BY <1>2, MoreTasks
<1> QED BY <1>1, <1>2

(* The queue holds no more than there is room for.                         *)
LEMMA WaitingType ==
  ASSUME Sound(ring)
  PROVE  ring.waiting \in Nat /\ ring.waiting <= Length /\ Length \in Nat
BY RingAssumption DEF Sound, Rings

(* Before and after a step.                                                *)
LEMMA ServedSets ==
  /\ Receivers \in SUBSET TaskSet /\ Receivers' \in SUBSET TaskSet
  /\ Senders \in SUBSET TaskSet /\ Senders' \in SUBSET TaskSet
  /\ Cardinality(Receivers)' = Cardinality(Receivers')
  /\ Cardinality(Senders)' = Cardinality(Senders')
BY DEF Receivers, Senders

(* A step that stops no task from looking serves no item less ...          *)
LEMMA ItemsStayServed ==
  ASSUME ItemsServed, Sound(ring), lock \in Int, lock' = lock, ring'.waiting = ring.waiting,
         Receivers \subseteq Receivers', k.rx = << >> => k'.rx = << >>
  PROVE  ItemsServed'
<1> DEFINE n == Cardinality(Receivers)
           m == Cardinality(Receivers')
<1>1. n \in Nat /\ m \in Nat /\ n <= m
  BY ServedSets, MoreTasks
<1>2. Cardinality(Receivers)' = m
  BY ServedSets
<1>3. k.rx # << >> => IF lock = -1 THEN ring.waiting <= n
                               ELSE ring.waiting - n <= lock \/ lock = Len(Tasks)
  BY DEF ItemsServed, Counts
<1>4. ring.waiting \in Nat
  BY WaitingType
<1> HIDE DEF n, m
<1>5. k'.rx # << >> => IF lock' = -1 THEN ring'.waiting <= m
                               ELSE ring'.waiting - m <= lock' \/ lock' = Len(Tasks)
  BY <1>1, <1>3, <1>4
<1> QED BY <1>2, <1>5 DEF ItemsServed, Counts

(* ... and one that makes no room leaves no room unserved.                 *)
LEMMA RoomStaysServed ==
  ASSUME RoomServed, Sound(ring), ring'.waiting \in Nat, ring'.waiting >= ring.waiting,
         Senders \subseteq Senders', k.tx = << >> => k'.tx = << >>
  PROVE  RoomServed'
<1> DEFINE n == Cardinality(Senders)
           m == Cardinality(Senders')
<1>1. n \in Nat /\ m \in Nat /\ n <= m
  BY ServedSets, MoreTasks
<1>2. Cardinality(Senders)' = m
  BY ServedSets
<1>3. k.tx # << >> => Length - ring.waiting <= n
  BY DEF RoomServed
<1>4. ring.waiting \in Nat /\ Length \in Nat
  BY WaitingType
<1> HIDE DEF n, m
<1>5. k'.tx # << >> => Length - ring'.waiting <= m
  BY <1>1, <1>3, <1>4
<1> QED BY <1>2, <1>5 DEF RoomServed

(* A list whose entries are all in an empty list is empty.                 *)
LEMMA NoneLeft ==
  ASSUME NEW s \in Seq(TaskSet), NEW r \in Seq(TaskSet), Range(r) \subseteq Range(s), s = << >>
  PROVE  r = << >>
<1>1. Range(s) = {}
  BY DEF Range
<1>2. r # << >> => 1 \in DOMAIN r
  BY ListType
<1> QED BY <1>1, <1>2 DEF Range

(* Interrupts and switches leave the calls alone.                          *)
LEMMA AwaitedStays ==
  ASSUME Awaited, UNCHANGED <<pc, call>>,
         Range(k'.rx) \subseteq Range(k.rx), Range(k'.tx) \subseteq Range(k.tx)
  PROVE  Awaited' /\ Receivers \subseteq Receivers' /\ Senders \subseteq Senders'
<1>1. Awaited'
  BY DEF Awaited, InCall, Looks
<1>2. Receivers \subseteq Receivers' /\ Senders \subseteq Senders'
  BY DEF Receivers, Senders, InCall, Looks
<1> QED BY <1>1, <1>2

(* The current task goes on to p, with c for its call.                     *)
GoesOn(p, c) == pc' = [pc EXCEPT ![cur] = p] /\ call' = [call EXCEPT ![cur] = c]

(* A step of a task concerns no other one.                                 *)
LEMMA AwaitedMoves ==
  ASSUME KernelInv, Awaited, NEW p, NEW c, GoesOn(p, c),
         Range(k'.rx) \subseteq Range(k.rx) \cup {cur}, Range(k'.tx) \subseteq Range(k.tx) \cup {cur},
         cur \in Range(k'.rx) => c.op = "receive" /\ LooksFrom(p, c),
         cur \in Range(k'.tx) => c.op = "send" /\ LooksFrom(p, c),
         p \in {"suspend", "lock", "check", "test", "place"} => c.op \in {"receive", "send"},
         p = "app" => c.op \notin {"receive", "send"}
  PROVE  /\ Awaited' /\ Receivers \ {cur} \subseteq Receivers' /\ Senders \ {cur} \subseteq Senders'
         /\ cur \in Receivers' <=> c.op = "receive" /\ cur \notin Range(k'.rx)
         /\ cur \in Senders' <=> c.op = "send" /\ LooksFrom(p, c) /\ cur \notin Range(k'.tx)
<1>1. /\ cur \in TaskSet /\ pc'[cur] = p /\ call'[cur] = c
      /\ \A t \in TaskSet : t # cur => pc'[t] = pc[t] /\ call'[t] = call[t]
  BY DEF KernelInv, Control, ExclInv, GoesOn
<1>2. \A t \in Range(k'.rx) \cup Range(k'.tx) : t \in TaskSet
  <2>1. Range(k.rx) \subseteq TaskSet /\ Range(k.tx) \subseteq TaskSet
    BY EventListsType, ListType DEF KernelInv, EventLists
  <2> QED BY <1>1, <2>1
<1>3. Awaited'
  <2>1. \A t \in Range(k'.rx) : call'[t].op = "receive" /\ LooksFrom(pc'[t], call'[t])
    BY <1>1, <1>2 DEF Awaited, InCall, Looks
  <2>2. \A t \in Range(k'.tx) : call'[t].op = "send" /\ LooksFrom(pc'[t], call'[t])
    BY <1>1, <1>2 DEF Awaited, InCall, Looks
  <2>3. \A t \in TaskSet :
          /\ pc'[t] \in {"suspend", "lock", "check", "test", "place"} => call'[t].op \in {"receive", "send"}
          /\ pc'[t] = "app" => call'[t].op \notin {"receive", "send"}
    BY <1>1 DEF Awaited
  <2> QED BY <2>1, <2>2, <2>3 DEF Awaited, InCall, Looks
<1>4. Receivers \ {cur} \subseteq Receivers'
  BY <1>1 DEF Receivers, InCall
<1>5. Senders \ {cur} \subseteq Senders'
  BY <1>1 DEF Senders, InCall, Looks
<1>6. /\ cur \in Receivers' <=> c.op = "receive" /\ cur \notin Range(k'.rx)
      /\ cur \in Senders' <=> c.op = "send" /\ LooksFrom(p, c) /\ cur \notin Range(k'.tx)
  BY <1>1 DEF Receivers, Senders, InCall, Looks
<1> QED BY <1>3, <1>4, <1>5, <1>6

(* Where the current task is neither to look nor in a list.                *)
LEMMA CurrentLooks ==
  ASSUME KernelInv, Awaited
  PROVE  /\ ~LooksFrom(pc[cur], call[cur]) =>
              cur \notin Range(k.rx) /\ cur \notin Range(k.tx) /\ cur \notin Senders
         /\ call[cur].op # "receive" => cur \notin Receivers /\ cur \notin Range(k.rx)
         /\ call[cur].op # "send" => cur \notin Senders /\ cur \notin Range(k.tx)
BY DEF Awaited, Receivers, Senders, InCall, Looks

(* What the proof of each step has to show.                                *)
WakeKeeps == Awaited' /\ Seen' /\ ItemsServed' /\ RoomServed'

(* The assumptions of each.                                                *)
WakeBefore == KernelInv /\ Sound(ring) /\ WakeInv /\ ExclInv'

(* A tick takes a task off an event list only to let it look.              *)
LEMMA TickWakes ==
  ASSUME WakeBefore, Tick
  PROVE  WakeKeeps
<1>1. UNCHANGED <<ring, lock, cur, susp, pc, call>> /\ lock \in Int
  BY KernelAssumption DEF Tick, WakeBefore, KernelInv, Control
<1>2. StatesKept(k) /\ EventsKept(k) /\ k \in KernelStates
  BY DEF WakeBefore, KernelInv, StatesKept
<1>3. /\ Range(k'.rx) \subseteq Range(k.rx) /\ Range(k'.tx) \subseteq Range(k.tx)
      /\ k'.rx \in Seq(TaskSet) /\ k'.tx \in Seq(TaskSet)
  <2>1. CASE susp /\ k' = [k EXCEPT !.pended = @ + 1]
    BY <1>2, <2>1 DEF KernelStates
  <2>2. CASE ~susp /\ k' = Ticked(k)
    <3>1. k.pending = << >>
      BY <2>2 DEF WakeBefore, KernelInv, Control
    <3>2. /\ StatesKept(k') /\ EventsKept(k')
          /\ Range(k'.rx) \subseteq Range(k.rx) /\ Range(k'.tx) \subseteq Range(k.tx)
      BY <1>2, <2>2, <3>1, TickedKeeps
    <3> QED BY <3>2, EventListsType DEF EventLists
  <2> QED BY <2>1, <2>2 DEF Tick
<1>4. Awaited' /\ Receivers \subseteq Receivers' /\ Senders \subseteq Senders'
  BY <1>1, <1>3, AwaitedStays DEF WakeBefore, WakeInv
<1>5. (k.rx = << >> => k'.rx = << >>) /\ (k.tx = << >> => k'.tx = << >>)
  BY <1>2, <1>3, NoneLeft DEF KernelStates
<1>6. ItemsServed'
  BY <1>1, <1>4, <1>5, ItemsStayServed DEF WakeBefore, WakeInv
<1>7. RoomServed'
  <2>1. ring.waiting \in Nat
    BY WaitingType DEF WakeBefore
  <2> QED BY <1>1, <1>4, <1>5, <2>1, RoomStaysServed DEF WakeBefore, WakeInv
<1>8. Seen'
  BY <1>1 DEF WakeBefore, WakeInv, Seen, InCall, Counts
<1> QED BY <1>4, <1>6, <1>7, <1>8 DEF WakeKeeps

(* A switch changes who runs, and no list of waiting tasks.                *)
LEMMA SwitchContextWakes ==
  ASSUME WakeBefore, SwitchContext
  PROVE  WakeKeeps
<1>1. UNCHANGED <<ring, lock, susp, pc, call>> /\ lock \in Int
  BY KernelAssumption DEF SwitchContext, WakeBefore, KernelInv, Control
<1>2. StatesKept(k) /\ EventsKept(k) /\ k \in KernelStates
  BY DEF WakeBefore, KernelInv, StatesKept
<1>3. k'.rx = k.rx /\ k'.tx = k.tx
  <2>1. CASE k' = Switched(k)
    <3>1. ReadyIn(k) # {}
      BY SomeReady DEF WakeBefore
    <3>2. SameEvents(k, k')
      BY <1>2, <2>1, <3>1, SwitchedKeeps
    <3> QED BY <3>2 DEF SameEvents
  <2>2. CASE k' = [k EXCEPT !.yield = TRUE]
    BY <1>2, <2>2 DEF KernelStates
  <2> QED BY <2>1, <2>2 DEF SwitchContext
<1>4. Awaited' /\ Receivers \subseteq Receivers' /\ Senders \subseteq Senders'
  BY <1>1, <1>3, AwaitedStays DEF WakeBefore, WakeInv
<1>6. ItemsServed'
  BY <1>1, <1>3, <1>4, ItemsStayServed DEF WakeBefore, WakeInv
<1>7. RoomServed'
  <2>1. ring.waiting \in Nat
    BY WaitingType DEF WakeBefore
  <2> QED BY <1>1, <1>3, <1>4, <2>1, RoomStaysServed DEF WakeBefore, WakeInv
<1>8. Seen'
  BY <1>1 DEF WakeBefore, WakeInv, Seen, InCall, Counts
<1> QED BY <1>4, <1>6, <1>7, <1>8 DEF WakeKeeps

(* Who is woken is in the list no more.                                    *)
Shortened(x, y, list) ==
  /\ y \in KernelStates /\ y[list] \in Seq(TaskSet) /\ Range(y[list]) \subseteq Range(x[list])
  /\ x[list] = << >> => y[list] = << >>
  /\ x[list] # << >> => \E t \in Range(x[list]) : t \in TaskSet /\ t \notin Range(y[list])
  /\ list = "rx" => y.tx = x.tx
  /\ list = "tx" => y.rx = x.rx

(* Waking one shortens its list by its head.                               *)
LEMMA WokenList ==
  ASSUME NEW x, StatesKept(x), EventsKept(x), NEW list \in {"rx", "tx"}, NEW y, y = Woken(x, list)
  PROVE  Shortened(x, y, list)
<1>0. x[list] \in Seq(TaskSet) /\ IsInjective(x[list]) /\ x \in KernelStates
  <2>1. x \in KernelStates
    BY DEF StatesKept
  <2>2. CASE list = "rx"
    BY <2>1, <2>2, EventListsType DEF EventLists
  <2>3. CASE list = "tx"
    BY <2>1, <2>3, EventListsType DEF EventLists
  <2> QED BY <2>2, <2>3
<1>1. CASE x[list] = << >>
  <2>1. y = x
    BY <1>1 DEF Woken
  <2> QED BY <1>0, <1>1, <2>1 DEF Shortened
<1>2. CASE x[list] # << >>
  <2>1. /\ StatesKept(y)
        /\ IF list = "rx" THEN y.rx = Tail(x.rx) /\ y.tx = x.tx
                          ELSE y.tx = Tail(x.tx) /\ y.rx = x.rx
    BY <1>2, WokenKeeps
  <2>2. y[list] = Tail(x[list]) /\ y \in KernelStates
    BY <2>1 DEF StatesKept
  <2> DEFINE s == x[list]
             t == Head(s)
  <2>3. /\ Range(Tail(s)) \subseteq Range(s) /\ Tail(s) \in Seq(TaskSet)
        /\ t \in Range(s) /\ t \in TaskSet /\ t \notin Range(Tail(s))
    <3>1. s \in Seq(TaskSet) /\ IsInjective(s) /\ s # << >>
      BY <1>0, <1>2
    <3> HIDE DEF s
    <3>2. t = s[1] /\ 1 \in DOMAIN s /\ t \in TaskSet
      BY <3>1, ListType
    <3>3. Tail(s) \in Seq(TaskSet)
      BY <3>1
    <3>4. Range(Tail(s)) = Range(s) \ {t}
      BY <3>1, TailList
    <3> QED BY <3>2, <3>3, <3>4 DEF Range
  <2> HIDE DEF s, t
  <2>4. /\ y[list] \in Seq(TaskSet) /\ Range(y[list]) \subseteq Range(x[list])
        /\ \E u \in Range(x[list]) : u \in TaskSet /\ u \notin Range(y[list])
    BY <2>2, <2>3 DEF s
  <2> QED BY <1>2, <2>1, <2>2, <2>4 DEF Shortened
<1> QED BY <1>1, <1>2

(* A task in the first list waits for an item, and will look for one;      *)
LEMMA ReceiverWoken ==
  ASSUME NEW x, StatesKept(x), EventsKept(x), NEW y, y = Woken(x, "rx")
  PROVE  Shortened(x, y, "rx")
<1> DEFINE l == "rx"
<1>1. l \in {"rx", "tx"} /\ y = Woken(x, l)
  OBVIOUS
<1> HIDE DEF l
<1>2. Shortened(x, y, l)
  BY <1>1, WokenList
<1> QED BY <1>2 DEF l

(* ... a task in the second list waits for room, and will look for it.     *)
LEMMA SenderWoken ==
  ASSUME NEW x, StatesKept(x), EventsKept(x), NEW y, y = Woken(x, "tx")
  PROVE  Shortened(x, y, "tx")
<1> DEFINE l == "tx"
<1>1. l \in {"rx", "tx"} /\ y = Woken(x, l)
  OBVIOUS
<1> HIDE DEF l
<1>2. Shortened(x, y, l)
  BY <1>1, WokenList
<1> QED BY <1>2 DEF l

(* One item more, and one task more that was woken for it;                 *)
LEMMA ItemsGrow ==
  ASSUME ItemsServed, Sound(ring), lock = -1, lock' = -1, ring'.waiting = ring.waiting + 1,
         k.rx = << >> => k'.rx = << >>,
         k.rx # << >> => \E t \in TaskSet : t \notin Receivers /\ Receivers \cup {t} \subseteq Receivers'
  PROVE  ItemsServed'
<1>1. CASE k.rx = << >>
  BY <1>1 DEF ItemsServed
<1>2. CASE k.rx # << >>
  <2>1. PICK t \in TaskSet : t \notin Receivers /\ Receivers \cup {t} \subseteq Receivers'
    BY <1>2
  <2> DEFINE n == Cardinality(Receivers)
             m == Cardinality(Receivers')
  <2>2. n \in Nat /\ m \in Nat /\ n + 1 <= m
    <3>1. n \in Nat /\ Cardinality(Receivers \cup {t}) = n + 1
      BY <2>1, ServedSets, OneMoreTask
    <3>2. m \in Nat /\ Cardinality(Receivers \cup {t}) <= m
      BY <2>1, ServedSets, MoreTasks
    <3> QED BY <3>1, <3>2
  <2>3. ring.waiting <= n /\ ring.waiting \in Nat
    BY <1>2, WaitingType DEF ItemsServed
  <2> HIDE DEF n, m
  <2>4. ring'.waiting <= m
    BY <2>2, <2>3
  <2> QED BY <2>4, ServedSets DEF ItemsServed, m
<1> QED BY <1>1, <1>2

(* ... one place more, and one task more that was woken for it;            *)
LEMMA RoomGrows ==
  ASSUME RoomServed, Sound(ring), ring'.waiting = ring.waiting - 1,
         k.tx = << >> => k'.tx = << >>,
         k.tx # << >> => \E t \in TaskSet : t \notin Senders /\ Senders \cup {t} \subseteq Senders'
  PROVE  RoomServed'
<1>1. CASE k.tx = << >>
  BY <1>1 DEF RoomServed
<1>2. CASE k.tx # << >>
  <2>1. PICK t \in TaskSet : t \notin Senders /\ Senders \cup {t} \subseteq Senders'
    BY <1>2
  <2> DEFINE n == Cardinality(Senders)
             m == Cardinality(Senders')
  <2>2. n \in Nat /\ m \in Nat /\ n + 1 <= m
    <3>1. n \in Nat /\ Cardinality(Senders \cup {t}) = n + 1
      BY <2>1, ServedSets, OneMoreTask
    <3>2. m \in Nat /\ Cardinality(Senders \cup {t}) <= m
      BY <2>1, ServedSets, MoreTasks
    <3> QED BY <3>1, <3>2
  <2>3. Length - ring.waiting <= n /\ ring.waiting \in Nat /\ Length \in Nat
    BY <1>2, WaitingType DEF RoomServed
  <2> HIDE DEF n, m
  <2>4. Length - ring'.waiting <= m
    BY <2>2, <2>3
  <2> QED BY <2>4, ServedSets DEF RoomServed, m
<1> QED BY <1>1, <1>2

(* ... one item less for the task that took it,                            *)
LEMMA ItemsShrink ==
  ASSUME ItemsServed, Sound(ring), lock = -1, lock' = -1, ring'.waiting = ring.waiting - 1,
         k.rx = << >> => k'.rx = << >>, NEW t, Receivers \ {t} \subseteq Receivers'
  PROVE  ItemsServed'
<1> DEFINE n == Cardinality(Receivers)
           m == Cardinality(Receivers')
<1>1. n \in Nat /\ m \in Nat /\ n - 1 <= m
  BY ServedSets, OneTaskLess
<1>2. ring.waiting \in Nat /\ (k.rx # << >> => ring.waiting <= n)
  BY WaitingType DEF ItemsServed
<1> HIDE DEF n, m
<1>3. k'.rx # << >> => ring'.waiting <= m
  BY <1>1, <1>2
<1> QED BY <1>3, ServedSets DEF ItemsServed, m

(* ... and one place less for the task that filled it.                     *)
LEMMA RoomShrinks ==
  ASSUME RoomServed, Sound(ring), ring'.waiting = ring.waiting + 1,
         k.tx = << >> => k'.tx = << >>, NEW t, Senders \ {t} \subseteq Senders'
  PROVE  RoomServed'
<1> DEFINE n == Cardinality(Senders)
           m == Cardinality(Senders')
<1>1. n \in Nat /\ m \in Nat /\ n - 1 <= m
  BY ServedSets, OneTaskLess
<1>2. ring.waiting \in Nat /\ Length \in Nat /\ (k.tx # << >> => Length - ring.waiting <= n)
  BY WaitingType DEF RoomServed
<1> HIDE DEF n, m
<1>3. k'.tx # << >> => Length - ring'.waiting <= m
  BY <1>1, <1>2
<1> QED BY <1>3, ServedSets DEF RoomServed, m

(* An empty queue has no item to serve, a full one no room.                *)
LEMMA NoneToServe ==
  /\ ring'.waiting = 0 /\ lock' \in -1 .. Len(Tasks) => ItemsServed'
  /\ ring'.waiting = Length /\ Length \in Nat => RoomServed'
<1>1. Cardinality(Receivers') \in Nat /\ Cardinality(Senders') \in Nat /\ Len(Tasks) \in Nat
  BY ServedSets, SomeTasks, TaskCount
<1> DEFINE m == Cardinality(Receivers')
           n == Cardinality(Senders')
<1>2. m \in Nat /\ n \in Nat
  BY <1>1
<1> HIDE DEF m, n
<1>3. ASSUME ring'.waiting = 0, lock' \in -1 .. Len(Tasks) PROVE ItemsServed'
  <2>1. IF lock' = -1 THEN ring'.waiting <= m ELSE ring'.waiting - m <= lock'
    BY <1>1, <1>2, <1>3
  <2> QED BY <2>1, ServedSets DEF ItemsServed, Counts, m
<1>4. ASSUME ring'.waiting = Length, Length \in Nat PROVE RoomServed'
  <2>1. Length - ring'.waiting <= n
    BY <1>2, <1>4
  <2> QED BY <2>1, ServedSets DEF RoomServed, n
<1> QED BY <1>3, <1>4

(* What sending and receiving do to the number of items.                   *)
LEMMA WaitingChanges ==
  ASSUME Sound(ring)
  PROVE  /\ \A v : ring' = Put(ring, v) => ring'.waiting = ring.waiting + 1
         /\ ring' = Taken(ring) => ring'.waiting = ring.waiting - 1
BY DEF Sound, Rings, Put, Taken

(* A frame brings an item, and wakes a receiver for it or counts it.       *)
LEMMA CanInterruptWakes ==
  ASSUME WakeBefore, CanInterrupt
  PROVE  WakeKeeps
<1>1. UNCHANGED <<cur, susp, pc, call>> /\ lock \in -1 .. Len(Tasks) /\ Len(Tasks) \in Nat
  BY KernelAssumption DEF CanInterrupt, WakeBefore, KernelInv, Control
<1>2. StatesKept(k) /\ EventsKept(k) /\ k \in KernelStates /\ Sound(ring)
  BY DEF WakeBefore, KernelInv, StatesKept
<1>3. /\ ring'.waiting = ring.waiting + 1 /\ ring.waiting \in Nat /\ ring.waiting < Length
      /\ Length \in Nat
  BY <1>2, WaitingChanges, WaitingType DEF CanInterrupt, HasRoom
<1>4. Awaited /\ Seen /\ ItemsServed /\ RoomServed
  BY DEF WakeBefore, WakeInv
<1>5. CASE lock = -1 /\ k' = Woken(k, "rx") /\ UNCHANGED lock
  <2>1. /\ k.rx = << >> => k'.rx = << >>
        /\ k.rx # << >> => \E t \in Range(k.rx) : t \in TaskSet /\ t \notin Range(k'.rx)
        /\ k'.tx = k.tx /\ Range(k'.rx) \subseteq Range(k.rx)
    BY <1>2, <1>5, ReceiverWoken DEF Shortened
  <2>2. Range(k'.rx) \subseteq Range(k.rx) /\ Range(k'.tx) \subseteq Range(k.tx)
    BY <2>1
  <2>3. Awaited' /\ Receivers \subseteq Receivers' /\ Senders \subseteq Senders'
    BY <1>1, <1>4, <2>2, AwaitedStays
  <2>4. k.rx # << >> => \E t \in TaskSet : t \notin Receivers /\ Receivers \cup {t} \subseteq Receivers'
    <3> SUFFICES ASSUME k.rx # << >>
                 PROVE  \E t \in TaskSet : t \notin Receivers /\ Receivers \cup {t} \subseteq Receivers'
      OBVIOUS
    <3>1. PICK t \in Range(k.rx) : t \in TaskSet /\ t \notin Range(k'.rx)
      BY <2>1
    <3>2. t \in TaskSet
      BY <3>1
    <3>3. call[t].op = "receive" /\ t \notin Range(k'.rx) /\ t \notin Receivers
      BY <1>4, <3>1 DEF Awaited, Receivers, InCall
    <3>4. t \in Receivers'
      BY <1>1, <3>2, <3>3 DEF Receivers, InCall
    <3> QED BY <2>3, <3>2, <3>3, <3>4
  <2>5. ItemsServed'
    BY <1>2, <1>3, <1>4, <1>5, <2>1, <2>4, ItemsGrow
  <2>6. RoomServed'
    BY <1>2, <1>3, <1>4, <2>1, <2>3, RoomStaysServed
  <2>7. Seen'
    BY <1>1, <1>3, <1>4, <1>5 DEF Seen, InCall
  <2> QED BY <2>3, <2>5, <2>6, <2>7 DEF WakeKeeps
<1>6. CASE lock # -1 /\ lock' = (IF lock < Len(Tasks) THEN lock + 1 ELSE lock) /\ UNCHANGED k
  <2>1. Awaited' /\ Receivers' = Receivers /\ Senders' = Senders
    <3>1. Awaited' /\ Receivers \subseteq Receivers' /\ Senders \subseteq Senders'
      BY <1>1, <1>4, <1>6, AwaitedStays
    <3>2. Receivers' = Receivers /\ Senders' = Senders
      BY <1>1, <1>6 DEF Receivers, Senders, InCall, Looks
    <3> QED BY <3>1, <3>2
  <2>2. lock' # -1 /\ lock' \in Int /\ \A n \in Int : Counts(n) => n + 1 <= lock' \/ lock' = Len(Tasks)
    BY <1>1, <1>6 DEF Counts
  <2>3. ItemsServed'
    <3> DEFINE n == Cardinality(Receivers)
    <3>1. n \in Nat /\ Cardinality(Receivers)' = n
      BY <2>1, ServedSets, SomeTasks
    <3>2. k.rx # << >> => Counts(ring.waiting - n)
      BY <1>4, <1>6 DEF ItemsServed
    <3> HIDE DEF n
    <3>3. k.rx # << >> => ring'.waiting - n <= lock' \/ lock' = Len(Tasks)
      BY <1>3, <2>2, <3>1, <3>2
    <3> QED BY <1>6, <2>2, <3>1, <3>3 DEF ItemsServed, Counts
  <2>4. RoomServed'
    BY <1>2, <1>3, <1>4, <1>6, <2>1, RoomStaysServed
  <2>5. Seen'
    BY <1>1, <1>3, <1>4, <2>2 DEF Seen, InCall, Counts
  <2> QED BY <2>1, <2>3, <2>4, <2>5 DEF WakeKeeps
<1> QED BY <1>5, <1>6 DEF CanInterrupt

(* Only the current task has looked at the queue.                          *)
LEMMA SeenMoves ==
  ASSUME WakeBefore, cur' = cur, NEW p, NEW c, GoesOn(p, c),
         p \in {"check", "test", "place", "unlock"} => lock' # -1,
         p = "place" /\ c.op = "receive" => ring'.waiting <= lock' \/ lock' = Len(Tasks),
         p = "place" /\ c.op = "send" => ring'.waiting = Length
  PROVE  Seen'
<1>1. /\ cur \in TaskSet /\ pc'[cur] = p /\ call'[cur] = c
  BY DEF WakeBefore, KernelInv, Control, ExclInv, GoesOn
<1>2. \A t \in TaskSet : pc'[t] \in {"check", "test", "place"} => t = cur
  BY DEF WakeBefore, ExclInv, Exclusive, Inside
<1>3. \A t \in TaskSet : pc'[t] = "unlock" => t = cur
  BY DEF WakeBefore, ExclInv, Exclusive, Inside
<1> QED BY <1>1, <1>2, <1>3 DEF Seen, InCall, Counts

(* Steps that neither change the queue nor make a task wait for it.        *)
LEMMA MovesWake ==
  ASSUME WakeBefore, NEW p, NEW c, GoesOn(p, c), UNCHANGED <<ring, lock, cur>>,
         Range(k'.rx) \subseteq Range(k.rx), Range(k'.tx) \subseteq Range(k.tx),
         k'.rx \in Seq(TaskSet), k'.tx \in Seq(TaskSet),
         cur \in Range(k'.rx) => c.op = "receive" /\ LooksFrom(p, c),
         cur \in Range(k'.tx) => c.op = "send" /\ LooksFrom(p, c),
         p \in {"suspend", "lock", "check", "test", "place"} => c.op \in {"receive", "send"},
         p = "app" => c.op \notin {"receive", "send"},
         p \in {"check", "test", "place", "unlock"} => lock # -1,
         p = "place" /\ c.op = "receive" => ring.waiting = 0,
         p = "place" /\ c.op = "send" => ring.waiting = Length,
         cur \in Receivers => c.op = "receive" \/ ring.waiting = 0,
         cur \in Senders => (c.op = "send" /\ LooksFrom(p, c)) \/ ring.waiting = Length
  PROVE  WakeKeeps
<1>1. lock \in -1 .. Len(Tasks) /\ lock \in Int /\ Len(Tasks) \in Nat
  BY KernelAssumption DEF WakeBefore, KernelInv, Control
<1>2. /\ KernelInv /\ Sound(ring) /\ Awaited /\ ItemsServed /\ RoomServed /\ Length \in Nat
      /\ ring.waiting \in Nat /\ k.rx \in Seq(TaskSet) /\ k.tx \in Seq(TaskSet)
  BY WaitingType, EventListsType DEF WakeBefore, WakeInv, KernelInv, EventLists
<1>3. /\ Awaited' /\ Receivers \ {cur} \subseteq Receivers' /\ Senders \ {cur} \subseteq Senders'
      /\ cur \in Receivers' <=> c.op = "receive" /\ cur \notin Range(k'.rx)
      /\ cur \in Senders' <=> c.op = "send" /\ LooksFrom(p, c) /\ cur \notin Range(k'.tx)
  BY <1>2, AwaitedMoves
<1>4. /\ cur \in Receivers => cur \notin Range(k.rx)
      /\ cur \in Senders => cur \notin Range(k.tx)
  BY DEF Receivers, Senders
<1>5. (k.rx = << >> => k'.rx = << >>) /\ (k.tx = << >> => k'.tx = << >>)
  BY <1>2, NoneLeft
<1>6. ItemsServed'
  <2>1. CASE ring.waiting = 0
    BY <1>1, <2>1, NoneToServe
  <2>2. CASE ring.waiting # 0
    <3>1. Receivers \subseteq Receivers'
      BY <1>3, <1>4, <2>2
    <3> QED BY <1>1, <1>2, <1>5, <3>1, ItemsStayServed
  <2> QED BY <2>1, <2>2
<1>7. RoomServed'
  <2>1. CASE ring.waiting = Length
    BY <1>2, <2>1, NoneToServe
  <2>2. CASE ring.waiting # Length
    <3>1. Senders \subseteq Senders'
      BY <1>3, <1>4, <2>2
    <3> QED BY <1>2, <1>5, <3>1, RoomStaysServed
  <2> QED BY <2>1, <2>2
<1>8. Seen'
  <2>1. ring'.waiting = ring.waiting /\ lock' = lock
    OBVIOUS
  <2>2. p = "place" /\ c.op = "receive" => ring'.waiting <= lock'
    BY <1>1, <2>1
  <2> QED BY <2>1, <2>2, SeenMoves
<1> QED BY <1>3, <1>6, <1>7, <1>8 DEF WakeKeeps

(* A task that has the processor and does not hold the scheduler waits for *)
(* nothing.                                                                *)
LEMMA RunningLists ==
  ASSUME KernelInv, ~pendsv, pc[cur] \in {"app", "try", "suspend", "final"}
  PROVE  cur \notin Range(k.rx) /\ cur \notin Range(k.tx) /\ lock = -1
<1>1. ~susp /\ cur \in ReadyIn(k)
  BY Running
<1>2. cur \notin WaitingIn(k)
  BY <1>1 DEF KernelInv, StatesKept, Divided
<1> QED BY <1>1, <1>2 DEF KernelInv, EventsKept, ExclInv, Exclusive

(* Most of them are made where the task is not about to look, and touch no *)
(* list.                                                                   *)
LEMMA StillWakes ==
  ASSUME WakeBefore, NEW p, NEW c, GoesOn(p, c), UNCHANGED <<ring, lock, cur>>,
         k'.rx = k.rx, k'.tx = k.tx, ~LooksFrom(pc[cur], call[cur]),
         p \in {"suspend", "lock", "check", "test", "place"} => c.op \in {"receive", "send"},
         p = "app" => c.op \notin {"receive", "send"},
         p \in {"check", "test", "place", "unlock"} => lock # -1,
         p = "place" /\ c.op = "receive" => ring.waiting = 0,
         p = "place" /\ c.op = "send" => ring.waiting = Length,
         call[cur].op = "receive" => c.op = "receive" \/ ring.waiting = 0
  PROVE  WakeKeeps
<1>1. cur \notin Range(k.rx) /\ cur \notin Range(k.tx) /\ cur \notin Senders
  BY CurrentLooks DEF WakeBefore, WakeInv
<1>2. k.rx \in Seq(TaskSet) /\ k.tx \in Seq(TaskSet)
  BY EventListsType DEF WakeBefore, KernelInv, EventLists
<1>3. cur \in Receivers => c.op = "receive" \/ ring.waiting = 0
  BY DEF Receivers, InCall
<1> QED BY <1>1, <1>2, <1>3, MovesWake

(* Where it is in its call.                                                *)
LEMMA CurrentCall ==
  ASSUME WakeBefore
  PROVE  /\ cur \in TaskSet /\ call = [call EXCEPT ![cur] = call[cur]] /\ call[cur] \in Callings
         /\ pc[cur] \in {"suspend", "lock", "check", "test", "place"} => call[cur].op \in {"receive", "send"}
         /\ pc[cur] = "app" => call[cur].op \notin {"receive", "send"}
         /\ pc[cur] \in {"check", "test", "place", "unlock"} => lock # -1
         /\ pc[cur] \notin {"try", "unlock", "resume"} => ~LooksFrom(pc[cur], call[cur])
         /\ k \in KernelStates
BY DEF WakeBefore, KernelInv, Control, WakeInv, Awaited, Seen, LooksFrom, StatesKept

(* vTaskSuspendAll.                                                        *)
LEMMA SuspendWakes ==
  ASSUME WakeBefore, Suspend(cur)
  PROVE  WakeKeeps
<1>1. /\ pc[cur] = "suspend" /\ pc' = [pc EXCEPT ![cur] = "lock"]
      /\ UNCHANGED <<ring, lock, k, cur, call>>
  BY DEF Suspend, At, Goes
<1>2. GoesOn("lock", call[cur])
  BY <1>1, CurrentCall DEF GoesOn
<1> QED BY <1>1, <1>2, CurrentCall, StillWakes

(* The check of the time that has passed.                                  *)
LEMMA CheckWakes ==
  ASSUME WakeBefore, Check(cur)
  PROVE  WakeKeeps
<1>1. /\ pc[cur] = "check" /\ UNCHANGED <<ring, lock, cur>>
      /\ \/ /\ pc' = [pc EXCEPT ![cur] = "unlock"] /\ UNCHANGED k
            /\ call' = [call EXCEPT ![cur] = [call[cur] EXCEPT !.w = 0, !.next = "out"]]
         \/ /\ pc' = [pc EXCEPT ![cur] = "test"] /\ UNCHANGED <<call, k>>
         \/ /\ pc' = [pc EXCEPT ![cur] = "test"] /\ call' = [call EXCEPT ![cur] = Left(call[cur])]
            /\ k' = [k EXCEPT !.wrapped = [@ EXCEPT ![cur] = FALSE]]
  BY DEF Check, At, Goes
<1>2. k'.rx = k.rx /\ k'.tx = k.tx
  BY <1>1, CurrentCall DEF KernelStates
<1>3. PICK c, p : GoesOn(p, c) /\ c.op = call[cur].op /\ p \in {"unlock", "test"}
  <2>1. [call[cur] EXCEPT !.w = 0, !.next = "out"].op = call[cur].op
    BY CurrentCall DEF Callings
  <2>2. Left(call[cur]).op = call[cur].op
    BY CurrentCall DEF Callings, Left
  <2> QED BY <1>1, <2>1, <2>2, CurrentCall DEF GoesOn
<1> QED BY <1>1, <1>2, <1>3, CurrentCall, StillWakes

(* The second look at the queue sees what it holds, but for counted sends. *)
LEMMA TestWakes ==
  ASSUME WakeBefore, Test(cur)
  PROVE  WakeKeeps
<1>1. /\ pc[cur] = "test" /\ UNCHANGED <<ring, lock, k, cur>>
      /\ \/ StillStuck(cur) /\ pc' = [pc EXCEPT ![cur] = "place"] /\ UNCHANGED call
         \/ pc' = [pc EXCEPT ![cur] = "unlock"] /\ call' = [call EXCEPT ![cur].next = "again"]
  BY DEF Test, At, Goes
<1>2. ring.waiting \in Nat /\ ring.waiting <= Length /\ Length \in Nat
  BY WaitingType DEF WakeBefore
<1>3. CASE StillStuck(cur) /\ pc' = [pc EXCEPT ![cur] = "place"] /\ UNCHANGED call
  <2>1. GoesOn("place", call[cur])
    BY <1>3, CurrentCall DEF GoesOn
  <2>2. /\ call[cur].op = "receive" => ring.waiting = 0
        /\ call[cur].op = "send" => ring.waiting = Length
    BY <1>2, <1>3 DEF StillStuck, HasItem, HasRoom
  <2> QED BY <1>1, <2>1, <2>2, CurrentCall, StillWakes
<1>4. CASE pc' = [pc EXCEPT ![cur] = "unlock"] /\ call' = [call EXCEPT ![cur].next = "again"]
  <2> DEFINE c == [call[cur] EXCEPT !.next = "again"]
  <2>1. GoesOn("unlock", c) /\ c.op = call[cur].op
    BY <1>4, CurrentCall DEF GoesOn, Callings
  <2> HIDE DEF c
  <2> QED BY <1>1, <2>1, CurrentCall, StillWakes
<1> QED BY <1>1, <1>3, <1>4

(* The last look, after the time is over.                                  *)
LEMMA FinalWakes ==
  ASSUME WakeBefore, Final(cur)
  PROVE  WakeKeeps
<1>1. /\ pc[cur] = "final" /\ UNCHANGED <<ring, lock, cur>>
      /\ \/ pc' = [pc EXCEPT ![cur] = "try"] /\ UNCHANGED <<k, call>>
         \/ ~HasItem(ring) /\ ReturnsWith(k, cur)
  BY DEF Final, At, Goes, Returns
<1>2. CASE pc' = [pc EXCEPT ![cur] = "try"] /\ UNCHANGED <<k, call>>
  <2>1. GoesOn("try", call[cur])
    BY <1>2, CurrentCall DEF GoesOn
  <2> QED BY <1>1, <1>2, <2>1, CurrentCall, StillWakes
<1>3. CASE ~HasItem(ring) /\ ReturnsWith(k, cur)
  <2>1. GoesOn("app", NoCall) /\ k'.rx = k.rx /\ k'.tx = k.tx
    BY <1>3, CurrentCall DEF GoesOn, ReturnsWith, Goes, KernelStates
  <2>2. ring.waiting = 0
    BY <1>3, WaitingType DEF HasItem, WakeBefore
  <2>3. NoCall.op = "none"
    BY DEF NoCall
  <2> QED BY <1>1, <2>1, <2>2, <2>3, CurrentCall, StillWakes
<1> QED BY <1>1, <1>2, <1>3

(* A sleep has nothing to do with the queue,                               *)
LEMMA SleepWakes ==
  ASSUME WakeBefore, Sleep(cur)
  PROVE  WakeKeeps
<1>1. /\ pc[cur] = "app" /\ pc' = [pc EXCEPT ![cur] = "delay"] /\ UNCHANGED <<ring, lock, k, cur>>
  BY DEF Sleep, At, Goes
<1>2. PICK c : call' = [call EXCEPT ![cur] = c]
  BY DEF Sleep
<1>3. GoesOn("delay", c)
  BY <1>1, <1>2 DEF GoesOn
<1> QED BY <1>1, <1>3, CurrentCall, StillWakes

(* ... nor has its second half.                                            *)
LEMMA PlaceSleepWakes ==
  ASSUME WakeBefore, PlaceSleep(cur)
  PROVE  WakeKeeps
<1>1. /\ pc[cur] = "delay" /\ pc' = [pc EXCEPT ![cur] = "resume"] /\ UNCHANGED <<ring, lock, cur>>
  BY DEF PlaceSleep, At, Goes
<1>2. PICK c : call' = [call EXCEPT ![cur] = c] /\ c.op = call[cur].op
  BY SleepPlaced DEF WakeBefore
<1>3. GoesOn("resume", c)
  BY <1>1, <1>2 DEF GoesOn
<1>4. k'.rx = k.rx /\ k'.tx = k.tx
  BY SleepPlaced DEF WakeBefore, SameEvents
<1> QED BY <1>1, <1>2, <1>3, <1>4, CurrentCall, StillWakes

(* A locked queue counts sends from none on.                               *)
LEMMA LockWakes ==
  ASSUME WakeBefore, Lock(cur)
  PROVE  WakeKeeps
<1>1. /\ pc[cur] = "lock" /\ pc' = [pc EXCEPT ![cur] = "check"] /\ UNCHANGED <<ring, k, cur, call>>
      /\ lock' = (IF lock = -1 THEN 0 ELSE lock)
  BY DEF Lock, At, Goes
<1>2. lock = -1 /\ lock' = 0
  BY <1>1 DEF WakeBefore, KernelInv, ExclInv, LockInv
<1>3. GoesOn("check", call[cur]) /\ call[cur].op \in {"receive", "send"}
  BY <1>1, CurrentCall DEF GoesOn
<1>4. cur \notin Range(k.rx) /\ cur \notin Range(k.tx) /\ cur \notin Senders
  BY <1>1, CurrentLooks, CurrentCall DEF WakeBefore, WakeInv
<1>5. /\ Awaited' /\ Receivers \ {cur} \subseteq Receivers' /\ Senders \ {cur} \subseteq Senders'
      /\ cur \in Receivers' <=> call[cur].op = "receive" /\ cur \notin Range(k'.rx)
  BY <1>1, <1>3, <1>4, AwaitedMoves DEF WakeBefore, WakeInv
<1>6. Receivers \subseteq Receivers' /\ Senders \subseteq Senders'
  BY <1>1, <1>4, <1>5 DEF Receivers, InCall
<1>7. Seen'
  BY <1>1, <1>2, <1>3, SeenMoves
<1>8. Sound(ring) /\ ItemsServed /\ RoomServed /\ ring.waiting \in Nat
  BY WaitingType DEF WakeBefore, WakeInv
<1>9. RoomServed'
  BY <1>1, <1>6, <1>8, RoomStaysServed
<1>10. ItemsServed'
  <2> DEFINE n == Cardinality(Receivers)
             m == Cardinality(Receivers')
  <2>1. n \in Nat /\ m \in Nat /\ n <= m
    BY <1>6, ServedSets, MoreTasks
  <2>2. k.rx # << >> => ring.waiting <= n
    BY <1>2, <1>8 DEF ItemsServed
  <2> HIDE DEF n, m
  <2>3. k'.rx # << >> => ring'.waiting - m <= 0
    BY <1>1, <1>8, <2>1, <2>2
  <2> QED BY <1>2, <2>3, ServedSets DEF ItemsServed, Counts, m
<1> QED BY <1>5, <1>7, <1>9, <1>10 DEF WakeKeeps

(* What is pending becomes ready, and looks.                               *)
LEMMA ResumeWakes ==
  ASSUME WakeBefore, Resume(cur)
  PROVE  WakeKeeps
<1> DEFINE x == Resumed(k)
           n == call[cur].next
           op == call[cur].op
<1>1. /\ pc[cur] = "resume" /\ UNCHANGED <<ring, lock, cur>>
      /\ \/ op = "sleep" /\ Goes(cur, "app") /\ k' = x /\ UNCHANGED call
         \/ op # "sleep" /\ n # "out" /\ Goes(cur, "try") /\ k' = x /\ UNCHANGED call
         \/ op = "receive" /\ n = "out" /\ Goes(cur, "final") /\ k' = x /\ UNCHANGED call
         \/ op = "send" /\ n = "out" /\ ReturnsWith(x, cur)
  BY DEF Resume, At
<1>2. /\ StatesKept(x) /\ EventsKept(x)
      /\ Range(x.rx) \subseteq Range(k.rx) /\ Range(x.tx) \subseteq Range(k.tx)
  <2>1. StatesKept(k) /\ EventsKept(k) /\ cur \in TaskSet
    BY CurrentCall DEF WakeBefore, KernelInv
  <2> QED BY <2>1, ResumedKeeps
<1> HIDE DEF x
<1>3. k'.rx = x.rx /\ k'.tx = x.tx
  BY <1>1, <1>2 DEF StatesKept, KernelStates, ReturnsWith
<1>4. /\ Range(k'.rx) \subseteq Range(k.rx) /\ Range(k'.tx) \subseteq Range(k.tx)
      /\ k'.rx \in Seq(TaskSet) /\ k'.tx \in Seq(TaskSet)
  BY <1>2, <1>3, EventListsType DEF EventLists
<1>5. /\ cur \in Range(k.rx) => op = "receive" /\ n # "out"
      /\ cur \in Range(k.tx) => op = "send" /\ n # "out"
      /\ cur \in Receivers => op = "receive"
      /\ cur \in Senders => op = "send" /\ n # "out"
  BY <1>1 DEF WakeBefore, WakeInv, Awaited, Receivers, Senders, Looks, LooksFrom, InCall
<1>6. CASE op = "sleep" /\ Goes(cur, "app") /\ UNCHANGED call
  <2>1. GoesOn("app", call[cur])
    BY <1>6, CurrentCall DEF GoesOn, Goes
  <2> QED BY <1>1, <1>4, <1>5, <1>6, <2>1, MovesWake
<1>7. CASE n # "out" /\ Goes(cur, "try") /\ UNCHANGED call
  <2>1. GoesOn("try", call[cur]) /\ LooksFrom("try", call[cur])
    BY <1>7, CurrentCall DEF GoesOn, Goes, LooksFrom
  <2> QED BY <1>1, <1>4, <1>5, <1>7, <2>1, MovesWake
<1>8. CASE op = "receive" /\ n = "out" /\ Goes(cur, "final") /\ UNCHANGED call
  <2>1. GoesOn("final", call[cur])
    BY <1>8, CurrentCall DEF GoesOn, Goes
  <2> QED BY <1>1, <1>4, <1>5, <1>8, <2>1, MovesWake
<1>9. CASE op = "send" /\ n = "out" /\ ReturnsWith(x, cur)
  <2>1. GoesOn("app", NoCall) /\ NoCall.op = "none"
    BY <1>9 DEF GoesOn, ReturnsWith, Goes, NoCall
  <2> QED BY <1>1, <1>4, <1>5, <1>9, <2>1, MovesWake
<1> QED BY <1>1, <1>6, <1>7, <1>8, <1>9

(* The task goes to wait: it was right about the queue, or sends are       *)
(* counted.                                                                *)
LEMMA PlaceWakes ==
  ASSUME WakeBefore, Place(cur)
  PROVE  WakeKeeps
<1> DEFINE list == ListOf(cur)
           c == [call[cur] EXCEPT !.next = "block"]
<1>1. /\ pc[cur] = "place" /\ k' = Placed(k, list, cur, call[cur].w)
      /\ pc' = [pc EXCEPT ![cur] = "unlock"] /\ call' = [call EXCEPT ![cur].next = "block"]
      /\ UNCHANGED <<ring, lock, cur>>
  BY DEF Place, At, Goes
<1>2. /\ cur \in TaskSet /\ call[cur] \in Callings /\ call[cur].op \in {"receive", "send"}
      /\ lock # -1 /\ ~LooksFrom(pc[cur], call[cur])
  BY <1>1, CurrentCall
<1>3. GoesOn("unlock", c) /\ c.op = call[cur].op /\ LooksFrom("unlock", c)
  <2>1. c.op = call[cur].op /\ c.next = "block"
    BY <1>2 DEF Callings
  <2> QED BY <1>1, <2>1 DEF GoesOn, LooksFrom
<1> HIDE DEF c
<1>4. /\ list = IF call[cur].op = "receive" THEN "rx" ELSE "tx"
      /\ list \in {"rx", "tx"}
  BY DEF ListOf
<1> HIDE DEF list
<1>5. /\ StatesKept(k') /\ EventsKept(k')
      /\ IF list = "rx" THEN Range(k'.rx) = Range(k.rx) \cup {cur} /\ k'.tx = k.tx
                        ELSE Range(k'.tx) = Range(k.tx) \cup {cur} /\ k'.rx = k.rx
  <2>1. cur \in ReadyIn(k) /\ StatesKept(k) /\ EventsKept(k)
    BY <1>1, Holding DEF WakeBefore, KernelInv, Inside, NotYetWaiting
  <2> DEFINE w == call[cur].w
             z == k
  <2>2. w \in 0 .. Forever
    BY <1>2 DEF Callings
  <2>3. k' = Placed(z, list, cur, w) /\ cur \in ReadyIn(z) /\ StatesKept(z) /\ EventsKept(z)
    BY <1>1, <2>1
  <2> HIDE DEF w, z
  <2>4. /\ StatesKept(k') /\ EventsKept(k')
        /\ IF list = "rx" THEN Range(k'.rx) = Range(z.rx) \cup {cur} /\ k'.tx = z.tx
                          ELSE Range(k'.tx) = Range(z.tx) \cup {cur} /\ k'.rx = z.rx
    BY <1>4, <2>2, <2>3, PlacedKeeps
  <2> QED BY <2>4 DEF z
<1>6. cur \notin Range(k.rx) /\ cur \notin Range(k.tx) /\ cur \notin Senders
  BY <1>2, CurrentLooks DEF WakeBefore, WakeInv
<1>7. /\ Sound(ring) /\ ItemsServed /\ RoomServed /\ ring.waiting \in Nat /\ Length \in Nat
      /\ lock \in -1 .. Len(Tasks) /\ Len(Tasks) \in Nat
  BY WaitingType, KernelAssumption DEF WakeBefore, WakeInv, KernelInv, Control
<1>8. /\ Awaited' /\ Receivers \ {cur} \subseteq Receivers' /\ Senders \ {cur} \subseteq Senders'
  BY <1>2, <1>3, <1>4, <1>5, <1>6, AwaitedMoves DEF WakeBefore, WakeInv
<1>9. Seen'
  BY <1>1, <1>2, <1>3, SeenMoves
<1>10. CASE call[cur].op = "receive"
  <2>1. ring.waiting <= lock \/ lock = Len(Tasks)
    BY <1>1, <1>2, <1>10 DEF WakeBefore, WakeInv, Seen, Counts, InCall
  <2>2. ItemsServed'
    <3> DEFINE m == Cardinality(Receivers')
    <3>1. m \in Nat
      BY ServedSets, SomeTasks
    <3> HIDE DEF m
    <3>2. ring'.waiting - m <= lock' \/ lock' = Len(Tasks)
      BY <1>1, <1>7, <2>1, <3>1
    <3> QED BY <1>1, <1>2, <3>2, ServedSets DEF ItemsServed, Counts, m
  <2>3. RoomServed'
    <3>1. k'.tx = k.tx /\ Senders \subseteq Senders'
      BY <1>4, <1>5, <1>6, <1>8, <1>10
    <3> QED BY <1>1, <1>7, <3>1, RoomStaysServed
  <2> QED BY <1>8, <1>9, <2>2, <2>3 DEF WakeKeeps
<1>11. CASE call[cur].op = "send"
  <2>1. ring.waiting = Length
    BY <1>1, <1>2, <1>11 DEF WakeBefore, WakeInv, Seen, InCall
  <2>2. RoomServed'
    BY <1>1, <1>7, <2>1, NoneToServe
  <2>3. ItemsServed'
    <3>1. cur \notin Receivers
      BY <1>11 DEF Receivers, InCall
    <3>2. k'.rx = k.rx /\ Receivers \subseteq Receivers'
      BY <1>4, <1>5, <1>8, <1>11, <3>1
    <3> QED BY <1>1, <1>7, <3>2, ItemsStayServed
  <2> QED BY <1>8, <1>9, <2>2, <2>3 DEF WakeKeeps
<1> QED BY <1>2, <1>10, <1>11

(* prvUnlockQueue makes good what was counted: either every task has been  *)
(* woken, or as many as there were sends.                                  *)
LEMMA UnlockWakes ==
  ASSUME WakeBefore, Unlock(cur)
  PROVE  WakeKeeps
<1>1. /\ pc[cur] = "unlock" /\ pc' = [pc EXCEPT ![cur] = "resume"] /\ lock' = -1
      /\ UNCHANGED <<ring, cur, call>>
      /\ k' = Through(LAMBDA x, n : Woken(x, "rx"), k, SentMeanwhile)
  BY DEF Unlock, At, Goes
<1>2. /\ lock # -1 /\ lock \in -1 .. Len(Tasks) /\ Len(Tasks) \in Nat /\ lock \in Nat
      /\ Sound(ring) /\ ItemsServed /\ RoomServed /\ ring.waiting \in Nat
      /\ StatesKept(k) /\ EventsKept(k)
  <2>1. lock # -1 /\ lock \in -1 .. Len(Tasks) /\ Len(Tasks) \in Nat
    <3>1. lock # -1
      BY <1>1, CurrentCall
    <3>2. lock \in -1 .. Len(Tasks)
      BY DEF WakeBefore, KernelInv, Control
    <3> QED BY <3>1, <3>2, TaskCount
  <2>2. lock \in Nat
    BY <2>1
  <2>3. Sound(ring) /\ ItemsServed /\ RoomServed /\ StatesKept(k) /\ EventsKept(k)
    BY DEF WakeBefore, WakeInv, KernelInv
  <2> QED BY <2>1, <2>2, <2>3, WaitingType
<1>3. AfterWoken(k, k', lock)
  <2>1. Len(SentMeanwhile) = lock /\ susp
    <3>1. Len(SentMeanwhile) = lock
      BY <1>2 DEF SentMeanwhile
    <3>2. susp
      BY <1>1, Holding DEF Inside, WakeBefore
    <3> QED BY <3>1, <3>2
  <2>2. AfterWoken(k, Through(LAMBDA y, n : Woken(y, "rx"), k, SentMeanwhile), Len(SentMeanwhile))
    BY <1>2, <2>1, AllWoken
  <2> QED BY <1>1, <2>1, <2>2
<1>4. /\ StatesKept(k') /\ EventsKept(k') /\ k'.tx = k.tx /\ Range(k'.rx) \subseteq Range(k.rx)
      /\ Len(k'.rx) = IF lock <= Len(k.rx) THEN Len(k.rx) - lock ELSE 0
  BY <1>3 DEF AfterWoken
<1>5. /\ k.rx \in Seq(TaskSet) /\ IsInjective(k.rx) /\ k'.rx \in Seq(TaskSet) /\ IsInjective(k'.rx)
  BY <1>2, <1>4, EventListsType DEF EventLists
<1>6. GoesOn("resume", call[cur]) /\ (LooksFrom("resume", call[cur]) <=> Looks(cur))
  BY <1>1, CurrentCall DEF GoesOn, LooksFrom, Looks
<1>7. /\ cur \in Range(k.rx) => call[cur].op = "receive" /\ LooksFrom("resume", call[cur])
      /\ cur \in Range(k.tx) => call[cur].op = "send" /\ LooksFrom("resume", call[cur])
  BY <1>6 DEF WakeBefore, WakeInv, Awaited, InCall
<1>8. /\ Awaited' /\ Receivers \ {cur} \subseteq Receivers' /\ Senders \ {cur} \subseteq Senders'
      /\ cur \in Receivers' <=> call[cur].op = "receive" /\ cur \notin Range(k'.rx)
      /\ cur \in Senders' <=> call[cur].op = "send" /\ LooksFrom("resume", call[cur]) /\ cur \notin Range(k'.tx)
  BY <1>4, <1>6, <1>7, AwaitedMoves DEF WakeBefore, WakeInv
<1>9. Receivers \subseteq Receivers' /\ Senders \subseteq Senders'
  BY <1>4, <1>6, <1>8 DEF Receivers, Senders, InCall
<1>10. Seen'
  BY <1>1, <1>6, SeenMoves
<1>11. RoomServed'
  <2>1. ring'.waiting = ring.waiting /\ k'.tx = k.tx /\ ring.waiting \in Nat
    BY <1>1, <1>2, <1>4
  <2> QED BY <1>2, <1>9, <2>1, RoomStaysServed
<1>12. ItemsServed'
  <2> DEFINE D == Range(k.rx) \ Range(k'.rx)
             n == Cardinality(Receivers)
             m == Cardinality(Receivers')
             a == Len(k.rx)
             b == Len(k'.rx)
  <2>1. CASE k'.rx = << >>
    BY <2>1 DEF ItemsServed
  <2>2. CASE k'.rx # << >>
    <3>1. a \in Nat /\ b \in Nat /\ b # 0 /\ Range(k.rx) \subseteq TaskSet
      BY <1>5, <2>2, ListType
    <3>2. IsFiniteSet(D) /\ Cardinality(D) = a - b
      <4>1. /\ IsFiniteSet(Range(k.rx)) /\ Cardinality(Range(k.rx)) = a
            /\ Cardinality(Range(k'.rx)) = b
        BY <1>5, ListCardinality
      <4> DEFINE S == Range(k.rx)
                 T == Range(k'.rx)
      <4>2. IsFiniteSet(S) /\ Cardinality(S) = a /\ Cardinality(S \cap T) = b
        <5>1. S \cap T = T
          BY <1>4
        <5> QED BY <4>1, <5>1
      <4> HIDE DEF S, T
      <4>3. IsFiniteSet(S \ T) /\ Cardinality(S \ T) = a - b
        <5> HIDE DEF a, b
        <5> QED BY <4>2, FS_Difference
      <4> QED BY <4>3 DEF S, T
    <3>3. Receivers \cap D = {} /\ Receivers \cup D \subseteq Receivers'
      <4>1. \A t \in D : t \in TaskSet /\ call[t].op = "receive" /\ t \notin Range(k'.rx)
        BY <3>1 DEF WakeBefore, WakeInv, Awaited, InCall
      <4>2. D \subseteq Receivers'
        BY <1>1, <4>1 DEF Receivers, InCall
      <4> QED BY <1>9, <4>2 DEF Receivers
    <3>4. n \in Nat /\ m \in Nat /\ n + (a - b) <= m
      <4>1. IsFiniteSet(Receivers) /\ n \in Nat
        BY ServedSets, SomeTasks
      <4>2. Cardinality(Receivers \cup D) = n + Cardinality(D) - Cardinality(Receivers \cap D)
        <5> HIDE DEF D
        <5> QED BY <3>2, <4>1, FS_Union
      <4>3. Cardinality(Receivers \cap D) = 0
        BY <3>3, FS_EmptySet
      <4>4. m \in Nat /\ Cardinality(Receivers \cup D) <= m
        BY <3>3, ServedSets, MoreTasks
      <4> HIDE DEF D, n, m, a, b
      <4> QED BY <3>1, <3>2, <4>1, <4>2, <4>3, <4>4
    <3>5. a <= Len(Tasks)
      <4>1. a = Cardinality(Range(k.rx))
        BY <1>5, ListCardinality
      <4> QED BY <3>1, <4>1, SomeTasks
    <3>6. k.rx # << >>
      BY <1>4, <1>5, <2>2, NoneLeft
    <3>7. ring.waiting - n <= lock \/ lock = Len(Tasks)
      BY <1>2, <3>6 DEF ItemsServed, Counts
    <3>8. b = IF lock <= a THEN a - lock ELSE 0
      BY <1>4
    <3> HIDE DEF D, n, m, a, b
    <3>9. lock < a /\ a - b = lock
      BY <1>2, <3>1, <3>8
    <3>10. ring.waiting <= m
      BY <1>2, <3>1, <3>4, <3>5, <3>7, <3>9
    <3> QED BY <1>1, <3>10, ServedSets DEF ItemsServed, m
  <2> QED BY <2>1, <2>2
<1> QED BY <1>8, <1>10, <1>11, <1>12 DEF WakeKeeps

(* A task that goes to wait has found nothing to receive, or no room.      *)
LEMMA GoesToWaitWakes ==
  ASSUME WakeBefore, ~pendsv, NEW op \in {"receive", "send"}, NEW w \in Waits(cur, op),
         GoesToWait(cur, op, w), UNCHANGED <<lock, cur>>,
         op = "receive" => ring.waiting = 0, op = "send" => ring.waiting = Length
  PROVE  WakeKeeps
<1>1. /\ pc[cur] \in {"app", "try"} /\ (pc[cur] = "try" => call[cur].op = op)
      /\ pc' = [pc EXCEPT ![cur] = "suspend"] /\ UNCHANGED ring
  BY DEF GoesToWait, Goes, Waits, At
<1>2. cur \notin Range(k.rx) /\ cur \notin Range(k.tx)
  BY <1>1, RunningLists DEF WakeBefore
<1>3. k'.rx = k.rx /\ k'.tx = k.tx
  BY <1>1, CurrentCall DEF GoesToWait, KernelStates
<1>4. k.rx \in Seq(TaskSet) /\ k.tx \in Seq(TaskSet)
  BY EventListsType DEF WakeBefore, KernelInv, EventLists
<1>5. PICK c : GoesOn("suspend", c) /\ c.op = op
  <2>1. CASE pc[cur] = "app"
    <3> DEFINE c == [NoCall EXCEPT !.op = op, !.w = w, !.asked = w,
                                   !.entry = IF w = Forever THEN 0 ELSE k.tick]
    <3>1. GoesOn("suspend", c)
      BY <1>1, <2>1 DEF GoesOn, GoesToWait
    <3>2. c.op = op
      BY DEF NoCall
    <3> QED BY <3>1, <3>2
  <2>2. CASE pc[cur] # "app"
    BY <1>1, <2>2, CurrentCall DEF GoesOn, GoesToWait
  <2> QED BY <2>1, <2>2
<1>6. /\ cur \in Receivers => c.op = "receive" \/ ring.waiting = 0
      /\ cur \in Senders => ring.waiting = Length
  BY <1>1, <1>5, CurrentCall DEF Receivers, Senders, InCall, Looks, LooksFrom
<1> QED BY <1>1, <1>2, <1>3, <1>4, <1>5, <1>6, MovesWake

(* One that does not wait has found the same, and returns.                 *)
LEMMA ReturnsWakes ==
  ASSUME WakeBefore, ~pendsv, NEW op \in {"receive", "send"}, NEW w \in Waits(cur, op),
         Returns(cur), UNCHANGED <<ring, lock, cur>>,
         op = "receive" => ring.waiting = 0, op = "send" => ring.waiting = Length
  PROVE  WakeKeeps
<1>1. /\ pc[cur] \in {"app", "try"} /\ (pc[cur] = "try" => call[cur].op = op)
  BY DEF Waits, At
<1>2. cur \notin Range(k.rx) /\ cur \notin Range(k.tx)
  BY <1>1, RunningLists DEF WakeBefore
<1>3. GoesOn("app", NoCall) /\ k'.rx = k.rx /\ k'.tx = k.tx /\ NoCall.op = "none"
  BY CurrentCall DEF GoesOn, Returns, ReturnsWith, Goes, KernelStates, NoCall
<1>4. k.rx \in Seq(TaskSet) /\ k.tx \in Seq(TaskSet)
  BY EventListsType DEF WakeBefore, KernelInv, EventLists
<1>5. /\ cur \in Receivers => ring.waiting = 0
      /\ cur \in Senders => ring.waiting = Length
  BY <1>1, CurrentCall DEF Receivers, Senders, InCall, Looks, LooksFrom
<1> QED BY <1>2, <1>3, <1>4, <1>5, MovesWake

(* Receiving takes an item and wakes a sender for the room it makes.       *)
LEMMA TryReceiveWakes ==
  ASSUME WakeBefore, ~pendsv, TryReceive(cur)
  PROVE  WakeKeeps
<1>1. PICK w \in Waits(cur, "receive") :
        \/ /\ HasItem(ring) /\ ring' = Taken(ring) /\ ReturnsWith(Woken(k, "tx"), cur)
        \/ ~HasItem(ring) /\ Returns(cur) /\ UNCHANGED ring
        \/ ~HasItem(ring) /\ GoesToWait(cur, "receive", w)
  BY DEF TryReceive
<1>2. UNCHANGED <<lock, cur>> /\ Sound(ring)
  BY DEF TryReceive, WakeBefore
<1>3. ~HasItem(ring) => ring.waiting = 0
  BY <1>2, WaitingType DEF HasItem
<1>4. CASE ~HasItem(ring) /\ Returns(cur) /\ UNCHANGED ring
  BY <1>2, <1>3, <1>4, ReturnsWakes
<1>5. CASE ~HasItem(ring) /\ GoesToWait(cur, "receive", w)
  BY <1>2, <1>3, <1>5, GoesToWaitWakes
<1>6. CASE ring' = Taken(ring) /\ ReturnsWith(Woken(k, "tx"), cur)
  <2> DEFINE x == Woken(k, "tx")
  <2>1. /\ pc[cur] \in {"app", "try"} /\ (pc[cur] = "try" => call[cur].op = "receive")
    BY DEF Waits, At
  <2>2. cur \notin Range(k.rx) /\ cur \notin Range(k.tx) /\ lock = -1
    BY <2>1, RunningLists DEF WakeBefore
  <2>3. Shortened(k, x, "tx")
    <3>1. StatesKept(k) /\ EventsKept(k)
      BY DEF WakeBefore, KernelInv
    <3> QED BY <3>1, SenderWoken
  <2>4. ReturnsWith(x, cur)
    BY <1>6
  <2> HIDE DEF x
  <2>5. GoesOn("app", NoCall) /\ k'.rx = x.rx /\ k'.tx = x.tx /\ NoCall.op = "none"
    BY <2>3, <2>4 DEF GoesOn, ReturnsWith, Goes, KernelStates, NoCall, Shortened
  <2>6. /\ k'.rx = k.rx /\ Range(k'.tx) \subseteq Range(k.tx)
        /\ k.tx = << >> => k'.tx = << >>
        /\ k.tx # << >> => \E t \in Range(k.tx) : t \in TaskSet /\ t \notin Range(k'.tx)
    BY <2>3, <2>5 DEF Shortened
  <2>7. /\ Awaited' /\ Receivers \ {cur} \subseteq Receivers' /\ Senders \ {cur} \subseteq Senders'
    BY <2>2, <2>5, <2>6, AwaitedMoves DEF WakeBefore, WakeInv
  <2>8. Seen'
    BY <1>2, <2>5, SeenMoves
  <2>9. Senders \subseteq Senders'
    BY <2>1, <2>7, CurrentCall DEF Senders, InCall, Looks, LooksFrom
  <2>10. ItemsServed /\ RoomServed /\ ring'.waiting = ring.waiting - 1
    BY <1>2, <1>6, WaitingChanges DEF WakeBefore, WakeInv
  <2>11. ItemsServed'
    BY <1>2, <2>2, <2>6, <2>7, <2>10, ItemsShrink
  <2>12. k.tx # << >> => \E t \in TaskSet : t \notin Senders /\ Senders \cup {t} \subseteq Senders'
    <3> SUFFICES ASSUME k.tx # << >>
                 PROVE  \E t \in TaskSet : t \notin Senders /\ Senders \cup {t} \subseteq Senders'
      OBVIOUS
    <3>1. PICK t \in Range(k.tx) : t \in TaskSet /\ t \notin Range(k'.tx)
      BY <2>6
    <3>2. call[t].op = "send" /\ Looks(t) /\ t \notin Senders /\ t # cur
      BY <2>2, <3>1 DEF WakeBefore, WakeInv, Awaited, Senders, InCall
    <3>3. pc'[t] = pc[t] /\ call'[t] = call[t]
      BY <2>5, <3>1, <3>2 DEF GoesOn, WakeBefore, KernelInv, ExclInv, Control
    <3>4. t \in Senders'
      BY <3>1, <3>2, <3>3 DEF Senders, InCall, Looks
    <3> QED BY <2>9, <3>1, <3>2, <3>4
  <2>13. RoomServed'
    BY <1>2, <2>6, <2>10, <2>12, RoomGrows
  <2> QED BY <2>7, <2>8, <2>11, <2>13 DEF WakeKeeps
<1> QED BY <1>1, <1>4, <1>5, <1>6

(* Sending fills a place and wakes a receiver for the item.                *)
LEMMA TrySendWakes ==
  ASSUME WakeBefore, ~pendsv, TrySend(cur)
  PROVE  WakeKeeps
<1>1. PICK w \in Waits(cur, "send") :
        \/ /\ \E v \in Values : ring' = Put(ring, v)
           /\ ReturnsWith(Woken(k, "rx"), cur)
        \/ ~HasRoom(ring) /\ Returns(cur) /\ UNCHANGED ring
        \/ ~HasRoom(ring) /\ GoesToWait(cur, "send", w)
  BY DEF TrySend
<1>2. UNCHANGED <<lock, cur>> /\ Sound(ring)
  BY DEF TrySend, WakeBefore
<1>3. ~HasRoom(ring) => ring.waiting = Length
  BY <1>2, WaitingType DEF HasRoom
<1>4. CASE ~HasRoom(ring) /\ Returns(cur) /\ UNCHANGED ring
  BY <1>2, <1>3, <1>4, ReturnsWakes
<1>5. CASE ~HasRoom(ring) /\ GoesToWait(cur, "send", w)
  BY <1>2, <1>3, <1>5, GoesToWaitWakes
<1>6. CASE (\E v \in Values : ring' = Put(ring, v)) /\ ReturnsWith(Woken(k, "rx"), cur)
  <2> DEFINE x == Woken(k, "rx")
  <2>1. /\ pc[cur] \in {"app", "try"} /\ (pc[cur] = "try" => call[cur].op = "send")
    BY DEF Waits, At
  <2>2. cur \notin Range(k.rx) /\ cur \notin Range(k.tx) /\ lock = -1
    BY <2>1, RunningLists DEF WakeBefore
  <2>3. Shortened(k, x, "rx")
    <3>1. StatesKept(k) /\ EventsKept(k)
      BY DEF WakeBefore, KernelInv
    <3> QED BY <3>1, ReceiverWoken
  <2>4. ReturnsWith(x, cur)
    BY <1>6
  <2> HIDE DEF x
  <2>5. GoesOn("app", NoCall) /\ k'.rx = x.rx /\ k'.tx = x.tx /\ NoCall.op = "none"
    BY <2>3, <2>4 DEF GoesOn, ReturnsWith, Goes, KernelStates, NoCall, Shortened
  <2>6. /\ k'.tx = k.tx /\ Range(k'.rx) \subseteq Range(k.rx)
        /\ k.rx = << >> => k'.rx = << >>
        /\ k.rx # << >> => \E t \in Range(k.rx) : t \in TaskSet /\ t \notin Range(k'.rx)
    BY <2>3, <2>5 DEF Shortened
  <2>7. /\ Awaited' /\ Receivers \ {cur} \subseteq Receivers' /\ Senders \ {cur} \subseteq Senders'
    BY <2>2, <2>5, <2>6, AwaitedMoves DEF WakeBefore, WakeInv
  <2>8. Seen'
    BY <1>2, <2>5, SeenMoves
  <2>9. Receivers \subseteq Receivers'
    BY <2>1, <2>7, CurrentCall DEF Receivers, InCall
  <2>10. ItemsServed /\ RoomServed /\ ring'.waiting = ring.waiting + 1
    BY <1>2, <1>6, WaitingChanges DEF WakeBefore, WakeInv
  <2>11. RoomServed'
    BY <1>2, <2>6, <2>7, <2>10, RoomShrinks
  <2>12. k.rx # << >> => \E t \in TaskSet : t \notin Receivers /\ Receivers \cup {t} \subseteq Receivers'
    <3> SUFFICES ASSUME k.rx # << >>
                 PROVE  \E t \in TaskSet : t \notin Receivers /\ Receivers \cup {t} \subseteq Receivers'
      OBVIOUS
    <3>1. PICK t \in Range(k.rx) : t \in TaskSet /\ t \notin Range(k'.rx)
      BY <2>6
    <3>2. call[t].op = "receive" /\ t \notin Receivers /\ t # cur
      BY <2>2, <3>1 DEF WakeBefore, WakeInv, Awaited, Receivers, InCall
    <3>3. call'[t] = call[t]
      BY <2>5, <3>1, <3>2 DEF GoesOn, WakeBefore, KernelInv, Control
    <3>4. t \in Receivers'
      BY <3>1, <3>2, <3>3 DEF Receivers, InCall
    <3> QED BY <2>9, <3>1, <3>2, <3>4
  <2>13. ItemsServed'
    BY <1>2, <2>2, <2>6, <2>10, <2>12, ItemsGrow
  <2> QED BY <2>7, <2>8, <2>11, <2>13 DEF WakeKeeps
<1> QED BY <1>1, <1>4, <1>5, <1>6

(* At the start nobody waits.                                              *)
LEMMA InitWakes == Init => WakeInv
<1> SUFFICES ASSUME Init PROVE WakeInv
  OBVIOUS
<1>1. k.rx = << >> /\ k.tx = << >>
  BY AllCreated DEF Init, AfterCreation, SameEvents, Uncreated
<1>2. Range(<< >>) = {}
  BY DEF Range
<1>3. \A t \in TaskSet : pc[t] = "app" /\ call[t].op = "none"
  BY DEF Init, NoCall
<1> QED BY <1>1, <1>2, <1>3 DEF WakeInv, Awaited, Seen, ItemsServed, RoomServed

(* Every step keeps what is owed to the waiting tasks.                     *)
LEMMA StepWakes ==
  ASSUME WakeBefore, ~pendsv, Step(cur)
  PROVE  WakeKeeps
BY TryReceiveWakes, TrySendWakes, SuspendWakes, LockWakes, CheckWakes, TestWakes, PlaceWakes,
   UnlockWakes, ResumeWakes, FinalWakes, SleepWakes, PlaceSleepWakes DEF Step

(* The wake-ups hold in every state: what WakeInv says of the lists of     *)
(* waiting tasks and of those that were woken is kept by every step.       *)
LEMMA WakeInvariant == Spec => []WakeInv
<1>1. KernelInv /\ Sound(ring) /\ WakeInv /\ KernelInv' /\ [Next]_vars => WakeInv'
  <2> SUFFICES ASSUME KernelInv, Sound(ring), WakeInv, KernelInv', [Next]_vars PROVE WakeInv'
    OBVIOUS
  <2>1. WakeBefore
    BY DEF WakeBefore, KernelInv
  <2>2. CASE Next
    <3>1. WakeKeeps
      BY <2>1, <2>2, TickWakes, SwitchContextWakes, CanInterruptWakes, StepWakes DEF Next, Processor
    <3> QED BY <3>1 DEF WakeKeeps, WakeInv
  <2>3. CASE UNCHANGED vars
    <3>1. Receivers' = Receivers /\ Senders' = Senders
      BY <2>3 DEF vars, Receivers, Senders, InCall, Looks
    <3>2. Awaited' /\ Seen'
      BY <2>3 DEF vars, WakeInv, Awaited, Seen, InCall, Looks, Counts
    <3>3. ItemsServed' /\ RoomServed'
      BY <2>3, <3>1 DEF vars, WakeInv, ItemsServed, RoomServed, Counts
    <3> QED BY <3>2, <3>3 DEF WakeInv
  <2> QED BY <2>2, <2>3
<1> QED BY <1>1, InitWakes, KernelInvariant, StorageSound, PTL DEF Spec

(* No wake-up is lost: while tasks wait to receive, each item in the queue *)
(* has a task that was woken and is still to look; likewise for room.      *)
THEOREM WakeUpsKept == Spec => []NoLostWakeup
<1>1. Sound(ring) /\ WakeInv => NoLostWakeup
  <2> SUFFICES ASSUME Sound(ring), WakeInv PROVE NoLostWakeup
    OBVIOUS
  <2> DEFINE S == {t \in TaskSet : InCall(t, "send") /\ t \notin Range(k.tx)}
  <2>1. Senders \in SUBSET S /\ S \in SUBSET TaskSet
    BY DEF Senders
  <2>2. Cardinality(Senders) <= Cardinality(S) /\ Cardinality(Senders) \in Nat /\ Cardinality(S) \in Nat
    BY <2>1, MoreTasks
  <2>3. ring.waiting \in Nat /\ Length \in Nat
    BY WaitingType
  <2>4. lock = -1 /\ k.rx # << >> => ring.waiting <= Cardinality(Receivers)
    BY DEF WakeInv, ItemsServed
  <2>5. k.tx # << >> => Length - ring.waiting <= Cardinality(Senders)
    BY DEF WakeInv, RoomServed
  <2> HIDE DEF S
  <2>6. k.tx # << >> => Length - ring.waiting <= Cardinality(S)
    BY <2>2, <2>3, <2>5
  <2> QED BY <2>4, <2>6 DEF NoLostWakeup, Receivers, S
<1> QED BY <1>1, WakeInvariant, StorageSound, PTL

-----------------------------------------------------------------------------
(* TIMES                                                                   *)

(* A task that waits for an event or has been woken by one; a task that    *)
(* waits for a time; and how long it has yet to.                           *)
Listening(x) == Range(x.rx) \cup Range(x.tx) \cup Range(x.pending)
Timed(x)     == Range(x.delayed) \cup Range(x.overflow)
Away(x, t)   == IF t \in Range(x.delayed) THEN x.wake[t] - x.tick ELSE x.wake[t] + TickMod - x.tick

(* No delayed task has been overlooked.                                    *)
Ahead(x) == \A t \in Range(x.delayed) : x.wake[t] > x.tick

(* A sleeper waits for a time only; who waits for an event waits for a     *)
(* time too, unless it asked to wait for ever.                             *)
Kind(x, c, t) ==
  /\ c.op \in {"receive", "send", "sleep"} /\ c.next # "out"
  /\ c.op = "sleep" <=> t \notin Listening(x)
  /\ t \notin Timed(x) <=> c.op # "sleep" /\ c.asked = Forever

(* Between overflows the wake time is what is left of the time asked for.  *)
Exact(x, c, t) ==
  /\ x.age[t] \in 0 .. TickMod
  /\ x.age[t] < TickMod => Away(x, t) = c.asked - x.age[t]

(* The ticks of a call since its task last looked at the clock.            *)
Since(x, c, t) == x.age[t] - (c.asked - c.w)

(* What a call with a time to wait knows of it: what was left when its     *)
(* task last looked, when that was, and whether the count has overflowed.  *)
Timing(x, c, t) ==
  IF c.asked = Forever
  THEN c.w = Forever /\ c.next # "out"
  ELSE /\ x.age[t] \in 0 .. TickMod
       /\ IF c.next = "out"
          THEN c.w = 0 /\ x.age[t] >= c.asked
          ELSE /\ c.w \in 1 .. c.asked
               /\ x.age[t] < TickMod =>
                    /\ Since(x, c, t) \in 0 .. Forever
                    /\ x.tick = IF x.wrapped[t] THEN c.entry + Since(x, c, t) - TickMod
                                                ELSE c.entry + Since(x, c, t)

TimeFor(x, c, t) ==
  /\ t \in WaitingIn(x) => Kind(x, c, t)
  /\ t \in Timed(x) => Exact(x, c, t)
  /\ c.op \in {"receive", "send"} => Timing(x, c, t)

(* Where a task is in its call: it goes to wait right after it has looked  *)
(* at the clock, and gives up only when its time is over.                  *)
Stands(x, p, c, t) ==
  /\ p \in {"test", "place"} =>
       c.next # "out" /\ (c.asked # Forever => c.entry = x.tick /\ ~x.wrapped[t])
  /\ p = "delay" => c.op = "sleep"
  /\ p = "final" => c.next = "out"

TimeInv ==
  /\ Ahead(k)
  /\ \A t \in TaskSet : TimeFor(k, call[t], t) /\ Stands(k, pc[t], call[t], t)

(* Counting by the range of the tick count.                                *)
LEMMA Wraps ==
  ASSUME NEW n \in 0 .. Forever
  PROVE  n % TickMod = n /\ (n + TickMod) % TickMod = n
BY ForeverType

(* One more, from any value of the tick count.                             *)
LEMMA NextTick ==
  ASSUME NEW n \in 0 .. Forever
  PROVE  (n + 1) % TickMod = IF n = Forever THEN 0 ELSE n + 1
BY ForeverType

(* From n to m it is as many ticks as there are between them, or what is   *)
(* left to the end and m more.                                             *)
LEMMA FromTo ==
  ASSUME NEW n \in 0 .. Forever, NEW m \in 0 .. Forever
  PROVE  (m + TickMod - n) % TickMod = IF n <= m THEN m - n ELSE m + TickMod - n
<1>1. CASE n <= m
  <2>1. m - n \in 0 .. Forever /\ m + TickMod - n = (m - n) + TickMod
    BY <1>1, ForeverType
  <2> QED BY <1>1, <2>1, Wraps
<1>2. CASE ~(n <= m)
  <2>1. m + TickMod - n \in 0 .. Forever
    BY <1>2, ForeverType
  <2> QED BY <1>2, <2>1, Wraps
<1> QED BY <1>1, <1>2

(* The first of the delayed tasks wakes first.                             *)
LEMMA HeadFirst ==
  ASSUME NEW x \in KernelStates, WaitKept(x), NEW t \in Range(x.delayed)
  PROVE  HeadWake(x) <= x.wake[t]
<1> DEFINE s == x.delayed
<1>1. s \in Seq(TaskSet) /\ Sorted(s, x.wake) /\ x.wake \in [TaskSet -> 0 .. Forever]
  BY DEF KernelStates, WaitKept
<1>2. PICK i \in DOMAIN s : t = s[i]
  BY DEF Range
<1>3. /\ Len(s) \in Nat /\ DOMAIN s = 1 .. Len(s) /\ s # << >> /\ Head(s) = s[1] /\ t \in TaskSet
      /\ 1 \in DOMAIN s
  BY <1>1, <1>2, ListType
<1>4. x.wake[t] \in 0 .. Forever
  BY <1>1, <1>3
<1>5. x.wake[s[1]] <= x.wake[t]
  <2>1. CASE i = 1
    BY <1>2, <1>4, <2>1, ForeverType
  <2>2. CASE i # 1
    BY <1>1, <1>2, <1>3, <2>2 DEF Sorted
  <2> QED BY <2>1, <2>2
<1> QED BY <1>3, <1>5 DEF HeadWake

(* A task for which nothing has changed, but that it may have become ready *)
(* if it was woken.                                                        *)
StillThere(x, y, t) ==
  /\ y.tick = x.tick /\ y.age[t] = x.age[t] /\ y.wrapped[t] = x.wrapped[t]
  /\ t \in WaitingIn(y) => /\ t \in WaitingIn(x) /\ y.wake[t] = x.wake[t]
                           /\ t \in Listening(y) <=> t \in Listening(x)
                           /\ t \in Range(x.delayed) => t \in Range(y.delayed)
                           /\ t \in Range(x.overflow) => t \in Range(y.overflow)
  /\ t \in Range(y.delayed) => t \in Range(x.delayed)
  /\ t \in Range(y.overflow) => t \in Range(x.overflow)
  /\ t \in WaitingIn(x) /\ t \notin Listening(x) => t \in WaitingIn(y)

(* What is said of its time is still true of such a task.                  *)
LEMMA StillTimed ==
  ASSUME NEW x, NEW y, NEW c, NEW t, StillThere(x, y, t), TimeFor(x, c, t)
  PROVE  TimeFor(y, c, t)
<1>1. t \in WaitingIn(y) => Kind(y, c, t)
  BY DEF StillThere, TimeFor, Kind, Timed
<1>2. t \in Timed(y) => Exact(y, c, t)
  BY DEF StillThere, TimeFor, Exact, Timed, WaitingIn, Away
<1>3. c.op \in {"receive", "send"} => Timing(y, c, t)
  BY DEF StillThere, TimeFor, Timing, Since
<1> QED BY <1>1, <1>2, <1>3 DEF TimeFor

(* A tick that is counted takes one from what is left of each wait.        *)
LEMMA CountedTimes ==
  ASSUME NEW x, StatesKept(x), EventsKept(x), Ahead(x), NEW t \in TaskSet, NEW c \in Callings,
         TimeFor(x, c, t)
  PROVE  LET z == Counted(x)
         IN  /\ TimeFor(z, c, t)
             /\ t \in Timed(x) => z.age[t] <= x.age[t] + 1
             /\ t \in Range(z.delayed) /\ z.wake[t] <= z.tick => x.age[t] + 1 >= c.asked
<1> DEFINE z == Counted(x)
<1>1. /\ StatesKept(z) /\ EventsKept(z) /\ SameEvents(x, z) /\ WaitingIn(z) = WaitingIn(x)
      /\ z.tick = (x.tick + 1) % TickMod /\ z.wake = x.wake
      /\ z.age = [u \in TaskSet |-> IF x.age[u] \in 0 .. TickMod - 1 THEN x.age[u] + 1 ELSE x.age[u]]
      /\ IF z.tick = 0
         THEN /\ z.delayed = x.overflow /\ z.overflow = x.delayed
              /\ z.wrapped = [u \in TaskSet |-> z.age[u] >= 0]
         ELSE /\ z.delayed = x.delayed /\ z.overflow = x.overflow /\ z.wrapped = x.wrapped
  BY CountedKeeps
<1> HIDE DEF z
<1>2. /\ x \in KernelStates /\ x.tick \in 0 .. Forever /\ x.age[t] \in Int /\ x.wake[t] \in 0 .. Forever
      /\ x.wrapped[t] \in BOOLEAN
      /\ Range(x.delayed) \cap Range(x.overflow) = {} /\ WaitKept(x)
      /\ \A u \in Range(x.delayed) : x.wake[u] \in 0 .. Forever
  <2>1. x \in KernelStates /\ WaitKept(x)
    BY DEF StatesKept
  <2>2. Range(x.delayed) \subseteq TaskSet
    BY <2>1, ListType DEF KernelStates
  <2> QED BY <2>1, <2>2 DEF KernelStates, WaitKept
<1>3. z.tick = IF x.tick = Forever THEN 0 ELSE x.tick + 1
  BY <1>1, <1>2, NextTick
<1>4. z.age[t] = IF x.age[t] \in 0 .. TickMod - 1 THEN x.age[t] + 1 ELSE x.age[t]
  BY <1>1
<1>5. IF x.tick = Forever
      THEN z.delayed = x.overflow /\ z.overflow = x.delayed /\ (z.wrapped[t] <=> z.age[t] >= 0)
      ELSE z.delayed = x.delayed /\ z.overflow = x.overflow /\ z.wrapped[t] = x.wrapped[t]
  <2>1. z.tick = 0 <=> x.tick = Forever
    BY <1>2, <1>3, ForeverType
  <2>2. z.wrapped = [u \in TaskSet |-> z.age[u] >= 0] => (z.wrapped[t] <=> z.age[t] >= 0)
    BY Zenon
  <2> QED BY <1>1, <2>1, <2>2
<1>6. x.tick = Forever => Range(x.delayed) = {}
  BY <1>2, ForeverType DEF Ahead
<1>7. Timed(z) = Timed(x) /\ Listening(z) = Listening(x)
  BY <1>1, <1>5 DEF Timed, Listening, SameEvents
<1>8. t \in Timed(x) => Away(z, t) = Away(x, t) - 1
  <2>1. CASE x.tick = Forever
    <3>1. t \in Timed(x) => t \in Range(z.delayed) /\ t \notin Range(x.delayed)
      BY <1>5, <1>6, <2>1 DEF Timed
    <3> QED BY <1>1, <1>2, <1>3, <2>1, <3>1, ForeverType DEF Away
  <2>2. CASE x.tick # Forever
    <3>1. t \in Range(z.delayed) <=> t \in Range(x.delayed)
      BY <1>5, <2>2
    <3>2. z.tick = x.tick + 1 /\ z.wake[t] = x.wake[t]
      BY <1>1, <1>3, <2>2
    <3> QED BY <1>2, <3>1, <3>2, ForeverType DEF Away
  <2> QED BY <2>1, <2>2
<1>9. c.asked \in 0 .. Forever /\ c.w \in 0 .. Forever /\ c.entry \in 0 .. Forever
  BY DEF Callings
<1>10. t \in WaitingIn(z) => Kind(z, c, t)
  BY <1>1, <1>7 DEF TimeFor, Kind
<1>11. t \in Timed(z) => Exact(z, c, t)
  <2> SUFFICES ASSUME t \in Timed(z) PROVE Exact(z, c, t)
    OBVIOUS
  <2>1. /\ x.age[t] \in 0 .. TickMod /\ Away(z, t) = Away(x, t) - 1
        /\ x.age[t] < TickMod => Away(x, t) = c.asked - x.age[t]
    BY <1>7, <1>8 DEF TimeFor, Exact
  <2>2. z.age[t] \in 0 .. TickMod /\ (z.age[t] < TickMod => z.age[t] = x.age[t] + 1 /\ x.age[t] < TickMod)
    BY <1>4, <2>1, ForeverType
  <2> DEFINE away == Away(x, t)
  <2>3. x.age[t] < TickMod => away - 1 = c.asked - (x.age[t] + 1)
    <3>1. x.age[t] < TickMod => away = c.asked - x.age[t]
      BY <2>1
    <3> HIDE DEF away
    <3> QED BY <1>2, <1>9, <3>1, ForeverType
  <2> QED BY <2>1, <2>2, <2>3 DEF Exact
<1>12. c.op \in {"receive", "send"} => Timing(z, c, t)
  <2> SUFFICES ASSUME c.op \in {"receive", "send"} PROVE Timing(z, c, t)
    OBVIOUS
  <2>1. Timing(x, c, t)
    BY DEF TimeFor
  <2>2. CASE c.asked = Forever
    BY <2>1, <2>2 DEF Timing
  <2>3. CASE c.asked # Forever
    <3>1. x.age[t] \in 0 .. TickMod
      BY <2>1, <2>3 DEF Timing
    <3>2. /\ z.age[t] \in 0 .. TickMod /\ z.age[t] >= x.age[t]
          /\ z.age[t] < TickMod => z.age[t] = x.age[t] + 1 /\ x.age[t] < TickMod
      BY <1>4, <3>1, ForeverType
    <3>3. CASE c.next = "out"
      <4>1. c.w = 0 /\ x.age[t] >= c.asked
        BY <2>1, <2>3, <3>3 DEF Timing
      <4>2. z.age[t] >= c.asked
        BY <1>9, <3>1, <3>2, <4>1, ForeverType
      <4> QED BY <2>3, <3>2, <3>3, <4>1, <4>2 DEF Timing
    <3>4. CASE c.next # "out"
      <4>1. /\ c.w \in 1 .. c.asked
            /\ x.age[t] < TickMod =>
                 /\ x.age[t] - (c.asked - c.w) \in 0 .. Forever
                 /\ x.tick = IF x.wrapped[t] THEN c.entry + (x.age[t] - (c.asked - c.w)) - TickMod
                             ELSE c.entry + (x.age[t] - (c.asked - c.w))
        BY <2>1, <2>3, <3>4 DEF Timing, Since
      <4>2. ASSUME z.age[t] < TickMod
            PROVE  /\ z.age[t] - (c.asked - c.w) \in 0 .. Forever
                   /\ z.tick = IF z.wrapped[t] THEN c.entry + (z.age[t] - (c.asked - c.w)) - TickMod
                               ELSE c.entry + (z.age[t] - (c.asked - c.w))
        <5>1. z.age[t] = x.age[t] + 1 /\ x.age[t] < TickMod
          BY <3>2, <4>2
        <5>2. z.age[t] - (c.asked - c.w) \in 0 .. Forever
          BY <1>9, <3>1, <4>1, <4>2, <5>1, ForeverType
        <5>3. CASE x.tick = Forever
          <6>1. z.tick = 0 /\ z.wrapped[t]
            BY <1>3, <1>5, <3>2, <5>3, ForeverType
          <6>2. ~x.wrapped[t]
            BY <1>9, <3>1, <4>1, <4>2, <5>1, <5>3, ForeverType
          <6> QED BY <1>9, <3>1, <4>1, <5>1, <5>2, <5>3, <6>1, <6>2, ForeverType
        <5>4. CASE x.tick # Forever
          <6>1. z.tick = x.tick + 1 /\ z.wrapped[t] = x.wrapped[t]
            BY <1>3, <1>5, <5>4
          <6> QED BY <1>2, <1>9, <3>1, <4>1, <5>1, <5>2, <6>1, ForeverType
        <5> QED BY <5>3, <5>4
      <4> QED BY <2>3, <3>2, <3>4, <4>1, <4>2 DEF Timing, Since
    <3> QED BY <3>3, <3>4
  <2> QED BY <2>2, <2>3
<1>13. t \in Timed(x) => z.age[t] <= x.age[t] + 1
  BY <1>2, <1>4, ForeverType
<1>14. t \in Range(z.delayed) /\ z.wake[t] <= z.tick => x.age[t] + 1 >= c.asked
  <2> SUFFICES ASSUME t \in Range(z.delayed), z.wake[t] <= z.tick PROVE x.age[t] + 1 >= c.asked
    OBVIOUS
  <2>1. /\ t \in Timed(x) /\ x.age[t] \in 0 .. TickMod
        /\ x.age[t] < TickMod => Away(x, t) = c.asked - x.age[t]
    BY <1>7 DEF TimeFor, Exact, Timed
  <2>2. Away(z, t) = z.wake[t] - z.tick /\ z.wake[t] \in Int /\ z.tick \in Int
    BY <1>1, <1>2, <1>3, ForeverType DEF Away
  <2> DEFINE away == Away(x, t)
  <2>3. z.wake[t] - z.tick = away - 1 /\ (x.age[t] < TickMod => away = c.asked - x.age[t])
    BY <1>8, <2>1, <2>2
  <2> HIDE DEF away
  <2> QED BY <1>9, <2>1, <2>2, <2>3, ForeverType
<1> QED BY <1>10, <1>11, <1>12, <1>13, <1>14 DEF TimeFor, z

(* What has become of the times of x in y, n ticks later: no wait that is  *)
(* for a time only has ended before it was over.                           *)
Overslept(x, y, n, c, t) ==
  t \in WaitingIn(x) /\ c.op = "sleep" =>
    IF t \in WaitingIn(y) THEN y.age[t] <= x.age[t] + n ELSE x.age[t] + n >= c.asked

(* A tick readies a task only when its time is over.                       *)
LEMMA TickedTimes ==
  ASSUME NEW x, StatesKept(x), EventsKept(x), x.pending = << >>, Ahead(x),
         NEW t \in TaskSet, NEW c \in Callings, TimeFor(x, c, t)
  PROVE  LET y == Ticked(x)
         IN  TimeFor(y, c, t) /\ Overslept(x, y, 1, c, t)
<1> DEFINE z == Counted(x)
           s == Expired(z)
           T == TickReadies(x)
           v == Through(Expires, z, s)
           y == Ticked(x)
<1>1. /\ StatesKept(z) /\ EventsKept(z) /\ SameEvents(x, z) /\ WaitingIn(z) = WaitingIn(x)
  BY CountedKeeps
<1>2. /\ TimeFor(z, c, t)
      /\ t \in Timed(x) => z.age[t] <= x.age[t] + 1
      /\ t \in Range(z.delayed) /\ z.wake[t] <= z.tick => x.age[t] + 1 >= c.asked
  BY CountedTimes
<1>3. y = IF z.tick >= z.unblock THEN WithUnblock(v) ELSE z
  BY DEF Ticked
<1>4. z.pending = << >> /\ Range(z.pending) = {}
  BY <1>1 DEF SameEvents, Range
<1>5. /\ s \in Seq(TaskSet) /\ IsInjective(s) /\ Range(s) \subseteq Range(z.delayed)
      /\ \A u \in Range(s) : z.wake[u] <= z.tick
  BY <1>1, ExpiredList DEF StatesKept
<1>6. t \in WaitingIn(x) /\ c.op = "sleep" => t \in Timed(x)
  BY DEF TimeFor, Kind
<1> HIDE DEF z, y, T
<1>7. CASE ~(z.tick >= z.unblock)
  <2>1. y = z
    BY <1>3, <1>7
  <2> QED BY <1>1, <1>2, <1>6, <2>1 DEF Overslept, y
<1>8. CASE z.tick >= z.unblock
  <2> DEFINE S == Range(s)
  <2>1. AfterExpiry(z, v, S)
    <3>1. Range(s) \subseteq WaitingIn(z) /\ Range(s) \cap Range(z.pending) = {}
      BY <1>4, <1>5 DEF WaitingIn
    <3> HIDE DEF s
    <3> QED BY <1>1, <1>5, <3>1, AllExpire
  <2>2. S \subseteq Range(z.delayed) /\ (t \in S => x.age[t] + 1 >= c.asked)
    BY <1>2, <1>5
  <2> HIDE DEF v, s
  <2>3. LET u == WithUnblock(v)
        IN  /\ StatesKept(u) /\ SameLists(v, u) /\ SameClock(v, u) /\ WaitingIn(u) = WaitingIn(v)
            /\ u.age = v.age /\ u.wrapped = v.wrapped
    BY <2>1, UnblockKeeps DEF AfterExpiry
  <2> HIDE DEF S
  <2>4. /\ y.tick = z.tick /\ WaitingIn(y) = WaitingIn(z) \ S
        /\ Range(y.delayed) = Range(z.delayed) \ S /\ Range(y.overflow) = Range(z.overflow) \ S
        /\ Range(y.rx) = Range(z.rx) \ S /\ Range(y.tx) = Range(z.tx) \ S /\ Range(y.pending) = {}
        /\ t \notin S => y.wake[t] = z.wake[t]
        /\ t \notin S \/ t \in Range(z.rx) \cup Range(z.tx) =>
             y.age[t] = z.age[t] /\ y.wrapped[t] = z.wrapped[t]
    BY <1>3, <1>4, <1>8, <2>1, <2>3 DEF AfterExpiry, SameLists, SameEvents, SameClock
  <2> HIDE <2>3, <2>1, <1>3
  <2>5. CASE t \notin S
    <3>1. StillThere(z, y, t)
      BY <1>4, <2>4, <2>5 DEF StillThere, Listening
    <3>2. TimeFor(y, c, t)
      BY <1>2, <3>1, StillTimed
    <3>3. Overslept(x, y, 1, c, t)
      BY <1>1, <1>2, <1>6, <2>4, <2>5 DEF Overslept
    <3> QED BY <3>2, <3>3 DEF y
  <2>6. CASE t \in S
    <3>1. t \notin WaitingIn(y) /\ t \notin Timed(y) /\ t \in WaitingIn(z)
      BY <2>2, <2>4, <2>6 DEF Timed, WaitingIn
    <3>2. c.op \in {"receive", "send"} => Timing(y, c, t)
      <4> SUFFICES ASSUME c.op \in {"receive", "send"} PROVE Timing(y, c, t)
        OBVIOUS
      <4>1. t \in Range(z.rx) \cup Range(z.tx) /\ Timing(z, c, t)
        BY <1>2, <1>4, <3>1 DEF TimeFor, Kind, Listening
      <4> QED BY <2>4, <4>1 DEF Timing, Since
    <3>3. Overslept(x, y, 1, c, t)
      BY <2>2, <2>6, <3>1 DEF Overslept
    <3> QED BY <3>1, <3>2, <3>3 DEF TimeFor, y
  <2> QED BY <2>5, <2>6
<1> QED BY <1>7, <1>8

(* After a tick no delayed task is overlooked, if none was before.         *)
LEMMA TickedAhead ==
  ASSUME NEW x, StatesKept(x), EventsKept(x), x.pending = << >>
  PROVE  Ahead(Ticked(x))
<1> DEFINE z == Counted(x)
           s == Expired(z)
           v == Through(Expires, z, s)
           y == Ticked(x)
<1>1. /\ StatesKept(z) /\ EventsKept(z) /\ SameEvents(x, z)
  BY CountedKeeps
<1>2. y = IF z.tick >= z.unblock THEN WithUnblock(v) ELSE z
  BY DEF Ticked
<1>3. z \in KernelStates /\ WaitKept(z)
  BY <1>1 DEF StatesKept
<1>4. /\ s \in Seq(TaskSet) /\ IsInjective(s) /\ Range(s) \subseteq Range(z.delayed)
      /\ \A t \in Range(z.delayed) : z.wake[t] <= z.tick => t \in Range(s)
  BY <1>3, ExpiredList
<1>5. /\ Range(z.delayed) \subseteq TaskSet /\ z.tick \in Nat /\ z.unblock \in Nat
      /\ \A t \in TaskSet : z.wake[t] \in Nat
  <2>1. /\ z.delayed \in Seq(TaskSet) /\ z.tick \in 0 .. Forever /\ z.unblock \in 0 .. Forever
        /\ z.wake \in [TaskSet -> 0 .. Forever]
    BY <1>3 DEF KernelStates
  <2> QED BY <2>1, ListType, ForeverType
<1> HIDE DEF z, y
<1>6. CASE ~(z.tick >= z.unblock)
  <2>1. ASSUME NEW t \in Range(z.delayed) PROVE z.wake[t] > z.tick
    <3>1. HeadWake(z) <= z.wake[t] /\ z.unblock <= HeadWake(z) /\ HeadWake(z) \in 0 .. Forever
      BY <1>3, HeadFirst, HeadWakeType DEF WaitKept
    <3> QED BY <1>5, <1>6, <3>1, ForeverType
  <2> QED BY <1>2, <1>6, <2>1 DEF Ahead, y
<1>7. CASE z.tick >= z.unblock
  <2>1. AfterExpiry(z, v, Range(s))
    <3>1. Range(s) \subseteq WaitingIn(z) /\ Range(s) \cap Range(z.pending) = {}
      BY <1>1, <1>4 DEF WaitingIn, SameEvents, Range
    <3> HIDE DEF s
    <3> QED BY <1>1, <1>4, <3>1, AllExpire
  <2> HIDE DEF v, s
  <2>2. LET u == WithUnblock(v)
        IN  SameLists(v, u) /\ SameClock(v, u)
    BY <2>1, UnblockKeeps DEF AfterExpiry
  <2>3. /\ y.tick = z.tick /\ Range(y.delayed) = Range(z.delayed) \ Range(s)
        /\ \A t \in TaskSet \ Range(s) : y.wake[t] = z.wake[t]
    BY <1>2, <1>7, <2>1, <2>2 DEF AfterExpiry, SameLists, SameClock
  <2>4. ASSUME NEW t \in Range(y.delayed) PROVE y.wake[t] > y.tick
    <3>1. t \in TaskSet \ Range(s) /\ ~(z.wake[t] <= z.tick)
      BY <1>4, <1>5, <2>3
    <3> QED BY <1>5, <2>3, <3>1
  <2> QED BY <2>4 DEF Ahead, y
<1> QED BY <1>6, <1>7

(* Nothing has changed over two stretches if nothing did in either.        *)
LEMMA StillThereAgain ==
  ASSUME NEW x, NEW y, NEW z, NEW t, StillThere(x, y, t), StillThere(y, z, t)
  PROVE  StillThere(x, z, t)
BY DEF StillThere

(* No delayed task is overlooked that was not before.                      *)
LEMMA AheadStill ==
  ASSUME NEW x \in KernelStates, NEW y \in KernelStates, Ahead(x),
         \A t \in TaskSet : StillThere(x, y, t)
  PROVE  Ahead(y)
<1> SUFFICES ASSUME NEW t \in Range(y.delayed) PROVE y.wake[t] > y.tick
  BY DEF Ahead
<1>1. t \in TaskSet
  BY ListType DEF KernelStates
<1>2. t \in WaitingIn(y)
  BY DEF WaitingIn
<1> QED BY <1>1, <1>2 DEF StillThere, Ahead

(* Notes of age and overflow are of one task only.                         *)
LEMMA NotedTimes ==
  ASSUME NEW x \in KernelStates, NEW t \in TaskSet, NEW a, NEW b, NEW y, y = Noted(x, t, a, b)
  PROVE  /\ \A u \in TaskSet : u # t => StillThere(x, y, u)
         /\ y.age[t] = a /\ y.wrapped[t] = b /\ y.tick = x.tick /\ y.wake = x.wake
         /\ y.delayed = x.delayed /\ y.overflow = x.overflow
         /\ WaitingIn(y) = WaitingIn(x) /\ Listening(y) = Listening(x)
<1>1. /\ y.age = [x.age EXCEPT ![t] = a] /\ y.wrapped = [x.wrapped EXCEPT ![t] = b]
      /\ y.tick = x.tick /\ y.wake = x.wake
      /\ SameWaits(x, y) /\ SameEvents(x, y)
  BY DEF KernelStates, Noted, SameWaits, SameEvents
<1>2. x.age \in [TaskSet -> Int] /\ x.wrapped \in [TaskSet -> BOOLEAN]
  BY DEF KernelStates
<1>3. WaitingIn(y) = WaitingIn(x) /\ Listening(y) = Listening(x)
  BY <1>1 DEF SameWaits, SameEvents, WaitingIn, Listening
<1> QED BY <1>1, <1>2, <1>3 DEF StillThere, SameWaits

(* Nothing has become of the tasks but what y leaves alone.                *)
LEMMA SameTimes ==
  ASSUME NEW x, NEW y, y.tick = x.tick, y.age = x.age, y.wrapped = x.wrapped,
         SameWaits(x, y), Listening(y) = Listening(x), NEW t
  PROVE  StillThere(x, y, t)
BY DEF StillThere, SameWaits, WaitingIn

(* An event wakes a task that listens, and no other.                       *)
LEMMA WokenTimes ==
  ASSUME NEW x, StatesKept(x), EventsKept(x), NEW list \in {"rx", "tx"}, NEW u \in TaskSet
  PROVE  StillThere(x, Woken(x, list), u)
<1> DEFINE t == Head(x[list])
           y == Woken(x, list)
<1>1. CASE x[list] = << >>
  <2>1. y = x
    BY <1>1 DEF Woken
  <2> QED BY <2>1 DEF StillThere
<1>2. CASE x[list] # << >>
  <2>1. /\ SameClock(x, y) /\ y.age = x.age /\ y.wrapped = x.wrapped
        /\ \A v \in TaskSet : v # t => y.wake[v] = x.wake[v]
        /\ IF susp THEN SameWaits(x, y) /\ y.pending = Append(x.pending, t)
                   ELSE /\ WaitingIn(y) = WaitingIn(x) \ {t}
                        /\ Range(y.delayed) = Range(x.delayed) \ {t}
                        /\ Range(y.overflow) = Range(x.overflow) \ {t}
                        /\ y.pending = x.pending
        /\ IF list = "rx" THEN y.rx = Tail(x.rx) /\ y.tx = x.tx
                          ELSE y.tx = Tail(x.tx) /\ y.rx = x.rx
    BY <1>2, WokenKeeps
  <2> HIDE DEF y
  <2>2. /\ x.rx \in Seq(TaskSet) /\ x.tx \in Seq(TaskSet) /\ x.pending \in Seq(TaskSet)
        /\ IsInjective(x.rx) /\ IsInjective(x.tx) /\ IsInjective(x.pending)
    BY DEF StatesKept, EventsKept, KernelStates
  <2>3. /\ t \in Range(x.rx) \cup Range(x.tx) /\ t \in TaskSet /\ t \notin Range(x.pending)
        /\ Range(y.rx) \cup Range(y.tx) = (Range(x.rx) \cup Range(x.tx)) \ {t}
    <3>1. CASE list = "rx"
      <4>1. Range(y.rx) = Range(x.rx) \ {t} /\ t \in Range(x.rx) /\ y.tx = x.tx
        BY <1>2, <2>1, <2>2, <3>1, TailList
      <4> HIDE DEF t
      <4> QED BY <2>2, <4>1, ListType DEF EventsKept
    <3>2. CASE list = "tx"
      <4>1. Range(y.tx) = Range(x.tx) \ {t} /\ t \in Range(x.tx) /\ y.rx = x.rx
        BY <1>2, <2>1, <2>2, <3>2, TailList
      <4> HIDE DEF t
      <4> QED BY <2>2, <4>1, ListType DEF EventsKept
    <3> QED BY <3>1, <3>2
  <2> HIDE DEF t
  <2>4. CASE susp
    <3>1. Range(y.pending) = Range(x.pending) \cup {t}
      <4>1. y.pending = Append(x.pending, t)
        BY <2>1, <2>4
      <4>2. x.pending \in Seq(TaskSet) /\ IsInjective(x.pending) /\ t \in TaskSet /\ t \notin Range(x.pending)
        BY <2>2, <2>3
      <4> HIDE <2>1, <2>2, <2>3
      <4> QED BY <4>1, <4>2, AppendedList
    <3>2. Listening(y) = Listening(x)
      BY <2>3, <3>1 DEF Listening
    <3> QED BY <2>1, <2>4, <3>2, SameTimes DEF SameClock, y
  <2>5. CASE ~susp
    <3>1. u # t => (u \in Listening(y) <=> u \in Listening(x))
      BY <2>1, <2>3, <2>5 DEF Listening
    <3>2. t \in Listening(x)
      BY <2>3 DEF Listening
    <3>3. /\ y.tick = x.tick /\ y.age = x.age /\ y.wrapped = x.wrapped
          /\ u # t => y.wake[u] = x.wake[u]
          /\ WaitingIn(y) = WaitingIn(x) \ {t}
          /\ Range(y.delayed) = Range(x.delayed) \ {t}
          /\ Range(y.overflow) = Range(x.overflow) \ {t}
      BY <2>1, <2>5 DEF SameClock
    <3> HIDE <2>1, <2>2, <2>3
    <3> QED BY <3>1, <3>2, <3>3 DEF StillThere, y
  <2> QED BY <2>4, <2>5
<1> QED BY <1>1, <1>2

(* What has become of the times of x in y, after n ticks that came late.   *)
Clocked(x, y, n) ==
  /\ y.tick = IF x.tick + n < TickMod THEN x.tick + n ELSE x.tick + n - TickMod
  /\ Ahead(y) /\ WaitingIn(y) \subseteq WaitingIn(x)
  /\ \A t \in TaskSet : TimeFor(y, call[t], t) /\ Overslept(x, y, n, call[t], t)

(* One more tick that comes late.                                          *)
LEMMA OneMoreClocked ==
  ASSUME NEW x \in KernelStates, NEW y, NEW n \in Nat, Clocked(x, y, n), n + 1 < TickMod, NEW m,
         StatesKept(y), EventsKept(y), y.pending = << >>, call \in [TaskSet -> Callings]
  PROVE  Clocked(x, TickLate(y, m), n + 1)
<1> DEFINE z == Ticked(y)
           T == TickReadies(y)
           b == z.yield \/ TickSwitches(y)
           v == TickLate(y, m)
<1>1. /\ StatesKept(z) /\ WaitingIn(z) = WaitingIn(y) \ T /\ z.tick = (y.tick + 1) % TickMod
  BY TickedKeeps
<1>2. Ahead(z)
  BY TickedAhead
<1>3. ASSUME NEW t \in TaskSet
      PROVE  TimeFor(z, call[t], t) /\ Overslept(y, z, 1, call[t], t)
  <2>1. call[t] \in Callings /\ TimeFor(y, call[t], t) /\ Ahead(y)
    BY DEF Clocked
  <2> QED BY <2>1, TickedTimes
<1>4. v = [z EXCEPT !.yield = b]
  BY DEF TickLate
<1>5. z \in KernelStates /\ b \in BOOLEAN
  BY <1>1 DEF StatesKept, KernelStates
<1> HIDE DEF z, v, b, T
<1>6. /\ v \in KernelStates /\ SameWaits(z, v) /\ SameEvents(z, v)
      /\ v.tick = z.tick /\ v.age = z.age /\ v.wrapped = z.wrapped
  BY <1>4, <1>5 DEF KernelStates, SameWaits, SameEvents
<1>7. WaitingIn(v) = WaitingIn(z) /\ Listening(v) = Listening(z)
  BY <1>6 DEF SameWaits, SameEvents, WaitingIn, Listening
<1>8. \A t \in TaskSet : StillThere(z, v, t)
  BY <1>6, <1>7, SameTimes
<1>9. Ahead(v)
  BY <1>2, <1>5, <1>6, <1>8, AheadStill
<1>10. v.tick = IF x.tick + (n + 1) < TickMod THEN x.tick + (n + 1) ELSE x.tick + (n + 1) - TickMod
  <2>1. x.tick \in 0 .. Forever /\ y.tick \in 0 .. Forever
    BY DEF StatesKept, KernelStates
  <2>2. v.tick = IF y.tick = Forever THEN 0 ELSE y.tick + 1
    BY <1>1, <1>6, <2>1, NextTick
  <2> QED BY <2>1, <2>2, ForeverType DEF Clocked
<1>11. ASSUME NEW t \in TaskSet
       PROVE  TimeFor(v, call[t], t) /\ Overslept(x, v, n + 1, call[t], t)
  <2>1. TimeFor(v, call[t], t)
    BY <1>3, <1>8, StillTimed
  <2>2. /\ x.age[t] \in Int /\ y.age[t] \in Int /\ z.age[t] \in Int /\ call[t].asked \in Int
        /\ v.age[t] = z.age[t]
    <3>1. call[t] \in Callings
      OBVIOUS
    <3>2. call[t].asked \in Int
      BY <3>1, ForeverType DEF Callings
    <3> QED BY <1>5, <1>6, <3>2 DEF StatesKept, KernelStates
  <2>3. ASSUME t \in WaitingIn(x), call[t].op = "sleep"
        PROVE  IF t \in WaitingIn(v) THEN v.age[t] <= x.age[t] + (n + 1)
               ELSE x.age[t] + (n + 1) >= call[t].asked
    <3>1. IF t \in WaitingIn(y) THEN y.age[t] <= x.age[t] + n ELSE x.age[t] + n >= call[t].asked
      BY <2>3 DEF Clocked, Overslept
    <3>2. t \in WaitingIn(y) => IF t \in WaitingIn(z) THEN z.age[t] <= y.age[t] + 1
                                ELSE y.age[t] + 1 >= call[t].asked
      BY <1>3, <2>3 DEF Overslept
    <3>3. t \in WaitingIn(v) <=> t \in WaitingIn(z)
      BY <1>7
    <3>4. t \in WaitingIn(z) => t \in WaitingIn(y)
      BY <1>1
    <3> QED BY <2>2, <3>1, <3>2, <3>3, <3>4
  <2> QED BY <2>1, <2>3 DEF Overslept
<1>12. WaitingIn(v) \subseteq WaitingIn(x)
  BY <1>1, <1>7 DEF Clocked
<1> QED BY <1>9, <1>10, <1>11, <1>12 DEF Clocked, v

(* The clock when the scheduler resumes: as many ticks later as came while *)
(* it was suspended, none of them too early for a task.                    *)
LEMMA ResumedTimes ==
  ASSUME KernelInv, TimeInv
  PROVE  \E n \in 0 .. MaxPended : Clocked(k, Resumed(k), n)
<1> DEFINE x == k
           z == Recovered(x)
           T == Range(x.pending)
           m == x.pended
           s == Count(m)
           a == Through(TickLate, z, s)
           e == Resumed(x)
<1>0. e = [a EXCEPT !.pended = 0]
  BY DEF Resumed, Recovered, Count
<1>1. /\ StatesKept(x) /\ EventsKept(x) /\ x \in KernelStates /\ m \in 0 .. MaxPended /\ Len(s) = m
      /\ cur \in TaskSet /\ call \in [TaskSet -> Callings]
  <2>1. /\ StatesKept(x) /\ EventsKept(x) /\ cur \in TaskSet /\ call \in [TaskSet -> Callings]
    BY DEF KernelInv, Control
  <2>2. x \in KernelStates
    BY <2>1 DEF StatesKept
  <2>3. m \in 0 .. MaxPended
    BY <2>2 DEF KernelStates
  <2> HIDE DEF x, m
  <2>4. Len(s) = m
    BY <2>3, KernelAssumption DEF Count
  <2> QED BY <2>1, <2>2, <2>3, <2>4
<1>2. Ahead(x) /\ \A t \in TaskSet : TimeFor(x, call[t], t)
  BY DEF TimeInv
<1> HIDE DEF x, e, m, s
<1>3. /\ StatesKept(z) /\ EventsKept(z) /\ z.pending = << >>
      /\ WaitingIn(z) = WaitingIn(x) \ T
      /\ z.rx = x.rx /\ z.tx = x.tx /\ SameClock(x, z)
      /\ z.age = x.age /\ z.wrapped = x.wrapped
      /\ \A u \in TaskSet \ T : z.wake[u] = x.wake[u]
      /\ Range(z.delayed) = Range(x.delayed) \ T
      /\ Range(z.overflow) = Range(x.overflow) \ T
  BY <1>1, RecoveredKeeps
<1> HIDE DEF z
<1>4. Listening(z) = Listening(x) \ T
  <2>1. T \cap (Range(x.rx) \cup Range(x.tx)) = {}
    BY <1>1 DEF EventsKept
  <2>2. Range(z.pending) = {}
    BY <1>3 DEF Range
  <2> QED BY <1>3, <2>1, <2>2 DEF Listening
<1>5. \A t \in TaskSet : StillThere(x, z, t)
  <2>1. T \subseteq Listening(x)
    BY DEF Listening
  <2> HIDE DEF T
  <2> QED BY <1>3, <1>4, <2>1 DEF StillThere, SameClock
<1>6. z \in KernelStates
  BY <1>3 DEF StatesKept
<1>7. Clocked(x, z, 0)
  <2>1. Ahead(z)
    BY <1>1, <1>2, <1>5, <1>6, AheadStill
  <2>2. z.tick = IF x.tick + 0 < TickMod THEN x.tick + 0 ELSE x.tick + 0 - TickMod
    BY <1>1, <1>3, ForeverType DEF SameClock, KernelStates
  <2>3. ASSUME NEW t \in TaskSet
        PROVE  TimeFor(z, call[t], t) /\ Overslept(x, z, 0, call[t], t)
    <3>1. TimeFor(z, call[t], t)
      BY <1>2, <1>5, StillTimed
    <3>2. t \in WaitingIn(x) /\ call[t].op = "sleep" => t \in WaitingIn(z)
      BY <1>2, <1>5 DEF StillThere, TimeFor, Kind
    <3>3. z.age[t] <= x.age[t] + 0
      BY <1>1, <1>3 DEF KernelStates
    <3> QED BY <3>1, <3>2, <3>3 DEF Overslept
  <2>4. WaitingIn(z) \subseteq WaitingIn(x)
    BY <1>3
  <2> QED BY <2>1, <2>2, <2>3, <2>4 DEF Clocked
<1>8. PICK g : Partial("late", z, s, Len(s), g) /\ a = g[Len(s)]
  <2>1. Len(s) \in Nat
    BY <1>1, KernelAssumption
  <2> QED BY <2>1, ThroughTicks
<1> HIDE DEF a
<1>9. g[0] = z /\ \A n \in 1 .. m : g[n] = TickLate(g[n - 1], s[n])
  <2>1. m \in Nat
    BY <1>1, KernelAssumption
  <2> QED BY <1>1, <1>8, <2>1, PartialSteps DEF Applied
<1> DEFINE bad == {n \in 0 .. m : ~(AfterTicks(z, g[n]) /\ Clocked(x, g[n], n))}
<1>10. bad = {}
  <2> SUFFICES ASSUME bad # {} PROVE FALSE
    OBVIOUS
  <2>1. PICK n \in bad : \A j \in bad : n <= j
    <3>1. bad \in SUBSET Nat
      BY <1>1
    <3> HIDE DEF bad
    <3> QED BY <3>1, LeastNumber
  <2>2. n \in 0 .. m /\ ~(AfterTicks(z, g[n]) /\ Clocked(x, g[n], n))
    BY <2>1
  <2>3. CASE n = 0
    <3>1. AfterTicks(z, z)
      BY <1>3 DEF AfterTicks
    <3> QED BY <1>7, <1>9, <2>2, <2>3, <3>1
  <2>4. CASE n # 0
    <3>1. /\ n \in 1 .. m /\ n - 1 \in 0 .. m /\ n - 1 \in Nat /\ ~(n <= n - 1) /\ (n - 1) + 1 = n
          /\ n < TickMod
      BY <1>1, <2>2, <2>4, KernelAssumption
    <3>2. AfterTicks(z, g[n - 1]) /\ Clocked(x, g[n - 1], n - 1)
      BY <2>1, <3>1
    <3>3. AfterTicks(z, TickLate(g[n - 1], s[n]))
      BY <1>1, <3>2, OneMoreTick
    <3> DEFINE y == g[n - 1]
               j == n - 1
    <3>4. /\ StatesKept(y) /\ EventsKept(y) /\ y.pending = << >>
          /\ Clocked(x, y, j) /\ j \in Nat /\ j + 1 < TickMod /\ j + 1 = n
      BY <3>1, <3>2 DEF AfterTicks
    <3> HIDE DEF y, j
    <3>5. Clocked(x, TickLate(y, s[n]), j + 1)
      BY <1>1, <3>4, OneMoreClocked
    <3> QED BY <1>9, <2>2, <3>1, <3>3, <3>4, <3>5 DEF y
  <2> QED BY <2>3, <2>4
<1>11. AfterTicks(z, a) /\ Clocked(x, a, m)
  <2>1. m \in 0 .. m
    BY <1>1
  <2> QED BY <1>1, <1>8, <1>10, <2>1
<1>12. a \in KernelStates
  BY <1>11 DEF AfterTicks, StatesKept
<1>13. /\ e.tick = a.tick /\ e.age = a.age /\ e.wrapped = a.wrapped
       /\ SameWaits(a, e) /\ SameEvents(a, e)
  BY <1>0, <1>12 DEF KernelStates, SameWaits, SameEvents
<1>14. WaitingIn(e) = WaitingIn(a) /\ Listening(e) = Listening(a)
  BY <1>13 DEF SameWaits, SameEvents, WaitingIn, Listening
<1>15. \A t \in TaskSet : StillThere(a, e, t)
  BY <1>13, <1>14, SameTimes
<1>16. e \in KernelStates
  <2>1. 0 \in 0 .. MaxPended
    BY KernelAssumption
  <2> QED BY <1>0, <1>12, <2>1 DEF KernelStates
<1>17. Ahead(e)
  BY <1>11, <1>12, <1>15, <1>16, AheadStill DEF Clocked
<1>18. ASSUME NEW t \in TaskSet
       PROVE  TimeFor(e, call[t], t) /\ Overslept(x, e, m, call[t], t)
  <2>1. TimeFor(a, call[t], t) /\ Overslept(x, a, m, call[t], t)
    BY <1>11 DEF Clocked
  <2>2. TimeFor(e, call[t], t)
    BY <1>15, <2>1, StillTimed
  <2> QED BY <1>13, <1>14, <2>1, <2>2 DEF Overslept
<1>19. Clocked(x, e, m)
  BY <1>11, <1>13, <1>14, <1>17, <1>18 DEF Clocked
<1> QED BY <1>1, <1>19 DEF e, x

(* No wait is cut short by a step.                                         *)
InTime ==
  \A t \in TaskSet :
    /\ InCall(t, "sleep") /\ t \in WaitingIn(k) /\ t \notin WaitingIn(k') =>
         k.age[t] + ((k'.tick + TickMod - k.tick) % TickMod) >= call[t].asked
    /\ call[t].op \in {"receive", "send"} /\ call'[t].op # call[t].op /\ ring' = ring =>
         k.age[t] >= call[t].asked

(* What each step has to keep, and what there is to keep it with.          *)
TimeKeeps  == TimeInv' /\ InTime
TimeBefore == KernelInv /\ Sound(ring) /\ Awaited /\ TimeInv

(* The parts of the invariant after a step are those of the new data.      *)
LEMMA TimesLater ==
  ASSUME Ahead(k'), \A t \in TaskSet : TimeFor(k', call'[t], t) /\ Stands(k', pc'[t], call'[t], t)
  PROVE  TimeInv'
BY DEF TimeInv, Ahead, TimeFor, Stands, Kind, Exact, Timing, Since, Away, Timed, Listening, WaitingIn

(* Where the tick count and the notes of a task stay, it stands as before. *)
LEMMA StillStands ==
  ASSUME NEW x, NEW y, NEW p, NEW c, NEW t, StillThere(x, y, t), Stands(x, p, c, t)
  PROVE  Stands(y, p, c, t)
BY DEF StillThere, Stands

(* A step that concerns the current task alone, and lets no time pass.     *)
LEMMA TimesMove ==
  ASSUME TimeBefore, k' \in KernelStates, NEW p, NEW c, GoesOn(p, c),
         \A u \in TaskSet : u # cur => StillThere(k, k', u),
         InCall(cur, "sleep") /\ cur \in WaitingIn(k) => cur \in WaitingIn(k'),
         TimeFor(k', c, cur), Stands(k', p, c, cur),
         cur \in Range(k'.delayed) => k'.wake[cur] > k'.tick,
         call[cur].op \in {"receive", "send"} /\ c.op # call[cur].op /\ ring' = ring =>
           k.age[cur] >= call[cur].asked
  PROVE  TimeKeeps
<1>1. /\ cur \in TaskSet /\ pc'[cur] = p /\ call'[cur] = c
      /\ \A u \in TaskSet : u # cur => pc'[u] = pc[u] /\ call'[u] = call[u]
  BY DEF TimeBefore, KernelInv, Control, ExclInv, GoesOn
<1>2. Ahead(k) /\ \A u \in TaskSet : TimeFor(k, call[u], u) /\ Stands(k, pc[u], call[u], u)
  BY DEF TimeBefore, TimeInv
<1>3. Ahead(k')
  <2> SUFFICES ASSUME NEW u \in Range(k'.delayed) PROVE k'.wake[u] > k'.tick
    BY DEF Ahead
  <2>1. u \in TaskSet /\ u \in WaitingIn(k')
    BY ListType DEF KernelStates, WaitingIn
  <2> QED BY <1>2, <2>1 DEF StillThere, Ahead
<1>4. ASSUME NEW u \in TaskSet
      PROVE  TimeFor(k', call'[u], u) /\ Stands(k', pc'[u], call'[u], u)
  <2>1. CASE u = cur
    BY <1>1, <2>1
  <2>2. CASE u # cur
    <3>1. StillThere(k, k', u) /\ TimeFor(k, call[u], u) /\ Stands(k, pc[u], call[u], u)
      BY <1>2, <2>2
    <3>2. TimeFor(k', call[u], u) /\ Stands(k', pc[u], call[u], u)
      BY <3>1, StillTimed, StillStands
    <3> QED BY <1>1, <2>2, <3>2
  <2> QED BY <2>1, <2>2
<1>5. TimeInv'
  BY <1>3, <1>4, TimesLater
<1>6. \A u \in TaskSet : InCall(u, "sleep") /\ u \in WaitingIn(k) => u \in WaitingIn(k')
  BY <1>2 DEF StillThere, TimeFor, Kind, InCall
<1> QED BY <1>1, <1>5, <1>6 DEF TimeKeeps, InTime

(* A step that only readies those that were woken.                         *)
LEMMA TimesStay ==
  ASSUME TimeBefore, k' \in KernelStates, UNCHANGED <<pc, call>>,
         \A u \in TaskSet : StillThere(k, k', u)
  PROVE  TimeKeeps
<1>1. Ahead(k) /\ \A u \in TaskSet : TimeFor(k, call[u], u) /\ Stands(k, pc[u], call[u], u)
  BY DEF TimeBefore, TimeInv
<1>2. Ahead(k')
  BY <1>1, AheadStill DEF TimeBefore, KernelInv, StatesKept
<1>3. \A u \in TaskSet : TimeFor(k', call'[u], u) /\ Stands(k', pc'[u], call'[u], u)
  BY <1>1, StillTimed, StillStands
<1>4. TimeInv'
  BY <1>2, <1>3, TimesLater
<1>5. \A u \in TaskSet : InCall(u, "sleep") /\ u \in WaitingIn(k) => u \in WaitingIn(k')
  BY <1>1 DEF StillThere, TimeFor, Kind, InCall
<1> QED BY <1>4, <1>5 DEF TimeKeeps, InTime

(* A step of the current task that leaves its call as it is.               *)
LEMMA TimesGo ==
  ASSUME TimeBefore, k' \in KernelStates, NEW p, GoesOn(p, call[cur]),
         \A u \in TaskSet : StillThere(k, k', u), Stands(k, p, call[cur], cur)
  PROVE  TimeKeeps
<1>1. cur \in TaskSet /\ Ahead(k) /\ TimeFor(k, call[cur], cur)
  BY DEF TimeBefore, TimeInv, KernelInv, Control
<1>2. Ahead(k')
  BY <1>1, AheadStill DEF TimeBefore, KernelInv, StatesKept
<1>3. TimeFor(k', call[cur], cur) /\ Stands(k', p, call[cur], cur)
  BY <1>1, StillTimed, StillStands
<1>4. InCall(cur, "sleep") /\ cur \in WaitingIn(k) => cur \in WaitingIn(k')
  BY <1>1 DEF StillThere, TimeFor, Kind, InCall
<1>5. cur \in Range(k'.delayed) => k'.wake[cur] > k'.tick
  BY <1>2 DEF Ahead
<1> DEFINE c == call[cur]
<1>6. GoesOn(p, c) /\ TimeFor(k', c, cur) /\ Stands(k', p, c, cur) /\ c.op = call[cur].op
  BY <1>3
<1> HIDE DEF c
<1> QED BY <1>1, <1>4, <1>5, <1>6, TimesMove

(* No task waits for nothing.                                              *)
LEMMA NothingTimed ==
  ASSUME NEW x, NEW c, NEW t, t \notin WaitingIn(x), c.op \notin {"receive", "send"}
  PROVE  TimeFor(x, c, t)
BY DEF TimeFor, Timed, WaitingIn

(* Where nothing changes, nothing does.                                    *)
LEMMA SameStill ==
  ASSUME NEW x, NEW t
  PROVE  StillThere(x, x, t)
BY DEF StillThere

(* What the steps need to know of the current task.                        *)
LEMMA CurrentTimes ==
  ASSUME TimeBefore
  PROVE  /\ cur \in TaskSet /\ call = [call EXCEPT ![cur] = call[cur]] /\ call[cur] \in Callings
         /\ k \in KernelStates /\ StatesKept(k) /\ EventsKept(k)
         /\ TimeFor(k, call[cur], cur) /\ Stands(k, pc[cur], call[cur], cur)
         /\ pc[cur] \in {"suspend", "lock", "check", "test", "place"} => call[cur].op \in {"receive", "send"}
         /\ pc[cur] = "app" => call[cur].op \notin {"receive", "send"}
         /\ cur \in ReadyIn(k) => cur \notin WaitingIn(k)
         /\ \A u \in TaskSet : StillThere(k, k, u)
<1>1. cur \in TaskSet /\ call \in [TaskSet -> Callings] /\ StatesKept(k) /\ EventsKept(k)
  BY DEF TimeBefore, KernelInv, Control
<1>2. k \in KernelStates /\ (cur \in ReadyIn(k) => cur \notin WaitingIn(k))
  BY <1>1 DEF StatesKept, Divided
<1> QED BY <1>1, <1>2, SameStill DEF TimeBefore, TimeInv, Awaited

(* The clock and the notes of the tasks are not touched by a switch ...    *)
LEMMA SwitchContextTimes ==
  ASSUME TimeBefore, SwitchContext
  PROVE  TimeKeeps
<1>1. /\ UNCHANGED <<pc, call>> /\ k \in KernelStates
      /\ k' = Switched(k) \/ k' = [k EXCEPT !.yield = TRUE]
  BY CurrentTimes DEF SwitchContext
<1>2. /\ k' \in KernelStates /\ SameWaits(k, k') /\ SameEvents(k, k')
      /\ k'.tick = k.tick /\ k'.age = k.age /\ k'.wrapped = k.wrapped
  <2>1. CASE k' = Switched(k)
    <3>1. StatesKept(k) /\ EventsKept(k) /\ ReadyIn(k) # {}
      BY SomeReady DEF TimeBefore, KernelInv
    <3> QED BY <2>1, <3>1, SwitchedKeeps DEF StatesKept, SameClock
  <2>2. CASE k' = [k EXCEPT !.yield = TRUE]
    <3>1. TRUE \in BOOLEAN
      OBVIOUS
    <3> QED BY <1>1, <2>2, <3>1 DEF KernelStates, SameWaits, SameEvents
  <2> QED BY <1>1, <2>1, <2>2
<1>3. \A u \in TaskSet : StillThere(k, k', u)
  <2>1. Listening(k') = Listening(k)
    BY <1>2 DEF SameEvents, Listening
  <2> QED BY <1>2, <2>1, SameTimes
<1> QED BY <1>1, <1>2, <1>3, TimesStay

(* ... nor by what the interrupt sends, but that a task is woken.          *)
LEMMA CanInterruptTimes ==
  ASSUME TimeBefore, CanInterrupt
  PROVE  TimeKeeps
<1>1. UNCHANGED <<pc, call>> /\ (k' = Woken(k, "rx") \/ k' = k)
  BY DEF CanInterrupt
<1>2. k \in KernelStates /\ StatesKept(k) /\ EventsKept(k) /\ \A u \in TaskSet : StillThere(k, k, u)
  BY CurrentTimes
<1>3. CASE k' = k
  BY <1>1, <1>2, <1>3, TimesStay
<1>4. CASE k' = Woken(k, "rx")
  <2>1. k' \in KernelStates
    BY <1>2, <1>4, ReceiverWoken DEF Shortened
  <2>2. \A u \in TaskSet : StillThere(k, k', u)
    <3> DEFINE l == "rx"
    <3>1. l \in {"rx", "tx"} /\ k' = Woken(k, l)
      BY <1>4
    <3> HIDE DEF l
    <3> QED BY <1>2, <3>1, WokenTimes
  <2> QED BY <1>1, <2>1, <2>2, TimesStay
<1> QED BY <1>1, <1>3, <1>4

(* vTaskSuspendAll and prvLockQueue look at no clock,                      *)
LEMMA SuspendTimes ==
  ASSUME TimeBefore, Suspend(cur)
  PROVE  TimeKeeps
<1>1. GoesOn("lock", call[cur]) /\ k' = k
  BY CurrentTimes DEF Suspend, Goes, GoesOn
<1>2. Stands(k, "lock", call[cur], cur)
  BY DEF Stands
<1> QED BY <1>1, <1>2, CurrentTimes, TimesGo

(* ... neither of them.                                                    *)
LEMMA LockTimes ==
  ASSUME TimeBefore, Lock(cur)
  PROVE  TimeKeeps
<1>1. GoesOn("check", call[cur]) /\ k' = k
  BY CurrentTimes DEF Lock, Goes, GoesOn
<1>2. Stands(k, "check", call[cur], cur)
  BY DEF Stands
<1> QED BY <1>1, <1>2, CurrentTimes, TimesGo

(* prvUnlockQueue wakes tasks, and touches no time.                        *)
LEMMA UnlockTimes ==
  ASSUME TimeBefore, Unlock(cur)
  PROVE  TimeKeeps
<1>1. /\ GoesOn("resume", call[cur]) /\ pc[cur] = "unlock"
      /\ k' = Through(LAMBDA x, n : Woken(x, "rx"), k, SentMeanwhile)
  BY CurrentTimes DEF Unlock, At, Goes, GoesOn
<1>2. susp /\ k \in KernelStates /\ StatesKept(k) /\ EventsKept(k)
  BY <1>1, CurrentTimes, Holding DEF TimeBefore, Inside
<1>3. Len(SentMeanwhile) \in Nat
  <2>1. lock \in -1 .. Len(Tasks) /\ Len(Tasks) \in Nat
    BY TaskCount DEF TimeBefore, KernelInv, Control
  <2>2. SentMeanwhile = [n \in 1 .. lock |-> n]
    BY DEF SentMeanwhile
  <2>3. CASE lock = -1
    <3>1. SentMeanwhile = << >>
      BY <2>2, <2>3
    <3> QED BY <3>1
  <2>4. CASE lock # -1
    <3>1. lock \in Nat
      BY <2>1, <2>4
    <3> QED BY <2>2, <3>1
  <2> QED BY <2>3, <2>4
<1> DEFINE n == Len(SentMeanwhile)
<1> HIDE DEF SentMeanwhile
<1>4. AfterWoken(k, k', n)
  BY <1>1, <1>2, <1>3, AllWoken
<1>5. k' \in KernelStates
  BY <1>4 DEF AfterWoken, StatesKept
<1>6. Listening(k') = Listening(k)
  BY <1>4 DEF AfterWoken, Listening
<1>7. \A u \in TaskSet : StillThere(k, k', u)
  BY <1>4, <1>6, SameTimes DEF AfterWoken, SameClock
<1>8. Stands(k, "resume", call[cur], cur)
  BY DEF Stands
<1> QED BY <1>1, <1>5, <1>7, <1>8, TimesGo

(* The second look at the queue: the task goes to wait, or round its loop. *)
LEMMA TestTimes ==
  ASSUME TimeBefore, Test(cur)
  PROVE  TimeKeeps
<1>1. pc[cur] = "test" /\ k' = k /\ Stands(k, "test", call[cur], cur)
  BY CurrentTimes DEF Test, At
<1>2. CASE call' = call
  <2>1. GoesOn("place", call[cur]) \/ GoesOn("unlock", call[cur])
    BY <1>2, CurrentTimes DEF Test, Goes, GoesOn
  <2>2. Stands(k, "place", call[cur], cur) /\ Stands(k, "unlock", call[cur], cur)
    BY <1>1 DEF Stands
  <2> QED BY <1>1, <2>1, <2>2, CurrentTimes, TimesGo
<1>3. CASE call' # call
  <2> DEFINE c == [call[cur] EXCEPT !.next = "again"]
  <2>1. GoesOn("unlock", c)
    BY <1>3, CurrentTimes DEF Test, Goes, GoesOn
  <2>2. /\ c.op = call[cur].op /\ c.asked = call[cur].asked /\ c.w = call[cur].w
        /\ c.entry = call[cur].entry /\ c.next = "again"
    BY CurrentTimes DEF Callings
  <2> HIDE DEF c
  <2>3. cur \notin WaitingIn(k) /\ cur \notin Range(k.delayed)
    <3>1. cur \in ReadyIn(k)
      BY <1>1, Holding DEF TimeBefore, Inside, NotYetWaiting
    <3> QED BY <3>1, CurrentTimes DEF WaitingIn
  <2>4. TimeFor(k, c, cur)
    <3>1. TimeFor(k, call[cur], cur) /\ call[cur].next # "out"
      BY <1>1, CurrentTimes DEF Stands
    <3> QED BY <2>2, <2>3, <3>1 DEF TimeFor, Timing, Since, Timed, WaitingIn
  <2>5. Stands(k, "unlock", c, cur)
    BY DEF Stands
  <2> QED BY <1>1, <2>1, <2>2, <2>3, <2>4, <2>5, CurrentTimes, TimesMove
<1> QED BY <1>2, <1>3

(* The call begins to wait for a time.                                     *)
LEMMA SleepTimes ==
  ASSUME TimeBefore, ~pendsv, Sleep(cur)
  PROVE  TimeKeeps
<1>1. pc[cur] = "app" /\ k' = k
  BY DEF Sleep, At
<1>2. PICK c : GoesOn("delay", c) /\ c.op = "sleep"
  <2> DEFINE e == IF call[cur].op = "sleep" THEN call[cur].entry ELSE k.tick
             d(w) == [NoCall EXCEPT !.op = "sleep", !.w = w, !.next = "block", !.entry = e]
  <2>1. \E w : call' = [call EXCEPT ![cur] = d(w)]
    BY DEF Sleep
  <2>2. \A w : d(w).op = "sleep"
    BY DEF NoCall
  <2>3. pc' = [pc EXCEPT ![cur] = "delay"]
    BY DEF Sleep, Goes
  <2> HIDE DEF d
  <2> QED BY <2>1, <2>2, <2>3 DEF GoesOn
<1>3. cur \notin WaitingIn(k) /\ cur \notin Range(k.delayed)
  <2>1. cur \in ReadyIn(k)
    BY <1>1, Running DEF TimeBefore
  <2> QED BY <2>1, CurrentTimes DEF WaitingIn
<1>4. TimeFor(k, c, cur) /\ Stands(k, "delay", c, cur)
  BY <1>2, <1>3, NothingTimed DEF Stands
<1> QED BY <1>1, <1>2, <1>3, <1>4, CurrentTimes, TimesMove

(* A task that begins to wait for w ticks has as long to.                  *)
LEMMA LaidOff ==
  ASSUME NEW x \in KernelStates, NEW y \in KernelStates, NEW t \in TaskSet, NEW w \in 1 .. Forever,
         t \notin Timed(x), y.tick = x.tick, y.wake[t] = (x.tick + w) % TickMod,
         IF Overflows(x, w)
         THEN y.delayed = x.delayed /\ Range(y.overflow) = Range(x.overflow) \cup {t}
         ELSE Range(y.delayed) = Range(x.delayed) \cup {t} /\ y.overflow = x.overflow
  PROVE  /\ t \in Timed(y) /\ Away(y, t) = w
         /\ t \in Range(y.delayed) => y.wake[t] > y.tick
<1>1. x.tick \in 0 .. Forever
  BY DEF KernelStates
<1>2. CASE Overflows(x, w)
  <2>1. t \in Range(y.overflow) /\ t \notin Range(y.delayed)
    BY <1>2 DEF Timed
  <2>2. x.tick + w - TickMod \in 0 .. Forever /\ x.tick + w = (x.tick + w - TickMod) + TickMod
    BY <1>1, <1>2, ForeverType DEF Overflows
  <2>3. (x.tick + w) % TickMod = x.tick + w - TickMod
    <3> DEFINE n == x.tick + w - TickMod
    <3>1. n \in 0 .. Forever /\ x.tick + w = n + TickMod
      BY <2>2
    <3> HIDE DEF n
    <3> QED BY <3>1, Wraps DEF n
  <2>4. Away(y, t) = y.wake[t] + TickMod - y.tick
    BY <2>1 DEF Away
  <2> QED BY <1>1, <2>1, <2>3, <2>4, ForeverType DEF Timed
<1>3. CASE ~Overflows(x, w)
  <2>1. t \in Range(y.delayed)
    BY <1>3
  <2>2. x.tick + w \in 0 .. Forever
    BY <1>1, <1>3, ForeverType DEF Overflows
  <2>3. (x.tick + w) % TickMod = x.tick + w
    BY <2>2, Wraps
  <2>4. Away(y, t) = y.wake[t] - y.tick
    BY <2>1 DEF Away
  <2> QED BY <1>1, <2>1, <2>3, <2>4, ForeverType DEF Timed
<1> QED BY <1>2, <1>3

(* What xTaskCheckForTimeOut computes is what has passed since the task    *)
(* looked last, however often the count has overflowed before.             *)
LEMMA ElapsedSince ==
  ASSUME k.tick \in 0 .. Forever, NEW t \in TaskSet, k.wrapped[t] \in BOOLEAN, NEW c \in Callings,
         Timing(k, c, t), c.asked # Forever, c.next # "out", k.age[t] < TickMod
  PROVE  /\ Elapsed(c) = Since(k, c, t)
         /\ ~(k.wrapped[t] /\ k.tick >= c.entry)
<1>1. c.entry \in 0 .. Forever
  BY DEF Callings
<1>2. /\ Since(k, c, t) \in 0 .. Forever
      /\ k.tick = IF k.wrapped[t] THEN c.entry + Since(k, c, t) - TickMod
                                  ELSE c.entry + Since(k, c, t)
  BY DEF Timing
<1>3. Elapsed(c) = IF c.entry <= k.tick THEN k.tick - c.entry ELSE k.tick + TickMod - c.entry
  BY <1>1, FromTo DEF Elapsed
<1> DEFINE since == Since(k, c, t)
<1>4. /\ since \in 0 .. Forever
      /\ k.tick = IF k.wrapped[t] THEN c.entry + since - TickMod ELSE c.entry + since
  BY <1>2
<1> HIDE DEF since
<1> QED BY <1>1, <1>3, <1>4, ForeverType DEF since

(* The end of a wait: not before its time is over.                         *)
LEMMA TimedOutRightly ==
  ASSUME k.tick \in 0 .. Forever, NEW t \in TaskSet, k.wrapped[t] \in BOOLEAN, call[t] \in Callings,
         Timing(k, call[t], t), TimedOut(t)
  PROVE  call[t].asked # Forever /\ k.age[t] \in 0 .. TickMod /\ k.age[t] >= call[t].asked
<1> DEFINE c == call[t]
<1>1. c \in Callings /\ c.asked \in 0 .. Forever /\ c.w \in 0 .. Forever
  BY DEF Callings
<1>2. /\ c.w # Forever
      /\ (k.wrapped[t] /\ k.tick >= c.entry) \/ Elapsed(c) >= c.w
  BY DEF TimedOut
<1> HIDE DEF c
<1>3. Timing(k, c, t)
  BY DEF c
<1>4. c.asked # Forever
  BY <1>2, <1>3 DEF Timing
<1>5. k.age[t] \in 0 .. TickMod
  BY <1>3, <1>4 DEF Timing
<1>6. CASE c.next = "out"
  BY <1>3, <1>4, <1>5, <1>6 DEF Timing, c
<1>7. CASE c.next # "out" /\ k.age[t] = TickMod
  BY <1>1, <1>4, <1>7, ForeverType DEF c
<1>8. CASE c.next # "out" /\ k.age[t] < TickMod
  <2>1. Elapsed(c) = Since(k, c, t) /\ ~(k.wrapped[t] /\ k.tick >= c.entry)
    BY <1>1, <1>3, <1>4, <1>8, ElapsedSince
  <2>2. k.age[t] - (c.asked - c.w) >= c.w
    BY <1>2, <2>1 DEF Since
  <2> QED BY <1>1, <1>4, <1>5, <2>2, ForeverType DEF c
<1> QED BY <1>5, <1>6, <1>7, <1>8, ForeverType

(* xTaskCheckForTimeOut: what is left is less by what has passed, or the   *)
(* time is over.                                                           *)
LEMMA CheckTimes ==
  ASSUME TimeBefore, Check(cur)
  PROVE  TimeKeeps
<1> DEFINE c == call[cur]
<1>1. /\ pc[cur] = "check" /\ cur \in TaskSet /\ c \in Callings /\ k \in KernelStates
      /\ k.tick \in 0 .. Forever /\ k.wrapped[cur] \in BOOLEAN
  BY CurrentTimes DEF Check, At, KernelStates
<1>2. TimeFor(k, c, cur) /\ Timing(k, c, cur) /\ c.op \in {"receive", "send"}
  BY <1>1, CurrentTimes DEF TimeFor
<1>3. cur \notin WaitingIn(k) /\ cur \notin Range(k.delayed)
  <2>1. cur \in ReadyIn(k)
    BY <1>1, Holding DEF TimeBefore, Inside, NotYetWaiting
  <2> QED BY <2>1, CurrentTimes DEF WaitingIn
<1>4. CASE TimedOut(cur) /\ Goes(cur, "unlock")
           /\ call' = [call EXCEPT ![cur] = [c EXCEPT !.w = 0, !.next = "out"]] /\ k' = k
  <2> DEFINE d == [c EXCEPT !.w = 0, !.next = "out"]
  <2>1. GoesOn("unlock", d)
    BY <1>4 DEF Goes, GoesOn
  <2>2. d.op = c.op /\ d.w = 0 /\ d.next = "out" /\ d.asked = c.asked
    BY <1>1 DEF Callings
  <2> HIDE DEF d
  <2>3. c.asked # Forever /\ k.age[cur] \in 0 .. TickMod /\ k.age[cur] >= c.asked
    BY <1>1, <1>2, <1>4, TimedOutRightly
  <2>4. TimeFor(k, d, cur)
    BY <1>3, <2>2, <2>3 DEF TimeFor, Timing, Timed, WaitingIn
  <2>5. Stands(k, "unlock", d, cur)
    BY DEF Stands
  <2> QED BY <1>3, <1>4, <2>1, <2>2, <2>4, <2>5, CurrentTimes, TimesMove
<1>5. CASE ~TimedOut(cur) /\ Goes(cur, "test") /\ c.w = Forever /\ call' = call /\ k' = k
  <2>1. GoesOn("test", call[cur])
    BY <1>5, CurrentTimes DEF Goes, GoesOn
  <2>2. c.asked = Forever /\ c.next # "out"
    <3>1. c.asked \in 0 .. Forever
      BY <1>1 DEF Callings
    <3> QED BY <1>2, <1>5, <3>1, ForeverType DEF Timing
  <2>3. Stands(k, "test", call[cur], cur)
    BY <2>2 DEF Stands
  <2> QED BY <1>5, <2>1, <2>3, CurrentTimes, TimesGo
<1>6. CASE ~TimedOut(cur) /\ Goes(cur, "test") /\ c.w # Forever
           /\ call' = [call EXCEPT ![cur] = Left(c)]
           /\ k' = [k EXCEPT !.wrapped = [k.wrapped EXCEPT ![cur] = FALSE]]
  <2> DEFINE d == Left(c)
  <2>1. GoesOn("test", d)
    BY <1>6 DEF Goes, GoesOn
  <2>2. /\ d.op = c.op /\ d.w = c.w - Elapsed(c) /\ d.entry = k.tick /\ d.next = c.next
        /\ d.asked = c.asked
    BY <1>1 DEF Callings, Left
  <2>3. /\ k' \in KernelStates /\ SameWaits(k, k') /\ SameEvents(k, k') /\ k'.tick = k.tick
        /\ k'.age = k.age /\ k'.wrapped = [k.wrapped EXCEPT ![cur] = FALSE]
    <3>1. k.wrapped \in [TaskSet -> BOOLEAN]
      BY <1>1 DEF KernelStates
    <3>2. [k.wrapped EXCEPT ![cur] = FALSE] \in [TaskSet -> BOOLEAN]
      BY <3>1
    <3> QED BY <1>1, <1>6, <3>2 DEF KernelStates, SameWaits, SameEvents
  <2>4. k'.wrapped[cur] = FALSE /\ \A u \in TaskSet : u # cur => k'.wrapped[u] = k.wrapped[u]
    BY <1>1, <2>3 DEF KernelStates
  <2> HIDE DEF d
  <2>5. WaitingIn(k') = WaitingIn(k) /\ Listening(k') = Listening(k) /\ k'.delayed = k.delayed
        /\ k'.overflow = k.overflow /\ k'.wake = k.wake
    BY <2>3 DEF SameWaits, SameEvents, WaitingIn, Listening
  <2>6. \A u \in TaskSet : u # cur => StillThere(k, k', u)
    BY <2>3, <2>4, <2>5 DEF StillThere
  <2>7. /\ c.asked # Forever /\ c.asked \in 0 .. Forever /\ c.w \in 0 .. Forever
        /\ k.age[cur] \in 0 .. TickMod /\ Elapsed(c) \in 0 .. Forever /\ Elapsed(c) < c.w
    <3>1. Elapsed(c) \in 0 .. Forever
      BY <1>1, ElapsedType DEF TimeBefore
    <3>2. c.asked \in 0 .. Forever /\ c.w \in 0 .. Forever
      BY <1>1 DEF Callings
    <3>3. ~(Elapsed(c) >= c.w)
      BY <1>6 DEF TimedOut
    <3> DEFINE n == Elapsed(c)
    <3>4. n < c.w
      <4>1. n \in 0 .. Forever /\ ~(n >= c.w)
        BY <3>1, <3>3
      <4> HIDE DEF n
      <4> QED BY <3>2, <4>1, ForeverType
    <3>5. c.asked # Forever
      BY <1>2, <1>6 DEF Timing
    <3> QED BY <1>2, <3>1, <3>2, <3>4, <3>5 DEF Timing
  <2> DEFINE n == Elapsed(c)
  <2>8. n \in 0 .. Forever /\ n < c.w /\ d.w = c.w - n
    BY <2>2, <2>7
  <2>9. k.age[cur] < TickMod /\ c.next # "out" => n = k.age[cur] - (c.asked - c.w)
    BY <1>1, <1>2, <2>7, ElapsedSince DEF Since
  <2> HIDE DEF n, c
  <2>10. c.next # "out" /\ c.w \in 1 .. c.asked
    <3>1. c.next = "out" => c.w = 0
      BY <1>2, <2>7 DEF Timing
    <3>2. c.next # "out"
      BY <2>7, <2>8, <3>1, ForeverType
    <3> QED BY <1>2, <2>7, <3>2 DEF Timing
  <2>11. d.w \in 1 .. d.asked
    BY <2>2, <2>7, <2>8, <2>10, ForeverType
  <2>12. k.age[cur] < TickMod => k.age[cur] - (d.asked - d.w) = 0
    <3> SUFFICES ASSUME k.age[cur] < TickMod PROVE k.age[cur] - (d.asked - d.w) = 0
      OBVIOUS
    <3>1. n = k.age[cur] - (c.asked - c.w)
      BY <2>9, <2>10
    <3> QED BY <2>2, <2>7, <2>8, <3>1, ForeverType
  <2>13. Timing(k', d, cur)
    <3>1. k.age[cur] < TickMod =>
            /\ Since(k', d, cur) \in 0 .. Forever
            /\ k'.tick = IF k'.wrapped[cur] THEN d.entry + Since(k', d, cur) - TickMod
                                            ELSE d.entry + Since(k', d, cur)
      <4> SUFFICES ASSUME k.age[cur] < TickMod
                   PROVE  /\ Since(k', d, cur) \in 0 .. Forever
                          /\ k'.tick = d.entry + Since(k', d, cur)
        BY <2>4
      <4>1. Since(k', d, cur) = 0
        BY <2>3, <2>12 DEF Since
      <4> QED BY <1>1, <2>2, <2>3, <4>1, ForeverType
    <3> QED BY <2>2, <2>3, <2>7, <2>10, <2>11, <3>1 DEF Timing
  <2>14. TimeFor(k', d, cur)
    BY <1>3, <2>5, <2>13 DEF TimeFor, Timed, WaitingIn
  <2>15. Stands(k', "test", d, cur)
    BY <2>2, <2>3, <2>4, <2>10 DEF Stands
  <2> QED BY <1>3, <2>1, <2>2, <2>3, <2>5, <2>6, <2>14, <2>15, TimesMove DEF c
<1> QED BY <1>4, <1>5, <1>6 DEF Check

(* A task goes to wait for an event, right after it has looked at the      *)
(* clock: for what was left of its time.                                   *)
LEMMA PlaceTimes ==
  ASSUME TimeBefore, Place(cur)
  PROVE  TimeKeeps
<1> DEFINE c == call[cur]
           d == [c EXCEPT !.next = "block"]
           l == ListOf(cur)
           w == c.w
<1>1. /\ pc[cur] = "place" /\ cur \in TaskSet /\ c \in Callings /\ k \in KernelStates
      /\ StatesKept(k) /\ EventsKept(k) /\ c.op \in {"receive", "send"}
      /\ TimeFor(k, c, cur) /\ Stands(k, "place", c, cur) /\ k' = Placed(k, l, cur, w)
  BY CurrentTimes DEF Place, At
<1>2. GoesOn("unlock", d)
  BY DEF Place, Goes, GoesOn
<1>3. /\ d.op = c.op /\ d.w = c.w /\ d.entry = c.entry /\ d.asked = c.asked /\ d.next = "block"
      /\ w \in 0 .. Forever /\ c.asked \in 0 .. Forever
  BY <1>1 DEF Callings
<1>4. cur \in ReadyIn(k) /\ cur \notin WaitingIn(k)
  <2>1. cur \in ReadyIn(k)
    BY <1>1, Holding DEF TimeBefore, Inside, NotYetWaiting
  <2> QED BY <2>1, CurrentTimes
<1>5. l \in {"rx", "tx"}
  BY DEF ListOf
<1> HIDE DEF c, d, l, w
<1>6. /\ StatesKept(k') /\ EventsKept(k')
      /\ WaitingIn(k') = WaitingIn(k) \cup {cur}
      /\ SameClock(k, k') /\ k'.pending = k.pending
      /\ k'.age = k.age /\ k'.wrapped = k.wrapped
      /\ \A u \in TaskSet : u # cur => k'.wake[u] = k.wake[u]
      /\ IF l = "rx" THEN Range(k'.rx) = Range(k.rx) \cup {cur} /\ k'.tx = k.tx
                     ELSE Range(k'.tx) = Range(k.tx) \cup {cur} /\ k'.rx = k.rx
      /\ IF w = Forever
         THEN k'.delayed = k.delayed /\ k'.overflow = k.overflow /\ k'.wake = k.wake
         ELSE /\ k'.wake[cur] = (k.tick + w) % TickMod
              /\ IF Overflows(k, w)
                 THEN k'.delayed = k.delayed /\ Range(k'.overflow) = Range(k.overflow) \cup {cur}
                 ELSE Range(k'.delayed) = Range(k.delayed) \cup {cur} /\ k'.overflow = k.overflow
  <2> DEFINE x == k
             z == Placed(x, l, cur, w)
  <2>1. StatesKept(x) /\ EventsKept(x) /\ cur \in ReadyIn(x) /\ w \in 0 .. Forever
    BY <1>1, <1>3, <1>4
  <2>2. k' = z
    BY <1>1
  <2> HIDE DEF x
  <2>3. /\ StatesKept(z) /\ EventsKept(z)
        /\ WaitingIn(z) = WaitingIn(x) \cup {cur}
        /\ SameClock(x, z) /\ z.pending = x.pending
        /\ z.age = x.age /\ z.wrapped = x.wrapped
        /\ \A u \in TaskSet : u # cur => z.wake[u] = x.wake[u]
        /\ IF l = "rx" THEN Range(z.rx) = Range(x.rx) \cup {cur} /\ z.tx = x.tx
                       ELSE Range(z.tx) = Range(x.tx) \cup {cur} /\ z.rx = x.rx
        /\ IF w = Forever
           THEN z.delayed = x.delayed /\ z.overflow = x.overflow /\ z.wake = x.wake
           ELSE /\ z.wake[cur] = (x.tick + w) % TickMod
                /\ IF Overflows(x, w)
                   THEN z.delayed = x.delayed /\ Range(z.overflow) = Range(x.overflow) \cup {cur}
                   ELSE Range(z.delayed) = Range(x.delayed) \cup {cur} /\ z.overflow = x.overflow
    <3> HIDE DEF z
    <3>0. z = Placed(x, l, cur, w)
      BY DEF z
    <3>1. /\ StatesKept(z) /\ EventsKept(z)
          /\ WaitingIn(z) = WaitingIn(x) \cup {cur}
          /\ SameClock(x, z) /\ z.pending = x.pending
          /\ z.age = x.age /\ z.wrapped = x.wrapped
      BY <1>5, <2>1, <3>0, PlacedKeeps
    <3>2. \A u \in TaskSet : u # cur => z.wake[u] = x.wake[u]
      BY <1>5, <2>1, <3>0, PlacedKeeps
    <3>3. /\ StatesKept(z) /\ EventsKept(z)
          /\ IF l = "rx" THEN Range(z.rx) = Range(x.rx) \cup {cur} /\ z.tx = x.tx
                         ELSE Range(z.tx) = Range(x.tx) \cup {cur} /\ z.rx = x.rx
      BY <1>5, <2>1, <3>0, PlacedKeeps
    <3>4. IF w = Forever
          THEN z.delayed = x.delayed /\ z.overflow = x.overflow /\ z.wake = x.wake
          ELSE /\ z.wake[cur] = (x.tick + w) % TickMod
               /\ IF Overflows(x, w)
                  THEN z.delayed = x.delayed /\ Range(z.overflow) = Range(x.overflow) \cup {cur}
                  ELSE Range(z.delayed) = Range(x.delayed) \cup {cur} /\ z.overflow = x.overflow
      BY <1>5, <2>1, <3>0, PlacedKeeps
    <3> QED BY <3>1, <3>2, <3>3, <3>4
  <2> HIDE DEF z
  <2> QED BY <2>2, <2>3 DEF x
<1>7. k' \in KernelStates /\ k'.tick = k.tick
  BY <1>6 DEF StatesKept, SameClock
<1>8. Listening(k') = Listening(k) \cup {cur}
  <2>1. CASE l = "rx"
    <3>1. Range(k'.rx) = Range(k.rx) \cup {cur} /\ k'.tx = k.tx /\ k'.pending = k.pending
      BY <1>6, <2>1
    <3> QED BY <3>1 DEF Listening
  <2>2. CASE l # "rx"
    <3>1. Range(k'.tx) = Range(k.tx) \cup {cur} /\ k'.rx = k.rx /\ k'.pending = k.pending
      BY <1>6, <2>2
    <3> QED BY <3>1 DEF Listening
  <2> QED BY <2>1, <2>2
<1>9. /\ \A u \in TaskSet : u # cur => (u \in Range(k'.delayed) <=> u \in Range(k.delayed))
      /\ \A u \in TaskSet : u # cur => (u \in Range(k'.overflow) <=> u \in Range(k.overflow))
  <2>1. CASE w = Forever
    BY <1>6, <2>1
  <2>2. CASE w # Forever /\ Overflows(k, w)
    <3>1. k'.delayed = k.delayed /\ Range(k'.overflow) = Range(k.overflow) \cup {cur}
      BY <1>6, <2>2
    <3> QED BY <3>1
  <2>3. CASE w # Forever /\ ~Overflows(k, w)
    <3>1. Range(k'.delayed) = Range(k.delayed) \cup {cur} /\ k'.overflow = k.overflow
      BY <1>6, <2>3
    <3> QED BY <3>1
  <2> QED BY <2>1, <2>2, <2>3
<1>10. ASSUME NEW u \in TaskSet, u # cur
       PROVE  StillThere(k, k', u)
  <2>1. (u \in WaitingIn(k') <=> u \in WaitingIn(k)) /\ (u \in Listening(k') <=> u \in Listening(k))
    BY <1>6, <1>8, <1>10
  <2>2. k'.age = k.age /\ k'.wrapped = k.wrapped /\ k'.wake[u] = k.wake[u]
    BY <1>6, <1>10
  <2> HIDE <1>6, <1>8
  <2> QED BY <1>7, <1>9, <1>10, <2>1, <2>2 DEF StillThere
<1>11. Timing(k, c, cur) /\ c.next # "out" /\ cur \notin Timed(k) /\ cur \notin Range(k.delayed)
  BY <1>1, <1>4 DEF TimeFor, Stands, Timed, WaitingIn
<1>12. Timing(k', d, cur)
  <2>1. k'.age = k.age /\ k'.wrapped = k.wrapped
    BY <1>6
  <2> HIDE <1>6
  <2> QED BY <1>3, <1>7, <1>11, <2>1 DEF Timing, Since
<1>13. CASE w = Forever
  <2>1. c.asked = Forever
    BY <1>3, <1>11, <1>13, ForeverType DEF Timing, w
  <2>2. k'.delayed = k.delayed /\ k'.overflow = k.overflow
    BY <1>6, <1>13
  <2>3. cur \notin Timed(k') /\ cur \notin Range(k'.delayed)
    BY <1>11, <2>2 DEF Timed
  <2>4. Kind(k', d, cur)
    BY <1>1, <1>3, <1>8, <2>1, <2>3 DEF Kind
  <2>5. TimeFor(k', d, cur) /\ Stands(k', "unlock", d, cur)
    BY <1>12, <2>3, <2>4 DEF TimeFor, Stands
  <2> QED BY <1>1, <1>2, <1>3, <1>4, <1>7, <1>10, <2>3, <2>5, TimesMove DEF c
<1>14. CASE w # Forever
  <2>1. /\ c.asked # Forever /\ w \in 1 .. c.asked /\ w \in 1 .. Forever
        /\ k.age[cur] \in 0 .. TickMod
        /\ k.age[cur] < TickMod => w = c.asked - k.age[cur]
    <3>1. c.asked # Forever
      BY <1>11, <1>14 DEF Timing, w
    <3>2. c.entry = k.tick /\ ~k.wrapped[cur] /\ k.tick \in 0 .. Forever /\ c.entry \in 0 .. Forever
      BY <1>1, <3>1 DEF Stands, KernelStates, Callings
    <3>3. /\ w \in 1 .. c.asked /\ k.age[cur] \in 0 .. TickMod
          /\ k.age[cur] < TickMod =>
               /\ k.age[cur] - (c.asked - w) \in 0 .. Forever
               /\ k.tick = c.entry + (k.age[cur] - (c.asked - w))
      BY <1>11, <3>1, <3>2 DEF Timing, Since, w
    <3> QED BY <1>3, <3>1, <3>2, <3>3, ForeverType
  <2>2. /\ k'.wake[cur] = (k.tick + w) % TickMod
        /\ IF Overflows(k, w)
           THEN k'.delayed = k.delayed /\ Range(k'.overflow) = Range(k.overflow) \cup {cur}
           ELSE Range(k'.delayed) = Range(k.delayed) \cup {cur} /\ k'.overflow = k.overflow
    BY <1>6, <1>14
  <2>3. /\ cur \in Timed(k') /\ Away(k', cur) = w
        /\ cur \in Range(k'.delayed) => k'.wake[cur] > k'.tick
    BY <1>1, <1>7, <1>11, <2>1, <2>2, LaidOff
  <2>4. Kind(k', d, cur)
    BY <1>1, <1>3, <1>8, <2>1, <2>3 DEF Kind
  <2>5. Exact(k', d, cur)
    <3>1. k'.age = k.age
      BY <1>6
    <3> QED BY <1>3, <2>1, <2>3, <3>1 DEF Exact
  <2>6. TimeFor(k', d, cur) /\ Stands(k', "unlock", d, cur)
    BY <1>12, <2>4, <2>5 DEF TimeFor, Stands
  <2> QED BY <1>1, <1>2, <1>3, <1>4, <1>7, <1>10, <2>3, <2>6, TimesMove DEF c
<1> QED BY <1>13, <1>14

(* A task goes to sleep: for what is left to the time it wants to wake at. *)
LEMMA PlaceSleepTimes ==
  ASSUME TimeBefore, PlaceSleep(cur)
  PROVE  TimeKeeps
<1> DEFINE c == call[cur]
           last == c.entry
           wake == (last + c.w) % TickMod
           ahead == IF k.tick < last THEN wake < last /\ wake > k.tick
                                     ELSE wake < last \/ wake > k.tick
           left == (wake + TickMod - k.tick) % TickMod
           d(a) == [c EXCEPT !.entry = wake, !.asked = a]
           y == Delayed(k, cur, left, FALSE)
<1>1. /\ pc[cur] = "delay" /\ cur \in TaskSet /\ c \in Callings /\ k \in KernelStates
      /\ StatesKept(k) /\ EventsKept(k) /\ TimeFor(k, c, cur) /\ Stands(k, pc[cur], c, cur)
  BY CurrentTimes DEF PlaceSleep, At
<1>2. /\ \E a : GoesOn("resume", d(a)) /\ a = IF ahead THEN left ELSE 0
      /\ k' = IF ahead THEN [y EXCEPT !.age = [y.age EXCEPT ![cur] = 0]] ELSE k
  BY DEF PlaceSleep, Goes, GoesOn
<1>3. c.op = "sleep" /\ c.next = "block"
  BY <1>1 DEF Stands, TimeBefore, KernelInv, Sleeping
<1>4. cur \in ReadyIn(k) /\ cur \notin WaitingIn(k) /\ cur \notin Timed(k) /\ cur \notin Listening(k)
  <2>1. cur \in ReadyIn(k)
    BY <1>1, Holding DEF TimeBefore, Inside, NotYetWaiting
  <2>2. cur \notin WaitingIn(k)
    BY <2>1, CurrentTimes
  <2> QED BY <1>1, <2>1, <2>2 DEF WaitingIn, Timed, Listening, EventsKept
<1>5. k' \in KernelStates
  BY SleepPlaced DEF StatesKept, TimeBefore
<1>6. k.tick \in 0 .. Forever /\ last \in 0 .. Forever /\ wake \in 0 .. Forever
  <2>1. last \in 0 .. Forever /\ c.w \in 0 .. Forever /\ k.tick \in 0 .. Forever
    BY <1>1 DEF KernelStates, Callings
  <2> DEFINE n == last + c.w
  <2>2. n \in Nat
    BY <2>1, ForeverType
  <2>3. n % TickMod \in 0 .. TickMod - 1
    <3> HIDE DEF n
    <3> QED BY <2>2, ForeverType
  <2> QED BY <2>1, <2>3, ForeverType
<1>7. \A a : d(a).op = "sleep" /\ d(a).next = "block" /\ d(a).asked = a
  BY <1>1, <1>3 DEF Callings
<1> HIDE DEF d, wake, c
<1>8. left = IF k.tick <= wake THEN wake - k.tick ELSE wake + TickMod - k.tick
  BY <1>6, FromTo
<1>9. PICK a : GoesOn("resume", d(a)) /\ a = IF ahead THEN left ELSE 0
  BY <1>2
<1>10. CASE ~ahead
  <2>1. k' = k
    BY <1>2, <1>10
  <2> HIDE DEF ahead, left, y, last
  <2>2. TimeFor(k, d(a), cur) /\ Stands(k, "resume", d(a), cur)
    BY <1>4, <1>7, NothingTimed DEF Stands
  <2>3. cur \notin Range(k.delayed)
    BY <1>4 DEF WaitingIn
  <2>4. GoesOn("resume", d(a)) /\ d(a).op = call[cur].op
    BY <1>3, <1>7, <1>9 DEF c
  <2> DEFINE e == d(a)
  <2> HIDE DEF e
  <2> QED BY <1>4, <2>1, <2>2, <2>3, <2>4, CurrentTimes, TimesMove DEF e
<1>11. CASE ahead
  <2>1. left \in 1 .. Forever
    BY <1>6, <1>8, <1>11, ForeverType
  <2>2. k' = [y EXCEPT !.age = [y.age EXCEPT ![cur] = 0]] /\ a = left
    BY <1>2, <1>9, <1>11
  <2> HIDE DEF ahead, left, last
  <2>3. /\ AfterDelay(k, y, cur) /\ y.wake[cur] = (k.tick + left) % TickMod
        /\ IF Overflows(k, left)
           THEN y.delayed = k.delayed /\ Range(y.overflow) = Range(k.overflow) \cup {cur}
           ELSE Range(y.delayed) = Range(k.delayed) \cup {cur} /\ y.overflow = k.overflow
    <3>1. PICK b \in BOOLEAN : b = FALSE
      OBVIOUS
    <3>2. y = Delayed(k, cur, left, b) /\ ~b
      BY <3>1
    <3>3. left \in 0 .. Forever
      BY <2>1, ForeverType
    <3> HIDE <3>1
    <3> HIDE DEF y
    <3> QED BY <1>1, <1>4, <3>2, <3>3, DelayedKeeps
  <2> HIDE DEF y
  <2>4. /\ y \in KernelStates /\ WaitingIn(y) = WaitingIn(k) \cup {cur} /\ SameEvents(k, y)
        /\ y.tick = k.tick /\ y.age = k.age /\ y.wrapped = k.wrapped
        /\ \A u \in TaskSet : u # cur => y.wake[u] = k.wake[u]
    BY <2>3 DEF AfterDelay, StatesKept, SameClock
  <2>5. /\ k'.age = [y.age EXCEPT ![cur] = 0] /\ k'.wrapped = y.wrapped /\ k'.tick = y.tick
        /\ k'.delayed = y.delayed /\ k'.overflow = y.overflow /\ k'.suspended = y.suspended
        /\ k'.wake = y.wake /\ SameEvents(y, k')
    BY <2>2, <2>4 DEF KernelStates, SameEvents
  <2>6. /\ k'.age[cur] = 0 /\ \A u \in TaskSet : u # cur => k'.age[u] = k.age[u]
    BY <1>1, <2>4, <2>5 DEF KernelStates
  <2>7. Listening(k') = Listening(k) /\ WaitingIn(k') = WaitingIn(k) \cup {cur}
    BY <2>4, <2>5 DEF SameEvents, Listening, WaitingIn
  <2>8. /\ \A u \in TaskSet : u # cur => (u \in Range(k'.delayed) <=> u \in Range(k.delayed))
        /\ \A u \in TaskSet : u # cur => (u \in Range(k'.overflow) <=> u \in Range(k.overflow))
    <3>1. CASE Overflows(k, left)
      <4>1. k'.delayed = k.delayed /\ Range(k'.overflow) = Range(k.overflow) \cup {cur}
        BY <2>3, <2>5, <3>1
      <4> QED BY <4>1
    <3>2. CASE ~Overflows(k, left)
      <4>1. Range(k'.delayed) = Range(k.delayed) \cup {cur} /\ k'.overflow = k.overflow
        BY <2>3, <2>5, <3>2
      <4> QED BY <4>1
    <3> QED BY <3>1, <3>2
  <2>9. ASSUME NEW u \in TaskSet, u # cur
        PROVE  StillThere(k, k', u)
    <3>1. u \in WaitingIn(k') <=> u \in WaitingIn(k)
      BY <2>7, <2>9
    <3>2. k'.age[u] = k.age[u] /\ k'.wrapped = k.wrapped /\ k'.wake[u] = k.wake[u] /\ k'.tick = k.tick
      BY <2>4, <2>5, <2>6, <2>9
    <3> HIDE <2>3, <2>4, <2>5
    <3> QED BY <2>7, <2>8, <2>9, <3>1, <3>2 DEF StillThere
  <2>10. /\ cur \in Timed(k') /\ Away(k', cur) = left
         /\ cur \in Range(k'.delayed) => k'.wake[cur] > k'.tick
    <3>1. /\ k'.tick = k.tick /\ k'.wake[cur] = (k.tick + left) % TickMod
          /\ IF Overflows(k, left)
             THEN k'.delayed = k.delayed /\ Range(k'.overflow) = Range(k.overflow) \cup {cur}
             ELSE Range(k'.delayed) = Range(k.delayed) \cup {cur} /\ k'.overflow = k.overflow
      BY <2>3, <2>4, <2>5
    <3> QED BY <1>1, <1>4, <1>5, <2>1, <3>1, LaidOff
  <2> DEFINE e == d(a)
  <2>11. GoesOn("resume", e) /\ e.op = "sleep" /\ e.next = "block" /\ e.asked = left
    BY <1>7, <1>9, <2>2
  <2> HIDE DEF e
  <2>12. Kind(k', e, cur)
    BY <1>4, <2>7, <2>10, <2>11 DEF Kind
  <2>13. Exact(k', e, cur)
    <3>1. k'.age[cur] \in 0 .. TickMod /\ left = left - k'.age[cur]
      BY <2>1, <2>6, ForeverType
    <3> QED BY <2>10, <2>11, <3>1 DEF Exact
  <2>14. TimeFor(k', e, cur) /\ Stands(k', "resume", e, cur)
    BY <2>11, <2>12, <2>13 DEF TimeFor, Stands
  <2> QED BY <1>3, <1>4, <1>5, <2>9, <2>10, <2>11, <2>14, TimesMove DEF c
<1> QED BY <1>10, <1>11

(* Who has the processor outside a suspended scheduler does not wait.      *)
LEMMA RunningTimes ==
  ASSUME TimeBefore, ~pendsv, pc[cur] \in {"app", "try", "final"}
  PROVE  cur \notin WaitingIn(k) /\ cur \notin Range(k.delayed)
<1>1. cur \in ReadyIn(k)
  BY Running DEF TimeBefore
<1> QED BY <1>1, CurrentTimes DEF WaitingIn

(* A call that returns has forgotten its times: it may, when it took or    *)
(* gave an item, or when its time was over.                                *)
LEMMA ReturnsTimes ==
  ASSUME TimeBefore, ~pendsv, pc[cur] \in {"app", "try", "final"},
         NEW x, StatesKept(x), EventsKept(x), \A u \in TaskSet : StillThere(k, x, u),
         ReturnsWith(x, cur),
         call[cur].op \in {"receive", "send"} /\ ring' = ring => k.age[cur] >= call[cur].asked
  PROVE  TimeKeeps
<1>1. GoesOn("app", NoCall) /\ NoCall.op = "none"
  BY DEF ReturnsWith, Goes, GoesOn, NoCall
<1>2. cur \in TaskSet /\ cur \notin WaitingIn(k)
  BY RunningTimes, CurrentTimes
<1>3. x \in KernelStates /\ cur \notin WaitingIn(x)
  BY <1>2 DEF StatesKept, StillThere
<1>4. /\ k' \in KernelStates /\ WaitingIn(k') = WaitingIn(x)
      /\ \A u \in TaskSet : u # cur => StillThere(x, k', u)
  <2>1. PICK a \in Int : a = -1
    OBVIOUS
  <2>2. PICK b \in BOOLEAN : b = FALSE
    OBVIOUS
  <2>3. k' = Noted(x, cur, a, b)
    BY <2>1, <2>2 DEF ReturnsWith, Noted
  <2>4. a \in Int /\ b \in BOOLEAN
    BY <2>1, <2>2
  <2> HIDE <2>1, <2>2
  <2>5. StatesKept(k')
    BY <1>2, <2>3, <2>4, NotedKeeps
  <2> QED BY <1>2, <1>3, <2>3, <2>5, NotedTimes DEF StatesKept
<1>5. \A u \in TaskSet : u # cur => StillThere(k, k', u)
  BY <1>4, StillThereAgain
<1>6. cur \notin WaitingIn(k') /\ cur \notin Range(k'.delayed)
  BY <1>3, <1>4 DEF WaitingIn
<1> DEFINE c == NoCall
           p == "app"
<1>7. TimeFor(k', c, cur) /\ Stands(k', p, c, cur) /\ GoesOn(p, c)
  BY <1>1, <1>6, NothingTimed DEF Stands
<1> HIDE DEF c, p
<1> QED BY <1>2, <1>4, <1>5, <1>6, <1>7, TimesMove

(* A call whose loop finds no time left has been told so by its last look  *)
(* at the clock.                                                           *)
LEMMA GivenUp ==
  ASSUME TimeBefore, NEW op \in {"receive", "send"}, 0 \in Waits(cur, op)
  PROVE  call[cur].op \in {"receive", "send"} => k.age[cur] >= call[cur].asked
<1>1. pc[cur] \in {"app", "try"} /\ (pc[cur] # "app" => call[cur].w = 0)
  BY DEF Waits, At
<1>2. CASE pc[cur] = "app"
  BY <1>2, CurrentTimes
<1>3. CASE pc[cur] # "app"
  <2>1. call[cur].op \in {"receive", "send"} => Timing(k, call[cur], cur)
    BY CurrentTimes DEF TimeFor
  <2>2. call[cur].asked \in 0 .. Forever
    BY CurrentTimes DEF Callings
  <2> QED BY <1>1, <1>3, <2>1, <2>2, ForeverType DEF Timing
<1> QED BY <1>2, <1>3

(* The first failure of a call starts its time; later ones do not.         *)
LEMMA GoesToWaitTimes ==
  ASSUME TimeBefore, ~pendsv, NEW op \in {"receive", "send"}, NEW w \in Waits(cur, op), w > 0,
         GoesToWait(cur, op, w)
  PROVE  TimeKeeps
<1>1. cur \in TaskSet /\ k \in KernelStates /\ k.tick \in 0 .. Forever /\ StatesKept(k) /\ EventsKept(k)
  BY CurrentTimes DEF KernelStates
<1>2. pc[cur] \in {"app", "try"} /\ w \in 0 .. Forever
  BY <1>1, WaitsType DEF TimeBefore
<1>3. cur \notin WaitingIn(k)
  BY <1>2, RunningTimes
<1>4. CASE pc[cur] # "app"
  <2>1. GoesOn("suspend", call[cur]) /\ k' = k
    BY <1>4, CurrentTimes DEF GoesToWait, Goes, GoesOn
  <2>2. Stands(k, "suspend", call[cur], cur)
    BY DEF Stands
  <2> QED BY <2>1, <2>2, CurrentTimes, TimesGo
<1>5. CASE pc[cur] = "app"
  <2> DEFINE c == [NoCall EXCEPT !.op = op, !.w = w, !.asked = w,
                                 !.entry = IF w = Forever THEN 0 ELSE k.tick]
             a == IF w = Forever THEN -1 ELSE 0
             p == "suspend"
  <2>1. GoesOn(p, c)
    BY <1>5 DEF GoesToWait, Goes, GoesOn
  <2>2. /\ c.op = op /\ c.w = w /\ c.asked = w /\ c.next = "none"
        /\ w # Forever => c.entry = k.tick
    BY DEF NoCall
  <2>3. PICK b \in BOOLEAN : b = FALSE
    OBVIOUS
  <2>4. k' = Noted(k, cur, a, b)
    BY <1>5, <2>3 DEF GoesToWait, Noted
  <2>5. a \in Int /\ b \in BOOLEAN /\ ~b /\ (w # Forever => a = 0)
    BY <2>3
  <2>6. Stands(k', p, c, cur)
    BY DEF Stands
  <2> HIDE <2>3
  <2> HIDE DEF c, a, p
  <2>7. k' \in KernelStates
    <3>1. StatesKept(k')
      BY <1>1, <2>4, <2>5, NotedKeeps
    <3> QED BY <3>1 DEF StatesKept
  <2>8. /\ \A u \in TaskSet : u # cur => StillThere(k, k', u)
        /\ k'.age[cur] = a /\ k'.wrapped[cur] = b /\ k'.tick = k.tick
        /\ WaitingIn(k') = WaitingIn(k)
    BY <1>1, <2>4, NotedTimes
  <2>9. cur \notin WaitingIn(k') /\ cur \notin Range(k'.delayed)
    BY <1>3, <2>8 DEF WaitingIn
  <2>10. Timing(k', c, cur)
    <3>1. CASE w = Forever
      BY <2>2, <3>1 DEF Timing
    <3>2. CASE w # Forever
      <4>1. k'.age[cur] = 0 /\ k'.tick = c.entry /\ k'.wrapped[cur] = FALSE /\ c.entry = k.tick
        BY <2>2, <2>5, <2>8, <3>2
      <4>2. Since(k', c, cur) = 0
        BY <1>2, <2>2, <4>1, ForeverType DEF Since
      <4> DEFINE n == Since(k', c, cur)
      <4>3. n = 0
        BY <4>2
      <4> HIDE DEF n
      <4>4. /\ n \in 0 .. Forever
            /\ k'.tick = IF k'.wrapped[cur] THEN c.entry + n - TickMod ELSE c.entry + n
        BY <1>1, <4>1, <4>3, ForeverType
      <4>5. c.w \in 1 .. c.asked /\ k'.age[cur] \in 0 .. TickMod
        BY <1>2, <2>2, <4>1, ForeverType
      <4> QED BY <2>2, <3>2, <4>4, <4>5 DEF Timing, n
    <3> QED BY <3>1, <3>2
  <2>11. TimeFor(k', c, cur)
    BY <2>9, <2>10 DEF TimeFor, Timed, WaitingIn
  <2>12. call[cur].op \notin {"receive", "send"}
    BY <1>5, CurrentTimes
  <2> QED BY <1>3, <2>1, <2>6, <2>7, <2>8, <2>9, <2>11, <2>12, TimesMove
<1> QED BY <1>4, <1>5

(* The last look of xQueueReceive, after its time was over.                *)
LEMMA FinalTimes ==
  ASSUME TimeBefore, ~pendsv, Final(cur)
  PROVE  TimeKeeps
<1>1. pc[cur] = "final" /\ Stands(k, "final", call[cur], cur)
  BY CurrentTimes DEF Final, At
<1>2. CASE HasItem(ring)
  <2>1. GoesOn("try", call[cur]) /\ k' = k
    BY <1>2, CurrentTimes DEF Final, Goes, GoesOn
  <2>2. Stands(k, "try", call[cur], cur)
    BY DEF Stands
  <2> QED BY <2>1, <2>2, CurrentTimes, TimesGo
<1>3. CASE ~HasItem(ring)
  <2>1. call[cur].op \in {"receive", "send"} => k.age[cur] >= call[cur].asked
    <3>1. call[cur].next = "out" /\ (call[cur].op \in {"receive", "send"} => Timing(k, call[cur], cur))
      BY <1>1, CurrentTimes DEF Stands, TimeFor
    <3> QED BY <3>1 DEF Timing
  <2> DEFINE x == k
  <2>2. ReturnsWith(x, cur) /\ StatesKept(x) /\ EventsKept(x) /\ \A u \in TaskSet : StillThere(k, x, u)
    BY <1>3, CurrentTimes DEF Final, Returns
  <2> HIDE DEF x
  <2> QED BY <1>1, <2>1, <2>2, ReturnsTimes
<1> QED BY <1>2, <1>3

(* A task takes or gives an item, and wakes one that waits for that.       *)
LEMMA WakingTimes ==
  ASSUME TimeBefore, ~pendsv, pc[cur] \in {"app", "try", "final"}, NEW list \in {"rx", "tx"},
         ReturnsWith(Woken(k, list), cur), ring' # ring
  PROVE  TimeKeeps
<1> DEFINE x == Woken(k, list)
<1>1. \A u \in TaskSet : StillThere(k, x, u)
  BY CurrentTimes, WokenTimes
<1>2. StatesKept(x) /\ EventsKept(x)
  <2>1. CASE k[list] = << >>
    <3>1. x = k
      BY <2>1 DEF Woken
    <3> QED BY <3>1, CurrentTimes
  <2>2. CASE k[list] # << >>
    BY <2>2, CurrentTimes, WokenKeeps
  <2> QED BY <2>1, <2>2
<1>3. ReturnsWith(x, cur)
  OBVIOUS
<1> HIDE DEF x
<1> QED BY <1>1, <1>2, <1>3, ReturnsTimes

(* A task does neither: its time is over, or it goes to wait.              *)
LEMMA FailingTimes ==
  ASSUME TimeBefore, ~pendsv, NEW op \in {"receive", "send"}, NEW w \in Waits(cur, op),
         (w = 0 /\ Returns(cur)) \/ (w > 0 /\ GoesToWait(cur, op, w))
  PROVE  TimeKeeps
<1>1. CASE w > 0 /\ GoesToWait(cur, op, w)
  BY <1>1, GoesToWaitTimes
<1>2. CASE w = 0 /\ Returns(cur)
  <2>1. call[cur].op \in {"receive", "send"} => k.age[cur] >= call[cur].asked
    BY <1>2, GivenUp
  <2>2. pc[cur] \in {"app", "try", "final"}
    BY DEF Waits, At
  <2> DEFINE x == k
  <2>3. ReturnsWith(x, cur) /\ StatesKept(x) /\ EventsKept(x) /\ \A u \in TaskSet : StillThere(k, x, u)
    BY <1>2, CurrentTimes DEF Returns
  <2> HIDE DEF x
  <2> QED BY <2>1, <2>2, <2>3, ReturnsTimes
<1> QED BY <1>1, <1>2

(* The critical section at the head of the loop of xQueueReceive,          *)
LEMMA TryReceiveTimes ==
  ASSUME TimeBefore, ~pendsv, TryReceive(cur)
  PROVE  TimeKeeps
<1> DEFINE op == "receive"
           l == "tx"
<1>1. PICK w \in Waits(cur, op) :
        \/ ring' = Taken(ring) /\ ReturnsWith(Woken(k, l), cur)
        \/ (w = 0 /\ Returns(cur)) \/ (w > 0 /\ GoesToWait(cur, op, w))
  BY DEF TryReceive
<1>2. op \in {"receive", "send"} /\ l \in {"rx", "tx"} /\ pc[cur] \in {"app", "try", "final"}
  BY DEF Waits, At
<1>3. ring' = Taken(ring) => ring' # ring
  <2>1. Sound(ring) /\ ring.waiting \in Nat
    BY WaitingType DEF TimeBefore
  <2> QED BY <2>1, WaitingChanges
<1> HIDE DEF op, l
<1> QED BY <1>1, <1>2, <1>3, WakingTimes, FailingTimes

(* ... and of xQueueGenericSend.                                           *)
LEMMA TrySendTimes ==
  ASSUME TimeBefore, ~pendsv, TrySend(cur)
  PROVE  TimeKeeps
<1> DEFINE op == "send"
           l == "rx"
<1>1. PICK w \in Waits(cur, op) :
        \/ (\E v : ring' = Put(ring, v)) /\ ReturnsWith(Woken(k, l), cur)
        \/ (w = 0 /\ Returns(cur)) \/ (w > 0 /\ GoesToWait(cur, op, w))
  BY DEF TrySend
<1>2. op \in {"receive", "send"} /\ l \in {"rx", "tx"} /\ pc[cur] \in {"app", "try", "final"}
  BY DEF Waits, At
<1>3. (\E v : ring' = Put(ring, v)) => ring' # ring
  <2>1. Sound(ring) /\ ring.waiting \in Nat
    BY WaitingType DEF TimeBefore
  <2>2. \A v : ring' = Put(ring, v) => ring'.waiting = ring.waiting + 1
    BY <2>1, WaitingChanges
  <2> QED BY <2>1, <2>2
<1> HIDE DEF op, l
<1> QED BY <1>1, <1>2, <1>3, WakingTimes, FailingTimes

(* A step that lets n ticks pass: those of a tick, or those that came      *)
(* while the scheduler was suspended.                                      *)
LEMMA TimesLeap ==
  ASSUME TimeBefore, NEW x \in KernelStates, NEW n \in Nat, n < TickMod, Clocked(k, x, n),
         k' \in KernelStates, k'.tick = x.tick, NEW p, NEW c, GoesOn(p, c),
         \A u \in TaskSet : u # cur => StillThere(x, k', u) /\ pc[u] \notin {"test", "place"},
         InCall(cur, "sleep") /\ cur \in WaitingIn(x) => cur \in WaitingIn(k'),
         TimeFor(k', c, cur), Stands(k', p, c, cur),
         cur \in Range(k'.delayed) => k'.wake[cur] > k'.tick,
         call[cur].op \in {"receive", "send"} /\ c.op # call[cur].op /\ ring' = ring =>
           k.age[cur] >= call[cur].asked
  PROVE  TimeKeeps
<1>1. /\ cur \in TaskSet /\ pc'[cur] = p /\ call'[cur] = c
      /\ \A u \in TaskSet : u # cur => pc'[u] = pc[u] /\ call'[u] = call[u]
  BY DEF TimeBefore, KernelInv, Control, ExclInv, GoesOn
<1>2. \A u \in TaskSet : Stands(k, pc[u], call[u], u)
  BY DEF TimeBefore, TimeInv
<1>3. /\ Ahead(x) /\ WaitingIn(x) \subseteq WaitingIn(k)
      /\ \A u \in TaskSet : TimeFor(x, call[u], u) /\ Overslept(k, x, n, call[u], u)
  BY DEF Clocked
<1>4. Ahead(k')
  <2> SUFFICES ASSUME NEW u \in Range(k'.delayed) PROVE k'.wake[u] > k'.tick
    BY DEF Ahead
  <2>1. u \in TaskSet /\ u \in WaitingIn(k')
    BY ListType DEF KernelStates, WaitingIn
  <2> QED BY <1>3, <2>1 DEF StillThere, Ahead
<1>5. ASSUME NEW u \in TaskSet
      PROVE  TimeFor(k', call'[u], u) /\ Stands(k', pc'[u], call'[u], u)
  <2>1. CASE u = cur
    BY <1>1, <2>1
  <2>2. CASE u # cur
    <3>1. StillThere(x, k', u) /\ TimeFor(x, call[u], u) /\ Stands(k, pc[u], call[u], u)
          /\ pc[u] \notin {"test", "place"}
      BY <1>2, <1>3, <2>2
    <3>2. TimeFor(k', call[u], u)
      BY <3>1, StillTimed
    <3>3. Stands(k', pc[u], call[u], u)
      BY <3>1 DEF Stands
    <3> QED BY <1>1, <2>2, <3>2, <3>3
  <2> QED BY <2>1, <2>2
<1>6. TimeInv'
  BY <1>4, <1>5, TimesLater
<1>7. \A u \in TaskSet : InCall(u, "sleep") /\ u \in WaitingIn(x) => u \in WaitingIn(k')
  BY <1>3 DEF StillThere, TimeFor, Kind, InCall
<1>8. (k'.tick + TickMod - k.tick) % TickMod = n
  <2>1. k.tick \in 0 .. Forever /\ k'.tick \in 0 .. Forever
    BY CurrentTimes DEF KernelStates
  <2>2. k'.tick = IF k.tick + n < TickMod THEN k.tick + n ELSE k.tick + n - TickMod
    BY DEF Clocked
  <2>3. IF k.tick <= k'.tick THEN k'.tick - k.tick = n ELSE k'.tick + TickMod - k.tick = n
    BY <2>1, <2>2, ForeverType
  <2> QED BY <2>1, <2>3, FromTo
<1>9. ASSUME NEW u \in TaskSet, InCall(u, "sleep"), u \in WaitingIn(k), u \notin WaitingIn(k')
      PROVE  k.age[u] + n >= call[u].asked
  BY <1>3, <1>7, <1>9 DEF Overslept, InCall
<1> QED BY <1>1, <1>6, <1>8, <1>9 DEF TimeKeeps, InTime

(* A tick counts at once, or is pended.                                    *)
LEMMA TickTimes ==
  ASSUME TimeBefore, Tick
  PROVE  TimeKeeps
<1>1. UNCHANGED <<ring, pc, call, cur>> /\ k \in KernelStates /\ StatesKept(k) /\ EventsKept(k)
  BY CurrentTimes DEF Tick
<1>2. CASE susp /\ k.pended < MaxPended /\ k' = [k EXCEPT !.pended = @ + 1]
  <2>1. k.pended + 1 \in 0 .. MaxPended
    BY <1>1, <1>2, KernelAssumption DEF KernelStates
  <2>2. /\ k' \in KernelStates /\ SameWaits(k, k') /\ SameEvents(k, k')
        /\ k'.tick = k.tick /\ k'.age = k.age /\ k'.wrapped = k.wrapped
    BY <1>1, <1>2, <2>1 DEF KernelStates, SameWaits, SameEvents
  <2>3. Listening(k') = Listening(k)
    BY <2>2 DEF SameEvents, Listening
  <2>4. \A u \in TaskSet : StillThere(k, k', u)
    BY <2>2, <2>3, SameTimes
  <2> QED BY <1>1, <2>2, <2>4, TimesStay
<1>3. CASE ~susp /\ k' = Ticked(k)
  <2>1. k.pending = << >> /\ call \in [TaskSet -> Callings] /\ \A u \in TaskSet : pc[u] \notin {"test", "place"}
    BY <1>3 DEF TimeBefore, KernelInv, Control, ExclInv, Exclusive, Inside
  <2>2. Ahead(k) /\ \A u \in TaskSet : TimeFor(k, call[u], u)
    BY DEF TimeBefore, TimeInv
  <2> DEFINE j == 0
             x == TickLate(k, 0)
             n == j + 1
             p == pc[cur]
             c == call[cur]
             b == Ticked(k).yield \/ TickSwitches(k)
  <2>3. j \in Nat /\ j + 1 < TickMod /\ n \in Nat /\ n < TickMod
    BY KernelAssumption
  <2>4. Clocked(k, k, j)
    <3>1. k.tick = IF k.tick + j < TickMod THEN k.tick + j ELSE k.tick + j - TickMod
      BY <1>1, ForeverType DEF KernelStates
    <3>2. \A u \in TaskSet : Overslept(k, k, j, call[u], u)
      BY <1>1 DEF Overslept, KernelStates
    <3> QED BY <2>2, <3>1, <3>2 DEF Clocked
  <2>5. GoesOn(p, c)
    BY <1>1 DEF GoesOn, TimeBefore, KernelInv, Control, ExclInv
  <2>6. x = [k' EXCEPT !.yield = b]
    BY <1>3 DEF TickLate
  <2>7. k' \in KernelStates
    BY <1>1, <1>3, <2>1, TickedKeeps DEF StatesKept
  <2>8. b \in BOOLEAN
    BY <1>3, <2>7 DEF KernelStates
  <2> HIDE DEF j, x, b
  <2>9. Clocked(k, x, n)
    BY <1>1, <2>1, <2>3, <2>4, OneMoreClocked DEF x
  <2>10. /\ x \in KernelStates /\ SameWaits(x, k') /\ SameEvents(x, k')
         /\ x.tick = k'.tick /\ k'.age = x.age /\ k'.wrapped = x.wrapped
    BY <2>6, <2>7, <2>8 DEF KernelStates, SameWaits, SameEvents
  <2>11. WaitingIn(k') = WaitingIn(x) /\ Listening(k') = Listening(x)
    BY <2>10 DEF SameWaits, SameEvents, WaitingIn, Listening
  <2>12. \A u \in TaskSet : StillThere(x, k', u)
    BY <2>10, <2>11, SameTimes
  <2>13. cur \in TaskSet /\ Stands(k, p, c, cur) /\ TimeFor(x, c, cur) /\ Ahead(x)
    BY <2>9, CurrentTimes DEF Clocked
  <2>14. TimeFor(k', c, cur)
    BY <2>12, <2>13, StillTimed
  <2>15. Stands(k', p, c, cur)
    BY <2>1, <2>13 DEF Stands
  <2>16. cur \in Range(k'.delayed) => k'.wake[cur] > k'.tick
    BY <2>10, <2>13 DEF SameWaits, Ahead
  <2>17. c.op = call[cur].op
    OBVIOUS
  <2> HIDE DEF n, p, c
  <2> QED BY <2>1, <2>3, <2>5, <2>7, <2>9, <2>10, <2>11, <2>12, <2>14, <2>15, <2>16, <2>17, TimesLeap
<1> QED BY <1>2, <1>3 DEF Tick

(* The scheduler resumes.                                                  *)
LEMMA ResumeTimes ==
  ASSUME TimeBefore, Resume(cur)
  PROVE  TimeKeeps
<1> DEFINE x == Resumed(k)
           c == call[cur]
<1>1. /\ pc[cur] = "resume"
      /\ \/ c.op = "sleep" /\ Goes(cur, "app") /\ k' = x /\ call' = call
         \/ c.op # "sleep" /\ c.next # "out" /\ Goes(cur, "try") /\ k' = x /\ call' = call
         \/ c.op = "receive" /\ c.next = "out" /\ Goes(cur, "final") /\ k' = x /\ call' = call
         \/ c.op = "send" /\ c.next = "out" /\ ReturnsWith(x, cur)
  BY DEF Resume, At
<1>2. cur \in TaskSet /\ TimeFor(k, c, cur) /\ c \in Callings /\ StatesKept(k) /\ EventsKept(k)
  BY CurrentTimes
<1>3. \A u \in TaskSet : u # cur => pc[u] \notin {"test", "place"}
  BY DEF TimeBefore, KernelInv, ExclInv, Exclusive, Inside
<1>4. PICK n \in 0 .. MaxPended : Clocked(k, x, n)
  BY ResumedTimes DEF TimeBefore
<1>5. n \in Nat /\ n < TickMod
  BY KernelAssumption
<1>6. StatesKept(x) /\ EventsKept(x) /\ x \in KernelStates
  BY <1>2, ResumedKeeps DEF StatesKept
<1>7. Ahead(x) /\ TimeFor(x, c, cur)
  BY <1>2, <1>4 DEF Clocked
<1> HIDE DEF x
<1>8. CASE k' = x /\ call' = call
  <2>1. PICK p : Goes(cur, p) /\ p \in {"app", "try", "final"} /\ (p = "final" => c.next = "out")
    <3>1. c.next = "out" \/ Goes(cur, "app") \/ Goes(cur, "try")
      BY <1>1
    <3>2. Goes(cur, "app") \/ Goes(cur, "try") \/ Goes(cur, "final")
      BY <1>1 DEF ReturnsWith
    <3> QED BY <3>1, <3>2
  <2>2. GoesOn(p, c)
    BY <1>8, <2>1, CurrentTimes DEF Goes, GoesOn
  <2>3. Stands(k', p, c, cur)
    BY <2>1 DEF Stands
  <2>4. \A u \in TaskSet : StillThere(x, k', u)
    BY <1>8, SameStill
  <2>5. cur \in Range(k'.delayed) => k'.wake[cur] > k'.tick
    BY <1>7, <1>8 DEF Ahead
  <2>6. c.op = call[cur].op
    OBVIOUS
  <2> HIDE DEF c
  <2> QED BY <1>3, <1>4, <1>5, <1>6, <1>7, <1>8, <2>2, <2>3, <2>4, <2>5, <2>6, TimesLeap
<1>9. CASE c.op = "send" /\ c.next = "out" /\ ReturnsWith(x, cur)
  <2>1. cur \notin WaitingIn(x) /\ k.age[cur] >= c.asked
    BY <1>2, <1>7, <1>9 DEF TimeFor, Kind, Timing
  <2> DEFINE p == "app"
             d == NoCall
  <2>2. GoesOn(p, d) /\ d.op = "none"
    BY <1>9 DEF ReturnsWith, Goes, GoesOn, NoCall
  <2>3. PICK a \in Int : a = -1
    OBVIOUS
  <2>4. PICK b \in BOOLEAN : b = FALSE
    OBVIOUS
  <2>5. k' = Noted(x, cur, a, b)
    BY <1>9, <2>3, <2>4 DEF ReturnsWith, Noted
  <2>6. a \in Int /\ b \in BOOLEAN
    BY <2>3, <2>4
  <2> HIDE <2>3, <2>4
  <2>7. StatesKept(k')
    BY <1>2, <1>6, <2>5, <2>6, NotedKeeps
  <2>8. /\ k' \in KernelStates /\ k'.tick = x.tick /\ WaitingIn(k') = WaitingIn(x)
        /\ \A u \in TaskSet : u # cur => StillThere(x, k', u)
    BY <1>2, <1>6, <2>5, <2>7, NotedTimes DEF StatesKept
  <2>9. cur \notin WaitingIn(k') /\ cur \notin Range(k'.delayed)
    BY <2>1, <2>8 DEF WaitingIn
  <2>10. TimeFor(k', d, cur) /\ Stands(k', p, d, cur)
    BY <2>2, <2>9, NothingTimed DEF Stands
  <2>11. call[cur].op \in {"receive", "send"} /\ d.op # call[cur].op /\ ring' = ring =>
           k.age[cur] >= call[cur].asked
    BY <2>1
  <2> HIDE DEF c, d, p
  <2> QED BY <1>3, <1>4, <1>5, <1>6, <2>1, <2>2, <2>8, <2>9, <2>10, <2>11, TimesLeap
<1> QED BY <1>1, <1>8, <1>9

(* Every step of a task keeps the times.                                   *)
LEMMA StepTimes ==
  ASSUME TimeBefore, ~pendsv, Step(cur)
  PROVE  TimeKeeps
BY TryReceiveTimes, TrySendTimes, SuspendTimes, LockTimes, CheckTimes, TestTimes, PlaceTimes,
   UnlockTimes, ResumeTimes, FinalTimes, SleepTimes, PlaceSleepTimes DEF Step

(* At the start nobody waits.                                              *)
LEMMA InitTimes == Init => TimeInv
<1> SUFFICES ASSUME Init PROVE TimeInv
  OBVIOUS
<1>1. k.delayed = << >> /\ k.overflow = << >> /\ k.suspended = << >>
  BY AllCreated DEF Init, AfterCreation, SameWaits, Uncreated
<1>2. Range(<< >>) = {}
  BY DEF Range
<1>3. \A t \in TaskSet : pc[t] = "app" /\ call[t].op = "none"
  BY DEF Init, NoCall
<1>4. Ahead(k) /\ WaitingIn(k) = {}
  BY <1>1, <1>2 DEF Ahead, WaitingIn
<1>5. ASSUME NEW t \in TaskSet
      PROVE  TimeFor(k, call[t], t) /\ Stands(k, pc[t], call[t], t)
  <2>1. t \notin WaitingIn(k) /\ call[t].op \notin {"receive", "send"}
    BY <1>3, <1>4
  <2>2. TimeFor(k, call[t], t)
    BY <2>1, NothingTimed
  <2> QED BY <1>3, <2>2 DEF Stands
<1> QED BY <1>4, <1>5 DEF TimeInv

(* A step keeps the times, and cuts no wait short.                         *)
LEMMA TimesKept ==
  ASSUME KernelInv, Sound(ring), Awaited, TimeInv, [Next]_vars
  PROVE  TimeInv' /\ (InTime \/ UNCHANGED vars)
<1>1. TimeBefore
  BY DEF TimeBefore
<1>2. CASE Next
  <2>1. TimeKeeps
    BY <1>1, <1>2, TickTimes, SwitchContextTimes, CanInterruptTimes, StepTimes DEF Next, Processor
  <2> QED BY <2>1 DEF TimeKeeps
<1>3. CASE UNCHANGED vars
  BY <1>3 DEF vars, TimeInv, Ahead, TimeFor, Stands, Kind, Exact, Timing, Since, Away, Timed, Listening,
              WaitingIn
<1> QED BY <1>2, <1>3

(* What a task waits for and how long it has waited agree in every state.  *)
LEMMA TimesInvariant == Spec => []TimeInv
<1>1. KernelInv /\ Sound(ring) /\ WakeInv /\ TimeInv /\ [Next]_vars => TimeInv'
  BY TimesKept DEF WakeInv
<1> QED BY <1>1, InitTimes, KernelInvariant, StorageSound, WakeInvariant, PTL DEF Spec

(* Between overflows of the tick count a task that waits for a time waits  *)
(* exactly for what is left of the time it asked for, on whichever of the  *)
(* two lists it is (prvAddCurrentTaskToDelayedList, xTaskIncrementTick).   *)
THEOREM WaitsExact == Spec => []WaitsExactly
<1>1. KernelInv /\ TimeInv => WaitsExactly
  <2> SUFFICES ASSUME KernelInv, TimeInv, NEW t \in Range(k.delayed) \cup Range(k.overflow),
                      k.age[t] < TickMod
               PROVE  Distance(t) > 0 /\ Distance(t) = call[t].asked - k.age[t]
    BY DEF WaitsExactly
  <2>1. k \in KernelStates /\ WaitKept(k)
    BY DEF KernelInv, StatesKept
  <2>2. t \in TaskSet /\ k.wake[t] \in 0 .. Forever /\ k.tick \in 0 .. Forever
    <3>1. Range(k.delayed) \subseteq TaskSet /\ Range(k.overflow) \subseteq TaskSet
      BY <2>1, ListType DEF KernelStates
    <3> QED BY <2>1, <3>1 DEF KernelStates
  <2>3. Exact(k, call[t], t) /\ Ahead(k)
    BY <2>2 DEF TimeInv, TimeFor, Timed
  <2>4. Distance(t) = Away(k, t)
    BY DEF Distance, Away
  <2>5. Away(k, t) > 0
    <3>1. CASE t \in Range(k.delayed)
      <4>1. k.wake[t] > k.tick /\ Away(k, t) = k.wake[t] - k.tick
        BY <2>3, <3>1 DEF Ahead, Away
      <4> QED BY <2>2, <4>1, ForeverType
    <3>2. CASE t \notin Range(k.delayed)
      <4>1. Away(k, t) = k.wake[t] + TickMod - k.tick
        BY <3>2 DEF Away
      <4> QED BY <2>2, <4>1, ForeverType
    <3> QED BY <3>1, <3>2
  <2> QED BY <2>3, <2>4, <2>5 DEF Exact
<1> QED BY <1>1, KernelInvariant, TimesInvariant, PTL

(* No call times out before its time (xTaskCheckForTimeOut), however often *)
(* it was woken in vain, and no sleeper is woken early (vTaskDelayUntil),  *)
(* although the ticks that came under a suspended scheduler come late.     *)
THEOREM NeverTooEarly == Spec => NeverEarly
<1> DEFINE A == \A t \in TaskSet :
                  /\ InCall(t, "sleep") /\ t \in Waiting /\ t \notin Waiting' =>
                       k.age[t] + ((k'.tick + TickMod - k.tick) % TickMod) >= call[t].asked
                  /\ /\ call[t].op \in {"receive", "send"} /\ call'[t].op # call[t].op
                     /\ ring' = ring
                     => k.age[t] >= call[t].asked
<1>1. KernelInv /\ Sound(ring) /\ WakeInv /\ TimeInv /\ [Next]_vars => [A]_vars
  <2> SUFFICES ASSUME KernelInv, Sound(ring), WakeInv, TimeInv, [Next]_vars PROVE A \/ UNCHANGED vars
    OBVIOUS
  <2>1. InTime \/ UNCHANGED vars
    BY TimesKept DEF WakeInv
  <2>2. Waiting = WaitingIn(k) /\ Waiting' = WaitingIn(k')
    BY DEF Waiting, WaitingIn, Range
  <2>3. InTime => A
    BY <2>2 DEF InTime
  <2> QED BY <2>1, <2>3
<1>2. NeverEarly <=> [][A]_vars
  BY PTL DEF NeverEarly
<1> QED BY <1>1, <1>2, KernelInvariant, StorageSound, WakeInvariant, TimesInvariant, PTL DEF Spec
=============================================================================
