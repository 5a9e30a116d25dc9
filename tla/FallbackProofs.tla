--------------------------- MODULE FallbackProofs ---------------------------
(***************************************************************************)
(* A device never loses its last good application, and runs nothing that   *)
(* was neither commissioned nor tried: the safety properties of BootCore   *)
(* about the two slots, for any number of attempts, versions, transactions *)
(* and faults, as long as images do not rot (MayRot).                      *)
(*                                                                         *)
(* The invariant has a durable half, which relates journal, metadata,      *)
(* slot contents and the retained request, and a volatile half, which says *)
(* what the program has found out on its way to each step that writes.     *)
(* The durable half is shown first, then the volatile half, step by step,  *)
(* then the theorems that follow from both, and last, with what each pc    *)
(* says of the update's state, that BootCore implements SlotLife.          *)
(***************************************************************************)
EXTENDS BootCoreProofs

(* A good slot whose record names the image that is in it.                 *)
Sure(s) == Good(s) /\ meta[s].version = Image(s)

Live == journal.status = "VALID"
Before == PREPARING .. VERIFIED
Underway(j) == j.status = "VALID" /\ j.state \in PREPARING .. PENDING_ACTIVATION

(* The device came with an update and no metadata: the running application *)
(* has no record yet.                                                      *)
FirstBoot ==
  /\ journal.state = PENDING_ACTIVATION
  /\ \A s \in Slots : meta[s].status # "VALID"
  /\ Image(journal.active) # 0

(* The target boots, and is newer than the active image, which boots too.  *)
Ahead(j) ==
  /\ Image(j.target) # 0
  /\ j.active \in Slots => Image(j.active) # 0 /\ Image(j.target) > Image(j.active)

(* Durable half.  A CONFIRMED record tells the truth, unless it is the one *)
(* an update has left behind in its target ...                             *)
Bare == ~Live => \A s \in Slots : meta[s].status # "VALID"
Vetted == \A s \in Slots :
  Has(s, "CONFIRMED") => Sure(s) \/ (s = journal.target /\ journal.state # IDLE)
(* ... an update is started from a slot one can return to ...              *)
Backed == Underway(journal) /\ journal.active \in Slots => Sure(journal.active) \/ FirstBoot
Placed == \A s \in Slots :
  OnTrial(s) => s = journal.target /\ (journal.active \in Slots => Sure(journal.active))
Alone == Live /\ journal.active = UNKNOWN =>
  /\ \A s \in Slots : s # journal.target => meta[s].status # "VALID"
  /\ journal.state # IDLE => ~Has(journal.target, "CONFIRMED")
(* ... what was handed over is newer than that slot's image ...            *)
Newer == LetGo(journal) =>
  \A s \in Slots : Has(s, "PENDING") \/ Has(s, "TRIAL") =>
    Ahead(journal) /\ meta[s].version = Image(s)
(* ... and while it is on trial no other application asks for anything.    *)
Asked == \A s \in Slots : Has(s, "TRIAL") =>
  /\ LetGo(journal)
  /\ req.kind # "none" => req.slot = s
  /\ req.kind = "confirm" => s \in vouched

Durable == Bare /\ Vetted /\ Backed /\ Placed /\ Alone /\ Newer /\ Asked

(* Volatile half: what is known at each step.                              *)
InMode ==
  /\ pc \in {"recover", "verifying", "publish", "install", "pend", "handoff", "check", "select",
             "jump", "launch", "app", "error"} => mode = "boot"
  /\ pc \in {"prog", "erasing", "wipe", "ready", "verify", "header", "refresh"} => mode = "prog"
  /\ mode = "prog" /\ pc \in {"lifecycle", "initialize", "resolve", "refresh"} =>
       CanContinue /\ jr.state = ABORTED /\ ctx = "none"
Loaded == jr.status = "VALID" => Live
Saving ==
  /\ pc = "recover" => ~jfault
  /\ pc \in {"abort", "publish"} => CanContinue /\ Underway(jr)
  /\ pc \in {"verifying", "mark", "erasing", "wipe", "ready", "verify", "header"} =>
       CanContinue /\ jr.state \in Before
Settled ==
  /\ pc = "lifecycle" /\ CanContinue => jr.state \in {IDLE, ABORTED, PENDING_ACTIVATION}
  /\ pc \in {"jump", "launch", "app"} => ~lfault
  /\ \/ pc = "resolve"
     \/ pc \in {"check", "select", "jump", "launch", "app"} /\ ~lfault
     => CanContinue /\ jr.state \in {IDLE, ABORTED}
Ready ==
  /\ pc = "mark" /\ mode = "boot" => Ahead(jr)
  /\ pc = "lifecycle" /\ CanContinue /\ Pending => Ahead(jr)
  /\ pc \in {"install", "pend", "handoff"} =>
       Pending /\ Ahead(jr) /\ (jr.active \in Slots => Has(jr.active, "CONFIRMED"))
  /\ pc \in {"pend", "handoff"} => meta[jr.target].version = Image(jr.target)
  /\ pc = "initialize" =>
       /\ Image(jr.active) # 0 /\ meta[jr.active].status # "VALID"
       /\ jr.state \in {PENDING_ACTIVATION, ABORTED}
       /\ Pending => Ahead(jr)
Session ==
  /\ ctx # "none" => mode = "prog" /\ jr.status = "VALID" /\ ~lfault
  /\ ctx \in {"erased", "downloading", "received"} => jr.state \in Before
  /\ mode = "prog" /\ pc \in {"erasing", "wipe", "ready", "verify", "header", "mark"} => ~lfault
  /\ pc \in {"erasing", "wipe", "ready", "verify", "header", "mark", "abort"} =>
       ctx \notin {"erased", "downloading", "received"}
  /\ mode = "prog" /\ ~lfault /\ Underway(jr) => active.slot = jr.active /\ Target = jr.target
  /\ mode = "prog" /\ ~lfault => \A s \in Slots : Has(s, "TRIAL") => active.slot = s
Running ==
  /\ pc \in {"jump", "launch", "app"} => JournalPermits(running)
  /\ pc = "app" => Priority(running) # 0
  /\ pc \in {"jump", "launch", "app"} => \A s \in Slots : Has(s, "TRIAL") => running = s
  /\ pc \in {"select", "jump", "launch"} /\ sw => req.kind = "none"

Volatile == InMode /\ Loaded /\ Saving /\ Settled /\ Ready /\ Session /\ Running

(* The two halves, on top of what was shown before.                        *)
Known == TypeOK /\ Located /\ HandoverInv /\ Durable /\ Volatile

(* What no step may do.                                                    *)
Safe == /\ (\E s \in Slots : Good(s)) => (\E s \in Slots : Good(s)')
        /\ \A s \in Slots : Has(s, "TRIAL") => UNCHANGED flash[s]

-----------------------------------------------------------------------------
(* Steps, kind by kind, keep the durable half.                             *)
LEMMA Numbers ==
  /\ IDLE = 0 /\ ABORTED = 9 /\ PENDING_ACTIVATION = 8 /\ UNKNOWN = 2 /\ Slots = {0, 1}
  /\ PREPARING .. PENDING_ACTIVATION = 1 .. 8 /\ Before = 1 .. 7
BY DEF IDLE, ABORTED, PENDING_ACTIVATION, UNKNOWN, Slots, PREPARING, VERIFIED, Before

(* Nothing durable changes; the request may be dropped.                    *)
LEMMA DurableKept ==
  ASSUME Durable, UNCHANGED <<durable, vouched>>, req' = req \/ req' = NoRequest
  PROVE  Durable' /\ Safe
<1>1. UNCHANGED <<journal, meta, flash, vouched>>
  BY DEF durable
<1>2. NoRequest.kind = "none"
  BY DEF NoRequest
<1>3. \A s \in Slots : \A t : Has(s, t)' = Has(s, t)
  BY <1>1 DEF Has
<1>4. /\ Image(journal.active)' = Image(journal.active) /\ Image(journal.target)' = Image(journal.target)
      /\ \A s \in Slots : Image(s)' = Image(s)
  BY <1>1 DEF Image
<1>5. \A s \in Slots : OnTrial(s)' = OnTrial(s) /\ Good(s)' = Good(s)
  BY <1>1, <1>3, <1>4 DEF OnTrial, Good
<1>6. Bare' /\ Vetted' /\ Backed' /\ Placed' /\ Alone' /\ Newer'
  BY <1>1, <1>3, <1>4, <1>5
  DEF Durable, Bare, Vetted, Backed, Placed, Alone, Newer, Sure, FirstBoot, Ahead, Live, LetGo,
      Underway, Has, Image, Good, OnTrial
<1>7. Asked'
  BY <1>1, <1>2, <1>3 DEF Durable, Asked, LetGo
<1>8. Safe
  BY <1>1, <1>5 DEF Safe
<1> QED BY <1>6, <1>7, <1>8 DEF Durable

(* The journal notes the progress or the end of an update.                 *)
LEMMA DurableSave ==
  ASSUME Known, UNCHANGED <<meta, flash, vouched, req>>, NEW next,
         journal' = journal \/ journal' = next,
         journal' = next => /\ CanContinue /\ Underway(jr)
                            /\ next.status = "VALID" /\ next.state \in PREPARING .. ABORTED
                            /\ next.active = jr.active /\ next.target = jr.target
                            /\ Underway(next) => jr.state # PENDING_ACTIVATION
  PROVE  Durable' /\ Safe
<1>1. CASE journal' = journal
  BY <1>1, DurableKept DEF Known, durable
<1>2. CASE journal' = next
  <2>1. /\ journal = jr /\ Underway(journal) /\ Live
        /\ journal'.status = "VALID" /\ journal'.state \in 1 .. 9
        /\ journal'.active = journal.active /\ journal'.target = journal.target
    BY <1>2, Numbers DEF Known, HandoverInv, Synced, CanContinue, Underway, Live, ABORTED,
                         PREPARING
  <2>2. journal'.state # IDLE /\ journal.state # IDLE
    BY <2>1, Numbers DEF Underway
  <2>3. \A s \in Slots : \A t : Has(s, t)' = Has(s, t)
    BY DEF Has
  <2>4. /\ Image(journal.active)' = Image(journal.active)
        /\ \A s \in Slots : Image(s)' = Image(s)
    BY <2>1 DEF Image
  <2>5. \A s \in Slots : /\ OnTrial(s)' = OnTrial(s) /\ Good(s)' = Good(s)
                         /\ Sure(s)' = Sure(s)
    BY <2>3, <2>4 DEF OnTrial, Good, Sure
  <2>6. Bare' /\ Vetted' /\ Placed' /\ Alone'
    <3>1. Bare' /\ Vetted' /\ Alone'
      BY <2>1, <2>2, <2>3, <2>5, Numbers DEF Known, Durable, Bare, Vetted, Alone, Live, Has
    <3>2. Placed'
      BY <2>1, <2>5 DEF Known, Durable, Placed, Sure, Good, Has, Image
    <3> QED BY <3>1, <3>2
  <2>7. Newer' /\ Asked'
    BY <2>1, <2>2, <2>3 DEF Known, Durable, Newer, Asked, LetGo
  <2>8. Backed'
    <3> SUFFICES ASSUME Underway(journal)', journal'.active \in Slots
                 PROVE  Sure(journal.active)'
      BY <2>1 DEF Backed, Sure, Good, Has, Image
    <3>1. journal.state # PENDING_ACTIVATION
      BY <1>2, <2>1 DEF Underway
    <3>2. Sure(journal.active)
      BY <2>1, <3>1 DEF Known, Durable, Backed, FirstBoot
    <3> QED BY <2>1, <3>2 DEF Sure, Good, Has, Image
  <2>9. Safe
    BY <2>5 DEF Safe
  <2> QED BY <2>6, <2>7, <2>8, <2>9 DEF Durable
<1> QED BY <1>1, <1>2

(* The slot an update writes to loses what it held.                        *)
LEMMA DurableFlash ==
  ASSUME Known, Underway(journal), UNCHANGED <<journal, meta, req>>,
         vouched' = vouched \/ vouched' = vouched \ {journal.target},
         \A s \in Slots : s # journal.target => flash'[s] = flash[s]
  PROVE  Durable' /\ Safe
<1>1. Live /\ journal.state # IDLE /\ journal.active # journal.target /\ ~LetGo(journal)
  BY Numbers DEF Known, HandoverInv, Synced, Paired, Underway, Live, LetGo
<1>2. \A s \in Slots : \A t : Has(s, t)' = Has(s, t)
  BY DEF Has
<1>3. ASSUME NEW s \in Slots, s # journal.target
      PROVE  Image(s)' = Image(s) /\ Good(s)' = Good(s) /\ Sure(s)' = Sure(s)
  BY <1>2, <1>3 DEF Image, Good, Sure
<1>4. Bare' /\ Vetted' /\ Alone'
  BY <1>1, <1>2, <1>3 DEF Known, Durable, Bare, Vetted, Alone, Live, Has
<1>5. Newer' /\ Asked'
  BY <1>1, <1>2 DEF Known, Durable, Newer, Asked, LetGo
<1>6. Placed'
  BY <1>1, <1>2, <1>3 DEF Known, Durable, Placed, OnTrial, Sure, Good, Has, Image
<1>7. Backed'
  BY <1>1, <1>2, <1>3 DEF Known, Durable, Backed, Underway, FirstBoot, Sure, Good, Has, Image
<1>8. \A s \in Slots : ~Has(s, "TRIAL")
  BY <1>1 DEF Known, Durable, Asked
<1>9. ASSUME NEW s \in Slots, Good(s) PROVE \E o \in Slots : Good(o)'
  <2>1. CASE journal.active \in Slots
    <3>1. Good(journal.active)
      BY <1>9, <2>1 DEF Known, Durable, Backed, FirstBoot, Good, Has, Sure
    <3> QED BY <1>1, <1>3, <2>1, <3>1
  <2>2. CASE journal.active = UNKNOWN
    BY <1>1, <1>9, <2>2 DEF Known, Durable, Alone, Good, Has
  <2> QED BY <2>1, <2>2 DEF Known, TypeOK, Journals
<1> QED BY <1>4, <1>5, <1>6, <1>7, <1>8, <1>9 DEF Durable, Safe

(* The target's record is replaced by that of the update.                  *)
LEMMA DurableInstall ==
  ASSUME Known, Underway(journal), UNCHANGED <<journal, flash, vouched, req>>,
         journal.active \in Slots => Has(journal.active, "CONFIRMED"),
         \A s \in Slots : s # journal.target => meta'[s] = meta[s],
         \/ meta'[journal.target] = meta[journal.target]
         \/ meta'[journal.target].status # "VALID"
         \/ meta'[journal.target].state \in {"VERIFIED", "PENDING"}
  PROVE  Durable' /\ Safe
<1>1. Live /\ journal.state # IDLE /\ journal.active # journal.target /\ ~LetGo(journal)
  BY Numbers DEF Known, HandoverInv, Synced, Paired, Underway, Live, LetGo
<1>2. \A s \in Slots : Image(s)' = Image(s)
  BY DEF Image
<1>3. ASSUME NEW s \in Slots, s # journal.target
      PROVE  Good(s)' = Good(s) /\ Sure(s)' = Sure(s) /\ \A t : Has(s, t)' = Has(s, t)
  BY <1>2, <1>3 DEF Good, Sure, Has
<1>4. journal.active \in Slots => Sure(journal.active)
  BY <1>1 DEF Known, Durable, Vetted
<1>5. \A t \in {"CONFIRMED", "TRIAL"}, s \in Slots : Has(s, t)' => Has(s, t)
  <2> SUFFICES ASSUME NEW t \in {"CONFIRMED", "TRIAL"}, NEW s \in Slots, Has(s, t)'
               PROVE  Has(s, t)
    OBVIOUS
  <2>1. CASE s = journal.target
    BY <2>1 DEF Has
  <2> QED BY <1>3, <2>1
<1>6. Bare' /\ Vetted' /\ Alone'
  <2>1. Bare'
    BY <1>1 DEF Bare, Live
  <2>2. Vetted'
    BY <1>1, <1>3, <1>5 DEF Known, Durable, Vetted
  <2>3. Alone'
    BY <1>1, <1>3, <1>5 DEF Known, Durable, Alone, Live, Has
  <2> QED BY <2>1, <2>2, <2>3
<1>7. Newer' /\ Asked'
  BY <1>1, <1>5 DEF Known, Durable, Newer, Asked, LetGo
<1>8. journal.active \in Slots => Sure(journal.active)'
  BY <1>1, <1>4 DEF Sure, Good, Has, Image
<1>9. Placed' /\ Backed'
  <2>1. \A s \in Slots : OnTrial(s)' => s = journal.target
    BY <1>3 DEF Known, Durable, Placed, OnTrial
  <2> QED BY <1>8, <2>1 DEF Placed, Backed, Sure, Good, Has, Image
<1>10. \A s \in Slots : ~Has(s, "TRIAL")
  BY <1>1 DEF Known, Durable, Asked
<1>11. ASSUME NEW s \in Slots, Good(s) PROVE \E o \in Slots : Good(o)'
  <2>1. CASE journal.active \in Slots
    BY <1>1, <1>3, <1>4, <2>1 DEF Sure
  <2>2. CASE journal.active = UNKNOWN
    BY <1>1, <1>11, <2>2 DEF Known, Durable, Alone, Good, Has
  <2> QED BY <2>1, <2>2 DEF Known, TypeOK, Journals
<1> QED BY <1>6, <1>7, <1>9, <1>10, <1>11 DEF Durable, Safe

(* The record of a slot on trial moves on: one more start, the application *)
(* confirms itself, or the trials are used up.                             *)
LEMMA DurableTrial ==
  ASSUME Known, LetGo(journal), NEW s \in Slots, Has(s, "PENDING") \/ Has(s, "TRIAL"),
         UNCHANGED <<journal, flash, vouched>>, req' = req \/ req' = NoRequest,
         NEW next, meta' \in {meta, [meta EXCEPT ![s] = next]},
         next.status = "VALID", next.version = meta[s].version,
         \/ next.state = "INVALID"
         \/ next.state = "CONFIRMED" /\ s \in vouched
         \/ next.state = "TRIAL" /\ (Has(s, "TRIAL") \/ req.kind = "none")
  PROVE  Durable' /\ Safe
<1>1. Live /\ journal.state = IDLE /\ s = journal.target /\ journal.active # s
  BY DEF Known, Durable, Placed, OnTrial, HandoverInv, Synced, Paired, Live, LetGo
<1>2. CASE meta' = meta
  BY <1>2, DurableKept DEF Known, durable
<1>3. CASE meta' = [meta EXCEPT ![s] = next]
  <2>1. \A o \in Slots : meta'[o] = IF o = s THEN next ELSE meta[o]
    BY <1>3 DEF Known, TypeOK
  <2>2. \A o \in Slots : Image(o)' = Image(o)
    BY DEF Image
  <2>3. ASSUME NEW o \in Slots, o # s
        PROVE  Good(o)' = Good(o) /\ Sure(o)' = Sure(o) /\ \A t : Has(o, t)' = Has(o, t)
    BY <2>1, <2>2, <2>3 DEF Good, Sure, Has
  <2>4. Ahead(journal) /\ meta[s].version = Image(s) /\ Image(s) # 0
    BY <1>1 DEF Known, Durable, Newer, Ahead
  <2>5. journal.active \in Slots => Sure(journal.active) /\ Sure(journal.active)'
    <3>1. journal.active \in Slots => Sure(journal.active)
      BY DEF Known, Durable, Placed, OnTrial
    <3> QED BY <1>1, <2>1, <3>1 DEF Sure, Good, Has, Image
  <2>6. Has(s, "CONFIRMED")' => Sure(s)'
    BY <2>1, <2>2, <2>4 DEF Has, Sure, Good
  <2>7. Bare' /\ Vetted' /\ Alone'
    <3>1. Bare'
      BY <1>1 DEF Bare, Live
    <3>2. Vetted'
      BY <2>3, <2>6 DEF Known, Durable, Vetted
    <3>3. Alone'
      BY <1>1, <2>1 DEF Known, Durable, Alone, Live
    <3> QED BY <3>1, <3>2, <3>3
  <2>8. \A o \in Slots : OnTrial(o)' => o = s
    BY <1>1, <2>3 DEF Known, Durable, Placed, OnTrial
  <2>9. Placed' /\ Backed'
    <3>1. Placed'
      BY <1>1, <2>5, <2>8 DEF Placed, Sure, Good, Has, Image
    <3>2. ~Underway(journal)'
      BY <1>1, Numbers DEF Underway
    <3> QED BY <3>1, <3>2 DEF Backed
  <2>10. Newer'
    <3>1. Ahead(journal)'
      BY <2>4 DEF Ahead, Image
    <3>2. meta'[s].version = Image(s)'
      BY <2>1, <2>2, <2>4
    <3> QED BY <2>8, <3>1, <3>2 DEF Newer, OnTrial, Ahead, Image
  <2>11. Asked'
    <3>1. NoRequest.kind = "none"
      BY DEF NoRequest
    <3>2. \A o \in Slots : Has(o, "TRIAL")' => o = s
      BY <2>8 DEF OnTrial
    <3>3. Has(s, "TRIAL")' => Has(s, "TRIAL") \/ req.kind = "none"
      BY <2>1 DEF Has
    <3> QED BY <3>1, <3>2, <3>3 DEF Known, Durable, Asked, LetGo
  <2>12. Safe
    <3>1. ~Good(s)
      BY DEF Good, Has
    <3> QED BY <2>3, <3>1 DEF Safe
  <2> QED BY <2>7, <2>9, <2>10, <2>11, <2>12 DEF Durable
<1> QED BY <1>2, <1>3

(* An erase begins an update.                                              *)
LEMMA DurableStart ==
  ASSUME Known, EraseRequest
  PROVE  Durable' /\ Safe
<1> DEFINE next == [NoJournal EXCEPT !.status = "VALID", !.state = PREPARING,
                      !.active = active.slot, !.target = Target, !.txn = jr.txn + 1]
<1>1. /\ UNCHANGED <<meta, flash, vouched, req>> /\ ~lfault /\ CanContinue /\ CanStartUpdate
      /\ journal' = journal \/ (journal' = next /\ MayBegin)
      /\ mode = "prog"
  BY DEF EraseRequest, Saved, SaveFails, CanStartUpdate, durable, history, Known, Volatile, InMode
<1>2. CASE journal' = journal
  BY <1>1, <1>2, DurableKept DEF durable, Known
<1>3. CASE journal' = next /\ MayBegin
  <2>1. journal = jr /\ Live /\ journal.active # journal.target
    BY <1>1 DEF Known, HandoverInv, Synced, Paired, CanContinue, Live
  <2>2. /\ next.status = "VALID" /\ next.state = 1
        /\ next.active = active.slot /\ next.target = Target
        /\ active.slot \in Slots \cup {UNKNOWN} /\ Target \in Slots /\ active.slot # Target
        /\ \A s \in Slots : s # active.slot /\ active.slot \in Slots => s = Target
    BY TargetType, Numbers DEF NoJournal, PREPARING, Target, Known, TypeOK
  <2> HIDE DEF next
  <2>3. ASSUME active.slot \in Slots PROVE Sure(active.slot)
    <3>1. Has(active.slot, "CONFIRMED") /\ JournalPermits(active.slot)
      BY <1>1, <1>3, <2>3, Numbers DEF CanStartUpdate, MayBegin
    <3>2. CASE journal.state = IDLE \/ active.slot # journal.target
      BY <2>3, <3>1, <3>2 DEF Known, Durable, Vetted
    <3>3. CASE journal.state # IDLE /\ active.slot = journal.target
      <4>1. Underway(jr)
        BY <2>1, <3>1, <3>3, Numbers DEF JournalPermits, SlotAllowed, Underway
      <4>2. active.slot = jr.active
        BY <1>1, <4>1 DEF Known, Volatile, Session
      <4> QED BY <2>1, <3>3, <4>2
    <3> QED BY <3>2, <3>3
  <2>4. ASSUME active.slot \notin Slots, NEW s \in Slots PROVE meta[s].status # "VALID"
    BY <1>1, <2>2, <2>4, Numbers DEF CanStartUpdate
  <2>5. \A s \in Slots : ~Has(s, "TRIAL")
    <3> SUFFICES ASSUME NEW s \in Slots, Has(s, "TRIAL") PROVE FALSE
      OBVIOUS
    <3>1. active.slot = s
      BY <1>1 DEF Known, Volatile, Session
    <3> QED BY <2>3, <3>1 DEF Sure, Good, Has
  <2>6. \A s \in Slots : \A t : Has(s, t)' = Has(s, t)
    BY <1>1 DEF Has
  <2>7. \A s \in Slots : Good(s)' = Good(s) /\ Image(s)' = Image(s)
    BY <1>1 DEF Good, Has, Image
  <2>8. active.slot \in Slots => Sure(journal.active)'
    BY <1>1, <1>3, <2>2, <2>3 DEF Sure, Good, Has, Image
  <2>9. ASSUME NEW s \in Slots, OnTrial(s)' PROVE s = Target /\ active.slot \in Slots
    <3>1. OnTrial(s) /\ meta[s].status = "VALID"
      BY <1>1, <2>9 DEF OnTrial, Has
    <3>2. active.slot \in Slots
      BY <2>4, <3>1
    <3>3. s # active.slot
      BY <2>3, <3>1 DEF Sure, Good, OnTrial, Has
    <3> QED BY <2>2, <3>2, <3>3
  <2>10. ASSUME NEW s \in Slots, Has(s, "CONFIRMED")' PROVE Sure(s)' \/ s = Target
    <3>1. active.slot \in Slots
      BY <1>1, <2>4, <2>10 DEF Has
    <3> QED BY <1>1, <2>2, <2>3, <2>10, <3>1 DEF Sure, Good, Has, Image
  <2>11. Bare' /\ Vetted' /\ Alone'
    <3>1. Bare'
      BY <1>3, <2>2 DEF Bare, Live
    <3>2. Vetted'
      BY <1>3, <2>2, <2>10, Numbers DEF Vetted
    <3>3. Alone'
      BY <1>1, <1>3, <2>2, <2>4, Numbers DEF Alone, Live, Has
    <3> QED BY <3>1, <3>2, <3>3
  <2>12. Placed' /\ Backed'
    BY <1>3, <2>2, <2>8, <2>9 DEF Placed, Backed, Sure, Good, Has, Image
  <2>13. Newer' /\ Asked'
    BY <1>3, <2>2, <2>5, <2>6, Numbers DEF Newer, Asked, LetGo
  <2>14. Safe
    BY <1>1, <2>7 DEF Safe
  <2> QED BY <2>11, <2>12, <2>13, <2>14 DEF Durable
<1> QED BY <1>1, <1>2, <1>3

(* FF02 creates the journal of a device that has no records at all.        *)
LEMMA DurableCommission ==
  ASSUME Known, NEW a \in Slots \cup {UNKNOWN}, Commission(a)
  PROVE  Durable' /\ Safe
<1> DEFINE next == [NoJournal EXCEPT !.status = "VALID", !.state = ABORTED, !.active = a,
                      !.target = IF a = 0 THEN 1 ELSE 0, !.commissioned = TRUE]
<1>1. /\ UNCHANGED <<meta, flash, vouched, req>> /\ ~Live
      /\ journal' \in {NoJournal, BadJournal, next}
  BY DEF Commission, history, Live
<1>0. /\ next.status = "VALID" /\ next.state = 9 /\ next.target \in Slots
      /\ NoJournal.status # "VALID" /\ BadJournal.status # "VALID"
  BY Numbers DEF NoJournal, BadJournal
<1> HIDE DEF next
<1>2. \A s \in Slots : \A t : meta[s].status # "VALID" /\ ~Has(s, t) /\ ~Has(s, t)'
  BY <1>1 DEF Known, Durable, Bare, Has
<1>3. journal'.state # IDLE \/ journal'.status # "VALID"
  BY <1>0, <1>1, Numbers
<1>4. ~Underway(journal')
  BY <1>0, <1>1, Numbers DEF Underway
<1>5. Bare' /\ Vetted' /\ Placed' /\ Alone'
  <2>1. Bare' /\ Vetted' /\ Placed'
    BY <1>1, <1>2 DEF Bare, Vetted, Placed, OnTrial
  <2>2. Alone'
    BY <1>0, <1>1, <1>2 DEF Alone, Live, Has
  <2> QED BY <2>1, <2>2
<1>6. Backed' /\ Newer' /\ Asked'
  BY <1>2, <1>3, <1>4 DEF Backed, Newer, Asked, Underway, LetGo
<1>7. Safe
  BY <1>1, <1>2 DEF Safe, Good
<1> QED BY <1>5, <1>6, <1>7 DEF Durable

(* The journal lets go of the update its target's record carries.          *)
LEMMA DurableHandoff ==
  ASSUME Known, CompleteHandoff
  PROVE  Durable' /\ Safe
<1> DEFINE next == Update(IDLE)
<1>1. /\ next.status = jr.status /\ next.state = IDLE
      /\ next.active = jr.active /\ next.target = jr.target
  BY UpdateFields DEF Known, IDLE, ABORTED
<1>2. /\ UNCHANGED <<meta, flash, vouched, req>>
      /\ journal' = journal \/ journal' = next
      /\ pc = "handoff"
  BY DEF CompleteHandoff, Saved, SaveFails, history
<1> HIDE DEF next
<1>3. CASE journal' = journal
  BY <1>2, <1>3, DurableKept DEF durable, Known
<1>4. CASE journal' = next
  <2>1. /\ journal = jr /\ Live /\ journal.active # journal.target /\ journal.target \in Slots
        /\ jr.state = PENDING_ACTIVATION /\ meta[jr.target].state = "PENDING"
        /\ Ahead(journal) /\ meta[jr.target].version = Image(jr.target)
        /\ journal.active \in Slots => Has(journal.active, "CONFIRMED")
    BY <1>2 DEF Known, HandoverInv, Synced, Paired, Holds, HandingOver, Installed, Live,
                Volatile, Ready, Pending
  <2>2. /\ journal'.status = "VALID" /\ journal'.state = IDLE /\ journal'.active = journal.active
        /\ journal'.target = journal.target
    BY <1>1, <1>4, <2>1 DEF Live
  <2>3. \A s \in Slots : \A t : Has(s, t)' = Has(s, t)
    BY <1>2 DEF Has
  <2>4. \A s \in Slots : /\ Image(s)' = Image(s) /\ Good(s)' = Good(s) /\ Sure(s)' = Sure(s)
                         /\ OnTrial(s)' = OnTrial(s)
    BY <1>2, <2>3 DEF Image, Good, Sure, OnTrial
  <2>5. journal.active \in Slots => Sure(journal.active)
    BY <2>1 DEF Known, Durable, Vetted
  <2>6. Bare' /\ Vetted' /\ Alone'
    <3>1. Bare'
      BY <2>2 DEF Bare, Live
    <3>2. ~Has(journal.target, "CONFIRMED")
      BY <2>1 DEF Has
    <3>3. Vetted'
      BY <2>3, <2>4, <3>2 DEF Known, Durable, Vetted
    <3>4. Alone'
      BY <1>2, <2>1, <2>2 DEF Known, Durable, Alone, Live
    <3> QED BY <3>1, <3>3, <3>4
  <2>7. Placed' /\ Backed'
    <3>1. Placed'
      BY <1>2, <2>2, <2>4, <2>5 DEF Known, Durable, Placed, Sure, Good, Has, Image
    <3>2. ~Underway(journal)'
      BY <2>2, Numbers DEF Underway
    <3> QED BY <3>1, <3>2 DEF Backed
  <2>8. \A s \in Slots : Has(s, "PENDING") \/ Has(s, "TRIAL") => s = journal.target
    BY DEF Known, Durable, Placed, OnTrial
  <2>9. Newer'
    <3>1. Ahead(journal)'
      BY <1>2, <2>1, <2>2 DEF Ahead, Image
    <3> QED BY <1>2, <2>1, <2>3, <2>8, <3>1 DEF Newer, Image, Ahead
  <2>10. Asked'
    <3>1. ~LetGo(journal)
      BY <2>1, Numbers DEF LetGo
    <3> QED BY <2>3, <3>1 DEF Known, Durable, Asked
  <2>11. Safe
    BY <1>2, <2>4 DEF Safe
  <2> QED BY <2>6, <2>7, <2>9, <2>10, <2>11 DEF Durable
<1> QED BY <1>2, <1>3, <1>4

(* The running application gets its first record.                          *)
LEMMA DurableInitialize ==
  ASSUME Known, InitializeConfirmed
  PROVE  Durable' /\ Safe
<1> DEFINE next == Record("CONFIRMED", Image(jr.active), jr.txn, 0)
           a == jr.active
<1>1. /\ pc = "initialize" /\ UNCHANGED <<journal, jr, flash, req>> /\ a \in Slots
      /\ journal = jr /\ Live /\ journal.state # IDLE /\ journal.active # journal.target
      /\ Image(a) # 0 /\ meta[a].status # "VALID"
  BY DEF InitializeConfirmed, Committed, CommitFails, Known, HandoverInv, Synced, Paired, Holds,
         HandingOver, Live, Volatile, Ready, Located
<1>2. PICK left \in {meta[a], next, NoMeta, BadMeta} :
        /\ meta' = [meta EXCEPT ![a] = left]
        /\ left = next => vouched' = vouched \cup {a}
        /\ vouched \subseteq vouched'
  <2>1. \/ Committed(a, next) /\ vouched' = vouched \cup {a}
        \/ /\ CommitFails(a, next)
           /\ vouched' = IF meta'[a] = next THEN vouched \cup {a} ELSE vouched
    BY DEF InitializeConfirmed
  <2> HIDE DEF next
  <2>2. CASE Committed(a, next) /\ vouched' = vouched \cup {a}
    BY <2>2 DEF Committed
  <2>3. CASE /\ CommitFails(a, next)
             /\ vouched' = IF meta'[a] = next THEN vouched \cup {a} ELSE vouched
    <3>1. PICK left \in {meta[a], next, NoMeta, BadMeta} : meta' = [meta EXCEPT ![a] = left]
      BY <2>3 DEF CommitFails
    <3>2. meta'[a] = left
      BY <1>1, <3>1 DEF Known, TypeOK
    <3> QED BY <2>3, <3>1, <3>2
  <2> QED BY <2>1, <2>2, <2>3
<1>3. /\ next.status = "VALID" /\ next.state = "CONFIRMED" /\ next.version = Image(a)
      /\ NoMeta.status # "VALID" /\ BadMeta.status # "VALID"
  BY DEF Record, NoMeta, BadMeta
<1>4. left.status = "VALID" => left = next
  BY <1>1, <1>2, <1>3
<1> HIDE DEF next
<1>5. \A o \in Slots : meta'[o] = IF o = a THEN left ELSE meta[o]
  BY <1>2 DEF Known, TypeOK
<1>6. \A o \in Slots : Image(o)' = Image(o)
  BY <1>1 DEF Image
<1>7. ASSUME NEW o \in Slots, o # a
      PROVE  (\A t : Has(o, t)' = Has(o, t)) /\ (Sure(o) => Sure(o)') /\ (Good(o) => Good(o)')
  BY <1>2, <1>5, <1>6, <1>7 DEF Has, Sure, Good
<1>8. /\ Has(a, "CONFIRMED")' => Sure(a)'
      /\ ~Has(a, "PENDING")' /\ ~Has(a, "VERIFIED")' /\ ~Has(a, "TRIAL")'
  BY <1>1, <1>2, <1>3, <1>4, <1>5, <1>6 DEF Has, Sure, Good
<1>9. \A o \in Slots : ~OnTrial(o)
  <2> SUFFICES ASSUME NEW o \in Slots, OnTrial(o) PROVE FALSE
    OBVIOUS
  <2>1. Sure(a)
    BY <1>1 DEF Known, Durable, Placed
  <2> QED BY <1>1, <2>1 DEF Sure, Good, Has
<1>10. \A o \in Slots : ~OnTrial(o)'
  BY <1>1, <1>7, <1>8, <1>9 DEF OnTrial, Has
<1>11. Bare' /\ Vetted' /\ Alone'
  <2>1. Bare'
    BY <1>1 DEF Bare, Live
  <2>2. Vetted'
    BY <1>1, <1>7, <1>8 DEF Known, Durable, Vetted
  <2>3. Alone'
    BY <1>1, Numbers DEF Alone
  <2> QED BY <2>1, <2>2, <2>3
<1>12. Placed' /\ Newer' /\ Asked'
  BY <1>10 DEF Placed, Newer, Asked, OnTrial
<1>13. Backed'
  <2> SUFFICES ASSUME Underway(journal)' PROVE Sure(a)' \/ FirstBoot'
    BY <1>1 DEF Backed, Sure, Good, Has, Image, FirstBoot
  <2>1. ~Sure(a)
    BY <1>1 DEF Sure, Good, Has
  <2>2. FirstBoot
    BY <1>1, <2>1 DEF Known, Durable, Backed, Underway
  <2>3. CASE left = next
    BY <1>1, <1>3, <1>5, <1>8, <2>3 DEF Has
  <2>4. CASE left # next
    <3>1. left.status # "VALID"
      BY <1>4, <2>4
    <3> QED BY <1>1, <1>5, <1>6, <2>2, <3>1 DEF FirstBoot, Image
  <2> QED BY <2>3, <2>4
<1>14. Safe
  <2>1. ~Good(a)
    BY <1>1 DEF Good, Has
  <2> QED BY <1>1, <1>7, <2>1 DEF Safe
<1> QED BY <1>11, <1>12, <1>13, <1>14 DEF Durable

(* The boot code keeps the durable half.                                   *)
LEMMA UpdateSaved ==
  ASSUME Known, NEW state \in Before \cup {PENDING_ACTIVATION},
         CanContinue /\ jr.state \in Before, UNCHANGED <<vouched, req>>,
         Saved(Update(state)) \/ SaveFails(Update(state))
  PROVE  Durable' /\ Safe
<1> DEFINE next == Update(state)
<1>1. /\ next.status = jr.status /\ next.state = state
      /\ next.active = jr.active /\ next.target = jr.target
  <2>1. state \in IDLE .. ABORTED
    BY Numbers
  <2> QED BY <2>1, UpdateFields DEF Known
<1> HIDE DEF next
<1>2. /\ UNCHANGED <<meta, flash>> /\ (journal' = journal \/ journal' = next)
  BY DEF Saved, SaveFails, next
<1>3. jr.status = "VALID" /\ Underway(jr) /\ jr.state # PENDING_ACTIVATION
  BY Numbers DEF CanContinue, Underway
<1>4. state \in PREPARING .. ABORTED
  BY Numbers DEF PREPARING, ABORTED
<1> QED BY <1>1, <1>2, <1>3, <1>4, DurableSave

LEMMA AbortSaved ==
  ASSUME Known, jr.status = "VALID" => Underway(jr), UNCHANGED <<vouched, req>>,
         Saved(Aborted) \/ SaveFails(Aborted)
  PROVE  Durable' /\ Safe
<1>1. /\ Aborted.status = jr.status /\ Aborted.state = ABORTED
      /\ Aborted.active = jr.active /\ Aborted.target = jr.target
  BY DEF Aborted, Update, Known, TypeOK, Journals
<1>2. UNCHANGED <<meta, flash>> /\ (journal' = journal \/ (journal' = Aborted /\ CanContinue))
  BY DEF Saved, SaveFails
<1>3. ABORTED \in PREPARING .. ABORTED /\ ~Underway(Aborted)
  BY <1>1, Numbers DEF Underway, PREPARING
<1> QED BY <1>1, <1>2, <1>3, DurableSave DEF CanContinue

LEMMA HandingOverFacts ==
  ASSUME Known, pc \in {"install", "pend", "handoff"}
  PROVE  /\ journal = jr /\ Underway(journal) /\ jr.target \in Slots /\ jr.active # jr.target
         /\ journal.active \in Slots => Has(journal.active, "CONFIRMED")
<1>1. journal = jr /\ jr.status = "VALID" /\ jr.target \in Slots /\ jr.active # jr.target
  BY DEF Known, HandoverInv, Synced, Paired, Holds, HandingOver
<1>2. jr.state = PENDING_ACTIVATION /\ (jr.active \in Slots => Has(jr.active, "CONFIRMED"))
  BY DEF Known, Volatile, Ready, Pending
<1> QED BY <1>1, <1>2, Numbers DEF Underway

(* A started image on trial was handed over.                               *)
LEMMA StartsHandedOver ==
  ASSUME Known, pc \in {"jump", "launch", "app"}, Has(running, "PENDING") \/ Has(running, "TRIAL")
  PROVE  LetGo(journal) /\ running \in Slots
<1>1. running \in Slots
  BY DEF Known, Located
<1>2. running = journal.target
  BY <1>1 DEF Known, Durable, Placed, OnTrial
<1>3. CanContinue /\ jr.state \in {IDLE, ABORTED} /\ JournalPermits(running)
  BY DEF Known, Volatile, Settled, Running
<1>4. journal = jr /\ jr.active # jr.target
  BY <1>3 DEF Known, HandoverInv, Synced, Paired, CanContinue
<1>5. jr.state = IDLE
  BY <1>2, <1>3, <1>4, Numbers DEF JournalPermits, SlotAllowed
<1> QED BY <1>1, <1>3, <1>4, <1>5 DEF LetGo, CanContinue

LEMMA BootDurable ==
  ASSUME Known, Boot
  PROVE  Durable' /\ Safe
<1>1. CASE Recover
  BY <1>1, DurableKept DEF Known, Recover, history
<1>2. CASE AbortUpdate
  BY <1>2, AbortSaved DEF AbortUpdate, Known, Volatile, Saving, history
<1>3. CASE RecoverVerifying
  <2>1. CanContinue /\ jr.state \in Before /\ VERIFYING \in Before
    BY <1>3 DEF RecoverVerifying, Known, Volatile, Saving, Before, PREPARING, VERIFIED, VERIFYING
  <2>2. Saved(Update(VERIFYING)) \/ SaveFails(Update(VERIFYING))
    BY <1>3 DEF RecoverVerifying
  <2> QED BY <1>3, <2>1, <2>2, UpdateSaved DEF RecoverVerifying, history
<1>4. CASE Publish
  <2>1. journal = jr /\ Underway(journal)
    BY <1>4 DEF Publish, Known, Volatile, Saving, HandoverInv, Synced, CanContinue
  <2>2. \A s \in Slots : s # journal.target => flash'[s] = flash[s]
    BY <1>4, <2>1 DEF Publish, Known, TypeOK
  <2> QED BY <1>4, <2>1, <2>2, DurableFlash DEF Publish, history
<1>5. CASE MarkVerified
  <2> DEFINE state == IF jr.state = VERIFYING THEN VERIFIED ELSE PENDING_ACTIVATION
  <2>1. CanContinue /\ jr.state \in Before
    BY <1>5 DEF MarkVerified, Known, Volatile, Saving
  <2>2. Saved(Update(state)) \/ SaveFails(Update(state))
    BY <1>5 DEF MarkVerified
  <2>3. state \in Before \cup {PENDING_ACTIVATION}
    BY DEF Before, PREPARING, VERIFIED
  <2> HIDE DEF state
  <2> QED BY <1>5, <2>1, <2>2, <2>3, UpdateSaved DEF MarkVerified, history
<1>6. CASE Reconcile
  BY <1>6, DurableKept DEF Known, Reconcile, history
<1>7. CASE InitializeConfirmed
  BY <1>7, DurableInitialize
<1>8. CASE InstallVerified
  <2> DEFINE next == Record("VERIFIED", Image(jr.target), jr.txn, 0)
  <2>1. pc = "install" /\ UNCHANGED <<journal, flash, vouched, req>>
    BY <1>8 DEF InstallVerified, Committed, CommitFails, history
  <2>2. next.state = "VERIFIED" /\ NoMeta.status # "VALID" /\ BadMeta.status # "VALID"
    BY DEF Record, NoMeta, BadMeta
  <2>3. Committed(jr.target, next) \/ CommitFails(jr.target, next)
    BY <1>8 DEF InstallVerified
  <2> HIDE DEF next
  <2>4. PICK left \in {meta[jr.target], next, NoMeta, BadMeta} :
          meta' = [meta EXCEPT ![jr.target] = left]
    BY <2>3 DEF Committed, CommitFails
  <2>5. \A s \in Slots : meta'[s] = IF s = jr.target THEN left ELSE meta[s]
    BY <2>4 DEF Known, TypeOK
  <2> QED BY <2>1, <2>2, <2>4, <2>5, HandingOverFacts, DurableInstall
<1>9. CASE SetPending
  <2> DEFINE next == [meta[jr.target] EXCEPT !.state = "PENDING"]
  <2>1. pc = "pend" /\ UNCHANGED <<journal, flash, vouched, req>>
    BY <1>9 DEF SetPending, Committed, CommitFails
  <2>2. next.state = "PENDING" /\ NoMeta.status # "VALID" /\ BadMeta.status # "VALID"
    <3>1. meta[jr.target] \in Metas
      BY <2>1, HandingOverFacts DEF Known, TypeOK
    <3> QED BY <3>1 DEF NoMeta, BadMeta, Metas
  <2>3. Committed(jr.target, next) \/ CommitFails(jr.target, next)
    BY <1>9 DEF SetPending
  <2> HIDE DEF next
  <2>4. PICK left \in {meta[jr.target], next, NoMeta, BadMeta} :
          meta' = [meta EXCEPT ![jr.target] = left]
    BY <2>3 DEF Committed, CommitFails
  <2>5. \A s \in Slots : meta'[s] = IF s = jr.target THEN left ELSE meta[s]
    BY <2>4 DEF Known, TypeOK
  <2> QED BY <2>1, <2>2, <2>4, <2>5, HandingOverFacts, DurableInstall
<1>10. CASE CompleteHandoff
  BY <1>10, DurableHandoff
<1>11. CASE \E s \in Slots : ResolveExhausted(s)
  <2>1. PICK s \in Slots : ResolveExhausted(s)
    BY <1>11
  <2> DEFINE next == [meta[s] EXCEPT !.state = "INVALID"]
  <2>2. /\ Has(s, "TRIAL") /\ meta[s] \in Metas
        /\ Committed(s, next) \/ CommitFails(s, next)
        /\ UNCHANGED <<vouched, req>>
    BY <2>1 DEF ResolveExhausted, Exhausted, history, Known, TypeOK
  <2>3. next.status = "VALID" /\ next.version = meta[s].version /\ next.state = "INVALID"
    BY <2>2 DEF Has, Metas
  <2> HIDE DEF next
  <2>4. UNCHANGED <<journal, flash>> /\ meta' \in {meta, [meta EXCEPT ![s] = next]}
    BY <2>2 DEF Committed, CommitFails, Has, Known, TypeOK
  <2>5. LetGo(journal)
    BY <2>2 DEF Known, Durable, Asked
  <2> QED BY <2>2, <2>3, <2>4, <2>5, DurableTrial
<1>12. CASE EndLifecycle
  BY <1>12, DurableKept DEF Known, EndLifecycle, history
<1>13. CASE CheckConfirm
  <2> DEFINE s == req.slot
             next == [meta[req.slot] EXCEPT !.state = "CONFIRMED", !.attempts = 0]
  <2>1. /\ req.kind = "confirm" /\ s \in Slots /\ meta[s] \in Metas
        /\ UNCHANGED vouched /\ req' = NoRequest
    BY <1>13 DEF CheckConfirm, Requested, history, Known, TypeOK
  <2>2. CASE UNCHANGED durable
    BY <2>1, <2>2, DurableKept DEF Known
  <2>3. CASE Confirmable(s) /\ (Committed(s, next) \/ CommitFails(s, next))
    <3>1. Has(s, "TRIAL") /\ LetGo(journal) /\ s \in vouched
      BY <2>1, <2>3 DEF Confirmable, Known, Durable, Asked
    <3>2. next.status = "VALID" /\ next.version = meta[s].version /\ next.state = "CONFIRMED"
      BY <2>1, <3>1 DEF Has, Metas
    <3> HIDE DEF next
    <3>3. UNCHANGED <<journal, flash>> /\ meta' \in {meta, [meta EXCEPT ![s] = next]}
      BY <2>1, <2>3, <3>1 DEF Committed, CommitFails, Has, Known, TypeOK
    <3> QED BY <2>1, <3>1, <3>2, <3>3, DurableTrial
  <2> QED BY <1>13, <2>2, <2>3 DEF CheckConfirm
<1>14. CASE CheckRequest
  BY <1>14, DurableKept DEF Known, CheckRequest, history
<1>15. CASE CheckApp
  BY <1>15, DurableKept DEF Known, CheckApp, history
<1>16. CASE Normalize
  BY <1>16, DurableKept DEF Known, Normalize, Reset, history
<1>17. CASE PrepareBoot
  <2> DEFINE m == meta[running]
             next == Attempt(meta[running])
  <2>1. /\ pc = "jump" /\ running \in Slots /\ m \in Metas
        /\ UNCHANGED <<vouched, req>> /\ req.kind = "none"
    BY <1>17 DEF PrepareBoot, Located, history, Known, TypeOK, Volatile, Running
  <2>2. CASE UNCHANGED durable
    BY <2>1, <2>2, DurableKept DEF Known
  <2>3. CASE Priority(running) # 0 /\ (Committed(running, next) \/ CommitFails(running, next))
    <3>1. m.status = "VALID"
      BY <2>3 DEF Priority, Has
    <3>2. next.status = "VALID" /\ next.version = m.version
      BY <2>1, <3>1 DEF Attempt, Metas
    <3>3. CASE Has(running, "PENDING") \/ Has(running, "TRIAL")
      <4>1. next.state = "TRIAL"
        BY <2>1, <3>3 DEF Attempt, Metas, Has
      <4> HIDE DEF next
      <4>2. UNCHANGED <<journal, flash>> /\ meta' \in {meta, [meta EXCEPT ![running] = next]}
        BY <2>1, <2>3, <3>1 DEF Committed, CommitFails, Known, TypeOK
      <4> QED BY <2>1, <3>2, <3>3, <4>1, <4>2, StartsHandedOver, DurableTrial
    <3>4. CASE ~Has(running, "PENDING") /\ ~Has(running, "TRIAL")
      <4>1. next = m
        BY <3>1, <3>4 DEF Attempt, Has
      <4> HIDE DEF next
      <4>2. UNCHANGED durable
        BY <2>1, <2>3, <3>1, <4>1 DEF Committed, CommitFails, Known, TypeOK, durable
      <4> QED BY <2>2, <4>2
    <3> QED BY <3>3, <3>4
  <2> QED BY <1>17, <2>2, <2>3 DEF PrepareBoot
<1>18. CASE Launch
  BY <1>18, DurableKept DEF Known, Launch
<1> QED
  BY <1>1, <1>2, <1>3, <1>4, <1>5, <1>6, <1>7, <1>8, <1>9, <1>10, <1>11, <1>12, <1>13, <1>14,
     <1>15, <1>16, <1>17, <1>18 DEF Boot

(* So does the application.                                                *)
LEMMA DurableRequest ==
  ASSUME Durable, UNCHANGED durable, vouched \subseteq vouched',
         \A s \in Slots : Has(s, "TRIAL") =>
           /\ req'.kind # "none" => req'.slot = s
           /\ req'.kind = "confirm" => s \in vouched'
  PROVE  Durable' /\ Safe
<1>1. UNCHANGED <<journal, meta, flash>>
  BY DEF durable
<1>2. \A s \in Slots : \A t : Has(s, t)' = Has(s, t)
  BY <1>1 DEF Has
<1>3. \A s \in Slots : /\ Image(s)' = Image(s) /\ OnTrial(s)' = OnTrial(s)
                       /\ Good(s) => Good(s)'
                       /\ Sure(s) => Sure(s)'
  BY <1>1, <1>2 DEF Image, OnTrial, Good, Sure
<1>4. Bare' /\ Vetted' /\ Alone'
  BY <1>1, <1>2, <1>3 DEF Durable, Bare, Vetted, Alone, Live, Has
<1>5. Placed' /\ Backed'
  BY <1>1, <1>3
  DEF Durable, Placed, Backed, Underway, FirstBoot, OnTrial, Sure, Good, Has, Image
<1>6. Newer' /\ Asked'
  BY <1>1, <1>2, <1>3 DEF Durable, Newer, Asked, LetGo, Ahead, Image
<1>7. Safe
  BY <1>1, <1>3 DEF Safe
<1> QED BY <1>4, <1>5, <1>6, <1>7 DEF Durable

LEMMA ApplicationDurable ==
  ASSUME Known, Application
  PROVE  Durable' /\ Safe
<1>1. \A s \in Slots : pc = "app" /\ Has(s, "TRIAL") => running = s
  BY DEF Known, Volatile, Running
<1>2. CASE AppConfirm
  BY <1>1, <1>2, DurableRequest DEF AppConfirm, Known
<1>3. CASE AppRequestProgramming
  BY <1>1, <1>3, DurableRequest DEF AppRequestProgramming, Reset, history, Known
<1>4. CASE AppCrash
  BY <1>4, DurableKept DEF AppCrash, Reset, history, Known
<1> QED BY <1>2, <1>3, <1>4 DEF Application

LEMMA EnvironmentDurable ==
  ASSUME Known, Environment, MayRot = FALSE
  PROVE  Durable' /\ Safe
<1>1. CASE HardwareReset
  BY <1>1, DurableKept DEF HardwareReset, Reset, history, Known
<1>2. CASE \E s \in Slots : Rot(s)
  BY <1>2 DEF Rot
<1> QED BY <1>1, <1>2 DEF Environment

(* The programming server writes to the target of the open update only.    *)
LEMMA SessionTarget ==
  ASSUME Known, mode = "prog", ~lfault, CanContinue, jr.state \in Before
  PROVE  journal = jr /\ Underway(journal) /\ Target = journal.target /\ Target \in Slots
         /\ active.slot = jr.active
<1>1. journal = jr /\ Underway(jr)
  BY Numbers DEF Known, HandoverInv, Synced, CanContinue, Underway
<1>2. active.slot = jr.active /\ Target = jr.target
  BY <1>1 DEF Known, Volatile, Session
<1> QED BY <1>1, <1>2, TargetType DEF Known

LEMMA ProgrammingDurable ==
  ASSUME Known, Programming
  PROVE  Durable' /\ Safe
<1>0. /\ ERASING \in Before /\ DOWNLOAD_READY \in Before /\ PROGRAMMING \in Before
      /\ VERIFYING \in Before
  BY DEF Before, PREPARING, ERASING, DOWNLOAD_READY, PROGRAMMING, VERIFYING, VERIFIED
<1>1. CASE AbortDownload
  <2>1. CASE jr.status = "VALID" /\ jr.state \in Before
    <3>1. Underway(jr)
      BY <2>1, Numbers DEF Underway
    <3>2. UNCHANGED <<vouched, req>> /\ (Saved(Aborted) \/ SaveFails(Aborted))
      BY <1>1, <2>1 DEF AbortDownload, Before, history
    <3> QED BY <3>1, <3>2, AbortSaved
  <2>2. CASE ~(jr.status = "VALID" /\ jr.state \in Before)
    BY <1>1, <2>2, DurableKept DEF AbortDownload, Before, history, Known
  <2> QED BY <2>1, <2>2
<1>2. CASE EraseRequest
  BY <1>2, DurableStart
<1>3. CASE StartErasing
  <2>1. CanContinue /\ jr.state \in Before /\ UNCHANGED <<vouched, req>>
    BY <1>3 DEF StartErasing, Known, Volatile, Saving, history
  <2> QED BY <1>0, <1>3, <2>1, UpdateSaved DEF StartErasing
<1>4. CASE Wipe
  <2>1. mode = "prog" /\ ~lfault /\ CanContinue /\ jr.state \in Before
    BY <1>4 DEF Wipe, Known, Volatile, InMode, Saving, Session
  <2>2. flash' \in {flash, [flash EXCEPT ![Target] = Whole(0)]}
    BY <1>4 DEF Wipe
  <2>3. \A s \in Slots : s # journal.target => flash'[s] = flash[s]
    BY <2>1, <2>2, SessionTarget DEF Known, TypeOK
  <2> QED BY <1>4, <2>1, <2>3, SessionTarget, DurableFlash DEF Wipe
<1>5. CASE EraseDone
  <2>1. CanContinue /\ jr.state \in Before /\ UNCHANGED <<vouched, req>>
    BY <1>5 DEF EraseDone, Known, Volatile, Saving, history
  <2> QED BY <1>0, <1>5, <2>1, UpdateSaved DEF EraseDone
<1>6. CASE Download
  <2>1. CanContinue /\ jr.state \in Before /\ UNCHANGED <<vouched, req>>
    BY <1>6 DEF Download, Known, Volatile, Session, history
  <2> QED BY <1>0, <1>6, <2>1, UpdateSaved DEF Download
<1>7. CASE \E v \in Versions, whole \in BOOLEAN : Transfer(v, whole)
  <2>1. PICK v \in Versions, whole \in BOOLEAN : Transfer(v, whole)
    BY <1>7
  <2>2. mode = "prog" /\ ~lfault /\ CanContinue /\ jr.state \in Before
    BY <2>1 DEF Transfer, Known, Volatile, InMode, Session
  <2>3. \A s \in Slots : s # journal.target => flash'[s] = flash[s]
    BY <2>1, <2>2, SessionTarget DEF Transfer, Known, TypeOK
  <2> QED BY <2>1, <2>2, <2>3, SessionTarget, DurableFlash DEF Transfer, history
<1>8. CASE TransferExit
  <2> DEFINE next == [Update(TRANSFER_COMPLETE) EXCEPT !.header = staged]
  <2>1. /\ CanContinue /\ jr.state \in Before /\ UNCHANGED <<vouched, req>>
        /\ Saved(next) \/ SaveFails(next)
    BY <1>8 DEF TransferExit, Known, Volatile, Session, history
  <2>2. /\ next.status = jr.status /\ next.state = TRANSFER_COMPLETE
        /\ next.active = jr.active /\ next.target = jr.target
    BY DEF Update, Known, TypeOK, Journals
  <2>3. TRANSFER_COMPLETE \in PREPARING .. ABORTED /\ jr.status = "VALID"
        /\ Underway(jr) /\ jr.state # PENDING_ACTIVATION
    BY <2>1, Numbers DEF TRANSFER_COMPLETE, PREPARING, ABORTED, CanContinue, Underway
  <2> HIDE DEF next
  <2>4. UNCHANGED <<meta, flash>> /\ (journal' = journal \/ journal' = next)
    BY <2>1 DEF Saved, SaveFails
  <2> QED BY <2>1, <2>2, <2>3, <2>4, DurableSave
<1>9. CASE VerifyRequest
  <2>1. CanContinue /\ jr.state \in Before /\ UNCHANGED <<vouched, req>>
    BY <1>9, Numbers
    DEF VerifyRequest, TransitionAllowed, Before, VERIFYING, PREPARING, history
  <2> QED BY <1>0, <1>9, <2>1, UpdateSaved DEF VerifyRequest
<1>10. CASE VerifyImage
  BY <1>10, DurableKept DEF VerifyImage, history, Known
<1>11. CASE PublishHeader
  <2>1. mode = "prog" /\ ~lfault /\ CanContinue /\ jr.state \in Before
    BY <1>11 DEF PublishHeader, Known, Volatile, InMode, Saving, Session
  <2>2. flash' \in {flash, [flash EXCEPT ![Target].header = staged]}
    BY <1>11 DEF PublishHeader
  <2>3. \A s \in Slots : s # journal.target => flash'[s] = flash[s]
    BY <2>1, <2>2, SessionTarget DEF Known, TypeOK
  <2> QED BY <1>11, <2>1, <2>3, SessionTarget, DurableFlash DEF PublishHeader, history
<1>12. CASE ResetRequest
  BY <1>12, DurableKept DEF ResetRequest, Reset, history, Known
<1>13. CASE \E a \in Slots \cup {UNKNOWN} : Commission(a)
  BY <1>13, DurableCommission
<1>14. CASE Refresh
  BY <1>14, DurableKept DEF Refresh, history, Known
<1> QED
  BY <1>1, <1>2, <1>3, <1>4, <1>5, <1>6, <1>7, <1>8, <1>9, <1>10, <1>11, <1>12, <1>13, <1>14
  DEF Programming

LEMMA DurableStep ==
  ASSUME Known, [Next]_vars, MayRot = FALSE
  PROVE  Durable' /\ Safe
<1>1. CASE UNCHANGED vars
  BY <1>1, DurableKept DEF vars, history, Known
<1> QED BY <1>1, BootDurable, ApplicationDurable, ProgrammingDurable, EnvironmentDurable DEF Next

-----------------------------------------------------------------------------
(* THE VOLATILE HALF, STEP BY STEP.                                        *)

(* What a step may leave the program at.                                   *)
LEMMA AtProg ==
  ASSUME pc' = "prog", mode' = "prog", Loaded', Session'
  PROVE  Volatile'
BY DEF Volatile, InMode, Saving, Settled, Ready, Running

LEMMA AtBoot ==
  ASSUME pc' \in {"check", "select", "error"}, mode' = "boot", ctx' = "none", Loaded',
         pc' # "error" /\ ~lfault' => CanContinue' /\ jr'.state \in {IDLE, ABORTED},
         pc' = "select" /\ sw' => req'.kind = "none"
  PROVE  Volatile'
<1>1. InMode' /\ Saving' /\ Settled' /\ Ready' /\ Running'
  BY DEF InMode, Saving, Settled, Ready, Running
<1>2. Session'
  BY DEF Session
<1> QED BY <1>1, <1>2 DEF Volatile

LEMMA AtReset ==
  ASSUME pc' = "recover", ClearRam
  PROVE  Volatile'
<1>1. mode' = "boot" /\ jr'.status # "VALID" /\ ~jfault' /\ ctx' = "none"
  BY DEF ClearRam, NoJournal
<1>2. InMode' /\ Loaded' /\ Saving' /\ Settled' /\ Ready' /\ Running'
  BY <1>1 DEF InMode, Loaded, Saving, Settled, Ready, Running
<1>3. Session'
  BY <1>1 DEF Session
<1> QED BY <1>2, <1>3 DEF Volatile

(* What a commit of the journal leaves in RAM.                             *)
LEMMA SaveOutcome ==
  ASSUME NEW next, next.status = "VALID", Loaded
  PROVE  /\ Saved(next) => /\ CanContinue' /\ jr' = next /\ journal' = next /\ Loaded'
                           /\ UNCHANGED <<meta, flash, jfault>>
         /\ SaveFails(next) => /\ CanContinue => jfault'
                               /\ jr' = jr /\ Loaded'
                               /\ UNCHANGED <<meta, flash>>
BY DEF Saved, SaveFails, CanContinue, Loaded, Live

LEMMA UpdateOutcome ==
  ASSUME Known, CanContinue, NEW state \in IDLE .. ABORTED
  PROVE  /\ Saved(Update(state)) =>
              /\ CanContinue' /\ jr'.status = "VALID" /\ jr'.state = state
              /\ jr'.active = jr.active /\ jr'.target = jr.target /\ Loaded'
              /\ UNCHANGED <<meta, flash>>
         /\ SaveFails(Update(state)) =>
              jfault' /\ jr' = jr /\ Loaded' /\ UNCHANGED <<meta, flash>>
<1> DEFINE next == Update(state)
<1>1. /\ next.status = "VALID" /\ next.state = state
      /\ next.active = jr.active /\ next.target = jr.target
  BY UpdateFields DEF Known, CanContinue
<1> HIDE DEF next
<1> QED BY <1>1, SaveOutcome DEF Known, Volatile, next

LEMMA AbortedOutcome ==
  ASSUME Known, jr.status = "VALID", Saved(Aborted) \/ SaveFails(Aborted)
  PROVE  /\ jr'.status = "VALID" /\ Loaded' /\ UNCHANGED <<meta, flash>>
         /\ \/ CanContinue' /\ jr'.state = ABORTED
            \/ jr' = jr /\ (CanContinue => jfault')
<1>1. Aborted.status = "VALID" /\ Aborted.state = ABORTED
  BY DEF Aborted, Update, Known, TypeOK, Journals
<1> QED BY <1>1, SaveOutcome DEF Known, Volatile, CanContinue

LEMMA Kept ==
  ASSUME UNCHANGED <<jr, meta, flash>>
  PROVE  /\ \A s \in Slots : \A t : Has(s, t)' = Has(s, t)
         /\ \A s : Image(s)' = Image(s)
         /\ Ahead(jr)' = Ahead(jr)
         /\ Pending' = Pending
<1>1. \A s \in Slots : \A t : Has(s, t)' = Has(s, t)
  BY DEF Has
<1>2. \A s : Image(s)' = Image(s)
  BY DEF Image
<1>3. Ahead(jr)' = Ahead(jr)
  BY DEF Ahead, Image
<1>4. Pending' = Pending
  BY DEF Pending
<1> QED BY <1>1, <1>2, <1>3, <1>4

(* Whatever is selected may run.                                           *)
LEMMA SelectFacts ==
  ASSUME SelectBootTarget # UNKNOWN
  PROVE  /\ SelectBootTarget \in Slots /\ ~lfault
         /\ JournalPermits(SelectBootTarget) /\ Image(SelectBootTarget) # 0
<1> DEFINE s == SelectBootTarget
<1>1. ~lfault /\ s \in Best(Info)
  BY DEF SelectBootTarget, Select, Best, Slots, UNKNOWN
<1>2. s \in Slots /\ Info[s] # 0
  BY <1>1 DEF Best
<1> HIDE DEF s
<1>3. JournalPermits(s) /\ Image(s) # 0
  BY <1>2 DEF Info
<1> QED BY <1>1, <1>2, <1>3 DEF s

(* A slot on trial is selected, and protected from the next update.        *)
LEMMA TrialSelected ==
  ASSUME Known, pc \in {"check", "select"}, ~lfault, NEW s \in Slots, Has(s, "TRIAL")
  PROVE  SelectBootTarget = s /\ Captured(Requested("program")).slot = s
<1>1. /\ CanContinue /\ jr.status = "VALID" /\ jr.state = IDLE
  <2>1. CanContinue /\ LetGo(journal)
    BY DEF Known, Volatile, Settled, Durable, Asked
  <2> QED BY <2>1 DEF Known, HandoverInv, Synced, CanContinue, LetGo
<1>2. \A o \in Slots : JournalPermits(o)
  BY <1>1 DEF JournalPermits, SlotAllowed
<1>3. s = journal.target /\ Image(s) # 0
  BY DEF Known, Durable, Placed, Newer, Asked, OnTrial, Ahead
<1>4. Priority(s) = 3 /\ \A o \in Slots : o # s => Priority(o) \in {0, 1}
  BY <1>3 DEF Priority, Known, Durable, Placed, OnTrial
<1>5. Info[s] # 0
  BY <1>2, <1>3, <1>4 DEF Info, LifecyclePermits
<1>6. Best(Info) = {s}
  <2> HIDE DEF Info
  <2> QED BY <1>4, <1>5 DEF Best
<1>7. SelectBootTarget = s
  BY <1>6, Numbers DEF SelectBootTarget, Select
<1>8. Requested("program") => req.slot = s
  BY DEF Known, Durable, Asked, Requested
<1>9. s # UNKNOWN
  BY Numbers
<1>10. Captured(Requested("program")).slot = s
  <2> HIDE DEF Info, SelectBootTarget
  <2> QED BY <1>5, <1>7, <1>8, <1>9 DEF Captured
<1> QED BY <1>7, <1>10

(* No image is on trial while the journal holds an update or an abort.     *)
LEMMA NoTrial ==
  ASSUME Known, CanContinue, jr.state # IDLE
  PROVE  \A s \in Slots : ~Has(s, "TRIAL")
BY DEF Known, Durable, Asked, LetGo, HandoverInv, Synced, CanContinue

-----------------------------------------------------------------------------
(* The boot code keeps the volatile half: recovery of the journal ...      *)
LEMMA RecoveryVolatile ==
  ASSUME Known, Recover \/ AbortUpdate \/ RecoverVerifying \/ Publish \/ MarkVerified
  PROVE  Volatile'
<1>0. PREPARING .. PROGRAMMING = 1 .. 4 /\ TRANSFER_COMPLETE = 5
  BY DEF PREPARING, PROGRAMMING, TRANSFER_COMPLETE
<1>1. CASE Recover
  <2>1. /\ mode' = "boot" /\ ctx' = "none" /\ ~jfault' /\ mode = "boot"
        /\ jr' = IF journal.status = "VALID" THEN journal ELSE NoJournal
        /\ journal' = journal
    BY <1>1 DEF Recover, Known, Volatile, InMode, Saving, Session, durable
  <2>2. NoJournal.status # "VALID"
    BY DEF NoJournal
  <2>3. /\ pc' \in {"lifecycle", "abort", "verifying", "publish"}
        /\ pc' = "lifecycle" /\ Live => journal.state \in {IDLE, ABORTED}
        /\ pc' # "lifecycle" => Live
        /\ pc' = "abort" => journal.state \in 1 .. 4
        /\ pc' = "verifying" => journal.state = 5
        /\ pc' = "publish" => journal.state \in 6 .. 8
    <3>1. journal.state \in 0 .. 9
      BY Numbers DEF Known, TypeOK, Journals
    <3>2. CASE ~Live
      <4>1. pc' = "lifecycle"
        BY <1>1, <3>2 DEF Recover, Live
      <4> QED BY <3>2, <4>1
    <3>3. CASE Live /\ journal.state \in {0, 9}
      <4>1. pc' = "lifecycle"
        BY <1>1, <3>3, Numbers DEF Recover, Live
      <4> QED BY <3>3, <4>1, Numbers
    <3>4. CASE Live /\ journal.state \in 1 .. 4
      <4>1. pc' = "abort"
        BY <1>0, <1>1, <3>4, Numbers DEF Recover, Live
      <4> QED BY <3>4, <4>1
    <3>5. CASE Live /\ journal.state = 5
      <4>1. pc' = "verifying"
        BY <1>0, <1>1, <3>5, Numbers DEF Recover, Live
      <4> QED BY <3>5, <4>1
    <3>6. CASE Live /\ journal.state \in 6 .. 8
      <4>1. pc' = "publish"
        BY <1>0, <1>1, <3>6, Numbers DEF Recover, Live
      <4> QED BY <3>6, <4>1
    <3> QED BY <3>1, <3>2, <3>3, <3>4, <3>5, <3>6
  <2>4. Loaded'
    BY <2>1, <2>2 DEF Loaded, Live
  <2>5. Saving'
    BY <2>1, <2>3, Numbers DEF Saving, CanContinue, Underway, Live
  <2>6. Settled' /\ Ready'
    BY <2>1, <2>2, <2>3, Numbers DEF Settled, Ready, CanContinue, Live, Pending
  <2>7. InMode' /\ Session' /\ Running'
    BY <2>1, <2>3 DEF InMode, Session, Running
  <2> QED BY <2>4, <2>5, <2>6, <2>7 DEF Volatile
<1>2. CASE AbortUpdate
  <2>1. /\ CanContinue /\ Underway(jr) /\ jr.status = "VALID" /\ (Saved(Aborted) \/ SaveFails(Aborted))
        /\ UNCHANGED <<mode, lfault, active, ctx>>
        /\ pc' = IF mode = "boot" THEN "lifecycle" ELSE "prog"
    BY <1>2 DEF AbortUpdate, Known, Volatile, Saving, CanContinue
  <2>2. /\ jr'.status = "VALID" /\ Loaded' /\ UNCHANGED <<meta, flash>>
        /\ \/ CanContinue' /\ jr'.state = ABORTED
           \/ jr' = jr /\ jfault'
    BY <2>1, AbortedOutcome
  <2>3. ~Underway(jr)' \/ jr' = jr
    BY <2>2, Numbers DEF Underway
  <2>4. CASE mode = "boot"
    <3>1. ctx' = "none" /\ mode' = "boot" /\ pc' = "lifecycle"
      BY <2>1, <2>4 DEF Known, Volatile, Session
    <3>2. CanContinue' => jr'.state = ABORTED
      BY <2>2 DEF CanContinue
    <3>3. InMode' /\ Saving' /\ Running' /\ Session'
      BY <3>1 DEF InMode, Saving, Running, Session
    <3>4. Settled' /\ Ready'
      BY <3>1, <3>2, Numbers DEF Settled, Ready, Pending
    <3> QED BY <2>2, <3>3, <3>4 DEF Volatile
  <2>5. CASE mode = "prog"
    <3>1. pc = "abort" /\ pc' = "prog" /\ mode' = "prog"
      BY <1>2, <2>1, <2>5 DEF AbortUpdate
    <3>2. \A s \in Slots : \A t : Has(s, t)' = Has(s, t)
      BY <2>2 DEF Has
    <3>3. Session'
      BY <2>1, <2>2, <2>3, <2>5, <3>1, <3>2 DEF Session, Known, Volatile, Target, Underway
    <3> QED BY <2>2, <3>1, <3>3, AtProg
  <2> QED BY <2>4, <2>5 DEF Known, TypeOK
<1>3. CASE RecoverVerifying
  <2>1. /\ CanContinue /\ mode = "boot" /\ ctx = "none" /\ UNCHANGED <<mode, ctx>>
    BY <1>3 DEF RecoverVerifying, Known, Volatile, InMode, Session, Saving
  <2>2. VERIFYING \in IDLE .. ABORTED /\ VERIFYING \in 1 .. 8
    BY Numbers DEF VERIFYING
  <2>3. CASE Saved(Update(VERIFYING)) /\ pc' = "publish"
    <3>1. Loaded' /\ CanContinue' /\ Underway(jr)'
      BY <2>1, <2>2, <2>3, UpdateOutcome, Numbers DEF Underway
    <3>2. InMode' /\ Saving' /\ Settled' /\ Ready' /\ Running'
      BY <2>1, <2>3, <3>1 DEF InMode, Saving, Settled, Ready, Running
    <3>3. Session'
      BY <2>1, <2>3 DEF Session
    <3> QED BY <3>1, <3>2, <3>3 DEF Volatile
  <2>4. CASE SaveFails(Update(VERIFYING)) /\ pc' = "lifecycle"
    <3>1. Loaded' /\ ~CanContinue'
      BY <2>1, <2>2, <2>4, UpdateOutcome DEF CanContinue
    <3>2. InMode' /\ Saving' /\ Settled' /\ Ready' /\ Running'
      BY <2>1, <2>4, <3>1 DEF InMode, Saving, Settled, Ready, Running
    <3>3. Session'
      BY <2>1, <2>4 DEF Session
    <3> QED BY <3>1, <3>2, <3>3 DEF Volatile
  <2> QED BY <1>3, <2>3, <2>4 DEF RecoverVerifying
<1>4. CASE Publish
  <2>1. /\ CanContinue /\ Underway(jr) /\ journal = jr /\ jr.active # jr.target
        /\ mode = "boot" /\ ctx = "none" /\ UNCHANGED <<mode, ctx, jr, jfault, journal, meta>>
    BY <1>4 DEF Publish, Known, Volatile, InMode, Session, Saving, HandoverInv, Synced, Paired,
                CanContinue
  <2>2. InMode' /\ Loaded' /\ Settled' /\ Running' /\ CanContinue' /\ Underway(jr)'
    <3>1. CanContinue' /\ Underway(jr)'
      BY <2>1 DEF CanContinue, Underway
    <3>2. pc' \in {"lifecycle", "mark", "abort"} /\ (pc' = "lifecycle" => Pending)
      BY <1>4 DEF Publish, Published, Pending
    <3>3. Loaded'
      BY <2>1 DEF Loaded, Live, Known, Volatile
    <3> QED BY <2>1, <3>1, <3>2, <3>3 DEF InMode, Settled, Running, Pending
  <2>3. Session'
    BY <2>1 DEF Session
  <2>4. CASE pc' = "abort"
    BY <2>2, <2>3, <2>4 DEF Saving, Ready, Volatile
  <2>5. CASE pc' # "abort"
    <3>1. /\ Publishable(jr.active, jr.target, jr.header)
          /\ flash' = [flash EXCEPT ![jr.target].header = jr.header]
          /\ IF jr.state = PENDING_ACTIVATION THEN pc' = "lifecycle" ELSE pc' = "mark"
      BY <1>4, <2>5 DEF Publish, Published
    <3>2. Image(jr.target)' = jr.header /\ jr.header # 0 /\ jr.target \in Slots
      BY <2>1, <3>1 DEF Publishable, Image, Known, TypeOK
    <3>3. ASSUME jr.active \in Slots
          PROVE  Image(jr.active)' # 0 /\ jr.header > Image(jr.active)'
      <4>1. Image(jr.active)' = Image(jr.active)
        BY <2>1, <3>1, <3>3 DEF Image, Known, TypeOK
      <4>2. Image(jr.active) # 0
        BY <2>1, <3>3 DEF Known, Durable, Backed, Sure, Good, FirstBoot
      <4> QED BY <3>1, <3>3, <4>1, <4>2 DEF Publishable
    <3>4. Ahead(jr)'
      BY <2>1, <3>2, <3>3 DEF Ahead, Image
    <3>5. pc' = "mark" => jr'.state \in Before
      BY <2>1, <3>1, Numbers DEF Underway
    <3>6. Saving' /\ Ready'
      BY <2>2, <3>1, <3>4, <3>5 DEF Saving, Ready
    <3> QED BY <2>2, <2>3, <3>6 DEF Volatile
  <2> QED BY <2>4, <2>5
<1>5. CASE MarkVerified
  <2> DEFINE state == IF jr.state = VERIFYING THEN VERIFIED ELSE PENDING_ACTIVATION
             end == IF mode = "boot" THEN "lifecycle" ELSE "prog"
  <2>1. /\ CanContinue /\ jr.state \in Before /\ pc = "mark"
        /\ UNCHANGED <<mode, lfault, active>>
    BY <1>5 DEF MarkVerified, Known, Volatile, Saving
  <2>2. \/ /\ Saved(Update(state))
           /\ IF state = VERIFIED THEN pc' = "mark" /\ ctx' = ctx
              ELSE pc' = end /\ ctx' = IF mode = "prog" THEN "verified" ELSE ctx
        \/ SaveFails(Update(state)) /\ pc' = end /\ ctx' = ctx
    <3>1. Update(VERIFIED).state = VERIFIED /\ Update(PENDING_ACTIVATION).state = PENDING_ACTIVATION
      <4>1. VERIFIED \in IDLE .. ABORTED /\ PENDING_ACTIVATION \in IDLE .. ABORTED
        BY Numbers DEF VERIFIED
      <4> QED BY <4>1, UpdateFields DEF Known
    <3> QED BY <1>5, <3>1 DEF MarkVerified
  <2>3. state \in IDLE .. ABORTED /\ state \in 7 .. 8 /\ (state = 7 <=> state = VERIFIED)
    BY Numbers DEF VERIFIED
  <2>4. /\ Loaded' /\ UNCHANGED <<meta, flash>>
        /\ jr'.active = jr.active /\ jr'.target = jr.target /\ jr'.status = "VALID"
        /\ \/ CanContinue' /\ jr'.state = state
           \/ jr' = jr /\ jfault'
        /\ pc' = "mark" => CanContinue' /\ state = VERIFIED /\ ctx' = ctx
        /\ pc' = "mark" => jr'.state = state
        /\ pc' # "mark" => pc' = end
    <3>0. end # "mark"
      OBVIOUS
    <3> HIDE DEF state, end
    <3>1. CASE Saved(Update(state))
      <4>1. \/ pc' = "mark" /\ ctx' = ctx /\ state = VERIFIED
            \/ pc' = end
            \/ SaveFails(Update(state))
        BY <2>2
      <4> QED BY <2>1, <2>2, <2>3, <3>0, <3>1, UpdateOutcome
    <3>2. CASE SaveFails(Update(state)) /\ pc' = end
      BY <2>1, <2>3, <3>0, <3>2, UpdateOutcome DEF CanContinue
    <3> QED BY <2>2, <3>1, <3>2
  <2>5. CASE mode = "boot"
    <3>1. ctx = "none" /\ ctx' = "none" /\ mode' = "boot" /\ Ahead(jr)
      BY <2>1, <2>2, <2>5 DEF Known, Volatile, Session, Ready
    <3>2. Ahead(jr)'
      BY <2>4, <3>1 DEF Ahead, Image
    <3>3. InMode' /\ Running' /\ Session'
      BY <2>4, <2>5, <3>1 DEF InMode, Running, Session
    <3>4. Saving'
      BY <2>3, <2>4, <2>5, Numbers DEF Saving
    <3>5. Settled'
      <4>1. CanContinue' /\ pc' = "lifecycle" => jr'.state = PENDING_ACTIVATION
        BY <2>2, <2>4, <2>5, UpdateOutcome, <2>1, <2>3 DEF CanContinue
      <4> QED BY <2>4, <2>5, <4>1 DEF Settled
    <3>6. Ready'
      BY <2>4, <2>5, <3>2 DEF Ready
    <3> QED BY <2>4, <3>3, <3>4, <3>5, <3>6 DEF Volatile
  <2>6. CASE mode = "prog"
    <3>1. ~lfault /\ Underway(jr) /\ ctx \notin {"erased", "downloading", "received"}
      BY <2>1, <2>6, Numbers DEF Known, Volatile, Session, Underway, CanContinue
    <3>2. mode' = "prog" /\ ctx' \notin {"erased", "downloading", "received"}
      BY <2>1, <2>2, <2>6, <3>1
    <3>3. \A s \in Slots : \A t : Has(s, t)' = Has(s, t)
      BY <2>4 DEF Has
    <3>4. Session'
      BY <2>1, <2>4, <2>6, <3>1, <3>2, <3>3 DEF Session, Known, Volatile, Target
    <3>5. CASE pc' = "prog"
      BY <2>4, <3>2, <3>4, <3>5, AtProg
    <3>6. CASE pc' = "mark"
      <4>1. Saving'
        BY <2>3, <2>4, <3>6, Numbers DEF Saving
      <4>2. InMode' /\ Running' /\ Settled' /\ Ready'
        BY <3>2, <3>6 DEF InMode, Running, Settled, Ready
      <4> QED BY <2>4, <3>4, <4>1, <4>2 DEF Volatile
    <3> QED BY <2>4, <2>6, <3>5, <3>6
  <2> QED BY <2>5, <2>6 DEF Known, TypeOK
<1> QED BY <1>1, <1>2, <1>3, <1>4, <1>5

(* ... hand-over and resolution; when they fail, lfault says so.           *)
LEMMA LifecycleFails ==
  ASSUME Known, mode = "prog" => ctx = "none", Loaded', lfault',
         pc' = Failed, UNCHANGED <<mode, ctx>>
  PROVE  Volatile'
<1>1. CASE mode = "boot"
  <2>1. ctx = "none"
    BY <1>1 DEF Known, Volatile, Session
  <2> QED BY <1>1, <2>1, AtBoot DEF Failed
<1>2. CASE mode = "prog"
  <2>1. Session'
    BY <1>2 DEF Session, Failed
  <2> QED BY <1>2, <2>1, AtProg DEF Failed
<1> QED BY <1>1, <1>2 DEF Known, TypeOK

LEMMA ReconcileVolatile ==
  ASSUME Known, Reconcile
  PROVE  Volatile'
<1>1. /\ pc = "lifecycle" /\ UNCHANGED <<journal, meta, flash, mode, jr, jfault, active, ctx>>
      /\ Loaded' /\ mode \in {"boot", "prog"}
      /\ mode = "prog" => CanContinue /\ jr.state = ABORTED /\ ctx = "none"
      /\ mode = "boot" => ctx = "none"
      /\ lfault' = (JournalUnusable \/ (~ImageLost /\ NoFallback))
  BY DEF Reconcile, Known, Volatile, InMode, Session, Loaded, Live, durable, TypeOK
<1>2. CASE JournalUnusable \/ ImageLost \/ NoFallback
  <2>1. pc' = Failed
    BY <1>2 DEF Reconcile
  <2>2. JournalUnusable \/ ~ImageLost
    <3> SUFFICES ASSUME ~JournalUnusable, ImageLost PROVE FALSE
      OBVIOUS
    <3>1. Ahead(jr)
      BY <1>1 DEF JournalUnusable, ImageLost, CanContinue, Known, Volatile, Ready
    <3> QED BY <3>1 DEF ImageLost, Ahead
  <2> QED BY <1>1, <1>2, <2>1, <2>2, LifecycleFails
<1>3. CASE ~(JournalUnusable \/ ImageLost \/ NoFallback)
  <2>1. /\ CanContinue /\ CanContinue' /\ ~lfault' /\ ctx' = "none" /\ mode' = mode
        /\ jr.state \in {IDLE, ABORTED, PENDING_ACTIVATION} /\ (Pending => Ahead(jr))
    BY <1>1, <1>3 DEF JournalUnusable, CanContinue, Known, Volatile, Settled, Ready
  <2>2. pc' = IF FirstRecord THEN "initialize" ELSE IF Pending THEN Handover ELSE "resolve"
    BY <1>3 DEF Reconcile
  <2>3. Session'
    <3>1. mode = "prog" => ~Underway(jr) /\ \A s \in Slots : ~Has(s, "TRIAL")
      BY <1>1, NoTrial, Numbers DEF Underway
    <3> QED BY <1>1, <2>1, <3>1, Kept DEF Session, Underway
  <2>4. CASE FirstRecord
    <3>1. /\ pc' = "initialize" /\ Image(jr.active) # 0 /\ meta[jr.active].status # "VALID"
          /\ jr.state \in {PENDING_ACTIVATION, ABORTED}
      BY <2>2, <2>4 DEF FirstRecord, Pending
    <3>2. InMode' /\ Saving' /\ Settled' /\ Running'
      BY <1>1, <2>1, <3>1 DEF InMode, Saving, Settled, Running
    <3>3. Ready'
      BY <1>1, <2>1, <3>1, Kept DEF Ready, Image, Pending
    <3> QED BY <1>1, <2>3, <3>2, <3>3 DEF Volatile
  <2>5. CASE ~FirstRecord /\ Pending
    <3>1. mode = "boot" /\ pc' = Handover
      BY <1>1, <2>2, <2>5, Numbers DEF Pending
    <3>2. jr.active \in Slots => Has(jr.active, "CONFIRMED")
      BY <1>3, <2>1, <2>5 DEF NoFallback, FirstRecord, Ahead
    <3>3. pc' = "handoff" => meta[jr.target].version = Image(jr.target)
      BY <3>1 DEF Handover, HandedOver
    <3>4. InMode' /\ Saving' /\ Settled' /\ Running'
      BY <1>1, <2>1, <3>1 DEF Handover, InMode, Saving, Settled, Running
    <3>5. Ready'
      BY <1>1, <2>1, <2>5, <3>1, <3>2, <3>3, Kept DEF Handover, Ready, Image, Has, Pending
    <3> QED BY <1>1, <2>3, <3>4, <3>5 DEF Volatile
  <2>6. CASE ~FirstRecord /\ ~Pending
    <3>1. pc' = "resolve" /\ jr.state \in {IDLE, ABORTED}
      BY <2>1, <2>2, <2>6 DEF Pending
    <3>2. InMode' /\ Saving' /\ Settled' /\ Running' /\ Ready'
      BY <1>1, <2>1, <3>1 DEF InMode, Saving, Settled, Running, Ready
    <3> QED BY <1>1, <2>3, <3>2 DEF Volatile
  <2> QED BY <2>4, <2>5, <2>6
<1> QED BY <1>2, <1>3

LEMMA InitializeVolatile ==
  ASSUME Known, InitializeConfirmed
  PROVE  Volatile'
<1> DEFINE a == jr.active
           next == Record("CONFIRMED", Image(jr.active), jr.txn, 0)
<1>1. /\ pc = "initialize" /\ UNCHANGED <<journal, flash, mode, jr, jfault, active, ctx>>
      /\ Loaded' /\ CanContinue /\ a \in Slots /\ a # jr.target /\ jr.target \in Slots
      /\ mode = "prog" => jr.state = ABORTED
      /\ ctx = "none" /\ mode \in {"boot", "prog"}
      /\ jr.state \in {PENDING_ACTIVATION, ABORTED} /\ (Pending => Ahead(jr))
  BY DEF InitializeConfirmed, Committed, CommitFails, Known, Volatile, InMode, Session, Loaded,
         Live, Ready, TypeOK, Located, HandoverInv, Synced, Paired, Holds, HandingOver,
         CanContinue
<1>2. CASE CommitFails(a, next) /\ pc' = Failed
  BY <1>1, <1>2, LifecycleFails DEF CommitFails
<1>3. CASE Committed(a, next) /\ pc' = IF Pending THEN Handover ELSE "resolve"
  <2>1. /\ Has(a, "CONFIRMED")' /\ meta'[jr.target] = meta[jr.target]
        /\ \A s \in Slots : Has(s, "TRIAL")' => Has(s, "TRIAL")
    <3>1. next.status = "VALID" /\ next.state = "CONFIRMED"
      BY DEF Record
    <3> HIDE DEF next
    <3>2. \A s \in Slots : meta'[s] = IF s = a THEN next ELSE meta[s]
      BY <1>3 DEF Committed, Known, TypeOK
    <3> QED BY <1>1, <3>1, <3>2 DEF Has
  <2>2. CanContinue' /\ ctx' = "none" /\ mode' = mode
    BY <1>1 DEF CanContinue
  <2>3. Session'
    <3>1. mode = "prog" => ~Underway(jr) /\ \A s \in Slots : ~Has(s, "TRIAL")
      BY <1>1, NoTrial, Numbers DEF Underway
    <3>2. pc' \in {"install", "handoff", "resolve"}
      BY <1>3 DEF Handover
    <3> QED BY <1>1, <2>1, <2>2, <3>1, <3>2 DEF Session, Underway
  <2>4. CASE Pending
    <3>1. pc' = Handover /\ mode = "boot"
      BY <1>1, <1>3, <2>4, Numbers DEF Pending
    <3>2. pc' = "handoff" => meta[jr.target].version = Image(jr.target)
      BY <3>1 DEF Handover, HandedOver
    <3>3. InMode' /\ Saving' /\ Settled' /\ Running'
      BY <2>2, <3>1 DEF Handover, InMode, Saving, Settled, Running
    <3>4. Ready'
      BY <1>1, <2>1, <2>4, <3>1, <3>2 DEF Handover, Ready, Pending, Ahead, Image
    <3> QED BY <1>1, <2>3, <3>3, <3>4 DEF Volatile
  <2>5. CASE ~Pending
    <3>1. pc' = "resolve" /\ jr.state = ABORTED
      BY <1>1, <1>3, <2>5 DEF Pending
    <3>2. InMode' /\ Saving' /\ Settled' /\ Running' /\ Ready'
      BY <1>1, <2>2, <3>1 DEF InMode, Saving, Settled, Running, Ready
    <3> QED BY <1>1, <2>3, <3>2 DEF Volatile
  <2> QED BY <2>4, <2>5
<1> QED BY <1>2, <1>3 DEF InitializeConfirmed, Pending

LEMMA HandoverVolatile ==
  ASSUME Known, InstallVerified \/ SetPending \/ CompleteHandoff
  PROVE  Volatile'
<1>1. /\ UNCHANGED <<journal, mode, ctx>> \/ CompleteHandoff
      /\ UNCHANGED <<flash, mode, active, ctx>>
      /\ mode = "boot" /\ ctx = "none" /\ CanContinue
      /\ jr.target \in Slots /\ jr.active # jr.target
      /\ Pending /\ Ahead(jr) /\ (jr.active \in Slots => Has(jr.active, "CONFIRMED"))
  BY DEF InstallVerified, SetPending, CompleteHandoff, Committed, CommitFails, Saved, SaveFails,
         Known, Volatile, InMode, Session, Ready, HandoverInv, Synced, Paired, Holds,
         HandingOver, CanContinue
<1>2. ASSUME NEW next, Committed(jr.target, next), UNCHANGED <<jr, jfault>>,
             next.version = Image(jr.target), pc' \in {"pend", "handoff"}
      PROVE  Volatile'
  <2>1. \A s \in Slots : meta'[s] = IF s = jr.target THEN next ELSE meta[s]
    BY <1>2 DEF Committed, Known, TypeOK
  <2>2. /\ jr.active \in Slots => Has(jr.active, "CONFIRMED")'
        /\ meta'[jr.target].version = Image(jr.target)'
    BY <1>1, <1>2, <2>1 DEF Has, Image
  <2>3. Loaded'
    BY <1>2 DEF Committed, Loaded, Live, Known, Volatile
  <2>4. Ready'
    BY <1>1, <1>2, <2>2 DEF Ready, Pending, Ahead, Image, Has
  <2>5. InMode' /\ Saving' /\ Settled' /\ Running' /\ Session'
    BY <1>1, <1>2 DEF InMode, Saving, Settled, Running, Session
  <2> QED BY <2>3, <2>4, <2>5 DEF Volatile
<1>3. CASE InstallVerified
  <2> DEFINE next == Record("VERIFIED", Image(jr.target), jr.txn, 0)
  <2>1. CASE Committed(jr.target, next) /\ pc' = "pend"
    <3>1. next.version = Image(jr.target)
      BY DEF Record
    <3> HIDE DEF next
    <3> QED BY <1>2, <1>3, <2>1, <3>1 DEF InstallVerified
  <2>2. CASE CommitFails(jr.target, next) /\ pc' = Failed
    <3>1. Loaded'
      BY <1>3, <2>2 DEF InstallVerified, CommitFails, Loaded, Live, Known, Volatile
    <3> QED BY <1>1, <2>2, <3>1, LifecycleFails DEF CommitFails
  <2> QED BY <1>3, <2>1, <2>2 DEF InstallVerified
<1>4. CASE SetPending
  <2> DEFINE next == [meta[jr.target] EXCEPT !.state = "PENDING"]
  <2>1. CASE Committed(jr.target, next) /\ pc' = "handoff"
    <3>1. next.version = Image(jr.target)
      BY <1>1, <1>4 DEF SetPending, Known, TypeOK, Metas, Volatile, Ready
    <3> HIDE DEF next
    <3> QED BY <1>2, <1>4, <2>1, <3>1 DEF SetPending
  <2>2. CASE CommitFails(jr.target, next) /\ pc' = Failed
    <3>1. Loaded'
      BY <1>4, <2>2 DEF SetPending, CommitFails, Loaded, Live, Known, Volatile
    <3> QED BY <1>1, <2>2, <3>1, LifecycleFails DEF CommitFails
  <2> QED BY <1>4, <2>1, <2>2 DEF SetPending
<1>5. CASE CompleteHandoff
  <2>0. IDLE \in IDLE .. ABORTED
    BY Numbers
  <2>1. CASE Saved(Update(IDLE)) /\ pc' = "resolve"
    <3>1. CanContinue' /\ jr'.state = IDLE /\ Loaded'
      BY <1>1, <2>0, <2>1, UpdateOutcome
    <3>2. InMode' /\ Saving' /\ Settled' /\ Running' /\ Session' /\ Ready'
      BY <1>1, <2>1, <3>1 DEF InMode, Saving, Settled, Running, Session, Ready
    <3> QED BY <3>1, <3>2 DEF Volatile
  <2>2. CASE SaveFails(Update(IDLE)) /\ pc' = Failed /\ lfault'
    <3>1. Loaded'
      BY <1>1, <2>0, <2>2, UpdateOutcome
    <3> QED BY <1>1, <2>2, <3>1, LifecycleFails
  <2> QED BY <1>5, <2>1, <2>2 DEF CompleteHandoff
<1> QED BY <1>3, <1>4, <1>5

LEMMA ResolveVolatile ==
  ASSUME Known, (\E s \in Slots : ResolveExhausted(s)) \/ EndLifecycle
  PROVE  Volatile'
<1>1. /\ pc = "resolve" /\ UNCHANGED <<journal, flash, mode, jr, jfault, active, ctx, running>>
      /\ Loaded' /\ CanContinue /\ CanContinue' /\ jr.state \in {IDLE, ABORTED}
      /\ ctx = "none" /\ mode \in {"boot", "prog"}
      /\ mode = "prog" => jr.state = ABORTED
  BY DEF ResolveExhausted, EndLifecycle, Committed, CommitFails, Known, Volatile, InMode, Session,
         Settled, Loaded, Live, durable, CanContinue, TypeOK
<1>2. CASE \E s \in Slots : ResolveExhausted(s)
  <2>1. PICK s \in Slots : ResolveExhausted(s)
    BY <1>2
  <2>2. mode = "boot"
    <3>1. Has(s, "TRIAL")
      BY <2>1 DEF ResolveExhausted, Exhausted
    <3> QED BY <1>1, <3>1, NoTrial, Numbers
  <2>3. CASE pc' = pc
    <3>1. InMode' /\ Saving' /\ Settled' /\ Running' /\ Session' /\ Ready'
      BY <1>1, <2>2, <2>3 DEF InMode, Saving, Settled, Running, Session, Ready
    <3> QED BY <1>1, <3>1 DEF Volatile
  <2>4. CASE pc' = Failed /\ lfault'
    BY <1>1, <2>4, LifecycleFails
  <2> QED BY <2>1, <2>3, <2>4 DEF ResolveExhausted, CommitFails
<1>3. CASE EndLifecycle
  <2>1. CASE pc' = Failed /\ lfault'
    BY <1>1, <2>1, LifecycleFails
  <2>2. CASE pc' = Done /\ mode = "boot"
    <3>1. pc' = "check"
      BY <2>2 DEF Done
    <3> QED BY <1>1, <2>2, <3>1, AtBoot
  <2>3. CASE pc' = Done /\ mode = "prog" /\ lfault' = lfault
    <3>1. pc' = "refresh" /\ UNCHANGED meta
      BY <1>3, <2>3 DEF Done, EndLifecycle, durable
    <3>2. InMode' /\ Saving' /\ Settled' /\ Running' /\ Ready'
      BY <1>1, <2>3, <3>1 DEF InMode, Saving, Settled, Running, Ready
    <3>3. \A s \in Slots : ~Has(s, "TRIAL") /\ ~Has(s, "TRIAL")'
      BY <1>1, <2>3, <3>1, NoTrial, Numbers DEF Has
    <3>4. ~Underway(jr)'
      BY <1>1, Numbers DEF Underway
    <3>5. Session'
      BY <1>1, <3>1, <3>3, <3>4 DEF Session
    <3> QED BY <1>1, <3>2, <3>5 DEF Volatile
  <2> QED BY <1>1, <1>3, <2>1, <2>2, <2>3 DEF EndLifecycle
<1> QED BY <1>2, <1>3

(* ... the choice of the slot to start, and the start.                     *)
LEMMA ChoiceVolatile ==
  ASSUME Known, CheckConfirm \/ CheckRequest \/ CheckApp
  PROVE  Volatile'
<1>1. /\ pc \in {"check", "select"} /\ UNCHANGED <<journal, jr, jfault, ctx>> /\ Loaded'
      /\ mode = "boot" /\ ctx' = "none"
      /\ ~lfault => CanContinue /\ CanContinue' /\ jr.state \in {IDLE, ABORTED}
  BY DEF CheckConfirm, CheckRequest, CheckApp, Committed, CommitFails, durable, Known, Volatile,
         InMode, Session, Settled, Loaded, Live, CanContinue
<1>2. CASE CheckConfirm
  <2>1. pc' = "check" /\ mode' = "boot" /\ (~lfault' => ~lfault)
    BY <1>1, <1>2 DEF CheckConfirm, Committed, CommitFails
  <2> QED BY <1>1, <2>1, AtBoot
<1>3. ASSUME NEW s \in Slots, Has(s, "TRIAL"), ~lfault
      PROVE  SelectBootTarget = s /\ Captured(Requested("program")).slot = s
  BY <1>1, <1>3, TrialSelected
<1>4. ASSUME UNCHANGED <<meta, lfault>>, pc' = "prog", mode' = "prog",
             ~lfault => \A s \in Slots : Has(s, "TRIAL") => active'.slot = s
      PROVE  Volatile'
  <2>1. ~lfault => ~Underway(jr)'
    BY <1>1, Numbers DEF Underway
  <2>2. \A s \in Slots : \A t : Has(s, t)' = Has(s, t)
    BY <1>4 DEF Has
  <2>3. Session'
    BY <1>1, <1>4, <2>1, <2>2 DEF Session
  <2> QED BY <1>1, <1>4, <2>3, AtProg
<1>5. CASE CheckRequest
  <2>1. /\ active' = Captured(Requested("program")) /\ UNCHANGED <<meta, lfault, sw>>
        /\ ~Requested("confirm")
        /\ req' = IF Requested("program") THEN NoRequest ELSE req
        /\ \/ pc' = "prog" /\ mode' = "prog"
           \/ pc' = "select" /\ mode' = mode
    BY <1>5 DEF CheckRequest, durable
  <2>2. CASE pc' = "prog" /\ mode' = "prog"
    <3>1. ~lfault => \A s \in Slots : Has(s, "TRIAL") => active'.slot = s
      BY <1>3, <2>1
    <3> QED BY <1>4, <2>1, <2>2, <3>1
  <2>3. CASE pc' = "select" /\ mode' = mode
    <3>1. sw' => req'.kind = "none"
      BY <2>1 DEF Requested, NoRequest, Known, TypeOK
    <3> QED BY <1>1, <2>1, <2>3, <3>1, AtBoot
  <2> QED BY <2>1, <2>2, <2>3
<1>6. CASE CheckApp
  <2>1. /\ running' = SelectBootTarget /\ UNCHANGED <<meta, lfault, sw, req, active>>
        /\ UNCHANGED reval
        /\ IF SelectBootTarget = UNKNOWN THEN pc' = "prog" /\ mode' = "prog"
           ELSE pc' = "jump" /\ mode' = mode
        /\ pc = "select"
    BY <1>6 DEF CheckApp, durable
  <2>2. CASE SelectBootTarget = UNKNOWN
    <3>1. ~lfault => \A s \in Slots : ~Has(s, "TRIAL")
      BY <1>3, <2>2, Numbers
    <3> QED BY <1>4, <2>1, <2>2, <3>1
  <2>3. CASE SelectBootTarget # UNKNOWN
    <3>1. ~lfault /\ JournalPermits(running')
      BY <2>1, <2>3, SelectFacts
    <3>2. JournalPermits(running)'
      BY <1>1, <2>1, <3>1 DEF JournalPermits, SlotAllowed
    <3>3. \A s \in Slots : Has(s, "TRIAL")' => running' = s
      BY <1>3, <2>1, <3>1 DEF Has
    <3>4. sw' => req'.kind = "none"
      BY <2>1 DEF Known, Volatile, Running
    <3>5. InMode' /\ Saving' /\ Settled' /\ Running' /\ Session' /\ Ready'
      BY <1>1, <2>1, <2>3, <3>1, <3>2, <3>3, <3>4
      DEF InMode, Saving, Settled, Running, Session, Ready
    <3> QED BY <1>1, <3>5 DEF Volatile
  <2> QED BY <2>2, <2>3
<1> QED BY <1>2, <1>5, <1>6

LEMMA StartVolatile ==
  ASSUME Known, Normalize \/ PrepareBoot \/ Launch
  PROVE  Volatile'
<1>1. CASE Normalize
  BY <1>1, AtReset DEF Normalize, Reset
<1>2. ASSUME PrepareBoot \/ Launch
      PROVE  /\ pc \in {"jump", "launch"} /\ running \in Slots
             /\ UNCHANGED <<journal, mode, jr, jfault, reval, ctx, running>> /\ Loaded'
             /\ mode' = "boot" /\ ctx' = "none"
             /\ CanContinue' /\ jr'.state \in {IDLE, ABORTED} /\ JournalPermits(running)'
             /\ \A s \in Slots : Has(s, "TRIAL") => running = s
  <2>1. /\ pc \in {"jump", "launch"} /\ running \in Slots
        /\ UNCHANGED <<journal, mode, jr, jfault, reval, ctx, running>>
    BY <1>2 DEF PrepareBoot, Launch, Committed, CommitFails, durable, Known, Located
  <2>2. /\ mode = "boot" /\ ctx = "none" /\ CanContinue /\ jr.state \in {IDLE, ABORTED}
        /\ JournalPermits(running) /\ Loaded
        /\ \A s \in Slots : Has(s, "TRIAL") => running = s
    BY <2>1 DEF Known, Volatile, InMode, Session, Settled, Running
  <2> QED BY <2>1, <2>2 DEF Loaded, Live, CanContinue, JournalPermits, SlotAllowed
<1>3. CASE PrepareBoot
  <2>1. CASE pc' = "error"
    BY <1>2, <1>3, <2>1, AtBoot
  <2>2. CASE pc' # "error"
    <3> DEFINE next == Attempt(meta[running])
    <3>1. pc' = "launch" /\ Committed(running, next) /\ UNCHANGED <<req, sw>>
      BY <1>3, <2>2 DEF PrepareBoot
    <3>2. ~lfault' /\ (sw' => req'.kind = "none")
      BY <1>3, <3>1 DEF PrepareBoot, Committed, Known, Volatile, Settled, Running
    <3> HIDE DEF next
    <3>3. \A s \in Slots : s # running => meta'[s] = meta[s]
      BY <3>1 DEF Committed, Known, TypeOK
    <3>4. \A s \in Slots : Has(s, "TRIAL")' => running' = s
      BY <1>2, <1>3, <3>3 DEF Has
    <3>5. InMode' /\ Saving' /\ Settled' /\ Running' /\ Session' /\ Ready'
      BY <1>2, <1>3, <3>1, <3>2, <3>4 DEF InMode, Saving, Settled, Running, Session, Ready
    <3> QED BY <1>2, <1>3, <3>5 DEF Volatile
  <2> QED BY <2>1, <2>2
<1>4. CASE Launch
  <2>1. pc' \in {"app", "error"} /\ UNCHANGED <<meta, lfault>> /\ ~lfault
    BY <1>4 DEF Launch, durable, Known, Volatile, Settled
  <2>2. CASE pc' = "error"
    BY <1>2, <1>4, <2>2, AtBoot
  <2>3. CASE pc' = "app"
    <3>1. \A s \in Slots : Has(s, "TRIAL")' => running' = s
      BY <1>2, <1>4, <2>1 DEF Has
    <3>2. Priority(running)' # 0
      BY <1>4, <2>1, <2>3 DEF Launch, Launchable, LifecyclePermits, Priority, Has
    <3>3. InMode' /\ Saving' /\ Settled' /\ Running' /\ Session' /\ Ready'
      BY <1>2, <1>4, <2>1, <2>3, <3>1, <3>2
      DEF InMode, Saving, Settled, Running, Session, Ready
    <3> QED BY <1>2, <1>4, <3>3 DEF Volatile
  <2> QED BY <2>1, <2>2, <2>3
<1> QED BY <1>1, <1>3, <1>4

LEMMA RestartVolatile ==
  ASSUME Known, Application \/ Environment, MayRot = FALSE
  PROVE  Volatile'
BY AtReset DEF Application, AppConfirm, AppRequestProgramming, AppCrash, Environment,
               HardwareReset, Rot, Reset

-----------------------------------------------------------------------------
(* The programming server keeps the volatile half.                         *)
InTransfer == {"erased", "downloading", "received"}

LEMMA SessionUpdate ==
  ASSUME Known, mode = "prog", ~lfault, UNCHANGED <<mode, lfault, active, meta>>, Underway(jr),
         jr'.status = "VALID", jr'.active = jr.active, jr'.target = jr.target,
         ctx' \in InTransfer => pc' = "prog" /\ jr'.state \in Before
  PROVE  Session'
<1>1. \A s \in Slots : \A t : Has(s, t)' = Has(s, t)
  BY DEF Has
<1> QED BY <1>1 DEF Session, Known, Volatile, Target, InTransfer

(* The update moves on, in the journal ...                                 *)
LEMMA ProgressVolatile ==
  ASSUME Known, mode = "prog", ~lfault, CanContinue, jr.state \in Before,
         UNCHANGED <<mode, lfault, active>>,
         NEW next, next.status = "VALID", next.state \in Before,
         next.active = jr.active, next.target = jr.target,
         Saved(next) \/ (SaveFails(next) /\ pc' = "prog"),
         pc' \in {"prog", "wipe", "verify"},
         pc' # "prog" => ctx' \notin InTransfer
  PROVE  Volatile'
<1>1. /\ Loaded' /\ UNCHANGED meta
      /\ jr'.status = "VALID" /\ jr'.active = jr.active /\ jr'.target = jr.target
      /\ jr'.state \in Before
      /\ pc' # "prog" => CanContinue'
  BY SaveOutcome DEF Known, Volatile, CanContinue
<1>2. Underway(jr)
  BY Numbers DEF Underway, CanContinue
<1>3. Session'
  BY <1>1, <1>2, SessionUpdate
<1>4. InMode' /\ Saving' /\ Settled' /\ Ready' /\ Running'
  BY <1>1 DEF InMode, Saving, Settled, Ready, Running
<1> QED BY <1>1, <1>3, <1>4 DEF Volatile

LEMMA ProgressUpdate ==
  ASSUME Known, mode = "prog", ~lfault, CanContinue, jr.state \in Before,
         UNCHANGED <<mode, lfault, active>>, NEW state \in Before,
         Saved(Update(state)) \/ (SaveFails(Update(state)) /\ pc' = "prog"),
         pc' \in {"prog", "wipe", "verify"},
         pc' # "prog" => ctx' \notin InTransfer
  PROVE  Volatile'
<1> DEFINE next == Update(state)
<1>1. /\ next.status = "VALID" /\ next.state = state
      /\ next.active = jr.active /\ next.target = jr.target
  <2>1. state \in IDLE .. ABORTED
    BY Numbers
  <2> QED BY <2>1, UpdateFields DEF Known, CanContinue
<1> HIDE DEF next
<1>2. Saved(next) \/ (SaveFails(next) /\ pc' = "prog")
  BY DEF next
<1> QED BY <1>1, <1>2, ProgressVolatile

(* ... or in flash alone.                                                  *)
LEMMA FlashVolatile ==
  ASSUME Known, mode = "prog", ~lfault, CanContinue, jr.state \in Before,
         UNCHANGED <<mode, lfault, active, jr, journal, meta>>,
         jfault' = jfault \/ pc' = "prog",
         pc' \in {"prog", "ready", "header", "mark", "abort"},
         ctx' \in InTransfer => pc' = "prog"
  PROVE  Volatile'
<1>1. Underway(jr) /\ jr.status = "VALID"
  BY Numbers DEF Underway, CanContinue
<1>2. Session'
  BY <1>1, SessionUpdate
<1>3. Loaded'
  BY DEF Loaded, Live, Known, Volatile
<1>4. InMode' /\ Settled' /\ Ready' /\ Running'
  BY DEF InMode, Settled, Ready, Running
<1>5. Saving'
  BY <1>1 DEF Saving, CanContinue, Underway
<1> QED BY <1>2, <1>3, <1>4, <1>5 DEF Volatile

LEMMA EraseVolatile ==
  ASSUME Known, EraseRequest
  PROVE  Volatile'
<1> DEFINE next == [NoJournal EXCEPT !.status = "VALID", !.state = PREPARING,
                      !.active = active.slot, !.target = Target, !.txn = jr.txn + 1]
<1>1. /\ mode = "prog" /\ ~lfault /\ CanContinue /\ ctx' = "none"
      /\ UNCHANGED <<mode, lfault, active>>
  BY DEF EraseRequest, CanStartUpdate, Known, Volatile, InMode
<1>2. /\ next.status = "VALID" /\ next.state \in Before
      /\ next.active = active.slot /\ next.target = Target
  BY Numbers DEF NoJournal, PREPARING
<1>3. \/ Saved(next) /\ pc' = "erasing"
      \/ SaveFails(next) /\ pc' = pc
      \/ UNCHANGED <<durable, jr, jfault, pc>>
  BY DEF EraseRequest
<1> HIDE DEF next
<1>4. /\ Loaded' /\ UNCHANGED meta
      /\ \/ pc' = "prog" /\ jr' = jr
         \/ pc' = "erasing" /\ jr' = next /\ CanContinue'
  <2>1. pc = "prog"
    BY DEF EraseRequest
  <2>2. CASE UNCHANGED <<durable, jr, jfault, pc>>
    BY <2>1, <2>2 DEF durable, Loaded, Live, Known, Volatile
  <2> QED BY <1>2, <1>3, <2>1, <2>2, SaveOutcome DEF Known, Volatile
<1>5. \A s \in Slots : \A t : Has(s, t)' = Has(s, t)
  BY <1>4 DEF Has
<1>6. Session'
  BY <1>1, <1>2, <1>4, <1>5 DEF Session, Known, Volatile, Target, Underway
<1>7. InMode' /\ Saving' /\ Settled' /\ Ready' /\ Running'
  BY <1>1, <1>2, <1>4 DEF InMode, Saving, Settled, Ready, Running
<1> QED BY <1>4, <1>6, <1>7 DEF Volatile

LEMMA CommissionVolatile ==
  ASSUME Known, NEW a \in Slots \cup {UNKNOWN}, Commission(a)
  PROVE  Volatile'
<1> DEFINE next == [NoJournal EXCEPT !.status = "VALID", !.state = ABORTED, !.active = a,
                      !.target = IF a = 0 THEN 1 ELSE 0, !.commissioned = TRUE]
<1>1. /\ ~Live /\ mode = "prog" /\ UNCHANGED <<mode, lfault, active, ctx, meta>>
      /\ jr.status # "VALID" /\ ctx' = "none"
  BY DEF Commission, Known, Volatile, InMode, Loaded, Live, Session
<1>2. next.status = "VALID" /\ next.state = ABORTED
  BY DEF NoJournal
<1>3. \/ jr' = next /\ journal' = next /\ ~jfault' /\ pc' = "lifecycle"
      \/ jr' = jr /\ pc' = "prog"
  BY DEF Commission
<1> HIDE DEF next
<1>4. \A s \in Slots : ~Has(s, "TRIAL") /\ ~Has(s, "TRIAL")'
  BY <1>1 DEF Known, Durable, Bare, Has
<1>5. Loaded' /\ ~Underway(jr)'
  BY <1>1, <1>2, <1>3, Numbers DEF Loaded, Live, Underway
<1>6. Session'
  BY <1>1, <1>3, <1>4, <1>5 DEF Session
<1>7. InMode' /\ Saving' /\ Settled' /\ Ready' /\ Running'
  BY <1>1, <1>2, <1>3, Numbers
  DEF InMode, Saving, Settled, Ready, Running, CanContinue, Pending
<1> QED BY <1>5, <1>6, <1>7 DEF Volatile

LEMMA ProgrammingVolatile ==
  ASSUME Known, Programming
  PROVE  Volatile'
<1>0. /\ ERASING \in Before /\ DOWNLOAD_READY \in Before /\ PROGRAMMING \in Before
      /\ VERIFYING \in Before /\ TRANSFER_COMPLETE \in Before
  BY DEF Before, PREPARING, ERASING, DOWNLOAD_READY, PROGRAMMING, TRANSFER_COMPLETE, VERIFYING,
         VERIFIED
<1>1. CASE AbortDownload
  <2>1. /\ pc' = "prog" /\ mode' = "prog" /\ mode = "prog" /\ ctx' = "none"
        /\ UNCHANGED <<lfault, active>>
    BY <1>1 DEF AbortDownload, Known, Volatile, InMode
  <2>2. Loaded' /\ UNCHANGED meta /\ (jr' = jr \/ ~Underway(jr)')
    <3>1. CASE jr.status = "VALID" /\ jr.state \in PREPARING .. VERIFIED
      <4>1. Saved(Aborted) \/ SaveFails(Aborted)
        BY <1>1, <3>1 DEF AbortDownload
      <4> QED BY <3>1, <4>1, AbortedOutcome, Numbers DEF Underway
    <3>2. CASE ~(jr.status = "VALID" /\ jr.state \in PREPARING .. VERIFIED)
      BY <1>1, <3>2 DEF AbortDownload, durable, Loaded, Live, Known, Volatile
    <3> QED BY <3>1, <3>2
  <2>3. \A s \in Slots : \A t : Has(s, t)' = Has(s, t)
    BY <2>2 DEF Has
  <2>4. Session'
    BY <2>1, <2>2, <2>3 DEF Session, Known, Volatile, Target, Underway
  <2> QED BY <2>1, <2>2, <2>4, AtProg
<1>2. CASE EraseRequest
  BY <1>2, EraseVolatile
<1>3. CASE StartErasing
  <2>1. /\ mode = "prog" /\ ~lfault /\ CanContinue /\ jr.state \in Before
        /\ ctx' \notin InTransfer /\ UNCHANGED <<mode, lfault, active>>
    BY <1>3 DEF StartErasing, Known, Volatile, InMode, Saving, Session, InTransfer
  <2> QED BY <1>0, <1>3, <2>1, ProgressUpdate DEF StartErasing
<1>4. CASE Wipe
  <2>1. /\ mode = "prog" /\ ~lfault /\ CanContinue /\ jr.state \in Before
        /\ ctx' \notin InTransfer
        /\ UNCHANGED <<mode, lfault, active, jr, journal, meta, jfault>>
    BY <1>4 DEF Wipe, Known, Volatile, InMode, Saving, Session, InTransfer, ram
  <2>2. pc' \in {"ready", "abort", "prog"}
    BY <1>4 DEF Wipe
  <2> QED BY <2>1, <2>2, FlashVolatile
<1>5. CASE EraseDone
  <2>1. /\ mode = "prog" /\ ~lfault /\ CanContinue /\ jr.state \in Before
        /\ pc' = "prog" /\ UNCHANGED <<mode, lfault, active>>
    BY <1>5 DEF EraseDone, Known, Volatile, InMode, Saving, Session
  <2> QED BY <1>0, <1>5, <2>1, ProgressUpdate DEF EraseDone
<1>6. CASE Download
  <2>1. /\ mode = "prog" /\ ~lfault /\ CanContinue /\ jr.state \in Before
        /\ pc' = "prog" /\ UNCHANGED <<mode, lfault, active>>
    BY <1>6 DEF Download, Known, Volatile, InMode, Session
  <2> QED BY <1>0, <1>6, <2>1, ProgressUpdate DEF Download
<1>7. CASE \E v \in Versions, whole \in BOOLEAN : Transfer(v, whole)
  <2>1. PICK v \in Versions, whole \in BOOLEAN : Transfer(v, whole)
    BY <1>7
  <2>2. /\ mode = "prog" /\ ~lfault /\ CanContinue /\ jr.state \in Before
        /\ UNCHANGED <<mode, lfault, active, jr, journal, meta>>
    BY <2>1 DEF Transfer, Known, Volatile, InMode, Session
  <2>3. /\ pc' \in {"prog", "abort"} /\ (pc' = "abort" => ctx' = "none")
        /\ jfault' = jfault \/ pc' = "prog"
    BY <2>1 DEF Transfer
  <2> QED BY <2>2, <2>3, FlashVolatile DEF InTransfer
<1>8. CASE TransferExit
  <2> DEFINE next == [Update(TRANSFER_COMPLETE) EXCEPT !.header = staged]
  <2>1. /\ mode = "prog" /\ ~lfault /\ CanContinue /\ jr.state \in Before
        /\ pc' = "prog" /\ UNCHANGED <<mode, lfault, active>>
        /\ Saved(next) \/ SaveFails(next)
    BY <1>8 DEF TransferExit, Known, Volatile, InMode, Session
  <2>2. /\ next.status = "VALID" /\ next.state = TRANSFER_COMPLETE
        /\ next.active = jr.active /\ next.target = jr.target
    BY <2>1 DEF Update, Known, TypeOK, Journals, CanContinue
  <2> HIDE DEF next
  <2> QED BY <1>0, <2>1, <2>2, ProgressVolatile
<1>9. CASE VerifyRequest
  <2>1. /\ mode = "prog" /\ ~lfault /\ CanContinue /\ jr.state \in Before
        /\ pc' \in {"prog", "verify"} /\ ctx' \notin InTransfer /\ UNCHANGED <<mode, lfault, active>>
    BY <1>9, Numbers
    DEF VerifyRequest, TransitionAllowed, Before, VERIFYING, PREPARING, Known, Volatile, InMode,
        Session, InTransfer
  <2>2. Saved(Update(VERIFYING)) \/ (SaveFails(Update(VERIFYING)) /\ pc' = "prog")
    BY <1>9 DEF VerifyRequest
  <2> QED BY <1>0, <2>1, <2>2, ProgressUpdate
<1>10. CASE VerifyImage
  <2>1. /\ mode = "prog" /\ ~lfault /\ CanContinue /\ jr.state \in Before
        /\ ctx' \notin InTransfer
        /\ UNCHANGED <<mode, lfault, active, jr, journal, meta, jfault>>
        /\ pc' \in {"header", "abort"}
    BY <1>10 DEF VerifyImage, Known, Volatile, InMode, Saving, Session, InTransfer, ram, durable
  <2> QED BY <2>1, FlashVolatile
<1>11. CASE PublishHeader
  <2>1. /\ mode = "prog" /\ ~lfault /\ CanContinue /\ jr.state \in Before
        /\ ctx' \notin InTransfer
        /\ UNCHANGED <<mode, lfault, active, jr, journal, meta, jfault>>
        /\ pc' \in {"mark", "prog", "abort"}
    BY <1>11 DEF PublishHeader, Known, Volatile, InMode, Saving, Session, InTransfer
  <2> QED BY <2>1, FlashVolatile
<1>12. CASE ResetRequest
  BY <1>12, AtReset DEF ResetRequest, Reset
<1>13. CASE \E a \in Slots \cup {UNKNOWN} : Commission(a)
  BY <1>13, CommissionVolatile
<1>14. CASE Refresh
  <2>1. /\ mode = "prog" /\ mode' = "prog" /\ pc' = "prog" /\ ctx' = "none"
        /\ CanContinue /\ jr.state = ABORTED /\ UNCHANGED <<jr, journal, meta>>
    BY <1>14 DEF Refresh, Known, Volatile, InMode, durable
  <2>2. \A s \in Slots : ~Has(s, "TRIAL") /\ ~Has(s, "TRIAL")'
    BY <2>1, NoTrial, Numbers DEF Has
  <2>3. ~Underway(jr)' /\ Loaded'
    BY <2>1, Numbers DEF Underway, Loaded, Live, Known, Volatile
  <2>4. Session'
    BY <2>1, <2>2, <2>3 DEF Session
  <2> QED BY <2>1, <2>3, <2>4, AtProg
<1> QED
  BY <1>1, <1>2, <1>3, <1>4, <1>5, <1>6, <1>7, <1>8, <1>9, <1>10, <1>11, <1>12, <1>13, <1>14
  DEF Programming

LEMMA VolatileStep ==
  ASSUME Known, [Next]_vars, MayRot = FALSE
  PROVE  Volatile'
<1>1. CASE Boot
  BY <1>1, RecoveryVolatile, ReconcileVolatile, InitializeVolatile, HandoverVolatile,
     ResolveVolatile, ChoiceVolatile, StartVolatile
  DEF Boot
<1>2. CASE UNCHANGED vars
  <2>1. /\ InMode' /\ Loaded' /\ Saving' /\ Settled'
    BY <1>2 DEF vars, durable, ram, Known, Volatile, InMode, Loaded, Live, Saving, Settled,
                CanContinue, Underway
  <2>2. Ready'
    BY <1>2, Kept DEF vars, durable, ram, Known, Volatile, Ready, CanContinue, Has, Image
  <2>3. Session' /\ Running'
    BY <1>2, Kept DEF vars, durable, ram, Known, Volatile, Session, Running, Underway, Target,
                      Has, JournalPermits, SlotAllowed, Priority
  <2> QED BY <2>1, <2>2, <2>3 DEF Volatile
<1> QED BY <1>1, <1>2, ProgrammingVolatile, RestartVolatile DEF Next

-----------------------------------------------------------------------------
(* Devices leave production with both halves in place.                     *)
LEMMA KnownInit == Init => Durable /\ Volatile
<1> SUFFICES ASSUME Init PROVE Durable /\ Volatile
  OBVIOUS
<1>1. /\ mode = "boot" /\ pc = "recover" /\ ~jfault /\ ctx = "none" /\ jr.status # "VALID"
      /\ req.kind = "none" /\ vouched = {s \in Slots : Has(s, "CONFIRMED")}
  BY DEF Init, NoJournal, NoRequest
<1>2. Volatile
  <2>1. InMode /\ Loaded /\ Saving /\ Settled /\ Ready /\ Running
    BY <1>1 DEF InMode, Loaded, Saving, Settled, Ready, Running
  <2>2. Session
    BY <1>1 DEF Session
  <2> QED BY <2>1, <2>2 DEF Volatile
<1>3. CASE /\ \A s \in Slots : meta[s].status # "VALID"
           /\ Underway(journal) => FirstBoot
           /\ ~LetGo(journal) /\ (Live => journal.active # UNKNOWN)
  BY <1>2, <1>3 DEF Durable, Bare, Vetted, Backed, Placed, Alone, Newer, Asked, OnTrial, Has
<1>4. CASE Factory
  <2>1. /\ \A s \in Slots : meta[s].status # "VALID"
        /\ journal.status # "VALID"
    BY <1>4 DEF Factory, NoMeta, BadMeta, NoJournal, BadJournal
  <2> QED BY <1>3, <2>1 DEF Underway, LetGo, Live
<1>5. CASE Migrated
  <2>1. PICK v \in Versions \ {1} :
          /\ journal = [NoJournal EXCEPT !.status = "VALID", !.active = 0, !.target = 1,
                          !.state = PENDING_ACTIVATION, !.txn = 1, !.header = v]
          /\ meta = [s \in Slots |-> NoMeta]
          /\ flash = [s \in Slots |-> Whole(IF s = 0 THEN 1 ELSE v)]
    BY <1>5 DEF Migrated
  <2>2. journal.state = PENDING_ACTIVATION /\ journal.active = 0
    BY <2>1 DEF NoJournal
  <2>3. (\A s \in Slots : meta[s].status # "VALID") /\ Image(0) = 1
    BY <2>1, Numbers DEF NoMeta, Image, Whole
  <2>4. FirstBoot /\ ~LetGo(journal) /\ journal.active # UNKNOWN
    BY <2>2, <2>3, Numbers DEF FirstBoot, LetGo
  <2> QED BY <1>3, <2>3, <2>4
<1>6. CASE Commissioned
  <2>1. /\ journal.status = "VALID" /\ journal.state = 9
        /\ journal.active = 0 /\ journal.target = 1
    BY <1>6, Numbers DEF Commissioned, NoJournal
  <2>2. /\ meta[0].status = "VALID" /\ meta[0].state = "CONFIRMED" /\ meta[0].version = 1
        /\ meta[1].status # "VALID" /\ Image(0) = 1
    BY <1>6, Numbers DEF Commissioned, NoMeta, Record, Image, Whole
  <2>3. Sure(0) /\ \A s \in Slots : s # 0 => meta[s].status # "VALID"
    BY <1>1, <2>2, Numbers DEF Sure, Good, Has
  <2>4. Bare /\ Vetted /\ Alone
    BY <2>1, <2>2, <2>3, Numbers DEF Bare, Vetted, Alone, Live, Has
  <2>5. Backed /\ Placed /\ Newer /\ Asked
    BY <2>1, <2>2, <2>3, Numbers DEF Backed, Placed, Newer, Asked, OnTrial, LetGo, Has
  <2> QED BY <1>2, <2>4, <2>5 DEF Durable
<1> QED BY <1>4, <1>5, <1>6 DEF Init

LEMMA KnownInvariance ==
  ASSUME MayRot = FALSE
  PROVE  Spec => []Known
<1>1. Init => Durable /\ Volatile
  BY KnownInit
<1>2. Known /\ [Next]_vars => (Durable /\ Volatile)'
  BY DurableStep, VolatileStep
<1>3. TypeInv /\ HandoverInv /\ Durable /\ Volatile <=> Known
  BY DEF Known, TypeInv
<1> QED BY <1>1, <1>2, <1>3, HandoverInvariance, PTL DEF Spec

LEMMA SafeSteps ==
  ASSUME MayRot = FALSE
  PROVE  Spec => [][Safe]_vars
<1>1. Known /\ [Next]_vars => [Safe]_vars
  BY DurableStep
<1> QED BY <1>1, KnownInvariance, PTL DEF Spec

(* While an update waits for its trial or undergoes it, the slot it was    *)
(* started from stays confirmed, whole and vouched for: no interleaving of *)
(* requests, failed writes and power cuts in erase, transfer, hand-over,   *)
(* trial or rollback touches the slot there is to return to.               *)
THEOREM FallbackSafe ==
  ASSUME MayRot = FALSE
  PROVE  Spec => []FallbackKept
<1>1. Known => FallbackKept
  <2> SUFFICES ASSUME Known, NEW s \in Slots, OnTrial(s), journal.active \in Slots
               PROVE  s = journal.target /\ Good(1 - s)
    BY DEF FallbackKept
  <2>1. s = journal.target /\ Sure(journal.active)
    BY DEF Known, Durable, Placed
  <2>2. Live
    BY DEF Known, Durable, Bare, OnTrial, Has
  <2>3. journal.active = 1 - s
    BY <2>1, <2>2, Numbers DEF Known, HandoverInv, Synced, Paired, Live
  <2> QED BY <2>1, <2>3 DEF Sure
<1> QED BY <1>1, KnownInvariance, PTL

(* A device that has a confirmed, whole and vouched-for application has    *)
(* one after every step of the boot code, the programming server, the      *)
(* application, or a reset.                                                *)
THEOREM LastGoodSafe ==
  ASSUME MayRot = FALSE
  PROVE  Spec => LastGoodKept
<1>1. Safe => ((\E s \in Slots : Good(s)) => (\E s \in Slots : Good(s))')
  BY DEF Safe
<1> QED BY <1>1, SafeSteps, PTL DEF LastGoodKept

(* No step changes the image of a slot whose trial has begun: neither the  *)
(* programming server nor recovery is ever directed at it.                 *)
THEOREM TrialImageSafe ==
  ASSUME MayRot = FALSE
  PROVE  Spec => TrialImageKept
<1>1. Safe => \A s \in Slots : Has(s, "TRIAL") => UNCHANGED flash[s]
  BY DEF Safe
<1> QED BY <1>1, SafeSteps, PTL DEF TrialImageKept

(* An update on trial is newer than the good application it would replace: *)
(* the version check of the programming server is not evaded by aborted,   *)
(* repeated or recovered updates.                                          *)
THEOREM NeverDowngrades ==
  ASSUME MayRot = FALSE
  PROVE  Spec => []NoDowngrade
<1>1. Known => NoDowngrade
  <2> SUFFICES ASSUME Known, NEW s \in Slots, Has(s, "TRIAL"), Good(1 - s)
               PROVE  Image(s) > Image(1 - s)
    BY DEF NoDowngrade
  <2>1. LetGo(journal) /\ Live
    BY DEF Known, Durable, Asked, LetGo, Live
  <2>2. s = journal.target /\ Ahead(journal)
    BY <2>1 DEF Known, Durable, Placed, Newer, OnTrial
  <2>3. journal.active # UNKNOWN
    <3>1. 1 - s \in Slots /\ 1 - s # s
      BY Numbers
    <3> QED BY <2>1, <2>2, <3>1 DEF Known, Durable, Alone, Good, Has
  <2>4. journal.active = 1 - s
    <3>1. journal.active \in Slots /\ journal.active # s
      BY <2>1, <2>2, <2>3 DEF Known, TypeOK, Journals, HandoverInv, Synced, Paired, Live
    <3> QED BY <3>1, Numbers
  <2> QED BY <2>2, <2>4, Numbers DEF Ahead
<1> QED BY <1>1, KnownInvariance, PTL

(* What runs as CONFIRMED was commissioned or asked to be confirmed from   *)
(* this very slot content, and whatever runs is described by its metadata: *)
(* the gates of the journal and of the metadata together let nothing else  *)
(* through, in particular not the target of an aborted update.             *)
THEOREM RunsOnlyVouched ==
  ASSUME MayRot = FALSE
  PROVE  Spec => []RunsVouched
<1>1. Known => RunsVouched
  <2> SUFFICES ASSUME Known, pc = "app"
               PROVE  /\ Has(running, "CONFIRMED") => running \in vouched
                      /\ meta[running].version = Image(running)
    BY DEF RunsVouched
  <2>1. running \in Slots /\ Priority(running) # 0 /\ JournalPermits(running)
    BY DEF Known, Located, Volatile, Running
  <2>2. CASE Has(running, "PENDING") \/ Has(running, "TRIAL")
    <3>1. LetGo(journal)
      BY <2>2, StartsHandedOver
    <3> QED BY <2>1, <2>2, <3>1 DEF Known, Durable, Newer, Has
  <2>3. CASE Has(running, "CONFIRMED")
    <3>1. CanContinue /\ jr.state \in {IDLE, ABORTED}
      BY DEF Known, Volatile, Settled
    <3>2. journal = jr /\ jr.active # jr.target
      BY <3>1 DEF Known, HandoverInv, Synced, Paired, CanContinue
    <3>3. running = journal.target => journal.state = IDLE
      BY <2>1, <3>1, <3>2, Numbers DEF JournalPermits, SlotAllowed
    <3>4. Sure(running)
      BY <2>1, <2>3, <3>3 DEF Known, Durable, Vetted
    <3> QED BY <3>4 DEF Sure, Good
  <2> QED BY <2>1, <2>2, <2>3 DEF Priority
<1> QED BY <1>1, KnownInvariance, PTL
-----------------------------------------------------------------------------
(* THE LIFE OF THE DURABLE RECORDS: BootCore implements SlotLife.          *)

(* The state an update is in at each step that moves it on.                *)
Paced ==
  /\ pc = "erasing" => jr.state = PREPARING
  /\ pc \in {"wipe", "ready"} => jr.state = ERASING
  /\ pc = "verifying" => jr.state = TRANSFER_COMPLETE
  /\ pc \in {"verify", "header"} => jr.state = VERIFYING
  /\ pc = "publish" => jr.state \in {VERIFYING, VERIFIED, PENDING_ACTIVATION}
  /\ pc = "mark" => jr.state \in {VERIFYING, VERIFIED}
  /\ ctx \in {"downloading", "received"} => jr.state = PROGRAMMING

(* What was installed has not been started.                                *)
Unstarted ==
  /\ pc = "pend" => meta[jr.target].state = "VERIFIED"
  /\ \A s \in Slots : Has(s, "VERIFIED") \/ Has(s, "PENDING") => meta[s].attempts = 0

LEMMA Stages ==
  /\ IDLE = 0 /\ PREPARING = 1 /\ ERASING = 2 /\ DOWNLOAD_READY = 3 /\ PROGRAMMING = 4
  /\ TRANSFER_COMPLETE = 5 /\ VERIFYING = 6 /\ VERIFIED = 7 /\ PENDING_ACTIVATION = 8
  /\ ABORTED = 9
BY DEF IDLE, PREPARING, ERASING, DOWNLOAD_READY, PROGRAMMING, TRANSFER_COMPLETE, VERIFYING,
       VERIFIED, PENDING_ACTIVATION, ABORTED

(* RAM's copy of the journal after a save of a new state.                  *)
LEMMA StageSaved ==
  ASSUME Known, NEW state \in IDLE .. ABORTED
  PROVE  /\ Saved(Update(state)) => jr'.state = state
         /\ SaveFails(Update(state)) => jr' = jr
BY UpdateFields DEF Known, Saved, SaveFails

LEMMA BootPaced ==
  ASSUME Known, Known', Paced, Boot
  PROVE  Paced'
<1>0. /\ pc' \in {"recover", "verifying", "publish"} => ctx' = "none"
      /\ pc' \in {"erasing", "wipe", "ready", "verify", "header", "mark", "abort"} =>
           ctx' \notin {"downloading", "received"}
  BY DEF Known, Volatile, InMode, Session
<1>1. CASE Recover
  <2>1. PREPARING .. PROGRAMMING = 1 .. 4 /\ jr'.state \in IDLE .. ABORTED /\ IDLE .. ABORTED = 0 .. 9
    BY Stages DEF Known, TypeOK, Journals
  <2>2. ctx' = "none"
    BY <1>1 DEF Recover, Known, Volatile, InMode, Session
  <2> QED BY <1>1, <2>1, <2>2, Stages DEF Recover, Paced
<1>2. CASE AbortUpdate
  <2>1. ctx' \notin {"downloading", "received"}
    BY <1>2 DEF AbortUpdate, Known, Volatile, Session
  <2> QED BY <1>2, <2>1 DEF AbortUpdate, Paced
<1>3. CASE RecoverVerifying
  <2>1. ctx' = "none"
    BY <1>3 DEF RecoverVerifying, Known, Volatile, InMode, Session
  <2>2. Saved(Update(VERIFYING)) => jr'.state = VERIFYING
    BY StageSaved, Stages
  <2> QED BY <1>3, <2>1, <2>2 DEF RecoverVerifying, Paced
<1>4. CASE Publish
  <2>1. ctx' = "none"
    BY <1>4 DEF Publish, Known, Volatile, InMode, Session
  <2> QED BY <1>4, <2>1 DEF Publish, Published, Paced
<1>5. CASE MarkVerified
  <2>1. jr.state = VERIFYING => (Saved(Update(VERIFIED)) => jr'.state = VERIFIED)
    BY StageSaved, Stages
  <2>2. jr.state = VERIFIED \/ jr.state = VERIFYING
    BY <1>5 DEF MarkVerified, Paced
  <2>3. (Update(PENDING_ACTIVATION)).state = PENDING_ACTIVATION
    BY UpdateFields, Stages DEF Known
  <2>4. /\ ctx' \notin {"downloading", "received"}
        /\ pc' \in {"mark", "lifecycle", "prog"}
    BY <1>5 DEF MarkVerified, Known, Volatile, Session
  <2>5. pc' = "mark" => jr'.state = VERIFIED
    BY <1>5, <2>1, <2>2, <2>3, Stages DEF MarkVerified
  <2> QED BY <2>4, <2>5 DEF Paced
<1>6. CASE pc' \in {"recover", "lifecycle", "initialize", "install", "pend", "handoff", "resolve", "check",
                    "select", "jump", "launch", "app", "error", "prog", "refresh"}
           /\ \/ jr' = jr /\ ctx' = ctx
              \/ ctx' = "none"
  BY <1>6 DEF Paced
<1>7. CASE Reconcile \/ InitializeConfirmed \/ InstallVerified \/ SetPending
  BY <1>6, <1>7
  DEF Reconcile, InitializeConfirmed, InstallVerified, SetPending, Failed, Handover
<1>8. CASE CompleteHandoff
  <2>1. ctx' = "none"
    BY <1>8 DEF CompleteHandoff, Known, Volatile, InMode, Session
  <2> QED BY <1>6, <1>8, <2>1 DEF CompleteHandoff, Failed
<1>9. CASE (\E s \in Slots : ResolveExhausted(s)) \/ EndLifecycle \/ CheckConfirm \/ CheckRequest
           \/ CheckApp
  BY <1>6, <1>9
  DEF ResolveExhausted, EndLifecycle, CheckConfirm, CheckRequest, CheckApp, Failed, Done
<1>10. CASE Normalize \/ PrepareBoot \/ Launch
  BY <1>6, <1>10 DEF Normalize, PrepareBoot, Launch, Reset, ClearRam
<1> QED BY <1>1, <1>2, <1>3, <1>4, <1>5, <1>7, <1>8, <1>9, <1>10 DEF Boot

LEMMA ProgrammingPaced ==
  ASSUME Known, Known', Paced, Programming
  PROVE  Paced'
<1>0. /\ pc' \in {"erasing", "wipe", "ready", "verify", "header", "mark", "abort"} =>
           ctx' \notin {"downloading", "received"}
      /\ (Update(ERASING)).state = ERASING /\ (Update(DOWNLOAD_READY)).state = DOWNLOAD_READY
      /\ (Update(PROGRAMMING)).state = PROGRAMMING /\ (Update(VERIFYING)).state = VERIFYING
  BY UpdateFields, Stages DEF Known, Volatile, Session
<1>1. CASE AbortDownload
  BY <1>1 DEF AbortDownload, Paced
<1>2. CASE EraseRequest
  <2> DEFINE next == [NoJournal EXCEPT !.status = "VALID", !.state = PREPARING,
                        !.active = active.slot, !.target = Target, !.txn = jr.txn + 1]
  <2>1. next.state = PREPARING
    BY DEF NoJournal
  <2>2. pc = "prog" /\ ctx' = "none" /\ (pc' = pc \/ (pc' = "erasing" /\ jr' = next))
    BY <1>2 DEF EraseRequest, Saved
  <2> QED BY <2>1, <2>2 DEF Paced
<1>3. CASE StartErasing
  BY <1>0, <1>3 DEF StartErasing, Saved, SaveFails, Known, Volatile, Session, Paced
<1>4. CASE Wipe
  BY <1>0, <1>4 DEF Wipe, ram, Known, Volatile, Session, Paced
<1>5. CASE EraseDone
  BY <1>0, <1>5 DEF EraseDone, Known, Volatile, Session, Paced
<1>6. CASE Download
  BY <1>0, <1>6 DEF Download, Saved, SaveFails, Paced
<1>7. CASE \E v \in Versions, whole \in BOOLEAN : Transfer(v, whole)
  BY <1>7 DEF Transfer, Paced
<1>8. CASE TransferExit
  BY <1>8 DEF TransferExit, SaveFails, Paced
<1>9. CASE VerifyRequest
  BY <1>0, <1>9 DEF VerifyRequest, Saved, SaveFails, Paced
<1>10. CASE VerifyImage
  BY <1>0, <1>10 DEF VerifyImage, ram, Paced
<1>11. CASE PublishHeader
  <2>1. ctx' \notin {"downloading", "received"}
    BY <1>11 DEF PublishHeader, Known, Volatile, Session
  <2> QED BY <1>11, <2>1 DEF PublishHeader, Paced
<1>12. CASE ResetRequest
  BY <1>12 DEF ResetRequest, Reset, ClearRam, Paced
<1>13. CASE \E a \in Slots \cup {UNKNOWN} : Commission(a)
  <2>1. ctx = "none" /\ ctx' = ctx /\ pc' \in {"prog", "lifecycle"}
    BY <1>13 DEF Commission, Known, Volatile, Session, Loaded, Live
  <2> QED BY <2>1 DEF Paced
<1>14. CASE Refresh
  BY <1>14 DEF Refresh, Paced
<1> QED
  BY <1>1, <1>2, <1>3, <1>4, <1>5, <1>6, <1>7, <1>8, <1>9, <1>10, <1>11, <1>12, <1>13, <1>14
  DEF Programming

LEMMA PacedStep ==
  ASSUME Known, Known', Paced, [Next]_vars
  PROVE  Paced'
<1>1. CASE Application
  BY <1>1 DEF Application, AppConfirm, AppRequestProgramming, AppCrash, Reset, ClearRam, Paced
<1>2. CASE Environment
  BY <1>2 DEF Environment, HardwareReset, Rot, Reset, ClearRam, ram, Paced
<1>3. CASE UNCHANGED vars
  BY <1>3 DEF vars, ram, Paced
<1> QED BY <1>1, <1>2, <1>3, BootPaced, ProgrammingPaced DEF Next

(* A metadata commit, failed or not, is of one record; what it may damage  *)
(* was no valid record.                                                    *)
LEMMA CommitOutcome ==
  ASSUME TypeOK, NEW s \in Slots, NEW next, Committed(s, next) \/ CommitFails(s, next)
  PROVE  /\ UNCHANGED journal
         /\ \A o \in Slots : o # s => meta'[o] = meta[o]
         /\ \/ meta'[s] = next \/ meta'[s] = meta[s]
            \/ meta[s].status # "VALID" /\ meta'[s].status # "VALID"
<1>1. meta \in [Slots -> Metas]
  BY DEF TypeOK
<1>2. NoMeta.status # "VALID" /\ BadMeta.status # "VALID"
  BY DEF NoMeta, BadMeta
<1> QED BY <1>1, <1>2 DEF Committed, CommitFails

(* The record a step may write: one fit for Unstarted.                     *)
LEMMA UnstartedCommit ==
  ASSUME TypeOK, Unstarted, NEW s \in Slots, NEW next, Committed(s, next) \/ CommitFails(s, next),
         next.state \in {"VERIFIED", "PENDING"} => next.attempts = 0, pc' # "pend"
  PROVE  Unstarted'
BY CommitOutcome DEF Unstarted, Has

LEMMA BootUnstarted ==
  ASSUME Known, Unstarted, Boot
  PROVE  Unstarted'
<1>0. TypeOK
  BY DEF Known
<1>1. CASE meta' = meta /\ pc' # "pend"
  BY <1>1 DEF Unstarted, Has
<1>2. CASE Recover \/ Publish \/ Reconcile \/ EndLifecycle \/ CheckRequest \/ CheckApp \/ Normalize
           \/ Launch
  BY <1>1, <1>2
  DEF Recover, Publish, Published, Reconcile, Failed, Done, Handover, EndLifecycle, CheckRequest,
      CheckApp, Normalize, Reset, Launch, durable
<1>3. CASE AbortUpdate \/ RecoverVerifying \/ MarkVerified \/ CompleteHandoff
  BY <1>1, <1>3
  DEF AbortUpdate, RecoverVerifying, MarkVerified, CompleteHandoff, Saved, SaveFails, Failed
<1>4. CASE InitializeConfirmed
  <2> DEFINE next == Record("CONFIRMED", Image(jr.active), jr.txn, 0)
  <2>1. next.state = "CONFIRMED"
    BY DEF Record
  <2>2. /\ Committed(jr.active, next) \/ CommitFails(jr.active, next)
        /\ pc' # "pend"
    BY <1>4 DEF InitializeConfirmed, Handover, Failed
  <2>3. jr.active \in Slots
    BY <1>4 DEF InitializeConfirmed, Known, Located
  <2> HIDE DEF next
  <2> QED BY <1>0, <2>1, <2>2, <2>3, UnstartedCommit
<1>5. CASE InstallVerified
  <2> DEFINE next == Record("VERIFIED", Image(jr.target), jr.txn, 0)
  <2>1. next.state = "VERIFIED" /\ next.attempts = 0
    BY DEF Record
  <2>2. /\ \/ Committed(jr.target, next) /\ pc' = "pend"
           \/ CommitFails(jr.target, next) /\ pc' # "pend"
        /\ jr' = jr
    BY <1>5 DEF InstallVerified, Failed
  <2>3. jr.target \in Slots
    BY <1>5, HandingOverFacts DEF InstallVerified
  <2> HIDE DEF next
  <2>4. CASE pc' # "pend"
    BY <1>0, <2>1, <2>2, <2>3, <2>4, UnstartedCommit
  <2>5. CASE pc' = "pend"
    <3>1. meta' = [meta EXCEPT ![jr.target] = next]
      BY <2>2, <2>5 DEF Committed
    <3> QED BY <1>0, <2>1, <2>2, <2>3, <3>1 DEF Unstarted, Has, TypeOK
  <2> QED BY <2>4, <2>5
<1>6. CASE SetPending
  <2> DEFINE next == [meta[jr.target] EXCEPT !.state = "PENDING"]
  <2>1. jr.target \in Slots
    BY <1>6, HandingOverFacts DEF SetPending
  <2>2. Has(jr.target, "VERIFIED")
    BY <1>6 DEF SetPending, Unstarted, Has, Known, HandoverInv, Installed, Carried
  <2>3. next.attempts = 0
    BY <2>1, <2>2, <1>0 DEF Unstarted, TypeOK, Metas
  <2>4. /\ Committed(jr.target, next) \/ CommitFails(jr.target, next)
        /\ pc' # "pend"
    BY <1>6 DEF SetPending, Failed
  <2> HIDE DEF next
  <2> QED BY <1>0, <2>1, <2>3, <2>4, UnstartedCommit
<1>7. CASE \E s \in Slots : ResolveExhausted(s)
  <2>1. PICK s \in Slots : ResolveExhausted(s)
    BY <1>7
  <2> DEFINE next == [meta[s] EXCEPT !.state = "INVALID"]
  <2>2. next.state = "INVALID"
    BY <1>0 DEF TypeOK, Metas
  <2>3. /\ Committed(s, next) \/ CommitFails(s, next)
        /\ pc' # "pend"
    BY <2>1 DEF ResolveExhausted, Failed
  <2> HIDE DEF next
  <2> QED BY <1>0, <2>2, <2>3, UnstartedCommit
<1>8. CASE CheckConfirm
  <2> DEFINE next == [meta[req.slot] EXCEPT !.state = "CONFIRMED", !.attempts = 0]
  <2>1. req.slot \in Slots
    BY <1>0 DEF TypeOK
  <2>2. next.state = "CONFIRMED"
    BY <1>0, <2>1 DEF TypeOK, Metas
  <2>3. /\ Committed(req.slot, next) \/ CommitFails(req.slot, next) \/ UNCHANGED durable
        /\ pc' # "pend"
    BY <1>8 DEF CheckConfirm
  <2> HIDE DEF next
  <2> QED BY <1>0, <1>1, <2>1, <2>2, <2>3, UnstartedCommit DEF durable
<1>9. CASE PrepareBoot
  <2> DEFINE next == Attempt(meta[running])
  <2>1. running \in Slots
    BY <1>9 DEF PrepareBoot, Known, Located
  <2>2. meta[running].state \in {"PENDING", "TRIAL"} => next.state = "TRIAL"
    BY <1>0, <2>1 DEF TypeOK, Metas, Attempt
  <2>3. meta[running].state \notin {"PENDING", "TRIAL"} => next = meta[running]
    BY DEF Attempt
  <2>4. /\ pc' # "pend"
        /\ \/ UNCHANGED durable
           \/ (Committed(running, next) \/ CommitFails(running, next)) /\ Priority(running) # 0
    BY <1>9 DEF PrepareBoot
  <2>5. Priority(running) # 0 => meta[running].state # "VERIFIED"
    BY DEF Priority, Has
  <2> HIDE DEF next
  <2> QED BY <1>0, <1>1, <2>1, <2>2, <2>3, <2>4, <2>5, UnstartedCommit DEF durable
<1> QED BY <1>2, <1>3, <1>4, <1>5, <1>6, <1>7, <1>8, <1>9 DEF Boot

LEMMA UnstartedStep ==
  ASSUME Known, Unstarted, [Next]_vars
  PROVE  Unstarted'
<1>1. CASE meta' = meta /\ (pc' # "pend" \/ UNCHANGED <<pc, jr>>)
  BY <1>1 DEF Unstarted, Has
<1>2. CASE Application
  BY <1>1, <1>2
  DEF Application, AppConfirm, AppRequestProgramming, AppCrash, Reset, ClearRam, durable
<1>3. CASE Environment
  BY <1>1, <1>3 DEF Environment, HardwareReset, Rot, Reset, ram, durable
<1>4. CASE Programming
  BY <1>1, <1>4
  DEF Programming, AbortDownload, EraseRequest, StartErasing, Wipe, EraseDone, Download, Transfer,
      TransferExit, VerifyRequest, VerifyImage, PublishHeader, ResetRequest, Commission, Refresh,
      Saved, SaveFails, Reset, durable
<1>5. CASE UNCHANGED vars
  BY <1>1, <1>5 DEF vars, ram, durable
<1> QED BY <1>2, <1>3, <1>4, <1>5, BootUnstarted DEF Next

(* Known with what was just added.                                         *)
LifeInv == Known /\ Paced /\ Unstarted

LEMMA LifeInvariance ==
  ASSUME MayRot = FALSE
  PROVE  Spec => []LifeInv
<1>1. Init => Paced
  BY DEF Init, Paced
<1>2. ASSUME Init PROVE Unstarted
  <2>1. pc = "recover"
    BY <1>2 DEF Init
  <2>2. CASE Factory \/ Migrated
    <3>1. meta \in [Slots -> {NoMeta, BadMeta}]
      BY <2>2 DEF Factory, Migrated
    <3>2. \A s \in Slots : meta[s].status # "VALID"
      BY <3>1 DEF NoMeta, BadMeta
    <3> QED BY <2>1, <3>2 DEF Unstarted, Has
  <2>3. CASE Commissioned
    <3>1. \A s \in Slots : meta[s].attempts = 0
      BY <2>3 DEF Commissioned, NoMeta, Record
    <3> QED BY <2>1, <3>1 DEF Unstarted
  <2> QED BY <1>2, <2>2, <2>3 DEF Init
<1>3. Known /\ Known' /\ Paced /\ Unstarted /\ [Next]_vars => (Paced /\ Unstarted)'
  BY PacedStep, UnstartedStep
<1> QED BY <1>1, <1>2, <1>3, KnownInvariance, PTL DEF Spec, LifeInv

(* The records as SlotLife sees them.                                      *)
Records == [s \in Slots |-> RecordSeen(meta[s])]
Lives == Life!Next \/ UNCHANGED <<JournalSeen(journal), Records>>

LEMMA Named ==
  /\ Life!Slots = Slots /\ Life!NOBODY = UNKNOWN /\ Life!NONE = -1 /\ Life!IDLE = 0
  /\ Life!PREPARING = 1 /\ Life!WAITING = 8 /\ Life!ABORTED = 9
  /\ Slots = {0, 1} /\ UNKNOWN = 2
BY DEF Life!Slots, Life!NOBODY, Life!NONE, Life!IDLE, Life!PREPARING, Life!WAITING,
       Life!ABORTED, Slots, UNKNOWN

(* What is in a record that is seen.                                       *)
LEMMA SeenFields ==
  ASSUME NEW s \in Slots, meta[s].status = "VALID"
  PROVE  /\ Records[s] = [state |-> meta[s].state, version |-> meta[s].version,
                          counter |-> meta[s].counter, attempts |-> meta[s].attempts]
         /\ Records[s].state = meta[s].state /\ Records[s].counter = meta[s].counter
         /\ Records[s].attempts = meta[s].attempts
BY DEF Records, RecordSeen

LEMMA Seen ==
  ASSUME NEW s \in Slots, meta[s].status = "VALID", NEW t
  PROVE  Life!In(s, t) <=> Has(s, t)
BY SeenFields DEF Records, Life!In, Has

LEMMA Unseen ==
  ASSUME NEW s \in Slots, meta[s].status # "VALID"
  PROVE  Records[s] = Life!NoRecord /\ ~Life!In(s, "TRIAL")
BY DEF Records, RecordSeen, Life!NoRecord, Life!In

LEMMA StillLife ==
  ASSUME UNCHANGED <<journal, meta>>
  PROVE  Lives
BY DEF Lives, Records

(* The journal moves on by one state.                                      *)
LEMMA Advances ==
  ASSUME Known, NEW state \in Before \cup {PENDING_ACTIVATION}, state = jr.state + 1,
         jr.state \in Before, NEW next,
         next.status = jr.status, next.state = state, next.active = jr.active,
         next.target = jr.target, next.txn = jr.txn, Saved(next) \/ SaveFails(next)
  PROVE  Lives
<1>1. meta' = meta /\ (journal' = journal \/ (CanContinue /\ journal' = next))
  BY DEF Saved, SaveFails
<1>2. CASE journal' = journal
  BY <1>1, <1>2, StillLife
<1>3. CASE CanContinue /\ journal' = next
  <2>1. journal = jr /\ jr.status = "VALID"
    BY <1>3 DEF CanContinue, Known, HandoverInv, Synced
  <2>2. JournalSeen(journal)' = [JournalSeen(journal) EXCEPT !.state = @ + 1]
    BY <1>3, <2>1 DEF JournalSeen
  <2>3. JournalSeen(journal).state \in 1 .. 8 - 1
    BY <2>1, Numbers DEF JournalSeen
  <2>4. Life!Advance
    BY <2>2, <2>3, Named DEF Life!Advance
  <2> QED BY <1>1, <2>4 DEF Lives, Life!Next, Life!UpdateStep
<1> QED BY <1>1, <1>2, <1>3

LEMMA AdvancesTo ==
  ASSUME Known, NEW state \in Before \cup {PENDING_ACTIVATION}, state = jr.state + 1,
         jr.state \in Before, Saved(Update(state)) \/ SaveFails(Update(state))
  PROVE  Lives
<1> DEFINE next == Update(state)
<1>1. /\ next.status = jr.status /\ next.state = state
      /\ next.active = jr.active /\ next.target = jr.target /\ next.txn = jr.txn
  <2>1. state \in IDLE .. ABORTED
    BY Numbers
  <2> QED BY <2>1, UpdateFields DEF Known
<1> HIDE DEF next
<1>2. Saved(next) \/ SaveFails(next)
  BY DEF next
<1> QED BY <1>1, <1>2, Advances

LEMMA Aborts ==
  ASSUME Known, jr.status = "VALID" => Underway(jr), Saved(Aborted) \/ SaveFails(Aborted)
  PROVE  Lives
<1>1. /\ Aborted.status = jr.status /\ Aborted.state = ABORTED /\ Aborted.txn = jr.txn
      /\ Aborted.active = jr.active /\ Aborted.target = jr.target
  BY DEF Aborted, Update, Known, TypeOK, Journals
<1>2. meta' = meta /\ (journal' = journal \/ (CanContinue /\ journal' = Aborted))
  BY DEF Saved, SaveFails
<1>3. CASE journal' = journal
  BY <1>2, <1>3, StillLife
<1>4. CASE CanContinue /\ journal' = Aborted
  <2>1. journal = jr /\ jr.status = "VALID"
    BY <1>4 DEF CanContinue, Known, HandoverInv, Synced
  <2>2. JournalSeen(journal)' = [JournalSeen(journal) EXCEPT !.state = 9]
    BY <1>1, <1>4, <2>1, Numbers DEF JournalSeen
  <2>3. JournalSeen(journal).state \in 1 .. 8
    BY <2>1, Numbers DEF JournalSeen, Underway
  <2>4. Life!Abort
    BY <2>2, <2>3, Named DEF Life!Abort
  <2> QED BY <1>2, <2>4 DEF Lives, Life!Next, Life!UpdateStep, Records
<1> QED BY <1>2, <1>3, <1>4

(* FF02 creates the journal of a device none of whose slots has a record.  *)
LEMMA Creates ==
  ASSUME Known, NEW a \in Slots \cup {UNKNOWN}, Commission(a)
  PROVE  Lives
<1> DEFINE next == [NoJournal EXCEPT !.status = "VALID", !.state = ABORTED, !.active = a,
                      !.target = IF a = 0 THEN 1 ELSE 0, !.commissioned = TRUE]
<1>1. /\ meta' = meta /\ journal.status # "VALID"
      /\ journal' = next \/ journal' \in {NoJournal, BadJournal}
  BY DEF Commission
<1>2. JournalSeen(journal) = Life!NoUpdate
  BY <1>1 DEF JournalSeen, Life!NoUpdate, Life!NONE, Life!NOBODY, UNKNOWN
<1>3. CASE journal' \in {NoJournal, BadJournal}
  <2>1. JournalSeen(journal)' = JournalSeen(journal)
    BY <1>1, <1>3 DEF JournalSeen, NoJournal, BadJournal
  <2> QED BY <1>1, <2>1 DEF Lives, Records
<1>4. CASE journal' = next
  <2>1. \A s \in Slots : meta[s].status # "VALID"
    BY <1>1 DEF Known, Durable, Bare, Live
  <2>2. Life!Bare
    BY <2>1, Unseen, Named DEF Life!Bare, Records
  <2>3. JournalSeen(journal)' = [state |-> 9, active |-> a, target |-> next.target, txn |-> 0]
    BY <1>4, Numbers DEF JournalSeen, NoJournal
  <2>4. next.target \in Slots \ {a}
    BY Numbers DEF NoJournal
  <2>5. Life!Create
    BY <1>2, <2>2, <2>3, <2>4, Named DEF Life!Create
  <2> QED BY <1>1, <2>5 DEF Lives, Life!Next, Life!UpdateStep, Records
<1> QED BY <1>1, <1>3, <1>4

(* An erase request starts the next update.                                *)
LEMMA Begins ==
  ASSUME Known, EraseRequest
  PROVE  Lives
<1> DEFINE next == [NoJournal EXCEPT !.status = "VALID", !.state = PREPARING,
                      !.active = active.slot, !.target = Target, !.txn = jr.txn + 1]
<1>1. /\ meta' = meta /\ CanContinue /\ CanStartUpdate /\ mode = "prog" /\ ~lfault
      /\ journal' = journal \/ (MayBegin /\ journal' = next)
  BY DEF EraseRequest, Saved, SaveFails, CanStartUpdate, durable, Known, Volatile, InMode
<1>2. CASE journal' = journal
  BY <1>1, <1>2, StillLife
<1>3. CASE MayBegin /\ journal' = next
  <2>1. journal = jr /\ jr.status = "VALID"
    BY <1>1 DEF CanContinue, Known, HandoverInv, Synced
  <2>2. jr.state \in {0, 8, 9}
    BY <1>3, Stages DEF MayBegin, TransitionAllowed
  <2>3. JournalSeen(journal).state \in {0, 8, 9} /\ JournalSeen(journal).txn = jr.txn
    BY <2>1, <2>2 DEF JournalSeen
  <2>4. \A s \in Slots : Has(s, "TRIAL") => active.slot = s
    BY <1>1 DEF Known, Volatile, Session
  <2>5. \A s \in Slots : ~Has(s, "TRIAL")
    BY <1>1, <2>4, Numbers DEF CanStartUpdate, Has
  <2>6. \A s \in Slots : ~Life!In(s, "TRIAL")
    BY <2>5, Seen, Unseen
  <2>7. /\ active.slot \in Slots \cup {UNKNOWN} /\ Target \in Slots \ {active.slot}
    BY Numbers DEF Known, TypeOK, Target
  <2>8. IF active.slot = UNKNOWN THEN Life!Bare ELSE Life!In(active.slot, "CONFIRMED")
    <3>1. CASE active.slot = UNKNOWN
      BY <1>1, <3>1, Unseen, Named DEF CanStartUpdate, Life!Bare, Records
    <3>2. CASE active.slot # UNKNOWN
      BY <1>1, <2>7, <3>2, Seen DEF CanStartUpdate, Has
    <3> QED BY <3>1, <3>2
  <2>9. JournalSeen(journal)' = [state |-> 1, active |-> active.slot, target |-> Target,
                                 txn |-> jr.txn + 1]
    BY <1>3, Stages DEF JournalSeen, NoJournal
  <2>10. Life!Begin
    BY <2>3, <2>6, <2>7, <2>8, <2>9, Named DEF Life!Begin
  <2> QED BY <1>1, <2>10 DEF Lives, Life!Next, Life!UpdateStep, Records
<1> QED BY <1>1, <1>2, <1>3

(* The journal lets go of an update whose record is in place.              *)
LEMMA LetsGo ==
  ASSUME Known, CompleteHandoff
  PROVE  Lives
<1> DEFINE next == Update(IDLE)
<1>1. meta' = meta /\ (journal' = journal \/ journal' = next)
  BY DEF CompleteHandoff, Saved, SaveFails
<1>2. /\ journal = jr /\ jr.status = "VALID" /\ jr.state = 8 /\ jr.target \in Slots
      /\ Carried(meta[jr.target], jr.txn) /\ meta[jr.target].state = "PENDING"
  BY HandingOverFacts, Numbers
  DEF CompleteHandoff, Underway, Known, Volatile, Ready, Pending, HandoverInv, Installed
<1>3. /\ next.status = jr.status /\ next.state = 0
      /\ next.active = jr.active /\ next.target = jr.target /\ next.txn = jr.txn
  BY UpdateFields, Stages DEF Known
<1> HIDE DEF next
<1>4. CASE journal' = next
  <2>1. /\ JournalSeen(journal)' = [JournalSeen(journal) EXCEPT !.state = 0]
        /\ JournalSeen(journal) = [state |-> 8, active |-> jr.active, target |-> jr.target,
                                   txn |-> jr.txn]
    BY <1>2, <1>3, <1>4 DEF JournalSeen
  <2>2. Life!In(jr.target, "PENDING") /\ Records[jr.target].counter = jr.txn
    <3>1. meta[jr.target].status = "VALID" /\ meta[jr.target].counter = jr.txn
      BY <1>2 DEF Carried
    <3>2. Has(jr.target, "PENDING")
      BY <1>2, <3>1 DEF Has
    <3>3. Life!In(jr.target, "PENDING")
      BY <1>2, <3>1, <3>2, Seen
    <3>4. Records[jr.target].counter = jr.txn
      BY <1>2, <3>1, SeenFields
    <3> QED BY <3>3, <3>4
  <2>3. Life!LetGo
    BY <2>1, <2>2, Named DEF Life!LetGo, Records
  <2> QED BY <1>1, <2>3 DEF Lives, Life!Next, Life!UpdateStep, Records
<1> QED BY <1>1, <1>4, StillLife
-----------------------------------------------------------------------------
(* A metadata commit is seen as one new record, or not at all.             *)
LEMMA CommitSeen ==
  ASSUME TypeOK, NEW s \in Slots, NEW next, next.status = "VALID",
         Committed(s, next) \/ CommitFails(s, next)
  PROVE  /\ UNCHANGED JournalSeen(journal)
         /\ Records' = Records \/ Records' = [Records EXCEPT ![s] = RecordSeen(next)]
<1>1. journal' = journal
  BY CommitOutcome
<1>2. \A o \in Slots : o # s => meta'[o] = meta[o]
  BY CommitOutcome
<1>3. CASE meta'[s] = next
  <2>1. \A o \in Slots : Records'[o] = [Records EXCEPT ![s] = RecordSeen(next)][o]
    BY <1>2, <1>3 DEF Records
  <2>2. Records' = [Records EXCEPT ![s] = RecordSeen(next)]
    BY <2>1 DEF Records
  <2> QED BY <1>1, <2>2
<1>4. CASE meta'[s] = meta[s] \/ (meta[s].status # "VALID" /\ meta'[s].status # "VALID")
  <2>1. \A o \in Slots : RecordSeen(meta'[o]) = RecordSeen(meta[o])
    BY <1>2, <1>4 DEF RecordSeen
  <2> QED BY <1>1, <2>1 DEF Records
<1> QED BY <1>3, <1>4, CommitOutcome

(* How a changed record is seen.                                           *)
LEMMA ChangeSeen ==
  ASSUME NEW s \in Slots, meta[s].status = "VALID", NEW next, next.status = "VALID",
         next.version = meta[s].version, next.counter = meta[s].counter
  PROVE  /\ RecordSeen(next)
              = [Records[s] EXCEPT !.state = next.state, !.attempts = next.attempts]
         /\ next.attempts = meta[s].attempts =>
              RecordSeen(next) = [Records[s] EXCEPT !.state = next.state]
<1> DEFINE r == [state |-> meta[s].state, version |-> meta[s].version,
                 counter |-> meta[s].counter, attempts |-> meta[s].attempts]
           n == [state |-> next.state, version |-> next.version,
                 counter |-> next.counter, attempts |-> next.attempts]
<1>1. Records[s] = r
  BY SeenFields
<1>2. RecordSeen(next) = n
  BY DEF RecordSeen
<1>3. [r EXCEPT !.state = next.state, !.attempts = next.attempts] = n
  <2> DEFINE e == [r EXCEPT !.state = next.state, !.attempts = next.attempts]
  <2>1. DOMAIN r = {"state", "version", "counter", "attempts"} /\ DOMAIN n = DOMAIN r
    OBVIOUS
  <2>2. n = [f \in DOMAIN r |-> n[f]] /\ r = [f \in DOMAIN r |-> r[f]]
    BY <2>1
  <2>3. DOMAIN e = DOMAIN r /\ e = [f \in DOMAIN r |-> e[f]]
    BY <2>2
  <2>4. /\ e["state"] = next.state /\ e["attempts"] = next.attempts
        /\ e["version"] = meta[s].version /\ e["counter"] = meta[s].counter
    OBVIOUS
  <2>5. /\ n["state"] = next.state /\ n["attempts"] = next.attempts
        /\ n["version"] = meta[s].version /\ n["counter"] = meta[s].counter
    OBVIOUS
  <2>6. e = n
    <3> HIDE DEF e, n, r
    <3>1. \A f \in DOMAIN r : e[f] = n[f]
      BY <2>1, <2>4, <2>5
    <3> QED BY <2>2, <2>3, <3>1
  <2> QED BY <2>6
<1>4. next.attempts = meta[s].attempts => [r EXCEPT !.state = next.state] = n
  OBVIOUS
<1> HIDE DEF r, n
<1> QED BY <1>1, <1>2, <1>3, <1>4

LEMMA CommitLives ==
  ASSUME TypeOK, NEW s \in Slots, NEW next, next.status = "VALID",
         Committed(s, next) \/ CommitFails(s, next),
         Life!Becomes(s, RecordSeen(next)) => Life!SlotStep(s)
  PROVE  Lives
<1>1. CASE Records' = Records
  BY <1>1, CommitSeen DEF Lives
<1>2. CASE Records' = [Records EXCEPT ![s] = RecordSeen(next)]
  <2>1. Life!SlotStep(s)
    BY <1>2 DEF Life!Becomes, Records
  <2> QED BY <2>1, CommitSeen, Named DEF Lives, Life!Next
<1> QED BY <1>1, <1>2, CommitSeen

LEMMA ImageVersion ==
  ASSUME TypeOK, NEW s \in Slots, Image(s) # 0
  PROVE  Image(s) \in Versions
BY ImageType DEF Payloads

LEMMA Adopts ==
  ASSUME Known, InitializeConfirmed
  PROVE  Lives
<1> DEFINE s == jr.active
           next == Record("CONFIRMED", Image(s), jr.txn, 0)
<1>1. /\ TypeOK /\ s \in Slots /\ (Committed(s, next) \/ CommitFails(s, next))
  BY DEF InitializeConfirmed, Known, Located
<1>2. /\ journal = jr /\ jr.status = "VALID" /\ jr.state \in {8, 9}
      /\ Image(s) # 0 /\ meta[s].status # "VALID"
  BY Numbers DEF InitializeConfirmed, Known, Volatile, Ready, HandoverInv, Holds, HandingOver, Synced
<1>3. /\ next.status = "VALID"
      /\ RecordSeen(next) = [state |-> "CONFIRMED", version |-> Image(s), counter |-> jr.txn,
                             attempts |-> 0]
  BY DEF Record, RecordSeen
<1>4. Image(s) \in Versions /\ Records[s] = Life!NoRecord
  BY <1>1, <1>2, ImageVersion, Unseen
<1>5. JournalSeen(journal).state \in {8, 9} /\ JournalSeen(journal).active = s
      /\ JournalSeen(journal).txn = jr.txn
  BY <1>2 DEF JournalSeen
<1> HIDE DEF next, s
<1>6. Life!Becomes(s, RecordSeen(next)) => Life!Adopt(s)
  BY <1>3, <1>4, <1>5, Named DEF Life!Adopt, Life!New, Records
<1> QED BY <1>1, <1>3, <1>6, CommitLives DEF Life!SlotStep

(* What the hand-over knows of the update it carries.                      *)
LEMMA HeldUpdate ==
  ASSUME Known, pc \in {"install", "pend"}
  PROVE  /\ TypeOK /\ jr.target \in Slots /\ Life!Held(jr.target) /\ journal = jr
         /\ JournalSeen(journal).txn = jr.txn
<1>1. /\ journal = jr /\ jr.target \in Slots
      /\ jr.status = "VALID" /\ jr.state = 8
      /\ jr.active \in Slots => Has(jr.active, "CONFIRMED")
  BY HandingOverFacts, Numbers DEF Underway, Known, Volatile, Ready, Pending
<1>2. JournalSeen(journal) = [state |-> 8, active |-> jr.active, target |-> jr.target,
                              txn |-> jr.txn]
  BY <1>1 DEF JournalSeen
<1>3. jr.active \in Slots => Life!In(jr.active, "CONFIRMED")
  BY <1>1, Seen DEF Has
<1>4. Life!Held(jr.target)
  BY <1>2, <1>3, Named DEF Life!Held
<1> QED BY <1>1, <1>2, <1>4 DEF Known

LEMMA Installs ==
  ASSUME Known, InstallVerified
  PROVE  Lives
<1> DEFINE s == jr.target
           next == Record("VERIFIED", Image(s), jr.txn, 0)
<1>1. pc = "install" /\ (Committed(s, next) \/ CommitFails(s, next))
  BY DEF InstallVerified
<1>2. TypeOK /\ s \in Slots /\ Life!Held(s) /\ journal = jr /\ JournalSeen(journal).txn = jr.txn
  BY <1>1, HeldUpdate
<1>3. Pending /\ Image(s) # 0
  BY <1>1 DEF Known, Volatile, Ready, Ahead
<1>4. ~Life!In(s, "TRIAL")
  <2>1. ~Has(s, "TRIAL")
    BY <1>2, <1>3, Numbers DEF Known, Durable, Asked, LetGo, Pending
  <2> QED BY <1>2, <2>1, Seen, Unseen
<1>5. /\ next.status = "VALID"
      /\ RecordSeen(next) = [state |-> "VERIFIED", version |-> Image(s), counter |-> jr.txn,
                             attempts |-> 0]
  BY DEF Record, RecordSeen
<1>6. Image(s) \in Versions
  BY <1>2, <1>3, ImageVersion
<1> HIDE DEF next, s
<1>7. Life!Becomes(s, RecordSeen(next)) => Life!Install(s)
  BY <1>2, <1>4, <1>5, <1>6 DEF Life!Install, Life!New
<1> QED BY <1>1, <1>2, <1>5, <1>7, CommitLives DEF Life!SlotStep

LEMMA Pends ==
  ASSUME Known, Unstarted, SetPending
  PROVE  Lives
<1> DEFINE s == jr.target
           next == [meta[s] EXCEPT !.state = "PENDING"]
<1>1. pc = "pend" /\ (Committed(s, next) \/ CommitFails(s, next))
  BY DEF SetPending
<1>2. TypeOK /\ s \in Slots /\ Life!Held(s) /\ journal = jr /\ JournalSeen(journal).txn = jr.txn
  BY <1>1, HeldUpdate
<1>3. meta[s].status = "VALID" /\ meta[s].state = "VERIFIED" /\ meta[s].counter = jr.txn
  BY <1>1 DEF Unstarted, Known, HandoverInv, Installed, Carried
<1>4. Life!In(s, "VERIFIED") /\ Records[s].counter = jr.txn
  <2>1. Has(s, "VERIFIED")
    BY <1>3 DEF Has
  <2>2. Life!In(s, "VERIFIED")
    BY <1>2, <1>3, <2>1, Seen
  <2>3. Records[s].counter = jr.txn
    BY <1>2, <1>3, SeenFields
  <2> QED BY <2>2, <2>3
<1>6. next.status = "VALID" /\ RecordSeen(next) = [Records[s] EXCEPT !.state = "PENDING"]
  <2>1. meta[s] \in Metas
    BY <1>2 DEF TypeOK
  <2>2. /\ next.status = "VALID" /\ next.state = "PENDING" /\ next.version = meta[s].version
        /\ next.counter = meta[s].counter /\ next.attempts = meta[s].attempts
    BY <1>3, <2>1 DEF Metas
  <2> HIDE DEF next, s
  <2>3. RecordSeen(next) = [Records[s] EXCEPT !.state = next.state]
    BY <1>2, <1>3, <2>2, ChangeSeen
  <2> QED BY <2>2, <2>3
<1> HIDE DEF next, s
<1>7. Life!Becomes(s, RecordSeen(next)) => Life!Pend(s)
  BY <1>2, <1>4, <1>6 DEF Life!Pend, Records
<1> QED BY <1>1, <1>2, <1>6, <1>7, CommitLives DEF Life!SlotStep

(* An image that may start, or is on trial, is the one the journal let go. *)
LEMMA TriedSlot ==
  ASSUME Known, NEW s \in Slots, Has(s, "PENDING") \/ Has(s, "TRIAL"), LetGo(journal)
  PROVE  Life!Tried(s)
<1>1. s = journal.target
  BY DEF Known, Durable, Placed, OnTrial
<1>2. meta[s].status = "VALID" /\ meta[s].counter = journal.txn
  BY <1>1 DEF Known, HandoverInv, Accepted, Carried
<1>3. Records[s].counter = journal.txn
  BY <1>2, SeenFields
<1>4. JournalSeen(journal) = [state |-> 0, active |-> journal.active, target |-> journal.target,
                              txn |-> journal.txn]
  BY Numbers DEF JournalSeen, LetGo
<1> QED BY <1>1, <1>3, <1>4, Named DEF Life!Tried, Records

LEMMA TrialTried ==
  ASSUME Known, NEW s \in Slots, Has(s, "TRIAL")
  PROVE  /\ Life!Tried(s) /\ Life!In(s, "TRIAL")
         /\ meta[s].status = "VALID" /\ meta[s].state = "TRIAL" /\ meta[s] \in Metas
<1>1. meta[s].status = "VALID" /\ meta[s].state = "TRIAL" /\ meta[s] \in Metas
  BY DEF Has, Known, TypeOK
<1>2. LetGo(journal)
  BY DEF Known, Durable, Asked
<1>3. Life!In(s, "TRIAL")
  BY <1>1, Seen
<1> QED BY <1>1, <1>2, <1>3, TriedSlot

LEMMA Rejects ==
  ASSUME Known, NEW s \in Slots, ResolveExhausted(s)
  PROVE  Lives
<1> DEFINE next == [meta[s] EXCEPT !.state = "INVALID"]
<1>1. Exhausted(s) /\ (Committed(s, next) \/ CommitFails(s, next))
  BY DEF ResolveExhausted
<1>2. /\ Life!Tried(s) /\ Life!In(s, "TRIAL") /\ meta[s].status = "VALID" /\ meta[s] \in Metas
  BY <1>1, TrialTried DEF Exhausted
<1>3. Records[s].attempts = MaxAttempts
  <2>1. meta[s].attempts >= MaxAttempts /\ meta[s].attempts \in 0 .. MaxAttempts
    BY <1>1, <1>2 DEF Exhausted, Metas
  <2>2. meta[s].attempts = MaxAttempts
    BY <2>1, MaxAttemptsAssumption
  <2> QED BY <1>2, <2>2, SeenFields
<1>4. next.status = "VALID" /\ RecordSeen(next) = [Records[s] EXCEPT !.state = "INVALID"]
  <2>1. /\ next.status = "VALID" /\ next.state = "INVALID" /\ next.version = meta[s].version
        /\ next.counter = meta[s].counter /\ next.attempts = meta[s].attempts
    BY <1>2 DEF Metas
  <2> HIDE DEF next
  <2>2. RecordSeen(next) = [Records[s] EXCEPT !.state = next.state]
    BY <1>2, <2>1, ChangeSeen
  <2> QED BY <2>1, <2>2
<1> HIDE DEF next
<1>5. Life!Becomes(s, RecordSeen(next)) => Life!Reject(s)
  BY <1>2, <1>3, <1>4 DEF Life!Reject, Records
<1> QED BY <1>1, <1>4, <1>5, CommitLives DEF Life!SlotStep, Known

LEMMA Confirms ==
  ASSUME Known, CheckConfirm
  PROVE  Lives
<1> DEFINE s == req.slot
           next == [meta[s] EXCEPT !.state = "CONFIRMED", !.attempts = 0]
<1>1. CASE UNCHANGED durable
  BY <1>1, StillLife DEF durable
<1>2. CASE Confirmable(s) /\ (Committed(s, next) \/ CommitFails(s, next))
  <2>1. s \in Slots /\ TypeOK
    BY DEF Known, TypeOK
  <2>2. /\ Life!Tried(s) /\ Life!In(s, "TRIAL") /\ meta[s].status = "VALID" /\ meta[s] \in Metas
    BY <1>2, <2>1, TrialTried DEF Confirmable
  <2>3. /\ next.status = "VALID"
        /\ RecordSeen(next) = [Records[s] EXCEPT !.state = "CONFIRMED", !.attempts = 0]
    <3>1. /\ next.status = "VALID" /\ next.state = "CONFIRMED" /\ next.attempts = 0
          /\ next.version = meta[s].version /\ next.counter = meta[s].counter
      BY <2>2 DEF Metas
    <3> HIDE DEF next, s
    <3>2. RecordSeen(next) = [Records[s] EXCEPT !.state = next.state, !.attempts = next.attempts]
      BY <2>1, <2>2, <3>1, ChangeSeen
    <3> QED BY <3>1, <3>2
  <2> HIDE DEF next, s
  <2>4. Life!Becomes(s, RecordSeen(next)) => Life!Confirm(s)
    BY <2>2, <2>3 DEF Life!Confirm, Records
  <2> QED BY <1>2, <2>1, <2>3, <2>4, CommitLives DEF Life!SlotStep
<1> QED BY <1>1, <1>2 DEF CheckConfirm

LEMMA StartsLife ==
  ASSUME Known, Unstarted, PrepareBoot
  PROVE  Lives
<1> DEFINE s == running
           next == Attempt(meta[s])
<1>1. pc = "jump" /\ s \in Slots /\ TypeOK
  BY DEF PrepareBoot, Known, Located
<1>2. CASE UNCHANGED durable
  BY <1>2, StillLife DEF durable
<1>3. CASE /\ Priority(s) # 0 /\ ~UsedUp(meta[s])
           /\ Committed(s, next) \/ CommitFails(s, next)
  <2>1. CASE Has(s, "CONFIRMED")
    <3>1. next = meta[s] /\ meta[s].status = "VALID"
      BY <2>1 DEF Attempt, Has
    <3>2. RecordSeen(next) = Records[s] /\ Records = [Records EXCEPT ![s] = Records[s]]
      BY <1>1, <3>1 DEF Records
    <3> HIDE DEF next
    <3>3. Records' = Records /\ UNCHANGED JournalSeen(journal)
      BY <1>1, <1>3, <3>1, <3>2, CommitSeen
    <3> QED BY <3>3 DEF Lives
  <2>2. CASE Has(s, "PENDING") \/ Has(s, "TRIAL")
    <3>1. LetGo(journal)
      BY <1>1, <2>2, StartsHandedOver
    <3>2. Life!Tried(s)
      BY <1>1, <2>2, <3>1, TriedSlot
    <3>3. meta[s] \in Metas /\ meta[s].status = "VALID"
      BY <1>1, <2>2 DEF TypeOK, Has
    <3>4. \/ Life!In(s, "PENDING") /\ Records[s].attempts = 0
          \/ Life!In(s, "TRIAL") /\ Records[s].attempts < MaxAttempts
      <4>1. CASE Has(s, "PENDING")
        <5>1. meta[s].attempts = 0
          BY <1>1, <4>1 DEF Unstarted
        <5>2. Life!In(s, "PENDING")
          BY <1>1, <3>3, <4>1, Seen
        <5> QED BY <1>1, <3>3, <5>1, <5>2, SeenFields
      <4>2. CASE Has(s, "TRIAL")
        <5>1. meta[s].attempts < MaxAttempts
          BY <1>3, <3>3, <4>2, MaxAttemptsAssumption DEF UsedUp, Has, Metas
        <5>2. Life!In(s, "TRIAL")
          BY <1>1, <3>3, <4>2, Seen
        <5> QED BY <1>1, <3>3, <5>1, <5>2, SeenFields
      <4> QED BY <2>2, <4>1, <4>2
    <3>5. next = [meta[s] EXCEPT !.state = "TRIAL", !.attempts = @ + 1]
      <4>1. CASE Has(s, "PENDING")
        <5>1. meta[s].attempts = 0 /\ meta[s].state = "PENDING"
          BY <1>1, <4>1 DEF Unstarted, Has
        <5> QED BY <5>1 DEF Attempt
      <4>2. CASE Has(s, "TRIAL")
        <5>1. meta[s].state = "TRIAL"
          BY <4>2 DEF Has
        <5> QED BY <3>3, <5>1 DEF Attempt, Metas
      <4> QED BY <2>2, <4>1, <4>2
    <3>6. /\ next.status = "VALID"
          /\ RecordSeen(next) = [Records[s] EXCEPT !.state = "TRIAL", !.attempts = @ + 1]
      <4>1. /\ next.status = "VALID" /\ next.state = "TRIAL"
            /\ next.attempts = meta[s].attempts + 1
            /\ next.version = meta[s].version /\ next.counter = meta[s].counter
        BY <3>3, <3>5 DEF Metas
      <4> HIDE DEF next, s
      <4>2. RecordSeen(next) = [Records[s] EXCEPT !.state = next.state, !.attempts = next.attempts]
        BY <1>1, <3>3, <4>1, ChangeSeen
      <4>3. Records[s].attempts = meta[s].attempts
        BY <1>1, <3>3, SeenFields
      <4> QED BY <4>1, <4>2, <4>3
    <3> HIDE DEF next, s
    <3>7. Life!Becomes(s, RecordSeen(next)) => Life!Start(s)
      BY <3>2, <3>4, <3>6 DEF Life!Start, Records
    <3> QED BY <1>1, <1>3, <3>6, <3>7, CommitLives DEF Life!SlotStep
  <2> QED BY <1>3, <2>1, <2>2 DEF Priority
<1> QED BY <1>2, <1>3 DEF PrepareBoot
-----------------------------------------------------------------------------
LEMMA BootLives ==
  ASSUME LifeInv, Boot
  PROVE  Lives
<1>0. Known /\ Paced /\ Unstarted
  BY DEF LifeInv
<1>1. CASE AbortUpdate
  <2>1. Underway(jr)
    BY <1>0, <1>1 DEF AbortUpdate, Known, Volatile, Saving
  <2> QED BY <1>0, <1>1, <2>1, Aborts DEF AbortUpdate
<1>2. CASE RecoverVerifying
  <2>1. jr.state = 5 /\ VERIFYING = 6
    BY <1>0, <1>2, Stages DEF RecoverVerifying, Paced
  <2> QED BY <1>0, <1>2, <2>1, Numbers, AdvancesTo DEF RecoverVerifying
<1>3. CASE MarkVerified
  <2>1. CASE jr.state = 6
    <3>1. Saved(Update(VERIFIED)) \/ SaveFails(Update(VERIFIED))
      BY <1>3, <2>1, Stages DEF MarkVerified
    <3> QED BY <1>0, <2>1, <3>1, Numbers, Stages, AdvancesTo
  <2>2. CASE jr.state = 7
    <3>1. Saved(Update(PENDING_ACTIVATION)) \/ SaveFails(Update(PENDING_ACTIVATION))
      BY <1>3, <2>2, Stages DEF MarkVerified
    <3> QED BY <1>0, <2>2, <3>1, Numbers, Stages, AdvancesTo
  <2> QED BY <1>0, <1>3, <2>1, <2>2, Stages DEF MarkVerified, Paced
<1>4. CASE UNCHANGED <<journal, meta>>
  BY <1>4, StillLife
<1>5. CASE Recover \/ Publish \/ Reconcile \/ EndLifecycle \/ CheckRequest \/ CheckApp \/ Normalize
           \/ Launch
  BY <1>4, <1>5
  DEF Recover, Publish, Reconcile, EndLifecycle, CheckRequest, CheckApp, Normalize, Reset, Launch,
      durable
<1> QED
  BY <1>0, <1>1, <1>2, <1>3, <1>5, Adopts, Installs, Pends, LetsGo, Rejects, Confirms, StartsLife
  DEF Boot

LEMMA ProgrammingLives ==
  ASSUME LifeInv, Programming
  PROVE  Lives
<1>0. Known /\ Paced
  BY DEF LifeInv
<1>1. CASE UNCHANGED <<journal, meta>>
  BY <1>1, StillLife
<1>2. CASE AbortDownload
  <2>1. CASE jr.status = "VALID" /\ jr.state \in Before
    <3>1. Underway(jr)
      BY <2>1, Numbers DEF Underway
    <3> QED BY <1>0, <1>2, <2>1, <3>1, Aborts DEF AbortDownload, Before
  <2>2. CASE ~(jr.status = "VALID" /\ jr.state \in Before)
    BY <1>1, <1>2, <2>2 DEF AbortDownload, Before, durable
  <2> QED BY <2>1, <2>2
<1>3. CASE StartErasing
  <2>1. jr.state = 1 /\ ERASING = 2
    BY <1>0, <1>3, Stages DEF StartErasing, Paced
  <2> QED BY <1>0, <1>3, <2>1, Numbers, AdvancesTo DEF StartErasing
<1>4. CASE EraseDone
  <2>1. jr.state = 2 /\ DOWNLOAD_READY = 3
    BY <1>0, <1>4, Stages DEF EraseDone, Paced
  <2> QED BY <1>0, <1>4, <2>1, Numbers, AdvancesTo DEF EraseDone
<1>5. CASE Download
  <2>1. jr.state = 3 /\ PROGRAMMING = 4
    BY <1>5, Numbers, Stages DEF Download, TransitionAllowed, Before
  <2> QED BY <1>0, <1>5, <2>1, Numbers, AdvancesTo DEF Download
<1>6. CASE TransferExit
  <2> DEFINE next == [Update(TRANSFER_COMPLETE) EXCEPT !.header = staged]
  <2>1. jr.state = 4 /\ (Saved(next) \/ SaveFails(next))
    BY <1>0, <1>6, Stages DEF TransferExit, Paced
  <2>2. /\ next.status = jr.status /\ next.state = 5
        /\ next.active = jr.active /\ next.target = jr.target /\ next.txn = jr.txn
    BY <1>0, Stages DEF Update, Known, TypeOK, Journals
  <2> HIDE DEF next
  <2> QED BY <1>0, <2>1, <2>2, Numbers, Advances
<1>7. CASE VerifyRequest
  <2>1. jr.state = 5 /\ VERIFYING = 6
    BY <1>7, Numbers, Stages DEF VerifyRequest, TransitionAllowed, Before
  <2> QED BY <1>0, <1>7, <2>1, Numbers, AdvancesTo DEF VerifyRequest
<1>8. CASE Wipe \/ (\E v \in Versions, whole \in BOOLEAN : Transfer(v, whole)) \/ VerifyImage
           \/ PublishHeader \/ ResetRequest \/ Refresh
  BY <1>1, <1>8
  DEF Wipe, Transfer, VerifyImage, PublishHeader, ResetRequest, Refresh, Reset, durable
<1> QED
  BY <1>0, <1>2, <1>3, <1>4, <1>5, <1>6, <1>7, <1>8, Begins, Creates DEF Programming

LEMMA LifeStep ==
  ASSUME LifeInv, [Next]_vars
  PROVE  Lives
<1>1. CASE UNCHANGED <<journal, meta>>
  BY <1>1, StillLife
<1>2. CASE Application \/ Environment
  BY <1>1, <1>2
  DEF Application, AppConfirm, AppRequestProgramming, AppCrash, Environment, HardwareReset, Rot,
      Reset, durable
<1>3. CASE UNCHANGED vars
  BY <1>1, <1>3 DEF vars, durable
<1> QED BY <1>2, <1>3, BootLives, ProgrammingLives DEF Next

LEMMA LifeInit ==
  ASSUME Init
  PROVE  Life!Init
<1>1. CASE Factory
  <2>1. meta \in [Slots -> {NoMeta, BadMeta}] /\ journal \in {NoJournal, BadJournal}
    BY <1>1 DEF Factory
  <2>2. (\A s \in Slots : meta[s].status # "VALID") /\ journal.status # "VALID"
    BY <2>1 DEF NoMeta, BadMeta, NoJournal, BadJournal
  <2>3. Life!Bare /\ JournalSeen(journal) = Life!NoUpdate
    BY <2>2, Unseen, Named DEF Life!Bare, Records, JournalSeen, Life!NoUpdate
  <2> QED BY <2>3 DEF Life!Init
<1>2. CASE Migrated
  <2>1. /\ JournalSeen(journal) = [state |-> 8, active |-> 0, target |-> 1, txn |-> 1]
        /\ meta = [s \in Slots |-> NoMeta]
    BY <1>2, Stages DEF Migrated, JournalSeen, NoJournal
  <2>2. \A s \in Slots : meta[s].status # "VALID"
    BY <2>1 DEF NoMeta
  <2>3. Life!Bare
    BY <2>2, Unseen, Named DEF Life!Bare, Records
  <2> QED BY <2>1, <2>3, Named DEF Life!Init
<1>3. CASE Commissioned
  <2>1. JournalSeen(journal) = [state |-> 9, active |-> 0, target |-> 1, txn |-> 0]
    BY <1>3, Stages DEF Commissioned, JournalSeen, NoJournal
  <2>2. meta = [s \in Slots |-> IF s = 0 THEN Record("CONFIRMED", 1, 0, 0) ELSE NoMeta]
    BY <1>3 DEF Commissioned
  <2>3. Records[1] = Life!NoRecord
    <3>1. meta[1].status # "VALID"
      BY <2>2, Named DEF NoMeta
    <3> QED BY <3>1, Unseen, Named
  <2>4. Records[0] = Life!New("CONFIRMED", 1, 0)
    BY <2>2, Named DEF Records, RecordSeen, Record, Life!New
  <2> QED BY <2>1, <2>3, <2>4, Named DEF Life!Init, Records
<1> QED BY <1>1, <1>2, <1>3 DEF Init

(* The journal and the records of the slots live the life of SlotLife:     *)
(* one of them changes at a time, each by its own table, an update only    *)
(* starts from a confirmed slot, is installed while the journal holds it   *)
(* and over no trial, is let go of once its record is in place, and is     *)
(* rejected after exactly the starts it was given; whatever is cut,        *)
(* refused, repeated or recovered in between.                              *)
THEOREM LivesTheLife ==
  ASSUME MayRot = FALSE
  PROVE  Spec => LifeKept
<1>1. LifeInv /\ [Next]_vars => [Life!Next]_<<JournalSeen(journal), Records>>
  BY LifeStep DEF Lives
<1>2. Init => Life!Init
  BY LifeInit
<1> QED BY <1>1, <1>2, LifeInvariance, PTL DEF Spec, LifeKept, Life!Spec, Records
=============================================================================
