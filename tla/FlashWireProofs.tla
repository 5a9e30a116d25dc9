-------------------------- MODULE FlashWireProofs --------------------------
(***************************************************************************)
(* The flasher of FlashSession, the messages under way and the server, for *)
(* any number of runs and faults: the server writes only for the run whose *)
(* key unlocked it, what it accepted is the beginning of what that run     *)
(* sends, and a verification the flasher saw pass is not taken back.       *)
(***************************************************************************)
EXTENDS FlashSlotProofs

(* POINTS OF THE FLASHER.  Past the two session requests it sends every    *)
(* request once, up to the poll for the new version.                       *)
Late  == {"seed", "key", "status", "erase", "download", "blocks", "exit", "verify"}
Once  == Late \cup {"reset"}
After == {"reset", "poll", "done"}

(* REQUESTS UNDER WAY.                                                     *)
Box      == toServer[1]
InWork   == req.sid # "none"
InBox    == toServer # << >>
ReqOld   == InWork /\ req.run # tester.run
BoxOld   == InBox /\ Box.run # tester.run
ReqPlain == InWork /\ req.sid # "session"
BoxPlain == InBox /\ Box.sid # "session"

(* ANSWERS UNDER WAY.                                                      *)
IsSession(i) == toTester[i].sid = "session"
IsFinal(i)   == toTester[i].kind # "pending"
OnlySessions(i) == \A k \in DOMAIN toTester : k > i => IsSession(k)

(* What the server holds is of one run of the flasher.                     *)
Own(r) ==
  /\ security.unlocked => unlocker = r
  /\ ctx.download \/ ctx.complete => source.run = r

Entered == ~ReqOld /\ ~BoxOld /\ Own(tester.run)

(* Requests arrive in the order of the runs; one that is no session        *)
(* request never waits behind one of an earlier run.                       *)
Ordered ==
  /\ InWork => req.run <= tester.run
  /\ InBox => Box.run <= tester.run
  /\ InWork /\ InBox => req.run <= Box.run /\ (BoxPlain => req.run = Box.run)

(* Two answers to session requests of whatever run, the second of them to  *)
(* one that came last, leave nothing of an earlier run.                    *)
Entering ==
  /\ tester.pc \notin Ended /\ (tester.pc = "session" => tester.waiting) => ~BoxOld
  /\ tester.pc \in {"session", "session2"} =>
       /\ InWork /\ req.run = tester.run => req.sid = "session"
       /\ InBox /\ Box.run = tester.run => Box.sid = "session"
  /\ tester.pc = "session" /\ ReqOld /\ BoxOld => \A i \in DOMAIN toTester : ~IsSession(i)
  /\ tester.pc = "session" =>
       \A i, j \in DOMAIN toTester :
         i < j /\ IsSession(i) /\ IsSession(j) => Entered /\ OnlySessions(j)
  /\ tester.pc = "session2" =>
       \A i \in DOMAIN toTester : IsSession(i) => Entered /\ OnlySessions(i)
  /\ tester.pc \in Once \cup {"poll"} => Entered

Owned ==
  /\ ReqPlain => Own(req.run)
  /\ BoxPlain => Own(Box.run)

Flight == Ordered /\ Entering /\ Owned

(* One request and its answers at a time, whatever session requests and    *)
(* answers are still under way.                                            *)
Matches(m) == m.sid = Request.sid /\ m.sub = Request.sub

Exchange ==
  /\ tester.pc \in Once =>
       /\ ReqPlain => /\ tester.waiting /\ Matches(req)
                      /\ spc \in {"handle", "handle_leaving"} => req = Request
       /\ BoxPlain => tester.waiting /\ Box = Request /\ ~ReqPlain
       /\ \A i \in DOMAIN toTester : ~IsSession(i) =>
            /\ tester.waiting /\ Matches(toTester[i])
            /\ IsFinal(i) => ~ReqPlain /\ ~BoxPlain /\ OnlySessions(i)
  /\ tester.pc \in {"poll", "done"} =>
       (ReqPlain => req.sid = "did") /\ (BoxPlain => Box.sid = "did")
  /\ ReqPlain /\ BoxPlain => Box.sid = "did"

(* THE BYTES.                                                              *)
EndOf(b)  == IF b < Blocks THEN b * BlockSize ELSE SlotSize
Held(p)   == IF p = Phrases THEN ctx.staged ELSE flash[p]
Written ==
  /\ \A p \in 1 .. Phrases : p * PhraseSize <= ctx.programmed => Held(p) = PhraseOf(Stream(source), p)
  /\ ctx.buffer = SubSeq(Stream(source), ctx.programmed + 1, ctx.received)
NextBlock(m) == m.sid = "transfer" =>
  \E b \in 1 .. Blocks : m.arg = Block(source, b) /\ ctx.received = (b - 1) * BlockSize
Planned(m) == m.sid = "download" /\ m.run = tester.run => m.arg = [img |-> tester.img, opt |-> tester.opt]
Mine == ctx.download /\ source.run = tester.run

Sourced ==
  /\ source.run <= tester.run
  /\ ctx.download \/ ctx.complete =>
       /\ source.img \in Versions
       /\ source.run = tester.run => source.img = tester.img /\ source.opt = tester.opt
  /\ InWork => Planned(req)
  /\ InBox => Planned(Box)

Prefix ==
  /\ ctx.download => Written
  /\ ctx.complete => ctx.staged = Phrase(source.img, Phrases)
  /\ ctx.download /\ InWork => NextBlock(req)
  /\ ctx.download /\ InBox => NextBlock(Box)

Counted ==
  /\ Mine /\ tester.pc \in Preparing => ctx.received = 0
  /\ Mine /\ tester.pc = "blocks" =>
       /\ ctx.received \in {tester.sent * BlockSize, EndOf(tester.sent + 1)}
       /\ ~tester.waiting \/ ReqPlain \/ BoxPlain => ctx.received = tester.sent * BlockSize
       /\ \A i \in DOMAIN toTester : toTester[i].sid = "transfer" /\ toTester[i].kind = "ok" =>
            ctx.received = EndOf(tester.sent + 1)

Vouch ==
  \/ journal.state = "PENDING_ACTIVATION" /\ SlotImage = tester.img
  \/ active.version = tester.img /\ journal.state = "IDLE"
Passed ==
  /\ tester.pc \in After => Vouch
  /\ tester.pc = "verify" =>
       \A i \in DOMAIN toTester : ~IsSession(i) /\ toTester[i].kind = "ok" => Vouch
-----------------------------------------------------------------------------
(* THE QUEUE OF ANSWERS                                                    *)

LEMMA QueueType ==
  ASSUME SlotInv
  PROVE  /\ toTester \in Seq(Answers) /\ Len(toTester) \in Nat
         /\ DOMAIN toTester = 1 .. Len(toTester)
         /\ \A i \in DOMAIN toTester : i \in Nat /\ toTester[i] \in Answers
<1>1. toTester \in Seq(Answers)
  BY DEF SlotInv, TypeInv
<1> QED BY <1>1

LEMMA QueueTail ==
  ASSUME SlotInv, toTester # << >>, toTester' = Tail(toTester)
  PROVE  \A i \in DOMAIN toTester' :
           i \in Nat /\ i + 1 \in DOMAIN toTester /\ toTester'[i] = toTester[i + 1]
<1>1. toTester \in Seq(Answers) /\ toTester # << >>
  BY QueueType
<1>2. /\ Tail(toTester) \in Seq(Answers) /\ Len(Tail(toTester)) = Len(toTester) - 1
      /\ \A i \in 1 .. Len(Tail(toTester)) : Tail(toTester)[i] = toTester[i + 1]
  BY <1>1, HeadTailProperties
<1>3. DOMAIN toTester' = 1 .. Len(toTester) - 1
  BY <1>2
<1>4. Len(toTester) \in Nat /\ DOMAIN toTester = 1 .. Len(toTester)
  BY QueueType
<1> QED BY <1>2, <1>3, <1>4

LEMMA QueueAppend ==
  ASSUME SlotInv, NEW a \in Answers, toTester' = Append(toTester, a)
  PROVE  /\ \A i \in DOMAIN toTester' :
              /\ i \in Nat /\ i <= Len(toTester) + 1
              /\ \/ i \in DOMAIN toTester /\ toTester'[i] = toTester[i]
                 \/ i = Len(toTester) + 1 /\ toTester'[i] = a
         /\ \A i \in DOMAIN toTester : i < Len(toTester) + 1
         /\ toTester # << >> \/ \A i \in DOMAIN toTester' : i = 1
<1>1. toTester \in Seq(Answers) /\ Len(toTester) \in Nat /\ DOMAIN toTester = 1 .. Len(toTester)
  BY QueueType
<1>2. /\ Append(toTester, a) \in Seq(Answers) /\ Len(Append(toTester, a)) = Len(toTester) + 1
      /\ \A i \in 1 .. Len(toTester) : Append(toTester, a)[i] = toTester[i]
      /\ Append(toTester, a)[Len(toTester) + 1] = a
  BY <1>1, AppendProperties
<1>3. DOMAIN toTester' = 1 .. Len(toTester) + 1
  BY <1>2
<1>4. toTester = << >> => Len(toTester) = 0
  BY <1>1
<1> QED BY <1>1, <1>2, <1>3, <1>4

(* THE MAILBOX.                                                            *)
LEMMA BoxIs ==
  ASSUME SlotInv
  PROVE  /\ InBox => /\ toServer = <<Box>> /\ Box \in Requests /\ RequestOK(Box)
                     /\ Box.sid # "none" /\ Box.run \in Nat /\ Head(toServer) = Box
         /\ req.run \in Nat /\ tester.run \in Nat
<1>1. MailboxOK(toServer) /\ RequestOK(req) /\ FlasherOK(tester)
  BY DEF SlotInv, TypeInv
<1>2. Runs \subseteq Nat
  BY DEF Runs
<1>3. req.run \in Nat /\ tester.run \in Nat
  BY <1>1, <1>2 DEF RequestOK, Requests, FlasherOK
<1>4. ASSUME NEW m \in Requests, toServer = <<m>>, RequestOK(m), m.sid # "none"
      PROVE  /\ toServer = <<Box>> /\ Box \in Requests /\ RequestOK(Box)
             /\ Box.sid # "none" /\ Box.run \in Nat /\ Head(toServer) = Box
  <2>1. Box = m /\ Head(toServer) = m
    BY <1>4 DEF Box
  <2> QED BY <1>2, <1>4, <2>1 DEF Requests
<1> QED BY <1>1, <1>3, <1>4 DEF MailboxOK, InBox
-----------------------------------------------------------------------------
(* WHAT THE SERVER'S WORK SHOWS ON THE WIRE                                *)

Work ==
  \/ AppHandles \/ SessionControl \/ GenerateSeed \/ ValidateKey \/ ReadIdentifier
  \/ Erasing \/ Download \/ Transfer \/ TransferExit \/ Verifying \/ EcuReset

(* A routine goes on, perhaps after a response pending; any other work     *)
(* ends with one answer.                                                   *)
GoesOn ==
  /\ req.sid = "routine" /\ req'.sid = req.sid /\ req'.sub = req.sub /\ req'.run = req.run
  /\ spc' \in EraseMid \cup VerifyMid
  /\ UNCHANGED toTester \/ Answer("pending", 0)
Ends ==
  /\ req' = NoRequest
  /\ \E kind \in Kinds \ {"pending"}, value \in Values : Answer(kind, value)

LEMMA Endings ==
  /\ Positive => Ends
  /\ \A nrc \in Kinds \ {"pending"} : Refuse(nrc) => Ends
  /\ {Access, EraseRefusal, DownloadRefusal, TransferRefusal, ExitRefusal, VerifyRefusal,
      ResetRefusal} \subseteq Kinds \ {"pending"}
<1>1. 0 \in Values /\ "ok" \in Kinds \ {"pending"}
  BY DEF Values, Kinds
<1>2. Positive => Ends
  BY <1>1 DEF Positive, Finish, Ends
<1>3. \A nrc \in Kinds \ {"pending"} : Refuse(nrc) => Ends
  BY <1>1 DEF Refuse, Finish, Ends
<1>4. {Access, EraseRefusal, DownloadRefusal, TransferRefusal, ExitRefusal, VerifyRefusal,
       ResetRefusal} \subseteq Kinds \ {"pending"}
  BY DEF Access, EraseRefusal, DownloadRefusal, TransferRefusal, ExitRefusal, VerifyRefusal,
         ResetRefusal, Kinds
<1> QED BY <1>2, <1>3, <1>4

LEMMA PendingOnWire ==
  ASSUME NEW next \in EraseMid \cup VerifyMid, Pending(next), req.sid = "routine"
  PROVE  GoesOn \/ Ends
<1>1. "72" \in Kinds \ {"pending"}
  BY DEF Kinds
<1> QED BY <1>1, Endings DEF Pending, GoesOn

LEMMA JournalledOnWire ==
  ASSUME NEW at, NEW next, NEW goOn \in EraseMid \cup VerifyMid, Journalled(at, next, goOn),
         req.sid = "routine"
  PROVE  GoesOn \/ Ends
<1>1. "72" \in Kinds \ {"pending"}
  BY DEF Kinds
<1> QED BY <1>1, Endings DEF Journalled, GoesOn

LEMMA EraseOnWire ==
  ASSUME SlotInv, Erasing
  PROVE  /\ UNCHANGED <<tester, toServer, unlocker, source>> /\ InWork /\ req.sid = "routine"
         /\ GoesOn \/ Ends
<1>1. "72" \in Kinds \ {"pending"} /\ {"preparing", "erasing", "wipe_header", "wipe",
        "wipe_sector", "erase_done"} \subseteq EraseMid \cup VerifyMid
  BY DEF Kinds, EraseMid
<1>2. UNCHANGED <<tester, toServer, unlocker, source>>
  BY DEF Erasing, EraseStart, EraseBegin, EraseMark, EraseHeader, EraseSectorPending, EraseSector,
         EraseReady, EraseDone, Reach, Journalled, Refused, history
<1>3. req.sid = "routine"
  BY DEF SlotInv, Inside, Erasing, EraseStart, EraseBegin, EraseMark, EraseHeader,
         EraseSectorPending, EraseSector, EraseReady, EraseDone, Reach, Journalled, Handling, EraseMid
<1>4. EraseStart => GoesOn \/ Ends
  BY <1>1, <1>3, Endings, PendingOnWire DEF EraseStart, Refused
<1>5. (EraseBegin \/ EraseMark \/ EraseReady) => GoesOn \/ Ends
  BY <1>1, <1>3, JournalledOnWire DEF EraseBegin, EraseMark, EraseReady, Reach
<1>6. EraseHeader => GoesOn \/ Ends
  BY <1>1, <1>3, Endings DEF EraseHeader, FlashFails, GoesOn
<1>7. EraseSectorPending => GoesOn \/ Ends
  BY <1>1, <1>3, PendingOnWire DEF EraseSectorPending
<1>8. EraseSector => GoesOn \/ Ends
  <2> HAVE EraseSector
  <2>1. CASE req' = [req EXCEPT !.arg = req.arg + 1] /\ spc' = "wipe" /\ UNCHANGED toTester
    <3>1. req'.sid = req.sid /\ req'.sub = req.sub /\ req'.run = req.run
      BY <2>1 DEF SlotInv, TypeInv, RequestOK, Requests
    <3> QED BY <1>1, <1>3, <2>1, <3>1 DEF GoesOn
  <2>2. CASE FlashFails(req.arg + 1, Blank)
    BY <1>1, <2>2, Endings DEF FlashFails
  <2> QED BY <2>1, <2>2 DEF EraseSector
<1>9. EraseDone => GoesOn \/ Ends
  BY Endings DEF EraseDone
<1> QED BY <1>2, <1>3, <1>4, <1>5, <1>6, <1>7, <1>8, <1>9 DEF Erasing, InWork

LEMMA VerifyOnWire ==
  ASSUME SlotInv, Verifying
  PROVE  /\ UNCHANGED <<tester, toServer, unlocker, source>> /\ InWork /\ req.sid = "routine"
         /\ GoesOn \/ Ends
<1>1. {"72", "31"} \subseteq Kinds \ {"pending"} /\ {"verifying", "validate", "publish", "seal",
        "seal2", "verify_done"} \subseteq EraseMid \cup VerifyMid
  BY DEF Kinds, VerifyMid
<1>2. UNCHANGED <<tester, toServer, unlocker, source>>
  BY DEF Verifying, VerifyStart, VerifyMark, Validate, Publish, ReadbackRejected,
         SealVerified, SealPending, VerifyDone, Reach, Journalled, Refused, history
<1>3. req.sid = "routine"
  BY DEF SlotInv, Inside, Verifying, VerifyStart, VerifyMark, Validate, Publish, ReadbackRejected,
         SealVerified, SealPending, VerifyDone, Reach, Journalled, Handling, VerifyMid
<1>4. VerifyStart => GoesOn \/ Ends
  BY <1>1, <1>3, Endings, PendingOnWire DEF VerifyStart, Refused
<1>5. (VerifyMark \/ SealVerified \/ SealPending) => GoesOn \/ Ends
  BY <1>1, <1>3, JournalledOnWire DEF VerifyMark, SealVerified, SealPending, Reach
<1>6. Validate => GoesOn \/ Ends
  BY <1>1, <1>3, Endings, PendingOnWire DEF Validate
<1>7. Publish => GoesOn \/ Ends
  BY <1>1, <1>3, Endings, PendingOnWire DEF Publish, FlashFails
<1>8. ReadbackRejected => GoesOn \/ Ends
  BY <1>1, Endings DEF ReadbackRejected, FlashFails
<1>9. VerifyDone => GoesOn \/ Ends
  BY Endings DEF VerifyDone
<1> QED BY <1>2, <1>3, <1>4, <1>5, <1>6, <1>7, <1>8, <1>9 DEF Verifying, InWork

LEMMA WorkOnWire ==
  ASSUME SlotInv, Work
  PROVE  UNCHANGED <<tester, toServer>> /\ InWork /\ (GoesOn \/ Ends)
<1>1. {"ok", "11", "22", "35", "72"} \subseteq Kinds \ {"pending"} /\ 0 \in Values
      /\ Seeds \subseteq Values
      /\ \A f \in BOOLEAN : [fault |-> f, version |-> active.version] \in Values
  BY DEF Kinds, Values, SlotInv, TypeInv
<1>2. UNCHANGED <<tester, toServer>>
  BY EraseOnWire, VerifyOnWire DEF Work, AppHandles, SessionControl, GenerateSeed, ValidateKey,
     ReadIdentifier, Download, Transfer, TransferExit, EcuReset, Refused
<1>3. InWork
  BY EraseOnWire, VerifyOnWire DEF Work, AppHandles, SessionControl, GenerateSeed, ValidateKey,
     ReadIdentifier, Download, Transfer, TransferExit, EcuReset, Handling, InWork,
     SlotInv, Placed, Between
<1>4. AppHandles => Ends
  BY <1>1 DEF AppHandles, Ends
<1>5. SessionControl => Ends
  BY Endings DEF SessionControl
<1>6. GenerateSeed => Ends
  <2>1. \A s \in Seeds : Finish("ok", s) => Ends
    BY <1>1 DEF Finish, Ends
  <2> QED BY <1>1, <2>1, Endings DEF GenerateSeed
<1>7. ValidateKey => Ends
  BY <1>1, Endings DEF ValidateKey
<1>8. ReadIdentifier => Ends
  <2>1. jfault \in BOOLEAN
    BY DEF SlotInv, TypeInv
  <2> QED BY <1>1, <2>1 DEF ReadIdentifier, Finish, Ends
<1>9. Download => Ends
  BY <1>1, Endings DEF Download, Refused
<1>10. Transfer => Ends
  BY <1>1, Endings DEF Transfer, Refused
<1>11. TransferExit => Ends
  BY <1>1, Endings DEF TransferExit, Refused
<1>12. EcuReset => Ends
  BY <1>1, Endings DEF EcuReset, Refused, Ends
<1> QED BY <1>2, <1>3, <1>4, <1>5, <1>6, <1>7, <1>8, <1>9, <1>10, <1>11, <1>12,
           EraseOnWire, VerifyOnWire DEF Work

(* Nobody is let in and nothing is opened.                                 *)
Keeps ==
  /\ security'.unlocked => security.unlocked
  /\ ctx'.download \/ ctx'.complete => ctx.download \/ ctx.complete
  /\ UNCHANGED <<unlocker, source>>
Drops == ~security'.unlocked /\ ~ctx'.download /\ ~ctx'.complete

LEMMA Keeping ==
  /\ Keeps => \A r : Own(r) => Own(r)'
  /\ Drops => \A r : Own(r)'
BY DEF Keeps, Drops, Own

LEMMA AbandonedDrops ==
  ~Abandoned.download /\ ~Abandoned.complete
  /\ \A s : /\ ~[Abandoned EXCEPT !.staged = s].download
            /\ ~[Abandoned EXCEPT !.staged = s].complete
BY DEF Abandoned, NoDownload

LEMMA ClearedDrops ==
  ASSUME Cleared, UNCHANGED <<security, ctx>>
  PROVE  Drops
BY DEF Cleared, Drops, Locked, NoDownload

LEMMA ErasingKeeps ==
  ASSUME SlotInv, Erasing
  PROVE  Keeps
<1>1. UNCHANGED <<security, unlocker, source>>
  BY EraseOnWire DEF Erasing, EraseStart, EraseBegin, EraseMark, EraseHeader, EraseSectorPending,
         EraseSector, EraseReady, EraseDone, Reach, Journalled, Refused
<1>2. ctx' = ctx \/ ctx' = Abandoned \/ ctx' = [ctx EXCEPT !.erased = TRUE]
  BY DEF Erasing, EraseStart, EraseBegin, EraseMark, EraseHeader, EraseSectorPending,
         EraseSector, EraseReady, EraseDone, Reach, Journalled, Refused
<1>3. ctx' = [ctx EXCEPT !.erased = TRUE] =>
        ctx'.download = ctx.download /\ ctx'.complete = ctx.complete
  BY DEF SlotInv, TypeInv, ContextOK
<1> QED BY <1>1, <1>2, <1>3, AbandonedDrops DEF Keeps

LEMMA VerifyingKeeps ==
  ASSUME SlotInv, Verifying
  PROVE  Keeps
<1>1. UNCHANGED <<security, unlocker, source>>
  BY VerifyOnWire DEF Verifying, VerifyStart, VerifyMark, Validate, Publish, ReadbackRejected,
         SealVerified, SealPending, VerifyDone, Reach, Journalled, Refused
<1>2. ctx' = ctx \/ ctx' = Abandoned \/ ctx' = [ctx EXCEPT !.verified = TRUE]
  BY DEF Verifying, VerifyStart, VerifyMark, Validate, Publish, ReadbackRejected,
         SealVerified, SealPending, VerifyDone, Reach, Journalled, Refused
<1>3. ctx' = [ctx EXCEPT !.verified = TRUE] =>
        ctx'.download = ctx.download /\ ctx'.complete = ctx.complete
  BY DEF SlotInv, TypeInv, ContextOK
<1> QED BY <1>1, <1>2, <1>3, AbandonedDrops DEF Keeps

LEMMA TransferKeeps ==
  ASSUME SlotInv, Transfer \/ TransferExit
  PROVE  Keeps
<1>1. UNCHANGED <<security, unlocker, source>>
  BY DEF Transfer, TransferExit, Refused, history
<1>2. ContextOK(ctx)
  BY DEF SlotInv, TypeInv
<1>3. CASE Transfer
  <2>1. CASE Refused(TransferRefusal)
    BY <1>1, <2>1 DEF Refused, Keeps
  <2>2. CASE \E s : ctx' = [Abandoned EXCEPT !.staged = s]
    BY <1>1, <2>2, AbandonedDrops DEF Keeps
  <2>3. CASE ctx' = [ctx EXCEPT !.received = @ + Len(req.arg),
                                !.programmed = @ + Flushes * PhraseSize,
                                !.buffer = SubSeq(Gathered, Flushes * PhraseSize + 1, Len(Gathered)),
                                !.bsc = NextBsc,
                                !.staged = Staged(Gathered, Flushes)]
    <3>1. ctx'.download = ctx.download /\ ctx'.complete = ctx.complete
      BY <1>2, <2>3 DEF ContextOK
    <3> QED BY <1>1, <3>1 DEF Keeps
  <2> QED BY <1>3, <2>1, <2>2, <2>3 DEF Transfer, Gathered, Flushes
<1>4. CASE TransferExit
  <2>1. CASE UNCHANGED ctx
    BY <1>1, <2>1 DEF Keeps
  <2>2. CASE ExitRefusal = "ok"
    BY <1>1, <2>2, Admitted DEF Keeps
  <2> QED BY <1>4, <2>1, <2>2 DEF TransferExit, Refused
<1> QED BY <1>3, <1>4

(* A session request takes everything back; a key and a download are of    *)
(* the run that sent them, and the rest adds nothing.                      *)
LEMMA WorkOnOwn ==
  ASSUME SlotInv, Work
  PROVE  /\ req.sid = "session" => \A r : Own(r)'
         /\ \A r : r = req.run /\ Own(r) => Own(r)'
<1>1. CASE AppHandles
  BY <1>1, ClearedDrops, Keeping DEF SlotInv, Placed, AppHandles
<1>2. CASE SessionControl
  <2>1. security' = Locked /\ ctx' = Abandoned
    BY <1>2 DEF SessionControl, AuthorisationOnEntry, AbortDownload
  <2> QED BY <2>1, AbandonedDrops, Keeping DEF Drops, Locked
<1>3. CASE GenerateSeed
  <2>1. Keeps
    BY <1>3 DEF GenerateSeed, Keeps, history
  <2> QED BY <1>3, <2>1, Keeping DEF GenerateSeed, Handling
<1>4. CASE ValidateKey
  <2>1. security \in [seed : {0} \cup Seeds, issued : BOOLEAN, unlocked : BOOLEAN]
    BY DEF SlotInv, TypeInv
  <2>2. UNCHANGED <<ctx, source>> /\ req.sid = "security"
    BY <1>4 DEF ValidateKey, Handling
  <2>3. \/ UNCHANGED <<security, unlocker>>
        \/ security'.unlocked => unlocker' = req.run
    BY <1>4, <2>1 DEF ValidateKey
  <2> QED BY <2>2, <2>3 DEF Own
<1>5. CASE ReadIdentifier \/ EcuReset
  BY <1>5, Keeping DEF ReadIdentifier, EcuReset, Refused, Handling, Keeps, history
<1>6. CASE Erasing
  BY <1>6, ErasingKeeps, Keeping, EraseOnWire
<1>7. CASE Verifying
  BY <1>7, VerifyingKeeps, Keeping, VerifyOnWire
<1>8. CASE Transfer \/ TransferExit
  BY <1>8, TransferKeeps, Keeping DEF Transfer, TransferExit, Handling
<1>9. CASE Download
  <2>1. UNCHANGED <<security, unlocker>> /\ req.sid = "download"
    BY <1>9 DEF Download, Refused, Handling, history
  <2>2. UNCHANGED <<ctx, source>> \/ source'.run = req.run
    BY <1>9 DEF Download, Refused, history
  <2> QED BY <2>1, <2>2 DEF Own
<1> QED BY <1>1, <1>2, <1>3, <1>4, <1>5, <1>6, <1>7, <1>8, <1>9 DEF Work
-----------------------------------------------------------------------------
(* WHAT THE FLASHER DOES WITH WHAT IT HEARS                                *)

SidOf ==
  [session |-> "session", session2 |-> "session", seed |-> "security", key |-> "security",
   status |-> "did", erase |-> "routine", download |-> "download", blocks |-> "transfer",
   exit |-> "exit", verify |-> "routine", reset |-> "reset", poll |-> "did"]

LEMMA RequestSid ==
  ASSUME FlasherOK(tester), tester.pc \notin Ended
  PROVE  /\ Request.sid = SidOf[tester.pc] /\ Request.run = tester.run
         /\ tester.pc = "erase" => Request.sub = "erase"
         /\ tester.pc = "verify" => Request.sub = "verify"
         /\ tester.pc = "download" => Request.arg = [img |-> tester.img, opt |-> tester.opt]
         /\ tester.pc = "blocks" => Request.arg = Block(tester, tester.sent + 1)
<1>1. tester.pc \in Points \ Ended
  BY DEF FlasherOK
<1>2. CASE tester.pc = "blocks"
  <2>1. Request.sid = "transfer" /\ Request.arg = Block(tester, tester.sent + 1)
    BY <1>2 DEF Request
  <2> QED BY <1>2, <2>1, RequestIs DEF SidOf
<1>3. CASE tester.pc # "blocks"
  BY <1>1, <1>3 DEF Points, Ended, Request, SidOf
<1> QED BY <1>2, <1>3

(* Four things may come of an answer, a time-out or a deadline.            *)
Fails      == tester'.pc = "failed"
Stays      == tester' = tester
TriesAgain == /\ tester.pc \in {"session2", "poll"} /\ tester'.pc = tester.pc
              /\ ~tester'.waiting
Goes ==
  /\ tester.waiting /\ toTester # << >> /\ toTester' = Tail(toTester)
  /\ toTester[1].kind = "ok" /\ Matches(toTester[1])
  /\ tester'.pc \in NextPoints[tester.pc] /\ ~tester'.waiting
  /\ tester'.sent = IF tester.pc = "blocks" THEN tester.sent + 1 ELSE tester.sent
  /\ tester.pc = "blocks" /\ tester'.pc = "blocks" => tester.sent + 1 < Blocks

LEMMA Hears ==
  ASSUME SlotInv, TesterReceives \/ TesterTimesOut \/ TesterGivesUp
  PROVE  /\ tester.pc \notin Ended /\ UNCHANGED <<toServer, server, durable, history>>
         /\ tester'.run = tester.run /\ tester'.img = tester.img /\ tester'.opt = tester.opt
         /\ \/ toTester' = toTester
            \/ toTester # << >> /\ toTester' = Tail(toTester)
         /\ Fails \/ Stays \/ TriesAgain \/ Goes
<1>1. FlasherOK(tester) /\ toTester \in Seq(Answers)
  BY DEF SlotInv, TypeInv
<1>2. tester.pc \notin Ended /\ UNCHANGED <<toServer, server, durable, history>>
  BY <1>1 DEF FlasherOK, TesterReceives, TesterTimesOut, TesterGivesUp, Ended, link
<1>3. CASE tester' = Rejected /\ toTester' = toTester
  BY <1>1, <1>2, <1>3, RejectedIs DEF Fails, TriesAgain
<1>4. CASE TesterGivesUp
  BY <1>1, <1>2, <1>4 DEF FlasherOK, TesterGivesUp, Fails, link
<1>5. CASE TesterReceives
  <2> DEFINE m == toTester[1]
  <2>1. /\ Head(toTester) = m /\ m \in Answers /\ tester.waiting /\ toTester # << >>
        /\ toTester' = Tail(toTester) /\ tester' = Outcome(m)
    BY <1>1, <1>5 DEF TesterReceives
  <2>2. CASE tester' = tester
    BY <1>2, <2>1, <2>2 DEF Stays
  <2>3. CASE tester' = Rejected
    BY <1>1, <1>2, <2>1, <2>3, RejectedIs DEF Fails, TriesAgain
  <2>4. CASE /\ tester' = Accepted(m)
             /\ m.kind = "ok" /\ m.sid = Request.sid /\ m.sub = Request.sub
    <3>1. Goes
      BY <1>1, <1>2, <2>1, <2>4, AcceptedIs DEF Goes, Matches
    <3> QED BY <1>1, <1>2, <2>1, <2>4, <3>1, AcceptedIs
  <2> QED BY <2>1, <2>2, <2>3, <2>4 DEF Outcome
<1> QED BY <1>3, <1>4, <1>5 DEF TesterTimesOut, link

(* Answers left in the queue move up by one or not at all.                 *)
LEMMA Shifted ==
  ASSUME SlotInv,
         \/ toTester' = toTester
         \/ toTester # << >> /\ toTester' = Tail(toTester)
  PROVE  \E d \in {0, 1} : \A i \in DOMAIN toTester' :
           /\ i \in Nat /\ i + d \in DOMAIN toTester /\ toTester'[i] = toTester[i + d]
           /\ (IsSession(i)' <=> IsSession(i + d)) /\ (IsFinal(i)' <=> IsFinal(i + d))
           /\ OnlySessions(i + d) => OnlySessions(i)'
<1>1. CASE toTester' = toTester
  <2>1. \A i \in DOMAIN toTester' : i \in Nat /\ i + 0 = i
    BY <1>1, QueueType
  <2> QED BY <1>1, <2>1 DEF IsSession, IsFinal, OnlySessions
<1>2. CASE toTester # << >> /\ toTester' = Tail(toTester)
  <2>1. \A i \in DOMAIN toTester' :
          i \in Nat /\ i + 1 \in DOMAIN toTester /\ toTester'[i] = toTester[i + 1]
    BY <1>2, QueueTail
  <2>2. \A i \in DOMAIN toTester' : (IsSession(i)' <=> IsSession(i + 1)) /\ (IsFinal(i)' <=> IsFinal(i + 1))
    BY <2>1 DEF IsSession, IsFinal
  <2>3. ASSUME NEW i \in DOMAIN toTester', OnlySessions(i + 1)
        PROVE  OnlySessions(i)'
    <3>1. \A k \in DOMAIN toTester' : k > i => IsSession(k)'
      <4> TAKE k \in DOMAIN toTester'
      <4> HAVE k > i
      <4>1. k + 1 > i + 1 /\ k + 1 \in DOMAIN toTester
        BY <2>1
      <4> QED BY <2>2, <2>3, <4>1 DEF OnlySessions
    <3> QED BY <3>1 DEF OnlySessions
  <2> QED BY <2>1, <2>2, <2>3
<1> QED BY <1>1, <1>2
-----------------------------------------------------------------------------
(* WHOSE REQUESTS ARE UNDER WAY                                            *)

(* Nothing new on the wire: what is left keeps its order.                  *)
LEMMA FadesFlight ==
  ASSUME SlotInv, Flight, UNCHANGED tester, req' \in {req, NoRequest}, toServer' \in {toServer, << >>},
         \/ toTester' = toTester
         \/ toTester # << >> /\ toTester' = Tail(toTester),
         \A r : Own(r) => Own(r)'
  PROVE  Flight'
<1>1. /\ InWork' => InWork /\ req' = req
      /\ InBox' => InBox /\ Box' = Box
  BY Defaults DEF InWork, InBox, Box
<1>2. /\ ReqOld' => ReqOld /\ InWork' /\ req' = req
      /\ BoxOld' => BoxOld /\ InBox' /\ Box' = Box
      /\ ReqPlain' => ReqPlain /\ req' = req
      /\ BoxPlain' => BoxPlain /\ Box' = Box
  BY <1>1 DEF ReqOld, BoxOld, ReqPlain, BoxPlain
<1>3. Ordered'
  BY <1>1, <1>2 DEF Flight, Ordered
<1>4. Entered => Entered'
  BY <1>2 DEF Entered
<1>5. PICK d \in {0, 1} : \A i \in DOMAIN toTester' :
           /\ i \in Nat /\ i + d \in DOMAIN toTester /\ toTester'[i] = toTester[i + d]
           /\ (IsSession(i)' <=> IsSession(i + d)) /\ (IsFinal(i)' <=> IsFinal(i + d))
           /\ OnlySessions(i + d) => OnlySessions(i)'
  BY Shifted
<1>6. \A i, j \in DOMAIN toTester' : i < j => i + d < j + d
  BY <1>5
<1>7. Entering'
  BY <1>1, <1>2, <1>4, <1>5, <1>6 DEF Flight, Entering
<1>8. Owned'
  BY <1>2 DEF Flight, Owned
<1> QED BY <1>3, <1>7, <1>8 DEF Flight

LEMMA StartFlight ==
  ASSUME SlotInv, Flight, NEW v \in Versions, NEW o \in Options, Start(v, o)
  PROVE  Flight'
<1>1. /\ tester'.pc = "session" /\ ~tester'.waiting /\ tester'.run = tester.run + 1
      /\ toTester' = << >>
      /\ UNCHANGED <<toServer, req, security, ctx, unlocker, source>>
  BY DEF Start, server, history
<1>2. /\ tester.run \in Nat /\ req.run \in Nat /\ (InBox => Box.run \in Nat)
      /\ UNCHANGED <<InWork, InBox, Box, ReqPlain, BoxPlain>>
  BY <1>1, BoxIs DEF InWork, InBox, Box, ReqPlain, BoxPlain
<1>3. (InWork => req.run < tester'.run) /\ (InBox => Box.run < tester'.run)
  BY <1>1, <1>2 DEF Flight, Ordered
<1>4. Ordered'
  BY <1>1, <1>2, <1>3 DEF Flight, Ordered
<1>5. Owned'
  BY <1>1, <1>2 DEF Flight, Owned, Own
<1>6. DOMAIN toTester' = {}
  BY <1>1
<1>7. Entering'
  BY <1>1, <1>2, <1>3, <1>6 DEF Entering, Once, Late
<1> QED BY <1>4, <1>5, <1>7 DEF Flight

(* A plain request is sent once nothing of an earlier run is left.         *)
LEMMA SendsFlight ==
  ASSUME SlotInv, Flight, TesterSends
  PROVE  Flight'
<1>1. /\ tester.pc \notin Ended /\ ~tester.waiting /\ toServer' = <<Request>>
      /\ UNCHANGED <<toTester, req, security, ctx, unlocker, source>>
  BY DEF TesterSends, server, history
<1>2. tester'.pc = tester.pc /\ tester'.run = tester.run /\ tester'.waiting
  BY DEF TesterSends, SlotInv, TypeInv, FlasherOK
<1>3. /\ tester.pc \in Points \ Ended /\ Request.run = tester.run /\ Request.sid = SidOf[tester.pc]
      /\ tester.run \in Nat /\ req.run \in Nat
  BY <1>1, BoxIs, RequestSid DEF SlotInv, TypeInv, FlasherOK
<1>4. /\ InBox' /\ Box' = Request /\ ~BoxOld' /\ UNCHANGED <<InWork, ReqOld, ReqPlain>>
  BY <1>1, <1>2, <1>3 DEF InBox, Box, BoxOld, InWork, ReqOld, ReqPlain
<1>5. \A r : Own(r)' <=> Own(r)
  BY <1>1 DEF Own
<1>6. Request.sid # "session" => tester.pc \in Once \cup {"poll"}
  BY <1>3 DEF SidOf, Points, Ended, Once, Late
<1>7. tester.pc \in Once \cup {"poll"} => Entered
  BY DEF Flight, Entering
<1>8. Ordered'
  <2>1. BoxPlain' => Request.sid # "session"
    BY <1>4 DEF BoxPlain
  <2>2. BoxPlain' /\ InWork => req.run = tester.run
    BY <1>6, <1>7, <2>1 DEF Entered, ReqOld
  <2>3. InWork => req.run <= tester.run
    BY DEF Flight, Ordered
  <2>4. tester.run <= tester.run
    BY <1>3
  <2> QED BY <1>1, <1>2, <1>3, <1>4, <2>2, <2>3, <2>4 DEF Ordered
<1>9. Owned'
  <2>1. ReqPlain' => Own(req.run)'
    BY <1>1, <1>4, <1>5 DEF Flight, Owned
  <2>2. BoxPlain' => Own(tester.run)
    BY <1>4, <1>6, <1>7 DEF BoxPlain, Entered
  <2>3. BoxPlain' => Own(Box.run)'
    BY <1>3, <1>4, <1>5, <2>2
  <2> QED BY <2>1, <2>3 DEF Owned
<1>10. Entered => Entered'
  BY <1>2, <1>4, <1>5 DEF Entered
<1>11. tester.pc \in {"session", "session2"} => Request.sid = "session"
  BY <1>3 DEF SidOf
<1>12. /\ \A i \in DOMAIN toTester : IsSession(i)' <=> IsSession(i)
       /\ \A i \in DOMAIN toTester : OnlySessions(i)' <=> OnlySessions(i)
  BY <1>1 DEF IsSession, OnlySessions
<1>13. Entering'
  BY <1>1, <1>2, <1>3, <1>4, <1>10, <1>11, <1>12 DEF Flight, Entering, InWork
<1> QED BY <1>8, <1>9, <1>13 DEF Flight

LEMMA HearsFlight ==
  ASSUME SlotInv, Flight, TesterReceives \/ TesterTimesOut \/ TesterGivesUp
  PROVE  Flight'
<1>1. /\ tester.pc \notin Ended /\ tester'.run = tester.run
      /\ UNCHANGED <<toServer, req, security, ctx, unlocker, source>>
      /\ Fails \/ Stays \/ TriesAgain \/ Goes
  BY Hears DEF server, history
<1>2. UNCHANGED <<InWork, InBox, Box, ReqOld, BoxOld, ReqPlain, BoxPlain>> /\ (Entered <=> Entered')
      /\ \A r : Own(r)' <=> Own(r)
  BY <1>1 DEF InWork, InBox, Box, ReqOld, BoxOld, ReqPlain, BoxPlain, Entered, Own
<1>3. Ordered' /\ Owned'
  BY <1>1, <1>2 DEF Flight, Ordered, Owned
<1>4. PICK d \in {0, 1} : \A i \in DOMAIN toTester' :
           /\ i \in Nat /\ i + d \in DOMAIN toTester /\ toTester'[i] = toTester[i + d]
           /\ (IsSession(i)' <=> IsSession(i + d)) /\ (IsFinal(i)' <=> IsFinal(i + d))
           /\ OnlySessions(i + d) => OnlySessions(i)'
  BY Hears, Shifted
<1>5. \A i, j \in DOMAIN toTester' : i < j => i + d < j + d
  BY <1>4
<1>6. CASE Fails
  BY <1>3, <1>6 DEF Fails, Entering, Flight, Ended, Once, Late
<1>7. CASE Stays
  BY <1>2, <1>3, <1>4, <1>5, <1>7, <1>1 DEF Stays, Flight, Entering
<1>8. CASE TriesAgain
  BY <1>1, <1>2, <1>3, <1>4, <1>8 DEF TriesAgain, Flight, Entering, Once, Late
<1>9. CASE Goes
  <2>1. /\ toTester # << >> /\ toTester' = Tail(toTester) /\ tester.waiting
        /\ toTester[1].sid = SidOf[tester.pc] /\ tester'.pc \in NextPoints[tester.pc]
        /\ tester.pc \in Points \ Ended
    BY <1>1, <1>9, RequestSid DEF Goes, Matches, SlotInv, TypeInv, FlasherOK
  <2>2. \A i \in DOMAIN toTester' : i \in Nat /\ i + 1 \in DOMAIN toTester
                                 /\ (IsSession(i)' <=> IsSession(i + 1))
                                 /\ (OnlySessions(i + 1) => OnlySessions(i)')
    <3>1. \A i \in DOMAIN toTester' : i \in Nat /\ i + 1 \in DOMAIN toTester /\ toTester'[i] = toTester[i + 1]
      BY <2>1, QueueTail
    <3>2. ASSUME NEW i \in DOMAIN toTester', OnlySessions(i + 1)
          PROVE  OnlySessions(i)'
      <4>1. \A k \in DOMAIN toTester' : k > i => k + 1 > i + 1 /\ k + 1 \in DOMAIN toTester
        BY <3>1
      <4> QED BY <3>1, <3>2, <4>1 DEF OnlySessions, IsSession
    <3> QED BY <3>1, <3>2 DEF IsSession
  <2>3. 1 \in DOMAIN toTester /\ \A i \in DOMAIN toTester' : 1 < i + 1
    <3>1. toTester \in Seq(Answers)
      BY QueueType
    <3>2. Len(toTester) \in Nat /\ Len(toTester) # 0 /\ DOMAIN toTester = 1 .. Len(toTester)
      BY <2>1, <3>1
    <3>3. \A i \in DOMAIN toTester' : i \in Nat /\ i + 1 \in 1 .. Len(toTester)
      BY <2>2, <3>2
    <3>4. \A i \in Nat : i + 1 \in 1 .. Len(toTester) => i + 1 >= 1
      BY <3>2
    <3>5. \A i \in DOMAIN toTester' : i \in 1 .. Len(toTester')
      BY <2>1, <3>1
    <3> QED BY <3>2, <3>3, <3>5
  <2>4. CASE tester.pc = "session"
    <3>1. tester'.pc = "session2" /\ IsSession(1) /\ ~BoxOld
      BY <1>1, <2>1, <2>4 DEF NextPoints, SidOf, IsSession, Flight, Entering
    <3> QED BY <1>1, <1>2, <1>3, <2>2, <2>3, <2>4, <3>1 DEF Flight, Entering, Once, Late
  <2>5. CASE tester.pc = "session2"
    <3>1. tester'.pc \in {"seed", "status"} /\ IsSession(1) /\ Entered
      BY <1>1, <2>1, <2>3, <2>5 DEF NextPoints, SidOf, IsSession, Flight, Entering
    <3> QED BY <1>1, <1>2, <1>3, <3>1 DEF Flight, Entering, Entered
  <2>6. CASE tester.pc \in Once \cup {"poll"}
    <3>1. tester'.pc \in Once \cup {"poll"} \cup Ended /\ Entered
      BY <2>1, <2>6 DEF NextPoints, Once, Late, Ended, Flight, Entering
    <3> QED BY <1>1, <1>2, <1>3, <3>1 DEF Flight, Entering, Entered, Once, Late, Ended
  <2> QED BY <2>1, <2>4, <2>5, <2>6 DEF Points, Ended, Once, Late
<1> QED BY <1>1, <1>6, <1>7, <1>8, <1>9

LEMMA FetchFlight ==
  ASSUME SlotInv, Flight, Fetch
  PROVE  Flight'
<1>1. /\ InBox /\ toServer' = << >> /\ req' = Box /\ req.sid = "none"
      /\ UNCHANGED <<tester, toTester, security, ctx, unlocker, source>>
  BY BoxIs DEF Fetch, InBox, history, SlotInv, Placed, Between
<1>2. /\ InWork' /\ ~InBox' /\ ~BoxOld' /\ ~BoxPlain' /\ ~InWork
      /\ (ReqOld' <=> BoxOld) /\ (ReqPlain' <=> BoxPlain)
  BY <1>1, BoxIs DEF InWork, InBox, BoxOld, BoxPlain, ReqOld, ReqPlain
<1>3. \A r : Own(r)' <=> Own(r)
  BY <1>1 DEF Own
<1>4. Ordered'
  BY <1>1, <1>2 DEF Flight, Ordered
<1>5. Owned'
  BY <1>1, <1>2, <1>3 DEF Flight, Owned
<1>6. Entered => Entered'
  BY <1>1, <1>2, <1>3 DEF Entered
<1>7. /\ \A i \in DOMAIN toTester : IsSession(i)' <=> IsSession(i)
      /\ \A i \in DOMAIN toTester : OnlySessions(i)' <=> OnlySessions(i)
  BY <1>1 DEF IsSession, OnlySessions
<1>8. Entering'
  BY <1>1, <1>2, <1>6, <1>7 DEF Flight, Entering
<1> QED BY <1>4, <1>5, <1>8 DEF Flight

(* A piece of work that ends adds its answer.                              *)
LEMMA EndsIs ==
  ASSUME SlotInv, Ends
  PROVE  /\ req' = NoRequest /\ ~InWork'
         /\ \E a \in Answers : /\ toTester' = Append(toTester, a)
                               /\ a.sid = req.sid /\ a.sub = req.sub /\ a.kind # "pending"
<1>1. req' = NoRequest /\ ~InWork'
  BY Defaults DEF Ends, InWork
<1>2. PICK kind \in Kinds \ {"pending"}, value \in Values : Answer(kind, value)
  BY DEF Ends
<1> DEFINE a == [sid |-> req.sid, sub |-> req.sub, kind |-> kind, value |-> value]
<1>3. a \in Answers
  BY DEF SlotInv, TypeInv, RequestOK, Requests, Answers
<1>4. toTester' = Append(toTester, a)
  BY <1>2 DEF Answer
<1> QED BY <1>1, <1>3, <1>4

LEMMA GoesOnIs ==
  ASSUME SlotInv, GoesOn
  PROVE  /\ req.sid = "routine" /\ req'.sid = req.sid /\ req'.sub = req.sub /\ req'.run = req.run
         /\ spc' \notin {"handle", "handle_leaving"}
         /\ \/ UNCHANGED toTester
            \/ \E a \in Answers : /\ toTester' = Append(toTester, a)
                                  /\ a.sid = "routine" /\ a.sub = req.sub /\ a.kind = "pending"
<1>1. spc' \notin {"handle", "handle_leaving"}
  BY DEF GoesOn, EraseMid, VerifyMid
<1>2. CASE Answer("pending", 0)
  <2> DEFINE a == [sid |-> req.sid, sub |-> req.sub, kind |-> "pending", value |-> 0]
  <2>1. a \in Answers
    BY DEF SlotInv, TypeInv, RequestOK, Requests, Answers, Kinds, Values
  <2>2. toTester' = Append(toTester, a)
    BY <1>2 DEF Answer
  <2> QED BY <1>1, <2>1, <2>2 DEF GoesOn
<1> QED BY <1>1, <1>2 DEF GoesOn

(* A new answer joins the queue at its end.                                *)
LEMMA Joins ==
  ASSUME SlotInv, NEW a \in Answers, toTester' = Append(toTester, a)
  PROVE  \A i \in DOMAIN toTester' :
           /\ i \in Nat
           /\ \/ /\ i \in DOMAIN toTester /\ toTester'[i] = toTester[i] /\ i # Len(toTester) + 1
                 /\ (IsSession(i)' <=> IsSession(i)) /\ (IsFinal(i)' <=> IsFinal(i))
                 /\ OnlySessions(i) /\ a.sid = "session" => OnlySessions(i)'
              \/ /\ i = Len(toTester) + 1 /\ i \notin DOMAIN toTester /\ toTester'[i] = a
                 /\ (IsSession(i)' <=> a.sid = "session") /\ (IsFinal(i)' <=> a.kind # "pending")
                 /\ OnlySessions(i)'
<1>1. /\ \A i \in DOMAIN toTester' :
              /\ i \in Nat /\ i <= Len(toTester) + 1
              /\ \/ i \in DOMAIN toTester /\ toTester'[i] = toTester[i]
                 \/ i = Len(toTester) + 1 /\ toTester'[i] = a
      /\ \A i \in DOMAIN toTester : i < Len(toTester) + 1
  BY QueueAppend
<1>2. Len(toTester) \in Nat
  BY QueueType
<1> TAKE i \in DOMAIN toTester'
<1>3. CASE i \in DOMAIN toTester
  <2>1. toTester'[i] = toTester[i] /\ i # Len(toTester) + 1 /\ i \in Nat
    BY <1>1, <1>2, <1>3
  <2>2. OnlySessions(i) /\ a.sid = "session" => OnlySessions(i)'
    BY <1>1 DEF OnlySessions, IsSession
  <2> QED BY <1>3, <2>1, <2>2 DEF IsSession, IsFinal
<1>4. CASE i \notin DOMAIN toTester
  <2>1. i = Len(toTester) + 1 /\ toTester'[i] = a /\ i \in Nat
    BY <1>1, <1>4
  <2>2. OnlySessions(i)'
    BY <1>1, <1>2, <2>1 DEF OnlySessions
  <2> QED BY <1>4, <2>1, <2>2 DEF IsSession, IsFinal
<1> QED BY <1>3, <1>4

LEMMA WorkFlight ==
  ASSUME SlotInv, Flight, Work
  PROVE  Flight'
<1>1. /\ UNCHANGED <<tester, toServer, InBox, Box, BoxOld, BoxPlain>> /\ InWork
      /\ GoesOn \/ Ends
  BY WorkOnWire DEF InBox, Box, BoxOld, BoxPlain
<1>2. /\ req.run \in Nat /\ tester.run \in Nat /\ (InBox => Box.run \in Nat)
      /\ tester.pc \in Points
  BY BoxIs DEF SlotInv, TypeInv, FlasherOK
<1>3. /\ req.sid = "session" => \A r : Own(r)'
      /\ \A r : r = req.run /\ Own(r) => Own(r)'
  BY WorkOnOwn
<1>4. BoxPlain' => Own(Box.run)'
  <2>1. BoxPlain => req.run = Box.run /\ Own(Box.run)
    BY <1>1 DEF Flight, Ordered, Owned, BoxPlain
  <2>2. \A r : r = Box.run /\ BoxPlain => Own(r)'
    BY <1>3, <2>1
  <2> QED BY <1>1, <2>2
<1>5. Entered => req.run = tester.run /\ Own(tester.run)'
  <2>1. Entered => req.run = tester.run /\ Own(tester.run)
    BY <1>1 DEF Entered, ReqOld
  <2>2. \A r : r = tester.run /\ Entered => Own(r)'
    BY <1>3, <2>1
  <2> QED BY <1>1, <2>1, <2>2
(* two session answers are of requests this run has seen out *)
<1>6. /\ tester.pc = "session" => \A i, j \in DOMAIN toTester :
           i < j /\ IsSession(i) /\ IsSession(j) => req.sid = "session"
      /\ tester.pc = "session2" => \A i \in DOMAIN toTester : IsSession(i) => req.sid = "session"
  BY <1>1, <1>5 DEF Flight, Entering
<1>7. CASE Ends
  <2>1. /\ ~InWork' /\ ~ReqOld' /\ ~ReqPlain'
        /\ \E a \in Answers : toTester' = Append(toTester, a) /\ a.sid = req.sid
    BY <1>7, EndsIs DEF ReqOld, ReqPlain
  <2>2. PICK a \in Answers : toTester' = Append(toTester, a) /\ a.sid = req.sid
    BY <2>1
  <2>3. Ordered' /\ Owned'
    BY <1>1, <1>4, <2>1 DEF Flight, Ordered, Owned
  <2>4. Entered => Entered'
    BY <1>1, <1>5, <2>1 DEF Entered
  <2>5. req.sid = "session" /\ ~BoxOld => Entered'
    BY <1>1, <1>3, <2>1 DEF Entered
  <2>6. ~ReqOld => ~BoxOld
    BY <1>1, <1>2 DEF Flight, Ordered, ReqOld, BoxOld
  <2>7. \A i \in DOMAIN toTester' :
           /\ i \in Nat
           /\ \/ /\ i \in DOMAIN toTester /\ i # Len(toTester) + 1 /\ (IsSession(i)' <=> IsSession(i))
                 /\ OnlySessions(i) /\ a.sid = "session" => OnlySessions(i)'
              \/ /\ i = Len(toTester) + 1 /\ i \notin DOMAIN toTester
                 /\ (IsSession(i)' <=> a.sid = "session") /\ OnlySessions(i)'
    BY <2>2, Joins
  <2>8. \A i \in DOMAIN toTester : i < Len(toTester) + 1
    BY <2>2, QueueAppend
  <2>9. tester.pc = "session" =>
          \A i, j \in DOMAIN toTester' :
            i < j /\ IsSession(i)' /\ IsSession(j)' => Entered' /\ OnlySessions(j)'
    <3> SUFFICES ASSUME tester.pc = "session", NEW i \in DOMAIN toTester', NEW j \in DOMAIN toTester',
                        i < j, IsSession(i)', IsSession(j)'
                 PROVE  Entered' /\ OnlySessions(j)'
      OBVIOUS
    <3>1. i \in DOMAIN toTester /\ IsSession(i)
      <4>1. i # Len(toTester) + 1
        BY <2>7, <2>8, QueueType
      <4> QED BY <2>7, <4>1
    <3>2. CASE j \in DOMAIN toTester
      BY <1>6, <2>2, <2>4, <2>7, <3>1, <3>2 DEF Flight, Entering
    <3>3. CASE j \notin DOMAIN toTester
      <4>1. a.sid = "session" /\ OnlySessions(j)'
        BY <2>7, <3>3
      <4>2. ~BoxOld
        BY <2>6, <3>1 DEF Flight, Entering
      <4> QED BY <2>2, <2>5, <4>1, <4>2
    <3> QED BY <3>2, <3>3
  <2>10. tester.pc = "session2" =>
          \A i \in DOMAIN toTester' : IsSession(i)' => Entered' /\ OnlySessions(i)'
    <3> SUFFICES ASSUME tester.pc = "session2", NEW i \in DOMAIN toTester', IsSession(i)'
                 PROVE  Entered' /\ OnlySessions(i)'
      OBVIOUS
    <3>1. CASE i \in DOMAIN toTester
      BY <1>6, <2>2, <2>4, <2>7, <3>1 DEF Flight, Entering
    <3>2. CASE i \notin DOMAIN toTester
      <4>1. a.sid = "session" /\ OnlySessions(i)'
        BY <2>7, <3>2
      <4>2. ~BoxOld
        BY DEF Flight, Entering, Ended
      <4> QED BY <2>2, <2>5, <4>1, <4>2
    <3> QED BY <3>1, <3>2
  <2>11. Entering'
    BY <1>1, <2>1, <2>4, <2>9, <2>10 DEF Flight, Entering
  <2> QED BY <2>3, <2>11 DEF Flight
<1>8. CASE GoesOn
  <2>1. /\ req.sid = "routine" /\ req'.sid = req.sid /\ req'.run = req.run
        /\ \/ UNCHANGED toTester
           \/ \E a \in Answers : toTester' = Append(toTester, a) /\ a.sid = "routine"
    BY <1>8, GoesOnIs
  <2>2. InWork' /\ (ReqOld' <=> ReqOld) /\ (ReqPlain' <=> ReqPlain)
    BY <1>1, <2>1 DEF InWork, ReqOld, ReqPlain
  <2>3. ReqPlain' => Own(req.run)'
    <3>1. ReqPlain => Own(req.run)
      BY DEF Flight, Owned
    <3>2. \A r : r = req.run /\ ReqPlain => Own(r)'
      BY <1>3, <3>1
    <3> QED BY <2>1, <2>2, <3>2
  <2>4. Ordered' /\ Owned'
    BY <1>1, <1>4, <2>1, <2>2, <2>3 DEF Flight, Ordered, Owned
  <2>5. Entered => Entered'
    BY <1>1, <1>5, <2>2 DEF Entered
  <2>6. \A i \in DOMAIN toTester' : IsSession(i)' => i \in DOMAIN toTester /\ IsSession(i)
    <3>1. CASE UNCHANGED toTester
      BY <3>1 DEF IsSession
    <3>2. ASSUME NEW a \in Answers, toTester' = Append(toTester, a), a.sid = "routine"
          PROVE  \A i \in DOMAIN toTester' : IsSession(i)' => i \in DOMAIN toTester /\ IsSession(i)
      BY <3>2, Joins
    <3> QED BY <2>1, <3>1, <3>2
  <2>7. Entering'
    BY <1>1, <1>6, <2>1, <2>2, <2>5, <2>6 DEF Flight, Entering, InWork
  <2> QED BY <2>4, <2>7 DEF Flight
<1> QED BY <1>1, <1>7, <1>8

LEMMA InitFlight ==
  ASSUME Init
  PROVE  Flight
<1>1. ~InWork /\ ~InBox /\ toTester = << >> /\ tester.pc = "off"
  BY Defaults DEF Init, InWork, InBox
<1> QED BY <1>1 DEF Flight, Ordered, Entering, Owned, ReqPlain, BoxPlain, Ended, Once, Late

(* The steps that put nothing on the wire.                                 *)
Quiet == Restart \/ Confirm \/ TransferTimeout \/ PowerLoss \/ LoseRequest \/ LoseAnswer \/ UNCHANGED vars

LEMMA QuietIs ==
  ASSUME SlotInv, Quiet
  PROVE  /\ UNCHANGED tester /\ req' \in {req, NoRequest} /\ toServer' \in {toServer, << >>}
         /\ \/ toTester' = toTester
            \/ toTester # << >> /\ toTester' = Tail(toTester)
         /\ Keeps \/ Drops
<1>1. CASE LoseRequest \/ LoseAnswer
  BY <1>1 DEF LoseRequest, LoseAnswer, Keeps, server, history
<1>2. CASE Confirm
  BY <1>2 DEF Confirm, Keeps, link, server, history
<1>3. CASE TransferTimeout
  <2>1. ctx' = Abandoned /\ UNCHANGED <<tester, toServer, toTester, req, security, unlocker, source>>
    BY <1>3 DEF TransferTimeout, AbortDownload, link, history
  <2> QED BY <2>1, AbandonedDrops DEF Keeps
<1>4. CASE PowerLoss \/ SoftwareReset
  BY <1>4, Defaults DEF PowerLoss, SoftwareReset, Down, Drops, Locked
<1>5. CASE Recover \/ StartUp
  BY <1>5 DEF Recover, StartUp, Keeps, link, history
<1>6. CASE UNCHANGED vars
  BY <1>6 DEF vars, Keeps, link, server, history
<1> QED BY <1>1, <1>2, <1>3, <1>4, <1>5, <1>6 DEF Quiet, Restart

(* Every step is one of these.                                             *)
LEMMA StepIs ==
  ASSUME [Next]_vars
  PROVE  \/ \E v \in Versions, o \in Options : Start(v, o)
         \/ TesterSends
         \/ TesterReceives \/ TesterTimesOut \/ TesterGivesUp
         \/ Fetch \/ Work \/ Quiet
BY DEF Next, Tester, Server, Work, Quiet

LEMMA NextFlight ==
  ASSUME SlotInv, Flight, [Next]_vars
  PROVE  Flight'
<1>1. ASSUME NEW v \in Versions, NEW o \in Options, Start(v, o)
      PROVE  Flight'
  BY <1>1, StartFlight
<1>2. CASE TesterSends
  BY <1>2, SendsFlight
<1>3. CASE TesterReceives \/ TesterTimesOut \/ TesterGivesUp
  BY <1>3, HearsFlight
<1>4. CASE Fetch \/ Work
  BY <1>4, FetchFlight, WorkFlight
<1>5. CASE Quiet
  BY <1>5, QuietIs, Keeping, FadesFlight
<1> QED BY <1>1, <1>2, <1>3, <1>4, <1>5, StepIs
-----------------------------------------------------------------------------
(* WRITES ARE FOR THE RUN THAT UNLOCKED                                    *)

LEMMA WritesAreOwned ==
  ASSUME SlotInv, Flight, [Next]_vars, flash' # flash, mode = "boot"
  PROVE  session /\ security.unlocked /\ req.run = unlocker
<1>1. EraseHeader \/ EraseSector \/ Transfer \/ Publish \/ ReadbackRejected
  <2>1. ~Untouched
    BY DEF Untouched
  <2>2. ~Recover /\ ~StartUp
    BY DEF Recover, StartUp
  <2> QED BY <2>1, <2>2, Untouching DEF Next, Server, Erasing, Verifying, Restart
<1>2. /\ req.sid \in {"routine", "transfer"} /\ session /\ security.unlocked
  <2>1. CASE EraseHeader \/ EraseSector \/ Publish \/ ReadbackRejected
    BY <2>1 DEF EraseHeader, EraseSector, Publish, ReadbackRejected, SlotInv, Inside,
           EraseMid, VerifyMid
  <2>2. CASE Transfer
    <3>1. TransferRefusal = "ok" /\ req.sid = "transfer"
      BY <2>2 DEF Transfer, Refused, durable
    <3> QED BY <3>1, Admitted
  <2> QED BY <1>1, <2>1, <2>2
<1> QED BY <1>2 DEF Flight, Owned, ReqPlain, InWork, Own

(* Requests change the slot only in a session unlocked by the key of the   *)
(* run they come from: requests and answers an earlier run left in the     *)
(* mailbox, in work or on the way never lend their authorisation.          *)
THEOREM WritesOwned == Spec => WritesForUnlocker
<1>1. Init => Flight
  BY InitFlight
<1>2. SlotInv /\ Flight /\ [Next]_vars => Flight'
  BY NextFlight
<1>3. ASSUME SlotInv, Flight, [Next]_vars
      PROVE  [flash' # flash /\ mode = "boot" =>
                session /\ security.unlocked /\ req.run = unlocker]_vars
  BY <1>3, WritesAreOwned
<1> QED BY <1>1, <1>2, <1>3, SlotInvariance, PTL DEF Spec, WritesForUnlocker
-----------------------------------------------------------------------------
(* ONE REQUEST AT A TIME                                                   *)

(* A request depends on the plan and the progress of the run only.         *)
LEMMA RequestSame ==
  ASSUME tester'.pc = tester.pc, tester'.run = tester.run, tester'.img = tester.img,
         tester'.opt = tester.opt, tester'.seed = tester.seed, tester'.sent = tester.sent
  PROVE  Request' = Request
<1>1. \A b : Block(tester, b)' = Block(tester, b)
  BY DEF Block, Stream
<1> QED BY <1>1 DEF Request

LEMMA QuietWork ==
  ASSUME SlotInv, Quiet
  PROVE  req'.sid # "none" => UNCHANGED <<req, spc>>
<1>1. CASE req.sid = "none"
  BY <1>1, QuietIs, Defaults
<1>2. CASE req.sid # "none"
  <2>1. mode # "off" /\ spc \notin Between
    BY <1>2 DEF SlotInv, Placed, Between
  <2> QED BY <2>1, Defaults DEF Quiet, Restart, Confirm, TransferTimeout, PowerLoss, SoftwareReset,
           Recover, StartUp, LoseRequest, LoseAnswer, Down, vars, server, Between
<1> QED BY <1>1, <1>2

LEMMA QuietExchange ==
  ASSUME SlotInv, Exchange, Quiet
  PROVE  Exchange'
<1>1. /\ UNCHANGED tester /\ Request' = Request
      /\ ReqPlain' => ReqPlain /\ req' = req /\ spc' = spc
      /\ BoxPlain' => BoxPlain /\ Box' = Box
  BY QuietIs, QuietWork, RequestSame, Defaults DEF ReqPlain, BoxPlain, InWork, InBox, Box
<1>2. PICK d \in {0, 1} : \A i \in DOMAIN toTester' :
           /\ i \in Nat /\ i + d \in DOMAIN toTester /\ toTester'[i] = toTester[i + d]
           /\ (IsSession(i)' <=> IsSession(i + d)) /\ (IsFinal(i)' <=> IsFinal(i + d))
           /\ OnlySessions(i + d) => OnlySessions(i)'
  BY QuietIs, Shifted
<1> QED BY <1>1, <1>2 DEF Exchange, Matches

LEMMA StartExchange ==
  ASSUME SlotInv, Exchange, NEW v \in Versions, NEW o \in Options, Start(v, o)
  PROVE  Exchange'
<1>1. tester'.pc = "session" /\ UNCHANGED <<toServer, req>>
  BY DEF Start, server
<1>2. UNCHANGED <<ReqPlain, BoxPlain, Box>>
  BY <1>1 DEF ReqPlain, BoxPlain, InWork, InBox, Box
<1> QED BY <1>1, <1>2 DEF Exchange, Once, Late

LEMMA SendsExchange ==
  ASSUME SlotInv, Flight, Exchange, TesterSends
  PROVE  Exchange'
<1>1. /\ tester.pc \notin Ended /\ ~tester.waiting /\ toServer' = <<Request>>
      /\ UNCHANGED <<toTester, req, spc>>
  BY DEF TesterSends, server
<1>2. /\ tester'.pc = tester.pc /\ tester'.waiting /\ Request' = Request
  <2>1. /\ tester'.pc = tester.pc /\ tester'.waiting /\ tester'.run = tester.run
        /\ tester'.img = tester.img /\ tester'.opt = tester.opt /\ tester'.seed = tester.seed
        /\ tester'.sent = tester.sent
    BY DEF TesterSends, SlotInv, TypeInv, FlasherOK
  <2> QED BY <2>1, RequestSame
<1>3. tester.pc \in Points \ Ended /\ Request.sid = SidOf[tester.pc]
  BY <1>1, RequestSid DEF SlotInv, TypeInv, FlasherOK
<1>4. /\ (ReqPlain' <=> ReqPlain) /\ Box' = Request /\ (BoxPlain' => Request.sid # "session")
  BY <1>1 DEF ReqPlain, BoxPlain, InWork, InBox, Box
<1>5. CASE tester.pc \in Once
  <2>1. ~ReqPlain /\ \A i \in DOMAIN toTester : IsSession(i)
    BY <1>1, <1>5 DEF Exchange
  <2>2. \A i \in DOMAIN toTester' : IsSession(i)'
    BY <1>1, <2>1 DEF IsSession
  <2> QED BY <1>2, <1>4, <1>5, <2>1, <2>2 DEF Exchange, Once, Late
<1>6. CASE tester.pc = "poll"
  <2>1. Request.sid = "did"
    BY <1>3, <1>6 DEF SidOf
  <2> QED BY <1>1, <1>2, <1>4, <1>6, <2>1 DEF Exchange, Once, Late
<1>7. CASE tester.pc \in {"session", "session2"}
  <2>1. Request.sid = "session"
    BY <1>3, <1>7 DEF SidOf
  <2> QED BY <1>2, <1>4, <1>7, <2>1 DEF Exchange, Once, Late
<1> QED BY <1>3, <1>5, <1>6, <1>7 DEF Points, Once, Late, Ended

(* The answer a run accepts is the last to its request, and nothing else   *)
(* of it is under way.                                                     *)
LEMMA GoesAlone ==
  ASSUME SlotInv, Flight, Exchange, UNCHANGED <<toServer, req>>, Goes,
         tester.pc \in Once \cup {"session2"}
  PROVE  ~ReqPlain' /\ ~BoxPlain' /\ \A i \in DOMAIN toTester' : IsSession(i)'
<1>1. /\ toTester # << >> /\ toTester' = Tail(toTester) /\ tester.waiting
      /\ toTester[1].kind = "ok" /\ toTester[1].sid = SidOf[tester.pc]
      /\ (ReqPlain' <=> ReqPlain) /\ (BoxPlain' <=> BoxPlain)
  <2>1. tester.pc \notin Ended
    BY DEF Once, Late, Ended
  <2> QED BY <2>1, RequestSid DEF Goes, Matches, SlotInv, TypeInv, ReqPlain, BoxPlain, InWork, InBox, Box
<1>2. 1 \in DOMAIN toTester /\ IsFinal(1)
  <2>1. toTester \in Seq(Answers)
    BY QueueType
  <2>2. Len(toTester) \in Nat /\ Len(toTester) # 0 /\ DOMAIN toTester = 1 .. Len(toTester)
    BY <1>1, <2>1
  <2> QED BY <1>1, <2>2 DEF IsFinal
<1>3. CASE tester.pc = "session2"
  <2>1. IsSession(1)
    BY <1>1, <1>3 DEF IsSession, SidOf
  <2>2. Entered /\ OnlySessions(1)
    BY <1>2, <1>3, <2>1 DEF Flight, Entering
  <2>3. ~ReqPlain /\ ~BoxPlain
    BY <1>3, <2>2 DEF Flight, Entering, Entered, ReqOld, BoxOld, ReqPlain, BoxPlain
  <2> QED BY <1>1, <2>2, <2>3, QueueTail DEF OnlySessions, IsSession
<1>4. CASE tester.pc \in Once
  <2>1. ~IsSession(1)
    BY <1>1, <1>4 DEF IsSession, SidOf, Once, Late
  <2>2. ~ReqPlain /\ ~BoxPlain /\ OnlySessions(1)
    BY <1>2, <1>4, <2>1 DEF Exchange
  <2> QED BY <1>1, <2>2, QueueTail DEF OnlySessions, IsSession
<1> QED BY <1>3, <1>4

LEMMA HearsExchange ==
  ASSUME SlotInv, Flight, Exchange, TesterReceives \/ TesterTimesOut \/ TesterGivesUp
  PROVE  Exchange'
<1>1. /\ tester.pc \notin Ended /\ UNCHANGED <<toServer, req, spc>>
      /\ Fails \/ Stays \/ TriesAgain \/ Goes
  BY Hears DEF server
<1>2. (ReqPlain' <=> ReqPlain) /\ (BoxPlain' <=> BoxPlain) /\ Box' = Box
  BY <1>1 DEF ReqPlain, BoxPlain, InWork, InBox, Box
<1>3. CASE Fails
  BY <1>1, <1>2, <1>3 DEF Fails, Exchange, Once, Late
<1>4. CASE Stays
  <2>1. Request' = Request /\ tester' = tester
    BY <1>4, RequestSame DEF Stays
  <2>2. PICK d \in {0, 1} : \A i \in DOMAIN toTester' :
           /\ i \in Nat /\ i + d \in DOMAIN toTester /\ toTester'[i] = toTester[i + d]
           /\ (IsSession(i)' <=> IsSession(i + d)) /\ (IsFinal(i)' <=> IsFinal(i + d))
           /\ OnlySessions(i + d) => OnlySessions(i)'
    BY Hears, Shifted
  <2> QED BY <1>1, <1>2, <2>1, <2>2 DEF Exchange, Matches
<1>5. CASE TriesAgain
  BY <1>1, <1>2, <1>5 DEF TriesAgain, Exchange, Once, Late
<1>6. CASE Goes
  <2>1. CASE tester.pc \in Once \cup {"session2"}
    <3>1. ~ReqPlain' /\ ~BoxPlain' /\ \A i \in DOMAIN toTester' : IsSession(i)'
      BY <1>1, <1>6, <2>1, GoesAlone
    <3> QED BY <3>1 DEF Exchange
  <2>2. CASE tester.pc \in {"session", "poll"}
    <3>1. tester'.pc \notin Once /\ (tester'.pc \in {"poll", "done"} => tester.pc = "poll")
      BY <1>6, <2>2 DEF Goes, NextPoints, Once, Late
    <3> QED BY <1>1, <1>2, <3>1 DEF Exchange
  <2>3. tester.pc \in Points \ Ended
    BY <1>1 DEF SlotInv, TypeInv, FlasherOK
  <2> QED BY <2>1, <2>2, <2>3 DEF Points, Once, Late, Ended
<1> QED BY <1>1, <1>3, <1>4, <1>5, <1>6

LEMMA FetchExchange ==
  ASSUME SlotInv, Exchange, Fetch
  PROVE  Exchange'
<1>1. /\ InBox /\ toServer' = << >> /\ req' = Box /\ req.sid = "none" /\ Box.sid # "none"
      /\ UNCHANGED <<tester, toTester>>
  BY BoxIs DEF Fetch, InBox, SlotInv, Placed, Between
<1>2. Request' = Request /\ ~BoxPlain' /\ ~ReqPlain /\ (ReqPlain' <=> BoxPlain)
  BY <1>1, RequestSame DEF ReqPlain, BoxPlain, InWork, InBox
<1>3. \A i \in DOMAIN toTester : /\ (IsSession(i)' <=> IsSession(i)) /\ (IsFinal(i)' <=> IsFinal(i))
                                 /\ (OnlySessions(i)' <=> OnlySessions(i))
  BY <1>1 DEF IsSession, IsFinal, OnlySessions
<1> QED BY <1>1, <1>2, <1>3 DEF Exchange, Matches

LEMMA WorkExchange ==
  ASSUME SlotInv, Exchange, Work
  PROVE  Exchange'
<1>1. /\ UNCHANGED <<tester, toServer, Box, BoxPlain>> /\ InWork /\ (GoesOn \/ Ends) /\ Request' = Request
  BY WorkOnWire, RequestSame DEF InBox, Box, BoxPlain
<1>2. CASE Ends
  <2>1. /\ ~ReqPlain'
        /\ \E a \in Answers : /\ toTester' = Append(toTester, a)
                              /\ a.sid = req.sid /\ a.sub = req.sub /\ a.kind # "pending"
    BY <1>2, EndsIs DEF ReqPlain
  <2>2. PICK a \in Answers : /\ toTester' = Append(toTester, a)
                             /\ a.sid = req.sid /\ a.sub = req.sub /\ a.kind # "pending"
    BY <2>1
  <2>3. ReqPlain <=> a.sid # "session"
    BY <1>1, <2>2 DEF ReqPlain
  <2>4. ASSUME tester.pc \in Once, NEW i \in DOMAIN toTester', ~IsSession(i)'
        PROVE  /\ tester.waiting /\ Matches(toTester'[i])
               /\ IsFinal(i)' => ~ReqPlain' /\ ~BoxPlain' /\ OnlySessions(i)'
    <3>1. CASE i \in DOMAIN toTester
      <4>1. /\ ~IsSession(i) /\ toTester'[i] = toTester[i] /\ (IsFinal(i)' <=> IsFinal(i))
            /\ OnlySessions(i) /\ a.sid = "session" => OnlySessions(i)'
        BY <2>2, <2>4, <3>1, Joins
      <4> QED BY <1>1, <2>1, <2>3, <2>4, <3>1, <4>1 DEF Exchange
    <3>2. CASE i \notin DOMAIN toTester
      <4>1. toTester'[i] = a /\ a.sid # "session" /\ OnlySessions(i)'
        BY <2>2, <2>4, <3>2, Joins
      <4> QED BY <1>1, <2>1, <2>2, <2>3, <2>4, <4>1 DEF Exchange, Matches
    <3> QED BY <3>1, <3>2
  <2> QED BY <1>1, <2>1, <2>4 DEF Exchange, Matches
<1>3. CASE GoesOn
  <2>1. /\ req.sid = "routine" /\ req'.sid = req.sid /\ req'.sub = req.sub
        /\ spc' \notin {"handle", "handle_leaving"}
        /\ \/ UNCHANGED toTester
           \/ \E a \in Answers : /\ toTester' = Append(toTester, a)
                                 /\ a.sid = "routine" /\ a.sub = req.sub /\ a.kind = "pending"
    BY <1>3, GoesOnIs
  <2>2. ReqPlain /\ ReqPlain'
    BY <2>1 DEF ReqPlain, InWork
  <2>3. ASSUME tester.pc \in Once, NEW i \in DOMAIN toTester', ~IsSession(i)'
        PROVE  tester.waiting /\ Matches(toTester'[i]) /\ ~IsFinal(i)'
    <3>1. CASE UNCHANGED toTester
      BY <2>2, <2>3, <3>1 DEF Exchange, IsSession, IsFinal
    <3>2. ASSUME NEW a \in Answers, toTester' = Append(toTester, a), a.sid = "routine",
                 a.sub = req.sub, a.kind = "pending"
          PROVE  tester.waiting /\ Matches(toTester'[i]) /\ ~IsFinal(i)'
      <4>1. \/ /\ i \in DOMAIN toTester /\ ~IsSession(i) /\ toTester'[i] = toTester[i]
               /\ (IsFinal(i)' <=> IsFinal(i))
            \/ toTester'[i] = a /\ ~IsFinal(i)'
        BY <2>3, <3>2, Joins
      <4> QED BY <2>1, <2>2, <2>3, <3>2, <4>1 DEF Exchange, Matches
    <3> QED BY <2>1, <3>1, <3>2
  <2> QED BY <1>1, <2>1, <2>2, <2>3 DEF Exchange, Matches
<1> QED BY <1>1, <1>2, <1>3

LEMMA InitExchange ==
  ASSUME Init
  PROVE  Exchange
<1>1. ~InWork /\ ~InBox /\ tester.pc = "off"
  BY Defaults DEF Init, InWork, InBox
<1> QED BY <1>1 DEF Exchange, ReqPlain, BoxPlain, Once, Late

LEMMA NextExchange ==
  ASSUME SlotInv, Flight, Exchange, [Next]_vars
  PROVE  Exchange'
<1>1. ASSUME NEW v \in Versions, NEW o \in Options, Start(v, o)
      PROVE  Exchange'
  BY <1>1, StartExchange
<1>2. CASE TesterSends
  BY <1>2, SendsExchange
<1>3. CASE TesterReceives \/ TesterTimesOut \/ TesterGivesUp
  BY <1>3, HearsExchange
<1>4. CASE Fetch \/ Work
  BY <1>4, FetchExchange, WorkExchange
<1>5. CASE Quiet
  BY <1>5, QuietExchange
<1> QED BY <1>1, <1>2, <1>3, <1>4, <1>5, StepIs
-----------------------------------------------------------------------------
(* WHAT THE SERVER'S WORK DOES TO THE BYTES ACCEPTED                       *)

(* Five things may become of them.                                         *)
LoadKept ==
  /\ source' = source
  /\ ctx'.download = ctx.download /\ ctx'.complete = ctx.complete
  /\ ctx'.received = ctx.received /\ ctx'.programmed = ctx.programmed
  /\ ctx'.buffer = ctx.buffer /\ ctx'.staged = ctx.staged
  /\ ctx.download => flash' = flash
LoadDropped == source' = source /\ ~ctx'.download /\ ~ctx'.complete
LoadOpened ==
  /\ req.sid = "download" /\ Ends
  /\ ctx.received = 0 /\ ctx'.received = 0 /\ ~ctx'.complete
  /\ ctx'.programmed = ctx.programmed /\ ctx'.buffer = ctx.buffer
  /\ source' = [run |-> req.run, img |-> req.arg.img, opt |-> req.arg.opt]
LoadGrown ==
  /\ req.sid = "transfer" /\ spc = "handle" /\ Ends /\ TransferRefusal = "ok"
  /\ flash' = Flushed(Gathered, Flushes) /\ source' = source
  /\ ctx.download /\ ctx'.download /\ ~ctx'.complete
  /\ ctx'.received = ctx.received + Len(req.arg)
  /\ ctx'.programmed = ctx.programmed + Flushes * PhraseSize
  /\ ctx'.buffer = SubSeq(Gathered, Flushes * PhraseSize + 1, Len(Gathered))
  /\ ctx'.staged = Staged(Gathered, Flushes)
LoadClosed ==
  /\ ctx.download /\ ctx.received = SlotSize /\ ctx.programmed = SlotSize
  /\ source' = source /\ ~ctx'.download /\ ctx'.complete /\ ctx'.staged = ctx.staged

LEMMA UntouchedLoad ==
  ASSUME UNCHANGED <<source, ctx, flash>>
  PROVE  LoadKept
BY DEF LoadKept

LEMMA ErasingLoad ==
  ASSUME SlotInv, Erasing
  PROVE  LoadKept \/ LoadDropped
<1>1. UNCHANGED source /\ ContextOK(ctx)
  BY EraseOnWire DEF SlotInv, TypeInv
<1>2. CASE EraseStart
  BY <1>1, <1>2, AbandonedDrops DEF EraseStart, Refused, durable, LoadKept, LoadDropped
<1>3. CASE ~EraseStart
  <2>1. ~ctx.download
    BY <1>3 DEF SlotInv, Inside, Erasing, EraseBegin, EraseMark, EraseHeader, EraseSectorPending,
           EraseSector, EraseReady, EraseDone, Reach, Journalled, EraseMid
  <2>2. ctx' = ctx \/ ctx' = [ctx EXCEPT !.erased = TRUE]
    BY <1>3 DEF Erasing, EraseBegin, EraseMark, EraseHeader, EraseSectorPending,
           EraseSector, EraseReady, EraseDone, Reach, Journalled
  <2> QED BY <1>1, <2>1, <2>2 DEF LoadKept, ContextOK
<1> QED BY <1>2, <1>3

LEMMA VerifyingLoad ==
  ASSUME SlotInv, Verifying
  PROVE  LoadKept \/ LoadDropped
<1>1. UNCHANGED source /\ ContextOK(ctx)
  BY VerifyOnWire DEF SlotInv, TypeInv
<1>2. CASE VerifyStart
  BY <1>1, <1>2 DEF VerifyStart, Refused, durable, LoadKept
<1>3. CASE ~VerifyStart
  <2>1. ~ctx.download
    <3>1. ctx.complete
      BY <1>3 DEF SlotInv, Inside, Verifying, VerifyMark, Validate, Publish, ReadbackRejected,
             SealVerified, SealPending, VerifyDone, Reach, Journalled, VerifyMid
    <3> QED BY <1>1, <3>1 DEF ContextOK
  <2>2. ctx' = ctx \/ ctx' = [ctx EXCEPT !.verified = TRUE] \/ ctx' = Abandoned
    BY <1>3 DEF Verifying, VerifyMark, Validate, Publish, ReadbackRejected, SealVerified,
           SealPending, VerifyDone, Reach, Journalled
  <2> QED BY <1>1, <2>1, <2>2, AbandonedDrops DEF LoadKept, LoadDropped, ContextOK
<1> QED BY <1>2, <1>3

LEMMA DownloadLoad ==
  ASSUME SlotInv, Download
  PROVE  LoadKept \/ LoadOpened
<1>1. ContextOK(ctx) /\ req.sid = "download" /\ Ends
  BY WorkOnWire DEF SlotInv, TypeInv, Download, Handling, Work, GoesOn
<1>2. UNCHANGED flash
  BY DEF Download, Refused, durable
<1>3. CASE UNCHANGED <<ctx, source>>
  BY <1>2, <1>3, UntouchedLoad
<1>4. CASE /\ DownloadRefusal = "ok"
           /\ ctx' = [ctx EXCEPT !.download = TRUE, !.verified = FALSE, !.staged = Blank]
           /\ source' = [run |-> req.run, img |-> req.arg.img, opt |-> req.arg.opt]
  <2>1. ~ctx.complete /\ ctx.received = 0
    BY <1>4, Admitted
  <2>2. ctx'.received = ctx.received /\ ctx'.complete = ctx.complete
        /\ ctx'.programmed = ctx.programmed /\ ctx'.buffer = ctx.buffer
    BY <1>1, <1>4 DEF ContextOK
  <2> QED BY <1>1, <1>4, <2>1, <2>2 DEF LoadOpened
<1> QED BY <1>3, <1>4 DEF Download, Refused, history

LEMMA TransferLoad ==
  ASSUME SlotInv, Transfer
  PROVE  \/ LoadGrown
         \/ /\ LoadKept \/ LoadDropped
            /\ \E kind \in Kinds \ {"ok"} : Answer(kind, 0)
<1>1. ContextOK(ctx) /\ req.sid = "transfer" /\ spc = "handle" /\ Ends /\ UNCHANGED source
  BY WorkOnWire DEF SlotInv, TypeInv, Transfer, Refused, history, Work, GoesOn
<1>2. CASE Refused(TransferRefusal)
  <2>1. LoadKept
    BY <1>2, UntouchedLoad DEF Refused, durable, history
  <2>2. TransferRefusal \in Kinds \ {"ok"} /\ Answer(TransferRefusal, 0)
    BY <1>2, Refusals DEF Refused, Refuse, Finish
  <2> QED BY <2>1, <2>2
<1>3. CASE (\E s : ctx' = [Abandoned EXCEPT !.staged = s]) /\ Refuse("72")
  <2>1. LoadDropped
    BY <1>1, <1>3, AbandonedDrops DEF LoadDropped
  <2>2. "72" \in Kinds \ {"ok"} /\ Answer("72", 0)
    BY <1>3 DEF Refuse, Finish, Kinds
  <2> QED BY <2>1, <2>2
<1>4. CASE /\ TransferRefusal = "ok" /\ flash' = Flushed(Gathered, Flushes)
           /\ ctx' = [ctx EXCEPT !.received = @ + Len(req.arg),
                                 !.programmed = @ + Flushes * PhraseSize,
                                 !.buffer = SubSeq(Gathered, Flushes * PhraseSize + 1, Len(Gathered)),
                                 !.bsc = NextBsc,
                                 !.staged = Staged(Gathered, Flushes)]
  <2>1. ctx.download /\ ~ctx.complete
    BY <1>1, <1>4, Admitted DEF ContextOK
  <2>2. ctx'.download = ctx.download /\ ctx'.complete = ctx.complete
        /\ ctx'.received = ctx.received + Len(req.arg)
        /\ ctx'.programmed = ctx.programmed + Flushes * PhraseSize
        /\ ctx'.buffer = SubSeq(Gathered, Flushes * PhraseSize + 1, Len(Gathered))
        /\ ctx'.staged = Staged(Gathered, Flushes)
    BY <1>1, <1>4 DEF ContextOK
  <2> QED BY <1>1, <1>4, <2>1, <2>2 DEF LoadGrown
<1> QED BY <1>2, <1>3, <1>4 DEF Transfer, Gathered, Flushes

LEMMA ExitLoad ==
  ASSUME SlotInv, TransferExit
  PROVE  LoadKept \/ LoadClosed
<1>1. ContextOK(ctx) /\ UNCHANGED <<flash, source>>
  BY DEF SlotInv, TypeInv, TransferExit, Refused, history, durable
<1>2. CASE UNCHANGED ctx
  BY <1>1, <1>2, UntouchedLoad
<1>3. CASE ExitRefusal = "ok" /\ ctx' = [ctx EXCEPT !.download = FALSE, !.complete = TRUE]
  <2>1. ctx.download /\ ctx.received = SlotSize /\ ctx.programmed = SlotSize
    BY <1>3, Admitted
  <2>2. ~ctx'.download /\ ctx'.complete /\ ctx'.staged = ctx.staged
    BY <1>1, <1>3 DEF ContextOK
  <2> QED BY <1>1, <2>1, <2>2 DEF LoadClosed
<1> QED BY <1>2, <1>3 DEF TransferExit, Refused

LEMMA WorkOnLoad ==
  ASSUME SlotInv, Work
  PROVE  LoadKept \/ LoadDropped \/ LoadOpened \/ LoadGrown \/ LoadClosed
<1>1. CASE SessionControl
  BY <1>1, AbandonedDrops DEF SessionControl, AbortDownload, history, LoadDropped
<1>2. CASE AppHandles \/ GenerateSeed \/ ValidateKey \/ ReadIdentifier \/ EcuReset
  <2>1. UNCHANGED <<source, ctx, flash>>
    BY <1>2 DEF AppHandles, GenerateSeed, ValidateKey, ReadIdentifier, EcuReset, Refused,
            durable, history
  <2> QED BY <2>1, UntouchedLoad
<1> QED BY <1>1, <1>2, ErasingLoad, VerifyingLoad, DownloadLoad, TransferLoad, ExitLoad DEF Work

LEMMA OtherOnLoad ==
  ASSUME SlotInv
  PROVE  /\ Quiet => LoadKept \/ LoadDropped
         /\ (\/ \E v \in Versions, o \in Options : Start(v, o)
             \/ TesterSends \/ TesterReceives \/ TesterTimesOut \/ TesterGivesUp \/ Fetch)
              => UNCHANGED <<source, ctx, flash>>
<1>1. (\/ \E v \in Versions, o \in Options : Start(v, o)
       \/ TesterSends \/ TesterReceives \/ TesterTimesOut \/ TesterGivesUp \/ Fetch)
         => UNCHANGED <<source, ctx, flash>>
  BY DEF Start, TesterSends, TesterReceives, TesterTimesOut, TesterGivesUp, Fetch, server,
         durable, history
<1>2. ASSUME TransferTimeout
      PROVE  LoadDropped
  BY <1>2, AbandonedDrops DEF TransferTimeout, AbortDownload, history, LoadDropped
<1>3. ASSUME Confirm \/ LoseRequest \/ LoseAnswer \/ UNCHANGED vars
      PROVE  LoadKept
  BY <1>3, UntouchedLoad DEF Confirm, LoseRequest, LoseAnswer, vars, server, durable, history
<1>4. ASSUME Restart \/ PowerLoss
      PROVE  LoadDropped
  BY <1>4 DEF Restart, PowerLoss, SoftwareReset, Down, Recover, StartUp, LoadDropped, history,
         SlotInv, Placed, Cleared, NoDownload
<1> QED BY <1>1, <1>2, <1>3, <1>4 DEF Quiet
-----------------------------------------------------------------------------
(* WHOSE BYTES THEY ARE                                                    *)

LEMMA SourcedFrame ==
  ASSUME SlotInv, Sourced, tester'.run = tester.run, tester'.img = tester.img,
         tester'.opt = tester.opt,
         LoadKept \/ LoadDropped \/ LoadGrown \/ LoadClosed,
         req'.sid \in {"none", "routine"} \/ req' = req \/ (InBox /\ req' = Box),
         toServer' \in {toServer, << >>}
  PROVE  Sourced'
<1>1. ContextOK(ctx) /\ UNCHANGED source
  BY DEF SlotInv, TypeInv, LoadKept, LoadDropped, LoadGrown, LoadClosed
<1>2. ctx'.download \/ ctx'.complete => ctx.download \/ ctx.complete
  BY DEF LoadKept, LoadDropped, LoadGrown, LoadClosed
<1>3. InBox' => InBox /\ Box' = Box
  BY DEF InBox, Box
<1>4. InWork' => Planned(req)'
  BY BoxIs DEF Sourced, InWork, Planned
<1>5. InBox' => Planned(Box)'
  BY <1>3 DEF Sourced, Planned
<1> QED BY <1>1, <1>2, <1>4, <1>5 DEF Sourced

LEMMA NextSourced ==
  ASSUME SlotInv, Flight, Sourced, [Next]_vars
  PROVE  Sourced'
<1>1. ASSUME NEW v \in Versions, NEW o \in Options, Start(v, o)
      PROVE  Sourced'
  <2>1. tester'.run = tester.run + 1 /\ UNCHANGED <<toServer, req, source, ctx>>
    BY <1>1, OtherOnLoad DEF Start, server
  <2>2. tester.run \in Nat /\ req.run \in Nat /\ (InBox => Box.run \in Nat) /\ source.run \in Nat
    BY BoxIs DEF SlotInv, TypeInv, Runs
  <2>3. UNCHANGED <<InWork, InBox, Box>>
    BY <2>1 DEF InWork, InBox, Box
  <2>4. (InWork => req.run # tester'.run) /\ (InBox => Box.run # tester'.run)
        /\ source.run # tester'.run /\ source.run <= tester'.run
    BY <2>1, <2>2 DEF Flight, Ordered, Sourced
  <2> QED BY <2>1, <2>3, <2>4 DEF Sourced, Planned
<1>2. CASE TesterSends
  <2>1. /\ tester'.run = tester.run /\ tester'.img = tester.img /\ tester'.opt = tester.opt
        /\ tester.pc \notin Ended /\ toServer' = <<Request>> /\ UNCHANGED <<req, source, ctx>>
    BY <1>2, OtherOnLoad DEF TesterSends, SlotInv, TypeInv, FlasherOK, server
  <2>2. Request.sid = "download" => Request.arg = [img |-> tester.img, opt |-> tester.opt]
    <3>1. tester.pc \in Points \ Ended /\ Request.sid = SidOf[tester.pc]
      BY <2>1, RequestSid DEF SlotInv, TypeInv, FlasherOK
    <3>2. Request.sid = "download" => tester.pc = "download"
      BY <3>1 DEF SidOf, Points, Ended
    <3> QED BY <2>1, <3>2, RequestSid DEF SlotInv, TypeInv
  <2>3. Box' = Request /\ (InWork' <=> InWork)
    BY <2>1 DEF Box, InWork
  <2> QED BY <2>1, <2>2, <2>3 DEF Sourced, Planned
<1>3. CASE TesterReceives \/ TesterTimesOut \/ TesterGivesUp
  BY <1>3, Hears, SourcedFrame, OtherOnLoad, UntouchedLoad DEF server
<1>4. CASE Fetch
  <2>1. InBox /\ req' = Box /\ toServer' = << >> /\ UNCHANGED tester
    BY <1>4, BoxIs DEF Fetch, InBox
  <2> QED BY <1>4, <2>1, SourcedFrame, OtherOnLoad, UntouchedLoad
<1>5. CASE Work
  <2>1. UNCHANGED <<tester, toServer>> /\ InWork /\ req'.sid \in {"none", "routine"}
    BY <1>5, WorkOnWire, EndsIs, GoesOnIs, Defaults
  <2>2. CASE LoadOpened
    <3>1. /\ req.sid = "download" /\ req'.sid = "none"
          /\ source' = [run |-> req.run, img |-> req.arg.img, opt |-> req.arg.opt]
      BY <2>2, EndsIs, Defaults DEF LoadOpened
    <3>2. req.arg.img \in Versions /\ req.run <= tester.run
          /\ (req.run = tester.run => req.arg.img = tester.img /\ req.arg.opt = tester.opt)
      BY <2>1, <3>1 DEF SlotInv, TypeInv, RequestOK, Plans, Flight, Ordered, Sourced, Planned
    <3>3. (InBox' <=> InBox) /\ Box' = Box /\ ~InWork'
      BY <2>1, <3>1 DEF InBox, Box, InWork
    <3> QED BY <2>1, <3>1, <3>2, <3>3 DEF Sourced, Planned
  <2>3. CASE ~LoadOpened
    BY <1>5, <2>1, <2>3, WorkOnLoad, SourcedFrame
  <2> QED BY <2>2, <2>3
<1>6. CASE Quiet
  BY <1>6, QuietIs, OtherOnLoad, SourcedFrame, Defaults
<1> QED BY <1>1, <1>2, <1>3, <1>4, <1>5, <1>6, StepIs

LEMMA InitSourced ==
  ASSUME Init
  PROVE  Sourced
BY Defaults DEF Init, Sourced, InWork, InBox
-----------------------------------------------------------------------------
(* PIECES OF A STREAM                                                      *)

(* A piece of a piece.                                                     *)
LEMMA CutOfCut ==
  ASSUME NEW s \in Content, NEW a \in Nat, NEW e \in Nat, NEW c \in Nat, NEW d \in Nat,
         a <= e, e <= Len(s), c <= d, a + d <= e
  PROVE  SubSeq(SubSeq(s, a + 1, e), c + 1, d) = SubSeq(s, a + c + 1, a + d)
<1>1. Len(s) \in Nat /\ s \in Seq(Bytes)
  BY DEF Content
<1>2. CASE c = d
  BY <1>2, SubSeqEmpty
<1>3. CASE c < d
  <2>1. /\ a + 1 \in 1 .. Len(s) /\ e \in 1 .. Len(s)
        /\ c + 1 \in 1 .. e - (a + 1) + 1 /\ d \in 1 .. e - (a + 1) + 1
    BY <1>1, <1>3
  <2>2. SubSeq(SubSeq(s, a + 1, e), c + 1, d) = SubSeq(s, a + 1 + (c + 1) - 1, a + 1 + d - 1)
    BY <1>1, <2>1, SubSeqOfSubSeq
  <2>3. a + 1 + (c + 1) - 1 = a + c + 1 /\ a + 1 + d - 1 = a + d
    OBVIOUS
  <2> QED BY <2>2, <2>3
<1> QED BY <1>2, <1>3

LEMMA CutIs ==
  ASSUME NEW s \in Content, NEW a \in Nat, NEW e \in Nat, a <= e, e <= Len(s)
  PROVE  /\ SubSeq(s, a + 1, e) \in Content /\ Len(SubSeq(s, a + 1, e)) = e - a
         /\ \A i \in 1 .. e - a : SubSeq(s, a + 1, e)[i] = s[a + i]
<1>1. \A i \in a + 1 .. e : s[i] \in Bytes
  BY DEF Content
<1>2. /\ SubSeq(s, a + 1, e) \in Seq(Bytes)
      /\ Len(SubSeq(s, a + 1, e)) = IF a + 1 <= e THEN e - (a + 1) + 1 ELSE 0
      /\ \A i \in 1 .. e - (a + 1) + 1 : SubSeq(s, a + 1, e)[i] = s[a + 1 + i - 1]
  BY <1>1, SubSeqProperties
<1>3. \A i \in 1 .. e - a : i \in 1 .. e - (a + 1) + 1 /\ a + 1 + i - 1 = a + i
  OBVIOUS
<1>4. Len(SubSeq(s, a + 1, e)) = e - a
  BY <1>2
<1> QED BY <1>2, <1>3, <1>4 DEF Content

LEMMA BlockIs ==
  ASSUME NEW run, run.img \in Versions \cup {0}, NEW b \in 1 .. Blocks
  PROVE  /\ (b - 1) * BlockSize \in Nat /\ EndOf(b) \in Nat
         /\ (b - 1) * BlockSize <= EndOf(b) /\ EndOf(b) <= SlotSize
         /\ b < Blocks => EndOf(b) = b * BlockSize
         /\ Block(run, b) = SubSeq(Stream(run), (b - 1) * BlockSize + 1, EndOf(b))
         /\ Len(Block(run, b)) = EndOf(b) - (b - 1) * BlockSize
<1>1. b \in Nat /\ b - 1 \in 0 .. Blocks - 1 /\ (b < Blocks => b \in 0 .. Blocks - 1)
  BY BlockCount
<1>2. (b - 1) * BlockSize \in Nat /\ (b - 1) * BlockSize < SlotSize
      /\ (b < Blocks => b * BlockSize \in Nat /\ b * BlockSize < SlotSize)
  BY <1>1, BlockCount
<1>3. (b - 1) * BlockSize <= b * BlockSize
  BY <1>1, Sizes
<1>4. /\ EndOf(b) \in Nat /\ (b - 1) * BlockSize <= EndOf(b) /\ EndOf(b) <= SlotSize
      /\ b < Blocks => EndOf(b) = b * BlockSize
  BY <1>2, <1>3, Sizes DEF EndOf
<1>5. Block(run, b) = SubSeq(Stream(run), (b - 1) * BlockSize + 1, EndOf(b))
  BY DEF Block, EndOf
<1>6. Len(SubSeq(Stream(run), (b - 1) * BlockSize + 1, EndOf(b))) = EndOf(b) - (b - 1) * BlockSize
  BY <1>2, <1>4, StreamType, CutIs
<1> QED BY <1>2, <1>4, <1>5, <1>6

(* The next block goes on where the bytes accepted end.                    *)
LEMMA GrownIs ==
  ASSUME SlotInv, Written, source.img \in Versions, NextBlock(req), LoadGrown
  PROVE  /\ Gathered = SubSeq(Stream(source), ctx.programmed + 1, ctx'.received)
         /\ ctx'.received \in Nat /\ ctx'.received <= SlotSize
<1> DEFINE s == Stream(source)
<1>1. s \in Content /\ Len(s) = SlotSize
  BY StreamType
<1>2. PICK b \in 1 .. Blocks : req.arg = Block(source, b) /\ ctx.received = (b - 1) * BlockSize
  BY DEF NextBlock, LoadGrown
<1>3. /\ EndOf(b) \in Nat /\ ctx.received <= EndOf(b) /\ EndOf(b) <= SlotSize
      /\ req.arg = SubSeq(s, ctx.received + 1, EndOf(b))
      /\ Len(req.arg) = EndOf(b) - ctx.received
  BY <1>2, BlockIs
<1>4. /\ ctx.programmed \in Nat /\ ctx.received \in Nat /\ ctx.programmed <= ctx.received
  BY Sizes DEF SlotInv, TypeInv, ContextOK, Content
<1>5. ctx'.received = EndOf(b)
  BY <1>3, <1>4 DEF LoadGrown
<1>6. ctx.buffer = SubSeq(s, ctx.programmed + 1, ctx.received)
  BY DEF Written
<1>7. EndOf(b) \in Nat /\ ctx.received <= EndOf(b) /\ EndOf(b) <= Len(s) /\ Len(s) \in Nat
  BY <1>1, <1>3, Sizes
<1>8. SubSeq(s, ctx.programmed + 1, ctx.received) \o SubSeq(s, ctx.received + 1, EndOf(b))
        = SubSeq(s, ctx.programmed + 1, EndOf(b))
  <2> HIDE DEF s
  <2>1. \A m \in 1 .. Len(s) + 1 : \A k \in m - 1 .. Len(s) : \A n \in k .. Len(s) :
          SubSeq(s, m, k) \o SubSeq(s, k + 1, n) = SubSeq(s, m, n)
    BY <1>1, ConcatAdjacentSubSeq DEF Content
  <2> DEFINE m == ctx.programmed + 1
             k == ctx.received
             n == EndOf(b)
  <2>2. m \in 1 .. Len(s) + 1 /\ k \in m - 1 .. Len(s) /\ n \in k .. Len(s)
    BY <1>4, <1>7
  <2> HIDE DEF m, k, n
  <2>3. SubSeq(s, m, k) \o SubSeq(s, k + 1, n) = SubSeq(s, m, n)
    BY <2>1, <2>2
  <2> QED BY <2>3 DEF m, k, n
<1> QED BY <1>3, <1>5, <1>6, <1>8 DEF Gathered

(* What is programmed and what stays in the buffer continue the stream.    *)
LEMMA GrownWritten ==
  ASSUME SlotInv, Written, source.img \in Versions, NextBlock(req), LoadGrown
  PROVE  Written'
<1> DEFINE s == Stream(source)
           e == ctx'.received
           n == Flushes
           a == ctx.programmed
<1>1. s \in Content /\ Len(s) = SlotSize /\ s' = s
  BY StreamType DEF LoadGrown, Stream
<1>2. Gathered = SubSeq(s, a + 1, e) /\ e \in Nat /\ e <= SlotSize
  BY GrownIs
<1>3. TypeInv /\ req.sid = "transfer" /\ TransferRefusal = "ok"
  BY DEF SlotInv, LoadGrown
<1>4. PICK k \in 0 .. Phrases : /\ a = k * PhraseSize /\ a \div PhraseSize = k
                                /\ k + n <= Phrases /\ a + n * PhraseSize = (k + n) * PhraseSize
  BY <1>3, FlushCounts
<1>5. n \in Nat /\ n * PhraseSize \in Nat /\ n * PhraseSize <= Len(Gathered) /\ k \in Nat /\ a \in Nat
  BY <1>3, <1>4, FlushCounts, Sizes
<1>6. a <= e
  <2>1. a <= ctx.received /\ Len(req.arg) \in Nat /\ ctx.received \in Nat
    BY <1>3, Sizes DEF TypeInv, ContextOK, RequestOK, Content
  <2> QED BY <1>5, <2>1 DEF LoadGrown
<1>7. Len(Gathered) = e - a
  BY <1>1, <1>2, <1>5, <1>6, CutIs
<1>8. ctx'.programmed = a + n * PhraseSize
  BY DEF LoadGrown
<1>9. flash \in [1 .. Phrases -> Content]
  BY <1>3 DEF TypeInv
<1> HIDE DEF s, e, n, a
<1>10. ctx'.buffer = SubSeq(s, ctx'.programmed + 1, e)
  <2>1. ctx'.buffer = SubSeq(SubSeq(s, a + 1, e), n * PhraseSize + 1, e - a)
    BY <1>2, <1>7 DEF LoadGrown, n
  <2>2. e - a \in Nat /\ n * PhraseSize <= e - a /\ a + (e - a) = e
    BY <1>2, <1>5, <1>6, <1>7
  <2>3. \A c, d \in Nat : c <= d /\ a + d <= e =>
          SubSeq(SubSeq(s, a + 1, e), c + 1, d) = SubSeq(s, a + c + 1, a + d)
    BY <1>1, <1>2, <1>5, <1>6, CutOfCut
  <2>4. SubSeq(SubSeq(s, a + 1, e), n * PhraseSize + 1, e - a)
          = SubSeq(s, a + n * PhraseSize + 1, a + (e - a))
    <3> DEFINE c == n * PhraseSize
               d == e - a
    <3>1. c \in Nat /\ d \in Nat /\ c <= d /\ a + d <= e
      BY <1>5, <2>2, <1>2
    <3> HIDE DEF c, d
    <3>2. SubSeq(SubSeq(s, a + 1, e), c + 1, d) = SubSeq(s, a + c + 1, a + d)
      BY <3>1, <2>3
    <3> QED BY <3>2 DEF c, d
  <2> QED BY <1>8, <2>1, <2>2, <2>4
<1>11. ASSUME NEW p \in 1 .. Phrases, p * PhraseSize <= ctx'.programmed
       PROVE  Held(p)' = PhraseOf(s, p)
  <2>1. p \in Nat /\ p <= k + n
    <3>1. p \in Nat /\ p * PhraseSize <= (k + n) * PhraseSize
      BY <1>4, <1>8, <1>11, Sizes
    <3> QED BY <1>5, <3>1, Sizes
  <2>2. flash'[p] = IF p \in k + 1 .. k + n /\ p # Phrases THEN PhraseOf(Gathered, p - k) ELSE flash[p]
    BY <1>4 DEF LoadGrown, Flushed, n, a
  <2>3. ctx'.staged = IF k + n = Phrases /\ n > 0 THEN PhraseOf(Gathered, n) ELSE ctx.staged
    BY <1>4 DEF LoadGrown, Staged, n, a
  <2>4. CASE p <= k
    <3>1. Held(p)' = Held(p)
      BY <1>4, <1>5, <2>1, <2>2, <2>3, <2>4, Sizes DEF Held
    <3>2. p * PhraseSize <= a
      BY <1>4, <1>5, <2>1, <2>4, Sizes
    <3> QED BY <3>1, <3>2 DEF Written, s, a
  <2>5. CASE p > k
    <3> DEFINE i == p - k
    <3>1. i \in 1 .. n /\ i \in Nat /\ i - 1 \in Nat
      BY <1>5, <2>1, <2>5
    <3>2. Held(p)' = PhraseOf(Gathered, i)
      BY <1>4, <1>5, <2>1, <2>2, <2>3, <2>5, <3>1, Sizes DEF Held
    <3>3. /\ (i - 1) * PhraseSize \in Nat /\ i * PhraseSize \in Nat
          /\ (i - 1) * PhraseSize <= i * PhraseSize /\ i * PhraseSize <= n * PhraseSize
          /\ a + (i - 1) * PhraseSize = (p - 1) * PhraseSize /\ a + i * PhraseSize = p * PhraseSize
      BY <1>4, <1>5, <2>1, <3>1, Sizes
    <3>4. a + i * PhraseSize <= e
      BY <1>2, <1>5, <1>6, <1>7, <3>3
    <3>5. \A c, d \in Nat : c <= d /\ a + d <= e =>
            SubSeq(SubSeq(s, a + 1, e), c + 1, d) = SubSeq(s, a + c + 1, a + d)
      BY <1>1, <1>2, <1>5, <1>6, CutOfCut
    <3>6. SubSeq(SubSeq(s, a + 1, e), (i - 1) * PhraseSize + 1, i * PhraseSize)
            = SubSeq(s, a + (i - 1) * PhraseSize + 1, a + i * PhraseSize)
      BY <3>3, <3>4, <3>5
    <3> QED BY <1>2, <3>2, <3>3, <3>6 DEF PhraseOf
  <2> QED BY <1>5, <2>1, <2>4, <2>5
<1> QED BY <1>1, <1>10, <1>11 DEF Written, s, e

LEMMA OpenedWritten ==
  ASSUME SlotInv, LoadOpened, source'.img \in Versions
  PROVE  Written'
<1>1. ContextOK(ctx) /\ ctx.received = 0
  BY DEF SlotInv, TypeInv, LoadOpened
<1>2. ctx.programmed = 0 /\ Len(ctx.buffer) = 0 /\ ctx.buffer \in Content
  <2>1. ctx.programmed \in Nat /\ Len(ctx.buffer) \in Nat /\ ctx.received = ctx.programmed + Len(ctx.buffer)
    BY <1>1, Sizes DEF ContextOK, Content
  <2> QED BY <1>1, <2>1 DEF ContextOK
<1>3. ctx.buffer = << >>
  BY <1>2, EmptySeq DEF Content
<1>4. \A p \in 1 .. Phrases : ~(p * PhraseSize <= 0)
  BY Sizes
<1>5. SubSeq(Stream(source'), 0 + 1, 0) = << >>
  BY SubSeqEmpty
<1>6. ctx'.programmed = 0 /\ ctx'.received = 0 /\ ctx'.buffer = << >>
  BY <1>2, <1>3 DEF LoadOpened
<1>7. Stream(source)' = Stream(source')
  BY DEF Stream
<1> QED BY <1>4, <1>5, <1>6, <1>7 DEF Written

(* Only the first byte may be damaged, and the header comes after it.      *)
LEMMA StagedHeader ==
  ASSUME SlotInv, Written, source.img \in Versions, ctx.programmed = SlotSize
  PROVE  ctx.staged = Phrase(source.img, Phrases)
<1> DEFINE a == (Phrases - 1) * PhraseSize
           s == Stream(source)
           t == Image(source.img)
<1>1. ctx.staged = PhraseOf(s, Phrases)
  BY Sizes DEF Written, Held
<1>2. a \in Nat /\ a >= 1 /\ a <= SlotSize
  BY Sizes
<1>3. s \in Content /\ Len(s) = SlotSize
  BY StreamType
<1>4. t \in Content /\ Len(t) = SlotSize
  BY Sizes DEF Image, Content, Bytes
<1>5. \A i \in 1 .. SlotSize : i # 1 => s[i] = t[i]
  BY DEF Stream, Image
<1> HIDE DEF s, t, a
<1>6. /\ SubSeq(s, a + 1, SlotSize) \in Content /\ Len(SubSeq(s, a + 1, SlotSize)) = SlotSize - a
      /\ \A i \in 1 .. SlotSize - a : SubSeq(s, a + 1, SlotSize)[i] = s[a + i]
  BY <1>2, <1>3, CutIs, Sizes
<1>7. /\ SubSeq(t, a + 1, SlotSize) \in Content /\ Len(SubSeq(t, a + 1, SlotSize)) = SlotSize - a
      /\ \A i \in 1 .. SlotSize - a : SubSeq(t, a + 1, SlotSize)[i] = t[a + i]
  BY <1>2, <1>4, CutIs, Sizes
<1>8. \A i \in 1 .. SlotSize - a : s[a + i] = t[a + i]
  <2> TAKE i \in 1 .. SlotSize - a
  <2>1. a + i \in 1 .. SlotSize /\ a + i # 1
    BY <1>2, Sizes
  <2> QED BY <1>5, <2>1
<1>9. SubSeq(s, a + 1, SlotSize) = SubSeq(t, a + 1, SlotSize)
  BY <1>6, <1>7, <1>8, SeqEqual DEF Content
<1> QED BY <1>1, <1>9, Sizes DEF PhraseOf, Phrase, a, s, t

(* The flasher's next block is the server's.                               *)
LEMMA SentIsNext ==
  ASSUME SlotInv, Flight, Sourced, Counted, tester.pc = "blocks", ctx.download
  PROVE  /\ Mine /\ tester.sent + 1 \in 1 .. Blocks /\ tester.sent \in Nat
         /\ Request.arg = Block(source, tester.sent + 1)
         /\ ~tester.waiting \/ ReqPlain \/ BoxPlain => ctx.received = tester.sent * BlockSize
<1>1. FlasherOK(tester)
  BY DEF SlotInv, TypeInv
<1>2. tester.sent \in 0 .. Blocks /\ tester.sent < Blocks
  BY <1>1 DEF FlasherOK
<1>3. tester.sent + 1 \in 1 .. Blocks /\ tester.sent \in Nat
  BY <1>2, BlockCount
<1>4. Mine
  BY DEF Flight, Entering, Entered, Own, Mine, Once, Late
<1>5. source.img = tester.img /\ source.opt = tester.opt
  BY <1>4 DEF Mine, Sourced
<1>6. Request.arg = Block(tester, tester.sent + 1)
  BY <1>1, RequestSid DEF Ended
<1>7. Block(tester, tester.sent + 1) = Block(source, tester.sent + 1)
  BY <1>5 DEF Block, Stream
<1> QED BY <1>3, <1>4, <1>6, <1>7 DEF Counted

LEMMA SendsNext ==
  ASSUME SlotInv, Flight, Sourced, Counted, TesterSends, ctx.download
  PROVE  NextBlock(Request)
<1>1. /\ tester.pc \in Points \ Ended /\ ~tester.waiting /\ Request.sid = SidOf[tester.pc]
  BY RequestSid DEF TesterSends, SlotInv, TypeInv, FlasherOK
<1>2. CASE tester.pc = "blocks"
  <2>1. /\ tester.sent + 1 \in 1 .. Blocks /\ tester.sent \in Nat
        /\ Request.arg = Block(source, tester.sent + 1) /\ ctx.received = tester.sent * BlockSize
    BY <1>1, <1>2, SentIsNext
  <2>2. tester.sent + 1 - 1 = tester.sent
    BY <2>1
  <2> QED BY <2>1, <2>2 DEF NextBlock
<1>3. CASE tester.pc # "blocks"
  BY <1>1, <1>3 DEF NextBlock, SidOf, Points, Ended
<1> QED BY <1>2, <1>3

LEMMA InitPrefix ==
  ASSUME Init
  PROVE  Prefix
BY Defaults DEF Init, Prefix

LEMMA PrefixFrame ==
  ASSUME SlotInv, Prefix, LoadKept \/ LoadDropped \/ LoadClosed, Sourced,
         req'.sid \in {"none", "routine"} \/ req' = req \/ (InBox /\ req' = Box),
         toServer' \in {toServer, << >>}
  PROVE  Prefix'
<1>1. CASE LoadKept
  <2>1. ctx.download => (Written' <=> Written)
    <3>1. ctx.download => \A p : Held(p)' = Held(p)
      BY <1>1 DEF LoadKept, Held
    <3>2. Stream(source)' = Stream(source)
      BY <1>1 DEF LoadKept, Stream
    <3> QED BY <1>1, <3>1, <3>2 DEF LoadKept, Written
  <2>2. \A m : NextBlock(m) => (\A q : q = m => NextBlock(q)')
    <3>1. \A b : Block(source, b)' = Block(source, b)
      BY <1>1 DEF LoadKept, Block, Stream
    <3> QED BY <1>1, <3>1 DEF LoadKept, NextBlock
  <2>3. ctx.download /\ InWork' => NextBlock(req)'
    <3>1. CASE req'.sid \in {"none", "routine"}
      BY <3>1 DEF NextBlock
    <3>2. CASE req' = req
      BY <2>2, <3>2 DEF Prefix, InWork, LoadKept, NextBlock
    <3>3. CASE InBox /\ req' = Box
      BY <2>2, <3>3 DEF Prefix, LoadKept, NextBlock
    <3> QED BY <3>1, <3>2, <3>3
  <2>4. ctx.download /\ InBox' => NextBlock(Box)'
    BY <2>2 DEF Prefix, InBox, Box, NextBlock
  <2> QED BY <1>1, <2>1, <2>3, <2>4 DEF Prefix, LoadKept
<1>2. CASE LoadDropped
  BY <1>2 DEF LoadDropped, Prefix
<1>3. CASE LoadClosed
  <2>1. ctx'.staged = Phrase(source.img, Phrases)
    BY <1>3, StagedHeader DEF LoadClosed, Prefix, Sourced
  <2> QED BY <1>3, <2>1 DEF LoadClosed, Prefix
<1> QED BY <1>1, <1>2, <1>3

LEMMA NextPrefix ==
  ASSUME SlotInv, Flight, Exchange, Sourced, Counted, Prefix, [Next]_vars, Sourced'
  PROVE  Prefix'
<1>1. ASSUME NEW v \in Versions, NEW o \in Options, Start(v, o)
      PROVE  Prefix'
  BY <1>1, OtherOnLoad, UntouchedLoad, PrefixFrame DEF Start, server
<1>2. CASE TesterSends
  <2>1. toServer' = <<Request>> /\ UNCHANGED <<req, source, ctx, flash>>
    BY <1>2, OtherOnLoad DEF TesterSends, server
  <2>2. Box' = Request
    BY <2>1 DEF Box
  <2>3. \A b : Block(source, b)' = Block(source, b)
    BY <2>1 DEF Block, Stream
  <2>4. ctx.download => NextBlock(Box)'
    <3>1. ctx.download => NextBlock(Request)
      BY <1>2, SendsNext
    <3> QED BY <2>1, <2>2, <2>3, <3>1 DEF NextBlock
  <2>5. UNCHANGED <<Written, InWork>> /\ (NextBlock(req)' <=> NextBlock(req))
    BY <2>1, <2>3 DEF Written, Held, PhraseOf, Stream, InWork, NextBlock
  <2> QED BY <2>1, <2>4, <2>5 DEF Prefix
<1>3. CASE TesterReceives \/ TesterTimesOut \/ TesterGivesUp
  BY <1>3, Hears, OtherOnLoad, UntouchedLoad, PrefixFrame DEF server
<1>4. CASE Fetch
  <2>1. InBox /\ req' = Box /\ toServer' = << >>
    BY <1>4, BoxIs DEF Fetch, InBox
  <2> QED BY <1>4, <2>1, OtherOnLoad, UntouchedLoad, PrefixFrame
<1>5. CASE Work
  <2>1. UNCHANGED <<tester, toServer>> /\ InWork /\ req'.sid \in {"none", "routine"}
    BY <1>5, WorkOnWire, EndsIs, GoesOnIs, Defaults
  <2>2. CASE LoadOpened \/ LoadGrown
    <3>1. ReqPlain /\ ~InWork'
      BY <2>1, <2>2, EndsIs, Defaults DEF LoadOpened, LoadGrown, ReqPlain, InWork
    <3>2. InBox' => NextBlock(Box)'
      <4>1. InBox => Box.sid \in {"session", "did"}
        BY <3>1 DEF Exchange, BoxPlain
      <4>2. InBox' => Box'.sid \in {"session", "did"}
        BY <2>1, <4>1 DEF InBox, Box
      <4> QED BY <4>2 DEF NextBlock
    <3>3. ~ctx'.complete /\ (ctx'.download => Written')
      <4>1. CASE LoadOpened
        <5>1. ctx'.download => source'.img \in Versions
          BY DEF Sourced
        <5> QED BY <4>1, <5>1, OpenedWritten DEF LoadOpened
      <4>2. CASE LoadGrown
        BY <2>1, <4>2, GrownWritten DEF LoadGrown, Prefix, Sourced
      <4> QED BY <2>2, <4>1, <4>2
    <3> QED BY <3>1, <3>2, <3>3 DEF Prefix
  <2>3. CASE ~LoadOpened /\ ~LoadGrown
    BY <1>5, <2>1, <2>3, WorkOnLoad, PrefixFrame
  <2> QED BY <2>2, <2>3
<1>6. CASE Quiet
  <2>1. LoadKept \/ LoadDropped
    BY <1>6, OtherOnLoad
  <2>2. /\ req'.sid \in {"none", "routine"} \/ req' = req
        /\ toServer' \in {toServer, << >>}
    BY <1>6, QuietIs, Defaults
  <2> QED BY <2>1, <2>2, PrefixFrame
<1> QED BY <1>1, <1>2, <1>3, <1>4, <1>5, <1>6, StepIs
-----------------------------------------------------------------------------
(* HOW FAR THE FLASHER IS BEHIND                                           *)

LEMMA OkOfBlock ==
  ASSUME SlotInv, Work, ~LoadGrown, NEW i \in DOMAIN toTester',
         toTester'[i].sid = "transfer", toTester'[i].kind = "ok"
  PROVE  i \in DOMAIN toTester /\ toTester'[i] = toTester[i]
<1>1. ASSUME NEW kind \in Kinds \ {"ok"}, NEW value \in Values, Answer(kind, value)
      PROVE  i \in DOMAIN toTester /\ toTester'[i] = toTester[i]
  <2> DEFINE a == [sid |-> req.sid, sub |-> req.sub, kind |-> kind, value |-> value]
  <2>1. a \in Answers /\ a.kind # "ok"
    BY DEF SlotInv, TypeInv, RequestOK, Requests, Answers
  <2>2. toTester' = Append(toTester, a)
    BY <1>1 DEF Answer
  <2> QED BY <2>1, <2>2, QueueAppend
<1>2. 0 \in Values /\ {"pending", "11"} \subseteq Kinds \ {"ok"}
  BY DEF Values, Kinds
<1>3. CASE GoesOn
  BY <1>1, <1>2, <1>3 DEF GoesOn
<1>4. CASE Ends /\ req.sid # "transfer"
  <2>1. PICK a \in Answers : toTester' = Append(toTester, a) /\ a.sid = req.sid
    BY <1>4, EndsIs
  <2> QED BY <1>4, <2>1, QueueAppend
<1>5. CASE Ends /\ req.sid = "transfer"
  <2>1. AppHandles \/ Transfer
    BY <1>5, EraseOnWire, VerifyOnWire DEF Work, SessionControl, GenerateSeed, ValidateKey,
       ReadIdentifier, Download, TransferExit, EcuReset, Handling
  <2>2. AppHandles => Answer("11", 0)
    BY <1>5 DEF AppHandles
  <2>3. Transfer => \E kind \in Kinds \ {"ok"} : Answer(kind, 0)
    BY TransferLoad
  <2> QED BY <1>1, <1>2, <2>1, <2>2, <2>3
<1> QED BY <1>3, <1>4, <1>5, WorkOnWire

(* Nothing under way and nothing opened adds to the count.                 *)
LEMMA CountedFrame ==
  ASSUME SlotInv, Counted, LoadKept \/ LoadDropped \/ LoadClosed,
         tester'.run = tester.run,
         (tester'.pc = tester.pc /\ tester'.sent = tester.sent) \/ tester'.pc = "failed",
         tester'.pc = "blocks" => (tester'.waiting <=> tester.waiting),
         ReqPlain' \/ BoxPlain' => ReqPlain \/ BoxPlain,
         \A i \in DOMAIN toTester' : toTester'[i].sid = "transfer" /\ toTester'[i].kind = "ok" =>
           \E j \in DOMAIN toTester : toTester'[i] = toTester[j]
  PROVE  Counted'
<1>1. CASE LoadKept
  <2>1. ctx'.received = ctx.received /\ (Mine' => Mine)
    BY <1>1 DEF LoadKept, Mine
  <2>2. Mine' /\ tester'.pc \in Preparing => ctx'.received = 0
    BY <2>1 DEF Counted, Preparing
  <2>3. ASSUME Mine', tester'.pc = "blocks"
        PROVE  /\ ctx'.received \in {tester'.sent * BlockSize, EndOf(tester'.sent + 1)}
               /\ ~tester'.waiting \/ ReqPlain' \/ BoxPlain' => ctx'.received = tester'.sent * BlockSize
               /\ \A i \in DOMAIN toTester' : toTester'[i].sid = "transfer" /\ toTester'[i].kind = "ok" =>
                    ctx'.received = EndOf(tester'.sent + 1)
    <3>1. tester.pc = "blocks" /\ Mine /\ tester'.sent = tester.sent
      BY <2>1, <2>3
    <3> QED BY <2>1, <2>3, <3>1 DEF Counted
  <2> QED BY <2>2, <2>3 DEF Counted, EndOf
<1>2. CASE LoadDropped \/ LoadClosed
  BY <1>2 DEF LoadDropped, LoadClosed, Counted, Mine
<1> QED BY <1>1, <1>2

LEMMA InitCounted ==
  ASSUME Init
  PROVE  Counted
BY Defaults DEF Init, Counted, Mine

(* A block accepted answers the one request of its run.                    *)
LEMMA GrownCounted ==
  ASSUME SlotInv, Flight, Exchange, Sourced, Counted, Work, LoadGrown
  PROVE  Counted'
<1>1. /\ UNCHANGED <<tester, toServer, source>> /\ req.sid = "transfer" /\ spc = "handle"
      /\ ReqPlain /\ ~ReqPlain' /\ (BoxPlain' <=> BoxPlain) /\ ctx.download
  BY WorkOnWire, EndsIs DEF LoadGrown, ReqPlain, InWork, BoxPlain, InBox, Box
<1>2. FlasherOK(tester)
  BY DEF SlotInv, TypeInv
<1>3. ASSUME Mine, tester.pc \in Preparing
      PROVE  FALSE
  <2>1. CASE tester.pc \in Once
    <3>1. req.sid = SidOf[tester.pc]
      BY <1>1, <1>2, <2>1, RequestSid DEF Exchange, Matches, Once, Late, Ended
    <3> QED BY <1>1, <1>3, <3>1 DEF SidOf, Preparing
  <2>2. CASE tester.pc \in {"session", "session2"}
    <3>1. req.run = tester.run
      BY <1>1, <1>3 DEF Flight, Owned, Own, Mine
    <3> QED BY <1>1, <2>2, <3>1 DEF Flight, Entering, InWork
  <2> QED BY <1>3, <2>1, <2>2 DEF Preparing, Once, Late
<1>4. ASSUME tester.pc = "blocks"
      PROVE  /\ ctx'.received = EndOf(tester.sent + 1) /\ tester.waiting /\ ~BoxPlain
  <2>1. tester.waiting /\ ~BoxPlain /\ req = Request
    BY <1>1, <1>4 DEF Exchange, Once, Late
  <2>2. /\ tester.sent + 1 \in 1 .. Blocks /\ tester.sent \in Nat
        /\ req.arg = Block(source, tester.sent + 1) /\ ctx.received = tester.sent * BlockSize
    BY <1>1, <1>4, <2>1, SentIsNext
  <2>3. tester.sent + 1 - 1 = tester.sent
    BY <2>2
  <2>4. source.img \in Versions \cup {0}
    BY <1>1 DEF Sourced
  <2>5. /\ Len(req.arg) = EndOf(tester.sent + 1) - tester.sent * BlockSize
        /\ EndOf(tester.sent + 1) \in Nat /\ tester.sent * BlockSize \in Nat
    BY <2>2, <2>3, <2>4, BlockIs
  <2> QED BY <2>1, <2>2, <2>5 DEF LoadGrown
<1>5. Mine' <=> Mine
  BY <1>1 DEF LoadGrown, Mine
<1> QED BY <1>1, <1>3, <1>4, <1>5 DEF Counted, EndOf

LEMMA OpenedCounted ==
  ASSUME SlotInv, Exchange, Work, LoadOpened
  PROVE  Counted'
<1>1. /\ UNCHANGED <<tester, toServer>> /\ req.sid = "download" /\ ReqPlain /\ ctx'.received = 0
  BY WorkOnWire DEF LoadOpened, ReqPlain, InWork
<1>2. tester.pc # "blocks"
  <2>1. SUFFICES ASSUME tester.pc = "blocks"
                 PROVE  FALSE
    OBVIOUS
  <2>2. req.sid = SidOf["blocks"]
    BY <1>1, <2>1, RequestSid DEF Exchange, Matches, Once, Late, Ended, SlotInv, TypeInv
  <2> QED BY <1>1, <2>2 DEF SidOf
<1> QED BY <1>1, <1>2 DEF Counted

LEMMA HearsCounted ==
  ASSUME SlotInv, Flight, Exchange, Counted, TesterReceives \/ TesterTimesOut \/ TesterGivesUp
  PROVE  Counted'
<1>1. /\ tester.pc \notin Ended /\ UNCHANGED <<toServer, req, ctx, source, flash>>
      /\ tester'.run = tester.run /\ (Fails \/ Stays \/ TriesAgain \/ Goes)
  BY Hears DEF server, durable, history
<1>2. LoadKept /\ (ReqPlain' \/ BoxPlain' => ReqPlain \/ BoxPlain) /\ (Mine' <=> Mine)
  BY <1>1, UntouchedLoad DEF ReqPlain, BoxPlain, InWork, InBox, Box, Mine
<1>3. \A i \in DOMAIN toTester' : \E j \in DOMAIN toTester : toTester'[i] = toTester[j]
  BY Hears, QueueTail
<1>4. tester.pc \in Points \ Ended /\ FlasherOK(tester)
  BY <1>1 DEF SlotInv, TypeInv, FlasherOK
<1>5. CASE Fails
  BY <1>1, <1>5 DEF Fails, Counted, Preparing
<1>6. CASE Stays
  BY <1>1, <1>2, <1>3, <1>6, CountedFrame DEF Stays
<1>7. CASE TriesAgain
  BY <1>1, <1>2, <1>7 DEF TriesAgain, Counted, Preparing
<1>8. CASE Goes
  <2>1. CASE tester'.pc \in Preparing
    <3>1. tester.pc \in Preparing
      BY <1>4, <1>8, <2>1 DEF Goes, NextPoints, Preparing, Points, Ended
    <3> QED BY <1>1, <1>2, <2>1, <3>1 DEF Counted, Preparing
  <2>2. CASE tester'.pc = "blocks" /\ Mine
    <3>1. tester.pc \in {"download", "blocks"}
      BY <1>4, <1>8, <2>2 DEF Goes, NextPoints, Points, Ended
    <3>2. ~ReqPlain' /\ ~BoxPlain' /\ \A i \in DOMAIN toTester' : IsSession(i)'
      BY <1>1, <1>8, <3>1, GoesAlone DEF Once, Late
    <3>3. \A i \in DOMAIN toTester' : toTester'[i].sid # "transfer"
      BY <3>2 DEF IsSession
    <3>4. ctx'.received = tester'.sent * BlockSize
      <4>1. CASE tester.pc = "download"
        <5>1. ctx.received = 0 /\ tester'.sent = 0
          BY <1>4, <1>8, <2>2, <4>1 DEF Counted, Preparing, FlasherOK, Goes
        <5> QED BY <1>1, <5>1, Sizes
      <4>2. CASE tester.pc = "blocks"
        <5>1. tester'.sent = tester.sent + 1 /\ tester.sent + 1 < Blocks
              /\ 1 \in DOMAIN toTester /\ toTester[1].kind = "ok" /\ toTester[1].sid = "transfer"
          <6>1. toTester # << >> /\ toTester[1].kind = "ok" /\ toTester[1].sid = SidOf["blocks"]
            BY <1>1, <1>4, <1>8, <4>2, RequestSid DEF Goes, Matches
          <6>2. 1 \in DOMAIN toTester
            BY <6>1, QueueType, EmptySeq
          <6> QED BY <1>8, <2>2, <4>2, <6>1, <6>2 DEF Goes, SidOf
        <5>2. ctx.received = EndOf(tester.sent + 1)
          BY <2>2, <4>2, <5>1 DEF Counted
        <5> QED BY <1>1, <5>1, <5>2 DEF EndOf
      <4> QED BY <3>1, <4>1, <4>2
    <3> QED BY <2>2, <3>2, <3>3, <3>4 DEF Counted, Preparing, EndOf
  <2>3. CASE tester'.pc \notin Preparing \cup {"blocks"} \/ ~Mine
    BY <1>2, <2>3 DEF Counted
  <2> QED BY <2>1, <2>2, <2>3
<1> QED BY <1>1, <1>5, <1>6, <1>7, <1>8

LEMMA NextCounted ==
  ASSUME SlotInv, Flight, Exchange, Sourced, Counted, [Next]_vars
  PROVE  Counted'
<1>1. ASSUME NEW v \in Versions, NEW o \in Options, Start(v, o)
      PROVE  Counted'
  <2>1. tester'.run = tester.run + 1 /\ UNCHANGED source
    BY <1>1, OtherOnLoad DEF Start
  <2>2. tester.run \in Nat /\ source.run \in Nat
    BY DEF SlotInv, TypeInv, FlasherOK, Runs
  <2>3. ~Mine'
    BY <2>1, <2>2 DEF Sourced, Mine
  <2> QED BY <2>3 DEF Counted
<1>2. CASE TesterSends
  <2>1. /\ tester'.pc = tester.pc /\ tester'.run = tester.run /\ tester'.sent = tester.sent
        /\ ~tester.waiting /\ UNCHANGED <<toTester, ctx, source>>
    BY <1>2, OtherOnLoad DEF TesterSends, SlotInv, TypeInv, FlasherOK
  <2>2. Mine' <=> Mine
    BY <2>1 DEF Mine
  <2> QED BY <2>1, <2>2 DEF Counted, EndOf
<1>3. CASE TesterReceives \/ TesterTimesOut \/ TesterGivesUp
  BY <1>3, HearsCounted
<1>4. CASE Fetch
  <2>1. InBox /\ req' = Box /\ toServer' = << >> /\ UNCHANGED <<tester, toTester>> /\ LoadKept
    BY <1>4, BoxIs, OtherOnLoad, UntouchedLoad DEF Fetch, InBox
  <2>2. ReqPlain' \/ BoxPlain' => ReqPlain \/ BoxPlain
    BY <2>1 DEF ReqPlain, BoxPlain, InWork, InBox
  <2> QED BY <2>1, <2>2, CountedFrame
<1>5. CASE Work
  <2>1. CASE LoadGrown
    BY <1>5, <2>1, GrownCounted
  <2>2. CASE LoadOpened
    BY <1>5, <2>2, OpenedCounted
  <2>3. CASE ~LoadGrown /\ ~LoadOpened
    <3>1. LoadKept \/ LoadDropped \/ LoadClosed
      BY <1>5, <2>3, WorkOnLoad
    <3>2. UNCHANGED <<tester, toServer>> /\ (ReqPlain' => ReqPlain) /\ (BoxPlain' <=> BoxPlain)
      BY <1>5, WorkOnWire, EndsIs, GoesOnIs DEF ReqPlain, InWork, BoxPlain, InBox, Box
    <3>3. \A i \in DOMAIN toTester' : toTester'[i].sid = "transfer" /\ toTester'[i].kind = "ok" =>
            i \in DOMAIN toTester /\ toTester'[i] = toTester[i]
      BY <1>5, <2>3, OkOfBlock
    <3> QED BY <3>1, <3>2, <3>3, CountedFrame
  <2> QED BY <2>1, <2>2, <2>3
<1>6. CASE Quiet
  <2>1. /\ UNCHANGED tester /\ (ReqPlain' => ReqPlain) /\ (BoxPlain' => BoxPlain)
        /\ LoadKept \/ LoadDropped
    BY <1>6, QuietIs, OtherOnLoad, Defaults DEF ReqPlain, InWork, BoxPlain, InBox, Box
  <2>2. \A i \in DOMAIN toTester' : \E j \in DOMAIN toTester : toTester'[i] = toTester[j]
    BY <1>6, QuietIs, QueueTail
  <2> QED BY <2>1, <2>2, CountedFrame
<1> QED BY <1>1, <1>2, <1>3, <1>4, <1>5, <1>6, StepIs
-----------------------------------------------------------------------------
(* WHAT THE SERVER ACCEPTED                                                *)

(* Byte i is byte "at" of phrase p.                                        *)
LEMMA ByteAt ==
  ASSUME NEW i \in Nat \ {0}
  PROVE  LET p  == (i - 1) \div PhraseSize + 1
             at == ((i - 1) % PhraseSize) + 1
         IN  /\ p \in Nat \ {0} /\ at \in 1 .. PhraseSize
             /\ (p - 1) * PhraseSize \in Nat /\ i = (p - 1) * PhraseSize + at
             /\ \A k \in Nat : i <= k * PhraseSize => p <= k
<1> DEFINE q == (i - 1) \div PhraseSize
           r == (i - 1) % PhraseSize
<1>1. i - 1 \in Nat /\ PhraseSize \in Nat /\ PhraseSize > 0
  BY Sizes
<1>2. q \in Nat /\ r \in 0 .. PhraseSize - 1 /\ i - 1 = q * PhraseSize + r /\ q * PhraseSize \in Nat
  BY <1>1
<1> HIDE DEF q, r
<1>3. i = q * PhraseSize + (r + 1) /\ r + 1 \in 1 .. PhraseSize /\ q + 1 - 1 = q /\ q + 1 \in Nat \ {0}
  BY <1>1, <1>2
<1>4. ASSUME NEW k \in Nat, i <= k * PhraseSize
      PROVE  q + 1 <= k
  <2>1. q * PhraseSize < k * PhraseSize
    BY <1>1, <1>2, <1>4
  <2> QED BY <1>1, <1>2, <2>1
<1> QED BY <1>2, <1>3, <1>4 DEF q, r

LEMMA WrittenBytes ==
  ASSUME SlotInv, Written, source.img \in Versions, NEW i \in 1 .. ctx.received
  PROVE  WrittenByte(i) = Stream(source)[i]
<1> DEFINE s == Stream(source)
           a == ctx.programmed
           e == ctx.received
<1>1. s \in Content /\ Len(s) = SlotSize /\ SlotSize \in Nat
  BY StreamType, Sizes
<1>2. a \in Nat /\ e \in Nat /\ a <= e /\ e <= SlotSize
  BY Sizes DEF SlotInv, TypeInv, ContextOK, Content
<1>3. i \in Nat \ {0} /\ i <= e
  BY <1>2
<1>4. CASE i > a
  <2>1. i - a \in 1 .. e - a /\ a + (i - a) = i
    BY <1>2, <1>3, <1>4
  <2>2. SubSeq(s, a + 1, e)[i - a] = s[a + (i - a)]
    <3> DEFINE j == i - a
    <3>1. j \in 1 .. e - a
      BY <2>1
    <3> HIDE DEF j, s
    <3>2. SubSeq(s, a + 1, e)[j] = s[a + j]
      BY <1>1, <1>2, <3>1, CutIs
    <3> QED BY <3>2 DEF j
  <2> QED BY <1>4, <2>1, <2>2 DEF WrittenByte, Written
<1>5. CASE ~(i > a)
  <2> DEFINE p  == (i - 1) \div PhraseSize + 1
             at == ((i - 1) % PhraseSize) + 1
  <2>1. /\ p \in Nat \ {0} /\ at \in 1 .. PhraseSize
        /\ (p - 1) * PhraseSize \in Nat /\ i = (p - 1) * PhraseSize + at
        /\ \A k \in Nat : i <= k * PhraseSize => p <= k
    BY <1>3, ByteAt
  <2>2. WrittenByte(i) = Held(p)[at]
    BY <1>5 DEF WrittenByte, Held
  <2> HIDE DEF p, at
  <2>3. PICK k \in 0 .. Phrases : a = k * PhraseSize
    BY DEF SlotInv, TypeInv, ContextOK
  <2>4. p <= k /\ k \in Nat /\ p \in 1 .. Phrases
    BY <1>2, <1>3, <1>5, <2>1, <2>3, Sizes
  <2>5. p * PhraseSize \in Nat /\ p * PhraseSize <= a /\ p * PhraseSize = (p - 1) * PhraseSize + PhraseSize
    BY <2>1, <2>3, <2>4, Sizes
  <2>6. Held(p) = SubSeq(s, (p - 1) * PhraseSize + 1, p * PhraseSize)
    BY <2>4, <2>5 DEF Written, PhraseOf
  <2>7. SubSeq(s, (p - 1) * PhraseSize + 1, p * PhraseSize)[at] = s[(p - 1) * PhraseSize + at]
    <3> DEFINE b == (p - 1) * PhraseSize
               c == p * PhraseSize
    <3>1. b \in Nat /\ c \in Nat /\ b <= c /\ c <= SlotSize /\ at \in 1 .. c - b
      BY <1>2, <2>1, <2>5, Sizes
    <3> HIDE DEF b, c, s
    <3>2. SubSeq(s, b + 1, c)[at] = s[b + at]
      BY <1>1, <3>1, CutIs
    <3> QED BY <3>2 DEF b, c
  <2> QED BY <2>1, <2>2, <2>6, <2>7
<1> QED BY <1>2, <1>3, <1>4, <1>5

LEMMA PrefixAccepted ==
  ASSUME SlotInv, Sourced, Prefix, Counted
  PROVE  AcceptedIsPrefix
<1> SUFFICES ASSUME ctx.download
             PROVE  /\ ctx.received = ctx.programmed + Len(ctx.buffer)
                    /\ \A i \in 1 .. ctx.received : WrittenByte(i) = Stream(source)[i]
                    /\ tester.run = source.run /\ tester.pc = "blocks" =>
                         ctx.received \in {tester.sent * BlockSize, (tester.sent + 1) * BlockSize,
                                           SlotSize}
  BY DEF AcceptedIsPrefix
<1>1. ctx.received = ctx.programmed + Len(ctx.buffer)
  BY DEF SlotInv, TypeInv, ContextOK
<1>2. \A i \in 1 .. ctx.received : WrittenByte(i) = Stream(source)[i]
  BY WrittenBytes DEF Prefix, Sourced
<1>3. ASSUME tester.run = source.run, tester.pc = "blocks"
      PROVE  ctx.received \in {tester.sent * BlockSize, (tester.sent + 1) * BlockSize, SlotSize}
  <2>1. ctx.received \in {tester.sent * BlockSize, EndOf(tester.sent + 1)}
    BY <1>3 DEF Counted, Mine
  <2> QED BY <2>1 DEF EndOf
<1> QED BY <1>1, <1>2, <1>3

(* While a download is open the server holds exactly the first bytes of    *)
(* what the run that requested it sends, in the slot, in the staged header *)
(* and in the phrase buffer, and that run is at most one block behind.     *)
THEOREM AcceptedPrefix == Spec => []AcceptedIsPrefix
<1> DEFINE Inv == Flight /\ Exchange /\ Sourced /\ Counted /\ Prefix
<1>1. Init => Inv
  BY InitFlight, InitExchange, InitSourced, InitCounted, InitPrefix
<1>2. SlotInv /\ Inv /\ [Next]_vars => Inv'
  BY NextFlight, NextExchange, NextSourced, NextCounted, NextPrefix
<1>3. SlotInv /\ Inv => AcceptedIsPrefix
  BY PrefixAccepted
<1> QED BY <1>1, <1>2, <1>3, SlotInvariance, PTL DEF Spec
-----------------------------------------------------------------------------
(* WHAT A PASSED VERIFICATION MEANS                                        *)

LEMMA VouchFrame ==
  ASSUME Vouch, tester'.img = tester.img, UNCHANGED <<journal, flash>>,
         active'.version = active.version
  PROVE  Vouch'
BY ImageWithIs DEF Vouch

(* Neither a reset nor a time-out takes it back.                           *)
LEMMA QuietVouch ==
  ASSUME SlotInv, Vouch, Quiet
  PROVE  Vouch'
<1>1. UNCHANGED tester /\ journal.state \in {"PENDING_ACTIVATION", "IDLE"}
  BY QuietIs DEF Vouch
<1>2. CASE Confirm
  <2>1. active'.version = active.version /\ UNCHANGED <<journal, flash>>
    BY <1>2 DEF Confirm, SlotInv, TypeInv
  <2> QED BY <1>1, <2>1, VouchFrame
<1>3. CASE TransferTimeout
  <2>1. UNCHANGED durable
    BY <1>1, <1>3 DEF TransferTimeout, AbortDownload, Updating, durable
  <2> QED BY <1>1, <2>1, VouchFrame DEF durable
<1>4. CASE PowerLoss \/ SoftwareReset \/ LoseRequest \/ LoseAnswer \/ UNCHANGED vars
  <2>1. UNCHANGED durable
    BY <1>4 DEF PowerLoss, SoftwareReset, Down, LoseRequest, LoseAnswer, vars
  <2> QED BY <1>1, <2>1, VouchFrame DEF durable
<1>5. CASE Recover
  <2>1. journal \in Journals /\ flash \in [1 .. Phrases -> Content]
    BY DEF SlotInv, TypeInv
  <2>2. journal'.state = Recovered /\ UNCHANGED active
    BY <1>5, <2>1 DEF Recover, Journals
  <2>3. CASE journal.state = "PENDING_ACTIVATION"
    <3>1. Header = journal.header /\ SlotImage > active.version
      BY <2>3 DEF SlotInv, Vouched
    <3>2. Recovered = "PENDING_ACTIVATION"
      BY <2>3, <3>1, ImageWithIs DEF Recovered, Header
    <3>3. flash' = flash
      BY <1>5, <2>1, <3>1, <3>2, Sizes DEF Recover, Header
    <3> QED BY <1>1, <2>2, <2>3, <3>2, <3>3, ImageWithIs DEF Vouch
  <2>4. CASE journal.state = "IDLE"
    <3>1. Recovered = "IDLE"
      BY <2>4 DEF Recovered, Updating
    <3> QED BY <1>1, <2>2, <2>4, <3>1 DEF Vouch
  <2> QED BY <1>1, <2>3, <2>4
<1>6. CASE StartUp
  <2>1. journal \in Journals
    BY DEF SlotInv, TypeInv
  <2>2. CASE journal.state = "PENDING_ACTIVATION"
    <3>1. SlotImage = tester.img
      BY <2>2 DEF Vouch
    <3>2. active'.version = SlotImage /\ journal'.state = "IDLE"
      BY <1>6, <2>1, <2>2 DEF StartUp, Journals
    <3> QED BY <1>1, <3>1, <3>2 DEF Vouch
  <2>3. CASE journal.state # "PENDING_ACTIVATION"
    BY <1>1, <1>6, <2>3, VouchFrame DEF StartUp, durable
  <2> QED BY <2>2, <2>3
<1> QED BY <1>2, <1>3, <1>4, <1>5, <1>6 DEF Quiet, Restart

(* Nor do the requests that may still be under way.                        *)
LEMMA WorkVouch ==
  ASSUME SlotInv, Vouch, Work, req.sid \in {"session", "did", "reset"}
  PROVE  Vouch'
<1>1. UNCHANGED tester /\ journal.state \notin Updating
  BY WorkOnWire DEF Vouch, Updating
<1>2. AppHandles \/ SessionControl \/ ReadIdentifier \/ EcuReset
  BY EraseOnWire, VerifyOnWire DEF Work, GenerateSeed, ValidateKey, Download, Transfer,
     TransferExit, Handling
<1>3. UNCHANGED durable
  BY <1>1, <1>2 DEF AppHandles, SessionControl, AbortDownload, ReadIdentifier, EcuReset, Refused,
     durable
<1> QED BY <1>1, <1>3, VouchFrame DEF durable

(* The one positive answer to the verification of the flasher's image.     *)
LEMMA VerifiedVouch ==
  ASSUME SlotInv, Flight, Exchange, Sourced, Prefix, Work, tester.pc = "verify", ReqPlain,
         NEW a \in Answers, toTester' = Append(toTester, a), a.kind = "ok"
  PROVE  Vouch'
<1>1. req.sid = "routine" /\ req.sub = "verify"
  BY RequestSid DEF Exchange, Matches, Once, Late, Ended, SidOf, SlotInv, TypeInv
<1>2. ASSUME NEW kind \in Kinds \ {"ok"}, Answer(kind, 0)
      PROVE  FALSE
  <2> DEFINE m == [sid |-> req.sid, sub |-> req.sub, kind |-> kind, value |-> 0]
  <2>1. toTester \in Seq(Answers) /\ m \in Answers /\ m.kind # "ok"
    BY QueueType DEF SlotInv, TypeInv, RequestOK, Requests, Answers, Values
  <2>2. toTester' = Append(toTester, m)
    BY <1>2 DEF Answer
  <2> HIDE DEF m
  <2>3. \A x \in Answers : Append(toTester, x)[Len(toTester) + 1] = x
    BY <2>1, AppendProperties
  <2> QED BY <2>1, <2>2, <2>3
<1>3. toTester' # toTester
  <2>1. Len(Append(toTester, a)) = Len(toTester) + 1 /\ Len(toTester) \in Nat
    BY QueueType, AppendProperties
  <2> QED BY <2>1
<1>4. {"pending", "11", "31", "72"} \subseteq Kinds \ {"ok"} /\ VerifyRefusal \in Kinds
  BY Refusals DEF Kinds
<1>5. VerifyDone
  <2>1. ~Erasing
    BY <1>1 DEF SlotInv, Inside, Erasing, EraseStart, EraseBegin, EraseMark, EraseHeader,
       EraseSectorPending, EraseSector, EraseReady, EraseDone, Reach, Journalled, Handling, EraseMid
  <2>2. Verifying \/ AppHandles
    BY <1>1, <2>1 DEF Work, SessionControl, GenerateSeed, ValidateKey, ReadIdentifier, Download,
       Transfer, TransferExit, EcuReset, Handling
  <2>3. ~AppHandles
    BY <1>1, <1>2, <1>4 DEF AppHandles
  <2>4. ~VerifyStart /\ ~Validate /\ ~Publish /\ ~ReadbackRejected
    BY <1>2, <1>4 DEF VerifyStart, Validate, Publish, ReadbackRejected, FlashFails, Refused,
           Pending, Refuse, Finish
  <2>5. ~VerifyMark /\ ~SealVerified /\ ~SealPending
    BY <1>2, <1>3, <1>4 DEF VerifyMark, SealVerified, SealPending, Reach, Journalled, Refuse, Finish
  <2> QED BY <2>2, <2>3, <2>4, <2>5 DEF Verifying
<1>6. /\ journal.state = "PENDING_ACTIVATION" /\ Header = journal.header
      /\ SlotImage > active.version /\ ctx.complete /\ ctx.staged = journal.header
  BY <1>5 DEF VerifyDone, SlotInv, Inside, Vouched, VerifyMid
<1>7. ctx.staged = Phrase(tester.img, Phrases) /\ tester.img \in Versions
  BY <1>6 DEF Prefix, Sourced, Flight, Entering, Entered, Own, Once, Late
<1>8. SlotImage \in Versions /\ Header = Phrase(SlotImage, Phrases)
  <2>1. SlotImage \in Versions \cup {0} /\ (SlotImage \in Versions => Whole(flash, Header, SlotImage))
    BY ImageWithIs, ImageInIs DEF Header
  <2> QED BY <1>6, <2>1, Running DEF Whole
<1>9. SlotImage = tester.img
  BY <1>6, <1>7, <1>8, PhraseNames, Sizes
<1>10. UNCHANGED <<tester, journal, flash, active>>
  BY <1>5 DEF VerifyDone, durable
<1> QED BY <1>6, <1>9, <1>10, VouchFrame DEF Vouch

(* What the flasher has of it: the point it reached, or an answer.         *)
LEMMA PassedFrame ==
  ASSUME Passed, Vouch => Vouch', tester'.pc = tester.pc \/ tester'.pc \notin After \cup {"verify"},
         \A i \in DOMAIN toTester' : ~IsSession(i)' /\ toTester'[i].kind = "ok" =>
           \E j \in DOMAIN toTester : ~IsSession(j) /\ toTester[j].kind = "ok"
  PROVE  Passed'
BY DEF Passed, After

LEMMA InitPassed ==
  ASSUME Init
  PROVE  Passed
BY DEF Init, Passed, After

LEMMA HearsPassed ==
  ASSUME SlotInv, Flight, Exchange, Passed, TesterReceives \/ TesterTimesOut \/ TesterGivesUp
  PROVE  Passed'
<1>1. /\ tester.pc \in Points \ Ended /\ UNCHANGED <<toServer, req, durable>>
      /\ tester'.img = tester.img /\ (Fails \/ Stays \/ TriesAgain \/ Goes)
  BY Hears DEF server, SlotInv, TypeInv, FlasherOK
<1>2. Vouch => Vouch'
  BY <1>1, VouchFrame DEF durable
<1>3. \A i \in DOMAIN toTester' : ~IsSession(i)' /\ toTester'[i].kind = "ok" =>
        \E j \in DOMAIN toTester : ~IsSession(j) /\ toTester[j].kind = "ok"
  BY Hears, QueueTail DEF IsSession
<1>4. CASE Fails \/ Stays \/ TriesAgain
  BY <1>2, <1>3, <1>4, PassedFrame DEF Fails, Stays, TriesAgain, After
<1>5. CASE Goes
  <2>1. CASE tester'.pc = "verify"
    <3>1. tester.pc = "exit"
      BY <1>1, <1>5, <2>1 DEF Goes, NextPoints, Points, Ended
    <3>2. \A i \in DOMAIN toTester' : IsSession(i)'
      BY <1>1, <1>5, <3>1, GoesAlone DEF Once, Late
    <3> QED BY <2>1, <3>2 DEF Passed, After
  <2>2. CASE tester'.pc \in After
    <3>1. tester.pc \in {"verify", "reset", "poll"}
      BY <1>1, <1>5, <2>2 DEF Goes, NextPoints, After, Points, Ended
    <3>2. CASE tester.pc = "verify"
      <4>1. toTester # << >> /\ toTester[1].kind = "ok" /\ toTester[1].sid = "routine"
        BY <1>1, <1>5, <3>2, RequestSid DEF Goes, Matches, SidOf, SlotInv, TypeInv
      <4>2. 1 \in DOMAIN toTester
        BY <4>1, QueueType, EmptySeq
      <4>3. Vouch
        BY <3>2, <4>1, <4>2 DEF Passed, IsSession
      <4> QED BY <1>2, <2>2, <4>3 DEF Passed, After
    <3>3. CASE tester.pc \in After
      BY <1>2, <2>2, <3>3 DEF Passed, After
    <3> QED BY <3>1, <3>2, <3>3 DEF After
  <2> QED BY <2>1, <2>2 DEF Passed
<1> QED BY <1>1, <1>4, <1>5

LEMMA WorkPassed ==
  ASSUME SlotInv, Flight, Exchange, Sourced, Prefix, Passed, Work
  PROVE  Passed'
<1>1. UNCHANGED tester /\ InWork /\ FlasherOK(tester)
  BY WorkOnWire DEF SlotInv, TypeInv
<1>2. CASE tester.pc \in After
  <2>1. ReqPlain => req.sid \in {"did", "reset"}
    <3>1. CASE tester.pc = "reset"
      BY <1>1, <3>1, RequestSid DEF Exchange, Matches, Once, Late, Ended, SidOf
    <3>2. CASE tester.pc \in {"poll", "done"}
      BY <3>2 DEF Exchange
    <3> QED BY <1>2, <3>1, <3>2 DEF After
  <2>2. Vouch'
    BY <1>1, <1>2, <2>1, WorkVouch DEF ReqPlain, Passed
  <2> QED BY <1>1, <1>2, <2>2 DEF Passed, After
<1>3. CASE tester.pc = "verify"
  <2> SUFFICES ASSUME NEW i \in DOMAIN toTester', ~IsSession(i)', toTester'[i].kind = "ok"
               PROVE  Vouch'
    BY <1>1, <1>3 DEF Passed, After
  <2>1. CASE i \in DOMAIN toTester /\ toTester'[i] = toTester[i]
    <3>1. ~IsSession(i) /\ IsFinal(i) /\ toTester[i].kind = "ok"
      BY <2>1 DEF IsSession, IsFinal
    <3>2. ~ReqPlain /\ Vouch
      BY <1>3, <2>1, <3>1 DEF Exchange, Once, Late, Passed
    <3> QED BY <1>1, <3>2, WorkVouch DEF ReqPlain
  <2>2. CASE ~(i \in DOMAIN toTester /\ toTester'[i] = toTester[i])
    <3>1. PICK a \in Answers : toTester' = Append(toTester, a) /\ a.sid = req.sid
      <4>1. CASE Ends
        BY <4>1, EndsIs
      <4>2. CASE GoesOn
        BY <2>2, <4>2, GoesOnIs
      <4> QED BY <4>1, <4>2, WorkOnWire
    <3>2. toTester'[i] = a
      BY <2>2, <3>1, QueueAppend
    <3>3. ReqPlain /\ a.kind = "ok"
      BY <1>1, <3>1, <3>2 DEF IsSession, ReqPlain
    <3> QED BY <1>3, <3>1, <3>3, VerifiedVouch
  <2> QED BY <2>1, <2>2
<1>4. CASE tester.pc \notin After \cup {"verify"}
  BY <1>1, <1>4 DEF Passed, After
<1> QED BY <1>2, <1>3, <1>4

LEMMA NextPassed ==
  ASSUME SlotInv, Flight, Exchange, Sourced, Prefix, Passed, [Next]_vars
  PROVE  Passed'
<1>1. ASSUME NEW v \in Versions, NEW o \in Options, Start(v, o)
      PROVE  Passed'
  BY <1>1 DEF Start, Passed, After
<1>2. CASE TesterSends
  <2>1. /\ tester'.pc = tester.pc /\ tester'.img = tester.img /\ UNCHANGED <<toTester, durable>>
    BY <1>2 DEF TesterSends, SlotInv, TypeInv, FlasherOK
  <2> QED BY <2>1, VouchFrame, PassedFrame DEF durable, IsSession
<1>3. CASE TesterReceives \/ TesterTimesOut \/ TesterGivesUp
  BY <1>3, HearsPassed
<1>4. CASE Fetch
  <2>1. UNCHANGED <<tester, toTester, durable>>
    BY <1>4 DEF Fetch
  <2> QED BY <2>1, VouchFrame, PassedFrame DEF durable, IsSession
<1>5. CASE Work
  BY <1>5, WorkPassed
<1>6. CASE Quiet
  <2>1. UNCHANGED tester /\ (Vouch => Vouch')
    BY <1>6, QuietIs, QuietVouch
  <2>2. \A i \in DOMAIN toTester' : ~IsSession(i)' /\ toTester'[i].kind = "ok" =>
          \E j \in DOMAIN toTester : ~IsSession(j) /\ toTester[j].kind = "ok"
    BY <1>6, QuietIs, QueueTail DEF IsSession
  <2> QED BY <2>1, <2>2, PassedFrame
<1> QED BY <1>1, <1>2, <1>3, <1>4, <1>5, <1>6, StepIs

(* Once the flasher has seen VERIFY pass, its image waits in the slot for  *)
(* the next start or runs already; no late request, answer, time-out,      *)
(* failed write or reset takes that back.                                  *)
THEOREM PassedPending == Spec => []PassedMeansPending
<1> DEFINE Inv == Flight /\ Exchange /\ Sourced /\ Counted /\ Prefix /\ Passed
<1>1. Init => Inv
  BY InitFlight, InitExchange, InitSourced, InitCounted, InitPrefix, InitPassed
<1>2. SlotInv /\ Inv /\ [Next]_vars => Inv'
  BY NextFlight, NextExchange, NextSourced, NextCounted, NextPrefix, NextPassed
<1>3. SlotInv /\ Inv => PassedMeansPending
  BY DEF Passed, PassedMeansPending, Vouch, After
<1> QED BY <1>1, <1>2, <1>3, SlotInvariance, PTL DEF Spec
=============================================================================
