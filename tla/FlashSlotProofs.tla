-------------------------- MODULE FlashSlotProofs --------------------------
(***************************************************************************)
(* The programming server of FlashSession and the slot it writes, for any  *)
(* versions, sizes of slot, phrase and block, runs of the flasher and      *)
(* faults: the variables keep their types, the flag in RAM agrees with the *)
(* journal, a header in the slot heads the whole payload it names, and the *)
(* update implements InactiveSlot.                                         *)
(***************************************************************************)
EXTENDS FlashSession, SequenceTheorems, TLAPS

(* TYPES, one predicate per variable.                                      *)
Bytes   == (Versions \cup {0}) \X (1 .. SlotSize)
Content == Seq(Bytes)
Runs    == 0 .. MaxRuns
Values  == {0} \cup Seeds \cup [fault : BOOLEAN, version : Versions]
Kinds   == {"ok", "pending", "11", "22", "24", "31", "33", "35", "72", "73"}
Subs    == {0, "seed", "key", "erase", "verify"} \cup 0 .. Counter - 1
Plans   == [img : Versions, opt : Options]

Requests == [sid : Sids, sub : Subs, arg : Nat \cup Values \cup Content \cup Plans, run : Runs]
Answers  == [sid : Sids, sub : Subs, kind : Kinds, value : Values]
Journals == [state : States, header : Content]

(* Before the first block.                                                 *)
Preparing == {"session", "session2", "seed", "key", "status", "erase", "download"}

FlasherOK(t) ==
  /\ t \in [pc : Points, waiting : BOOLEAN, run : Runs, img : Versions \cup {0},
            opt : Options \cup {"none"}, seed : Values, sent : 0 .. Blocks]
  /\ t.pc # "off" => t.img \in Versions /\ t.opt \in Options
  /\ t.pc = "blocks" => t.sent < Blocks
  /\ t.pc \in Preparing => t.sent = 0
  /\ t.waiting => t.pc \notin Ended

RequestOK(m) ==
  /\ m \in Requests
  /\ m.sid = "routine"  => m.arg \in Nat
  /\ m.sid = "transfer" => m.arg \in Content
  /\ m.sid = "download" => m.arg \in Plans

MailboxOK(q) == q = << >> \/ \E m \in Requests : q = <<m>> /\ RequestOK(m) /\ m.sid # "none"

(* The context is counted in whole phrases and a rest in the buffer.       *)
ContextOK(c) ==
  /\ c \in [download : BOOLEAN, erased : BOOLEAN, complete : BOOLEAN, verified : BOOLEAN,
            received : 0 .. SlotSize, programmed : 0 .. SlotSize, buffer : Content,
            bsc : 0 .. Counter - 1, staged : Content]
  /\ c.received = c.programmed + Len(c.buffer)
  /\ \E k \in 0 .. Phrases : c.programmed = k * PhraseSize
  /\ Len(c.buffer) < PhraseSize
  /\ c.download => c.erased /\ ~c.complete
  /\ c.complete => c.erased

TypeInv ==
  /\ FlasherOK(tester) /\ MailboxOK(toServer) /\ toTester \in Seq(Answers)
  /\ RequestOK(req) /\ ContextOK(ctx)
  /\ session \in BOOLEAN /\ jfault \in BOOLEAN
  /\ security \in [seed : {0} \cup Seeds, issued : BOOLEAN, unlocked : BOOLEAN]
  /\ journal \in Journals /\ flash \in [1 .. Phrases -> Content]
  /\ active \in [version : Versions, trial : BOOLEAN]
  /\ unlocker \in Runs /\ source \in [run : Runs, img : Versions \cup {0}, opt : Options \cup {"none"}]
  /\ budget \in 0 .. MaxFaults

(* WHERE THE SERVER IS.                                                    *)
EraseMid  == {"preparing", "erasing", "wipe_header", "wipe", "wipe_sector", "erase_done"}
VerifyMid == {"verifying", "validate", "publish", "seal", "seal2", "verify_done"}
Between   == {"idle", "leaving", "restarting", "recover", "recover_boot", "start", "start_boot"}

Cleared == ~session /\ security = Locked /\ ctx = NoDownload /\ ~jfault

Placed ==
  /\ mode \in {"app", "boot", "off"}
  /\ mode = "app" => spc \in {"idle", "handle", "handle_leaving", "leaving"} /\ Cleared
  /\ mode = "off" => spc \in {"recover", "recover_boot", "start", "start_boot"} /\ Cleared
  /\ mode = "boot" => spc \in {"idle", "handle", "restarting"} \cup EraseMid \cup VerifyMid
  /\ spc \in Between <=> req.sid = "none"
  /\ req.sid = "none" => req = NoRequest

(* Inside a routine: admitted, and its own context.                        *)
Inside ==
  /\ spc \in EraseMid \cup VerifyMid =>
       session /\ security.unlocked /\ ~jfault /\ req.sid = "routine"
  /\ spc \in EraseMid => req.sub = "erase" /\ ~ctx.download /\ ~ctx.erased /\ ctx.received = 0
  /\ spc \in VerifyMid => req.sub = "verify" /\ ctx.complete
  /\ spc = "wipe_sector" => req.arg + 1 \in Payload
  /\ spc \in {"wipe_header", "wipe", "wipe_sector"} => journal.state = "ERASING"
  /\ spc \in {"validate", "publish", "seal"} => journal.state = "VERIFYING"
  /\ spc = "verify_done" => journal.state = "PENDING_ACTIVATION"
  /\ spc \in {"start", "start_boot"} => journal.state \notin Updating

(* DownloadIsProgramming at every point of the server.                     *)
Agreed == mode = "boot" /\ ~jfault => (ctx.download <=> journal.state = "PROGRAMMING")

(* WHAT THE SLOT HOLDS, and what was checked when.                         *)
Header    == flash[Phrases]
Published == {"TRANSFER_COMPLETE", "VERIFYING", "VERIFIED", "PENDING_ACTIVATION"}

Unpublished ==
  \/ ctx.erased /\ ~ctx.complete
  \/ ctx.complete /\ journal.state = "TRANSFER_COMPLETE"
  \/ spc \in {"wipe", "wipe_sector", "erase_done", "validate", "publish"}

Vouched ==
  /\ HeaderVouches
  /\ Unpublished => Header = Blank
  /\ spc = "publish" => ImageWith(ctx.staged) > active.version
  /\ ctx.complete => ctx.staged = journal.header
  /\ journal.state \in Published => Header \in {Blank, journal.header}
  /\ journal.state = "PENDING_ACTIVATION" \/ spc \in {"seal", "seal2", "verify_done"} =>
       Header = journal.header /\ SlotImage > active.version

SlotInv == TypeInv /\ Placed /\ Inside /\ Agreed /\ Vouched
-----------------------------------------------------------------------------
(* SIZES AND IMAGES                                                        *)

LEMMA Sizes ==
  /\ Phrases \in Nat /\ Phrases > 1 /\ PhraseSize \in Nat /\ PhraseSize > 0
  /\ BlockSize \in Nat /\ BlockSize > 0 /\ Counter \in Nat /\ Counter > 1
  /\ SlotSize \in Nat /\ SlotSize = Phrases * PhraseSize /\ SlotSize > 0
  /\ Versions \subseteq Nat \ {0} /\ Payload = 1 .. Phrases - 1 /\ Phrases \in 1 .. Phrases
BY SizesAssumption DEF SlotSize, Payload

(* Zero is no image.                                                       *)
LEMMA Running ==
  ASSUME SlotInv
  PROVE  active.version \in Versions /\ active.version \in Nat /\ active.version > 0
<1>1. active.version \in Versions
  BY DEF SlotInv, TypeInv
<1>2. active.version \in Nat \ {0}
  BY <1>1, Sizes
<1> QED BY <1>1, <1>2

(* The blocks cover the slot, the last one what is left of it.             *)
LEMMA BlockCount ==
  /\ Blocks \in Nat \ {0}
  /\ \A b \in 0 .. Blocks - 1 : b * BlockSize \in Nat /\ b * BlockSize < SlotSize
  /\ Blocks * BlockSize >= SlotSize
<1> DEFINE N == SlotSize + BlockSize - 1
<1>1. N \in Nat /\ N >= BlockSize
  BY Sizes
<1>2. Blocks = N \div BlockSize
  BY DEF Blocks
<1> HIDE DEF N
<1>3. Blocks \in Nat /\ Blocks * BlockSize <= N /\ N < Blocks * BlockSize + BlockSize
  BY <1>1, <1>2, Sizes
<1>4. Blocks # 0
  BY <1>1, <1>3, Sizes
<1>5. ASSUME NEW b \in 0 .. Blocks - 1
      PROVE  b * BlockSize \in Nat /\ b * BlockSize + BlockSize <= Blocks * BlockSize
  BY <1>3, Sizes
<1>6. N = SlotSize + BlockSize - 1
  BY DEF N
<1>7. Blocks * BlockSize \in Nat
  BY <1>3, Sizes
<1> QED BY <1>3, <1>4, <1>5, <1>6, <1>7, Sizes

(* The position of byte k of phrase p.                                     *)
LEMMA PhraseBounds ==
  ASSUME NEW p \in 1 .. Phrases
  PROVE  /\ (p - 1) * PhraseSize \in Nat /\ p * PhraseSize \in Nat
         /\ p * PhraseSize = (p - 1) * PhraseSize + PhraseSize /\ p * PhraseSize <= SlotSize
<1>1. p \in Nat /\ p - 1 \in Nat /\ p <= Phrases
  BY Sizes
<1> QED BY <1>1, Sizes

LEMMA StreamType ==
  ASSUME NEW run, run.img \in Versions \cup {0}
  PROVE  Stream(run) \in Content /\ Len(Stream(run)) = SlotSize
<1>1. \A i \in 1 .. SlotSize :
        (IF run.opt = "wrong_crc" /\ i = 1 THEN <<0, i>> ELSE <<run.img, i>>) \in Bytes
  BY DEF Bytes
<1> QED BY <1>1, Sizes DEF Stream, Content

LEMMA BlockType ==
  ASSUME NEW run, run.img \in Versions \cup {0}, NEW b \in 1 .. Blocks
  PROVE  Block(run, b) \in Content
<1> DEFINE s == Stream(run)
           l == (b - 1) * BlockSize + 1
           h == IF b < Blocks THEN b * BlockSize ELSE SlotSize
<1>1. s \in Content /\ Len(s) = SlotSize
  BY StreamType
<1>2. b - 1 \in 0 .. Blocks - 1 /\ (b < Blocks => b \in 0 .. Blocks - 1)
  BY BlockCount
<1>3. l \in Int /\ h \in Int /\ 1 <= l /\ h <= SlotSize
  BY <1>2, BlockCount, Sizes
<1> HIDE DEF s, l, h
<1>4. \A i \in l .. h : s[i] \in Bytes
  <2> TAKE i \in l .. h
  <2>1. i \in 1 .. Len(s)
    BY <1>1, <1>3, Sizes
  <2> QED BY <1>1, <2>1 DEF Content
<1>5. SubSeq(s, l, h) \in Content
  BY <1>3, <1>4, SubSeqProperties DEF Content
<1> QED BY <1>5 DEF Block, s, l, h

(* A phrase of an image names that image byte by byte.                     *)
LEMMA PhraseIs ==
  ASSUME NEW v \in Versions, NEW p \in 1 .. Phrases
  PROVE  /\ Phrase(v, p) \in Content /\ Len(Phrase(v, p)) = PhraseSize
         /\ Phrase(v, p)[1] = <<v, (p - 1) * PhraseSize + 1>>
         /\ Phrase(v, p) # Blank
<1> DEFINE s == Image(v)
           l == (p - 1) * PhraseSize + 1
           h == p * PhraseSize
<1>1. l \in Int /\ h \in Int /\ 1 <= l /\ l <= h /\ h <= SlotSize /\ h - l + 1 = PhraseSize
  BY PhraseBounds, Sizes
<1>2. \A i \in 1 .. SlotSize : s[i] = <<v, i>> /\ s[i] \in Bytes
  BY DEF Image, Bytes
<1> HIDE DEF s, l, h
<1>3. \A i \in l .. h : s[i] \in Bytes
  BY <1>1, <1>2, Sizes
<1>4. /\ SubSeq(s, l, h) \in Content
      /\ Len(SubSeq(s, l, h)) = IF l <= h THEN h - l + 1 ELSE 0
      /\ \A i \in 1 .. h - l + 1 : SubSeq(s, l, h)[i] = s[l + i - 1]
  BY <1>1, <1>3, SubSeqProperties DEF Content
<1>5. 1 \in 1 .. h - l + 1 /\ l + 1 - 1 = l /\ l \in 1 .. SlotSize
  BY <1>1, Sizes
<1>6. SubSeq(s, l, h)[1] = <<v, l>> /\ Len(SubSeq(s, l, h)) = PhraseSize
  BY <1>1, <1>2, <1>4, <1>5
<1>7. SubSeq(s, l, h) # << >>
  <2>1. \A q : q = << >> => Len(q) = 0
    OBVIOUS
  <2>2. Len(SubSeq(s, l, h)) # 0
    BY <1>6, Sizes
  <2> QED BY <2>1, <2>2, Zenon
<1>8. Phrase(v, p) = SubSeq(s, l, h)
  BY DEF Phrase, s, l, h
<1> QED BY <1>4, <1>6, <1>7, <1>8 DEF Blank, l

LEMMA PhraseNames ==
  ASSUME NEW v \in Versions, NEW w \in Versions, NEW p \in 1 .. Phrases,
         Phrase(v, p) = Phrase(w, p)
  PROVE  v = w
BY PhraseIs

(* ImageWith for a given slot content.                                     *)
Whole(f, header, v) == header = Phrase(v, Phrases) /\ \A p \in Payload : f[p] = Phrase(v, p)
ImageIn(f, header)  ==
  IF \E v \in Versions : Whole(f, header, v)
  THEN CHOOSE v \in Versions : header = Phrase(v, Phrases) ELSE 0

LEMMA ImageWithIs ==
  /\ \A h : ImageWith(h) = ImageIn(flash, h)
  /\ SlotImage = ImageIn(flash, flash[Phrases])
  /\ SlotImage' = ImageIn(flash', flash'[Phrases])
  /\ ImageWith(ctx.staged)' = ImageIn(flash', ctx'.staged)
BY DEF ImageWith, SlotImage, ImageIn, Whole

LEMMA ImageInIs ==
  ASSUME NEW f, NEW h
  PROVE  /\ ImageIn(f, h) \in Versions \cup {0}
         /\ \A v \in Versions : Whole(f, h, v) <=> ImageIn(f, h) = v
         /\ ImageIn(f, Blank) = 0
<1>1. ImageIn(f, Blank) = 0
  BY PhraseIs, Sizes DEF ImageIn, Whole
<1>2. ASSUME NEW v \in Versions, Whole(f, h, v)
      PROVE  ImageIn(f, h) = v
  <2>1. \E w \in Versions : h = Phrase(w, Phrases)
    BY <1>2 DEF Whole
  <2>2. ImageIn(f, h) \in Versions /\ h = Phrase(ImageIn(f, h), Phrases)
    BY <1>2, <2>1 DEF ImageIn
  <2> QED BY <1>2, <2>2, PhraseNames, Sizes DEF Whole
<1>3. CASE \E v \in Versions : Whole(f, h, v)
  <2>1. PICK v \in Versions : Whole(f, h, v)
    BY <1>3
  <2>2. ImageIn(f, h) = v
    BY <1>2, <2>1
  <2> QED BY <1>2, <2>1, <2>2, <1>1
<1>4. CASE ~\E v \in Versions : Whole(f, h, v)
  BY <1>4, Sizes, <1>1 DEF ImageIn
<1> QED BY <1>3, <1>4

LEMMA ImageOfPayload ==
  ASSUME NEW f, NEW g, NEW h, \A p \in Payload : f[p] = g[p]
  PROVE  ImageIn(f, h) = ImageIn(g, h)
BY DEF ImageIn, Whole
-----------------------------------------------------------------------------
(* WHAT THE HELPERS OF THE SERVER DO                                       *)

LEMMA Defaults ==
  /\ RequestOK(NoRequest) /\ NoRequest.sid = "none"
  /\ ContextOK(NoDownload) /\ ~NoDownload.download /\ ~NoDownload.erased
  /\ ~NoDownload.complete /\ NoDownload.received = 0 /\ NoDownload.staged = Blank
  /\ Blank \in Content
<1>1. Blank \in Content /\ Len(Blank) = 0
  BY DEF Blank, Content
<1>2. RequestOK(NoRequest) /\ NoRequest.sid = "none"
  BY SizesAssumption DEF RequestOK, NoRequest, Requests, Sids, Subs, Runs
<1>3. 0 \in 0 .. SlotSize /\ 1 \in 0 .. Counter - 1 /\ 0 = 0 * PhraseSize /\ 0 \in 0 .. Phrases
  BY Sizes
<1>4. ContextOK(NoDownload)
  BY <1>1, <1>3, Sizes DEF ContextOK, NoDownload, Blank
<1> QED BY <1>1, <1>2, <1>4 DEF NoDownload

LEMMA AbandonedIs ==
  ASSUME ContextOK(ctx)
  PROVE  /\ ContextOK(Abandoned) /\ ~Abandoned.download /\ ~Abandoned.erased
         /\ ~Abandoned.complete /\ Abandoned.received = 0
         /\ \A s \in Content : /\ ContextOK([Abandoned EXCEPT !.staged = s])
                             /\ ~[Abandoned EXCEPT !.staged = s].download
                             /\ ~[Abandoned EXCEPT !.staged = s].erased
                             /\ ~[Abandoned EXCEPT !.staged = s].complete
<1>1. ctx.staged \in Content
  BY DEF ContextOK
<1> QED BY <1>1, Defaults DEF ContextOK, Abandoned, NoDownload

LEMMA Admitted ==
  /\ Access = "ok" => session /\ security.unlocked /\ ~jfault
  /\ EraseRefusal = "ok" => Access = "ok" /\ ~ctx.download
  /\ DownloadRefusal = "ok" =>
       /\ Access = "ok" /\ ctx.erased /\ ~ctx.download /\ ~ctx.complete /\ ctx.received = 0
       /\ TransitionAllowed(journal.state, "PROGRAMMING")
  /\ TransferRefusal = "ok" =>
       /\ Access = "ok" /\ ctx.download /\ ~(ctx.received + Len(req.arg) > SlotSize)
  /\ ExitRefusal = "ok" =>
       /\ Access = "ok" /\ ctx.download /\ ctx.received = SlotSize /\ ctx.programmed = SlotSize
       /\ ctx.buffer = << >> /\ journal.state = "PROGRAMMING"
  /\ VerifyRefusal = "ok" => Access = "ok" /\ ctx.complete /\ ~ctx.download
<1>1. Access = "ok" => session /\ security.unlocked /\ ~jfault
  BY DEF Access
<1>2. EraseRefusal = "ok" => Access = "ok" /\ ~ctx.download
  BY DEF EraseRefusal
<1>3. DownloadRefusal = "ok" =>
       /\ Access = "ok" /\ ctx.erased /\ ~ctx.download /\ ~ctx.complete /\ ctx.received = 0
       /\ TransitionAllowed(journal.state, "PROGRAMMING")
  BY DEF DownloadRefusal
<1>4. TransferRefusal = "ok" =>
       /\ Access = "ok" /\ ctx.download /\ ~(ctx.received + Len(req.arg) > SlotSize)
  BY DEF TransferRefusal
<1>5. ExitRefusal = "ok" =>
       /\ Access = "ok" /\ ctx.download /\ ctx.received = SlotSize /\ ctx.programmed = SlotSize
       /\ ctx.buffer = << >> /\ journal.state = "PROGRAMMING"
  BY DEF ExitRefusal
<1>6. VerifyRefusal = "ok" => Access = "ok" /\ ctx.complete /\ ~ctx.download
  BY DEF VerifyRefusal
<1> QED BY <1>1, <1>2, <1>3, <1>4, <1>5, <1>6

LEMMA Refusals ==
  {Access, EraseRefusal, DownloadRefusal, TransferRefusal, ExitRefusal, VerifyRefusal,
   ResetRefusal} \subseteq Kinds
<1>1. Access \in Kinds
  BY DEF Access, Kinds
<1>2. EraseRefusal \in Kinds
  BY <1>1 DEF EraseRefusal, Kinds
<1>3. DownloadRefusal \in Kinds
  BY <1>1 DEF DownloadRefusal, Kinds
<1>4. TransferRefusal \in Kinds
  BY <1>1 DEF TransferRefusal, Kinds
<1>5. ExitRefusal \in Kinds
  BY <1>1 DEF ExitRefusal, Kinds
<1>6. VerifyRefusal \in Kinds
  BY <1>1 DEF VerifyRefusal, Kinds
<1>7. ResetRefusal \in Kinds
  BY <1>1 DEF ResetRefusal, Kinds
<1> QED BY <1>1, <1>2, <1>3, <1>4, <1>5, <1>6, <1>7

(* Answers and what follows them.                                          *)
LEMMA Answering ==
  ASSUME TypeInv, NEW kind \in Kinds, NEW value \in Values, Answer(kind, value)
  PROVE  toTester' \in Seq(Answers)
<1>1. [sid |-> req.sid, sub |-> req.sub, kind |-> kind, value |-> value] \in Answers
  BY DEF TypeInv, RequestOK, Requests, Answers
<1> QED BY <1>1 DEF TypeInv, Answer

LEMMA Finishing ==
  ASSUME TypeInv, NEW kind \in Kinds, NEW value \in Values, Finish(kind, value)
  PROVE  toTester' \in Seq(Answers) /\ spc' = "idle" /\ req' = NoRequest /\ RequestOK(req')
BY Answering, Defaults DEF Finish

LEMMA Replying ==
  ASSUME TypeInv
  PROVE  /\ Positive => /\ toTester' \in Seq(Answers) /\ spc' = "idle"
                        /\ req' = NoRequest /\ RequestOK(req')
         /\ \A nrc \in Kinds :
              Refuse(nrc) => /\ toTester' \in Seq(Answers) /\ spc' = "idle"
                             /\ req' = NoRequest /\ RequestOK(req')
<1>1. 0 \in Values /\ "ok" \in Kinds
  BY DEF Values, Kinds
<1> QED BY <1>1, Finishing DEF Positive, Refuse

LEMMA Spending ==
  ASSUME TypeInv, NEW n \in Nat, Spend(n)
  PROVE  budget' \in 0 .. MaxFaults
BY SizesAssumption DEF TypeInv, Spend

LEMMA PendingIs ==
  ASSUME TypeInv, NEW next, Pending(next)
  PROVE  /\ toTester' \in Seq(Answers) /\ budget' \in 0 .. MaxFaults /\ RequestOK(req')
         /\ \/ spc' = next /\ req' = req
            \/ spc' = "idle" /\ req' = NoRequest
<1>1. "72" \in Kinds /\ "pending" \in Kinds /\ 0 \in Values
  BY DEF Kinds, Values
<1>2. CASE Spend(0) /\ Answer("pending", 0) /\ spc' = next /\ UNCHANGED req
  BY <1>1, <1>2, Answering, Spending DEF TypeInv
<1>3. CASE Spend(1) /\ Refuse("72")
  BY <1>1, <1>3, Replying, Spending
<1> QED BY <1>2, <1>3 DEF Pending

(* A write of the journal succeeds, or it is blocked from there on.        *)
LEMMA Saving ==
  ASSUME TypeInv, NEW next \in Journals, NEW cost \in {0, 1}, Save(next, cost)
  PROVE  /\ journal' \in Journals /\ jfault' \in BOOLEAN /\ budget' \in 0 .. MaxFaults
         /\ journal' \in {journal, next} /\ (~jfault' => journal' = next) /\ (jfault => jfault')
<1>1. budget' \in 0 .. MaxFaults
  BY Spending DEF Save
<1> QED BY <1>1 DEF Save, TypeInv

LEMMA AbortingJournal ==
  ASSUME TypeInv, NEW cost \in {0, 1}, AbortJournal(cost)
  PROVE  /\ journal' \in Journals /\ jfault' \in BOOLEAN /\ budget' \in 0 .. MaxFaults
         /\ journal'.header = journal.header /\ (jfault => jfault')
         /\ journal'.state \in {journal.state, "ABORTED"}
         /\ ~jfault' => journal'.state = "ABORTED" \/ journal.state = "IDLE"
<1> DEFINE next == [journal EXCEPT !.state = "ABORTED"]
<1>1. next \in Journals /\ next.state = "ABORTED" /\ next.header = journal.header
  BY DEF TypeInv, Journals, States
<1> HIDE DEF next
<1>2. CASE ~jfault /\ TransitionAllowed(journal.state, "ABORTED")
  <2>1. Save(next, cost)
    BY <1>2 DEF AbortJournal, next
  <2> QED BY <1>1, <2>1, Saving
<1>3. CASE ~(~jfault /\ TransitionAllowed(journal.state, "ABORTED"))
  <2>1. Spend(cost) /\ UNCHANGED <<journal, jfault>>
    BY <1>3 DEF AbortJournal
  <2>2. jfault \/ journal.state = "IDLE"
    BY <1>3 DEF TransitionAllowed
  <2> QED BY <2>1, <2>2, Spending DEF TypeInv, Journals
<1> QED BY <1>2, <1>3

LEMMA AbortingDownload ==
  ASSUME TypeInv, NEW cost \in {0, 1}, AbortDownload(cost)
  PROVE  /\ journal' \in Journals /\ jfault' \in BOOLEAN /\ budget' \in 0 .. MaxFaults
         /\ journal'.header = journal.header /\ (jfault => jfault')
         /\ journal'.state \in {journal.state, "ABORTED"}
         /\ ~jfault' => journal'.state \notin Updating
         /\ journal.state \notin Updating => journal'.state = journal.state
         /\ ctx' = Abandoned
<1>1. CASE journal.state \in Updating
  <2>1. AbortJournal(cost) /\ ctx' = Abandoned
    BY <1>1 DEF AbortDownload
  <2> QED BY <1>1, <2>1, AbortingJournal DEF Updating
<1>2. CASE journal.state \notin Updating
  <2>1. Spend(cost) /\ UNCHANGED <<journal, jfault>> /\ ctx' = Abandoned
    BY <1>2 DEF AbortDownload
  <2> QED BY <1>2, <2>1, Spending DEF TypeInv
<1> QED BY <1>1, <1>2

(* A stretch that ends in one journal write goes on, or ends the routine.  *)
LEMMA Journalling ==
  ASSUME TypeInv, ~jfault, NEW at, NEW next \in Journals, NEW goOn, Journalled(at, next, goOn)
  PROVE  /\ TypeInv' /\ mode = "boot" /\ spc = at
         /\ UNCHANGED <<tester, toServer, mode, session, security, ctx, flash, active, history>>
         /\ \/ /\ spc' = goOn /\ req' = req /\ ~jfault' /\ journal' = next
               /\ TransitionAllowed(journal.state, next.state)
            \/ /\ spc' = "idle" /\ req' = NoRequest /\ jfault' /\ journal' \in {journal, next}
               /\ TransitionAllowed(journal.state, next.state)
            \/ spc' = "idle" /\ req' = NoRequest /\ ~jfault' /\ journal' = journal
<1>1. "72" \in Kinds
  BY DEF Kinds
<1>2. /\ mode = "boot" /\ spc = at
      /\ UNCHANGED <<tester, toServer, mode, session, security, ctx, flash, active, history>>
  BY DEF Journalled
<1>3. CASE /\ TransitionAllowed(journal.state, next.state) /\ Save(next, 0)
           /\ IF jfault' THEN Refuse("72") ELSE spc' = goOn /\ UNCHANGED <<req, toTester>>
  <2>1. /\ journal' \in Journals /\ jfault' \in BOOLEAN /\ budget' \in 0 .. MaxFaults
        /\ journal' \in {journal, next} /\ (~jfault' => journal' = next)
    BY <1>3, Saving
  <2>2. CASE jfault'
    <3>1. toTester' \in Seq(Answers) /\ spc' = "idle" /\ req' = NoRequest /\ RequestOK(req')
      BY <1>1, <1>3, <2>2, Replying
    <3> QED BY <1>2, <1>3, <2>1, <2>2, <3>1 DEF TypeInv, history
  <2>3. CASE ~jfault'
    BY <1>2, <1>3, <2>1, <2>3 DEF TypeInv, history
  <2> QED BY <2>2, <2>3
<1>4. CASE Refuse("72") /\ UNCHANGED <<journal, jfault, budget>>
  <2>1. toTester' \in Seq(Answers) /\ spc' = "idle" /\ req' = NoRequest /\ RequestOK(req')
    BY <1>1, <1>4, Replying
  <2> QED BY <1>2, <1>4, <2>1 DEF TypeInv, history
<1> QED BY <1>3, <1>4 DEF Journalled

LEMMA FlashFailing ==
  ASSUME TypeInv, NEW p \in 1 .. Phrases, NEW was \in Content, FlashFails(p, was)
  PROVE  /\ flash' \in [1 .. Phrases -> Content] /\ flash' \in {flash, [flash EXCEPT ![p] = was]}
         /\ toTester' \in Seq(Answers) /\ spc' = "idle" /\ req' = NoRequest /\ RequestOK(req')
         /\ journal' \in Journals /\ jfault' \in BOOLEAN /\ budget' \in 0 .. MaxFaults
         /\ journal'.header = journal.header /\ (jfault => jfault')
         /\ journal'.state \in {journal.state, "ABORTED"}
         /\ ~jfault' => journal'.state = "ABORTED" \/ journal.state = "IDLE"
<1>1. "72" \in Kinds
  BY DEF Kinds
<1>2. flash' \in {flash, [flash EXCEPT ![p] = was]} /\ AbortJournal(1) /\ Refuse("72")
  BY DEF FlashFails
<1>3. flash' \in [1 .. Phrases -> Content]
  BY <1>2 DEF TypeInv
<1> QED BY <1>1, <1>2, <1>3, Replying, AbortingJournal

(* What a reader sees of a slot nobody touched, and of one without header. *)
LEMMA SlotKept ==
  ASSUME UNCHANGED flash
  PROVE  /\ SlotImage' = SlotImage /\ Header' = Header /\ (HeaderVouches => HeaderVouches')
         /\ ImageWith(ctx.staged)' = ImageIn(flash, ctx'.staged)
BY ImageWithIs DEF Header, HeaderVouches

LEMMA SlotBlank ==
  /\ Header = Blank => SlotImage = 0
  /\ Header' = Blank => SlotImage' = 0 /\ HeaderVouches'
BY ImageWithIs, ImageInIs DEF Header, HeaderVouches
-----------------------------------------------------------------------------
(* THE STEPS OF THE FLASHER AND OF THE LINK                                *)

(* They leave the server and what is durable alone.                        *)
LEMMA ServerKept ==
  ASSUME SlotInv, UNCHANGED <<server, durable, history>>, FlasherOK(tester'),
         MailboxOK(toServer'), toTester' \in Seq(Answers), budget' \in 0 .. MaxFaults
  PROVE  SlotInv'
<1>1. UNCHANGED <<mode, spc, req, session, security, ctx, jfault, journal, flash, active,
                  unlocker, source>>
  BY DEF server, durable, history
<1>2. TypeInv'
  BY <1>1 DEF SlotInv, TypeInv
<1>3. Placed' /\ Inside' /\ Agreed'
  BY <1>1 DEF SlotInv, Placed, Inside, Agreed, Cleared
<1>4. Vouched'
  BY <1>1, SlotKept, ImageWithIs DEF SlotInv, Vouched, Unpublished
<1> QED BY <1>2, <1>3, <1>4 DEF SlotInv

LEMMA RequestIs ==
  ASSUME FlasherOK(tester), tester.pc \notin Ended
  PROVE  RequestOK(Request) /\ Request.sid # "none" /\ Request.run = tester.run
<1>1. 0 \in Subs /\ {"seed", "key", "erase", "verify"} \subseteq Subs /\ tester.run \in Runs
      /\ tester.seed \in Values /\ tester.img \in Versions /\ tester.opt \in Options
      /\ tester.sent \in 0 .. Blocks
  BY DEF Subs, FlasherOK, Ended
<1>2. CASE tester.pc = "blocks"
  <2> DEFINE index == tester.sent + 1
             seq   == IF tester.opt = "wrong_sequence" /\ index = 2 THEN index + 1 ELSE index
  <2>1. index \in 1 .. Blocks /\ seq \in Nat
    BY <1>1, <1>2, BlockCount DEF FlasherOK
  <2>2. Block(tester, index) \in Content
    BY <1>1, <2>1, BlockType
  <2>3. seq % Counter \in 0 .. Counter - 1
    <3> HIDE DEF seq
    <3> QED BY <2>1, Sizes
  <2>4. Request = [sid |-> "transfer", sub |-> seq % Counter, arg |-> Block(tester, index),
                   run |-> tester.run]
    BY <1>2 DEF Request
  <2> HIDE DEF seq, index
  <2> QED BY <1>1, <2>2, <2>3, <2>4 DEF RequestOK, Requests, Sids, Subs
<1>3. CASE tester.pc = "download"
  <2>1. Request = [sid |-> "download", sub |-> 0, arg |-> [img |-> tester.img, opt |-> tester.opt],
                   run |-> tester.run]
    BY <1>3 DEF Request
  <2> QED BY <1>1, <2>1 DEF RequestOK, Requests, Sids, Plans
<1>4. CASE tester.pc = "key"
  <2>1. Request = [sid |-> "security", sub |-> "key", arg |-> tester.seed, run |-> tester.run]
    BY <1>4 DEF Request
  <2> QED BY <1>1, <2>1 DEF RequestOK, Requests, Sids
<1>5. CASE tester.pc \in {"session", "session2", "seed", "status", "poll", "erase", "exit",
                          "verify", "reset"}
  BY <1>1, <1>5 DEF Request, RequestOK, Requests, Sids
<1>6. tester.pc \in Points
  BY DEF FlasherOK
<1> QED BY <1>2, <1>3, <1>4, <1>5, <1>6 DEF Points

LEMMA StartSafe ==
  ASSUME SlotInv, NEW v \in Versions, NEW o \in Options, Start(v, o)
  PROVE  SlotInv'
<1>1. tester.run + 1 \in Runs /\ 0 \in Values /\ 0 \in 0 .. Blocks
  BY SizesAssumption, BlockCount DEF SlotInv, TypeInv, FlasherOK, Start, Runs, Values
<1>2. FlasherOK(tester')
  BY <1>1 DEF Start, FlasherOK, Points, Ended
<1>3. toTester' \in Seq(Answers) /\ MailboxOK(toServer') /\ budget' \in 0 .. MaxFaults
  BY DEF Start, SlotInv, TypeInv
<1> QED BY <1>2, <1>3, ServerKept DEF Start

LEMMA TesterSendsSafe ==
  ASSUME SlotInv, TesterSends
  PROVE  SlotInv'
<1>1. FlasherOK(tester) /\ tester.pc \notin Ended
  BY DEF SlotInv, TypeInv, TesterSends
<1>2. RequestOK(Request) /\ Request.sid # "none" /\ Request \in Requests
  BY <1>1, RequestIs DEF RequestOK
<1>3. MailboxOK(toServer')
  BY <1>2 DEF MailboxOK, TesterSends
<1>4. FlasherOK(tester')
  BY <1>1 DEF FlasherOK, TesterSends
<1>5. budget' \in 0 .. MaxFaults
  BY Spending DEF SlotInv, TesterSends
<1> QED BY <1>3, <1>4, <1>5, ServerKept DEF SlotInv, TypeInv, TesterSends

LEMMA RejectedIs ==
  ASSUME FlasherOK(tester), tester.pc \notin Ended
  PROVE  /\ FlasherOK(Rejected) /\ Rejected.run = tester.run /\ Rejected.img = tester.img
         /\ Rejected.opt = tester.opt /\ Rejected.sent = tester.sent /\ ~Rejected.waiting
         /\ Rejected.pc = IF tester.pc \in {"session2", "poll"} THEN tester.pc ELSE "failed"
BY DEF FlasherOK, Rejected, Points, Ended, Preparing

(* Where an accepted answer leads.                                         *)
NextPoints ==
  [session |-> {"session2"}, session2 |-> {"seed", "status"}, seed |-> {"key"}, key |-> {"status"},
   status |-> {"erase", "failed"}, erase |-> {"download"}, download |-> {"blocks"},
   blocks |-> {"interrupted", "blocks", "exit"}, exit |-> {"verify"}, verify |-> {"reset"},
   reset |-> {"poll"}, poll |-> {"done", "poll"}]

LEMMA AcceptedIs ==
  ASSUME FlasherOK(tester), tester.pc \notin Ended, NEW m \in Answers
  PROVE  /\ FlasherOK(Accepted(m)) /\ Accepted(m).run = tester.run /\ Accepted(m).img = tester.img
         /\ Accepted(m).opt = tester.opt /\ ~Accepted(m).waiting
         /\ Accepted(m).pc \in NextPoints[tester.pc]
         /\ Accepted(m).sent = IF tester.pc = "blocks" THEN tester.sent + 1 ELSE tester.sent
         /\ tester.pc = "blocks" /\ Accepted(m).pc = "blocks" => tester.sent + 1 < Blocks
         /\ tester.pc = "poll" /\ Accepted(m).pc = "done" => m.value.version = tester.img
<1> DEFINE To(pc) == [tester EXCEPT !.pc = pc, !.waiting = FALSE]
<1>1. tester.pc \in Points \ Ended /\ m.value \in Values
  BY DEF FlasherOK, Answers
<1>2. ASSUME NEW pc \in Points \ {"off"}, pc = "blocks" => tester.sent < Blocks,
             pc \in Preparing => tester.sent = 0
      PROVE  /\ FlasherOK(To(pc)) /\ To(pc).run = tester.run /\ To(pc).img = tester.img
             /\ To(pc).opt = tester.opt /\ ~To(pc).waiting /\ To(pc).pc = pc
             /\ To(pc).sent = tester.sent
  BY <1>1, <1>2 DEF FlasherOK, Ended
<1>3. \A pc \in Points : To(pc) = [tester EXCEPT !.pc = pc, !.waiting = FALSE]
  OBVIOUS
<1> HIDE DEF To
<1>4. tester.pc \in Preparing => tester.sent = 0 /\ tester.sent < Blocks
  BY BlockCount DEF FlasherOK
<1>5. CASE tester.pc = "session"
  <2>1. Accepted(m) = To("session2")
    BY <1>3, <1>5 DEF Accepted, Points
  <2> QED BY <1>2, <1>4, <1>5, <2>1 DEF NextPoints, Points, Preparing, Ended
<1>6. CASE tester.pc = "session2"
  <2>1. \/ Accepted(m) = To("seed")
        \/ Accepted(m) = To("status")
    BY <1>3, <1>6 DEF Accepted, Points, Ended
  <2> QED BY <1>2, <1>4, <1>6, <2>1 DEF NextPoints, Points, Preparing, Ended
<1>7. CASE tester.pc = "key"
  <2>1. Accepted(m) = To("status")
    BY <1>3, <1>7 DEF Accepted, Points
  <2> QED BY <1>2, <1>4, <1>7, <2>1 DEF NextPoints, Points, Preparing, Ended
<1>8. CASE tester.pc = "status"
  <2>1. \/ Accepted(m) = To("erase")
        \/ Accepted(m) = To("failed")
    BY <1>3, <1>8 DEF Accepted, Points, Ended
  <2> QED BY <1>2, <1>4, <1>8, <2>1 DEF NextPoints, Points, Preparing, Ended
<1>9. CASE tester.pc = "erase"
  <2>1. Accepted(m) = To("download")
    BY <1>3, <1>9 DEF Accepted, Points
  <2> QED BY <1>2, <1>4, <1>9, <2>1 DEF NextPoints, Points, Preparing, Ended
<1>10. CASE tester.pc = "download"
  <2>1. Accepted(m) = To("blocks")
    BY <1>3, <1>10 DEF Accepted, Points
  <2> QED BY <1>2, <1>4, <1>10, <2>1 DEF NextPoints, Points, Preparing, Ended
<1>11. CASE tester.pc = "exit"
  <2>1. Accepted(m) = To("verify")
    BY <1>3, <1>11 DEF Accepted, Points
  <2> QED BY <1>2, <1>4, <1>11, <2>1 DEF NextPoints, Points, Preparing, Ended
<1>12. CASE tester.pc = "verify"
  <2>1. Accepted(m) = To("reset")
    BY <1>3, <1>12 DEF Accepted, Points
  <2> QED BY <1>2, <1>4, <1>12, <2>1 DEF NextPoints, Points, Preparing, Ended
<1>13. CASE tester.pc = "reset"
  <2>1. Accepted(m) = To("poll")
    BY <1>3, <1>13 DEF Accepted, Points
  <2> QED BY <1>2, <1>4, <1>13, <2>1 DEF NextPoints, Points, Preparing, Ended
<1>14. CASE tester.pc = "poll"
  <2>1. \/ Accepted(m) = To("done") /\ (m.value.version = tester.img)
        \/ Accepted(m) = To("poll")
    BY <1>3, <1>14 DEF Accepted, Points, Ended
  <2> QED BY <1>2, <1>4, <1>14, <2>1 DEF NextPoints, Points, Preparing, Ended
<1>15. CASE tester.pc = "seed"
  <2>1. Accepted(m) = [To("key") EXCEPT !.seed = m.value]
    BY <1>3, <1>15 DEF Accepted, Points
  <2>2. FlasherOK(To("key"))
    BY <1>2, <1>4, <1>15 DEF Points, Preparing
  <2> QED BY <1>1, <1>2, <1>4, <1>15, <2>1, <2>2 DEF FlasherOK, NextPoints, Points, Preparing
<1>16. CASE tester.pc = "blocks"
  <2> DEFINE sent == tester.sent + 1
  <2>1. sent \in 0 .. Blocks /\ sent \in Nat /\ Blocks \in Nat /\ tester.sent < Blocks
    BY <1>16, BlockCount DEF FlasherOK
  <2>2. ASSUME NEW pc \in {"interrupted", "blocks", "exit"},
               Accepted(m) = [To(pc) EXCEPT !.sent = sent], pc = "blocks" => sent # Blocks
        PROVE  /\ FlasherOK(Accepted(m)) /\ Accepted(m).run = tester.run
               /\ Accepted(m).img = tester.img /\ Accepted(m).opt = tester.opt
               /\ ~Accepted(m).waiting /\ Accepted(m).pc = pc /\ Accepted(m).sent = sent
    <3>1. FlasherOK(To(pc)) /\ To(pc).pc = pc /\ ~To(pc).waiting
      BY <1>2, <2>1, <2>2 DEF Points, Preparing, Ended
    <3> QED BY <1>2, <2>1, <2>2, <3>1 DEF FlasherOK, Points, Ended, Preparing
  <2>3. tester \in [pc : Points, waiting : BOOLEAN, run : Runs, img : Versions \cup {0},
                    opt : Options \cup {"none"}, seed : Values, sent : 0 .. Blocks]
    BY DEF FlasherOK
  <2>4. \/ Accepted(m) = [To("interrupted") EXCEPT !.sent = sent]
        \/ Accepted(m) = [To("exit") EXCEPT !.sent = sent]
        \/ Accepted(m) = [To("blocks") EXCEPT !.sent = sent] /\ sent # Blocks
    BY <1>16, <2>1, <2>3 DEF Accepted, To
  <2> HIDE DEF sent
  <2>5. CASE Accepted(m) = [To("interrupted") EXCEPT !.sent = sent]
    BY <1>16, <2>2, <2>5 DEF NextPoints, sent
  <2>6. CASE Accepted(m) = [To("exit") EXCEPT !.sent = sent]
    BY <1>16, <2>2, <2>6 DEF NextPoints, sent
  <2>7. CASE Accepted(m) = [To("blocks") EXCEPT !.sent = sent] /\ sent # Blocks
    <3>1. sent < Blocks
      BY <2>1, <2>7 DEF sent
    <3> QED BY <1>16, <2>2, <2>7, <3>1 DEF NextPoints, sent
  <2> QED BY <2>4, <2>5, <2>6, <2>7
<1> QED BY <1>1, <1>5, <1>6, <1>7, <1>8, <1>9, <1>10, <1>11, <1>12, <1>13, <1>14, <1>15, <1>16
        DEF Points, Ended

LEMMA TesterAnswersSafe ==
  ASSUME SlotInv, TesterReceives \/ TesterTimesOut \/ TesterGivesUp
  PROVE  SlotInv'
<1>1. FlasherOK(tester) /\ tester.pc \notin Ended /\ toTester \in Seq(Answers)
      /\ MailboxOK(toServer) /\ budget \in 0 .. MaxFaults
  BY DEF SlotInv, TypeInv, FlasherOK, TesterReceives, TesterTimesOut, TesterGivesUp, Ended
<1>2. CASE TesterReceives
  <2>1. Head(toTester) \in Answers /\ Tail(toTester) \in Seq(Answers)
    BY <1>1, <1>2 DEF TesterReceives
  <2>2. FlasherOK(Outcome(Head(toTester)))
    BY <1>1, <2>1, AcceptedIs, RejectedIs DEF Outcome
  <2> QED BY <1>1, <1>2, <2>1, <2>2, ServerKept DEF TesterReceives
<1>3. CASE TesterTimesOut
  <2>1. budget' \in 0 .. MaxFaults
    BY <1>3, Spending DEF SlotInv, TesterTimesOut
  <2> QED BY <1>1, <1>3, <2>1, RejectedIs, ServerKept DEF TesterTimesOut, link
<1>4. CASE TesterGivesUp
  <2>1. budget' \in 0 .. MaxFaults
    BY <1>4, Spending DEF SlotInv, TesterGivesUp
  <2>2. FlasherOK(tester')
    BY <1>1, <1>4 DEF FlasherOK, TesterGivesUp, Points, Ended, Preparing
  <2> QED BY <1>1, <1>4, <2>1, <2>2, ServerKept DEF TesterGivesUp, link
<1> QED BY <1>2, <1>3, <1>4

LEMMA LossSafe ==
  ASSUME SlotInv, LoseRequest \/ LoseAnswer
  PROVE  SlotInv'
<1>1. FlasherOK(tester) /\ toTester \in Seq(Answers) /\ MailboxOK(toServer)
  BY DEF SlotInv, TypeInv
<1>2. budget' \in 0 .. MaxFaults
  BY Spending DEF SlotInv, LoseRequest, LoseAnswer
<1>3. CASE LoseRequest
  BY <1>1, <1>2, <1>3, ServerKept DEF LoseRequest, MailboxOK
<1>4. CASE LoseAnswer
  BY <1>1, <1>2, <1>4, ServerKept DEF LoseAnswer
<1> QED BY <1>3, <1>4
-----------------------------------------------------------------------------
(* REQUESTS THAT LEAVE THE SLOT ALONE                                      *)

LEMMA FetchSafe ==
  ASSUME SlotInv, Fetch
  PROVE  SlotInv'
<1>1. PICK m \in Requests : toServer = <<m>> /\ RequestOK(m) /\ m.sid # "none"
  BY DEF SlotInv, TypeInv, MailboxOK, Fetch
<1>2. /\ RequestOK(req') /\ req'.sid # "none" /\ toServer' = << >>
      /\ spc \in {"idle", "leaving"} /\ spc' = IF spc = "idle" THEN "handle" ELSE "handle_leaving"
      /\ mode # "off"
      /\ UNCHANGED <<tester, toTester, mode, session, security, ctx, jfault, journal, flash,
                     active, unlocker, source, budget>>
  BY <1>1 DEF Fetch, durable, history
<1>3. TypeInv'
  BY <1>2 DEF SlotInv, TypeInv, MailboxOK
<1>4. Placed'
  BY <1>2 DEF SlotInv, Placed, Cleared, Between, EraseMid, VerifyMid
<1>5. Inside' /\ Agreed'
  BY <1>2 DEF SlotInv, Inside, Agreed, EraseMid, VerifyMid
<1>6. Vouched'
  BY <1>2, SlotKept DEF SlotInv, Vouched, Unpublished
<1> QED BY <1>3, <1>4, <1>5, <1>6 DEF SlotInv

LEMMA AppHandlesSafe ==
  ASSUME SlotInv, AppHandles
  PROVE  SlotInv'
<1>1. toTester' \in Seq(Answers)
  <2>1. \E kind \in Kinds, value \in Values : Answer(kind, value)
    <3>1. [fault |-> FALSE, version |-> active.version] \in Values /\ 0 \in Values
          /\ "ok" \in Kinds /\ "11" \in Kinds
      BY DEF SlotInv, TypeInv, Values, Kinds
    <3> QED BY <3>1 DEF AppHandles
  <2> QED BY <2>1, Answering DEF SlotInv
<1>2. /\ req' = NoRequest /\ mode = "app" /\ spc' \in {"idle", "leaving"}
      /\ UNCHANGED <<tester, toServer, mode, session, security, ctx, jfault, journal, flash,
                     active, unlocker, source, budget>>
  BY DEF AppHandles, durable, history
<1>3. TypeInv'
  BY <1>1, <1>2, Defaults DEF SlotInv, TypeInv
<1>4. Placed'
  BY <1>2, Defaults DEF SlotInv, Placed, Cleared, Between, EraseMid, VerifyMid
<1>5. Inside' /\ Agreed'
  BY <1>2 DEF SlotInv, Inside, Agreed, EraseMid, VerifyMid
<1>6. Vouched'
  BY <1>2, SlotKept DEF SlotInv, Vouched, Unpublished
<1> QED BY <1>3, <1>4, <1>5, <1>6 DEF SlotInv

LEMMA ConfirmSafe ==
  ASSUME SlotInv, Confirm
  PROVE  SlotInv'
<1>1. /\ active' \in [version : Versions, trial : BOOLEAN] /\ active'.version = active.version
      /\ UNCHANGED <<tester, toServer, toTester, mode, spc, req, session, security, ctx, jfault,
                     journal, flash, unlocker, source, budget>>
  BY DEF Confirm, SlotInv, TypeInv, link, server, history
<1>2. TypeInv'
  BY <1>1 DEF SlotInv, TypeInv
<1>3. Placed' /\ Inside' /\ Agreed'
  BY <1>1 DEF SlotInv, Placed, Inside, Agreed, Cleared
<1>4. Vouched'
  BY <1>1, SlotKept, ImageWithIs DEF SlotInv, Vouched, Unpublished
<1> QED BY <1>2, <1>3, <1>4 DEF SlotInv

(* A step back to the loop of the server, with the context dropped or as   *)
(* it was and nothing in the slot touched.                                 *)
LEMMA BackToLoop ==
  ASSUME SlotInv, TypeInv', mode = "boot", UNCHANGED <<mode, flash>>,
         active'.version = active.version,
         spc' \in {"idle", "restarting"}, req' = NoRequest,
         \/ ctx' = ctx
         \/ ~ctx'.download /\ ~ctx'.erased /\ ~ctx'.complete,
         journal'.header = journal.header, journal'.state \in {journal.state, "ABORTED"},
         Agreed'
  PROVE  SlotInv'
<1>1. Placed'
  BY Defaults DEF SlotInv, Placed, Cleared, Between, EraseMid, VerifyMid
<1>2. Inside'
  BY DEF Inside, EraseMid, VerifyMid
<1>3. Vouched'
  BY SlotKept DEF SlotInv, Vouched, Unpublished, Published
<1> QED BY <1>1, <1>2, <1>3 DEF SlotInv

(* The same where the slot is left without a header.                       *)
LEMMA BackBlank ==
  ASSUME SlotInv, TypeInv', mode = "boot", UNCHANGED mode, Header' = Blank,
         spc' = "idle", req' = NoRequest, ~ctx'.complete,
         journal'.state # "PENDING_ACTIVATION", Agreed'
  PROVE  SlotInv'
<1>1. Placed' /\ Inside'
  BY Defaults DEF SlotInv, Placed, Inside, Between, EraseMid, VerifyMid
<1>2. Vouched'
  BY SlotBlank DEF Vouched, Unpublished
<1> QED BY <1>1, <1>2 DEF SlotInv

LEMMA Refusing ==
  ASSUME SlotInv, mode = "boot", NEW nrc \in Kinds, Refused(nrc)
  PROVE  SlotInv'
<1>1. toTester' \in Seq(Answers) /\ spc' = "idle" /\ req' = NoRequest /\ RequestOK(req')
  BY Replying DEF Refused, SlotInv
<1>2. UNCHANGED <<tester, toServer, mode, session, security, ctx, jfault, journal, flash,
                  active, unlocker, source, budget>>
  BY DEF Refused, durable, history
<1>3. TypeInv' /\ Agreed'
  BY <1>1, <1>2 DEF SlotInv, TypeInv, Agreed
<1> QED BY <1>1, <1>2, <1>3, BackToLoop

LEMMA SessionControlSafe ==
  ASSUME SlotInv, SessionControl
  PROVE  SlotInv'
<1>1. toTester' \in Seq(Answers) /\ spc' = "idle" /\ req' = NoRequest /\ RequestOK(req')
  BY Replying DEF SessionControl, SlotInv
<1>2. /\ journal' \in Journals /\ jfault' \in BOOLEAN /\ budget' \in 0 .. MaxFaults
      /\ journal'.header = journal.header
      /\ journal'.state \in {journal.state, "ABORTED"}
      /\ ~jfault' => journal'.state \notin Updating
      /\ ctx' = Abandoned
  BY AbortingDownload DEF SessionControl, SlotInv
<1>3. /\ mode = "boot" /\ session' = TRUE /\ security' = Locked
      /\ UNCHANGED <<tester, toServer, mode, flash, active, unlocker, source>>
  BY DEF SessionControl, Handling, AuthorisationOnEntry, history
<1>4. /\ ContextOK(ctx') /\ ~ctx'.download /\ ~ctx'.erased /\ ~ctx'.complete
  BY <1>2, AbandonedIs DEF SlotInv, TypeInv
<1>5. TypeInv'
  BY <1>1, <1>2, <1>3, <1>4 DEF SlotInv, TypeInv, Locked
<1>6. Agreed'
  BY <1>2, <1>4 DEF Agreed, Updating
<1> QED BY <1>1, <1>2, <1>3, <1>4, <1>5, <1>6, BackToLoop

LEMMA GenerateSeedSafe ==
  ASSUME SlotInv, GenerateSeed
  PROVE  SlotInv'
<1>1. /\ mode = "boot"
      /\ UNCHANGED <<tester, toServer, mode, session, ctx, jfault, journal, flash, active,
                     unlocker, source, budget>>
  BY DEF GenerateSeed, Handling, durable, history
<1>2. /\ toTester' \in Seq(Answers) /\ spc' = "idle" /\ req' = NoRequest /\ RequestOK(req')
      /\ security' \in [seed : {0} \cup Seeds, issued : BOOLEAN, unlocked : BOOLEAN]
  <2>1. "22" \in Kinds /\ "ok" \in Kinds /\ Seeds \subseteq Values
    BY DEF Kinds, Values
  <2>2. CASE ~session
    BY <2>1, <2>2, Replying DEF GenerateSeed, SlotInv, TypeInv
  <2>3. CASE session
    <3>1. PICK s \in Seeds : /\ security' = [seed |-> s, issued |-> TRUE, unlocked |-> FALSE]
                             /\ Finish("ok", s)
      BY <2>3 DEF GenerateSeed
    <3> QED BY <2>1, <3>1, Finishing DEF SlotInv
  <2> QED BY <2>2, <2>3 DEF SlotInv, TypeInv
<1>3. TypeInv' /\ Agreed'
  BY <1>1, <1>2 DEF SlotInv, TypeInv, Agreed
<1> QED BY <1>1, <1>2, <1>3, BackToLoop

LEMMA ValidateKeySafe ==
  ASSUME SlotInv, ValidateKey
  PROVE  SlotInv'
<1>1. /\ mode = "boot"
      /\ UNCHANGED <<tester, toServer, mode, session, ctx, jfault, journal, flash, active,
                     source, budget>>
  BY DEF ValidateKey, Handling, durable
<1>2. /\ toTester' \in Seq(Answers) /\ spc' = "idle" /\ req' = NoRequest /\ RequestOK(req')
      /\ security' \in [seed : {0} \cup Seeds, issued : BOOLEAN, unlocked : BOOLEAN]
      /\ unlocker' \in Runs
  <2>1. "22" \in Kinds /\ "35" \in Kinds /\ (security.issued /\ req.arg = security.seed) \in BOOLEAN
        /\ req.run \in Runs
    BY DEF Kinds, SlotInv, TypeInv, RequestOK, Requests
  <2>2. CASE ~session
    BY <2>1, <2>2, Replying DEF ValidateKey, SlotInv, TypeInv
  <2>3. CASE session
    BY <2>1, <2>3, Replying DEF ValidateKey, SlotInv, TypeInv
  <2> QED BY <2>2, <2>3 DEF SlotInv, TypeInv
<1>3. TypeInv' /\ Agreed'
  BY <1>1, <1>2 DEF SlotInv, TypeInv, Agreed
<1> QED BY <1>1, <1>2, <1>3, BackToLoop

LEMMA ReadIdentifierSafe ==
  ASSUME SlotInv, ReadIdentifier
  PROVE  SlotInv'
<1>1. /\ mode = "boot"
      /\ UNCHANGED <<tester, toServer, mode, session, security, ctx, jfault, journal, flash,
                     active, unlocker, source, budget>>
  BY DEF ReadIdentifier, Handling, durable, history
<1>2. "ok" \in Kinds /\ [fault |-> jfault, version |-> active.version] \in Values
  BY DEF Kinds, Values, SlotInv, TypeInv
<1>3. toTester' \in Seq(Answers) /\ spc' = "idle" /\ req' = NoRequest /\ RequestOK(req')
  BY <1>2, Finishing DEF ReadIdentifier, SlotInv
<1>4. TypeInv' /\ Agreed'
  BY <1>1, <1>3 DEF SlotInv, TypeInv, Agreed
<1> QED BY <1>1, <1>3, <1>4, BackToLoop

LEMMA EcuResetSafe ==
  ASSUME SlotInv, EcuReset
  PROVE  SlotInv'
<1>1. mode = "boot"
  BY DEF EcuReset, Handling
<1>2. CASE Refused(ResetRefusal)
  BY <1>1, <1>2, Refusals, Refusing
<1>3. CASE /\ Answer("ok", 0) /\ spc' = "restarting" /\ req' = NoRequest
           /\ UNCHANGED <<tester, toServer, mode, session, security, ctx, jfault, durable,
                          history, budget>>
  <2>1. "ok" \in Kinds /\ 0 \in Values
    BY DEF Kinds, Values
  <2>2. toTester' \in Seq(Answers) /\ RequestOK(req')
    BY <1>3, <2>1, Answering, Defaults DEF SlotInv
  <2>3. TypeInv' /\ Agreed'
    BY <1>3, <2>2 DEF SlotInv, TypeInv, Agreed, durable, history
  <2> QED BY <1>1, <1>3, <2>3, BackToLoop DEF durable
<1> QED BY <1>2, <1>3 DEF EcuReset
-----------------------------------------------------------------------------
(* ERASE                                                                   *)

LEMMA EraseStartSafe ==
  ASSUME SlotInv, EraseStart
  PROVE  SlotInv'
<1>1. mode = "boot" /\ spc = "handle" /\ req.sid = "routine" /\ req.sub = "erase"
  BY DEF EraseStart, Handling
<1>2. CASE Refused(EraseRefusal)
  BY <1>1, <1>2, Refusals, Refusing
<1>3. CASE /\ EraseRefusal = "ok" /\ ctx' = Abandoned /\ Pending("preparing")
           /\ UNCHANGED <<tester, toServer, mode, session, security, jfault, durable, history>>
  <2>1. session /\ security.unlocked /\ ~jfault /\ ~ctx.download
    BY <1>3, Admitted
  <2>2. /\ toTester' \in Seq(Answers) /\ budget' \in 0 .. MaxFaults /\ RequestOK(req')
        /\ \/ spc' = "preparing" /\ req' = req
           \/ spc' = "idle" /\ req' = NoRequest
    BY <1>3, PendingIs DEF SlotInv
  <2>3. /\ ContextOK(ctx') /\ ~ctx'.download /\ ~ctx'.erased /\ ~ctx'.complete
        /\ ctx'.received = 0
    BY <1>3, AbandonedIs DEF SlotInv, TypeInv
  <2>4. UNCHANGED <<tester, toServer, mode, session, security, jfault, journal, flash, active,
                    unlocker, source>>
    BY <1>3 DEF durable, history
  <2>5. TypeInv' /\ Agreed'
    BY <2>1, <2>2, <2>3, <2>4 DEF SlotInv, TypeInv, Agreed
  <2>6. CASE spc' = "preparing" /\ req' = req
    <3>1. Placed'
      BY <1>1, <2>4, <2>6 DEF SlotInv, Placed, Between, EraseMid, VerifyMid
    <3>2. Inside'
      BY <1>1, <2>1, <2>3, <2>4, <2>6 DEF Inside, EraseMid, VerifyMid
    <3>3. Vouched'
      BY <2>3, <2>4, <2>6, SlotKept DEF SlotInv, Vouched, Unpublished
    <3> QED BY <2>5, <3>1, <3>2, <3>3 DEF SlotInv
  <2>7. CASE spc' = "idle" /\ req' = NoRequest
    BY <1>1, <2>3, <2>4, <2>5, <2>7, BackToLoop DEF SlotInv, TypeInv, Journals
  <2> QED BY <2>2, <2>6, <2>7
<1> QED BY <1>2, <1>3 DEF EraseStart

(* A write of the journal inside a routine: on to the next stretch, with   *)
(* the facts that stretch needs, or back to the loop.                      *)
LEMMA EraseBeginSafe ==
  ASSUME SlotInv, EraseBegin
  PROVE  SlotInv'
<1> DEFINE next == [state |-> "PREPARING", header |-> Blank]
<1>1. spc = "preparing" /\ next \in Journals
  BY Defaults DEF EraseBegin, Journalled, Journals, States, Updating
<1>2. session /\ security.unlocked /\ ~jfault /\ req.sid = "routine" /\ req.sub = "erase"
      /\ ~ctx.download /\ ~ctx.erased /\ ~ctx.complete
  BY <1>1 DEF SlotInv, TypeInv, Inside, EraseMid, ContextOK
<1>3. /\ TypeInv' /\ mode = "boot"
      /\ UNCHANGED <<tester, toServer, mode, session, security, ctx, flash, active, unlocker, source>>
      /\ \/ /\ spc' = "erasing" /\ req' = req /\ ~jfault' /\ journal' = next
         \/ /\ spc' = "idle" /\ req' = NoRequest /\ jfault' /\ journal' \in {journal, next}
         \/ spc' = "idle" /\ req' = NoRequest /\ ~jfault' /\ journal' = journal
  BY <1>1, <1>2, Journalling DEF EraseBegin, SlotInv, history
<1>4. next.state = "PREPARING"
  OBVIOUS
<1> HIDE DEF next
<1>5. Placed'
  BY <1>1, <1>2, <1>3, Defaults DEF SlotInv, Placed, Between, EraseMid, VerifyMid
<1>6. Inside' /\ Agreed'
  BY <1>1, <1>2, <1>3, <1>4 DEF SlotInv, Inside, Agreed, EraseMid, VerifyMid
<1>7. Vouched'
  BY <1>1, <1>2, <1>3, <1>4, SlotKept DEF SlotInv, Vouched, Unpublished, Published
<1> QED BY <1>3, <1>5, <1>6, <1>7 DEF SlotInv

LEMMA EraseMarkSafe ==
  ASSUME SlotInv, EraseMark
  PROVE  SlotInv'
<1> DEFINE next == [journal EXCEPT !.state = "ERASING"]
<1>1. spc = "erasing" /\ next \in Journals /\ next.state = "ERASING" /\ next.header = journal.header
  BY DEF EraseMark, Reach, Journalled, SlotInv, TypeInv, Journals, States, Updating
<1>2. session /\ security.unlocked /\ ~jfault /\ req.sid = "routine" /\ req.sub = "erase"
      /\ ~ctx.download /\ ~ctx.erased /\ ~ctx.complete
  BY <1>1 DEF SlotInv, TypeInv, Inside, EraseMid, ContextOK
<1>3. /\ TypeInv' /\ mode = "boot"
      /\ UNCHANGED <<tester, toServer, mode, session, security, ctx, flash, active, unlocker, source>>
      /\ \/ /\ spc' = "wipe_header" /\ req' = req /\ ~jfault' /\ journal' = next
         \/ /\ spc' = "idle" /\ req' = NoRequest /\ jfault' /\ journal' \in {journal, next}
         \/ spc' = "idle" /\ req' = NoRequest /\ ~jfault' /\ journal' = journal
  BY <1>1, <1>2, Journalling DEF EraseMark, Reach, SlotInv, history
<1> HIDE DEF next
<1>4. Placed'
  BY <1>1, <1>2, <1>3, Defaults DEF SlotInv, Placed, Between, EraseMid, VerifyMid
<1>5. Inside' /\ Agreed'
  BY <1>1, <1>2, <1>3 DEF SlotInv, Inside, Agreed, EraseMid, VerifyMid
<1>6. Vouched'
  BY <1>1, <1>2, <1>3, SlotKept DEF SlotInv, Vouched, Unpublished, Published
<1> QED BY <1>3, <1>4, <1>5, <1>6 DEF SlotInv

LEMMA EraseReadySafe ==
  ASSUME SlotInv, EraseReady
  PROVE  SlotInv'
<1> DEFINE next == [journal EXCEPT !.state = "DOWNLOAD_READY"]
<1>1. spc = "wipe" /\ next \in Journals /\ next.state = "DOWNLOAD_READY"
      /\ next.header = journal.header
  BY DEF EraseReady, SlotInv, TypeInv, Journals, States, Updating
<1>2. session /\ security.unlocked /\ ~jfault /\ req.sid = "routine" /\ req.sub = "erase"
      /\ ~ctx.download /\ ~ctx.erased /\ ~ctx.complete /\ Header = Blank
  BY <1>1 DEF SlotInv, TypeInv, Inside, EraseMid, ContextOK, Vouched, Unpublished
<1>3. /\ TypeInv' /\ mode = "boot"
      /\ UNCHANGED <<tester, toServer, mode, session, security, ctx, flash, active, unlocker, source>>
      /\ \/ /\ spc' = "erase_done" /\ req' = req /\ ~jfault' /\ journal' = next
         \/ /\ spc' = "idle" /\ req' = NoRequest /\ jfault' /\ journal' \in {journal, next}
         \/ spc' = "idle" /\ req' = NoRequest /\ ~jfault' /\ journal' = journal
  BY <1>1, <1>2, Journalling DEF EraseReady, Reach, SlotInv, history
<1> HIDE DEF next
<1>4. Placed'
  BY <1>1, <1>2, <1>3, Defaults DEF SlotInv, Placed, Between, EraseMid, VerifyMid
<1>5. Inside' /\ Agreed'
  BY <1>1, <1>2, <1>3 DEF SlotInv, Inside, Agreed, EraseMid, VerifyMid
<1>6. Vouched'
  BY <1>1, <1>2, <1>3, SlotKept DEF SlotInv, Vouched, Unpublished, Published
<1> QED BY <1>3, <1>4, <1>5, <1>6 DEF SlotInv

(* The sectors are erased while the journal is at ERASING, the header's    *)
(* first; from then on no reader finds an image.                           *)
LEMMA EraseHeaderSafe ==
  ASSUME SlotInv, EraseHeader
  PROVE  SlotInv'
<1>1. /\ mode = "boot" /\ spc = "wipe_header"
      /\ UNCHANGED <<tester, toServer, mode, session, security, ctx, active, unlocker, source>>
  BY DEF EraseHeader, history
<1>2. session /\ security.unlocked /\ ~jfault /\ req.sid = "routine" /\ req.sub = "erase"
      /\ ~ctx.download /\ ~ctx.erased /\ ~ctx.complete /\ journal.state = "ERASING"
  BY <1>1 DEF SlotInv, TypeInv, Inside, EraseMid, ContextOK
<1>3. CASE /\ flash' = HeaderErased /\ spc' = "wipe"
           /\ UNCHANGED <<req, toTester, journal, jfault, budget>>
  <2>1. flash' \in [1 .. Phrases -> Content] /\ Header' = Blank
    BY <1>3, Sizes, Defaults DEF HeaderErased, Header, SlotInv, TypeInv
  <2>2. TypeInv'
    BY <1>1, <1>3, <2>1 DEF SlotInv, TypeInv
  <2>3. Placed' /\ Inside' /\ Agreed'
    BY <1>1, <1>2, <1>3 DEF SlotInv, Placed, Inside, Agreed, Between, EraseMid, VerifyMid
  <2>4. Vouched'
    BY <1>1, <1>2, <1>3, <2>1, SlotBlank DEF SlotInv, Vouched, Published
  <2> QED BY <2>2, <2>3, <2>4 DEF SlotInv
<1>4. CASE FlashFails(Phrases, Blank)
  <2>1. /\ flash' \in [1 .. Phrases -> Content] /\ flash' \in {flash, [flash EXCEPT ![Phrases] = Blank]}
        /\ toTester' \in Seq(Answers) /\ spc' = "idle" /\ req' = NoRequest /\ RequestOK(req')
        /\ journal' \in Journals /\ jfault' \in BOOLEAN /\ budget' \in 0 .. MaxFaults
        /\ journal'.header = journal.header /\ journal'.state \in {"ERASING", "ABORTED"}
    BY <1>2, <1>4, FlashFailing, Sizes, Defaults DEF SlotInv
  <2>2. TypeInv' /\ Agreed'
    BY <1>1, <1>2, <2>1 DEF SlotInv, TypeInv, Agreed
  <2>3. CASE UNCHANGED flash
    BY <1>1, <1>2, <2>1, <2>2, <2>3, BackToLoop
  <2>4. CASE flash' = [flash EXCEPT ![Phrases] = Blank]
    <3>1. Header' = Blank
      BY <2>4, Sizes DEF Header, SlotInv, TypeInv
    <3> QED BY <1>1, <1>2, <2>1, <2>2, <3>1, BackBlank
  <2> QED BY <2>1, <2>3, <2>4
<1> QED BY <1>3, <1>4 DEF EraseHeader

LEMMA EraseSectorPendingSafe ==
  ASSUME SlotInv, EraseSectorPending
  PROVE  SlotInv'
<1>1. /\ mode = "boot" /\ spc = "wipe" /\ req.arg + 1 \in Payload /\ Pending("wipe_sector")
      /\ UNCHANGED <<tester, toServer, mode, session, security, ctx, jfault, journal, flash,
                     active, unlocker, source>>
  BY DEF EraseSectorPending, durable, history
<1>2. session /\ security.unlocked /\ ~jfault /\ req.sid = "routine" /\ req.sub = "erase"
      /\ ~ctx.download /\ ~ctx.erased /\ ~ctx.complete /\ journal.state = "ERASING"
      /\ Header = Blank
  BY <1>1 DEF SlotInv, TypeInv, Inside, EraseMid, ContextOK, Vouched, Unpublished
<1>3. /\ toTester' \in Seq(Answers) /\ budget' \in 0 .. MaxFaults /\ RequestOK(req')
      /\ \/ spc' = "wipe_sector" /\ req' = req
         \/ spc' = "idle" /\ req' = NoRequest
  BY <1>1, PendingIs DEF SlotInv
<1>4. TypeInv' /\ Agreed'
  BY <1>1, <1>2, <1>3 DEF SlotInv, TypeInv, Agreed
<1>5. CASE spc' = "wipe_sector" /\ req' = req
  <2>1. Placed' /\ Inside'
    BY <1>1, <1>2, <1>5 DEF SlotInv, Placed, Inside, Between, EraseMid, VerifyMid
  <2>2. Vouched'
    BY <1>1, <1>2, <1>5, SlotKept DEF SlotInv, Vouched, Unpublished
  <2> QED BY <1>4, <2>1, <2>2 DEF SlotInv
<1>6. CASE spc' = "idle" /\ req' = NoRequest
  BY <1>1, <1>4, <1>6, BackToLoop
<1> QED BY <1>3, <1>5, <1>6

LEMMA EraseSectorSafe ==
  ASSUME SlotInv, EraseSector
  PROVE  SlotInv'
<1> DEFINE p == req.arg + 1
<1>1. /\ mode = "boot" /\ spc = "wipe_sector"
      /\ UNCHANGED <<tester, toServer, mode, session, security, ctx, active, unlocker, source>>
  BY DEF EraseSector, history
<1>2. session /\ security.unlocked /\ ~jfault /\ req.sid = "routine" /\ req.sub = "erase"
      /\ ~ctx.download /\ ~ctx.erased /\ ~ctx.complete /\ journal.state = "ERASING"
      /\ Header = Blank
  BY <1>1 DEF SlotInv, TypeInv, Inside, EraseMid, ContextOK, Vouched, Unpublished
<1>3. p \in Payload /\ p \in 1 .. Phrases /\ p # Phrases /\ p \in Nat
  BY <1>1, Sizes DEF SlotInv, Inside
<1>4. CASE /\ flash' = [flash EXCEPT ![p] = Blank] /\ req' = [req EXCEPT !.arg = p] /\ spc' = "wipe"
           /\ UNCHANGED <<toTester, journal, jfault, budget>>
  <2>1. flash' \in [1 .. Phrases -> Content] /\ Header' = Blank
    BY <1>2, <1>3, <1>4, Sizes, Defaults DEF Header, SlotInv, TypeInv
  <2>2. RequestOK(req') /\ req'.sid = "routine" /\ req'.sub = "erase"
    <3> HIDE DEF p
    <3> QED BY <1>2, <1>3, <1>4 DEF SlotInv, TypeInv, RequestOK, Requests
  <2>3. TypeInv'
    BY <1>1, <1>4, <2>1, <2>2 DEF SlotInv, TypeInv
  <2>4. Placed' /\ Inside' /\ Agreed'
    BY <1>1, <1>2, <1>4, <2>2 DEF SlotInv, Placed, Inside, Agreed, Between, EraseMid, VerifyMid
  <2>5. Vouched'
    BY <1>1, <1>2, <1>4, <2>1, SlotBlank DEF SlotInv, Vouched, Published
  <2> QED BY <2>3, <2>4, <2>5 DEF SlotInv
<1>5. CASE FlashFails(p, Blank)
  <2>1. /\ flash' \in [1 .. Phrases -> Content] /\ flash' \in {flash, [flash EXCEPT ![p] = Blank]}
        /\ toTester' \in Seq(Answers) /\ spc' = "idle" /\ req' = NoRequest /\ RequestOK(req')
        /\ journal' \in Journals /\ jfault' \in BOOLEAN /\ budget' \in 0 .. MaxFaults
        /\ journal'.header = journal.header /\ journal'.state \in {"ERASING", "ABORTED"}
    BY <1>2, <1>3, <1>5, FlashFailing, Defaults DEF SlotInv
  <2>2. Header' = Blank
    BY <1>2, <1>3, <2>1, Sizes DEF Header, SlotInv, TypeInv
  <2>3. TypeInv' /\ Agreed'
    BY <1>1, <1>2, <2>1 DEF SlotInv, TypeInv, Agreed
  <2> QED BY <1>1, <1>2, <2>1, <2>2, <2>3, BackBlank
<1> QED BY <1>4, <1>5 DEF EraseSector

LEMMA EraseDoneSafe ==
  ASSUME SlotInv, EraseDone
  PROVE  SlotInv'
<1>1. /\ mode = "boot" /\ spc = "erase_done" /\ ctx' = [ctx EXCEPT !.erased = TRUE] /\ Positive
      /\ UNCHANGED <<tester, toServer, mode, session, security, jfault, journal, flash,
                     active, unlocker, source, budget>>
  BY DEF EraseDone, durable, history
<1>2. ~ctx.download /\ ~ctx.erased /\ ~ctx.complete /\ Header = Blank
  BY <1>1 DEF SlotInv, TypeInv, Inside, EraseMid, ContextOK, Vouched, Unpublished
<1>3. /\ ContextOK(ctx') /\ ~ctx'.download /\ ctx'.erased /\ ~ctx'.complete
      /\ ctx'.staged = ctx.staged
  BY <1>1, <1>2 DEF SlotInv, TypeInv, ContextOK
<1>4. toTester' \in Seq(Answers) /\ spc' = "idle" /\ req' = NoRequest /\ RequestOK(req')
  BY <1>1, Replying DEF SlotInv
<1>5. TypeInv' /\ Agreed'
  BY <1>1, <1>2, <1>3, <1>4 DEF SlotInv, TypeInv, Agreed
<1>6. Placed' /\ Inside'
  BY <1>1, <1>4, Defaults DEF SlotInv, Placed, Inside, Between, EraseMid, VerifyMid
<1>7. Vouched'
  BY <1>1, <1>2, <1>3, <1>4, SlotKept DEF SlotInv, Vouched, Unpublished
<1> QED BY <1>5, <1>6, <1>7 DEF SlotInv
-----------------------------------------------------------------------------
(* DOWNLOAD, TRANSFER AND EXIT                                             *)

LEMMA DownloadSafe ==
  ASSUME SlotInv, Download
  PROVE  SlotInv'
<1>1. mode = "boot" /\ spc = "handle" /\ req.sid = "download"
  BY DEF Download, Handling
<1>2. CASE Refused(DownloadRefusal)
  BY <1>1, <1>2, Refusals, Refusing
<1>3. CASE DownloadRefusal = "ok" /\ ~Refused(DownloadRefusal)
  <2> DEFINE next == [journal EXCEPT !.state = "PROGRAMMING"]
  <2>1. /\ Save(next, 0)
        /\ IF jfault'
           THEN Refuse("72") /\ UNCHANGED <<ctx, source>>
           ELSE /\ ctx' = [ctx EXCEPT !.download = TRUE, !.verified = FALSE, !.staged = Blank]
                /\ source' = [run |-> req.run, img |-> req.arg.img, opt |-> req.arg.opt]
                /\ Positive
        /\ UNCHANGED <<tester, toServer, mode, session, security, flash, active, unlocker>>
    BY <1>3 DEF Download
  <2>2. ~jfault /\ ctx.erased /\ ~ctx.download /\ ~ctx.complete /\ Header = Blank
        /\ journal.state = "DOWNLOAD_READY"
    BY <1>3, Admitted DEF TransitionAllowed, Updating, Successor, SlotInv, Vouched, Unpublished
  <2>3. next \in Journals /\ next.state = "PROGRAMMING" /\ next.header = journal.header
    BY DEF SlotInv, TypeInv, Journals, States, Updating
  <2> HIDE DEF next
  <2>4. /\ journal' \in Journals /\ jfault' \in BOOLEAN /\ budget' \in 0 .. MaxFaults
        /\ journal' \in {journal, next} /\ (~jfault' => journal' = next)
    BY <2>1, <2>3, Saving DEF SlotInv
  <2>5. "72" \in Kinds
    BY DEF Kinds
  <2>6. /\ toTester' \in Seq(Answers) /\ spc' = "idle" /\ req' = NoRequest /\ RequestOK(req')
    BY <2>1, <2>5, Replying DEF SlotInv
  <2>7. /\ ContextOK(ctx') /\ ctx'.erased /\ ~ctx'.complete
        /\ ~jfault' => ctx'.download
        /\ source' \in [run : Runs, img : Versions \cup {0}, opt : Options \cup {"none"}]
    <3>1. req.arg \in Plans /\ req.run \in Runs
      BY <1>1 DEF SlotInv, TypeInv, RequestOK, Requests
    <3>2. CASE jfault'
      BY <2>1, <2>2, <3>2 DEF SlotInv, TypeInv
    <3>3. CASE ~jfault'
      <4>1. ContextOK(ctx)
        BY DEF SlotInv, TypeInv
      <4>2. ContextOK(ctx') /\ ctx'.erased /\ ~ctx'.complete /\ ctx'.download
        <5>1. ctx' = [ctx EXCEPT !.download = TRUE, !.verified = FALSE, !.staged = Blank]
          BY <2>1, <3>3
        <5>2. /\ ctx'.received = ctx.received /\ ctx'.programmed = ctx.programmed
              /\ ctx'.buffer = ctx.buffer /\ ctx'.erased = ctx.erased /\ ctx'.complete = ctx.complete
              /\ ctx'.download
          BY <4>1, <5>1 DEF ContextOK
        <5>3. ctx' \in [download : BOOLEAN, erased : BOOLEAN, complete : BOOLEAN, verified : BOOLEAN,
                        received : 0 .. SlotSize, programmed : 0 .. SlotSize, buffer : Content,
                        bsc : 0 .. Counter - 1, staged : Content]
          BY <4>1, <5>1, Defaults DEF ContextOK
        <5> QED BY <2>2, <4>1, <5>2, <5>3 DEF ContextOK
      <4>3. source' \in [run : Runs, img : Versions \cup {0}, opt : Options \cup {"none"}]
        BY <2>1, <3>1, <3>3 DEF Plans
      <4> QED BY <4>2, <4>3
    <3> QED BY <3>2, <3>3
  <2>8. TypeInv' /\ Agreed'
    BY <2>1, <2>3, <2>4, <2>6, <2>7 DEF SlotInv, TypeInv, Agreed
  <2>9. Header' = Blank
    BY <2>1, <2>2 DEF Header
  <2>10. journal'.state # "PENDING_ACTIVATION"
    BY <2>2, <2>3, <2>4
  <2> QED BY <1>1, <2>1, <2>6, <2>7, <2>8, <2>9, <2>10, BackBlank
<1> QED BY <1>2, <1>3 DEF Download

(* The bytes gathered make whole phrases, which fit behind the k that are  *)
(* programmed, and a rest shorter than a phrase.                           *)
Gathered == ctx.buffer \o req.arg
Flushes  == FullPhrases(Gathered)

LEMMA Division ==
  ASSUME NEW len \in Nat, NEW size \in Nat, size > 0
  PROVE  /\ len \div size \in Nat /\ (len \div size) * size \in Nat
         /\ (len \div size) * size <= len /\ len < (len \div size) * size + size
OBVIOUS

LEMMA FlushCounts ==
  ASSUME TypeInv, req.sid = "transfer", TransferRefusal = "ok"
  PROVE  /\ Gathered \in Content /\ Len(Gathered) = Len(ctx.buffer) + Len(req.arg)
         /\ Flushes \in Nat /\ Flushes * PhraseSize \in Nat /\ Flushes * PhraseSize <= Len(Gathered)
         /\ Len(Gathered) < Flushes * PhraseSize + PhraseSize
         /\ \E k \in 0 .. Phrases :
              /\ ctx.programmed = k * PhraseSize /\ ctx.programmed \div PhraseSize = k
              /\ k + Flushes <= Phrases /\ ctx.programmed + Flushes * PhraseSize = (k + Flushes) * PhraseSize
<1>1. /\ ctx.buffer \in Content /\ req.arg \in Content
      /\ Len(ctx.buffer) \in Nat /\ Len(req.arg) \in Nat
      /\ ctx.received = ctx.programmed + Len(ctx.buffer)
      /\ ctx.received \in Nat /\ ctx.programmed \in Nat
  <2>1. ContextOK(ctx) /\ RequestOK(req)
    BY DEF TypeInv
  <2>2. ctx.buffer \in Content /\ req.arg \in Content
    BY <2>1 DEF ContextOK, RequestOK
  <2>3. ctx.received = ctx.programmed + Len(ctx.buffer) /\ ctx.received \in Nat
        /\ ctx.programmed \in Nat
    BY <2>1, Sizes DEF ContextOK
  <2> QED BY <2>2, <2>3 DEF Content
<1>2. ctx.received + Len(req.arg) <= SlotSize
  BY <1>1, Admitted, Sizes
<1>3. Len(Gathered) = Len(ctx.buffer) + Len(req.arg)
  BY <1>1, ConcatProperties DEF Content, Gathered
<1>4. Gathered \in Content
  BY <1>1, ConcatProperties DEF Content, Gathered
<1>5. Len(Gathered) \in Nat
  BY <1>4 DEF Content
<1>6. Flushes \in Nat /\ Flushes * PhraseSize \in Nat /\ Flushes * PhraseSize <= Len(Gathered)
      /\ Len(Gathered) < Flushes * PhraseSize + PhraseSize
  BY <1>5, Division, Sizes DEF Flushes, FullPhrases
<1>7. PICK k \in 0 .. Phrases : ctx.programmed = k * PhraseSize
  BY DEF TypeInv, ContextOK
<1>8. k \in Nat /\ ctx.programmed \div PhraseSize = k
      /\ k * PhraseSize + Flushes * PhraseSize = (k + Flushes) * PhraseSize
  BY <1>6, <1>7, Sizes
<1>9. (k + Flushes) * PhraseSize <= Phrases * PhraseSize
  <2>1. ctx.programmed + Len(Gathered) <= SlotSize
    <3>1. \A p, a, b \in Nat : p + a + b <= SlotSize => p + (a + b) <= SlotSize
      BY Sizes
    <3>2. ctx.programmed + Len(ctx.buffer) + Len(req.arg) <= SlotSize
      BY <1>2, <1>1
    <3>3. ctx.programmed + (Len(ctx.buffer) + Len(req.arg)) <= SlotSize
      BY <1>1, <3>1, <3>2
    <3> QED BY <1>3, <3>3, Zenon
  <2> QED BY <1>1, <1>5, <1>6, <1>7, <1>8, <2>1, Sizes
<1>10. k + Flushes <= Phrases
  <2>1. SUFFICES ASSUME k + Flushes > Phrases PROVE FALSE
    BY <1>6, <1>8, Sizes
  <2>2. k + Flushes \in Nat /\ k + Flushes >= Phrases + 1
    BY <1>6, <1>8, <2>1, Sizes
  <2>3. (k + Flushes) * PhraseSize >= (Phrases + 1) * PhraseSize
    BY <2>2, Sizes
  <2> QED BY <1>9, <2>2, <2>3, Sizes
<1> QED BY <1>3, <1>4, <1>6, <1>7, <1>8, <1>10

LEMMA PhraseOfIs ==
  ASSUME NEW bytes \in Content, NEW n \in Nat, n * PhraseSize <= Len(bytes), NEW i \in 1 .. n
  PROVE  /\ PhraseOf(bytes, i) \in Content
         /\ (i - 1) * PhraseSize + 1 \in 1 .. Len(bytes) /\ i * PhraseSize \in 1 .. Len(bytes)
         /\ i * PhraseSize = (i - 1) * PhraseSize + PhraseSize
<1>1. /\ (i - 1) * PhraseSize \in Nat /\ i * PhraseSize \in Nat
      /\ i * PhraseSize = (i - 1) * PhraseSize + PhraseSize /\ i * PhraseSize <= n * PhraseSize
  BY Sizes
<1>2. Len(bytes) \in Nat /\ n * PhraseSize \in Nat
  BY Sizes DEF Content
<1>3. (i - 1) * PhraseSize + 1 \in 1 .. Len(bytes) /\ i * PhraseSize \in 1 .. Len(bytes)
  BY <1>1, <1>2, Sizes
<1>4. \A j \in (i - 1) * PhraseSize + 1 .. i * PhraseSize : bytes[j] \in Bytes
  BY <1>3, <1>2 DEF Content
<1>5. SubSeq(bytes, (i - 1) * PhraseSize + 1, i * PhraseSize) \in Seq(Bytes)
  BY <1>1, <1>4, SubSeqProperties
<1> QED BY <1>1, <1>3, <1>5 DEF PhraseOf, Content

LEMMA FlushIs ==
  ASSUME TypeInv, req.sid = "transfer", TransferRefusal = "ok"
  PROVE  /\ \A m \in 0 .. Flushes : /\ Flushed(Gathered, m) \in [1 .. Phrases -> Content]
                             /\ Flushed(Gathered, m)[Phrases] = flash[Phrases]
         /\ \A m \in 0 .. Flushes : Staged(Gathered, m) \in Content
         /\ Staged(Gathered, Flushes) \in Content
         /\ SubSeq(Gathered, Flushes * PhraseSize + 1, Len(Gathered)) \in Content
         /\ Len(SubSeq(Gathered, Flushes * PhraseSize + 1, Len(Gathered))) = Len(Gathered) - Flushes * PhraseSize
<1>1. /\ Gathered \in Content /\ Flushes \in Nat /\ Flushes * PhraseSize \in Nat /\ Flushes * PhraseSize <= Len(Gathered)
  BY FlushCounts
<1>2. PICK k \in 0 .. Phrases : ctx.programmed \div PhraseSize = k /\ k + Flushes <= Phrases
  BY FlushCounts
<1>3. k \in Nat /\ flash \in [1 .. Phrases -> Content] /\ ctx.staged \in Content
  BY DEF TypeInv, ContextOK
<1>4. ASSUME NEW m \in 0 .. Flushes
      PROVE  /\ Flushed(Gathered, m) \in [1 .. Phrases -> Content]
             /\ Flushed(Gathered, m)[Phrases] = flash[Phrases]
  <2>1. \A p \in k + 1 .. k + m : p - k \in 1 .. Flushes
    BY <1>1, <1>2, <1>3
  <2>2. \A p \in k + 1 .. k + m : PhraseOf(Gathered, p - k) \in Content
    BY <1>1, <2>1, PhraseOfIs
  <2>3. Flushed(Gathered, m) = [p \in 1 .. Phrases |->
          IF p \in k + 1 .. k + m /\ p # Phrases THEN PhraseOf(Gathered, p - k) ELSE flash[p]]
    BY <1>2 DEF Flushed
  <2> QED BY <1>3, <2>2, <2>3, Sizes
<1>5. ASSUME NEW m \in 0 .. Flushes
      PROVE  Staged(Gathered, m) \in Content
  <2>1. m > 0 => m \in 1 .. Flushes
    BY <1>1
  <2>2. m > 0 => PhraseOf(Gathered, m) \in Content
    BY <1>1, <2>1, PhraseOfIs
  <2> QED BY <1>3, <2>2 DEF Staged
<1>6. \A j \in Flushes * PhraseSize + 1 .. Len(Gathered) : Gathered[j] \in Bytes
  BY <1>1 DEF Content
<1>7. Len(Gathered) \in Nat
  BY <1>1 DEF Content
<1> QED BY <1>1, <1>4, <1>5, <1>6, <1>7, SubSeqProperties DEF Content

(* A transfer accepted keeps the context counted.                          *)
LEMMA ProgressIs ==
  ASSUME TypeInv, req.sid = "transfer", TransferRefusal = "ok",
         ctx.received + Len(req.arg) <= SlotSize,
         NEW c, c = [download |-> ctx.download, erased |-> ctx.erased, complete |-> ctx.complete,
                     verified |-> ctx.verified, received |-> ctx.received + Len(req.arg),
                     programmed |-> ctx.programmed + Flushes * PhraseSize,
                     buffer |-> SubSeq(Gathered, Flushes * PhraseSize + 1, Len(Gathered)),
                     bsc |-> NextBsc, staged |-> Staged(Gathered, Flushes)]
  PROVE  ContextOK(c)
<1>1. /\ ContextOK(ctx) /\ Len(req.arg) \in Nat /\ Len(ctx.buffer) \in Nat
      /\ ctx.received \in Nat /\ ctx.programmed \in Nat
      /\ ctx.received = ctx.programmed + Len(ctx.buffer)
  <2>1. ContextOK(ctx) /\ RequestOK(req)
    BY DEF TypeInv
  <2>2. ctx.buffer \in Content /\ req.arg \in Content
    BY <2>1 DEF ContextOK, RequestOK
  <2>3. ctx.received = ctx.programmed + Len(ctx.buffer) /\ ctx.received \in Nat
        /\ ctx.programmed \in Nat
    BY <2>1, Sizes DEF ContextOK
  <2> QED BY <2>1, <2>2, <2>3 DEF Content
<1>2. /\ SubSeq(Gathered, Flushes * PhraseSize + 1, Len(Gathered)) \in Content
      /\ Len(SubSeq(Gathered, Flushes * PhraseSize + 1, Len(Gathered))) =
           Len(Gathered) - Flushes * PhraseSize
      /\ Staged(Gathered, Flushes) \in Content
  BY FlushIs
<1>3. PICK k \in 0 .. Phrases : k + Flushes <= Phrases /\
                                ctx.programmed + Flushes * PhraseSize = (k + Flushes) * PhraseSize
  BY FlushCounts
<1>4. /\ Flushes \in Nat /\ Flushes * PhraseSize \in Nat /\ Len(Gathered) \in Nat
      /\ Flushes * PhraseSize <= Len(Gathered)
      /\ Len(Gathered) < Flushes * PhraseSize + PhraseSize
      /\ Len(Gathered) = Len(ctx.buffer) + Len(req.arg)
  <2>1. Gathered \in Content
    BY FlushCounts
  <2>2. Len(Gathered) \in Nat
    BY <2>1 DEF Content
  <2> QED BY <2>2, FlushCounts
<1>5. NextBsc \in 0 .. Counter - 1
  BY <1>1, Sizes DEF NextBsc, ContextOK
<1> DEFINE r == ctx.received + Len(req.arg)
           p == ctx.programmed + Flushes * PhraseSize
           b == SubSeq(Gathered, Flushes * PhraseSize + 1, Len(Gathered))
<1>6. r \in 0 .. SlotSize /\ p \in 0 .. SlotSize /\ r = p + Len(b) /\ Len(b) < PhraseSize
  <2> DEFINE R == ctx.received
             P == ctx.programmed
             B == Len(ctx.buffer)
             A == Len(req.arg)
             G == Len(Gathered)
             F == Flushes * PhraseSize
  <2>1. R \in Nat /\ P \in Nat /\ B \in Nat /\ A \in Nat /\ G \in Nat /\ F \in Nat
    BY <1>1, <1>4
  <2>2. R = P + B /\ G = B + A /\ F <= G /\ G < F + PhraseSize /\ R + A <= SlotSize
    BY <1>1, <1>4
  <2>3. Len(b) = G - F /\ r = R + A /\ p = P + F
    BY <1>2
  <2> HIDE DEF R, P, B, A, G, F, r, p, b
  <2> QED BY <2>1, <2>2, <2>3, Sizes
<1>7. k + Flushes \in 0 .. Phrases /\ p = (k + Flushes) * PhraseSize
  BY <1>3, <1>4, Sizes
<1> HIDE DEF r, p, b
<1>8. /\ c.download = ctx.download /\ c.erased = ctx.erased /\ c.complete = ctx.complete
      /\ c.received = r /\ c.programmed = p /\ c.buffer = b
      /\ c \in [download : BOOLEAN, erased : BOOLEAN, complete : BOOLEAN, verified : BOOLEAN,
               received : 0 .. SlotSize, programmed : 0 .. SlotSize, buffer : Content,
               bsc : 0 .. Counter - 1, staged : Content]
  <2>1. c = [download |-> ctx.download, erased |-> ctx.erased, complete |-> ctx.complete,
             verified |-> ctx.verified, received |-> r, programmed |-> p, buffer |-> b,
             bsc |-> NextBsc, staged |-> Staged(Gathered, Flushes)]
    BY DEF r, p, b
  <2>2. b \in Content
    BY <1>2 DEF b
  <2>3. /\ ctx.download \in BOOLEAN /\ ctx.erased \in BOOLEAN /\ ctx.complete \in BOOLEAN
        /\ ctx.verified \in BOOLEAN
    BY <1>1 DEF ContextOK
  <2> QED BY <1>2, <1>5, <1>6, <2>1, <2>2, <2>3
<1> QED BY <1>1, <1>6, <1>7, <1>8 DEF ContextOK

(* Only phrases of the payload are programmed while the header is blank.   *)
LEMMA TransferSafe ==
  ASSUME SlotInv, Transfer
  PROVE  SlotInv'
<1>1. mode = "boot" /\ spc = "handle" /\ req.sid = "transfer"
  BY DEF Transfer
<1>2. CASE Refused(TransferRefusal)
  BY <1>1, <1>2, Refusals, Refusing
<1>3. CASE TransferRefusal = "ok" /\ ~Refused(TransferRefusal)
  <2> DEFINE n == Flushes
  <2>1. /\ session /\ security.unlocked /\ ~jfault /\ ctx.download /\ ctx.erased /\ ~ctx.complete
        /\ Header = Blank /\ journal.state = "PROGRAMMING" /\ ContextOK(ctx)
        /\ ctx.received + Len(req.arg) <= SlotSize
    <3>1. Access = "ok" /\ ctx.download /\ ~(ctx.received + Len(req.arg) > SlotSize)
      BY <1>3, Admitted
    <3>2. session /\ security.unlocked /\ ~jfault
      BY <3>1, Admitted
    <3>3. ContextOK(ctx) /\ ctx.erased /\ ~ctx.complete
      BY <3>1 DEF SlotInv, TypeInv, ContextOK
    <3>4. Header = Blank /\ journal.state = "PROGRAMMING"
      BY <1>1, <3>1, <3>2, <3>3 DEF SlotInv, Vouched, Unpublished, Agreed
    <3>5. Len(req.arg) \in Nat /\ ctx.received \in Nat
      BY <1>1, Sizes DEF SlotInv, TypeInv, RequestOK, ContextOK, Content
    <3> QED BY <3>1, <3>2, <3>3, <3>4, <3>5, Sizes
  <2>2. /\ \A m \in 0 .. n : /\ Flushed(Gathered, m) \in [1 .. Phrases -> Content]
                            /\ Flushed(Gathered, m)[Phrases] = flash[Phrases]
        /\ \A m \in 0 .. n : Staged(Gathered, m) \in Content
        /\ Staged(Gathered, n) \in Content /\ n \in Nat
    BY <1>1, <1>3, FlushIs, FlushCounts DEF SlotInv
  <2>3. "72" \in Kinds
    BY DEF Kinds
  <2>4. CASE /\ flash' = Flushed(Gathered, n)
             /\ ctx' = [ctx EXCEPT !.received = @ + Len(req.arg),
                                   !.programmed = @ + n * PhraseSize,
                                   !.buffer = SubSeq(Gathered, n * PhraseSize + 1, Len(Gathered)),
                                   !.bsc = NextBsc,
                                   !.staged = Staged(Gathered, n)]
             /\ Positive
             /\ UNCHANGED <<tester, toServer, mode, session, security, jfault, journal,
                            active, history, budget>>
    <3>1. toTester' \in Seq(Answers) /\ spc' = "idle" /\ req' = NoRequest /\ RequestOK(req')
      BY <2>4, Replying DEF SlotInv
    <3>2. flash' \in [1 .. Phrases -> Content] /\ Header' = Blank
      BY <2>1, <2>2, <2>4 DEF Header
    <3>3. /\ ctx'.received = ctx.received + Len(req.arg)
          /\ ctx'.programmed = ctx.programmed + n * PhraseSize
          /\ ctx'.buffer = SubSeq(Gathered, n * PhraseSize + 1, Len(Gathered))
          /\ ctx'.bsc = NextBsc /\ ctx'.staged = Staged(Gathered, n)
          /\ ctx'.download = ctx.download /\ ctx'.erased = ctx.erased
          /\ ctx'.complete = ctx.complete /\ ctx'.verified = ctx.verified
          /\ ctx' = [download |-> ctx'.download, erased |-> ctx'.erased,
                     complete |-> ctx'.complete, verified |-> ctx'.verified,
                     received |-> ctx'.received, programmed |-> ctx'.programmed,
                     buffer |-> ctx'.buffer, bsc |-> ctx'.bsc, staged |-> ctx'.staged]
      BY <2>1, <2>4 DEF ContextOK
    <3>4. ContextOK(ctx')
      BY <1>1, <1>3, <2>1, <3>3, ProgressIs DEF SlotInv
    <3>5. TypeInv' /\ Agreed'
      BY <2>1, <2>4, <3>1, <3>2, <3>3, <3>4 DEF SlotInv, TypeInv, Agreed, history
    <3> QED BY <1>1, <2>1, <2>4, <3>1, <3>2, <3>3, <3>5, BackBlank
  <2>5. CASE /\ \E i \in 1 .. n :
                  /\ flash' \in {Flushed(Gathered, i - 1), Flushed(Gathered, i)}
                  /\ ctx' = [Abandoned EXCEPT !.staged = Staged(Gathered, i)]
             /\ AbortJournal(1)
             /\ Refuse("72")
             /\ UNCHANGED <<tester, toServer, mode, session, security, active, history>>
    <3>1. toTester' \in Seq(Answers) /\ spc' = "idle" /\ req' = NoRequest /\ RequestOK(req')
      BY <2>3, <2>5, Replying DEF SlotInv
    <3>2. PICK i \in 1 .. n : /\ flash' \in {Flushed(Gathered, i - 1), Flushed(Gathered, i)}
                              /\ ctx' = [Abandoned EXCEPT !.staged = Staged(Gathered, i)]
      BY <2>5
    <3>3. /\ journal' \in Journals /\ jfault' \in BOOLEAN /\ budget' \in 0 .. MaxFaults
          /\ journal'.state \in {journal.state, "ABORTED"}
          /\ ~jfault' => journal'.state = "ABORTED"
      BY <2>1, <2>5, AbortingJournal DEF SlotInv
    <3>4. i - 1 \in 0 .. n /\ i \in 0 .. n
      BY <2>2
    <3>5. flash' \in [1 .. Phrases -> Content] /\ Header' = Blank
      BY <2>1, <2>2, <3>2, <3>4 DEF Header
    <3>6. ContextOK(ctx') /\ ~ctx'.download /\ ~ctx'.complete
      BY <2>1, <2>2, <3>2, <3>4, AbandonedIs
    <3>7. TypeInv' /\ Agreed'
      BY <2>5, <3>1, <3>3, <3>5, <3>6 DEF SlotInv, TypeInv, Agreed, history
    <3> QED BY <1>1, <2>1, <2>5, <3>1, <3>3, <3>5, <3>6, <3>7, BackBlank
  <2>6. CASE /\ Spend(1) /\ flash' = Flushed(Gathered, n) /\ jfault' = TRUE
             /\ ctx' = [Abandoned EXCEPT !.staged = Staged(Gathered, n)]
             /\ Refuse("72")
             /\ UNCHANGED <<tester, toServer, mode, session, security, journal, active, history>>
    <3>1. toTester' \in Seq(Answers) /\ spc' = "idle" /\ req' = NoRequest /\ RequestOK(req')
      BY <2>3, <2>6, Replying DEF SlotInv
    <3>2. flash' \in [1 .. Phrases -> Content] /\ Header' = Blank /\ budget' \in 0 .. MaxFaults
      BY <2>1, <2>2, <2>6, Spending DEF Header, SlotInv
    <3>3. ContextOK(ctx') /\ ~ctx'.download /\ ~ctx'.complete
      BY <2>1, <2>2, <2>6, AbandonedIs
    <3>4. TypeInv' /\ Agreed'
      BY <2>6, <3>1, <3>2, <3>3 DEF SlotInv, TypeInv, Agreed, history
    <3> QED BY <1>1, <2>1, <2>6, <3>1, <3>2, <3>3, <3>4, BackBlank
  <2> QED BY <1>3, <2>4, <2>5, <2>6 DEF Transfer, Gathered, Flushes
<1> QED BY <1>2, <1>3 DEF Transfer

(* The journal takes the staged header.                                    *)
LEMMA TransferExitSafe ==
  ASSUME SlotInv, TransferExit
  PROVE  SlotInv'
<1>1. mode = "boot" /\ spc = "handle"
  BY DEF TransferExit, Handling
<1>2. CASE Refused(ExitRefusal)
  BY <1>1, <1>2, Refusals, Refusing
<1>3. CASE ExitRefusal = "ok" /\ ~Refused(ExitRefusal)
  <2> DEFINE next == [state |-> "TRANSFER_COMPLETE", header |-> ctx.staged]
  <2>1. /\ Save(next, 0)
        /\ IF jfault'
           THEN Refuse("72") /\ UNCHANGED ctx
           ELSE Positive /\ ctx' = [ctx EXCEPT !.download = FALSE, !.complete = TRUE]
        /\ UNCHANGED <<tester, toServer, mode, session, security, flash, active, history>>
    BY <1>3 DEF TransferExit
  <2>2. /\ ~jfault /\ ctx.download /\ ctx.erased /\ ~ctx.complete /\ Header = Blank
        /\ journal.state = "PROGRAMMING" /\ ContextOK(ctx)
    BY <1>3, Admitted DEF SlotInv, TypeInv, ContextOK, Vouched, Unpublished
  <2>3. next \in Journals /\ next.state = "TRANSFER_COMPLETE" /\ next.header = ctx.staged
    BY <2>2 DEF ContextOK, Journals, States, Updating
  <2> HIDE DEF next
  <2>4. /\ journal' \in Journals /\ jfault' \in BOOLEAN /\ budget' \in 0 .. MaxFaults
        /\ journal' \in {journal, next} /\ (~jfault' => journal' = next)
    BY <2>1, <2>3, Saving DEF SlotInv
  <2>5. "72" \in Kinds
    BY DEF Kinds
  <2>6. /\ toTester' \in Seq(Answers) /\ spc' = "idle" /\ req' = NoRequest /\ RequestOK(req')
    BY <2>1, <2>5, Replying DEF SlotInv
  <2>7. /\ ContextOK(ctx') /\ ctx'.erased /\ ctx'.staged = ctx.staged
        /\ ctx'.complete => ~jfault'
        /\ ~jfault' => ~ctx'.download
    BY <2>1, <2>2 DEF ContextOK
  <2>8. TypeInv' /\ Agreed'
    BY <2>1, <2>3, <2>4, <2>6, <2>7 DEF SlotInv, TypeInv, Agreed, history
  <2>9. Placed' /\ Inside'
    BY <1>1, <2>1, <2>6, Defaults DEF SlotInv, Placed, Inside, Between, EraseMid, VerifyMid
  <2>10. Vouched'
    BY <2>1, <2>2, <2>3, <2>4, <2>6, <2>7, SlotKept DEF SlotInv, Vouched, Unpublished, Published
  <2> QED BY <2>8, <2>9, <2>10 DEF SlotInv
<1> QED BY <1>2, <1>3 DEF TransferExit
-----------------------------------------------------------------------------
(* VERIFY                                                                  *)

LEMMA VerifyStartSafe ==
  ASSUME SlotInv, VerifyStart
  PROVE  SlotInv'
<1>1. mode = "boot" /\ spc = "handle" /\ req.sid = "routine" /\ req.sub = "verify"
  BY DEF VerifyStart, Handling
<1>2. CASE Refused(VerifyRefusal)
  BY <1>1, <1>2, Refusals, Refusing
<1>3. CASE /\ VerifyRefusal = "ok" /\ Pending("verifying")
           /\ UNCHANGED <<tester, toServer, mode, session, security, ctx, jfault, durable, history>>
  <2>1. session /\ security.unlocked /\ ~jfault /\ ctx.complete
    BY <1>3, Admitted
  <2>2. /\ toTester' \in Seq(Answers) /\ budget' \in 0 .. MaxFaults /\ RequestOK(req')
        /\ \/ spc' = "verifying" /\ req' = req
           \/ spc' = "idle" /\ req' = NoRequest
    BY <1>3, PendingIs DEF SlotInv
  <2>3. UNCHANGED <<tester, toServer, mode, session, security, ctx, jfault, journal, flash,
                    active, unlocker, source>>
    BY <1>3 DEF durable, history
  <2>4. TypeInv' /\ Agreed'
    BY <2>2, <2>3 DEF SlotInv, TypeInv, Agreed
  <2>5. CASE spc' = "verifying" /\ req' = req
    <3>1. Placed' /\ Inside'
      BY <1>1, <2>1, <2>3, <2>5 DEF SlotInv, Placed, Inside, Between, EraseMid, VerifyMid
    <3>2. Vouched'
      BY <1>1, <2>3, <2>5, SlotKept DEF SlotInv, Vouched, Unpublished
    <3> QED BY <2>4, <3>1, <3>2 DEF SlotInv
  <2>6. CASE spc' = "idle" /\ req' = NoRequest
    BY <1>1, <2>3, <2>4, <2>6, BackToLoop
  <2> QED BY <2>2, <2>5, <2>6
<1> QED BY <1>2, <1>3 DEF VerifyStart

(* What holds inside the routine.                                          *)
LEMMA VerifyingIs ==
  ASSUME SlotInv, spc \in VerifyMid
  PROVE  /\ mode = "boot" /\ session /\ security.unlocked /\ ~jfault
         /\ req.sid = "routine" /\ req.sub = "verify"
         /\ ctx.complete /\ ctx.erased /\ ~ctx.download /\ ctx.staged = journal.header
BY DEF SlotInv, TypeInv, Placed, Inside, Vouched, VerifyMid, ContextOK

LEMMA VerifyMarkSafe ==
  ASSUME SlotInv, VerifyMark
  PROVE  SlotInv'
<1> DEFINE next == [journal EXCEPT !.state = "VERIFYING"]
<1>1. spc = "verifying" /\ next \in Journals /\ next.state = "VERIFYING" /\ next.header = journal.header
  BY DEF VerifyMark, Reach, Journalled, SlotInv, TypeInv, Journals, States, Updating
<1>2. spc \in VerifyMid
  BY <1>1 DEF VerifyMid
<1>3. /\ TypeInv'
      /\ UNCHANGED <<tester, toServer, mode, session, security, ctx, flash, active, unlocker, source>>
      /\ \/ /\ spc' = "validate" /\ req' = req /\ ~jfault' /\ journal' = next
            /\ TransitionAllowed(journal.state, "VERIFYING")
         \/ /\ spc' = "idle" /\ req' = NoRequest /\ jfault' /\ journal' \in {journal, next}
            /\ TransitionAllowed(journal.state, "VERIFYING")
         \/ spc' = "idle" /\ req' = NoRequest /\ ~jfault' /\ journal' = journal
  BY <1>1, <1>2, Journalling, VerifyingIs DEF VerifyMark, Reach, SlotInv, history
<1>4. TransitionAllowed(journal.state, "VERIFYING") => Header = Blank
  BY <1>2, VerifyingIs DEF TransitionAllowed, Updating, Successor, SlotInv, Vouched, Unpublished
<1> HIDE DEF next
<1>5. Placed' /\ Inside'
  BY <1>1, <1>2, <1>3, VerifyingIs, Defaults
  DEF SlotInv, Placed, Inside, Between, EraseMid, VerifyMid
<1>6. Agreed'
  BY <1>1, <1>2, <1>3, VerifyingIs DEF SlotInv, Agreed
<1>7. Vouched'
  BY <1>1, <1>2, <1>3, <1>4, VerifyingIs, SlotKept DEF SlotInv, Vouched, Unpublished, Published
<1> QED BY <1>3, <1>5, <1>6, <1>7 DEF SlotInv

(* Payload and staged header are checked before the header is written.     *)
LEMMA ValidateSafe ==
  ASSUME SlotInv, Validate
  PROVE  SlotInv'
<1> DEFINE v == ImageWith(ctx.staged)
<1>1. /\ mode = "boot" /\ spc = "validate" /\ spc \in VerifyMid
      /\ UNCHANGED <<tester, toServer, mode, session, security, ctx, flash, active, unlocker, source>>
  BY DEF Validate, VerifyMid, history
<1>2. v = ImageIn(flash, ctx.staged) /\ ImageWith(ctx.staged)' = ImageIn(flash, ctx.staged)
  BY <1>1, SlotKept, ImageWithIs
<1>3. Header = Blank
  BY <1>1 DEF SlotInv, Vouched, Unpublished
<1>4. CASE v > active.version /\ Pending("publish") /\ UNCHANGED <<journal, jfault>>
  <2>1. /\ toTester' \in Seq(Answers) /\ budget' \in 0 .. MaxFaults /\ RequestOK(req')
        /\ \/ spc' = "publish" /\ req' = req
           \/ spc' = "idle" /\ req' = NoRequest
    BY <1>4, PendingIs DEF SlotInv
  <2>2. TypeInv' /\ Agreed'
    BY <1>1, <1>4, <2>1 DEF SlotInv, TypeInv, Agreed
  <2>3. CASE spc' = "publish" /\ req' = req
    <3>1. Placed' /\ Inside'
      BY <1>1, <1>4, <2>3, VerifyingIs
      DEF SlotInv, Placed, Inside, Between, EraseMid, VerifyMid
    <3>2. Vouched'
      BY <1>1, <1>2, <1>3, <1>4, <2>3, VerifyingIs, SlotKept DEF SlotInv, Vouched, Unpublished
    <3> QED BY <2>2, <3>1, <3>2 DEF SlotInv
  <2>4. CASE spc' = "idle" /\ req' = NoRequest
    BY <1>1, <1>4, <2>2, <2>4, BackToLoop
  <2> QED BY <2>1, <2>3, <2>4
<1>5. CASE AbortJournal(0) /\ Refuse(IF v = 0 THEN "72" ELSE "31")
  <2>1. (IF v = 0 THEN "72" ELSE "31") \in Kinds
    BY DEF Kinds
  <2>2. toTester' \in Seq(Answers) /\ spc' = "idle" /\ req' = NoRequest /\ RequestOK(req')
    BY <1>5, <2>1, Replying DEF SlotInv
  <2>3. /\ journal' \in Journals /\ jfault' \in BOOLEAN /\ budget' \in 0 .. MaxFaults
        /\ journal'.header = journal.header /\ journal'.state \in {journal.state, "ABORTED"}
    BY <1>5, AbortingJournal DEF SlotInv
  <2>4. TypeInv' /\ Agreed'
    BY <1>1, <2>2, <2>3, VerifyingIs DEF SlotInv, TypeInv, Agreed
  <2> QED BY <1>1, <2>2, <2>3, <2>4, BackToLoop
<1> QED BY <1>4, <1>5 DEF Validate

(* The header written is the one that was checked, so the image that       *)
(* becomes readable is whole and newer than what runs.                     *)
LEMMA PublishSafe ==
  ASSUME SlotInv, Publish
  PROVE  SlotInv'
<1>1. /\ mode = "boot" /\ spc = "publish" /\ spc \in VerifyMid
      /\ UNCHANGED <<tester, toServer, mode, session, security, active, unlocker, source>>
  BY DEF Publish, VerifyMid, history
<1>2. /\ Header = Blank /\ ImageIn(flash, ctx.staged) > active.version /\ active.version > 0
      /\ journal.header = ctx.staged /\ ctx.staged \in Content /\ ctx.complete
      /\ active.version \in Nat
  <2>1. active.version > 0 /\ ctx.staged \in Content /\ active.version \in Nat
    <3>1. ContextOK(ctx)
      BY DEF SlotInv, TypeInv
    <3>2. ctx.staged \in Content
      BY <3>1 DEF ContextOK
    <3> QED BY <3>2, Running
  <2> QED BY <1>1, <2>1, ImageWithIs, VerifyingIs DEF SlotInv, Vouched, Unpublished
<1>3. ASSUME flash' = [flash EXCEPT ![Phrases] = ctx.staged]
      PROVE  /\ flash' \in [1 .. Phrases -> Content] /\ Header' = ctx.staged
             /\ SlotImage' = ImageIn(flash, ctx.staged) /\ SlotImage' > active.version
             /\ HeaderVouches'
  <2>1. flash' \in [1 .. Phrases -> Content] /\ Header' = ctx.staged
        /\ \A p \in Payload : flash'[p] = flash[p]
    BY <1>2, <1>3, Sizes DEF Header, SlotInv, TypeInv
  <2>2. SlotImage' = ImageIn(flash, ctx.staged)
    <3>1. SlotImage' = ImageIn(flash', ctx.staged)
      BY <2>1, ImageWithIs DEF Header
    <3> QED BY <2>1, <3>1, ImageOfPayload
  <2>3. ImageIn(flash, ctx.staged) \in Versions \cup {0}
    BY ImageInIs
  <2>4. SlotImage' # 0
    BY <1>2, <2>2, <2>3, Sizes
  <2> QED BY <1>2, <2>1, <2>2, <2>4 DEF HeaderVouches
<1>4. CASE /\ flash' = [flash EXCEPT ![Phrases] = ctx.staged] /\ Pending("seal")
           /\ UNCHANGED <<ctx, journal, jfault>>
  <2>1. /\ toTester' \in Seq(Answers) /\ budget' \in 0 .. MaxFaults /\ RequestOK(req')
        /\ \/ spc' = "seal" /\ req' = req
           \/ spc' = "idle" /\ req' = NoRequest
    BY <1>4, PendingIs DEF SlotInv
  <2>2. TypeInv' /\ Agreed'
    BY <1>1, <1>3, <1>4, <2>1 DEF SlotInv, TypeInv, Agreed
  <2>3. Placed' /\ Inside'
    BY <1>1, <1>4, <2>1, VerifyingIs, Defaults
    DEF SlotInv, Placed, Inside, Between, EraseMid, VerifyMid
  <2>4. journal.state = "VERIFYING"
    BY <1>1 DEF SlotInv, Inside
  <2>5. ~Unpublished'
    BY <1>2, <1>4, <2>1, <2>4 DEF Unpublished
  <2>6. Vouched'
    BY <1>2, <1>3, <1>4, <2>1, <2>4, <2>5, <1>1 DEF Vouched
  <2> QED BY <2>2, <2>3, <2>6 DEF SlotInv
<1>5. CASE /\ FlashFails(Phrases, ctx.staged) \/ FlashFails(Phrases, Blank)
           /\ ctx' = Abandoned
  <2>1. PICK was \in {ctx.staged, Blank} : FlashFails(Phrases, was)
    BY <1>5
  <2>2. /\ flash' \in [1 .. Phrases -> Content] /\ flash' \in {flash, [flash EXCEPT ![Phrases] = was]}
        /\ toTester' \in Seq(Answers) /\ spc' = "idle" /\ req' = NoRequest /\ RequestOK(req')
        /\ journal' \in Journals /\ jfault' \in BOOLEAN /\ budget' \in 0 .. MaxFaults
        /\ journal'.header = journal.header /\ journal'.state \in {journal.state, "ABORTED"}
        /\ ~jfault' => journal'.state = "ABORTED" \/ journal.state = "IDLE"
    BY <1>2, <2>1, FlashFailing, Sizes, Defaults DEF SlotInv
  <2>3. ContextOK(ctx') /\ ~ctx'.download /\ ~ctx'.erased /\ ~ctx'.complete
    BY <1>5, AbandonedIs DEF SlotInv, TypeInv
  <2>4. TypeInv' /\ Agreed'
    BY <1>1, <2>2, <2>3 DEF SlotInv, TypeInv, Agreed
  <2>5. CASE UNCHANGED flash
    BY <1>1, <2>2, <2>3, <2>4, <2>5, BackToLoop
  <2>6. CASE flash' = [flash EXCEPT ![Phrases] = ctx.staged]
    <3>1. Placed' /\ Inside'
      BY <1>1, <2>2, Defaults DEF SlotInv, Placed, Inside, Between, EraseMid, VerifyMid
    <3>2. Vouched'
      BY <1>1, <1>2, <1>3, <2>2, <2>3, <2>6 DEF Vouched, Unpublished
    <3> QED BY <2>4, <3>1, <3>2 DEF SlotInv
  <2>7. CASE flash' = [flash EXCEPT ![Phrases] = Blank]
    <3>1. Header' = Blank
      BY <2>7, Sizes DEF Header, SlotInv, TypeInv
    <3>2. CASE journal'.state = "PENDING_ACTIVATION"
      <4>1. journal.state = "PENDING_ACTIVATION"
        BY <2>2, <3>2
      <4>2. SlotImage > active.version /\ SlotImage = 0
        BY <1>2, <4>1, SlotBlank DEF SlotInv, Vouched
      <4> QED BY <1>2, <4>2
    <3>3. CASE journal'.state # "PENDING_ACTIVATION"
      BY <1>1, <2>2, <2>3, <2>4, <3>1, <3>3, BackBlank
    <3> QED BY <3>2, <3>3
  <2> QED BY <2>1, <2>2, <2>5, <2>6, <2>7
<1> QED BY <1>1, <1>4, <1>5 DEF Publish

(* A header taken back leaves the journal short of PENDING_ACTIVATION.     *)
LEMMA ReadbackRejectedSafe ==
  ASSUME SlotInv, ReadbackRejected
  PROVE  SlotInv'
<1>1. /\ mode = "boot" /\ spc = "seal" /\ spc \in VerifyMid /\ FlashFails(Phrases, Blank)
      /\ UNCHANGED <<tester, toServer, mode, session, security, ctx, active, unlocker, source>>
  BY DEF ReadbackRejected, VerifyMid, history
<1>2. journal.state = "VERIFYING" /\ ctx.complete /\ ~ctx.download /\ ctx.staged = journal.header
  BY <1>1, VerifyingIs DEF SlotInv, Inside
<1>3. /\ flash' \in [1 .. Phrases -> Content] /\ flash' \in {flash, [flash EXCEPT ![Phrases] = Blank]}
      /\ toTester' \in Seq(Answers) /\ spc' = "idle" /\ req' = NoRequest /\ RequestOK(req')
      /\ journal' \in Journals /\ jfault' \in BOOLEAN /\ budget' \in 0 .. MaxFaults
      /\ journal'.header = journal.header /\ journal'.state \in {"VERIFYING", "ABORTED"}
  BY <1>1, <1>2, FlashFailing, Sizes, Defaults DEF SlotInv
<1>4. TypeInv' /\ Agreed'
  BY <1>1, <1>2, <1>3 DEF SlotInv, TypeInv, Agreed
<1>5. CASE UNCHANGED flash
  BY <1>1, <1>2, <1>3, <1>4, <1>5, BackToLoop
<1>6. CASE flash' = [flash EXCEPT ![Phrases] = Blank]
  <2>1. Header' = Blank
    BY <1>6, Sizes DEF Header, SlotInv, TypeInv
  <2>2. Placed' /\ Inside'
    BY <1>1, <1>3, Defaults DEF SlotInv, Placed, Inside, Between, EraseMid, VerifyMid
  <2>3. Vouched'
    BY <1>1, <1>2, <1>3, <2>1, SlotBlank DEF Vouched, Unpublished
  <2> QED BY <1>4, <2>2, <2>3 DEF SlotInv
<1> QED BY <1>3, <1>5, <1>6

LEMMA SealVerifiedSafe ==
  ASSUME SlotInv, SealVerified
  PROVE  SlotInv'
<1> DEFINE next == [journal EXCEPT !.state = "VERIFIED"]
<1>1. spc = "seal" /\ next \in Journals /\ next.state = "VERIFIED" /\ next.header = journal.header
  BY DEF SealVerified, Reach, Journalled, SlotInv, TypeInv, Journals, States, Updating
<1>2. spc \in VerifyMid /\ journal.state = "VERIFYING"
      /\ Header = journal.header /\ SlotImage > active.version
  BY <1>1 DEF VerifyMid, SlotInv, Inside, Vouched
<1>3. /\ TypeInv'
      /\ UNCHANGED <<tester, toServer, mode, session, security, ctx, flash, active, unlocker, source>>
      /\ \/ spc' = "seal2" /\ req' = req /\ ~jfault' /\ journal' = next
         \/ spc' = "idle" /\ req' = NoRequest /\ jfault' /\ journal' \in {journal, next}
         \/ spc' = "idle" /\ req' = NoRequest /\ ~jfault' /\ journal' = journal
  BY <1>1, <1>2, Journalling, VerifyingIs DEF SealVerified, Reach, SlotInv, history
<1> HIDE DEF next
<1>4. Placed' /\ Inside'
  BY <1>1, <1>2, <1>3, VerifyingIs, Defaults
  DEF SlotInv, Placed, Inside, Between, EraseMid, VerifyMid
<1>5. Agreed'
  BY <1>1, <1>2, <1>3, VerifyingIs DEF SlotInv, Agreed
<1>6. Vouched'
  BY <1>1, <1>2, <1>3, VerifyingIs, SlotKept DEF SlotInv, Vouched, Unpublished, Published
<1> QED BY <1>3, <1>4, <1>5, <1>6 DEF SlotInv

LEMMA SealPendingSafe ==
  ASSUME SlotInv, SealPending
  PROVE  SlotInv'
<1> DEFINE next == [journal EXCEPT !.state = "PENDING_ACTIVATION"]
<1>1. spc = "seal2" /\ next \in Journals /\ next.state = "PENDING_ACTIVATION"
      /\ next.header = journal.header
  BY DEF SealPending, Reach, Journalled, SlotInv, TypeInv, Journals, States
<1>2. spc \in VerifyMid /\ Header = journal.header /\ SlotImage > active.version
  BY <1>1 DEF VerifyMid, SlotInv, Vouched
<1>3. /\ TypeInv'
      /\ UNCHANGED <<tester, toServer, mode, session, security, ctx, flash, active, unlocker, source>>
      /\ \/ spc' = "verify_done" /\ req' = req /\ ~jfault' /\ journal' = next
         \/ spc' = "idle" /\ req' = NoRequest /\ jfault' /\ journal' \in {journal, next}
         \/ spc' = "idle" /\ req' = NoRequest /\ ~jfault' /\ journal' = journal
  BY <1>1, <1>2, Journalling, VerifyingIs DEF SealPending, Reach, SlotInv, history
<1> HIDE DEF next
<1>4. Placed' /\ Inside'
  BY <1>1, <1>2, <1>3, VerifyingIs, Defaults
  DEF SlotInv, Placed, Inside, Between, EraseMid, VerifyMid
<1>5. Agreed'
  BY <1>1, <1>2, <1>3, VerifyingIs DEF SlotInv, Agreed
<1>6. Vouched'
  BY <1>1, <1>2, <1>3, VerifyingIs, SlotKept DEF SlotInv, Vouched, Unpublished, Published
<1> QED BY <1>3, <1>4, <1>5, <1>6 DEF SlotInv

LEMMA VerifyDoneSafe ==
  ASSUME SlotInv, VerifyDone
  PROVE  SlotInv'
<1>1. /\ mode = "boot" /\ spc = "verify_done" /\ ctx' = [ctx EXCEPT !.verified = TRUE] /\ Positive
      /\ UNCHANGED <<tester, toServer, mode, session, security, jfault, journal, flash,
                     active, unlocker, source, budget>>
  BY DEF VerifyDone, durable, history
<1>2. /\ ContextOK(ctx') /\ ctx'.download = ctx.download /\ ctx'.erased = ctx.erased
      /\ ctx'.complete = ctx.complete /\ ctx'.staged = ctx.staged
  BY <1>1 DEF SlotInv, TypeInv, ContextOK
<1>3. toTester' \in Seq(Answers) /\ spc' = "idle" /\ req' = NoRequest /\ RequestOK(req')
  BY <1>1, Replying DEF SlotInv
<1>4. TypeInv' /\ Agreed'
  BY <1>1, <1>2, <1>3 DEF SlotInv, TypeInv, Agreed
<1>5. Placed' /\ Inside'
  BY <1>1, <1>3, Defaults DEF SlotInv, Placed, Inside, Between, EraseMid, VerifyMid
<1>6. Vouched'
  BY <1>1, <1>2, <1>3, SlotKept DEF SlotInv, Vouched, Unpublished
<1> QED BY <1>4, <1>5, <1>6 DEF SlotInv
-----------------------------------------------------------------------------
(* TIME-OUTS, RESETS AND STARTS                                            *)

LEMMA TransferTimeoutSafe ==
  ASSUME SlotInv, TransferTimeout
  PROVE  SlotInv'
<1>1. /\ mode = "boot" /\ spc = "idle"
      /\ UNCHANGED <<tester, toServer, toTester, mode, spc, req, session, security, flash,
                     active, unlocker, source>>
  BY DEF TransferTimeout, link, history
<1>2. req = NoRequest
  BY <1>1 DEF SlotInv, Placed, Between
<1>3. /\ journal' \in Journals /\ jfault' \in BOOLEAN /\ budget' \in 0 .. MaxFaults
      /\ journal'.header = journal.header
      /\ journal'.state \in {journal.state, "ABORTED"}
      /\ ~jfault' => journal'.state \notin Updating
      /\ ctx' = Abandoned
  BY AbortingDownload DEF TransferTimeout, SlotInv
<1>4. ContextOK(ctx') /\ ~ctx'.download /\ ~ctx'.erased /\ ~ctx'.complete
  BY <1>3, AbandonedIs DEF SlotInv, TypeInv
<1>5. TypeInv'
  BY <1>1, <1>3, <1>4 DEF SlotInv, TypeInv
<1>6. Agreed'
  BY <1>3, <1>4 DEF Agreed, Updating
<1> QED BY <1>1, <1>2, <1>3, <1>4, <1>5, <1>6, BackToLoop

(* A reset clears what is in RAM and nothing else.                         *)
LEMMA DownSafe ==
  ASSUME SlotInv, NEW goTo \in {"recover", "recover_boot"}, Down(goTo), budget' \in 0 .. MaxFaults
  PROVE  SlotInv'
<1>1. /\ mode' = "off" /\ spc' = goTo /\ toServer' = << >> /\ req' = NoRequest
      /\ session' = FALSE /\ security' = Locked /\ ctx' = NoDownload /\ jfault' = FALSE
      /\ unlocker' = 0
      /\ UNCHANGED <<tester, toTester, journal, flash, active, source>>
  BY DEF Down, durable
<1>2. TypeInv'
  <2>1. 0 \in Runs /\ MailboxOK(<< >>)
    BY SizesAssumption DEF Runs, MailboxOK
  <2>2. Locked \in [seed : {0} \cup Seeds, issued : BOOLEAN, unlocked : BOOLEAN]
    BY DEF Locked
  <2>3. RequestOK(NoRequest) /\ ContextOK(NoDownload)
    BY Defaults
  <2>4. /\ FlasherOK(tester) /\ toTester \in Seq(Answers)
        /\ journal \in Journals /\ flash \in [1 .. Phrases -> Content]
        /\ active \in [version : Versions, trial : BOOLEAN]
        /\ source \in [run : Runs, img : Versions \cup {0}, opt : Options \cup {"none"}]
    BY DEF SlotInv, TypeInv
  <2> QED BY <1>1, <2>1, <2>2, <2>3, <2>4 DEF TypeInv
<1>3. Placed' /\ Inside' /\ Agreed'
  BY <1>1, Defaults DEF Placed, Inside, Agreed, Cleared, Between, EraseMid, VerifyMid
<1>4. Vouched'
  BY <1>1, Defaults, SlotKept DEF SlotInv, Vouched, Unpublished
<1> QED BY <1>2, <1>3, <1>4 DEF SlotInv

LEMMA ResetSafe ==
  ASSUME SlotInv, PowerLoss \/ SoftwareReset
  PROVE  SlotInv'
<1>1. budget' \in 0 .. MaxFaults
  BY Spending DEF SlotInv, TypeInv, PowerLoss, SoftwareReset
<1>2. Down("recover") \/ Down("recover_boot")
  BY DEF PowerLoss, SoftwareReset
<1> QED BY <1>1, <1>2, DownSafe

(* The recovery finishes an update only with the header of a whole image   *)
(* newer than what runs.                                                   *)
LEMMA RecoverSafe ==
  ASSUME SlotInv, Recover
  PROVE  /\ SlotInv'
         /\ journal'.state = "PENDING_ACTIVATION" => SlotImage' > active.version
         /\ journal'.state # "PENDING_ACTIVATION" => UNCHANGED flash
<1>1. /\ mode = "off" /\ spc \in {"recover", "recover_boot"} /\ spc' \in {"start", "start_boot"}
      /\ journal' = [journal EXCEPT !.state = Recovered]
      /\ flash' = IF Recovered = "PENDING_ACTIVATION"
                  THEN [flash EXCEPT ![Phrases] = journal.header] ELSE flash
      /\ UNCHANGED <<tester, toServer, toTester, mode, req, session, security, ctx, jfault,
                     active, unlocker, source, budget>>
  BY DEF Recover, link, history
<1>2. /\ Recovered \in States /\ Recovered \notin Updating
      /\ Recovered = "PENDING_ACTIVATION" => ImageIn(flash, journal.header) > active.version
      /\ Recovered \in Published => Recovered = "PENDING_ACTIVATION"
  BY ImageWithIs DEF Recovered, SlotInv, TypeInv, Journals, States, Updating, Published
<1>3. /\ journal' \in Journals /\ journal'.header = journal.header /\ journal'.state = Recovered
      /\ journal.header \in Content
  BY <1>1, <1>2 DEF SlotInv, TypeInv, Journals
<1>4. active.version > 0 /\ active.version \in Nat /\ flash \in [1 .. Phrases -> Content]
  BY Running DEF SlotInv, TypeInv
<1>5. Cleared /\ ~Unpublished'
  BY <1>1, Defaults DEF SlotInv, Placed, Cleared, Unpublished
<1>6. flash' \in [1 .. Phrases -> Content]
  BY <1>1, <1>3, <1>4
<1>7. TypeInv'
  BY <1>1, <1>3, <1>6 DEF SlotInv, TypeInv
<1>8. Placed' /\ Inside' /\ Agreed'
  BY <1>1, <1>2, <1>3 DEF SlotInv, Placed, Inside, Agreed, Cleared, Between, EraseMid, VerifyMid
<1>9. CASE Recovered = "PENDING_ACTIVATION"
  <2>1. Header' = journal.header /\ \A p \in Payload : flash'[p] = flash[p]
    BY <1>1, <1>4, <1>9, Sizes DEF Header
  <2>2. SlotImage' = ImageIn(flash, journal.header)
    <3>1. SlotImage' = ImageIn(flash', journal.header)
      BY <2>1, ImageWithIs DEF Header
    <3> QED BY <2>1, <3>1, ImageOfPayload
  <2>3. SlotImage' > active.version
    BY <1>2, <1>9, <2>2
  <2>4. SlotImage' # 0
    <3>1. ImageIn(flash, journal.header) \in Versions \cup {0}
      BY ImageInIs
    <3> QED BY <1>4, <2>2, <2>3, <3>1, Sizes
  <2>5. Vouched'
    BY <1>1, <1>3, <1>5, <2>1, <2>3, <2>4, Defaults DEF Vouched, HeaderVouches, Cleared
  <2> QED BY <1>3, <1>7, <1>8, <1>9, <2>3, <2>5 DEF SlotInv
<1>10. CASE Recovered # "PENDING_ACTIVATION"
  <2>1. UNCHANGED flash
    BY <1>1, <1>10
  <2>2. Vouched'
    BY <1>1, <1>2, <1>3, <1>5, <1>10, <2>1, SlotKept, Defaults DEF SlotInv, Vouched, Cleared
  <2> QED BY <1>3, <1>7, <1>8, <1>10, <2>1, <2>2 DEF SlotInv
<1> QED BY <1>9, <1>10

(* The slots change roles: the old image is whole in the slot it leaves.   *)
LEMMA StartUpSafe ==
  ASSUME SlotInv, StartUp
  PROVE  /\ SlotInv'
         /\ journal.state = "PENDING_ACTIVATION" =>
              SlotImage' = active.version /\ active'.version = SlotImage
         /\ journal.state # "PENDING_ACTIVATION" => UNCHANGED durable
<1>1. /\ mode = "off" /\ spc \in {"start", "start_boot"} /\ mode' \in {"app", "boot"}
      /\ spc' = "idle" /\ toServer' = << >>
      /\ UNCHANGED <<tester, toTester, req, session, security, ctx, jfault, unlocker, source, budget>>
  BY DEF StartUp, history
<1>2. Cleared /\ journal.state \notin Updating /\ req.sid = "none" /\ req = NoRequest
      /\ ~ctx.download /\ ~ctx.erased /\ ~ctx.complete
  BY <1>1, Defaults DEF SlotInv, Placed, Inside, Between, Cleared
<1>3. CASE journal.state # "PENDING_ACTIVATION"
  <2>1. UNCHANGED <<journal, flash, active>>
    BY <1>3 DEF StartUp, durable
  <2>2. TypeInv'
    BY <1>1, <2>1 DEF SlotInv, TypeInv, MailboxOK
  <2>3. Placed' /\ Inside' /\ Agreed'
    BY <1>1, <1>2, <2>1 DEF Placed, Inside, Agreed, Cleared, Between, EraseMid, VerifyMid, Updating
  <2>4. Vouched'
    BY <1>1, <1>2, <1>3, <2>1, SlotKept DEF SlotInv, Vouched, Unpublished
  <2> QED BY <1>3, <2>1, <2>2, <2>3, <2>4 DEF SlotInv, durable
<1>4. CASE journal.state = "PENDING_ACTIVATION"
  <2>1. /\ active' = [version |-> SlotImage, trial |-> TRUE]
        /\ flash' = [p \in 1 .. Phrases |-> Phrase(active.version, p)]
        /\ journal' = [journal EXCEPT !.state = "IDLE"]
    BY <1>4 DEF StartUp
  <2>2. active.version \in Versions /\ active.version \in Nat /\ active.version > 0
        /\ journal \in Journals
    BY Running DEF SlotInv, TypeInv
  <2>3. SlotImage > active.version /\ SlotImage \in Versions
    <3>1. SlotImage > active.version
      BY <1>4 DEF SlotInv, Vouched
    <3>2. SlotImage \in Versions \cup {0}
      BY ImageWithIs, ImageInIs
    <3> QED BY <2>2, <3>1, <3>2, Sizes
  <2>4. flash' \in [1 .. Phrases -> Content]
    BY <2>1, <2>2, PhraseIs
  <2>5. Whole(flash', flash'[Phrases], active.version)
    BY <2>1, Sizes DEF Whole
  <2>6. SlotImage' = active.version
    BY <2>2, <2>5, ImageWithIs, ImageInIs
  <2>7. journal' \in Journals /\ journal'.state = "IDLE"
    BY <2>1, <2>2 DEF Journals, States
  <2>8. TypeInv'
    BY <1>1, <2>1, <2>3, <2>4, <2>7 DEF SlotInv, TypeInv, MailboxOK
  <2>9. Placed' /\ Inside' /\ Agreed'
    BY <1>1, <1>2, <2>7 DEF Placed, Inside, Agreed, Cleared, Between, EraseMid, VerifyMid, Updating
  <2>10. HeaderVouches' /\ ~Unpublished'
    BY <1>1, <1>2, <2>2, <2>6 DEF HeaderVouches, Unpublished
  <2>11. Vouched'
    BY <1>1, <1>2, <2>7, <2>10 DEF Vouched, Published
  <2> QED BY <1>4, <2>1, <2>6, <2>8, <2>9, <2>11 DEF SlotInv
<1> QED BY <1>3, <1>4
-----------------------------------------------------------------------------
(* THE INVARIANT                                                           *)

LEMMA InitSafe ==
  ASSUME Init
  PROVE  SlotInv
<1>1. /\ 0 \in Runs /\ 0 \in Values /\ 0 \in 0 .. Blocks /\ MaxFaults \in 0 .. MaxFaults
      /\ 1 \in Versions
  BY SizesAssumption, BlockCount DEF Runs, Values
<1>2. FlasherOK(tester)
  BY <1>1 DEF Init, FlasherOK, Points, Ended, Preparing
<1>3. MailboxOK(toServer) /\ toTester \in Seq(Answers) /\ RequestOK(req) /\ ContextOK(ctx)
  BY Defaults DEF Init, MailboxOK
<1>4. /\ journal \in Journals /\ flash \in [1 .. Phrases -> Content]
      /\ active \in [version : Versions, trial : BOOLEAN]
  BY <1>1, Defaults DEF Init, Journals, States
<1>5. /\ security \in [seed : {0} \cup Seeds, issued : BOOLEAN, unlocked : BOOLEAN]
      /\ source \in [run : Runs, img : Versions \cup {0}, opt : Options \cup {"none"}]
      /\ session \in BOOLEAN /\ jfault \in BOOLEAN /\ unlocker \in Runs /\ budget \in 0 .. MaxFaults
  BY <1>1 DEF Init, Locked
<1>6. TypeInv
  BY <1>2, <1>3, <1>4, <1>5 DEF TypeInv
<1>7. Placed /\ Inside /\ Agreed
  BY Defaults DEF Init, Placed, Inside, Agreed, Cleared, Between, EraseMid, VerifyMid
<1>8. Header = Blank
  BY Sizes DEF Init, Header
<1>9. Vouched
  BY <1>8, SlotBlank, Defaults DEF Init, Vouched, HeaderVouches, Header, Published
<1> QED BY <1>6, <1>7, <1>9 DEF SlotInv

LEMMA ServerSafe ==
  ASSUME SlotInv, Server
  PROVE  SlotInv'
<1>1. CASE Erasing
  BY <1>1, EraseStartSafe, EraseBeginSafe, EraseMarkSafe, EraseHeaderSafe, EraseSectorPendingSafe,
     EraseSectorSafe, EraseReadySafe, EraseDoneSafe DEF Erasing
<1>2. CASE Verifying
  BY <1>2, VerifyStartSafe, VerifyMarkSafe, ValidateSafe, PublishSafe,
     ReadbackRejectedSafe, SealVerifiedSafe, SealPendingSafe, VerifyDoneSafe DEF Verifying
<1>3. CASE Download \/ Transfer \/ TransferExit
  BY <1>3, DownloadSafe, TransferSafe, TransferExitSafe
<1>4. CASE \/ Fetch \/ AppHandles \/ SessionControl \/ GenerateSeed \/ ValidateKey
           \/ ReadIdentifier \/ EcuReset
  BY <1>4, FetchSafe, AppHandlesSafe, SessionControlSafe, GenerateSeedSafe, ValidateKeySafe,
     ReadIdentifierSafe, EcuResetSafe
<1> QED BY <1>1, <1>2, <1>3, <1>4 DEF Server

LEMMA NextSafe ==
  ASSUME SlotInv, [Next]_vars
  PROVE  SlotInv'
<1>1. ASSUME NEW v \in Versions, NEW o \in Options, Start(v, o)
      PROVE  SlotInv'
  BY <1>1, StartSafe
<1>2. CASE Tester
  BY <1>2, TesterSendsSafe, TesterAnswersSafe DEF Tester
<1>3. CASE Server
  BY <1>3, ServerSafe
<1>4. CASE Restart
  BY <1>4, ResetSafe, RecoverSafe, StartUpSafe DEF Restart
<1>5. CASE Confirm \/ TransferTimeout \/ PowerLoss \/ LoseRequest \/ LoseAnswer
  BY <1>5, ConfirmSafe, TransferTimeoutSafe, ResetSafe, LossSafe
<1>6. CASE UNCHANGED vars
  <2>1. UNCHANGED <<server, durable, history>> /\ UNCHANGED <<tester, toServer, toTester, budget>>
    BY <1>6 DEF vars, link
  <2> QED BY <2>1, ServerKept DEF SlotInv, TypeInv
<1> QED BY <1>1, <1>2, <1>3, <1>4, <1>5, <1>6 DEF Next

(* The invariant holds in every state of every run: in particular nothing  *)
(* the code may do between two requests, no cut, loss or failed write,     *)
(* leads the server or the slot out of it.                                 *)
THEOREM SlotInvariance == Spec => []SlotInv
<1> QED BY InitSafe, NextSafe, PTL DEF Spec

LEMMA SlotInvImplies ==
  ASSUME SlotInv
  PROVE  TypeOK /\ HeaderVouches /\ DownloadIsProgramming
<1>1. /\ tester.pc \in Points /\ tester.waiting \in BOOLEAN
      /\ tester.run \in 0 .. MaxRuns /\ tester.sent \in 0 .. Blocks
  BY DEF SlotInv, TypeInv, FlasherOK, Runs
<1>2. Len(toServer) <= 1 /\ \A i \in DOMAIN toServer : toServer[i].sid \in Sids
  <2>1. MailboxOK(toServer)
    BY DEF SlotInv, TypeInv
  <2>2. CASE toServer = << >>
    BY <2>2
  <2>3. ASSUME NEW m \in Requests, toServer = <<m>>
        PROVE  Len(toServer) <= 1 /\ \A i \in DOMAIN toServer : toServer[i].sid \in Sids
    <3>1. m.sid \in Sids
      BY DEF Requests
    <3> QED BY <2>3, <3>1
  <2> QED BY <2>1, <2>2, <2>3 DEF MailboxOK
<1>3. \A i \in DOMAIN toTester : toTester[i].sid \in Sids
  <2>1. toTester \in Seq(Answers)
    BY DEF SlotInv, TypeInv
  <2>2. \A i \in DOMAIN toTester : toTester[i] \in Answers
    BY <2>1
  <2> QED BY <2>2 DEF Answers
<1>4. mode \in {"app", "boot", "off"} /\ req.sid \in Sids
  BY DEF SlotInv, TypeInv, Placed, RequestOK, Requests
<1>5. /\ {session, jfault, security.issued, security.unlocked, active.trial} \subseteq BOOLEAN
      /\ active.version \in Versions /\ journal.state \in States
      /\ unlocker \in 0 .. MaxRuns /\ budget \in 0 .. MaxFaults
  BY DEF SlotInv, TypeInv, Journals, Runs
<1>6. /\ {ctx.download, ctx.erased, ctx.complete, ctx.verified} \subseteq BOOLEAN
      /\ ctx.received \in 0 .. SlotSize /\ ctx.programmed \in 0 .. SlotSize
      /\ ctx.bsc \in 0 .. Counter - 1 /\ Len(ctx.buffer) < PhraseSize
  <2>1. ContextOK(ctx)
    BY DEF SlotInv, TypeInv
  <2> QED BY <2>1 DEF ContextOK
<1>7. TypeOK
  BY <1>1, <1>2, <1>3, <1>4, <1>5, <1>6 DEF TypeOK
<1> QED BY <1>7 DEF SlotInv, Vouched, Agreed, DownloadIsProgramming

(* Every variable has its type: no counter of the transfer leaves its      *)
(* range, the phrase buffer holds less than a phrase and the mailbox at    *)
(* most one request, for every size of slot, phrase and block.             *)
THEOREM TypeCorrect == Spec => []TypeOK
<1> QED BY SlotInvariance, SlotInvImplies, PTL

(* A header in the slot heads the whole payload it names, at every cut of  *)
(* the erase, the transfer, the publication and the recovery.              *)
THEOREM HeaderAlwaysVouches == Spec => []HeaderVouches
<1> QED BY SlotInvariance, SlotInvImplies, PTL

(* Between two requests the server holds an open download exactly when the *)
(* journal says PROGRAMMING.                                               *)
THEOREM DownloadAgrees == Spec => []DownloadIsProgramming
<1> QED BY SlotInvariance, SlotInvImplies, PTL
-----------------------------------------------------------------------------
(* THE UPDATE AS ONE ATOMIC CHANGE OF THE SLOT                             *)

(* Where neither the slot nor what runs is touched, a reader sees nothing. *)
Untouched == UNCHANGED flash /\ active'.version = active.version

LEMMA ReaderSeesNothing ==
  ASSUME Untouched
  PROVE  UNCHANGED <<SlotImage, active.version>>
BY SlotKept DEF Untouched

LEMMA Untouching ==
  /\ (\E v \in Versions, o \in Options : Start(v, o)) => Untouched
  /\ Tester \/ Confirm \/ TransferTimeout \/ PowerLoss \/ SoftwareReset \/ LoseRequest \/ LoseAnswer
       => Untouched
  /\ Fetch \/ AppHandles \/ SessionControl \/ GenerateSeed \/ ValidateKey \/ ReadIdentifier
     \/ Download \/ TransferExit \/ EcuReset => Untouched
  /\ EraseStart \/ EraseBegin \/ EraseMark \/ EraseSectorPending \/ EraseReady \/ EraseDone
       => Untouched
  /\ VerifyStart \/ VerifyMark \/ Validate \/ SealVerified \/ SealPending \/ VerifyDone
       => Untouched
  /\ UNCHANGED vars => Untouched
<1>1. (\E v \in Versions, o \in Options : Start(v, o)) => Untouched
  BY DEF Start, durable, Untouched
<1>2. Tester => Untouched
  BY DEF Tester, TesterSends, TesterReceives, TesterTimesOut, TesterGivesUp, durable, Untouched
<1>3. Confirm => Untouched
  BY DEF Confirm, Untouched
<1>4. TransferTimeout \/ PowerLoss \/ SoftwareReset \/ LoseRequest \/ LoseAnswer => Untouched
  BY DEF TransferTimeout, PowerLoss, SoftwareReset, Down, LoseRequest, LoseAnswer, durable, Untouched
<1>5. Fetch \/ AppHandles \/ SessionControl \/ GenerateSeed \/ ValidateKey \/ ReadIdentifier => Untouched
  BY DEF Fetch, AppHandles, SessionControl, GenerateSeed, ValidateKey, ReadIdentifier, durable, Untouched
<1>6. Download \/ TransferExit \/ EcuReset => Untouched
  BY DEF Download, TransferExit, EcuReset, Refused, durable, Untouched
<1>7. EraseStart \/ EraseSectorPending \/ EraseDone => Untouched
  BY DEF EraseStart, EraseSectorPending, EraseDone, Refused, durable, Untouched
<1>8. EraseBegin \/ EraseMark \/ EraseReady => Untouched
  BY DEF EraseBegin, EraseMark, EraseReady, Reach, Journalled, Untouched
<1>9. VerifyMark \/ SealVerified \/ SealPending => Untouched
  BY DEF VerifyMark, SealVerified, SealPending, Reach, Journalled, Untouched
<1>10. VerifyStart \/ Validate \/ VerifyDone => Untouched
  BY DEF VerifyStart, Validate, VerifyDone, Refused, durable, Untouched
<1>11. UNCHANGED vars => Untouched
  BY DEF vars, durable, Untouched
<1> QED BY <1>1, <1>2, <1>3, <1>4, <1>5, <1>6, <1>7, <1>8, <1>9, <1>10, <1>11

(* A slot without a header before and after is seen as empty throughout.   *)
LEMMA StaysEmpty ==
  ASSUME Header = Blank, UNCHANGED <<Header, active>>
  PROVE  UNCHANGED <<SlotImage, active.version>>
BY SlotBlank

LEMMA Wiping ==
  ASSUME SlotInv, EraseHeader \/ ReadbackRejected
  PROVE  Promise!Wipe \/ UNCHANGED <<SlotImage, active.version>>
<1>1. flash \in [1 .. Phrases -> Content] /\ UNCHANGED active
  BY DEF SlotInv, TypeInv, EraseHeader, ReadbackRejected
<1>2. flash' = flash \/ flash' = [flash EXCEPT ![Phrases] = Blank]
  BY DEF EraseHeader, HeaderErased, ReadbackRejected, FlashFails
<1>3. CASE flash' = flash
  BY <1>1, <1>3, SlotKept
<1>4. CASE flash' = [flash EXCEPT ![Phrases] = Blank]
  <2>1. Header' = Blank
    BY <1>1, <1>4, Sizes DEF Header
  <2> QED BY <1>1, <2>1, SlotBlank DEF Promise!Wipe
<1> QED BY <1>2, <1>3, <1>4

LEMMA ErasingSector ==
  ASSUME SlotInv, EraseSector
  PROVE  UNCHANGED <<SlotImage, active.version>>
<1>1. flash \in [1 .. Phrases -> Content] /\ UNCHANGED active /\ spc = "wipe_sector"
  BY DEF SlotInv, TypeInv, EraseSector
<1>2. req.arg + 1 \in Payload /\ Header = Blank
  BY <1>1 DEF SlotInv, Inside, Vouched, Unpublished
<1>3. flash' = flash \/ flash' = [flash EXCEPT ![req.arg + 1] = Blank]
  BY DEF EraseSector, FlashFails
<1>4. UNCHANGED Header
  BY <1>1, <1>2, <1>3, Sizes DEF Header
<1> QED BY <1>1, <1>2, <1>4, StaysEmpty

LEMMA Transferring ==
  ASSUME SlotInv, Transfer
  PROVE  UNCHANGED <<SlotImage, active.version>>
<1>1. UNCHANGED active
  BY DEF Transfer, Refused, durable
<1>2. CASE Refused(TransferRefusal)
  BY <1>2, SlotKept DEF Refused, durable
<1>3. CASE TransferRefusal = "ok" /\ ~Refused(TransferRefusal)
  <2>1. ContextOK(ctx) /\ ctx.download /\ ctx.erased /\ ~ctx.complete
    BY <1>3, Admitted DEF SlotInv, TypeInv, ContextOK
  <2>2. Header = Blank
    BY <2>1 DEF SlotInv, Vouched, Unpublished
  <2>3. UNCHANGED Header
    <3>1. /\ \A m \in 0 .. Flushes : Flushed(Gathered, m)[Phrases] = flash[Phrases]
          /\ Flushes \in Nat
      BY <1>3, FlushIs, FlushCounts DEF SlotInv, Transfer
    <3>2. \/ flash' = Flushed(Gathered, Flushes)
          \/ \E i \in 1 .. Flushes : flash' \in {Flushed(Gathered, i - 1), Flushed(Gathered, i)}
      BY <1>3 DEF Transfer, Gathered, Flushes
    <3>3. \E m \in 0 .. Flushes : flash' = Flushed(Gathered, m)
      BY <3>1, <3>2
    <3> QED BY <3>1, <3>3 DEF Header
  <2> QED BY <1>1, <2>2, <2>3, StaysEmpty
<1> QED BY <1>2, <1>3 DEF Transfer

LEMMA Publishing ==
  ASSUME SlotInv, Publish
  PROVE  Promise!Publish \/ UNCHANGED <<SlotImage, active.version>>
<1>1. /\ flash \in [1 .. Phrases -> Content] /\ UNCHANGED active /\ spc = "publish"
      /\ active.version \in Nat /\ active.version > 0
  BY Running DEF SlotInv, TypeInv, Publish
<1>2. Header = Blank /\ ImageIn(flash, ctx.staged) > active.version
  BY <1>1, ImageWithIs DEF SlotInv, Vouched, Unpublished
<1>3. ImageIn(flash, ctx.staged) \in {v \in Versions : v > active.version}
  BY <1>1, <1>2, ImageInIs, Sizes
<1>4. \/ flash' \in {flash, [flash EXCEPT ![Phrases] = Blank]}
      \/ flash' = [flash EXCEPT ![Phrases] = ctx.staged]
  BY DEF Publish, FlashFails
<1>5. CASE flash' \in {flash, [flash EXCEPT ![Phrases] = Blank]}
  <2>1. UNCHANGED Header
    BY <1>1, <1>2, <1>5, Sizes DEF Header
  <2> QED BY <1>1, <1>2, <2>1, StaysEmpty
<1>6. CASE flash' = [flash EXCEPT ![Phrases] = ctx.staged]
  <2>1. Header' = ctx.staged /\ \A p \in Payload : flash'[p] = flash[p]
    BY <1>1, <1>6, Sizes DEF Header
  <2>2. SlotImage' = ImageIn(flash', ctx.staged)
    BY <2>1, ImageWithIs DEF Header
  <2>3. ImageIn(flash', ctx.staged) = ImageIn(flash, ctx.staged)
    BY <2>1, ImageOfPayload
  <2>4. SlotImage = 0
    BY <1>2, SlotBlank
  <2> QED BY <1>1, <1>3, <2>2, <2>3, <2>4 DEF Promise!Publish
<1> QED BY <1>4, <1>5, <1>6

(* A recovery either publishes what a cut kept from being published, or    *)
(* finds it published.                                                     *)
LEMMA Recovering ==
  ASSUME SlotInv, Recover
  PROVE  Promise!Publish \/ UNCHANGED <<SlotImage, active.version>>
<1>1. /\ flash \in [1 .. Phrases -> Content] /\ UNCHANGED active
      /\ active.version \in Nat /\ active.version > 0
  BY Running DEF SlotInv, TypeInv, Recover
<1>2. CASE Recovered # "PENDING_ACTIVATION"
  <2>1. flash' = flash
    BY <1>2 DEF Recover
  <2> QED BY <1>1, <2>1, SlotKept
<1>3. CASE Recovered = "PENDING_ACTIVATION"
  <2>1. flash' = [flash EXCEPT ![Phrases] = journal.header]
    BY <1>3 DEF Recover
  <2>2. journal.state \in Published /\ ImageIn(flash, journal.header) > active.version
    BY <1>3, ImageWithIs DEF Recovered, Published, Updating
  <2>3. Header = Blank \/ Header = journal.header
    BY <2>2 DEF SlotInv, Vouched
  <2>4. CASE Header = journal.header
    <3>1. flash' = flash
      BY <1>1, <2>1, <2>4 DEF Header
    <3> QED BY <1>1, <3>1, SlotKept
  <2>5. CASE Header = Blank
    <3>1. Header' = journal.header /\ \A p \in Payload : flash'[p] = flash[p]
      BY <1>1, <2>1, Sizes DEF Header
    <3>2. SlotImage' = ImageIn(flash', journal.header)
      BY <3>1, ImageWithIs DEF Header
    <3>3. ImageIn(flash', journal.header) = ImageIn(flash, journal.header)
      BY <3>1, ImageOfPayload
    <3>4. ImageIn(flash, journal.header) \in {v \in Versions : v > active.version}
      BY <1>1, <2>2, ImageInIs, Sizes
    <3>5. SlotImage = 0
      BY <2>5, SlotBlank
    <3> QED BY <1>1, <3>2, <3>3, <3>4, <3>5 DEF Promise!Publish
  <2> QED BY <2>3, <2>4, <2>5
<1> QED BY <1>2, <1>3

LEMMA Activating ==
  ASSUME SlotInv, StartUp
  PROVE  Promise!Activate \/ UNCHANGED <<SlotImage, active.version>>
<1>1. CASE journal.state = "PENDING_ACTIVATION"
  <2>1. SlotImage' = active.version /\ active'.version = SlotImage
    BY <1>1, StartUpSafe
  <2>2. SlotImage > active.version
    BY <1>1 DEF SlotInv, Vouched
  <2> QED BY <2>1, <2>2 DEF Promise!Activate
<1>2. CASE journal.state # "PENDING_ACTIVATION"
  <2>1. UNCHANGED <<flash, active>>
    BY <1>2, StartUpSafe DEF durable
  <2> QED BY <2>1, SlotKept
<1> QED BY <1>1, <1>2

LEMMA PromiseStep ==
  ASSUME SlotInv, [Next]_vars
  PROVE  [Promise!Next]_<<SlotImage, active.version>>
<1>1. CASE EraseHeader \/ ReadbackRejected
  BY <1>1, Wiping DEF Promise!Next
<1>2. CASE EraseSector \/ Transfer
  BY <1>2, ErasingSector, Transferring
<1>3. CASE Publish \/ Recover
  BY <1>3, Publishing, Recovering DEF Promise!Next
<1>4. CASE StartUp
  BY <1>4, Activating DEF Promise!Next
<1>5. CASE Untouched
  BY <1>5, ReaderSeesNothing
<1>6. CASE Server
  BY <1>1, <1>2, <1>3, <1>5, <1>6, Untouching DEF Server, Erasing, Verifying
<1>7. CASE Restart
  BY <1>3, <1>4, <1>5, <1>7, Untouching DEF Restart
<1> QED BY <1>5, <1>6, <1>7, Untouching DEF Next

(* The detailed update implements the atomic one: whatever is cut, lost or *)
(* refused, a reader of the slot sees it emptied, then a whole image newer *)
(* than what runs, then the slots exchanged.                               *)
THEOREM UpdateAtomic == Spec => UpdateIsAtomic
<1>1. ASSUME Init PROVE Promise!Init
  <2>1. Header = Blank /\ active.version \in Versions
    BY <1>1, Sizes, SizesAssumption DEF Init, Header
  <2> QED BY <2>1, SlotBlank DEF Promise!Init
<1> QED BY <1>1, SlotInvariance, PromiseStep, PTL DEF Spec, UpdateIsAtomic, Promise!Spec
=============================================================================
