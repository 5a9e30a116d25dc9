---------------------------- MODULE FlashSession ----------------------------
(***************************************************************************)
(* A firmware update as seen from the wire: the gateway's V2UdsFlasher     *)
(* (flasher_v2.py over uds.py), the diagnostic messages under way, and the *)
(* programming server of the bootloader (boot_uds.c, boot_programming.c,   *)
(* boot_security.c) down to the phrases of the slot it writes.             *)
(*                                                                         *)
(* Messages are whole UDS messages; whether a message arrives whole or not *)
(* at all is the subject of module IsoTp.  What trial boots do with the    *)
(* image afterwards is the subject of BootCore.                            *)
(***************************************************************************)
EXTENDS Naturals, Sequences

CONSTANTS
  Versions,     \* versions of images
  Options,      \* FlashOptions a run may be started with
  Phrases,      \* phrases of a slot; the last one is the image header
  PhraseSize,   \* bytes of a phrase
  BlockSize,    \* payload bytes of a TransferData request
  Counter,      \* values of the block sequence counter (256 in the code)
  Seeds,        \* seeds the server may issue
  MaxRuns,      \* bound: how often the flasher is started
  MaxFaults     \* bound: losses, cuts, late answers and failed writes

ASSUME SizesAssumption ==
  /\ Versions \subseteq Nat \ {0} /\ 1 \in Versions
  /\ Options \subseteq {"none", "wrong_crc", "wrong_sequence", "skip_security", "stop"}
  /\ Phrases \in Nat \ {0, 1} /\ PhraseSize \in Nat \ {0} /\ BlockSize \in Nat \ {0}
  /\ Counter \in Nat \ {0, 1} /\ Seeds # {}
  /\ MaxRuns \in Nat /\ MaxFaults \in Nat

VARIABLES
  tester,     \* the flasher process: program point, whether it waits, what it flashes
  toServer,   \* the receive mailbox of the server: at most one message
  toTester,   \* messages under way to the flasher, in order
  mode,       \* what runs on the device: "app", "boot", or "off" during a reset
  spc,        \* where the server is inside the request it works on
  req,        \* the request it works on
  session,    \* the programming session is active
  security,   \* the seed, whether one is issued, whether the server is unlocked
  ctx,        \* BootProgramming_Context and the phrase buffer
  jfault,     \* BootUpdate_StorageFault
  journal,    \* durable: state of the update, its cached image header
  flash,      \* durable: what the phrases of the inactive slot hold
  active,     \* durable: version of the slot that runs, whether it is on trial
  unlocker,   \* history: run of the flasher whose key unlocked the server
  source,     \* history: what the run that requested the download flashes
  budget      \* faults left

link    == <<toServer, toTester>>
server  == <<mode, spc, req, session, security, ctx, jfault>>
durable == <<journal, flash, active>>
history == <<unlocker, source>>
vars    == <<tester, link, server, durable, history, budget>>
-----------------------------------------------------------------------------
(* IMAGES                                                                  *)

(* Byte i of image v is <<v, i>>; a byte damaged on purpose belongs to no  *)
(* image.  A phrase that holds no image data is Blank.                     *)
Blank    == << >>
SlotSize == Phrases * PhraseSize
Payload  == 1 .. Phrases - 1

Image(v)     == [i \in 1 .. SlotSize |-> <<v, i>>]
Phrase(v, p) == SubSeq(Image(v), (p - 1) * PhraseSize + 1, p * PhraseSize)

(* BootImage_Validate: the image a header names, if its payload is there.  *)
ImageWith(header) ==
  IF \E v \in Versions : header = Phrase(v, Phrases) /\ \A p \in Payload : flash[p] = Phrase(v, p)
  THEN CHOOSE v \in Versions : header = Phrase(v, Phrases)
  ELSE 0

(* BootImage_LoadInfo: the image the slot holds for a reader, 0 for none.  *)
SlotImage == ImageWith(flash[Phrases])

(* What a run sends: its image, one payload byte of the first block        *)
(* altered with wrong_crc.                                                 *)
Stream(run) ==
  [i \in 1 .. SlotSize |-> IF run.opt = "wrong_crc" /\ i = 1 THEN <<0, i>> ELSE <<run.img, i>>]
Blocks == (SlotSize + BlockSize - 1) \div BlockSize
Block(run, b) ==
  SubSeq(Stream(run), (b - 1) * BlockSize + 1, IF b < Blocks THEN b * BlockSize ELSE SlotSize)

Updating == {"PREPARING", "ERASING", "DOWNLOAD_READY", "PROGRAMMING",
             "TRANSFER_COMPLETE", "VERIFYING", "VERIFIED"}
Successor ==
  [PREPARING |-> "ERASING", ERASING |-> "DOWNLOAD_READY",
   DOWNLOAD_READY |-> "PROGRAMMING", PROGRAMMING |-> "TRANSFER_COMPLETE",
   TRANSFER_COMPLETE |-> "VERIFYING", VERIFYING |-> "VERIFIED",
   VERIFIED |-> "PENDING_ACTIVATION"]

TransitionAllowed(from, to) ==
  \/ from = "PENDING_ACTIVATION" /\ to = "IDLE"
  \/ to = "PREPARING" /\ from \in {"IDLE", "ABORTED", "PENDING_ACTIVATION"}
  \/ to = "ABORTED" /\ from # "IDLE"
  \/ from \in Updating /\ to = Successor[from]

NoRequest  == [sid |-> "none", sub |-> 0, arg |-> 0, run |-> 0]
Locked     == [seed |-> 0, issued |-> FALSE, unlocked |-> FALSE]
NoDownload == [download |-> FALSE, erased |-> FALSE, complete |-> FALSE, verified |-> FALSE,
               received |-> 0, programmed |-> 0, buffer |-> << >>, bsc |-> 1, staged |-> Blank]

(* Faulty variant: forgets the phrase buffer.                              *)
AbandonedKeepsBuffer == [NoDownload EXCEPT !.staged = ctx.staged, !.buffer = ctx.buffer]

(* BootProgramming_Abort leaves the staged header alone.                   *)
Abandoned == [NoDownload EXCEPT !.staged = ctx.staged]

Init ==
  /\ tester = [pc |-> "off", waiting |-> FALSE, run |-> 0, img |-> 0,
               opt |-> "none", seed |-> 0, sent |-> 0]
  /\ toServer = << >> /\ toTester = << >>
  /\ mode = "app" /\ spc = "idle" /\ req = NoRequest
  /\ session = FALSE /\ security = Locked /\ ctx = NoDownload /\ jfault = FALSE
  /\ journal = [state |-> "ABORTED", header |-> Blank]
  /\ flash = [p \in 1 .. Phrases |-> Blank]
  /\ active = [version |-> 1, trial |-> FALSE]
  /\ unlocker = 0 /\ source = [run |-> 0, img |-> 0, opt |-> "none"]
  /\ budget = MaxFaults

Spend(n) == budget >= n /\ budget' = budget - n
-----------------------------------------------------------------------------
(* THE FLASHER                                                             *)

Ended == {"off", "done", "failed", "interrupted"}

(* A new process: it parses the image and opens a socket of its own.       *)
Start(v, o) ==
  /\ tester.pc \in Ended /\ tester.run < MaxRuns
  /\ tester' = [pc |-> "session", waiting |-> FALSE, run |-> tester.run + 1,
                img |-> v, opt |-> o, seed |-> 0, sent |-> 0]
  /\ toTester' = << >>
  /\ UNCHANGED <<toServer, server, durable, history, budget>>

(* The request of each program point.  The five status reads before the    *)
(* erase are one request, and so are the two of the final poll.            *)
Request ==
  LET Message(sid, sub, arg) == [sid |-> sid, sub |-> sub, arg |-> arg, run |-> tester.run]
      index == tester.sent + 1
      seq   == IF tester.opt = "wrong_sequence" /\ index = 2 THEN index + 1 ELSE index
  IN  CASE tester.pc \in {"session", "session2"} -> Message("session", 0, 0)
        [] tester.pc = "seed"     -> Message("security", "seed", 0)
        [] tester.pc = "key"      -> Message("security", "key", tester.seed)
        [] tester.pc \in {"status", "poll"} -> Message("did", 0, 0)
        [] tester.pc = "erase"    -> Message("routine", "erase", 0)
        [] tester.pc = "download" -> Message("download", 0, [img |-> tester.img, opt |-> tester.opt])
        [] tester.pc = "blocks"   -> Message("transfer", seq % Counter, Block(tester, index))
        [] tester.pc = "exit"     -> Message("exit", 0, 0)
        [] tester.pc = "verify"   -> Message("routine", "verify", 0)
        [] tester.pc = "reset"    -> Message("reset", 0, 0)

(* The mailbox keeps the newest message.  The second session request       *)
(* leaves 0.4 s after the first was answered, when the application, which  *)
(* resets after 0.1 s, is normally gone.                                   *)
TesterSends ==
  /\ tester.pc \notin Ended /\ ~tester.waiting
  /\ Spend(IF tester.pc = "session2" /\ spc = "leaving" THEN 1 ELSE 0)
  /\ toServer' = <<Request>>
  /\ tester' = [tester EXCEPT !.waiting = TRUE]
  /\ UNCHANGED <<toTester, server, durable, history>>

(* Where V2UdsFlasher goes on after an answer it accepts.                  *)
Accepted(m) ==
  LET At(pc) == [tester EXCEPT !.pc = pc, !.waiting = FALSE]
  IN  CASE tester.pc = "session"  -> At("session2")
        [] tester.pc = "session2" -> At(IF tester.opt = "skip_security" THEN "status" ELSE "seed")
        [] tester.pc = "seed"     -> [At("key") EXCEPT !.seed = m.value]
        [] tester.pc = "key"      -> At("status")
        [] tester.pc = "status"   -> At(IF ~m.value.fault /\ tester.img > m.value.version
                                        THEN "erase" ELSE "failed")
        [] tester.pc = "erase"    -> At("download")
        [] tester.pc = "download" -> At("blocks")
        [] tester.pc = "blocks"   -> [At(IF tester.opt = "stop" THEN "interrupted"
                                         ELSE IF tester.sent + 1 = Blocks THEN "exit"
                                         ELSE "blocks") EXCEPT !.sent = @ + 1]
        [] tester.pc = "exit"     -> At("verify")
        [] tester.pc = "verify"   -> At("reset")
        [] tester.pc = "reset"    -> At("poll")
        [] tester.pc = "poll"     -> At(IF m.value.version = tester.img THEN "done" ELSE "poll")

(* An error ends the run, except in the two loops that try again.          *)
Rejected ==
  [tester EXCEPT !.waiting = FALSE, !.pc = IF @ \in {"session2", "poll"} THEN @ ELSE "failed"]

(* Faulty variant: response pending is an error.                           *)
OutcomePendingFails(m) ==
  IF m.kind = "ok" /\ m.sid = Request.sid /\ m.sub = Request.sub THEN Accepted(m) ELSE Rejected

(* UdsClient._exchange: response pending of the same service keeps it      *)
(* waiting and sends nothing; an answer must echo service and parameter.   *)
Outcome(m) ==
  IF m.kind = "pending" /\ m.sid = Request.sid THEN tester
  ELSE IF m.kind = "ok" /\ m.sid = Request.sid /\ m.sub = Request.sub THEN Accepted(m)
  ELSE Rejected

TesterReceives ==
  /\ tester.waiting /\ toTester # << >>
  /\ tester' = Outcome(Head(toTester))
  /\ toTester' = Tail(toTester)
  /\ UNCHANGED <<toServer, server, durable, history, budget>>

(* IsoTpTimeoutError: nothing can come any more, or the answer is late.    *)
TesterTimesOut ==
  /\ tester.waiting /\ toTester = << >>
  /\ Spend(IF toServer = << >> /\ mode # "off" /\ spc \in {"idle", "leaving"} THEN 0 ELSE 1)
  /\ tester' = Rejected
  /\ UNCHANGED <<link, server, durable, history>>

(* The deadlines of the two loops.  Nothing changes the version any more   *)
(* when the application runs with another one.                             *)
TesterGivesUp ==
  /\ tester.pc \in {"session2", "poll"} /\ ~tester.waiting
  /\ Spend(IF tester.pc = "poll" /\ mode = "app" /\ active.version # tester.img THEN 0 ELSE 1)
  /\ tester' = [tester EXCEPT !.pc = "failed"]
  /\ UNCHANGED <<link, server, durable, history>>

Tester == TesterSends \/ TesterReceives \/ TesterTimesOut \/ TesterGivesUp
-----------------------------------------------------------------------------
(* THE SERVER                                                              *)

(* Only whole requests reach it; the next one waits in the mailbox.        *)
Fetch ==
  /\ mode # "off" /\ spc \in {"idle", "leaving"} /\ toServer # << >>
  /\ req' = Head(toServer) /\ toServer' = << >>
  /\ spc' = IF spc = "idle" THEN "handle" ELSE "handle_leaving"
  /\ UNCHANGED <<tester, toTester, mode, session, security, ctx, jfault, durable, history, budget>>

Answer(kind, value) ==
  toTester' = Append(toTester, [sid |-> req.sid, sub |-> req.sub, kind |-> kind, value |-> value])
Finish(kind, value) == Answer(kind, value) /\ spc' = "idle" /\ req' = NoRequest
Positive    == Finish("ok", 0)
Refuse(nrc) == Finish(nrc, 0)

(* Response pending, then the next stretch of the routine; the routine     *)
(* ends there when the frame does not leave.                               *)
Pending(next) ==
  \/ Spend(0) /\ Answer("pending", 0) /\ spc' = next /\ UNCHANGED req
  \/ Spend(1) /\ Refuse("72")

(* The application knows sessions and identifiers only.  A session request *)
(* is answered first and leads to a reset into the bootloader.             *)
AppHandles ==
  /\ mode = "app" /\ spc \in {"handle", "handle_leaving"}
  /\ CASE req.sid = "session" -> Answer("ok", 0)
       [] req.sid = "did"     -> Answer("ok", [fault |-> FALSE, version |-> active.version])
       [] OTHER               -> Answer("11", 0)
  /\ spc' = IF req.sid = "session" \/ spc = "handle_leaving" THEN "leaving" ELSE "idle"
  /\ req' = NoRequest
  /\ UNCHANGED <<tester, toServer, mode, session, security, ctx, jfault, durable, history, budget>>

(* AppHealth confirms a trial image.                                       *)
Confirm ==
  /\ mode = "app" /\ active.trial
  /\ active' = [active EXCEPT !.trial = FALSE]
  /\ UNCHANGED <<tester, link, server, journal, flash, history, budget>>

Handling(sid, sub) == mode = "boot" /\ spc = "handle" /\ req.sid = sid /\ req.sub = sub

(* BootJournal_Commit under save(): a failed one leaves either record and  *)
(* blocks the journal until the next reset.                                *)
Save(next, cost) ==
  \/ Spend(cost) /\ journal' = next /\ UNCHANGED jfault
  \/ Spend(1) /\ journal' \in {journal, next} /\ jfault' = TRUE

(* BootUpdate_Abort.                                                       *)
AbortJournal(cost) ==
  IF ~jfault /\ TransitionAllowed(journal.state, "ABORTED")
  THEN Save([journal EXCEPT !.state = "ABORTED"], cost)
  ELSE Spend(cost) /\ UNCHANGED <<journal, jfault>>

(* Faulty variant: leaves the journal in PROGRAMMING.                      *)
AbortDownloadInRam(cost) == Spend(cost) /\ UNCHANGED <<journal, jfault>> /\ ctx' = Abandoned

(* BootUds_AbortDownload.                                                  *)
AbortDownload(cost) ==
  /\ IF journal.state \in Updating
     THEN AbortJournal(cost)
     ELSE Spend(cost) /\ UNCHANGED <<journal, jfault>>
  /\ ctx' = Abandoned

(* A stretch that ends in one journal write.                               *)
Journalled(at, next, goOn) ==
  /\ mode = "boot" /\ spc = at
  /\ \/ /\ TransitionAllowed(journal.state, next.state)
        /\ Save(next, 0)
        /\ IF jfault' THEN Refuse("72") ELSE spc' = goOn /\ UNCHANGED <<req, toTester>>
     \/ /\ ~TransitionAllowed(journal.state, next.state)
        /\ Refuse("72")
        /\ UNCHANGED <<journal, jfault, budget>>
  /\ UNCHANGED <<tester, toServer, mode, session, security, ctx, flash, active, history>>

Reach(at, state, goOn) == Journalled(at, [journal EXCEPT !.state = state], goOn)

(* Faulty variant: an entered session keeps the authorisation.             *)
AuthorisationKept == security

AuthorisationOnEntry == Locked

(* 0x10: an entered session cancels any download and authorisation.        *)
SessionControl ==
  /\ Handling("session", 0)
  /\ session' = TRUE /\ security' = AuthorisationOnEntry
  /\ AbortDownload(0)
  /\ Positive
  /\ UNCHANGED <<tester, toServer, mode, flash, active, history>>

(* 0x27, both halves.                                                      *)
GenerateSeed ==
  /\ Handling("security", "seed")
  /\ IF ~session THEN Refuse("22") /\ UNCHANGED security
     ELSE \E s \in Seeds :
            /\ security' = [seed |-> s, issued |-> TRUE, unlocked |-> FALSE]
            /\ Finish("ok", s)
  /\ UNCHANGED <<tester, toServer, mode, session, ctx, jfault, durable, history, budget>>

ValidateKey ==
  LET fits == security.issued /\ req.arg = security.seed
  IN  /\ Handling("security", "key")
      /\ IF ~session THEN Refuse("22") /\ UNCHANGED <<security, unlocker>>
         ELSE /\ security' = [security EXCEPT !.issued = FALSE, !.unlocked = fits]
              /\ IF fits THEN Positive ELSE Refuse("35")
              /\ unlocker' = IF fits THEN req.run ELSE unlocker
      /\ UNCHANGED <<tester, toServer, mode, session, ctx, jfault, durable, source, budget>>

ReadIdentifier ==
  /\ Handling("did", 0)
  /\ Finish("ok", [fault |-> jfault, version |-> active.version])
  /\ UNCHANGED <<tester, toServer, mode, session, security, ctx, jfault, durable, history, budget>>

(* access_check.                                                           *)
Access ==
  CASE ~session           -> "22"
    [] ~security.unlocked -> "33"
    [] jfault             -> "72"
    [] OTHER              -> "ok"

Refused(nrc) ==
  /\ nrc # "ok"
  /\ Refuse(nrc)
  /\ UNCHANGED <<tester, toServer, mode, session, security, ctx, jfault, durable, history, budget>>
-----------------------------------------------------------------------------
(* 0x31 FF00, BootProgramming_Erase: the journal first, then the header,   *)
(* then the other sectors (one per phrase here), each after a response     *)
(* pending.                                                                *)
EraseRefusal ==
  CASE Access # "ok" -> Access
    [] ctx.download  -> "24"
    [] active.trial  -> "22"
    [] OTHER         -> "ok"

EraseStart ==
  /\ Handling("routine", "erase")
  /\ \/ Refused(EraseRefusal)
     \/ /\ EraseRefusal = "ok"
        /\ ctx' = Abandoned
        /\ Pending("preparing")
        /\ UNCHANGED <<tester, toServer, mode, session, security, jfault, durable, history>>

EraseBegin == Journalled("preparing", [state |-> "PREPARING", header |-> Blank], "erasing")
EraseMark  == Reach("erasing", "ERASING", "wipe_header")

(* A flash operation of the server: "was" is what a failed one may leave.  *)
FlashFails(p, was) ==
  /\ flash' \in {flash, [flash EXCEPT ![p] = was]}
  /\ AbortJournal(1)
  /\ Refuse("72")

(* Faulty variant: leaves the header to the loop over the sectors, which   *)
(* skips it.                                                               *)
HeaderKept == flash

HeaderErased == [flash EXCEPT ![Phrases] = Blank]

(* Nothing is left of the header once its sector is erased, and a marker   *)
(* that is no header is written over it.                                   *)
EraseHeader ==
  /\ mode = "boot" /\ spc = "wipe_header"
  /\ \/ flash' = HeaderErased /\ spc' = "wipe"
        /\ UNCHANGED <<req, toTester, journal, jfault, budget>>
     \/ FlashFails(Phrases, Blank)
  /\ UNCHANGED <<tester, toServer, mode, session, security, ctx, active, history>>

(* req.arg counts the sectors done.                                        *)
EraseSectorPending ==
  /\ mode = "boot" /\ spc = "wipe" /\ req.arg + 1 \in Payload
  /\ Pending("wipe_sector")
  /\ UNCHANGED <<tester, toServer, mode, session, security, ctx, jfault, durable, history>>

EraseSector ==
  LET p == req.arg + 1
  IN  /\ mode = "boot" /\ spc = "wipe_sector"
      /\ \/ /\ flash' = [flash EXCEPT ![p] = Blank]
            /\ req' = [req EXCEPT !.arg = p] /\ spc' = "wipe"
            /\ UNCHANGED <<toTester, journal, jfault, budget>>
         \/ FlashFails(p, Blank)
      /\ UNCHANGED <<tester, toServer, mode, session, security, ctx, active, history>>

EraseReady == spc = "wipe" /\ req.arg + 1 = Phrases /\ Reach("wipe", "DOWNLOAD_READY", "erase_done")

EraseDone ==
  /\ mode = "boot" /\ spc = "erase_done"
  /\ ctx' = [ctx EXCEPT !.erased = TRUE]
  /\ Positive
  /\ UNCHANGED <<tester, toServer, mode, session, security, jfault, durable, history, budget>>
-----------------------------------------------------------------------------
(* 0x34, BootProgramming_Download.                                         *)
DownloadRefusal ==
  CASE Access # "ok" -> Access
    [] ~ctx.erased \/ ctx.download \/ ctx.complete \/ ctx.received # 0 -> "24"
    [] ~TransitionAllowed(journal.state, "PROGRAMMING") -> "72"
    [] OTHER -> "ok"

Download ==
  /\ Handling("download", 0)
  /\ \/ Refused(DownloadRefusal)
     \/ /\ DownloadRefusal = "ok"
        /\ Save([journal EXCEPT !.state = "PROGRAMMING"], 0)
        /\ IF jfault'
           THEN Refuse("72") /\ UNCHANGED <<ctx, source>>
           ELSE /\ ctx' = [ctx EXCEPT !.download = TRUE, !.verified = FALSE, !.staged = Blank]
                /\ source' = [run |-> req.run, img |-> req.arg.img, opt |-> req.arg.opt]
                /\ Positive
        /\ UNCHANGED <<tester, toServer, mode, session, security, flash, active, unlocker>>

(* 0x36, BootProgramming_Transfer.  Bytes gather in the phrase buffer; a   *)
(* full phrase is programmed, the header's phrase is kept in RAM.          *)
TransferRefusal ==
  CASE Access # "ok"                               -> Access
    [] ~ctx.download                               -> "24"
    [] req.sub # ctx.bsc                           -> "73"
    [] ctx.received + Len(req.arg) > SlotSize      -> "31"
    [] OTHER                                       -> "ok"

(* Faulty variant: a counter wider than its byte.                          *)
NextBscWide == ctx.bsc + 1

NextBsc == (ctx.bsc + 1) % Counter

(* flush_phrase, n times over the bytes gathered.                          *)
FullPhrases(bytes) == Len(bytes) \div PhraseSize
PhraseOf(bytes, i) == SubSeq(bytes, (i - 1) * PhraseSize + 1, i * PhraseSize)
Flushed(bytes, n) ==
  LET done == ctx.programmed \div PhraseSize
  IN  [p \in 1 .. Phrases |->
        IF p \in done + 1 .. done + n /\ p # Phrases THEN PhraseOf(bytes, p - done) ELSE flash[p]]
Staged(bytes, n) ==
  LET done == ctx.programmed \div PhraseSize
  IN  IF done + n = Phrases /\ n > 0 THEN PhraseOf(bytes, n) ELSE ctx.staged

Transfer ==
  LET bytes == ctx.buffer \o req.arg
      n     == FullPhrases(bytes)
  IN  /\ mode = "boot" /\ spc = "handle" /\ req.sid = "transfer"
      /\ \/ Refused(TransferRefusal)
         \/ /\ TransferRefusal = "ok"
            /\ flash' = Flushed(bytes, n)
            /\ ctx' = [ctx EXCEPT !.received = @ + Len(req.arg),
                                  !.programmed = @ + n * PhraseSize,
                                  !.buffer = SubSeq(bytes, n * PhraseSize + 1, Len(bytes)),
                                  !.bsc = NextBsc,
                                  !.staged = Staged(bytes, n)]
            /\ Positive
            /\ UNCHANGED <<tester, toServer, mode, session, security, jfault, journal,
                           active, history, budget>>
         \/ (* a phrase that cannot be programmed: those behind it stay in the request *)
            /\ TransferRefusal = "ok"
            /\ \E i \in 1 .. n :
                 /\ flash' \in {Flushed(bytes, i - 1), Flushed(bytes, i)}
                 /\ ctx' = [Abandoned EXCEPT !.staged = Staged(bytes, i)]
            /\ AbortJournal(1)
            /\ Refuse("72")
            /\ UNCHANGED <<tester, toServer, mode, session, security, active, history>>
         \/ (* a checkpoint that cannot be saved *)
            /\ TransferRefusal = "ok"
            /\ Spend(1)
            /\ flash' = Flushed(bytes, n)
            /\ jfault' = TRUE
            /\ ctx' = [Abandoned EXCEPT !.staged = Staged(bytes, n)]
            /\ Refuse("72")
            /\ UNCHANGED <<tester, toServer, mode, session, security, journal, active, history>>

(* 0x37, BootProgramming_Exit: the journal takes the staged header.        *)
ExitRefusal ==
  CASE Access # "ok" -> Access
    [] ~ctx.download \/ ctx.received # SlotSize \/ ctx.programmed # SlotSize
       \/ ctx.buffer # << >> -> "24"
    [] journal.state # "PROGRAMMING" -> "72"
    [] OTHER -> "ok"

TransferExit ==
  /\ Handling("exit", 0)
  /\ \/ Refused(ExitRefusal)
     \/ /\ ExitRefusal = "ok"
        /\ Save([state |-> "TRANSFER_COMPLETE", header |-> ctx.staged], 0)
        /\ IF jfault'
           THEN Refuse("72") /\ UNCHANGED ctx
           ELSE Positive /\ ctx' = [ctx EXCEPT !.download = FALSE, !.complete = TRUE]
        /\ UNCHANGED <<tester, toServer, mode, session, security, flash, active, history>>
-----------------------------------------------------------------------------
(* 0x31 FF01, BootProgramming_Verify: check payload and staged header,     *)
(* publish the header, move the journal to PENDING_ACTIVATION.             *)
VerifyRefusal ==
  CASE Access # "ok" -> Access
    [] ~ctx.erased \/ ~ctx.complete \/ ctx.download \/ ctx.verified -> "24"
    [] OTHER -> "ok"

VerifyStart ==
  /\ Handling("routine", "verify")
  /\ \/ Refused(VerifyRefusal)
     \/ /\ VerifyRefusal = "ok"
        /\ Pending("verifying")
        /\ UNCHANGED <<tester, toServer, mode, session, security, ctx, jfault, durable, history>>

VerifyMark == Reach("verifying", "VERIFYING", "validate")

(* A bad or old image aborts the update; the flags of the context stay.    *)
Validate ==
  LET v == ImageWith(ctx.staged)
  IN  /\ mode = "boot" /\ spc = "validate"
      /\ \/ v > active.version /\ Pending("publish") /\ UNCHANGED <<journal, jfault>>
         \/ v <= active.version /\ AbortJournal(0) /\ Refuse(IF v = 0 THEN "72" ELSE "31")
      /\ UNCHANGED <<tester, toServer, mode, session, security, ctx, flash, active, history>>

Publish ==
  /\ mode = "boot" /\ spc = "publish"
  /\ \/ /\ flash' = [flash EXCEPT ![Phrases] = ctx.staged]
        /\ Pending("seal")
        /\ UNCHANGED <<ctx, journal, jfault>>
     \/ /\ \/ FlashFails(Phrases, ctx.staged)
           \/ FlashFails(Phrases, Blank)
        /\ ctx' = Abandoned
  /\ UNCHANGED <<tester, toServer, mode, session, security, active, history>>

(* BootImage_LoadInfo, which reads back what was published, rejects it,    *)
(* for good or only this time.  The flags of the context stay.             *)
ReadbackRejected ==
  /\ mode = "boot" /\ spc = "seal"
  /\ FlashFails(Phrases, Blank)
  /\ UNCHANGED <<tester, toServer, mode, session, security, ctx, active, history>>

(* Faulty variant: answers before the update is pending.                   *)
SealVerifiedOnly == Reach("seal", "VERIFIED", "verify_done")

(* BootUpdate_MarkVerified saves twice.                                    *)
SealVerified == Reach("seal", "VERIFIED", "seal2")
SealPending  == Reach("seal2", "PENDING_ACTIVATION", "verify_done")

VerifyDone ==
  /\ mode = "boot" /\ spc = "verify_done"
  /\ ctx' = [ctx EXCEPT !.verified = TRUE]
  /\ Positive
  /\ UNCHANGED <<tester, toServer, mode, session, security, jfault, durable, history, budget>>

(* 0x11: answered, then the server resets.                                 *)
ResetRefusal ==
  CASE ~session           -> "22"
    [] ~security.unlocked -> "33"
    [] jfault \/ journal.state # "PENDING_ACTIVATION" \/ ~ctx.erased \/ ~ctx.complete
       \/ ~ctx.verified \/ ctx.download -> "24"
    [] OTHER -> "ok"

EcuReset ==
  /\ Handling("reset", 0)
  /\ \/ Refused(ResetRefusal)
     \/ /\ ResetRefusal = "ok"
        /\ Answer("ok", 0) /\ spc' = "restarting" /\ req' = NoRequest
        /\ UNCHANGED <<tester, toServer, mode, session, security, ctx, jfault, durable,
                       history, budget>>

(* BootUds_MainFunction, between requests: a download nobody continues is  *)
(* abandoned; a tester still at work makes the time-out a late one.        *)
TransferTimeout ==
  /\ mode = "boot" /\ spc = "idle" /\ ctx.download
  /\ AbortDownload(IF tester.pc \in Ended THEN 0 ELSE 1)
  /\ UNCHANGED <<tester, link, mode, spc, req, session, security, flash, active, history>>
-----------------------------------------------------------------------------
(* RESETS                                                                  *)

Down(goTo) ==
  /\ mode' = "off" /\ spc' = goTo
  /\ toServer' = << >> /\ req' = NoRequest
  /\ session' = FALSE /\ security' = Locked /\ ctx' = NoDownload /\ jfault' = FALSE
  /\ unlocker' = 0
  /\ UNCHANGED <<tester, toTester, durable, source>>

PowerLoss == mode # "off" /\ Spend(1) /\ Down("recover")

(* The software resets of the server and of the application; the latter    *)
(* leaves a request for the bootloader.                                    *)
SoftwareReset ==
  /\ \/ mode = "boot" /\ spc = "restarting" /\ Down("recover")
     \/ mode = "app" /\ spc = "leaving" /\ Down("recover_boot")
  /\ UNCHANGED budget

(* Faulty variant: trusts the journal and does not look at the slot again. *)
RecoveredUnchecked ==
  IF journal.state \in {"TRANSFER_COMPLETE", "VERIFYING", "VERIFIED", "PENDING_ACTIVATION"}
  THEN "PENDING_ACTIVATION"
  ELSE IF journal.state \in Updating THEN "ABORTED" ELSE journal.state

(* BootUpdate_LoadRecoveryState: an interrupted update is dropped, unless  *)
(* its transfer was complete and the image in the slot is whole and new.   *)
Recovered ==
  LET v == ImageWith(journal.header)
  IN  IF journal.state \in {"TRANSFER_COMPLETE", "VERIFYING", "VERIFIED", "PENDING_ACTIVATION"}
      THEN IF v > active.version THEN "PENDING_ACTIVATION" ELSE "ABORTED"
      ELSE IF journal.state \in Updating THEN "ABORTED" ELSE journal.state

Recover ==
  /\ mode = "off" /\ spc \in {"recover", "recover_boot"}
  /\ journal' = [journal EXCEPT !.state = Recovered]
  /\ flash' = IF Recovered = "PENDING_ACTIVATION"
              THEN [flash EXCEPT ![Phrases] = journal.header] ELSE flash
  /\ spc' = IF spc = "recover" THEN "start" ELSE "start_boot"
  /\ UNCHANGED <<tester, link, mode, req, session, security, ctx, jfault, active, history, budget>>

(* The hand-over to the slot metadata, then the application or the server. *)
StartUp ==
  LET activates == journal.state = "PENDING_ACTIVATION"
  IN  /\ mode = "off" /\ spc \in {"start", "start_boot"}
      /\ IF activates
         THEN /\ active' = [version |-> SlotImage, trial |-> TRUE]
              /\ flash' = [p \in 1 .. Phrases |-> Phrase(active.version, p)]
              /\ journal' = [journal EXCEPT !.state = "IDLE"]
         ELSE UNCHANGED durable
      /\ mode' = IF spc = "start" THEN "app" ELSE "boot"
      /\ spc' = "idle"
      /\ toServer' = << >>
      /\ UNCHANGED <<tester, toTester, req, session, security, ctx, jfault, history, budget>>

(* A message may be lost on its way.                                       *)
LoseRequest ==
  /\ toServer # << >> /\ Spend(1) /\ toServer' = << >>
  /\ UNCHANGED <<tester, toTester, server, durable, history>>
LoseAnswer ==
  /\ toTester # << >> /\ Spend(1) /\ toTester' = Tail(toTester)
  /\ UNCHANGED <<tester, toServer, server, durable, history>>
-----------------------------------------------------------------------------
Erasing   == EraseStart \/ EraseBegin \/ EraseMark \/ EraseHeader \/ EraseSectorPending
             \/ EraseSector \/ EraseReady \/ EraseDone
Verifying == VerifyStart \/ VerifyMark \/ Validate \/ Publish \/ ReadbackRejected
             \/ SealVerified \/ SealPending \/ VerifyDone
Server ==
  \/ Fetch \/ AppHandles \/ SessionControl \/ GenerateSeed \/ ValidateKey \/ ReadIdentifier
  \/ Erasing \/ Download \/ Transfer \/ TransferExit \/ Verifying \/ EcuReset
Restart == SoftwareReset \/ Recover \/ StartUp

Next ==
  \/ \E v \in Versions, o \in Options : Start(v, o)
  \/ Tester \/ Server \/ Restart \/ Confirm
  \/ TransferTimeout \/ PowerLoss \/ LoseRequest \/ LoseAnswer

(* The server's loop and the flasher's process run as long as they can,    *)
(* and a reset ends in a start.                                            *)
Fairness ==
  WF_vars(Server) /\ WF_vars(Restart) /\ WF_vars(TesterSends)
  /\ WF_vars(TesterReceives) /\ WF_vars(TesterTimesOut)

Spec == Init /\ [][Next]_vars /\ Fairness
-----------------------------------------------------------------------------
(* PROPERTIES                                                              *)

Sids == {"none", "session", "security", "did", "routine", "download", "transfer",
         "exit", "reset"}
Points == {"session", "session2", "seed", "key", "status", "erase", "download", "blocks",
           "exit", "verify", "reset", "poll"} \cup Ended
States == Updating \cup {"IDLE", "ABORTED", "PENDING_ACTIVATION"}

(* The variables have their types; the mailbox holds at most one request,  *)
(* the phrase buffer less than a phrase, the counter wraps.                *)
TypeOK ==
  /\ tester.pc \in Points /\ tester.waiting \in BOOLEAN
  /\ tester.run \in 0 .. MaxRuns /\ tester.sent \in 0 .. Blocks
  /\ Len(toServer) <= 1 /\ \A i \in DOMAIN toServer : toServer[i].sid \in Sids
  /\ \A i \in DOMAIN toTester : toTester[i].sid \in Sids
  /\ mode \in {"app", "boot", "off"} /\ req.sid \in Sids
  /\ {session, jfault, security.issued, security.unlocked, active.trial} \subseteq BOOLEAN
  /\ {ctx.download, ctx.erased, ctx.complete, ctx.verified} \subseteq BOOLEAN
  /\ ctx.received \in 0 .. SlotSize /\ ctx.programmed \in 0 .. SlotSize
  /\ ctx.bsc \in 0 .. Counter - 1 /\ Len(ctx.buffer) < PhraseSize
  /\ journal.state \in States
  /\ active.version \in Versions
  /\ unlocker \in 0 .. MaxRuns /\ budget \in 0 .. MaxFaults

(* A header in the slot always heads the whole payload it names, whatever  *)
(* was cut, lost or repeated on the way: a reader that looks at the header *)
(* first never meets half an image.                                        *)
HeaderVouches == flash[Phrases] # Blank => SlotImage # 0

(* While a download is open, what the server has accepted is exactly the   *)
(* beginning of what the run that requested it sends, wherever the bytes   *)
(* are: in the slot, in the staged header or in the phrase buffer.  And    *)
(* that run's own count is at most one unanswered block behind.            *)
WrittenByte(i) ==
  LET p == (i - 1) \div PhraseSize + 1
      held == IF i > ctx.programmed THEN ctx.buffer ELSE IF p = Phrases THEN ctx.staged ELSE flash[p]
      at == IF i > ctx.programmed THEN i - ctx.programmed ELSE ((i - 1) % PhraseSize) + 1
  IN  held[at]

AcceptedIsPrefix ==
  ctx.download =>
    /\ ctx.received = ctx.programmed + Len(ctx.buffer)
    /\ \A i \in 1 .. ctx.received : WrittenByte(i) = Stream(source)[i]
    /\ tester.run = source.run /\ tester.pc = "blocks" =>
         ctx.received \in {tester.sent * BlockSize, (tester.sent + 1) * BlockSize, SlotSize}

(* The flag in RAM and the durable state agree whenever the server is      *)
(* between two requests: no block can be accepted into an aborted update   *)
(* and no open download is left in the journal without its context, after  *)
(* time-outs, failed writes and sessions entered again.                    *)
DownloadIsProgramming ==
  mode = "boot" /\ spc = "idle" /\ ~jfault =>
    (ctx.download <=> journal.state = "PROGRAMMING")

(* Once the flasher has seen VERIFY pass, its image is in the slot and the *)
(* journal holds it for the next start, or it already runs: no reset, late *)
(* time-out or lost answer takes the success back.                         *)
PassedMeansPending ==
  tester.pc \in {"reset", "poll", "done"} =>
    \/ journal.state = "PENDING_ACTIVATION" /\ SlotImage = tester.img
    \/ active.version = tester.img

(* Requests change the slot only for the run of the flasher whose key      *)
(* unlocked this session; an authorisation never outlives its run, and a   *)
(* run that skips SecurityAccess changes nothing.                          *)
WritesForUnlocker ==
  [][flash' # flash /\ mode = "boot" =>
       session /\ security.unlocked /\ req.run = unlocker]_vars

(* To readers of the slot an update is one atomic change.                  *)
Promise == INSTANCE InactiveSlot WITH
  Images <- Versions, image <- SlotImage, running <- active.version
UpdateIsAtomic == Promise!Spec

(* When nothing is lost or cut any more, a run of the flasher with a newer *)
(* image ends with that image running, whatever an earlier run and earlier *)
(* faults left behind: an open download, a locked or unlocked session, an  *)
(* aborted journal, a verified image that was never started.               *)
Calm ==
  /\ budget = 0 /\ tester.pc = "session" /\ ~tester.waiting /\ tester.opt = "none"
  /\ tester.img > active.version /\ ~active.trial /\ ~jfault
  /\ mode # "off" /\ spc = "idle" /\ toServer = << >> /\ toTester = << >>
FlashCompletes == Calm ~> tester.pc = "done"
=============================================================================
