------------------------------- MODULE IsoTp -------------------------------
(***************************************************************************)
(* ISO-TP between the gateway (isotp.py) and a node, which is either the   *)
(* bootloader (boot_isotp.c over one polled mailbox, blocking transmit) or *)
(* the application (CanTp.c under PduR, CanIf and FlexCAN, driven by the   *)
(* tasks CAN-Rx and Diag).  Frames may be lost; timers run on both sides.  *)
(*                                                                         *)
(* A message of n consecutive frames has the pieces 0..n; one of none is a *)
(* single frame.  What the messages say is the subject of FlashSession.    *)
(***************************************************************************)
EXTENDS Naturals, Sequences

CONSTANTS
  Nodes,         \* what the gateway talks to: {"boot"}, {"app"} or both
  Sizes,         \* consecutive frames of a message
  SnMod,         \* values of the sequence number (16)
  MailboxDepth,  \* frames that wait before the application's CAN-Rx task (16)
  QueueDepth,    \* length of g_diagRequestQueue (2)
  MaxExchanges,  \* bound: exchanges the gateway starts
  MaxFaults      \* bound: lost frames, refused frames, late answers, races

ASSUME ParametersAssumption ==
  /\ Nodes \subseteq {"boot", "app"} /\ Nodes # {}
  /\ Sizes \subseteq Nat /\ 0 \in Sizes
  /\ SnMod \in Nat \ {0, 1} /\ MailboxDepth \in Nat \ {0} /\ QueueDepth \in Nat \ {0}
  /\ MaxExchanges \in Nat /\ MaxFaults \in Nat

VARIABLES
  node,      \* which of the two runs on the device
  client,    \* IsoTpClient: program point, exchange, message sent, message received
  answer,    \* the answer last returned: to which exchange, and its pieces
  toNode,    \* frames of the request identifier under way
  toClient,  \* frames of the response identifier under way, the transmit queue included
  rx,        \* reassembly: whether on, total length, pieces, timer due, raced
  tx,        \* transmission: state, message, next piece, timer due, older than the exchange
  inbox,     \* whole requests not yet served
  diag,      \* Diag task: "main" between reading the tick and the critical section
  behind,    \* history: frames may be left of an exchange the gateway gave up
  fails,     \* history: exchanges failed since the last fault
  budget     \* faults left

vars == <<node, client, answer, toNode, toClient, rx, tx, inbox, diag, behind, fails, budget>>
-----------------------------------------------------------------------------
(* FRAMES AND MESSAGES                                                     *)

Frame(pci, ex, size, i) == [pci |-> pci, ex |-> ex, size |-> size, i |-> i]
FC(status) == Frame("FC", 0, 0, status)
CTS   == 0
OVFLW == 2

(* The first frame of a message, and piece i of it afterwards.             *)
Opening(ex, size) == Frame(IF size = 0 THEN "SF" ELSE "FF", ex, size, 0)
CF(ex, size, i)   == Frame("CF", ex, size, i)
Piece(f)          == <<f.ex, f.size, f.i>>
Whole(ex, size)   == [k \in 1 .. size + 1 |-> <<ex, size, k - 1>>]

Nothing == [on |-> FALSE, total |-> 0, got |-> << >>, due |-> FALSE, raced |-> FALSE]

(* Faulty variant: keeps the pieces of a message that was not finished.    *)
BegunOnTop(r, f) ==
  [Nothing EXCEPT !.on = TRUE, !.total = f.size,
                  !.got = IF r.on THEN r.got ELSE <<Piece(f)>>]

(* A first frame throws away what was being reassembled.                   *)
Begun(r, f) == [Nothing EXCEPT !.on = TRUE, !.total = f.size, !.got = <<Piece(f)>>]

(* Four bits of sequence number; the first frame counts as number 0.       *)
InSequence(r, f) == f.i % SnMod = Len(r.got) % SnMod

Extended(r, f) == [r EXCEPT !.got = Append(@, Piece(f)), !.due = FALSE, !.raced = FALSE]
Complete(r)    == Len(r.got) = r.total + 1

Idle == [st |-> "idle", ex |-> 0, size |-> 0, next |-> 0, due |-> FALSE, old |-> FALSE]

Init ==
  /\ node \in Nodes
  /\ client = [pc |-> "idle", ex |-> 0, size |-> 0, next |-> 0, in |-> Nothing]
  /\ answer = [ex |-> 0, got |-> << >>]
  /\ toNode = << >> /\ toClient = << >>
  /\ rx = Nothing /\ tx = Idle /\ inbox = << >> /\ diag = "loop"
  /\ behind = FALSE /\ fails = 0 /\ budget = MaxFaults

(* Every fault starts the count of failed exchanges anew.                  *)
Cost(n) ==
  /\ budget >= n /\ budget' = budget - n
  /\ fails' = IF n > 0 THEN 0 ELSE fails
Free == UNCHANGED <<budget, fails>>

Depth == IF node = "boot" THEN 1 ELSE MailboxDepth
-----------------------------------------------------------------------------
(* THE GATEWAY                                                             *)

(* The node has nothing more to send without hearing from the gateway.     *)
NodeQuiet == toNode = << >> /\ inbox = << >> /\ tx.st # "send"

ClientUnchanged == UNCHANGED <<client, answer, behind>>
NodeUnchanged   == UNCHANGED <<node, rx, tx, inbox, diag>>

(* IsoTpClient.request: the opening frame.  A transmission still running   *)
(* on the node is now older than the exchange.                             *)
Ask(size) ==
  /\ client.pc = "idle" /\ client.ex < MaxExchanges /\ Len(toNode) < Depth
  /\ client' = [client EXCEPT !.pc = IF size = 0 THEN "answer" ELSE "fc",
                              !.ex = @ + 1, !.size = size, !.next = 1]
  /\ toNode' = Append(toNode, Opening(client.ex + 1, size))
  /\ tx' = [tx EXCEPT !.old = tx.st # "idle"]
  /\ answer' = [ex |-> 0, got |-> << >>]
  /\ behind' = (behind /\ (~NodeQuiet \/ toClient # << >>))
  /\ fails' = (IF behind /\ ~behind' THEN 0 ELSE fails) /\ UNCHANGED budget
  /\ UNCHANGED <<node, toClient, rx, inbox, diag>>

(* _send_multi_frame after flow control with block size 0: all of them.    *)
SendCf ==
  /\ client.pc = "send" /\ Len(toNode) < Depth
  /\ toNode' = Append(toNode, CF(client.ex, client.size, client.next))
  /\ client' = [client EXCEPT !.next = @ + 1,
                              !.pc = IF client.next = client.size THEN "answer" ELSE @]
  /\ Free
  /\ NodeUnchanged /\ UNCHANGED <<answer, toClient, behind>>

Returned(got) ==
  /\ answer' = [ex |-> client.ex, got |-> got]
  /\ client' = [client EXCEPT !.pc = "idle", !.in = Nothing]

(* An exception ends the exchange; frames still under way stay there.      *)
Raised(n) ==
  /\ client' = [client EXCEPT !.pc = "idle", !.in = Nothing] /\ UNCHANGED answer
  /\ behind' = (behind \/ ~NodeQuiet \/ toClient' # << >>)
  /\ budget >= n /\ budget' = budget - n
  /\ fails' = IF n > 0 THEN 1 ELSE fails + 1

(* The next frame of the response identifier, whatever it belongs to.      *)
ClientReceives ==
  LET f == Head(toClient)
      opens == client.pc = "answer" /\ f.pci = "FF"
      grown == Extended(client.in, f)
  IN  /\ client.pc \in {"fc", "answer", "cfs"} /\ toClient # << >>
      /\ toClient' = Tail(toClient)
      /\ IF opens
         THEN Len(toNode) < Depth /\ toNode' = Append(toNode, FC(CTS))
         ELSE UNCHANGED toNode
      /\ \/ /\ client.pc = "fc" /\ f = FC(CTS)
            /\ client' = [client EXCEPT !.pc = "send"] /\ UNCHANGED <<answer, behind>> /\ Free
         \/ /\ client.pc = "answer" /\ f.pci = "SF"
            /\ Returned(<<Piece(f)>>) /\ UNCHANGED behind /\ Free
         \/ /\ opens
            /\ client' = [client EXCEPT !.pc = "cfs", !.in = Begun(client.in, f)]
            /\ UNCHANGED <<answer, behind>> /\ Free
         \/ /\ client.pc = "cfs" /\ f.pci = "CF" /\ InSequence(client.in, f)
            /\ IF Complete(grown)
               THEN Returned(grown.got)
               ELSE client' = [client EXCEPT !.in = grown] /\ UNCHANGED answer
            /\ UNCHANGED behind /\ Free
         \/ /\ \/ client.pc = "fc" /\ f # FC(CTS)
               \/ client.pc = "answer" /\ f.pci \notin {"SF", "FF"}
               \/ client.pc = "cfs" /\ ~(f.pci = "CF" /\ InSequence(client.in, f))
            /\ Raised(0)
      /\ NodeUnchanged

(* IsoTpTimeoutError after 1 s; with frames to come it is early, a fault.  *)
(* A transmission of the application that was already waiting when the     *)
(* exchange began has run out by then.                                     *)
ClientTimesOut ==
  /\ client.pc \in {"fc", "answer", "cfs"} /\ toClient = << >>
  /\ ~(node = "app" /\ tx.st = "wait" /\ tx.old)
  /\ UNCHANGED <<toNode, toClient>>
  /\ Raised(IF NodeQuiet THEN 0 ELSE 1)
  /\ NodeUnchanged

Gateway == SendCf \/ ClientReceives \/ ClientTimesOut
-----------------------------------------------------------------------------
(* THE BOOTLOADER                                                          *)

Took(frames) == toNode' = Tail(toNode) /\ toClient' = toClient \o frames

(* BootIsoTp_MainFunction, one frame per round of the server loop.         *)
BootReceives ==
  LET f == Head(toNode)
      grown == Extended(rx, f)
      keepsOn == rx.on /\ f.pci = "CF" /\ InSequence(rx, f)
  IN  /\ node = "boot" /\ tx.st = "idle" /\ inbox = << >> /\ toNode # << >>
      /\ \/ /\ f.pci = "SF"
            /\ inbox' = <<[total |-> 0, got |-> <<Piece(f)>>]>> /\ rx' = Nothing /\ Took(<< >>)
         \/ /\ f.pci = "FF"
            /\ rx' = Begun(rx, f) /\ Took(<<FC(CTS)>>) /\ UNCHANGED inbox
         \/ /\ keepsOn /\ Complete(grown)
            /\ inbox' = <<[total |-> rx.total, got |-> grown.got]>> /\ rx' = Nothing /\ Took(<< >>)
         \/ /\ keepsOn /\ ~Complete(grown)
            /\ rx' = grown /\ Took(<< >>) /\ UNCHANGED inbox
         \/ /\ rx.on /\ f.pci = "CF" /\ ~InSequence(rx, f)
            /\ rx' = Nothing /\ Took(<< >>) /\ UNCHANGED inbox
         \/ /\ f.pci = "FC" \/ (f.pci = "CF" /\ ~rx.on)
            /\ Took(<< >>) /\ UNCHANGED <<rx, inbox>>
      /\ Free
      /\ ClientUnchanged /\ UNCHANGED <<node, tx, diag>>

(* A response of the server, of any length.                                *)
Sending(ex, size) == [Idle EXCEPT !.st = "wait", !.ex = ex, !.size = size, !.next = 1]
Asked(pdu) == pdu.got[1][1]

(* Faulty variant: the request stays where it was read.                    *)
ServedKept == inbox

(* BootIsoTp_ReadRequest and xQueueReceive take the request away.          *)
Served == Tail(inbox)

(* BootIsoTp_Transmit; a frame that cannot be sent ends it.                *)
BootServes ==
  /\ node = "boot" /\ inbox # << >>
  /\ inbox' = Served
  /\ \/ \E size \in Sizes :
          /\ toClient' = Append(toClient, Opening(Asked(Head(inbox)), size))
          /\ tx' = IF size = 0 THEN Idle ELSE Sending(Asked(Head(inbox)), size)
          /\ Free
     \/ Cost(1) /\ UNCHANGED <<toClient, tx>>
  /\ ClientUnchanged /\ UNCHANGED <<node, toNode, rx, diag>>

(* Faulty variant: goes on waiting after any other frame.                  *)
AfterFrameWaiting(f) == IF f = FC(CTS) THEN [tx EXCEPT !.st = "send"] ELSE tx

AfterFrame(f) == IF f = FC(CTS) THEN [tx EXCEPT !.st = "send"] ELSE Idle

(* BootIsoTp_WaitCts takes whatever comes: a new request ends the response *)
(* and is itself lost.                                                     *)
BootWaitsCts ==
  /\ node = "boot" /\ tx.st = "wait" /\ toNode # << >>
  /\ tx' = AfterFrame(Head(toNode))
  /\ Took(<< >>)
  /\ Free
  /\ ClientUnchanged /\ UNCHANGED <<node, rx, inbox, diag>>

NextCf == CF(tx.ex, tx.size, tx.next)
Advanced == IF tx.next = tx.size THEN Idle ELSE [tx EXCEPT !.next = @ + 1]

BootSendsCf ==
  /\ node = "boot" /\ tx.st = "send"
  /\ \/ toClient' = Append(toClient, NextCf) /\ tx' = Advanced /\ Free
     \/ Cost(1) /\ tx' = Idle /\ UNCHANGED toClient
  /\ ClientUnchanged /\ UNCHANGED <<node, toNode, rx, inbox, diag>>

(* The loop counters of both waits.                                        *)
BootTimers ==
  /\ node = "boot"
  /\ \/ tx.st = "wait" /\ tx.due /\ tx' = Idle /\ UNCHANGED rx
     \/ tx.st = "idle" /\ inbox = << >> /\ rx.on /\ rx.due /\ rx' = Nothing /\ UNCHANGED tx
  /\ Free
  /\ ClientUnchanged /\ UNCHANGED <<node, toNode, toClient, inbox, diag>>

Bootloader == BootReceives \/ BootServes \/ BootWaitsCts \/ BootSendsCf \/ BootTimers
-----------------------------------------------------------------------------
(* THE APPLICATION                                                         *)

(* Faulty variant: the queue grows.                                        *)
QueuedAlways(pdu) == Append(inbox, pdu)

(* PduR_CanTpRxIndication: the request queue takes it or it is dropped.    *)
Queued(pdu) == IF Len(inbox) < QueueDepth THEN Append(inbox, pdu) ELSE inbox

(* The frame is handled between the two halves of CanTp_MainFunction and a *)
(* tick came with it: its time stamp is newer than the tick read there.    *)
Raced == IF diag = "main" THEN {0, 1} ELSE {0}
Stamped(r, race) == [r EXCEPT !.raced = race = 1]

(* CanTp_RxIndication in the task CAN-Rx, one critical section.            *)
AppReceivesSingle(f) ==
  /\ f.pci = "SF"
  /\ rx' = Nothing /\ inbox' = Queued([total |-> 0, got |-> <<Piece(f)>>])
  /\ Took(<< >>) /\ Free /\ UNCHANGED tx

AppReceivesFirst(f) ==
  /\ f.pci = "FF" /\ UNCHANGED <<inbox, tx>>
  /\ \/ Len(inbox) = QueueDepth /\ rx' = Nothing /\ Took(<<FC(OVFLW)>>) /\ Free
     \/ /\ Len(inbox) < QueueDepth
        /\ \E race \in Raced : rx' = Stamped(Begun(rx, f), race) /\ Cost(race)
        /\ Took(<<FC(CTS)>>)
     \/ Len(inbox) < QueueDepth /\ rx' = Nothing /\ Took(<< >>) /\ Cost(1)

AppReceivesConsecutive(f) ==
  LET grown == Extended(rx, f)
  IN  /\ f.pci = "CF" /\ Took(<< >>) /\ UNCHANGED tx
      /\ \/ ~rx.on /\ UNCHANGED <<rx, inbox>> /\ Free
         \/ rx.on /\ ~InSequence(rx, f) /\ rx' = Nothing /\ UNCHANGED inbox /\ Free
         \/ /\ rx.on /\ InSequence(rx, f) /\ Complete(grown)
            /\ inbox' = Queued([total |-> rx.total, got |-> grown.got]) /\ rx' = Nothing /\ Free
         \/ /\ rx.on /\ InSequence(rx, f) /\ ~Complete(grown)
            /\ \E race \in Raced : rx' = Stamped(grown, race) /\ Cost(race)
            /\ UNCHANGED inbox

(* The gateway answers CTS, block size 0, STmin 0 only.                    *)
AppReceivesFlowControl(f) ==
  /\ f.pci = "FC"
  /\ tx' = IF tx.st = "wait" THEN [tx EXCEPT !.st = "send", !.due = FALSE] ELSE tx
  /\ Took(<< >>) /\ Free /\ UNCHANGED <<rx, inbox>>

AppReceives ==
  /\ node = "app" /\ toNode # << >>
  /\ LET f == Head(toNode)
     IN  AppReceivesSingle(f) \/ AppReceivesFirst(f) \/ AppReceivesConsecutive(f)
         \/ AppReceivesFlowControl(f)
  /\ ClientUnchanged /\ UNCHANGED <<node, diag>>

TxFree == tx.st = "idle"

(* Task_Diag: one request; CanTp_Transmit refuses the response while an    *)
(* earlier one is being sent, or when the transmit queue is full.          *)
DiagServes ==
  /\ node = "app" /\ diag = "loop" /\ inbox # << >>
  /\ inbox' = Served
  /\ \/ \E size \in Sizes :
          /\ TxFree
          /\ toClient' = Append(toClient, Opening(Asked(Head(inbox)), size))
          /\ tx' = IF size = 0 THEN tx ELSE Sending(Asked(Head(inbox)), size)
          /\ Free
     \/ ~TxFree /\ UNCHANGED <<toClient, tx>> /\ Free
     \/ Cost(1) /\ UNCHANGED <<toClient, tx>>
  /\ ClientUnchanged /\ UNCHANGED <<node, toNode, rx, diag>>

(* CanTp_MainFunction reads the tick ...                                   *)
DiagSamples ==
  /\ node = "app" /\ diag = "loop" /\ inbox = << >> /\ (rx.on \/ tx.st # "idle")
  /\ diag' = "main"
  /\ Free
  /\ ClientUnchanged /\ UNCHANGED <<node, toNode, toClient, rx, tx, inbox>>

(* ... and judges N_Cr and N_Bs with it in the critical section, where a   *)
(* newer time stamp wraps the difference; then it sends one frame, or      *)
(* tries again in the next round when the queue is full.                   *)
NCrElapsed == rx.on /\ (rx.due \/ rx.raced)

(* Faulty variant: waits for flow control for ever.                        *)
NBsElapsedNever == FALSE

NBsElapsed == tx.st = "wait" /\ tx.due

DiagMain ==
  /\ node = "app" /\ diag = "main"
  /\ diag' = "loop"
  /\ rx' = IF NCrElapsed THEN Nothing ELSE rx
  /\ \/ tx.st = "send" /\ toClient' = Append(toClient, NextCf) /\ tx' = Advanced /\ Free
     \/ tx.st = "send" /\ Cost(1) /\ UNCHANGED <<toClient, tx>>
     \/ /\ tx.st # "send" /\ tx' = (IF NBsElapsed THEN Idle ELSE tx) /\ UNCHANGED toClient
        /\ Free
  /\ ClientUnchanged /\ UNCHANGED <<node, toNode, inbox>>

Application == AppReceives \/ DiagServes \/ DiagSamples \/ DiagMain
-----------------------------------------------------------------------------
(* TIME AND LOSS                                                           *)

(* The gateway is about to send something.                                 *)
ClientActive == client.pc = "send" \/ (client.pc # "idle" /\ toClient # << >>)

(* A second of silence passes for a timer of the node; when something was  *)
(* still coming it is a fault.                                             *)
Silence ==
  /\ \/ rx.on /\ ~rx.due /\ rx' = [rx EXCEPT !.due = TRUE] /\ UNCHANGED tx
     \/ tx.st = "wait" /\ ~tx.due /\ tx' = [tx EXCEPT !.due = TRUE] /\ UNCHANGED rx
  /\ Cost(IF toNode = << >> /\ ~ClientActive THEN 0 ELSE 1)
  /\ ClientUnchanged /\ UNCHANGED <<node, toNode, toClient, inbox, diag>>

Without(s, k) == SubSeq(s, 1, k - 1) \o SubSeq(s, k + 1, Len(s))

(* On the bus, in an overwritten mailbox, in a full receive queue, or in   *)
(* the gap between unlocking a mailbox and clearing its flag.              *)
LoseFrame ==
  /\ Cost(1)
  /\ \/ \E k \in DOMAIN toNode : toNode' = Without(toNode, k) /\ UNCHANGED toClient
     \/ \E k \in DOMAIN toClient : toClient' = Without(toClient, k) /\ UNCHANGED toNode
  /\ ClientUnchanged /\ NodeUnchanged

Next ==
  \/ \E size \in Sizes : Ask(size)
  \/ Gateway \/ Bootloader \/ Application \/ Silence \/ LoseFrame

Fairness ==
  /\ WF_vars(Gateway) /\ WF_vars(Bootloader) /\ WF_vars(Silence)
  /\ WF_vars(AppReceives) /\ WF_vars(DiagServes \/ DiagSamples \/ DiagMain)

Spec == Init /\ [][Next]_vars /\ Fairness
-----------------------------------------------------------------------------
(* PROPERTIES                                                              *)

Frames == [pci : {"SF", "FF", "CF", "FC"}, ex : 0 .. MaxExchanges, size : Sizes, i : Nat]

(* The variables have their types; the queues keep their lengths.          *)
TypeOK ==
  /\ node \in Nodes /\ client.pc \in {"idle", "fc", "send", "answer", "cfs"}
  /\ client.ex \in 0 .. MaxExchanges /\ client.size \in Sizes
  /\ Len(toNode) <= Depth /\ \A k \in DOMAIN toNode : toNode[k] \in Frames
  /\ \A k \in DOMAIN toClient : toClient[k] \in Frames
  /\ Len(inbox) <= QueueDepth /\ diag \in {"loop", "main"}
  /\ tx.st \in {"idle", "wait", "send"} /\ (tx.st # "idle" => tx.next \in 1 .. tx.size)
  /\ (rx.on => Len(rx.got) \in 1 .. rx.total)
  /\ {rx.on, rx.due, rx.raced, tx.due, tx.old, behind} \subseteq BOOLEAN
  /\ fails \in 0 .. MaxExchanges /\ budget \in 0 .. MaxFaults

(* Whatever is lost or refused, a message that is handed up, on either     *)
(* side, is one the other side sent, from its first piece to its last:     *)
(* frames of two messages are never joined, although a sequence number has *)
(* four bits only.  That ends when the gateway has fallen behind: a late   *)
(* flow control then opens the way for the frames of a request whose own   *)
(* first frame was lost.                                                   *)
IsWhole(got) == \E ex \in 1 .. MaxExchanges, size \in Sizes : got = Whole(ex, size)
DeliveredWhole ==
  ~behind => /\ \A k \in DOMAIN inbox : IsWhole(inbox[k].got)
             /\ answer.ex # 0 => IsWhole(answer.got)

(* Answers carry no number of their request.  One is never paired with     *)
(* another request as long as the gateway gave up no exchange with frames  *)
(* of it still to come: it does not drain its socket, and once behind it   *)
(* may stay so.                                                            *)
AnswerMatches == answer.ex # 0 /\ ~behind => answer.got[1][1] = answer.ex

(* One fault costs at most the exchange it hits and the one after it: a    *)
(* transmission left waiting, a half reassembled request, a request taken  *)
(* for flow control or a response refused never spoils a third one.        *)
RecoversSoon == ~behind => fails <= 2

(* No half message holds the node for ever, whatever of an exchange gets   *)
(* lost and also when the gateway starts no other: each transmission and   *)
(* each reassembly ends.                                                   *)
NodeReleases == (tx.st # "idle" ~> tx.st = "idle") /\ (rx.on ~> ~rx.on)
=============================================================================
