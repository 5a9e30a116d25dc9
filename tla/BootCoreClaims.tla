--------------------------- MODULE BootCoreClaims ---------------------------
(***************************************************************************)
(* What documents and comments of the repository say of the update life    *)
(* and the code does not keep.  Each property is checked by a run of its   *)
(* own; TLC answers with a behaviour of BootCore that violates it.         *)
(***************************************************************************)
EXTENDS BootCore

(* A trial is only given up when the last attempt was not confirmed        *)
(* (stage5_boot_lifecycle.md:15).  The code resolves exhausted trials in   *)
(* BootManager_Init, before it looks at the confirmation the application   *)
(* left before its reset.                                                  *)
ConfirmedTrialIsKept ==
  [][\A s \in Slots : Exhausted(s) /\ Requested("confirm") /\ req.slot = s
       => ~(Has(s, "INVALID"))']_vars

(* A reset redoes an unfinished hand-over (stage5_boot_lifecycle.md:5).    *)
(* The code takes the torn first record of the active slot for the record  *)
(* of a slot that is not confirmed, in every later boot.                   *)
HandoverIsRedone ==
  pc = "lifecycle" /\ CanContinue /\ Pending /\ ~ImageLost => ~NoFallback

(* With no valid image, recovery has slot A as its target                  *)
(* (boot_programming.c:49), and an INVALID slot is given a new image by a  *)
(* programming transaction (stage5_boot_lifecycle.md:16).  The code        *)
(* refuses to start one as soon as either slot has a record.               *)
RecoveryHasTarget ==
  pc = "prog" /\ CanContinue /\ ~lfault /\ active.slot = UNKNOWN
    /\ jr.state \in {IDLE, ABORTED} => CanStartUpdate

(* The target of a pending update goes through VERIFIED and PENDING before *)
(* it is started on trial (stage5_boot_lifecycle.md:4-5, 12-13).  When the *)
(* active image has turned bad the code skips the hand-over and may start  *)
(* the target under the CONFIRMED record of the image that was there.      *)
UpdateRunsOnTrial ==
  pc = "app" /\ jr.state = PENDING_ACTIVATION /\ running = jr.target 
    => Has(running, "TRIAL") \/ running \in vouched

(* When recovery cannot commit, the active slot of the old journal may     *)
(* still be validated and started (stage4_recovery_flow.md:20-21).  The    *)
(* code starts nothing: a journal fault makes a lifecycle fault.           *)
ActiveSurvivesStorageFault ==
  pc = "select" /\ jr.status = "VALID" /\ jfault /\ jr.active \in Slots /\ Good(jr.active)
    => SelectBootTarget = jr.active
=============================================================================
