---------------------------- MODULE InactiveSlot ----------------------------
(***************************************************************************)
(* What a firmware update promises about the slot it writes: whoever reads *)
(* the slot finds no image or one whole image, and an image becomes the    *)
(* running one only after it was published.  FlashSession implements it.   *)
(***************************************************************************)
EXTENDS Naturals

CONSTANT Images  \* versions of images, positive numbers

VARIABLES
  image,   \* the image the inactive slot holds for a reader, 0 for none
  running  \* the image that runs

Init == image = 0 /\ running \in Images

(* An erase makes the old image unreadable at once, and so does a header   *)
(* that turns out not to have been written.                                *)
Wipe == image' = 0 /\ UNCHANGED running

(* A header written after the payload was checked makes it readable, whole *)
(* and newer than what runs.                                               *)
Publish ==
  /\ image = 0
  /\ image' \in {v \in Images : v > running}
  /\ UNCHANGED running

(* The slots change roles.                                                 *)
Activate == image > running /\ running' = image /\ image' = running

Next == Wipe \/ Publish \/ Activate
Spec == Init /\ [][Next]_<<image, running>>
=============================================================================
