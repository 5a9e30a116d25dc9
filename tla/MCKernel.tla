------------------------------ MODULE MCKernel ------------------------------
(***************************************************************************)
(* Kernel with a reader that waits for ever, as Task_CanRx does; a more    *)
(* urgent task that sleeps and makes every call with a finite wait; and a  *)
(* task of the reader's level that only polls, and so may take what the    *)
(* reader was woken for.  It never waits: the idle task never runs and is  *)
(* left out.                                                               *)
(***************************************************************************)
EXTENDS Kernel

MCTasks == <<"Reader", "Worker", "Poller">>
MCPrio  == [Reader |-> 1, Worker |-> 2, Poller |-> 1]
MCCalls ==
  [Reader |-> {[op |-> "receive", w |-> Forever]},
   Worker |-> {[op |-> "receive", w |-> 2], [op |-> "send", w |-> 2], [op |-> "send", w |-> 0],
               [op |-> "sleep", w |-> 1]},
   Poller |-> {[op |-> "receive", w |-> 0]}]
=============================================================================
