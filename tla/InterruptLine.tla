---------------------------- MODULE InterruptLine ----------------------------
(***************************************************************************)
(* What an interrupt controller (IrqController.cpp) promises where nobody  *)
(* else interrupts its thread while one context does: lines that latch for *)
(* ever.  Raising one line makes every line that was ever raised due, and  *)
(* a line stays due until its handler has run.  A handler may run more     *)
(* often than its line was raised, but never less: what is owed is due,    *)
(* unless the kernel refused the controller's last signal.  Then the lines *)
(* wait, still latched, for the next one that it accepts.                  *)
(*                                                                         *)
(* There are no signals, no queue and no walk here; IrqController has them *)
(* and is shown to implement this module.                                  *)
(***************************************************************************)
CONSTANTS Ctl, Irq

VARIABLES
  latched,  \* the lines of a controller that were ever raised
  due,      \* those whose handler is going to run
  owed,     \* those raised since their handler last ran
  refused   \* the controllers whose last signal was refused

vars == <<latched, due, owed, refused>>

Init ==
  /\ latched = [c \in Ctl |-> {}]
  /\ due = [c \in Ctl |-> {}]
  /\ owed = [c \in Ctl |-> {}]
  /\ refused = {}

Raise(c, i) ==
  /\ latched' = [latched EXCEPT ![c] = @ \cup {i}]
  /\ due' = [due EXCEPT ![c] = latched[c] \cup {i}]
  /\ owed' = [owed EXCEPT ![c] = @ \cup {i}]
  /\ UNCHANGED refused

(* All irqs of the controller are enabled again.                           *)
Strobe(c) ==
  /\ due' = [due EXCEPT ![c] = latched[c]]
  /\ UNCHANGED <<latched, owed, refused>>

(* The signal that would serve the lines of c is refused.                  *)
Refuse(c) ==
  /\ \E rest \in SUBSET due[c] : due' = [due EXCEPT ![c] = rest]
  /\ refused' = refused \cup {c}
  /\ UNCHANGED <<latched, owed>>

(* A later one is accepted, and serves every line.                         *)
Accept(c) ==
  /\ due[c] = latched[c]
  /\ refused' = refused \ {c}
  /\ UNCHANGED <<latched, due, owed>>

(* The handler runs; when a line was raised meanwhile it runs again.       *)
Serve(c, i) ==
  /\ i \in due[c]
  /\ owed' = [owed EXCEPT ![c] = @ \ {i}]
  /\ due' \in {due, [due EXCEPT ![c] = @ \ {i}]}
  /\ UNCHANGED <<latched, refused>>

Next == \E c \in Ctl :
  Strobe(c) \/ Refuse(c) \/ Accept(c) \/ \E i \in Irq : Raise(c, i) \/ Serve(c, i)

Spec == Init /\ [][Next]_vars

(* The promise in time: what is owed is served, or a signal is refused.    *)
Served == \A c \in Ctl, i \in Irq : i \in owed[c] ~> i \notin owed[c] \/ c \in refused

LiveSpec == Spec /\ Served
=============================================================================
