------------------------------ MODULE GpioIrqs ------------------------------
(***************************************************************************)
(* A level on a wire becomes a call of the irq handler at its other end:   *)
(* the pins of module PinNetwork, whose on_change raises an irq, and the   *)
(* controllers of module IrqController, which carry it to the other unit's *)
(* thread.  The main functions keep to the protocol of the C API's tests:  *)
(* set up the irqs, set_ready, wait for the other unit, drive.             *)
(***************************************************************************)
EXTENDS Naturals, Sequences, FiniteSets

CONSTANTS
  soc, host, GpioPins, SpiPins, Connections, Convert, Drive,  \* of PinNetwork
  SigMax, Crowded, CreditMax                                  \* of IrqController

ASSUME UnitAssumption == soc # host
ASSUME PinAssumption ==
  /\ GpioPins \in [{soc, host} -> SUBSET Nat]
  /\ \A u \in {soc, host} : DOMAIN SpiPins[u] \in {{}, {"mosi", "miso", "clk", "csn"}}
  /\ Connections \in Seq(Nat \X Nat)
  /\ Convert \cup Drive \subseteq {soc, host} \X Nat /\ IsFiniteSet(Convert)
ASSUME QueueAssumption ==
  SigMax \in Nat \ {0} /\ CreditMax \in Nat \ {0} /\ Crowded \in BOOLEAN

VARIABLES loaded, remote, connected, alive, gpios, gpio_irqs, handler, level, raised,
          th, fault, overlap, fresh

VARIABLES pending_irqs, is_enabled, allirqs_enabled, signals, handling, todo,
          call, owed, credit, clash, refused

VARIABLES
  main,    \* where the main function of a unit is: "setup", "await" or "drive"
  locked,  \* units whose ready mutex is locked
  seen     \* ghost: the level a pin had when its irq handler last ran

net  == <<loaded, remote, connected, alive, gpios, gpio_irqs, handler, level, raised,
          th, fault, overlap, fresh>>
irqs == <<pending_irqs, is_enabled, allirqs_enabled, signals, handling, todo,
          call, owed, credit, clash, refused>>
sync == <<main, locked>>
vars == <<net, irqs, sync, seen>>

Net == INSTANCE PinNetwork

Unit == {soc, host}
Peer(u) == IF u = soc THEN host ELSE soc

GpioIrq(u, i) == <<u, i, "irq">>
IrqPins == {GpioIrq(f[1], f[2]) : f \in Convert}

(* A GpioIrq has its unit's controller.  The thread of the other unit      *)
(* raises it.                                                              *)
Irqs == INSTANCE IrqController WITH
          Ctl <- Unit, Irq <- IrqPins, Maskable <- {}, Ctx <- Unit,
          Home <- [o \in IrqPins |-> o[1]],
          Dest <- [u \in Unit |-> Peer(u)],
          Reach <- [u \in Unit |-> {Peer(u)}]

(* No function of the C API reads the uninitialised allirqs_enabled.       *)
Init ==
  /\ Net!Init
  /\ Irqs!Init
  /\ allirqs_enabled = [u \in Unit |-> FALSE]
  /\ main = [u \in Unit |-> "setup"]
  /\ locked = Unit
  /\ seen = [o \in IrqPins |-> FALSE]

-----------------------------------------------------------------------------
(* The thread of a unit, when no signal handler runs on it and it is not   *)
(* within a raise.                                                         *)

OnThread(u, phase) == main[u] \in phase /\ ~handling[u] /\ call[u] = Irqs!Idle

hwmocker_set_gpio_irq_handler(u, i) ==
  /\ OnThread(u, {"setup"})
  /\ Net!set_gpio_irq(u, i)
  /\ UNCHANGED <<irqs, sync, seen>>

hwmocker_set_gpio_level(u, i, value) ==
  /\ OnThread(u, {"drive"})
  /\ Net!set_gpio_value(u, i, value)
  /\ UNCHANGED <<irqs, sync, seen>>

set_ready(u) ==
  /\ OnThread(u, {"setup"})
  /\ Net!Runs(u, "idle")
  /\ main' = [main EXCEPT ![u] = "await"]
  /\ locked' = locked \ {u}
  /\ UNCHANGED <<net, irqs, seen>>

(* Faulty variant: the ready mutex of the unit itself is taken.            *)
awaited_self(u) == u

awaited(u) == Peer(u)

wait_ready(u) ==
  /\ OnThread(u, {"await"})
  /\ awaited(u) \notin locked
  /\ main' = [main EXCEPT ![u] = "drive"]
  /\ locked' = locked \cup {awaited(u)}
  /\ UNCHANGED <<net, irqs, seen>>

(* The next step of the call a thread is in; on_change of a GpioIrq sets   *)
(* the level and begins to raise the irq.                                  *)
Continue(u) ==
  /\ OnThread(u, {"setup", "drive"})
  /\ Net!Continue(u)
  /\ IF th[u].at = "change" /\ th[u].peer \in alive \cap IrqPins
     THEN Irqs!local_raise(u, th[u].peer)
     ELSE UNCHANGED irqs
  /\ UNCHANGED <<sync, seen>>

FinishRaise(u) ==
  /\ ~handling[u]
  /\ Irqs!Insert(u) \/ Irqs!Kill(u)
  /\ UNCHANGED <<net, sync, seen>>

-----------------------------------------------------------------------------
(* The signal handler, on the same thread, also while it waits.            *)

HandlerStep(u) ==
  /\ Irqs!signal_handler(u) \/ Irqs!HandlerReturn(u)
  /\ UNCHANGED <<net, sync, seen>>

handle(u, o) ==
  /\ Irqs!handle(u, o)
  /\ seen' = [seen EXCEPT ![o] = level[o]]
  /\ UNCHANGED <<net, sync>>

-----------------------------------------------------------------------------
Load == Net!load_config /\ UNCHANGED <<irqs, sync, seen>>

ThreadStep(u) == Continue(u) \/ FinishRaise(u)

SignalStep(u) == HandlerStep(u) \/ \E o \in IrqPins : handle(u, o)

Next ==
  \/ Load
  \/ \E f \in Convert : hwmocker_set_gpio_irq_handler(f[1], f[2])
  \/ \E f \in Drive, value \in BOOLEAN : hwmocker_set_gpio_level(f[1], f[2], value)
  \/ \E u \in Unit : set_ready(u) \/ wait_ready(u) \/ ThreadStep(u) \/ SignalStep(u)

Spec == Init /\ [][Next]_vars

(* A thread inside a call of the library goes on, and the kernel delivers  *)
(* queued signals; nobody has to call anything.                            *)
Fairness == \A u \in Unit : WF_vars(ThreadStep(u)) /\ WF_vars(SignalStep(u))

FairSpec == Spec /\ Fairness

-----------------------------------------------------------------------------
(* Properties.                                                             *)

TypeOK ==
  /\ Net!TypeOK
  /\ Irqs!TypeOK
  /\ main \in [Unit -> {"setup", "await", "drive"}]
  /\ locked \subseteq Unit
  /\ seen \in [IrqPins -> BOOLEAN]

(* With one irq per wire, the ready mutexes keep the units apart: no unit  *)
(* drives a wire while the other converts its end, nothing that is deleted *)
(* is used, and every irq that is handled has its handler.                 *)
UnitsKeptApart ==
  /\ ~overlap
  /\ fault = "none"
  /\ \A u \in Unit : todo[u] \subseteq handler

AtRest(u) ==
  th[u].at = "idle" /\ call[u] = Irqs!Idle /\ signals[u] = 0 /\ ~handling[u]

(* When both threads and both signal queues are at rest, the last run of   *)
(* each handler came after the last change of its level: merged signals,   *)
(* a set that is never emptied and a walk that has passed the irq lose no  *)
(* level.  The unit whose last signal was refused is the exception.        *)
HandlersUpToDate ==
  (\A u \in Unit : AtRest(u)) =>
    \A o \in raised : seen[o] = level[o] \/ o[1] \in refused

(* A level on an irq pin is seen by its handler, or gives way to the other *)
(* one.  The signal may be refused, and a raising thread that is itself    *)
(* interrupted again and again may never come to send it.                  *)
LevelReachesHandler ==
  \A o \in IrqPins :
    \/ seen[o] # level[o] ~> seen[o] = level[o] \/ o[1] \in refused
    \/ []<>handling[Peer(o[1])]

(* On a unit with one irq the handler runs at most once per level that is  *)
(* set, as the tests count: "assert(host_irq_triggered == 1)"              *)
(* (test_gpio_irq.c:106).                                                  *)
OneRunPerLevel ==
  [][\A u \in Unit, o \in IrqPins :
       handle(u, o) /\ Cardinality({p \in IrqPins : p[1] = u}) = 1 => credit[u][o] > 0]_vars
=============================================================================
