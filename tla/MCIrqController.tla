-------------------------- MODULE MCIrqController --------------------------
(* Instances of IrqController for TLC: the two processing units of a       *)
(* system, with their gpio and spi irqs.                                   *)
EXTENDS IrqController

CONSTANTS soc, host, null, socGpio, socSpi, hostGpio, hostSpi, t1, t2

MCHome == [i \in Irq |-> IF i \in {hostGpio, hostSpi} THEN host ELSE soc]

(* The soc's thread started late, and has no destination.                  *)
MCDest == [c \in Ctl |-> IF c = host THEN soc ELSE null]

(* t1 is the host's thread, t2 a handler or a third thread on the host:    *)
(* both interrupt the soc, and t2 the host, whose only raiser it is.       *)
MixedReach == [x \in Ctx |-> IF x = t1 THEN {soc} ELSE {soc, host} \cap Ctl]

(* Bounds: no state is explored further once a flag of enableIrqs is up,   *)
(* or all irqs are in all sets.                                            *)
FewStates ==
  /\ \A c \in Ctl : ~allirqs_enabled[c]
  /\ \E c \in Ctl : pending_irqs[c] # Irq

(* Only raises send signals, and no walk comes back to an irq: what is     *)
(* left is that the set is the same for each walk.                         *)
PlainStep == UNCHANGED allirqs_enabled /\ \A c \in Ctl : handling[c] => todo'[c] \subseteq todo[c]

PlainSpec == Init /\ [][Next /\ PlainStep]_vars
=============================================================================
