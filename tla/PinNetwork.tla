---------------------------- MODULE PinNetwork ----------------------------
(***************************************************************************)
(* The wires between the two processing units: System::load_config builds  *)
(* them (System.cpp, ProcessingUnit::load_config, Pin::connect,            *)
(* SpiDevice::set_remote); then the main function of each unit turns gpios *)
(* into irqs (set_gpio_irq, the GpioIrq constructor) and drives levels     *)
(* (set_gpio_value, change, on_change) across them.                        *)
(*                                                                         *)
(* Nothing of this is locked.  A pin object is <<unit, number, class>>.    *)
(* What happens to a raised irq is the subject of module IrqController,    *)
(* what main functions do to keep out of one another's way that of module  *)
(* GpioIrqs: here they convert and drive at any time.                      *)
(***************************************************************************)
EXTENDS Naturals, Sequences, SequencesExt

CONSTANTS
  soc, host,
  GpioPins,     \* gpio-pins of a unit
  SpiPins,      \* a function from "mosi", "miso", "clk", "csn" to numbers, or from {}
  Connections,  \* host-soc-pin-connections, in order: <<host pin, soc pin>>
  Convert,      \* the <<unit, number>> that main functions turn into irqs
  Drive         \* the <<unit, number>> whose level they set

Unit == {soc, host}
Peer(u) == IF u = soc THEN host ELSE soc
Lines == {"mosi", "miso", "clk", "csn"}

ASSUME UnitAssumption == soc # host
ASSUME PinAssumption ==
  /\ GpioPins \in [Unit -> SUBSET Nat]
  /\ \A u \in Unit : DOMAIN SpiPins[u] \in {{}, Lines}
  /\ Connections \in Seq(Nat \X Nat)
  /\ Convert \cup Drive \subseteq Unit \X Nat

VARIABLES
  loaded,      \* how far load_config is: the next connection, then the spi devices
  remote,      \* units whose spi device has its remote_spi_dev
  connected,   \* connected_pins of every object
  alive,       \* the objects that are not deleted
  gpios,       \* numbers of the Gpio objects of a unit
  gpio_irqs,   \* and of its GpioIrq objects
  handler,     \* GpioIrq objects whose handler is set
  level,       \* Gpio::level
  raised,      \* GpioIrq objects that local_raise was called for
  th,          \* the thread of a unit
  fault,       \* undefined behaviour: what went wrong, or "none"
  overlap,     \* ghost: both units were at work on one wire, one of them converting
  fresh        \* ghost: GpioIrq objects whose level was not set since they exist

config == <<loaded, remote>>
pins   == <<connected, alive, gpios, gpio_irqs, handler>>
levels == <<level, raised, fresh>>
vars   == <<config, pins, levels, th, fault, overlap>>

Null == <<"null", 0, "null">>
Gpio(u, i) == <<u, i, "gpio">>
GpioIrq(u, i) == <<u, i, "irq">>
SpiPin(u, line) == <<u, SpiPins[u][line], "spi">>

Objects == UNION { {Gpio(u, i) : i \in GpioPins[u]}
                   \cup {GpioIrq(u, i) : i \in GpioPins[u]}
                   \cup {SpiPin(u, line) : line \in DOMAIN SpiPins[u]} : u \in Unit}

(* pin: the object at work, value: the level it passes on, k: the place in *)
(* its list, peer: the pin that was read there, or Null.                   *)
AtPin(at, o, value) == [at |-> at, pin |-> o, value |-> value, k |-> 1, peer |-> Null]

IdleThread == AtPin("idle", Null, FALSE)

Init ==
  /\ loaded = 1
  /\ remote = {}
  /\ connected = [o \in Objects |-> <<>>]
  /\ alive = {o \in Objects : o[3] # "irq"}
  /\ gpios = GpioPins
  /\ gpio_irqs = [u \in Unit |-> {}]
  /\ handler = {}
  /\ level = [o \in Objects |-> FALSE]
  /\ raised = {}
  /\ th = [u \in Unit |-> IdleThread]
  /\ fault = "none"
  /\ overlap = FALSE
  /\ fresh = {}

-----------------------------------------------------------------------------
(* Loading the configuration, on the caller's thread, while the threads of *)
(* the units wait to be started (module Lifecycle).                        *)

(* SpiDevice::getPin of u's device                                         *)
getPin(u, i) ==
  IF \E line \in DOMAIN SpiPins[u] : SpiPins[u][line] = i THEN <<u, i, "spi">> ELSE Null

(* get_pin: gpios first, then irqs, then the pins of the spi devices       *)
get_pin(u, i) ==
  CASE i \in gpios[u] -> Gpio(u, i)
    [] i \in gpio_irqs[u] -> GpioIrq(u, i)
    [] OTHER -> getPin(u, i)

(* Pin::connect: p's list, with pin q in it                                *)
connect(list, q) == IF q \in ToSet(list) THEN list ELSE Append(list, q)

LoadConnection ==
  LET host_pin == get_pin(host, Connections[loaded][1])
      soc_pin  == get_pin(soc, Connections[loaded][2])
  IN /\ loaded <= Len(Connections)
     /\ loaded' = loaded + 1
     /\ connected' = IF Null \in {host_pin, soc_pin}
                     THEN connected
                     ELSE [connected EXCEPT ![soc_pin] = connect(@, host_pin),
                                            ![host_pin] = connect(@, soc_pin)]
     /\ UNCHANGED <<remote, alive, gpios, gpio_irqs, handler, levels, th, fault, overlap>>

(* SpiDevice::set_remote of u's device; the chip select is not looked at.  *)
Reaches(u, v) ==
  /\ DOMAIN SpiPins[u] # {} /\ DOMAIN SpiPins[v] # {}
  /\ \A line \in {"mosi", "miso", "clk"} :
       SpiPin(v, line) \in ToSet(connected[SpiPin(u, line)])

(* Faulty variant: the assert is compiled out, and the call with it.       *)
ConnectSpiNoAssert ==
  /\ loaded = Len(Connections) + 1
  /\ loaded' = loaded + 1
  /\ remote' = {u \in {host} : Reaches(host, soc)}
  /\ UNCHANGED <<pins, levels, th, fault, overlap>>

(* The soc's call is the argument of an assert.                            *)
ConnectSpi ==
  /\ loaded = Len(Connections) + 1
  /\ loaded' = loaded + 1
  /\ remote' = {u \in Unit : Reaches(host, soc) /\ (u = soc => Reaches(soc, host))}
  /\ fault' = IF remote' = {host} THEN "assertion" ELSE fault
  /\ UNCHANGED <<pins, levels, th, overlap>>

-----------------------------------------------------------------------------
(* The main functions.                                                     *)

Runs(u, pc) == fault = "none" /\ loaded = Len(Connections) + 2 /\ th[u].at = pc

Fail(why) == fault' = why /\ UNCHANGED <<config, pins, levels, th, overlap>>

NextPeer(u) == th' = [th EXCEPT ![u].k = @ + 1, ![u].peer = Null]

(* The other unit is at work, in one of these ways, on a pin wired to o.   *)
Meets(u, o, ways) ==
  LET v == Peer(u)
  IN /\ th[v].at \in ways
     /\ \E p \in ToSet(connected[o]) : p[1] = v /\ p[2] = th[v].pin[2]

(* The loops over connected_pins read a pointer before they use it.        *)
Fetch(u) ==
  /\ Runs(u, "rewire") \/ Runs(u, "change")
  /\ th[u].peer = Null
  /\ th[u].k <= Len(connected[th[u].pin])
  /\ th' = [th EXCEPT ![u].peer = connected[th[u].pin][th[u].k]]
  /\ UNCHANGED <<config, pins, levels, fault, overlap>>

(* A number that is not a gpio (any more) is refused with -EINVAL and      *)
(* changes nothing.  A new pin is low.                                     *)
set_gpio_irq(u, i) ==
  /\ Runs(u, "idle")
  /\ <<u, i>> \in Convert
  /\ i \in gpios[u]
  /\ alive' = alive \cup {GpioIrq(u, i)}
  /\ th' = [th EXCEPT ![u] = AtPin("rewire", Gpio(u, i), FALSE)]
  /\ overlap' = (overlap \/ Meets(u, Gpio(u, i), {"rewire", "replace", "change"}))
  /\ fresh' = fresh \cup {GpioIrq(u, i)}
  /\ UNCHANGED <<config, connected, gpios, gpio_irqs, handler, level, raised, fault>>

(* Faulty variants: the gpio keeps its place in the list; the irq is added *)
(* next to it.                                                             *)
Kept(list, gpio, irq) == list

Added(list, gpio, irq) == Append(list, irq)

(* The irq takes the place of the gpio in a list.                          *)
Replaced(list, gpio, irq) == [j \in DOMAIN list |-> IF list[j] = gpio THEN irq ELSE list[j]]

(* The constructor of GpioIrq: it takes the place of the gpio in the list  *)
(* of each pin the gpio is connected to (connect put it there once).  It   *)
(* does not check that it found the gpio there.                            *)
Rewire(u) ==
  LET gpio == th[u].pin
      irq  == GpioIrq(u, gpio[2])
      p    == th[u].peer
  IN /\ Runs(u, "rewire")
     /\ p # Null
     /\ IF p \notin alive THEN Fail("use after free")
        ELSE IF gpio \notin ToSet(connected[p]) THEN Fail("out of bounds")
        ELSE /\ connected' = [connected EXCEPT ![p] = Replaced(@, gpio, irq),
                                               ![irq] = Append(@, p)]
             /\ NextPeer(u)
             /\ UNCHANGED <<config, alive, gpios, gpio_irqs, handler, levels, fault, overlap>>

(* Faulty variant: the handler is forgotten.                               *)
set_handler_not(o) == UNCHANGED handler

set_handler(o) == handler' = handler \cup {o}

SetHandler(u) ==
  /\ Runs(u, "rewire")
  /\ th[u].k > Len(connected[th[u].pin])
  /\ set_handler(GpioIrq(u, th[u].pin[2]))
  /\ th' = [th EXCEPT ![u].at = "replace"]
  /\ UNCHANGED <<config, connected, alive, gpios, gpio_irqs, levels, fault, overlap>>

(* Faulty variant: the gpio stays in the vector.                           *)
erase_not(numbers, i) == numbers

erase(numbers, i) == numbers \ {i}

(* The new object joins gpio_irqs; the gpio is erased and deleted.         *)
Replace(u) ==
  LET gpio == th[u].pin
  IN /\ Runs(u, "replace")
     /\ gpio_irqs' = [gpio_irqs EXCEPT ![u] = @ \cup {gpio[2]}]
     /\ gpios' = [gpios EXCEPT ![u] = erase(@, gpio[2])]
     /\ alive' = alive \ {gpio}
     /\ th' = [th EXCEPT ![u] = IdleThread]
     /\ UNCHANGED <<config, connected, handler, levels, fault, overlap>>

(* A number that is neither a gpio nor an irq has no effect.               *)
set_gpio_value(u, i, value) ==
  /\ Runs(u, "idle")
  /\ <<u, i>> \in Drive
  /\ i \in gpios[u] \cup gpio_irqs[u]
  /\ level' = [level EXCEPT ![get_pin(u, i)] = value]
  /\ fresh' = fresh \ {get_pin(u, i)}
  /\ th' = [th EXCEPT ![u] = AtPin("change", get_pin(u, i), value)]
  /\ overlap' = (overlap \/ Meets(u, get_pin(u, i), {"rewire", "replace"}))
  /\ UNCHANGED <<config, pins, raised, fault>>

(* Faulty variant: an irq is raised and does not take the level.           *)
on_change_gpio(p, value) ==
  level' = IF p[3] = "irq" THEN level ELSE [level EXCEPT ![p] = value]

on_change(p, value) == level' = [level EXCEPT ![p] = value]

(* One iteration of Pin::change: on_change of a connected pin, with the    *)
(* level that was set, whatever the pin's level is now.  An irq is raised  *)
(* by every level that is set, also when it stays the same.                *)
Change(u) ==
  LET p == th[u].peer
  IN /\ Runs(u, "change")
     /\ p # Null
     /\ IF p \notin alive THEN Fail("use after free")
        ELSE /\ on_change(p, th[u].value)
             /\ raised' = IF p[3] = "irq" THEN raised \cup {p} ELSE raised
             /\ fresh' = fresh \ {p}
             /\ NextPeer(u)
             /\ UNCHANGED <<config, pins, fault, overlap>>

ChangeDone(u) ==
  /\ Runs(u, "change")
  /\ th[u].k > Len(connected[th[u].pin])
  /\ th' = [th EXCEPT ![u] = IdleThread]
  /\ UNCHANGED <<config, pins, levels, fault, overlap>>

-----------------------------------------------------------------------------
load_config == LoadConnection \/ ConnectSpi

(* The steps of a library call after its first one                         *)
Continue(u) ==
  \/ Fetch(u) \/ Rewire(u) \/ SetHandler(u) \/ Replace(u) \/ Change(u) \/ ChangeDone(u)

Next ==
  \/ load_config
  \/ \E f \in Convert : set_gpio_irq(f[1], f[2])
  \/ \E f \in Drive, value \in BOOLEAN : set_gpio_value(f[1], f[2], value)
  \/ \E u \in Unit : Continue(u)

Spec == Init /\ [][Next]_vars

-----------------------------------------------------------------------------
(* Properties.                                                             *)

TypeOK ==
  /\ loaded \in 1 .. Len(Connections) + 2
  /\ remote \subseteq Unit
  /\ \A o \in Objects : ToSet(connected[o]) \subseteq Objects
  /\ alive \cup handler \cup raised \cup fresh \subseteq Objects
  /\ \A u \in Unit : gpios[u] \cup gpio_irqs[u] = GpioPins[u] /\ gpios[u] \cap gpio_irqs[u] = {}
  /\ level \in [Objects -> BOOLEAN]
  /\ \A u \in Unit : th[u].at \in {"idle", "rewire", "replace", "change"}
  /\ overlap \in BOOLEAN

Wired(o, p) == p \in ToSet(connected[o])

Converting(u) == th[u].at \in {"rewire", "replace"}

(* Whenever no conversion is in progress, the wires have two ends, which   *)
(* exist and know one another once: loading leaves no one-way connection,  *)
(* and a conversion leaves no pointer to the gpio it deletes.  The ends of *)
(* one wire may both become irqs, one after the other; only when both      *)
(* units were at work on it at once are its ends in doubt.                 *)
WiresHold ==
  overlap \/ (\E u \in Unit : Converting(u))
  \/ \A o \in alive : /\ IsInjective(connected[o])
                      /\ \A p \in ToSet(connected[o]) : p \in alive /\ Wired(p, o)

(* Both spi devices are connected to one another, or neither is: the       *)
(* assertion of System.cpp:100 holds.                                      *)
SpiBothOrNeither == remote \in {{}, Unit} /\ fault # "assertion"

(* No thread follows a pointer to a deleted pin, or writes behind a list   *)
(* of connected pins, unless it met the other unit on this wire, at some   *)
(* time, while one of them was converting its end.                         *)
NoStrayPointer == fault \in {"use after free", "out of bounds"} => overlap

(* An irq is raised only on a pin whose conversion is complete, with its   *)
(* handler set, with the same exception.                                   *)
RaisedHasHandler ==
  overlap \/ \A o \in raised : o \in handler /\ o[2] \in gpio_irqs[o[1]]

Drives(o, p) == \E f \in Drive : get_pin(f[1], f[2]) = o /\ (o = p \/ Wired(o, p))

(* When both units are at rest, a pin has the level of the only pin that   *)
(* drives it, whether they were converted or not, and whether the level    *)
(* was set before, between or after conversions.  The exceptions are a     *)
(* driver that is driven from the other side, too, a wire that both units  *)
(* were at work on, and a conversion that forgets the level the gpio had,  *)
(* until the level is set again.                                           *)
LevelsAgree ==
  overlap \/ (\E u \in Unit : th[u].at # "idle")
  \/ \A o, p \in alive \ fresh :
       /\ Drives(o, p)
       /\ \A q \in alive : Drives(q, p) \/ Drives(q, o) => q = o
       => level[p] = level[o]
=============================================================================
