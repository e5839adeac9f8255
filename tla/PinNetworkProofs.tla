-------------------------- MODULE PinNetworkProofs --------------------------
(* What module PinNetwork promises for any pins, any connections, and any  *)
(* conversions and levels that the main functions ask for at any time.     *)
EXTENDS PinNetwork, SequenceTheorems, TLAPS

(***************************************************************************)
(* The inductive invariant.  The lists of connected pins are told apart by *)
(* the numbers in them, which stay, and by the objects that stand for a    *)
(* number: a conversion replaces one by another, list by list.             *)
(***************************************************************************)

PinThread == [at : {"idle", "rewire", "replace", "change"}, pin : Objects \cup {Null},
              value : BOOLEAN, k : Nat \ {0}, peer : Objects \cup {Null}]

Started == loaded = Len(Connections) + 2

(* The object that is being built.                                         *)
Half(u) == GpioIrq(u, th[u].pin[2])

IsAlive(o) ==
  \/ o[3] = "spi"
  \/ o[3] = "gpio" /\ o[2] \in gpios[o[1]]
  \/ o[3] = "irq" /\ o[2] \in gpio_irqs[o[1]]
  \/ Converting(o[1]) /\ o = Half(o[1])

Typed ==
  /\ loaded \in 1 .. Len(Connections) + 2
  /\ remote \subseteq Unit
  /\ connected \in [Objects -> Seq(Objects)]
  /\ alive = {o \in Objects : IsAlive(o)}
  /\ handler \subseteq Objects /\ raised \subseteq Objects /\ fresh \subseteq Objects
  /\ gpios \in [Unit -> SUBSET Nat] /\ gpio_irqs \in [Unit -> SUBSET Nat]
  /\ \A u \in Unit : gpios[u] \cup gpio_irqs[u] = GpioPins[u] /\ gpios[u] \cap gpio_irqs[u] = {}
  /\ level \in [Objects -> BOOLEAN]
  /\ th \in [Unit -> PinThread]
  /\ fault \in {"none", "assertion", "use after free", "out of bounds"}
  /\ overlap \in BOOLEAN

(* Connected pins belong to the other unit.                                *)
Facing == \A o \in Objects : \A m \in DOMAIN connected[o] : connected[o][m][1] = Peer(o[1])

(* Where the thread of a unit is.                                          *)
Placed(u) ==
  /\ th[u].at # "idle" =>
       Started /\ th[u].pin[2] \in GpioPins[u] /\ th[u].pin = get_pin(u, th[u].pin[2])
  /\ Converting(u) => th[u].pin[2] \in gpios[u]
  /\ th[u].at \in {"idle", "replace"} => th[u].peer = Null
  /\ th[u].peer # Null => th[u].k <= Len(connected[th[u].pin]) /\ th[u].peer[1] = Peer(u)
  /\ th[u].at = "replace" => Half(u) \in handler /\ th[u].k > Len(connected[th[u].pin])
  /\ \A i \in gpio_irqs[u] : GpioIrq(u, i) \in handler
  /\ ~Started => gpio_irqs[u] = {}

Shape == Typed /\ Facing /\ \A w \in Unit : Placed(w)

(* The object that stands for its number.                                  *)
Main(o) == o = get_pin(o[1], o[2])

(* Pins of this number have the new object in their lists already.         *)
Rewired(u, i) ==
  \E l \in DOMAIN connected[th[u].pin] : l < th[u].k /\ connected[th[u].pin][l][2] = i

(* What pin <<v, j>> is called in the list of a peer with number i.        *)
Name(v, j, i) ==
  IF Converting(v) /\ th[v].pin[2] = j /\ Rewired(v, i) THEN GpioIrq(v, j) ELSE get_pin(v, j)

WellNamed ==
  \A o \in Objects : Main(o) =>
    \A m \in DOMAIN connected[o] :
      connected[o][m] = Name(Peer(o[1]), connected[o][m][2], o[2])

(* A number is at most once in a list.                                     *)
NumberedOnce ==
  \A o \in Objects : \A l, m \in DOMAIN connected[o] :
    connected[o][l][2] = connected[o][m][2] => l = m

Lists(o, i) == \E m \in DOMAIN connected[o] : connected[o][m][2] = i

BothWays ==
  \A o, p \in Objects :
    Main(o) /\ Main(p) /\ p[1] = Peer(o[1]) /\ Lists(o, p[2]) => Lists(p, o[2])

(* The object that is being built has the first peers of the one it        *)
(* replaces; others that stand for nothing yet have none.                  *)
HalfBuilt(u) ==
  Converting(u) =>
    /\ Len(connected[Half(u)]) = th[u].k - 1
    /\ th[u].k <= Len(connected[th[u].pin]) + 1
    /\ \A m \in 1 .. th[u].k - 1 : connected[Half(u)][m] = connected[th[u].pin][m]

Unborn ==
  \A o \in Objects :
    \/ o[3] = "spi" /\ ~Main(o)
    \/ o[3] = "irq" /\ o \notin alive
    => connected[o] = <<>>

(* A pin is not converted while the other unit is at work on a peer.       *)
KeptOff(u) ==
  Converting(u) /\ th[Peer(u)].at # "idle" => ~Lists(th[u].pin, th[Peer(u)].pin[2])

(* The pointer that was read is still in its place.                        *)
PeerInPlace(u) ==
  th[u].peer # Null =>
    th[u].k \in DOMAIN connected[th[u].pin] /\ th[u].peer = connected[th[u].pin][th[u].k]

Wires ==
  /\ WellNamed /\ NumberedOnce /\ BothWays /\ Unborn
  /\ \A u \in Unit : HalfBuilt(u) /\ KeptOff(u) /\ PeerInPlace(u)
  /\ fault = "none"
  /\ \A o \in raised : o[3] = "irq" /\ o[2] \in gpio_irqs[o[1]]

PinInv ==
  /\ Shape
  /\ remote \in {{}, Unit}
  /\ fault # "assertion"
  /\ ~overlap => Wires
  /\ ~Started => ~overlap

-----------------------------------------------------------------------------
(* Units, objects and numbers.                                             *)

LEMMA PeerUnit ==
  ASSUME NEW u \in Unit
  PROVE  /\ Peer(u) \in Unit /\ Peer(u) # u /\ Peer(Peer(u)) = u
         /\ \A w \in Unit : w = u \/ w = Peer(u)
BY UnitAssumption DEF Unit, Peer

LEMMA ObjectShape ==
  ASSUME NEW o \in Objects
  PROVE  /\ o[1] \in Unit /\ o # Null
         /\ \/ o = Gpio(o[1], o[2]) /\ o[3] = "gpio" /\ o[2] \in GpioPins[o[1]]
            \/ o = GpioIrq(o[1], o[2]) /\ o[3] = "irq" /\ o[2] \in GpioPins[o[1]]
            \/ /\ o = <<o[1], o[2], "spi">> /\ o[3] = "spi"
               /\ \E line \in DOMAIN SpiPins[o[1]] : SpiPins[o[1]][line] = o[2]
<1>1. PICK u \in Unit :
        \/ \E i \in GpioPins[u] : o = Gpio(u, i)
        \/ \E i \in GpioPins[u] : o = GpioIrq(u, i)
        \/ \E line \in DOMAIN SpiPins[u] : o = SpiPin(u, line)
  BY DEF Objects
<1>2. QED BY <1>1 DEF Gpio, GpioIrq, SpiPin, Null

LEMMA IsObject ==
  ASSUME NEW u \in Unit
  PROVE  /\ \A i \in GpioPins[u] : Gpio(u, i) \in Objects /\ GpioIrq(u, i) \in Objects
         /\ \A line \in DOMAIN SpiPins[u] : SpiPin(u, line) \in Objects
BY DEF Objects

LEMMA GetPin ==
  ASSUME Typed, NEW u \in Unit, NEW i
  PROVE  /\ i \in gpios[u] => get_pin(u, i) = Gpio(u, i)
         /\ i \in gpio_irqs[u] => get_pin(u, i) = GpioIrq(u, i)
         /\ i \notin GpioPins[u] => get_pin(u, i) = getPin(u, i)
         /\ \/ get_pin(u, i) = Null
            \/ get_pin(u, i) \in Objects /\ get_pin(u, i)[1] = u /\ get_pin(u, i)[2] = i
         /\ i \in GpioPins[u] => get_pin(u, i) \in alive
<1>1. /\ gpios[u] \cup gpio_irqs[u] = GpioPins[u] /\ gpios[u] \cap gpio_irqs[u] = {}
      /\ alive = {o \in Objects : IsAlive(o)}
  BY DEF Typed
<1>2. i \in gpios[u] => get_pin(u, i) = Gpio(u, i)
  BY <1>1 DEF get_pin
<1>3. i \in gpio_irqs[u] => get_pin(u, i) = GpioIrq(u, i)
  BY <1>1 DEF get_pin
<1>4. i \notin GpioPins[u] => get_pin(u, i) = getPin(u, i)
  BY <1>1 DEF get_pin
<1>5. getPin(u, i) = Null \/ (getPin(u, i) \in Objects /\ getPin(u, i) = <<u, i, "spi">>)
  BY IsObject DEF getPin, SpiPin
<1>6. i \in GpioPins[u] => Gpio(u, i) \in Objects /\ GpioIrq(u, i) \in Objects
  BY IsObject
<1>7. i \in gpios[u] => Gpio(u, i) \in alive
  BY <1>1, <1>6 DEF IsAlive, Gpio
<1>8. i \in gpio_irqs[u] => GpioIrq(u, i) \in alive
  BY <1>1, <1>6 DEF IsAlive, GpioIrq
<1>9. QED BY <1>1, <1>2, <1>3, <1>4, <1>5, <1>6, <1>7, <1>8 DEF Gpio, GpioIrq

(* A name is that of an object that exists.                                *)
LEMMA NameIsAlive ==
  ASSUME Typed, NEW v \in Unit, Placed(v), NEW j, NEW i
  PROVE  /\ Name(v, j, i) = Null
            \/ (Name(v, j, i) \in alive /\ Name(v, j, i)[1] = v /\ Name(v, j, i)[2] = j)
         /\ th[v].pin[2] # j \/ ~Converting(v) => Name(v, j, i) = get_pin(v, j)
<1>1. alive = {o \in Objects : IsAlive(o)}
  BY DEF Typed
<1>2. CASE Converting(v) /\ th[v].pin[2] = j /\ Rewired(v, i)
  <2>1. Name(v, j, i) = GpioIrq(v, j) /\ j \in GpioPins[v]
    BY <1>2 DEF Name, Placed, Typed
  <2>2. GpioIrq(v, j) \in Objects /\ IsAlive(GpioIrq(v, j))
    BY <1>2, <2>1, IsObject DEF IsAlive, Half, GpioIrq
  <2>3. QED BY <1>1, <1>2, <2>1, <2>2 DEF GpioIrq
<1>3. CASE ~(Converting(v) /\ th[v].pin[2] = j /\ Rewired(v, i))
  <2>1. Name(v, j, i) = get_pin(v, j)
    BY <1>3 DEF Name
  <2>2. get_pin(v, j) \in Objects => get_pin(v, j) \in alive
    <3>1. CASE j \in GpioPins[v]
      BY <3>1, GetPin
    <3>2. CASE j \notin GpioPins[v]
      <4>1. get_pin(v, j) = Null \/ get_pin(v, j) = <<v, j, "spi">>
        BY <3>2, GetPin DEF getPin
      <4>2. Null \notin Objects
        BY ObjectShape
      <4>3. get_pin(v, j) \in Objects => get_pin(v, j)[3] = "spi"
        BY <4>1, <4>2
      <4>4. QED BY <1>1, <4>3 DEF IsAlive
    <3>3. QED BY <3>1, <3>2
  <2>3. QED BY <2>1, <2>2, GetPin
<1>4. QED BY <1>2, <1>3

-----------------------------------------------------------------------------
(* What a step of a thread does to it.                                     *)

LEMMA ThreadSet ==
  ASSUME th \in [Unit -> PinThread], NEW u \in Unit, NEW r \in PinThread,
         th' = [th EXCEPT ![u] = r]
  PROVE  th' \in [Unit -> PinThread] /\ th'[u] = r /\ th'[Peer(u)] = th[Peer(u)]
BY PeerUnit

LEMMA AtPinType ==
  ASSUME NEW at \in {"idle", "rewire", "replace", "change"}, NEW o \in Objects \cup {Null},
         NEW value \in BOOLEAN
  PROVE  AtPin(at, o, value) \in PinThread
BY DEF AtPin, PinThread

LEMMA NextPeerEffect ==
  ASSUME th \in [Unit -> PinThread], NEW u \in Unit, NextPeer(u)
  PROVE  /\ th' \in [Unit -> PinThread] /\ th'[Peer(u)] = th[Peer(u)]
         /\ th'[u] = [th[u] EXCEPT !.k = @ + 1, !.peer = Null]
         /\ th'[u].at = th[u].at /\ th'[u].pin = th[u].pin /\ th'[u].value = th[u].value
         /\ th'[u].k = th[u].k + 1 /\ th'[u].peer = Null
<1>1. th[u] \in PinThread
  OBVIOUS
<1>2. th' = [th EXCEPT ![u] = [th[u] EXCEPT !.k = @ + 1, !.peer = Null]]
  BY DEF NextPeer
<1>3. [th[u] EXCEPT !.k = @ + 1, !.peer = Null] \in PinThread
  <2>1. th[u].k + 1 \in Nat \ {0}
    BY <1>1 DEF PinThread
  <2>2. QED BY <1>1, <2>1 DEF PinThread
<1>4. QED BY <1>1, <1>2, <1>3, ThreadSet DEF PinThread

LEMMA FetchEffect ==
  ASSUME Typed, NEW u \in Unit, Placed(u), Fetch(u)
  PROVE  /\ th' \in [Unit -> PinThread] /\ th'[Peer(u)] = th[Peer(u)]
         /\ th'[u].at = th[u].at /\ th'[u].pin = th[u].pin /\ th'[u].k = th[u].k
         /\ th'[u].value = th[u].value
         /\ th[u].k \in DOMAIN connected[th[u].pin]
         /\ th'[u].peer = connected[th[u].pin][th[u].k]
         /\ th[u].at \in {"rewire", "change"}
<1>1. th[u] \in PinThread /\ th \in [Unit -> PinThread] /\ connected \in [Objects -> Seq(Objects)]
  BY DEF Typed
<1>2. th[u].at \in {"rewire", "change"} /\ th[u].k <= Len(connected[th[u].pin])
  BY DEF Fetch, Runs
<1>3. th[u].pin \in Objects /\ th[u].k \in Nat \ {0}
  <2>1. th[u].pin = get_pin(u, th[u].pin[2]) /\ th[u].pin[2] \in GpioPins[u]
    BY <1>2 DEF Placed
  <2>2. th[u].pin \in alive
    BY <2>1, GetPin
  <2>3. alive = {o \in Objects : IsAlive(o)}
    BY DEF Typed
  <2>4. QED BY <1>1, <2>2, <2>3 DEF PinThread
<1>4. th[u].k \in DOMAIN connected[th[u].pin] /\ connected[th[u].pin][th[u].k] \in Objects
  BY <1>1, <1>2, <1>3
<1>5. th' = [th EXCEPT ![u] = [th[u] EXCEPT !.peer = connected[th[u].pin][th[u].k]]]
  BY <1>1 DEF Fetch
<1>6. [th[u] EXCEPT !.peer = connected[th[u].pin][th[u].k]] \in PinThread
  BY <1>1, <1>4 DEF PinThread
<1>7. QED BY <1>1, <1>2, <1>4, <1>5, <1>6, ThreadSet DEF PinThread

LEMMA SetHandlerEffect ==
  ASSUME th \in [Unit -> PinThread], NEW u \in Unit, SetHandler(u)
  PROVE  /\ th' \in [Unit -> PinThread] /\ th'[Peer(u)] = th[Peer(u)]
         /\ th[u].at = "rewire" /\ th'[u].at = "replace" /\ th'[u].pin = th[u].pin
         /\ th'[u].k = th[u].k /\ th'[u].peer = th[u].peer
<1>1. th[u] \in PinThread /\ th[u].at = "rewire"
  BY DEF SetHandler, Runs
<1>2. th' = [th EXCEPT ![u] = [th[u] EXCEPT !.at = "replace"]]
  BY DEF SetHandler
<1>3. [th[u] EXCEPT !.at = "replace"] \in PinThread
  BY <1>1 DEF PinThread
<1>4. QED BY <1>1, <1>2, <1>3, ThreadSet DEF PinThread

-----------------------------------------------------------------------------
(* Types and places, whether the units met or not.                         *)

LEMMA PlacedFrame ==
  ASSUME NEW w \in Unit, Placed(w), th'[w] = th[w], Started => Started', handler \subseteq handler',
         gpios'[w] = gpios[w], gpio_irqs'[w] = gpio_irqs[w],
         th[w].at # "idle" => Len(connected'[th[w].pin]) = Len(connected[th[w].pin])
  PROVE  Placed(w)'
<1>1. \A i : get_pin(w, i)' = get_pin(w, i)
  BY DEF get_pin, getPin
<1>2. (Converting(w)' <=> Converting(w)) /\ Half(w)' = Half(w)
  BY DEF Converting, Half
<1>3. th[w].at # "idle" =>
        th[w].pin[2] \in GpioPins[w] /\ th[w].pin = get_pin(w, th[w].pin[2])'
  BY <1>1 DEF Placed
<1>4. QED BY <1>1, <1>2, <1>3 DEF Placed

LEMMA AliveKept ==
  ASSUME Typed, UNCHANGED <<alive, gpios, gpio_irqs>>,
         \A w \in Unit : Converting(w)' <=> Converting(w),
         \A w \in Unit : Converting(w) => th'[w].pin = th[w].pin
  PROVE  alive' = {o \in Objects : IsAlive(o)'}
<1>1. \A o \in Objects : IsAlive(o)' <=> IsAlive(o)
  BY ObjectShape DEF IsAlive, Half
<1>2. QED BY <1>1 DEF Typed

(* The object a thread is at work on.                                      *)
LEMMA PinOfThread ==
  ASSUME Typed, NEW u \in Unit, Placed(u), th[u].at # "idle"
  PROVE  /\ th[u].pin \in alive /\ th[u].pin \in Objects /\ Main(th[u].pin)
         /\ th[u].pin[1] = u
         /\ th[u].k \in Nat \ {0}
         /\ Converting(u) => /\ th[u].pin = Gpio(u, th[u].pin[2])
                             /\ Half(u) \in Objects /\ Half(u) \in alive
                             /\ th[u].pin[2] \in GpioPins[u]
<1>1. th[u].pin = get_pin(u, th[u].pin[2]) /\ th[u].pin[2] \in GpioPins[u]
  BY DEF Placed
<1>2. th[u] \in PinThread /\ alive = {o \in Objects : IsAlive(o)}
  BY DEF Typed
<1>3. th[u].pin \in alive /\ th[u].pin \in Objects /\ th[u].pin[1] = u
  BY <1>1, <1>2, GetPin, ObjectShape
<1>4. CASE Converting(u)
  <2>1. Half(u) \in Objects /\ IsAlive(Half(u))
    BY <1>1, <1>4, IsObject DEF Half, IsAlive, GpioIrq
  <2>2. th[u].pin = Gpio(u, th[u].pin[2])
    BY <1>1, <1>4, GetPin DEF Placed
  <2>3. QED BY <1>1, <1>2, <1>3, <2>1, <2>2 DEF PinThread, Main
<1>5. CASE ~Converting(u)
  BY <1>1, <1>2, <1>3, <1>5 DEF PinThread, Main
<1>6. QED BY <1>4, <1>5

LEMMA ReplacedList ==
  ASSUME NEW list \in Seq(Objects), NEW a, NEW b \in Objects
  PROVE  /\ Replaced(list, a, b) \in Seq(Objects)
         /\ Len(Replaced(list, a, b)) = Len(list)
         /\ DOMAIN Replaced(list, a, b) = DOMAIN list
         /\ \A j \in DOMAIN list :
              Replaced(list, a, b)[j] = IF list[j] = a THEN b ELSE list[j]
<1>1. DOMAIN list = 1 .. Len(list) /\ \A j \in 1 .. Len(list) : list[j] \in Objects
  OBVIOUS
<1>2. \A j \in 1 .. Len(list) : (IF list[j] = a THEN b ELSE list[j]) \in Objects
  BY <1>1
<1>3. QED BY <1>1, <1>2 DEF Replaced

LEMMA FetchShape ==
  ASSUME Shape, NEW u \in Unit, Fetch(u)
  PROVE  Shape'
<1>1. Typed /\ Placed(u) /\ Placed(Peer(u)) /\ Peer(u) \in Unit
  BY PeerUnit DEF Shape
<1>2. /\ th' \in [Unit -> PinThread] /\ th'[Peer(u)] = th[Peer(u)]
      /\ th'[u].at = th[u].at /\ th'[u].pin = th[u].pin /\ th'[u].k = th[u].k
      /\ th[u].at \in {"rewire", "change"} /\ th[u].k <= Len(connected[th[u].pin])
      /\ UNCHANGED <<config, pins, levels, fault, overlap>>
  BY <1>1, FetchEffect DEF Fetch, Typed
<1>3. \A w \in Unit : (Converting(w)' <=> Converting(w)) /\ th'[w].pin = th[w].pin
  BY <1>2, PeerUnit DEF Converting
<1>4. Typed' /\ Facing'
  BY <1>1, <1>2, <1>3, AliveKept DEF Shape, Typed, Facing, config, pins, levels
<1>5. Placed(Peer(u))'
  BY <1>1, <1>2, PlacedFrame DEF config, pins, Started
<1>6. Placed(u)'
  <2>1. \A i : get_pin(u, i)' = get_pin(u, i)
    BY <1>2 DEF get_pin, getPin, pins
  <2>2. Started' <=> Started
    BY <1>2 DEF Started, config
  <2>3. th'[u].pin = get_pin(u, th[u].pin[2])'
    BY <1>1, <1>2, <2>1 DEF Placed
  <2>4. th'[u].peer[1] = Peer(u)
    BY <1>1, FetchEffect, PinOfThread DEF Shape, Facing
  <2>5. QED BY <1>1, <1>2, <1>3, <2>1, <2>2, <2>3, <2>4 DEF Placed, pins
<1>7. QED BY <1>4, <1>5, <1>6, PeerUnit DEF Shape

LEMMA FailShape ==
  ASSUME Shape, NEW why \in {"use after free", "out of bounds"}, Fail(why)
  PROVE  Shape' /\ UNCHANGED <<overlap, remote, loaded>> /\ fault' = why
<1>1. UNCHANGED <<config, pins, levels, th, overlap>> /\ fault' = why
  BY DEF Fail
<1>2. alive' = {o \in Objects : IsAlive(o)'}
  BY <1>1, AliveKept DEF Shape, pins, Converting
<1>3. Typed' /\ Facing'
  BY <1>1, <1>2 DEF Shape, Typed, Facing, config, pins, levels
<1>4. \A w \in Unit : Placed(w)'
  BY <1>1, PlacedFrame DEF Shape, config, pins, Started
<1>5. QED BY <1>1, <1>3, <1>4 DEF Shape, config

(* The set of the pins in a list                                           *)
LEMMA InList ==
  ASSUME NEW list, NEW q
  PROVE  q \in ToSet(list) <=> \E m \in DOMAIN list : list[m] = q
BY DEF ToSet

LEMMA AppendedAt ==
  ASSUME connected \in [Objects -> Seq(Objects)], NEW irq \in Objects, NEW p \in Objects
  PROVE  \E list \in Seq(Objects) :
           /\ list = Append(connected[irq], p)
           /\ Len(list) = Len(connected[irq]) + 1
           /\ list[Len(connected[irq]) + 1] = p
           /\ \A m \in DOMAIN connected[irq] : list[m] = connected[irq][m]
           /\ DOMAIN list = DOMAIN connected[irq] \cup {Len(connected[irq]) + 1}
<1>1. connected[irq] \in Seq(Objects)
  OBVIOUS
<1>2. DOMAIN Append(connected[irq], p) = DOMAIN connected[irq] \cup {Len(connected[irq]) + 1}
  BY <1>1
<1>3. /\ Append(connected[irq], p) \in Seq(Objects)
      /\ Len(Append(connected[irq], p)) = Len(connected[irq]) + 1
      /\ Append(connected[irq], p)[Len(connected[irq]) + 1] = p
      /\ \A m \in DOMAIN connected[irq] : Append(connected[irq], p)[m] = connected[irq][m]
  BY <1>1
<1>4. WITNESS Append(connected[irq], p) \in Seq(Objects)
<1>5. QED BY <1>2, <1>3

LEMMA ConnectedList ==
  ASSUME connected \in [Objects -> Seq(Objects)], NEW o \in Objects, NEW q \in Objects
  PROVE  /\ connect(connected[o], q) \in Seq(Objects)
         /\ \A m \in DOMAIN connect(connected[o], q) :
              \/ m \in DOMAIN connected[o] /\ connect(connected[o], q)[m] = connected[o][m]
              \/ connect(connected[o], q)[m] = q
         /\ q \in ToSet(connect(connected[o], q))
         /\ \A m \in DOMAIN connected[o] :
              m \in DOMAIN connect(connected[o], q) /\ connect(connected[o], q)[m] = connected[o][m]
         /\ q \in ToSet(connected[o]) => connect(connected[o], q) = connected[o]
         /\ q \notin ToSet(connected[o]) => connect(connected[o], q) = Append(connected[o], q)
<1>1. connected[o] \in Seq(Objects) /\ DOMAIN connected[o] = 1 .. Len(connected[o])
  OBVIOUS
<1>2. CASE q \in ToSet(connected[o])
  BY <1>1, <1>2 DEF connect
<1>3. CASE q \notin ToSet(connected[o])
  <2>1. connect(connected[o], q) = Append(connected[o], q)
    BY <1>3 DEF connect
  <2>2. PICK list \in Seq(Objects) :
          /\ list = Append(connected[o], q)
          /\ Len(list) = Len(connected[o]) + 1
          /\ list[Len(connected[o]) + 1] = q
          /\ \A m \in DOMAIN connected[o] : list[m] = connected[o][m]
          /\ DOMAIN list = DOMAIN connected[o] \cup {Len(connected[o]) + 1}
    BY AppendedAt
  <2>3. q \in ToSet(list)
    BY <2>2, InList
  <2>4. connect(connected[o], q) = list
    BY <2>1, <2>2
  <2>5. QED BY <1>3, <2>1, <2>2, <2>3, <2>4
<1>4. QED BY <1>2, <1>3

LEMMA LoadShape ==
  ASSUME Shape, LoadConnection
  PROVE  Shape'
<1>1. /\ UNCHANGED <<remote, alive, gpios, gpio_irqs, handler, levels, th, fault, overlap>>
      /\ loaded' = loaded + 1 /\ loaded <= Len(Connections)
  BY DEF LoadConnection
<1>2. ~Started /\ ~Started' /\ loaded' \in 1 .. Len(Connections) + 2
  <2>1. Len(Connections) \in Nat
    BY PinAssumption
  <2>2. loaded \in 1 .. Len(Connections) + 2
    BY DEF Shape, Typed
  <2>3. QED BY <1>1, <2>1, <2>2 DEF Started
<1>3. connected' \in [Objects -> Seq(Objects)] /\ Facing'
  <2>1. connected \in [Objects -> Seq(Objects)]
    BY DEF Shape, Typed
  <2>2. soc \in Unit /\ host \in Unit /\ Typed
    BY DEF Unit, Shape
  <2> DEFINE h == get_pin(host, Connections[loaded][1])
             s == get_pin(soc, Connections[loaded][2])
  <2>3. (h = Null \/ (h \in Objects /\ h[1] = host)) /\ (s = Null \/ (s \in Objects /\ s[1] = soc))
    BY <2>2, GetPin
  <2>4. connected' = IF Null \in {h, s} THEN connected
                     ELSE [connected EXCEPT ![s] = connect(@, h), ![h] = connect(@, s)]
    BY DEF LoadConnection
  <2> HIDE DEF h, s
  <2>5. CASE connected' = connected
    BY <2>1, <2>5 DEF Shape, Facing
  <2>6. CASE h # Null /\ s # Null
    <3>1. h \in Objects /\ s \in Objects /\ h # s
      BY <2>3, <2>6, UnitAssumption
    <3>2. /\ connect(connected[s], h) \in Seq(Objects) /\ connect(connected[h], s) \in Seq(Objects)
          /\ \A m \in DOMAIN connect(connected[s], h) :
               \/ m \in DOMAIN connected[s] /\ connect(connected[s], h)[m] = connected[s][m]
               \/ connect(connected[s], h)[m] = h
          /\ \A m \in DOMAIN connect(connected[h], s) :
               \/ m \in DOMAIN connected[h] /\ connect(connected[h], s)[m] = connected[h][m]
               \/ connect(connected[h], s)[m] = s
      BY <2>1, <3>1, ConnectedList
    <3>3. connected' = [connected EXCEPT ![s] = connect(@, h), ![h] = connect(@, s)]
      BY <2>4, <2>6
    <3>4. connected' \in [Objects -> Seq(Objects)]
      BY <2>1, <3>1, <3>2, <3>3
    <3>5. /\ connected'[s] = connect(connected[s], h) /\ connected'[h] = connect(connected[h], s)
          /\ \A o \in Objects \ {h, s} : connected'[o] = connected[o]
      BY <2>1, <3>1, <3>3
    <3>6. Peer(s[1]) = h[1] /\ Peer(h[1]) = s[1]
      BY <2>3, <2>6, UnitAssumption DEF Peer
    <3>7. Facing'
      BY <3>1, <3>2, <3>5, <3>6 DEF Shape, Facing
    <3>8. QED BY <3>4, <3>7
  <2>7. QED BY <2>4, <2>5, <2>6
<1>4. \A w \in Unit : th[w].at = "idle"
  BY <1>2 DEF Shape, Placed
<1>5. \A w \in Unit : Placed(w)'
  BY <1>1, <1>2, <1>4 DEF Shape, Placed, Converting
<1>6. alive' = {o \in Objects : IsAlive(o)'}
  BY <1>1, AliveKept DEF Shape, Converting
<1>7. Typed'
  BY <1>1, <1>2, <1>3, <1>6 DEF Shape, Typed, levels
<1>8. QED BY <1>3, <1>5, <1>7 DEF Shape

LEMMA ConnectShape ==
  ASSUME Shape, ConnectSpi
  PROVE  Shape'
<1>1. /\ UNCHANGED <<pins, levels, th, overlap>>
      /\ loaded' = loaded + 1 /\ loaded = Len(Connections) + 1
      /\ remote' \subseteq Unit
      /\ fault' \in {"assertion", fault}
  BY DEF ConnectSpi
<1>2. ~Started /\ loaded' \in 1 .. Len(Connections) + 2
  <2>1. Len(Connections) \in Nat
    BY PinAssumption
  <2>2. QED BY <1>1, <2>1 DEF Started
<1>3. \A w \in Unit : th[w].at = "idle"
  BY <1>2 DEF Shape, Placed
<1>4. \A w \in Unit : Placed(w)'
  BY <1>1, <1>2, <1>3 DEF Shape, Placed, Converting, pins
<1>5. alive' = {o \in Objects : IsAlive(o)'}
  BY <1>1, AliveKept DEF Shape, Converting, pins
<1>6. Typed' /\ Facing'
  BY <1>1, <1>2, <1>5 DEF Shape, Typed, Facing, levels, pins
<1>7. QED BY <1>4, <1>6 DEF Shape

LEMMA set_gpio_irqShape ==
  ASSUME Shape, NEW u \in Unit, NEW i, set_gpio_irq(u, i)
  PROVE  /\ Shape'
         /\ th[u].at = "idle" /\ i \in gpios[u] /\ Gpio(u, i) = get_pin(u, i)
         /\ th'[u] = AtPin("rewire", Gpio(u, i), FALSE) /\ th'[Peer(u)] = th[Peer(u)]
         /\ \A w \in Unit : \A j : get_pin(w, j)' = get_pin(w, j)
<1>1. Typed /\ Placed(Peer(u)) /\ Peer(u) \in Unit /\ Placed(u)
  BY PeerUnit DEF Shape
<1>2. /\ i \in gpios[u] /\ th[u].at = "idle" /\ Started
      /\ UNCHANGED <<config, connected, gpios, gpio_irqs, handler, level, raised, fault>>
      /\ alive' = alive \cup {GpioIrq(u, i)} /\ fresh' = fresh \cup {GpioIrq(u, i)}
      /\ th' = [th EXCEPT ![u] = AtPin("rewire", Gpio(u, i), FALSE)]
      /\ overlap' \in BOOLEAN
  BY DEF set_gpio_irq, Runs, Started
<1>3. /\ i \in GpioPins[u] /\ GpioIrq(u, i) \in Objects /\ Gpio(u, i) \in Objects
      /\ Gpio(u, i) = get_pin(u, i)
  <2>1. i \in GpioPins[u]
    BY <1>1, <1>2 DEF Typed
  <2>2. QED BY <1>1, <1>2, <2>1, IsObject, GetPin
<1>4. /\ th' \in [Unit -> PinThread] /\ th'[u] = AtPin("rewire", Gpio(u, i), FALSE)
      /\ th'[Peer(u)] = th[Peer(u)]
  BY <1>1, <1>2, <1>3, ThreadSet, AtPinType DEF Typed
<1>5. \A w \in Unit : \A j : get_pin(w, j)' = get_pin(w, j)
  BY <1>2 DEF get_pin, getPin
<1>6. /\ th'[u].at = "rewire" /\ th'[u].pin = Gpio(u, i) /\ th'[u].peer = Null
      /\ Half(u)' = GpioIrq(u, i)
  BY <1>4 DEF AtPin, Half, Gpio
<1>7. Placed(u)'
  <2>1. th'[u].pin[2] = i
    BY <1>6 DEF Gpio
  <2>2. th'[u].pin = get_pin(u, i)'
    BY <1>3, <1>5, <1>6
  <2>3. Started' /\ UNCHANGED <<gpios, gpio_irqs, handler>>
    BY <1>2 DEF Started, config
  <2>4. QED BY <1>1, <1>2, <1>3, <1>6, <2>1, <2>2, <2>3 DEF Placed
<1>8. Placed(Peer(u))'
  BY <1>1, <1>2, <1>4, PlacedFrame DEF config, Started
<1>9. alive' = {o \in Objects : IsAlive(o)'}
  <2>1. \A o \in Objects : IsAlive(o)' <=> IsAlive(o) \/ o = GpioIrq(u, i)
    <3> SUFFICES ASSUME NEW o \in Objects PROVE IsAlive(o)' <=> IsAlive(o) \/ o = GpioIrq(u, i)
      OBVIOUS
    <3>1. o[1] = u \/ o[1] = Peer(u)
      BY ObjectShape, PeerUnit
    <3>2. CASE o[1] = u
      <4>1. ~Converting(o[1]) /\ Converting(o[1])' /\ Half(o[1])' = GpioIrq(u, i)
        BY <1>2, <1>6, <3>2 DEF Converting
      <4>2. QED BY <1>2, <4>1 DEF IsAlive
    <3>3. CASE o[1] = Peer(u)
      <4>1. (Converting(o[1])' <=> Converting(o[1])) /\ Half(o[1])' = Half(o[1])
        BY <1>4, <3>3 DEF Converting, Half
      <4>2. o # GpioIrq(u, i)
        BY <3>3, PeerUnit DEF GpioIrq
      <4>3. QED BY <1>2, <4>1, <4>2 DEF IsAlive
    <3>4. QED BY <3>1, <3>2, <3>3
  <2>2. QED BY <1>1, <1>2, <1>3, <2>1 DEF Typed
<1>10. Typed'
  BY <1>1, <1>2, <1>3, <1>4, <1>9 DEF Typed, config
<1>12. Facing'
  BY <1>2 DEF Shape, Facing, pins
<1>11. QED BY <1>12, <1>2, <1>3, <1>4, <1>5, <1>7, <1>8, <1>10, PeerUnit DEF Shape

LEMMA set_gpio_valueShape ==
  ASSUME Shape, NEW u \in Unit, NEW i, NEW value \in BOOLEAN, set_gpio_value(u, i, value)
  PROVE  /\ Shape'
         /\ th[u].at = "idle" /\ get_pin(u, i) \in Objects
         /\ get_pin(u, i)[1] = u /\ get_pin(u, i)[2] = i
         /\ th'[u] = AtPin("change", get_pin(u, i), value) /\ th'[Peer(u)] = th[Peer(u)]
         /\ UNCHANGED <<config, pins, raised, fault>>
<1>1. Typed /\ Placed(Peer(u)) /\ Peer(u) \in Unit /\ Placed(u)
  BY PeerUnit DEF Shape
<1>2. /\ i \in gpios[u] \cup gpio_irqs[u] /\ th[u].at = "idle" /\ Started
      /\ UNCHANGED <<config, pins, raised, fault>>
      /\ level' = [level EXCEPT ![get_pin(u, i)] = value]
      /\ fresh' = fresh \ {get_pin(u, i)}
      /\ th' = [th EXCEPT ![u] = AtPin("change", get_pin(u, i), value)]
      /\ overlap' \in BOOLEAN
  BY DEF set_gpio_value, Runs, Started
<1>3. /\ i \in GpioPins[u] /\ get_pin(u, i) \in Objects
      /\ get_pin(u, i)[1] = u /\ get_pin(u, i)[2] = i
  <2>1. i \in GpioPins[u]
    BY <1>1, <1>2 DEF Typed
  <2>2. get_pin(u, i) \in alive /\ alive \subseteq Objects
    BY <1>1, <2>1, GetPin DEF Typed
  <2>3. QED BY <1>1, <2>1, <2>2, GetPin, ObjectShape
<1>4. /\ th' \in [Unit -> PinThread] /\ th'[u] = AtPin("change", get_pin(u, i), value)
      /\ th'[Peer(u)] = th[Peer(u)]
  BY <1>1, <1>2, <1>3, ThreadSet, AtPinType DEF Typed
<1>5. \A w \in Unit : \A j : get_pin(w, j)' = get_pin(w, j)
  BY <1>2 DEF get_pin, getPin, pins
<1>6. th'[u].at = "change" /\ th'[u].pin = get_pin(u, i) /\ th'[u].peer = Null
  BY <1>4 DEF AtPin
<1>7. Placed(u)'
  <2>1. th'[u].pin[2] = i
    BY <1>3, <1>6
  <2>2. th'[u].pin = get_pin(u, i)'
    BY <1>3, <1>5, <1>6
  <2>3. Started' /\ UNCHANGED <<gpios, gpio_irqs, handler>>
    BY <1>2 DEF Started, config, pins
  <2>4. QED BY <1>1, <1>2, <1>3, <1>6, <2>1, <2>2, <2>3 DEF Placed, Converting
<1>8. Placed(Peer(u))'
  BY <1>1, <1>2, <1>4, PlacedFrame DEF config, Started, pins
<1>9. alive' = {o \in Objects : IsAlive(o)'}
  <2>1. \A w \in Unit : Converting(w)' <=> Converting(w)
    BY <1>2, <1>4, <1>6, PeerUnit DEF Converting
  <2>2. \A w \in Unit : Converting(w) => th'[w].pin = th[w].pin
    BY <1>2, <1>4, PeerUnit DEF Converting
  <2>3. QED BY <1>1, <1>2, <2>1, <2>2, AliveKept DEF pins
<1>10. Typed'
  BY <1>1, <1>2, <1>3, <1>4, <1>9 DEF Typed, config, pins
<1>12. Facing'
  BY <1>2 DEF Shape, Facing, pins
<1>11. QED BY <1>12, <1>2, <1>3, <1>4, <1>7, <1>8, <1>10, PeerUnit DEF Shape

(* A step of the loop that goes on.                                        *)
LEMMA NextPeerShape ==
  ASSUME Shape, NEW u \in Unit, th[u].at \in {"rewire", "change"}, NextPeer(u),
         UNCHANGED <<loaded, remote, alive, gpios, gpio_irqs, handler, fault, overlap>>,
         connected' \in [Objects -> Seq(Objects)],
         \A o \in Objects : o[1] # u => Len(connected'[o]) = Len(connected[o]), Facing',
         level' \in [Objects -> BOOLEAN], raised' \subseteq Objects, fresh' \subseteq Objects
  PROVE  Shape'
<1>1. Typed /\ Placed(Peer(u)) /\ Peer(u) \in Unit /\ Placed(u)
  BY PeerUnit DEF Shape
<1>2. /\ th' \in [Unit -> PinThread] /\ th'[Peer(u)] = th[Peer(u)]
      /\ th'[u].at = th[u].at /\ th'[u].pin = th[u].pin /\ th'[u].peer = Null
  BY <1>1, NextPeerEffect DEF Typed
<1>3. \A w \in Unit : (Converting(w)' <=> Converting(w)) /\ th'[w].pin = th[w].pin
  BY <1>2, PeerUnit DEF Converting
<1>4. Typed'
  BY <1>1, <1>2, <1>3, AliveKept DEF Typed
<1>5. Placed(Peer(u))'
  BY <1>1, <1>2, PlacedFrame, PinOfThread, PeerUnit DEF Started
<1>6. Placed(u)'
  <2>1. \A i : get_pin(u, i)' = get_pin(u, i)
    BY DEF get_pin, getPin
  <2>2. Started' <=> Started
    BY DEF Started
  <2>3. th'[u].pin = get_pin(u, th[u].pin[2])'
    BY <1>1, <1>2, <2>1 DEF Placed
  <2>4. QED BY <1>1, <1>2, <1>3, <2>1, <2>2, <2>3 DEF Placed
<1>7. QED BY <1>4, <1>5, <1>6, PeerUnit DEF Shape

LEMMA RewireEffect ==
  ASSUME Shape, NEW u \in Unit, Rewire(u), ~Fail("use after free"), ~Fail("out of bounds")
  PROVE  /\ th[u].at = "rewire" /\ th[u].peer \in Objects
         /\ th[u].pin \in ToSet(connected[th[u].peer])
         /\ NextPeer(u)
         /\ UNCHANGED <<config, alive, gpios, gpio_irqs, handler, levels, fault, overlap>>
         /\ connected' = [connected EXCEPT ![th[u].peer] = Replaced(@, th[u].pin, Half(u)),
                                           ![Half(u)] = Append(@, th[u].peer)]
<1>1. /\ th[u].at = "rewire" /\ th[u].peer \in alive
      /\ th[u].pin \in ToSet(connected[th[u].peer])
      /\ NextPeer(u)
      /\ UNCHANGED <<config, alive, gpios, gpio_irqs, handler, levels, fault, overlap>>
      /\ connected' = [connected EXCEPT ![th[u].peer] = Replaced(@, th[u].pin, Half(u)),
                                        ![Half(u)] = Append(@, th[u].peer)]
  BY DEF Rewire, Runs, Half
<1>2. alive \subseteq Objects
  BY DEF Shape, Typed
<1>3. QED BY <1>1, <1>2

LEMMA ReplacedAt ==
  ASSUME connected \in [Objects -> Seq(Objects)], NEW p \in Objects, NEW irq \in Objects, NEW gpio
  PROVE  \E list \in Seq(Objects) :
           /\ list = Replaced(connected[p], gpio, irq)
           /\ Len(list) = Len(connected[p])
           /\ DOMAIN list = DOMAIN connected[p]
           /\ \A m \in DOMAIN connected[p] :
                list[m] = IF connected[p][m] = gpio THEN irq ELSE connected[p][m]
<1>1. connected[p] \in Seq(Objects)
  OBVIOUS
<1>2. QED BY <1>1, ReplacedList

LEMMA RewiredLists ==
  ASSUME connected \in [Objects -> Seq(Objects)], NEW p \in Objects, NEW irq \in Objects, NEW gpio,
         p # irq,
         connected' = [connected EXCEPT ![p] = Replaced(@, gpio, irq), ![irq] = Append(@, p)]
  PROVE  /\ connected' \in [Objects -> Seq(Objects)]
         /\ \A o \in Objects : o # irq => Len(connected'[o]) = Len(connected[o])
         /\ \A o \in Objects \ {p, irq} : connected'[o] = connected[o]
         /\ DOMAIN connected'[p] = DOMAIN connected[p]
         /\ \A m \in DOMAIN connected[p] :
              connected'[p][m] = IF connected[p][m] = gpio THEN irq ELSE connected[p][m]
         /\ Len(connected'[irq]) = Len(connected[irq]) + 1
         /\ connected'[irq][Len(connected[irq]) + 1] = p
         /\ \A m \in DOMAIN connected[irq] : connected'[irq][m] = connected[irq][m]
         /\ DOMAIN connected'[irq] = DOMAIN connected[irq] \cup {Len(connected[irq]) + 1}
<1>1. PICK list \in Seq(Objects) :
           /\ list = Replaced(connected[p], gpio, irq)
           /\ Len(list) = Len(connected[p])
           /\ DOMAIN list = DOMAIN connected[p]
           /\ \A m \in DOMAIN connected[p] :
                list[m] = IF connected[p][m] = gpio THEN irq ELSE connected[p][m]
  BY ReplacedAt
<1>2. PICK more \in Seq(Objects) :
           /\ more = Append(connected[irq], p)
           /\ Len(more) = Len(connected[irq]) + 1
           /\ more[Len(connected[irq]) + 1] = p
           /\ \A m \in DOMAIN connected[irq] : more[m] = connected[irq][m]
           /\ DOMAIN more = DOMAIN connected[irq] \cup {Len(connected[irq]) + 1}
  BY AppendedAt
<1>3. connected' = [connected EXCEPT ![p] = list, ![irq] = more]
  BY <1>1, <1>2
<1>4. /\ connected' \in [Objects -> Seq(Objects)] /\ connected'[p] = list /\ connected'[irq] = more
      /\ \A o \in Objects \ {p, irq} : connected'[o] = connected[o]
  <2>1. list \in Seq(Objects) /\ more \in Seq(Objects)
    OBVIOUS
  <2>2. QED BY ONLY <1>3, <2>1, connected \in [Objects -> Seq(Objects)], p # irq,
                    p \in Objects, irq \in Objects
<1>5. QED BY <1>1, <1>2, <1>4

LEMMA RewireShape ==
  ASSUME Shape, NEW u \in Unit, Rewire(u), ~Fail("use after free"), ~Fail("out of bounds")
  PROVE  /\ Shape'
         /\ th[u].peer \in Objects /\ Half(u) \in Objects
         /\ th[u].peer[1] = Peer(u) /\ Half(u)[1] = u /\ th[u].peer # Half(u)
         /\ \A o \in Objects \ {th[u].peer, Half(u)} : connected'[o] = connected[o]
         /\ DOMAIN connected'[th[u].peer] = DOMAIN connected[th[u].peer]
         /\ \A m \in DOMAIN connected[th[u].peer] :
              connected'[th[u].peer][m] = IF connected[th[u].peer][m] = th[u].pin
                                          THEN Half(u) ELSE connected[th[u].peer][m]
         /\ Len(connected'[Half(u)]) = Len(connected[Half(u)]) + 1
         /\ connected'[Half(u)][Len(connected[Half(u)]) + 1] = th[u].peer
         /\ \A m \in DOMAIN connected[Half(u)] : connected'[Half(u)][m] = connected[Half(u)][m]
         /\ DOMAIN connected'[Half(u)]
              = DOMAIN connected[Half(u)] \cup {Len(connected[Half(u)]) + 1}
<1>1. /\ th[u].at = "rewire" /\ NextPeer(u)
      /\ UNCHANGED <<config, alive, gpios, gpio_irqs, handler, levels, fault, overlap>>
      /\ th[u].peer \in Objects
  BY RewireEffect
<1>2. /\ Half(u) \in Objects /\ Half(u)[1] = u
      /\ th[u].peer[1] = Peer(u) /\ th[u].peer # Half(u)
  <2>1. Half(u) \in Objects
    BY <1>1, PinOfThread DEF Shape, Converting
  <2>2. Half(u)[1] = u
    BY DEF Half, GpioIrq
  <2>3. th[u].peer # Null
    BY <1>1, ObjectShape
  <2>4. th[u].peer[1] = Peer(u)
    BY <2>3 DEF Shape, Placed
  <2>5. QED BY <2>1, <2>2, <2>4, PeerUnit
<1>3. connected \in [Objects -> Seq(Objects)]
  BY DEF Shape, Typed
<1>4. PICK p \in Objects, irq \in Objects : p = th[u].peer /\ irq = Half(u)
  BY <1>1, <1>2
<1>5. p # irq
  BY <1>2, <1>4
<1>6. connected' = [connected EXCEPT ![p] = Replaced(@, th[u].pin, irq), ![irq] = Append(@, p)]
  BY <1>4, RewireEffect
<1>7. /\ connected' \in [Objects -> Seq(Objects)]
      /\ \A o \in Objects : o # irq => Len(connected'[o]) = Len(connected[o])
      /\ \A o \in Objects \ {p, irq} : connected'[o] = connected[o]
      /\ DOMAIN connected'[p] = DOMAIN connected[p]
      /\ \A m \in DOMAIN connected[p] :
           connected'[p][m] = IF connected[p][m] = th[u].pin THEN irq ELSE connected[p][m]
      /\ Len(connected'[irq]) = Len(connected[irq]) + 1
      /\ connected'[irq][Len(connected[irq]) + 1] = p
      /\ \A m \in DOMAIN connected[irq] : connected'[irq][m] = connected[irq][m]
      /\ DOMAIN connected'[irq] = DOMAIN connected[irq] \cup {Len(connected[irq]) + 1}
  BY <1>3, <1>5, <1>6, RewiredLists
<1>8. \A o \in Objects : o[1] # u => Len(connected'[o]) = Len(connected[o])
  <2>1. irq[1] = u
    BY <1>2, <1>4
  <2>2. QED BY <1>7, <2>1
<1>9. level' \in [Objects -> BOOLEAN] /\ raised' \subseteq Objects /\ fresh' \subseteq Objects
  BY <1>1 DEF Shape, Typed, levels
<1>10. UNCHANGED <<loaded, remote>>
  BY <1>1 DEF config
<1>11. Facing'
  <2>1. p[1] = Peer(u) /\ irq[1] = u
    BY <1>2, <1>4
  <2>2. \A m \in DOMAIN connected'[p] : connected'[p][m][1] = Peer(p[1])
    <3>1. \A m \in DOMAIN connected[p] : connected[p][m][1] = Peer(p[1])
      BY DEF Shape, Facing
    <3>2. irq[1] = Peer(p[1])
      BY <2>1, PeerUnit
    <3>3. \A m \in DOMAIN connected[p] : connected'[p][m][1] = Peer(p[1])
      <4>1. TAKE m \in DOMAIN connected[p]
      <4>2. CASE connected[p][m] = th[u].pin
        BY <1>7, <3>2, <4>2
      <4>3. CASE connected[p][m] # th[u].pin
        BY <1>7, <3>1, <4>3
      <4>4. QED BY <4>2, <4>3
    <3>4. QED BY <1>7, <3>3
  <2>3. \A m \in DOMAIN connected'[irq] : connected'[irq][m][1] = Peer(irq[1])
    <3>1. \A m \in DOMAIN connected[irq] : connected[irq][m][1] = Peer(irq[1])
      BY DEF Shape, Facing
    <3>2. p[1] = Peer(irq[1])
      BY <2>1
    <3>3. ASSUME NEW m \in DOMAIN connected'[irq] PROVE connected'[irq][m][1] = Peer(irq[1])
      <4>1. CASE m \in DOMAIN connected[irq]
        <5>1. connected'[irq][m] = connected[irq][m]
          BY <1>7, <4>1
        <5>2. QED BY <3>1, <4>1, <5>1
      <4>2. CASE m = Len(connected[irq]) + 1
        <5>1. connected'[irq][m] = p
          BY <1>7, <4>2
        <5>2. QED BY <3>2, <5>1
      <4>3. QED BY <1>7, <3>3, <4>1, <4>2
    <3>4. QED BY <3>3
  <2>4. ASSUME NEW o \in Objects
        PROVE  \A m \in DOMAIN connected'[o] : connected'[o][m][1] = Peer(o[1])
    <3>1. CASE o = p
      BY <2>2, <3>1
    <3>2. CASE o = irq
      BY <2>3, <3>2
    <3>3. CASE o \in Objects \ {p, irq}
      <4>1. connected'[o] = connected[o]
        BY <1>7, <3>3
      <4>2. QED BY <4>1 DEF Shape, Facing
    <3>4. QED BY <3>1, <3>2, <3>3
  <2>5. QED BY <2>4 DEF Facing
<1>12. Shape'
  BY <1>1, <1>7, <1>8, <1>9, <1>10, <1>11, NextPeerShape
<1>13. QED BY <1>1, <1>2, <1>4, <1>7, <1>12

LEMMA ChangeShape ==
  ASSUME Shape, NEW u \in Unit, Change(u), ~Fail("use after free")
  PROVE  /\ Shape'
         /\ th[u].at = "change" /\ th[u].peer \in alive /\ th[u].peer \in Objects
         /\ th[u].peer # Null
         /\ NextPeer(u)
         /\ level' = [level EXCEPT ![th[u].peer] = th[u].value]
         /\ raised' = IF th[u].peer[3] = "irq" THEN raised \cup {th[u].peer} ELSE raised
         /\ fresh' = fresh \ {th[u].peer}
         /\ UNCHANGED <<config, pins, fault, overlap>>
<1>1. /\ th[u].at = "change" /\ th[u].peer \in alive
      /\ NextPeer(u)
      /\ th[u].peer # Null
      /\ level' = [level EXCEPT ![th[u].peer] = th[u].value]
      /\ raised' = IF th[u].peer[3] = "irq" THEN raised \cup {th[u].peer} ELSE raised
      /\ fresh' = fresh \ {th[u].peer}
      /\ UNCHANGED <<config, pins, fault, overlap>>
  BY DEF Change, Runs, on_change
<1>2. th[u].peer \in Objects /\ Placed(u) /\ Typed
  BY <1>1 DEF Shape, Typed
<1>3. th[u].value \in BOOLEAN
  BY <1>2 DEF Typed, PinThread
<1>4. level' \in [Objects -> BOOLEAN] /\ raised' \subseteq Objects /\ fresh' \subseteq Objects
  BY <1>1, <1>2, <1>3 DEF Typed
<1>5. connected' \in [Objects -> Seq(Objects)] /\ connected' = connected
  BY <1>1, <1>2 DEF Typed, pins
<1>6. UNCHANGED <<loaded, remote, alive, gpios, gpio_irqs, handler>>
  BY <1>1 DEF config, pins
<1>7. Shape'
  <2>1. Facing'
    BY <1>5 DEF Shape, Facing
  <2>2. QED BY <1>1, <1>4, <1>5, <1>6, <2>1, NextPeerShape
<1>8. QED BY <1>1, <1>2, <1>7

LEMMA SetHandlerShape ==
  ASSUME Shape, NEW u \in Unit, SetHandler(u)
  PROVE  Shape'
<1>1. Typed /\ Placed(Peer(u)) /\ Peer(u) \in Unit /\ Placed(u)
  BY PeerUnit DEF Shape
<1>2. /\ th' \in [Unit -> PinThread] /\ th'[Peer(u)] = th[Peer(u)]
      /\ th[u].at = "rewire" /\ th'[u].at = "replace" /\ th'[u].pin = th[u].pin
      /\ th'[u].k = th[u].k /\ th'[u].peer = th[u].peer
  BY <1>1, SetHandlerEffect DEF Typed
<1>3. /\ UNCHANGED <<config, connected, alive, gpios, gpio_irqs, levels, fault, overlap>>
      /\ handler' = handler \cup {Half(u)}
      /\ th[u].k > Len(connected[th[u].pin])
  BY DEF SetHandler, set_handler, Half
<1>10. th[u].peer = Null
  <2>1. Len(connected[th[u].pin]) \in Nat /\ th[u].k \in Nat
    <3>1. th[u].pin \in Objects /\ th[u].k \in Nat
      BY <1>1, <1>2, PinOfThread
    <3>2. connected[th[u].pin] \in Seq(Objects)
      BY <1>1, <3>1 DEF Typed
    <3>3. QED BY <3>1, <3>2
  <2>2. QED BY <1>1, <1>3, <2>1 DEF Placed
<1>4. \A w \in Unit : (Converting(w)' <=> Converting(w)) /\ th'[w].pin = th[w].pin
  BY <1>2, PeerUnit DEF Converting
<1>5. Half(u) \in Objects
  BY <1>1, <1>2, PinOfThread DEF Converting
<1>6. Typed' /\ Facing'
  BY <1>1, <1>2, <1>3, <1>4, <1>5, AliveKept DEF Shape, Typed, Facing, config, levels
<1>7. Placed(Peer(u))'
  BY <1>1, <1>2, <1>3, PlacedFrame DEF config, Started
<1>8. Placed(u)'
  <2>1. \A i : get_pin(u, i)' = get_pin(u, i)
    BY <1>3 DEF get_pin, getPin
  <2>2. (Started' <=> Started) /\ Half(u)' = Half(u)
    BY <1>2, <1>3 DEF Started, config, Half
  <2>3. th'[u].pin = get_pin(u, th[u].pin[2])'
    BY <1>1, <1>2, <2>1 DEF Placed
  <2>4. QED BY <1>1, <1>2, <1>3, <1>4, <1>10, <2>1, <2>2, <2>3 DEF Placed
<1>9. QED BY <1>6, <1>7, <1>8, PeerUnit DEF Shape

LEMMA IdleType == IdleThread \in PinThread /\ IdleThread.at = "idle" /\ IdleThread.peer = Null
BY AtPinType DEF IdleThread, AtPin

LEMMA ReplaceShape ==
  ASSUME Shape, NEW u \in Unit, Replace(u)
  PROVE  /\ Shape'
         /\ th[u].at = "replace" /\ th'[u] = IdleThread /\ th'[Peer(u)] = th[Peer(u)]
         /\ th[u].pin[2] \in gpios[u] /\ Half(u) \in Objects
         /\ gpios'[u] = gpios[u] \ {th[u].pin[2]} /\ gpios'[Peer(u)] = gpios[Peer(u)]
         /\ gpio_irqs'[u] = gpio_irqs[u] \cup {th[u].pin[2]}
         /\ gpio_irqs'[Peer(u)] = gpio_irqs[Peer(u)]
         /\ UNCHANGED <<config, connected, handler, levels, fault, overlap>>
<1> DEFINE j == th[u].pin[2]
<1>1. Typed /\ Placed(Peer(u)) /\ Peer(u) \in Unit /\ Peer(u) # u /\ Placed(u)
  BY PeerUnit DEF Shape
<1>2. /\ th[u].at = "replace" /\ Converting(u)
      /\ UNCHANGED <<config, connected, handler, levels, fault, overlap>>
      /\ alive' = alive \ {th[u].pin}
      /\ th' = [th EXCEPT ![u] = IdleThread]
      /\ gpios' = [gpios EXCEPT ![u] = @ \ {j}]
      /\ gpio_irqs' = [gpio_irqs EXCEPT ![u] = @ \cup {j}]
  BY DEF Replace, Runs, Converting, erase
<1>3. /\ j \in gpios[u] /\ j \in GpioPins[u] /\ Half(u) \in Objects /\ Half(u) \in handler
      /\ th[u].pin = Gpio(u, j) /\ th[u].peer = Null
  BY <1>1, <1>2, PinOfThread DEF Placed
<1>4. th' \in [Unit -> PinThread] /\ th'[u] = IdleThread /\ th'[Peer(u)] = th[Peer(u)]
  BY <1>1, <1>2, IdleType, ThreadSet DEF Typed
<1>5. /\ gpios' \in [Unit -> SUBSET Nat] /\ gpio_irqs' \in [Unit -> SUBSET Nat]
      /\ gpios'[u] = gpios[u] \ {j} /\ gpios'[Peer(u)] = gpios[Peer(u)]
      /\ gpio_irqs'[u] = gpio_irqs[u] \cup {j} /\ gpio_irqs'[Peer(u)] = gpio_irqs[Peer(u)]
  <2>1. gpios \in [Unit -> SUBSET Nat] /\ gpio_irqs \in [Unit -> SUBSET Nat]
    BY <1>1 DEF Typed
  <2>2. j \in Nat
    BY <1>3, <2>1
  <2>3. QED BY <1>1, <1>2, <2>1, <2>2
<1>6. \A w \in Unit : /\ gpios'[w] \cup gpio_irqs'[w] = GpioPins[w]
                      /\ gpios'[w] \cap gpio_irqs'[w] = {}
  <2>1. \A w \in Unit : gpios[w] \cup gpio_irqs[w] = GpioPins[w] /\ gpios[w] \cap gpio_irqs[w] = {}
    BY <1>1 DEF Typed
  <2>2. QED BY <1>3, <1>5, <2>1, PeerUnit
<1>7. alive' = {o \in Objects : IsAlive(o)'}
  <2>1. ASSUME NEW o \in Objects PROVE IsAlive(o)' <=> IsAlive(o) /\ o # th[u].pin
    <3>1. CASE o[1] = u
      <4>1. ~Converting(u)'
        BY <1>4, IdleType DEF Converting
      <4>2. o = Half(u) <=> o[3] = "irq" /\ o[2] = j
        BY <3>1, ObjectShape DEF Half, GpioIrq, Gpio
      <4>3. o = th[u].pin <=> o[3] = "gpio" /\ o[2] = j
        BY <1>3, <3>1, ObjectShape DEF GpioIrq, Gpio
      <4>4. IsAlive(o)' <=> \/ o[3] = "spi"
                            \/ o[3] = "gpio" /\ o[2] \in gpios[u] /\ o[2] # j
                            \/ o[3] = "irq" /\ (o[2] \in gpio_irqs[u] \/ o[2] = j)
        BY <1>5, <3>1, <4>1 DEF IsAlive
      <4>5. IsAlive(o) <=> \/ o[3] = "spi"
                           \/ o[3] = "gpio" /\ o[2] \in gpios[u]
                           \/ o[3] = "irq" /\ (o[2] \in gpio_irqs[u] \/ o[2] = j)
        BY <1>2, <3>1, <4>2 DEF IsAlive
      <4>6. QED BY <4>3, <4>4, <4>5
    <3>2. CASE o[1] = Peer(u)
      <4>1. o # th[u].pin
        BY <1>1, <1>3, <3>2 DEF Gpio
      <4>2. (Converting(o[1])' <=> Converting(o[1])) /\ Half(o[1])' = Half(o[1])
        BY <1>4, <3>2 DEF Converting, Half
      <4>3. QED BY <1>5, <3>2, <4>1, <4>2 DEF IsAlive
    <3>3. QED BY <3>1, <3>2, ObjectShape, PeerUnit
  <2>2. QED BY <1>1, <1>2, <2>1 DEF Typed
<1>8. Typed' /\ Facing'
  BY <1>1, <1>2, <1>4, <1>5, <1>6, <1>7 DEF Shape, Typed, Facing, config, levels
<1>9. Placed(Peer(u))'
  BY <1>1, <1>2, <1>4, <1>5, PlacedFrame DEF config, Started
<1>10. Placed(u)'
  <2>1. th'[u].at = "idle" /\ th'[u].peer = Null /\ ~Converting(u)'
    BY <1>4, IdleType DEF Converting
  <2>2. Started' /\ (\A i \in gpio_irqs'[u] : GpioIrq(u, i) \in handler')
    BY <1>1, <1>2, <1>3, <1>5 DEF Placed, Started, config, Half
  <2>3. QED BY <2>1, <2>2 DEF Placed
<1>11. Shape'
  BY <1>8, <1>9, <1>10, PeerUnit DEF Shape
<1>12. QED BY <1>2, <1>3, <1>4, <1>5, <1>11

LEMMA ChangeDoneShape ==
  ASSUME Shape, NEW u \in Unit, ChangeDone(u)
  PROVE  /\ Shape'
         /\ th[u].at = "change" /\ th'[u] = IdleThread /\ th'[Peer(u)] = th[Peer(u)]
         /\ UNCHANGED <<config, pins, levels, fault, overlap>>
<1>1. Typed /\ Placed(Peer(u)) /\ Peer(u) \in Unit /\ Placed(u)
  BY PeerUnit DEF Shape
<1>2. /\ th[u].at = "change" /\ th' = [th EXCEPT ![u] = IdleThread]
      /\ UNCHANGED <<config, pins, levels, fault, overlap>>
  BY DEF ChangeDone, Runs
<1>3. th' \in [Unit -> PinThread] /\ th'[u] = IdleThread /\ th'[Peer(u)] = th[Peer(u)]
  BY <1>1, <1>2, IdleType, ThreadSet DEF Typed
<1>4. \A w \in Unit : /\ Converting(w)' <=> Converting(w)
                      /\ Converting(w) => th'[w].pin = th[w].pin
  BY <1>2, <1>3, IdleType, PeerUnit DEF Converting
<1>5. Typed' /\ Facing'
  <2>1. alive' = {o \in Objects : IsAlive(o)'}
    BY <1>1, <1>2, <1>4, AliveKept DEF pins
  <2>2. QED BY <1>1, <1>2, <1>3, <2>1 DEF Shape, Typed, Facing, config, pins, levels
<1>6. Placed(Peer(u))'
  BY <1>1, <1>2, <1>3, PlacedFrame DEF config, Started, pins
<1>7. Placed(u)'
  <2>1. th'[u].at = "idle" /\ th'[u].peer = Null /\ ~Converting(u)'
    BY <1>3, IdleType DEF Converting
  <2>2. (Started' <=> Started) /\ UNCHANGED <<gpio_irqs, handler>>
    BY <1>2 DEF Started, config, pins
  <2>3. QED BY <1>1, <2>1, <2>2 DEF Placed
<1>8. QED BY <1>2, <1>3, <1>5, <1>6, <1>7, PeerUnit DEF Shape

-----------------------------------------------------------------------------
(* The wires, while the units have not met on one.                         *)

LEMMA NameSame ==
  ASSUME NEW v \in Unit, gpios'[v] = gpios[v], gpio_irqs'[v] = gpio_irqs[v],
         Converting(v)' <=> Converting(v),
         Converting(v) => /\ th'[v].pin = th[v].pin /\ th'[v].k = th[v].k
                          /\ connected'[th[v].pin] = connected[th[v].pin]
  PROVE  /\ \A j, i : Name(v, j, i)' = Name(v, j, i)
         /\ \A j : get_pin(v, j)' = get_pin(v, j)
<1>1. \A j : get_pin(v, j)' = get_pin(v, j)
  BY DEF get_pin, getPin
<1>2. Converting(v) => \A i : Rewired(v, i)' <=> Rewired(v, i)
  BY DEF Rewired
<1>3. QED BY <1>1, <1>2 DEF Name

LEMMA MainSame ==
  ASSUME \A v \in Unit : \A j : get_pin(v, j)' = get_pin(v, j)
  PROVE  \A o \in Objects : Main(o)' <=> Main(o)
BY ObjectShape DEF Main

(* A step that leaves the lists and the names alone.                       *)
LEMMA SameNames ==
  ASSUME WellNamed, NumberedOnce, BothWays, Unborn,
         UNCHANGED connected, alive \subseteq alive',
         \A v \in Unit : \A j, i : Name(v, j, i)' = Name(v, j, i),
         \A v \in Unit : \A j : get_pin(v, j)' = get_pin(v, j)
  PROVE  WellNamed' /\ NumberedOnce' /\ BothWays' /\ Unborn'
<1>1. \A o \in Objects : Main(o)' <=> Main(o)
  BY MainSame
<1>2. WellNamed'
  <2>1. SUFFICES ASSUME NEW o \in Objects, Main(o)', NEW m \in DOMAIN connected'[o]
                 PROVE  connected'[o][m] = Name(Peer(o[1]), connected[o][m][2], o[2])'
    BY DEF WellNamed
  <2>2. PICK n : n = connected[o][m][2]
    OBVIOUS
  <2>3. connected[o][m] = Name(Peer(o[1]), n, o[2])
    BY <1>1, <2>1, <2>2 DEF WellNamed
  <2>4. Peer(o[1]) \in Unit
    BY ObjectShape, PeerUnit
  <2>5. Name(Peer(o[1]), n, o[2])' = Name(Peer(o[1]), n, o[2])
    BY <2>4
  <2>6. QED BY <2>2, <2>3, <2>5
<1>3. NumberedOnce'
  BY DEF NumberedOnce
<1>4. BothWays'
  <2>1. \A o \in Objects : \A i : Lists(o, i)' <=> Lists(o, i)
    BY DEF Lists
  <2>2. QED BY <1>1, <2>1 DEF BothWays
<1>5. Unborn'
  BY <1>1 DEF Unborn
<1>6. QED BY <1>2, <1>3, <1>4, <1>5

(* The pins of the other unit that a thread at work does not disturb.      *)
LEMMA PartsSame ==
  ASSUME Shape, NEW w \in Unit, th'[w] = th[w],
         th[w].at # "idle" => connected'[th[w].pin] = connected[th[w].pin],
         Converting(w) => connected'[Half(w)] = connected[Half(w)]
  PROVE  (HalfBuilt(w) => HalfBuilt(w)') /\ (PeerInPlace(w) => PeerInPlace(w)')
<1>1. (Converting(w)' <=> Converting(w)) /\ Half(w)' = Half(w)
  BY DEF Converting, Half
<1>2. th[w].peer # Null => th[w].at # "idle"
  BY DEF Shape, Placed
<1>3. HalfBuilt(w) => HalfBuilt(w)'
  BY <1>1 DEF HalfBuilt, Converting
<1>4. PeerInPlace(w) => PeerInPlace(w)'
  BY <1>2 DEF PeerInPlace
<1>5. QED BY <1>3, <1>4

(* The pin that was read is at the other end of the wire, and stays there. *)
LEMMA PeerOnWire ==
  ASSUME Shape, Wires, NEW u \in Unit, th[u].peer # Null
  PROVE  /\ th[u].at # "idle" /\ th[u].pin \in Objects /\ Main(th[u].pin) /\ th[u].pin[1] = u
         /\ th[u].k \in DOMAIN connected[th[u].pin]
         /\ th[u].peer = connected[th[u].pin][th[u].k]
         /\ th[u].peer \in Objects /\ th[u].peer \in alive /\ th[u].peer[1] = Peer(u)
         /\ Lists(th[u].pin, th[u].peer[2])
         /\ Converting(u) \/ Converting(Peer(u)) =>
              th[Peer(u)].at = "idle" \/ th[Peer(u)].pin[2] # th[u].peer[2]
         /\ Main(th[u].peer) /\ Lists(th[u].peer, th[u].pin[2])
<1>1. PICK v, o : v \in Unit /\ v = Peer(u) /\ o = th[u].pin
  BY PeerUnit
<1>2. /\ Typed /\ Placed(u) /\ Placed(v) /\ th[u].at # "idle"
      /\ connected \in [Objects -> Seq(Objects)]
      /\ v # u /\ Peer(v) = u
  BY <1>1, PeerUnit DEF Shape, Placed, Typed
<1>3. o \in Objects /\ Main(o) /\ o[1] = u
  BY <1>1, <1>2, PinOfThread
<1>4. th[u].k \in DOMAIN connected[o] /\ th[u].peer = connected[o][th[u].k]
  BY <1>1 DEF Wires, PeerInPlace
<1>5. PICK p \in Objects : p = th[u].peer
  <2>1. connected[o] \in Seq(Objects)
    BY <1>2, <1>3
  <2>2. QED BY <1>4, <2>1
<1>6. p[1] = v /\ Lists(o, p[2])
  BY <1>1, <1>3, <1>4, <1>5 DEF Shape, Facing, Lists
<1>7. p = Name(v, p[2], o[2])
  BY <1>1, <1>3, <1>4, <1>5 DEF Wires, WellNamed
<1>8. p \in alive
  BY <1>1, <1>2, <1>7, NameIsAlive, ObjectShape
<1>9. Converting(v) => th[v].pin[2] # p[2]
  <2>1. SUFFICES ASSUME Converting(v), th[v].pin[2] = p[2] PROVE FALSE
    OBVIOUS
  <2>2. PICK q \in Objects : q = th[v].pin /\ Main(q) /\ q[1] = v /\ q[2] = p[2]
    BY <1>1, <1>2, <2>1, PinOfThread DEF Converting
  <2>3. Lists(q, o[2])
    BY <1>1, <1>2, <1>3, <1>6, <2>2 DEF Wires, BothWays
  <2>4. ~Lists(q, th[u].pin[2])
    BY <1>1, <1>2, <2>1, <2>2 DEF Wires, KeptOff
  <2>5. QED BY <1>1, <2>3, <2>4
<1>10. Converting(u) => th[v].at = "idle" \/ th[v].pin[2] # p[2]
  BY <1>1, <1>6 DEF Wires, KeptOff
<1>11. Main(p)
  BY <1>1, <1>2, <1>6, <1>7, <1>9, NameIsAlive DEF Main
<1>12. Lists(p, o[2])
  BY <1>1, <1>3, <1>6, <1>11 DEF Wires, BothWays
<1>13. QED BY <1>1, <1>2, <1>3, <1>4, <1>5, <1>6, <1>8, <1>9, <1>10, <1>11, <1>12

LEMMA FetchWires ==
  ASSUME Shape, Wires, NEW u \in Unit, Fetch(u)
  PROVE  Wires'
<1>1. Typed /\ Placed(u) /\ Peer(u) \in Unit
  BY PeerUnit DEF Shape
<1>2. /\ th'[Peer(u)] = th[Peer(u)]
      /\ th'[u].at = th[u].at /\ th'[u].pin = th[u].pin /\ th'[u].k = th[u].k
      /\ th[u].k \in DOMAIN connected[th[u].pin]
      /\ th'[u].peer = connected[th[u].pin][th[u].k]
      /\ UNCHANGED <<config, pins, levels, fault, overlap>>
  BY <1>1, FetchEffect DEF Fetch
<1>3. UNCHANGED <<connected, alive, gpios, gpio_irqs>>
  BY <1>2 DEF pins
<1>4. \A w \in Unit : /\ th'[w].at = th[w].at /\ th'[w].pin = th[w].pin /\ th'[w].k = th[w].k
                      /\ (Converting(w)' <=> Converting(w)) /\ Half(w)' = Half(w)
  BY <1>2, PeerUnit DEF Converting, Half
<1>5. \A v \in Unit : /\ \A j, i : Name(v, j, i)' = Name(v, j, i)
                      /\ \A j : get_pin(v, j)' = get_pin(v, j)
  BY <1>3, <1>4, NameSame
<1>6. WellNamed' /\ NumberedOnce' /\ BothWays' /\ Unborn'
  BY <1>3, <1>5, SameNames DEF Wires
<1>7. \A w \in Unit : HalfBuilt(w)' /\ KeptOff(w)'
  <2>1. \A o \in Objects : \A i : Lists(o, i)' <=> Lists(o, i)
    BY <1>3 DEF Lists
  <2>2. \A w \in Unit : HalfBuilt(w)'
    BY <1>3, <1>4 DEF Wires, HalfBuilt
  <2>3. ASSUME NEW w \in Unit PROVE KeptOff(w)'
    <3>1. Peer(w) \in Unit
      BY PeerUnit
    <3>2. QED BY <1>3, <1>4, <2>3, <3>1 DEF Wires, KeptOff, Lists
  <2>4. QED BY <2>2, <2>3
<1>8. PeerInPlace(Peer(u))' /\ PeerInPlace(u)'
  BY <1>1, <1>2, <1>3 DEF Wires, PeerInPlace
<1>9. QED BY <1>2, <1>3, <1>6, <1>7, <1>8, PeerUnit DEF Wires, levels

LEMMA SetHandlerWires ==
  ASSUME Shape, Wires, NEW u \in Unit, SetHandler(u)
  PROVE  Wires'
<1>1. Typed /\ Placed(u) /\ Peer(u) \in Unit
  BY PeerUnit DEF Shape
<1>2. /\ th'[Peer(u)] = th[Peer(u)]
      /\ th[u].at = "rewire" /\ th'[u].at = "replace" /\ th'[u].pin = th[u].pin
      /\ th'[u].k = th[u].k /\ th'[u].peer = th[u].peer
  BY <1>1, SetHandlerEffect DEF Typed
<1>3. UNCHANGED <<connected, alive, gpios, gpio_irqs, levels, fault>>
  BY DEF SetHandler
<1>4. \A w \in Unit : /\ th'[w].at = "idle" <=> th[w].at = "idle"
                      /\ th'[w].pin = th[w].pin /\ th'[w].k = th[w].k /\ th'[w].peer = th[w].peer
                      /\ (Converting(w)' <=> Converting(w)) /\ Half(w)' = Half(w)
  BY <1>2, PeerUnit DEF Converting, Half
<1>5. \A v \in Unit : /\ \A j, i : Name(v, j, i)' = Name(v, j, i)
                      /\ \A j : get_pin(v, j)' = get_pin(v, j)
  BY <1>3, <1>4, NameSame
<1>6. WellNamed' /\ NumberedOnce' /\ BothWays' /\ Unborn'
  BY <1>3, <1>5, SameNames DEF Wires
<1>7. ASSUME NEW w \in Unit PROVE HalfBuilt(w)' /\ PeerInPlace(w)'
  <2>1. HalfBuilt(w)'
    <3>1. HalfBuilt(w)
      BY DEF Wires
    <3>2. /\ th'[w].pin = th[w].pin /\ th'[w].k = th[w].k /\ Half(w)' = Half(w)
          /\ (Converting(w)' <=> Converting(w)) /\ connected' = connected
      BY <1>3, <1>4
    <3>3. QED BY <3>1, <3>2 DEF HalfBuilt
  <2>2. PeerInPlace(w)'
    BY <1>3, <1>4 DEF Wires, PeerInPlace
  <2>3. QED BY <2>1, <2>2
<1>8. ASSUME NEW w \in Unit PROVE KeptOff(w)'
  <2>1. Peer(w) \in Unit
    BY PeerUnit
  <2>2. QED BY <1>3, <1>4, <1>8, <2>1 DEF Wires, KeptOff, Lists
<1>9. QED BY <1>3, <1>6, <1>7, <1>8 DEF Wires, levels

LEMMA set_gpio_irqWires ==
  ASSUME Shape, Wires, NEW u \in Unit, NEW i, set_gpio_irq(u, i), ~overlap', Shape'
  PROVE  Wires'
<1>1. Typed /\ Placed(u) /\ Placed(Peer(u)) /\ Peer(u) \in Unit /\ Peer(Peer(u)) = u
  BY PeerUnit DEF Shape
<1>2. /\ th[u].at = "idle" /\ i \in gpios[u] /\ Gpio(u, i) = get_pin(u, i)
      /\ th'[u] = AtPin("rewire", Gpio(u, i), FALSE) /\ th'[Peer(u)] = th[Peer(u)]
  BY set_gpio_irqShape
<1>3. /\ UNCHANGED <<connected, gpios, gpio_irqs, raised, fault>>
      /\ alive' = alive \cup {GpioIrq(u, i)}
      /\ ~Meets(u, Gpio(u, i), {"rewire", "replace", "change"})
  BY DEF set_gpio_irq
<1>4. /\ th'[u].at = "rewire" /\ th'[u].pin = Gpio(u, i) /\ th'[u].k = 1 /\ th'[u].peer = Null
      /\ th'[u].pin[2] = i /\ Half(u)' = GpioIrq(u, i) /\ ~Converting(u) /\ Converting(u)'
  BY <1>2 DEF AtPin, Half, Gpio, Converting
<1>5. /\ Gpio(u, i) \in Objects /\ GpioIrq(u, i) \in Objects /\ i \in GpioPins[u]
      /\ Main(Gpio(u, i)) /\ connected \in [Objects -> Seq(Objects)]
  <2>1. i \in GpioPins[u] /\ connected \in [Objects -> Seq(Objects)]
    BY <1>1, <1>2 DEF Typed
  <2>2. QED BY <1>2, <2>1, IsObject DEF Main, Gpio
<1>6. connected[Gpio(u, i)] \in Seq(Objects) /\ Len(connected[Gpio(u, i)]) \in Nat
  BY <1>5
<1>7. \A n : ~Rewired(u, n)'
  <2>1. \A l \in DOMAIN connected[Gpio(u, i)] : ~ (l < 1)
    BY <1>6
  <2>2. QED BY <1>3, <1>4, <2>1 DEF Rewired
<1>8. ASSUME NEW v \in Unit
      PROVE  /\ \A j, n : Name(v, j, n)' = Name(v, j, n)
             /\ \A j : get_pin(v, j)' = get_pin(v, j)
  <2>1. CASE v = u
    <3>1. \A j : get_pin(u, j)' = get_pin(u, j)
      BY <1>3 DEF get_pin, getPin
    <3>2. QED BY <1>4, <1>7, <2>1, <3>1 DEF Name
  <2>2. CASE v = Peer(u)
    <3>1. /\ Converting(v)' <=> Converting(v)
          /\ th'[v].pin = th[v].pin /\ th'[v].k = th[v].k
      BY <1>2, <2>2 DEF Converting
    <3>2. QED BY <1>3, <3>1, NameSame
  <2>3. QED BY <2>1, <2>2, PeerUnit
<1>9. WellNamed' /\ NumberedOnce' /\ BothWays' /\ Unborn'
  BY <1>3, <1>8, SameNames DEF Wires
<1>10. HalfBuilt(u)'
  <2>1. GpioIrq(u, i) \notin alive
    <3>1. ~IsAlive(GpioIrq(u, i))
      <4>1. i \notin gpio_irqs[u]
        BY <1>1, <1>2 DEF Typed
      <4>2. QED BY <1>4, <4>1 DEF IsAlive, GpioIrq
    <3>2. QED BY <1>1, <3>1 DEF Typed
  <2>2. connected[GpioIrq(u, i)] = <<>>
    BY <1>5, <2>1 DEF Wires, Unborn, GpioIrq
  <2>3. Len(connected[GpioIrq(u, i)]) = 0
    BY <2>2
  <2>4. QED BY <1>3, <1>4, <1>6, <2>3 DEF HalfBuilt
<1>11. th[Peer(u)].at # "idle" => ~Lists(Gpio(u, i), th[Peer(u)].pin[2])
  <2>1. SUFFICES ASSUME th[Peer(u)].at # "idle",
                        NEW m \in DOMAIN connected[Gpio(u, i)],
                        connected[Gpio(u, i)][m][2] = th[Peer(u)].pin[2]
                 PROVE  FALSE
    BY DEF Lists
  <2>2. th[Peer(u)].at \in {"rewire", "replace", "change"}
    <3>1. th[Peer(u)] \in PinThread
      BY <1>1 DEF Typed
    <3>2. QED BY <2>1, <3>1 DEF PinThread
  <2>3. connected[Gpio(u, i)][m] \in ToSet(connected[Gpio(u, i)])
    BY InList
  <2>4. connected[Gpio(u, i)][m][1] = Peer(u)
    BY <1>5 DEF Shape, Facing, Gpio
  <2>5. QED BY <1>3, <2>1, <2>2, <2>3, <2>4 DEF Meets
<1>12. KeptOff(u)'
  <2>1. KeptOff(u)' <=> (th[Peer(u)].at # "idle" => ~Lists(Gpio(u, i), th[Peer(u)].pin[2]))
    BY <1>2, <1>3, <1>4 DEF KeptOff, Lists
  <2>2. QED BY <1>11, <2>1
<1>13. KeptOff(Peer(u))'
  <2>1. SUFFICES ASSUME Converting(Peer(u)), Lists(th[Peer(u)].pin, i) PROVE FALSE
    BY <1>1, <1>2, <1>3, <1>4 DEF KeptOff, Lists, Converting
  <2>2. PICK q \in Objects : q = th[Peer(u)].pin /\ Main(q) /\ q[1] = Peer(u)
    BY <1>1, <2>1, PinOfThread DEF Converting
  <2>3. Lists(q, Gpio(u, i)[2]) /\ Gpio(u, i)[1] = Peer(q[1])
    BY <1>1, <2>1, <2>2 DEF Gpio
  <2>4. Lists(Gpio(u, i), q[2])
    BY <1>5, <2>2, <2>3 DEF Wires, BothWays
  <2>5. QED BY <1>11, <2>1, <2>2, <2>4 DEF Converting
<1>14. PeerInPlace(u)'
  BY <1>4 DEF PeerInPlace
<1>15. HalfBuilt(Peer(u))' /\ PeerInPlace(Peer(u))'
  BY <1>1, <1>2, <1>3, PartsSame DEF Wires
<1>16. fault' = "none" /\ \A o \in raised' : o[3] = "irq" /\ o[2] \in gpio_irqs'[o[1]]
  BY <1>3 DEF Wires
<1>17. QED BY <1>9, <1>10, <1>12, <1>13, <1>14, <1>15, <1>16, PeerUnit DEF Wires

LEMMA set_gpio_valueWires ==
  ASSUME Shape, Wires, NEW u \in Unit, NEW i, NEW value \in BOOLEAN,
         set_gpio_value(u, i, value), ~overlap'
  PROVE  Wires'
<1>1. Typed /\ Placed(u) /\ Placed(Peer(u)) /\ Peer(u) \in Unit /\ Peer(Peer(u)) = u
  BY PeerUnit DEF Shape
<1>2. PICK o \in Objects :
        /\ o = get_pin(u, i) /\ o[1] = u /\ o[2] = i /\ Main(o)
        /\ th[u].at = "idle" /\ th'[u] = AtPin("change", o, value) /\ th'[Peer(u)] = th[Peer(u)]
        /\ UNCHANGED <<config, pins, raised, fault>>
  BY set_gpio_valueShape DEF Main
<1>3. UNCHANGED <<connected, alive, gpios, gpio_irqs>> /\ ~Meets(u, o, {"rewire", "replace"})
  BY <1>2 DEF pins, set_gpio_value
<1>4. /\ th'[u].at = "change" /\ th'[u].pin = o /\ th'[u].peer = Null
      /\ ~Converting(u) /\ ~Converting(u)'
  BY <1>2 DEF AtPin, Converting
<1>5. \A v \in Unit : /\ Converting(v)' <=> Converting(v)
                      /\ Converting(v) => th'[v].pin = th[v].pin /\ th'[v].k = th[v].k
  BY <1>2, <1>4, PeerUnit DEF Converting
<1>6. \A v \in Unit : /\ \A j, n : Name(v, j, n)' = Name(v, j, n)
                      /\ \A j : get_pin(v, j)' = get_pin(v, j)
  BY <1>3, <1>5, NameSame
<1>7. WellNamed' /\ NumberedOnce' /\ BothWays' /\ Unborn'
  BY <1>3, <1>6, SameNames DEF Wires
<1>8. HalfBuilt(u)' /\ KeptOff(u)' /\ PeerInPlace(u)'
  BY <1>4 DEF HalfBuilt, KeptOff, PeerInPlace
<1>9. HalfBuilt(Peer(u))' /\ PeerInPlace(Peer(u))'
  BY <1>1, <1>2, <1>3, PartsSame DEF Wires
<1>10. KeptOff(Peer(u))'
  <2>1. SUFFICES ASSUME Converting(Peer(u)), Lists(th[Peer(u)].pin, i) PROVE FALSE
    BY <1>1, <1>2, <1>3, <1>4 DEF KeptOff, Lists, Converting
  <2>2. PICK q \in Objects : q = th[Peer(u)].pin /\ Main(q) /\ q[1] = Peer(u)
    BY <1>1, <2>1, PinOfThread DEF Converting
  <2>3. Lists(o, q[2])
    BY <1>1, <1>2, <2>1, <2>2 DEF Wires, BothWays
  <2>4. PICK m \in DOMAIN connected[o] : connected[o][m][2] = q[2]
    BY <2>3 DEF Lists
  <2>5. connected[o][m] \in ToSet(connected[o]) /\ connected[o][m][1] = Peer(u)
    BY <1>2, <2>4, InList DEF Shape, Facing
  <2>6. QED BY <1>3, <2>1, <2>2, <2>4, <2>5 DEF Meets, Converting
<1>11. fault' = "none" /\ \A r \in raised' : r[3] = "irq" /\ r[2] \in gpio_irqs'[r[1]]
  BY <1>2, <1>3 DEF Wires
<1>12. QED BY <1>7, <1>8, <1>9, <1>10, <1>11, PeerUnit DEF Wires

(* A thread that comes back from change, or goes on to the next pin.       *)
LEMMA ChangingWires ==
  ASSUME Shape, Wires, NEW u \in Unit, th[u].at = "change", th'[Peer(u)] = th[Peer(u)],
         \/ th'[u].at = "change" /\ th'[u].pin = th[u].pin
         \/ th'[u].at = "idle",
         th'[u].peer = Null,
         UNCHANGED <<pins, fault>>,
         \A o \in raised' : o[3] = "irq" /\ o[2] \in gpio_irqs[o[1]]
  PROVE  Wires'
<1>1. UNCHANGED <<connected, alive, gpios, gpio_irqs>> /\ Peer(u) \in Unit /\ Peer(Peer(u)) = u
  BY PeerUnit DEF pins
<1>2. \A v \in Unit : /\ Converting(v)' <=> Converting(v)
                      /\ Converting(v) => th'[v].pin = th[v].pin /\ th'[v].k = th[v].k
  BY PeerUnit DEF Converting
<1>3. \A v \in Unit : /\ \A j, n : Name(v, j, n)' = Name(v, j, n)
                      /\ \A j : get_pin(v, j)' = get_pin(v, j)
  BY <1>1, <1>2, NameSame
<1>4. WellNamed' /\ NumberedOnce' /\ BothWays' /\ Unborn'
  BY <1>1, <1>3, SameNames DEF Wires
<1>5. HalfBuilt(u)' /\ KeptOff(u)' /\ PeerInPlace(u)'
  BY DEF HalfBuilt, KeptOff, PeerInPlace, Converting
<1>6. HalfBuilt(Peer(u))' /\ PeerInPlace(Peer(u))'
  BY <1>1, PartsSame DEF Wires
<1>7. KeptOff(Peer(u))'
  BY <1>1 DEF Wires, KeptOff, Lists, Converting
<1>8. fault' = "none" /\ \A o \in raised' : o[3] = "irq" /\ o[2] \in gpio_irqs'[o[1]]
  BY <1>1 DEF Wires
<1>9. QED BY <1>4, <1>5, <1>6, <1>7, <1>8, PeerUnit DEF Wires

LEMMA ChangeWires ==
  ASSUME Shape, Wires, NEW u \in Unit, Change(u)
  PROVE  Wires' /\ ~Fail("use after free")
<1>1. th[u].at = "change" /\ th[u].peer # Null
  BY DEF Change, Runs
<1>2. /\ th[u].peer \in Objects /\ th[u].peer \in alive /\ Main(th[u].peer)
  BY <1>1, PeerOnWire
<1>3. ~Fail("use after free")
  <2>1. NextPeer(u)
    BY <1>2 DEF Change
  <2>2. th'[u].peer = Null
    BY <2>1, NextPeerEffect DEF Shape, Typed
  <2>3. th' # th
    BY <1>1, <2>2
  <2>4. QED BY <2>3 DEF Fail
<1>4. /\ NextPeer(u)
      /\ raised' = IF th[u].peer[3] = "irq" THEN raised \cup {th[u].peer} ELSE raised
      /\ UNCHANGED <<config, pins, fault, overlap>>
  BY <1>3, ChangeShape
<1>5. /\ th'[Peer(u)] = th[Peer(u)] /\ th'[u].at = "change"
      /\ th'[u].pin = th[u].pin /\ th'[u].peer = Null
  BY <1>1, <1>4, NextPeerEffect DEF Shape, Typed
<1>6. th[u].peer[3] = "irq" => th[u].peer[2] \in gpio_irqs[th[u].peer[1]]
  BY <1>2, ObjectShape DEF Main, get_pin, getPin, Gpio, GpioIrq, Null
<1>7. \A o \in raised' : o[3] = "irq" /\ o[2] \in gpio_irqs[o[1]]
  BY <1>4, <1>6 DEF Wires
<1>8. QED BY <1>1, <1>3, <1>4, <1>5, <1>7, ChangingWires

LEMMA ChangeDoneWires ==
  ASSUME Shape, Wires, NEW u \in Unit, ChangeDone(u)
  PROVE  Wires'
<1>1. /\ th[u].at = "change" /\ th'[u] = IdleThread /\ th'[Peer(u)] = th[Peer(u)]
      /\ UNCHANGED <<config, pins, levels, fault, overlap>>
  BY ChangeDoneShape
<1>2. \A o \in raised' : o[3] = "irq" /\ o[2] \in gpio_irqs[o[1]]
  BY <1>1 DEF Wires, levels
<1>3. QED BY <1>1, <1>2, IdleType, ChangingWires

(* Before the units start, the only names are those of get_pin.            *)
LEMMA BeforeStart ==
  ASSUME Shape, ~Started
  PROVE  \A v \in Unit : /\ th[v].at = "idle" /\ th[v].peer = Null /\ gpio_irqs[v] = {}
                         /\ \A j, i : Name(v, j, i) = get_pin(v, j)
BY DEF Shape, Placed, Name, Converting

LEMMA ConnectSpiWires ==
  ASSUME Shape, Wires, ConnectSpi
  PROVE  Wires' /\ remote' \in {{}, Unit}
<1>1. loaded = Len(Connections) + 1 /\ UNCHANGED <<pins, levels, th, overlap>>
  BY DEF ConnectSpi
<1>2. ~Started
  <2>1. Len(Connections) \in Nat
    BY PinAssumption
  <2>2. QED BY <1>1, <2>1 DEF Started
<1>3. ASSUME NEW u \in Unit, NEW v \in Unit, v = Peer(u), Reaches(u, v)
      PROVE  Reaches(v, u)
  <2>1. SUFFICES ASSUME NEW line \in {"mosi", "miso", "clk"}
                 PROVE  SpiPin(u, line) \in ToSet(connected[SpiPin(v, line)])
    BY <1>3 DEF Reaches
  <2>2. PICK o, p : o = SpiPin(u, line) /\ p = SpiPin(v, line)
    OBVIOUS
  <2>3. line \in DOMAIN SpiPins[u] /\ line \in DOMAIN SpiPins[v]
    BY <1>3, PinAssumption DEF Reaches, Lines
  <2>4. o \in Objects /\ p \in Objects
    BY <2>2, <2>3, IsObject
  <2>5. o[1] = u /\ o[3] = "spi" /\ p[1] = v /\ p[3] = "spi"
    BY <2>2 DEF SpiPin
  <2>6. p \in ToSet(connected[o])
    BY <1>3, <2>2 DEF Reaches
  <2>7. PICK m \in DOMAIN connected[o] : connected[o][m] = p
    BY <2>6, InList
  <2>8. Main(o)
    <3>1. connected[o] # <<>>
      BY <2>7
    <3>2. QED BY <2>4, <2>5, <3>1 DEF Wires, Unborn
  <2>9. p = get_pin(v, p[2])
    <3>1. p = Name(v, p[2], o[2])
      BY <1>3, <2>4, <2>5, <2>7, <2>8 DEF Wires, WellNamed
    <3>2. QED BY <1>2, <3>1, BeforeStart
  <2>10. Main(p)
    BY <2>5, <2>9 DEF Main
  <2>11. Lists(p, o[2])
    <3>1. Lists(o, p[2])
      BY <2>7 DEF Lists
    <3>2. QED BY <1>3, <2>4, <2>5, <2>8, <2>10, <3>1 DEF Wires, BothWays
  <2>12. PICK l \in DOMAIN connected[p] : connected[p][l][2] = o[2]
    BY <2>11 DEF Lists
  <2>13. connected[p][l] = get_pin(u, o[2])
    <3>1. connected[p][l] = Name(Peer(v), o[2], p[2]) /\ Peer(v) = u
      BY <1>3, <2>4, <2>5, <2>10, <2>12, PeerUnit DEF Wires, WellNamed
    <3>2. QED BY <1>2, <3>1, BeforeStart
  <2>14. connected[p][l] = o
    BY <2>5, <2>8, <2>13 DEF Main
  <2>15. QED BY <2>2, <2>14, InList
<1>4. Reaches(host, soc) <=> Reaches(soc, host)
  <2>1. soc \in Unit /\ host \in Unit /\ Peer(soc) = host /\ Peer(host) = soc
    BY UnitAssumption DEF Unit, Peer
  <2>2. QED BY <1>3, <2>1
<1>5. remote' \in {{}, Unit}
  BY <1>4 DEF ConnectSpi
<1>6. fault' = fault
  BY <1>5, UnitAssumption DEF ConnectSpi, Unit
<1>7. UNCHANGED <<connected, alive, gpios, gpio_irqs>>
  BY <1>1 DEF pins
<1>8. \A v \in Unit : /\ \A j, n : Name(v, j, n)' = Name(v, j, n)
                      /\ \A j : get_pin(v, j)' = get_pin(v, j)
  BY <1>1, <1>7, NameSame DEF Converting
<1>9. WellNamed' /\ NumberedOnce' /\ BothWays' /\ Unborn'
  BY <1>7, <1>8, SameNames DEF Wires
<1>10. \A w \in Unit : HalfBuilt(w)' /\ KeptOff(w)' /\ PeerInPlace(w)'
  BY <1>1, <1>2, BeforeStart DEF HalfBuilt, KeptOff, PeerInPlace, Converting
<1>11. QED BY <1>1, <1>5, <1>6, <1>7, <1>9, <1>10 DEF Wires, levels

LEMMA LoadWires ==
  ASSUME Shape, Wires, LoadConnection, Shape'
  PROVE  Wires'
<1>1. /\ UNCHANGED <<remote, alive, gpios, gpio_irqs, handler, levels, th, fault, overlap>>
      /\ loaded <= Len(Connections)
  BY DEF LoadConnection
<1>2. ~Started
  <2>1. Len(Connections) \in Nat
    BY PinAssumption
  <2>2. loaded \in 1 .. Len(Connections) + 2
    BY DEF Shape, Typed
  <2>3. QED BY <1>1, <2>1, <2>2 DEF Started
<1>3. \A v \in Unit : /\ th[v].at = "idle" /\ th[v].peer = Null /\ gpio_irqs[v] = {}
                      /\ th'[v].at = "idle" /\ th'[v].peer = Null
                      /\ \A j, i : Name(v, j, i) = get_pin(v, j)
  BY <1>1, <1>2, BeforeStart
<1>4. ASSUME NEW v \in Unit
      PROVE  /\ \A j : get_pin(v, j)' = get_pin(v, j)
             /\ \A j, i : Name(v, j, i)' = get_pin(v, j)
  <2>1. \A j : get_pin(v, j)' = get_pin(v, j)
    BY <1>1 DEF get_pin, getPin
  <2>2. QED BY <1>3, <2>1 DEF Name, Converting
<1>5. \A o \in Objects : Main(o)' <=> Main(o)
  BY <1>4, MainSame
<1>6. \A w \in Unit : HalfBuilt(w)' /\ KeptOff(w)' /\ PeerInPlace(w)'
  BY <1>3 DEF HalfBuilt, KeptOff, PeerInPlace, Converting
<1>7. fault' = "none" /\ \A o \in raised' : o[3] = "irq" /\ o[2] \in gpio_irqs'[o[1]]
  BY <1>1 DEF Wires, levels
<1>8. CASE connected' = connected
  <2>1. \A v \in Unit : \A j, i : Name(v, j, i)' = Name(v, j, i)
    BY <1>3, <1>4
  <2>2. WellNamed' /\ NumberedOnce' /\ BothWays' /\ Unborn'
    BY <1>1, <1>4, <1>8, <2>1, SameNames DEF Wires
  <2>3. QED BY <1>6, <1>7, <2>2 DEF Wires
<1>9. CASE connected' # connected
  <2>1. connected \in [Objects -> Seq(Objects)] /\ Typed
    BY DEF Shape, Typed
  <2>2. soc \in Unit /\ host \in Unit /\ Peer(soc) = host /\ Peer(host) = soc /\ soc # host
    BY UnitAssumption DEF Unit, Peer
  <2>3. PICK s, h : /\ s = get_pin(soc, Connections[loaded][2])
                    /\ h = get_pin(host, Connections[loaded][1])
    OBVIOUS
  <2>4. /\ s # Null /\ h # Null
        /\ connected' = [connected EXCEPT ![s] = connect(@, h), ![h] = connect(@, s)]
    BY <1>9, <2>3 DEF LoadConnection
  <2>5. s \in Objects /\ s[1] = soc /\ Main(s) /\ h \in Objects /\ h[1] = host /\ Main(h)
    BY <2>1, <2>2, <2>3, <2>4, GetPin DEF Main
  <2>6. PICK hs \in Seq(Objects) :
          /\ hs = connect(connected[s], h)
          /\ \A m \in DOMAIN hs :
               (m \in DOMAIN connected[s] /\ hs[m] = connected[s][m]) \/ hs[m] = h
          /\ h \in ToSet(hs)
          /\ \A m \in DOMAIN connected[s] : m \in DOMAIN hs /\ hs[m] = connected[s][m]
          /\ h \in ToSet(connected[s]) => hs = connected[s]
          /\ h \notin ToSet(connected[s]) => hs = Append(connected[s], h)
    BY <2>1, <2>5, ConnectedList
  <2>7. PICK ss \in Seq(Objects) :
          /\ ss = connect(connected[h], s)
          /\ \A m \in DOMAIN ss :
               (m \in DOMAIN connected[h] /\ ss[m] = connected[h][m]) \/ ss[m] = s
          /\ s \in ToSet(ss)
          /\ \A m \in DOMAIN connected[h] : m \in DOMAIN ss /\ ss[m] = connected[h][m]
          /\ s \in ToSet(connected[h]) => ss = connected[h]
          /\ s \notin ToSet(connected[h]) => ss = Append(connected[h], s)
    BY <2>1, <2>5, ConnectedList
  <2>8. s # h
    BY <2>2, <2>5
  <2>9. connected' = [connected EXCEPT ![s] = hs, ![h] = ss]
    BY <2>1, <2>4, <2>5, <2>6, <2>7, <2>8
  <2>10. /\ connected'[s] = hs /\ connected'[h] = ss
         /\ \A o \in Objects \ {s, h} : connected'[o] = connected[o]
    BY <2>1, <2>5, <2>8, <2>9
  <2>11. WellNamed'
    <3>1. SUFFICES ASSUME NEW o \in Objects, Main(o), NEW m \in DOMAIN connected'[o]
                   PROVE  connected'[o][m] = Name(Peer(o[1]), connected[o][m][2], o[2])'
      BY <1>5 DEF WellNamed
    <3>2. PICK n : n = connected'[o][m][2]
      OBVIOUS
    <3>3. Peer(o[1]) \in Unit
      BY ObjectShape, PeerUnit
    <3>4. CASE m \in DOMAIN connected[o] /\ connected'[o][m] = connected[o][m]
      <4>1. connected[o][m] = Name(Peer(o[1]), n, o[2])
        BY <3>1, <3>2, <3>4 DEF Wires, WellNamed
      <4>2. QED BY <1>3, <1>4, <3>2, <3>3, <3>4, <4>1
    <3>5. CASE o = s /\ connected'[o][m] = h
      <4>1. h = get_pin(host, n)
        BY <2>5, <3>2, <3>5 DEF Main
      <4>2. QED BY <1>4, <2>2, <2>5, <3>2, <3>5, <4>1
    <3>6. CASE o = h /\ connected'[o][m] = s
      <4>1. s = get_pin(soc, n)
        BY <2>5, <3>2, <3>6 DEF Main
      <4>2. QED BY <1>4, <2>2, <2>5, <3>2, <3>6, <4>1
    <3>7. QED BY <2>6, <2>7, <2>10, <3>1, <3>4, <3>5, <3>6
  <2>12. ASSUME NEW list \in Seq(Objects), NEW o \in Objects, NEW p \in Objects, Main(o), Main(p),
                o[1] # p[1],
                \/ list = connected[o]
                \/ list = Append(connected[o], p) /\ p \notin ToSet(connected[o])
         PROVE  \A l, m \in DOMAIN list : list[l][2] = list[m][2] => l = m
    <3>1. \A l, m \in DOMAIN connected[o] : connected[o][l][2] = connected[o][m][2] => l = m
      BY DEF Wires, NumberedOnce
    <3>2. CASE list = connected[o]
      BY <3>1, <3>2
    <3>3. CASE list = Append(connected[o], p) /\ p \notin ToSet(connected[o])
      <4>1. ASSUME NEW m \in DOMAIN connected[o] PROVE connected[o][m][2] # p[2]
        <5>1. p[1] = Peer(o[1])
          BY <2>12, ObjectShape, PeerUnit
        <5>2. SUFFICES ASSUME connected[o][m][2] = p[2] PROVE FALSE
          OBVIOUS
        <5>3. connected[o][m] = Name(Peer(o[1]), p[2], o[2])
          BY <2>12, <5>2 DEF Wires, WellNamed
        <5>4. connected[o][m] = p
          BY <1>3, <2>12, <5>1, <5>3, ObjectShape DEF Main
        <5>5. QED BY <3>3, <5>4, InList
      <4>2. PICK more \in Seq(Objects) :
              /\ more = Append(connected[o], p)
              /\ Len(more) = Len(connected[o]) + 1
              /\ more[Len(connected[o]) + 1] = p
              /\ \A m \in DOMAIN connected[o] : more[m] = connected[o][m]
              /\ DOMAIN more = DOMAIN connected[o] \cup {Len(connected[o]) + 1}
        BY <2>1, AppendedAt
      <4>3. \A l, m \in DOMAIN more : more[l][2] = more[m][2] => l = m
        BY <3>1, <4>1, <4>2
      <4>4. QED BY <3>3, <4>2, <4>3
    <3>4. QED BY <2>12, <3>2, <3>3
  <2>13. NumberedOnce'
    <3>1. \A l, m \in DOMAIN hs : hs[l][2] = hs[m][2] => l = m
      BY <2>2, <2>5, <2>6, <2>12
    <3>2. \A l, m \in DOMAIN ss : ss[l][2] = ss[m][2] => l = m
      BY <2>2, <2>5, <2>7, <2>12
    <3>3. QED BY <2>10, <3>1, <3>2 DEF Wires, NumberedOnce
  <2>14. ASSUME NEW o \in Objects, NEW i
         PROVE  /\ Lists(o, i) => Lists(o, i)'
                /\ Lists(o, i)' => Lists(o, i) \/ (o = s /\ i = h[2]) \/ (o = h /\ i = s[2])
    <3>1. CASE o = s
      BY <2>6, <2>8, <2>10, <3>1 DEF Lists
    <3>2. CASE o = h
      BY <2>7, <2>8, <2>10, <3>2 DEF Lists
    <3>3. CASE o \in Objects \ {s, h}
      BY <2>10, <3>3 DEF Lists
    <3>4. QED BY <2>14, <3>1, <3>2, <3>3
  <2>15. Lists(s, h[2])' /\ Lists(h, s[2])'
    BY <2>6, <2>7, <2>10, InList DEF Lists
  <2>16. BothWays'
    <3>1. SUFFICES ASSUME NEW o \in Objects, NEW p \in Objects, Main(o), Main(p),
                          p[1] = Peer(o[1]), Lists(o, p[2])'
                   PROVE  Lists(p, o[2])'
      BY <1>5 DEF BothWays
    <3>2. CASE Lists(o, p[2])
      BY <2>14, <3>1, <3>2 DEF Wires, BothWays
    <3>3. CASE o = s /\ p[2] = h[2]
      <4>1. p = h
        BY <2>2, <2>5, <3>1, <3>3 DEF Main
      <4>2. QED BY <2>15, <3>3, <4>1
    <3>4. CASE o = h /\ p[2] = s[2]
      <4>1. p = s
        BY <2>2, <2>5, <3>1, <3>4 DEF Main
      <4>2. QED BY <2>15, <3>4, <4>1
    <3>5. QED BY <2>14, <3>1, <3>2, <3>3, <3>4
  <2>17. s \in alive /\ h \in alive
    <3>1. Placed(soc) /\ Placed(host)
      BY <2>2 DEF Shape
    <3>2. s = Name(soc, s[2], 0) /\ h = Name(host, h[2], 0)
      BY <1>3, <2>2, <2>5 DEF Main
    <3>3. QED BY <2>1, <2>2, <2>4, <3>1, <3>2, NameIsAlive
  <2>18. Unborn'
    <3>1. SUFFICES ASSUME NEW o \in Objects,
                          (o[3] = "spi" /\ ~Main(o)) \/ (o[3] = "irq" /\ o \notin alive)
                   PROVE  connected'[o] = <<>>
      BY <1>1, <1>5, ObjectShape DEF Unborn
    <3>2. o # s /\ o # h
      BY <2>5, <2>17, <3>1
    <3>3. QED BY <2>10, <3>1, <3>2 DEF Wires, Unborn
  <2>19. QED BY <1>6, <1>7, <2>11, <2>13, <2>16, <2>18 DEF Wires
<1>10. QED BY <1>8, <1>9

(* The constructor of GpioIrq, at one pin: it finds the gpio in its list,  *)
(* and the names change in the lists of that pin and nowhere else.         *)
LEMMA RewireFinds ==
  ASSUME Shape, Wires, NEW u \in Unit, Rewire(u)
  PROVE  /\ ~Fail("use after free") /\ ~Fail("out of bounds")
         /\ Converting(u) /\ th[u].peer # Null /\ th[u].peer \in alive
         /\ Name(u, th[u].pin[2], th[u].peer[2]) = th[u].pin
<1>1. th[u].peer # Null /\ Converting(u) /\ th[u].at = "rewire"
  BY DEF Rewire, Runs, Converting
<1>2. PICK o, p : o = th[u].pin /\ p = th[u].peer
  OBVIOUS
<1>3. /\ o \in Objects /\ Main(o) /\ o[1] = u
      /\ th[u].k \in DOMAIN connected[o] /\ p = connected[o][th[u].k]
      /\ p \in Objects /\ p \in alive /\ Main(p) /\ Lists(p, o[2]) /\ p[1] = Peer(u)
  BY <1>1, <1>2, PeerOnWire
<1>4. PICK m \in DOMAIN connected[p] : connected[p][m][2] = o[2]
  BY <1>3 DEF Lists
<1>5. connected[p][m] = Name(u, o[2], p[2])
  BY <1>3, <1>4, PeerUnit DEF Wires, WellNamed
<1>6. ~Rewired(u, p[2])
  <2>1. SUFFICES ASSUME NEW l \in DOMAIN connected[o], l < th[u].k, connected[o][l][2] = p[2]
                 PROVE  FALSE
    BY <1>2 DEF Rewired
  <2>2. l = th[u].k
    BY <1>3, <2>1 DEF Wires, NumberedOnce
  <2>3. l \in Nat
    <3>1. connected \in [Objects -> Seq(Objects)]
      BY DEF Shape, Typed
    <3>2. connected[o] \in Seq(Objects)
      BY <1>3, <3>1
    <3>3. QED BY <3>2
  <2>4. QED BY <2>1, <2>2, <2>3
<1>7. Name(u, o[2], p[2]) = o
  BY <1>3, <1>6 DEF Name, Main
<1>8. o \in ToSet(connected[p])
  BY <1>4, <1>5, <1>7, InList
<1>9. ~Fail("use after free") /\ ~Fail("out of bounds")
  <2>1. NextPeer(u)
    BY <1>2, <1>3, <1>8 DEF Rewire
  <2>2. th'[u].peer = Null
    BY <2>1, NextPeerEffect DEF Shape, Typed
  <2>3. th' # th
    BY <1>1, <2>2
  <2>4. QED BY <2>3 DEF Fail
<1>10. QED BY <1>1, <1>2, <1>3, <1>7, <1>9

LEMMA RewireWires ==
  ASSUME Shape, Wires, NEW u \in Unit, Rewire(u)
  PROVE  Wires'
<1>1. /\ ~Fail("use after free") /\ ~Fail("out of bounds")
      /\ Converting(u) /\ th[u].peer # Null /\ th[u].peer \in alive
      /\ Name(u, th[u].pin[2], th[u].peer[2]) = th[u].pin
  BY RewireFinds
<1>2. PICK v, o, p, irq, k, j :
        /\ v = Peer(u) /\ o = th[u].pin /\ p = th[u].peer /\ irq = Half(u)
        /\ k = th[u].k /\ j = th[u].pin[2]
  OBVIOUS
<1>3. /\ v \in Unit /\ v # u /\ Peer(v) = u /\ \A w \in Unit : w = u \/ w = v
      /\ Typed /\ Placed(u) /\ Placed(v)
      /\ connected \in [Objects -> Seq(Objects)]
  BY <1>2, PeerUnit DEF Shape, Typed
<1>4. /\ o \in Objects /\ Main(o) /\ o[1] = u /\ o[2] = j /\ o = Gpio(u, j)
      /\ irq \in Objects /\ irq = GpioIrq(u, j) /\ irq[1] = u /\ irq[2] = j
      /\ j \in gpios[u] /\ k \in Nat \ {0} /\ irq # o /\ irq \in alive /\ ~Main(irq)
  <2>1. /\ o \in Objects /\ Main(o) /\ o[1] = u /\ o[2] = j /\ o = Gpio(u, j)
        /\ irq \in Objects /\ irq \in alive /\ irq = GpioIrq(u, j)
        /\ j \in gpios[u] /\ k \in Nat \ {0}
    BY <1>1, <1>2, <1>3, PinOfThread DEF Placed, Half, Converting
  <2>2. irq[1] = u /\ irq[2] = j /\ irq # o
    BY <2>1 DEF Gpio, GpioIrq
  <2>3. ~Main(irq)
    BY <1>3, <2>1, <2>2, GetPin DEF Main
  <2>4. QED BY <2>1, <2>2, <2>3
<1>5. /\ k \in DOMAIN connected[o] /\ p = connected[o][k]
      /\ p \in Objects /\ p \in alive /\ p[1] = v /\ Main(p)
      /\ Lists(o, p[2]) /\ Lists(p, j)
      /\ th[v].at = "idle" \/ th[v].pin[2] # p[2]
      /\ p # o /\ p # irq
  <2>1. /\ k \in DOMAIN connected[o] /\ p = connected[o][k]
        /\ p \in Objects /\ p \in alive /\ p[1] = v /\ Main(p)
        /\ Lists(o, p[2]) /\ Lists(p, j)
        /\ th[v].at = "idle" \/ th[v].pin[2] # p[2]
    BY <1>1, <1>2, PeerOnWire
  <2>2. QED BY <1>3, <1>4, <2>1
<1>6. /\ NextPeer(u)
      /\ UNCHANGED <<config, alive, gpios, gpio_irqs, handler, levels, fault, overlap>>
  BY <1>1, RewireEffect
<1>7. /\ \A q \in Objects \ {p, irq} : connected'[q] = connected[q]
      /\ DOMAIN connected'[p] = DOMAIN connected[p]
      /\ \A m \in DOMAIN connected[p] :
           connected'[p][m] = IF connected[p][m] = o THEN irq ELSE connected[p][m]
      /\ Len(connected'[irq]) = Len(connected[irq]) + 1
      /\ connected'[irq][Len(connected[irq]) + 1] = p
      /\ \A m \in DOMAIN connected[irq] : connected'[irq][m] = connected[irq][m]
      /\ DOMAIN connected'[irq] = DOMAIN connected[irq] \cup {Len(connected[irq]) + 1}
  <2>1. /\ \A q \in Objects \ {th[u].peer, Half(u)} : connected'[q] = connected[q]
        /\ DOMAIN connected'[th[u].peer] = DOMAIN connected[th[u].peer]
        /\ \A m \in DOMAIN connected[th[u].peer] :
             connected'[th[u].peer][m] = IF connected[th[u].peer][m] = th[u].pin
                                         THEN Half(u) ELSE connected[th[u].peer][m]
    BY <1>1, RewireShape
  <2>2. /\ Len(connected'[Half(u)]) = Len(connected[Half(u)]) + 1
        /\ connected'[Half(u)][Len(connected[Half(u)]) + 1] = th[u].peer
        /\ \A m \in DOMAIN connected[Half(u)] : connected'[Half(u)][m] = connected[Half(u)][m]
        /\ DOMAIN connected'[Half(u)]
             = DOMAIN connected[Half(u)] \cup {Len(connected[Half(u)]) + 1}
    BY <1>1, RewireShape
  <2>3. p = th[u].peer /\ irq = Half(u) /\ o = th[u].pin
    BY <1>2
  <2>4. QED BY ONLY <2>1, <2>2, <2>3
<1>8. /\ th'[v] = th[v] /\ th'[u].at = th[u].at /\ th'[u].pin = o /\ th'[u].k = k + 1
      /\ th'[u].peer = Null
      /\ Converting(u)' /\ (Converting(v)' <=> Converting(v))
      /\ Half(u)' = irq /\ Half(v)' = Half(v)
  <2>1. /\ th'[v] = th[v] /\ th'[u].at = th[u].at /\ th'[u].pin = th[u].pin
        /\ th'[u].k = th[u].k + 1 /\ th'[u].peer = Null
    BY <1>2, <1>3, <1>6, NextPeerEffect DEF Typed
  <2>2. QED BY <1>1, <1>2, <2>1 DEF Converting, Half
<1>9. /\ Len(connected[irq]) = k - 1 /\ k <= Len(connected[o]) + 1
      /\ \A m \in 1 .. k - 1 : connected[irq][m] = connected[o][m]
      /\ connected'[o] = connected[o]
  <2>1. /\ Len(connected[irq]) = k - 1 /\ k <= Len(connected[o]) + 1
        /\ \A m \in 1 .. k - 1 : connected[irq][m] = connected[o][m]
    BY <1>1, <1>2 DEF Wires, HalfBuilt
  <2>2. QED BY <1>4, <1>5, <1>7, <2>1
<1>10. th[v].at # "idle" => /\ th[v].pin \in Objects /\ th[v].pin # p
                            /\ connected'[th[v].pin] = connected[th[v].pin]
  <2>1. th[v].at # "idle" => th[v].pin \in Objects /\ th[v].pin[1] = v
    BY <1>3, PinOfThread
  <2>2. QED BY <1>3, <1>4, <1>5, <1>7, <2>1
<1>11. \A w \in Unit : \A l : get_pin(w, l)' = get_pin(w, l)
  BY <1>6 DEF get_pin, getPin
<1>12. \A l, i : Name(v, l, i)' = Name(v, l, i)
  <2>1. Converting(v) => th[v].at # "idle"
    BY DEF Converting
  <2>2. QED BY <1>3, <1>6, <1>8, <1>10, <2>1, NameSame
<1>13. \A l, i : Name(u, l, i)' = IF l = j /\ i = p[2] THEN irq ELSE Name(u, l, i)
  <2>1. ASSUME NEW i PROVE Rewired(u, i)' <=> Rewired(u, i) \/ i = p[2]
    <3>1. Rewired(u, i)' <=> \E l \in DOMAIN connected[o] : l < k + 1 /\ connected[o][l][2] = i
      BY <1>8, <1>9 DEF Rewired
    <3>2. Rewired(u, i) <=> \E l \in DOMAIN connected[o] : l < k /\ connected[o][l][2] = i
      BY <1>2 DEF Rewired
    <3>3. \A l \in DOMAIN connected[o] : l < k + 1 <=> l < k \/ l = k
      <4>1. DOMAIN connected[o] \subseteq Nat /\ k \in Nat
        BY <1>3, <1>4
      <4>2. QED BY <4>1
    <3>4. QED BY <1>5, <3>1, <3>2, <3>3
  <2>2. \A l, i : Name(u, l, i)' = IF l = j /\ Rewired(u, i)' THEN GpioIrq(u, l) ELSE get_pin(u, l)
    BY <1>4, <1>8, <1>11 DEF Name
  <2>3. \A l, i : Name(u, l, i) = IF l = j /\ Rewired(u, i) THEN GpioIrq(u, l) ELSE get_pin(u, l)
    BY <1>1, <1>2 DEF Name
  <2>4. QED BY <1>4, <2>1, <2>2, <2>3
<1>14. \A q \in Objects : Main(q)' <=> Main(q)
  BY <1>11, MainSame
<1>15. \A q \in Objects : q # irq =>
         /\ DOMAIN connected'[q] = DOMAIN connected[q]
         /\ \A m \in DOMAIN connected[q] : connected'[q][m][2] = connected[q][m][2]
  <2>1. \A m \in DOMAIN connected[p] : connected'[p][m][2] = connected[p][m][2]
    BY <1>4, <1>7
  <2>2. QED BY <1>7, <2>1
<1>16. WellNamed'
  <2>1. SUFFICES ASSUME NEW q \in Objects, Main(q), NEW m \in DOMAIN connected'[q]
                 PROVE  connected'[q][m] = Name(Peer(q[1]), connected[q][m][2], q[2])'
    BY <1>14 DEF WellNamed
  <2>2. q # irq /\ m \in DOMAIN connected[q] /\ connected'[q][m][2] = connected[q][m][2]
    BY <1>4, <1>15, <2>1
  <2>3. PICK n : n = connected[q][m][2]
    OBVIOUS
  <2>4. connected[q][m] = Name(Peer(q[1]), n, q[2])
    BY <2>1, <2>2, <2>3 DEF Wires, WellNamed
  <2>5. CASE q = p
    <3>1. CASE connected[q][m] = o
      BY <1>3, <1>4, <1>5, <1>7, <1>13, <2>2, <2>3, <2>5, <3>1
    <3>2. CASE connected[q][m] # o
      <4>1. n # j
        <5>1. Name(u, j, p[2]) = o
          BY <1>1, <1>2
        <5>2. connected[q][m] = Name(u, n, p[2])
          BY <1>3, <1>5, <2>4, <2>5
        <5>3. QED BY <3>2, <5>1, <5>2
      <4>2. Name(u, n, p[2])' = Name(u, n, p[2])
        BY <1>13, <4>1
      <4>3. connected'[q][m] = connected[q][m]
        BY <1>7, <2>2, <2>5, <3>2
      <4>4. Peer(q[1]) = u
        BY <1>3, <1>5, <2>5
      <4>5. QED BY <2>2, <2>3, <2>4, <2>5, <4>2, <4>3, <4>4
    <3>3. QED BY <3>1, <3>2
  <2>6. CASE q # p
    <3>1. connected'[q] = connected[q]
      BY <1>7, <2>2, <2>6
    <3>2. CASE q[1] = u
      BY <1>2, <1>12, <2>2, <2>3, <2>4, <3>1, <3>2
    <3>3. CASE q[1] = v
      <4>1. q[2] # p[2]
        <5>1. q = get_pin(v, q[2]) /\ p = get_pin(v, p[2])
          BY <1>5, <2>1, <3>3 DEF Main
        <5>2. QED BY <2>6, <5>1
      <4>2. Name(u, n, q[2])' = Name(u, n, q[2])
        BY <1>13, <4>1
      <4>3. Peer(q[1]) = u
        BY <1>3, <3>3
      <4>4. QED BY <2>2, <2>3, <2>4, <3>1, <4>2, <4>3
    <3>4. QED BY <1>3, <3>2, <3>3, ObjectShape
  <2>7. QED BY <2>5, <2>6
<1>17. NumberedOnce'
  <2>1. \A l, m \in DOMAIN connected'[irq] : connected'[irq][l][2] = connected'[irq][m][2] => l = m
    <3>1. Len(connected[irq]) + 1 = k /\ DOMAIN connected[irq] = 1 .. k - 1 /\ k \in Nat \ {0}
      BY <1>3, <1>4, <1>9
    <3>2. \A m \in DOMAIN connected'[irq] :
            m \in DOMAIN connected[o] /\ connected'[irq][m] = connected[o][m]
      <4>1. DOMAIN connected[o] = 1 .. Len(connected[o]) /\ Len(connected[o]) \in Nat
        BY <1>3, <1>4
      <4>2. 1 .. k - 1 \subseteq DOMAIN connected[o]
        BY <1>9, <3>1, <4>1
      <4>3. QED BY <1>5, <1>7, <1>9, <3>1, <4>2
    <3>3. QED BY <1>4, <3>2 DEF Wires, NumberedOnce
  <2>2. QED BY <1>15, <2>1 DEF Wires, NumberedOnce
<1>18. \A q \in Objects : q # irq => \A i : Lists(q, i)' <=> Lists(q, i)
  BY <1>15 DEF Lists
<1>19. BothWays'
  BY <1>4, <1>14, <1>18 DEF Wires, BothWays
<1>20. Unborn'
  <2>1. SUFFICES ASSUME NEW q \in Objects,
                        (q[3] = "spi" /\ ~Main(q)) \/ (q[3] = "irq" /\ q \notin alive)
                 PROVE  connected'[q] = <<>>
    BY <1>6, <1>14 DEF Unborn
  <2>2. q # p /\ q # irq
    <3>1. irq[3] = "irq"
      BY <1>4 DEF GpioIrq
    <3>2. QED BY <1>4, <1>5, <2>1, <3>1
  <2>3. connected'[q] = connected[q]
    BY <1>7, <2>2
  <2>4. QED BY <2>1, <2>3 DEF Wires, Unborn
<1>21. HalfBuilt(u)'
  <2>1. k \in Nat \ {0} /\ Len(connected[o]) \in Nat /\ k <= Len(connected[o])
        /\ DOMAIN connected[irq] = 1 .. k - 1
    BY <1>3, <1>4, <1>5, <1>9
  <2>2. Len(connected'[irq]) = (k + 1) - 1 /\ k + 1 <= Len(connected'[o]) + 1
    BY <1>7, <1>9, <2>1
  <2>3. \A m \in 1 .. (k + 1) - 1 : m = k \/ m \in 1 .. k - 1
    BY <2>1
  <2>4. \A m \in 1 .. (k + 1) - 1 : connected'[irq][m] = connected'[o][m]
    <3>1. connected'[irq][k] = p
      BY <1>7, <1>9, <2>1
    <3>2. QED BY <1>5, <1>7, <1>9, <2>1, <2>3, <3>1
  <2>5. QED BY <1>8, <2>2, <2>4 DEF HalfBuilt
<1>22. HalfBuilt(v)' /\ PeerInPlace(v)'
  <2>1. Converting(v) => connected'[Half(v)] = connected[Half(v)]
    <3>1. SUFFICES ASSUME Converting(v) PROVE Half(v) \in Objects /\ Half(v) # p /\ Half(v) # irq
      BY <1>7
    <3>2. /\ Half(v) \in Objects /\ Half(v)[1] = v /\ Half(v)[2] = th[v].pin[2]
      BY <1>3, <3>1, PinOfThread DEF Half, GpioIrq, Converting
    <3>3. QED BY <1>3, <1>4, <1>5, <3>1, <3>2 DEF Converting
  <2>2. QED BY <1>3, <1>8, <1>10, <2>1, PartsSame DEF Wires
<1>23. PeerInPlace(u)'
  BY <1>8 DEF PeerInPlace
<1>24. KeptOff(u)'
  BY <1>1, <1>2, <1>4, <1>8, <1>18 DEF Wires, KeptOff
<1>25. KeptOff(v)'
  <2>1. SUFFICES ASSUME Converting(v) PROVE ~Lists(th[v].pin, o[2])'
    BY <1>3, <1>8 DEF KeptOff
  <2>2. ~Lists(th[v].pin, o[2])
    BY <1>1, <1>2, <1>3, <2>1 DEF Wires, KeptOff, Converting
  <2>3. th[v].pin \in Objects /\ th[v].pin # irq
    BY <1>3, <1>4, <1>10, <2>1, PinOfThread DEF Converting
  <2>4. QED BY <1>8, <1>18, <2>2, <2>3
<1>26. fault' = "none" /\ \A r \in raised' : r[3] = "irq" /\ r[2] \in gpio_irqs'[r[1]]
  BY <1>6 DEF Wires, levels
<1>27. QED BY <1>3, <1>16, <1>17, <1>19, <1>20, <1>21, <1>22, <1>23, <1>24, <1>25, <1>26 DEF Wires

(* When its constructor is through, the object has the pins of the gpio.   *)
LEMMA HalfIsWhole ==
  ASSUME Shape, Wires, NEW u \in Unit, th[u].at = "replace"
  PROVE  /\ DOMAIN connected[Half(u)] = DOMAIN connected[th[u].pin]
         /\ \A m \in DOMAIN connected[th[u].pin] :
              connected[Half(u)][m] = connected[th[u].pin][m]
         /\ \A m \in DOMAIN connected[th[u].pin] : m < th[u].k
<1>1. /\ Typed /\ Placed(u) /\ Converting(u)
      /\ connected \in [Objects -> Seq(Objects)]
  BY DEF Shape, Typed, Converting
<1>2. th[u].pin \in Objects /\ Half(u) \in Objects /\ th[u].k \in Nat \ {0}
  BY <1>1, PinOfThread
<1>3. /\ Len(connected[Half(u)]) = th[u].k - 1 /\ th[u].k <= Len(connected[th[u].pin]) + 1
      /\ \A m \in 1 .. th[u].k - 1 : connected[Half(u)][m] = connected[th[u].pin][m]
  BY <1>1 DEF Wires, HalfBuilt
<1>4. th[u].k > Len(connected[th[u].pin])
  BY <1>1 DEF Placed
<1>5. /\ Len(connected[th[u].pin]) \in Nat
      /\ DOMAIN connected[th[u].pin] = 1 .. Len(connected[th[u].pin])
      /\ DOMAIN connected[Half(u)] = 1 .. Len(connected[Half(u)])
  BY <1>1, <1>2
<1>6. th[u].k - 1 = Len(connected[th[u].pin])
  BY <1>2, <1>3, <1>4, <1>5
<1>7. QED BY <1>2, <1>3, <1>4, <1>5, <1>6

LEMMA ReplaceWires ==
  ASSUME Shape, Wires, NEW u \in Unit, Replace(u)
  PROVE  Wires'
<1>1. PICK v, o, irq, j :
        v = Peer(u) /\ o = th[u].pin /\ irq = Half(u) /\ j = th[u].pin[2]
  OBVIOUS
<1>2. /\ v \in Unit /\ v # u /\ Peer(v) = u /\ \A w \in Unit : w = u \/ w = v
      /\ Typed /\ Placed(u) /\ Placed(v)
      /\ connected \in [Objects -> Seq(Objects)]
  BY <1>1, PeerUnit DEF Shape, Typed
<1>3. /\ th[u].at = "replace" /\ Converting(u)
      /\ th'[u] = IdleThread /\ th'[v] = th[v]
      /\ j \in gpios[u] /\ irq \in Objects
      /\ gpios'[u] = gpios[u] \ {j} /\ gpios'[v] = gpios[v]
      /\ gpio_irqs'[u] = gpio_irqs[u] \cup {j} /\ gpio_irqs'[v] = gpio_irqs[v]
      /\ UNCHANGED <<config, connected, handler, levels, fault, overlap>>
      /\ alive' = alive \ {o}
  BY <1>1, ReplaceShape DEF Replace, Converting
<1>4. /\ o \in Objects /\ Main(o) /\ o[1] = u /\ o[2] = j /\ o = Gpio(u, j)
      /\ irq = GpioIrq(u, j) /\ irq[1] = u /\ irq[2] = j /\ irq # o
      /\ th[u].k \in Nat \ {0}
  <2>1. o \in Objects /\ Main(o) /\ o[1] = u /\ o[2] = j /\ o = Gpio(u, j) /\ th[u].k \in Nat \ {0}
    BY <1>1, <1>2, <1>3, PinOfThread
  <2>2. irq = GpioIrq(u, j)
    BY <1>1 DEF Half
  <2>3. QED BY <2>1, <2>2 DEF Gpio, GpioIrq
<1>5. /\ \A l : get_pin(v, l)' = get_pin(v, l)
      /\ \A l : l # j => get_pin(u, l)' = get_pin(u, l)
      /\ get_pin(u, j)' = irq
  <2>1. \A l : get_pin(v, l)' = get_pin(v, l)
    BY <1>3 DEF get_pin, getPin
  <2>2. \A l : l # j => get_pin(u, l)' = get_pin(u, l)
    BY <1>3 DEF get_pin, getPin
  <2>3. get_pin(u, j)' = irq
    BY <1>3, <1>4 DEF get_pin
  <2>4. QED BY <2>1, <2>2, <2>3
<1>6. \A q \in Objects : Main(q)' <=> (Main(q) /\ q # o) \/ q = irq
  <2>1. TAKE q \in Objects
  <2>2. CASE q[1] = v
    BY <1>2, <1>4, <1>5, <2>2 DEF Main
  <2>3. CASE q[1] = u /\ q[2] # j
    BY <1>4, <1>5, <2>3 DEF Main
  <2>4. CASE q[1] = u /\ q[2] = j
    <3>1. Main(q) <=> q = o
      BY <1>4, <2>4 DEF Main
    <3>2. Main(q)' <=> q = irq
      BY <1>5, <2>4 DEF Main
    <3>3. QED BY <1>4, <3>1, <3>2
  <2>5. QED BY <1>2, <2>2, <2>3, <2>4, ObjectShape
<1>7. /\ DOMAIN connected[irq] = DOMAIN connected[o]
      /\ \A m \in DOMAIN connected[o] : connected[irq][m] = connected[o][m]
      /\ \A m \in DOMAIN connected[o] : m < th[u].k
  BY <1>1, <1>3, HalfIsWhole
<1>8. \A i : Rewired(u, i) <=> Lists(o, i)
  BY <1>1, <1>7 DEF Rewired, Lists
<1>9. \A l, i : Name(v, l, i)' = Name(v, l, i)
  BY <1>2, <1>3, NameSame DEF Converting
<1>10. \A l, i : /\ Name(u, l, i)' = get_pin(u, l)'
                 /\ l # j => Name(u, l, i) = get_pin(u, l)
                 /\ Lists(o, i) => Name(u, j, i) = irq
  <2>1. ~Converting(u)'
    BY <1>3, IdleType DEF Converting
  <2>2. \A l, i : Name(u, l, i)' = get_pin(u, l)'
    BY <2>1 DEF Name
  <2>3. QED BY <1>1, <1>3, <1>4, <1>8, <2>2 DEF Name
<1>11. WellNamed'
  <2>1. SUFFICES ASSUME NEW q \in Objects, Main(q)', NEW m \in DOMAIN connected[q]
                 PROVE  connected'[q][m] = Name(Peer(q[1]), connected[q][m][2], q[2])'
    BY <1>3 DEF WellNamed
  <2>2. PICK n : n = connected[q][m][2] /\ n = connected'[q][m][2]
    BY <1>3
  <2>3. CASE q = irq
    <3>1. m \in DOMAIN connected[o] /\ connected[q][m] = connected[o][m]
      BY <1>7, <2>1, <2>3
    <3>2. connected[o][m] = Name(v, n, j)
      <4>1. connected[o][m] = Name(Peer(o[1]), connected[o][m][2], o[2])
        BY <1>4, <3>1 DEF Wires, WellNamed
      <4>2. Peer(o[1]) = v /\ o[2] = j /\ connected[o][m][2] = n
        BY <1>1, <1>4, <2>2, <3>1
      <4>3. QED BY <4>1, <4>2
    <3>3. Peer(q[1]) = v /\ q[2] = j
      BY <1>1, <1>4, <2>3
    <3>4. QED BY <1>3, <1>9, <2>2, <3>1, <3>2, <3>3
  <2>4. CASE q # irq /\ q[1] = u
    <3>1. connected[q][m] = Name(v, n, q[2])
      BY <1>1, <1>6, <2>1, <2>2, <2>4 DEF Wires, WellNamed
    <3>2. Peer(q[1]) = v
      BY <1>1, <2>4
    <3>3. QED BY <1>3, <1>9, <2>2, <3>1, <3>2
  <2>5. CASE q # irq /\ q[1] = v
    <3>1. Main(q) /\ Peer(q[1]) = u
      BY <1>2, <1>6, <2>1, <2>5
    <3>2. connected[q][m] = Name(u, n, q[2])
      BY <2>1, <2>2, <3>1 DEF Wires, WellNamed
    <3>3. CASE n # j
      BY <1>3, <1>5, <1>10, <2>2, <3>1, <3>2, <3>3
    <3>4. CASE n = j
      <4>1. Lists(q, o[2])
        BY <1>4, <2>2, <3>4 DEF Lists
      <4>2. Lists(o, q[2])
        BY <1>2, <1>4, <2>5, <3>1, <4>1 DEF Wires, BothWays
      <4>3. connected[q][m] = irq
        BY <1>10, <3>2, <3>4, <4>2
      <4>4. QED BY <1>3, <1>5, <1>10, <2>2, <3>1, <3>4, <4>3
    <3>5. QED BY <3>3, <3>4
  <2>6. QED BY <1>2, <2>3, <2>4, <2>5, ObjectShape
<1>12. NumberedOnce'
  BY <1>3 DEF Wires, NumberedOnce
<1>13. BothWays'
  <2>1. \A q \in Objects : \A i : Lists(q, i)' <=> Lists(q, i)
    BY <1>3 DEF Lists
  <2>2. \A i : Lists(irq, i) <=> Lists(o, i)
    BY <1>7 DEF Lists
  <2>3. ASSUME NEW q \in Objects, Main(q)'
        PROVE  \E b \in Objects : /\ Main(b) /\ b[1] = q[1] /\ b[2] = q[2]
                                  /\ \A i : Lists(q, i) <=> Lists(b, i)
    <3>1. CASE q = irq
      BY <1>4, <2>2, <3>1
    <3>2. CASE q # irq
      BY <1>6, <2>3, <3>2
    <3>3. QED BY <3>1, <3>2
  <2>4. SUFFICES ASSUME NEW q \in Objects, NEW p \in Objects, Main(q)', Main(p)',
                        p[1] = Peer(q[1]), Lists(q, p[2])
                 PROVE  Lists(p, q[2])
    BY <2>1 DEF BothWays
  <2>5. PICK b \in Objects : /\ Main(b) /\ b[1] = q[1] /\ b[2] = q[2]
                             /\ \A i : Lists(q, i) <=> Lists(b, i)
    BY <2>3, <2>4
  <2>6. PICK c \in Objects : /\ Main(c) /\ c[1] = p[1] /\ c[2] = p[2]
                             /\ \A i : Lists(p, i) <=> Lists(c, i)
    BY <2>3, <2>4
  <2>7. QED BY <2>4, <2>5, <2>6 DEF Wires, BothWays
<1>14. Unborn'
  <2>1. SUFFICES ASSUME NEW q \in Objects,
                        (q[3] = "spi" /\ ~Main(q)') \/ (q[3] = "irq" /\ q \notin alive')
                 PROVE  connected[q] = <<>>
    BY <1>3 DEF Unborn
  <2>2. o[3] = "gpio" /\ irq[3] = "irq"
    BY <1>4 DEF Gpio, GpioIrq
  <2>3. (q[3] = "spi" /\ ~Main(q)) \/ (q[3] = "irq" /\ q \notin alive)
    BY <1>3, <1>6, <2>1, <2>2
  <2>4. QED BY <2>3 DEF Wires, Unborn
<1>15. HalfBuilt(u)' /\ KeptOff(u)' /\ PeerInPlace(u)'
  BY <1>3, IdleType DEF HalfBuilt, KeptOff, PeerInPlace, Converting
<1>16. HalfBuilt(v)' /\ PeerInPlace(v)'
  BY <1>2, <1>3, PartsSame DEF Wires
<1>17. KeptOff(v)'
  BY <1>2, <1>3, IdleType DEF KeptOff
<1>18. fault' = "none" /\ \A r \in raised' : r[3] = "irq" /\ r[2] \in gpio_irqs'[r[1]]
  <2>1. raised' = raised /\ fault' = fault
    BY <1>3 DEF levels
  <2>2. \A w \in Unit : gpio_irqs[w] \subseteq gpio_irqs'[w]
    BY <1>2, <1>3
  <2>3. \A r \in raised : r[1] \in Unit
    BY <1>2, ObjectShape DEF Typed
  <2>4. QED BY <2>1, <2>2, <2>3 DEF Wires
<1>19. QED BY <1>2, <1>11, <1>12, <1>13, <1>14, <1>15, <1>16, <1>17, <1>18 DEF Wires

-----------------------------------------------------------------------------
(* The invariant.                                                          *)

LEMMA PinInit == Init => PinInv
<1> SUFFICES ASSUME Init PROVE PinInv
  OBVIOUS
<1>1. th = [u \in Unit |-> IdleThread] /\ \A u \in Unit : th[u] = IdleThread
  BY DEF Init
<1>2. ~Started
  <2>1. Len(Connections) \in Nat
    BY PinAssumption
  <2>2. QED BY <2>1 DEF Init, Started
<1>3. connected \in [Objects -> Seq(Objects)] /\ \A o \in Objects : connected[o] = <<>>
  <2>1. <<>> \in Seq(Objects)
    OBVIOUS
  <2>2. QED BY <2>1 DEF Init
<1>4. \A o \in Objects : DOMAIN connected[o] = {}
  BY <1>3
<1>5. Typed
  <2>1. alive = {o \in Objects : IsAlive(o)}
    <3>1. \A o \in Objects : IsAlive(o) <=> o[3] # "irq"
      BY <1>1, IdleType, ObjectShape DEF Init, IsAlive, Converting
    <3>2. QED BY <3>1 DEF Init
  <2>2. loaded \in 1 .. Len(Connections) + 2
    <3>1. Len(Connections) \in Nat
      BY PinAssumption
    <3>2. QED BY <3>1 DEF Init
  <2>3. gpios \in [Unit -> SUBSET Nat] /\ gpio_irqs \in [Unit -> SUBSET Nat]
    BY PinAssumption DEF Init
  <2>4. \A u \in Unit : gpios[u] \cup gpio_irqs[u] = GpioPins[u] /\ gpios[u] \cap gpio_irqs[u] = {}
    BY DEF Init
  <2>5. th \in [Unit -> PinThread]
    BY <1>1, IdleType
  <2>6. QED BY <1>3, <2>1, <2>2, <2>3, <2>4, <2>5 DEF Init, Typed
<1>6. Facing
  BY <1>4 DEF Facing
<1>7. \A w \in Unit : Placed(w)
  BY <1>1, <1>2, IdleType DEF Placed, Converting, Init
<1>8. Wires
  <2>1. WellNamed /\ NumberedOnce /\ BothWays
    BY <1>4 DEF WellNamed, NumberedOnce, BothWays, Lists
  <2>2. Unborn
    BY <1>3 DEF Unborn
  <2>3. \A w \in Unit : HalfBuilt(w) /\ KeptOff(w) /\ PeerInPlace(w)
    BY <1>1, IdleType DEF HalfBuilt, KeptOff, PeerInPlace, Converting
  <2>4. QED BY <2>1, <2>2, <2>3 DEF Wires, Init
<1>9. QED BY <1>5, <1>6, <1>7, <1>8 DEF Init, PinInv, Shape

LEMMA PinStutter ==
  ASSUME PinInv, UNCHANGED vars
  PROVE  PinInv'
<1>1. /\ UNCHANGED <<loaded, remote, connected, alive, gpios, gpio_irqs, handler>>
      /\ UNCHANGED <<level, raised, fresh, th, fault, overlap>>
  BY DEF vars, config, pins, levels
<1>2. Started' <=> Started
  BY <1>1 DEF Started
<1>3. \A u \in Unit : Converting(u)' <=> Converting(u)
  BY <1>1 DEF Converting
<1>4. Shape'
  <2>1. alive' = {o \in Objects : IsAlive(o)'}
    BY <1>1, <1>3, AliveKept DEF PinInv, Shape
  <2>2. Typed' /\ Facing'
    BY <1>1, <2>1 DEF PinInv, Shape, Typed, Facing
  <2>3. \A w \in Unit : Placed(w)'
    BY <1>1, <1>2, PlacedFrame DEF PinInv, Shape
  <2>4. QED BY <2>2, <2>3 DEF Shape
<1>5. Wires => Wires'
  <2>1. SUFFICES ASSUME Wires PROVE Wires'
    OBVIOUS
  <2>2. \A v \in Unit : /\ \A j, n : Name(v, j, n)' = Name(v, j, n)
                        /\ \A j : get_pin(v, j)' = get_pin(v, j)
    BY <1>1, <1>3, NameSame
  <2>3. WellNamed' /\ NumberedOnce' /\ BothWays' /\ Unborn'
    BY <1>1, <2>1, <2>2, SameNames DEF Wires
  <2>4. \A u \in Unit : HalfBuilt(u)' /\ PeerInPlace(u)'
    BY <1>1, <2>1, PartsSame DEF Wires, PinInv
  <2>5. \A u \in Unit : KeptOff(u)'
    BY <1>1, <2>1 DEF Wires, KeptOff, Lists, Converting
  <2>6. QED BY <1>1, <2>1, <2>3, <2>4, <2>5 DEF Wires
<1>6. QED BY <1>1, <1>2, <1>4, <1>5 DEF PinInv

(* A thread that follows a stray pointer has met the other unit before.    *)
LEMMA PinContinue ==
  ASSUME PinInv, NEW u \in Unit, Continue(u)
  PROVE  PinInv'
<1>1. Shape /\ (~overlap => Wires) /\ remote \in {{}, Unit} /\ fault # "assertion"
  BY DEF PinInv
<1>2. th[u].at # "idle"
  BY DEF Continue, Fetch, Rewire, SetHandler, Replace, Change, ChangeDone, Runs
<1>3. Started
  BY <1>1, <1>2 DEF Shape, Placed
<1>4. ASSUME Shape', ~overlap => Wires', UNCHANGED <<remote, loaded, overlap>>,
             fault' # "assertion"
      PROVE  PinInv'
  BY <1>1, <1>3, <1>4 DEF PinInv, Started
<1>5. CASE Fetch(u)
  BY <1>1, <1>4, <1>5, FetchShape, FetchWires DEF Fetch, config
<1>6. CASE Rewire(u)
  <2>1. ASSUME NEW why \in {"use after free", "out of bounds"}, Fail(why)
        PROVE  PinInv'
    <3>1. overlap
      BY <1>1, <1>6, <2>1, RewireFinds
    <3>2. QED BY <1>1, <1>4, <2>1, <3>1, FailShape
  <2>2. CASE ~Fail("use after free") /\ ~Fail("out of bounds")
    BY <1>1, <1>4, <1>6, <2>2, RewireShape, RewireEffect, RewireWires DEF config
  <2>3. QED BY <2>1, <2>2
<1>7. CASE SetHandler(u)
  BY <1>1, <1>4, <1>7, SetHandlerShape, SetHandlerWires DEF SetHandler, config
<1>8. CASE Replace(u)
  BY <1>1, <1>4, <1>8, ReplaceShape, ReplaceWires DEF config
<1>9. CASE Change(u)
  <2>1. CASE Fail("use after free")
    <3>1. overlap
      BY <1>1, <1>9, <2>1, ChangeWires
    <3>2. QED BY <1>1, <1>4, <2>1, <3>1, FailShape
  <2>2. CASE ~Fail("use after free")
    BY <1>1, <1>4, <1>9, <2>2, ChangeShape, ChangeWires DEF config
  <2>3. QED BY <2>1, <2>2
<1>10. CASE ChangeDone(u)
  BY <1>1, <1>4, <1>10, ChangeDoneShape, ChangeDoneWires DEF config
<1>11. QED BY <1>5, <1>6, <1>7, <1>8, <1>9, <1>10 DEF Continue

LEMMA PinStep ==
  ASSUME PinInv, [Next]_vars
  PROVE  PinInv'
<1>1. Shape /\ (~overlap => Wires) /\ remote \in {{}, Unit} /\ fault # "assertion"
  BY DEF PinInv
<1>2. CASE load_config
  <2>1. ~Started
    <3>1. Len(Connections) \in Nat
      BY PinAssumption
    <3>2. loaded \in 1 .. Len(Connections) + 2
      BY <1>1 DEF Shape, Typed
    <3>3. loaded <= Len(Connections) \/ loaded = Len(Connections) + 1
      BY <1>2 DEF load_config, LoadConnection, ConnectSpi
    <3>4. QED BY <3>1, <3>2, <3>3 DEF Started
  <2>2. ~overlap /\ Wires
    BY <1>1, <2>1 DEF PinInv
  <2>3. CASE LoadConnection
    <3>1. Shape' /\ Wires' /\ UNCHANGED <<remote, fault, overlap>>
      BY <1>1, <2>2, <2>3, LoadShape, LoadWires DEF LoadConnection
    <3>2. QED BY <1>1, <2>2, <3>1 DEF PinInv
  <2>4. CASE ConnectSpi
    <3>1. Shape' /\ Wires' /\ remote' \in {{}, Unit} /\ UNCHANGED overlap
      BY <1>1, <2>2, <2>4, ConnectShape, ConnectSpiWires DEF ConnectSpi
    <3>2. QED BY <2>2, <3>1 DEF PinInv, Wires
  <2>5. QED BY <1>2, <2>3, <2>4 DEF load_config
<1>3. ASSUME NEW f \in Convert, set_gpio_irq(f[1], f[2])
      PROVE  PinInv'
  <2>1. f[1] \in Unit
    BY PinAssumption
  <2>2. Started /\ UNCHANGED <<loaded, remote, fault>> /\ (~overlap' => ~overlap)
    BY <1>3 DEF set_gpio_irq, Runs, Started, config
  <2>3. Shape'
    BY <1>1, <1>3, <2>1, set_gpio_irqShape
  <2>4. ~overlap' => Wires'
    BY <1>1, <1>3, <2>1, <2>2, <2>3, set_gpio_irqWires
  <2>5. QED BY <1>1, <2>2, <2>3, <2>4 DEF PinInv, Started
<1>4. ASSUME NEW f \in Drive, NEW value \in BOOLEAN, set_gpio_value(f[1], f[2], value)
      PROVE  PinInv'
  <2>1. f[1] \in Unit
    BY PinAssumption
  <2>2. Started /\ UNCHANGED <<loaded, remote, fault>> /\ (~overlap' => ~overlap)
    BY <1>4 DEF set_gpio_value, Runs, Started, config
  <2>3. Shape'
    BY <1>1, <1>4, <2>1, set_gpio_valueShape
  <2>4. ~overlap' => Wires'
    BY <1>1, <1>4, <2>1, <2>2, set_gpio_valueWires
  <2>5. QED BY <1>1, <2>2, <2>3, <2>4 DEF PinInv, Started
<1>5. CASE UNCHANGED vars
  BY <1>5, PinStutter
<1>6. QED BY <1>2, <1>3, <1>4, <1>5, PinContinue DEF Next

THEOREM PinInvariant == Spec => []PinInv
<1>1. Init => PinInv
  BY PinInit
<1>2. PinInv /\ [Next]_vars => PinInv'
  BY PinStep
<1>3. QED BY <1>1, <1>2, PTL DEF Spec

-----------------------------------------------------------------------------
(* The properties.                                                         *)

(* The types of the wires, for any pins, connections and main functions:   *)
(* every pin is a gpio or an irq, never both, and the lists hold pins.     *)
THEOREM TypeCorrect == Spec => []TypeOK
<1>1. PinInv => TypeOK
  <2> SUFFICES ASSUME PinInv PROVE TypeOK
    OBVIOUS
  <2>1. Typed
    BY DEF PinInv, Shape
  <2>2. \A o \in Objects : ToSet(connected[o]) \subseteq Objects
    <3>1. ASSUME NEW o \in Objects, NEW q \in ToSet(connected[o]) PROVE q \in Objects
      <4>1. PICK m \in DOMAIN connected[o] : connected[o][m] = q
        BY <3>1, InList
      <4>2. connected[o] \in Seq(Objects)
        BY <2>1, <3>1 DEF Typed
      <4>3. QED BY <4>1, <4>2
    <3>2. QED BY <3>1
  <2>3. \A u \in Unit : th[u].at \in {"idle", "rewire", "replace", "change"}
    <3>1. th \in [Unit -> PinThread]
      BY <2>1 DEF Typed
    <3>2. QED BY <3>1 DEF PinThread
  <2>4. alive \subseteq Objects
    BY <2>1 DEF Typed
  <2>5. QED BY <2>1, <2>2, <2>3, <2>4 DEF Typed, TypeOK
<1>2. QED BY <1>1, PinInvariant, PTL

(* load_config connects both spi devices or neither of them, whatever the  *)
(* connections are: its assertion never fails.                             *)
THEOREM SpiPairs == Spec => []SpiBothOrNeither
<1>1. PinInv => SpiBothOrNeither
  BY DEF PinInv, SpiBothOrNeither
<1>2. QED BY <1>1, PinInvariant, PTL

(* A deleted pin is used, and a list written behind its end, only after    *)
(* both units were at work on one wire.                                    *)
THEOREM PointersHold == Spec => []NoStrayPointer
<1>1. PinInv => NoStrayPointer
  BY DEF PinInv, Wires, NoStrayPointer
<1>2. QED BY <1>1, PinInvariant, PTL

(* The same of an irq that is raised before its conversion is complete.    *)
THEOREM RaisedIsHandled == Spec => []RaisedHasHandler
<1>1. PinInv => RaisedHasHandler
  <2> SUFFICES ASSUME PinInv, ~overlap, NEW o \in raised
               PROVE  o \in handler /\ o[2] \in gpio_irqs[o[1]]
    BY DEF RaisedHasHandler
  <2>1. Shape /\ Wires /\ o \in Objects
    BY DEF PinInv, Shape, Typed
  <2>2. o[3] = "irq" /\ o[2] \in gpio_irqs[o[1]] /\ o[1] \in Unit
    BY <2>1, ObjectShape DEF Wires
  <2>3. o = GpioIrq(o[1], o[2])
    BY <2>1, <2>2, ObjectShape
  <2>4. QED BY <2>1, <2>2, <2>3 DEF Shape, Placed
<1>2. QED BY <1>1, PinInvariant, PTL

(* Between conversions every wire has two ends, which exist and know one   *)
(* another once.                                                           *)
THEOREM WiresKept == Spec => []WiresHold
<1>1. PinInv => WiresHold
  <2> SUFFICES ASSUME PinInv, ~overlap, \A u \in Unit : ~Converting(u), NEW o \in alive
               PROVE  /\ IsInjective(connected[o])
                      /\ \A p \in ToSet(connected[o]) : p \in alive /\ Wired(p, o)
    BY DEF WiresHold
  <2>1. Shape /\ Wires /\ Typed /\ o \in Objects /\ connected \in [Objects -> Seq(Objects)]
    BY DEF PinInv, Shape, Typed
  <2>2. \A v \in Unit : \A j, i : Name(v, j, i) = get_pin(v, j)
    BY DEF Name
  <2>3. IsInjective(connected[o])
    <3>1. \A l, m \in DOMAIN connected[o] : connected[o][l] = connected[o][m] => l = m
      BY <2>1 DEF Wires, NumberedOnce
    <3>2. QED BY <3>1 DEF IsInjective
  <2>4. ASSUME NEW p \in ToSet(connected[o]) PROVE p \in alive /\ Wired(p, o)
    <3>1. PICK m \in DOMAIN connected[o] : connected[o][m] = p
      BY <2>4, InList
    <3>2. p \in Objects /\ p[1] = Peer(o[1])
      <4>1. connected[o] \in Seq(Objects)
        BY <2>1
      <4>2. QED BY <2>1, <3>1, <4>1 DEF Shape, Facing
    <3>3. Main(o)
      <4>1. CASE o[3] = "spi"
        BY <2>1, <3>1, <4>1 DEF Wires, Unborn
      <4>2. CASE o[3] # "spi"
        <5>1. IsAlive(o) /\ o[1] \in Unit
          BY <2>1, ObjectShape DEF Typed
        <5>2. \/ o[3] = "gpio" /\ o[2] \in gpios[o[1]]
              \/ o[3] = "irq" /\ o[2] \in gpio_irqs[o[1]]
          BY <4>2, <5>1 DEF IsAlive
        <5>3. CASE o[3] = "gpio" /\ o[2] \in gpios[o[1]]
          BY <2>1, <5>1, <5>3, GetPin, ObjectShape DEF Main
        <5>4. CASE o[3] = "irq" /\ o[2] \in gpio_irqs[o[1]]
          BY <2>1, <5>1, <5>4, GetPin, ObjectShape DEF Main
        <5>5. QED BY <5>2, <5>3, <5>4
      <4>3. QED BY <4>1, <4>2
    <3>4. Peer(o[1]) \in Unit /\ Peer(Peer(o[1])) = o[1] /\ o[1] \in Unit
      BY <2>1, ObjectShape, PeerUnit
    <3>5. p = Name(Peer(o[1]), p[2], o[2])
      BY <2>1, <3>1, <3>3 DEF Wires, WellNamed
    <3>6. p \in alive /\ Main(p)
      <4>1. p = get_pin(p[1], p[2])
        BY <2>2, <3>2, <3>4, <3>5
      <4>2. p \in alive
        BY <2>1, <3>2, <3>4, <3>5, NameIsAlive, ObjectShape DEF Shape
      <4>3. QED BY <4>1, <4>2 DEF Main
    <3>7. Lists(p, o[2])
      <4>1. Lists(o, p[2])
        BY <3>1 DEF Lists
      <4>2. QED BY <2>1, <3>2, <3>3, <3>6, <4>1 DEF Wires, BothWays
    <3>8. PICK l \in DOMAIN connected[p] : connected[p][l][2] = o[2]
      BY <3>7 DEF Lists
    <3>9. connected[p][l] = o
      <4>1. connected[p][l] = Name(o[1], o[2], p[2])
        BY <2>1, <3>2, <3>4, <3>6, <3>8 DEF Wires, WellNamed
      <4>2. QED BY <2>2, <3>3, <3>4, <4>1 DEF Main
    <3>10. QED BY <3>6, <3>8, <3>9, InList DEF Wired
  <2>5. QED BY <2>3, <2>4
<1>2. QED BY <1>1, PinInvariant, PTL

-----------------------------------------------------------------------------
(* What the configuration and the main functions ask for is all there is:  *)
(* wires are connections, irqs were converted.                             *)

(* Number j of the other unit is connected to number i of u.               *)
Joined(u, i, j) ==
  \E c \in ToSet(Connections) : c = IF u = host THEN <<i, j>> ELSE <<j, i>>

Drawn ==
  \A o \in Objects : \A m \in DOMAIN connected[o] : Joined(o[1], o[2], connected[o][m][2])

Asked ==
  \A u \in Unit :
    /\ Converting(u) => <<u, th[u].pin[2]>> \in Convert
    /\ \A i \in gpio_irqs[u] : <<u, i>> \in Convert

AskedInv == PinInv /\ Asked /\ (~overlap => Drawn)

(* What a step of a call does to the thread and to the lists of a unit.    *)
LEMMA ContinueEffect ==
  ASSUME Shape, NEW u \in Unit, Continue(u)
  PROVE  /\ th[u].at # "idle" /\ th'[Peer(u)] = th[Peer(u)]
         /\ th'[u].at # "idle" => th'[u].pin = th[u].pin
         /\ Converting(u)' => Converting(u)
         /\ th'[u].at = "change" => th[u].at = "change"
         /\ \/ UNCHANGED gpio_irqs
            \/ /\ Converting(u) /\ gpio_irqs'[u] = gpio_irqs[u] \cup {th[u].pin[2]}
               /\ gpio_irqs'[Peer(u)] = gpio_irqs[Peer(u)]
         /\ UNCHANGED <<loaded, overlap>>
<1>1. Typed /\ Placed(u) /\ th \in [Unit -> PinThread]
  BY DEF Shape, Typed
<1>2. th[u].at # "idle" /\ UNCHANGED <<loaded, overlap>>
  BY DEF Continue, Fetch, Rewire, SetHandler, Replace, Change, ChangeDone, Fail, Runs, config
<1>3. CASE Fail("use after free") \/ Fail("out of bounds")
  BY <1>2, <1>3 DEF Fail, pins, Converting
<1>4. CASE Fetch(u)
  <2>1. UNCHANGED gpio_irqs
    BY <1>4 DEF Fetch, pins
  <2>2. QED BY <1>1, <1>2, <1>4, <2>1, FetchEffect DEF Converting
<1>5. CASE SetHandler(u)
  <2>1. UNCHANGED gpio_irqs
    BY <1>5 DEF SetHandler
  <2>2. QED BY <1>1, <1>2, <1>5, <2>1, SetHandlerEffect DEF Converting
<1>6. CASE Replace(u)
  BY <1>2, <1>6, ReplaceShape, IdleType DEF Converting
<1>7. CASE ChangeDone(u)
  BY <1>2, <1>7, ChangeDoneShape, IdleType DEF Converting, pins
<1>8. CASE Rewire(u) /\ ~Fail("use after free") /\ ~Fail("out of bounds")
  <2>1. NextPeer(u) /\ UNCHANGED gpio_irqs
    BY <1>8, RewireEffect
  <2>2. QED BY <1>1, <1>2, <2>1, NextPeerEffect DEF Converting
<1>9. CASE Change(u) /\ ~Fail("use after free")
  <2>1. NextPeer(u) /\ UNCHANGED gpio_irqs
    BY <1>9, ChangeShape DEF pins
  <2>2. QED BY <1>1, <1>2, <2>1, NextPeerEffect DEF Converting
<1>10. QED BY <1>3, <1>4, <1>5, <1>6, <1>7, <1>8, <1>9 DEF Continue

(* What a step of a call does to levels, wherever its pointer leads.       *)
LEMMA ContinueRaises ==
  ASSUME Shape, NEW u \in Unit, Continue(u)
  PROVE  /\ raised \subseteq raised'
         /\ th[u].at = "change" /\ th[u].peer \in alive =>
              /\ th[u].peer[1] = Peer(u) /\ th[u].peer \in Objects
              /\ level' = [level EXCEPT ![th[u].peer] = th[u].value]
              /\ raised' = IF th[u].peer[3] = "irq" THEN raised \cup {th[u].peer} ELSE raised
<1>1. CASE th[u].at = "change" /\ th[u].peer \in alive
  <2>1. th[u].peer # Null /\ th[u].k <= Len(connected[th[u].pin]) /\ th[u].peer[1] = Peer(u)
    <3>1. th[u].peer # Null
      BY <1>1, ObjectShape DEF Shape, Typed
    <3>2. QED BY <3>1 DEF Shape, Placed
  <2>2. ~ ChangeDone(u)
    <3>1. th[u].pin \in Objects /\ th[u].k \in Nat
      BY <1>1, PinOfThread DEF Shape
    <3>2. connected[th[u].pin] \in Seq(Objects)
      BY <3>1 DEF Shape, Typed
    <3>3. QED BY <2>1, <3>1, <3>2 DEF ChangeDone
  <2>3. Change(u)
    BY <1>1, <2>1, <2>2 DEF Continue, Fetch, Rewire, SetHandler, Replace, Runs
  <2>4. ~Fail("use after free")
    BY <1>1, <2>3 DEF Change, Fail, Runs
  <2>5. QED BY <1>1, <2>1, <2>3, <2>4, ChangeShape
<1>2. CASE ~(th[u].at = "change" /\ th[u].peer \in alive)
  <2>1. raised' = raised
    <3>1. CASE Change(u)
      BY <1>2, <3>1 DEF Change, Runs, Fail, levels
    <3>2. CASE ~Change(u)
      BY <3>2 DEF Continue, Fetch, Rewire, SetHandler, Replace, ChangeDone, Fail, levels
    <3>3. QED BY <3>1, <3>2
  <2>2. QED BY <1>2, <2>1
<1>3. QED BY <1>1, <1>2

(* And as long as the wires hold.                                          *)
LEMMA ContinueSets ==
  ASSUME Shape, Wires, NEW u \in Unit, Continue(u)
  PROVE  /\ th[u].peer # Null => th[u].peer \in alive /\ Main(th[u].peer)
         /\ th[u].at # "change" \/ th[u].peer = Null => UNCHANGED <<level, raised>>
<1>1. th[u].peer # Null => th[u].peer \in alive /\ Main(th[u].peer)
  BY PeerOnWire
<1>2. ASSUME th[u].at # "change" \/ th[u].peer = Null PROVE UNCHANGED <<level, raised>>
  <2>1. ~Change(u)
    BY <1>2 DEF Change, Runs
  <2>2. CASE Rewire(u)
    BY <2>2, RewireFinds, RewireEffect DEF levels
  <2>3. CASE ~Rewire(u)
    BY <2>1, <2>3 DEF Continue, Fetch, SetHandler, Replace, ChangeDone, levels
  <2>4. QED BY <2>2, <2>3
<1>3. QED BY <1>1, <1>2

LEMMA LoadDraws ==
  ASSUME Shape, Drawn, LoadConnection
  PROVE  Drawn'
<1>1. CASE connected' = connected
  BY <1>1 DEF Drawn
<1>2. CASE connected' # connected
  <2>1. connected \in [Objects -> Seq(Objects)] /\ Typed
    BY DEF Shape, Typed
  <2>2. soc \in Unit /\ host \in Unit /\ soc # host
    BY UnitAssumption DEF Unit
  <2>3. PICK c, s, h : /\ c = Connections[loaded]
                       /\ s = get_pin(soc, c[2]) /\ h = get_pin(host, c[1])
    OBVIOUS
  <2>4. /\ s # Null /\ h # Null
        /\ connected' = [connected EXCEPT ![s] = connect(@, h), ![h] = connect(@, s)]
    BY <1>2, <2>3 DEF LoadConnection
  <2>5. /\ s \in Objects /\ s[1] = soc /\ s[2] = c[2]
        /\ h \in Objects /\ h[1] = host /\ h[2] = c[1] /\ s # h
    BY <2>1, <2>2, <2>3, <2>4, GetPin
  <2>6. c \in ToSet(Connections) /\ c = <<c[1], c[2]>>
    <3>1. Len(Connections) \in Nat /\ Connections \in Seq(Nat \X Nat)
      BY PinAssumption
    <3>2. loaded \in 1 .. Len(Connections)
      <4>1. loaded \in 1 .. Len(Connections) + 2 /\ loaded <= Len(Connections)
        BY <2>1 DEF Typed, LoadConnection
      <4>2. QED BY <3>1, <4>1
    <3>3. loaded \in DOMAIN Connections /\ c \in Nat \X Nat
      BY <2>3, <3>1, <3>2
    <3>4. QED BY <2>3, <3>3, InList
  <2>7. /\ connected'[s] = connect(connected[s], h) /\ connected'[h] = connect(connected[h], s)
        /\ \A o \in Objects \ {s, h} : connected'[o] = connected[o]
    BY <2>1, <2>4, <2>5
  <2>8. Joined(s[1], s[2], h[2]) /\ Joined(h[1], h[2], s[2])
    BY <2>2, <2>5, <2>6 DEF Joined
  <2>9. /\ \A m \in DOMAIN connected'[s] :
             \/ m \in DOMAIN connected[s] /\ connected'[s][m] = connected[s][m]
             \/ connected'[s][m] = h
        /\ \A m \in DOMAIN connected'[h] :
             \/ m \in DOMAIN connected[h] /\ connected'[h][m] = connected[h][m]
             \/ connected'[h][m] = s
    <3>1. \A m \in DOMAIN connect(connected[s], h) :
            \/ m \in DOMAIN connected[s] /\ connect(connected[s], h)[m] = connected[s][m]
            \/ connect(connected[s], h)[m] = h
      BY <2>1, <2>5, ConnectedList
    <3>2. \A m \in DOMAIN connect(connected[h], s) :
            \/ m \in DOMAIN connected[h] /\ connect(connected[h], s)[m] = connected[h][m]
            \/ connect(connected[h], s)[m] = s
      BY <2>1, <2>5, ConnectedList
    <3>3. QED BY <2>7, <3>1, <3>2
  <2>10. SUFFICES ASSUME NEW o \in Objects, NEW m \in DOMAIN connected'[o]
                  PROVE  Joined(o[1], o[2], connected'[o][m][2])
    BY DEF Drawn, Joined
  <2>11. QED BY <2>7, <2>8, <2>9, <2>10 DEF Drawn
<1>3. QED BY <1>1, <1>2

LEMMA RewireDraws ==
  ASSUME Shape, Wires, Drawn, NEW u \in Unit, Rewire(u)
  PROVE  Drawn'
<1>1. /\ ~Fail("use after free") /\ ~Fail("out of bounds") /\ Converting(u) /\ th[u].peer # Null
  BY RewireFinds
<1>2. PICK gpio, irq, p : gpio = th[u].pin /\ irq = Half(u) /\ p = th[u].peer
  OBVIOUS
<1>3. /\ gpio \in Objects /\ gpio[1] = u /\ irq[1] = u /\ irq[2] = gpio[2] /\ p \in Objects
      /\ \E k \in DOMAIN connected[gpio] : p = connected[gpio][k]
  BY <1>1, <1>2, PeerOnWire DEF Half, GpioIrq
<1>4. Joined(irq[1], irq[2], p[2])
  BY <1>3 DEF Drawn
<1>5. /\ \A o \in Objects \ {p, irq} : connected'[o] = connected[o]
      /\ DOMAIN connected'[p] = DOMAIN connected[p]
      /\ \A m \in DOMAIN connected[p] :
           connected'[p][m] = IF connected[p][m] = gpio THEN irq ELSE connected[p][m]
      /\ \A m \in DOMAIN connected[irq] : connected'[irq][m] = connected[irq][m]
      /\ connected'[irq][Len(connected[irq]) + 1] = p
      /\ DOMAIN connected'[irq] = DOMAIN connected[irq] \cup {Len(connected[irq]) + 1}
  <2>1. /\ \A o \in Objects \ {th[u].peer, Half(u)} : connected'[o] = connected[o]
        /\ DOMAIN connected'[th[u].peer] = DOMAIN connected[th[u].peer]
        /\ \A m \in DOMAIN connected[th[u].peer] :
             connected'[th[u].peer][m] = IF connected[th[u].peer][m] = th[u].pin
                                         THEN Half(u) ELSE connected[th[u].peer][m]
    BY <1>1, RewireShape
  <2>2. /\ \A m \in DOMAIN connected[Half(u)] : connected'[Half(u)][m] = connected[Half(u)][m]
        /\ connected'[Half(u)][Len(connected[Half(u)]) + 1] = th[u].peer
        /\ DOMAIN connected'[Half(u)]
             = DOMAIN connected[Half(u)] \cup {Len(connected[Half(u)]) + 1}
    BY <1>1, RewireShape
  <2>3. QED BY <1>2, <2>1, <2>2
<1>6. SUFFICES ASSUME NEW o \in Objects, NEW m \in DOMAIN connected'[o]
               PROVE  Joined(o[1], o[2], connected'[o][m][2])
  BY DEF Drawn, Joined
<1>7. CASE o = p
  BY <1>3, <1>5, <1>6, <1>7 DEF Drawn
<1>8. CASE o = irq
  BY <1>4, <1>5, <1>6, <1>8 DEF Drawn
<1>9. CASE o # p /\ o # irq
  BY <1>5, <1>6, <1>9 DEF Drawn
<1>10. QED BY <1>7, <1>8, <1>9

LEMMA AskedStep ==
  ASSUME AskedInv, [Next]_vars, PinInv'
  PROVE  AskedInv'
<1>1. Shape /\ (~overlap => Wires /\ Drawn) /\ Asked
  BY DEF AskedInv, PinInv
<1>2. ASSUME connected' = connected, ~overlap' => ~overlap
      PROVE  ~overlap' => Drawn'
  BY <1>1, <1>2 DEF Drawn
<1>3. ASSUME UNCHANGED <<th, gpio_irqs>> PROVE Asked'
  BY <1>1, <1>3 DEF Asked, Converting
<1>4. CASE load_config
  <2>1. UNCHANGED <<th, gpio_irqs, overlap>>
    BY <1>4 DEF load_config, LoadConnection, ConnectSpi, pins
  <2>2. CASE LoadConnection
    BY <1>1, <1>3, <2>1, <2>2, LoadDraws DEF AskedInv
  <2>3. CASE ConnectSpi
    BY <1>2, <1>3, <2>1, <2>3 DEF AskedInv, ConnectSpi, pins
  <2>4. QED BY <1>4, <2>2, <2>3 DEF load_config
<1>5. ASSUME NEW f \in Convert, set_gpio_irq(f[1], f[2]) PROVE AskedInv'
  <2>1. f[1] \in Unit /\ f = <<f[1], f[2]>>
    BY PinAssumption
  <2>2. /\ th'[f[1]] = AtPin("rewire", Gpio(f[1], f[2]), FALSE)
        /\ th'[Peer(f[1])] = th[Peer(f[1])]
        /\ UNCHANGED <<connected, gpio_irqs>> /\ (~overlap' => ~overlap)
    BY <1>1, <1>5, <2>1, set_gpio_irqShape DEF set_gpio_irq
  <2>3. th'[f[1]].pin[2] = f[2]
    BY <2>2 DEF AtPin, Gpio
  <2>4. Asked'
    BY <1>1, <1>5, <2>1, <2>2, <2>3, PeerUnit DEF Asked, Converting
  <2>5. QED BY <1>2, <2>2, <2>4 DEF AskedInv
<1>6. ASSUME NEW f \in Drive, NEW value \in BOOLEAN, set_gpio_value(f[1], f[2], value)
      PROVE  AskedInv'
  <2>1. f[1] \in Unit /\ f = <<f[1], f[2]>>
    BY PinAssumption
  <2>2. /\ th'[f[1]].at = "change" /\ th'[Peer(f[1])] = th[Peer(f[1])]
        /\ UNCHANGED <<connected, gpio_irqs>> /\ (~overlap' => ~overlap)
    <3>1. /\ th'[f[1]] = AtPin("change", get_pin(f[1], f[2]), value)
          /\ th'[Peer(f[1])] = th[Peer(f[1])] /\ UNCHANGED pins
      BY <1>1, <1>6, <2>1, set_gpio_valueShape
    <3>2. ~overlap' => ~overlap
      BY <1>6 DEF set_gpio_value
    <3>3. QED BY <3>1, <3>2 DEF pins, AtPin
  <2>3. Asked'
    BY <1>1, <1>6, <2>1, <2>2, PeerUnit DEF Asked, Converting
  <2>4. QED BY <1>2, <2>2, <2>3 DEF AskedInv
<1>7. ASSUME NEW u \in Unit, Continue(u) PROVE AskedInv'
  <2>1. Asked'
    <3>1. /\ th'[Peer(u)] = th[Peer(u)]
          /\ Converting(u)' => Converting(u) /\ th'[u].pin = th[u].pin
          /\ \/ UNCHANGED gpio_irqs
             \/ /\ Converting(u) /\ gpio_irqs'[u] = gpio_irqs[u] \cup {th[u].pin[2]}
                /\ gpio_irqs'[Peer(u)] = gpio_irqs[Peer(u)]
      BY <1>1, <1>7, ContinueEffect DEF Converting
    <3>2. \A i \in gpio_irqs'[u] : <<u, i>> \in Convert
      BY <1>1, <3>1 DEF Asked
    <3>3. \A i \in gpio_irqs'[Peer(u)] : <<Peer(u), i>> \in Convert
      BY <1>1, <3>1, PeerUnit DEF Asked
    <3>4. QED BY <1>1, <3>1, <3>2, <3>3, PeerUnit DEF Asked, Converting
  <2>2. ~overlap' => ~overlap
    BY <1>1, <1>7, ContinueEffect
  <2>3. CASE Rewire(u)
    BY <1>1, <2>1, <2>2, <2>3, RewireDraws DEF AskedInv
  <2>4. CASE ~Rewire(u)
    <3>1. connected' = connected
      BY <1>7, <2>4 DEF Continue, Fetch, SetHandler, Replace, Change, ChangeDone, Fail, pins
    <3>2. QED BY <1>2, <2>1, <2>2, <3>1 DEF AskedInv
  <2>5. QED BY <2>3, <2>4
<1>8. CASE UNCHANGED vars
  BY <1>2, <1>3, <1>8 DEF vars, pins, AskedInv
<1>9. QED BY <1>4, <1>5, <1>6, <1>7, <1>8 DEF Next

(* The lists name connections of the configuration only, and nothing is    *)
(* converted that a main function did not ask for.                         *)
THEOREM AskedInvariant == Spec => []AskedInv
<1>1. Init => AskedInv
  <2> SUFFICES ASSUME Init PROVE AskedInv
    OBVIOUS
  <2>1. PinInv
    BY PinInit
  <2>2. Drawn
    BY DEF Init, Drawn
  <2>3. Asked
    BY IdleType DEF Init, Asked, Converting
  <2>4. QED BY <2>1, <2>2, <2>3 DEF AskedInv
<1>2. AskedInv /\ [Next]_vars => AskedInv'
  BY PinStep, AskedStep DEF AskedInv
<1>3. QED BY <1>1, <1>2, PTL DEF Spec
=============================================================================
