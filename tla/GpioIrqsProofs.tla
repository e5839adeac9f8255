--------------------------- MODULE GpioIrqsProofs ---------------------------
(* What module GpioIrqs promises for any pins, connections and lengths of  *)
(* the signal queue.  The proofs rest on those of its parts: every step is *)
(* a step of the pins and of the controllers, or leaves them as they are.  *)
EXTENDS GpioIrqs, FiniteSetTheorems, TLAPS

NetP == INSTANCE PinNetworkProofs

IrqP == INSTANCE IrqControllerProofs WITH
          Ctl <- Unit, Irq <- IrqPins, Maskable <- {}, Ctx <- Unit,
          Home <- [o \in IrqPins |-> o[1]],
          Dest <- [u \in Unit |-> Peer(u)],
          Reach <- [u \in Unit |-> {Peer(u)}]

(***************************************************************************)
(* What is assumed of the wires.                                           *)
(***************************************************************************)

(* A wire has an irq at one end at most.                                   *)
OneIrqPerWire ==
  \A u \in Unit, i, j \in Nat :
    NetP!Joined(u, i, j) => ~(<<u, i>> \in Convert /\ <<Peer(u), j>> \in Convert)

(* Nobody drives the pin that interrupts it.                               *)
IrqsAreInputs == Convert \cap Drive = {}

(***************************************************************************)
(* The invariants.                                                         *)
(***************************************************************************)

Converting(u) == th[u].at \in {"rewire", "replace"}

Own(u) == {o \in IrqPins \cap raised : o[1] = u}

(* A unit is interrupted by the other one's thread, with its own irqs.     *)
Carried ==
  \A u \in Unit :
    /\ pending_irqs[u] \subseteq Own(u) /\ todo[u] \subseteq Own(u)
    /\ call[u].at # "idle" => call[u].ctl = Peer(u)
    /\ call[u].at = "link" => call[u].irq \in Own(Peer(u)) /\ call[u].since = {}

SyncTypes ==
  /\ main \in [Unit -> {"setup", "await", "drive"}]
  /\ locked \subseteq Unit
  /\ seen \in [IrqPins -> BOOLEAN]

(* A unit drives after the other one's setup.                              *)
Phases ==
  \A u \in Unit :
    /\ main[u] = "setup" => u \in locked
    /\ main[u] = "drive" => main[Peer(u)] # "setup"
    /\ Converting(u) => main[u] = "setup"
    /\ th[u].at = "change" => main[u] = "drive"

(* A level the handler has not seen is on its way to it.                   *)
Linking(o) == call[Peer(o[1])].at = "link" /\ call[Peer(o[1])].irq = o

Heard ==
  \A o \in raised \cap IrqPins : seen[o] = level[o] \/ o \in owed[o[1]] \/ Linking(o)

(* Signals of a unit that are queued or about to be sent.                  *)
Coming(u) == signals[u] + IF call[Peer(u)].at = "kill" THEN 1 ELSE 0

(* Each signal on its way to the only irq of a unit was paid by a raise.   *)
Only(u, o) == {p \in IrqPins : p[1] = u} = {o}

Paid(u, o) ==
  /\ credit[u][o] = CreditMax \/ credit[u][o] >= Coming(u) + IF o \in todo[u] THEN 1 ELSE 0
  /\ Coming(u) > 0 \/ handling[u] => o \in pending_irqs[u]
  /\ todo[u] # {} => handling[u]

Counted == \A u \in Unit, o \in IrqPins : Only(u, o) => Paid(u, o)

-----------------------------------------------------------------------------
(* Units, pins and the assumptions of the parts.                           *)

LEMMA PeerUnit ==
  ASSUME NEW u \in Unit
  PROVE  /\ Peer(u) \in Unit /\ Peer(u) # u /\ Peer(Peer(u)) = u
         /\ \A w \in Unit : w = u \/ w = Peer(u)
BY UnitAssumption DEF Unit, Peer

LEMMA SameUnits ==
  /\ NetP!Unit = Unit /\ Net!Unit = Unit
  /\ \A u : NetP!Peer(u) = Peer(u) /\ Net!Peer(u) = Peer(u)
BY DEF NetP!Unit, Net!Unit, Unit, NetP!Peer, Net!Peer, Peer

LEMMA IrqPin ==
  ASSUME NEW o \in IrqPins
  PROVE  /\ o[1] \in Unit /\ o[2] \in Nat /\ <<o[1], o[2]>> \in Convert
         /\ o = GpioIrq(o[1], o[2]) /\ o[3] = "irq"
<1>1. PICK f \in Convert : o = GpioIrq(f[1], f[2])
  BY DEF IrqPins
<1>2. f \in Unit \X Nat /\ f = <<f[1], f[2]>>
  BY PinAssumption DEF Unit
<1>3. QED BY <1>1, <1>2 DEF GpioIrq

LEMMA NetAssumptions == NetP!UnitAssumption /\ NetP!PinAssumption
BY UnitAssumption, PinAssumption DEF NetP!UnitAssumption, NetP!PinAssumption, NetP!Unit,
                                     NetP!Lines

LEMMA IrqAssumptions ==
  /\ IrqP!IrqAssumption /\ IrqP!CtlAssumption
  /\ IrqP!SigMaxAssumption /\ IrqP!CreditMaxAssumption
<1>1. [o \in IrqPins |-> o[1]] \in [IrqPins -> Unit]
  BY IrqPin
<1>2. [u \in Unit |-> {Peer(u)}] \in [Unit -> SUBSET Unit]
  BY PeerUnit
<1>3. QED BY <1>1, <1>2, QueueAssumption
       DEF IrqP!IrqAssumption, IrqP!CtlAssumption, IrqP!SigMaxAssumption,
           IrqP!CreditMaxAssumption

-----------------------------------------------------------------------------
(* The pins.                                                               *)

LEMMA NetInit == Net!Init => NetP!Init
BY DEF Net!Init, NetP!Init, Net!Unit, NetP!Unit, Net!Objects, NetP!Objects, Net!Gpio, NetP!Gpio,
       Net!GpioIrq, NetP!GpioIrq, Net!SpiPin, NetP!SpiPin, Net!IdleThread, NetP!IdleThread,
       Net!AtPin, NetP!AtPin, Net!Null, NetP!Null

LEMMA NetLoad == Net!load_config => NetP!load_config
<1>1. Net!LoadConnection => NetP!LoadConnection
  BY DEF Net!LoadConnection, NetP!LoadConnection, Net!get_pin, NetP!get_pin, Net!getPin,
         NetP!getPin,
         Net!Gpio, NetP!Gpio, Net!GpioIrq, NetP!GpioIrq, Net!Null, NetP!Null,
         Net!connect, NetP!connect, Net!ToSet, NetP!ToSet, Net!levels, NetP!levels
<1>2. Net!ConnectSpi => NetP!ConnectSpi
  BY DEF Net!ConnectSpi, NetP!ConnectSpi, Net!Reaches, NetP!Reaches, Net!ToSet, NetP!ToSet,
         Net!SpiPin, NetP!SpiPin,
         Net!Unit, NetP!Unit, Net!pins, NetP!pins, Net!levels, NetP!levels
<1>3. QED BY <1>1, <1>2 DEF Net!load_config, NetP!load_config

LEMMA NetConvert ==
  ASSUME NEW u, NEW i, Net!set_gpio_irq(u, i)
  PROVE  NetP!set_gpio_irq(u, i)
BY DEF Net!set_gpio_irq, NetP!set_gpio_irq, Net!Runs, NetP!Runs, Net!AtPin, NetP!AtPin,
       Net!Meets, NetP!Meets, Net!ToSet, NetP!ToSet, Net!Peer, NetP!Peer, Net!Null, NetP!Null,
       Net!Gpio, NetP!Gpio, Net!GpioIrq, NetP!GpioIrq, Net!config, NetP!config

LEMMA NetDrive ==
  ASSUME NEW u, NEW i, NEW value, Net!set_gpio_value(u, i, value)
  PROVE  NetP!set_gpio_value(u, i, value)
BY DEF Net!set_gpio_value, NetP!set_gpio_value, Net!Runs, NetP!Runs, Net!AtPin, NetP!AtPin,
       Net!Meets, NetP!Meets, Net!ToSet, NetP!ToSet, Net!Peer, NetP!Peer, Net!Null, NetP!Null,
       Net!get_pin, NetP!get_pin, Net!getPin, NetP!getPin,
       Net!Gpio, NetP!Gpio, Net!GpioIrq, NetP!GpioIrq, Net!config, NetP!config, Net!pins,
       NetP!pins

LEMMA NetContinue ==
  ASSUME NEW u, Net!Continue(u)
  PROVE  NetP!Continue(u)
<1>1. Net!Fetch(u) => NetP!Fetch(u)
  BY DEF Net!Fetch, NetP!Fetch, Net!Runs, NetP!Runs, Net!Null, NetP!Null,
         Net!config, NetP!config, Net!pins, NetP!pins, Net!levels, NetP!levels
<1>2. Net!Rewire(u) => NetP!Rewire(u)
  BY DEF Net!Rewire, NetP!Rewire, Net!Runs, NetP!Runs, Net!Null, NetP!Null, Net!Fail, NetP!Fail,
         Net!GpioIrq, NetP!GpioIrq, Net!Replaced, NetP!Replaced, Net!ToSet, NetP!ToSet,
         Net!NextPeer, NetP!NextPeer,
         Net!config, NetP!config, Net!pins, NetP!pins, Net!levels, NetP!levels
<1>3. Net!SetHandler(u) => NetP!SetHandler(u)
  BY DEF Net!SetHandler, NetP!SetHandler, Net!Runs, NetP!Runs, Net!set_handler,
         NetP!set_handler,
         Net!GpioIrq, NetP!GpioIrq, Net!config, NetP!config, Net!levels, NetP!levels
<1>4. Net!Replace(u) => NetP!Replace(u)
  BY DEF Net!Replace, NetP!Replace, Net!Runs, NetP!Runs, Net!erase, NetP!erase,
         Net!IdleThread, NetP!IdleThread, Net!AtPin, NetP!AtPin, Net!Null, NetP!Null,
         Net!config, NetP!config, Net!levels, NetP!levels
<1>5. Net!Change(u) => NetP!Change(u)
  BY DEF Net!Change, NetP!Change, Net!Runs, NetP!Runs, Net!Null, NetP!Null, Net!Fail, NetP!Fail,
         Net!on_change, NetP!on_change, Net!NextPeer, NetP!NextPeer,
         Net!config, NetP!config, Net!pins, NetP!pins, Net!levels, NetP!levels
<1>6. Net!ChangeDone(u) => NetP!ChangeDone(u)
  BY DEF Net!ChangeDone, NetP!ChangeDone, Net!Runs, NetP!Runs,
         Net!IdleThread, NetP!IdleThread, Net!AtPin, NetP!AtPin, Net!Null, NetP!Null,
         Net!config, NetP!config, Net!pins, NetP!pins, Net!levels, NetP!levels
<1>7. QED BY <1>1, <1>2, <1>3, <1>4, <1>5, <1>6 DEF Net!Continue, NetP!Continue

(* A unit does with its pins only what module PinNetwork allows.           *)
LEMMA PinsFollow == Spec => NetP!Spec
<1>1. Init => NetP!Init
  BY NetInit DEF Init
<1>2. [Next]_vars => [NetP!Next]_(NetP!vars)
  <2> SUFFICES ASSUME [Next]_vars, ~ UNCHANGED NetP!vars PROVE NetP!Next
    OBVIOUS
  <2>1. ~ UNCHANGED net
    BY DEF net, NetP!vars, NetP!config, NetP!pins, NetP!levels
  <2>2. CASE Load
    BY <2>2, NetLoad DEF Load, NetP!Next
  <2>3. ASSUME NEW f \in Convert, hwmocker_set_gpio_irq_handler(f[1], f[2]) PROVE NetP!Next
    BY <2>3, NetConvert DEF hwmocker_set_gpio_irq_handler, NetP!Next
  <2>4. ASSUME NEW f \in Drive, NEW value \in BOOLEAN,
               hwmocker_set_gpio_level(f[1], f[2], value)
        PROVE  NetP!Next
    BY <2>4, NetDrive DEF hwmocker_set_gpio_level, NetP!Next
  <2>5. ASSUME NEW u \in Unit, set_ready(u) \/ wait_ready(u) \/ ThreadStep(u) \/ SignalStep(u)
        PROVE  NetP!Next
    <3>1. Continue(u)
      BY <2>1, <2>5 DEF set_ready, wait_ready, ThreadStep, SignalStep, FinishRaise,
                        HandlerStep, handle
    <3>2. NetP!Continue(u)
      BY <3>1, NetContinue DEF Continue
    <3>3. QED BY <3>2, SameUnits DEF NetP!Next
  <2>6. QED BY <2>1, <2>2, <2>3, <2>4, <2>5 DEF Next, vars
<1>3. QED BY <1>1, <1>2, PTL DEF Spec, NetP!Spec

LEMMA NetInvariant == Spec => [](NetP!AskedInv /\ NetP!TypeOK)
<1>1. NetP!Spec => []NetP!AskedInv
  BY NetP!AskedInvariant, NetAssumptions, PTL
<1>2. NetP!Spec => []NetP!TypeOK
  BY NetP!TypeCorrect, NetAssumptions, PTL
<1>3. QED BY <1>1, <1>2, PinsFollow, PTL

-----------------------------------------------------------------------------
(* The controllers.                                                        *)

LEMMA IrqsFollow == Spec => IrqP!Spec
<1>1. Init => IrqP!Init
  BY DEF Init, Irqs!Init, IrqP!Init, Irqs!Idle, IrqP!Idle
<1>2. [Next]_vars => [IrqP!Next]_(IrqP!vars)
  <2> SUFFICES ASSUME [Next]_vars, ~ UNCHANGED IrqP!vars PROVE IrqP!Next
    OBVIOUS
  <2>1. ~ UNCHANGED irqs
    BY DEF irqs, IrqP!vars
  <2>2. PICK u \in Unit : ThreadStep(u) \/ SignalStep(u)
    BY <2>1 DEF Next, vars, Load, hwmocker_set_gpio_irq_handler, hwmocker_set_gpio_level,
                set_ready, wait_ready
  <2>3. CASE Continue(u)
    <3>1. th[u].peer \in IrqPins /\ Irqs!local_raise(u, th[u].peer)
      BY <2>1, <2>3 DEF Continue
    <3>2. IrqP!local_raise(u, th[u].peer)
      BY <3>1 DEF Irqs!local_raise, Irqs!Raise, Irqs!Idle, IrqP!local_raise, IrqP!Raise,
                  IrqP!Idle
    <3>3. QED BY <3>1, <3>2 DEF IrqP!Next
  <2>4. CASE FinishRaise(u)
    <3>1. IrqP!Insert(u) \/ IrqP!Kill(u)
      BY <2>4 DEF FinishRaise, Irqs!Insert, Irqs!Linking, Irqs!AlsoSees,
                  IrqP!Insert, IrqP!Linking, IrqP!AlsoSees,
                  Irqs!Kill, Irqs!Idle, IrqP!Kill, IrqP!Idle, Irqs!pthread_kill, IrqP!pthread_kill,
                  Irqs!Queue, IrqP!Queue, Irqs!Refuse, IrqP!Refuse, Irqs!Room, IrqP!Room
    <3>2. QED BY <3>1 DEF IrqP!Next
  <2>5. CASE HandlerStep(u)
    <3>1. IrqP!signal_handler(u) \/ IrqP!HandlerReturn(u)
      BY <2>5 DEF HandlerStep, Irqs!signal_handler, Irqs!HandlerReturn,
                  IrqP!signal_handler, IrqP!HandlerReturn
    <3>2. QED BY <3>1 DEF IrqP!Next
  <2>6. ASSUME NEW o \in IrqPins, handle(u, o) PROVE IrqP!Next
    <3>1. IrqP!handle(u, o)
      BY <2>6 DEF handle, Irqs!handle, IrqP!handle
    <3>2. QED BY <3>1 DEF IrqP!Next
  <2>7. QED BY <2>2, <2>3, <2>4, <2>5, <2>6 DEF ThreadStep, SignalStep
<1>3. QED BY <1>1, <1>2, PTL DEF Spec, IrqP!Spec

(* Each unit is interrupted by one other thread: only a refused signal     *)
(* delays an irq.                                                          *)
NoIrqLost ==
  \A u \in Unit : \A o \in owed[u] : Irqs!WillHandle(u, o) \/ Irqs!WaitsForSignal(u, o)

LEMMA IrqInvariant == Spec => [](Irqs!TypeOK /\ NoIrqLost)
<1>1. IrqP!Spec => []IrqP!TypeOK
  BY IrqP!TypeCorrect, IrqAssumptions, PTL
<1>2. IrqP!TypeOK => Irqs!TypeOK
  BY DEF Irqs!TypeOK, IrqP!TypeOK, Irqs!Calls, IrqP!Calls, Irqs!Idle, IrqP!Idle
<1>3. IrqP!Spec => []IrqP!SoleRaiserLosesNothing
  BY IrqP!SoleRaiserSafe, IrqAssumptions, PTL
<1>4. \A u \in Unit : IrqP!SoleRaiser(u)
  BY PeerUnit DEF IrqP!SoleRaiser
<1>5. IrqP!SoleRaiserLosesNothing => NoIrqLost
  BY <1>4 DEF NoIrqLost, IrqP!SoleRaiserLosesNothing, IrqP!WillHandle, Irqs!WillHandle,
              IrqP!Killing, Irqs!Killing, IrqP!WaitsForSignal, Irqs!WaitsForSignal
<1>6. QED BY <1>1, <1>2, <1>3, <1>5, IrqsFollow, PTL

LEMMA CallShape ==
  ASSUME Irqs!TypeOK, NEW u \in Unit
  PROVE  /\ call[u].at \in {"idle", "link", "kill"}
         /\ call[u] = Irqs!Idle <=> call[u].at = "idle"
         /\ call[u].at = "link" => call[u].irq \in IrqPins
         /\ signals[u] \in 0 .. SigMax /\ signals[Peer(u)] \in 0 .. SigMax
<1>1. call[u] \in Irqs!Calls /\ signals[u] \in 0 .. SigMax /\ signals[Peer(u)] \in 0 .. SigMax
  BY PeerUnit DEF Irqs!TypeOK
<1>2. QED BY <1>1 DEF Irqs!Calls, Irqs!Idle

LEMMA RaiseEffect ==
  ASSUME Irqs!TypeOK, NEW u \in Unit, NEW o \in IrqPins, o[1] = Peer(u), Irqs!local_raise(u, o)
  PROVE  /\ call[u].at = "idle"
         /\ call'[u] = [at |-> "link", ctl |-> Peer(u), irq |-> o, since |-> {}]
         /\ call'[u].at = "link" /\ call'[u].ctl = Peer(u)
         /\ call'[u].irq = o /\ call'[u].since = {}
         /\ call'[Peer(u)] = call[Peer(u)]
         /\ UNCHANGED <<pending_irqs, signals, handling, todo, owed, credit>>
<1>1. call' = [call EXCEPT ![u] = [at |-> "link", ctl |-> Peer(u), irq |-> o, since |-> {}]]
  BY DEF Irqs!local_raise, Irqs!Raise
<1>2. /\ call[u].at = "idle"
      /\ UNCHANGED <<pending_irqs, signals, handling, todo, owed, credit>>
  BY DEF Irqs!local_raise, Irqs!Raise, Irqs!Idle
<1>3. DOMAIN call = Unit
  BY DEF Irqs!TypeOK
<1>4. QED BY <1>1, <1>2, <1>3, PeerUnit

(* No second insertion comes in between.                                   *)
LEMMA InsertEffect ==
  ASSUME Irqs!TypeOK, Carried, NEW u \in Unit, Irqs!Insert(u)
  PROVE  \E o \in Own(Peer(u)) :
           /\ call[u].at = "link" /\ call[u].irq = o /\ o \in IrqPins
           /\ pending_irqs' = [pending_irqs EXCEPT ![Peer(u)] = @ \cup {o}]
           /\ owed' = [owed EXCEPT ![Peer(u)] = @ \cup {o}]
           /\ credit' = [credit EXCEPT ![Peer(u)][o] = IF @ < CreditMax THEN @ + 1 ELSE @]
           /\ call'[u].at = "kill" /\ call'[u].ctl = Peer(u) /\ call'[Peer(u)] = call[Peer(u)]
           /\ todo'[u] = todo[u]
           /\ todo'[Peer(u)] \subseteq todo[Peer(u)] \cup pending_irqs[Peer(u)] \cup {o}
           /\ o \in pending_irqs[Peer(u)] \/ ~handling[Peer(u)] => todo' = todo
           /\ UNCHANGED <<signals, handling>>
<1>1. /\ call[u].at = "link" /\ call[u].ctl = Peer(u)
      /\ call[u].irq \in Own(Peer(u)) /\ call[u].since = {}
  BY DEF Irqs!Insert, Carried
<1>2. PICK o \in Own(Peer(u)) : o = call[u].irq
  BY <1>1
<1> WITNESS o \in Own(Peer(u))
<1>3. /\ Peer(u) \in Unit /\ Peer(u) # u /\ o \in IrqPins
      /\ DOMAIN todo = Unit /\ DOMAIN pending_irqs = Unit /\ DOMAIN call = Unit
  BY PeerUnit DEF Irqs!TypeOK, Own
<1>4. ~ Irqs!Linking(Peer(u), Peer(u))
  BY <1>3, PeerUnit DEF Irqs!Linking, Carried
<1>5. /\ owed' = [owed EXCEPT ![Peer(u)] = @ \cup {o}]
      /\ credit' = [credit EXCEPT ![Peer(u)][o] = IF @ < CreditMax THEN @ + 1 ELSE @]
      /\ UNCHANGED <<signals, handling>>
  BY <1>1, <1>2 DEF Irqs!Insert
<1>6. CASE /\ o \in pending_irqs[Peer(u)]
           /\ call' = [call EXCEPT ![u] = [at |-> "kill", ctl |-> Peer(u)]]
           /\ UNCHANGED <<pending_irqs, todo>>
  <2>1. pending_irqs' = [pending_irqs EXCEPT ![Peer(u)] = @ \cup {o}]
    <3>1. pending_irqs[Peer(u)] = pending_irqs[Peer(u)] \cup {o}
      BY <1>6
    <3>2. pending_irqs = [pending_irqs EXCEPT ![Peer(u)] = pending_irqs[Peer(u)]]
      BY DEF Irqs!TypeOK
    <3>3. QED BY <1>6, <3>1, <3>2
  <2>2. call'[u].at = "kill" /\ call'[u].ctl = Peer(u) /\ call'[Peer(u)] = call[Peer(u)]
    BY <1>3, <1>6
  <2>3. QED BY <1>1, <1>2, <1>3, <1>5, <1>6, <2>1, <2>2
<1>7. CASE /\ o \notin pending_irqs[Peer(u)]
           /\ \E dropped \in SUBSET ({} \ {o}) :
                pending_irqs' = [pending_irqs EXCEPT ![Peer(u)] = (@ \ dropped) \cup {o}]
           /\ IF handling[Peer(u)]
              THEN \E rest \in SUBSET (pending_irqs[Peer(u)] \cup {o}) :
                     todo' = [todo EXCEPT ![Peer(u)] = rest]
              ELSE UNCHANGED todo
           /\ call' = [y \in Unit |->
                         IF y = u THEN [at |-> "kill", ctl |-> Peer(u)]
                         ELSE IF Irqs!Linking(y, Peer(u))
                              THEN Irqs!AlsoSees(call[y], o)
                              ELSE call[y]]
  <2>1. pending_irqs' = [pending_irqs EXCEPT ![Peer(u)] = @ \cup {o}]
    <3>1. PICK dropped \in SUBSET ({} \ {o}) :
            pending_irqs' = [pending_irqs EXCEPT ![Peer(u)] = (@ \ dropped) \cup {o}]
      BY <1>7
    <3>2. pending_irqs[Peer(u)] \ dropped = pending_irqs[Peer(u)]
      OBVIOUS
    <3>3. QED BY <3>1, <3>2
  <2>2. call'[u].at = "kill" /\ call'[u].ctl = Peer(u) /\ call'[Peer(u)] = call[Peer(u)]
    BY <1>3, <1>4, <1>7
  <2>3. /\ todo'[u] = todo[u]
        /\ todo'[Peer(u)] \subseteq todo[Peer(u)] \cup pending_irqs[Peer(u)] \cup {o}
        /\ ~handling[Peer(u)] => todo' = todo
    BY <1>3, <1>7
  <2>4. QED BY <1>1, <1>2, <1>3, <1>5, <1>7, <2>1, <2>2, <2>3
<1>8. QED BY <1>1, <1>2, <1>6, <1>7 DEF Irqs!Insert

LEMMA KillEffect ==
  ASSUME Irqs!TypeOK, Carried, NEW u \in Unit, Irqs!Kill(u)
  PROVE  /\ call[u].at = "kill" /\ call'[u].at = "idle" /\ call'[Peer(u)] = call[Peer(u)]
         /\ signals'[u] = signals[u]
         /\ signals'[Peer(u)] \in {signals[Peer(u)], signals[Peer(u)] + 1}
         /\ UNCHANGED <<pending_irqs, handling, todo, owed, credit>>
<1>1. call[u].at = "kill" /\ call[u].ctl = Peer(u)
  BY DEF Irqs!Kill, Carried
<1>2. /\ call' = [call EXCEPT ![u] = Irqs!Idle]
      /\ \/ signals' = [signals EXCEPT ![Peer(u)] = @ + 1]
         \/ UNCHANGED signals
      /\ UNCHANGED <<pending_irqs, handling, todo, owed, credit>>
  BY <1>1 DEF Irqs!Kill, Irqs!pthread_kill, Irqs!Queue, Irqs!Refuse
<1>3. DOMAIN call = Unit /\ DOMAIN signals = Unit
  BY DEF Irqs!TypeOK
<1>4. QED BY <1>1, <1>2, <1>3, PeerUnit DEF Irqs!Idle

-----------------------------------------------------------------------------
(* Types, and whom the irqs belong to.                                     *)

(* What a step of a call does to the pins.                                 *)
LEMMA PinStep ==
  ASSUME NetP!AskedInv, NEW u \in Unit, Net!Continue(u)
  PROVE  /\ raised \subseteq raised'
         /\ th[u].at = "change" /\ th[u].peer \in alive =>
              /\ th[u].peer[1] = Peer(u) /\ th[u].peer \in NetP!Objects
              /\ level' = [level EXCEPT ![th[u].peer] = th[u].value]
              /\ raised' = IF th[u].peer[3] = "irq" THEN raised \cup {th[u].peer} ELSE raised
         /\ th[u].at # "idle" /\ th'[Peer(u)] = th[Peer(u)]
         /\ Converting(u)' => Converting(u)
         /\ th'[u].at = "change" => th[u].at = "change"
         /\ overlap' = overlap
<1>1. NetP!Shape /\ u \in NetP!Unit /\ NetP!Continue(u) /\ NetP!Peer(u) = Peer(u)
  BY SameUnits, NetContinue DEF NetP!AskedInv, NetP!PinInv
<1>2. NetP!Converting(u)' <=> Converting(u)'
  BY DEF NetP!Converting, Converting
<1>3. NetP!Converting(u) <=> Converting(u)
  BY DEF NetP!Converting, Converting
<1>4. /\ raised \subseteq raised'
      /\ th[u].at = "change" /\ th[u].peer \in alive =>
           /\ th[u].peer[1] = Peer(u) /\ th[u].peer \in NetP!Objects
           /\ level' = [level EXCEPT ![th[u].peer] = th[u].value]
           /\ raised' = IF th[u].peer[3] = "irq" THEN raised \cup {th[u].peer} ELSE raised
  BY <1>1, NetAssumptions, NetP!ContinueRaises
<1>5. /\ th[u].at # "idle" /\ th'[Peer(u)] = th[Peer(u)]
      /\ NetP!Converting(u)' => NetP!Converting(u)
      /\ th'[u].at = "change" => th[u].at = "change"
      /\ overlap' = overlap
  BY <1>1, NetAssumptions, NetP!ContinueEffect
<1>6. QED BY <1>2, <1>3, <1>4, <1>5

LEMMA CarriedKept ==
  ASSUME Carried, raised \subseteq raised', UNCHANGED irqs
  PROVE  Carried'
<1>1. \A u \in Unit : Own(u) \subseteq Own(u)'
  BY DEF Own
<1>2. UNCHANGED <<pending_irqs, todo, call>>
  BY DEF irqs
<1>3. QED BY <1>1, <1>2, PeerUnit DEF Carried

LEMMA ContinueCarries ==
  ASSUME NetP!AskedInv, Irqs!TypeOK, Carried, NEW u \in Unit, Continue(u)
  PROVE  Carried'
<1>1. raised \subseteq raised'
  BY PinStep DEF Continue
<1>2. CASE UNCHANGED irqs
  BY <1>1, <1>2, CarriedKept
<1>3. CASE th[u].at = "change" /\ th[u].peer \in alive \cap IrqPins
  <2>1. PICK o \in IrqPins : o = th[u].peer
    BY <1>3
  <2>2. o[1] = Peer(u) /\ raised' = raised \cup {o} /\ Irqs!local_raise(u, o)
    <3>1. o[3] = "irq"
      BY IrqPin
    <3>2. QED BY <1>3, <2>1, <3>1, PinStep DEF Continue
  <2>3. o \in Own(Peer(u))'
    BY <2>2 DEF Own
  <2>4. \A w \in Unit : Own(w) \subseteq Own(w)'
    BY <1>1 DEF Own
  <2>5. /\ UNCHANGED <<pending_irqs, todo>> /\ call'[Peer(u)] = call[Peer(u)]
        /\ call'[u].ctl = Peer(u) /\ call'[u].irq = o /\ call'[u].since = {}
    BY <2>2, RaiseEffect
  <2>6. QED BY <2>3, <2>4, <2>5, PeerUnit DEF Carried
<1>4. QED BY <1>2, <1>3 DEF Continue

LEMMA RaiseCarries ==
  ASSUME Irqs!TypeOK, Carried, NEW u \in Unit, FinishRaise(u)
  PROVE  Carried'
<1>1. \A w \in Unit : Own(w)' = Own(w)
  BY DEF Own, FinishRaise, net
<1>2. CASE Irqs!Insert(u)
  <2>1. PICK o \in Own(Peer(u)) :
          /\ pending_irqs' = [pending_irqs EXCEPT ![Peer(u)] = @ \cup {o}]
          /\ call'[u].at = "kill" /\ call'[u].ctl = Peer(u) /\ call'[Peer(u)] = call[Peer(u)]
          /\ todo'[u] = todo[u]
          /\ todo'[Peer(u)] \subseteq todo[Peer(u)] \cup pending_irqs[Peer(u)] \cup {o}
    BY <1>2, InsertEffect
  <2>2. \A w \in Unit : pending_irqs'[w] \subseteq Own(w) /\ todo'[w] \subseteq Own(w)
    <3>1. /\ pending_irqs'[Peer(u)] = pending_irqs[Peer(u)] \cup {o}
          /\ pending_irqs'[u] = pending_irqs[u]
      BY <2>1, PeerUnit DEF Irqs!TypeOK
    <3>2. QED BY <2>1, <3>1, PeerUnit DEF Carried
  <2>3. \A w \in Unit :
          /\ call'[w].at # "idle" => call'[w].ctl = Peer(w)
          /\ call'[w].at = "link" => call'[w].irq \in Own(Peer(w)) /\ call'[w].since = {}
    BY <2>1, PeerUnit DEF Carried
  <2>4. QED BY <1>1, <2>2, <2>3, PeerUnit DEF Carried
<1>3. CASE Irqs!Kill(u)
  <2>1. /\ call'[u].at = "idle" /\ call'[Peer(u)] = call[Peer(u)]
        /\ UNCHANGED <<pending_irqs, todo>>
    BY <1>3, KillEffect
  <2>2. QED BY <1>1, <2>1, PeerUnit DEF Carried
<1>4. QED BY <1>2, <1>3 DEF FinishRaise

LEMMA SignalCarries ==
  ASSUME Irqs!TypeOK, Carried, NEW u \in Unit, SignalStep(u)
  PROVE  Carried'
<1>1. \A w \in Unit : Own(w)' = Own(w)
  BY DEF Own, SignalStep, HandlerStep, handle, net
<1>2. UNCHANGED <<pending_irqs, call>>
  BY DEF SignalStep, HandlerStep, handle, Irqs!signal_handler, Irqs!HandlerReturn, Irqs!handle
<1>3. \A w \in Unit : todo'[w] \subseteq todo[w] \cup pending_irqs[w]
  <2>1. DOMAIN todo = Unit
    BY DEF Irqs!TypeOK
  <2>2. CASE HandlerStep(u)
    BY <2>1, <2>2 DEF HandlerStep, Irqs!signal_handler, Irqs!HandlerReturn
  <2>3. ASSUME NEW o \in IrqPins, handle(u, o)
        PROVE  \A w \in Unit : todo'[w] \subseteq todo[w] \cup pending_irqs[w]
    BY <2>1, <2>3 DEF handle, Irqs!handle
  <2>4. QED BY <2>2, <2>3 DEF SignalStep
<1>4. QED BY <1>1, <1>2, <1>3, PeerUnit DEF Carried

LEMMA TypesStep ==
  ASSUME NetP!AskedInv, Irqs!TypeOK, Carried, SyncTypes, [Next]_vars
  PROVE  Carried' /\ SyncTypes'
<1>1. CASE Load
  BY <1>1, CarriedKept DEF Load, Net!load_config, Net!LoadConnection, Net!ConnectSpi,
                           Net!levels,
                           sync, SyncTypes
<1>2. ASSUME NEW f \in Convert, hwmocker_set_gpio_irq_handler(f[1], f[2])
      PROVE  Carried' /\ SyncTypes'
  BY <1>2, CarriedKept DEF hwmocker_set_gpio_irq_handler, Net!set_gpio_irq, sync, SyncTypes
<1>3. ASSUME NEW f \in Drive, NEW value \in BOOLEAN, hwmocker_set_gpio_level(f[1], f[2], value)
      PROVE  Carried' /\ SyncTypes'
  BY <1>3, CarriedKept DEF hwmocker_set_gpio_level, Net!set_gpio_value, sync, SyncTypes
<1>4. ASSUME NEW u \in Unit, set_ready(u) \/ wait_ready(u) PROVE Carried' /\ SyncTypes'
  <2>1. UNCHANGED <<irqs, raised, seen>>
    BY <1>4 DEF set_ready, wait_ready, net
  <2>2. SyncTypes'
    BY <1>4, <2>1, PeerUnit DEF set_ready, wait_ready, awaited, SyncTypes
  <2>3. QED BY <2>1, <2>2, CarriedKept
<1>5. ASSUME NEW u \in Unit, ThreadStep(u) PROVE Carried' /\ SyncTypes'
  BY <1>5, ContinueCarries, RaiseCarries DEF ThreadStep, Continue, FinishRaise, sync, SyncTypes
<1>6. ASSUME NEW u \in Unit, SignalStep(u) PROVE Carried' /\ SyncTypes'
  <2>1. ASSUME NEW o \in IrqPins, handle(u, o) PROVE SyncTypes'
    <3>1. o \in raised
      BY <2>1 DEF handle, Irqs!handle, Carried, Own
    <3>2. level[o] \in BOOLEAN
      BY <3>1 DEF NetP!AskedInv, NetP!PinInv, NetP!Shape, NetP!Typed
    <3>3. QED BY <2>1, <3>2 DEF handle, sync, SyncTypes
  <2>2. HandlerStep(u) => SyncTypes'
    BY DEF HandlerStep, sync, SyncTypes
  <2>3. QED BY <1>6, <2>1, <2>2, SignalCarries DEF SignalStep
<1>7. CASE UNCHANGED vars
  <2>1. UNCHANGED <<irqs, raised, seen, main, locked>>
    BY <1>7 DEF vars, net, sync
  <2>2. QED BY <2>1, CarriedKept DEF SyncTypes
<1>8. QED BY <1>1, <1>2, <1>3, <1>4, <1>5, <1>6, <1>7 DEF Next

LEMMA TypesInvariant == Spec => [](Carried /\ SyncTypes)
<1>1. Init => Carried /\ SyncTypes
  BY DEF Init, Irqs!Init, Irqs!Idle, Carried, SyncTypes
<1>2. /\ NetP!AskedInv /\ Irqs!TypeOK /\ Carried /\ SyncTypes /\ [Next]_vars
      => (Carried /\ SyncTypes)'
  BY TypesStep
<1>3. QED BY <1>1, <1>2, NetInvariant, IrqInvariant, PTL DEF Spec

(* The types of the pins, of the controllers and of the handshake hold     *)
(* together, whatever is connected, converted and driven.                  *)
THEOREM TypeCorrect == Spec => []TypeOK
<1>1. NetP!TypeOK => Net!TypeOK
  BY DEF NetP!TypeOK, Net!TypeOK, NetP!Unit, Net!Unit, NetP!Objects, Net!Objects,
         NetP!Gpio, Net!Gpio, NetP!GpioIrq, Net!GpioIrq, NetP!SpiPin, Net!SpiPin,
         NetP!ToSet, Net!ToSet
<1>2. NetP!TypeOK /\ Irqs!TypeOK /\ SyncTypes => TypeOK
  BY <1>1 DEF TypeOK, SyncTypes
<1>3. QED BY <1>2, NetInvariant, IrqInvariant, TypesInvariant, PTL

-----------------------------------------------------------------------------
(* The ready mutexes keep conversions and levels apart.                    *)

Apart == ~overlap /\ Phases

(* The other unit may be converting, too, but not the pins of u's wires.   *)
LEMMA ConvertApart ==
  ASSUME OneIrqPerWire, NetP!AskedInv, Apart, NEW u \in Unit, NEW i,
         hwmocker_set_gpio_irq_handler(u, i)
  PROVE  Apart'
<1>1. /\ main[u] = "setup" /\ Net!set_gpio_irq(u, i) /\ UNCHANGED sync /\ <<u, i>> \in Convert
      /\ i \in gpios[u]
  BY DEF hwmocker_set_gpio_irq_handler, OnThread, Net!set_gpio_irq
<1>2. NetP!Shape /\ NetP!set_gpio_irq(u, i) /\ u \in NetP!Unit /\ NetP!Peer(u) = Peer(u)
  BY <1>1, SameUnits, NetConvert DEF NetP!AskedInv, NetP!PinInv
<1>3. /\ th'[u] = NetP!AtPin("rewire", NetP!Gpio(u, i), FALSE) /\ th'[Peer(u)] = th[Peer(u)]
  BY <1>2, NetAssumptions, NetP!set_gpio_irqShape
<1>4. th'[u].at = "rewire"
  BY <1>3 DEF NetP!AtPin
<1>5. Phases'
  <2>1. Phases /\ main' = main /\ locked' = locked /\ th'[Peer(u)] = th[Peer(u)]
    BY <1>1, <1>3 DEF Apart, sync
  <2>2. QED BY <1>1, <1>4, <2>1, PeerUnit DEF Phases, Converting
<1>6. ~overlap'
  <2>1. SUFFICES ASSUME overlap' PROVE FALSE
    OBVIOUS
  <2>2. NetP!Meets(u, NetP!Gpio(u, i), {"rewire", "replace", "change"})
    BY <1>2, <2>1 DEF NetP!set_gpio_irq, Apart
  <2>3. PICK v, o, p : /\ v = Peer(u) /\ o = NetP!Gpio(u, i)
                       /\ th[v].at \in {"rewire", "replace", "change"}
                       /\ p \in NetP!ToSet(connected[o]) /\ p[1] = v /\ p[2] = th[v].pin[2]
    BY <1>2, <2>2 DEF NetP!Meets
  <2>4. v \in Unit /\ Converting(v)
    BY <1>1, <2>3, PeerUnit DEF Apart, Phases, Converting
  <2>5. <<v, p[2]>> \in Convert
    BY <2>3, <2>4, SameUnits DEF NetP!AskedInv, NetP!Asked, NetP!Converting, Converting
  <2>6. o \in NetP!Objects /\ o[1] = u /\ o[2] = i
    <3>1. i \in GpioPins[u]
      BY <1>1, <1>2 DEF NetP!Shape, NetP!Typed
    <3>2. QED BY <1>2, <2>3, <3>1 DEF NetP!Objects, NetP!Gpio
  <2>7. PICK m \in DOMAIN connected[o] : connected[o][m] = p
    BY <2>3 DEF NetP!ToSet
  <2>8. NetP!Joined(u, i, p[2])
    BY <2>6, <2>7 DEF NetP!AskedInv, NetP!Drawn, Apart
  <2>9. i \in Nat /\ p[2] \in Nat
    BY <1>1, <2>5, PinAssumption
  <2>10. QED BY <1>1, <2>3, <2>5, <2>8, <2>9 DEF OneIrqPerWire
<1>7. QED BY <1>5, <1>6 DEF Apart

LEMMA DriveApart ==
  ASSUME NetP!AskedInv, Apart, NEW u \in Unit, NEW i, NEW value \in BOOLEAN,
         hwmocker_set_gpio_level(u, i, value)
  PROVE  Apart'
<1>1. /\ main[u] = "drive" /\ Net!set_gpio_value(u, i, value) /\ UNCHANGED sync
  BY DEF hwmocker_set_gpio_level, OnThread
<1>2. /\ NetP!Shape /\ NetP!set_gpio_value(u, i, value)
      /\ u \in NetP!Unit /\ NetP!Peer(u) = Peer(u)
  BY <1>1, SameUnits, NetDrive DEF NetP!AskedInv, NetP!PinInv
<1>3. /\ th'[u] = NetP!AtPin("change", NetP!get_pin(u, i), value) /\ th'[Peer(u)] = th[Peer(u)]
  BY <1>2, NetAssumptions, NetP!set_gpio_valueShape
<1>4. th'[u].at = "change"
  BY <1>3 DEF NetP!AtPin
<1>5. Phases'
  BY <1>1, <1>3, <1>4, PeerUnit DEF Apart, Phases, Converting, sync
<1>6. ~overlap'
  <2>1. SUFFICES ASSUME overlap' PROVE FALSE
    OBVIOUS
  <2>2. Converting(Peer(u))
    BY <1>2, <2>1 DEF NetP!set_gpio_value, NetP!Meets, Apart, Converting
  <2>3. QED BY <1>1, <2>2, PeerUnit DEF Apart, Phases
<1>7. QED BY <1>5, <1>6 DEF Apart

LEMMA ApartStep ==
  ASSUME OneIrqPerWire, NetP!AskedInv, SyncTypes, Apart, [Next]_vars
  PROVE  Apart'
<1>1. ASSUME UNCHANGED <<th, overlap, main, locked>> PROVE Apart'
  BY <1>1 DEF Apart, Phases, Converting
<1>2. CASE Load
  BY <1>1, <1>2 DEF Load, Net!load_config, Net!LoadConnection, Net!ConnectSpi, sync
<1>3. ASSUME NEW f \in Convert, hwmocker_set_gpio_irq_handler(f[1], f[2]) PROVE Apart'
  <2>1. f[1] \in Unit
    BY PinAssumption DEF Unit
  <2>2. QED BY <1>3, <2>1, ConvertApart
<1>4. ASSUME NEW f \in Drive, NEW value \in BOOLEAN, hwmocker_set_gpio_level(f[1], f[2], value)
      PROVE  Apart'
  <2>1. f[1] \in Unit
    BY PinAssumption DEF Unit
  <2>2. QED BY <1>4, <2>1, DriveApart
<1>5. ASSUME NEW u \in Unit, set_ready(u) PROVE Apart'
  <2>1. th[u].at = "idle" /\ UNCHANGED <<th, overlap>>
    BY <1>5 DEF set_ready, Net!Runs, net
  <2>2. main' = [main EXCEPT ![u] = "await"] /\ locked' = locked \ {u}
    BY <1>5 DEF set_ready
  <2>3. main'[u] = "await" /\ main'[Peer(u)] = main[Peer(u)]
    BY <2>2, PeerUnit DEF SyncTypes
  <2>4. QED BY <2>1, <2>2, <2>3, PeerUnit DEF Apart, Phases, Converting
<1>6. ASSUME NEW u \in Unit, wait_ready(u) PROVE Apart'
  <2>1. /\ main[u] = "await" /\ Peer(u) \notin locked /\ UNCHANGED <<th, overlap>>
        /\ main' = [main EXCEPT ![u] = "drive"] /\ locked' = locked \cup {Peer(u)}
    BY <1>6 DEF wait_ready, OnThread, awaited, net
  <2>2. main'[u] = "drive" /\ main'[Peer(u)] = main[Peer(u)]
    BY <2>1, PeerUnit DEF SyncTypes
  <2>3. QED BY <2>1, <2>2, PeerUnit DEF Apart, Phases, Converting
<1>7. ASSUME NEW u \in Unit, ThreadStep(u) PROVE Apart'
  <2>1. CASE FinishRaise(u)
    BY <1>1, <2>1 DEF FinishRaise, net, sync
  <2>2. CASE Continue(u)
    <3>1. /\ th'[Peer(u)] = th[Peer(u)] /\ overlap' = overlap
          /\ Converting(u)' => Converting(u)
          /\ th'[u].at = "change" => th[u].at = "change"
          /\ UNCHANGED <<main, locked>>
      BY <2>2, PinStep DEF Continue, sync
    <3>2. QED BY <3>1, PeerUnit DEF Apart, Phases, Converting
  <2>3. QED BY <1>7, <2>1, <2>2 DEF ThreadStep
<1>8. ASSUME NEW u \in Unit, SignalStep(u) PROVE Apart'
  BY <1>1, <1>8 DEF SignalStep, HandlerStep, handle, net, sync
<1>9. CASE UNCHANGED vars
  BY <1>1, <1>9 DEF vars, net, sync
<1>10. QED BY <1>2, <1>3, <1>4, <1>5, <1>6, <1>7, <1>8, <1>9 DEF Next

LEMMA ApartInvariant ==
  ASSUME OneIrqPerWire
  PROVE  Spec => []Apart
<1>1. Init => Apart
  BY PeerUnit DEF Init, Net!Init, Net!IdleThread, Net!AtPin, Net!Unit, Unit, Apart, Phases,
                  Converting
<1>2. NetP!AskedInv /\ SyncTypes /\ Apart /\ [Next]_vars => Apart'
  BY ApartStep
<1>3. QED BY <1>1, <1>2, NetInvariant, TypesInvariant, PTL DEF Spec

(* As long as no wire has irqs at both ends, the ready mutexes keep the    *)
(* units apart: nothing that is deleted is used, and every irq that is     *)
(* handled has its handler.                                                *)
THEOREM UnitsApart ==
  ASSUME OneIrqPerWire
  PROVE  Spec => []UnitsKeptApart
<1>1. NetP!AskedInv /\ Carried /\ Apart => UnitsKeptApart
  <2> SUFFICES ASSUME NetP!AskedInv, Carried, Apart PROVE UnitsKeptApart
    OBVIOUS
  <2>1. ~overlap /\ NetP!Shape /\ NetP!Wires
    BY DEF Apart, NetP!AskedInv, NetP!PinInv
  <2>2. fault = "none"
    BY <2>1 DEF NetP!Wires
  <2>3. ASSUME NEW u \in Unit, NEW o \in todo[u] PROVE o \in handler
    <3>1. o \in IrqPins /\ o \in raised /\ o[1] = u
      BY <2>3 DEF Carried, Own
    <3>2. o[2] \in gpio_irqs[u]
      BY <2>1, <3>1 DEF NetP!Wires
    <3>3. NetP!GpioIrq(u, o[2]) \in handler
      BY <2>1, <3>2, SameUnits DEF NetP!Shape, NetP!Placed
    <3>4. o = GpioIrq(u, o[2])
      BY <3>1, IrqPin
    <3>5. QED BY <3>3, <3>4 DEF NetP!GpioIrq, GpioIrq
  <2>4. QED BY <2>1, <2>2, <2>3 DEF UnitsKeptApart
<1>2. QED BY <1>1, NetInvariant, TypesInvariant, ApartInvariant, PTL

-----------------------------------------------------------------------------
(* Every level comes to its handler.                                       *)

(* An irq pin that a step of u's call finds is one that was asked for.     *)
LEMMA PeerIrq ==
  ASSUME NetP!AskedInv, ~overlap, NEW u \in Unit, Net!Continue(u),
         th[u].at = "change", NEW o, o = th[u].peer, o # NetP!Null
  PROVE  o \in alive /\ o[1] = Peer(u) /\ (o[3] = "irq" => o \in IrqPins)
<1>1. /\ NetP!Shape /\ NetP!Wires /\ NetP!Asked
      /\ u \in NetP!Unit /\ NetP!Continue(u) /\ NetP!Unit = Unit
  BY SameUnits, NetContinue DEF NetP!AskedInv, NetP!PinInv
<1>2. o \in alive /\ NetP!Main(o)
  BY <1>1, NetAssumptions, NetP!ContinueSets
<1>3. o[1] = Peer(u)
  BY <1>2, PinStep
<1>4. ASSUME o[3] = "irq" PROVE o \in IrqPins
  <2>1. o = NetP!get_pin(o[1], o[2])
    BY <1>2 DEF NetP!Main
  <2>3. o[2] \in gpio_irqs[o[1]] /\ o = <<o[1], o[2], "irq">>
    BY <1>4, <2>1 DEF NetP!get_pin, NetP!getPin, NetP!Gpio, NetP!GpioIrq, NetP!Null
  <2>4. <<o[1], o[2]>> \in Convert
    BY <1>1, <1>3, <2>3, PeerUnit DEF NetP!Asked
  <2>5. QED BY <2>3, <2>4 DEF IrqPins, GpioIrq
<1>5. QED BY <1>2, <1>3, <1>4

LEMMA HeardKept ==
  ASSUME Heard, UNCHANGED <<raised, level, seen, owed, call>>
  PROVE  Heard'
BY DEF Heard, Linking

LEMMA ConvertHeard ==
  ASSUME Heard, NEW u \in Unit, NEW i, hwmocker_set_gpio_irq_handler(u, i)
  PROVE  Heard'
<1>1. UNCHANGED <<raised, level, seen, owed, call>>
  BY DEF hwmocker_set_gpio_irq_handler, Net!set_gpio_irq, irqs
<1>2. QED BY <1>1, HeardKept

(* A unit sets no pin that interrupts it.                                  *)
LEMMA DriveHeard ==
  ASSUME IrqsAreInputs, NetP!AskedInv, Heard, NEW u \in Unit, NEW i, NEW value \in BOOLEAN,
         hwmocker_set_gpio_level(u, i, value)
  PROVE  Heard'
<1>1. UNCHANGED <<raised, seen, owed, call>>
  BY DEF hwmocker_set_gpio_level, Net!set_gpio_value, irqs
<1>2. /\ <<u, i>> \in Drive /\ i \in gpios[u] \cup gpio_irqs[u]
      /\ level' = [level EXCEPT ![Net!get_pin(u, i)] = value]
  BY DEF hwmocker_set_gpio_level, Net!set_gpio_value
<1>3. Net!get_pin(u, i) \in {Net!Gpio(u, i), Net!GpioIrq(u, i)}
  BY <1>2 DEF Net!get_pin
<1>4. ASSUME NEW o \in IrqPins, o \in raised PROVE level'[o] = level[o]
  <2>1. o # Net!get_pin(u, i)
    <3>1. /\ o[3] = "irq" /\ <<o[1], o[2]>> \in Convert
      BY IrqPin
    <3>2. <<o[1], o[2]>> # <<u, i>>
      BY <1>2, <3>1 DEF IrqsAreInputs
    <3>3. QED BY <1>3, <3>1, <3>2 DEF Net!Gpio, Net!GpioIrq
  <2>2. QED BY <1>2, <1>4, <2>1 DEF NetP!AskedInv, NetP!PinInv, NetP!Shape, NetP!Typed
<1>5. QED BY <1>1, <1>4 DEF Heard, Linking

(* The level that is set and the raise of its irq are one step.            *)
LEMMA ContinueHeard ==
  ASSUME NetP!AskedInv, Irqs!TypeOK, ~overlap, Heard, NEW u \in Unit, Continue(u)
  PROVE  Heard'
<1>1. /\ Net!Continue(u) /\ call[u].at = "idle" /\ seen' = seen
      /\ NetP!Shape /\ NetP!Wires /\ u \in NetP!Unit /\ NetP!Continue(u)
  BY SameUnits, NetContinue DEF Continue, OnThread, Irqs!Idle, NetP!AskedInv, NetP!PinInv
<1>2. CASE th[u].at # "change" \/ th[u].peer = NetP!Null
  <2>1. UNCHANGED <<level, raised>>
    BY <1>1, <1>2, NetAssumptions, NetP!ContinueSets
  <2>2. ~(th[u].at = "change" /\ th[u].peer \in alive \cap IrqPins)
    <3>1. \A o \in IrqPins : o[3] = "irq"
      BY IrqPin
    <3>2. NetP!Null[3] = "null"
      BY DEF NetP!Null
    <3>3. NetP!Null \notin IrqPins
      BY <3>1, <3>2
    <3>4. QED BY <1>2, <3>3
  <2>3. UNCHANGED irqs
    BY <2>2 DEF Continue
  <2>4. QED BY <1>1, <2>1, <2>3, HeardKept DEF irqs
<1>3. CASE th[u].at = "change" /\ th[u].peer # NetP!Null
  <2>1. PICK p : p = th[u].peer
    OBVIOUS
  <2>2. p \in alive /\ p[1] = Peer(u) /\ (p[3] = "irq" => p \in IrqPins)
    BY <1>1, <1>3, <2>1, PeerIrq
  <2>3. /\ level' = [level EXCEPT ![p] = th[u].value]
        /\ raised' = IF p[3] = "irq" THEN raised \cup {p} ELSE raised
    BY <1>1, <1>3, <2>1, <2>2, PinStep
  <2>4. \A o \in IrqPins : o # p => level'[o] = level[o] /\ (o \in raised' => o \in raised)
    BY <2>3
  <2>5. \A o \in IrqPins : Linking(o) => o[1] # Peer(u)
    BY <1>1, PeerUnit DEF Linking
  <2>6. CASE p[3] # "irq"
    <3>1. p \notin IrqPins
      BY <2>6, IrqPin
    <3>2. UNCHANGED irqs
      BY <2>1, <3>1 DEF Continue
    <3>3. QED BY <1>1, <2>4, <3>1, <3>2 DEF Heard, Linking, irqs
  <2>7. CASE p[3] = "irq"
    <3>1. p \in IrqPins /\ Irqs!local_raise(u, p)
      BY <1>3, <2>1, <2>2, <2>7 DEF Continue
    <3>2. /\ call'[u].at = "link" /\ call'[u].irq = p
          /\ call'[Peer(u)] = call[Peer(u)] /\ UNCHANGED owed
      BY <2>2, <3>1, RaiseEffect
    <3>3. Linking(p)'
      BY <2>2, <3>2, PeerUnit DEF Linking
    <3>4. ASSUME NEW o \in IrqPins, o \in raised', o # p
          PROVE  seen'[o] = level'[o] \/ o \in owed'[o[1]] \/ Linking(o)'
      <4>1. seen[o] = level[o] \/ o \in owed[o[1]] \/ Linking(o)
        BY <2>4, <3>4 DEF Heard
      <4>2. ASSUME Linking(o) PROVE Linking(o)'
        <5>1. o[1] \in Unit /\ o[1] # Peer(u)
          BY <2>5, <4>2, IrqPin
        <5>2. o[1] = u
          BY <5>1, PeerUnit
        <5>3. QED BY <3>2, <4>2, <5>2 DEF Linking
      <4>3. QED BY <1>1, <2>4, <3>2, <3>4, <4>1, <4>2
    <3>5. QED BY <3>3, <3>4 DEF Heard
  <2>8. QED BY <2>6, <2>7
<1>4. QED BY <1>2, <1>3

LEMMA RaiseHeard ==
  ASSUME Irqs!TypeOK, Carried, Heard, NEW u \in Unit, FinishRaise(u)
  PROVE  Heard'
<1>1. UNCHANGED <<raised, level, seen>>
  BY DEF FinishRaise, net
<1>2. CASE Irqs!Insert(u)
  <2>1. PICK o \in Own(Peer(u)) :
          /\ call[u].at = "link" /\ call[u].irq = o
          /\ owed' = [owed EXCEPT ![Peer(u)] = @ \cup {o}]
          /\ call'[Peer(u)] = call[Peer(u)]
    BY <1>2, InsertEffect
  <2>2. o[1] = Peer(u)
    BY DEF Own
  <2>3. /\ o \in owed'[Peer(u)]
        /\ \A w \in Unit : owed[w] \subseteq owed'[w]
    BY <2>1, PeerUnit DEF Irqs!TypeOK
  <2>4. ASSUME NEW q \in IrqPins, Linking(q) PROVE q \in owed'[q[1]] \/ Linking(q)'
    <3>1. q[1] \in Unit
      BY IrqPin
    <3>2. CASE q[1] = Peer(u)
      BY <2>1, <2>2, <2>3, <2>4, <3>2, PeerUnit DEF Linking
    <3>3. CASE q[1] = u
      BY <2>1, <2>4, <3>3 DEF Linking
    <3>4. QED BY <3>1, <3>2, <3>3, PeerUnit
  <2>5. QED BY <1>1, <2>3, <2>4, IrqPin DEF Heard
<1>3. CASE Irqs!Kill(u)
  <2>1. call[u].at = "kill" /\ call'[Peer(u)] = call[Peer(u)] /\ UNCHANGED owed
    BY <1>3, KillEffect
  <2>2. ASSUME NEW q \in IrqPins, Linking(q) PROVE Linking(q)'
    <3>1. q[1] \in Unit /\ q[1] # Peer(u)
      BY <2>1, <2>2, IrqPin, PeerUnit DEF Linking
    <3>2. q[1] = u
      BY <3>1, PeerUnit
    <3>3. QED BY <2>1, <2>2, <3>2 DEF Linking
  <2>3. QED BY <1>1, <2>1, <2>2 DEF Heard
<1>4. QED BY <1>2, <1>3 DEF FinishRaise

(* A handler that runs sees the level the pin has then.                    *)
LEMMA SignalHeard ==
  ASSUME Irqs!TypeOK, Carried, SyncTypes, Heard, NEW u \in Unit, SignalStep(u)
  PROVE  Heard'
<1>1. UNCHANGED <<raised, level>>
  BY DEF SignalStep, HandlerStep, handle, net
<1>2. CASE HandlerStep(u)
  BY <1>1, <1>2, HeardKept DEF HandlerStep, Irqs!signal_handler, Irqs!HandlerReturn
<1>3. ASSUME NEW o \in IrqPins, handle(u, o) PROVE Heard'
  <2>1. /\ o \in todo[u] /\ owed' = [owed EXCEPT ![u] = @ \ {o}] /\ UNCHANGED call
        /\ seen' = [seen EXCEPT ![o] = level[o]]
    BY <1>3 DEF handle, Irqs!handle
  <2>2. /\ seen'[o] = level[o]
        /\ \A q \in IrqPins : q # o => seen'[q] = seen[q]
    BY <2>1 DEF SyncTypes
  <2>3. \A w \in Unit : \A q : q \in owed[w] /\ q # o => q \in owed'[w]
    BY <2>1 DEF Irqs!TypeOK
  <2>4. ASSUME NEW q \in IrqPins, q \in raised'
        PROVE  seen'[q] = level'[q] \/ q \in owed'[q[1]] \/ Linking(q)'
    <3>1. q[1] \in Unit
      BY IrqPin
    <3>2. seen[q] = level[q] \/ q \in owed[q[1]] \/ Linking(q)
      BY <1>1, <2>4 DEF Heard
    <3>3. Linking(q)' <=> Linking(q)
      BY <2>1 DEF Linking
    <3>4. QED BY <1>1, <2>2, <2>3, <3>1, <3>2, <3>3
  <2>5. QED BY <2>4 DEF Heard
<1>4. QED BY <1>2, <1>3 DEF SignalStep

LEMMA HeardStep ==
  ASSUME IrqsAreInputs, NetP!AskedInv, Irqs!TypeOK, Carried, SyncTypes, ~overlap, Heard,
         [Next]_vars
  PROVE  Heard'
<1>1. CASE Load
  BY <1>1, HeardKept DEF Load, Net!load_config, Net!LoadConnection, Net!ConnectSpi, Net!levels,
                         irqs
<1>2. ASSUME NEW f \in Convert, hwmocker_set_gpio_irq_handler(f[1], f[2]) PROVE Heard'
  <2>1. f[1] \in Unit
    BY PinAssumption DEF Unit
  <2>2. QED BY <1>2, <2>1, ConvertHeard
<1>3. ASSUME NEW f \in Drive, NEW value \in BOOLEAN, hwmocker_set_gpio_level(f[1], f[2], value)
      PROVE  Heard'
  <2>1. f[1] \in Unit
    BY PinAssumption DEF Unit
  <2>2. QED BY <1>3, <2>1, DriveHeard
<1>4. ASSUME NEW u \in Unit, set_ready(u) \/ wait_ready(u) PROVE Heard'
  BY <1>4, HeardKept DEF set_ready, wait_ready, net, irqs
<1>5. ASSUME NEW u \in Unit, ThreadStep(u) PROVE Heard'
  BY <1>5, ContinueHeard, RaiseHeard DEF ThreadStep
<1>6. ASSUME NEW u \in Unit, SignalStep(u) PROVE Heard'
  BY <1>6, SignalHeard
<1>7. CASE UNCHANGED vars
  BY <1>7, HeardKept DEF vars, net, irqs
<1>8. QED BY <1>1, <1>2, <1>3, <1>4, <1>5, <1>6, <1>7 DEF Next

(* On wires that have one irq each and units that drive no irq of their    *)
(* own, no level is lost on its way from set_gpio_level to the handler at  *)
(* the other end, while signals merge, the set of irqs is walked, or a     *)
(* signal is refused and another one queued.  Only the unit whose last     *)
(* signal the kernel refused is behind, until it accepts one.              *)
THEOREM HandlersFollow ==
  ASSUME OneIrqPerWire, IrqsAreInputs
  PROVE  Spec => []HandlersUpToDate
<1>1. Init => Heard
  BY DEF Init, Net!Init, Heard
<1>2. /\ NetP!AskedInv /\ Irqs!TypeOK /\ Carried /\ SyncTypes /\ Apart /\ Heard /\ [Next]_vars
      => Heard'
  BY HeardStep DEF Apart
<1>3. Spec => []Heard
  BY <1>1, <1>2, NetInvariant, IrqInvariant, TypesInvariant, ApartInvariant, PTL DEF Spec
<1>4. /\ NetP!AskedInv /\ Carried /\ Apart /\ Heard /\ NoIrqLost
      => HandlersUpToDate
  <2> SUFFICES ASSUME NetP!AskedInv, Carried, Apart, Heard, NoIrqLost,
                      \A u \in Unit : AtRest(u), NEW o \in raised, o[1] \notin refused
               PROVE  seen[o] = level[o]
    BY DEF HandlersUpToDate
  <2>1. NetP!Shape /\ NetP!Wires /\ NetP!Asked
    BY DEF Apart, NetP!AskedInv, NetP!PinInv
  <2>2. o \in IrqPins
    <3>1. o[3] = "irq" /\ o[2] \in gpio_irqs[o[1]] /\ o \in NetP!Objects
      BY <2>1 DEF NetP!Wires, NetP!Shape, NetP!Typed
    <3>2. o[1] \in Unit /\ o = <<o[1], o[2], "irq">>
      BY <3>1, SameUnits DEF NetP!Objects, NetP!Gpio, NetP!GpioIrq, NetP!SpiPin
    <3>3. <<o[1], o[2]>> \in Convert
      BY <2>1, <3>1, <3>2, SameUnits DEF NetP!Asked
    <3>4. QED BY <3>2, <3>3 DEF IrqPins, GpioIrq
  <2>3. o[1] \in Unit
    BY <2>2, IrqPin
  <2>4. \A u \in Unit : call[u].at = "idle" /\ signals[u] = 0 /\ ~handling[u]
    BY DEF AtRest, Irqs!Idle
  <2>5. ~Linking(o)
    BY <2>3, <2>4, PeerUnit DEF Linking
  <2>6. o \notin owed[o[1]]
    BY <2>3, <2>4 DEF NoIrqLost, Irqs!WillHandle, Irqs!Killing, Irqs!WaitsForSignal
  <2>7. QED BY <2>2, <2>5, <2>6 DEF Heard
<1>5. QED BY <1>3, <1>4, NetInvariant, IrqInvariant, TypesInvariant, ApartInvariant, PTL

-----------------------------------------------------------------------------
(* The irq of a unit that has only one runs at most once per raise.        *)

LEMMA ComingType ==
  ASSUME Irqs!TypeOK, NEW u \in Unit
  PROVE  Coming(u) \in Nat /\ (Coming(u) > 0 <=> signals[u] > 0 \/ call[Peer(u)].at = "kill")
<1>1. signals[u] \in 0 .. SigMax /\ SigMax \in Nat
  BY QueueAssumption DEF Irqs!TypeOK
<1>2. QED BY <1>1 DEF Coming

LEMMA CreditType ==
  ASSUME Irqs!TypeOK, NEW u \in Unit, NEW o \in IrqPins
  PROVE  /\ credit[u][o] \in 0 .. CreditMax /\ CreditMax \in Nat \ {0}
         /\ SigMax \in Nat \ {0} /\ signals[u] \in 0 .. SigMax
BY QueueAssumption DEF Irqs!TypeOK

LEMMA CountedKept ==
  ASSUME Counted, UNCHANGED irqs
  PROVE  Counted'
BY DEF Counted, Paid, Coming, irqs

(* A unit is only signalled, and handles, what the other one raised on it. *)
LEMMA OnlyOwn ==
  ASSUME Carried, NEW u \in Unit, NEW o \in IrqPins, Only(u, o), NEW q \in IrqPins, q[1] = u
  PROVE  q = o
BY DEF Only

LEMMA ContinueCounted ==
  ASSUME NetP!AskedInv, Irqs!TypeOK, Carried, Counted, NEW u \in Unit, Continue(u)
  PROVE  Counted'
<1>1. CASE UNCHANGED irqs
  BY <1>1, CountedKept
<1>2. CASE /\ th[u].at = "change" /\ th[u].peer \in alive \cap IrqPins
           /\ Irqs!local_raise(u, th[u].peer)
  <2>1. PICK p \in IrqPins : p = th[u].peer
    BY <1>2
  <2>2. p[1] = Peer(u)
    BY <1>2, <2>1, PinStep DEF Continue
  <2>3. /\ call[u].at = "idle" /\ call'[u].at = "link" /\ call'[Peer(u)] = call[Peer(u)]
        /\ UNCHANGED <<pending_irqs, signals, handling, todo, credit>>
    BY <1>2, <2>1, <2>2, RaiseEffect
  <2>4. \A w \in Unit : Coming(w)' = Coming(w)
    BY <2>3, PeerUnit DEF Coming
  <2>5. QED BY <2>3, <2>4 DEF Counted, Paid, Only
<1>3. QED BY <1>1, <1>2 DEF Continue

(* The raise that pays also signals.                                       *)
LEMMA InsertCounted ==
  ASSUME Irqs!TypeOK, Carried, Counted, NEW u \in Unit, Irqs!Insert(u)
  PROVE  Counted'
<1>1. PICK p \in Own(Peer(u)) :
        /\ call[u].at = "link" /\ p \in IrqPins
        /\ pending_irqs' = [pending_irqs EXCEPT ![Peer(u)] = @ \cup {p}]
        /\ credit' = [credit EXCEPT ![Peer(u)][p] = IF @ < CreditMax THEN @ + 1 ELSE @]
        /\ call'[u].at = "kill" /\ call'[Peer(u)] = call[Peer(u)]
        /\ todo'[u] = todo[u]
        /\ p \in pending_irqs[Peer(u)] \/ ~handling[Peer(u)] => todo' = todo
        /\ UNCHANGED <<signals, handling>>
  BY InsertEffect
<1>2. Peer(u) \in Unit /\ Peer(u) # u /\ Peer(Peer(u)) = u /\ p[1] = Peer(u)
  BY PeerUnit DEF Own
<1>3. ASSUME NEW o \in IrqPins, Only(u, o) PROVE Paid(u, o)'
  <2>1. Paid(u, o)
    BY <1>3 DEF Counted
  <2>2. /\ pending_irqs'[u] = pending_irqs[u] /\ credit'[u] = credit[u]
        /\ Coming(u)' = Coming(u)
    BY <1>1, <1>2 DEF Coming, Irqs!TypeOK
  <2>3. QED BY <1>1, <2>1, <2>2 DEF Paid
<1>4. ASSUME NEW o \in IrqPins, Only(Peer(u), o) PROVE Paid(Peer(u), o)'
  <2>1. Paid(Peer(u), o) /\ p = o
    BY <1>1, <1>2, <1>4, OnlyOwn DEF Counted
  <2>2. /\ o \in pending_irqs'[Peer(u)]
        /\ credit'[Peer(u)][o] = IF credit[Peer(u)][o] < CreditMax THEN credit[Peer(u)][o] + 1
                                 ELSE credit[Peer(u)][o]
    BY <1>1, <1>2, <2>1 DEF Irqs!TypeOK
  <2>3. todo' = todo
    BY <1>1, <2>1 DEF Paid
  <2>4. /\ Coming(Peer(u)) = signals[Peer(u)] /\ Coming(Peer(u))' = signals[Peer(u)] + 1
        /\ signals[Peer(u)] \in Nat
    BY <1>1, <1>2, CreditType DEF Coming
  <2>5. \/ credit'[Peer(u)][o] = CreditMax
        \/ credit'[Peer(u)][o] >= Coming(Peer(u))' + IF o \in todo'[Peer(u)] THEN 1 ELSE 0
    <3>1. credit[Peer(u)][o] \in 0 .. CreditMax /\ CreditMax \in Nat
      BY <1>2, CreditType
    <3>2. PICK n \in {0, 1} : n = IF o \in todo[Peer(u)] THEN 1 ELSE 0
      OBVIOUS
    <3>3. \/ credit[Peer(u)][o] = CreditMax
          \/ credit[Peer(u)][o] >= signals[Peer(u)] + n
      BY <2>1, <2>4, <3>2 DEF Paid
    <3>4. \/ credit'[Peer(u)][o] = CreditMax
          \/ credit'[Peer(u)][o] >= Coming(Peer(u))' + n
      BY <2>2, <2>4, <3>1, <3>3
    <3>5. QED BY <2>3, <3>2, <3>4
  <2>6. QED BY <1>1, <2>1, <2>2, <2>3, <2>5 DEF Paid
<1>5. QED BY <1>3, <1>4, PeerUnit DEF Counted, Only

(* A refused signal means fewer runs, not more.                            *)
LEMMA KillCounted ==
  ASSUME Irqs!TypeOK, Carried, Counted, NEW u \in Unit, Irqs!Kill(u)
  PROVE  Counted'
<1>1. /\ call[u].at = "kill" /\ call'[u].at = "idle" /\ call'[Peer(u)] = call[Peer(u)]
      /\ signals'[u] = signals[u]
      /\ signals'[Peer(u)] \in {signals[Peer(u)], signals[Peer(u)] + 1}
      /\ UNCHANGED <<pending_irqs, handling, todo, credit>>
  BY KillEffect
<1>2. Peer(u) \in Unit /\ Peer(u) # u /\ Peer(Peer(u)) = u
  BY PeerUnit
<1>3. signals[Peer(u)] \in 0 .. SigMax /\ SigMax \in Nat
  BY CallShape, QueueAssumption
<1>4. Coming(Peer(u))' \in 0 .. Coming(Peer(u)) /\ Coming(Peer(u)) \in Nat
  <2>1. Coming(Peer(u)) = signals[Peer(u)] + 1
    BY <1>1, <1>2 DEF Coming
  <2>2. Coming(Peer(u))' = signals'[Peer(u)] + 0
    BY <1>1, <1>2 DEF Coming
  <2>3. QED BY <1>1, <1>3, <2>1, <2>2
<1>5. Coming(u)' = Coming(u)
  BY <1>1 DEF Coming
<1>6. ASSUME NEW o \in IrqPins, Only(u, o) PROVE Paid(u, o)'
  BY <1>1, <1>5, <1>6 DEF Counted, Paid
<1>7. ASSUME NEW o \in IrqPins, Only(Peer(u), o) PROVE Paid(Peer(u), o)'
  <2>1. Paid(Peer(u), o) /\ credit[Peer(u)][o] \in Nat
    BY <1>2, <1>7, CreditType DEF Counted
  <2>2. QED BY <1>1, <1>4, <2>1 DEF Paid
<1>8. QED BY <1>6, <1>7, PeerUnit DEF Counted, Only

(* A signal taken is a walk, and a walk runs the irq once.                 *)
LEMMA SignalCounted ==
  ASSUME Irqs!TypeOK, Carried, Counted, NEW u \in Unit, SignalStep(u)
  PROVE  Counted'
<1>1. UNCHANGED <<pending_irqs, call>>
  BY DEF SignalStep, HandlerStep, handle, Irqs!signal_handler, Irqs!HandlerReturn, Irqs!handle
<1>2. /\ DOMAIN todo = Unit /\ DOMAIN signals = Unit /\ DOMAIN handling = Unit
      /\ DOMAIN credit = Unit
  BY DEF Irqs!TypeOK
<1>3. ASSUME NEW o \in IrqPins, Only(Peer(u), o) PROVE Paid(Peer(u), o)'
  <2>1. /\ todo'[Peer(u)] = todo[Peer(u)] /\ signals'[Peer(u)] = signals[Peer(u)]
        /\ handling'[Peer(u)] = handling[Peer(u)] /\ credit'[Peer(u)] = credit[Peer(u)]
    <3>1. CASE HandlerStep(u)
      BY <1>2, <3>1, PeerUnit DEF HandlerStep, Irqs!signal_handler, Irqs!HandlerReturn
    <3>2. CASE \E p \in IrqPins : handle(u, p)
      BY <1>2, <3>2, PeerUnit DEF handle, Irqs!handle
    <3>3. QED BY <3>1, <3>2 DEF SignalStep
  <2>2. Coming(Peer(u))' = Coming(Peer(u))
    BY <1>1, <2>1 DEF Coming
  <2>3. QED BY <1>1, <1>3, <2>1, <2>2, PeerUnit DEF Counted, Paid
<1>4. ASSUME NEW o \in IrqPins, Only(u, o) PROVE Paid(u, o)'
  <2>1. /\ Paid(u, o) /\ Coming(u) \in Nat
        /\ credit[u][o] \in 0 .. CreditMax /\ CreditMax \in Nat \ {0}
    BY <1>4, ComingType, CreditType DEF Counted
  <2>2. CASE Irqs!signal_handler(u)
    <3>1. /\ signals[u] > 0 /\ ~handling[u] /\ signals'[u] = signals[u] - 1
          /\ handling'[u] = TRUE /\ todo'[u] = pending_irqs[u] /\ credit' = credit
      BY <1>2, <2>2 DEF Irqs!signal_handler
    <3>2. Coming(u) > 0 /\ Coming(u)' = Coming(u) - 1
      BY <1>1, <3>1, CreditType, ComingType DEF Coming
    <3>3. o \in todo'[u] /\ todo[u] = {} /\ o \in pending_irqs'[u]
      BY <1>1, <2>1, <3>1, <3>2 DEF Paid
    <3>4. credit[u][o] = CreditMax \/ credit[u][o] >= Coming(u)
      BY <2>1, <3>3 DEF Paid
    <3>5. QED BY <2>1, <3>1, <3>2, <3>3, <3>4 DEF Paid
  <2>3. CASE Irqs!HandlerReturn(u)
    <3>1. /\ todo[u] = {} /\ UNCHANGED <<todo, signals, credit>>
      BY <2>3 DEF Irqs!HandlerReturn
    <3>2. Coming(u)' = Coming(u)
      BY <1>1, <3>1 DEF Coming
    <3>3. handling'[u] => handling[u]
      BY <1>2, <2>3 DEF Irqs!HandlerReturn
    <3>4. QED BY <1>1, <2>1, <3>1, <3>2, <3>3 DEF Paid
  <2>4. ASSUME NEW p \in IrqPins, handle(u, p) PROVE Paid(u, o)'
    <3>1. /\ p \in todo[u] /\ todo'[u] = todo[u] \ {p} /\ UNCHANGED <<signals, handling>>
          /\ credit' = [credit EXCEPT ![u][p] = IF @ \in 1 .. CreditMax - 1 THEN @ - 1 ELSE @]
      BY <1>2, <2>4 DEF handle, Irqs!handle
    <3>2. p[1] = u
      BY <3>1 DEF Carried, Own
    <3>3. p = o
      BY <1>4, <3>2, OnlyOwn
    <3>4. Coming(u)' = Coming(u)
      BY <1>1, <3>1 DEF Coming
    <3>5. credit'[u][o] = IF credit[u][o] \in 1 .. CreditMax - 1 THEN credit[u][o] - 1
                          ELSE credit[u][o]
      BY <3>1, <3>3 DEF Irqs!TypeOK
    <3>6. credit[u][o] = CreditMax \/ credit[u][o] >= Coming(u) + 1
      BY <2>1, <3>1, <3>3 DEF Paid
    <3>7. credit'[u][o] = CreditMax \/ credit'[u][o] >= Coming(u)
      BY <2>1, <3>5, <3>6
    <3>8. o \notin todo'[u]
      BY <3>1, <3>3
    <3>9. \/ credit'[u][o] = CreditMax
          \/ credit'[u][o] >= Coming(u)' + IF o \in todo'[u] THEN 1 ELSE 0
      BY <2>1, <3>4, <3>7, <3>8
    <3>10. todo'[u] # {} => handling'[u]
      BY <2>1, <3>1 DEF Paid
    <3>11. Coming(u)' > 0 \/ handling'[u] => o \in pending_irqs'[u]
      BY <1>1, <2>1, <3>1, <3>4 DEF Paid
    <3>12. QED BY <3>9, <3>10, <3>11 DEF Paid
  <2>5. QED BY <2>2, <2>3, <2>4 DEF SignalStep, HandlerStep
<1>5. QED BY <1>3, <1>4, PeerUnit DEF Counted, Only

LEMMA CountedStep ==
  ASSUME NetP!AskedInv, Irqs!TypeOK, Carried, Counted, [Next]_vars
  PROVE  Counted'
<1>1. ASSUME NEW u \in Unit, ThreadStep(u) PROVE Counted'
  BY <1>1, ContinueCounted, InsertCounted, KillCounted DEF ThreadStep, FinishRaise
<1>2. ASSUME NEW u \in Unit, SignalStep(u) PROVE Counted'
  BY <1>2, SignalCounted
<1>3. CASE UNCHANGED irqs
  BY <1>3, CountedKept
<1>4. QED
  BY <1>1, <1>2, <1>3 DEF Next, vars, Load, hwmocker_set_gpio_irq_handler,
                          hwmocker_set_gpio_level,
                          set_ready, wait_ready

LEMMA SoleIrq ==
  ASSUME NEW u \in Unit, NEW o \in IrqPins, o[1] = u,
         Cardinality({p \in IrqPins : p[1] = u}) = 1
  PROVE  Only(u, o)
<1>1. IsFiniteSet(IrqPins)
  <2> DEFINE f == [c \in Convert |-> GpioIrq(c[1], c[2])]
             S == {f[c] : c \in Convert}
  <2>1. IsFiniteSet(Convert)
    BY PinAssumption
  <2>2. IrqPins = S
    BY DEF IrqPins
  <2>3. f \in Surjection(Convert, S)
    BY DEF Surjection
  <2>4. IsFiniteSet(S)
    BY <2>1, <2>3, FS_Surjection
  <2>5. QED BY <2>2, <2>4
<1>2. IsFiniteSet({p \in IrqPins : p[1] = u})
  BY <1>1, FS_Subset
<1>3. PICK q : {p \in IrqPins : p[1] = u} = {q}
  BY <1>2, FS_Singleton
<1>4. QED BY <1>3 DEF Only

(* On a unit with one irq, refused signals, merged signals and a       *)
(* thread that is interrupted within its own calls never make the handler  *)
(* run more often than a level was set at the other end.                   *)
THEOREM RunsOncePerLevel == Spec => OneRunPerLevel
<1>1. Init => Counted
  <2> SUFFICES ASSUME Init, NEW u \in Unit, NEW o \in IrqPins PROVE Paid(u, o)
    BY DEF Counted
  <2>1. /\ signals[u] = 0 /\ ~handling[u] /\ todo[u] = {} /\ credit[u][o] = 0
        /\ call[Peer(u)].at = "idle"
    BY PeerUnit DEF Init, Irqs!Init, Irqs!Idle
  <2>2. Coming(u) = 0
    BY <2>1 DEF Coming
  <2>3. QED BY <2>1, <2>2 DEF Paid
<1>2. NetP!AskedInv /\ Irqs!TypeOK /\ Carried /\ Counted /\ [Next]_vars => Counted'
  BY CountedStep
<1>3. Spec => []Counted
  BY <1>1, <1>2, NetInvariant, IrqInvariant, TypesInvariant, PTL DEF Spec
<1>4. Irqs!TypeOK /\ Carried /\ Counted =>
        \A u \in Unit, o \in IrqPins :
          handle(u, o) /\ Cardinality({p \in IrqPins : p[1] = u}) = 1 => credit[u][o] > 0
  <2> SUFFICES ASSUME Irqs!TypeOK, Carried, Counted, NEW u \in Unit, NEW o \in IrqPins,
                      handle(u, o), Cardinality({p \in IrqPins : p[1] = u}) = 1
               PROVE  credit[u][o] > 0
    OBVIOUS
  <2>1. o \in todo[u]
    BY DEF handle, Irqs!handle
  <2>2. o[1] = u
    BY <2>1 DEF Carried, Own
  <2>3. Paid(u, o)
    BY <2>2, SoleIrq DEF Counted
  <2>4. Coming(u) \in Nat
    BY ComingType
  <2>5. credit[u][o] = CreditMax \/ credit[u][o] >= Coming(u) + 1
    BY <2>1, <2>3 DEF Paid
  <2>6. QED BY <2>4, <2>5, CreditType
<1>5. QED BY <1>3, <1>4, IrqInvariant, TypesInvariant, PTL DEF OneRunPerLevel
=============================================================================
