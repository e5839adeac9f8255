------------------------ MODULE SpiRendezvousProofs ------------------------
(* A slave and a patient master: what the slave is told, and that the link *)
(* implements the rendezvous.                                              *)
EXTENDS SpiLinkProofs

(* One of the two devices is a master.                                     *)
OneMaster == \E s \in Dev : ~IsMaster[s] /\ IsMaster[Peer(s)]

Master == Peer(Slave)

(* The slave posts with a callback before it waits, not after: otherwise   *)
(* the irq of a transfer it waited for may call back too early.            *)
CallbacksFirst ==
  \A i, j \in DOMAIN Plan[Slave] :
    i < j /\ Plan[Slave][i] = "sync" => Plan[Slave][j] # "async"

(* The slave has not waited yet.                                           *)
Fresh ==
  /\ \A id \in 1 .. th[Slave].ip - 1 : Plan[Slave][id] # "sync"
  /\ th[Slave].at # "idle" => th[Slave].kind # "sync"

Calm == Fresh \/ ~Spurious

(* The call whose buffers are on offer or were taken last, and where the   *)
(* slave rests until it is told of it.                                     *)
Current == IF Fresh THEN th[Slave].posted ELSE th[Slave].ip

Rests == th[Slave].at = IF Fresh THEN "idle" ELSE "waiting"

(* Nobody interrupts the master, which only serves.                        *)
MasterServes ==
  /\ th[Master].kind # "async"
  /\ call[Slave] = Irqs!Idle /\ signals[Master] = 0 /\ ~handling[Master]
  /\ call[Master] # Irqs!Idle => th[Master].at = "clear" /\ call[Master].ctl = Slave
  /\ call[Master].at = "link" => call[Master].irq = Slave /\ call[Master].since = {}
  /\ call[Master].at = "kill" \/ signals[Slave] > 0 \/ handling[Slave]
       => Slave \in pending_irqs[Slave]

(* The slave stays where it is from the start of a transfer until it is    *)
(* told of it.                                                             *)
SlaveStays ==
  Calm =>
    /\ Slave \notin early
    /\ th[Master].at \in {"lock", "look", "copy"} => is_listening[Slave] /\ Rests
    /\ th[Master].at \in {"unlisten", "signal"} => Rests /\ Exchanged(Slave, Current)
    /\ th[Master].at = "unlisten" => current_rx[Slave] = 0
    /\ th[Slave].at = "woken" => Exchanged(Slave, th[Slave].ip)

(* What will make the handler of the slave run.                            *)
Raising == th[Master].at \in {"unlisten", "signal", "raise"} \/ call[Master].at \in {"link", "kill"}

Walking == handling[Slave] /\ Slave \in todo[Slave]

Coming == Raising \/ signals[Slave] > 0 \/ Walking

(* As long as the slave only posts, each irq is that of its last posting.  *)
IrqReports ==
  Fresh =>
    /\ Coming => th[Slave].at = "idle" /\ Posted(Slave) /\ Exchanged(Slave, th[Slave].posted)
    /\ Raising => signals[Slave] = 0 /\ ~Walking
    /\ signals[Slave] <= 1
    /\ signals[Slave] > 0 => ~Walking

(* The callback the slave has stored is that of its last posting.          *)
CallbackStored ==
  /\ th[Slave].posted # 0 =>
       th[Slave].posted \in DOMAIN Plan[Slave] /\ Plan[Slave][th[Slave].posted] = "async"
  /\ Fresh \/ ~Posted(Slave)
  /\ th[Slave].at # "idle" => ~Posted(Slave) /\ ~Told(Slave, th[Slave].ip)
  /\ slave_callback[Slave] =
       IF Posted(Slave) THEN th[Slave].posted
       ELSE IF th[Slave].at \in {"ctx", "unlock"} /\ th[Slave].kind = "async" THEN th[Slave].ip ELSE 0
  /\ slave_callback_ctx[Slave] =
       IF th[Slave].at = "ctx" THEN 0 ELSE slave_callback[Slave]

(* The patient master finds the slave listening, each time it looks.       *)
MasterFinds ==
  /\ th[Master].at \in {"lock", "look", "copy"} => is_listening[Slave]
  /\ th[Master].at \in Copied \cup {"copy"} => Master \notin missed

MeetInv ==
  /\ MasterServes /\ MasterFinds
  /\ SlaveStays /\ IrqReports /\ CallbackStored /\ CallbackReports

-----------------------------------------------------------------------------
(* Who moves.                                                              *)

LEMMA Roles ==
  ASSUME OneMaster
  PROVE  /\ Slave \in Dev /\ Master \in Dev /\ Slave # Master
         /\ Peer(Slave) = Master /\ Peer(Master) = Slave
         /\ ~IsMaster[Slave] /\ IsMaster[Master]
         /\ \A d \in Dev : d = Slave \/ d = Master
<1>1. Slave \in Dev /\ ~IsMaster[Slave]
  BY DEF Slave, OneMaster
<1>2. PICK s \in Dev : ~IsMaster[s] /\ IsMaster[Peer(s)]
  BY DEF OneMaster
<1>3. Slave = s
  BY <1>1, <1>2, PeerType
<1>4. QED BY <1>1, <1>2, <1>3, PeerType DEF Master

SlaveCalls ==
  \/ Enable(Slave) \/ sync_xfer(Slave) \/ async_xfer(Slave) \/ Lock(Slave)
  \/ SlaveStep(Slave) \/ SpuriousWakeup(Slave)

MasterCalls ==
  \/ Enable(Master) \/ sync_xfer(Master) \/ async_xfer(Master) \/ Lock(Master)
  \/ Look(Master) \/ Copy(Master) \/ Unlisten(Master) \/ Signal(Master) \/ RaiseIrq(Master)
  \/ Clear(Master) \/ FinishRaise(Master)

LEMMA WhoMoves ==
  ASSUME OneMaster, IInv, MasterServes, Next
  PROVE  SlaveCalls \/ MasterCalls \/ HandlerStep(Slave) \/ Handle(Slave)
<1>1. PICK d \in Dev : ThreadStep(d) \/ SpuriousWakeup(d) \/ HandlerStep(d) \/ Handle(d)
  BY DEF Next
<1>2. CASE d = Slave
  <2>1. ~MasterStep(d)
    BY <1>2, Roles DEF MasterStep
  <2>2. ~FinishRaise(d)
    BY <1>2 DEF FinishRaise, MasterServes, Irqs!Insert, Irqs!Kill, Irqs!Idle
  <2>3. QED BY <1>1, <1>2, <2>1, <2>2 DEF ThreadStep, SlaveCalls
<1>3. CASE d = Master
  <2>1. th[d].at \notin Posting \cup {"listen"}
    BY <1>3, Roles DEF IInv, Placed, MasterServes
  <2>2. ~SlaveStep(d) /\ ~SpuriousWakeup(d)
    BY <2>1 DEF SlaveStep, SpuriousWakeup, Listen, SetCallback, SetContext, Unlock, CondLock,
                CondWait, Woken, Runs, Posting
  <2>3. ~HandlerStep(d) /\ ~Handle(d)
    BY <1>3 DEF MasterServes, HandlerStep, Handle, Irqs!signal_handler, Irqs!HandlerReturn,
                Irqs!handle
  <2>4. QED BY <1>1, <1>3, <2>2, <2>3 DEF ThreadStep, MasterStep, MasterCalls
<1>4. QED BY <1>2, <1>3, Roles

(* What the thread of the slave leaves alone.                              *)
LEMMA SlaveEffect ==
  ASSUME OneMaster, IInv, SlaveCalls
  PROVE  /\ th \in [Dev -> Thread] /\ th'[Master] = th[Master]
         /\ UNCHANGED <<exchanges, callbacks, pending_irqs, signals, handling, todo, call>>
<1>1. th \in [Dev -> Thread]
  BY DEF IInv, Typed
<1>2. th'[Master] = th[Master]
  <2>1. CASE Enable(Slave) \/ sync_xfer(Slave) \/ async_xfer(Slave) \/ Unlock(Slave) \/ Woken(Slave)
    BY <1>1, <2>1, Roles, BeginEffect, ReturnEffect, GotoEffect
       DEF Enable, sync_xfer, async_xfer, Unlock, Woken, PCs, Posting
  <2>2. CASE \/ Lock(Slave) \/ Listen(Slave) \/ SetCallback(Slave) \/ SetContext(Slave)
             \/ CondLock(Slave) \/ CondWait(Slave)
    BY <1>1, <2>2, Roles, GotoEffect
       DEF Lock, Listen, SetCallback, SetContext, CondLock, CondWait, PCs, Posting, Serving
  <2>3. CASE SpuriousWakeup(Slave)
    BY <1>1, <2>3, Roles DEF SpuriousWakeup
  <2>4. QED BY <2>1, <2>2, <2>3 DEF SlaveCalls, SlaveStep
<1>3. UNCHANGED <<exchanges, callbacks>>
  BY DEF SlaveCalls, SlaveStep, Enable, sync_xfer, async_xfer, Lock, Listen, SetCallback, SetContext,
         Unlock, CondLock, CondWait, Woken, SpuriousWakeup, ghosts
<1>4. UNCHANGED <<pending_irqs, signals, handling, todo, call>>
  <2>1. CASE Enable(Slave)
    BY <2>1 DEF Enable, Irqs!enableIrq, Irqs!disableIrq, Irqs!SetEnabled
  <2>2. CASE ~Enable(Slave)
    <3>1. UNCHANGED irqs
      BY <2>2 DEF SlaveCalls, SlaveStep, sync_xfer, async_xfer, Lock, Listen, SetCallback,
                  SetContext, Unlock, CondLock, CondWait, Woken, SpuriousWakeup
    <3>2. QED BY <3>1 DEF irqs
  <2>3. QED BY <2>1, <2>2
<1>5. QED BY <1>1, <1>2, <1>3, <1>4

(* What a patient master leaves alone, and how its calls go.               *)
LEMMA MasterEffect ==
  ASSUME OneMaster, Patient, IInv, MasterServes, MasterCalls
  PROVE  /\ th \in [Dev -> Thread]
         /\ th'[Slave].ip = th[Slave].ip /\ th'[Slave].kind = th[Slave].kind
         /\ th'[Slave].posted = th[Slave].posted
         /\ Signal(Master) \/ th'[Slave].at = th[Slave].at
         /\ slave_callback'[Slave] = slave_callback[Slave]
         /\ slave_callback_ctx'[Slave] = slave_callback_ctx[Slave]
         /\ \A id : Told(Slave, id)' <=> Told(Slave, id)
         /\ early' = early
         /\ exchanges \subseteq exchanges'
         /\ th'[Master].kind # "async"
         /\ \/ /\ th[Master].at = "idle" /\ th'[Master].at = "idle"
            \/ /\ th[Master].at = "idle" /\ th'[Master].at = "lock"
               /\ AtRest(Slave)
            \/ Lock(Master) /\ th[Master].at = "lock" /\ th'[Master].at = "look"
            \/ Look(Master) /\ th[Master].at = "look" /\ th'[Master].at \in {"copy", "clear"}
            \/ Copy(Master) /\ th[Master].at = "copy" /\ th'[Master].at = "unlisten"
            \/ Unlisten(Master) /\ th[Master].at = "unlisten" /\ th'[Master].at = "signal"
            \/ Signal(Master) /\ th[Master].at = "signal" /\ th'[Master].at = "raise"
            \/ RaiseIrq(Master) /\ th[Master].at = "raise" /\ th'[Master].at = "clear"
            \/ Clear(Master) /\ th[Master].at = "clear" /\ th'[Master].at = "idle"
            \/ FinishRaise(Master) /\ th' = th
<1>1. th \in [Dev -> Thread] /\ th[Master].kind # "async"
  BY DEF IInv, Typed, MasterServes
<1>2. /\ slave_callback'[Slave] = slave_callback[Slave]
      /\ slave_callback_ctx'[Slave] = slave_callback_ctx[Slave]
      /\ early' = early /\ exchanges \subseteq exchanges'
  BY DEF MasterCalls, Enable, sync_xfer, async_xfer, Lock, Look, Copy, Unlisten, Signal, RaiseIrq,
         Clear, FinishRaise, ghosts, spi, callback
<1>3. \A id : Told(Slave, id)' <=> Told(Slave, id)
  <2>1. CASE callbacks' = callbacks
    BY <2>1 DEF Told
  <2>2. CASE Clear(Master)
    <3>1. th[Master].ip \in Nat
      BY <1>1, Roles DEF Thread
    <3>2. CASE callbacks' = Append(callbacks, [dev |-> Master, id |-> th[Master].ip,
                                               ctx |-> th[Master].ip])
      BY <3>1, <3>2, Roles, ToldAfter DEF IInv
    <3>3. QED BY <2>1, <2>2, <3>2 DEF Clear
  <2>3. QED BY <2>1, <2>2 DEF MasterCalls, Enable, sync_xfer, async_xfer, Lock, Look, Copy,
                              Unlisten, Signal, RaiseIrq, FinishRaise, ghosts
<1>4. CASE Enable(Master)
  BY <1>1, <1>2, <1>3, <1>4, Roles, ReturnEffect DEF Enable, Runs
<1>5. CASE sync_xfer(Master)
  BY <1>1, <1>2, <1>3, <1>5, Roles, BeginEffect DEF sync_xfer, MayStart, Runs
<1>6. CASE async_xfer(Master)
  <2>1. CASE Runs(Master, "idle") /\ Return(Master, EINVAL)
    BY <1>1, <1>2, <1>3, <2>1, Roles, ReturnEffect DEF Runs
  <2>2. CASE MayStart(Master) /\ Begin(Master, "now", "lock")
    BY <1>1, <1>2, <1>3, <2>2, Roles, BeginEffect DEF MayStart, Runs
  <2>3. QED BY <1>6, <2>1, <2>2, Roles DEF async_xfer, MayStart, AtRest
<1>7. CASE Lock(Master)
  BY <1>1, <1>2, <1>3, <1>7, Roles, GotoEffect DEF Lock, PCs, Serving, Runs
<1>8. CASE Look(Master)
  BY <1>1, <1>2, <1>3, <1>8, Roles, GotoEffect DEF Look, PCs, Serving, Runs
<1>9. CASE Copy(Master)
  BY <1>1, <1>2, <1>3, <1>9, Roles, GotoEffect DEF Copy, PCs, Serving, Runs
<1>10. CASE Unlisten(Master)
  BY <1>1, <1>2, <1>3, <1>10, Roles, GotoEffect DEF Unlisten, PCs, Serving, Runs
<1>11. CASE Signal(Master)
  <2>1. th[Master].at = "signal"
    BY <1>11 DEF Signal, Runs
  <2>2. QED BY <1>1, <1>2, <1>3, <1>11, <2>1, Roles, SignalEffect
<1>12. CASE RaiseIrq(Master)
  BY <1>1, <1>2, <1>3, <1>12, Roles, GotoEffect DEF RaiseIrq, PCs, Serving, Runs
<1>13. CASE Clear(Master)
  BY <1>1, <1>2, <1>3, <1>13, Roles, ReturnEffect DEF Clear, Runs
<1>14. CASE FinishRaise(Master)
  BY <1>1, <1>2, <1>3, <1>14 DEF FinishRaise
<1>15. QED
  BY <1>4, <1>5, <1>6, <1>7, <1>8, <1>9, <1>10, <1>11, <1>12, <1>13, <1>14 DEF MasterCalls

-----------------------------------------------------------------------------
(* The interrupts of the slave.                                            *)

LEMMA RaiseEffect ==
  ASSUME OneMaster, Irqs!TypeOK, RaiseIrq(Master)
  PROVE  /\ UNCHANGED <<pending_irqs, signals, handling, todo>>
         /\ call'[Slave] = call[Slave]
         /\ \/ call'[Master] = call[Master]
            \/ call'[Master] = [at |-> "link", ctl |-> Slave, irq |-> Slave, since |-> {}]
<1>1. call \in [Dev -> Irqs!Calls]
  BY DEF Irqs!TypeOK
<1>2. CASE UNCHANGED irqs
  BY <1>2 DEF irqs
<1>3. CASE Irqs!local_raise(Master, Slave)
  BY <1>1, <1>3, Roles DEF Irqs!local_raise, Irqs!Raise
<1>4. QED BY <1>2, <1>3, Roles DEF RaiseIrq

(* The irq is linked into an empty set, or is there already.               *)
LEMMA InsertEffect ==
  ASSUME OneMaster, Irqs!TypeOK, MasterServes, Irqs!Insert(Master)
  PROVE  /\ call[Master].at = "link"
         /\ UNCHANGED <<signals, handling, todo>>
         /\ Slave \in pending_irqs'[Slave]
         /\ call'[Slave] = call[Slave]
         /\ call'[Master] = [at |-> "kill", ctl |-> Slave]
<1>1. /\ call[Master].at = "link" /\ call[Master].ctl = Slave /\ call[Master].irq = Slave
      /\ call[Master].since = {} /\ call[Slave] = Irqs!Idle
      /\ UNCHANGED <<signals, handling>>
  BY DEF MasterServes, Irqs!Insert, Irqs!Idle
<1>2. call \in [Dev -> Irqs!Calls] /\ pending_irqs \in [Dev -> SUBSET Dev]
  BY DEF Irqs!TypeOK
<1>3. CASE Slave \in pending_irqs[Slave]
  <2>1. /\ call' = [call EXCEPT ![Master] = [at |-> "kill", ctl |-> Slave]]
        /\ UNCHANGED <<pending_irqs, todo>>
    BY <1>1, <1>3 DEF Irqs!Insert
  <2>2. QED BY <1>1, <1>2, <1>3, <2>1, Roles
<1>4. CASE Slave \notin pending_irqs[Slave]
  <2>1. ~handling[Slave]
    BY <1>4 DEF MasterServes
  <2>2. PICK dropped \in SUBSET ({} \ {Slave}) :
          pending_irqs' = [pending_irqs EXCEPT ![Slave] = (@ \ dropped) \cup {Slave}]
    BY <1>1, <1>4 DEF Irqs!Insert
  <2>3. UNCHANGED todo
    BY <1>1, <1>4, <2>1 DEF Irqs!Insert
  <2>4. call' = [y \in Dev |->
                   IF y = Master THEN [at |-> "kill", ctl |-> Slave]
                   ELSE IF Irqs!Linking(y, Slave)
                        THEN Irqs!AlsoSees(call[y], Slave)
                        ELSE call[y]]
    BY <1>1, <1>4 DEF Irqs!Insert
  <2>5. ~Irqs!Linking(Slave, Slave)
    BY <1>1 DEF Irqs!Linking, Irqs!Idle
  <2>6. QED BY <1>1, <1>2, <2>2, <2>3, <2>4, <2>5, Roles
<1>5. QED BY <1>3, <1>4

LEMMA KillEffect ==
  ASSUME OneMaster, Irqs!TypeOK, MasterServes, Irqs!Kill(Master)
  PROVE  /\ call[Master].at = "kill"
         /\ UNCHANGED <<pending_irqs, handling, todo>>
         /\ signals'[Slave] \in {signals[Slave], signals[Slave] + 1}
         /\ signals'[Master] = signals[Master]
         /\ call'[Slave] = call[Slave] /\ call'[Master] = Irqs!Idle
<1>1. call[Master].at = "kill" /\ call[Master].ctl = Slave
  BY DEF MasterServes, Irqs!Kill, Irqs!Idle
<1>2. call \in [Dev -> Irqs!Calls] /\ signals \in [Dev -> 0 .. SigMax]
  BY DEF Irqs!TypeOK
<1>3. QED BY <1>1, <1>2, Roles DEF Irqs!Kill, Irqs!pthread_kill, Irqs!Queue, Irqs!Refuse

(* Otherwise the calls of the master do not concern the interrupts.        *)
LEMMA NoIrqEffect ==
  ASSUME MasterCalls, ~RaiseIrq(Master), ~FinishRaise(Master)
  PROVE  UNCHANGED <<pending_irqs, signals, handling, todo, call>>
<1>1. CASE Enable(Master)
  BY <1>1 DEF Enable, Irqs!enableIrq, Irqs!disableIrq, Irqs!SetEnabled
<1>2. CASE ~Enable(Master)
  <2>1. UNCHANGED irqs
    BY <1>2 DEF MasterCalls, sync_xfer, async_xfer, Lock, Look, Copy, Unlisten, Signal, Clear
  <2>2. QED BY <2>1 DEF irqs
<1>3. QED BY <1>1, <1>2

LEMMA HandlerEffect ==
  ASSUME OneMaster, Irqs!TypeOK, MasterServes, HandlerStep(Slave)
  PROVE  /\ UNCHANGED <<spi, th, ghosts, call, pending_irqs>>
         /\ signals'[Master] = signals[Master] /\ handling'[Master] = handling[Master]
         /\ \/ /\ signals[Slave] > 0 /\ signals'[Slave] = signals[Slave] - 1
               /\ handling'[Slave] /\ ~handling[Slave]
            \/ /\ UNCHANGED <<signals, todo>>
               /\ handling[Slave] /\ ~handling'[Slave] /\ todo[Slave] = {}
<1>1. /\ signals \in [Dev -> 0 .. SigMax] /\ handling \in [Dev -> BOOLEAN]
      /\ UNCHANGED <<spi, th, ghosts>>
  BY DEF Irqs!TypeOK, HandlerStep
<1>2. CASE Irqs!signal_handler(Slave)
  BY <1>1, <1>2, Roles DEF Irqs!signal_handler
<1>3. CASE Irqs!HandlerReturn(Slave)
  BY <1>1, <1>3, Roles DEF Irqs!HandlerReturn
<1>4. QED BY <1>2, <1>3 DEF HandlerStep

LEMMA HandleIrq ==
  ASSUME Irqs!TypeOK, OneMaster, Handle(Slave)
  PROVE  /\ UNCHANGED <<th, call, pending_irqs, signals, handling, buffers, is_listening, exchanges>>
         /\ Walking /\ ~Walking'
BY Roles DEF Irqs!TypeOK, Handle, Irqs!handle, Walking

LEMMA MasterServesKept ==
  ASSUME OneMaster, Patient, IInv, Irqs!TypeOK, MasterServes, Next
  PROVE  MasterServes'
<1>1. signals[Slave] \in Nat
  BY Roles, QueueAssumption DEF Irqs!TypeOK
<1>2. CASE SlaveCalls
  BY <1>2, SlaveEffect DEF MasterServes
<1>3. CASE HandlerStep(Slave)
  BY <1>1, <1>3, HandlerEffect DEF MasterServes
<1>4. CASE Handle(Slave)
  BY <1>4, HandleIrq DEF MasterServes
<1>5. CASE RaiseIrq(Master)
  <2>1. /\ th'[Master].kind # "async" /\ th'[Master].at = "clear"
        /\ call[Master] = Irqs!Idle
    <3>1. MasterCalls /\ th[Master].at = "raise" /\ call[Master] = Irqs!Idle
      BY <1>5 DEF MasterCalls, RaiseIrq, Runs
    <3>2. QED BY <1>5, <3>1, MasterEffect, GotoEffect, Roles DEF RaiseIrq, PCs, Serving
  <2>2. QED BY <1>5, <2>1, RaiseEffect DEF MasterServes, Irqs!Idle
<1>6. CASE FinishRaise(Master)
  <2>1. UNCHANGED th
    BY <1>6 DEF FinishRaise
  <2>2. CASE Irqs!Insert(Master)
    BY <2>1, <2>2, InsertEffect DEF MasterServes, Irqs!Idle
  <2>3. CASE Irqs!Kill(Master)
    BY <1>1, <2>1, <2>3, KillEffect DEF MasterServes, Irqs!Idle
  <2>4. QED BY <1>6, <2>2, <2>3 DEF FinishRaise
<1>7. CASE MasterCalls /\ ~RaiseIrq(Master) /\ ~FinishRaise(Master)
  <2>1. call[Master] = Irqs!Idle
    BY <1>7 DEF MasterCalls, Enable, sync_xfer, async_xfer, MayStart, Lock, Look, Copy, Unlisten,
                Signal, Clear, Runs
  <2>2. QED BY <1>7, <2>1, NoIrqEffect, MasterEffect DEF MasterServes, Irqs!Idle
<1>8. QED BY <1>2, <1>3, <1>4, <1>5, <1>6, <1>7, WhoMoves DEF MasterCalls

-----------------------------------------------------------------------------
(* How the calls of the slave go.                                          *)

LEMMA SlaveBegins ==
  ASSUME OneMaster, IInv, Enable(Slave) \/ sync_xfer(Slave) \/ async_xfer(Slave)
  PROVE  /\ th[Slave].at = "idle" /\ th'[Slave].posted = th[Slave].posted
         /\ UNCHANGED <<spi, exchanges, callbacks, early>>
         /\ \/ /\ th'[Slave].at = "idle" /\ th'[Slave].ip = th[Slave].ip + 1
               /\ Plan[Slave][th[Slave].ip] # "sync"
            \/ /\ th'[Slave].at = "lock" /\ th'[Slave].ip = th[Slave].ip
               /\ ~Posted(Slave)
<1>1. th \in [Dev -> Thread] /\ Slave \in Dev
  BY Roles DEF IInv, Typed
<1>2. UNCHANGED <<spi, exchanges, callbacks, early>>
  BY DEF Enable, sync_xfer, async_xfer, ghosts
<1>3. CASE Enable(Slave)
  <2>1. Return(Slave, 0) /\ th[Slave].at = "idle" /\ Op(Slave) \in {"enable", "disable"}
    BY <1>3 DEF Enable, Runs
  <2>2. Op(Slave) # "async" /\ Plan[Slave][th[Slave].ip] # "sync"
    BY <2>1 DEF Op
  <2>3. QED BY <1>1, <1>2, <2>1, <2>2, ReturnEffect
<1>4. CASE sync_xfer(Slave)
  BY <1>1, <1>2, <1>4, BeginEffect DEF sync_xfer, MayStart, Runs
<1>5. CASE async_xfer(Slave)
  <2>1. Op(Slave) = "async" /\ th[Slave].at = "idle"
    BY <1>5 DEF async_xfer, MayStart, Runs
  <2>2. Plan[Slave][th[Slave].ip] # "sync"
    BY <2>1 DEF Op
  <2>3. QED BY <1>1, <1>2, <1>5, <2>1, <2>2, ReturnEffect, BeginEffect DEF async_xfer, MayStart
<1>6. QED BY <1>3, <1>4, <1>5

LEMMA SlaveEnds ==
  ASSUME OneMaster, IInv, Woken(Slave) \/ (Unlock(Slave) /\ th[Slave].kind = "async")
  PROVE  /\ th[Slave].at \in {"unlock", "woken"}
         /\ th'[Slave].at = "idle" /\ th'[Slave].ip = th[Slave].ip + 1
         /\ th'[Slave].posted = IF th[Slave].at = "unlock" THEN th[Slave].ip ELSE th[Slave].posted
         /\ UNCHANGED <<callback, buffers, is_listening, exchanges, callbacks>>
<1>1. th \in [Dev -> Thread] /\ Slave \in Dev /\ Placed(Slave)
  BY Roles DEF IInv, Typed
<1>2. CASE Unlock(Slave) /\ th[Slave].kind = "async"
  <2>1. /\ th[Slave].at = "unlock" /\ Return(Slave, 0) /\ Op(Slave) = "async"
        /\ UNCHANGED <<callback, buffers, is_listening, exchanges, callbacks>>
    BY <1>1, <1>2, PlanAssumption DEF Unlock, Runs, Placed, Op
  <2>2. QED BY <1>1, <1>2, <2>1, ReturnEffect DEF EINVAL
<1>3. CASE Woken(Slave)
  <2>1. /\ th[Slave].at = "woken" /\ Return(Slave, current_xfer_size[Slave])
        /\ Op(Slave) # "async"
        /\ UNCHANGED <<callback, buffers, is_listening, exchanges, callbacks>>
    BY <1>1, <1>3, PlanAssumption DEF Woken, Runs, Placed, Op, Posting
  <2>2. QED BY <1>1, <2>1, ReturnEffect
<1>4. QED BY <1>2, <1>3

LEMMA SlaveGoesOn ==
  ASSUME OneMaster, IInv,
         \/ Lock(Slave) \/ Listen(Slave) \/ SetCallback(Slave) \/ SetContext(Slave)
         \/ CondLock(Slave) \/ CondWait(Slave) \/ SpuriousWakeup(Slave)
         \/ (Unlock(Slave) /\ th[Slave].kind # "async")
  PROVE  /\ th[Slave].at # "idle" /\ th'[Slave].at # "idle"
         /\ th'[Slave].ip = th[Slave].ip /\ th'[Slave].kind = th[Slave].kind
         /\ th'[Slave].posted = th[Slave].posted
         /\ early' = early
<1>1. th \in [Dev -> Thread] /\ Slave \in Dev
  BY Roles DEF IInv, Typed
<1>2. CASE \/ Lock(Slave) \/ Listen(Slave) \/ SetCallback(Slave) \/ SetContext(Slave)
           \/ CondLock(Slave) \/ CondWait(Slave)
  <2>1. CASE Lock(Slave) \/ Listen(Slave)
    BY <1>1, <2>1, Roles, GotoEffect DEF Lock, Listen, Runs, PCs, Posting, Serving, ghosts
  <2>2. CASE SetCallback(Slave) \/ SetContext(Slave)
    BY <1>1, <2>2, Roles, GotoEffect
       DEF SetCallback, SetContext, Runs, PCs, Posting, Serving, ghosts
  <2>3. CASE CondLock(Slave) \/ CondWait(Slave)
    BY <1>1, <2>3, Roles, GotoEffect
       DEF CondLock, CondWait, Runs, PCs, Posting, Serving, ghosts
  <2>4. QED BY <1>2, <2>1, <2>2, <2>3
<1>3. CASE Unlock(Slave) /\ th[Slave].kind # "async"
  BY <1>1, <1>3, GotoEffect DEF Unlock, Runs, PCs, Posting
<1>4. CASE SpuriousWakeup(Slave)
  <2>1. th[Slave].at = "waiting" /\ th' = [th EXCEPT ![Slave].at = "woken"] /\ early' = early
    BY <1>4 DEF SpuriousWakeup, Runs, ghosts
  <2>2. th[Slave] \in Thread
    BY <1>1
  <2>3. QED BY <1>1, <2>1, <2>2 DEF Thread
<1>5. QED BY <1>2, <1>3, <1>4

-----------------------------------------------------------------------------
(* The slave waits only after its last posting with a callback.            *)

LEMMA FreshStays ==
  ASSUME th'[Slave].ip = th[Slave].ip, th'[Slave].kind = th[Slave].kind,
         th'[Slave].at = "idle" <=> th[Slave].at = "idle"
  PROVE  Fresh' <=> Fresh
BY DEF Fresh

LEMMA FreshStarts ==
  ASSUME th'[Slave].ip = th[Slave].ip, th[Slave].at = "idle", th'[Slave].at # "idle"
  PROVE  Fresh' <=> Fresh /\ th'[Slave].kind # "sync"
BY DEF Fresh

LEMMA FreshReturns ==
  ASSUME OneMaster, IInv, th'[Slave].ip = th[Slave].ip + 1, th'[Slave].at = "idle"
  PROVE  Fresh' <=> Fresh /\ Plan[Slave][th[Slave].ip] # "sync"
<1>1. th[Slave].ip \in Nat /\ th[Slave].ip >= 1 /\ Placed(Slave)
  BY Roles, PlanAssumption DEF IInv, Placed
<1>2. \A id \in 1 .. th[Slave].ip : id \in 1 .. th[Slave].ip - 1 \/ id = th[Slave].ip
  BY <1>1
<1>3. th[Slave].at # "idle" => (th[Slave].kind # "sync" <=> Plan[Slave][th[Slave].ip] # "sync")
  BY <1>1 DEF Placed
<1>4. QED BY <1>1, <1>2, <1>3 DEF Fresh

LEMMA CallbackIsFirst ==
  ASSUME OneMaster, CallbacksFirst, IInv, th[Slave].at # "idle", th[Slave].kind = "async"
  PROVE  Fresh
<1>1. /\ th[Slave].ip \in DOMAIN Plan[Slave] /\ Plan[Slave][th[Slave].ip] = "async"
      /\ \A id \in 1 .. th[Slave].ip - 1 : id \in DOMAIN Plan[Slave] /\ id < th[Slave].ip
  BY Roles, PlanAssumption DEF IInv, Placed
<1>2. QED BY <1>1 DEF CallbacksFirst, Fresh

-----------------------------------------------------------------------------
(* The callback that is stored.                                            *)

(* A step that leaves the callback, and what the slave knows, alone.       *)
StaysPut ==
  /\ th'[Slave].ip = th[Slave].ip /\ th'[Slave].kind = th[Slave].kind
  /\ th'[Slave].posted = th[Slave].posted
  /\ \/ th'[Slave].at = th[Slave].at
     \/ /\ th[Slave].at \notin {"idle", "ctx"} /\ th'[Slave].at \notin {"idle", "ctx"}
        /\ th[Slave].kind = "async" => th[Slave].at # "unlock" /\ th'[Slave].at # "unlock"
  /\ slave_callback'[Slave] = slave_callback[Slave]
  /\ slave_callback_ctx'[Slave] = slave_callback_ctx[Slave]
  /\ \A id : Told(Slave, id)' <=> Told(Slave, id)

LEMMA PutStored ==
  ASSUME CallbackStored, StaysPut
  PROVE  CallbackStored'
<1>1. Fresh' <=> Fresh
  BY FreshStays DEF StaysPut
<1>2. Posted(Slave)' <=> Posted(Slave)
  BY DEF Posted, StaysPut
<1>3. QED BY <1>1, <1>2 DEF CallbackStored, StaysPut

LEMMA SlaveStaysPut ==
  ASSUME OneMaster, IInv,
         \/ Lock(Slave) \/ Listen(Slave) \/ CondLock(Slave) \/ CondWait(Slave)
         \/ SpuriousWakeup(Slave) \/ (Unlock(Slave) /\ th[Slave].kind # "async")
  PROVE  StaysPut
<1>1. th \in [Dev -> Thread] /\ Placed(Slave)
  BY Roles DEF IInv, Typed
<1>2. UNCHANGED <<callback, callbacks>>
  BY DEF Lock, Listen, CondLock, CondWait, Unlock, SpuriousWakeup, ghosts, spi
<1>3. CASE Lock(Slave)
  BY <1>1, <1>2, <1>3, Roles, GotoEffect DEF Lock, StaysPut, Told, PCs, Serving, Runs, callback
<1>4. CASE Listen(Slave)
  BY <1>1, <1>2, <1>4, Roles, GotoEffect DEF Listen, StaysPut, Told, PCs, Posting, Runs, callback
<1>5. CASE CondLock(Slave) \/ CondWait(Slave) \/ (Unlock(Slave) /\ th[Slave].kind # "async")
  BY <1>1, <1>2, <1>5, Roles, GotoEffect
     DEF CondLock, CondWait, Unlock, StaysPut, Told, PCs, Posting, Runs, callback, Placed
<1>6. CASE SpuriousWakeup(Slave)
  <2>1. th[Slave].at = "waiting" /\ th' = [th EXCEPT ![Slave].at = "woken"]
    BY <1>6 DEF SpuriousWakeup, Runs
  <2>2. th[Slave] \in Thread
    BY <1>1, Roles
  <2>3. /\ th'[Slave].at = "woken" /\ th'[Slave].ip = th[Slave].ip
        /\ th'[Slave].posted = th[Slave].posted /\ th'[Slave].kind = th[Slave].kind
    BY <1>1, <2>1, <2>2, Roles DEF Thread
  <2>4. QED BY <1>2, <2>1, <2>3 DEF StaysPut, Told, callback
<1>7. QED BY <1>3, <1>4, <1>5, <1>6

LEMMA MasterLeavesPut ==
  ASSUME OneMaster, Patient, IInv, MasterServes, MasterCalls
  PROVE  StaysPut
<1>1. CASE Signal(Master)
  <2>1. th'[Slave].at = IF th[Slave].at = "waiting" THEN "woken" ELSE th[Slave].at
    BY <1>1, SignalEffect, Roles DEF IInv, Typed
  <2>2. QED BY <1>1, <2>1, MasterEffect DEF StaysPut
<1>2. CASE ~Signal(Master)
  BY <1>2, MasterEffect DEF StaysPut
<1>3. QED BY <1>1, <1>2

(* What the handler of the slave finds.                                    *)
LEMMA HandlerFinds ==
  ASSUME OneMaster, CallbacksFirst, IInv, IrqReports, CallbackStored, Handle(Slave),
         slave_callback[Slave] # 0
  PROVE  /\ Fresh /\ th[Slave].at = "idle" /\ Posted(Slave)
         /\ Exchanged(Slave, th[Slave].posted)
         /\ slave_callback[Slave] = th[Slave].posted
         /\ slave_callback_ctx[Slave] = th[Slave].posted
<1>1. Coming
  BY DEF Handle, Irqs!handle, Coming, Walking
<1>2. Fresh
  BY CallbackIsFirst DEF CallbackStored
<1>3. QED BY <1>1, <1>2 DEF IrqReports, CallbackStored

LEMMA StoredKept ==
  ASSUME OneMaster, CallbacksFirst, Patient, IInv, Irqs!TypeOK, MasterServes, IrqReports,
         CallbackStored, Next
  PROVE  CallbackStored'
<1>1. /\ th \in [Dev -> Thread] /\ Placed(Slave) /\ Slave \in Dev /\ th[Slave].ip \in Nat
      /\ slave_callback \in [Dev -> Nat] /\ slave_callback_ctx \in [Dev -> Nat]
  BY Roles DEF IInv, Typed, Thread
<1>2. CASE MasterCalls
  BY <1>2, MasterLeavesPut, PutStored
<1>3. CASE HandlerStep(Slave)
  BY <1>3, HandlerEffect, PutStored DEF StaysPut, Told, spi, callback, ghosts
<1>4. CASE Handle(Slave)
  <2>1. CASE slave_callback[Slave] = 0
    <3>1. UNCHANGED <<callback, callbacks, th>>
      BY <1>4, <2>1 DEF Handle, spi_irq_handler
    <3>2. QED BY <3>1, PutStored DEF StaysPut, Told, callback
  <2>2. CASE slave_callback[Slave] # 0
    <3>1. PICK id \in Nat, ctx \in Nat :
            id = slave_callback[Slave] /\ ctx = slave_callback_ctx[Slave]
      BY <1>1
    <3>2. /\ slave_callback'[Slave] = 0 /\ slave_callback_ctx'[Slave] = 0 /\ th' = th
          /\ callbacks' = Append(callbacks, [dev |-> Slave, id |-> id, ctx |-> ctx])
      BY <1>1, <1>4, <2>2, <3>1, HandleEffect
    <3>3. \A i : Told(Slave, i)' <=> Told(Slave, i) \/ i = id
      <4>1. Typed /\ Slave \in Dev
        BY Roles DEF IInv
      <4>2. QED BY <3>2, <4>1, ToldAfter
    <3>4. th[Slave].at = "idle" /\ id = th[Slave].posted
      BY <1>4, <2>2, <3>1, HandlerFinds
    <3>5. ~Posted(Slave)'
      BY <3>2, <3>3, <3>4 DEF Posted
    <3>6. QED BY <3>2, <3>4, <3>5 DEF CallbackStored
  <2>3. QED BY <2>1, <2>2
<1>5. CASE SlaveCalls
  <2>1. \A id : Told(Slave, id)' <=> Told(Slave, id)
    BY <1>5, SlaveEffect DEF Told
  <2>2. CASE Enable(Slave) \/ sync_xfer(Slave) \/ async_xfer(Slave)
    <3>1. Posted(Slave)' <=> Posted(Slave)
      BY <2>1, <2>2, SlaveBegins DEF Posted
    <3>2. CASE th'[Slave].at = "idle"
      <4>1. Fresh' <=> Fresh
        BY <2>2, <3>2, SlaveBegins, FreshReturns
      <4>2. QED BY <2>2, <3>1, <3>2, <4>1, SlaveBegins DEF CallbackStored, spi, callback
    <3>3. CASE th'[Slave].at = "lock"
      <4>1. ~Told(Slave, th[Slave].ip)
        BY <1>1, <2>2, SlaveBegins, Roles DEF IInv, Rest, ToldOfPast, Reached, Told, Posting
      <4>2. QED BY <2>1, <2>2, <3>1, <3>3, <4>1, SlaveBegins DEF CallbackStored, spi, callback
    <3>4. QED BY <2>2, <3>2, <3>3, SlaveBegins
  <2>4. CASE SetCallback(Slave)
    <3>1. /\ th[Slave].at = "callback" /\ th'[Slave].at = "ctx" /\ th[Slave].kind = "async"
          /\ th'[Slave].ip = th[Slave].ip /\ th'[Slave].posted = th[Slave].posted
          /\ th'[Slave].kind = th[Slave].kind
          /\ slave_callback'[Slave] = th[Slave].ip
          /\ slave_callback_ctx'[Slave] = slave_callback_ctx[Slave]
      BY <1>1, <2>4, GotoEffect DEF SetCallback, Runs, PCs, Posting, Placed
    <3>2. (Fresh' <=> Fresh) /\ (Posted(Slave)' <=> Posted(Slave))
      BY <2>1, <3>1, FreshStays DEF Posted
    <3>3. QED BY <2>1, <3>1, <3>2 DEF CallbackStored
  <2>5. CASE SetContext(Slave)
    <3>1. /\ th[Slave].at = "ctx" /\ th'[Slave].at = "unlock" /\ th[Slave].kind = "async"
          /\ th'[Slave].ip = th[Slave].ip /\ th'[Slave].posted = th[Slave].posted
          /\ th'[Slave].kind = th[Slave].kind
          /\ slave_callback'[Slave] = slave_callback[Slave]
          /\ slave_callback_ctx'[Slave] = th[Slave].ip
      BY <1>1, <2>5, GotoEffect DEF SetContext, Runs, PCs, Posting, Placed
    <3>2. (Fresh' <=> Fresh) /\ (Posted(Slave)' <=> Posted(Slave))
      BY <2>1, <3>1, FreshStays DEF Posted
    <3>3. QED BY <2>1, <3>1, <3>2 DEF CallbackStored
  <2>6. CASE Unlock(Slave) /\ th[Slave].kind = "async"
    <3>1. /\ th[Slave].at = "unlock" /\ th'[Slave].at = "idle" /\ th'[Slave].posted = th[Slave].ip
          /\ th'[Slave].ip = th[Slave].ip + 1 /\ UNCHANGED callback
      BY <1>1, <2>6, SlaveEnds DEF Unlock, Runs
    <3>2. /\ th[Slave].ip \in DOMAIN Plan[Slave] /\ Plan[Slave][th[Slave].ip] = "async"
          /\ th[Slave].ip # 0
      BY <1>1, <2>6, <3>1, PlanAssumption DEF Placed
    <3>3. Fresh'
      BY <2>6, <3>1, <3>2, CallbackIsFirst, FreshReturns
    <3>4. Posted(Slave)' /\ ~Posted(Slave)
      BY <2>1, <3>1, <3>2 DEF CallbackStored, Posted
    <3>5. QED BY <2>6, <3>1, <3>2, <3>3, <3>4 DEF CallbackStored, callback
  <2>7. CASE Woken(Slave)
    <3>1. /\ th[Slave].at = "woken" /\ th'[Slave].at = "idle" /\ UNCHANGED callback
          /\ th'[Slave].posted = th[Slave].posted
      BY <2>7, SlaveEnds DEF Woken, Runs
    <3>2. ~Posted(Slave) /\ ~Posted(Slave)'
      BY <2>1, <3>1 DEF CallbackStored, Posted
    <3>3. QED BY <3>1, <3>2 DEF CallbackStored, callback
  <2>8. QED
    BY <1>5, <2>2, <2>4, <2>5, <2>6, <2>7, SlaveStaysPut, PutStored DEF SlaveCalls, SlaveStep
<1>6. QED BY <1>2, <1>3, <1>4, <1>5, WhoMoves

-----------------------------------------------------------------------------
(* Each irq is that of the last posting.                                   *)

LEMMA FreshBefore ==
  ASSUME OneMaster, IInv, SlaveCalls, Fresh'
  PROVE  Fresh
<1>1. CASE Enable(Slave) \/ sync_xfer(Slave) \/ async_xfer(Slave)
  BY <1>1, SlaveBegins, FreshStarts, FreshReturns
<1>2. CASE Woken(Slave) \/ (Unlock(Slave) /\ th[Slave].kind = "async")
  BY <1>2, SlaveEnds, FreshReturns
<1>3. QED BY <1>1, <1>2, SlaveGoesOn, FreshStays DEF SlaveCalls, SlaveStep

(* A master that is about to copy: no irq is coming, because the posting   *)
(* it has found was not exchanged.                                         *)
LEMMA NothingComes ==
  ASSUME OneMaster, IInv, MasterServes, SlaveStays, IrqReports, Fresh, Copy(Master)
  PROVE  /\ ~Coming
         /\ th[Slave].at = "idle" /\ Posted(Slave)
         /\ current_tx[Slave] = th[Slave].posted /\ current_rx[Slave] = th[Slave].posted
<1>1. th[Slave].at = "idle" /\ Slave \notin early
  BY DEF SlaveStays, Calm, Rests, Copy, Runs
<1>2. Offered(Slave)
  BY <1>1, Roles, CopyTakesOffer DEF IInv
<1>3. Posted(Slave) /\ current_rx[Slave] = th[Slave].posted /\ ~Exchanged(Slave, th[Slave].posted)
  BY <1>1, <1>2 DEF Offered, Posted, Posting
<1>4. QED BY <1>1, <1>2, <1>3 DEF IrqReports, Offered

LEMMA CopyEffect ==
  ASSUME OneMaster, IInv, Copy(Master)
  PROVE  /\ \A id : Exchanged(Slave, id)' <=> Exchanged(Slave, id) \/ id = current_tx[Slave]
         /\ current_rx'[Slave] = 0
         /\ UNCHANGED <<is_listening, callbacks>>
<1> DEFINE x == [dev |-> Master, id |-> th[Master].ip, from |-> current_tx[Slave],
                 to |-> current_rx[Slave],
                 n |-> Smaller(th[Master].size, current_xfer_size[Slave]),
                 size |-> th[Master].size]
<1>1. exchanges' = exchanges \cup {x} /\ x.dev = Master /\ x.from = current_tx[Slave]
  BY Roles DEF Copy
<1> HIDE DEF x
<1>2. \A id : Exchanged(Slave, id)' <=> Exchanged(Slave, id) \/ id = current_tx[Slave]
  BY <1>1, Roles DEF Exchanged
<1>3. current_rx'[Slave] = 0 /\ UNCHANGED <<is_listening, callbacks>>
  BY Roles DEF IInv, Typed, Copy
<1>4. QED BY <1>2, <1>3

LEMMA StillExchanged ==
  ASSUME exchanges \subseteq exchanges'
  PROVE  \A id : Exchanged(Slave, id) => Exchanged(Slave, id)'
BY DEF Exchanged

(* What it takes for a posting to stay as it is.                           *)
LEMMA StillPosted ==
  ASSUME th'[Slave].posted = th[Slave].posted, \A id : Told(Slave, id)' <=> Told(Slave, id)
  PROVE  Posted(Slave)' <=> Posted(Slave)
BY DEF Posted

LEMMA ReportsKept ==
  ASSUME OneMaster, CallbacksFirst, Patient, IInv, Irqs!TypeOK, MasterServes, SlaveStays,
         IrqReports, CallbackStored, Next
  PROVE  IrqReports'
<1> DEFINE Reported == th[Slave].at = "idle" /\ Posted(Slave) /\ Exchanged(Slave, th[Slave].posted)
<1>1. signals[Slave] \in Nat
  BY Roles, QueueAssumption DEF Irqs!TypeOK
<1>2. CASE SlaveCalls
  <2>1. /\ UNCHANGED <<signals, handling, todo, call, exchanges, callbacks>>
        /\ th'[Master] = th[Master]
    BY <1>2, SlaveEffect
  <2>2. (Coming' <=> Coming) /\ (Raising' <=> Raising) /\ (Walking' <=> Walking)
    BY <2>1 DEF Coming, Raising, Walking
  <2>3. ASSUME Fresh', Coming
        PROVE  Reported'
    <3>1. Reported
      BY <1>2, <2>3, FreshBefore DEF IrqReports
    <3>2. Enable(Slave) \/ sync_xfer(Slave) \/ async_xfer(Slave)
      BY <1>2, <3>1, SlaveEnds, SlaveGoesOn DEF SlaveCalls, SlaveStep
    <3>3. th'[Slave].at = "idle" /\ th'[Slave].posted = th[Slave].posted
      BY <3>1, <3>2, SlaveBegins
    <3>4. Posted(Slave)'
      BY <2>1, <3>1, <3>3, StillPosted DEF Told
    <3>5. QED BY <2>1, <3>1, <3>3, <3>4 DEF Exchanged
  <2>4. QED BY <1>2, <2>1, <2>2, <2>3, FreshBefore DEF IrqReports
<1>3. CASE HandlerStep(Slave)
  <2>1. (Fresh' <=> Fresh) /\ (Reported' <=> Reported)
    BY <1>3, HandlerEffect, FreshStays, StillPosted DEF Told, ghosts, Exchanged
  <2>2. Raising' <=> Raising
    BY <1>3, HandlerEffect DEF Raising
  <2>3. CASE signals[Slave] > 0 /\ signals'[Slave] = signals[Slave] - 1
    BY <1>1, <2>1, <2>2, <2>3 DEF IrqReports, Coming
  <2>4. CASE UNCHANGED <<signals, todo>> /\ todo[Slave] = {}
    BY <1>1, <2>1, <2>2, <2>4 DEF IrqReports, Coming, Walking
  <2>5. QED BY <1>3, <2>3, <2>4, HandlerEffect
<1>4. CASE Handle(Slave)
  <2>1. Fresh' <=> Fresh
    BY <1>4, HandleIrq, FreshStays
  <2>2. (Raising' <=> Raising) /\ signals' = signals /\ Walking /\ ~Walking'
    BY <1>4, HandleIrq DEF Raising
  <2>3. Fresh => ~Coming'
    BY <1>1, <2>2 DEF IrqReports, Coming
  <2>4. QED BY <1>1, <2>1, <2>2, <2>3 DEF IrqReports, Coming
<1>5. CASE MasterCalls
  <2>1. Fresh' <=> Fresh
    <3>1. th'[Slave].at = "idle" <=> th[Slave].at = "idle"
      BY <1>5, MasterEffect, SignalEffect, Roles
    <3>2. QED BY <1>5, <3>1, MasterEffect, FreshStays
  <2>2. Reported => Reported'
    <3>1. Posted(Slave)' <=> Posted(Slave)
      BY <1>5, MasterEffect, StillPosted
    <3>2. th'[Slave].posted = th[Slave].posted /\ exchanges \subseteq exchanges'
      BY <1>5, MasterEffect
    <3>3. th[Slave].at = "idle" => th'[Slave].at = "idle"
      BY <1>5, MasterEffect, SignalEffect, Roles
    <3>4. QED BY <3>1, <3>2, <3>3 DEF Exchanged
  <2>3. CASE Copy(Master)
    <3>1. UNCHANGED <<signals, handling, todo, call>> /\ th'[Slave].posted = th[Slave].posted
          /\ th'[Slave].at = th[Slave].at
      BY <1>5, <2>3, MasterEffect, NoIrqEffect DEF Copy, Signal, RaiseIrq, FinishRaise, Runs,
         Irqs!Insert, Irqs!Kill, Irqs!Idle
    <3>2. ASSUME Fresh
          PROVE  Reported' /\ ~Coming
      <4>1. /\ ~Coming /\ th[Slave].at = "idle" /\ Posted(Slave)
            /\ current_tx[Slave] = th[Slave].posted
        BY <2>3, <3>2, NothingComes
      <4>2. Posted(Slave)'
        BY <1>5, <4>1, MasterEffect, StillPosted
      <4>3. Exchanged(Slave, th[Slave].posted)'
        BY <2>3, <3>1, <4>1, CopyEffect DEF Exchanged
      <4>4. QED BY <3>1, <4>1, <4>2, <4>3
    <3>3. QED BY <1>1, <2>1, <3>1, <3>2 DEF IrqReports, Coming, Walking
  <2>4. CASE RaiseIrq(Master)
    <3>1. UNCHANGED <<signals, handling, todo>> /\ Raising
      BY <2>4, RaiseEffect DEF RaiseIrq, Runs, Raising
    <3>2. QED BY <1>1, <2>1, <2>2, <3>1 DEF IrqReports, Coming, Walking
  <2>5. CASE FinishRaise(Master)
    <3>1. CASE Irqs!Insert(Master)
      <4>1. UNCHANGED <<signals, handling, todo>> /\ Raising
        BY <3>1, InsertEffect DEF Raising
      <4>2. QED BY <1>1, <2>1, <2>2, <4>1 DEF IrqReports, Coming, Walking
    <3>2. CASE Irqs!Kill(Master)
      <4>1. /\ UNCHANGED <<handling, todo, th>> /\ Raising
            /\ signals'[Slave] \in {signals[Slave], signals[Slave] + 1}
            /\ call'[Master].at \notin {"link", "kill"}
            /\ th'[Master].at = "clear"
        BY <2>5, <3>2, KillEffect DEF Raising, FinishRaise, MasterServes, Irqs!Idle
      <4>2. QED BY <1>1, <2>1, <2>2, <4>1 DEF IrqReports, Raising, Coming, Walking
    <3>3. QED BY <2>5, <3>1, <3>2 DEF FinishRaise
  <2>6. CASE ~Copy(Master) /\ ~RaiseIrq(Master) /\ ~FinishRaise(Master)
    <3>1. UNCHANGED <<signals, handling, todo, call>>
      BY <1>5, <2>6, NoIrqEffect
    <3>2. Raising' => Raising
      BY <1>5, <2>6, <3>1, MasterEffect DEF Raising
    <3>3. QED BY <1>1, <2>1, <2>2, <3>1, <3>2 DEF IrqReports, Coming, Walking
  <2>7. QED BY <2>3, <2>4, <2>5, <2>6
<1>6. QED BY <1>2, <1>3, <1>4, <1>5, WhoMoves

-----------------------------------------------------------------------------
(* The slave stays until it is told.                                       *)

LEMMA MasterFresh ==
  ASSUME OneMaster, Patient, IInv, MasterServes, MasterCalls
  PROVE  (Fresh' <=> Fresh) /\ (Calm' <=> Calm)
<1>1. th'[Slave].at = "idle" <=> th[Slave].at = "idle"
  BY MasterEffect, SignalEffect, Roles
<1>2. QED BY <1>1, MasterEffect, FreshStays DEF Calm

(* What a slave that listens while it rests has on offer.                  *)
LEMMA RestOffers ==
  ASSUME OneMaster, IInv, CallbackStored, Slave \notin early,
         is_listening[Slave], AtRest(Slave), th[Master].at # "unlisten"
  PROVE  Rests /\ Offered(Slave) /\ current_tx[Slave] = Current
         /\ (Fresh => Posted(Slave))
<1>1. Placed(Slave) /\ Offered(Slave)
  BY Roles DEF IInv, Rest, Sound, ListensToOffer
<1>2. CASE th[Slave].at = "idle"
  <2>1. Posted(Slave) /\ current_tx[Slave] = th[Slave].posted
    BY <1>1, <1>2 DEF Offered, Posted, Posting
  <2>2. QED BY <1>1, <1>2, <2>1 DEF CallbackStored, Rests, Current
<1>3. CASE th[Slave].at = "waiting"
  <2>1. ~Fresh /\ current_tx[Slave] = th[Slave].ip
    BY <1>1, <1>3 DEF Fresh, Placed, Offered
  <2>2. QED BY <1>1, <1>3, <2>1 DEF Rests, Current
<1>4. QED BY <1>2, <1>3 DEF AtRest

(* While the master is about to copy, or to signal, the slave can only     *)
(* make calls that do not post.                                            *)
LEMMA StandsStill ==
  ASSUME OneMaster, IInv, MasterServes, SlaveStays, IrqReports, CallbackStored, Calm,
         th[Master].at \in {"lock", "look", "copy", "unlisten", "signal"},
         SlaveCalls, ~SpuriousWakeup(Slave)
  PROVE  /\ Rests' /\ Current' = Current
         /\ UNCHANGED spi
<1>1. Rests /\ Slave \notin early
  BY DEF SlaveStays
<1>2. CASE Fresh
  <2>1. th[Slave].at = "idle"
    BY <1>1, <1>2 DEF Rests
  <2>2. Posted(Slave)
    <3>1. CASE th[Master].at \in {"lock", "look", "copy"}
      BY <1>1, <1>2, <2>1, <3>1, RestOffers DEF SlaveStays, AtRest
    <3>2. CASE th[Master].at \in {"unlisten", "signal"}
      BY <1>2, <3>2 DEF IrqReports, Coming, Raising
    <3>3. QED BY <3>1, <3>2
  <2>3. Enable(Slave) \/ sync_xfer(Slave) \/ async_xfer(Slave)
    BY <2>1, SlaveEnds, SlaveGoesOn DEF SlaveCalls, SlaveStep
  <2>4. /\ th'[Slave].at = "idle" /\ th'[Slave].posted = th[Slave].posted /\ UNCHANGED spi
        /\ th'[Slave].ip = th[Slave].ip + 1 /\ Plan[Slave][th[Slave].ip] # "sync"
    BY <2>2, <2>3, SlaveBegins
  <2>5. Fresh'
    BY <1>2, <2>4, FreshReturns
  <2>6. QED BY <1>2, <2>4, <2>5 DEF Rests, Current
<1>3. CASE ~Fresh
  <2>1. th[Slave].at = "waiting"
    BY <1>1, <1>3 DEF Rests
  <2>2. QED
    BY <2>1 DEF SlaveCalls, SlaveStep, Enable, sync_xfer, async_xfer, MayStart, Lock, Listen,
       SetCallback, SetContext, Unlock, CondLock, CondWait, Woken, Runs
<1>4. QED BY <1>2, <1>3

LEMMA NotWoken ==
  ASSUME OneMaster, IInv, SlaveCalls, ~SpuriousWakeup(Slave)
  PROVE  th'[Slave].at # "woken"
<1>1. th \in [Dev -> Thread] /\ Slave \in Dev
  BY Roles DEF IInv, Typed
<1>2. CASE Enable(Slave) \/ sync_xfer(Slave) \/ async_xfer(Slave)
  BY <1>2, SlaveBegins
<1>3. CASE Woken(Slave) \/ (Unlock(Slave) /\ th[Slave].kind = "async")
  BY <1>3, SlaveEnds
<1>4. CASE \/ Lock(Slave) \/ Listen(Slave) \/ SetCallback(Slave) \/ SetContext(Slave)
           \/ CondLock(Slave) \/ CondWait(Slave) \/ (Unlock(Slave) /\ th[Slave].kind # "async")
  BY <1>1, <1>4, GotoEffect
     DEF Lock, Listen, SetCallback, SetContext, CondLock, CondWait, Unlock, PCs, Posting, Serving
<1>5. QED BY <1>2, <1>3, <1>4 DEF SlaveCalls, SlaveStep

LEMMA StaysKept ==
  ASSUME OneMaster, CallbacksFirst, Patient, IInv, Irqs!TypeOK, MasterServes, SlaveStays,
         IrqReports, CallbackStored, Next
  PROVE  SlaveStays'
<1>1. th \in [Dev -> Thread] /\ Slave \in Dev /\ Placed(Slave)
  BY Roles DEF IInv, Typed
<1>2. CASE SlaveCalls
  <2>1. SUFFICES ASSUME Calm'
                 PROVE  SlaveStays'
    BY DEF SlaveStays
  <2>2. Calm
    BY <1>2, <2>1, FreshBefore DEF Calm
  <2>3. ~SpuriousWakeup(Slave)
    <3>1. SUFFICES ASSUME SpuriousWakeup(Slave)
                   PROVE  FALSE
      OBVIOUS
    <3>2. Spurious /\ th[Slave].at = "waiting" /\ th[Slave].kind = "sync"
      BY <1>1, <3>1 DEF SpuriousWakeup, Runs, Placed
    <3>3. ~Fresh'
      BY <3>1, <3>2, SlaveGoesOn DEF Fresh
    <3>4. QED BY <2>1, <3>2, <3>3 DEF Calm
  <2>4. UNCHANGED exchanges /\ th'[Master] = th[Master]
    BY <1>2, SlaveEffect
  <2>5. early' = early
    <3>1. CASE Woken(Slave)
      BY <2>2, <3>1 DEF Woken, Tell, SlaveStays, Runs
    <3>2. CASE ~Woken(Slave)
      BY <1>2, <3>2 DEF SlaveCalls, SlaveStep, Enable, sync_xfer, async_xfer, Lock, Listen,
         SetCallback, SetContext, Unlock, CondLock, CondWait, SpuriousWakeup, ghosts
    <3>3. QED BY <3>1, <3>2
  <2>6. th'[Slave].at # "woken"
    BY <1>2, <2>3, NotWoken
  <2>7. CASE th[Master].at \in {"lock", "look", "copy", "unlisten", "signal"}
    <3>1. Rests' /\ Current' = Current /\ UNCHANGED spi
      BY <1>2, <2>2, <2>3, <2>7, StandsStill
    <3>2. QED BY <2>2, <2>4, <2>5, <2>6, <3>1 DEF SlaveStays, Exchanged, spi, buffers
  <2>8. CASE th[Master].at \notin {"lock", "look", "copy", "unlisten", "signal"}
    BY <2>2, <2>4, <2>5, <2>6, <2>8 DEF SlaveStays
  <2>9. QED BY <2>7, <2>8
<1>3. CASE HandlerStep(Slave)
  <2>1. UNCHANGED <<th, exchanges, early, is_listening, current_rx>>
    BY <1>3, HandlerEffect DEF spi, ghosts, buffers
  <2>2. (Fresh' <=> Fresh)
    BY <2>1, FreshStays
  <2>3. QED BY <2>1, <2>2 DEF SlaveStays, Calm, Rests, Current, Exchanged
<1>4. CASE Handle(Slave)
  <2>1. UNCHANGED <<th, exchanges, is_listening, current_rx>>
    BY <1>4, HandleIrq DEF buffers
  <2>2. (Fresh' <=> Fresh)
    BY <2>1, FreshStays
  <2>3. early' = early
    <3>1. CASE slave_callback[Slave] = 0
      BY <1>4, <3>1 DEF Handle, spi_irq_handler
    <3>2. CASE slave_callback[Slave] # 0
      BY <1>4, <3>2, HandlerFinds DEF Handle, spi_irq_handler, Tell
    <3>3. QED BY <3>1, <3>2
  <2>4. QED BY <2>1, <2>2, <2>3 DEF SlaveStays, Calm, Rests, Current, Exchanged
<1>5. CASE MasterCalls
  <2>1. /\ (Fresh' <=> Fresh) /\ (Calm' <=> Calm)
        /\ th'[Slave].posted = th[Slave].posted /\ th'[Slave].ip = th[Slave].ip
        /\ early' = early /\ Current' = Current
        /\ \A id : Exchanged(Slave, id) => Exchanged(Slave, id)'
    BY <1>5, MasterFresh, MasterEffect, StillExchanged DEF Current
  <2>2. CASE Signal(Master)
    <3>0. th[Master].at = "signal"
      BY <2>2 DEF Signal, Runs
    <3>1. /\ th'[Master].at = "raise"
          /\ th'[Slave].at = IF th[Slave].at = "waiting" THEN "woken" ELSE th[Slave].at
      BY <1>1, <1>5, <2>2, <3>0, Roles, SignalEffect, MasterEffect
    <3>2. ASSUME Calm, th'[Slave].at = "woken"
          PROVE  Exchanged(Slave, th[Slave].ip)
      BY <3>0, <3>1, <3>2 DEF SlaveStays, Rests, Current
    <3>3. PICK ip : ip = th[Slave].ip
      OBVIOUS
    <3>4. Calm /\ th'[Slave].at = "woken" => Exchanged(Slave, ip)'
      BY <2>1, <3>2, <3>3
    <3>5. Calm /\ th'[Slave].at = "woken" => Exchanged(Slave, th[Slave].ip)'
      BY <2>1, <3>3, <3>4
    <3>6. QED BY <2>1, <3>0, <3>1, <3>5 DEF SlaveStays
  <2>3. CASE ~Signal(Master)
    <3>1. th'[Slave].at = th[Slave].at /\ (Rests' <=> Rests)
      BY <1>5, <2>1, <2>3, MasterEffect DEF Rests
    <3>2. Calm /\ th'[Slave].at = "woken" => Exchanged(Slave, th[Slave].ip)'
      BY <2>1, <3>1 DEF SlaveStays, Exchanged
    <3>3. CASE th[Master].at = "idle" /\ th'[Master].at = "lock" /\ AtRest(Slave)
      <4>1. is_listening'[Slave] = is_listening[Slave]
        BY <1>5, <3>3 DEF MasterCalls, Enable, sync_xfer, async_xfer, Lock, Look, Copy, Unlisten,
           Signal, RaiseIrq, Clear, FinishRaise, spi, Runs
      <4>2. QED BY <2>1, <3>1, <3>2, <3>3, <4>1, RestOffers DEF SlaveStays, AtRest
    <3>4. CASE (Lock(Master) /\ th'[Master].at = "look") \/ Look(Master)
      <4>1. /\ is_listening' = is_listening /\ th[Master].at \in {"lock", "look"}
            /\ th'[Master].at \in {"look", "copy", "clear"}
        BY <1>5, <3>4, MasterEffect DEF Lock, Look, Runs, spi
      <4>2. QED BY <2>1, <3>1, <3>2, <4>1 DEF SlaveStays
    <3>5. CASE Copy(Master)
      <4>0. th[Master].at = "copy"
        BY <3>5 DEF Copy, Runs
      <4>1. th'[Master].at = "unlisten"
        BY <1>1, <3>5, Roles, GotoEffect DEF Copy, PCs, Serving
      <4>2. current_rx'[Slave] = 0
        BY <3>5, CopyEffect
      <4>3. ASSUME Calm
            PROVE  Rests' /\ Exchanged(Slave, Current)'
        <5>1. Rests /\ is_listening[Slave] /\ Slave \notin early
          BY <4>0, <4>3 DEF SlaveStays
        <5>2. current_tx[Slave] = Current
          BY <4>0, <5>1, RestOffers DEF Rests, AtRest
        <5>3. QED BY <2>1, <3>1, <3>5, <5>1, <5>2, CopyEffect DEF Exchanged
      <4>4. QED BY <2>1, <3>1, <3>2, <4>1, <4>2, <4>3 DEF SlaveStays
    <3>6. CASE Unlisten(Master)
      <4>0. th[Master].at = "unlisten" /\ exchanges' = exchanges
        BY <3>6 DEF Unlisten, Runs, ghosts
      <4>1. th'[Master].at = "signal"
        BY <1>1, <3>6, Roles, GotoEffect DEF Unlisten, PCs, Serving
      <4>2. QED BY <2>1, <3>1, <3>2, <4>0, <4>1 DEF SlaveStays, Exchanged
    <3>7. CASE th'[Master].at \in {"idle", "raise", "clear"}
      BY <2>1, <3>1, <3>2, <3>7 DEF SlaveStays
    <3>8. CASE FinishRaise(Master) /\ th' = th
      <4>1. th[Master].at = "clear"
        BY <3>8 DEF FinishRaise, MasterServes, Irqs!Insert, Irqs!Kill, Irqs!Idle
      <4>2. QED BY <3>7, <3>8, <4>1
    <3>9. QED BY <1>5, <2>3, <3>3, <3>4, <3>5, <3>6, <3>7, <3>8, MasterEffect
  <2>4. QED BY <2>2, <2>3
<1>6. QED BY <1>2, <1>3, <1>4, <1>5, WhoMoves

-----------------------------------------------------------------------------
(* Each of the master's transfers takes place.                             *)

(* Only the master resets the flag it has seen.                            *)
LEMMA FindsKept ==
  ASSUME OneMaster, Patient, IInv, Irqs!TypeOK, MasterServes, MasterFinds, Next
  PROVE  MasterFinds'
<1>1. /\ th \in [Dev -> Thread] /\ is_listening \in [Dev -> BOOLEAN]
      /\ Slave \in Dev /\ Master \in Dev /\ Slave # Master /\ Peer(Master) = Slave
  BY Roles DEF IInv, Typed
<1>2. CASE SlaveCalls
  <2>1. th'[Master] = th[Master]
    BY <1>2, SlaveEffect
  <2>2. missed' = missed /\ (is_listening[Slave] => is_listening'[Slave])
    BY <1>1, <1>2 DEF SlaveCalls, SlaveStep, Enable, sync_xfer, async_xfer, Lock, Listen,
       SetCallback, SetContext, Unlock, CondLock, CondWait, Woken, SpuriousWakeup, spi, ghosts
  <2>3. QED BY <2>1, <2>2 DEF MasterFinds
<1>3. CASE HandlerStep(Slave) \/ Handle(Slave)
  <2>1. UNCHANGED <<th, is_listening, missed>>
    BY <1>3 DEF HandlerStep, Handle, spi, ghosts
  <2>2. QED BY <2>1 DEF MasterFinds
<1>4. CASE Look(Master)
  <2>1. th[Master].at = "look" /\ is_listening' = is_listening
    BY <1>4 DEF Look, Runs, spi
  <2>2. Goto(Master, "copy") /\ Master \notin missed'
    BY <1>1, <1>4, <2>1 DEF Look, looked_at, MasterFinds
  <2>3. th'[Master].at = "copy"
    BY <1>1, <2>2, GotoEffect DEF PCs, Serving
  <2>4. QED BY <2>1, <2>2, <2>3 DEF MasterFinds, Copied
<1>5. CASE Copy(Master)
  <2>1. th[Master].at = "copy" /\ missed' = missed /\ is_listening' = is_listening
    BY <1>5 DEF Copy, Runs
  <2>2. th'[Master].at = "unlisten"
    BY <1>1, <1>5, GotoEffect DEF Copy, PCs, Serving
  <2>3. QED BY <2>1, <2>2 DEF MasterFinds, Copied
<1>6. CASE MasterCalls /\ ~Look(Master) /\ ~Copy(Master)
  <2>1. missed' = missed
    BY <1>6 DEF MasterCalls, Enable, sync_xfer, async_xfer, Lock, Unlisten, Signal, RaiseIrq,
       Clear, FinishRaise, ghosts
  <2>2. CASE Unlisten(Master)
    <3>1. th[Master].at = "unlisten" /\ th'[Master].at = "signal"
      BY <1>1, <2>2, GotoEffect DEF Unlisten, Runs, PCs, Serving
    <3>2. QED BY <2>1, <3>1 DEF MasterFinds, Copied
  <2>3. CASE ~Unlisten(Master)
    <3>1. is_listening' = is_listening
      BY <1>6, <2>3 DEF MasterCalls, Enable, sync_xfer, async_xfer, Lock, Signal, RaiseIrq,
         Clear, FinishRaise, spi
    <3>2. \/ th'[Master].at = th[Master].at
          \/ th'[Master].at = "idle"
          \/ th'[Master].at = "lock" /\ AtRest(Slave)
          \/ th'[Master].at = "look" /\ th[Master].at = "lock"
          \/ th'[Master].at \in Copied /\ th[Master].at \in Copied
      BY <1>6, <2>3, MasterEffect DEF Copied
    <3>3. QED BY <2>1, <3>1, <3>2 DEF MasterFinds, AtRest, Copied
  <2>4. QED BY <2>2, <2>3
<1>7. QED BY <1>2, <1>3, <1>4, <1>5, <1>6, WhoMoves

ExchangedBy(d, id) == \E x \in exchanges : x.dev = d /\ x.id = id

LEMMA MasterHas ==
  ASSUME OneMaster, MasterInv, MasterFinds, th[Master].at = "clear"
  PROVE  ExchangedBy(Master, th[Master].ip)
<1>1. Certain(Master) /\ Master \notin missed
  BY Roles DEF MasterInv, MasterFinds, Copied
<1>2. SizesOf(Master, th[Master].ip) = {th[Master].size}
  BY <1>1 DEF Certain, Copied, Done
<1>3. QED BY <1>2 DEF SizesOf, ExchangedBy

-----------------------------------------------------------------------------
(* Each callback that runs reports an exchange, once.                      *)

LEMMA ReportedStays ==
  ASSUME CallbackReports, UNCHANGED callbacks, exchanges \subseteq exchanges'
  PROVE  CallbackReports'
BY DEF CallbackReports, Exchanged

(* One more callback, of a call that nobody was told of.                   *)
LEMMA ReportsOne ==
  ASSUME Typed, CallbackReports, NEW d \in Dev, NEW id \in Nat, ~Told(d, id),
         callbacks' = Append(callbacks, [dev |-> d, id |-> id, ctx |-> id]),
         UNCHANGED exchanges,
         Exchanged(d, id) \/ ExchangedBy(d, id)
  PROVE  CallbackReports'
<1>1. /\ callbacks \in Seq([dev : Dev, id : Nat, ctx : Nat])
      /\ [dev |-> d, id |-> id, ctx |-> id] \in [dev : Dev, id : Nat, ctx : Nat]
  BY DEF Typed
<1>2. /\ Len(callbacks') = Len(callbacks) + 1
      /\ \A k \in 1 .. Len(callbacks) : callbacks'[k] = callbacks[k]
      /\ callbacks'[Len(callbacks) + 1] = [dev |-> d, id |-> id, ctx |-> id]
      /\ Len(callbacks) \in Nat
      /\ DOMAIN callbacks = 1 .. Len(callbacks) /\ DOMAIN callbacks' = 1 .. Len(callbacks) + 1
  BY <1>1
<1>3. \A k \in DOMAIN callbacks' :
        \/ k \in DOMAIN callbacks /\ callbacks'[k] = callbacks[k]
        \/ k = Len(callbacks) + 1 /\ callbacks'[k] = [dev |-> d, id |-> id, ctx |-> id]
  BY <1>2
<1>4. \A k \in DOMAIN callbacks' :
        LET b == callbacks'[k] IN
        /\ b.ctx = b.id
        /\ \/ Exchanged(b.dev, b.id)
           \/ \E x \in exchanges : x.dev = b.dev /\ x.id = b.id
  BY <1>3 DEF CallbackReports, ExchangedBy
<1>5. \A j, k \in DOMAIN callbacks' :
        callbacks'[j].dev = callbacks'[k].dev /\ callbacks'[j].id = callbacks'[k].id => j = k
  BY <1>3 DEF CallbackReports, Told
<1>6. QED BY <1>4, <1>5 DEF CallbackReports, Exchanged

LEMMA CallbacksKept ==
  ASSUME OneMaster, CallbacksFirst, Patient, IInv, MasterInv, Irqs!TypeOK, MasterServes,
         MasterFinds, IrqReports, CallbackStored, CallbackReports, Next
  PROVE  CallbackReports'
<1>1. Typed /\ Slave \in Dev /\ Master \in Dev
  BY Roles DEF IInv
<1>2. CASE SlaveCalls
  BY <1>2, SlaveEffect, ReportedStays
<1>3. CASE HandlerStep(Slave)
  BY <1>3, HandlerEffect, ReportedStays DEF ghosts
<1>4. CASE Handle(Slave)
  <2>1. UNCHANGED exchanges
    BY <1>4 DEF Handle
  <2>2. CASE slave_callback[Slave] = 0
    BY <1>4, <2>1, <2>2, ReportedStays DEF Handle, spi_irq_handler
  <2>3. CASE slave_callback[Slave] # 0
    <3>1. PICK id \in Nat : id = th[Slave].posted
      BY <1>1 DEF Typed, Thread
    <3>2. /\ slave_callback[Slave] = id /\ slave_callback_ctx[Slave] = id
          /\ ~Told(Slave, id) /\ Exchanged(Slave, id)
      BY <1>4, <2>3, <3>1, HandlerFinds DEF Posted
    <3>3. callbacks' = Append(callbacks, [dev |-> Slave, id |-> id, ctx |-> id])
      BY <1>1, <1>4, <2>3, <3>2, HandleEffect
    <3>4. QED BY <1>1, <2>1, <3>2, <3>3, ReportsOne
  <2>4. QED BY <2>2, <2>3
<1>5. CASE Clear(Master)
  <2>1. UNCHANGED exchanges /\ th[Master].at = "clear"
    BY <1>5 DEF Clear, Runs
  <2>2. CASE UNCHANGED callbacks
    BY <2>1, <2>2, ReportedStays
  <2>3. CASE ~UNCHANGED callbacks
    <3>1. PICK id \in Nat : id = th[Master].ip
      BY <1>1 DEF Typed, Thread
    <3>2. ExchangedBy(Master, id)
      BY <2>1, <3>1, MasterHas
    <3>3. ~Told(Master, id)
      BY <1>1, <2>1, <3>1 DEF IInv, Rest, ToldOfPast, Reached, Told, Posting
    <3>4. callbacks' = Append(callbacks, [dev |-> Master, id |-> id, ctx |-> id])
      BY <1>5, <2>3, <3>1 DEF Clear
    <3>5. QED BY <1>1, <2>1, <3>2, <3>3, <3>4, ReportsOne
  <2>4. QED BY <2>2, <2>3
<1>6. CASE MasterCalls /\ ~Clear(Master)
  <2>1. UNCHANGED callbacks
    BY <1>6 DEF MasterCalls, Enable, sync_xfer, async_xfer, Lock, Look, Copy, Unlisten, Signal,
       RaiseIrq, FinishRaise, ghosts
  <2>2. QED BY <1>6, <2>1, MasterEffect, ReportedStays
<1>7. QED BY <1>2, <1>3, <1>4, <1>5, <1>6, WhoMoves

LEMMA MeetInit == ASSUME OneMaster PROVE Init => MeetInv
<1> SUFFICES ASSUME Init PROVE MeetInv
  OBVIOUS
<1>1. MasterServes
  BY Roles DEF Init, MasterServes, Irqs!Init, Irqs!Idle
<1>2. SlaveStays
  BY Roles DEF Init, SlaveStays
<1>3. IrqReports
  BY Roles DEF Init, IrqReports, Irqs!Init, Irqs!Idle, Coming, Raising, Walking
<1>4. CallbackStored
  BY Roles DEF Init, CallbackStored, Posted, Told
<1>5. CallbackReports
  BY DEF Init, CallbackReports
<1>6. MasterFinds
  BY Roles DEF Init, MasterFinds, Copied
<1>7. QED BY <1>1, <1>2, <1>3, <1>4, <1>5, <1>6 DEF MeetInv

LEMMA MeetInvariant == ASSUME Patient, OneMaster, CallbacksFirst PROVE Spec => []MeetInv
<1>1. Init => MeetInv
  BY MeetInit
<1>2. MeetInv /\ IInv /\ MasterInv /\ Irqs!TypeOK /\ [Next]_vars => MeetInv'
  <2> SUFFICES ASSUME MeetInv, IInv, MasterInv, Irqs!TypeOK, [Next]_vars PROVE MeetInv'
    OBVIOUS
  <2>1. CASE Next
    BY <2>1, MasterServesKept, FindsKept, StaysKept, ReportsKept, StoredKept, CallbacksKept
       DEF MeetInv
  <2>2. CASE UNCHANGED vars
    <3>1. UNCHANGED <<spi, th, ghosts, signals, handling, todo, call, pending_irqs>>
      BY <2>2 DEF vars, irqs
    <3>2. (Fresh' <=> Fresh) /\ StaysPut
      BY <3>1, FreshStays DEF StaysPut, Told, spi, callback, ghosts
    <3>3. MasterServes' /\ MasterFinds'
      BY <3>1 DEF MeetInv, MasterServes, MasterFinds, spi, ghosts
    <3>4. SlaveStays'
      BY <3>1, <3>2 DEF MeetInv, SlaveStays, Calm, Rests, Current, Exchanged, spi, buffers, ghosts
    <3>5. IrqReports'
      BY <3>1, <3>2 DEF MeetInv, IrqReports, Coming, Raising, Walking, Posted, Told, Exchanged, ghosts
    <3>6. CallbackStored' /\ CallbackReports'
      BY <3>1, <3>2, PutStored, ReportedStays DEF MeetInv, ghosts
    <3>7. QED BY <3>3, <3>4, <3>5, <3>6 DEF MeetInv
  <2>3. QED BY <2>1, <2>2
<1>3. QED BY <1>1, <1>2, Invariant, MasterInvariant, IrqTypes, PTL DEF Spec

(* With a patient master, and a slave that posts with a callback only      *)
(* before it waits, every callback that runs, of the slave and of the      *)
(* master, gets its own context, reports an exchange that took place, and  *)
(* runs once: whatever the plans, the sizes and the signal queue, and      *)
(* though pthread_cond_wait may return without a signal.                   *)
THEOREM CallbacksReport ==
  ASSUME Patient, OneMaster, CallbacksFirst
  PROVE  Spec => []CallbackReports
<1>1. MeetInv => CallbackReports
  BY DEF MeetInv
<1>2. QED BY <1>1, MeetInvariant, PTL

(* Without such returns the slave is never told too early, and what its    *)
(* sync_xfer returns is the size of the exchange of its own buffers.       *)
THEOREM SlaveExchanges ==
  ASSUME Patient, OneMaster, CallbacksFirst, ~Spurious
  PROVE  Spec => []SlaveReturnsExchanged
<1>1. MeetInv /\ SlaveReturns => SlaveReturnsExchanged
  BY Roles DEF MeetInv, SlaveStays, Calm, SlaveReturns, SlaveReturnsExchanged
<1>2. QED BY <1>1, MeetInvariant, SlaveReturnsItsOwn, PTL

-----------------------------------------------------------------------------
(* The rendezvous.                                                         *)

OnOffer == IF is_listening[Slave] THEN {current_rx[Slave]} \ {0} ELSE {}

Served == {id \in DOMAIN Plan[Slave] : Exchanged(Slave, id)}

Known == {id \in DOMAIN Plan[Slave] :
            Told(Slave, id) \/ (Plan[Slave][id] = "sync" /\ th[Slave].ip > id)}

(* Each step of the rendezvous, as these sets change.                      *)
LEMMA MeetingStutters ==
  ASSUME UNCHANGED <<OnOffer, Served, Known>>
  PROVE  UNCHANGED Meeting!vars
BY DEF Meeting!vars, OnOffer, Served, Known

LEMMA MeetingOffers ==
  ASSUME NEW t \in DOMAIN Plan[Slave], OnOffer = {}, t \notin Served, OnOffer' = {t},
         UNCHANGED <<Served, Known>>
  PROVE  Meeting!Next
<1>1. Meeting!Offer(t)
  BY DEF Meeting!Offer, OnOffer, Served, Known
<1>2. QED BY <1>1 DEF Meeting!Next

LEMMA MeetingExchanges ==
  ASSUME NEW t \in DOMAIN Plan[Slave], t \in OnOffer, OnOffer' = {}, Served' = Served \cup {t},
         UNCHANGED Known
  PROVE  Meeting!Next
<1>1. Meeting!Exchange(t)
  BY DEF Meeting!Exchange, OnOffer, Served, Known
<1>2. QED BY <1>1 DEF Meeting!Next

LEMMA MeetingTells ==
  ASSUME NEW t \in DOMAIN Plan[Slave], t \in Served \ Known, Known' = Known \cup {t},
         UNCHANGED <<OnOffer, Served>>
  PROVE  Meeting!Next
<1>1. Meeting!Tell(t)
  BY DEF Meeting!Tell, OnOffer, Served, Known
<1>2. QED BY <1>1 DEF Meeting!Next

LEMMA KnownKept ==
  ASSUME th'[Slave].ip = th[Slave].ip, \A id : Told(Slave, id)' <=> Told(Slave, id)
  PROVE  UNCHANGED Known
BY DEF Known

(* A call that returns is known when it is one that waits.                 *)
LEMMA KnownAfter ==
  ASSUME OneMaster, IInv, th'[Slave].ip = th[Slave].ip + 1,
         \A id : Told(Slave, id)' <=> Told(Slave, id)
  PROVE  Known' = Known \cup {id \in DOMAIN Plan[Slave] :
                                id = th[Slave].ip /\ Plan[Slave][id] = "sync"}
<1>1. th[Slave].ip \in Nat /\ \A id \in DOMAIN Plan[Slave] : id \in Nat
  <2>1. th[Slave] \in Thread
    BY Roles DEF IInv, Typed
  <2>2. \A id \in DOMAIN Plan[Slave] : id \in Nat
    BY Roles, PlanAssumption
  <2>3. QED BY <2>1, <2>2 DEF Thread
<1>2. \A id \in DOMAIN Plan[Slave] : th'[Slave].ip > id <=> th[Slave].ip > id \/ id = th[Slave].ip
  BY <1>1
<1>3. QED BY <1>2 DEF Known

(* The slave does not listen while it gets ready to.                       *)
LEMMA DeafBefore ==
  ASSUME OneMaster, IInv, SlaveStays, ~Spurious, th[Slave].at \in {"lock", "listen"}
  PROVE  ~is_listening[Slave]
<1>1. Slave \notin early /\ th[Master].at # "unlisten"
  BY DEF SlaveStays, Calm, Rests
<1>2. is_listening[Slave] => Offered(Slave)
  BY <1>1, Roles DEF IInv, Rest, Sound, ListensToOffer
<1>3. ~Offered(Slave)
  BY DEF Offered, Posting
<1>4. QED BY <1>2, <1>3

LEMMA SlaveMeets ==
  ASSUME OneMaster, IInv, MeetInv, ~Spurious, SlaveCalls
  PROVE  Meeting!Next \/ UNCHANGED Meeting!vars
<1>1. /\ th \in [Dev -> Thread] /\ Placed(Slave) /\ Slave \in Dev
      /\ SlaveStays /\ CallbackStored
      /\ th[Slave].ip \in Nat
  BY Roles DEF IInv, Typed, MeetInv, Thread
<1>2. UNCHANGED <<exchanges, callbacks>> /\ UNCHANGED Served
  BY SlaveEffect DEF Served, Exchanged
<1>3. \A id : Told(Slave, id)' <=> Told(Slave, id)
  BY <1>2 DEF Told
<1>4. CASE Enable(Slave) \/ sync_xfer(Slave) \/ async_xfer(Slave)
  <2>1. UNCHANGED OnOffer
    BY <1>4, SlaveBegins DEF OnOffer, spi, buffers
  <2>2. UNCHANGED Known
    BY <1>3, <1>4, SlaveBegins, KnownKept, KnownAfter
  <2>3. QED BY <1>2, <2>1, <2>2, MeetingStutters
<1>5. CASE Lock(Slave)
  <2>1. UNCHANGED OnOffer
    BY <1>1, <1>5, DeafBefore DEF Lock, Runs, OnOffer
  <2>2. UNCHANGED Known
    BY <1>3, <1>5, SlaveGoesOn, KnownKept
  <2>3. QED BY <1>2, <2>1, <2>2, MeetingStutters
<1>6. CASE Listen(Slave)
  <2>1. th[Slave].at = "listen" /\ ~is_listening[Slave] /\ Slave \notin early
    BY <1>1, <1>6, DeafBefore DEF Listen, Runs, SlaveStays, Calm
  <2>2. current_rx[Slave] = th[Slave].ip /\ ~Exchanged(Slave, th[Slave].ip)
    BY <1>1, <2>1 DEF IInv, Rest, Sound, Listening, ExchangedPast, Exchanged, Reached, Posting
  <2>3. th[Slave].ip \in DOMAIN Plan[Slave] /\ th[Slave].ip # 0
    BY <1>1, <2>1, PlanAssumption DEF Placed
  <2>4. is_listening'[Slave] /\ current_rx'[Slave] = current_rx[Slave]
    BY <1>1, <1>6 DEF Listen, buffers, IInv, Typed
  <2>5. OnOffer = {} /\ OnOffer' = {th[Slave].ip}
    BY <2>1, <2>2, <2>3, <2>4 DEF OnOffer
  <2>6. UNCHANGED Known
    BY <1>3, <1>6, SlaveGoesOn, KnownKept
  <2>7. QED BY <1>2, <2>2, <2>3, <2>5, <2>6, MeetingOffers DEF Served
<1>7. CASE \/ SetCallback(Slave) \/ SetContext(Slave) \/ CondLock(Slave) \/ CondWait(Slave)
           \/ (Unlock(Slave) /\ th[Slave].kind # "async")
  <2>1. UNCHANGED OnOffer
    BY <1>7 DEF SetCallback, SetContext, CondLock, CondWait, Unlock, OnOffer, buffers
  <2>2. UNCHANGED Known
    BY <1>3, <1>7, SlaveGoesOn, KnownKept
  <2>3. QED BY <1>2, <2>1, <2>2, MeetingStutters
<1>8. CASE Unlock(Slave) /\ th[Slave].kind = "async"
  <2>1. th'[Slave].ip = th[Slave].ip + 1 /\ UNCHANGED OnOffer
    BY <1>8, SlaveEnds DEF OnOffer, buffers
  <2>2. Plan[Slave][th[Slave].ip] = "async"
    BY <1>1, <1>8 DEF Unlock, Runs, Placed
  <2>3. UNCHANGED Known
    BY <1>3, <2>1, <2>2, KnownAfter
  <2>4. QED BY <1>2, <2>1, <2>3, MeetingStutters
<1>9. CASE Woken(Slave)
  <2>1. th'[Slave].ip = th[Slave].ip + 1 /\ UNCHANGED OnOffer
    BY <1>9, SlaveEnds DEF OnOffer, buffers
  <2>2. th[Slave].at = "woken" /\ Exchanged(Slave, th[Slave].ip) /\ ~Told(Slave, th[Slave].ip)
    BY <1>1, <1>9 DEF Woken, Runs, SlaveStays, Calm, CallbackStored
  <2>3. th[Slave].ip \in DOMAIN Plan[Slave] /\ Plan[Slave][th[Slave].ip] = "sync"
    BY <1>1, <2>2, PlanAssumption DEF Placed
  <2>4. Known' = Known \cup {th[Slave].ip}
    BY <1>3, <2>1, <2>3, KnownAfter
  <2>5. th[Slave].ip \in Served \ Known
    BY <1>1, <2>2, <2>3 DEF Served, Known
  <2>6. QED BY <1>2, <2>1, <2>3, <2>4, <2>5, MeetingTells
<1>10. CASE SpuriousWakeup(Slave)
  BY <1>10 DEF SpuriousWakeup
<1>11. QED BY <1>4, <1>5, <1>6, <1>7, <1>8, <1>9, <1>10 DEF SlaveCalls, SlaveStep

LEMMA MasterMeets ==
  ASSUME OneMaster, Patient, IInv, MeetInv, ~Spurious, MasterCalls
  PROVE  Meeting!Next \/ UNCHANGED Meeting!vars
<1>1. /\ MasterServes /\ SlaveStays /\ CallbackStored
      /\ Slave \in Dev /\ Slave \notin early
  BY Roles DEF MeetInv, SlaveStays, Calm
<1>2. UNCHANGED Known
  BY <1>1, MasterEffect, KnownKept
<1>3. CASE Copy(Master)
  <2>1. th[Master].at = "copy"
    BY <1>3 DEF Copy, Runs
  <2>2. Offered(Slave) /\ is_listening[Slave]
    BY <1>1, <1>3, <2>1, Roles, CopyTakesOffer DEF IInv, SlaveStays, Calm
  <2>3. /\ current_rx[Slave] # 0 /\ current_tx[Slave] = current_rx[Slave]
        /\ current_rx[Slave] \in DOMAIN Plan[Slave]
    BY <1>1, <2>2, PlanAssumption DEF Offered, IInv, Typed, Rest, Named
  <2>4. current_rx[Slave] \in OnOffer /\ OnOffer' = {}
    BY <1>3, <2>2, <2>3, CopyEffect DEF OnOffer
  <2>5. Served' = Served \cup {current_rx[Slave]}
    BY <1>3, <2>3, CopyEffect DEF Served
  <2>6. QED BY <1>2, <2>3, <2>4, <2>5, MeetingExchanges
<1>4. CASE Unlisten(Master)
  <2>1. /\ current_rx[Slave] = 0 /\ current_rx'[Slave] = 0
        /\ UNCHANGED exchanges
    BY <1>1, <1>4 DEF Unlisten, Runs, SlaveStays, Calm, ghosts, buffers
  <2>2. OnOffer = {} /\ OnOffer' = {}
    BY <2>1 DEF OnOffer
  <2>3. QED BY <1>2, <2>1, <2>2, MeetingStutters DEF Served, Exchanged
<1>5. CASE MasterCalls /\ ~Copy(Master) /\ ~Unlisten(Master)
  <2>1. /\ current_rx'[Slave] = current_rx[Slave] /\ is_listening'[Slave] = is_listening[Slave]
        /\ UNCHANGED exchanges
    BY <1>5, Roles
       DEF IInv, Typed, MasterCalls, Enable, sync_xfer, async_xfer, Lock, Look, Signal, RaiseIrq,
           Clear, FinishRaise, spi, buffers, ghosts
  <2>2. QED BY <1>2, <2>1, MeetingStutters DEF OnOffer, Served, Exchanged
<1>6. QED BY <1>3, <1>4, <1>5

LEMMA HandlerMeets ==
  ASSUME OneMaster, CallbacksFirst, IInv, MeetInv, Irqs!TypeOK,
         HandlerStep(Slave) \/ Handle(Slave)
  PROVE  Meeting!Next \/ UNCHANGED Meeting!vars
<1>1. UNCHANGED <<th, buffers, is_listening, exchanges>>
  BY HandlerEffect, HandleIrq DEF MeetInv, spi, ghosts
<1>2. UNCHANGED <<OnOffer, Served>>
  BY <1>1 DEF OnOffer, Served, Exchanged, buffers
<1>3. CASE UNCHANGED callbacks
  BY <1>1, <1>2, <1>3, KnownKept, MeetingStutters DEF Told
<1>4. CASE Handle(Slave) /\ slave_callback[Slave] # 0
  <2>1. Typed /\ Slave \in Dev
    BY Roles DEF IInv
  <2>2. PICK id \in Nat : id = th[Slave].posted
    BY <2>1 DEF Typed, Thread
  <2>3. /\ slave_callback[Slave] = id /\ slave_callback_ctx[Slave] = id
        /\ ~Told(Slave, id) /\ Exchanged(Slave, id) /\ id # 0
    BY <1>4, <2>2, HandlerFinds DEF Posted, MeetInv
  <2>4. id \in DOMAIN Plan[Slave] /\ Plan[Slave][id] = "async"
    BY <2>2, <2>3 DEF MeetInv, CallbackStored
  <2>5. callbacks' = Append(callbacks, [dev |-> Slave, id |-> id, ctx |-> id])
    BY <1>4, <2>1, <2>3, HandleEffect
  <2>6. \A i : Told(Slave, i)' <=> Told(Slave, i) \/ i = id
    BY <2>1, <2>5, ToldAfter
  <2>7. Known' = Known \cup {id}
    BY <1>1, <2>4, <2>6 DEF Known
  <2>8. id \in Served \ Known
    BY <2>3, <2>4 DEF Served, Known
  <2>9. QED BY <1>2, <2>4, <2>7, <2>8, MeetingTells
<1>5. QED BY <1>3, <1>4, HandlerEffect DEF MeetInv, ghosts, Handle, spi_irq_handler

(* With a patient master, a slave that posts with a callback only before   *)
(* it waits, and no wakeup without a signal, the locks, the flag, the      *)
(* condition and the irq implement the rendezvous: an exchange takes the   *)
(* transfer on offer as a whole and at once, and the slave is told of it   *)
(* once, afterwards.                                                       *)
THEOREM LinkIsRendezvous ==
  ASSUME Patient, OneMaster, CallbacksFirst, ~Spurious
  PROVE  Spec => Meeting!Spec
<1>1. Init => Meeting!Init
  <2> SUFFICES ASSUME Init PROVE Meeting!Init
    OBVIOUS
  <2>1. OnOffer = {} /\ Served = {}
    BY Roles DEF Init, OnOffer, Served, Exchanged
  <2>2. Known = {}
    <3>1. \A id \in DOMAIN Plan[Slave] : id \in Nat /\ id >= 1
      BY Roles, PlanAssumption
    <3>2. th[Slave].ip = 1 /\ \A id : ~Told(Slave, id)
      BY Roles DEF Init, Told
    <3>3. QED BY <3>1, <3>2 DEF Known
  <2>3. QED BY <2>1, <2>2 DEF Meeting!Init, OnOffer, Served, Known
<1>2. IInv /\ MeetInv /\ Irqs!TypeOK /\ [Next]_vars => [Meeting!Next]_Meeting!vars
  <2> SUFFICES ASSUME IInv, MeetInv, Irqs!TypeOK, [Next]_vars
               PROVE  Meeting!Next \/ UNCHANGED Meeting!vars
    OBVIOUS
  <2>1. CASE Next
    BY <2>1, WhoMoves, SlaveMeets, MasterMeets, HandlerMeets DEF MeetInv
  <2>2. CASE UNCHANGED vars
    BY <2>2, MeetingStutters
       DEF vars, spi, buffers, ghosts, OnOffer, Served, Known, Exchanged, Told
  <2>3. QED BY <2>1, <2>2
<1>3. QED BY <1>1, <1>2, Invariant, MeetInvariant, IrqTypes, PTL DEF Spec, Meeting!Spec
=============================================================================
