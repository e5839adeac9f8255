------------------------------ MODULE SpiLink ------------------------------
(***************************************************************************)
(* Two connected SPI devices (SpiDevice.cpp) and the interrupts between    *)
(* their processing units (module IrqController).                          *)
(*                                                                         *)
(* Each device is driven by the thread of its unit, which makes the calls  *)
(* of its Plan, and by the signal handler that interrupts this thread.  A  *)
(* slave posts its buffers and listens; the master's call finds it         *)
(* listening, copies both ways, wakes it and raises its irq.               *)
(*                                                                         *)
(* A buffer is named by the call it was given to, the index of the call in *)
(* the plan of its device; 0 is a null pointer.  A device posts again only *)
(* when it was told that its last posting is over.                         *)
(***************************************************************************)
EXTENDS Integers, Sequences

CONSTANTS
  Dev,        \* the two devices; each stands for its irq, controller and thread
  IsMaster,   \* is_master
  Plan,       \* the calls of the thread: "enable", "disable", "sync", "async"
  Sizes,      \* sizes of transfers
  Patient,    \* the master starts a transfer only when the slave has come to rest
  Spurious,   \* pthread_cond_wait may return without a signal
  SigMax,     \* of IrqController
  Crowded

ASSUME DevAssumption == \E d, e \in Dev : d # e /\ Dev = {d, e}
ASSUME PlanAssumption ==
  /\ IsMaster \in [Dev -> BOOLEAN]
  /\ Plan \in [Dev -> Seq({"enable", "disable", "sync", "async"})]
  /\ Sizes \subseteq Nat
ASSUME TimingAssumption == Patient \in BOOLEAN /\ Spurious \in BOOLEAN
ASSUME QueueAssumption == SigMax \in Nat \ {0} /\ Crowded \in BOOLEAN

VARIABLES
  lock,              \* the mutex of a device is locked
  cond_mutex,        \* likewise
  current_rx,        \* the calls whose buffers are posted
  current_tx,
  current_xfer_size,
  is_listening,
  slave_callback,    \* the call that gave the callback, and its context
  slave_callback_ctx,
  th,                \* the thread of a device
  exchanges,         \* ghost: the copies that took place
  callbacks,         \* ghost: the callbacks that ran
  early,             \* ghost: devices told that a posting is over before it was
  missed,            \* ghost: devices that found nobody listening when they last looked
  returned           \* ghost: the result of the last call of a device

VARIABLES pending_irqs, is_enabled, allirqs_enabled, signals, handling, todo,
          call, owed, credit, clash, refused

mutexes   == <<lock, cond_mutex>>
buffers   == <<current_rx, current_tx, current_xfer_size>>
callback  == <<slave_callback, slave_callback_ctx>>
spi       == <<mutexes, buffers, is_listening, callback>>

irqs == <<pending_irqs, is_enabled, allirqs_enabled, signals, handling, todo,
          call, owed, credit, clash, refused>>

ghosts == <<exchanges, callbacks, early, missed, returned>>

vars == <<spi, th, ghosts, irqs>>

Peer(d) == CHOOSE e \in Dev : e # d

(* One irq per device, on the controller of its unit; the other unit's     *)
(* thread raises it.                                                       *)
Irqs == INSTANCE IrqController WITH
         Ctl <- Dev, Irq <- Dev, Maskable <- Dev, Ctx <- Dev,
         Home <- [d \in Dev |-> d], Dest <- [d \in Dev |-> Peer(d)],
         Reach <- [d \in Dev |-> {Peer(d)}], CreditMax <- 0

EINVAL == -22

(* No function of the C API reads the uninitialised allirqs_enabled.       *)
Init ==
  /\ lock = [d \in Dev |-> FALSE]
  /\ cond_mutex = [d \in Dev |-> FALSE]
  /\ current_rx = [d \in Dev |-> 0]
  /\ current_tx = [d \in Dev |-> 0]
  /\ current_xfer_size = [d \in Dev |-> 0]
  /\ is_listening = [d \in Dev |-> FALSE]
  /\ slave_callback = [d \in Dev |-> 0]
  /\ slave_callback_ctx = [d \in Dev |-> 0]
  /\ th = [d \in Dev |-> [at |-> "idle", ip |-> 1, kind |-> "sync", size |-> 0, posted |-> 0]]
  /\ exchanges = {}
  /\ callbacks = <<>>
  /\ early = {}
  /\ missed = {}
  /\ returned = [d \in Dev |-> 0]
  /\ Irqs!Init
  /\ allirqs_enabled = [d \in Dev |-> FALSE]

-----------------------------------------------------------------------------
(* Steps of a thread.  The signal handler runs on the same thread, so that *)
(* nothing else happens on it meanwhile.                                   *)

Runs(d, pc) == th[d].at = pc /\ ~handling[d] /\ call[d] = Irqs!Idle

Goto(d, pc) == th' = [th EXCEPT ![d].at = pc]

Op(d) == IF th[d].ip <= Len(Plan[d]) THEN Plan[d][th[d].ip] ELSE "none"

(* posted: the last call of async_xfer that was not refused, or 0          *)
Return(d, value) ==
  /\ th' = [th EXCEPT ![d].at = "idle", ![d].ip = @ + 1,
                      ![d].posted = IF Op(d) = "async" /\ value # EINVAL THEN th[d].ip ELSE @]
  /\ returned' = [returned EXCEPT ![d] = value]

Exchanged(s, id) == \E x \in exchanges : x.dev = Peer(s) /\ x.from = id

(* Device d learns that the posting of call id is over.                    *)
Tell(d, id) == early' = IF Exchanged(d, id) THEN early ELSE early \cup {d}

(* A callback tells a device that its posting is over.                     *)
Told(d, id) == \E k \in DOMAIN callbacks : callbacks[k].dev = d /\ callbacks[k].id = id

Posted(d) == th[d].posted # 0 /\ ~Told(d, th[d].posted)

AtRest(d) == th[d].at \in {"idle", "waiting"} /\ is_listening[d]

MayStart(d) ==
  /\ Runs(d, "idle")
  /\ ~Posted(d)
  /\ IsMaster[d] /\ Patient => AtRest(Peer(d))

Begin(d, kind, pc) ==
  \E size \in Sizes :
    th' = [th EXCEPT ![d] = [@ EXCEPT !.at = pc, !.kind = kind, !.size = size]]

Enable(d) ==
  /\ Runs(d, "idle")
  /\ Op(d) \in {"enable", "disable"}
  /\ IF Op(d) = "enable" THEN Irqs!enableIrq(d) ELSE Irqs!disableIrq(d)
  /\ Return(d, 0)
  /\ UNCHANGED <<spi, exchanges, callbacks, early, missed>>

sync_xfer(d) ==
  /\ MayStart(d)
  /\ Op(d) = "sync"
  /\ Begin(d, "sync", "lock")
  /\ UNCHANGED <<spi, ghosts, irqs>>

(* With its irq disabled the device refuses; a master that finds the other *)
(* device listening transfers at once; any other caller posts.             *)
async_xfer(d) ==
  /\ Op(d) = "async"
  /\ \/ /\ Runs(d, "idle")
        /\ ~is_enabled[d]
        /\ Return(d, EINVAL)
     \/ /\ MayStart(d)
        /\ is_enabled[d]
        /\ IF IsMaster[d] /\ is_listening[Peer(d)]
           THEN Begin(d, "now", "lock")
           ELSE Begin(d, "async", "lock")
        /\ UNCHANGED returned
  /\ UNCHANGED <<spi, exchanges, callbacks, early, missed, irqs>>

(* The lock taken is the other device's.                                   *)
Lock(d) ==
  /\ Runs(d, "lock")
  /\ ~lock[Peer(d)]
  /\ lock' = [lock EXCEPT ![Peer(d)] = TRUE]
  /\ current_rx' = [current_rx EXCEPT ![d] = th[d].ip]
  /\ current_tx' = [current_tx EXCEPT ![d] = th[d].ip]
  /\ IF IsMaster[d] /\ th[d].kind # "async"
     THEN Goto(d, "look") /\ UNCHANGED current_xfer_size
     ELSE /\ Goto(d, "listen")
          /\ current_xfer_size' = [current_xfer_size EXCEPT ![d] = th[d].size]
  /\ UNCHANGED <<callback, cond_mutex, is_listening, ghosts, irqs>>

-----------------------------------------------------------------------------
(* The master.                                                             *)

(* Faulty variant: the master looks at its own flag.                       *)
looked_at_own(d) == d

looked_at(d) == Peer(d)

(* Only a slave that listens is served.                                    *)
Look(d) ==
  /\ Runs(d, "look")
  /\ Goto(d, IF is_listening[looked_at(d)] THEN "copy" ELSE "clear")
  /\ missed' = IF is_listening[Peer(d)] THEN missed \ {d} ELSE missed \cup {d}
  /\ UNCHANGED <<spi, exchanges, callbacks, early, returned, irqs>>

Smaller(m, n) == IF m < n THEN m ELSE n

(* Faulty variant: the slave is not told how much was copied.              *)
tell_size_not(s, n) == UNCHANGED current_xfer_size

tell_size(s, n) == current_xfer_size' = [current_xfer_size EXCEPT ![s] = n]

(* xmit_locked on the slave: what each side is given is the buffer the     *)
(* other one posted, of the smaller of the two sizes.                      *)
Copy(d) ==
  LET s == Peer(d)
      n == Smaller(th[d].size, current_xfer_size[s])
  IN /\ Runs(d, "copy")
     /\ exchanges' = exchanges \cup
          {[dev |-> d, id |-> th[d].ip, from |-> current_tx[s], to |-> current_rx[s],
            n |-> n, size |-> th[d].size]}
     /\ current_rx' = [current_rx EXCEPT ![s] = 0]
     /\ current_tx' = [current_tx EXCEPT ![s] = 0]
     /\ tell_size(s, n)
     /\ Goto(d, "unlisten")
     /\ UNCHANGED <<callback, mutexes, is_listening, callbacks, early, missed, returned, irqs>>

(* Faulty variant: the slave goes on listening.                            *)
UnlistenNot(d) ==
  /\ Runs(d, "unlisten")
  /\ Goto(d, "signal")
  /\ UNCHANGED <<spi, ghosts, irqs>>

(* From here on the slave may be told, and its buffers are its own.        *)
Unlisten(d) ==
  /\ Runs(d, "unlisten")
  /\ is_listening' = [is_listening EXCEPT ![Peer(d)] = FALSE]
  /\ Goto(d, "signal")
  /\ UNCHANGED <<callback, buffers, mutexes, ghosts, irqs>>

(* pthread_cond_signal: nobody remembers it when the slave is not waiting. *)
Signal(d) ==
  /\ Runs(d, "signal")
  /\ th' = [th EXCEPT ![d].at = "raise",
                      ![Peer(d)].at = IF @ = "waiting" THEN "woken" ELSE @]
  /\ UNCHANGED <<spi, ghosts, irqs>>

(* Faulty variant: the enable bit looked at is that of the master's irq.   *)
enabled_own(d) == is_enabled[d] /\ is_enabled[Peer(d)]

enabled(d) == is_enabled[Peer(d)]

(* local_raise does nothing when the slave's irq is disabled.              *)
RaiseIrq(d) ==
  /\ Runs(d, "raise")
  /\ IF enabled(d) THEN Irqs!local_raise(d, Peer(d)) ELSE UNCHANGED irqs
  /\ Goto(d, "clear")
  /\ UNCHANGED <<spi, ghosts>>

(* Faulty variant: the lock is kept.                                       *)
unlock_not(d) == UNCHANGED lock

unlock(d) == lock' = [lock EXCEPT ![Peer(d)] = FALSE]

(* The caller is told the size it asked for, whatever was copied.  When it *)
(* came through async_xfer its callback is called.                         *)
Clear(d) ==
  /\ Runs(d, "clear")
  /\ current_rx' = [current_rx EXCEPT ![d] = 0]
  /\ current_tx' = [current_tx EXCEPT ![d] = 0]
  /\ unlock(d)
  /\ callbacks' = IF th[d].kind = "now" /\ th[d].size > 0
                  THEN Append(callbacks, [dev |-> d, id |-> th[d].ip, ctx |-> th[d].ip])
                  ELSE callbacks
  /\ Return(d, th[d].size)
  /\ UNCHANGED <<callback, cond_mutex, current_xfer_size, is_listening, exchanges, early, missed,
                 irqs>>

-----------------------------------------------------------------------------
(* The slave.                                                              *)

Listen(d) ==
  /\ Runs(d, "listen")
  /\ is_listening' = [is_listening EXCEPT ![d] = TRUE]
  /\ Goto(d, IF th[d].kind = "async" THEN "callback" ELSE "unlock")
  /\ UNCHANGED <<callback, buffers, mutexes, ghosts, irqs>>

SetCallback(d) ==
  /\ Runs(d, "callback")
  /\ slave_callback' = [slave_callback EXCEPT ![d] = th[d].ip]
  /\ Goto(d, "ctx")
  /\ UNCHANGED <<buffers, mutexes, is_listening, slave_callback_ctx, ghosts, irqs>>

(* Faulty variant: the context of another call is kept.                    *)
SetNextContext(d) ==
  /\ Runs(d, "ctx")
  /\ slave_callback_ctx' = [slave_callback_ctx EXCEPT ![d] = th[d].ip + 2]
  /\ Goto(d, "unlock")
  /\ UNCHANGED <<buffers, mutexes, is_listening, slave_callback, ghosts, irqs>>

(* The context is set after the callback.                                  *)
SetContext(d) ==
  /\ Runs(d, "ctx")
  /\ slave_callback_ctx' = [slave_callback_ctx EXCEPT ![d] = th[d].ip]
  /\ Goto(d, "unlock")
  /\ UNCHANGED <<buffers, mutexes, is_listening, slave_callback, ghosts, irqs>>

Unlock(d) ==
  /\ Runs(d, "unlock")
  /\ unlock(d)
  /\ IF th[d].kind = "async"
     THEN Return(d, 0)
     ELSE Goto(d, "cond_lock") /\ UNCHANGED returned
  /\ UNCHANGED <<callback, buffers, cond_mutex, is_listening, exchanges, callbacks, early, missed,
                 irqs>>

(* wait_xfer_done: pthread_cond_wait releases cond_mutex, takes it again,  *)
(* and nothing unlocks it.                                                 *)
CondLock(d) ==
  /\ Runs(d, "cond_lock")
  /\ ~cond_mutex[d]
  /\ cond_mutex' = [cond_mutex EXCEPT ![d] = TRUE]
  /\ Goto(d, "cond_wait")
  /\ UNCHANGED <<callback, buffers, lock, is_listening, ghosts, irqs>>

CondWait(d) ==
  /\ Runs(d, "cond_wait")
  /\ cond_mutex' = [cond_mutex EXCEPT ![d] = FALSE]
  /\ Goto(d, "waiting")
  /\ UNCHANGED <<callback, buffers, lock, is_listening, ghosts, irqs>>

SpuriousWakeup(d) ==
  /\ Spurious
  /\ Runs(d, "waiting")
  /\ th' = [th EXCEPT ![d].at = "woken"]
  /\ UNCHANGED <<spi, ghosts, irqs>>

Woken(d) ==
  /\ Runs(d, "woken")
  /\ cond_mutex' = [cond_mutex EXCEPT ![d] = TRUE]
  /\ Return(d, current_xfer_size[d])
  /\ Tell(d, th[d].ip)
  /\ UNCHANGED <<callback, buffers, lock, is_listening, exchanges, callbacks, missed, irqs>>

-----------------------------------------------------------------------------
(* Interrupts.                                                             *)

(* Faulty variant: the context is cleared before it is read.               *)
spi_irq_handler_cleared(d) ==
  IF slave_callback[d] # 0
  THEN /\ slave_callback' = [slave_callback EXCEPT ![d] = 0]
       /\ slave_callback_ctx' = [slave_callback_ctx EXCEPT ![d] = 0]
       /\ callbacks' = Append(callbacks, [dev |-> d, id |-> slave_callback[d], ctx |-> 0])
       /\ Tell(d, slave_callback[d])
  ELSE UNCHANGED <<callback, callbacks, early>>

(* spi_irq_handler: the callback is forgotten before it is called.         *)
spi_irq_handler(d) ==
  IF slave_callback[d] # 0
  THEN /\ slave_callback' = [slave_callback EXCEPT ![d] = 0]
       /\ slave_callback_ctx' = [slave_callback_ctx EXCEPT ![d] = 0]
       /\ callbacks' = Append(callbacks, [dev |-> d, id |-> slave_callback[d],
                                          ctx |-> slave_callback_ctx[d]])
       /\ Tell(d, slave_callback[d])
  ELSE UNCHANGED <<callback, callbacks, early>>

Handle(d) ==
  /\ Irqs!handle(d, d)
  /\ spi_irq_handler(d)
  /\ UNCHANGED <<buffers, mutexes, is_listening, th, exchanges, missed, returned>>

(* The rest of local_raise, on the thread of d                             *)
FinishRaise(d) ==
  /\ ~handling[d]
  /\ Irqs!Insert(d) \/ Irqs!Kill(d)
  /\ UNCHANGED <<spi, th, ghosts>>

HandlerStep(d) ==
  /\ Irqs!signal_handler(d) \/ Irqs!HandlerReturn(d)
  /\ UNCHANGED <<spi, th, ghosts>>

-----------------------------------------------------------------------------
MasterStep(d) ==
  IsMaster[d] /\ (Look(d) \/ Copy(d) \/ Unlisten(d) \/ Signal(d) \/ RaiseIrq(d) \/ Clear(d))

SlaveStep(d) ==
  \/ Listen(d) \/ SetCallback(d) \/ SetContext(d) \/ Unlock(d)
  \/ CondLock(d) \/ CondWait(d) \/ Woken(d)

ThreadStep(d) ==
  \/ Enable(d) \/ sync_xfer(d) \/ async_xfer(d) \/ Lock(d)
  \/ MasterStep(d) \/ SlaveStep(d) \/ FinishRaise(d)

Next == \E d \in Dev :
  ThreadStep(d) \/ SpuriousWakeup(d) \/ HandlerStep(d) \/ Handle(d)

Spec == Init /\ [][Next]_vars

(* Threads that can run do, and queued signals are delivered.              *)
Fairness == \A d \in Dev : WF_vars(ThreadStep(d)) /\ WF_vars(HandlerStep(d) \/ Handle(d))

FairSpec == Spec /\ Fairness

-----------------------------------------------------------------------------
(* Properties.                                                             *)

TypeOK ==
  /\ lock \in [Dev -> BOOLEAN]
  /\ cond_mutex \in [Dev -> BOOLEAN]
  /\ \A d \in Dev : LET Calls == 0 .. Len(Plan[d]) IN
       /\ {current_rx[d], current_tx[d], slave_callback[d], slave_callback_ctx[d]} \subseteq Calls
       /\ current_xfer_size[d] \in Sizes \cup {0}
       /\ th[d].ip \in 1 .. Len(Plan[d]) + 1
       /\ returned[d] \in Sizes \cup {0, EINVAL}
  /\ is_listening \in [Dev -> BOOLEAN]
  /\ early \cup missed \subseteq Dev
  /\ Irqs!TypeOK

(* The last call of d, which has returned, was this one.                   *)
JustDid(d, op) ==
  th[d].at = "idle" /\ th[d].ip > 1 /\ Plan[d][th[d].ip - 1] = op

(* What the master copies is one posting of the slave: the transmit and    *)
(* the receive buffer belong to the same call, neither is null, and a      *)
(* posting is served by one call of the master only, although the two      *)
(* threads do not hold the same lock.  A slave that was told too early,    *)
(* and may post again while the master is copying, is the only exception.  *)
ExchangesPair ==
  \A x \in exchanges :
    Peer(x.dev) \notin early =>
      /\ x.from = x.to
      /\ x.from # 0
      /\ x.n <= x.size
      /\ \A y \in exchanges : x.dev = y.dev /\ x.from = y.from => x = y

(* The master only copies from and into the buffers of a call whose caller *)
(* still has to leave them alone: it has not returned, or it is a posting  *)
(* whose callback has not run, with the same exception.                    *)
CopyIsInTime ==
  [][\A d \in Dev : Copy(d) =>
       LET s == Peer(d) IN
       \/ s \in early
       \/ current_rx[s] = th[s].ip
       \/ current_rx[s] = th[s].posted /\ Posted(s)]_vars

HasWaited(d) == \E id \in 1 .. th[d].ip - 1 : Plan[d][id] = "sync" /\ ~IsMaster[d]

(* A call goes on until it returns, or waits for the exchange, whatever    *)
(* the other device does.  Only the second wait of a slave is stuck, in    *)
(* the mutex its first one left locked.                                    *)
CallsReturn ==
  \A d \in Dev :
    th[d].at \notin {"idle", "waiting"} ~>
      \/ th[d].at \in {"idle", "waiting"}
      \/ th[d].at = "cond_lock" /\ HasWaited(d)

(* A callback runs once, with its own context, and after the exchange it   *)
(* reports.                                                                *)
CallbackReports ==
  \A k \in DOMAIN callbacks :
    LET b == callbacks[k] IN
    /\ b.ctx = b.id
    /\ \/ Exchanged(b.dev, b.id)
       \/ \E x \in exchanges : x.dev = b.dev /\ x.id = b.id
    /\ \A j \in DOMAIN callbacks :
         callbacks[j].dev = b.dev /\ callbacks[j].id = b.id => j = k

(* The size a slave's sync_xfer returns is that of the exchange of its own *)
(* buffers, and there was one.                                             *)
ReturnedExchanged(d) ==
  JustDid(d, "sync") =>
    \E x \in exchanges :
      x.dev = Peer(d) /\ x.from = th[d].ip - 1 /\ x.n = returned[d]

SlaveReturnsExchanged == \A d \in Dev : ~IsMaster[d] => ReturnedExchanged(d)

(* What the master's sync_xfer did is decided when it looks at the slave's *)
(* flag: it exchanged the size it returns if the slave was listening then, *)
(* whatever the slave does meanwhile, and nothing if it was not.  The size *)
(* is returned in either case: after "assert(rc == XFER_SIZE)" only the    *)
(* delays of the test justify to look for the slave's data                 *)
(* (test_spi.c:109-111).                                                   *)
MasterReturnsExchanged ==
  \A d \in Dev :
    IsMaster[d] /\ JustDid(d, "sync") =>
      {x.size : x \in {y \in exchanges : y.dev = d /\ y.id = th[d].ip - 1}}
        = IF d \in missed THEN {} ELSE {returned[d]}

(* A slave whose buffers were exchanged learns it: its sync_xfer returns,  *)
(* or its callback runs.                                                   *)
PostingsComplete ==
  \A d \in Dev : \A id \in DOMAIN Plan[d] :
    Exchanged(d, id) ~> /\ th[d].ip > id
                        /\ Plan[d][id] = "async" => Told(d, id)

(* The irqs of two connected devices are latching lines, and what is owed  *)
(* to them is served, but for refused signals: each has one device that    *)
(* raises it.                                                              *)
LinesServe == Irqs!Line!LiveSpec

Slave == CHOOSE d \in Dev : ~IsMaster[d]

(* The slave's calls as transfers on offer: its posting, from the flag on, *)
(* until the master copies.                                                *)
Meeting == INSTANCE Rendezvous WITH
             Transfer <- DOMAIN Plan[Slave],
             offer <- IF is_listening[Slave] THEN {current_rx[Slave]} \ {0} ELSE {},
             served <- {id \in DOMAIN Plan[Slave] : Exchanged(Slave, id)},
             told <- {id \in DOMAIN Plan[Slave] :
                        \/ Told(Slave, id)
                        \/ Plan[Slave][id] = "sync" /\ th[Slave].ip > id}

(* The locks, the flag, the condition and the irq together make each       *)
(* exchange one step that takes what the slave posted, of which it is told *)
(* once, later, and certainly.                                             *)
ImplementsRendezvous == Meeting!LiveSpec
=============================================================================
