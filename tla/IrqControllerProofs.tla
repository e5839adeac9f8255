------------------------ MODULE IrqControllerProofs ------------------------
(* What module IrqController promises for any number of controllers, irqs  *)
(* and contexts, and any limit of queued signals.                          *)
EXTENDS IrqController, TLAPS

USE IrqAssumption, CtlAssumption, SigMaxAssumption, CreditMaxAssumption

LEMMA CallShape ==
  ASSUME NEW k \in Calls
  PROVE  /\ k.at \in {"idle", "link", "kill"}
         /\ k.at = "idle" => k = Idle
         /\ k.at \in {"link", "kill"} => k.ctl \in Ctl
         /\ k.at = "link" => /\ k.irq \in Irq
                             /\ k.since \in SUBSET Irq
                             /\ k = [at |-> "link", ctl |-> k.ctl, irq |-> k.irq,
                                     since |-> k.since]
BY DEF Calls, Idle

-----------------------------------------------------------------------------
(* Each action keeps the types.                                            *)

LEMMA InsertTypeOK ==
  ASSUME TypeOK, NEW x \in Ctx, Insert(x)
  PROVE  TypeOK'
<1> DEFINE c == call[x].ctl
           i == call[x].irq
           since == call[x].since
<1>1. call[x] \in Calls /\ call[x].at = "link"
  BY DEF TypeOK, Insert
<1>2. c \in Ctl /\ i \in Irq /\ since \in SUBSET Irq
  BY <1>1, CallShape
<1>3. call' \in [Ctx -> Calls]
  <2>1. [at |-> "kill", ctl |-> c] \in Calls
    BY <1>2 DEF Calls
  <2>2. CASE call' = [call EXCEPT ![x] = [at |-> "kill", ctl |-> c]]
    BY <2>1, <2>2 DEF TypeOK
  <2>3. CASE call' = [y \in Ctx |->
                        IF y = x THEN [at |-> "kill", ctl |-> c]
                        ELSE IF Linking(y, c)
                             THEN AlsoSees(call[y], i)
                             ELSE call[y]]
    <3>1. ASSUME NEW y \in Ctx, Linking(y, c)
          PROVE  AlsoSees(call[y], i) \in Calls
      <4>1. call[y] \in Calls /\ call[y].at = "link"
        BY <3>1 DEF TypeOK, Linking
      <4>2. QED BY <4>1, <1>2, CallShape DEF Calls, AlsoSees
    <3>2. QED BY <2>1, <2>3, <3>1 DEF TypeOK
  <2>4. QED BY <2>2, <2>3 DEF Insert
<1>4. pending_irqs' \in [Ctl -> SUBSET Irq] /\ todo' \in [Ctl -> SUBSET Irq]
  <2>1. CASE UNCHANGED <<pending_irqs, todo>>
    BY <2>1 DEF TypeOK
  <2>2. CASE \E dropped \in SUBSET (since \ {i}) :
               pending_irqs' = [pending_irqs EXCEPT ![c] = (@ \ dropped) \cup {i}]
    <3>1. pending_irqs' \in [Ctl -> SUBSET Irq]
      BY <2>2, <1>2 DEF TypeOK
    <3>2. CASE UNCHANGED todo
      BY <3>1, <3>2 DEF TypeOK
    <3>3. CASE \E rest \in SUBSET (pending_irqs[c] \cup {i}) :
                 todo' = [todo EXCEPT ![c] = rest]
      BY <3>1, <3>3, <1>2 DEF TypeOK
    <3>4. QED BY <2>2, <3>2, <3>3 DEF Insert
  <2>3. QED BY <2>1, <2>2 DEF Insert
<1>5. owed' \in [Ctl -> SUBSET Irq] /\ clash' \in SUBSET Ctl
  BY <1>2 DEF TypeOK, Insert
<1>6. credit' \in [Ctl -> [Irq -> 0 .. CreditMax]]
  BY <1>2 DEF TypeOK, Insert
<1>7. QED BY <1>3, <1>4, <1>5, <1>6 DEF TypeOK, Insert

LEMMA RaiseTypeOK ==
  ASSUME TypeOK, NEW x \in Ctx, NEW c, NEW i \in Irq, Raise(x, c, i)
  PROVE  TypeOK'
<1>1. c \in Ctl
  BY DEF Raise
<1>2. [at |-> "link", ctl |-> c, irq |-> i, since |-> {}] \in Calls
  BY <1>1 DEF Calls
<1>3. QED BY <1>2 DEF TypeOK, Raise

(* What a signal does to its target d: it is accepted, or refused while    *)
(* one is queued, or refused while none is.                                *)
LEMMA KillEffect ==
  ASSUME TypeOK, NEW x \in Ctx, Kill(x)
  PROVE  \E d \in Ctl :
           /\ call[x].at = "kill" /\ call[x].ctl = d
           /\ call'[x] = Idle /\ \A y \in Ctx \ {x} : call'[y] = call[y]
           /\ UNCHANGED <<pending_irqs, is_enabled, allirqs_enabled, handling, todo, owed, credit,
                          clash>>
           /\ signals' \in [Ctl -> 0 .. SigMax] /\ refused' \subseteq Ctl
           /\ \A c \in Ctl \ {d} : signals'[c] = signals[c] /\ (c \in refused' <=> c \in refused)
           /\ \/ signals'[d] > 0 /\ d \notin refused'
              \/ signals'[d] > 0 /\ (d \in refused' <=> d \in refused)
              \/ signals'[d] = signals[d] /\ d \in refused'
<1>1. PICK d \in Ctl : d = call[x].ctl
  BY CallShape DEF TypeOK, Kill
<1>2. /\ call[x].at = "kill"
      /\ call'[x] = Idle /\ \A y \in Ctx \ {x} : call'[y] = call[y]
      /\ UNCHANGED <<pending_irqs, is_enabled, allirqs_enabled, handling, todo, owed, credit, clash>>
  BY DEF TypeOK, Kill
<1>3. signals \in [Ctl -> 0 .. SigMax] /\ refused \subseteq Ctl
  BY DEF TypeOK
<1>4. CASE Queue(d)
  <2>1. /\ signals[d] < SigMax
        /\ signals' = [signals EXCEPT ![d] = @ + 1]
        /\ refused' = refused \ {d}
    BY <1>4 DEF Queue, Room
  <2>2. signals'[d] = signals[d] + 1 /\ signals[d] \in 0 .. SigMax
    BY <1>3, <2>1
  <2>3. signals' \in [Ctl -> 0 .. SigMax] /\ signals'[d] > 0
    BY <1>3, <2>1, <2>2
  <2>4. \A c \in Ctl \ {d} : signals'[c] = signals[c] /\ (c \in refused' <=> c \in refused)
    BY <1>3, <2>1
  <2>5. QED BY <1>1, <1>2, <1>3, <2>1, <2>3, <2>4
<1>5. CASE Refuse(d)
  <2>1. signals' = signals /\ refused' = IF signals[d] = 0 THEN refused \cup {d} ELSE refused
    BY <1>5 DEF Refuse
  <2>2. signals[d] \in 0 .. SigMax
    BY <1>3
  <2>3. \/ signals'[d] > 0 /\ refused' = refused
        \/ signals'[d] = signals[d] /\ refused' = refused \cup {d}
    BY <2>1, <2>2
  <2>4. QED BY <1>1, <1>2, <1>3, <2>1, <2>3
<1>6. QED BY <1>1, <1>4, <1>5 DEF Kill, pthread_kill

LEMMA KillTypeOK ==
  ASSUME TypeOK, NEW x \in Ctx, Kill(x)
  PROVE  TypeOK'
<1>1. Idle \in Calls
  BY DEF Calls
<1>2. call' = [call EXCEPT ![x] = Idle]
  BY DEF Kill
<1>3. call' \in [Ctx -> Calls]
  BY <1>1, <1>2 DEF TypeOK
<1>4. QED BY <1>3, KillEffect DEF TypeOK

LEMMA HandlerTypeOK ==
  ASSUME TypeOK, NEW c \in Ctl,
         \/ signal_handler(c)
         \/ HandlerReturn(c)
         \/ \E i \in Irq : handle(c, i)
  PROVE  TypeOK'
<1>1. CASE signal_handler(c)
  BY <1>1 DEF TypeOK, signal_handler
<1>2. CASE HandlerReturn(c)
  BY <1>2 DEF TypeOK, HandlerReturn
<1>3. ASSUME NEW i \in Irq, handle(c, i)
      PROVE  TypeOK'
  BY <1>3 DEF TypeOK, handle
<1>4. QED BY <1>1, <1>2, <1>3

LEMMA MaskTypeOK ==
  ASSUME TypeOK,
         \/ \E i \in Irq : enableIrq(i) \/ disableIrq(i)
         \/ \E c \in Ctl : disableIrqs(c)
         \/ \E x \in Ctx, c \in Ctl : enableIrqs(x, c)
  PROVE  TypeOK'
<1>1. ASSUME NEW i \in Irq, enableIrq(i) \/ disableIrq(i)
      PROVE  TypeOK'
  BY <1>1 DEF TypeOK, enableIrq, disableIrq, SetEnabled
<1>2. ASSUME NEW c \in Ctl, disableIrqs(c)
      PROVE  TypeOK'
  BY <1>2 DEF TypeOK, disableIrqs
<1>3. ASSUME NEW x \in Ctx, NEW c \in Ctl, enableIrqs(x, c)
      PROVE  TypeOK'
  <2>1. [at |-> "kill", ctl |-> c] \in Calls
    BY DEF Calls
  <2>2. QED BY <1>3, <2>1 DEF TypeOK, enableIrqs
<1>4. QED BY <1>1, <1>2, <1>3

(* Every reachable state of the interrupt controllers is well typed: in    *)
(* particular no thread has more signals queued than the kernel allows.    *)
THEOREM TypeCorrect == Spec => []TypeOK
<1>1. Init => TypeOK
  BY DEF Init, TypeOK, Calls
<1>2. TypeOK /\ [Next]_vars => TypeOK'
  <2> SUFFICES ASSUME TypeOK, [Next]_vars PROVE TypeOK'
    OBVIOUS
  <2>1. ASSUME NEW x \in Ctx, NEW i \in Irq, local_raise(x, i) \/ dest_raise(x, i)
        PROVE  TypeOK'
    BY <2>1, RaiseTypeOK DEF local_raise, dest_raise
  <2>2. ASSUME NEW x \in Ctx, Insert(x) \/ Kill(x)
        PROVE  TypeOK'
    BY <2>2, InsertTypeOK, KillTypeOK
  <2>3. CASE \E c \in Ctl : \/ signal_handler(c) \/ HandlerReturn(c)
                            \/ \E i \in Irq : handle(c, i)
    BY <2>3, HandlerTypeOK
  <2>4. CASE \/ \E i \in Irq : enableIrq(i) \/ disableIrq(i)
             \/ \E c \in Ctl : disableIrqs(c)
             \/ \E x \in Ctx, c \in Ctl : enableIrqs(x, c)
    BY <2>4, MaskTypeOK
  <2>5. CASE UNCHANGED vars
    BY <2>5 DEF TypeOK, vars
  <2>6. QED BY <2>1, <2>2, <2>3, <2>4, <2>5 DEF Next
<1>3. QED BY <1>1, <1>2, PTL DEF Spec

-----------------------------------------------------------------------------
(* No interrupt is lost.  NoLostInterrupt is inductive as it stands; the   *)
(* lemmas say of one controller what every action leaves of the promise    *)
(* that an owed irq will be handled, or waits for an accepted signal.      *)

LEMMA KillingKept ==
  ASSUME NEW c \in Ctl, Killing(c), NEW x \in Ctx, call[x].at # "kill",
         \A y \in Ctx \ {x} : call[y].at = "kill" => call'[y] = call[y]
  PROVE  Killing(c)'
<1>1. PICK y \in Ctx : call[y].at = "kill" /\ call[y].ctl = c
  BY DEF Killing
<1>2. call'[y] = call[y]
  BY <1>1
<1>3. QED BY <1>1, <1>2 DEF Killing

LEMMA InsertNoLost ==
  ASSUME TypeOK, NoLostInterrupt, NEW x \in Ctx, Insert(x)
  PROVE  NoLostInterrupt'
<1> DEFINE d == call[x].ctl
           j == call[x].irq
<1>1. call[x] \in Calls /\ call[x].at = "link"
  BY DEF TypeOK, Insert
<1>2. d \in Ctl /\ j \in Irq
  BY <1>1, CallShape
<1>3. call'[x] = [at |-> "kill", ctl |-> d]
  BY <1>1 DEF TypeOK, Insert
<1>4. \A y \in Ctx \ {x} : call[y].at = "kill" => call'[y] = call[y]
  BY DEF TypeOK, Insert, Linking
<1>5. SUFFICES ASSUME NEW c \in Ctl \ clash', NEW i \in owed'[c]
               PROVE  WillHandle(c, i)' \/ WaitsForSignal(c, i)'
  BY DEF NoLostInterrupt, WillHandle, WaitsForSignal
<1>6. c \notin clash
  BY DEF Insert
<1>7. CASE c = d
  <2>1. Killing(c)'
    BY <1>3, <1>7 DEF Killing
  <2>2. call[x].since = {}
    BY <1>2, <1>7 DEF Insert
  <2>3. pending_irqs'[c] = pending_irqs[c] \cup {j}
    <3>1. CASE j \in pending_irqs[d] /\ UNCHANGED pending_irqs
      BY <3>1, <1>7
    <3>2. CASE \E dropped \in SUBSET ({} \ {j}) :
                 pending_irqs' = [pending_irqs EXCEPT ![d] = (@ \ dropped) \cup {j}]
      BY <3>2, <1>2, <1>7 DEF TypeOK
    <3>3. QED BY <2>2, <3>1, <3>2 DEF Insert
  <2>4. owed'[c] = owed[c] \cup {j}
    BY <1>2, <1>7 DEF TypeOK, Insert
  <2>5. i \in pending_irqs'[c]
    BY <1>6, <2>3, <2>4 DEF NoLostInterrupt, WillHandle, WaitsForSignal
  <2>6. QED BY <2>1, <2>5 DEF WillHandle
<1>8. CASE c # d
  <2>1. /\ owed'[c] = owed[c]
        /\ pending_irqs'[c] = pending_irqs[c]
        /\ signals'[c] = signals[c] /\ handling'[c] = handling[c]
        /\ todo'[c] = todo[c] /\ refused' = refused
    <3>1. /\ owed'[c] = owed[c] /\ signals' = signals /\ handling' = handling
          /\ refused' = refused
      BY <1>2, <1>8 DEF TypeOK, Insert
    <3>2. pending_irqs'[c] = pending_irqs[c]
      BY <1>2, <1>8 DEF TypeOK, Insert
    <3>3. todo'[c] = todo[c]
      BY <1>2, <1>8 DEF TypeOK, Insert
    <3>4. QED BY <3>1, <3>2, <3>3
  <2>2. WillHandle(c, i) \/ WaitsForSignal(c, i)
    BY <1>6, <2>1 DEF NoLostInterrupt
  <2>3. Killing(c) => Killing(c)'
    BY <1>1, <1>4, KillingKept
  <2>4. QED BY <2>1, <2>2, <2>3 DEF WillHandle, WaitsForSignal
<1>9. QED BY <1>7, <1>8

(* Steps of a context that leave the pending sets and the walks alone and  *)
(* start from a context that is not about to signal.                       *)
LEMMA CallNoLost ==
  ASSUME TypeOK, NoLostInterrupt, NEW x \in Ctx, call[x] = Idle,
         \A y \in Ctx \ {x} : call'[y] = call[y],
         UNCHANGED <<pending_irqs, signals, handling, todo, owed, clash, refused>>
  PROVE  NoLostInterrupt'
<1>1. ASSUME NEW c \in Ctl, Killing(c)
      PROVE  Killing(c)'
  BY <1>1, KillingKept DEF Idle
<1>2. QED BY <1>1 DEF NoLostInterrupt, WillHandle, WaitsForSignal

LEMMA KillNoLost ==
  ASSUME TypeOK, NoLostInterrupt, NEW x \in Ctx, Kill(x)
  PROVE  NoLostInterrupt'
<1>1. PICK d \in Ctl :
        /\ call[x].ctl = d /\ \A y \in Ctx \ {x} : call'[y] = call[y]
        /\ UNCHANGED <<pending_irqs, handling, todo, owed, clash>>
        /\ \A c \in Ctl \ {d} : signals'[c] = signals[c] /\ (c \in refused' <=> c \in refused)
        /\ signals'[d] > 0 \/ d \in refused'
  BY KillEffect
<1>2. SUFFICES ASSUME NEW c \in Ctl \ clash, NEW i \in owed[c],
                      WillHandle(c, i) \/ WaitsForSignal(c, i)
               PROVE  WillHandle(c, i)' \/ WaitsForSignal(c, i)'
  BY <1>1 DEF NoLostInterrupt
<1>3. i \in pending_irqs'[c]
  BY <1>1, <1>2 DEF WillHandle, WaitsForSignal
<1>4. CASE c = d
  BY <1>1, <1>3, <1>4 DEF WillHandle, WaitsForSignal
<1>5. CASE c # d
  <2>1. ASSUME Killing(c)
        PROVE  Killing(c)'
    <3>1. PICK y \in Ctx : call[y].at = "kill" /\ call[y].ctl = c
      BY <2>1 DEF Killing
    <3>2. call'[y] = call[y]
      BY <1>1, <1>5, <3>1
    <3>3. QED BY <3>1, <3>2 DEF Killing
  <2>2. QED BY <1>1, <1>2, <1>3, <1>5, <2>1 DEF WillHandle, WaitsForSignal
<1>6. QED BY <1>4, <1>5

LEMMA HandlerNoLost ==
  ASSUME TypeOK, NoLostInterrupt, NEW d \in Ctl,
         \/ signal_handler(d)
         \/ HandlerReturn(d)
         \/ \E i \in Irq : handle(d, i)
  PROVE  NoLostInterrupt'
<1>1. UNCHANGED <<pending_irqs, call, clash, refused>>
  BY DEF signal_handler, HandlerReturn, handle
<1>2. \A c \in Ctl : Killing(c)' <=> Killing(c)
  BY <1>1 DEF Killing
<1>3. CASE signal_handler(d)
  <2>1. handling'[d] /\ todo'[d] = pending_irqs[d] /\ owed' = owed
    BY <1>3 DEF TypeOK, signal_handler
  <2>2. \A c \in Ctl \ {d} : /\ signals'[c] = signals[c]
                              /\ handling'[c] = handling[c]
                              /\ todo'[c] = todo[c]
    BY <1>3 DEF TypeOK, signal_handler
  <2>3. QED BY <1>1, <1>2, <2>1, <2>2 DEF NoLostInterrupt, WillHandle, WaitsForSignal
<1>4. CASE HandlerReturn(d)
  <2>1. todo[d] = {} /\ UNCHANGED <<signals, todo, owed>>
    BY <1>4 DEF HandlerReturn
  <2>2. \A c \in Ctl \ {d} : handling'[c] = handling[c]
    BY <1>4 DEF TypeOK, HandlerReturn
  <2>3. QED BY <1>1, <1>2, <2>1, <2>2 DEF NoLostInterrupt, WillHandle, WaitsForSignal
<1>5. ASSUME NEW j \in Irq, handle(d, j)
      PROVE  NoLostInterrupt'
  <2>1. UNCHANGED <<signals, handling>>
    BY <1>5 DEF handle
  <2>2. owed'[d] = owed[d] \ {j} /\ todo'[d] = todo[d] \ {j}
    BY <1>5 DEF TypeOK, handle
  <2>3. \A c \in Ctl \ {d} : owed'[c] = owed[c] /\ todo'[c] = todo[c]
    BY <1>5 DEF TypeOK, handle
  <2>4. QED BY <1>1, <1>2, <2>1, <2>2, <2>3 DEF NoLostInterrupt, WillHandle, WaitsForSignal
<1>6. QED BY <1>3, <1>4, <1>5

LEMMA NextNoLost ==
  ASSUME TypeOK, NoLostInterrupt, [Next]_vars
  PROVE  NoLostInterrupt'
<1>1. ASSUME NEW x \in Ctx, NEW c, NEW i \in Irq, Raise(x, c, i)
      PROVE  NoLostInterrupt'
  BY <1>1, CallNoLost DEF TypeOK, Raise
<1>2. ASSUME NEW x \in Ctx, NEW i \in Irq, local_raise(x, i) \/ dest_raise(x, i)
      PROVE  NoLostInterrupt'
  BY <1>1, <1>2 DEF local_raise, dest_raise
<1>3. ASSUME NEW x \in Ctx, Insert(x) \/ Kill(x)
      PROVE  NoLostInterrupt'
  BY <1>3, InsertNoLost, KillNoLost
<1>4. ASSUME NEW c \in Ctl, \/ signal_handler(c) \/ HandlerReturn(c)
                            \/ \E i \in Irq : handle(c, i)
      PROVE  NoLostInterrupt'
  BY <1>4, HandlerNoLost
<1>5. ASSUME NEW x \in Ctx, NEW c \in Ctl, enableIrqs(x, c)
      PROVE  NoLostInterrupt'
  <2>1. \A y \in Ctx \ {x} : call'[y] = call[y]
    BY <1>5 DEF TypeOK, enableIrqs
  <2>2. QED BY <1>5, <2>1, CallNoLost DEF enableIrqs
<1>6. CASE \/ \E i \in Irq : enableIrq(i) \/ disableIrq(i)
           \/ \E c \in Ctl : disableIrqs(c)
           \/ UNCHANGED vars
  <2>1. UNCHANGED <<pending_irqs, signals, handling, todo, call, owed, clash, refused>>
    BY <1>6 DEF enableIrq, disableIrq, SetEnabled, disableIrqs, vars
  <2>2. QED BY <2>1 DEF NoLostInterrupt, WillHandle, WaitsForSignal, Killing
<1>7. QED BY <1>2, <1>3, <1>4, <1>5, <1>6 DEF Next

(* For any number of controllers, irqs, contexts and queued signals: an    *)
(* irq that was raised and not handled since is in the pending set, and    *)
(* the walk that will reach it is running, signalled or about to be, on    *)
(* every controller where no two insertions overlapped, unless the kernel  *)
(* refused its last signal when it had none queued.                        *)
THEOREM NoInterruptLost == Spec => []NoLostInterrupt
<1>1. Init => NoLostInterrupt
  BY DEF Init, NoLostInterrupt
<1>2. TypeOK /\ NoLostInterrupt /\ [Next]_vars => NoLostInterrupt'
  BY NextNoLost
<1>3. QED BY <1>1, <1>2, TypeCorrect, PTL DEF Spec

-----------------------------------------------------------------------------
(* Where a controller has one raiser, no two insertions overlap.           *)

NoOverlap ==
  /\ \A c \in clash : ~ SoleRaiser(c)
  /\ \A x \in Ctx : call[x].at = "link" =>
       /\ call[x].ctl \in Reach[x]
       /\ SoleRaiser(call[x].ctl) => call[x].since = {}

LEMMA InsertNoOverlap ==
  ASSUME TypeOK, NoOverlap, NEW x \in Ctx, Insert(x)
  PROVE  NoOverlap'
<1> DEFINE c == call[x].ctl
<1>1. c \in Reach[x] /\ (SoleRaiser(c) => call[x].since = {})
  BY DEF NoOverlap, Insert
<1>2. \A d \in clash' : ~ SoleRaiser(d)
  BY <1>1 DEF NoOverlap, Insert
<1>3. ASSUME NEW y \in Ctx
      PROVE  \/ call'[y] = call[y]
             \/ call'[y].at = "kill"
             \/ /\ Linking(y, c) /\ y # x
                /\ call'[y].ctl = c
  <2>1. CASE y = x
    BY <2>1 DEF TypeOK, Insert
  <2>2. CASE y # x
    BY <2>2 DEF TypeOK, Insert, AlsoSees, Linking
  <2>3. QED BY <2>1, <2>2
<1>4. ASSUME NEW y \in Ctx, call'[y].at = "link"
      PROVE  /\ call'[y].ctl \in Reach[y]
             /\ SoleRaiser(call'[y].ctl) => call'[y].since = {}
  <2>1. CASE call'[y] = call[y]
    BY <1>4, <2>1 DEF NoOverlap
  <2>2. CASE Linking(y, c) /\ y # x /\ call'[y].ctl = c
    <3>1. c \in Reach[y]
      BY <2>2 DEF NoOverlap, Linking
    <3>2. ~ SoleRaiser(c)
      BY <1>1, <2>2, <3>1 DEF SoleRaiser
    <3>3. QED BY <2>2, <3>1, <3>2
  <2>3. QED BY <1>3, <1>4, <2>1, <2>2
<1>5. QED BY <1>2, <1>4 DEF NoOverlap, SoleRaiser

LEMMA NoOverlapKept ==
  ASSUME NoOverlap, clash' = clash,
         \A y \in Ctx : call'[y].at = "link" =>
            \/ call'[y] = call[y]
            \/ call'[y].ctl \in Reach[y] /\ call'[y].since = {}
  PROVE  NoOverlap'
<1>1. ASSUME NEW y \in Ctx, call'[y].at = "link"
      PROVE  /\ call'[y].ctl \in Reach[y]
             /\ SoleRaiser(call'[y].ctl) => call'[y].since = {}
  BY <1>1 DEF NoOverlap
<1>2. QED BY <1>1 DEF NoOverlap, SoleRaiser

LEMMA NextNoOverlap ==
  ASSUME TypeOK, NoOverlap, [Next]_vars
  PROVE  NoOverlap'
<1>1. ASSUME NEW x \in Ctx, NEW i \in Irq, local_raise(x, i) \/ dest_raise(x, i)
      PROVE  NoOverlap'
  <2>1. clash' = clash
    BY <1>1 DEF local_raise, dest_raise, Raise
  <2>2. ASSUME NEW y \in Ctx, call'[y].at = "link"
        PROVE  \/ call'[y] = call[y]
               \/ call'[y].ctl \in Reach[y] /\ call'[y].since = {}
    BY <1>1, <2>2 DEF TypeOK, local_raise, dest_raise, Raise
  <2>3. QED BY <2>1, <2>2, NoOverlapKept
<1>2. ASSUME NEW x \in Ctx, Kill(x)
      PROVE  NoOverlap'
  <2>1. clash' = clash
    BY <1>2 DEF Kill
  <2>2. \A y \in Ctx : call'[y].at = "link" => call'[y] = call[y]
    BY <1>2 DEF TypeOK, Kill, Idle
  <2>3. QED BY <2>1, <2>2, NoOverlapKept
<1>3. ASSUME NEW x \in Ctx, NEW c \in Ctl, enableIrqs(x, c)
      PROVE  NoOverlap'
  <2>1. clash' = clash
    BY <1>3 DEF enableIrqs
  <2>2. \A y \in Ctx : call'[y].at = "link" => call'[y] = call[y]
    BY <1>3 DEF TypeOK, enableIrqs
  <2>3. QED BY <2>1, <2>2, NoOverlapKept
<1>4. CASE \/ \E c \in Ctl : \/ signal_handler(c) \/ HandlerReturn(c)
                             \/ \E i \in Irq : handle(c, i)
           \/ \E i \in Irq : enableIrq(i) \/ disableIrq(i)
           \/ \E c \in Ctl : disableIrqs(c)
           \/ UNCHANGED vars
  <2>1. UNCHANGED <<call, clash>>
    BY <1>4 DEF signal_handler, HandlerReturn, handle, enableIrq, disableIrq,
                SetEnabled, disableIrqs, vars
  <2>2. QED BY <2>1, NoOverlapKept
<1>5. QED BY <1>1, <1>2, <1>3, <1>4, InsertNoOverlap DEF Next

(* On every controller that at most one context raises irqs on, no raise   *)
(* is ever without a walk that will reach it, whatever happens on the      *)
(* other controllers: only a refused signal makes it wait, in the set, for *)
(* the next one.                                                           *)
THEOREM SoleRaiserSafe == Spec => []SoleRaiserLosesNothing
<1>1. Init => NoOverlap
  BY DEF Init, NoOverlap, Idle
<1>2. TypeOK /\ NoOverlap /\ [Next]_vars => NoOverlap'
  BY NextNoOverlap
<1>3. NoOverlap /\ NoLostInterrupt => SoleRaiserLosesNothing
  BY DEF NoOverlap, NoLostInterrupt, SoleRaiserLosesNothing
<1>4. QED BY <1>1, <1>2, <1>3, TypeCorrect, NoInterruptLost, PTL DEF Spec

-----------------------------------------------------------------------------
(* A controller with one raiser implements the interrupt lines of module   *)
(* InterruptLine.  Every step concerns one controller d; the first lemma   *)
(* says which changes of d's lines are a step there, or a stutter.         *)

Due(c) == {i \in Irq : WillHandle(c, i)}

SameRefused(c) == c \in refused' <=> c \in refused

SameSet(c) == pending_irqs'[c] = pending_irqs[c] /\ owed'[c] = owed[c]

Same(c) == SameRefused(c) /\ SameSet(c) /\ Due(c)' = Due(c)

Strobed(c) == SameRefused(c) /\ SameSet(c) /\ Due(c)' = pending_irqs[c]

Accepted(c) ==
  c \notin refused' /\ SameSet(c) /\ Due(c) = pending_irqs[c] /\ Due(c)' = Due(c)

Refused(c) == c \in refused' /\ SameSet(c) /\ Due(c)' \subseteq Due(c)

Raised(c, i) ==
  /\ SameRefused(c)
  /\ pending_irqs'[c] = pending_irqs[c] \cup {i}
  /\ owed'[c] = owed[c] \cup {i}
  /\ Due(c)' = pending_irqs[c] \cup {i}

Served(c, i) ==
  /\ SameRefused(c)
  /\ pending_irqs'[c] = pending_irqs[c]
  /\ i \in Due(c)
  /\ owed'[c] = owed[c] \ {i}
  /\ Due(c)' \in {Due(c), Due(c) \ {i}}

LEMMA LineState ==
  /\ Sole \subseteq Ctl
  /\ [c \in Sole |-> pending_irqs[c]]' = [c \in Sole |-> pending_irqs'[c]]
  /\ [c \in Sole |-> owed[c]]' = [c \in Sole |-> owed'[c]]
  /\ [c \in Sole |-> Due(c)]' = [c \in Sole |-> Due(c)']
  /\ (refused \cap Sole)' = refused' \cap Sole
BY DEF Sole, SoleRaiser

LEMMA LineStutter ==
  ASSUME \A c \in Sole : Same(c)
  PROVE  [Line!Next]_(Line!vars)
<1>1. (refused \cap Sole)' = refused \cap Sole
  BY LineState DEF Same, SameRefused
<1>2. QED BY <1>1, LineState DEF Same, SameSet, Line!vars, Due

LEMMA LineStep ==
  ASSUME NEW d \in Ctl,
         \A c \in Ctl \ {d} : Same(c),
         d \in Sole => \/ Same(d) \/ Strobed(d) \/ Accepted(d) \/ Refused(d)
                       \/ \E i \in Irq : Raised(d, i) \/ Served(d, i)
  PROVE  [Line!Next]_(Line!vars)
<1> DEFINE latch == [c \in Sole |-> pending_irqs[c]]
           due == [c \in Sole |-> Due(c)]
           owe == [c \in Sole |-> owed[c]]
           ref == refused \cap Sole
<1>0. Sole \subseteq Ctl
  BY LineState
<1>1. /\ latch' = [c \in Sole |-> pending_irqs'[c]] /\ owe' = [c \in Sole |-> owed'[c]]
      /\ ref' = refused' \cap Sole
  BY LineState
<1>2. due' = [c \in Sole |-> Due(c)']
  BY LineState
<1>3. CASE d \notin Sole \/ Same(d)
  BY <1>0, <1>3, LineStutter
<1>4. ASSUME d \in Sole, SameSet(d)
      PROVE  latch' = latch /\ owe' = owe
  BY <1>0, <1>1, <1>4 DEF Same, SameSet
<1>5. ASSUME SameRefused(d)
      PROVE  ref' = ref
  BY <1>0, <1>1, <1>5 DEF Same, SameRefused
<1>6. CASE d \in Sole /\ Strobed(d)
  <2>1. due' = [due EXCEPT ![d] = latch[d]]
    BY <1>0, <1>2, <1>6 DEF Same, Strobed
  <2>2. QED BY <1>4, <1>5, <1>6, <2>1 DEF Strobed, Line!Next, Line!Strobe, Due
<1>7. CASE d \in Sole /\ Accepted(d)
  <2>1. due' = due /\ due[d] = latch[d]
    BY <1>0, <1>2, <1>7 DEF Same, Accepted
  <2>2. ref' = ref \ {d}
    BY <1>0, <1>1, <1>7 DEF Same, SameRefused, Accepted
  <2>3. QED BY <1>4, <1>7, <2>1, <2>2 DEF Accepted, Line!Next, Line!Accept, Due
<1>8. CASE d \in Sole /\ Refused(d)
  <2>1. due' = [due EXCEPT ![d] = Due(d)'] /\ Due(d)' \in SUBSET due[d]
    BY <1>0, <1>2, <1>8 DEF Same, Refused
  <2>2. ref' = ref \cup {d}
    BY <1>0, <1>1, <1>8 DEF Same, SameRefused, Refused
  <2>3. QED BY <1>4, <1>8, <2>1, <2>2 DEF Refused, Line!Next, Line!Refuse, Due
<1>9. ASSUME d \in Sole, NEW i \in Irq, Raised(d, i)
      PROVE  [Line!Next]_(Line!vars)
  <2>1. /\ latch' = [latch EXCEPT ![d] = @ \cup {i}]
        /\ owe' = [owe EXCEPT ![d] = @ \cup {i}]
        /\ due' = [due EXCEPT ![d] = latch[d] \cup {i}]
    BY <1>0, <1>1, <1>2, <1>9 DEF Same, SameSet, Raised
  <2>2. QED BY <1>5, <1>9, <2>1 DEF Raised, Line!Next, Line!Raise, Due
<1>10. ASSUME d \in Sole, NEW i \in Irq, Served(d, i)
       PROVE  [Line!Next]_(Line!vars)
  <2>1. /\ latch' = latch /\ i \in due[d]
        /\ owe' = [owe EXCEPT ![d] = @ \ {i}]
    BY <1>0, <1>1, <1>10 DEF Same, SameSet, Served
  <2>2. due' \in {due, [due EXCEPT ![d] = @ \ {i}]}
    BY <1>0, <1>2, <1>10 DEF Same, Served
  <2>3. QED BY <1>5, <1>10, <2>1, <2>2 DEF Served, Line!Next, Line!Serve, Due
<1>11. QED BY <1>3, <1>6, <1>7, <1>8, <1>9, <1>10

(* What keeps a line as it is.                                             *)
LEMMA LineKept ==
  ASSUME NEW c, SameRefused(c),
         pending_irqs'[c] = pending_irqs[c], owed'[c] = owed[c],
         signals'[c] = signals[c], handling'[c] = handling[c], todo'[c] = todo[c],
         Killing(c)' <=> Killing(c)
  PROVE  Same(c)
BY DEF Same, SameSet, Due, WillHandle

LEMMA KillingSame ==
  ASSUME NEW c, NEW x \in Ctx,
         \A y \in Ctx \ {x} : call[y].at = "kill" \/ call'[y].at = "kill"
                                => call'[y] = call[y],
         call[x].at = "kill" => call[x].ctl # c,
         call'[x].at = "kill" => call'[x].ctl # c
  PROVE  Killing(c)' <=> Killing(c)
<1>1. ASSUME NEW y \in Ctx
      PROVE  (call[y].at = "kill" /\ call[y].ctl = c) <=> (call'[y].at = "kill" /\ call'[y].ctl = c)
  BY <1>1
<1>2. QED BY <1>1 DEF Killing

(* The walk visits irqs of the set only.                                   *)
WalkInSet == \A c \in Sole : todo[c] \subseteq pending_irqs[c]

LEMMA InsertLine ==
  ASSUME TypeOK, NoOverlap, WalkInSet, NEW x \in Ctx, Insert(x)
  PROVE  WalkInSet' /\ [Line!Next]_(Line!vars)
<1>1. call[x] \in Calls /\ call[x].at = "link"
  BY DEF TypeOK, Insert
<1>2. PICK d \in Ctl, j \in Irq : d = call[x].ctl /\ j = call[x].irq
  BY <1>1, CallShape
<1>3. call'[x] = [at |-> "kill", ctl |-> d]
  BY <1>1, <1>2 DEF TypeOK, Insert
<1>4. \A y \in Ctx \ {x} : call[y].at = "kill" \/ call'[y].at = "kill"
                             => call'[y] = call[y]
  <2>1. ASSUME NEW y \in Ctx \ {x}
        PROVE  \/ call'[y] = call[y]
               \/ Linking(y, d) /\ call'[y] = AlsoSees(call[y], j)
    BY <1>2 DEF TypeOK, Insert
  <2>2. ASSUME NEW y \in Ctx \ {x}, Linking(y, d), call'[y] = AlsoSees(call[y], j)
        PROVE  call[y].at = "link" /\ call'[y].at = "link"
    BY <2>2 DEF Linking, AlsoSees
  <2>3. QED BY <2>1, <2>2
<1>5. ASSUME NEW c \in Ctl, c # d
      PROVE  Same(c) /\ todo'[c] = todo[c] /\ pending_irqs'[c] = pending_irqs[c]
  <2>1. Killing(c)' <=> Killing(c)
    BY <1>1, <1>2, <1>3, <1>4, <1>5, KillingSame
  <2>2. owed'[c] = owed[c] /\ signals' = signals /\ handling' = handling /\ SameRefused(c)
    BY <1>2, <1>5 DEF TypeOK, Insert, SameRefused
  <2>3. pending_irqs'[c] = pending_irqs[c]
    BY <1>2, <1>5 DEF TypeOK, Insert
  <2>4. todo'[c] = todo[c]
    BY <1>2, <1>5 DEF TypeOK, Insert
  <2>5. QED BY <2>1, <2>2, <2>3, <2>4, LineKept
<1>6. ASSUME d \in Sole
      PROVE  Raised(d, j) /\ todo'[d] \subseteq pending_irqs'[d]
  <2>1. call[x].since = {}
    BY <1>1, <1>2, <1>6 DEF NoOverlap, Sole
  <2>2. pending_irqs'[d] = pending_irqs[d] \cup {j}
    <3>1. CASE j \in pending_irqs[d] /\ UNCHANGED pending_irqs
      BY <3>1, <1>2
    <3>2. CASE \E dropped \in SUBSET ({} \ {j}) :
                 pending_irqs' = [pending_irqs EXCEPT ![d] = (@ \ dropped) \cup {j}]
      BY <3>2, <1>2 DEF TypeOK
    <3>3. QED BY <1>2, <2>1, <3>1, <3>2 DEF Insert
  <2>3. owed'[d] = owed[d] \cup {j}
    BY <1>2 DEF TypeOK, Insert
  <2>4. Killing(d)'
    BY <1>3 DEF Killing
  <2>5. pending_irqs'[d] \subseteq Irq
    BY <1>2, <2>2 DEF TypeOK
  <2>6. Due(d)' = pending_irqs'[d]
    BY <2>4, <2>5 DEF Due, WillHandle
  <2>7. todo'[d] \subseteq pending_irqs'[d]
    <3>1. CASE UNCHANGED todo
      BY <1>6, <2>2, <3>1 DEF WalkInSet
    <3>2. CASE \E rest \in SUBSET (pending_irqs[d] \cup {j}) :
                 todo' = [todo EXCEPT ![d] = rest]
      BY <1>2, <2>2, <3>2 DEF TypeOK
    <3>3. QED BY <1>2, <3>1, <3>2 DEF Insert
  <2>8. QED BY <2>2, <2>3, <2>6, <2>7 DEF Raised, SameRefused, Insert
<1>7. WalkInSet'
  <2>1. ASSUME NEW c \in Sole
        PROVE  todo'[c] \subseteq pending_irqs'[c]
    BY <1>5, <1>6, LineState DEF WalkInSet
  <2>2. QED BY <2>1 DEF WalkInSet, Sole, SoleRaiser
<1>8. QED BY <1>2, <1>5, <1>6, <1>7, LineStep

LEMMA KillLine ==
  ASSUME TypeOK, NEW x \in Ctx, Kill(x)
  PROVE  [Line!Next]_(Line!vars)
<1>1. PICK d \in Ctl :
        /\ call[x].at = "kill" /\ call[x].ctl = d
        /\ call'[x] = Idle /\ \A y \in Ctx \ {x} : call'[y] = call[y]
        /\ UNCHANGED <<pending_irqs, handling, todo, owed>>
        /\ \A c \in Ctl \ {d} : signals'[c] = signals[c] /\ (c \in refused' <=> c \in refused)
        /\ \/ signals'[d] > 0 /\ d \notin refused'
           \/ signals'[d] > 0 /\ (d \in refused' <=> d \in refused)
           \/ signals'[d] = signals[d] /\ d \in refused'
  BY KillEffect
<1>2. ASSUME NEW c \in Ctl, c # d
      PROVE  Same(c)
  <2>1. Killing(c)' <=> Killing(c)
    BY <1>1, <1>2, KillingSame DEF Idle
  <2>2. QED BY <1>1, <1>2, <2>1, LineKept DEF SameRefused
<1>3. SameSet(d) /\ Due(d) = pending_irqs[d]
  <2>1. Killing(d)
    BY <1>1 DEF Killing
  <2>2. pending_irqs[d] \subseteq Irq
    BY DEF TypeOK
  <2>3. QED BY <1>1, <2>1, <2>2 DEF SameSet, Due, WillHandle
<1>4. CASE signals'[d] > 0
  <2>1. Due(d)' = pending_irqs[d]
    <3>1. pending_irqs[d] \subseteq Irq
      BY DEF TypeOK
    <3>2. QED BY <1>1, <1>4, <3>1 DEF Due, WillHandle
  <2>2. Accepted(d) \/ Same(d) \/ (signals'[d] = signals[d] /\ d \in refused')
    BY <1>1, <1>3, <2>1 DEF Accepted, Same, SameRefused
  <2>3. d \in refused' => Refused(d)
    BY <1>3, <2>1 DEF Refused
  <2>4. QED BY <1>2, <2>2, <2>3, LineStep
<1>5. CASE d \in refused'
  <2>1. Due(d)' \subseteq pending_irqs[d]
    BY <1>1 DEF Due, WillHandle
  <2>2. Refused(d)
    BY <1>3, <1>5, <2>1 DEF Refused
  <2>3. QED BY <1>2, <2>2, LineStep
<1>6. QED BY <1>1, <1>4, <1>5

LEMMA HandlerLine ==
  ASSUME TypeOK, WalkInSet, NEW d \in Ctl,
         \/ signal_handler(d)
         \/ HandlerReturn(d)
         \/ \E i \in Irq : handle(d, i)
  PROVE  WalkInSet' /\ [Line!Next]_(Line!vars)
<1>1. UNCHANGED <<pending_irqs, call>> /\ \A c : SameRefused(c)
  BY DEF signal_handler, HandlerReturn, handle, SameRefused
<1>2. \A c : Killing(c)' <=> Killing(c)
  BY <1>1 DEF Killing
<1>3. ASSUME NEW c \in Ctl, c # d
      PROVE  Same(c) /\ todo'[c] = todo[c]
  <2>1. /\ signals'[c] = signals[c] /\ handling'[c] = handling[c]
        /\ todo'[c] = todo[c] /\ owed'[c] = owed[c]
    BY <1>3 DEF TypeOK, signal_handler, HandlerReturn, handle
  <2>2. QED BY <1>1, <1>2, <2>1, LineKept
<1>4. ASSUME signal_handler(d)
      PROVE  Same(d) /\ todo'[d] = pending_irqs[d]
  <2>1. signals[d] > 0 /\ owed' = owed
    BY <1>4 DEF signal_handler
  <2>2. handling'[d] /\ todo'[d] = pending_irqs[d]
    BY <1>4 DEF TypeOK, signal_handler
  <2>3. QED BY <1>1, <2>1, <2>2 DEF Same, SameSet, Due, WillHandle
<1>5. ASSUME HandlerReturn(d)
      PROVE  Same(d) /\ todo' = todo
  BY <1>1, <1>2, <1>5 DEF HandlerReturn, Same, SameSet, Due, WillHandle
<1>6. ASSUME d \in Sole, NEW i \in Irq, handle(d, i)
      PROVE  Served(d, i) /\ todo'[d] \subseteq todo[d]
  <2>1. UNCHANGED <<signals, handling>> /\ handling[d] /\ i \in todo[d]
    BY <1>6 DEF handle
  <2>2. owed'[d] = owed[d] \ {i} /\ todo'[d] = todo[d] \ {i}
    BY <1>6 DEF TypeOK, handle
  <2>3. i \in Due(d)
    BY <1>6, <2>1 DEF WalkInSet, Due, WillHandle
  <2>4. CASE signals[d] > 0 \/ Killing(d)
    <3>1. Due(d)' = Due(d)
      BY <1>1, <1>2, <2>1, <2>4 DEF Due, WillHandle
    <3>2. QED BY <1>1, <2>2, <2>3, <3>1 DEF Served
  <2>5. CASE ~ (signals[d] > 0 \/ Killing(d))
    <3>1. Due(d)' = Due(d) \ {i}
      BY <1>1, <1>2, <2>1, <2>2, <2>5 DEF Due, WillHandle
    <3>2. QED BY <1>1, <2>2, <2>3, <3>1 DEF Served
  <2>6. QED BY <2>4, <2>5
<1>7. WalkInSet'
  <2>1. ASSUME NEW c \in Sole
        PROVE  todo'[c] \subseteq pending_irqs'[c]
    BY <1>1, <1>3, <1>4, <1>5, <1>6, LineState DEF WalkInSet
  <2>2. QED BY <2>1 DEF WalkInSet, Sole, SoleRaiser
<1>8. QED BY <1>3, <1>4, <1>5, <1>6, <1>7, LineStep

LEMMA EnableLine ==
  ASSUME TypeOK, NEW x \in Ctx, NEW d \in Ctl, enableIrqs(x, d)
  PROVE  [Line!Next]_(Line!vars)
<1>1. /\ UNCHANGED <<pending_irqs, signals, handling, todo, owed>> /\ call[x] = Idle
      /\ \A c : SameRefused(c)
  BY DEF enableIrqs, SameRefused
<1>2. CASE pending_irqs[d] = {}
  <2>1. call' = call
    BY <1>2 DEF enableIrqs
  <2>2. \A c \in Ctl : Same(c)
    BY <1>1, <2>1, LineKept DEF Killing
  <2>3. QED BY <2>2, LineState, LineStutter
<1>3. CASE pending_irqs[d] # {}
  <2>1. /\ call'[x] = [at |-> "kill", ctl |-> d]
        /\ \A y \in Ctx \ {x} : call'[y] = call[y]
    BY <1>3 DEF TypeOK, enableIrqs
  <2>2. ASSUME NEW c \in Ctl, c # d
        PROVE  Same(c)
    <3>1. Killing(c)' <=> Killing(c)
      BY <1>1, <2>1, <2>2, KillingSame DEF Idle
    <3>2. QED BY <1>1, <3>1, LineKept
  <2>3. Killing(d)'
    BY <2>1 DEF Killing
  <2>4. Strobed(d)
    BY <1>1, <2>3 DEF TypeOK, Strobed, SameSet, Due, WillHandle
  <2>5. QED BY <2>2, <2>4, LineStep
<1>4. QED BY <1>2, <1>3

LEMMA NextLine ==
  ASSUME TypeOK, NoOverlap, WalkInSet, [Next]_vars
  PROVE  WalkInSet' /\ [Line!Next]_(Line!vars)
<1>1. ASSUME UNCHANGED <<pending_irqs, todo>>
      PROVE  WalkInSet'
  BY <1>1 DEF WalkInSet, Sole, SoleRaiser
<1>2. ASSUME NEW x \in Ctx, NEW i \in Irq, local_raise(x, i) \/ dest_raise(x, i)
      PROVE  WalkInSet' /\ [Line!Next]_(Line!vars)
  <2>1. /\ UNCHANGED <<pending_irqs, signals, handling, todo, owed>> /\ call[x] = Idle
        /\ \A c : SameRefused(c)
    BY <1>2 DEF local_raise, dest_raise, Raise, SameRefused
  <2>2. call'[x].at = "link" /\ \A y \in Ctx \ {x} : call'[y] = call[y]
    BY <1>2 DEF TypeOK, local_raise, dest_raise, Raise
  <2>3. \A c \in Ctl : Killing(c)' <=> Killing(c)
    BY <2>1, <2>2, KillingSame DEF Idle
  <2>4. \A c \in Ctl : Same(c)
    BY <2>1, <2>3, LineKept
  <2>5. QED BY <1>1, <2>1, <2>4, LineState, LineStutter
<1>3. ASSUME NEW x \in Ctx, Insert(x) \/ Kill(x)
      PROVE  WalkInSet' /\ [Line!Next]_(Line!vars)
  BY <1>1, <1>3, InsertLine, KillLine DEF Kill
<1>4. ASSUME NEW c \in Ctl, \/ signal_handler(c) \/ HandlerReturn(c)
                            \/ \E i \in Irq : handle(c, i)
      PROVE  WalkInSet' /\ [Line!Next]_(Line!vars)
  BY <1>4, HandlerLine
<1>5. ASSUME NEW x \in Ctx, NEW c \in Ctl, enableIrqs(x, c)
      PROVE  WalkInSet' /\ [Line!Next]_(Line!vars)
  BY <1>1, <1>5, EnableLine DEF enableIrqs
<1>6. CASE \/ \E i \in Irq : enableIrq(i) \/ disableIrq(i)
           \/ \E c \in Ctl : disableIrqs(c)
           \/ UNCHANGED vars
  <2>1. UNCHANGED <<pending_irqs, signals, handling, todo, call, owed>> /\ \A c : SameRefused(c)
    BY <1>6 DEF enableIrq, disableIrq, SetEnabled, disableIrqs, vars, SameRefused
  <2>2. \A c \in Ctl : Same(c)
    BY <2>1, LineKept DEF Killing
  <2>3. QED BY <1>1, <2>1, <2>2, LineState, LineStutter
<1>7. QED BY <1>2, <1>3, <1>4, <1>5, <1>6 DEF Next

(* The insertion without a lock, the signal that may be refused, and the   *)
(* walk over a set that grows meanwhile: on a controller with one raiser   *)
(* they are interrupt lines that latch.  None of them is forgotten; after  *)
(* a refusal they wait for the next accepted signal.                       *)
THEOREM LinesImplemented == Spec => ImplementsLine
<1>1. Init => NoOverlap /\ WalkInSet /\ Line!Init
  <2>1. Init => NoOverlap
    BY DEF Init, NoOverlap, Idle
  <2>2. Init => WalkInSet
    BY DEF Init, WalkInSet, Sole
  <2>3. Init => Line!Init
    BY LineState DEF Init, Line!Init, WillHandle
  <2>4. QED BY <2>1, <2>2, <2>3
<1>2. TypeOK /\ NoOverlap /\ [Next]_vars => NoOverlap'
  BY NextNoOverlap
<1>3. TypeOK /\ NoOverlap /\ WalkInSet /\ [Next]_vars => WalkInSet' /\ [Line!Next]_(Line!vars)
  BY NextLine
<1>4. QED BY <1>1, <1>2, <1>3, TypeCorrect, PTL DEF Spec, ImplementsLine, Line!Spec
=============================================================================
