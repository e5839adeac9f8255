--------------------------- MODULE IrqController ---------------------------
(***************************************************************************)
(* Interrupt delivery between the threads of a mocked system:              *)
(* IrqController.cpp, and the enable bit of an irq (HwIrq.hpp).            *)
(*                                                                         *)
(* Every processing unit owns a controller.  Any thread raises an irq by   *)
(* inserting it in the controller's pending set and sending the unit's     *)
(* thread a real-time signal; the signal handler walks the set and calls   *)
(* every irq in it.  No lock guards the set, and nothing ever leaves it.   *)
(*                                                                         *)
(* The module starts when every controller has run start(): the thread is  *)
(* known, the signal handler installed, the controller registered (module  *)
(* Lifecycle models how that comes about).                                 *)
(***************************************************************************)
EXTENDS Naturals

CONSTANTS
  Ctl,        \* the controllers, one per processing unit
  Irq,        \* the GenericIrq objects
  Maskable,   \* those that are HwIrq: they start disabled (a GpioIrq is always enabled)
  Ctx,        \* the execution contexts (threads, signal handlers) that raise irqs
  Home,       \* the controller an irq is raised on by local_raise
  Dest,       \* dest_controller; not in Ctl where start() came late and erased it
  Reach,      \* the controllers a context may raise irqs on
  SigMax,     \* the signals the kernel queues for the user (RLIMIT_SIGPENDING)
  Crowded,    \* other processes of the user may have used up this limit
  CreditMax   \* bound of the ghost credit: from there on it stays

ASSUME IrqAssumption == /\ Maskable \subseteq Irq
                        /\ Home \in [Irq -> Ctl]
ASSUME CtlAssumption == Reach \in [Ctx -> SUBSET Ctl]
ASSUME SigMaxAssumption == SigMax \in Nat \ {0} /\ Crowded \in BOOLEAN
ASSUME CreditMaxAssumption == CreditMax \in Nat

VARIABLES
  pending_irqs,     \* the std::set of a controller
  is_enabled,       \* HwIrq::is_enabled
  allirqs_enabled,  \* the flag of a controller
  signals,          \* signals queued for the controller's thread
  handling,         \* the thread runs the signal handler (the signal is blocked meanwhile)
  todo,             \* irqs the running walk over pending_irqs has not reached
  call,             \* what each context has left to do of the raise it is in
  owed,             \* ghost: raised, and the handler not called since
  credit,           \* ghost: raises of an irq that no run of its handler answered
  clash,            \* ghost: controllers where two insertions overlapped
  refused           \* ghost: controllers whose last signal was refused, with none queued

vars == <<pending_irqs, is_enabled, allirqs_enabled, signals, handling, todo,
          call, owed, credit, clash, refused>>

Idle == [at |-> "idle"]

(* `since' is what other contexts linked into the tree while this one was  *)
(* between reading it and writing it.                                      *)
Calls == {Idle} \cup [at : {"link"}, ctl : Ctl, irq : Irq, since : SUBSET Irq]
                \cup [at : {"kill"}, ctl : Ctl]

Linking(x, c) == call[x].at = "link" /\ call[x].ctl = c

(* An insertion k in progress, once irq i has been linked next to it       *)
AlsoSees(k, i) == [at |-> "link", ctl |-> k.ctl, irq |-> k.irq, since |-> k.since \cup {i}]

(* A context that has made c's set ready and is about to signal c's thread *)
Killing(c) == \E x \in Ctx : call[x].at = "kill" /\ call[x].ctl = c

(* The constructor leaves allirqs_enabled uninitialised.                   *)
Init ==
  /\ pending_irqs = [c \in Ctl |-> {}]
  /\ is_enabled = [i \in Irq |-> i \notin Maskable]
  /\ allirqs_enabled \in [Ctl -> BOOLEAN]
  /\ signals = [c \in Ctl |-> 0]
  /\ handling = [c \in Ctl |-> FALSE]
  /\ todo = [c \in Ctl |-> {}]
  /\ call = [x \in Ctx |-> Idle]
  /\ owed = [c \in Ctl |-> {}]
  /\ credit = [c \in Ctl |-> [i \in Irq |-> 0]]
  /\ clash = {}
  /\ refused = {}

-----------------------------------------------------------------------------
(* Raising: local_raise(irq), and dest_raise(irq) called on controller c.  *)

Raise(x, c, i) ==
  /\ call[x] = Idle
  /\ c \in Reach[x]
  /\ is_enabled[i]
  /\ call' = [call EXCEPT ![x] = [at |-> "link", ctl |-> c, irq |-> i, since |-> {}]]
  /\ UNCHANGED <<pending_irqs, is_enabled, allirqs_enabled, signals, handling,
                 todo, owed, credit, clash, refused>>

local_raise(x, i) == Raise(x, Home[i], i)

(* Without a dest_controller the program dies of a null pointer.           *)
dest_raise(x, i) == Raise(x, Dest[Home[i]], i)

(* Faulty variant: a raise of an irq that is already in the set sends no   *)
(* signal, as if the irq were still waiting for the handler.               *)
InsertOnce(x) ==
  LET c == call[x].ctl
      i == call[x].irq
  IN /\ call[x].at = "link"
     /\ call' = [call EXCEPT ![x] = IF i \in pending_irqs[c] THEN Idle
                                    ELSE [at |-> "kill", ctl |-> c]]
     /\ pending_irqs' = [pending_irqs EXCEPT ![c] = @ \cup {i}]
     /\ owed' = [owed EXCEPT ![c] = @ \cup {i}]
     /\ UNCHANGED <<is_enabled, allirqs_enabled, signals, handling, todo,
                    credit, clash, refused>>

(* std::set::insert.  An irq that is there already changes nothing.  A new *)
(* node is linked without a lock: a context that read the tree before      *)
(* others linked theirs may drop their nodes, and a walk in progress may   *)
(* from then on skip or revisit any node: the tree is rebalanced under its *)
(* iterator, which climbs and descends by the pointers it finds.           *)
Insert(x) ==
  LET c == call[x].ctl
      i == call[x].irq
      since == call[x].since
  IN /\ call[x].at = "link"
     /\ \/ /\ i \in pending_irqs[c] /\ since = {}
           /\ call' = [call EXCEPT ![x] = [at |-> "kill", ctl |-> c]]
           /\ UNCHANGED <<pending_irqs, todo>>
        \/ /\ i \notin pending_irqs[c] \/ since # {}
           /\ \E dropped \in SUBSET (since \ {i}) :
                pending_irqs' = [pending_irqs EXCEPT ![c] = (@ \ dropped) \cup {i}]
           /\ IF handling[c]
              THEN \E rest \in SUBSET (pending_irqs[c] \cup {i}) :
                     todo' = [todo EXCEPT ![c] = rest]
              ELSE UNCHANGED todo
           /\ call' = [y \in Ctx |->
                         IF y = x THEN [at |-> "kill", ctl |-> c]
                         ELSE IF Linking(y, c)
                              THEN AlsoSees(call[y], i)
                              ELSE call[y]]
     /\ owed' = [owed EXCEPT ![c] = @ \cup {i}]
     /\ credit' = [credit EXCEPT ![c][i] = IF @ < CreditMax THEN @ + 1 ELSE @]
     /\ clash' = IF since = {} THEN clash ELSE clash \cup {c}
     /\ UNCHANGED <<is_enabled, allirqs_enabled, signals, handling, refused>>

(* Faulty variant: the limit is forgotten.                                 *)
RoomAlways(c) == TRUE

(* The signals queued for all threads of the user count against one limit. *)
(* The library signals those of its controllers, of which it has two.      *)
Room(c) ==
  /\ signals[c] < SigMax
  /\ \A d \in Ctl \ {c} : signals[c] + signals[d] < SigMax

Queue(c) ==
  /\ Room(c)
  /\ signals' = [signals EXCEPT ![c] = @ + 1]
  /\ refused' = refused \ {c}

(* A signal that is refused does no harm while another one is queued.      *)
Refuse(c) ==
  /\ Crowded \/ ~Room(c)
  /\ UNCHANGED signals
  /\ refused' = IF signals[c] = 0 THEN refused \cup {c} ELSE refused

(* Faulty variants: the signal is not sent while the handler runs; it is   *)
(* sent twice.                                                             *)
pthread_kill_unless_handling(c) ==
  IF handling[c] THEN UNCHANGED <<signals, refused>> ELSE Queue(c) \/ Refuse(c)

pthread_kill_twice(c) ==
  \/ Room(c) /\ signals' = [signals EXCEPT ![c] = @ + 2] /\ refused' = refused \ {c}
  \/ Refuse(c)

(* A real-time signal to c's thread is queued, or refused with EAGAIN.     *)
pthread_kill(c) == Queue(c) \/ Refuse(c)

(* interrupt_self, interrupt_dest: the result of pthread_kill is ignored.  *)
Kill(x) ==
  /\ call[x].at = "kill"
  /\ pthread_kill(call[x].ctl)
  /\ call' = [call EXCEPT ![x] = Idle]
  /\ UNCHANGED <<pending_irqs, is_enabled, allirqs_enabled, handling, todo,
                 owed, credit, clash>>

-----------------------------------------------------------------------------
(* The signal handler, on the thread of the controller.                    *)

signal_handler(c) ==
  /\ signals[c] > 0
  /\ ~handling[c]
  /\ signals' = [signals EXCEPT ![c] = @ - 1]
  /\ handling' = [handling EXCEPT ![c] = TRUE]
  /\ todo' = [todo EXCEPT ![c] = pending_irqs[c]]
  /\ UNCHANGED <<pending_irqs, is_enabled, allirqs_enabled, call, owed,
                 credit, clash, refused>>

(* One iteration of the walk: irq->handle().  The order is that of the     *)
(* addresses, which the program does not choose.                           *)
handle(c, i) ==
  /\ handling[c]
  /\ i \in todo[c]
  /\ todo' = [todo EXCEPT ![c] = @ \ {i}]
  /\ owed' = [owed EXCEPT ![c] = @ \ {i}]
  /\ credit' = [credit EXCEPT ![c][i] = IF @ \in 1 .. CreditMax - 1 THEN @ - 1 ELSE @]
  /\ UNCHANGED <<pending_irqs, is_enabled, allirqs_enabled, signals, handling,
                 call, clash, refused>>

(* Faulty variant: the set is emptied after the walk.                      *)
HandlerReturnClearing(c) ==
  /\ handling[c]
  /\ todo[c] = {}
  /\ handling' = [handling EXCEPT ![c] = FALSE]
  /\ pending_irqs' = [pending_irqs EXCEPT ![c] = {}]
  /\ UNCHANGED <<is_enabled, allirqs_enabled, signals, todo, call, owed,
                 credit, clash, refused>>

(* The walk is over: the set stays as it is, the signal is unblocked.      *)
HandlerReturn(c) ==
  /\ handling[c]
  /\ todo[c] = {}
  /\ handling' = [handling EXCEPT ![c] = FALSE]
  /\ UNCHANGED <<pending_irqs, is_enabled, allirqs_enabled, signals, todo,
                 call, owed, credit, clash, refused>>

-----------------------------------------------------------------------------
(* Masking.                                                                *)

SetEnabled(i, value) ==
  /\ i \in Maskable
  /\ is_enabled' = [is_enabled EXCEPT ![i] = value]
  /\ UNCHANGED <<pending_irqs, allirqs_enabled, signals, handling, todo, call,
                 owed, credit, clash, refused>>

enableIrq(i) == SetEnabled(i, TRUE)

disableIrq(i) == SetEnabled(i, FALSE)

disableIrqs(c) ==
  /\ allirqs_enabled' = [allirqs_enabled EXCEPT ![c] = FALSE]
  /\ UNCHANGED <<pending_irqs, is_enabled, signals, handling, todo, call, owed,
                 credit, clash, refused>>

enableIrqs(x, c) ==
  /\ call[x] = Idle
  /\ c \in Reach[x]
  /\ ~allirqs_enabled[c]
  /\ allirqs_enabled' = [allirqs_enabled EXCEPT ![c] = TRUE]
  /\ call' = IF pending_irqs[c] # {}
             THEN [call EXCEPT ![x] = [at |-> "kill", ctl |-> c]]
             ELSE call
  /\ UNCHANGED <<pending_irqs, is_enabled, signals, handling, todo, owed,
                 credit, clash, refused>>

-----------------------------------------------------------------------------
Next ==
  \/ \E x \in Ctx, i \in Irq : local_raise(x, i) \/ dest_raise(x, i)
  \/ \E x \in Ctx : Insert(x) \/ Kill(x)
  \/ \E c \in Ctl : signal_handler(c) \/ HandlerReturn(c)
  \/ \E c \in Ctl, i \in Irq : handle(c, i)
  \/ \E i \in Irq : enableIrq(i) \/ disableIrq(i)
  \/ \E c \in Ctl : disableIrqs(c)
  \/ \E x \in Ctx, c \in Ctl : enableIrqs(x, c)

Spec == Init /\ [][Next]_vars

(* A thread that is running goes on, and the kernel delivers a queued      *)
(* signal; nobody has to raise or mask anything.                           *)
Fairness ==
  /\ \A x \in Ctx : WF_vars(Insert(x)) /\ WF_vars(Kill(x))
  /\ \A c \in Ctl : /\ WF_vars(signal_handler(c))
                    /\ WF_vars(\E i \in Irq : handle(c, i))
                    /\ WF_vars(HandlerReturn(c))

FairSpec == Spec /\ Fairness

-----------------------------------------------------------------------------
(* Properties.                                                             *)

(* The types; no signal queue exceeds the kernel's limit.                  *)
TypeOK ==
  /\ pending_irqs \in [Ctl -> SUBSET Irq]
  /\ is_enabled \in [Irq -> BOOLEAN]
  /\ allirqs_enabled \in [Ctl -> BOOLEAN]
  /\ signals \in [Ctl -> 0 .. SigMax]
  /\ handling \in [Ctl -> BOOLEAN]
  /\ todo \in [Ctl -> SUBSET Irq]
  /\ call \in [Ctx -> Calls]
  /\ owed \in [Ctl -> SUBSET Irq]
  /\ credit \in [Ctl -> [Irq -> 0 .. CreditMax]]
  /\ clash \in SUBSET Ctl
  /\ refused \in SUBSET Ctl

(* The walk that will reach irq i is running, signalled, or about to be.   *)
WillHandle(c, i) ==
  /\ i \in pending_irqs[c]
  /\ \/ signals[c] > 0
     \/ Killing(c)
     \/ handling[c] /\ i \in todo[c]

(* A signal was refused, and the irq stays in the set for the next one.    *)
WaitsForSignal(c, i) == i \in pending_irqs[c] /\ c \in refused

(* No interrupt is lost between insert() and pthread_kill(), while the     *)
(* handler is walking the set, or at a signal that is refused while one is *)
(* queued: an irq raised and not handled since is in the set, and a walk   *)
(* will reach it.  Two insertions that overlap in the unlocked set are one *)
(* exception; a signal that the kernel refuses, when none is queued, is    *)
(* the other, and even then the irq is left for the next signal.           *)
NoLostInterrupt ==
  \A c \in Ctl \ clash : \A i \in owed[c] : WillHandle(c, i) \/ WaitsForSignal(c, i)

SoleRaiser(c) == \A x, y \in Ctx : c \in Reach[x] \cap Reach[y] => x = y

(* On a controller that at most one context raises irqs on, as both are in *)
(* the tests of the repository, the missing lock around pending_irqs costs *)
(* no interrupt, while insertions overlap on other controllers: only the   *)
(* refused signal can delay one.                                           *)
SoleRaiserLosesNothing ==
  \A c \in Ctl : SoleRaiser(c) =>
    \A i \in owed[c] : WillHandle(c, i) \/ WaitsForSignal(c, i)

Sole == {c \in Ctl : SoleRaiser(c)}

(* A controller with one raiser is a set of latching interrupt lines; due  *)
(* are the irqs that the walk in progress, or one that the signals on      *)
(* their way start, will reach.                                            *)
Line == INSTANCE InterruptLine WITH
          Ctl <- Sole,
          latched <- [c \in Sole |-> pending_irqs[c]],
          due <- [c \in Sole |-> {i \in Irq : WillHandle(c, i)}],
          owed <- [c \in Sole |-> owed[c]],
          refused <- refused \cap Sole

(* There, insert, pthread_kill, the signal queue and the walk over the     *)
(* unlocked set together behave like these lines, whatever happens on      *)
(* other controllers.                                                      *)
ImplementsLine == Line!Spec

(* The handler of an irq runs no more often than the irq is raised: "Handle *)
(* a new irq or the pending irqs" (IrqController.cpp:115), and the tests'   *)
(* "assert(soc_irq_triggered == 1)" after one level change.                 *)
HandlesOnlyRaised ==
  [][\A c \in Ctl, i \in Irq : handle(c, i) => credit[c][i] > 0]_vars
=============================================================================
