----------------------------- MODULE Lifecycle -----------------------------
(***************************************************************************)
(* The life of a mocked system: hwmocker_create, start, stop, wait and     *)
(* destroy on the caller's thread (hwmocker.cpp, System.cpp), and the      *)
(* thread of each processing unit (ProcessingUnit.cpp,                     *)
(* IrqController::start), which registers its signal handler, waits to be  *)
(* released, and runs the user's main function.                            *)
(*                                                                         *)
(* A main function is the sequence of the library calls it makes:          *)
(* "set_ready" on its own unit, "wait_ready" and "interrupt" on the other. *)
(* All mutexes are plain ones: unlocking a free one, or one that another   *)
(* thread locked, is not an error and leaves it free.                      *)
(***************************************************************************)
EXTENDS Naturals, Sequences

CONSTANTS
  soc, host,  \* the two processing units of a System
  Program,    \* the main function of each
  Follows,    \* <<c, d>>: the caller may call d when c was its last call
  Tid, NoTid, \* pthread_t values
  ReuseTid,   \* pthread_create may return the pthread_t of a joined thread
  Faults,     \* what may fail: "pthread_create", "setname", "config"
  GenMax      \* bound on the number of systems created

Unit == {soc, host}
Peer(u) == IF u = soc THEN host ELSE soc

Api == {"create", "start", "stop", "wait", "destroy"}

ASSUME UnitAssumption == soc # host
ASSUME ProgramAssumption ==
  Program \in [Unit -> Seq({"set_ready", "wait_ready", "interrupt"})]
(* The caller has no other system while one exists, and uses none that it  *)
(* destroyed.                                                              *)
ASSUME FollowsAssumption ==
  /\ Follows \subseteq Api \X Api
  /\ \A f \in Follows : f[2] = "create" <=> f[1] = "destroy"
ASSUME TidAssumption == NoTid \notin Tid /\ ReuseTid \in BOOLEAN
ASSUME FaultsAssumption == Faults \subseteq {"pthread_create", "setname", "config"}
ASSUME GenMaxAssumption == GenMax \in Nat

VARIABLES
  call,      \* the caller's API call in progress, or its last one
  at,        \* the step of Script[call] it is at; 0: the call has returned
  gen,       \* how many systems were created
  pu,        \* the ProcessingUnit objects with their IrqController
  th,        \* their threads
  registry,  \* signal_handlers_map: the unit and system a pthread_t belongs to
  sigact,    \* the signal action is installed (for the whole process)
  used,      \* pthread_t values handed out so far
  fault      \* why the process died, or "none"

vars == <<call, at, gen, pu, th, registry, sigact, used, fault>>

Nobody == <<"nobody", 0>>

(* start_mutex and ready_mutex: locked; pthread, dest: the controller's    *)
(* fields are set; started: ghost, start() was called.                     *)
NoUnit == [alive |-> FALSE, start_mutex |-> FALSE, ready_mutex |-> FALSE,
           stopped |-> TRUE, main_func |-> FALSE, pthread |-> FALSE,
           dest |-> FALSE, started |-> FALSE]

(* ip: the next call of the main function; signal: one is pending.         *)
NewThread(pc, t) == [pc |-> pc, ip |-> 1, tid |-> t, joined |-> FALSE, signal |-> FALSE]

Init ==
  /\ call = "destroy"
  /\ at = 0
  /\ gen = 0
  /\ pu = [u \in Unit |-> NoUnit]
  /\ th = [u \in Unit |-> NewThread("none", NoTid)]
  /\ registry = [t \in Tid |-> Nobody]
  /\ sigact = FALSE
  /\ used = {}
  /\ fault = "none"

Gone(u) == th[u].pc \in {"none", "exited"}

Registered(u) == th[u].tid \in Tid /\ registry[th[u].tid] = <<u, gen>>

-----------------------------------------------------------------------------
(* The caller.                                                             *)

(* Faulty variant: each unit is deleted as soon as its own thread is gone. *)
ScriptEagerDelete ==
  [create  |-> << <<"new", soc>>, <<"setname", soc>>, <<"new", host>>, <<"setname", host>>,
                  <<"set_dest", host>>, <<"set_main", soc>>, <<"set_dest", soc>>,
                  <<"set_main", host>>, <<"load_config", soc>> >>,
   start   |-> << <<"start", host>>, <<"start", soc>> >>,
   stop    |-> << <<"stop", soc>>, <<"join", soc>>, <<"stop", host>>, <<"join", host>> >>,
   wait    |-> << <<"join", soc>>, <<"join", host>> >>,
   destroy |-> << <<"stop", soc>>, <<"join", soc>>, <<"delete", soc>>,
                  <<"stop", host>>, <<"join", host>>, <<"delete", host>> >>]

(* The API functions, step by step.                                        *)
Script ==
  [create  |-> << <<"new", soc>>, <<"setname", soc>>, <<"new", host>>, <<"setname", host>>,
                  <<"set_dest", host>>, <<"set_main", soc>>, <<"set_dest", soc>>,
                  <<"set_main", host>>, <<"load_config", soc>> >>,
   start   |-> << <<"start", host>>, <<"start", soc>> >>,
   stop    |-> << <<"stop", soc>>, <<"join", soc>>, <<"stop", host>>, <<"join", host>> >>,
   wait    |-> << <<"join", soc>>, <<"join", host>> >>,
   destroy |-> << <<"stop", soc>>, <<"join", soc>>, <<"stop", host>>, <<"join", host>>,
                  <<"delete", soc>>, <<"delete", host>> >>]

Doing(op, u) == fault = "none" /\ at > 0 /\ Script[call][at] = <<op, u>>

Return == at' = 0 /\ UNCHANGED <<call, gen>>

(* Faulty variant: the last step of a call is not noticed.                 *)
AdvancePast == at' = at + 1 /\ UNCHANGED <<call, gen>>

Advance == IF at = Len(Script[call])
           THEN Return
           ELSE at' = at + 1 /\ UNCHANGED <<call, gen>>

Call(c) ==
  /\ fault = "none"
  /\ at = 0
  /\ <<call, c>> \in Follows
  /\ c = "create" => gen < GenMax
  /\ call' = c
  /\ at' = 1
  /\ gen' = IF c = "create" THEN gen + 1 ELSE gen
  /\ UNCHANGED <<pu, th, registry, sigact, used, fault>>

(* create gives up: the exception is caught, and the caller gets NULL.     *)
(* What was built until then stays behind.                                 *)
CreateFails == call' = "failed" /\ at' = 0 /\ UNCHANGED gen

(* Faulty variant: ready_mutex starts free.                                *)
CreatedReady == [NoUnit EXCEPT !.alive = TRUE, !.start_mutex = TRUE]

Created == [NoUnit EXCEPT !.alive = TRUE, !.start_mutex = TRUE, !.ready_mutex = TRUE]

FreeTid == IF ReuseTid
           THEN Tid \ {th[u].tid : u \in {v \in Unit : ~th[v].joined}}
           ELSE Tid \ used

(* The constructor of a ProcessingUnit locks both mutexes and creates the  *)
(* thread, which may run at once.                                          *)
New(u) ==
  /\ Doing("new", u)
  /\ \/ /\ pu' = [pu EXCEPT ![u] = Created]
        /\ \E t \in FreeTid :
             /\ th' = [th EXCEPT ![u] = NewThread("boot", t)]
             /\ used' = used \cup {t}
        /\ Advance
     \/ /\ "pthread_create" \in Faults
        /\ CreateFails
        /\ UNCHANGED <<pu, th, used>>
  /\ UNCHANGED <<registry, sigact, fault>>

(* Naming the thread is the constructor's last step: when it fails the     *)
(* object is freed, and its thread goes on.                                *)
SetName(u) ==
  /\ Doing("setname", u)
  /\ \/ Advance /\ UNCHANGED pu
     \/ /\ "setname" \in Faults
        /\ CreateFails
        /\ pu' = [pu EXCEPT ![u].alive = FALSE]
  /\ UNCHANGED <<th, registry, sigact, used, fault>>

set_dest_irq_controller(u) ==
  /\ Doing("set_dest", u)
  /\ IF pu[u].dest
     THEN CreateFails /\ UNCHANGED pu
     ELSE Advance /\ pu' = [pu EXCEPT ![u].dest = TRUE]
  /\ UNCHANGED <<th, registry, sigact, used, fault>>

set_main_function(u) ==
  /\ Doing("set_main", u)
  /\ Advance
  /\ pu' = [pu EXCEPT ![u].main_func = TRUE]
  /\ UNCHANGED <<th, registry, sigact, used, fault>>

(* A missing file and a parse error are not runtime_error pointers, the    *)
(* only exceptions that hwmocker_create catches.                           *)
LoadConfig ==
  /\ Doing("load_config", soc)
  /\ \/ Advance /\ UNCHANGED fault
     \/ "config" \in Faults /\ fault' = "uncaught exception" /\ UNCHANGED <<call, at, gen>>
  /\ UNCHANGED <<pu, th, registry, sigact, used>>

(* Faulty variant: start leaves the gate shut.                             *)
startShut(u) ==
  /\ Doing("start", u)
  /\ Advance
  /\ pu' = [pu EXCEPT ![u].stopped = FALSE, ![u].started = TRUE]
  /\ UNCHANGED <<th, registry, sigact, used, fault>>

start(u) ==
  /\ Doing("start", u)
  /\ Advance
  /\ pu' = [pu EXCEPT ![u].stopped = FALSE, ![u].start_mutex = FALSE, ![u].started = TRUE]
  /\ UNCHANGED <<th, registry, sigact, used, fault>>

(* The gate opens for a thread that then finds it has nothing to do.       *)
stop(u) ==
  /\ Doing("stop", u)
  /\ Advance
  /\ pu' = [pu EXCEPT ![u].stopped = TRUE, ![u].start_mutex = FALSE]
  /\ UNCHANGED <<th, registry, sigact, used, fault>>

(* Faulty variant: a thread can be joined only once.                       *)
joinOnce(u) ==
  /\ Doing("join", u)
  /\ th[u].pc = "exited" /\ ~th[u].joined
  /\ Advance
  /\ th' = [th EXCEPT ![u].joined = TRUE]
  /\ UNCHANGED <<pu, registry, sigact, used, fault>>

(* pthread_join; of a thread that was joined before, it returns an error   *)
(* nobody looks at.                                                        *)
join(u) ==
  /\ Doing("join", u)
  /\ th[u].joined \/ th[u].pc = "exited"
  /\ Advance
  /\ th' = [th EXCEPT ![u].joined = TRUE]
  /\ UNCHANGED <<pu, registry, sigact, used, fault>>

Delete(u) ==
  /\ Doing("delete", u)
  /\ Advance
  /\ pu' = [pu EXCEPT ![u].alive = FALSE]
  /\ UNCHANGED <<th, registry, sigact, used, fault>>

-----------------------------------------------------------------------------
(* The thread of a unit.                                                   *)

Goto(u, pc) == th' = [th EXCEPT ![u].pc = pc]

Die(why) == fault' = why /\ UNCHANGED <<call, at, gen, pu, th, registry, sigact, used>>

(* The units a thread is about to use: those calls of its main function    *)
(* that concern the other unit use both.                                   *)
Uses(u) ==
  IF /\ th[u].pc = "main"
     /\ th[u].ip <= Len(Program[u])
     /\ Program[u][th[u].ip] \in {"wait_ready", "interrupt"}
  THEN Unit
  ELSE {u}

(* A use after free ends the program (it is built with an address          *)
(* sanitizer).                                                             *)
At(u, pc) == fault = "none" /\ th[u].pc = pc /\ \A v \in Uses(u) : pu[v].alive

UseAfterFree(u) ==
  /\ fault = "none"
  /\ ~Gone(u)
  /\ \E v \in Uses(u) : ~pu[v].alive
  /\ Die("use after free")

(* IrqController::start, up to the call of sigaction                       *)
Boot(u) ==
  /\ At(u, "boot")
  /\ pu' = [pu EXCEPT ![u].pthread = TRUE, ![u].dest = FALSE]
  /\ Goto(u, "sigaction")
  /\ UNCHANGED <<call, at, gen, registry, sigact, used, fault>>

Sigaction(u) ==
  /\ At(u, "sigaction")
  /\ sigact' = TRUE
  /\ Goto(u, "register")
  /\ UNCHANGED <<call, at, gen, pu, registry, used, fault>>

(* Nothing ever leaves signal_handlers_map.                                *)
Register(u) ==
  /\ At(u, "register")
  /\ IF registry[th[u].tid] # Nobody
     THEN Die("already registered")
     ELSE /\ registry' = [registry EXCEPT ![th[u].tid] = <<u, gen>>]
          /\ Goto(u, "gate")
          /\ UNCHANGED <<call, at, gen, pu, sigact, used, fault>>

(* run_thread: it waits for start_mutex, which it keeps.                   *)
Gate(u) ==
  /\ At(u, "gate")
  /\ ~pu[u].start_mutex
  /\ pu' = [pu EXCEPT ![u].start_mutex = TRUE]
  /\ Goto(u, "check")
  /\ UNCHANGED <<call, at, gen, registry, sigact, used, fault>>

(* Faulty variant: stopped is not looked at.                               *)
CheckNothing(u) ==
  /\ At(u, "check")
  /\ IF ~pu[u].main_func
     THEN Die("main function not set")
     ELSE /\ Goto(u, "main")
          /\ UNCHANGED <<call, at, gen, pu, registry, sigact, used, fault>>

(* A unit that was stopped has nothing to run.                             *)
Check(u) ==
  /\ At(u, "check")
  /\ IF ~pu[u].stopped /\ ~pu[u].main_func
     THEN Die("main function not set")
     ELSE /\ Goto(u, IF pu[u].stopped THEN "exited" ELSE "main")
          /\ UNCHANGED <<call, at, gen, pu, registry, sigact, used, fault>>

Running(u, op) ==
  /\ At(u, "main")
  /\ th[u].ip <= Len(Program[u])
  /\ Program[u][th[u].ip] = op

set_ready(u) ==
  /\ Running(u, "set_ready")
  /\ pu' = [pu EXCEPT ![u].ready_mutex = FALSE]
  /\ th' = [th EXCEPT ![u].ip = @ + 1]
  /\ UNCHANGED <<call, at, gen, registry, sigact, used, fault>>

(* It takes the other unit's ready_mutex, and keeps it.                    *)
wait_ready(u) ==
  /\ Running(u, "wait_ready")
  /\ ~pu[Peer(u)].ready_mutex
  /\ pu' = [pu EXCEPT ![Peer(u)].ready_mutex = TRUE]
  /\ th' = [th EXCEPT ![u].ip = @ + 1]
  /\ UNCHANGED <<call, at, gen, registry, sigact, used, fault>>

(* An irq of the other unit: pthread_kill on what its controller takes for *)
(* its thread.  A thread that has exited gets nothing.                     *)
interrupt(u) ==
  /\ Running(u, "interrupt")
  /\ IF ~pu[Peer(u)].pthread
     THEN Die("no thread to signal")
     ELSE /\ th' = [th EXCEPT ![u].ip = @ + 1,
                              ![Peer(u)].signal = ~Gone(Peer(u))]
          /\ UNCHANGED <<call, at, gen, pu, registry, sigact, used, fault>>

Exit(u) ==
  /\ At(u, "main")
  /\ th[u].ip > Len(Program[u])
  /\ Goto(u, "exited")
  /\ UNCHANGED <<call, at, gen, pu, registry, sigact, used, fault>>

(* The signal arrives: without a signal action it kills the process, and   *)
(* the handler dereferences what it finds under its thread in the map.     *)
Deliver(u) ==
  /\ fault = "none"
  /\ ~Gone(u)
  /\ th[u].signal
  /\ IF ~sigact \/ ~Registered(u)
     THEN Die("signal without a handler")
     ELSE /\ th' = [th EXCEPT ![u].signal = FALSE]
          /\ UNCHANGED <<call, at, gen, pu, registry, sigact, used, fault>>

-----------------------------------------------------------------------------
CallerStep ==
  \/ \E u \in Unit : \/ New(u) \/ SetName(u) \/ set_dest_irq_controller(u)
                     \/ set_main_function(u) \/ start(u) \/ stop(u)
                     \/ join(u) \/ Delete(u)
  \/ LoadConfig

ThreadStep(u) ==
  \/ Boot(u) \/ Sigaction(u) \/ Register(u) \/ Gate(u) \/ Check(u)
  \/ set_ready(u) \/ wait_ready(u) \/ interrupt(u) \/ Exit(u)

Next ==
  \/ \E c \in Api : Call(c)
  \/ CallerStep
  \/ \E u \in Unit : ThreadStep(u) \/ UseAfterFree(u) \/ Deliver(u)

Spec == Init /\ [][Next]_vars

(* The operating system runs every thread that can run; the caller does    *)
(* not have to make another call.                                          *)
Fairness ==
  /\ WF_vars(CallerStep)
  /\ \A u \in Unit : WF_vars(ThreadStep(u)) /\ WF_vars(Deliver(u))

FairSpec == Spec /\ Fairness

-----------------------------------------------------------------------------
(* Properties.                                                             *)

UnitState ==
  [alive : BOOLEAN, start_mutex : BOOLEAN, ready_mutex : BOOLEAN, stopped : BOOLEAN,
   main_func : BOOLEAN, pthread : BOOLEAN, dest : BOOLEAN, started : BOOLEAN]

ThreadState ==
  [pc : {"none", "boot", "sigaction", "register", "gate", "check", "main", "exited"},
   ip : Nat, tid : Tid \cup {NoTid}, joined : BOOLEAN, signal : BOOLEAN]

TypeOK ==
  /\ call \in Api \cup {"failed"}
  /\ at \in 0 .. 9
  /\ gen \in 0 .. GenMax
  /\ pu \in [Unit -> UnitState]
  /\ th \in [Unit -> ThreadState]
  /\ registry \in [Tid -> {Nobody} \cup (Unit \X (0 .. GenMax))]
  /\ sigact \in BOOLEAN
  /\ used \subseteq Tid
  /\ fault \in {"none", "use after free", "already registered", "main function not set",
                "no thread to signal", "signal without a handler", "uncaught exception"}

Waited(u) == \E i \in 1 .. th[u].ip - 1 : Program[u][i] = "wait_ready"

(* A unit that has waited for the other one may interrupt it: the other    *)
(* unit's controller knows its thread, the signal action is installed and  *)
(* the signal handler will find the controller, although the thread        *)
(* registers itself while the caller is still building the system.         *)
InterruptsFindHandler ==
  \A u \in Unit :
    th[u].pc = "main" /\ Waited(u) =>
      pu[Peer(u)].pthread /\ sigact /\ Registered(Peer(u))

(* A main function runs only on a system whose construction is complete    *)
(* and that the caller started, also when the thread is released by stop   *)
(* or destroy, or by a stop that overtakes a start.                        *)
MainNeedsStart ==
  \A u \in Unit :
    th[u].pc = "main" => /\ pu[u].started
                         /\ call # "create"
                         /\ \A v \in Unit : pu[v].alive /\ pu[v].main_func

(* No thread uses a ProcessingUnit or its IrqController after destroy      *)
(* freed them, in whatever order the API was called.  Only a create that   *)
(* fails on the name of a thread frees a unit whose thread goes on.        *)
NoUseAfterFree == fault = "use after free" => call = "failed"

(* A unit that was started, and whose thread then saw it stopped.          *)
Skipped(u) == pu[u].started /\ th[u].pc = "exited" /\ th[u].ip = 1

(* A second wait: the first one kept the other unit's ready_mutex, and a   *)
(* set_ready that came before it does not count any more.                  *)
WaitsAgain(u) == Running(u, "wait_ready") /\ Waited(u)

StuckAgain == (<>[]WaitsAgain(soc)) \/ (<>[]WaitsAgain(host))

(* Every API call returns, in particular the joins of wait, stop and       *)
(* destroy, whatever the threads were doing when they were released.  A    *)
(* call hangs only if a stop or destroy overtook the start, so that one    *)
(* thread skipped its main function and the other one waits for it, or if  *)
(* a unit is stuck in a second wait.                                       *)
HangsOnlyIfSkipped ==
  \/ StuckAgain
  \/ at > 0 ~> (at = 0 \/ fault # "none" \/ \E u \in Unit : Skipped(u))

(* The main function of a unit that was started runs to its end, through   *)
(* the gate and the waits for the other unit, unless the unit is stopped,  *)
(* the other one skipped its main function, or one is stuck in a second    *)
(* wait.                                                                   *)
MainCompletes ==
  \/ StuckAgain
  \/ \A u \in Unit :
       pu[u].started ~> \/ th[u].pc = "exited" /\ th[u].ip > Len(Program[u])
                        \/ pu[u].stopped
                        \/ \E v \in Unit : Skipped(v)
                        \/ fault # "none"

(* Only a thread that registers twice is refused: "Irq signal handler      *)
(* already registered" (IrqController.cpp:62).                             *)
FreshThreadRegisters == fault # "already registered"

(* A system that hwmocker_create returned has its destination controllers, *)
(* so that dest_raise can "Raise qn irq on the destination Hw element"     *)
(* (IrqController.hpp:58); they are set once (IrqController.cpp:27-32).    *)
DestStaysSet ==
  call = "create" /\ at = 0 => \A u \in Unit : pu[u].dest
=============================================================================
