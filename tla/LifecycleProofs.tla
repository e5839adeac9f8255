-------------------------- MODULE LifecycleProofs --------------------------
(* What module Lifecycle promises for any main functions, any order of     *)
(* the caller's calls, any failures and any number of systems.             *)
EXTENDS Lifecycle, TLAPS

USE UnitAssumption

-----------------------------------------------------------------------------
(* The inductive invariant.                                                *)

(* The steps a call has.                                                   *)
AtStep ==
  \/ call = "create" /\ at \in 0 .. 9
  \/ call \in {"start", "wait"} /\ at \in 0 .. 2
  \/ call = "stop" /\ at \in 0 .. 4
  \/ call = "destroy" /\ at \in 0 .. 6
  \/ call = "failed" /\ at = 0

(* What create has made so far.                                            *)
Building ==
  call = "create" /\ at > 0 =>
    /\ IF at > 1 THEN pu[soc].alive ELSE Gone(soc) /\ ~pu[soc].alive
    /\ IF at > 3 THEN pu[host].alive ELSE Gone(host) /\ ~pu[host].alive
    /\ at > 6 => pu[soc].main_func
    /\ at > 8 => pu[host].main_func

(* What the other calls find, until destroy deletes it.                    *)
Constructed ==
  \/ call \in {"start", "stop", "wait"}
  \/ call = "create" /\ at = 0
  \/ call = "destroy" /\ at \in 1 .. 5
  => \A u \in Unit : pu[u].alive /\ pu[u].main_func

(* What destroy leaves: it has joined both threads before it deletes.      *)
Ended ==
  call = "destroy" =>
    /\ at \notin 1 .. 2 => Gone(soc)
    /\ at \notin 1 .. 4 => Gone(host)
    /\ at \notin 1 .. 5 => ~pu[soc].alive
    /\ at = 0 => ~pu[host].alive

(* No main function before a start, whatever opens the gate.               *)
NotReleased ==
  /\ call \in {"create", "failed"} =>
       \A u \in Unit : Gone(u) \/ (pu[u].stopped /\ th[u].pc # "main")
  /\ \A u \in Unit : /\ ~pu[u].stopped => pu[u].started
                     /\ th[u].pc = "main" => pu[u].started
                     /\ th[u].joined => th[u].pc = "exited"

(* A thread that reached the gate is in the map, as the one of its system. *)
Registering ==
  /\ gen > 0 \/ (call = "destroy" /\ at = 0)
  /\ \A u \in Unit :
       /\ th[u].pc # "none" => th[u].tid \in Tid
       /\ pu[u].alive /\ th[u].pc \notin {"none", "boot"} => pu[u].pthread
       /\ pu[u].alive /\ th[u].pc \notin {"none", "boot", "sigaction"} => sigact
       /\ pu[u].alive /\ th[u].pc \notin {"none", "boot", "sigaction", "register"} =>
            Registered(u)

(* The ready mutex opens only when the main function runs.                 *)
Handshaking ==
  \A u \in Unit :
    /\ th[u].pc \notin {"main", "exited"} => th[u].ip = 1
    /\ pu[u].alive /\ ~pu[u].ready_mutex => th[u].pc \in {"main", "exited"}
    /\ th[u].pc = "main" /\ Waited(u) => th[Peer(u)].pc \in {"main", "exited"}

IInv ==
  /\ TypeOK
  /\ AtStep
  /\ Building
  /\ Constructed
  /\ Ended
  /\ NotReleased
  /\ Registering
  /\ Handshaking
  /\ NoUseAfterFree

-----------------------------------------------------------------------------
(* Assigning a field of a unit, or of its thread.                          *)

LEMMA UnitFields ==
  ASSUME NEW r \in UnitState, NEW b \in BOOLEAN
  PROVE  /\ [r EXCEPT !.alive = b] \in UnitState
         /\ [r EXCEPT !.start_mutex = b] \in UnitState
         /\ [r EXCEPT !.ready_mutex = b] \in UnitState
         /\ [r EXCEPT !.stopped = b] \in UnitState
         /\ [r EXCEPT !.main_func = b] \in UnitState
         /\ [r EXCEPT !.pthread = b] \in UnitState
         /\ [r EXCEPT !.dest = b] \in UnitState
         /\ [r EXCEPT !.started = b] \in UnitState
BY DEF UnitState

LEMMA ThreadFields ==
  ASSUME NEW r \in ThreadState, NEW b \in BOOLEAN, NEW n \in Nat,
         NEW pc \in {"none", "boot", "sigaction", "register", "gate", "check", "main",
                     "exited"}
  PROVE  /\ [r EXCEPT !.pc = pc] \in ThreadState
         /\ [r EXCEPT !.ip = n] \in ThreadState
         /\ [r EXCEPT !.joined = b] \in ThreadState
         /\ [r EXCEPT !.signal = b] \in ThreadState
BY DEF ThreadState

-----------------------------------------------------------------------------
(* Where the caller is when it does a step, and where it goes from there.  *)

LEMMA ScriptSteps ==
  /\ DOMAIN Script = Api
  /\ Len(Script.create) = 9 /\ Len(Script.start) = 2 /\ Len(Script.stop) = 4
  /\ Len(Script.wait) = 2 /\ Len(Script.destroy) = 6
  /\ Script.create[1] = <<"new", soc>> /\ Script.create[2] = <<"setname", soc>>
  /\ Script.create[3] = <<"new", host>> /\ Script.create[4] = <<"setname", host>>
  /\ Script.create[5] = <<"set_dest", host>> /\ Script.create[6] = <<"set_main", soc>>
  /\ Script.create[7] = <<"set_dest", soc>> /\ Script.create[8] = <<"set_main", host>>
  /\ Script.create[9] = <<"load_config", soc>>
  /\ Script.start[1] = <<"start", host>> /\ Script.start[2] = <<"start", soc>>
  /\ Script.stop[1] = <<"stop", soc>> /\ Script.stop[2] = <<"join", soc>>
  /\ Script.stop[3] = <<"stop", host>> /\ Script.stop[4] = <<"join", host>>
  /\ Script.wait[1] = <<"join", soc>> /\ Script.wait[2] = <<"join", host>>
  /\ Script.destroy[1] = <<"stop", soc>> /\ Script.destroy[2] = <<"join", soc>>
  /\ Script.destroy[3] = <<"stop", host>> /\ Script.destroy[4] = <<"join", host>>
  /\ Script.destroy[5] = <<"delete", soc>> /\ Script.destroy[6] = <<"delete", host>>
BY DEF Script, Api

Nth(u, m, n) == IF u = soc THEN m ELSE n

LEMMA DoingWhere ==
  ASSUME AtStep, NEW op, NEW u, Doing(op, u)
  PROVE  /\ u \in Unit
         /\ op = "new" => call = "create" /\ at = Nth(u, 1, 3)
         /\ op = "setname" => call = "create" /\ at = Nth(u, 2, 4)
         /\ op = "set_dest" => call = "create" /\ at = Nth(u, 7, 5)
         /\ op = "set_main" => call = "create" /\ at = Nth(u, 6, 8)
         /\ op = "load_config" => call = "create" /\ at = 9
         /\ op = "start" => call = "start" /\ at = Nth(u, 2, 1)
         /\ op = "stop" => call \in {"stop", "destroy"} /\ at = Nth(u, 1, 3)
         /\ op = "join" => \/ call = "wait" /\ at = Nth(u, 1, 2)
                           \/ call \in {"stop", "destroy"} /\ at = Nth(u, 2, 4)
         /\ op = "delete" => call = "destroy" /\ at = Nth(u, 5, 6)
<1>1. CASE call = "create"
  BY <1>1, ScriptSteps DEF AtStep, Doing, Nth, Unit
<1>2. CASE call = "destroy"
  BY <1>2, ScriptSteps DEF AtStep, Doing, Nth, Unit
<1>3. CASE call \in {"start", "stop", "wait", "failed"}
  BY <1>3, ScriptSteps DEF AtStep, Doing, Nth, Unit
<1>4. QED BY <1>1, <1>2, <1>3 DEF AtStep

LEMMA AdvanceTo ==
  ASSUME AtStep, at > 0, Advance
  PROVE  /\ call' = call /\ gen' = gen
         /\ at' = IF \/ call = "create" /\ at = 9
                     \/ call \in {"start", "wait"} /\ at = 2
                     \/ call = "stop" /\ at = 4
                     \/ call = "destroy" /\ at = 6
                  THEN 0 ELSE at + 1
<1> DEFINE n == Len(Script[call])
<1>1. /\ call = "create" => n = 9
      /\ call \in {"start", "wait"} => n = 2
      /\ call = "stop" => n = 4
      /\ call = "destroy" => n = 6
  BY ScriptSteps
<1>2. IF at = n THEN Return ELSE at' = at + 1 /\ UNCHANGED <<call, gen>>
  BY DEF Advance
<1> HIDE DEF n
<1>3. QED BY <1>1, <1>2 DEF AtStep, Return

-----------------------------------------------------------------------------
(* The caller's steps.                                                     *)

LEMMA CallKeeps ==
  ASSUME IInv, NEW c \in Api, Call(c)
  PROVE  IInv'
<1>1. <<call, c>> \in Follows /\ at = 0 /\ fault = "none"
  BY DEF Call
<1>2. call \in Api /\ (c = "create" <=> call = "destroy")
  BY <1>1, FollowsAssumption
<1>3. TypeOK' /\ AtStep'
  BY <1>2, GenMaxAssumption DEF IInv, TypeOK, AtStep, Call, Api
<1>4. Building' /\ Constructed' /\ Ended'
  BY <1>1, <1>2 DEF IInv, Building, Constructed, Ended, Gone, Call, Unit, Api
<1>5. NotReleased' /\ NoUseAfterFree'
  BY <1>1, <1>2 DEF IInv, NotReleased, Ended, NoUseAfterFree, Gone, Call, Unit, Api
<1>6. Registering'
  BY <1>1, <1>2, GenMaxAssumption DEF IInv, TypeOK, Registering, Registered, Ended, Call, Unit, Api
<1>7. Handshaking'
  BY DEF IInv, Handshaking, Waited, Call
<1>8. QED BY <1>3, <1>4, <1>5, <1>6, <1>7 DEF IInv

LEMMA NewKeeps ==
  ASSUME IInv, NEW u \in Unit, New(u)
  PROVE  IInv'
<1>1. call = "create" /\ at = Nth(u, 1, 3) /\ fault = "none"
  BY DoingWhere DEF IInv, New, Doing
<1>2. Gone(u) /\ ~pu[u].alive
  BY <1>1 DEF IInv, Building, Nth, Unit
<1>3. CASE CreateFails /\ UNCHANGED <<pu, th, used, registry, sigact, fault>>
  <2>1. TypeOK' /\ AtStep' /\ Building' /\ Constructed' /\ Ended'
    BY <1>1, <1>3 DEF IInv, TypeOK, AtStep, Building, Constructed, Ended, CreateFails
  <2>2. NotReleased' /\ Registering' /\ Handshaking' /\ NoUseAfterFree'
    BY <1>1, <1>3 DEF IInv, NotReleased, Registering, Registered, Handshaking, Waited,
                      Gone, NoUseAfterFree, CreateFails
  <2>3. QED BY <2>1, <2>2 DEF IInv
<1>4. ASSUME NEW t \in FreeTid,
             pu' = [pu EXCEPT ![u] = Created],
             th' = [th EXCEPT ![u] = NewThread("boot", t)],
             used' = used \cup {t},
             Advance, UNCHANGED <<registry, sigact, fault>>
      PROVE  IInv'
  <2>1. t \in Tid
    BY <1>4 DEF FreeTid
  <2>2. call' = "create" /\ gen' = gen /\ at' = Nth(u, 2, 4)
    BY <1>1, <1>4, AdvanceTo DEF IInv, Nth
  <2>3. TypeOK'
    <3>1. Created \in UnitState /\ NewThread("boot", t) \in ThreadState
      BY <2>1 DEF Created, NoUnit, NewThread, UnitState, ThreadState
    <3>2. QED BY <1>1, <1>4, <2>1, <2>2, <3>1 DEF IInv, TypeOK, Nth
  <2>4. AtStep' /\ Constructed' /\ Ended'
    BY <2>2 DEF AtStep, Constructed, Ended, Nth
  <2>5. Building'
    BY <1>1, <1>4, <2>2 DEF IInv, TypeOK, Building, Gone, Created, NoUnit, NewThread,
                            Nth, Unit
  <2>6. NotReleased' /\ NoUseAfterFree'
    BY <1>1, <1>4 DEF IInv, TypeOK, NotReleased, NoUseAfterFree, Gone, Created, NoUnit,
                      NewThread
  <2>7. Registering'
    BY <1>1, <1>4, <2>1, <2>2 DEF IInv, TypeOK, Registering, Registered, Created, NoUnit,
                                  NewThread
  <2>8. Handshaking'
    BY <1>1, <1>4 DEF IInv, TypeOK, Handshaking, NotReleased, Waited, Gone, Created,
                      NoUnit, NewThread
  <2>9. QED BY <2>3, <2>4, <2>5, <2>6, <2>7, <2>8 DEF IInv
<1>5. QED BY <1>3, <1>4 DEF New

(* A step of create after the constructors that keeps the threads and what *)
(* their registration depends on                                           *)
LEMMA CreateStepKeeps ==
  ASSUME IInv, NEW u \in Unit,
         SetName(u) \/ set_dest_irq_controller(u) \/ set_main_function(u)
  PROVE  IInv'
<1>1. call = "create" /\ at \in 2 .. 8 /\ fault = "none" /\ UNCHANGED <<th, fault>>
  BY DoingWhere DEF IInv, SetName, set_dest_irq_controller, set_main_function, Doing, Nth
<1>2. \/ CreateFails /\ call' = "failed" /\ at' = 0
      \/ Advance /\ call' = "create" /\ at' = at + 1
  BY <1>1, AdvanceTo DEF IInv, CreateFails, SetName, set_dest_irq_controller,
                         set_main_function
<1>3. UNCHANGED <<gen, registry, sigact, used>>
  BY <1>1, AdvanceTo DEF IInv, CreateFails, SetName, set_dest_irq_controller,
                         set_main_function
<1>4. /\ pu' \in [Unit -> UnitState]
      /\ \A v \in Unit :
           /\ pu'[v].alive => pu[v].alive
           /\ at' # 0 => pu'[v].alive = pu[v].alive
           /\ pu[v].main_func => pu'[v].main_func
           /\ pu'[v].stopped = pu[v].stopped /\ pu'[v].started = pu[v].started
           /\ pu'[v].pthread = pu[v].pthread /\ pu'[v].ready_mutex = pu[v].ready_mutex
  <2> TypeOK
    BY DEF IInv
  <2>1. CASE pu' = pu
    BY <2>1 DEF TypeOK
  <2>2. CASE pu' = [pu EXCEPT ![u].alive = FALSE] /\ at' = 0
    <3>1. pu' \in [Unit -> UnitState]
      BY <2>2, UnitFields DEF TypeOK
    <3>2. QED BY <2>2, <3>1 DEF TypeOK, UnitState
  <2>3. CASE pu' = [pu EXCEPT ![u].dest = TRUE]
    <3>1. pu' \in [Unit -> UnitState]
      BY <2>3, UnitFields DEF TypeOK
    <3>2. QED BY <2>3, <3>1 DEF TypeOK, UnitState
  <2>4. CASE pu' = [pu EXCEPT ![u].main_func = TRUE]
    <3>1. pu' \in [Unit -> UnitState]
      BY <2>4, UnitFields DEF TypeOK
    <3>2. QED BY <2>4, <3>1 DEF TypeOK, UnitState
  <2>5. QED BY <2>1, <2>2, <2>3, <2>4 DEF SetName, set_dest_irq_controller,
                                        set_main_function, CreateFails
<1>5. at' # 0 /\ at = Nth(u, 6, 8) => pu'[u].main_func
  <2>1. at = Nth(u, 6, 8) => set_main_function(u)
    BY DoingWhere DEF IInv, SetName, set_dest_irq_controller, Nth
  <2>2. TypeOK
    BY DEF IInv
  <2>3. set_main_function(u) => pu' = [pu EXCEPT ![u].main_func = TRUE]
    BY DEF set_main_function
  <2>4. pu' = [pu EXCEPT ![u].main_func = TRUE] => pu'[u].main_func
    BY <2>2 DEF TypeOK, UnitState
  <2>5. QED BY <2>1, <2>3, <2>4
<1>6. TypeOK' /\ AtStep'
  BY <1>1, <1>2, <1>3, <1>4 DEF IInv, TypeOK, AtStep
<1>7. Constructed' /\ Ended'
  BY <1>1, <1>2 DEF Constructed, Ended
<1>8. Building'
  BY <1>1, <1>2, <1>4, <1>5, DoingWhere
  DEF IInv, Building, Gone, Nth, Unit, SetName, set_dest_irq_controller, set_main_function
<1>9. NotReleased' /\ NoUseAfterFree'
  BY <1>1, <1>2, <1>4 DEF IInv, NotReleased, NoUseAfterFree, Gone
<1>10. Registering' /\ Handshaking'
  BY <1>1, <1>2, <1>3, <1>4 DEF IInv, Registering, Registered, Handshaking, Waited
<1>11. QED BY <1>6, <1>7, <1>8, <1>9, <1>10 DEF IInv

LEMMA LoadConfigKeeps ==
  ASSUME IInv, LoadConfig
  PROVE  IInv'
<1>1. call = "create" /\ at = 9 /\ fault = "none"
  BY DoingWhere DEF IInv, LoadConfig, Doing
<1>2. UNCHANGED <<pu, th, registry, sigact, used>>
  BY DEF LoadConfig
<1>3. call' = "create" /\ gen' = gen /\ at' \in {0, 9}
  <2>1. CASE Advance
    BY <1>1, <2>1, AdvanceTo DEF IInv
  <2>2. CASE UNCHANGED <<call, at, gen>>
    BY <1>1, <2>2
  <2>3. QED BY <2>1, <2>2 DEF LoadConfig
<1>4. fault' \in {"none", "uncaught exception"}
  BY <1>1 DEF LoadConfig
<1>5. TypeOK'
  <2>1. at' \in 0 .. 9 /\ call' \in Api
    BY <1>3 DEF Api
  <2>2. QED BY <1>2, <1>3, <1>4, <2>1 DEF IInv, TypeOK
<1>6. AtStep' /\ Ended'
  BY <1>3 DEF AtStep, Ended
<1>7. Building' /\ Constructed'
  BY <1>1, <1>2, <1>3 DEF IInv, Building, Constructed, Gone, Unit
<1>8. NotReleased' /\ NoUseAfterFree'
  BY <1>1, <1>2, <1>3, <1>4 DEF IInv, NotReleased, Gone, NoUseAfterFree
<1>9. Registering' /\ Handshaking'
  BY <1>1, <1>2, <1>3 DEF IInv, Registering, Registered, Handshaking, Waited
<1>10. QED BY <1>5, <1>6, <1>7, <1>8, <1>9 DEF IInv

(* start and stop write to the unit; join and Delete follow their order.   *)
LEMMA StartStopKeeps ==
  ASSUME IInv, NEW u \in Unit, start(u) \/ stop(u)
  PROVE  IInv'
<1>1. /\ call \in {"start", "stop", "destroy"}
      /\ at > 0 /\ fault = "none"
      /\ start(u) => call = "start" /\ at = Nth(u, 2, 1)
      /\ stop(u) => call \in {"stop", "destroy"} /\ at = Nth(u, 1, 3)
  BY DoingWhere DEF IInv, start, stop, Doing, Nth
<1>2. UNCHANGED <<th, registry, sigact, used, fault>> /\ Advance
  BY DEF start, stop
<1>3. call' = call /\ gen' = gen /\ at' \in Nat
  BY <1>1, <1>2, AdvanceTo DEF IInv, Nth
<1>4. call = "destroy" => at' = Nth(u, 2, 4) /\ at' = at + 1
  BY <1>1, <1>2, AdvanceTo DEF IInv, Nth
<1>5. TypeOK /\ pu' \in [Unit -> UnitState]
  <2> DEFINE f(b) == [pu EXCEPT ![u].stopped = b]
             g(b) == [f(b) EXCEPT ![u].start_mutex = FALSE]
             h == [g(FALSE) EXCEPT ![u].started = TRUE]
  <2>1. TypeOK
    BY DEF IInv
  <2>2. \A b \in BOOLEAN : f(b) \in [Unit -> UnitState]
    BY <2>1, UnitFields DEF TypeOK
  <2> HIDE DEF f
  <2>3. \A b \in BOOLEAN : g(b) \in [Unit -> UnitState]
    BY <2>2, UnitFields
  <2> HIDE DEF g
  <2>4. h \in [Unit -> UnitState]
    BY <2>3, UnitFields
  <2> HIDE DEF h
  <2>5. start(u) => pu' = h
    BY DEF start, f, g, h
  <2>6. stop(u) => pu' = g(TRUE)
    BY DEF stop, f, g
  <2>7. QED BY <2>1, <2>3, <2>4, <2>5, <2>6
<1>6. \A v \in Unit :
        /\ pu'[v].alive = pu[v].alive /\ pu'[v].main_func = pu[v].main_func
        /\ pu'[v].pthread = pu[v].pthread /\ pu'[v].ready_mutex = pu[v].ready_mutex
        /\ pu[v].started => pu'[v].started
        /\ ~pu'[v].stopped => ~pu[v].stopped \/ pu'[v].started
  <2>1. CASE start(u)
    BY <1>5, <2>1 DEF TypeOK, UnitState, start
  <2>2. CASE stop(u)
    BY <1>5, <2>2 DEF TypeOK, UnitState, stop
  <2>3. QED BY <2>1, <2>2
<1>7. AtStep'
  BY <1>1, <1>2, AdvanceTo DEF IInv, AtStep, Nth
<1>8. TypeOK'
  <2>1. at' \in 0 .. 9
    BY <1>7 DEF AtStep
  <2>2. QED BY <1>2, <1>3, <1>5, <2>1 DEF TypeOK
<1>9. Building' /\ Constructed'
  BY <1>1, <1>3, <1>4, <1>6 DEF IInv, Building, Constructed, Nth
<1>10. Ended'
  BY <1>1, <1>2, <1>3, <1>4 DEF IInv, Ended, Gone, Nth
<1>11. NotReleased' /\ NoUseAfterFree'
  BY <1>1, <1>2, <1>3, <1>6 DEF IInv, NotReleased, NoUseAfterFree
<1>12. Registering'
  BY <1>1, <1>2, <1>3, <1>6 DEF IInv, Registering, Registered
<1>13. Handshaking'
  BY <1>2, <1>6 DEF IInv, Handshaking, Waited
<1>14. QED BY <1>7, <1>8, <1>9, <1>10, <1>11, <1>12, <1>13 DEF IInv

LEMMA JoinKeeps ==
  ASSUME IInv, NEW u \in Unit, join(u)
  PROVE  IInv'
<1>1. /\ at > 0 /\ fault = "none"
      /\ \/ call = "wait" /\ at = Nth(u, 1, 2)
         \/ call \in {"stop", "destroy"} /\ at = Nth(u, 2, 4)
  BY DoingWhere DEF IInv, join, Doing
<1>2. UNCHANGED <<pu, registry, sigact, used, fault>> /\ Advance
  BY DEF join
<1>3. call' = call /\ gen' = gen
  BY <1>1, <1>2, AdvanceTo DEF IInv
<1>4. call = "destroy" => at' = Nth(u, 3, 5)
  BY <1>1, <1>2, AdvanceTo DEF IInv, Nth
<1>5. TypeOK /\ th' \in [Unit -> ThreadState] /\ th[u].pc = "exited"
  <2>1. TypeOK
    BY DEF IInv
  <2>2. th[u].pc = "exited"
    BY <2>1 DEF IInv, NotReleased, join
  <2>3. [th[u] EXCEPT !.joined = TRUE] \in ThreadState
    BY <2>1, ThreadFields DEF TypeOK
  <2>4. QED BY <2>1, <2>2, <2>3 DEF TypeOK, join
<1>6. \A v \in Unit : /\ th'[v].pc = th[v].pc /\ th'[v].tid = th[v].tid
                      /\ th'[v].ip = th[v].ip
                      /\ th'[v].joined => th[v].joined \/ v = u
  BY <1>5 DEF TypeOK, ThreadState, join
<1>7. AtStep'
  BY <1>1, <1>2, AdvanceTo DEF IInv, AtStep, Nth
<1>8. TypeOK'
  <2>1. at' \in 0 .. 9
    BY <1>7 DEF AtStep
  <2>2. QED BY <1>2, <1>3, <1>5, <2>1 DEF TypeOK
<1>9. Building' /\ Constructed'
  BY <1>1, <1>2, <1>3, <1>4 DEF IInv, Building, Constructed, Nth
<1>10. Ended'
  BY <1>1, <1>2, <1>3, <1>4, <1>5, <1>6 DEF IInv, Ended, Gone, Nth, Unit
<1>11. NotReleased' /\ NoUseAfterFree'
  BY <1>1, <1>2, <1>3, <1>5, <1>6 DEF IInv, NotReleased, NoUseAfterFree, Gone
<1>12. Registering'
  BY <1>1, <1>2, <1>3, <1>6 DEF IInv, Registering, Registered
<1>13. Handshaking'
  BY <1>2, <1>6 DEF IInv, Handshaking, Waited, Peer, Unit
<1>14. QED BY <1>7, <1>8, <1>9, <1>10, <1>11, <1>12, <1>13 DEF IInv

LEMMA DeleteKeeps ==
  ASSUME IInv, NEW u \in Unit, Delete(u)
  PROVE  IInv'
<1>1. call = "destroy" /\ at = Nth(u, 5, 6) /\ fault = "none"
  BY DoingWhere DEF IInv, Delete, Doing
<1>2. UNCHANGED <<th, registry, sigact, used, fault>> /\ Advance
  BY DEF Delete
<1>3. call' = "destroy" /\ gen' = gen /\ at' = Nth(u, 6, 0)
  BY <1>1, <1>2, AdvanceTo DEF IInv, Nth
<1>4. Gone(soc) /\ Gone(host)
  BY <1>1 DEF IInv, Ended, Nth
<1>5. TypeOK /\ pu' \in [Unit -> UnitState]
  <2>1. TypeOK
    BY DEF IInv
  <2>2. [pu[u] EXCEPT !.alive = FALSE] \in UnitState
    BY <2>1, UnitFields DEF TypeOK
  <2>3. QED BY <2>1, <2>2 DEF TypeOK, Delete
<1>6. /\ ~pu'[u].alive
      /\ \A v \in Unit :
           /\ pu'[v].alive => pu[v].alive
           /\ pu'[v].pthread = pu[v].pthread /\ pu'[v].ready_mutex = pu[v].ready_mutex
           /\ pu'[v].started = pu[v].started /\ pu'[v].stopped = pu[v].stopped
  BY <1>5 DEF TypeOK, UnitState, Delete
<1>7. TypeOK' /\ AtStep'
  BY <1>1, <1>2, <1>3, <1>5 DEF TypeOK, AtStep, Nth
<1>8. Building' /\ Constructed'
  BY <1>3 DEF Building, Constructed, Nth
<1>9. Ended'
  BY <1>1, <1>2, <1>3, <1>4, <1>6 DEF IInv, Ended, Gone, Nth, Unit
<1>10. NotReleased' /\ NoUseAfterFree'
  BY <1>1, <1>2, <1>3, <1>6 DEF IInv, NotReleased, NoUseAfterFree
<1>11. Registering'
  BY <1>1, <1>2, <1>3, <1>6 DEF IInv, Registering, Registered, Nth
<1>12. Handshaking'
  BY <1>2, <1>4, <1>6 DEF IInv, Handshaking, Waited, Gone, Unit
<1>13. QED BY <1>7, <1>8, <1>9, <1>10, <1>11, <1>12 DEF IInv

-----------------------------------------------------------------------------
(* The steps of a thread.                                                  *)

LEMMA GotoMoves ==
  ASSUME TypeOK, NEW u \in Unit,
         NEW pc \in {"sigaction", "register", "gate", "check", "main", "exited"},
         Goto(u, pc)
  PROVE  /\ th' \in [Unit -> ThreadState]
         /\ \A v \in Unit : /\ th'[v].pc = IF v = u THEN pc ELSE th[v].pc
                            /\ th'[v].tid = th[v].tid /\ th'[v].ip = th[v].ip
                            /\ th'[v].joined = th[v].joined
<1>1. th \in [Unit -> ThreadState] /\ th' = [th EXCEPT ![u].pc = pc]
  BY DEF TypeOK, Goto
<1>2. [th[u] EXCEPT !.pc = pc] \in ThreadState
  BY <1>1, ThreadFields
<1>3. th' \in [Unit -> ThreadState]
  BY <1>1, <1>2
<1>4. QED BY <1>1, <1>3 DEF ThreadState

LEMMA IpAdvances ==
  ASSUME TypeOK, NEW u \in Unit
  PROVE  LET t == [th EXCEPT ![u].ip = @ + 1] IN
         /\ t \in [Unit -> ThreadState] /\ th[u].ip \in Nat
         /\ \A v \in Unit : /\ t[v].pc = th[v].pc /\ t[v].tid = th[v].tid
                            /\ t[v].joined = th[v].joined
                            /\ t[v].ip = IF v = u THEN th[u].ip + 1 ELSE th[v].ip
<1>1. th \in [Unit -> ThreadState]
  BY DEF TypeOK
<1>2. th[u].ip + 1 \in Nat /\ th[u].ip \in Nat
  BY <1>1 DEF ThreadState
<1>3. [th[u] EXCEPT !.ip = @ + 1] \in ThreadState
  BY <1>1, <1>2, ThreadFields
<1>4. QED BY <1>1, <1>2, <1>3 DEF ThreadState

LEMMA IpMoves ==
  ASSUME TypeOK, NEW u \in Unit, th' = [th EXCEPT ![u].ip = @ + 1]
  PROVE  /\ th' \in [Unit -> ThreadState] /\ th[u].ip \in Nat
         /\ \A v \in Unit : /\ th'[v].pc = th[v].pc /\ th'[v].tid = th[v].tid
                            /\ th'[v].joined = th[v].joined
                            /\ th'[v].ip = IF v = u THEN th[u].ip + 1 ELSE th[v].ip
BY IpAdvances

(* A thread that has work to do has its unit, except after a create that   *)
(* failed.                                                                 *)
LEMMA RunningIsAlive ==
  ASSUME IInv, NEW u \in Unit, ~Gone(u), call # "failed"
  PROVE  pu[u].alive
<1>1. CASE call = "create" /\ at > 0
  BY <1>1 DEF IInv, Building, Unit
<1>2. CASE call = "destroy"
  BY <1>2 DEF IInv, AtStep, Ended, Constructed, Unit
<1>3. QED BY <1>1, <1>2 DEF IInv, AtStep, Constructed

(* A main function has a complete system.                                  *)
LEMMA MainIsComplete ==
  ASSUME IInv, NEW u \in Unit, th[u].pc = "main"
  PROVE  /\ call \in {"start", "stop", "wait"} \/ (call = "destroy" /\ at \in 1 .. 4)
         /\ pu[u].started
         /\ \A v \in Unit : pu[v].alive /\ pu[v].main_func
<1>1. call \notin {"create", "failed"} /\ pu[u].started
  BY DEF IInv, NotReleased, Gone
<1>2. call = "destroy" => at \in 1 .. 4
  BY DEF IInv, AtStep, Ended, Gone, Unit
<1>3. QED BY <1>1, <1>2 DEF IInv, AtStep, Constructed

(* The part of the invariant that depends on the caller, under a step of a *)
(* thread that does not stop being there or start its main function.       *)
LEMMA ThreadFrame ==
  ASSUME IInv, NEW u \in Unit, ~Gone(u),
         UNCHANGED <<call, at, gen>>,
         fault' # "use after free",
         \A v \in Unit : /\ v # u => th'[v].pc = th[v].pc
                         /\ th'[v].joined = th[v].joined
                         /\ pu'[v].alive = pu[v].alive /\ pu'[v].main_func = pu[v].main_func
                         /\ pu'[v].stopped = pu[v].stopped /\ pu'[v].started = pu[v].started,
         th'[u].pc = "main" => th[u].pc = "main" \/ ~pu[u].stopped
  PROVE  AtStep' /\ Building' /\ Constructed' /\ Ended' /\ NotReleased' /\ NoUseAfterFree'
<1>1. AtStep' /\ Constructed' /\ NoUseAfterFree'
  BY DEF IInv, AtStep, Constructed, NoUseAfterFree
<1>2. \A v \in Unit : Gone(v) => v # u /\ Gone(v)'
  BY DEF Gone
<1>3. Building' /\ Ended'
  BY <1>2 DEF IInv, Building, Ended, Unit
<1>4. NotReleased'
  BY <1>2 DEF IInv, NotReleased, Gone
<1>5. QED BY <1>1, <1>3, <1>4

LEMMA BootKeeps ==
  ASSUME IInv, NEW u \in Unit, Boot(u)
  PROVE  IInv'
<1>1. /\ TypeOK /\ th[u].pc = "boot" /\ ~Gone(u) /\ fault' = "none"
      /\ UNCHANGED <<call, at, gen, registry, sigact, used>>
      /\ Goto(u, "sigaction")
  BY DEF IInv, Boot, At, Gone
<1>2. pu' \in [Unit -> UnitState]
  <2> DEFINE f == [pu EXCEPT ![u].pthread = TRUE]
  <2>1. f \in [Unit -> UnitState]
    BY <1>1, UnitFields DEF TypeOK
  <2>2. pu' = [f EXCEPT ![u].dest = FALSE]
    BY DEF Boot
  <2> HIDE DEF f
  <2>3. QED BY <2>1, <2>2, UnitFields
<1>3. \A v \in Unit :
        /\ pu'[v].alive = pu[v].alive /\ pu'[v].main_func = pu[v].main_func
        /\ pu'[v].stopped = pu[v].stopped /\ pu'[v].started = pu[v].started
        /\ pu'[v].ready_mutex = pu[v].ready_mutex
        /\ pu'[v].pthread = IF v = u THEN TRUE ELSE pu[v].pthread
  BY <1>1, <1>2 DEF TypeOK, UnitState, Boot
<1>4. /\ th' \in [Unit -> ThreadState]
      /\ \A v \in Unit : /\ th'[v].pc = IF v = u THEN "sigaction" ELSE th[v].pc
                         /\ th'[v].tid = th[v].tid /\ th'[v].ip = th[v].ip
                         /\ th'[v].joined = th[v].joined
  BY <1>1, GotoMoves
<1>5. TypeOK'
  BY <1>1, <1>2, <1>4 DEF TypeOK
<1>6. AtStep' /\ Building' /\ Constructed' /\ Ended' /\ NotReleased' /\ NoUseAfterFree'
  BY <1>1, <1>3, <1>4, ThreadFrame
<1>7. Registering'
  BY <1>1, <1>3, <1>4 DEF IInv, Registering, Registered
<1>8. Handshaking'
  BY <1>1, <1>3, <1>4 DEF IInv, Handshaking, Waited, Peer, Unit
<1>9. QED BY <1>5, <1>6, <1>7, <1>8 DEF IInv

LEMMA SigactionKeeps ==
  ASSUME IInv, NEW u \in Unit, Sigaction(u)
  PROVE  IInv'
<1>1. /\ TypeOK /\ th[u].pc = "sigaction" /\ ~Gone(u) /\ fault' = "none"
      /\ UNCHANGED <<call, at, gen, pu, registry, used>> /\ sigact' = TRUE
      /\ Goto(u, "register")
  BY DEF IInv, Sigaction, At, Gone
<1>2. /\ th' \in [Unit -> ThreadState]
      /\ \A v \in Unit : /\ th'[v].pc = IF v = u THEN "register" ELSE th[v].pc
                         /\ th'[v].tid = th[v].tid /\ th'[v].ip = th[v].ip
                         /\ th'[v].joined = th[v].joined
  BY <1>1, GotoMoves
<1>3. TypeOK'
  BY <1>1, <1>2 DEF TypeOK
<1>4. AtStep' /\ Building' /\ Constructed' /\ Ended' /\ NotReleased' /\ NoUseAfterFree'
  BY <1>1, <1>2, ThreadFrame
<1>5. Registering'
  BY <1>1, <1>2 DEF IInv, Registering, Registered
<1>6. Handshaking'
  BY <1>1, <1>2 DEF IInv, Handshaking, Waited, Peer, Unit
<1>7. QED BY <1>3, <1>4, <1>5, <1>6 DEF IInv

(* The place of a thread that is in the map already is nobody else's.      *)
LEMMA RegisterKeeps ==
  ASSUME IInv, NEW u \in Unit, Register(u), registry[th[u].tid] = Nobody
  PROVE  IInv'
<1>1. /\ TypeOK /\ th[u].pc = "register" /\ ~Gone(u) /\ fault' = "none"
      /\ UNCHANGED <<call, at, gen, pu, sigact, used>>
      /\ registry' = [registry EXCEPT ![th[u].tid] = <<u, gen>>]
      /\ Goto(u, "gate")
  BY DEF IInv, Register, At, Gone
<1>2. /\ th' \in [Unit -> ThreadState]
      /\ \A v \in Unit : /\ th'[v].pc = IF v = u THEN "gate" ELSE th[v].pc
                         /\ th'[v].tid = th[v].tid /\ th'[v].ip = th[v].ip
                         /\ th'[v].joined = th[v].joined
  BY <1>1, GotoMoves
<1>3. th[u].tid \in Tid /\ gen > 0
  BY <1>1 DEF IInv, Registering, Ended, Gone, Unit
<1>4. TypeOK'
  BY <1>1, <1>2, <1>3 DEF TypeOK
<1>5. AtStep' /\ Building' /\ Constructed' /\ Ended' /\ NotReleased' /\ NoUseAfterFree'
  BY <1>1, <1>2, ThreadFrame
<1>6. Registered(u)'
  BY <1>1, <1>2, <1>3 DEF TypeOK, Registered
<1>7. ASSUME NEW v \in Unit, Registered(v)
      PROVE  Registered(v)'
  <2>1. CASE th[v].tid = th[u].tid
    BY <1>3, <1>7, <2>1 DEF Registered, Nobody
  <2>2. CASE th[v].tid # th[u].tid
    BY <1>1, <1>2, <1>7, <2>2 DEF TypeOK, Registered
  <2>3. QED BY <2>1, <2>2
<1>8. Registering'
  BY <1>1, <1>2, <1>6, <1>7 DEF IInv, Registering
<1>9. Handshaking'
  BY <1>1, <1>2 DEF IInv, Handshaking, Waited, Peer, Unit
<1>10. QED BY <1>4, <1>5, <1>8, <1>9 DEF IInv

LEMMA GateKeeps ==
  ASSUME IInv, NEW u \in Unit, Gate(u)
  PROVE  IInv'
<1>1. /\ TypeOK /\ th[u].pc = "gate" /\ ~Gone(u) /\ fault' = "none"
      /\ UNCHANGED <<call, at, gen, registry, sigact, used>>
      /\ pu' = [pu EXCEPT ![u].start_mutex = TRUE]
      /\ Goto(u, "check")
  BY DEF IInv, Gate, At, Gone
<1>2. pu' \in [Unit -> UnitState]
  BY <1>1, UnitFields DEF TypeOK
<1>3. \A v \in Unit :
        /\ pu'[v].alive = pu[v].alive /\ pu'[v].main_func = pu[v].main_func
        /\ pu'[v].stopped = pu[v].stopped /\ pu'[v].started = pu[v].started
        /\ pu'[v].ready_mutex = pu[v].ready_mutex /\ pu'[v].pthread = pu[v].pthread
  BY <1>1, <1>2 DEF TypeOK, UnitState
<1>4. /\ th' \in [Unit -> ThreadState]
      /\ \A v \in Unit : /\ th'[v].pc = IF v = u THEN "check" ELSE th[v].pc
                         /\ th'[v].tid = th[v].tid /\ th'[v].ip = th[v].ip
                         /\ th'[v].joined = th[v].joined
  BY <1>1, GotoMoves
<1>5. TypeOK'
  BY <1>1, <1>2, <1>4 DEF TypeOK
<1>6. AtStep' /\ Building' /\ Constructed' /\ Ended' /\ NotReleased' /\ NoUseAfterFree'
  BY <1>1, <1>3, <1>4, ThreadFrame
<1>7. Registering'
  <2>1. \A v \in Unit : Registered(v)' <=> Registered(v)
    BY <1>1, <1>4 DEF Registered
  <2>2. QED BY <1>1, <1>3, <1>4, <2>1 DEF IInv, Registering
<1>8. Handshaking'
  BY <1>1, <1>3, <1>4 DEF IInv, Handshaking, Waited, Peer, Unit
<1>9. QED BY <1>5, <1>6, <1>7, <1>8 DEF IInv

(* From the gate to the main function, past it, or out of it               *)
LEMMA CheckExitKeeps ==
  ASSUME IInv, NEW u \in Unit, Check(u) \/ Exit(u), fault' = "none"
  PROVE  IInv'
<1> DEFINE pc == IF th[u].pc = "check" /\ ~pu[u].stopped THEN "main" ELSE "exited"
<1>1. /\ TypeOK /\ th[u].pc \in {"check", "main"} /\ ~Gone(u)
      /\ UNCHANGED <<call, at, gen, pu, registry, sigact, used>>
      /\ Goto(u, pc)
      /\ pc = "main" => th[u].pc = "check"
  BY DEF IInv, Check, Exit, At, Gone, Die
<1>2. pc \in {"main", "exited"} /\ (pc = "main" => ~pu[u].stopped)
  OBVIOUS
<1> HIDE DEF pc
<1>3. /\ th' \in [Unit -> ThreadState]
      /\ \A v \in Unit : /\ th'[v].pc = IF v = u THEN pc ELSE th[v].pc
                         /\ th'[v].tid = th[v].tid /\ th'[v].ip = th[v].ip
                         /\ th'[v].joined = th[v].joined
  BY <1>1, <1>2, GotoMoves
<1>4. TypeOK'
  BY <1>1, <1>3 DEF TypeOK
<1>5. AtStep' /\ Building' /\ Constructed' /\ Ended' /\ NotReleased' /\ NoUseAfterFree'
  BY <1>1, <1>2, <1>3, ThreadFrame
<1>6. Registering'
  BY <1>1, <1>2, <1>3 DEF IInv, Registering, Registered
<1>7. Handshaking'
  <2>1. ASSUME NEW v \in Unit, pu'[v].alive, ~pu'[v].ready_mutex
        PROVE  th'[v].pc \in {"main", "exited"}
    BY <1>1, <1>2, <1>3, <2>1 DEF IInv, Handshaking
  <2>2. ASSUME NEW v \in Unit, th'[v].pc = "main", Waited(v)'
        PROVE  th'[Peer(v)].pc \in {"main", "exited"}
    <3>1. ~(v = u /\ th[u].pc = "check")
      BY <1>3, <2>2 DEF IInv, Handshaking, Waited
    <3>2. th[v].pc = "main" /\ Waited(v) /\ Peer(v) \in Unit
      BY <1>1, <1>2, <1>3, <2>2, <3>1 DEF Waited, Peer, Unit
    <3>3. th[Peer(v)].pc \in {"main", "exited"}
      BY <3>2 DEF IInv, Handshaking
    <3>4. QED BY <1>2, <1>3, <3>2, <3>3
  <2>3. \A v \in Unit : th'[v].pc \notin {"main", "exited"} => th'[v].ip = 1
    BY <1>2, <1>3 DEF IInv, Handshaking
  <2>4. QED BY <2>1, <2>2, <2>3 DEF Handshaking
<1>8. QED BY <1>4, <1>5, <1>6, <1>7 DEF IInv

(* The calls of the main function, and the signal                          *)

LEMMA SetReadyKeeps ==
  ASSUME IInv, NEW u \in Unit, set_ready(u)
  PROVE  IInv'
<1>1. /\ TypeOK /\ th[u].pc = "main" /\ ~Gone(u) /\ fault' = "none"
      /\ Program[u][th[u].ip] # "wait_ready"
      /\ UNCHANGED <<call, at, gen, registry, sigact, used>>
      /\ pu' = [pu EXCEPT ![u].ready_mutex = FALSE]
      /\ th' = [th EXCEPT ![u].ip = @ + 1]
  BY DEF IInv, set_ready, Running, At, Gone
<1>2. pu' \in [Unit -> UnitState]
  BY <1>1, UnitFields DEF TypeOK
<1>3. \A v \in Unit :
        /\ pu'[v].alive = pu[v].alive /\ pu'[v].main_func = pu[v].main_func
        /\ pu'[v].stopped = pu[v].stopped /\ pu'[v].started = pu[v].started
        /\ pu'[v].pthread = pu[v].pthread
        /\ v # u => pu'[v].ready_mutex = pu[v].ready_mutex
  BY <1>1, <1>2 DEF TypeOK, UnitState
<1>4. /\ th' \in [Unit -> ThreadState] /\ th[u].ip \in Nat
      /\ \A v \in Unit : /\ th'[v].pc = th[v].pc /\ th'[v].tid = th[v].tid
                         /\ th'[v].joined = th[v].joined
                         /\ th'[v].ip = IF v = u THEN th[u].ip + 1 ELSE th[v].ip
  BY <1>1, IpMoves
<1>5. TypeOK'
  BY <1>1, <1>2, <1>4 DEF TypeOK
<1>6. AtStep' /\ Building' /\ Constructed' /\ Ended' /\ NotReleased' /\ NoUseAfterFree'
  BY <1>1, <1>3, <1>4, ThreadFrame
<1>7. Registering'
  <2>1. \A v \in Unit : Registered(v)' <=> Registered(v)
    BY <1>1, <1>4 DEF Registered
  <2>2. QED BY <1>1, <1>3, <1>4, <2>1 DEF IInv, Registering
<1>8. Handshaking'
  <2>1. \A v \in Unit : Waited(v)' => Waited(v)
    BY <1>1, <1>4 DEF Waited
  <2>2. QED BY <1>1, <1>3, <1>4, <2>1 DEF IInv, Handshaking, Peer, Unit
<1>9. QED BY <1>5, <1>6, <1>7, <1>8 DEF IInv

(* Whoever takes the other unit's ready mutex finds it in its main         *)
(* function, or past it.                                                   *)
LEMMA WaitReadyKeeps ==
  ASSUME IInv, NEW u \in Unit, wait_ready(u)
  PROVE  IInv'
<1> DEFINE p == Peer(u)
<1>1. /\ TypeOK /\ th[u].pc = "main" /\ ~Gone(u) /\ fault' = "none"
      /\ UNCHANGED <<call, at, gen, registry, sigact, used>>
      /\ pu' = [pu EXCEPT ![p].ready_mutex = TRUE]
      /\ th' = [th EXCEPT ![u].ip = @ + 1]
      /\ p \in Unit /\ ~pu[p].ready_mutex
  BY DEF IInv, wait_ready, Running, At, Gone, Peer, Unit
<1>2. th[p].pc \in {"main", "exited"}
  BY <1>1, MainIsComplete DEF IInv, Handshaking
<1> HIDE DEF p
<1>3. pu' \in [Unit -> UnitState]
  BY <1>1, UnitFields DEF TypeOK
<1>4. \A v \in Unit :
        /\ pu'[v].alive = pu[v].alive /\ pu'[v].main_func = pu[v].main_func
        /\ pu'[v].stopped = pu[v].stopped /\ pu'[v].started = pu[v].started
        /\ pu'[v].pthread = pu[v].pthread
        /\ ~pu'[v].ready_mutex => ~pu[v].ready_mutex
  BY <1>1, <1>3 DEF TypeOK, UnitState
<1>5. /\ th' \in [Unit -> ThreadState] /\ th[u].ip \in Nat
      /\ \A v \in Unit : /\ th'[v].pc = th[v].pc /\ th'[v].tid = th[v].tid
                         /\ th'[v].joined = th[v].joined
                         /\ th'[v].ip = IF v = u THEN th[u].ip + 1 ELSE th[v].ip
  BY <1>1, IpMoves
<1>6. TypeOK'
  BY <1>1, <1>3, <1>5 DEF TypeOK
<1>7. AtStep' /\ Building' /\ Constructed' /\ Ended' /\ NotReleased' /\ NoUseAfterFree'
  BY <1>1, <1>4, <1>5, ThreadFrame
<1>8. Registering'
  <2>1. \A v \in Unit : Registered(v)' <=> Registered(v)
    BY <1>1, <1>5 DEF Registered
  <2>2. QED BY <1>1, <1>4, <1>5, <2>1 DEF IInv, Registering
<1>9. Handshaking'
  <2>1. \A v \in Unit : v # u /\ Waited(v)' => Waited(v)
    BY <1>1, <1>5 DEF Waited
  <2>2. QED BY <1>1, <1>2, <1>4, <1>5, <2>1 DEF IInv, Handshaking, p, Peer, Unit
<1>10. QED BY <1>6, <1>7, <1>8, <1>9 DEF IInv

(* A signal is sent, or has been handled.                                  *)
LEMMA SignalKeeps ==
  ASSUME IInv, NEW u \in Unit, interrupt(u) \/ Deliver(u), fault' = "none"
  PROVE  IInv'
<1>1. /\ TypeOK /\ ~Gone(u)
      /\ UNCHANGED <<call, at, gen, pu, registry, sigact, used>>
      /\ \/ /\ th' = [th EXCEPT ![u].ip = @ + 1, ![Peer(u)].signal = ~Gone(Peer(u))]
            /\ th[u].pc = "main" /\ Program[u][th[u].ip] # "wait_ready"
         \/ th' = [th EXCEPT ![u].signal = FALSE]
  BY DEF IInv, interrupt, Deliver, Running, At, Gone, Die
<1>2. /\ th' \in [Unit -> ThreadState] /\ th[u].ip \in Nat
      /\ \A v \in Unit : /\ th'[v].pc = th[v].pc /\ th'[v].tid = th[v].tid
                         /\ th'[v].joined = th[v].joined
                         /\ v # u => th'[v].ip = th[v].ip
      /\ \/ th'[u].ip = th[u].ip
         \/ /\ th'[u].ip = th[u].ip + 1
            /\ th[u].pc = "main" /\ Program[u][th[u].ip] # "wait_ready"
  <2>1. CASE th' = [th EXCEPT ![u].signal = FALSE]
    <3>1. th' \in [Unit -> ThreadState]
      BY <1>1, <2>1, ThreadFields DEF TypeOK
    <3>2. QED BY <1>1, <2>1, <3>1 DEF TypeOK, ThreadState
  <2>2. CASE /\ th' = [th EXCEPT ![u].ip = @ + 1, ![Peer(u)].signal = ~Gone(Peer(u))]
             /\ th[u].pc = "main" /\ Program[u][th[u].ip] # "wait_ready"
    <3> DEFINE t == [th EXCEPT ![u].ip = @ + 1]
               p == Peer(u)
               b == ~Gone(p)
    <3>1. /\ t \in [Unit -> ThreadState] /\ th[u].ip \in Nat
          /\ \A v \in Unit : /\ t[v].pc = th[v].pc /\ t[v].tid = th[v].tid
                             /\ t[v].joined = th[v].joined
                             /\ t[v].ip = IF v = u THEN th[u].ip + 1 ELSE th[v].ip
      BY <1>1, IpAdvances
    <3>2. th' = [t EXCEPT ![p].signal = b] /\ b \in BOOLEAN /\ p \in Unit
      BY <2>2 DEF Peer, Unit
    <3> HIDE DEF t, p, b
    <3>3. th' \in [Unit -> ThreadState]
      BY <3>1, <3>2, ThreadFields
    <3>4. \A v \in Unit : /\ th'[v].pc = t[v].pc /\ th'[v].tid = t[v].tid
                          /\ th'[v].joined = t[v].joined /\ th'[v].ip = t[v].ip
      BY <3>1, <3>2, <3>3 DEF ThreadState
    <3>5. QED BY <2>2, <3>1, <3>3, <3>4
  <2>3. QED BY <1>1, <2>1, <2>2
<1>3. TypeOK'
  BY <1>1, <1>2 DEF TypeOK
<1>4. AtStep' /\ Building' /\ Constructed' /\ Ended' /\ NotReleased' /\ NoUseAfterFree'
  BY <1>1, <1>2, ThreadFrame
<1>5. Registering'
  <2>1. \A v \in Unit : Registered(v)' <=> Registered(v)
    BY <1>1, <1>2 DEF Registered
  <2>2. QED BY <1>1, <1>2, <2>1 DEF IInv, Registering
<1>6. Handshaking'
  <2>1. \A v \in Unit : Waited(v)' => Waited(v)
    BY <1>1, <1>2 DEF Waited
  <2>2. QED BY <1>1, <1>2, <2>1 DEF IInv, Handshaking, Peer, Unit
<1>7. QED BY <1>3, <1>4, <1>5, <1>6 DEF IInv

-----------------------------------------------------------------------------
(* What ends the program changes nothing else.                             *)
LEMMA DeathKeeps ==
  ASSUME IInv, NEW why \in {"use after free", "already registered", "main function not set",
                            "no thread to signal", "signal without a handler"},
         Die(why), why = "use after free" => call = "failed"
  PROVE  IInv'
<1>1. UNCHANGED <<call, at, gen, pu, th, registry, sigact, used>> /\ fault' = why
  BY DEF Die
<1>2. TypeOK' /\ NoUseAfterFree'
  BY <1>1 DEF IInv, TypeOK, NoUseAfterFree
<1>3. AtStep' /\ Building' /\ Constructed' /\ Ended'
  BY <1>1 DEF IInv, AtStep, Building, Constructed, Ended, Gone
<1>4. NotReleased' /\ Registering' /\ Handshaking'
  BY <1>1 DEF IInv, NotReleased, Registering, Registered, Handshaking, Waited, Gone
<1>5. QED BY <1>2, <1>3, <1>4 DEF IInv

LEMMA UseAfterFreeKeeps ==
  ASSUME IInv, NEW u \in Unit, UseAfterFree(u)
  PROVE  IInv'
<1>1. PICK v \in Uses(u) : ~pu[v].alive
  BY DEF UseAfterFree
<1>2. call = "failed"
  <2>1. CASE th[u].pc = "main"
    BY <1>1, <2>1, MainIsComplete DEF Uses
  <2>2. CASE th[u].pc # "main"
    BY <1>1, <2>2, RunningIsAlive DEF Uses, UseAfterFree
  <2>3. QED BY <2>1, <2>2
<1>3. QED BY <1>2, DeathKeeps DEF UseAfterFree

-----------------------------------------------------------------------------
(* The invariant holds.                                                    *)

LEMMA InitIInv == Init => IInv
<1> SUFFICES ASSUME Init PROVE IInv
  OBVIOUS
<1>1. /\ call = "destroy" /\ at = 0 /\ gen = 0 /\ sigact = FALSE /\ used = {} /\ fault = "none"
      /\ pu \in [Unit -> UnitState] /\ th \in [Unit -> ThreadState]
      /\ registry \in [Tid -> {Nobody}]
  <2>1. NoUnit \in UnitState /\ NewThread("none", NoTid) \in ThreadState
    BY DEF NoUnit, UnitState, NewThread, ThreadState
  <2>2. QED BY <2>1 DEF Init
<1>2. \A u \in Unit : /\ ~pu[u].alive /\ pu[u].stopped
                      /\ th[u].pc = "none" /\ th[u].ip = 1 /\ ~th[u].joined
  BY DEF Init, NoUnit, NewThread
<1>3. TypeOK
  <2>1. gen \in 0 .. GenMax /\ at \in 0 .. 9 /\ call \in Api
    BY <1>1, GenMaxAssumption DEF Api
  <2>2. registry \in [Tid -> {Nobody} \cup (Unit \X (0 .. GenMax))]
    BY <1>1
  <2>3. QED BY <1>1, <2>1, <2>2 DEF TypeOK
<1>4. AtStep /\ Building /\ Constructed /\ Ended /\ NoUseAfterFree
  BY <1>1, <1>2 DEF AtStep, Building, Constructed, Ended, NoUseAfterFree, Gone, Unit
<1>5. NotReleased /\ Registering /\ Handshaking
  BY <1>1, <1>2 DEF NotReleased, Registering, Handshaking
<1>6. QED BY <1>3, <1>4, <1>5 DEF IInv

LEMMA ThreadStepKeeps ==
  ASSUME IInv, NEW u \in Unit, ThreadStep(u)
  PROVE  IInv'
<1>1. CASE Boot(u) \/ Sigaction(u) \/ Gate(u)
  BY <1>1, BootKeeps, SigactionKeeps, GateKeeps
<1>2. CASE Register(u)
  <2>1. CASE registry[th[u].tid] = Nobody
    BY <1>2, <2>1, RegisterKeeps
  <2>2. CASE registry[th[u].tid] # Nobody
    BY <1>2, <2>2, DeathKeeps DEF Register
  <2>3. QED BY <2>1, <2>2
<1>3. CASE Check(u) \/ Exit(u)
  <2>1. CASE fault' = "none"
    BY <1>3, <2>1, CheckExitKeeps
  <2>2. CASE fault' # "none"
    <3>1. Die("main function not set")
      BY <1>3, <2>2 DEF Check, Exit, At
    <3>2. QED BY <3>1, DeathKeeps
  <2>3. QED BY <2>1, <2>2
<1>4. CASE set_ready(u) \/ wait_ready(u)
  BY <1>4, SetReadyKeeps, WaitReadyKeeps
<1>5. CASE interrupt(u)
  <2>1. CASE fault' = "none"
    BY <1>5, <2>1, SignalKeeps
  <2>2. CASE fault' # "none"
    <3>1. Die("no thread to signal")
      BY <1>5, <2>2 DEF interrupt, Running, At
    <3>2. QED BY <3>1, DeathKeeps
  <2>3. QED BY <2>1, <2>2
<1>6. QED BY <1>1, <1>2, <1>3, <1>4, <1>5 DEF ThreadStep

LEMMA DeliverKeeps ==
  ASSUME IInv, NEW u \in Unit, Deliver(u)
  PROVE  IInv'
<1>1. CASE fault' = "none"
  BY <1>1, SignalKeeps
<1>2. CASE fault' # "none"
  <2>1. Die("signal without a handler")
    BY <1>2 DEF Deliver
  <2>2. QED BY <2>1, DeathKeeps
<1>3. QED BY <1>1, <1>2

LEMMA NextKeeps == IInv /\ [Next]_vars => IInv'
<1> SUFFICES ASSUME IInv, [Next]_vars PROVE IInv'
  OBVIOUS
<1>1. CASE \E c \in Api : Call(c)
  BY <1>1, CallKeeps
<1>2. CASE CallerStep
  BY <1>2, NewKeeps, CreateStepKeeps, LoadConfigKeeps, StartStopKeeps, JoinKeeps, DeleteKeeps
  DEF CallerStep
<1>3. CASE \E u \in Unit : ThreadStep(u) \/ UseAfterFree(u) \/ Deliver(u)
  BY <1>3, ThreadStepKeeps, UseAfterFreeKeeps, DeliverKeeps
<1>4. CASE UNCHANGED vars
  <2>1. TypeOK'
    BY <1>4 DEF vars, IInv, TypeOK
  <2>2. AtStep' /\ Building' /\ Constructed' /\ Ended' /\ NoUseAfterFree'
    BY <1>4 DEF vars, IInv, AtStep, Building, Constructed, Ended, NoUseAfterFree, Gone
  <2>3. NotReleased' /\ Registering' /\ Handshaking'
    BY <1>4 DEF vars, IInv, NotReleased, Registering, Registered, Handshaking, Waited, Gone
  <2>4. QED BY <2>1, <2>2, <2>3 DEF IInv
<1>5. QED BY <1>1, <1>2, <1>3, <1>4 DEF Next

LEMMA Invariance == Spec => []IInv
BY InitIInv, NextKeeps, PTL DEF Spec

(* Every state of a mocked system's life is well typed: no call runs past  *)
(* its last step, and no unit leaves the states its code has.              *)
THEOREM TypeCorrect == Spec => []TypeOK
<1>1. IInv => TypeOK
  BY DEF IInv
<1>2. QED BY <1>1, Invariance, PTL

(* A main function runs only on a complete system that was started: the    *)
(* thread that each ProcessingUnit's constructor creates at once stays at  *)
(* the gate, or finds itself stopped, whatever the caller does.            *)
THEOREM MainIsStarted == Spec => []MainNeedsStart
<1>1. IInv => MainNeedsStart
  BY MainIsComplete DEF MainNeedsStart
<1>2. QED BY <1>1, Invariance, PTL

(* A unit that waited for the other one interrupts a thread that has its   *)
(* signal handler and its place in signal_handlers_map, although nothing   *)
(* makes the caller wait for the threads to register themselves.           *)
THEOREM HandlerIsFound == Spec => []InterruptsFindHandler
<1>1. IInv => InterruptsFindHandler
  <2> SUFFICES ASSUME IInv, NEW u \in Unit, th[u].pc = "main", Waited(u)
               PROVE  /\ pu[Peer(u)].pthread /\ sigact
                      /\ Registered(Peer(u))
    BY DEF InterruptsFindHandler
  <2>1. Peer(u) \in Unit
    BY DEF Peer, Unit
  <2>2. pu[Peer(u)].alive /\ th[Peer(u)].pc \in {"main", "exited"}
    BY <2>1, MainIsComplete DEF IInv, Handshaking
  <2>3. QED BY <2>1, <2>2 DEF IInv, Registering
<1>2. QED BY <1>1, Invariance, PTL

(* destroy joins both threads before it deletes either unit: nothing it    *)
(* frees is used afterwards, unless a create failed half-way.              *)
THEOREM NothingFreedIsUsed == Spec => []NoUseAfterFree
<1>1. IInv => NoUseAfterFree
  BY DEF IInv
<1>2. QED BY <1>1, Invariance, PTL
=============================================================================
