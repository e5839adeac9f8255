---------------------------- MODULE MCLifecycle ----------------------------
(* Instances of Lifecycle for TLC.                                         *)
EXTENDS Lifecycle

(* The main functions of tests/test_gpio_irq.c                             *)
TestProgram == [u \in Unit |-> <<"set_ready", "wait_ready", "interrupt">>]

(* A second handshake of the same units: the host waits twice.             *)
TwiceProgram == [u \in Unit |-> TestProgram[u] \o
                   IF u = soc THEN <<"set_ready">> ELSE <<"wait_ready">>]

(* The tests: create, start, wait, destroy, and again.                     *)
TestOrder == {<<"create", "start">>, <<"start", "wait">>, <<"wait", "destroy">>,
              <<"destroy", "create">>}

(* Any call after any other one.                                           *)
AnyOrder == {f \in Api \X Api : f[2] = "create" <=> f[1] = "destroy"}

(* Any call but a wait for a system that was not started.                  *)
StoppingOrder == {f \in AnyOrder : f[2] = "wait" => f[1] \in {"start", "stop", "wait"}}
=============================================================================
