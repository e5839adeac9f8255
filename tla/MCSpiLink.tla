----------------------------- MODULE MCSpiLink -----------------------------
(* Instances of SpiLink for TLC: a master on the host, a slave on the soc. *)
EXTENDS SpiLink

CONSTANTS soc, host

HostIsMaster == [d \in Dev |-> d = host]

(* The main functions of tests/test_spi.c                                  *)
TestPlan == [d \in Dev |-> IF d = soc THEN <<"async", "enable", "sync", "async">>
                           ELSE <<"async", "sync", "sync">>]

(* The slave waits, posts and waits again; the master transfers both ways. *)
RacePlan == [d \in Dev |-> IF d = soc THEN <<"enable", "sync", "async", "sync">>
                           ELSE <<"sync", "enable", "async", "sync">>]

(* The slave posts twice with a callback, and then waits.                  *)
MixedPlan == [d \in Dev |-> IF d = soc THEN <<"async", "enable", "async", "async", "sync">>
                            ELSE <<"sync", "enable", "async", "disable", "async", "sync">>]

(* The slave waits, with its irq disabled.                                 *)
WaitPlan == [d \in Dev |-> IF d = soc THEN <<"sync">> ELSE <<"sync">>]
=============================================================================
