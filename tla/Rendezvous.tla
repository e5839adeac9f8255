----------------------------- MODULE Rendezvous -----------------------------
(***************************************************************************)
(* What two connected SPI devices (SpiDevice.cpp) promise a slave: it      *)
(* offers one transfer at a time, an exchange takes the offer as a whole   *)
(* and at once, and the slave is told of each exchange once, afterwards.   *)
(*                                                                         *)
(* There are no locks here, no flag, no condition, no irq and no callback; *)
(* SpiLink has them and is shown to implement this module.                 *)
(***************************************************************************)
CONSTANT Transfer

VARIABLES
  offer,    \* the transfers on offer, one at most
  served,   \* those that were exchanged
  told      \* those the slave knows of: its call returned, its callback ran

vars == <<offer, served, told>>

Init == offer = {} /\ served = {} /\ told = {}

Offer(t) ==
  /\ offer = {}
  /\ t \notin served
  /\ offer' = {t}
  /\ UNCHANGED <<served, told>>

Exchange(t) ==
  /\ t \in offer
  /\ offer' = {}
  /\ served' = served \cup {t}
  /\ UNCHANGED told

Tell(t) ==
  /\ t \in served \ told
  /\ told' = told \cup {t}
  /\ UNCHANGED <<offer, served>>

Next == \E t \in Transfer : Offer(t) \/ Exchange(t) \/ Tell(t)

Spec == Init /\ [][Next]_vars

(* Whoever is served learns it.                                            *)
Told == \A t \in Transfer : t \in served ~> t \in told

LiveSpec == Spec /\ Told
=============================================================================
