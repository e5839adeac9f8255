--------------------------- MODULE PinLevelsProofs ---------------------------
(* The levels of module PinNetwork: after the calls that set them a pin    *)
(* has the level of its only driver.                                       *)
EXTENDS PinNetworkProofs

(***************************************************************************)
(* Conversions change the objects and keep the numbers: the argument is    *)
(* about the numbers in the lists of connected pins.                       *)
(***************************************************************************)

Link(u, i, j) == get_pin(u, i) # Null /\ Lists(get_pin(u, i), j)

(* Number i of u is the only one that drives number j of the other unit,   *)
(* and is not driven itself.                                               *)
SoleDriver(u, i, j) ==
  /\ <<u, i>> \in Drive /\ <<Peer(u), j>> \notin Drive
  /\ \A l : <<u, l>> \in Drive /\ Link(u, l, j) => l = i
  /\ \A l : <<Peer(u), l>> \in Drive => ~Link(Peer(u), l, i)

(* The level is on its way: change has yet to come to this pin.            *)
Waits(u, i, j) ==
  /\ th[u].at = "change" /\ th[u].pin = get_pin(u, i)
  /\ \E m \in DOMAIN connected[th[u].pin] :
       m >= th[u].k /\ connected[th[u].pin][m][2] = j

LevelFollows(u, i, j) ==
  /\ Link(u, i, j) /\ SoleDriver(u, i, j)
  /\ get_pin(u, i) \notin fresh /\ get_pin(Peer(u), j) \notin fresh
  /\ ~Waits(u, i, j)
  => level[get_pin(Peer(u), j)] = level[get_pin(u, i)]

(* An irq keeps its level for itself until it is complete.                 *)
HalfFresh == \A u \in Unit : Converting(u) => Half(u) \in fresh

(* Nobody sets this number from the other side.                            *)
Undriven(u, i) == \A l : <<Peer(u), l>> \in Drive => ~Link(Peer(u), l, i)

(* A pin has the level it passes on, unless the other unit sets it, too.   *)
PassesLevel ==
  \A u \in Unit :
    th[u].at = "change" /\ Undriven(u, th[u].pin[2]) => level[th[u].pin] = th[u].value

Driving == \A u \in Unit : th[u].at = "change" => <<u, th[u].pin[2]>> \in Drive

LevInv ==
  /\ PinInv
  /\ Driving
  /\ ~Started => level = [o \in Objects |-> FALSE]
  /\ ~overlap => HalfFresh /\ PassesLevel /\ \A u \in Unit : \A i, j : LevelFollows(u, i, j)

-----------------------------------------------------------------------------
(* Names and links.                                                        *)

LEMMA LinkEnds ==
  ASSUME Shape, Wires, NEW u \in Unit, NEW i, NEW j, Link(u, i, j)
  PROVE  /\ get_pin(u, i) \in Objects /\ get_pin(u, i)[1] = u /\ get_pin(u, i)[2] = i
         /\ get_pin(Peer(u), j) \in Objects /\ get_pin(Peer(u), j)[1] = Peer(u)
         /\ get_pin(Peer(u), j)[2] = j
         /\ Link(Peer(u), j, i)
<1>1. /\ Typed /\ Peer(u) \in Unit /\ Peer(Peer(u)) = u /\ Placed(Peer(u))
      /\ connected \in [Objects -> Seq(Objects)]
  BY PeerUnit DEF Shape, Typed
<1>2. get_pin(u, i) \in Objects /\ get_pin(u, i)[1] = u /\ get_pin(u, i)[2] = i
  BY <1>1, GetPin DEF Link
<1>3. PICK o \in Objects : o = get_pin(u, i) /\ Main(o) /\ o[1] = u /\ o[2] = i
  BY <1>2 DEF Main
<1>4. PICK m \in DOMAIN connected[o] : connected[o][m][2] = j
  BY <1>3 DEF Link, Lists
<1>5. connected[o][m] \in Objects /\ connected[o][m][1] = Peer(u)
  <2>1. connected[o] \in Seq(Objects)
    BY <1>1
  <2>2. QED BY <1>3, <1>4, <2>1 DEF Shape, Facing
<1>6. connected[o][m] = Name(Peer(u), j, i)
  BY <1>3, <1>4 DEF Wires, WellNamed
<1>7. get_pin(Peer(u), j) # Null
  <2>1. CASE th[Peer(u)].pin[2] # j \/ ~Converting(Peer(u))
    <3>1. Name(Peer(u), j, i) = get_pin(Peer(u), j)
      BY <1>1, <2>1, NameIsAlive
    <3>2. connected[o][m] # Null
      BY <1>5, ObjectShape
    <3>3. QED BY <1>6, <3>1, <3>2
  <2>2. CASE th[Peer(u)].pin[2] = j /\ Converting(Peer(u))
    <3>1. get_pin(Peer(u), j) = th[Peer(u)].pin /\ th[Peer(u)].pin \in Objects
      BY <1>1, <2>2, PinOfThread DEF Placed, Converting
    <3>2. QED BY <3>1, ObjectShape
  <2>3. QED BY <2>1, <2>2
<1>8. PICK p \in Objects : p = get_pin(Peer(u), j) /\ Main(p) /\ p[1] = Peer(u) /\ p[2] = j
  BY <1>1, <1>7, GetPin DEF Main
<1>9. Lists(p, i)
  <2>1. Lists(o, p[2])
    BY <1>4, <1>8 DEF Lists
  <2>2. QED BY <1>3, <1>8, <2>1 DEF Wires, BothWays
<1>10. QED BY <1>2, <1>7, <1>8, <1>9 DEF Link

(* A step that keeps the links keeps their drivers.                        *)
LEMMA SoleSame ==
  ASSUME \A u \in Unit : \A i, j : Link(u, i, j)' <=> Link(u, i, j)
  PROVE  \A u \in Unit : \A i, j : SoleDriver(u, i, j)' <=> SoleDriver(u, i, j)
BY PeerUnit DEF SoleDriver

LEMMA LinkSame ==
  ASSUME UNCHANGED connected,
         \A v \in Unit : \A j : get_pin(v, j)' = get_pin(v, j)
  PROVE  \A u \in Unit : \A i, j : Link(u, i, j)' <=> Link(u, i, j)
BY DEF Link, Lists

(* The thread of w is where it was, and its list has the same numbers.     *)
LEMMA WaitsSame ==
  ASSUME NEW w \in Unit, \A i : get_pin(w, i)' = get_pin(w, i),
         th'[w].at = "change" <=> th[w].at = "change",
         th[w].at = "change" =>
           /\ th'[w].pin = th[w].pin /\ th'[w].k = th[w].k
           /\ DOMAIN connected'[th[w].pin] = DOMAIN connected[th[w].pin]
           /\ \A m \in DOMAIN connected[th[w].pin] :
                connected'[th[w].pin][m][2] = connected[th[w].pin][m][2]
  PROVE  \A i, j : Waits(w, i, j)' <=> Waits(w, i, j)
BY DEF Waits

(* A step that leaves all this alone, and may forget levels.               *)
LEMMA FollowsSame ==
  ASSUME \A u \in Unit : \A i, j : LevelFollows(u, i, j),
         UNCHANGED level, fresh \subseteq fresh',
         \A v \in Unit : \A i : get_pin(v, i)' = get_pin(v, i),
         \A v \in Unit : \A i, j : Link(v, i, j)' <=> Link(v, i, j),
         \A v \in Unit : \A i, j : Waits(v, i, j) => Waits(v, i, j)'
  PROVE  \A u \in Unit : \A i, j : LevelFollows(u, i, j)'
<1>1. SUFFICES ASSUME NEW u \in Unit, NEW i, NEW j PROVE LevelFollows(u, i, j)'
  OBVIOUS
<1>2. /\ get_pin(u, i)' = get_pin(u, i) /\ get_pin(Peer(u), j)' = get_pin(Peer(u), j)
      /\ SoleDriver(u, i, j)' <=> SoleDriver(u, i, j)
  BY PeerUnit, SoleSame
<1>3. LevelFollows(u, i, j)
  OBVIOUS
<1>4. QED BY <1>2, <1>3 DEF LevelFollows

-----------------------------------------------------------------------------
(* One lemma for each action.                                              *)

LEMMA SameWires ==
  ASSUME UNCHANGED <<connected, gpios, gpio_irqs>>
  PROVE  /\ \A v \in Unit : \A i : get_pin(v, i)' = get_pin(v, i)
         /\ \A v \in Unit : \A i, j : Link(v, i, j)' <=> Link(v, i, j)
<1>1. \A v \in Unit : \A i : get_pin(v, i)' = get_pin(v, i)
  BY DEF get_pin, getPin
<1>2. QED BY <1>1, LinkSame

(* Steps that neither set levels nor rewire                                *)
LEMMA QuietLevels ==
  ASSUME Shape, Wires, \A u \in Unit : \A i, j : LevelFollows(u, i, j),
         UNCHANGED <<connected, gpios, gpio_irqs, level>>, fresh \subseteq fresh',
         NEW u \in Unit, th'[Peer(u)] = th[Peer(u)],
         \/ th[u].at # "change" /\ th'[u].at # "change"
         \/ th'[u].at = th[u].at /\ th'[u].pin = th[u].pin /\ th'[u].k = th[u].k
         \/ th[u].at = "change" /\ th[u].k > Len(connected[th[u].pin])
  PROVE  \A w \in Unit : \A i, j : LevelFollows(w, i, j)'
<1>1. /\ \A v \in Unit : \A i : get_pin(v, i)' = get_pin(v, i)
      /\ \A v \in Unit : \A i, j : Link(v, i, j)' <=> Link(v, i, j)
  BY SameWires
<1>2. \A i, j : Waits(u, i, j) => Waits(u, i, j)'
  <2>1. CASE th[u].at = "change" /\ th[u].k > Len(connected[th[u].pin])
    <3>1. th[u].pin \in Objects /\ th[u].k \in Nat
      BY <2>1, PinOfThread DEF Shape
    <3>2. connected[th[u].pin] \in Seq(Objects)
      BY <3>1 DEF Shape, Typed
    <3>3. ~ \E m \in DOMAIN connected[th[u].pin] : m >= th[u].k
      BY <2>1, <3>1, <3>2
    <3>4. QED BY <3>3 DEF Waits
  <2>2. CASE th[u].at # "change" /\ th'[u].at # "change"
    BY <2>2 DEF Waits
  <2>3. CASE th'[u].at = th[u].at /\ th'[u].pin = th[u].pin /\ th'[u].k = th[u].k
    BY <1>1, <2>3, WaitsSame
  <2>4. QED BY <2>1, <2>2, <2>3
<1>3. \A i, j : Waits(Peer(u), i, j) => Waits(Peer(u), i, j)'
  BY <1>1, PeerUnit, WaitsSame
<1>4. \A v \in Unit : \A i, j : Waits(v, i, j) => Waits(v, i, j)'
  BY <1>2, <1>3, PeerUnit
<1>5. QED BY <1>1, <1>4, FollowsSame

LEMMA RewireLevels ==
  ASSUME Shape, Wires, \A u \in Unit : \A i, j : LevelFollows(u, i, j),
         NEW u \in Unit, Rewire(u)
  PROVE  /\ \A w \in Unit : \A i, j : LevelFollows(w, i, j)'
         /\ \A v \in Unit : \A i, j : Link(v, i, j)' <=> Link(v, i, j)
<1>1. /\ ~Fail("use after free") /\ ~Fail("out of bounds") /\ Converting(u)
  BY RewireFinds
<1>2. /\ NextPeer(u) /\ th[u].at = "rewire"
      /\ UNCHANGED <<config, alive, gpios, gpio_irqs, handler, levels, fault, overlap>>
  BY <1>1, RewireEffect
<1>3. th'[Peer(u)] = th[Peer(u)] /\ th'[u].at = "rewire"
  BY <1>2, NextPeerEffect DEF Shape, Typed
<1>4. /\ Half(u) \in Objects /\ Half(u)[1] = u /\ Half(u)[2] = th[u].pin[2]
      /\ Half(u)[3] = "irq" /\ th[u].pin[2] \in gpios[u]
  BY <1>1, <1>2, PinOfThread DEF Shape, Placed, Converting, Half, GpioIrq
<1>5. \A q \in Objects : q # Half(u) =>
         /\ DOMAIN connected'[q] = DOMAIN connected[q]
         /\ \A m \in DOMAIN connected[q] : connected'[q][m][2] = connected[q][m][2]
  <2>1. /\ \A o \in Objects \ {th[u].peer, Half(u)} : connected'[o] = connected[o]
        /\ DOMAIN connected'[th[u].peer] = DOMAIN connected[th[u].peer]
        /\ \A m \in DOMAIN connected[th[u].peer] :
             connected'[th[u].peer][m] = IF connected[th[u].peer][m] = th[u].pin
                                         THEN Half(u) ELSE connected[th[u].peer][m]
    BY <1>1, RewireShape
  <2>2. \A m \in DOMAIN connected[th[u].peer] :
          connected'[th[u].peer][m][2] = connected[th[u].peer][m][2]
    BY <1>4, <2>1
  <2>3. QED BY <2>1, <2>2
<1>6. \A v \in Unit : \A i : get_pin(v, i)' = get_pin(v, i)
  BY <1>2 DEF get_pin, getPin
<1>7. \A v \in Unit : \A i : get_pin(v, i) # Half(u)
  <2>1. get_pin(u, th[u].pin[2])[3] = "gpio"
    <3>1. get_pin(u, th[u].pin[2]) = Gpio(u, th[u].pin[2])
      BY <1>4, GetPin DEF Shape
    <3>2. QED BY <3>1 DEF Gpio
  <2>2. \A v \in Unit : \A i : get_pin(v, i) = Null
                               \/ (get_pin(v, i)[1] = v /\ get_pin(v, i)[2] = i)
    BY GetPin DEF Shape
  <2>3. Half(u) # Null
    BY <1>4, ObjectShape
  <2>4. QED BY <1>4, <2>1, <2>2, <2>3
<1>8. \A v \in Unit : \A i, j : Link(v, i, j)' <=> Link(v, i, j)
  <2>1. TAKE v \in Unit
  <2>2. TAKE i, j
  <2>3. CASE get_pin(v, i) = Null
    BY <1>6, <2>3 DEF Link
  <2>4. CASE get_pin(v, i) # Null
    <3>1. get_pin(v, i) \in Objects
      BY <2>4, GetPin DEF Shape
    <3>2. QED BY <1>5, <1>6, <1>7, <2>4, <3>1 DEF Link, Lists
  <2>5. QED BY <2>3, <2>4
<1>9. \A i, j : Waits(u, i, j) => Waits(u, i, j)'
  BY <1>2 DEF Waits
<1>10. \A i, j : Waits(Peer(u), i, j) => Waits(Peer(u), i, j)'
  <2>1. Peer(u) \in Unit /\ Peer(u) # u
    BY PeerUnit
  <2>2. th[Peer(u)].at = "change" =>
          th[Peer(u)].pin \in Objects /\ th[Peer(u)].pin # Half(u)
    BY <1>4, <2>1, PinOfThread DEF Shape
  <2>3. QED BY <1>3, <1>5, <1>6, <2>1, <2>2, WaitsSame
<1>11. \A v \in Unit : \A i, j : Waits(v, i, j) => Waits(v, i, j)'
  BY <1>9, <1>10, PeerUnit
<1>12. level' = level /\ fresh' = fresh
  BY <1>2 DEF levels
<1>13. QED BY <1>6, <1>8, <1>11, <1>12, FollowsSame

LEMMA ReplaceLevels ==
  ASSUME Shape, Wires, HalfFresh, \A u \in Unit : \A i, j : LevelFollows(u, i, j),
         NEW u \in Unit, Replace(u)
  PROVE  /\ \A w \in Unit : \A i, j : LevelFollows(w, i, j)'
         /\ \A v \in Unit : \A i, j : Link(v, i, j)' <=> Link(v, i, j)
<1>1. PICK v, o, irq, j :
        v = Peer(u) /\ o = th[u].pin /\ irq = Half(u) /\ j = th[u].pin[2]
  OBVIOUS
<1>2. /\ v \in Unit /\ v # u /\ Peer(v) = u /\ \A w \in Unit : w = u \/ w = v
      /\ Typed /\ Placed(u)
  BY <1>1, PeerUnit DEF Shape
<1>3. /\ th[u].at = "replace" /\ Converting(u)
      /\ th'[u] = IdleThread /\ th'[v] = th[v]
      /\ j \in gpios[u] /\ irq \in Objects
      /\ gpios'[u] = gpios[u] \ {j} /\ gpios'[v] = gpios[v]
      /\ gpio_irqs'[u] = gpio_irqs[u] \cup {j} /\ gpio_irqs'[v] = gpio_irqs[v]
      /\ UNCHANGED <<config, connected, handler, levels, fault, overlap>>
  BY <1>1, ReplaceShape DEF Converting
<1>4. /\ o \in Objects /\ o = get_pin(u, j) /\ irq \in fresh
      /\ irq = GpioIrq(u, j)
  BY <1>1, <1>2, <1>3, PinOfThread DEF Placed, HalfFresh, Half
<1>5. /\ \A l : get_pin(v, l)' = get_pin(v, l)
      /\ \A l : l # j => get_pin(u, l)' = get_pin(u, l)
      /\ get_pin(u, j)' = irq
  <2>1. \A l : get_pin(v, l)' = get_pin(v, l)
    BY <1>3 DEF get_pin, getPin
  <2>2. \A l : l # j => get_pin(u, l)' = get_pin(u, l)
    BY <1>3 DEF get_pin, getPin
  <2>3. get_pin(u, j)' = irq
    BY <1>3, <1>4 DEF get_pin
  <2>4. QED BY <2>1, <2>2, <2>3
<1>6. \A i : Lists(irq, i) <=> Lists(o, i)
  BY <1>1, <1>3, HalfIsWhole DEF Lists
<1>7. \A w \in Unit : \A i, l : Link(w, i, l)' <=> Link(w, i, l)
  <2>1. \A q : \A i : Lists(q, i)' <=> Lists(q, i)
    BY <1>3 DEF Lists
  <2>2. \A i : Link(u, j, i)' <=> Link(u, j, i)
    BY <1>3, <1>4, <1>5, <1>6, <2>1, ObjectShape DEF Link
  <2>3. \A i, l : i # j => (Link(u, i, l)' <=> Link(u, i, l))
    BY <1>5, <2>1 DEF Link
  <2>4. \A i, l : Link(v, i, l)' <=> Link(v, i, l)
    BY <1>5, <2>1 DEF Link
  <2>5. QED BY <1>2, <2>2, <2>3, <2>4
<1>8. SUFFICES ASSUME NEW w \in Unit, NEW i, NEW l PROVE LevelFollows(w, i, l)'
  BY <1>7
<1>9. LevelFollows(w, i, l)
  OBVIOUS
<1>10. level' = level /\ fresh' = fresh
  BY <1>3 DEF levels
<1>11. SoleDriver(w, i, l)' <=> SoleDriver(w, i, l)
  BY <1>7, SoleSame
<1>12. CASE w = u /\ i = j
  BY <1>4, <1>5, <1>10, <1>12 DEF LevelFollows
<1>13. CASE w = v /\ l = j
  BY <1>2, <1>4, <1>5, <1>10, <1>13 DEF LevelFollows
<1>14. CASE w = u /\ i # j
  <2>1. get_pin(w, i)' = get_pin(w, i) /\ get_pin(Peer(w), l)' = get_pin(Peer(w), l)
    BY <1>1, <1>5, <1>14
  <2>2. ~Waits(w, i, l)
    BY <1>3, <1>14 DEF Waits
  <2>3. QED BY <1>7, <1>9, <1>10, <1>11, <2>1, <2>2 DEF LevelFollows
<1>15. CASE w = v /\ l # j
  <2>1. get_pin(w, i)' = get_pin(w, i) /\ get_pin(Peer(w), l)' = get_pin(Peer(w), l)
    BY <1>2, <1>5, <1>15
  <2>2. Waits(w, i, l)' <=> Waits(w, i, l)
    BY <1>3, <1>5, <1>15 DEF Waits
  <2>3. QED BY <1>7, <1>9, <1>10, <1>11, <2>1, <2>2 DEF LevelFollows
<1>16. QED BY <1>2, <1>12, <1>13, <1>14, <1>15

LEMMA set_gpio_valueLevels ==
  ASSUME Shape, Wires, \A u \in Unit : \A i, j : LevelFollows(u, i, j),
         NEW u \in Unit, NEW i, NEW value \in BOOLEAN, set_gpio_value(u, i, value)
  PROVE  \A w \in Unit : \A x, y : LevelFollows(w, x, y)'
<1>1. PICK o \in Objects :
        /\ o = get_pin(u, i) /\ o[1] = u /\ o[2] = i
        /\ th[u].at = "idle" /\ th'[u] = AtPin("change", o, value) /\ th'[Peer(u)] = th[Peer(u)]
        /\ UNCHANGED <<config, pins, raised, fault>>
  BY set_gpio_valueShape
<1>2. /\ level' = [level EXCEPT ![o] = value] /\ fresh' = fresh \ {o} /\ <<u, i>> \in Drive
      /\ UNCHANGED <<connected, gpios, gpio_irqs>>
  BY <1>1 DEF set_gpio_value, pins
<1>3. th'[u].at = "change" /\ th'[u].pin = o /\ th'[u].k = 1
  BY <1>1 DEF AtPin
<1>4. /\ \A v \in Unit : \A x : get_pin(v, x)' = get_pin(v, x)
      /\ \A v \in Unit : \A x, y : Link(v, x, y)' <=> Link(v, x, y)
  BY <1>2, SameWires
<1>5. SUFFICES ASSUME NEW w \in Unit, NEW x, NEW y, Link(w, x, y), SoleDriver(w, x, y),
                      get_pin(w, x) \notin fresh', get_pin(Peer(w), y) \notin fresh',
                      ~Waits(w, x, y)'
               PROVE  level'[get_pin(Peer(w), y)] = level'[get_pin(w, x)]
  <2>1. \A w \in Unit : \A x, y : SoleDriver(w, x, y)' <=> SoleDriver(w, x, y)
    BY <1>4, SoleSame
  <2>2. QED BY <1>4, <2>1, PeerUnit DEF LevelFollows
<1>6. /\ get_pin(w, x) \in Objects /\ get_pin(w, x)[1] = w /\ get_pin(w, x)[2] = x
      /\ get_pin(Peer(w), y) \in Objects /\ get_pin(Peer(w), y)[1] = Peer(w)
      /\ get_pin(Peer(w), y)[2] = y
  BY <1>5, LinkEnds
<1>7. get_pin(w, x) # o
  <2>1. SUFFICES ASSUME get_pin(w, x) = o PROVE FALSE
    OBVIOUS
  <2>2. w = u /\ x = i
    BY <1>1, <1>6, <2>1
  <2>3. PICK m \in DOMAIN connected[o] : connected[o][m][2] = y
    BY <1>5, <2>1 DEF Link, Lists
  <2>4. m >= 1
    <3>1. connected[o] \in Seq(Objects)
      BY DEF Shape, Typed
    <3>2. QED BY <3>1
  <2>5. Waits(w, x, y)'
    BY <1>2, <1>3, <1>4, <2>1, <2>2, <2>3, <2>4 DEF Waits
  <2>6. QED BY <1>5, <2>5
<1>8. get_pin(Peer(w), y) # o
  BY <1>1, <1>2, <1>5, <1>6 DEF SoleDriver
<1>9. get_pin(w, x) \notin fresh /\ get_pin(Peer(w), y) \notin fresh
  BY <1>2, <1>5, <1>7, <1>8
<1>10. ~Waits(w, x, y)
  <2>1. CASE w = u
    BY <1>1, <2>1 DEF Waits
  <2>2. CASE w = Peer(u)
    BY <1>1, <1>2, <1>4, <1>5, <2>2 DEF Waits
  <2>3. QED BY <2>1, <2>2, PeerUnit
<1>11. level[get_pin(Peer(w), y)] = level[get_pin(w, x)]
  BY <1>5, <1>9, <1>10 DEF LevelFollows
<1>12. level \in [Objects -> BOOLEAN]
  BY DEF Shape, Typed
<1>13. QED BY <1>2, <1>6, <1>7, <1>8, <1>11, <1>12

LEMMA ChangeLevels ==
  ASSUME Shape, Wires, Driving, PassesLevel,
         \A u \in Unit : \A i, j : LevelFollows(u, i, j),
         NEW u \in Unit, Change(u)
  PROVE  \A w \in Unit : \A x, y : LevelFollows(w, x, y)'
<1>1. /\ th[u].at = "change" /\ th[u].peer # Null /\ NextPeer(u)
      /\ level' = [level EXCEPT ![th[u].peer] = th[u].value]
      /\ fresh' = fresh \ {th[u].peer}
      /\ UNCHANGED <<config, pins, fault, overlap>>
  BY ChangeWires, ChangeShape
<1>2. PICK a, p, k : a = th[u].pin /\ p = th[u].peer /\ k = th[u].k
  OBVIOUS
<1>3. /\ a \in Objects /\ Main(a) /\ a[1] = u
      /\ k \in DOMAIN connected[a] /\ p = connected[a][k]
      /\ p \in Objects /\ p[1] = Peer(u) /\ Main(p) /\ Lists(a, p[2]) /\ Lists(p, a[2])
  BY <1>1, <1>2, PeerOnWire
<1>4. /\ a = get_pin(u, a[2]) /\ a # Null /\ p = get_pin(Peer(u), p[2]) /\ a # p
  <2>1. a = get_pin(u, a[2]) /\ p = get_pin(Peer(u), p[2])
    BY <1>3 DEF Main
  <2>2. a # p
    BY <1>3, PeerUnit
  <2>3. QED BY <1>3, <2>1, <2>2, ObjectShape
<1>5. /\ th'[Peer(u)] = th[Peer(u)] /\ th'[u].at = "change" /\ th'[u].pin = a
      /\ th'[u].k = k + 1
  BY <1>1, <1>2, NextPeerEffect DEF Shape, Typed
<1>6. /\ UNCHANGED <<connected, gpios, gpio_irqs>>
      /\ <<u, a[2]>> \in Drive /\ Link(u, a[2], p[2])
  BY <1>1, <1>2, <1>3, <1>4 DEF pins, Driving, Link
<1>7. /\ \A v \in Unit : \A x : get_pin(v, x)' = get_pin(v, x)
      /\ \A v \in Unit : \A x, y : Link(v, x, y)' <=> Link(v, x, y)
  BY <1>6, SameWires
<1>8. SUFFICES ASSUME NEW w \in Unit, NEW x, NEW y, Link(w, x, y), SoleDriver(w, x, y),
                      get_pin(w, x) \notin fresh', get_pin(Peer(w), y) \notin fresh',
                      ~Waits(w, x, y)'
               PROVE  level'[get_pin(Peer(w), y)] = level'[get_pin(w, x)]
  <2>1. \A w \in Unit : \A x, y : SoleDriver(w, x, y)' <=> SoleDriver(w, x, y)
    BY <1>7, SoleSame
  <2>2. QED BY <1>7, <2>1, PeerUnit DEF LevelFollows
<1>9. /\ get_pin(w, x) \in Objects /\ get_pin(w, x)[1] = w /\ get_pin(w, x)[2] = x
      /\ get_pin(Peer(w), y) \in Objects /\ get_pin(Peer(w), y)[1] = Peer(w)
      /\ get_pin(Peer(w), y)[2] = y
  BY <1>8, LinkEnds
<1>10. level \in [Objects -> BOOLEAN]
  BY DEF Shape, Typed
<1>11. level'[p] = th[u].value /\ \A q \in Objects : q # p => level'[q] = level[q]
  BY <1>1, <1>2, <1>3, <1>10
<1>12. get_pin(w, x) # p
  <2>1. SUFFICES ASSUME get_pin(w, x) = p PROVE FALSE
    OBVIOUS
  <2>2. w = Peer(u) /\ x = p[2] /\ Peer(w) = u
    BY <1>3, <1>9, <2>1, PeerUnit
  <2>3. ~Link(u, a[2], p[2])
    BY <1>6, <1>8, <2>2 DEF SoleDriver
  <2>4. QED BY <1>6, <2>3
<1>13. CASE get_pin(Peer(w), y) = p
  <2>1. w = u /\ y = p[2]
    BY <1>3, <1>9, <1>13, PeerUnit
  <2>2. x = a[2]
    BY <1>6, <1>8, <2>1 DEF SoleDriver
  <2>3. Undriven(u, a[2])
    BY <1>8, <2>1, <2>2 DEF SoleDriver, Undriven
  <2>4. level[a] = th[u].value
    BY <1>1, <1>2, <2>3 DEF PassesLevel
  <2>5. QED BY <1>3, <1>4, <1>11, <1>13, <2>1, <2>2, <2>4
<1>14. CASE get_pin(Peer(w), y) # p
  <2>1. get_pin(w, x) \notin fresh /\ get_pin(Peer(w), y) \notin fresh
    BY <1>1, <1>2, <1>8, <1>12, <1>14
  <2>2. ~Waits(w, x, y)
    <3>1. CASE w = Peer(u)
      BY <1>5, <1>6, <1>7, <1>8, <3>1 DEF Waits
    <3>2. CASE w = u
      <4>1. SUFFICES ASSUME a = get_pin(u, x), NEW m \in DOMAIN connected[a], m >= k,
                            connected[a][m][2] = y
                     PROVE  Waits(u, x, y)'
        BY <1>2, <1>8, <3>2 DEF Waits
      <4>2. m # k
        BY <1>3, <1>4, <1>14, <3>2, <4>1
      <4>3. m >= k + 1
        <5>1. connected[a] \in Seq(Objects)
          BY <1>3 DEF Shape, Typed
        <5>2. m \in Nat /\ k \in Nat
          BY <1>3, <5>1
        <5>3. QED BY <4>1, <4>2, <5>2
      <4>4. QED BY <1>5, <1>6, <1>7, <4>1, <4>3 DEF Waits
    <3>3. QED BY <3>1, <3>2, PeerUnit
  <2>3. level[get_pin(Peer(w), y)] = level[get_pin(w, x)]
    BY <1>8, <2>1, <2>2 DEF LevelFollows
  <2>4. QED BY <1>9, <1>11, <1>12, <1>14, <2>3
<1>15. QED BY <1>13, <1>14

-----------------------------------------------------------------------------
(* Who drives, and which irqs are new.                                     *)

LEMMA DrivingKept ==
  ASSUME Driving, NEW u \in Unit, th'[Peer(u)] = th[Peer(u)],
         th'[u].at = "change" =>
           \/ th[u].at = "change" /\ th'[u].pin = th[u].pin
           \/ <<u, th'[u].pin[2]>> \in Drive
  PROVE  Driving'
BY PeerUnit DEF Driving

LEMMA HalfFreshKept ==
  ASSUME NEW u \in Unit, th'[Peer(u)] = th[Peer(u)],
         Converting(u)' => Half(u)' \in fresh',
         Converting(Peer(u)) => Half(Peer(u)) \in fresh'
  PROVE  HalfFresh'
<1>1. Converting(Peer(u))' => Half(Peer(u))' \in fresh'
  BY DEF Converting, Half
<1>2. QED BY <1>1, PeerUnit DEF HalfFresh

LEMMA ContinueDrives ==
  ASSUME Shape, Driving, NEW u \in Unit, Continue(u)
  PROVE  Driving'
<1>1. Typed /\ Placed(u) /\ th \in [Unit -> PinThread]
  BY DEF Shape, Typed
<1>2. CASE Fail("use after free") \/ Fail("out of bounds")
  BY <1>2 DEF Fail, Driving
<1>3. CASE Fetch(u)
  BY <1>1, <1>3, FetchEffect, DrivingKept
<1>4. CASE SetHandler(u)
  BY <1>1, <1>4, SetHandlerEffect, DrivingKept
<1>5. CASE Replace(u)
  BY <1>5, ReplaceShape, IdleType, DrivingKept
<1>6. CASE ChangeDone(u)
  BY <1>6, ChangeDoneShape, IdleType, DrivingKept
<1>7. CASE Rewire(u) /\ ~Fail("use after free") /\ ~Fail("out of bounds")
  BY <1>1, <1>7, RewireEffect, NextPeerEffect, DrivingKept
<1>8. CASE Change(u) /\ ~Fail("use after free")
  BY <1>1, <1>8, ChangeShape, NextPeerEffect, DrivingKept
<1>9. QED BY <1>2, <1>3, <1>4, <1>5, <1>6, <1>7, <1>8 DEF Continue

(* The irq that is being built does not stand for its number yet.          *)
LEMMA HalfIsNotMain ==
  ASSUME Shape, NEW u \in Unit, Converting(u)
  PROVE  ~Main(Half(u)) /\ Half(u)[1] = u
<1>1. Typed /\ th[u].pin[2] \in gpios[u]
  BY DEF Shape, Placed
<1>2. get_pin(u, th[u].pin[2]) = Gpio(u, th[u].pin[2])
  BY <1>1, GetPin
<1>3. QED BY <1>2 DEF Main, Half, GpioIrq, Gpio

LEMMA ContinueFresh ==
  ASSUME Shape, Wires, HalfFresh, NEW u \in Unit, Continue(u)
  PROVE  HalfFresh'
<1>1. Typed /\ Placed(u) /\ th \in [Unit -> PinThread] /\ Peer(u) \in Unit
  BY PeerUnit DEF Shape, Typed
<1>2. /\ Converting(u) => Half(u) \in fresh
      /\ Converting(Peer(u)) => Half(Peer(u)) \in fresh
  BY <1>1 DEF HalfFresh
<1>3. CASE Fetch(u)
  <2>1. th'[Peer(u)] = th[Peer(u)] /\ th'[u].at = th[u].at /\ th'[u].pin = th[u].pin
    BY <1>1, <1>3, FetchEffect
  <2>2. fresh' = fresh
    BY <1>3 DEF Fetch, levels
  <2>3. QED BY <1>2, <2>1, <2>2, HalfFreshKept DEF Converting, Half
<1>4. CASE SetHandler(u)
  <2>1. /\ th'[Peer(u)] = th[Peer(u)] /\ th'[u].pin = th[u].pin /\ th[u].at = "rewire"
    BY <1>1, <1>4, SetHandlerEffect
  <2>2. fresh' = fresh
    BY <1>4 DEF SetHandler, levels
  <2>3. QED BY <1>2, <2>1, <2>2, HalfFreshKept DEF Converting, Half
<1>5. CASE Replace(u)
  BY <1>2, <1>5, ReplaceShape, IdleType, HalfFreshKept DEF levels, Converting
<1>6. CASE ChangeDone(u)
  BY <1>2, <1>6, ChangeDoneShape, IdleType, HalfFreshKept DEF levels, Converting
<1>7. CASE Rewire(u)
  <2>1. ~Fail("use after free") /\ ~Fail("out of bounds")
    BY <1>7, RewireFinds
  <2>2. /\ th'[Peer(u)] = th[Peer(u)] /\ th'[u].at = th[u].at /\ th'[u].pin = th[u].pin
        /\ fresh' = fresh
    BY <1>1, <1>7, <2>1, RewireEffect, NextPeerEffect DEF levels
  <2>3. QED BY <1>2, <2>2, HalfFreshKept DEF Converting, Half
<1>8. CASE Change(u)
  <2>1. ~Fail("use after free")
    BY <1>8, ChangeWires
  <2>2. /\ th'[Peer(u)] = th[Peer(u)] /\ th'[u].at = "change"
        /\ fresh' = fresh \ {th[u].peer} /\ th[u].peer # Null
    BY <1>1, <1>8, <2>1, ChangeShape, NextPeerEffect
  <2>3. Main(th[u].peer)
    BY <2>2, PeerOnWire
  <2>4. Converting(Peer(u)) => Half(Peer(u)) \in fresh'
    BY <1>1, <1>2, <2>2, <2>3, HalfIsNotMain
  <2>5. QED BY <2>2, <2>4, HalfFreshKept DEF Converting
<1>9. QED BY <1>3, <1>4, <1>5, <1>6, <1>7, <1>8 DEF Continue

LEMMA ContinueLevels ==
  ASSUME Shape, Wires, Driving, HalfFresh, PassesLevel,
         \A u \in Unit : \A i, j : LevelFollows(u, i, j),
         NEW u \in Unit, Continue(u)
  PROVE  \A w \in Unit : \A i, j : LevelFollows(w, i, j)'
<1>1. Typed /\ Placed(u) /\ th \in [Unit -> PinThread]
  BY DEF Shape, Typed
<1>2. CASE Fetch(u)
  <2>1. UNCHANGED <<connected, gpios, gpio_irqs, level, fresh>>
    BY <1>2 DEF Fetch, pins, levels
  <2>2. /\ th'[Peer(u)] = th[Peer(u)]
        /\ th'[u].at = th[u].at /\ th'[u].pin = th[u].pin /\ th'[u].k = th[u].k
    BY <1>1, <1>2, FetchEffect
  <2>3. QED BY <2>1, <2>2, QuietLevels
<1>3. CASE SetHandler(u)
  <2>1. UNCHANGED <<connected, gpios, gpio_irqs, level, fresh>>
    BY <1>3 DEF SetHandler, levels
  <2>2. th'[Peer(u)] = th[Peer(u)] /\ th[u].at = "rewire" /\ th'[u].at = "replace"
    BY <1>1, <1>3, SetHandlerEffect
  <2>3. QED BY <2>1, <2>2, QuietLevels
<1>4. CASE ChangeDone(u)
  <2>1. UNCHANGED <<connected, gpios, gpio_irqs, level, fresh>>
    BY <1>4 DEF ChangeDone, pins, levels
  <2>2. /\ th'[Peer(u)] = th[Peer(u)]
        /\ th[u].at = "change" /\ th[u].k > Len(connected[th[u].pin])
    BY <1>4, ChangeDoneShape DEF ChangeDone
  <2>3. QED BY <2>1, <2>2, QuietLevels
<1>5. QED BY <1>2, <1>3, <1>4, RewireLevels, ReplaceLevels, ChangeLevels DEF Continue

LEMMA PassesKept ==
  ASSUME PassesLevel, \A v \in Unit : \A i, j : Link(v, i, j)' <=> Link(v, i, j),
         \A v \in Unit : th'[v].at = "change" =>
           /\ th[v].at = "change" /\ th'[v].pin = th[v].pin /\ th'[v].value = th[v].value
           /\ Undriven(v, th[v].pin[2]) => level'[th[v].pin] = level[th[v].pin]
  PROVE  PassesLevel'
<1>1. \A v \in Unit : \A i : Undriven(v, i)' <=> Undriven(v, i)
  BY PeerUnit DEF Undriven
<1>2. QED BY <1>1 DEF PassesLevel

LEMMA ContinuePasses ==
  ASSUME Shape, Wires, Driving, HalfFresh, PassesLevel,
         \A u \in Unit : \A i, j : LevelFollows(u, i, j),
         NEW u \in Unit, Continue(u)
  PROVE  PassesLevel'
<1>1. Typed /\ Placed(u) /\ th \in [Unit -> PinThread]
  BY DEF Shape, Typed
<1>2. CASE Fetch(u)
  <2>1. UNCHANGED <<connected, gpios, gpio_irqs, level>>
    BY <1>2 DEF Fetch, pins, levels
  <2>2. /\ th'[Peer(u)] = th[Peer(u)]
        /\ th'[u].at = th[u].at /\ th'[u].pin = th[u].pin /\ th'[u].value = th[u].value
    BY <1>1, <1>2, FetchEffect
  <2>3. QED BY <2>1, <2>2, PeerUnit, SameWires, PassesKept
<1>3. CASE SetHandler(u)
  <2>1. UNCHANGED <<connected, gpios, gpio_irqs, level>>
    BY <1>3 DEF SetHandler, levels
  <2>2. th'[Peer(u)] = th[Peer(u)] /\ th'[u].at = "replace"
    BY <1>1, <1>3, SetHandlerEffect
  <2>3. QED BY <2>1, <2>2, PeerUnit, SameWires, PassesKept
<1>4. CASE ChangeDone(u)
  <2>1. UNCHANGED <<connected, gpios, gpio_irqs, level>>
    BY <1>4 DEF ChangeDone, pins, levels
  <2>2. th'[Peer(u)] = th[Peer(u)] /\ th'[u].at = "idle"
    BY <1>4, ChangeDoneShape, IdleType
  <2>3. QED BY <2>1, <2>2, PeerUnit, SameWires, PassesKept
<1>5. CASE Rewire(u)
  <2>1. ~Fail("use after free") /\ ~Fail("out of bounds")
    BY <1>5, RewireFinds
  <2>2. th'[Peer(u)] = th[Peer(u)] /\ th'[u].at = "rewire" /\ level' = level
    BY <1>1, <1>5, <2>1, RewireEffect, NextPeerEffect DEF levels
  <2>3. QED BY <1>5, <2>2, PeerUnit, RewireLevels, PassesKept
<1>6. CASE Replace(u)
  <2>1. th'[Peer(u)] = th[Peer(u)] /\ th'[u].at = "idle" /\ level' = level
    BY <1>6, ReplaceShape, IdleType DEF levels
  <2>2. QED BY <1>6, <2>1, PeerUnit, ReplaceLevels, PassesKept
<1>7. CASE Change(u)
  <2>1. /\ th[u].at = "change" /\ NextPeer(u) /\ th[u].peer # Null
        /\ level' = [level EXCEPT ![th[u].peer] = th[u].value]
        /\ UNCHANGED <<connected, gpios, gpio_irqs>>
    BY <1>7, ChangeWires, ChangeShape DEF pins
  <2>2. /\ th'[Peer(u)] = th[Peer(u)] /\ th'[u].at = "change"
        /\ th'[u].pin = th[u].pin /\ th'[u].value = th[u].value
    BY <1>1, <2>1, NextPeerEffect
  <2>3. PICK a, p : a = th[u].pin /\ p = th[u].peer
    OBVIOUS
  <2>4. /\ a \in Objects /\ Main(a) /\ a[1] = u /\ <<u, a[2]>> \in Drive
        /\ p \in Objects /\ p[1] = Peer(u) /\ Lists(a, p[2])
    BY <2>1, <2>3, PeerOnWire DEF Driving
  <2>5. Link(u, a[2], p[2])
    BY <2>4, ObjectShape DEF Link, Main
  <2>6. ASSUME th[Peer(u)].at = "change", Undriven(Peer(u), th[Peer(u)].pin[2])
        PROVE  level'[th[Peer(u)].pin] = level[th[Peer(u)].pin]
    <3>1. Peer(Peer(u)) = u /\ Peer(u) \in Unit
      BY PeerUnit
    <3>2. th[Peer(u)].pin[2] # p[2]
      BY <2>4, <2>5, <2>6, <3>1 DEF Undriven
    <3>3. QED BY <2>1, <2>3, <3>2
  <2>7. a # p
    BY <2>4, PeerUnit
  <2>8. level'[a] = level[a]
    BY <2>1, <2>3, <2>7
  <2>9. \A v \in Unit : \A i, j : Link(v, i, j)' <=> Link(v, i, j)
    BY <2>1, SameWires
  <2>10. QED BY <2>1, <2>2, <2>3, <2>6, <2>8, <2>9, PeerUnit, PassesKept
<1>8. QED BY <1>2, <1>3, <1>4, <1>5, <1>6, <1>7 DEF Continue

-----------------------------------------------------------------------------
(* The invariant.                                                          *)

LEMMA LevelsInit == Init => LevInv
<1> SUFFICES ASSUME Init PROVE LevInv
  OBVIOUS
<1>1. PinInv
  BY PinInit
<1>2. \A u \in Unit : th[u].at = "idle"
  BY IdleType DEF Init
<1>3. level = [o \in Objects |-> FALSE] /\ \A o \in Objects : level[o] = FALSE
  BY DEF Init
<1>4. Shape /\ Wires
  <2>1. ~overlap
    BY DEF Init
  <2>2. QED BY <1>1, <2>1 DEF PinInv
<1>5. \A u \in Unit : \A i, j : LevelFollows(u, i, j)
  BY <1>3, <1>4, LinkEnds DEF LevelFollows
<1>6. QED BY <1>1, <1>2, <1>3, <1>5 DEF LevInv, Driving, HalfFresh, PassesLevel, Converting

(* The threads are idle until everything is loaded, and all pins are low.  *)
LEMMA LevelsLoad ==
  ASSUME LevInv, load_config, PinInv'
  PROVE  LevInv'
<1>1. ~Started
  <2>1. Len(Connections) \in Nat
    BY PinAssumption
  <2>2. loaded \in 1 .. Len(Connections) + 2
    BY DEF LevInv, PinInv, Shape, Typed
  <2>3. loaded <= Len(Connections) \/ loaded = Len(Connections) + 1
    BY DEF load_config, LoadConnection, ConnectSpi
  <2>4. QED BY <2>1, <2>2, <2>3 DEF Started
<1>2. UNCHANGED <<level, fresh, th, overlap>>
  BY DEF load_config, LoadConnection, ConnectSpi, levels
<1>3. /\ level = [o \in Objects |-> FALSE] /\ \A o \in Objects : level[o] = FALSE
      /\ ~overlap
  BY <1>1 DEF LevInv, PinInv
<1>4. Shape' /\ Wires' /\ \A u \in Unit : th[u].at = "idle"
  BY <1>1, <1>2, <1>3, BeforeStart DEF LevInv, PinInv
<1>5. \A u \in Unit : \A i, j : LevelFollows(u, i, j)'
  <2>1. TAKE u \in Unit
  <2>2. TAKE i, j
  <2>3. SUFFICES ASSUME Link(u, i, j)'
                 PROVE  get_pin(u, i)' \in Objects /\ get_pin(Peer(u), j)' \in Objects
    BY <1>2, <1>3 DEF LevelFollows
  <2>4. UNCHANGED <<gpios, gpio_irqs>>
    BY DEF load_config, LoadConnection, ConnectSpi, pins
  <2>5. \A v \in Unit : \A l : get_pin(v, l)' = get_pin(v, l)
    BY <2>4 DEF get_pin, getPin
  <2>6. PICK o \in Objects : o = get_pin(u, i) /\ o = get_pin(u, i)' /\ o[1] = u /\ o[2] = i
    BY <1>4, <2>3, <2>5, GetPin DEF Link, LevInv, PinInv, Shape
  <2>7. PICK m \in DOMAIN connected'[o] : connected'[o][m][2] = j
    BY <2>3, <2>6 DEF Link, Lists
  <2>8. connected'[o][m] \in Objects
    <3>1. connected'[o] \in Seq(Objects)
      BY <1>4 DEF Shape, Typed
    <3>2. QED BY <2>7, <3>1
  <2>9. Main(o)'
    BY <2>6 DEF Main
  <2>10. connected'[o][m] = Name(Peer(u), j, i)'
    BY <1>4, <2>6, <2>7, <2>9 DEF Wires, WellNamed
  <2>11. Name(Peer(u), j, i)' = get_pin(Peer(u), j)'
    BY <1>2, <1>4, PeerUnit DEF Name, Converting
  <2>12. QED BY <2>6, <2>8, <2>10, <2>11
<1>6. Driving' /\ HalfFresh' /\ PassesLevel'
  BY <1>2, <1>4 DEF Driving, HalfFresh, PassesLevel, Converting
<1>7. level' = [o \in Objects |-> FALSE]
  BY <1>2, <1>3
<1>8. QED BY <1>5, <1>6, <1>7 DEF LevInv

LEMMA LevelsConvert ==
  ASSUME LevInv, NEW u \in Unit, NEW i, set_gpio_irq(u, i), PinInv'
  PROVE  LevInv'
<1>1. /\ Shape /\ th[u].at = "idle"
      /\ th'[u] = AtPin("rewire", Gpio(u, i), FALSE) /\ th'[Peer(u)] = th[Peer(u)]
  BY set_gpio_irqShape DEF LevInv, PinInv
<1>2. /\ UNCHANGED <<loaded, connected, gpios, gpio_irqs, level>>
      /\ fresh' = fresh \cup {GpioIrq(u, i)} /\ Started /\ (~overlap' => ~overlap)
  BY DEF set_gpio_irq, Runs, Started, config
<1>3. th'[u].at = "rewire" /\ th'[u].pin = Gpio(u, i) /\ Half(u)' = GpioIrq(u, i)
  BY <1>1 DEF AtPin, Half, Gpio, GpioIrq
<1>4. Driving'
  BY <1>1, <1>3, DrivingKept DEF LevInv
<1>5. ASSUME ~overlap'
      PROVE  HalfFresh' /\ PassesLevel' /\ \A w \in Unit : \A x, y : LevelFollows(w, x, y)'
  <2>1. /\ Wires /\ HalfFresh /\ PassesLevel /\ \A w \in Unit : \A x, y : LevelFollows(w, x, y)
        /\ fresh \subseteq fresh'
    BY <1>2, <1>5 DEF LevInv, PinInv
  <2>2. HalfFresh'
    <3>1. Converting(Peer(u)) => Half(Peer(u)) \in fresh'
      BY <2>1, PeerUnit DEF HalfFresh
    <3>2. QED BY <1>1, <1>2, <1>3, <3>1, HalfFreshKept
  <2>3. \A v \in Unit : \A x, y : Link(v, x, y)' <=> Link(v, x, y)
    BY <1>2, SameWires
  <2>4. PassesLevel'
    BY <1>1, <1>2, <1>3, <2>1, <2>3, PeerUnit, PassesKept
  <2>5. QED BY <1>1, <1>2, <1>3, <2>1, <2>2, <2>4, QuietLevels
<1>6. Started'
  BY <1>2 DEF Started
<1>7. QED BY <1>4, <1>5, <1>6 DEF LevInv

LEMMA LevelsSet ==
  ASSUME LevInv, NEW u \in Unit, NEW i, NEW value \in BOOLEAN, set_gpio_value(u, i, value),
         PinInv'
  PROVE  LevInv'
<1>1. /\ Shape /\ th[u].at = "idle" /\ get_pin(u, i)[1] = u /\ get_pin(u, i)[2] = i
      /\ th'[u] = AtPin("change", get_pin(u, i), value) /\ th'[Peer(u)] = th[Peer(u)]
  BY set_gpio_valueShape DEF LevInv, PinInv
<1>2. /\ UNCHANGED loaded /\ fresh' = fresh \ {get_pin(u, i)} /\ Started
      /\ (~overlap' => ~overlap) /\ <<u, i>> \in Drive
  BY DEF set_gpio_value, Runs, Started, config
<1>3. th'[u].at = "change" /\ th'[u].pin = get_pin(u, i)
  BY <1>1 DEF AtPin
<1>4. level' = [level EXCEPT ![get_pin(u, i)] = value] /\ level'[get_pin(u, i)] = value
  <2>1. get_pin(u, i) \in Objects
    BY <1>1, set_gpio_valueShape
  <2>2. level \in [Objects -> BOOLEAN]
    BY <1>1 DEF Shape, Typed
  <2>3. QED BY <2>1, <2>2 DEF set_gpio_value
<1>5. \A v \in Unit : \A x, y : Link(v, x, y)' <=> Link(v, x, y)
  BY SameWires DEF set_gpio_value, pins
<1>6. Driving'
  BY <1>1, <1>2, <1>3, DrivingKept DEF LevInv
<1>7. ASSUME ~overlap'
      PROVE  HalfFresh' /\ PassesLevel' /\ \A w \in Unit : \A x, y : LevelFollows(w, x, y)'
  <2>1. Wires /\ HalfFresh /\ PassesLevel /\ \A w \in Unit : \A x, y : LevelFollows(w, x, y)
    BY <1>2, <1>7 DEF LevInv, PinInv
  <2>2. HalfFresh'
    <3>1. Converting(Peer(u)) => Half(Peer(u)) \in fresh'
      BY <1>1, <1>2, <2>1, PeerUnit, HalfIsNotMain DEF HalfFresh
    <3>2. QED BY <1>1, <1>3, <3>1, HalfFreshKept DEF Converting
  <2>3. PassesLevel'
    <3>1. \A v \in Unit : \A x : Undriven(v, x)' <=> Undriven(v, x)
      BY <1>5, PeerUnit DEF Undriven
    <3>2. level'[get_pin(u, i)] = value /\ th'[u].value = value
      BY <1>1, <1>4 DEF AtPin
    <3>3. ASSUME th[Peer(u)].at = "change", Undriven(Peer(u), th[Peer(u)].pin[2])
          PROVE  level'[th[Peer(u)].pin] = level[th[Peer(u)].pin]
      <4>1. th[Peer(u)].pin # get_pin(u, i)
        BY <1>1, <3>3, PeerUnit, PinOfThread DEF Shape
      <4>2. QED BY <1>4, <4>1
    <3>4. QED BY <1>1, <1>3, <2>1, <3>1, <3>2, <3>3, PeerUnit DEF PassesLevel
  <2>4. QED BY <1>1, <2>1, <2>2, <2>3, set_gpio_valueLevels
<1>8. Started'
  BY <1>2 DEF Started
<1>9. QED BY <1>6, <1>7, <1>8 DEF LevInv

LEMMA LevelsContinue ==
  ASSUME LevInv, NEW u \in Unit, Continue(u), PinInv'
  PROVE  LevInv'
<1>1. Shape /\ Driving
  BY DEF LevInv, PinInv
<1>2. Started
  <2>1. th[u].at # "idle"
    BY DEF Continue, Fetch, Rewire, SetHandler, Replace, Change, ChangeDone, Runs
  <2>2. QED BY <1>1, <2>1 DEF Shape, Placed
<1>3. UNCHANGED <<loaded, overlap>>
  BY DEF Continue, Fetch, Rewire, SetHandler, Replace, Change, ChangeDone, Fail, config
<1>4. Driving' /\ Started'
  BY <1>1, <1>2, <1>3, ContinueDrives DEF Started
<1>5. ASSUME ~overlap'
      PROVE  HalfFresh' /\ PassesLevel' /\ \A w \in Unit : \A x, y : LevelFollows(w, x, y)'
  <2>1. Wires /\ HalfFresh /\ PassesLevel /\ \A w \in Unit : \A x, y : LevelFollows(w, x, y)
    BY <1>3, <1>5 DEF LevInv, PinInv
  <2>2. QED BY <1>1, <2>1, ContinueFresh, ContinueLevels, ContinuePasses
<1>6. QED BY <1>4, <1>5 DEF LevInv

LEMMA LevelsStutter ==
  ASSUME LevInv, UNCHANGED vars, PinInv'
  PROVE  LevInv'
<1>1. /\ UNCHANGED <<loaded, connected, gpios, gpio_irqs>>
      /\ UNCHANGED <<level, fresh, th, overlap>>
  BY DEF vars, config, pins, levels
<1>2. Driving' /\ (Started' <=> Started) /\ level' = level
  BY <1>1 DEF LevInv, Driving, Started
<1>3. ASSUME ~overlap'
      PROVE  HalfFresh' /\ PassesLevel' /\ \A w \in Unit : \A x, y : LevelFollows(w, x, y)'
  <2>1. HalfFresh /\ PassesLevel /\ \A w \in Unit : \A x, y : LevelFollows(w, x, y)
    BY <1>1, <1>3 DEF LevInv
  <2>2. /\ \A v \in Unit : \A i : get_pin(v, i)' = get_pin(v, i)
        /\ \A v \in Unit : \A i, j : Link(v, i, j)' <=> Link(v, i, j)
    BY <1>1, SameWires
  <2>3. \A v \in Unit : \A i, j : Waits(v, i, j) => Waits(v, i, j)'
    BY <1>1, <2>2 DEF Waits
  <2>4. HalfFresh'
    BY <1>1, <2>1 DEF HalfFresh, Converting, Half
  <2>5. PassesLevel'
    BY <1>1, <2>1, <2>2, PassesKept
  <2>6. QED BY <1>1, <2>1, <2>2, <2>3, <2>4, <2>5, FollowsSame
<1>4. QED BY <1>2, <1>3 DEF LevInv

THEOREM LevelsInvariant == Spec => []LevInv
<1>1. LevInv /\ [Next]_vars => LevInv'
  <2> SUFFICES ASSUME LevInv, [Next]_vars PROVE LevInv'
    OBVIOUS
  <2>1. PinInv'
    BY PinStep DEF LevInv
  <2>2. ASSUME NEW f \in Convert, set_gpio_irq(f[1], f[2]) PROVE LevInv'
    BY <2>1, <2>2, LevelsConvert, PinAssumption
  <2>3. ASSUME NEW f \in Drive, NEW value \in BOOLEAN, set_gpio_value(f[1], f[2], value)
        PROVE  LevInv'
    BY <2>1, <2>3, LevelsSet, PinAssumption
  <2>4. QED BY <2>1, <2>2, <2>3, LevelsLoad, LevelsContinue, LevelsStutter DEF Next
<1>2. QED BY <1>1, LevelsInit, PTL DEF Spec

-----------------------------------------------------------------------------
(* When both units are at rest, the other end of a wire has the level of   *)
(* its only driver, whatever was converted before.                         *)
THEOREM LevelsFollow == Spec => []LevelsAgree
<1>1. LevInv => LevelsAgree
  <2> SUFFICES ASSUME LevInv, ~overlap, \A u \in Unit : th[u].at = "idle",
                      NEW o \in alive \ fresh, NEW p \in alive \ fresh, Drives(o, p),
                      \A q \in alive : Drives(q, p) \/ Drives(q, o) => q = o, o # p
               PROVE  level[p] = level[o]
    BY DEF LevelsAgree
  <2>1. Shape /\ Wires /\ Typed /\ o \in Objects /\ p \in Objects
    BY DEF LevInv, PinInv, Shape, Typed
  <2>2. PICK f \in Drive : get_pin(f[1], f[2]) = o /\ Wired(o, p)
    BY DEF Drives
  <2>3. PICK u, i, j : u = f[1] /\ i = f[2] /\ j = p[2]
    OBVIOUS
  <2>4. u \in Unit /\ o = get_pin(u, i) /\ <<u, i>> \in Drive /\ i \in Nat
    <3>1. f = <<f[1], f[2]>> /\ f \in Unit \X Nat
      BY PinAssumption
    <3>2. QED BY <2>2, <2>3, <3>1
  <2>5. o # Null /\ o[1] = u /\ o[2] = i /\ Main(o)
    BY <2>1, <2>4, GetPin, ObjectShape DEF Main
  <2>6. PICK m \in DOMAIN connected[o] : connected[o][m] = p
    BY <2>2, InList DEF Wired
  <2>7. p[1] = Peer(u) /\ Peer(u) \in Unit /\ Peer(Peer(u)) = u
    BY <2>1, <2>4, <2>5, <2>6, PeerUnit DEF Shape, Facing
  <2>8. \A v \in Unit : \A l, n : Name(v, l, n) = get_pin(v, l)
    BY DEF Name, Converting
  <2>9. p = get_pin(Peer(u), j)
    BY <2>1, <2>3, <2>5, <2>6, <2>7, <2>8 DEF Wires, WellNamed
  <2>10. Link(u, i, j)
    BY <2>3, <2>4, <2>5, <2>6 DEF Link, Lists
  <2>11. \A v \in Unit : \A l, n : Link(v, l, n) =>
           /\ get_pin(v, l) \in alive
           /\ Wired(get_pin(v, l), get_pin(Peer(v), n))
    <3>1. SUFFICES ASSUME NEW v \in Unit, NEW l, NEW n, Link(v, l, n)
                   PROVE  /\ get_pin(v, l) \in alive
                          /\ Wired(get_pin(v, l), get_pin(Peer(v), n))
      OBVIOUS
    <3>2. /\ get_pin(v, l) \in Objects /\ get_pin(v, l)[1] = v /\ get_pin(v, l)[2] = l
          /\ get_pin(v, l) # Null
      BY <2>1, <3>1, LinkEnds DEF Link
    <3>3. get_pin(v, l) \in alive
      BY <2>1, <2>8, <3>1, <3>2, NameIsAlive DEF Shape
    <3>4. PICK x \in DOMAIN connected[get_pin(v, l)] : connected[get_pin(v, l)][x][2] = n
      BY <3>1 DEF Link, Lists
    <3>5. connected[get_pin(v, l)][x] = get_pin(Peer(v), n)
      BY <2>1, <2>8, <3>2, <3>4, PeerUnit DEF Wires, WellNamed, Main
    <3>6. QED BY <3>3, <3>4, <3>5, InList DEF Wired
  <2>12. \A l : <<u, l>> \in Drive /\ Link(u, l, j) => l = i
    <3>1. SUFFICES ASSUME NEW l, <<u, l>> \in Drive, Link(u, l, j) PROVE l = i
      OBVIOUS
    <3>2. Drives(get_pin(u, l), p)
      BY <2>4, <2>9, <2>11, <3>1 DEF Drives
    <3>3. get_pin(u, l) = o
      BY <2>4, <2>11, <3>1, <3>2
    <3>4. QED BY <2>1, <2>4, <2>5, <3>1, <3>3, LinkEnds
  <2>13. <<Peer(u), j>> \notin Drive
    <3>1. SUFFICES ASSUME <<Peer(u), j>> \in Drive PROVE FALSE
      OBVIOUS
    <3>2. Drives(p, p)
      BY <2>9, <3>1 DEF Drives
    <3>3. QED BY <3>2
  <2>14. \A l : <<Peer(u), l>> \in Drive => ~Link(Peer(u), l, i)
    <3>1. SUFFICES ASSUME NEW l, <<Peer(u), l>> \in Drive, Link(Peer(u), l, i) PROVE FALSE
      OBVIOUS
    <3>2. Drives(get_pin(Peer(u), l), o) /\ get_pin(Peer(u), l) \in alive
      BY <2>4, <2>7, <2>11, <3>1 DEF Drives
    <3>3. get_pin(Peer(u), l) = o
      BY <3>2
    <3>4. get_pin(Peer(u), l)[1] = Peer(u)
      BY <2>1, <2>7, <3>1, LinkEnds
    <3>5. QED BY <2>4, <2>5, <3>3, <3>4, PeerUnit
  <2>15. LevelFollows(u, i, j) /\ ~Waits(u, i, j)
    BY <2>4 DEF LevInv, Waits
  <2>16. QED BY <2>4, <2>9, <2>10, <2>12, <2>13, <2>14, <2>15 DEF LevelFollows, SoleDriver
<1>2. QED BY <1>1, LevelsInvariant, PTL
=============================================================================
