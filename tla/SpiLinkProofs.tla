--------------------------- MODULE SpiLinkProofs ---------------------------
(* What module SpiLink promises for any plans of the two devices, any      *)
(* sizes, any length of the signal queue, and masters at both ends as      *)
(* well.                                                                   *)
EXTENDS SpiLink, SequenceTheorems, TLAPS

(***************************************************************************)
(* The inductive invariant, of a device s and the other one, Peer(s).      *)
(***************************************************************************)

Posting == {"callback", "ctx", "unlock", "cond_lock", "cond_wait", "waiting", "woken"}

Serving == {"look", "copy", "unlisten", "signal", "raise", "clear"}

Amount == Sizes \cup {0}

PCs == {"idle", "lock", "listen"} \cup Posting \cup Serving

Thread == [at : PCs, ip : Nat,
           kind : {"sync", "async", "now"}, size : Amount, posted : Nat]

Typed ==
  /\ lock \in [Dev -> BOOLEAN]
  /\ cond_mutex \in [Dev -> BOOLEAN]
  /\ current_rx \in [Dev -> Nat]
  /\ current_tx \in [Dev -> Nat]
  /\ current_xfer_size \in [Dev -> Amount]
  /\ is_listening \in [Dev -> BOOLEAN]
  /\ slave_callback \in [Dev -> Nat]
  /\ slave_callback_ctx \in [Dev -> Nat]
  /\ th \in [Dev -> Thread]
  /\ exchanges \subseteq [dev : Dev, id : Nat, from : Nat, to : Nat, n : Amount, size : Amount]
  /\ callbacks \in Seq([dev : Dev, id : Nat, ctx : Nat])
  /\ early \subseteq Dev /\ missed \subseteq Dev
  /\ returned \in [Dev -> Amount \cup {EINVAL}]

(* Where a thread is in its plan, and which calls bring it there.          *)
Placed(d) ==
  /\ th[d].ip \in 1 .. Len(Plan[d]) + 1
  /\ th[d].posted < th[d].ip
  /\ th[d].at # "idle" =>
       /\ th[d].ip <= Len(Plan[d])
       /\ Plan[d][th[d].ip] = IF th[d].kind = "sync" THEN "sync" ELSE "async"
       /\ th[d].kind = "now" => IsMaster[d]
  /\ th[d].at \in Serving => IsMaster[d] /\ th[d].kind # "async"
  /\ th[d].at \in Posting \cup {"listen"} => th[d].kind = "async" \/ ~IsMaster[d]
  /\ th[d].at \in {"callback", "ctx"} => th[d].kind = "async"
  /\ th[d].at \in {"cond_lock", "cond_wait", "waiting", "woken"} => th[d].kind = "sync"

(* Buffers, callbacks and contexts are those of calls that were made.      *)
Named(d) ==
  /\ current_rx[d] <= Len(Plan[d])
  /\ current_tx[d] <= Len(Plan[d])
  /\ slave_callback[d] <= Len(Plan[d])
  /\ slave_callback_ctx[d] <= Len(Plan[d])

(* A call id of s that is over, or is running and has posted.              *)
Reached(s, id) == id < th[s].ip \/ (id = th[s].ip /\ th[s].at \in Posting)

(* Nobody was told of a call that is still to come.                        *)
ToldOfPast(s) ==
  /\ Reached(s, slave_callback[s])
  /\ \A k \in DOMAIN callbacks : callbacks[k].dev = s => Reached(s, callbacks[k].id)

(* The posting of s is there for the other device to serve.                *)
Offered(s) ==
  /\ current_rx[s] # 0
  /\ current_tx[s] = current_rx[s]
  /\ ~Exchanged(s, current_rx[s])
  /\ ~Told(s, current_rx[s])
  /\ \/ th[s].at \in Posting /\ current_rx[s] = th[s].ip
     \/ th[s].at = "idle" /\ current_rx[s] = th[s].posted

(* While it listens, except between the copy and the reset of the flag.    *)
ListensToOffer(s) == (is_listening[s] /\ th[Peer(s)].at # "unlisten") => Offered(s)

CopiesListener(s) == th[Peer(s)].at = "copy" => is_listening[s]

Listening(s) ==
  th[s].at = "listen" => current_rx[s] = th[s].ip /\ current_tx[s] = th[s].ip

(* Exchanges are of calls that have posted.                                *)
ExchangedPast(s) ==
  \A x \in exchanges : x.dev = Peer(s) => Reached(s, x.from)

ExchangesOf(d) ==
  \A x \in exchanges : x.dev = d =>
    /\ x.from = x.to
    /\ x.from # 0
    /\ x.n <= x.size
    /\ \A y \in exchanges : y.dev = d /\ x.from = y.from => x = y

(* Until its call returns, the size in a slave is that of its exchange.    *)
SizeKept(s) ==
  \A x \in exchanges :
    x.dev = Peer(s) /\ th[s].at \in Posting /\ x.from = th[s].ip => x.n = current_xfer_size[s]

(* What holds of a device until it is told too early.                      *)
Sound(s) ==
  /\ ListensToOffer(s)
  /\ Listening(s)
  /\ ExchangedPast(s)
  /\ ExchangesOf(Peer(s))
  /\ SizeKept(s)
  /\ ~IsMaster[s] => ReturnedExchanged(s)

Rest(s) ==
  /\ Named(s)
  /\ ToldOfPast(s)
  /\ CopiesListener(s)
  /\ s \notin early => Sound(s)

IInv == Typed /\ \A d \in Dev : Placed(d) /\ Rest(d)

(* The steps of a device, except those that only concern its interrupts.   *)
Step(d) ==
  \/ Enable(d) \/ sync_xfer(d) \/ async_xfer(d) \/ Lock(d)
  \/ MasterStep(d) \/ SlaveStep(d) \/ Handle(d)

LEMMA PeerType ==
  \A d \in Dev : /\ Peer(d) \in Dev /\ Peer(d) # d /\ Peer(Peer(d)) = d
                 /\ \A e \in Dev : e = d \/ e = Peer(d)
BY DevAssumption DEF Peer

LEMMA AmountNat == Amount \subseteq Nat /\ 0 \in Amount
BY PlanAssumption DEF Amount

LEMMA GotoEffect ==
  ASSUME th \in [Dev -> Thread], NEW d \in Dev, NEW pc \in PCs, Goto(d, pc)
  PROVE  /\ th' \in [Dev -> Thread]
         /\ th'[Peer(d)] = th[Peer(d)]
         /\ th'[d].at = pc
         /\ th'[d].ip = th[d].ip /\ th'[d].kind = th[d].kind
         /\ th'[d].size = th[d].size /\ th'[d].posted = th[d].posted
BY PeerType DEF Thread, Goto

LEMMA ReturnEffect ==
  ASSUME th \in [Dev -> Thread], NEW d \in Dev, NEW v, Return(d, v)
  PROVE  /\ th' \in [Dev -> Thread]
         /\ th'[Peer(d)] = th[Peer(d)]
         /\ th'[d].at = "idle"
         /\ th'[d].ip = th[d].ip + 1 /\ th'[d].kind = th[d].kind
         /\ th'[d].size = th[d].size
         /\ th'[d].posted = IF Op(d) = "async" /\ v # EINVAL THEN th[d].ip ELSE th[d].posted
         /\ returned' = [returned EXCEPT ![d] = v]
BY PeerType DEF Thread, PCs, Return

LEMMA BeginEffect ==
  ASSUME th \in [Dev -> Thread], NEW d \in Dev, NEW kind \in {"sync", "async", "now"},
         Begin(d, kind, "lock")
  PROVE  /\ th' \in [Dev -> Thread]
         /\ th'[Peer(d)] = th[Peer(d)]
         /\ th'[d].at = "lock" /\ th'[d].kind = kind
         /\ th'[d].ip = th[d].ip /\ th'[d].posted = th[d].posted
<1>1. PICK size \in Sizes :
        th' = [th EXCEPT ![d] = [@ EXCEPT !.at = "lock", !.kind = kind, !.size = size]]
  BY DEF Begin
<1>2. [th[d] EXCEPT !.at = "lock", !.kind = kind, !.size = size] \in Thread
  BY DEF Thread, PCs, Amount
<1>3. QED BY <1>1, <1>2, PeerType DEF Thread

LEMMA SignalEffect ==
  ASSUME th \in [Dev -> Thread], NEW d \in Dev, Signal(d)
  PROVE  /\ th' \in [Dev -> Thread]
         /\ th'[d].at = "raise"
         /\ \A e \in Dev : /\ th'[e].ip = th[e].ip /\ th'[e].kind = th[e].kind
                           /\ th'[e].size = th[e].size /\ th'[e].posted = th[e].posted
         /\ th'[Peer(d)].at = IF th[Peer(d)].at = "waiting" THEN "woken" ELSE th[Peer(d)].at
<1> DEFINE t == th[Peer(d)]
           p == IF t.at = "waiting" THEN "woken" ELSE t.at
<1>1. d \in Dev /\ Peer(d) \in Dev /\ Peer(d) # d
  BY PeerType
<1>2. th' = [th EXCEPT ![d].at = "raise", ![Peer(d)].at = p]
  BY <1>1 DEF Signal
<1>3. th[d] \in Thread /\ t \in Thread
  BY <1>1
<1>4. "raise" \in PCs /\ p \in PCs
  BY <1>3 DEF Thread, PCs, Posting, Serving
<1>5. th'[d] = [th[d] EXCEPT !.at = "raise"] /\ th'[Peer(d)] = [t EXCEPT !.at = p]
  BY <1>1, <1>2
<1>6. th' \in [Dev -> Thread]
  BY <1>1, <1>2, <1>3, <1>4, <1>5, PeerType DEF Thread
<1>7. QED BY <1>1, <1>3, <1>5, <1>6, PeerType DEF Thread

-----------------------------------------------------------------------------
(* The types.                                                              *)

LEMMA MoveTyped ==
  ASSUME Typed, NEW d \in Dev,
         \/ Look(d) \/ Unlisten(d) \/ RaiseIrq(d) \/ Listen(d)
         \/ SetCallback(d) \/ SetContext(d) \/ CondLock(d) \/ CondWait(d)
  PROVE  Typed'
<1>1. th' \in [Dev -> Thread]
  BY GotoEffect
     DEF Typed, Look, Unlisten, RaiseIrq, Listen, SetCallback, SetContext, CondLock, CondWait,
         PCs, Posting, Serving
<1>2. th[d].ip \in Nat /\ Peer(d) \in Dev
  BY PeerType DEF Typed, Thread
<1>3. QED
  BY <1>1, <1>2
     DEF Typed, Look, Unlisten, RaiseIrq, Listen, SetCallback, SetContext, CondLock, CondWait,
         spi, ghosts, mutexes, buffers, callback

LEMMA OtherTyped ==
  ASSUME Typed, NEW d \in Dev, sync_xfer(d) \/ Signal(d)
  PROVE  Typed'
<1>1. th' \in [Dev -> Thread]
  BY BeginEffect, SignalEffect DEF Typed, sync_xfer
<1>2. QED BY <1>1 DEF Typed, sync_xfer, Signal, spi, ghosts, mutexes, buffers, callback

LEMMA CopyTyped ==
  ASSUME Typed, NEW d \in Dev, Copy(d)
  PROVE  Typed'
<1> DEFINE s == Peer(d)
           n == Smaller(th[d].size, current_xfer_size[s])
<1>1. th' \in [Dev -> Thread] /\ s \in Dev
  BY GotoEffect, PeerType DEF Typed, Copy, Serving, PCs
<1>2. n \in Amount
  BY <1>1 DEF Typed, Smaller, Thread
<1>3. current_xfer_size' \in [Dev -> Amount]
  BY <1>1, <1>2 DEF Typed, Copy, tell_size
<1>4. current_rx' \in [Dev -> Nat] /\ current_tx' \in [Dev -> Nat]
  BY <1>1 DEF Typed, Copy
<1>5. exchanges' \subseteq [dev : Dev, id : Nat, from : Nat, to : Nat, n : Amount, size : Amount]
  <2>1. th[d].ip \in Nat /\ th[d].size \in Amount
    BY DEF Typed, Thread
  <2>2. exchanges' = exchanges \cup
          {[dev |-> d, id |-> th[d].ip, from |-> current_tx[s], to |-> current_rx[s],
            n |-> n, size |-> th[d].size]}
    BY DEF Copy
  <2>3. QED BY <1>1, <1>2, <2>1, <2>2 DEF Typed
<1>6. QED BY <1>1, <1>3, <1>4, <1>5 DEF Typed, Copy, mutexes, callback

LEMMA AppendTyped ==
  ASSUME Typed, NEW d \in Dev, NEW id \in Nat, NEW ctx \in Nat
  PROVE  Append(callbacks, [dev |-> d, id |-> id, ctx |-> ctx])
           \in Seq([dev : Dev, id : Nat, ctx : Nat])
BY DEF Typed

LEMMA EnableTyped ==
  ASSUME Typed, NEW d \in Dev, Enable(d)
  PROVE  Typed'
<1>1. th' \in [Dev -> Thread] /\ returned' = [returned EXCEPT ![d] = 0]
  BY ReturnEffect DEF Typed, Enable
<1>2. returned' \in [Dev -> Amount \cup {EINVAL}]
  BY <1>1, AmountNat DEF Typed
<1>3. QED BY <1>1, <1>2 DEF Typed, Enable, spi, mutexes, buffers, callback

LEMMA async_xferTyped ==
  ASSUME Typed, NEW d \in Dev, async_xfer(d)
  PROVE  Typed'
<1>1. /\ th' \in [Dev -> Thread]
      /\ returned' = returned \/ returned' = [returned EXCEPT ![d] = EINVAL]
  BY ReturnEffect, BeginEffect DEF Typed, async_xfer
<1>2. returned' \in [Dev -> Amount \cup {EINVAL}]
  BY <1>1 DEF Typed
<1>3. QED BY <1>1, <1>2 DEF Typed, async_xfer, spi, mutexes, buffers, callback

LEMMA LockTyped ==
  ASSUME Typed, NEW d \in Dev, Lock(d)
  PROVE  Typed'
<1>1. th' \in [Dev -> Thread]
  BY GotoEffect DEF Typed, Lock, PCs, Serving
<1>2. th[d].ip \in Nat /\ th[d].size \in Amount
  BY DEF Typed, Thread
<1>3. lock' \in [Dev -> BOOLEAN] /\ current_rx' \in [Dev -> Nat] /\ current_tx' \in [Dev -> Nat]
  BY <1>2 DEF Typed, Lock
<1>4. current_xfer_size' \in [Dev -> Amount]
  BY <1>2 DEF Typed, Lock
<1>5. QED BY <1>1, <1>3, <1>4 DEF Typed, Lock, callback, ghosts

LEMMA ClearTyped ==
  ASSUME Typed, NEW d \in Dev, Clear(d)
  PROVE  Typed'
<1>1. th' \in [Dev -> Thread] /\ returned' = [returned EXCEPT ![d] = th[d].size]
  BY ReturnEffect DEF Typed, Clear
<1>2. th[d].ip \in Nat /\ th[d].size \in Amount
  BY DEF Typed, Thread
<1>3. returned' \in [Dev -> Amount \cup {EINVAL}]
  BY <1>1, <1>2 DEF Typed
<1>4. callbacks' \in Seq([dev : Dev, id : Nat, ctx : Nat])
  BY <1>2, AppendTyped DEF Typed, Clear
<1>5. lock' \in [Dev -> BOOLEAN] /\ current_rx' \in [Dev -> Nat] /\ current_tx' \in [Dev -> Nat]
  BY DEF Typed, Clear, unlock
<1>6. QED BY <1>1, <1>3, <1>4, <1>5 DEF Typed, Clear, callback

LEMMA UnlockTyped ==
  ASSUME Typed, NEW d \in Dev, Unlock(d)
  PROVE  Typed'
<1>1. th' \in [Dev -> Thread] /\ (returned' = returned \/ returned' = [returned EXCEPT ![d] = 0])
  BY ReturnEffect, GotoEffect DEF Typed, Unlock, PCs, Posting
<1>2. returned' \in [Dev -> Amount \cup {EINVAL}]
  BY <1>1, AmountNat DEF Typed
<1>3. lock' \in [Dev -> BOOLEAN]
  BY DEF Typed, Unlock, unlock
<1>4. QED BY <1>1, <1>2, <1>3 DEF Typed, Unlock, buffers, callback

LEMMA WokenTyped ==
  ASSUME Typed, NEW d \in Dev, Woken(d)
  PROVE  Typed'
<1>1. th' \in [Dev -> Thread] /\ returned' = [returned EXCEPT ![d] = current_xfer_size[d]]
  BY ReturnEffect DEF Typed, Woken
<1>2. returned' \in [Dev -> Amount \cup {EINVAL}]
  BY <1>1 DEF Typed
<1>3. early' \subseteq Dev /\ cond_mutex' \in [Dev -> BOOLEAN]
  BY DEF Typed, Woken, Tell
<1>4. QED BY <1>1, <1>2, <1>3 DEF Typed, Woken, buffers, callback

LEMMA HandleTyped ==
  ASSUME Typed, NEW d \in Dev, Handle(d)
  PROVE  Typed'
<1>1. CASE slave_callback[d] = 0
  BY <1>1 DEF Typed, Handle, spi_irq_handler, mutexes, buffers, callback
<1>2. CASE slave_callback[d] # 0
  <2>1. /\ slave_callback' = [slave_callback EXCEPT ![d] = 0]
        /\ slave_callback_ctx' = [slave_callback_ctx EXCEPT ![d] = 0]
        /\ callbacks' = Append(callbacks, [dev |-> d, id |-> slave_callback[d],
                                           ctx |-> slave_callback_ctx[d]])
        /\ Tell(d, slave_callback[d])
    BY <1>2 DEF Handle, spi_irq_handler
  <2>2. slave_callback[d] \in Nat /\ slave_callback_ctx[d] \in Nat
    BY DEF Typed
  <2>3. callbacks' \in Seq([dev : Dev, id : Nat, ctx : Nat])
    BY <2>1, <2>2, AppendTyped DEF Typed
  <2>4. slave_callback' \in [Dev -> Nat] /\ slave_callback_ctx' \in [Dev -> Nat]
    BY <2>1 DEF Typed
  <2>5. early' \subseteq Dev
    BY <2>1 DEF Typed, Tell
  <2>6. QED BY <2>3, <2>4, <2>5 DEF Typed, Handle, mutexes, buffers
<1>3. QED BY <1>1, <1>2

-----------------------------------------------------------------------------
(* Every call goes its way, and the others stay where they are.            *)
LEMMA OwnPlaced ==
  ASSUME Typed, NEW d \in Dev, Placed(d), Step(d), ~Signal(d), ~Handle(d), ~Unlock(d)
  PROVE  Placed(d)' /\ th'[Peer(d)] = th[Peer(d)]
<1>1. /\ th \in [Dev -> Thread] /\ th[d] \in Thread
      /\ th[d].ip \in Nat /\ th[d].posted \in Nat /\ Len(Plan[d]) \in Nat /\ IsMaster[d] \in BOOLEAN
  BY PlanAssumption DEF Typed, Thread
<1>2. CASE Enable(d)
  BY <1>1, <1>2, ReturnEffect DEF Placed, Enable, Posting, Serving, Op, Runs, MayStart
<1>3. CASE sync_xfer(d)
  BY <1>1, <1>3, BeginEffect DEF Placed, sync_xfer, Posting, Serving, Op, Runs, MayStart
<1>4. CASE async_xfer(d)
  BY <1>1, <1>4, BeginEffect, ReturnEffect DEF Placed, async_xfer, Posting, Serving, Op, Runs, MayStart
<1>5. CASE Lock(d)
  BY <1>1, <1>5, GotoEffect DEF Placed, Lock, PCs, Posting, Serving, Runs
<1>6. CASE Look(d) /\ IsMaster[d]
  BY <1>1, <1>6, GotoEffect DEF Placed, Look, PCs, Posting, Serving, Runs
<1>7. CASE Copy(d) /\ IsMaster[d]
  BY <1>1, <1>7, GotoEffect DEF Placed, Copy, PCs, Posting, Serving, Runs
<1>8. CASE Unlisten(d) /\ IsMaster[d]
  BY <1>1, <1>8, GotoEffect DEF Placed, Unlisten, PCs, Posting, Serving, Runs
<1>9. CASE RaiseIrq(d) /\ IsMaster[d]
  BY <1>1, <1>9, GotoEffect DEF Placed, RaiseIrq, PCs, Posting, Serving, Runs
<1>10. CASE Clear(d) /\ IsMaster[d]
  BY <1>1, <1>10, ReturnEffect DEF Placed, Clear, Posting, Serving, Op, Runs, MayStart
<1>11. CASE Listen(d)
  BY <1>1, <1>11, GotoEffect DEF Placed, Listen, PCs, Posting, Serving, Runs
<1>12. CASE SetCallback(d)
  BY <1>1, <1>12, GotoEffect DEF Placed, SetCallback, PCs, Posting, Serving, Runs
<1>13. CASE SetContext(d)
  BY <1>1, <1>13, GotoEffect DEF Placed, SetContext, PCs, Posting, Serving, Runs
<1>14. CASE CondLock(d)
  BY <1>1, <1>14, GotoEffect DEF Placed, CondLock, PCs, Posting, Serving, Runs
<1>15. CASE CondWait(d)
  BY <1>1, <1>15, GotoEffect DEF Placed, CondWait, PCs, Posting, Serving, Runs
<1>16. CASE Woken(d)
  BY <1>1, <1>16, ReturnEffect DEF Placed, Woken, Posting, Serving, Op, Runs, MayStart
<1>17. QED
  BY <1>2, <1>3, <1>4, <1>5, <1>6, <1>7, <1>8, <1>9, <1>10, <1>11, <1>12, <1>13, <1>14, <1>15, <1>16
     DEF Step, MasterStep, SlaveStep

LEMMA UnlockPlaced ==
  ASSUME Typed, NEW d \in Dev, Placed(d), Unlock(d)
  PROVE  Placed(d)' /\ th'[Peer(d)] = th[Peer(d)]
<1>1. /\ th \in [Dev -> Thread] /\ th[d].at = "unlock"
      /\ th[d].kind \in {"sync", "async", "now"}
      /\ th[d].ip \in Nat /\ th[d].posted \in Nat /\ Len(Plan[d]) \in Nat
  BY PlanAssumption DEF Typed, Thread, Unlock, Runs
<1>2. CASE th[d].kind = "async"
  BY <1>1, <1>2, ReturnEffect DEF Unlock, Placed, Posting, Serving
<1>3. CASE th[d].kind # "async"
  <2>1. Goto(d, "cond_lock")
    BY <1>3 DEF Unlock
  <2>2. QED BY <1>1, <1>3, <2>1, GotoEffect DEF Placed, PCs, Posting, Serving
<1>4. QED BY <1>2, <1>3

LEMMA SignalPlaced ==
  ASSUME Typed, NEW d \in Dev, IsMaster[d], \A e \in Dev : Placed(e), Signal(d), NEW s \in Dev
  PROVE  Placed(s)'
<1>1. th \in [Dev -> Thread] /\ th[d].at = "signal" /\ Peer(d) \in Dev
  BY PeerType DEF Typed, Signal, Runs
<1>2. Placed(d)'
  BY <1>1, SignalEffect DEF Placed, Posting, Serving
<1>3. Placed(Peer(d))'
  BY <1>1, SignalEffect DEF Placed, Posting, Serving
<1>4. QED BY <1>2, <1>3, PeerType

-----------------------------------------------------------------------------
(* A step that leaves the posting of s and what the master does with it    *)
(* alone.                                                                  *)
Undisturbed(s) ==
  /\ current_rx'[s] = current_rx[s] /\ current_tx'[s] = current_tx[s]
  /\ current_xfer_size'[s] = current_xfer_size[s]
  /\ is_listening'[s] = is_listening[s]
  /\ returned'[s] = returned[s]
  /\ exchanges' = exchanges
  /\ s \in early => s \in early'
  /\ \A id : Told(s, id)' <=> Told(s, id)
  /\ th'[s].ip = th[s].ip /\ th'[s].posted = th[s].posted
  /\ th'[s].at \in Posting <=> th[s].at \in Posting
  /\ th'[s].at = "idle" <=> th[s].at = "idle"
  /\ th'[s].at = "listen" => th[s].at = "listen"
  /\ th'[Peer(s)].at = "copy" => th[Peer(s)].at = "copy" \/ is_listening[s]
  /\ th[Peer(s)].at = "unlisten" => th'[Peer(s)].at = "unlisten"

LEMMA RestKept ==
  ASSUME NEW s \in Dev, Rest(s), Undisturbed(s),
         Named(s)', Reached(s, slave_callback[s])'
  PROVE  Rest(s)'
<1>2. ToldOfPast(s)'
  BY DEF Rest, ToldOfPast, Told, Reached, Undisturbed
<1>3. CopiesListener(s)'
  BY DEF Rest, CopiesListener, Undisturbed
<1>4. ASSUME s \notin early'
      PROVE  Sound(s)'
  <2>1. Sound(s)
    BY <1>4 DEF Rest, Undisturbed
  <2>2. ListensToOffer(s)'
    BY <2>1 DEF Sound, ListensToOffer, Offered, Exchanged, Undisturbed
  <2>3. Listening(s)' /\ ExchangedPast(s)' /\ ExchangesOf(Peer(s))' /\ SizeKept(s)'
    BY <2>1 DEF Sound, Listening, ExchangedPast, Reached, ExchangesOf, SizeKept, Undisturbed
  <2>4. ~IsMaster[s] => ReturnedExchanged(s)'
    BY <2>1 DEF Sound, ReturnedExchanged, JustDid, Undisturbed
  <2>5. QED BY <2>2, <2>3, <2>4 DEF Sound
<1>5. QED BY <1>2, <1>3, <1>4 DEF Rest

(* What a callback changes of who was told.                                *)
LEMMA ToldAfter ==
  ASSUME Typed, NEW d \in Dev, NEW id \in Nat, NEW ctx \in Nat,
         callbacks' = Append(callbacks, [dev |-> d, id |-> id, ctx |-> ctx])
  PROVE  /\ \A e, i : Told(e, i)' <=> Told(e, i) \/ (e = d /\ i = id)
         /\ \A k \in DOMAIN callbacks' :
              \/ k \in DOMAIN callbacks /\ callbacks'[k] = callbacks[k]
              \/ callbacks'[k].dev = d /\ callbacks'[k].id = id
<1> DEFINE b == [dev |-> d, id |-> id, ctx |-> ctx]
           n == Len(callbacks) + 1
<1>0. callbacks \in Seq([dev : Dev, id : Nat, ctx : Nat])
  BY DEF Typed
<1>1. /\ Len(callbacks) \in Nat
      /\ DOMAIN callbacks = 1 .. Len(callbacks) /\ DOMAIN callbacks' = 1 .. n
      /\ callbacks'[n] = b
      /\ \A k \in DOMAIN callbacks : callbacks'[k] = callbacks[k]
  BY <1>0
<1>2. \A k \in DOMAIN callbacks' : k \in DOMAIN callbacks \/ k = n
  BY <1>1
<1>3. QED BY <1>1, <1>2 DEF Told

(* In particular a step of a thread that stays where it is in the call, as *)
(* seen from s.                                                            *)
Moves(s) ==
  /\ th'[s].ip = th[s].ip /\ th'[s].posted = th[s].posted
  /\ th'[s].at \in Posting <=> th[s].at \in Posting
  /\ th'[s].at = "idle" <=> th[s].at = "idle"
  /\ th'[s].at = "listen" => th[s].at = "listen"
  /\ th'[Peer(s)].at = "copy" => th[Peer(s)].at = "copy" \/ is_listening[s]
  /\ th[Peer(s)].at = "unlisten" => th'[Peer(s)].at = "unlisten"

LEMMA MovesKept ==
  ASSUME NEW s \in Dev, Rest(s), Moves(s),
         UNCHANGED <<buffers, is_listening, callback, exchanges, callbacks, early, returned>>
  PROVE  Rest(s)'
<1>1. Undisturbed(s)
  BY DEF Undisturbed, Moves, Told, buffers
<1>2. Named(s)' /\ Reached(s, slave_callback[s])'
  BY DEF Rest, Named, ToldOfPast, Reached, Moves, buffers, callback
<1>3. QED BY <1>1, <1>2, RestKept

(* The steps of a device within its calls, and those of the other one that *)
(* are of no concern to it.                                                *)
LEMMA MoveOwn ==
  ASSUME Typed, NEW d \in Dev, Rest(d),
         Look(d) \/ Signal(d) \/ RaiseIrq(d) \/ CondLock(d) \/ CondWait(d)
  PROVE  Rest(d)'
<1>1. th \in [Dev -> Thread] /\ Peer(d) \in Dev /\ Peer(d) # d /\ Peer(Peer(d)) = d
  BY PeerType DEF Typed
<1>2. CASE Signal(d)
  <2>1. th[d].at = "signal"
    BY <1>2 DEF Signal, Runs
  <2>2. Moves(d)
    BY <1>1, <1>2, <2>1, SignalEffect DEF Moves, Posting
  <2>3. QED BY <1>1, <1>2, <2>2, MovesKept DEF Signal, spi, ghosts
<1>3. CASE Look(d)
  <2>1. Moves(d)
    BY <1>1, <1>3, GotoEffect DEF Look, looked_at, Moves, PCs, Posting, Serving, Runs
  <2>2. QED BY <1>1, <1>3, <2>1, MovesKept DEF Look, spi, ghosts
<1>4. CASE RaiseIrq(d) \/ CondLock(d) \/ CondWait(d)
  <2>1. Moves(d)
    BY <1>1, <1>4, GotoEffect DEF RaiseIrq, CondLock, CondWait, Moves, PCs, Posting, Serving, Runs
  <2>2. QED BY <1>1, <1>4, <2>1, MovesKept DEF RaiseIrq, CondLock, CondWait, spi, ghosts
<1>5. QED BY <1>2, <1>3, <1>4

LEMMA ServePeer ==
  ASSUME Typed, NEW d \in Dev, Rest(Peer(d)), Look(d) \/ Signal(d) \/ RaiseIrq(d)
  PROVE  Rest(Peer(d))'
<1>1. th \in [Dev -> Thread] /\ Peer(d) \in Dev /\ Peer(d) # d /\ Peer(Peer(d)) = d
  BY PeerType DEF Typed
<1>2. CASE Signal(d)
  <2>1. th[d].at = "signal"
    BY <1>2 DEF Signal, Runs
  <2>2. Moves(Peer(d))
    BY <1>1, <1>2, <2>1, SignalEffect DEF Moves, Posting
  <2>3. QED BY <1>1, <1>2, <2>2, MovesKept DEF Signal, spi, ghosts
<1>3. CASE Look(d)
  <2>1. Moves(Peer(d))
    BY <1>1, <1>3, GotoEffect DEF Look, looked_at, Moves, PCs, Posting, Serving, Runs
  <2>2. QED BY <1>1, <1>3, <2>1, MovesKept DEF Look, spi, ghosts
<1>4. CASE RaiseIrq(d)
  <2>1. Moves(Peer(d))
    BY <1>1, <1>4, GotoEffect DEF RaiseIrq, Moves, PCs, Posting, Serving, Runs
  <2>2. QED BY <1>1, <1>4, <2>1, MovesKept DEF RaiseIrq, spi, ghosts
<1>5. QED BY <1>2, <1>3, <1>4

LEMMA ApartKept ==
  ASSUME Typed, NEW s \in Dev, Rest(s), Moves(s), th'[s] = th[s],
         current_rx'[s] = current_rx[s], current_tx'[s] = current_tx[s],
         current_xfer_size'[s] = current_xfer_size[s],
         is_listening'[s] = is_listening[s], returned'[s] = returned[s],
         slave_callback'[s] = slave_callback[s],
         slave_callback_ctx'[s] = slave_callback_ctx[s],
         exchanges' = exchanges, s \in early => s \in early',
         \A id : Told(s, id)' <=> Told(s, id)
  PROVE  Rest(s)'
<1>1. Undisturbed(s)
  BY DEF Undisturbed, Moves
<1>2. Named(s)' /\ Reached(s, slave_callback[s])'
  BY DEF Rest, Named, ToldOfPast, Reached
<1>3. QED BY <1>1, <1>2, RestKept

LEMMA CallPeer ==
  ASSUME Typed, NEW d \in Dev, Rest(Peer(d)), Enable(d) \/ sync_xfer(d) \/ async_xfer(d)
  PROVE  Rest(Peer(d))'
<1>1. th \in [Dev -> Thread] /\ Peer(d) \in Dev /\ Peer(d) # d /\ Peer(Peer(d)) = d
  BY PeerType DEF Typed
<1>2. /\ th'[Peer(d)] = th[Peer(d)] /\ th[d].at = "idle" /\ th'[d].at \in {"idle", "lock"}
      /\ returned'[Peer(d)] = returned[Peer(d)]
  <2>1. CASE Enable(d)
    BY <1>1, <2>1, ReturnEffect DEF Typed, Enable, Runs
  <2>2. CASE sync_xfer(d)
    BY <1>1, <2>2, BeginEffect DEF sync_xfer, MayStart, Runs, ghosts
  <2>3. CASE async_xfer(d)
    BY <1>1, <2>3, BeginEffect, ReturnEffect DEF Typed, async_xfer, MayStart, Runs
  <2>4. QED BY <2>1, <2>2, <2>3
<1>3. Moves(Peer(d))
  BY <1>1, <1>2 DEF Moves
<1>4. UNCHANGED <<spi, exchanges, callbacks, early>>
  BY DEF Enable, sync_xfer, async_xfer, ghosts
<1>5. QED BY <1>1, <1>2, <1>3, <1>4, ApartKept DEF spi, buffers, callback, Told

LEMMA PostPeer ==
  ASSUME Typed, NEW d \in Dev, Rest(Peer(d)), Lock(d) \/ SlaveStep(d)
  PROVE  Rest(Peer(d))'
<1>1. th \in [Dev -> Thread] /\ Peer(d) \in Dev /\ Peer(d) # d /\ Peer(Peer(d)) = d
  BY PeerType DEF Typed
<1>2. /\ th'[Peer(d)] = th[Peer(d)] /\ th'[d].at # "copy" /\ th[d].at # "unlisten"
      /\ returned'[Peer(d)] = returned[Peer(d)]
  <2>1. CASE Lock(d) \/ Listen(d) \/ SetCallback(d) \/ SetContext(d) \/ CondLock(d) \/ CondWait(d)
    BY <1>1, <2>1, GotoEffect
       DEF Lock, Listen, SetCallback, SetContext, CondLock, CondWait, PCs, Posting, Serving, Runs, ghosts
  <2>2. CASE Unlock(d) \/ Woken(d)
    BY <1>1, <2>2, GotoEffect, ReturnEffect DEF Typed, Unlock, Woken, PCs, Posting, Runs
  <2>3. QED BY <2>1, <2>2 DEF SlaveStep
<1>3. Moves(Peer(d))
  BY <1>1, <1>2 DEF Moves
<1>4. UNCHANGED <<exchanges, callbacks>> /\ (Peer(d) \in early => Peer(d) \in early')
  BY DEF Lock, SlaveStep, Listen, SetCallback, SetContext, Unlock, CondLock, CondWait, Woken,
         Tell, ghosts
<1>5. /\ current_rx'[Peer(d)] = current_rx[Peer(d)] /\ current_tx'[Peer(d)] = current_tx[Peer(d)]
      /\ current_xfer_size'[Peer(d)] = current_xfer_size[Peer(d)]
      /\ is_listening'[Peer(d)] = is_listening[Peer(d)]
      /\ slave_callback'[Peer(d)] = slave_callback[Peer(d)]
      /\ slave_callback_ctx'[Peer(d)] = slave_callback_ctx[Peer(d)]
  BY <1>1 DEF Typed, Lock, SlaveStep, Listen, SetCallback, SetContext, Unlock, CondLock, CondWait,
              Woken, buffers, callback
<1>6. QED BY <1>1, <1>2, <1>3, <1>4, <1>5, ApartKept DEF Told

LEMMA ClearPeer ==
  ASSUME Typed, NEW d \in Dev, Rest(Peer(d)), Clear(d)
  PROVE  Rest(Peer(d))'
<1>1. th \in [Dev -> Thread] /\ Peer(d) \in Dev /\ Peer(d) # d /\ Peer(Peer(d)) = d
  BY PeerType DEF Typed
<1>2. /\ Moves(Peer(d)) /\ returned'[Peer(d)] = returned[Peer(d)]
      /\ th'[Peer(d)] = th[Peer(d)]
  BY <1>1, ReturnEffect DEF Typed, Clear, Moves, Runs
<1>3. \A id : Told(Peer(d), id)' <=> Told(Peer(d), id)
  <2>1. th[d].ip \in Nat
    BY <1>1 DEF Thread
  <2>2. CASE callbacks' = callbacks
    BY <2>2 DEF Told
  <2>3. CASE callbacks' = Append(callbacks, [dev |-> d, id |-> th[d].ip, ctx |-> th[d].ip])
    BY <1>1, <2>1, <2>3, ToldAfter
  <2>4. QED BY <2>2, <2>3 DEF Clear
<1>4. QED BY <1>1, <1>2, <1>3, ApartKept DEF Typed, Clear, callback

-----------------------------------------------------------------------------
(* Steps of the device itself.                                             *)

LEMMA CallbackIds ==
  ASSUME Typed
  PROVE  \A k \in DOMAIN callbacks : callbacks[k].id \in Nat
<1>1. callbacks \in Seq([dev : Dev, id : Nat, ctx : Nat])
  BY DEF Typed
<1>2. DOMAIN callbacks = 1 .. Len(callbacks)
  BY <1>1
<1>3. \A k \in 1 .. Len(callbacks) : callbacks[k] \in [dev : Dev, id : Nat, ctx : Nat]
  BY <1>1, ElementOfSeq
<1>4. QED BY <1>2, <1>3

LEMMA StillReached ==
  ASSUME Typed, NEW s \in Dev,
         \/ th'[s].ip = th[s].ip + 1
         \/ th'[s].ip = th[s].ip /\ (th[s].at \in Posting => th'[s].at \in Posting)
  PROVE  /\ \A id \in Nat : Reached(s, id) => Reached(s, id)'
         /\ slave_callback'[s] = slave_callback[s] /\ callbacks' = callbacks /\ ToldOfPast(s)
              => ToldOfPast(s)'
         /\ exchanges' = exchanges /\ ExchangedPast(s) => ExchangedPast(s)'
<1>1. th[s].ip \in Nat
  BY DEF Typed, Thread
<1>2. ASSUME NEW id \in Nat, Reached(s, id)
      PROVE  Reached(s, id)'
  BY <1>1, <1>2 DEF Reached
<1>3. \A k \in DOMAIN callbacks : callbacks[k].id \in Nat
  BY CallbackIds
<1>4. \A x \in exchanges : x.from \in Nat
  BY DEF Typed
<1>5. slave_callback[s] \in Nat
  BY DEF Typed
<1>6. QED BY <1>2, <1>3, <1>4, <1>5 DEF ToldOfPast, ExchangedPast

(* A call that returns at once.                                            *)
LEMMA IdleCall ==
  ASSUME Typed, NEW d \in Dev, Rest(d),
         th[d].at = "idle", th'[d].at = "idle", th'[d].ip = th[d].ip + 1,
         th'[d].posted = th[d].posted, th'[Peer(d)] = th[Peer(d)],
         Plan[d][th[d].ip] # "sync",
         UNCHANGED <<buffers, is_listening, callback, exchanges, callbacks, early>>
  PROVE  Rest(d)'
<1>1. Named(d)' /\ CopiesListener(d)'
  BY DEF Rest, Named, CopiesListener, buffers, callback
<1>2. ToldOfPast(d)'
  BY StillReached DEF Rest, callback
<1>3. ASSUME d \notin early'
      PROVE  Sound(d)'
  <2>1. Sound(d)
    BY <1>3 DEF Rest
  <2>2. ListensToOffer(d)'
    BY <2>1 DEF Sound, ListensToOffer, Offered, Exchanged, Told, Posting, buffers
  <2>3. Listening(d)' /\ SizeKept(d)'
    BY DEF Listening, SizeKept, Posting
  <2>4. ExchangedPast(d)' /\ ExchangesOf(Peer(d))'
    BY <2>1, StillReached DEF Sound, ExchangesOf
  <2>5. ReturnedExchanged(d)'
    <3>1. th[d].ip \in Nat
      BY DEF Typed, Thread
    <3>2. QED BY <3>1 DEF ReturnedExchanged, JustDid
  <2>6. QED BY <2>2, <2>3, <2>4, <2>5 DEF Sound
<1>4. QED BY <1>1, <1>2, <1>3 DEF Rest

(* A call that is going to post or to serve; the device's last posting is  *)
(* over, so that it does not listen.                                       *)
LEMMA BeginCall ==
  ASSUME Typed, NEW d \in Dev, Placed(d), Rest(d), ~Posted(d),
         th[d].at = "idle", th'[d].at = "lock", th'[d].ip = th[d].ip,
         th'[d].posted = th[d].posted, th'[Peer(d)] = th[Peer(d)],
         UNCHANGED <<buffers, is_listening, callback, exchanges, callbacks, early>>
  PROVE  Rest(d)'
<1>1. Named(d)' /\ CopiesListener(d)'
  BY DEF Rest, Named, CopiesListener, buffers, callback
<1>2. ToldOfPast(d)'
  BY StillReached DEF Rest, callback, Posting
<1>3. ASSUME d \notin early'
      PROVE  Sound(d)'
  <2>1. Sound(d)
    BY <1>3 DEF Rest
  <2>2. ~(is_listening[d] /\ th[Peer(d)].at # "unlisten")
    BY <2>1 DEF Sound, ListensToOffer, Offered, Posted, Posting
  <2>3. ListensToOffer(d)'
    BY <2>2 DEF ListensToOffer
  <2>4. Listening(d)' /\ SizeKept(d)' /\ ReturnedExchanged(d)'
    BY DEF Listening, SizeKept, Posting, ReturnedExchanged, JustDid
  <2>5. ExchangedPast(d)' /\ ExchangesOf(Peer(d))'
    BY <2>1, StillReached DEF Sound, ExchangesOf, Posting
  <2>6. QED BY <2>3, <2>4, <2>5 DEF Sound
<1>4. QED BY <1>1, <1>2, <1>3 DEF Rest

LEMMA EnableOwn ==
  ASSUME Typed, NEW d \in Dev, Placed(d), Rest(d), Enable(d)
  PROVE  Rest(d)'
<1>1. th \in [Dev -> Thread]
  BY DEF Typed
<1>2. Op(d) \in {"enable", "disable"} /\ th[d].at = "idle" /\ Return(d, 0)
  BY DEF Enable, Runs
<1>3. Plan[d][th[d].ip] # "sync"
  BY <1>2 DEF Op
<1>4. Op(d) # "async"
  BY <1>2
<1>5. UNCHANGED <<buffers, is_listening, callback, exchanges, callbacks, early>>
  BY DEF Enable, spi
<1>6. QED BY <1>1, <1>2, <1>3, <1>4, <1>5, ReturnEffect, IdleCall

LEMMA sync_xferOwn ==
  ASSUME Typed, NEW d \in Dev, Placed(d), Rest(d), sync_xfer(d)
  PROVE  Rest(d)'
<1>1. th \in [Dev -> Thread]
  BY DEF Typed
<1>2. UNCHANGED <<buffers, is_listening, callback, exchanges, callbacks, early>>
  BY DEF sync_xfer, spi, ghosts
<1>3. QED BY <1>1, <1>2, BeginEffect, BeginCall DEF sync_xfer, MayStart, Runs

LEMMA async_xferOwn ==
  ASSUME Typed, NEW d \in Dev, Placed(d), Rest(d), async_xfer(d)
  PROVE  Rest(d)'
<1>1. th \in [Dev -> Thread]
  BY DEF Typed
<1>2. UNCHANGED <<buffers, is_listening, callback, exchanges, callbacks, early>>
  BY DEF async_xfer, spi
<1>3. CASE Runs(d, "idle") /\ Return(d, EINVAL)
  <2>1. Plan[d][th[d].ip] # "sync"
    BY DEF async_xfer, Op
  <2>2. QED BY <1>1, <1>2, <1>3, <2>1, ReturnEffect, IdleCall DEF Runs
<1>4. CASE MayStart(d) /\ \E kind \in {"now", "async"} : Begin(d, kind, "lock")
  BY <1>1, <1>2, <1>4, BeginEffect, BeginCall DEF MayStart, Runs
<1>5. QED BY <1>3, <1>4 DEF async_xfer

LEMMA LockOwn ==
  ASSUME Typed, NEW d \in Dev, Placed(d), Rest(d), Lock(d)
  PROVE  Rest(d)'
<1>1. /\ th \in [Dev -> Thread] /\ th[d].at = "lock"
      /\ UNCHANGED <<is_listening, callback, exchanges, callbacks, early, returned>>
  BY DEF Typed, Lock, Runs, ghosts
<1>2. /\ th'[d].at \in {"look", "listen"} /\ th'[Peer(d)] = th[Peer(d)]
      /\ th'[d].ip = th[d].ip /\ th'[d].posted = th[d].posted
  BY <1>1, GotoEffect DEF Lock, PCs, Serving
<1>3. current_rx'[d] = th[d].ip /\ current_tx'[d] = th[d].ip
  BY DEF Typed, Lock
<1>4. Named(d)' /\ CopiesListener(d)'
  BY <1>1, <1>2, <1>3 DEF Rest, Named, CopiesListener, Placed, callback
<1>5. ToldOfPast(d)'
  BY <1>1, <1>2, StillReached DEF Rest, callback, Posting
<1>6. ASSUME d \notin early'
      PROVE  Sound(d)'
  <2>1. Sound(d)
    BY <1>1, <1>6 DEF Rest
  <2>2. ~(is_listening[d] /\ th[Peer(d)].at # "unlisten")
    BY <1>1, <2>1 DEF Sound, ListensToOffer, Offered, Posting
  <2>3. ListensToOffer(d)'
    BY <1>1, <1>2, <2>2 DEF ListensToOffer
  <2>4. Listening(d)' /\ SizeKept(d)' /\ ReturnedExchanged(d)'
    BY <1>2, <1>3 DEF Listening, SizeKept, Posting, ReturnedExchanged, JustDid
  <2>5. ExchangedPast(d)' /\ ExchangesOf(Peer(d))'
    BY <1>1, <1>2, <2>1, StillReached DEF Sound, ExchangesOf, Posting
  <2>6. QED BY <2>3, <2>4, <2>5 DEF Sound
<1>7. QED BY <1>4, <1>5, <1>6 DEF Rest

(* The flag goes up when the buffers of the call are in place, and nobody  *)
(* has served it or been told of it yet.                                   *)
LEMMA ListenOwn ==
  ASSUME Typed, NEW d \in Dev, Placed(d), Rest(d), Listen(d)
  PROVE  Rest(d)'
<1>1. /\ th \in [Dev -> Thread] /\ th[d].at = "listen"
      /\ UNCHANGED <<buffers, callback, exchanges, callbacks, early, returned>>
  BY DEF Typed, Listen, Runs, ghosts
<1>2. /\ th'[d].at \in {"callback", "unlock"} /\ th'[Peer(d)] = th[Peer(d)]
      /\ th'[d].ip = th[d].ip /\ th'[d].posted = th[d].posted
  BY <1>1, GotoEffect DEF Listen, PCs, Posting
<1>3. is_listening'[d] = TRUE
  BY DEF Typed, Listen
<1>4. Named(d)' /\ CopiesListener(d)'
  BY <1>1, <1>2, <1>3 DEF Rest, Named, CopiesListener, buffers, callback
<1>5. ToldOfPast(d)'
  BY <1>1, <1>2, StillReached DEF Rest, callback, Posting
<1>6. th[d].ip \in 1 .. Len(Plan[d]) + 1 /\ th[d].ip \in Nat /\ Len(Plan[d]) \in Nat
  BY <1>1, PlanAssumption DEF Placed, Thread
<1>7. ASSUME d \notin early'
      PROVE  Sound(d)'
  <2>1. Sound(d)
    BY <1>1, <1>7 DEF Rest
  <2>2. current_rx[d] = th[d].ip /\ current_tx[d] = th[d].ip
    BY <1>1, <2>1 DEF Sound, Listening
  <2>3. ~Exchanged(d, th[d].ip)
    BY <1>1, <1>6, <2>1 DEF Sound, ExchangedPast, Reached, Exchanged, Posting
  <2>4. ~Told(d, th[d].ip)
    BY <1>1, <1>6 DEF Rest, ToldOfPast, Reached, Told, Posting
  <2>5. ListensToOffer(d)'
    BY <1>1, <1>2, <1>6, <2>2, <2>3, <2>4
       DEF ListensToOffer, Offered, Exchanged, Told, Posting, buffers
  <2>6. SizeKept(d)'
    BY <1>1, <1>2, <2>3 DEF SizeKept, Exchanged
  <2>7. Listening(d)' /\ ReturnedExchanged(d)'
    BY <1>2 DEF Listening, ReturnedExchanged, JustDid
  <2>8. ExchangedPast(d)' /\ ExchangesOf(Peer(d))'
    BY <1>1, <1>2, <2>1, StillReached DEF Sound, ExchangesOf, Posting
  <2>9. QED BY <2>5, <2>6, <2>7, <2>8 DEF Sound
<1>8. QED BY <1>4, <1>5, <1>7 DEF Rest

LEMMA CallbackOwn ==
  ASSUME Typed, NEW d \in Dev, Placed(d), Rest(d), SetCallback(d) \/ SetContext(d)
  PROVE  Rest(d)'
<1>1. th \in [Dev -> Thread] /\ Peer(d) \in Dev /\ Peer(d) # d
  BY PeerType DEF Typed
<1>2. Moves(d) /\ th'[d].at \in Posting /\ th'[d].ip = th[d].ip /\ th[d].at # "idle"
  BY <1>1, GotoEffect DEF SetCallback, SetContext, Moves, PCs, Posting, Runs
<1>3. Undisturbed(d)
  BY <1>1, <1>2 DEF SetCallback, SetContext, Undisturbed, Moves, Told, buffers, ghosts
<1>4. /\ slave_callback'[d] \in {slave_callback[d], th[d].ip}
      /\ slave_callback_ctx'[d] \in {slave_callback_ctx[d], th[d].ip}
      /\ UNCHANGED buffers
  BY DEF Typed, SetCallback, SetContext
<1>5. Named(d)'
  BY <1>2, <1>4 DEF Rest, Named, Placed, buffers
<1>6. Reached(d, slave_callback[d])'
  BY <1>2, <1>4 DEF Rest, ToldOfPast, Reached
<1>7. QED BY <1>3, <1>5, <1>6, RestKept

(* A posting call that returns.  If nobody has served it, its buffers stay *)
(* on offer after async_xfer, and sync_xfer has told its caller too early. *)
LEMMA PostingReturns ==
  ASSUME Typed, NEW d \in Dev, Placed(d), Rest(d),
         th[d].at \in Posting, th'[d].at = "idle", th'[d].ip = th[d].ip + 1,
         th'[Peer(d)] = th[Peer(d)],
         \/ /\ th'[d].posted = th[d].ip
            /\ Plan[d][th[d].ip] = "async"
         \/ /\ d \in early' \/ Exchanged(d, th[d].ip)
            /\ returned'[d] = current_xfer_size[d],
         d \in early => d \in early',
         UNCHANGED <<buffers, is_listening, callback, exchanges, callbacks>>
  PROVE  Rest(d)'
<1>1. Named(d)' /\ CopiesListener(d)'
  BY DEF Rest, Named, CopiesListener, buffers, callback
<1>2. ToldOfPast(d)'
  BY StillReached DEF Rest, callback
<1>3. th[d].ip \in Nat
  BY DEF Typed, Thread
<1>4. ASSUME d \notin early'
      PROVE  Sound(d)'
  <2>1. Sound(d)
    BY <1>4 DEF Rest
  <2>2. ListensToOffer(d)'
    BY <1>4, <2>1 DEF Sound, ListensToOffer, Offered, Exchanged, Told, Posting, buffers
  <2>3. Listening(d)' /\ SizeKept(d)'
    BY DEF Listening, SizeKept, Posting
  <2>4. ExchangedPast(d)' /\ ExchangesOf(Peer(d))'
    BY <2>1, StillReached DEF Sound, ExchangesOf
  <2>5. ReturnedExchanged(d)'
    BY <1>3, <1>4, <2>1 DEF Sound, SizeKept, ReturnedExchanged, JustDid, Exchanged
  <2>6. QED BY <2>2, <2>3, <2>4, <2>5 DEF Sound
<1>5. QED BY <1>1, <1>2, <1>4 DEF Rest

LEMMA UnlockOwn ==
  ASSUME Typed, NEW d \in Dev, Placed(d), Rest(d), Unlock(d)
  PROVE  Rest(d)'
<1>1. /\ th \in [Dev -> Thread] /\ th[d].at = "unlock" /\ Peer(d) \in Dev /\ Peer(d) # d
      /\ UNCHANGED <<buffers, is_listening, callback, exchanges, callbacks, early>>
  BY PeerType DEF Typed, Unlock, Runs
<1>2. CASE th[d].kind = "async"
  <2>1. Return(d, 0)
    BY <1>2 DEF Unlock
  <2>2. Plan[d][th[d].ip] = "async" /\ Op(d) = "async"
    BY <1>1, <1>2 DEF Placed, Op
  <2>3. QED BY <1>1, <2>1, <2>2, ReturnEffect, PostingReturns DEF EINVAL, Posting
<1>3. CASE th[d].kind # "async"
  <2>1. Goto(d, "cond_lock") /\ UNCHANGED returned
    BY <1>3 DEF Unlock
  <2>2. Moves(d)
    BY <1>1, <2>1, GotoEffect DEF Moves, PCs, Posting
  <2>3. QED BY <1>1, <2>1, <2>2, MovesKept DEF ghosts
<1>4. QED BY <1>2, <1>3

LEMMA WokenOwn ==
  ASSUME Typed, NEW d \in Dev, Placed(d), Rest(d), Woken(d)
  PROVE  Rest(d)'
<1>1. /\ th \in [Dev -> Thread] /\ th[d].at = "woken" /\ Peer(d) \in Dev /\ Peer(d) # d
      /\ UNCHANGED <<buffers, is_listening, callback, exchanges, callbacks>>
  BY PeerType DEF Typed, Woken, Runs
<1>2. Return(d, current_xfer_size[d]) /\ Tell(d, th[d].ip)
  BY DEF Woken
<1>3. d \in early' \/ Exchanged(d, th[d].ip)
  BY <1>2 DEF Tell
<1>4. returned'[d] = current_xfer_size[d] /\ (d \in early => d \in early')
  BY <1>2, ReturnEffect DEF Typed, Tell
<1>5. QED BY <1>1, <1>2, <1>3, <1>4, ReturnEffect, PostingReturns DEF Posting

LEMMA ClearOwn ==
  ASSUME Typed, NEW d \in Dev, Placed(d), IsMaster[d], Rest(d), Clear(d)
  PROVE  Rest(d)'
<1>1. /\ th \in [Dev -> Thread] /\ th[d].at = "clear" /\ th[d].ip \in Nat
      /\ UNCHANGED <<current_xfer_size, is_listening, callback, exchanges, early>>
  BY DEF Typed, Thread, Clear, Runs
<1>2. /\ th'[d].at = "idle" /\ th'[d].ip = th[d].ip + 1 /\ th'[Peer(d)] = th[Peer(d)]
  BY <1>1, ReturnEffect DEF Clear
<1>3. current_rx'[d] = 0 /\ current_tx'[d] = 0
  BY DEF Typed, Clear
<1>4. Named(d)' /\ CopiesListener(d)'
  BY <1>1, <1>2, <1>3, PlanAssumption DEF Rest, Named, CopiesListener, callback
<1>5. ToldOfPast(d)'
  <2>1. CASE callbacks' = callbacks
    BY <1>1, <1>2, <2>1, StillReached DEF Rest, callback
  <2>2. CASE callbacks' = Append(callbacks, [dev |-> d, id |-> th[d].ip, ctx |-> th[d].ip])
    <3>0. PICK id \in Nat : id = th[d].ip
      BY <1>1
    <3>1. Reached(d, id)'
      BY <1>1, <1>2, <3>0 DEF Reached
    <3>2. \A k \in DOMAIN callbacks' :
            \/ k \in DOMAIN callbacks /\ callbacks'[k] = callbacks[k]
            \/ callbacks'[k].id = id
      BY <1>1, <2>2, <3>0, ToldAfter
    <3>3. \A k \in DOMAIN callbacks : callbacks[k].id \in Nat
      BY CallbackIds
    <3>4. slave_callback[d] \in Nat /\ slave_callback' = slave_callback
      BY <1>1 DEF Typed, callback
    <3>5. QED BY <1>1, <1>2, <3>1, <3>2, <3>3, <3>4, StillReached DEF Rest, ToldOfPast
  <2>3. QED BY <2>1, <2>2 DEF Clear
<1>6. ASSUME d \notin early'
      PROVE  Sound(d)'
  <2>1. Sound(d)
    BY <1>1, <1>6 DEF Rest
  <2>2. ~(is_listening[d] /\ th[Peer(d)].at # "unlisten")
    BY <1>1, <2>1 DEF Sound, ListensToOffer, Offered, Posting
  <2>3. ListensToOffer(d)'
    BY <1>1, <1>2, <2>2 DEF ListensToOffer
  <2>4. Listening(d)' /\ SizeKept(d)'
    BY <1>2 DEF Listening, SizeKept, Posting
  <2>5. ExchangedPast(d)' /\ ExchangesOf(Peer(d))'
    BY <1>1, <1>2, <2>1, StillReached DEF Sound, ExchangesOf
  <2>6. QED BY <2>3, <2>4, <2>5 DEF Sound
<1>7. QED BY <1>4, <1>5, <1>6 DEF Rest

-----------------------------------------------------------------------------
(* The exchange.                                                           *)

(* What the master copies is on offer.                                     *)
LEMMA CopyTakesOffer ==
  ASSUME NEW d \in Dev, Rest(Peer(d)), Copy(d), Peer(d) \notin early
  PROVE  Offered(Peer(d))
<1>1. th[Peer(Peer(d))].at = "copy"
  BY PeerType DEF Copy, Runs
<1>2. is_listening[Peer(d)]
  BY <1>1 DEF Rest, CopiesListener
<1>3. QED BY <1>1, <1>2 DEF Rest, Sound, ListensToOffer

LEMMA CopyOwn ==
  ASSUME Typed, NEW d \in Dev, Placed(d), Rest(d), Copy(d)
  PROVE  Rest(d)'
<1> DEFINE s == Peer(d)
<1>1. /\ th \in [Dev -> Thread] /\ th[d].at = "copy" /\ s \in Dev /\ s # d
      /\ UNCHANGED <<is_listening, callback, callbacks, early, returned>>
  BY PeerType DEF Typed, Copy, Runs
<1>2. /\ th'[d].at = "unlisten" /\ th'[d].ip = th[d].ip /\ th'[s] = th[s]
  BY <1>1, GotoEffect DEF Copy, PCs, Serving
<1>3. /\ current_rx'[d] = current_rx[d] /\ current_tx'[d] = current_tx[d]
      /\ \A x \in exchanges' : x.dev = s => x \in exchanges
      /\ exchanges \subseteq exchanges'
  BY <1>1 DEF Typed, Copy
<1>4. Named(d)' /\ CopiesListener(d)'
  BY <1>1, <1>2, <1>3 DEF Rest, Named, CopiesListener, callback
<1>5. ToldOfPast(d)'
  BY <1>1, <1>2, StillReached DEF Rest, callback, Posting
<1>6. ASSUME d \notin early'
      PROVE  Sound(d)'
  <2>1. Sound(d)
    BY <1>1, <1>6 DEF Rest
  <2>2. ~(is_listening[d] /\ th[s].at # "unlisten")
    BY <1>1, <2>1 DEF Sound, ListensToOffer, Offered, Posting
  <2>3. ListensToOffer(d)'
    BY <1>1, <1>2, <2>2 DEF ListensToOffer
  <2>4. Listening(d)' /\ SizeKept(d)' /\ ReturnedExchanged(d)'
    BY <1>2 DEF Listening, SizeKept, Posting, ReturnedExchanged, JustDid
  <2>5. ExchangedPast(d)'
    BY <1>1, <1>2, <1>3, <2>1 DEF Sound, ExchangedPast, Reached, Posting
  <2>6. ExchangesOf(s)'
    BY <1>3, <2>1 DEF Sound, ExchangesOf
  <2>7. QED BY <2>3, <2>4, <2>5, <2>6 DEF Sound
<1>7. QED BY <1>4, <1>5, <1>6 DEF Rest

LEMMA CopyPeer ==
  ASSUME Typed, NEW d \in Dev, Placed(Peer(d)), Rest(Peer(d)), Copy(d)
  PROVE  Rest(Peer(d))'
<1> DEFINE s == Peer(d)
           n == Smaller(th[d].size, current_xfer_size[s])
           new == [dev |-> d, id |-> th[d].ip, from |-> current_tx[s], to |-> current_rx[s],
                   n |-> n, size |-> th[d].size]
<1>1. /\ th \in [Dev -> Thread] /\ th[d].at = "copy" /\ s \in Dev /\ s # d /\ Peer(s) = d
      /\ UNCHANGED <<is_listening, callback, callbacks, early, returned>>
  BY PeerType DEF Typed, Copy, Runs
<1>2. /\ th'[d].at = "unlisten" /\ th'[s] = th[s]
  BY <1>1, GotoEffect DEF Copy, PCs, Serving
<1>3. /\ exchanges' = exchanges \cup {new}
      /\ new.dev = d /\ new.from = current_tx[s] /\ new.to = current_rx[s]
      /\ new.n = n /\ new.size = th[d].size
  BY DEF Copy
<1>4. current_rx'[s] = 0 /\ current_tx'[s] = 0 /\ current_xfer_size'[s] = n
  BY <1>1 DEF Typed, Copy, tell_size
<1> HIDE DEF new
<1>5. Named(s)' /\ CopiesListener(s)'
  BY <1>1, <1>2, <1>4, PlanAssumption DEF Rest, Named, CopiesListener, callback
<1>6. ToldOfPast(s)'
  BY <1>1, <1>2, StillReached DEF Rest, callback
<1>7. ASSUME s \notin early'
      PROVE  Sound(s)'
  <2>1. Sound(s) /\ Offered(s)
    BY <1>1, <1>7, CopyTakesOffer DEF Rest
  <2>2. ListensToOffer(s)' /\ Listening(s)'
    BY <1>1, <1>2, <2>1 DEF ListensToOffer, Listening, Offered, Posting
  <2>3. new.from # 0 /\ new.from = new.to /\ ~Exchanged(s, new.from) /\ Reached(s, new.from)
    <3>1. th[s].posted < th[s].ip
      BY <1>1 DEF Placed
    <3>2. QED BY <1>3, <2>1, <3>1 DEF Offered, Reached
  <2>4. ExchangedPast(s)'
    BY <1>1, <1>2, <1>3, <2>1, <2>3 DEF Sound, ExchangedPast, Reached
  <2>5. n <= th[d].size
    <3>1. th[d].size \in Nat /\ current_xfer_size[s] \in Nat
      BY <1>1, AmountNat DEF Typed, Thread
    <3>2. QED BY <3>1 DEF Smaller
  <2>6. ExchangesOf(d)'
    BY <1>1, <1>3, <2>1, <2>3, <2>5 DEF Sound, ExchangesOf, Exchanged
  <2>7. SizeKept(s)'
    BY <1>1, <1>2, <1>3, <1>4, <2>1, <2>3 DEF SizeKept, Offered, Exchanged, Posting
  <2>8. ~IsMaster[s] => ReturnedExchanged(s)'
    BY <1>1, <1>2, <1>3, <2>1 DEF Sound, ReturnedExchanged, JustDid
  <2>9. QED BY <1>1, <2>2, <2>4, <2>6, <2>7, <2>8 DEF Sound
<1>8. QED BY <1>5, <1>6, <1>7 DEF Rest

LEMMA UnlistenOwn ==
  ASSUME Typed, NEW d \in Dev, Rest(d), Unlisten(d)
  PROVE  Rest(d)'
<1>1. /\ th \in [Dev -> Thread] /\ th[d].at = "unlisten" /\ Peer(d) \in Dev /\ Peer(d) # d
      /\ Peer(Peer(d)) = d
      /\ UNCHANGED <<buffers, callback, ghosts>>
  BY PeerType DEF Typed, Unlisten, Runs
<1>2. is_listening'[d] = is_listening[d]
  BY <1>1 DEF Typed, Unlisten
<1>6. Moves(d)
  BY <1>1, GotoEffect DEF Unlisten, Moves, PCs, Serving, Posting
<1>3. Undisturbed(d)
  BY <1>1, <1>2, <1>6 DEF Undisturbed, Moves, Told, buffers, ghosts
<1>4. Named(d)' /\ Reached(d, slave_callback[d])'
  BY <1>1, <1>2, <1>6 DEF Rest, Named, ToldOfPast, Reached, Moves, buffers, callback
<1>5. QED BY <1>3, <1>4, RestKept

LEMMA UnlistenPeer ==
  ASSUME Typed, NEW d \in Dev, Rest(Peer(d)), Unlisten(d)
  PROVE  Rest(Peer(d))'
<1> DEFINE s == Peer(d)
<1>1. /\ th \in [Dev -> Thread] /\ th[d].at = "unlisten" /\ s \in Dev /\ s # d /\ Peer(s) = d
      /\ UNCHANGED <<buffers, callback, ghosts>>
  BY PeerType DEF Typed, Unlisten, Runs
<1>2. th'[d].at = "signal" /\ th'[s] = th[s] /\ is_listening'[s] = FALSE
  BY <1>1, GotoEffect DEF Typed, Unlisten, PCs, Serving
<1>3. Named(s)' /\ CopiesListener(s)' /\ ListensToOffer(s)'
  BY <1>1, <1>2 DEF Rest, Named, CopiesListener, ListensToOffer, buffers, callback
<1>4. ToldOfPast(s)'
  BY <1>1, <1>2, StillReached DEF Rest, callback, ghosts
<1>5. ASSUME s \notin early'
      PROVE  Sound(s)'
  <2>1. Sound(s)
    BY <1>1, <1>5 DEF Rest, ghosts
  <2>2. Listening(s)' /\ ExchangesOf(Peer(s))' /\ SizeKept(s)'
    BY <1>1, <1>2, <2>1 DEF Sound, Listening, ExchangesOf, SizeKept, buffers, ghosts
  <2>3. ExchangedPast(s)' /\ (~IsMaster[s] => ReturnedExchanged(s)')
    BY <1>1, <1>2, <2>1 DEF Sound, ExchangedPast, Reached, ReturnedExchanged, JustDid, ghosts
  <2>4. QED BY <1>3, <2>2, <2>3 DEF Sound
<1>6. QED BY <1>3, <1>4, <1>5 DEF Rest

-----------------------------------------------------------------------------
(* Interrupts.                                                             *)

LEMMA HandleEffect ==
  ASSUME NEW d \in Dev, Handle(d), slave_callback[d] # 0
  PROVE  /\ slave_callback' = [slave_callback EXCEPT ![d] = 0]
         /\ slave_callback_ctx' = [slave_callback_ctx EXCEPT ![d] = 0]
         /\ callbacks' = Append(callbacks, [dev |-> d, id |-> slave_callback[d],
                                            ctx |-> slave_callback_ctx[d]])
         /\ Tell(d, slave_callback[d])
         /\ UNCHANGED <<buffers, mutexes, is_listening, th, exchanges, returned>>
BY DEF Handle, spi_irq_handler

LEMMA NoCallbackKept ==
  ASSUME Typed, NEW d \in Dev, NEW s \in Dev, Rest(s), Handle(d), slave_callback[d] = 0
  PROVE  Rest(s)'
<1>1. UNCHANGED <<buffers, is_listening, callback, exchanges, callbacks, early, returned, th>>
  BY DEF Handle, spi_irq_handler, ghosts, callback
<1>2. QED BY <1>1, MovesKept DEF Moves

(* The device is told, perhaps of a posting that nobody has served: it may *)
(* post again before the master is done with the buffers.                  *)
LEMMA HandleOwn ==
  ASSUME Typed, NEW d \in Dev, Rest(d), Handle(d)
  PROVE  Rest(d)'
<1>1. CASE slave_callback[d] = 0
  BY <1>1, NoCallbackKept
<1>2. CASE slave_callback[d] # 0
  <2>1. PICK id \in Nat, ctx \in Nat : id = slave_callback[d] /\ ctx = slave_callback_ctx[d]
    BY DEF Typed
  <2>2. /\ callbacks' = Append(callbacks, [dev |-> d, id |-> id, ctx |-> ctx])
        /\ Tell(d, id)
        /\ UNCHANGED <<buffers, is_listening, th, exchanges, returned>>
    BY <1>2, <2>1, HandleEffect
  <2>3. slave_callback'[d] = 0 /\ slave_callback_ctx'[d] = 0
    BY <1>2, HandleEffect DEF Typed
  <2>4. Named(d)' /\ CopiesListener(d)'
    BY <2>2, <2>3, PlanAssumption DEF Rest, Named, CopiesListener, buffers
  <2>5. ToldOfPast(d)'
    <3>1. Reached(d, id) /\ Reached(d, id)'
      BY <2>1, <2>2 DEF Rest, ToldOfPast, Reached
    <3>2. \A k \in DOMAIN callbacks' :
            \/ k \in DOMAIN callbacks /\ callbacks'[k] = callbacks[k]
            \/ callbacks'[k].id = id
      BY <2>2, ToldAfter
    <3>3. th[d].ip \in Nat
      BY DEF Typed, Thread
    <3>4. 0 <= id
      OBVIOUS
    <3>5. Reached(d, 0)'
      BY <2>2, <3>1, <3>3, <3>4 DEF Reached
    <3>6. QED BY <2>2, <2>3, <3>1, <3>2, <3>5 DEF Rest, ToldOfPast, Reached
  <2>6. ASSUME d \notin early'
        PROVE  Sound(d)'
    <3>1. Sound(d) /\ Exchanged(d, id)
      BY <2>2, <2>6 DEF Rest, Tell
    <3>2. \A i : Told(d, i)' <=> Told(d, i) \/ i = id
      BY <2>2, ToldAfter
    <3>3. ListensToOffer(d)'
      BY <2>2, <3>1, <3>2 DEF Sound, ListensToOffer, Offered, Exchanged, buffers
    <3>4. Listening(d)' /\ ExchangedPast(d)' /\ ExchangesOf(Peer(d))' /\ SizeKept(d)'
      BY <2>2, <3>1 DEF Sound, Listening, ExchangedPast, Reached, ExchangesOf, SizeKept, buffers
    <3>5. ~IsMaster[d] => ReturnedExchanged(d)'
      BY <2>2, <3>1 DEF Sound, ReturnedExchanged, JustDid
    <3>6. QED BY <3>3, <3>4, <3>5 DEF Sound
  <2>7. QED BY <2>4, <2>5, <2>6 DEF Rest
<1>3. QED BY <1>1, <1>2

LEMMA HandlePeer ==
  ASSUME Typed, NEW d \in Dev, Rest(Peer(d)), Handle(d)
  PROVE  Rest(Peer(d))'
<1> DEFINE s == Peer(d)
<1>1. s \in Dev /\ s # d
  BY PeerType
<1>2. CASE slave_callback[d] = 0
  BY <1>1, <1>2, NoCallbackKept
<1>3. CASE slave_callback[d] # 0
  <2>1. UNCHANGED <<buffers, is_listening, th, exchanges, returned>>
    BY <1>3, HandleEffect
  <2>2. slave_callback'[s] = slave_callback[s] /\ slave_callback_ctx'[s] = slave_callback_ctx[s]
    BY <1>1, <1>3, HandleEffect DEF Typed
  <2>3. \A i : Told(s, i)' <=> Told(s, i)
    BY <1>1, <1>3, HandleEffect, ToldAfter DEF Typed
  <2>4. s \in early => s \in early'
    BY <1>3, HandleEffect DEF Tell
  <2>5. Undisturbed(s)
    BY <2>1, <2>3, <2>4 DEF Undisturbed, buffers
  <2>6. Named(s)' /\ Reached(s, slave_callback[s])'
    BY <2>1, <2>2 DEF Rest, Named, ToldOfPast, Reached, buffers
  <2>7. QED BY <1>1, <2>5, <2>6, RestKept
<1>4. QED BY <1>2, <1>3

LEMMA SpuriousWakeupKept ==
  ASSUME Typed, NEW d \in Dev, Placed(d), SpuriousWakeup(d), NEW s \in Dev
  PROVE  /\ Typed'
         /\ Placed(s) => Placed(s)'
         /\ Rest(s) => Rest(s)'
<1>1. th[d] \in Thread /\ th[d].at = "waiting" /\ th' = [th EXCEPT ![d].at = "woken"]
  BY DEF Typed, SpuriousWakeup, Runs
<1>2. th' \in [Dev -> Thread]
  BY <1>1 DEF Typed, Thread, PCs, Posting
<1>3. /\ th'[d].at = "woken" /\ th'[d].ip = th[d].ip /\ th'[d].posted = th[d].posted
      /\ th'[d].kind = th[d].kind /\ \A e \in Dev \ {d} : th'[e] = th[e]
  BY <1>1 DEF Typed, Thread
<1>4. Typed'
  BY <1>2 DEF Typed, SpuriousWakeup, spi, ghosts, mutexes, buffers, callback
<1>5. Placed(s) => Placed(s)'
  BY <1>1, <1>3 DEF Placed, Posting, Serving
<1>6. Moves(s)
  BY <1>1, <1>3, PeerType DEF Moves, Posting
<1>7. QED BY <1>4, <1>5, <1>6, MovesKept DEF SpuriousWakeup, spi, ghosts

-----------------------------------------------------------------------------
(* The interrupts of the link are those of module IrqController, of which  *)
(* everything IrqControllerProofs proves holds here: each device has one   *)
(* irq, raised by the other device only.                                   *)

IrqP == INSTANCE IrqControllerProofs WITH
          Ctl <- Dev, Irq <- Dev, Maskable <- Dev, Ctx <- Dev,
          Home <- [d \in Dev |-> d], Dest <- [d \in Dev |-> Peer(d)],
          Reach <- [d \in Dev |-> {Peer(d)}], CreditMax <- 0

LEMMA IrqAssumptions ==
  /\ IrqP!IrqAssumption /\ IrqP!CtlAssumption
  /\ IrqP!SigMaxAssumption /\ IrqP!CreditMaxAssumption
BY QueueAssumption, PeerType
   DEF IrqP!IrqAssumption, IrqP!CtlAssumption, IrqP!SigMaxAssumption, IrqP!CreditMaxAssumption

LEMMA IrqStep ==
  ASSUME NEW d \in Dev,
         \/ Irqs!enableIrq(d) \/ Irqs!disableIrq(d)
         \/ Irqs!local_raise(d, Peer(d))
         \/ Irqs!Insert(d) \/ Irqs!Kill(d)
         \/ Irqs!signal_handler(d) \/ Irqs!HandlerReturn(d) \/ Irqs!handle(d, d)
  PROVE  IrqP!Next
<1>0. Peer(d) \in Dev
  BY PeerType
<1>1. CASE Irqs!enableIrq(d) \/ Irqs!disableIrq(d)
  <2>1. IrqP!enableIrq(d) \/ IrqP!disableIrq(d)
    BY <1>1 DEF Irqs!enableIrq, Irqs!disableIrq, Irqs!SetEnabled,
                IrqP!enableIrq, IrqP!disableIrq, IrqP!SetEnabled
  <2>2. QED BY <2>1 DEF IrqP!Next
<1>2. CASE Irqs!local_raise(d, Peer(d))
  <2>1. IrqP!local_raise(d, Peer(d))
    BY <1>2 DEF Irqs!local_raise, Irqs!Raise, Irqs!Idle, IrqP!local_raise, IrqP!Raise, IrqP!Idle
  <2>2. QED BY <1>0, <2>1 DEF IrqP!Next
<1>3. CASE Irqs!Insert(d)
  <2>1. IrqP!Insert(d)
    BY <1>3 DEF Irqs!Insert, Irqs!Linking, Irqs!AlsoSees, IrqP!Insert, IrqP!Linking, IrqP!AlsoSees
  <2>2. QED BY <2>1 DEF IrqP!Next
<1>4. CASE Irqs!Kill(d)
  <2>1. IrqP!Kill(d)
    BY <1>4 DEF Irqs!Kill, Irqs!pthread_kill, Irqs!Queue, Irqs!Refuse, Irqs!Room, Irqs!Idle,
                IrqP!Kill, IrqP!pthread_kill, IrqP!Queue, IrqP!Refuse, IrqP!Room, IrqP!Idle
  <2>2. QED BY <2>1 DEF IrqP!Next
<1>5. CASE Irqs!signal_handler(d) \/ Irqs!HandlerReturn(d)
  <2>1. IrqP!signal_handler(d) \/ IrqP!HandlerReturn(d)
    BY <1>5 DEF Irqs!signal_handler, Irqs!HandlerReturn, IrqP!signal_handler, IrqP!HandlerReturn
  <2>2. QED BY <2>1 DEF IrqP!Next
<1>6. CASE Irqs!handle(d, d)
  <2>1. IrqP!handle(d, d)
    BY <1>6 DEF Irqs!handle, IrqP!handle
  <2>2. QED BY <2>1 DEF IrqP!Next
<1>7. QED BY <1>1, <1>2, <1>3, <1>4, <1>5, <1>6

(* The link does with its irqs only what the controllers' module allows.   *)
THEOREM IrqsFollowController == Spec => IrqP!Spec
<1>1. Init => IrqP!Init
  BY DEF Init, Irqs!Init, IrqP!Init, Irqs!Idle, IrqP!Idle
<1>2. [Next]_vars => [IrqP!Next]_(IrqP!vars)
  <2> SUFFICES ASSUME [Next]_vars, ~ UNCHANGED IrqP!vars PROVE IrqP!Next
    OBVIOUS
  <2>1. ~ UNCHANGED irqs
    BY DEF irqs, IrqP!vars
  <2>2. PICK d \in Dev : ThreadStep(d) \/ SpuriousWakeup(d) \/ HandlerStep(d) \/ Handle(d)
    BY <2>1 DEF Next, vars
  <2>3. ~(SpuriousWakeup(d) \/ sync_xfer(d) \/ async_xfer(d) \/ Lock(d) \/ SlaveStep(d))
    BY <2>1 DEF SpuriousWakeup, sync_xfer, async_xfer, Lock, SlaveStep, Listen, SetCallback,
                SetContext, Unlock, CondLock, CondWait, Woken
  <2>4. ~(Look(d) \/ Copy(d) \/ Unlisten(d) \/ Signal(d) \/ Clear(d))
    BY <2>1 DEF Look, Copy, Unlisten, Signal, Clear
  <2>5. Enable(d) \/ RaiseIrq(d) \/ FinishRaise(d) \/ HandlerStep(d) \/ Handle(d)
    BY <2>2, <2>3, <2>4 DEF ThreadStep, MasterStep
  <2>6. \/ Irqs!enableIrq(d) \/ Irqs!disableIrq(d)
        \/ Irqs!local_raise(d, Peer(d))
        \/ Irqs!Insert(d) \/ Irqs!Kill(d)
        \/ Irqs!signal_handler(d) \/ Irqs!HandlerReturn(d) \/ Irqs!handle(d, d)
    BY <2>1, <2>5 DEF Enable, RaiseIrq, FinishRaise, HandlerStep, Handle
  <2>7. QED BY <2>6, IrqStep
<1>3. QED BY <1>1, <1>2, PTL DEF Spec, IrqP!Spec

LEMMA IrqTypes == Spec => []Irqs!TypeOK
<1>1. IrqP!Spec => []IrqP!TypeOK
  BY IrqP!TypeCorrect, IrqAssumptions, PTL
<1>2. IrqP!TypeOK => Irqs!TypeOK
  BY DEF Irqs!TypeOK, IrqP!TypeOK, Irqs!Calls, IrqP!Calls, Irqs!Idle, IrqP!Idle
<1>3. QED BY <1>1, <1>2, IrqsFollowController, PTL

LEMMA AllSole == \A c \in Dev : IrqP!SoleRaiser(c)
BY PeerType DEF IrqP!SoleRaiser

(* An irq that was raised, and whose handler has not run since, is in the  *)
(* set, and the walk in progress or the one of a signal on its way reaches *)
(* it, or it waits for the next signal since the kernel refused the last.  *)
NoIrqLost ==
  \A d \in Dev : \A i \in owed[d] : Irqs!WillHandle(d, i) \/ Irqs!WaitsForSignal(d, i)

(* The irq of a transfer is never dropped, and only delayed when the       *)
(* kernel refuses its signal while the device has none queued: each device *)
(* is the destination of one other thread only, so that the races of       *)
(* IrqController do not occur.                                             *)
THEOREM IrqsReachPeer == Spec => []NoIrqLost
<1>1. IrqP!Spec => []IrqP!SoleRaiserLosesNothing
  BY IrqP!SoleRaiserSafe, IrqAssumptions, PTL
<1>2. IrqP!SoleRaiserLosesNothing => NoIrqLost
  BY AllSole DEF IrqP!SoleRaiserLosesNothing, NoIrqLost, IrqP!WillHandle, Irqs!WillHandle,
                 IrqP!WaitsForSignal, Irqs!WaitsForSignal, IrqP!Killing, Irqs!Killing
<1>3. QED BY <1>1, <1>2, IrqsFollowController, PTL

(* Every step of the link is a step of the latching lines of               *)
(* InterruptLine, which name the refused signals, or leaves them as they   *)
(* are: the safety half of LinesServe.                                     *)
THEOREM LinesImplemented == Spec => Irqs!ImplementsLine
<1>1. IrqP!Spec => IrqP!ImplementsLine
  BY IrqP!LinesImplemented, IrqAssumptions, PTL
<1>2. IrqP!Line!Init => Irqs!Line!Init
  BY DEF IrqP!Line!Init, Irqs!Line!Init,
         IrqP!Sole, IrqP!SoleRaiser, IrqP!WillHandle, IrqP!Killing,
         Irqs!Sole, Irqs!SoleRaiser, Irqs!WillHandle, Irqs!Killing
<1>3. [IrqP!Line!Next]_(IrqP!Line!vars) => [Irqs!Line!Next]_(Irqs!Line!vars)
  BY DEF IrqP!Line!Next, IrqP!Line!vars, IrqP!Line!Strobe, IrqP!Line!Refuse, IrqP!Line!Accept,
         IrqP!Line!Raise, IrqP!Line!Serve,
         Irqs!Line!Next, Irqs!Line!vars, Irqs!Line!Strobe, Irqs!Line!Refuse, Irqs!Line!Accept,
         Irqs!Line!Raise, Irqs!Line!Serve,
         IrqP!Sole, IrqP!SoleRaiser, IrqP!WillHandle, IrqP!Killing,
         Irqs!Sole, Irqs!SoleRaiser, Irqs!WillHandle, Irqs!Killing
<1>4. QED BY <1>1, <1>2, <1>3, IrqsFollowController, PTL
           DEF Irqs!ImplementsLine, IrqP!ImplementsLine, Irqs!Line!Spec, IrqP!Line!Spec

-----------------------------------------------------------------------------
(* All steps.                                                              *)

LEMMA InvInit == Init => IInv
<1> SUFFICES ASSUME Init PROVE IInv
  OBVIOUS
<1>1. Typed
  BY AmountNat DEF Init, Typed, Thread, PCs
<1>2. ASSUME NEW d \in Dev
      PROVE  Placed(d) /\ Rest(d)
  <2>1. Peer(d) \in Dev /\ Len(Plan[d]) \in Nat
    BY PeerType, PlanAssumption
  <2>2. Placed(d) /\ Named(d)
    BY <2>1 DEF Init, Placed, Named, Serving, Posting
  <2>3. ToldOfPast(d) /\ CopiesListener(d)
    BY <2>1 DEF Init, ToldOfPast, Reached, CopiesListener
  <2>4. Sound(d)
    BY <2>1 DEF Init, Sound, ListensToOffer, Listening, ExchangedPast, ExchangesOf, SizeKept,
                ReturnedExchanged, JustDid
  <2>5. QED BY <2>2, <2>3, <2>4 DEF Rest
<1>3. QED BY <1>1, <1>2 DEF IInv

(* The steps that only concern the interrupts                              *)
LEMMA IrqOnly ==
  ASSUME NEW d \in Dev, FinishRaise(d) \/ HandlerStep(d)
  PROVE  UNCHANGED <<spi, th, ghosts>>
BY DEF FinishRaise, HandlerStep

LEMMA StutterKept ==
  ASSUME IInv, UNCHANGED <<spi, th, ghosts>>
  PROVE  IInv'
<1>1. Typed'
  BY DEF IInv, Typed, spi, ghosts, mutexes, buffers, callback
<1>2. ASSUME NEW s \in Dev
      PROVE  Placed(s)' /\ Rest(s)'
  <2>1. Placed(s)'
    BY <1>2 DEF IInv, Placed
  <2>2. QED BY <1>2, <2>1, MovesKept DEF IInv, Moves, spi, ghosts
<1>3. QED BY <1>1, <1>2 DEF IInv

LEMMA TypedKept ==
  ASSUME Typed, NEW d \in Dev, Step(d)
  PROVE  Typed'
BY EnableTyped, async_xferTyped, LockTyped, MoveTyped, OtherTyped, CopyTyped, ClearTyped,
   UnlockTyped, WokenTyped, HandleTyped
   DEF Step, MasterStep, SlaveStep

LEMMA PlacedKept ==
  ASSUME Typed, NEW d \in Dev, Step(d), NEW s \in Dev, \A e \in Dev : Placed(e)
  PROVE  Placed(s)'
<1>1. CASE Signal(d) /\ IsMaster[d]
  BY <1>1, SignalPlaced
<1>2. CASE Handle(d)
  BY <1>2 DEF Handle, Placed
<1>3. CASE ~Signal(d) /\ ~Handle(d)
  <2>1. Placed(d)' /\ th'[Peer(d)] = th[Peer(d)]
    BY <1>3, OwnPlaced, UnlockPlaced
  <2>2. QED BY <2>1, PeerType DEF Placed
<1>4. Signal(d) => IsMaster[d] \/ Handle(d)
  <2>1. Signal(d) => th[d].at = "signal"
    BY DEF Signal, Runs
  <2>2. QED BY <2>1 DEF Placed, Serving
<1>5. QED BY <1>1, <1>2, <1>3, <1>4

LEMMA OwnKept ==
  ASSUME Typed, NEW d \in Dev, Step(d), Placed(d), Rest(d)
  PROVE  Rest(d)'
BY EnableOwn, sync_xferOwn, async_xferOwn, LockOwn, MoveOwn, CopyOwn, UnlistenOwn, ClearOwn,
   ListenOwn, CallbackOwn, UnlockOwn, WokenOwn, HandleOwn
   DEF Step, MasterStep, SlaveStep

LEMMA PeerKept ==
  ASSUME Typed, NEW d \in Dev, Step(d), Placed(Peer(d)), Rest(Peer(d))
  PROVE  Rest(Peer(d))'
BY CallPeer, ServePeer, PostPeer, CopyPeer, UnlistenPeer, ClearPeer, HandlePeer
   DEF Step, MasterStep

LEMMA InvStep == IInv /\ [Next]_vars => IInv'
<1> SUFFICES ASSUME IInv, [Next]_vars PROVE IInv'
  OBVIOUS
<1>1. ASSUME NEW d \in Dev, Step(d)
      PROVE  IInv'
  <2>1. \A s \in Dev : Rest(s)'
    BY <1>1, PeerType, OwnKept, PeerKept DEF IInv
  <2>2. QED BY <1>1, <2>1, TypedKept, PlacedKept DEF IInv
<1>2. ASSUME NEW d \in Dev, SpuriousWakeup(d)
      PROVE  IInv'
  BY <1>2, SpuriousWakeupKept DEF IInv
<1>3. CASE UNCHANGED <<spi, th, ghosts>>
  BY <1>3, StutterKept
<1>4. CASE UNCHANGED vars
  BY <1>3, <1>4 DEF vars
<1>5. QED BY <1>1, <1>2, <1>3, <1>4, IrqOnly DEF Next, ThreadStep, Step

(* The invariant, whatever the timing: its part Sound is what a device that *)
(* was never told too early can rely on.                                   *)
THEOREM Invariant == Spec => []IInv
BY InvInit, InvStep, PTL DEF Spec

(* The types, for any plans and sizes: no buffer, callback or context is   *)
(* of a call that does not exist.                                          *)
THEOREM TypeCorrect == Spec => []TypeOK
<1>1. IInv /\ Irqs!TypeOK => TypeOK
  <2> SUFFICES ASSUME IInv, Irqs!TypeOK PROVE TypeOK
    OBVIOUS
  <2>1. ASSUME NEW d \in Dev
        PROVE  /\ {current_rx[d], current_tx[d], slave_callback[d], slave_callback_ctx[d]}
                    \subseteq 0 .. Len(Plan[d])
               /\ current_xfer_size[d] \in Sizes \cup {0}
               /\ th[d].ip \in 1 .. Len(Plan[d]) + 1
               /\ returned[d] \in Sizes \cup {0, EINVAL}
    <3>1. Typed /\ Placed(d) /\ Named(d)
      BY DEF IInv, Rest
    <3>2. QED BY <3>1, PlanAssumption DEF Typed, Placed, Named, Amount
  <2>2. QED BY <2>1 DEF IInv, Typed, TypeOK
<1>2. QED BY <1>1, Invariant, IrqTypes, PTL

(* Each exchange is of one whole posting, and of no posting twice, for a   *)
(* device that is never told too early.                                    *)
THEOREM ExchangesArePairs == Spec => []ExchangesPair
<1>1. IInv => ExchangesPair
  <2> SUFFICES ASSUME IInv, NEW x \in exchanges, Peer(x.dev) \notin early
               PROVE  /\ x.from = x.to
                      /\ x.from # 0
                      /\ x.n <= x.size
                      /\ \A y \in exchanges : x.dev = y.dev /\ x.from = y.from => x = y
    BY DEF ExchangesPair
  <2>1. x.dev \in Dev
    BY DEF IInv, Typed
  <2>2. Sound(Peer(x.dev)) /\ Peer(Peer(x.dev)) = x.dev
    BY <2>1, PeerType DEF IInv, Rest
  <2>3. QED BY <2>2 DEF Sound, ExchangesOf
<1>2. QED BY <1>1, Invariant, PTL

(* The master only copies while the buffers are still lent to it, with the *)
(* same exception.                                                         *)
THEOREM CopiesAreInTime == Spec => CopyIsInTime
<1> DEFINE InTime == \A d \in Dev : Copy(d) =>
                       LET s == Peer(d) IN
                       \/ s \in early
                       \/ current_rx[s] = th[s].ip
                       \/ current_rx[s] = th[s].posted /\ Posted(s)
<1>1. IInv => InTime
  <2> SUFFICES ASSUME IInv, NEW d \in Dev, Copy(d), Peer(d) \notin early
               PROVE  \/ current_rx[Peer(d)] = th[Peer(d)].ip
                      \/ current_rx[Peer(d)] = th[Peer(d)].posted /\ Posted(Peer(d))
    OBVIOUS
  <2>1. Offered(Peer(d))
    BY PeerType, CopyTakesOffer DEF IInv
  <2>2. QED BY <2>1 DEF Offered, Posted
<1>2. IInv /\ [Next]_vars => [InTime]_vars
  BY <1>1
<1>3. QED BY <1>2, Invariant, PTL DEF Spec, CopyIsInTime

(* A slave that nobody told too early: the size its sync_xfer returns is   *)
(* that of the exchange of its own buffers.                                *)
SlaveReturns == \A d \in Dev \ early : ~IsMaster[d] => ReturnedExchanged(d)

THEOREM SlaveReturnsItsOwn == Spec => []SlaveReturns
<1>1. IInv => SlaveReturns
  BY DEF IInv, Rest, Sound, SlaveReturns
<1>2. QED BY <1>1, Invariant, PTL

-----------------------------------------------------------------------------
(* What the sync_xfer of a master did, whatever the slave does meanwhile.  *)

SizesOf(d, id) == {x.size : x \in {y \in exchanges : y.dev = d /\ y.id = id}}

Done(d, size) == IF d \in missed THEN {} ELSE {size}

Copied == {"unlisten", "signal", "raise", "clear"}

(* The look decides, and the call exchanges once after it, or not at all.  *)
Certain(d) ==
  /\ \A x \in exchanges : x.dev = d => x.id <= th[d].ip
  /\ th[d].at \notin Copied => SizesOf(d, th[d].ip) = {}
  /\ th[d].at = "copy" => d \notin missed
  /\ th[d].at \in Copied => SizesOf(d, th[d].ip) = Done(d, th[d].size)
  /\ JustDid(d, "sync") => SizesOf(d, th[d].ip - 1) = Done(d, returned[d])

MasterInv == \A d \in Dev : IsMaster[d] => Certain(d)

(* A step that neither exchanges for d nor brings it to other places.      *)
LEMMA CertainKept ==
  ASSUME NEW d \in Dev, Certain(d),
         th'[d].ip = th[d].ip, th'[d].size = th[d].size,
         th'[d].at \in Copied \cup {"copy", "idle"} => th'[d].at = th[d].at,
         th[d].at \in Copied => th'[d].at = th[d].at,
         \A x : x.dev = d => (x \in exchanges' <=> x \in exchanges),
         d \in missed' <=> d \in missed, returned'[d] = returned[d]
  PROVE  Certain(d)'
<1>1. \A id : SizesOf(d, id)' = SizesOf(d, id)
  BY DEF SizesOf
<1>2. Done(d, th[d].size)' = Done(d, th[d].size) /\ Done(d, returned[d])' = Done(d, returned[d])
  BY DEF Done
<1>3. JustDid(d, "sync")' => JustDid(d, "sync")
  BY DEF JustDid
<1>4. SizesOf(d, th[d].ip)' = SizesOf(d, th[d].ip)
  BY <1>1
<1>5. SizesOf(d, th[d].ip - 1)' = SizesOf(d, th[d].ip - 1)
  BY <1>1
<1>6. QED BY <1>2, <1>3, <1>4, <1>5 DEF Certain

(* A call that makes no exchange, before it looks or when it has returned. *)
LEMMA CertainOutside ==
  ASSUME Typed, NEW d \in Dev, Certain(d), th[d].at \notin Copied,
         th'[d].at \notin Copied \cup {"copy"},
         \/ th'[d].ip = th[d].ip /\ th'[d].at # "idle"
         \/ th'[d].ip = th[d].ip + 1 /\ Plan[d][th[d].ip] # "sync",
         UNCHANGED exchanges
  PROVE  Certain(d)'
<1>1. th[d].ip \in Nat /\ \A x \in exchanges : x.id \in Nat
  BY DEF Typed, Thread
<1>2. \A x \in exchanges : x.dev = d => x.id <= th[d].ip /\ x.id # th[d].ip
  BY DEF Certain, SizesOf
<1>3. \A x \in exchanges : x.dev = d => x.id <= th'[d].ip /\ x.id # th'[d].ip
  BY <1>1, <1>2
<1>4. SizesOf(d, th[d].ip)' = {}
  BY <1>3 DEF SizesOf
<1>5. ~ JustDid(d, "sync")'
  BY <1>1 DEF JustDid
<1>6. QED BY <1>3, <1>4, <1>5 DEF Certain

(* The copy is one more exchange of its device.                            *)
LEMMA CopyAdds ==
  ASSUME NEW d \in Dev, Copy(d)
  PROVE  \E x : /\ exchanges' = exchanges \cup {x}
               /\ x.dev = d /\ x.id = th[d].ip /\ x.size = th[d].size
<1> DEFINE new == [dev |-> d, id |-> th[d].ip,
                   from |-> current_tx[Peer(d)], to |-> current_rx[Peer(d)],
                   n |-> Smaller(th[d].size, current_xfer_size[Peer(d)]), size |-> th[d].size]
<1>1. exchanges' = exchanges \cup {new}
  BY DEF Copy
<1>2. new.dev = d /\ new.id = th[d].ip /\ new.size = th[d].size
  OBVIOUS
<1> HIDE DEF new
<1>3. QED BY <1>1, <1>2

LEMMA CertainOwn ==
  ASSUME Typed, NEW d \in Dev, Placed(d), IsMaster[d], Certain(d), Step(d)
  PROVE  Certain(d)'
<1>1. /\ th \in [Dev -> Thread] /\ th[d].ip \in Nat /\ Peer(d) \in Dev /\ Peer(d) # d
      /\ returned \in [Dev -> Amount \cup {EINVAL}]
      /\ \A x \in exchanges : x.id \in Nat
  BY PeerType DEF Typed, Thread
<1>2. CASE Enable(d)
  <2>1. th[d].at = "idle" /\ th'[d].at = "idle" /\ th'[d].ip = th[d].ip + 1
    BY <1>1, <1>2, ReturnEffect DEF Enable, Runs
  <2>2. Plan[d][th[d].ip] # "sync" /\ UNCHANGED exchanges
    BY <1>2 DEF Enable, Op
  <2>3. QED BY <2>1, <2>2, CertainOutside DEF Copied
<1>3. CASE sync_xfer(d)
  <2>1. th[d].at = "idle" /\ th'[d].at = "lock" /\ th'[d].ip = th[d].ip /\ UNCHANGED exchanges
    BY <1>1, <1>3, BeginEffect DEF sync_xfer, MayStart, Runs, ghosts
  <2>2. QED BY <2>1, CertainOutside DEF Copied
<1>4. CASE async_xfer(d)
  <2>1. th[d].at = "idle" /\ Plan[d][th[d].ip] # "sync" /\ UNCHANGED exchanges
    BY <1>4 DEF async_xfer, Op, MayStart, Runs
  <2>2. \/ th'[d].at = "idle" /\ th'[d].ip = th[d].ip + 1
        \/ th'[d].at = "lock" /\ th'[d].ip = th[d].ip
    BY <1>1, <1>4, BeginEffect, ReturnEffect DEF async_xfer
  <2>3. QED BY <2>1, <2>2, CertainOutside DEF Copied
<1>5. CASE Lock(d)
  <2>1. th[d].at = "lock" /\ UNCHANGED exchanges
    BY <1>5 DEF Lock, Runs, ghosts
  <2>2. th'[d].ip = th[d].ip /\ th'[d].at \in {"look", "listen"}
    BY <1>1, <1>5, GotoEffect DEF Lock, PCs, Serving
  <2>3. QED BY <2>1, <2>2, CertainOutside DEF Copied
<1>6. CASE Look(d)
  <2>1. th[d].at = "look" /\ UNCHANGED exchanges
    BY <1>6 DEF Look, Runs
  <2>2. /\ th'[d].ip = th[d].ip /\ th'[d].size = th[d].size
        /\ \/ th'[d].at = "copy" /\ d \notin missed'
           \/ th'[d].at = "clear" /\ d \in missed'
    BY <1>1, <1>6, GotoEffect DEF Look, looked_at, PCs, Serving
  <2>3. SizesOf(d, th[d].ip) = {} /\ SizesOf(d, th[d].ip)' = SizesOf(d, th[d].ip)
    BY <2>1, <2>2 DEF Certain, Copied, SizesOf
  <2>4. QED BY <2>1, <2>2, <2>3 DEF Certain, Copied, Done, JustDid
<1>7. CASE Copy(d)
  <2>1. PICK new : /\ exchanges' = exchanges \cup {new}
                   /\ new.dev = d /\ new.id = th[d].ip /\ new.size = th[d].size
    BY <1>7, CopyAdds
  <2>2. /\ th'[d].at = "unlisten" /\ th'[d].ip = th[d].ip /\ th'[d].size = th[d].size
    BY <1>1, <1>7, GotoEffect DEF Copy, PCs, Serving
  <2>3. th[d].at = "copy" /\ UNCHANGED missed
    BY <1>7 DEF Copy, Runs
  <2>4. SizesOf(d, th[d].ip)' = {th[d].size}
    <3>1. SizesOf(d, th[d].ip) = {}
      BY <2>3 DEF Certain, Copied
    <3>2. \A x \in exchanges : ~(x.dev = d /\ x.id = th[d].ip)
      BY <3>1 DEF SizesOf
    <3>3. QED BY <2>1, <2>2, <3>2 DEF SizesOf
  <2>5. \A x \in exchanges' : x.dev = d => x.id <= th'[d].ip
    BY <1>1, <2>1, <2>2 DEF Certain
  <2>6. QED BY <2>2, <2>3, <2>4, <2>5 DEF Certain, Copied, Done, JustDid
<1>8. CASE Unlisten(d) \/ Signal(d) \/ RaiseIrq(d)
  <2>1. th[d].at \in {"unlisten", "signal", "raise"} /\ UNCHANGED <<exchanges, missed>>
    BY <1>8 DEF Unlisten, Signal, RaiseIrq, Runs, ghosts
  <2>2. /\ th'[d].at \in {"signal", "raise", "clear"}
        /\ th'[d].ip = th[d].ip /\ th'[d].size = th[d].size
    BY <1>1, <1>8, GotoEffect, SignalEffect DEF Unlisten, RaiseIrq, PCs, Serving
  <2>3. SizesOf(d, th[d].ip)' = SizesOf(d, th[d].ip)
    BY <2>1, <2>2 DEF SizesOf
  <2>4. QED BY <2>1, <2>2, <2>3 DEF Certain, Copied, Done, JustDid
<1>9. CASE Clear(d)
  <2>1. th[d].at = "clear" /\ UNCHANGED <<exchanges, missed>>
    BY <1>9 DEF Clear, Runs
  <2>2. th'[d].at = "idle" /\ th'[d].ip = th[d].ip + 1 /\ returned'[d] = th[d].size
    BY <1>1, <1>9, ReturnEffect DEF Clear
  <2>3. SizesOf(d, th[d].ip - 1)' = Done(d, returned[d])'
    <3>1. SizesOf(d, th[d].ip) = Done(d, th[d].size)
      BY <2>1 DEF Certain, Copied
    <3>2. Done(d, returned[d])' = Done(d, th[d].size)
      BY <2>1, <2>2 DEF Done
    <3>3. th'[d].ip - 1 = th[d].ip
      BY <1>1, <2>2
    <3>4. SizesOf(d, th[d].ip - 1)' = SizesOf(d, th[d].ip)
      BY <2>1, <3>3 DEF SizesOf
    <3>5. QED BY <3>1, <3>2, <3>4
  <2>4. \A x \in exchanges' : x.dev = d => x.id <= th'[d].ip /\ x.id # th'[d].ip
    BY <1>1, <2>1, <2>2 DEF Certain
  <2>5. SizesOf(d, th[d].ip)' = {}
    BY <2>4 DEF SizesOf
  <2>6. QED BY <2>2, <2>3, <2>4, <2>5 DEF Certain, Copied
<1>10. CASE SlaveStep(d)
  <2>1. th[d].at \in Posting \cup {"listen"}
    BY <1>10 DEF SlaveStep, Listen, SetCallback, SetContext, Unlock, CondLock, CondWait, Woken,
                 Runs, Posting
  <2>2. th[d].kind = "async"
    BY <2>1 DEF Placed
  <2>3. Plan[d][th[d].ip] = "async" /\ th[d].at # "woken"
    BY <2>1, <2>2 DEF Placed, Posting
  <2>4. \/ th'[d].at \in Posting /\ th'[d].ip = th[d].ip
        \/ th'[d].at = "idle" /\ th'[d].ip = th[d].ip + 1
    BY <1>1, <1>10, GotoEffect, ReturnEffect
       DEF SlaveStep, Listen, SetCallback, SetContext, Unlock, CondLock, CondWait, Woken,
           PCs, Posting
  <2>5. UNCHANGED exchanges
    BY <1>10 DEF SlaveStep, Listen, SetCallback, SetContext, Unlock, CondLock, CondWait, Woken,
                 ghosts
  <2>6. QED BY <2>1, <2>3, <2>4, <2>5, CertainOutside DEF Posting, Copied
<1>11. CASE Handle(d)
  <2>1. UNCHANGED <<th, exchanges, missed, returned>>
    BY <1>11 DEF Handle
  <2>2. QED BY <2>1, CertainKept
<1>12. QED BY <1>2, <1>3, <1>4, <1>5, <1>6, <1>7, <1>8, <1>9, <1>10, <1>11 DEF Step, MasterStep

(* What the other device exchanges is its own.                             *)
LEMMA CertainPeer ==
  ASSUME Typed, NEW d \in Dev, Certain(Peer(d)), Step(d)
  PROVE  Certain(Peer(d))'
<1> DEFINE m == Peer(d)
<1>1. th \in [Dev -> Thread] /\ m \in Dev /\ m # d /\ Peer(m) = d
  BY PeerType DEF Typed
<1>2. \A x : x.dev = m => (x \in exchanges' <=> x \in exchanges)
  <2>1. CASE Copy(d)
    <3>1. PICK new : exchanges' = exchanges \cup {new} /\ new.dev = d
      BY <2>1, CopyAdds
    <3>2. QED BY <1>1, <3>1
  <2>2. CASE ~Copy(d)
    BY <2>2 DEF Step, MasterStep, SlaveStep, Enable, sync_xfer, async_xfer, Lock, Look,
         Unlisten, Signal, RaiseIrq, Clear, Listen, SetCallback, SetContext, Unlock, CondLock,
         CondWait, Woken, Handle, ghosts
  <2>3. QED BY <2>1, <2>2
<1>3. m \in missed' <=> m \in missed
  BY <1>1 DEF Step, MasterStep, SlaveStep, Enable, sync_xfer, async_xfer, Lock, Look, Copy,
         Unlisten, Signal, RaiseIrq, Clear, Listen, SetCallback, SetContext, Unlock, CondLock,
         CondWait, Woken, Handle, ghosts
<1>4. returned'[m] = returned[m]
  BY <1>1 DEF Typed, Return, Step, MasterStep, SlaveStep, Enable, sync_xfer, async_xfer, Lock,
         Look, Copy, Unlisten, Signal, RaiseIrq, Clear, Listen, SetCallback, SetContext, Unlock,
         CondLock, CondWait, Woken, Handle, ghosts
<1>5. /\ th'[m].ip = th[m].ip /\ th'[m].size = th[m].size
      /\ th'[m].at = th[m].at \/ (th[m].at = "waiting" /\ th'[m].at = "woken")
  <2>1. CASE Signal(d)
    BY <1>1, <2>1, SignalEffect
  <2>2. CASE Handle(d)
    BY <2>2 DEF Handle
  <2>3. CASE Step(d) /\ ~Signal(d) /\ ~Handle(d)
    BY <1>1, <2>3, ReturnEffect, BeginEffect, GotoEffect
       DEF Step, MasterStep, SlaveStep, Enable, sync_xfer, async_xfer, Lock, Look, Copy,
           Unlisten, RaiseIrq, Clear, Listen, SetCallback, SetContext, Unlock, CondLock,
           CondWait, Woken, PCs, Posting, Serving
  <2>4. QED BY <2>1, <2>2, <2>3
<1>6. QED BY <1>1, <1>2, <1>3, <1>4, <1>5, CertainKept DEF Copied

LEMMA MasterInvariant == Spec => []MasterInv
<1>1. Init => MasterInv
  BY DEF Init, MasterInv, Certain, Copied, SizesOf, JustDid
<1>2. MasterInv /\ IInv /\ [Next]_vars => MasterInv'
  <2> SUFFICES ASSUME MasterInv, IInv, [Next]_vars PROVE MasterInv'
    OBVIOUS
  <2>1. ASSUME NEW d \in Dev, Step(d)
        PROVE  MasterInv'
    <3>1. IsMaster[d] => Certain(d)'
      BY <2>1, CertainOwn DEF MasterInv, IInv
    <3>2. IsMaster[Peer(d)] => Certain(Peer(d))'
      BY <2>1, PeerType, CertainPeer DEF MasterInv, IInv
    <3>3. QED BY <2>1, <3>1, <3>2, PeerType DEF MasterInv
  <2>2. ASSUME NEW d \in Dev, SpuriousWakeup(d)
        PROVE  MasterInv'
    <3>1. /\ UNCHANGED <<exchanges, missed, returned>>
          /\ th[d].at = "waiting" /\ th' = [th EXCEPT ![d].at = "woken"]
      BY <2>2 DEF SpuriousWakeup, Runs, ghosts
    <3>2. \A m \in Dev : /\ th'[m].ip = th[m].ip /\ th'[m].size = th[m].size
                          /\ \/ th'[m].at = th[m].at
                             \/ th[m].at = "waiting" /\ th'[m].at = "woken"
      BY <3>1 DEF IInv, Typed, Thread
    <3>3. QED BY <3>1, <3>2, CertainKept DEF MasterInv, Copied
  <2>3. CASE UNCHANGED <<spi, th, ghosts>>
    BY <2>3, CertainKept DEF MasterInv, ghosts
  <2>4. CASE UNCHANGED vars
    BY <2>3, <2>4 DEF vars
  <2>5. QED BY <2>1, <2>2, <2>3, <2>4, IrqOnly DEF Next, ThreadStep, Step
<1>3. QED BY <1>1, <1>2, Invariant, PTL DEF Spec

(* Whatever the timing, the plans, the sizes and the wakeups, and with     *)
(* masters at both ends as well: a master's sync_xfer made one exchange,   *)
(* of the size it returns, if the other device was listening when it       *)
(* looked, and otherwise none, and returned a size all the same.           *)
THEOREM MasterExchanges == Spec => []MasterReturnsExchanged
<1>1. MasterInv => MasterReturnsExchanged
  BY DEF MasterInv, Certain, SizesOf, Done, MasterReturnsExchanged
<1>2. QED BY <1>1, MasterInvariant, PTL

-----------------------------------------------------------------------------
(* A slave that never posts with a callback, at any timing: only a         *)
(* spurious wakeup can tell it too early.                                  *)

OnlyWaits(s) == ~IsMaster[s] /\ \A i \in DOMAIN Plan[s] : Plan[s][i] # "async"

(* It is woken after its exchange, by the master that made it, and stays   *)
(* until then.                                                             *)
WaitInv(s) ==
  /\ s \notin early
  /\ slave_callback[s] = 0 /\ th[s].posted = 0
  /\ th[s].at = "woken" =>
       Exchanged(s, th[s].ip) /\ th[Peer(s)].at \notin {"unlisten", "signal"}
  /\ th[Peer(s)].at \in {"unlisten", "signal"} =>
       th[s].at \in Posting /\ Exchanged(s, th[s].ip)

LEMMA WaitsOnly ==
  ASSUME NEW s \in Dev, OnlyWaits(s), IInv
  PROVE  /\ Op(s) # "async"
         /\ th[s].at # "idle" => th[s].kind = "sync"
         /\ th[s].at \notin Serving
<1>1. Placed(s)
  BY DEF IInv
<1>2. Len(Plan[s]) \in Nat /\ DOMAIN Plan[s] = 1 .. Len(Plan[s])
  BY PlanAssumption
<1>3. th[s].ip <= Len(Plan[s]) => th[s].ip \in DOMAIN Plan[s]
  BY <1>1, <1>2 DEF Placed
<1>4. QED BY <1>1, <1>3 DEF Placed, OnlyWaits, Op

(* A step of its own.                                                      *)
LEMMA WaitOwn ==
  ASSUME NEW s \in Dev, OnlyWaits(s), IInv, WaitInv(s), Step(s)
  PROVE  WaitInv(s)'
<1>1. /\ th \in [Dev -> Thread] /\ Peer(s) \in Dev /\ Peer(s) # s
      /\ Op(s) # "async" /\ th[s].at \notin Serving
      /\ th[s].at # "idle" => th[s].kind = "sync"
  BY WaitsOnly, PeerType DEF IInv, Typed
<1>2. CASE Enable(s) \/ sync_xfer(s) \/ Lock(s) \/ Listen(s)
  <2>1. th[s].at \in {"idle", "lock", "listen"}
    BY <1>2 DEF Enable, sync_xfer, MayStart, Lock, Listen, Runs
  <2>2. th[Peer(s)].at \notin {"unlisten", "signal"}
    BY <2>1 DEF WaitInv, Posting
  <2>3. /\ th'[Peer(s)] = th[Peer(s)] /\ th'[s].at # "woken" /\ th'[s].posted = th[s].posted
    BY <1>1, <1>2, BeginEffect, ReturnEffect, GotoEffect
       DEF Enable, sync_xfer, Lock, Listen, PCs, Posting, Serving
  <2>4. UNCHANGED <<early, slave_callback>>
    BY <1>2 DEF Enable, sync_xfer, Lock, Listen, spi, ghosts, callback
  <2>5. QED BY <2>2, <2>3, <2>4 DEF WaitInv
<1>3. CASE Unlock(s) \/ CondLock(s) \/ CondWait(s)
  <2>1. /\ th'[Peer(s)] = th[Peer(s)] /\ th'[s].ip = th[s].ip /\ th'[s].posted = th[s].posted
        /\ th'[s].at \in Posting /\ th'[s].at # "woken"
    BY <1>1, <1>3, GotoEffect DEF Unlock, CondLock, CondWait, Runs, PCs, Posting
  <2>2. UNCHANGED <<early, slave_callback, exchanges>>
    BY <1>3 DEF Unlock, CondLock, CondWait, ghosts, callback
  <2>3. QED BY <2>1, <2>2 DEF WaitInv, Exchanged
<1>4. CASE Woken(s)
  <2>1. Exchanged(s, th[s].ip) /\ th[Peer(s)].at \notin {"unlisten", "signal"}
    BY <1>4 DEF Woken, Runs, WaitInv
  <2>2. th'[Peer(s)] = th[Peer(s)] /\ th'[s].at = "idle" /\ th'[s].posted = th[s].posted
    BY <1>1, <1>4, ReturnEffect DEF Woken
  <2>3. UNCHANGED <<early, slave_callback>>
    BY <1>4, <2>1 DEF Woken, Tell, callback
  <2>4. QED BY <2>1, <2>2, <2>3 DEF WaitInv
<1>5. CASE Handle(s)
  <2>1. UNCHANGED <<early, slave_callback, th, exchanges>>
    BY <1>5 DEF Handle, spi_irq_handler, WaitInv, callback
  <2>2. QED BY <2>1 DEF WaitInv, Exchanged
<1>6. ~ async_xfer(s) /\ ~ SetCallback(s) /\ ~ SetContext(s)
  <2>1. th[s].at \notin {"callback", "ctx"}
    BY <1>1 DEF IInv, Placed
  <2>2. QED BY <1>1, <2>1 DEF async_xfer, SetCallback, SetContext, Runs
<1>7. ~ MasterStep(s)
  BY DEF MasterStep, OnlyWaits
<1>8. QED BY <1>2, <1>3, <1>4, <1>5, <1>6, <1>7 DEF Step, SlaveStep

(* A step of the other device.                                             *)
LEMMA WaitPeer ==
  ASSUME NEW s \in Dev, OnlyWaits(s), IInv, WaitInv(s), NEW d \in Dev, d = Peer(s), Step(d)
  PROVE  WaitInv(s)'
<1>1. /\ th \in [Dev -> Thread] /\ Peer(d) = s /\ d # s
      /\ th[s].at \notin Serving
      /\ th[s].at # "idle" => th[s].kind = "sync"
  BY WaitsOnly, PeerType DEF IInv, Typed
<1>2. CASE Copy(d)
  <2>1. /\ Offered(s) /\ current_tx[s] = current_rx[s] /\ th[s].at \in Posting
        /\ current_rx[s] = th[s].ip /\ ~Exchanged(s, th[s].ip)
    <3>1. Offered(s)
      BY <1>1, <1>2, CopyTakesOffer DEF IInv, WaitInv
    <3>2. QED BY <3>1 DEF Offered, WaitInv
  <2>2. th[s].at # "woken"
    BY <2>1 DEF WaitInv
  <2>3. /\ th'[s] = th[s] /\ th'[d].at = "unlisten"
    BY <1>1, <1>2, GotoEffect DEF Copy, PCs, Serving
  <2>4. \E x \in exchanges' : x.dev = d /\ x.from = th[s].ip
    <3>1. PICK n : [dev |-> d, id |-> th[d].ip, from |-> current_tx[s], to |-> current_rx[s],
                    n |-> n, size |-> th[d].size] \in exchanges'
      BY <1>1, <1>2 DEF Copy
    <3>2. QED BY <2>1, <3>1
  <2>5. UNCHANGED <<early, slave_callback>>
    BY <1>2 DEF Copy, callback
  <2>6. QED BY <2>1, <2>2, <2>3, <2>4, <2>5 DEF WaitInv, Exchanged
<1>3. CASE Unlisten(d)
  <2>1. /\ th[d].at = "unlisten" /\ th'[s] = th[s]
        /\ UNCHANGED <<early, slave_callback, exchanges>>
    BY <1>1, <1>3, GotoEffect DEF Unlisten, Runs, PCs, Serving, ghosts, callback
  <2>2. th[s].at # "woken"
    BY <2>1 DEF WaitInv
  <2>3. QED BY <2>1, <2>2 DEF WaitInv, Exchanged
<1>4. CASE Signal(d)
  <2>1. th[d].at = "signal" /\ UNCHANGED <<early, slave_callback, exchanges>>
    BY <1>4 DEF Signal, Runs, spi, ghosts, callback
  <2>2. /\ th'[d].at = "raise" /\ th'[s].ip = th[s].ip /\ th'[s].posted = th[s].posted
    BY <1>1, <1>4, SignalEffect
  <2>3. QED BY <2>1, <2>2 DEF WaitInv, Exchanged
<1>5. CASE ~Copy(d) /\ ~Unlisten(d) /\ ~Signal(d)
  <2>1. \/ th'[s] = th[s] /\ th'[d].at \notin {"unlisten", "signal"}
        \/ UNCHANGED th
    <3>1. CASE Enable(d) \/ sync_xfer(d) \/ async_xfer(d) \/ Clear(d) \/ Woken(d)
      BY <1>1, <3>1, BeginEffect, ReturnEffect DEF Enable, sync_xfer, async_xfer, Clear, Woken
    <3>2. CASE Lock(d) \/ Look(d) \/ RaiseIrq(d) \/ Listen(d) \/ SetCallback(d) \/ SetContext(d)
      BY <1>1, <3>2, GotoEffect
         DEF Lock, Look, RaiseIrq, Listen, SetCallback, SetContext, PCs, Posting, Serving
    <3>3. CASE Unlock(d) \/ CondLock(d) \/ CondWait(d)
      BY <1>1, <3>3, ReturnEffect, GotoEffect DEF Unlock, CondLock, CondWait, PCs, Posting
    <3>4. CASE Handle(d)
      BY <3>4 DEF Handle
    <3>5. QED BY <1>5, <3>1, <3>2, <3>3, <3>4 DEF Step, MasterStep, SlaveStep
  <2>2. s \notin early'
    <3>1. early' \subseteq early \cup {d}
      BY <1>5 DEF Step, MasterStep, SlaveStep, Enable, sync_xfer, async_xfer, Lock, Look,
                  RaiseIrq, Clear, Listen, SetCallback, SetContext, Unlock, CondLock, CondWait,
                  Woken, Handle, spi_irq_handler, Tell, ghosts
    <3>2. QED BY <1>1, <3>1 DEF WaitInv
  <2>3. slave_callback'[s] = slave_callback[s]
    <3>1. CASE SetCallback(d) \/ Handle(d)
      BY <1>1, <3>1 DEF SetCallback, Handle, spi_irq_handler, callback, IInv, Typed
    <3>2. CASE ~SetCallback(d) /\ ~Handle(d)
      BY <1>5, <3>2 DEF Step, MasterStep, SlaveStep, Enable, sync_xfer, async_xfer, Lock, Look,
                        RaiseIrq, Clear, Listen, SetContext, Unlock, CondLock,
                        CondWait, Woken, spi, callback
    <3>3. QED BY <3>1, <3>2
  <2>4. UNCHANGED exchanges
    BY <1>5 DEF Step, MasterStep, SlaveStep, Enable, sync_xfer, async_xfer, Lock, Look,
                RaiseIrq, Clear, Listen, SetCallback, SetContext, Unlock, CondLock, CondWait,
                Woken, Handle, ghosts
  <2>5. QED BY <1>1, <2>1, <2>2, <2>3, <2>4 DEF WaitInv, Exchanged
<1>6. QED BY <1>2, <1>3, <1>4, <1>5

LEMMA WaitStep ==
  ASSUME ~Spurious, NEW s \in Dev, OnlyWaits(s), IInv, WaitInv(s), [Next]_vars
  PROVE  WaitInv(s)'
<1>1. ASSUME NEW d \in Dev, Step(d) PROVE WaitInv(s)'
  BY <1>1, PeerType, WaitOwn, WaitPeer
<1>2. CASE UNCHANGED <<spi, th, ghosts>>
  BY <1>2 DEF WaitInv, Exchanged, spi, callback, ghosts
<1>3. CASE UNCHANGED vars
  BY <1>2, <1>3 DEF vars
<1>4. QED BY <1>1, <1>2, <1>3, IrqOnly DEF Next, ThreadStep, SpuriousWakeup, Step

(* Any timing of a master, which need not be patient, leaves a slave that  *)
(* only waits in order: what sync_xfer returns was exchanged, and none of  *)
(* the exceptions made for a slave that is told too early concern it.  The *)
(* wakeup it may miss keeps it waiting and does not misinform it.          *)
KeptInOrder(s) == s \notin early /\ ReturnedExchanged(s)

THEOREM WaitingSlaveInOrder ==
  ASSUME ~Spurious, NEW s \in Dev, OnlyWaits(s)
  PROVE  Spec => []KeptInOrder(s)
<1>1. Init => WaitInv(s)
  BY PeerType DEF Init, WaitInv
<1>2. IInv /\ WaitInv(s) /\ [Next]_vars => WaitInv(s)'
  BY WaitStep
<1>3. IInv /\ WaitInv(s) => KeptInOrder(s)
  BY DEF IInv, Rest, Sound, WaitInv, OnlyWaits, KeptInOrder
<1>4. QED BY <1>1, <1>2, <1>3, Invariant, PTL DEF Spec
=============================================================================
