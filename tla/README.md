# hwmocker in TLA+

hwmocker mocks a system of two processing units, a *host* and a *soc*, as
threads of one process. The units are connected by pins; gpios carry levels,
some of them raise interrupts, and SPI devices exchange buffers. An interrupt is
a real-time signal to the thread of the unit. This directory holds a TLA+ model
of the library, the TLC instances that check it, and TLAPS proofs of the safety of
every part: the interrupt controller, the life of a system, the SPI devices, the pins and
their levels, and gpio interrupts from one unit's main function to the other's handler.

    tlasany M.tla                         parse a module
    tlc -config IrqShared.cfg MCIrqController
    tlapm IrqControllerProofs.tla

## 1. Inventory

| component | source | state | operations |
|---|---|---|---|
| interrupt controller | `src/src/irq/IrqController.cpp`, `HwIrq.hpp` | `pending_irqs`, enable bits, the thread to signal, `dest_controller`; per process `signal_handlers_map` and the signal action | `local_raise`, `dest_raise`, `handle`, enable/disable, `start`, `set_dest_irq_controller` |
| system, C API | `src/src/system/System.cpp`, `src/src/hwmocker.cpp` | the two units, the configuration | create, start, stop, wait, destroy |
| processing unit | `src/src/processingunit/ProcessingUnit.cpp` | thread, `start_mutex`, `ready_mutex`, `stopped`, `main_func`; lists of gpios, irqs, spi devices | constructor, thread function, set/wait ready, `set_gpio_irq`, `set_gpio_value`, `get_pin` |
| pins, gpios | `src/src/pin`, `src/src/gpio` | `connected_pins`, `level`, handler | `connect`, `change`, `on_change`, conversion of a gpio to an irq |
| SPI device | `src/src/spi/SpiDevice.cpp` | posted buffers and size, `is_listening`, callback and context, two mutexes, a condition | `sync_xfer`, `async_xfer`, `xmit_locked`, `wait_xfer_done`, irq handler, `set_remote` |
| legacy irq handler | `src/src/irq/irq.cpp` | a list of pending descriptors | not built by CMake |

How they interact. The caller's thread builds a `System`; each constructor of a
`ProcessingUnit` starts that unit's thread at once. The thread registers itself
with its controller (`IrqController::start`) while the caller goes on building,
then waits at `start_mutex`. `start` lets both threads into the user's main
functions, which convert gpios, enable irqs, tell one another that they are
ready, set levels and transfer. Setting a level walks the connected pins on the
thread that sets it and raises the irqs found there: the irq is inserted in the
*other* unit's set and a signal sent to the *other* unit's thread, whose signal
handler walks the set. An SPI master copies from and into the slave's buffers on
the master's own thread, then wakes the slave and raises its irq.

What is hard. There are three threads, a signal handler that can interrupt each
unit's thread anywhere, and next to no locking: the pending set, the pins and the
registry lookup of the signal handler have none, and the mutex an SPI device
takes is the other device's. Two mutexes are used as gates and latches (locked by
one thread, unlocked by another). A condition is waited for without a predicate.
Objects are deleted by the caller while signals may be on their way. And
everything that is kept across two systems of one process (`signal_handlers_map`)
outlives them. `PROJECT.json` lists the hazards one by one, each at its line.

What makes each component correct:

* *controller*: an irq that is raised while enabled is handled, whatever the
  raiser's timing against the walk of the handler and the signals that are queued;
* *lifecycle*: nothing runs before the system is complete and started, nothing is
  used after it is freed, every API call returns, and an interrupt between units
  that are ready finds its handler;
* *pins*: wires have two ends, which know each other, before and after every
  conversion, and levels and irqs follow them;
* *SPI*: an exchange involves one posting of the slave and one call of the master,
  within the time both leave their buffers alone; who posted learns of it once,
  and only then.

## 2. Plan

The order is that of importance: everything rests on interrupts.

1. `IrqController`, with its proofs.
2. `Lifecycle`, with the proofs of its safety.
3. `SpiLink`, composed with `IrqController`, with the proofs of its safety.
4. `PinNetwork`, with both units converting and driving at any time, with the proofs of
   its wires and of its levels.
5. Abstract specifications: `InterruptLine`, implemented by `IrqController`, and
   `Rendezvous`, implemented by `SpiLink` with a patient master; both refinements are
   checked and their safety is proved.
6. `GpioIrqs`, the composition of `PinNetwork`, `IrqController` and the ready mutexes
   for the gpio test: a level set on one unit is an irq handled on the other. With the
   proofs of its safety.

All of this is done. Every safety invariant and action property of the passing runs is
a theorem. What is left is what the prover cannot do (liveness), and theorems whose
hypotheses could be weaker: the proofs about callbacks assume one master that is
patient, as the run does, while `SpiStale` shows that they need some such assumption.

## 3. Modules

| module | models | extends / instantiates |
|---|---|---|
| `IrqController` | raising, masking and handling of interrupts | INSTANCE `InterruptLine` (refinement) |
| `InterruptLine` | abstract: interrupt lines that latch | |
| `IrqControllerProofs` | theorems about both | `IrqController`, TLAPS |
| `Lifecycle` | create, start, stop, wait, destroy and the units' threads | |
| `LifecycleProofs` | theorems about it | `Lifecycle`, TLAPS |
| `SpiLink` | two connected SPI devices and their irqs | INSTANCE `IrqController`; INSTANCE `Rendezvous` (refinement) |
| `SpiLinkProofs` | theorems about the link at any timing | `SpiLink`, TLAPS; INSTANCE `IrqControllerProofs` |
| `SpiRendezvousProofs` | theorems about a slave and a patient master; the refinement of `Rendezvous` | `SpiLinkProofs` |
| `Rendezvous` | abstract: a slave's offers, exchanged and told of | |
| `PinNetwork` | wires, conversions of gpios, levels | |
| `PinNetworkProofs` | theorems about wires and pointers | `PinNetwork`, TLAPS |
| `PinLevelsProofs` | theorems about levels | `PinNetworkProofs` |
| `GpioIrqs` | gpio irqs from one main function to the handler of the other unit | INSTANCE `PinNetwork`, `IrqController` |
| `GpioIrqsProofs` | theorems about the composition | `GpioIrqs`, TLAPS; INSTANCE `PinNetworkProofs`, `IrqControllerProofs` |
| `MCIrqController`, `MCLifecycle`, `MCSpiLink`, `MCPinNetwork`, `MCGpioIrqs` | values of the constants for TLC | each its module |

Definitions keep the names of the functions and fields they model; where one
function is several actions, each action is one access to shared state (or
several, when no other thread can tell), and `PROJECT.json` ("map") names
the lines. Definitions whose comment says *faulty variant* are not part of a
specification: each is what a plausible mistake would make of the action that
follows it, and the properties are known to fail with it.

**IrqController.** A raise is three steps: the enable bit is read, the irq is
linked into the set (`Insert`), the thread is signalled (`Kill`). `Insert` keeps
what other contexts linked between the read and the write of the tree (`since`):
two such insertions overlap, without a lock, and may lose one another's nodes; a
handler that is walking the tree may then skip or revisit any node (`todo` becomes
any set of nodes). `pthread_kill` queues the signal or is refused. The kernel counts the
queued real-time signals of a user over all his threads and processes, so that
there is room for one only if no thread's queue and no two queues together have used up the
limit (`Room`), and a signal may be refused although its thread has none queued, because of
the other unit's or, where `Crowded`, of another process's. The result of
`pthread_kill` is ignored, and the raiser goes on. The ghosts are `owed` (raised,
not handled since), `clash` (controllers where insertions overlapped), `refused`
(controllers whose last signal was refused with none queued: their irqs stay in the set,
and the next signal that is accepted serves them all, `WaitsForSignal`) and `credit` (raises
not yet answered by a run of the handler).

**InterruptLine** is what a controller promises where one context raises its irqs
(`Sole`): a raise makes *every* line that was ever raised due, as nothing leaves the
pending set, and what is due is served. When the kernel refuses a signal (`Refuse`) the lines
of that controller wait, still latched, until it accepts one (`Accept`). The refinement mapping (`Line`) reads the
latched lines from `pending_irqs`, and the due ones from the walk in progress, the
signals in the queue and the context that is about to send one (`WillHandle`).
`ImplementsLine` is the safety part, for which the module assumes no fairness;
`LinesServe` of `SpiLink` is the whole of it: what is owed is served, or a signal is refused.

**Lifecycle.** The API functions are sequences of steps (`Script`), taken by one
caller; a unit's thread goes boot, sigaction, register, gate, check, main,
exited. A main function is the sequence of the library calls it makes. Faults are
failing calls: `pthread_create`, `pthread_setname_np`, and a configuration that
does not load. `fault` is how the process died.

**SpiLink.** One action for each access the other thread or the signal handler can
tell apart. A buffer is the index of the call it was given to. The steps of
`local_raise` and of the signal handler are `IrqController`'s (the instance `Irqs`), with
one irq per device; the signal handler excludes the steps of the thread it interrupts.
`Plan` gives the calls of each main function; a device does not post again until it
was told that its last posting is over (`posted` is the last call that posted with a
callback, `Posted` that nobody has called back yet). It may be told too early, by a spurious wakeup
or by the irq of an earlier exchange that finds the new callback. The ghost `early` has
the devices this happened to: they may post again while the master is inside
`xmit_locked`, whose mutex is not theirs, and get null buffers exchanged or the new
posting cleared. The properties of the exchange except these devices and no others; a
slave that never posts with a callback is not among them (`WaitingSlaveInOrder`, proved).
The ghost `missed` has the masters that found nobody listening when they last looked; they
return a size, too.

**Rendezvous** is what two devices promise the slave: its posting is on offer as a
whole, an exchange takes it as a whole and at once, and the slave is told of each
exchange once, after it, and certainly. In the mapping (`Meeting`) an offer begins with
`is_listening` and ends with the copy; the slave is told when its call returns or
its callback runs. The code keeps this promise to a slave that has come to
rest (`Patient`); without that it does not, as `SpiLostWakeup` and `SpiStale` show.

**PinNetwork.** Loading is sequential, on the caller's thread; then each unit's
thread converts gpios and sets levels, one element of a list at a time and whenever
it likes, so that conversions interleave with walks and with one another. A pin
object has an identity of its own: an irq is not the gpio it replaces. Two ghosts:
`overlap` is set when both units are at work on one wire and one of them is
converting its end, which is the one case in which a deleted pin may be followed,
and the exception in the properties; `fresh` has the irqs whose level was not set since
their conversion, which does not take over the level of the gpio. `LevelsAgree` is about
pins with one driver: where both ends of a wire are driven, or a pin by two others, what it
carries depends on who was last.

**GpioIrqs.** A unit's thread is the main function of the tests: it converts gpios,
calls `set_ready`, waits for the other unit, then sets levels. `on_change` of
`PinNetwork` and `local_raise` of `IrqController` are one step, as they are on one
thread with nothing shared in between. A signal handler stops the steps of
its own unit's thread and may run while this waits. The ghost `seen` is the level
a handler finds when it runs.

### Abstractions

* Each thread's accesses happen in program order and are seen in that order: the
  build sets no optimisation level and the program runs on x86.
* C library: unlocking a mutex that is free or another thread's leaves it free;
  a second join of a thread returns an error (POSIX leaves it undefined, glibc returns
  `ESRCH` or `EINVAL`); signals are queued up to a limit of the user, which all his threads and
  processes share, and blocked while their handler runs; a signal to a thread that has exited
  is lost; a condition may wake up spuriously where `Spurious` says so.
* The build has the address sanitizer: a use after free ends the program.
* `std::set` and `std::vector` are modelled by what their operations promise, and by
  any outcome where unlocked insertions overlap.
* One system exists at a time. After a create that failed no other one is tried.
* Contents of buffers, JSON text, messages and stack traces are left out.

## 4. Runs

Passing runs.

| run | instance | shows |
|---|---|---|
| `IrqShared` | two irqs of the host; one context raises them on the host and, by `dest_raise`, on the soc, where the other one raises them as well; a limit of one queued signal for both threads, and refusals at any time; the soc has no destination, as after a late start of its thread | `NoLostInterrupt`: while insertions do not overlap, an irq that was raised and not handled since is in the set, and a walk will reach it, unless the last signal was refused with none queued; then it waits in the set. `SoleRaiserLosesNothing`: where a controller has one raiser, as both have in the tests, and as the host has here, insertions never overlap, though new nodes are linked during walks: only a refused signal delays an irq. `ImplementsLine`: such a controller is an `InterruptLine` |
| `LifeAny` | all orders of calls, all faults, two systems, reused `pthread_t` | `InterruptsFindHandler`, `MainNeedsStart`, `NoUseAfterFree` |
| `LifeHang` | stops at any time, units that meet twice | `HangsOnlyIfSkipped`: an API call hangs only when a stop overtook a start, or when a unit waits a second time for a ready mutex that the first wait has kept. `MainCompletes`: nor does a main function fail to end otherwise |
| `SpiRace` | a slave that waits, posts and waits again, three transfers of the master, sizes 0 and 1, any timing, spurious wakeups, refused signals | `ExchangesPair`, `CopyIsInTime`: master and slave hold different mutexes, and still only a slave that was told too early can spoil an exchange (the run reaches this case: without the exception both fail). `MasterReturnsExchanged`: a master's call made one exchange, of the size it returns, if the slave was listening when it looked, and none otherwise, whatever the slave does between the look and the copy (both reached). `CallsReturn`: no call blocks but in the wait for an exchange, or in the mutex that an earlier wait left locked (also reached) |
| `SpiPatient` | two postings with callbacks, one wait, a patient master, signals not refused | `CallbackReports`, `SlaveReturnsExchanged`; `ImplementsRendezvous`: flag, mutexes, condition and irq amount to an atomic exchange; `LinesServe`: the irqs of both devices are lines that are served |
| `PinWires` | 6 gpios, both spi devices, a connection given twice and one to unknown pins; 3 conversions, at both ends of one wire too, and levels from both units at any time, a pin with two drivers | `WiresHold`, `LevelsAgree`, `SpiBothOrNeither`, `NoStrayPointer`, `RaisedHasHandler`, each unless both units were at work on one wire during a conversion (reached: without the exception they fail) |
| `GpioIrqs` | two wires, an irq on each unit, a driver on each unit; a limit of two queued signals for both, and refusals at any time | `UnitsKeptApart`: with the ready mutexes `overlap` never happens, so that the exceptions of `PinWires` do not concern a program that uses them. `HandlersUpToDate`, `LevelReachesHandler`: no level is lost on its way, and each is seen or replaced, unless the unit's last signal was refused with none queued, or the driving thread is flooded with interrupts for ever. `OneRunPerLevel`: one irq on a unit runs at most once per level, as the tests count (with two it does not: `IrqRerun`) |

Runs that show a disagreement of the code with its documentation or tests
(`PROJECT.json`, "findings", has the quotes):

| run | property violated | what happens |
|---|---|---|
| `IrqRerun` | `HandlesOnlyRaised` | nothing leaves the pending set: the next signal, whatever it is sent for, runs the handler of an irq that was handled already |
| `LifeRegister` | `FreshThreadRegisters` | the second system's thread gets a `pthread_t` that is still in the map |
| `LifeDest` | `DestStaysSet` | the thread's `start()` clears the destination the constructor set |
| `SpiLostWakeup` | `PostingsComplete` | the condition is signalled before the slave waits |
| `SpiStale` | `CallbackReports` | the irq of the previous exchange runs the next posting's callback, also with a patient master |

Four more defects met while modelling have no run of their own; they are among the
hazards: the result of `pthread_kill` is ignored, so that an irq whose signal is refused
waits for the next one, maybe for ever (`IrqController.cpp:86`, `:95`; it is the exception
`refused` of the properties); a configuration that does not load terminates the process
(`src/src/hwmocker.cpp:57`); an exchange between the assignments of `is_listening`
and `slave_callback` loses the callback (`SpiDevice.cpp:148`); and a master
that finds nobody listening reports success (`SpiDevice.cpp:113`; `MasterReturnsExchanged`
says exactly when).

### Bounds

* `SigMax`, the signals the kernel queues for the user: 1 or 2. The properties
  distinguish no signal queued, room for another one and no room; the proofs hold for
  every value.
* `Crowded`: other processes may have used up this limit, so that a signal may be refused
  at any time. True wherever the properties name refused signals; in `SpiPatient`,
  `SpiStale` and `SpiLostWakeup` it is false, as their questions are about signals that
  arrive. In `SpiPatient` only one thread is signalled, and never has two signals queued, so that
  the limit itself refuses none.
* `FewStates` ends the exploration of `IrqShared` at a state in which `enableIrqs` has put
  its flag up, or in which all irqs are in all sets, since no new node is linked then. It
  keeps the states where the host has both irqs in its set while the soc has one, and those
  where insertions overlap on the soc. The call of `enableIrqs` is checked, what follows the signal it
  then sends is left to the proofs.
* `PlainSpec` of `IrqRerun` leaves out the walks that come back to a node, and the signals
  that `enableIrqs` sends: what it finds comes from the set that stays as it is. With a set that
  the handler empties it finds no violation.
* `CreditMax`: 0 switches the ghost off; `IrqRerun` needs no more than 3.
* `GenMax`, systems created: 2 is enough for what one leaves to the next.
* `Tid`: two threads at a time; a third value makes both fresh values and reuse
  possible. `LifeHang` has no reuse, since its question is another one than that of
  `LifeRegister`, which would end its behaviours early.
* `Sizes`: two unequal ones make the smaller one matter: 1 and 2 in `SpiPatient`, 0 and 1
  in `SpiRace`.
* `Patient`: the master starts a transfer only when the slave listens and has come
  to rest. It stands for the delays of `test_spi.c` (10 and 100 ms) being long enough.
* `Plan`: each main function has the calls that make its questions arise. `RacePlan` has
  a second `sync_xfer` of the slave, `MixedPlan` two callbacks before a wait, `TestPlan`
  and `WaitPlan` are `test_spi.c` and its first exchange alone.
* `allirqs_enabled` is fixed in `SpiLink` and `GpioIrqs`, as nothing that the C API offers reads
  it; `IrqController` leaves it uninitialised.
* `Convert`, `Drive` of `PinWires`: three pins of six become irqs, so that wires with no,
  one and two converted ends occur, and three are driven: two drivers of one pin, and
  an irq driven by a gpio.
* `GpioIrqs`: `SigMax` and `CreditMax` are 2, so that a level may be set while the signals
  of two earlier ones are queued. Signals are refused as the kernel does; an irq
  whose credit reaches `CreditMax` keeps it, and `OneRunPerLevel` says no more of this irq.

Deadlock is checked in `IrqShared`, `IrqRerun` and `GpioIrqs`. It is not where the program
ends, dies, or may wait for a user who does not come: a unit whose thread followed a
deleted pin (`PinWires`), a main function that waits for a unit that never gets ready, or a
slave whose master makes no more transfers. The liveness properties say which of
these waits must end.

### Fairness

The operating system runs every thread that can run, and delivers queued signals:
weak fairness for each thread's steps, and for the steps of the signal handler.
A mutex is free for long enough: none of the waits needs strong fairness, as nobody
takes the same mutex again and again. No fairness is assumed of the user: nobody has
to raise, mask, or make another call of the API.

A signal that is queued when the handler returns is delivered before the thread goes
on. A unit that is interrupted without end therefore never finishes the call it
is in, and weak fairness of the thread does not help, as its steps are not continuously
enabled. The scheduler does not exclude this, so `LevelReachesHandler` does not either: it
names this case instead of assuming strong fairness.

## 5. Proofs

`IrqControllerProofs` proves, for all sets of controllers, irqs and contexts, all
`Home`, `Dest` and `Reach`, and all limits:

* `TypeCorrect`: `Spec => []TypeOK`.
* `NoInterruptLost`: `Spec => []NoLostInterrupt`. With `TypeOK` the invariant is inductive
  as it stands. The argument: `Insert` makes the irq owed and its own context
  about to signal; `Kill` queues a signal, which starts a walk that begins with the
  whole set, or is refused. If a signal is queued for that thread, the refusal relies on
  it; if there is none, the controller enters `refused`, and the irq is in its set. A walk only
  removes what it has handled; and only an insertion with other insertions inside it removes
  a node, which puts the controller in `clash`.
* `SoleRaiserSafe`: `Spec => []SoleRaiserLosesNothing`. The additional invariant
  `NoOverlap` says that a context that is linking may reach its controller, and where
  that controller has one raiser nothing came in between (`since` is empty): an
  insertion that found another one in progress there would be a second raiser. So
  such a controller never enters `clash`, and `NoInterruptLost` applies to it.
* `LinesImplemented`: `Spec => ImplementsLine`, the refinement of `InterruptLine` by every
  controller with one raiser. It needs both invariants and a third one,
  `WalkInSet`: a walk visits nodes of the set only. One lemma per action gives the
  abstract step. `Insert` is `Raise`: by `NoOverlap` the tree is written as it was read, and
  the raiser, which has yet to signal, makes the whole set due. `Kill` leaves what is
  due as it is, or is `Accept`, when it queues a signal: this replaces the raiser's promise to send
  one. Refused with a signal queued, it changes nothing; refused with none, it is `Refuse`,
  after which only the rest of a running walk is due. The start of a walk moves the whole set from the queue to the walk; `handle`
  is `Serve`, after which the irq stays due if a further signal is queued.
  `enableIrqs` signals its own thread and is `Strobe`. Steps on other
  controllers stutter, with whatever overlaps there.

Assumed of the constants: `Maskable` is a set of irqs, `Home` gives each irq a controller,
`Reach` gives each context a set of controllers, `SigMax` is positive, `Crowded` true or false,
`CreditMax` a natural number. Nothing is assumed of `Dest`: a controller without a destination is not
raised on, as the program dies there.

`LifecycleProofs` proves, for all main functions (`Program`), all orders of calls
(`Follows`), all sets of faults, any reuse of `pthread_t` and any number of systems:

* `TypeCorrect`: `Spec => []TypeOK`.
* `MainIsStarted`: `Spec => []MainNeedsStart`.
* `HandlerIsFound`: `Spec => []InterruptsFindHandler`.
* `NothingFreedIsUsed`: `Spec => []NoUseAfterFree`.

None of the last three is inductive. The invariant `IInv` ties the caller's place in
its call to the state of the units: what `create` has made so far (`Building`), what the
other calls find (`Constructed`), and what `destroy` has joined before each `delete`
(`Ended`). For the threads it says that a unit is released by a start only
(`NotReleased`: until `start` the `stopped` flag sends whoever passes the gate to the
exit), that a thread past `register` is in the map under the identity it has, with the
signal action installed (`Registering`), and that a ready mutex is opened only by a main
function (`Handshaking`). So a unit that waited for its peer signals a thread that is
past its registration. One lemma per action shows that it keeps the invariant;
`LifeAny` model-checked it first. `Registering` is where a `pthread_t` that is used
again could do harm: `register` kills the process then (`LifeRegister`) instead of
leaving a thread unregistered, so that the theorems hold with reuse, too.

Assumed: the two units differ; the caller creates exactly after a destroy
(`FollowsAssumption`, one system at a time); `GenMax` is a natural number.

`SpiLinkProofs` proves, for all plans, sizes, timing and limits on signals, and
masters at both ends too:

* `TypeCorrect`, `ExchangesArePairs` and `CopiesAreInTime`: the properties of `SpiRace`
  that are not liveness. `SlaveReturnsItsOwn`: the size a slave's `sync_xfer` returns is
  that of the exchange of its own buffers, with the same exception.
* `WaitingSlaveInOrder`: without spurious wakeups a slave that never posts with a callback
  is never told too early, however impatient the master, so that the exceptions do not
  concern it. `SpiLostWakeup` is what remains: it may not be told at all.
* `MasterExchanges`: `Spec => []MasterReturnsExchanged`, for any timing. Its invariant
  `Certain` follows the master from its look at the flag: until the copy it has made no exchange,
  after it exactly one, of the size that it holds; and if it looked in vain, it makes none. No
  step of the other device, which may be a master too, changes this, not even
  one that takes back the posting in between.
* `IrqsReachPeer` and `LinesImplemented`: the link follows the specification of
  `IrqController` (`IrqsFollowController`), so that the theorems of
  `IrqControllerProofs` hold of its irqs, each of which has one raiser. The exception is theirs,
  too: a signal that is refused with none queued, which with masters at both ends may be
  due to the signals of the other device.

The inductive invariant `IInv` has three parts for each device. `Placed` ties the thread's
place in its call to its plan. `Rest` holds always: posted buffers, callbacks and contexts
belong to calls that were made, and whoever copies has seen the flag. `Sound` is what holds
of a device until it is told too early: while it listens, its buffers are those of one
posting that was neither exchanged nor told (`ListensToOffer`). This is needed because the
master clears `is_listening` after the copy and under a mutex the slave does not take; in
between the posting is gone and the flag still up, and only the slave's waiting
keeps it from posting again. Where it does not wait, because it was told too early, `Sound`
is lost for good, which is why `early` is never reset.

`SpiRendezvousProofs` proves, for one slave and one master (`OneMaster`) that is patient,
and a slave that posts with callbacks before it first waits, not after (`CallbacksFirst`):

* `CallbacksReport`: `Spec => []CallbackReports`, with spurious wakeups, too.
* `SlaveExchanges`: `Spec => []SlaveReturnsExchanged`, without spurious wakeups.
* `LinkIsRendezvous`: every step of the link is a step of `Rendezvous` or a stutter, the
  safety half of `ImplementsRendezvous`, without spurious wakeups.

The invariant `MeetInv` follows a transfer from the master's look at the flag to the end of
the slave's handler: nobody interrupts the master (`MasterServes`); the slave stays at rest
until it is told (`SlaveStays`); every irq on its way is that of the last posting, and
there is only one (`IrqReports`); the patient master finds the slave listening, so that its
call makes an exchange (`MasterFinds`); the callback stored is the one of that posting
(`CallbackStored`). The hypotheses are needed: without `Patient` the irq may come
between the assignments of `slave_callback` and `slave_callback_ctx`; without
`CallbacksFirst` the irq of a synchronous exchange runs the next callback
(`SpiStale`); and a spurious wakeup ends `sync_xfer` before there was an exchange. The
instance of `SpiPatient` satisfies all of them.

Assumed of the constants: there are two devices, a plan is a sequence of the four
operations, sizes are natural numbers, `SigMax` is positive.

`PinNetworkProofs` proves, for all pins, connections, conversions and driven pins:
`TypeCorrect`, `SpiPairs` (`SpiBothOrNeither`), `WiresKept` (`WiresHold`), `PointersHold`
(`NoStrayPointer`) and `RaisedIsHandled` (`RaisedHasHandler`). A conversion replaces an
object in the list of one peer after another, so that for a while the lists of
different peers hold different objects for one pin. The invariant tells the numbers
of pins, which stay, from the objects that stand for them. `Shape` holds always: types,
the thread's place, connected pins are the other unit's. `Wires` holds until both units
were at work on one wire: what a list has for a number is the object that stands for
it there (`WellNamed`, `Name`: the new one in the lists the constructor has been through);
a number is in a list once, and in both directions (`NumberedOnce`, `BothWays`); the
irq under construction has the first peers of the gpio it replaces (`HalfBuilt`); a pointer
that was read is still in its place (`PeerInPlace`); the other unit's thread is not on a peer
of the pin being converted (`KeptOff`, from `~overlap`). With these a list never holds a
deleted pin when it is read, and the constructor finds the gpio in its peer's list, so that
neither use after free nor a write behind the list is possible. Assumed: the units differ, pins
have numbers, spi pins are four or none, connections are pairs of numbers.

`AskedInvariant` adds that only pins that were asked for are converted, and that wires
are connections of the configuration (`Drawn`, while the wires hold).

`PinLevelsProofs` proves `LevelsFollow`: `Spec => []LevelsAgree`. The invariant `LevInv` says of
two numbers, of which one is the only driver of the other and is not driven (`SoleDriver`),
that their levels agree unless `change` has yet to come to the second one (`Waits`),
or one of them is a new irq whose level was not set (`fresh`). A unit within `change` passes on the level
that was set, which is that of its pin unless another pin drives that (`PassesLevel`,
`Undriven`). The step that needs care
is a conversion while the other unit is within `change` on another wire. A driver that is
itself driven is an exception of `LevelsAgree`, and has to be: `on_change` sets its level
and passes it to nobody.

`GpioIrqsProofs` proves, for all pins, connections, conversions and limits on signals:

* `TypeCorrect`: `Spec => []TypeOK`.
* `UnitsApart`: `Spec => []UnitsKeptApart`, where no wire has irqs at both ends
  (`OneIrqPerWire`). So `overlap` stays false, and the theorems about pins hold of such a
  program without their exception.
* `HandlersFollow`: `Spec => []HandlersUpToDate`, where in addition no unit drives a pin that
  interrupts it (`IrqsAreInputs`); with the exception of a unit whose last signal was refused.
* `RunsOncePerLevel`: `Spec => OneRunPerLevel`, without either.

The composition follows the specifications of both its parts (`PinsFollow`, `IrqsFollow`), so
that their invariants are used and not proved again. What is new is what ties them
together. `Carried`: the irqs in the set and in the walk of a unit were raised, are its own,
and came from the other unit's thread. `Phases`: a unit drives only when the
other one's setup is over, as its ready mutex was open. Two units in setup may
convert at the same time; that they do not meet on a wire follows from `Asked`, `Drawn` and
`OneIrqPerWire`. `Heard`: a level that the handler has not seen is owed to it or about to
be inserted by the thread that set it, and what is owed will be handled, or waits for the next signal (`SoleRaiserSafe`).
`Counted`: the signals of a unit with one irq that are queued or about to be sent, and
its run in the walk in progress, were all paid for by raises. It also says that while a
signal is coming or a walk is running the irq is in the set already: a new node, linked
into the tree during a walk, could be walked again.

Both hypotheses are conditions of a sensible configuration, and the instance `MCGpioIrqs`
satisfies them. With irqs at both ends of a wire both units convert it in
setup, which can end in a use after free (`PinWires` reaches it); and a unit that drives its own irq pin
changes the level without raising the irq. Assumed of the constants: those of `PinNetwork`,
finitely many conversions, positive `SigMax` and `CreditMax`.

Model-checked only: liveness (`HangsOnlyIfSkipped`, `MainCompletes`, `CallsReturn`,
`LevelReachesHandler`, and the fairness of the abstract modules in `LinesServe` and
`ImplementsRendezvous`, of which the theorems above have the safety), which is out of the
prover's reach. The violated properties of the five runs that end in a counterexample are
false and have no theorem.

## 6. Not modelled

* `irq.cpp`: `src/src/CMakeLists.txt` does not build it, and it does not compile: it uses
  fields that `struct hwmocker` does not have. Apart from declaring an irq its operations have
  no defined behaviour: the list they use lies in memory from `calloc` that no
  constructor ran for, and the signal number they send is never set.
* The JSON parser and the text of configurations, stack traces, the build.
* Callbacks and irq handlers make no library calls of their own. One that posts the next
  transfer from the handler may find its own thread inside the same mutex
  (`SpiDevice.cpp:43`); no test or document of the repository does so.
* More than two units, or two systems at once, do not occur in the API's documentation or
  tests.

Hazards that are listed without a property, for the reason given there: what enabling
means between raise and handling (`IrqController.cpp:100`), `pthread_kill` on a thread
that has exited (`:86`), a configuration that does not load (`hwmocker.cpp:57`), a master that
posts and is never served (`SpiDevice.cpp:135`), and the callback above.
