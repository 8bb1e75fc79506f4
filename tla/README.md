# refault: a verification project

refault is a deterministic simulation framework for asynchronous Rust programs:
a single-threaded executor with nodes that can be stopped and restarted,
simulated time, a simulated packet network, an RPC layer on top of it, and a
check that two runs of a simulation produce the same trace. This directory holds
TLA+ models of its core, TLC configurations that check them on small instances,
and TLAPS proofs for all instances. Line numbers refer to `src/src/*.rs`.

## Inventory

| Component | State | Operations | Talks to |
| --- | --- | --- | --- |
| Executor (`executor.rs`, `node_id.rs`) | `ready_queue`; `tasks`: id to a cell with the future; `TaskShared.state` (six values); per node a run level and the set of its tasks; `final_stopped`; `current_node` | spawn, wake, abort, poll/reap (main loop), create/stop/start a node, `stop_simulation` | user futures and their destructors, simulators, time |
| Lifecycle (`sim_builder.rs`, `context_install_guard.rs`, `lib.rs`) | thread-local context, result of the root future | install, run `f`, spawn the root task, run the loop, destroy | executor, simulators, event handler |
| Time (`time.rs`) | `upcoming_events` (priority queue keyed by address), `now`, the intercepted clock, a four-state machine per `Sleep` | create, poll, drop, advance and wake | executor |
| Network (`net.rs`) | map from address and packet type to a bounded inbox; a delivery task on `INIT` per packet | open, close, send, receive, drain on start | executor, time, simulators |
| Simulators (`simulator.rs`) | list of `Option<Box<dyn Simulator>>`, index by type, per-node lists | add, with, notify all | executor, user callbacks |
| Event traces (`event.rs`) | recorded trace or hash, position | record, validate, finalize | executor, time, nodes |
| Ids (`id.rs`) | one counter | `Id::new`, `IdRange::new`, `get` | everything |
| RPC (`tower.rs`) | responders by id, two tasks per client | call, send task, receive task, server loop | network, executor |
| `NodeBound`, `SimBound` (`send_bind*.rs`) | thread anchor, node | wrap, access, drop | lifecycle, node scope |
| agnostic-lite adapter, libc interception | none of their own | adapters | executor, time |

### What is hard here

There is one thread, so no data races; the difficulty is *re-entrancy*. The main
loop polls a future, the future aborts another task, whose destructor stops a
node, whose stop loop drops further futures, whose destructors spawn, abort,
restart the node or stop the simulation. Simulators are notified in the middle
of that. All library loops run over snapshots that the nested calls invalidate,
the future of the task that is executing is in none of the data structures, and
parts of the code run while the context's `RefCell` is borrowed. On top of that
come orders that tests seldom produce: a `Sleep` moved between tasks, dropped
while it is queued, due exactly now; packets in flight over the restart of their
receiver; a full inbox. A panic of user code unwinds through all of it: the guards
of the library run destructors, notify simulators and emit events while it does, and
a second panic ends the process. `PROJECT.json` lists the hazards line by line.

### What makes each component correct

* Executor: the queue, the map, the cells and the state word agree at every
  step; no internal assertion can fire whatever user code does; futures run and
  are dropped on their own node; a stopped node is quiet; the handle reports what
  happened; the shutdown leaves nothing behind; nobody starves.
* Time: the queue holds what waits; no wake-up is early, missed or late; time
  moves only when nothing can run; the two clocks agree.
* Network: a socket owns its inbox; nothing crosses a restart; messages arrive at
  the instant asked for and at most once; nothing stays in flight.
* Simulators: every simulator is back in its place after a notification or an
  access, and knows which nodes run; the teardown finds the ones it needs, also
  while a panic unwinds.
* Traces: a deviation is detected at the first event that differs, and nothing
  else is reported. Wrappers: a value is touched only on its own thread and node.
* Ids: unique. RPC: every call is answered once or fails.

## Modules

**`Executor`** models `executor.rs` with the node operations, the root task and
the teardown. The variable `stack` holds the activations above the main loop. A
frame of *user code* (`init`, `poll`, `drop`, `enddrop`, `callback`, `simdrop`)
may make any API call, any number of times, before it returns; a frame of
*library code* (`stop`, `stopall`, `time`) is a loop that called out and goes on
with its `todo` afterwards. `curNode` is saved and restored by the frames as
`node_scope` does. The frame `enddrop` is the destructor that the main loop runs
inside `with_cx`; there any call that borrows the context panics. Actions
correspond to the code as follows.

| Code | Actions |
| --- | --- |
| `spawn_task_on_node`, `Executor::spawn` | `Spawn`, `NewTask` |
| `wake_by_ref` | `Wake` |
| `abort_inner`, `abort_local` | `Abort`, `abort_local` |
| `create_node`, `start_node` | `CreateNode`, `StartNode` |
| `stop_node` | `StopNode`, then `StopNext` per task of the snapshot, then `StopNotify` |
| `stop_simulation` | `StopSimulation`, `StopAllNext` per node, `StopAllReturn` |
| `for_all_simulators` | `NotifySimulators` |
| `run_current_context` | `RunReady`, `Reap`, `PollPending`, `PollReady`, `AdvanceTime`, `BreakLoop` |
| `SimBuilder::run` | `InitReturn`, `RootReturn` |
| `ContextInstallGuard::destroy` | `BreakLoop`, `DropSimulators`, `Finalize` |

A panic that the code raises on misuse (spawning on a stopped node, a nested
notification, a call under the borrow) ends the simulation: `panic` is set. The
code's own `unwrap`, `assert!` and `unreachable!` are the operators `*Fails`, and
`NoInternalPanic` says that they are out of reach. Task ids are the only ids
counted. Abstracted: what futures compute, tracing, and the event handler, which
is the one of `DeterminismCheck::None`.

**`TaskLife`** is what the executor promises: tasks that are spawned, run one at a
time on nodes that are up, and either complete or are cancelled, once.
`Executor` implements it (`RefinesTaskLife`).

**`Runtime`** extends `Executor` with `time.rs`. A `Sleep` is an address with a
state, a deadline, the task whose waker it holds and the task whose future owns it
(or nobody, if it is shared). The steps of `Executor` that leave time open,
`AdvanceTime`, `TimeReturn` and `BreakLoop`, are tied to the queue of events here.
The destructor of a future drops the Sleeps that the future owns before it
returns. Equal deadlines are popped in any order, which is what the priority queue
promises. A Sleep that has returned `Ready` is not polled again.

**`Net`** models `net.rs`. It assumes of executor and clock what `Runtime`
establishes: delivery tasks run in the order in which they were queued, time moves
to the next deadline when nothing is ready, the order of equal deadlines is
arbitrary. `Perfect` chooses between `perfect_connectivity` and any other
`SendFunction`: it enqueues any number of copies of a packet, each for an instant of
its own, in any order, twice for the same one, or for one that has passed. In the place
of a copy it may enqueue an error, which goes through the same `Inboxes::enqueue` and
is received in the same way, so the model does not tell them apart. `SendForeign` is
the assertion that the sender is on its own node. What the `SendFunction` returns to
the sender is left to `Tower`. A stop of a node drops any subset of its sockets and
receive futures, since others may be owned elsewhere.

**`Tower`** models `tower.rs`: a `Client` with its send task, its receive task and
the map of responders, and `run_server` with the tasks it spawns. The network
appears as `Net` leaves it for packets of the default service level
(`net.rs:42`): at most once, in any order, lost if the inbox is missing or full.
The constant `Faults` selects what the `SendFunction` does beyond that: lose
packets, return an error, return a pending future, inject errors. The caller's
future is `Call`, `Start`, `Cancel`; the send task `SendTask` and `SendDone`; the
receive task `RecvTask`; the server `ServerReceive`, `ServerReady`, which is the end
of the `await` of the service's `poll_ready`, and `Reply`, with `ServerStop` and
`ServerStart` for its node. A send that returns an error may have put the packet in
flight or not (`Refuse`), since the `SendFunction` decides on both.

**`Ids`** models `id.rs` over a counter of width `Modulus`; `Checked` says whether
overflow checks are compiled in.

**`Simulators`** models `simulator.rs` and the teardown of
`context_install_guard.rs`, with any number of simulators, some of them `PerNode`.
`stack` is again a stack of frames; each frame of user code may call the registry
or panic. A simulator that a frame holds is missing from its slot, as in the code,
where `with` takes it out (`With`, `WithReturn`) and `for_all_simulators` swaps it
out (`Visit`, `CallReturn`). `Add` has both assertions of `add_simulator` in their
order, and what the second one leaves behind. `CreateNode`, `StopNode`, `StartNode`
and `StopSimulation` are the calls of the executor that notify, reduced to what
the registry sees of them. A panic unwinds the frames one at a time (`Unwind`): a
frame of `with` puts its simulator back, a frame of a notification does not; the
guard's `destroy(false)` then runs while the thread unwinds. `BaseReturn`,
`StopAllNext`, `PopSimulator`, `DropReturn` and `Finish` are `destroy`. The history
variables `lost`, `refused` and `overtaken` record which slots a panic emptied, which
types were registered twice and which nodes were started during their own stop.

**`Builder`** models `SimBuilder::run_simulation` with the event handlers of
`event.rs`. One behaviour is the whole call: `iterations` runs, each on a thread of its
own, installed (`Install`), run (`Emit` adds an event, `UserPanic` ends it) and torn
down (`Finalize`), with the handler's output carried to the next run. `check` is the
`DeterminismCheck`. What a run emits is arbitrary, so TLC tries every pair of traces.
`Hash` is an arbitrary function of the events fed to the hasher: a constant, in the
run one that makes some traces collide.

**`SendBind`** extends `Builder` with `NodeBound`, `SimBound` and the `ThreadAnchor`
of the installed context. A wrapper is a record of its kind, the anchor or node that it
compares, and its run; `Values` may be made, moved, used, unwrapped, cloned and
dropped by whoever can reach them (`Reaches`): tasks on a node of the current run,
and for what is `Send` also later runs and the thread that called `run`. The kind
`"simnode"` is `JoinHandle` of the agnostic-lite adapter, a `SimBound` around a
`NodeBound`. Failed checks panic, and abort where the code says so.

**`ExecutorProofs`**, **`TaskLifeProofs`**, **`RuntimeProofs`**, **`IdsProofs`**,
**`NetProofs`**, **`TowerProofs`**, **`SimulatorsProofs`**, **`SendBindProofs`** hold
the theorems.
**`MCExecutor`**, **`MCRuntime`**, **`MCNet`**, **`MCTower`**, **`MCIds`**,
**`MCSimulators`**, **`MCSendBind`** are the
modules TLC runs. Operators whose comment
begins with "Mutant" are faulty variants of the definition that follows; they
show that a property fails when the code is changed, and no specification uses
them.

## Runs

| Run | Instance | Checks |
| --- | --- | --- |
| `executor` | 3 tasks, 2 nodes, no simulator (808000 states) | the bookkeeping (`TablesExact`), `NoInternalPanic`, `OwnNodeScope`, `StoppedNodesQuiet`, `OutcomeExact`, `ShutdownComplete`, `RefinesTaskLife` |
| `executor_simulator` | 2 tasks, 2 nodes, a simulator, fairness | `IndInv` and `RefinesTaskLife` through notifications that re-enter the executor; `QueueDrains` |
| `runtime` | 2 tasks, 2 Sleeps, instants 0 to 2 (2.4 million states) | `UpcomingExact`, `DeadlinesExact`, `PromptWake`, `TimeWaitsForTasks` |
| `net` | 2 nodes, 2 packets, at most 2 deliveries in flight, for the instants 1 and 2, 2 sockets, 2 starts per node, inboxes of 1, fairness (609000 states) | `SocketsOwnInboxes`, `NoMessageOverRestart`, `OnTime`, `AtMostOnce`, `CopiesKept`, `DeliveryHappens` |
| `tower` | 2 calls, 2 failures, inboxes of 1, every fault, fairness (77000 states) | `RightAnswer`, `WaitsForSomething`, `ResponderKept`, `CallEnds` |
| `ids` | 3 ids or ranges of any length, a counter of 4 bits, overflow checks | `UniqueIds` |
| `simulators` | 2 simulators, one a `PerNode`, 3 nodes, 3 nested frames (635000 states) | `TypeOK`, `SlotsExact`, `RegistryExact`, `PerNodeComplete`, `ViewsAgree`, `TeardownOrder`, `CleanupSucceeds` |
| `send_bind` | 3 runs of up to 2 events, 2 values, 2 nodes, each `DeterminismCheck`, a hash with collisions | `ValidatedPrefix`, `NoFalseAlarm`, `AllRunsCompared`, `HomeThread`, `HomeNode`, `PinKept` |
| `executor_borrow`, `executor_notify`, `net_order`, `tower_error` | small | statements of comments and documentation that the code does not satisfy |

Bounds. Three tasks are enough for a task that executes, one it aborts, and one
that the destructor of the second aborts or spawns; two nodes for a call that
crosses nodes in both directions; the depth of nested calls is not bounded except
by the number of tasks and nodes. Two Sleeps give equal and different deadlines,
a Sleep that is dropped while another is due, and the reuse of an address; two
instants after the start let time advance twice, with Sleeps created in
between. Two packets, or two copies of one, overflow an inbox of one slot; two
deliveries in flight (`MaxInFlight`) have equal or different deadlines, are woken in
either order, and one may be enqueued for an instant that has passed; a third copy is
allowed once one of them was delivered. Two calls give a response
that overtakes another or meets a call that was given up, and overflow inboxes of one
slot; two failures let a server fail, restart and fail again, or take the client down
as well. Two simulators give a notification that has told one and not the other, in
both orders of registration; three nodes a creation nested in a creation; three frames
a callback that borrows the other simulator, or a destructor that stops a node while
the teardown stops another.
Three runs give one that records and two that validate, each with a handler of its own
(`sim_builder.rs:152`, `163`); traces of
two events can differ in the first or the last event, be shorter or longer. Two values
let one be dropped by the unwinding that the other caused. The values of `send_bind`
are interchangeable, which the run uses as symmetry. Elsewhere no symmetry is used: task ids, request ids and nodes are ordered by the code.

Fairness. `Executor!FairSpec` assumes that the thread keeps running library code
(weak fairness) and that every activation of user code returns: a poll, a
destructor or a callback that never returns blocks the real executor for ever,
too. As user code may make nested calls in between, an activation at depth `d` is
enabled to return again and again rather than continuously, hence strong fairness
for each depth. User code is never assumed to make a call. `Net!FairSpec` assumes
that the executor takes some step, a delivery, a woken receiver or an advance of time,
while there is one, which `Runtime` and `QueueDrains` justify. `Tower!FairSpec` assumes that the
tasks of client and server run when they can, that the service gets ready and answers,
and that every packet is delivered or lost, as `QueueDrains`, `DeliveryHappens` and
`CopiesKept` say. A call whose
packet the network lost may wait for ever, because the client has no timeout;
`CallEnds` says that this is the only way to hang.

### Where the code and its documentation disagree

* `executor_borrow`: a task aborted during its own poll is dropped under the
  borrow of the context (`executor.rs:386`), unlike on the path that says "drop
  task after releasing locks" (`executor.rs:478`). If its future holds a `Sleep`
  or a `Socket`, the simulation panics.
* `executor_notify`: `Simulator::stop_node` "is called before cancelling all
  tasks" (`simulator.rs:32`); it is called afterwards.
* `net_order`: packets with the same key "must not be reordered" (`net.rs:65`);
  `perfect_connectivity` leaves packets with equal deadlines to the heap. The model
  allows any order; the run's counterexample is the order of a binary heap.
* `tower_error`: a send function may "deliver errors instead" (`net.rs:128`). The
  client clears its responders on an error while the responses are still on their
  way, and the response meets the `unwrap` of `tower.rs:111`. The same happens if the
  response is back before a pending send completes, since the responder is inserted
  only then, or if the send of the request returned an error although it had enqueued
  the packet; `ResponderKept` says that there is no fourth way.

Noted without a run of their own: after `stop_simulation` the loop keeps advancing
time for Sleeps that no task owns, although the simulation "continues until the root
future completes" (`sim_builder.rs:112`); `IdRange::get` returns ids beyond the end of
the range, although the range "is equivalent to a `Vec<Id>`" (`id.rs:40`); without
overflow checks the addition of `id.rs:51` can wrap around, and ids are not unique any
more (`Checked = FALSE` in `Ids`). `SimBound` derives `Clone`
(`send_bind.rs:65`), and a clone runs the inner value's `clone` without the check that
"all uses of the possible unsend/unsync inner value" pass first (`send_bind.rs:72`);
`HomeThread` excepts it and the model contains it. `with_simulator_option` promises
`None` for a simulator that does not exist (`simulator.rs:59`), but after the simulator
was popped by the teardown its index is still in the map, and the access panics
(`TeardownOrder` says for which simulators). `yield_now` of the agnostic-lite adapter is
a Sleep that is due at once (`agnostic_lite.rs:62`), which is ready on its first poll
(`time.rs:65`) and never yields.

## Proofs

Every invariant and every action property that a passing run checks, and both
refinements, are theorems. They hold for every value of the constants: any number of
tasks, nodes, Sleeps, sockets, packets, calls, failures, simulators, nested frames, runs
and wrappers, any capacity, any choice of faults and any hash. They use the assumptions on constants that the modules declare, which
say that bounds are natural numbers, that there is at least one task, node and Sleep,
and that node `INIT` exists.

`ExecutorInvariant`: `Spec => []IndInv`. The properties one wants,
`StoppedNodesQuiet` and `ShutdownComplete`, speak of a main loop that has regained
control, and say nothing in the middle of nested calls. `IndInv` says what holds
there: a live task of a node that is not running is in the `todo` of some
`stop_node` (`StopCovers`); a node that is not finally stopped is in the `todo` of
some `stop_simulation` (`ShutdownCovers`); the frames restore each other's node
(`Nested`); a frame works on a task that was born, on its node, and the task being
polled is live or aborted (`FrameExact`); ids are handed out in order. With
`TypeOK` and the three bookkeeping invariants this is preserved by each action. An
empty stack then makes the two `Covers` conjuncts the properties themselves.
`TypeCorrect`, `TablesCorrect`, `NoPanicCorrect`, `NodeScopeCorrect`, `StopCorrect`
and `ShutdownCorrect` follow without further induction.

`ExecutorRefinesTaskLife` and `OutcomeCorrect` follow from `IndInv` together with
`OutcomeExact` (`LifeInv`). The mapping reads a task's fate off its state word, its
result and the lowest frame of the stack, which is the poll if there is one; each
action is shown to be the step of `TaskLife` that concerns its task, or none. The
delicate case is a task that is aborted during its own poll: it is doomed, its handle
learns of it when the poll returns, and a poll that returns `Ready` still completes it.

`RuntimeRefinesExecutor`: every step of `Runtime` is a step of `Executor` or leaves
its variables unchanged, so the executor's theorems hold with time.
`RuntimeInvariant` adds that the event queue is exact, that queued deadlines lie in
the future outside the scheduler's loop, and that a completed Sleep's task stays
queued at the Sleep's deadline until it is polled; `UpcomingCorrect`,
`DeadlinesCorrect`, `PromptWakeCorrect` and the action property `TimeCorrect` follow.

`UniqueCorrect`, `IdsTypeCorrect`: with overflow checks, for every width of the counter
and any number of calls. Inductive is `Ordered`: the ranges ascend, and the counter is
at or above the last id.

`NetInvariant`: `Spec => []NetInv`, for any set of instants and any number of deliveries
in flight. Beside the properties, `NetInv` says that a
registered inbox is that of a socket with this address (`InboxesExact`), that the
inboxes of sockets that were never opened are empty (`FreshEmpty`), and
that no delivery, asleep or woken, is late (`NotLate`): time only moves to the earliest
deadline, which exists because the sleeping deliveries are finitely many and the
deadlines are well-founded. `NoMessageOverRestart` holds through a stop because a
node that is down is not asked about, and through a start because the inboxes of the
sockets that survived are drained.

`AtMostOnceCorrect` counts the copies of a packet. Inductive is `CountInv`: besides
`NetInv`, only packets that were sent are somewhere (`CopiesKnown`), the copies in
flight are all different, so that a set of them counts them (`Distinct`), and nothing
is owed for a packet that was not sent yet (`Unsent`). A delivery then takes one copy
out of the air and puts at most one into an inbox, a `pop_front` renumbers the copies
in the inbox, and a drain or a close only removes some.

`CopiesCorrect` is the action property `CopiesKept`: a copy that is not in flight any
more was put at the end of the inbox registered for its destination, or node INIT
stopped, no socket was open there, or the inbox was full. An advance of time loses none
because an order of the deliveries that are due names each of them (`OrdersCover`, by
counting: an injection between sets of the same size is onto).

`TowerInvariant`: `Spec => []TowerInv`. A request and its response are never both
somewhere, and neither is in two places (`Once`); ids are used in their order, and a
request that is on its way or waits for the service was not executed (`Numbered`); a packet is about the call that
waits under its id (`Bodies`); a call is held by one of channel, send task and map
(`Held`, `SomeHolder`), and by none of them once the client is stopped or gone
(`ClientEnded`); a responder has its packet unless that was lost, and a packet has its
responder unless an error took it, from the network or from its send (`Expected`). `AnswersCorrect`, `WaitsCorrect` and
`ResponderCorrect` follow; that there are always ids left (`Budget`) is about the
bound of the model, not about the code.

`Simulators` has invariants of growing strength. `BaseInv` has the types, the order of
the outermost frames (`StageExact`), that a slot is empty exactly if a frame holds its
simulator or a panic took it (`Fits`), and that a simulator, in its slot or in a frame,
has one slot and is found there through the index (`Registered`); `SlotsCorrect` and
`RegistryCorrect` follow. With `TornDown`, that simulators are popped only after
every node is stopped for good, it gives `TeardownCorrect`. `Ahead` says that a
notification has not come to the slots that frames below it hold: it panics when it
comes there. So what a simulator has heard depends only on the frames of
notifications that have yet to reach its slot.
`SeenExact` states this for creations, whose number is the cardinality of a set of
frames, and yields `PerNodeCorrect`; `ViewsExact` for the run levels, for which an
ongoing stop counts as well, and yields `ViewsCorrect`. The notifications that started
below a frame that holds a simulator are left out of the latter (`Doomed`), since they
end in a panic. `NotesExact` says that notifications are about nodes that exist and,
during the cleanup, reach exactly the slots that are left. With it every call that the
cleanup itself makes finds its simulator and its entry in a `PerNode`, unless the
first panic took them away: the action property `CleanupCorrect`.

`BindInvariant`: `BindSpec => []BindInv`, for `Builder` and `SendBind` together. For
the traces it ties the handler's variables to the history: the recording, the hasher
and the position are functions of the trace of the run (`RecordingExact`,
`HasherExact`), the runs that finished agree with the first (`ComparedExact`,
`FinishedExact`), and a result is there only when all runs are over (`OverExact`).
For the wrappers it says that anchors are handed out in ascending order, one per run,
so that an anchor equals the one of the current thread only at home (`AnchorsExact`).

Only model-checked are the liveness properties, `QueueDrains`, `DeliveryHappens` and
`CallEnds`: liveness under fairness needs ENABLED, which is out of the prover's reach.
The composition of the modules is not proved, except for `Runtime` over `Executor` and
`SendBind` over `Builder`: `Net` and `Tower` state what they assume of the others.

## Not modelled

`Tower` has one client and leaves the service's result
opaque. Of the agnostic-lite adapter only `JoinHandle` is modelled: `Timeout` polls a `Sleep` of its own and then a
future, both of which `Runtime` has, and keeps
nothing else between polls; the rest renames `spawn` and `sleep`, or is `todo!()`.
Interception of libc functions is
I/O; of it only the clock appears, as `time`. In `Net`, `SendFunction`s that return
a pending future and the cloning of packets are left out: the
first are ordinary tasks of the sender, the second is a function call without state.
`NoMessageOverRestart` is about open sockets: the inbox of a socket that was closed,
which a receive future keeps, is not drained by a restart in the code either.
In `Simulators`, destructors that run while a panic unwinds borrow simulators and fail,
or do nothing (`Unwind`, `UnwindNeeds`): calls in them that succeed, such as a stop of a
node, and user code that catches a panic are left out. `RegistryExact` excepts a type
whose second registration was refused, since the code leaves its index pointing past
its slot (`simulator.rs:52`), and `ViewsAgree` a node that was started during its own
stop (`executor.rs:544`).
A `NodeBound` that a `static` carries into a later run is left out: nodes are
numbered from one in every run, so its check passes on any node of the same number
(`send_bind.rs:41`). In `Executor` a panic ends the behaviour; the
unwinding is modelled in `Simulators`, where tasks are only what calls the registry,
and in `Builder`, where it is what the events and the result show of it.

## Plan

1. Done: `Executor`, `TaskLife`, `Runtime`, `Net`, `Tower`, `Ids`, `Simulators`,
   `Builder`, `SendBind`, and the proofs of all their safety properties.
2. More of the system: an abstract specification of remote calls that `Tower`
   implements, with the proof that it does; a `SendFunction` that pends, over `Runtime`.
