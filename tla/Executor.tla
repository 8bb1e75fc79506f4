------------------------------ MODULE Executor ------------------------------
(***************************************************************************)
(* The single-threaded executor of refault (src/src/executor.rs), together *)
(* with the node operations of node_id.rs, the root task that              *)
(* sim_builder.rs spawns and the teardown of context_install_guard.rs.     *)
(*                                                                         *)
(* Everything runs on one thread, so concurrency is re-entrancy: the main  *)
(* loop polls a future, the future calls the API, an abort drops another   *)
(* future, whose destructor calls the API again.  The variable stack holds *)
(* these activations.  A frame of user code may make any API call in any   *)
(* order before it returns; a frame of library code is a loop that has     *)
(* called out to user code and will go on when that returns.               *)
(*                                                                         *)
(* The run models DeterminismCheck::None, whose event handler is a no-op.  *)
(* Time is only seen as a source of wake-ups between polls.                *)
(***************************************************************************)
EXTENDS Naturals, Sequences, FiniteSets, SequencesExt

CONSTANTS MaxTasks,      \* bound: number of task ids Id::new hands out
          MaxNodes,      \* bound: number of nodes create_node makes, INIT included
          HasSimulator   \* is a simulator registered (its callbacks are user code)?

ASSUME ExecutorAssumption ==
  /\ MaxTasks \in Nat \ {0}
  /\ MaxNodes \in Nat \ {0}
  /\ HasSimulator \in BOOLEAN

TaskIds == 1 .. MaxTasks
NodeIds == 0 .. MaxNodes - 1
INIT    == 0             \* NodeId::INIT
NoTask  == 0

VARIABLES
  state,         \* TaskShared.state of every id; "UNBORN" before Id::new returned it
  home,          \* TaskShared.node
  entries,       \* keys of Executor.tasks
  slot,          \* ids whose TaskEntry.task cell holds the future
  queue,         \* ExecutorQueue.ready_queue
  nodeTasks,     \* NodeData.tasks
  level,         \* NodeData.run_level; "Absent" beyond Executor.nodes
  finalStopped,  \* Executor.final_stopped
  curNode,       \* SimCxu.current_node
  lastId,        \* SimCxu.pre_next_global_id, counting task ids only
  result,        \* the oneshot channel between a task and its TaskHandle
  root,          \* the task that SimBuilder::run spawned
  output,        \* has the root future stored its result?
  stack,         \* activations of user code and of library loops above the main loop
  mode,          \* run_current_context, then ContextInstallGuard::destroy
  panic          \* "none", or what unwound the simulation thread

taskVars == <<state, home, entries, slot, queue, nodeTasks, lastId, result>>
nodeVars == <<level, finalStopped>>
rootVars == <<root, output>>
ctlVars  == <<stack, curNode>>
vars     == <<taskVars, nodeVars, rootVars, ctlVars, mode, panic>>

-----------------------------------------------------------------------------
LiveStates  == {"WAITING", "READY"}
ReadyStates == {"READY", "ABORTED_READY", "COMPLETE_READY"}   \* id is in ready_queue
TaskStates  == LiveStates \cup ReadyStates \cup {"ABORTED", "COMPLETE", "UNBORN"}
RunLevels   == {"Absent", "Running", "Stopped", "FinalStopped"}
Outcomes    == {"pending", "sent", "canceled"}

(***************************************************************************)
(* Frames.  "init" is the function passed to run; "poll" a future's poll;  *)
(* "drop" a future's destructor run by an abort; "enddrop" the destructor  *)
(* run by the main loop after the last poll, inside with_cx, that is while *)
(* the RefCell of the context is mutably borrowed; "callback" a            *)
(* Simulator's notification; "simdrop" a Simulator's destructor.  "time",  *)
(* "stop" and "stopall" are the loops of wait_until_next_future_ready,     *)
(* stop_node and stop_simulation; todo is what is left to iterate over.    *)
(***************************************************************************)
UserKinds    == {"init", "poll", "drop", "enddrop", "callback", "simdrop"}
LibraryKinds == {"time", "stop", "stopall"}
FrameType    == [kind : UserKinds \cup LibraryKinds, node : NodeIds, caller : NodeIds,
                 task : TaskIds \cup {NoTask}, todo : SUBSET Nat]

Frame(k, n, t, todo) ==
  [kind |-> k, node |-> n, caller |-> curNode, task |-> t, todo |-> todo]

Top == Last(stack)

\* node_scope: the calling node is saved on entry and restored on exit.
Push(f) == /\ stack' = Append(stack, f)
           /\ curNode' = f.node
Pop     == /\ stack' = Front(stack)
           /\ curNode' = Top.caller
Swap(f) == stack' = Append(Front(stack), f)   \* goes on in the same node scope

InFrame(kinds) == panic = "none" /\ stack # <<>> /\ Top.kind \in kinds
AtMainLoop(m)  == panic = "none" /\ stack = <<>> /\ mode = m

\* The root task ends its last poll right after stop_simulation returns.
RootReturned == stack # <<>> /\ Top.kind = "poll" /\ Top.task = root /\ output

\* User code that may call any API function: no borrow of the context is held.
UserCode == InFrame(UserKinds \ {"enddrop"}) /\ ~RootReturned

Polling(t) == \E f \in Range(stack) : f.kind = "poll" /\ f.task = t

Fail(reason) ==
  /\ panic' = reason
  /\ UNCHANGED <<taskVars, nodeVars, rootVars, ctlVars, mode>>

-----------------------------------------------------------------------------
Init ==
  /\ state = [t \in TaskIds |-> "UNBORN"]
  /\ home = [t \in TaskIds |-> INIT]
  /\ entries = {} /\ slot = {} /\ queue = <<>>
  /\ nodeTasks = [n \in NodeIds |-> {}]
  /\ level = [n \in NodeIds |-> IF n = INIT THEN "Running" ELSE "Absent"]
  /\ finalStopped = FALSE
  /\ curNode = INIT
  /\ lastId = 0
  /\ result = [t \in TaskIds |-> "pending"]
  /\ root = NoTask /\ output = FALSE
  /\ stack = <<[kind |-> "init", node |-> INIT, caller |-> INIT,
                task |-> NoTask, todo |-> {}]>>
  /\ mode = "run" /\ panic = "none"

-----------------------------------------------------------------------------
(* Tasks: spawn, wake, abort.                                              *)

\* Executor::spawn: the entry is created WAITING and woken at once.
NewTask(n) ==
  LET t == lastId + 1
  IN  /\ t \in TaskIds
      /\ lastId' = t
      /\ state' = [state EXCEPT ![t] = "READY"]
      /\ home' = [home EXCEPT ![t] = n]
      /\ entries' = entries \cup {t}
      /\ slot' = slot \cup {t}
      /\ nodeTasks' = [nodeTasks EXCEPT ![n] = @ \cup {t}]
      /\ queue' = Append(queue, t)
      /\ UNCHANGED result

\* Mutant: the run level of the node is not checked.
Spawn_Anywhere(n) ==
  /\ UserCode
  /\ level[n] # "Absent"
  /\ (root = NoTask => lastId + 1 < MaxTasks)
  /\ NewTask(n)
  /\ UNCHANGED <<nodeVars, rootVars, ctlVars, mode, panic>>

Spawn(n) ==
  /\ UserCode
  /\ level[n] # "Absent"
  /\ \/ /\ level[n] = "Running"
        /\ (root = NoTask => lastId + 1 < MaxTasks)   \* bound: an id is left for the root
        /\ NewTask(n)
        /\ UNCHANGED <<nodeVars, rootVars, ctlVars, mode, panic>>
     \/ /\ level[n] # "Running"
        /\ Fail("user")

\* Mutant: an aborted task that waits to be reaped is woken, too.
Wake_Aborted(t) ==
  /\ InFrame(UserKinds \cup {"time"}) /\ ~RootReturned
  /\ state[t] \in {"WAITING", "ABORTED_READY"}
  /\ state' = [state EXCEPT ![t] = "READY"]
  /\ queue' = IF state[t] = "WAITING" THEN Append(queue, t) ELSE queue
  /\ UNCHANGED <<home, entries, slot, nodeTasks, lastId, result,
                 nodeVars, rootVars, ctlVars, mode, panic>>

\* Mutant: a woken task overtakes those that are queued.
Wake_First(t) ==
  /\ InFrame(UserKinds \cup {"time"}) /\ ~RootReturned
  /\ state[t] = "WAITING"
  /\ state' = [state EXCEPT ![t] = "READY"]
  /\ queue' = <<t>> \o queue
  /\ UNCHANGED <<home, entries, slot, nodeTasks, lastId, result,
                 nodeVars, rootVars, ctlVars, mode, panic>>

\* wake_by_ref borrows the queue only, so it works in every frame.
Wake(t) ==
  /\ InFrame(UserKinds \cup {"time"}) /\ ~RootReturned
  /\ state[t] = "WAITING"
  /\ state' = [state EXCEPT ![t] = "READY"]
  /\ queue' = Append(queue, t)
  /\ UNCHANGED <<home, entries, slot, nodeTasks, lastId, result,
                 nodeVars, rootVars, ctlVars, mode, panic>>

Abortable(t) == t \in entries /\ state[t] \in LiveStates

\* User code never has the handle of the root task: SimBuilder::run detaches it.
HandleKept(t) == t # root

\* Mutant: a task that is already queued is queued again.
abort_local_Requeues(t) ==
  /\ state' = [state EXCEPT ![t] = "ABORTED_READY"]
  /\ queue' = Append(queue, t)
  /\ slot' = slot \ {t}
  /\ result' = IF t \in slot THEN [result EXCEPT ![t] = "canceled"] ELSE result
  /\ UNCHANGED <<home, entries, nodeTasks, lastId>>

\* Mutant: the future stays in the cell.
abort_local_KeepsFuture(t) ==
  /\ state' = [state EXCEPT ![t] = "ABORTED_READY"]
  /\ queue' = IF state[t] = "WAITING" THEN Append(queue, t) ELSE queue
  /\ result' = IF t \in slot THEN [result EXCEPT ![t] = "canceled"] ELSE result
  /\ UNCHANGED <<home, entries, slot, nodeTasks, lastId>>

\* abort_local: the future, if the cell holds it, is handed out to be dropped;
\* its Sender is the first thing the destructor drops, which cancels the handle.
abort_local(t) ==
  /\ state' = [state EXCEPT ![t] = "ABORTED_READY"]
  /\ queue' = IF state[t] = "WAITING" THEN Append(queue, t) ELSE queue
  /\ slot' = slot \ {t}
  /\ result' = IF t \in slot THEN [result EXCEPT ![t] = "canceled"] ELSE result
  /\ UNCHANGED <<home, entries, nodeTasks, lastId>>

\* Mutant: the future is dropped in the scope of the caller's node.
Abort_CallerScope(t) ==
  /\ UserCode
  /\ HandleKept(t) /\ Abortable(t)
  /\ abort_local(t)
  /\ IF t \in slot THEN Push(Frame("drop", curNode, t, {})) ELSE UNCHANGED ctlVars
  /\ UNCHANGED <<nodeVars, rootVars, mode, panic>>

\* AbortHandle::abort_inner, also reached from TaskHandle::abort and the drop
\* of an AbortGuard.
Abort(t) ==
  /\ UserCode
  /\ HandleKept(t) /\ Abortable(t)
  /\ abort_local(t)
  /\ IF t \in slot THEN Push(Frame("drop", home[t], t, {})) ELSE UNCHANGED ctlVars
  /\ UNCHANGED <<nodeVars, rootVars, mode, panic>>

-----------------------------------------------------------------------------
(* Nodes: create, stop, start, and the stop of the whole simulation.       *)

SimulatorBorrowed == \E f \in Range(stack) : f.kind = "callback"

\* for_all_simulators in the scope of node n, entered from the stack base.
NotifySimulators(n, base, caller) ==
  \/ /\ ~HasSimulator
     /\ stack' = base /\ curNode' = caller
     /\ UNCHANGED panic
  \/ /\ HasSimulator /\ SimulatorBorrowed
     /\ panic' = "simulator"
     /\ UNCHANGED ctlVars
  \/ /\ HasSimulator /\ ~SimulatorBorrowed
     /\ stack' = Append(base, [Frame("callback", n, NoTask, {}) EXCEPT !.caller = caller])
     /\ curNode' = n
     /\ UNCHANGED panic

\* NodeId::create_node
CreateNode(n) ==
  /\ UserCode
  /\ level[n] = "Absent" /\ \A m \in NodeIds : m < n => level[m] # "Absent"
  /\ \/ finalStopped /\ Fail("user")
     \/ /\ ~finalStopped
        /\ level' = [level EXCEPT ![n] = "Running"]
        /\ NotifySimulators(n, stack, curNode)
        /\ UNCHANGED <<taskVars, finalStopped, rootVars, mode>>

\* stop_node up to the snapshot of the node's tasks.
EnterStop(n, newLevel) ==
  /\ level' = [level EXCEPT ![n] = newLevel]
  /\ Push(Frame("stop", n, NoTask, nodeTasks[n]))

\* NodeId::stop; stopping a stopped node returns early.
StopNode(n) ==
  /\ UserCode
  /\ level[n] = "Running"
  /\ EnterStop(n, "Stopped")
  /\ UNCHANGED <<taskVars, finalStopped, rootVars, mode, panic>>

\* One iteration of stop_node's loop over the snapshot.
StopNext(t) ==
  /\ InFrame({"stop"})
  /\ t \in Top.todo
  /\ LET rest == [Top EXCEPT !.todo = @ \ {t}]
     IN  \/ /\ Abortable(t)
            /\ abort_local(t)
            /\ IF t \in slot
               THEN stack' = Append(Append(Front(stack), rest), Frame("drop", curNode, t, {}))
               ELSE Swap(rest)
         \/ /\ ~Abortable(t)
            /\ Swap(rest)
            /\ UNCHANGED taskVars
  /\ UNCHANGED <<curNode, nodeVars, rootVars, mode, panic>>

\* stop_node after its loop: the simulators are told, then the scope is left.
StopNotify ==
  /\ InFrame({"stop"})
  /\ Top.todo = {}
  /\ NotifySimulators(Top.node, Front(stack), Top.caller)
  /\ UNCHANGED <<taskVars, nodeVars, rootVars, mode>>

\* Mutant: a finally stopped node can be started.
StartNode_Final(n) ==
  /\ UserCode
  /\ level[n] \in {"Stopped", "FinalStopped"}
  /\ level' = [level EXCEPT ![n] = "Running"]
  /\ NotifySimulators(n, stack, curNode)
  /\ UNCHANGED <<taskVars, finalStopped, rootVars, mode>>

\* NodeId::start; starting a running node returns early.
StartNode(n) ==
  /\ UserCode
  /\ \/ level[n] = "FinalStopped" /\ Fail("user")
     \/ /\ level[n] = "Stopped"
        /\ level' = [level EXCEPT ![n] = "Running"]
        /\ NotifySimulators(n, stack, curNode)
        /\ UNCHANGED <<taskVars, finalStopped, rootVars, mode>>

\* stop_simulation: the flag first, then every node that exists at the call.
EnterStopSimulation ==
  /\ finalStopped' = TRUE
  /\ Push(Frame("stopall", curNode, NoTask, {n \in NodeIds : level[n] # "Absent"}))

StopSimulation ==
  /\ UserCode
  /\ EnterStopSimulation
  /\ UNCHANGED <<taskVars, level, rootVars, mode, panic>>

\* One call stop_node(n, true) in index order.
StopAllNext(n) ==
  /\ InFrame({"stopall"})
  /\ n \in Top.todo /\ \A m \in Top.todo : n <= m
  /\ LET rest == [Top EXCEPT !.todo = @ \ {n}]
     IN  \/ /\ level[n] = "Running"
            /\ stack' = Append(Append(Front(stack), rest),
                               Frame("stop", n, NoTask, nodeTasks[n]))
            /\ curNode' = n
         \/ /\ level[n] # "Running"
            /\ Swap(rest)
            /\ UNCHANGED curNode
  /\ level' = [level EXCEPT ![n] = "FinalStopped"]
  /\ UNCHANGED <<taskVars, finalStopped, rootVars, mode, panic>>

StopAllReturn ==
  /\ InFrame({"stopall"})
  /\ Top.todo = {}
  /\ Pop
  /\ UNCHANGED <<taskVars, nodeVars, rootVars, mode, panic>>

-----------------------------------------------------------------------------
(* User code returns to its caller.                                        *)

\* SimBuilder::run: after init_fn's user part, spawn the root task on INIT.
InitReturn ==
  /\ InFrame({"init"})
  /\ \/ /\ level[curNode] = "Running"
        /\ NewTask(curNode)
        /\ root' = lastId'
        /\ Pop
        /\ UNCHANGED <<nodeVars, output, mode, panic>>
     \/ level[curNode] # "Running" /\ Fail("user")

\* The root future completes: its result is stored, the simulation is stopped.
RootReturn ==
  /\ UserCode
  /\ Top.kind = "poll" /\ Top.task = root
  /\ output' = TRUE
  /\ EnterStopSimulation
  /\ UNCHANGED <<taskVars, level, root, mode, panic>>

\* A destructor or a callback returns.
UserReturn ==
  /\ InFrame({"drop", "enddrop", "callback", "simdrop"})
  /\ Pop
  /\ UNCHANGED <<taskVars, nodeVars, rootVars, mode, panic>>

\* A destructor run under the borrow of the context calls an API function that
\* borrows the context: spawn, abort, Sleep's or Socket's drop, a simulator, ...
BorrowedCall ==
  /\ InFrame({"enddrop"})
  /\ Fail("borrow")

\* The future is dropped in the scope of the poll; the destructor may call out.
DropAfterPoll(t) == Swap([Top EXCEPT !.kind = "enddrop"]) /\ UNCHANGED curNode

\* Mutant: the node's set of tasks keeps the id.
remove_task_entry_Leaks(t) ==
  /\ entries' = entries \ {t}
  /\ UNCHANGED nodeTasks

remove_task_entry(t) ==
  /\ entries' = entries \ {t}
  /\ nodeTasks' = [nodeTasks EXCEPT ![home[t]] = @ \ {t}]

\* The unwrap and the two assertions of remove_task_entry.
Removable(t) == t \in entries /\ t \notin slot /\ t \in nodeTasks[home[t]]

\* Mutant: an abort during the poll is overlooked.
PollPending_IgnoresAbort(t) ==
  /\ InFrame({"poll"}) /\ Top.task = t /\ ~RootReturned
  /\ state[t] \in LiveStates \cup {"ABORTED_READY"}
  /\ slot' = slot \cup {t}
  /\ Pop
  /\ UNCHANGED <<result, state, home, entries, queue, nodeTasks, lastId, nodeVars,
                 rootVars, mode, panic>>

\* poll returned Pending.
PollPending(t) ==
  /\ InFrame({"poll"}) /\ Top.task = t /\ ~RootReturned
  /\ \/ /\ state[t] = "ABORTED_READY"
        /\ DropAfterPoll(t)
        /\ result' = [result EXCEPT ![t] = "canceled"]
        /\ UNCHANGED slot
     \/ /\ state[t] \in LiveStates /\ t \in entries /\ t \notin slot
        /\ slot' = slot \cup {t}
        /\ Pop
        /\ UNCHANGED result
  /\ UNCHANGED <<state, home, entries, queue, nodeTasks, lastId, nodeVars, rootVars,
                 mode, panic>>

\* Mutant: the state of a task that completes after it was aborted is left alone.
PollReady_StaysAborted(t) ==
  /\ InFrame({"poll"}) /\ Top.task = t /\ (t = root => output)
  /\ result' = [result EXCEPT ![t] = "sent"]
  /\ \/ /\ state[t] = "WAITING" /\ Removable(t)
        /\ state' = [state EXCEPT ![t] = "COMPLETE"]
        /\ remove_task_entry(t)
        /\ DropAfterPoll(t)
     \/ /\ state[t] \in {"READY", "ABORTED_READY"}
        /\ state' = [state EXCEPT ![t] = IF @ = "READY" THEN "COMPLETE_READY" ELSE @]
        /\ DropAfterPoll(t)
        /\ UNCHANGED <<entries, nodeTasks>>
  /\ UNCHANGED <<home, slot, queue, lastId, nodeVars, rootVars, mode, panic>>

\* poll returned Ready: Task::run has already sent the value to the handle.
PollReady(t) ==
  /\ InFrame({"poll"}) /\ Top.task = t /\ (t = root => output)
  /\ result' = [result EXCEPT ![t] = "sent"]
  /\ \/ /\ state[t] = "WAITING" /\ Removable(t)
        /\ state' = [state EXCEPT ![t] = "COMPLETE"]
        /\ remove_task_entry(t)
        /\ DropAfterPoll(t)
     \/ /\ state[t] \in {"READY", "ABORTED_READY"}
        /\ state' = [state EXCEPT ![t] = "COMPLETE_READY"]
        /\ DropAfterPoll(t)
        /\ UNCHANGED <<entries, nodeTasks>>
  /\ UNCHANGED <<home, slot, queue, lastId, nodeVars, rootVars, mode, panic>>

-----------------------------------------------------------------------------
(* The main loop, run_current_context, and the teardown.                   *)

Popping(t) == AtMainLoop("run") /\ ~finalStopped /\ queue # <<>> /\ t = Head(queue)

\* A popped READY task is polled in the scope of its node.
RunReady(t) ==
  /\ Popping(t)
  /\ t \in entries /\ state[t] = "READY" /\ t \in slot
  /\ queue' = Tail(queue)
  /\ slot' = slot \ {t}
  /\ state' = [state EXCEPT ![t] = "WAITING"]
  /\ Push(Frame("poll", home[t], t, {}))
  /\ UNCHANGED <<home, entries, nodeTasks, lastId, result, nodeVars, rootVars, mode, panic>>

\* A popped task that completed or was aborted while queued is forgotten.
Reap(t) ==
  /\ Popping(t)
  /\ state[t] \in {"COMPLETE_READY", "ABORTED_READY"} /\ Removable(t)
  /\ queue' = Tail(queue)
  /\ state' = [state EXCEPT ![t] = IF @ = "COMPLETE_READY" THEN "COMPLETE" ELSE "ABORTED"]
  /\ remove_task_entry(t)
  /\ UNCHANGED <<home, slot, lastId, result, nodeVars, rootVars, ctlVars, mode, panic>>

NothingToRun == AtMainLoop("run") /\ (finalStopped \/ queue = <<>>)

\* wait_until_next_future_ready found a Sleep; it wakes what is due.
AdvanceTime ==
  /\ NothingToRun
  /\ Push(Frame("time", curNode, NoTask, {}))
  /\ UNCHANGED <<taskVars, nodeVars, rootVars, mode, panic>>

TimeReturn ==
  /\ InFrame({"time"})
  /\ Pop
  /\ UNCHANGED <<taskVars, nodeVars, rootVars, mode, panic>>

\* No Sleep is left: the loop breaks and destroy stops the simulation.
BreakLoop ==
  /\ NothingToRun
  /\ mode' = "destroy"
  /\ EnterStopSimulation
  /\ UNCHANGED <<taskVars, level, rootVars, panic>>

\* destroy drops the simulators, then the context.
DropSimulators ==
  /\ AtMainLoop("destroy")
  /\ mode' = "finalize"
  /\ IF HasSimulator THEN Push(Frame("simdrop", curNode, NoTask, {})) ELSE UNCHANGED ctlVars
  /\ UNCHANGED <<taskVars, nodeVars, rootVars, panic>>

Finalize ==
  /\ AtMainLoop("finalize")
  /\ mode' = "done"
  /\ UNCHANGED <<taskVars, nodeVars, rootVars, ctlVars, panic>>

\* The simulation thread has ended, normally or by a panic.
Ended == (panic # "none" \/ mode = "done") /\ UNCHANGED vars

-----------------------------------------------------------------------------
(***************************************************************************)
(* Where the executor's own unwrap, assert! and unreachable! would fire.   *)
(* The actions above are not enabled there, and no panic is modelled: the  *)
(* invariant NoInternalPanic says that these states do not exist.          *)
(***************************************************************************)
PopFails(t) ==
  /\ Popping(t)
  /\ ~(t \in entries /\ state[t] = "READY" /\ t \in slot)
  /\ ~(state[t] \in {"COMPLETE_READY", "ABORTED_READY"} /\ Removable(t))

PendingFails(t) ==
  /\ InFrame({"poll"}) /\ Top.task = t
  /\ state[t] # "ABORTED_READY"
  /\ ~(state[t] \in LiveStates /\ t \in entries /\ t \notin slot)

ReadyFails(t) ==
  /\ InFrame({"poll"}) /\ Top.task = t
  /\ state[t] \notin {"READY", "ABORTED_READY"}
  /\ ~(state[t] = "WAITING" /\ Removable(t))

\* The assertion of destroy that the main loop is back on node INIT.  Its other one,
\* that only a stopped simulation leaves work in the queue, is NothingToRun: no user
\* code runs between the loop's last look at the queue and destroy's.
DestroyFails == panic = "none" /\ mode # "run" /\ stack = <<>> /\ curNode # INIT

-----------------------------------------------------------------------------
ApiCall ==
  \/ \E n \in NodeIds : Spawn(n) \/ CreateNode(n) \/ StopNode(n) \/ StartNode(n)
  \/ \E t \in TaskIds : Wake(t) \/ Abort(t)
  \/ StopSimulation \/ RootReturn \/ BorrowedCall

Return ==
  \/ InitReturn \/ UserReturn
  \/ \E t \in TaskIds : PollPending(t) \/ PollReady(t)

Library ==
  \/ \E t \in TaskIds : RunReady(t) \/ Reap(t) \/ StopNext(t)
  \/ \E n \in NodeIds : StopAllNext(n)
  \/ StopNotify \/ StopAllReturn \/ AdvanceTime \/ TimeReturn \/ BreakLoop
  \/ DropSimulators \/ Finalize

Next == ApiCall \/ Return \/ Library \/ Ended

Spec == Init /\ [][Next]_vars

-----------------------------------------------------------------------------
(* Properties.                                                             *)

\* Every variable has its type.
TypeOK ==
  /\ state \in [TaskIds -> TaskStates]
  /\ home \in [TaskIds -> NodeIds]
  /\ entries \in SUBSET TaskIds
  /\ slot \in SUBSET TaskIds
  /\ queue \in Seq(TaskIds)
  /\ nodeTasks \in [NodeIds -> SUBSET TaskIds]
  /\ level \in [NodeIds -> RunLevels]
  /\ finalStopped \in BOOLEAN
  /\ curNode \in NodeIds
  /\ lastId \in 0 .. MaxTasks
  /\ result \in [TaskIds -> Outcomes]
  /\ root \in TaskIds \cup {NoTask}
  /\ output \in BOOLEAN
  /\ stack \in Seq(FrameType)
  /\ mode \in {"run", "destroy", "finalize", "done"}
  /\ panic \in {"none", "user", "simulator", "borrow"}

\* A task is in ready_queue exactly once while its state is one of the three
\* *_READY states, and not at all otherwise: wake_by_ref, abort_local and the
\* main loop agree on who has queued it, whatever calls a poll or a destructor
\* makes in between.
ReadyQueueExact ==
  /\ IsInjective(queue)
  /\ Range(queue) = {t \in TaskIds : state[t] \in ReadyStates}

\* The map of tasks and the per-node sets hold the same ids: those that were
\* spawned and not yet completed or reaped.
EntriesExact ==
  /\ entries = {t \in TaskIds : state[t] \notin {"UNBORN", "ABORTED", "COMPLETE"}}
  /\ \A n \in NodeIds : nodeTasks[n] = {t \in entries : home[t] = n}

\* "entries are None while the task is executing, aborted, or completed"
\* (executor.rs:55), and only then.
SlotExact ==
  slot = {t \in TaskIds : state[t] \in LiveStates /\ ~Polling(t)}

\* The ready queue, the map of tasks, the sets of the nodes and the cells of the futures
\* are updated in different places, often around a call of user code; none of them ever
\* disagrees with the state word of a task.
TablesExact == ReadyQueueExact /\ EntriesExact /\ SlotExact

\* No unwrap, assert! or unreachable! of the executor can fire (executor.rs:339,
\* 342, 361, 390, 392, 403, 315-320, context_install_guard.rs:48).
NoInternalPanic ==
  /\ \A t \in TaskIds : ~PopFails(t) /\ ~PendingFails(t) /\ ~ReadyFails(t)
  /\ ~DestroyFails

\* Futures are polled and dropped in the scope of their own node, so that a
\* NodeBound value inside a task never sees a foreign node, and the scope is
\* INIT again whenever the main loop runs.
OwnNodeScope ==
  /\ curNode = IF stack = <<>> THEN INIT ELSE Top.node
  /\ \A f \in Range(stack) :
       f.kind \in {"poll", "drop", "enddrop"} => f.node = home[f.task]

\* Once control is back in the main loop, a node that is not running has no
\* task that could still be polled, even if destructors restarted the node,
\* spawned on it or stopped it again while stop_node was iterating.
StoppedNodesQuiet ==
  stack = <<>> =>
    \A t \in TaskIds : state[t] \in LiveStates => level[home[t]] = "Running"

\* The handle of a task resolves to what happened to the future: a value if and
\* only if it completed, TaskAborted if and only if it was dropped before.
OutcomeExact ==
  \A t \in TaskIds :
    /\ result[t] = "sent" <=> state[t] \in {"COMPLETE", "COMPLETE_READY"}
    /\ result[t] = "canceled" <=> state[t] \in {"ABORTED", "ABORTED_READY"} /\ ~Polling(t)

\* After the shutdown of the simulation no future is left, so that the Arc of
\* the root's result has a single owner (sim_builder.rs:134) and no destructor
\* runs after the context is gone.
ShutdownComplete ==
  (finalStopped /\ stack = <<>>) =>
    /\ slot = {}
    /\ \A n \in NodeIds : level[n] \in {"Absent", "FinalStopped"}

-----------------------------------------------------------------------------
(***************************************************************************)
(* The inductive invariant.  The properties about a main loop that has     *)
(* regained control say nothing in the middle of nested calls; what holds  *)
(* there is that every obligation still open is in the todo of a frame.    *)
(***************************************************************************)

BaseKinds == {"init", "poll", "enddrop", "time", "simdrop"}   \* called by the main loop

\* Every frame restores the node of the frame below it.
Nested(s, c) ==
  /\ \A i \in DOMAIN s :
       /\ s[i].kind \in BaseKinds => i = 1
       /\ s[i].caller = IF i = 1 THEN INIT ELSE s[i - 1].node
  /\ c = IF s = <<>> THEN INIT ELSE Last(s).node

\* The tasks that a frame works on.
FrameExact(f) ==
  /\ f.kind \in {"poll", "drop", "enddrop"} =>
       f.task \in TaskIds /\ state[f.task] # "UNBORN" /\ f.node = home[f.task]
  /\ f.kind = "poll" => state[f.task] \in LiveStates \cup {"ABORTED_READY"}
  /\ f.kind = "stop" =>
       \A t \in f.todo : t \in TaskIds /\ state[t] # "UNBORN" /\ f.node = home[t]

BornInOrder == \A t \in TaskIds : state[t] = "UNBORN" <=> lastId < t

\* A live task of a node that does not run is still to be aborted by a stop_node.
StopCovers ==
  \A t \in TaskIds :
    (state[t] \in LiveStates /\ level[home[t]] # "Running") =>
      \E f \in Range(stack) : f.kind = "stop" /\ t \in f.todo

\* A node that is not finally stopped is still to be visited by a stop_simulation.
ShutdownCovers ==
  finalStopped =>
    \A n \in NodeIds :
      \/ level[n] \in {"Absent", "FinalStopped"}
      \/ \E f \in Range(stack) : f.kind = "stopall" /\ n \in f.todo

\* The invariant that every step of the executor preserves.
IndInv ==
  /\ TypeOK
  /\ ReadyQueueExact
  /\ EntriesExact
  /\ SlotExact
  /\ Nested(stack, curNode)
  /\ \A f \in Range(stack) : FrameExact(f)
  /\ BornInOrder
  /\ StopCovers
  /\ ShutdownCovers
  /\ (mode # "run" => finalStopped)

-----------------------------------------------------------------------------
(* The executor implements TaskLife.                                       *)

Fate(t) ==
  CASE result[t] = "sent"         -> "completed"
    [] result[t] = "canceled"     -> "canceled"
    [] result[t] = "pending" /\ state[t] = "UNBORN" -> "unborn"
    [] result[t] = "pending" /\ state[t] = "ABORTED_READY" -> "doomed"
    [] OTHER                      -> "live"

Executing == IF stack # <<>> /\ stack[1].kind = "poll" THEN stack[1].task ELSE NoTask

Life == INSTANCE TaskLife
          WITH fate <- [t \in TaskIds |-> Fate(t)],
               exec <- Executing,
               up   <- {n \in NodeIds : level[n] = "Running"}

\* Every step of the executor is a step of TaskLife or leaves it unchanged: in
\* particular a task runs only on a running node, and a handle's outcome is
\* decided once.
RefinesTaskLife == Life!Spec

-----------------------------------------------------------------------------
(* Fairness: the thread that runs the executor keeps going, and polls,     *)
(* destructors and callbacks return.  A frame of user code may make nested *)
(* calls for ever only by never returning, hence strong fairness for each  *)
(* depth of the stack.                                                     *)

MaxDepth == 2 * MaxTasks + 4   \* bound: with two tasks on two nodes no stack is deeper

ReturnAt(d) == Len(stack) = d /\ Return

FairSpec == Spec /\ WF_vars(Library) /\ \A d \in 1 .. MaxDepth : SF_vars(ReturnAt(d))

\* No starvation: a queued task gets its turn, to be polled or reaped, unless
\* the simulation ends first, however often other tasks requeue themselves.
QueueDrains ==
  \A t \in TaskIds :
    (state[t] \in ReadyStates) ~>
      (state[t] \notin ReadyStates \/ Polling(t) \/ finalStopped \/ panic # "none")

-----------------------------------------------------------------------------
(* What comments and documentation say and the code does not do.           *)

\* executor.rs:478 says of a future that is dropped by an abort "drop task after
\* releasing locks".  The main loop drops one inside with_cx instead, so that a
\* destructor which uses the context panics.
NoDropUnderBorrow == panic # "borrow"

\* simulator.rs:32 says that Simulator::stop_node "is called before cancelling
\* all tasks": as long as the simulators have not been told, the tasks in the
\* snapshot of stop_node are not cancelled.
NotifiedBeforeCancel ==
  [][HasSimulator =>
       \A f \in Range(stack) : f.kind = "stop" =>
         \A t \in f.todo : state[t] \in LiveStates => state'[t] \in LiveStates]_vars

=============================================================================
