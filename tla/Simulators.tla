----------------------------- MODULE Simulators -----------------------------
(***************************************************************************)
(* The registry of simulators (src/src/simulator.rs) and its teardown      *)
(* (src/src/context_install_guard.rs): simulators are lent out to user     *)
(* code one at a time, notified of the life of the nodes, and dropped when *)
(* the simulation ends or a panic unwinds it.                              *)
(*                                                                         *)
(* All user code is one thread with a stack of frames: the init function   *)
(* and the tasks ("base"), closures that borrow a simulator ("with"),      *)
(* destructors of the tasks of a node that stops ("stop"), callbacks of a  *)
(* notification ("call") and destructors of simulators ("drop").  Every    *)
(* frame of user code may call into the registry again.  The frame "all"   *)
(* is the loop of stop_simulation.  What tasks do is Executor's subject.   *)
(***************************************************************************)
EXTENDS Naturals, Sequences, FiniteSets

CONSTANTS Types,      \* bound: the types of simulators
          PerNode,    \* those of the form PerNode<S>
          MaxNodes,   \* bound: nodes
          MaxDepth    \* bound: nesting of calls

ASSUME SimulatorsAssumption ==
  /\ PerNode \subseteq Types
  /\ MaxNodes \in Nat \ {0} /\ MaxDepth \in Nat \ {0}

INIT    == 1               \* NodeId::INIT
NodeIds == 1 .. MaxNodes
None    == "None"          \* an empty slot

ASSUME NoneAssumption == None \notin Types

VARIABLES
  simulators,          \* SimCxl.simulators: the type in each slot, or None
  simulators_by_type,  \* SimCxl.simulators_by_type: a slot, or 0
  nodes,               \* executor.node_count()
  level,               \* NodeRunLevel of each of them
  final,               \* executor.is_final_stopping()
  seen,                \* the nodes whose creation a simulator saw, INIT first; for PerNode its list
  view,                \* history: the nodes that run as far as a simulator was told
  stack,               \* the frames, the innermost last
  stage,               \* "run", then ContextInstallGuard::destroy: "stop" and "pop"
  mode,                \* "normal", "unwinding" from a panic, "cleanup" by the guard, or how it ended
  lost,                \* history: the slots emptied by a panic that came out of a callback
  refused,             \* history: types whose second registration was refused
  overtaken            \* history: nodes started again while their stop was still going on

regVars  == <<simulators, simulators_by_type>>
nodeVars == <<nodes, level, final>>
histVars == <<lost, refused, overtaken>>
simVars  == <<simulators, simulators_by_type, nodes, level, final, seen, view, stack, stage,
              mode, lost, refused, overtaken>>

\* sim and slot: the simulator that the frame holds; op, node and len: what a
\* notification is about and how many slots there were when it began; for the loop
\* of stop_simulation the next node and the number of nodes.
Frame(k, o, t, s, n, l) == [kind |-> k, op |-> o, sim |-> t, slot |-> s, node |-> n, len |-> l]
UserFrame(k, t, s, n)   == Frame(k, "", t, s, n, 0)

Top       == stack[Len(stack)]
Below     == SubSeq(stack, 1, Len(stack) - 1)
UserKinds == {"base", "with", "stop", "call", "drop"}
Modes     == {"normal", "unwinding", "cleanup", "returned", "panicked", "aborted"}
Slots     == DOMAIN simulators
RunLevels == {"Running", "Stopped", "FinalStopped"}
Running   == {n \in 1 .. nodes : level[n] = "Running"}

Init ==
  /\ simulators = <<>>
  /\ simulators_by_type = [t \in Types |-> 0]
  /\ nodes = 1 /\ final = FALSE
  /\ level = [n \in NodeIds |-> "Running"]
  /\ seen = [t \in Types |-> <<>>]
  /\ view = [t \in Types |-> {}]
  /\ stack = <<UserFrame("base", None, 0, INIT)>>
  /\ stage = "run" /\ mode = "normal"
  /\ lost = {} /\ refused = {} /\ overtaken = {}

\* Code is running: not unwinding, not over.
Active == mode \in {"normal", "cleanup"}

\* User code is running and may call the library.
UserCode == Active /\ stack # <<>> /\ Top.kind \in UserKinds
MayNest  == Len(stack) < MaxDepth

\* A panic; one that leaves a destructor while another unwinds ends the process.
Fail == mode' = IF mode = "normal" THEN "unwinding" ELSE "aborted"

-----------------------------------------------------------------------------
(* Registration and access.                                                *)

\* Mutant: the index is computed after the push.
Add_IndexAfterPush(t) ==
  /\ UserCode
  /\ IF nodes = 1 /\ ~final /\ simulators_by_type[t] = 0
     THEN /\ simulators_by_type' = [simulators_by_type EXCEPT ![t] = Len(simulators) + 2]
          /\ simulators' = Append(simulators, t)
          /\ seen' = [seen EXCEPT ![t] = <<INIT>>]
          /\ view' = [view EXCEPT ![t] = Running]
          /\ UNCHANGED <<mode, refused>>
     ELSE /\ Fail
          /\ UNCHANGED <<simulators_by_type, refused, simulators, seen, view>>
  /\ UNCHANGED <<nodeVars, stack, stage, lost, overtaken>>

\* Mutant: a PerNode starts without the simulator of node INIT.
Add_PerNodeEmpty(t) ==
  /\ UserCode
  /\ IF nodes = 1 /\ ~final /\ simulators_by_type[t] = 0
     THEN /\ simulators_by_type' = [simulators_by_type EXCEPT ![t] = Len(simulators) + 1]
          /\ simulators' = Append(simulators, t)
          /\ view' = [view EXCEPT ![t] = Running]
          /\ UNCHANGED <<mode, refused, seen>>
     ELSE /\ Fail
          /\ UNCHANGED <<simulators_by_type, refused, simulators, seen, view>>
  /\ UNCHANGED <<nodeVars, stack, stage, lost, overtaken>>

\* add_simulator.  The second assertion fails after the type's index was replaced.
Add(t) ==
  /\ UserCode
  /\ IF nodes = 1 /\ ~final
     THEN /\ simulators_by_type' = [simulators_by_type EXCEPT ![t] = Len(simulators) + 1]
          /\ IF simulators_by_type[t] = 0
             THEN /\ simulators' = Append(simulators, t)
                  /\ seen' = [seen EXCEPT ![t] = <<INIT>>]
                  /\ view' = [view EXCEPT ![t] = Running]
                  /\ UNCHANGED <<mode, refused>>
             ELSE /\ Fail
                  /\ refused' = refused \cup {t}
                  /\ UNCHANGED <<simulators, seen, view>>
     ELSE /\ Fail
          /\ UNCHANGED <<regVars, refused, seen, view>>
  /\ UNCHANGED <<nodeVars, stack, stage, lost, overtaken>>

\* A registered type whose simulator can be taken out of its slot.
Available(t) ==
  /\ simulators_by_type[t] \in Slots
  /\ simulators[simulators_by_type[t]] # None

\* Mutant: the simulator is put back before the closure runs.
With_Shared(t) ==
  /\ UserCode
  /\ IF Available(t)
     THEN MayNest /\ stack' = Append(stack, UserFrame("with", t, simulators_by_type[t], 0)) /\ UNCHANGED mode
     ELSE Fail /\ UNCHANGED stack
  /\ UNCHANGED <<regVars, nodeVars, seen, view, stage, histVars>>

\* SimulatorHandle::with: the simulator is taken out for the time of the call.  It
\* panics for a type that was never added, whose slot is gone or is empty.
With(t) ==
  /\ UserCode
  /\ IF Available(t)
     THEN /\ MayNest
          /\ simulators' = [simulators EXCEPT ![simulators_by_type[t]] = None]
          /\ stack' = Append(stack, UserFrame("with", t, simulators_by_type[t], 0))
          /\ UNCHANGED mode
     ELSE Fail /\ UNCHANGED <<simulators, stack>>
  /\ UNCHANGED <<simulators_by_type, nodeVars, seen, view, stage, histVars>>

\* with_node: the closure indexes the list of a PerNode by a node.
IndexNode(n) ==
  /\ UserCode /\ Top.kind = "with" /\ Top.sim \in PerNode
  /\ n <= nodes /\ n > Len(seen[Top.sim])
  /\ Fail
  /\ UNCHANGED <<regVars, nodeVars, seen, view, stack, stage, histVars>>

\* What with's guard does when the closure returns or unwinds.
PutBack == simulators' = [simulators EXCEPT ![Top.slot] = Top.sim]

WithReturn ==
  /\ UserCode /\ Top.kind = "with"
  /\ PutBack
  /\ stack' = Below
  /\ UNCHANGED <<simulators_by_type, nodeVars, seen, view, stage, mode, histVars>>

-----------------------------------------------------------------------------
(* Notifications: for_all_simulators.                                      *)

\* Creations are told in the order of registration, stops and starts in reverse.
FirstSlot(op, len)   == IF len = 0 THEN 0 ELSE IF op = "create" THEN 1 ELSE len
NextSlot(op, s, len) == IF op # "create" THEN s - 1 ELSE IF s < len THEN s + 1 ELSE 0

\* PerNode's stop_node and start_node index the list by the node.
Misses(op, t, n) == op # "create" /\ t \in PerNode /\ n > Len(seen'[t])

\* The simulator in slot s is swapped out and called; after the last one, slot 0,
\* the number of slots must be the same.  reg are the slots and stk is the stack
\* without the notification's own frame.
Visit(reg, stk, op, s, n, len) ==
  \/ /\ s = 0
     /\ simulators' = reg /\ stack' = stk
     /\ IF Len(reg) = len THEN UNCHANGED mode ELSE Fail
     /\ UNCHANGED lost
  \/ /\ s # 0 /\ reg[s] = None
     /\ simulators' = reg /\ stack' = stk
     /\ Fail /\ UNCHANGED lost
  \/ /\ s # 0 /\ reg[s] # None
     /\ simulators' = [reg EXCEPT ![s] = None]
     /\ IF Misses(op, reg[s], n)
        THEN stack' = stk /\ lost' = lost \cup {s} /\ Fail
        ELSE stack' = Append(stk, Frame("call", op, reg[s], s, n, len)) /\ UNCHANGED <<mode, lost>>

\* for_all_simulators, called when the stack is stk.
Notify(stk, op, n) ==
  Visit(simulators, stk, op, FirstSlot(op, Len(simulators)), n, Len(simulators))

\* What a simulator knows after a callback; a PerNode that hears of a new node has
\* made a simulator for it.
Hear(t, op, n) ==
  /\ seen' = IF op = "create" THEN [seen EXCEPT ![t] = Append(@, n)] ELSE seen
  /\ view' = [view EXCEPT ![t] = IF op = "stop" THEN @ \ {n} ELSE @ \cup {n}]

\* A callback returns, its simulator is swapped in, and the next one is called.
CallReturn ==
  /\ UserCode /\ Top.kind = "call"
  /\ Hear(Top.sim, Top.op, Top.node)
  /\ Visit([simulators EXCEPT ![Top.slot] = Top.sim], Below, Top.op,
           NextSlot(Top.op, Top.slot, Top.len), Top.node, Top.len)
  /\ UNCHANGED <<simulators_by_type, nodeVars, stage, refused, overtaken>>

\* NodeId::create_node
CreateNode ==
  /\ UserCode /\ MayNest
  /\ nodes < MaxNodes
  /\ UNCHANGED <<seen, view>>
  /\ IF final THEN Fail /\ UNCHANGED <<simulators, nodes, stack, lost>>
     ELSE nodes' = nodes + 1 /\ Notify(stack, "create", nodes + 1)
  /\ UNCHANGED <<simulators_by_type, level, final, stage, refused, overtaken>>

\* NodeId::stop: the tasks are dropped, then the simulators are told.
StopNode(n) ==
  /\ UserCode /\ MayNest
  /\ n \in Running
  /\ level' = [level EXCEPT ![n] = "Stopped"]
  /\ stack' = Append(stack, UserFrame("stop", None, 0, n))
  /\ UNCHANGED <<regVars, nodes, final, seen, view, stage, mode, histVars>>

\* Mutant: the simulators are not told.
StopReturn_Silent ==
  /\ UserCode /\ Top.kind = "stop"
  /\ stack' = Below
  /\ UNCHANGED <<regVars, nodeVars, seen, view, stage, mode, histVars>>

StopReturn ==
  /\ UserCode /\ Top.kind = "stop"
  /\ UNCHANGED <<seen, view>>
  /\ Notify(Below, "stop", Top.node)
  /\ UNCHANGED <<simulators_by_type, nodeVars, stage, refused, overtaken>>

Stopping(n) == \E i \in DOMAIN stack : stack[i].kind = "stop" /\ stack[i].node = n

\* NodeId::start
StartNode(n) ==
  /\ UserCode /\ MayNest
  /\ n <= nodes /\ n \notin Running
  /\ UNCHANGED <<seen, view>>
  /\ IF level[n] = "FinalStopped"
     THEN Fail /\ UNCHANGED <<simulators, level, stack, lost, overtaken>>
     ELSE /\ level' = [level EXCEPT ![n] = "Running"]
          /\ overtaken' = IF Stopping(n) THEN overtaken \cup {n} ELSE overtaken
          /\ Notify(stack, "start", n)
  /\ UNCHANGED <<simulators_by_type, nodes, final, stage, refused>>

-----------------------------------------------------------------------------
(* stop_simulation and ContextInstallGuard::destroy.                       *)

StopLoop == Frame("all", "", None, 0, INIT, nodes)

StopSimulation ==
  /\ UserCode /\ MayNest
  /\ final' = TRUE
  /\ stack' = Append(stack, StopLoop)
  /\ UNCHANGED <<regVars, nodes, level, seen, view, stage, mode, histVars>>

\* One iteration: the next node is stopped for good.
StopAllNext ==
  /\ Active /\ stack # <<>> /\ Top.kind = "all"
  /\ Top.node <= Top.len
  /\ LET next == [stack EXCEPT ![Len(stack)].node = @ + 1]
     IN  stack' = IF Top.node \in Running THEN Append(next, UserFrame("stop", None, 0, Top.node))
                  ELSE next
  /\ level' = [level EXCEPT ![Top.node] = "FinalStopped"]
  /\ UNCHANGED <<regVars, nodes, final, seen, view, stage, mode, histVars>>

\* The loop ends; if it was destroy's, the simulators come next.
StopAllReturn ==
  /\ Active /\ stack # <<>> /\ Top.kind = "all"
  /\ Top.node > Top.len
  /\ stack' = Below
  /\ stage' = IF Below = <<>> THEN "pop" ELSE stage
  /\ UNCHANGED <<regVars, nodeVars, seen, view, mode, histVars>>

\* Mutant: destroy is called before the executor's loop has ended.
BaseReturn_Early ==
  /\ UserCode /\ Top.kind = "base"
  /\ stage' = "stop" /\ final' = TRUE
  /\ stack' = Append(stack, StopLoop)
  /\ UNCHANGED <<regVars, nodes, level, seen, view, mode, histVars>>

\* The executor's loop has ended: destroy(true).
BaseReturn ==
  /\ UserCode /\ Top.kind = "base"
  /\ stage' = "stop" /\ final' = TRUE
  /\ stack' = <<StopLoop>>
  /\ UNCHANGED <<regVars, nodes, level, seen, view, mode, histVars>>

Popping == Active /\ stage = "pop" /\ stack = <<>>

\* Mutant: the simulators are dropped in the order of registration.
PopSimulator_First ==
  /\ Popping /\ simulators # <<>>
  /\ simulators' = Tail(simulators)
  /\ IF Head(simulators) = None THEN Fail /\ UNCHANGED stack
     ELSE stack' = <<UserFrame("drop", Head(simulators), 1, 0)>> /\ UNCHANGED mode
  /\ UNCHANGED <<simulators_by_type, nodeVars, seen, view, stage, histVars>>

\* The last simulator is taken off the list and dropped; an empty slot panics.
PopSimulator ==
  /\ Popping /\ simulators # <<>>
  /\ simulators' = SubSeq(simulators, 1, Len(simulators) - 1)
  /\ LET x == simulators[Len(simulators)]
     IN  IF x = None THEN Fail /\ UNCHANGED stack
         ELSE stack' = <<UserFrame("drop", x, Len(simulators), 0)>> /\ UNCHANGED mode
  /\ UNCHANGED <<simulators_by_type, nodeVars, seen, view, stage, histVars>>

DropReturn ==
  /\ UserCode /\ Top.kind = "drop"
  /\ stack' = Below
  /\ UNCHANGED <<regVars, nodeVars, seen, view, stage, mode, histVars>>

\* The thread returns the output, or its panic is resumed by run_simulation.
Finish ==
  /\ Popping /\ simulators = <<>>
  /\ mode' = IF mode = "normal" THEN "returned" ELSE "panicked"
  /\ UNCHANGED <<regVars, nodeVars, seen, view, stack, stage, histVars>>

-----------------------------------------------------------------------------
(* Panics.                                                                 *)

\* User code panics.
UserPanic ==
  /\ UserCode /\ mode = "normal"
  /\ Fail
  /\ UNCHANGED <<regVars, nodeVars, seen, view, stack, stage, histVars>>

\* Mutant: with has no guard.
Unwind_NoGuard ==
  /\ mode = "unwinding" /\ stack # <<>>
  /\ lost' = IF Top.kind = "call" THEN lost \cup {Top.slot} ELSE lost
  /\ stack' = Below
  /\ UNCHANGED <<regVars, nodeVars, seen, view, stage, mode, refused, overtaken>>

\* A frame is unwound.  with puts the simulator back; for_all_simulators does not.
Unwind ==
  /\ mode = "unwinding" /\ stack # <<>>
  /\ IF Top.kind = "with" THEN PutBack ELSE UNCHANGED simulators
  /\ lost' = IF Top.kind = "call" THEN lost \cup {Top.slot} ELSE lost
  /\ stack' = Below
  /\ UNCHANGED <<simulators_by_type, nodeVars, seen, view, stage, mode, refused, overtaken>>

\* A destructor of the frame that is unwound needs a simulator that is not there.
UnwindNeeds(t) ==
  /\ mode = "unwinding" /\ stack # <<>> /\ Top.kind \in UserKinds
  /\ ~Available(t)
  /\ Fail
  /\ UNCHANGED <<regVars, nodeVars, seen, view, stack, stage, histVars>>

\* The guard's destructor: destroy(false).
Cleanup ==
  /\ mode = "unwinding" /\ stack = <<>>
  /\ mode' = "cleanup" /\ stage' = "stop" /\ final' = TRUE
  /\ stack' = <<StopLoop>>
  /\ UNCHANGED <<regVars, nodes, level, seen, view, histVars>>

Ended == mode \in {"returned", "panicked", "aborted"} /\ UNCHANGED simVars

ApiCall ==
  \/ \E t \in Types : Add(t) \/ With(t)
  \/ \E n \in NodeIds : IndexNode(n) \/ StopNode(n) \/ StartNode(n)
  \/ CreateNode \/ StopSimulation \/ UserPanic

Return == WithReturn \/ CallReturn \/ StopReturn \/ DropReturn \/ BaseReturn

Library ==
  \/ StopAllNext \/ StopAllReturn \/ PopSimulator \/ Finish \/ Unwind \/ Cleanup
  \/ \E t \in Types : UnwindNeeds(t)

Next == ApiCall \/ Return \/ Library \/ Ended

Spec == Init /\ [][Next]_simVars

-----------------------------------------------------------------------------
(* Properties.                                                             *)

\* Every variable has its type, and the teardown is not called by user code.
TypeOK ==
  /\ simulators \in Seq(Types \cup {None})
  /\ simulators_by_type \in [Types -> Nat]
  /\ nodes \in NodeIds
  /\ level \in [NodeIds -> RunLevels]
  /\ final \in BOOLEAN
  /\ seen \in [Types -> Seq(NodeIds)]
  /\ view \in [Types -> SUBSET NodeIds]
  /\ stack \in Seq([kind : UserKinds \cup {"all"}, op : {"", "create", "stop", "start"},
                    sim : Types \cup {None}, slot : Nat, node : Nat, len : Nat])
  /\ stage \in {"run", "stop", "pop"}
  /\ stage # "run" => \A i \in DOMAIN stack : stack[i].kind # "base"
  /\ mode \in Modes
  /\ lost \subseteq Nat /\ refused \subseteq Types /\ overtaken \subseteq NodeIds

\* The frames that hold the simulator of a slot, and the simulator that belongs to it.
Holders(s)  == {i \in DOMAIN stack : stack[i].kind \in {"with", "call"} /\ stack[i].slot = s}
Occupant(s) == IF Holders(s) = {} THEN simulators[s] ELSE stack[CHOOSE i \in Holders(s) : TRUE].sim

\* A simulator is in its slot or is held by exactly one frame, however accesses,
\* notifications and panics are nested, so that the assertion of with's guard
\* (simulator.rs:71) never fails.  Only a panic that leaves a callback of a
\* notification makes it disappear.
SlotsExact ==
  mode # "aborted" =>
    /\ \A s \in Slots : simulators[s] = None <=> (Holders(s) # {} \/ s \in lost)
    /\ \A i, j \in DOMAIN stack :
         /\ {stack[i].kind, stack[j].kind} \subseteq {"with", "call"}
         /\ stack[i].slot = stack[j].slot
         => i = j /\ stack[i].slot \in Slots \ lost

\* The index leads from a type to its simulator, until add_simulator has refused the
\* type; "there is at most one object for each simulator type" (simulator.rs:9).
RegistryExact ==
  mode # "aborted" =>
    \A s \in Slots \ lost :
      /\ Occupant(s) \in refused \/ simulators_by_type[Occupant(s)] = s
      /\ \A r \in Slots \ lost : Occupant(r) = Occupant(s) => r = s

\* A node has an entry in every PerNode, at its own index, as soon as create_node has
\* told the simulator, also while creations are nested: only code that runs before
\* that can index past the end of the list (simulator.rs:127).
PerNodeComplete ==
  mode = "normal" =>
    \A s \in Slots :
      LET untold == {i \in DOMAIN stack :
                       stack[i].kind = "call" /\ stack[i].op = "create" /\ stack[i].slot <= s}
      IN  seen[Occupant(s)] = [n \in 1 .. nodes - Cardinality(untold) |-> n]

\* When no stop and no notification is going on, every simulator has been told which
\* nodes run; except of a node that a destructor started while it was being stopped:
\* the simulators are told of that stop after the start (executor.rs:544).
ViewsAgree ==
  mode = "normal" /\ (\A i \in DOMAIN stack : stack[i].kind \notin {"stop", "call"}) =>
    \A s \in Slots : view[Occupant(s)] \ overtaken = Running \ overtaken

\* The teardown.  While it drops tasks, every simulator is there for their destructors.
\* While it drops a simulator, those added before it are there and no others.
TeardownOrder ==
  Active /\ stage # "run" =>
    \A t \in Types \ refused : simulators_by_type[t] \notin lost \cup {0} =>
      /\ Len(stack) = 2 /\ Top.kind = "stop" => Available(t)
      /\ Len(stack) = 1 /\ Top.kind = "drop" => (Available(t) <=> simulators_by_type[t] < Top.slot)

\* A panic has come out of a notification: out of a callback, whose simulator
\* for_all_simulators does not put back (simulator.rs:150), or on the way from one
\* simulator to the next, so that a PerNode never heard of a node that runs.
NotificationCut ==
  lost # {} \/ \E t \in PerNode : simulators_by_type[t] # 0 /\ Len(seen[t]) < nodes

\* The guard's own cleanup after a panic runs while the thread unwinds, and a second
\* panic would abort the process.  It does not panic, unless the first panic came out
\* of a notification: then the next notification, the list of a PerNode or the unwrap
\* of context_install_guard.rs:59 misses what the first one left out.
CleanupSucceeds ==
  [][ mode = "cleanup" /\ mode' = "aborted" /\ Len(stack) <= 2 /\ (stack = <<>> \/ stack' # stack)
        => NotificationCut ]_simVars

=============================================================================
