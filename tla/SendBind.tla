------------------------------ MODULE SendBind ------------------------------
(***************************************************************************)
(* NodeBound, SimBound and SimNodeBound (src/src/send_bind.rs,             *)
(* src/src/send_bind_util.rs) in the runs of Builder, and the JoinHandle   *)
(* of the agnostic-lite adapter, which is a SimNodeBound.                  *)
(*                                                                         *)
(* The wrapped values may not be sent between threads (T is not Send).     *)
(* SimBound is Send and Sync all the same, so a wrapper may turn up on any *)
(* thread: in a later run of the simulation, since the function given to   *)
(* run is called again and may have kept it, or on a thread outside.  A    *)
(* bare NodeBound of such a value stays on its thread.                     *)
(***************************************************************************)
EXTENDS Builder

CONSTANTS Values,   \* bound: wrappers that exist at a time
          Nodes     \* bound: nodes

INIT == 1           \* NodeId::INIT

ASSUME SendBindAssumption == INIT \in Nodes

VARIABLES
  NEXT,       \* the counter of ThreadAnchor::new
  anchor,     \* SimCxu.thread_anchor of the simulation's thread
  curNode,    \* SimCxu.current_node
  wrapper,    \* the wrappers that exist
  foreign,    \* history: what was done to a wrapped value on another thread than its own
  stray,      \* history: what was done to one on its thread, but on another node
  leaked      \* history: a wrapper ended without its value being dropped or taken out

bindVars == <<NEXT, anchor, curNode, wrapper, foreign, stray, leaked>>
allVars  == <<builderVars, bindVars>>

\* node: NodeBound.node; id: SimBound.id; home (history): the run that made it.
Wrapper(k, n, i, h) == [kind |-> k, node |-> n, id |-> i, home |-> h]
Free  == Wrapper("free", 0, 0, 0)
Kinds == {"node", "sim", "simnode"}

Outside == 0                    \* a thread that runs no simulation
Threads == {Outside} \cup (IF InSimulation THEN {iter} ELSE {})

BindInit ==
  /\ Init
  /\ NEXT = 0 /\ anchor = 0 /\ curNode = INIT
  /\ wrapper = [v \in Values |-> Free]
  /\ foreign = {} /\ stray = {} /\ leaked = FALSE

\* Code on thread th can get at wrapper v.
Reaches(v, th) ==
  /\ outcome # "aborted"
  /\ wrapper[v].kind \in Kinds
  /\ wrapper[v].kind = "node" => th = wrapper[v].home

\* SimBound::check and NodeBound::check; outside of a simulation there is no context
\* to ask and they panic.
SimCheck(v, th)  == th # Outside /\ wrapper[v].id = anchor
NodeCheck(v, th) == th # Outside /\ wrapper[v].node = curNode

\* The checks on the way to the value: SimNodeBound is a SimBound of a NodeBound.
Passes(v, th) ==
  /\ wrapper[v].kind \in {"sim", "simnode"} => SimCheck(v, th)
  /\ wrapper[v].kind \in {"node", "simnode"} => NodeCheck(v, th)

\* Something is done to the wrapped value.
Touch(op, v, th) ==
  /\ foreign' = IF th # wrapper[v].home THEN foreign \cup {op} ELSE foreign
  /\ stray' = IF th = wrapper[v].home /\ wrapper[v].kind # "sim" /\ wrapper[v].node # curNode
              THEN stray \cup {op} ELSE stray

Untouched == UNCHANGED <<foreign, stray>>

\* Code on thread th goes on, panics, or ends the process.
GoOn      == UNCHANGED <<phase, outcome, curNode>>
Panic(th) == IF th = Outside THEN GoOn ELSE PanicTo /\ curNode' = INIT
Abort     == phase' = "over" /\ outcome' = "aborted" /\ UNCHANGED curNode

\* What no operation on a wrapper changes.
Others == <<check, iterations, iter, handlerVars, trace, first, finished, alarm,
            NEXT, anchor>>

-----------------------------------------------------------------------------

\* From: the wrapper notes where it was made.
Wrap(v, k) ==
  /\ InSimulation
  /\ wrapper[v] = Free
  /\ wrapper' = [wrapper EXCEPT ![v] = Wrapper(k, IF k = "sim" THEN 0 ELSE curNode,
                                                IF k = "node" THEN 0 ELSE anchor, iter)]
  /\ Untouched /\ GoOn /\ UNCHANGED <<leaked, Others>>

\* Deref, DerefMut, Future::poll.
Use(v, th) ==
  /\ Reaches(v, th)
  /\ IF Passes(v, th) THEN Touch("use", v, th) /\ GoOn ELSE Untouched /\ Panic(th)
  /\ UNCHANGED <<wrapper, leaked, Others>>

\* The derived Clone clones the value without a check.
Clone(v, w, th) ==
  /\ Reaches(v, th)
  /\ wrapper[w] = Free
  /\ wrapper' = [wrapper EXCEPT ![w] = wrapper[v]]
  /\ Touch("clone", v, th)
  /\ GoOn /\ UNCHANGED <<leaked, Others>>

\* Mutant: the value is dropped without a check.
DropSim_Unchecked(v, th) ==
  /\ wrapper[v].kind \in {"sim", "simnode"}
  /\ Touch("drop", v, th)
  /\ IF Passes(v, th) THEN GoOn ELSE Panic(th)
  /\ UNCHANGED leaked

\* SimBound's destructor aborts on a foreign thread; there the value stays where it
\* is.  Otherwise a NodeBound in it is dropped.
DropSim(v, th) ==
  /\ wrapper[v].kind \in {"sim", "simnode"}
  /\ IF SimCheck(v, th)
     THEN /\ Touch("drop", v, th)
          /\ IF Passes(v, th) THEN GoOn ELSE Panic(th)
          /\ UNCHANGED leaked
     ELSE Untouched /\ Abort /\ leaked' = TRUE

\* Mutant: the check's panic comes before the value is dropped.
DropNode_NoGuard(v, th) ==
  /\ wrapper[v].kind = "node"
  /\ IF NodeCheck(v, th) THEN Touch("drop", v, th) /\ GoOn /\ UNCHANGED leaked
     ELSE Untouched /\ Panic(th) /\ leaked' = TRUE

\* NodeBound's destructor drops the value in any case, then panics on a foreign node.
DropNode(v, th) ==
  /\ wrapper[v].kind = "node"
  /\ Touch("drop", v, th)
  /\ IF NodeCheck(v, th) THEN GoOn ELSE Panic(th)
  /\ UNCHANGED leaked

Drop(v, th) ==
  /\ Reaches(v, th)
  /\ DropSim(v, th) \/ DropNode(v, th)
  /\ wrapper' = [wrapper EXCEPT ![v] = Free]
  /\ UNCHANGED Others

\* unwrap_sim_bound.  If the check panics, self is dropped by the unwinding and its
\* destructor aborts.
UnwrapSim(v, th) ==
  /\ wrapper[v].kind \in {"sim", "simnode"}
  /\ IF ~SimCheck(v, th) THEN Untouched /\ Abort /\ leaked' = TRUE /\ UNCHANGED wrapper
     ELSE IF wrapper[v].kind = "simnode"
     THEN /\ wrapper' = [wrapper EXCEPT ![v].kind = "node", ![v].id = 0]
          /\ Untouched /\ GoOn /\ UNCHANGED leaked
     ELSE /\ wrapper' = [wrapper EXCEPT ![v] = Free]
          /\ Touch("take", v, th) /\ GoOn /\ UNCHANGED leaked

\* Mutant: the value is taken out before the check.
UnwrapNode_TakesFirst(v, th) ==
  /\ wrapper[v].kind = "node"
  /\ Touch("take", v, th)
  /\ IF NodeCheck(v, th) THEN GoOn ELSE Abort
  /\ wrapper' = [wrapper EXCEPT ![v] = Free]
  /\ UNCHANGED leaked

\* unwrap_node_bound.  If the check panics, the destructor that the unwinding runs
\* drops the value and panics a second time, which aborts.
UnwrapNode(v, th) ==
  /\ wrapper[v].kind = "node"
  /\ IF NodeCheck(v, th) THEN Touch("take", v, th) /\ GoOn ELSE Touch("drop", v, th) /\ Abort
  /\ wrapper' = [wrapper EXCEPT ![v] = Free]
  /\ UNCHANGED leaked

\* JoinHandle::abort and detach unwrap both.
Unwrap(v, th) ==
  /\ Reaches(v, th)
  /\ UnwrapSim(v, th) \/ UnwrapNode(v, th)
  /\ UNCHANGED Others

\* node_scope: the code that runs next is another node's.
EnterNode(n) ==
  /\ phase \in {"loop", "teardown", "cleanup"}
  /\ n # curNode
  /\ curNode' = n
  /\ UNCHANGED <<builderVars, NEXT, anchor, wrapper, foreign, stray, leaked>>

\* ContextInstallGuard::new with ThreadAnchor::new.
InstallAnchor ==
  /\ Install
  /\ NEXT' = NEXT + 1 /\ anchor' = NEXT'
  /\ curNode' = INIT
  /\ UNCHANGED <<wrapper, foreign, stray, leaked>>

\* The other steps of a run; a panic unwinds all node scopes.
RunStep ==
  /\ RunNext
  /\ curNode' = IF phase' = "cleanup" THEN INIT ELSE curNode
  /\ UNCHANGED <<NEXT, anchor, wrapper, foreign, stray, leaked>>

\* run has ended or the process was aborted.
Over == phase = "over" /\ UNCHANGED allVars

BindNext ==
  \/ InstallAnchor \/ RunStep \/ Over
  \/ \E n \in Nodes : EnterNode(n)
  \/ \E v \in Values :
       \/ \E k \in Kinds : Wrap(v, k)
       \/ \E th \in Threads :
            \/ Use(v, th) \/ Drop(v, th) \/ Unwrap(v, th)
            \/ \E w \in Values : Clone(v, w, th)

BindSpec == BindInit /\ [][BindNext]_allVars

-----------------------------------------------------------------------------
(* Properties.                                                             *)

\* "All uses of the possible unsend/unsync inner value happen after checking we are
\* still on the same thread, including dropping it" (send_bind.rs:72): whatever way a
\* wrapper takes through later runs and threads outside, its value is used, taken out
\* and dropped on its own thread only.  Of cloning this is not true: the derived Clone
\* (send_bind.rs:65) runs the value's clone wherever the wrapper is.
HomeThread == foreign \subseteq {"clone"}

\* A value bound to a node is used and taken out on that node only; if its wrapper is
\* dropped elsewhere, "the contained value is dropped before panicking" (send_bind.rs:21).
HomeNode == stray \subseteq {"clone", "drop"}

\* "Continuing execution without dropping would violate the guarantees of Pin"
\* (send_bind.rs:64): a wrapper that ends without its value being dropped or taken out
\* takes the process with it.
PinKept == leaked => outcome = "aborted"

\* No two anchors on different threads have the same id (send_bind.rs:128): the
\* anchor tells the runs of the simulation apart, so a check
\* fails in a later run and never at home.
AnchorExact ==
  InSimulation =>
    \A v \in Values : wrapper[v].kind \in {"sim", "simnode"} =>
      (wrapper[v].id = anchor <=> wrapper[v].home = iter)

=============================================================================
