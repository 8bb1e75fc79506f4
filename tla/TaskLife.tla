------------------------------ MODULE TaskLife ------------------------------
(***************************************************************************)
(* What the executor promises about tasks, without queue, entries, cells   *)
(* or nested calls.  A task is spawned on a node that is up and is live    *)
(* until it completes or is cancelled; its handle reports which.  One task *)
(* executes at a time, only on a node that is up.  Cancelling the task     *)
(* that executes takes effect when it next gives up control, and loses     *)
(* against its completion.                                                 *)
(***************************************************************************)
CONSTANTS TaskIds, NodeIds, INIT, NoTask

VARIABLES fate,   \* "unborn", "live", "doomed", "completed" or "canceled"
          exec,   \* the task whose poll is executing, or NoTask
          home,   \* the node a task was spawned on
          up      \* the nodes that are running

vars == <<fate, exec, home, up>>

Init ==
  /\ fate = [t \in TaskIds |-> "unborn"]
  /\ exec = NoTask
  /\ home = [t \in TaskIds |-> INIT]
  /\ up = {INIT}

Spawn(t, n) ==
  /\ fate[t] = "unborn" /\ n \in up
  /\ fate' = [fate EXCEPT ![t] = "live"]
  /\ home' = [home EXCEPT ![t] = n]
  /\ UNCHANGED <<exec, up>>

Run(t) ==
  /\ exec = NoTask
  /\ fate[t] = "live" /\ home[t] \in up
  /\ exec' = t
  /\ UNCHANGED <<fate, home, up>>

\* The executing task gives up control and stays live.
Yield(t) ==
  /\ exec = t /\ fate[t] = "live"
  /\ exec' = NoTask
  /\ UNCHANGED <<fate, home, up>>

Complete(t) ==
  /\ exec = t /\ fate[t] \in {"live", "doomed"}
  /\ fate' = [fate EXCEPT ![t] = "completed"]
  /\ exec' = NoTask
  /\ UNCHANGED <<home, up>>

Cancel(t) ==
  /\ exec # t /\ fate[t] = "live"
  /\ fate' = [fate EXCEPT ![t] = "canceled"]
  /\ UNCHANGED <<exec, home, up>>

\* The executing task is cancelled, by itself or by something it called.
Doom(t) ==
  /\ exec = t /\ fate[t] = "live"
  /\ fate' = [fate EXCEPT ![t] = "doomed"]
  /\ UNCHANGED <<exec, home, up>>

Unwind(t) ==
  /\ exec = t /\ fate[t] = "doomed"
  /\ fate' = [fate EXCEPT ![t] = "canceled"]
  /\ exec' = NoTask
  /\ UNCHANGED <<home, up>>

NodeUp(n)   == n \notin up /\ up' = up \cup {n} /\ UNCHANGED <<fate, exec, home>>
NodeDown(n) == n \in up /\ up' = up \ {n} /\ UNCHANGED <<fate, exec, home>>

Next ==
  \/ \E t \in TaskIds :
       \/ \E n \in NodeIds : Spawn(t, n)
       \/ Run(t) \/ Yield(t) \/ Complete(t) \/ Cancel(t) \/ Doom(t) \/ Unwind(t)
  \/ \E n \in NodeIds : NodeUp(n) \/ NodeDown(n)

Spec == Init /\ [][Next]_vars

=============================================================================
