------------------------------ MODULE Builder ------------------------------
(***************************************************************************)
(* SimBuilder::run (src/src/sim_builder.rs), the context that each run of  *)
(* the simulation installs (src/src/context_install_guard.rs) and the      *)
(* event handlers that compare the runs (src/src/event.rs).                *)
(*                                                                         *)
(* The simulation itself is left open: it may emit any events, in any      *)
(* order, while it is initialised, runs and is torn down, end or panic.    *)
(* What the root future returns is Executor's subject.                     *)
(***************************************************************************)
EXTENDS Naturals, Sequences

CONSTANTS OtherEvents,      \* bound: the events other than TaskSpawned
          MaxEvents,        \* bound: events of a run
          MaxIterations,    \* bound: iterations asked for
          Hash(_)           \* the hash of a sequence of events

ASSUME BuilderAssumption == MaxEvents \in Nat /\ MaxIterations \in Nat \ {0}

TaskSpawned == "TaskSpawned"
Events      == OtherEvents \cup {TaskSpawned}
Checks      == {"None", "Full", "Hash"}

VARIABLES
  check,               \* SimBuilder.determinism_check
  iterations,          \* how often it asks for the simulation to be run
  iter,                \* the run that is going on, or the last one
  phase,               \* where the simulation's thread is; "caller": there is none
  events_to_validate,  \* what the first run recorded
  next_event_index,    \* ValidatingEventHandler: how many events were compared
  hasher,              \* the events that the hasher of the hashing handlers has taken in
  expected,            \* the first run's hash
  outcome,             \* "running", "returned", "panicked" or "aborted"
  trace,               \* history: the events of this run
  first,               \* history: the events of the first run
  finished,            \* history: the traces of the runs that were not refused
  alarm                \* history: which comparison failed

handlerVars == <<events_to_validate, next_event_index, hasher, expected>>
builderVars == <<check, iterations, iter, phase, events_to_validate, next_event_index, hasher,
                 expected, outcome, trace, first, finished, alarm>>

Init ==
  /\ \/ check = "None" /\ iterations = 1
     \/ check \in {"Full", "Hash"} /\ iterations \in 0 .. MaxIterations
  /\ iter = 0 /\ phase = "caller"
  /\ events_to_validate = <<>> /\ next_event_index = 0
  /\ hasher = <<>> /\ expected = Hash(<<>>)
  /\ outcome = "running"
  /\ trace = <<>> /\ first = <<>> /\ finished = {}
  /\ alarm = "none"

\* The context is installed: user code is running on the simulation's thread.
InSimulation == phase \in {"init", "loop", "teardown", "cleanup"}

\* A panic: the guard's destructor cleans up, and a panic of its own aborts.
PanicTo == IF phase = "cleanup" THEN outcome' = "aborted" /\ phase' = "over"
           ELSE phase' = "cleanup" /\ UNCHANGED outcome

-----------------------------------------------------------------------------
(* Event handlers.                                                         *)

\* Mutant: the last event of the recording is not expected.
Refused_OffByOne(e) ==
  /\ check = "Full" /\ iter > 1
  /\ \/ next_event_index + 1 >= Len(events_to_validate)
     \/ e # events_to_validate[next_event_index + 1]

\* ValidatingEventHandler::handle_event panics.
Refused(e) ==
  /\ check = "Full" /\ iter > 1
  /\ \/ next_event_index >= Len(events_to_validate)
     \/ e # events_to_validate[next_event_index + 1]

\* Mutant: the hasher takes an event without those before it.
Consume_HashLast(e) ==
  /\ events_to_validate' = IF check = "Full" /\ iter = 1 THEN Append(events_to_validate, e)
                           ELSE events_to_validate
  /\ next_event_index' = IF check = "Full" /\ iter > 1 THEN next_event_index + 1 ELSE next_event_index
  /\ hasher' = IF check = "Hash" THEN <<e>> ELSE hasher

\* Mutant: the validating handler does not move on.
Consume_Stays(e) ==
  /\ events_to_validate' = IF check = "Full" /\ iter = 1 THEN Append(events_to_validate, e)
                           ELSE events_to_validate
  /\ hasher' = IF check = "Hash" THEN Append(hasher, e) ELSE hasher
  /\ UNCHANGED next_event_index

\* The handle_event of the other handlers, and of this one when the event is the same.
Consume(e) ==
  /\ events_to_validate' = IF check = "Full" /\ iter = 1 THEN Append(events_to_validate, e)
                           ELSE events_to_validate
  /\ next_event_index' = IF check = "Full" /\ iter > 1 THEN next_event_index + 1 ELSE next_event_index
  /\ hasher' = IF check = "Hash" THEN Append(hasher, e) ELSE hasher

\* An event reaches the handler; if it is accepted, the simulation goes on in phase p.
Handle(e, p) ==
  /\ Len(trace) < MaxEvents
  /\ trace' = Append(trace, e)
  /\ IF Refused(e)
     THEN PanicTo /\ alarm' = "event" /\ UNCHANGED <<events_to_validate, next_event_index, hasher>>
     ELSE Consume(e) /\ phase' = p /\ UNCHANGED <<outcome, alarm>>

\* finalize panics.
Differs ==
  /\ iter > 1
  /\ \/ check = "Full" /\ next_event_index # Len(events_to_validate)
     \/ check = "Hash" /\ Hash(hasher) # expected

-----------------------------------------------------------------------------
(* One run of the simulation.                                              *)

\* The check asks for fewer than two runs.
Refuse ==
  /\ phase = "caller" /\ outcome = "running" /\ iter = 0
  /\ check # "None" /\ iterations <= 1
  /\ outcome' = "panicked" /\ phase' = "over"
  /\ UNCHANGED <<check, iterations, iter, handlerVars, trace, first, finished, alarm>>

\* A new thread, a new context, a new handler.
Install ==
  /\ phase = "caller" /\ outcome = "running"
  /\ check = "None" \/ iterations > 1
  /\ iter < iterations
  /\ iter' = iter + 1 /\ phase' = "init"
  /\ next_event_index' = 0 /\ hasher' = <<>>
  /\ trace' = <<>>
  /\ UNCHANGED <<check, iterations, events_to_validate, expected, outcome, first, finished, alarm>>

\* Code of the simulation does something that is an event.
Emit(e) ==
  /\ InSimulation
  /\ Handle(e, phase)
  /\ UNCHANGED <<check, iterations, iter, expected, first, finished>>

\* f has returned the root future, which is spawned.
InitReturn ==
  /\ phase = "init"
  /\ Handle(TaskSpawned, "loop")
  /\ UNCHANGED <<check, iterations, iter, expected, first, finished>>

\* The root future completes and stops the simulation, somebody else does, or nothing
\* can run any more.
LoopEnds ==
  /\ phase = "loop"
  /\ phase' = "teardown"
  /\ UNCHANGED <<check, iterations, iter, handlerVars, outcome, trace, first, finished, alarm>>

UserPanic ==
  /\ phase \in {"init", "loop", "teardown"}
  /\ PanicTo
  /\ UNCHANGED <<check, iterations, iter, handlerVars, trace, first, finished, alarm>>

\* Mutant: a run that ends too early is not noticed.
Finalize_NoCount ==
  /\ phase = "teardown"
  /\ phase' = "caller"
  /\ IF iter = 1 THEN expected' = Hash(hasher) /\ first' = trace
     ELSE UNCHANGED <<expected, first>>
  /\ finished' = finished \cup {trace}
  /\ UNCHANGED <<check, iterations, iter, events_to_validate, next_event_index, hasher, outcome, trace, alarm>>

\* destroy(true): the context is taken away and the handler finalized, so that its
\* panic finds nothing left to clean up.  The first run leaves its recording or its hash.
Finalize ==
  /\ phase = "teardown"
  /\ IF Differs
     THEN /\ outcome' = "panicked" /\ phase' = "over"
          /\ alarm' = "end"
          /\ UNCHANGED <<expected, first, finished>>
     ELSE /\ phase' = "caller"
          /\ IF iter = 1 THEN expected' = Hash(hasher) /\ first' = trace
             ELSE UNCHANGED <<expected, first>>
          /\ finished' = finished \cup {trace}
          /\ UNCHANGED <<outcome, alarm>>
  /\ UNCHANGED <<check, iterations, iter, events_to_validate, next_event_index, hasher, trace>>

\* The guard's destroy(false) has ended and the panic goes on in the calling thread.
Resume ==
  /\ phase = "cleanup"
  /\ phase' = "over" /\ outcome' = "panicked"
  /\ UNCHANGED <<check, iterations, iter, handlerVars, trace, first, finished, alarm>>

\* All runs are done.
Return ==
  /\ phase = "caller" /\ outcome = "running"
  /\ iter >= 1 /\ iter = iterations
  /\ phase' = "over" /\ outcome' = "returned"
  /\ UNCHANGED <<check, iterations, iter, handlerVars, trace, first, finished, alarm>>

\* A step of a run, or of the calling thread between two runs.
RunNext ==
  \/ Refuse \/ InitReturn \/ LoopEnds \/ UserPanic \/ Finalize \/ Resume \/ Return
  \/ \E e \in Events : Emit(e)

BuilderNext == Install \/ RunNext

BuilderSpec == Init /\ [][BuilderNext]_builderVars

-----------------------------------------------------------------------------
(* Properties.                                                             *)

\* Every variable has its type, and no more events are compared than were recorded.
BuilderTypeOK ==
  /\ check \in Checks
  /\ iterations \in 0 .. MaxIterations
  /\ iter \in 0 .. iterations
  /\ phase \in {"caller", "init", "loop", "teardown", "cleanup", "over"}
  /\ events_to_validate \in Seq(Events)
  /\ next_event_index \in 0 .. Len(events_to_validate)
  /\ hasher \in Seq(Events)
  /\ outcome \in {"running", "returned", "panicked", "aborted"}
  /\ trace \in Seq(Events) /\ first \in Seq(Events) /\ finished \subseteq Seq(Events)
  /\ alarm \in {"none", "event", "end"}

\* trace tr is what the recording ex begins with.
Agrees(tr, ex) == Len(tr) <= Len(ex) /\ \A i \in DOMAIN tr : tr[i] = ex[i]

\* With DeterminismCheck::Full a run has at every moment emitted a beginning of what
\* the first run emitted, and has been compared up to its last event, also in the
\* middle of its teardown: the first event that differs ends it.
ValidatedPrefix ==
  check = "Full" /\ iter > 1 =>
    /\ events_to_validate = first
    /\ phase \in {"init", "loop", "teardown"} => next_event_index = Len(trace) /\ Agrees(trace, first)

\* Non-determinism is reported only of a run that differs from the first, and such a
\* report is never swallowed by what comes after it.
NoFalseAlarm ==
  alarm # "none" =>
    /\ iter > 1 /\ trace # first
    /\ alarm = "event" => ~Agrees(trace, first)
    /\ phase \in {"cleanup", "over"} /\ outcome # "returned"

HashesCompared == check = "Hash" => \A tr \in finished : Hash(tr) = Hash(first)

\* When run returns, the simulation was run as often as was asked for, and with
\* DeterminismCheck::Full every run emitted the same events: "Record the first run and
\* compare all other runs for equality" (sim_builder.rs:29).  With DeterminismCheck::Hash
\* every run that was accepted, in whatever order its events came, has the hash of the
\* first one.
AllRunsCompared ==
  /\ HashesCompared
  /\ outcome = "returned" =>
       /\ iter = iterations /\ first \in finished
       /\ check = "Full" => finished = {first}

=============================================================================
