--------------------------- MODULE TaskLifeProofs ---------------------------
(***************************************************************************)
(* The executor implements TaskLife, and a handle tells what became of its *)
(* task, for every number of tasks and nodes.  The refinement mapping      *)
(* reads the fate of a task off its state, its result and the stack.       *)
(***************************************************************************)
EXTENDS ExecutorProofs

LifeInv == IndInv /\ OutcomeExact

-----------------------------------------------------------------------------
(* The task that executes.                                                 *)

\* The task whose poll is the lowest frame of a stack.
Bottom(s) == IF s # <<>> /\ s[1].kind = "poll" THEN s[1].task ELSE NoTask

\* A call leaves the lowest frame where it is.
LEMMA BottomAppend ==
  ASSUME NEW s \in Seq(FrameType), NEW f \in FrameType, f.kind # "poll"
  PROVE  Bottom(Append(s, f)) = Bottom(s)
<1>1. /\ Len(s) \in Nat /\ (s = <<>> <=> Len(s) = 0)
      /\ \A i \in 1 .. Len(s) : Append(s, f)[i] = s[i]
      /\ Append(s, f)[Len(s) + 1] = f /\ Append(s, f) # <<>>
  BY AppendFacts, EmptySeq
<1>2. CASE s = <<>>
  BY <1>1, <1>2 DEF Bottom
<1>3. CASE s # <<>>
  BY <1>1, <1>3 DEF Bottom
<1>4. QED
  BY <1>2, <1>3

\* So does the return of a frame that is no poll.
LEMMA BottomFront ==
  ASSUME NEW s \in Seq(FrameType), s # <<>>, Last(s).kind # "poll"
  PROVE  Front(s) \in Seq(FrameType) /\ Bottom(Front(s)) = Bottom(s)
<1>1. /\ Len(s) \in Nat \ {0} /\ Front(s) \in Seq(FrameType) /\ Len(Front(s)) = Len(s) - 1
      /\ \A i \in 1 .. Len(s) - 1 : Front(s)[i] = s[i]
      /\ Last(s) = s[Len(s)] /\ (Len(s) = 1 => Front(s) = <<>>)
      /\ (Front(s) # <<>> => Len(s) > 1)
  BY FrontFacts
<1>2. CASE Len(s) = 1
  BY <1>1, <1>2 DEF Bottom
<1>3. CASE Len(s) # 1
  <2>1. Front(s) # <<>> /\ Front(s)[1] = s[1]
    BY <1>1, <1>3, EmptySeq
  <2>2. QED
    BY <1>1, <2>1 DEF Bottom
<1>4. QED
  BY <1>1, <1>2, <1>3

\* A task is being polled exactly if its poll is the lowest frame.
LEMMA PollingIsExecuting ==
  IndInv => \A t \in TaskIds : Polling(t) <=> Executing = t
<1> SUFFICES ASSUME IndInv, NEW t \in TaskIds PROVE Polling(t) <=> Executing = t
  OBVIOUS
<1>1. stack \in Seq(FrameType) /\ Len(stack) \in Nat /\ DOMAIN stack = 1 .. Len(stack) /\ t # NoTask
  BY DEF IndInv, TypeOK, TaskIds, NoTask
<1>2. \A i \in DOMAIN stack : stack[i].kind = "poll" => i = 1
  BY DEF IndInv, Nested, BaseKinds
<1>3. stack # <<>> <=> 1 \in DOMAIN stack
  BY <1>1, EmptySeq
<1>4. QED
  BY <1>1, <1>2, <1>3 DEF Polling, Executing, Range

\* Calls, returns and loops of other frames than polls do not change it.
LEMMA ExecutingKept ==
  ASSUME IndInv
  PROVE  /\ \A f \in FrameType : Push(f) /\ f.kind # "poll" => Executing' = Executing
         /\ UNCHANGED stack => Executing' = Executing
         /\ (stack # <<>> /\ Top.kind # "poll") =>
              /\ Pop => Executing' = Executing
              /\ \A f \in FrameType : f.kind # "poll" =>
                   /\ stack' = Append(Front(stack), f) => Executing' = Executing
                   /\ \A g \in FrameType :
                        g.kind # "poll" /\ stack' = Append(Append(Front(stack), f), g)
                          => Executing' = Executing
<1>1. stack \in Seq(FrameType)
  BY DEF IndInv, TypeOK
<1>2. Executing = Bottom(stack) /\ Executing' = Bottom(stack')
  BY DEF Executing, Bottom
<1>3. ASSUME NEW f \in FrameType, Push(f), f.kind # "poll" PROVE Executing' = Executing
  BY <1>1, <1>2, <1>3, BottomAppend DEF Push
<1>4. ASSUME stack # <<>>, Top.kind # "poll"
      PROVE  Front(stack) \in Seq(FrameType) /\ Bottom(Front(stack)) = Bottom(stack)
  BY <1>1, <1>4, BottomFront DEF Top
<1>5. ASSUME stack # <<>>, Top.kind # "poll", NEW f \in FrameType, f.kind # "poll"
      PROVE  /\ Append(Front(stack), f) \in Seq(FrameType)
             /\ Bottom(Append(Front(stack), f)) = Bottom(stack)
  BY <1>4, <1>5, BottomAppend, AppendFacts
<1>6. ASSUME stack # <<>>, Top.kind # "poll", NEW f \in FrameType, f.kind # "poll",
             NEW g \in FrameType, g.kind # "poll"
      PROVE  Bottom(Append(Append(Front(stack), f), g)) = Bottom(stack)
  <2> DEFINE s == Append(Front(stack), f)
  <2>1. s \in Seq(FrameType) /\ Bottom(s) = Bottom(stack)
    BY <1>5, <1>6
  <2> HIDE DEF s
  <2>2. Bottom(Append(s, g)) = Bottom(s)
    BY <1>6, <2>1, BottomAppend
  <2>3. QED
    BY <2>1, <2>2 DEF s
<1>7. ASSUME stack # <<>>, Top.kind # "poll"
      PROVE  /\ Pop => Executing' = Executing
             /\ \A f \in FrameType : f.kind # "poll" =>
                  /\ stack' = Append(Front(stack), f) => Executing' = Executing
                  /\ \A g \in FrameType :
                       g.kind # "poll" /\ stack' = Append(Append(Front(stack), f), g)
                         => Executing' = Executing
  <2>1. Pop => Executing' = Executing
    BY <1>2, <1>4, <1>7 DEF Pop
  <2>2. ASSUME NEW f \in FrameType, f.kind # "poll", stack' = Append(Front(stack), f)
        PROVE  Executing' = Executing
    BY <1>2, <1>5, <1>7, <2>2
  <2>3. ASSUME NEW f \in FrameType, f.kind # "poll", NEW g \in FrameType, g.kind # "poll",
               stack' = Append(Append(Front(stack), f), g)
        PROVE  Executing' = Executing
    BY <1>2, <1>6, <1>7, <2>3
  <2>4. QED
    BY <2>1, <2>2, <2>3
<1>8. UNCHANGED stack => Executing' = Executing
  BY <1>2
<1>9. QED
  BY <1>3, <1>7, <1>8

-----------------------------------------------------------------------------
(* The mapping.                                                            *)

Fates    == [t \in TaskIds |-> Fate(t)]
UpNodes  == {n \in NodeIds : level[n] = "Running"}
LifeStep == [Life!Next]_(Life!vars)

\* What the fate of a task is read off.
LEMMA FateValues ==
  ASSUME LifeInv, NEW t \in TaskIds
  PROVE  /\ result[t] = "sent" => Fate(t) = "completed"
         /\ result[t] = "canceled" => Fate(t) = "canceled"
         /\ state[t] = "UNBORN" => Fate(t) = "unborn"
         /\ state[t] = "ABORTED_READY" /\ Executing = t => Fate(t) = "doomed"
         /\ state[t] \in LiveStates => Fate(t) = "live" /\ result[t] = "pending"
         /\ result[t] \in Outcomes /\ state[t] \in TaskStates
<1>1. result[t] \in Outcomes /\ state[t] \in TaskStates
  BY DEF LifeInv, IndInv, TypeOK
<1>2. /\ result[t] = "sent" <=> state[t] \in {"COMPLETE", "COMPLETE_READY"}
      /\ result[t] = "canceled" <=> state[t] \in {"ABORTED", "ABORTED_READY"} /\ Executing # t
  BY PollingIsExecuting DEF LifeInv, OutcomeExact
<1>3. QED
  BY <1>1, <1>2 DEF Fate, Outcomes, LiveStates

\* The steps of a task that TaskLife does not see: it is woken, or reaped.
Same(t) ==
  /\ result'[t] = result[t]
  /\ \/ state'[t] = state[t]
     \/ {state[t], state'[t]} \subseteq LiveStates
     \/ {state[t], state'[t]} \subseteq {"COMPLETE", "COMPLETE_READY"}
     \/ state[t] = "ABORTED_READY" /\ state'[t] = "ABORTED" /\ Executing # t

LEMMA SameFate ==
  ASSUME LifeInv, NEW t \in TaskIds, Same(t), Executing' = t <=> Executing = t
  PROVE  /\ Fate(t)' = Fate(t)
         /\ (result[t] = "sent" <=> state[t] \in {"COMPLETE", "COMPLETE_READY"})'
         /\ (result[t] = "canceled" <=> state[t] \in {"ABORTED", "ABORTED_READY"} /\ Executing # t)'
<1>1. /\ result[t] = "sent" <=> state[t] \in {"COMPLETE", "COMPLETE_READY"}
      /\ result[t] = "canceled" <=> state[t] \in {"ABORTED", "ABORTED_READY"} /\ Executing # t
  BY PollingIsExecuting DEF LifeInv, OutcomeExact
<1>2. result[t] \in Outcomes
  BY DEF LifeInv, IndInv, TypeOK
<1>3. QED
  BY <1>1, <1>2 DEF Same, Fate, LiveStates, Outcomes

\* The outcome of the tasks, said with the task that executes.
LEMMA OutcomeNext ==
  ASSUME IndInv',
         \A t \in TaskIds :
           /\ (result[t] = "sent" <=> state[t] \in {"COMPLETE", "COMPLETE_READY"})'
           /\ (result[t] = "canceled" <=> state[t] \in {"ABORTED", "ABORTED_READY"} /\ Executing # t)'
  PROVE  OutcomeExact'
<1>1. (\A t \in TaskIds : Polling(t) <=> Executing = t)'
  BY PollingIsExecuting, PTL
<1>2. QED
  BY <1>1 DEF OutcomeExact

\* A step that decides nothing about a task changes at most which nodes are up.
LEMMA SameStep ==
  ASSUME LifeInv, IndInv', Executing' = Executing, UNCHANGED home,
         \A t \in TaskIds : Same(t),
         \/ UNCHANGED level
         \/ \E n \in NodeIds, l \in RunLevels : level' = [level EXCEPT ![n] = l]
  PROVE  OutcomeExact' /\ LifeStep
<1>1. OutcomeExact'
  BY SameFate, OutcomeNext
<1>2. Fates' = Fates
  BY SameFate DEF Fates
<1>3. CASE UpNodes' = UpNodes
  BY <1>1, <1>2, <1>3 DEF LifeStep, Life!vars, Fates, UpNodes
<1>4. ASSUME NEW n \in NodeIds, NEW l \in RunLevels, level' = [level EXCEPT ![n] = l]
      PROVE  LifeStep
  <2>1. level \in [NodeIds -> RunLevels]
    BY DEF LifeInv, IndInv, TypeOK
  <2>2. CASE l = "Running" /\ level[n] # "Running"
    <3>1. n \notin UpNodes /\ UpNodes' = UpNodes \cup {n}
      BY <1>4, <2>1, <2>2 DEF UpNodes
    <3>2. Life!NodeUp(n)
      BY <1>2, <3>1 DEF Life!NodeUp, Fates, UpNodes
    <3>3. QED
      BY <3>2 DEF LifeStep, Life!Next
  <2>3. CASE l # "Running" /\ level[n] = "Running"
    <3>1. n \in UpNodes /\ UpNodes' = UpNodes \ {n}
      BY <1>4, <2>1, <2>3 DEF UpNodes
    <3>2. Life!NodeDown(n)
      BY <1>2, <3>1 DEF Life!NodeDown, Fates, UpNodes
    <3>3. QED
      BY <3>2 DEF LifeStep, Life!Next
  <2>4. CASE l = "Running" <=> level[n] = "Running"
    <3>1. UpNodes' = UpNodes
      BY <1>4, <2>1, <2>4 DEF UpNodes
    <3>2. QED
      BY <1>3, <3>1
  <2>5. QED
    BY <2>2, <2>3, <2>4
<1>5. CASE UNCHANGED level
  <2>1. UpNodes' = UpNodes
    BY <1>5 DEF UpNodes
  <2>2. QED
    BY <1>1, <1>3, <2>1
<1>6. CASE \E n \in NodeIds, l \in RunLevels : level' = [level EXCEPT ![n] = l]
  BY <1>1, <1>4, <1>6
<1>7. QED
  BY <1>5, <1>6

\* A step that decides something about the task t only.
LEMMA DecidingStep ==
  ASSUME LifeInv, IndInv', NEW t \in TaskIds,
         \A u \in TaskIds : u # t => Same(u) /\ (Executing' = u <=> Executing = u),
         (result[t] = "sent" <=> state[t] \in {"COMPLETE", "COMPLETE_READY"})',
         (result[t] = "canceled" <=> state[t] \in {"ABORTED", "ABORTED_READY"} /\ Executing # t)'
  PROVE  /\ OutcomeExact'
         /\ Fates' = [Fates EXCEPT ![t] = Fate(t)']
         /\ Fates[t] = Fate(t)
         /\ LifeInv'
<1>1. OutcomeExact'
  BY SameFate, OutcomeNext
<1>2. Fates' = [Fates EXCEPT ![t] = Fate(t)']
  BY SameFate DEF Fates
<1>3. QED
  BY <1>1, <1>2 DEF Fates, LifeInv

-----------------------------------------------------------------------------
(* Every action, but those on polls.                                       *)

\* The same, for a step that leaves the tasks alone.
LEMMA TasksKept ==
  ASSUME LifeInv, IndInv', Executing' = Executing, UNCHANGED taskVars,
         \/ UNCHANGED level
         \/ \E n \in NodeIds, l \in RunLevels : level' = [level EXCEPT ![n] = l]
  PROVE  OutcomeExact' /\ LifeStep
BY SameStep DEF Same, taskVars

\* A panic leaves everything as it was.
LEMMA FailLife ==
  ASSUME LifeInv, IndInv', NEW r, Fail(r)
  PROVE  OutcomeExact' /\ LifeStep
<1>1. UNCHANGED <<taskVars, level, stack>>
  BY DEF Fail, ctlVars, nodeVars
<1>2. QED
  BY <1>1, ExecutingKept, TasksKept DEF LifeInv

\* A frame of the library, or of user code that is no poll, returns.
LEMMA ReturnLife ==
  ASSUME LifeInv, IndInv', UserReturn \/ StopAllReturn \/ TimeReturn
  PROVE  OutcomeExact' /\ LifeStep
<1>1. stack # <<>> /\ Top.kind # "poll" /\ Pop /\ UNCHANGED <<taskVars, level>>
  BY DEF UserReturn, StopAllReturn, TimeReturn, InFrame, nodeVars
<1>2. QED
  BY <1>1, ExecutingKept, TasksKept DEF LifeInv

\* The main loop, the root task or user code calls a loop of the library.
LEMMA CallLife ==
  ASSUME LifeInv, IndInv', NEW k \in {"time", "stopall", "simdrop"}, NEW todo \in SUBSET Nat,
         Push(Frame(k, curNode, NoTask, todo)), UNCHANGED <<taskVars, level>>
  PROVE  OutcomeExact' /\ LifeStep
<1> DEFINE f == Frame(k, curNode, NoTask, todo)
<1>1. f \in FrameType /\ f.kind = k
  <2>1. TypeOK /\ curNode \in NodeIds /\ k \in UserKinds \cup LibraryKinds
    BY DEF LifeInv, IndInv, TypeOK, LibraryKinds, UserKinds
  <2>2. QED
    BY <2>1, FrameTyped
<1>2. Push(f)
  OBVIOUS
<1> HIDE DEF f
<1>3. QED
  BY <1>1, <1>2, ExecutingKept, TasksKept DEF LifeInv

LEMMA StopSimulationLife ==
  ASSUME LifeInv, IndInv', EnterStopSimulation, UNCHANGED <<taskVars, level>>
  PROVE  OutcomeExact' /\ LifeStep
<1>1. {n \in NodeIds : level[n] # "Absent"} \in SUBSET Nat
  BY ExecutorAssumption DEF NodeIds
<1>2. QED
  BY <1>1, CallLife DEF EnterStopSimulation

\* A node goes up; the simulators are told, unless that panics.
LEMMA NodeUpLife ==
  ASSUME LifeInv, IndInv', NEW n \in NodeIds, CreateNode(n) \/ StartNode(n)
  PROVE  OutcomeExact' /\ LifeStep
<1>1. CASE Fail("user")
  BY <1>1, FailLife
<1>2. CASE ~Fail("user")
  <2>1. /\ level' = [level EXCEPT ![n] = "Running"] /\ NotifySimulators(n, stack, curNode)
        /\ UNCHANGED taskVars
    BY <1>2 DEF CreateNode, StartNode
  <2>2. Executing' = Executing
    <3> DEFINE f == [Frame("callback", n, NoTask, {}) EXCEPT !.caller = curNode]
    <3>1. f \in FrameType /\ f.kind = "callback" /\ f.node = n
      BY DEF Frame, FrameType, UserKinds, LifeInv, IndInv, TypeOK
    <3>2. Push(f) \/ UNCHANGED stack
      BY <2>1 DEF NotifySimulators, Push, ctlVars, Frame
    <3> HIDE DEF f
    <3>3. QED
      BY <3>1, <3>2, ExecutingKept DEF LifeInv
  <2>3. QED
    BY <2>1, <2>2, TasksKept DEF RunLevels
<1>3. QED
  BY <1>1, <1>2

\* A node goes down.
LEMMA StopNodeLife ==
  ASSUME LifeInv, IndInv', NEW n \in NodeIds, StopNode(n)
  PROVE  OutcomeExact' /\ LifeStep
<1> DEFINE f == Frame("stop", n, NoTask, nodeTasks[n])
<1>1. f \in FrameType /\ f.kind = "stop"
  BY StopFrame DEF LifeInv
<1>2. Push(f) /\ level' = [level EXCEPT ![n] = "Stopped"] /\ UNCHANGED taskVars
  BY DEF StopNode, EnterStop
<1> HIDE DEF f
<1>3. QED
  BY <1>1, <1>2, ExecutingKept, TasksKept DEF LifeInv, RunLevels

\* So it does in the loop of stop_simulation, if it was up.
LEMMA StopAllNextLife ==
  ASSUME LifeInv, IndInv', NEW n \in NodeIds, StopAllNext(n)
  PROVE  OutcomeExact' /\ LifeStep
<1> DEFINE f    == Frame("stop", n, NoTask, nodeTasks[n])
           rest == [Top EXCEPT !.todo = @ \ {n}]
<1>1. /\ stack # <<>> /\ Top.kind = "stopall" /\ level' = [level EXCEPT ![n] = "FinalStopped"]
      /\ UNCHANGED taskVars
  BY DEF StopAllNext, InFrame
<1>2. f \in FrameType /\ f.kind = "stop"
  BY StopFrame DEF LifeInv
<1>3. rest \in FrameType /\ rest.kind = "stopall"
  <2>1. Top \in FrameType
    BY <1>1, TopFacts DEF LifeInv, IndInv
  <2>2. QED
    BY <1>1, <2>1 DEF FrameType
<1>4. stack' = Append(Append(Front(stack), rest), f) \/ stack' = Append(Front(stack), rest)
  BY DEF StopAllNext, Swap
<1> HIDE DEF f, rest
<1>5. QED
  BY <1>1, <1>2, <1>3, <1>4, ExecutingKept, TasksKept DEF LifeInv, RunLevels

\* The simulators are told of the stop.
LEMMA StopNotifyLife ==
  ASSUME LifeInv, IndInv', StopNotify
  PROVE  OutcomeExact' /\ LifeStep
<1> DEFINE f == [Frame("callback", Top.node, NoTask, {}) EXCEPT !.caller = Top.caller]
<1>1. stack # <<>> /\ Top.kind = "stop" /\ UNCHANGED <<taskVars, level>>
  BY DEF StopNotify, InFrame, nodeVars
<1>2. f \in FrameType /\ f.kind = "callback"
  <2>1. Top \in FrameType
    BY <1>1, TopFacts DEF LifeInv, IndInv
  <2>2. QED
    BY <2>1 DEF Frame, FrameType, UserKinds
<1>3. UNCHANGED stack \/ Pop \/ stack' = Append(Front(stack), f)
  BY DEF StopNotify, NotifySimulators, ctlVars, Pop
<1> HIDE DEF f
<1>4. QED
  BY <1>1, <1>2, <1>3, ExecutingKept, TasksKept DEF LifeInv

\* A new task is born live, on a node that is up.
LEMMA NewTaskLife ==
  ASSUME LifeInv, IndInv', NEW n \in NodeIds, level[n] = "Running", NewTask(n),
         UNCHANGED level, Executing' = Executing
  PROVE  OutcomeExact' /\ LifeStep
<1>0. lastId + 1 \in TaskIds /\ state[lastId + 1] = "UNBORN"
  BY NewTaskStep, Halves DEF LifeInv
<1> PICK t \in TaskIds : t = lastId + 1
  BY <1>0
<1>1. t \in TaskIds /\ state[t] = "UNBORN"
  BY <1>0
<1>2. /\ state' = [state EXCEPT ![t] = "READY"] /\ home' = [home EXCEPT ![t] = n]
      /\ UNCHANGED result
  BY DEF NewTask
<1>3. state \in [TaskIds -> TaskStates] /\ result \in [TaskIds -> Outcomes]
  BY DEF LifeInv, IndInv, TypeOK
<1>4. /\ result[t] = "pending" /\ Fate(t) = "unborn"
      /\ Executing # t
  <2>1. Executing # t
    BY <1>1, PollingIsExecuting DEF LifeInv, IndInv, Polling, FrameExact, LiveStates
  <2>2. result[t] = "pending"
    BY <1>1, <1>3 DEF LifeInv, OutcomeExact, Outcomes
  <2>3. QED
    BY <1>1, <2>1, <2>2, FateValues
<1>5. result'[t] = "pending" /\ state'[t] = "READY" /\ Executing' # t
  BY <1>1, <1>2, <1>3, <1>4
<1>6. Fate(t)' = "live"
  BY <1>5 DEF Fate
<1>7. \A u \in TaskIds : u # t => Same(u)
  BY <1>1, <1>2, <1>3 DEF Same
<1>8. OutcomeExact' /\ Fates' = [Fates EXCEPT ![t] = "live"] /\ Fates[t] = "unborn"
  BY <1>1, <1>4, <1>5, <1>6, <1>7, DecidingStep
<1>9. Life!Spawn(t, n)
  BY <1>2, <1>8 DEF Life!Spawn, Fates
<1>10. QED
  BY <1>1, <1>8, <1>9 DEF LifeStep, Life!Next

\* abort_local cancels a task, or dooms it if it executes.
LEMMA AbortLife ==
  ASSUME LifeInv, IndInv', NEW t \in TaskIds, Abortable(t), abort_local(t),
         UNCHANGED level, Executing' = Executing
  PROVE  OutcomeExact' /\ LifeStep
<1>1. state \in [TaskIds -> TaskStates] /\ result \in [TaskIds -> Outcomes]
  BY DEF LifeInv, IndInv, TypeOK
<1>2. state[t] \in LiveStates /\ Fate(t) = "live" /\ result[t] = "pending"
  BY FateValues DEF Abortable
<1>3. t \in slot <=> Executing # t
  BY <1>2, PollingIsExecuting DEF LifeInv, IndInv, SlotExact
<1>4. /\ state'[t] = "ABORTED_READY"
      /\ result'[t] = IF Executing # t THEN "canceled" ELSE "pending"
      /\ \A u \in TaskIds : u # t => Same(u)
      /\ UNCHANGED home
  BY <1>1, <1>2, <1>3 DEF abort_local, Same
<1>5. CASE Executing # t
  <2>1. Fate(t)' = "canceled"
    BY <1>4, <1>5 DEF Fate
  <2>2. OutcomeExact' /\ Fates' = [Fates EXCEPT ![t] = "canceled"] /\ Fates[t] = "live"
    BY <1>2, <1>4, <1>5, <2>1, DecidingStep
  <2>3. Life!Cancel(t)
    BY <1>4, <1>5, <2>2 DEF Life!Cancel, Fates
  <2>4. QED
    BY <2>2, <2>3 DEF LifeStep, Life!Next
<1>6. CASE Executing = t
  <2>1. Fate(t)' = "doomed"
    BY <1>4, <1>6 DEF Fate
  <2>2. OutcomeExact' /\ Fates' = [Fates EXCEPT ![t] = "doomed"] /\ Fates[t] = "live"
    BY <1>2, <1>4, <1>6, <2>1, DecidingStep
  <2>3. Life!Doom(t)
    BY <1>4, <1>6, <2>2 DEF Life!Doom, Fates
  <2>4. QED
    BY <2>2, <2>3 DEF LifeStep, Life!Next
<1>7. QED
  BY <1>5, <1>6

\* Executor::spawn, by user code or for the root task.
LEMMA SpawnLife ==
  ASSUME LifeInv, IndInv', NEW n \in NodeIds, Spawn(n)
  PROVE  OutcomeExact' /\ LifeStep
<1>1. CASE Fail("user")
  BY <1>1, FailLife
<1>2. CASE level[n] = "Running" /\ NewTask(n) /\ UNCHANGED <<nodeVars, ctlVars>>
  BY <1>2, NewTaskLife, ExecutingKept DEF nodeVars, ctlVars, LifeInv
<1>3. QED
  BY <1>1, <1>2 DEF Spawn

LEMMA InitReturnLife ==
  ASSUME LifeInv, IndInv', InitReturn
  PROVE  OutcomeExact' /\ LifeStep
<1>1. stack # <<>> /\ Top.kind # "poll" /\ curNode \in NodeIds
  BY DEF InitReturn, InFrame, LifeInv, IndInv, TypeOK
<1>2. CASE Fail("user")
  BY <1>2, FailLife
<1>3. CASE level[curNode] = "Running" /\ NewTask(curNode) /\ Pop /\ UNCHANGED nodeVars
  BY <1>1, <1>3, NewTaskLife, ExecutingKept DEF nodeVars, LifeInv
<1>4. QED
  BY <1>2, <1>3 DEF InitReturn

\* Waking a task decides nothing.
LEMMA WakeLife ==
  ASSUME LifeInv, IndInv', NEW t \in TaskIds, Wake(t)
  PROVE  OutcomeExact' /\ LifeStep
<1>1. /\ state[t] = "WAITING" /\ state' = [state EXCEPT ![t] = "READY"]
      /\ UNCHANGED <<home, result, level, stack>>
  BY DEF Wake, nodeVars, ctlVars
<1>2. \A u \in TaskIds : Same(u)
  BY <1>1 DEF Same, LiveStates, LifeInv, IndInv, TypeOK
<1>3. QED
  BY <1>1, <1>2, ExecutingKept, SameStep DEF LifeInv

\* AbortHandle::abort_inner drops the future in its own node.
LEMMA AbortHandleLife ==
  ASSUME LifeInv, IndInv', NEW t \in TaskIds, Abort(t)
  PROVE  OutcomeExact' /\ LifeStep
<1> DEFINE f == Frame("drop", home[t], t, {})
<1>1. f \in FrameType /\ f.kind = "drop"
  BY FrameTyped DEF LifeInv, IndInv, TypeOK, UserKinds
<1>2. /\ Abortable(t) /\ abort_local(t) /\ UNCHANGED level
      /\ Push(f) \/ UNCHANGED stack
  BY DEF Abort, nodeVars, ctlVars
<1> HIDE DEF f
<1>3. QED
  BY <1>1, <1>2, ExecutingKept, AbortLife DEF LifeInv

\* stop_node aborts a task of its snapshot, or skips it.
LEMMA StopNextLife ==
  ASSUME LifeInv, IndInv', NEW t \in TaskIds, StopNext(t)
  PROVE  OutcomeExact' /\ LifeStep
<1> DEFINE rest == [Top EXCEPT !.todo = @ \ {t}]
           f    == Frame("drop", curNode, t, {})
<1>1. stack # <<>> /\ Top.kind = "stop" /\ UNCHANGED level
  BY DEF StopNext, InFrame, nodeVars
<1>2. f \in FrameType /\ f.kind = "drop"
  BY FrameTyped DEF LifeInv, IndInv, TypeOK, UserKinds
<1>3. rest \in FrameType /\ rest.kind = "stop"
  <2>1. Top \in FrameType
    BY <1>1, TopFacts DEF LifeInv, IndInv
  <2>2. QED
    BY <1>1, <2>1 DEF FrameType
<1>4. /\ \/ stack' = Append(Append(Front(stack), rest), f)
         \/ stack' = Append(Front(stack), rest)
      /\ \/ Abortable(t) /\ abort_local(t)
         \/ UNCHANGED taskVars
  BY DEF StopNext, Swap
<1> HIDE DEF f, rest
<1>5. Executing' = Executing
  BY <1>1, <1>2, <1>3, <1>4, ExecutingKept DEF LifeInv
<1>6. QED
  BY <1>1, <1>4, <1>5, AbortLife, TasksKept

-----------------------------------------------------------------------------
(* Polls.                                                                  *)

\* The main loop polls a live task, whose node is up.
LEMMA RunReadyLife ==
  ASSUME LifeInv, IndInv', NEW t \in TaskIds, RunReady(t)
  PROVE  OutcomeExact' /\ LifeStep
<1> DEFINE f == Frame("poll", home[t], t, {})
<1>1. /\ stack = <<>> /\ Push(f) /\ state[t] = "READY" /\ state' = [state EXCEPT ![t] = "WAITING"]
      /\ UNCHANGED <<home, result, level>>
  BY DEF RunReady, Popping, AtMainLoop, nodeVars
<1>2. /\ state \in [TaskIds -> TaskStates] /\ result \in [TaskIds -> Outcomes]
      /\ home[t] \in NodeIds
  BY DEF LifeInv, IndInv, TypeOK
<1>3. Executing = NoTask /\ Executing' = t
  BY <1>1 DEF Executing, Push, Frame
<1>4. Fate(t) = "live" /\ result[t] = "pending"
  BY <1>1, FateValues DEF LiveStates
<1>5. result'[t] = "pending" /\ state'[t] = "WAITING"
  BY <1>1, <1>2, <1>4
<1>6. Fate(t)' = "live"
  BY <1>5 DEF Fate
<1>7. \A u \in TaskIds : u # t => Same(u) /\ (Executing' = u <=> Executing = u)
  BY <1>1, <1>2, <1>3 DEF Same, TaskIds, NoTask
<1>8. OutcomeExact' /\ Fates' = [Fates EXCEPT ![t] = "live"] /\ Fates[t] = "live"
  BY <1>4, <1>5, <1>6, <1>7, DecidingStep
<1>9. Fates' = Fates
  BY <1>8 DEF Fates
<1>10. level[home[t]] = "Running"
  BY <1>1 DEF LifeInv, IndInv, StopCovers, Range, LiveStates
<1>11. Life!Run(t)
  BY <1>1, <1>2, <1>3, <1>8, <1>9, <1>10 DEF Life!Run, Fates
<1>12. QED
  BY <1>8, <1>11 DEF LifeStep, Life!Next

\* Forgetting a task that has ended decides nothing.
LEMMA ReapLife ==
  ASSUME LifeInv, IndInv', NEW t \in TaskIds, Reap(t)
  PROVE  OutcomeExact' /\ LifeStep
<1>1. /\ stack = <<>> /\ state[t] \in {"COMPLETE_READY", "ABORTED_READY"}
      /\ state' = [state EXCEPT ![t] = IF @ = "COMPLETE_READY" THEN "COMPLETE" ELSE "ABORTED"]
      /\ UNCHANGED <<home, result, level, stack>>
  BY DEF Reap, Popping, AtMainLoop, nodeVars, ctlVars
<1>2. Executing # t
  BY <1>1 DEF Executing, TaskIds, NoTask
<1>3. \A u \in TaskIds : Same(u)
  BY <1>1, <1>2 DEF Same, LifeInv, IndInv, TypeOK
<1>4. QED
  BY <1>1, <1>3, ExecutingKept, SameStep DEF LifeInv

\* What holds when a poll returns, and of the stack that it leaves.
LEMMA PollEnds ==
  ASSUME LifeInv, NEW t \in TaskIds, InFrame({"poll"}), Top.task = t, Pop \/ DropAfterPoll(t)
  PROVE  Executing = t /\ Executing' = NoTask
<1>1. /\ Polling(t) /\ stack # <<>> /\ Front(stack) = <<>> /\ Top.kind = "poll"
      /\ Top \in FrameType
  BY PollFacts DEF LifeInv
<1>2. Executing = t
  BY <1>1, PollingIsExecuting DEF LifeInv
<1>3. CASE Pop
  BY <1>1, <1>2, <1>3 DEF Pop, Executing
<1>4. CASE DropAfterPoll(t)
  <2> DEFINE f == [Top EXCEPT !.kind = "enddrop"]
  <2>1. f.kind = "enddrop" /\ stack' = Append(<<>>, f)
    BY <1>1, <1>4 DEF DropAfterPoll, Swap, FrameType
  <2> HIDE DEF f
  <2>2. stack' # <<>> /\ stack'[1].kind = "enddrop"
    BY <2>1
  <2>3. QED
    BY <1>2, <2>2 DEF Executing
<1>5. QED
  BY <1>3, <1>4

\* A poll returns Pending: the task gives up control, or is cancelled at last.
LEMMA PollPendingLife ==
  ASSUME LifeInv, IndInv', NEW t \in TaskIds, PollPending(t)
  PROVE  OutcomeExact' /\ LifeStep
<1>1. /\ Pop \/ DropAfterPoll(t)
      /\ InFrame({"poll"}) /\ Top.task = t /\ UNCHANGED <<state, home, level>>
  BY DEF PollPending, nodeVars
<1>2. Executing = t /\ Executing' = NoTask /\ t # NoTask
  BY <1>1, PollEnds DEF TaskIds, NoTask
<1>3. result \in [TaskIds -> Outcomes]
  BY DEF LifeInv, IndInv, TypeOK
<1>4. CASE state[t] = "ABORTED_READY" /\ result' = [result EXCEPT ![t] = "canceled"]
  <2>1. Fate(t) = "doomed"
    BY <1>2, <1>4, FateValues
  <2>2. Fate(t)' = "canceled" /\ result'[t] = "canceled" /\ state'[t] = "ABORTED_READY"
    BY <1>1, <1>3, <1>4 DEF Fate
  <2>3. \A u \in TaskIds : u # t => Same(u) /\ (Executing' = u <=> Executing = u)
    BY <1>1, <1>2, <1>3, <1>4 DEF Same, TaskIds, NoTask
  <2>4. OutcomeExact' /\ Fates' = [Fates EXCEPT ![t] = "canceled"] /\ Fates[t] = "doomed"
    BY <1>2, <2>1, <2>2, <2>3, DecidingStep
  <2>5. Life!Unwind(t)
    BY <1>1, <1>2, <2>4 DEF Life!Unwind, Fates
  <2>6. QED
    BY <2>4, <2>5 DEF LifeStep, Life!Next
<1>5. CASE state[t] \in LiveStates /\ UNCHANGED result
  <2>1. Fate(t) = "live" /\ result[t] = "pending"
    BY <1>5, FateValues
  <2>2. Fate(t)' = "live" /\ result'[t] = "pending" /\ state'[t] \in LiveStates
    BY <1>1, <1>5, <2>1 DEF Fate, LiveStates
  <2>3. \A u \in TaskIds : u # t => Same(u) /\ (Executing' = u <=> Executing = u)
    BY <1>1, <1>2, <1>5 DEF Same, TaskIds, NoTask
  <2>4. OutcomeExact' /\ Fates' = [Fates EXCEPT ![t] = "live"] /\ Fates[t] = "live"
    BY <1>2, <2>1, <2>2, <2>3, DecidingStep DEF LiveStates
  <2>5. Fates' = Fates
    BY <2>4 DEF Fates
  <2>6. Life!Yield(t)
    BY <1>1, <1>2, <2>4, <2>5 DEF Life!Yield, Fates
  <2>7. QED
    BY <2>4, <2>6 DEF LifeStep, Life!Next
<1>6. QED
  BY <1>4, <1>5 DEF PollPending

\* A poll returns Ready: the task is complete, also if it was cancelled meanwhile.
LEMMA PollReadyLife ==
  ASSUME LifeInv, IndInv', NEW t \in TaskIds, PollReady(t)
  PROVE  OutcomeExact' /\ LifeStep
<1>1. /\ DropAfterPoll(t) /\ InFrame({"poll"}) /\ Top.task = t
      /\ result' = [result EXCEPT ![t] = "sent"] /\ UNCHANGED <<home, level>>
      /\ \E done \in {"COMPLETE", "COMPLETE_READY"} : state' = [state EXCEPT ![t] = done]
  BY DEF PollReady, nodeVars
<1>2. Executing = t /\ Executing' = NoTask /\ t # NoTask
  BY <1>1, PollEnds DEF TaskIds, NoTask
<1>3. state \in [TaskIds -> TaskStates] /\ result \in [TaskIds -> Outcomes]
  BY DEF LifeInv, IndInv, TypeOK
<1>4. state[t] \in LiveStates \cup {"ABORTED_READY"}
  BY <1>1, PollFacts DEF LifeInv
<1>5. Fate(t) \in {"live", "doomed"}
  BY <1>2, <1>4, FateValues
<1>6. result'[t] = "sent" /\ state'[t] \in {"COMPLETE", "COMPLETE_READY"}
  BY <1>1, <1>3
<1>7. Fate(t)' = "completed"
  BY <1>6 DEF Fate
<1>8. \A u \in TaskIds : u # t => Same(u) /\ (Executing' = u <=> Executing = u)
  BY <1>1, <1>2, <1>3 DEF Same, TaskIds, NoTask
<1>9. /\ OutcomeExact' /\ Fates' = [Fates EXCEPT ![t] = "completed"]
      /\ Fates[t] \in {"live", "doomed"}
  BY <1>2, <1>5, <1>6, <1>7, <1>8, DecidingStep
<1>10. Life!Complete(t)
  BY <1>1, <1>2, <1>9 DEF Life!Complete, Fates
<1>11. QED
  BY <1>9, <1>10 DEF LifeStep, Life!Next

-----------------------------------------------------------------------------
(* The theorems.                                                           *)

LEMMA LifeInvInit == Init => LifeInv /\ Life!Init
<1> SUFFICES ASSUME Init PROVE LifeInv /\ Life!Init
  OBVIOUS
<1>1. IndInv
  BY IndInvInit
<1>2. Executing = NoTask
  BY DEF Init, Executing
<1>3. OutcomeExact
  BY <1>1, <1>2, PollingIsExecuting DEF Init, OutcomeExact
<1>4. \A t \in TaskIds : Fate(t) = "unborn"
  BY DEF Init, Fate
<1>5. UpNodes = {INIT}
  BY ExecutorAssumption DEF Init, UpNodes, NodeIds, INIT
<1>6. Life!Init
  BY <1>2, <1>4, <1>5 DEF Init, Life!Init, UpNodes
<1>7. QED
  BY <1>1, <1>3, <1>6 DEF LifeInv

LEMMA LifeInvStep == LifeInv /\ IndInv' /\ [Next]_vars => OutcomeExact' /\ LifeStep
<1> SUFFICES ASSUME LifeInv, IndInv', [Next]_vars PROVE OutcomeExact' /\ LifeStep
  OBVIOUS
<1>1. ASSUME NEW n \in NodeIds,
             Spawn(n) \/ CreateNode(n) \/ StopNode(n) \/ StartNode(n) \/ StopAllNext(n)
      PROVE  OutcomeExact' /\ LifeStep
  BY <1>1, SpawnLife, NodeUpLife, StopNodeLife, StopAllNextLife
<1>2. ASSUME NEW t \in TaskIds, Wake(t) \/ Abort(t) \/ StopNext(t) \/ RunReady(t) \/ Reap(t)
                                 \/ PollPending(t) \/ PollReady(t)
      PROVE  OutcomeExact' /\ LifeStep
  BY <1>2, WakeLife, AbortHandleLife, StopNextLife, RunReadyLife, ReapLife, PollPendingLife,
     PollReadyLife
<1>3. CASE StopSimulation \/ RootReturn \/ BreakLoop
  BY <1>3, StopSimulationLife DEF StopSimulation, RootReturn, BreakLoop
<1>4. CASE BorrowedCall
  BY <1>4, FailLife DEF BorrowedCall
<1>5. CASE InitReturn \/ UserReturn \/ StopAllReturn \/ TimeReturn \/ StopNotify
  BY <1>5, InitReturnLife, ReturnLife, StopNotifyLife
<1>6. CASE AdvanceTime
  BY <1>6, CallLife DEF AdvanceTime, nodeVars
<1>7. CASE DropSimulators
  <2>1. UNCHANGED <<taskVars, level>> /\ (Push(Frame("simdrop", curNode, NoTask, {})) \/ UNCHANGED stack)
    BY <1>7 DEF DropSimulators, nodeVars, ctlVars
  <2>2. QED
    BY <2>1, CallLife, ExecutingKept, TasksKept DEF LifeInv
<1>8. CASE Finalize \/ Ended \/ UNCHANGED vars
  <2>1. UNCHANGED <<taskVars, level, stack>>
    BY <1>8 DEF Finalize, Ended, vars, nodeVars, ctlVars
  <2>2. QED
    BY <2>1, ExecutingKept, TasksKept DEF LifeInv
<1>9. QED
  BY <1>1, <1>2, <1>3, <1>4, <1>5, <1>6, <1>7, <1>8 DEF Next, ApiCall, Return, Library

\* The outcome that a TaskHandle reports is what happened to the future, whenever it
\* was aborted, completed or reaped, and by whom.
THEOREM OutcomeCorrect == Spec => []OutcomeExact
<1>1. Init => LifeInv
  BY LifeInvInit
<1>2. LifeInv /\ [Next]_vars => LifeInv'
  BY IndInvStep, LifeInvStep DEF LifeInv
<1>3. LifeInv => OutcomeExact
  BY DEF LifeInv
<1>4. QED
  BY <1>1, <1>2, <1>3, PTL DEF Spec

\* The executor, with its queue, its cells and its nested calls, implements the life of
\* a task: every step is a step of TaskLife or changes nothing that TaskLife knows.
THEOREM ExecutorRefinesTaskLife == Spec => RefinesTaskLife
<1>1. Init => Life!Init
  BY LifeInvInit
<1>2. IndInv /\ OutcomeExact /\ IndInv' /\ [Next]_vars => [Life!Next]_(Life!vars)
  BY LifeInvStep DEF LifeInv, LifeStep
<1>3. QED
  BY <1>1, <1>2, ExecutorInvariant, OutcomeCorrect, PTL DEF Spec, RefinesTaskLife, Life!Spec
=============================================================================
