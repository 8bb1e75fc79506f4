---------------------------- MODULE RuntimeProofs ----------------------------
(***************************************************************************)
(* Theorems about Runtime.  A runtime is an executor, so ExecutorProofs'   *)
(* invariant holds for it; with it the properties of the clock follow for  *)
(* every number of tasks, nodes and Sleeps and every horizon.              *)
(***************************************************************************)
EXTENDS Runtime, ExecutorProofs

\* What the scheduler's properties need to be inductive: the task whose Waker is
\* stored exists, and even in the middle of the loop no deadline was overtaken.
EventsExact ==
  /\ \A s \in upcoming \cup owed : waker[s] \in TaskIds /\ state[waker[s]] # "UNBORN"
  /\ \A s \in owed : sleep[s] = "Done"
  /\ \A s \in upcoming : now <= deadline[s]

\* The invariant of the time scheduler, on top of the executor's.
RuntimeInv ==
  /\ IndInv
  /\ RuntimeTypeOK
  /\ UpcomingExact
  /\ NeverEarlyNeverMissed
  /\ ClocksAgree
  /\ PromptWake
  /\ EventsExact

\* Every step of the runtime is a step of the executor or leaves it alone.
LEMMA ExecutorStep ==
  ASSUME RuntimeInv, [RuntimeNext]_runtimeVars
  PROVE  [Next]_vars
<1>1. ASSUME NEW s \in SleepIds, (\E d \in Instants : NewSleep(s, d)) \/ PollSleep(s) \/ DropSleep(s)
      PROVE  UNCHANGED vars
  BY <1>1 DEF NewSleep, PollSleep, DropSleep
<1>2. ASSUME NEW s \in SleepIds, PopEvent(s) PROVE [Next]_vars
  <2>1. waker[s] \in TaskIds
    BY <1>2 DEF PopEvent, NextEvent, RuntimeInv, EventsExact
  <2>2. QED
    BY <1>2, <2>1 DEF PopEvent, Next, ApiCall
<1>3. CASE Advance \/ PopEnd \/ NoEvents \/ DestructorEnd
  BY <1>3 DEF Advance, PopEnd, NoEvents, DestructorEnd, Next, Library, Return
<1>4. CASE OtherCall
  BY <1>4 DEF OtherCall, Next, ApiCall
<1>5. CASE OtherStep
  BY <1>5 DEF OtherStep, Next, Return, Library
<1>6. ASSUME NEW t \in TaskIds, Resume(t) PROVE Next
  BY <1>6 DEF Resume, Next, Library
<1>7. QED
  BY <1>1, <1>2, <1>3, <1>4, <1>5, <1>6 DEF RuntimeNext, runtimeVars

\* The executor's invariant is the runtime's.
LEMMA RuntimeIndInv ==
  ASSUME RuntimeInv, [RuntimeNext]_runtimeVars
  PROVE  IndInv'
  BY ExecutorStep, IndInvStep DEF RuntimeInv

\* A step of the executor other than a poll leaves a ready task ready or ends it,
\* and a task that has ended does not come back.
LEMMA ReadyStays ==
  ASSUME IndInv, OtherCall \/ OtherStep \/ PopEnd \/ NoEvents \/ DestructorEnd \/ Advance
  PROVE  \A u \in TaskIds :
           /\ state[u] = "READY" => state'[u] = "READY" \/ state'[u] \notin LiveStates \cup {"UNBORN"}
           /\ state[u] \notin LiveStates \cup {"UNBORN"} => state'[u] \notin LiveStates \cup {"UNBORN"}
           /\ state[u] # "UNBORN" => state'[u] # "UNBORN"
<1> DEFINE Kept == \A u \in TaskIds :
           /\ state[u] = "READY" => state'[u] = "READY" \/ state'[u] \notin LiveStates \cup {"UNBORN"}
           /\ state[u] \notin LiveStates \cup {"UNBORN"} => state'[u] \notin LiveStates \cup {"UNBORN"}
           /\ state[u] # "UNBORN" => state'[u] # "UNBORN"
<1>t. state \in [TaskIds -> TaskStates]
  BY DEF IndInv, TypeOK
<1>1. CASE UNCHANGED state
  BY <1>1
<1>2. ASSUME NEW n \in NodeIds, NewTask(n) PROVE Kept
  <2>1. state[lastId + 1] = "UNBORN" /\ lastId + 1 \in TaskIds
    BY <1>2, NewTaskStep, Halves
  <2>2. state' = [state EXCEPT ![lastId + 1] = "READY"]
    BY <1>2 DEF NewTask
  <2>3. QED
    BY <1>t, <2>1, <2>2 DEF LiveStates
<1>3. ASSUME NEW t \in TaskIds, Wake(t) PROVE Kept
  BY <1>3, <1>t DEF Wake, LiveStates
<1>4. ASSUME NEW t \in TaskIds, abort_local(t) PROVE Kept
  BY <1>4, <1>t DEF abort_local, LiveStates
<1>5. ASSUME NEW t \in TaskIds, PollReady(t) \/ Reap(t) PROVE Kept
  BY <1>5, <1>t DEF PollReady, Reap, LiveStates
<1>6. ASSUME NEW n \in NodeIds, Spawn(n) \/ CreateNode(n) \/ StopNode(n) \/ StartNode(n) \/ StopAllNext(n)
      PROVE  Kept
  BY <1>1, <1>2, <1>6
  DEF Spawn, CreateNode, StopNode, StartNode, StopAllNext, Fail, taskVars
<1>7. ASSUME NEW t \in TaskIds, Abort(t) \/ PollPending(t) \/ StopNext(t) PROVE Kept
  BY <1>1, <1>4, <1>7 DEF Abort, PollPending, StopNext, taskVars
<1>8. CASE InitReturn
  <2>1. curNode \in NodeIds
    BY DEF IndInv, TypeOK
  <2>2. QED
    BY <1>1, <1>2, <1>8, <2>1 DEF InitReturn, Fail, taskVars
<1>9. CASE \/ StopSimulation \/ RootReturn \/ BorrowedCall \/ StopNotify \/ StopAllReturn
           \/ DropSimulators \/ Finalize \/ Ended \/ UserReturn \/ TimeReturn \/ BreakLoop \/ AdvanceTime
  BY <1>1, <1>9
  DEF StopSimulation, RootReturn, BorrowedCall, StopNotify, StopAllReturn, DropSimulators, Finalize,
      Ended, UserReturn, TimeReturn, BreakLoop, AdvanceTime, Fail, taskVars, vars
<1>10. QED
  BY <1>3, <1>5, <1>6, <1>7, <1>8, <1>9
  DEF OtherCall, OtherStep, PopEnd, NoEvents, DestructorEnd, Advance

\* Only the scheduler's own steps begin and end its loop.
LEMMA LoopStays ==
  ASSUME OtherCall \/ OtherStep \/ NoEvents \/ DestructorEnd
  PROVE  \/ panic = "none" /\ ~InFrame({"time"})
         \/ UNCHANGED vars
  BY DEF OtherCall, OtherStep, NoEvents, DestructorEnd, InFrame, UserCode, UserKinds, AtMainLoop,
         Spawn, CreateNode, StopNode, StartNode, Wake, Abort, StopSimulation, RootReturn, BorrowedCall,
         InitReturn, PollPending, PollReady, Reap, Popping, StopNext, StopAllNext, StopNotify,
         StopAllReturn, DropSimulators, Finalize, Ended, BreakLoop, NothingToRun, UserReturn

\* The steps of the executor that do not touch a Sleep.
LEMMA SleepStill ==
  ASSUME RuntimeInv, IndInv', OtherCall \/ OtherStep \/ NoEvents \/ DestructorEnd \/ PopEnd
  PROVE  RuntimeInv'
<1>1. UNCHANGED sleepVars
  BY DEF OtherCall, OtherStep, NoEvents, DestructorEnd, PopEnd
<1>2. RuntimeTypeOK' /\ UpcomingExact' /\ ClocksAgree'
  BY <1>1 DEF RuntimeInv, sleepVars, RuntimeTypeOK, UpcomingExact, ClocksAgree
<1>3. NeverEarlyNeverMissed'
  <2>1. CASE PopEnd
    <3>1. \A s \in SleepIds : sleep[s] = "Waiting" => ~(deadline[s] <= now)
      BY <2>1 DEF PopEnd, RuntimeInv, UpcomingExact
    <3>2. QED
      BY <1>1, <3>1 DEF RuntimeInv, RuntimeTypeOK, NeverEarlyNeverMissed, sleepVars, Instants
  <2>2. CASE UNCHANGED vars
    BY <1>1, <2>2 DEF RuntimeInv, NeverEarlyNeverMissed, InFrame, Top, sleepVars, vars, ctlVars
  <2>3. CASE panic = "none" /\ ~InFrame({"time"})
    BY <1>1, <2>3 DEF RuntimeInv, NeverEarlyNeverMissed, sleepVars
  <2>4. QED
    BY <2>1, <2>2, <2>3, LoopStays
<1>4. PromptWake' /\ EventsExact'
  BY <1>1, ReadyStays DEF RuntimeInv, PromptWake, EventsExact, sleepVars, LiveStates
<1>5. QED
  BY <1>2, <1>3, <1>4 DEF RuntimeInv

\* Creating and dropping a Sleep.
LEMMA SleepLife ==
  ASSUME RuntimeInv, IndInv', NEW s \in SleepIds,
         (\E d \in Instants : NewSleep(s, d)) \/ DropSleep(s)
  PROVE  RuntimeInv'
<1>1. UNCHANGED vars /\ UNCHANGED <<now, time>>
  BY DEF NewSleep, DropSleep
<1>2. CurrentTask \in TaskIds \cup {NoTask}
  <2>1. stack # <<>>
    BY DEF NewSleep, DropSleep, UserCode, InFrame
  <2>2. Top \in FrameType
    BY <2>1, TopFacts DEF RuntimeInv, IndInv
  <2>3. QED
    BY <2>2 DEF CurrentTask, FrameType
<1>3. CASE DropSleep(s)
  <2>1. RuntimeTypeOK'
    BY <1>1, <1>3, RuntimeAssumption
    DEF DropSleep, RuntimeInv, RuntimeTypeOK, SleepStates, Instants, NoTask
  <2>2. UpcomingExact' /\ ClocksAgree'
    BY <1>1, <1>3 DEF DropSleep, RuntimeInv, RuntimeTypeOK, UpcomingExact, ClocksAgree
  <2>3. NeverEarlyNeverMissed'
    BY <1>1, <1>3
    DEF DropSleep, RuntimeInv, RuntimeTypeOK, NeverEarlyNeverMissed, InFrame, Top, vars, ctlVars
  <2>4. PromptWake' /\ EventsExact'
    BY <1>1, <1>3 DEF DropSleep, RuntimeInv, RuntimeTypeOK, PromptWake, EventsExact, vars, taskVars
  <2>5. QED
    BY <2>1, <2>2, <2>3, <2>4 DEF RuntimeInv
<1>4. ASSUME NEW d \in Instants, NewSleep(s, d) PROVE RuntimeInv'
  <2>1. RuntimeTypeOK'
    BY <1>1, <1>2, <1>4, RuntimeAssumption
    DEF NewSleep, RuntimeInv, RuntimeTypeOK, SleepStates, Instants
  <2>2. UpcomingExact' /\ ClocksAgree'
    BY <1>1, <1>4 DEF NewSleep, RuntimeInv, RuntimeTypeOK, UpcomingExact, ClocksAgree
  <2>3. NeverEarlyNeverMissed'
    BY <1>1, <1>4
    DEF NewSleep, RuntimeInv, RuntimeTypeOK, NeverEarlyNeverMissed, InFrame, Top, vars, ctlVars
  <2>4. PromptWake' /\ EventsExact'
    BY <1>1, <1>4
    DEF NewSleep, RuntimeInv, RuntimeTypeOK, UpcomingExact, PromptWake, EventsExact, vars, taskVars
  <2>5. QED
    BY <2>1, <2>2, <2>3, <2>4 DEF RuntimeInv
<1>5. QED
  BY <1>3, <1>4

\* Sleep::poll, in the poll of a task.
LEMMA PollSleepStep ==
  ASSUME RuntimeInv, IndInv', NEW s \in SleepIds, PollSleep(s)
  PROVE  RuntimeInv'
<1> DEFINE t == Top.task
<1>1. UNCHANGED vars /\ UNCHANGED <<deadline, owner, now, time, owed>>
  BY DEF PollSleep
<1>2. stack # <<>> /\ Top.kind = "poll" /\ panic = "none" /\ ~InFrame({"time"})
  BY DEF PollSleep, InFrame
<1>3. t \in TaskIds /\ state[t] # "UNBORN"
  <2>1. Top \in Range(stack)
    BY <1>2, TopFacts DEF RuntimeInv, IndInv
  <2>2. QED
    BY <1>2, <2>1 DEF RuntimeInv, IndInv, FrameExact
<1> HIDE DEF t
<1>4. CASE PollInit(s) /\ now >= deadline[s]
  <2>1. sleep[s] = "Init" /\ sleep' = [sleep EXCEPT ![s] = "Taken"] /\ UNCHANGED <<waker, upcoming>>
    BY <1>4 DEF PollInit
  <2>2. RuntimeTypeOK' /\ UpcomingExact' /\ ClocksAgree'
    BY <1>1, <2>1 DEF RuntimeInv, RuntimeTypeOK, UpcomingExact, ClocksAgree, SleepStates
  <2>3. NeverEarlyNeverMissed'
    BY <1>1, <1>2, <1>4, <2>1
    DEF RuntimeInv, RuntimeTypeOK, NeverEarlyNeverMissed, Instants
  <2>4. PromptWake' /\ EventsExact'
    BY <1>1, <2>1 DEF RuntimeInv, RuntimeTypeOK, PromptWake, EventsExact, vars, taskVars
  <2>5. QED
    BY <2>2, <2>3, <2>4 DEF RuntimeInv
<1>5. CASE (PollInit(s) /\ ~(now >= deadline[s])) \/ PollWaiting(s)
  <2>1. /\ sleep[s] \in {"Init", "Waiting"} /\ sleep' = [sleep EXCEPT ![s] = "Waiting"]
        /\ waker' = [waker EXCEPT ![s] = t] /\ upcoming' = upcoming \cup {s}
        /\ now < deadline[s]
    <3>1. CASE PollInit(s) /\ ~(now >= deadline[s])
      BY <3>1 DEF PollInit, t, RuntimeInv, RuntimeTypeOK, Instants
    <3>2. CASE PollWaiting(s)
      BY <1>2, <3>2
      DEF PollWaiting, t, RuntimeInv, RuntimeTypeOK, UpcomingExact, NeverEarlyNeverMissed
    <3>3. QED
      BY <1>5, <3>1, <3>2
  <2>2. RuntimeTypeOK' /\ UpcomingExact' /\ ClocksAgree'
    BY <1>1, <1>3, <2>1 DEF RuntimeInv, RuntimeTypeOK, UpcomingExact, ClocksAgree, SleepStates
  <2>3. NeverEarlyNeverMissed'
    BY <1>1, <1>2, <2>1 DEF RuntimeInv, RuntimeTypeOK, NeverEarlyNeverMissed
  <2>4. PromptWake' /\ EventsExact'
    BY <1>1, <1>3, <2>1 DEF RuntimeInv, RuntimeTypeOK, PromptWake, EventsExact, vars, taskVars, Instants
  <2>5. QED
    BY <2>2, <2>3, <2>4 DEF RuntimeInv
<1>6. QED
  BY <1>4, <1>5 DEF PollSleep

\* One event is popped and its task is woken.
LEMMA PopEventStep ==
  ASSUME RuntimeInv, IndInv', NEW s \in SleepIds, PopEvent(s)
  PROVE  RuntimeInv'
<1>1. /\ InFrame({"time"}) /\ s \in upcoming /\ deadline[s] <= now
      /\ upcoming' = upcoming \ {s} /\ sleep' = [sleep EXCEPT ![s] = "Done"]
      /\ owed' = owed \cup {s} /\ UNCHANGED <<deadline, waker, owner, now, time>>
  BY DEF PopEvent, NextEvent
<1>2. waker[s] \in TaskIds /\ state[waker[s]] # "UNBORN"
  BY <1>1 DEF RuntimeInv, EventsExact
<1>3. /\ \/ state[waker[s]] = "WAITING" /\ state' = [state EXCEPT ![waker[s]] = "READY"]
         \/ state[waker[s]] # "WAITING" /\ state' = state
      /\ UNCHANGED <<ctlVars, panic>>
  BY DEF PopEvent, Wake, vars, taskVars
<1>4. RuntimeTypeOK' /\ UpcomingExact' /\ ClocksAgree'
  BY <1>1 DEF RuntimeInv, RuntimeTypeOK, UpcomingExact, ClocksAgree, SleepStates
<1>5. NeverEarlyNeverMissed'
  BY <1>1, <1>3 DEF RuntimeInv, RuntimeTypeOK, NeverEarlyNeverMissed, InFrame, Top, ctlVars
<1>6. now = deadline[s]
  BY <1>1 DEF RuntimeInv, RuntimeTypeOK, EventsExact, Instants
<1>7. PromptWake' /\ EventsExact'
  BY <1>1, <1>2, <1>3, <1>6, Halves
  DEF RuntimeInv, RuntimeTypeOK, PromptWake, EventsExact, LiveStates, TaskInv, TaskTypes
<1>8. QED
  BY <1>4, <1>5, <1>7 DEF RuntimeInv

\* Nothing is left to run when the main loop asks for the next event: the queue is
\* empty, or the simulation was stopped and has no live task.
LEMMA Idle ==
  ASSUME IndInv, NothingToRun
  PROVE  \A t \in TaskIds : state[t] # "READY"
<1>1. stack = <<>> /\ Range(stack) = {}
  BY DEF NothingToRun, AtMainLoop, Range
<1>2. CASE queue = <<>>
  <2>1. Range(queue) = {}
    BY <1>2 DEF Range
  <2>2. QED
    BY <2>1 DEF IndInv, ReadyQueueExact, ReadyStates
<1>3. CASE finalStopped
  <2>1. \A n \in NodeIds : level[n] \in {"Absent", "FinalStopped"}
    BY <1>1, <1>3 DEF IndInv, ShutdownCovers
  <2>2. QED
    BY <1>1, <2>1 DEF IndInv, StopCovers, TypeOK, LiveStates
<1>4. QED
  BY <1>2, <1>3 DEF NothingToRun

\* The clock is set to the next deadline.
LEMMA AdvanceStep ==
  ASSUME RuntimeInv, IndInv', Advance
  PROVE  /\ RuntimeInv'
         /\ now < now'
         /\ \A t \in TaskIds : state[t] # "READY"
<1>1. AdvanceTime /\ NothingToRun /\ UNCHANGED <<taskVars, panic>>
  BY DEF Advance, AdvanceTime
<1>2. PICK s \in SleepIds : SetClock(s)
  BY DEF Advance
<1>3. /\ s \in upcoming /\ (\A r \in upcoming : deadline[s] <= deadline[r])
      /\ time' = time + duration_since(deadline[s], now) /\ now' = deadline[s]
      /\ UNCHANGED <<sleep, deadline, waker, owner, upcoming, owed>>
  BY <1>2 DEF SetClock, NextEvent
<1>4. panic = "none" /\ ~InFrame({"time"})
  BY <1>1 DEF NothingToRun, AtMainLoop, InFrame
<1>5. now < deadline[s]
  BY <1>3, <1>4 DEF RuntimeInv, UpcomingExact, NeverEarlyNeverMissed
<1>6. \A t \in TaskIds : state[t] # "READY"
  BY <1>1, Idle DEF RuntimeInv
<1>7. InFrame({"time"})'
  <2> DEFINE f == Frame("time", curNode, NoTask, {})
  <2>1. f \in FrameType /\ f.kind = "time"
    <3>1. TypeOK /\ curNode \in NodeIds /\ "time" \in LibraryKinds /\ {} \in SUBSET Nat
      BY DEF LibraryKinds, RuntimeInv, IndInv, TypeOK
    <3>2. QED
      BY <3>1, FrameTyped
  <2>2. stack' = Append(stack, f) /\ stack \in Seq(FrameType)
    BY <1>1 DEF AdvanceTime, Push, RuntimeInv, IndInv, TypeOK
  <2> HIDE DEF f
  <2>3. stack' # <<>> /\ Last(stack') = f
    BY <2>1, <2>2, AppendFacts
  <2>4. QED
    BY <1>1, <1>4, <2>1, <2>3 DEF InFrame, Top
<1>8. RuntimeTypeOK' /\ UpcomingExact' /\ ClocksAgree'
  BY <1>3, <1>5
  DEF RuntimeInv, RuntimeTypeOK, UpcomingExact, ClocksAgree, duration_since, Instants
<1>9. NeverEarlyNeverMissed'
  BY <1>3, <1>5, <1>7
  DEF RuntimeInv, RuntimeTypeOK, NeverEarlyNeverMissed, Instants
<1>10. PromptWake' /\ EventsExact'
  BY <1>1, <1>3, <1>6 DEF RuntimeInv, PromptWake, EventsExact, LiveStates, taskVars
<1>11. QED
  BY <1>5, <1>3, <1>6, <1>8, <1>9, <1>10 DEF RuntimeInv

\* The main loop polls a task, which settles what its Sleeps were owed.
LEMMA ResumeStep ==
  ASSUME RuntimeInv, IndInv', NEW t \in TaskIds, Resume(t)
  PROVE  RuntimeInv'
<1>1. /\ RunReady(t) /\ owed' = {s \in owed : waker[s] # t}
      /\ UNCHANGED <<sleep, deadline, waker, owner, upcoming, now, time>>
      /\ state' = [state EXCEPT ![t] = "WAITING"]
  BY DEF Resume, RunReady
<1>2. panic = "none" /\ ~InFrame({"time"})
  BY <1>1 DEF RunReady, Popping, AtMainLoop, InFrame
<1>3. RuntimeTypeOK' /\ UpcomingExact' /\ ClocksAgree'
  BY <1>1 DEF RuntimeInv, RuntimeTypeOK, UpcomingExact, ClocksAgree
<1>4. NeverEarlyNeverMissed'
  BY <1>1, <1>2 DEF RuntimeInv, NeverEarlyNeverMissed
<1>5. PromptWake' /\ EventsExact'
  BY <1>1, Halves DEF RuntimeInv, PromptWake, EventsExact, TaskInv, TaskTypes
<1>6. QED
  BY <1>3, <1>4, <1>5 DEF RuntimeInv

-----------------------------------------------------------------------------
(* The theorems.                                                           *)

\* A new runtime satisfies the invariant.
LEMMA RuntimeInvInit == RuntimeInit => RuntimeInv
<1> SUFFICES ASSUME RuntimeInit PROVE RuntimeInv
  OBVIOUS
<1>1. IndInv
  BY IndInvInit DEF RuntimeInit
<1>2. RuntimeTypeOK
  BY RuntimeAssumption DEF RuntimeInit, RuntimeTypeOK, SleepStates, Instants, NoTask
<1>3. UpcomingExact /\ NeverEarlyNeverMissed /\ ClocksAgree /\ PromptWake /\ EventsExact
  BY DEF RuntimeInit, UpcomingExact, NeverEarlyNeverMissed, ClocksAgree, PromptWake, EventsExact
<1>4. QED
  BY <1>1, <1>2, <1>3 DEF RuntimeInv

\* Every step of the runtime preserves it.
LEMMA RuntimeInvStep == RuntimeInv /\ [RuntimeNext]_runtimeVars => RuntimeInv'
<1> SUFFICES ASSUME RuntimeInv, [RuntimeNext]_runtimeVars PROVE RuntimeInv'
  OBVIOUS
<1>1. IndInv'
  BY RuntimeIndInv
<1>2. ASSUME NEW s \in SleepIds,
             (\E d \in Instants : NewSleep(s, d)) \/ PollSleep(s) \/ DropSleep(s) \/ PopEvent(s)
      PROVE  RuntimeInv'
  BY <1>1, <1>2, SleepLife, PollSleepStep, PopEventStep
<1>3. CASE Advance
  BY <1>1, <1>3, AdvanceStep
<1>4. CASE PopEnd \/ NoEvents \/ DestructorEnd \/ OtherCall \/ OtherStep
  BY <1>1, <1>4, SleepStill
<1>5. ASSUME NEW t \in TaskIds, Resume(t) PROVE RuntimeInv'
  BY <1>1, <1>5, ResumeStep
<1>6. CASE UNCHANGED runtimeVars
  BY <1>1, <1>6
  DEF runtimeVars, sleepVars, vars, ctlVars, taskVars, RuntimeInv, RuntimeTypeOK, UpcomingExact,
      NeverEarlyNeverMissed, InFrame, Top, ClocksAgree, PromptWake, EventsExact
<1>7. QED
  BY <1>2, <1>3, <1>4, <1>5, <1>6 DEF RuntimeNext

\* The scheduler's queue, clocks and wake-ups stay consistent with the executor.
THEOREM RuntimeInvariant == RuntimeSpec => []RuntimeInv
<1>1. RuntimeInit => RuntimeInv
  BY RuntimeInvInit
<1>2. RuntimeInv /\ [RuntimeNext]_runtimeVars => RuntimeInv'
  BY RuntimeInvStep
<1>3. QED
  BY <1>1, <1>2, PTL DEF RuntimeSpec

\* A runtime with time implements the executor, so that every theorem about
\* Executor holds for it.
THEOREM RuntimeRefinesExecutor == RuntimeSpec => RefinesExecutor
<1>1. RuntimeInit => Init
  BY DEF RuntimeInit
<1>2. RuntimeInv /\ [RuntimeNext]_runtimeVars => [Next]_vars
  BY ExecutorStep
<1>3. QED
  BY <1>1, <1>2, RuntimeInvariant, PTL DEF RuntimeSpec, RefinesExecutor, Spec

\* A completed Sleep's task is polled at the very instant of the deadline.
THEOREM PromptWakeCorrect == RuntimeSpec => []PromptWake
<1>1. RuntimeInv => PromptWake
  BY DEF RuntimeInv
<1>2. QED
  BY <1>1, RuntimeInvariant, PTL

\* The two clocks agree, no Sleep is ready early, and no deadline is overtaken.
THEOREM DeadlinesCorrect == RuntimeSpec => []DeadlinesExact
<1>1. RuntimeInv => DeadlinesExact
  BY DEF RuntimeInv, DeadlinesExact
<1>2. QED
  BY <1>1, RuntimeInvariant, PTL

\* The event queue holds exactly the waiting Sleeps.
THEOREM UpcomingCorrect == RuntimeSpec => []UpcomingExact
<1>1. RuntimeInv => UpcomingExact
  BY DEF RuntimeInv
<1>2. QED
  BY <1>1, RuntimeInvariant, PTL

\* Time advances, and only forward, when no task can run.
THEOREM TimeCorrect == RuntimeSpec => TimeWaitsForTasks
<1>1. RuntimeInv /\ [RuntimeNext]_runtimeVars =>
        [now' # now => now < now' /\ \A t \in TaskIds : state[t] # "READY"]_runtimeVars
  <2> SUFFICES ASSUME RuntimeInv, [RuntimeNext]_runtimeVars, now' # now
               PROVE  now < now' /\ \A t \in TaskIds : state[t] # "READY"
    OBVIOUS
  <2>1. Advance
    BY DEF RuntimeNext, runtimeVars, sleepVars, NewSleep, PollSleep, DropSleep, PopEvent, PopEnd,
           NoEvents, DestructorEnd, OtherCall, OtherStep, Resume
  <2>2. QED
    BY <2>1, RuntimeIndInv, AdvanceStep
<1>2. QED
  BY <1>1, RuntimeInvariant, PTL DEF RuntimeSpec, TimeWaitsForTasks

\* Type correctness of the scheduler.
THEOREM RuntimeTypeCorrect == RuntimeSpec => []RuntimeTypeOK
<1>1. RuntimeInv => RuntimeTypeOK
  BY DEF RuntimeInv
<1>2. QED
  BY <1>1, RuntimeInvariant, PTL
=============================================================================
