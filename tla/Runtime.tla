------------------------------ MODULE Runtime ------------------------------
(***************************************************************************)
(* The executor together with simulated time (src/src/time.rs): Sleep      *)
(* futures, the queue of upcoming events and the main loop's call of       *)
(* wait_until_next_future_ready.  Executor leaves open when a wake-up of   *)
(* the time scheduler happens and when the main loop gives up; here both   *)
(* are decided by the Sleep futures that user code creates, polls and      *)
(* drops.  RuntimeSpec implements Executor's Spec.                         *)
(***************************************************************************)
EXTENDS Executor

CONSTANTS MaxSleeps,   \* bound: number of Sleep futures that exist at a time
          Horizon      \* bound: the latest deadline

ASSUME RuntimeAssumption == MaxSleeps \in Nat \ {0} /\ Horizon \in Nat

SleepIds == 1 .. MaxSleeps    \* addresses; that of a dropped Sleep is used again
Instants == 0 .. Horizon      \* the simulation starts at instant 0

VARIABLES
  sleep,      \* TimeFutureState of the Sleep at each address, "Free" if there is none
  deadline,   \* its Instant
  waker,      \* the task whose Waker a Waiting Sleep holds
  owner,      \* the task whose future contains the Sleep; NoTask: it is shared
  upcoming,   \* TimeScheduler.upcoming_events; the priority of an entry is its deadline
  now,        \* TimeScheduler.now
  time,       \* SimCxu.time, what clock_gettime returns
  owed        \* history: completed sleeps whose task was not polled since

sleepVars   == <<sleep, deadline, waker, owner, upcoming, now, time, owed>>
runtimeVars == <<vars, sleepVars>>

SleepStates == {"Free", "Init", "Waiting", "Done", "Taken"}

RuntimeInit ==
  /\ Init
  /\ sleep = [s \in SleepIds |-> "Free"]
  /\ deadline = [s \in SleepIds |-> 0]
  /\ waker = [s \in SleepIds |-> NoTask]
  /\ owner = [s \in SleepIds |-> NoTask]
  /\ upcoming = {}
  /\ now = 0 /\ time = 0
  /\ owed = {}

-----------------------------------------------------------------------------
(* Sleep futures, used by user code.                                       *)

\* The task whose future the running code belongs to.
CurrentTask == IF Top.kind \in {"poll", "drop"} THEN Top.task ELSE NoTask

Accessible(s) == owner[s] \in {NoTask, CurrentTask}

\* sleep(duration), sleep_until: the clock is the intercepted one.
NewSleep(s, duration) ==
  /\ UserCode
  /\ sleep[s] = "Free" /\ \A r \in SleepIds : r < s => sleep[r] # "Free"
  /\ time + duration <= Horizon
  /\ sleep' = [sleep EXCEPT ![s] = "Init"]
  /\ deadline' = [deadline EXCEPT ![s] = time + duration]
  /\ \E o \in {NoTask, CurrentTask} : owner' = [owner EXCEPT ![s] = o]
  /\ UNCHANGED <<vars, waker, upcoming, now, time, owed>>

\* Mutant: a Sleep whose deadline is now is queued.
PollInit_Strict(s) ==
  /\ sleep[s] = "Init"
  /\ IF now > deadline[s]
     THEN /\ sleep' = [sleep EXCEPT ![s] = "Taken"]
          /\ UNCHANGED <<waker, upcoming>>
     ELSE /\ sleep' = [sleep EXCEPT ![s] = "Waiting"]
          /\ waker' = [waker EXCEPT ![s] = Top.task]
          /\ upcoming' = upcoming \cup {s}

\* The first poll of a Sleep registers it or finds it due.
PollInit(s) ==
  /\ sleep[s] = "Init"
  /\ IF now >= deadline[s]
     THEN /\ sleep' = [sleep EXCEPT ![s] = "Taken"]
          /\ UNCHANGED <<waker, upcoming>>
     ELSE /\ sleep' = [sleep EXCEPT ![s] = "Waiting"]
          /\ waker' = [waker EXCEPT ![s] = Top.task]
          /\ upcoming' = upcoming \cup {s}

\* A later poll replaces the Waker; the entry in the queue stays.
PollWaiting(s) ==
  /\ sleep[s] = "Waiting"
  /\ waker' = [waker EXCEPT ![s] = Top.task]
  /\ UNCHANGED <<sleep, upcoming>>

\* Sleep::poll.  In state Done nothing changes; in state Taken the future has
\* returned Ready and is not polled again.
PollSleep(s) ==
  /\ InFrame({"poll"}) /\ ~RootReturned
  /\ Accessible(s)
  /\ PollInit(s) \/ PollWaiting(s)
  /\ UNCHANGED <<vars, deadline, owner, now, time, owed>>

\* Mutant: the destructor leaves the entry in the queue.
DropSleep_Leaks(s) ==
  /\ UserCode
  /\ sleep[s] # "Free" /\ Accessible(s)
  /\ sleep' = [sleep EXCEPT ![s] = "Free"]
  /\ deadline' = [deadline EXCEPT ![s] = 0]
  /\ waker' = [waker EXCEPT ![s] = NoTask]
  /\ owner' = [owner EXCEPT ![s] = NoTask]
  /\ owed' = owed \ {s}
  /\ UNCHANGED <<vars, upcoming, now, time>>

\* Sleep's destructor removes its entry from the queue.
DropSleep(s) ==
  /\ UserCode
  /\ sleep[s] # "Free" /\ Accessible(s)
  /\ sleep' = [sleep EXCEPT ![s] = "Free"]
  /\ deadline' = [deadline EXCEPT ![s] = 0]
  /\ waker' = [waker EXCEPT ![s] = NoTask]
  /\ owner' = [owner EXCEPT ![s] = NoTask]
  /\ upcoming' = upcoming \ {s}
  /\ owed' = owed \ {s}
  /\ UNCHANGED <<vars, now, time>>

-----------------------------------------------------------------------------
(* wait_until_next_future_ready.                                           *)

\* upcoming_events.peek(): ties are broken arbitrarily.
NextEvent(s) == s \in upcoming /\ \A r \in upcoming : deadline[s] <= deadline[r]

\* Instant::duration_since saturates at zero.
duration_since(later, earlier) == IF later >= earlier THEN later - earlier ELSE 0

\* Mutant: the intercepted clock is not moved.
SetClock_NowOnly(s) ==
  /\ NextEvent(s)
  /\ now' = deadline[s]
  /\ UNCHANGED <<time, sleep, deadline, waker, owner, upcoming, owed>>

\* The clock is set to the next deadline.
SetClock(s) ==
  /\ NextEvent(s)
  /\ time' = time + duration_since(deadline[s], now)
  /\ now' = deadline[s]
  /\ UNCHANGED <<sleep, deadline, waker, owner, upcoming, owed>>

\* Mutant: time advances although tasks are ready.
Advance_Early ==
  /\ AtMainLoop("run")
  /\ Push(Frame("time", curNode, NoTask, {}))
  /\ UNCHANGED <<taskVars, nodeVars, rootVars, mode, panic>>
  /\ \E s \in SleepIds : SetClock(s)

Advance == AdvanceTime /\ \E s \in SleepIds : SetClock(s)

\* Mutant: the Sleep completes, but nobody is woken.
PopEvent_NoWake(s) ==
  /\ InFrame({"time"})
  /\ NextEvent(s) /\ deadline[s] <= now
  /\ upcoming' = upcoming \ {s}
  /\ sleep' = [sleep EXCEPT ![s] = "Done"]
  /\ owed' = owed \cup {s}
  /\ UNCHANGED <<vars, deadline, waker, owner, now, time>>

\* One iteration of pop_if: the Sleep is Done and its task is woken.
PopEvent(s) ==
  /\ InFrame({"time"})
  /\ NextEvent(s) /\ deadline[s] <= now
  /\ upcoming' = upcoming \ {s}
  /\ sleep' = [sleep EXCEPT ![s] = "Done"]
  /\ owed' = owed \cup {s}
  /\ IF state[waker[s]] = "WAITING" THEN Wake(waker[s]) ELSE UNCHANGED vars
  /\ UNCHANGED <<deadline, waker, owner, now, time>>

PopEnd ==
  /\ TimeReturn
  /\ ~ \E s \in upcoming : deadline[s] <= now
  /\ UNCHANGED sleepVars

\* The main loop ends when no Sleep is left to advance the time to.
NoEvents == BreakLoop /\ upcoming = {} /\ UNCHANGED sleepVars

-----------------------------------------------------------------------------
(* The other steps of the executor.                                        *)

Resume(t) ==
  /\ RunReady(t)
  /\ owed' = {s \in owed : waker[s] # t}
  /\ UNCHANGED <<sleep, deadline, waker, owner, upcoming, now, time>>

\* A future's destructor has dropped the Sleeps that the future contains.
DestructorEnd ==
  /\ UserReturn
  /\ Top.kind \in {"drop", "enddrop"} => ~ \E s \in SleepIds : sleep[s] # "Free" /\ owner[s] = Top.task
  /\ UNCHANGED sleepVars

OtherCall ==
  /\ \/ \E n \in NodeIds : Spawn(n) \/ CreateNode(n) \/ StopNode(n) \/ StartNode(n)
     \/ \E t \in TaskIds : (Wake(t) /\ Top.kind # "time") \/ Abort(t)
     \/ StopSimulation \/ RootReturn \/ BorrowedCall
  /\ UNCHANGED sleepVars

OtherStep ==
  /\ \/ InitReturn
     \/ \E t \in TaskIds : PollPending(t) \/ PollReady(t) \/ Reap(t) \/ StopNext(t)
     \/ \E n \in NodeIds : StopAllNext(n)
     \/ StopNotify \/ StopAllReturn \/ DropSimulators \/ Finalize \/ Ended
  /\ UNCHANGED sleepVars

RuntimeNext ==
  \/ \E s \in SleepIds :
       \/ \E d \in Instants : NewSleep(s, d)
       \/ PollSleep(s) \/ DropSleep(s) \/ PopEvent(s)
  \/ Advance \/ PopEnd \/ NoEvents \/ DestructorEnd \/ OtherCall \/ OtherStep
  \/ \E t \in TaskIds : Resume(t)

RuntimeSpec == RuntimeInit /\ [][RuntimeNext]_runtimeVars

-----------------------------------------------------------------------------
(* Properties.                                                             *)

\* Every variable of the time scheduler has its type.
RuntimeTypeOK ==
  /\ sleep \in [SleepIds -> SleepStates]
  /\ deadline \in [SleepIds -> Instants]
  /\ waker \in [SleepIds -> TaskIds \cup {NoTask}]
  /\ owner \in [SleepIds -> TaskIds \cup {NoTask}]
  /\ upcoming \in SUBSET SleepIds
  /\ now \in Instants /\ time \in Instants
  /\ owed \in SUBSET SleepIds

\* The queue of upcoming events holds the sleeps in state Waiting and no others,
\* so that the unreachable!() of time.rs:145 is dead, an entry never outlives its
\* Sleep, whoever drops it, and nobody waits for an event that is not queued; a
\* Waiting Sleep holds the Waker of some task.
UpcomingExact ==
  \A s \in SleepIds :
    /\ s \in upcoming <=> sleep[s] = "Waiting"
    /\ s \in upcoming => waker[s] \in TaskIds

\* A Sleep is ready at its deadline and not before, and outside the scheduler's
\* own loop no deadline in the queue has passed.
NeverEarlyNeverMissed ==
  \A s \in SleepIds :
    /\ sleep[s] \in {"Done", "Taken"} => deadline[s] <= now
    /\ (sleep[s] = "Waiting" /\ ~InFrame({"time"}) /\ panic = "none") => now < deadline[s]

\* The scheduler's Instant and the clock that the intercepted functions return
\* are the same instant, although they are kept and advanced separately.
ClocksAgree == now = time

\* A deadline is computed from the clock that user code reads and compared with the
\* scheduler's own: no Sleep is ready early by either of them, and none is missed.
DeadlinesExact == ClocksAgree /\ NeverEarlyNeverMissed

\* "time is advanced to the precise instant at which the next task will be
\* awoken" (time.rs:6): between the completion of a Sleep and the poll of the task
\* that waits for it, the task stays queued and no time passes.
PromptWake ==
  \A s \in owed : state[waker[s]] \in LiveStates =>
                    state[waker[s]] = "READY" /\ now = deadline[s]

\* "The runtime drives all tasks as far as possible before advancing time"
\* (time.rs:4): no task that could run is left when time advances.
TimeWaitsForTasks ==
  [][now' # now => now < now' /\ \A t \in TaskIds : state[t] # "READY"]_runtimeVars

\* A runtime with time is an executor: what is proved of Executor holds for it.
RefinesExecutor == Spec

=============================================================================
