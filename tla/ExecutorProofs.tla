--------------------------- MODULE ExecutorProofs ---------------------------
(***************************************************************************)
(* Theorems about Executor, for every number of tasks and nodes, with and  *)
(* without a simulator.  The proof of IndInv follows the actions of Next;  *)
(* the safety properties are its consequences.                             *)
(***************************************************************************)
EXTENDS Executor, SequenceTheorems, TLAPS

-----------------------------------------------------------------------------
(* Sequences.                                                              *)

\* What Append does to a stack or a queue.
LEMMA AppendFacts ==
  ASSUME NEW S, NEW s \in Seq(S), NEW e \in S
  PROVE  /\ Append(s, e) \in Seq(S)
         /\ Len(s) \in Nat
         /\ DOMAIN s = 1 .. Len(s)
         /\ Len(Append(s, e)) = Len(s) + 1
         /\ DOMAIN Append(s, e) = 1 .. Len(s) + 1
         /\ \A i \in 1 .. Len(s) : Append(s, e)[i] = s[i]
         /\ Append(s, e)[Len(s) + 1] = e
         /\ Append(s, e) # <<>>
         /\ Last(Append(s, e)) = e
  BY DEF Last

\* What Front and Last return on a stack that is not empty.
LEMMA FrontFacts ==
  ASSUME NEW S, NEW s \in Seq(S), s # <<>>
  PROVE  /\ Len(s) \in Nat \ {0}
         /\ DOMAIN s = 1 .. Len(s)
         /\ Front(s) \in Seq(S)
         /\ Len(Front(s)) = Len(s) - 1
         /\ DOMAIN Front(s) = 1 .. Len(s) - 1
         /\ \A i \in 1 .. Len(s) - 1 : Front(s)[i] = s[i]
         /\ Last(s) = s[Len(s)]
         /\ Last(s) \in S
         /\ Len(s) = 1 => Front(s) = <<>>
         /\ Front(s) # <<>> => Len(s) > 1
<1>1. Len(s) \in Nat \ {0} /\ DOMAIN s = 1 .. Len(s)
  OBVIOUS
<1>2. \A i \in 1 .. Len(s) : s[i] \in S
  OBVIOUS
<1>3. /\ SubSeq(s, 1, Len(s) - 1) \in Seq(S)
      /\ Len(SubSeq(s, 1, Len(s) - 1)) = IF 1 <= Len(s) - 1 THEN (Len(s) - 1) - 1 + 1 ELSE 0
      /\ \A i \in 1 .. (Len(s) - 1) - 1 + 1 : SubSeq(s, 1, Len(s) - 1)[i] = s[1 + i - 1]
  <2>1. 1 \in Int /\ Len(s) - 1 \in Int /\ \A i \in 1 .. Len(s) - 1 : s[i] \in S
    BY <1>1, <1>2
  <2>2. QED
    BY <2>1, SubSeqProperties
<1>4. Front(s) = SubSeq(s, 1, Len(s) - 1) /\ Last(s) = s[Len(s)]
  BY DEF Front, Last
<1>5. Len(Front(s)) = Len(s) - 1 /\ Front(s) \in Seq(S)
  BY <1>1, <1>3, <1>4
<1>6. \A i \in 1 .. Len(s) - 1 : Front(s)[i] = s[i]
  BY <1>1, <1>3, <1>4
<1>7. DOMAIN Front(s) = 1 .. Len(s) - 1
  BY <1>5
<1>8. /\ Len(s) = 1 => Front(s) = <<>>
      /\ Front(s) # <<>> => Len(s) > 1
  BY <1>1, <1>5, EmptySeq
<1>9. QED
  BY <1>1, <1>2, <1>4, <1>5, <1>6, <1>7, <1>8

\* What Tail does to a ready queue that is not empty.
LEMMA TailFacts ==
  ASSUME NEW S, NEW s \in Seq(S), s # <<>>
  PROVE  /\ Len(s) \in Nat \ {0}
         /\ DOMAIN s = 1 .. Len(s)
         /\ Tail(s) \in Seq(S)
         /\ Len(Tail(s)) = Len(s) - 1
         /\ DOMAIN Tail(s) = 1 .. Len(s) - 1
         /\ \A i \in 1 .. Len(s) - 1 : Tail(s)[i] = s[i + 1]
         /\ Head(s) = s[1]
         /\ Head(s) \in S
  OBVIOUS

\* The frames or ids in a sequence after Append.
LEMMA RangeAppend ==
  ASSUME NEW S, NEW s \in Seq(S), NEW e \in S
  PROVE  Range(Append(s, e)) = Range(s) \cup {e}
  BY AppendFacts DEF Range

\* A stack's frames are those below the top and the top.
LEMMA RangeFront ==
  ASSUME NEW S, NEW s \in Seq(S), s # <<>>
  PROVE  Range(s) = Range(Front(s)) \cup {Last(s)}
<1>1. /\ Len(s) \in Nat \ {0} /\ DOMAIN s = 1 .. Len(s)
      /\ DOMAIN Front(s) = 1 .. Len(s) - 1
      /\ \A i \in 1 .. Len(s) - 1 : Front(s)[i] = s[i]
      /\ Last(s) = s[Len(s)]
  BY FrontFacts
<1>2. ASSUME NEW i \in DOMAIN s PROVE s[i] \in Range(Front(s)) \cup {Last(s)}
  <2>1. i = Len(s) \/ i \in 1 .. Len(s) - 1
    BY <1>1
  <2>2. QED
    BY <1>1, <2>1 DEF Range
<1>3. ASSUME NEW i \in DOMAIN Front(s) PROVE Front(s)[i] \in Range(s)
  BY <1>1 DEF Range
<1>4. Last(s) \in Range(s)
  BY <1>1 DEF Range
<1>5. Range(s) \subseteq Range(Front(s)) \cup {Last(s)}
  BY <1>2 DEF Range
<1>6. Range(Front(s)) \subseteq Range(s)
  BY <1>3 DEF Range
<1>7. QED
  BY <1>4, <1>5, <1>6

\* The main loop's pop takes exactly one id out of a queue without duplicates.
LEMMA RangeTail ==
  ASSUME NEW S, NEW s \in Seq(S), s # <<>>, IsInjective(s)
  PROVE  /\ Range(Tail(s)) = Range(s) \ {Head(s)}
         /\ IsInjective(Tail(s))
         /\ Head(s) \in Range(s)
<1>1. IsInjective(Tail(s))
  BY TailFacts DEF IsInjective
<1>2. Range(Tail(s)) \subseteq Range(s) \ {Head(s)}
  BY TailFacts DEF IsInjective, Range
<1>3. ASSUME NEW i \in DOMAIN s, s[i] # Head(s) PROVE s[i] \in Range(Tail(s))
  <2>1. i - 1 \in 1 .. Len(s) - 1 /\ Tail(s)[i - 1] = s[i]
    BY <1>3, TailFacts
  <2>2. QED
    BY <2>1, TailFacts DEF Range
<1>4. Range(s) \ {Head(s)} \subseteq Range(Tail(s))
  BY <1>3 DEF Range
<1>5. Head(s) \in Range(s)
  BY TailFacts DEF Range
<1>6. QED
  BY <1>1, <1>2, <1>4, <1>5

\* Queueing an id that is not queued makes no duplicate.
LEMMA InjectiveAppend ==
  ASSUME NEW S, NEW s \in Seq(S), NEW e \in S, IsInjective(s), e \notin Range(s)
  PROVE  IsInjective(Append(s, e))
  BY AppendFacts DEF IsInjective, Range

-----------------------------------------------------------------------------
(* Node scopes.                                                            *)

\* Leaving a frame restores a well nested stack.
LEMMA NestedPop ==
  ASSUME NEW s \in Seq(FrameType), NEW c, s # <<>>, Nested(s, c)
  PROVE  /\ Nested(Front(s), Last(s).caller)
         /\ Last(s).kind \in BaseKinds => Front(s) = <<>>
         /\ c = Last(s).node
<1>1. /\ Len(s) \in Nat \ {0}
      /\ Front(s) \in Seq(FrameType)
      /\ Len(Front(s)) = Len(s) - 1
      /\ DOMAIN s = 1 .. Len(s)
      /\ DOMAIN Front(s) = 1 .. Len(s) - 1
      /\ \A i \in 1 .. Len(s) - 1 : Front(s)[i] = s[i]
      /\ Last(s) = s[Len(s)]
      /\ Len(s) = 1 => Front(s) = <<>>
      /\ Front(s) # <<>> => Len(s) > 1
  BY FrontFacts
<1>2. \A i \in 1 .. Len(s) : /\ s[i].kind \in BaseKinds => i = 1
                             /\ s[i].caller = IF i = 1 THEN INIT ELSE s[i - 1].node
  BY <1>1 DEF Nested
<1>3. c = Last(s).node
  BY DEF Nested
<1>4. Last(s).kind \in BaseKinds => Front(s) = <<>>
  BY <1>1, <1>2
<1>5. Last(s).caller = IF Front(s) = <<>> THEN INIT ELSE Last(Front(s)).node
  <2>1. CASE Front(s) = <<>>
    <3>1. Len(s) = 1
      BY <1>1, <2>1, EmptySeq
    <3>2. QED
      BY <1>1, <1>2, <2>1, <3>1
  <2>2. CASE Front(s) # <<>>
    <3>1. Last(Front(s)) = Front(s)[Len(s) - 1]
      BY <1>1 DEF Last
    <3>2. QED
      BY <1>1, <1>2, <2>2, <3>1
  <2>3. QED
    BY <2>1, <2>2
<1>6. \A i \in DOMAIN Front(s) :
        /\ Front(s)[i].kind \in BaseKinds => i = 1
        /\ Front(s)[i].caller = IF i = 1 THEN INIT ELSE Front(s)[i - 1].node
  BY <1>1, <1>2
<1>7. QED
  BY <1>3, <1>4, <1>5, <1>6 DEF Nested

\* Entering the frame f from the node c keeps the stack well nested.
LEMMA NestedPush ==
  ASSUME NEW s \in Seq(FrameType), NEW c, Nested(s, c),
         NEW f \in FrameType, f.caller = c, f.kind \in BaseKinds => s = <<>>
  PROVE  Nested(Append(s, f), f.node)
<1>1. /\ Len(s) \in Nat
      /\ DOMAIN s = 1 .. Len(s)
      /\ DOMAIN Append(s, f) = 1 .. Len(s) + 1
      /\ \A i \in 1 .. Len(s) : Append(s, f)[i] = s[i]
      /\ Append(s, f)[Len(s) + 1] = f
      /\ Append(s, f) # <<>>
      /\ Last(Append(s, f)) = f
  BY AppendFacts
<1>2. c = IF s = <<>> THEN INIT ELSE s[Len(s)].node
  BY DEF Nested, Last
<1>3. s = <<>> <=> Len(s) = 0
  BY EmptySeq
<1>4. ASSUME NEW i \in 1 .. Len(s) + 1
      PROVE  /\ Append(s, f)[i].kind \in BaseKinds => i = 1
             /\ Append(s, f)[i].caller = IF i = 1 THEN INIT ELSE Append(s, f)[i - 1].node
  <2>1. CASE i = Len(s) + 1
    <3>1. CASE s = <<>>
      BY <1>1, <1>2, <1>3, <2>1, <3>1
    <3>2. CASE s # <<>>
      <4>1. i - 1 = Len(s) /\ Len(s) \in 1 .. Len(s) /\ i # 1
        BY <1>1, <1>3, <2>1, <3>2
      <4>2. QED
        BY <1>1, <1>2, <2>1, <3>2, <4>1
    <3>3. QED
      BY <3>1, <3>2
  <2>2. CASE i # Len(s) + 1
    <3>1. i \in 1 .. Len(s) /\ (i # 1 => i - 1 \in 1 .. Len(s))
      BY <1>1, <2>2
    <3>2. QED
      BY <1>1, <3>1 DEF Nested
  <2>3. QED
    BY <2>1, <2>2
<1>5. QED
  BY <1>1, <1>4 DEF Nested

\* What a call does to the stack of a well nested state.
LEMMA PushStack ==
  ASSUME TypeOK, Nested(stack, curNode), NEW f \in FrameType, Push(f),
         f.caller = curNode, f.kind \in BaseKinds => stack = <<>>
  PROVE  /\ stack' \in Seq(FrameType)
         /\ curNode' \in NodeIds
         /\ Nested(stack, curNode)'
         /\ Range(stack') = Range(stack) \cup {f}
<1>1. stack \in Seq(FrameType) /\ stack' = Append(stack, f) /\ curNode' = f.node
  BY DEF TypeOK, Push
<1>2. stack' \in Seq(FrameType) /\ Range(stack') = Range(stack) \cup {f}
  BY <1>1, AppendFacts, RangeAppend
<1>3. Nested(stack', curNode')
  BY <1>1, NestedPush
<1>4. QED
  BY <1>1, <1>2, <1>3 DEF Nested, FrameType

\* What is known of the stack below the top frame.
LEMMA TopFacts ==
  ASSUME TypeOK, Nested(stack, curNode), stack # <<>>
  PROVE  /\ Top \in FrameType
         /\ Top \in Range(stack)
         /\ curNode = Top.node
         /\ Front(stack) \in Seq(FrameType)
         /\ Range(stack) = Range(Front(stack)) \cup {Top}
         /\ Nested(Front(stack), Top.caller)
         /\ Top.kind \in BaseKinds => Front(stack) = <<>>
<1>1. stack \in Seq(FrameType)
  BY DEF TypeOK
<1>2. QED
  BY <1>1, FrontFacts, RangeFront, NestedPop DEF Top

\* A frame returns.
LEMMA PopStack ==
  ASSUME TypeOK, Nested(stack, curNode), stack # <<>>, Pop
  PROVE  /\ stack' \in Seq(FrameType)
         /\ curNode' \in NodeIds
         /\ Nested(stack, curNode)'
         /\ Range(stack) = Range(stack') \cup {Top}
         /\ Top.kind \in BaseKinds => stack' = <<>>
<1>1. stack' = Front(stack) /\ curNode' = Top.caller
  BY DEF Pop
<1>2. Nested(stack', curNode')
  BY <1>1, TopFacts
<1>3. QED
  BY <1>1, <1>2, TopFacts DEF Nested, FrameType

\* The top frame goes on as the frame f.
LEMMA SwapStack ==
  ASSUME TypeOK, Nested(stack, curNode), stack # <<>>, NEW f \in FrameType,
         Swap(f), curNode' = curNode,
         f.caller = Top.caller, f.node = Top.node, f.kind \in BaseKinds => Top.kind \in BaseKinds
  PROVE  /\ stack' \in Seq(FrameType)
         /\ curNode' \in NodeIds
         /\ Nested(stack, curNode)'
         /\ Range(stack') = Range(Front(stack)) \cup {f}
<1>1. stack' = Append(Front(stack), f) /\ curNode' = f.node
  BY TopFacts DEF Swap
<1>2. stack' \in Seq(FrameType) /\ Range(stack') = Range(Front(stack)) \cup {f}
  BY <1>1, TopFacts, AppendFacts, RangeAppend
<1>3. Nested(stack', curNode')
  BY <1>1, TopFacts, NestedPush
<1>4. QED
  BY <1>1, <1>2, <1>3 DEF Nested, FrameType

\* The top frame goes on as the frame f and calls the frame g.
LEMMA SwapPushStack ==
  ASSUME TypeOK, Nested(stack, curNode), stack # <<>>, NEW f \in FrameType, NEW g \in FrameType,
         stack' = Append(Append(Front(stack), f), g), curNode' = g.node,
         f.caller = Top.caller, f.node = Top.node, f.kind \in BaseKinds => Top.kind \in BaseKinds,
         g.caller = curNode, g.kind \notin BaseKinds
  PROVE  /\ stack' \in Seq(FrameType)
         /\ curNode' \in NodeIds
         /\ Nested(stack, curNode)'
         /\ Range(stack') = Range(Front(stack)) \cup {f, g}
<1> DEFINE s == Append(Front(stack), f)
<1>1. s \in Seq(FrameType) /\ Range(s) = Range(Front(stack)) \cup {f}
  BY TopFacts, AppendFacts, RangeAppend
<1>2. Nested(s, f.node)
  BY TopFacts, NestedPush
<1>3. g.caller = f.node
  BY TopFacts
<1>4. stack' = Append(s, g)
  OBVIOUS
<1> HIDE DEF s
<1>5. Nested(stack', curNode')
  BY <1>1, <1>2, <1>3, <1>4, NestedPush
<1>6. stack' \in Seq(FrameType) /\ Range(stack') = Range(s) \cup {g}
  BY <1>1, <1>4, AppendFacts, RangeAppend
<1>7. QED
  BY <1>1, <1>5, <1>6 DEF Nested, FrameType

-----------------------------------------------------------------------------
(* Tasks.                                                                  *)

\* The part of IndInv that does not mention the stack.
TaskTypes ==
  /\ state \in [TaskIds -> TaskStates]
  /\ home \in [TaskIds -> NodeIds]
  /\ entries \in SUBSET TaskIds
  /\ slot \in SUBSET TaskIds
  /\ queue \in Seq(TaskIds)
  /\ nodeTasks \in [NodeIds -> SUBSET TaskIds]
  /\ lastId \in 0 .. MaxTasks
  /\ result \in [TaskIds -> Outcomes]

TaskInv == TaskTypes /\ ReadyQueueExact /\ EntriesExact /\ BornInOrder

\* A step that leaves the task tables alone keeps what is known of them.
LEMMA TaskUnchanged ==
  ASSUME TaskInv, UNCHANGED taskVars
  PROVE  TaskInv'
  BY DEF TaskInv, TaskTypes, ReadyQueueExact, EntriesExact, BornInOrder, taskVars

\* Executor::spawn adds one fresh, queued task to every table.
LEMMA NewTaskStep ==
  ASSUME TaskInv, NEW n \in NodeIds, NewTask(n)
  PROVE  /\ TaskInv'
         /\ state[lastId + 1] = "UNBORN"
         /\ lastId + 1 \in TaskIds
<1> DEFINE t == lastId + 1
<1>1. /\ t \in TaskIds /\ state[t] = "UNBORN" /\ t \notin entries /\ t \notin Range(queue)
  BY DEF TaskInv, TaskTypes, NewTask, BornInOrder, EntriesExact, ReadyQueueExact, ReadyStates,
         TaskIds
<1>2. TaskTypes'
  BY <1>1, AppendFacts
  DEF TaskInv, TaskTypes, NewTask, TaskStates, LiveStates, ReadyStates, TaskIds
<1>3. ReadyQueueExact'
  <2>1. IsInjective(queue') /\ Range(queue') = Range(queue) \cup {t}
    BY <1>1, InjectiveAppend, RangeAppend DEF TaskInv, TaskTypes, NewTask, ReadyQueueExact
  <2>2. QED
    BY <1>1, <2>1 DEF TaskInv, TaskTypes, NewTask, ReadyQueueExact, ReadyStates
<1>4. EntriesExact'
  <2>1. entries' = {u \in TaskIds : state'[u] \notin {"UNBORN", "ABORTED", "COMPLETE"}}
    BY <1>1 DEF TaskInv, TaskTypes, NewTask, EntriesExact
  <2>2. ASSUME NEW m \in NodeIds PROVE nodeTasks'[m] = {u \in entries' : home'[u] = m}
    BY <1>1 DEF TaskInv, TaskTypes, NewTask, EntriesExact
  <2>3. QED
    BY <2>1, <2>2 DEF EntriesExact
<1>5. BornInOrder'
  BY <1>1 DEF TaskInv, TaskTypes, NewTask, BornInOrder, TaskIds
<1>6. QED
  BY <1>1, <1>2, <1>3, <1>4, <1>5 DEF TaskInv

\* wake_by_ref queues a waiting task.
LEMMA WakeStep ==
  ASSUME TaskInv, NEW t \in TaskIds, Wake(t)
  PROVE  TaskInv'
<1>1. t \notin Range(queue) /\ t \in entries
  BY DEF TaskInv, Wake, ReadyQueueExact, EntriesExact, ReadyStates
<1>2. TaskTypes'
  BY AppendFacts DEF TaskInv, TaskTypes, Wake, TaskStates, LiveStates
<1>3. ReadyQueueExact'
  <2>1. IsInjective(queue') /\ Range(queue') = Range(queue) \cup {t}
    BY <1>1, InjectiveAppend, RangeAppend DEF TaskInv, TaskTypes, Wake, ReadyQueueExact
  <2>2. QED
    BY <2>1 DEF TaskInv, TaskTypes, Wake, ReadyQueueExact, ReadyStates
<1>4. EntriesExact' /\ BornInOrder'
  BY <1>1 DEF TaskInv, TaskTypes, Wake, EntriesExact, BornInOrder
<1>5. QED
  BY <1>2, <1>3, <1>4 DEF TaskInv

\* abort_local marks a live task and makes sure that it is queued to be reaped.
LEMMA AbortStep ==
  ASSUME TaskInv, NEW t \in TaskIds, Abortable(t), abort_local(t)
  PROVE  TaskInv'
<1>1. TaskTypes'
  BY AppendFacts
  DEF TaskInv, TaskTypes, abort_local, TaskStates, LiveStates, ReadyStates, Outcomes
<1>2. ReadyQueueExact'
  <2>1. CASE state[t] = "WAITING"
    <3>1. t \notin Range(queue) /\ queue' = Append(queue, t)
      BY <2>1 DEF TaskInv, abort_local, ReadyQueueExact, ReadyStates
    <3>2. IsInjective(queue') /\ Range(queue') = Range(queue) \cup {t}
      BY <3>1, InjectiveAppend, RangeAppend DEF TaskInv, TaskTypes, ReadyQueueExact
    <3>3. QED
      BY <3>2 DEF TaskInv, TaskTypes, abort_local, ReadyQueueExact, ReadyStates
  <2>2. CASE state[t] = "READY"
    BY <2>2 DEF TaskInv, TaskTypes, abort_local, ReadyQueueExact, ReadyStates
  <2>3. QED
    BY <2>1, <2>2 DEF Abortable, LiveStates
<1>3. EntriesExact' /\ BornInOrder'
  BY DEF TaskInv, TaskTypes, abort_local, Abortable, LiveStates, EntriesExact, BornInOrder
<1>4. QED
  BY <1>1, <1>2, <1>3 DEF TaskInv

\* Taking the entry of a task that is not queued any more, or leaving the entry of
\* one that is: the two ways in which a task ends.
LEMMA ForgetStep ==
  ASSUME TaskInv, NEW t \in TaskIds, Removable(t), remove_task_entry(t),
         NEW new \in {"ABORTED", "COMPLETE"}, state' = [state EXCEPT ![t] = new],
         IsInjective(queue'), Range(queue') = Range(queue) \ {t}, queue' \in Seq(TaskIds),
         result' \in [TaskIds -> Outcomes], UNCHANGED <<home, slot, lastId>>
  PROVE  TaskInv'
<1>1. TaskTypes'
  BY DEF TaskInv, TaskTypes, remove_task_entry, TaskStates
<1>2. ReadyQueueExact'
  BY DEF TaskInv, TaskTypes, ReadyQueueExact, ReadyStates
<1>3. EntriesExact'
  <2>1. entries' = {u \in TaskIds : state'[u] \notin {"UNBORN", "ABORTED", "COMPLETE"}}
    BY DEF TaskInv, TaskTypes, EntriesExact, remove_task_entry
  <2>2. ASSUME NEW m \in NodeIds PROVE nodeTasks'[m] = {u \in entries' : home'[u] = m}
    BY DEF TaskInv, TaskTypes, EntriesExact, remove_task_entry
  <2>3. QED
    BY <2>1, <2>2 DEF EntriesExact
<1>4. BornInOrder'
  BY DEF TaskInv, TaskTypes, BornInOrder, Removable, EntriesExact
<1>5. QED
  BY <1>1, <1>2, <1>3, <1>4 DEF TaskInv

-----------------------------------------------------------------------------
(* Every action preserves IndInv.                                          *)

ControlTypes ==
  /\ level \in [NodeIds -> RunLevels]
  /\ finalStopped \in BOOLEAN
  /\ curNode \in NodeIds
  /\ root \in TaskIds \cup {NoTask}
  /\ output \in BOOLEAN
  /\ stack \in Seq(FrameType)
  /\ mode \in {"run", "destroy", "finalize", "done"}
  /\ panic \in {"none", "user", "simulator", "borrow"}

\* The two halves of the invariant.
LEMMA Halves ==
  IndInv <=> /\ TaskInv
             /\ ControlTypes
             /\ SlotExact
             /\ Nested(stack, curNode)
             /\ \A f \in Range(stack) : FrameExact(f)
             /\ StopCovers
             /\ ShutdownCovers
             /\ (mode # "run" => finalStopped)
  BY DEF IndInv, TypeOK, TaskInv, TaskTypes, ControlTypes

\* The invariant after a step, from its halves.
LEMMA Assemble ==
  ASSUME TaskInv', ControlTypes', SlotExact', Nested(stack, curNode)',
         \A f \in Range(stack') : FrameExact(f)', StopCovers', ShutdownCovers',
         (mode # "run" => finalStopped)'
  PROVE  IndInv'
  BY DEF IndInv, TypeOK, TaskInv, TaskTypes, ControlTypes

\* The frame of a call has the type of a frame.
LEMMA FrameTyped ==
  ASSUME TypeOK, NEW k \in UserKinds \cup LibraryKinds, NEW n \in NodeIds,
         NEW t \in TaskIds \cup {NoTask}, NEW todo \in SUBSET Nat
  PROVE  /\ Frame(k, n, t, todo) \in FrameType
         /\ Frame(k, n, t, todo).kind = k
         /\ Frame(k, n, t, todo).node = n
         /\ Frame(k, n, t, todo).task = t
         /\ Frame(k, n, t, todo).caller = curNode
         /\ Frame(k, n, t, todo).todo = todo
  BY DEF Frame, FrameType, TypeOK

\* A call or return that leaves the tasks alone, neither starts nor ends a poll
\* and adds no frame that works on a task.
LEMMA QuietStep ==
  ASSUME IndInv, UNCHANGED taskVars,
         \A f \in Range(stack') : f \in Range(stack) \/ FrameExact(f),
         \A f : f.kind = "poll" => (f \in Range(stack) <=> f \in Range(stack'))
  PROVE  TaskInv' /\ SlotExact' /\ \A f \in Range(stack') : FrameExact(f)'
<1>1. TaskInv'
  BY Halves, TaskUnchanged
<1>2. SlotExact'
  BY DEF IndInv, SlotExact, Polling, taskVars
<1>3. ASSUME NEW f \in Range(stack') PROVE FrameExact(f)'
  BY DEF IndInv, FrameExact, taskVars
<1>4. QED
  BY <1>1, <1>2, <1>3

\* A panic of user code, of a simulator or of a second borrow ends the simulation.
LEMMA FailStep ==
  ASSUME IndInv, NEW r \in {"user", "simulator", "borrow"}, panic' = r,
         UNCHANGED <<taskVars, ctlVars, rootVars, mode, finalStopped>>,
         level' \in [NodeIds -> RunLevels],
         \A n \in NodeIds :
           \/ level'[n] = level[n]
           \/ level'[n] = "Running" /\ (~finalStopped \/ level[n] = "Stopped")
  PROVE  IndInv'
<1>1. TaskInv' /\ SlotExact' /\ \A f \in Range(stack') : FrameExact(f)'
  BY QuietStep DEF ctlVars
<1>2. ControlTypes' /\ Nested(stack, curNode)' /\ (mode # "run" => finalStopped)'
  BY Halves DEF ControlTypes, ctlVars, rootVars
<1>3. StopCovers' /\ ShutdownCovers'
  BY Halves DEF TaskInv, TaskTypes, StopCovers, ShutdownCovers, ctlVars, taskVars
<1>4. QED
  BY <1>1, <1>2, <1>3, Assemble

\* A frame that polls nothing and has nothing left to do returns.
LEMMA ReturnStep ==
  ASSUME IndInv, stack # <<>>, Pop, Top.kind # "poll",
         Top.kind \in {"stop", "stopall"} => Top.todo = {},
         UNCHANGED <<taskVars, nodeVars, rootVars, mode, panic>>
  PROVE  IndInv'
<1>1. /\ stack' \in Seq(FrameType) /\ curNode' \in NodeIds /\ Nested(stack, curNode)'
      /\ Range(stack) = Range(stack') \cup {Top}
  BY PopStack DEF IndInv
<1>2. TaskInv' /\ SlotExact' /\ \A f \in Range(stack') : FrameExact(f)'
  BY <1>1, QuietStep
<1>3. ControlTypes' /\ (mode # "run" => finalStopped)'
  BY <1>1, Halves DEF ControlTypes, nodeVars, rootVars
<1>4. StopCovers'
  BY <1>1, Halves DEF StopCovers, taskVars, nodeVars
<1>5. ShutdownCovers'
  BY <1>1, Halves DEF ShutdownCovers, nodeVars
<1>6. QED
  BY <1>1, <1>2, <1>3, <1>4, <1>5, Assemble

\* A call that polls nothing.
LEMMA CallStep ==
  ASSUME IndInv, NEW f \in FrameType, Push(f), f.caller = curNode, f.kind # "poll",
         f.kind \in BaseKinds => stack = <<>>, FrameExact(f), UNCHANGED taskVars
  PROVE  /\ stack' \in Seq(FrameType) /\ curNode' \in NodeIds /\ Nested(stack, curNode)'
         /\ TaskInv' /\ SlotExact' /\ \A g \in Range(stack') : FrameExact(g)'
         /\ Range(stack') = Range(stack) \cup {f}
<1>1. /\ stack' \in Seq(FrameType) /\ curNode' \in NodeIds /\ Nested(stack, curNode)'
      /\ Range(stack') = Range(stack) \cup {f}
  BY PushStack DEF IndInv
<1>2. QED
  BY <1>1, QuietStep

\* for_all_simulators, called by a frame that stays on the stack.
LEMMA NotifyStep ==
  ASSUME IndInv, NEW n \in NodeIds, ~finalStopped \/ level[n] = "Stopped",
         level' = [level EXCEPT ![n] = "Running"], NotifySimulators(n, stack, curNode),
         UNCHANGED <<taskVars, finalStopped, rootVars, mode>>
  PROVE  IndInv'
<1>1. /\ level' \in [NodeIds -> RunLevels]
      /\ \A m \in NodeIds :
           \/ level'[m] = level[m]
           \/ level'[m] = "Running" /\ (~finalStopped \/ level[m] = "Stopped")
  BY Halves DEF ControlTypes, RunLevels
<1>2. CASE ~HasSimulator /\ UNCHANGED <<ctlVars, panic>>
  <2>1. TaskInv' /\ SlotExact' /\ \A f \in Range(stack') : FrameExact(f)'
    BY <1>2, QuietStep DEF ctlVars
  <2>2. ControlTypes' /\ Nested(stack, curNode)' /\ (mode # "run" => finalStopped)'
    BY <1>1, <1>2, Halves DEF ControlTypes, ctlVars, rootVars
  <2>3. StopCovers' /\ ShutdownCovers'
    BY <1>1, <1>2, Halves DEF TaskInv, TaskTypes, StopCovers, ShutdownCovers, ctlVars, taskVars
  <2>4. QED
    BY <2>1, <2>2, <2>3, Assemble
<1>3. CASE panic' = "simulator" /\ UNCHANGED ctlVars
  BY <1>1, <1>3, FailStep
<1> DEFINE f == Frame("callback", n, NoTask, {})
<1>4. CASE Push(f) /\ UNCHANGED panic
  <2>1. f \in FrameType /\ f.kind = "callback" /\ f.caller = curNode
    BY FrameTyped DEF UserKinds, IndInv
  <2>2. FrameExact(f)
    BY <2>1 DEF FrameExact
  <2> HIDE DEF f
  <2>3. /\ stack' \in Seq(FrameType) /\ curNode' \in NodeIds /\ Nested(stack, curNode)'
        /\ TaskInv' /\ SlotExact' /\ \A g \in Range(stack') : FrameExact(g)'
        /\ Range(stack') = Range(stack) \cup {f}
    BY <1>4, <2>1, <2>2, CallStep DEF BaseKinds
  <2>4. ControlTypes' /\ (mode # "run" => finalStopped)'
    BY <1>1, <1>4, <2>3, Halves DEF ControlTypes, rootVars
  <2>5. StopCovers' /\ ShutdownCovers'
    BY <1>1, <2>3, Halves DEF TaskInv, TaskTypes, StopCovers, ShutdownCovers, taskVars
  <2>6. QED
    BY <2>3, <2>4, <2>5, Assemble
<1>5. QED
  <2>1. f.node = n /\ [f EXCEPT !.caller = curNode] = f
    BY DEF Frame
  <2>2. QED
    BY <1>2, <1>3, <1>4, <2>1 DEF NotifySimulators, Push, ctlVars

\* Executor::spawn, by a frame of user code that stays on the stack.
LEMMA SpawnAction ==
  ASSUME IndInv, NEW n \in NodeIds, Spawn(n)
  PROVE  IndInv'
<1>1. CASE level[n] # "Running" /\ Fail("user")
  BY <1>1, FailStep, Halves DEF Fail, nodeVars, ControlTypes
<1>2. CASE level[n] = "Running" /\ NewTask(n) /\ UNCHANGED <<nodeVars, rootVars, ctlVars, mode, panic>>
  <2> DEFINE t == lastId + 1
  <2>1. TaskInv' /\ state[t] = "UNBORN" /\ t \in TaskIds
    BY <1>2, NewTaskStep, Halves
  <2>2. /\ state' = [state EXCEPT ![t] = "READY"] /\ home' = [home EXCEPT ![t] = n]
        /\ slot' = slot \cup {t}
    BY <1>2 DEF NewTask
  <2> HIDE DEF t
  <2>3. ControlTypes' /\ Nested(stack, curNode)' /\ (mode # "run" => finalStopped)'
    BY <1>2, Halves DEF ControlTypes, nodeVars, rootVars, ctlVars
  <2>4. ASSUME NEW f \in Range(stack) PROVE FrameExact(f)'
    BY <2>1, <2>2, Halves DEF FrameExact, TaskInv, TaskTypes
  <2>5. ~Polling(t)
    BY <2>1, Halves DEF Polling, FrameExact, LiveStates
  <2>6. SlotExact'
    BY <1>2, <2>1, <2>2, <2>5, Halves
    DEF SlotExact, Polling, LiveStates, TaskInv, TaskTypes, ctlVars
  <2>7. StopCovers' /\ ShutdownCovers'
    BY <1>2, <2>1, <2>2, Halves
    DEF StopCovers, ShutdownCovers, LiveStates, TaskInv, TaskTypes, ctlVars, nodeVars
  <2>8. QED
    BY <1>2, <2>1, <2>3, <2>4, <2>6, <2>7, Assemble DEF ctlVars
<1>3. QED
  BY <1>1, <1>2 DEF Spawn

\* The function passed to run returns, and the root task is spawned.
LEMMA InitReturnAction ==
  ASSUME IndInv, InitReturn
  PROVE  IndInv'
<1>1. CASE level[curNode] # "Running" /\ Fail("user")
  BY <1>1, FailStep, Halves DEF Fail, nodeVars, ControlTypes
<1>2. CASE /\ level[curNode] = "Running" /\ NewTask(curNode) /\ root' = lastId' /\ Pop
           /\ UNCHANGED <<nodeVars, output, mode, panic>>
  <2> DEFINE t == lastId + 1
  <2>1. TaskInv' /\ state[t] = "UNBORN" /\ t \in TaskIds
    BY <1>2, NewTaskStep, Halves DEF ControlTypes
  <2>2. /\ state' = [state EXCEPT ![t] = "READY"] /\ home' = [home EXCEPT ![t] = curNode]
        /\ slot' = slot \cup {t} /\ lastId' = t
    BY <1>2 DEF NewTask
  <2> HIDE DEF t
  <2>3. /\ stack' \in Seq(FrameType) /\ curNode' \in NodeIds /\ Nested(stack, curNode)'
        /\ Range(stack) = Range(stack') \cup {Top} /\ Top.kind = "init"
    BY <1>2, PopStack DEF IndInv, InitReturn, InFrame
  <2>4. ControlTypes' /\ (mode # "run" => finalStopped)'
    BY <1>2, <2>1, <2>2, <2>3, Halves DEF ControlTypes, nodeVars
  <2>5. ASSUME NEW f \in Range(stack') PROVE FrameExact(f)'
    BY <2>1, <2>2, <2>3, Halves DEF FrameExact, TaskInv, TaskTypes
  <2>6. ~Polling(t) /\ \A u \in TaskIds : Polling(u) <=> Polling(u)'
    BY <2>1, <2>3, Halves DEF Polling, FrameExact, LiveStates
  <2>7. SlotExact'
    BY <2>1, <2>2, <2>6, Halves DEF SlotExact, LiveStates, TaskInv, TaskTypes
  <2>8. StopCovers' /\ ShutdownCovers'
    BY <1>2, <2>1, <2>2, <2>3, Halves
    DEF StopCovers, ShutdownCovers, LiveStates, TaskInv, TaskTypes, ControlTypes, nodeVars
  <2>9. QED
    BY <2>1, <2>3, <2>4, <2>5, <2>7, <2>8, Assemble
<1>3. QED
  BY <1>1, <1>2 DEF InitReturn

\* wake_by_ref.
LEMMA WakeAction ==
  ASSUME IndInv, NEW t \in TaskIds, Wake(t)
  PROVE  IndInv'
<1>1. TaskInv'
  BY WakeStep, Halves
<1>2. /\ state[t] = "WAITING" /\ state' = [state EXCEPT ![t] = "READY"]
      /\ UNCHANGED <<home, slot, nodeVars, rootVars, ctlVars, mode, panic>>
  BY DEF Wake
<1>3. ControlTypes' /\ Nested(stack, curNode)' /\ (mode # "run" => finalStopped)'
  BY <1>2, Halves DEF ControlTypes, nodeVars, rootVars, ctlVars
<1>4. ASSUME NEW f \in Range(stack) PROVE FrameExact(f)'
  BY <1>2, Halves DEF FrameExact, LiveStates, TaskInv, TaskTypes
<1>5. SlotExact'
  BY <1>2, Halves DEF SlotExact, Polling, LiveStates, TaskInv, TaskTypes, ctlVars
<1>6. StopCovers' /\ ShutdownCovers'
  BY <1>2, Halves
  DEF StopCovers, ShutdownCovers, LiveStates, TaskInv, TaskTypes, ctlVars, nodeVars
<1>7. QED
  BY <1>1, <1>2, <1>3, <1>4, <1>5, <1>6, Assemble DEF ctlVars

\* What abort_local leaves of the frames that work on tasks.
LEMMA AbortFrames ==
  ASSUME IndInv, NEW t \in TaskIds, Abortable(t), abort_local(t)
  PROVE  /\ TaskInv'
         /\ \A f : FrameExact(f) => FrameExact(f)'
         /\ \A u \in TaskIds : u # t => state'[u] = state[u]
         /\ state'[t] \notin LiveStates
         /\ state[t] # "UNBORN"
         /\ slot' = slot \ {t}
         /\ home' = home
<1>1. TaskInv'
  BY AbortStep, Halves
<1>2. ASSUME NEW f, FrameExact(f) PROVE FrameExact(f)'
  BY <1>2, Halves DEF FrameExact, abort_local, TaskInv, TaskTypes
<1>3. QED
  BY <1>1, <1>2, Halves DEF abort_local, Abortable, LiveStates, TaskInv, TaskTypes

\* abort_inner: the future is dropped in its own node's scope.
LEMMA AbortAction ==
  ASSUME IndInv, NEW t \in TaskIds, Abort(t)
  PROVE  IndInv'
<1>1. Abortable(t) /\ abort_local(t) /\ UNCHANGED <<nodeVars, rootVars, mode, panic>>
  BY DEF Abort
<1>2. /\ TaskInv' /\ (\A f : FrameExact(f) => FrameExact(f)')
      /\ (\A u \in TaskIds : u # t => state'[u] = state[u])
      /\ state'[t] \notin LiveStates /\ state[t] # "UNBORN"
      /\ slot' = slot \ {t} /\ home' = home
  BY <1>1, AbortFrames
<1>3. (mode # "run" => finalStopped)'
  BY <1>1, Halves DEF nodeVars
<1> DEFINE f == Frame("drop", home[t], t, {})
<1>4. CASE t \in slot /\ Push(f)
  <2>1. f \in FrameType /\ f.kind = "drop" /\ f.caller = curNode /\ f.node = home[t] /\ f.task = t
    BY FrameTyped, Halves DEF UserKinds, IndInv, TaskInv, TaskTypes
  <2>2. FrameExact(f)
    BY <1>2, <2>1 DEF FrameExact
  <2> HIDE DEF f
  <2>3. /\ stack' \in Seq(FrameType) /\ curNode' \in NodeIds /\ Nested(stack, curNode)'
        /\ Range(stack') = Range(stack) \cup {f}
    BY <1>4, <2>1, PushStack DEF IndInv, BaseKinds
  <2>4. ControlTypes'
    BY <1>1, <2>3, Halves DEF ControlTypes, nodeVars, rootVars
  <2>5. \A g \in Range(stack') : FrameExact(g)'
    BY <1>2, <2>2, <2>3, Halves
  <2>6. \A u \in TaskIds : Polling(u) <=> Polling(u)'
    BY <2>1, <2>3 DEF Polling
  <2>7. SlotExact'
    BY <1>2, <2>6, Halves DEF SlotExact
  <2>8. StopCovers' /\ ShutdownCovers'
    BY <1>1, <1>2, <2>3, Halves DEF StopCovers, ShutdownCovers, nodeVars
  <2>9. QED
    BY <1>2, <1>3, <2>3, <2>4, <2>5, <2>7, <2>8, Assemble
<1>5. CASE t \notin slot /\ UNCHANGED ctlVars
  <2>1. ControlTypes' /\ Nested(stack, curNode)' /\ \A g \in Range(stack') : FrameExact(g)'
    BY <1>1, <1>2, <1>5, Halves DEF ControlTypes, nodeVars, rootVars, ctlVars
  <2>2. SlotExact'
    BY <1>2, <1>5, Halves DEF SlotExact, Polling, ctlVars
  <2>3. StopCovers' /\ ShutdownCovers'
    BY <1>1, <1>2, <1>5, Halves DEF StopCovers, ShutdownCovers, nodeVars, ctlVars
  <2>4. QED
    BY <1>2, <1>3, <2>1, <2>2, <2>3, Assemble
<1>6. QED
  BY <1>4, <1>5 DEF Abort

\* One task of the snapshot of stop_node is aborted or skipped.
LEMMA StopNextAction ==
  ASSUME IndInv, NEW t \in TaskIds, StopNext(t)
  PROVE  IndInv'
<1> DEFINE rest == [Top EXCEPT !.todo = @ \ {t}]
           f    == Frame("drop", curNode, t, {})
<1>1. /\ stack # <<>> /\ Top.kind = "stop" /\ t \in Top.todo
      /\ UNCHANGED <<curNode, nodeVars, rootVars, mode, panic>>
  BY DEF StopNext, InFrame
<1>2. /\ Top \in FrameType /\ Top \in Range(stack) /\ curNode = Top.node /\ curNode \in NodeIds
      /\ Range(stack) = Range(Front(stack)) \cup {Top}
  BY <1>1, TopFacts DEF IndInv, TypeOK
<1>3. /\ rest \in FrameType /\ rest.kind = "stop" /\ rest.node = Top.node
      /\ rest.caller = Top.caller /\ rest.todo = Top.todo \ {t}
  BY <1>1, <1>2 DEF FrameType
<1>4. FrameExact(Top) /\ FrameExact(rest) /\ home[t] = curNode /\ state[t] # "UNBORN"
  BY <1>1, <1>2, <1>3, Halves DEF FrameExact
<1>5. /\ f \in FrameType /\ f.kind = "drop" /\ f.caller = curNode /\ f.node = curNode
      /\ f.task = t
  BY <1>2, FrameTyped DEF UserKinds, IndInv
<1>6. FrameExact(f)
  BY <1>4, <1>5 DEF FrameExact
<1>7. /\ \/ Abortable(t) /\ abort_local(t)
         \/ ~Abortable(t) /\ UNCHANGED taskVars
      /\ \/ t \in slot /\ stack' = Append(Append(Front(stack), rest), f)
         \/ Swap(rest)
  BY DEF StopNext, Swap
<1> HIDE DEF rest, f
<1>8. /\ stack' \in Seq(FrameType) /\ curNode' \in NodeIds /\ Nested(stack, curNode)'
      /\ \/ Range(stack') = Range(Front(stack)) \cup {rest}
         \/ Range(stack') = Range(Front(stack)) \cup {rest, f}
  <2>1. CASE stack' = Append(Append(Front(stack), rest), f)
    BY <1>1, <1>2, <1>3, <1>5, <2>1, SwapPushStack DEF IndInv, BaseKinds
  <2>2. CASE Swap(rest)
    BY <1>1, <1>2, <1>3, <2>2, SwapStack DEF IndInv, BaseKinds
  <2>3. QED
    BY <1>7, <2>1, <2>2
<1>9. /\ TaskInv' /\ (\A g : FrameExact(g) => FrameExact(g)')
      /\ (\A u \in TaskIds : u # t => state'[u] = state[u])
      /\ state'[t] \notin LiveStates
      /\ (slot' = slot \/ slot' = slot \ {t}) /\ (state' = state \/ slot' = slot \ {t})
      /\ home' = home
  <2>1. CASE Abortable(t) /\ abort_local(t)
    BY <2>1, AbortFrames
  <2>2. CASE ~Abortable(t) /\ UNCHANGED taskVars
    <3>1. TaskInv' /\ (\A g : FrameExact(g) => FrameExact(g)')
      BY <2>2, TaskUnchanged, Halves DEF FrameExact, taskVars
    <3>2. state[t] \notin LiveStates
      BY <2>2, Halves DEF Abortable, TaskInv, EntriesExact, LiveStates
    <3>3. QED
      BY <2>2, <3>1, <3>2 DEF taskVars
  <2>3. QED
    BY <1>7, <2>1, <2>2
<1>10. ControlTypes' /\ (mode # "run" => finalStopped)'
  BY <1>1, <1>8, Halves DEF ControlTypes, nodeVars, rootVars
<1>11. \A g \in Range(stack') : FrameExact(g)'
  BY <1>2, <1>4, <1>6, <1>8, <1>9, Halves
<1>12. \A u \in TaskIds : Polling(u) <=> Polling(u)'
  BY <1>1, <1>2, <1>3, <1>5, <1>8 DEF Polling
<1>13. SlotExact'
  BY <1>9, <1>12, Halves DEF SlotExact
<1>14. StopCovers'
  BY <1>1, <1>2, <1>3, <1>8, <1>9, Halves DEF StopCovers, nodeVars
<1>15. ShutdownCovers'
  BY <1>1, <1>2, <1>3, <1>8, Halves DEF ShutdownCovers, nodeVars
<1>16. QED
  BY <1>8, <1>9, <1>10, <1>11, <1>13, <1>14, <1>15, Assemble

\* NodeId::create_node and NodeId::start.
LEMMA NodeUpAction ==
  ASSUME IndInv, NEW n \in NodeIds, CreateNode(n) \/ StartNode(n)
  PROVE  IndInv'
<1>1. CASE Fail("user")
  BY <1>1, FailStep, Halves DEF Fail, nodeVars, ControlTypes
<1>2. CASE ~Fail("user")
  BY <1>2, NotifyStep DEF CreateNode, StartNode
<1>3. QED
  BY <1>1, <1>2

\* The snapshot that stop_node takes covers every live task of the node.
LEMMA StopFrame ==
  ASSUME IndInv, NEW n \in NodeIds
  PROVE  LET f == Frame("stop", n, NoTask, nodeTasks[n])
         IN  /\ f \in FrameType /\ f.kind = "stop" /\ f.caller = curNode /\ f.node = n
             /\ FrameExact(f)
             /\ \A t \in TaskIds : state[t] \in LiveStates /\ home[t] = n => t \in f.todo
<1> DEFINE f == Frame("stop", n, NoTask, nodeTasks[n])
<1>1. nodeTasks[n] \in SUBSET TaskIds /\ nodeTasks[n] = {t \in entries : home[t] = n}
  BY Halves DEF TaskInv, TaskTypes, EntriesExact
<1>2. nodeTasks[n] \in SUBSET Nat
  BY <1>1 DEF TaskIds
<1>3. /\ f \in FrameType /\ f.kind = "stop" /\ f.caller = curNode /\ f.node = n
      /\ f.todo = nodeTasks[n]
  BY <1>2, FrameTyped DEF LibraryKinds, IndInv
<1>4. FrameExact(f)
  BY <1>1, <1>3, Halves DEF FrameExact, TaskInv, EntriesExact
<1>5. \A t \in TaskIds : state[t] \in LiveStates /\ home[t] = n => t \in f.todo
  BY <1>1, <1>3, Halves DEF TaskInv, EntriesExact, LiveStates
<1>6. QED
  BY <1>3, <1>4, <1>5

\* NodeId::stop.
LEMMA StopNodeAction ==
  ASSUME IndInv, NEW n \in NodeIds, StopNode(n)
  PROVE  IndInv'
<1> DEFINE f == Frame("stop", n, NoTask, nodeTasks[n])
<1>1. /\ f \in FrameType /\ f.kind = "stop" /\ f.caller = curNode /\ f.node = n
      /\ FrameExact(f)
      /\ \A t \in TaskIds : state[t] \in LiveStates /\ home[t] = n => t \in f.todo
  BY StopFrame
<1>2. /\ level[n] = "Running" /\ level' = [level EXCEPT ![n] = "Stopped"] /\ Push(f)
      /\ UNCHANGED <<taskVars, finalStopped, rootVars, mode, panic>>
  BY DEF StopNode, EnterStop
<1> HIDE DEF f
<1>3. /\ stack' \in Seq(FrameType) /\ curNode' \in NodeIds /\ Nested(stack, curNode)'
      /\ TaskInv' /\ SlotExact' /\ \A g \in Range(stack') : FrameExact(g)'
      /\ Range(stack') = Range(stack) \cup {f}
  BY <1>1, <1>2, CallStep DEF BaseKinds
<1>4. ControlTypes' /\ (mode # "run" => finalStopped)'
  BY <1>2, <1>3, Halves DEF ControlTypes, rootVars, RunLevels
<1>5. StopCovers'
  BY <1>1, <1>2, <1>3, Halves DEF StopCovers, taskVars, ControlTypes, TaskInv, TaskTypes
<1>6. ShutdownCovers'
  BY <1>2, <1>3, Halves DEF ShutdownCovers, ControlTypes
<1>7. QED
  BY <1>3, <1>4, <1>5, <1>6, Assemble

\* One node of stop_simulation's loop.
LEMMA StopAllNextAction ==
  ASSUME IndInv, NEW n \in NodeIds, StopAllNext(n)
  PROVE  IndInv'
<1> DEFINE f    == Frame("stop", n, NoTask, nodeTasks[n])
           rest == [Top EXCEPT !.todo = @ \ {n}]
<1>1. /\ stack # <<>> /\ Top.kind = "stopall" /\ n \in Top.todo
      /\ level' = [level EXCEPT ![n] = "FinalStopped"]
      /\ UNCHANGED <<taskVars, finalStopped, rootVars, mode, panic>>
  BY DEF StopAllNext, InFrame
<1>2. /\ Top \in FrameType /\ Top \in Range(stack) /\ curNode = Top.node
      /\ Range(stack) = Range(Front(stack)) \cup {Top}
  BY <1>1, TopFacts DEF IndInv
<1>3. /\ f \in FrameType /\ f.kind = "stop" /\ f.caller = curNode /\ f.node = n
      /\ FrameExact(f)
      /\ \A t \in TaskIds : state[t] \in LiveStates /\ home[t] = n => t \in f.todo
  BY StopFrame
<1>4. /\ rest \in FrameType /\ rest.kind = "stopall" /\ rest.node = Top.node
      /\ rest.caller = Top.caller /\ rest.todo = Top.todo \ {n}
  BY <1>1, <1>2 DEF FrameType
<1>5. FrameExact(rest)
  BY <1>4 DEF FrameExact
<1>6. \/ level[n] = "Running" /\ stack' = Append(Append(Front(stack), rest), f) /\ curNode' = n
      \/ level[n] # "Running" /\ Swap(rest) /\ UNCHANGED curNode
  BY DEF StopAllNext
<1> HIDE DEF f, rest
<1>7. /\ stack' \in Seq(FrameType) /\ curNode' \in NodeIds /\ Nested(stack, curNode)'
      /\ \/ level[n] = "Running" /\ Range(stack') = Range(Front(stack)) \cup {rest, f}
         \/ level[n] # "Running" /\ Range(stack') = Range(Front(stack)) \cup {rest}
  <2>1. CASE level[n] = "Running" /\ stack' = Append(Append(Front(stack), rest), f) /\ curNode' = n
    BY <1>1, <1>3, <1>4, <2>1, SwapPushStack DEF IndInv, BaseKinds
  <2>2. CASE level[n] # "Running" /\ Swap(rest) /\ UNCHANGED curNode
    BY <1>1, <1>4, <2>2, SwapStack DEF IndInv, BaseKinds
  <2>3. QED
    BY <1>6, <2>1, <2>2
<1>8. TaskInv' /\ SlotExact' /\ \A g \in Range(stack') : FrameExact(g)'
  BY <1>1, <1>2, <1>3, <1>4, <1>5, <1>7, QuietStep
<1>9. ControlTypes' /\ (mode # "run" => finalStopped)'
  BY <1>1, <1>7, Halves DEF ControlTypes, rootVars, RunLevels
<1>10. StopCovers'
  <2> SUFFICES ASSUME NEW t \in TaskIds, state[t] \in LiveStates, level'[home[t]] # "Running"
               PROVE  \E g \in Range(stack') : g.kind = "stop" /\ t \in g.todo
    BY <1>1 DEF StopCovers, taskVars
  <2>1. CASE home[t] = n /\ level[n] = "Running"
    BY <1>3, <1>7, <2>1
  <2>2. CASE ~(home[t] = n /\ level[n] = "Running")
    <3>1. level[home[t]] # "Running"
      BY <1>1, <2>2, Halves DEF ControlTypes, TaskInv, TaskTypes
    <3>2. QED
      BY <1>1, <1>2, <1>7, <3>1, Halves DEF StopCovers
  <2>3. QED
    BY <2>1, <2>2
<1>11. ShutdownCovers'
  BY <1>1, <1>2, <1>4, <1>7, Halves DEF ShutdownCovers, ControlTypes
<1>12. QED
  BY <1>7, <1>8, <1>9, <1>10, <1>11, Assemble

\* stop_node's notification of the simulators, then its return.
LEMMA StopNotifyAction ==
  ASSUME IndInv, StopNotify
  PROVE  IndInv'
<1>1. /\ stack # <<>> /\ Top.kind = "stop" /\ Top.todo = {}
      /\ NotifySimulators(Top.node, Front(stack), Top.caller)
      /\ UNCHANGED <<taskVars, nodeVars, rootVars, mode>>
  BY DEF StopNotify, InFrame
<1>2. CASE stack' = Front(stack) /\ curNode' = Top.caller /\ UNCHANGED panic
  BY <1>1, <1>2, ReturnStep DEF Pop
<1>3. CASE panic' = "simulator" /\ UNCHANGED ctlVars
  BY <1>1, <1>3, FailStep, Halves DEF nodeVars, ControlTypes
<1> DEFINE f == [Frame("callback", Top.node, NoTask, {}) EXCEPT !.caller = Top.caller]
<1>4. CASE stack' = Append(Front(stack), f) /\ curNode' = Top.node /\ UNCHANGED panic
  <2>1. /\ Top \in FrameType /\ Top \in Range(stack) /\ curNode = Top.node
        /\ Range(stack) = Range(Front(stack)) \cup {Top}
    BY <1>1, TopFacts DEF IndInv
  <2>2. /\ f \in FrameType /\ f.kind = "callback" /\ f.node = Top.node
        /\ f.caller = Top.caller
    BY <2>1 DEF Frame, FrameType, UserKinds
  <2>3. FrameExact(f)
    BY <2>2 DEF FrameExact
  <2> HIDE DEF f
  <2>4. /\ stack' \in Seq(FrameType) /\ curNode' \in NodeIds /\ Nested(stack, curNode)'
        /\ Range(stack') = Range(Front(stack)) \cup {f}
    BY <1>1, <1>4, <2>1, <2>2, SwapStack DEF IndInv, BaseKinds, Swap
  <2>5. TaskInv' /\ SlotExact' /\ \A g \in Range(stack') : FrameExact(g)'
    BY <1>1, <2>1, <2>2, <2>3, <2>4, QuietStep
  <2>6. ControlTypes' /\ (mode # "run" => finalStopped)'
    BY <1>1, <1>4, <2>4, Halves DEF ControlTypes, rootVars, nodeVars
  <2>7. StopCovers' /\ ShutdownCovers'
    BY <1>1, <2>1, <2>2, <2>4, Halves DEF StopCovers, ShutdownCovers, taskVars, nodeVars
  <2>8. QED
    BY <2>4, <2>5, <2>6, <2>7, Assemble
<1>5. QED
  BY <1>1, <1>2, <1>3, <1>4 DEF NotifySimulators

\* stop_simulation, called by user code, by the root task or by destroy.
LEMMA StopSimulationStep ==
  ASSUME IndInv, EnterStopSimulation, UNCHANGED <<taskVars, level, root, panic>>,
         output' \in BOOLEAN, mode' = mode \/ mode' = "destroy"
  PROVE  IndInv'
<1> DEFINE todo == {n \in NodeIds : level[n] # "Absent"}
           f    == Frame("stopall", curNode, NoTask, todo)
<1>1. todo \in SUBSET Nat
  BY ExecutorAssumption DEF NodeIds
<1>2. curNode \in NodeIds
  BY Halves DEF ControlTypes
<1>3. f \in FrameType /\ f.kind = "stopall" /\ f.caller = curNode /\ f.todo = todo
  BY <1>1, <1>2, FrameTyped DEF LibraryKinds, IndInv
<1>4. FrameExact(f)
  BY <1>3 DEF FrameExact
<1>5. finalStopped' = TRUE /\ Push(f)
  BY DEF EnterStopSimulation
<1> HIDE DEF f
<1>6. /\ stack' \in Seq(FrameType) /\ curNode' \in NodeIds /\ Nested(stack, curNode)'
      /\ TaskInv' /\ SlotExact' /\ \A g \in Range(stack') : FrameExact(g)'
      /\ Range(stack') = Range(stack) \cup {f}
  BY <1>3, <1>4, <1>5, CallStep DEF BaseKinds
<1>7. ControlTypes' /\ (mode # "run" => finalStopped)'
  BY <1>5, <1>6, Halves DEF ControlTypes
<1>8. StopCovers'
  BY <1>6, Halves DEF StopCovers, taskVars
<1>9. ShutdownCovers'
  BY <1>3, <1>6, Halves DEF ShutdownCovers
<1>10. QED
  BY <1>6, <1>7, <1>8, <1>9, Assemble

\* The frame of the poll that is executing is the only frame.
LEMMA PollFacts ==
  ASSUME IndInv, NEW t \in TaskIds, InFrame({"poll"}), Top.task = t
  PROVE  /\ stack # <<>> /\ Top.kind = "poll" /\ Top \in FrameType
         /\ Front(stack) = <<>> /\ Range(stack) = {Top}
         /\ Polling(t) /\ t \notin slot
         /\ Top.node = home[t]
         /\ state[t] \in LiveStates \cup {"ABORTED_READY"}
         /\ t \in entries /\ t \in nodeTasks[home[t]]
<1>1. stack # <<>> /\ Top.kind = "poll"
  BY DEF InFrame
<1>2. /\ Top \in FrameType /\ Top \in Range(stack) /\ Front(stack) = <<>>
      /\ Range(stack) = Range(Front(stack)) \cup {Top}
  BY <1>1, TopFacts DEF IndInv, BaseKinds
<1>3. Range(stack) = {Top}
  BY <1>2 DEF Range
<1>4. Polling(t) /\ t \notin slot
  BY <1>1, <1>2, Halves DEF Polling, SlotExact
<1>5. Top.node = home[t] /\ state[t] \in LiveStates \cup {"ABORTED_READY"}
  BY <1>1, <1>2, Halves DEF FrameExact
<1>6. t \in entries /\ t \in nodeTasks[home[t]]
  BY <1>5, Halves DEF TaskInv, TaskTypes, EntriesExact, LiveStates
<1>7. QED
  BY <1>1, <1>2, <1>3, <1>4, <1>5, <1>6

\* The main loop drops the future after the last poll.
LEMMA EndDropStack ==
  ASSUME IndInv, NEW t \in TaskIds, InFrame({"poll"}), Top.task = t, DropAfterPoll(t)
  PROVE  LET f == [Top EXCEPT !.kind = "enddrop"]
         IN  /\ stack' \in Seq(FrameType) /\ curNode' \in NodeIds /\ Nested(stack, curNode)'
             /\ Range(stack') = {f}
             /\ f.kind = "enddrop" /\ f.task = t /\ f.node = home[t]
<1> DEFINE f == [Top EXCEPT !.kind = "enddrop"]
<1>1. /\ stack # <<>> /\ Top.kind = "poll" /\ Top \in FrameType /\ Front(stack) = <<>>
      /\ Top.node = home[t]
  BY PollFacts
<1>2. /\ f \in FrameType /\ f.kind = "enddrop" /\ f.task = t /\ f.node = Top.node
      /\ f.caller = Top.caller
  BY <1>1 DEF FrameType, UserKinds
<1>3. Swap(f) /\ curNode' = curNode
  BY DEF DropAfterPoll
<1> HIDE DEF f
<1>4. /\ stack' \in Seq(FrameType) /\ curNode' \in NodeIds /\ Nested(stack, curNode)'
      /\ Range(stack') = Range(Front(stack)) \cup {f}
  BY <1>1, <1>2, <1>3, SwapStack DEF IndInv, BaseKinds
<1>5. Range(Front(stack)) = {}
  BY <1>1 DEF Range
<1>6. QED
  BY <1>1, <1>2, <1>4, <1>5 DEF f

\* A poll returns Pending.
LEMMA PollPendingAction ==
  ASSUME IndInv, NEW t \in TaskIds, PollPending(t)
  PROVE  IndInv'
<1>1. /\ InFrame({"poll"}) /\ Top.task = t
      /\ UNCHANGED <<state, home, entries, queue, nodeTasks, lastId, nodeVars, rootVars, mode, panic>>
  BY DEF PollPending
<1>2. /\ stack # <<>> /\ Top.kind = "poll" /\ Range(stack) = {Top}
      /\ Polling(t) /\ t \notin slot /\ state[t] \in LiveStates \cup {"ABORTED_READY"}
  BY <1>1, PollFacts
<1>3. slot' \in SUBSET TaskIds /\ result' \in [TaskIds -> Outcomes]
  BY Halves DEF PollPending, TaskInv, TaskTypes, Outcomes
<1>4. TaskInv' /\ (mode # "run" => finalStopped)'
  BY <1>1, <1>3, Halves
  DEF TaskInv, TaskTypes, ReadyQueueExact, EntriesExact, BornInOrder, nodeVars
<1>5. CASE state[t] = "ABORTED_READY" /\ DropAfterPoll(t) /\ UNCHANGED slot
  <2> DEFINE f == [Top EXCEPT !.kind = "enddrop"]
  <2>1. /\ stack' \in Seq(FrameType) /\ curNode' \in NodeIds /\ Nested(stack, curNode)'
        /\ Range(stack') = {f} /\ f.kind = "enddrop" /\ f.task = t /\ f.node = home[t]
    BY <1>1, <1>5, EndDropStack
  <2> HIDE DEF f
  <2>2. ControlTypes'
    BY <1>1, <2>1, Halves DEF ControlTypes, nodeVars, rootVars
  <2>3. \A g \in Range(stack') : FrameExact(g)'
    BY <1>1, <1>5, <2>1 DEF FrameExact
  <2>4. SlotExact'
    BY <1>1, <1>2, <1>5, <2>1, Halves DEF SlotExact, Polling, LiveStates
  <2>5. StopCovers' /\ ShutdownCovers'
    BY <1>1, <1>2, <2>1, Halves DEF StopCovers, ShutdownCovers, nodeVars
  <2>6. QED
    BY <1>4, <2>1, <2>2, <2>3, <2>4, <2>5, Assemble
<1>6. CASE state[t] \in LiveStates /\ slot' = slot \cup {t} /\ Pop
  <2>1. /\ stack' \in Seq(FrameType) /\ curNode' \in NodeIds /\ Nested(stack, curNode)'
        /\ stack' = <<>>
    BY <1>2, <1>6, PopStack DEF IndInv, BaseKinds
  <2>2. Range(stack') = {}
    BY <2>1 DEF Range
  <2>3. ControlTypes'
    BY <1>1, <2>1, Halves DEF ControlTypes, nodeVars, rootVars
  <2>4. SlotExact'
    BY <1>1, <1>2, <1>6, <2>2, Halves DEF SlotExact, Polling
  <2>5. StopCovers' /\ ShutdownCovers'
    BY <1>1, <1>2, <2>2, Halves DEF StopCovers, ShutdownCovers, nodeVars
  <2>6. QED
    BY <1>4, <2>1, <2>2, <2>3, <2>4, <2>5, Assemble
<1>7. QED
  BY <1>5, <1>6 DEF PollPending

\* A poll returns Ready.
LEMMA PollReadyAction ==
  ASSUME IndInv, NEW t \in TaskIds, PollReady(t)
  PROVE  IndInv'
<1> DEFINE f == [Top EXCEPT !.kind = "enddrop"]
<1>1. /\ InFrame({"poll"}) /\ Top.task = t /\ DropAfterPoll(t)
      /\ result' = [result EXCEPT ![t] = "sent"]
      /\ UNCHANGED <<home, slot, queue, lastId, nodeVars, rootVars, mode, panic>>
  BY DEF PollReady
<1>2. /\ stack # <<>> /\ Top.kind = "poll" /\ Range(stack) = {Top}
      /\ Polling(t) /\ t \notin slot /\ state[t] \in LiveStates \cup {"ABORTED_READY"}
      /\ t \in entries
  BY <1>1, PollFacts
<1>3. /\ stack' \in Seq(FrameType) /\ curNode' \in NodeIds /\ Nested(stack, curNode)'
      /\ Range(stack') = {f} /\ f.kind = "enddrop" /\ f.task = t /\ f.node = home[t]
  BY <1>1, EndDropStack
<1> HIDE DEF f
<1>4. result' \in [TaskIds -> Outcomes] /\ (mode # "run" => finalStopped)'
  BY <1>1, Halves DEF TaskInv, TaskTypes, Outcomes, nodeVars
<1>5. /\ TaskInv'
      /\ \E new \in {"COMPLETE", "COMPLETE_READY"} : state' = [state EXCEPT ![t] = new]
  <2>1. CASE /\ state[t] = "WAITING" /\ Removable(t) /\ remove_task_entry(t)
             /\ state' = [state EXCEPT ![t] = "COMPLETE"]
    <3>1. Range(queue') = Range(queue) \ {t} /\ IsInjective(queue') /\ queue' \in Seq(TaskIds)
      BY <1>1, <2>1, Halves DEF TaskInv, TaskTypes, ReadyQueueExact, ReadyStates
    <3>2. QED
      BY <1>1, <1>4, <2>1, <3>1, ForgetStep, Halves
  <2>2. CASE /\ state[t] \in {"READY", "ABORTED_READY"} /\ UNCHANGED <<entries, nodeTasks>>
             /\ state' = [state EXCEPT ![t] = "COMPLETE_READY"]
    <3>1. TaskTypes'
      BY <1>1, <1>4, <2>2, Halves DEF TaskInv, TaskTypes, TaskStates, ReadyStates
    <3>2. ReadyQueueExact'
      BY <1>1, <2>2, Halves DEF TaskInv, TaskTypes, ReadyQueueExact, ReadyStates
    <3>3. EntriesExact' /\ BornInOrder'
      BY <1>1, <2>2, Halves DEF TaskInv, TaskTypes, EntriesExact, BornInOrder
    <3>4. QED
      BY <2>2, <3>1, <3>2, <3>3 DEF TaskInv
  <2>3. QED
    BY <2>1, <2>2 DEF PollReady
<1>6. state'[t] \in {"COMPLETE", "COMPLETE_READY"} /\ \A u \in TaskIds : u # t => state'[u] = state[u]
  BY <1>5, Halves DEF TaskInv, TaskTypes
<1>7. ControlTypes'
  BY <1>1, <1>3, Halves DEF ControlTypes, nodeVars, rootVars
<1>8. \A g \in Range(stack') : FrameExact(g)'
  BY <1>1, <1>3, <1>6 DEF FrameExact
<1>9. SlotExact'
  <2>1. \A u \in TaskIds : ~Polling(u)' /\ (u # t => ~Polling(u))
    BY <1>1, <1>2, <1>3 DEF Polling
  <2>2. QED
    BY <1>1, <1>2, <1>6, <2>1, Halves DEF SlotExact, LiveStates
<1>10. StopCovers' /\ ShutdownCovers'
  BY <1>1, <1>2, <1>3, <1>6, Halves DEF StopCovers, ShutdownCovers, nodeVars, LiveStates
<1>11. QED
  BY <1>3, <1>4, <1>5, <1>7, <1>8, <1>9, <1>10, Assemble

\* The popped task is out of the queue, and nothing else is.
LEMMA PopFacts ==
  ASSUME IndInv, NEW t \in TaskIds, Popping(t), queue' = Tail(queue)
  PROVE  /\ stack = <<>> /\ Range(stack) = {}
         /\ state[t] \in ReadyStates
         /\ IsInjective(queue') /\ Range(queue') = Range(queue) \ {t} /\ queue' \in Seq(TaskIds)
<1>1. queue \in Seq(TaskIds) /\ queue # <<>> /\ t = Head(queue) /\ IsInjective(queue)
  BY Halves DEF Popping, TaskInv, TaskTypes, ReadyQueueExact
<1>2. stack = <<>> /\ Range(stack) = {}
  BY DEF Popping, AtMainLoop, Range
<1>3. t \in Range(queue)
  BY <1>1, RangeTail
<1>4. QED
  BY <1>1, <1>2, <1>3, RangeTail, TailFacts, Halves DEF TaskInv, ReadyQueueExact

\* The main loop polls a ready task.
LEMMA RunReadyAction ==
  ASSUME IndInv, NEW t \in TaskIds, RunReady(t)
  PROVE  IndInv'
<1> DEFINE f == Frame("poll", home[t], t, {})
<1>1. /\ Popping(t) /\ state[t] = "READY" /\ t \in slot /\ queue' = Tail(queue)
      /\ slot' = slot \ {t} /\ state' = [state EXCEPT ![t] = "WAITING"] /\ Push(f)
      /\ UNCHANGED <<home, entries, nodeTasks, lastId, result, nodeVars, rootVars, mode, panic>>
  BY DEF RunReady
<1>2. /\ stack = <<>> /\ Range(stack) = {}
      /\ IsInjective(queue') /\ Range(queue') = Range(queue) \ {t} /\ queue' \in Seq(TaskIds)
  BY <1>1, PopFacts
<1>3. f \in FrameType /\ f.kind = "poll" /\ f.node = home[t] /\ f.task = t /\ f.caller = curNode
  <2>1. TypeOK /\ home[t] \in NodeIds /\ {} \in SUBSET Nat /\ "poll" \in UserKinds
    BY Halves DEF UserKinds, IndInv, TaskInv, TaskTypes
  <2>2. QED
    BY <2>1, FrameTyped
<1> HIDE DEF f
<1>4. /\ stack' \in Seq(FrameType) /\ curNode' \in NodeIds /\ Nested(stack, curNode)'
      /\ Range(stack') = {f}
  BY <1>1, <1>2, <1>3, PushStack DEF IndInv
<1>5. TaskTypes'
  BY <1>1, <1>2, Halves DEF TaskInv, TaskTypes, TaskStates, LiveStates
<1>6. ReadyQueueExact'
  BY <1>1, <1>2, Halves DEF TaskInv, TaskTypes, ReadyQueueExact, ReadyStates
<1>7. EntriesExact' /\ BornInOrder'
  BY <1>1, Halves DEF TaskInv, TaskTypes, EntriesExact, BornInOrder
<1>8. ControlTypes' /\ (mode # "run" => finalStopped)'
  BY <1>1, <1>4, Halves DEF ControlTypes, nodeVars, rootVars
<1>9. \A g \in Range(stack') : FrameExact(g)'
  BY <1>1, <1>3, <1>4, Halves DEF FrameExact, TaskInv, TaskTypes, LiveStates
<1>10. SlotExact'
  <2>1. \A u \in TaskIds : ~Polling(u) /\ (Polling(u)' <=> u = t)
    BY <1>2, <1>3, <1>4 DEF Polling
  <2>2. QED
    BY <1>1, <2>1, Halves DEF SlotExact, TaskInv, TaskTypes, LiveStates
<1>11. StopCovers' /\ ShutdownCovers'
  BY <1>1, <1>2, Halves DEF StopCovers, ShutdownCovers, TaskInv, TaskTypes, LiveStates, nodeVars
<1>12. QED
  BY <1>4, <1>5, <1>6, <1>7, <1>8, <1>9, <1>10, <1>11, Assemble DEF TaskInv

\* The main loop forgets a popped task that has ended.
LEMMA ReapAction ==
  ASSUME IndInv, NEW t \in TaskIds, Reap(t)
  PROVE  IndInv'
<1>1. /\ Popping(t) /\ state[t] \in {"COMPLETE_READY", "ABORTED_READY"} /\ Removable(t)
      /\ queue' = Tail(queue) /\ remove_task_entry(t)
      /\ UNCHANGED <<home, slot, lastId, result, nodeVars, rootVars, ctlVars, mode, panic>>
  BY DEF Reap
<1>2. PICK new \in {"ABORTED", "COMPLETE"} : state' = [state EXCEPT ![t] = new]
  BY Halves DEF Reap, TaskInv, TaskTypes
<1>3. /\ stack = <<>> /\ Range(stack) = {}
      /\ IsInjective(queue') /\ Range(queue') = Range(queue) \ {t} /\ queue' \in Seq(TaskIds)
  BY <1>1, PopFacts
<1>4. TaskInv'
  <2>1. result' \in [TaskIds -> Outcomes]
    BY <1>1, Halves DEF TaskInv, TaskTypes
  <2>2. QED
    BY <1>1, <1>2, <1>3, <2>1, ForgetStep, Halves
<1>5. /\ ControlTypes' /\ Nested(stack, curNode)' /\ (mode # "run" => finalStopped)'
      /\ Range(stack') = {}
  BY <1>1, <1>3, Halves DEF ControlTypes, nodeVars, rootVars, ctlVars
<1>6. SlotExact'
  BY <1>1, <1>2, <1>3, <1>5, Halves DEF SlotExact, Polling, TaskInv, TaskTypes, LiveStates
<1>7. StopCovers' /\ ShutdownCovers'
  BY <1>1, <1>2, <1>3, Halves
  DEF StopCovers, ShutdownCovers, TaskInv, TaskTypes, LiveStates, nodeVars, ctlVars
<1>8. QED
  BY <1>4, <1>5, <1>6, <1>7, Assemble

\* The main loop calls the time scheduler or, in the teardown, drops the simulators.
LEMMA LoopCallStep ==
  ASSUME IndInv, NEW k \in {"time", "simdrop"}, stack = <<>>, curNode \in NodeIds,
         Push(Frame(k, curNode, NoTask, {})), UNCHANGED <<taskVars, nodeVars, rootVars, panic>>,
         mode' = mode \/ (mode # "run" /\ mode' = "finalize")
  PROVE  IndInv'
<1> DEFINE f == Frame(k, curNode, NoTask, {})
<1>1. f \in FrameType /\ f.kind = k /\ f.caller = curNode
  BY FrameTyped DEF UserKinds, LibraryKinds, IndInv
<1>2. FrameExact(f)
  BY <1>1 DEF FrameExact
<1>3. Push(f)
  OBVIOUS
<1> HIDE DEF f
<1>4. /\ stack' \in Seq(FrameType) /\ curNode' \in NodeIds /\ Nested(stack, curNode)'
      /\ TaskInv' /\ SlotExact' /\ \A g \in Range(stack') : FrameExact(g)'
      /\ Range(stack') = Range(stack) \cup {f}
  BY <1>1, <1>2, <1>3, CallStep
<1>5. ControlTypes' /\ (mode # "run" => finalStopped)'
  BY <1>4, Halves DEF ControlTypes, nodeVars, rootVars
<1>6. StopCovers' /\ ShutdownCovers'
  BY <1>4, Halves DEF StopCovers, ShutdownCovers, taskVars, nodeVars
<1>7. QED
  BY <1>4, <1>5, <1>6, Assemble

\* The teardown goes on without a call.
LEMMA ModeStep ==
  ASSUME IndInv, UNCHANGED <<taskVars, nodeVars, rootVars, ctlVars, panic>>,
         mode' = mode \/ (mode # "run" /\ mode' \in {"finalize", "done"})
  PROVE  IndInv'
<1>1. TaskInv' /\ SlotExact' /\ \A g \in Range(stack') : FrameExact(g)'
  BY QuietStep DEF ctlVars
<1>2. ControlTypes' /\ Nested(stack, curNode)' /\ (mode # "run" => finalStopped)'
  BY Halves DEF ControlTypes, nodeVars, rootVars, ctlVars
<1>3. StopCovers' /\ ShutdownCovers'
  BY Halves DEF StopCovers, ShutdownCovers, taskVars, nodeVars, ctlVars
<1>4. QED
  BY <1>1, <1>2, <1>3, Assemble

-----------------------------------------------------------------------------
(* The theorems.                                                           *)

\* A new simulation satisfies the invariant.
LEMMA IndInvInit == Init => IndInv
<1> SUFFICES ASSUME Init PROVE IndInv
  OBVIOUS
<1> DEFINE f == [kind |-> "init", node |-> INIT, caller |-> INIT, task |-> NoTask, todo |-> {}]
<1>1. INIT \in NodeIds
  BY ExecutorAssumption DEF INIT, NodeIds
<1>2. f \in FrameType /\ f.kind = "init" /\ f.node = INIT /\ f.caller = INIT
  BY <1>1 DEF FrameType, UserKinds
<1>3. stack = <<f>>
  BY DEF Init
<1> HIDE DEF f
<1>4. /\ stack \in Seq(FrameType) /\ DOMAIN stack = {1} /\ stack[1] = f /\ Len(stack) = 1
      /\ stack # <<>>
  BY <1>2, <1>3
<1>5. Range(stack) = {f}
  BY <1>4 DEF Range
<1>6. TypeOK
  <2>1. /\ state \in [TaskIds -> TaskStates] /\ level \in [NodeIds -> RunLevels]
        /\ result \in [TaskIds -> Outcomes]
    BY DEF Init, TaskStates, RunLevels, Outcomes
  <2>2. /\ home \in [TaskIds -> NodeIds] /\ nodeTasks \in [NodeIds -> SUBSET TaskIds]
        /\ curNode \in NodeIds
    BY <1>1 DEF Init
  <2>3. queue \in Seq(TaskIds) /\ entries \in SUBSET TaskIds /\ slot \in SUBSET TaskIds
    BY EmptySeq DEF Init
  <2>4. lastId \in 0 .. MaxTasks
    BY ExecutorAssumption DEF Init
  <2>5. QED
    BY <1>4, <2>1, <2>2, <2>3, <2>4 DEF Init, TypeOK, NoTask
<1>7. ReadyQueueExact /\ EntriesExact
  BY DEF Init, ReadyQueueExact, EntriesExact, IsInjective, Range, ReadyStates
<1>8. SlotExact /\ StopCovers
  BY DEF Init, SlotExact, StopCovers, LiveStates
<1>9. BornInOrder
  BY DEF Init, BornInOrder, TaskIds
<1>10. Nested(stack, curNode)
  BY <1>2, <1>4 DEF Init, Nested, Last
<1>11. \A g \in Range(stack) : FrameExact(g)
  BY <1>2, <1>5 DEF FrameExact
<1>12. ShutdownCovers /\ (mode # "run" => finalStopped)
  BY DEF Init, ShutdownCovers
<1>13. QED
  BY <1>6, <1>7, <1>8, <1>9, <1>10, <1>11, <1>12 DEF IndInv

\* Every step of the executor preserves the invariant.
LEMMA IndInvStep == IndInv /\ [Next]_vars => IndInv'
<1> SUFFICES ASSUME IndInv, [Next]_vars PROVE IndInv'
  OBVIOUS
<1>1. ASSUME NEW n \in NodeIds, Spawn(n) \/ CreateNode(n) \/ StopNode(n) \/ StartNode(n)
      PROVE  IndInv'
  BY <1>1, SpawnAction, NodeUpAction, StopNodeAction
<1>2. ASSUME NEW t \in TaskIds, Wake(t) \/ Abort(t) PROVE IndInv'
  BY <1>2, WakeAction, AbortAction
<1>3. CASE StopSimulation
  BY <1>3, StopSimulationStep, Halves DEF StopSimulation, rootVars, ControlTypes
<1>4. CASE RootReturn
  BY <1>4, StopSimulationStep DEF RootReturn
<1>5. CASE BorrowedCall
  BY <1>5, FailStep, Halves DEF BorrowedCall, Fail, nodeVars, ControlTypes
<1>6. CASE InitReturn
  BY <1>6, InitReturnAction
<1>7. CASE UserReturn
  BY <1>7, ReturnStep DEF UserReturn, InFrame
<1>8. ASSUME NEW t \in TaskIds, PollPending(t) \/ PollReady(t) PROVE IndInv'
  BY <1>8, PollPendingAction, PollReadyAction
<1>9. ASSUME NEW t \in TaskIds, RunReady(t) \/ Reap(t) \/ StopNext(t) PROVE IndInv'
  BY <1>9, RunReadyAction, ReapAction, StopNextAction
<1>10. ASSUME NEW n \in NodeIds, StopAllNext(n) PROVE IndInv'
  BY <1>10, StopAllNextAction
<1>11. CASE StopNotify
  BY <1>11, StopNotifyAction
<1>12. CASE StopAllReturn \/ TimeReturn
  BY <1>12, ReturnStep DEF StopAllReturn, TimeReturn, InFrame
<1>13. CASE AdvanceTime
  BY <1>13, LoopCallStep, Halves DEF AdvanceTime, NothingToRun, AtMainLoop, ControlTypes
<1>14. CASE BreakLoop
  BY <1>14, StopSimulationStep, Halves DEF BreakLoop, rootVars, ControlTypes
<1>15. CASE DropSimulators
  BY <1>15, LoopCallStep, ModeStep, Halves DEF DropSimulators, AtMainLoop, ControlTypes
<1>16. CASE Finalize
  BY <1>16, ModeStep DEF Finalize, AtMainLoop
<1>17. CASE Ended \/ UNCHANGED vars
  BY <1>17, ModeStep DEF Ended, vars
<1>18. QED
  BY <1>1, <1>2, <1>3, <1>4, <1>5, <1>6, <1>7, <1>8, <1>9, <1>10, <1>11, <1>12, <1>13,
     <1>14, <1>15, <1>16, <1>17
  DEF Next, ApiCall, Return, Library

\* Whatever polls, destructors and callbacks do, in any number of tasks and nodes,
\* the executor's tables agree with the states of the tasks and every open
\* obligation of stop_node and stop_simulation is in a frame of the stack.
THEOREM ExecutorInvariant == Spec => []IndInv
<1>1. Init => IndInv
  BY IndInvInit
<1>2. IndInv /\ [Next]_vars => IndInv'
  BY IndInvStep
<1>3. QED
  BY <1>1, <1>2, PTL DEF Spec

\* Every variable keeps its type.
THEOREM TypeCorrect == Spec => []TypeOK
<1>1. IndInv => TypeOK
  BY DEF IndInv
<1>2. QED
  BY <1>1, ExecutorInvariant, PTL

\* The ready queue, the map of tasks, the nodes' sets and the cells agree with the states
\* of the tasks.
THEOREM TablesCorrect == Spec => []TablesExact
<1>1. IndInv => TablesExact
  BY DEF IndInv, TablesExact
<1>2. QED
  BY <1>1, ExecutorInvariant, PTL

\* No unwrap, assert! or unreachable! of the executor fires.
THEOREM NoPanicCorrect == Spec => []NoInternalPanic
<1>1. IndInv => NoInternalPanic
  <2> SUFFICES ASSUME IndInv PROVE NoInternalPanic
    OBVIOUS
  <2>1. ASSUME NEW t \in TaskIds PROVE ~PopFails(t)
    <3> SUFFICES ASSUME Popping(t)
                 PROVE  \/ t \in entries /\ state[t] = "READY" /\ t \in slot
                        \/ state[t] \in {"COMPLETE_READY", "ABORTED_READY"} /\ Removable(t)
      BY DEF PopFails
    <3>1. queue \in Seq(TaskIds) /\ queue # <<>> /\ t = Head(queue) /\ IsInjective(queue)
      BY Halves DEF Popping, TaskInv, TaskTypes, ReadyQueueExact
    <3>2. state[t] \in ReadyStates
      BY <3>1, RangeTail, Halves DEF TaskInv, ReadyQueueExact
    <3>3. ~Polling(t)
      BY DEF Popping, AtMainLoop, Polling, Range
    <3>4. t \in entries /\ t \in nodeTasks[home[t]]
      BY <3>2, Halves DEF TaskInv, TaskTypes, EntriesExact, ReadyStates
    <3>5. t \in slot <=> state[t] = "READY"
      BY <3>2, <3>3, Halves DEF SlotExact, LiveStates, ReadyStates
    <3>6. QED
      BY <3>2, <3>4, <3>5 DEF ReadyStates, Removable
  <2>2. ASSUME NEW t \in TaskIds PROVE ~PendingFails(t) /\ ~ReadyFails(t)
    <3> SUFFICES ASSUME InFrame({"poll"}), Top.task = t
                 PROVE  /\ \/ state[t] = "ABORTED_READY"
                           \/ state[t] \in LiveStates /\ t \in entries /\ t \notin slot
                        /\ \/ state[t] \in {"READY", "ABORTED_READY"}
                           \/ state[t] = "WAITING" /\ Removable(t)
      BY DEF PendingFails, ReadyFails
    <3>1. QED
      BY PollFacts DEF LiveStates, Removable
  <2>3. ~DestroyFails
    BY Halves DEF DestroyFails, Nested
  <2>4. QED
    BY <2>1, <2>2, <2>3 DEF NoInternalPanic
<1>2. QED
  BY <1>1, ExecutorInvariant, PTL

\* Futures are polled and dropped in the scope of their own node.
THEOREM NodeScopeCorrect == Spec => []OwnNodeScope
<1>1. IndInv => OwnNodeScope
  BY DEF IndInv, OwnNodeScope, Nested, FrameExact, Top
<1>2. QED
  BY <1>1, ExecutorInvariant, PTL

\* When the main loop has control, a node that does not run has no live task.
THEOREM StopCorrect == Spec => []StoppedNodesQuiet
<1>1. IndInv => StoppedNodesQuiet
  BY DEF IndInv, StoppedNodesQuiet, StopCovers, Range
<1>2. QED
  BY <1>1, ExecutorInvariant, PTL

\* After the shutdown no future is left and no node can run again.
THEOREM ShutdownCorrect == Spec => []ShutdownComplete
<1>1. IndInv => ShutdownComplete
  <2> SUFFICES ASSUME IndInv, finalStopped, stack = <<>>
               PROVE  slot = {} /\ \A n \in NodeIds : level[n] \in {"Absent", "FinalStopped"}
    BY DEF ShutdownComplete
  <2>1. Range(stack) = {}
    BY DEF Range
  <2>2. \A n \in NodeIds : level[n] \in {"Absent", "FinalStopped"}
    BY <2>1 DEF IndInv, ShutdownCovers
  <2>3. \A t \in TaskIds : state[t] \notin LiveStates
    BY <2>1, <2>2 DEF IndInv, StopCovers, TypeOK
  <2>4. QED
    BY <2>2, <2>3 DEF IndInv, SlotExact
<1>2. QED
  BY <1>1, ExecutorInvariant, PTL
=============================================================================
