--------------------------- MODULE SendBindProofs ---------------------------
(***************************************************************************)
(* Proofs about Builder and SendBind, for every number of events, runs,    *)
(* wrappers and nodes and for every hash.                                  *)
(***************************************************************************)
EXTENDS SendBind, SequenceTheorems, TLAPS

-----------------------------------------------------------------------------
(* The inductive invariant.                                                *)

\* The first run has come to its end.
FirstDone == iter > 1 \/ (iter = 1 /\ phase = "caller")

\* What the first run leaves behind.  The recording follows its trace.
RecordingExact ==
  /\ check = "Full" /\ iter = 0 => events_to_validate = <<>>
  /\ check = "Full" /\ iter = 1 => events_to_validate = trace
  /\ check = "Full" /\ iter > 1 => events_to_validate = first
  /\ iter = 1 /\ phase = "caller" => first = trace

\* What was fed to the hasher is the trace of the run.
HasherExact ==
  /\ check = "Hash" => hasher = trace
  /\ check = "Hash" /\ FirstDone => expected = Hash(first)

\* As long as no comparison has failed, also while a panic is cleaned up after, the
\* trace has been compared to its end.
ComparedExact ==
  check = "Full" /\ iter > 1 /\ InSimulation /\ alarm = "none" =>
    next_event_index = Len(trace) /\ Agrees(trace, first)

\* The traces that were accepted.
FinishedExact ==
  /\ FirstDone => first \in finished
  /\ FirstDone /\ check = "Full" => finished = {first}
  /\ ~FirstDone /\ phase # "over" => finished = {}

\* The outcome is known when everything is over, and the calling thread finds out by
\* an outcome other than "returned" that a comparison has failed.
OverExact ==
  /\ phase = "over" <=> outcome # "running"
  /\ phase = "caller" => alarm = "none"
  /\ alarm = "end" => phase = "over"
  /\ iter = 0 => phase \in {"caller", "over"}

BuilderInv ==
  /\ BuilderTypeOK /\ RecordingExact /\ HasherExact /\ ComparedExact
  /\ FinishedExact /\ OverExact
  /\ ValidatedPrefix /\ NoFalseAlarm /\ AllRunsCompared /\ HashesCompared

\* Every run has its own anchor, and a wrapper has the anchor of its run.
AnchorsExact ==
  /\ NEXT = iter /\ anchor = iter
  /\ \A v \in Values : wrapper[v].kind # "free" => wrapper[v].home \in 1 .. iter
  /\ \A v \in Values : wrapper[v].kind \in {"sim", "simnode"} => wrapper[v].id = wrapper[v].home

BindTypeOK ==
  /\ wrapper \in [Values -> [kind : Kinds \cup {"free"}, node : Nodes \cup {0}, id : Nat, home : Nat]]
  /\ curNode \in Nodes
  /\ leaked \in BOOLEAN

BindInv ==
  /\ BuilderInv
  /\ BindTypeOK /\ AnchorsExact /\ HomeThread /\ HomeNode /\ PinKept

-----------------------------------------------------------------------------
(* Traces.                                                                 *)

\* One more event agrees with a recording exactly if it is the recording's next one.
LEMMA AgreesAppend ==
  ASSUME NEW tr \in Seq(Events), NEW ex \in Seq(Events), NEW e \in Events
  PROVE  Agrees(Append(tr, e), ex) <=>
           Agrees(tr, ex) /\ Len(tr) < Len(ex) /\ e = ex[Len(tr) + 1]
<1>1. /\ Append(tr, e) \in Seq(Events)
      /\ Len(Append(tr, e)) = Len(tr) + 1
      /\ \A i \in 1 .. Len(tr) : Append(tr, e)[i] = tr[i]
      /\ Append(tr, e)[Len(tr) + 1] = e
  BY AppendProperties
<1>2. /\ DOMAIN tr = 1 .. Len(tr)
      /\ DOMAIN Append(tr, e) = 1 .. Len(tr) + 1
      /\ Len(tr) \in Nat /\ Len(ex) \in Nat
  BY <1>1
<1>3. ASSUME Agrees(Append(tr, e), ex)
      PROVE  Agrees(tr, ex) /\ Len(tr) < Len(ex) /\ e = ex[Len(tr) + 1]
  <2>1. /\ Len(tr) + 1 <= Len(ex)
        /\ \A i \in 1 .. Len(tr) + 1 : Append(tr, e)[i] = ex[i]
    BY <1>1, <1>2, <1>3 DEF Agrees
  <2>2. Len(tr) + 1 \in 1 .. Len(tr) + 1 /\ \A i \in 1 .. Len(tr) : i \in 1 .. Len(tr) + 1
    BY <1>2
  <2>3. QED
    BY <1>1, <1>2, <2>1, <2>2 DEF Agrees
<1>4. ASSUME Agrees(tr, ex), Len(tr) < Len(ex), e = ex[Len(tr) + 1]
      PROVE  Agrees(Append(tr, e), ex)
  <2>1. \A i \in 1 .. Len(tr) + 1 : i \in 1 .. Len(tr) \/ i = Len(tr) + 1
    BY <1>2
  <2>2. QED
    BY <1>1, <1>2, <1>4, <2>1 DEF Agrees
<1>5. QED
  BY <1>3, <1>4

\* A trace that agrees to its end is the recording.
LEMMA AgreesEqual ==
  ASSUME NEW tr \in Seq(Events), NEW ex \in Seq(Events)
  PROVE  tr = ex <=> Agrees(tr, ex) /\ Len(tr) = Len(ex)
<1>1. ASSUME Agrees(tr, ex), Len(tr) = Len(ex)
      PROVE  tr = ex
  BY <1>1, SeqEqual DEF Agrees
<1>2. ASSUME tr = ex
      PROVE  Agrees(tr, ex) /\ Len(tr) = Len(ex)
  BY <1>2 DEF Agrees
<1>3. QED
  BY <1>1, <1>2

-----------------------------------------------------------------------------
(* Steps of Builder.                                                       *)

LEMMA BuilderInvInit == Init => BuilderInv
<1> SUFFICES ASSUME Init
             PROVE  BuilderInv
  OBVIOUS
<1>1. BuilderTypeOK
  BY BuilderAssumption DEF Init, BuilderTypeOK, Checks
<1>2. RecordingExact /\ HasherExact /\ ComparedExact /\ FinishedExact /\ OverExact
  BY DEF Init, RecordingExact, HasherExact, ComparedExact, FinishedExact, OverExact, FirstDone,
         InSimulation
<1>3. ValidatedPrefix /\ NoFalseAlarm /\ AllRunsCompared /\ HashesCompared
  BY DEF Init, ValidatedPrefix, NoFalseAlarm, AllRunsCompared, HashesCompared
<1>4. QED
  BY <1>1, <1>2, <1>3 DEF BuilderInv

\* A panic or an abort: nothing changes but the phase and the outcome.
LEMMA PanicStep ==
  ASSUME BuilderInv, UNCHANGED <<check, iterations, iter, handlerVars, trace, first, finished, alarm>>,
         \/ UNCHANGED <<phase, outcome>>
         \/ InSimulation /\ phase' = "cleanup" /\ UNCHANGED outcome
         \/ phase' = "over" /\ outcome' = "aborted"
  PROVE  BuilderInv'
<1>1. BuilderTypeOK'
  BY DEF BuilderInv, BuilderTypeOK, handlerVars
<1>2. RecordingExact' /\ HasherExact' /\ ComparedExact' /\ FinishedExact' /\ OverExact'
  BY DEF BuilderInv, BuilderTypeOK, handlerVars, RecordingExact, HasherExact, ComparedExact,
         FinishedExact, OverExact, FirstDone, InSimulation, Agrees
<1>3. ValidatedPrefix'
  BY DEF BuilderInv, handlerVars, ValidatedPrefix, InSimulation, Agrees
<1>4. NoFalseAlarm' /\ AllRunsCompared' /\ HashesCompared'
  BY DEF BuilderInv, handlerVars, NoFalseAlarm, AllRunsCompared, HashesCompared, OverExact,
         InSimulation, Agrees
<1>5. QED
  BY <1>1, <1>2, <1>3, <1>4 DEF BuilderInv

LEMMA PanicToStep ==
  ASSUME BuilderInv, InSimulation, PanicTo,
         UNCHANGED <<check, iterations, iter, handlerVars, trace, first, finished, alarm>>
  PROVE  BuilderInv'
BY PanicStep DEF PanicTo

\* An event is handled.
LEMMA HandleStep ==
  ASSUME BuilderInv, InSimulation, NEW e \in Events, NEW p,
         p = phase \/ (phase = "init" /\ p = "loop"),
         Handle(e, p), UNCHANGED <<check, iterations, iter, expected, first, finished>>
  PROVE  BuilderInv'
<1> DEFINE refused == Refused(e)
<1>1. /\ trace \in Seq(Events) /\ first \in Seq(Events) /\ events_to_validate \in Seq(Events)
      /\ hasher \in Seq(Events)
      /\ next_event_index \in Nat /\ iter \in Nat
  BY BuilderAssumption DEF BuilderInv, BuilderTypeOK
<1>2. trace' = Append(trace, e) /\ trace' \in Seq(Events) /\ Len(trace') = Len(trace) + 1
  BY <1>1 DEF Handle
<1>3. /\ Agrees(trace', first) <=>
            Agrees(trace, first) /\ Len(trace) < Len(first) /\ e = first[Len(trace) + 1]
  BY <1>1, <1>2, AgreesAppend
<1>4. trace' = first => Agrees(trace', first)
  BY <1>1, <1>2, AgreesEqual
<1>5. CASE refused
  <2>1. /\ phase' \in {"cleanup", "over"} /\ alarm' = "event"
        /\ UNCHANGED <<events_to_validate, next_event_index, hasher>>
        /\ outcome' = outcome \/ outcome' = "aborted"
        /\ phase' = "over" <=> outcome' # "running"
        /\ check = "Full" /\ iter > 1
    BY <1>5 DEF Handle, PanicTo, BuilderInv, OverExact, InSimulation, Refused
  <2>2. ~Agrees(trace', first)
    BY <1>1, <1>3, <1>5, <2>1 DEF Refused, BuilderInv, ComparedExact, RecordingExact, NoFalseAlarm,
                             InSimulation, BuilderTypeOK, OverExact
  <2>3. BuilderTypeOK'
    BY <1>2, <2>1 DEF BuilderInv, BuilderTypeOK
  <2>4. RecordingExact' /\ HasherExact' /\ ComparedExact' /\ FinishedExact' /\ OverExact'
    BY <1>1, <2>1 DEF BuilderInv, RecordingExact, HasherExact, ComparedExact, FinishedExact,
                      OverExact, FirstDone, InSimulation
  <2>5. ValidatedPrefix' /\ NoFalseAlarm' /\ AllRunsCompared' /\ HashesCompared'
    BY <1>4, <2>1, <2>2, <2>4 DEF BuilderInv, ValidatedPrefix, NoFalseAlarm, AllRunsCompared,
                             HashesCompared, OverExact, RecordingExact, InSimulation
  <2>6. QED
    BY <2>3, <2>4, <2>5 DEF BuilderInv
<1>6. CASE ~refused
  <2>1. Consume(e) /\ phase' = p /\ UNCHANGED <<outcome, alarm>>
    BY <1>6 DEF Handle
  <2>2. InSimulation' /\ (phase # "cleanup" => phase' # "cleanup")
    BY <2>1 DEF InSimulation
  <2>3. BuilderTypeOK'
    BY <1>1, <1>2, <1>6, <2>1, <2>2 DEF BuilderInv, BuilderTypeOK, Consume, InSimulation, Refused
  <2>4. RecordingExact' /\ HasherExact' /\ FinishedExact' /\ OverExact'
    BY <1>1, <1>2, <2>1, <2>2 DEF BuilderInv, Consume, RecordingExact, HasherExact, FinishedExact,
                      OverExact, FirstDone, InSimulation
  <2>5. ComparedExact'
    BY <1>1, <1>2, <1>3, <1>6, <2>1, <2>2 DEF BuilderInv, Consume, Refused, ComparedExact,
                      RecordingExact, InSimulation
  <2>6. ValidatedPrefix'
    BY <2>1, <2>2, <2>4, <2>5 DEF BuilderInv, NoFalseAlarm, ValidatedPrefix, ComparedExact, RecordingExact,
                        InSimulation
  <2>7. NoFalseAlarm'
    BY <1>3, <1>4, <2>1, <2>2 DEF BuilderInv, BuilderTypeOK, NoFalseAlarm, InSimulation, OverExact
  <2>8. AllRunsCompared' /\ HashesCompared'
    BY <2>1, <2>2 DEF BuilderInv, AllRunsCompared, HashesCompared, OverExact, InSimulation
  <2>9. QED
    BY <2>3, <2>4, <2>5, <2>6, <2>7, <2>8 DEF BuilderInv
<1>7. QED
  BY <1>5, <1>6

LEMMA InstallStep ==
  ASSUME BuilderInv, Install
  PROVE  BuilderInv'
<1>1. BuilderTypeOK'
  BY BuilderAssumption DEF BuilderInv, BuilderTypeOK, Install
<1>2. RecordingExact' /\ HasherExact' /\ OverExact'
  BY DEF BuilderInv, BuilderTypeOK, Install, RecordingExact, HasherExact, OverExact, FirstDone
<1>3. ComparedExact'
  BY DEF BuilderInv, BuilderTypeOK, Install, ComparedExact, Agrees
<1>4. FinishedExact'
  BY DEF BuilderInv, BuilderTypeOK, Install, FinishedExact, FirstDone
<1>5. ValidatedPrefix'
  BY <1>2, <1>3 DEF BuilderInv, Install, ValidatedPrefix, ComparedExact, RecordingExact, OverExact,
                    InSimulation
<1>6. NoFalseAlarm' /\ AllRunsCompared' /\ HashesCompared'
  BY DEF BuilderInv, Install, NoFalseAlarm, AllRunsCompared, HashesCompared, OverExact
<1>7. QED
  BY <1>1, <1>2, <1>3, <1>4, <1>5, <1>6 DEF BuilderInv

LEMMA FinalizeStep ==
  ASSUME BuilderInv, Finalize
  PROVE  BuilderInv'
<1>1. /\ trace \in Seq(Events) /\ first \in Seq(Events) /\ iter \in Nat /\ iter > 0
      /\ alarm = "none" /\ InSimulation
      /\ UNCHANGED <<check, iterations, iter, events_to_validate, next_event_index, hasher, trace>>
  BY BuilderAssumption DEF BuilderInv, BuilderTypeOK, Finalize, InSimulation, OverExact, NoFalseAlarm
<1>2. check = "Full" /\ iter > 1 =>
        /\ events_to_validate = first /\ next_event_index = Len(trace)
        /\ Agrees(trace, first)
  BY <1>1 DEF BuilderInv, RecordingExact, ComparedExact
<1>3. trace = first <=> Agrees(trace, first) /\ Len(trace) = Len(first)
  BY <1>1, AgreesEqual
<1>4. BuilderTypeOK'
  BY <1>1 DEF BuilderInv, BuilderTypeOK, Finalize
<1>5. CASE Differs
  <2>1. /\ outcome' = "panicked" /\ phase' = "over" /\ alarm' = "end"
        /\ UNCHANGED <<expected, first, finished>>
    BY <1>5 DEF Finalize
  <2>2. iter > 1 /\ trace # first
    BY <1>1, <1>2, <1>3, <1>5 DEF Differs, BuilderInv, HasherExact, FirstDone
  <2>3. RecordingExact' /\ HasherExact' /\ ComparedExact' /\ FinishedExact' /\ OverExact'
    BY <1>1, <2>1, <2>2 DEF BuilderInv, RecordingExact, HasherExact, ComparedExact, FinishedExact,
                       OverExact, FirstDone, InSimulation
  <2>4. ValidatedPrefix' /\ NoFalseAlarm' /\ AllRunsCompared' /\ HashesCompared'
    BY <1>1, <2>1, <2>2, <2>3 DEF BuilderInv, ValidatedPrefix, NoFalseAlarm, AllRunsCompared,
                       HashesCompared, RecordingExact
  <2>5. QED
    BY <1>4, <2>3, <2>4 DEF BuilderInv
<1>6. CASE ~Differs
  <2>1. /\ phase' = "caller" /\ UNCHANGED <<outcome, alarm>>
        /\ finished' = finished \cup {trace}
        /\ iter = 1 => expected' = Hash(hasher) /\ first' = trace
        /\ iter # 1 => expected' = expected /\ first' = first
    BY <1>6 DEF Finalize
  <2>2. check = "Full" /\ iter > 1 => trace = first
    BY <1>1, <1>2, <1>3, <1>6 DEF Differs
  <2>3. iter = 1 => finished = {}
    BY <1>1 DEF BuilderInv, FinishedExact, FirstDone, InSimulation
  <2>4. RecordingExact' /\ HasherExact' /\ ComparedExact' /\ OverExact'
    BY <1>1, <2>1 DEF BuilderInv, RecordingExact, HasherExact, ComparedExact, OverExact, FirstDone,
                      InSimulation
  <2>5. FinishedExact'
    BY <1>1, <2>1, <2>2, <2>3 DEF BuilderInv, FinishedExact, FirstDone
  <2>6. HashesCompared'
    BY <1>1, <1>6, <2>1, <2>3 DEF BuilderInv, HashesCompared, HasherExact, Differs, FirstDone
  <2>7. ValidatedPrefix' /\ NoFalseAlarm' /\ AllRunsCompared'
    BY <1>1, <2>1, <2>4, <2>6 DEF BuilderInv, ValidatedPrefix, NoFalseAlarm, AllRunsCompared, OverExact,
                       InSimulation, RecordingExact
  <2>8. QED
    BY <1>4, <2>4, <2>5, <2>6, <2>7 DEF BuilderInv
<1>7. QED
  BY <1>5, <1>6

\* The phase moves on without an event.
LEMMA MoveStep ==
  ASSUME BuilderInv, Refuse \/ LoopEnds \/ Resume \/ Return
  PROVE  BuilderInv'
<1>1. UNCHANGED <<check, iterations, iter, handlerVars, trace, first, finished, alarm>>
  BY DEF Refuse, LoopEnds, Resume, Return
<1>2. BuilderTypeOK'
  BY <1>1 DEF BuilderInv, BuilderTypeOK, handlerVars, Refuse, LoopEnds, Resume, Return
<1>3. RecordingExact' /\ HasherExact'
  BY <1>1 DEF BuilderInv, RecordingExact, HasherExact, FirstDone, handlerVars, Refuse, LoopEnds, Resume,
              Return
<1>4. ComparedExact' /\ ValidatedPrefix'
  BY <1>1 DEF BuilderInv, ComparedExact, ValidatedPrefix, InSimulation, Agrees, handlerVars, Refuse,
              LoopEnds, Resume, Return
<1>5. FinishedExact' /\ OverExact'
  BY <1>1 DEF BuilderInv, BuilderTypeOK, FinishedExact, OverExact, FirstDone, Refuse, LoopEnds, Resume,
              Return
<1>6. NoFalseAlarm' /\ AllRunsCompared' /\ HashesCompared'
  BY <1>1 DEF BuilderInv, BuilderTypeOK, NoFalseAlarm, AllRunsCompared, HashesCompared, FinishedExact,
              OverExact, FirstDone, Agrees, Refuse, LoopEnds, Resume, Return
<1>7. QED
  BY <1>2, <1>3, <1>4, <1>5, <1>6 DEF BuilderInv

LEMMA RunNextStep ==
  ASSUME BuilderInv, RunNext
  PROVE  BuilderInv'
<1>1. CASE Refuse \/ LoopEnds \/ Resume \/ Return
  BY <1>1, MoveStep
<1>2. CASE InitReturn
  <2>1. InSimulation /\ TaskSpawned \in Events
    BY <1>2 DEF InitReturn, InSimulation, Events
  <2>2. QED
    BY <1>2, <2>1, HandleStep DEF InitReturn
<1>3. CASE UserPanic
  BY <1>3, PanicToStep DEF UserPanic, InSimulation
<1>4. CASE Finalize
  BY <1>4, FinalizeStep
<1>5. CASE \E e \in Events : Emit(e)
  BY <1>5, HandleStep DEF Emit
<1>6. QED
  BY <1>1, <1>2, <1>3, <1>4, <1>5 DEF RunNext

-----------------------------------------------------------------------------
(* Steps of SendBind.                                                      *)

LEMMA BindInvInit == BindInit => BindInv
<1> SUFFICES ASSUME BindInit
             PROVE  BindInv
  OBVIOUS
<1>1. BuilderInv
  BY BuilderInvInit DEF BindInit
<1>2. BindTypeOK
  BY SendBindAssumption DEF BindInit, BindTypeOK, Free, Wrapper
<1>3. AnchorsExact /\ HomeThread /\ HomeNode /\ PinKept
  BY DEF BindInit, Init, AnchorsExact, HomeThread, HomeNode, PinKept, Free, Wrapper
<1>4. QED
  BY <1>1, <1>2, <1>3 DEF BindInv

\* What the operations on wrappers have in common: the phase and the outcome change
\* by a panic or an abort only.
LEMMA WrapperOperation ==
  ASSUME BindInv, NEW th \in Threads, UNCHANGED Others, GoOn \/ Panic(th) \/ Abort
  PROVE  /\ BuilderInv' /\ curNode' \in Nodes
         /\ UNCHANGED <<NEXT, anchor, iter>>
         /\ outcome = "aborted" => outcome' = "aborted"
<1>1. CASE GoOn
  BY <1>1, PanicStep DEF GoOn, Others, BindInv, BindTypeOK
<1>2. CASE Abort
  BY <1>2, PanicStep DEF Abort, Others, BindInv, BindTypeOK
<1>3. CASE Panic(th) /\ ~GoOn
  <2>1. InSimulation /\ PanicTo /\ curNode' = INIT
    BY <1>3 DEF Panic, Threads, Outside
  <2>2. BuilderInv'
    BY <2>1, PanicToStep DEF Others, BindInv
  <2>3. outcome # "aborted"
    BY <2>1 DEF BindInv, BuilderInv, OverExact, InSimulation
  <2>4. QED
    BY <2>1, <2>2, <2>3, SendBindAssumption DEF Others
<1>4. QED
  BY <1>1, <1>2, <1>3

\* A check that succeeds succeeds at home, and what Reaches lets through is there.
LEMMA ChecksExact ==
  ASSUME BindInv, NEW v \in Values, NEW th \in Threads, Reaches(v, th)
  PROVE  /\ wrapper[v].kind \in Kinds /\ wrapper[v].home \in 1 .. iter /\ iter \in Nat
         /\ wrapper[v].kind # "node" /\ SimCheck(v, th) => th = wrapper[v].home
         /\ wrapper[v].kind = "node" => th = wrapper[v].home
         /\ wrapper[v].kind # "sim" /\ Passes(v, th) => wrapper[v].node = curNode
<1>1. iter \in Nat
  BY BuilderAssumption DEF BindInv, BuilderInv, BuilderTypeOK
<1>2. wrapper[v] \in [kind : Kinds \cup {"free"}, node : Nodes \cup {0}, id : Nat, home : Nat]
  BY DEF BindInv, BindTypeOK
<1>3. wrapper[v].kind \in Kinds /\ wrapper[v].kind # "free"
  BY DEF Reaches, Kinds
<1>4. QED
  BY <1>1, <1>2, <1>3 DEF BindInv, AnchorsExact, Kinds, SimCheck, NodeCheck, Passes, Reaches, Threads, Outside

\* A new wrapper has the anchor of its run.
LEMMA WrapStep ==
  ASSUME BindInv, NEW v \in Values, NEW k \in Kinds, Wrap(v, k)
  PROVE  BindInv'
<1> DEFINE w == Wrapper(k, IF k = "sim" THEN 0 ELSE curNode, IF k = "node" THEN 0 ELSE anchor, iter)
<1>1. iter \in Nat /\ iter > 0 /\ anchor = iter
  BY BuilderAssumption DEF BindInv, BuilderInv, BuilderTypeOK, OverExact, AnchorsExact, Wrap, InSimulation
<1>2. w \in [kind : Kinds \cup {"free"}, node : Nodes \cup {0}, id : Nat, home : Nat]
  BY <1>1 DEF Wrapper, BindInv, BindTypeOK
<1>3. wrapper' = [wrapper EXCEPT ![v] = w] /\ UNCHANGED <<NEXT, anchor, iter, foreign, stray, leaked>>
  BY DEF Wrap, Untouched, Others
<1>4. BuilderInv' /\ curNode' \in Nodes /\ outcome' = outcome
  BY PanicStep DEF Wrap, GoOn, Others, BindInv, BindTypeOK
<1>5. BindTypeOK'
  BY <1>2, <1>3, <1>4 DEF BindInv, BindTypeOK
<1>6. AnchorsExact'
  BY <1>1, <1>2, <1>3 DEF BindInv, BindTypeOK, AnchorsExact, Wrapper, Kinds
<1>7. HomeThread' /\ HomeNode' /\ PinKept'
  BY <1>3, <1>4 DEF BindInv, HomeThread, HomeNode, PinKept
<1>8. QED
  BY <1>4, <1>5, <1>6, <1>7 DEF BindInv

LEMMA UseStep ==
  ASSUME BindInv, NEW v \in Values, NEW th \in Threads, Use(v, th)
  PROVE  BindInv'
<1>1. Reaches(v, th) /\ UNCHANGED Others /\ UNCHANGED <<wrapper, leaked>> /\ (GoOn \/ Panic(th))
  BY DEF Use
<1>2. /\ BuilderInv' /\ curNode' \in Nodes /\ UNCHANGED <<NEXT, anchor, iter>>
      /\ outcome = "aborted" => outcome' = "aborted"
  BY <1>1, WrapperOperation
<1>3. BindTypeOK' /\ AnchorsExact' /\ PinKept'
  BY <1>1, <1>2 DEF BindInv, BindTypeOK, AnchorsExact, PinKept
<1>4. CASE Passes(v, th)
  <2>1. Touch("use", v, th)
    BY <1>4 DEF Use
  <2>2. th = wrapper[v].home /\ (wrapper[v].kind # "sim" => wrapper[v].node = curNode)
    BY <1>1, <1>4, ChecksExact DEF Passes, Kinds
  <2>3. UNCHANGED <<foreign, stray>>
    BY <2>1, <2>2 DEF Touch
  <2>4. QED
    BY <1>2, <1>3, <2>3 DEF BindInv, HomeThread, HomeNode
<1>5. CASE ~Passes(v, th)
  <2>1. UNCHANGED <<foreign, stray>>
    BY <1>5 DEF Use, Untouched
  <2>2. QED
    BY <1>2, <1>3, <2>1 DEF BindInv, HomeThread, HomeNode
<1>6. QED
  BY <1>4, <1>5

LEMMA CloneStep ==
  ASSUME BindInv, NEW v \in Values, NEW w \in Values, NEW th \in Threads, Clone(v, w, th)
  PROVE  BindInv'
<1>1. UNCHANGED Others /\ UNCHANGED leaked /\ GoOn /\ wrapper' = [wrapper EXCEPT ![w] = wrapper[v]]
  BY DEF Clone
<1>2. /\ BuilderInv' /\ curNode' \in Nodes /\ UNCHANGED <<NEXT, anchor, iter, outcome>>
  BY <1>1, WrapperOperation DEF GoOn
<1>3. BindTypeOK'
  BY <1>1, <1>2 DEF BindInv, BindTypeOK
<1>4. AnchorsExact' /\ PinKept'
  BY <1>1, <1>2 DEF BindInv, BindTypeOK, AnchorsExact, PinKept
<1>5. HomeThread' /\ HomeNode'
  BY DEF Clone, Touch, BindInv, HomeThread, HomeNode
<1>6. QED
  BY <1>2, <1>3, <1>4, <1>5 DEF BindInv

\* A wrapper is gone.
LEMMA Freed ==
  ASSUME BindInv, NEW v \in Values, wrapper' = [wrapper EXCEPT ![v] = Free],
         curNode' \in Nodes, leaked' \in BOOLEAN, UNCHANGED <<NEXT, anchor, iter>>
  PROVE  BindTypeOK' /\ AnchorsExact'
<1>1. Free \in [kind : Kinds \cup {"free"}, node : Nodes \cup {0}, id : Nat, home : Nat]
  BY DEF Free, Wrapper
<1>2. BindTypeOK'
  BY <1>1 DEF BindInv, BindTypeOK
<1>3. AnchorsExact'
  BY DEF BindInv, BindTypeOK, AnchorsExact, Free, Wrapper
<1>4. QED
  BY <1>2, <1>3

LEMMA DropStep ==
  ASSUME BindInv, NEW v \in Values, NEW th \in Threads, Drop(v, th)
  PROVE  BindInv'
<1>1. /\ Reaches(v, th) /\ UNCHANGED Others
      /\ wrapper' = [wrapper EXCEPT ![v] = Free]
      /\ DropSim(v, th) \/ DropNode(v, th)
  BY DEF Drop
<1>2. GoOn \/ Panic(th) \/ Abort
  BY <1>1 DEF DropSim, DropNode
<1>3. /\ BuilderInv' /\ curNode' \in Nodes /\ UNCHANGED <<NEXT, anchor, iter>>
      /\ outcome = "aborted" => outcome' = "aborted"
  BY <1>1, <1>2, WrapperOperation
<1>4. leaked' = leaked \/ (leaked' = TRUE /\ Abort)
  BY <1>1 DEF DropSim, DropNode
<1>5. BindTypeOK' /\ AnchorsExact'
  BY <1>1, <1>3, <1>4, Freed DEF BindInv, BindTypeOK
<1>6. PinKept'
  BY <1>3, <1>4 DEF BindInv, PinKept, Abort
<1>7. UNCHANGED <<foreign, stray>> \/ (Touch("drop", v, th) /\ th = wrapper[v].home)
  BY <1>1, ChecksExact DEF DropSim, DropNode, Untouched
<1>8. HomeThread' /\ HomeNode'
  BY <1>7 DEF Touch, BindInv, HomeThread, HomeNode
<1>9. QED
  BY <1>3, <1>5, <1>6, <1>8 DEF BindInv

LEMMA UnwrapStep ==
  ASSUME BindInv, NEW v \in Values, NEW th \in Threads, Unwrap(v, th)
  PROVE  BindInv'
<1>1. Reaches(v, th) /\ UNCHANGED Others /\ (UnwrapSim(v, th) \/ UnwrapNode(v, th))
  BY DEF Unwrap
<1>2. GoOn \/ Abort
  BY <1>1 DEF UnwrapSim, UnwrapNode
<1>3. /\ BuilderInv' /\ curNode' \in Nodes /\ UNCHANGED <<NEXT, anchor, iter>>
      /\ outcome = "aborted" => outcome' = "aborted"
  BY <1>1, <1>2, WrapperOperation
<1>4. leaked' = leaked \/ (leaked' = TRUE /\ Abort)
  BY <1>1 DEF UnwrapSim, UnwrapNode
<1>5. BindTypeOK' /\ AnchorsExact'
  <2>1. CASE wrapper' = [wrapper EXCEPT ![v] = Free]
    BY <2>1, <1>3, <1>4, Freed DEF BindInv, BindTypeOK
  <2>2. CASE UNCHANGED wrapper
    BY <2>2, <1>3, <1>4 DEF BindInv, BindTypeOK, AnchorsExact
  <2>3. CASE wrapper' = [wrapper EXCEPT ![v].kind = "node", ![v].id = 0] /\ wrapper[v].kind = "simnode"
    <3>1. BindTypeOK'
      BY <2>3, <1>3, <1>4 DEF BindInv, BindTypeOK, Kinds
    <3>2. AnchorsExact'
      BY <2>3, <1>3 DEF BindInv, BindTypeOK, AnchorsExact, Kinds
    <3>3. QED
      BY <3>1, <3>2
  <2>4. QED
    BY <1>1, <2>1, <2>2, <2>3 DEF UnwrapSim, UnwrapNode
<1>6. PinKept'
  BY <1>3, <1>4 DEF BindInv, PinKept, Abort
<1>7. \/ UNCHANGED <<foreign, stray>>
      \/ /\ Touch("drop", v, th) \/ Touch("take", v, th)
         /\ th = wrapper[v].home
         /\ Touch("drop", v, th) \/ wrapper[v].kind = "sim" \/ wrapper[v].node = curNode
  BY <1>1, ChecksExact DEF UnwrapSim, UnwrapNode, Untouched, NodeCheck
<1>8. HomeThread' /\ HomeNode'
  BY <1>7 DEF Touch, BindInv, HomeThread, HomeNode
<1>9. QED
  BY <1>3, <1>5, <1>6, <1>8 DEF BindInv

\* Another run begins, with an anchor of its own.
LEMMA InstallAnchorStep ==
  ASSUME BindInv, InstallAnchor
  PROVE  BindInv'
<1>1. BuilderInv'
  BY InstallStep DEF InstallAnchor, BindInv
<1>2. iter \in Nat /\ iter' = iter + 1 /\ UNCHANGED <<outcome, wrapper, foreign, stray, leaked>>
  BY BuilderAssumption DEF BindInv, BuilderInv, BuilderTypeOK, InstallAnchor, Install
<1>3. BindTypeOK'
  BY <1>2, SendBindAssumption DEF BindInv, BindTypeOK, InstallAnchor
<1>4. AnchorsExact'
  BY <1>2 DEF BindInv, BindTypeOK, AnchorsExact, InstallAnchor
<1>5. HomeThread' /\ HomeNode' /\ PinKept'
  BY <1>2 DEF BindInv, HomeThread, HomeNode, PinKept
<1>6. QED
  BY <1>1, <1>3, <1>4, <1>5 DEF BindInv

LEMMA RunStepStep ==
  ASSUME BindInv, RunStep
  PROVE  BindInv'
<1>1. BuilderInv'
  BY RunNextStep DEF RunStep, BindInv
<1>2. UNCHANGED <<iter, NEXT, anchor, wrapper, foreign, stray, leaked>>
  BY DEF RunStep, RunNext, Refuse, InitReturn, LoopEnds, UserPanic, Finalize, Resume, Return, Emit
<1>3. outcome # "aborted"
  BY DEF RunStep, RunNext, Refuse, InitReturn, LoopEnds, UserPanic, Finalize, Resume, Return, Emit,
         InSimulation, BindInv, BuilderInv, OverExact
<1>4. BindTypeOK'
  BY <1>2, SendBindAssumption DEF BindInv, BindTypeOK, RunStep
<1>5. AnchorsExact' /\ HomeThread' /\ HomeNode' /\ PinKept'
  BY <1>2, <1>3 DEF BindInv, AnchorsExact, HomeThread, HomeNode, PinKept
<1>6. QED
  BY <1>1, <1>4, <1>5 DEF BindInv

LEMMA EnterNodeStep ==
  ASSUME BindInv, NEW n \in Nodes, EnterNode(n)
  PROVE  BindInv'
<1>1. BuilderInv'
  BY PanicStep DEF EnterNode, builderVars, handlerVars, BindInv
<1>2. QED
  BY <1>1 DEF EnterNode, builderVars, BindInv, BindTypeOK, AnchorsExact, HomeThread, HomeNode, PinKept

LEMMA BindStutter ==
  ASSUME BindInv, UNCHANGED allVars
  PROVE  BindInv'
<1>1. BuilderInv'
  BY PanicStep DEF allVars, builderVars, handlerVars, BindInv
<1>2. QED
  BY <1>1 DEF allVars, builderVars, bindVars, BindInv, BindTypeOK, AnchorsExact, HomeThread, HomeNode,
              PinKept

-----------------------------------------------------------------------------
(* The theorems.                                                           *)

\* What the builder's threads compare and what the wrappers know of their origin
\* stays exact in every run of the simulation.
THEOREM BindInvariant == BindSpec => []BindInv
<1>1. BindInit => BindInv
  BY BindInvInit
<1>2. BindInv /\ [BindNext]_allVars => BindInv'
  <2> SUFFICES ASSUME BindInv, [BindNext]_allVars
               PROVE  BindInv'
    OBVIOUS
  <2>1. CASE InstallAnchor
    BY <2>1, InstallAnchorStep
  <2>2. CASE RunStep
    BY <2>2, RunStepStep
  <2>3. CASE Over \/ UNCHANGED allVars
    BY <2>3, BindStutter DEF Over
  <2>4. CASE \E n \in Nodes : EnterNode(n)
    BY <2>4, EnterNodeStep
  <2>5. ASSUME NEW v \in Values, NEW k \in Kinds, Wrap(v, k)
        PROVE  BindInv'
    BY <2>5, WrapStep
  <2>6. ASSUME NEW v \in Values, NEW th \in Threads, Use(v, th) \/ Drop(v, th) \/ Unwrap(v, th)
        PROVE  BindInv'
    BY <2>6, UseStep, DropStep, UnwrapStep
  <2>7. ASSUME NEW v \in Values, NEW th \in Threads, NEW w \in Values, Clone(v, w, th)
        PROVE  BindInv'
    BY <2>7, CloneStep
  <2>8. QED
    BY <2>1, <2>2, <2>3, <2>4, <2>5, <2>6, <2>7 DEF BindNext
<1>3. QED
  BY <1>1, <1>2, PTL DEF BindSpec

\* Type correctness of the builder and its event handlers.
THEOREM BuilderTypeCorrect == BindSpec => []BuilderTypeOK
<1>1. BindInv => BuilderTypeOK
  BY DEF BindInv, BuilderInv
<1>2. QED
  BY <1>1, BindInvariant, PTL

\* With DeterminismCheck::Full the first event that differs ends a run.
THEOREM PrefixCorrect == BindSpec => []ValidatedPrefix
<1>1. BindInv => ValidatedPrefix
  BY DEF BindInv, BuilderInv
<1>2. QED
  BY <1>1, BindInvariant, PTL

\* Non-determinism is reported only where two runs differ, and never swallowed.
THEOREM AlarmCorrect == BindSpec => []NoFalseAlarm
<1>1. BindInv => NoFalseAlarm
  BY DEF BindInv, BuilderInv
<1>2. QED
  BY <1>1, BindInvariant, PTL

\* When run returns, all runs were made and with DeterminismCheck::Full were equal;
\* with DeterminismCheck::Hash every accepted run has the hash of the first.
THEOREM RunsCorrect == BindSpec => []AllRunsCompared
<1>1. BindInv => AllRunsCompared
  BY DEF BindInv, BuilderInv
<1>2. QED
  BY <1>1, BindInvariant, PTL

\* Apart from clone, nothing is done to a bound value on a foreign thread.
THEOREM HomeThreadCorrect == BindSpec => []HomeThread
<1>1. BindInv => HomeThread
  BY DEF BindInv
<1>2. QED
  BY <1>1, BindInvariant, PTL

\* A value bound to a node is used and taken out on its own node only.
THEOREM HomeNodeCorrect == BindSpec => []HomeNode
<1>1. BindInv => HomeNode
  BY DEF BindInv
<1>2. QED
  BY <1>1, BindInvariant, PTL

\* A wrapper whose value is neither dropped nor taken out takes the process with it.
THEOREM PinCorrect == BindSpec => []PinKept
<1>1. BindInv => PinKept
  BY DEF BindInv
<1>2. QED
  BY <1>1, BindInvariant, PTL

\* The anchor tells the runs of the simulation apart.
THEOREM AnchorCorrect == BindSpec => []AnchorExact
<1>1. BindInv => AnchorExact
  BY DEF BindInv, AnchorsExact, AnchorExact
<1>2. QED
  BY <1>1, BindInvariant, PTL
=============================================================================
