-------------------------- MODULE SimulatorsProofs --------------------------
(***************************************************************************)
(* Proofs about Simulators, for every set of types, every number of nodes  *)
(* and every depth of nested calls.                                        *)
(***************************************************************************)
EXTENDS Simulators, SequenceTheorems, FiniteSetTheorems, TLAPS

-----------------------------------------------------------------------------
(* The inductive invariant.                                                *)

Ops       == {"", "create", "stop", "start"}
FrameType == [kind : UserKinds \cup {"all"}, op : Ops, sim : Types \cup {None},
              slot : Nat, node : Nat, len : Nat]

Holder(f)   == f.kind \in {"with", "call"}
IsCreate(f) == f.kind = "call" /\ f.op = "create"

\* What a frame is about, when m nodes and k slots exist; fin is final.
FrameExact(f, fin, m, k) ==
  /\ f \in FrameType
  /\ Holder(f) => f.sim \in Types
  /\ f.kind = "call" => f.op # "" /\ f.node \in NodeIds /\ f.len <= k
  /\ f.kind = "stop" => f.node \in NodeIds
  /\ f.kind = "all" => fin /\ f.node > 0 /\ f.len = m

SimTypes ==
  /\ simulators \in Seq(Types \cup {None})
  /\ simulators_by_type \in [Types -> Nat]
  /\ nodes \in NodeIds
  /\ level \in [NodeIds -> RunLevels]
  /\ final \in BOOLEAN
  /\ seen \in [Types -> Seq(NodeIds)]
  /\ view \in [Types -> SUBSET NodeIds]
  /\ stack \in Seq(FrameType)
  /\ \A i \in DOMAIN stack : FrameExact(stack[i], final, nodes, Len(simulators))
  /\ stage \in {"run", "stop", "pop"}
  /\ mode \in Modes
  /\ lost \subseteq Nat /\ refused \subseteq Types /\ overtaken \subseteq NodeIds

\* The outermost frame, and how far the simulation is.
StageExact ==
  /\ \A i \in DOMAIN stack : i > 1 => stack[i].kind \notin {"base", "drop"}
  /\ stack # <<>> => stack[1].kind = (CASE stage = "run" -> "base" [] stage = "stop" -> "all"
                                        [] stage = "pop" -> "drop")
  /\ stage # "run" => final
  /\ mode = "cleanup" => stage # "run"
  /\ mode = "normal" => lost = {}
  /\ stage = "stop" /\ Active => stack # <<>>

\* The slots, the frames that hold a simulator and the slots that a panic emptied.
Fits(reg, stk, gone) ==
  /\ \A s \in DOMAIN reg :
       reg[s] = None <=> (s \in gone \/ \E i \in DOMAIN stk : Holder(stk[i]) /\ stk[i].slot = s)
  /\ \A i \in DOMAIN stk : Holder(stk[i]) => stk[i].slot \in DOMAIN reg \ gone
  /\ \A i, j \in DOMAIN stk : Holder(stk[i]) /\ Holder(stk[j]) /\ stk[i].slot = stk[j].slot => i = j

\* The simulator that belongs into a slot, wherever it is.
Lives(reg, stk, s, t) ==
  \/ s \in DOMAIN reg /\ reg[s] = t
  \/ \E i \in DOMAIN stk : Holder(stk[i]) /\ stk[i].slot = s /\ stk[i].sim = t

\* A simulator has one slot, and the index leads there unless the type was refused.
\* As long as simulators can be registered, the index leads to slots only.
Registered ==
  /\ \A t \in Types : \A s \in Nat :
       Lives(simulators, stack, s, t) =>
         /\ simulators_by_type[t] # 0
         /\ simulators_by_type[t] = s \/ t \in refused
         /\ \A r \in Nat : Lives(simulators, stack, r, t) => r = s
         /\ \A u \in Types : simulators_by_type[u] = s => u = t
  /\ mode = "normal" /\ ~final => \A t \in Types : simulators_by_type[t] <= Len(simulators)

\* Simulators are dropped when every node is stopped for good.
Stopped(k) == \A n \in 1 .. nodes : n < k => level[n] = "FinalStopped"

TornDown ==
  /\ stage = "pop" => Stopped(nodes + 1)
  /\ stage = "stop" /\ stack # <<>> => Stopped(stack[1].node)
  /\ stack # <<>> /\ stack[1].kind = "drop" => Len(simulators) = stack[1].slot - 1
  /\ \/ \A t \in Types \ refused : simulators_by_type[t] <= Len(simulators)
     \/ final /\ Stopped(nodes + 1) /\ \A i \in DOMAIN stack : stack[i].kind # "stop"

\* A notification has not come to the slots that the frames below it hold.
Ahead ==
  \A i, j \in DOMAIN stack : j < i /\ Holder(stack[j]) /\ stack[i].kind = "call" =>
    IF stack[i].op = "create" THEN stack[i].slot < stack[j].slot /\ stack[j].slot <= stack[i].len
                              ELSE stack[j].slot < stack[i].slot

\* A notification that started below a frame that holds a simulator will panic there.
Doomed ==
  \E i, j \in DOMAIN stack : j < i /\ Holder(stack[j]) /\ stack[i].kind \in {"stop", "call"}

\* A node does not run while it is being stopped, unless a destructor started it again;
\* those that are yet to be created will run.
StopsExact ==
  /\ \A n \in NodeIds : Stopping(n) => n <= nodes /\ (n \in overtaken \/ n \notin Running)
  /\ \A n \in NodeIds : n > nodes => level[n] = "Running"

\* The notifications that are going on say what is the case.
CallsExact ==
  \A i \in DOMAIN stack : stack[i].kind = "call" /\ stack[i].node \notin overtaken =>
    (stack[i].op = "stop" <=> stack[i].node \notin Running)

Untold(f, s) == f.kind = "call" /\ IF f.op = "create" THEN f.slot <= s ELSE s <= f.slot

\* The simulator t of slot s knows whether the node n runs, or has yet to be told.
Told(s, t, n) ==
  \/ n \in view[t] <=> n \in Running
  \/ Stopping(n)
  \/ \E i \in DOMAIN stack : Untold(stack[i], s) /\ stack[i].node = n

\* A simulator knows the nodes that run, except for what it has yet to be told.
ViewsExact ==
  /\ StopsExact
  /\ mode = "normal" /\ ~Doomed =>
       /\ CallsExact
       /\ \A s \in Nat : \A t \in Types : Lives(simulators, stack, s, t) =>
            \A n \in NodeIds \ overtaken : Told(s, t, n)

\* The creations that a slot has yet to be told of.
Creations(s) == {i \in DOMAIN stack : IsCreate(stack[i]) /\ stack[i].slot <= s}

\* A simulator knows the nodes created so far, except for those.
SeenExact ==
  mode = "normal" =>
    /\ \A s \in Nat : \A t \in Types : Lives(simulators, stack, s, t) =>
         seen[t] = [n \in 1 .. nodes - Cardinality(Creations(s)) |-> n]
    /\ \A i \in DOMAIN stack : IsCreate(stack[i]) =>
         /\ nodes > 1
         /\ (\A j \in DOMAIN stack : IsCreate(stack[j]) => j <= i) => stack[i].node = nodes

\* A notification is about a node that exists; during the cleanup the slots stay the same.
NotesExact ==
  \A i \in DOMAIN stack : stack[i].kind = "call" =>
    /\ stack[i].node <= nodes
    /\ mode = "cleanup" => stack[i].len = Len(simulators)

-----------------------------------------------------------------------------
(* Stacks.                                                                 *)

\* The stack b is the stack a with the frame f on it.
On(a, b, f) ==
  /\ a \in Seq(FrameType) /\ b \in Seq(FrameType) /\ f \in FrameType
  /\ Len(b) = Len(a) + 1
  /\ \A i \in 1 .. Len(a) : b[i] = a[i]
  /\ b[Len(b)] = f

LEMMA Pushed ==
  ASSUME NEW s \in Seq(FrameType), NEW f \in FrameType
  PROVE  On(s, Append(s, f), f)
<1>1. /\ Append(s, f) \in Seq(FrameType) /\ Len(Append(s, f)) = Len(s) + 1
      /\ \A i \in 1 .. Len(s) : Append(s, f)[i] = s[i]
      /\ Append(s, f)[Len(s) + 1] = f
  BY AppendProperties
<1>2. QED
  BY <1>1 DEF On

LEMMA Popped ==
  ASSUME NEW s \in Seq(FrameType), s # <<>>
  PROVE  On(SubSeq(s, 1, Len(s) - 1), s, s[Len(s)])
<1>1. Len(s) \in Nat /\ Len(s) > 0
  BY LenProperties, EmptySeq
<1>2. \A i \in 1 .. Len(s) : s[i] \in FrameType
  BY ElementOfSeq
<1>3. PICK n \in Nat : n = Len(s) - 1
  BY <1>1
<1>4. \A i \in 1 .. n : s[i] \in FrameType
  BY <1>1, <1>2, <1>3
<1>5. /\ SubSeq(s, 1, n) \in Seq(FrameType)
      /\ Len(SubSeq(s, 1, n)) = n
      /\ \A i \in 1 .. n : SubSeq(s, 1, n)[i] = s[i]
  <2>1. /\ SubSeq(s, 1, n) \in Seq(FrameType)
        /\ Len(SubSeq(s, 1, n)) = IF 1 <= n THEN n - 1 + 1 ELSE 0
        /\ \A i \in 1 .. n - 1 + 1 : SubSeq(s, 1, n)[i] = s[1 + i - 1]
    BY <1>4, SubSeqProperties
  <2>2. QED
    BY <2>1
<1>6. s[Len(s)] \in FrameType
  BY <1>1, <1>2
<1>7. QED
  BY <1>1, <1>3, <1>5, <1>6 DEF On

\* The frames of the larger stack, by their positions.
LEMMA OnFrames ==
  ASSUME NEW a, NEW b, NEW f, On(a, b, f)
  PROVE  /\ Len(b) \in Nat \ {0} /\ Len(b) \in DOMAIN b /\ Len(b) \notin DOMAIN a
         /\ b[Len(b)] = f /\ b # <<>>
         /\ \A i \in DOMAIN b : i \in DOMAIN a \/ i = Len(b)
         /\ \A i \in DOMAIN a : /\ i \in DOMAIN b /\ b[i] = a[i] /\ i \in Nat \ {0}
                                /\ i < Len(b) /\ i # Len(b)
<1>1. /\ Len(a) \in Nat /\ DOMAIN a = 1 .. Len(a) /\ DOMAIN b = 1 .. Len(b)
      /\ Len(b) = Len(a) + 1
  BY LenProperties DEF On
<1>2. Len(<<>>) = 0
  BY EmptySeq
<1>3. QED
  BY <1>1, <1>2 DEF On

-----------------------------------------------------------------------------
(* What moves of simulators between slots and frames do.                   *)

Registry == Seq(Types \cup {None})

\* No simulator comes to live in another slot.
Kept(reg, stk, reg2, stk2) ==
  \A s \in Nat : \A t \in Types : Lives(reg2, stk2, s, t) => Lives(reg, stk, s, t)

LEMMA KeptTransitive ==
  ASSUME NEW r1, NEW r2, NEW r3, NEW s1, NEW s2, NEW s3, Kept(r1, s1, r2, s2), Kept(r2, s2, r3, s3)
  PROVE  Kept(r1, s1, r3, s3)
BY DEF Kept

\* A frame that holds no simulator comes or goes.
LEMMA PlainFrame ==
  ASSUME NEW r, NEW a, NEW b, NEW f, NEW g, On(a, b, f), ~Holder(f)
  PROVE  /\ Fits(r, a, g) <=> Fits(r, b, g)
         /\ \A s \in Nat : \A t \in Types : Lives(r, a, s, t) <=> Lives(r, b, s, t)
<1>1. /\ b[Len(b)] = f /\ \A i \in DOMAIN b : i \in DOMAIN a \/ i = Len(b)
      /\ \A i \in DOMAIN a : i \in DOMAIN b /\ b[i] = a[i] /\ i # Len(b)
  BY OnFrames
<1>2. \A i \in DOMAIN b : Holder(b[i]) => i \in DOMAIN a /\ b[i] = a[i]
  BY <1>1
<1>3. \A s : (\E i \in DOMAIN b : Holder(b[i]) /\ b[i].slot = s)
               <=> (\E i \in DOMAIN a : Holder(a[i]) /\ a[i].slot = s)
  BY <1>1, <1>2
<1>4. Fits(r, a, g) => Fits(r, b, g)
  BY <1>1, <1>2, <1>3 DEF Fits
<1>5. Fits(r, b, g) => Fits(r, a, g)
  BY <1>1, <1>2, <1>3 DEF Fits
<1>6. \A s \in Nat : \A t \in Types : Lives(r, a, s, t) <=> Lives(r, b, s, t)
  BY <1>1, <1>2 DEF Lives
<1>7. QED
  BY <1>4, <1>5, <1>6

\* A simulator is taken out of its slot and a frame holds it.
LEMMA TakenOut ==
  ASSUME NEW r \in Registry, NEW a, NEW b, NEW f, NEW g, On(a, b, f), Holder(f), Fits(r, a, g),
         f.slot \in DOMAIN r, r[f.slot] = f.sim, f.sim # None
  PROVE  /\ [r EXCEPT ![f.slot] = None] \in Registry
         /\ Len([r EXCEPT ![f.slot] = None]) = Len(r)
         /\ Fits([r EXCEPT ![f.slot] = None], b, g)
         /\ Kept(r, a, [r EXCEPT ![f.slot] = None], b)
<1> DEFINE r2 == [r EXCEPT ![f.slot] = None]
<1>1. /\ b[Len(b)] = f /\ Len(b) \in DOMAIN b /\ \A i \in DOMAIN b : i \in DOMAIN a \/ i = Len(b)
      /\ \A i \in DOMAIN a : i \in DOMAIN b /\ b[i] = a[i] /\ i # Len(b)
  BY OnFrames
<1>2. DOMAIN r = 1 .. Len(r)
  BY LenProperties DEF Registry
<1>3. r2 \in Registry /\ Len(r2) = Len(r)
  BY <1>2, ExceptSeq DEF Registry
<1>4. /\ DOMAIN r2 = DOMAIN r /\ r2[f.slot] = None
      /\ \A s \in DOMAIN r : s # f.slot => r2[s] = r[s]
  OBVIOUS
<1> HIDE DEF r2
<1>5. f.slot \notin g /\ \A i \in DOMAIN a : Holder(a[i]) => a[i].slot # f.slot
  BY DEF Fits
<1>6. ASSUME NEW s \in DOMAIN r2
      PROVE  r2[s] = None <=> (s \in g \/ \E i \in DOMAIN b : Holder(b[i]) /\ b[i].slot = s)
  <2>1. CASE s = f.slot
    BY <1>1, <1>4, <2>1
  <2>2. CASE s # f.slot
    <3>1. r2[s] = r[s] /\ s \in DOMAIN r
      BY <1>4, <1>6, <2>2
    <3>2. r[s] = None <=> (s \in g \/ \E i \in DOMAIN a : Holder(a[i]) /\ a[i].slot = s)
      BY <3>1 DEF Fits
    <3>3. (\E i \in DOMAIN b : Holder(b[i]) /\ b[i].slot = s) <=> \E i \in DOMAIN a : Holder(a[i]) /\ a[i].slot = s
      BY <1>1, <2>2
    <3>4. QED
      BY <3>1, <3>2, <3>3
  <2>3. QED
    BY <2>1, <2>2
<1>7. \A i \in DOMAIN b : Holder(b[i]) => b[i].slot \in DOMAIN r2 \ g
  BY <1>1, <1>4, <1>5 DEF Fits
<1>8. \A i, j \in DOMAIN b : Holder(b[i]) /\ Holder(b[j]) /\ b[i].slot = b[j].slot => i = j
  BY <1>1, <1>5 DEF Fits
<1>9. Fits(r2, b, g)
  BY <1>6, <1>7, <1>8 DEF Fits
<1>10. \A s \in Nat : \A t \in Types : Lives(r2, b, s, t) => Lives(r, a, s, t)
  BY <1>1, <1>4, NoneAssumption DEF Lives
<1>11. QED
  BY <1>3, <1>9, <1>10 DEF Kept, r2

\* The simulator that a frame held is put back.
LEMMA PutIn ==
  ASSUME NEW r \in Registry, NEW a, NEW b, NEW f, NEW g, On(a, b, f), Holder(f), Fits(r, b, g),
         f.sim \in Types
  PROVE  /\ f.slot \in DOMAIN r
         /\ [r EXCEPT ![f.slot] = f.sim] \in Registry
         /\ Len([r EXCEPT ![f.slot] = f.sim]) = Len(r)
         /\ Fits([r EXCEPT ![f.slot] = f.sim], a, g)
         /\ Kept(r, b, [r EXCEPT ![f.slot] = f.sim], a)
<1> DEFINE r2 == [r EXCEPT ![f.slot] = f.sim]
<1>1. /\ b[Len(b)] = f /\ Len(b) \in DOMAIN b /\ \A i \in DOMAIN b : i \in DOMAIN a \/ i = Len(b)
      /\ \A i \in DOMAIN a : i \in DOMAIN b /\ b[i] = a[i] /\ i # Len(b)
  BY OnFrames
<1>2. DOMAIN r = 1 .. Len(r)
  BY LenProperties DEF Registry
<1>3. f.slot \in DOMAIN r /\ f.slot \notin g /\ \A i \in DOMAIN a : Holder(a[i]) => a[i].slot # f.slot
  <2>1. f.slot \in DOMAIN r \ g
    BY <1>1 DEF Fits
  <2>2. \A i \in DOMAIN a : Holder(a[i]) /\ a[i].slot = f.slot => i = Len(b)
    BY <1>1 DEF Fits
  <2>3. QED
    BY <1>1, <2>1, <2>2
<1>4. r2 \in Registry /\ Len(r2) = Len(r)
  BY <1>2, <1>3, ExceptSeq DEF Registry
<1>5. /\ DOMAIN r2 = DOMAIN r /\ r2[f.slot] = f.sim
      /\ \A s \in DOMAIN r : s # f.slot => r2[s] = r[s]
  BY <1>3
<1> HIDE DEF r2
<1>6. ASSUME NEW s \in DOMAIN r2
      PROVE  r2[s] = None <=> (s \in g \/ \E i \in DOMAIN a : Holder(a[i]) /\ a[i].slot = s)
  <2>1. CASE s = f.slot
    BY <1>3, <1>5, <2>1, NoneAssumption
  <2>2. CASE s # f.slot
    <3>1. r2[s] = r[s] /\ s \in DOMAIN r
      BY <1>5, <1>6, <2>2
    <3>2. r[s] = None <=> (s \in g \/ \E i \in DOMAIN b : Holder(b[i]) /\ b[i].slot = s)
      BY <3>1 DEF Fits
    <3>3. (\E i \in DOMAIN b : Holder(b[i]) /\ b[i].slot = s) <=> \E i \in DOMAIN a : Holder(a[i]) /\ a[i].slot = s
      BY <1>1, <2>2
    <3>4. QED
      BY <3>1, <3>2, <3>3
  <2>3. QED
    BY <2>1, <2>2
<1>7. \A i \in DOMAIN a : Holder(a[i]) => a[i].slot \in DOMAIN r2 \ g
  BY <1>1, <1>5 DEF Fits
<1>8. \A i, j \in DOMAIN a : Holder(a[i]) /\ Holder(a[j]) /\ a[i].slot = a[j].slot => i = j
  BY <1>1 DEF Fits
<1>9. Fits(r2, a, g)
  BY <1>6, <1>7, <1>8 DEF Fits
<1>10. \A s \in Nat : \A t \in Types : Lives(r2, a, s, t) => Lives(r, b, s, t)
  BY <1>1, <1>5 DEF Lives
<1>11. QED
  BY <1>3, <1>4, <1>9, <1>10 DEF Kept, r2

\* A frame that held a simulator goes, and the simulator with it.
LEMMA DroppedWithFrame ==
  ASSUME NEW r \in Registry, NEW a, NEW b, NEW f, NEW g, On(a, b, f), Holder(f), Fits(r, b, g)
  PROVE  Fits(r, a, g \cup {f.slot}) /\ Kept(r, b, r, a)
<1>1. /\ b[Len(b)] = f /\ Len(b) \in DOMAIN b /\ \A i \in DOMAIN b : i \in DOMAIN a \/ i = Len(b)
      /\ \A i \in DOMAIN a : i \in DOMAIN b /\ b[i] = a[i] /\ i # Len(b)
  BY OnFrames
<1>2. \A i \in DOMAIN a : Holder(a[i]) => a[i].slot # f.slot
  <2>1. \A i \in DOMAIN a : Holder(a[i]) /\ a[i].slot = f.slot => i = Len(b)
    BY <1>1 DEF Fits
  <2>2. QED
    BY <1>1, <2>1
<1>3. ASSUME NEW s \in DOMAIN r
      PROVE  r[s] = None <=> (s \in g \cup {f.slot} \/ \E i \in DOMAIN a : Holder(a[i]) /\ a[i].slot = s)
  <2>1. r[s] = None <=> (s \in g \/ \E i \in DOMAIN b : Holder(b[i]) /\ b[i].slot = s)
    BY <1>3 DEF Fits
  <2>2. (\E i \in DOMAIN b : Holder(b[i]) /\ b[i].slot = s)
          <=> (s = f.slot \/ \E i \in DOMAIN a : Holder(a[i]) /\ a[i].slot = s)
    BY <1>1
  <2>3. QED
    BY <2>1, <2>2
<1>4. /\ \A i \in DOMAIN a : Holder(a[i]) => a[i].slot \in DOMAIN r \ (g \cup {f.slot})
      /\ \A i, j \in DOMAIN a : Holder(a[i]) /\ Holder(a[j]) /\ a[i].slot = a[j].slot => i = j
  BY <1>1, <1>2 DEF Fits
<1>5. \A s \in Nat : \A t \in Types : Lives(r, a, s, t) => Lives(r, b, s, t)
  BY <1>1 DEF Lives
<1>6. QED
  BY <1>3, <1>4, <1>5 DEF Fits, Kept

\* A simulator that was swapped out of its slot is dropped.
LEMMA DroppedFromSlot ==
  ASSUME NEW r \in Registry, NEW a, NEW g, NEW s \in DOMAIN r, Fits(r, a, g), r[s] # None
  PROVE  /\ [r EXCEPT ![s] = None] \in Registry
         /\ Len([r EXCEPT ![s] = None]) = Len(r)
         /\ Fits([r EXCEPT ![s] = None], a, g \cup {s})
         /\ Kept(r, a, [r EXCEPT ![s] = None], a)
<1> DEFINE r2 == [r EXCEPT ![s] = None]
<1>1. DOMAIN r = 1 .. Len(r)
  BY LenProperties DEF Registry
<1>2. r2 \in Registry /\ Len(r2) = Len(r)
  BY <1>1, ExceptSeq DEF Registry
<1>3. /\ DOMAIN r2 = DOMAIN r /\ r2[s] = None
      /\ \A q \in DOMAIN r : q # s => r2[q] = r[q]
  OBVIOUS
<1> HIDE DEF r2
<1>4. \A i \in DOMAIN a : Holder(a[i]) => a[i].slot # s
  BY DEF Fits
<1>5. \A q \in DOMAIN r2 :
        r2[q] = None <=> (q \in g \cup {s} \/ \E i \in DOMAIN a : Holder(a[i]) /\ a[i].slot = q)
  BY <1>3, <1>4 DEF Fits
<1>6. Fits(r2, a, g \cup {s})
  BY <1>3, <1>4, <1>5 DEF Fits
<1>7. \A q \in Nat : \A t \in Types : Lives(r2, a, q, t) => Lives(r, a, q, t)
  BY <1>3, NoneAssumption DEF Lives
<1>8. QED
  BY <1>2, <1>6, <1>7 DEF Kept, r2

\* A simulator is registered.
LEMMA Grown ==
  ASSUME NEW r \in Registry, NEW a, NEW g, Fits(r, a, g), g = {}, NEW t \in Types
  PROVE  /\ Append(r, t) \in Registry /\ Len(Append(r, t)) = Len(r) + 1
         /\ Fits(Append(r, t), a, g)
         /\ \A s \in Nat : \A u \in Types :
              Lives(Append(r, t), a, s, u) => Lives(r, a, s, u) \/ (s = Len(r) + 1 /\ u = t)
<1> DEFINE r2 == Append(r, t)
<1>1. /\ r2 \in Registry /\ Len(r2) = Len(r) + 1 /\ r2[Len(r) + 1] = t
      /\ \A s \in 1 .. Len(r) : r2[s] = r[s]
  BY AppendProperties DEF Registry
<1>2. /\ Len(r) \in Nat /\ DOMAIN r = 1 .. Len(r) /\ DOMAIN r2 = 1 .. Len(r) + 1
  BY <1>1, LenProperties DEF Registry
<1> HIDE DEF r2
<1>3. PICK m : m = Len(r) + 1
  OBVIOUS
<1>4. /\ m \notin DOMAIN r /\ DOMAIN r2 = DOMAIN r \cup {m} /\ r2[m] = t
      /\ \A s \in DOMAIN r : r2[s] = r[s]
  BY <1>1, <1>2, <1>3
<1>5. \A i \in DOMAIN a : Holder(a[i]) => a[i].slot \in DOMAIN r
  BY DEF Fits
<1>6. ASSUME NEW s \in DOMAIN r2
      PROVE  r2[s] = None <=> (s \in g \/ \E i \in DOMAIN a : Holder(a[i]) /\ a[i].slot = s)
  <2>1. CASE s = m
    BY <1>4, <1>5, <2>1, NoneAssumption
  <2>2. CASE s # m
    BY <1>4, <2>2 DEF Fits
  <2>3. QED
    BY <2>1, <2>2
<1>7. Fits(r2, a, g)
  BY <1>4, <1>6 DEF Fits
<1>8. \A s \in Nat : \A u \in Types : Lives(r2, a, s, u) => Lives(r, a, s, u) \/ (s = m /\ u = t)
  BY <1>4 DEF Lives
<1>9. QED
  BY <1>1, <1>3, <1>7, <1>8 DEF r2

\* The last slot is taken off the list.
LEMMA Shrunk ==
  ASSUME NEW r \in Registry, r # <<>>, NEW g, Fits(r, <<>>, g)
  PROVE  /\ SubSeq(r, 1, Len(r) - 1) \in Registry
         /\ Len(r) \in Nat \ {0} /\ r[Len(r)] \in Types \cup {None}
         /\ Len(SubSeq(r, 1, Len(r) - 1)) = Len(r) - 1
         /\ Fits(SubSeq(r, 1, Len(r) - 1), <<>>, g)
         /\ Kept(r, <<>>, SubSeq(r, 1, Len(r) - 1), <<>>)
<1>1. Len(r) \in Nat /\ Len(r) > 0 /\ DOMAIN r = 1 .. Len(r)
  BY LenProperties, EmptySeq DEF Registry
<1>2. \A i \in 1 .. Len(r) : r[i] \in Types \cup {None}
  BY ElementOfSeq DEF Registry
<1>0. Len(r) - 1 \in Nat
  BY <1>1
<1>3. PICK n \in Nat : n = Len(r) - 1
  BY <1>0
<1> DEFINE r2 == SubSeq(r, 1, n)
<1>4. r2 \in Registry /\ Len(r2) = n /\ DOMAIN r2 = 1 .. n /\ \A i \in 1 .. n : r2[i] = r[i]
  <2>1. \A i \in 1 .. n : r[i] \in Types \cup {None}
    BY <1>1, <1>2, <1>3
  <2>2. /\ SubSeq(r, 1, n) \in Seq(Types \cup {None})
        /\ Len(SubSeq(r, 1, n)) = IF 1 <= n THEN n - 1 + 1 ELSE 0
        /\ \A i \in 1 .. n - 1 + 1 : SubSeq(r, 1, n)[i] = r[1 + i - 1]
    BY <2>1, SubSeqProperties
  <2>3. QED
    BY <2>2, LenProperties DEF Registry
<1> HIDE DEF r2
<1>5. \A i \in 1 .. n : i \in DOMAIN r
  BY <1>1, <1>3
<1>6. DOMAIN <<>> = {}
  BY EmptySeq, LenProperties
<1>7. Fits(r2, <<>>, g)
  BY <1>4, <1>5, <1>6 DEF Fits
<1>8. \A s \in Nat : \A t \in Types : Lives(r2, <<>>, s, t) => Lives(r, <<>>, s, t)
  BY <1>4, <1>5 DEF Lives
<1>9. QED
  BY <1>1, <1>2, <1>3, <1>4, <1>7, <1>8 DEF Kept, r2

\* A step that goes on, panics or ends.
Going == mode' \in {mode, "returned", "panicked", "aborted"} \/ (mode = "normal" /\ mode' = "unwinding")

\* What one step of a notification does, when reg are the slots and stk the stack.
Visited(reg, stk, op, s, n, len) ==
  /\ simulators' \in Registry /\ Len(simulators') = Len(reg)
  /\ Fits(simulators', stack', lost') /\ Kept(reg, stk, simulators', stack')
  /\ lost' \subseteq Nat
  /\ mode' = mode => lost' = lost
  /\ Going
  /\ \/ stack' = stk /\ (mode' = mode => s = 0 /\ Len(reg) = len)
     \/ \E t \in Types : /\ s \in DOMAIN reg /\ reg[s] = t
                         /\ Frame("call", op, t, s, n, len) \in FrameType
                         /\ On(stk, stack', Frame("call", op, t, s, n, len))
                         /\ mode' = mode /\ lost' = lost

LEMMA Visiting ==
  ASSUME NEW reg \in Registry, NEW stk \in Seq(FrameType), Fits(reg, stk, lost), lost \subseteq Nat,
         NEW op \in {"create", "stop", "start"}, NEW s \in 0 .. Len(reg), NEW n \in NodeIds,
         NEW len \in 0 .. Len(reg), mode \in {"normal", "cleanup"}, Visit(reg, stk, op, s, n, len)
  PROVE  Visited(reg, stk, op, s, n, len)
<1>1. DOMAIN reg = 1 .. Len(reg) /\ Len(reg) \in Nat /\ \A i \in 1 .. Len(reg) : reg[i] \in Types \cup {None}
  BY LenProperties, ElementOfSeq DEF Registry
<1>2. Fail => Going
  BY DEF Fail, Going
<1>9. UNCHANGED mode => Going
  BY DEF Going
<1>3. Fail => mode' # mode
  BY DEF Fail
<1>4. Kept(reg, stk, reg, stk)
  BY DEF Kept
<1>5. CASE s = 0 /\ simulators' = reg /\ stack' = stk /\ UNCHANGED lost
             /\ (IF Len(reg) = len THEN UNCHANGED mode ELSE Fail)
  BY <1>2, <1>3, <1>4, <1>5, <1>9 DEF Visited
<1>6. CASE s # 0 /\ simulators' = reg /\ stack' = stk /\ UNCHANGED lost /\ Fail
  BY <1>2, <1>3, <1>4, <1>6 DEF Visited
<1>7. CASE s # 0 /\ reg[s] # None /\ simulators' = [reg EXCEPT ![s] = None]
  <2>1. s \in DOMAIN reg /\ s \in Nat /\ reg[s] \in Types
    BY <1>1, <1>7
  <2>2. CASE stack' = stk /\ lost' = lost \cup {s} /\ Fail
    <3>1. /\ simulators' \in Registry /\ Len(simulators') = Len(reg)
          /\ Fits(simulators', stack', lost') /\ Kept(reg, stk, simulators', stack')
      BY <1>7, <2>1, <2>2, DroppedFromSlot
    <3>2. /\ lost' \subseteq Nat /\ stack' = stk /\ mode' # mode
          /\ Going
      BY <1>2, <1>3, <2>1, <2>2
    <3>3. QED
      BY <3>1, <3>2 DEF Visited
  <2>3. CASE stack' = Append(stk, Frame("call", op, reg[s], s, n, len)) /\ UNCHANGED <<mode, lost>>
    <3> DEFINE f == Frame("call", op, reg[s], s, n, len)
    <3>0. n \in Nat /\ len \in Nat
      BY <1>1 DEF NodeIds
    <3>1. f \in FrameType /\ Holder(f) /\ f.slot = s /\ f.sim = reg[s]
      BY <2>1, <3>0 DEF Frame, FrameType, Ops, Holder, UserKinds
    <3>2. On(stk, stack', f)
      BY <2>3, <3>1, Pushed
    <3>3. /\ simulators' \in Registry /\ Len(simulators') = Len(reg)
          /\ Fits(simulators', stack', lost') /\ Kept(reg, stk, simulators', stack')
      <4> HIDE DEF f
      <4>1. QED
        BY <1>7, <2>1, <2>3, <3>1, <3>2, TakenOut
    <3>4. \E t \in Types : /\ s \in DOMAIN reg /\ reg[s] = t
                          /\ Frame("call", op, t, s, n, len) \in FrameType
                          /\ On(stk, stack', Frame("call", op, t, s, n, len))
                          /\ mode' = mode /\ lost' = lost
      BY <2>1, <2>3, <3>1, <3>2
    <3>5. lost' \subseteq Nat /\ mode' = mode /\ lost' = lost
      BY <2>3
    <3> HIDE DEF f
    <3>6. QED
      BY <1>9, <3>3, <3>4, <3>5 DEF Visited
  <2>4. QED
    BY <1>7, <2>2, <2>3 DEF Visit
<1>8. QED
  BY <1>5, <1>6, <1>7 DEF Visit

-----------------------------------------------------------------------------
(* Types, stages, slots and the registry: the common part of most steps.   *)

BaseInv == SimTypes /\ StageExact /\ Fits(simulators, stack, lost) /\ Registered

\* A step that goes on in the same stage and registers nothing.
Ordinary ==
  /\ UNCHANGED <<simulators_by_type, refused, stage>>
  /\ nodes' \in NodeIds /\ level' \in [NodeIds -> RunLevels] /\ final' \in BOOLEAN
  /\ seen' \in [Types -> Seq(NodeIds)] /\ view' \in [Types -> SUBSET NodeIds]
  /\ overtaken' \subseteq NodeIds
  /\ final => final' /\ nodes' = nodes

\* The simulators move within the slots and frames that are there.
Moved ==
  /\ simulators' \in Registry /\ Len(simulators') = Len(simulators)
  /\ Fits(simulators', stack', lost') /\ Kept(simulators, stack, simulators', stack')
  /\ lost' \subseteq Nat
  /\ Going /\ (mode' = "normal" => lost' = lost)

\* stk is the stack or what is under its innermost frame.
Under(stk) == stk \in Seq(FrameType) /\ (stk = stack \/ (stack # <<>> /\ On(stk, stack, Top)))

LEMMA OnFirst ==
  ASSUME NEW a, NEW b, NEW f, On(a, b, f)
  PROVE  /\ a = <<>> => b[1] = f /\ Len(b) = 1
         /\ a # <<>> => b[1] = a[1] /\ 1 \in DOMAIN a
<1>1. Len(a) \in Nat /\ DOMAIN a = 1 .. Len(a) /\ Len(<<>>) = 0 /\ (a # <<>> => Len(a) > 0)
  BY LenProperties, EmptySeq DEF On
<1>2. QED
  BY <1>1 DEF On

LEMMA FrameStaysExact ==
  ASSUME SimTypes, final => final' /\ nodes' = nodes, Len(simulators) <= Len(simulators'),
         simulators' \in Registry, NEW f, FrameExact(f, final, nodes, Len(simulators))
  PROVE  FrameExact(f, final', nodes', Len(simulators'))
<1>1. Len(simulators) \in Nat /\ Len(simulators') \in Nat /\ (f.kind = "call" => f.len \in Nat)
  BY LenProperties DEF SimTypes, Registry, FrameExact, FrameType
<1>2. f.kind = "call" /\ f.len <= Len(simulators) => f.len <= Len(simulators')
  BY <1>1
<1>3. QED
  BY <1>2 DEF FrameExact, Holder

LEMMA TopFacts ==
  ASSUME SimTypes, stack # <<>>
  PROVE  /\ Top \in FrameType /\ FrameExact(Top, final, nodes, Len(simulators)) /\ Top = stack[Len(stack)]
         /\ Len(stack) \in DOMAIN stack /\ Len(stack) \in Nat \ {0}
         /\ On(Below, stack, Top) /\ Under(Below) /\ Below \in Seq(FrameType)
<1>1. stack \in Seq(FrameType)
  BY DEF SimTypes
<1>2. On(Below, stack, Top)
  BY <1>1, Popped DEF Below, Top
<1>3. Len(stack) \in DOMAIN stack /\ Len(stack) \in Nat \ {0}
  BY <1>2, OnFrames
<1>4. QED
  BY <1>2, <1>3 DEF SimTypes, Top, On, Under

\* Under a frame that is neither of the outermost kinds there is another one.
LEMMA InnerFrame ==
  ASSUME SimTypes, StageExact, stack # <<>>, Top.kind \notin {"base", "all", "drop"}
  PROVE  Below # <<>>
<1>1. On(Below, stack, Top)
  BY TopFacts
<1>2. stack[1].kind \in {"base", "all", "drop"}
  BY DEF StageExact, SimTypes
<1>3. QED
  BY <1>1, <1>2, OnFirst

\* The frames of a stack under which or on which frames come and go.
LEMMA FramesKept ==
  ASSUME SimTypes, StageExact, final => final' /\ nodes' = nodes,
         simulators' \in Registry, Len(simulators) <= Len(simulators'), NEW stk, Under(stk)
  PROVE  /\ \A i \in DOMAIN stk : FrameExact(stk[i], final', nodes', Len(simulators')) /\ (i > 1 => stk[i].kind \notin {"base", "drop"})
         /\ stk # <<>> => stack # <<>> /\ stk[1] = stack[1]
<1>1. CASE stk = stack
  <2>2. \A i \in DOMAIN stk : FrameExact(stk[i], final, nodes, Len(simulators))
    BY <1>1 DEF SimTypes
  <2>3. \A i \in DOMAIN stk : FrameExact(stk[i], final', nodes', Len(simulators'))
    BY <2>2, FrameStaysExact
  <2>4. QED
    BY <1>1, <2>3 DEF StageExact
<1>2. CASE stack # <<>> /\ On(stk, stack, Top)
  <2>2. \A i \in DOMAIN stk : i \in DOMAIN stack /\ stack[i] = stk[i]
    BY <1>2, OnFrames
  <2>3. \A i \in DOMAIN stk : FrameExact(stk[i], final, nodes, Len(simulators))
    BY <2>2 DEF SimTypes
  <2>4. \A i \in DOMAIN stk : FrameExact(stk[i], final', nodes', Len(simulators'))
    BY <2>3, FrameStaysExact
  <2>5. stk # <<>> => stk[1] = stack[1]
    BY <1>2, OnFirst
  <2>6. QED
    BY <1>2, <2>2, <2>4, <2>5 DEF StageExact
<1>3. QED
  BY <1>1, <1>2 DEF Under

\* An ordinary step keeps the registry.
LEMMA RegisteredKept ==
  ASSUME Registered, UNCHANGED <<simulators_by_type, refused>>, final => final',
         mode' = "normal" => mode = "normal", final' \/ Len(simulators') = Len(simulators),
         Kept(simulators, stack, simulators', stack')
  PROVE  Registered'
<1>1. ASSUME NEW t \in Types, NEW s \in Nat, Lives(simulators', stack', s, t)
      PROVE  /\ simulators_by_type[t] # 0
             /\ simulators_by_type[t] = s \/ t \in refused
             /\ \A r \in Nat : Lives(simulators', stack', r, t) => r = s
             /\ \A u \in Types : simulators_by_type[u] = s => u = t
  <2>1. Lives(simulators, stack, s, t)
    BY <1>1 DEF Kept
  <2>2. \A r \in Nat : Lives(simulators', stack', r, t) => Lives(simulators, stack, r, t)
    BY DEF Kept
  <2>3. QED
    BY <2>1, <2>2 DEF Registered
<1>2. QED
  BY <1>1 DEF Registered

\* A step that pops a frame, pushes one, or both.
LEMMA OrdinaryStep ==
  ASSUME BaseInv, Ordinary, Moved, NEW stk, Under(stk),
         stk = <<>> => stage # "stop" \/ mode' \notin {"normal", "cleanup"},
         \/ stack' = stk
         \/ /\ stk # <<>>
            /\ \E f \in FrameType : FrameExact(f, final', nodes', Len(simulators')) /\ f.kind \notin {"base", "drop"} /\ On(stk, stack', f)
  PROVE  BaseInv'
<1>1. SimTypes /\ StageExact /\ Registered
  BY DEF BaseInv
<1>0. Len(simulators) <= Len(simulators')
  BY <1>1, LenProperties DEF Moved, Registry
<1>2. /\ \A i \in DOMAIN stk : FrameExact(stk[i], final', nodes', Len(simulators')) /\ (i > 1 => stk[i].kind \notin {"base", "drop"})
      /\ stk # <<>> => stack # <<>> /\ stk[1] = stack[1]
  BY <1>0, <1>1, FramesKept DEF Moved, Ordinary
<1>3. /\ stack' \in Seq(FrameType)
      /\ \A i \in DOMAIN stack' : FrameExact(stack'[i], final', nodes', Len(simulators')) /\ (i > 1 => stack'[i].kind \notin {"base", "drop"})
      /\ stack' # <<>> => stack # <<>> /\ stack'[1] = stack[1]
      /\ stk # <<>> => stack' # <<>>
  <2>1. CASE stack' = stk
    BY <1>2, <2>1 DEF Under
  <2>2. ASSUME stk # <<>>, NEW f \in FrameType, FrameExact(f, final', nodes', Len(simulators')), f.kind \notin {"base", "drop"},
               On(stk, stack', f)
        PROVE  <1>3
    <3>1. /\ \A i \in DOMAIN stack' : i \in DOMAIN stk \/ i = Len(stack')
          /\ \A i \in DOMAIN stk : stack'[i] = stk[i]
          /\ stack'[Len(stack')] = f /\ stack' # <<>>
      BY <2>2, OnFrames
    <3>2. stack'[1] = stk[1]
      BY <2>2, OnFirst
    <3>3. QED
      BY <1>2, <2>2, <3>1, <3>2 DEF On
  <2>3. QED
    BY <2>1, <2>2
<1>4. mode' \in Modes /\ (mode' = "normal" => mode = "normal") /\ (mode' = "cleanup" => mode = "cleanup")
  BY <1>1 DEF SimTypes, Moved, Going, Modes
<1>5. SimTypes'
  BY <1>1, <1>3, <1>4 DEF SimTypes, Ordinary, Moved, Registry
<1>6. StageExact'
  <2>1. stack' # <<>> => stack'[1].kind = (CASE stage' = "run" -> "base" [] stage' = "stop" -> "all"
                                             [] stage' = "pop" -> "drop")
    BY <1>1, <1>3 DEF StageExact, Ordinary
  <2>2. /\ stage' # "run" => final'
        /\ mode' = "cleanup" => stage' # "run"
        /\ mode' = "normal" => lost' = {}
    BY <1>1, <1>4 DEF StageExact, Ordinary, Moved
  <2>3. stage' = "stop" /\ Active' => stack' # <<>>
    BY <1>3 DEF Ordinary, Active
  <2>4. QED
    BY <1>3, <2>1, <2>2, <2>3 DEF StageExact
<1>7. Registered'
  BY <1>1, <1>4, RegisteredKept DEF Moved, Ordinary
<1>8. QED
  BY <1>5, <1>6, <1>7 DEF BaseInv, Moved

-----------------------------------------------------------------------------
(* The steps that move simulators or frames.                               *)

\* A step that changes nothing but perhaps the mode.
LEMMA QuietMoves ==
  ASSUME BaseInv, Going, UNCHANGED <<simulators, stack, lost>>
  PROVE  Moved /\ Under(stack)
BY DEF BaseInv, SimTypes, Moved, Kept, Registry, Under

LEMMA PlainPush ==
  ASSUME BaseInv, UNCHANGED <<simulators, lost, mode>>, NEW f \in FrameType, ~Holder(f),
         stack' = Append(stack, f)
  PROVE  Moved /\ On(stack, stack', f) /\ Under(stack)
<1>1. On(stack, stack', f)
  BY Pushed DEF BaseInv, SimTypes
<1>2. Fits(simulators, stack', lost) /\ Kept(simulators, stack, simulators, stack')
  BY <1>1, PlainFrame DEF BaseInv, Kept
<1>3. QED
  BY <1>1, <1>2 DEF BaseInv, SimTypes, Moved, Going, Registry, Under

LEMMA PlainPop ==
  ASSUME BaseInv, UNCHANGED <<simulators, lost, mode>>, stack # <<>>, ~Holder(Top), stack' = Below
  PROVE  Moved /\ On(Below, stack, Top) /\ Under(Below)
<1>1. On(Below, stack, Top) /\ Under(Below)
  BY TopFacts DEF BaseInv
<1>2. Fits(simulators, Below, lost) /\ Kept(simulators, stack, simulators, Below)
  BY <1>1, PlainFrame DEF BaseInv, Kept
<1>3. QED
  BY <1>1, <1>2 DEF BaseInv, SimTypes, Moved, Going, Registry

LEMMA WithMoves ==
  ASSUME BaseInv, NEW t \in Types, Available(t),
         simulators' = [simulators EXCEPT ![simulators_by_type[t]] = None],
         stack' = Append(stack, UserFrame("with", t, simulators_by_type[t], 0)),
         UNCHANGED <<mode, lost>>
  PROVE  /\ Moved /\ Under(stack)
         /\ UserFrame("with", t, simulators_by_type[t], 0) \in FrameType
         /\ On(stack, stack', UserFrame("with", t, simulators_by_type[t], 0))
<1> DEFINE s == simulators_by_type[t]
<1> DEFINE f == UserFrame("with", t, s, 0)
<1>1. /\ simulators \in Registry /\ stack \in Seq(FrameType) /\ Fits(simulators, stack, lost)
      /\ s \in Nat /\ s \in DOMAIN simulators /\ simulators[s] # None /\ lost \subseteq Nat
  BY DEF BaseInv, SimTypes, Registry, Available, Slots
<1>2. simulators[s] = t
  <2>1. simulators[s] \in Types
    BY <1>1, LenProperties, ElementOfSeq DEF Registry
  <2>2. Lives(simulators, stack, s, simulators[s])
    BY <1>1 DEF Lives
  <2>3. QED
    BY <1>1, <2>1, <2>2 DEF BaseInv, Registered
<1>3. f \in FrameType /\ Holder(f) /\ f.slot = s /\ f.sim = t
  BY <1>1 DEF UserFrame, Frame, FrameType, Ops, Holder, UserKinds
<1>4. On(stack, stack', f)
  BY <1>1, <1>3, Pushed
<1> HIDE DEF f
<1>5. f.slot \in DOMAIN simulators /\ simulators[f.slot] = f.sim /\ f.sim # None
  BY <1>1, <1>2, <1>3
<1>6. /\ simulators' \in Registry /\ Len(simulators') = Len(simulators)
      /\ Fits(simulators', stack', lost) /\ Kept(simulators, stack, simulators', stack')
  <2>1. simulators' = [simulators EXCEPT ![f.slot] = None]
    BY <1>3
  <2>2. PICK stk : stk = stack'
    OBVIOUS
  <2>3. /\ [simulators EXCEPT ![f.slot] = None] \in Registry
        /\ Len([simulators EXCEPT ![f.slot] = None]) = Len(simulators)
        /\ Fits([simulators EXCEPT ![f.slot] = None], stk, lost)
        /\ Kept(simulators, stack, [simulators EXCEPT ![f.slot] = None], stk)
    BY <1>1, <1>3, <1>4, <1>5, <2>2, TakenOut
  <2>4. QED
    BY <2>1, <2>2, <2>3
<1>7. Moved /\ Under(stack)
  BY <1>1, <1>6 DEF Moved, Going, Under
<1>8. QED
  BY <1>3, <1>4, <1>7 DEF f

\* The innermost frame puts its simulator back.
LEMMA PutBackMoves ==
  ASSUME BaseInv, stack # <<>>, Holder(Top)
  PROVE  /\ On(Below, stack, Top) /\ Under(Below) /\ Top.slot \in DOMAIN simulators /\ Top.sim \in Types
         /\ [simulators EXCEPT ![Top.slot] = Top.sim] \in Registry
         /\ Len([simulators EXCEPT ![Top.slot] = Top.sim]) = Len(simulators)
         /\ Fits([simulators EXCEPT ![Top.slot] = Top.sim], Below, lost)
         /\ Kept(simulators, stack, [simulators EXCEPT ![Top.slot] = Top.sim], Below)
<1>1. On(Below, stack, Top) /\ Under(Below) /\ FrameExact(Top, final, nodes, Len(simulators))
  BY TopFacts DEF BaseInv
<1>2. Top.sim \in Types
  BY <1>1 DEF FrameExact
<1>3. simulators \in Registry /\ Fits(simulators, stack, lost)
  BY DEF BaseInv, SimTypes, Registry
<1>4. QED
  BY <1>1, <1>2, <1>3, PutIn

LEMMA WithReturnMoves ==
  ASSUME BaseInv, stack # <<>>, Top.kind = "with", PutBack, stack' = Below, UNCHANGED <<mode, lost>>
  PROVE  Moved /\ On(Below, stack, Top) /\ Under(Below)
<1>1. Holder(Top)
  BY DEF Holder
<1>2. QED
  BY <1>1, PutBackMoves DEF BaseInv, SimTypes, Moved, Going, PutBack

LEMMA UnwindMoves ==
  ASSUME BaseInv, Unwind
  PROVE  Moved /\ On(Below, stack, Top) /\ Under(Below)
<1>1. stack # <<>> /\ stack' = Below /\ mode' = mode /\ mode = "unwinding"
  BY DEF Unwind
<1>2. On(Below, stack, Top) /\ Under(Below) /\ Top.slot \in Nat
  BY <1>1, TopFacts DEF BaseInv, FrameType
<1>3. CASE Top.kind = "with"
  BY <1>1, <1>2, <1>3, WithReturnMoves DEF Unwind
<1>4. CASE Top.kind = "call"
  <2>1. Holder(Top) /\ UNCHANGED simulators /\ lost' = lost \cup {Top.slot}
    BY <1>4 DEF Holder, Unwind
  <2>2. Fits(simulators, Below, lost') /\ Kept(simulators, stack, simulators, Below)
    BY <1>2, <2>1, DroppedWithFrame DEF BaseInv, SimTypes, Registry
  <2>3. QED
    BY <1>1, <1>2, <2>1, <2>2 DEF BaseInv, SimTypes, Moved, Going, Registry
<1>5. CASE Top.kind \notin {"with", "call"}
  <2>1. ~Holder(Top) /\ UNCHANGED <<simulators, lost>>
    BY <1>5 DEF Holder, Unwind
  <2>2. QED
    BY <1>1, <2>1, PlainPop
<1>6. QED
  BY <1>3, <1>4, <1>5

\* A notification begins when the stack is stk.
LEMMA NotifyMoves ==
  ASSUME BaseInv, mode \in {"normal", "cleanup"}, NEW stk, Under(stk), stk = stack \/ ~Holder(Top),
         NEW op \in {"create", "stop", "start"}, NEW n \in NodeIds, Notify(stk, op, n)
  PROVE  /\ Visited(simulators, stk, op, FirstSlot(op, Len(simulators)), n, Len(simulators))
         /\ Moved /\ Fits(simulators, stk, lost)
         /\ FirstSlot(op, Len(simulators)) \in 0 .. Len(simulators)
<1>1. simulators \in Registry /\ lost \subseteq Nat /\ stk \in Seq(FrameType) /\ Len(simulators) \in Nat
  BY LenProperties DEF BaseInv, SimTypes, Registry, Under
<1>2. FirstSlot(op, Len(simulators)) \in 0 .. Len(simulators) /\ Len(simulators) \in 0 .. Len(simulators)
  BY <1>1 DEF FirstSlot
<1>3. Fits(simulators, stk, lost) /\ Kept(simulators, stack, simulators, stk)
  BY PlainFrame DEF BaseInv, Under, Kept
<1>4. Visited(simulators, stk, op, FirstSlot(op, Len(simulators)), n, Len(simulators))
  BY <1>1, <1>2, <1>3, Visiting DEF Notify
<1>5. Kept(simulators, stack, simulators', stack')
  BY <1>3, <1>4, KeptTransitive DEF Visited
<1>6. Moved
  BY <1>4, <1>5 DEF Moved, Visited, Going
<1>7. QED
  BY <1>2, <1>3, <1>4, <1>6

Swapped == [simulators EXCEPT ![Top.slot] = Top.sim]

LEMMA CallReturnMoves ==
  ASSUME BaseInv, CallReturn
  PROVE  /\ Visited(Swapped, Below, Top.op, NextSlot(Top.op, Top.slot, Top.len), Top.node, Top.len)
         /\ Moved /\ Fits(Swapped, Below, lost) /\ Under(Below) /\ On(Below, stack, Top)
         /\ Swapped \in Registry /\ Len(Swapped) = Len(simulators)
         /\ Top.slot \in DOMAIN simulators /\ Top.op \in {"create", "stop", "start"}
         /\ Top.sim \in Types /\ Top.node \in NodeIds /\ Kept(simulators, stack, Swapped, Below)
         /\ Top.slot \in 1 .. Len(simulators) /\ Top.len \in Nat /\ Top.len <= Len(simulators)
<1>1. stack # <<>> /\ Top.kind = "call" /\ Holder(Top) /\ mode \in {"normal", "cleanup"}
  BY DEF CallReturn, UserCode, Active, Holder
<1>2. /\ On(Below, stack, Top) /\ Under(Below) /\ Top.slot \in DOMAIN simulators /\ Top.sim \in Types
      /\ Swapped \in Registry /\ Len(Swapped) = Len(simulators)
      /\ Fits(Swapped, Below, lost) /\ Kept(simulators, stack, Swapped, Below)
  BY <1>1, PutBackMoves DEF Swapped
<1>3. /\ Top.op \in {"create", "stop", "start"} /\ Top.node \in NodeIds
      /\ Top.len \in Nat /\ Top.len <= Len(simulators)
  <2>1. Top \in FrameType /\ FrameExact(Top, final, nodes, Len(simulators))
    BY <1>1, TopFacts DEF BaseInv
  <2>2. QED
    BY <1>1, <2>1 DEF FrameExact, FrameType, Ops
<1>4. Len(simulators) \in Nat /\ Top.slot \in 1 .. Len(simulators) /\ lost \subseteq Nat
  BY <1>2, LenProperties DEF BaseInv, SimTypes
<1>5. /\ NextSlot(Top.op, Top.slot, Top.len) \in 0 .. Len(simulators)
      /\ Top.len \in 0 .. Len(simulators)
  BY <1>3, <1>4 DEF NextSlot
<1>6. Visit(Swapped, Below, Top.op, NextSlot(Top.op, Top.slot, Top.len), Top.node, Top.len)
  BY DEF CallReturn, Swapped
<1>7. Visited(Swapped, Below, Top.op, NextSlot(Top.op, Top.slot, Top.len), Top.node, Top.len)
  <2>1. Below \in Seq(FrameType)
    BY <1>2 DEF Under
  <2>2. PICK s \in 0 .. Len(simulators) : s = NextSlot(Top.op, Top.slot, Top.len)
    BY <1>5
  <2>3. QED
    BY <1>1, <1>2, <1>3, <1>4, <1>5, <1>6, <2>1, <2>2, Visiting
<1>8. Kept(simulators, stack, simulators', stack')
  BY <1>2, <1>7, KeptTransitive DEF Visited
<1>9. Moved
  BY <1>2, <1>7, <1>8 DEF Moved, Visited, Going
<1>10. QED
  BY <1>2, <1>3, <1>4, <1>7, <1>9

-----------------------------------------------------------------------------
(* Every step keeps the types, the stages, the slots and the registry.     *)

\* Simulators live in slots that were not emptied by a panic.
LEMMA LivesInSlots ==
  ASSUME NEW r, NEW stk, NEW g, Fits(r, stk, g), NEW s, NEW t \in Types, Lives(r, stk, s, t)
  PROVE  s \in DOMAIN r \ g
<1>1. CASE s \in DOMAIN r /\ r[s] = t
  BY <1>1, NoneAssumption DEF Fits
<1>2. CASE \E i \in DOMAIN stk : Holder(stk[i]) /\ stk[i].slot = s /\ stk[i].sim = t
  BY <1>2 DEF Fits
<1>3. QED
  BY <1>1, <1>2 DEF Lives

\* At most the mode changes.
Quiet ==
  /\ UNCHANGED <<simulators, simulators_by_type, nodes, level, final, seen, view, stack, stage,
                 lost, refused, overtaken>>
  /\ Going

LEMMA FailGoes ==
  ASSUME Fail
  PROVE  Going /\ mode' # "normal" /\ mode' # "cleanup"
BY DEF Fail, Going

LEMMA QuietBase ==
  ASSUME BaseInv, Quiet
  PROVE  BaseInv'
<1>1. Moved /\ Under(stack) /\ stack' = stack
  BY QuietMoves DEF Quiet
<1>2. Ordinary
  BY DEF Quiet, Ordinary, BaseInv, SimTypes
<1>3. stack = <<>> => stage # "stop" \/ mode' \notin {"normal", "cleanup"}
  BY DEF Quiet, Going, BaseInv, StageExact, Active
<1>4. QED
  BY <1>1, <1>2, <1>3, OrdinaryStep

LEMMA AddBase ==
  ASSUME BaseInv, NEW t \in Types, Add(t)
  PROVE  BaseInv'
<1>1. CASE ~(nodes = 1 /\ ~final)
  <2>1. Quiet
    BY <1>1, FailGoes DEF Add, Quiet, regVars, nodeVars
  <2>2. QED
    BY <2>1, QuietBase
<1> SUFFICES ASSUME nodes = 1, ~final
             PROVE  BaseInv'
  BY <1>1
<1>2. /\ SimTypes /\ StageExact /\ Registered /\ Fits(simulators, stack, lost)
      /\ simulators \in Registry /\ Len(simulators) \in Nat /\ DOMAIN simulators = 1 .. Len(simulators)
  BY LenProperties DEF BaseInv, SimTypes, Registry
<1>3. mode = "normal" /\ lost = {} /\ stage = "run" /\ stack # <<>>
  BY <1>2 DEF Add, UserCode, Active, StageExact, SimTypes
<1>4. /\ simulators_by_type' = [simulators_by_type EXCEPT ![t] = Len(simulators) + 1]
      /\ UNCHANGED <<nodes, level, final, stack, stage, lost, overtaken>>
  BY DEF Add, nodeVars
<1>5. /\ simulators_by_type' \in [Types -> Nat] /\ simulators_by_type'[t] = Len(simulators) + 1
      /\ \A u \in Types : u # t => simulators_by_type'[u] = simulators_by_type[u]
  BY <1>2, <1>4 DEF SimTypes
<1>6. \A u \in Types : simulators_by_type[u] \in Nat /\ simulators_by_type[u] <= Len(simulators)
  BY <1>2, <1>3 DEF Registered, SimTypes
<1>7. \A s \in Nat : \A u \in Types : Lives(simulators, stack, s, u) => s \in 1 .. Len(simulators)
  BY <1>2, LivesInSlots
<1>8. CASE simulators_by_type[t] = 0
  <2>1. /\ simulators' = Append(simulators, t) /\ UNCHANGED <<mode, refused>>
        /\ seen' = [seen EXCEPT ![t] = <<INIT>>] /\ view' = [view EXCEPT ![t] = Running]
    BY <1>8 DEF Add
  <2>2. /\ simulators' \in Registry /\ Len(simulators') = Len(simulators) + 1
        /\ Fits(simulators', stack, lost)
        /\ \A s \in Nat : \A u \in Types :
             Lives(simulators', stack, s, u) =>
               Lives(simulators, stack, s, u) \/ (s = Len(simulators) + 1 /\ u = t)
    BY <1>2, <1>3, <2>1, Grown
  <2>3. \A i \in DOMAIN stack : FrameExact(stack[i], final', nodes', Len(simulators'))
    <3>1. Under(stack) /\ Len(simulators) <= Len(simulators')
      BY <1>2, <2>2 DEF Under, SimTypes
    <3>2. QED
      BY <1>2, <1>4, <2>2, <3>1, FramesKept
  <2>4. seen' \in [Types -> Seq(NodeIds)] /\ view' \in [Types -> SUBSET NodeIds]
    <3>1. INIT \in NodeIds /\ Running \subseteq NodeIds
      BY <1>2, SimulatorsAssumption DEF INIT, NodeIds, Running, SimTypes
    <3>2. <<INIT>> \in Seq(NodeIds)
      BY <3>1
    <3>3. QED
      BY <1>2, <2>1, <3>1, <3>2 DEF SimTypes
  <2>5. SimTypes'
    BY <1>2, <1>4, <1>5, <2>1, <2>2, <2>3, <2>4 DEF SimTypes, Registry
  <2>6. StageExact'
    BY <1>2, <1>3, <1>4, <2>1 DEF StageExact, Active
  <2>7. Registered'
    <3>1. ASSUME NEW u \in Types, NEW s \in Nat, Lives(simulators', stack', s, u)
          PROVE  /\ simulators_by_type'[u] # 0
                 /\ simulators_by_type'[u] = s \/ u \in refused'
                 /\ \A r \in Nat : Lives(simulators', stack', r, u) => r = s
                 /\ \A v \in Types : simulators_by_type'[v] = s => v = u
      <4>1. CASE Lives(simulators, stack, s, u)
        <5>1. /\ u # t /\ s \in 1 .. Len(simulators)
              /\ simulators_by_type[u] = s \/ u \in refused
              /\ \A r \in Nat : Lives(simulators, stack, r, u) => r = s
              /\ \A v \in Types : simulators_by_type[v] = s => v = u
          BY <1>2, <1>7, <1>8, <4>1 DEF Registered
        <5>2. simulators_by_type[u] # 0
          BY <1>2, <4>1 DEF Registered
        <5>3. s # Len(simulators) + 1
          BY <1>2, <5>1
        <5>4. QED
          BY <1>4, <1>5, <2>1, <2>2, <5>1, <5>2, <5>3
      <4>2. CASE s = Len(simulators) + 1 /\ u = t
        <5>1. \A r \in Nat : ~Lives(simulators, stack, r, t)
          BY <1>2, <1>8 DEF Registered
        <5>2. \A v \in Types : simulators_by_type[v] # s
          BY <1>2, <1>6, <4>2
        <5>3. QED
          BY <1>2, <1>4, <1>5, <2>2, <4>2, <5>1, <5>2
      <4>3. QED
        BY <1>4, <2>2, <3>1, <4>1, <4>2
    <3>2. \A u \in Types : simulators_by_type'[u] <= Len(simulators')
      BY <1>2, <1>5, <1>6, <2>2
    <3>3. QED
      BY <3>1, <3>2 DEF Registered
  <2>8. QED
    BY <1>4, <2>2, <2>5, <2>6, <2>7 DEF BaseInv
<1>9. CASE simulators_by_type[t] # 0
  <2>1. /\ Fail /\ refused' = refused \cup {t} /\ UNCHANGED <<simulators, seen, view>>
        /\ mode' = "unwinding"
    BY <1>3, <1>9 DEF Add, Fail
  <2>2. SimTypes'
    BY <1>2, <1>4, <1>5, <2>1 DEF SimTypes, Modes
  <2>3. StageExact'
    BY <1>2, <1>4, <2>1 DEF StageExact, Active
  <2>4. ASSUME NEW u \in Types, NEW s \in Nat, Lives(simulators, stack, s, u)
        PROVE  /\ simulators_by_type'[u] # 0
               /\ simulators_by_type'[u] = s \/ u \in refused'
               /\ \A r \in Nat : Lives(simulators, stack, r, u) => r = s
               /\ \A v \in Types : simulators_by_type'[v] = s => v = u
    <3>1. /\ simulators_by_type[u] # 0
          /\ \A r \in Nat : Lives(simulators, stack, r, u) => r = s
          /\ \A v \in Types : simulators_by_type[v] = s => v = u
      BY <1>2, <2>4 DEF Registered
    <3>2. simulators_by_type[u] = s \/ u \in refused
      BY <1>2, <2>4 DEF Registered
    <3>3. Len(simulators) + 1 # 0 /\ s # Len(simulators) + 1
      BY <1>2, <1>7, <2>4
    <3>4. QED
      BY <1>5, <2>1, <3>1, <3>2, <3>3
  <2>5. Registered'
    BY <1>4, <2>1, <2>4 DEF Registered
  <2>6. QED
    BY <1>2, <1>4, <2>1, <2>2, <2>3, <2>5 DEF BaseInv
<1>10. QED
  BY <1>8, <1>9

LEMMA WithBase ==
  ASSUME BaseInv, NEW t \in Types, With(t)
  PROVE  BaseInv'
<1>1. CASE Available(t)
  <2>1. /\ simulators' = [simulators EXCEPT ![simulators_by_type[t]] = None]
        /\ stack' = Append(stack, UserFrame("with", t, simulators_by_type[t], 0))
        /\ UNCHANGED <<mode, lost>> /\ stack # <<>>
    BY <1>1 DEF With, histVars, UserCode
  <2>2. Ordinary
    BY DEF With, Ordinary, BaseInv, SimTypes, nodeVars, histVars
  <2>3. PICK f : f = UserFrame("with", t, simulators_by_type[t], 0)
    OBVIOUS
  <2>4. Moved /\ Under(stack) /\ f \in FrameType /\ On(stack, stack', f)
    BY <1>1, <2>1, <2>3, WithMoves
  <2>5. FrameExact(f, final', nodes', Len(simulators')) /\ f.kind = "with"
    BY <2>3, <2>4 DEF FrameExact, UserFrame, Frame
  <2>6. QED
    BY <2>1, <2>2, <2>4, <2>5, OrdinaryStep
<1>2. CASE ~Available(t)
  <2>1. Quiet
    BY <1>2, FailGoes DEF With, Quiet, regVars, nodeVars, histVars
  <2>2. QED
    BY <2>1, QuietBase
<1>3. QED
  BY <1>1, <1>2

LEMMA WithReturnBase ==
  ASSUME BaseInv, WithReturn
  PROVE  BaseInv'
<1>1. stack # <<>> /\ Top.kind = "with" /\ PutBack /\ stack' = Below /\ UNCHANGED <<mode, lost>>
  BY DEF WithReturn, UserCode, histVars
<1>2. Moved /\ Under(Below)
  BY <1>1, WithReturnMoves
<1>3. Ordinary
  BY DEF WithReturn, Ordinary, BaseInv, SimTypes, nodeVars, histVars
<1>4. Below # <<>>
  BY <1>1, InnerFrame DEF BaseInv
<1>5. QED
  BY <1>1, <1>2, <1>3, <1>4, OrdinaryStep

\* The frame that a notification pushes.
LEMMA VisitedFrame ==
  ASSUME NEW reg, NEW stk, NEW op \in {"create", "stop", "start"}, NEW s, NEW n \in NodeIds, NEW len,
         NEW fin, NEW m, NEW k, len <= k, Visited(reg, stk, op, s, n, len)
  PROVE  \/ stack' = stk
         \/ \E f \in FrameType : FrameExact(f, fin, m, k) /\ f.kind \notin {"base", "drop"} /\ On(stk, stack', f)
<1>1. ASSUME NEW t \in Types, Frame("call", op, t, s, n, len) \in FrameType
      PROVE  LET f == Frame("call", op, t, s, n, len)
             IN  FrameExact(f, fin, m, k) /\ f.kind \notin {"base", "drop"}
  BY <1>1 DEF Frame, FrameExact
<1>2. QED
  BY <1>1 DEF Visited

LEMMA CallReturnBase ==
  ASSUME BaseInv, CallReturn
  PROVE  BaseInv'
<1>1. stack # <<>> /\ Top.kind = "call"
  BY DEF CallReturn, UserCode
<1>2. /\ Visited(Swapped, Below, Top.op, NextSlot(Top.op, Top.slot, Top.len), Top.node, Top.len)
      /\ Moved /\ Under(Below) /\ Top.op \in {"create", "stop", "start"} /\ Top.node \in NodeIds
      /\ Top.sim \in Types /\ Top.len <= Len(simulators)
  BY CallReturnMoves
<1>3. Below # <<>>
  BY <1>1, InnerFrame DEF BaseInv
<1>4. seen' \in [Types -> Seq(NodeIds)] /\ view' \in [Types -> SUBSET NodeIds]
  <2>1. seen \in [Types -> Seq(NodeIds)] /\ view \in [Types -> SUBSET NodeIds]
    BY DEF BaseInv, SimTypes
  <2>2. Append(seen[Top.sim], Top.node) \in Seq(NodeIds)
    BY <1>2, <2>1, AppendProperties
  <2>3. /\ view[Top.sim] \ {Top.node} \in SUBSET NodeIds
        /\ view[Top.sim] \cup {Top.node} \in SUBSET NodeIds
    BY <1>2, <2>1
  <2>4. seen' = IF Top.op = "create" THEN [seen EXCEPT ![Top.sim] = Append(seen[Top.sim], Top.node)] ELSE seen
    BY DEF CallReturn, Hear
  <2>5. view' = [view EXCEPT ![Top.sim] = IF Top.op = "stop" THEN view[Top.sim] \ {Top.node}
                                             ELSE view[Top.sim] \cup {Top.node}]
    BY DEF CallReturn, Hear
  <2>6. QED
    BY <1>2, <2>1, <2>2, <2>3, <2>4, <2>5
<1>5. Ordinary
  BY <1>4 DEF CallReturn, Ordinary, BaseInv, SimTypes, nodeVars
<1>6. \/ stack' = Below
      \/ \E f \in FrameType : /\ FrameExact(f, final', nodes', Len(simulators'))
                              /\ f.kind \notin {"base", "drop"} /\ On(Below, stack', f)
  <2>1. Top.len <= Len(simulators')
    BY <1>2 DEF Moved
  <2>2. QED
    BY <1>2, <2>1, VisitedFrame
<1>7. QED
  BY <1>2, <1>3, <1>5, <1>6, OrdinaryStep

\* A notification begins.
LEMMA NotifyBase ==
  ASSUME BaseInv, mode \in {"normal", "cleanup"}, NEW stk, Under(stk), stk = stack \/ ~Holder(Top), stk # <<>>,
         NEW op \in {"create", "stop", "start"}, NEW n \in NodeIds, Notify(stk, op, n), Ordinary
  PROVE  BaseInv'
<1>1. /\ Visited(simulators, stk, op, FirstSlot(op, Len(simulators)), n, Len(simulators))
      /\ Moved
  BY NotifyMoves
<1>2. Len(simulators) <= Len(simulators')
  BY <1>1, LenProperties DEF Moved, Registry
<1>3. \/ stack' = stk
      \/ \E f \in FrameType : /\ FrameExact(f, final', nodes', Len(simulators'))
                              /\ f.kind \notin {"base", "drop"} /\ On(stk, stack', f)
  BY <1>1, <1>2, VisitedFrame
<1>4. QED
  BY <1>1, <1>3, OrdinaryStep

LEMMA CreateNodeBase ==
  ASSUME BaseInv, CreateNode
  PROVE  BaseInv'
<1>1. stack # <<>> /\ mode \in {"normal", "cleanup"} /\ Under(stack) /\ nodes + 1 \in NodeIds
  BY SimulatorsAssumption DEF CreateNode, UserCode, Active, Under, BaseInv, SimTypes, NodeIds
<1>2. CASE final
  <2>1. Quiet
    BY <1>2, FailGoes DEF CreateNode, Quiet
  <2>2. QED
    BY <2>1, QuietBase
<1>3. CASE ~final
  <2>1. nodes' = nodes + 1 /\ Notify(stack, "create", nodes + 1)
    BY <1>3 DEF CreateNode
  <2>2. Ordinary
    BY <1>1, <1>3, <2>1 DEF CreateNode, Ordinary, BaseInv, SimTypes
  <2>3. QED
    BY <1>1, <2>1, <2>2, NotifyBase
<1>4. QED
  BY <1>2, <1>3

LEMMA StopReturnBase ==
  ASSUME BaseInv, StopReturn
  PROVE  BaseInv'
<1>1. stack # <<>> /\ Top.kind = "stop" /\ mode \in {"normal", "cleanup"} /\ Notify(Below, "stop", Top.node)
  BY DEF StopReturn, UserCode, Active
<1>2. ~Holder(Top) /\ Under(Below) /\ Top.node \in NodeIds
  BY <1>1, TopFacts DEF Holder, BaseInv, FrameExact
<1>3. Below # <<>>
  BY <1>1, InnerFrame DEF BaseInv
<1>4. Ordinary
  BY DEF StopReturn, Ordinary, BaseInv, SimTypes, nodeVars
<1>5. QED
  BY <1>1, <1>2, <1>3, <1>4, NotifyBase

LEMMA StartNodeBase ==
  ASSUME BaseInv, NEW n \in NodeIds, StartNode(n)
  PROVE  BaseInv'
<1>1. stack # <<>> /\ mode \in {"normal", "cleanup"} /\ Under(stack)
  BY DEF StartNode, UserCode, Active, Under, BaseInv, SimTypes
<1>2. CASE level[n] = "FinalStopped"
  <2>1. Quiet
    BY <1>2, FailGoes DEF StartNode, Quiet
  <2>2. QED
    BY <2>1, QuietBase
<1>3. CASE level[n] # "FinalStopped"
  <2>1. /\ level' = [level EXCEPT ![n] = "Running"] /\ Notify(stack, "start", n)
        /\ overtaken' = IF Stopping(n) THEN overtaken \cup {n} ELSE overtaken
    BY <1>3 DEF StartNode
  <2>2. level' \in [NodeIds -> RunLevels] /\ overtaken' \subseteq NodeIds
    BY <2>1 DEF BaseInv, SimTypes, RunLevels
  <2>3. Ordinary
    BY <2>2 DEF StartNode, Ordinary, BaseInv, SimTypes
  <2>4. QED
    BY <1>1, <2>1, <2>3, NotifyBase
<1>4. QED
  BY <1>2, <1>3

LEMMA StopNodeBase ==
  ASSUME BaseInv, NEW n \in NodeIds, StopNode(n)
  PROVE  BaseInv'
<1>1. PICK f : f = UserFrame("stop", None, 0, n)
  OBVIOUS
<1>0. n \in Nat
  BY DEF NodeIds
<1>2. /\ f \in FrameType /\ ~Holder(f) /\ f.kind = "stop" /\ FrameExact(f, final', nodes', Len(simulators'))
  <2>1. f \in FrameType /\ f.kind = "stop" /\ f.node = n
    BY <1>0, <1>1 DEF UserFrame, Frame, FrameType, Ops, UserKinds
  <2>2. QED
    BY <2>1 DEF Holder, FrameExact
<1>3. stack # <<>> /\ stack' = Append(stack, f) /\ UNCHANGED <<simulators, lost, mode>>
  BY <1>1 DEF StopNode, UserCode, regVars, histVars
<1>4. Moved /\ On(stack, stack', f) /\ Under(stack)
  BY <1>2, <1>3, PlainPush
<1>5. Ordinary
  BY DEF StopNode, Ordinary, BaseInv, SimTypes, regVars, histVars, RunLevels
<1>6. QED
  BY <1>2, <1>3, <1>4, <1>5, OrdinaryStep

LEMMA StopLoopExact ==
  ASSUME SimTypes, final' = TRUE, nodes' = nodes, NEW k
  PROVE  /\ StopLoop \in FrameType /\ ~Holder(StopLoop) /\ StopLoop.kind = "all"
         /\ StopLoop.node = INIT /\ FrameExact(StopLoop, final', nodes', k)
<1>1. nodes \in Nat
  BY DEF SimTypes, NodeIds
<1>2. PICK f : f = StopLoop
  OBVIOUS
<1>3. f \in FrameType /\ f.kind = "all" /\ f.node = INIT /\ f.node = 1 /\ f.len = nodes
  BY <1>1, <1>2 DEF StopLoop, Frame, FrameType, Ops, UserKinds, INIT
<1>4. ~Holder(f) /\ FrameExact(f, final', nodes', k)
  BY <1>3 DEF Holder, FrameExact
<1>5. QED
  BY <1>2, <1>3, <1>4

LEMMA StopSimulationBase ==
  ASSUME BaseInv, StopSimulation
  PROVE  BaseInv'
<1>1. PICK f : f = StopLoop
  OBVIOUS
<1>2. /\ stack # <<>> /\ stack' = Append(stack, f) /\ UNCHANGED <<simulators, lost, mode>>
      /\ final' = TRUE /\ nodes' = nodes
  BY <1>1 DEF StopSimulation, UserCode, regVars, histVars
<1>3. /\ f \in FrameType /\ ~Holder(f) /\ f.kind = "all" /\ FrameExact(f, final', nodes', Len(simulators'))
  BY <1>1, <1>2, StopLoopExact DEF BaseInv
<1>4. Moved /\ On(stack, stack', f) /\ Under(stack)
  BY <1>2, <1>3, PlainPush
<1>5. Ordinary
  BY DEF StopSimulation, Ordinary, BaseInv, SimTypes, regVars, histVars
<1>6. QED
  BY <1>2, <1>3, <1>4, <1>5, OrdinaryStep

LEMMA UnwindBase ==
  ASSUME BaseInv, Unwind
  PROVE  BaseInv'
<1>1. Moved /\ Under(Below) /\ stack' = Below /\ mode' = "unwinding"
  BY UnwindMoves DEF Unwind
<1>2. Ordinary
  BY DEF Unwind, Ordinary, BaseInv, SimTypes, nodeVars
<1>3. QED
  BY <1>1, <1>2, OrdinaryStep

LEMMA DropReturnBase ==
  ASSUME BaseInv, DropReturn
  PROVE  BaseInv'
<1>1. stack # <<>> /\ Top.kind = "drop" /\ stack' = Below /\ UNCHANGED <<simulators, lost, mode>> /\ ~Holder(Top)
  BY DEF DropReturn, UserCode, regVars, histVars, Holder
<1>2. Moved /\ Under(Below)
  BY <1>1, PlainPop
<1>3. stage = "pop"
  <2>1. Top = stack[Len(stack)] /\ Len(stack) \in DOMAIN stack /\ Len(stack) \in Nat \ {0}
    BY <1>1, TopFacts DEF BaseInv
  <2>2. \A i \in DOMAIN stack : i > 1 => stack[i].kind \notin {"base", "drop"}
    BY DEF BaseInv, StageExact
  <2>4. ~(Len(stack) > 1)
    BY <1>1, <2>1, <2>2
  <2>6. PICK k \in Nat : k = Len(stack) /\ k # 0
    BY <2>1
  <2>5. Len(stack) = 1
    BY <2>4, <2>6
  <2>3. QED
    BY <1>1, <2>1, <2>5 DEF BaseInv, StageExact, SimTypes
<1>4. Ordinary
  BY DEF DropReturn, Ordinary, BaseInv, SimTypes, regVars, nodeVars, histVars
<1>5. QED
  BY <1>1, <1>2, <1>3, <1>4, OrdinaryStep

LEMMA SingleFrame ==
  ASSUME NEW f \in FrameType
  PROVE  On(<<>>, <<f>>, f)
<1>1. <<f>> \in Seq(FrameType) /\ Len(<<f>>) = 1 /\ <<f>>[1] = f
  OBVIOUS
<1>2. <<>> \in Seq(FrameType) /\ Len(<<>>) = 0
  BY EmptySeq
<1>3. QED
  BY <1>1, <1>2 DEF On

\* The frame of the loop of stop_simulation after one iteration.
Iterated == [Top EXCEPT !.node = Top.node + 1]

LEMMA IteratedStack ==
  ASSUME SimTypes, stack # <<>>
  PROVE  /\ On(Below, [stack EXCEPT ![Len(stack)].node = @ + 1], Iterated)
         /\ Iterated \in FrameType /\ Iterated.kind = Top.kind
         /\ Iterated.node = Top.node + 1 /\ Iterated.len = Top.len
<1>1. Top \in FrameType /\ On(Below, stack, Top) /\ stack \in Seq(FrameType) /\ Len(stack) \in 1 .. Len(stack)
  BY TopFacts, LenProperties DEF SimTypes
<1>2. /\ Iterated \in FrameType /\ Iterated.kind = Top.kind
      /\ Iterated.node = Top.node + 1 /\ Iterated.len = Top.len
  <2>1. PICK top \in FrameType : top = Top
    BY <1>1
  <2>2. PICK n \in Nat : n = top.node + 1
    BY <2>1 DEF FrameType
  <2>3. Iterated = [top EXCEPT !.node = n]
    BY <2>1, <2>2 DEF Iterated
  <2>4. /\ [top EXCEPT !.node = n] \in FrameType
        /\ [top EXCEPT !.node = n].kind = top.kind
        /\ [top EXCEPT !.node = n].node = n /\ [top EXCEPT !.node = n].len = top.len
    BY <2>1 DEF FrameType
  <2>5. QED
    BY <2>1, <2>2, <2>3, <2>4
<1>3. [stack EXCEPT ![Len(stack)].node = @ + 1] = [stack EXCEPT ![Len(stack)] = Iterated]
  BY DEF Iterated, Top
<1>4. PICK next : next = [stack EXCEPT ![Len(stack)] = Iterated]
  OBVIOUS
<1>5. /\ next \in Seq(FrameType) /\ Len(next) = Len(stack)
      /\ \A j \in 1 .. Len(stack) : next[j] = IF j = Len(stack) THEN Iterated ELSE stack[j]
  BY <1>1, <1>2, <1>4, ExceptSeq
<1>6. Len(Below) \in Nat /\ Len(stack) = Len(Below) + 1
  BY <1>1, LenProperties DEF On
<1>7. On(Below, next, Iterated)
  BY <1>1, <1>2, <1>5, <1>6 DEF On
<1>8. QED
  BY <1>2, <1>3, <1>4, <1>7

\* The frames after an iteration of the loop of stop_simulation.
LEMMA StopAllNextMoves ==
  ASSUME BaseInv, StopAllNext
  PROVE  /\ Moved /\ stack' \in Seq(FrameType) /\ stack' # <<>>
         /\ stack'[1].kind = stack[1].kind
         /\ Len(stack) = 1 => stack'[1] = Iterated
         /\ Len(stack) # 1 => stack'[1] = stack[1]
         /\ Iterated.kind = "all" /\ Iterated.node = Top.node + 1 /\ Iterated.len = Top.len
         /\ Iterated \in FrameType
         /\ \A i \in DOMAIN stack' :
              \/ i \in DOMAIN stack /\ i # Len(stack) /\ stack'[i] = stack[i]
              \/ i = Len(stack) /\ stack'[i] = Iterated
              \/ i = Len(stack) + 1 /\ Top.node \in Running /\ stack'[i] = UserFrame("stop", None, 0, Top.node)
         /\ \A i \in DOMAIN stack : /\ i \in DOMAIN stack'
                                    /\ i # Len(stack) => stack'[i] = stack[i]
         /\ Top.node \in Running => Len(stack) + 1 \in DOMAIN stack' /\ Len(stack') = Len(stack) + 1
                                    /\ stack'[Len(stack) + 1] = UserFrame("stop", None, 0, Top.node)
<1> DEFINE next == [stack EXCEPT ![Len(stack)].node = @ + 1]
<1> DEFINE f == UserFrame("stop", None, 0, Top.node)
<1>1. /\ stack # <<>> /\ Top.kind = "all" /\ UNCHANGED <<simulators, lost, mode>>
      /\ stack' = IF Top.node \in Running THEN Append(next, f) ELSE next
  BY DEF StopAllNext, regVars, histVars
<1>2. SimTypes /\ Top \in FrameType /\ On(Below, stack, Top)
  BY <1>1, TopFacts DEF BaseInv
<1>3. /\ On(Below, next, Iterated) /\ Iterated \in FrameType /\ Iterated.kind = "all"
      /\ Iterated.node = Top.node + 1 /\ Iterated.len = Top.len
  BY <1>1, <1>2, IteratedStack
<1> HIDE DEF next
<1>4. f \in FrameType /\ f.kind = "stop" /\ ~Holder(f)
  BY <1>2 DEF UserFrame, Frame, FrameType, Ops, Holder, UserKinds
<1> HIDE DEF f
<1>5. ~Holder(Top) /\ ~Holder(Iterated)
  BY <1>1, <1>3 DEF Holder
<1>6. Fits(simulators, next, lost) /\ Kept(simulators, stack, simulators, next)
  <2>1. /\ Fits(simulators, stack, lost) <=> Fits(simulators, Below, lost)
        /\ \A s \in Nat : \A t \in Types : Lives(simulators, Below, s, t) <=> Lives(simulators, stack, s, t)
    BY <1>2, <1>5, PlainFrame
  <2>2. /\ Fits(simulators, Below, lost) <=> Fits(simulators, next, lost)
        /\ \A s \in Nat : \A t \in Types : Lives(simulators, Below, s, t) <=> Lives(simulators, next, s, t)
    BY <1>3, <1>5, PlainFrame
  <2>3. QED
    BY <2>1, <2>2 DEF BaseInv, Kept
<1>7. stack' = next \/ (Top.node \in Running /\ On(next, stack', f))
  <2>1. On(next, Append(next, f), f)
    BY <1>3, <1>4, Pushed DEF On
  <2>2. QED
    BY <1>1, <2>1
<1>8. Fits(simulators, stack', lost) /\ Kept(simulators, stack, simulators, stack')
  <2>1. CASE stack' = next
    BY <1>6, <2>1
  <2>2. CASE On(next, stack', f)
    <3>1. /\ Fits(simulators, next, lost) <=> Fits(simulators, stack', lost)
          /\ \A s \in Nat : \A t \in Types : Lives(simulators, next, s, t) <=> Lives(simulators, stack', s, t)
      BY <1>4, <2>2, PlainFrame
    <3>2. QED
      BY <1>6, <3>1 DEF Kept
  <2>3. QED
    BY <1>7, <2>1, <2>2
<1>9. Moved
  BY <1>1, <1>2, <1>8 DEF Moved, Going, SimTypes, Registry
<1>10. /\ \A i \in DOMAIN next : i \in DOMAIN Below \/ i = Len(next)
       /\ \A i \in DOMAIN Below : i \in DOMAIN next /\ next[i] = Below[i] /\ i # Len(next)
       /\ next[Len(next)] = Iterated /\ Len(next) \in DOMAIN next /\ next # <<>>
       /\ \A i \in DOMAIN stack : i \in DOMAIN Below \/ i = Len(stack)
       /\ \A i \in DOMAIN Below : i \in DOMAIN stack /\ stack[i] = Below[i] /\ i # Len(stack)
       /\ Len(next) = Len(stack) /\ next \in Seq(FrameType)
  <2>1. Len(next) = Len(stack) /\ next \in Seq(FrameType)
    BY <1>2, <1>3 DEF On
  <2>2. QED
    BY <1>2, <1>3, <2>1, OnFrames
<1>11. /\ Len(stack) \in Nat /\ 1 \in DOMAIN next
       /\ next[1] = IF Len(stack) = 1 THEN Iterated ELSE stack[1]
       /\ next[1].kind = stack[1].kind
  <2>1. Len(stack) \in Nat \ {0} /\ DOMAIN next = 1 .. Len(next) /\ Top = stack[Len(stack)]
    BY <1>1, <1>2, <1>10, TopFacts, LenProperties
  <2>2. 1 \in DOMAIN next
    BY <1>10, <2>1
  <2>3. CASE Len(stack) = 1
    BY <1>1, <1>3, <1>10, <2>1, <2>2, <2>3
  <2>4. CASE Len(stack) # 1
    BY <1>10, <2>1, <2>2, <2>4
  <2>5. QED
    BY <2>1, <2>2, <2>3, <2>4
<1>12. CASE stack' = next /\ Top.node \notin Running
  BY <1>3, <1>9, <1>10, <1>11, <1>12
<1>13. CASE Top.node \in Running /\ On(next, stack', f)
  <2>1. /\ stack' # <<>> /\ stack' \in Seq(FrameType) /\ Len(stack') = Len(next) + 1
        /\ \A i \in DOMAIN stack' : i \in DOMAIN next \/ i = Len(stack')
        /\ \A i \in DOMAIN next : i \in DOMAIN stack' /\ stack'[i] = next[i]
        /\ stack'[Len(stack')] = f /\ Len(stack') \in DOMAIN stack'
    <3>1. stack' \in Seq(FrameType) /\ Len(stack') = Len(next) + 1
      BY <1>13 DEF On
    <3>2. QED
      BY <1>13, <3>1, OnFrames
  <2>2. QED
    BY <1>3, <1>9, <1>10, <1>11, <1>13, <2>1 DEF f
<1>14. QED
  BY <1>1, <1>7, <1>12, <1>13

LEMMA StopAllNextBase ==
  ASSUME BaseInv, StopAllNext
  PROVE  BaseInv'
<1>1. /\ SimTypes /\ StageExact /\ Registered /\ stack # <<>> /\ Top.kind = "all" /\ mode' = mode
      /\ UNCHANGED <<regVars, nodes, final, seen, view, stage, histVars>>
      /\ level' = [level EXCEPT ![Top.node] = "FinalStopped"]
      /\ Active
  BY DEF BaseInv, StopAllNext
<1>2. Top \in FrameType /\ FrameExact(Top, final, nodes, Len(simulators)) /\ Len(stack) \in DOMAIN stack
  BY <1>1, TopFacts
<1>3. /\ Moved /\ stack' \in Seq(FrameType) /\ stack' # <<>> /\ stack'[1].kind = stack[1].kind
      /\ Iterated.kind = "all" /\ Iterated.node = Top.node + 1 /\ Iterated.len = Top.len
      /\ Iterated \in FrameType
      /\ \A i \in DOMAIN stack' :
           \/ i \in DOMAIN stack /\ i # Len(stack) /\ stack'[i] = stack[i]
           \/ i = Len(stack) /\ stack'[i] = Iterated
           \/ i = Len(stack) + 1 /\ Top.node \in Running /\ stack'[i] = UserFrame("stop", None, 0, Top.node)
  BY StopAllNextMoves
<1>4. FrameExact(Iterated, final', nodes', Len(simulators'))
  <2>1. Iterated.node > 0
    BY <1>2, <1>3 DEF FrameType
  <2>2. QED
    BY <1>1, <1>2, <1>3, <2>1 DEF FrameExact, Holder
<1>5. PICK f : f = UserFrame("stop", None, 0, Top.node)
  OBVIOUS
<1>6. f.kind = "stop" /\ (Top.node \in Running => FrameExact(f, final', nodes', Len(simulators')))
  <2>1. f.kind = "stop" /\ f.node = Top.node /\ f \in FrameType
    BY <1>2, <1>5 DEF UserFrame, Frame, FrameType, Ops, UserKinds
  <2>2. Top.node \in Running => Top.node \in NodeIds
    BY <1>1, SimulatorsAssumption DEF Running, SimTypes, NodeIds
  <2>3. QED
    BY <2>1, <2>2 DEF FrameExact, Holder
<1>7. \A i \in DOMAIN stack' : /\ FrameExact(stack'[i], final', nodes', Len(simulators'))
                               /\ i > 1 => stack'[i].kind \notin {"base", "drop"}
  <2>1. \A i \in DOMAIN stack : FrameExact(stack[i], final', nodes', Len(simulators'))
    BY <1>1 DEF SimTypes, regVars
  <2>2. \A i \in DOMAIN stack : i > 1 => stack[i].kind \notin {"base", "drop"}
    BY <1>1 DEF StageExact
  <2>3. QED
    BY <1>3, <1>4, <1>5, <1>6, <2>1, <2>2
<1>8. level' \in [NodeIds -> RunLevels]
  BY <1>1 DEF SimTypes, RunLevels
<1>9. SimTypes'
  BY <1>1, <1>3, <1>7, <1>8 DEF SimTypes, Moved, regVars, histVars
<1>10. StageExact'
  BY <1>1, <1>3, <1>7 DEF StageExact, histVars, Active
<1>11. Registered'
  BY <1>1, <1>3, RegisteredKept DEF Moved, regVars, histVars
<1>12. QED
  BY <1>3, <1>9, <1>10, <1>11 DEF BaseInv, Moved

LEMMA StopAllReturnBase ==
  ASSUME BaseInv, StopAllReturn
  PROVE  BaseInv'
<1>1. /\ SimTypes /\ StageExact /\ Registered /\ stack # <<>> /\ Top.kind = "all" /\ ~Holder(Top)
      /\ UNCHANGED <<regVars, nodeVars, seen, view, mode, histVars>>
      /\ stack' = Below /\ stage' = IF Below = <<>> THEN "pop" ELSE stage
  BY DEF BaseInv, StopAllReturn, Holder
<1>2. Moved /\ Under(Below) /\ On(Below, stack, Top)
  BY <1>1, PlainPop DEF regVars, histVars
<1>3. CASE Below # <<>>
  <2>1. Ordinary
    BY <1>1, <1>3 DEF Ordinary, SimTypes, regVars, nodeVars, histVars
  <2>2. QED
    BY <1>1, <1>2, <1>3, <2>1, OrdinaryStep
<1>4. CASE Below = <<>>
  <2>1. /\ \A i \in DOMAIN Below : FrameExact(Below[i], final', nodes', Len(simulators')) /\ i # i
        /\ Below \in Seq(FrameType)
    BY <1>4, EmptySeq, LenProperties
  <2>2. stack[1] = Top
    BY <1>2, <1>4, OnFirst
  <2>3. stage = "stop" /\ final
    BY <1>1, <2>2 DEF StageExact, SimTypes
  <2>4. SimTypes'
    BY <1>1, <1>4, <2>1 DEF SimTypes, regVars, nodeVars, histVars
  <2>5. StageExact'
    BY <1>1, <1>4, <2>1, <2>3 DEF StageExact, nodeVars, histVars, Active
  <2>6. Registered'
    BY <1>1, <1>2, RegisteredKept DEF Moved, regVars, histVars, nodeVars
  <2>7. QED
    BY <1>2, <2>4, <2>5, <2>6 DEF BaseInv, Moved
<1>5. QED
  BY <1>3, <1>4

\* The guard's destroy begins: the stack is the loop of stop_simulation.
LEMMA DestroyMoves ==
  ASSUME BaseInv, UNCHANGED <<simulators, lost>>, stack' = <<StopLoop>>, nodes' = nodes, final' = TRUE,
         stack = <<>> \/ Top.kind = "base"
  PROVE  /\ Fits(simulators', stack', lost') /\ Kept(simulators, stack, simulators', stack')
         /\ stack' \in Seq(FrameType) /\ DOMAIN stack' = {1} /\ stack'[1] = StopLoop
         /\ stack' # <<>> /\ Len(stack') = 1
<1>1. PICK f : f = StopLoop
  OBVIOUS
<1>2. f \in FrameType /\ ~Holder(f)
  BY <1>1, StopLoopExact DEF BaseInv
<1>3. On(<<>>, <<f>>, f)
  BY <1>2, SingleFrame
<1>4. Fits(simulators, <<>>, lost) /\ Kept(simulators, stack, simulators, <<>>)
  <2>1. CASE stack = <<>>
    BY <2>1 DEF BaseInv, Kept
  <2>2. CASE stack # <<>> /\ Top.kind = "base"
    <3>1. On(Below, stack, Top) /\ Top = stack[Len(stack)] /\ Len(stack) \in DOMAIN stack /\ Len(stack) \in Nat \ {0}
      BY <2>2, TopFacts DEF BaseInv
    <3>2. \A i \in DOMAIN stack : i > 1 => stack[i].kind \notin {"base", "drop"}
      BY DEF BaseInv, StageExact
    <3>3. Len(stack) = 1
      <4>1. ~(Len(stack) > 1)
        BY <2>2, <3>1, <3>2
      <4>2. PICK k \in Nat : k = Len(stack) /\ k # 0
        BY <3>1
      <4>3. QED
        BY <4>1, <4>2
    <3>4. Below = <<>>
      <4>1. Below \in Seq(FrameType) /\ Len(stack) = Len(Below) + 1
        BY <3>1 DEF On
      <4>2. Len(Below) \in Nat /\ (Below # <<>> => Len(Below) \in Nat \ {0})
        BY <4>1, LenProperties, EmptySeq
      <4>3. PICK n \in Nat : n = Len(Below) /\ n + 1 = 1
        BY <3>3, <4>1, <4>2
      <4>4. Len(Below) = 0
        BY <4>3
      <4>5. QED
        BY <4>2, <4>4
    <3>5. ~Holder(Top)
      BY <2>2 DEF Holder
    <3>6. QED
      BY <3>1, <3>4, <3>5, PlainFrame DEF BaseInv, Kept
  <2>3. QED
    BY <2>1, <2>2
<1>5. Fits(simulators, <<f>>, lost) /\ Kept(simulators, stack, simulators, <<f>>)
  BY <1>2, <1>3, <1>4, PlainFrame DEF Kept
<1>6. <<f>> \in Seq(FrameType) /\ DOMAIN <<f>> = {1} /\ <<f>>[1] = f /\ <<f>> # <<>> /\ Len(<<f>>) = 1
  BY <1>2
<1>7. QED
  BY <1>1, <1>5, <1>6

LEMMA DestroyBase ==
  ASSUME BaseInv, BaseReturn \/ Cleanup
  PROVE  BaseInv'
<1>1. /\ UNCHANGED <<regVars, nodes, level, seen, view, histVars>>
      /\ stack' = <<StopLoop>> /\ final' = TRUE /\ stage' = "stop"
      /\ stack = <<>> \/ Top.kind = "base"
      /\ mode' \in Modes /\ mode' \in {mode, "cleanup"}
  BY DEF BaseReturn, Cleanup, BaseInv, SimTypes, Modes
<1>2. /\ Fits(simulators', stack', lost') /\ Kept(simulators, stack, simulators', stack')
      /\ stack' \in Seq(FrameType) /\ DOMAIN stack' = {1} /\ stack'[1] = StopLoop /\ stack' # <<>>
  BY <1>1, DestroyMoves DEF regVars, histVars
<1>3. StopLoop.kind = "all" /\ FrameExact(StopLoop, final', nodes', Len(simulators'))
  BY <1>1, StopLoopExact DEF BaseInv
<1>4. SimTypes'
  BY <1>1, <1>2, <1>3 DEF BaseInv, SimTypes, regVars, histVars
<1>5. StageExact'
  BY <1>1, <1>2, <1>3 DEF BaseInv, StageExact, histVars, Active
<1>6. Registered'
  BY <1>1, <1>2, RegisteredKept DEF BaseInv, regVars, histVars
<1>7. QED
  BY <1>2, <1>4, <1>5, <1>6 DEF BaseInv

\* The slots and the frames when a simulator is dropped by the teardown.
LEMMA PopMoves ==
  ASSUME BaseInv, PopSimulator
  PROVE  /\ simulators' \in Registry /\ Len(simulators') = Len(simulators) - 1 /\ Len(simulators) \in Nat \ {0}
         /\ Fits(simulators', stack', lost') /\ Kept(simulators, stack, simulators', stack')
         /\ Going /\ stack = <<>>
         /\ \/ stack' = <<>> /\ mode' # "normal"
            \/ /\ UNCHANGED mode
               /\ \E f \in FrameType : /\ f.kind = "drop" /\ f.slot = Len(simulators) /\ stack' = <<f>>
                                       /\ FrameExact(f, final', nodes', Len(simulators'))
<1>1. /\ stack = <<>> /\ simulators # <<>> /\ simulators' = SubSeq(simulators, 1, Len(simulators) - 1)
      /\ lost' = lost /\ simulators \in Registry /\ Fits(simulators, <<>>, lost)
  BY DEF PopSimulator, Popping, histVars, BaseInv, SimTypes, Registry
<1>2. /\ simulators' \in Registry /\ Len(simulators') = Len(simulators) - 1 /\ Len(simulators) \in Nat \ {0}
      /\ simulators[Len(simulators)] \in Types \cup {None}
      /\ Fits(simulators', <<>>, lost) /\ Kept(simulators, <<>>, simulators', <<>>)
  BY <1>1, Shrunk
<1>3. CASE simulators[Len(simulators)] = None
  <2>1. Fail /\ stack' = <<>>
    BY <1>1, <1>3 DEF PopSimulator
  <2>2. QED
    BY <1>1, <1>2, <2>1, FailGoes
<1>4. CASE simulators[Len(simulators)] # None
  <2>1. PICK f : f = UserFrame("drop", simulators[Len(simulators)], Len(simulators), 0)
    OBVIOUS
  <2>2. stack' = <<f>> /\ UNCHANGED mode
    BY <1>4, <2>1 DEF PopSimulator
  <2>3. PICK k \in Nat : k = Len(simulators)
    BY <1>2
  <2>4. PICK t \in Types : t = simulators[Len(simulators)]
    BY <1>2, <1>4
  <2>5. f \in FrameType /\ f.kind = "drop" /\ f.slot = Len(simulators)
    BY <2>1, <2>3, <2>4 DEF UserFrame, Frame, FrameType, Ops, UserKinds
  <2>6. ~Holder(f) /\ FrameExact(f, final', nodes', Len(simulators'))
    BY <2>5 DEF Holder, FrameExact
  <2>7. On(<<>>, stack', f)
    BY <2>2, <2>5, SingleFrame
  <2>8. Fits(simulators', stack', lost) /\ Kept(simulators', <<>>, simulators', stack')
    BY <1>2, <2>6, <2>7, PlainFrame DEF Kept
  <2>9. Kept(simulators, stack, simulators', stack')
    BY <1>1, <1>2, <2>8, KeptTransitive
  <2>10. QED
    BY <1>1, <1>2, <2>2, <2>5, <2>6, <2>8, <2>9 DEF Going
<1>5. QED
  BY <1>3, <1>4

LEMMA PopSimulatorBase ==
  ASSUME BaseInv, PopSimulator
  PROVE  BaseInv'
<1>1. /\ SimTypes /\ StageExact /\ Registered /\ stage = "pop" /\ stage' = stage /\ Active
      /\ UNCHANGED <<simulators_by_type, nodeVars, seen, view, histVars>>
  BY DEF BaseInv, PopSimulator, Popping
<1>2. /\ simulators' \in Registry
      /\ Fits(simulators', stack', lost') /\ Kept(simulators, stack, simulators', stack') /\ Going
  BY PopMoves
<1>3. /\ stack' \in Seq(FrameType)
      /\ \A i \in DOMAIN stack' : FrameExact(stack'[i], final', nodes', Len(simulators')) /\ ~(i > 1)
      /\ stack' # <<>> => stack'[1].kind = "drop"
  <2>1. CASE stack' = <<>>
    BY <2>1, EmptySeq, LenProperties
  <2>2. ASSUME NEW f \in FrameType, f.kind = "drop", stack' = <<f>>,
               FrameExact(f, final', nodes', Len(simulators'))
        PROVE  <1>3
    <3>1. <<f>> \in Seq(FrameType) /\ DOMAIN <<f>> = {1} /\ <<f>>[1] = f
      OBVIOUS
    <3>2. QED
      BY <2>2, <3>1
  <2>3. QED
    BY <2>1, <2>2, PopMoves
<1>4. mode' \in Modes /\ (mode' = "normal" => mode = "normal") /\ (mode' = "cleanup" => mode = "cleanup")
  BY <1>1, <1>2 DEF SimTypes, Going, Modes
<1>5. SimTypes'
  BY <1>1, <1>2, <1>3, <1>4 DEF SimTypes, Registry, nodeVars, histVars
<1>6. StageExact'
  BY <1>1, <1>3, <1>4 DEF StageExact, nodeVars, histVars
<1>7. Registered'
  BY <1>1, <1>2, <1>4, RegisteredKept DEF StageExact, nodeVars, histVars
<1>8. QED
  BY <1>2, <1>5, <1>6, <1>7 DEF BaseInv

LEMMA InitBase ==
  ASSUME Init
  PROVE  BaseInv
<1>1. PICK f : f = UserFrame("base", None, 0, INIT)
  OBVIOUS
<1>2. f \in FrameType /\ f.kind = "base"
  BY <1>1 DEF UserFrame, Frame, FrameType, Ops, UserKinds, INIT
<1>3. ~Holder(f) /\ FrameExact(f, final, nodes, Len(simulators))
  BY <1>2 DEF Holder, FrameExact
<1>4. stack = <<f>> /\ <<f>> \in Seq(FrameType) /\ DOMAIN <<f>> = {1} /\ <<f>>[1] = f
  BY <1>1, <1>2 DEF Init
<1>5. simulators = <<>> /\ simulators \in Registry /\ DOMAIN simulators = {} /\ Len(simulators) = 0
  BY EmptySeq, LenProperties DEF Init, Registry
<1>6. SimTypes
  <2>1. 1 \in NodeIds
    BY SimulatorsAssumption DEF NodeIds
  <2>2. seen \in [Types -> Seq(NodeIds)] /\ view \in [Types -> SUBSET NodeIds]
    BY EmptySeq DEF Init
  <2>3. QED
    BY <1>3, <1>4, <1>5, <2>1, <2>2 DEF Init, SimTypes, Registry, RunLevels, Modes
<1>7. StageExact
  BY <1>2, <1>4 DEF Init, StageExact
<1>8. Fits(simulators, stack, lost)
  BY <1>3, <1>4, <1>5 DEF Fits, Init
<1>9. Registered
  <2>1. \A s \in Nat : \A t \in Types : ~Lives(simulators, stack, s, t)
    BY <1>3, <1>4, <1>5 DEF Lives
  <2>2. \A t \in Types : simulators_by_type[t] <= Len(simulators)
    BY <1>5 DEF Init
  <2>3. QED
    BY <2>1, <2>2 DEF Registered
<1>10. QED
  BY <1>6, <1>7, <1>8, <1>9 DEF BaseInv

\* The steps that change nothing but the mode: failed calls, panics and the end.
LEMMA QuietSteps ==
  ASSUME \/ \E n \in NodeIds : IndexNode(n)
         \/ \E t \in Types : UnwindNeeds(t)
         \/ UserPanic \/ Finish \/ Ended \/ UNCHANGED simVars
  PROVE  Quiet
<1>1. CASE \E n \in NodeIds : IndexNode(n)
  BY <1>1, FailGoes DEF IndexNode, Quiet, regVars, nodeVars, histVars
<1>2. CASE \E t \in Types : UnwindNeeds(t)
  BY <1>2, FailGoes DEF UnwindNeeds, Quiet, regVars, nodeVars, histVars
<1>3. CASE UserPanic
  BY <1>3, FailGoes DEF UserPanic, Quiet, regVars, nodeVars, histVars
<1>4. CASE Finish
  BY <1>4 DEF Finish, Quiet, Going, regVars, nodeVars, histVars
<1>5. CASE Ended \/ UNCHANGED simVars
  BY <1>5 DEF Ended, Quiet, Going, simVars
<1>6. QED
  BY <1>1, <1>2, <1>3, <1>4, <1>5

LEMMA BaseStep ==
  ASSUME BaseInv, [Next]_simVars
  PROVE  BaseInv'
<1>1. CASE \E t \in Types : Add(t) \/ With(t)
  BY <1>1, AddBase, WithBase
<1>2. CASE \E n \in NodeIds : StopNode(n) \/ StartNode(n)
  BY <1>2, StopNodeBase, StartNodeBase
<1>3. CASE CreateNode \/ StopSimulation
  BY <1>3, CreateNodeBase, StopSimulationBase
<1>4. CASE Return
  BY <1>4, WithReturnBase, CallReturnBase, StopReturnBase, DropReturnBase, DestroyBase DEF Return
<1>5. CASE StopAllNext \/ StopAllReturn \/ PopSimulator \/ Unwind \/ Cleanup
  BY <1>5, StopAllNextBase, StopAllReturnBase, PopSimulatorBase, UnwindBase, DestroyBase
<1>6. CASE \/ \E n \in NodeIds : IndexNode(n)
           \/ \E t \in Types : UnwindNeeds(t)
           \/ UserPanic \/ Finish \/ Ended \/ UNCHANGED simVars
  BY <1>6, QuietSteps, QuietBase
<1>7. QED
  BY <1>1, <1>2, <1>3, <1>4, <1>5, <1>6 DEF Next, ApiCall, Library

-----------------------------------------------------------------------------
(* What the registry promises.                                             *)

\* The outermost frame of a teardown is not the user's code.
LEMMA TypesFollow ==
  ASSUME BaseInv
  PROVE  TypeOK
<1>1. SimTypes /\ StageExact
  BY DEF BaseInv
<1>2. ASSUME stage # "run", NEW i \in DOMAIN stack
      PROVE  stack[i].kind # "base"
  <2>1. CASE i > 1
    BY <1>1, <2>1 DEF StageExact
  <2>2. CASE ~(i > 1)
    <3>1. i = 1 /\ stack # <<>>
      BY <1>1, <2>2, LenProperties, EmptySeq DEF SimTypes
    <3>2. QED
      BY <1>1, <1>2, <3>1 DEF StageExact, SimTypes
  <2>3. QED
    BY <2>1, <2>2
<1>3. QED
  BY <1>1, <1>2 DEF TypeOK, SimTypes, FrameType, Ops

LEMMA SlotsFollow ==
  ASSUME BaseInv
  PROVE  SlotsExact
<1>1. Fits(simulators, stack, lost)
  BY DEF BaseInv
<1>2. \A s \in Slots : simulators[s] = None <=> (Holders(s) # {} \/ s \in lost)
  <2>1. \A s : Holders(s) # {} <=> \E i \in DOMAIN stack : Holder(stack[i]) /\ stack[i].slot = s
    BY DEF Holders, Holder
  <2>2. QED
    BY <1>1, <2>1 DEF Fits, Slots
<1>3. ASSUME NEW i \in DOMAIN stack, NEW j \in DOMAIN stack,
             {stack[i].kind, stack[j].kind} \subseteq {"with", "call"}, stack[i].slot = stack[j].slot
      PROVE  i = j /\ stack[i].slot \in Slots \ lost
  <2>1. Holder(stack[i]) /\ Holder(stack[j])
    BY <1>3 DEF Holder
  <2>2. QED
    BY <1>1, <1>3, <2>1 DEF Fits, Slots
<1>4. QED
  BY <1>2, <1>3 DEF SlotsExact

LEMMA OccupantLives ==
  ASSUME BaseInv, NEW s \in Slots \ lost
  PROVE  Occupant(s) \in Types /\ s \in Nat /\ Lives(simulators, stack, s, Occupant(s))
<1>1. SimTypes /\ Fits(simulators, stack, lost)
  BY DEF BaseInv
<1>2. s \in DOMAIN simulators /\ s \notin lost /\ s \in Nat /\ simulators[s] \in Types \cup {None}
  BY <1>1, LenProperties, ElementOfSeq DEF SimTypes, Slots
<1>3. CASE Holders(s) = {}
  <2>1. simulators[s] # None
    BY <1>1, <1>2, <1>3 DEF Fits, Holders, Holder
  <2>2. QED
    BY <1>2, <1>3, <2>1 DEF Occupant, Lives
<1>4. CASE Holders(s) # {}
  <2>1. PICK i : i = CHOOSE j \in Holders(s) : TRUE
    OBVIOUS
  <2>2. i \in Holders(s)
    BY <1>4, <2>1
  <2>3. i \in DOMAIN stack /\ Holder(stack[i]) /\ stack[i].slot = s
    BY <2>2 DEF Holders, Holder
  <2>4. FrameExact(stack[i], final, nodes, Len(simulators))
    BY <1>1, <2>3 DEF SimTypes
  <2>5. stack[i].sim \in Types /\ Occupant(s) = stack[i].sim
    BY <1>4, <2>1, <2>3, <2>4 DEF FrameExact, Occupant
  <2>6. QED
    BY <1>2, <2>3, <2>5 DEF Lives
<1>5. QED
  BY <1>3, <1>4

LEMMA RegistryFollows ==
  ASSUME BaseInv
  PROVE  RegistryExact
<1>1. Registered
  BY DEF BaseInv
<1>2. \A s \in Slots \ lost : /\ Occupant(s) \in Types /\ s \in Nat
                              /\ Lives(simulators, stack, s, Occupant(s))
  BY OccupantLives
<1>3. ASSUME NEW s \in Slots \ lost
      PROVE  /\ Occupant(s) \in refused \/ simulators_by_type[Occupant(s)] = s
             /\ \A r \in Slots \ lost : Occupant(r) = Occupant(s) => r = s
  <2>1. PICK t \in Types : t = Occupant(s) /\ Lives(simulators, stack, s, t) /\ s \in Nat
    BY <1>2
  <2>2. /\ simulators_by_type[t] = s \/ t \in refused
        /\ \A r \in Nat : Lives(simulators, stack, r, t) => r = s
    BY <1>1, <2>1 DEF Registered
  <2>3. QED
    BY <1>2, <2>1, <2>2
<1>4. QED
  BY <1>3 DEF RegistryExact

\* Every variable has its type, and no user code runs under the teardown.
THEOREM SimulatorsTypeCorrect == Spec => []TypeOK
<1>1. Init => BaseInv
  BY InitBase
<1>2. BaseInv /\ [Next]_simVars => BaseInv'
  BY BaseStep
<1>3. BaseInv => TypeOK
  BY TypesFollow
<1>4. QED
  BY <1>1, <1>2, <1>3, PTL DEF Spec

\* A simulator is in its slot or held by exactly one frame, unless a panic left a
\* callback: the assertion of with's guard (simulator.rs:71) never fails.
THEOREM SlotsCorrect == Spec => []SlotsExact
<1>1. Init => BaseInv
  BY InitBase
<1>2. BaseInv /\ [Next]_simVars => BaseInv'
  BY BaseStep
<1>3. BaseInv => SlotsExact
  BY SlotsFollow
<1>4. QED
  BY <1>1, <1>2, <1>3, PTL DEF Spec

\* There is at most one simulator of each type and the index leads to it, until
\* add_simulator refused the type.
THEOREM RegistryCorrect == Spec => []RegistryExact
<1>1. Init => BaseInv
  BY InitBase
<1>2. BaseInv /\ [Next]_simVars => BaseInv'
  BY BaseStep
<1>3. BaseInv => RegistryExact
  BY RegistryFollows
<1>4. QED
  BY <1>1, <1>2, <1>3, PTL DEF Spec

-----------------------------------------------------------------------------
(* The teardown.                                                           *)

\* stk is the stack or what is under its innermost frame; f may be pushed on it.
Shape(stk, f) ==
  Under(stk) /\ (stack' = stk \/ (stk # <<>> /\ f \in FrameType /\ On(stk, stack', f)))

LEMMA UnderFrames ==
  ASSUME NEW stk, Under(stk)
  PROVE  /\ \A i \in DOMAIN stk : i \in DOMAIN stack /\ stk[i] = stack[i]
         /\ \A i \in DOMAIN stack : i \in DOMAIN stk \/ (stack # <<>> /\ i = Len(stack) /\ stack[i] = Top)
         /\ stk # <<>> => stack # <<>> /\ stk[1] = stack[1]
<1>1. CASE stk = stack
  BY <1>1
<1>2. CASE stack # <<>> /\ On(stk, stack, Top)
  BY <1>2, OnFrames, OnFirst
<1>3. QED
  BY <1>1, <1>2 DEF Under

\* The frames after a step: those of stk and perhaps f.
LEMMA ShapeFrames ==
  ASSUME NEW stk, NEW f, Shape(stk, f)
  PROVE  /\ \A i \in DOMAIN stack' : \/ i \in DOMAIN stk /\ i \in DOMAIN stack /\ stack'[i] = stack[i]
                                     \/ i = Len(stack') /\ stack'[i] = f /\ stack' # stk
         /\ \A i \in DOMAIN stk : i \in DOMAIN stack' /\ i \in DOMAIN stack /\ stack'[i] = stack[i]
         /\ stack' # <<>> => stack # <<>> /\ stack'[1] = stack[1]
         /\ stack' # stk => /\ Len(stack') \in DOMAIN stack' /\ stack'[Len(stack')] = f
                            /\ Len(stack') \notin DOMAIN stk
                            /\ \A i \in DOMAIN stk : i \in Nat \ {0} /\ i < Len(stack')
<1>1. /\ \A i \in DOMAIN stk : i \in DOMAIN stack /\ stk[i] = stack[i]
      /\ stk # <<>> => stack # <<>> /\ stk[1] = stack[1]
  BY UnderFrames DEF Shape
<1>2. CASE stack' = stk
  BY <1>1, <1>2
<1>3. CASE stk # <<>> /\ On(stk, stack', f)
  <2>1. /\ \A i \in DOMAIN stack' : i \in DOMAIN stk \/ i = Len(stack')
        /\ \A i \in DOMAIN stk : /\ i \in DOMAIN stack' /\ stack'[i] = stk[i] /\ i \in Nat \ {0}
                                 /\ i < Len(stack') /\ i # Len(stack')
        /\ stack'[Len(stack')] = f /\ Len(stack') \in DOMAIN stack' /\ Len(stack') \notin DOMAIN stk
    BY <1>3, OnFrames
  <2>2. stack'[1] = stk[1]
    BY <1>3, OnFirst
  <2>3. stack' # stk
    BY <2>1
  <2>4. QED
    BY <1>1, <1>3, <2>1, <2>2, <2>3
<1>4. QED
  BY <1>2, <1>3 DEF Shape

\* A node that was stopped for good stays stopped.
LevelsKept == \A n \in 1 .. nodes : level[n] = "FinalStopped" => level'[n] = "FinalStopped"

LEMMA StoppedKept ==
  ASSUME LevelsKept, nodes' = nodes, NEW k, Stopped(k)
  PROVE  \A n \in 1 .. nodes' : n < k => level'[n] = "FinalStopped"
BY DEF LevelsKept, Stopped

LEMMA TornDownKept ==
  ASSUME BaseInv, TornDown, Ordinary, Moved, LevelsKept, NEW stk, NEW f, Shape(stk, f),
         f.kind = "stop" => Running # {}
  PROVE  TornDown'
<1>1. StageExact /\ SimTypes
  BY DEF BaseInv
<1>2. stage' # "run" => final /\ nodes' = nodes
  BY <1>1 DEF StageExact, Ordinary
<1>3. stack' # <<>> => stack # <<>> /\ stack'[1] = stack[1]
  BY ShapeFrames
<1>4. stage' = "pop" => Stopped(nodes + 1)'
  <2>1. SUFFICES ASSUME stage' = "pop"
                 PROVE  Stopped(nodes + 1)'
    OBVIOUS
  <2>2. Stopped(nodes + 1)
    BY <2>1 DEF Ordinary, TornDown
  <2>3. QED
    BY <1>2, <2>1, <2>2, StoppedKept DEF Stopped
<1>5. stage' = "stop" /\ stack' # <<>> => Stopped(stack[1].node)'
  <2>1. SUFFICES ASSUME stage' = "stop", stack' # <<>>
                 PROVE  Stopped(stack[1].node)'
    OBVIOUS
  <2>2. Stopped(stack[1].node)
    BY <1>3, <2>1 DEF Ordinary, TornDown
  <2>3. QED
    BY <1>2, <1>3, <2>1, <2>2, StoppedKept DEF Stopped
<1>6. stack' # <<>> /\ stack'[1].kind = "drop" => Len(simulators') = stack'[1].slot - 1
  BY <1>3 DEF TornDown, Moved
<1>7. CASE \A t \in Types \ refused : simulators_by_type[t] <= Len(simulators)
  BY <1>4, <1>5, <1>6, <1>7 DEF TornDown, Ordinary, Moved
<1>8. CASE final /\ Stopped(nodes + 1) /\ \A i \in DOMAIN stack : stack[i].kind # "stop"
  <2>1. Stopped(nodes + 1)'
    BY <1>8, StoppedKept DEF Stopped, Ordinary
  <2>2. Running = {}
    BY <1>1, <1>8 DEF Running, Stopped, SimTypes, NodeIds
  <2>3. \A i \in DOMAIN stack' : stack'[i].kind # "stop"
    BY <1>8, <2>2, ShapeFrames
  <2>4. QED
    BY <1>4, <1>5, <1>6, <1>8, <2>1, <2>3 DEF TornDown, Ordinary
<1>9. QED
  BY <1>7, <1>8 DEF TornDown

\* The shapes of the steps of a notification.
LEMMA VisitedShape ==
  ASSUME NEW reg, NEW stk, stk # <<>>, Under(stk), NEW op, NEW s, NEW n, NEW len,
         Visited(reg, stk, op, s, n, len)
  PROVE  \E t \in Types \cup {None} : Shape(stk, Frame("call", op, t, s, n, len))
BY DEF Visited, Shape

LEMMA CallKind ==
  ASSUME NEW op, NEW t, NEW s, NEW n, NEW len
  PROVE  LET f == Frame("call", op, t, s, n, len)
         IN  /\ f.kind = "call" /\ f.op = op /\ f.sim = t /\ f.slot = s /\ f.node = n /\ f.len = len
             /\ Holder(f)
BY DEF Frame, Holder

\* The shapes of the ordinary steps.
LEMMA LoopKind == StopLoop.kind = "all" /\ ~Holder(StopLoop)
BY DEF StopLoop, Frame, Holder

LEMMA QuietShape ==
  ASSUME BaseInv, Quiet
  PROVE  Ordinary /\ Moved /\ LevelsKept /\ Shape(stack, StopLoop) /\ stack' = stack
<1>1. Moved /\ Under(stack)
  BY QuietMoves DEF Quiet
<1>2. QED
  BY <1>1 DEF Quiet, Ordinary, BaseInv, SimTypes, LevelsKept, Shape

LEMMA WithShape ==
  ASSUME BaseInv, NEW t \in Types, With(t), Available(t)
  PROVE  /\ Ordinary /\ Moved /\ LevelsKept /\ UNCHANGED <<nodes, level, seen, view, overtaken, mode, lost>>
         /\ Shape(stack, UserFrame("with", t, simulators_by_type[t], 0))
         /\ UserFrame("with", t, simulators_by_type[t], 0).kind = "with"
         /\ On(stack, stack', UserFrame("with", t, simulators_by_type[t], 0))
<1>1. /\ simulators' = [simulators EXCEPT ![simulators_by_type[t]] = None]
      /\ stack' = Append(stack, UserFrame("with", t, simulators_by_type[t], 0))
      /\ UNCHANGED <<mode, lost>> /\ stack # <<>>
      /\ UNCHANGED <<nodes, level, seen, view, overtaken>>
  BY DEF With, histVars, nodeVars, UserCode
<1>2. Ordinary /\ LevelsKept
  BY <1>1 DEF With, Ordinary, BaseInv, SimTypes, nodeVars, histVars, LevelsKept
<1>3. /\ Moved /\ Under(stack)
      /\ UserFrame("with", t, simulators_by_type[t], 0) \in FrameType
      /\ On(stack, stack', UserFrame("with", t, simulators_by_type[t], 0))
  BY <1>1, WithMoves
<1>4. UserFrame("with", t, simulators_by_type[t], 0).kind = "with"
  BY DEF UserFrame, Frame
<1>5. QED
  BY <1>1, <1>2, <1>3, <1>4 DEF Shape

\* The steps that pop a frame and go on with what is under it.
LEMMA PopShape ==
  ASSUME BaseInv, WithReturn \/ DropReturn \/ Unwind \/ (StopAllReturn /\ Below # <<>>)
  PROVE  /\ Ordinary /\ Moved /\ LevelsKept /\ Shape(Below, StopLoop) /\ stack' = Below
         /\ On(Below, stack, Top) /\ UNCHANGED <<nodes, level, seen, view, overtaken, mode>>
         /\ mode = "normal" => Top.kind \in {"with", "drop", "all"}
<1>1. CASE WithReturn
  <2>1. stack # <<>> /\ Top.kind = "with" /\ PutBack /\ stack' = Below /\ UNCHANGED <<mode, lost>>
    BY <1>1 DEF WithReturn, UserCode, histVars
  <2>2. Moved /\ Under(Below) /\ On(Below, stack, Top)
    BY <2>1, WithReturnMoves
  <2>3. Ordinary /\ LevelsKept /\ UNCHANGED <<nodes, level, seen, view, overtaken>>
    BY <1>1 DEF WithReturn, Ordinary, BaseInv, SimTypes, nodeVars, histVars, LevelsKept
  <2>4. QED
    BY <2>1, <2>2, <2>3 DEF Shape
<1>2. CASE DropReturn \/ (StopAllReturn /\ Below # <<>>)
  <2>1. /\ stack # <<>> /\ Top.kind \in {"drop", "all"} /\ ~Holder(Top) /\ stack' = Below
        /\ UNCHANGED <<simulators, lost, mode>>
    BY <1>2 DEF DropReturn, StopAllReturn, UserCode, regVars, histVars, Holder
  <2>2. Moved /\ Under(Below) /\ On(Below, stack, Top)
    BY <2>1, PlainPop
  <2>3. Ordinary /\ LevelsKept /\ UNCHANGED <<nodes, level, seen, view, overtaken>>
    BY <1>2 DEF DropReturn, StopAllReturn, Ordinary, BaseInv, SimTypes, regVars, nodeVars, histVars, LevelsKept
  <2>4. QED
    BY <2>1, <2>2, <2>3 DEF Shape
<1>3. CASE Unwind
  <2>1. Moved /\ Under(Below) /\ On(Below, stack, Top)
    BY <1>3, UnwindMoves
  <2>2. Ordinary /\ LevelsKept /\ UNCHANGED <<nodes, level, seen, view, overtaken, mode>> /\ stack' = Below
    BY <1>3 DEF Unwind, Ordinary, BaseInv, SimTypes, nodeVars, LevelsKept
  <2>3. mode # "normal"
    BY <1>3 DEF Unwind
  <2>4. QED
    BY <2>1, <2>2, <2>3 DEF Shape
<1>4. QED
  BY <1>1, <1>2, <1>3

\* The steps that push a frame which holds no simulator.
LEMMA StopNodeShape ==
  ASSUME BaseInv, NEW n \in NodeIds, StopNode(n)
  PROVE  /\ Ordinary /\ Moved /\ LevelsKept /\ Shape(stack, UserFrame("stop", None, 0, n))
         /\ On(stack, stack', UserFrame("stop", None, 0, n))
         /\ UserFrame("stop", None, 0, n).kind = "stop" /\ UserFrame("stop", None, 0, n).node = n
<1>1. PICK f : f = UserFrame("stop", None, 0, n)
  OBVIOUS
<1>0. n \in Nat
  BY DEF NodeIds
<1>2. f \in FrameType /\ f.kind = "stop" /\ f.node = n
  BY <1>0, <1>1 DEF UserFrame, Frame, FrameType, Ops, UserKinds
<1>3. stack # <<>> /\ stack' = Append(stack, f) /\ UNCHANGED <<simulators, lost, mode>> /\ ~Holder(f)
  BY <1>1, <1>2 DEF StopNode, UserCode, regVars, histVars, Holder
<1>4. Moved /\ On(stack, stack', f) /\ Under(stack)
  BY <1>2, <1>3, PlainPush
<1>5. Ordinary
  BY DEF StopNode, Ordinary, BaseInv, SimTypes, regVars, histVars, RunLevels
<1>6. LevelsKept
  BY DEF StopNode, LevelsKept, Running, BaseInv, SimTypes
<1>7. QED
  BY <1>1, <1>2, <1>3, <1>4, <1>5, <1>6 DEF Shape

LEMMA StopSimulationShape ==
  ASSUME BaseInv, StopSimulation
  PROVE  Ordinary /\ Moved /\ LevelsKept /\ Shape(stack, StopLoop) /\ On(stack, stack', StopLoop)
<1>1. PICK f : f = StopLoop
  OBVIOUS
<1>2. /\ stack # <<>> /\ stack' = Append(stack, f) /\ UNCHANGED <<simulators, lost, mode>>
      /\ final' = TRUE /\ nodes' = nodes
  BY <1>1 DEF StopSimulation, UserCode, regVars, histVars
<1>3. f \in FrameType /\ ~Holder(f)
  BY <1>1, <1>2, StopLoopExact DEF BaseInv
<1>4. Moved /\ On(stack, stack', f) /\ Under(stack)
  BY <1>2, <1>3, PlainPush
<1>5. Ordinary /\ LevelsKept
  BY DEF StopSimulation, Ordinary, BaseInv, SimTypes, regVars, histVars, LevelsKept
<1>6. QED
  BY <1>1, <1>2, <1>3, <1>4, <1>5 DEF Shape

\* The steps of notifications.
LEMMA CallReturnShape ==
  ASSUME BaseInv, CallReturn
  PROVE  /\ Ordinary /\ LevelsKept /\ Below # <<>> /\ stack # <<>> /\ Top.kind = "call"
         /\ UNCHANGED <<nodes, level, final, overtaken>> /\ mode \in {"normal", "cleanup"}
         /\ \E t \in Types \cup {None} :
              Shape(Below, Frame("call", Top.op, t, NextSlot(Top.op, Top.slot, Top.len), Top.node, Top.len))
<1>1. stack # <<>> /\ Top.kind = "call" /\ mode \in {"normal", "cleanup"}
  BY DEF CallReturn, UserCode, Active
<1>2. Below # <<>>
  BY <1>1, InnerFrame DEF BaseInv
<1>3. UNCHANGED <<nodes, level, final, overtaken, simulators_by_type, refused, stage>> /\ LevelsKept
  BY DEF CallReturn, nodeVars, LevelsKept
<1>4. Ordinary
  <2>1. SimTypes'
    BY CallReturnBase DEF BaseInv
  <2>2. QED
    BY <1>3, <2>1 DEF SimTypes, Ordinary
<1>5. \E t \in Types \cup {None} :
        Shape(Below, Frame("call", Top.op, t, NextSlot(Top.op, Top.slot, Top.len), Top.node, Top.len))
  BY <1>2, CallReturnMoves, VisitedShape
<1>6. QED
  BY <1>1, <1>2, <1>3, <1>4, <1>5

\* A notification of op about n begins when the stack is stk.
Begins(stk, op, n) ==
  /\ stk # <<>> /\ Under(stk) /\ mode \in {"normal", "cleanup"}
  /\ stk = stack \/ (stack # <<>> /\ ~Holder(Top))
  /\ op \in {"create", "stop", "start"} /\ n \in NodeIds /\ Notify(stk, op, n)

LEMMA BeginsShape ==
  ASSUME BaseInv, NEW stk, NEW op, NEW n, Begins(stk, op, n)
  PROVE  /\ Moved
         /\ Visited(simulators, stk, op, FirstSlot(op, Len(simulators)), n, Len(simulators))
         /\ \E t \in Types \cup {None} :
              Shape(stk, Frame("call", op, t, FirstSlot(op, Len(simulators)), n, Len(simulators)))
<1>1. /\ Moved
      /\ Visited(simulators, stk, op, FirstSlot(op, Len(simulators)), n, Len(simulators))
  BY NotifyMoves DEF Begins
<1>2. QED
  BY <1>1, VisitedShape DEF Begins

LEMMA CreateNodeShape ==
  ASSUME BaseInv, CreateNode
  PROVE  \/ Quiet /\ final
         \/ /\ Ordinary /\ LevelsKept /\ UNCHANGED <<seen, view, level, final, overtaken>>
            /\ nodes' = nodes + 1 /\ ~final /\ Begins(stack, "create", nodes + 1)
<1>1. stack # <<>> /\ mode \in {"normal", "cleanup"} /\ Under(stack) /\ nodes + 1 \in NodeIds
  BY SimulatorsAssumption DEF CreateNode, UserCode, Active, Under, BaseInv, SimTypes, NodeIds
<1>2. CASE final
  BY <1>2, FailGoes DEF CreateNode, Quiet
<1>3. CASE ~final
  <2>1. nodes' = nodes + 1 /\ Notify(stack, "create", nodes + 1)
    BY <1>3 DEF CreateNode
  <2>2. Ordinary /\ LevelsKept /\ UNCHANGED <<seen, view, level, final, overtaken>>
    BY <1>1, <1>3, <2>1 DEF CreateNode, Ordinary, BaseInv, SimTypes, LevelsKept
  <2>3. QED
    BY <1>1, <1>3, <2>1, <2>2 DEF Begins
<1>4. QED
  BY <1>2, <1>3

LEMMA StopReturnShape ==
  ASSUME BaseInv, StopReturn
  PROVE  /\ Ordinary /\ LevelsKept /\ UNCHANGED <<seen, view, nodes, level, final, overtaken>>
         /\ stack # <<>> /\ Top.kind = "stop" /\ Begins(Below, "stop", Top.node) /\ On(Below, stack, Top)
<1>1. stack # <<>> /\ Top.kind = "stop" /\ mode \in {"normal", "cleanup"} /\ Notify(Below, "stop", Top.node)
  BY DEF StopReturn, UserCode, Active
<1>2. ~Holder(Top) /\ Under(Below) /\ Top.node \in NodeIds /\ On(Below, stack, Top)
  BY <1>1, TopFacts DEF Holder, BaseInv, FrameExact
<1>3. Below # <<>>
  BY <1>1, InnerFrame DEF BaseInv
<1>4. Ordinary /\ LevelsKept /\ UNCHANGED <<seen, view, nodes, level, final, overtaken>>
  BY DEF StopReturn, Ordinary, BaseInv, SimTypes, nodeVars, LevelsKept
<1>5. QED
  BY <1>1, <1>2, <1>3, <1>4 DEF Begins

LEMMA StartNodeShape ==
  ASSUME BaseInv, NEW n \in NodeIds, StartNode(n)
  PROVE  \/ Quiet
         \/ /\ Ordinary /\ LevelsKept /\ UNCHANGED <<seen, view, nodes, final>> /\ Begins(stack, "start", n)
            /\ n <= nodes /\ level' = [level EXCEPT ![n] = "Running"]
            /\ overtaken' = IF Stopping(n) THEN overtaken \cup {n} ELSE overtaken
<1>1. stack # <<>> /\ mode \in {"normal", "cleanup"} /\ Under(stack) /\ n <= nodes
  BY DEF StartNode, UserCode, Active, Under, BaseInv, SimTypes
<1>2. CASE level[n] = "FinalStopped"
  BY <1>2, FailGoes DEF StartNode, Quiet
<1>3. CASE level[n] # "FinalStopped"
  <2>1. /\ level' = [level EXCEPT ![n] = "Running"] /\ Notify(stack, "start", n)
        /\ overtaken' = IF Stopping(n) THEN overtaken \cup {n} ELSE overtaken
        /\ UNCHANGED <<seen, view, nodes, final>>
    BY <1>3 DEF StartNode
  <2>2. level' \in [NodeIds -> RunLevels] /\ overtaken' \subseteq NodeIds
    BY <2>1 DEF BaseInv, SimTypes, RunLevels
  <2>3. Ordinary
    BY <2>2 DEF StartNode, Ordinary, BaseInv, SimTypes
  <2>4. LevelsKept
    BY <1>3, <2>1 DEF LevelsKept, BaseInv, SimTypes
  <2>5. QED
    BY <1>1, <2>1, <2>3, <2>4 DEF Begins
<1>4. QED
  BY <1>2, <1>3

LEMMA TornDownOrdinary ==
  ASSUME BaseInv, TornDown,
         \/ Quiet
         \/ \E t \in Types : With(t)
         \/ WithReturn \/ DropReturn \/ Unwind \/ (StopAllReturn /\ Below # <<>>)
         \/ \E n \in NodeIds : StopNode(n) \/ StartNode(n)
         \/ StopSimulation \/ CallReturn \/ CreateNode \/ StopReturn
  PROVE  TornDown'
<1>1. ASSUME Quiet PROVE TornDown'
  BY <1>1, QuietShape, TornDownKept, LoopKind
<1>2. ASSUME NEW t \in Types, With(t) PROVE TornDown'
  <2>1. CASE Available(t)
    <3>1. PICK f : f = UserFrame("with", t, simulators_by_type[t], 0)
      OBVIOUS
    <3>2. Ordinary /\ Moved /\ LevelsKept /\ Shape(stack, f) /\ f.kind = "with"
      BY <1>2, <2>1, <3>1, WithShape
    <3>3. QED
      BY <3>2, TornDownKept
  <2>2. CASE ~Available(t)
    <3>1. Quiet
      BY <1>2, <2>2, FailGoes DEF With, Quiet, regVars, nodeVars, histVars
    <3>2. QED
      BY <1>1, <3>1
  <2>3. QED
    BY <2>1, <2>2
<1>3. ASSUME WithReturn \/ DropReturn \/ Unwind \/ (StopAllReturn /\ Below # <<>>) PROVE TornDown'
  BY <1>3, PopShape, TornDownKept, LoopKind
<1>4. ASSUME NEW n \in NodeIds, StopNode(n) PROVE TornDown'
  <2>1. PICK f : f = UserFrame("stop", None, 0, n)
    OBVIOUS
  <2>2. Ordinary /\ Moved /\ LevelsKept /\ Shape(stack, f)
    BY <1>4, <2>1, StopNodeShape
  <2>3. Running # {}
    BY <1>4 DEF StopNode
  <2>4. QED
    BY <2>2, <2>3, TornDownKept
<1>5. ASSUME NEW stk, NEW op, NEW n, Begins(stk, op, n), Ordinary, LevelsKept PROVE TornDown'
  <2>1. PICK t : Shape(stk, Frame("call", op, t, FirstSlot(op, Len(simulators)), n, Len(simulators)))
    BY <1>5, BeginsShape
  <2>2. Moved
    BY <1>5, BeginsShape
  <2>3. PICK f : f = Frame("call", op, t, FirstSlot(op, Len(simulators)), n, Len(simulators))
    OBVIOUS
  <2>4. f.kind = "call" /\ Shape(stk, f)
    BY <2>1, <2>3, CallKind
  <2>5. QED
    BY <1>5, <2>2, <2>4, TornDownKept
<1>6. ASSUME NEW n \in NodeIds, StartNode(n) PROVE TornDown'
  BY <1>1, <1>5, <1>6, StartNodeShape
<1>7. ASSUME CreateNode PROVE TornDown'
  BY <1>1, <1>5, <1>7, CreateNodeShape
<1>8. ASSUME StopReturn PROVE TornDown'
  BY <1>5, <1>8, StopReturnShape
<1>9. ASSUME StopSimulation PROVE TornDown'
  BY <1>9, StopSimulationShape, TornDownKept, LoopKind
<1>10. ASSUME CallReturn PROVE TornDown'
  <2>1. PICK t : Shape(Below, Frame("call", Top.op, t, NextSlot(Top.op, Top.slot, Top.len), Top.node, Top.len))
    BY <1>10, CallReturnShape
  <2>2. Ordinary /\ Moved /\ LevelsKept
    BY <1>10, CallReturnShape, CallReturnMoves
  <2>3. PICK f : f = Frame("call", Top.op, t, NextSlot(Top.op, Top.slot, Top.len), Top.node, Top.len)
    OBVIOUS
  <2>4. f.kind = "call" /\ Shape(Below, f)
    BY <2>1, <2>3, CallKind
  <2>5. QED
    BY <2>2, <2>4, TornDownKept
<1>11. QED
  BY <1>1, <1>2, <1>3, <1>4, <1>6, <1>7, <1>8, <1>9, <1>10

LEMMA TornDownAdd ==
  ASSUME BaseInv, TornDown, NEW t \in Types, Add(t)
  PROVE  TornDown'
<1>1. CASE ~(nodes = 1 /\ ~final)
  <2>1. Quiet
    BY <1>1, FailGoes DEF Add, Quiet, regVars, nodeVars
  <2>2. QED
    BY <2>1, TornDownOrdinary
<1>2. CASE nodes = 1 /\ ~final
  <2>1. /\ SimTypes /\ stage = "run" /\ stack # <<>> /\ stack[1].kind = "base" /\ stage' = stage
        /\ stack' = stack /\ Len(simulators) \in Nat
        /\ simulators_by_type' = [simulators_by_type EXCEPT ![t] = Len(simulators) + 1]
    BY <1>2, LenProperties DEF Add, UserCode, BaseInv, StageExact, SimTypes
  <2>2. \A u \in Types \ refused : simulators_by_type[u] \in Nat /\ simulators_by_type[u] <= Len(simulators)
    BY <1>2, <2>1 DEF TornDown, SimTypes
  <2>3. \/ simulators' = Append(simulators, t) /\ refused' = refused
        \/ simulators' = simulators /\ refused' = refused \cup {t}
    BY <1>2 DEF Add
  <2>4. simulators' = Append(simulators, t) => Len(simulators') = Len(simulators) + 1
    BY <2>1, AppendProperties DEF SimTypes
  <2>5. \A u \in Types \ refused' : simulators_by_type'[u] <= Len(simulators')
    <3>1. SUFFICES ASSUME NEW u \in Types \ refused'
                   PROVE  simulators_by_type'[u] <= Len(simulators')
      OBVIOUS
    <3>2. simulators_by_type'[u] = IF u = t THEN Len(simulators) + 1 ELSE simulators_by_type[u]
      BY <2>1 DEF SimTypes
    <3>3. u \in Types \ refused
      BY <2>3, <3>1
    <3>4. CASE u = t
      BY <2>1, <2>3, <2>4, <3>1, <3>2, <3>4
    <3>5. CASE u # t
      BY <2>1, <2>2, <2>3, <2>4, <3>2, <3>3, <3>5
    <3>6. QED
      BY <3>4, <3>5
  <2>6. QED
    BY <2>1, <2>5 DEF TornDown
<1>3. QED
  BY <1>1, <1>2

LEMMA TornDownStopAllNext ==
  ASSUME BaseInv, TornDown, StopAllNext
  PROVE  TornDown'
<1>1. /\ SimTypes /\ StageExact /\ stack # <<>> /\ Top.kind = "all" /\ Top.node <= Top.len
      /\ UNCHANGED <<regVars, nodes, final, stage, refused>>
      /\ level' = [level EXCEPT ![Top.node] = "FinalStopped"]
  BY DEF BaseInv, StopAllNext, histVars
<1>2. /\ FrameExact(Top, final, nodes, Len(simulators)) /\ Len(stack) \in DOMAIN stack /\ Top = stack[Len(stack)]
      /\ Top.node \in Nat /\ nodes \in Nat /\ nodes <= MaxNodes
  BY <1>1, TopFacts, SimulatorsAssumption DEF SimTypes, FrameType, NodeIds
<1>3. final /\ Top.node > 0 /\ Top.len = nodes
  BY <1>1, <1>2 DEF FrameExact
<1>4. LevelsKept /\ \A n \in 1 .. nodes : n = Top.node => level'[n] = "FinalStopped"
  BY <1>1, <1>2, SimulatorsAssumption DEF LevelsKept, SimTypes, NodeIds
<1>5. /\ stack'[1].kind = stack[1].kind
      /\ Len(stack) = 1 => stack'[1] = Iterated
      /\ Len(stack) # 1 => stack'[1] = stack[1]
      /\ Iterated.node = Top.node + 1 /\ Iterated.kind = "all"
      /\ \A i \in DOMAIN stack' :
           \/ i \in DOMAIN stack /\ i # Len(stack) /\ stack'[i] = stack[i]
           \/ i = Len(stack) /\ stack'[i] = Iterated
           \/ i = Len(stack) + 1 /\ Top.node \in Running /\ stack'[i] = UserFrame("stop", None, 0, Top.node)
  BY StopAllNextMoves
<1>6. stage' = "pop" => Stopped(nodes + 1)'
  BY <1>1, <1>4, StoppedKept DEF TornDown, Stopped
<1>7. stage' = "stop" /\ stack' # <<>> => Stopped(stack[1].node)'
  <2>1. SUFFICES ASSUME stage = "stop"
                 PROVE  \A n \in 1 .. nodes : n < stack'[1].node => level'[n] = "FinalStopped"
    BY <1>1 DEF Stopped
  <2>2. Stopped(stack[1].node)
    BY <1>1, <2>1 DEF TornDown
  <2>3. CASE Len(stack) = 1
    <3>1. stack'[1].node = Top.node + 1 /\ Stopped(Top.node)
      BY <1>2, <1>5, <2>2, <2>3
    <3>2. \A n \in 1 .. nodes : n < Top.node + 1 => n < Top.node \/ n = Top.node
      BY <1>2
    <3>3. QED
      BY <1>1, <1>4, <3>1, <3>2 DEF Stopped, LevelsKept
  <2>4. CASE Len(stack) # 1
    BY <1>1, <1>4, <1>5, <2>2, <2>4 DEF Stopped, LevelsKept
  <2>5. QED
    BY <2>3, <2>4
<1>8. stack' # <<>> /\ stack'[1].kind = "drop" => Len(simulators') = stack'[1].slot - 1
  BY <1>1, <1>5 DEF TornDown, regVars
<1>9. CASE \A t \in Types \ refused : simulators_by_type[t] <= Len(simulators)
  BY <1>1, <1>6, <1>7, <1>8, <1>9 DEF TornDown, regVars
<1>10. CASE final /\ Stopped(nodes + 1) /\ \A i \in DOMAIN stack : stack[i].kind # "stop"
  <2>1. Stopped(nodes + 1)'
    BY <1>1, <1>4, <1>10, StoppedKept DEF Stopped
  <2>2. Running = {}
    BY <1>2, <1>10 DEF Running, Stopped
  <2>3. \A i \in DOMAIN stack' : stack'[i].kind # "stop"
    BY <1>5, <1>10, <2>2
  <2>4. QED
    BY <1>1, <1>6, <1>7, <1>8, <1>10, <2>1, <2>3 DEF TornDown
<1>11. QED
  BY <1>9, <1>10 DEF TornDown

LEMMA TornDownStopAllReturn ==
  ASSUME BaseInv, TornDown, StopAllReturn, Below = <<>>
  PROVE  TornDown'
<1>1. /\ SimTypes /\ StageExact /\ stack # <<>> /\ Top.kind = "all" /\ Top.node > Top.len
      /\ UNCHANGED <<regVars, nodeVars, refused>> /\ stack' = <<>> /\ stage' = "pop"
  BY DEF BaseInv, StopAllReturn, histVars
<1>2. FrameExact(Top, final, nodes, Len(simulators)) /\ Top \in FrameType /\ On(Below, stack, Top)
  BY <1>1, TopFacts
<1>3. final /\ Top.len = nodes /\ nodes \in Nat /\ Top.node \in Nat
  BY <1>1, <1>2 DEF FrameExact, FrameType, SimTypes, NodeIds
<1>4. stack[1] = Top
  BY <1>2, OnFirst
<1>5. stage = "stop"
  BY <1>1, <1>4 DEF StageExact, SimTypes
<1>6. Stopped(Top.node)
  BY <1>1, <1>4, <1>5 DEF TornDown
<1>7. Stopped(nodes + 1)
  BY <1>1, <1>3, <1>6 DEF Stopped
<1>8. Stopped(nodes + 1)'
  BY <1>1, <1>7 DEF Stopped, nodeVars
<1>9. \A i \in DOMAIN <<>> : stack'[i].kind # "stop"
  BY EmptySeq, LenProperties
<1>10. QED
  BY <1>1, <1>3, <1>8, <1>9 DEF TornDown, nodeVars

LEMMA TornDownDestroy ==
  ASSUME BaseInv, TornDown, BaseReturn \/ Cleanup
  PROVE  TornDown'
<1>1. /\ UNCHANGED <<regVars, nodes, level, refused, lost>>
      /\ stack' = <<StopLoop>> /\ final' = TRUE /\ stage' = "stop"
      /\ stack = <<>> \/ Top.kind = "base"
  BY DEF BaseReturn, Cleanup, histVars
<1>2. DOMAIN stack' = {1} /\ stack'[1] = StopLoop /\ StopLoop.kind = "all" /\ StopLoop.node = INIT
  BY <1>1, DestroyMoves, StopLoopExact DEF regVars, BaseInv
<1>3. Stopped(stack[1].node)'
  BY <1>2 DEF Stopped, INIT
<1>4. \A i \in DOMAIN stack' : stack'[i].kind # "stop"
  BY <1>2
<1>5. CASE \A t \in Types \ refused : simulators_by_type[t] <= Len(simulators)
  BY <1>1, <1>2, <1>3, <1>5 DEF TornDown, regVars
<1>6. CASE Stopped(nodes + 1)
  <2>1. Stopped(nodes + 1)'
    BY <1>1, <1>6 DEF Stopped
  <2>2. QED
    BY <1>1, <1>2, <1>3, <1>4, <2>1 DEF TornDown
<1>7. QED
  BY <1>5, <1>6 DEF TornDown

LEMMA TornDownPop ==
  ASSUME BaseInv, TornDown, PopSimulator
  PROVE  TornDown'
<1>1. StageExact /\ stage = "pop" /\ UNCHANGED <<nodeVars, stage, refused>>
  BY DEF PopSimulator, Popping, histVars, BaseInv
<1>2. final /\ Stopped(nodes + 1)
  BY <1>1 DEF StageExact, TornDown
<1>3. Stopped(nodes + 1)'
  BY <1>1, <1>2 DEF Stopped, nodeVars
<1>4. Len(simulators') = Len(simulators) - 1
  BY PopMoves
<1>5. /\ \A i \in DOMAIN stack' : stack'[i].kind # "stop"
      /\ stack' # <<>> => stack'[1].slot = Len(simulators)
  <2>1. CASE stack' = <<>>
    BY <2>1, EmptySeq, LenProperties
  <2>2. ASSUME NEW f \in FrameType, f.kind = "drop", f.slot = Len(simulators), stack' = <<f>>
        PROVE  <1>5
    <3>1. DOMAIN <<f>> = {1} /\ <<f>>[1] = f
      OBVIOUS
    <3>2. QED
      BY <2>2, <3>1
  <2>3. QED
    BY <2>1, <2>2, PopMoves
<1>6. QED
  BY <1>1, <1>2, <1>3, <1>4, <1>5 DEF TornDown, nodeVars

LEMMA InitTornDown ==
  ASSUME Init
  PROVE  TornDown
<1>1. \A t \in Types : simulators_by_type[t] <= Len(simulators)
  BY EmptySeq DEF Init
<1>2. stack[1].kind = "base"
  BY DEF Init, UserFrame, Frame
<1>3. QED
  BY <1>1, <1>2 DEF Init, TornDown

LEMMA TornDownStep ==
  ASSUME BaseInv, TornDown, [Next]_simVars
  PROVE  TornDown'
<1>1. CASE \E t \in Types : Add(t) \/ With(t)
  BY <1>1, TornDownAdd, TornDownOrdinary
<1>2. CASE \/ \E n \in NodeIds : StopNode(n) \/ StartNode(n)
           \/ CreateNode \/ StopSimulation \/ StopAllReturn \/ Unwind
  BY <1>2, TornDownOrdinary, TornDownStopAllReturn
<1>3. CASE Return
  BY <1>3, TornDownOrdinary, TornDownDestroy DEF Return
<1>4. CASE StopAllNext \/ PopSimulator \/ Cleanup
  BY <1>4, TornDownStopAllNext, TornDownPop, TornDownDestroy
<1>5. CASE \/ \E n \in NodeIds : IndexNode(n)
           \/ \E t \in Types : UnwindNeeds(t)
           \/ UserPanic \/ Finish \/ Ended \/ UNCHANGED simVars
  BY <1>5, QuietSteps, TornDownOrdinary
<1>6. QED
  BY <1>1, <1>2, <1>3, <1>4, <1>5 DEF Next, ApiCall, Library

LEMMA TeardownFollows ==
  ASSUME BaseInv, TornDown
  PROVE  TeardownOrder
<1> SUFFICES ASSUME Active, stage # "run", NEW t \in Types \ refused,
                    simulators_by_type[t] \notin lost \cup {0}
             PROVE  /\ Len(stack) = 2 /\ Top.kind = "stop" => Available(t)
                    /\ Len(stack) = 1 /\ Top.kind = "drop" =>
                         (Available(t) <=> simulators_by_type[t] < Top.slot)
  BY DEF TeardownOrder
<1>1. SimTypes /\ StageExact /\ Fits(simulators, stack, lost)
  BY DEF BaseInv
<1>2. PICK s \in Nat : s = simulators_by_type[t] /\ s # 0 /\ s \notin lost
  BY <1>1 DEF SimTypes
<1>3. Len(simulators) \in Nat /\ DOMAIN simulators = 1 .. Len(simulators) /\ DOMAIN stack = 1 .. Len(stack)
  BY <1>1, LenProperties DEF SimTypes
<1>4. (\A i \in DOMAIN stack : ~Holder(stack[i])) => (Available(t) <=> s <= Len(simulators))
  BY <1>1, <1>2, <1>3 DEF Available, Slots, Fits
<1>5. stack # <<>> => stack[1].kind \in {"all", "drop"}
  BY <1>1 DEF StageExact, SimTypes
<1>6. ASSUME Len(stack) = 2, Top.kind = "stop"
      PROVE  Available(t)
  <2>1. stack[2] = Top /\ stack # <<>> /\ 1 \in DOMAIN stack /\ 2 \in DOMAIN stack
        /\ \A i \in DOMAIN stack : i = 1 \/ i = 2
    BY <1>3, <1>6, EmptySeq DEF Top
  <2>2. \A i \in DOMAIN stack : ~Holder(stack[i])
    BY <1>5, <1>6, <2>1 DEF Holder
  <2>3. s <= Len(simulators)
    BY <1>2, <1>6, <2>1 DEF TornDown
  <2>4. QED
    BY <1>4, <2>2, <2>3
<1>7. ASSUME Len(stack) = 1, Top.kind = "drop"
      PROVE  Available(t) <=> simulators_by_type[t] < Top.slot
  <2>1. stack[1] = Top /\ stack # <<>> /\ \A i \in DOMAIN stack : i = 1
    BY <1>3, <1>7, EmptySeq DEF Top
  <2>2. \A i \in DOMAIN stack : ~Holder(stack[i])
    BY <1>7, <2>1 DEF Holder
  <2>3. Len(simulators) = Top.slot - 1 /\ Top.slot \in Nat
    BY <1>1, <1>7, <2>1, TopFacts DEF TornDown, FrameType
  <2>4. QED
    BY <1>2, <1>3, <1>4, <2>2, <2>3
<1>8. QED
  BY <1>6, <1>7

\* While the teardown drops tasks, every simulator is there for their destructors; while
\* it drops a simulator, those added before it are there and no others.
THEOREM TeardownCorrect == Spec => []TeardownOrder
<1>1. Init => BaseInv /\ TornDown
  BY InitBase, InitTornDown
<1>2. BaseInv /\ TornDown /\ [Next]_simVars => (BaseInv /\ TornDown)'
  BY BaseStep, TornDownStep
<1>3. BaseInv /\ TornDown => TeardownOrder
  BY TeardownFollows
<1>4. QED
  BY <1>1, <1>2, <1>3, PTL DEF Spec

-----------------------------------------------------------------------------
(* How notifications are nested.                                           *)

\* The frame of a notification that goes on: it is about a slot that no frame holds.
LEMMA VisitedCall ==
  ASSUME NEW reg, NEW stk, Under(stk), stk # <<>>, Fits(reg, stk, lost),
         NEW op, NEW s, NEW n, NEW len, Visited(reg, stk, op, s, n, len)
  PROVE  \E f : /\ Shape(stk, f) /\ f.kind = "call" /\ f.op = op /\ f.slot = s /\ f.node = n /\ f.len = len
                /\ stack' = stk => (mode' = mode => s = 0 /\ Len(reg) = len)
                /\ stack' # stk => /\ s \in DOMAIN reg /\ mode' = mode /\ f.sim \in Types
                                   /\ \A j \in DOMAIN stk : Holder(stk[j]) => stk[j].slot # s
<1>1. CASE stack' = stk /\ (mode' = mode => s = 0 /\ Len(reg) = len)
  <2>1. PICK f : f = Frame("call", op, None, s, n, len)
    OBVIOUS
  <2>2. f.kind = "call" /\ f.op = op /\ f.slot = s /\ f.node = n /\ f.len = len
    BY <2>1 DEF Frame
  <2>3. Shape(stk, f)
    BY <1>1 DEF Shape
  <2>4. QED
    BY <1>1, <2>2, <2>3
<1>2. ASSUME NEW t \in Types, s \in DOMAIN reg, reg[s] = t, mode' = mode,
             Frame("call", op, t, s, n, len) \in FrameType,
             On(stk, stack', Frame("call", op, t, s, n, len))
      PROVE  \E f : /\ Shape(stk, f) /\ f.kind = "call" /\ f.op = op /\ f.slot = s /\ f.node = n /\ f.len = len
                    /\ stack' = stk => (mode' = mode => s = 0 /\ Len(reg) = len)
                    /\ stack' # stk => /\ s \in DOMAIN reg /\ mode' = mode /\ f.sim \in Types
                                       /\ \A j \in DOMAIN stk : Holder(stk[j]) => stk[j].slot # s
  <2>1. PICK f : f = Frame("call", op, t, s, n, len)
    OBVIOUS
  <2>2. f.kind = "call" /\ f.op = op /\ f.slot = s /\ f.node = n /\ f.len = len /\ f.sim = t
    BY <2>1 DEF Frame
  <2>3. Shape(stk, f)
    BY <1>2, <2>1 DEF Shape
  <2>4. \A j \in DOMAIN stk : Holder(stk[j]) => stk[j].slot # s
    BY <1>2, NoneAssumption DEF Fits
  <2>5. stack' # stk
    BY <1>2, <2>1, OnFrames
  <2>6. QED
    BY <1>2, <2>2, <2>3, <2>4, <2>5
<1>3. QED
  BY <1>1, <1>2 DEF Visited

LEMMA AheadKept ==
  ASSUME BaseInv, Ahead, NEW stk, NEW f, Shape(stk, f),
         stack' # stk /\ f.kind = "call" =>
           \A j \in DOMAIN stk : Holder(stack[j]) =>
             IF f.op = "create" THEN f.slot < stack[j].slot /\ stack[j].slot <= f.len
                                ELSE stack[j].slot < f.slot
  PROVE  Ahead'
<1>1. /\ \A i \in DOMAIN stack' : \/ i \in DOMAIN stk /\ i \in DOMAIN stack /\ stack'[i] = stack[i]
                                  \/ i = Len(stack') /\ stack'[i] = f /\ stack' # stk
      /\ stack' # stk => \A i \in DOMAIN stk : i \in Nat /\ i < Len(stack')
      /\ stack' # stk => Len(stack') \in DOMAIN stack'
  BY ShapeFrames
<1>2. SUFFICES ASSUME NEW i \in DOMAIN stack', NEW j \in DOMAIN stack', j < i, Holder(stack'[j]),
                      stack'[i].kind = "call"
               PROVE  IF stack'[i].op = "create"
                      THEN stack'[i].slot < stack'[j].slot /\ stack'[j].slot <= stack'[i].len
                      ELSE stack'[j].slot < stack'[i].slot
  BY DEF Ahead
<1>3. CASE i \in DOMAIN stk /\ stack'[i] = stack[i] /\ i \in DOMAIN stack
  <2>1. j \in DOMAIN stack /\ stack'[j] = stack[j]
    <3>1. CASE j = Len(stack') /\ stack' # stk
      <4>1. i \in Nat /\ i < j
        BY <1>1, <1>3, <3>1
      <4>2. j \in Nat
        BY <1>1, <3>1, LenProperties DEF Shape, On
      <4>3. QED
        BY <1>2, <4>1, <4>2
    <3>2. QED
      BY <1>1, <3>1
  <2>2. QED
    BY <1>2, <1>3, <2>1 DEF Ahead
<1>4. CASE i = Len(stack') /\ stack'[i] = f /\ stack' # stk
  <2>1. j # i
    <3>1. i \in Nat
      BY <1>4, LenProperties DEF Shape, On
    <3>2. QED
      BY <1>2, <3>1
  <2>2. j \in DOMAIN stk /\ stack'[j] = stack[j]
    BY <1>1, <1>4, <2>1
  <2>3. QED
    BY <1>2, <1>4, <2>2
<1>5. QED
  BY <1>1, <1>3, <1>4

\* The frame of a notification that begins or goes on is ahead of those that hold simulators.
LEMMA BeginsAhead ==
  ASSUME BaseInv, NEW stk, NEW op, NEW n, Begins(stk, op, n)
  PROVE  \E f : /\ Shape(stk, f) /\ f.kind = "call" /\ f.op = op /\ f.node = n
                /\ f.slot = FirstSlot(op, Len(simulators)) /\ f.len = Len(simulators)
                /\ stack' = stk => (mode' = mode => Len(simulators) = 0)
                /\ stack' # stk => /\ f.slot \in DOMAIN simulators /\ mode' = mode /\ f.sim \in Types
                                   /\ \A j \in DOMAIN stk : Holder(stack[j]) =>
                                        IF op = "create" THEN f.slot < stack[j].slot /\ stack[j].slot <= f.len
                                                         ELSE stack[j].slot < f.slot
<1>1. /\ Visited(simulators, stk, op, FirstSlot(op, Len(simulators)), n, Len(simulators))
      /\ Fits(simulators, stk, lost)
  BY NotifyMoves DEF Begins
<1>2. PICK f : /\ Shape(stk, f) /\ f.kind = "call" /\ f.op = op /\ f.slot = FirstSlot(op, Len(simulators))
               /\ f.node = n /\ f.len = Len(simulators)
               /\ stack' = stk => (mode' = mode => FirstSlot(op, Len(simulators)) = 0)
               /\ stack' # stk => /\ FirstSlot(op, Len(simulators)) \in DOMAIN simulators
                                  /\ mode' = mode /\ f.sim \in Types
                                  /\ \A j \in DOMAIN stk : Holder(stk[j]) => stk[j].slot # FirstSlot(op, Len(simulators))
  BY <1>1, VisitedCall DEF Begins
<1>3. Len(simulators) \in Nat /\ DOMAIN simulators = 1 .. Len(simulators)
  BY LenProperties DEF BaseInv, SimTypes
<1>4. FirstSlot(op, Len(simulators)) = 0 => Len(simulators) = 0
  BY <1>3 DEF FirstSlot
<1>5. ASSUME stack' # stk, NEW j \in DOMAIN stk, Holder(stack[j])
      PROVE  IF op = "create" THEN f.slot < stack[j].slot /\ stack[j].slot <= f.len
                              ELSE stack[j].slot < f.slot
  <2>1. j \in DOMAIN stack /\ stk[j] = stack[j]
    BY UnderFrames DEF Begins
  <2>2. stack[j].slot \in 1 .. Len(simulators) /\ stack[j].slot # f.slot
    BY <1>1, <1>2, <1>3, <1>5, <2>1 DEF Fits
  <2>3. f.slot \in 1 .. Len(simulators) /\ f.slot = IF op = "create" THEN 1 ELSE Len(simulators)
    BY <1>2, <1>3, <1>5 DEF FirstSlot
  <2>4. QED
    BY <1>2, <1>3, <2>2, <2>3
<1>6. QED
  BY <1>2, <1>4, <1>5

LEMMA CallReturnAhead ==
  ASSUME BaseInv, Ahead, CallReturn
  PROVE  \E f : /\ Shape(Below, f) /\ f.kind = "call" /\ f.op = Top.op /\ f.node = Top.node
                /\ f.slot = NextSlot(Top.op, Top.slot, Top.len) /\ f.len = Top.len
                /\ stack' = Below => (mode' = mode => f.slot = 0 /\ Len(simulators) = Top.len)
                /\ stack' # Below => /\ f.slot \in DOMAIN simulators /\ mode' = mode /\ f.sim \in Types
                                     /\ \A j \in DOMAIN Below : Holder(stack[j]) =>
                                          IF f.op = "create" THEN f.slot < stack[j].slot /\ stack[j].slot <= f.len
                                                             ELSE stack[j].slot < f.slot
<1> DEFINE s == NextSlot(Top.op, Top.slot, Top.len)
<1>1. /\ Visited(Swapped, Below, Top.op, s, Top.node, Top.len)
      /\ Fits(Swapped, Below, lost) /\ Under(Below) /\ On(Below, stack, Top)
      /\ Swapped \in Registry /\ Len(Swapped) = Len(simulators)
      /\ Top.op \in {"create", "stop", "start"}
      /\ Top.slot \in 1 .. Len(simulators) /\ Top.len \in Nat /\ Top.len <= Len(simulators)
  BY CallReturnMoves
<1>2. Below # <<>> /\ stack # <<>> /\ Top.kind = "call"
  BY CallReturnShape
<1>3. PICK f : /\ Shape(Below, f) /\ f.kind = "call" /\ f.op = Top.op /\ f.slot = s
               /\ f.node = Top.node /\ f.len = Top.len
               /\ stack' = Below => (mode' = mode => s = 0 /\ Len(Swapped) = Top.len)
               /\ stack' # Below => /\ s \in DOMAIN Swapped /\ mode' = mode /\ f.sim \in Types
                                    /\ \A j \in DOMAIN Below : Holder(Below[j]) => Below[j].slot # s
  BY <1>1, <1>2, VisitedCall
<1>4. /\ Len(simulators) \in Nat /\ DOMAIN simulators = 1 .. Len(simulators)
      /\ DOMAIN Swapped = 1 .. Len(simulators)
  BY <1>1, LenProperties DEF BaseInv, SimTypes, Registry
<1>5. ASSUME stack' # Below, NEW j \in DOMAIN Below, Holder(stack[j])
      PROVE  IF f.op = "create" THEN f.slot < stack[j].slot /\ stack[j].slot <= f.len
                                ELSE stack[j].slot < f.slot
  <2>1. /\ j \in DOMAIN stack /\ Below[j] = stack[j] /\ j < Len(stack)
        /\ Len(stack) \in DOMAIN stack /\ stack[Len(stack)] = Top
    BY <1>1, OnFrames
  <2>2. IF Top.op = "create" THEN Top.slot < stack[j].slot /\ stack[j].slot <= Top.len
                             ELSE stack[j].slot < Top.slot
    BY <1>2, <1>5, <2>1 DEF Ahead
  <2>3. stack[j].slot # s /\ stack[j].slot \in 1 .. Len(simulators)
    BY <1>1, <1>3, <1>4, <1>5, <2>1 DEF Fits
  <2>4. s \in 1 .. Len(simulators)
    BY <1>3, <1>4, <1>5
  <2>5. CASE Top.op = "create"
    <3>1. s = Top.slot + 1
      BY <1>1, <2>4, <2>5 DEF NextSlot
    <3>2. QED
      BY <1>1, <1>3, <2>2, <2>3, <2>5, <3>1
  <2>6. CASE Top.op # "create"
    <3>1. s = Top.slot - 1
      BY <2>6 DEF NextSlot
    <3>2. QED
      BY <1>1, <1>3, <2>2, <2>3, <2>6, <3>1
  <2>7. QED
    BY <2>5, <2>6
<1>6. QED
  BY <1>1, <1>3, <1>4, <1>5

\* With at most one frame nothing is nested.
LEMMA AheadAlone ==
  ASSUME stack' = <<>> \/ DOMAIN stack' = {1}
  PROVE  Ahead'
<1>1. CASE stack' = <<>>
  BY <1>1, EmptySeq, LenProperties DEF Ahead
<1>2. CASE DOMAIN stack' = {1}
  BY <1>2 DEF Ahead
<1>3. QED
  BY <1>1, <1>2

LEMMA AheadStep ==
  ASSUME BaseInv, Ahead, [Next]_simVars
  PROVE  Ahead'
<1>1. ASSUME Quiet PROVE Ahead'
  BY <1>1 DEF Quiet, Ahead
<1>2. ASSUME NEW t \in Types, Add(t) PROVE Ahead'
  BY <1>2 DEF Add, Ahead
<1>3. ASSUME NEW t \in Types, With(t) PROVE Ahead'
  <2>1. CASE Available(t)
    <3>1. PICK f : f = UserFrame("with", t, simulators_by_type[t], 0)
      OBVIOUS
    <3>2. Shape(stack, f) /\ f.kind = "with"
      BY <1>3, <2>1, <3>1, WithShape
    <3>3. QED
      BY <3>2, AheadKept
  <2>2. CASE ~Available(t)
    BY <1>3, <2>2 DEF With, Ahead
  <2>3. QED
    BY <2>1, <2>2
<1>4. ASSUME WithReturn \/ DropReturn \/ Unwind \/ (StopAllReturn /\ Below # <<>>) PROVE Ahead'
  BY <1>4, PopShape, AheadKept, LoopKind
<1>5. ASSUME NEW n \in NodeIds, StopNode(n) PROVE Ahead'
  <2>1. PICK f : f = UserFrame("stop", None, 0, n)
    OBVIOUS
  <2>2. Shape(stack, f) /\ f.kind = "stop"
    BY <1>5, <2>1, StopNodeShape
  <2>3. QED
    BY <2>2, AheadKept
<1>6. ASSUME NEW stk, NEW op, NEW n, Begins(stk, op, n) PROVE Ahead'
  <2>1. PICK f : /\ Shape(stk, f) /\ f.op = op
                 /\ stack' # stk => \A j \in DOMAIN stk : Holder(stack[j]) =>
                                      IF op = "create" THEN f.slot < stack[j].slot /\ stack[j].slot <= f.len
                                                       ELSE stack[j].slot < f.slot
    BY <1>6, BeginsAhead
  <2>2. QED
    BY <2>1, AheadKept
<1>7. ASSUME NEW n \in NodeIds, StartNode(n) PROVE Ahead'
  BY <1>1, <1>6, <1>7, StartNodeShape
<1>8. ASSUME CreateNode PROVE Ahead'
  BY <1>1, <1>6, <1>8, CreateNodeShape
<1>9. ASSUME StopReturn PROVE Ahead'
  BY <1>6, <1>9, StopReturnShape
<1>10. ASSUME StopSimulation PROVE Ahead'
  BY <1>10, StopSimulationShape, AheadKept, LoopKind
<1>11. ASSUME CallReturn PROVE Ahead'
  <2>1. PICK f : /\ Shape(Below, f) /\ f.kind = "call"
                 /\ stack' # Below => \A j \in DOMAIN Below : Holder(stack[j]) =>
                                        IF f.op = "create" THEN f.slot < stack[j].slot /\ stack[j].slot <= f.len
                                                           ELSE stack[j].slot < f.slot
    BY <1>11, CallReturnAhead
  <2>2. QED
    BY <2>1, AheadKept
<1>12. ASSUME StopAllNext PROVE Ahead'
  <2>1. \A i \in DOMAIN stack' : stack'[i].kind \in {"with", "call"} => i \in DOMAIN stack /\ stack'[i] = stack[i]
    <3>1. /\ Iterated.kind = "all"
          /\ \A i \in DOMAIN stack' :
               \/ i \in DOMAIN stack /\ i # Len(stack) /\ stack'[i] = stack[i]
               \/ i = Len(stack) /\ stack'[i] = Iterated
               \/ i = Len(stack) + 1 /\ Top.node \in Running /\ stack'[i] = UserFrame("stop", None, 0, Top.node)
      BY <1>12, StopAllNextMoves
    <3>2. UserFrame("stop", None, 0, Top.node).kind = "stop"
      BY DEF UserFrame, Frame
    <3>3. QED
      BY <3>1, <3>2
  <2>2. QED
    BY <2>1 DEF Ahead, Holder
<1>13. ASSUME StopAllReturn, Below = <<>> PROVE Ahead'
  BY <1>13, AheadAlone DEF StopAllReturn
<1>14. ASSUME BaseReturn \/ Cleanup PROVE Ahead'
  <2>1. DOMAIN stack' = {1}
    BY <1>14, DestroyMoves DEF BaseReturn, Cleanup, regVars, histVars
  <2>2. QED
    BY <2>1, AheadAlone
<1>15. ASSUME PopSimulator PROVE Ahead'
  <2>1. stack' = <<>> \/ \E f : stack' = <<f>>
    BY <1>15, PopMoves
  <2>2. \A f : DOMAIN <<f>> = {1}
    OBVIOUS
  <2>3. QED
    BY <2>1, <2>2, AheadAlone
<1>16. ASSUME \/ \E n \in NodeIds : IndexNode(n)
              \/ \E t \in Types : UnwindNeeds(t)
              \/ UserPanic \/ Finish \/ Ended \/ UNCHANGED simVars
       PROVE  Ahead'
  BY <1>1, <1>16, QuietSteps
<1>17. CASE ApiCall
  BY <1>2, <1>3, <1>5, <1>7, <1>8, <1>10, <1>16, <1>17 DEF ApiCall
<1>18. CASE Return \/ Library
  BY <1>4, <1>9, <1>11, <1>12, <1>13, <1>14, <1>15, <1>16, <1>18 DEF Return, Library
<1>19. QED
  BY <1>16, <1>17, <1>18 DEF Next

-----------------------------------------------------------------------------
(* What simulators know of the nodes that were created.                    *)

\* The frames of notifications of a new node stay as they are.
CreatesKept ==
  \A i : /\ i \in DOMAIN stack' /\ IsCreate(stack'[i]) <=> i \in DOMAIN stack /\ IsCreate(stack[i])
         /\ i \in DOMAIN stack /\ IsCreate(stack[i]) => stack'[i] = stack[i]

LEMMA SeenKept ==
  ASSUME SeenExact, CreatesKept, Kept(simulators, stack, simulators', stack'), UNCHANGED <<seen, nodes>>,
         mode' = "normal" => mode = "normal"
  PROVE  SeenExact'
<1>1. SUFFICES ASSUME mode = "normal", mode' = "normal"
               PROVE  SeenExact'
  BY DEF SeenExact
<1>2. \A s : Creations(s)' = Creations(s)
  BY DEF Creations, CreatesKept
<1>3. \A s \in Nat : \A t \in Types : Lives(simulators', stack', s, t) =>
        seen[t] = [n \in 1 .. nodes - Cardinality(Creations(s)) |-> n]
  BY <1>1 DEF SeenExact, Kept
<1>4. \A i \in DOMAIN stack' : IsCreate(stack'[i]) =>
        /\ nodes > 1
        /\ (\A j \in DOMAIN stack' : IsCreate(stack'[j]) => j <= i) => stack'[i].node = nodes
  <2>1. SUFFICES ASSUME NEW i \in DOMAIN stack', IsCreate(stack'[i])
                 PROVE  /\ nodes > 1
                        /\ (\A j \in DOMAIN stack' : IsCreate(stack'[j]) => j <= i) => stack'[i].node = nodes
    OBVIOUS
  <2>2. i \in DOMAIN stack /\ IsCreate(stack[i]) /\ stack'[i] = stack[i]
    BY <2>1 DEF CreatesKept
  <2>3. (\A j \in DOMAIN stack' : IsCreate(stack'[j]) => j <= i)
          => (\A j \in DOMAIN stack : IsCreate(stack[j]) => j <= i)
    BY DEF CreatesKept
  <2>4. QED
    BY <1>1, <2>2, <2>3 DEF SeenExact
<1>5. QED
  BY <1>2, <1>3, <1>4 DEF SeenExact

LEMMA SeenShape ==
  ASSUME NEW stk, NEW f, Shape(stk, f), stack' # stk => ~IsCreate(f),
         stk = stack \/ (stack # <<>> /\ ~IsCreate(Top))
  PROVE  CreatesKept
<1>1. /\ \A i \in DOMAIN stack' : \/ i \in DOMAIN stk /\ i \in DOMAIN stack /\ stack'[i] = stack[i]
                                  \/ i = Len(stack') /\ stack'[i] = f /\ stack' # stk
      /\ \A i \in DOMAIN stk : i \in DOMAIN stack' /\ i \in DOMAIN stack /\ stack'[i] = stack[i]
  BY ShapeFrames
<1>2. \A i \in DOMAIN stack : i \in DOMAIN stk \/ (stack # <<>> /\ i = Len(stack) /\ stack[i] = Top)
  BY UnderFrames DEF Shape
<1>3. \A i \in DOMAIN stack : IsCreate(stack[i]) => i \in DOMAIN stk
  <2>1. CASE stk = stack
    BY <2>1
  <2>2. CASE ~IsCreate(Top)
    BY <1>2, <2>2
  <2>3. QED
    BY <2>1, <2>2
<1>4. QED
  BY <1>1, <1>3 DEF CreatesKept

\* Each slot has one occupant.
LEMMA OneOccupant ==
  ASSUME BaseInv, NEW s, NEW t \in Types, NEW u \in Types,
         Lives(simulators, stack, s, t), Lives(simulators, stack, s, u)
  PROVE  t = u
<1>1. Fits(simulators, stack, lost)
  BY DEF BaseInv
<1>2. s \in DOMAIN simulators /\ simulators[s] = t /\ t # None => ~\E i \in DOMAIN stack : Holder(stack[i]) /\ stack[i].slot = s
  BY <1>1 DEF Fits
<1>3. s \in DOMAIN simulators /\ simulators[s] = u /\ u # None => ~\E i \in DOMAIN stack : Holder(stack[i]) /\ stack[i].slot = s
  BY <1>1 DEF Fits
<1>4. \A i, j \in DOMAIN stack : Holder(stack[i]) /\ Holder(stack[j]) /\ stack[i].slot = stack[j].slot => i = j
  BY <1>1 DEF Fits
<1>5. QED
  BY <1>2, <1>3, <1>4, NoneAssumption DEF Lives

LEMMA CreationsFinite ==
  ASSUME SimTypes, NEW s
  PROVE  IsFiniteSet(Creations(s)) /\ Cardinality(Creations(s)) \in Nat
<1>1. DOMAIN stack = 1 .. Len(stack) /\ Len(stack) \in Nat
  BY LenProperties DEF SimTypes
<1>2. IsFiniteSet(DOMAIN stack)
  BY <1>1, FS_Interval
<1>3. IsFiniteSet(Creations(s))
  BY <1>2, FS_Subset DEF Creations
<1>4. QED
  BY <1>3, FS_CardinalityType

LEMMA SeenAdd ==
  ASSUME BaseInv, SeenExact, NEW t \in Types, Add(t)
  PROVE  SeenExact'
<1>1. CASE mode' # "normal"
  BY <1>1 DEF SeenExact
<1>2. CASE mode' = "normal"
  <2>1. /\ nodes = 1 /\ ~final /\ simulators_by_type[t] = 0 /\ simulators' = Append(simulators, t)
        /\ seen' = [seen EXCEPT ![t] = <<INIT>>] /\ UNCHANGED <<nodes, stack, mode>>
    BY <1>2 DEF Add, Fail, nodeVars
  <2>2. /\ SimTypes /\ Registered /\ Fits(simulators, stack, lost) /\ lost = {} /\ simulators \in Registry
        /\ mode = "normal"
    BY <1>2, <2>1 DEF BaseInv, SimTypes, Registry, StageExact
  <2>3. \A s \in Nat : \A u \in Types :
          Lives(simulators', stack, s, u) => Lives(simulators, stack, s, u) \/ (s = Len(simulators) + 1 /\ u = t)
    BY <2>1, <2>2, Grown
  <2>4. \A i \in DOMAIN stack : ~IsCreate(stack[i])
    BY <2>1, <2>2 DEF SeenExact
  <2>6. Cardinality({}) = 0
    BY FS_EmptySet
  <2>7. ASSUME NEW s \in Nat, NEW u \in Types, Lives(simulators', stack', s, u)
        PROVE  seen'[u] = [n \in 1 .. nodes' - Cardinality(Creations(s)') |-> n]
    <3>5. Creations(s) = {} /\ Creations(s)' = {}
      BY <2>1, <2>4 DEF Creations
    <3>6. Cardinality(Creations(s)) = 0 /\ Cardinality(Creations(s)') = 0 /\ nodes = 1 /\ nodes' = 1
      BY <2>1, <2>6, <3>5
    <3>1. nodes' - Cardinality(Creations(s)') = 1 /\ nodes - Cardinality(Creations(s)) = 1
      BY <3>6
    <3>2. CASE u = t
      <4>1. seen'[u] = <<1>>
        BY <2>1, <2>2, <3>2 DEF SimTypes, INIT
      <4>2. <<1>> = [n \in 1 .. 1 |-> n]
        OBVIOUS
      <4>3. QED
        BY <3>1, <4>1, <4>2
    <3>3. CASE u # t
      <4>1. Lives(simulators, stack, s, u)
        BY <2>1, <2>3, <2>7, <3>3
      <4>2. seen'[u] = seen[u]
        BY <2>1, <2>2, <3>3 DEF SimTypes
      <4>3. seen[u] = [n \in 1 .. nodes - Cardinality(Creations(s)) |-> n]
        BY <2>2, <4>1 DEF SeenExact
      <4>4. QED
        BY <3>1, <4>2, <4>3
    <3>4. QED
      BY <3>2, <3>3
  <2>8. \A i \in DOMAIN stack' : ~IsCreate(stack'[i])
    BY <2>1, <2>4
  <2>9. QED
    BY <2>7, <2>8 DEF SeenExact
<1>3. QED
  BY <1>1, <1>2

\* A node is created, and the first simulator is told or there is none.
LEMMA SeenCreate ==
  ASSUME BaseInv, SeenExact, CreateNode
  PROVE  SeenExact'
<1>1. CASE mode' # "normal"
  BY <1>1 DEF SeenExact
<1>2. CASE mode' = "normal" /\ Quiet
  <2>1. CreatesKept /\ Kept(simulators, stack, simulators', stack')
    BY <1>2 DEF Quiet, CreatesKept, Kept
  <2>2. QED
    BY <1>2, <2>1, SeenKept DEF Quiet, Going
<1>3. CASE mode' = "normal" /\ Begins(stack, "create", nodes + 1) /\ nodes' = nodes + 1 /\ UNCHANGED seen
  <2>1. /\ SimTypes /\ Fits(simulators, stack, lost) /\ nodes \in Nat \ {0}
        /\ DOMAIN simulators = 1 .. Len(simulators) /\ Len(simulators) \in Nat
    BY LenProperties, SimulatorsAssumption DEF BaseInv, SimTypes, NodeIds
  <2>2. Kept(simulators, stack, simulators', stack') /\ mode = "normal"
    BY <1>3, BeginsShape DEF Moved, Going, Begins
  <2>3. PICK f : /\ Shape(stack, f) /\ f.kind = "call" /\ f.op = "create" /\ f.node = nodes + 1
                 /\ f.slot = FirstSlot("create", Len(simulators))
                 /\ stack' = stack => (mode' = mode => Len(simulators) = 0)
                 /\ stack' # stack => f.slot \in DOMAIN simulators
    BY <1>3, BeginsAhead
  <2>4. \A s \in Nat : \A t \in Types : Lives(simulators', stack', s, t) =>
          Lives(simulators, stack, s, t) /\ s \in 1 .. Len(simulators)
    BY <2>1, <2>2, LivesInSlots DEF Kept
  <2>5. CASE stack' = stack
    <3>1. Len(simulators) = 0
      BY <1>3, <2>2, <2>3, <2>5
    <3>2. \A s \in Nat : \A t \in Types : ~Lives(simulators', stack', s, t)
      BY <2>4, <3>1
    <3>3. \A i \in DOMAIN stack' : ~IsCreate(stack'[i])
      BY <2>1, <2>5, <3>1 DEF Fits, IsCreate, Holder
    <3>4. QED
      BY <3>2, <3>3 DEF SeenExact
  <2>6. CASE stack' # stack
    <3>1. PICK m : m = Len(stack')
      OBVIOUS
    <3>2. /\ m \in DOMAIN stack' /\ stack'[m] = f /\ m \notin DOMAIN stack
          /\ \A i \in DOMAIN stack' : (i \in DOMAIN stack /\ stack'[i] = stack[i]) \/ i = m
          /\ \A i \in DOMAIN stack : i \in DOMAIN stack' /\ stack'[i] = stack[i] /\ i \in Nat /\ i < m
      BY <2>3, <2>6, <3>1, ShapeFrames
    <3>3. IsCreate(f) /\ f.slot = 1
      BY <2>1, <2>3, <2>6 DEF IsCreate, FirstSlot
    <3>4. ASSUME NEW s \in Nat, NEW t \in Types, Lives(simulators', stack', s, t)
          PROVE  seen'[t] = [n \in 1 .. nodes' - Cardinality(Creations(s)') |-> n]
      <4>1. Lives(simulators, stack, s, t) /\ 1 <= s
        BY <2>4, <3>4
      <4>2. Creations(s)' = Creations(s) \cup {m} /\ m \notin Creations(s)
        BY <3>2, <3>3, <4>1 DEF Creations
      <4>3. Cardinality(Creations(s)') = Cardinality(Creations(s)) + 1 /\ Cardinality(Creations(s)) \in Nat
        BY <2>1, <4>2, CreationsFinite, FS_AddElement
      <4>4. nodes' - Cardinality(Creations(s)') = nodes - Cardinality(Creations(s))
        BY <1>3, <2>1, <4>3
      <4>5. seen[t] = [n \in 1 .. nodes - Cardinality(Creations(s)) |-> n]
        BY <2>2, <4>1 DEF SeenExact
      <4>6. QED
        BY <1>3, <4>4, <4>5
    <3>5. ASSUME NEW i \in DOMAIN stack', IsCreate(stack'[i])
          PROVE  /\ nodes' > 1
                 /\ (\A j \in DOMAIN stack' : IsCreate(stack'[j]) => j <= i) => stack'[i].node = nodes'
      <4>1. nodes' > 1
        BY <1>3, <2>1
      <4>2. ASSUME \A j \in DOMAIN stack' : IsCreate(stack'[j]) => j <= i
            PROVE  i = m
        <5>1. m <= i /\ m \in Nat
          BY <3>1, <3>2, <3>3, <4>2, LenProperties, <2>3, <2>6 DEF Shape, On
        <5>2. QED
          BY <3>2, <3>5, <5>1
      <4>3. QED
        BY <1>3, <2>3, <3>2, <4>1, <4>2
    <3>6. QED
      BY <3>4, <3>5 DEF SeenExact
  <2>7. QED
    BY <2>5, <2>6
<1>4. QED
  BY <1>1, <1>2, <1>3, CreateNodeShape

\* A notification of a new node: the list that the simulator of its slot then has.
LEMMA SeenAppend ==
  ASSUME BaseInv, Ahead, SeenExact, CallReturn, Top.op = "create", mode = "normal"
  PROVE  /\ Lives(simulators, stack, Top.slot, Top.sim) /\ Top.node = nodes /\ nodes > 1 /\ nodes \in Nat
         /\ \A i \in DOMAIN Below : IsCreate(stack[i]) => Top.slot < stack[i].slot /\ stack[i].slot <= Top.len
         /\ Append(seen[Top.sim], Top.node) = [n \in 1 .. nodes |-> n]
<1>1. /\ On(Below, stack, Top) /\ Top.slot \in 1 .. Len(simulators) /\ Top.sim \in Types
      /\ Top.slot \in Nat
  BY CallReturnMoves DEF BaseInv, SimTypes
<1>2. stack # <<>> /\ Top.kind = "call" /\ SimTypes /\ nodes \in Nat
  BY CallReturnShape DEF BaseInv, SimTypes, NodeIds
<1>3. PICK m : m = Len(stack)
  OBVIOUS
<1>4. /\ m \in DOMAIN stack /\ stack[m] = Top /\ m \notin DOMAIN Below /\ m \in Nat
      /\ \A i \in DOMAIN stack : i \in DOMAIN Below \/ i = m
      /\ \A i \in DOMAIN Below : i \in DOMAIN stack /\ i \in Nat /\ i < m
  BY <1>1, <1>3, OnFrames
<1>5. IsCreate(Top) /\ Holder(Top)
  BY <1>2 DEF IsCreate, Holder
<1>6. Lives(simulators, stack, Top.slot, Top.sim)
  BY <1>4, <1>5 DEF Lives
<1>7. ASSUME NEW i \in DOMAIN Below, IsCreate(stack[i])
      PROVE  Top.slot < stack[i].slot /\ stack[i].slot <= Top.len
  <2>1. Holder(stack[i])
    BY <1>7 DEF IsCreate, Holder
  <2>2. QED
    BY <1>2, <1>4, <1>7, <2>1 DEF Ahead
<1>8. Top.node = nodes /\ nodes > 1
  <2>1. \A j \in DOMAIN stack : j <= m
    BY <1>4
  <2>2. QED
    BY <1>4, <1>5, <2>1 DEF SeenExact
<1>9. Creations(Top.slot) = {m}
  <2>1. \A i \in DOMAIN Below : IsCreate(stack[i]) => ~(stack[i].slot <= Top.slot)
    <3>1. \A i \in DOMAIN Below : stack[i].slot \in Nat
      BY <1>2, <1>4 DEF SimTypes, FrameExact, FrameType
    <3>2. QED
      BY <1>1, <1>7, <3>1
  <2>2. m \in Creations(Top.slot)
    BY <1>1, <1>4, <1>5 DEF Creations
  <2>3. QED
    BY <1>4, <2>1, <2>2 DEF Creations
<1>10. seen[Top.sim] = [n \in 1 .. nodes - 1 |-> n]
  <2>1. Cardinality(Creations(Top.slot)) = 1
    BY <1>9, FS_Singleton
  <2>2. QED
    BY <1>1, <1>6, <2>1 DEF SeenExact
<1>11. Append(seen[Top.sim], Top.node) = [n \in 1 .. nodes |-> n]
  <2>1. PICK k \in Nat : nodes = k + 1
    <3>1. nodes - 1 \in Nat /\ nodes = (nodes - 1) + 1
      BY <1>2, <1>8
    <3>2. QED
      BY <3>1
  <2>2. PICK s : s = seen[Top.sim]
    OBVIOUS
  <2>3. s = [n \in 1 .. k |-> n]
    BY <1>10, <2>1, <2>2
  <2>4. s \in Seq(Nat) /\ Len(s) = k
    BY <2>3
  <2>5. /\ Append(s, k + 1) \in Seq(Nat) /\ Len(Append(s, k + 1)) = k + 1
        /\ \A i \in 1 .. k : Append(s, k + 1)[i] = s[i]
        /\ Append(s, k + 1)[k + 1] = k + 1
    BY <2>4, AppendProperties
  <2>6. PICK r : r = [n \in 1 .. k + 1 |-> n]
    OBVIOUS
  <2>7. r \in Seq(Nat) /\ Len(r) = k + 1 /\ \A i \in 1 .. k + 1 : r[i] = i
    BY <2>6
  <2>8. \A i \in 1 .. k + 1 : Append(s, k + 1)[i] = r[i]
    BY <2>3, <2>5, <2>7
  <2>9. Append(s, k + 1) = r
    BY <2>5, <2>7, <2>8, SeqEqual
  <2>10. QED
    BY <1>8, <2>1, <2>2, <2>6, <2>9
<1>12. QED
  BY <1>2, <1>6, <1>7, <1>8, <1>11

LEMMA SeenCreateReturn ==
  ASSUME BaseInv, Ahead, SeenExact, CallReturn, Top.op = "create", mode' = "normal"
  PROVE  SeenExact'
<1>1. /\ Moved /\ On(Below, stack, Top) /\ Top.slot \in 1 .. Len(simulators) /\ Top.sim \in Types
      /\ Top.slot \in Nat /\ Top.len \in Nat /\ Top.len <= Len(simulators)
  BY CallReturnMoves DEF BaseInv, SimTypes
<1>2. /\ stack # <<>> /\ Top.kind = "call" /\ SimTypes /\ nodes \in Nat /\ nodes' = nodes
      /\ Fits(simulators, stack, lost) /\ DOMAIN simulators = 1 .. Len(simulators) /\ Len(simulators) \in Nat
  BY CallReturnShape, LenProperties DEF BaseInv, SimTypes, NodeIds
<1>3. mode = "normal" /\ Kept(simulators, stack, simulators', stack')
  BY <1>1, CallReturnShape DEF Moved, Going
<1>4. /\ Lives(simulators, stack, Top.slot, Top.sim) /\ Top.node = nodes /\ nodes > 1
      /\ \A i \in DOMAIN Below : IsCreate(stack[i]) => Top.slot < stack[i].slot /\ stack[i].slot <= Top.len
      /\ Append(seen[Top.sim], Top.node) = [n \in 1 .. nodes |-> n]
  BY <1>3, SeenAppend
<1>5. /\ seen' = [seen EXCEPT ![Top.sim] = Append(seen[Top.sim], Top.node)]
      /\ seen \in [Types -> Seq(NodeIds)]
  BY <1>2 DEF CallReturn, Hear, SimTypes
<1>6. PICK m : m = Len(stack)
  OBVIOUS
<1>7. /\ m \in DOMAIN stack /\ stack[m] = Top /\ m \notin DOMAIN Below /\ m \in Nat
      /\ \A i \in DOMAIN stack : i \in DOMAIN Below \/ i = m
      /\ \A i \in DOMAIN Below : i \in DOMAIN stack /\ i \in Nat /\ i < m /\ stack[i].slot \in Nat
  <2>1. /\ m \in DOMAIN stack /\ stack[m] = Top /\ m \notin DOMAIN Below /\ m \in Nat
        /\ \A i \in DOMAIN stack : i \in DOMAIN Below \/ i = m
        /\ \A i \in DOMAIN Below : i \in DOMAIN stack /\ i \in Nat /\ i < m
    BY <1>1, <1>6, OnFrames
  <2>2. QED
    BY <1>2, <2>1 DEF SimTypes, FrameExact, FrameType
<1>8. IsCreate(Top)
  BY <1>2 DEF IsCreate
<1>9. PICK f : /\ Shape(Below, f) /\ f.kind = "call" /\ f.op = "create" /\ f.node = nodes
               /\ f.slot = NextSlot("create", Top.slot, Top.len)
               /\ stack' = Below => (mode' = mode => f.slot = 0 /\ Len(simulators) = Top.len)
               /\ stack' # Below => f.slot \in DOMAIN simulators
  BY <1>4, CallReturnAhead
<1>10. /\ \A i \in DOMAIN stack' : \/ i \in DOMAIN Below /\ stack'[i] = stack[i]
                                   \/ i = Len(stack') /\ stack'[i] = f /\ stack' # Below
       /\ \A i \in DOMAIN Below : i \in DOMAIN stack' /\ stack'[i] = stack[i]
       /\ stack' # Below => Len(stack') \in DOMAIN stack' /\ stack'[Len(stack')] = f
  BY <1>9, ShapeFrames
<1>11. stack' # Below => f.slot = Top.slot + 1 /\ Len(stack') = m
  <2>1. SUFFICES ASSUME stack' # Below
                 PROVE  f.slot = Top.slot + 1 /\ Len(stack') = m
    OBVIOUS
  <2>2. f.slot # 0
    BY <1>2, <1>9, <2>1
  <2>3. Len(stack') = Len(Below) + 1 /\ Len(stack) = Len(Below) + 1
    BY <1>1, <1>9, <2>1 DEF Shape, On
  <2>4. QED
    BY <1>6, <1>9, <2>2, <2>3 DEF NextSlot
<1>12. stack' = Below => Top.slot = Len(simulators)
  <2>1. SUFFICES ASSUME stack' = Below
                 PROVE  Top.slot = Len(simulators)
    OBVIOUS
  <2>2. f.slot = 0 /\ Len(simulators) = Top.len
    BY <1>3, <1>9, <2>1
  <2>3. ~(Top.slot < Top.len)
    BY <1>1, <1>9, <2>2 DEF NextSlot
  <2>4. QED
    BY <1>1, <1>2, <2>2, <2>3
<1>13. ASSUME NEW s \in Nat, NEW t \in Types, Lives(simulators', stack', s, t)
       PROVE  seen'[t] = [n \in 1 .. nodes - Cardinality(Creations(s)') |-> n]
  <2>1. Lives(simulators, stack, s, t)
    BY <1>3, <1>13 DEF Kept
  <2>2. s \in 1 .. Len(simulators)
    BY <1>2, <2>1, LivesInSlots
  <2>3. CASE t = Top.sim
    <3>1. s = Top.slot
      BY <1>1, <1>4, <2>1, <2>3 DEF BaseInv, Registered
    <3>2. Creations(s)' = {}
      <4>1. \A i \in DOMAIN Below : IsCreate(stack[i]) => ~(stack[i].slot <= s)
        BY <1>1, <1>4, <1>7, <3>1
      <4>2. stack' # Below => ~(f.slot <= s)
        BY <1>1, <1>11, <3>1
      <4>3. \A i \in DOMAIN stack' : IsCreate(stack'[i]) => ~(stack'[i].slot <= s)
        BY <1>10, <4>1, <4>2
      <4>4. QED
        BY <4>3 DEF Creations
    <3>3. nodes - Cardinality(Creations(s)') = nodes
      BY <1>2, <3>2, FS_EmptySet
    <3>4. seen'[t] = Append(seen[Top.sim], Top.node)
      BY <1>1, <1>5, <2>3
    <3>5. QED
      BY <1>4, <3>3, <3>4
  <2>4. CASE t # Top.sim
    <3>1. s # Top.slot
      BY <1>1, <1>4, <2>1, <2>4, OneOccupant
    <3>2. Creations(s)' = Creations(s)
      <4>1. CASE stack' = Below
        <5>1. ~(Top.slot <= s)
          BY <1>2, <1>12, <2>2, <3>1, <4>1
        <5>2. m \notin Creations(s)
          BY <1>7, <5>1 DEF Creations
        <5>3. QED
          BY <1>7, <1>10, <4>1, <5>2 DEF Creations
      <4>2. CASE stack' # Below
        <5>1. f.slot <= s <=> Top.slot <= s
          BY <1>1, <1>11, <3>1, <4>2
        <5>2. IsCreate(f) /\ m \in DOMAIN stack' /\ stack'[m] = f
          BY <1>9, <1>10, <1>11, <4>2 DEF IsCreate
        <5>3. \A i \in DOMAIN stack' : i \in DOMAIN Below \/ i = m
          BY <1>10, <1>11
        <5>4. m \in Creations(s)' <=> m \in Creations(s)
          BY <1>7, <1>8, <5>1, <5>2 DEF Creations
        <5>5. \A i \in DOMAIN Below : i \in Creations(s)' <=> i \in Creations(s)
          BY <1>7, <1>10 DEF Creations
        <5>6. \A i : i \in Creations(s)' \cup Creations(s) => i \in DOMAIN Below \/ i = m
          BY <1>7, <5>3 DEF Creations
        <5>7. QED
          BY <5>4, <5>5, <5>6
      <4>3. QED
        BY <4>1, <4>2
    <3>3. seen'[t] = seen[t]
      BY <1>5, <2>4
    <3>4. seen[t] = [n \in 1 .. nodes - Cardinality(Creations(s)) |-> n]
      BY <1>3, <2>1 DEF SeenExact
    <3>5. QED
      BY <3>2, <3>3, <3>4
  <2>5. QED
    BY <2>3, <2>4
<1>14. ASSUME NEW i \in DOMAIN stack', IsCreate(stack'[i])
       PROVE  /\ nodes > 1
              /\ (\A j \in DOMAIN stack' : IsCreate(stack'[j]) => j <= i) => stack'[i].node = nodes
  <2>1. CASE stack' = Below
    <3>1. Top.slot < stack[i].slot /\ stack[i].slot <= Top.len /\ stack[i].slot \in Nat
      BY <1>4, <1>7, <1>10, <1>14, <2>1
    <3>2. QED
      BY <1>1, <1>2, <1>12, <2>1, <3>1
  <2>2. CASE stack' # Below
    <3>1. IsCreate(f) /\ m \in DOMAIN stack' /\ stack'[m] = f
      BY <1>9, <1>10, <1>11, <2>2 DEF IsCreate
    <3>2. ASSUME \A j \in DOMAIN stack' : IsCreate(stack'[j]) => j <= i
          PROVE  i = m
      <4>1. m <= i
        BY <3>1, <3>2
      <4>2. i \in DOMAIN Below \/ i = m
        BY <1>10, <1>11
      <4>3. QED
        BY <1>7, <4>1, <4>2
    <3>3. QED
      BY <1>4, <1>9, <3>1, <3>2
  <2>3. QED
    BY <2>1, <2>2
<1>15. QED
  BY <1>2, <1>13, <1>14 DEF SeenExact

\* What the other steps do to the frames of notifications of a new node.
LEMMA SeenStep ==
  ASSUME BaseInv, Ahead, SeenExact, [Next]_simVars
  PROVE  SeenExact'
<1> SUFFICES ASSUME mode' = "normal"
             PROVE  SeenExact'
  BY DEF SeenExact
<1>1. ASSUME Quiet PROVE SeenExact'
  <2>1. CreatesKept /\ Kept(simulators, stack, simulators', stack')
    BY <1>1 DEF Quiet, CreatesKept, Kept
  <2>2. QED
    BY <1>1, <2>1, SeenKept DEF Quiet, Going
<1>2. ASSUME NEW stk, NEW f, Shape(stk, f), stack' # stk => ~IsCreate(f),
             stk = stack \/ (stack # <<>> /\ ~IsCreate(Top)), Moved, UNCHANGED <<seen, nodes>>
      PROVE  SeenExact'
  <2>1. CreatesKept
    BY <1>2, SeenShape
  <2>2. QED
    BY <1>2, <2>1, SeenKept DEF Moved, Going
<1>3. ASSUME NEW t \in Types, With(t) PROVE SeenExact'
  <2>1. CASE Available(t)
    <3>1. PICK f : f = UserFrame("with", t, simulators_by_type[t], 0)
      OBVIOUS
    <3>2. Shape(stack, f) /\ f.kind = "with" /\ Moved /\ UNCHANGED <<seen, nodes>>
      BY <1>3, <2>1, <3>1, WithShape
    <3>3. QED
      BY <1>2, <3>2 DEF IsCreate
  <2>2. CASE ~Available(t)
    <3>1. Quiet
      BY <1>3, <2>2, FailGoes DEF With, Quiet, regVars, nodeVars, histVars
    <3>2. QED
      BY <1>1, <3>1
  <2>3. QED
    BY <2>1, <2>2
<1>4. ASSUME WithReturn \/ DropReturn \/ Unwind \/ (StopAllReturn /\ Below # <<>>) PROVE SeenExact'
  <2>1. /\ Moved /\ Shape(Below, StopLoop) /\ stack' = Below /\ UNCHANGED <<seen, nodes>>
        /\ mode' = mode /\ Top.kind \in {"with", "drop", "all"}
    BY <1>4, PopShape
  <2>2. stack # <<>> /\ ~IsCreate(Top)
    BY <1>4, <2>1 DEF WithReturn, DropReturn, Unwind, StopAllReturn, UserCode, IsCreate
  <2>3. QED
    BY <1>2, <2>1, <2>2
<1>5. ASSUME NEW n \in NodeIds, StopNode(n) PROVE SeenExact'
  <2>1. PICK f : f = UserFrame("stop", None, 0, n)
    OBVIOUS
  <2>2. Shape(stack, f) /\ f.kind = "stop" /\ Moved /\ UNCHANGED <<seen, nodes>>
    BY <1>5, <2>1, StopNodeShape DEF StopNode
  <2>3. QED
    BY <1>2, <2>2 DEF IsCreate
<1>6. ASSUME StopSimulation PROVE SeenExact'
  <2>1. Shape(stack, StopLoop) /\ Moved /\ UNCHANGED <<seen, nodes>>
    BY <1>6, StopSimulationShape DEF StopSimulation
  <2>2. ~IsCreate(StopLoop)
    BY LoopKind DEF IsCreate
  <2>3. QED
    BY <1>2, <2>1, <2>2
<1>7. ASSUME NEW stk, NEW op, NEW n, Begins(stk, op, n), op # "create", UNCHANGED <<seen, nodes>>,
             stk = stack \/ (stack # <<>> /\ ~IsCreate(Top))
      PROVE  SeenExact'
  <2>1. PICK f : Shape(stk, f) /\ f.op = op
    BY <1>7, BeginsAhead
  <2>2. Moved /\ ~IsCreate(f)
    BY <1>7, <2>1, BeginsShape DEF IsCreate
  <2>3. QED
    BY <1>2, <1>7, <2>1, <2>2
<1>8. ASSUME NEW n \in NodeIds, StartNode(n) PROVE SeenExact'
  BY <1>1, <1>7, <1>8, StartNodeShape
<1>9. ASSUME StopReturn PROVE SeenExact'
  <2>1. Begins(Below, "stop", Top.node) /\ UNCHANGED <<seen, nodes>> /\ stack # <<>> /\ ~IsCreate(Top)
    BY <1>9, StopReturnShape DEF IsCreate
  <2>2. QED
    BY <1>7, <2>1
<1>10. ASSUME CallReturn PROVE SeenExact'
  <2>1. CASE Top.op = "create"
    BY <1>10, <2>1, SeenCreateReturn
  <2>2. CASE Top.op # "create"
    <3>1. PICK f : Shape(Below, f) /\ f.op = Top.op
      BY <1>10, CallReturnAhead
    <3>2. Moved /\ stack # <<>> /\ ~IsCreate(Top) /\ ~IsCreate(f) /\ UNCHANGED <<seen, nodes>>
      BY <1>10, <2>2, <3>1, CallReturnMoves, CallReturnShape DEF IsCreate, CallReturn, Hear
    <3>3. QED
      BY <1>2, <3>1, <3>2
  <2>3. QED
    BY <2>1, <2>2
<1>11. ASSUME StopAllNext PROVE SeenExact'
  <2>1. /\ Iterated.kind = "all" /\ Moved
        /\ \A i \in DOMAIN stack' :
             \/ i \in DOMAIN stack /\ i # Len(stack) /\ stack'[i] = stack[i]
             \/ i = Len(stack) /\ stack'[i] = Iterated
             \/ i = Len(stack) + 1 /\ Top.node \in Running /\ stack'[i] = UserFrame("stop", None, 0, Top.node)
        /\ \A i \in DOMAIN stack : i \in DOMAIN stack' /\ (i # Len(stack) => stack'[i] = stack[i])
    BY <1>11, StopAllNextMoves
  <2>2. UserFrame("stop", None, 0, Top.node).kind = "stop" /\ stack[Len(stack)].kind = "all"
    BY <1>11 DEF UserFrame, Frame, StopAllNext, Top
  <2>3. CreatesKept
    BY <2>1, <2>2 DEF CreatesKept, IsCreate
  <2>4. UNCHANGED <<seen, nodes>> /\ mode' = mode
    BY <1>11 DEF StopAllNext
  <2>5. QED
    BY <2>1, <2>3, <2>4, SeenKept DEF Moved
<1>12. ASSUME StopAllReturn, Below = <<>> PROVE SeenExact'
  <2>1. stack # <<>> /\ Top.kind = "all" /\ ~Holder(Top) /\ ~IsCreate(Top) /\ stack' = Below
        /\ UNCHANGED <<simulators, lost, mode, seen, nodes>>
    BY <1>12 DEF StopAllReturn, regVars, nodeVars, histVars, Holder, IsCreate
  <2>2. Moved /\ Shape(Below, StopLoop)
    BY <2>1, PlainPop DEF Shape
  <2>3. QED
    BY <1>2, <2>1, <2>2
<1>13. ASSUME BaseReturn \/ Cleanup PROVE SeenExact'
  <2>1. /\ mode = "normal" /\ Top.kind = "base" /\ stack # <<>> /\ UNCHANGED <<seen, nodes, simulators, lost>>
        /\ stack' = <<StopLoop>> /\ final' = TRUE
    BY <1>13 DEF BaseReturn, Cleanup, UserCode, regVars, histVars
  <2>2. /\ Kept(simulators, stack, simulators', stack') /\ DOMAIN stack' = {1} /\ stack'[1] = StopLoop
    BY <2>1, DestroyMoves
  <2>3. \A i \in DOMAIN stack' : ~IsCreate(stack'[i])
    BY <2>2, LoopKind DEF IsCreate
  <2>4. \A i \in DOMAIN stack : ~IsCreate(stack[i])
    <3>1. /\ Top = stack[Len(stack)] /\ Len(stack) \in DOMAIN stack /\ Len(stack) \in Nat \ {0}
          /\ On(Below, stack, Top)
      BY <2>1, TopFacts DEF BaseInv
    <3>2. ~(Len(stack) > 1)
      BY <2>1, <3>1 DEF BaseInv, StageExact
    <3>3. \A i \in DOMAIN stack : i \in Nat \ {0} /\ i <= Len(stack)
      BY <3>1, OnFrames
    <3>4. \A i \in DOMAIN stack : i = Len(stack)
      BY <3>1, <3>2, <3>3
    <3>5. QED
      BY <2>1, <3>1, <3>4 DEF IsCreate
  <2>5. CreatesKept
    BY <2>3, <2>4 DEF CreatesKept
  <2>6. QED
    BY <2>1, <2>2, <2>5, SeenKept
<1>14. ASSUME PopSimulator PROVE SeenExact'
  <2>1. /\ Kept(simulators, stack, simulators', stack') /\ UNCHANGED <<seen, nodes>> /\ stack = <<>>
        /\ Going
    BY <1>14, PopMoves DEF PopSimulator, nodeVars
  <2>2. PICK f : f.kind = "drop" /\ stack' = <<f>>
    BY <1>14, PopMoves
  <2>3. DOMAIN <<f>> = {1} /\ <<f>>[1] = f
    OBVIOUS
  <2>4. \A i \in DOMAIN stack' : ~IsCreate(stack'[i])
    BY <2>2, <2>3 DEF IsCreate
  <2>5. \A i \in DOMAIN stack : ~IsCreate(stack[i])
    BY <2>1, EmptySeq, LenProperties
  <2>6. CreatesKept
    BY <2>4, <2>5 DEF CreatesKept
  <2>7. QED
    BY <2>1, <2>6, SeenKept DEF Going
<1>15. ASSUME \/ \E n \in NodeIds : IndexNode(n)
              \/ \E t \in Types : UnwindNeeds(t)
              \/ UserPanic \/ Finish \/ Ended \/ UNCHANGED simVars
       PROVE  SeenExact'
  BY <1>1, <1>15, QuietSteps
<1>16. CASE ApiCall
  BY <1>3, <1>5, <1>6, <1>8, <1>15, <1>16, SeenAdd, SeenCreate DEF ApiCall
<1>17. CASE Return \/ Library
  BY <1>4, <1>9, <1>10, <1>11, <1>12, <1>13, <1>14, <1>15, <1>17 DEF Return, Library
<1>18. QED
  BY <1>15, <1>16, <1>17 DEF Next

LEMMA InitSeen ==
  ASSUME Init
  PROVE  Ahead /\ SeenExact
<1>1. PICK f : f = UserFrame("base", None, 0, INIT)
  OBVIOUS
<1>2. f.kind = "base" /\ DOMAIN <<f>> = {1} /\ <<f>>[1] = f /\ stack = <<f>> /\ DOMAIN simulators = {}
  <2>1. f.kind = "base"
    BY <1>1 DEF UserFrame, Frame
  <2>2. DOMAIN <<f>> = {1} /\ <<f>>[1] = f
    OBVIOUS
  <2>3. stack = <<f>> /\ simulators = <<>>
    BY <1>1 DEF Init
  <2>4. DOMAIN simulators = {}
    BY <2>3, EmptySeq, LenProperties
  <2>5. QED
    BY <2>1, <2>2, <2>3, <2>4
<1>3. Ahead
  BY <1>2 DEF Ahead
<1>4. \A s \in Nat : \A t \in Types : ~Lives(simulators, stack, s, t)
  BY <1>2 DEF Lives, Holder
<1>5. \A i \in DOMAIN stack : ~IsCreate(stack[i])
  BY <1>2 DEF IsCreate
<1>6. QED
  BY <1>3, <1>4, <1>5 DEF SeenExact

\* A node has an entry in every PerNode, at its own index, as soon as create_node has told
\* the simulator, also while creations are nested (simulator.rs:127).
THEOREM PerNodeCorrect == Spec => []PerNodeComplete
<1>1. Init => BaseInv /\ Ahead /\ SeenExact
  BY InitBase, InitSeen
<1>2. BaseInv /\ Ahead /\ SeenExact /\ [Next]_simVars => (BaseInv /\ Ahead /\ SeenExact)'
  BY BaseStep, AheadStep, SeenStep
<1>3. BaseInv /\ SeenExact => PerNodeComplete
  <2>1. SUFFICES ASSUME BaseInv, SeenExact, mode = "normal", NEW s \in Slots
                 PROVE  LET untold == {i \in DOMAIN stack :
                                         stack[i].kind = "call" /\ stack[i].op = "create" /\ stack[i].slot <= s}
                        IN  seen[Occupant(s)] = [n \in 1 .. nodes - Cardinality(untold) |-> n]
    BY DEF PerNodeComplete
  <2>2. s \in Slots \ lost
    BY <2>1 DEF BaseInv, StageExact
  <2>3. Occupant(s) \in Types /\ s \in Nat /\ Lives(simulators, stack, s, Occupant(s))
    BY <2>1, <2>2, OccupantLives
  <2>4. seen[Occupant(s)] = [n \in 1 .. nodes - Cardinality(Creations(s)) |-> n]
    BY <2>1, <2>3 DEF SeenExact
  <2>5. Creations(s) = {i \in DOMAIN stack :
                          stack[i].kind = "call" /\ stack[i].op = "create" /\ stack[i].slot <= s}
    BY DEF Creations, IsCreate
  <2>6. QED
    BY <2>4, <2>5
<1>4. QED
  BY <1>1, <1>2, <1>3, PTL DEF Spec


-----------------------------------------------------------------------------
(* What simulators know of the nodes that run.                             *)

\* The frames from which simulators are told something.
Telling(f) == f.kind \in {"stop", "call"}

\* A notification that is doomed does not end without the panic.
LEMMA DoomedShape ==
  ASSUME BaseInv, Doomed, NEW stk, NEW f, Shape(stk, f),
         \/ stk = stack
         \/ stack # <<>> /\ ~Telling(Top)
         \/ stack' # stk /\ f.kind = "call"
         \/ stack' = stk /\ \A j \in DOMAIN stk : ~Holder(stack[j])
  PROVE  Doomed'
<1>1. /\ \A i \in DOMAIN stk : i \in DOMAIN stack' /\ stack'[i] = stack[i]
      /\ stack' # stk => /\ Len(stack') \in DOMAIN stack' /\ stack'[Len(stack')] = f
                         /\ \A i \in DOMAIN stk : i < Len(stack')
  BY ShapeFrames
<1>2. \A i \in DOMAIN stack : i \in DOMAIN stk \/ (stack # <<>> /\ i = Len(stack) /\ stack[i] = Top)
  BY UnderFrames DEF Shape
<1>3. PICK i, j \in DOMAIN stack : j < i /\ Holder(stack[j]) /\ Telling(stack[i])
  BY DEF Doomed, Telling
<1>4. j \in DOMAIN stk
  <2>1. DOMAIN stack = 1 .. Len(stack) /\ Len(stack) \in Nat
    BY LenProperties DEF BaseInv, SimTypes
  <2>2. j # Len(stack)
    BY <1>3, <2>1
  <2>3. QED
    BY <1>2, <2>2
<1>5. CASE i \in DOMAIN stk
  <2>1. stack'[i] = stack[i] /\ stack'[j] = stack[j] /\ i \in DOMAIN stack' /\ j \in DOMAIN stack'
    BY <1>1, <1>4, <1>5
  <2>2. QED
    BY <1>3, <2>1 DEF Doomed, Telling
<1>6. CASE i \notin DOMAIN stk
  <2>1. stack[i] = Top /\ stk # stack
    BY <1>2, <1>6
  <2>2. stack' # stk /\ f.kind = "call"
    BY <1>3, <1>4, <2>1
  <2>3. PICK m : m = Len(stack')
    OBVIOUS
  <2>4. m \in DOMAIN stack' /\ j \in DOMAIN stack' /\ j < m /\ Holder(stack'[j]) /\ stack'[m].kind = "call"
    BY <1>1, <1>3, <1>4, <2>2, <2>3
  <2>5. QED
    BY <2>4 DEF Doomed
<1>7. QED
  BY <1>5, <1>6

\* Those frames stay as they are.
TellingKept ==
  \A i : /\ i \in DOMAIN stack' /\ Telling(stack'[i]) <=> i \in DOMAIN stack /\ Telling(stack[i])
         /\ i \in DOMAIN stack /\ Telling(stack[i]) => stack'[i] = stack[i]

LEMMA TellingShape ==
  ASSUME NEW stk, NEW f, Shape(stk, f), stack' # stk => ~Telling(f),
         stk = stack \/ (stack # <<>> /\ ~Telling(Top))
  PROVE  TellingKept
<1>1. /\ \A i \in DOMAIN stack' : \/ i \in DOMAIN stk /\ i \in DOMAIN stack /\ stack'[i] = stack[i]
                                  \/ i = Len(stack') /\ stack'[i] = f /\ stack' # stk
      /\ \A i \in DOMAIN stk : i \in DOMAIN stack' /\ i \in DOMAIN stack /\ stack'[i] = stack[i]
  BY ShapeFrames
<1>2. \A i \in DOMAIN stack : i \in DOMAIN stk \/ (stack # <<>> /\ i = Len(stack) /\ stack[i] = Top)
  BY UnderFrames DEF Shape
<1>3. \A i \in DOMAIN stack : Telling(stack[i]) => i \in DOMAIN stk
  <2>1. CASE stk = stack
    BY <2>1
  <2>2. CASE ~Telling(Top)
    BY <1>2, <2>2
  <2>3. QED
    BY <2>1, <2>2
<1>4. QED
  BY <1>1, <1>3 DEF TellingKept

LEMMA StopsFollow ==
  ASSUME StopsExact, UNCHANGED <<nodes, level, overtaken>>, \A n \in NodeIds : Stopping(n)' => Stopping(n)
  PROVE  StopsExact'
BY DEF StopsExact, Running

LEMMA ViewsKept ==
  ASSUME ViewsExact, TellingKept, Kept(simulators, stack, simulators', stack'),
         UNCHANGED <<view, nodes, level, overtaken>>,
         mode' = "normal" => mode = "normal", mode' = "normal" /\ Doomed => Doomed'
  PROVE  ViewsExact'
<1>1. Running' = Running
  BY DEF Running
<1>2. \A n : Stopping(n)' <=> Stopping(n)
  BY DEF Stopping, TellingKept, Telling
<1>3. StopsExact'
  BY <1>2, StopsFollow DEF ViewsExact
<1>4. SUFFICES ASSUME mode = "normal", ~Doomed
               PROVE  /\ CallsExact'
                      /\ \A s \in Nat : \A t \in Types : Lives(simulators', stack', s, t) =>
                           \A n \in NodeIds \ overtaken' : Told(s, t, n)'
  BY <1>3 DEF ViewsExact
<1>5. CallsExact'
  <2>1. CallsExact
    BY <1>4 DEF ViewsExact
  <2>2. QED
    BY <1>1, <2>1 DEF CallsExact, TellingKept, Telling
<1>6. ASSUME NEW s \in Nat, NEW t \in Types, Lives(simulators', stack', s, t), NEW n \in NodeIds \ overtaken'
      PROVE  Told(s, t, n)'
  <2>1. Told(s, t, n)
    BY <1>4, <1>6 DEF ViewsExact, Kept
  <2>2. \A i \in DOMAIN stack : Untold(stack[i], s) => i \in DOMAIN stack' /\ stack'[i] = stack[i]
    BY DEF TellingKept, Telling, Untold
  <2>3. (\E i \in DOMAIN stack : Untold(stack[i], s) /\ stack[i].node = n)
          => \E i \in DOMAIN stack' : Untold(stack'[i], s) /\ stack'[i].node = n
    BY <2>2
  <2>4. QED
    BY <1>1, <1>2, <2>1, <2>3 DEF Told
<1>7. QED
  BY <1>5, <1>6

\* A node that runs is stopped, by itself or by the loop of stop_simulation.
LEMMA ViewsStop ==
  ASSUME BaseInv, ViewsExact, Kept(simulators, stack, simulators', stack'), NEW n \in 1 .. nodes, NEW l,
         l # "Running", level' = [level EXCEPT ![n] = l], UNCHANGED <<view, nodes, overtaken, mode>>,
         NEW m \in Nat, \A i \in DOMAIN stack : i < m,
         \A i \in DOMAIN stack : i \in DOMAIN stack' /\ (stack[i].kind = "all" \/ stack'[i] = stack[i]),
         \A i \in DOMAIN stack' : \/ i \in DOMAIN stack /\ (stack'[i].kind = "all" \/ stack'[i] = stack[i])
                                  \/ i = m /\ n \in Running,
         n \in Running => m \in DOMAIN stack' /\ stack'[m].kind = "stop" /\ stack'[m].node = n
  PROVE  ViewsExact'
<1>1. /\ nodes \in NodeIds /\ level \in [NodeIds -> RunLevels] /\ 1 .. nodes \subseteq NodeIds
      /\ Fits(simulators, stack, lost)
  BY SimulatorsAssumption DEF BaseInv, SimTypes, NodeIds
<1>2. Running' = Running \ {n}
  BY <1>1 DEF Running
<1>3. m \notin DOMAIN stack
  <2>1. ~(m < m)
    OBVIOUS
  <2>2. QED
    BY <2>1
<1>4. /\ \A k : Stopping(k) => Stopping(k)'
      /\ \A k : Stopping(k)' => Stopping(k) \/ (k = n /\ n \in Running)
      /\ n \in Running => Stopping(n)'
  BY DEF Stopping
<1>5. StopsExact'
  <2>1. ASSUME NEW k \in NodeIds, Stopping(k)'
        PROVE  k <= nodes' /\ (k \in overtaken' \/ k \notin Running')
    <3>1. CASE k = n
      BY <1>2, <3>1
    <3>2. CASE k # n
      BY <1>2, <1>4, <2>1, <3>2 DEF ViewsExact, StopsExact
    <3>3. QED
      BY <3>1, <3>2
  <2>2. ASSUME NEW k \in NodeIds, k > nodes'
        PROVE  level'[k] = "Running"
    <3>1. k # n
      BY <1>1, <2>2 DEF NodeIds
    <3>2. level[k] = "Running"
      BY <2>2 DEF ViewsExact, StopsExact
    <3>3. QED
      BY <1>1, <3>1, <3>2
  <2>3. QED
    BY <2>1, <2>2 DEF StopsExact
<1>6. Doomed => Doomed'
  BY DEF Doomed, Holder
<1>7. n \in Running /\ ~Doomed' => \A i \in DOMAIN stack : ~Holder(stack[i])
  <2>1. SUFFICES ASSUME n \in Running, NEW i \in DOMAIN stack, Holder(stack[i])
                 PROVE  Doomed'
    OBVIOUS
  <2>2. i \in DOMAIN stack' /\ Holder(stack'[i]) /\ i < m
    BY <2>1 DEF Holder
  <2>3. m \in DOMAIN stack' /\ stack'[m].kind \in {"stop", "call"}
    BY <2>1
  <2>4. QED
    BY <2>2, <2>3 DEF Doomed
<1>8. SUFFICES ASSUME mode = "normal", ~Doomed'
               PROVE  /\ CallsExact'
                      /\ \A s \in Nat : \A t \in Types : Lives(simulators', stack', s, t) =>
                           \A k \in NodeIds \ overtaken' : Told(s, t, k)'
  BY <1>5 DEF ViewsExact
<1>9. /\ CallsExact
      /\ \A s \in Nat : \A t \in Types : Lives(simulators, stack, s, t) =>
           \A k \in NodeIds \ overtaken : Told(s, t, k)
  BY <1>6, <1>8 DEF ViewsExact
<1>10. ASSUME NEW i \in DOMAIN stack', stack'[i].kind = "call"
       PROVE  /\ i \in DOMAIN stack /\ stack'[i] = stack[i]
              /\ n \notin Running
  <2>1. i # m \/ n \notin Running
    BY <1>10
  <2>2. i \in DOMAIN stack /\ stack'[i] = stack[i]
    BY <1>10, <2>1
  <2>3. QED
    BY <1>7, <1>8, <1>10, <2>2 DEF Holder
<1>11. CallsExact'
  BY <1>2, <1>9, <1>10 DEF CallsExact
<1>12. ASSUME NEW s \in Nat, NEW t \in Types, Lives(simulators', stack', s, t), NEW k \in NodeIds \ overtaken'
       PROVE  Told(s, t, k)'
  <2>1. Told(s, t, k)
    BY <1>9, <1>12 DEF Kept
  <2>2. \A i \in DOMAIN stack : Untold(stack[i], s) => i \in DOMAIN stack' /\ stack'[i] = stack[i]
    BY DEF Untold
  <2>3. (\E i \in DOMAIN stack : Untold(stack[i], s) /\ stack[i].node = k)
          => \E i \in DOMAIN stack' : Untold(stack'[i], s) /\ stack'[i].node = k
    BY <2>2
  <2>4. CASE k = n /\ n \in Running
    BY <1>4, <2>4 DEF Told
  <2>5. CASE ~(k = n /\ n \in Running)
    <3>1. k \in Running' <=> k \in Running
      BY <1>2, <2>5
    <3>2. QED
      BY <1>4, <2>1, <2>3, <3>1 DEF Told
  <2>6. QED
    BY <2>4, <2>5
<1>13. QED
  BY <1>11, <1>12

\* A notification begins, after a change that it is about.
LEMMA ViewsBegins ==
  ASSUME BaseInv, ViewsExact, NEW stk, NEW op, NEW n, Begins(stk, op, n), StopsExact', UNCHANGED view,
         overtaken \subseteq overtaken', \A k \in NodeIds \ {n} : k \in Running' <=> k \in Running,
         n \notin overtaken' => (op = "stop" <=> n \notin Running'),
         stk = stack \/ (stack # <<>> /\ Top.kind = "stop" /\ Top.node = n)
  PROVE  ViewsExact'
<1>1. PICK f : /\ Shape(stk, f) /\ f.kind = "call" /\ f.op = op /\ f.node = n
               /\ f.slot = FirstSlot(op, Len(simulators))
               /\ stack' = stk => (mode' = mode => Len(simulators) = 0)
  BY BeginsAhead
<1>2. /\ Len(simulators) \in Nat /\ DOMAIN simulators = 1 .. Len(simulators)
      /\ Fits(simulators, stack, lost)
  BY LenProperties DEF BaseInv, SimTypes
<1>3. Kept(simulators, stack, simulators', stack') /\ (mode' = "normal" => mode = "normal")
  BY BeginsShape DEF Moved, Going
<1>4. SUFFICES ASSUME mode' = "normal", ~Doomed'
               PROVE  /\ CallsExact'
                      /\ \A s \in Nat : \A t \in Types : Lives(simulators', stack', s, t) =>
                           \A k \in NodeIds \ overtaken' : Told(s, t, k)'
  BY DEF ViewsExact
<1>5. /\ \A i \in DOMAIN stack' : \/ i \in DOMAIN stk /\ i \in DOMAIN stack /\ stack'[i] = stack[i]
                                  \/ i = Len(stack') /\ stack'[i] = f /\ stack' # stk
      /\ \A i \in DOMAIN stk : i \in DOMAIN stack' /\ i \in DOMAIN stack /\ stack'[i] = stack[i]
      /\ stack' # stk => /\ Len(stack') \in DOMAIN stack' /\ stack'[Len(stack')] = f
                         /\ \A i \in DOMAIN stk : i < Len(stack')
  BY <1>1, ShapeFrames
<1>6. \A i \in DOMAIN stack : i \in DOMAIN stk \/ (stack[i].kind = "stop" /\ stack[i].node = n)
  BY UnderFrames DEF Begins
<1>7. stack' = stk => \A i \in DOMAIN stack : ~Holder(stack[i])
  BY <1>1, <1>2, <1>3, <1>4 DEF Fits
<1>8. \A i \in DOMAIN stk : ~Holder(stack[i])
  <2>1. SUFFICES ASSUME stack' # stk, NEW i \in DOMAIN stk, Holder(stack[i])
                 PROVE  FALSE
    BY <1>5, <1>7
  <2>2. PICK m : m = Len(stack')
    OBVIOUS
  <2>3. i \in DOMAIN stack' /\ m \in DOMAIN stack' /\ i < m /\ Holder(stack'[i]) /\ stack'[m].kind = "call"
    BY <1>1, <1>5, <2>1, <2>2
  <2>4. QED
    BY <1>4, <2>3 DEF Doomed
<1>9. ~Doomed
  <2>1. \A j \in DOMAIN stack : ~Holder(stack[j])
    BY <1>6, <1>8 DEF Holder
  <2>2. QED
    BY <2>1 DEF Doomed
<1>10. CallsExact'
  <2>1. SUFFICES ASSUME NEW i \in DOMAIN stack', stack'[i].kind = "call", stack'[i].node \notin overtaken'
                 PROVE  stack'[i].op = "stop" <=> stack'[i].node \notin Running'
    BY DEF CallsExact
  <2>2. stack'[i] = f
    BY <1>5, <1>8, <2>1 DEF Holder
  <2>3. QED
    BY <1>1, <2>1, <2>2
<1>11. ASSUME NEW s \in Nat, NEW t \in Types, Lives(simulators', stack', s, t), NEW k \in NodeIds \ overtaken'
       PROVE  Told(s, t, k)'
  <2>1. Lives(simulators, stack, s, t)
    BY <1>3, <1>11 DEF Kept
  <2>2. s \in 1 .. Len(simulators)
    BY <1>2, <2>1, LivesInSlots
  <2>3. CASE k = n
    <3>1. stack' # stk
      BY <1>1, <1>2, <1>3, <1>4, <2>2
    <3>2. Untold(f, s)
      BY <1>1, <1>2, <2>2 DEF Untold, FirstSlot
    <3>3. QED
      BY <1>1, <1>5, <2>3, <3>1, <3>2 DEF Told
  <2>4. CASE k # n
    <3>1. Told(s, t, k)
      BY <1>3, <1>4, <1>9, <1>11, <2>1 DEF ViewsExact
    <3>2. k \in Running' <=> k \in Running
      BY <1>11, <2>4
    <3>3. Stopping(k) => Stopping(k)'
      BY <1>5, <1>6, <2>4 DEF Stopping
    <3>4. (\E i \in DOMAIN stack : Untold(stack[i], s) /\ stack[i].node = k)
            => \E i \in DOMAIN stack' : Untold(stack'[i], s) /\ stack'[i].node = k
      BY <1>5, <1>6, <2>4 DEF Untold
    <3>5. QED
      BY <3>1, <3>2, <3>3, <3>4 DEF Told
  <2>5. QED
    BY <2>3, <2>4
<1>12. QED
  BY <1>10, <1>11

\* A simulator has been told, and the next one is called or there is none.
LEMMA ViewsCallReturn ==
  ASSUME BaseInv, Ahead, ViewsExact, CallReturn
  PROVE  ViewsExact'
<1>1. /\ Moved /\ On(Below, stack, Top) /\ Top.slot \in 1 .. Len(simulators) /\ Top.sim \in Types
      /\ Top.slot \in Nat /\ Top.len \in Nat /\ Top.len <= Len(simulators)
      /\ Top.op \in {"create", "stop", "start"}
  BY CallReturnMoves DEF BaseInv, SimTypes
<1>2. /\ stack # <<>> /\ Top.kind = "call" /\ UNCHANGED <<nodes, level, overtaken>>
      /\ Fits(simulators, stack, lost) /\ DOMAIN simulators = 1 .. Len(simulators) /\ Len(simulators) \in Nat
  BY CallReturnShape, LenProperties DEF BaseInv, SimTypes
<1>3. PICK f : /\ Shape(Below, f) /\ f.kind = "call" /\ f.op = Top.op /\ f.node = Top.node
               /\ f.slot = NextSlot(Top.op, Top.slot, Top.len)
               /\ stack' = Below => (mode' = mode => f.slot = 0 /\ Len(simulators) = Top.len)
               /\ stack' # Below => f.slot \in DOMAIN simulators
  BY CallReturnAhead
<1>4. PICK m : m = Len(stack)
  OBVIOUS
<1>5. /\ m \in DOMAIN stack /\ stack[m] = Top
      /\ \A i \in DOMAIN stack : i \in DOMAIN Below \/ i = m
      /\ \A i \in DOMAIN Below : i \in DOMAIN stack /\ i < m
  BY <1>1, <1>4, OnFrames
<1>6. /\ \A i \in DOMAIN stack' : \/ i \in DOMAIN Below /\ stack'[i] = stack[i]
                                  \/ i = Len(stack') /\ stack'[i] = f /\ stack' # Below
      /\ \A i \in DOMAIN Below : i \in DOMAIN stack' /\ stack'[i] = stack[i]
      /\ stack' # Below => Len(stack') \in DOMAIN stack' /\ stack'[Len(stack')] = f
  BY <1>3, ShapeFrames
<1>7. Running' = Running
  BY <1>2 DEF Running
<1>8. \A n : Stopping(n)' <=> Stopping(n)
  BY <1>2, <1>3, <1>5, <1>6 DEF Stopping
<1>9. StopsExact'
  BY <1>2, <1>8, StopsFollow DEF ViewsExact
<1>10. SUFFICES ASSUME mode' = "normal", ~Doomed'
                PROVE  /\ CallsExact'
                       /\ \A s \in Nat : \A t \in Types : Lives(simulators', stack', s, t) =>
                            \A n \in NodeIds \ overtaken' : Told(s, t, n)'
  BY <1>9 DEF ViewsExact
<1>11. mode = "normal" /\ Kept(simulators, stack, simulators', stack')
  BY <1>1, <1>2, <1>10, CallReturnShape DEF Moved, Going
<1>12. stack' = Below => f.slot = 0 /\ Len(simulators) = Top.len
  BY <1>3, <1>10, <1>11
<1>13. ~Doomed
  <2>1. SUFFICES ASSUME Doomed, stack' = Below, NEW j \in DOMAIN Below, Holder(stack[j])
                 PROVE  FALSE
    BY <1>3, <1>10, DoomedShape
  <2>2. /\ IF Top.op = "create" THEN Top.slot < stack[j].slot /\ stack[j].slot <= Top.len
                                ELSE stack[j].slot < Top.slot
        /\ stack[j].slot \in 1 .. Len(simulators)
    BY <1>2, <1>5, <2>1 DEF Ahead, Fits
  <2>3. NextSlot(Top.op, Top.slot, Top.len) = 0 /\ Len(simulators) = Top.len
    BY <1>3, <1>12, <2>1
  <2>4. CASE Top.op = "create"
    BY <1>1, <1>2, <2>2, <2>3, <2>4 DEF NextSlot
  <2>5. CASE Top.op # "create"
    BY <1>1, <1>2, <2>2, <2>3, <2>5 DEF NextSlot
  <2>6. QED
    BY <2>4, <2>5
<1>14. /\ CallsExact
       /\ \A s \in Nat : \A t \in Types : Lives(simulators, stack, s, t) =>
            \A n \in NodeIds \ overtaken : Told(s, t, n)
  BY <1>11, <1>13 DEF ViewsExact
<1>15. \A i \in DOMAIN Below : ~Holder(stack[i])
  <2>1. SUFFICES ASSUME NEW i \in DOMAIN Below, Holder(stack[i])
                 PROVE  Doomed
    BY <1>13
  <2>2. i \in DOMAIN stack /\ i < m /\ stack[m].kind = "call"
    BY <1>2, <1>5
  <2>3. QED
    BY <1>5, <2>1, <2>2 DEF Doomed
<1>16. Top.node \notin overtaken => (Top.op = "stop" <=> Top.node \notin Running)
  BY <1>2, <1>5, <1>14 DEF CallsExact
<1>17. CallsExact'
  <2>1. SUFFICES ASSUME NEW i \in DOMAIN stack', stack'[i].kind = "call", stack'[i].node \notin overtaken
                 PROVE  stack'[i].op = "stop" <=> stack'[i].node \notin Running
    BY <1>2, <1>7 DEF CallsExact
  <2>2. stack'[i] = f
    BY <1>6, <1>15, <2>1 DEF Holder
  <2>3. QED
    BY <1>3, <1>16, <2>1, <2>2
<1>18. ASSUME NEW i \in DOMAIN stack, NEW s, Untold(stack[i], s)
       PROVE  i = m
  BY <1>5, <1>15, <1>18 DEF Untold, Holder
<1>19. /\ view' = [view EXCEPT ![Top.sim] = IF Top.op = "stop" THEN view[Top.sim] \ {Top.node}
                                            ELSE view[Top.sim] \cup {Top.node}]
       /\ view \in [Types -> SUBSET NodeIds]
  BY DEF CallReturn, Hear, BaseInv, SimTypes
<1>20. Lives(simulators, stack, Top.slot, Top.sim)
  BY <1>2, <1>5 DEF Lives, Holder
<1>21. ASSUME NEW s \in Nat, NEW t \in Types, Lives(simulators', stack', s, t), NEW n \in NodeIds \ overtaken'
       PROVE  Told(s, t, n)'
  <2>1. Lives(simulators, stack, s, t) /\ n \in NodeIds \ overtaken
    BY <1>2, <1>11, <1>21 DEF Kept
  <2>2. s \in 1 .. Len(simulators)
    BY <1>2, <2>1, LivesInSlots
  <2>3. Told(s, t, n)
    BY <1>14, <2>1
  <2>4. CASE n # Top.node
    <3>1. n \in view'[t] <=> n \in view[t]
      BY <1>1, <1>19, <2>4
    <3>2. ~\E i \in DOMAIN stack : Untold(stack[i], s) /\ stack[i].node = n
      BY <1>5, <1>18, <2>4
    <3>3. QED
      BY <1>7, <1>8, <2>3, <3>1, <3>2 DEF Told
  <2>5. CASE n = Top.node /\ t = Top.sim
    <3>1. n \in view'[t] <=> Top.op # "stop"
      BY <1>1, <1>19, <2>5
    <3>2. QED
      BY <1>7, <1>16, <2>1, <2>5, <3>1 DEF Told
  <2>6. CASE n = Top.node /\ t # Top.sim
    <3>1. view'[t] = view[t]
      BY <1>1, <1>19, <2>6
    <3>2. s # Top.slot
      BY <1>1, <1>20, <2>1, <2>6, OneOccupant
    <3>3. CASE ~Untold(Top, s)
      <4>1. ~\E i \in DOMAIN stack : Untold(stack[i], s) /\ stack[i].node = n
        BY <1>5, <1>18, <3>3
      <4>2. QED
        BY <1>7, <1>8, <2>3, <3>1, <4>1 DEF Told
    <3>4. CASE Untold(Top, s)
      <4>1. stack' # Below /\ Untold(f, s)
        <5>1. CASE Top.op = "create"
          <6>1. Top.slot < s
            BY <1>1, <2>2, <3>2, <3>4, <5>1 DEF Untold
          <6>2. stack' # Below
            BY <1>1, <1>2, <1>3, <1>12, <2>2, <5>1, <6>1 DEF NextSlot
          <6>3. f.slot = Top.slot + 1
            BY <1>2, <1>3, <5>1, <6>2 DEF NextSlot
          <6>4. QED
            BY <1>1, <1>3, <2>2, <5>1, <6>1, <6>2, <6>3 DEF Untold
        <5>2. CASE Top.op # "create"
          <6>1. s < Top.slot /\ f.slot = Top.slot - 1
            BY <1>1, <1>3, <2>2, <3>2, <3>4, <5>2 DEF Untold, NextSlot
          <6>2. stack' # Below
            BY <1>1, <1>12, <2>2, <6>1
          <6>3. QED
            BY <1>1, <1>3, <2>2, <5>2, <6>1, <6>2 DEF Untold
        <5>3. QED
          BY <5>1, <5>2
      <4>2. QED
        BY <1>3, <1>6, <2>6, <4>1 DEF Told
    <3>5. QED
      BY <3>3, <3>4
  <2>7. QED
    BY <2>4, <2>5, <2>6
<1>22. QED
  BY <1>17, <1>21

\* A simulator that is registered knows the one node there is.
LEMMA ViewsAdd ==
  ASSUME BaseInv, ViewsExact, NEW t \in Types, Add(t)
  PROVE  ViewsExact'
<1>1. UNCHANGED <<nodes, level, stack, overtaken>>
  BY DEF Add, nodeVars
<1>2. /\ Running' = Running /\ (Doomed' <=> Doomed) /\ (CallsExact' <=> CallsExact)
      /\ \A n : Stopping(n)' <=> Stopping(n)
  BY <1>1 DEF Running, Doomed, CallsExact, Stopping
<1>3. StopsExact'
  BY <1>1, <1>2, StopsFollow DEF ViewsExact
<1>4. SUFFICES ASSUME mode' = "normal", ~Doomed
               PROVE  /\ CallsExact
                      /\ \A s \in Nat : \A u \in Types : Lives(simulators', stack, s, u) =>
                           \A n \in NodeIds \ overtaken : Told(s, u, n)'
  BY <1>1, <1>2, <1>3 DEF ViewsExact
<1>5. /\ simulators_by_type[t] = 0 /\ simulators' = Append(simulators, t)
      /\ view' = [view EXCEPT ![t] = Running] /\ UNCHANGED mode
  BY <1>4 DEF Add, Fail
<1>6. /\ SimTypes /\ Registered /\ Fits(simulators, stack, lost) /\ lost = {} /\ simulators \in Registry
      /\ mode = "normal"
  BY <1>4, <1>5 DEF BaseInv, SimTypes, Registry, StageExact
<1>7. \A s \in Nat : \A u \in Types :
        Lives(simulators', stack, s, u) => Lives(simulators, stack, s, u) \/ (s = Len(simulators) + 1 /\ u = t)
  BY <1>5, <1>6, Grown
<1>8. ASSUME NEW s \in Nat, NEW u \in Types, Lives(simulators', stack, s, u), NEW n \in NodeIds \ overtaken
      PROVE  Told(s, u, n)'
  <2>1. CASE u = t
    <3>1. view'[u] = Running
      BY <1>5, <1>6, <2>1 DEF SimTypes
    <3>2. QED
      BY <1>2, <3>1 DEF Told
  <2>2. CASE u # t
    <3>1. Lives(simulators, stack, s, u)
      BY <1>7, <1>8, <2>2
    <3>2. Told(s, u, n) /\ view'[u] = view[u]
      BY <1>4, <1>5, <1>6, <1>8, <2>2, <3>1 DEF ViewsExact, SimTypes
    <3>3. QED
      BY <1>1, <1>2, <3>2 DEF Told
  <2>3. QED
    BY <2>1, <2>2
<1>9. QED
  BY <1>4, <1>6, <1>8 DEF ViewsExact

LEMMA ViewsStep ==
  ASSUME BaseInv, Ahead, ViewsExact, [Next]_simVars
  PROVE  ViewsExact'
<1>0. /\ nodes \in NodeIds /\ level \in [NodeIds -> RunLevels] /\ NodeIds \subseteq Nat
      /\ StopsExact
  BY DEF BaseInv, SimTypes, ViewsExact, NodeIds
<1>1. ASSUME Quiet PROVE ViewsExact'
  <2>1. /\ TellingKept /\ Kept(simulators, stack, simulators', stack') /\ (Doomed => Doomed')
        /\ UNCHANGED <<view, nodes, level, overtaken>> /\ (mode' = "normal" => mode = "normal")
    BY <1>1 DEF Quiet, TellingKept, Kept, Doomed, Going
  <2>2. QED
    BY <2>1, ViewsKept
<1>2. ASSUME NEW stk, NEW f, Shape(stk, f), stack' # stk => ~Telling(f),
             stk = stack \/ (stack # <<>> /\ ~Telling(Top)), Moved, UNCHANGED <<view, nodes, level, overtaken>>
      PROVE  ViewsExact'
  <2>1. TellingKept
    BY <1>2, TellingShape
  <2>2. Doomed => Doomed'
    BY <1>2, DoomedShape
  <2>3. QED
    BY <1>2, <2>1, <2>2, ViewsKept DEF Moved, Going
<1>3. ASSUME NEW t \in Types, With(t) PROVE ViewsExact'
  <2>1. CASE Available(t)
    <3>1. PICK f : f = UserFrame("with", t, simulators_by_type[t], 0)
      OBVIOUS
    <3>2. /\ Shape(stack, f) /\ f.kind = "with" /\ Moved
          /\ UNCHANGED <<view, nodes, level, overtaken>>
      BY <1>3, <2>1, <3>1, WithShape
    <3>3. QED
      BY <1>2, <3>2 DEF Telling
  <2>2. CASE ~Available(t)
    <3>1. Quiet
      BY <1>3, <2>2, FailGoes DEF With, Quiet, regVars, nodeVars, histVars
    <3>2. QED
      BY <1>1, <3>1
  <2>3. QED
    BY <2>1, <2>2
<1>4. ASSUME WithReturn \/ DropReturn \/ Unwind \/ (StopAllReturn /\ Below # <<>>) PROVE ViewsExact'
  <2>1. /\ Moved /\ Shape(Below, StopLoop) /\ stack' = Below /\ On(Below, stack, Top)
        /\ UNCHANGED <<view, nodes, level, overtaken, mode>>
        /\ mode = "normal" => Top.kind \in {"with", "drop", "all"}
    BY <1>4, PopShape
  <2>2. CASE mode = "normal"
    <3>1. stack # <<>> /\ ~Telling(Top)
      BY <2>1, <2>2, OnFrames DEF Telling
    <3>2. QED
      BY <1>2, <2>1, <3>1
  <2>3. CASE mode # "normal"
    <3>1. \A i \in DOMAIN stack' : i \in DOMAIN stack /\ stack'[i] = stack[i]
      BY <2>1, OnFrames
    <3>2. \A n : Stopping(n)' => Stopping(n)
      BY <3>1 DEF Stopping
    <3>3. StopsExact'
      BY <1>0, <2>1, <3>2, StopsFollow
    <3>4. QED
      BY <2>1, <2>3, <3>3 DEF ViewsExact
  <2>4. QED
    BY <2>2, <2>3
<1>5. ASSUME NEW n \in NodeIds, StopNode(n) PROVE ViewsExact'
  <2>1. PICK f : f = UserFrame("stop", None, 0, n)
    OBVIOUS
  <2>2. /\ Shape(stack, f) /\ On(stack, stack', f) /\ f.kind = "stop" /\ f.node = n
        /\ Kept(simulators, stack, simulators', stack')
    BY <1>5, <2>1, StopNodeShape DEF Moved
  <2>3. /\ n \in Running /\ n \in 1 .. nodes /\ level' = [level EXCEPT ![n] = "Stopped"]
        /\ UNCHANGED <<view, nodes, overtaken, mode>>
    BY <1>5 DEF StopNode, Running, histVars
  <2>4. PICK m \in Nat : m = Len(stack')
    BY <2>2, OnFrames
  <2>5. /\ \A i \in DOMAIN stack : i < m /\ i \in DOMAIN stack' /\ stack'[i] = stack[i]
        /\ \A i \in DOMAIN stack' : (i \in DOMAIN stack /\ stack'[i] = stack[i]) \/ i = m
        /\ m \in DOMAIN stack' /\ stack'[m] = f
    BY <2>2, <2>4, OnFrames
  <2>6. QED
    BY <2>2, <2>3, <2>5, ViewsStop
<1>6. ASSUME StopAllNext PROVE ViewsExact'
  <2>1. /\ Iterated.kind = "all" /\ Kept(simulators, stack, simulators', stack')
        /\ \A i \in DOMAIN stack' :
             \/ i \in DOMAIN stack /\ i # Len(stack) /\ stack'[i] = stack[i]
             \/ i = Len(stack) /\ stack'[i] = Iterated
             \/ i = Len(stack) + 1 /\ Top.node \in Running /\ stack'[i] = UserFrame("stop", None, 0, Top.node)
        /\ \A i \in DOMAIN stack : i \in DOMAIN stack' /\ (i # Len(stack) => stack'[i] = stack[i])
        /\ Top.node \in Running => /\ Len(stack) + 1 \in DOMAIN stack'
                                   /\ stack'[Len(stack) + 1] = UserFrame("stop", None, 0, Top.node)
    BY <1>6, StopAllNextMoves DEF Moved
  <2>2. /\ UserFrame("stop", None, 0, Top.node).kind = "stop" /\ UserFrame("stop", None, 0, Top.node).node = Top.node
    BY DEF UserFrame, Frame
  <2>3. /\ stack # <<>> /\ Top.kind = "all" /\ level' = [level EXCEPT ![Top.node] = "FinalStopped"]
        /\ UNCHANGED <<view, nodes, overtaken, mode>> /\ Top.node <= Top.len
    BY <1>6 DEF StopAllNext, histVars
  <2>4. /\ FrameExact(Top, final, nodes, Len(simulators)) /\ Top = stack[Len(stack)]
        /\ Len(stack) \in DOMAIN stack /\ Len(stack) \in Nat
    BY <2>3, TopFacts DEF BaseInv
  <2>5. Top.node \in 1 .. nodes
    <3>1. Top.node \in Nat /\ Top.node > 0 /\ Top.len = nodes
      BY <2>3, <2>4 DEF FrameExact, FrameType
    <3>2. QED
      BY <1>0, <2>3, <3>1
  <2>6. PICK n \in 1 .. nodes : n = Top.node
    BY <2>5
  <2>7. PICK m \in Nat : m = Len(stack) + 1
    BY <2>4
  <2>8. \A i \in DOMAIN stack : i < m
    BY <2>4, <2>7, LenProperties DEF BaseInv, SimTypes
  <2>9. /\ \A i \in DOMAIN stack : i \in DOMAIN stack' /\ (stack[i].kind = "all" \/ stack'[i] = stack[i])
        /\ \A i \in DOMAIN stack' : \/ i \in DOMAIN stack /\ (stack'[i].kind = "all" \/ stack'[i] = stack[i])
                                    \/ i = m /\ n \in Running
        /\ n \in Running => m \in DOMAIN stack' /\ stack'[m].kind = "stop" /\ stack'[m].node = n
    BY <2>1, <2>2, <2>3, <2>4, <2>6, <2>7
  <2>10. level' = [level EXCEPT ![n] = "FinalStopped"] /\ "FinalStopped" # "Running"
    BY <2>3, <2>6
  <2>11. QED
    BY <2>1, <2>3, <2>8, <2>9, <2>10, ViewsStop
<1>7. ASSUME StopSimulation PROVE ViewsExact'
  <2>1. Shape(stack, StopLoop) /\ Moved /\ UNCHANGED <<view, nodes, level, overtaken>>
    BY <1>7, StopSimulationShape DEF StopSimulation, histVars
  <2>2. ~Telling(StopLoop)
    BY LoopKind DEF Telling
  <2>3. QED
    BY <1>2, <2>1, <2>2
<1>8. ASSUME NEW n \in NodeIds, StartNode(n) PROVE ViewsExact'
  <2>1. CASE Quiet
    BY <1>1, <2>1
  <2>2. CASE /\ UNCHANGED <<seen, view, nodes, final>> /\ Begins(stack, "start", n)
             /\ n <= nodes /\ level' = [level EXCEPT ![n] = "Running"]
             /\ overtaken' = IF Stopping(n) THEN overtaken \cup {n} ELSE overtaken
    <3>1. \A k \in NodeIds \ {n} : k \in Running' <=> k \in Running
      BY <1>0, <2>2 DEF Running
    <3>2. n \in Running'
      BY <1>0, <2>2 DEF Running, NodeIds
    <3>3. PICK f : Shape(stack, f) /\ f.kind = "call"
      BY <2>2, BeginsAhead
    <3>4. \A k : Stopping(k)' => Stopping(k)
      BY <3>3, ShapeFrames DEF Stopping
    <3>5. StopsExact'
      <4>1. ASSUME NEW k \in NodeIds, Stopping(k)'
            PROVE  k <= nodes' /\ (k \in overtaken' \/ k \notin Running')
        BY <1>0, <2>2, <3>1, <3>4, <4>1 DEF StopsExact
      <4>2. ASSUME NEW k \in NodeIds, k > nodes'
            PROVE  level'[k] = "Running"
        BY <1>0, <2>2, <4>2 DEF StopsExact
      <4>3. QED
        BY <4>1, <4>2 DEF StopsExact
    <3>6. overtaken \subseteq overtaken'
      BY <2>2
    <3>7. QED
      BY <2>2, <3>1, <3>2, <3>5, <3>6, ViewsBegins
  <2>3. QED
    BY <1>8, <2>1, <2>2, StartNodeShape
<1>9. ASSUME CreateNode PROVE ViewsExact'
  <2>1. CASE Quiet
    BY <1>1, <2>1
  <2>2. CASE /\ UNCHANGED <<view, level, overtaken>> /\ nodes' = nodes + 1
             /\ Begins(stack, "create", nodes + 1)
    <3>1. \A k \in NodeIds \ {nodes + 1} : k \in Running' <=> k \in Running
      BY <1>0, <2>2 DEF Running
    <3>2. nodes + 1 \in NodeIds /\ nodes + 1 \in Running'
      <4>1. nodes + 1 \in NodeIds
        BY <2>2 DEF Begins
      <4>2. level[nodes + 1] = "Running"
        BY <1>0, <4>1 DEF StopsExact
      <4>3. QED
        BY <1>0, <2>2, <4>1, <4>2 DEF Running, NodeIds
    <3>3. PICK f : Shape(stack, f) /\ f.kind = "call"
      BY <2>2, BeginsAhead
    <3>4. \A k : Stopping(k)' => Stopping(k)
      BY <3>3, ShapeFrames DEF Stopping
    <3>5. StopsExact'
      <4>1. ASSUME NEW k \in NodeIds, Stopping(k)'
            PROVE  k <= nodes' /\ (k \in overtaken' \/ k \notin Running')
        <5>1. k <= nodes /\ (k \in overtaken \/ k \notin Running)
          BY <1>0, <3>4, <4>1 DEF StopsExact
        <5>2. k \in Nat /\ nodes \in Nat /\ k # nodes + 1
          BY <1>0, <5>1
        <5>3. QED
          BY <2>2, <3>1, <5>1, <5>2
      <4>2. ASSUME NEW k \in NodeIds, k > nodes'
            PROVE  level'[k] = "Running"
        BY <1>0, <2>2, <4>2 DEF StopsExact
      <4>3. QED
        BY <4>1, <4>2 DEF StopsExact
    <3>6. QED
      BY <2>2, <3>1, <3>2, <3>5, ViewsBegins
  <2>3. QED
    BY <1>9, <2>1, <2>2, CreateNodeShape
<1>10. ASSUME StopReturn PROVE ViewsExact'
  <2>1. /\ UNCHANGED <<seen, view, nodes, level, final, overtaken>> /\ stack # <<>> /\ Top.kind = "stop"
        /\ Begins(Below, "stop", Top.node) /\ On(Below, stack, Top)
    BY <1>10, StopReturnShape
  <2>2. Running' = Running
    BY <2>1 DEF Running
  <2>3. Top.node \notin overtaken => Top.node \notin Running
    <3>1. Len(stack) \in DOMAIN stack /\ stack[Len(stack)] = Top
      BY <2>1, OnFrames
    <3>2. Stopping(Top.node) /\ Top.node \in NodeIds
      BY <2>1, <3>1 DEF Stopping, Begins
    <3>3. QED
      BY <1>0, <3>2 DEF StopsExact
  <2>4. PICK f : Shape(Below, f) /\ f.kind = "call"
    BY <2>1, BeginsAhead
  <2>5. \A k : Stopping(k)' => Stopping(k)
    BY <2>4, ShapeFrames DEF Stopping
  <2>6. StopsExact'
    BY <1>0, <2>1, <2>5, StopsFollow
  <2>7. QED
    BY <2>1, <2>2, <2>3, <2>6, ViewsBegins
<1>11. ASSUME StopAllReturn, Below = <<>> PROVE ViewsExact'
  <2>1. stack # <<>> /\ Top.kind = "all" /\ ~Holder(Top) /\ ~Telling(Top) /\ stack' = Below
        /\ UNCHANGED <<simulators, lost, mode, view, nodes, level, overtaken>>
    BY <1>11 DEF StopAllReturn, regVars, nodeVars, histVars, Holder, Telling
  <2>2. Moved /\ Shape(Below, StopLoop)
    BY <2>1, PlainPop DEF Shape
  <2>3. QED
    BY <1>2, <2>1, <2>2
<1>12. ASSUME BaseReturn \/ Cleanup PROVE ViewsExact'
  <2>1. /\ UNCHANGED <<view, nodes, level, overtaken, simulators, lost>>
        /\ stack' = <<StopLoop>> /\ final' = TRUE /\ nodes' = nodes
        /\ stack = <<>> \/ Top.kind = "base"
        /\ mode' = "normal" => mode = "normal"
    BY <1>12 DEF BaseReturn, Cleanup, regVars, histVars
  <2>2. /\ Kept(simulators, stack, simulators', stack') /\ DOMAIN stack' = {1} /\ stack'[1] = StopLoop
    BY <2>1, DestroyMoves
  <2>3. \A i \in DOMAIN stack' : ~Telling(stack'[i])
    BY <2>2, LoopKind DEF Telling
  <2>4. \A i \in DOMAIN stack : ~Telling(stack[i])
    <3>1. CASE stack = <<>>
      BY <3>1, EmptySeq, LenProperties
    <3>2. CASE stack # <<>> /\ Top.kind = "base"
      <4>1. /\ Top = stack[Len(stack)] /\ Len(stack) \in DOMAIN stack /\ Len(stack) \in Nat \ {0}
            /\ On(Below, stack, Top)
        BY <3>2, TopFacts DEF BaseInv
      <4>2. ~(Len(stack) > 1)
        BY <3>2, <4>1 DEF BaseInv, StageExact
      <4>3. \A i \in DOMAIN stack : i \in Nat \ {0} /\ i <= Len(stack)
        BY <4>1, OnFrames
      <4>4. \A i \in DOMAIN stack : i = Len(stack)
        BY <4>1, <4>2, <4>3
      <4>5. QED
        BY <3>2, <4>1, <4>4 DEF Telling
    <3>3. QED
      BY <2>1, <3>1, <3>2
  <2>5. TellingKept /\ ~Doomed
    BY <2>3, <2>4 DEF TellingKept, Doomed, Telling
  <2>6. QED
    BY <2>1, <2>2, <2>5, ViewsKept
<1>13. ASSUME PopSimulator PROVE ViewsExact'
  <2>1. /\ Kept(simulators, stack, simulators', stack') /\ stack = <<>> /\ Going
        /\ UNCHANGED <<view, nodes, level, overtaken>>
    BY <1>13, PopMoves DEF PopSimulator, nodeVars, histVars
  <2>2. stack' = <<>> \/ \E f : f.kind = "drop" /\ stack' = <<f>>
    BY <1>13, PopMoves
  <2>3. \A f : DOMAIN <<f>> = {1} /\ <<f>>[1] = f
    OBVIOUS
  <2>4. DOMAIN <<>> = {}
    BY EmptySeq, LenProperties
  <2>5. \A i \in DOMAIN stack' : ~Telling(stack'[i])
    BY <2>2, <2>3, <2>4 DEF Telling
  <2>6. TellingKept /\ ~Doomed
    BY <2>1, <2>4, <2>5 DEF TellingKept, Doomed
  <2>7. QED
    BY <2>1, <2>6, ViewsKept DEF Going
<1>14. ASSUME \/ \E n \in NodeIds : IndexNode(n)
              \/ \E t \in Types : UnwindNeeds(t)
              \/ UserPanic \/ Finish \/ Ended \/ UNCHANGED simVars
       PROVE  ViewsExact'
  BY <1>1, <1>14, QuietSteps
<1>15. CASE ApiCall
  BY <1>3, <1>5, <1>7, <1>8, <1>9, <1>14, <1>15, ViewsAdd DEF ApiCall
<1>16. CASE Return \/ Library
  BY <1>4, <1>6, <1>10, <1>11, <1>12, <1>13, <1>14, <1>16, ViewsCallReturn DEF Return, Library
<1>17. QED
  BY <1>14, <1>15, <1>16 DEF Next

LEMMA InitViews ==
  ASSUME Init
  PROVE  ViewsExact
<1>1. PICK f : f = UserFrame("base", None, 0, INIT)
  OBVIOUS
<1>2. f.kind = "base"
  BY <1>1 DEF UserFrame, Frame
<1>3. DOMAIN <<f>> = {1} /\ <<f>>[1] = f
  OBVIOUS
<1>4. stack = <<f>> /\ simulators = <<>> /\ level = [n \in NodeIds |-> "Running"]
  BY <1>1 DEF Init
<1>5. DOMAIN simulators = {}
  BY <1>4, EmptySeq, LenProperties
<1>6. \A i \in DOMAIN stack : stack[i].kind = "base"
  BY <1>2, <1>3, <1>4
<1>7. /\ CallsExact /\ \A s \in Nat : \A t \in Types : ~Lives(simulators, stack, s, t)
  BY <1>5, <1>6 DEF CallsExact, Lives, Holder
<1>8. StopsExact
  BY <1>4, <1>6 DEF StopsExact, Stopping
<1>9. QED
  BY <1>7, <1>8 DEF ViewsExact

\* When no stop and no notification is going on, every simulator has been told which
\* nodes run, except of a node that a destructor started during its stop (executor.rs:544).
THEOREM ViewsCorrect == Spec => []ViewsAgree
<1>1. Init => BaseInv /\ Ahead /\ ViewsExact
  BY InitBase, InitSeen, InitViews
<1>2. BaseInv /\ Ahead /\ ViewsExact /\ [Next]_simVars => (BaseInv /\ Ahead /\ ViewsExact)'
  BY BaseStep, AheadStep, ViewsStep
<1>3. BaseInv /\ ViewsExact => ViewsAgree
  <2>1. SUFFICES ASSUME BaseInv, ViewsExact, mode = "normal",
                        \A i \in DOMAIN stack : stack[i].kind \notin {"stop", "call"}, NEW s \in Slots
                 PROVE  view[Occupant(s)] \ overtaken = Running \ overtaken
    BY DEF ViewsAgree
  <2>2. s \in Slots \ lost
    BY <2>1 DEF BaseInv, StageExact
  <2>3. Occupant(s) \in Types /\ s \in Nat /\ Lives(simulators, stack, s, Occupant(s))
    BY <2>1, <2>2, OccupantLives
  <2>4. /\ ~Doomed /\ \A n : ~Stopping(n)
        /\ \A i \in DOMAIN stack : ~Untold(stack[i], s)
    BY <2>1 DEF Doomed, Stopping, Untold
  <2>5. \A n \in NodeIds \ overtaken : Told(s, Occupant(s), n)
    BY <2>1, <2>3, <2>4 DEF ViewsExact
  <2>6. \A n \in NodeIds \ overtaken : n \in view[Occupant(s)] <=> n \in Running
    BY <2>4, <2>5 DEF Told
  <2>7. view[Occupant(s)] \subseteq NodeIds /\ Running \subseteq NodeIds
    <3>1. view \in [Types -> SUBSET NodeIds] /\ nodes \in NodeIds
      BY <2>1 DEF BaseInv, SimTypes
    <3>2. 1 .. nodes \subseteq NodeIds
      BY <3>1, SimulatorsAssumption DEF NodeIds
    <3>3. QED
      BY <2>3, <3>1, <3>2 DEF Running
  <2>8. QED
    BY <2>6, <2>7
<1>4. QED
  BY <1>1, <1>2, <1>3, PTL DEF Spec


-----------------------------------------------------------------------------
(* The cleanup after a panic.                                              *)

LEMMA NotesKept ==
  ASSUME NotesExact, NEW stk, NEW f, Shape(stk, f), Moved, nodes' >= nodes, nodes \in Nat, nodes' \in Nat,
         \A i \in DOMAIN stack : stack[i].node \in Nat,
         stack' # stk /\ f.kind = "call" => f.node <= nodes' /\ (mode = "cleanup" => f.len = Len(simulators))
  PROVE  NotesExact'
<1>1. \A i \in DOMAIN stack' : \/ i \in DOMAIN stack /\ stack'[i] = stack[i]
                               \/ stack'[i] = f /\ stack' # stk
  BY ShapeFrames
<1>2. Len(simulators') = Len(simulators) /\ (mode' = "cleanup" => mode = "cleanup")
  BY DEF Moved, Going
<1>3. SUFFICES ASSUME NEW i \in DOMAIN stack', stack'[i].kind = "call"
               PROVE  /\ stack'[i].node <= nodes'
                      /\ mode' = "cleanup" => stack'[i].len = Len(simulators')
  BY DEF NotesExact
<1>4. CASE i \in DOMAIN stack /\ stack'[i] = stack[i]
  <2>1. stack[i].node <= nodes /\ (mode = "cleanup" => stack[i].len = Len(simulators))
    BY <1>3, <1>4 DEF NotesExact
  <2>2. stack[i].node <= nodes'
    BY <1>4, <2>1
  <2>3. QED
    BY <1>2, <1>4, <2>1, <2>2
<1>5. CASE stack'[i] = f /\ stack' # stk
  BY <1>2, <1>3, <1>5
<1>6. QED
  BY <1>1, <1>4, <1>5

LEMMA NotesStep ==
  ASSUME BaseInv, Ahead, StopsExact, NotesExact, [Next]_simVars
  PROVE  NotesExact'
<1>0. /\ nodes \in Nat /\ nodes >= nodes /\ nodes + 1 >= nodes /\ NodeIds \subseteq Nat
      /\ \A i \in DOMAIN stack : stack[i].node \in Nat
  <2>1. nodes \in Nat /\ NodeIds \subseteq Nat
    BY DEF BaseInv, SimTypes, NodeIds
  <2>2. \A i \in DOMAIN stack : stack[i] \in FrameType
    BY DEF BaseInv, SimTypes, FrameExact
  <2>3. \A i \in DOMAIN stack : stack[i].node \in Nat
    BY <2>2 DEF FrameType
  <2>4. QED
    BY <2>1, <2>3
<1>1. ASSUME Quiet PROVE NotesExact'
  BY <1>1 DEF Quiet, NotesExact, Going
<1>2. ASSUME NEW stk, NEW f, Shape(stk, f), stack' # stk => f.kind # "call", Moved, UNCHANGED nodes
      PROVE  NotesExact'
  BY <1>0, <1>2, NotesKept
<1>3. ASSUME NEW t \in Types, Add(t) PROVE NotesExact'
  <2>1. mode' # "cleanup" /\ UNCHANGED <<nodes, stack>>
    BY <1>3, FailGoes DEF Add, nodeVars, BaseInv, StageExact
  <2>2. QED
    BY <2>1 DEF NotesExact
<1>4. ASSUME NEW t \in Types, With(t) PROVE NotesExact'
  <2>1. CASE Available(t)
    <3>1. PICK f : f = UserFrame("with", t, simulators_by_type[t], 0)
      OBVIOUS
    <3>2. Shape(stack, f) /\ f.kind = "with" /\ Moved /\ UNCHANGED nodes
      BY <1>4, <2>1, <3>1, WithShape
    <3>3. QED
      BY <1>2, <3>2
  <2>2. CASE ~Available(t)
    <3>1. Quiet
      BY <1>4, <2>2, FailGoes DEF With, Quiet, regVars, nodeVars, histVars
    <3>2. QED
      BY <1>1, <3>1
  <2>3. QED
    BY <2>1, <2>2
<1>5. ASSUME WithReturn \/ DropReturn \/ Unwind \/ (StopAllReturn /\ Below # <<>>) PROVE NotesExact'
  BY <1>2, <1>5, PopShape
<1>6. ASSUME NEW n \in NodeIds, StopNode(n) PROVE NotesExact'
  <2>1. PICK f : f = UserFrame("stop", None, 0, n)
    OBVIOUS
  <2>2. Shape(stack, f) /\ f.kind = "stop" /\ Moved /\ UNCHANGED nodes
    BY <1>6, <2>1, StopNodeShape DEF StopNode
  <2>3. QED
    BY <1>2, <2>2
<1>7. ASSUME StopSimulation PROVE NotesExact'
  <2>1. Shape(stack, StopLoop) /\ Moved /\ UNCHANGED nodes
    BY <1>7, StopSimulationShape DEF StopSimulation
  <2>2. QED
    BY <1>2, <2>1, LoopKind
<1>8. ASSUME NEW stk, NEW op, NEW n, Begins(stk, op, n), nodes' >= nodes, nodes' \in Nat, n <= nodes'
      PROVE  NotesExact'
  <2>1. PICK f : Shape(stk, f) /\ f.node = n /\ f.len = Len(simulators)
    BY <1>8, BeginsAhead
  <2>2. Moved
    BY <1>8, BeginsShape
  <2>3. QED
    BY <1>0, <1>8, <2>1, <2>2, NotesKept
<1>9. ASSUME NEW n \in NodeIds, StartNode(n) PROVE NotesExact'
  BY <1>0, <1>1, <1>8, <1>9, StartNodeShape
<1>10. ASSUME CreateNode PROVE NotesExact'
  <2>1. CASE nodes' = nodes + 1 /\ Begins(stack, "create", nodes + 1)
    <3>1. nodes' >= nodes /\ nodes' \in Nat /\ nodes + 1 <= nodes'
      BY <1>0, <2>1
    <3>2. QED
      BY <1>8, <2>1, <3>1
  <2>2. QED
    BY <1>1, <1>10, <2>1, CreateNodeShape
<1>11. ASSUME StopReturn PROVE NotesExact'
  <2>1. /\ UNCHANGED nodes /\ stack # <<>> /\ Top.kind = "stop" /\ Begins(Below, "stop", Top.node)
        /\ On(Below, stack, Top)
    BY <1>11, StopReturnShape
  <2>2. Top.node <= nodes
    <3>1. Len(stack) \in DOMAIN stack /\ stack[Len(stack)] = Top
      BY <2>1, OnFrames
    <3>2. Stopping(Top.node) /\ Top.node \in NodeIds
      BY <2>1, <3>1 DEF Stopping, Begins
    <3>3. QED
      BY <3>2 DEF StopsExact
  <2>3. QED
    BY <1>0, <1>8, <2>1, <2>2
<1>12. ASSUME CallReturn PROVE NotesExact'
  <2>1. PICK f : Shape(Below, f) /\ f.node = Top.node /\ f.len = Top.len
    BY <1>12, CallReturnAhead
  <2>2. Moved /\ On(Below, stack, Top) /\ Top.kind = "call" /\ UNCHANGED nodes
    BY <1>12, CallReturnMoves, CallReturnShape
  <2>3. Top.node <= nodes /\ (mode = "cleanup" => Top.len = Len(simulators))
    <3>1. Len(stack) \in DOMAIN stack /\ stack[Len(stack)] = Top
      BY <2>2, OnFrames
    <3>2. QED
      BY <2>2, <3>1 DEF NotesExact
  <2>4. QED
    BY <1>0, <2>1, <2>2, <2>3, NotesKept
<1>13. ASSUME UNCHANGED <<nodes, mode>>, Moved,
              \A i \in DOMAIN stack' : stack'[i].kind = "call" => i \in DOMAIN stack /\ stack'[i] = stack[i]
       PROVE  NotesExact'
  BY <1>13 DEF NotesExact, Moved
<1>14. ASSUME \A i \in DOMAIN stack' : stack'[i].kind # "call"
       PROVE  NotesExact'
  BY <1>14 DEF NotesExact
<1>15. ASSUME StopAllNext PROVE NotesExact'
  <2>1. /\ Iterated.kind = "all" /\ Moved
        /\ \A i \in DOMAIN stack' :
             \/ i \in DOMAIN stack /\ i # Len(stack) /\ stack'[i] = stack[i]
             \/ i = Len(stack) /\ stack'[i] = Iterated
             \/ i = Len(stack) + 1 /\ Top.node \in Running /\ stack'[i] = UserFrame("stop", None, 0, Top.node)
    BY <1>15, StopAllNextMoves
  <2>2. UserFrame("stop", None, 0, Top.node).kind = "stop"
    BY DEF UserFrame, Frame
  <2>3. UNCHANGED <<nodes, mode>>
    BY <1>15 DEF StopAllNext
  <2>4. QED
    BY <1>13, <2>1, <2>2, <2>3
<1>16. ASSUME StopAllReturn, Below = <<>> PROVE NotesExact'
  <2>1. DOMAIN stack' = {}
    BY <1>16, EmptySeq, LenProperties DEF StopAllReturn
  <2>2. QED
    BY <1>14, <2>1
<1>17. ASSUME BaseReturn \/ Cleanup PROVE NotesExact'
  <2>1. DOMAIN stack' = {1} /\ stack'[1] = StopLoop
    BY <1>17, DestroyMoves DEF BaseReturn, Cleanup, regVars, histVars
  <2>2. QED
    BY <1>14, <2>1, LoopKind
<1>18. ASSUME PopSimulator PROVE NotesExact'
  <2>1. stack' = <<>> \/ \E f : f.kind = "drop" /\ stack' = <<f>>
    BY <1>18, PopMoves
  <2>2. \A f : DOMAIN <<f>> = {1} /\ <<f>>[1] = f
    OBVIOUS
  <2>3. DOMAIN <<>> = {}
    BY EmptySeq, LenProperties
  <2>4. QED
    BY <1>14, <2>1, <2>2, <2>3
<1>19. ASSUME \/ \E n \in NodeIds : IndexNode(n)
              \/ \E t \in Types : UnwindNeeds(t)
              \/ UserPanic \/ Finish \/ Ended \/ UNCHANGED simVars
       PROVE  NotesExact'
  BY <1>1, <1>19, QuietSteps
<1>20. CASE ApiCall
  BY <1>3, <1>4, <1>6, <1>7, <1>9, <1>10, <1>19, <1>20 DEF ApiCall
<1>21. CASE Return \/ Library
  BY <1>5, <1>11, <1>12, <1>15, <1>16, <1>17, <1>18, <1>19, <1>21 DEF Return, Library
<1>22. QED
  BY <1>19, <1>20, <1>21 DEF Next

LEMMA InitNotes ==
  ASSUME Init
  PROVE  NotesExact
<1>1. PICK f : f = UserFrame("base", None, 0, INIT)
  OBVIOUS
<1>2. f.kind = "base"
  BY <1>1 DEF UserFrame, Frame
<1>3. DOMAIN <<f>> = {1} /\ <<f>>[1] = f
  OBVIOUS
<1>4. stack = <<f>>
  BY <1>1 DEF Init
<1>5. QED
  BY <1>2, <1>3, <1>4 DEF NotesExact

\* A notification step fails for one of the three reasons only.
LEMMA VisitSucceeds ==
  ASSUME NEW reg, NEW stk, NEW op, NEW s, NEW n, NEW len, Visit(reg, stk, op, s, n, len),
         s = 0 => Len(reg) = len, s # 0 => reg[s] # None /\ ~Misses(op, reg[s], n)
  PROVE  mode' = mode
BY DEF Visit

\* If no notification was cut short, every slot that no frame emptied is full, and a
\* PerNode finds its entry for every node.
LEMMA Uncut ==
  ASSUME BaseInv, ~NotificationCut, NEW s \in DOMAIN simulators, NEW n \in Nat, n <= nodes,
         \A i \in DOMAIN stack : Holder(stack[i]) => stack[i].slot # s
  PROVE  /\ simulators[s] # None
         /\ simulators[s] \in PerNode => ~(n > Len(seen[simulators[s]]))
<1>1. /\ Fits(simulators, stack, lost) /\ lost = {} /\ nodes \in Nat
      /\ seen \in [Types -> Seq(NodeIds)] /\ s \in Nat /\ simulators[s] \in Types \cup {None}
  <2>1. DOMAIN simulators = 1 .. Len(simulators) /\ \A i \in 1 .. Len(simulators) : simulators[i] \in Types \cup {None}
    BY LenProperties, ElementOfSeq DEF BaseInv, SimTypes
  <2>2. QED
    BY <2>1 DEF BaseInv, SimTypes, NodeIds, NotificationCut
<1>2. simulators[s] # None
  BY <1>1 DEF Fits
<1>3. PICK t \in Types : t = simulators[s]
  BY <1>1, <1>2
<1>4. simulators_by_type[t] # 0
  BY <1>1, <1>3 DEF BaseInv, Registered, Lives
<1>5. t \in PerNode => ~(Len(seen[t]) < nodes)
  BY <1>4 DEF NotificationCut
<1>6. Len(seen[t]) \in Nat
  BY <1>1, LenProperties
<1>7. QED
  BY <1>1, <1>2, <1>3, <1>5, <1>6

\* At most two frames deep, there is none that holds a simulator under the innermost one.
LEMMA Shallow ==
  ASSUME BaseInv, stack # <<>>, Len(stack) <= 2, NEW i \in DOMAIN stack, Holder(stack[i])
  PROVE  i = Len(stack)
<1>1. stack[1].kind \in {"base", "all", "drop"}
  BY DEF BaseInv, StageExact, SimTypes
<1>2. DOMAIN stack = 1 .. Len(stack) /\ Len(stack) \in Nat
  BY LenProperties DEF BaseInv, SimTypes
<1>3. i # 1
  BY <1>1 DEF Holder
<1>4. QED
  BY <1>2, <1>3

LEMMA CleanupStopReturn ==
  ASSUME BaseInv, StopsExact, ~NotificationCut, Len(stack) <= 2, StopReturn
  PROVE  mode' = mode
<1>1. /\ stack # <<>> /\ Top.kind = "stop" /\ Begins(Below, "stop", Top.node) /\ On(Below, stack, Top)
      /\ seen' = seen
  BY StopReturnShape
<1>2. Visit(simulators, Below, "stop", FirstSlot("stop", Len(simulators)), Top.node, Len(simulators))
  BY <1>1 DEF Begins, Notify
<1>3. Len(stack) \in DOMAIN stack /\ stack[Len(stack)] = Top
  BY <1>1, OnFrames
<1>4. Top.node <= nodes /\ Top.node \in Nat
  <2>1. Stopping(Top.node) /\ Top.node \in NodeIds
    BY <1>1, <1>3 DEF Stopping, Begins
  <2>2. QED
    BY <2>1 DEF StopsExact, NodeIds
<1>5. \A i \in DOMAIN stack : ~Holder(stack[i])
  BY <1>1, <1>3, Shallow DEF Holder
<1>6. PICK s : s = FirstSlot("stop", Len(simulators))
  OBVIOUS
<1>7. DOMAIN simulators = 1 .. Len(simulators) /\ Len(simulators) \in Nat
  BY LenProperties DEF BaseInv, SimTypes
<1>8. s # 0 => s \in DOMAIN simulators
  <2>1. s = Len(simulators)
    BY <1>6, <1>7 DEF FirstSlot
  <2>2. QED
    BY <1>7, <2>1
<1>9. s # 0 => simulators[s] # None /\ ~Misses("stop", simulators[s], Top.node)
  BY <1>1, <1>4, <1>5, <1>8, Uncut DEF Misses
<1>10. QED
  BY <1>2, <1>6, <1>9, VisitSucceeds

LEMMA CleanupCallReturn ==
  ASSUME BaseInv, NotesExact, ~NotificationCut, Len(stack) <= 2, mode = "cleanup", CallReturn
  PROVE  mode' = mode
<1>1. /\ On(Below, stack, Top) /\ Len(Swapped) = Len(simulators) /\ Top.slot \in 1 .. Len(simulators)
      /\ Top.op \in {"create", "stop", "start"} /\ Top.len \in Nat /\ Top.node \in NodeIds
  BY CallReturnMoves
<1>2. Visit(Swapped, Below, Top.op, NextSlot(Top.op, Top.slot, Top.len), Top.node, Top.len)
  BY DEF CallReturn, Swapped
<1>3. Len(stack) \in DOMAIN stack /\ stack[Len(stack)] = Top /\ stack # <<>> /\ Top.kind = "call"
  BY <1>1, OnFrames, CallReturnShape
<1>4. Top.node <= nodes /\ Top.len = Len(simulators) /\ Top.node \in Nat
  BY <1>1, <1>3 DEF NotesExact, NodeIds
<1>5. PICK s : s = NextSlot(Top.op, Top.slot, Top.len)
  OBVIOUS
<1>6. DOMAIN simulators = 1 .. Len(simulators) /\ Len(simulators) \in Nat
  BY LenProperties DEF BaseInv, SimTypes
<1>7. s # 0 => s \in DOMAIN simulators /\ s # Top.slot
  BY <1>1, <1>4, <1>5, <1>6 DEF NextSlot
<1>8. \A i \in DOMAIN stack : Holder(stack[i]) => stack[i] = Top
  BY <1>3, Shallow
<1>9. s # 0 => Swapped[s] = simulators[s]
  BY <1>7 DEF Swapped
<1>10. s # 0 => Swapped[s] # None /\ ~Misses(Top.op, Swapped[s], Top.node)
  <2>1. s # 0 => /\ simulators[s] # None
                 /\ simulators[s] \in PerNode => ~(Top.node > Len(seen[simulators[s]]))
    BY <1>4, <1>7, <1>8, Uncut
  <2>2. Top.op # "create" => seen' = seen
    BY DEF CallReturn, Hear
  <2>3. QED
    BY <1>9, <2>1, <2>2 DEF Misses
<1>11. QED
  BY <1>1, <1>2, <1>4, <1>5, <1>10, VisitSucceeds

LEMMA CleanupPop ==
  ASSUME BaseInv, ~NotificationCut, PopSimulator
  PROVE  mode' = mode
<1>1. stack = <<>> /\ Len(simulators) \in Nat \ {0}
  BY PopMoves
<1>2. PICK s : s = Len(simulators)
  OBVIOUS
<1>3. s \in DOMAIN simulators /\ DOMAIN stack = {}
  BY <1>1, <1>2, LenProperties, EmptySeq DEF BaseInv, SimTypes
<1>4. simulators[s] # None
  <2>1. lost = {} /\ Fits(simulators, stack, lost)
    BY DEF NotificationCut, BaseInv
  <2>2. QED
    BY <1>3, <2>1 DEF Fits
<1>5. QED
  BY <1>2, <1>4 DEF PopSimulator

\* No step of the cleanup fails, except for one of user code.
LEMMA CleanupGoesOn ==
  ASSUME BaseInv, StopsExact, NotesExact, Next, mode = "cleanup", mode' = "aborted", Len(stack) <= 2,
         stack = <<>> \/ stack' # stack
  PROVE  NotificationCut
<1> SUFFICES ASSUME ~NotificationCut
             PROVE  FALSE
  OBVIOUS
<1>1. mode' # mode /\ final /\ (UserCode => stack' # stack)
  BY DEF UserCode, BaseInv, StageExact
<1>2. CASE ApiCall
  <2>1. CASE \E t \in Types : Add(t)
    BY <1>1, <2>1 DEF Add
  <2>2. CASE \E t \in Types : With(t)
    BY <1>1, <2>2 DEF With
  <2>3. CASE \E n \in NodeIds : IndexNode(n) \/ StopNode(n)
    BY <1>1, <2>3 DEF IndexNode, StopNode
  <2>4. ASSUME NEW n \in NodeIds, StartNode(n) PROVE FALSE
    <3>1. CASE Quiet
      BY <1>1, <2>4, <3>1 DEF Quiet, StartNode
    <3>2. CASE Begins(stack, "start", n)
      <4>1. stack' = stack \/ mode' = mode
        BY <3>2, BeginsAhead
      <4>2. QED
        BY <1>1, <2>4, <4>1 DEF StartNode
    <3>3. QED
      BY <2>4, <3>1, <3>2, StartNodeShape
  <2>5. CASE CreateNode \/ StopSimulation \/ UserPanic
    BY <1>1, <2>5 DEF CreateNode, StopSimulation, UserPanic
  <2>6. QED
    BY <1>2, <2>1, <2>2, <2>3, <2>4, <2>5 DEF ApiCall
<1>3. CASE Return
  <2>1. CASE WithReturn \/ DropReturn \/ BaseReturn
    BY <1>1, <2>1 DEF WithReturn, DropReturn, BaseReturn
  <2>2. CASE StopReturn \/ CallReturn
    BY <1>1, <2>2, CleanupStopReturn, CleanupCallReturn
  <2>3. QED
    BY <1>3, <2>1, <2>2 DEF Return
<1>4. CASE Library
  <2>1. CASE StopAllNext \/ StopAllReturn \/ Finish \/ PopSimulator
    BY <1>1, <2>1, CleanupPop DEF StopAllNext, StopAllReturn, Finish
  <2>2. CASE Unwind \/ Cleanup \/ \E t \in Types : UnwindNeeds(t)
    BY <2>2 DEF Unwind, Cleanup, UnwindNeeds
  <2>3. QED
    BY <1>4, <2>1, <2>2 DEF Library
<1>5. CASE Ended
  BY <1>5 DEF Ended
<1>6. QED
  BY <1>2, <1>3, <1>4, <1>5 DEF Next

\* The cleanup after a panic of user code does not panic itself, unless the first panic came
\* out of a notification (context_install_guard.rs:47).
THEOREM CleanupCorrect == Spec => CleanupSucceeds
<1>1. Init => BaseInv /\ Ahead /\ ViewsExact /\ NotesExact
  BY InitBase, InitSeen, InitViews, InitNotes
<1>2. BaseInv /\ Ahead /\ ViewsExact /\ NotesExact /\ [Next]_simVars
        => (BaseInv /\ Ahead /\ ViewsExact /\ NotesExact)'
  BY BaseStep, AheadStep, ViewsStep, NotesStep DEF ViewsExact
<1>3. BaseInv /\ Ahead /\ ViewsExact /\ NotesExact /\ [Next]_simVars
        => [ mode = "cleanup" /\ mode' = "aborted" /\ Len(stack) <= 2 /\ (stack = <<>> \/ stack' # stack)
               => NotificationCut ]_simVars
  BY CleanupGoesOn DEF ViewsExact
<1>4. QED
  BY <1>1, <1>2, <1>3, PTL DEF Spec, CleanupSucceeds

=============================================================================
