----------------------------- MODULE NetProofs -----------------------------
(***************************************************************************)
(* Proofs about Net, for every number of nodes, ports, packets and sockets *)
(* and every capacity of an inbox.                                         *)
(***************************************************************************)
EXTENDS Net, SequenceTheorems, FiniteSetTheorems, WellFoundedInduction, TLAPS

-----------------------------------------------------------------------------
(* The inductive invariant.                                                *)

Deliveries == [pkt : Nat, copy : Nat, to : Addrs, at : Nat]
Messages   == [pkt : Nat, onTime : BOOLEAN, life : Nat]

\* The types, in the form that a step preserves.
NetTypes ==
  /\ up \subseteq Nodes
  /\ starts \in [Nodes -> 0 .. MaxStarts]
  /\ now \in Nat
  /\ sent \in 0 .. MaxPackets
  /\ inboxes \in [Addrs -> Sockets \cup {None}]
  /\ addr \in Seq(Addrs) /\ Len(addr) <= MaxSockets
  /\ open \subseteq 1 .. Len(addr) /\ recv \subseteq 1 .. Len(addr)
  /\ buf \in [Sockets -> Seq(Messages)]
  /\ \A s \in Sockets : Len(buf[s]) <= Capacity
  /\ runq \in Seq(Deliveries)
  /\ asleep \subseteq Deliveries /\ IsFiniteSet(asleep)

\* A registered inbox belongs to a socket that exists and has that address.
InboxesExact == \A a \in Addrs : inboxes[a] # None => inboxes[a] \in open /\ addr[inboxes[a]] = a

\* The inbox of a socket that was not opened is empty.
FreshEmpty == \A s \in Sockets : s > Len(addr) => buf[s] = <<>>

\* No delivery is late.
NotLate ==
  /\ \A i \in 1 .. Len(runq) : now <= runq[i].at
  /\ \A d \in asleep : now < d.at

NetInv ==
  /\ NetTypes /\ InboxesExact /\ FreshEmpty /\ NotLate
  /\ SocketsOwnInboxes /\ NoMessageOverRestart /\ OnTime

LEMMA NetInvInit == Init => NetInv
<1> SUFFICES ASSUME Init
             PROVE  NetInv
  OBVIOUS
<1>1. NetTypes
  BY NetAssumption, FS_EmptySet DEF Init, NetTypes, None, Addrs, Sockets, Packets, INIT
<1>2. InboxesExact /\ FreshEmpty /\ NotLate /\ SocketsOwnInboxes
  BY DEF Init, InboxesExact, FreshEmpty, NotLate, SocketsOwnInboxes, Sockets
<1>3. NoMessageOverRestart /\ OnTime
  BY DEF Init, NoMessageOverRestart, OnTime, Sockets
<1>4. QED
  BY <1>1, <1>2, <1>3 DEF NetInv

-----------------------------------------------------------------------------
(* Inboxes.                                                                *)

\* The socket of an address.
LEMMA OwnAddress ==
  ASSUME NetInv
  PROVE  /\ \A s \in open : s \in Sockets /\ s # None /\ addr[s] \in Addrs /\ inboxes[addr[s]] = s
         /\ \A a \in Addrs : inboxes[a] # None =>
              inboxes[a] \in open /\ inboxes[a] \in Sockets /\ addr[inboxes[a]] = a
BY NetAssumption DEF NetInv, NetTypes, InboxesExact, SocketsOwnInboxes, Sockets, None

\* Nothing is added to an inbox.
Shrinks ==
  /\ buf' \in [Sockets -> Seq(Messages)]
  /\ \A s \in Sockets : /\ Len(buf'[s]) <= Len(buf[s])
                        /\ \A i \in 1 .. Len(buf'[s]) : \E j \in 1 .. Len(buf[s]) : buf'[s][i] = buf[s][j]

\* An inbox stays as it is, is emptied, or its oldest message is taken.
LEMMA ShrinksWhen ==
  ASSUME NetInv, DOMAIN buf' = Sockets, buf' = [s \in Sockets |-> buf'[s]],
         \A s \in Sockets : \/ buf'[s] = buf[s]
                            \/ buf'[s] = <<>>
                            \/ buf[s] # <<>> /\ buf'[s] = Tail(buf[s])
  PROVE  Shrinks
<1> SUFFICES ASSUME NEW s \in Sockets
             PROVE  /\ buf'[s] \in Seq(Messages)
                    /\ Len(buf'[s]) <= Len(buf[s])
                    /\ \A i \in 1 .. Len(buf'[s]) : \E j \in 1 .. Len(buf[s]) : buf'[s][i] = buf[s][j]
  BY DEF Shrinks
<1>1. buf[s] \in Seq(Messages) /\ Len(buf[s]) \in Nat
  BY DEF NetInv, NetTypes
<1>2. CASE buf'[s] = buf[s]
  BY <1>1, <1>2
<1>3. CASE buf'[s] = <<>>
  BY <1>1, <1>3
<1>4. CASE buf[s] # <<>> /\ buf'[s] = Tail(buf[s])
  <2>1. /\ Tail(buf[s]) \in Seq(Messages) /\ Len(Tail(buf[s])) = Len(buf[s]) - 1
        /\ \A i \in 1 .. Len(Tail(buf[s])) : Tail(buf[s])[i] = buf[s][i + 1]
    BY <1>1, <1>4, HeadTailProperties
  <2>2. QED
    BY <1>1, <1>4, <2>1
<1>5. QED
  BY <1>2, <1>3, <1>4

\* What a step that adds no message preserves.
LEMMA ShrinkStep ==
  ASSUME NetInv, Shrinks, UNCHANGED <<addr, starts>>, open' \subseteq open, up' \subseteq up
  PROVE  /\ buf' \in [Sockets -> Seq(Messages)] /\ \A s \in Sockets : Len(buf'[s]) <= Capacity
         /\ FreshEmpty' /\ NoMessageOverRestart'
         /\ \A s \in Sockets : \A i \in DOMAIN buf'[s] : buf'[s][i].onTime
<1>1. /\ buf \in [Sockets -> Seq(Messages)] /\ buf' \in [Sockets -> Seq(Messages)]
      /\ \A s \in Sockets : Len(buf[s]) \in Nat /\ Len(buf'[s]) \in Nat
      /\ \A s \in Sockets : DOMAIN buf[s] = 1 .. Len(buf[s]) /\ DOMAIN buf'[s] = 1 .. Len(buf'[s])
  BY DEF NetInv, NetTypes, Shrinks
<1>2. \A s \in Sockets : Len(buf'[s]) <= Capacity
  BY <1>1, NetAssumption DEF NetInv, NetTypes, Shrinks
<1>3. FreshEmpty'
  <2> SUFFICES ASSUME NEW s \in Sockets, s > Len(addr)
               PROVE  buf'[s] = <<>>
    BY DEF FreshEmpty
  <2>1. Len(buf'[s]) = 0
    BY <1>1 DEF NetInv, FreshEmpty, Shrinks
  <2>2. QED
    BY <1>1, <2>1, EmptySeq
<1>4. NoMessageOverRestart'
  <2> SUFFICES ASSUME NEW s \in open', addr[s][1] \in up', NEW i \in DOMAIN buf'[s]
               PROVE  buf'[s][i].life = starts[addr[s][1]]
    BY DEF NoMessageOverRestart
  <2>1. s \in open /\ s \in Sockets /\ addr[s][1] \in up
    BY OwnAddress
  <2>2. i \in 1 .. Len(buf'[s]) /\ DOMAIN buf[s] = 1 .. Len(buf[s])
    BY <1>1, <2>1
  <2>3. \A k \in 1 .. Len(buf'[s]) : \E j \in 1 .. Len(buf[s]) : buf'[s][k] = buf[s][j]
    BY <2>1 DEF Shrinks
  <2>4. PICK j \in DOMAIN buf[s] : buf'[s][i] = buf[s][j]
    BY <2>2, <2>3
  <2>5. QED
    BY <2>1, <2>4 DEF NetInv, NoMessageOverRestart
<1>5. \A s \in Sockets : \A i \in DOMAIN buf'[s] : buf'[s][i].onTime
  BY <1>1 DEF NetInv, OnTime, Shrinks
<1>6. QED
  BY <1>1, <1>2, <1>3, <1>4, <1>5

\* A step that leaves the deliveries and the clock alone and adds no message.
LEMMA SocketStep ==
  ASSUME NetInv, Shrinks, UNCHANGED <<addr, starts, now, sent, runq, asleep>>,
         up' \subseteq up, open' \subseteq open, recv' \subseteq 1 .. Len(addr),
         inboxes' = [a \in Addrs |-> IF inboxes[a] \in open' THEN inboxes[a] ELSE None]
  PROVE  NetInv'
<1>1. NetTypes'
  BY ShrinkStep DEF NetInv, NetTypes
<1>2. InboxesExact' /\ SocketsOwnInboxes'
  BY OwnAddress DEF InboxesExact, SocketsOwnInboxes
<1>3. NotLate'
  BY DEF NetInv, NotLate
<1>4. FreshEmpty' /\ NoMessageOverRestart' /\ OnTime'
  BY ShrinkStep DEF NetInv, OnTime
<1>5. QED
  BY <1>1, <1>2, <1>3, <1>4 DEF NetInv

\* The inboxes when no socket is closed.
LEMMA InboxesKept ==
  ASSUME NetInv
  PROVE  inboxes = [a \in Addrs |-> IF inboxes[a] \in open THEN inboxes[a] ELSE None]
BY OwnAddress DEF NetInv, NetTypes

LEMMA KeptShrinks ==
  ASSUME NetInv, NEW socks, NEW futs, buf' = Kept(socks, futs)
  PROVE  Shrinks
BY ShrinksWhen DEF Kept

LEMMA OpenStep ==
  ASSUME NetInv, NEW a \in Addrs, Open(a)
  PROVE  NetInv'
<1> DEFINE n == Len(addr) + 1
<1>1. /\ addr \in Seq(Addrs) /\ Len(addr) \in Nat /\ Len(addr) < MaxSockets
      /\ addr' = Append(addr, a) /\ addr' \in Seq(Addrs) /\ Len(addr') = n
      /\ addr'[n] = a /\ \A i \in 1 .. Len(addr) : addr'[i] = addr[i]
      /\ open' = open \cup {n} /\ inboxes' = [inboxes EXCEPT ![a] = n]
      /\ n \in Sockets /\ n # None /\ n \notin open
  BY AppendProperties, NetAssumption DEF Open, NetInv, NetTypes, Sockets, None
<1>2. /\ \A s \in open : s \in 1 .. Len(addr)
      /\ UNCHANGED <<up, starts, now, sent, buf, recv, runq, asleep>> /\ inboxes[a] = None
  BY DEF Open, NetInv, NetTypes
<1>3. NetTypes'
  <2>1. inboxes' \in [Addrs -> Sockets \cup {None}]
    BY <1>1 DEF NetInv, NetTypes
  <2>2. Len(addr') <= MaxSockets
    BY <1>1, NetAssumption
  <2>3. 1 .. Len(addr') = (1 .. Len(addr)) \cup {n}
    BY <1>1
  <2>4. open' \subseteq 1 .. Len(addr') /\ recv' \subseteq 1 .. Len(addr')
    BY <1>1, <1>2, <2>3 DEF NetInv, NetTypes
  <2>5. QED
    BY <1>1, <1>2, <2>1, <2>2, <2>4 DEF NetInv, NetTypes
<1>4. InboxesExact'
  BY <1>1, <1>2, OwnAddress DEF NetInv, NetTypes, InboxesExact
<1>5. SocketsOwnInboxes'
  BY <1>1, <1>2, OwnAddress DEF NetInv, NetTypes, SocketsOwnInboxes
<1>6. FreshEmpty' /\ NotLate' /\ OnTime'
  BY <1>1, <1>2, NetAssumption DEF NetInv, FreshEmpty, NotLate, OnTime, Sockets
<1>7. NoMessageOverRestart'
  <2>1. buf[n] = <<>>
    BY <1>1 DEF NetInv, FreshEmpty
  <2>2. QED
    BY <1>1, <1>2, <2>1 DEF NetInv, NoMessageOverRestart
<1>8. QED
  BY <1>3, <1>4, <1>5, <1>6, <1>7 DEF NetInv

LEMMA CloseStep ==
  ASSUME NetInv, NEW s \in Sockets, Close(s)
  PROVE  NetInv'
<1>1. Shrinks
  BY KeptShrinks DEF Close
<1>2. inboxes' = [a \in Addrs |-> IF inboxes[a] \in open' THEN inboxes[a] ELSE None]
  <2>1. \A a \in Addrs : inboxes'[a] = IF inboxes[a] \in open' THEN inboxes[a] ELSE None
    BY OwnAddress DEF Close, NetInv, NetTypes
  <2>2. QED
    BY <2>1 DEF Close, NetInv, NetTypes
<1>3. QED
  BY <1>1, <1>2, SocketStep DEF Close, NetInv, NetTypes

LEMMA ReceiveStep ==
  ASSUME NetInv, NEW s \in Sockets, Receive(s) \/ CancelReceive(s)
  PROVE  NetInv'
<1>1. s \in open \cup recv /\ s \in 1 .. Len(addr)
  BY DEF Receive, CancelReceive, NetInv, NetTypes
<1>2. Shrinks
  <2>1. CASE Take(s)
    BY <2>1, ShrinksWhen DEF Take, NetInv, NetTypes
  <2>2. CASE UNCHANGED buf
    BY <2>2, ShrinksWhen DEF NetInv, NetTypes
  <2>3. CASE CancelReceive(s)
    BY <2>3, KeptShrinks DEF CancelReceive
  <2>4. QED
    BY <2>1, <2>2, <2>3 DEF Receive
<1>3. recv' \subseteq 1 .. Len(addr)
  BY <1>1 DEF Receive, CancelReceive, NetInv, NetTypes
<1>4. UNCHANGED <<addr, starts, now, sent, runq, asleep, up, open, inboxes>>
  BY DEF Receive, CancelReceive
<1>5. QED
  BY <1>2, <1>3, <1>4, SocketStep, InboxesKept

LEMMA StopNodeStep ==
  ASSUME NetInv, NEW n \in Nodes, StopNode(n)
  PROVE  NetInv'
<1>1. PICK gone \in SUBSET {s \in open : addr[s][1] = n} :
        /\ open' = open \ gone
        /\ inboxes' = [a \in Addrs |-> IF inboxes[a] \in gone THEN None ELSE inboxes[a]]
  BY DEF StopNode
<1>2. /\ Shrinks /\ up' \subseteq up /\ open' \subseteq open /\ recv' \subseteq 1 .. Len(addr)
      /\ UNCHANGED <<addr, starts, now, sent>>
  BY <1>1, KeptShrinks DEF StopNode, NetInv, NetTypes
<1>3. inboxes' = [a \in Addrs |-> IF inboxes[a] \in open' THEN inboxes[a] ELSE None]
  BY <1>1, OwnAddress
<1>4. (runq' = runq /\ asleep' = asleep) \/ (runq' = <<>> /\ asleep' = {})
  BY DEF StopNode
<1>5. NetTypes'
  <2>1. runq' \in Seq(Deliveries) /\ asleep' \subseteq Deliveries /\ IsFiniteSet(asleep')
    <3>1. IsFiniteSet({}) /\ <<>> \in Seq(Deliveries)
      BY FS_EmptySet
    <3>2. QED
      BY <1>4, <3>1 DEF NetInv, NetTypes
  <2>2. inboxes' \in [Addrs -> Sockets \cup {None}]
    BY <1>3, OwnAddress DEF NetInv, NetTypes
  <2>3. buf' \in [Sockets -> Seq(Messages)] /\ \A s \in Sockets : Len(buf'[s]) <= Capacity
    BY <1>2, ShrinkStep
  <2>4. QED
    BY <1>2, <2>1, <2>2, <2>3 DEF NetInv, NetTypes
<1>6. InboxesExact' /\ SocketsOwnInboxes'
  BY <1>2, <1>3, OwnAddress DEF InboxesExact, SocketsOwnInboxes
<1>7. NotLate'
  BY <1>2, <1>4 DEF NetInv, NotLate
<1>8. FreshEmpty' /\ NoMessageOverRestart' /\ OnTime'
  BY <1>2, <1>7, ShrinkStep DEF NetInv, OnTime, NotLate
<1>9. QED
  BY <1>5, <1>6, <1>7, <1>8 DEF NetInv

LEMMA StartNodeStep ==
  ASSUME NetInv, NEW n \in Nodes, StartNode(n)
  PROVE  NetInv'
<1>1. /\ buf' = Drained(n) /\ up' = up \cup {n}
      /\ n \notin up /\ starts[n] < MaxStarts /\ starts' = [starts EXCEPT ![n] = @ + 1]
      /\ UNCHANGED <<now, sent, inboxes, addr, open, recv, runq, asleep>>
  BY DEF StartNode
<1>2. Shrinks
  BY <1>1, ShrinksWhen DEF Drained
<1>3. \A s \in open : addr[s][1] = n => buf'[s] = <<>>
  BY <1>1, OwnAddress DEF Drained
<1>4. /\ buf' \in [Sockets -> Seq(Messages)] /\ \A s \in Sockets : Len(buf'[s]) \in Nat
      /\ \A s \in Sockets : DOMAIN buf'[s] = 1 .. Len(buf'[s])
      /\ \A s \in Sockets : buf'[s] = <<>> \/ buf'[s] = buf[s]
  BY <1>1, <1>2 DEF Shrinks, Drained
<1>5. NetTypes'
  <2>1. starts' \in [Nodes -> 0 .. MaxStarts]
    BY <1>1, NetAssumption DEF NetInv, NetTypes
  <2>2. \A s \in Sockets : Len(buf'[s]) <= Capacity
    BY <1>4, NetAssumption DEF NetInv, NetTypes
  <2>3. QED
    BY <1>1, <1>4, <2>1, <2>2 DEF NetInv, NetTypes
<1>6. InboxesExact' /\ SocketsOwnInboxes' /\ NotLate'
  BY <1>1 DEF NetInv, InboxesExact, SocketsOwnInboxes, NotLate
<1>7. FreshEmpty' /\ OnTime'
  BY <1>1, <1>4 DEF NetInv, FreshEmpty, OnTime
<1>8. NoMessageOverRestart'
  <2> SUFFICES ASSUME NEW s \in open, addr[s][1] \in up', NEW i \in DOMAIN buf'[s]
               PROVE  buf'[s][i].life = starts'[addr[s][1]]
    BY <1>1 DEF NoMessageOverRestart
  <2>1. s \in Sockets /\ addr[s] \in Addrs /\ addr[s][1] \in Nodes
    BY OwnAddress DEF Addrs
  <2>2. addr[s][1] # n /\ buf'[s] = buf[s]
    BY <1>3, <1>4, <2>1
  <2>3. QED
    BY <1>1, <2>1, <2>2 DEF NetInv, NetTypes, NoMessageOverRestart
<1>9. QED
  BY <1>5, <1>6, <1>7, <1>8 DEF NetInv

-----------------------------------------------------------------------------
(* Deliveries.                                                             *)

\* The sequences of the elements of a finite set.
LEMMA OrdersOf ==
  ASSUME NEW S, IsFiniteSet(S), NEW order \in SetToSeqs(S)
  PROVE  /\ order \in Seq(S) /\ DOMAIN order = 1 .. Len(order) /\ Len(order) \in Nat
         /\ \A i \in 1 .. Len(order) : order[i] \in S
<1>1. Cardinality(S) \in Nat
  BY FS_CardinalityType
<1>2. order \in [1 .. Cardinality(S) -> S]
  BY DEF SetToSeqs
<1>3. order \in Seq(S)
  BY <1>1, <1>2
<1>4. QED
  BY <1>3

\* Deliveries are added, and none of them is late.
LEMMA EnqueueStep ==
  ASSUME NetInv, NEW p \in Nat, NEW a \in Addrs, NEW ats \in Seq(Nat),
         Enqueue(p, a, ats), sent' \in 0 .. MaxPackets,
         UNCHANGED <<up, starts, now, inboxes, addr, open, buf, recv, asleep>>
  PROVE  NetInv'
<1>1. runq' \in Seq(Deliveries) /\ \A i \in 1 .. Len(runq') : now <= runq'[i].at
  <2>1. /\ runq \in Seq(Deliveries) /\ Len(runq) \in Nat /\ now \in Nat
        /\ \A i \in 1 .. Len(runq) : now <= runq[i].at
    BY DEF NetInv, NetTypes, NotLate
  <2>2. CASE UNCHANGED runq
    BY <2>1, <2>2
  <2>3. CASE runq' # runq
    <3> DEFINE new == [i \in DOMAIN ats |-> Delivery(p, i, a, ats[i])]
    <3>1. runq' = runq \o new
      BY <2>3 DEF Enqueue
    <3>2. DOMAIN ats = 1 .. Len(ats) /\ Len(ats) \in Nat /\ \A i \in 1 .. Len(ats) : ats[i] \in Nat
      OBVIOUS
    <3>3. \A i \in 1 .. Len(ats) : new[i] \in Deliveries /\ now <= new[i].at
      BY <2>1, <3>2 DEF Delivery, Deliveries
    <3>4. new \in Seq(Deliveries) /\ Len(new) = Len(ats)
      BY <3>2, <3>3
    <3> HIDE DEF new
    <3>5. /\ runq' \in Seq(Deliveries) /\ Len(runq') = Len(runq) + Len(new)
          /\ \A i \in 1 .. Len(runq') : runq'[i] = IF i <= Len(runq) THEN runq[i] ELSE new[i - Len(runq)]
      <4>1. /\ runq \o new \in Seq(Deliveries) /\ Len(runq \o new) = Len(runq) + Len(new)
            /\ \A i \in 1 .. Len(runq) + Len(new) :
                 (runq \o new)[i] = IF i <= Len(runq) THEN runq[i] ELSE new[i - Len(runq)]
        BY <2>1, <3>4, ConcatProperties
      <4>2. QED
        BY <3>1, <4>1
    <3>6. ASSUME NEW i \in 1 .. Len(runq')
          PROVE  now <= runq'[i].at
      <4>1. CASE i <= Len(runq)
        BY <2>1, <3>5, <4>1
      <4>2. CASE ~(i <= Len(runq))
        BY <2>1, <3>2, <3>3, <3>4, <3>5, <4>2
      <4>3. QED
        BY <4>1, <4>2
    <3>7. QED
      BY <3>5, <3>6
  <2>4. QED
    BY <2>2, <2>3
<1>2. NetTypes'
  BY <1>1 DEF NetInv, NetTypes
<1>3. InboxesExact' /\ FreshEmpty' /\ NotLate'
  BY <1>1 DEF NetInv, InboxesExact, FreshEmpty, NotLate
<1>4. SocketsOwnInboxes' /\ NoMessageOverRestart' /\ OnTime'
  BY DEF NetInv, SocketsOwnInboxes, NoMessageOverRestart, OnTime
<1>5. QED
  BY <1>2, <1>3, <1>4 DEF NetInv

\* A SendFunction asks for a sequence of instants.
LEMMA SendFunctionSeqs ==
  ASSUME NetInv, NEW ats \in SendFunction
  PROVE  ats \in Seq(Nat)
<1>1. now + Latency \in Nat /\ Instants \subseteq Nat
  BY NetAssumption DEF NetInv, NetTypes
<1>2. CASE Perfect
  <2>1. ats = <<now + Latency>>
    BY <1>2 DEF SendFunction
  <2>2. QED
    BY <1>1, <2>1
<1>3. CASE ~Perfect
  <2> DEFINE K == 0 .. MaxInFlight - Cardinality(InFlight)
  <2>1. PICK k \in K : ats \in [1 .. k -> Instants]
    <3>1. ats \in UNION {[1 .. k -> Instants] : k \in K}
      BY <1>3 DEF SendFunction
    <3> HIDE DEF K
    <3>2. QED
      BY <3>1, Zenon
  <2>2. k \in Nat
    OBVIOUS
  <2>3. ats \in [1 .. k -> Nat]
    BY <1>1, <2>1
  <2> HIDE DEF K
  <2>4. QED
    BY <2>2, <2>3
<1>4. QED
  BY <1>2, <1>3

LEMMA SendStep ==
  ASSUME NetInv, NEW a \in Addrs, Send(a)
  PROVE  NetInv'
<1>1. PICK ats \in SendFunction : Enqueue(sent', a, ats)
  BY DEF Send
<1>2. /\ sent' = sent + 1 /\ sent' \in 0 .. MaxPackets /\ sent' \in Nat
      /\ UNCHANGED <<up, starts, now, inboxes, addr, open, buf, recv, asleep>>
  BY NetAssumption DEF Send, NetInv, NetTypes
<1>3. QED
  BY <1>1, <1>2, SendFunctionSeqs, EnqueueStep

\* Nothing but a panic.
LEMMA SendForeignStep ==
  ASSUME NetInv, NEW s \in Sockets, SendForeign(s)
  PROVE  NetInv'
<1>1. UNCHANGED <<up, starts, now, sent, inboxes, addr, open, buf, recv, runq, asleep>>
  BY DEF SendForeign
<1>2. QED
  BY <1>1 DEF NetInv, NetTypes, InboxesExact, FreshEmpty, NotLate, SocketsOwnInboxes,
              NoMessageOverRestart, OnTime

\* A delivery task runs: it falls asleep, or it is time and the message goes into the
\* inbox that is registered, whose owner has the address of the delivery.
LEMMA RunDeliveryStep ==
  ASSUME NetInv, RunDelivery
  PROVE  NetInv'
<1> DEFINE d == Head(runq)
<1>1. /\ runq \in Seq(Deliveries) /\ runq # <<>> /\ Len(runq) \in Nat /\ now \in Nat
      /\ \A i \in 1 .. Len(runq) : now <= runq[i].at
  BY DEF RunDelivery, NetInv, NetTypes, NotLate
<1>2. /\ d \in Deliveries /\ d = runq[1] /\ Len(runq) > 0
      /\ runq' = Tail(runq) /\ runq' \in Seq(Deliveries) /\ Len(runq') = Len(runq) - 1
      /\ \A i \in 1 .. Len(runq') : runq'[i] = runq[i + 1]
  BY <1>1, HeadTailProperties DEF RunDelivery
<1>3. now <= d.at /\ d.to \in Addrs /\ d.at \in Nat /\ d.pkt \in Nat
  BY <1>1, <1>2 DEF Deliveries
<1>4. \A i \in 1 .. Len(runq') : now <= runq'[i].at
  BY <1>1, <1>2
<1> HIDE DEF d
<1>5. UNCHANGED <<up, starts, now, sent, inboxes, addr, open, recv>>
  BY DEF RunDelivery
<1>6. InboxesExact' /\ SocketsOwnInboxes'
  BY <1>5 DEF NetInv, InboxesExact, SocketsOwnInboxes
<1>7. CASE now >= d.at
  <2>1. now = d.at /\ Deliver(d) /\ asleep' = asleep
    BY <1>1, <1>3, <1>7 DEF RunDelivery, d
  <2> DEFINE s == inboxes[d.to]
  <2>2. NotLate'
    BY <1>4, <1>5, <2>1 DEF NetInv, NotLate
  <2>3. CASE UNCHANGED buf
    <3>1. NetTypes'
      BY <1>2, <1>5, <2>1, <2>3 DEF NetInv, NetTypes
    <3>2. FreshEmpty' /\ NoMessageOverRestart' /\ OnTime'
      BY <1>5, <2>1, <2>3 DEF NetInv, FreshEmpty, NoMessageOverRestart, OnTime
    <3>3. QED
      BY <1>6, <2>2, <3>1, <3>2 DEF NetInv
  <2>4. CASE s # None /\ Len(buf[s]) < Capacity /\ buf' = [buf EXCEPT ![s] = Append(@, Message(d))]
    <3>1. s \in open /\ s \in Sockets /\ addr[s] = d.to /\ d.to[1] \in Nodes /\ s \in 1 .. Len(addr)
      <4>1. s \in open /\ s \in Sockets /\ addr[s] = d.to
        BY <1>3, <2>4, OwnAddress
      <4>2. d.to[1] \in Nodes
        BY <1>3 DEF Addrs
      <4>3. QED
        BY <4>1, <4>2 DEF NetInv, NetTypes
    <3> HIDE DEF s
    <3>2. Message(d) \in Messages /\ Message(d).onTime /\ Message(d).life = starts[addr[s][1]]
      <4>1. Message(d) = [pkt |-> d.pkt, onTime |-> TRUE, life |-> starts[addr[s][1]]]
        BY <2>1, <3>1 DEF Message
      <4>2. starts[addr[s][1]] \in Nat
        BY <3>1, NetAssumption DEF NetInv, NetTypes
      <4>3. QED
        BY <1>3, <4>1, <4>2 DEF Messages
    <3>3. buf[s] \in Seq(Messages) /\ Len(buf[s]) \in Nat
      BY <3>1 DEF NetInv, NetTypes
    <3>4. /\ buf'[s] = Append(buf[s], Message(d)) /\ buf'[s] \in Seq(Messages)
          /\ Len(buf'[s]) = Len(buf[s]) + 1 /\ buf'[s][Len(buf[s]) + 1] = Message(d)
          /\ \A i \in 1 .. Len(buf[s]) : buf'[s][i] = buf[s][i]
          /\ \A r \in Sockets : r # s => buf'[r] = buf[r]
      BY <2>4, <3>1, <3>2, <3>3, AppendProperties DEF NetInv, NetTypes
    <3>5. \A i \in DOMAIN buf'[s] : buf'[s][i] = Message(d) \/ (i \in DOMAIN buf[s] /\ buf'[s][i] = buf[s][i])
      BY <3>3, <3>4
    <3>6. NetTypes'
      <4>1. buf' \in [Sockets -> Seq(Messages)]
        BY <2>4, <3>1, <3>4 DEF NetInv, NetTypes
      <4>2. \A r \in Sockets : Len(buf'[r]) <= Capacity
        BY <2>4, <3>3, <3>4, NetAssumption DEF NetInv, NetTypes
      <4>3. QED
        BY <1>2, <1>5, <2>1, <4>1, <4>2 DEF NetInv, NetTypes
    <3>7. FreshEmpty'
      BY <1>5, <3>1, <3>4 DEF NetInv, NetTypes, FreshEmpty, Sockets
    <3>8. NoMessageOverRestart'
      <4> SUFFICES ASSUME NEW r \in open, addr[r][1] \in up, NEW i \in DOMAIN buf'[r]
                   PROVE  buf'[r][i].life = starts[addr[r][1]]
        BY <1>5 DEF NoMessageOverRestart
      <4>1. CASE r = s /\ buf'[r][i] = Message(d)
        BY <3>2, <4>1
      <4>2. CASE r # s \/ buf'[r][i] # Message(d)
        <5>1. i \in DOMAIN buf[r] /\ buf'[r][i] = buf[r][i]
          BY <3>4, <3>5, <4>2, OwnAddress
        <5>2. QED
          BY <5>1 DEF NetInv, NoMessageOverRestart
      <4>3. QED
        BY <4>1, <4>2
    <3>9. OnTime'
      BY <1>5, <2>1, <2>2, <3>2, <3>4, <3>5 DEF NetInv, OnTime, NotLate
    <3>10. QED
      BY <1>6, <2>2, <3>6, <3>7, <3>8, <3>9 DEF NetInv
  <2>5. QED
    BY <2>1, <2>3, <2>4 DEF Deliver
<1>8. CASE ~(now >= d.at)
  <2>1. asleep' = asleep \cup {d} /\ buf' = buf /\ now < d.at
    BY <1>1, <1>3, <1>8 DEF RunDelivery, d
  <2>2. IsFiniteSet(asleep')
    BY <2>1, FS_AddElement DEF NetInv, NetTypes
  <2>3. NetTypes'
    BY <1>2, <1>5, <2>1, <2>2 DEF NetInv, NetTypes
  <2>4. NotLate'
    BY <1>4, <1>5, <2>1 DEF NetInv, NotLate
  <2>5. FreshEmpty' /\ NoMessageOverRestart' /\ OnTime'
    BY <1>5, <2>1, <2>4 DEF NetInv, FreshEmpty, NoMessageOverRestart, OnTime, NotLate
  <2>6. QED
    BY <1>6, <2>3, <2>4, <2>5 DEF NetInv
<1>9. QED
  BY <1>7, <1>8

\* The clock moves to the earliest deadline.
LEMMA AdvanceStep ==
  ASSUME NetInv, Advance
  PROVE  NetInv'
<1>1. /\ asleep \subseteq Deliveries /\ asleep # {} /\ IsFiniteSet(asleep) /\ now \in Nat
      /\ \A d \in asleep : now < d.at /\ d.at \in Nat
      /\ UNCHANGED <<up, starts, sent, inboxes, addr, open, buf, recv>>
  BY DEF Advance, NetInv, NetTypes, NotLate, Deliveries
<1>2. \E d \in asleep : \A e \in asleep : d.at <= e.at
  <2> DEFINE T == {d.at : d \in asleep}
  <2>1. T \subseteq Nat /\ T # {}
    BY <1>1
  <2>2. PICK x \in T : \A y \in T : ~(<<y, x>> \in OpToRel(<, Nat))
    BY <2>1, WFMin, NatLessThanWellFounded
  <2>3. \A y \in Nat : y < x => <<y, x>> \in OpToRel(<, Nat)
    BY <2>1, Zenon DEF OpToRel
  <2>4. x \in Nat /\ \A y \in T : y \in Nat /\ ~(y < x)
    BY <2>1, <2>2, <2>3, Zenon
  <2>5. PICK d \in asleep : x = d.at
    BY <2>2
  <2>6. \A e \in asleep : e.at \in T
    OBVIOUS
  <2> HIDE DEF T
  <2>7. ASSUME NEW e \in asleep PROVE d.at <= e.at
    <3>1. e.at \in Nat /\ ~(e.at < x)
      BY <2>4, <2>6, Zenon
    <3>2. QED
      BY <2>4, <2>5, <3>1
  <2>8. QED
    BY <2>7
<1>3. \E d \in asleep : now' = d.at /\ \A e \in asleep : now' <= e.at
  BY <1>2 DEF Advance
<1>4. now' \in Nat /\ \A d \in asleep : now' <= d.at
  BY <1>1, <1>3
<1>5. /\ asleep' \subseteq asleep /\ \A d \in asleep' : now' < d.at
      /\ IsFiniteSet(asleep') /\ IsFiniteSet(asleep \ asleep')
  <2>1. asleep' \subseteq asleep /\ \A d \in asleep' : now' < d.at
    BY <1>1, <1>4 DEF Advance
  <2>2. QED
    BY <1>1, <2>1, FS_Subset
<1>6. runq' \in Seq(Deliveries) /\ \A i \in 1 .. Len(runq') : now' <= runq'[i].at
  <2>1. PICK order \in SetToSeqs(asleep \ asleep') : runq' = order
    BY DEF Advance
  <2>2. order \in Seq(asleep \ asleep') /\ \A i \in 1 .. Len(order) : order[i] \in asleep \ asleep'
    BY <1>5, OrdersOf
  <2>3. order \in Seq(Deliveries)
    BY <1>1, <2>2
  <2>4. QED
    BY <1>4, <2>1, <2>2, <2>3
<1>7. NetTypes'
  BY <1>1, <1>4, <1>5, <1>6 DEF NetInv, NetTypes
<1>8. InboxesExact' /\ FreshEmpty' /\ NotLate' /\ SocketsOwnInboxes'
  BY <1>1, <1>5, <1>6 DEF NetInv, InboxesExact, FreshEmpty, NotLate, SocketsOwnInboxes
<1>9. NoMessageOverRestart' /\ OnTime'
  BY <1>1, <1>5 DEF NetInv, NoMessageOverRestart, OnTime
<1>10. QED
  BY <1>7, <1>8, <1>9 DEF NetInv

-----------------------------------------------------------------------------
(* The theorems.                                                           *)

\* The registered inboxes, their messages and the deliveries stay consistent with the
\* sockets, the lives of the nodes and the clock.
THEOREM NetInvariant == Spec => []NetInv
<1>1. Init => NetInv
  BY NetInvInit
<1>2. NetInv /\ [Next]_netVars => NetInv'
  <2> SUFFICES ASSUME NetInv, [Next]_netVars
               PROVE  NetInv'
    OBVIOUS
  <2>1. ASSUME NEW a \in Addrs, Open(a) \/ Send(a)
        PROVE  NetInv'
    BY <2>1, OpenStep, SendStep
  <2>2. ASSUME NEW s \in Sockets, Close(s) \/ Receive(s) \/ CancelReceive(s) \/ SendForeign(s)
        PROVE  NetInv'
    BY <2>2, CloseStep, ReceiveStep, SendForeignStep
  <2>3. ASSUME NEW n \in Nodes, StopNode(n) \/ StartNode(n)
        PROVE  NetInv'
    BY <2>3, StopNodeStep, StartNodeStep
  <2>4. CASE RunDelivery \/ Advance
    BY <2>4, RunDeliveryStep, AdvanceStep
  <2>5. CASE UNCHANGED netVars
    BY <2>5 DEF netVars, NetInv, NetTypes, InboxesExact, FreshEmpty, NotLate, SocketsOwnInboxes,
                NoMessageOverRestart, OnTime
  <2>6. QED
    BY <2>1, <2>2, <2>3, <2>4, <2>5 DEF Next, Quiet
<1>3. QED
  BY <1>1, <1>2, PTL DEF Spec

\* Type correctness; no inbox holds more than its capacity.
THEOREM NetTypeCorrect == Spec => []TypeOK
<1>1. NetInv => TypeOK
  BY DEF NetInv, NetTypes, TypeOK
<1>2. QED
  BY <1>1, NetInvariant, PTL

\* The assertion of Socket's destructor never fails.
THEOREM SocketsCorrect == Spec => []SocketsOwnInboxes
<1>1. NetInv => SocketsOwnInboxes
  BY DEF NetInv
<1>2. QED
  BY <1>1, NetInvariant, PTL

\* No message is carried over from one life of a node into the next.
THEOREM RestartCorrect == Spec => []NoMessageOverRestart
<1>1. NetInv => NoMessageOverRestart
  BY DEF NetInv
<1>2. QED
  BY <1>1, NetInvariant, PTL

\* Messages arrive neither early nor late.
THEOREM OnTimeCorrect == Spec => []OnTime
<1>1. NetInv => OnTime
  BY DEF NetInv
<1>2. QED
  BY <1>1, NetInvariant, PTL

-----------------------------------------------------------------------------
(* What becomes of a copy in flight.                                       *)

\* The elements of a sequence are its head and those of its tail.
LEMMA RangeSplit ==
  ASSUME NEW S, NEW q \in Seq(S), q # <<>>
  PROVE  Range(q) = Range(Tail(q)) \cup {Head(q)}
<1>1. /\ Len(q) \in Nat /\ Len(q) > 0 /\ DOMAIN q = 1 .. Len(q)
      /\ Head(q) = q[1] /\ DOMAIN Tail(q) = 1 .. Len(q) - 1
      /\ \A k \in 1 .. Len(q) - 1 : Tail(q)[k] = q[k + 1]
  BY HeadTailProperties
<1>2. ASSUME NEW k \in 1 .. Len(q)
      PROVE  q[k] \in Range(Tail(q)) \cup {Head(q)}
  <2>1. CASE k = 1
    BY <1>1, <2>1
  <2>2. CASE k # 1
    <3>1. k - 1 \in 1 .. Len(q) - 1 /\ (k - 1) + 1 = k
      BY <1>1, <2>2
    <3>2. Tail(q)[k - 1] = q[k]
      BY <1>1, <3>1
    <3>3. QED
      BY <1>1, <3>1, <3>2 DEF Range
  <2>3. QED
    BY <2>1, <2>2
<1>3. ASSUME NEW k \in 1 .. Len(q) - 1
      PROVE  Tail(q)[k] \in Range(q)
  <2>1. k + 1 \in 1 .. Len(q)
    BY <1>1
  <2>2. QED
    BY <1>1, <2>1 DEF Range
<1>4. Head(q) \in Range(q)
  <2>1. 1 \in 1 .. Len(q)
    BY <1>1
  <2>2. QED
    BY <1>1, <2>1 DEF Range
<1>5. QED
  BY <1>1, <1>2, <1>3, <1>4 DEF Range

\* The orders of a finite set name each of its elements.
LEMMA OrdersCover ==
  ASSUME NEW S, IsFiniteSet(S), NEW order \in SetToSeqs(S)
  PROVE  S \subseteq Range(order)
<1>1. Cardinality(S) \in Nat
  BY FS_CardinalityType
<1> DEFINE D == 1 .. Cardinality(S)
<1>2. order \in [D -> S] /\ \A i, j \in D : i # j => order[i] # order[j]
  BY DEF SetToSeqs
<1>3. order \in Injection(D, S)
  BY <1>2 DEF Injection, IsInjective
<1>4. Cardinality(D) = Cardinality(S)
  BY <1>1, FS_Interval
<1>5. order \in Surjection(D, S)
  BY <1>3, <1>4, FS_Injection
<1>6. QED
  BY <1>2, <1>5 DEF Surjection, Range

\* A delivery task that has ended has put its message into the inbox.
LEMMA RunDeliveryKeeps ==
  ASSUME NetInv, RunDelivery, NEW d \in InFlight \ InFlight'
  PROVE  \/ inboxes[d.to] = None
         \/ Len(buf[inboxes[d.to]]) = Capacity
         \/ buf'[inboxes[d.to]] = Append(buf[inboxes[d.to]], Message(d))
<1>1. NetTypes /\ runq # <<>> /\ runq \in Seq(Deliveries) /\ runq' = Tail(runq)
  BY DEF NetInv, NetTypes, RunDelivery
<1>2. asleep \subseteq asleep' /\ Range(runq) = Range(runq') \cup {Head(runq)}
  <2>1. asleep \subseteq asleep'
    BY DEF RunDelivery
  <2>2. QED
    BY <1>1, <2>1, RangeSplit
<1>3. d = Head(runq) /\ d \notin asleep'
  BY <1>2 DEF InFlight
<1>4. Deliver(d) /\ d \in Deliveries
  BY <1>1, <1>3 DEF RunDelivery
<1>5. inboxes[d.to] \in Sockets \cup {None}
  BY <1>1, <1>4 DEF NetTypes, Deliveries
<1>6. CASE inboxes[d.to] \in Sockets /\ Len(buf[inboxes[d.to]]) < Capacity
  BY <1>1, <1>4, <1>6 DEF Deliver, NetTypes, Sockets, None
<1>7. CASE inboxes[d.to] \in Sockets /\ ~(Len(buf[inboxes[d.to]]) < Capacity)
  <2>1. Len(buf[inboxes[d.to]]) <= Capacity /\ Len(buf[inboxes[d.to]]) \in Nat
    BY <1>1, <1>7 DEF NetTypes
  <2>2. QED
    BY <1>7, <2>1, NetAssumption
<1>8. QED
  BY <1>5, <1>6, <1>7

\* A copy in flight is lost only to the stop of INIT, a missing socket or a full inbox.
THEOREM CopiesCorrect == Spec => CopiesKept
<1>1. NetInv /\ [Next]_netVars =>
        [ \A d \in InFlight \ InFlight' :
            \/ INIT \notin up'
            \/ inboxes[d.to] = None
            \/ Len(buf[inboxes[d.to]]) = Capacity
            \/ buf'[inboxes[d.to]] = Append(buf[inboxes[d.to]], Message(d)) ]_netVars
  <2> SUFFICES ASSUME NetInv, Next, NEW d \in InFlight \ InFlight'
               PROVE  \/ INIT \notin up'
                      \/ inboxes[d.to] = None
                      \/ Len(buf[inboxes[d.to]]) = Capacity
                      \/ buf'[inboxes[d.to]] = Append(buf[inboxes[d.to]], Message(d))
    OBVIOUS
  <2>1. (runq' = runq /\ asleep' = asleep) => FALSE
    BY DEF InFlight
  <2>2. ASSUME NEW a \in Addrs, Open(a) \/ Send(a)
        PROVE  FALSE
    <3>1. CASE Open(a)
      BY <2>1, <3>1 DEF Open
    <3>2. CASE Send(a)
      <4>1. PICK ats \in SendFunction : Enqueue(sent', a, ats)
        BY <3>2 DEF Send
      <4>2. asleep' = asleep
        BY <3>2 DEF Send
      <4>3. CASE panic'
        BY <2>1, <4>1, <4>2, <4>3, <3>2 DEF Enqueue, Send
      <4>4. CASE runq' = runq \o [i \in DOMAIN ats |-> Delivery(sent', i, a, ats[i])]
        <5>1. runq \in Seq(Deliveries) /\ ats \in Seq(Nat)
          BY <4>1, SendFunctionSeqs DEF NetInv, NetTypes
        <5>2. \A i \in 1 .. Len(runq) : i \in DOMAIN runq' /\ runq'[i] = runq[i]
          BY <4>4, <5>1
        <5>3. Range(runq) \subseteq Range(runq')
          BY <5>1, <5>2 DEF Range
        <5>4. QED
          BY <4>2, <5>3 DEF InFlight
      <4>5. QED
        BY <2>1, <4>1, <4>2, <4>4 DEF Enqueue
    <3>3. QED
      BY <2>2, <3>1, <3>2
  <2>3. ASSUME NEW s \in Sockets, Close(s) \/ Receive(s) \/ CancelReceive(s) \/ SendForeign(s)
        PROVE  FALSE
    BY <2>1, <2>3 DEF Close, Receive, CancelReceive, SendForeign
  <2>4. ASSUME NEW n \in Nodes, StopNode(n) \/ StartNode(n)
        PROVE  INIT \notin up'
    BY <2>1, <2>4 DEF StopNode, StartNode
  <2>5. CASE RunDelivery
    BY <2>5, RunDeliveryKeeps
  <2>6. CASE Advance
    <3>1. PICK order \in SetToSeqs(asleep \ asleep') : runq' = order
      BY <2>6 DEF Advance
    <3>2. runq = <<>> /\ IsFiniteSet(asleep \ asleep')
      BY <2>6, FS_Difference DEF Advance, NetInv, NetTypes
    <3>3. asleep \ asleep' \subseteq Range(order)
      BY <3>1, <3>2, OrdersCover
    <3>4. Range(runq) = {}
      BY <3>2 DEF Range
    <3>5. QED
      BY <3>1, <3>3, <3>4 DEF InFlight
  <2>7. CASE Quiet
    BY <2>1, <2>7 DEF Quiet, netVars
  <2>8. QED
    BY <2>2, <2>3, <2>4, <2>5, <2>6, <2>7 DEF Next
<1>2. QED
  BY <1>1, NetInvariant, PTL DEF Spec, CopiesKept

-----------------------------------------------------------------------------
(* Copies of a packet.                                                     *)

\* The copies of a packet that are on the way, and those that are in an inbox.
Flying(p) == {d \in InFlight : d.pkt = p}
Slots(p)  == {x \in Sockets \X (1 .. Capacity) :
                x[2] \in DOMAIN buf[x[1]] /\ buf[x[1]][x[2]].pkt = p}

\* Only packets that were sent are in flight or in an inbox.
CopiesKnown ==
  /\ \A d \in InFlight : d.pkt <= sent
  /\ \A s \in Sockets : \A i \in DOMAIN buf[s] : buf[s][i].pkt <= sent

\* The copies of a packet in flight differ, so that the set InFlight counts them.
Distinct ==
  /\ \A i, j \in DOMAIN runq : i # j => runq[i] # runq[j]
  /\ \A i \in DOMAIN runq : runq[i] \notin asleep

Unsent == due \in [Packets -> Int] /\ \A p \in Packets : p > sent => due[p] = 0

CountInv == NetInv /\ CopiesKnown /\ Distinct /\ Unsent /\ AtMostOnce

LEMMA RunqFacts ==
  ASSUME NetInv
  PROVE  /\ runq \in Seq(Deliveries) /\ Len(runq) \in Nat /\ DOMAIN runq = 1 .. Len(runq)
         /\ \A i \in 1 .. Len(runq) : runq[i] \in Deliveries /\ runq[i] \in InFlight
         /\ \A d \in InFlight : d \in Deliveries /\ (d \in asleep \/ \E i \in 1 .. Len(runq) : d = runq[i])
         /\ \A d \in Deliveries : d.pkt \in Nat
<1>1. /\ runq \in Seq(Deliveries) /\ Len(runq) \in Nat /\ DOMAIN runq = 1 .. Len(runq)
      /\ \A i \in 1 .. Len(runq) : runq[i] \in Deliveries
      /\ asleep \subseteq Deliveries
  BY DEF NetInv, NetTypes
<1>2. InFlight = {runq[i] : i \in 1 .. Len(runq)} \cup asleep
  BY <1>1 DEF InFlight, Range
<1>3. \A i \in 1 .. Len(runq) : runq[i] \in InFlight
  BY <1>2, Zenon
<1>4. \A d \in InFlight : d \in Deliveries /\ (d \in asleep \/ \E i \in 1 .. Len(runq) : d = runq[i])
  BY <1>1, <1>2, Zenon
<1>5. \A d \in Deliveries : d.pkt \in Nat
  BY DEF Deliveries
<1>6. QED
  BY <1>1, <1>3, <1>4, <1>5

LEMMA BufFacts ==
  ASSUME NetInv, NEW s \in Sockets
  PROVE  /\ buf[s] \in Seq(Messages) /\ Len(buf[s]) \in Nat /\ DOMAIN buf[s] = 1 .. Len(buf[s])
         /\ Len(buf[s]) <= Capacity
         /\ \A i \in 1 .. Len(buf[s]) : buf[s][i] \in Messages /\ buf[s][i].pkt \in Nat
<1>1. buf[s] \in Seq(Messages) /\ Len(buf[s]) <= Capacity
  BY DEF NetInv, NetTypes
<1>2. \A m \in Messages : m.pkt \in Nat
  BY DEF Messages
<1>3. QED
  BY <1>1, <1>2

\* Both sets can be counted.
LEMMA CopiesFinite ==
  ASSUME NetInv, NEW p
  PROVE  /\ IsFiniteSet(Flying(p)) /\ Cardinality(Flying(p)) \in Nat
         /\ IsFiniteSet(Slots(p)) /\ Cardinality(Slots(p)) \in Nat
<1>1. IsFiniteSet(Range(runq))
  <2>1. /\ runq \in [1 .. Len(runq) -> Range(runq)]
        /\ \A r \in Range(runq) : \E i \in 1 .. Len(runq) : runq[i] = r
    BY RunqFacts DEF Range
  <2>2. runq \in Surjection(1 .. Len(runq), Range(runq))
    BY <2>1 DEF Surjection
  <2>3. IsFiniteSet(1 .. Len(runq))
    BY RunqFacts, FS_Interval
  <2>4. QED
    BY <2>2, <2>3, FS_Surjection
<1>2. IsFiniteSet(InFlight)
  BY <1>1, FS_Union DEF InFlight, NetInv, NetTypes
<1>3. IsFiniteSet(Flying(p))
  <2>1. Flying(p) \in SUBSET InFlight
    BY DEF Flying
  <2>2. QED
    BY <1>2, <2>1, FS_Subset
<1>4. IsFiniteSet(Sockets) /\ IsFiniteSet(1 .. Capacity)
  <2>1. 1 \in Int /\ MaxSockets \in Int /\ Capacity \in Int
    BY NetAssumption
  <2>2. QED
    BY <2>1, FS_Interval DEF Sockets
<1>5. IsFiniteSet(Slots(p))
  <2>1. IsFiniteSet(Sockets \X (1 .. Capacity))
    BY <1>4, FS_Product
  <2>2. Slots(p) \in SUBSET (Sockets \X (1 .. Capacity))
    BY DEF Slots
  <2>3. QED
    BY <2>1, <2>2, FS_Subset
<1>6. QED
  BY <1>3, <1>5, FS_CardinalityType

LEMMA AtMostOnceIs ==
  AtMostOnce <=> \A p \in 1 .. sent : Cardinality(Flying(p)) + Cardinality(Slots(p)) <= due[p]
BY DEF AtMostOnce, Flying, Slots

\* A step that makes no new copy preserves the bound.
LEMMA FewerCopies ==
  ASSUME CountInv, NetInv', InFlight' \subseteq InFlight, UNCHANGED <<sent, due>>,
         \A s \in Sockets : buf'[s] = buf[s] \/ buf'[s] = <<>>
  PROVE  CopiesKnown' /\ Unsent' /\ AtMostOnce'
<1>1. CopiesKnown' /\ Unsent'
  BY DEF CountInv, CopiesKnown, Unsent
<1>2. ASSUME NEW p \in 1 .. sent
      PROVE  (Cardinality(Flying(p)) + Cardinality(Slots(p)) <= due[p])'
  <2>1. Flying(p)' \in SUBSET Flying(p)
    BY DEF Flying
  <2>2. Slots(p)' \in SUBSET Slots(p)
    BY DEF Slots
  <2>3. /\ Cardinality(Flying(p)') <= Cardinality(Flying(p))
        /\ Cardinality(Slots(p)') <= Cardinality(Slots(p))
        /\ Cardinality(Flying(p)) \in Nat /\ Cardinality(Slots(p)) \in Nat
    BY <2>1, <2>2, FS_Subset, CopiesFinite DEF CountInv
  <2>4. Cardinality(Flying(p)') \in Nat /\ Cardinality(Slots(p)') \in Nat
    <3>1. IsFiniteSet(Flying(p)') /\ IsFiniteSet(Slots(p)')
      BY <2>1, <2>2, FS_Subset, CopiesFinite DEF CountInv
    <3>2. QED
      BY <3>1, FS_CardinalityType
  <2>5. Cardinality(Flying(p)) + Cardinality(Slots(p)) <= due[p] /\ due[p] \in Int
    <3>1. p \in Packets
      BY NetAssumption DEF CountInv, NetInv, NetTypes, Packets
    <3>2. QED
      BY <3>1, AtMostOnceIs DEF CountInv, Unsent
  <2>6. QED
    BY <2>3, <2>4, <2>5
<1>3. AtMostOnce'
  BY <1>2 DEF AtMostOnce, Flying, Slots
<1>4. QED
  BY <1>1, <1>3

\* Sockets come and go, and inboxes are emptied, with the deliveries or without them.
LEMMA SocketCopies ==
  ASSUME CountInv, NetInv', UNCHANGED <<sent, due>>,
         \A s \in Sockets : buf'[s] = buf[s] \/ buf'[s] = <<>>,
         UNCHANGED <<runq, asleep>> \/ (runq' = <<>> /\ asleep' = {})
  PROVE  CountInv'
<1>1. InFlight' \subseteq InFlight /\ Distinct'
  <2>1. CASE UNCHANGED <<runq, asleep>>
    BY <2>1 DEF InFlight, CountInv, Distinct
  <2>2. CASE runq' = <<>> /\ asleep' = {}
    BY <2>2 DEF InFlight, Range, Distinct
  <2>3. QED
    BY <2>1, <2>2
<1>2. QED
  BY <1>1, FewerCopies DEF CountInv

\* A receive future takes the oldest message: every other slot of the inbox was the
\* slot before the next one.
LEMMA TakeCopies ==
  ASSUME CountInv, NetInv', NEW s \in Sockets, Take(s), UNCHANGED <<sent, runq, asleep>>
  PROVE  CountInv'
<1> DEFINE m == Head(buf[s])
<1>1. /\ buf[s] \in Seq(Messages) /\ Len(buf[s]) \in Nat /\ DOMAIN buf[s] = 1 .. Len(buf[s])
      /\ Len(buf[s]) <= Capacity /\ buf[s] # <<>> /\ Len(buf[s]) > 0
      /\ m = buf[s][1] /\ m.pkt \in Nat
      /\ Len(Tail(buf[s])) = Len(buf[s]) - 1
      /\ \A i \in 1 .. Len(buf[s]) - 1 : Tail(buf[s])[i] = buf[s][i + 1]
  <2>1. buf[s] # <<>> /\ buf[s] \in Seq(Messages)
    BY BufFacts DEF Take, CountInv
  <2>2. Len(buf[s]) > 0 /\ m = buf[s][1] /\ Len(Tail(buf[s])) = Len(buf[s]) - 1
        /\ \A i \in 1 .. Len(buf[s]) - 1 : Tail(buf[s])[i] = buf[s][i + 1]
    BY <2>1, HeadTailProperties
  <2>3. QED
    BY <2>1, <2>2, BufFacts DEF CountInv
<1>2. /\ m.pkt <= sent /\ sent \in Nat /\ sent <= MaxPackets
  BY <1>1, NetAssumption DEF CountInv, CopiesKnown, NetInv, NetTypes
<1>3. /\ buf' = [buf EXCEPT ![s] = IF s \in open THEN Tail(@) ELSE <<>>]
      /\ due' = [due EXCEPT ![m.pkt] = @ - 1]
      /\ buf \in [Sockets -> Seq(Messages)]
  BY DEF Take, CountInv, NetInv, NetTypes
<1> HIDE DEF m
<1>4. /\ \A r \in Sockets : r # s => buf'[r] = buf[r]
      /\ buf'[s] = Tail(buf[s]) \/ buf'[s] = <<>>
  BY <1>3
<1>5. /\ DOMAIN buf'[s] \subseteq 1 .. Len(buf[s]) - 1
      /\ \A i \in DOMAIN buf'[s] : buf'[s][i] = buf[s][i + 1]
  <2>1. buf'[s] \in Seq(Messages) /\ DOMAIN buf'[s] = 1 .. Len(buf'[s]) /\ Len(buf'[s]) \in Nat
    BY DEF NetInv, NetTypes
  <2>3. CASE buf'[s] = Tail(buf[s])
    BY <1>1, <2>1, <2>3
  <2>4. CASE buf'[s] = <<>>
    BY <2>4
  <2>5. QED
    BY <1>4, <2>3, <2>4
<1>6. CopiesKnown'
  <2> SUFFICES ASSUME NEW r \in Sockets, NEW i \in DOMAIN buf'[r]
               PROVE  buf'[r][i].pkt <= sent
    BY DEF CountInv, CopiesKnown, InFlight
  <2>1. CASE r = s
    <3>1. i + 1 \in DOMAIN buf[s] /\ buf'[s][i] = buf[s][i + 1]
      BY <1>1, <1>5, <2>1
    <3>2. QED
      BY <2>1, <3>1 DEF CountInv, CopiesKnown
  <2>2. CASE r # s
    BY <1>4, <2>2 DEF CountInv, CopiesKnown
  <2>3. QED
    BY <2>1, <2>2
<1>7. Distinct'
  BY DEF CountInv, Distinct
<1>8. /\ due \in [Packets -> Int] /\ due' \in [Packets -> Int]
      /\ \A p \in Packets : p > sent => due'[p] = 0
      /\ \A p \in Packets : due'[p] = IF p = m.pkt THEN due[p] - 1 ELSE due[p]
  <2>1. due \in [Packets -> Int] /\ \A p \in Packets : p > sent => due[p] = 0
    BY DEF CountInv, Unsent
  <2>2. \A p \in Packets : p > sent => p # m.pkt
    BY <1>1, <1>2 DEF Packets
  <2>3. DOMAIN due' = Packets /\ \A p \in Packets : due'[p] = IF p = m.pkt THEN due[p] - 1 ELSE due[p]
    BY <1>3, <2>1
  <2>4. due' = [p \in Packets |-> due'[p]]
    BY <1>3, <2>1
  <2>5. \A p \in Packets : due'[p] \in Int
    BY <2>1, <2>3
  <2>6. QED
    BY <2>1, <2>2, <2>3, <2>4, <2>5
<1>9. ASSUME NEW p \in 1 .. sent
      PROVE  (Cardinality(Flying(p)) + Cardinality(Slots(p)) <= due[p])'
  <2> DEFINE f == [x \in Slots(p)' |-> IF x[1] = s THEN <<s, x[2] + 1>> ELSE x]
             T == Slots(p) \ {<<s, 1>>}
  <2>1. ASSUME NEW x \in Slots(p)'
        PROVE  f[x] \in T
    <3>1. /\ x \in Sockets \X (1 .. Capacity) /\ x[1] \in Sockets /\ x = <<x[1], x[2]>>
          /\ x[2] \in DOMAIN buf'[x[1]] /\ buf'[x[1]][x[2]].pkt = p
      BY DEF Slots
    <3>2. CASE x[1] = s
      <4>1. /\ x[2] \in 1 .. Len(buf[s]) - 1 /\ x[2] + 1 \in 1 .. Capacity
            /\ x[2] + 1 \in DOMAIN buf[s] /\ buf[s][x[2] + 1].pkt = p /\ x[2] + 1 # 1
        <5>1. x[2] \in DOMAIN buf'[s] /\ buf'[s][x[2]].pkt = p
          BY <3>1, <3>2
        <5>2. x[2] \in 1 .. Len(buf[s]) - 1 /\ buf'[s][x[2]] = buf[s][x[2] + 1]
          BY <1>5, <5>1
        <5>3. x[2] \in Nat /\ x[2] >= 1 /\ x[2] <= Len(buf[s]) - 1
          BY <1>1, <5>2
        <5>4. Len(buf[s]) \in Nat /\ Len(buf[s]) <= Capacity /\ DOMAIN buf[s] = 1 .. Len(buf[s])
          BY <1>1
        <5>5. PICK k \in Nat : k = x[2]
          BY <5>3
        <5>6. k + 1 \in 1 .. Len(buf[s]) /\ k + 1 # 1 /\ k + 1 \in 1 .. Capacity
          <6>1. k >= 1 /\ k <= Len(buf[s]) - 1
            BY <5>3, <5>5
          <6>2. k + 1 >= 1 /\ k + 1 <= Len(buf[s]) /\ k + 1 # 1
            BY <5>4, <6>1
          <6>3. Capacity \in Nat /\ k + 1 <= Capacity
            BY <5>4, <6>2, NetAssumption
          <6>4. QED
            BY <5>4, <6>2, <6>3
        <5>7. buf[s][k + 1].pkt = p
          BY <5>1, <5>2, <5>5
        <5>8. QED
          BY <5>2, <5>4, <5>5, <5>6, <5>7
      <4>2. <<s, x[2] + 1>> \in Slots(p)
        BY <4>1 DEF Slots
      <4>3. QED
        BY <3>2, <4>1, <4>2
    <3>3. CASE x[1] # s
      <4>1. x \in Slots(p)
        BY <1>4, <3>1, <3>3 DEF Slots
      <4>2. QED
        BY <3>1, <3>3, <4>1
    <3>4. QED
      BY <3>2, <3>3
  <2>2. ASSUME NEW x \in Slots(p)', NEW y \in Slots(p)', f[x] = f[y]
        PROVE  x = y
    <3>1. /\ x = <<x[1], x[2]>> /\ y = <<y[1], y[2]>> /\ x[2] \in Nat /\ y[2] \in Nat
      BY DEF Slots
    <3>2. f[x] = (IF x[1] = s THEN <<s, x[2] + 1>> ELSE x) /\ f[y] = (IF y[1] = s THEN <<s, y[2] + 1>> ELSE y)
      OBVIOUS
    <3> HIDE DEF f
    <3>3. f[x][1] = x[1] /\ f[y][1] = y[1]
      BY <3>1, <3>2
    <3>4. x[1] = y[1]
      BY <2>2, <3>3
    <3>5. x[2] = y[2]
      <4>1. CASE x[1] = s
        <5>1. f[x][2] = x[2] + 1 /\ f[y][2] = y[2] + 1
          BY <3>2, <3>4, <4>1
        <5>2. QED
          BY <2>2, <3>1, <5>1
      <4>2. CASE x[1] # s
        BY <2>2, <3>2, <3>4, <4>2
      <4>3. QED
        BY <4>1, <4>2
    <3>6. QED
      BY <3>1, <3>4, <3>5
  <2>3. f \in Injection(Slots(p)', T)
    <3>1. f \in [Slots(p)' -> T]
      BY <2>1
    <3>2. IsInjective(f)
      BY <2>2 DEF IsInjective
    <3>3. QED
      BY <3>1, <3>2 DEF Injection
  <2>4. /\ IsFiniteSet(T)
        /\ Cardinality(T) = IF <<s, 1>> \in Slots(p) THEN Cardinality(Slots(p)) - 1 ELSE Cardinality(Slots(p))
    BY CopiesFinite, FS_RemoveElement DEF CountInv
  <2> HIDE DEF f, T
  <2>5. Cardinality(Slots(p)') <= Cardinality(T)
    BY <2>3, <2>4, FS_Injection
  <2>6. <<s, 1>> \in Slots(p) <=> p = m.pkt
    <3>1. <<s, 1>> \in Sockets \X (1 .. Capacity) /\ 1 \in DOMAIN buf[s]
      BY <1>1, NetAssumption
    <3>2. QED
      BY <1>1, <3>1 DEF Slots
  <2>7. Cardinality(Flying(p)') = Cardinality(Flying(p))
    BY DEF Flying, InFlight
  <2>8. Cardinality(Flying(p)) \in Nat /\ Cardinality(Slots(p)) \in Nat /\ Cardinality(Slots(p)') \in Nat
    <3>1. IsFiniteSet(Slots(p)')
      BY <2>3, <2>4, FS_Injection
    <3>2. QED
      BY <3>1, CopiesFinite, FS_CardinalityType DEF CountInv
  <2>9. p \in Packets /\ Cardinality(Flying(p)) + Cardinality(Slots(p)) <= due[p]
    <3>1. p \in Packets
      BY <1>2, NetAssumption DEF Packets
    <3>2. QED
      BY <3>1, AtMostOnceIs DEF CountInv
  <2>10. due[p] \in Int /\ due'[p] = IF p = m.pkt THEN due[p] - 1 ELSE due[p]
    BY <1>8, <2>9
  <2>11. QED
    BY <2>4, <2>5, <2>6, <2>7, <2>8, <2>9, <2>10
<1>10. AtMostOnce'
  BY <1>9 DEF AtMostOnce, Flying, Slots
<1>11. QED
  BY <1>6, <1>7, <1>8, <1>10 DEF CountInv, Unsent

\* The next delivery falls asleep, or it leaves and its message takes a slot more.
LEMMA RunDeliveryCopies ==
  ASSUME CountInv, NetInv', RunDelivery
  PROVE  CountInv'
<1> DEFINE d == Head(runq)
<1>1. /\ d \in Deliveries /\ d.pkt \in Nat /\ runq[1] = d /\ Len(runq) > 0 /\ d \in InFlight
      /\ runq \in Seq(Deliveries) /\ runq' \in Seq(Deliveries) /\ Len(runq') = Len(runq) - 1
      /\ DOMAIN runq' = 1 .. Len(runq') /\ DOMAIN runq = 1 .. Len(runq) /\ Len(runq) \in Nat
      /\ \A i \in 1 .. Len(runq') : runq'[i] = runq[i + 1]
  <2>1. runq \in Seq(Deliveries) /\ runq # <<>> /\ runq' = Tail(runq)
    BY RunqFacts DEF RunDelivery, CountInv
  <2>2. /\ d = runq[1] /\ Len(runq) > 0 /\ runq' \in Seq(Deliveries) /\ Len(runq') = Len(runq) - 1
        /\ \A i \in 1 .. Len(runq') : runq'[i] = runq[i + 1]
    BY <2>1, HeadTailProperties
  <2>3. 1 \in 1 .. Len(runq)
    BY <2>1, <2>2
  <2>4. QED
    BY <2>1, <2>2, <2>3, RunqFacts DEF CountInv
<1>2. UNCHANGED <<sent, due, open>> /\ IF now >= d.at THEN Deliver(d) /\ UNCHANGED asleep
                                       ELSE asleep' = asleep \cup {d} /\ UNCHANGED buf
  BY DEF RunDelivery
<1> HIDE DEF d
<1>3. \A i \in 1 .. Len(runq') : runq'[i] \in InFlight /\ runq'[i] # d
  <2> SUFFICES ASSUME NEW i \in 1 .. Len(runq')
               PROVE  runq'[i] \in InFlight /\ runq'[i] # d
    OBVIOUS
  <2>1. i + 1 \in 1 .. Len(runq) /\ i + 1 # 1 /\ runq'[i] = runq[i + 1] /\ 1 \in 1 .. Len(runq)
    BY <1>1
  <2>2. runq[i + 1] \in InFlight
    BY <2>1, RunqFacts DEF CountInv
  <2>3. QED
    BY <1>1, <2>1, <2>2 DEF CountInv, Distinct
<1>4. Range(runq') = {runq'[i] : i \in 1 .. Len(runq')}
  BY <1>1 DEF Range
<1>5. asleep' = asleep \/ asleep' = asleep \cup {d}
  BY <1>2
<1>6. InFlight' \subseteq InFlight
  <2>1. InFlight' = {runq'[i] : i \in 1 .. Len(runq')} \cup asleep'
    BY <1>4 DEF InFlight
  <2>2. asleep \subseteq InFlight
    BY DEF InFlight
  <2>3. QED
    BY <1>1, <1>3, <1>5, <2>1, <2>2
<1>7. Distinct'
  <2>1. ASSUME NEW i \in 1 .. Len(runq'), NEW j \in 1 .. Len(runq'), i # j
        PROVE  runq'[i] # runq'[j]
    <3>1. i + 1 \in 1 .. Len(runq) /\ j + 1 \in 1 .. Len(runq) /\ i + 1 # j + 1
      BY <1>1, <2>1
    <3>2. QED
      BY <1>1, <2>1, <3>1 DEF CountInv, Distinct
  <2>2. ASSUME NEW i \in 1 .. Len(runq')
        PROVE  runq'[i] \notin asleep'
    <3>1. i + 1 \in 1 .. Len(runq) /\ runq'[i] = runq[i + 1]
      BY <1>1
    <3>2. runq'[i] \notin asleep
      BY <1>1, <3>1 DEF CountInv, Distinct
    <3>3. runq'[i] # d
      BY <1>3
    <3>4. QED
      BY <1>5, <3>2, <3>3
  <2>3. QED
    BY <1>1, <2>1, <2>2 DEF Distinct
<1>8. CASE UNCHANGED buf
  BY <1>2, <1>6, <1>7, <1>8, FewerCopies DEF CountInv
<1>9. CASE ~UNCHANGED buf
  <2> DEFINE s == inboxes[d.to]
             n == Len(buf[s]) + 1
  <2>1. /\ s # None /\ Len(buf[s]) < Capacity
        /\ buf' = [buf EXCEPT ![s] = Append(@, Message(d))] /\ asleep' = asleep
    BY <1>2, <1>9 DEF Deliver
  <2>2. s \in Sockets /\ d.to \in Addrs
    <3>1. d.to \in Addrs
      BY <1>1 DEF Deliveries
    <3>2. QED
      BY <2>1, <3>1, OwnAddress DEF CountInv
  <2> HIDE DEF s
  <2>3. /\ buf[s] \in Seq(Messages) /\ Len(buf[s]) \in Nat /\ DOMAIN buf[s] = 1 .. Len(buf[s])
        /\ buf \in [Sockets -> Seq(Messages)]
    BY <2>2, BufFacts DEF CountInv, NetInv, NetTypes
  <2>4. Message(d).pkt = d.pkt
    BY DEF Message
  <2>5. /\ \A r \in Sockets : r # s => buf'[r] = buf[r]
        /\ buf'[s] = Append(buf[s], Message(d))
    BY <2>1, <2>2, <2>3
  <2>6. /\ DOMAIN buf'[s] = 1 .. n /\ n \in Nat /\ n \in 1 .. Capacity /\ n \notin 1 .. Len(buf[s])
        /\ 1 .. n = (1 .. Len(buf[s])) \cup {n}
        /\ \A i \in 1 .. Len(buf[s]) : buf'[s][i] = buf[s][i]
        /\ buf'[s][n] = Message(d)
    <3>1. Len(buf[s]) + 1 \in 1 .. Capacity
      BY <2>1, <2>3, NetAssumption
    <3>2. QED
      BY <2>3, <2>5, <3>1
  <2> HIDE DEF n
  <2>7. CopiesKnown'
    <3>1. ASSUME NEW r \in Sockets, NEW i \in DOMAIN buf'[r]
          PROVE  buf'[r][i].pkt <= sent
      <4>1. CASE r = s /\ i = n
        BY <1>1, <2>4, <2>6, <4>1 DEF CountInv, CopiesKnown
      <4>2. CASE ~(r = s /\ i = n)
        <5>1. i \in DOMAIN buf[r] /\ buf'[r][i] = buf[r][i]
          BY <2>3, <2>5, <2>6, <4>2
        <5>2. QED
          BY <5>1 DEF CountInv, CopiesKnown
      <4>3. QED
        BY <4>1, <4>2
    <3>2. QED
      BY <1>2, <1>6, <3>1 DEF CountInv, CopiesKnown
  <2>8. ASSUME NEW p \in 1 .. sent
        PROVE  (Cardinality(Flying(p)) + Cardinality(Slots(p)) <= due[p])'
    <3>1. Slots(p)' = IF p = d.pkt THEN Slots(p) \cup {<<s, n>>} ELSE Slots(p)
      <4>1. ASSUME NEW x \in Sockets \X (1 .. Capacity), x # <<s, n>>
            PROVE  x \in Slots(p)' <=> x \in Slots(p)
        <5>1. x = <<x[1], x[2]>> /\ x[1] \in Sockets
          OBVIOUS
        <5>2. CASE x[1] = s
          <6>1. x[2] # n
            BY <4>1, <5>1, <5>2
          <6>2. /\ x[2] \in DOMAIN buf'[s] <=> x[2] \in DOMAIN buf[s]
                /\ x[2] \in DOMAIN buf[s] => buf'[s][x[2]] = buf[s][x[2]]
            BY <2>3, <2>6, <6>1
          <6>3. QED
            BY <5>2, <6>2 DEF Slots
        <5>3. CASE x[1] # s
          BY <2>5, <5>1, <5>3 DEF Slots
        <5>4. QED
          BY <5>2, <5>3
      <4>2. /\ <<s, n>> \in Sockets \X (1 .. Capacity) /\ <<s, n>>[1] = s /\ <<s, n>>[2] = n
        BY <2>2, <2>6
      <4>3. (<<s, n>> \in Slots(p)' <=> p = d.pkt) /\ <<s, n>> \notin Slots(p)
        BY <2>3, <2>4, <2>6, <4>2 DEF Slots
      <4>4. Slots(p) \subseteq Sockets \X (1 .. Capacity) /\ Slots(p)' \subseteq Sockets \X (1 .. Capacity)
        BY DEF Slots
      <4>5. QED
        BY <4>1, <4>3, <4>4
    <3>2. /\ Cardinality(Slots(p)') <= IF p = d.pkt THEN Cardinality(Slots(p)) + 1 ELSE Cardinality(Slots(p))
          /\ IsFiniteSet(Slots(p)')
      <4>1. IsFiniteSet(Slots(p)) /\ Cardinality(Slots(p)) \in Nat
        BY CopiesFinite DEF CountInv
      <4>2. /\ IsFiniteSet(Slots(p) \cup {<<s, n>>})
            /\ Cardinality(Slots(p) \cup {<<s, n>>}) <= Cardinality(Slots(p)) + 1
        <5>1. /\ IsFiniteSet(Slots(p) \cup {<<s, n>>})
              /\ Cardinality(Slots(p) \cup {<<s, n>>}) =
                   IF <<s, n>> \in Slots(p) THEN Cardinality(Slots(p)) ELSE Cardinality(Slots(p)) + 1
          BY <4>1, FS_AddElement, Zenon
        <5>2. QED
          BY <4>1, <5>1
      <4>3. CASE p = d.pkt
        BY <3>1, <4>2, <4>3
      <4>4. CASE p # d.pkt
        BY <3>1, <4>1, <4>4
      <4>5. QED
        BY <4>3, <4>4
    <3>3. Flying(p)' \in SUBSET (IF p = d.pkt THEN Flying(p) \ {d} ELSE Flying(p))
      <4>1. Flying(p)' \subseteq Flying(p)
        BY <1>6 DEF Flying
      <4>2. ASSUME p = d.pkt
            PROVE  d \notin Flying(p)'
        <5>1. d \notin asleep
          BY <1>1 DEF CountInv, Distinct
        <5>2. d \notin Range(runq')
          BY <1>3, <1>4
        <5>3. QED
          BY <2>1, <5>1, <5>2 DEF Flying, InFlight
      <4>3. QED
        BY <4>1, <4>2
    <3>4. d \in Flying(p) <=> p = d.pkt
      BY <1>1 DEF Flying
    <3>5. /\ Cardinality(Flying(p)') <= IF p = d.pkt THEN Cardinality(Flying(p)) - 1 ELSE Cardinality(Flying(p))
          /\ IsFiniteSet(Flying(p)')
      <4>1. CASE p = d.pkt
        <5>1. IsFiniteSet(Flying(p) \ {d}) /\ Cardinality(Flying(p) \ {d}) = Cardinality(Flying(p)) - 1
          BY <3>4, <4>1, FS_RemoveElement, CopiesFinite DEF CountInv
        <5>2. Flying(p)' \in SUBSET (Flying(p) \ {d})
          BY <3>3, <4>1
        <5>3. IsFiniteSet(Flying(p)') /\ Cardinality(Flying(p)') <= Cardinality(Flying(p) \ {d})
          BY <5>1, <5>2, FS_Subset
        <5>4. QED
          BY <4>1, <5>1, <5>3
      <4>2. CASE p # d.pkt
        BY <3>3, <4>2, FS_Subset, CopiesFinite DEF CountInv
      <4>3. QED
        BY <4>1, <4>2
    <3>6. /\ Cardinality(Flying(p)) \in Nat /\ Cardinality(Slots(p)) \in Nat
          /\ Cardinality(Flying(p)') \in Nat /\ Cardinality(Slots(p)') \in Nat
      BY <3>2, <3>5, CopiesFinite, FS_CardinalityType DEF CountInv
    <3>7. Cardinality(Flying(p)) + Cardinality(Slots(p)) <= due[p] /\ due[p] \in Int
      <4>1. p \in Packets /\ p \in 1 .. sent
        BY <1>2, NetAssumption DEF CountInv, NetInv, NetTypes, Packets
      <4>2. QED
        BY <4>1, AtMostOnceIs DEF CountInv, Unsent
    <3>8. QED
      BY <1>2, <3>2, <3>5, <3>6, <3>7
  <2>9. AtMostOnce'
    BY <1>2, <2>8 DEF AtMostOnce, Flying, Slots
  <2>10. QED
    BY <1>2, <1>7, <2>7, <2>9 DEF CountInv, Unsent
<1>10. QED
  BY <1>8, <1>9

\* The orders of a set name each of its elements once.
LEMMA OrdersDiffer ==
  ASSUME NEW S, IsFiniteSet(S), NEW order \in SetToSeqs(S)
  PROVE  \A i, j \in DOMAIN order : i # j => order[i] # order[j]
<1>1. Cardinality(S) \in Nat /\ order \in [1 .. Cardinality(S) -> S]
  BY FS_CardinalityType DEF SetToSeqs
<1>2. QED
  BY <1>1 DEF SetToSeqs

\* The clock moves deliveries from asleep to the ready queue.
LEMMA AdvanceCopies ==
  ASSUME CountInv, NetInv', Advance
  PROVE  CountInv'
<1>1. IsFiniteSet(asleep \ asleep')
  <2>1. IsFiniteSet(asleep) /\ (asleep \ asleep') \in SUBSET asleep
    BY DEF CountInv, NetInv, NetTypes
  <2>2. QED
    BY <2>1, FS_Subset
<1>2. runq' \in SetToSeqs(asleep \ asleep') /\ asleep' \subseteq asleep
      /\ UNCHANGED <<sent, due, buf>>
  BY DEF Advance
<1>3. /\ DOMAIN runq' = 1 .. Len(runq')
      /\ \A i \in DOMAIN runq' : runq'[i] \in asleep /\ runq'[i] \notin asleep'
      /\ \A i, j \in DOMAIN runq' : i # j => runq'[i] # runq'[j]
  BY <1>1, <1>2, OrdersOf, OrdersDiffer
<1>4. InFlight' \subseteq InFlight
  BY <1>2, <1>3 DEF InFlight, Range
<1>5. Distinct'
  BY <1>3 DEF Distinct
<1>6. QED
  BY <1>2, <1>4, <1>5, FewerCopies DEF CountInv

\* New deliveries of the packet that is sent now, one for each copy.
LEMMA EnqueueCopies ==
  ASSUME CountInv, NetInv', NEW p, NEW a \in Addrs, NEW ats \in Seq(Nat),
         Enqueue(p, a, ats), p = sent + 1, sent' = sent + 1, UNCHANGED <<buf, asleep>>
  PROVE  /\ CopiesKnown' /\ Distinct'
         /\ \A d \in InFlight' : d \in InFlight \/ \E i \in 1 .. Len(ats) : d = Delivery(p, i, a, ats[i])
<1>1. sent \in Nat /\ sent' \in Nat /\ p \in Nat
  BY NetAssumption DEF CountInv, NetInv, NetTypes
<1>2. \A s \in Sockets : \A i \in DOMAIN buf'[s] : buf'[s][i].pkt <= sent'
  <2> SUFFICES ASSUME NEW s \in Sockets, NEW i \in DOMAIN buf[s]
               PROVE  buf[s][i].pkt <= sent'
    OBVIOUS
  <2>1. buf[s][i].pkt \in Nat
    BY BufFacts DEF CountInv
  <2>2. buf[s][i].pkt <= sent
    BY DEF CountInv, CopiesKnown
  <2>3. QED
    BY <1>1, <2>1, <2>2
<1>3. \A d \in InFlight : d.pkt \in Nat /\ d.pkt <= sent /\ d.pkt <= sent'
  <2> SUFFICES ASSUME NEW d \in InFlight
               PROVE  d.pkt \in Nat /\ d.pkt <= sent /\ d.pkt <= sent'
    OBVIOUS
  <2>1. d.pkt \in Nat /\ d.pkt <= sent
    BY RunqFacts DEF CountInv, CopiesKnown
  <2>2. QED
    BY <1>1, <2>1
<1>4. CASE UNCHANGED runq
  <2>1. InFlight' = InFlight
    BY <1>4 DEF InFlight
  <2>2. Distinct'
    BY <1>4 DEF CountInv, Distinct
  <2>3. QED
    BY <1>2, <1>3, <2>1, <2>2 DEF CopiesKnown
<1>5. CASE runq' # runq
  <2> DEFINE new == [i \in DOMAIN ats |-> Delivery(p, i, a, ats[i])]
             S   == {Delivery(p, i, a, ats[i]) : i \in DOMAIN ats}
             k   == Len(runq)
             n   == Len(ats)
  <2>1. runq' = runq \o new
    BY <1>5 DEF Enqueue
  <2>2. DOMAIN ats = 1 .. n /\ n \in Nat
    OBVIOUS
  <2>3. \A i \in 1 .. n : new[i] = Delivery(p, i, a, ats[i]) /\ new[i].pkt = p /\ new[i].copy = i
    BY <2>2 DEF Delivery
  <2>4. new \in Seq(S) /\ Len(new) = n
    BY <2>2
  <2>5. runq \in Seq(Deliveries) /\ k \in Nat /\ DOMAIN runq = 1 .. k
    BY RunqFacts DEF CountInv
  <2> HIDE DEF new, S, k, n
  <2>6. \A i, j \in 1 .. n : i # j => new[i] # new[j]
    BY <2>3
  <2>7. /\ Len(runq') = k + n /\ DOMAIN runq' = 1 .. k + n
        /\ \A i \in 1 .. k : runq'[i] = runq[i]
        /\ \A i \in 1 .. n : runq'[k + i] = new[i]
    <3> DEFINE T == Deliveries \cup S
    <3>1. runq \in Seq(T) /\ new \in Seq(T) /\ Len(runq) = k
      BY <2>4, <2>5 DEF k
    <3> HIDE DEF T
    <3>2. /\ Len(runq') = k + n /\ runq' \in Seq(T)
          /\ \A i \in 1 .. k + n : runq'[i] = IF i <= k THEN runq[i] ELSE new[i - k]
      BY <2>1, <2>4, <3>1, ConcatProperties
    <3>3. ASSUME NEW i \in 1 .. n
          PROVE  runq'[k + i] = new[i]
      <4>1. k + i \in 1 .. k + n /\ ~(k + i <= k) /\ (k + i) - k = i
        BY <2>2, <2>5
      <4>2. QED
        BY <3>2, <4>1
    <3>4. QED
      BY <2>2, <2>5, <3>2, <3>3
  <2>8. \A i \in DOMAIN runq' : i \in 1 .. k \/ \E j \in 1 .. n : i = k + j
    <3> SUFFICES ASSUME NEW i \in 1 .. k + n, i \notin 1 .. k
                 PROVE  \E j \in 1 .. n : i = k + j
      BY <2>7
    <3>1. i - k \in 1 .. n /\ i = k + (i - k)
      BY <2>2, <2>5
    <3>2. QED
      BY <3>1
  <2>9. \A i \in 1 .. k : runq'[i] \in InFlight /\ runq'[i] = runq[i]
    BY <2>5, <2>7, RunqFacts DEF CountInv, k
  <2>10. \A d \in InFlight' : d \in InFlight \/ \E i \in 1 .. n : d = new[i]
    <3>1. InFlight' = {runq'[i] : i \in DOMAIN runq'} \cup asleep
      BY DEF InFlight, Range
    <3>2. asleep \subseteq InFlight
      BY DEF InFlight
    <3>3. QED
      BY <2>7, <2>8, <2>9, <3>1, <3>2
  <2>11. CopiesKnown'
    <3>1. p <= sent'
      BY <1>1
    <3>2. QED
      BY <1>2, <1>3, <2>3, <2>10, <3>1 DEF CopiesKnown
  <2>12. \A d \in InFlight : d.pkt # p
    BY <1>1, <1>3
  <2>13. ASSUME NEW i \in DOMAIN runq', NEW j \in DOMAIN runq', i # j
         PROVE  runq'[i] # runq'[j]
    <3>1. CASE i \in 1 .. k /\ j \in 1 .. k
      BY <2>5, <2>9, <2>13, <3>1 DEF CountInv, Distinct
    <3> DEFINE Old(x) == x \in 1 .. k
    <3>2. CASE Old(i) # Old(j)
      <4>1. \A x \in DOMAIN runq' : ~Old(x) => runq'[x].pkt = p
        BY <2>3, <2>7, <2>8
      <4>2. \A x \in DOMAIN runq' : Old(x) => runq'[x].pkt # p
        BY <2>9, <2>12
      <4>3. QED
        BY <3>2, <4>1, <4>2
    <3>3. CASE i \notin 1 .. k /\ j \notin 1 .. k
      <4>1. PICK x \in 1 .. n, y \in 1 .. n : i = k + x /\ j = k + y
        BY <2>8, <3>3
      <4>2. QED
        BY <2>6, <2>7, <2>13, <4>1
    <3>4. QED
      BY <3>1, <3>2, <3>3
  <2>14. ASSUME NEW i \in DOMAIN runq'
         PROVE  runq'[i] \notin asleep'
    <3>1. CASE i \in 1 .. k
      BY <2>5, <2>9, <3>1 DEF CountInv, Distinct
    <3>2. CASE i \notin 1 .. k
      BY <2>3, <2>7, <2>8, <2>12, <3>2 DEF InFlight
    <3>3. QED
      BY <3>1, <3>2
  <2>15. \A d \in InFlight' : d \in InFlight \/ \E i \in 1 .. Len(ats) : d = Delivery(p, i, a, ats[i])
    BY <2>3, <2>10 DEF n
  <2>16. QED
    BY <2>11, <2>13, <2>14, <2>15 DEF Distinct
<1>6. QED
  BY <1>4, <1>5

\* The packets that were sent before a new one.
LEMMA OlderCopies ==
  ASSUME CountInv, NetInv', \A d \in InFlight' : d \in InFlight \/ d.pkt = sent + 1,
         UNCHANGED buf, NEW q \in 1 .. sent, due'[q] = due[q]
  PROVE  (Cardinality(Flying(q)) + Cardinality(Slots(q)) <= due[q])'
<1>1. sent \in Nat /\ q # sent + 1 /\ q \in Packets
  BY NetAssumption DEF CountInv, NetInv, NetTypes, Packets
<1>2. Flying(q)' \in SUBSET Flying(q)
  BY <1>1 DEF Flying
<1>3. Slots(q)' = Slots(q)
  BY DEF Slots
<1>4. /\ Cardinality(Flying(q)) + Cardinality(Slots(q)) <= due[q] /\ due[q] \in Int
      /\ Cardinality(Flying(q)) \in Nat /\ Cardinality(Slots(q)) \in Nat
  BY <1>1, AtMostOnceIs, CopiesFinite DEF CountInv, Unsent
<1>5. Cardinality(Flying(q)') <= Cardinality(Flying(q)) /\ Cardinality(Flying(q)') \in Nat
  BY <1>2, FS_Subset, CopiesFinite, FS_CardinalityType DEF CountInv
<1>6. QED
  BY <1>3, <1>4, <1>5

\* No copy of a packet that is sent later is in an inbox.
LEMMA NewCopies ==
  ASSUME CountInv, UNCHANGED buf, NEW q, q = sent + 1
  PROVE  Slots(q)' = {} /\ Flying(q) = {} /\ q \in Nat
<1>1. sent \in Nat
  BY NetAssumption DEF CountInv, NetInv, NetTypes
<1>2. Flying(q) = {}
  BY <1>1 DEF CountInv, CopiesKnown, Flying
<1>3. Slots(q)' = {}
  <2>1. \A s \in Sockets : \A i \in DOMAIN buf[s] : buf[s][i].pkt # q
    BY <1>1 DEF CountInv, CopiesKnown
  <2>2. QED
    BY <2>1 DEF Slots
<1>4. QED
  BY <1>1, <1>2, <1>3

LEMMA SendCopies ==
  ASSUME CountInv, NetInv', NEW a \in Addrs, Send(a)
  PROVE  CountInv'
<1>1. PICK ats \in SendFunction : Enqueue(sent', a, ats) /\ due' = [due EXCEPT ![sent'] = Len(ats)]
  BY DEF Send
<1>2. /\ sent \in Nat /\ sent' = sent + 1 /\ sent + 1 \in Packets /\ UNCHANGED <<buf, asleep>>
  BY NetAssumption DEF Send, CountInv, NetInv, NetTypes, Packets
<1>3. ats \in Seq(Nat) /\ Len(ats) \in Nat
  BY SendFunctionSeqs DEF CountInv
<1> PICK p : p = sent + 1
  OBVIOUS
<1>4. Enqueue(p, a, ats) /\ p \in Packets /\ p = sent'
  BY <1>1, <1>2
<1>5. /\ CopiesKnown' /\ Distinct'
      /\ \A d \in InFlight' : d \in InFlight \/ \E i \in 1 .. Len(ats) : d = Delivery(p, i, a, ats[i])
  BY <1>2, <1>3, <1>4, EnqueueCopies
<1>6. due \in [Packets -> Int] /\ due' = [due EXCEPT ![p] = Len(ats)]
  BY <1>1, <1>4 DEF CountInv, Unsent
<1>7. /\ due' \in [Packets -> Int] /\ due'[p] = Len(ats)
      /\ \A q \in Packets : q # p => due'[q] = due[q]
  BY <1>3, <1>4, <1>6
<1>8. Unsent'
  BY <1>2, <1>4, <1>7 DEF CountInv, Unsent, Packets
<1>9. ASSUME NEW q \in 1 .. sent
      PROVE  (Cardinality(Flying(q)) + Cardinality(Slots(q)) <= due[q])'
  <2>1. due'[q] = due[q]
    BY <1>2, <1>4, <1>7, NetAssumption DEF Packets
  <2>2. QED
    <3>1. buf' = buf /\ \A d \in InFlight' : d \in InFlight \/ d.pkt = sent + 1
      BY <1>2, <1>5 DEF Delivery
    <3>2. QED
      BY <2>1, <3>1, OlderCopies
<1>10. (Cardinality(Flying(p)) + Cardinality(Slots(p)) <= due[p])'
  <2>1. Slots(p)' = {} /\ Flying(p) = {}
    BY <1>2, NewCopies
  <2> DEFINE T == {Delivery(p, i, a, ats[i]) : i \in 1 .. Len(ats)}
             f == [i \in 1 .. Len(ats) |-> Delivery(p, i, a, ats[i])]
  <2>2. f \in Surjection(1 .. Len(ats), T)
    BY DEF Surjection
  <2>3. IsFiniteSet(1 .. Len(ats)) /\ Cardinality(1 .. Len(ats)) = Len(ats)
    <3>1. 1 \in Int /\ Len(ats) \in Int
      BY <1>3
    <3>2. /\ IsFiniteSet(1 .. Len(ats))
          /\ Cardinality(1 .. Len(ats)) = IF 1 > Len(ats) THEN 0 ELSE Len(ats) - 1 + 1
      BY <3>1, FS_Interval
    <3>3. QED
      BY <1>3, <3>2
  <2>4. IsFiniteSet(T) /\ Cardinality(T) <= Len(ats)
    BY <2>2, <2>3, FS_Surjection
  <2>5. Flying(p)' \in SUBSET T
    BY <1>5, <2>1 DEF Flying
  <2> HIDE DEF T
  <2>6. Cardinality(Flying(p)') <= Cardinality(T) /\ Cardinality(Flying(p)') \in Nat /\ Cardinality(T) \in Nat
    BY <2>4, <2>5, FS_Subset, FS_CardinalityType
  <2>7. Cardinality(Slots(p)') = 0
    BY <2>1, FS_EmptySet
  <2>8. QED
    BY <1>3, <1>7, <2>4, <2>6, <2>7
<1>11. AtMostOnce'
  <2>1. \A q \in 1 .. sent' : q \in 1 .. sent \/ q = p
    BY <1>2
  <2>2. QED
    BY <1>9, <1>10, <2>1 DEF AtMostOnce, Flying, Slots
<1>12. QED
  BY <1>5, <1>8, <1>11 DEF CountInv

\* No packet is received more often than it was enqueued.
THEOREM AtMostOnceCorrect == Spec => []AtMostOnce
<1>1. Init => CountInv
  <2> SUFFICES ASSUME Init
               PROVE  CountInv
    OBVIOUS
  <2>1. CopiesKnown /\ Distinct
    BY DEF Init, CopiesKnown, Distinct, InFlight, Range
  <2>2. Unsent /\ AtMostOnce
    BY DEF Init, Unsent, AtMostOnce
  <2>3. QED
    BY <2>1, <2>2, NetInvInit DEF CountInv
<1>2. CountInv /\ NetInv' /\ [Next]_netVars => CountInv'
  <2> SUFFICES ASSUME CountInv, NetInv', [Next]_netVars
               PROVE  CountInv'
    OBVIOUS
  <2>1. ASSUME NEW a \in Addrs, Open(a)
        PROVE  CountInv'
    BY <2>1, SocketCopies DEF Open
  <2>2. ASSUME NEW a \in Addrs, Send(a)
        PROVE  CountInv'
    BY <2>2, SendCopies
  <2>3. ASSUME NEW s \in Sockets, Close(s) \/ CancelReceive(s)
        PROVE  CountInv'
    <3>1. \A r \in Sockets : buf'[r] = buf[r] \/ buf'[r] = <<>>
      BY <2>3 DEF Close, CancelReceive, Kept
    <3>2. QED
      BY <2>3, <3>1, SocketCopies DEF Close, CancelReceive
  <2>4. ASSUME NEW s \in Sockets, Receive(s)
        PROVE  CountInv'
    <3>1. CASE Take(s)
      BY <2>4, <3>1, TakeCopies DEF Receive
    <3>2. CASE ~Take(s)
      BY <2>4, <3>2, SocketCopies DEF Receive
    <3>3. QED
      BY <3>1, <3>2
  <2>5. ASSUME NEW s \in Sockets, SendForeign(s)
        PROVE  CountInv'
    BY <2>5, SocketCopies DEF SendForeign
  <2>6. ASSUME NEW n \in Nodes, StopNode(n)
        PROVE  CountInv'
    <3>1. \A r \in Sockets : buf'[r] = buf[r] \/ buf'[r] = <<>>
      BY <2>6 DEF StopNode, Kept
    <3>2. UNCHANGED <<sent, due>> /\ (UNCHANGED <<runq, asleep>> \/ (runq' = <<>> /\ asleep' = {}))
      BY <2>6 DEF StopNode
    <3>3. QED
      BY <3>1, <3>2, SocketCopies
  <2>7. ASSUME NEW n \in Nodes, StartNode(n)
        PROVE  CountInv'
    <3>1. \A r \in Sockets : buf'[r] = buf[r] \/ buf'[r] = <<>>
      BY <2>7 DEF StartNode, Drained
    <3>2. QED
      BY <2>7, <3>1, SocketCopies DEF StartNode
  <2>8. CASE RunDelivery \/ Advance
    BY <2>8, RunDeliveryCopies, AdvanceCopies
  <2>9. CASE UNCHANGED netVars
    BY <2>9, SocketCopies DEF netVars
  <2>10. QED
    BY <2>1, <2>2, <2>3, <2>4, <2>5, <2>6, <2>7, <2>8, <2>9 DEF Next, Quiet
<1>3. CountInv => AtMostOnce
  BY DEF CountInv
<1>4. QED
  BY <1>1, <1>2, <1>3, NetInvariant, PTL DEF Spec
=============================================================================
