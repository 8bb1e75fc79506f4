-------------------------------- MODULE Net --------------------------------
(***************************************************************************)
(* The simulated packet network (src/src/net.rs): sockets, their bounded   *)
(* inboxes, and one delivery task on node INIT for every packet in flight. *)
(*                                                                         *)
(* The executor and the clock appear as Runtime guarantees them: tasks run *)
(* in the order in which they were queued, time advances to the next       *)
(* deadline only when no task is ready, and the order in which sleeps with *)
(* the same deadline are woken is arbitrary.  A port stands for a port and *)
(* a packet type, the key of the inbox map.                                *)
(***************************************************************************)
EXTENDS Naturals, Sequences, FiniteSets, SequencesExt

CONSTANTS Nodes,        \* bound: the nodes, INIT among them
          Ports,        \* bound: (port, packet type) pairs in use
          MaxPackets,   \* bound: packets sent
          MaxInFlight,  \* bound: deliveries that a SendFunction brings in flight at a time
          Instants,     \* bound: the instants for which it enqueues copies
          MaxSockets,   \* bound: sockets opened
          MaxStarts,    \* bound: starts of a node
          Capacity,     \* slots of an inbox, 8 in the code
          Latency,      \* of perfect_connectivity
          Perfect       \* is the SendFunction perfect_connectivity, or any other?

INIT == 0                         \* NodeId::INIT

ASSUME NetAssumption ==
  /\ INIT \in Nodes
  /\ {MaxPackets, MaxInFlight, MaxSockets, MaxStarts, Capacity, Latency} \subseteq Nat
  /\ Instants \subseteq Nat
  /\ Capacity > 0 /\ MaxStarts > 0
  /\ Perfect \in BOOLEAN

Addrs   == Nodes \X Ports
Packets == 1 .. MaxPackets
Sockets == 1 .. MaxSockets
None    == 0

VARIABLES
  up,        \* the nodes that are running
  starts,    \* history: how often a node was started
  now,
  sent,      \* the number of packets sent
  inboxes,   \* Net.inboxes: the socket whose inbox is registered for an address, or None
  addr,      \* Socket.local_addr of the sockets opened so far
  open,      \* the sockets that exist
  buf,       \* the inbox of a socket; it exists while the socket or a receive future does
  recv,      \* the sockets with a receive future that waits
  runq,      \* delivery tasks in the ready queue
  asleep,    \* delivery tasks that wait in sleep_until
  due,       \* history: copies of a packet that were enqueued and not received
  panic      \* a send failed an assertion

netVars == <<up, starts, now, sent, inboxes, addr, open, buf, recv, runq, asleep,
             due, panic>>

\* A delivery task; the copies of a packet differ by their number, and an instant that
\* has passed is as good as now.  What it puts into an inbox: the packet, whether it
\* came when it was due and in which life of the node it did.
Delivery(p, i, a, at) == [pkt |-> p, copy |-> i, to |-> a, at |-> IF at < now THEN now ELSE at]
Message(d)            == [pkt |-> d.pkt, onTime |-> now = d.at, life |-> starts[d.to[1]]]

Init ==
  /\ up = {INIT}
  /\ starts = [n \in Nodes |-> IF n = INIT THEN 1 ELSE 0]
  /\ now = 0 /\ sent = 0
  /\ inboxes = [a \in Addrs |-> None]
  /\ addr = <<>>
  /\ open = {} /\ recv = {}
  /\ buf = [s \in Sockets |-> <<>>]
  /\ runq = <<>> /\ asleep = {}
  /\ due = [p \in Packets |-> 0]
  /\ panic = FALSE

-----------------------------------------------------------------------------
(* Sockets.                                                                *)

\* Mutant: the inbox of a socket that exists is replaced.
Open_Replaces(a) ==
  /\ ~panic
  /\ Len(addr) < MaxSockets
  /\ addr' = Append(addr, a)
  /\ open' = open \cup {Len(addr')}
  /\ inboxes' = [inboxes EXCEPT ![a] = Len(addr')]
  /\ UNCHANGED <<up, starts, now, sent, buf, recv, runq, asleep, due, panic>>

\* Socket::open; if the address is in use it returns an error.
Open(a) ==
  /\ ~panic
  /\ Len(addr) < MaxSockets
  /\ inboxes[a] = None
  /\ addr' = Append(addr, a)
  /\ open' = open \cup {Len(addr')}
  /\ inboxes' = [inboxes EXCEPT ![a] = Len(addr')]
  /\ UNCHANGED <<up, starts, now, sent, buf, recv, runq, asleep, due, panic>>

\* The inboxes that are left when these sockets and receive futures exist.
Kept(socks, futs) == [s \in Sockets |-> IF s \in socks \cup futs THEN buf[s] ELSE <<>>]

\* Socket's destructor unregisters the address.
Close(s) ==
  /\ ~panic
  /\ s \in open
  /\ open' = open \ {s}
  /\ inboxes' = [inboxes EXCEPT ![addr[s]] = None]
  /\ buf' = Kept(open', recv)
  /\ UNCHANGED <<up, starts, now, sent, addr, recv, runq, asleep, due, panic>>

\* The future returned by Socket::receive takes the oldest message.
Take(s) ==
  /\ buf[s] # <<>>
  /\ buf' = [buf EXCEPT ![s] = IF s \in open THEN Tail(@) ELSE <<>>]
  /\ due' = [due EXCEPT ![Head(buf[s]).pkt] = @ - 1]

\* It is polled for the first time, or again after it was woken.
Receive(s) ==
  /\ ~panic
  /\ s \in open \cup recv
  /\ \/ Take(s) /\ recv' = recv \ {s}
     \/ /\ buf[s] = <<>> /\ s \notin recv
        /\ recv' = recv \cup {s}
        /\ UNCHANGED <<buf, due>>
  /\ UNCHANGED <<up, starts, now, sent, inboxes, addr, open, runq, asleep, panic>>

\* The receive future is dropped before it is ready.
CancelReceive(s) ==
  /\ ~panic
  /\ s \in recv
  /\ recv' = recv \ {s}
  /\ buf' = Kept(open, recv')
  /\ UNCHANGED <<up, starts, now, sent, inboxes, addr, open, runq, asleep, due, panic>>

-----------------------------------------------------------------------------
(* Sending and delivering.                                                 *)

InFlight == Range(runq) \cup asleep

\* The instants for which a SendFunction enqueues the copies of a packet: none, or
\* several in any order, the same one twice or one that has passed.  In the place of
\* a copy it may enqueue an error, which travels and is received in the same way.
SendFunction ==
  IF Perfect THEN {<<now + Latency>>}
             ELSE UNION {[1 .. k -> Instants] : k \in 0 .. MaxInFlight - Cardinality(InFlight)}

\* Inboxes::enqueue_packet or enqueue_error, once for every instant: a task is
\* spawned on INIT.
Enqueue(p, a, ats) ==
  IF INIT \in up \/ ats = <<>>
  THEN /\ runq' = runq \o [i \in DOMAIN ats |-> Delivery(p, i, a, ats[i])]
       /\ UNCHANGED panic
  ELSE panic' = TRUE /\ UNCHANGED runq

\* Net::send and Socket::send on the node of the socket; whether the SendFunction
\* returns an error to the sender does not matter here.  A use of Net::inboxes counts
\* as a send of its own.
Send(a) ==
  /\ ~panic
  /\ sent < MaxPackets
  /\ sent' = sent + 1
  /\ \E ats \in SendFunction :
       /\ Enqueue(sent', a, ats)
       /\ due' = [due EXCEPT ![sent'] = Len(ats)]
  /\ UNCHANGED <<up, starts, now, inboxes, addr, open, buf, recv, asleep>>

\* Socket::send on a node that is not the socket's.
SendForeign(s) ==
  /\ ~panic
  /\ sent < MaxPackets
  /\ s \in open
  /\ up \ {addr[s][1]} # {}
  /\ panic' = TRUE
  /\ UNCHANGED <<up, starts, now, sent, inboxes, addr, open, buf, recv, runq, asleep, due>>

\* Mutant: an inbox takes one message more than its capacity.
Deliver_OffByOne(d) ==
  LET s == inboxes[d.to]
  IN  buf' = IF s # None /\ Len(buf[s]) <= Capacity
             THEN [buf EXCEPT ![s] = Append(@, Message(d))] ELSE buf

\* The end of a delivery task: try_send into the inbox, if there is one.
Deliver(d) ==
  LET s == inboxes[d.to]
  IN  buf' = IF s # None /\ Len(buf[s]) < Capacity
             THEN [buf EXCEPT ![s] = Append(@, Message(d))] ELSE buf

\* Mutant: a delivery does not wait for its instant.
RunDelivery_AtOnce ==
  /\ ~panic
  /\ runq # <<>>
  /\ Deliver(Head(runq))
  /\ runq' = Tail(runq)
  /\ UNCHANGED <<up, starts, now, sent, inboxes, addr, open, recv, asleep, due, panic>>

\* Mutant: a delivery that has to wait delivers, too.
RunDelivery_Twice ==
  /\ ~panic
  /\ runq # <<>>
  /\ LET d == Head(runq)
     IN  Deliver(d) /\ asleep' = IF now >= d.at THEN asleep ELSE asleep \cup {d}
  /\ runq' = Tail(runq)
  /\ UNCHANGED <<up, starts, now, sent, inboxes, addr, open, recv, due, panic>>

\* The executor polls the next delivery task.
RunDelivery ==
  /\ ~panic
  /\ runq # <<>>
  /\ LET d == Head(runq)
     IN  IF now >= d.at THEN Deliver(d) /\ UNCHANGED asleep
                        ELSE asleep' = asleep \cup {d} /\ UNCHANGED buf
  /\ runq' = Tail(runq)
  /\ UNCHANGED <<up, starts, now, sent, inboxes, addr, open, recv, due, panic>>

\* Mutant: the clock moves, but the delivery with the earliest deadline stays asleep.
Advance_NoWake ==
  /\ ~panic
  /\ runq = <<>> /\ asleep # {}
  /\ \A s \in recv : buf[s] = <<>>
  /\ now' = (CHOOSE d \in asleep : \A e \in asleep : d.at <= e.at).at
  /\ UNCHANGED <<up, starts, sent, inboxes, addr, open, buf, recv, runq, asleep,
                 due, panic>>

\* Mutant: the clock moves past the deadlines that are not the latest.
Advance_Late ==
  /\ ~panic
  /\ runq = <<>> /\ asleep # {}
  /\ \A s \in recv : buf[s] = <<>>
  /\ now' = (CHOOSE d \in asleep : \A e \in asleep : d.at >= e.at).at
  /\ asleep' = {}
  /\ \E order \in SetToSeqs(asleep) : runq' = order
  /\ UNCHANGED <<up, starts, sent, inboxes, addr, open, buf, recv, due, panic>>

\* Nothing is ready: the clock moves to the next deadline and wakes what is due.
Advance ==
  /\ ~panic
  /\ runq = <<>> /\ asleep # {}
  /\ \A s \in recv : buf[s] = <<>>
  /\ now' = (CHOOSE d \in asleep : \A e \in asleep : d.at <= e.at).at
  /\ asleep' = {d \in asleep : d.at > now'}
  /\ \E order \in SetToSeqs(asleep \ asleep') : runq' = order
  /\ UNCHANGED <<up, starts, sent, inboxes, addr, open, buf, recv, due, panic>>

-----------------------------------------------------------------------------
(* Nodes.                                                                  *)

\* Mutant: every node takes the deliveries in flight with it.
StopNode_DropsDeliveries(n) ==
  /\ ~panic
  /\ n \in up
  /\ up' = up \ {n}
  /\ open' = open \ {s \in open : addr[s][1] = n}
  /\ inboxes' = [a \in Addrs |-> IF a[1] = n THEN None ELSE inboxes[a]]
  /\ recv' = recv \ {s \in recv : addr[s][1] = n}
  /\ buf' = Kept(open', recv')
  /\ runq' = <<>> /\ asleep' = {}
  /\ UNCHANGED <<starts, now, sent, addr, due, panic>>

\* A node stops: its tasks are dropped, with the sockets (gone) and the receive
\* futures that they own; what is owned elsewhere stays.  The delivery tasks are
\* tasks of INIT.
StopNode(n) ==
  /\ ~panic
  /\ n \in up
  /\ up' = up \ {n}
  /\ \E gone \in SUBSET {s \in open : addr[s][1] = n} :
       /\ open' = open \ gone
       /\ inboxes' = [a \in Addrs |-> IF inboxes[a] \in gone THEN None ELSE inboxes[a]]
  /\ \E lost \in SUBSET {s \in recv : addr[s][1] = n} : recv' = recv \ lost
  /\ buf' = Kept(open', recv')
  /\ IF n = INIT THEN runq' = <<>> /\ asleep' = {} ELSE UNCHANGED <<runq, asleep>>
  /\ UNCHANGED <<starts, now, sent, addr, due, panic>>

\* Mutant: the inboxes keep what arrived before the restart.
Drained_Not(n) == buf

\* Net's start_node and create_node: the registered inboxes of the node are drained.
Drained(n) ==
  [s \in Sockets |-> IF \E a \in Addrs : a[1] = n /\ inboxes[a] = s THEN <<>> ELSE buf[s]]

StartNode(n) ==
  /\ ~panic
  /\ n \notin up
  /\ starts[n] < MaxStarts
  /\ up' = up \cup {n}
  /\ starts' = [starts EXCEPT ![n] = @ + 1]
  /\ buf' = Drained(n)
  /\ UNCHANGED <<now, sent, inboxes, addr, open, recv, runq, asleep, due, panic>>

\* The simulation has panicked, or everything that is bounded has happened.
Quiet == (panic \/ (sent = MaxPackets /\ up = {})) /\ UNCHANGED netVars

Next ==
  \/ \E a \in Addrs : Open(a) \/ Send(a)
  \/ \E s \in Sockets : Close(s) \/ Receive(s) \/ CancelReceive(s) \/ SendForeign(s)
  \/ \E n \in Nodes : StopNode(n) \/ StartNode(n)
  \/ RunDelivery \/ Advance \/ Quiet

Spec == Init /\ [][Next]_netVars

-----------------------------------------------------------------------------
(* Properties.                                                             *)

\* Every variable has its type.
TypeOK ==
  /\ up \subseteq Nodes
  /\ starts \in [Nodes -> 0 .. MaxStarts]
  /\ now \in Nat
  /\ sent \in 0 .. MaxPackets
  /\ inboxes \in [Addrs -> Sockets \cup {None}]
  /\ addr \in Seq(Addrs)
  /\ open \subseteq 1 .. Len(addr) /\ recv \subseteq 1 .. Len(addr)
  /\ \A s \in Sockets : Len(buf[s]) <= Capacity

\* The debug_assert of Socket's destructor (net.rs:362): the inbox registered for
\* the address of a socket that exists is its own, through every order of opening,
\* closing, stopping and restarting; and nothing else is registered.
SocketsOwnInboxes ==
  /\ \A s \in open : inboxes[addr[s]] = s
  /\ \A a \in Addrs : inboxes[a] # None => inboxes[a] \in open

\* A socket that outlives the stop of its node does not carry messages over into
\* the next life of the node.  (The inbox of a closed socket that a receive future
\* keeps is not registered any more and is not drained; it may.)
NoMessageOverRestart ==
  \A s \in open : addr[s][1] \in up =>
    \A i \in DOMAIN buf[s] : buf[s][i].life = starts[addr[s][1]]

\* A message arrives at the instant the SendFunction asked for, or at once if that
\* has passed: neither early nor late, whatever other deliveries with the same, an
\* earlier or a later deadline there are; and none that is due is left behind.
OnTime ==
  /\ \A s \in Sockets : \A i \in DOMAIN buf[s] : buf[s][i].onTime
  /\ \A d \in asleep : now < d.at

\* A packet is received at most as often as the SendFunction enqueued it, and so
\* perfect_connectivity "delivers packets exactly once" (net.rs:141) as far as the
\* receiver can tell: the copies that are in flight or in an inbox never exceed
\* those that were enqueued and not received.
AtMostOnce ==
  \A p \in 1 .. sent :
    Cardinality({d \in InFlight : d.pkt = p})
      + Cardinality({x \in Sockets \X (1 .. Capacity) :
                       x[2] \in DOMAIN buf[x[1]] /\ buf[x[1]][x[2]].pkt = p}) <= due[p]

\* A copy in flight arrives at the end of the inbox that is registered for its
\* destination.  It is lost only if INIT stops, no socket is open there, or the inbox is
\* full: no stop of another node, late close or restart loses it, and no message is
\* dropped while there is room.
CopiesKept ==
  [][ \A d \in InFlight \ InFlight' :
        \/ INIT \notin up'
        \/ inboxes[d.to] = None
        \/ Len(buf[inboxes[d.to]]) = Capacity
        \/ buf'[inboxes[d.to]] = Append(buf[inboxes[d.to]], Message(d)) ]_netVars

\* The executor keeps running: it takes some step while there is one.
FairSpec == Spec /\ WF_netVars(RunDelivery \/ Advance \/ \E s \in recv : Receive(s))

\* No delivery waits for ever for its instant or for the executor.  Sends are bounded,
\* so that in the end nothing is in flight; by CopiesKept every copy arrives then.
DeliveryHappens == InFlight # {} ~> InFlight = {} \/ panic

-----------------------------------------------------------------------------
(* What the documentation says and the code does not do.                   *)

\* net.rs:65 says of packets with the same ordering key that a packet "must not be
\* reordered with respect to other packets with the same key".  perfect_connectivity
\* uses the same latency for all packets, but of three packets to an address the
\* second may arrive last: its delivery task sleeps until the same instant as the
\* others, and the order in which these are woken is not the order of sending.
OrderKept ==
  \A p, q, r \in 1 .. sent :
    p < q /\ q < r =>
      ~ \E d \in InFlight, s \in open :
          /\ d.pkt = q /\ d.to = addr[s]
          /\ {p, r} \subseteq {buf[s][i].pkt : i \in DOMAIN buf[s]}

=============================================================================
