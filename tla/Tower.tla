------------------------------- MODULE Tower -------------------------------
(***************************************************************************)
(* Remote calls over the simulated network (src/src/tower.rs): one Client  *)
(* with its send task and its receive task, and a server that is run again *)
(* after it failed or its node was stopped.                                *)
(*                                                                         *)
(* The network appears as Net's properties allow: a packet is delivered at *)
(* most once, in any order, and is lost if there is no socket or its inbox *)
(* is full.  Faults selects what else the SendFunction does: "drop" loses  *)
(* packets, "refuse" returns an error, whether or not it has put the       *)
(* packet in flight, "pending" returns a future that is not ready, "error" *)
(* makes a receiver see an error.                                          *)
(***************************************************************************)
EXTENDS Naturals, Sequences, FiniteSets, SequencesExt

CONSTANTS MaxCalls,    \* bound: calls made
          MaxFails,    \* bound: exits, stops and injected errors together
          Capacity,    \* slots of an inbox, 8 in the code
          Faults

ASSUME TowerAssumption ==
  /\ {MaxCalls, MaxFails, Capacity} \subseteq Nat
  /\ Faults \subseteq {"drop", "refuse", "pending", "error"}

Calls == 1 .. MaxCalls
Ids   == 1 .. MaxCalls     \* request ids, one for every request that is sent
None  == 0
Error == 0                 \* in place of an id: an error put into an inbox

NoSend == [call |-> None, ok |-> TRUE]

VARIABLES
  call,        \* what the caller's future has come to
  got,         \* the request whose result the caller received
  chan,        \* the mpsc channel from the calls to the send task
  sending,     \* the send whose future is pending: its call and what it will return
  lastId,
  responders,  \* responders[i]: the call that the map holds for request i, or None
  client,      \* "up"; "stopped": its tasks were aborted; "gone": the Client was dropped
  inbox,       \* of the client's socket
  net,         \* packets in flight
  server,      \* is run_server executing?
  requests,    \* the inbox of the server's socket
  serving,     \* requests that run_server received and that are not answered
  unready,     \* the one of them for which the service is not ready yet, or None
  served,      \* history: how often a request was executed
  lost,        \* history: requests whose request or response packet was lost
  cleared,     \* history: requests whose responder an error took, out of the inbox or of their send
  fails,
  panic

clientVars == <<call, got, chan, sending, lastId, responders, client, inbox>>
serverVars == <<server, requests, serving, unready, served>>
towerVars  == <<clientVars, serverVars, net, lost, cleared, fails, panic>>

\* Packets hold the id and the call that the request, or the result, is about.
Packet(kind, i, c) == [kind |-> kind, id |-> i, body |-> c]

Init ==
  /\ call = [c \in Calls |-> "idle"]
  /\ got = [c \in Calls |-> None]
  /\ chan = <<>> /\ sending = NoSend /\ lastId = 0
  /\ responders = [i \in Ids |-> None]
  /\ client = "up" /\ inbox = <<>>
  /\ net = {}
  /\ server = TRUE /\ requests = <<>> /\ serving = {} /\ unready = None
  /\ served = [i \in Ids |-> 0]
  /\ lost = {} /\ cleared = {} /\ fails = 0
  /\ panic = "none"

Waiting == {c \in Calls : call[c] = "waiting"}

\* A oneshot sender is used or dropped: the caller sees it if it still waits.
Answer(cs, outcome) == [c \in Calls |-> IF c \in cs /\ call[c] = "waiting" THEN outcome ELSE call[c]]

-----------------------------------------------------------------------------
(* Callers.                                                                *)

\* Service::poll_ready unwraps the error of a channel whose receiver is gone.
PollReady ==
  /\ panic = "none"
  /\ client = "stopped"
  /\ panic' = "poll_ready"
  /\ UNCHANGED <<clientVars, serverVars, net, lost, fails, cleared>>

\* Service::call makes a future.
Call(c) ==
  /\ panic = "none"
  /\ call[c] = "idle" /\ client # "gone"
  /\ \A b \in Calls : b < c => call[b] # "idle"
  /\ call' = [call EXCEPT ![c] = "made"]
  /\ UNCHANGED <<got, chan, sending, lastId, responders, client, inbox, serverVars, net,
                 lost, fails, cleared, panic>>

\* Its first poll; every clone of the Sender has a slot of its own.
Start(c) ==
  /\ panic = "none"
  /\ call[c] = "made"
  /\ IF client = "up"
     THEN call' = [call EXCEPT ![c] = "waiting"] /\ chan' = Append(chan, c)
     ELSE call' = [call EXCEPT ![c] = "reset"] /\ UNCHANGED chan
  /\ UNCHANGED <<got, sending, lastId, responders, client, inbox, serverVars, net,
                 lost, fails, cleared, panic>>

\* The caller drops the future.
Cancel(c) ==
  /\ panic = "none"
  /\ call[c] \in {"made", "waiting"}
  /\ call' = [call EXCEPT ![c] = "dropped"]
  /\ UNCHANGED <<got, chan, sending, lastId, responders, client, inbox, serverVars, net,
                 lost, fails, cleared, panic>>

-----------------------------------------------------------------------------
(* The client's tasks.                                                     *)

\* Net::send: the packet is in flight, or lost.
Transmit(p) ==
  \/ net' = net \cup {p} /\ UNCHANGED lost
  \/ "drop" \in Faults /\ lost' = lost \cup {p.id} /\ UNCHANGED net

\* Net::send returns an error; the packet may be in flight all the same.
Refuse(p) ==
  /\ "refuse" \in Faults
  /\ net' \in {net, net \cup {p}}
  /\ UNCHANGED lost

\* Mutant: no responder is kept for a call that was given up meanwhile.
SendTask_SkipCanceled ==
  /\ panic = "none"
  /\ client = "up" /\ sending = NoSend /\ chan # <<>>
  /\ chan' = Tail(chan)
  /\ lastId' = lastId + 1
  /\ Transmit(Packet("request", lastId', Head(chan)))
  /\ responders' = [responders EXCEPT ![lastId'] = IF Head(chan) \in Waiting THEN Head(chan) ELSE None]
  /\ UNCHANGED <<call, got, sending, client, inbox, serverVars, fails, cleared, panic>>

\* Mutant: the responder of a request that was refused goes into the map as well.
SendTask_KeepRefused ==
  /\ panic = "none"
  /\ client = "up" /\ sending = NoSend /\ chan # <<>>
  /\ chan' = Tail(chan)
  /\ lastId' = lastId + 1
  /\ \/ Transmit(Packet("request", lastId', Head(chan)))
     \/ "refuse" \in Faults /\ UNCHANGED <<net, lost>>
  /\ responders' = [responders EXCEPT ![lastId'] = Head(chan)]
  /\ UNCHANGED <<call, got, sending, client, inbox, serverVars, fails, cleared, panic>>

\* The send task takes a request and sends it.
SendTask ==
  /\ panic = "none"
  /\ client = "up" /\ sending = NoSend /\ chan # <<>>
  /\ chan' = Tail(chan)
  /\ lastId' = lastId + 1
  /\ LET c == Head(chan)
         p == Packet("request", lastId', c)
     IN  \/ /\ Transmit(p)
            /\ responders' = [responders EXCEPT ![lastId'] = c]
            /\ UNCHANGED <<call, sending, cleared>>
         \/ /\ Refuse(p)
            /\ call' = Answer({c}, "failed")
            /\ cleared' = cleared \cup {lastId'}
            /\ UNCHANGED <<sending, responders>>
         \/ /\ "pending" \in Faults
            /\ \/ Transmit(p) /\ sending' = [call |-> c, ok |-> TRUE]
               \/ Refuse(p) /\ sending' = [call |-> c, ok |-> FALSE]
            /\ UNCHANGED <<call, responders, cleared>>
  /\ UNCHANGED <<got, client, inbox, serverVars, fails, panic>>

\* A pending send completes.
SendDone ==
  /\ panic = "none"
  /\ sending # NoSend
  /\ sending' = NoSend
  /\ \/ /\ sending.ok
        /\ responders' = [responders EXCEPT ![lastId] = sending.call]
        /\ UNCHANGED <<call, cleared>>
     \/ /\ ~sending.ok
        /\ call' = Answer({sending.call}, "failed")
        /\ cleared' = cleared \cup {lastId}
        /\ UNCHANGED responders
  /\ UNCHANGED <<got, chan, lastId, client, inbox, serverVars, net, lost, fails, panic>>

\* The unwrap of tower.rs:111 fails; why, is history.
MissingResponder(i) ==
  IF i \in cleared THEN "cleared" ELSE IF sending # NoSend /\ i = lastId THEN "early" ELSE "missing"

\* Mutant: responses are taken to arrive in the order of the requests.
Respond_InOrder(m) ==
  LET oldest == CHOOSE i \in Ids : /\ responders[i] # None
                                   /\ \A j \in Ids : responders[j] # None => i <= j
      c == responders[oldest]
  IN  /\ \E i \in Ids : responders[i] # None
      /\ responders' = [responders EXCEPT ![oldest] = None]
      /\ call' = Answer({c}, "ok")
      /\ got' = [got EXCEPT ![c] = IF c \in Waiting THEN m.body ELSE @]
      /\ UNCHANGED panic

\* A response goes to the responder of its id, which has to be there.
Respond(m) ==
  LET c == responders[m.id]
  IN  IF c = None
      THEN panic' = MissingResponder(m.id) /\ UNCHANGED <<call, got, responders>>
      ELSE /\ responders' = [responders EXCEPT ![m.id] = None]
           /\ call' = Answer({c}, "ok")
           /\ got' = [got EXCEPT ![c] = IF c \in Waiting THEN m.body ELSE @]
           /\ UNCHANGED panic

\* An error fails every call that was sent.
FailAll ==
  /\ call' = Answer({responders[i] : i \in Ids}, "failed")
  /\ cleared' = cleared \cup {i \in Ids : responders[i] # None}
  /\ responders' = [i \in Ids |-> None]
  /\ UNCHANGED <<got, panic>>

RecvTask ==
  /\ panic = "none"
  /\ client = "up" /\ inbox # <<>>
  /\ inbox' = Tail(inbox)
  /\ IF Head(inbox).id = Error THEN FailAll ELSE Respond(Head(inbox)) /\ UNCHANGED cleared
  /\ UNCHANGED <<chan, sending, lastId, client, serverVars, net, lost, fails>>

\* The node is stopped, or the Client is dropped with its AbortGuards: both tasks
\* are aborted, and with them go the channel, the socket and the map.
EndClient(how) ==
  /\ panic = "none"
  /\ client = "up" \/ (client = "stopped" /\ how = "gone")
  /\ fails < MaxFails /\ fails' = fails + 1
  /\ client' = how
  /\ call' = Answer(Calls, "reset")
  /\ chan' = <<>> /\ inbox' = <<>> /\ sending' = NoSend
  /\ responders' = [i \in Ids |-> None]
  /\ UNCHANGED <<got, lastId, serverVars, net, lost, cleared, panic>>

-----------------------------------------------------------------------------
(* The network and the server.                                             *)

\* Mutant: the inbox has no limit.
Deliver_NoLimit(p) ==
  /\ panic = "none"
  /\ p \in net
  /\ net' = net \ {p}
  /\ IF p.kind = "request" THEN server /\ requests' = Append(requests, p) /\ UNCHANGED inbox
     ELSE client = "up" /\ inbox' = Append(inbox, p) /\ UNCHANGED requests
  /\ UNCHANGED <<call, got, chan, sending, lastId, responders, client, server, serving,
                 unready, served, lost, fails, cleared, panic>>

\* A packet reaches the inbox of its destination.
Deliver(p) ==
  /\ panic = "none"
  /\ p \in net
  /\ net' = net \ {p}
  /\ \/ /\ p.kind = "request" /\ server /\ Len(requests) < Capacity
        /\ requests' = Append(requests, p)
        /\ UNCHANGED <<inbox, lost>>
     \/ /\ p.kind = "response" /\ client = "up" /\ Len(inbox) < Capacity
        /\ inbox' = Append(inbox, p)
        /\ UNCHANGED <<requests, lost>>
     \/ /\ IF p.kind = "request" THEN ~server \/ Len(requests) = Capacity
                                 ELSE client # "up" \/ Len(inbox) = Capacity
        /\ lost' = lost \cup {p.id}
        /\ UNCHANGED <<inbox, requests>>
  /\ UNCHANGED <<call, got, chan, sending, lastId, responders, client, server, serving,
                 unready, served, fails, cleared, panic>>

\* Inboxes::enqueue_error for the client or the server.
InjectError ==
  /\ panic = "none"
  /\ "error" \in Faults
  /\ fails < MaxFails /\ fails' = fails + 1
  /\ \/ /\ client = "up" /\ Len(inbox) < Capacity
        /\ inbox' = Append(inbox, Packet("response", Error, None))
        /\ UNCHANGED requests
     \/ /\ server /\ Len(requests) < Capacity
        /\ requests' = Append(requests, Packet("request", Error, None))
        /\ UNCHANGED inbox
  /\ UNCHANGED <<call, got, chan, sending, lastId, responders, client, server, serving,
                 unready, served, net, lost, cleared, panic>>

\* run_server returns: its socket is closed with all that is in it, and the request
\* whose call was not made yet is dropped.
ServerExit ==
  /\ server' = FALSE
  /\ requests' = <<>> /\ unready' = None
  /\ serving' = {p \in serving : p.id # unready}
  /\ lost' = lost \cup ({p.id : p \in Range(requests) \cup (serving \ serving')} \ {Error})

\* run_server receives a request, or ends on an error of the network.
ServerReceive ==
  /\ panic = "none"
  /\ server /\ unready = None /\ requests # <<>>
  /\ LET p == Head(requests)
     IN  \/ /\ p.id # Error
            /\ requests' = Tail(requests)
            /\ serving' = serving \cup {p} /\ unready' = p.id
            /\ UNCHANGED <<server, lost>>
         \/ p.id = Error /\ ServerExit
  /\ UNCHANGED <<clientVars, served, net, fails, cleared, panic>>

\* The service is ready: run_server spawns a task for the call; or poll_ready
\* returns an error and run_server ends.
ServerReady ==
  /\ panic = "none"
  /\ unready # None
  /\ \/ /\ unready' = None
        /\ served' = [served EXCEPT ![unready] = @ + 1]
        /\ UNCHANGED <<server, requests, serving, lost, fails>>
     \/ /\ fails < MaxFails /\ fails' = fails + 1
        /\ ServerExit
        /\ UNCHANGED served
  /\ UNCHANGED <<clientVars, net, cleared, panic>>

\* Mutant: the future that sends the result is never awaited.
Reply_NotAwaited(p) ==
  /\ panic = "none"
  /\ p \in serving /\ p.id # unready
  /\ serving' = serving \ {p}
  /\ UNCHANGED <<clientVars, server, requests, unready, served, net, lost, fails, cleared, panic>>

\* The task of a call has its result and sends it; an error of the send is ignored,
\* and if the packet was not put in flight it is lost.
Reply(p) ==
  /\ panic = "none"
  /\ p \in serving /\ p.id # unready
  /\ serving' = serving \ {p}
  /\ \/ Transmit(Packet("response", p.id, p.body))
     \/ "refuse" \in Faults /\ lost' = lost \cup {p.id} /\ UNCHANGED net
  /\ UNCHANGED <<clientVars, server, requests, unready, served, fails, cleared, panic>>

\* The server's node is stopped.
ServerStop ==
  /\ panic = "none"
  /\ server \/ serving # {}
  /\ fails < MaxFails /\ fails' = fails + 1
  /\ server' = FALSE
  /\ requests' = <<>> /\ serving' = {} /\ unready' = None
  /\ lost' = lost \cup ({p.id : p \in Range(requests) \cup serving} \ {Error})
  /\ UNCHANGED <<clientVars, served, net, cleared, panic>>

\* run_server is called again.
ServerStart ==
  /\ panic = "none"
  /\ ~server
  /\ server' = TRUE
  /\ UNCHANGED <<clientVars, requests, serving, unready, served, net, lost, fails, cleared, panic>>

\* Nothing is left to do, or the simulation has panicked.
Ended ==
  /\ \/ panic # "none"
     \/ client = "gone"
     \/ \A c \in Calls : call[c] \notin {"idle", "made", "waiting"}
  /\ UNCHANGED towerVars

System ==
  \/ SendTask \/ SendDone \/ RecvTask \/ ServerReceive \/ ServerReady
  \/ \E p \in net : Deliver(p)
  \/ \E p \in serving : Reply(p)
  \/ \E c \in Calls : Start(c)

Next ==
  \/ \E c \in Calls : Call(c) \/ Cancel(c)
  \/ System
  \/ PollReady \/ InjectError \/ ServerStop \/ ServerStart \/ Ended
  \/ \E how \in {"stopped", "gone"} : EndClient(how)

Spec == Init /\ [][Next]_towerVars

-----------------------------------------------------------------------------
(* Properties.                                                             *)

\* Every variable has its type.
TypeOK ==
  /\ call \in [Calls -> {"idle", "made", "waiting", "ok", "failed", "reset", "dropped"}]
  /\ got \in [Calls -> Calls \cup {None}]
  /\ responders \in [Ids -> Calls \cup {None}]
  /\ sending \in [call : Calls \cup {None}, ok : BOOLEAN]
  /\ lastId \in Ids \cup {0} /\ unready \in Ids \cup {None}
  /\ Len(inbox) <= Capacity /\ Len(requests) <= Capacity

\* A caller that receives a result receives that of its own request, executed once,
\* although responses arrive in any order and the server may have been restarted.
RightAnswer ==
  /\ \A c \in Calls : call[c] = "ok" <=> got[c] = c
  /\ \A c \in Calls : got[c] \in {None, c}
  /\ \A i \in Ids : served[i] <= 1

\* No call hangs for another reason than a lost packet: as long as the caller
\* waits, its Sender is held by exactly one of the channel, the send task and the
\* map, and if it is the map, the request or the response is somewhere on its way.
OnWay(i) ==
  \E p \in net \cup Range(requests) \cup serving \cup Range(inbox) : p.id = i

WaitsForSomething ==
  \A c \in Waiting :
    /\ client = "up"
    /\ Cardinality({k \in DOMAIN chan : chan[k] = c})
         + Cardinality({i \in Ids : responders[i] = c})
         + (IF sending.call = c THEN 1 ELSE 0) = 1
    /\ panic = "none" =>
         \A i \in Ids : responders[i] = c => OnWay(i) \/ i \in lost

\* The unwrap of tower.rs:111 can fail only if a network error has taken the
\* responder away, if the send of the request returned an error although it put the
\* packet in flight, or if the response is back before the send is complete: never
\* because of lost packets, calls that were given up, or restarts.
ResponderKept == panic # "missing"

\* Tasks that can run do run, packets are delivered (Executor, Net), and the service
\* gets ready and answers.
FairSpec ==
  /\ Spec
  /\ WF_towerVars(SendTask) /\ WF_towerVars(SendDone)
  /\ WF_towerVars(RecvTask)
  /\ WF_towerVars(ServerReceive) /\ WF_towerVars(ServerReady)
  /\ \A c \in Calls : WF_towerVars(Start(c))
  /\ \A i \in Ids :
       /\ WF_towerVars(\E p \in net : p.id = i /\ Deliver(p))
       /\ WF_towerVars(\E p \in serving : p.id = i /\ Reply(p))

\* Every call is answered, failed or given up, unless the network lost its request
\* or its response, for which the client has no timeout, or the simulation fails.
CallEnds ==
  \A c \in Calls :
    call[c] = "waiting" ~>
      \/ call[c] # "waiting"
      \/ \E i \in lost : responders[i] = c
      \/ panic # "none"

-----------------------------------------------------------------------------
(* What the documentation says and the code does not do.                   *)

\* net.rs:128 says that a SendFunction may "deliver errors instead to simulate
\* various network behaviours": every response finds its responder, then, too.
ResponderExists == panic \notin {"cleared", "early", "missing"}

=============================================================================
