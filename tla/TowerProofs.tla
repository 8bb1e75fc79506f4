---------------------------- MODULE TowerProofs ----------------------------
(***************************************************************************)
(* Proofs about Tower, for every number of calls and failures, every       *)
(* capacity of an inbox and every choice of faults.                        *)
(***************************************************************************)
EXTENDS Tower, SequenceTheorems, FiniteSetTheorems, TLAPS

-----------------------------------------------------------------------------
(* The inductive invariant.                                                *)

Statuses  == {"idle", "made", "waiting", "ok", "failed", "reset", "dropped"}
Requests  == [kind : {"request"}, id : Ids, body : Calls]
Responses == [kind : {"response"}, id : Ids, body : Calls]
Errors    == [kind : {"request", "response"}, id : {Error}, body : {None}]

TowerTypes ==
  /\ call \in [Calls -> Statuses]
  /\ got \in [Calls -> Calls \cup {None}]
  /\ chan \in Seq(Calls)
  /\ sending \in [call : Calls \cup {None}, ok : BOOLEAN]
  /\ lastId \in Nat
  /\ responders \in [Ids -> Calls \cup {None}]
  /\ client \in {"up", "stopped", "gone"}
  /\ inbox \in Seq(Responses \cup Errors) /\ Len(inbox) <= Capacity
  /\ net \subseteq Requests \cup Responses
  /\ server \in BOOLEAN
  /\ requests \in Seq(Requests \cup Errors) /\ Len(requests) <= Capacity
  /\ serving \subseteq Requests /\ unready \in Ids \cup {None}
  /\ served \in [Ids -> Nat]
  /\ lost \subseteq Ids /\ cleared \subseteq Ids

\* The calls that have not been given an id yet; each of them may take one.
Unsent == {c \in Calls : call[c] \in {"idle", "made"} \/ c \in Range(chan)}

Budget == lastId + Cardinality(Unsent) <= MaxCalls

\* The packets that exist, wherever they are.
AllPackets == net \cup serving \cup Range(requests) \cup Range(inbox)
Alive(i)   == \E p \in AllPackets : p.id = i

\* No two packets of one request exist at the same time.
Single(S)   == \A p, q \in S : p.id = q.id => p = q
NoRepeat(s) == \A j, k \in DOMAIN s : s[j].id = s[k].id => j = k \/ s[j].id = Error
Apart(S, T) == \A p \in S, q \in T : p.id = q.id => p.id = Error

Once ==
  /\ Single(net) /\ Single(serving) /\ NoRepeat(requests) /\ NoRepeat(inbox)
  /\ Apart(net, serving) /\ Apart(net, Range(requests)) /\ Apart(net, Range(inbox))
  /\ Apart(serving, Range(requests)) /\ Apart(serving, Range(inbox))
  /\ Apart(Range(requests), Range(inbox))

\* Ids are used in their order, and a request is executed once the server has
\* received its packet and the service is ready.
Numbered ==
  /\ \A p \in AllPackets : p.id <= lastId
  /\ \A i \in Ids : i > lastId => responders[i] = None /\ served[i] = 0
  /\ \A i \in Ids : served[i] <= 1
  /\ \A p \in net \cup Range(requests) : p.kind = "request" /\ p.id # Error => served[p.id] = 0
  /\ unready # None => /\ unready <= lastId /\ served[unready] = 0
                       /\ \E p \in serving : p.id = unready

\* A send that is pending is that of the last id.
Pending ==
  sending # NoSend => sending.call \in Calls /\ lastId \in Ids /\ responders[lastId] = None

\* A packet is about the call that waits under its id.
Bodies ==
  \A p \in AllPackets : p.id # Error =>
    /\ responders[p.id] \in {None, p.body}
    /\ sending # NoSend /\ p.id = lastId => p.body = sending.call

\* A call is held at most once, and only after it was started.
Held ==
  /\ \A j, k \in DOMAIN chan : chan[j] = chan[k] => j = k
  /\ \A i, j \in Ids : responders[i] = responders[j] => i = j \/ responders[i] = None
  /\ \A c \in Range(chan) : c # sending.call /\ \A i \in Ids : responders[i] # c
  /\ \A i \in Ids : responders[i] = sending.call => responders[i] = None
  /\ \A c \in Calls : call[c] \in {"idle", "made"} =>
       /\ sending.call # c /\ c \notin Range(chan)
       /\ \A i \in Ids : responders[i] # c

\* A call that waits is held by something.
SomeHolder ==
  \A c \in Waiting :
    sending.call = c \/ c \in Range(chan) \/ \E i \in Ids : responders[i] = c

\* A client that is not up holds nothing.
ClientEnded ==
  client # "up" =>
    /\ chan = <<>> /\ inbox = <<>> /\ sending = NoSend
    /\ \A i \in Ids : responders[i] = None

\* What waits for a response has its packet or lost it, and a packet has a responder.
Expected ==
  panic = "none" =>
    /\ \A i \in Ids : responders[i] # None => Alive(i) \/ i \in lost
    /\ sending # NoSend /\ sending.ok => Alive(lastId) \/ lastId \in lost
    /\ client = "up" => \A p \in AllPackets : p.id # Error =>
         responders[p.id] # None \/ p.id \in cleared \/ (sending # NoSend /\ p.id = lastId)

Answers ==
  /\ \A c \in Calls : call[c] = "ok" <=> got[c] = c
  /\ \A c \in Calls : got[c] \in {None, c}

TowerInv ==
  /\ TowerTypes /\ Budget /\ Once /\ Numbered /\ Pending /\ Bodies
  /\ Held /\ SomeHolder /\ ClientEnded /\ Expected /\ Answers /\ ResponderKept

-----------------------------------------------------------------------------
(* Sequences.                                                              *)

\* What is in a sequence to which an element is added.
LEMMA RangeAppend ==
  ASSUME NEW S, NEW s \in Seq(S), NEW x \in S
  PROVE  /\ Append(s, x) \in Seq(S) /\ Len(Append(s, x)) = Len(s) + 1
         /\ Range(Append(s, x)) = Range(s) \cup {x}
         /\ \A k \in DOMAIN Append(s, x) : \/ k \in DOMAIN s /\ Append(s, x)[k] = s[k]
                                           \/ k = Len(s) + 1 /\ Append(s, x)[k] = x
<1>1. /\ Append(s, x) \in Seq(S) /\ Len(Append(s, x)) = Len(s) + 1 /\ Len(s) \in Nat
      /\ DOMAIN s = 1 .. Len(s) /\ DOMAIN Append(s, x) = 1 .. Len(s) + 1
      /\ \A k \in 1 .. Len(s) : Append(s, x)[k] = s[k]
      /\ Append(s, x)[Len(s) + 1] = x
  BY AppendProperties
<1>2. 1 .. Len(s) + 1 = (1 .. Len(s)) \cup {Len(s) + 1}
  BY <1>1
<1>3. Range(Append(s, x)) = Range(s) \cup {x}
  BY <1>1, <1>2 DEF Range
<1>4. QED
  BY <1>1, <1>2, <1>3

\* What is in a sequence without its first element.
LEMMA RangeTail ==
  ASSUME NEW S, NEW s \in Seq(S), s # <<>>
  PROVE  /\ Head(s) \in S /\ Head(s) = s[1] /\ 1 \in DOMAIN s
         /\ Tail(s) \in Seq(S) /\ Len(Tail(s)) = Len(s) - 1 /\ Len(s) \in Nat
         /\ Range(s) = Range(Tail(s)) \cup {Head(s)}
         /\ \A k \in DOMAIN Tail(s) : k \in Nat /\ k + 1 \in DOMAIN s /\ k + 1 # 1 /\ Tail(s)[k] = s[k + 1]
<1>1. /\ Len(s) \in Nat /\ Len(s) > 0 /\ DOMAIN s = 1 .. Len(s)
      /\ Head(s) = s[1] /\ Tail(s) \in Seq(S) /\ Len(Tail(s)) = Len(s) - 1
      /\ DOMAIN Tail(s) = 1 .. Len(s) - 1
      /\ \A k \in 1 .. Len(s) - 1 : Tail(s)[k] = s[k + 1]
  BY HeadTailProperties
<1>2. \A k \in 1 .. Len(s) : k = 1 \/ (k - 1 \in 1 .. Len(s) - 1 /\ (k - 1) + 1 = k)
  BY <1>1
<1>3. \A k \in 1 .. Len(s) - 1 : k \in Nat /\ k + 1 \in 1 .. Len(s) /\ k + 1 # 1
  BY <1>1
<1>4. Range(s) = Range(Tail(s)) \cup {Head(s)}
  <2>1. ASSUME NEW k \in 1 .. Len(s)
        PROVE  s[k] \in Range(Tail(s)) \cup {Head(s)}
    <3>1. CASE k = 1
      BY <1>1, <3>1
    <3>2. CASE k # 1
      <4>1. k - 1 \in DOMAIN Tail(s) /\ Tail(s)[k - 1] = s[k]
        BY <1>1, <1>2, <3>2
      <4>2. QED
        BY <4>1 DEF Range
    <3>3. QED
      BY <3>1, <3>2
  <2>2. \A k \in 1 .. Len(s) - 1 : Tail(s)[k] \in Range(s)
    BY <1>1, <1>3 DEF Range
  <2>3. 1 \in 1 .. Len(s) /\ Head(s) \in Range(s)
    BY <1>1 DEF Range
  <2>4. QED
    BY <1>1, <2>1, <2>2, <2>3 DEF Range
<1>5. 1 \in 1 .. Len(s) /\ s[1] \in S
  BY <1>1
<1>6. QED
  BY <1>1, <1>3, <1>4, <1>5

LEMMA RangeEmpty == Range(<<>>) = {}
BY DEF Range

\* The elements of a sequence.
LEMMA RangeIn ==
  ASSUME NEW S, NEW s \in Seq(S)
  PROVE  Range(s) \subseteq S /\ (s = <<>> <=> Range(s) = {})
<1>1. DOMAIN s = 1 .. Len(s) /\ Len(s) \in Nat /\ \A k \in 1 .. Len(s) : s[k] \in S
  OBVIOUS
<1>2. s # <<>> => 1 \in 1 .. Len(s)
  BY <1>1, EmptySeq
<1>3. QED
  BY <1>1, <1>2, RangeEmpty DEF Range

\* A packet is added at the end of an inbox, or the first is taken.
LEMMA AppendOnce ==
  ASSUME NEW S, NEW s \in Seq(S), NEW x \in S, NoRepeat(s), Apart({x}, Range(s))
  PROVE  NoRepeat(Append(s, x))
<1> SUFFICES ASSUME NEW j \in DOMAIN Append(s, x), NEW k \in DOMAIN Append(s, x),
                    Append(s, x)[j].id = Append(s, x)[k].id, j # k
             PROVE  Append(s, x)[j].id = Error
  BY DEF NoRepeat
<1>1. \A i \in DOMAIN s : s[i] \in Range(s)
  BY DEF Range
<1>2. QED
  BY <1>1, RangeAppend DEF NoRepeat, Apart

LEMMA TailOnce ==
  ASSUME NEW S, NEW s \in Seq(S), s # <<>>, NoRepeat(s)
  PROVE  NoRepeat(Tail(s)) /\ Apart({Head(s)}, Range(Tail(s)))
<1>1. /\ Head(s) = s[1] /\ 1 \in DOMAIN s
      /\ \A k \in DOMAIN Tail(s) : k \in Nat /\ k + 1 \in DOMAIN s /\ k + 1 # 1 /\ Tail(s)[k] = s[k + 1]
  BY RangeTail
<1>2. NoRepeat(Tail(s))
  <2> SUFFICES ASSUME NEW j \in DOMAIN Tail(s), NEW k \in DOMAIN Tail(s),
                      Tail(s)[j].id = Tail(s)[k].id, j # k
               PROVE  Tail(s)[j].id = Error
    BY DEF NoRepeat
  <2>1. j + 1 \in DOMAIN s /\ k + 1 \in DOMAIN s /\ j + 1 # k + 1
    BY <1>1
  <2>2. QED
    BY <1>1, <2>1 DEF NoRepeat
<1>3. Apart({Head(s)}, Range(Tail(s)))
  <2> SUFFICES ASSUME NEW k \in DOMAIN Tail(s), Head(s).id = Tail(s)[k].id
               PROVE  Head(s).id = Error
    BY DEF Apart, Range
  <2>1. QED
    BY <1>1 DEF NoRepeat
<1>4. QED
  BY <1>2, <1>3

-----------------------------------------------------------------------------
(* The initial states.                                                     *)

LEMMA TowerInvInit == Init => TowerInv
<1> SUFFICES ASSUME Init
             PROVE  TowerInv
  OBVIOUS
<1> USE DEF Init
<1>1. TowerTypes
  BY TowerAssumption DEF TowerTypes, Statuses, NoSend, None
<1>2. AllPackets = {}
  BY RangeEmpty DEF AllPackets
<1>3. Budget
  <2>1. Cardinality(Calls) = MaxCalls /\ IsFiniteSet(Calls)
    <3>1. MaxCalls \in Nat /\ 1 \in Int /\ MaxCalls \in Int
      BY TowerAssumption
    <3>2. QED
      BY <3>1, FS_Interval DEF Calls
  <2>2. Unsent = Calls
    BY DEF Unsent
  <2>3. QED
    BY <2>1, <2>2, TowerAssumption DEF Budget
<1>4. Once
  BY RangeEmpty DEF Once, Single, NoRepeat, Apart
<1>5. Numbered
  BY <1>2, RangeEmpty DEF Numbered
<1>6. Pending /\ Bodies /\ SomeHolder /\ ClientEnded
  BY <1>2 DEF Pending, Bodies, SomeHolder, ClientEnded, Waiting
<1>7. Held
  BY RangeEmpty DEF Held, Ids, Calls, None, NoSend
<1>8. Expected /\ Answers /\ ResponderKept
  BY <1>2 DEF Expected, Answers, ResponderKept, NoSend, Calls, None
<1>9. QED
  BY <1>1, <1>3, <1>4, <1>5, <1>6, <1>7, <1>8 DEF TowerInv

-----------------------------------------------------------------------------
(* The network and the server.                                             *)

\* The sequences and sets of packets, and what is in them.
LEMMA Typed ==
  ASSUME TowerInv
  PROVE  /\ inbox \in Seq(Responses \cup Errors) /\ Range(inbox) \subseteq Responses \cup Errors
         /\ requests \in Seq(Requests \cup Errors) /\ Range(requests) \subseteq Requests \cup Errors
         /\ net \subseteq Requests \cup Responses /\ serving \subseteq Requests
         /\ chan \in Seq(Calls) /\ Range(chan) \subseteq Calls
BY RangeIn DEF TowerInv, TowerTypes

LEMMA PacketTypes ==
  /\ \A p \in Requests : p.kind = "request" /\ p.id \in Ids /\ p.id # Error /\ p.body \in Calls
                         /\ p = Packet("request", p.id, p.body)
  /\ \A p \in Responses : p.kind = "response" /\ p.id \in Ids /\ p.id # Error /\ p.body \in Calls
                          /\ p = Packet("response", p.id, p.body)
  /\ \A p \in Errors : p.id = Error
  /\ \A i \in Ids, c \in Calls : Packet("request", i, c) \in Requests /\ Packet("response", i, c) \in Responses
  /\ Packet("request", Error, None) \in Errors /\ Packet("response", Error, None) \in Errors
  /\ \A k, i, c : Packet(k, i, c).kind = k /\ Packet(k, i, c).id = i /\ Packet(k, i, c).body = c
BY DEF Requests, Responses, Errors, Packet, Ids, Error

\* Packets keep their id and body on their way, or get lost.
Move ==
  /\ lost \subseteq lost'
  /\ \A p \in AllPackets' : p.id = Error \/ \E q \in AllPackets : q.id = p.id /\ q.body = p.body
  /\ \A i \in Ids : Alive(i) => Alive(i)' \/ i \in lost'

\* A step that only moves packets.
LEMMA MoveStep ==
  ASSUME TowerInv, TowerTypes', Once', Numbered', Move,
         UNCHANGED <<call, got, chan, sending, lastId, responders, client, cleared, panic>>,
         client # "up" => inbox' = <<>>
  PROVE  TowerInv'
<1>1. Budget' /\ Held' /\ SomeHolder' /\ Answers' /\ ResponderKept'
  BY DEF TowerInv, Budget, Unsent, Held, SomeHolder, Waiting, Answers, ResponderKept
<1>2. ClientEnded'
  BY DEF TowerInv, ClientEnded
<1>4. Pending'
  BY DEF TowerInv, Pending
<1>5. Bodies'
  <2> SUFFICES ASSUME NEW p \in AllPackets', p.id # Error
               PROVE  /\ responders[p.id] \in {None, p.body}
                      /\ sending # NoSend /\ p.id = lastId => p.body = sending.call
    BY DEF Bodies
  <2>1. PICK q \in AllPackets : q.id = p.id /\ q.body = p.body
    BY DEF Move
  <2>2. QED
    BY <2>1 DEF TowerInv, Bodies
<1>6. Expected'
  <2> SUFFICES ASSUME panic = "none"
               PROVE  Expected'
    BY DEF Expected
  <2>1. \A i \in Ids : responders[i] # None => Alive(i)' \/ i \in lost'
    BY DEF TowerInv, Expected, Move
  <2>2. sending # NoSend /\ sending.ok => Alive(lastId)' \/ lastId \in lost'
    BY DEF TowerInv, Expected, Pending, Move
  <2>3. ASSUME client = "up", NEW p \in AllPackets', p.id # Error
        PROVE  responders[p.id] # None \/ p.id \in cleared \/ (sending # NoSend /\ p.id = lastId)
    <3>1. PICK q \in AllPackets : q.id = p.id
      BY <2>3 DEF Move
    <3>2. QED
      BY <2>3, <3>1 DEF TowerInv, Expected
  <2>4. QED
    BY <2>1, <2>2, <2>3 DEF Expected
<1>7. QED
  BY <1>1, <1>2, <1>4, <1>5, <1>6 DEF TowerInv

\* Ids stay numbered if no request is executed and no packet of a request is made.
LEMMA MoveNumbered ==
  ASSUME TowerInv, Move, UNCHANGED <<lastId, responders, served>>,
         unready' = None \/ (unready' = unready /\ \A p \in serving : p.id = unready => p \in serving'),
         \A p \in net' \cup Range(requests') :
           p.kind = "request" /\ p.id # Error => p \in net \cup Range(requests)
  PROVE  Numbered'
<1>1. \A p \in AllPackets' : p.id <= lastId
  <2> SUFFICES ASSUME NEW p \in AllPackets'
               PROVE  p.id <= lastId
    OBVIOUS
  <2>1. CASE p.id = Error
    BY <2>1 DEF TowerInv, TowerTypes, Error
  <2>2. CASE p.id # Error
    BY <2>2 DEF Move, TowerInv, Numbered
  <2>3. QED
    BY <2>1, <2>2
<1>2. QED
  BY <1>1 DEF TowerInv, Numbered

LEMMA DeliverStep ==
  ASSUME TowerInv, NEW p \in net, Deliver(p)
  PROVE  TowerInv'
<1>1. /\ net' = net \ {p} /\ p \in Requests \cup Responses
      /\ UNCHANGED <<call, got, chan, sending, lastId, responders, client, server, serving,
                     unready, served, fails, cleared, panic>>
  BY Typed DEF Deliver
<1>2. TowerTypes /\ Once
  BY DEF TowerInv
<1>3. p.id \in Ids /\ p.id # Error
  BY <1>1, PacketTypes
<1>4. CASE /\ p.kind = "request" /\ Len(requests) < Capacity
           /\ requests' = Append(requests, p) /\ UNCHANGED <<inbox, lost>>
  <2>1. p \in Requests
    BY <1>1, <1>4, PacketTypes
  <2>2. /\ requests' \in Seq(Requests \cup Errors) /\ Len(requests') = Len(requests) + 1
        /\ Range(requests') = Range(requests) \cup {p} /\ Len(requests) \in Nat
    BY <1>4, <2>1, RangeAppend, Typed
  <2>3. TowerTypes'
    <3>1. Len(requests') <= Capacity
      BY <1>4, <2>2, TowerAssumption
    <3>2. QED
      BY <1>1, <1>2, <1>4, <2>2, <3>1 DEF TowerTypes
  <2>4. NoRepeat(requests')
    <3>1. Apart({p}, Range(requests))
      BY <1>2 DEF Once, Apart
    <3>2. QED
      BY <1>2, <1>4, <2>1, <3>1, AppendOnce, Typed DEF Once
  <2>5. Once'
    BY <1>1, <1>2, <1>3, <1>4, <2>2, <2>4 DEF Once, Single, Apart
  <2>6. AllPackets' = AllPackets
    BY <1>1, <1>4, <2>2 DEF AllPackets
  <2>7. Move
    BY <1>4, <2>6 DEF Move, Alive
  <2>8. Numbered'
    BY <1>1, <1>4, <2>2, <2>7, MoveNumbered
  <2>9. QED
    BY <1>1, <1>4, <2>3, <2>5, <2>7, <2>8, MoveStep DEF TowerInv, ClientEnded
<1>5. CASE /\ p.kind = "response" /\ client = "up" /\ Len(inbox) < Capacity
           /\ inbox' = Append(inbox, p) /\ UNCHANGED <<requests, lost>>
  <2>1. p \in Responses
    BY <1>1, <1>5, PacketTypes
  <2>2. /\ inbox' \in Seq(Responses \cup Errors) /\ Len(inbox') = Len(inbox) + 1
        /\ Range(inbox') = Range(inbox) \cup {p} /\ Len(inbox) \in Nat
    BY <1>5, <2>1, RangeAppend, Typed
  <2>3. TowerTypes'
    <3>1. Len(inbox') <= Capacity
      BY <1>5, <2>2, TowerAssumption
    <3>2. QED
      BY <1>1, <1>2, <1>5, <2>2, <3>1 DEF TowerTypes
  <2>4. NoRepeat(inbox')
    <3>1. Apart({p}, Range(inbox))
      BY <1>2 DEF Once, Apart
    <3>2. QED
      BY <1>2, <1>5, <2>1, <3>1, AppendOnce, Typed DEF Once
  <2>5. Once'
    BY <1>1, <1>2, <1>3, <1>5, <2>2, <2>4 DEF Once, Single, Apart
  <2>6. AllPackets' = AllPackets
    BY <1>1, <1>5, <2>2 DEF AllPackets
  <2>7. Move
    BY <1>5, <2>6 DEF Move, Alive
  <2>8. Numbered'
    BY <1>1, <1>5, <2>7, MoveNumbered
  <2>9. QED
    BY <1>1, <1>5, <2>3, <2>5, <2>7, <2>8, MoveStep
<1>6. CASE lost' = lost \cup {p.id} /\ UNCHANGED <<inbox, requests>>
  <2>1. TowerTypes'
    BY <1>1, <1>2, <1>3, <1>6 DEF TowerTypes
  <2>2. Once'
    BY <1>1, <1>2, <1>6 DEF Once, Single, Apart
  <2>3. Move
    <3>1. AllPackets' \subseteq AllPackets /\ AllPackets \subseteq AllPackets' \cup {p}
      BY <1>1, <1>6 DEF AllPackets
    <3>2. QED
      BY <1>6, <3>1 DEF Move, Alive
  <2>4. Numbered'
    BY <1>1, <1>6, <2>3, MoveNumbered
  <2>5. QED
    BY <1>1, <1>6, <2>1, <2>2, <2>3, <2>4, MoveStep DEF TowerInv, ClientEnded
<1>7. QED
  BY <1>4, <1>5, <1>6 DEF Deliver

LEMMA InjectErrorStep ==
  ASSUME TowerInv, InjectError
  PROVE  TowerInv'
<1> DEFINE e == Packet("response", Error, None)
           r == Packet("request", Error, None)
<1>1. /\ e \in Errors /\ e.id = Error /\ r \in Errors /\ r.id = Error
      /\ UNCHANGED <<call, got, chan, sending, lastId, responders, client, server, serving,
                     unready, served, net, lost, cleared, panic>>
  BY PacketTypes DEF InjectError
<1> HIDE DEF e, r
<1>2. TowerTypes /\ Once
  BY DEF TowerInv
<1>3. CASE client = "up" /\ Len(inbox) < Capacity /\ inbox' = Append(inbox, e) /\ UNCHANGED requests
  <2>1. /\ inbox' \in Seq(Responses \cup Errors) /\ Len(inbox') = Len(inbox) + 1
        /\ Range(inbox') = Range(inbox) \cup {e} /\ Len(inbox) \in Nat
    BY <1>1, <1>3, RangeAppend, Typed
  <2>2. TowerTypes'
    <3>1. Len(inbox') <= Capacity
      BY <1>3, <2>1, TowerAssumption
    <3>2. QED
      BY <1>1, <1>2, <1>3, <2>1, <3>1 DEF TowerTypes
  <2>3. NoRepeat(inbox')
    BY <1>1, <1>2, <1>3, AppendOnce, Typed DEF Once, Apart
  <2>4. Once'
    BY <1>1, <1>2, <1>3, <2>1, <2>3 DEF Once, Apart
  <2>5. Move
    <3>1. AllPackets' = AllPackets \cup {e}
      BY <1>1, <1>3, <2>1 DEF AllPackets
    <3>2. QED
      BY <1>1, <3>1 DEF Move, Alive
  <2>6. Numbered'
    BY <1>1, <1>3, <2>5, MoveNumbered
  <2>7. QED
    BY <1>1, <1>3, <2>2, <2>4, <2>5, <2>6, MoveStep
<1>4. CASE Len(requests) < Capacity /\ requests' = Append(requests, r) /\ UNCHANGED inbox
  <2>1. /\ requests' \in Seq(Requests \cup Errors) /\ Len(requests') = Len(requests) + 1
        /\ Range(requests') = Range(requests) \cup {r} /\ Len(requests) \in Nat
    BY <1>1, <1>4, RangeAppend, Typed
  <2>2. TowerTypes'
    <3>1. Len(requests') <= Capacity
      BY <1>4, <2>1, TowerAssumption
    <3>2. QED
      BY <1>1, <1>2, <1>4, <2>1, <3>1 DEF TowerTypes
  <2>3. NoRepeat(requests')
    BY <1>1, <1>2, <1>4, AppendOnce, Typed DEF Once, Apart
  <2>4. Once'
    BY <1>1, <1>2, <1>4, <2>1, <2>3 DEF Once, Apart
  <2>5. Move
    <3>1. AllPackets' = AllPackets \cup {r}
      BY <1>1, <1>4, <2>1 DEF AllPackets
    <3>2. QED
      BY <1>1, <3>1 DEF Move, Alive
  <2>6. Numbered'
    BY <1>1, <1>4, <2>1, <2>5, MoveNumbered
  <2>7. QED
    BY <1>1, <1>4, <2>2, <2>4, <2>5, <2>6, MoveStep DEF TowerInv, ClientEnded
<1>5. QED
  BY <1>3, <1>4 DEF InjectError, e, r

\* The server ends, and with it what it has received; its tasks may go on.
LEMMA ServerEnds ==
  ASSUME TowerInv, server' = FALSE, requests' = <<>>, serving' \subseteq serving, unready' = None,
         lost' = lost \cup ({p.id : p \in Range(requests) \cup (serving \ serving')} \ {Error}),
         UNCHANGED <<clientVars, served, net, cleared, panic>>
  PROVE  TowerInv'
<1>1. Range(requests') = {}
  BY RangeEmpty
<1>2. TowerTypes'
  <2>1. requests' \in Seq(Requests \cup Errors) /\ Len(requests') <= Capacity
    BY TowerAssumption
  <2>2. lost' \subseteq Ids
    <3>1. \A p \in Range(requests) \cup serving : p.id \in Ids \/ p.id = Error
      BY Typed, PacketTypes
    <3>2. QED
      BY <3>1 DEF TowerInv, TowerTypes
  <2>3. serving' \subseteq Requests
    BY Typed
  <2>4. QED
    BY <2>1, <2>2, <2>3 DEF TowerInv, TowerTypes, clientVars
<1>3. Once'
  BY <1>1 DEF TowerInv, Once, Single, Apart, NoRepeat, clientVars
<1>4. Move
  <2>1. /\ AllPackets' \subseteq AllPackets
        /\ \A p \in AllPackets : p \in AllPackets' \/ p \in Range(requests) \cup (serving \ serving')
    BY <1>1 DEF AllPackets, clientVars
  <2>2. \A i \in Ids : i # Error
    BY DEF Ids, Error
  <2>3. \A i \in Ids : Alive(i) => Alive(i)' \/ i \in lost'
    BY <2>1, <2>2 DEF Alive
  <2>4. QED
    BY <2>1, <2>3 DEF Move
<1>5. Numbered'
  BY <1>1, <1>4, MoveNumbered DEF clientVars
<1>6. QED
  BY <1>2, <1>3, <1>4, <1>5, MoveStep DEF clientVars, TowerInv, ClientEnded

LEMMA ServerStopStep ==
  ASSUME TowerInv, ServerStop
  PROVE  TowerInv'
<1>1. serving' = {} /\ serving \ serving' = serving
  BY DEF ServerStop
<1>2. lost' = lost \cup ({p.id : p \in Range(requests) \cup (serving \ serving')} \ {Error})
  BY <1>1 DEF ServerStop
<1>3. QED
  BY <1>1, <1>2, ServerEnds DEF ServerStop

LEMMA ServerStartStep ==
  ASSUME TowerInv, ServerStart
  PROVE  TowerInv'
<1>1. UNCHANGED <<clientVars, requests, serving, unready, served, net, lost, cleared, panic>> /\ server' = TRUE
  BY DEF ServerStart
<1>2. TowerTypes' /\ Once' /\ AllPackets' = AllPackets
  BY <1>1 DEF TowerInv, TowerTypes, Once, AllPackets, clientVars
<1>3. Move
  BY <1>1, <1>2 DEF Move, Alive
<1>4. Numbered'
  BY <1>1, <1>3, MoveNumbered DEF clientVars
<1>5. QED
  BY <1>1, <1>2, <1>3, <1>4, MoveStep DEF clientVars, TowerInv, ClientEnded

LEMMA ServerReceiveStep ==
  ASSUME TowerInv, ServerReceive
  PROVE  TowerInv'
<1> DEFINE p == Head(requests)
<1>1. /\ requests # <<>> /\ p \in Requests \cup Errors /\ p \in Range(requests)
      /\ Range(requests) = Range(Tail(requests)) \cup {p}
      /\ Tail(requests) \in Seq(Requests \cup Errors) /\ Len(Tail(requests)) = Len(requests) - 1
      /\ Len(requests) \in Nat
  BY RangeTail, Typed DEF ServerReceive
<1>2. UNCHANGED <<clientVars, served, net, cleared, panic>>
  BY DEF ServerReceive
<1>3. CASE ServerExit
  BY <1>2, <1>3, ServerEnds DEF ServerExit
<1>4. CASE /\ p.id # Error
           /\ requests' = Tail(requests)
           /\ serving' = serving \cup {p} /\ unready' = p.id
           /\ UNCHANGED <<server, lost>>
  <2>1. TowerTypes /\ Once /\ Numbered
    BY DEF TowerInv
  <2>2. p \in Requests /\ p.id \in Ids /\ p.kind = "request" /\ p.id <= lastId
    <3>1. p \in Requests
      BY <1>1, <1>4, PacketTypes
    <3>2. p \in AllPackets
      BY <1>1 DEF AllPackets
    <3>3. QED
      BY <2>1, <3>1, <3>2, PacketTypes DEF Numbered
  <2>3. NoRepeat(Tail(requests)) /\ Apart({p}, Range(Tail(requests)))
    BY <1>1, <2>1, TailOnce, Typed DEF Once
  <2> HIDE DEF p
  <2>4. served[p.id] = 0
    BY <1>1, <1>4, <2>1, <2>2 DEF Numbered
  <2>5. TowerTypes'
    <3>1. Len(requests') <= Capacity
      BY <1>1, <1>4, <2>1, TowerAssumption DEF TowerTypes
    <3>2. QED
      BY <1>1, <1>2, <1>4, <2>1, <2>2, <3>1 DEF TowerTypes, clientVars
  <2>6. Once'
    <3>1. Single(serving')
      BY <1>1, <1>4, <2>1 DEF Once, Single, Apart
    <3>2. Apart(serving', Range(requests'))
      BY <1>1, <1>4, <2>1, <2>3 DEF Once, Apart
    <3>3. Apart(net', serving') /\ Apart(serving', Range(inbox'))
      BY <1>1, <1>2, <1>4, <2>1 DEF Once, Apart, clientVars
    <3>4. Apart(net', Range(requests')) /\ Apart(Range(requests'), Range(inbox'))
      BY <1>1, <1>2, <1>4, <2>1 DEF Once, Apart, clientVars
    <3>5. QED
      BY <1>2, <1>4, <2>1, <2>3, <3>1, <3>2, <3>3, <3>4 DEF Once, clientVars, p
  <2>7. AllPackets' = AllPackets
    BY <1>1, <1>2, <1>4 DEF AllPackets, clientVars
  <2>8. Move
    BY <1>4, <2>7 DEF Move, Alive
  <2>9. Numbered'
    <3>1. UNCHANGED <<lastId, responders, net, served>> /\ Range(requests') \subseteq Range(requests)
      BY <1>1, <1>2, <1>4 DEF clientVars
    <3>2. QED
      BY <1>4, <2>1, <2>2, <2>4, <2>7, <3>1 DEF Numbered
  <2>10. QED
    BY <1>2, <1>4, <2>5, <2>6, <2>8, <2>9, MoveStep DEF clientVars, TowerInv, ClientEnded
<1>5. QED
  BY <1>3, <1>4 DEF ServerReceive

\* The call of a request is made, or the server ends on an error of the service.
LEMMA ServerReadyStep ==
  ASSUME TowerInv, ServerReady
  PROVE  TowerInv'
<1>1. unready # None /\ UNCHANGED <<clientVars, net, cleared, panic>>
  BY DEF ServerReady
<1>2. CASE ServerExit /\ UNCHANGED served
  BY <1>1, <1>2, ServerEnds DEF ServerExit
<1>3. CASE /\ unready' = None
           /\ served' = [served EXCEPT ![unready] = @ + 1]
           /\ UNCHANGED <<server, requests, serving, lost>>
  <2>1. TowerTypes /\ Once /\ Numbered
    BY DEF TowerInv
  <2>2. unready \in Ids /\ unready <= lastId /\ served[unready] = 0
    BY <1>1, <2>1 DEF TowerTypes, Numbered
  <2>3. /\ served' \in [Ids -> Nat] /\ served'[unready] = 1
        /\ \A i \in Ids : i # unready => served'[i] = served[i]
    BY <1>3, <2>1, <2>2 DEF TowerTypes
  <2>4. TowerTypes'
    BY <1>1, <1>3, <2>1, <2>3 DEF TowerTypes, clientVars
  <2>5. Once' /\ AllPackets' = AllPackets
    BY <1>1, <1>3, <2>1 DEF Once, AllPackets, clientVars
  <2>6. Move
    BY <1>3, <2>5 DEF Move, Alive
  <2>7. Numbered'
    <3>1. UNCHANGED <<lastId, responders, net>>
      BY <1>1 DEF clientVars
    <3>2. ASSUME NEW q \in net \cup Range(requests), q.kind = "request", q.id # Error
          PROVE  served'[q.id] = 0
      <4>1. q.id \in Ids /\ served[q.id] = 0
        BY <2>1, <3>2, Typed, PacketTypes DEF Numbered
      <4>2. q.id # unready
        BY <1>1, <2>1, <3>2 DEF Numbered, Once, Apart
      <4>3. QED
        BY <2>3, <4>1, <4>2
    <3>3. \A i \in Ids : i > lastId => i # unready
      BY <2>1, <2>2 DEF TowerTypes, Ids
    <3>4. \A i \in Ids : served'[i] <= 1 /\ (i > lastId => served'[i] = 0)
      BY <2>1, <2>3, <3>3 DEF Numbered
    <3>5. QED
      BY <1>3, <2>1, <2>5, <3>1, <3>2, <3>4 DEF Numbered
  <2>8. QED
    BY <1>1, <1>3, <2>4, <2>5, <2>6, <2>7, MoveStep DEF clientVars, TowerInv, ClientEnded
<1>4. QED
  BY <1>2, <1>3 DEF ServerReady

\* A task of the server sends its result: the request becomes the response.
LEMMA ReplyStep ==
  ASSUME TowerInv, NEW p \in serving, Reply(p)
  PROVE  TowerInv'
<1> DEFINE r == Packet("response", p.id, p.body)
<1>1. /\ p \in Requests /\ p.id \in Ids /\ p.id # Error
      /\ r \in Responses /\ r.id = p.id /\ r.body = p.body /\ r.kind = "response"
  BY Typed, PacketTypes
<1> HIDE DEF r
<1>2. /\ serving' = serving \ {p} /\ p.id # unready
      /\ \/ net' = net \cup {r} /\ lost' = lost
         \/ lost' = lost \cup {p.id} /\ net' = net
      /\ UNCHANGED <<clientVars, server, requests, unready, served, cleared, panic>>
  BY <1>1 DEF Reply, Transmit, r
<1>3. TowerTypes /\ Once
  BY DEF TowerInv
<1>4. TowerTypes'
  BY <1>1, <1>2, <1>3 DEF TowerTypes, clientVars
<1>5. Once'
  <2>1. Single(serving') /\ Apart(serving', Range(requests')) /\ Apart(serving', Range(inbox'))
        /\ NoRepeat(requests') /\ NoRepeat(inbox') /\ Apart(Range(requests'), Range(inbox'))
    BY <1>2, <1>3 DEF Once, Single, Apart, clientVars
  <2>2. Single(net')
    BY <1>1, <1>2, <1>3 DEF Once, Single, Apart
  <2>3. Apart(net', serving')
    BY <1>1, <1>2, <1>3 DEF Once, Single, Apart
  <2>4. Apart(net', Range(requests')) /\ Apart(net', Range(inbox'))
    BY <1>1, <1>2, <1>3 DEF Once, Apart, clientVars
  <2>5. QED
    BY <2>1, <2>2, <2>3, <2>4 DEF Once
<1>6. Move
  <2>1. /\ \A q \in AllPackets' : q \in AllPackets \/ q = r
        /\ \A q \in AllPackets : q \in AllPackets' \/ q = p
        /\ p \in AllPackets
    BY <1>2 DEF AllPackets, clientVars
  <2>2. r \in AllPackets' \/ p.id \in lost'
    BY <1>2 DEF AllPackets
  <2>3. lost \subseteq lost'
    BY <1>2
  <2>4. \A q \in AllPackets' : \E x \in AllPackets : x.id = q.id /\ x.body = q.body
    BY <1>1, <2>1
  <2>5. \A i \in Ids : Alive(i) => Alive(i)' \/ i \in lost'
    BY <1>1, <2>1, <2>2 DEF Alive
  <2>6. QED
    BY <2>3, <2>4, <2>5 DEF Move
<1>7. Numbered'
  BY <1>1, <1>2, <1>6, MoveNumbered DEF clientVars
<1>8. QED
  BY <1>2, <1>4, <1>5, <1>6, <1>7, MoveStep DEF clientVars, TowerInv, ClientEnded

-----------------------------------------------------------------------------
(* The callers.                                                            *)

\* The number of calls that have no id yet.
LEMMA UnsentFinite == IsFiniteSet(Unsent) /\ Cardinality(Unsent) \in Nat
<1>1. 1 \in Int /\ MaxCalls \in Int
  BY TowerAssumption
<1>2. IsFiniteSet(Calls) /\ Unsent \in SUBSET Calls
  BY <1>1, FS_Interval DEF Calls, Unsent
<1>3. QED
  BY <1>2, FS_Subset, FS_CardinalityType

LEMMA BudgetKept ==
  ASSUME TowerInv, Unsent' \subseteq Unsent, lastId' = lastId
  PROVE  Budget'
<1>1. Unsent' \in SUBSET Unsent
  OBVIOUS
<1>2. Cardinality(Unsent') <= Cardinality(Unsent) /\ IsFiniteSet(Unsent')
  BY <1>1, UnsentFinite, FS_Subset
<1>3. Cardinality(Unsent') \in Nat /\ Cardinality(Unsent) \in Nat
  BY <1>2, UnsentFinite, FS_CardinalityType
<1>4. QED
  BY <1>2, <1>3, TowerAssumption DEF TowerInv, TowerTypes, Budget

\* A call takes the next id, which is one of Ids.
LEMMA BudgetTaken ==
  ASSUME TowerInv, NEW c \in Unsent, Unsent' \subseteq Unsent \ {c}, lastId' = lastId + 1
  PROVE  Budget' /\ lastId' \in Ids
<1>1. Unsent' \in SUBSET (Unsent \ {c})
  OBVIOUS
<1>2. IsFiniteSet(Unsent \ {c}) /\ Cardinality(Unsent \ {c}) = Cardinality(Unsent) - 1
  BY UnsentFinite, FS_RemoveElement
<1>3. Cardinality(Unsent') <= Cardinality(Unsent) - 1 /\ IsFiniteSet(Unsent')
  BY <1>1, <1>2, FS_Subset
<1>4. Cardinality(Unsent') \in Nat /\ Cardinality(Unsent) \in Nat
  BY <1>3, UnsentFinite, FS_CardinalityType
<1>5. QED
  BY <1>3, <1>4, TowerAssumption DEF TowerInv, TowerTypes, Budget, Ids

\* A step that leaves the packets and what waits for them alone.
LEMMA PacketsStay ==
  ASSUME TowerInv, panic' \in {panic, "poll_ready"},
         UNCHANGED <<serverVars, net, lost, cleared, inbox, lastId, responders, sending, client>>
  PROVE  Once' /\ Numbered' /\ Pending' /\ Bodies' /\ Expected' /\ ResponderKept'
<1>1. AllPackets' = AllPackets
  BY DEF AllPackets, serverVars
<1>2. Once' /\ Numbered'
  BY <1>1 DEF TowerInv, Once, Numbered, serverVars
<1>3. Pending' /\ Bodies'
  BY <1>1 DEF TowerInv, Pending, Bodies, Alive
<1>4. ResponderKept'
  BY DEF TowerInv, ResponderKept
<1>5. Expected'
  <2>1. panic' = "none" => panic = "none"
    OBVIOUS
  <2>2. QED
    BY <1>1, <2>1 DEF TowerInv, Expected, Alive
<1>6. QED
  BY <1>2, <1>3, <1>4, <1>5

LEMMA PollReadyStep ==
  ASSUME TowerInv, PollReady
  PROVE  TowerInv'
<1>1. /\ UNCHANGED <<clientVars, serverVars, net, lost, cleared>> /\ panic' = "poll_ready"
  BY DEF PollReady
<1>2. TowerTypes' /\ Budget' /\ Held' /\ SomeHolder' /\ ClientEnded' /\ Answers'
  BY <1>1 DEF TowerInv, TowerTypes, Budget, Unsent, Held, SomeHolder, Waiting, ClientEnded, Answers,
              clientVars, serverVars
<1>3. QED
  BY <1>1, <1>2, PacketsStay DEF TowerInv, clientVars

\* A call is made or given up: it is not waiting afterwards.
LEMMA CallStep ==
  ASSUME TowerInv, NEW c \in Calls, Call(c) \/ Cancel(c)
  PROVE  TowerInv'
<1>1. /\ \/ call[c] = "idle" /\ call' = [call EXCEPT ![c] = "made"]
         \/ call[c] \in {"made", "waiting"} /\ call' = [call EXCEPT ![c] = "dropped"]
      /\ UNCHANGED <<got, chan, sending, lastId, responders, client, inbox, serverVars, net,
                     lost, fails, cleared, panic>>
  BY DEF Call, Cancel
<1>2. TowerTypes
  BY DEF TowerInv
<1>3. /\ call' \in [Calls -> Statuses] /\ call[c] # "ok" /\ call'[c] \notin {"ok", "waiting", "idle"}
      /\ (call'[c] = "made" => call[c] = "idle")
      /\ \A b \in Calls : b # c => call'[b] = call[b]
  BY <1>1, <1>2 DEF TowerTypes, Statuses
<1>4. TowerTypes'
  BY <1>1, <1>2, <1>3 DEF TowerTypes, serverVars
<1>5. \A b \in Calls : call'[b] \in {"idle", "made"} => call[b] \in {"idle", "made"}
  BY <1>3
<1>6. Budget'
  <2>1. Unsent' \subseteq Unsent
    BY <1>1, <1>5 DEF Unsent
  <2>2. QED
    BY <1>1, <2>1, BudgetKept
<1>7. Held' /\ ClientEnded'
  BY <1>1, <1>5 DEF TowerInv, Held, ClientEnded
<1>8. SomeHolder' /\ Answers'
  BY <1>1, <1>3 DEF TowerInv, SomeHolder, Waiting, Answers
<1>9. QED
  BY <1>1, <1>4, <1>6, <1>7, <1>8, PacketsStay DEF TowerInv

\* The first poll puts the call into the channel, or fails it.
LEMMA StartStep ==
  ASSUME TowerInv, NEW c \in Calls, Start(c)
  PROVE  TowerInv'
<1>1. /\ call[c] = "made"
      /\ UNCHANGED <<got, sending, lastId, responders, client, inbox, serverVars, net,
                     lost, fails, cleared, panic>>
  BY DEF Start
<1>2. TowerTypes /\ Held
  BY DEF TowerInv
<1>3. \/ client = "up" /\ call' = [call EXCEPT ![c] = "waiting"] /\ chan' = Append(chan, c)
      \/ client # "up" /\ call' = [call EXCEPT ![c] = "reset"] /\ chan' = chan
  BY DEF Start
<1>4. /\ call' \in [Calls -> Statuses] /\ call'[c] \notin {"idle", "made", "ok"}
      /\ \A b \in Calls : b # c => call'[b] = call[b]
  BY <1>2, <1>3 DEF TowerTypes, Statuses
<1>5. /\ chan' \in Seq(Calls) /\ Range(chan') \subseteq Range(chan) \cup {c}
      /\ (call'[c] = "waiting" => c \in Range(chan')) /\ Range(chan) \subseteq Range(chan')
      /\ \A j, k \in DOMAIN chan' : chan'[j] = chan'[k] => j = k
  <2>1. CASE client = "up" /\ call' = [call EXCEPT ![c] = "waiting"] /\ chan' = Append(chan, c)
    <3>1. c \notin Range(chan)
      BY <1>1, <1>2 DEF Held
    <3>2. \A k \in DOMAIN chan : chan[k] \in Range(chan)
      BY DEF Range
    <3>3. /\ chan' \in Seq(Calls) /\ Range(chan') = Range(chan) \cup {c}
          /\ \A k \in DOMAIN chan' : \/ k \in DOMAIN chan /\ chan'[k] = chan[k]
                                     \/ k = Len(chan) + 1 /\ chan'[k] = c
      BY <1>2, <2>1, RangeAppend DEF TowerTypes
    <3>4. QED
      BY <1>2, <3>1, <3>2, <3>3 DEF Held
  <2>2. CASE client # "up" /\ call' = [call EXCEPT ![c] = "reset"] /\ chan' = chan
    <3>1. call'[c] = "reset"
      BY <1>2, <2>2 DEF TowerTypes
    <3>2. QED
      BY <1>2, <2>2, <3>1 DEF TowerTypes, Held
  <2>3. QED
    BY <1>3, <2>1, <2>2
<1>6. TowerTypes'
  BY <1>1, <1>2, <1>4, <1>5 DEF TowerTypes, serverVars
<1>7. Budget'
  <2>1. Unsent' \subseteq Unsent
    BY <1>1, <1>4, <1>5 DEF Unsent
  <2>2. QED
    BY <1>1, <2>1, BudgetKept
<1>8. Held'
  <2>1. /\ sending.call # c /\ \A i \in Ids : responders[i] # c
    BY <1>1, <1>2 DEF Held
  <2>2. \A b \in Range(chan') : b # sending.call /\ \A i \in Ids : responders[i] # b
    BY <1>2, <1>5, <2>1 DEF Held
  <2>3. ASSUME NEW b \in Calls, call'[b] \in {"idle", "made"}
        PROVE  sending.call # b /\ b \notin Range(chan') /\ \A i \in Ids : responders[i] # b
    <3>1. b # c /\ call[b] \in {"idle", "made"}
      BY <1>4, <2>3
    <3>2. QED
      BY <1>2, <1>5, <3>1 DEF Held
  <2>4. QED
    BY <1>1, <1>2, <1>5, <2>2, <2>3 DEF Held
<1>9. SomeHolder' /\ Answers'
  <2>1. SomeHolder'
    BY <1>1, <1>4, <1>5 DEF TowerInv, SomeHolder, Waiting
  <2>2. Answers'
    BY <1>1, <1>4 DEF TowerInv, Answers
  <2>3. QED
    BY <2>1, <2>2
<1>10. ClientEnded'
  BY <1>1, <1>3 DEF TowerInv, ClientEnded
<1>11. QED
  BY <1>1, <1>6, <1>7, <1>8, <1>9, <1>10, PacketsStay DEF TowerInv

-----------------------------------------------------------------------------
(* The client's tasks.                                                     *)

\* What an answer changes.
LEMMA AnswerFacts ==
  ASSUME TowerTypes, NEW cs, NEW outcome \in {"ok", "failed", "reset"}
  PROVE  /\ Answer(cs, outcome) \in [Calls -> Statuses]
         /\ \A c \in Calls : c \in cs /\ call[c] = "waiting" => Answer(cs, outcome)[c] = outcome
         /\ \A c \in Calls : ~(c \in cs /\ call[c] = "waiting") => Answer(cs, outcome)[c] = call[c]
BY DEF TowerTypes, Answer, Statuses

\* Ids that were not used yet.
LEMMA FreshId ==
  ASSUME TowerInv, NEW n \in Ids, n = lastId + 1
  PROVE  /\ n # Error /\ lastId \in Nat
         /\ \A p \in AllPackets : p.id # n /\ p.id \in Nat /\ p.id <= lastId
         /\ responders[n] = None /\ served[n] = 0
<1>1. lastId \in Nat
  BY DEF TowerInv, TowerTypes
<1>2. \A p \in AllPackets : p.id \in Nat
  BY Typed, PacketTypes DEF AllPackets, Ids, Error
<1>3. QED
  BY <1>1, <1>2 DEF TowerInv, Numbered, Ids, Error

\* The send task takes the oldest call out of the channel and gives it the next id.
LEMMA TakesCall ==
  ASSUME TowerInv, SendTask
  PROVE  LET c == Head(chan)
         IN  /\ c \in Calls /\ c \in Range(chan) /\ c \notin Range(chan')
             /\ Range(chan') \subseteq Range(chan) /\ Range(chan) \subseteq Range(chan') \cup {c}
             /\ chan' \in Seq(Calls)
             /\ \A j, k \in DOMAIN chan' : chan'[j] = chan'[k] => j = k
             /\ call[c] \notin {"idle", "made"}
             /\ \A i \in Ids : responders[i] # c
             /\ Budget' /\ lastId' \in Ids /\ lastId' = lastId + 1
<1> DEFINE c == Head(chan)
<1>1. /\ chan # <<>> /\ chan \in Seq(Calls) /\ chan' = Tail(chan) /\ lastId' = lastId + 1
  BY DEF SendTask, TowerInv, TowerTypes
<1>2. /\ c \in Calls /\ c = chan[1] /\ 1 \in DOMAIN chan /\ chan' \in Seq(Calls)
      /\ Range(chan) = Range(chan') \cup {c}
      /\ \A k \in DOMAIN chan' : k \in Nat /\ k + 1 \in DOMAIN chan /\ k + 1 # 1 /\ chan'[k] = chan[k + 1]
  BY <1>1, RangeTail
<1> HIDE DEF c
<1>3. Held
  BY DEF TowerInv
<1>4. c \notin Range(chan')
  <2> SUFFICES ASSUME NEW k \in DOMAIN chan', chan'[k] = c
               PROVE  FALSE
    BY DEF Range
  <2>1. k + 1 \in DOMAIN chan /\ k + 1 # 1 /\ chan[k + 1] = chan[1]
    BY <1>2
  <2>2. QED
    BY <1>2, <1>3, <2>1 DEF Held
<1>5. ASSUME NEW j \in DOMAIN chan', NEW k \in DOMAIN chan', chan'[j] = chan'[k]
      PROVE  j = k
  <2>1. j + 1 \in DOMAIN chan /\ k + 1 \in DOMAIN chan /\ chan[j + 1] = chan[k + 1] /\ j \in Nat /\ k \in Nat
    BY <1>2, <1>5
  <2>2. j + 1 = k + 1
    BY <1>3, <2>1 DEF Held
  <2>3. QED
    BY <2>1, <2>2
<1>6. call[c] \notin {"idle", "made"} /\ \A i \in Ids : responders[i] # c
  BY <1>2, <1>3 DEF Held
<1>7. Budget' /\ lastId' \in Ids
  <2>1. \A b \in Calls : call'[b] \in {"idle", "made"} => call[b] \in {"idle", "made"}
    <3>1. call' = call \/ call' = Answer({c}, "failed")
      BY DEF SendTask, c
    <3>2. TowerTypes
      BY DEF TowerInv
    <3>3. QED
      BY <3>1, <3>2, AnswerFacts
  <2>2. Unsent' \subseteq Unsent \ {c} /\ c \in Unsent
    BY <1>2, <1>4, <1>6, <2>1 DEF Unsent
  <2>3. QED
    BY <1>1, <2>2, BudgetTaken
<1>8. QED
  BY <1>1, <1>2, <1>4, <1>5, <1>6, <1>7 DEF c

\* The packets after a request was sent, refused or lost.
LEMMA NewPacket ==
  ASSUME TowerInv, NEW n \in Ids, NEW c \in Calls, n = lastId + 1, lastId' = n,
         UNCHANGED <<serverVars, inbox>>,
         net' \in {net, net \cup {Packet("request", n, c)}},
         \A i \in Ids : i # n => responders'[i] = responders[i]
  PROVE  /\ Once' /\ Numbered'
         /\ AllPackets \subseteq AllPackets' /\ AllPackets' \subseteq AllPackets \cup {Packet("request", n, c)}
         /\ net' = net => AllPackets' = AllPackets
<1> DEFINE p == Packet("request", n, c)
<1>1. p.id = n /\ p.kind = "request" /\ n # Error /\ lastId \in Nat
  BY PacketTypes, FreshId
<1> HIDE DEF p
<1>2. Once /\ Numbered /\ net' \in {net, net \cup {p}}
  BY DEF TowerInv, p
<1>3. /\ AllPackets \subseteq AllPackets' /\ AllPackets' \subseteq AllPackets \cup {p}
      /\ net' = net => AllPackets' = AllPackets
  BY <1>2 DEF AllPackets, serverVars
<1>4. \A q \in AllPackets : q.id # n /\ q.id \in Nat /\ q.id <= lastId
  BY FreshId
<1>5. Apart({p}, net) /\ Apart({p}, serving) /\ Apart({p}, Range(requests)) /\ Apart({p}, Range(inbox))
  BY <1>1, <1>4 DEF Apart, AllPackets
<1>6. Once'
  <2>1. Single(net')
    BY <1>1, <1>2, <1>5 DEF Once, Single, Apart
  <2>2. Apart(net', serving') /\ Apart(net', Range(requests')) /\ Apart(net', Range(inbox'))
    BY <1>2, <1>5 DEF Once, Apart, serverVars
  <2>3. QED
    BY <1>2, <2>1, <2>2 DEF Once, serverVars
<1>7. Numbered'
  <2>1. \A q \in AllPackets' : q.id <= lastId'
    BY <1>1, <1>3, <1>4
  <2>2. \A i \in Ids : i > lastId' => i > lastId /\ i # n
    BY <1>1 DEF Ids
  <2>3. \A q \in net' \cup Range(requests') : q = p \/ q \in net \cup Range(requests)
    BY <1>2 DEF serverVars
  <2>4. served[n] = 0
    BY FreshId
  <2>5. unready' # None => /\ unready' <= lastId' /\ served'[unready'] = 0
                            /\ \E q \in serving' : q.id = unready'
    BY <1>1, <1>2 DEF Numbered, serverVars, TowerInv, TowerTypes, Ids, None
  <2>6. \A i \in Ids : i > lastId' => responders'[i] = None /\ served'[i] = 0
    BY <1>2, <2>2 DEF Numbered, serverVars
  <2>7. \A q \in net' \cup Range(requests') : q.kind = "request" /\ q.id # Error => served'[q.id] = 0
    BY <1>1, <1>2, <2>3, <2>4 DEF Numbered, serverVars
  <2>8. QED
    BY <1>2, <2>1, <2>5, <2>6, <2>7 DEF Numbered, serverVars
<1>8. QED
  BY <1>3, <1>6, <1>7 DEF p

\* A packet is in flight or lost.
Sends(p) ==
  \/ net' = net \cup {p} /\ lost' = lost
  \/ net' = net /\ lost' = lost \cup {p.id}

LEMMA SendTaskStep ==
  ASSUME TowerInv, SendTask
  PROVE  TowerInv'
<1> DEFINE cc == Head(chan)
<1> PICK c : c = cc
  OBVIOUS
<1> PICK n : n = lastId + 1
  OBVIOUS
<1> PICK p : p = Packet("request", n, c)
  OBVIOUS
<1>1. /\ c \in Calls /\ c \in Range(chan) /\ c \notin Range(chan')
      /\ Range(chan') \subseteq Range(chan) /\ Range(chan) \subseteq Range(chan') \cup {c}
      /\ chan' \in Seq(Calls)
      /\ \A j, k \in DOMAIN chan' : chan'[j] = chan'[k] => j = k
      /\ call[c] \notin {"idle", "made"}
      /\ \A i \in Ids : responders[i] # c
      /\ Budget' /\ n \in Ids /\ n = lastId' /\ c # None
  BY TakesCall DEF Calls, None
<1>2. /\ client = "up" /\ sending = NoSend /\ panic = "none"
      /\ UNCHANGED <<got, client, inbox, serverVars, fails, panic>>
  BY DEF SendTask
<1>3. /\ p.id = n /\ p.body = c /\ p.kind = "request" /\ p \in Requests /\ n # Error /\ lastId \in Nat
      /\ \A q \in AllPackets : q.id # n /\ q.id # lastId'
      /\ responders[n] = None
  BY <1>1, PacketTypes, FreshId
<1>4. TowerTypes
  BY DEF TowerInv
<1>5. \/ Sends(p) /\ responders' = [responders EXCEPT ![n] = c] /\ UNCHANGED <<call, sending, cleared>>
      \/ /\ net' \in {net, net \cup {p}} /\ call' = Answer({c}, "failed")
         /\ cleared' = cleared \cup {n} /\ UNCHANGED <<sending, responders, lost>>
      \/ Sends(p) /\ sending' = [call |-> c, ok |-> TRUE] /\ UNCHANGED <<call, responders, cleared>>
      \/ /\ net' \in {net, net \cup {p}} /\ sending' = [call |-> c, ok |-> FALSE]
         /\ UNCHANGED <<lost, call, responders, cleared>>
  <2>1. (Transmit(p) => Sends(p)) /\ (Refuse(p) => net' \in {net, net \cup {p}} /\ UNCHANGED lost)
    BY DEF Transmit, Sends, Refuse
  <2>2. QED
    BY <1>1, <2>1 DEF SendTask
<1>6. /\ responders' \in [Ids -> Calls \cup {None}]
      /\ \A i \in Ids : i # n => responders'[i] = responders[i]
      /\ call' \in [Calls -> Statuses] /\ call'[c] \in {call[c], "failed"}
      /\ \A b \in Calls : b # c => call'[b] = call[b]
      /\ (call'[c] = "ok" <=> call[c] = "ok")
      /\ sending' \in [call : Calls \cup {None}, ok : BOOLEAN]
      /\ net' \in {net, net \cup {p}} /\ lost \subseteq lost' /\ lost' \subseteq lost \cup {n}
      /\ cleared \subseteq cleared' /\ cleared' \subseteq cleared \cup {n}
  <2>1. call' = call \/ call' = Answer({c}, "failed")
    BY <1>5
  <2>2. /\ call' \in [Calls -> Statuses] /\ call'[c] \in {call[c], "failed"}
        /\ \A b \in Calls : b # c => call'[b] = call[b]
        /\ (call'[c] = "ok" <=> call[c] = "ok")
    <3>1. CASE call' = call
      BY <1>1, <1>4, <3>1 DEF TowerTypes
    <3>2. CASE call' = Answer({c}, "failed")
      <4>1. /\ call' \in [Calls -> Statuses]
            /\ (call[c] = "waiting" => call'[c] = "failed") /\ (call[c] # "waiting" => call'[c] = call[c])
            /\ \A b \in Calls : b # c => call'[b] = call[b]
        BY <1>1, <1>4, <3>2 DEF Answer, TowerTypes, Statuses
      <4>2. call'[c] = call[c] \/ (call[c] = "waiting" /\ call'[c] = "failed")
        BY <4>1
      <4>3. call'[c] = "ok" <=> call[c] = "ok"
        BY <4>2
      <4>4. QED
        BY <4>1, <4>2, <4>3
    <3>3. QED
      BY <2>1, <3>1, <3>2
  <2>3. sending' \in [call : Calls \cup {None}, ok : BOOLEAN]
    <3>1. sending' = sending \/ \E b \in BOOLEAN : sending' = [call |-> c, ok |-> b]
      BY <1>5
    <3>2. QED
      BY <1>1, <1>4, <3>1 DEF TowerTypes
  <2>4. /\ responders' \in [Ids -> Calls \cup {None}]
        /\ \A i \in Ids : i # n => responders'[i] = responders[i]
    BY <1>1, <1>4, <1>5 DEF TowerTypes
  <2>5. /\ net' \in {net, net \cup {p}} /\ lost \subseteq lost' /\ lost' \subseteq lost \cup {n}
        /\ cleared \subseteq cleared' /\ cleared' \subseteq cleared \cup {n}
    BY <1>3, <1>5 DEF Sends
  <2>6. QED
    BY <2>2, <2>3, <2>4, <2>5
<1>7. \/ responders'[n] = c /\ sending' = NoSend /\ (p \in net' \/ n \in lost')
      \/ responders'[n] = None /\ sending' = NoSend /\ call'[c] # "waiting" /\ n \in cleared'
      \/ /\ responders'[n] = None /\ sending' # NoSend /\ sending'.call = c
         /\ sending'.ok => p \in net' \/ n \in lost'
  <2>1. Sends(p) => p \in net' \/ n \in lost'
    BY <1>3 DEF Sends
  <2>2. call' = Answer({c}, "failed") => call'[c] # "waiting"
    BY <1>1, <1>4, AnswerFacts
  <2>3. /\ [call |-> c, ok |-> TRUE] # NoSend /\ [call |-> c, ok |-> FALSE] # NoSend
        /\ responders' = [responders EXCEPT ![n] = c] => responders'[n] = c
    BY <1>1, <1>4 DEF NoSend, None, TowerTypes
  <2>4. QED
    BY <1>2, <1>3, <1>5, <2>1, <2>2, <2>3
<1>8. TowerTypes'
  <2>1. /\ net' \subseteq Requests \cup Responses /\ lastId' \in Nat
        /\ lost' \subseteq Ids /\ cleared' \subseteq Ids
    BY <1>1, <1>3, <1>4, <1>6 DEF TowerTypes, Ids
  <2>2. QED
    BY <1>1, <1>2, <1>4, <1>6, <2>1 DEF TowerTypes, serverVars
<1>9. /\ Once' /\ Numbered'
      /\ AllPackets \subseteq AllPackets' /\ AllPackets' \subseteq AllPackets \cup {p}
      /\ net' = net => AllPackets' = AllPackets
  BY <1>1, <1>2, <1>6, NewPacket
<1>10. Pending'
  BY <1>1, <1>7 DEF Pending
<1>11. Bodies'
  <2> SUFFICES ASSUME NEW q \in AllPackets', q.id # Error
               PROVE  /\ responders'[q.id] \in {None, q.body}
                      /\ sending' # NoSend /\ q.id = lastId' => q.body = sending'.call
    BY DEF Bodies
  <2>1. CASE q = p
    BY <1>1, <1>3, <1>7, <2>1
  <2>2. CASE q \in AllPackets
    <3>1. q.id \in Ids /\ q.id # n
      BY <1>3, <2>2, Typed, PacketTypes DEF AllPackets
    <3>2. QED
      BY <1>1, <1>6, <2>2, <3>1 DEF TowerInv, Bodies
  <2>3. QED
    BY <1>9, <2>1, <2>2
<1>12. Held'
  <2>1. Held
    BY DEF TowerInv
  <2>2. sending'.call \in {None, c} /\ sending.call = None /\ (sending'.call = c => responders'[n] = None)
    BY <1>1, <1>2, <1>7 DEF NoSend
  <2>3. responders'[n] \in {None, c}
    BY <1>7
  <2>4. \A i, j \in Ids : responders'[i] = responders'[j] => i = j \/ responders'[i] = None
    BY <1>1, <1>6, <2>1, <2>3 DEF Held
  <2>5. \A b \in Range(chan') : b # sending'.call /\ \A i \in Ids : responders'[i] # b
    <3>1. \A b \in Range(chan') : b # None
      BY <1>1, Typed DEF Calls, None
    <3>2. QED
      BY <1>1, <1>6, <2>1, <2>2, <2>3, <3>1 DEF Held
  <2>6. \A i \in Ids : responders'[i] = sending'.call => responders'[i] = None
    BY <1>1, <1>6, <2>2, <2>3
  <2>7. ASSUME NEW b \in Calls, call'[b] \in {"idle", "made"}
        PROVE  sending'.call # b /\ b \notin Range(chan') /\ \A i \in Ids : responders'[i] # b
    <3>1. b # c /\ call[b] \in {"idle", "made"} /\ b # None
      BY <1>1, <1>6, <2>7 DEF Calls, None
    <3>2. QED
      BY <1>1, <1>6, <2>1, <2>2, <2>3, <3>1 DEF Held
  <2>8. QED
    BY <1>1, <2>4, <2>5, <2>6, <2>7 DEF Held
<1>13. SomeHolder'
  <2> SUFFICES ASSUME NEW b \in Calls, call'[b] = "waiting"
               PROVE  sending'.call = b \/ b \in Range(chan') \/ \E i \in Ids : responders'[i] = b
    BY DEF SomeHolder, Waiting
  <2>1. CASE b = c
    BY <1>1, <1>7, <2>1
  <2>2. CASE b # c
    <3>1. call[b] = "waiting"
      BY <1>6, <2>2
    <3>2. b \in Range(chan) \/ \E i \in Ids : responders[i] = b
      <4>1. b # None /\ sending.call = None
        BY <1>2 DEF NoSend, Calls, None
      <4>2. QED
        BY <3>1, <4>1 DEF TowerInv, SomeHolder, Waiting
    <3>3. CASE b \in Range(chan)
      BY <1>1, <2>2, <3>3
    <3>4. ASSUME NEW i \in Ids, responders[i] = b
          PROVE  i # n
      BY <1>3, <3>4 DEF Calls, None
    <3>5. QED
      BY <1>6, <3>2, <3>3, <3>4
  <2>3. QED
    BY <2>1, <2>2
<1>14. ClientEnded' /\ ResponderKept'
  BY <1>2 DEF ClientEnded, ResponderKept, TowerInv
<1>15. Expected'
  <2>1. Expected /\ panic = "none"
    BY <1>2 DEF TowerInv
  <2>2. \A i \in Ids : Alive(i) => Alive(i)'
    BY <1>9 DEF Alive
  <2>3. p \in net' => Alive(n)'
    BY <1>3 DEF Alive, AllPackets
  <2>4. ASSUME NEW i \in Ids, responders'[i] # None
        PROVE  Alive(i)' \/ i \in lost'
    <3>1. CASE i = n
      BY <1>1, <1>7, <2>3, <2>4, <3>1
    <3>2. CASE i # n
      BY <1>6, <2>1, <2>2, <2>4, <3>2 DEF Expected
    <3>3. QED
      BY <3>1, <3>2
  <2>5. sending' # NoSend /\ sending'.ok => Alive(n)' \/ n \in lost'
    BY <1>7, <2>3
  <2>6. ASSUME NEW q \in AllPackets', q.id # Error
        PROVE  responders'[q.id] # None \/ q.id \in cleared' \/ (sending' # NoSend /\ q.id = n)
    <3>1. CASE q = p /\ q \notin AllPackets
      BY <1>1, <1>3, <1>7, <1>9, <3>1
    <3>2. CASE q \in AllPackets
      <4>1. q.id \in Ids /\ q.id # n
        BY <1>3, <2>6, <3>2, Typed, PacketTypes DEF AllPackets
      <4>2. responders[q.id] # None \/ q.id \in cleared
        BY <1>2, <2>1, <2>6, <3>2 DEF Expected
      <4>3. QED
        BY <1>6, <4>1, <4>2
    <3>3. QED
      BY <1>9, <3>1, <3>2
  <2>7. QED
    BY <1>1, <1>2, <2>4, <2>5, <2>6 DEF Expected, Alive
<1>16. Answers'
  BY <1>1, <1>2, <1>6 DEF TowerInv, Answers
<1>17. QED
  BY <1>1, <1>8, <1>9, <1>10, <1>11, <1>12, <1>13, <1>14, <1>15, <1>16 DEF TowerInv

\* A send that was pending is complete: its responder goes into the map, or the call fails.
LEMMA SendDoneStep ==
  ASSUME TowerInv, SendDone
  PROVE  TowerInv'
<1> PICK c : c = sending.call
  OBVIOUS
<1> PICK n : n = lastId
  OBVIOUS
<1>1. /\ TowerTypes /\ Held /\ panic = "none" /\ sending # NoSend /\ sending' = NoSend
      /\ UNCHANGED <<got, chan, lastId, client, inbox, serverVars, net, lost, fails, panic>>
  BY DEF SendDone, TowerInv
<1>2. /\ c \in Calls /\ n \in Ids /\ responders[n] = None
      /\ c # None /\ client = "up"
  BY <1>1 DEF TowerInv, Pending, ClientEnded, Calls, None
<1>3. /\ c \notin Range(chan) /\ (\A i \in Ids : responders[i] # c)
      /\ call[c] \notin {"idle", "made"}
  BY <1>1, <1>2 DEF Held
<1>4. \/ sending.ok /\ responders' = [responders EXCEPT ![n] = c] /\ call' = call /\ cleared' = cleared
      \/ /\ ~sending.ok /\ responders' = responders /\ call' = Answer({c}, "failed")
         /\ cleared' = cleared \cup {n}
  BY DEF SendDone
<1>5. /\ responders' \in [Ids -> Calls \cup {None}] /\ responders'[n] \in {None, c}
      /\ \A i \in Ids : i # n => responders'[i] = responders[i]
      /\ call' \in [Calls -> Statuses]
      /\ \A b \in Calls : b # c => call'[b] = call[b]
      /\ call'[c] = call[c] \/ (call[c] = "waiting" /\ call'[c] = "failed")
      /\ call'[c] = "waiting" => responders'[n] = c
      /\ sending.ok => responders'[n] = c
      /\ cleared \subseteq cleared' /\ cleared' \subseteq Ids /\ (~sending.ok => n \in cleared')
  <2>1. CASE sending.ok /\ responders' = [responders EXCEPT ![n] = c] /\ call' = call /\ cleared' = cleared
    BY <1>1, <1>2, <2>1 DEF TowerTypes
  <2>2. CASE /\ ~sending.ok /\ responders' = responders /\ call' = Answer({c}, "failed")
             /\ cleared' = cleared \cup {n}
    <3>1. /\ call' \in [Calls -> Statuses]
          /\ (call[c] = "waiting" => call'[c] = "failed") /\ (call[c] # "waiting" => call'[c] = call[c])
          /\ \A b \in Calls : b # c => call'[b] = call[b]
      BY <1>1, <1>2, <2>2 DEF Answer, TowerTypes, Statuses
    <3>2. QED
      BY <1>1, <1>2, <2>2, <3>1 DEF TowerTypes
  <2>3. QED
    BY <1>4, <2>1, <2>2
<1>6. AllPackets' = AllPackets
  BY <1>1 DEF AllPackets, serverVars
<1>7. TowerTypes'
  <2>1. sending' \in [call : Calls \cup {None}, ok : BOOLEAN]
    BY <1>1 DEF NoSend
  <2>2. QED
    BY <1>1, <1>5, <2>1 DEF TowerTypes, serverVars
<1>8. Budget'
  <2>1. Unsent' \subseteq Unsent
    BY <1>1, <1>5 DEF Unsent
  <2>2. QED
    BY <1>1, <2>1, BudgetKept
<1>9. Once'
  BY <1>1 DEF TowerInv, Once, serverVars
<1>10. Numbered'
  <2>1. \A i \in Ids : i > lastId => i # n
    BY <1>1 DEF TowerTypes, Ids
  <2>2. QED
    BY <1>1, <1>5, <1>6, <2>1 DEF TowerInv, Numbered, serverVars
<1>11. Pending'
  BY <1>1 DEF Pending
<1>12. Bodies'
  <2> SUFFICES ASSUME NEW q \in AllPackets, q.id # Error
               PROVE  responders'[q.id] \in {None, q.body}
    BY <1>1, <1>6 DEF Bodies
  <2>1. q.id \in Ids
    BY Typed, PacketTypes DEF AllPackets
  <2>2. CASE q.id = n
    BY <1>1, <1>5, <2>2 DEF TowerInv, Bodies
  <2>3. CASE q.id # n
    BY <1>5, <2>1, <2>3 DEF TowerInv, Bodies
  <2>4. QED
    BY <2>2, <2>3
<1>13. Held'
  <2>1. sending'.call = None
    BY <1>1 DEF NoSend
  <2>2. \A i, j \in Ids : responders'[i] = responders'[j] => i = j \/ responders'[i] = None
    BY <1>1, <1>3, <1>5 DEF Held
  <2>3. \A b \in Range(chan) : b # None /\ \A i \in Ids : responders'[i] # b
    <3>1. \A b \in Range(chan) : b # None
      BY Typed DEF Calls, None
    <3>2. QED
      BY <1>1, <1>3, <1>5, <3>1 DEF Held
  <2>4. ASSUME NEW b \in Calls, call'[b] \in {"idle", "made"}
        PROVE  b # None /\ b \notin Range(chan) /\ \A i \in Ids : responders'[i] # b
    <3>1. b # c /\ call[b] \in {"idle", "made"} /\ b # None
      BY <1>3, <1>5, <2>4 DEF Calls, None
    <3>2. QED
      BY <1>1, <1>5, <3>1 DEF Held
  <2>5. QED
    BY <1>1, <2>1, <2>2, <2>3, <2>4 DEF Held
<1>14. SomeHolder'
  <2> SUFFICES ASSUME NEW b \in Calls, call'[b] = "waiting"
               PROVE  b \in Range(chan) \/ \E i \in Ids : responders'[i] = b
    BY <1>1 DEF SomeHolder, Waiting
  <2>1. CASE b = c
    BY <1>2, <1>5, <2>1
  <2>2. CASE b # c
    <3>1. b # None /\ (b \in Range(chan) \/ \E i \in Ids : responders[i] = b)
      BY <1>5, <2>2 DEF TowerInv, SomeHolder, Waiting, Calls, None
    <3>2. QED
      BY <1>2, <1>5, <3>1
  <2>3. QED
    BY <2>1, <2>2
<1>15. ClientEnded' /\ ResponderKept'
  BY <1>1, <1>2 DEF ClientEnded, ResponderKept, TowerInv
<1>16. Expected'
  <2>1. Expected
    BY DEF TowerInv
  <2>2. \A i \in Ids : Alive(i)' = Alive(i)
    BY <1>6 DEF Alive
  <2>3. ASSUME NEW i \in Ids, responders'[i] # None
        PROVE  Alive(i)' \/ i \in lost'
    <3>1. CASE i = n
      BY <1>1, <1>2, <1>4, <2>1, <2>2, <2>3, <3>1 DEF Expected
    <3>2. CASE i # n
      BY <1>1, <1>5, <2>1, <2>2, <2>3, <3>2 DEF Expected
    <3>3. QED
      BY <3>1, <3>2
  <2>4. ASSUME NEW q \in AllPackets, q.id # Error
        PROVE  responders'[q.id] # None \/ q.id \in cleared'
    <3>1. q.id \in Ids
      BY <2>4, Typed, PacketTypes DEF AllPackets
    <3>2. responders[q.id] # None \/ q.id \in cleared \/ q.id = n
      BY <1>1, <1>2, <2>1, <2>4 DEF Expected
    <3>3. CASE q.id = n
      BY <1>2, <1>5, <3>3
    <3>4. CASE q.id # n
      BY <1>5, <3>1, <3>2, <3>4
    <3>5. QED
      BY <3>3, <3>4
  <2>5. QED
    BY <1>1, <1>6, <2>3, <2>4 DEF Expected
<1>17. Answers'
  <2>1. \A b \in Calls : call'[b] = "ok" <=> call[b] = "ok"
    BY <1>5
  <2>2. QED
    BY <1>1, <2>1 DEF TowerInv, Answers
<1>18. QED
  BY <1>7, <1>8, <1>9, <1>10, <1>11, <1>12, <1>13, <1>14, <1>15, <1>16, <1>17 DEF TowerInv

\* The receive task takes the oldest packet out of the inbox: no other has its id.
LEMMA TakesPacket ==
  ASSUME TowerInv, RecvTask
  PROVE  LET m == Head(inbox)
         IN  /\ m \in AllPackets /\ m \in Responses \cup Errors
             /\ AllPackets' \subseteq AllPackets /\ AllPackets \subseteq AllPackets' \cup {m}
             /\ m.id # Error => \A q \in AllPackets' : q.id # m.id
             /\ inbox' \in Seq(Responses \cup Errors) /\ Len(inbox') <= Capacity
             /\ Once' /\ client = "up" /\ panic = "none"
             /\ UNCHANGED <<chan, sending, lastId, client, serverVars, net, lost, fails>>
<1> DEFINE m == Head(inbox)
<1>1. /\ inbox # <<>> /\ inbox \in Seq(Responses \cup Errors) /\ inbox' = Tail(inbox)
      /\ UNCHANGED <<chan, sending, lastId, client, serverVars, net, lost, fails>>
      /\ client = "up" /\ panic = "none"
  BY Typed DEF RecvTask
<1>2. /\ m \in Responses \cup Errors /\ inbox' \in Seq(Responses \cup Errors)
      /\ Len(inbox') = Len(inbox) - 1 /\ Len(inbox) \in Nat
      /\ Range(inbox) = Range(inbox') \cup {m}
  BY <1>1, RangeTail
<1>3. Once /\ Len(inbox) <= Capacity
  BY DEF TowerInv, TowerTypes
<1>4. NoRepeat(inbox') /\ Apart({m}, Range(inbox'))
  BY <1>1, <1>3, TailOnce DEF Once
<1> HIDE DEF m
<1>5. Once'
  BY <1>1, <1>2, <1>3, <1>4 DEF Once, Apart, serverVars
<1>6. /\ AllPackets' \subseteq AllPackets /\ AllPackets \subseteq AllPackets' \cup {m} /\ m \in AllPackets
  BY <1>1, <1>2 DEF AllPackets, serverVars
<1>7. ASSUME NEW q \in AllPackets', q.id = m.id
      PROVE  m.id = Error
  <2>1. CASE q \in Range(inbox')
    BY <1>4, <1>7, <2>1 DEF Apart
  <2>2. CASE q \in net \/ q \in serving \/ q \in Range(requests)
    BY <1>2, <1>3, <1>7, <2>2 DEF Once, Apart
  <2>3. QED
    BY <1>1, <2>1, <2>2 DEF AllPackets, serverVars
<1>8. Len(inbox') <= Capacity
  BY <1>2, <1>3, TowerAssumption
<1>9. QED
  BY <1>1, <1>2, <1>5, <1>6, <1>7, <1>8 DEF m

\* An error, or a response that finds its responder, or one that does not.
LEMMA RecvTaskStep ==
  ASSUME TowerInv, RecvTask
  PROVE  TowerInv'
<1> PICK m : m = Head(inbox)
  OBVIOUS
<1>1. /\ m \in AllPackets /\ m \in Responses \cup Errors
      /\ AllPackets' \subseteq AllPackets /\ AllPackets \subseteq AllPackets' \cup {m}
      /\ m.id # Error => \A q \in AllPackets' : q.id # m.id
      /\ inbox' \in Seq(Responses \cup Errors) /\ Len(inbox') <= Capacity
      /\ Once' /\ client = "up" /\ panic = "none"
      /\ UNCHANGED <<chan, sending, lastId, client, serverVars, net, lost, fails>>
  BY TakesPacket
<1>2. TowerTypes /\ Held
  BY DEF TowerInv
<1>3. \/ m.id = Error /\ FailAll
      \/ m.id # Error /\ responders[m.id] = None /\ panic' = MissingResponder(m.id)
         /\ UNCHANGED <<call, got, responders, cleared>>
      \/ /\ m.id # Error /\ responders[m.id] # None
         /\ responders' = [responders EXCEPT ![m.id] = None]
         /\ call' = Answer({responders[m.id]}, "ok")
         /\ got' = [got EXCEPT ![responders[m.id]] = IF responders[m.id] \in Waiting THEN m.body ELSE @]
         /\ UNCHANGED <<panic, cleared>>
  BY DEF RecvTask, Respond
\* What the three cases have in common: responders go, and the calls that they
\* held are answered.
<1>4. /\ responders' \in [Ids -> Calls \cup {None}]
      /\ \A i \in Ids : responders'[i] \in {None, responders[i]}
      /\ call' \in [Calls -> Statuses] /\ got' \in [Calls -> Calls \cup {None}]
      /\ \A b \in Calls : call'[b] = call[b] \/ (call[b] = "waiting" /\ call'[b] \in {"ok", "failed"})
      /\ \A i \in Ids : responders[i] # None /\ responders'[i] # responders[i] => call'[responders[i]] # "waiting"
      /\ cleared \subseteq cleared' /\ cleared' \subseteq Ids
      /\ \A i \in Ids : i # m.id => responders'[i] = responders[i] \/ i \in cleared' \/ responders[i] = None
      /\ \A b \in Calls : call'[b] = "ok" <=> got'[b] = b
      /\ \A b \in Calls : got'[b] \in {None, b}
      /\ panic' # "missing" /\ (panic' = "none" => panic' = panic)
  <2>1. CASE m.id = Error /\ FailAll
    <3>1. /\ call' \in [Calls -> Statuses]
          /\ \A b \in Calls : call'[b] = call[b] \/ (call[b] = "waiting" /\ call'[b] = "failed")
          /\ \A i \in Ids : responders[i] # None => call'[responders[i]] # "waiting"
      <4>1. call' = Answer({responders[i] : i \in Ids}, "failed")
        BY <2>1 DEF FailAll
      <4>2. /\ call' \in [Calls -> Statuses]
            /\ \A b \in Calls : call'[b] = call[b] \/ (call[b] = "waiting" /\ call'[b] = "failed")
        BY <1>2, <4>1 DEF Answer, TowerTypes, Statuses
      <4>3. ASSUME NEW i \in Ids, responders[i] # None
            PROVE  call'[responders[i]] # "waiting"
        BY <1>2, <4>1, <4>3 DEF Answer, TowerTypes
      <4>4. QED
        BY <4>2, <4>3
    <3>2. /\ responders' = [i \in Ids |-> None] /\ UNCHANGED <<got, panic>>
          /\ cleared' = cleared \cup {i \in Ids : responders[i] # None}
      BY <2>1 DEF FailAll
    <3>3. /\ \A b \in Calls : call'[b] = "ok" <=> got'[b] = b
          /\ \A b \in Calls : got'[b] \in {None, b}
      BY <3>1, <3>2 DEF TowerInv, Answers
    <3>4. panic' # "missing"
      BY <1>1, <3>2
    <3>5. QED
      BY <1>2, <3>1, <3>2, <3>3, <3>4 DEF TowerTypes
  <2>2. CASE /\ m.id # Error /\ responders[m.id] = None /\ panic' = MissingResponder(m.id)
             /\ UNCHANGED <<call, got, responders, cleared>>
    <3>1. m.id \in cleared \/ (sending # NoSend /\ m.id = lastId)
      BY <1>1, <2>2 DEF TowerInv, Expected
    <3>2. panic' \in {"cleared", "early"}
      BY <2>2, <3>1 DEF MissingResponder
    <3>3. QED
      BY <1>2, <2>2, <3>2 DEF TowerTypes, TowerInv, Answers
  <2>3. CASE /\ m.id # Error /\ responders[m.id] # None
             /\ responders' = [responders EXCEPT ![m.id] = None]
             /\ call' = Answer({responders[m.id]}, "ok")
             /\ got' = [got EXCEPT ![responders[m.id]] = IF responders[m.id] \in Waiting THEN m.body ELSE @]
             /\ UNCHANGED <<panic, cleared>>
    <3> PICK c : c = responders[m.id]
      OBVIOUS
    <3>1. m.id \in Ids /\ c \in Calls /\ c = m.body
      <4>1. m.id \in Ids
        BY <1>1, <2>3, PacketTypes
      <4>2. c \in Calls
        BY <1>2, <2>3, <4>1 DEF TowerTypes
      <4>3. c = m.body
        BY <1>1, <2>3 DEF TowerInv, Bodies
      <4>4. QED
        BY <4>1, <4>2, <4>3
    <3>2. /\ call' \in [Calls -> Statuses]
          /\ (call[c] = "waiting" => call'[c] = "ok") /\ (call[c] # "waiting" => call'[c] = call[c])
          /\ \A b \in Calls : b # c => call'[b] = call[b]
      BY <1>2, <2>3, <3>1 DEF Answer, TowerTypes, Statuses
    <3>3. /\ got' \in [Calls -> Calls \cup {None}]
          /\ got'[c] = IF call[c] = "waiting" THEN c ELSE got[c]
          /\ \A b \in Calls : b # c => got'[b] = got[b]
      BY <1>2, <2>3, <3>1 DEF Waiting, TowerTypes
    <3>4. /\ \A b \in Calls : call'[b] = "ok" <=> got'[b] = b
          /\ \A b \in Calls : got'[b] \in {None, b}
      BY <3>2, <3>3 DEF TowerInv, Answers
    <3>5. /\ responders' \in [Ids -> Calls \cup {None}]
          /\ responders'[m.id] = None /\ \A i \in Ids : i # m.id => responders'[i] = responders[i]
      BY <1>2, <2>3, <3>1 DEF TowerTypes
    <3>6. \A b \in Calls : call'[b] = call[b] \/ (call[b] = "waiting" /\ call'[b] \in {"ok", "failed"})
      BY <3>2
    <3>7. ASSUME NEW i \in Ids, responders[i] # None, responders'[i] # responders[i]
          PROVE  call'[responders[i]] # "waiting"
      <4>1. responders[i] = c
        BY <3>5, <3>7
      <4>2. QED
        BY <3>2, <4>1
    <3>8. panic' # "missing"
      BY <1>1, <2>3
    <3>9. cleared' \subseteq Ids
      BY <1>2, <2>3 DEF TowerTypes
    <3>10. \A i \in Ids : responders'[i] \in {None, responders[i]}
      BY <3>5
    <3>11. QED
      BY <2>3, <3>2, <3>3, <3>4, <3>5, <3>6, <3>7, <3>8, <3>9, <3>10
  <2>4. QED
    BY <1>3, <2>1, <2>2, <2>3
<1>5. TowerTypes'
  BY <1>1, <1>2, <1>4 DEF TowerTypes, serverVars
<1>6. Budget'
  <2>1. Unsent' \subseteq Unsent
    BY <1>1, <1>4 DEF Unsent
  <2>2. QED
    BY <1>1, <2>1, BudgetKept
<1>7. Numbered'
  BY <1>1, <1>4 DEF TowerInv, Numbered, serverVars
<1>8. Pending'
  <2>1. lastId \in Ids /\ responders[lastId] = None => responders'[lastId] = None
    BY <1>4
  <2>2. \A i : Alive(i)' => Alive(i)
    BY <1>1 DEF Alive
  <2>3. QED
    BY <1>1, <2>1, <2>2 DEF TowerInv, Pending
<1>9. Bodies'
  <2> SUFFICES ASSUME NEW q \in AllPackets', q.id # Error
               PROVE  /\ responders'[q.id] \in {None, q.body}
                      /\ sending # NoSend /\ q.id = lastId => q.body = sending.call
    BY <1>1 DEF Bodies
  <2>1. q \in AllPackets /\ q.id \in Ids
    BY <1>1, Typed, PacketTypes DEF AllPackets
  <2>2. QED
    BY <1>4, <2>1 DEF TowerInv, Bodies
<1>10. Held'
  <2>1. \A i, j \in Ids : responders'[i] = responders'[j] => i = j \/ responders'[i] = None
    BY <1>2, <1>4 DEF Held
  <2>2. \A b \in Calls : b # None /\ (call'[b] \in {"idle", "made"} => call[b] \in {"idle", "made"})
    BY <1>4 DEF Calls, None
  <2>3. \A b \in Range(chan) : b # None
    BY Typed DEF Calls, None
  <2>4. QED
    BY <1>1, <1>2, <1>4, <2>1, <2>2, <2>3 DEF Held
<1>11. SomeHolder'
  <2> SUFFICES ASSUME NEW b \in Calls, call'[b] = "waiting"
               PROVE  sending.call = b \/ b \in Range(chan) \/ \E i \in Ids : responders'[i] = b
    BY <1>1 DEF SomeHolder, Waiting
  <2>1. call[b] = "waiting" /\ b # None
    BY <1>4 DEF Calls, None
  <2>2. sending.call = b \/ b \in Range(chan) \/ \E i \in Ids : responders[i] = b
    BY <2>1 DEF TowerInv, SomeHolder, Waiting
  <2>3. QED
    BY <1>4, <2>1, <2>2
<1>12. ClientEnded'
  BY <1>1 DEF ClientEnded
<1>13. Answers' /\ ResponderKept'
  BY <1>4 DEF Answers, ResponderKept
<1>14. Expected'
  <2> SUFFICES ASSUME panic' = "none"
               PROVE  Expected'
    BY DEF Expected
  <2>1. Expected /\ Pending
    BY DEF TowerInv
  <2>2. m.id # Error => responders[m.id] # None
    BY <1>1, <1>3, <1>4 DEF MissingResponder
  <2>3. m.id # Error => responders'[m.id] = None /\ m.id \in Ids
    <3>1. m.id # Error => m.id \in Ids
      BY <1>1, PacketTypes
    <3>2. QED
      BY <1>2, <1>3, <2>2, <3>1 DEF TowerTypes
  <2>4. \A i \in Ids : Alive(i) => Alive(i)' \/ i = m.id
    BY <1>1 DEF Alive
  <2>5. \A i \in Ids : i # Error
    BY DEF Ids, Error
  <2>6. \A i \in Ids : responders'[i] # None => Alive(i)' \/ i \in lost'
    BY <1>1, <1>4, <2>1, <2>3, <2>4, <2>5 DEF Expected
  <2>7. sending # NoSend /\ sending.ok => Alive(lastId)' \/ lastId \in lost'
    <3>1. sending # NoSend => lastId \in Ids /\ lastId # m.id
      BY <2>1, <2>2, <2>5 DEF Pending
    <3>2. QED
      BY <1>1, <2>1, <2>4, <3>1 DEF Expected
  <2>8. ASSUME NEW q \in AllPackets', q.id # Error
        PROVE  responders'[q.id] # None \/ q.id \in cleared' \/ (sending # NoSend /\ q.id = lastId)
    <3>1. q \in AllPackets /\ q.id \in Ids /\ q.id # m.id
      BY <1>1, <2>8, Typed, PacketTypes DEF AllPackets
    <3>2. responders[q.id] # None \/ q.id \in cleared \/ (sending # NoSend /\ q.id = lastId)
      BY <1>1, <2>1, <2>8, <3>1 DEF Expected
    <3>3. QED
      BY <1>4, <3>1, <3>2
  <2>9. QED
    BY <1>1, <2>6, <2>7, <2>8 DEF Expected, Alive
<1>15. QED
  BY <1>1, <1>5, <1>6, <1>7, <1>8, <1>9, <1>10, <1>11, <1>12, <1>13, <1>14 DEF TowerInv

\* The client ends: every call that waits is reset, and nothing holds a call any more.
LEMMA EndClientStep ==
  ASSUME TowerInv, NEW how \in {"stopped", "gone"}, EndClient(how)
  PROVE  TowerInv'
<1>1. /\ client' = how /\ call' = Answer(Calls, "reset")
      /\ chan' = <<>> /\ inbox' = <<>> /\ sending' = NoSend
      /\ responders' = [i \in Ids |-> None] /\ panic = "none"
      /\ UNCHANGED <<got, lastId, serverVars, net, lost, cleared, panic>>
  BY DEF EndClient
<1>2. /\ call' \in [Calls -> Statuses] /\ Range(chan') = {} /\ Range(inbox') = {}
      /\ \A b \in Calls : call'[b] # "waiting" /\ (call'[b] = call[b] \/ (call[b] = "waiting" /\ call'[b] = "reset"))
  <2>1. TowerTypes
    BY DEF TowerInv
  <2>2. QED
    BY <1>1, <2>1, RangeEmpty DEF Answer, TowerTypes, Statuses
<1>3. TowerTypes'
  <2>1. /\ inbox' \in Seq(Responses \cup Errors) /\ Len(inbox') <= Capacity /\ chan' \in Seq(Calls)
        /\ sending' \in [call : Calls \cup {None}, ok : BOOLEAN]
    BY <1>1, TowerAssumption DEF NoSend
  <2>2. QED
    BY <1>1, <1>2, <2>1 DEF TowerInv, TowerTypes, serverVars
<1>4. Budget'
  <2>1. Unsent' \subseteq Unsent
    BY <1>2 DEF Unsent
  <2>2. QED
    BY <1>1, <2>1, BudgetKept
<1>5. AllPackets' \subseteq AllPackets
  BY <1>1, <1>2 DEF AllPackets, serverVars
<1>6. Once'
  BY <1>1, <1>2 DEF TowerInv, Once, NoRepeat, Apart, serverVars
<1>7. Numbered'
  BY <1>1, <1>5 DEF TowerInv, Numbered, serverVars
<1>8. Pending' /\ ClientEnded' /\ SomeHolder'
  BY <1>1, <1>2 DEF Pending, ClientEnded, SomeHolder, Waiting
<1>9. Bodies'
  <2>1. \A q \in AllPackets' : q.id # Error => q.id \in Ids
    BY <1>5, Typed, PacketTypes DEF AllPackets
  <2>2. QED
    BY <1>1, <2>1 DEF Bodies
<1>10. Held'
  <2>1. \A b \in Calls : b # None
    BY DEF Calls, None
  <2>2. QED
    BY <1>1, <1>2, <2>1 DEF Held, NoSend
<1>11. Expected' /\ ResponderKept'
  BY <1>1 DEF Expected, ResponderKept
<1>12. Answers'
  <2>1. \A b \in Calls : call'[b] = "ok" <=> call[b] = "ok"
    BY <1>2
  <2>2. QED
    BY <1>1, <2>1 DEF TowerInv, Answers
<1>13. QED
  BY <1>3, <1>4, <1>6, <1>7, <1>8, <1>9, <1>10, <1>11, <1>12 DEF TowerInv

-----------------------------------------------------------------------------
(* The theorems.                                                           *)

\* What holds the calls, the packets and the answers stay consistent.
THEOREM TowerInvariant == Spec => []TowerInv
<1>1. Init => TowerInv
  BY TowerInvInit
<1>2. TowerInv /\ [Next]_towerVars => TowerInv'
  <2> SUFFICES ASSUME TowerInv, [Next]_towerVars
               PROVE  TowerInv'
    OBVIOUS
  <2>1. ASSUME NEW c \in Calls, Call(c) \/ Cancel(c) \/ Start(c)
        PROVE  TowerInv'
    BY <2>1, CallStep, StartStep
  <2>2. CASE SendTask \/ SendDone \/ RecvTask
    BY <2>2, SendTaskStep, SendDoneStep, RecvTaskStep
  <2>3. CASE ServerReceive \/ ServerReady \/ ServerStop \/ ServerStart
    BY <2>3, ServerReceiveStep, ServerReadyStep, ServerStopStep, ServerStartStep
  <2>4. ASSUME NEW p \in net, Deliver(p)
        PROVE  TowerInv'
    BY <2>4, DeliverStep
  <2>5. ASSUME NEW p \in serving, Reply(p)
        PROVE  TowerInv'
    BY <2>5, ReplyStep
  <2>6. CASE PollReady \/ InjectError
    BY <2>6, PollReadyStep, InjectErrorStep
  <2>7. ASSUME NEW how \in {"stopped", "gone"}, EndClient(how)
        PROVE  TowerInv'
    BY <2>7, EndClientStep
  <2>8. CASE UNCHANGED towerVars
    BY <2>8 DEF towerVars, clientVars, serverVars, TowerInv, TowerTypes, Budget, Unsent, Once, Numbered,
                Pending, Bodies, Held, SomeHolder, ClientEnded, Expected, Answers, ResponderKept,
                AllPackets, Alive, Waiting
  <2>9. QED
    BY <2>1, <2>2, <2>3, <2>4, <2>5, <2>6, <2>7, <2>8 DEF Next, System, Ended
<1>3. QED
  BY <1>1, <1>2, PTL DEF Spec

\* Type correctness; the bound on ids is that on calls.
THEOREM TowerTypeCorrect == Spec => []TypeOK
<1>1. TowerInv => TypeOK
  <2> SUFFICES ASSUME TowerInv
               PROVE  TypeOK
    OBVIOUS
  <2>1. lastId <= MaxCalls
    BY UnsentFinite, TowerAssumption DEF TowerInv, TowerTypes, Budget
  <2>2. lastId \in Ids \cup {0}
    BY <2>1 DEF TowerInv, TowerTypes, Ids
  <2>3. QED
    BY <2>2 DEF TowerInv, TowerTypes, TypeOK, Statuses
<1>2. QED
  BY <1>1, TowerInvariant, PTL

\* A caller receives the result of its own request, which was executed once.
THEOREM AnswersCorrect == Spec => []RightAnswer
<1>1. TowerInv => RightAnswer
  BY DEF TowerInv, Answers, Numbered, RightAnswer
<1>2. QED
  BY <1>1, TowerInvariant, PTL

\* A call that waits is held exactly once, and what it waits for exists or was lost.
THEOREM WaitsCorrect == Spec => []WaitsForSomething
<1>1. TowerInv => WaitsForSomething
  <2> SUFFICES ASSUME TowerInv, NEW c \in Calls, call[c] = "waiting"
               PROVE  /\ client = "up"
                      /\ Cardinality({k \in DOMAIN chan : chan[k] = c})
                           + Cardinality({i \in Ids : responders[i] = c})
                           + (IF sending.call = c THEN 1 ELSE 0) = 1
                      /\ panic = "none" =>
                           \A i \in Ids : responders[i] = c => OnWay(i) \/ i \in lost
    BY DEF WaitsForSomething, Waiting
  <2> DEFINE K == {k \in DOMAIN chan : chan[k] = c}
             R == {i \in Ids : responders[i] = c}
  <2>1. c # None /\ Held
    BY DEF TowerInv, Calls, None
  <2>2. sending.call = c \/ c \in Range(chan) \/ \E i \in Ids : responders[i] = c
    BY DEF TowerInv, SomeHolder, Waiting
  <2>3. client = "up"
    BY <2>1, <2>2, RangeEmpty DEF TowerInv, ClientEnded, NoSend
  <2>4. panic = "none" => \A i \in Ids : responders[i] = c => OnWay(i) \/ i \in lost
    BY <2>1 DEF TowerInv, Expected, OnWay, Alive, AllPackets
  <2>5. \A x : Cardinality({x}) = 1
    BY FS_Singleton
  <2>6. Cardinality({}) = 0
    BY FS_EmptySet
  <2>7. CASE c \in Range(chan)
    <3>1. PICK k \in DOMAIN chan : chan[k] = c
      BY <2>7 DEF Range
    <3>2. K = {k}
      BY <2>1, <3>1 DEF Held
    <3>3. R = {} /\ sending.call # c
      BY <2>1, <2>7 DEF Held
    <3>4. Cardinality(K) = 1 /\ Cardinality(R) = 0
      BY <2>5, <2>6, <3>2, <3>3
    <3>5. QED
      BY <2>3, <2>4, <3>3, <3>4
  <2>8. CASE c \notin Range(chan)
    <3>1. K = {}
      BY <2>8 DEF Range
    <3>2. Cardinality(K) = 0
      BY <2>6, <3>1
    <3>3. CASE sending.call = c
      <4>1. R = {}
        BY <2>1, <3>3 DEF Held
      <4>2. Cardinality(R) = 0
        BY <2>6, <4>1
      <4>3. QED
        BY <2>3, <2>4, <3>2, <3>3, <4>2
    <3>4. CASE sending.call # c
      <4>1. PICK i \in Ids : responders[i] = c
        BY <2>2, <2>8, <3>4
      <4>2. R = {i}
        BY <2>1, <4>1 DEF Held
      <4>3. Cardinality(R) = 1
        BY <2>5, <4>2
      <4>4. QED
        BY <2>3, <2>4, <3>2, <3>4, <4>3
    <3>5. QED
      BY <3>3, <3>4
  <2>9. QED
    BY <2>7, <2>8
<1>2. QED
  BY <1>1, TowerInvariant, PTL

\* A response finds its responder, unless an error or a pending send explains why not.
THEOREM ResponderCorrect == Spec => []ResponderKept
<1>1. TowerInv => ResponderKept
  BY DEF TowerInv
<1>2. QED
  BY <1>1, TowerInvariant, PTL
=============================================================================
