-------------------------------- MODULE Ids --------------------------------
(***************************************************************************)
(* Generation of ids (src/src/id.rs).  Task ids, ports and request ids all *)
(* come from one counter of the simulation, an unsigned integer of limited *)
(* width.                                                                  *)
(***************************************************************************)
EXTENDS Integers, Sequences

CONSTANTS Modulus,     \* 2^64 in the code
          Checked,     \* are overflow checks compiled in?
          MaxGrants    \* bound: calls of Id::new and IdRange::new

ASSUME IdsAssumption ==
  /\ Modulus \in Nat /\ Modulus > 1
  /\ Checked \in BOOLEAN
  /\ MaxGrants \in Nat

Words == 0 .. Modulus - 1

VARIABLES counter,   \* SimCxu.pre_next_global_id
          ranges,    \* the ids and IdRanges made so far; an id is a range of length one
          panic

idVars == <<counter, ranges, panic>>

Init == counter = 0 /\ ranges = <<>> /\ panic = FALSE

\* Without overflow checks, arithmetic wraps around.
Wrap(n) == n % Modulus

Overflows(n) == Checked /\ n \notin Words

Fail == panic' = TRUE /\ UNCHANGED <<counter, ranges>>

\* Mutant: the range begins at the id that was handed out last.
Grant_OffByOne(len) ==
  LET last == Wrap(counter + len)
  IN  /\ counter' = last
      /\ ranges' = Append(ranges, [first |-> counter, last |-> last])
      /\ UNCHANGED panic

\* The counter moves by len, and the last len ids are the caller's.
Grant(len) ==
  LET last  == Wrap(counter + len)
      first == Wrap(last - (len - 1))
  IN  /\ counter' = last
      /\ IF first = 0 \/ last = 0
         THEN panic' = TRUE /\ UNCHANGED ranges        \* NonZeroU64::new(..).unwrap()
         ELSE ranges' = Append(ranges, [first |-> first, last |-> last]) /\ UNCHANGED panic

\* Id::new is Grant(1), IdRange::new asserts that the length is positive.
New(len) ==
  /\ ~panic
  /\ Len(ranges) < MaxGrants
  /\ IF len = 0 \/ Overflows(counter + len) THEN Fail ELSE Grant(len)

\* IdRange::get adds the index to the first id of the range and returns it to the
\* caller, also if it is beyond the range; the addition is checked in every build.
Get(r, index) ==
  /\ ~panic
  /\ IF ranges[r].first + index \notin Words THEN Fail ELSE UNCHANGED idVars

Next ==
  \/ \E len \in Words : New(len)
  \/ \E r \in DOMAIN ranges, index \in Words : Get(r, index)
  \/ panic /\ UNCHANGED idVars
  \/ Len(ranges) = MaxGrants /\ UNCHANGED idVars

Spec == Init /\ [][Next]_idVars

-----------------------------------------------------------------------------
(* Properties.                                                             *)

Members(r) == ranges[r].first .. ranges[r].last

\* Every variable has its type.
TypeOK ==
  /\ counter \in Words
  /\ ranges \in Seq([first : Words, last : Words])
  /\ panic \in BOOLEAN

\* "A unique Id within a simulation" (id.rs:7): ids and ranges made by different
\* calls have no id in common, and none is zero.
UniqueIds ==
  \A r \in DOMAIN ranges :
    /\ 0 \notin Members(r)
    /\ \A q \in DOMAIN ranges : q < r =>
         \A i \in Members(q) : i \notin Members(r)

\* What makes it inductive: the counter is the last id made, in order.
Ordered ==
  \A r \in DOMAIN ranges :
    /\ 0 < ranges[r].first /\ ranges[r].last <= counter
    /\ \A q \in DOMAIN ranges : q < r => ranges[q].last < ranges[r].first

=============================================================================
