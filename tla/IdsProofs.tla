----------------------------- MODULE IdsProofs -----------------------------
(***************************************************************************)
(* Ids are unique, for every width of the counter, if overflow checks are  *)
(* compiled in.                                                            *)
(***************************************************************************)
EXTENDS Ids, SequenceTheorems, TLAPS

IdsInv == TypeOK /\ Ordered

\* Arithmetic on words that does not overflow.
LEMMA WrapWord ==
  ASSUME NEW n \in Nat, n < Modulus
  PROVE  Wrap(n) = n
BY IdsAssumption DEF Wrap

\* A call of Id::new or IdRange::new takes ids above all that were made.
LEMMA NewStep ==
  ASSUME Checked, IdsInv, NEW len \in Words, New(len)
  PROVE  IdsInv'
<1> USE IdsAssumption DEF IdsInv, Words
<1>1. CASE len = 0 \/ Overflows(counter + len)
  <2>1. UNCHANGED <<counter, ranges>> /\ panic' = TRUE
    BY <1>1 DEF New, Fail
  <2>2. QED
    BY <2>1 DEF TypeOK, Ordered
<1>2. CASE ~(len = 0 \/ Overflows(counter + len))
  <2>1. Grant(len)
    BY <1>2 DEF New
  <2>2. /\ counter \in Nat /\ len \in Nat /\ len > 0
        /\ counter + len < Modulus
    BY <1>2 DEF TypeOK, Overflows
  <2>3. Wrap(counter + len) = counter + len
    BY <2>2, WrapWord
  <2>4. Wrap((counter + len) - (len - 1)) = counter + 1
    <3>1. (counter + len) - (len - 1) = counter + 1
      BY <2>2
    <3>2. counter + 1 \in Nat /\ counter + 1 < Modulus
      BY <2>2
    <3>3. QED
      BY <3>1, <3>2, WrapWord
  <2>5. /\ counter' = counter + len
        /\ ranges' = Append(ranges, [first |-> counter + 1, last |-> counter + len])
        /\ UNCHANGED panic
    BY <2>1, <2>2, <2>3, <2>4 DEF Grant
  <2>6. ranges \in Seq([first : Words, last : Words])
    BY DEF TypeOK
  <2> DEFINE new == [first |-> counter + 1, last |-> counter + len]
  <2>7. new \in [first : Words, last : Words]
    BY <2>2
  <2>8. /\ Len(ranges') = Len(ranges) + 1
        /\ \A r \in 1 .. Len(ranges) : ranges'[r] = ranges[r]
        /\ ranges'[Len(ranges) + 1] = new
        /\ ranges' \in Seq([first : Words, last : Words])
        /\ DOMAIN ranges = 1 .. Len(ranges) /\ Len(ranges) \in Nat
        /\ DOMAIN ranges' = 1 .. Len(ranges) + 1
    BY <2>5, <2>6, <2>7
  <2>9. TypeOK'
    BY <2>2, <2>5, <2>8 DEF TypeOK
  <2>10. \A r \in 1 .. Len(ranges) : ranges[r] \in [first : Words, last : Words]
    BY <2>6, ElementOfSeq
  <2>11. ASSUME NEW r \in DOMAIN ranges'
         PROVE  /\ 0 < ranges'[r].first /\ ranges'[r].last <= counter'
                /\ \A q \in DOMAIN ranges' : q < r => ranges'[q].last < ranges'[r].first
    <3>1. CASE r = Len(ranges) + 1
      <4>1. ranges'[r].first = counter + 1 /\ ranges'[r].last = counter + len
        BY <2>8, <3>1
      <4>2. \A q \in 1 .. Len(ranges) : ranges[q].last <= counter
        BY <2>8 DEF Ordered
      <4>3. ASSUME NEW q \in DOMAIN ranges', q < r PROVE ranges'[q].last < ranges'[r].first
        <5>1. q \in 1 .. Len(ranges)
          BY <2>8, <3>1, <4>3
        <5>2. QED
          BY <2>2, <2>8, <2>10, <4>1, <4>2, <5>1
      <4>4. QED
        BY <2>2, <2>5, <4>1, <4>3
    <3>2. CASE r \in 1 .. Len(ranges)
      <4>1. /\ 0 < ranges[r].first /\ ranges[r].last <= counter
            /\ \A q \in DOMAIN ranges : q < r => ranges[q].last < ranges[r].first
        BY <2>8, <3>2 DEF Ordered
      <4>2. ASSUME NEW q \in DOMAIN ranges', q < r PROVE ranges'[q].last < ranges'[r].first
        <5>1. q \in 1 .. Len(ranges)
          BY <2>8, <3>2, <4>2
        <5>2. QED
          BY <2>8, <3>2, <4>1, <4>2, <5>1
      <4>3. ranges'[r] = ranges[r] /\ ranges[r].last \in Nat
        BY <2>8, <2>10, <3>2
      <4>4. ranges'[r].last <= counter'
        BY <2>2, <2>5, <4>1, <4>3
      <4>5. QED
        BY <4>1, <4>2, <4>3, <4>4
    <3>3. QED
      BY <2>8, <3>1, <3>2
  <2>12. Ordered'
    BY <2>11 DEF Ordered
  <2>13. QED
    BY <2>9, <2>12
<1>3. QED
  BY <1>1, <1>2

\* The ranges stay disjoint in every step.
LEMMA IdsStep ==
  ASSUME Checked, IdsInv, [Next]_idVars
  PROVE  IdsInv'
<1>1. ASSUME NEW r \in DOMAIN ranges, NEW index \in Words, Get(r, index) PROVE IdsInv'
  <2>1. UNCHANGED <<counter, ranges>> /\ panic' \in BOOLEAN
    BY <1>1 DEF Get, Fail, IdsInv, TypeOK, idVars
  <2>2. QED
    BY <2>1 DEF IdsInv, TypeOK, Ordered
<1>2. CASE UNCHANGED idVars
  BY <1>2 DEF IdsInv, TypeOK, Ordered, idVars
<1>3. QED
  BY <1>1, <1>2, NewStep DEF Next

\* Ids that are in order are disjoint and not zero.
LEMMA OrderedUnique ==
  ASSUME IdsInv
  PROVE  UniqueIds
<1>1. ASSUME NEW r \in DOMAIN ranges
      PROVE  ranges[r].first \in Nat /\ ranges[r].last \in Nat
  <2>1. ranges[r] \in [first : Words, last : Words]
    <3>1. ranges \in Seq([first : Words, last : Words]) /\ r \in 1 .. Len(ranges)
      BY <1>1 DEF IdsInv, TypeOK
    <3>2. QED
      BY <3>1, ElementOfSeq
  <2>2. QED
    BY <2>1, IdsAssumption DEF Words
<1>2. QED
  BY <1>1 DEF IdsInv, Ordered, UniqueIds, Members

\* The initial state.
LEMMA IdsInit ==
  ASSUME Init
  PROVE  IdsInv
<1>1. 0 \in Words
  BY IdsAssumption DEF Words
<1>2. ranges \in Seq([first : Words, last : Words]) /\ DOMAIN ranges = {}
  BY DEF Init
<1>3. QED
  BY <1>1, <1>2 DEF Init, IdsInv, TypeOK, Ordered

\* Every variable has its type (id.rs:20-67): with overflow checks, no word overflows.
THEOREM IdsTypeCorrect ==
  ASSUME Checked
  PROVE  Spec => []TypeOK
<1>1. IdsInv => TypeOK
  BY DEF IdsInv
<1>2. QED
  BY <1>1, IdsInit, IdsStep, PTL DEF Spec

\* "A unique Id within a simulation" (id.rs:7): with overflow checks, no id is made
\* twice by Id::new and IdRange::new (id.rs:22-56), whatever the width of the counter.
THEOREM UniqueCorrect ==
  ASSUME Checked
  PROVE  Spec => []UniqueIds
<1>1. Init => IdsInv
  BY IdsInit
<1>2. IdsInv /\ [Next]_idVars => IdsInv'
  BY IdsStep
<1>3. IdsInv => UniqueIds
  BY OrderedUnique
<1>4. QED
  BY <1>1, <1>2, <1>3, PTL DEF Spec
=============================================================================
