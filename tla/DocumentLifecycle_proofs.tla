----------------------- MODULE DocumentLifecycle_proofs -----------------------
(***************************************************************************)
(* What the abstract life of a document guarantees to a reader of it.      *)
(***************************************************************************)
EXTENDS DocumentLifecycle, TLAPS

LEMMA LastType ==
    ASSUME LifecycleType, NEW d \in Docs, recorded[d] # <<>>
    PROVE  Last(d) \in Outcomes
<1>1. recorded[d] \in Seq(Outcomes)
  BY DEF LifecycleType
<1>2. Len(recorded[d]) \in Nat /\ Len(recorded[d]) # 0
  BY <1>1
<1>3. QED
  BY <1>1, <1>2 DEF Last

LEMMA InitConsistent == Init => LifecycleType /\ Consistent
<1>1. "queued" \notin Outcomes
  BY DEF Outcomes
<1>2. <<>> \in Seq(Outcomes)
  OBVIOUS
<1>3. QED
  BY <1>1, <1>2 DEF Init, Consistent, LifecycleType

LEMMA NextConsistent ==
    LifecycleType /\ Consistent /\ [Next]_lifecycle => LifecycleType' /\ Consistent'
<1> SUFFICES ASSUME LifecycleType, Consistent, [Next]_lifecycle
             PROVE  LifecycleType' /\ Consistent'
  OBVIOUS
<1>1. ASSUME NEW d \in Docs, NEW outcome \in Outcomes, Record(d, outcome)
      PROVE  LifecycleType' /\ Consistent'
  <2> DEFINE longer == Append(recorded[d], outcome)
  <2>1. /\ longer \in Seq(Outcomes) /\ longer # <<>>
        /\ longer[Len(longer)] = outcome
    BY DEF LifecycleType
  <2>2. recorded' = [recorded EXCEPT ![d] = longer]
    BY <1>1 DEF Record
  <2> HIDE DEF longer
  <2>3. recorded'[d] = longer /\ \A e \in Docs \ {d} : recorded'[e] = recorded[e]
    BY <2>2 DEF LifecycleType
  <2>4. LifecycleType'
    BY <1>1, <2>1, <2>2 DEF LifecycleType, Record
  <2>5. ASSUME NEW e \in Docs
        PROVE  /\ stored'[e] => recorded'[e] # <<>>
               /\ status'[e] \in Outcomes =>
                     stored'[e] /\ recorded'[e][Len(recorded'[e])] = status'[e]
    <3>1. CASE e = d
      BY <1>1, <2>1, <2>3, <3>1 DEF Consistent, Record
    <3>2. CASE e # d
      BY <1>1, <2>3, <3>2 DEF Consistent, Record, Last
    <3>3. QED
      BY <3>1, <3>2
  <2>6. QED
    BY <2>4, <2>5 DEF Consistent, Last
<1>2. ASSUME NEW d \in Docs, Store(d) PROVE LifecycleType' /\ Consistent'
  BY <1>2 DEF Store, LifecycleType, Consistent, Last
<1>3. ASSUME NEW d \in Docs, Publish(d) PROVE LifecycleType' /\ Consistent'
  <2>1. Last(d) \in Outcomes
    BY <1>3, LastType DEF Publish, Consistent
  <2>2. LifecycleType'
    BY <1>3, <2>1 DEF Publish, LifecycleType
  <2>3. QED
    BY <1>3, <2>1, <2>2 DEF Publish, LifecycleType, Consistent, Last
<1>4. ASSUME NEW d \in Docs, Break(d) PROVE LifecycleType' /\ Consistent'
  BY <1>4 DEF Break, Outcomes, LifecycleType, Consistent, Last
<1>5. CASE UNCHANGED lifecycle
  BY <1>5 DEF lifecycle, LifecycleType, Consistent, Last
<1>6. QED
  BY <1>1, <1>2, <1>3, <1>4, <1>5 DEF Next

(***************************************************************************)
(* A published outcome is always backed by its audit row and its object.   *)
(***************************************************************************)
THEOREM PublishedIsBacked == Spec => []Consistent
BY InitConsistent, NextConsistent, PTL DEF Spec

(***************************************************************************)
(* An outcome is never replaced by another.                                *)
(***************************************************************************)
THEOREM OutcomesAreFinal == Spec => OutcomeIsFinal
<1> DEFINE Final == \A d \in Docs : status[d] \in Outcomes =>
                        status'[d] \in {status[d], "persist_failed"}
<1>1. LifecycleType /\ Consistent /\ [Next]_lifecycle => [Final]_lifecycle
  <2> SUFFICES ASSUME LifecycleType, Consistent, Next,
                      NEW d \in Docs, status[d] \in Outcomes
               PROVE  status'[d] \in {status[d], "persist_failed"}
    OBVIOUS
  <2>1. Last(d) = status[d]
    BY DEF Consistent
  <2>2. QED
    BY <2>1 DEF Next, Record, Store, Publish, Break, LifecycleType
<1>2. QED
  BY <1>1, InitConsistent, NextConsistent, PTL DEF Spec, OutcomeIsFinal
=============================================================================
