---------------------------- MODULE Evidence_proofs ----------------------------
(***************************************************************************)
(* What the extraction agent returns, for any replies of the model and any *)
(* number of retries, and what the checksums catch.                        *)
(***************************************************************************)
EXTENDS Evidence, FiniteSetTheorems, SequenceTheorems, TLAPS

\* The samples a document can have.
Sampled(dt) == {Parsed(r) : r \in RepliesOf[dt]} \cup {FailedSample}

\* The first sample asked for two more.
Unsure == samples[1].success /\ ShouldVote(samples[1].confidence)

Unfinished ==
    /\ result = NoResult
    /\ Len(samples) \in 0..2
    /\ Len(samples) # 0 => Unsure

Finished ==
    /\ attempt = 0
    /\ \/ Len(samples) = 1 /\ result = Answer(samples[1])
       \/ Len(samples) = 3 /\ Unsure /\ result = Answer(Vote(samples))

Spent ==
    /\ calls \in Nat
    /\ Len(samples) <= calls
    /\ Len(samples) = 0 => calls <= attempt
    /\ Len(samples) = 1 => calls <= LLMRetries + 1 + attempt
    /\ Len(samples) = 2 => calls <= 2 * (LLMRetries + 1) + attempt
    /\ Len(samples) = 3 => calls <= 3 * (LLMRetries + 1) + attempt

IInv ==
    /\ doc_type \in DocTypes
    /\ samples \in Seq(Sampled(doc_type))
    /\ attempt \in 0..LLMRetries
    /\ Spent
    /\ IF result.done THEN Finished ELSE Unfinished

-----------------------------------------------------------------------------
LEMMA SampleType ==
    ASSUME NEW dt \in DocTypes, NEW s \in Sampled(dt)
    PROVE  /\ s.success \in BOOLEAN
           /\ s.confidence \in Int
           /\ ~s.success => s.confidence = 0 /\ s.data = NoData
  <1>1. CASE s = FailedSample
    BY <1>1 DEF FailedSample
  <1>2. CASE s # FailedSample
    <2>1. PICK r \in RepliesOf[dt] : s = Parsed(r)
      BY <1>2 DEF Sampled
    <2>2. r.confidence \in Int \cup {NoConfidence}
      BY AgentAssumption DEF IsReply
    <2>3. Confidence(r) \in Int
      BY <2>2 DEF Confidence
    <2> QED
      BY <2>1, <2>3 DEF Parsed
  <1> QED
    BY <1>1, <1>2

LEMMA InitInv == Init => IInv
  <1> SUFFICES ASSUME Init PROVE IInv
    OBVIOUS
  <1>1. samples \in Seq(Sampled(doc_type)) /\ Len(samples) = 0
    BY DEF Init
  <1>2. result = NoResult /\ ~result.done
    BY DEF Init, NoResult
  <1> QED
    BY <1>1, <1>2, AgentAssumption DEF Init, IInv, Spent, Unfinished

LEMMA TakeInv ==
    ASSUME IInv, Extracting, NEW sample \in Sampled(doc_type), Take(sample)
    PROVE  IInv'
  <1> DEFINE taken == Append(samples, sample)
  <1>1. Unfinished /\ samples \in Seq(Sampled(doc_type)) /\ Len(samples) \in 0..2
    BY DEF IInv, Extracting, Unfinished
  <1>2. /\ taken \in Seq(Sampled(doc_type))
        /\ Len(taken) = Len(samples) + 1
        /\ taken[Len(samples) + 1] = sample
        /\ Len(samples) # 0 => taken[1] = samples[1]
    BY <1>1
  <1>3. /\ samples' = taken /\ doc_type' = doc_type /\ attempt' = 0 /\ calls' = calls + 1
        /\ result' = IF Len(taken) < Wanted(taken) THEN result
                     ELSE Answer(IF Len(taken) = 1 THEN sample ELSE Vote(taken))
    BY DEF Take
  <1>4. Spent'
    BY <1>1, <1>2, <1>3, AgentAssumption DEF IInv, Spent
  <1>5. samples' \in Seq(Sampled(doc_type')) /\ doc_type' \in DocTypes
        /\ attempt' \in 0..LLMRetries
    BY <1>2, <1>3, AgentAssumption DEF IInv
  <1>6. ~NoResult.done /\ \A s : Answer(s).done
    BY DEF NoResult, Answer
  <1>7. Wanted(taken) = IF Unsure' THEN 3 ELSE 1
    BY <1>3 DEF Wanted, Unsure
  <1>8. Len(samples) # 0 => Unsure'
    BY <1>1, <1>2, <1>3 DEF Unfinished, Unsure
  <1>9. IF result'.done THEN Finished' ELSE Unfinished'
    <2>1. CASE Len(samples) = 0 /\ ~Unsure'
      <3>1. result' = Answer(sample)
        BY <2>1, <1>2, <1>3, <1>7
      <3>2. samples'[1] = sample /\ Len(samples') = 1
        BY <2>1, <1>2, <1>3
      <3> QED
        BY <3>1, <3>2, <1>3, <1>6 DEF Finished
    <2>2. CASE Unsure' /\ Len(samples) # 2
      <3>1. result' = NoResult
        BY <2>2, <1>1, <1>2, <1>3, <1>7 DEF Unfinished
      <3> QED
        BY <3>1, <2>2, <1>1, <1>2, <1>3, <1>6 DEF Unfinished
    <2>3. CASE Len(samples) = 2
      <3>1. Unsure' /\ Len(taken) = 3
        BY <2>3, <1>2, <1>8
      <3>2. result' = Answer(Vote(samples'))
        BY <3>1, <1>3, <1>7
      <3> QED
        BY <3>1, <3>2, <1>3, <1>6 DEF Finished
    <2> QED
      BY <2>1, <2>2, <2>3, <1>1, <1>8
  <1> QED
    BY <1>4, <1>5, <1>9 DEF IInv

LEMMA NextInv == IInv /\ [Next]_agentVars => IInv'
  <1> SUFFICES ASSUME IInv, [Next]_agentVars PROVE IInv'
    OBVIOUS
  <1>1. CASE ModelReplies
    <2>1. PICK r \in RepliesOf[doc_type] : Take(Parsed(r))
      BY <1>1 DEF ModelReplies
    <2>2. Extracting /\ Parsed(r) \in Sampled(doc_type)
      BY <1>1 DEF ModelReplies, Sampled
    <2> QED
      BY <2>1, <2>2, TakeInv
  <1>2. CASE CallRaises
    <2>1. Extracting /\ Take(FailedSample) /\ FailedSample \in Sampled(doc_type)
      BY <1>2 DEF CallRaises, Sampled
    <2> QED
      BY <2>1, TakeInv
  <1>3. CASE Retry
    <2>1. Unfinished /\ Len(samples) \in Nat
      BY <1>3 DEF IInv, Retry, Extracting
    <2>2. /\ attempt' = attempt + 1 /\ attempt < LLMRetries /\ calls' = calls + 1
          /\ doc_type' = doc_type /\ samples' = samples /\ result' = result
      BY <1>3 DEF Retry
    <2>3. Spent' /\ attempt' \in 0..LLMRetries
      BY <2>1, <2>2, AgentAssumption DEF IInv, Spent
    <2>4. Unfinished' /\ ~result'.done
      BY <2>1, <2>2 DEF Unfinished, Unsure, NoResult
    <2> QED
      BY <2>2, <2>3, <2>4 DEF IInv
  <1>4. CASE NextDocument
    <2>1. doc_type' \in DocTypes /\ samples' = <<>> /\ attempt' = 0 /\ calls' = 0
          /\ result' = NoResult
      BY <1>4 DEF NextDocument
    <2>2. samples' \in Seq(Sampled(doc_type')) /\ Len(samples') = 0
      BY <2>1
    <2>3. ~result'.done
      BY <2>1 DEF NoResult
    <2> QED
      BY <2>1, <2>2, <2>3, AgentAssumption DEF IInv, Spent, Unfinished
  <1>5. CASE UNCHANGED agentVars
    BY <1>5 DEF agentVars, IInv, Spent, Finished, Unfinished, Unsure
  <1> QED
    BY <1>1, <1>2, <1>3, <1>4, <1>5 DEF Next

LEMMA Invariant == Spec => []IInv
  BY InitInv, NextInv, PTL DEF Spec

-----------------------------------------------------------------------------
\* The sample max() picks: none is rated higher.
LEMMA BestOfThree ==
    ASSUME NEW dt \in DocTypes, NEW s \in Seq(Sampled(dt)), Len(s) = 3
    PROVE  \E b \in DOMAIN s :
              /\ BestSample(s) = s[b]
              /\ \A j \in DOMAIN s : s[j].confidence <= s[b].confidence
  <1> DEFINE First(i) == \A j \in DOMAIN s :
                            \/ s[j].confidence < s[i].confidence
                            \/ s[j].confidence = s[i].confidence /\ i <= j
  <1>1. DOMAIN s = 1..3 /\ \A j \in 1..3 : s[j].confidence \in Int
    <2>1. DOMAIN s = 1..3
      OBVIOUS
    <2>2. \A j \in 1..3 : s[j] \in Sampled(dt)
      BY ElementOfSeq
    <2> QED
      BY <2>1, <2>2, SampleType
  <1>2. First(1) \/ First(2) \/ First(3)
    <2> HIDE DEF First
    <2>1. s[1].confidence \in Int /\ s[2].confidence \in Int /\ s[3].confidence \in Int
      BY <1>1
    <2>2. \A i \in 1..3 :
             (\A j \in 1..3 : \/ s[j].confidence < s[i].confidence
                              \/ s[j].confidence = s[i].confidence /\ i <= j)
             => First(i)
      BY <1>1 DEF First
    <2> QED
      BY <2>1, <2>2
  <1>3. \E i \in DOMAIN s : First(i)
    BY <1>1, <1>2
  <1>4. PICK b \in DOMAIN s : b = (CHOOSE i \in DOMAIN s : First(i)) /\ First(b)
    BY <1>3
  <1>5. BestSample(s) = s[b]
    BY <1>4 DEF BestSample
  <1>6. \A j \in DOMAIN s : s[j].confidence <= s[b].confidence
    <2> TAKE j \in DOMAIN s
    <2>1. s[j].confidence < s[b].confidence \/ s[j].confidence = s[b].confidence
      BY <1>4
    <2>2. s[j].confidence \in Int /\ s[b].confidence \in Int
      BY <1>1
    <2> QED
      BY <2>1, <2>2
  <1> QED
    BY <1>5, <1>6

(***************************************************************************)
(* The state is well typed, for any replies and any number of retries.     *)
(***************************************************************************)
THEOREM TypeCorrect == Spec => []TypeOK
  <1>1. IInv => TypeOK
    <2> SUFFICES ASSUME IInv PROVE TypeOK
      OBVIOUS
    <2>1. \A i \in DOMAIN samples : samples[i].success \in BOOLEAN
                                    /\ samples[i].confidence \in Int
      BY SampleType DEF IInv
    <2>2. CASE ~result.done
      <3>1. result = NoResult /\ Len(samples) \in 0..2
        BY <2>2 DEF IInv, Unfinished
      <3>2. result.done \in BOOLEAN /\ result.success \in BOOLEAN /\ result.confidence \in Int
        BY <3>1 DEF NoResult
      <3> QED
        BY <2>1, <3>1, <3>2 DEF IInv, Spent, TypeOK
    <2>3. CASE result.done
      <3>1. Finished /\ samples \in Seq(Sampled(doc_type))
        BY <2>3 DEF IInv
      <3>2. CASE Len(samples) = 1 /\ result = Answer(samples[1])
        BY <2>1, <2>3, <3>2 DEF IInv, Spent, TypeOK, Answer
      <3>3. CASE Len(samples) = 3 /\ result = Answer(Vote(samples))
        <4>1. PICK dt \in DocTypes, s \in Seq(Sampled(doc_type)) :
                  dt = doc_type /\ s = samples
          BY <3>1 DEF IInv
        <4>2. \E i \in DOMAIN s : BestSample(s) = s[i]
          BY <3>1, <3>3, <4>1, BestOfThree
        <4>3. BestSample(samples).confidence \in Int
          BY <2>1, <4>1, <4>2
        <4>4. result.done \in BOOLEAN /\ result.success \in BOOLEAN /\ result.confidence \in Int
          BY <3>3, <4>3 DEF Answer, Vote
        <4> QED
          BY <2>1, <3>3, <4>4 DEF IInv, Spent, TypeOK
      <3> QED
        BY <3>1, <3>2, <3>3 DEF Finished
    <2> QED
      BY <2>2, <2>3
  <1> QED
    BY <1>1, Invariant, PTL

(***************************************************************************)
(* An extraction never costs more calls than its budget, whatever the      *)
(* number of retries is.                                                   *)
(***************************************************************************)
THEOREM BudgetKept == Spec => []CallBudget
  <1>1. IInv => CallBudget
    <2> SUFFICES ASSUME IInv PROVE CallBudget
      OBVIOUS
    <2>1. Len(samples) \in 0..3
      BY DEF IInv, Finished, Unfinished
    <2>2. calls \in Nat /\ attempt \in 0..LLMRetries /\ LLMRetries \in Nat
      BY AgentAssumption DEF IInv, Spent
    <2>3. Len(samples) = 3 => attempt = 0
      BY DEF IInv, Finished, Unfinished
    <2> QED
      BY <2>1, <2>2, <2>3 DEF IInv, Spent, CallBudget
  <1> QED
    BY <1>1, Invariant, PTL

(***************************************************************************)
(* The vote never lowers the rating of the first sample, and never rates   *)
(* its answer by a sample that failed.                                     *)
(***************************************************************************)
THEOREM RatedByOne == Spec => []RatedByASample
  <1>1. IInv => RatedByASample
    <2> SUFFICES ASSUME IInv, result.done PROVE RatedByASample
      BY DEF RatedByASample
    <2>1. Finished /\ samples \in Seq(Sampled(doc_type)) /\ doc_type \in DocTypes
      BY DEF IInv
    <2>2. CASE Len(samples) = 1 /\ result = Answer(samples[1])
      <3>1. samples[1].confidence \in Int /\ 1 \in DOMAIN samples
        BY <2>1, <2>2, SampleType
      <3> QED
        BY <2>2, <3>1 DEF Answer, RatedByASample
    <2>3. CASE Len(samples) = 3 /\ Unsure /\ result = Answer(Vote(samples))
      <3>0. PICK dt \in DocTypes, s \in Seq(Sampled(doc_type)) :
                dt = doc_type /\ s = samples
        BY <2>1
      <3>1. PICK b \in DOMAIN s :
                /\ BestSample(s) = s[b]
                /\ \A j \in DOMAIN s : s[j].confidence <= s[b].confidence
        BY <2>1, <2>3, <3>0, BestOfThree
      <3>2. result.success = TRUE /\ result.confidence = samples[b].confidence
        BY <2>3, <3>0, <3>1 DEF Answer, Vote
      <3>7. DOMAIN samples = 1..3
        BY <2>1, <2>3
      <3>3. \A i \in 1..3 : samples[i] \in Sampled(doc_type)
        BY <2>1, <2>3, ElementOfSeq
      <3>4. \A i \in 1..3 : /\ samples[i].success \in BOOLEAN
                            /\ samples[i].confidence \in Int
                            /\ ~samples[i].success => samples[i].confidence = 0
        BY <2>1, <3>3, SampleType
      <3>5. samples[1].success = TRUE /\ samples[1].confidence >= 60
        BY <2>3, <3>4 DEF Unsure, ShouldVote, SCLow
      <3>6. samples[b].success /\ samples[b].confidence >= samples[1].confidence
        BY <3>0, <3>1, <3>7, <3>4, <3>5
      <3> QED
        BY <3>0, <3>1, <3>2, <3>7, <3>4, <3>5, <3>6 DEF RatedByASample
    <2> QED
      BY <2>1, <2>2, <2>3 DEF Finished
  <1> QED
    BY <1>1, Invariant, PTL

-----------------------------------------------------------------------------
(* The vote of three *)

LEMMA TwoOfThree ==
    \A S \in SUBSET (1..3) : (2 * Cardinality(S) > 3) <=> (\E i, j \in S : i # j)
  <1> TAKE S \in SUBSET (1..3)
  <1>1. IsFiniteSet(S) /\ Cardinality(S) \in Nat
    <2>1. IsFiniteSet(1..3)
      BY FS_Interval, 1 \in Int, 3 \in Int
    <2> QED
      BY <2>1, FS_Subset, FS_CardinalityType
  <1>2. ASSUME NEW i \in S, NEW j \in S, i # j PROVE 2 * Cardinality(S) > 3
    <2>1. Cardinality({i, j}) = 2
      <3>1. PICK T : T = {i}
        OBVIOUS
      <3>2. IsFiniteSet(T) /\ Cardinality(T) = 1
        BY <3>1, FS_Singleton
      <3>3. {i, j} = T \cup {j} /\ j \notin T
        BY <1>2, <3>1
      <3>4. Cardinality(T \cup {j}) = Cardinality(T) + 1
        BY <3>2, <3>3, FS_AddElement
      <3> QED
        BY <3>2, <3>3, <3>4
    <2>2. Cardinality({i, j}) <= Cardinality(S)
      BY <1>1, <1>2, FS_Subset, {i, j} \subseteq S
    <2> QED
      BY <1>1, <2>1, <2>2
  <1>3. ASSUME ~ \E i, j \in S : i # j PROVE Cardinality(S) <= 1
    <2>1. CASE S = {}
      BY <2>1, FS_EmptySet
    <2>2. CASE S # {}
      <3>1. PICK i \in S : S = {i}
        BY <1>3, <2>2
      <3> QED
        BY <3>1, FS_Singleton
    <2> QED
      BY <2>1, <2>2
  <1> QED
    BY <1>1, <1>2, <1>3

LEMMA MajorityOfThree ==
    ASSUME NEW dt, NEW s \in Seq(Sampled(dt)), Len(s) = 3, NEW f, NEW v
    PROVE  Majority(s, f, v) <=>
              \E i, j \in 1..3 : i # j /\ Get(s[i].data, f) = v /\ Get(s[j].data, f) = v
  <1>1. DOMAIN s = 1..3 /\ DOMAIN Ballot(s, f) = 1..3
    BY DEF Ballot
  <1>2. \A i \in 1..3 : Ballot(s, f)[i] = Get(s[i].data, f)
    BY <1>1 DEF Ballot
  <1>3. PICK S : S = {i \in DOMAIN s : Ballot(s, f)[i] = v}
    OBVIOUS
  <1>4. S \subseteq 1..3
    BY <1>1, <1>3
  <1>5. 2 * Cardinality(S) > 3 <=> \E i, j \in S : i # j
    BY <1>4, TwoOfThree, S \in SUBSET (1..3)
  <1>6. Majority(s, f, v) <=> 2 * Cardinality(S) > 3
    BY <1>3 DEF Majority
  <1>7. \A i : i \in S <=> i \in 1..3 /\ Get(s[i].data, f) = v
    BY <1>1, <1>2, <1>3
  <1> QED
    BY <1>5, <1>6, <1>7

\* A value two samples give to a scalar field is the value voted.
LEMMA AgreedIsVoted ==
    ASSUME NEW dt, NEW s \in Seq(Sampled(dt)), Len(s) = 3,
           NEW f, f \notin ListFields,
           NEW i \in 1..3, NEW j \in 1..3, i # j,
           Get(s[i].data, f) = Get(s[j].data, f)
    PROVE  Voted(s, f) = Get(s[i].data, f)
  <1> DEFINE v == Get(s[i].data, f)
  <1>1. DOMAIN s = 1..3 /\ \A k \in 1..3 : Ballot(s, f)[k] = Get(s[k].data, f)
    BY DEF Ballot
  <1>2. Majority(s, f, v)
    BY MajorityOfThree
  <1>3. \A w : Majority(s, f, w) => w = v
    <2> SUFFICES ASSUME NEW w, Majority(s, f, w) PROVE w = v
      OBVIOUS
    <2>1. PICK k, l \in 1..3 : k # l /\ Get(s[k].data, f) = w /\ Get(s[l].data, f) = w
      BY MajorityOfThree
    <2> QED
      BY <2>1
  <1>4. v \in {Ballot(s, f)[k] : k \in DOMAIN s}
    BY <1>1
  <1>5. (CHOOSE w \in {Ballot(s, f)[k] : k \in DOMAIN s} : Majority(s, f, w)) = v
    BY <1>2, <1>3, <1>4
  <1>6. ~Unhashable(s, f) /\ \E k \in DOMAIN s : Majority(s, f, Ballot(s, f)[k])
    BY <1>1, <1>2 DEF Unhashable
  <1> QED
    BY <1>5, <1>6 DEF Voted

(***************************************************************************)
(* Two samples that agree on a scalar outvote the third.                   *)
(***************************************************************************)
THEOREM AgreementKept == Spec => []AgreementStands
  <1>1. IInv => AgreementStands
    <2> SUFFICES ASSUME IInv, result.done, Len(samples) = 3,
                        NEW i \in DOMAIN samples, NEW j \in DOMAIN samples,
                        NEW f \in DOMAIN samples[i].data,
                        i # j, f \notin ListFields, Answers(i, f) = Answers(j, f)
                 PROVE  Get(result.fields, f) = Answers(i, f)
      BY DEF AgreementStands
    <2>1. /\ samples \in Seq(Sampled(doc_type)) /\ DOMAIN samples = 1..3
          /\ result = Answer(Vote(samples))
      BY DEF IInv, Finished
    <2>2. Voted(samples, f) = Answers(i, f)
      BY <2>1, AgreedIsVoted DEF Answers
    <2>3. result.fields = [g \in UNION {DOMAIN samples[k].data : k \in DOMAIN samples} |->
                              Voted(samples, g)]
      BY <2>1 DEF Answer, Vote
    <2>4. f \in UNION {DOMAIN samples[k].data : k \in DOMAIN samples}
      OBVIOUS
    <2> QED
      BY <2>2, <2>3, <2>4 DEF Get
  <1> QED
    BY <1>1, Invariant, PTL

(***************************************************************************)
(* One failed sample does not cost a field both others read.               *)
(***************************************************************************)
THEOREM OneFailureCheap == Spec => []OneFailureCostsNothing
  <1>1. IInv => OneFailureCostsNothing
    <2> SUFFICES ASSUME IInv, NEW i \in DOMAIN samples, NEW j \in DOMAIN samples,
                        result.done, Len(samples) = 3, i # j,
                        samples[i].success, samples[j].success,
                        \E k \in DOMAIN samples : ~samples[k].success,
                        NEW f \in DOMAIN samples[i].data \cap DOMAIN samples[j].data,
                        Null \notin {Answers(i, f), Answers(j, f)}
                 PROVE  Get(result.fields, f) \in {Answers(i, f), Answers(j, f)}
      BY DEF OneFailureCostsNothing
    <2>1. PICK dt \in DocTypes, s \in Seq(Sampled(doc_type)) :
              dt = doc_type /\ s = samples /\ Len(s) = 3
      BY DEF IInv
    <2>2. DOMAIN s = 1..3 /\ result = Answer(Vote(samples)) /\ Unsure
      BY <2>1 DEF IInv, Finished
    <2>3. \A k \in 1..3 : s[k] \in Sampled(doc_type)
      BY <2>1, ElementOfSeq
    <2>4. \A k \in 1..3 : /\ s[k].confidence \in Int
                          /\ ~s[k].success => s[k].confidence = 0 /\ s[k].data = NoData
      BY <2>1, <2>3, SampleType
    <2>5. PICK k \in 1..3 : ~s[k].success /\ k # i /\ k # j
      BY <2>1, <2>2
    <2>6. Get(s[k].data, f) = Null
      BY <2>4, <2>5 DEF Get, NoData
    <2>7. Get(result.fields, f) = Voted(s, f)
      <3>1. result.fields = [g \in UNION {DOMAIN s[m].data : m \in DOMAIN s} |->
                                Voted(s, g)]
        BY <2>1, <2>2 DEF Answer, Vote
      <3>2. f \in UNION {DOMAIN s[m].data : m \in DOMAIN s}
        BY <2>1
      <3> QED
        BY <3>1, <3>2 DEF Get
    <2>8. PICK b \in DOMAIN s : /\ BestSample(s) = s[b]
                                /\ \A m \in DOMAIN s : s[m].confidence <= s[b].confidence
      BY <2>1, BestOfThree
    <2>9. b \in {i, j}
      <3>1. s[1].confidence >= 60
        BY <2>1, <2>2, <2>4 DEF Unsure, ShouldVote, SCLow
      <3>2. s[b].confidence >= 60
        BY <2>2, <2>4, <2>8, <3>1
      <3>3. b # k
        BY <2>2, <2>4, <2>5, <2>8, <3>2
      <3> QED
        BY <2>1, <2>2, <2>5, <2>8, <3>3
    <2>10. ASSUME NEW w, Majority(s, f, w) PROVE w \in {Answers(i, f), Answers(j, f)}
      <3>1. PICK l, m \in 1..3 : l # m /\ Get(s[l].data, f) = w /\ Get(s[m].data, f) = w
        BY <2>1, <2>10, MajorityOfThree
      <3>2. l \in {i, j} \/ m \in {i, j}
        BY <2>1, <2>2, <2>5, <3>1
      <3> QED
        BY <2>1, <3>1, <3>2 DEF Answers
    <2>11. CASE ~Unhashable(s, f) /\ \E m \in DOMAIN s : Majority(s, f, Ballot(s, f)[m])
      <3>1. \E w \in {Ballot(s, f)[m] : m \in DOMAIN s} : Majority(s, f, w)
        BY <2>2, <2>11 DEF Ballot
      <3>2. Majority(s, f, Voted(s, f))
        BY <2>11, <3>1 DEF Voted, Ballot
      <3> QED
        BY <2>7, <2>10, <3>2
    <2>12. CASE ~(~Unhashable(s, f) /\ \E m \in DOMAIN s : Majority(s, f, Ballot(s, f)[m]))
      <3>1. Voted(s, f) = Get(s[b].data, f)
        BY <2>8, <2>12 DEF Voted
      <3> QED
        BY <2>1, <2>7, <2>9, <3>1 DEF Answers
    <2> QED
      BY <2>11, <2>12
  <1> QED
    BY <1>1, Invariant, PTL

-----------------------------------------------------------------------------
(* The checksums *)

LEMMA WeightSeven ==
    \A R \in Nat : \A x, y \in 0..9 : x # y => (7 * x + R) % 10 # (7 * y + R) % 10
  OBVIOUS

LEMMA WeightThree ==
    \A R \in Nat : \A x, y \in 0..9 : x # y => (3 * x + R) % 10 # (3 * y + R) % 10
  OBVIOUS

LEMMA WeightOne ==
    \A R \in Nat : \A x, y \in 0..9 : x # y => (x + R) % 10 # (y + R) % 10
  OBVIOUS

LEMMA MisreadDigit ==
    \A c, i, v : /\ c \in [1..9 -> 0..35] /\ i \in 1..9
                 /\ c[i] \in 0..9 /\ v \in 0..9 /\ v # c[i]
        => Checks!MrzDigit([c EXCEPT ![i] = v]) # Checks!MrzDigit(c)
  <1>10. SUFFICES ASSUME NEW c, NEW i, NEW v,
                         c \in [1..9 -> 0..35] /\ i \in 1..9
                           /\ c[i] \in 0..9 /\ v \in 0..9 /\ v # c[i]
                  PROVE  Checks!MrzDigit([c EXCEPT ![i] = v]) # Checks!MrzDigit(c)
    OBVIOUS
  <1> DEFINE d == [c EXCEPT ![i] = v]
             Sum(f) == 7 * (f[1] + f[4] + f[7]) + 3 * (f[2] + f[5] + f[8])
                         + f[3] + f[6] + f[9]
  <1>11. /\ c[1] \in Nat /\ c[2] \in Nat /\ c[3] \in Nat
         /\ c[4] \in Nat /\ c[5] \in Nat /\ c[6] \in Nat
         /\ c[7] \in Nat /\ c[8] \in Nat /\ c[9] \in Nat
    BY <1>10
  <1>12. /\ i \in {1, 2, 3, 4, 5, 6, 7, 8, 9}
         /\ c[i] \in 0..9 /\ v \in 0..9 /\ v # c[i]
    BY <1>10
  <1>13. \A j \in 1..9 : d[j] = IF j = i THEN v ELSE c[j]
    BY <1>10
  <1>14. SUFFICES Sum(d) % 10 # Sum(c) % 10
    BY DEF Checks!MrzDigit
  <1> HIDE DEF d
  <1>1. CASE i = 1
    <2>1. /\ d[1] = v /\ d[2] = c[2] /\ d[3] = c[3]
          /\ d[4] = c[4] /\ d[5] = c[5] /\ d[6] = c[6]
          /\ d[7] = c[7] /\ d[8] = c[8] /\ d[9] = c[9]
      BY <1>1, <1>13
    <2>2. c[1] \in 0..9 /\ v \in 0..9 /\ v # c[1]
      BY <1>1, <1>12
    <2>3. PICK R \in Nat :
              R = 7 * (c[4] + c[7]) + 3 * (c[2] + c[5] + c[8]) + c[3] + c[6] + c[9]
      BY <1>11
    <2>4. Sum(c) = 7 * c[1] + R /\ Sum(d) = 7 * v + R
      BY <1>11, <2>1, <2>2, <2>3
    <2> HIDE DEF Sum
    <2> QED
      BY <2>2, <2>4, WeightSeven
  <1>4. CASE i = 4
    <2>1. /\ d[1] = c[1] /\ d[2] = c[2] /\ d[3] = c[3]
          /\ d[4] = v /\ d[5] = c[5] /\ d[6] = c[6]
          /\ d[7] = c[7] /\ d[8] = c[8] /\ d[9] = c[9]
      BY <1>4, <1>13
    <2>2. c[4] \in 0..9 /\ v \in 0..9 /\ v # c[4]
      BY <1>4, <1>12
    <2>3. PICK R \in Nat :
              R = 7 * (c[1] + c[7]) + 3 * (c[2] + c[5] + c[8]) + c[3] + c[6] + c[9]
      BY <1>11
    <2>5. Sum(c) = 7 * c[4] + R
      BY <1>11, <2>3
    <2>6. Sum(d) = 7 * v + R
      BY <1>11, <2>1, <2>2, <2>3
    <2>4. Sum(c) = 7 * c[4] + R /\ Sum(d) = 7 * v + R
      BY <2>5, <2>6
    <2> HIDE DEF Sum
    <2> QED
      BY <2>2, <2>4, WeightSeven
  <1>7. CASE i = 7
    <2>1. /\ d[1] = c[1] /\ d[2] = c[2] /\ d[3] = c[3]
          /\ d[4] = c[4] /\ d[5] = c[5] /\ d[6] = c[6]
          /\ d[7] = v /\ d[8] = c[8] /\ d[9] = c[9]
      BY <1>7, <1>13
    <2>2. c[7] \in 0..9 /\ v \in 0..9 /\ v # c[7]
      BY <1>7, <1>12
    <2>3. PICK R \in Nat :
              R = 7 * (c[1] + c[4]) + 3 * (c[2] + c[5] + c[8]) + c[3] + c[6] + c[9]
      BY <1>11
    <2>5. Sum(c) = 7 * c[7] + R
      BY <1>11, <2>3
    <2>6. Sum(d) = 7 * v + R
      BY <1>11, <2>1, <2>2, <2>3
    <2>4. Sum(c) = 7 * c[7] + R /\ Sum(d) = 7 * v + R
      BY <2>5, <2>6
    <2> HIDE DEF Sum
    <2> QED
      BY <2>2, <2>4, WeightSeven
  <1>2. CASE i = 2
    <2>1. /\ d[1] = c[1] /\ d[2] = v /\ d[3] = c[3]
          /\ d[4] = c[4] /\ d[5] = c[5] /\ d[6] = c[6]
          /\ d[7] = c[7] /\ d[8] = c[8] /\ d[9] = c[9]
      BY <1>2, <1>13
    <2>2. c[2] \in 0..9 /\ v \in 0..9 /\ v # c[2]
      BY <1>2, <1>12
    <2>3. PICK R \in Nat :
              R = 7 * (c[1] + c[4] + c[7]) + 3 * (c[5] + c[8]) + c[3] + c[6] + c[9]
      BY <1>11
    <2>4. Sum(c) = 3 * c[2] + R /\ Sum(d) = 3 * v + R
      BY <1>11, <2>1, <2>2, <2>3
    <2> HIDE DEF Sum
    <2> QED
      BY <2>2, <2>4, WeightThree
  <1>5. CASE i = 5
    <2>1. /\ d[1] = c[1] /\ d[2] = c[2] /\ d[3] = c[3]
          /\ d[4] = c[4] /\ d[5] = v /\ d[6] = c[6]
          /\ d[7] = c[7] /\ d[8] = c[8] /\ d[9] = c[9]
      BY <1>5, <1>13
    <2>2. c[5] \in 0..9 /\ v \in 0..9 /\ v # c[5]
      BY <1>5, <1>12
    <2>3. PICK R \in Nat :
              R = 7 * (c[1] + c[4] + c[7]) + 3 * (c[2] + c[8]) + c[3] + c[6] + c[9]
      BY <1>11
    <2>4. Sum(c) = 3 * c[5] + R /\ Sum(d) = 3 * v + R
      BY <1>11, <2>1, <2>2, <2>3
    <2> HIDE DEF Sum
    <2> QED
      BY <2>2, <2>4, WeightThree
  <1>8. CASE i = 8
    <2>1. /\ d[1] = c[1] /\ d[2] = c[2] /\ d[3] = c[3]
          /\ d[4] = c[4] /\ d[5] = c[5] /\ d[6] = c[6]
          /\ d[7] = c[7] /\ d[8] = v /\ d[9] = c[9]
      BY <1>8, <1>13
    <2>2. c[8] \in 0..9 /\ v \in 0..9 /\ v # c[8]
      BY <1>8, <1>12
    <2>3. PICK R \in Nat :
              R = 7 * (c[1] + c[4] + c[7]) + 3 * (c[2] + c[5]) + c[3] + c[6] + c[9]
      BY <1>11
    <2>4. Sum(c) = 3 * c[8] + R /\ Sum(d) = 3 * v + R
      BY <1>11, <2>1, <2>2, <2>3
    <2> HIDE DEF Sum
    <2> QED
      BY <2>2, <2>4, WeightThree
  <1>3. CASE i = 3
    <2>1. /\ d[1] = c[1] /\ d[2] = c[2] /\ d[3] = v
          /\ d[4] = c[4] /\ d[5] = c[5] /\ d[6] = c[6]
          /\ d[7] = c[7] /\ d[8] = c[8] /\ d[9] = c[9]
      BY <1>3, <1>13
    <2>2. c[3] \in 0..9 /\ v \in 0..9 /\ v # c[3]
      BY <1>3, <1>12
    <2>3. PICK R \in Nat :
              R = 7 * (c[1] + c[4] + c[7]) + 3 * (c[2] + c[5] + c[8]) + c[6] + c[9]
      BY <1>11
    <2>4. Sum(c) = c[3] + R /\ Sum(d) = v + R
      BY <1>11, <2>1, <2>2, <2>3
    <2> HIDE DEF Sum
    <2> QED
      BY <2>2, <2>4, WeightOne
  <1>6. CASE i = 6
    <2>1. /\ d[1] = c[1] /\ d[2] = c[2] /\ d[3] = c[3]
          /\ d[4] = c[4] /\ d[5] = c[5] /\ d[6] = v
          /\ d[7] = c[7] /\ d[8] = c[8] /\ d[9] = c[9]
      BY <1>6, <1>13
    <2>2. c[6] \in 0..9 /\ v \in 0..9 /\ v # c[6]
      BY <1>6, <1>12
    <2>3. PICK R \in Nat :
              R = 7 * (c[1] + c[4] + c[7]) + 3 * (c[2] + c[5] + c[8]) + c[3] + c[9]
      BY <1>11
    <2>4. Sum(c) = c[6] + R /\ Sum(d) = v + R
      BY <1>11, <2>1, <2>2, <2>3
    <2> HIDE DEF Sum
    <2> QED
      BY <2>2, <2>4, WeightOne
  <1>9. CASE i = 9
    <2>1. /\ d[1] = c[1] /\ d[2] = c[2] /\ d[3] = c[3]
          /\ d[4] = c[4] /\ d[5] = c[5] /\ d[6] = c[6]
          /\ d[7] = c[7] /\ d[8] = c[8] /\ d[9] = v
      BY <1>9, <1>13
    <2>2. c[9] \in 0..9 /\ v \in 0..9 /\ v # c[9]
      BY <1>9, <1>12
    <2>3. PICK R \in Nat :
              R = 7 * (c[1] + c[4] + c[7]) + 3 * (c[2] + c[5] + c[8]) + c[3] + c[6]
      BY <1>11
    <2>4. Sum(c) = c[9] + R /\ Sum(d) = v + R
      BY <1>11, <2>1, <2>2, <2>3
    <2> HIDE DEF Sum
    <2> QED
      BY <2>2, <2>4, WeightOne
  <1> QED
    BY <1>12, <1>1, <1>2, <1>3, <1>4, <1>5, <1>6, <1>7, <1>8, <1>9

(***************************************************************************)
(* A passport of which one digit of the number was misread never completes.*)
(***************************************************************************)
THEOREM MisreadCaught == Spec => []MisreadIsCaught
  <1>1. MisreadIsCaught
    <2> SUFFICES ASSUME Completed, doc_type = "passport", Given({"mrz_line2"}),
                        Misread(Shown("mrz_line2"))
                 PROVE  FALSE
      BY DEF MisreadIsCaught
    <2>1. PICK line : line = Shown("mrz_line2")
      OBVIOUS
    <2>2. PICK i \in 1..9 :
              /\ line = [PrintedLine EXCEPT !.code[i] = line.code[i]]
              /\ line.code[i] \in (0..9) \ {PrintedLine.code[i]}
              /\ PrintedLine.code[i] \in 0..9
      BY <2>1 DEF Misread
    <2>3. /\ line.code = [PrintedLine.code EXCEPT ![i] = line.code[i]]
          /\ line.digit = PrintedLine.digit
      BY <2>2, PrintedAssumption
    <2>4. Checks!MrzDigit(line.code) # line.digit
      <3>1. PICK v : v = line.code[i]
        OBVIOUS
      <3>2. PICK c : c = PrintedLine.code
        OBVIOUS
      <3>3. Checks!MrzDigit([c EXCEPT ![i] = v]) # Checks!MrzDigit(c)
        BY <2>2, <3>1, <3>2, PrintedAssumption, MisreadDigit
      <3> QED
        BY <2>3, <3>1, <3>2, <3>3, PrintedAssumption
    <2>5. Checks!MrzChecksum(result.fields) = "failed"
      BY <2>1, <2>4 DEF Checks!MrzChecksum, Checks!ValueOf, Checks!Readable, Checks!Outcome,
                        Given, Shown, Get
    <2>6. Verdicts = [mrz_checksum |-> Checks!MrzChecksum(result.fields),
                      passport_date_consistency |-> Checks!PassportDates(result.fields)]
      BY DEF Verdicts, Checks!Verdicts
    <2>7. "mrz_checksum" \in Having("failed")
      BY <2>5, <2>6 DEF Having
    <2>8. TruthReport.failed # {}
      BY <2>7 DEF TruthReport
    <2>9. Truth!DocumentStatus(TruthReport) # "completed"
      <3>1. PICK rep : rep = TruthReport
        OBVIOUS
      <3>2. rep.failed # {}
        BY <2>8, <3>1
      <3>3. Truth!DocumentStatus(rep) # "completed"
        BY <3>2 DEF Truth!DocumentStatus, Truth!Allows
      <3> QED
        BY <3>1, <3>3
    <2> QED
      BY <2>9 DEF Completed
  <1> QED
    BY <1>1, PTL

-----------------------------------------------------------------------------
(* What completes is consistent *)

\* The first alias of a text that has a value decides.
LEMMA FirstText ==
    ASSUME NEW fields, NEW names, NEW n \in Nat \ {0}, DOMAIN names = 1..n,
           Checks!ValueOf(fields, names[1]) # Null
    PROVE  Checks!OrText(fields, names) = Checks!ValueOf(fields, names[1])
  <1> DEFINE given == {i \in DOMAIN names : Checks!ValueOf(fields, names[i]) # Null}
             Least(i) == \A j \in given : i <= j
  <1>1. 1 \in given /\ given \subseteq 1..n
    OBVIOUS
  <1>2. \A i \in given : Least(i) <=> i = 1
    BY <1>1
  <1>3. (CHOOSE i \in given : Least(i)) = 1
    <2> HIDE DEF given, Least
    <2> QED
      BY <1>1, <1>2
  <1>4. Checks!OrText(fields, names)
          = Checks!ValueOf(fields, names[CHOOSE i \in given : Least(i)])
    BY <1>1 DEF Checks!OrText
  <1> QED
    BY <1>3, <1>4

\* And of an amount, unless it is 0.
LEMMA FirstAmount ==
    ASSUME NEW fields, NEW names, NEW n \in Nat \ {0}, DOMAIN names = 1..n,
           Checks!ValueOf(fields, names[1]) \notin {Null, 0}
    PROVE  Checks!OrAmount(fields, names) = Checks!ValueOf(fields, names[1])
  <1> DEFINE given == {i \in DOMAIN names :
                          Checks!ValueOf(fields, names[i]) \notin {Null, 0}}
             Least(i) == \A j \in given : i <= j
  <1>1. 1 \in given /\ given \subseteq 1..n
    OBVIOUS
  <1>2. \A i \in given : Least(i) <=> i = 1
    BY <1>1
  <1>3. (CHOOSE i \in given : Least(i)) = 1
    <2> HIDE DEF given, Least
    <2> QED
      BY <1>1, <1>2
  <1>4. Checks!OrAmount(fields, names)
          = Checks!ValueOf(fields, names[CHOOSE i \in given : Least(i)])
    BY <1>1 DEF Checks!OrAmount
  <1> QED
    BY <1>3, <1>4

LEMMA FirstOfTexts ==
    \A fields, a, b, c : Checks!ValueOf(fields, a) # Null
    => /\ Checks!OrText(fields, <<a, b>>) = Checks!ValueOf(fields, a)
       /\ Checks!OrText(fields, <<a, b, c>>) = Checks!ValueOf(fields, a)
  <1> SUFFICES ASSUME NEW fields, NEW a, NEW b, NEW c, Checks!ValueOf(fields, a) # Null
               PROVE  /\ Checks!OrText(fields, <<a, b>>) = Checks!ValueOf(fields, a)
                      /\ Checks!OrText(fields, <<a, b, c>>) = Checks!ValueOf(fields, a)
    OBVIOUS
  <1>1. PICK two, three : two = <<a, b>> /\ three = <<a, b, c>>
    OBVIOUS
  <1>2. two[1] = a /\ DOMAIN two = 1..2 /\ three[1] = a /\ DOMAIN three = 1..3
    BY <1>1
  <1>3. 2 \in Nat \ {0} /\ 3 \in Nat \ {0}
    OBVIOUS
  <1>4. Checks!ValueOf(fields, two[1]) # Null /\ Checks!ValueOf(fields, three[1]) # Null
    BY <1>2
  <1>5. /\ Checks!OrText(fields, two) = Checks!ValueOf(fields, two[1])
        /\ Checks!OrText(fields, three) = Checks!ValueOf(fields, three[1])
    BY <1>2, <1>3, <1>4, FirstText
  <1> QED
    BY <1>1, <1>2, <1>5

LEMMA FirstOfAmounts ==
    \A fields, a, b, c : Checks!ValueOf(fields, a) \notin {Null, 0}
    => /\ Checks!OrAmount(fields, <<a, b>>) = Checks!ValueOf(fields, a)
       /\ Checks!OrAmount(fields, <<a, b, c>>) = Checks!ValueOf(fields, a)
  <1> SUFFICES ASSUME NEW fields, NEW a, NEW b, NEW c,
                      Checks!ValueOf(fields, a) \notin {Null, 0}
               PROVE  /\ Checks!OrAmount(fields, <<a, b>>) = Checks!ValueOf(fields, a)
                      /\ Checks!OrAmount(fields, <<a, b, c>>) = Checks!ValueOf(fields, a)
    OBVIOUS
  <1>1. PICK two, three : two = <<a, b>> /\ three = <<a, b, c>>
    OBVIOUS
  <1>2. two[1] = a /\ DOMAIN two = 1..2 /\ three[1] = a /\ DOMAIN three = 1..3
    BY <1>1
  <1>3. 2 \in Nat \ {0} /\ 3 \in Nat \ {0}
    OBVIOUS
  <1>4. /\ Checks!ValueOf(fields, two[1]) \notin {Null, 0}
        /\ Checks!ValueOf(fields, three[1]) \notin {Null, 0}
    BY <1>2
  <1>5. /\ Checks!OrAmount(fields, two) = Checks!ValueOf(fields, two[1])
        /\ Checks!OrAmount(fields, three) = Checks!ValueOf(fields, three[1])
    BY <1>2, <1>3, <1>4, FirstAmount
  <1> QED
    BY <1>1, <1>2, <1>5

\* A running balance in the last row is the closing balance, whatever the rows above say.
LEMMA LastRowCloses ==
    ASSUME NEW opening, NEW rows \in Contents.transactions, rows # <<>>,
           rows[Len(rows)].balance # Null
    PROVE  Checks!ClosingBy(opening, rows) = rows[Len(rows)].balance
  <1> DEFINE running == {i \in DOMAIN rows : rows[i].balance # Null}
             Last(i) == \A j \in running : i >= j
  <1>1. PICK n : n = Len(rows)
    OBVIOUS
  <1>2. n \in Nat \ {0} /\ DOMAIN rows = 1..n
    BY <1>1 DEF Contents
  <1>3. n \in running /\ running \subseteq 1..n
    BY <1>1, <1>2
  <1>4. \A i \in running : Last(i) <=> i = n
    BY <1>2, <1>3
  <1>5. (CHOOSE i \in running : Last(i)) = n
    <2> HIDE DEF running, Last
    <2> QED
      BY <1>3, <1>4
  <1>6. Checks!ClosingBy(opening, rows) = rows[CHOOSE i \in running : Last(i)].balance
    BY <1>3 DEF Checks!ClosingBy
  <1> QED
    BY <1>1, <1>5, <1>6

\* What the vote answers for a field is Null or what a sample answered.
LEMMA VotedByASample ==
    ASSUME NEW dt \in DocTypes, NEW s \in Seq(Sampled(dt)), Len(s) = 3, NEW f
    PROVE  Voted(s, f) = Null \/ \E i \in DOMAIN s : Voted(s, f) = Get(s[i].data, f)
  <1>1. CASE ~Unhashable(s, f) /\ \E m \in DOMAIN s : Majority(s, f, Ballot(s, f)[m])
    <2>1. \E w \in {Ballot(s, f)[m] : m \in DOMAIN s} : Majority(s, f, w)
      BY <1>1
    <2>2. Voted(s, f) \in {Ballot(s, f)[m] : m \in DOMAIN s}
      BY <1>1, <2>1 DEF Voted
    <2> QED
      BY <2>2 DEF Ballot
  <1>2. CASE ~(~Unhashable(s, f) /\ \E m \in DOMAIN s : Majority(s, f, Ballot(s, f)[m]))
    <2>1. \E b \in DOMAIN s : BestSample(s) = s[b]
      BY BestOfThree
    <2> QED
      BY <1>2, <2>1 DEF Voted
  <1> QED
    BY <1>1, <1>2

\* The values a sample has.
LEMMA SampledContents ==
    ASSUME NEW dt \in DocTypes, NEW s \in Sampled(dt), NEW f \in DOMAIN Contents
    PROVE  Get(s.data, f) \in {Null, Garbled, Number} \cup Contents[f]
  <1>1. CASE s = FailedSample
    BY <1>1 DEF FailedSample, NoData, Get
  <1>2. CASE s # FailedSample
    <2>1. PICK r \in RepliesOf[dt] : s = Parsed(r)
      BY <1>2 DEF Sampled
    <2>2. s.data = r.fields
      BY <2>1 DEF Parsed
    <2>3. f \in DOMAIN r.fields => r.fields[f] \in {Null, Garbled, Number} \cup Contents[f]
      BY ValuesAssumption
    <2> QED
      BY <2>2, <2>3 DEF Get
  <1> QED
    BY <1>1, <1>2

\* So has the extraction.
LEMMA ShownContents ==
    IInv /\ result.done
    => \A f \in DOMAIN Contents : Shown(f) \in {Null, Garbled, Number} \cup Contents[f]
  <1> SUFFICES ASSUME IInv, result.done, NEW f \in DOMAIN Contents
               PROVE  Shown(f) \in {Null, Garbled, Number} \cup Contents[f]
    OBVIOUS
  <1>1. PICK dt \in DocTypes, s \in Seq(Sampled(doc_type)) : dt = doc_type /\ s = samples
    BY DEF IInv
  <1>2. \A i \in DOMAIN s : Get(s[i].data, f) \in {Null, Garbled, Number} \cup Contents[f]
    <2>1. \A i \in DOMAIN s : s[i] \in Sampled(dt)
      BY <1>1
    <2> QED
      BY <2>1, SampledContents
  <1>3. CASE Len(s) = 1 /\ result = Answer(s[1])
    <2>1. Shown(f) = Get(s[1].data, f) /\ 1 \in DOMAIN s
      BY <1>3 DEF Shown, Answer
    <2> QED
      BY <1>2, <2>1
  <1>4. CASE Len(s) = 3 /\ result = Answer(Vote(s))
    <2>1. result.fields = [g \in UNION {DOMAIN s[k].data : k \in DOMAIN s} |-> Voted(s, g)]
      BY <1>4 DEF Answer, Vote
    <2>2. Shown(f) \in {Null, Voted(s, f)}
      BY <2>1 DEF Shown, Get
    <2>3. Voted(s, f) = Null \/ \E i \in DOMAIN s : Voted(s, f) = Get(s[i].data, f)
      BY <1>1, <1>4, VotedByASample
    <2> QED
      BY <1>2, <2>2, <2>3
  <1> QED
    BY <1>1, <1>3, <1>4 DEF IInv, Finished

\* No verifier of a completed document reports a failure.
LEMMA CompletedHasNoFailure ==
    Completed => result.done /\ \A v \in DOMAIN Verdicts : Verdicts[v] # "failed"
  <1> SUFFICES ASSUME Completed
               PROVE  result.done /\ \A v \in DOMAIN Verdicts : Verdicts[v] # "failed"
    OBVIOUS
  <1>1. PICK rep : rep = TruthReport
    OBVIOUS
  <1>2. Truth!DocumentStatus(rep) = "completed"
    BY <1>1 DEF Completed
  <1>3. rep.failed = {}
    <2>1. rep.failed # {} => Truth!DocumentStatus(rep) = "verification_failed"
      BY DEF Truth!DocumentStatus, Truth!Allows
    <2> QED
      BY <1>2, <2>1
  <1>4. Having("failed") = {}
    BY <1>1, <1>3 DEF TruthReport
  <1> QED
    BY <1>4 DEF Having, Completed

LEMMA ShownIsChecked == \A f : Checks!ValueOf(result.fields, f) = Shown(f)
  BY DEF Checks!ValueOf, Shown, Get

(***************************************************************************)
(* What a completed document shows under the names the verifiers prefer is *)
(* consistent, whichever sample each field was voted from.                 *)
(***************************************************************************)
THEOREM CompletedConsistent == Spec => []CompletedIsConsistent
  <1>1. IInv => CompletedIsConsistent
    <2> SUFFICES ASSUME IInv, Completed PROVE CompletedIsConsistent
      BY DEF CompletedIsConsistent
    <2>1. result.done /\ \A v \in DOMAIN Verdicts : Verdicts[v] # "failed"
      BY CompletedHasNoFailure
    <2>2. CASE doc_type = "gst_invoice"
      <3> SUFFICES InvoiceAddsUp
        BY <2>2 DEF CompletedIsConsistent
      <3> SUFFICES ASSUME Given({"subtotal", "tax_amount", "invoice_total"}),
                          0 \notin {Shown("subtotal"), Shown("tax_amount"),
                                    Shown("invoice_total")}
                   PROVE  Shown("subtotal") + Shown("tax_amount") = Shown("invoice_total")
        BY DEF InvoiceAddsUp
      <3>1. PICK fields : fields = result.fields
        OBVIOUS
      <3>2. \A f : Checks!ValueOf(fields, f) = Shown(f)
        BY <3>1, ShownIsChecked
      <3>3. Checks!OrAmount(fields, <<"subtotal", "taxable_value">>) = Shown("subtotal")
        BY <3>2, FirstOfAmounts DEF Given
      <3>4. Checks!OrAmount(fields, <<"tax_amount", "total_tax">>) = Shown("tax_amount")
        BY <3>2, FirstOfAmounts DEF Given
      <3>5. Checks!OrAmount(fields, <<"invoice_total", "total_amount", "grand_total">>)
              = Shown("invoice_total")
        BY <3>2, FirstOfAmounts DEF Given
      <3>6. Verdicts = [gstin_checksum |-> Checks!GstinChecksum(fields),
                        invoice_total_consistency |-> Checks!InvoiceTotal(fields)]
        BY <2>2, <3>1 DEF Verdicts, Checks!Verdicts
      <3>7. Checks!InvoiceTotal(fields) # "failed"
        BY <2>1, <3>6
      <3> QED
        BY <3>3, <3>4, <3>5, <3>7
           DEF Checks!InvoiceTotal, Checks!Readable, Checks!Outcome, Given
    <2>3. CASE doc_type = "bank_statement"
      <3> SUFFICES StatementCloses
        BY <2>3 DEF CompletedIsConsistent
      <3>1. PICK fields : fields = result.fields
        OBVIOUS
      <3>2. \A f : Checks!ValueOf(fields, f) = Shown(f)
        BY <3>1, ShownIsChecked
      <3>3. Verdicts = [balance_arithmetic |-> Checks!BalanceArithmetic(fields),
                        statement_period_ordering |-> Checks!StatementPeriod(fields)]
        BY <2>3, <3>1 DEF Verdicts, Checks!Verdicts
      <3>4. Checks!BalanceArithmetic(fields) # "failed" /\ Checks!StatementPeriod(fields) # "failed"
        BY <2>1, <3>3
      <3>5. ASSUME Given({"statement_period_start", "statement_period_end"})
            PROVE  Shown("statement_period_start") < Shown("statement_period_end")
        <4>1. Checks!OrText(fields, <<"statement_period_start", "statement_start_date",
                                      "period_start">>) = Shown("statement_period_start")
          BY <3>2, <3>5, FirstOfTexts DEF Given
        <4>2. Checks!OrText(fields, <<"statement_period_end", "statement_end_date",
                                      "period_end">>) = Shown("statement_period_end")
          BY <3>2, <3>5, FirstOfTexts DEF Given
        <4> QED
          BY <3>4, <3>5, <4>1, <4>2
             DEF Checks!StatementPeriod, Checks!Readable, Checks!Outcome, Given
      <3>6. ASSUME Given({"opening_balance", "closing_balance", "transactions"}),
                   NEW rows, rows = Shown("transactions"), rows # <<>>,
                   rows[Len(rows)].balance # Null
            PROVE  rows[Len(rows)].balance = Shown("closing_balance")
        <4>1. rows \in Contents.transactions
          <5>1. "transactions" \in DOMAIN Contents
            BY DEF Contents
          <5>2. rows \in {Null, Garbled, Number} \cup Contents["transactions"]
            BY <2>1, <3>6, <5>1, ShownContents
          <5> QED
            BY <3>6, <5>2 DEF Given
        <4>2. PICK opening, closing :
                  opening = Shown("opening_balance") /\ closing = Shown("closing_balance")
          OBVIOUS
        <4>3. /\ Checks!OrBalance(fields, "opening_balance", "opening") = opening
              /\ Checks!OrBalance(fields, "closing_balance", "closing") = closing
          BY <3>2, <3>6, <4>2 DEF Checks!OrBalance, Given
        <4>4. Checks!ClosingBy(opening, rows) = closing
          BY <3>2, <3>4, <3>6, <4>2, <4>3
             DEF Checks!BalanceArithmetic, Checks!Readable, Checks!Outcome, Given
        <4> QED
          BY <3>6, <4>1, <4>2, <4>4, LastRowCloses
      <3> QED
        BY <3>5, <3>6 DEF StatementCloses
    <2>4. CASE doc_type = "salary_slip"
      <3> SUFFICES SlipAddsUp
        BY <2>4 DEF CompletedIsConsistent
      <3> SUFFICES ASSUME Given({"basic_salary", "gross_salary"}), Shown("allowances") = Null,
                          0 \notin {Shown("basic_salary"), Shown("gross_salary")}
                   PROVE  Shown("basic_salary") = Shown("gross_salary")
        BY DEF SlipAddsUp
      <3>1. PICK fields : fields = result.fields
        OBVIOUS
      <3>2. \A f : Checks!ValueOf(fields, f) = Shown(f)
        BY <3>1, ShownIsChecked
      <3>3. Checks!OrAmount(fields, <<"basic_salary", "basic">>) = Shown("basic_salary")
        BY <3>2, FirstOfAmounts DEF Given
      <3>4. Checks!OrAmount(fields, <<"gross_salary", "gross">>) = Shown("gross_salary")
        BY <3>2, FirstOfAmounts DEF Given
      <3>5. Verdicts = [gross_consistency |-> Checks!GrossConsistency(fields),
                        pan_validation |->
                            Checks!PanValidation(fields, <<"pan", "employee_pan">>)]
        BY <2>4, <3>1 DEF Verdicts, Checks!Verdicts
      <3>6. Checks!GrossConsistency(fields) # "failed"
        BY <2>1, <3>5
      <3>7. Shown("basic_salary") \in Int
        <4>1. "basic_salary" \in DOMAIN Contents /\ Contents["basic_salary"] = Int
          BY DEF Contents
        <4>2. Shown("basic_salary") \in {Null, Garbled, Number} \cup Int
          BY <2>1, <4>1, ShownContents
        <4> QED
          BY <4>2 DEF Given
      <3>8. Shown("basic_salary") + 0 = Shown("gross_salary")
        BY <3>2, <3>3, <3>4, <3>6, ValuesAssumption
           DEF Checks!GrossConsistency, Checks!Readable, Checks!Outcome, Given
      <3> QED
        BY <3>7, <3>8
    <2>5. CASE doc_type = "itr"
      <3> SUFFICES YearsFollow
        BY <2>5 DEF CompletedIsConsistent
      <3> SUFFICES ASSUME Given({"assessment_year", "financial_year"})
                   PROVE  Shown("assessment_year") = Shown("financial_year") + 1
        BY DEF YearsFollow
      <3>1. PICK fields : fields = result.fields
        OBVIOUS
      <3>2. \A f : Checks!ValueOf(fields, f) = Shown(f)
        BY <3>1, ShownIsChecked
      <3>3. Checks!OrText(fields, <<"assessment_year", "ay">>) = Shown("assessment_year")
        BY <3>2, FirstOfTexts DEF Given
      <3>4. Checks!OrText(fields, <<"financial_year", "fy">>) = Shown("financial_year")
        BY <3>2, FirstOfTexts DEF Given
      <3>5. Verdicts = [pan_validation |->
                            Checks!PanValidation(fields, <<"pan", "pan_number">>),
                        ay_fy_consistency |-> Checks!AyFyConsistency(fields)]
        BY <2>5, <3>1 DEF Verdicts, Checks!Verdicts
      <3>6. Checks!AyFyConsistency(fields) # "failed"
        BY <2>1, <3>5
      <3> QED
        BY <3>3, <3>4, <3>6 DEF Checks!AyFyConsistency, Checks!Outcome, Given
    <2>6. CASE doc_type = "property_deed"
      <3> SUFFICES DeedIsOrdered
        BY <2>6 DEF CompletedIsConsistent
      <3> SUFFICES ASSUME Given({"execution_date", "registration_date"})
                   PROVE  Shown("execution_date") <= Shown("registration_date")
        BY DEF DeedIsOrdered
      <3>1. PICK fields : fields = result.fields
        OBVIOUS
      <3>2. \A f : Checks!ValueOf(fields, f) = Shown(f)
        BY <3>1, ShownIsChecked
      <3>3. Checks!OrText(fields, <<"execution_date", "deed_date">>) = Shown("execution_date")
        BY <3>2, FirstOfTexts DEF Given
      <3>4. Verdicts = [deed_date_consistency |-> Checks!DeedDates(fields)]
        BY <2>6, <3>1 DEF Verdicts, Checks!Verdicts
      <3>5. Checks!DeedDates(fields) # "failed"
        BY <2>1, <3>4
      <3> QED
        BY <3>2, <3>3, <3>5
           DEF Checks!DeedDates, Checks!Readable, Checks!Outcome, Given
    <2> QED
      BY <2>2, <2>3, <2>4, <2>5, <2>6 DEF CompletedIsConsistent
  <1> QED
    BY <1>1, Invariant, PTL
=============================================================================
