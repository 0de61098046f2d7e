--------------------------- MODULE Ingestion_proofs ---------------------------
(***************************************************************************)
(* Whatever uploads there are and whatever fails: uploads of one content   *)
(* get the same document, no compensating delete takes the object of a     *)
(* registered document while every commit is answered, and every orphan    *)
(* and every failed upload is paid for by a call that failed.              *)
(***************************************************************************)
EXTENDS Ingestion, FiniteSetTheorems, TLAPS

USE DEF Steps, Over, Goto, Reply, SameContent

\* One row for a content: the unique index on hash.
OneRowPerContent == \A d, e \in rows : ContentOf[d] = ContentOf[e] => d = e

\* What a call knows at each of its steps about rows and answers ...
AnswersInv ==
    /\ OneRowPerContent
    /\ \A u \in Uploads :
         /\ step[u] = "registered" => u \in rows
         /\ step[u] \in {"duplicate", "returned"} =>
                answer[u] \in rows /\ ContentOf[answer[u]] = ContentOf[u]

\* ... and about its own row and object.
ObjectsInv ==
    /\ RowHasObject
    /\ \A u \in Uploads :
         /\ step[u] \in {"new", "checked", "stored", "duplicate"} => u \notin rows
         /\ step[u] = "stored" => u \in objects
         /\ step[u] = "failed" /\ spent.answers = 0 => u \notin rows

-----------------------------------------------------------------------------
(***************************************************************************)
(* Counting a bound keeps the counters natural numbers, and an answer that *)
(* was lost stays lost.                                                    *)
(***************************************************************************)
LEMMA SpendType ==
    ASSUME TypeOK, NEW b \in {"faults", "answers", "crashes"}, NEW limit, Spend(b, limit)
    PROVE  /\ spent' \in [faults : Nat, answers : Nat, crashes : Nat]
           /\ spent'.answers = 0 => spent.answers = 0 /\ b # "answers"
<1> DEFINE S == [faults : Nat, answers : Nat, crashes : Nat]
<1>1. spent \in S /\ spent' = [spent EXCEPT ![b] = @ + 1]
  BY DEF TypeOK, Spend
<1>2. CASE b = "faults"
  BY <1>1, <1>2
<1>3. CASE b = "answers"
  BY <1>1, <1>3
<1>4. CASE b = "crashes"
  BY <1>1, <1>4
<1> QED BY <1>2, <1>3, <1>4

LEMMA CrashSpends ==
    ASSUME NEW s \in [faults : Nat, answers : Nat, crashes : Nat]
    PROVE  /\ [s EXCEPT !.crashes = @ + 1] \in [faults : Nat, answers : Nat, crashes : Nat]
           /\ [s EXCEPT !.crashes = @ + 1, !.faults = @ + 1]
                  \in [faults : Nat, answers : Nat, crashes : Nat]
<1>1. s.crashes + 1 \in Nat /\ s.faults + 1 \in Nat
  OBVIOUS
<1> QED BY <1>1

LEMMA InitType == Init => TypeOK
BY DEF Init, TypeOK, Phases

LEMMA NextType == TypeOK /\ [Next]_vars => TypeOK'
<1> SUFFICES ASSUME TypeOK, [Next]_vars PROVE TypeOK'
  OBVIOUS
<1> USE DEF TypeOK
<1>1. ASSUME NEW u \in Uploads, FindByHash(u) PROVE TypeOK'
  BY <1>1 DEF FindByHash
<1>2. ASSUME NEW u \in Uploads, Put(u) PROVE TypeOK'
  <2>1. spent' \in [faults : Nat, answers : Nat, crashes : Nat]
    BY <1>2, SpendType DEF Put, Fault, LostAnswer
  <2> QED BY <1>2, <2>1 DEF Put
<1>3. ASSUME NEW u \in Uploads, Bootstrap(u) PROVE TypeOK'
  <2>1. spent' \in [faults : Nat, answers : Nat, crashes : Nat]
    BY <1>3, SpendType DEF Bootstrap, Fault, LostAnswer
  <2> QED BY <1>3, <2>1 DEF Bootstrap
<1>4. ASSUME NEW u \in Uploads, SafeDelete(u) PROVE TypeOK'
  <2>1. spent' \in [faults : Nat, answers : Nat, crashes : Nat]
    BY <1>4, SpendType DEF SafeDelete, Fault
  <2> QED BY <1>4, <2>1 DEF SafeDelete
<1>5. ASSUME NEW u \in Uploads, Dispatch(u) PROVE TypeOK'
  BY <1>5 DEF Dispatch
<1>6. ASSUME NEW d \in Uploads, Start(d) PROVE TypeOK'
  BY <1>6 DEF Start, Phases
<1>7. ASSUME NEW d \in Uploads, Finish(d) PROVE TypeOK'
  <2>1. spent' \in [faults : Nat, answers : Nat, crashes : Nat]
    BY <1>7, SpendType DEF Finish, Fault
  <2> QED BY <1>7, <2>1 DEF Finish, Phases
<1>8. ASSUME NEW d \in Uploads, Stamp(d) PROVE TypeOK'
  BY <1>8 DEF Stamp, Phases
<1>9. CASE CrashAndRecover
  <2>1. spent' \in [faults : Nat, answers : Nat, crashes : Nat]
    BY <1>9, CrashSpends DEF CrashAndRecover
  <2> QED BY <1>9, <2>1 DEF CrashAndRecover, Stranded
<1>10. CASE UNCHANGED vars
  BY <1>10 DEF vars
<1> QED BY <1>1, <1>2, <1>3, <1>4, <1>5, <1>6, <1>7, <1>8, <1>9, <1>10 DEF Next, Ingest

(***************************************************************************)
(* Every reachable state of the ingestion is well typed.                   *)
(***************************************************************************)
THEOREM TypeCorrect == Spec => []TypeOK
BY InitType, NextType, PTL DEF Spec

-----------------------------------------------------------------------------
LEMMA InitAnswers == Init => AnswersInv
BY DEF Init, AnswersInv, OneRowPerContent

LEMMA NextAnswers == TypeOK /\ AnswersInv /\ [Next]_vars => AnswersInv'
<1> SUFFICES ASSUME TypeOK, AnswersInv, [Next]_vars PROVE AnswersInv'
  OBVIOUS
<1> USE DEF TypeOK, AnswersInv, OneRowPerContent
<1>1. ASSUME NEW u \in Uploads, FindByHash(u) PROVE AnswersInv'
  BY <1>1 DEF FindByHash
<1>2. ASSUME NEW u \in Uploads, Put(u) PROVE AnswersInv'
  BY <1>2 DEF Put
<1>3. ASSUME NEW u \in Uploads, Bootstrap(u) PROVE AnswersInv'
  <2>1. CASE /\ {d \in rows : ContentOf[d] = ContentOf[u]} = {}
             /\ rows' = rows \cup {u}
    BY <1>3, <2>1 DEF Bootstrap
  <2>2. CASE rows' = rows
    BY <1>3, <2>2 DEF Bootstrap
  <2> QED BY <1>3, <2>1, <2>2 DEF Bootstrap
<1>4. ASSUME NEW u \in Uploads, SafeDelete(u) PROVE AnswersInv'
  BY <1>4 DEF SafeDelete
<1>5. ASSUME NEW u \in Uploads, Dispatch(u) PROVE AnswersInv'
  BY <1>5 DEF Dispatch
<1>6. ASSUME NEW d \in Uploads, Start(d) \/ Stamp(d) \/ Finish(d) PROVE AnswersInv'
  BY <1>6 DEF Start, Stamp, Finish
<1>7. CASE CrashAndRecover
  BY <1>7 DEF CrashAndRecover
<1>8. CASE UNCHANGED vars
  BY <1>8 DEF vars
<1> QED BY <1>1, <1>2, <1>3, <1>4, <1>5, <1>6, <1>7, <1>8 DEF Next, Ingest

(***************************************************************************)
(* For any uploads, contents and sources, however calls race, fail and     *)
(* die: whoever is answered for one content is given the same document.    *)
(***************************************************************************)
THEOREM SameContentSameDocument == Spec => []AnswersAgree
<1>1. AnswersInv => AnswersAgree
  BY DEF AnswersInv, OneRowPerContent, AnswersAgree
<1> QED BY <1>1, InitType, NextType, InitAnswers, NextAnswers, PTL DEF Spec

-----------------------------------------------------------------------------
LEMMA InitObjects == Init => ObjectsInv
BY DEF Init, ObjectsInv, RowHasObject

LEMMA NextObjects == TypeOK /\ ObjectsInv /\ [Next]_vars => ObjectsInv'
<1> SUFFICES ASSUME TypeOK, ObjectsInv, [Next]_vars PROVE ObjectsInv'
  OBVIOUS
<1> USE DEF TypeOK, ObjectsInv, RowHasObject
<1>1. ASSUME NEW u \in Uploads, FindByHash(u) PROVE ObjectsInv'
  BY <1>1 DEF FindByHash
<1>2. ASSUME NEW u \in Uploads, Put(u) PROVE ObjectsInv'
  <2>1. spent'.answers = 0 => spent.answers = 0
    BY <1>2, SpendType DEF Put, Fault, LostAnswer
  <2> QED BY <1>2, <2>1 DEF Put
<1>3. ASSUME NEW u \in Uploads, Bootstrap(u) PROVE ObjectsInv'
  <2>1. spent'.answers = 0 =>
            spent.answers = 0 /\ (step'[u] = "failed" => rows' = rows)
    BY <1>3, SpendType DEF Bootstrap, Fault, LostAnswer
  <2> QED BY <1>3, <2>1 DEF Bootstrap
<1>4. ASSUME NEW u \in Uploads, SafeDelete(u) PROVE ObjectsInv'
  <2>1. spent'.answers = 0 => spent.answers = 0
    BY <1>4, SpendType DEF SafeDelete, Fault
  <2> QED BY <1>4, <2>1 DEF SafeDelete
<1>5. ASSUME NEW u \in Uploads, Dispatch(u) PROVE ObjectsInv'
  BY <1>5 DEF Dispatch
<1>6. ASSUME NEW d \in Uploads, Start(d) \/ Stamp(d) \/ Finish(d) PROVE ObjectsInv'
  <2>1. spent'.answers = 0 => spent.answers = 0
    BY <1>6, SpendType DEF Start, Stamp, Finish, Fault
  <2> QED BY <1>6, <2>1 DEF Start, Stamp, Finish
<1>7. CASE CrashAndRecover
  BY <1>7 DEF CrashAndRecover
<1>8. CASE UNCHANGED vars
  BY <1>8 DEF vars
<1> QED BY <1>1, <1>2, <1>3, <1>4, <1>5, <1>6, <1>7, <1>8 DEF Next, Ingest

(***************************************************************************)
(* For any uploads and contents: while every call that took effect was     *)
(* answered, no upload's compensating delete takes the object of a         *)
(* registered document.                                                    *)
(***************************************************************************)
THEOREM ObjectsKept == Spec => []RowHasObject
<1>1. ObjectsInv => RowHasObject
  BY DEF ObjectsInv
<1> QED BY <1>1, InitType, NextType, InitObjects, NextObjects, PTL DEF Spec

-----------------------------------------------------------------------------
Cost == spent.faults + spent.answers

LEMMA SpendCosts ==
    ASSUME TypeOK, NEW b \in {"faults", "answers"}, NEW limit, Spend(b, limit)
    PROVE  Cost' = Cost + 1
<1> DEFINE S == [faults : Nat, answers : Nat, crashes : Nat]
<1>1. spent \in S /\ spent' = [spent EXCEPT ![b] = @ + 1]
  BY DEF TypeOK, Spend
<1>2. CASE b = "faults"
  BY <1>1, <1>2 DEF Cost
<1>3. CASE b = "answers"
  BY <1>1, <1>3 DEF Cost
<1> QED BY <1>2, <1>3

LEMMA CostType == TypeOK => Cost \in Nat
BY DEF TypeOK, Cost

\* A set that a step makes no larger, or larger by one element that is paid for.
LEMMA PaidFor ==
    ASSUME NEW S, NEW T, IsFiniteSet(S), NEW m \in Nat, NEW n \in Nat, Cardinality(S) <= m,
           \/ T \subseteq S /\ n >= m
           \/ (\E x : T \subseteq S \cup {x}) /\ n = m + 1
    PROVE  Cardinality(T) <= n
<1>1. Cardinality(S) \in Nat
  BY FS_CardinalityType
<1>2. CASE T \subseteq S /\ n >= m
  <2>1. T \in SUBSET S
    BY <1>2
  <2>2. Cardinality(T) <= Cardinality(S) /\ Cardinality(T) \in Nat
    BY <2>1, FS_Subset, FS_CardinalityType
  <2> QED BY <1>1, <1>2, <2>2
<1>3. ASSUME NEW x, T \subseteq S \cup {x}, n = m + 1 PROVE Cardinality(T) <= n
  <2>1. /\ IsFiniteSet(S \cup {x})
        /\ Cardinality(S \cup {x}) \in {Cardinality(S), Cardinality(S) + 1}
    BY FS_AddElement
  <2>2. T \in SUBSET (S \cup {x})
    BY <1>3
  <2>3. Cardinality(T) <= Cardinality(S \cup {x}) /\ Cardinality(T) \in Nat
    BY <2>1, <2>2, FS_Subset, FS_CardinalityType
  <2> QED BY <1>1, <1>3, <2>1, <2>3
<1> QED BY <1>2, <1>3

\* An upload that stored nothing has no object.
FreshInv == \A u \in Uploads : step[u] \in {"new", "checked"} => u \notin objects

LeakInv == FreshInv /\ OrphansAreAccountedFor /\ LosersAreAnswered

Paid(S, T) == \/ T \subseteq S /\ Cost' >= Cost
              \/ (\E x : T \subseteq S \cup {x}) /\ Cost' = Cost + 1

LEMMA PaidStep ==
    ASSUME TypeOK, TypeOK', LeakInv, FreshInv',
           Paid(Leaked, Leaked'), Paid(Failing, Failing')
    PROVE  LeakInv'
<1>1. Cost \in Nat /\ Cost' \in Nat
  BY CostType DEF TypeOK, Cost
<1>2. Leaked \in SUBSET Uploads /\ Failing \in SUBSET Uploads
  BY DEF TypeOK, Leaked, Failing
<1>3. IsFiniteSet(Leaked) /\ IsFiniteSet(Failing)
  BY <1>2, IngestionAssumption, FS_Subset
<1>4. Cardinality(Leaked) <= Cost /\ Cardinality(Failing) <= Cost
  BY DEF LeakInv, OrphansAreAccountedFor, LosersAreAnswered, Cost
<1>5. Cardinality(Leaked') <= Cost'
  BY <1>1, <1>3, <1>4, PaidFor DEF Paid
<1>6. Cardinality(Failing') <= Cost'
  BY <1>1, <1>3, <1>4, PaidFor DEF Paid
<1> QED BY <1>5, <1>6 DEF LeakInv, OrphansAreAccountedFor, LosersAreAnswered, Cost

LEMMA InitLeaks == Init => LeakInv
<1> SUFFICES ASSUME Init PROVE LeakInv
  OBVIOUS
<1>1. Leaked = {} /\ Failing = {} /\ spent.faults + spent.answers = 0 /\ FreshInv
  BY DEF Init, Leaked, Failing, FreshInv
<1> QED BY <1>1, FS_EmptySet DEF LeakInv, OrphansAreAccountedFor, LosersAreAnswered

LEMMA NextLeaks == TypeOK /\ AnswersInv /\ LeakInv /\ [Next]_vars => LeakInv'
<1> SUFFICES ASSUME TypeOK, AnswersInv, LeakInv, [Next]_vars PROVE LeakInv'
  OBVIOUS
<1>0. TypeOK' /\ Cost \in Nat /\ FreshInv
  BY NextType, CostType DEF LeakInv
<1>1. UNCHANGED spent => Cost' = Cost
  BY DEF Cost
<1>2. ASSUME FreshInv', Paid(Leaked, Leaked'), Paid(Failing, Failing') PROVE LeakInv'
  BY <1>0, <1>2, PaidStep
<1> USE DEF TypeOK, FreshInv, Leaked, Failing, Paid
<1>3. ASSUME NEW u \in Uploads, FindByHash(u) PROVE LeakInv'
  BY <1>0, <1>1, <1>2, <1>3 DEF FindByHash
<1>4. ASSUME NEW u \in Uploads, Put(u) PROVE LeakInv'
  <2>1. UNCHANGED spent \/ Cost' = Cost + 1
    BY <1>4, SpendCosts DEF Put, Fault, LostAnswer
  <2>2. FreshInv' /\ Failing' \subseteq Failing
    BY <1>0, <1>4 DEF Put
  <2>3. Paid(Leaked, Leaked')
    <3>1. CASE Goto(u, "stored")
      BY <1>0, <1>1, <1>4, <2>1, <3>1 DEF Put
    <3>2. CASE Goto(u, "raised") /\ UNCHANGED objects /\ Fault
      BY <1>0, <1>4, <3>2, SpendCosts DEF Put, Fault
    <3>3. CASE Goto(u, "raised") /\ LostAnswer
      <4>1. Cost' = Cost + 1
        BY <3>3, SpendCosts DEF LostAnswer
      <4>2. Leaked' \subseteq Leaked \cup {u}
        BY <1>4, <3>3 DEF Put
      <4> QED BY <4>1, <4>2
    <3> QED BY <1>4, <3>1, <3>2, <3>3 DEF Put
  <2> QED BY <1>0, <1>1, <1>2, <2>1, <2>2, <2>3
<1>5. ASSUME NEW u \in Uploads, Bootstrap(u) PROVE LeakInv'
  <2>1. UNCHANGED spent \/ Cost' = Cost + 1
    BY <1>5, SpendCosts DEF Bootstrap, Fault, LostAnswer
  <2>2. FreshInv' /\ Leaked' \subseteq Leaked /\ Failing' \subseteq Failing \cup {u}
    BY <1>0, <1>5 DEF Bootstrap
  <2>3. UNCHANGED spent => Failing' \subseteq Failing
    <3>1. CASE Goto(u, "failed")
      BY <1>0, <1>1, <1>5, <3>1, SpendCosts DEF Bootstrap, Fault, LostAnswer
    <3>2. CASE Goto(u, "registered") \/ Goto(u, "duplicate")
      BY <1>5, <3>2 DEF Bootstrap
    <3> QED BY <1>5, <3>1, <3>2 DEF Bootstrap
  <2> QED BY <1>0, <1>1, <1>2, <2>1, <2>2, <2>3
<1>6. ASSUME NEW u \in Uploads, SafeDelete(u) PROVE LeakInv'
  <2>1. UNCHANGED spent \/ Cost' = Cost + 1
    BY <1>6, SpendCosts DEF SafeDelete, Fault
  <2>2. FreshInv' /\ Leaked' \subseteq Leaked \cup {u} /\ Failing' \subseteq Failing
    BY <1>0, <1>6 DEF SafeDelete
  <2>3. CASE objects' = objects \ {u} /\ UNCHANGED spent
    <3>1. Leaked' \subseteq Leaked
      BY <1>6, <2>3 DEF SafeDelete
    <3> QED BY <1>0, <1>1, <1>2, <2>2, <2>3, <3>1
  <2>4. CASE Fault
    <3>1. Cost' = Cost + 1
      BY <2>4, SpendCosts DEF Fault
    <3> QED BY <1>0, <1>2, <2>2, <3>1
  <2> QED BY <1>6, <2>3, <2>4 DEF SafeDelete
<1>7. ASSUME NEW u \in Uploads, Dispatch(u) PROVE LeakInv'
  <2>1. u \in rows
    BY <1>7 DEF Dispatch, AnswersInv
  <2> QED BY <1>0, <1>1, <1>2, <1>7, <2>1 DEF Dispatch
<1>8. ASSUME NEW d \in Uploads, Start(d) \/ Stamp(d) \/ Finish(d) PROVE LeakInv'
  <2>1. UNCHANGED spent \/ Cost' = Cost + 1
    BY <1>8, SpendCosts DEF Start, Stamp, Finish, Fault
  <2>2. FreshInv' /\ Leaked' = Leaked /\ Failing' = Failing
    BY <1>0, <1>8 DEF Start, Stamp, Finish
  <2> QED BY <1>0, <1>1, <1>2, <2>1, <2>2
<1>9. CASE CrashAndRecover
  <2>1. Cost' >= Cost
    <3>1. CASE spent' = [spent EXCEPT !.crashes = @ + 1]
      BY <1>0, <3>1 DEF Cost
    <3>2. CASE spent' = [spent EXCEPT !.crashes = @ + 1, !.faults = @ + 1]
      <4>1. spent'.faults = spent.faults + 1 /\ spent'.answers = spent.answers
        BY <3>2
      <4> QED BY <1>0, <4>1 DEF Cost
    <3> QED BY <1>9, <3>1, <3>2 DEF CrashAndRecover
  <2>2. FreshInv' /\ Leaked' \subseteq Leaked /\ Failing' \subseteq Failing
    BY <1>0, <1>9 DEF CrashAndRecover
  <2> QED BY <1>2, <2>1, <2>2
<1>10. CASE UNCHANGED vars
  BY <1>0, <1>1, <1>2, <1>10 DEF vars
<1> QED BY <1>3, <1>4, <1>5, <1>6, <1>7, <1>8, <1>9, <1>10 DEF Next, Ingest

(***************************************************************************)
(* For any uploads: every object left without a row belongs to an upload   *)
(* in progress, lost in a crash, or paid for by a call that failed.        *)
(***************************************************************************)
THEOREM OrphansCounted == Spec => []OrphansAreAccountedFor
<1>1. LeakInv => OrphansAreAccountedFor
  BY DEF LeakInv
<1> QED BY <1>1, InitType, NextType, InitAnswers, NextAnswers, InitLeaks, NextLeaks, PTL
        DEF Spec

(***************************************************************************)
(* For any uploads: losing a race for a content is not an error; an upload *)
(* fails only because a call of it failed.                                 *)
(***************************************************************************)
THEOREM RacesAreNoErrors == Spec => []LosersAreAnswered
<1>1. LeakInv => LosersAreAnswered
  BY DEF LeakInv
<1> QED BY <1>1, InitType, NextType, InitAnswers, NextAnswers, InitLeaks, NextLeaks, PTL
        DEF Spec
===============================================================================
