------------------------ MODULE SchemaGovernance_proofs ------------------------
(***************************************************************************)
(* However many reviewers decide at once, and whichever commits fail: one  *)
(* version is active, the newest; it holds every change that was approved; *)
(* and no change tightens the schema.                                      *)
(***************************************************************************)
EXTENDS SchemaGovernance, TLAPS

\* The newest version is the active one, by its number.
LastIsActive == Len(versions) >= 1 /\ Active = {Len(versions)}

\* What a thread at work holds: a recorded proposal, and a base that exists.
RequestsInv ==
    \A r \in Requests :
        /\ requests[r].at # "idle" =>
              /\ requests[r].proposal \in Proposals
              /\ proposals[requests[r].proposal].status \notin {"none", "draft"}
        /\ requests[r].at \in {"based", "flushed"} => requests[r].base \in DOMAIN versions

\* A proposal's changes are part of a schema.
Holds(fields, proposal) ==
    /\ proposal.additions \subseteq NamesOf(fields)
    /\ proposal.relaxed \cap RequiredOf(fields) = {}

\* Approved changes are in force from the first commit on, before the second
\* says that they are approved.
ForceInv ==
    /\ \A p \in Proposals : proposals[p].status = "approved" =>
          Holds(versions[Len(versions)].fields, proposals[p])
    /\ \A r \in Requests : requests[r].at = "applied" =>
          Holds(versions[Len(versions)].fields, proposals[requests[r].proposal])

IInv == TypeOK /\ LastIsActive /\ RequestsInv /\ ForceInv

-----------------------------------------------------------------------------
LEMMA AddedType ==
    ASSUME NEW n \in Names
    PROVE  [name |-> n, kind |-> "scalar", required |-> FALSE] \in Field
<1>1. FALSE \in BOOLEAN
  OBVIOUS
<1> QED BY <1>1 DEF Field

(***************************************************************************)
(* What apply_diff makes of a schema: fields again, all names it had and   *)
(* those added, and required only what was required and is not relaxed.    *)
(***************************************************************************)
LEMMA ApplyType ==
    ASSUME NEW fields \in SUBSET Field, NEW p \in Proposal
    PROVE  Apply(fields, p) \in SUBSET Field
<1> DEFINE added == {[name |-> n, kind |-> "scalar", required |-> FALSE] :
                        n \in p.additions \ NamesOf(Scalars(fields))}
<1>1. p.additions \in SUBSET Names
  BY DEF Proposal
<1>2. added \subseteq Field
  BY <1>1, AddedType
<1>3. ASSUME NEW f \in Field, NEW b \in BOOLEAN PROVE [f EXCEPT !.required = b] \in Field
  BY <1>3 DEF Field
<1>4. ASSUME NEW f \in Field PROVE (f.required /\ f.name \notin p.relaxed) \in BOOLEAN
  OBVIOUS
<1>5. Apply(fields, p) = {[f EXCEPT !.required = f.required /\ f.name \notin p.relaxed] :
                            f \in fields \cup added}
  BY DEF Apply
<1> QED BY <1>2, <1>3, <1>4, <1>5

LEMMA ApplyNames ==
    ASSUME NEW fields \in SUBSET Field, NEW p \in Proposal
    PROVE  /\ NamesOf(fields) \subseteq NamesOf(Apply(fields, p))
           /\ p.additions \subseteq NamesOf(Apply(fields, p))
<1> DEFINE added == {[name |-> n, kind |-> "scalar", required |-> FALSE] :
                        n \in p.additions \ NamesOf(Scalars(fields))}
           changed(f) == [f EXCEPT !.required = f.required /\ f.name \notin p.relaxed]
<1>1. added \subseteq Field
  BY AddedType DEF Proposal
<1>2. ASSUME NEW f \in Field PROVE changed(f).name = f.name
  BY DEF Field
<1>3. Apply(fields, p) = {changed(f) : f \in fields \cup added}
  BY DEF Apply
<1>4. ASSUME NEW f \in fields \cup added PROVE f.name \in NamesOf(Apply(fields, p))
  <2>1. f \in Field
    BY <1>1
  <2>2. changed(f) \in Apply(fields, p)
    BY <1>3, <1>4
  <2> QED BY <2>1, <2>2, <1>2 DEF NamesOf
<1>5. NamesOf(fields) \subseteq NamesOf(Apply(fields, p))
  BY <1>4 DEF NamesOf
<1>6. ASSUME NEW n \in p.additions PROVE n \in NamesOf(Apply(fields, p))
  <2>1. CASE n \in NamesOf(Scalars(fields))
    BY <1>5, <2>1 DEF NamesOf, Scalars
  <2>2. CASE n \notin NamesOf(Scalars(fields))
    <3> DEFINE f == [name |-> n, kind |-> "scalar", required |-> FALSE]
    <3>1. f \in added
      BY <2>2
    <3>2. f.name = n
      OBVIOUS
    <3> HIDE DEF f
    <3> QED BY <3>1, <3>2, <1>4
  <2> QED BY <2>1, <2>2
<1> QED BY <1>5, <1>6

LEMMA ApplyRequired ==
    ASSUME NEW fields \in SUBSET Field, NEW p \in Proposal
    PROVE  /\ RequiredOf(Apply(fields, p)) \subseteq RequiredOf(fields)
           /\ p.relaxed \cap RequiredOf(Apply(fields, p)) = {}
<1> DEFINE added == {[name |-> n, kind |-> "scalar", required |-> FALSE] :
                        n \in p.additions \ NamesOf(Scalars(fields))}
           changed(f) == [f EXCEPT !.required = f.required /\ f.name \notin p.relaxed]
<1>1. added \subseteq Field
  BY AddedType DEF Proposal
<1>2. \A f \in added : ~f.required
  OBVIOUS
<1>3. ASSUME NEW f \in Field
      PROVE  /\ changed(f).name = f.name
             /\ changed(f).required = (f.required /\ f.name \notin p.relaxed)
  BY DEF Field
<1>4. Apply(fields, p) = {changed(f) : f \in fields \cup added}
  BY DEF Apply
<1>5. ASSUME NEW n \in RequiredOf(Apply(fields, p))
      PROVE  n \in RequiredOf(fields) /\ n \notin p.relaxed
  <2> HIDE DEF changed, added
  <2>1. PICK g \in Apply(fields, p) : g.required /\ g.name = n
    BY <1>5 DEF RequiredOf, NamesOf
  <2>2. PICK f \in fields \cup added : g = changed(f)
    BY <1>4, <2>1
  <2>3. f.required /\ f.name = n /\ n \notin p.relaxed
    BY <1>1, <1>3, <2>1, <2>2
  <2>4. f \in fields
    BY <1>2, <2>3
  <2> QED BY <2>3, <2>4 DEF RequiredOf, NamesOf
<1> QED BY <1>5

(***************************************************************************)
(* An insert next to the active version appends a version, and leaves the  *)
(* old one as the only one it deactivates.                                 *)
(***************************************************************************)
LEMMA SuccessorAppends ==
    ASSUME TypeOK, LastIsActive, NEW row \in Version, row.active,
           NEW base \in DOMAIN versions, Insertable(base)
    PROVE  /\ base = Len(versions)
           /\ Successor(base, row) \in Seq(Version)
           /\ Len(Successor(base, row)) = Len(versions) + 1
           /\ Successor(base, row)[Len(versions) + 1] = row
           /\ \A n \in 1..Len(versions) : ~Successor(base, row)[n].active
<1> DEFINE s == Successor(base, row)
<1>1. versions \in Seq(Version) /\ DOMAIN versions = 1..Len(versions) /\ Len(versions) \in Nat
  BY DEF TypeOK
<1>2. base = Len(versions)
  BY <1>1 DEF Insertable
<1>3. DOMAIN versions \cup {base + 1} = 1..(Len(versions) + 1)
  BY <1>1, <1>2
<1>4. s = [n \in 1..(Len(versions) + 1) |->
              CASE n = base + 1 -> row
                [] n = base     -> [versions[n] EXCEPT !.active = FALSE]
                [] OTHER        -> versions[n]]
  BY <1>3 DEF Successor
<1>5. ASSUME NEW n \in 1..(Len(versions) + 1)
      PROVE  /\ s[n] \in Version
             /\ n = Len(versions) + 1 => s[n] = row
             /\ n # Len(versions) + 1 => ~s[n].active
  <2>1. CASE n = base + 1
    BY <1>2, <1>4, <2>1
  <2>2. CASE n = base
    <3>1. versions[n] \in Version
      BY <1>1, <1>2, <2>2
    <3>2. s[n] = [versions[n] EXCEPT !.active = FALSE]
      BY <1>1, <1>2, <1>4, <2>2
    <3>3. s[n] \in Version /\ s[n].active = FALSE
      BY <3>1, <3>2 DEF Version
    <3> HIDE DEF s
    <3>4. ~s[n].active
      BY <3>3, Zenon
    <3>5. n # Len(versions) + 1
      <4>1. Len(versions) \in Nat /\ n = Len(versions)
        BY <1>1, <1>2, <2>2
      <4> QED BY <4>1
    <3> QED BY <3>3, <3>4, <3>5, Zenon
  <2>3. CASE n # base /\ n # base + 1
    <3>1. n \in 1..Len(versions) /\ s[n] = versions[n]
      BY <1>1, <1>2, <1>4, <2>3
    <3>2. n \notin Active
      BY <1>2, <2>3 DEF LastIsActive
    <3> QED BY <1>1, <1>2, <2>3, <3>1, <3>2 DEF Active
  <2> QED BY <2>1, <2>2, <2>3
<1>6. s \in [1..(Len(versions) + 1) -> Version]
  <2>1. DOMAIN s = 1..(Len(versions) + 1)
    BY <1>4
  <2>2. s = [n \in DOMAIN s |-> s[n]]
    BY <1>4
  <2> HIDE DEF s
  <2> QED BY <1>5, <2>1, <2>2
<1>7. s \in Seq(Version) /\ Len(s) = Len(versions) + 1
  BY <1>1, <1>6
<1> QED BY <1>1, <1>2, <1>5, <1>7

-----------------------------------------------------------------------------
(***************************************************************************)
(* The state a version, a proposal and a request may be left in.           *)
(***************************************************************************)
LEMMA SpendType ==
    ASSUME TypeOK, NEW b \in {"requests", "faults", "crashes"}, NEW limit, Spend(b, limit)
    PROVE  spent' \in [requests : Nat, faults : Nat, crashes : Nat]
<1> DEFINE S == [requests : Nat, faults : Nat, crashes : Nat]
<1>1. spent \in S /\ spent' = [spent EXCEPT ![b] = @ + 1]
  BY DEF TypeOK, Spend
<1>2. CASE b = "requests"
  BY <1>1, <1>2
<1>3. CASE b = "faults"
  BY <1>1, <1>3
<1>4. CASE b = "crashes"
  BY <1>1, <1>4
<1> QED BY <1>2, <1>3, <1>4

LEMMA RestingType == Resting \in Request
BY DEF Resting, Request

\* No action but Discover touches what a proposal would change.
LEMMA StatusType ==
    ASSUME TypeOK, NEW p \in Proposals, NEW st \in Statuses,
           proposals' = [proposals EXCEPT ![p].status = st]
    PROVE  /\ proposals' \in [Proposals -> Proposal]
           /\ proposals'[p].status = st
           /\ \A q \in Proposals :
                /\ proposals'[q].additions = proposals[q].additions
                /\ proposals'[q].relaxed = proposals[q].relaxed
                /\ q # p => proposals'[q] = proposals[q]
BY DEF TypeOK, Proposal

LEMMA GotoType ==
    ASSUME TypeOK, NEW r \in Requests,
           NEW at \in {"idle", "approve", "based", "flushed", "applied", "reject"},
           Goto(r, at)
    PROVE  /\ requests' \in [Requests -> Request]
           /\ requests'[r].at = at
           /\ \A q \in Requests :
                /\ requests'[q].proposal = requests[q].proposal
                /\ requests'[q].base = requests[q].base
                /\ q # r => requests'[q] = requests[q]
BY DEF TypeOK, Request, Goto

LEMMA RestType ==
    ASSUME TypeOK, NEW r \in Requests, Rest(r)
    PROVE  /\ requests' \in [Requests -> Request]
           /\ requests'[r].at = "idle"
           /\ \A q \in Requests : q # r => requests'[q] = requests[q]
BY RestingType DEF TypeOK, Rest, Resting

LEMMA LockedBase ==
    ASSUME IInv, NEW r \in Requests, requests[r].at = "flushed"
    PROVE  /\ requests[r].proposal \in Proposals
           /\ requests[r].base \in DOMAIN versions
BY DEF IInv, RequestsInv

LEMMA LastVersion ==
    ASSUME IInv
    PROVE  /\ Len(versions) \in Nat /\ DOMAIN versions = 1..Len(versions)
           /\ Len(versions) \in DOMAIN versions
           /\ versions[Len(versions)] \in Version
           /\ versions[Len(versions)].fields \in SUBSET Field
<1>1. Len(versions) \in Nat /\ DOMAIN versions = 1..Len(versions) /\ Len(versions) >= 1
  BY DEF IInv, TypeOK, LastIsActive
<1>2. Len(versions) \in DOMAIN versions
  BY <1>1
<1>3. versions[Len(versions)] \in Version
  BY <1>2 DEF IInv, TypeOK
<1> QED BY <1>1, <1>2, <1>3 DEF Version

(***************************************************************************)
(* The first commit of an approval: the versions it leaves.                *)
(***************************************************************************)
Applied(r) ==
    Row(Apply(versions[Len(versions)].fields, proposals[requests[r].proposal]))

Commit(r) ==
    LET p == requests[r].proposal
        base == requests[r].base
    IN  /\ requests[r].at = "flushed"
        /\ Insertable(base)
        /\ versions' = Successor(base, Row(Apply(versions[base].fields, proposals[p])))
        /\ Goto(r, "applied")
        /\ UNCHANGED <<proposals, spent>>

\* A transaction that ends in a rollback.
Abandon(r) == /\ Rest(r)
              /\ UNCHANGED <<versions, proposals>>
              /\ spent' \in [requests : Nat, faults : Nat, crashes : Nat]

LEMMA ApplyDiffCases ==
    ASSUME TypeOK, NEW r \in Requests, ApplyDiff(r)
    PROVE  Commit(r) \/ Abandon(r)
<1>1. ASSUME Spend("faults", MaxFaults)
      PROVE  spent' \in [requests : Nat, faults : Nat, crashes : Nat]
  BY <1>1, SpendType
<1>2. ASSUME UNCHANGED spent
      PROVE  spent' \in [requests : Nat, faults : Nat, crashes : Nat]
  BY <1>2 DEF TypeOK
<1> QED BY <1>1, <1>2 DEF ApplyDiff, Commit, Abandon

LEMMA CommitVersions ==
    ASSUME IInv, NEW r \in Requests, Commit(r)
    PROVE  /\ versions' \in Seq(Version)
           /\ Len(versions') = Len(versions) + 1
           /\ versions'[Len(versions')] = Applied(r)
           /\ Active' = {Len(versions')}
<1> DEFINE base == requests[r].base
           p == requests[r].proposal
           row == Row(Apply(versions[base].fields, proposals[p]))
<1>1. /\ requests[r].at = "flushed" /\ Insertable(base)
      /\ versions' = Successor(base, row)
  BY DEF Commit
<1>2. p \in Proposals /\ base \in DOMAIN versions
  BY <1>1, LockedBase
<1>3. TypeOK /\ LastIsActive
  BY DEF IInv
<1>4. versions[base].fields \in SUBSET Field /\ proposals[p] \in Proposal
  <2>1. versions[base] \in Version /\ proposals[p] \in Proposal
    BY <1>2, <1>3 DEF TypeOK
  <2> QED BY <2>1 DEF Version
<1>5. row \in Version /\ row.active
  <2>1. Apply(versions[base].fields, proposals[p]) \in SUBSET Field
    BY <1>4, ApplyType
  <2> HIDE DEF p, base
  <2>2. TRUE \in BOOLEAN
    OBVIOUS
  <2> QED BY <2>1, <2>2 DEF Row, Version
<1>6. /\ base = Len(versions)
      /\ versions' \in Seq(Version)
      /\ Len(versions') = Len(versions) + 1
      /\ versions'[Len(versions) + 1] = row
      /\ \A n \in 1..Len(versions) : ~versions'[n].active
  <2> HIDE DEF row, base
  <2> QED BY <1>1, <1>2, <1>3, <1>5, SuccessorAppends
<1>7. versions'[Len(versions')] = Applied(r)
  BY <1>6 DEF Applied
<1>8. Active' = {Len(versions')}
  <2> HIDE DEF row, base
  <2>1. Len(versions) \in Nat /\ DOMAIN versions' = 1..(Len(versions) + 1)
    BY <1>3, <1>6 DEF TypeOK
  <2>2. versions'[Len(versions) + 1].active
    BY <1>5, <1>6
  <2>3. \A n \in DOMAIN versions' : versions'[n].active <=> n = Len(versions) + 1
    BY <1>6, <2>1, <2>2
  <2>4. Len(versions) + 1 \in DOMAIN versions'
    BY <2>1
  <2> QED BY <1>6, <2>3, <2>4 DEF Active
<1> QED BY <1>1, <1>6, <1>7, <1>8

(***************************************************************************)
(* A later change leaves an earlier one in force.                          *)
(***************************************************************************)
LEMMA HoldsStays ==
    ASSUME NEW fields \in SUBSET Field, NEW p \in Proposal, NEW q \in Proposal,
           Holds(fields, q)
    PROVE  Holds(Apply(fields, p), q)
BY ApplyNames, ApplyRequired DEF Holds

LEMMA HoldsNow ==
    ASSUME NEW fields \in SUBSET Field, NEW p \in Proposal
    PROVE  Holds(Apply(fields, p), p)
BY ApplyNames, ApplyRequired DEF Holds

-----------------------------------------------------------------------------
LEMMA InitInv == Init => IInv
<1> SUFFICES ASSUME Init PROVE IInv
  OBVIOUS
<1> DEFINE seed == [fields |-> Reference, active |-> TRUE]
<1>1. seed \in Version /\ seed.active
  <2>1. TRUE \in BOOLEAN
    OBVIOUS
  <2> QED BY <2>1, GovernanceAssumption DEF Version
<1>2. versions = <<seed>>
  BY DEF Init
<1> HIDE DEF seed
<1>3. versions \in Seq(Version) /\ Len(versions) = 1 /\ versions[1] = seed
  BY <1>1, <1>2
<1>4. \A p \in Proposals : proposals[p] \in Proposal /\ proposals[p].status = "none"
  BY DEF Init, Proposal, Statuses
<1>5. \A r \in Requests : requests[r] \in Request /\ requests[r].at = "idle"
  BY RestingType DEF Init, Resting
<1>6. TypeOK
  BY <1>3, <1>4, <1>5 DEF Init, TypeOK
<1>7. LastIsActive
  <2>1. DOMAIN versions = 1..1
    BY <1>3
  <2> QED BY <1>1, <1>3, <2>1 DEF LastIsActive, Active
<1>8. RequestsInv /\ ForceInv
  BY <1>4, <1>5 DEF RequestsInv, ForceInv
<1> QED BY <1>6, <1>7, <1>8 DEF IInv

\* What a step that leaves the versions alone must show.
LEMMA SameVersions ==
    ASSUME IInv, UNCHANGED versions
    PROVE  /\ LastIsActive' /\ DOMAIN versions' = DOMAIN versions
           /\ versions'[Len(versions')] = versions[Len(versions)]
           /\ versions' \in Seq(Version)
BY DEF IInv, TypeOK, LastIsActive, Active

\* A step after which one thread rests.
LEMMA AbandonInv ==
    ASSUME IInv, NEW r \in Requests, Abandon(r)
    PROVE  IInv'
<1>0. TypeOK /\ LastIsActive /\ RequestsInv /\ ForceInv
  BY DEF IInv
<1>1. /\ requests' \in [Requests -> Request]
      /\ requests'[r].at = "idle"
      /\ \A q \in Requests : q # r => requests'[q] = requests[q]
  BY <1>0, RestType DEF Abandon
<1>2. TypeOK' /\ LastIsActive'
  BY <1>0, <1>1, SameVersions DEF Abandon, TypeOK
<1>3. RequestsInv'
  BY <1>0, <1>1 DEF Abandon, RequestsInv
<1>4. ForceInv'
  BY <1>0, <1>1 DEF Abandon, ForceInv
<1> QED BY <1>2, <1>3, <1>4 DEF IInv

LEMMA DecideInv ==
    ASSUME IInv, NEW r \in Requests, Rest(r), UNCHANGED <<versions, spent>>,
           NEW p \in Proposals, proposals' \in [Proposals -> Proposal],
           proposals'[p].status \in Decided,
           \A q \in Proposals : /\ proposals'[q].additions = proposals[q].additions
                                /\ proposals'[q].relaxed = proposals[q].relaxed
                                /\ q # p => proposals'[q] = proposals[q],
           \A q \in Proposals : proposals'[q].status = "approved" =>
              Holds(versions[Len(versions)].fields, proposals'[q])
    PROVE  IInv'
<1>0. TypeOK /\ LastIsActive /\ RequestsInv /\ ForceInv
  BY DEF IInv
<1>1. /\ requests' \in [Requests -> Request]
      /\ requests'[r].at = "idle"
      /\ \A q \in Requests : q # r => requests'[q] = requests[q]
  BY <1>0, RestType
<1>2. TypeOK' /\ LastIsActive'
  BY <1>0, <1>1, SameVersions DEF TypeOK
<1>3. RequestsInv'
  BY <1>0, <1>1 DEF RequestsInv, Decided
<1>4. ForceInv'
  <2>1. ASSUME NEW q \in Requests, requests'[q].at = "applied"
        PROVE  Holds(versions[Len(versions)].fields, proposals'[requests'[q].proposal])
    <3>1. requests'[q] = requests[q] /\ requests[q].proposal \in Proposals
      BY <1>0, <1>1, <2>1 DEF RequestsInv
    <3>2. Holds(versions[Len(versions)].fields, proposals[requests[q].proposal])
      BY <1>0, <2>1, <3>1 DEF ForceInv
    <3> QED BY <3>1, <3>2 DEF Holds
  <2> QED BY <2>1 DEF ForceInv
<1> QED BY <1>2, <1>3, <1>4 DEF IInv

LEMMA NextInv == IInv /\ [Next]_vars => IInv'
<1> SUFFICES ASSUME IInv, [Next]_vars PROVE IInv'
  OBVIOUS
<1>0. TypeOK /\ LastIsActive /\ RequestsInv /\ ForceInv
  BY DEF IInv
<1>1. ASSUME NEW p \in Proposals, NEW labels \in SUBSET Names, Discover(p, labels)
      PROVE  IInv'
  <2>1. UNCHANGED <<versions, requests, spent>> /\ proposals[p].status = "none"
    BY <1>1 DEF Discover
  <2>2. PICK n \in Active :
            proposals' = [proposals EXCEPT
                            ![p] = [status    |-> "draft",
                                    additions |-> Additions(labels, versions[n].fields),
                                    relaxed   |-> Relaxed(labels, versions[n].fields)]]
    BY <1>1 DEF Discover
  <2>3. versions[n].fields \in SUBSET Field
    <3>1. n \in DOMAIN versions
      BY DEF Active
    <3>2. versions[n] \in Version
      BY <1>0, <3>1 DEF TypeOK
    <3> QED BY <3>2 DEF Version
  <2>4. /\ Additions(labels, versions[n].fields) \in SUBSET Names
        /\ Relaxed(labels, versions[n].fields) \in SUBSET Names
    BY <2>3 DEF Additions, Relaxed, RequiredOf, NamesOf, Scalars, Field
  <2>5. proposals' \in [Proposals -> Proposal]
    BY <1>0, <2>2, <2>4 DEF TypeOK, Proposal, Statuses
  <2>6. /\ proposals'[p].status = "draft"
        /\ \A q \in Proposals : q # p => proposals'[q] = proposals[q]
    BY <1>0, <2>2 DEF TypeOK
  <2>7. TypeOK' /\ LastIsActive'
    BY <1>0, <2>1, <2>5, SameVersions DEF TypeOK
  <2>8. RequestsInv'
    BY <1>0, <2>1, <2>6 DEF RequestsInv
  <2>9. ForceInv'
    <3>1. ASSUME NEW q \in Proposals, proposals'[q].status = "approved"
          PROVE  Holds(versions'[Len(versions')].fields, proposals'[q])
      BY <1>0, <2>1, <2>6, <3>1 DEF ForceInv
    <3>2. ASSUME NEW r \in Requests, requests'[r].at = "applied"
          PROVE  Holds(versions'[Len(versions')].fields, proposals'[requests'[r].proposal])
      <4>1. requests[r].proposal \in Proposals \ {p}
        BY <1>0, <2>1, <3>2 DEF RequestsInv
      <4> QED BY <1>0, <2>1, <2>6, <3>2, <4>1 DEF ForceInv
    <3> QED BY <3>1, <3>2 DEF ForceInv
  <2> QED BY <2>7, <2>8, <2>9 DEF IInv
<1>2. ASSUME NEW p \in Proposals, WriteProposal(p) PROVE IInv'
  <2>1. /\ UNCHANGED <<versions, requests, spent>> /\ proposals[p].status = "draft"
        /\ proposals' = [proposals EXCEPT ![p].status = "pending"]
    BY <1>2 DEF WriteProposal
  <2>2. /\ proposals' \in [Proposals -> Proposal]
        /\ proposals'[p].status = "pending"
        /\ \A q \in Proposals :
             /\ proposals'[q].additions = proposals[q].additions
             /\ proposals'[q].relaxed = proposals[q].relaxed
             /\ q # p => proposals'[q] = proposals[q]
    BY <1>0, <2>1, StatusType DEF Statuses
  <2>3. TypeOK' /\ LastIsActive'
    BY <1>0, <2>1, <2>2, SameVersions DEF TypeOK
  <2>4. RequestsInv'
    BY <1>0, <2>1, <2>2 DEF RequestsInv
  <2>5. ForceInv'
    BY <1>0, <2>1, <2>2 DEF ForceInv, RequestsInv, Holds
  <2> QED BY <2>3, <2>4, <2>5 DEF IInv
<1>3. ASSUME NEW r \in Requests, NEW p \in Proposals, NEW at \in {"approve", "reject"},
             LoadProposal(r, p, at)
      PROVE  IInv'
  <2>1. /\ UNCHANGED <<versions, proposals>> /\ proposals[p].status = "pending"
        /\ requests' = [requests EXCEPT ![r] = [at |-> at, proposal |-> p, base |-> 0]]
    BY <1>3 DEF LoadProposal
  <2>2. /\ requests' \in [Requests -> Request]
        /\ requests'[r].at = at /\ requests'[r].proposal = p
        /\ \A q \in Requests : q # r => requests'[q] = requests[q]
    BY <1>0, <2>1 DEF TypeOK, Request
  <2>3. spent' \in [requests : Nat, faults : Nat, crashes : Nat]
    BY <1>0, <1>3, SpendType DEF LoadProposal
  <2>4. TypeOK' /\ LastIsActive'
    BY <1>0, <2>1, <2>2, <2>3, SameVersions DEF TypeOK
  <2>5. RequestsInv'
    BY <1>0, <2>1, <2>2 DEF RequestsInv
  <2>6. ForceInv'
    BY <1>0, <2>1, <2>2 DEF ForceInv
  <2> QED BY <2>4, <2>5, <2>6 DEF IInv
<1>4. ASSUME NEW r \in Requests, LoadActive(r) PROVE IInv'
  <2>1. UNCHANGED <<versions, proposals, spent>> /\ requests[r].at = "approve"
    BY <1>4 DEF LoadActive
  <2>2. PICK n \in Active :
            requests' = [requests EXCEPT ![r].at = "based", ![r].base = n]
    BY <1>4 DEF LoadActive
  <2>3. n \in DOMAIN versions /\ n \in Nat
    BY <1>0 DEF Active, TypeOK
  <2>4. /\ requests'[r].at = "based" /\ requests'[r].base = n
        /\ requests'[r].proposal = requests[r].proposal
        /\ \A q \in Requests : q # r => requests'[q] = requests[q]
    BY <1>0, <2>2 DEF TypeOK, Request
  <2>5. requests' \in [Requests -> Request]
    <3>1. [[requests[r] EXCEPT !.at = "based"] EXCEPT !.base = n] \in Request
      BY <1>0, <2>3 DEF TypeOK, Request
    <3> QED BY <1>0, <2>2, <3>1 DEF TypeOK
  <2>6. TypeOK' /\ LastIsActive'
    BY <1>0, <2>1, <2>5, SameVersions DEF TypeOK
  <2>7. RequestsInv'
    BY <1>0, <2>1, <2>3, <2>4 DEF RequestsInv
  <2>8. ForceInv'
    BY <1>0, <2>1, <2>4 DEF ForceInv
  <2> QED BY <2>6, <2>7, <2>8 DEF IInv
<1>5. ASSUME NEW r \in Requests, Flush(r) PROVE IInv'
  <2>1. /\ UNCHANGED <<versions, proposals, spent>> /\ requests[r].at = "based"
        /\ Goto(r, "flushed")
    BY <1>5 DEF Flush
  <2>2. /\ requests' \in [Requests -> Request]
        /\ requests'[r].at = "flushed"
        /\ \A q \in Requests :
             /\ requests'[q].proposal = requests[q].proposal
             /\ requests'[q].base = requests[q].base
             /\ q # r => requests'[q] = requests[q]
    BY <1>0, <2>1, GotoType
  <2>3. TypeOK' /\ LastIsActive'
    BY <1>0, <2>1, <2>2, SameVersions DEF TypeOK
  <2>4. RequestsInv'
    BY <1>0, <2>1, <2>2 DEF RequestsInv
  <2>5. ForceInv'
    BY <1>0, <2>1, <2>2 DEF ForceInv
  <2> QED BY <2>3, <2>4, <2>5 DEF IInv
<1>6. ASSUME NEW r \in Requests, ApplyDiff(r) PROVE IInv'
  <2>1. CASE Commit(r)
    <3>1. /\ versions' \in Seq(Version)
          /\ Len(versions') = Len(versions) + 1
          /\ versions'[Len(versions')] = Applied(r)
          /\ Active' = {Len(versions')}
          /\ Goto(r, "applied") /\ UNCHANGED <<proposals, spent>>
      BY <2>1, CommitVersions DEF Commit
    <3>2. /\ requests' \in [Requests -> Request]
          /\ requests'[r].at = "applied"
          /\ \A q \in Requests :
               /\ requests'[q].proposal = requests[q].proposal
               /\ requests'[q].base = requests[q].base
               /\ q # r => requests'[q] = requests[q]
      BY <1>0, <3>1, GotoType
    <3>3. TypeOK'
      BY <1>0, <3>1, <3>2 DEF TypeOK
    <3>4. LastIsActive'
      BY <3>1, LastVersion DEF LastIsActive
    <3>5. requests[r].at = "flushed" /\ requests[r].proposal \in Proposals
      BY <2>1, LockedBase DEF Commit
    <3>6. RequestsInv'
      <4>1. DOMAIN versions \subseteq DOMAIN versions'
        <5>1. DOMAIN versions' = 1..(Len(versions) + 1)
          BY <3>1
        <5> QED BY <5>1, LastVersion
      <4> QED BY <1>0, <3>1, <3>2, <3>5, <4>1 DEF RequestsInv
    <3>7. ForceInv'
      <4> DEFINE old == versions[Len(versions)].fields
                 p == proposals[requests[r].proposal]
      <4>1. old \in SUBSET Field /\ p \in Proposal
        BY <1>0, <3>5, LastVersion DEF TypeOK
      <4>2. versions'[Len(versions')].fields = Apply(old, p)
        BY <3>1 DEF Applied, Row
      <4> HIDE DEF old, p
      <4>3. ASSUME NEW q \in Proposals, Holds(old, proposals[q])
            PROVE  Holds(Apply(old, p), proposals[q])
        BY <1>0, <4>1, <4>3, HoldsStays DEF TypeOK
      <4>4. Holds(Apply(old, p), p)
        BY <4>1, HoldsNow
      <4>5. ASSUME NEW q \in Proposals, proposals'[q].status = "approved"
            PROVE  Holds(versions'[Len(versions')].fields, proposals'[q])
        BY <1>0, <3>1, <4>2, <4>3, <4>5 DEF ForceInv, old
      <4>6. ASSUME NEW q \in Requests, requests'[q].at = "applied"
            PROVE  Holds(versions'[Len(versions')].fields, proposals'[requests'[q].proposal])
        <5>1. CASE q = r
          BY <3>1, <3>2, <4>2, <4>4, <5>1 DEF p
        <5>2. CASE q # r
          <6>1. requests[q].at = "applied" /\ requests[q].proposal \in Proposals
            BY <1>0, <3>2, <4>6, <5>2 DEF RequestsInv
          <6>2. Holds(old, proposals[requests[q].proposal])
            BY <1>0, <6>1 DEF ForceInv, old
          <6> QED BY <3>1, <3>2, <4>2, <4>3, <6>1, <6>2
        <5> QED BY <5>1, <5>2
      <4> QED BY <4>5, <4>6 DEF ForceInv
    <3> QED BY <3>3, <3>4, <3>6, <3>7 DEF IInv
  <2> QED BY <1>0, <1>6, <2>1, AbandonInv, ApplyDiffCases
<1>7. ASSUME NEW r \in Requests, Approve(r) PROVE IInv'
  <2>1. /\ requests[r].at = "applied" /\ Rest(r) /\ UNCHANGED versions
        /\ requests[r].proposal \in Proposals
        /\ Holds(versions[Len(versions)].fields, proposals[requests[r].proposal])
    BY <1>0, <1>7 DEF Approve, RequestsInv, ForceInv
  <2>2. CASE /\ UNCHANGED spent
             /\ proposals' = [proposals EXCEPT ![requests[r].proposal].status = "approved"]
    <3> DEFINE p == requests[r].proposal
    <3>1. /\ proposals' \in [Proposals -> Proposal]
          /\ proposals'[p].status = "approved"
          /\ \A q \in Proposals :
               /\ proposals'[q].additions = proposals[q].additions
               /\ proposals'[q].relaxed = proposals[q].relaxed
               /\ q # p => proposals'[q] = proposals[q]
      BY <1>0, <2>1, <2>2, StatusType DEF Statuses
    <3>2. Holds(versions[Len(versions)].fields, proposals'[p])
      BY <2>1, <3>1 DEF Holds
    <3>4. p \in Proposals /\ proposals'[p].status \in Decided
      BY <2>1, <3>1 DEF Decided
    <3> HIDE DEF p
    <3>3. ASSUME NEW q \in Proposals, proposals'[q].status = "approved"
          PROVE  Holds(versions[Len(versions)].fields, proposals'[q])
      BY <1>0, <3>1, <3>2, <3>3 DEF ForceInv
    <3> QED BY <2>1, <2>2, <3>1, <3>3, <3>4, DecideInv
  <2> QED BY <1>0, <1>7, <2>1, <2>2, AbandonInv, SpendType DEF Approve, Abandon
<1>8. ASSUME NEW r \in Requests, Reject(r) PROVE IInv'
  <2>1. /\ requests[r].at = "reject" /\ Rest(r) /\ UNCHANGED versions
        /\ requests[r].proposal \in Proposals
    BY <1>0, <1>8 DEF Reject, RequestsInv
  <2>2. CASE /\ UNCHANGED spent
             /\ proposals' = [proposals EXCEPT ![requests[r].proposal].status = "rejected"]
    <3> DEFINE p == requests[r].proposal
    <3>1. /\ proposals' \in [Proposals -> Proposal]
          /\ proposals'[p].status = "rejected"
          /\ \A q \in Proposals :
               /\ proposals'[q].additions = proposals[q].additions
               /\ proposals'[q].relaxed = proposals[q].relaxed
               /\ q # p => proposals'[q] = proposals[q]
      BY <1>0, <2>1, <2>2, StatusType DEF Statuses
    <3>3. p \in Proposals /\ proposals'[p].status \in Decided
      BY <2>1, <3>1 DEF Decided
    <3> HIDE DEF p
    <3>2. ASSUME NEW q \in Proposals, proposals'[q].status = "approved"
          PROVE  Holds(versions[Len(versions)].fields, proposals'[q])
      BY <1>0, <3>1, <3>2 DEF ForceInv
    <3> QED BY <2>1, <2>2, <3>1, <3>2, <3>3, DecideInv
  <2> QED BY <1>0, <1>8, <2>1, <2>2, AbandonInv, SpendType DEF Reject, Abandon
<1>9. CASE Crash
  <2>1. /\ UNCHANGED <<versions, proposals>>
        /\ requests' \in [Requests -> Request]
        /\ \A r \in Requests : requests'[r].at = "idle"
    BY <1>9, RestingType DEF Crash, Resting
  <2>2. spent' \in [requests : Nat, faults : Nat, crashes : Nat]
    BY <1>0, <1>9, SpendType DEF Crash
  <2>3. TypeOK' /\ LastIsActive'
    BY <1>0, <2>1, <2>2, SameVersions DEF TypeOK
  <2>4. RequestsInv' /\ ForceInv'
    BY <1>0, <2>1 DEF RequestsInv, ForceInv
  <2> QED BY <2>3, <2>4 DEF IInv
<1>10. CASE UNCHANGED vars
  <2>1. TypeOK' /\ LastIsActive'
    BY <1>0, <1>10, SameVersions DEF TypeOK, vars
  <2>2. RequestsInv' /\ ForceInv'
    BY <1>0, <1>10 DEF RequestsInv, ForceInv, vars
  <2> QED BY <2>1, <2>2 DEF IInv
<1> QED BY <1>1, <1>2, <1>3, <1>4, <1>5, <1>6, <1>7, <1>8, <1>9, <1>10 DEF Next, Serve

LEMMA AlwaysInv == Spec => []IInv
BY InitInv, NextInv, PTL DEF Spec

-----------------------------------------------------------------------------
(***************************************************************************)
(* Every reachable state of the schema governance is well typed.           *)
(***************************************************************************)
THEOREM TypeCorrect == Spec => []TypeOK
<1>1. IInv => TypeOK
  BY DEF IInv
<1> QED BY <1>1, AlwaysInv, PTL

(***************************************************************************)
(* For any schema, proposals and reviewers' threads: exactly one version   *)
(* is active, the newest.                                                  *)
(***************************************************************************)
THEOREM NewestActive == Spec => []NewestIsActive
<1>1. IInv => NewestIsActive
  <2> SUFFICES ASSUME IInv PROVE NewestIsActive
    OBVIOUS
  <2>1. {n \in DOMAIN versions : \A m \in DOMAIN versions : m <= n} = {Len(versions)}
    <3> DEFINE k == Len(versions)
    <3>1. k \in Nat /\ DOMAIN versions = 1..k /\ k \in 1..k
      BY LastVersion
    <3> HIDE DEF k
    <3>2. \A n \in 1..k : (\A m \in 1..k : m <= n) <=> n = k
      BY <3>1
    <3> QED BY <3>1, <3>2 DEF k
  <2> QED BY <2>1 DEF NewestIsActive, IInv, LastIsActive
<1> QED BY <1>1, AlwaysInv, PTL

(***************************************************************************)
(* No update is lost, for any schema, proposals and interleaving of their  *)
(* approvals: an approved change is in the active version.                 *)
(***************************************************************************)
THEOREM ApprovedInForce == Spec => []ApprovedIsInForce
<1>1. IInv => ApprovedIsInForce
  BY DEF IInv, LastIsActive, ForceInv, Holds, ApprovedIsInForce
<1> QED BY <1>1, AlwaysInv, PTL

(***************************************************************************)
(* No step makes a field of the active version required or forgets one.    *)
(***************************************************************************)
THEOREM OnlyLoosens == Spec => SchemaOnlyLoosens
<1> DEFINE Loosens == \A n \in Active, m \in Active' :
                /\ NamesOf(versions[n].fields) \subseteq NamesOf(versions'[m].fields)
                /\ RequiredOf(versions'[m].fields) \subseteq RequiredOf(versions[n].fields)
<1>1. IInv /\ [Next]_vars => [Loosens]_vars
  <2> SUFFICES ASSUME IInv, [Next]_vars PROVE Loosens \/ UNCHANGED vars
    OBVIOUS
  <2>1. CASE UNCHANGED versions
    BY <2>1 DEF IInv, LastIsActive, Active
  <2>2. ASSUME NEW r \in Requests, Commit(r) PROVE Loosens
    <3> DEFINE old == versions[Len(versions)].fields
               p == proposals[requests[r].proposal]
    <3>1. old \in SUBSET Field /\ p \in Proposal
      BY <2>2, LockedBase, LastVersion DEF IInv, TypeOK, Commit
    <3>2. versions'[Len(versions')].fields = Apply(old, p)
      <4>1. versions'[Len(versions')] = Applied(r)
        BY <2>2, CommitVersions
      <4> QED BY <4>1 DEF Applied, Row
    <3>3. Active = {Len(versions)} /\ Active' = {Len(versions')}
      BY <2>2, CommitVersions DEF IInv, LastIsActive
    <3>4. /\ NamesOf(old) \subseteq NamesOf(Apply(old, p))
          /\ RequiredOf(Apply(old, p)) \subseteq RequiredOf(old)
      BY <3>1, ApplyNames, ApplyRequired
    <3> QED BY <3>2, <3>3, <3>4
  <2>3. ASSUME NEW r \in Requests, ApplyDiff(r) PROVE Commit(r) \/ UNCHANGED versions
    BY <2>3, ApplyDiffCases DEF IInv, Abandon
  <2>4. UNCHANGED versions \/ \E r \in Requests : ApplyDiff(r)
    BY DEF Next, Serve, Discover, WriteProposal, LoadProposal, LoadActive, Flush,
           Approve, Reject, Crash, vars
  <2> QED BY <2>1, <2>2, <2>3, <2>4
<1> QED BY <1>1, AlwaysInv, PTL DEF Spec, SchemaOnlyLoosens
===============================================================================
