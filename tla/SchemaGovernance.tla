--------------------------- MODULE SchemaGovernance ---------------------------
(***************************************************************************)
(* How the schema of one document type evolves: the pipeline drafts a      *)
(* proposal against the active version (agents/schema_diff_agent.py,       *)
(* pipelines/nodes/op_a_retry.py) and records it much later (io_pipeline/  *)
(* output_writer.py); reviewers approve or reject it (api/routes/          *)
(* schema_proposals.py).  The routes are plain functions, so requests run  *)
(* in threads of the server, each in a READ COMMITTED session; approval is *)
(* two commits.                                                            *)
(*                                                                         *)
(* Versions are numbered by their minor number.  Labels are compared after *)
(* normalize_key; the similarity match is equality of names.               *)
(***************************************************************************)
EXTENDS Integers, Sequences

CONSTANTS
    Names,        \* field names and normalized discovered labels
    Reference,    \* the fields of the seeded version
    Proposals,    \* proposal rows the pipeline may write
    Requests,     \* threads serving a reviewer's request
    NoProposal,   \* what a thread at rest works on
    MaxRequests,  \* bound: requests served
    MaxFaults,    \* bound: commits that raise
    MaxCrashes    \* bound: crashes of the process

Field == [name : Names, kind : {"scalar", "array"}, required : BOOLEAN]

ASSUME GovernanceAssumption ==
    /\ Reference \subseteq Field
    /\ NoProposal \notin Proposals

VARIABLES
    versions,   \* schema_versions of the type, at their minor numbers
    proposals,  \* schema_proposal_records and the drafts held in graph states
    requests,   \* what each thread does
    spent       \* how much of each bound is used

vars == <<versions, proposals, requests, spent>>

Version == [fields : SUBSET Field, active : BOOLEAN]

Statuses == {"none", "draft", "pending", "approved", "rejected"}
Decided == {"approved", "rejected"}
Proposal == [status : Statuses, additions : SUBSET Names, relaxed : SUBSET Names]

\* "approve": the proposal is loaded; "based": so is the active version;
\* "flushed": that row is updated and locked; "applied": the first commit is done.
Request == [at       : {"idle", "approve", "based", "flushed", "applied", "reject"},
            proposal : Proposals \cup {NoProposal},
            base     : Nat]

Resting == [at |-> "idle", proposal |-> NoProposal, base |-> 0]

TypeOK ==
    /\ versions \in Seq(Version)
    /\ proposals \in [Proposals -> Proposal]
    /\ requests \in [Requests -> Request]
    /\ spent \in [requests : Nat, faults : Nat, crashes : Nat]

Init ==
    /\ versions = <<[fields |-> Reference, active |-> TRUE]>>
    /\ proposals = [p \in Proposals |-> [status |-> "none", additions |-> {},
                                         relaxed |-> {}]]
    /\ requests = [r \in Requests |-> Resting]
    /\ spent = [requests |-> 0, faults |-> 0, crashes |-> 0]

-----------------------------------------------------------------------------
NamesOf(fields) == {f.name : f \in fields}
Scalars(fields) == {f \in fields : f.kind = "scalar"}
RequiredOf(fields) == NamesOf({f \in fields : f.required})

Active == {n \in DOMAIN versions : versions[n].active}

\* diff_schema: array fields are neither matched nor relaxed.
Additions(labels, fields) == labels \ NamesOf(Scalars(fields))

Relaxed(labels, fields) == RequiredOf(Scalars(fields)) \ labels

\* Mutant: a relaxed field is made required again when it is not relaxed anew.
ApplyTightening(fields, proposal) ==
    {[f EXCEPT !.required = f.name \notin proposal.relaxed] : f \in fields}
        \cup {[name |-> n, kind |-> "scalar", required |-> FALSE] :
                n \in proposal.additions \ NamesOf(Scalars(fields))}

\* apply_diff: reference plus additions, relaxed fields made optional.
Apply(fields, proposal) ==
    LET extended == fields \cup
            {[name |-> n, kind |-> "scalar", required |-> FALSE] :
                n \in proposal.additions \ NamesOf(Scalars(fields))}
    IN  {[f EXCEPT !.required = @ /\ f.name \notin proposal.relaxed] : f \in extended}

Spend(bound, limit) ==
    /\ spent[bound] < limit
    /\ spent' = [spent EXCEPT ![bound] = @ + 1]

Goto(r, at) == requests' = [requests EXCEPT ![r].at = at]
Rest(r) == requests' = [requests EXCEPT ![r] = Resting]

-----------------------------------------------------------------------------
(* The pipeline *)

\* _build_schema_proposal: an empty diff drafts nothing.
Discover(p, labels) ==
    /\ proposals[p].status = "none"
    /\ \E n \in Active :
         LET fields == versions[n].fields
         IN  /\ Additions(labels, fields) # {} \/ Relaxed(labels, fields) # {}
             /\ proposals' = [proposals EXCEPT
                                ![p] = [status    |-> "draft",
                                        additions |-> Additions(labels, fields),
                                        relaxed   |-> Relaxed(labels, fields)]]
    /\ UNCHANGED <<versions, requests, spent>>

\* Phase A of write_output inserts what the graph state carried.
WriteProposal(p) ==
    /\ proposals[p].status = "draft"
    /\ proposals' = [proposals EXCEPT ![p].status = "pending"]
    /\ UNCHANGED <<versions, requests, spent>>

-----------------------------------------------------------------------------
(* approve_proposal *)

\* A proposal that is not pending is answered 409 and nothing changes.
LoadProposal(r, p, at) ==
    /\ requests[r].at = "idle"
    /\ Spend("requests", MaxRequests)
    /\ proposals[p].status = "pending"
    /\ requests' = [requests EXCEPT ![r] = [at |-> at, proposal |-> p, base |-> 0]]
    /\ UNCHANGED <<versions, proposals>>

\* The active row; there is one for every type that has a proposal.
LoadActive(r) ==
    /\ requests[r].at = "approve"
    /\ \E n \in Active :
         requests' = [requests EXCEPT ![r].at = "based", ![r].base = n]
    /\ UNCHANGED <<versions, proposals, spent>>

\* The base is deactivated and flushed: its row stays locked until the commit.
Flush(r) ==
    /\ requests[r].at = "based"
    /\ \A q \in Requests : requests[q].at = "flushed" => requests[q].base # requests[r].base
    /\ Goto(r, "flushed")
    /\ UNCHANGED <<versions, proposals, spent>>

\* Mutant: the number of the new version is not checked against the others.
InsertableAlways(base) == TRUE

\* uq_schema_versions_doc_type_version and one_active_per_doctype.
Insertable(base) == base + 1 \notin DOMAIN versions /\ Active \subseteq {base}

Row(fields) == [fields |-> fields, active |-> TRUE]

\* Mutant: the base is not deactivated.
SuccessorBeside(base, row) ==
    [n \in DOMAIN versions \cup {base + 1} |->
        IF n = base + 1 THEN row ELSE versions[n]]

\* The base is not active any more and its successor is.
Successor(base, row) ==
    [n \in DOMAIN versions \cup {base + 1} |->
        CASE n = base + 1 -> row
          [] n = base     -> [versions[n] EXCEPT !.active = FALSE]
          [] OTHER        -> versions[n]]

\* The first commit; or an index refuses the insert, or the commit raises: the
\* session is closed, which rolls back.
ApplyDiff(r) ==
    LET p == requests[r].proposal
        base == requests[r].base
    IN  /\ requests[r].at = "flushed"
        /\ \/ /\ Insertable(base)
              /\ versions' = Successor(base, Row(Apply(versions[base].fields, proposals[p])))
              /\ Goto(r, "applied")
              /\ UNCHANGED spent
           \/ /\ ~Insertable(base)
              /\ Rest(r)
              /\ UNCHANGED <<versions, spent>>
           \/ /\ Spend("faults", MaxFaults)
              /\ Rest(r)
              /\ UNCHANGED versions
        /\ UNCHANGED proposals

\* The second commit; the status is written whatever it is by now.
Approve(r) ==
    /\ requests[r].at = "applied"
    /\ Rest(r)
    /\ \/ /\ proposals' = [proposals EXCEPT ![requests[r].proposal].status = "approved"]
          /\ UNCHANGED spent
       \/ Spend("faults", MaxFaults) /\ UNCHANGED proposals
    /\ UNCHANGED versions

\* Mutant: a status the enumeration ProposalStatus does not have.
RejectMisspelt(r) ==
    /\ requests[r].at = "reject"
    /\ Rest(r)
    /\ proposals' = [proposals EXCEPT ![requests[r].proposal].status = "reject"]
    /\ UNCHANGED <<versions, spent>>

\* reject_proposal.
Reject(r) ==
    /\ requests[r].at = "reject"
    /\ Rest(r)
    /\ \/ /\ proposals' = [proposals EXCEPT ![requests[r].proposal].status = "rejected"]
          /\ UNCHANGED spent
       \/ Spend("faults", MaxFaults) /\ UNCHANGED proposals
    /\ UNCHANGED versions

\* Open transactions are rolled back; drafts survive in checkpoints.
Crash ==
    /\ Spend("crashes", MaxCrashes)
    /\ requests' = [r \in Requests |-> Resting]
    /\ UNCHANGED <<versions, proposals>>

-----------------------------------------------------------------------------
Serve(r) == \/ \E p \in Proposals, at \in {"approve", "reject"} : LoadProposal(r, p, at)
            \/ LoadActive(r) \/ Flush(r) \/ ApplyDiff(r) \/ Approve(r) \/ Reject(r)

Next == \/ \E p \in Proposals : \/ \E labels \in SUBSET Names : Discover(p, labels)
                                \/ WriteProposal(p)
        \/ \E r \in Requests : Serve(r)
        \/ Crash

Spec == Init /\ [][Next]_vars

-----------------------------------------------------------------------------
(***************************************************************************)
(* However approvals overlap and fail, exactly one version is active, the  *)
(* newest, and no number is skipped (schema_diff_agent.py, "atomically     *)
(* flip is_active").                                                       *)
(***************************************************************************)
NewestIsActive == Active = {n \in DOMAIN versions : \A m \in DOMAIN versions : m <= n}

(***************************************************************************)
(* No update is lost: what an approved proposal added or relaxed is so in  *)
(* the active schema, although later approvals were applied to it and may  *)
(* have been drafted before it.                                            *)
(***************************************************************************)
ApprovedIsInForce ==
    \A p \in Proposals, n \in Active :
        proposals[p].status = "approved" =>
            /\ proposals[p].additions \subseteq NamesOf(versions[n].fields)
            /\ proposals[p].relaxed \cap RequiredOf(versions[n].fields) = {}

(***************************************************************************)
(* A document that satisfied the schema still does: a step never makes a   *)
(* field of the active version required, nor forgets one.                  *)
(***************************************************************************)
SchemaOnlyLoosens ==
    [][\A n \in Active, m \in Active' :
            /\ NamesOf(versions[n].fields) \subseteq NamesOf(versions'[m].fields)
            /\ RequiredOf(versions'[m].fields) \subseteq RequiredOf(versions[n].fields)]_vars

(***************************************************************************)
(* schema_proposals.py:77-78 and :120-121, "Proposal is already ...": what *)
(* is approved or rejected is not decided again.                           *)
(***************************************************************************)
DecidedOnce ==
    [][\A p \in Proposals : proposals[p].status \in Decided =>
            proposals'[p].status = proposals[p].status]_vars
=============================================================================
