------------------------------- MODULE Evidence -------------------------------
(***************************************************************************)
(* What the truth engine makes of an extraction: the fields the agent      *)
(* returned run through the verifiers of the document type and the fusion  *)
(* of TruthEngine (pipelines/nodes/truth_engine.py).  Where Pipeline takes *)
(* any extraction and knows of a value only whether its verifiers accept   *)
(* it, this module follows the values from the model's replies.            *)
(***************************************************************************)
EXTENDS ExtractionAgent

CONSTANTS
    Garbled, Number, WellFormed,  \* values, see Verifiers
    RequiredOf,          \* [DocTypes -> sets of field names], config/schemas
    OptionalOf,          \* [DocTypes -> sets of field names]
    ConfidenceThreshold, \* settings.CONFIDENCE_THRESHOLD, in 1/10000
    Certainty,           \* confidence of the classification, in percent
    PrintedLine          \* the machine-readable line the passport shows

Checks == INSTANCE Verifiers

\* Only the operators that look neither at values nor at the set of all fields.
Truth == INSTANCE TruthEngine WITH
    Fields      <- {},
    Verifiers   <- {},
    VerifiersOf <- [dt \in DocTypes |-> {}],
    Reads       <- [v \in {} |-> {}],
    NoReport    <- Null

\* The document number is printed with its check digit.
ASSUME PrintedAssumption ==
    /\ PrintedLine.code \in [1..9 -> 0..35]
    /\ DOMAIN PrintedLine = {"code", "digit"}
    /\ PrintedLine.digit = Checks!MrzDigit(PrintedLine.code)

\* What a value that can be read is: rows with an amount each and a running balance
\* or none, and an amount.
Contents == [transactions |-> Seq([amount : Int, balance : Int \cup {Null}]),
             basic_salary |-> Int]

ASSUME ValuesAssumption ==
    /\ Null # Garbled
    /\ \A dt \in DocTypes : \A r \in RepliesOf[dt] :
          \A f \in DOMAIN r.fields \cap DOMAIN Contents :
              r.fields[f] \in {Null, Garbled, Number} \cup Contents[f]

Verdicts == Checks!Verdicts(doc_type, result.fields)

Having(verdict) == {v \in DOMAIN Verdicts : Verdicts[v] = verdict}

\* The truth report of the extraction just returned.
TruthReport ==
    [failed     |-> Having("failed"),
     missing    |-> Truth!Missing(doc_type, result.fields),
     additional |-> Truth!Additional(doc_type, result.fields),
     coverage   |-> Truth!Coverage(doc_type, result.fields),
     confidence |-> Truth!Fuse(Certainty, result.confidence,
                               Truth!CoverageTerm(doc_type, result.fields),
                               Having("failed"), Having("passed"))]

Completed == result.done /\ Truth!DocumentStatus(TruthReport) = "completed"

-----------------------------------------------------------------------------
TypeOK ==
    /\ doc_type \in DocTypes
    /\ Len(samples) <= 3
    /\ \A i \in DOMAIN samples : /\ samples[i].success \in BOOLEAN
                                 /\ samples[i].confidence \in Int
    /\ attempt \in 0..LLMRetries
    /\ calls \in Nat
    /\ result.done \in BOOLEAN /\ result.success \in BOOLEAN
    /\ result.confidence \in Int

(***************************************************************************)
(* However the model fails, an extraction costs at most three samples of   *)
(* 1 + _MAX_RETRIES remote calls, and no sample is taken without a call.   *)
(***************************************************************************)
CallBudget ==
    /\ calls <= 3 * (LLMRetries + 1)
    /\ Len(samples) <= calls

(***************************************************************************)
(* The two extra samples can only help: what extract() returns is rated at *)
(* least as high as its first sample, by the rating of a sample that       *)
(* succeeded, and it fails only if the first sample did.                   *)
(***************************************************************************)
RatedByASample ==
    result.done =>
        /\ result.success = samples[1].success
        /\ result.confidence >= samples[1].confidence
        /\ result.success => \E i \in DOMAIN samples :
              samples[i].success /\ samples[i].confidence = result.confidence

Answers(i, f) == Get(samples[i].data, f)

(***************************************************************************)
(* Two samples that give the same scalar for a field outvote the third,    *)
(* however sure of itself that one is (self_consistency.py:38-42).         *)
(***************************************************************************)
AgreementStands ==
    result.done /\ Len(samples) = 3 =>
        \A i, j \in DOMAIN samples : \A f \in DOMAIN samples[i].data :
            i # j /\ f \notin ListFields /\ Answers(i, f) = Answers(j, f)
                => Get(result.fields, f) = Answers(i, f)

(***************************************************************************)
(* One sample that failed costs nothing: a field both others gave a value  *)
(* has one of their values, although the failed one votes for no value.    *)
(* (Two that failed outvote the third, and every field becomes null.)      *)
(***************************************************************************)
OneFailureCostsNothing ==
    \A i, j \in DOMAIN samples :
        /\ result.done /\ Len(samples) = 3 /\ i # j
        /\ samples[i].success /\ samples[j].success
        /\ \E k \in DOMAIN samples : ~samples[k].success
        => \A f \in DOMAIN samples[i].data \cap DOMAIN samples[j].data :
              (Null \notin {Answers(i, f), Answers(j, f)})
                => (Get(result.fields, f) \in {Answers(i, f), Answers(j, f)})

Shown(f) == Get(result.fields, f)
Given(names) == \A f \in names : Shown(f) \notin {Null, Garbled, Number}

InvoiceAddsUp ==
    Given({"subtotal", "tax_amount", "invoice_total"})
      /\ 0 \notin {Shown("subtotal"), Shown("tax_amount"), Shown("invoice_total")}
    => Shown("subtotal") + Shown("tax_amount") = Shown("invoice_total")

StatementCloses ==
    LET rows == Shown("transactions")
        last == rows[Len(rows)].balance
    IN  /\ Given({"statement_period_start", "statement_period_end"})
           => Shown("statement_period_start") < Shown("statement_period_end")
        /\ Given({"opening_balance", "closing_balance", "transactions"})
           => rows = <<>> \/ last \in {Null, Shown("closing_balance")}

SlipAddsUp ==
    Given({"basic_salary", "gross_salary"}) /\ Shown("allowances") = Null
      /\ 0 \notin {Shown("basic_salary"), Shown("gross_salary")}
    => Shown("basic_salary") = Shown("gross_salary")

YearsFollow ==
    Given({"assessment_year", "financial_year"})
    => Shown("assessment_year") = Shown("financial_year") + 1

DeedIsOrdered ==
    Given({"execution_date", "registration_date"})
    => Shown("execution_date") <= Shown("registration_date")

(***************************************************************************)
(* The vote mixes fields of different samples, the verifiers prefer one    *)
(* alias to another and skip what they cannot read: still what a completed *)
(* document shows is consistent, except for amounts of 0.                  *)
(***************************************************************************)
CompletedIsConsistent ==
    Completed => CASE doc_type = "gst_invoice"    -> InvoiceAddsUp
                   [] doc_type = "bank_statement" -> StatementCloses
                   [] doc_type = "salary_slip"    -> SlipAddsUp
                   [] doc_type = "itr"            -> YearsFollow
                   [] doc_type = "property_deed"  -> DeedIsOrdered
                   [] OTHER                       -> TRUE

(***************************************************************************)
(* A machine-readable line of which one digit was misread never belongs to *)
(* a completed passport, unless the vote put the misreading right.         *)
(***************************************************************************)
Misread(line) ==
    \E i \in 1..9 :
        /\ line = [PrintedLine EXCEPT !.code[i] = line.code[i]]
        /\ line.code[i] \in (0..9) \ {PrintedLine.code[i]}
        /\ PrintedLine.code[i] \in 0..9

MisreadIsCaught ==
    Completed /\ doc_type = "passport" /\ Given({"mrz_line2"})
    => ~Misread(Shown("mrz_line2"))

(***************************************************************************)
(* Claim of the documentation (see README): the verifiers registered for a *)
(* type check its documents.  A completed document that has a readable     *)
(* value for every field of its reference schema was checked by them.      *)
(***************************************************************************)
CompletedIsVerified ==
    Completed /\ Given(RequiredOf[doc_type] \cup OptionalOf[doc_type])
    => Having("skipped") = {}
=============================================================================
