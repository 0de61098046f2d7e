------------------------------- MODULE Verifiers -------------------------------
(***************************************************************************)
(* The deterministic verifiers (agents/verifiers.py) and what they are     *)
(* given (pipelines/truth_engine/verifier_registry.py), per document type. *)
(*                                                                         *)
(* A field value is Null, Garbled (a text no parser accepts), Number (a    *)
(* JSON number where a text is expected), or the parsed content: an amount *)
(* in whole currency units, so that the tolerance of 0.01 is equality; a   *)
(* date as a day; a financial year by its first year; WellFormed for a     *)
(* text a pattern accepts; the character values of a checksummed code.     *)
(***************************************************************************)
EXTENDS Integers, Sequences

CONSTANTS Null, Garbled, Number, WellFormed

ValueOf(fields, f) == IF f \in DOMAIN fields THEN fields[f] ELSE Null

Readable(v) == v \notin {Null, Garbled}

Outcome(valid) == IF valid THEN "passed" ELSE "failed"

-----------------------------------------------------------------------------
(* Aliases of a field *)

\* a or b: the first alias of texts that is not empty.
OrText(fields, names) ==
    LET given == {i \in DOMAIN names : ValueOf(fields, names[i]) # Null}
    IN  IF given = {} THEN Null
        ELSE ValueOf(fields, names[CHOOSE i \in given : \A j \in given : i <= j])

\* Mutant: an alias overrides the field itself.
OrAmountLast(fields, names) ==
    LET given == {i \in DOMAIN names : ValueOf(fields, names[i]) \notin {Null, 0}}
    IN  IF given = {} THEN ValueOf(fields, names[Len(names)])
        ELSE ValueOf(fields, names[CHOOSE i \in given : \A j \in given : i >= j])

\* The same of amounts: 0 is false too, and `or` returns its last operand if none is
\* true, so a 0 counts as absent unless it stands under the last alias.
OrAmount(fields, names) ==
    LET given == {i \in DOMAIN names : ValueOf(fields, names[i]) \notin {Null, 0}}
    IN  IF given = {} THEN ValueOf(fields, names[Len(names)])
        ELSE ValueOf(fields, names[CHOOSE i \in given : \A j \in given : i <= j])

\* The balances of a statement are tested with `is not None` instead.
OrBalance(fields, name, alias) ==
    IF ValueOf(fields, name) # Null THEN ValueOf(fields, name) ELSE ValueOf(fields, alias)

-----------------------------------------------------------------------------
(* Checksums *)

\* ICAO 9303 over the document number, characters 0-8 of mrz_line2, weights 7 3 1.
MrzDigit(code) ==
    (7 * (code[1] + code[4] + code[7]) + 3 * (code[2] + code[5] + code[8])
       + code[3] + code[6] + code[9]) % 10

\* Mutant: the last character of the number is left out of the sum.
MrzChecksumOfEight(fields) ==
    LET line == ValueOf(fields, "mrz_line2")
    IN  IF ~Readable(line) THEN "skipped"
        ELSE Outcome(MrzDigit([line.code EXCEPT ![9] = 0]) = line.digit)

\* A line too short, or without a digit at the place of the check digit, is Garbled.
MrzChecksum(fields) ==
    LET line == ValueOf(fields, "mrz_line2")
    IN  IF ~Readable(line) THEN "skipped"
        ELSE Outcome(MrzDigit(line.code) = line.digit)

\* The digit sum in base 36 of twice a character value.
Doubled(c) == ((2 * c) \div 36) + ((2 * c) % 36)

\* The check character of a GSTIN from its first 14, alternately doubled.
GstinCheck(code) ==
    (36 - ((code[1] + code[3] + code[5] + code[7] + code[9] + code[11] + code[13]
             + Doubled(code[2]) + Doubled(code[4]) + Doubled(code[6]) + Doubled(code[8])
             + Doubled(code[10]) + Doubled(code[12]) + Doubled(code[14])) % 36)) % 36

\* A text of another length or format is refused; a number has no strip(), and the
\* exception is reported as not attempted.
GstinChecksum(fields) ==
    LET gstin == OrText(fields, <<"gstin", "seller_gstin">>)
    IN  IF gstin \in {Null, Number} THEN "skipped"
        ELSE Outcome(gstin # Garbled /\ GstinCheck(gstin.code) = gstin.check)

-----------------------------------------------------------------------------
(* Formats *)

PanValidation(fields, names) ==
    LET pan == OrText(fields, names)
    IN  IF pan \in {Null, Number} THEN "skipped" ELSE Outcome(pan = WellFormed)

\* Only the years before the dash are compared.
AyFyConsistency(fields) ==
    LET ay == OrText(fields, <<"assessment_year", "ay">>)
        fy == OrText(fields, <<"financial_year", "fy">>)
    IN  IF {ay, fy} \cap {Null, Number} # {} THEN "skipped"
        ELSE Outcome(ay # Garbled /\ fy # Garbled /\ ay = fy + 1)

-----------------------------------------------------------------------------
(* Dates: what dateutil cannot parse, a number too, is Garbled *)

\* Some pair was comparable, and all that were are in order.
DatesInOrder(pairs) == pairs # {} /\ \A p \in pairs : p[1] < p[2]

PassportDates(fields) ==
    LET issue  == ValueOf(fields, "date_of_issue")
        expiry == ValueOf(fields, "date_of_expiry")
        birth  == ValueOf(fields, "date_of_birth")
    IN  IF issue = Null \/ expiry = Null THEN "skipped"
        ELSE Outcome(DatesInOrder({p \in {<<issue, expiry>>, <<birth, issue>>} :
                                       Readable(p[1]) /\ Readable(p[2])}))

StatementPeriod(fields) ==
    LET start == OrText(fields, <<"statement_period_start", "statement_start_date",
                                  "period_start">>)
        end == OrText(fields, <<"statement_period_end", "statement_end_date",
                                "period_end">>)
    IN  IF start = Null \/ end = Null THEN "skipped"
        ELSE Outcome(Readable(start) /\ Readable(end) /\ start < end)

DeedDates(fields) ==
    LET execution == OrText(fields, <<"execution_date", "deed_date">>)
        registration == ValueOf(fields, "registration_date")
    IN  IF execution = Null \/ registration = Null THEN "skipped"
        ELSE Outcome(Readable(execution) /\ Readable(registration)
                       /\ execution <= registration)

-----------------------------------------------------------------------------
(* Arithmetic *)

Total(amounts) ==
    LET sum[n \in 0..Len(amounts)] == IF n = 0 THEN 0 ELSE sum[n - 1] + amounts[n]
    IN  sum[Len(amounts)]

InvoiceTotal(fields) ==
    LET subtotal == OrAmount(fields, <<"subtotal", "taxable_value">>)
        tax == OrAmount(fields, <<"tax_amount", "total_tax">>)
        total == OrAmount(fields, <<"invoice_total", "total_amount", "grand_total">>)
    IN  IF Readable(subtotal) /\ Readable(tax) /\ Readable(total)
        THEN Outcome(subtotal + tax = total) ELSE "skipped"

\* Allowances are a list of amounts, or absent.
GrossConsistency(fields) ==
    LET basic == OrAmount(fields, <<"basic_salary", "basic">>)
        gross == OrAmount(fields, <<"gross_salary", "gross">>)
        allowances == ValueOf(fields, "allowances")
    IN  IF Readable(basic) /\ Readable(gross) /\ allowances # Garbled
        THEN Outcome(basic + (IF allowances = Null THEN 0 ELSE Total(allowances)) = gross)
        ELSE "skipped"

\* The last row with a running balance is the computed closing balance, and the
\* opening one cancels out; without such a row the signed amounts are added up.
ClosingBy(opening, rows) ==
    LET running == {i \in DOMAIN rows : rows[i].balance # Null}
    IN  IF running # {}
        THEN rows[CHOOSE i \in running : \A j \in running : i >= j].balance
        ELSE opening + Total([i \in DOMAIN rows |-> rows[i].amount])

BalanceArithmetic(fields) ==
    LET opening == OrBalance(fields, "opening_balance", "opening")
        closing == OrBalance(fields, "closing_balance", "closing")
        rows == ValueOf(fields, "transactions")
    IN  IF Readable(opening) /\ Readable(closing) /\ rows # Garbled
        THEN Outcome(ClosingBy(opening, IF rows = Null THEN <<>> ELSE rows) = closing)
        ELSE "skipped"

-----------------------------------------------------------------------------
(* verifier_registry: the verifiers of a document type, with their verdicts *)

Verdicts(dt, fields) ==
    CASE dt = "passport" ->
            [mrz_checksum              |-> MrzChecksum(fields),
             passport_date_consistency |-> PassportDates(fields)]
      [] dt = "bank_statement" ->
            [balance_arithmetic        |-> BalanceArithmetic(fields),
             statement_period_ordering |-> StatementPeriod(fields)]
      [] dt = "gst_invoice" ->
            [gstin_checksum            |-> GstinChecksum(fields),
             invoice_total_consistency |-> InvoiceTotal(fields)]
      [] dt = "salary_slip" ->
            [gross_consistency |-> GrossConsistency(fields),
             pan_validation    |-> PanValidation(fields, <<"pan", "employee_pan">>)]
      [] dt = "itr" ->
            [pan_validation    |-> PanValidation(fields, <<"pan", "pan_number">>),
             ay_fy_consistency |-> AyFyConsistency(fields)]
      [] dt = "property_deed" ->
            [deed_date_consistency |-> DeedDates(fields)]
      [] OTHER -> [v \in {} |-> "skipped"]
=============================================================================
