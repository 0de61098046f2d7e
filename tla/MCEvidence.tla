------------------------------ MODULE MCEvidence ------------------------------
(***************************************************************************)
(* Replies for TLC.  Sure ones, which are not voted on, run through every  *)
(* combination of a few values; unsure ones are few, so that any three     *)
(* replies of a document meet in a vote.                                   *)
(***************************************************************************)
EXTENDS Evidence

CONSTANT SchemaFieldsOnly  \* the replies name the fields of the YAML schemas only

Reply(form, fields, confidence) ==
    [form |-> form, fields |-> fields, confidence |-> confidence]

Sure(documents) == {Reply("envelope", fields, 90) : fields \in documents}

\* The band and its borders, an absent confidence and one of 0; a vote between them
\* has ties, agreements of two, and samples without a field (less).
Around(good, other, less) ==
    {Reply("envelope", good, 60), Reply("envelope", other, 84), Reply("flat", less, 70),
     Reply("envelope", other, 59), Reply("envelope", less, 85),
     Reply("flat", good, 0), Reply("flat", other, NoConfidence)}

\* The passport: its line as printed, and with any one of its characters misread.
Printed == [code |-> <<2, 8, 4, 0, 5, 11, 7, 3, 6>>, digit |-> 2]
Misreadings == {[Printed EXCEPT !.code[i] = v] : i \in 1..9, v \in 0..9}
Passport(line, issue, expiry, birth) ==
    [mrz_line2 |-> line, date_of_issue |-> issue, date_of_expiry |-> expiry,
     date_of_birth |-> birth]

PassportReplies ==
    Sure({Passport(line, 2, 3, 1) : line \in Misreadings \cup {Null, Garbled}})
    \cup Sure({Passport(Printed, issue, expiry, birth) :
                 issue \in {Null, 2}, expiry \in {Garbled, 1, 3}, birth \in {Null, 3}})
    \cup Around(Passport(Printed, 2, 3, 1),
                Passport([Printed EXCEPT !.code[1] = 7], 2, 1, 1),
                [mrz_line2 |-> Printed, date_of_issue |-> 2, date_of_birth |-> 1])

\* 27AAPFU0939F1ZV, and with a character of it misread.
Seller == [code |-> <<2, 7, 10, 10, 25, 15, 30, 0, 9, 3, 9, 15, 1, 35>>, check |-> 31]
Invoice(gstin, subtotal, tax, total, alias) ==
    [seller_gstin |-> gstin, subtotal |-> subtotal, tax_amount |-> tax,
     invoice_total |-> total, total_amount |-> alias]
SchemaInvoice(taxable, half, total) ==
    [seller_gstin |-> Seller, taxable_value |-> taxable, cgst |-> half, sgst |-> half,
     igst |-> 0, total_amount |-> total]

InvoiceReplies ==
    IF SchemaFieldsOnly
    THEN Sure({SchemaInvoice(taxable, half, total) :
                 taxable \in {50, 100}, half \in 0..9, total \in {100, 118}})
    ELSE Sure({Invoice(Seller, subtotal, tax, total, alias) :
                 subtotal \in {Garbled, 0, 100}, tax \in {Null, 0, 18},
                 total \in {Null, 0, 100}, alias \in {100, 118}})
         \cup Sure({Invoice(gstin, 100, 18, 118, Null) :
                 gstin \in {Garbled, Number, [Seller EXCEPT !.code[3] = 11]}})
         \cup Around(Invoice(Seller, 100, 18, 118, Null), Invoice(Seller, 100, 18, 100, 118),
                     [seller_gstin |-> Seller, subtotal |-> 118, total_amount |-> 118])

Row(amount, balance) == [amount |-> amount, balance |-> balance]
Rows == {Null, Garbled, <<>>, <<Row(18, Null)>>, <<Row(18, 118)>>,
         <<Row(18, 118), Row(-18, 100)>>, <<Row(18, 118), Row(-18, Null)>>}
Statement(opening, closing, rows, start, end) ==
    [opening_balance |-> opening, closing_balance |-> closing, transactions |-> rows,
     statement_period_start |-> start, statement_period_end |-> end]

StatementReplies ==
    Sure({Statement(opening, closing, rows, 1, 2) :
            opening \in {Null, 100}, closing \in {Null, 100, 118}, rows \in Rows})
    \cup Sure({Statement(100, 100, <<>>, start, end) :
            start \in {1, 2}, end \in {Null, Garbled, 1}})
    \cup Around(Statement(100, 118, <<Row(18, 118)>>, 1, 2),
                Statement(100, 100, <<Row(18, Null)>>, 1, 2),
                [opening_balance |-> 100, transactions |-> Null,
                 statement_period_start |-> 1, statement_period_end |-> 2])

Slip(basic, gross, allowances, pan) ==
    [basic_salary |-> basic, gross_salary |-> gross, allowances |-> allowances, pan |-> pan]

SlipReplies ==
    Sure({Slip(basic, gross, allowances, pan) :
            basic \in {Null, 0, 100}, gross \in {Null, 0, 100, 118},
            allowances \in {Null, Garbled, <<>>, <<9, 9>>}, pan \in {Number}})
    \cup Around(Slip(100, 118, <<18>>, WellFormed), Slip(100, 100, Null, Garbled),
                [basic_salary |-> 100, gross_salary |-> 118])

Years == {Null, Garbled, Number, 2024, 2025}
TaxReturn(pan, ay, fy) ==
    [pan_number |-> pan, assessment_year |-> ay, financial_year |-> fy]

ReturnReplies ==
    Sure({TaxReturn(pan, ay, fy) : pan \in {WellFormed}, ay \in Years, fy \in Years})
    \cup Around(TaxReturn(WellFormed, 2025, 2024), TaxReturn(WellFormed, 2024, 2025),
                [assessment_year |-> 2025, financial_year |-> 2025])

Deed(execution, registration) ==
    [execution_date |-> execution, registration_date |-> registration]

DeedReplies ==
    Sure({Deed(execution, registration) : execution, registration \in {Null, Garbled, 1, 2}})
    \cup Around(Deed(1, 2), Deed(2, 1), [registration_date |-> 1])

\* A type without verifiers.
CardReplies == Around([name |-> WellFormed], [name |-> Garbled], [number |-> Number])

RepliesByType ==
    [passport |-> PassportReplies, gst_invoice |-> InvoiceReplies,
     bank_statement |-> StatementReplies, salary_slip |-> SlipReplies,
     itr |-> ReturnReplies, property_deed |-> DeedReplies, aadhaar |-> CardReplies]

AllTypes == {"passport", "gst_invoice", "bank_statement", "salary_slip", "itr",
             "property_deed", "aadhaar"}
Invoices == {"gst_invoice"}

\* The required fields the verifiers read; the optional ones play no part but in the
\* claim about the schema's fields.
RequiredByType ==
    [passport |-> {"date_of_issue", "date_of_expiry", "date_of_birth"},
     gst_invoice |-> IF SchemaFieldsOnly THEN {"seller_gstin", "taxable_value", "total_amount"}
                     ELSE {"seller_gstin", "total_amount"},
     bank_statement |-> {"opening_balance", "closing_balance", "statement_period_start",
                         "statement_period_end"},
     salary_slip |-> {"basic_salary"}, itr |-> {"pan_number", "assessment_year"},
     property_deed |-> {"registration_date"}, aadhaar |-> {"name"}]

OptionalByType ==
    [passport |-> {"mrz_line2"}, gst_invoice |-> {"cgst", "sgst", "igst"},
     bank_statement |-> {"transactions"}, salary_slip |-> {}, itr |-> {},
     property_deed |-> {}, aadhaar |-> {}]

Lists == {"transactions", "allowances"}
=============================================================================
