-------------------------------- MODULE Engine --------------------------------
(***************************************************************************)
(* The deterministic reconciliation engine: one bill against one purchase   *)
(* order, decided in one call.  The interest is in its inputs: Called takes *)
(* every one, Decide is the call, and the properties compare the decision   *)
(* with the documents, and with the decision on documents changed slightly. *)
(*                                                                          *)
(* A text stands for what normalise_strict makes of a description, an item  *)
(* for an item code trimmed and casefolded.  Amounts are whole cents.       *)
(***************************************************************************)
EXTENDS Integers, Sequences, FiniteSets, FiniteSetsExt, Functions

CONSTANTS
  LooseOf,      \* each text without its punctuation, normalise_loose
  TooLong,      \* texts over MAX_RESIDUAL_DESCRIPTION_CHARS
  Chart,        \* the account codes of the chart of accounts
  Malformed,    \* account codes that fail ACCOUNT_CODE_PATTERN
  Input         \* the calls: the lines of a bill and of an order, and a heading,
                \* which is the rest of both and what the caller looked up

VARIABLES
  input,     \* the call's arguments: the lines of both documents and a heading
  decision   \* its ReconciliationResult

call == <<input, decision>>

-----------------------------------------------------------------------------
(* Codes and tables                                                         *)

UnprocessableReason ==
  <<"NOT_A_SUPPLIER_BILL", "BILL_STATUS_NOT_ELIGIBLE", "CONTRACT_INVALID",
    "MISSING_INVOICE_NUMBER">>

DUPLICATE == {"DUPLICATE_INVOICE_NUMBER", "DUPLICATE_BUSINESS_KEY"}

CURRENCY == {"CURRENCY_MISMATCH"}

PROCUREMENT ==
  {"NO_PO_REFERENCE", "PO_NOT_FOUND", "PO_NOT_ALLOW_LISTED", "PO_STATUS_NOT_ELIGIBLE",
   "SUPPLIER_MISMATCH", "QUANTITY_VARIANCE", "UNIT_PRICE_VARIANCE", "LINE_AMOUNT_VARIANCE"}

FINANCE ==
  {"TAX_TYPE_MISMATCH", "MISSING_TAX_TYPE", "LINE_TAX_VARIANCE",
   "MISSING_BILL_ACCOUNT_CODE", "INVALID_BILL_ACCOUNT_CODE", "UNKNOWN_BILL_ACCOUNT_CODE",
   "MISSING_PO_ACCOUNT_CODE", "INVALID_PO_ACCOUNT_CODE", "UNKNOWN_PO_ACCOUNT_CODE",
   "ACCOUNT_CODE_MISMATCH"}

AP_REVIEW == {"LINE_COUNT_MISMATCH", "UNPAIRED_LINE", "AMBIGUOUS_MULTIPLE_CANDIDATES"}

AGGREGATE == {"TOTAL_VARIANCE", "TAX_VARIANCE"}

ExceptionCode == DUPLICATE \cup CURRENCY \cup PROCUREMENT \cup FINANCE \cup AP_REVIEW \cup AGGREGATE

\* A RESIDUAL_ code is its paired code found on the residual pair.
Exception == [code: ExceptionCode, residual: BOOLEAN]

Plain(codes) == {[code |-> c, residual |-> FALSE] : c \in codes}

SEMANTIC_BLOCKING_CODES == Plain(ExceptionCode \ {"UNPAIRED_LINE"})

\* Tolerances: quantity and unit price must be equal.
Tolerance == [quantity |-> 0, unit_amount |-> 0, line_amount |-> 1, tax_amount |-> 2]

VarianceCode ==
  [quantity |-> "QUANTITY_VARIANCE", unit_amount |-> "UNIT_PRICE_VARIANCE",
   line_amount |-> "LINE_AMOUNT_VARIANCE", tax_amount |-> "LINE_TAX_VARIANCE"]

TotalTolerance == [total |-> 5, total_tax |-> 2]

TotalCode == [total |-> "TOTAL_VARIANCE", total_tax |-> "TAX_VARIANCE"]

\* A field the document does not give: no amount, no text.
Absent == -1000

None == ""

LineItem ==
  [item: STRING, text: DOMAIN LooseOf, quantity: Int, unit_amount: Int, line_amount: Int,
   tax_amount: Int, tax_type: STRING, account: STRING]

\* failed is what check_bill_eligibility would object to, duplicates what the
\* duplicate check found.
Heading ==
  [bill: [failed: SUBSET Range(UnprocessableReason), supplier: STRING, currency: STRING,
          total: Int, total_tax: Int],
   order: [supplier: STRING, currency: STRING, total: Int, total_tax: Int],
   lookup: [reference: BOOLEAN, found: BOOLEAN, listed: BOOLEAN, eligible: BOOLEAN],
   duplicates: SUBSET DUPLICATE, enabled: BOOLEAN]

\* Every text has a strict and a loose form, and a call two parsed documents.
ASSUME EngineAssumption ==
  /\ LooseOf \in [DOMAIN LooseOf -> STRING]
  /\ Input \subseteq [bill: Seq(LineItem), order: Seq(LineItem), head: Heading]

-----------------------------------------------------------------------------
(* Eligibility                                                              *)

\* The first condition the bill fails, in the code's order.
check_bill_eligibility(bill, lines) ==
  LET failed == bill.failed \cup (IF lines = <<>> THEN {"CONTRACT_INVALID"} ELSE {})
      places == {n \in DOMAIN UnprocessableReason : UnprocessableReason[n] \in failed}
  IN  IF failed = {} THEN None ELSE UnprocessableReason[Min(places)]

check_po_eligibility(lookup) ==
  IF ~lookup.reference THEN {"NO_PO_REFERENCE"}
  ELSE IF ~lookup.found THEN {"PO_NOT_FOUND"}
  ELSE IF ~lookup.listed THEN {"PO_NOT_ALLOW_LISTED"}
  ELSE IF ~lookup.eligible THEN {"PO_STATUS_NOT_ELIGIBLE"} ELSE {}

-----------------------------------------------------------------------------
(* Pairing                                                                  *)

KeyOf(line, tier) == IF tier = "loose" THEN LooseOf[line.text] ELSE line[tier]

\* Mutant: the key need only be unique on the bill.
UniqueOnTheBill(bill, order, left, right, tier) ==
  LET Same(lines, from, key) == {k \in from : KeyOf(lines[k], tier) = key}
      Keyed == {i \in left : KeyOf(bill[i], tier) # None}
      Once(i) == Cardinality(Same(bill, left, KeyOf(bill[i], tier))) = 1
      Twin(i) == Same(order, right, KeyOf(bill[i], tier))
  IN  {<<i, Min(Twin(i))>> : i \in {i \in Keyed : Once(i) /\ Twin(i) # {}}}

\* Lines of the same key, where the key is unique on both sides.
unique_match(bill, order, left, right, tier) ==
  LET Same(lines, from, key) == {k \in from : KeyOf(lines[k], tier) = key}
      Only(lines, from, key) == Cardinality(Same(lines, from, key)) = 1
  IN  {p \in left \X right :
         LET key == KeyOf(bill[p[1]], tier)
         IN  /\ key # None
             /\ KeyOf(order[p[2]], tier) = key
             /\ Only(bill, left, key) /\ Only(order, right, key)}

UnpairedBill(bill, pairs) == {i \in DOMAIN bill : \A p \in pairs : p[1] # i}

UnpairedOrder(order, pairs) == {j \in DOMAIN order : \A p \in pairs : p[2] # j}

\* Mutant: the loose tier is tried before the strict one.
LooseFirst(bill, order) ==
  LET Tier(pairs, tier) ==
        pairs \cup unique_match(bill, order, UnpairedBill(bill, pairs),
                                UnpairedOrder(order, pairs), tier)
  IN  Tier(Tier({}, "item"), "loose")

\* Three tiers in order, each over what the tiers before it left.
pair_lines(bill, order) ==
  LET Tier(pairs, tier) ==
        pairs \cup unique_match(bill, order, UnpairedBill(bill, pairs),
                                UnpairedOrder(order, pairs), tier)
  IN  Tier(Tier(Tier({}, "item"), "text"), "loose")

-----------------------------------------------------------------------------
(* Comparison                                                               *)

within_tolerance(left, right, tolerance) ==
  /\ Absent \notin {left, right}
  /\ left - right \in -tolerance .. tolerance

Variances(bill, order, tolerance, code) ==
  {code[f] : f \in {f \in DOMAIN tolerance : ~within_tolerance(bill[f], order[f], tolerance[f])}}

TaxTypeCodes(bill, order) ==
  IF None \in {bill, order} THEN {"MISSING_TAX_TYPE"}
  ELSE IF bill # order THEN {"TAX_TYPE_MISMATCH"} ELSE {}

\* Two codes are compared only where both are present, well formed and known.
compare_account_codes(bill, order) ==
  LET Fault(account, missing, invalid, unknown) ==
        IF account = None THEN {missing}
        ELSE IF account \in Malformed THEN {invalid}
        ELSE IF account \in Chart THEN {} ELSE {unknown}
      faults ==
        Fault(bill, "MISSING_BILL_ACCOUNT_CODE", "INVALID_BILL_ACCOUNT_CODE",
              "UNKNOWN_BILL_ACCOUNT_CODE")
        \cup
        Fault(order, "MISSING_PO_ACCOUNT_CODE", "INVALID_PO_ACCOUNT_CODE",
              "UNKNOWN_PO_ACCOUNT_CODE")
  IN  IF faults = {} /\ bill # order THEN {"ACCOUNT_CODE_MISMATCH"} ELSE faults

\* Paired lines and the residual pair are compared alike.
compare_line(bill, order) ==
  Variances(bill, order, Tolerance, VarianceCode)
    \cup TaxTypeCodes(bill.tax_type, order.tax_type)
    \cup compare_account_codes(bill.account, order.account)

\* Mutant: only the bill's description is looked at.
BillDescriptionInBounds(bill, order) == bill.text \notin {None} \cup TooLong

DescriptionsInBounds(bill, order) == {bill.text, order.text} \cap ({None} \cup TooLong) = {}

-----------------------------------------------------------------------------
(* The decision                                                             *)

\* Mutant: the totals are consulted with the causes.
RouteTotalsFirst(exceptions) ==
  LET codes == {e.code : e \in exceptions}
  IN  IF codes \cap DUPLICATE # {} THEN "DUPLICATE_REVIEW"
      ELSE IF codes \cap CURRENCY # {} THEN "FINANCE"
      ELSE IF codes \cap (PROCUREMENT \cup {"TOTAL_VARIANCE"}) # {} THEN "PROCUREMENT"
      ELSE IF codes \cap (FINANCE \cup {"TAX_VARIANCE"}) # {} THEN "FINANCE"
      ELSE "AP_REVIEW"

\* Causes first, in precedence; the totals only where nothing else is found.
route(exceptions) ==
  LET codes == {e.code : e \in exceptions}
  IN  IF codes \cap DUPLICATE # {} THEN "DUPLICATE_REVIEW"
      ELSE IF codes \cap CURRENCY # {} THEN "FINANCE"
      ELSE IF codes \cap PROCUREMENT # {} THEN "PROCUREMENT"
      ELSE IF codes \cap FINANCE # {} THEN "FINANCE"
      ELSE IF codes \cap AP_REVIEW # {} THEN "AP_REVIEW"
      ELSE IF "TOTAL_VARIANCE" \in codes THEN "PROCUREMENT" ELSE "FINANCE"

\* The reason kept when a code blocks the model, given the residual pair's.
BlockedReason(reason) ==
  IF reason \in {"RESIDUAL_PAIR_DETERMINISTIC_MISMATCH", "MULTIPLE_RESIDUAL_CANDIDATES"}
  THEN reason ELSE "HEADER_OR_PAIRED_LINE_EXCEPTION"

Silent(outcome, unprocessable) ==
  [outcome |-> outcome, unprocessable |-> unprocessable, exceptions |-> {},
   permitted |-> FALSE, gate |-> "OUTCOME_NOT_REVIEW_REQUIRED", stage |-> "NOT_REQUIRED",
   destination |-> None, reasons |-> {}]

\* The gate, the stage, the team and the reasons, from the exceptions.
finalise(exceptions, enabled, gate) ==
  LET blocked == exceptions \cap SEMANTIC_BLOCKING_CODES # {}
      permitted == ~blocked /\ gate = "RESIDUAL_PAIR_TEXT_ONLY"
      stage == IF ~permitted THEN "NOT_REQUIRED" ELSE IF enabled THEN "PENDING" ELSE "DISABLED"
      ambiguous == {"AMBIGUOUS_MULTIPLE_CANDIDATES"} \cap {e.code : e \in exceptions}
  IN  IF exceptions = {} THEN Silent("MATCHED", None)
      ELSE [outcome |-> "REVIEW_REQUIRED", unprocessable |-> None, exceptions |-> exceptions,
            permitted |-> permitted,
            gate |-> IF blocked THEN BlockedReason(gate) ELSE gate,
            stage |-> stage, destination |-> route(exceptions),
            reasons |-> {"DETERMINISTIC_EXCEPTION"} \cup ambiguous
              \cup (IF stage = "DISABLED" THEN {"SEMANTIC_REVIEW_DISABLED"} ELSE {})]

\* Mutant: an unpaired line counts only where the documents differ in length.
UnpairedByLength(bill, order, pairs) ==
  IF Len(bill) # Len(order) THEN Plain({"LINE_COUNT_MISMATCH", "UNPAIRED_LINE"}) ELSE {}

UnpairedCodes(bill, order, pairs) ==
  IF UnpairedBill(bill, pairs) \cup UnpairedOrder(order, pairs) = {} THEN {}
  ELSE Plain({"UNPAIRED_LINE"}
               \cup IF Len(bill) # Len(order) THEN {"LINE_COUNT_MISMATCH"} ELSE {})

\* What the lines that did not pair say of the gate.
ResidualComparison(bill, order, pairs) ==
  LET left == UnpairedBill(bill, pairs)
      right == UnpairedOrder(order, pairs)
      Residual(b, o) ==
        LET found == compare_line(b, o)
        IN  [exceptions |-> {[code |-> c, residual |-> TRUE] : c \in found},
             gate |-> IF found # {} THEN "RESIDUAL_PAIR_DETERMINISTIC_MISMATCH"
                      ELSE IF DescriptionsInBounds(b, o) THEN "RESIDUAL_PAIR_TEXT_ONLY"
                      ELSE "RESIDUAL_DESCRIPTION_OUT_OF_BOUNDS"]
  IN  IF Cardinality(left) > 1 \/ Cardinality(right) > 1
      THEN [gate |-> "MULTIPLE_RESIDUAL_CANDIDATES",
            exceptions |-> Plain({"AMBIGUOUS_MULTIPLE_CANDIDATES"})]
      ELSE IF left = {} \/ right = {} THEN [gate |-> "NO_RESIDUAL_PAIR", exceptions |-> {}]
      ELSE Residual(bill[Min(left)], order[Min(right)])

\* Steps 4 to 9: two documents of one supplier, line by line.
CompareDocuments(bill, order, head, exceptions) ==
  LET pairs == pair_lines(bill, order)
      residual == ResidualComparison(bill, order, pairs)
      found ==
        exceptions \cup residual.exceptions \cup UnpairedCodes(bill, order, pairs)
          \cup Plain(UNION {compare_line(bill[p[1]], order[p[2]]) : p \in pairs})
          \cup Plain(Variances(head.bill, head.order, TotalTolerance, TotalCode))
          \cup Plain(IF head.bill.currency # head.order.currency THEN CURRENCY ELSE {})
  IN  finalise(found, head.enabled, residual.gate)

reconcile(bill, order, head) ==
  LET failed == check_bill_eligibility(head.bill, bill)
      problem == check_po_eligibility(head.lookup)
      duplicates == Plain(head.duplicates)
  IN  IF failed # None THEN Silent("UNPROCESSABLE", failed)
      ELSE IF problem # {}
      THEN finalise(duplicates \cup Plain(problem), head.enabled, "NO_RESIDUAL_PAIR")
      ELSE IF head.bill.supplier # head.order.supplier
      THEN finalise(duplicates \cup Plain({"SUPPLIER_MISMATCH"}), head.enabled, "NO_RESIDUAL_PAIR")
      ELSE CompareDocuments(bill, order, head, duplicates)

-----------------------------------------------------------------------------
(* The call                                                                 *)

NotCalled == Silent("NOT_CALLED", None)

Called ==
  /\ input \in Input
  /\ decision = NotCalled

Decide ==
  /\ decision = NotCalled
  /\ decision' = reconcile(input.bill, input.order, input.head)
  /\ UNCHANGED input

EngineSpec == Called /\ [][Decide]_call

-----------------------------------------------------------------------------
(* Properties                                                               *)

ReconciliationResult ==
  [outcome: {"NOT_CALLED", "MATCHED", "UNPROCESSABLE", "REVIEW_REQUIRED"},
   unprocessable: Range(UnprocessableReason) \cup {None},
   exceptions: SUBSET Exception,
   permitted: BOOLEAN,
   gate: {"RESIDUAL_PAIR_TEXT_ONLY", "RESIDUAL_PAIR_DETERMINISTIC_MISMATCH",
          "RESIDUAL_DESCRIPTION_OUT_OF_BOUNDS", "MULTIPLE_RESIDUAL_CANDIDATES",
          "HEADER_OR_PAIRED_LINE_EXCEPTION", "OUTCOME_NOT_REVIEW_REQUIRED"},
   stage: {"NOT_REQUIRED", "PENDING", "DISABLED"},
   destination: {"FINANCE", "PROCUREMENT", "AP_REVIEW", "DUPLICATE_REVIEW", None},
   reasons: SUBSET {"DETERMINISTIC_EXCEPTION", "AMBIGUOUS_MULTIPLE_CANDIDATES",
                    "SEMANTIC_REVIEW_DISABLED"}]

\* A decision has its shape: in particular NO_RESIDUAL_PAIR is never the gate
\* reason recorded, and no route leads to the escalations (I41).
ResultIsTyped ==
  /\ input \in Input
  /\ decision \in ReconciliationResult

\* Two lines agree on everything but their wording and item codes.
LinesAgree(b, o) ==
  /\ Absent \notin {b.quantity, b.unit_amount, b.line_amount, b.tax_amount}
  /\ Absent \notin {o.line_amount, o.tax_amount}
  /\ b.quantity = o.quantity /\ b.unit_amount = o.unit_amount
  /\ o.line_amount \in b.line_amount - 1 .. b.line_amount + 1
  /\ o.tax_amount \in b.tax_amount - 2 .. b.tax_amount + 2
  /\ b.tax_type # None /\ b.tax_type = o.tax_type
  /\ b.account \in Chart \ (Malformed \cup {None}) /\ b.account = o.account

\* Two lines name the same goods, where need be without their punctuation.
SameGoods(b, o) ==
  \/ b.item # None /\ b.item = o.item
  \/ b.text # None /\ b.text = o.text
  \/ LooseOf[b.text] # None /\ LooseOf[b.text] = LooseOf[o.text]

Comparable(head) ==
  /\ head.bill.failed = {} /\ input.bill # <<>>
  /\ FALSE \notin Range(head.lookup)
  /\ head.bill.supplier = head.order.supplier

HeadsAgree(head) ==
  /\ Comparable(head) /\ head.duplicates = {}
  /\ head.bill.currency = head.order.currency
  /\ Absent \notin {head.bill.total, head.bill.total_tax}
  /\ Absent \notin {head.order.total, head.order.total_tax}
  /\ head.order.total \in head.bill.total - 5 .. head.bill.total + 5
  /\ head.order.total_tax \in head.bill.total_tax - 2 .. head.bill.total_tax + 2

\* A bill is matched in silence only where every line of either document has a
\* line of the other that names the same goods and agrees with it (I04, I27).
MatchedMeansAgreement ==
  decision.outcome = "MATCHED" =>
    /\ HeadsAgree(input.head)
    /\ \E f \in Bijection(DOMAIN input.bill, DOMAIN input.order) :
         \A i \in DOMAIN f :
           /\ SameGoods(input.bill[i], input.order[f[i]])
           /\ LinesAgree(input.bill[i], input.order[f[i]])

\* A sound bill that copies its order line for line, in any order, is matched
\* where the order words no two lines alike: nobody is asked about it.
CopyIsMatched ==
  LET order == input.order
      distinct == \A j, k \in DOMAIN order : order[j].text = order[k].text => j = k
      copied == \E f \in Bijection(DOMAIN input.bill, DOMAIN order) :
                  \A i \in DOMAIN f : input.bill[i] = order[f[i]]
  IN  decision # NotCalled /\ HeadsAgree(input.head) /\ distinct /\ copied
      /\ (\A j \in DOMAIN order : order[j].text # None /\ LinesAgree(order[j], order[j]))
        => decision.outcome = "MATCHED"

\* The model may be asked only where wording is all that is open: had the bill
\* worded that one line as the order does, it would be matched (I26).
OnlyWordingIsAsked ==
  decision.permitted =>
    \E i \in DOMAIN input.bill, j \in DOMAIN input.order :
      reconcile([input.bill EXCEPT ![i].text = input.order[j].text], input.order,
                input.head).outcome = "MATCHED"

\* The lines of a document in another order.
Rearranged(lines) ==
  {[i \in DOMAIN lines |-> lines[f[i]]] : f \in Bijection(DOMAIN lines, DOMAIN lines)}

\* The order in which Xero lists the lines decides nothing.
OrderDoesNotMatter ==
  decision # NotCalled =>
    /\ \A bill \in Rearranged(input.bill) : reconcile(bill, input.order, input.head) = decision
    /\ \A order \in Rearranged(input.order) : reconcile(input.bill, order, input.head) = decision

\* A case goes to the team that owns its cause, whatever the totals: a suspected
\* duplicate first, then currency, then quantity and price, then tax and account.
RoutedByCause ==
  LET pairs == pair_lines(input.bill, input.order)
      AllPaired == UnpairedBill(input.bill, pairs) \cup UnpairedOrder(input.order, pairs) = {}
      Differs(p) == ~LinesAgree(input.bill[p[1]], input.order[p[2]])
      Priced(p) ==
        LET b == input.bill[p[1]]
            o == input.order[p[2]]
        IN  \/ Absent \in {b.quantity, b.unit_amount, b.line_amount, o.line_amount}
            \/ b.quantity # o.quantity \/ b.unit_amount # o.unit_amount
            \/ b.line_amount - o.line_amount \notin -1 .. 1
      team == decision.destination
  IN  decision.outcome = "REVIEW_REQUIRED" =>
        /\ input.head.duplicates # {} => team = "DUPLICATE_REVIEW"
        /\ input.head.duplicates = {} /\ Comparable(input.head) =>
             IF input.head.bill.currency # input.head.order.currency THEN team = "FINANCE"
             ELSE IF \E p \in pairs : Priced(p) THEN team = "PROCUREMENT"
             ELSE AllPaired /\ (\E p \in pairs : Differs(p)) => team = "FINANCE"

=============================================================================
