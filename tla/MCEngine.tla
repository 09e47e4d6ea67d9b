------------------------------ MODULE MCEngine ------------------------------
(* Small documents for TLC.                                                 *)
EXTENDS Engine, TLC

\* Two wordings alike but for punctuation, two others, none, nothing but
\* punctuation, and one too long.
Loose ==
  "water, bottled" :> "water bottled" @@ "water - bottled" :> "water bottled"
  @@ "cups" :> "cups" @@ "paper cups" :> "paper cups" @@ "" :> "" @@ "-" :> "" @@ "long" :> "long"

Line(item, text) ==
  [item |-> item, text |-> text, quantity |-> 1, unit_amount |-> 10, line_amount |-> 10,
   tax_amount |-> 4, tax_type |-> "INPUT", account |-> "200"]

\* Lines that can be taken for one another.
Alike ==
  {Line("", "water, bottled"), Line("", "water - bottled"), Line("i", "water, bottled"),
   Line("", "cups")}

Ordered ==
  Alike \cup {Line("i", "cups"), Line("", ""), Line("", "-"), Line("", "long"),
              [Line("", "cups") EXCEPT !.account = "999"],
              [Line("", "cups") EXCEPT !.unit_amount = Absent]}

\* What a supplier can get wrong in a line.
Spoilt(line) ==
  {[line EXCEPT !.unit_amount = 11], [line EXCEPT !.line_amount = 11],
   [line EXCEPT !.line_amount = 12], [line EXCEPT !.tax_amount = 1],
   [line EXCEPT !.quantity = Absent], [line EXCEPT !.tax_type = ""],
   [line EXCEPT !.tax_type = "EXEMPT"], [line EXCEPT !.account = ""],
   [line EXCEPT !.account = "?"], [line EXCEPT !.account = "201"]}

Sound == Ordered \cup {Line("j", "paper cups"), Line("i", "paper cups")}

Billed == Sound \cup Spoilt(Line("", "cups")) \cup Spoilt(Line("", "paper cups"))

UpTo(n, lines) == UNION {[1 .. k -> lines] : k \in 0 .. n}

\* At most one spoilt line to a bill.
Bills ==
  UpTo(1, Billed) \cup {<<a, b>> : a \in Sound, b \in Billed}
    \cup {<<b, a>> : a \in Sound, b \in Billed}
    \cup [1 .. 3 -> Alike \cup {Line("", "paper cups")}]

Orders == UpTo(2, Ordered) \cup [1 .. 3 -> Alike]

Side == [supplier |-> "S", currency |-> "AUD", total |-> 100, total_tax |-> 4]

InOrder ==
  [bill |-> [failed |-> {}] @@ Side, order |-> Side, duplicates |-> {}, enabled |-> TRUE,
   lookup |-> [reference |-> TRUE, found |-> TRUE, listed |-> TRUE, eligible |-> TRUE]]

Heads ==
  {InOrder, [InOrder EXCEPT !.bill.total = 106], [InOrder EXCEPT !.bill.total_tax = 7]}

OtherHeads ==
  {[InOrder EXCEPT !.bill.currency = "NZD"],
   [InOrder EXCEPT !.bill.supplier = "T"], [InOrder EXCEPT !.duplicates = {"DUPLICATE_BUSINESS_KEY"}],
   [InOrder EXCEPT !.bill.total_tax = Absent, !.enabled = FALSE],
   [InOrder EXCEPT !.bill.total = 105, !.bill.total_tax = 6, !.enabled = FALSE]}
  \cup {[InOrder EXCEPT !.bill.failed = failed] :
          failed \in SUBSET {"NOT_A_SUPPLIER_BILL", "CONTRACT_INVALID", "MISSING_INVOICE_NUMBER"}}
  \cup {[InOrder EXCEPT !.lookup = lookup, !.duplicates = {"DUPLICATE_INVOICE_NUMBER"}] :
          lookup \in [DOMAIN InOrder.lookup -> BOOLEAN]}

Calls(bills, orders, heads) == [bill: bills, order: orders, head: heads]

\* Long documents under a heading in order, and short ones under every heading.
Documents ==
  Calls(Bills, Orders, {InOrder})
    \cup Calls(UpTo(1, Billed) \cup [1 .. 2 -> Alike], UpTo(2, Alike), Heads \cup OtherHeads)

=============================================================================
