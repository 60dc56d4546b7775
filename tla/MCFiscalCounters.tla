--------------------------- MODULE MCFiscalCounters ---------------------------
(***************************************************************************)
(* Instances of FiscalCounters for TLC.                                    *)
(***************************************************************************)
EXTENDS FiscalCounters

\* A plain line, one whose inclusive tax is an exact half of a cent, a discount
\* whose exclusive tax is one, a second code and a second ID, an exempt line,
\* one tax ID at another percent, and one FDMS does not know.
Plain    == [price |-> 115, quantity |-> 1000, taxID |-> 1, taxPercent |-> 1500, taxCode |-> 0]
HalfCent == [price |-> 3, quantity |-> 1000, taxID |-> 2, taxPercent |-> 2000, taxCode |-> 1]
Discount == [price |-> -30, quantity |-> 1000, taxID |-> 1, taxPercent |-> 1500, taxCode |-> 0]
OtherCode == [price |-> 10, quantity |-> 1500, taxID |-> 1, taxPercent |-> 1500, taxCode |-> 2]
Exempt   == [price |-> 7, quantity |-> 500, taxID |-> 3, taxPercent |-> None, taxCode |-> 0]
OtherPercent == [price |-> 200, quantity |-> 1000, taxID |-> 2, taxPercent |-> 500, taxCode |-> 1]
\* A total of 100.5 cents that is 100 in floating point.
Short    == [price |-> 100, quantity |-> 1005, taxID |-> 1, taxPercent |-> 1500, taxCode |-> 0]
Unknown  == [price |-> 5, quantity |-> 1000, taxID |-> 9, taxPercent |-> 0, taxCode |-> 0]

Baskets ==
  {<<Plain>>, <<Exempt, HalfCent>>, <<Discount>>, <<OtherCode, Plain, HalfCent>>,
   <<Plain, Discount, Discount>>, <<OtherPercent, Short>>, <<Unknown>>}

usd == [upper |-> FALSE, rank |-> 1]
USD == [upper |-> TRUE, rank |-> 1]
ZWG == [upper |-> TRUE, rank |-> 2]

\* All in cash; in one currency also a cent of it by card.
Payments(total, currency) ==
  {<<[moneyType |-> "Cash", amount |-> total]>>} \cup
  {<<[moneyType |-> "Card", amount |-> 1], [moneyType |-> "Cash", amount |-> total - 1]>> :
     c \in {USD} \cap {currency}}

NoPart == [part \in NoteParts |-> None]

Note == [NoPart EXCEPT !.receiptID = 7]

Sale(type, currency, basket, inclusive, payments) ==
  [receiptType |-> type, currency |-> currency, invoiceNo |-> 8,
   creditDebitNote |-> IF type = "FiscalInvoice" THEN None ELSE Note,
   lines |-> basket, inclusive |-> inclusive, payments |-> payments]

Good ==
  UNION {{Sale(type, currency, basket, inclusive, payments) :
            payments \in Payments(ReceiptTotal(basket, inclusive), currency)} :
           type \in ReceiptTypes, currency \in {usd, USD, ZWG}, basket \in Baskets,
           inclusive \in BOOLEAN}

\* Each has one thing wrong with it.
OneGood == CHOOSE i \in Good : i.receiptType = "CreditNote" /\ i.lines = <<Plain>>

Bad ==
  {[OneGood EXCEPT !.payments = <<[moneyType |-> "Cash", amount |-> 1]>>],
   [OneGood EXCEPT !.payments = <<>>],
   [OneGood EXCEPT !.lines = <<>>],
   [OneGood EXCEPT !.lines[1].quantity = 0, !.payments = <<[moneyType |-> "Cash", amount |-> 0]>>],
   [OneGood EXCEPT !.lines[1].taxPercent = -1],
   [OneGood EXCEPT !.lines[1].price = 1000000],
   [OneGood EXCEPT !.invoiceNo = 51],
   [OneGood EXCEPT !.currency = None],
   [OneGood EXCEPT !.creditDebitNote = None],
   [OneGood EXCEPT !.creditDebitNote = [NoPart EXCEPT !.fiscalDayNo = 1, !.deviceID = 1]],
   [OneGood EXCEPT !.creditDebitNote.fiscalDayNo = 0]}

\* Amounts as one writes them: 2, 0.3, 1.15.
Written(c) ==
  LET n == Abs(c)
  IN  IF n % 100 = 0 THEN [negative |-> c < 0, digits |-> n \div 100, scale |-> 1]
      ELSE IF n % 10 = 0 THEN [negative |-> c < 0, digits |-> n \div 10, scale |-> 10]
      ELSE FormatCents(c)

\* Finer than a cent, on both sides of a rounding; so near a cent that it is
\* taken for it, and just not.
Finer ==
  LET file(digits, scale) ==
        [WithAmounts(OneGood, Written) EXCEPT
           !.lines[1].price = [negative |-> FALSE, digits |-> digits, scale |-> scale],
           !.payments = <<[moneyType |-> "Cash", amount |-> Written(115)]>>]
  IN  {file(1154, 1000), file(1146, 1000), file(1145, 1000),
       file(115001, 100000), file(114999, 100000), file(115011, 100000)}

MCInputs == {WithAmounts(i, Written) : i \in Good \cup Bad} \cup Finer

MCShortTies == {<<100, 1005>>}

=============================================================================
