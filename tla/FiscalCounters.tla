---------------------------- MODULE FiscalCounters ----------------------------
(***************************************************************************)
(* The counters of one fiscal day: accumulateCounters() of                 *)
(* src/src/core/device.ts, which both the device and FDMS (its simulator)  *)
(* run over the day's receipts, and closeDay()'s mergeCurrencyCase().      *)
(* The device may have begun the day under an earlier version of the SDK,  *)
(* which kept the letter case of a currency and counted it apart.          *)
(***************************************************************************)
EXTENDS Receipts

CONSTANTS
  Inputs,       \* the receipt files tried, amounts written as decimals
  MaxReceipts   \* receipts in the day, for model checking

\* A receipt in JSON, not yet validated; None is a currency that is none.
FileLine ==
  [price : Decimal, quantity : Int, taxID : Int, taxPercent : Int \cup {None}, taxCode : Nat]

FilePayment == [moneyType : MoneyTypes, amount : Decimal]

ReceiptFile ==
  [receiptType : ReceiptTypes, currency : Currency \cup {None}, invoiceNo : Nat,
   creditDebitNote : [NoteParts -> Int \cup {None}] \cup {None}, inclusive : BOOLEAN,
   lines : Seq(FileLine), payments : Seq(FilePayment)]

ASSUME InputsAreFiles == Inputs \subseteq ReceiptFile

VARIABLES
  sold,            \* the day's receipts
  deviceCounters,  \* the device's counters, in the order they were created
  fdmsCounters,    \* FDMS's
  earlier          \* the device still runs the earlier version

dayVars == <<sold, deviceCounters, fdmsCounters, earlier>>

SoldReceipt ==
  [receiptType : ReceiptTypes, currency : Currency, inclusive : BOOLEAN, lines : Seq(Line),
   taxes : Seq(ReceiptTax), payments : Seq(Payment), total : Int]

CountersTypeOK ==
  /\ sold \in Seq(SoldReceipt)
  /\ deviceCounters \in Seq(Counter)
  /\ fdmsCounters \in Seq(Counter)
  /\ earlier \in BOOLEAN

-----------------------------------------------------------------------------
(* Accumulating.                                                           *)

\* Mutation of SignOf: a credit note is counted like a sale.
SignOfAlwaysPlus(r) == 1

SignOf(r) == IF r.receiptType = "CreditNote" THEN -1 ELSE 1

ByTaxType(r) ==
  CASE r.receiptType = "FiscalInvoice" -> "SaleByTax"
    [] r.receiptType = "CreditNote"    -> "CreditNoteByTax"
    [] r.receiptType = "DebitNote"     -> "DebitNoteByTax"

TaxByTaxType(r) ==
  CASE r.receiptType = "FiscalInvoice" -> "SaleTaxByTax"
    [] r.receiptType = "CreditNote"    -> "CreditNoteTaxByTax"
    [] r.receiptType = "DebitNote"     -> "DebitNoteTaxByTax"

TaxCounter(type, r, t, amount) ==
  [type |-> type, currency |-> r.currency, taxID |-> t.taxID, taxPercent |-> t.taxPercent,
   moneyType |-> None, value |-> SignOf(r) * amount]

MoneyCounter(r, p) ==
  [type |-> "BalanceByMoneyType", currency |-> r.currency, taxID |-> None, taxPercent |-> None,
   moneyType |-> p.moneyType, value |-> SignOf(r) * p.amount]

\* What the taxes of receipt r add, a sale and its tax in turn.
TaxDeltas(r) ==
  [n \in 1..(2 * Len(r.taxes)) |->
     LET t == r.taxes[(n + 1) \div 2]
     IN  IF n % 2 = 1 THEN TaxCounter(ByTaxType(r), r, t, t.salesAmountWithTax)
         ELSE TaxCounter(TaxByTaxType(r), r, t, t.taxAmount)]

\* What receipt r adds, in the order it adds it.
Deltas(r) == TaxDeltas(r) \o [i \in DOMAIN r.payments |-> MoneyCounter(r, r.payments[i])]

\* Mutation of SameCounter: the two tax counters of a receipt type are one.
SameCounterOfAnyType(a, b) ==
  /\ Upper(a.currency) = Upper(b.currency)
  /\ a.taxID = b.taxID /\ a.moneyType = b.moneyType

\* Found by type, currency and tax ID or money type; never by percent.
SameCounter(a, b) ==
  /\ a.type = b.type
  /\ Upper(a.currency) = Upper(b.currency)
  /\ a.taxID = b.taxID /\ a.moneyType = b.moneyType

\* Added to the counter it is the same as, or put at the end.  The earlier
\* version compared the currency as it was typed.
Upsert(counters, c, asTyped) ==
  LET at == SelectInSeq(counters,
              LAMBDA m : SameCounter(m, c) /\ (asTyped => m.currency = c.currency))
  IN  IF at = 0 THEN Append(counters, c) ELSE [counters EXCEPT ![at].value = @ + c.value]

Accumulate(counters, deltas, asTyped) ==
  LET after[n \in 0..Len(deltas)] ==
        IF n = 0 THEN counters ELSE Upsert(after[n - 1], deltas[n], asTyped)
  IN  after[Len(deltas)]

AccumulateCounters(counters, r) == Accumulate(counters, Deltas(r), FALSE)

AccumulateAsTyped(counters, r) == Accumulate(counters, Deltas(r), TRUE)

InCapitals(counters) == [i \in DOMAIN counters |-> [counters[i] EXCEPT !.currency = Upper(counters[i].currency)]]

\* Mutation of MergeCurrencyCase: the letter case is changed, nothing is merged.
MergeCurrencyCaseOnly(counters) == InCapitals(counters)

MergeCurrencyCase(counters) == Accumulate(<<>>, InCapitals(counters), FALSE)

-----------------------------------------------------------------------------
DayInit ==
  /\ sold = <<>>
  /\ deviceCounters = <<>> /\ fdmsCounters = <<>>
  /\ earlier \in BOOLEAN

\* The files that submit takes.
AcceptedFiles ==
  {file \in Inputs :
     /\ FileIsExact(file)
     /\ LET input == ReceiptInputFromJson(file)
        IN  AmountsAreExact(input) /\ Accepts(InCents(input))}

\* A receipt is signed, submitted and counted on both sides; the earlier
\* version sent and counted the currency as typed.  FDMS counts it in capitals.
Sell ==
  /\ Len(sold) < MaxReceipts
  /\ \E file \in AcceptedFiles :
       LET r     == BuildReceipt(InCents(ReceiptInputFromJson(file)))
           typed == [r EXCEPT !.currency = file.currency]
       IN  /\ sold' = Append(sold, r)
           /\ deviceCounters' = IF earlier THEN AccumulateAsTyped(deviceCounters, typed)
                                ELSE AccumulateCounters(deviceCounters, r)
           /\ fdmsCounters' = AccumulateCounters(fdmsCounters, r)
  /\ UNCHANGED earlier

\* The device is restarted with this version, on the stored day.
Upgrade ==
  /\ earlier
  /\ earlier' = FALSE
  /\ UNCHANGED <<sold, deviceCounters, fdmsCounters>>

DayNext == Sell \/ Upgrade

DaySpec == DayInit /\ [][DayNext]_dayVars

-----------------------------------------------------------------------------
(* Properties.                                                             *)

\* The lines and payments of a receipt have the amounts of a file.
AmountsOf(r, file) ==
  /\ Len(r.lines) = Len(file.lines) /\ Len(r.payments) = Len(file.payments)
  /\ \A k \in DOMAIN r.lines : IsNear(r.lines[k].price, file.lines[k].price)
  /\ \A k \in DOMAIN r.payments : IsNear(r.payments[k].amount, file.payments[k].amount)

\* Every line and payment signed is the decimal written for it in a file, to a
\* billionth of a unit and so to the cent where it has two places: none is
\* shifted, loses its sign or is rounded further between the file and the
\* signature.
SignedAsWritten == \A i \in DOMAIN sold : \E file \in Inputs : AmountsOf(sold[i], file)

\* The tax of a receipt is its exact value to within half a cent a line, for
\* discounts and credits as for sales, whichever way prices include it.
TaxIsExact ==
  \A i \in DOMAIN sold : \A k \in DOMAIN sold[i].taxes :
    LET r       == sold[i]
        t       == r.taxes[k]
        group   == TaxGroup(r.lines, <<t.taxID, t.taxPercent, t.taxCode>>)
        percent == IF t.taxPercent = None THEN 0 ELSE t.taxPercent
        divisor == TaxDivisor(percent, r.inclusive)
    IN  2 * Abs(t.taxAmount * divisor - SumOver(group, LineTotals(r.lines)) * percent)
          <= Cardinality(group) * divisor

\* A sale and the credit note that takes all of it back: the same receipt but
\* for its type.
TakesBack(credit, sale) ==
  /\ credit.receiptType = "CreditNote" /\ sale.receiptType = "FiscalInvoice"
  /\ [credit EXCEPT !.receiptType = "FiscalInvoice"] = sale

\* Whoever sells and takes back leaves no balance in any money, although sale
\* and credit are counted apart: the balances of a day of such pairs are zero.
CreditsCancel ==
  Len(sold) = 2 /\ (TakesBack(sold[2], sold[1]) \/ TakesBack(sold[1], sold[2])) =>
    \A i \in DOMAIN fdmsCounters :
      fdmsCounters[i].type = "BalanceByMoneyType" => fdmsCounters[i].value = 0

TaxedSales(taxes) == SumOf([k \in DOMAIN taxes |-> taxes[k].salesAmountWithTax])

\* No receipt signReceipt() lets through fails FDMS's checks of its totals,
\* which would close the day to the device: however prices include tax and
\* lines group into taxes, lines, taxes and payments add up on both sides.
TotalsAddUp ==
  \A i \in DOMAIN sold :
    /\ ContentErrors(sold[i]) \subseteq {"RCPT013"}
    /\ TaxedSales(sold[i].taxes) = sold[i].total

SaleTypes == {"SaleByTax", "CreditNoteByTax", "DebitNoteByTax"}

BalanceTypes == {"BalanceByMoneyType"}

\* What the counters of these types come to in a currency.
CounterTotal(counters, types, rank) ==
  SumOver({i \in DOMAIN counters : counters[i].type \in types /\ counters[i].currency.rank = rank},
          [i \in DOMAIN counters |-> counters[i].value])

\* The three ways receipts are summed up agree: what the counters say was sold
\* in a currency, credits deducted, is what they say was paid in it.
CountersBalance ==
  \A rank \in {sold[i].currency.rank : i \in DOMAIN sold} :
    CounterTotal(deviceCounters, SaleTypes, rank) = CounterTotal(deviceCounters, BalanceTypes, rank)

\* closeDay() signs exactly the string FDMS derives from its own counters,
\* also on a day an earlier version began with "usd" and "USD" apart.
SignedAsFdmsCounts ==
  FiscalDaySigningString(MergeCurrencyCase(deviceCounters)) = FiscalDaySigningString(fdmsCounters)

\* A tax ID has one percent on the day's receipts, as in FDMS's tax table.
OnePercentPerTax ==
  \A i, j \in DOMAIN sold : \A k \in DOMAIN sold[i].taxes, m \in DOMAIN sold[j].taxes :
    sold[i].taxes[k].taxID = sold[j].taxes[m].taxID =>
      sold[i].taxes[k].taxPercent = sold[j].taxes[m].taxPercent

\* What the day's receipts count up to in this order.
CountedIn(order) ==
  LET after[n \in 0..Len(sold)] ==
        IF n = 0 THEN <<>> ELSE AccumulateCounters(after[n - 1], sold[order[n]])
  IN  after[Len(sold)]

\* What is signed at the close depends on the day's receipts and not on their
\* order, so a day's counters can be rebuilt from its receipts however FDMS
\* lists them - as long as a tax ID has one percent.
OrderDoesNotMatter ==
  ~earlier /\ OnePercentPerTax =>
    LET signed == FiscalDaySigningString(MergeCurrencyCase(deviceCounters))
    IN  \A order \in Bijection(DOMAIN sold, DOMAIN sold) :
          FiscalDaySigningString(CountedIn(order)) = signed

=============================================================================
