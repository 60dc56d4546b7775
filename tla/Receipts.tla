------------------------------- MODULE Receipts -------------------------------
(***************************************************************************)
(* What a receipt amounts to: the validation of its input, the taxes of    *)
(* its lines and the totals that FDMS checks (src/src/core/device.ts), and *)
(* the order in which taxes and counters enter the signed strings          *)
(* (src/src/core/signing.ts).                                              *)
(*                                                                         *)
(* Amounts of a receipt are whole cents: they travel as decimals, and      *)
(* toCents gives back the cents that centsToAmount divided.  Percents are  *)
(* hundredths of a percent, quantities thousandths.  A tax code is its     *)
(* rank by code point, 0 when it is missing.  A currency is a letter case  *)
(* and a rank.                                                             *)
(***************************************************************************)
EXTENDS Integers, Sequences, SequencesExt, FiniteSetsExt, Money

CONSTANTS
  None,       \* a missing percent (exempt), tax ID, money type or reference
  TaxTable,   \* the tax IDs FDMS has for the device
  MaxSafe,    \* the largest integer a number holds exactly
  ShortTies   \* prices and quantities of which the product is half a cent, and is
              \* less than that in floating point: 100 * 1.005

ASSUME NoneIsNoNumber == None \notin Int

ASSUME ShortTiesAreTies == \A tie \in ShortTies : (tie[1] * tie[2]) % 1000 = 500

ReceiptTypes == {"FiscalInvoice", "CreditNote", "DebitNote"}

MoneyTypes == {"Cash", "Card", "MobileWallet", "Coupon", "Credit", "BankTransfer", "Other"}

Line == [price : Int, quantity : Nat \ {0}, taxID : Int, taxPercent : Nat \cup {None},
         taxCode : Nat]

Payment == [moneyType : MoneyTypes, amount : Int]

ReceiptTax == [taxID : Int, taxPercent : Nat \cup {None}, taxCode : Nat,
               taxAmount : Int, salesAmountWithTax : Int]

Currency == [upper : BOOLEAN, rank : Nat]

Upper(currency) == [currency EXCEPT !.upper = TRUE]

\* The sums of the first elements of a sequence of numbers, of all of them, and
\* of those at the positions in S.
PartialSums(s) ==
  LET sum[n \in 0..Len(s)] == IF n = 0 THEN 0 ELSE sum[n - 1] + s[n] IN sum

SumOf(s) == PartialSums(s)[Len(s)]

SumOver(S, s) == SumOf([i \in DOMAIN s |-> IF i \in S THEN s[i] ELSE 0])

-----------------------------------------------------------------------------
(* Rounding.                                                               *)

\* Mutation of DivideRoundHalfAwayFromZero: the fraction is dropped, as a
\* division of two BigInts drops it.
DivideTruncated(n, d) == IF n < 0 THEN 0 - (Abs(n) \div d) ELSE n \div d

DivideRoundHalfAwayFromZero(n, d) ==
  LET rem == Abs(n) % d
      q   == Abs(n) \div d + IF 2 * rem >= d THEN 1 ELSE 0
  IN  IF n < 0 THEN 0 - q ELSE q

\* Math.round(priceCents * quantity): a half is rounded up, of a discount too,
\* unless the product of the two doubles is below it.
LineTotal(l) ==
  IF <<l.price, l.quantity>> \in ShortTies THEN (l.price * l.quantity) \div 1000
  ELSE (2 * l.price * l.quantity + 1000) \div 2000

Percent(l) == IF l.taxPercent = None THEN 0 ELSE l.taxPercent

TaxDivisor(percent, inclusive) == IF inclusive THEN 10000 + percent ELSE 10000

LineTax(l, inclusive) ==
  DivideRoundHalfAwayFromZero(LineTotal(l) * Percent(l), TaxDivisor(Percent(l), inclusive))

\* lineTaxCents() throws where the product is not exact any more.
TaxIsComputable(l) == Abs(LineTotal(l) * Percent(l)) <= MaxSafe

-----------------------------------------------------------------------------
(* The receipt's taxes and totals.                                         *)

\* Lines with one ID, percent and code share an entry.
TaxKey(l) == <<l.taxID, l.taxPercent, l.taxCode>>

Precedes(a, b) ==
  \E i \in DOMAIN a : a[i] < b[i] /\ \A j \in 1..(i - 1) : a[j] = b[j]

\* The tuples in S, all of one length, in their order.
Ordered(S) ==
  [k \in 1..Cardinality(S) |->
     CHOOSE t \in S : Cardinality({u \in S : Precedes(u, t)}) = k - 1]

\* The positions in S in the order of their keys, of equal keys the first first:
\* Array.sort is stable.
SortedBy(S, keys) ==
  LET order == Ordered({Append(keys[i], i) : i \in S})
  IN  [k \in DOMAIN order |-> Last(order[k])]

\* The first line of every entry.
FirstLines(lines) ==
  {i \in DOMAIN lines : \A j \in 1..(i - 1) : TaxKey(lines[j]) # TaxKey(lines[i])}

\* compareReceiptTaxes(): the percent is not compared.
TaxSortKey(l) == <<l.taxID, l.taxCode>>

SaleWithTax(l, inclusive) == IF inclusive THEN LineTotal(l) ELSE LineTotal(l) + LineTax(l, inclusive)

LineTotals(lines) == [i \in DOMAIN lines |-> LineTotal(lines[i])]

LineTaxes(lines, inclusive) == [i \in DOMAIN lines |-> LineTax(lines[i], inclusive)]

SalesWithTax(lines, inclusive) == [i \in DOMAIN lines |-> SaleWithTax(lines[i], inclusive)]

TaxGroup(lines, key) == {i \in DOMAIN lines : TaxKey(lines[i]) = key}

TaxEntry(lines, first, inclusive) ==
  LET group == TaxGroup(lines, TaxKey(first))
  IN  [taxID |-> first.taxID, taxPercent |-> first.taxPercent, taxCode |-> first.taxCode,
       taxAmount |-> SumOver(group, LineTaxes(lines, inclusive)),
       salesAmountWithTax |-> SumOver(group, SalesWithTax(lines, inclusive))]

BuildReceiptTaxes(lines, inclusive) ==
  LET order == SortedBy(FirstLines(lines), [i \in DOMAIN lines |-> TaxSortKey(lines[i])])
  IN  [k \in DOMAIN order |-> TaxEntry(lines, lines[order[k]], inclusive)]

LinesTotal(lines) == SumOf(LineTotals(lines))

TaxTotal(taxes) == SumOf([k \in DOMAIN taxes |-> taxes[k].taxAmount])

\* Mutation of ReceiptTotal: tax is added to prices that include it.
ReceiptTotalTaxed(lines, inclusive) ==
  LinesTotal(lines) + TaxTotal(BuildReceiptTaxes(lines, inclusive))

ReceiptTotal(lines, inclusive) ==
  LinesTotal(lines) + IF inclusive THEN 0 ELSE TaxTotal(BuildReceiptTaxes(lines, inclusive))

Paid(payments) == SumOf([i \in DOMAIN payments |-> payments[i].amount])

-----------------------------------------------------------------------------
(* What signReceipt() accepts.                                             *)

PositiveInt(n) == n \in 1..MaxSafe

NoteParts == {"receiptID", "deviceID", "receiptGlobalNo", "fiscalDayNo"}

\* By its receiptID, or by the three numbers; every part given is sent, and
\* has to be a number FDMS can have given out.
NamesReceipt(note) ==
  /\ note # None
  /\ \A part \in NoteParts : note[part] # None => PositiveInt(note[part])
  /\ note.receiptID # None \/ \A part \in NoteParts \ {"receiptID"} : note[part] # None

\* The input with its amounts in cents; signReceipt() throws for one that is
\* not exact.
AmountsAreExact(input) ==
  /\ \A i \in DOMAIN input.lines : IsExact(input.lines[i].price)
  /\ \A i \in DOMAIN input.payments : IsExact(input.payments[i].amount)

WithAmounts(input, Convert(_)) ==
  LET line(l)    == [l EXCEPT !.price = Convert(l.price)]
      payment(p) == [p EXCEPT !.amount = Convert(p.amount)]
  IN  [input EXCEPT !.lines    = [i \in DOMAIN input.lines |-> line(input.lines[i])],
                    !.payments = [i \in DOMAIN input.payments |-> payment(input.payments[i])]]

InCents(input) == WithAmounts(input, AmountToCents)

\* A note of the invoice's own kind needs no reference and has none checked.
NoteIsValid(input) ==
  input.receiptType \in {"CreditNote", "DebitNote"} => NamesReceipt(input.creditDebitNote)

\* Mutation of LineIsValid: any quantity.
LineIsValidAnyQuantity(l) ==
  /\ Abs(l.price) <= MaxSafe
  /\ l.taxPercent # None => l.taxPercent >= 0

LineIsValid(l) ==
  /\ Abs(l.price) <= MaxSafe
  /\ l.quantity > 0
  /\ l.taxPercent # None => l.taxPercent >= 0

\* validateReceiptInput(), the date apart.
ValidateReceiptInput(input) ==
  /\ input.receiptType \in ReceiptTypes
  /\ input.currency \in Currency
  /\ input.invoiceNo \in 1..50
  /\ NoteIsValid(input)
  /\ input.lines # <<>> /\ input.payments # <<>>
  /\ \A i \in DOMAIN input.lines : LineIsValid(input.lines[i])
  /\ \A i \in DOMAIN input.payments : Abs(input.payments[i].amount) <= MaxSafe

\* What else signReceipt() throws for.
Accepts(input) ==
  /\ ValidateReceiptInput(input)
  /\ \A i \in DOMAIN input.lines : TaxIsComputable(input.lines[i])
  /\ Paid(input.payments) = ReceiptTotal(input.lines, input.inclusive)

\* The file of a CLI or MCP submit.
FileIsExact(file) ==
  /\ \A i \in DOMAIN file.lines : AtMostTwoPlaces(file.lines[i].price)
  /\ \A i \in DOMAIN file.payments : AtMostTwoPlaces(file.payments[i].amount)

ReceiptInputFromJson(file) == WithAmounts(file, MoneyFromJsonNumber)

BuildReceipt(input) ==
  [receiptType |-> input.receiptType, currency |-> Upper(input.currency),
   inclusive |-> input.inclusive, lines |-> input.lines,
   taxes |-> BuildReceiptTaxes(input.lines, input.inclusive),
   payments |-> input.payments,
   total |-> ReceiptTotal(input.lines, input.inclusive)]

-----------------------------------------------------------------------------
(* What FDMS checks of it.                                                 *)

ExpectedTotal(r) ==
  IF r.inclusive THEN LinesTotal(r.lines) ELSE LinesTotal(r.lines) + TaxTotal(r.taxes)

ContentErrors(r) ==
  {code \in {"RCPT013", "RCPT020", "RCPT021"} :
     \/ code = "RCPT013" /\ \E i \in DOMAIN r.taxes : r.taxes[i].taxID \notin TaxTable
     \/ code = "RCPT020" /\ r.total # ExpectedTotal(r)
     \/ code = "RCPT021" /\ Paid(r.payments) # r.total}

-----------------------------------------------------------------------------
(* The fiscal day's counters and the string CloseDay signs over them.      *)

CounterTypes == <<"SaleByTax", "SaleTaxByTax", "CreditNoteByTax", "CreditNoteTaxByTax",
                  "DebitNoteByTax", "DebitNoteTaxByTax", "BalanceByMoneyType">>

MoneyTypeOrder == <<"Cash", "Card", "MobileWallet", "Coupon", "Credit", "BankTransfer", "Other">>

Counter == [type : Range(CounterTypes), currency : Currency, taxID : Int \cup {None},
            taxPercent : Nat \cup {None}, moneyType : MoneyTypes \cup {None}, value : Int]

Place(x, order) == CHOOSE i \in DOMAIN order : order[i] = x

\* The sort key of a counter: type, currency, tax ID, money type.
SortKey(c) ==
  <<Place(c.type, CounterTypes), c.currency.rank, IF c.taxID = None THEN -1 ELSE c.taxID,
    IF c.moneyType = None THEN 99 ELSE Place(c.moneyType, MoneyTypeOrder)>>

\* What of a counter is signed: the tax ID is not.
SignedPart(c) ==
  <<c.type, Upper(c.currency), c.taxPercent, c.moneyType, c.value>>

NonZero(counters) == {i \in DOMAIN counters : counters[i].value # 0}

\* Mutation of FiscalDaySigningString: the counters are signed as they come.
FiscalDaySigningStringUnsorted(counters) ==
  LET order == SortedBy(NonZero(counters), [i \in DOMAIN counters |-> <<i>>])
  IN  [k \in DOMAIN order |-> SignedPart(counters[order[k]])]

\* Zero counters are skipped, the others sorted.
FiscalDaySigningString(counters) ==
  LET order == SortedBy(NonZero(counters), [i \in DOMAIN counters |-> SortKey(counters[i])])
  IN  [k \in DOMAIN order |-> SignedPart(counters[order[k]])]

=============================================================================
