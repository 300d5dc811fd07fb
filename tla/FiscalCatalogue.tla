---------------------------- MODULE FiscalCatalogue ----------------------------
(***************************************************************************)
(* The fiscal catalogue of packages/domain/src/obligations/catalog: of     *)
(* each entry its code, how often it is due, to which clients it applies   *)
(* and its statutory deadline.                                             *)
(***************************************************************************)
EXTENDS Integers, Sequences

DayAfter(day, months)         == [kind |-> "dayOfMonthAfterPeriodEnd", day |-> day, months |-> months]
LastDayAfter(months)          == [kind |-> "lastDayOfMonthAfterPeriodEnd", months |-> months]
FixedDate(month, day, years)  == [kind |-> "fixedDate", month |-> month, day |-> day, years |-> years]
Entry(code, periodicity, when, deadline) == [code |-> code, periodicity |-> periodicity, when |-> when, deadline |-> deadline]

IsCompany    == <<"kind", "COMPANY">>
IsIndividual == <<"kind", "INDIVIDUAL">>
OpenActivity == <<"hasOpenActivity", TRUE>>
Withholding  == <<"hasWithholding", TRUE>>
Vat(regime)  == <<"vatRegime", regime>>

\* The first half of tax.ts: VAT, invoices, remunerations, withholding.
VatCatalog == {
  Entry("VAT_MONTHLY_RETURN", "MONTHLY", <<OpenActivity, Vat("MONTHLY")>>, DayAfter(20, 2)),
  Entry("VAT_QUARTERLY_RETURN", "QUARTERLY", <<OpenActivity, Vat("QUARTERLY")>>, DayAfter(20, 2)),
  Entry("VAT_PAYMENT_MONTHLY", "MONTHLY", <<OpenActivity, Vat("MONTHLY")>>, DayAfter(25, 2)),
  Entry("VAT_PAYMENT_QUARTERLY", "QUARTERLY", <<OpenActivity, Vat("QUARTERLY")>>, DayAfter(25, 2)),
  Entry("EFATURA_INVOICE_REPORTING", "MONTHLY", <<OpenActivity>>, DayAfter(5, 1)),
  Entry("DMR_AT", "MONTHLY", <<IsCompany>>, DayAfter(10, 1)),
  Entry("WITHHOLDING_TAX_PAYMENT", "MONTHLY", <<Withholding>>, DayAfter(20, 1))}

\* The second half: corporate income tax and the yearly reports.
CorporateCatalog == {
  Entry("MODEL_22_CIT_RETURN", "ANNUAL", <<IsCompany>>, FixedDate(5, 31, 1)),
  Entry("IES_ANNUAL_FILING", "ANNUAL", <<IsCompany>>, FixedDate(7, 15, 1)),
  Entry("CIT_PAYMENT_ON_ACCOUNT_1", "ANNUAL", <<IsCompany>>, FixedDate(7, 31, 0)),
  Entry("CIT_PAYMENT_ON_ACCOUNT_2", "ANNUAL", <<IsCompany>>, FixedDate(9, 30, 0)),
  Entry("CIT_PAYMENT_ON_ACCOUNT_3", "ANNUAL", <<IsCompany>>, FixedDate(12, 15, 0)),
  Entry("MODEL_10_INCOME_WITHHOLDING", "ANNUAL", <<Withholding>>, FixedDate(1, 31, 1)),
  Entry("MODEL_30_NON_RESIDENT_PAYMENTS", "MONTHLY", <<IsCompany>>, LastDayAfter(2)),
  Entry("INVENTORY_REPORTING", "ANNUAL", <<IsCompany>>, FixedDate(1, 31, 1))}

SocialSecurityCatalog == {
  Entry("SS_REMUNERATION_DECLARATION", "MONTHLY", <<IsCompany>>, DayAfter(10, 1)),
  Entry("SS_CONTRIBUTION_PAYMENT", "MONTHLY", <<IsCompany>>, DayAfter(20, 1))}

IndividualCatalog == {Entry("MODEL_3_PIT_RETURN", "ANNUAL", <<IsIndividual>>, FixedDate(6, 30, 1))}

FiscalCatalog == VatCatalog \cup CorporateCatalog \cup SocialSecurityCatalog \cup IndividualCatalog

\* Every condition of the entry holds of the client's kind and fiscal profile.
AppliesTo(definition, subject) ==
  \A i \in DOMAIN definition.when : subject[definition.when[i][1]] = definition.when[i][2]
===============================================================================
