\* An invoice, a payment online and one offline, two refunds and two webhook calls.
CONSTANTS
  i1 = i1
  o1 = o1
  f1 = f1
  r1 = r1
  r2 = r2
  d1 = d1
  d2 = d2
  Invoices = {i1}
  Totals = {1}
  Online = {o1}
  Offline = {f1}
  Refunds = {r1, r2}
  Amount <- MCAmount
  RefundOf <- MCRefundOf
  RefundAmount <- MCRefundAmount
  Deliveries = {d1, d2}
  NoInvoice = NoInvoice
  NoRefund = NoRefund
CHECK_DEADLOCK FALSE
SPECIFICATION FairSpec
INVARIANTS
  TypeOK
  MoneyAccounted
PROPERTIES
  ImplementsReceivables
  RefundReachesTheBooks
