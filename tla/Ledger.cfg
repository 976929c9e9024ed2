SPECIFICATION Spec
CONSTANTS
  Invoices = {1, 2}
  DueOrder <- InOrder
  Sessions = {s1, s2}
  NoSession = NoSession
  Amounts = {1, 2}
  Nets = {1, 2}
  Receipts = {r1}
  NoReceipt = NoReceipt
  MaxTransactions = 3
SYMMETRY Symmetry
INVARIANTS
  TypeOK
  InvoiceAgrees
  OneAllocator
  PlanIsTheLoop
PROPERTIES
  MoneyConserved
CHECK_DEADLOCK FALSE
