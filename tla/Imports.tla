------------------------------ MODULE Imports ------------------------------
(***************************************************************************)
(* Debtors and invoices that come from files and from the ERP              *)
(* (ingestion/csv_import.py, sync_parties of ingestion/reconcile.py, the   *)
(* import routes).  A file is staged line by line against what is          *)
(* committed by then, shown, and committed later in a transaction that     *)
(* trusts what staging decided.  Commits and syncs overlap.                *)
(*                                                                         *)
(* A line says who it is about (a name with a phone number), whether it    *)
(* carries the party's code, which details it gives, which invoice, and    *)
(* whether its cells can be read.  Sessions do not autoflush: an invoice   *)
(* that was added is visible once something flushed it.                    *)
(***************************************************************************)
EXTENDS Naturals, Sequences

CONSTANTS Files, Importers, Lines, MaxLines

VARIABLES
  buyers,    \* the committed buyers, in the order of their ids
  invoices,  \* of each invoice number, whether it was imported
  batch,     \* of each file: its status and what staging made of its lines
  import,    \* the open transaction of each session
  applied    \* history: how many commits of each file took effect

fvars == <<buyers, invoices, batch, import, applied>>

Numbers == { l.number : l \in Lines } \ {"none"}
ImportStatus == {"NONE", "PENDING", "PREVIEWED", "COMMITTED"}

\* left: which of the rows are still to apply; fresh: the debtors created; details: the
\* updates; flushed and added: the numbers of invoices inserted, and of those not flushed yet.
NoImport == [op |-> "none", file |-> "none", rows |-> <<>>, left |-> {}, fresh |-> <<>>,
             details |-> {}, flushed |-> <<>>, added |-> <<>>]

Init == /\ buyers = <<>> /\ invoices = [n \in Numbers |-> "none"]
        /\ batch = [f \in Files |-> [status |-> "NONE", rows |-> <<>>]]
        /\ import = [s \in Importers |-> NoImport]
        /\ applied = [f \in Files |-> 0]

---------------------------------------------------------------------------
(* Staging.                                                                *)

ByCode(who) == { b \in DOMAIN buyers : buyers[b].coded /\ buyers[b].who = who }
ByNameAndPhone(who) == { b \in DOMAIN buyers : buyers[b].who = who }

Staged(line, action, b) == [line |-> line, action |-> action, buyer |-> b]

Compared(line, b) ==
  Staged(line, IF buyers[b].details = line.details THEN "UNCHANGED" ELSE "UPDATE", b)

\* parse_row and _classify: a line that cannot be read, or that fits several debtors, is
\* rejected rather than guessed at.
Classify(line) ==
  LET found == IF line.coded THEN ByCode(line.who) ELSE ByNameAndPhone(line.who) IN
  IF ~line.readable \/ \E a, b \in found : a # b THEN Staged(line, "REJECT", 0)
  ELSE IF found = {} THEN Staged(line, "CREATE", 0)
  ELSE Compared(line, CHOOSE b \in found : TRUE)

StageRow(f) ==
  /\ batch[f].status \in {"NONE", "PENDING"} /\ Len(batch[f].rows) < MaxLines
  /\ \E l \in Lines :
       batch' = [batch EXCEPT ![f] = [status |-> "PENDING", rows |-> Append(@.rows, Classify(l))]]
  /\ UNCHANGED <<buyers, invoices, import, applied>>

Preview(f) == /\ batch[f].status = "PENDING"
              /\ batch' = [batch EXCEPT ![f].status = "PREVIEWED"]
              /\ UNCHANGED <<buyers, invoices, import, applied>>

---------------------------------------------------------------------------
(* Committing, and syncing parties.                                        *)

\* commit refuses a batch that it does not read as PREVIEWED.
Committable(f) == batch[f].status = "PREVIEWED"

BeginCommit(s, f) ==
  /\ import[s] = NoImport /\ Committable(f)
  /\ import' = [import EXCEPT ![s] = [NoImport EXCEPT !.op = "commit", !.file = f,
       !.rows = batch[f].rows,
       !.left = { i \in DOMAIN batch[f].rows : batch[f].rows[i].action \in {"CREATE", "UPDATE"} }]]
  /\ UNCHANGED <<buyers, invoices, batch, applied>>

\* sync_parties, of one party; every party of the ERP has a code.
BeginSync(s) ==
  /\ import[s] = NoImport
  /\ \E l \in Lines :
       /\ l.coded /\ l.readable /\ l.number = "none"
       /\ import' = [import EXCEPT ![s] = [NoImport EXCEPT !.op = "sync",
                       !.rows = <<Staged(l, "SYNC", 0)>>, !.left = {1}]]
  /\ UNCHANGED <<buyers, invoices, batch, applied>>

Codes(t) == { t.fresh[i].who : i \in { j \in DOMAIN t.fresh : t.fresh[j].coded } }
Others(s) == Importers \ {s}
Twice(q) == \E i, j \in DOMAIN q : i # j /\ q[i] = q[j]
In(q, x) == \E i \in DOMAIN q : q[i] = x

\* Mutant: external_ref is not unique.
CodeAlwaysFree(t, who) == TRUE
\* The constraint on (company_id, external_ref), as an INSERT of t meets it.
CodeFree(t, who) == ByCode(who) = {} /\ who \notin Codes(t)

\* The constraint on (company_id, invoice_number), as a flush of t meets it.
NumbersFree(t) == /\ ~Twice(t.added)
                  /\ \A i \in DOMAIN t.added : /\ invoices[t.added[i]] = "none"
                                               /\ ~In(t.flushed, t.added[i])

\* An INSERT waits for another transaction that has inserted the same key.
Waits(s, keys) == \E r \in Others(s) : \E i \in DOMAIN import[r].flushed : import[r].flushed[i] \in keys
WaitsForCode(s, who) == \E r \in Others(s) : who \in Codes(import[r])

Flushed(t) == [t EXCEPT !.flushed = t.flushed \o t.added, !.added = <<>>]
AddedOf(t) == { t.added[i] : i \in DOMAIN t.added }

\* The invoice of a line is added unless there is one with its number.
WithInvoice(t, line) ==
  IF line.number = "none" \/ invoices[line.number] # "none" \/ In(t.flushed, line.number)
  THEN t ELSE [t EXCEPT !.added = Append(@, line.number)]

\* The rows are applied in their order.
NextRow(t) == CHOOSE i \in t.left : \A j \in t.left : i <= j
Finished(t) == [t EXCEPT !.left = @ \ {NextRow(t)}]

\* Another update of the same debtor is the one that counts.
Noted(t, b, details) ==
  [t EXCEPT !.details = { u \in @ : u.buyer # b } \cup {[buyer |-> b, details |-> details]}]

\* One line of the transaction: a debtor is created, and that flushes, or updated.
ApplyRow(s) ==
  LET t == import[s]
      row == t.rows[NextRow(t)]
      who == row.line.who
      found == IF row.action = "SYNC" THEN ByCode(who) ELSE {row.buyer} \ {0}
      new == [who |-> who, coded |-> row.line.coded, details |-> row.line.details]
  IN /\ t.left # {}
     /\ IF found = {}
        THEN /\ ~Waits(s, AddedOf(t)) /\ (row.line.coded => ~WaitsForCode(s, who))
             /\ import' = [import EXCEPT ![s] =
                  IF NumbersFree(t) /\ (row.line.coded => CodeFree(t, who))
                  THEN WithInvoice([Flushed(Finished(t)) EXCEPT !.fresh = Append(@, new)], row.line)
                  ELSE NoImport]
        ELSE import' = [import EXCEPT ![s] =
               WithInvoice(Noted(Finished(t), CHOOSE b \in found : TRUE, row.line.details), row.line)]
     /\ UNCHANGED <<buyers, invoices, batch, applied>>

\* A committed buyer after the updates of t.
Updated(t, b) ==
  IF \E u \in t.details : u.buyer = b
  THEN [buyers[b] EXCEPT !.details = (CHOOSE u \in t.details : u.buyer = b).details]
  ELSE buyers[b]

Commit(s) ==
  LET t == import[s] IN
  /\ t.op # "none" /\ t.left = {} /\ ~Waits(s, AddedOf(t))
  /\ import' = [import EXCEPT ![s] = NoImport]
  /\ IF ~NumbersFree(t) THEN UNCHANGED <<buyers, invoices, batch, applied>>
     ELSE /\ buyers' = [b \in DOMAIN buyers |-> Updated(t, b)] \o t.fresh
          /\ invoices' = [n \in Numbers |->
               IF In(t.flushed \o t.added, n) THEN "imported" ELSE invoices[n]]
          /\ IF t.op = "sync" THEN UNCHANGED <<batch, applied>>
             ELSE /\ batch' = [batch EXCEPT ![t.file].status = "COMMITTED"]
                  /\ applied' = [applied EXCEPT ![t.file] = @ + 1]

\* The process dies, or two transactions wait for each other and one is rolled back.
Fail(s) == /\ import[s] # NoImport /\ import' = [import EXCEPT ![s] = NoImport]
           /\ UNCHANGED <<buyers, invoices, batch, applied>>

Next == \/ \E f \in Files : StageRow(f) \/ Preview(f)
        \/ \E s \in Importers : \/ \E f \in Files : BeginCommit(s, f)
                                \/ BeginSync(s) \/ ApplyRow(s) \/ Commit(s) \/ Fail(s)

Spec == Init /\ [][Next]_fvars

---------------------------------------------------------------------------
\* The rows of a file that introduce a party.
Creates(f) == { batch[f].rows[i].line : i \in { j \in DOMAIN batch[f].rows :
                                                 batch[f].rows[j].action = "CREATE" } }

TypeOK == /\ \A f \in Files : batch[f].status \in ImportStatus /\ Len(batch[f].rows) <= MaxLines
          /\ \A b \in DOMAIN buyers : buyers[b].coded \in BOOLEAN
          /\ applied \in [Files -> Nat]
          /\ \A n \in Numbers : invoices[n] \in {"none", "imported"}

\* However uploads, commits of one file and syncs overlap, a party with a code is one
\* debtor, and a file that introduces such a party takes effect once, with all its lines
\* or none: staging may be long out of date, and the constraints are what stops it.
AppliedOnce ==
  /\ \A a, b \in DOMAIN buyers :
       buyers[a].coded /\ buyers[b].coded /\ buyers[a].who = buyers[b].who => a = b
  /\ \A f \in Files :
       /\ (\E l \in Creates(f) : l.coded) => applied[f] <= 1
       /\ applied[f] > 0 =>
            \A l \in Creates(f) :
              /\ \E b \in DOMAIN buyers : buyers[b].who = l.who /\ buyers[b].coded = l.coded
              /\ l.number # "none" => invoices[l.number] # "none"
=============================================================================
