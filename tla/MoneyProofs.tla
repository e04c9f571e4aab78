----------------------------- MODULE MoneyProofs -----------------------------
(***************************************************************************)
(* What holds of the money tables and their handlers, for every set of     *)
(* ids, amounts and percents.                                              *)
(*                                                                         *)
(* The tables (Database): TypeOK, ForeignKeys and LaborCap hold in every   *)
(* reachable state.  Together they are inductive: LaborCap needs           *)
(* ForeignKeys (a project that is inserted must find no old worker rows    *)
(* under its id), and both need TypeOK (an id that was never issued has no *)
(* row).  The figures of Queries follow from them: with no dangling        *)
(* reference the joined tables are the whole ones, and sums by group add   *)
(* up to the sum of the column.                                            *)
(*                                                                         *)
(* One handler at a time (Ledger): an unconfirmed payment never overpays a *)
(* worker, and settling everything leaves exactly nothing owed.            *)
(*                                                                         *)
(* In any number of threads (Requests): whatever was read when, the tables *)
(* change only by the database's write transactions, so what Database      *)
(* keeps is kept, the figures of Queries included.                         *)
(*                                                                         *)
(* Statement by statement (Saves): the view a save's connection builds is  *)
(* what its transaction does at once to the tables it began with           *)
(* (DraftSound), because the write lock keeps them still.                  *)
(*                                                                         *)
(* Between the two (Crossings): a handler that no commit crossed does to   *)
(* the tables what it does alone.                                          *)
(*                                                                         *)
(* The pages (Pages): as long as nobody commits, what a page has read is   *)
(* what the tables say (Fresh), so the figures of a page that nothing      *)
(* interrupted follow from Sound and LaborCap like those of one moment.    *)
(***************************************************************************)
EXTENDS Crossings, Pages, DataTheorems

-----------------------------------------------------------------------------
\* What _save_project computes for the ticked workers is a natural number each.
LEMMA FormSharesType ==
    ASSUME NEW form \in Forms
    PROVE  /\ form.labor \in Nat
           /\ FormProject(form) \in ProjectRow
           /\ DOMAIN form.rows \subseteq Workers
           /\ IsFiniteSet(DOMAIN form.rows)
           /\ \A w \in DOMAIN form.rows : FormShares(form)[w] \in Nat
<1>1. /\ form.labor \in Amounts
      /\ form.customer_total \in Totals
      /\ form.status \in Statuses
      /\ form.rows \in UNION {[S -> Entries(Percents, Amounts)] : S \in SUBSET Workers}
  BY DEF Forms
<1>2. PICK S \in SUBSET Workers : form.rows \in [S -> Entries(Percents, Amounts)]
  BY <1>1
<1>3. form.labor \in Nat
  BY <1>1, AmountAssumption
<1>4. FormProject(form) \in ProjectRow
  BY <1>1, <1>3, AmountAssumption, TotalAssumption DEF FormProject, ProjectRow
<1>5. DOMAIN form.rows \subseteq Workers /\ IsFiniteSet(DOMAIN form.rows)
  BY <1>2, FiniteAssumption, FS_Subset
<1>6. ASSUME NEW w \in DOMAIN form.rows PROVE FormShares(form)[w] \in Nat
  <2>1. form.rows[w] \in Entries(Percents, Amounts)
    BY <1>2
  <2>2. row_share(form.labor, form.rows[w]) \in Nat
    BY <1>3, <2>1, RowShareType, AmountAssumption, PercentAssumption
  <2> QED
    BY <2>2 DEF FormShares
<1> QED
  BY <1>3, <1>4, <1>5, <1>6

\* The rows a save inserts, and what they sum to.
LEMMA FormRowsType ==
    ASSUME NEW form \in Forms, NEW p \in Projects
    PROVE  /\ IsTable(FormRows(p, form), Projects \X Workers, Nat)
           /\ DOMAIN FormRows(p, form) = {p} \X (DOMAIN form.rows)
           /\ SumOf({p} \X (DOMAIN form.rows), FormRows(p, form))
                = SumOf(DOMAIN form.rows, FormShares(form))
<1> DEFINE W == DOMAIN form.rows
<1>1. /\ W \subseteq Workers
      /\ IsFiniteSet(W)
      /\ \A w \in W : FormShares(form)[w] \in Nat
  BY FormSharesType
<1>2. DOMAIN FormRows(p, form) = {p} \X W
  BY DEF FormRows
<1>3. \A w \in W : FormRows(p, form)[<<p, w>>] = FormShares(form)[w]
  BY DEF FormRows
<1>4. IsTable(FormRows(p, form), Projects \X Workers, Nat)
  BY <1>1 DEF FormRows, IsTable
<1>5. SumOf({p} \X W, FormRows(p, form)) = SumOf(W, FormShares(form))
  <2> DEFINE c == FormShares(form)
             d == FormRows(p, form)
  <2>1. IsFiniteSet(W) /\ \A w \in W : c[w] \in Nat /\ d[<<p, w>>] = c[w]
    BY <1>1, <1>3
  <2> HIDE DEF W, c, d
  <2>2. SumOf({p} \X W, d) = SumOf(W, c)
    BY <2>1, SumTagged, Z3
  <2> QED
    BY <2>2 DEF c, d
<1> QED
  BY <1>2, <1>4, <1>5

\* The tables are finite, so their columns have a sum.
LEMMA FiniteTables ==
    ASSUME TypeOK
    PROVE  IsFiniteSet(DOMAIN share) /\ IsFiniteSet(DOMAIN payment)
<1>1. DOMAIN share \subseteq Projects \X Workers /\ DOMAIN payment \subseteq Payments
  BY DEF TypeOK, IsTable
<1>2. IsFiniteSet(Projects \X Workers)
  BY FiniteAssumption, FS_Product
<1> QED
  BY <1>1, <1>2, FiniteAssumption, FS_Subset

(***************************************************************************)
(* A project whose labor amount stays and whose worker rows are at most    *)
(* fewer stays within its cap.                                             *)
(***************************************************************************)
LEMMA CapKept ==
    ASSUME TypeOK, LaborCap, NEW p \in DOMAIN project,
           project'[p].labor = project[p].labor,
           SharesOfProject(p)' \subseteq SharesOfProject(p),
           \A r \in SharesOfProject(p)' : share'[r] = share[r]
    PROVE  SumOf(SharesOfProject(p), share)' <= project'[p].labor
<1> DEFINE old == SharesOfProject(p)
           new == SharesOfProject(p)'
<1>1. IsFiniteSet(old) /\ \A r \in old : share[r] \in Nat
  BY FiniteTables, FS_Subset DEF SharesOfProject, TypeOK, IsTable
<1>2. IsFiniteSet(new)
  BY <1>1, FS_Subset
<1>3. SumOf(new, share) <= SumOf(old, share) /\ SumOf(old, share) \in Nat
  BY <1>1, SumOfFewer, SumType
<1>4. SumOf(new, share) \in Nat
  BY <1>1, <1>2, SumType
<1>5. SumOf(new, share') = SumOf(new, share)
  BY SumSameColumn
<1>6. SumOf(old, share) <= project[p].labor /\ project[p].labor \in Nat
  BY DEF LaborCap, TypeOK, IsTable, ProjectRow
<1> QED
  BY <1>3, <1>4, <1>5, <1>6

\* A project that was just saved from a valid form is within its cap.
LEMMA CapSaved ==
    ASSUME NEW form \in Forms, FormValid(form), NEW p \in Projects,
           project'[p] = FormProject(form),
           SharesOfProject(p)' = {p} \X (DOMAIN form.rows),
           \A r \in {p} \X (DOMAIN form.rows) : share'[r] = FormRows(p, form)[r]
    PROVE  SumOf(SharesOfProject(p), share)' <= project'[p].labor
<1>1. SumOf({p} \X (DOMAIN form.rows), share') = SumOf({p} \X (DOMAIN form.rows), FormRows(p, form))
  BY SumSameColumn
<1>2. SumOf({p} \X (DOMAIN form.rows), share') = SumOf(DOMAIN form.rows, FormShares(form))
  BY <1>1, FormRowsType
<1>3. project'[p].labor = form.labor
  BY DEF FormProject
<1> QED
  BY <1>2, <1>3 DEF FormValid
-----------------------------------------------------------------------------
\* A new id gets no row by accident: it was never issued, so no table has it.
LEMMA NewIdIsNew ==
    ASSUME TypeOK, NEW id \in Ids, NewId(id)
    PROVE  /\ issued' \subseteq Ids
           /\ issued \subseteq issued'
           /\ id \in issued'
           /\ id \notin DOMAIN worker
           /\ id \notin DOMAIN project
           /\ id \notin DOMAIN payment
BY DEF TypeOK, NewId, IsTable

\* The tables an insertion leaves alone stay well formed as ids are issued.
LEMMA UntouchedTables ==
    ASSUME TypeOK, issued \subseteq issued'
    PROVE  /\ worker' = worker => IsTable(worker', Workers \cap issued', BOOLEAN)
           /\ project' = project => IsTable(project', Projects \cap issued', ProjectRow)
           /\ share' = share => IsTable(share', Projects \X Workers, Nat)
           /\ payment' = payment => IsTable(payment', Payments \cap issued', PaymentRow)
           /\ expense' = expense => IsTable(expense', Expenses \cap issued', ProjectItem)
           /\ receipt' = receipt => IsTable(receipt', Receipts \cap issued', ProjectItem)
BY DEF TypeOK, IsTable

\* Every write transaction keeps the tables well formed.
LEMMA TypePreserved == TypeOK /\ [Next]_tables => TypeOK'
<1> SUFFICES ASSUME TypeOK, [Next]_tables PROVE TypeOK'
  OBVIOUS
<1> USE DEF Ids
<1>1. ASSUME NEW active \in Flags, InsertWorker(active) PROVE TypeOK'
  <2>1. PICK w \in Workers : NewId(w) /\ worker' = Put(worker, w, active)
    BY <1>1 DEF InsertWorker
  <2>2. IsTable(worker, Workers \cap issued', BOOLEAN) /\ w \in Workers \cap issued'
    BY <2>1, NewIdIsNew, MoreKeys DEF TypeOK
  <2>3. IsTable(worker', Workers \cap issued', BOOLEAN)
    BY <2>1, <2>2, PutTable, FlagAssumption
  <2> QED
    BY <1>1, <2>1, <2>3, NewIdIsNew, UntouchedTables DEF InsertWorker, TypeOK
<1>2. ASSUME NEW w \in Workers, NEW active \in Flags, UpdateWorker(w, active) PROVE TypeOK'
  <2>1. w \in Workers \cap issued
    BY <1>2 DEF UpdateWorker, TypeOK, IsTable
  <2>2. IsTable(worker', Workers \cap issued, BOOLEAN)
    BY <1>2, <2>1, PutTable, FlagAssumption DEF UpdateWorker, TypeOK
  <2> QED
    BY <1>2, <2>2 DEF UpdateWorker, TypeOK
<1>3. ASSUME NEW w \in Workers, DeleteWorker(w) PROVE TypeOK'
  BY <1>3, WithoutTable DEF DeleteWorker, TypeOK
<1>4. ASSUME NEW form \in Forms, InsertProject(form) PROVE TypeOK'
  <2>1. PICK p \in Projects : /\ NewId(p)
                              /\ project' = Put(project, p, FormProject(form))
                              /\ share' = Upsert(share, FormRows(p, form))
    BY <1>4 DEF InsertProject
  <2>2. IsTable(project, Projects \cap issued', ProjectRow) /\ p \in Projects \cap issued'
    BY <2>1, NewIdIsNew, MoreKeys DEF TypeOK
  <2>3. IsTable(project', Projects \cap issued', ProjectRow)
    BY <2>1, <2>2, PutTable, FormSharesType
  <2>4. IsTable(share', Projects \X Workers, Nat)
    BY <2>1, UpsertTable, FormRowsType DEF TypeOK
  <2> QED
    BY <1>4, <2>1, <2>3, <2>4, NewIdIsNew, UntouchedTables DEF InsertProject, TypeOK
<1>5. ASSUME NEW p \in Projects, NEW form \in Forms, UpdateProject(p, form) PROVE TypeOK'
  <2>1. p \in Projects \cap issued
    BY <1>5 DEF UpdateProject, TypeOK, IsTable
  <2>2. IsTable(project', Projects \cap issued, ProjectRow)
    BY <1>5, <2>1, PutTable, FormSharesType DEF UpdateProject, TypeOK
  <2>3. IsTable(Without(share, SharesOfProject(p)), Projects \X Workers, Nat)
    BY WithoutTable DEF TypeOK
  <2>4. IsTable(share', Projects \X Workers, Nat)
    BY <1>5, <2>3, UpsertTable, FormRowsType DEF UpdateProject
  <2> QED
    BY <1>5, <2>2, <2>4 DEF UpdateProject, TypeOK
<1>6. ASSUME NEW p \in Projects, NEW status \in Statuses, SetStatus(p, status) PROVE TypeOK'
  <2>1. p \in Projects \cap issued /\ project[p] \in ProjectRow
    BY <1>6 DEF SetStatus, TypeOK, IsTable
  <2>2. [project[p] EXCEPT !.status = status] \in ProjectRow
    BY <2>1 DEF ProjectRow
  <2>3. IsTable(project', Projects \cap issued, ProjectRow)
    BY <1>6, <2>1, <2>2, PutTable DEF SetStatus, TypeOK
  <2> QED
    BY <1>6, <2>3 DEF SetStatus, TypeOK
<1>7. ASSUME NEW p \in Projects, DeleteProject(p) PROVE TypeOK'
  <2>1. IsTable(payment', Payments \cap issued, PaymentRow)
    BY <1>7 DEF DeleteProject, TypeOK, IsTable, PaymentRow
  <2> QED
    BY <1>7, <2>1, WithoutTable DEF DeleteProject, TypeOK
<1>8. ASSUME NEW w \in Workers, NEW p \in Projects \cup {NoProject}, NEW amount \in PaidAmounts,
             InsertPayment(w, p, amount)
      PROVE  TypeOK'
  <2> DEFINE row == [worker |-> w, project |-> p, amount |-> amount]
  <2>1. PICK i \in Payments : NewId(i) /\ payment' = Put(payment, i, row)
    BY <1>8 DEF InsertPayment
  <2>2. row \in PaymentRow
    BY <1>8, AmountAssumption DEF InsertPayment, PaymentRow
  <2>3. IsTable(payment, Payments \cap issued', PaymentRow) /\ i \in Payments \cap issued'
    BY <2>1, NewIdIsNew, MoreKeys DEF TypeOK
  <2> HIDE DEF row
  <2>4. IsTable(payment', Payments \cap issued', PaymentRow)
    BY <2>1, <2>2, <2>3, PutTable
  <2> QED
    BY <1>8, <2>1, <2>4, NewIdIsNew, UntouchedTables DEF InsertPayment, TypeOK
<1>9. ASSUME NEW i \in Payments, NEW amount \in PaidAmounts, UpdatePayment(i, amount) PROVE TypeOK'
  <2>1. i \in Payments \cap issued /\ payment[i] \in PaymentRow
    BY <1>9 DEF UpdatePayment, TypeOK, IsTable
  <2>2. [payment[i] EXCEPT !.amount = amount] \in PaymentRow
    BY <1>9, <2>1, AmountAssumption DEF UpdatePayment, PaymentRow
  <2>3. IsTable(payment', Payments \cap issued, PaymentRow)
    BY <1>9, <2>1, <2>2, PutTable DEF UpdatePayment, TypeOK
  <2> QED
    BY <1>9, <2>3 DEF UpdatePayment, TypeOK
<1>10. ASSUME NEW i \in Payments, DeletePayment(i) PROVE TypeOK'
  BY <1>10, WithoutTable DEF DeletePayment, TypeOK
<1>11. ASSUME NEW p \in Projects, NEW amount \in Amounts, InsertExpense(p, amount) PROVE TypeOK'
  <2>1. PICK i \in Expenses :
           NewId(i) /\ expense' = Put(expense, i, [project |-> p, amount |-> amount])
    BY <1>11 DEF InsertExpense
  <2>2. [project |-> p, amount |-> amount] \in ProjectItem
    BY <1>11, AmountAssumption DEF InsertExpense, ProjectItem
  <2>3. IsTable(expense, Expenses \cap issued', ProjectItem) /\ i \in Expenses \cap issued'
    BY <2>1, NewIdIsNew, MoreKeys DEF TypeOK
  <2>4. IsTable(expense', Expenses \cap issued', ProjectItem)
    BY <2>1, <2>2, <2>3, PutTable
  <2> QED
    BY <1>11, <2>1, <2>4, NewIdIsNew, UntouchedTables DEF InsertExpense, TypeOK
<1>12. ASSUME NEW i \in Expenses, DeleteExpense(i) PROVE TypeOK'
  BY <1>12, WithoutTable DEF DeleteExpense, TypeOK
<1>13. ASSUME NEW p \in Projects, NEW amount \in Amounts, InsertReceipt(p, amount) PROVE TypeOK'
  <2>1. PICK i \in Receipts :
           NewId(i) /\ receipt' = Put(receipt, i, [project |-> p, amount |-> amount])
    BY <1>13 DEF InsertReceipt
  <2>2. [project |-> p, amount |-> amount] \in ProjectItem
    BY <1>13, AmountAssumption DEF InsertReceipt, ProjectItem
  <2>3. IsTable(receipt, Receipts \cap issued', ProjectItem) /\ i \in Receipts \cap issued'
    BY <2>1, NewIdIsNew, MoreKeys DEF TypeOK
  <2>4. IsTable(receipt', Receipts \cap issued', ProjectItem)
    BY <2>1, <2>2, <2>3, PutTable
  <2> QED
    BY <1>13, <2>1, <2>4, NewIdIsNew, UntouchedTables DEF InsertReceipt, TypeOK
<1>14. ASSUME NEW i \in Receipts, DeleteReceipt(i) PROVE TypeOK'
  BY <1>14, WithoutTable DEF DeleteReceipt, TypeOK
<1>15. CASE UNCHANGED tables
  BY <1>15 DEF tables, TypeOK
<1> QED
  BY <1>1, <1>2, <1>3, <1>4, <1>5, <1>6, <1>7, <1>8, <1>9, <1>10, <1>11, <1>12, <1>13, <1>14,
     <1>15 DEF Next
\* Every table holds well-formed rows under ids that were issued.
THEOREM TypeCorrect == Spec => []TypeOK
<1>1. Init => TypeOK
  BY EmptyIsTable DEF Init, TypeOK
<1> QED
  BY <1>1, TypePreserved, PTL DEF Spec
-----------------------------------------------------------------------------
\* No write transaction leaves a dangling reference.
LEMMA KeysPreserved == TypeOK /\ ForeignKeys /\ [Next]_tables => ForeignKeys'
<1> SUFFICES ASSUME TypeOK, ForeignKeys, [Next]_tables PROVE ForeignKeys'
  OBVIOUS
<1> USE DEF Ids
<1>1. ASSUME NEW active \in Flags, InsertWorker(active) PROVE ForeignKeys'
  <2>1. DOMAIN worker \subseteq DOMAIN worker'
    BY <1>1 DEF InsertWorker, Put, Upsert
  <2> QED
    BY <1>1, <2>1 DEF InsertWorker, ForeignKeys
<1>2. ASSUME NEW w \in Workers, NEW active \in Flags, UpdateWorker(w, active) PROVE ForeignKeys'
  <2>1. DOMAIN worker' = DOMAIN worker
    BY <1>2 DEF UpdateWorker, Put, Upsert
  <2> QED
    BY <1>2, <2>1 DEF UpdateWorker, ForeignKeys
<1>3. ASSUME NEW w \in Workers, DeleteWorker(w) PROVE ForeignKeys'
  BY <1>3 DEF DeleteWorker, ForeignKeys, Without, Restrict, SharesOfWorker
<1>4. ASSUME NEW form \in Forms, InsertProject(form) PROVE ForeignKeys'
  <2>1. PICK p \in Projects : /\ project' = Put(project, p, FormProject(form))
                              /\ share' = Upsert(share, FormRows(p, form))
    BY <1>4 DEF InsertProject
  <2>2. DOMAIN project' = DOMAIN project \cup {p}
    BY <2>1 DEF Put, Upsert
  <2>3. DOMAIN share' = DOMAIN share \cup ({p} \X (DOMAIN form.rows))
    BY <2>1 DEF Upsert, FormRows
  <2> QED
    BY <1>4, <2>2, <2>3 DEF InsertProject, ForeignKeys
<1>5. ASSUME NEW p \in Projects, NEW form \in Forms, UpdateProject(p, form) PROVE ForeignKeys'
  <2>1. DOMAIN project' = DOMAIN project
    BY <1>5 DEF UpdateProject, Put, Upsert
  <2>2. DOMAIN share' = (DOMAIN share \ SharesOfProject(p)) \cup ({p} \X (DOMAIN form.rows))
    BY <1>5 DEF UpdateProject, Upsert, FormRows, Without, Restrict
  <2> QED
    BY <1>5, <2>1, <2>2 DEF UpdateProject, ForeignKeys
<1>6. ASSUME NEW p \in Projects, NEW status \in Statuses, SetStatus(p, status) PROVE ForeignKeys'
  <2>1. DOMAIN project' = DOMAIN project
    BY <1>6 DEF SetStatus, Put, Upsert
  <2> QED
    BY <1>6, <2>1 DEF SetStatus, ForeignKeys
<1>7. ASSUME NEW p \in Projects, DeleteProject(p) PROVE ForeignKeys'
  <2>1. DOMAIN project' = DOMAIN project \ {p}
    BY <1>7 DEF DeleteProject, Without, Restrict
  <2>2. DOMAIN share' \subseteq (DOMAIN project') \X (DOMAIN worker')
    BY <1>7, <2>1 DEF DeleteProject, ForeignKeys, Without, Restrict, SharesOfProject
  <2>3. ASSUME NEW i \in DOMAIN payment'
        PROVE  /\ payment'[i].worker \in DOMAIN worker'
               /\ payment'[i].project \in DOMAIN project' \cup {NoProject}
    <3>1. i \in DOMAIN payment /\ payment[i] \in PaymentRow
      BY <1>7 DEF DeleteProject, TypeOK, IsTable
    <3>2. payment'[i] = IF payment[i].project = p THEN [payment[i] EXCEPT !.project = NoProject]
                                                  ELSE payment[i]
      BY <1>7, <3>1 DEF DeleteProject
    <3> QED
      BY <1>7, <2>1, <3>1, <3>2 DEF DeleteProject, ForeignKeys, PaymentRow
  <2>4. \A i \in DOMAIN expense' : expense'[i].project \in DOMAIN project'
    BY <1>7, <2>1 DEF DeleteProject, ForeignKeys, Without, Restrict
  <2>5. \A i \in DOMAIN receipt' : receipt'[i].project \in DOMAIN project'
    BY <1>7, <2>1 DEF DeleteProject, ForeignKeys, Without, Restrict
  <2> QED
    BY <2>2, <2>3, <2>4, <2>5 DEF ForeignKeys
<1>8. ASSUME NEW w \in Workers, NEW p \in Projects \cup {NoProject}, NEW amount \in PaidAmounts,
             InsertPayment(w, p, amount)
      PROVE  ForeignKeys'
  <2>1. \A i \in DOMAIN payment' : /\ payment'[i].worker \in DOMAIN worker'
                                  /\ payment'[i].project \in DOMAIN project' \cup {NoProject}
    BY <1>8 DEF InsertPayment, ForeignKeys, Put, Upsert
  <2> QED
    BY <1>8, <2>1 DEF InsertPayment, ForeignKeys
<1>9. ASSUME NEW i \in Payments, NEW amount \in PaidAmounts, UpdatePayment(i, amount)
      PROVE  ForeignKeys'
  <2>1. payment[i] \in PaymentRow
    BY <1>9 DEF UpdatePayment, TypeOK, IsTable
  <2> DEFINE row == [payment[i] EXCEPT !.amount = amount]
  <2>2. row.worker = payment[i].worker /\ row.project = payment[i].project
    BY <2>1 DEF PaymentRow
  <2> HIDE DEF row
  <2>3. payment' = Put(payment, i, row) /\ i \in DOMAIN payment
    BY <1>9 DEF UpdatePayment, row
  <2>4. \A j \in DOMAIN payment' : /\ payment'[j].worker \in DOMAIN worker
                                  /\ payment'[j].project \in DOMAIN project \cup {NoProject}
    BY <2>2, <2>3 DEF ForeignKeys, Put, Upsert
  <2> QED
    BY <1>9, <2>4 DEF UpdatePayment, ForeignKeys
<1>10. ASSUME NEW i \in Payments, DeletePayment(i) PROVE ForeignKeys'
  BY <1>10 DEF DeletePayment, ForeignKeys, Without, Restrict
<1>11. ASSUME NEW p \in Projects, NEW amount \in Amounts, InsertExpense(p, amount) PROVE ForeignKeys'
  <2>1. \A i \in DOMAIN expense' : expense'[i].project \in DOMAIN project'
    BY <1>11 DEF InsertExpense, ForeignKeys, Put, Upsert
  <2> QED
    BY <1>11, <2>1 DEF InsertExpense, ForeignKeys
<1>12. ASSUME NEW i \in Expenses, DeleteExpense(i) PROVE ForeignKeys'
  BY <1>12 DEF DeleteExpense, ForeignKeys, Without, Restrict
<1>13. ASSUME NEW p \in Projects, NEW amount \in Amounts, InsertReceipt(p, amount) PROVE ForeignKeys'
  <2>1. \A i \in DOMAIN receipt' : receipt'[i].project \in DOMAIN project'
    BY <1>13 DEF InsertReceipt, ForeignKeys, Put, Upsert
  <2> QED
    BY <1>13, <2>1 DEF InsertReceipt, ForeignKeys
<1>14. ASSUME NEW i \in Receipts, DeleteReceipt(i) PROVE ForeignKeys'
  BY <1>14 DEF DeleteReceipt, ForeignKeys, Without, Restrict
<1>15. CASE UNCHANGED tables
  BY <1>15 DEF tables, ForeignKeys
<1> QED
  BY <1>1, <1>2, <1>3, <1>4, <1>5, <1>6, <1>7, <1>8, <1>9, <1>10, <1>11, <1>12, <1>13, <1>14,
     <1>15 DEF Next

\* No row ever points at a row that is gone.
THEOREM KeysHold == Spec => []ForeignKeys
<1>1. Init => ForeignKeys
  BY DEF Init, ForeignKeys, EmptyTable
<1> QED
  BY <1>1, TypeCorrect, KeysPreserved, PTL DEF Spec
-----------------------------------------------------------------------------
\* Steps that change neither labor amounts nor shares.
LEMMA CapUntouched == LaborCap /\ UNCHANGED <<project, share>> => LaborCap'
BY DEF LaborCap, SharesOfProject

\* No write transaction takes a project above its cap.
LEMMA CapPreserved == TypeOK /\ ForeignKeys /\ LaborCap /\ [Next]_tables => LaborCap'
<1> SUFFICES ASSUME TypeOK, ForeignKeys, LaborCap, [Next]_tables PROVE LaborCap'
  OBVIOUS
<1> USE DEF Ids
<1> DEFINE Capped(p) == SumOf(SharesOfProject(p), share)' <= project'[p].labor
<1>1. ASSUME NEW w \in Workers, DeleteWorker(w) PROVE LaborCap'
  <2>1. ASSUME NEW p \in DOMAIN project' PROVE Capped(p)
    <3>1. p \in DOMAIN project /\ project'[p] = project[p]
      BY <1>1, <2>1 DEF DeleteWorker
    <3>2. SharesOfProject(p)' \subseteq SharesOfProject(p)
      BY <1>1 DEF DeleteWorker, SharesOfProject, Without, Restrict
    <3>3. \A r \in SharesOfProject(p)' : share'[r] = share[r]
      BY <1>1 DEF DeleteWorker, SharesOfProject, Without, Restrict
    <3> QED
      BY <3>1, <3>2, <3>3, CapKept
  <2> QED
    BY <2>1 DEF LaborCap
<1>2. ASSUME NEW form \in Forms, InsertProject(form) PROVE LaborCap'
  <2>1. PICK p \in Projects : /\ NewId(p)
                              /\ project' = Put(project, p, FormProject(form))
                              /\ share' = Upsert(share, FormRows(p, form))
    BY <1>2 DEF InsertProject
  <2>2. p \notin DOMAIN project /\ SharesOfProject(p) = {}
    BY <2>1, NewIdIsNew DEF ForeignKeys, SharesOfProject
  <2>3. /\ DOMAIN project' = DOMAIN project \cup {p}
        /\ project'[p] = FormProject(form)
        /\ \A q \in DOMAIN project : project'[q] = project[q]
    BY <2>1, <2>2 DEF Put, Upsert
  <2>4. /\ DOMAIN share' = DOMAIN share \cup ({p} \X (DOMAIN form.rows))
        /\ \A r \in {p} \X (DOMAIN form.rows) : share'[r] = FormRows(p, form)[r]
        /\ \A r \in DOMAIN share : r[1] # p => share'[r] = share[r]
    BY <2>1 DEF Upsert, FormRows
  <2>5. Capped(p)
    <3>1. SharesOfProject(p)' = {p} \X (DOMAIN form.rows)
      BY <2>2, <2>4 DEF SharesOfProject
    <3> QED
      BY <1>2, <2>3, <2>4, <3>1, CapSaved DEF InsertProject
  <2>6. ASSUME NEW q \in DOMAIN project PROVE Capped(q)
    <3>1. q # p
      BY <2>2
    <3>2. SharesOfProject(q)' = SharesOfProject(q)
      BY <2>4, <3>1 DEF SharesOfProject
    <3>3. \A r \in SharesOfProject(q) : share'[r] = share[r]
      BY <2>4, <3>1 DEF SharesOfProject
    <3> QED
      BY <2>3, <3>2, <3>3, CapKept
  <2> QED
    BY <2>3, <2>5, <2>6 DEF LaborCap
<1>3. ASSUME NEW p \in Projects, NEW form \in Forms, UpdateProject(p, form) PROVE LaborCap'
  <2>1. /\ DOMAIN project' = DOMAIN project
        /\ project'[p] = FormProject(form)
        /\ \A q \in DOMAIN project \ {p} : project'[q] = project[q]
    BY <1>3 DEF UpdateProject, Put, Upsert
  <2>2. /\ DOMAIN share' = (DOMAIN share \ SharesOfProject(p)) \cup ({p} \X (DOMAIN form.rows))
        /\ \A r \in {p} \X (DOMAIN form.rows) : share'[r] = FormRows(p, form)[r]
        /\ \A r \in DOMAIN share : r[1] # p => share'[r] = share[r]
    BY <1>3 DEF UpdateProject, Upsert, FormRows, Without, Restrict, SharesOfProject
  <2>3. Capped(p)
    <3>1. SharesOfProject(p)' = {p} \X (DOMAIN form.rows)
      BY <2>2 DEF SharesOfProject
    <3> QED
      BY <1>3, <2>1, <2>2, <3>1, CapSaved DEF UpdateProject
  <2>4. ASSUME NEW q \in DOMAIN project \ {p} PROVE Capped(q)
    <3>1. SharesOfProject(q)' = SharesOfProject(q)
      BY <2>2 DEF SharesOfProject
    <3>2. \A r \in SharesOfProject(q) : share'[r] = share[r]
      BY <2>2 DEF SharesOfProject
    <3> QED
      BY <2>1, <3>1, <3>2, CapKept
  <2> QED
    BY <2>1, <2>3, <2>4 DEF LaborCap
<1>4. ASSUME NEW p \in Projects, NEW status \in Statuses, SetStatus(p, status) PROVE LaborCap'
  <2>1. DOMAIN project' = DOMAIN project /\ share' = share
    BY <1>4 DEF SetStatus, Put, Upsert
  <2>2. ASSUME NEW q \in DOMAIN project PROVE project'[q].labor = project[q].labor
    <3>1. project[q] \in ProjectRow
      BY DEF TypeOK, IsTable
    <3> QED
      BY <1>4, <3>1 DEF SetStatus, Put, Upsert, ProjectRow
  <2> QED
    BY <2>1, <2>2 DEF LaborCap, SharesOfProject
<1>5. ASSUME NEW p \in Projects, DeleteProject(p) PROVE LaborCap'
  <2>1. ASSUME NEW q \in DOMAIN project' PROVE Capped(q)
    <3>1. q \in DOMAIN project /\ project'[q] = project[q]
      BY <1>5, <2>1 DEF DeleteProject, Without, Restrict
    <3>2. SharesOfProject(q)' \subseteq SharesOfProject(q)
      BY <1>5 DEF DeleteProject, SharesOfProject, Without, Restrict
    <3>3. \A r \in SharesOfProject(q)' : share'[r] = share[r]
      BY <1>5 DEF DeleteProject, SharesOfProject, Without, Restrict
    <3> QED
      BY <3>1, <3>2, <3>3, CapKept
  <2> QED
    BY <2>1 DEF LaborCap
<1>6. ASSUME UNCHANGED <<project, share>> PROVE LaborCap'
  BY <1>6, CapUntouched
<1> QED
  BY <1>1, <1>2, <1>3, <1>4, <1>5, <1>6
     DEF Next, tables, InsertWorker, UpdateWorker, InsertPayment, UpdatePayment, DeletePayment,
         InsertExpense, DeleteExpense, InsertReceipt, DeleteReceipt

(***************************************************************************)
(* The shares of a project never add up to more than its labor amount,     *)
(* through every save, deletion and cascade.                               *)
(***************************************************************************)
THEOREM CapHolds == Spec => []LaborCap
<1>1. Init => LaborCap
  BY DEF Init, LaborCap, EmptyTable
<1> QED
  BY <1>1, TypeCorrect, KeysHold, CapPreserved, PTL DEF Spec
-----------------------------------------------------------------------------
\* Only finitely many ids are ever given out, so every table is finite.
FiniteIds == IsFiniteSet(issued)

\* A transaction gives out at most one.
LEMMA FiniteIdsKept == FiniteIds /\ [Next]_tables => FiniteIds'
<1> USE DEF FiniteIds
<1> SUFFICES ASSUME IsFiniteSet(issued), [Next]_tables PROVE IsFiniteSet(issued')
  OBVIOUS
<1>1. issued' = issued \/ \E id : NewId(id)
  BY DEF Next, tables, InsertWorker, UpdateWorker, DeleteWorker, InsertProject, UpdateProject,
         SetStatus, DeleteProject, InsertPayment, UpdatePayment, DeletePayment, InsertExpense,
         DeleteExpense, InsertReceipt, DeleteReceipt
<1>2. ASSUME NEW id, NewId(id) PROVE IsFiniteSet(issued')
  BY <1>2, FS_AddElement DEF NewId
<1> QED
  BY <1>1, <1>2

\* What the figures rest on: finite tables of well-formed rows that point at rows.
Sound == TypeOK /\ ForeignKeys /\ FiniteIds

\* The tables, their rows and their references, as the sums below need them.
LEMMA SoundTables ==
    ASSUME Sound
    PROVE  /\ IsFiniteSet(DOMAIN worker) /\ IsFiniteSet(DOMAIN project)
           /\ IsFiniteSet(DOMAIN share) /\ IsFiniteSet(DOMAIN payment)
           /\ IsFiniteSet(DOMAIN expense) /\ IsFiniteSet(DOMAIN receipt)
           /\ \A r \in DOMAIN share :
                 share[r] \in Nat /\ r[1] \in DOMAIN project /\ r[2] \in DOMAIN worker
           /\ \A i \in DOMAIN payment :
                 AmountOf(payment)[i] \in Nat /\ payment[i].worker \in DOMAIN worker
           /\ \A i \in DOMAIN expense :
                 AmountOf(expense)[i] \in Nat /\ expense[i].project \in DOMAIN project
           /\ \A i \in DOMAIN receipt :
                 AmountOf(receipt)[i] \in Nat /\ receipt[i].project \in DOMAIN project
           /\ \A p \in DOMAIN project : project[p].labor \in Nat /\ project[p].customer_total \in Nat
<1>1. /\ DOMAIN worker \subseteq issued /\ DOMAIN project \subseteq issued
      /\ DOMAIN payment \subseteq issued /\ DOMAIN expense \subseteq issued
      /\ DOMAIN receipt \subseteq issued
  BY DEF Sound, TypeOK, IsTable
<1>2. IsFiniteSet(DOMAIN share)
  BY FiniteTables DEF Sound
<1>3. \A r \in DOMAIN share :
         share[r] \in Nat /\ r[1] \in DOMAIN project /\ r[2] \in DOMAIN worker
  BY DEF Sound, TypeOK, IsTable, ForeignKeys
<1>4. \A i \in DOMAIN payment :
         AmountOf(payment)[i] \in Nat /\ payment[i].worker \in DOMAIN worker
  BY DEF Sound, TypeOK, IsTable, ForeignKeys, AmountOf, PaymentRow
<1>5. \A i \in DOMAIN expense :
         AmountOf(expense)[i] \in Nat /\ expense[i].project \in DOMAIN project
  BY DEF Sound, TypeOK, IsTable, ForeignKeys, AmountOf, ProjectItem
<1>6. \A i \in DOMAIN receipt :
         AmountOf(receipt)[i] \in Nat /\ receipt[i].project \in DOMAIN project
  BY DEF Sound, TypeOK, IsTable, ForeignKeys, AmountOf, ProjectItem
<1>7. \A p \in DOMAIN project : project[p].labor \in Nat /\ project[p].customer_total \in Nat
  BY DEF Sound, TypeOK, IsTable, ProjectRow
<1> QED
  BY <1>1, <1>2, <1>3, <1>4, <1>5, <1>6, <1>7, FS_Subset DEF Sound, FiniteIds

\* What the workers earned is the sum of their shares, by worker and by project.
LEMMA SharesByGroup ==
    ASSUME Sound
    PROVE  /\ SumOf(DOMAIN share, share)
                = SumFunctionOnSet([p \in DOMAIN project |-> SumOf(SharesOfProject(p), share)],
                                   DOMAIN project)
           /\ SumOf(DOMAIN share, share)
                = SumFunctionOnSet([w \in DOMAIN worker |-> Earned(w)], DOMAIN worker)
<1> DEFINE ofProject == [r \in DOMAIN share |-> r[1]]
           ofWorker  == [r \in DOMAIN share |-> r[2]]
           byProject == [p \in DOMAIN project |-> SumOf(SharesOfProject(p), share)]
           byWorker  == [w \in DOMAIN worker |-> Earned(w)]
<1>1. /\ IsFiniteSet(DOMAIN worker) /\ IsFiniteSet(DOMAIN project) /\ IsFiniteSet(DOMAIN share)
      /\ \A r \in DOMAIN share : /\ share[r] \in Nat
                                 /\ ofProject[r] \in DOMAIN project
                                 /\ ofWorker[r] \in DOMAIN worker
  BY SoundTables
<1>2. ASSUME NEW p \in DOMAIN project
      PROVE  byProject[p] = SumOf(Group(DOMAIN share, ofProject, p), share)
  <2>1. Group(DOMAIN share, ofProject, p) = SharesOfProject(p)
    BY DEF Group, SharesOfProject
  <2> QED
    BY <2>1
<1>3. ASSUME NEW w \in DOMAIN worker
      PROVE  byWorker[w] = SumOf(Group(DOMAIN share, ofWorker, w), share)
  <2>1. Group(DOMAIN share, ofWorker, w) = SharesOfWorker(w)
    BY DEF Group, SharesOfWorker
  <2> QED
    BY <2>1 DEF Earned
<1> HIDE DEF ofProject, ofWorker, byProject, byWorker
<1>4. SumFunctionOnSet(byProject, DOMAIN project) = SumOf(DOMAIN share, share)
  BY <1>1, <1>2, TotalByGroup
<1>5. SumFunctionOnSet(byWorker, DOMAIN worker) = SumOf(DOMAIN share, share)
  BY <1>1, <1>3, TotalByGroup, SMTT(60)
<1> QED
  BY <1>4, <1>5 DEF byProject, byWorker

\* The payments, added up worker by worker.
LEMMA PaymentsByWorker ==
    ASSUME Sound
    PROVE  SumOf(DOMAIN payment, AmountOf(payment))
             = SumFunctionOnSet([w \in DOMAIN worker |-> Paid(w)], DOMAIN worker)
<1> DEFINE ofWorker == [i \in DOMAIN payment |-> payment[i].worker]
           byWorker == [w \in DOMAIN worker |-> Paid(w)]
<1>1. /\ IsFiniteSet(DOMAIN worker) /\ IsFiniteSet(DOMAIN payment)
      /\ \A i \in DOMAIN payment : AmountOf(payment)[i] \in Nat /\ ofWorker[i] \in DOMAIN worker
  BY SoundTables
<1>2. ASSUME NEW w \in DOMAIN worker
      PROVE  byWorker[w] = SumOf(Group(DOMAIN payment, ofWorker, w), AmountOf(payment))
  <2>1. Group(DOMAIN payment, ofWorker, w) = PaymentsOfWorker(w)
    BY DEF Group, PaymentsOfWorker
  <2> QED
    BY <2>1 DEF Paid
<1> HIDE DEF ofWorker, byWorker
<1>3. SumFunctionOnSet(byWorker, DOMAIN worker) = SumOf(DOMAIN payment, AmountOf(payment))
  BY <1>1, <1>2, TotalByGroup
<1> QED
  BY <1>3 DEF byWorker

\* Expenses or receipts, added up project by project.
LEMMA ItemsByProject ==
    ASSUME Sound, NEW items \in {expense, receipt}
    PROVE  SumOf(DOMAIN items, AmountOf(items))
             = SumFunctionOnSet([p \in DOMAIN project |-> ItemsOf(p, items)], DOMAIN project)
<1> DEFINE ofProject == [i \in DOMAIN items |-> items[i].project]
           byProject == [p \in DOMAIN project |-> ItemsOf(p, items)]
<1>1. /\ IsFiniteSet(DOMAIN project) /\ IsFiniteSet(DOMAIN items)
      /\ \A i \in DOMAIN items : AmountOf(items)[i] \in Nat /\ ofProject[i] \in DOMAIN project
  BY SoundTables
<1>2. ASSUME NEW p \in DOMAIN project
      PROVE  byProject[p] = SumOf(Group(DOMAIN items, ofProject, p), AmountOf(items))
  <2>1. Group(DOMAIN items, ofProject, p) = {i \in DOMAIN items : items[i].project = p}
    BY DEF Group
  <2> QED
    BY <2>1 DEF ItemsOf
<1> HIDE DEF ofProject, byProject
<1>3. SumFunctionOnSet(byProject, DOMAIN project) = SumOf(DOMAIN items, AmountOf(items))
  BY <1>1, <1>2, TotalByGroup
<1> QED
  BY <1>3 DEF byProject

\* The rows of one worker are finitely many and carry natural amounts, so
\* what the worker earned and was paid are natural numbers.
LEMMA WorkerTables ==
    ASSUME TypeOK, NEW w
    PROVE  /\ IsFiniteSet(PaymentsOfWorker(w))
           /\ \A i \in DOMAIN payment : AmountOf(payment)[i] \in Nat
           /\ Earned(w) \in Nat
           /\ Paid(w) \in Nat
<1>1. IsFiniteSet(PaymentsOfWorker(w)) /\ PaymentsOfWorker(w) \subseteq DOMAIN payment
  BY FiniteTables, FS_Subset DEF PaymentsOfWorker
<1>2. \A i \in DOMAIN payment : AmountOf(payment)[i] \in Nat
  BY DEF AmountOf, TypeOK, IsTable, PaymentRow
<1>3. IsFiniteSet(SharesOfWorker(w)) /\ \A r \in SharesOfWorker(w) : share[r] \in Nat
  BY FiniteTables, FS_Subset DEF SharesOfWorker, TypeOK, IsTable
<1>4. Earned(w) \in Nat
  BY <1>3, SumType DEF Earned
<1>5. Paid(w) \in Nat
  BY <1>1, <1>2, SumType DEF Paid
<1> QED
  BY <1>1, <1>2, <1>4, <1>5

\* What a worker earned and was paid, and what a project took in and cost, are natural
\* numbers.
LEMMA FigureTypes ==
    ASSUME Sound
    PROVE  /\ \A w : Earned(w) \in Nat /\ Paid(w) \in Nat
           /\ \A p : SumOf(SharesOfProject(p), share) \in Nat
           /\ \A p : ItemsOf(p, expense) \in Nat /\ ItemsOf(p, receipt) \in Nat
<1>1. \A w : Earned(w) \in Nat /\ Paid(w) \in Nat
  BY WorkerTables DEF Sound
<1>2. ASSUME NEW p PROVE SumOf(SharesOfProject(p), share) \in Nat
  <2>1. IsFiniteSet(SharesOfProject(p)) /\ \A r \in SharesOfProject(p) : share[r] \in Nat
    BY SoundTables, FS_Subset DEF SharesOfProject
  <2> QED
    BY <2>1, SumType
<1>3. ASSUME NEW p, NEW items \in {expense, receipt} PROVE ItemsOf(p, items) \in Nat
  <2> DEFINE Of == {i \in DOMAIN items : items[i].project = p}
  <2>1. IsFiniteSet(Of) /\ \A i \in Of : AmountOf(items)[i] \in Nat
    BY SoundTables, FS_Subset
  <2> QED
    BY <2>1, SumType DEF ItemsOf
<1> QED
  BY <1>1, <1>2, <1>3
-----------------------------------------------------------------------------
(***************************************************************************)
(* What workers earned adds up to the same on the dashboard, in the list   *)
(* of projects and in the performance report, whatever the tables hold as  *)
(* long as no share points at a project or worker that is gone.            *)
(***************************************************************************)
LEMMA WagesFigures == ASSUME Sound PROVE WagesAgree
<1> DEFINE byProject == [p \in DOMAIN project |-> SumOf(SharesOfProject(p), share)]
           joined      == {r[2] : r \in JoinedShares}
           byWorker  == [w \in joined |-> SumOf({r \in JoinedShares : r[2] = w}, share)]
           ofWorker  == [r \in DOMAIN share |-> r[2]]
<1>1. JoinedShares = DOMAIN share
  BY SoundTables DEF JoinedShares
<1>2. dashboard_stats.total_workers_share = SumOf(DOMAIN share, share)
  BY DEF dashboard_stats
<1>3. SumOf(DOMAIN share, share)
        = SumFunction([p \in DOMAIN project |-> report_projects[p].workers_share])
  <2>1. [p \in DOMAIN project |-> report_projects[p].workers_share] = byProject
    BY DEF report_projects
  <2>2. DOMAIN byProject = DOMAIN project
    OBVIOUS
  <2> QED
    BY <2>1, <2>2, SharesByGroup DEF SumFunction
<1>4. SumOf(DOMAIN share, share)
        = SumFunction([w \in DOMAIN report_worker_performance |->
                         report_worker_performance[w].share])
  <2>1. [w \in DOMAIN report_worker_performance |-> report_worker_performance[w].share] = byWorker
    BY DEF report_worker_performance
  <2>2. DOMAIN byWorker = joined
    OBVIOUS
  <2>3. /\ IsFiniteSet(joined) /\ IsFiniteSet(DOMAIN share)
        /\ \A r \in DOMAIN share : share[r] \in Nat /\ ofWorker[r] \in joined
    <3>1. joined \subseteq DOMAIN worker
      BY SoundTables, <1>1
    <3> QED
      BY <1>1, <3>1, SoundTables, FS_Subset
  <2>4. ASSUME NEW w \in joined PROVE byWorker[w] = SumOf(Group(DOMAIN share, ofWorker, w), share)
    <3>1. {r \in JoinedShares : r[2] = w} = Group(DOMAIN share, ofWorker, w)
      BY <1>1 DEF Group
    <3> QED
      BY <3>1
  <2> HIDE DEF byWorker, joined, ofWorker
  <2>5. SumFunctionOnSet(byWorker, joined) = SumOf(DOMAIN share, share)
    BY <2>3, <2>4, TotalByGroup
  <2> QED
    BY <2>1, <2>2, <2>5 DEF SumFunction
<1>5. ASSUME NEW w \in IndebtedWorkers
      PROVE  w \in DOMAIN report_worker_performance /\ report_worker_performance[w].balance > 0
  <2>1. Balance(w) > 0 /\ Earned(w) \in Nat /\ Paid(w) \in Nat
    BY FigureTypes DEF IndebtedWorkers
  <2>2. Earned(w) # 0
    BY <2>1 DEF Balance
  <2>3. SharesOfWorker(w) # {}
    BY <2>2, SumNothing DEF Earned
  <2>4. w \in joined
    BY <1>1, <2>3 DEF SharesOfWorker
  <2> QED
    BY <2>1, <2>4 DEF report_worker_performance
<1> QED
  BY <1>2, <1>3, <1>4, <1>5 DEF WagesAgree

(***************************************************************************)
(* What is owed to workers: the difference of two whole tables is the sum  *)
(* of the balances of the workers that exist, and the debt report exceeds  *)
(* it by exactly what was overpaid.                                        *)
(***************************************************************************)
LEMMA DebtFigures == ASSUME Sound PROVE DebtAgrees
<1> DEFINE W       == DOMAIN worker
           owed    == IndebtedWorkers
           earned  == [w \in W |-> Earned(w)]
           paid    == [w \in W |-> Paid(w)]
           balance == [w \in W |-> Balance(w)]
           over    == [w \in W \ owed |-> Paid(w) - Earned(w)]
           listed  == [w \in owed |-> Balance(w)]
<1>1. IsFiniteSet(W) /\ owed \in SUBSET W /\ W \ owed \subseteq W
  BY SoundTables DEF IndebtedWorkers
<1>2. IsFiniteSet(W \ owed) /\ IsFiniteSet(owed)
  BY <1>1, FS_Subset
<1>3. \A w \in W : /\ earned[w] \in Int /\ paid[w] \in Int /\ balance[w] \in Int
                   /\ balance[w] = earned[w] - paid[w]
  BY FigureTypes DEF Balance
<1>4. /\ \A w \in W \ owed : over[w] = paid[w] - earned[w]
      /\ \A w \in owed : listed[w] = balance[w]
      /\ DOMAIN balance = W /\ DOMAIN over = W \ owed /\ DOMAIN listed = owed
  BY <1>1
<1>5. dashboard_stats.total_debt = SumFunctionOnSet(earned, W) - SumFunctionOnSet(paid, W)
  BY SharesByGroup, PaymentsByWorker DEF dashboard_stats
<1>6. ReportedDebt = SumFunction(listed)
  BY DEF ReportedDebt
<1>7. /\ SumFunctionOnSet(earned, W) \in Int /\ SumFunctionOnSet(paid, W) \in Int
      /\ SumFunctionOnSet(earned, W \ owed) \in Int /\ SumFunctionOnSet(paid, W \ owed) \in Int
      /\ SumFunctionOnSet(balance, owed) \in Int
  <2> HIDE DEF W, owed, earned, paid, balance
  <2> QED
    BY <1>1, <1>2, <1>3, TotalType
<1> HIDE DEF W, owed, earned, paid, balance, over, listed
<1>8. SumFunctionOnSet(balance, W) = SumFunctionOnSet(earned, W) - SumFunctionOnSet(paid, W)
  BY <1>1, <1>3, TotalOfDifferences
<1>9. SumFunctionOnSet(balance, W \ owed)
        = SumFunctionOnSet(earned, W \ owed) - SumFunctionOnSet(paid, W \ owed)
  BY <1>1, <1>2, <1>3, TotalOfDifferences
<1>10. SumFunctionOnSet(over, W \ owed)
         = SumFunctionOnSet(paid, W \ owed) - SumFunctionOnSet(earned, W \ owed)
  BY <1>1, <1>2, <1>3, <1>4, TotalOfDifferences
<1>11. SumFunctionOnSet(balance, W)
         = SumFunctionOnSet(balance, owed) + SumFunctionOnSet(balance, W \ owed)
  BY <1>1, <1>3, TotalOfPart
<1>12. SumFunctionOnSet(listed, owed) = SumFunctionOnSet(balance, owed)
  <2>1. \A w \in owed : balance[w] \in Int /\ listed[w] = balance[w]
    BY <1>1, <1>3, <1>4
  <2> QED
    BY <1>2, <2>1, TotalSame
<1>13. dashboard_stats.total_debt = SumFunction(balance)
  BY <1>4, <1>5, <1>8 DEF SumFunction
<1>14. ReportedDebt - dashboard_stats.total_debt = SumFunction(over)
  <2>1. ReportedDebt = SumFunctionOnSet(balance, owed)
    BY <1>4, <1>6, <1>12 DEF SumFunction
  <2>2. SumFunction(over) = SumFunctionOnSet(over, W \ owed)
    BY <1>4 DEF SumFunction
  <2> QED
    BY <1>5, <1>7, <1>8, <1>9, <1>10, <1>11, <2>1, <2>2
<1> QED
  BY <1>13, <1>14 DEF DebtAgrees, W, owed, balance, over

(***************************************************************************)
(* What is left to the shop: the dashboard's difference of three whole     *)
(* tables, the joined tables of the profit report and the sum of the       *)
(* project pages are the same number.                                      *)
(***************************************************************************)
LEMMA ShopFigures == ASSUME Sound PROVE ShopAgrees
<1> DEFINE P      == DOMAIN project
           shares == [p \in P |-> SumOf(SharesOfProject(p), share)]
           costs  == [p \in P |-> ItemsOf(p, expense)]
           before == [p \in P |-> project_financials(p).shop_before_expenses]
           after  == [p \in P |-> project_financials(p).shop_after_expenses]
<1>1. IsFiniteSet(P)
  BY SoundTables
<1>2. \A p \in P : /\ LaborOf[p] \in Nat /\ shares[p] \in Int /\ costs[p] \in Int
                   /\ before[p] \in Int /\ before[p] = LaborOf[p] - shares[p]
                   /\ after[p] = before[p] - costs[p]
  BY SoundTables, FigureTypes DEF LaborOf, project_financials
<1>3. dashboard_stats.shop_real
        = (SumOf(P, LaborOf) - SumOf(DOMAIN share, share)) - SumOf(DOMAIN expense, AmountOf(expense))
  BY DEF dashboard_stats
<1>4. dashboard_stats.shop_real = ReportedProfit
  <2>1. /\ {r \in DOMAIN share : r[1] \in DOMAIN project} = DOMAIN share
        /\ {i \in DOMAIN expense : expense[i].project \in DOMAIN project} = DOMAIN expense
    BY SoundTables
  <2> QED
    BY <1>3, <2>1 DEF ReportedProfit
<1>5. /\ SumOf(DOMAIN share, share) = SumFunctionOnSet(shares, P)
      /\ SumOf(DOMAIN expense, AmountOf(expense)) = SumFunctionOnSet(costs, P)
  BY SharesByGroup, ItemsByProject
<1>6. SumFunction(after) = SumFunctionOnSet(after, P)
  BY DEF SumFunction
<1> HIDE DEF P, shares, costs, before, after
<1>7. SumOf(P, LaborOf) = SumFunctionOnSet(LaborOf, P)
  BY <1>1, <1>2, TotalIsSum
<1>8. SumFunctionOnSet(before, P) = SumFunctionOnSet(LaborOf, P) - SumFunctionOnSet(shares, P)
  BY <1>1, <1>2, TotalOfDifferences
<1>9. SumFunctionOnSet(after, P) = SumFunctionOnSet(before, P) - SumFunctionOnSet(costs, P)
  BY <1>1, <1>2, TotalOfDifferences
<1>10. dashboard_stats.shop_real = SumFunction(after)
  BY <1>3, <1>5, <1>6, <1>7, <1>8, <1>9
<1> QED
  BY <1>4, <1>10 DEF ShopAgrees, P, after

(***************************************************************************)
(* What customers owe: the dashboard's difference is the sum of the pages, *)
(* and the report, which leaves the overpaid projects out, is never less.  *)
(***************************************************************************)
LEMMA ReceivableFigures == ASSUME Sound PROVE ReceivableAgrees
<1> DEFINE P      == DOMAIN project
           got    == [p \in P |-> ItemsOf(p, receipt)]
           left   == [p \in P |-> project_financials(p).customer_balance]
           listed == {p \in P : left[p] > 0}
<1>1. IsFiniteSet(P) /\ listed \in SUBSET P /\ IsFiniteSet(P \ listed)
  BY SoundTables, FS_Subset
<1>2. \A p \in P : /\ TotalOf[p] \in Nat /\ got[p] \in Nat
                   /\ left[p] \in Int /\ left[p] = TotalOf[p] - got[p]
  BY SoundTables, FigureTypes DEF TotalOf, project_financials
<1>3. \A p \in P \ listed : left[p] \in Int /\ left[p] <= 0
  BY <1>2
<1>4. dashboard_stats.customer_receivable
        = SumOf(P, TotalOf) - SumOf(DOMAIN receipt, AmountOf(receipt))
  BY DEF dashboard_stats
<1>5. SumOf(DOMAIN receipt, AmountOf(receipt)) = SumFunctionOnSet(got, P)
  BY ItemsByProject
<1>6. SumFunction(left) = SumFunctionOnSet(left, P)
  BY DEF SumFunction
<1>7. ReportedReceivable = SumFunctionOnSet(left, listed)
  BY DEF ReportedReceivable
<1>8. ASSUME NEW p \in DOMAIN project, project_financials(p).customer_balance > 0
      PROVE  project_financials(p).customer_status # "received"
  <2>1. left[p] > 0 /\ TotalOf[p] \in Nat /\ got[p] \in Nat /\ left[p] = TotalOf[p] - got[p]
    BY <1>2, <1>8
  <2>2. got[p] < TotalOf[p]
    BY <2>1
  <2>3. project_financials(p).customer_status = customer_status(TotalOf[p], got[p])
    BY DEF project_financials, TotalOf
  <2> HIDE DEF got
  <2> QED
    BY <2>1, <2>2, <2>3 DEF customer_status
<1> HIDE DEF P, got, left, listed
<1>9. SumOf(P, TotalOf) = SumFunctionOnSet(TotalOf, P)
  BY <1>1, <1>2, TotalIsSum
<1>10. SumFunctionOnSet(left, P) = SumFunctionOnSet(TotalOf, P) - SumFunctionOnSet(got, P)
  BY <1>1, <1>2, TotalOfDifferences
<1>11. SumFunctionOnSet(left, P)
         = SumFunctionOnSet(left, listed) + SumFunctionOnSet(left, P \ listed)
  BY <1>1, <1>2, TotalOfPart
<1>12. SumFunctionOnSet(left, P \ listed) <= 0 /\ SumFunctionOnSet(left, P \ listed) \in Int
  BY <1>1, <1>3, TotalNotAbove, TotalType
<1>13. SumFunctionOnSet(left, listed) \in Int
  BY <1>1, <1>2, FS_Subset, TotalType
<1>14. dashboard_stats.customer_receivable = SumFunction(left)
  BY <1>4, <1>5, <1>6, <1>9, <1>10
<1>15. ReportedReceivable >= dashboard_stats.customer_receivable
  BY <1>6, <1>7, <1>11, <1>12, <1>13, <1>14
<1> QED
  BY <1>8, <1>14, <1>15 DEF ReceivableAgrees, P, left

\* Every reachable state is sound.
LEMMA AlwaysSound == Spec => []Sound
<1>1. Init => FiniteIds
  BY FS_EmptySet DEF Init, FiniteIds
<1> QED
  BY <1>1, FiniteIdsKept, TypeCorrect, KeysHold, PTL DEF Spec, Sound

(***************************************************************************)
(* The figures that show what workers earned and are owed agree with one   *)
(* another in every reachable state, whatever was saved, deleted or        *)
(* overpaid before.                                                        *)
(***************************************************************************)
THEOREM WorkersFiguresHold == Spec => []WorkersFiguresAgree
<1>1. Sound => WorkersFiguresAgree
  BY WagesFigures, DebtFigures DEF WorkersFiguresAgree
<1> QED
  BY <1>1, AlwaysSound, PTL

\* And so do those of the shop and of its customers.
THEOREM ShopFiguresHold == Spec => []ShopFiguresAgree
<1>1. Sound => ShopFiguresAgree
  BY ShopFigures, ReceivableFigures DEF ShopFiguresAgree
<1> QED
  BY <1>1, AlwaysSound, PTL
-----------------------------------------------------------------------------
\* A new payment moves its worker's balance down by its amount and no other's.
LEMMA PaymentInserted ==
    ASSUME TypeOK, NEW w \in Workers, NEW p, NEW amount \in Nat, InsertPayment(w, p, amount)
    PROVE  /\ Balance(w)' = Balance(w) - amount
           /\ \A v \in Workers \ {w} : Balance(v)' = Balance(v)
<1> DEFINE row == [worker |-> w, project |-> p, amount |-> amount]
<1>1. PICK i \in Payments : NewId(i) /\ payment' = Put(payment, i, row)
  BY DEF InsertPayment
<1>2. i \notin DOMAIN payment
  BY <1>1, NewIdIsNew DEF Ids
<1>3. /\ DOMAIN payment' = DOMAIN payment \cup {i}
      /\ payment'[i] = row
      /\ \A j \in DOMAIN payment : payment'[j] = payment[j]
  BY <1>1, <1>2 DEF Put, Upsert
<1>4. AmountOf(payment)'[i] = amount /\ \A j \in DOMAIN payment : AmountOf(payment)'[j] = AmountOf(payment)[j]
  BY <1>3 DEF AmountOf
<1>5. Paid(w)' = Paid(w) + amount
  <2> DEFINE S == PaymentsOfWorker(w)
             c == AmountOf(payment)'
  <2>1. PaymentsOfWorker(w)' = S \cup {i}
    BY <1>3 DEF PaymentsOfWorker
  <2>2. IsFiniteSet(S) /\ i \notin S /\ S \subseteq DOMAIN payment
    BY <1>2, WorkerTables DEF PaymentsOfWorker
  <2>3. c[i] = amount /\ \A k \in S \cup {i} : c[k] \in Nat
    BY <1>4, <2>2, WorkerTables
  <2>4. SumOf(S, c) = SumOf(S, AmountOf(payment))
    BY <1>4, <2>2, SumSameColumn
  <2>5. Paid(w)' = SumOf(S \cup {i}, c)
    BY <2>1 DEF Paid
  <2> HIDE DEF S, c
  <2>6. SumOf(S \cup {i}, c) = SumOf(S, c) + c[i]
    BY <2>2, <2>3, SumOneMore
  <2> QED
    BY <2>3, <2>4, <2>5, <2>6 DEF Paid, S
<1>6. ASSUME NEW v \in Workers \ {w} PROVE Paid(v)' = Paid(v)
  <2>1. PaymentsOfWorker(v)' = PaymentsOfWorker(v)
    BY <1>2, <1>3 DEF PaymentsOfWorker
  <2>2. \A j \in PaymentsOfWorker(v) : AmountOf(payment)'[j] = AmountOf(payment)[j]
    BY <1>4 DEF PaymentsOfWorker
  <2> QED
    BY <2>1, <2>2, SumSameColumn DEF Paid
<1>7. ASSUME NEW v \in Workers PROVE Earned(v)' = Earned(v)
  BY DEF InsertPayment, Earned, SharesOfWorker
<1>8. Balance(w)' = Balance(w) - amount
  <2>1. Earned(w) \in Nat /\ Paid(w) \in Nat
    BY WorkerTables
  <2> QED
    BY <1>5, <1>7, <2>1 DEF Balance
<1> QED
  BY <1>6, <1>7, <1>8 DEF Balance

\* Changing a payment's amount moves its worker's balance by the difference.
LEMMA PaymentUpdated ==
    ASSUME TypeOK, NEW i, NEW amount \in Nat, UpdatePayment(i, amount),
           NEW w, payment[i].worker = w
    PROVE  Balance(w)' = Balance(w) + payment[i].amount - amount
<1>1. i \in DOMAIN payment /\ payment[i] \in PaymentRow
  BY DEF UpdatePayment, TypeOK, IsTable
<1> DEFINE row == [payment[i] EXCEPT !.amount = amount]
<1>2. row.worker = w /\ row.amount = amount
  BY <1>1 DEF PaymentRow
<1> HIDE DEF row
<1>3. payment' = Put(payment, i, row)
  BY DEF UpdatePayment, row
<1>4. /\ DOMAIN payment' = DOMAIN payment
      /\ payment'[i] = row
      /\ \A j \in DOMAIN payment \ {i} : payment'[j] = payment[j]
  BY <1>1, <1>3 DEF Put, Upsert
<1> DEFINE S == PaymentsOfWorker(w)
           c == AmountOf(payment)
           d == AmountOf(payment)'
<1>5. PaymentsOfWorker(w)' = S
  BY <1>1, <1>2, <1>4 DEF PaymentsOfWorker
<1>6. IsFiniteSet(S) /\ i \in S /\ \A k \in S : c[k] \in Nat
  BY <1>1, WorkerTables DEF PaymentsOfWorker
<1>7. c[i] = payment[i].amount /\ d[i] = amount /\ \A k \in S \ {i} : d[k] = c[k]
  BY <1>1, <1>2, <1>4 DEF AmountOf, PaymentsOfWorker
<1>8. Paid(w)' = SumOf(S, d) /\ Paid(w) = SumOf(S, c)
  BY <1>5 DEF Paid
<1>9. Paid(w) \in Nat /\ Earned(w) \in Nat /\ Earned(w)' = Earned(w)
  BY WorkerTables DEF UpdatePayment, Earned, SharesOfWorker
<1> HIDE DEF S, c, d
<1>10. SumOf(S, c) = SumOf(S \ {i}, c) + c[i]
  BY <1>6, SumOneLess
<1>11. SumOf(S, d) = SumOf(S \ {i}, d) + d[i]
  <2>1. \A k \in S : d[k] \in Nat
    BY <1>6, <1>7
  <2> QED
    BY <1>6, <2>1, SumOneLess
<1>12. SumOf(S \ {i}, d) = SumOf(S \ {i}, c) /\ SumOf(S \ {i}, c) \in Nat
  <2>1. SumOf(S \ {i}, d) = SumOf(S \ {i}, c)
    BY <1>7, SumSameColumn
  <2>2. IsFiniteSet(S \ {i}) /\ \A k \in S \ {i} : c[k] \in Nat
    BY <1>6, FS_RemoveElement
  <2> QED
    BY <2>1, <2>2, SumType
<1>13. c[i] \in Nat
  BY <1>6
<1>14. Paid(w)' = Paid(w) - payment[i].amount + amount
  BY <1>7, <1>8, <1>10, <1>11, <1>12, <1>13
<1> QED
  BY <1>7, <1>9, <1>13, <1>14 DEF Balance
-----------------------------------------------------------------------------
\* Every handler ends in one of the database's write transactions.
LEMMA HandlerIsTransaction ==
    ASSUME PaidAmounts = Nat, TypeOK, LedgerNext
    PROVE  Next
<1>1. ASSUME NEW active \in Flags, workers_create(active) PROVE Next
  BY <1>1 DEF workers_create, Next
<1>2. ASSUME NEW w \in Workers, NEW active \in Flags, workers_edit(w, active) PROVE Next
  BY <1>2 DEF workers_edit, Next
<1>3. ASSUME NEW w \in Workers, workers_delete(w) PROVE Next
  BY <1>3 DEF workers_delete, Next
<1>4. ASSUME NEW form \in Forms, projects_create(form) PROVE Next
  BY <1>4 DEF projects_create, Next
<1>5. ASSUME NEW p \in Projects, NEW form \in Forms, projects_edit(p, form) PROVE Next
  BY <1>5 DEF projects_edit, Next
<1>6. ASSUME NEW p \in Projects, NEW status \in Statuses, projects_set_status(p, status) PROVE Next
  BY <1>6 DEF projects_set_status, Next
<1>7. ASSUME NEW p \in Projects, projects_delete(p) PROVE Next
  BY <1>7 DEF projects_delete, Next
<1>8. ASSUME NEW w \in Workers, NEW p \in Projects \cup {NoProject}, NEW amount \in Amounts,
             NEW confirm \in BOOLEAN, payments_create(w, p, amount, confirm)
      PROVE  Next
  <2>1. InsertPayment(w, p, amount) /\ amount \in PaidAmounts
    BY <1>8, AmountAssumption DEF payments_create
  <2> QED
    BY <2>1 DEF Next
<1>9. ASSUME NEW i \in Payments, NEW amount \in Amounts, NEW confirm \in BOOLEAN,
             payments_edit(i, amount, confirm)
      PROVE  Next
  <2>1. UpdatePayment(i, amount) /\ amount \in PaidAmounts
    BY <1>9, AmountAssumption DEF payments_edit
  <2> QED
    BY <2>1 DEF Next
<1>10. ASSUME NEW i \in Payments, payments_delete(i) PROVE Next
  BY <1>10 DEF payments_delete, Next
<1>11. ASSUME NEW w \in Workers, settle_all(w) PROVE Next
  <2>1. Balance(w) \in Int
    BY WorkerTables DEF Balance
  <2>2. InsertPayment(w, NoProject, Balance(w)) /\ Balance(w) > 0
    BY <1>11 DEF settle_all, InsertPayment
  <2> DEFINE amount == Balance(w)
  <2>3. amount \in PaidAmounts
    BY <2>1, <2>2
  <2> HIDE DEF amount
  <2>4. \E a \in PaidAmounts : InsertPayment(w, NoProject, a)
    <3>1. InsertPayment(w, NoProject, amount)
      BY <2>2 DEF amount
    <3> QED
      BY <2>3, <3>1
  <2> QED
    BY <2>4 DEF Next
<1>12. ASSUME NEW p \in Projects, NEW amount \in Amounts, expenses_create(p, amount) PROVE Next
  BY <1>12 DEF expenses_create, Next
<1>13. ASSUME NEW i \in Expenses, expenses_delete(i) PROVE Next
  BY <1>13 DEF expenses_delete, Next
<1>14. ASSUME NEW p \in Projects, NEW amount \in Amounts, customer_create(p, amount) PROVE Next
  BY <1>14 DEF customer_create, Next
<1>15. ASSUME NEW i \in Receipts, customer_delete(i) PROVE Next
  BY <1>15 DEF customer_delete, Next
<1> QED
  BY <1>1, <1>2, <1>3, <1>4, <1>5, <1>6, <1>7, <1>8, <1>9, <1>10, <1>11, <1>12, <1>13, <1>14,
     <1>15 DEF LedgerNext

\* The handlers run one at a time change the tables only by the database's
\* write transactions: Ledger implements Database.
THEOREM LedgerImplementsDatabase ==
    ASSUME PaidAmounts = Nat
    PROVE  LedgerSpec => Spec /\ []TypeOK
<1>1. Init => TypeOK
  BY EmptyIsTable DEF Init, TypeOK
<1>2. TypeOK /\ [LedgerNext]_tables => [Next]_tables
  BY HandlerIsTransaction
<1>3. TypeOK /\ [LedgerNext]_tables => TypeOK'
  BY <1>2, TypePreserved
<1> QED
  BY <1>1, <1>2, <1>3, PTL DEF LedgerSpec, Spec

\* A payment entered or raised without the confirmation leaves its worker's
\* balance at zero or above.
THEOREM NoSilentOverpay ==
    ASSUME PaidAmounts = Nat
    PROVE  LedgerSpec => UnconfirmedNeverOverpays
<1>1. TypeOK => UnconfirmedIsCovered
  <2> SUFFICES ASSUME TypeOK PROVE UnconfirmedIsCovered
    OBVIOUS
  <2>1. ASSUME NEW w \in Workers, NEW p \in Projects \cup {NoProject}, NEW amount \in Amounts,
               payments_create(w, p, amount, FALSE)
        PROVE  Balance(w)' >= 0
    <3>1. amount <= Balance(w) /\ Balance(w) \in Int /\ amount \in Nat
      BY <2>1, WorkerTables, AmountAssumption DEF payments_create, Balance
    <3>2. Balance(w)' = Balance(w) - amount
      BY <2>1, <3>1, PaymentInserted DEF payments_create
    <3> QED
      BY <3>1, <3>2
  <2>2. ASSUME NEW i \in DOMAIN payment, NEW amount \in Amounts, NEW w \in Workers,
               payments_edit(i, amount, FALSE), payment[i].worker = w
        PROVE  Balance(w)' >= 0
    <3>1. payment[i].amount \in Nat
      BY DEF TypeOK, IsTable, PaymentRow
    <3>2. amount <= Balance(w) + payment[i].amount /\ Balance(w) \in Int /\ amount \in Nat
      BY <2>2, WorkerTables, AmountAssumption DEF payments_edit, Balance
    <3>3. Balance(w)' = Balance(w) + payment[i].amount - amount
      BY <2>2, <3>2, PaymentUpdated DEF payments_edit
    <3> QED
      BY <3>1, <3>2, <3>3
  <2> QED
    BY <2>1, <2>2 DEF UnconfirmedIsCovered
<1>2. LedgerSpec => []TypeOK
  BY LedgerImplementsDatabase
<1> QED
  BY <1>1, <1>2, PTL DEF UnconfirmedNeverOverpays

\* settle_all leaves its worker with nothing owed either way and every other
\* worker's balance as it was.
THEOREM SettlingClears ==
    ASSUME PaidAmounts = Nat
    PROVE  LedgerSpec => SettleClears
<1>1. TypeOK => SettlingLeavesZero
  <2> SUFFICES ASSUME TypeOK, NEW w \in Workers, settle_all(w)
               PROVE  /\ Balance(w)' = 0
                      /\ \A v \in Workers \ {w} : Balance(v)' = Balance(v)
    BY DEF SettlingLeavesZero
  <2> DEFINE amount == Balance(w)
  <2>1. amount \in Int
    BY WorkerTables DEF Balance
  <2>2. amount \in Nat
    BY <2>1 DEF settle_all, InsertPayment
  <2>3. InsertPayment(w, NoProject, amount)
    BY DEF settle_all
  <2> HIDE DEF amount
  <2>4. /\ Balance(w)' = Balance(w) - amount
        /\ \A v \in Workers \ {w} : Balance(v)' = Balance(v)
    BY <2>2, <2>3, PaymentInserted
  <2> QED
    BY <2>2, <2>4 DEF amount
<1>2. LedgerSpec => []TypeOK
  BY LedgerImplementsDatabase
<1> QED
  BY <1>1, <1>2, PTL DEF SettleClears
-----------------------------------------------------------------------------
\* What the database keeps through its transactions the handlers keep.
THEOREM LedgerKeepsTables ==
    ASSUME PaidAmounts = Nat
    PROVE  LedgerSpec => /\ [](ForeignKeys /\ LaborCap)
                         /\ [](WorkersFiguresAgree /\ ShopFiguresAgree)
<1>1. LedgerSpec => Spec
  BY LedgerImplementsDatabase
<1> QED
  BY <1>1, KeysHold, CapHolds, WorkersFiguresHold, ShopFiguresHold, PTL
-----------------------------------------------------------------------------
\* What a request is, by the handler it goes to.
LEMMA JobFields ==
    ASSUME NEW j \in Jobs
    PROVE  /\ j.op \in {"payments.create", "payments.edit", "settle_all", "workers.edit",
                        "workers.delete", "projects.edit"}
           /\ j.op = "payments.create" => /\ j.worker \in Workers
                                          /\ j.project \in Projects \cup {NoProject}
                                          /\ j.amount \in Amounts
           /\ j.op = "payments.edit" => j.payment \in Payments /\ j.amount \in Amounts
           /\ j.op \in {"settle_all", "workers.edit", "workers.delete"} => j.worker \in Workers
           /\ j.op = "workers.edit" => j.active \in Flags
           /\ j.op = "projects.edit" => j.project \in Projects /\ j.form \in Forms
BY DEF Jobs

\* The transaction at the end of a handler is one of the database's.
LEMMA CommitIsTransaction ==
    ASSUME PaidAmounts = Nat, RequestsTypeOK, NEW t \in Threads, job[t] \in Jobs, Transaction(t)
    PROVE  Next
<1> DEFINE j == job[t]
           amount == seen[t].amount
<1>1. amount \in PaidAmounts
  BY DEF RequestsTypeOK
<1>2. CASE j.op = "payments.create"
  <2>1. InsertPayment(j.worker, j.project, j.amount)
    BY <1>2 DEF Transaction
  <2>2. j.worker \in Workers /\ j.project \in Projects \cup {NoProject} /\ j.amount \in PaidAmounts
    BY <1>2, JobFields, AmountAssumption
  <2> QED
    BY <2>1, <2>2 DEF Next
<1>3. CASE j.op = "payments.edit"
  <2>1. UpdatePayment(j.payment, j.amount)
    BY <1>3 DEF Transaction
  <2>2. j.payment \in Payments /\ j.amount \in PaidAmounts
    BY <1>3, JobFields, AmountAssumption
  <2> QED
    BY <2>1, <2>2 DEF Next
<1>4. CASE j.op = "settle_all"
  <2>1. InsertPayment(j.worker, NoProject, amount)
    BY <1>4 DEF Transaction
  <2>2. j.worker \in Workers
    BY <1>4, JobFields
  <2> HIDE DEF amount
  <2> QED
    BY <1>1, <2>1, <2>2 DEF Next
<1>5. CASE j.op = "workers.edit"
  <2>1. UpdateWorker(j.worker, j.active) /\ j.worker \in Workers /\ j.active \in Flags
    BY <1>5, JobFields DEF Transaction
  <2> QED
    BY <2>1 DEF Next
<1>6. CASE j.op = "workers.delete"
  <2>1. DeleteWorker(j.worker) /\ j.worker \in Workers
    BY <1>6, JobFields DEF Transaction
  <2> QED
    BY <2>1 DEF Next
<1>7. CASE j.op = "projects.edit"
  <2>1. UpdateProject(j.project, j.form) /\ j.project \in Projects /\ j.form \in Forms
    BY <1>7, JobFields DEF Transaction
  <2> QED
    BY <2>1 DEF Next
<1> QED
  BY <1>2, <1>3, <1>4, <1>5, <1>6, <1>7, JobFields

\* A thread's step commits a transaction or leaves the tables alone.
LEMMA StepIsTransaction ==
    ASSUME PaidAmounts = Nat, RequestsTypeOK, RequestsNext
    PROVE  [Next]_tables
<1>1. ASSUME NEW t \in Threads, Write(t) PROVE Next
  <2>1. job[t] \in Jobs
    BY <1>1 DEF Write, RequestsTypeOK
  <2> QED
    BY <1>1, <2>1, CommitIsTransaction DEF Write
<1>2. ASSUME OneStepHandler PROVE Next
  BY <1>2 DEF OneStepHandler, OneStatementHandler, Next, workers_create, projects_create, projects_set_status,
              projects_delete, payments_delete
<1>3. ASSUME NEW t \in Threads, LoadPayment(t) \/ LookUp(t) \/ ReadShare(t) \/ ReadPaid(t) \/ Fail(t)
      PROVE  UNCHANGED tables
  BY <1>3 DEF LoadPayment, LookUp, ReadShare, ReadPaid, Fail
<1>4. ASSUME NEW t \in Threads, NEW j \in Jobs, Arrive(t, j) PROVE UNCHANGED tables
  BY <1>4 DEF Arrive
<1> QED
  BY <1>1, <1>2, <1>3, <1>4 DEF RequestsNext, Step, ServeAtOnce

\* What the threads keep of their own stays of its type.
LEMMA ThreadsTyped ==
    ASSUME RequestsTypeOK, RequestsNext, TypeOK'
    PROVE  RequestsTypeOK'
<1> DEFINE Row == [row : PaymentRow \cup {None}, share : Nat, amount : Nat]
           Idle(t) == job[t] = None <=> pc[t] = "idle"
<1>1. NothingSeen \in Row
  BY DEF NothingSeen
<1>2. ASSUME NEW t \in Threads, Answer(t) PROVE RequestsTypeOK'
  BY <1>1, <1>2 DEF Answer, RequestsTypeOK
<1>3. ASSUME NEW t \in Threads, NEW step \in {"share", "paid", "write"}, pc[t] # "idle",
             GoTo(t, step), NEW r \in Row, seen' = [seen EXCEPT ![t] = r]
      PROVE  RequestsTypeOK'
  BY <1>3 DEF GoTo, RequestsTypeOK
<1>4. ASSUME NEW t \in Threads, NEW j \in Jobs, Arrive(t, j) PROVE RequestsTypeOK'
  BY <1>4, NoneAssumption DEF Arrive, FirstStep, RequestsTypeOK
<1>5. ASSUME NEW t \in Threads, LoadPayment(t) PROVE RequestsTypeOK'
  <2>1. CASE job[t].payment \in DOMAIN payment
    <3> DEFINE r == [seen[t] EXCEPT !.row = payment[job[t].payment]]
    <3>1. payment[job[t].payment] \in PaymentRow
      BY <2>1 DEF RequestsTypeOK, TypeOK, IsTable
    <3>2. seen[t] \in Row
      BY DEF RequestsTypeOK
    <3>3. r \in Row
      BY <3>1, <3>2
    <3>4. seen' = [seen EXCEPT ![t] = r]
      BY <1>5, <2>1, <3>2 DEF LoadPayment
    <3> QED
      BY <1>3, <1>5, <2>1, <3>3, <3>4 DEF LoadPayment
  <2>2. CASE job[t].payment \notin DOMAIN payment
    BY <1>2, <1>5, <2>2 DEF LoadPayment
  <2> QED
    BY <2>1, <2>2
<1>6. ASSUME NEW t \in Threads, LookUp(t) PROVE RequestsTypeOK'
  <2>1. CASE LookupPasses(job[t])
    BY <1>6, <2>1 DEF LookUp, GoTo, RequestsTypeOK
  <2>2. CASE ~LookupPasses(job[t])
    BY <1>2, <1>6, <2>2 DEF LookUp
  <2> QED
    BY <2>1, <2>2
<1>7. ASSUME NEW t \in Threads, ReadShare(t) PROVE RequestsTypeOK'
  <2> DEFINE r == [seen[t] EXCEPT !.share = Earned(Payee(t))]
  <2>1. Earned(Payee(t)) \in Nat
    BY WorkerTables DEF RequestsTypeOK
  <2>2. seen[t] \in Row
    BY DEF RequestsTypeOK
  <2>3. r \in Row
    BY <2>1, <2>2
  <2>4. seen' = [seen EXCEPT ![t] = r]
    BY <1>7, <2>2 DEF ReadShare
  <2> QED
    BY <1>3, <1>7, <2>3, <2>4 DEF ReadShare
<1>8. ASSUME NEW t \in Threads, ReadPaid(t) PROVE RequestsTypeOK'
  <2> DEFINE own     == IF job[t].op = "payments.edit" THEN seen[t].row.amount ELSE 0
             balance == seen[t].share - Paid(Payee(t)) + own
             r       == [NothingSeen EXCEPT !.amount = IF job[t].op = "settle_all" THEN balance ELSE 0]
  <2>1. CASE MayWrite(job[t], balance)
    <3>1. Paid(Payee(t)) \in Nat /\ seen[t].share \in Nat
      BY WorkerTables DEF RequestsTypeOK
    <3>2. job[t].op = "settle_all" => balance \in Nat
      BY <2>1, <3>1 DEF MayWrite
    <3> HIDE DEF balance
    <3>3. r \in Row
      BY <1>1, <3>2 DEF NothingSeen
    <3>4. seen' = [seen EXCEPT ![t] = r] /\ GoTo(t, "write") /\ pc[t] # "idle"
      BY <1>8, <2>1 DEF ReadPaid, balance
    <3> QED
      BY <1>3, <3>3, <3>4
  <2>2. CASE ~MayWrite(job[t], balance)
    BY <1>2, <1>8, <2>2 DEF ReadPaid
  <2> QED
    BY <2>1, <2>2
<1>9. ASSUME NEW t \in Threads, Write(t) \/ Fail(t) PROVE RequestsTypeOK'
  BY <1>2, <1>9 DEF Write, Fail
<1>10. ASSUME NEW t \in Threads, ServeAtOnce(t) PROVE RequestsTypeOK'
  BY <1>10 DEF ServeAtOnce, threadVars, RequestsTypeOK
<1> QED
  BY <1>4, <1>5, <1>6, <1>7, <1>8, <1>9, <1>10 DEF RequestsNext, Step
-----------------------------------------------------------------------------
\* Every behaviour of the threaded handlers is a behaviour of the database's write
\* transactions, whatever their reads and commits cross.
LEMMA RequestsImplementDatabase ==
    ASSUME PaidAmounts = Nat
    PROVE  RequestsSpec => Spec /\ []RequestsTypeOK
<1>1. RequestsInit => RequestsTypeOK /\ Init
  BY EmptyIsTable, NoneAssumption DEF RequestsInit, Init, RequestsTypeOK, TypeOK, NothingSeen
<1>2. RequestsTypeOK /\ [RequestsNext]_vars => [Next]_tables
  BY StepIsTransaction DEF vars
<1>3. RequestsTypeOK /\ [RequestsNext]_vars => RequestsTypeOK'
  <2> SUFFICES ASSUME RequestsTypeOK, [RequestsNext]_vars PROVE RequestsTypeOK'
    OBVIOUS
  <2>1. TypeOK'
    BY <1>2, TypePreserved DEF RequestsTypeOK
  <2>2. CASE RequestsNext
    BY <2>1, <2>2, ThreadsTyped
  <2>3. CASE UNCHANGED vars
    BY <2>1, <2>3 DEF vars, threadVars, RequestsTypeOK
  <2> QED
    BY <2>2, <2>3
<1> QED
  BY <1>1, <1>2, <1>3, PTL DEF RequestsSpec, Spec

\* What the threads have read and are about to do is well formed, whatever crosses.
THEOREM RequestsTyped ==
    ASSUME PaidAmounts = Nat
    PROVE  RequestsSpec => []RequestsTypeOK
BY RequestsImplementDatabase, PTL

\* In threads too, no row ever references a row that is gone, no project's shares exceed
\* its labor amount, and the figures read in one moment agree.
THEOREM RequestsKeepTables ==
    ASSUME PaidAmounts = Nat
    PROVE  RequestsSpec => /\ [](ForeignKeys /\ LaborCap)
                           /\ [](WorkersFiguresAgree /\ ShopFiguresAgree)
<1>1. RequestsSpec => Spec
  BY RequestsImplementDatabase
<1> QED
  BY <1>1, KeysHold, CapHolds, WorkersFiguresHold, ShopFiguresHold, PTL
-----------------------------------------------------------------------------
\* The worker rows a save has inserted so far, and what they say.
Inserted == DOMAIN draft.form.rows \ draft.left

SavedRows(p, form, S) == [r \in {p} \X S |-> FormShares(form)[r[2]]]

\* What the open transaction has done to the tables it started from.
NewProjectSoFar ==
    /\ pc[draft.thread] = "idle" /\ draft.next = "insert"
    /\ draft.id \notin issued /\ draft.issued = issued \cup {draft.id}
    /\ draft.project = Put(project, draft.id, FormProject(draft.form))
    /\ draft.share = Upsert(share, SavedRows(draft.id, draft.form, Inserted))

OldProjectSoFar ==
    /\ pc[draft.thread] = "write" /\ job[draft.thread].op = "projects.edit"
    /\ job[draft.thread].project = draft.id /\ job[draft.thread].form = draft.form
    /\ draft.issued = issued
    /\ draft.project = IF draft.id \in DOMAIN project
                         THEN Put(project, draft.id, FormProject(draft.form)) ELSE project
    /\ Inserted # {} => draft.id \in DOMAIN project
    /\ draft.next = "delete" => draft.share = share /\ Inserted = {}
    /\ draft.next = "insert" =>
         draft.share = Upsert(Without(share, SharesOfProject(draft.id)),
                              SavedRows(draft.id, draft.form, Inserted))

DraftSound ==
    Locked =>
        /\ draft = [thread |-> draft.thread, id |-> draft.id, form |-> draft.form,
                    new |-> draft.new, next |-> draft.next, project |-> draft.project,
                    share |-> draft.share, issued |-> draft.issued, left |-> draft.left]
        /\ draft.thread \in Threads /\ draft.id \in Projects /\ draft.next \in {"delete", "insert"}
        /\ draft.form \in Forms /\ FormValid(draft.form) /\ draft.left \subseteq DOMAIN draft.form.rows
        /\ Inserted \subseteq DOMAIN worker
        /\ IF draft.new THEN NewProjectSoFar ELSE OldProjectSoFar

SavesInv == RequestsTypeOK /\ ForeignKeys /\ DraftSound

\* One more worker row, and none at all.
LEMMA OneMoreRow ==
    ASSUME NEW t, NEW p, NEW form, NEW S, NEW w
    PROVE  Put(Upsert(t, SavedRows(p, form, S)), <<p, w>>, FormShares(form)[w])
             = Upsert(t, SavedRows(p, form, S \cup {w}))
BY DEF Put, Upsert, SavedRows

LEMMA NoRow ==
    ASSUME NEW t, t = [k \in DOMAIN t |-> t[k]], NEW p, NEW form
    PROVE  Upsert(t, SavedRows(p, form, {})) = t
BY DEF Upsert, SavedRows

\* The tables as its commit leaves them are those of one of the transactions of Requests, or
\* nothing has changed: a project that is gone, and nobody ticked.
LEMMA CommitIsOneStep ==
    ASSUME SavesInv, NEW t \in Threads, CommitSave(t)
    PROVE  RequestsNext
<1> DEFINE p == draft.id
           form == draft.form
<1>1. /\ Locked /\ draft.thread = t /\ draft.next = "insert"
      /\ Inserted = DOMAIN form.rows /\ SavedRows(p, form, Inserted) = FormRows(p, form)
      /\ project' = draft.project /\ share' = draft.share /\ issued' = draft.issued
      /\ UNCHANGED <<worker, payment, expense, receipt>> /\ Answered(t)
  BY DEF CommitSave, Saving, Inserted, SavedRows, FormRows
<1>2. /\ p \in Projects /\ form \in Forms /\ FormValid(form) /\ DOMAIN form.rows \subseteq DOMAIN worker
      /\ draft.new => NewProjectSoFar
      /\ ~draft.new => OldProjectSoFar
  BY <1>1 DEF SavesInv, DraftSound
<1>3. CASE draft.new
  <2>1. /\ pc[t] = "idle" /\ NewId(p) /\ project' = Put(project, p, FormProject(form))
        /\ share' = Upsert(share, FormRows(p, form))
    BY <1>1, <1>2, <1>3 DEF NewProjectSoFar, NewId
  <2>2. InsertProject(form) /\ UNCHANGED threadVars
    BY <1>1, <1>2, <2>1 DEF InsertProject, Answered
  <2> HIDE DEF form
  <2> QED
    BY <1>2, <2>1, <2>2 DEF RequestsNext, ServeAtOnce, OneStepHandler, projects_create
<1>4. CASE ~draft.new
  <2>1. /\ pc[t] = "write" /\ job[t].op = "projects.edit" /\ job[t].project = p /\ job[t].form = form
        /\ issued' = issued /\ Answer(t)
        /\ project' = IF p \in DOMAIN project THEN Put(project, p, FormProject(form)) ELSE project
        /\ Inserted # {} => p \in DOMAIN project
        /\ share' = Upsert(Without(share, SharesOfProject(p)), FormRows(p, form))
    BY <1>1, <1>2, <1>4 DEF OldProjectSoFar, Answered
  <2>2. CASE p \in DOMAIN project
    <3>1. UpdateProject(p, form)
      BY <1>1, <1>2, <2>1, <2>2 DEF UpdateProject
    <3>2. Write(t)
      BY <2>1, <3>1 DEF Write, Transaction
    <3> QED
      BY <3>2 DEF RequestsNext, Step
  <2>3. CASE p \notin DOMAIN project
    <3>1. Inserted = {} /\ FormRows(p, form) = SavedRows(p, form, {})
      BY <1>1, <2>1, <2>3
    <3>2. share = [k \in DOMAIN share |-> share[k]]
      BY DEF SavesInv, RequestsTypeOK, TypeOK, IsTable
    <3>3. SharesOfProject(p) = {}
      BY <2>3 DEF SavesInv, ForeignKeys, SharesOfProject
    <3>4. Without(share, SharesOfProject(p)) = share
      BY <3>2, <3>3 DEF Without, Restrict
    <3>5. share' = share
      BY <2>1, <3>1, <3>2, <3>4, NoRow
    <3>6. UNCHANGED tables /\ pc[t] # "idle"
      BY <1>1, <2>1, <2>3, <3>5 DEF tables
    <3>7. Fail(t)
      BY <2>1, <3>6 DEF Fail
    <3> QED
      BY <3>7 DEF RequestsNext, Step
  <2> QED
    BY <2>2, <2>3
<1> QED
  BY <1>3, <1>4

\* A statement changes nothing that anybody else sees, and a save that stops is a request
\* that failed, or one that was never heard of.
LEMMA SaveStepIsOneStep ==
    ASSUME SavesInv, SavesNext
    PROVE  RequestsNext \/ UNCHANGED vars
<1>1. PICK t \in Threads : ReadingStep(t) \/ WritingStep(t) \/ SaveStep(t)
  BY DEF SavesNext
<1>2. CASE ReadingStep(t)
  BY <1>2 DEF ReadingStep, RequestsNext, Step
<1>3. CASE WritingStep(t)
  BY <1>3 DEF WritingStep, RequestsNext, Step, ServeAtOnce, OneStepHandler
<1>4. CASE CommitSave(t)
  BY <1>4, CommitIsOneStep
<1>5. CASE UndoSave(t)
  <2>1. CASE pc[t] = "idle"
    BY <1>5, <2>1 DEF UndoSave, Answered, vars
  <2>2. CASE pc[t] # "idle"
    BY <1>5, <2>2 DEF UndoSave, Answered, RequestsNext, Step, Fail
  <2> QED
    BY <2>1, <2>2
<1>6. CASE \/ \E form \in Forms : InsertProjectRow(t, form)
           \/ UpdateProjectRow(t) \/ DeleteWorkerRows(t)
           \/ \E w \in Workers : InsertWorkerRow(t, w)
  BY <1>6 DEF InsertProjectRow, UpdateProjectRow, DeleteWorkerRows, InsertWorkerRow
<1> QED
  BY <1>1, <1>2, <1>3, <1>4, <1>5, <1>6 DEF SaveStep

\* The statements of a save do to the connection's view what a save does to the tables.
LEMMA DraftKept ==
    ASSUME SavesInv, SavesNext
    PROVE  DraftSound'
<1> USE DEF SavesInv
<1>1. PICK t \in Threads : ReadingStep(t) \/ WritingStep(t) \/ SaveStep(t)
  BY DEF SavesNext
<1>2. CASE ReadingStep(t)
  <2> SUFFICES ASSUME Locked' PROVE DraftSound'
    BY DEF DraftSound
  <2>1. draft' = draft /\ Locked /\ UNCHANGED tables /\ draft.thread # t
    BY <1>2 DEF ReadingStep, Locked, Saving, Arrive, LoadPayment, LookUp, ReadShare, ReadPaid, Fail
  <2>2. draft.thread \in Threads
    BY <2>1 DEF DraftSound
  <2>3. DOMAIN pc = Threads /\ DOMAIN job = Threads
    BY DEF RequestsTypeOK
  <2>4. pc'[draft.thread] = pc[draft.thread] /\ job'[draft.thread] = job[draft.thread]
    BY <1>2, <2>1, <2>2, <2>3
       DEF ReadingStep, Arrive, LoadPayment, LookUp, ReadShare, ReadPaid, Fail, Answer, GoTo
  <2>5. Inserted' = Inserted
    BY <2>1 DEF Inserted
  <2>6. SharesOfProject(draft.id)' = SharesOfProject(draft.id)
    BY <2>1 DEF SharesOfProject, tables
  <2> QED
    BY <2>1, <2>4, <2>5, <2>6 DEF DraftSound, NewProjectSoFar, OldProjectSoFar, tables
<1>3. CASE WritingStep(t) \/ CommitSave(t) \/ UndoSave(t)
  BY <1>3 DEF WritingStep, CommitSave, UndoSave, DraftSound, Locked
<1>4. ASSUME NEW form \in Forms, InsertProjectRow(t, form) PROVE DraftSound'
  <2>1. PICK p \in Projects \ issued :
          draft' = [thread |-> t, id |-> p, form |-> form, new |-> TRUE, next |-> "insert",
                    project |-> Put(project, p, FormProject(form)), share |-> share,
                    issued |-> issued \cup {p}, left |-> DOMAIN form.rows]
    BY <1>4 DEF InsertProjectRow
  <2>2. UNCHANGED tables /\ pc' = pc /\ pc[t] = "idle" /\ FormValid(form)
    BY <1>4 DEF InsertProjectRow, vars, threadVars
  <2>3. Inserted' = {}
    BY <2>1 DEF Inserted
  <2>4. share = [k \in DOMAIN share |-> share[k]]
    BY DEF RequestsTypeOK, TypeOK, IsTable
  <2>5. Upsert(share, SavedRows(p, form, {})) = share
    BY <2>4, NoRow
  <2>6. NewProjectSoFar'
    BY <2>1, <2>2, <2>3, <2>5 DEF NewProjectSoFar, tables
  <2> QED
    BY <2>1, <2>2, <2>3, <2>6 DEF DraftSound, FormValid, FormShares
<1>5. ASSUME UpdateProjectRow(t) PROVE DraftSound'
  <2> DEFINE p == job[t].project
             form == job[t].form
  <2>1. draft' = [thread |-> t, id |-> p, form |-> form, new |-> FALSE, next |-> "delete",
                  project |-> IF p \in DOMAIN project THEN Put(project, p, FormProject(form))
                                                      ELSE project,
                  share |-> share, issued |-> issued, left |-> DOMAIN form.rows]
    BY <1>5 DEF UpdateProjectRow
  <2>2. UNCHANGED tables /\ pc' = pc /\ job' = job /\ pc[t] = "write" /\ job[t].op = "projects.edit"
    BY <1>5 DEF UpdateProjectRow, vars, threadVars
  <2>3. job[t] \in Jobs
    BY <2>2 DEF RequestsTypeOK
  <2>4. p \in Projects /\ form \in Forms /\ FormValid(form)
    BY <2>2, <2>3 DEF Jobs
  <2>5. Inserted' = {}
    BY <2>1 DEF Inserted
  <2>6. OldProjectSoFar'
    BY <2>1, <2>2, <2>5 DEF OldProjectSoFar, tables
  <2> QED
    BY <2>1, <2>2, <2>4, <2>5, <2>6 DEF DraftSound, FormValid, FormShares
<1>6. ASSUME DeleteWorkerRows(t) PROVE DraftSound'
  <2> DEFINE gone == {r \in DOMAIN draft.share : r[1] = draft.id}
  <2>1. /\ Locked /\ draft.thread = t /\ draft.next = "delete"
        /\ draft' = [draft EXCEPT !.share = Without(@, {r \in DOMAIN @ : r[1] = draft.id}),
                                  !.next = "insert"]
        /\ UNCHANGED tables /\ pc' = pc /\ job' = job
    BY <1>6 DEF DeleteWorkerRows, Saving, vars, threadVars
  <2>2. /\ draft = [thread |-> draft.thread, id |-> draft.id, form |-> draft.form,
                    new |-> draft.new, next |-> draft.next, project |-> draft.project,
                    share |-> draft.share, issued |-> draft.issued, left |-> draft.left]
        /\ draft.thread \in Threads /\ draft.id \in Projects
        /\ draft.form \in Forms /\ FormValid(draft.form) /\ draft.left \subseteq DOMAIN draft.form.rows
        /\ Inserted \subseteq DOMAIN worker /\ ~draft.new /\ OldProjectSoFar
    BY <2>1 DEF DraftSound, NewProjectSoFar
  <2>3. draft' = [thread |-> draft.thread, id |-> draft.id, form |-> draft.form,
                  new |-> draft.new, next |-> "insert", project |-> draft.project,
                  share |-> Without(draft.share, gone), issued |-> draft.issued,
                  left |-> draft.left]
    BY <2>1, <2>2
  <2>4. draft.share = share /\ Inserted = {} /\ gone = SharesOfProject(draft.id)
    BY <2>1, <2>2 DEF OldProjectSoFar, SharesOfProject
  <2>5. Inserted' = Inserted /\ SharesOfProject(draft.id)' = SharesOfProject(draft.id)
    BY <2>1, <2>3 DEF Inserted, SharesOfProject, tables
  <2> DEFINE rest == Without(share, SharesOfProject(draft.id))
  <2>6. rest = [k \in DOMAIN rest |-> rest[k]]
    BY DEF Without, Restrict
  <2>7. Upsert(rest, SavedRows(draft.id, draft.form, {})) = rest
    BY <2>6, NoRow
  <2>8. OldProjectSoFar'
    BY <2>1, <2>2, <2>3, <2>4, <2>5, <2>7 DEF OldProjectSoFar, tables
  <2> QED
    BY <2>1, <2>2, <2>3, <2>5, <2>8 DEF DraftSound, FormValid, FormShares, tables
<1>7. ASSUME NEW w \in Workers, InsertWorkerRow(t, w) PROVE DraftSound'
  <2>1. /\ Locked /\ draft.thread = t /\ draft.next = "insert" /\ w \in draft.left
        /\ w \in DOMAIN worker /\ draft.id \in DOMAIN draft.project
        /\ draft' = [draft EXCEPT !.share = Put(@, <<draft.id, w>>, FormShares(draft.form)[w]),
                                  !.left = @ \ {w}]
        /\ UNCHANGED tables /\ pc' = pc /\ job' = job
    BY <1>7 DEF InsertWorkerRow, Saving, vars, threadVars
  <2>2. /\ draft = [thread |-> draft.thread, id |-> draft.id, form |-> draft.form,
                    new |-> draft.new, next |-> draft.next, project |-> draft.project,
                    share |-> draft.share, issued |-> draft.issued, left |-> draft.left]
        /\ draft.thread \in Threads /\ draft.id \in Projects
        /\ draft.form \in Forms /\ FormValid(draft.form) /\ draft.left \subseteq DOMAIN draft.form.rows
        /\ Inserted \subseteq DOMAIN worker
        /\ draft.new => NewProjectSoFar
        /\ ~draft.new => OldProjectSoFar
    BY <2>1 DEF DraftSound
  <2> DEFINE put == Put(draft.share, <<draft.id, w>>, FormShares(draft.form)[w])
  <2>3. draft' = [thread |-> draft.thread, id |-> draft.id, form |-> draft.form,
                  new |-> draft.new, next |-> draft.next, project |-> draft.project,
                  share |-> put, issued |-> draft.issued, left |-> draft.left \ {w}]
    BY <2>1, <2>2
  <2>4. /\ Inserted' = Inserted \cup {w} /\ SharesOfProject(draft.id)' = SharesOfProject(draft.id)
    BY <2>1, <2>2, <2>3 DEF Inserted, SharesOfProject, tables
  <2>5. \A base : draft.share = Upsert(base, SavedRows(draft.id, draft.form, Inserted))
                    => put = Upsert(base, SavedRows(draft.id, draft.form, Inserted \cup {w}))
    BY OneMoreRow
  <2>6. CASE draft.new
    <3>1. NewProjectSoFar'
      BY <2>1, <2>2, <2>3, <2>4, <2>5, <2>6 DEF NewProjectSoFar, tables
    <3> QED
      BY <2>1, <2>2, <2>3, <2>4, <2>6, <3>1 DEF DraftSound, FormValid, FormShares, tables
  <2>7. CASE ~draft.new
    <3>1. draft.id \in DOMAIN project
      BY <2>1, <2>2, <2>7 DEF OldProjectSoFar
    <3>2. OldProjectSoFar'
      BY <2>1, <2>2, <2>3, <2>4, <2>5, <2>7, <3>1 DEF OldProjectSoFar, tables
    <3> QED
      BY <2>1, <2>2, <2>3, <2>4, <2>7, <3>2 DEF DraftSound, FormValid, FormShares, tables
  <2> QED
    BY <2>6, <2>7
<1> QED
  BY <1>1, <1>2, <1>3, <1>4, <1>5, <1>6, <1>7 DEF SaveStep

\* A save is done in one moment or not at all, for every number of threads, projects and
\* workers: every behaviour of the statements is one of the transactions of Requests.
THEOREM SavesImplementRequests ==
    ASSUME PaidAmounts = Nat
    PROVE  SavesSpec => RequestsImplemented /\ []SavesInv
<1>1. SavesInit => RequestsInit /\ SavesInv
  <2> SUFFICES ASSUME SavesInit PROVE RequestsInit /\ SavesInv
    OBVIOUS
  <2>1. RequestsTypeOK
    BY EmptyIsTable, NoneAssumption
       DEF SavesInit, RequestsInit, Init, RequestsTypeOK, TypeOK, NothingSeen
  <2>2. ForeignKeys
    BY DEF SavesInit, RequestsInit, Init, ForeignKeys, EmptyTable
  <2>3. DraftSound
    BY DEF SavesInit, DraftSound, Locked
  <2> QED
    BY <2>1, <2>2, <2>3 DEF SavesInit, SavesInv
<1>2. SavesInv /\ [SavesNext]_saveVars => [RequestsNext]_vars
  BY SaveStepIsOneStep DEF saveVars
<1>3. SavesInv /\ [SavesNext]_saveVars => SavesInv'
  <2> SUFFICES ASSUME SavesInv, [SavesNext]_saveVars PROVE SavesInv'
    OBVIOUS
  <2>1. [RequestsNext]_vars
    BY <1>2
  <2>2. [Next]_tables
    BY <2>1, StepIsTransaction DEF SavesInv, vars
  <2>3. TypeOK' /\ ForeignKeys'
    BY <2>2, TypePreserved, KeysPreserved DEF SavesInv, RequestsTypeOK
  <2>4. RequestsTypeOK'
    <3>1. CASE RequestsNext
      BY <2>3, <3>1, ThreadsTyped DEF SavesInv
    <3>2. CASE UNCHANGED vars
      BY <2>3, <3>2 DEF SavesInv, vars, threadVars, RequestsTypeOK
    <3> QED
      BY <2>1, <3>1, <3>2
  <2>5. DraftSound'
    <3>1. CASE SavesNext
      BY <3>1, DraftKept
    <3>2. CASE UNCHANGED saveVars
      <4>1. UNCHANGED <<tables, pc, job, draft>>
        BY <3>2 DEF saveVars, vars, threadVars
      <4> QED
        BY <4>1 DEF SavesInv, DraftSound, Locked, Inserted, NewProjectSoFar, OldProjectSoFar,
                    tables, SharesOfProject, FormValid, FormShares
    <3> QED
      BY <3>1, <3>2
  <2> QED
    BY <2>3, <2>4, <2>5 DEF SavesInv
<1> QED
  BY <1>1, <1>2, <1>3, PTL DEF SavesSpec, RequestsSpec, RequestsImplemented

\* So what the transactions keep is kept by saves that are taken apart: no moment that
\* anybody sees has the labor amount of one save with the shares of another.
THEOREM SavesKeepTables ==
    ASSUME PaidAmounts = Nat
    PROVE  SavesSpec => [](ForeignKeys /\ LaborCap)
<1>1. SavesSpec => RequestsSpec
  BY SavesImplementRequests DEF RequestsImplemented
<1> QED
  BY <1>1, RequestsKeepTables, PTL
-----------------------------------------------------------------------------
\* What a handler that is not idle has found out is still so.
WhatItReadHolds(t) ==
    LET j == job[t]
    IN  /\ pc[t] \in {"share", "paid"}
              => j.op \in {"payments.create", "payments.edit", "settle_all"}
        /\ pc[t] \in {"share", "paid"} /\ j.op = "payments.edit"
              => j.payment \in DOMAIN payment /\ seen[t].row = payment[j.payment]
        /\ pc[t] = "paid" => seen[t].share = Earned(Payee(t))
        /\ pc[t] = "write" /\ j.op = "payments.create"
              => j.amount <= Balance(j.worker) \/ j.confirm
        /\ pc[t] = "write" /\ j.op = "payments.edit"
              => \/ j.amount <= Balance(payment[j.payment].worker) + payment[j.payment].amount
                 \/ j.confirm
        /\ pc[t] = "write" /\ j.op = "settle_all" => seen[t].amount = Balance(j.worker)
        /\ pc[t] = "write" /\ j.op = "workers.delete" => SharesOfWorker(j.worker) = {}

\* That is so of every handler that no commit has crossed.
UncrossedReadsHold == \A t \in Threads : pc[t] # "idle" /\ ~crossed[t] => WhatItReadHolds(t)

\* A thread that stands still while nothing is committed knows what it knew.
LEMMA ReadsStay ==
    ASSUME NEW t \in Threads, UNCHANGED tables,
           pc'[t] = pc[t], job'[t] = job[t], seen'[t] = seen[t], WhatItReadHolds(t)
    PROVE  WhatItReadHolds(t)'
BY DEF WhatItReadHolds, tables, Payee, Balance, Earned, Paid, SharesOfWorker, PaymentsOfWorker

\* A thread that takes a step while nothing is committed learns only what is so.
LEMMA ReadsTrue ==
    ASSUME RequestsTypeOK, NEW t \in Threads, UNCHANGED tables,
           Step(t), pc'[t] # "idle", WhatItReadHolds(t)
    PROVE  WhatItReadHolds(t)'
<1> DEFINE j == job[t]
           own == IF j.op = "payments.edit" THEN seen[t].row.amount ELSE 0
           balance == seen[t].share - Paid(Payee(t)) + own
<1>1. /\ pc[t] \in {"idle", "load", "share", "paid", "write"}
      /\ pc \in [Threads -> {"idle", "load", "share", "paid", "write"}]
      /\ DOMAIN job = Threads /\ DOMAIN seen = Threads
      /\ seen[t] \in [row : PaymentRow \cup {None}, share : Nat, amount : Nat]
  BY DEF RequestsTypeOK
<1>2. \A w : Earned(w)' = Earned(w) /\ Balance(w)' = Balance(w)
                /\ SharesOfWorker(w)' = SharesOfWorker(w)
  BY DEF tables, Balance, Earned, Paid, SharesOfWorker, PaymentsOfWorker
<1>3. payment' = payment
  BY DEF tables
<1>4. ~Answer(t)
  BY <1>1 DEF Answer
<1>5. CASE LoadPayment(t)
  <2>1. /\ pc'[t] = "share" /\ job'[t] = j /\ j.op = "payments.edit"
        /\ j.payment \in DOMAIN payment
        /\ seen' = [seen EXCEPT ![t].row = payment[j.payment]]
    BY <1>1, <1>4, <1>5 DEF LoadPayment, GoTo
  <2>2. seen'[t].row = payment[j.payment]
    BY <1>1, <2>1
  <2> QED
    BY <1>3, <2>1, <2>2 DEF WhatItReadHolds
<1>6. CASE LookUp(t)
  <2>1. /\ pc'[t] = "write" /\ job'[t] = j /\ LookupPasses(j)
        /\ j.op \in {"workers.edit", "workers.delete", "projects.edit"}
    BY <1>1, <1>4, <1>6 DEF LookUp, GoTo
  <2>2. j.op = "workers.delete" => SharesOfWorker(j.worker) = {}
    BY <2>1 DEF LookupPasses
  <2> HIDE DEF j
  <2> QED
    BY <1>2, <2>1, <2>2 DEF WhatItReadHolds
<1>7. CASE ReadShare(t)
  <2>1. /\ pc[t] = "share" /\ pc'[t] = "paid" /\ job'[t] = j
        /\ seen' = [seen EXCEPT ![t].share = Earned(Payee(t))]
    BY <1>1, <1>7 DEF ReadShare, GoTo
  <2>2. seen'[t].share = Earned(Payee(t)) /\ seen'[t].row = seen[t].row
    BY <1>1, <2>1
  <2>3. Payee(t)' = Payee(t)
    BY <2>1, <2>2 DEF Payee
  <2> QED
    BY <1>2, <1>3, <2>1, <2>2, <2>3 DEF WhatItReadHolds
<1>8. CASE ReadPaid(t)
  <2>1. /\ pc[t] = "paid" /\ pc'[t] = "write" /\ job'[t] = j /\ MayWrite(j, balance)
        /\ seen' = [seen EXCEPT ![t] = [NothingSeen EXCEPT !.amount =
                                          IF j.op = "settle_all" THEN balance ELSE 0]]
    BY <1>1, <1>4, <1>8 DEF ReadPaid, GoTo
  <2>2. seen'[t].amount = IF j.op = "settle_all" THEN balance ELSE 0
    BY <1>1, <2>1 DEF NothingSeen
  <2>3. seen[t].share = Earned(Payee(t)) /\ Earned(Payee(t)) \in Nat /\ Paid(Payee(t)) \in Nat
    BY <2>1, WorkerTables DEF WhatItReadHolds, RequestsTypeOK
  <2>4. CASE j.op = "payments.edit"
    <3>1. seen[t].row = payment[j.payment]
      BY <2>1, <2>4 DEF WhatItReadHolds
    <3>2. balance = Balance(payment[j.payment].worker) + payment[j.payment].amount
      BY <2>3, <2>4, <3>1 DEF Payee, Balance
    <3>3. j.amount <= balance \/ j.confirm
      BY <2>1, <2>4 DEF MayWrite
    <3> HIDE DEF balance
    <3> QED
      BY <1>2, <1>3, <2>1, <2>4, <3>2, <3>3 DEF WhatItReadHolds
  <2>5. CASE j.op = "payments.create"
    <3>1. balance = Balance(j.worker)
      BY <2>3, <2>5 DEF Payee, Balance
    <3>2. j.amount <= balance \/ j.confirm
      BY <2>1, <2>5 DEF MayWrite
    <3> HIDE DEF balance
    <3> QED
      BY <1>2, <2>1, <2>5, <3>1, <3>2 DEF WhatItReadHolds
  <2>6. CASE j.op = "settle_all"
    <3>1. balance = Balance(j.worker)
      BY <2>3, <2>6 DEF Payee, Balance
    <3> HIDE DEF balance
    <3> QED
      BY <1>2, <2>1, <2>2, <2>6, <3>1 DEF WhatItReadHolds
  <2>7. j.op \in {"payments.create", "payments.edit", "settle_all"}
    BY <2>1 DEF WhatItReadHolds
  <2> QED
    BY <2>4, <2>5, <2>6, <2>7
<1>9. CASE Write(t) \/ Fail(t)
  BY <1>4, <1>9 DEF Write, Fail
<1> QED
  BY <1>5, <1>6, <1>7, <1>8, <1>9 DEF Step

\* A request that arrives has read nothing yet.
LEMMA NothingRead ==
    ASSUME RequestsTypeOK, NEW t \in Threads, NEW j \in Jobs, Arrive(t, j)
    PROVE  WhatItReadHolds(t)'
<1>1. pc'[t] = FirstStep(j.op) /\ job'[t] = j
  BY DEF Arrive, RequestsTypeOK
<1> QED
  BY <1>1 DEF FirstStep, WhatItReadHolds

\* So a step of any thread keeps the others' knowledge true or marks them as crossed.
LEMMA UncrossedKept ==
    ASSUME SavesInv, UncrossedReadsHold, CrossingsNext
    PROVE  UncrossedReadsHold'
<1> SUFFICES ASSUME NEW t \in Threads, pc'[t] # "idle", ~crossed'[t]
             PROVE  WhatItReadHolds(t)'
  BY DEF UncrossedReadsHold
<1>1. pc[t] # "idle" => UNCHANGED tables /\ WhatItReadHolds(t)
  BY DEF CrossingsNext, UncrossedReadsHold
<1>2. /\ DOMAIN pc = Threads /\ DOMAIN job = Threads /\ DOMAIN seen = Threads
      /\ RequestsTypeOK
  BY DEF SavesInv, RequestsTypeOK
<1>3. RequestsNext \/ UNCHANGED vars
  BY SaveStepIsOneStep DEF CrossingsNext
<1>4. CASE UNCHANGED vars
  <2>1. UNCHANGED <<tables, pc, job, seen>>
    BY <1>4 DEF vars, threadVars
  <2> QED
    BY <1>1, <2>1, ReadsStay
<1>5. CASE RequestsNext
  <2> PICK u \in Threads : (\E j \in Jobs : Arrive(u, j)) \/ Step(u) \/ ServeAtOnce(u)
    BY <1>5 DEF RequestsNext
  <2>1. CASE u = t
    <3>1. CASE \E j \in Jobs : Arrive(t, j)
      BY <1>2, <3>1, NothingRead
    <3>2. CASE Step(t)
      <4>1. pc[t] # "idle"
        BY <3>2 DEF Step, LoadPayment, LookUp, ReadShare, ReadPaid, Write, Fail
      <4> QED
        BY <1>1, <1>2, <3>2, <4>1, ReadsTrue
    <3>3. CASE ServeAtOnce(t)
      BY <3>3 DEF ServeAtOnce, threadVars
    <3> QED
      BY <2>1, <3>1, <3>2, <3>3
  <2>2. CASE u # t
    <3>1. pc'[t] = pc[t] /\ job'[t] = job[t] /\ seen'[t] = seen[t]
      BY <1>2, <2>2 DEF Arrive, Step, LoadPayment, LookUp, ReadShare, ReadPaid, Write, Fail,
         Answer, GoTo, ServeAtOnce, threadVars
    <3> QED
      BY <1>1, <3>1, ReadsStay
  <2> QED
    BY <2>1, <2>2
<1> QED
  BY <1>3, <1>4, <1>5

\* The commit of a handler that none crossed is what the handler does alone.
LEMMA UncrossedCommit ==
    ASSUME RequestsTypeOK, UncrossedReadsHold, RequestsNext,
           NEW t \in Threads, Writes(t), ~crossed[t]
    PROVE  AtOnce(job[t])
<1> DEFINE j == job[t]
<1>1. pc[t] = "write" /\ pc'[t] = "idle" /\ tables' # tables /\ DOMAIN pc = Threads
  BY DEF Writes, RequestsTypeOK
<1>2. PICK u \in Threads : (\E k \in Jobs : Arrive(u, k)) \/ Step(u) \/ ServeAtOnce(u)
  BY DEF RequestsNext
<1>3. Write(u) \/ ServeAtOnce(u)
  BY <1>1, <1>2 DEF Arrive, Step, LoadPayment, LookUp, ReadShare, ReadPaid, Fail
<1>4. Write(t)
  BY <1>1, <1>3 DEF Write, Answer, ServeAtOnce, threadVars
<1>5. Transaction(t) /\ WhatItReadHolds(t)
  BY <1>1, <1>4 DEF Write, UncrossedReadsHold
<1>6. j.op \in {"payments.create", "payments.edit", "settle_all", "workers.edit",
                "workers.delete", "projects.edit"}
  BY <1>1, JobFields DEF RequestsTypeOK
<1>7. CASE j.op = "payments.create"
  <2>1. InsertPayment(j.worker, j.project, j.amount)
    BY <1>5, <1>7 DEF Transaction
  <2>2. j.amount <= Balance(j.worker) \/ j.confirm
    BY <1>1, <1>5, <1>7 DEF WhatItReadHolds
  <2> HIDE DEF j
  <2> QED
    BY <1>7, <2>1, <2>2 DEF AtOnce, payments_create, j
<1>8. CASE j.op = "payments.edit"
  <2>1. UpdatePayment(j.payment, j.amount)
    BY <1>5, <1>8 DEF Transaction
  <2>2. j.amount <= Balance(payment[j.payment].worker) + payment[j.payment].amount \/ j.confirm
    BY <1>1, <1>5, <1>8 DEF WhatItReadHolds
  <2>3. j.payment \in DOMAIN payment
    BY <2>1 DEF UpdatePayment
  <2>4. payments_edit(j.payment, j.amount, j.confirm)
    BY <2>1, <2>2, <2>3 DEF payments_edit
  <2> QED
    BY <1>8, <2>4 DEF AtOnce
<1>9. CASE j.op = "settle_all"
  <2>1. InsertPayment(j.worker, NoProject, seen[t].amount)
    BY <1>5, <1>9 DEF Transaction
  <2>2. seen[t].amount = Balance(j.worker)
    BY <1>1, <1>5, <1>9 DEF WhatItReadHolds
  <2>3. settle_all(j.worker)
    BY <2>1, <2>2 DEF settle_all
  <2> QED
    BY <1>9, <2>3 DEF AtOnce
<1>10. CASE j.op = "workers.edit"
  <2>1. UpdateWorker(j.worker, j.active)
    BY <1>5, <1>10 DEF Transaction
  <2> QED
    BY <1>10, <2>1 DEF AtOnce, workers_edit
<1>11. CASE j.op = "workers.delete"
  <2>1. DeleteWorker(j.worker)
    BY <1>5, <1>11 DEF Transaction
  <2>2. SharesOfWorker(j.worker) = {}
    BY <1>1, <1>5, <1>11 DEF WhatItReadHolds
  <2> QED
    BY <1>11, <2>1, <2>2 DEF AtOnce, workers_delete
<1>12. CASE j.op = "projects.edit"
  <2>1. UpdateProject(j.project, j.form)
    BY <1>5, <1>12 DEF Transaction
  <2> QED
    BY <1>12, <2>1 DEF AtOnce, projects_edit
<1> QED
  BY <1>6, <1>7, <1>8, <1>9, <1>10, <1>11, <1>12

\* A handler that no other commit crossed between its first read and its write does to the
\* tables exactly what it does when it runs alone.
THEOREM SequentialWhenUncrossed ==
    ASSUME PaidAmounts = Nat
    PROVE  CrossingsSpec => SequentialUnlessCrossed
<1> DEFINE Commits == \A t \in Threads : Writes(t) /\ ~crossed[t] => AtOnce(job[t])
<1>1. CrossingsInit => UncrossedReadsHold
  BY DEF CrossingsInit, SavesInit, RequestsInit, UncrossedReadsHold
<1>2. SavesInv /\ UncrossedReadsHold /\ [CrossingsNext]_<<saveVars, crossed>>
        => UncrossedReadsHold'
  <2> SUFFICES ASSUME SavesInv, UncrossedReadsHold, [CrossingsNext]_<<saveVars, crossed>>
               PROVE  UncrossedReadsHold'
    OBVIOUS
  <2>1. CASE CrossingsNext
    BY <2>1, UncrossedKept
  <2>2. CASE UNCHANGED <<saveVars, crossed>>
    <3>1. UNCHANGED tables /\ UNCHANGED <<pc, job, seen, crossed>>
      BY <2>2 DEF saveVars, vars, threadVars
    <3> QED
      BY <3>1, ReadsStay DEF UncrossedReadsHold
  <2> QED
    BY <2>1, <2>2
<1>3. SavesInv /\ UncrossedReadsHold /\ [CrossingsNext]_<<saveVars, crossed>>
        => [Commits]_tables
  <2> SUFFICES ASSUME SavesInv, UncrossedReadsHold, CrossingsNext, tables' # tables PROVE Commits
    BY DEF saveVars, vars
  <2>1. RequestsNext
    BY SaveStepIsOneStep DEF CrossingsNext, vars
  <2> QED
    BY <2>1, UncrossedCommit DEF SavesInv
<1>4. CrossingsSpec => SavesSpec
  <2>1. CrossingsInit => SavesInit
    BY DEF CrossingsInit
  <2>2. [CrossingsNext]_<<saveVars, crossed>> => [SavesNext]_saveVars
    BY DEF CrossingsNext
  <2> QED
    BY <2>1, <2>2, PTL DEF CrossingsSpec, SavesSpec
<1>5. CrossingsSpec => []SavesInv
  BY <1>4, SavesImplementRequests, PTL
<1> QED
  BY <1>1, <1>2, <1>3, <1>5, PTL DEF CrossingsSpec, SequentialUnlessCrossed
-----------------------------------------------------------------------------
\* A list of rows of a table carries the table's amounts.
LEMMA ListOfRows ==
    ASSUME NEW t, NEW S, S \subseteq DOMAIN t
    PROVE  /\ DOMAIN Restrict(t, S) = S
           /\ \A k \in S : Restrict(t, S)[k] = t[k]
           /\ \A T \in SUBSET S : SumOf(T, AmountOf(Restrict(t, S))) = SumOf(T, AmountOf(t))
<1>1. DOMAIN Restrict(t, S) = S /\ \A k \in S : Restrict(t, S)[k] = t[k]
  BY DEF Restrict
<1>2. \A k \in S : AmountOf(Restrict(t, S))[k] = AmountOf(t)[k]
  BY <1>1 DEF AmountOf
<1>3. ASSUME NEW T \in SUBSET S PROVE SumOf(T, AmountOf(Restrict(t, S))) = SumOf(T, AmountOf(t))
  BY <1>2, SumSameColumn
<1> QED
  BY <1>1, <1>3

\* Nothing is lost by naming only the workers whose balance is not zero.
LEMMA DebtsNamed ==
    ASSUME Sound
    PROVE  SumOf(DOMAIN share, share) - SumOf(DOMAIN payment, AmountOf(payment))
             = SumFunction(Answers(NoProject).debts)
<1> DEFINE W       == DOMAIN worker
           named   == {v \in W : Balance(v) # 0}
           balance == [w \in W |-> Balance(w)]
           debts   == [w \in named |-> Balance(w)]
           others  == W \ named
<1>1. IsFiniteSet(W) /\ IsFiniteSet(named) /\ IsFiniteSet(others) /\ named \in SUBSET W
  BY SoundTables, FS_Subset
<1>2. \A w \in W : balance[w] \in Int
  BY FigureTypes DEF Balance
<1>3. /\ \A w \in named : debts[w] = balance[w]
      /\ \A w \in others : balance[w] = 0
      /\ DOMAIN balance = W /\ DOMAIN debts = named /\ others = W \ named
  OBVIOUS
<1>4. Answers(NoProject).debts = debts
  BY DEF Answers
<1>5. SumOf(DOMAIN share, share) - SumOf(DOMAIN payment, AmountOf(payment)) = SumFunction(balance)
  <2>1. dashboard_stats.total_debt = SumFunction(balance)
    BY DebtFigures DEF DebtAgrees
  <2> QED
    BY <2>1 DEF dashboard_stats
<1> HIDE DEF W, named, balance, debts, others
<1>6. SumFunctionOnSet(balance, W)
        = SumFunctionOnSet(balance, named) + SumFunctionOnSet(balance, others)
  BY <1>1, <1>2, <1>3, TotalOfPart
<1>7. SumFunctionOnSet(balance, others) = 0
  BY <1>1, <1>3, TotalIsSum, SumOfZeros
<1>8. SumFunctionOnSet(debts, named) = SumFunctionOnSet(balance, named)
  BY <1>1, <1>2, <1>3, TotalSame
<1>9. SumFunctionOnSet(balance, named) \in Int
  BY <1>1, <1>2, TotalType
<1> QED
  BY <1>3, <1>4, <1>5, <1>6, <1>7, <1>8, <1>9 DEF SumFunction

\* With every project within its cap the shares together are within the labor amounts.
LEMMA SharesWithinLabor ==
    ASSUME Sound, LaborCap
    PROVE  SumOf(DOMAIN share, share) <= SumOf(DOMAIN project, LaborOf)
<1> DEFINE byProject == [p \in DOMAIN project |-> SumOf(SharesOfProject(p), share)]
<1>1. IsFiniteSet(DOMAIN project)
  BY SoundTables
<1>2. \A p \in DOMAIN project :
         /\ byProject[p] \in Nat /\ LaborOf[p] \in Nat
         /\ byProject[p] <= LaborOf[p]
  BY FigureTypes, SoundTables DEF LaborOf, LaborCap
<1>3. SumOf(DOMAIN share, share) = SumFunctionOnSet(byProject, DOMAIN project)
  BY SharesByGroup
<1> HIDE DEF byProject
<1>4. SumFunctionOnSet(byProject, DOMAIN project) = SumOf(DOMAIN project, byProject)
  BY <1>1, <1>2, TotalIsSum
<1>5. SumOf(DOMAIN project, byProject) <= SumOf(DOMAIN project, LaborOf)
  BY <1>1, <1>2, SumOfSmaller
<1> QED
  BY <1>3, <1>4, <1>5

\* The numbers of the SELECTs whose answers are compared below.
LEMMA SelectNumbers ==
    /\ LET s == Selects["dashboard"]
       IN  /\ {2, 3, 4, 9} \subseteq DOMAIN s
           /\ s[2] = "labor" /\ s[3] = "shares" /\ s[4] = "paid" /\ s[9] = "debts"
    /\ LET s == Selects["project"]
       IN  /\ 1 .. 11 = DOMAIN s
           /\ s[1] = "project" /\ s[2] = "workers" /\ s[3] = "worker_paid" /\ s[4] = "payments"
           /\ s[5] = "expense_list" /\ s[6] = "receipt_list" /\ s[7] = "project_again"
           /\ s[8] = "workers_share" /\ s[9] = "project_expenses"
           /\ s[10] = "project_received" /\ s[11] = "workers_paid"
    /\ LET s == Selects["settlement"]
       IN  /\ 1 .. 5 = DOMAIN s
           /\ s[1] = "worker" /\ s[2] = "projects" /\ s[3] = "worker_payments"
           /\ s[4] = "worker_share" /\ s[5] = "worker_total"
BY DEF Selects

\* Only a project's page looks a row up twice, before its figures.
LEMMA SecondLook ==
    ASSUME NEW kind \in {"dashboard", "project", "settlement"}, NEW n \in DOMAIN Selects[kind],
           Selects[kind][n] = "project_again"
    PROVE  kind = "project" /\ n = 7
BY DEF Selects

\* As long as nobody commits, what a page has read is still what the tables say.
Fresh == commits = 0 => \A q \in DOMAIN results : results[q] = Answers(q[2])[q[1]]

\* So a complete page shows the answers of one moment.
LEMMA ShownAtOnce ==
    ASSUME Fresh, Complete, commits = 0, NEW n \in DOMAIN Selects[page.kind]
    PROVE  LET name == Selects[page.kind][n]
           IN  /\ name # "worker_paid" => Asked(name) /\ Shown(name) = Answers(page.id)[name]
               /\ name = "worker_paid" =>
                     \A r \in DOMAIN Shown("workers") :
                        results[<<name, r[2]>>] = Answers(r[2])[name]
<1> DEFINE name == Selects[page.kind][n]
<1>1. {name} \X Subjects(name) \subseteq DOMAIN results
  BY DEF Complete, Unread
<1>2. CASE name # "worker_paid"
  <2>1. <<name, page.id>> \in DOMAIN results
    BY <1>1, <1>2 DEF Subjects
  <2>2. results[<<name, page.id>>] = Answers(page.id)[name]
    BY <2>1 DEF Fresh
  <2> QED
    BY <1>2, <2>1, <2>2 DEF Asked, Shown, Complete
<1>3. CASE name = "worker_paid"
  <2> SUFFICES ASSUME NEW r \in DOMAIN Shown("workers")
               PROVE  results[<<name, r[2]>>] = Answers(r[2])[name]
    BY <1>3
  <2>1. r[2] \in Subjects(name)
    BY <1>3 DEF Subjects
  <2>2. <<name, r[2]>> \in DOMAIN results
    BY <1>1, <2>1
  <2> QED
    BY <2>2 DEF Fresh
<1> QED
  BY <1>2, <1>3

\* The dashboard at one moment.
LEMMA DashboardAtOnce ==
    ASSUME Sound, LaborCap, Fresh, Complete, commits = 0, page.kind = "dashboard",
           page.id = NoProject
    PROVE  DashboardAddsUp
<1> DEFINE A == Answers(NoProject)
<1>1. /\ Shown("labor") = A["labor"] /\ Shown("shares") = A["shares"]
      /\ Shown("paid") = A["paid"] /\ Shown("debts") = A["debts"]
  <2> HIDE DEF A
  <2> QED
    BY ShownAtOnce, SelectNumbers DEF A
<1>2. /\ A["labor"] = SumOf(DOMAIN project, LaborOf)
      /\ A["shares"] = SumOf(DOMAIN share, share)
      /\ A["paid"] = SumOf(DOMAIN payment, AmountOf(payment))
  BY DEF Answers
<1> QED
  BY <1>1, <1>2, DebtsNamed, SharesWithinLabor DEF DashboardAddsUp

\* What the listed payments of a project say of a worker is what the tables say.
LEMMA PaidInProjectList ==
    ASSUME NEW p, NEW w, NEW list, list = Restrict(payment, PaymentsOfProject(p))
    PROVE  PaidOn(p, w) = SumOf({i \in DOMAIN list : list[i].worker = w}, AmountOf(list))
<1> DEFINE both == PaymentsOfWorker(w) \cap PaymentsOfProject(p)
<1>1. PaymentsOfProject(p) \subseteq DOMAIN payment
  BY DEF PaymentsOfProject
<1>2. {i \in DOMAIN list : list[i].worker = w} = both
  BY <1>1, ListOfRows DEF PaymentsOfWorker, PaymentsOfProject
<1>3. SumOf(both, AmountOf(list)) = SumOf(both, AmountOf(payment))
  BY <1>1, ListOfRows
<1> QED
  BY <1>2, <1>3 DEF PaidOn

\* And so is what those of a worker say of a project.
LEMMA PaidInWorkerList ==
    ASSUME NEW p, NEW w, NEW list, list = Restrict(payment, PaymentsOfWorker(w))
    PROVE  PaidOn(p, w) = SumOf({i \in DOMAIN list : list[i].project = p}, AmountOf(list))
<1> DEFINE both == PaymentsOfWorker(w) \cap PaymentsOfProject(p)
<1>1. PaymentsOfWorker(w) \subseteq DOMAIN payment
  BY DEF PaymentsOfWorker
<1>2. {i \in DOMAIN list : list[i].project = p} = both
  BY <1>1, ListOfRows DEF PaymentsOfWorker, PaymentsOfProject
<1>3. SumOf(both, AmountOf(list)) = SumOf(both, AmountOf(payment))
  BY <1>1, ListOfRows
<1> QED
  BY <1>2, <1>3 DEF PaidOn

\* The page of a project at one moment.
LEMMA ProjectAtOnce ==
    ASSUME Sound, LaborCap, Fresh, Complete, commits = 0, page.kind = "project"
    PROVE  ProjectAddsUp
<1> DEFINE p == page.id
           A == Answers(p)
           workers  == Shown("workers")
           payments == Shown("payments")
<1>1. /\ Shown("project_again") = A["project_again"] /\ Asked("project_again")
      /\ workers = A["workers"] /\ payments = A["payments"]
      /\ Shown("expense_list") = A["expense_list"] /\ Shown("receipt_list") = A["receipt_list"]
      /\ Shown("workers_share") = A["workers_share"]
      /\ Shown("project_expenses") = A["project_expenses"]
      /\ Shown("project_received") = A["project_received"]
      /\ Shown("workers_paid") = A["workers_paid"]
      /\ \A r \in DOMAIN workers : results[<<"worker_paid", r[2]>>] = Answers(r[2])["worker_paid"]
  <2> HIDE DEF A
  <2> QED
    BY ShownAtOnce, SelectNumbers DEF A
<1>2. /\ A["project_again"] = Restrict(project, {p} \cap DOMAIN project)
      /\ A["workers"] = Restrict(share, {r \in SharesOfProject(p) : r[2] \in DOMAIN worker})
      /\ A["payments"] = Restrict(payment, {i \in PaymentsOfProject(p) :
                                              payment[i].worker \in DOMAIN worker})
      /\ A["expense_list"] = Restrict(expense, {i \in DOMAIN expense : expense[i].project = p})
      /\ A["receipt_list"] = Restrict(receipt, {i \in DOMAIN receipt : receipt[i].project = p})
      /\ A["workers_share"] = SumOf(SharesOfProject(p), share)
      /\ A["project_expenses"] = ItemsOf(p, expense)
      /\ A["project_received"] = ItemsOf(p, receipt)
      /\ A["workers_paid"] = SumOf(PaymentsOfProject(p), AmountOf(payment))
      /\ \A w : Answers(w)["worker_paid"] = PaidOn(p, w)
  BY DEF Answers
<1>3. workers = Restrict(share, SharesOfProject(p)) /\ payments = Restrict(payment, PaymentsOfProject(p))
  <2>1. {r \in SharesOfProject(p) : r[2] \in DOMAIN worker} = SharesOfProject(p)
    BY SoundTables DEF SharesOfProject
  <2>2. {i \in PaymentsOfProject(p) : payment[i].worker \in DOMAIN worker} = PaymentsOfProject(p)
    BY SoundTables DEF PaymentsOfProject
  <2> QED
    BY <1>1, <1>2, <2>1, <2>2
<1> HIDE DEF A, workers, payments
<1>4. SumOf(DOMAIN workers, workers) = Shown("workers_share")
  <2>1. DOMAIN workers = SharesOfProject(p) /\ \A r \in SharesOfProject(p) : workers[r] = share[r]
    BY <1>3, ListOfRows DEF SharesOfProject
  <2> QED
    BY <1>1, <1>2, <2>1, SumSameColumn
<1>5. Shown("workers_share") <= Shown("project_again")[p].labor
  <2>1. p \in DOMAIN project
    <3>1. DOMAIN Shown("project_again") # {}
      BY <1>1 DEF Complete, Broken, NotFound
    <3> QED
      BY <1>1, <1>2, <3>1, ListOfRows
  <2>2. Shown("project_again")[p] = project[p]
    BY <1>1, <1>2, <2>1, ListOfRows
  <2> QED
    BY <1>1, <1>2, <2>1, <2>2 DEF LaborCap
<1>6. PaymentsOfProject(p) \subseteq DOMAIN payment
  BY DEF PaymentsOfProject
<1>7. ASSUME NEW r \in DOMAIN workers
      PROVE  results[<<"worker_paid", r[2]>>]
               = SumOf({i \in DOMAIN payments : payments[i].worker = r[2]}, AmountOf(payments))
  <2>1. results[<<"worker_paid", r[2]>>] = PaidOn(p, r[2])
    BY <1>1, <1>2, <1>7
  <2> QED
    BY <1>3, <2>1, PaidInProjectList
<1>8. ListAddsUp(payments, Shown("workers_paid"))
  BY <1>1, <1>2, <1>3, <1>6, ListOfRows DEF ListAddsUp
<1>9. /\ ListAddsUp(Shown("expense_list"), Shown("project_expenses"))
      /\ ListAddsUp(Shown("receipt_list"), Shown("project_received"))
  BY <1>1, <1>2, ListOfRows DEF ListAddsUp, ItemsOf
<1> QED
  BY <1>4, <1>5, <1>7, <1>8, <1>9 DEF ProjectAddsUp, workers, payments

\* The settlement page of a worker at one moment.
LEMMA SettlementAtOnce ==
    ASSUME Sound, Fresh, Complete, commits = 0, page.kind = "settlement"
    PROVE  SettlementAddsUp
<1> DEFINE w == page.id
           A == Answers(w)
           projects == Shown("projects")
           payments == Shown("worker_payments")
           shares   == [r \in DOMAIN projects |-> projects[r].share_amount]
<1>1. /\ projects = A["projects"] /\ payments = A["worker_payments"]
      /\ Shown("worker_share") = A["worker_share"] /\ Shown("worker_total") = A["worker_total"]
  <2> HIDE DEF A
  <2> QED
    BY ShownAtOnce, SelectNumbers DEF A
<1>2. /\ A["projects"] = [r \in {s \in SharesOfWorker(w) : s[1] \in DOMAIN project} |->
                            [share_amount |-> share[r], paid_on_project |-> PaidOn(r[1], w)]]
      /\ A["worker_payments"] = Restrict(payment, PaymentsOfWorker(w))
      /\ A["worker_share"] = SumOf(SharesOfWorker(w), share)
      /\ A["worker_total"] = SumOf(PaymentsOfWorker(w), AmountOf(payment))
  BY DEF Answers, PaymentList, Earned, Paid
<1>3. {s \in SharesOfWorker(w) : s[1] \in DOMAIN project} = SharesOfWorker(w)
  BY SoundTables DEF SharesOfWorker
<1>4. /\ DOMAIN projects = SharesOfWorker(w)
      /\ \A r \in SharesOfWorker(w) : /\ projects[r].share_amount = share[r]
                                      /\ projects[r].paid_on_project = PaidOn(r[1], w)
  <2>1. projects = [r \in SharesOfWorker(w) |->
                      [share_amount |-> share[r], paid_on_project |-> PaidOn(r[1], w)]]
    BY <1>1, <1>2, <1>3
  <2> HIDE DEF projects
  <2> QED
    BY <2>1
<1> HIDE DEF A, projects, payments
<1>5. SumOf(DOMAIN projects, shares) = Shown("worker_share")
  <2>1. \A r \in DOMAIN projects : shares[r] = share[r]
    BY <1>4
  <2>2. SumOf(DOMAIN projects, shares) = SumOf(DOMAIN projects, share)
    BY <2>1, SumSameColumn
  <2> QED
    BY <1>1, <1>2, <1>4, <2>2
<1>6. PaymentsOfWorker(w) \subseteq DOMAIN payment
  BY DEF PaymentsOfWorker
<1>7. ASSUME NEW r \in DOMAIN projects
      PROVE  projects[r].paid_on_project
               = SumOf({i \in DOMAIN payments : payments[i].project = r[1]}, AmountOf(payments))
  <2>1. projects[r].paid_on_project = PaidOn(r[1], w)
    BY <1>4, <1>7
  <2>2. payments = Restrict(payment, PaymentsOfWorker(w))
    BY <1>1, <1>2
  <2> QED
    BY <2>1, <2>2, PaidInWorkerList
<1>8. ListAddsUp(payments, Shown("worker_total"))
  BY <1>1, <1>2, <1>6, ListOfRows DEF ListAddsUp
<1> QED
  BY <1>5, <1>7, <1>8 DEF SettlementAddsUp, projects, payments
-----------------------------------------------------------------------------
\* Reading changes nothing that is read.
LEMMA AnswersStay ==
    ASSUME UNCHANGED <<tables, page>>, NEW x
    PROVE  Answers(x)' = Answers(x)
BY DEF Answers, tables, PaidOn, PaymentList, PaymentsOfWorker, PaymentsOfProject, SharesOfProject,
       SharesOfWorker, Earned, Paid, Balance, ItemsOf, LaborOf, TotalOf

\* The page that is read next starts without answers, and each step adds one.
LEMMA FreshKept == PagesTypeOK /\ Fresh /\ [PagesNext]_pageVars => Fresh'
<1> SUFFICES ASSUME PagesTypeOK, Fresh, [PagesNext]_pageVars PROVE Fresh'
  OBVIOUS
<1>1. ASSUME DOMAIN results' = {} PROVE Fresh'
  BY <1>1 DEF Fresh
<1>2. DOMAIN EmptyTable = {}
  BY DEF EmptyTable
<1>3. CASE OpenPage
  BY <1>1, <1>2, <1>3 DEF OpenPage, PagesTypeOK
<1>4. CASE ReadNext
  <2>1. UNCHANGED <<tables, page, commits>>
    BY <1>4 DEF ReadNext
  <2>2. PICK q : results' = Put(results, q, Answers(q[2])[q[1]])
    BY <1>4 DEF ReadNext
  <2>3. /\ DOMAIN results' = DOMAIN results \cup {q}
        /\ \A r \in DOMAIN results' :
              results'[r] = IF r = q THEN Answers(q[2])[q[1]] ELSE results[r]
    BY <2>2 DEF Put, Upsert
  <2> SUFFICES ASSUME commits = 0, NEW r \in DOMAIN results'
               PROVE  results'[r] = Answers(r[2])'[r[1]]
    BY <2>1 DEF Fresh
  <2>4. Answers(r[2])' = Answers(r[2])
    BY <2>1, AnswersStay
  <2> QED
    BY <2>3, <2>4 DEF Fresh
<1>5. CASE ClosePage
  BY <1>1, <1>2, <1>5 DEF ClosePage
<1>6. CASE Commit
  <2>1. CASE results = EmptyTable
    BY <1>1, <1>2, <1>6, <2>1 DEF Commit
  <2>2. CASE results # EmptyTable
    BY <1>6, <2>2 DEF Commit, Fresh, PagesTypeOK
  <2> QED
    BY <2>1, <2>2
<1>7. CASE UNCHANGED pageVars
  <2>1. UNCHANGED <<tables, page, results, commits>>
    BY <1>7 DEF pageVars
  <2>2. \A x : Answers(x)' = Answers(x)
    BY <2>1, AnswersStay
  <2> QED
    BY <2>1, <2>2 DEF Fresh
<1> QED
  BY <1>3, <1>4, <1>5, <1>6, <1>7 DEF PagesNext

\* The id of a deleted project is never given to another.
LEMMA ProjectIdsStayGone ==
    ASSUME [Next]_tables
    PROVE  /\ issued \subseteq issued'
           /\ \A p \in issued \ DOMAIN project : p \notin DOMAIN project'
<1>1. ASSUME NEW form \in Forms, InsertProject(form)
      PROVE  issued \subseteq issued' /\ \A p \in issued \ DOMAIN project : p \notin DOMAIN project'
  BY <1>1 DEF InsertProject, NewId, Put, Upsert
<1>2. ASSUME NEW p \in Projects, NEW form \in Forms, UpdateProject(p, form)
      PROVE  issued' = issued /\ DOMAIN project' = DOMAIN project
  BY <1>2 DEF UpdateProject, Put, Upsert
<1>3. ASSUME NEW p \in Projects, NEW status \in Statuses, SetStatus(p, status)
      PROVE  issued' = issued /\ DOMAIN project' = DOMAIN project
  BY <1>3 DEF SetStatus, Put, Upsert
<1>4. ASSUME NEW p \in Projects, DeleteProject(p)
      PROVE  issued' = issued /\ DOMAIN project' \subseteq DOMAIN project
  BY <1>4 DEF DeleteProject, Without, Restrict
<1>5. ASSUME [Next]_tables, project' = project
      PROVE  issued \subseteq issued'
  BY <1>5 DEF Next, tables, InsertWorker, UpdateWorker, DeleteWorker, InsertProject, UpdateProject,
         SetStatus, DeleteProject, InsertPayment, UpdatePayment, DeletePayment, InsertExpense,
         DeleteExpense, InsertReceipt, DeleteReceipt, NewId
<1>6. \/ project' = project
      \/ \E form \in Forms : InsertProject(form)
      \/ \E p \in Projects, form \in Forms : UpdateProject(p, form)
      \/ \E p \in Projects, status \in Statuses : SetStatus(p, status)
      \/ \E p \in Projects : DeleteProject(p)
  BY DEF Next, tables, InsertWorker, UpdateWorker, DeleteWorker, InsertPayment, UpdatePayment,
         DeletePayment, InsertExpense, DeleteExpense, InsertReceipt, DeleteReceipt
<1> QED
  BY <1>1, <1>2, <1>3, <1>4, <1>5, <1>6

\* What a project's page knows: the first look found the project or the page redirects,
\* and a second one that finds nothing means that it was deleted in between.
LooksTwice ==
    /\ Asked("project") /\ ~NotFound("project") => page.id \in issued
    /\ Asked("project_again") => Asked("project") /\ ~NotFound("project")
    /\ BreaksOnlyOnDeletion

\* Opening, reading and closing keep the answers with their page.
LEMMA TypedPagesKept == PagesTypeOK /\ [PagesNext]_pageVars => PagesTypeOK'
<1> SUFFICES ASSUME PagesTypeOK, [PagesNext]_pageVars PROVE PagesTypeOK'
  OBVIOUS
<1>1. CASE OpenPage
  BY <1>1 DEF OpenPage, PagesTypeOK, EmptyTable
<1>2. CASE ReadNext
  <2>1. UNCHANGED <<page, commits>> /\ page # NoPage
    BY <1>2 DEF ReadNext
  <2>2. PICK n \in DOMAIN Selects[page.kind], q \in DOMAIN results' :
           q \in Unread(n) /\ results' = Put(results, q, Answers(q[2])[q[1]])
    BY <1>2 DEF ReadNext, Put, Upsert
  <2>3. DOMAIN results' = DOMAIN results \cup {q} /\ q[1] = Selects[page.kind][n]
    BY <2>2 DEF Put, Upsert, Unread
  <2>4. results' # EmptyTable
    BY <2>3 DEF EmptyTable
  <2> QED
    BY <2>1, <2>3, <2>4 DEF PagesTypeOK
<1>3. CASE ClosePage
  BY <1>3, PagesAssumption DEF ClosePage, PagesTypeOK
<1>4. CASE Commit
  BY <1>4, PagesAssumption DEF Commit, PagesTypeOK
<1>5. CASE UNCHANGED pageVars
  BY <1>5 DEF pageVars, PagesTypeOK
<1> QED
  BY <1>1, <1>2, <1>3, <1>4, <1>5 DEF PagesNext

\* Whatever commits between the two looks, the page draws the right conclusion.
LEMMA LooksTwiceKept ==
    TypeOK /\ PagesTypeOK /\ Fresh /\ LooksTwice /\ [PagesNext]_pageVars => LooksTwice'
<1> SUFFICES ASSUME TypeOK, PagesTypeOK, Fresh, LooksTwice, [PagesNext]_pageVars
             PROVE  LooksTwice'
  OBVIOUS
<1>1. ASSUME DOMAIN results' = {} \/ page' = NoPage PROVE LooksTwice'
  BY <1>1 DEF LooksTwice, BreaksOnlyOnDeletion, Broken, NotFound, Asked
<1>2. DOMAIN EmptyTable = {}
  BY DEF EmptyTable
<1>3. CASE OpenPage
  BY <1>1, <1>2, <1>3 DEF OpenPage, PagesTypeOK
<1>4. CASE ReadNext
  <2>1. UNCHANGED <<tables, page, commits>> /\ page # NoPage /\ ~Redirected /\ ~Broken
    BY <1>4 DEF ReadNext
  <2>2. PICK n \in DOMAIN Selects[page.kind], q \in DOMAIN results' :
           /\ q \in Unread(n)
           /\ \A m \in 1 .. n - 1 : Unread(m) = {}
           /\ results' = Put(results, q, Answers(q[2])[q[1]])
    BY <1>4 DEF ReadNext, Put, Upsert
  <2>3. /\ DOMAIN results' = DOMAIN results \cup {q}
        /\ results'[q] = Answers(q[2])[q[1]]
        /\ \A r \in DOMAIN results : results'[r] = results[r]
        /\ q \notin DOMAIN results /\ q[1] = Selects[page.kind][n]
        /\ q = <<q[1], q[2]>>
    BY <2>2 DEF Put, Upsert, Unread
  <2> DEFINE first == <<"project", page.id>>
             again == <<"project_again", page.id>>
             Row   == Restrict(project, {page.id} \cap DOMAIN project)
  <2>4. /\ Asked("project") = (first \in DOMAIN results)
        /\ Asked("project_again") = (again \in DOMAIN results)
        /\ first \in DOMAIN results => Shown("project") = results[first]
        /\ again \in DOMAIN results => Shown("project_again") = results[again]
    BY <2>1 DEF Asked, Shown
  <2>5. /\ Asked("project")' = (first \in DOMAIN results')
        /\ Asked("project_again")' = (again \in DOMAIN results')
        /\ first \in DOMAIN results' => Shown("project")' = results'[first]
        /\ again \in DOMAIN results' => Shown("project_again")' = results'[again]
    BY <2>1 DEF Asked, Shown
  <2>6. /\ q = first => results'[first] = Row
        /\ q = again => results'[again] = Row
        /\ first # again
    <3>1. \A x : /\ Answers(x)["project"] = Restrict(project, {x} \cap DOMAIN project)
                 /\ Answers(x)["project_again"] = Restrict(project, {x} \cap DOMAIN project)
      BY DEF Answers
    <3> QED
      BY <2>3, <3>1
  <2>7. DOMAIN Row = {page.id} \cap DOMAIN project
    BY DEF Restrict
  <2>8. DOMAIN project \subseteq issued /\ issued' = issued /\ project' = project
    BY <2>1 DEF TypeOK, IsTable, tables
  <2>9. Asked("project")' /\ ~NotFound("project")' => page'.id \in issued'
    <3>1. CASE q = first
      BY <2>1, <2>5, <2>6, <2>7, <2>8, <3>1 DEF NotFound
    <3>2. CASE q # first
      BY <2>1, <2>3, <2>4, <2>5, <2>8, <3>2 DEF NotFound, LooksTwice
    <3> QED
      BY <3>1, <3>2
  <2>10. CASE q = again
    <3>1. page.kind = "project" /\ n = 7
      BY <2>1, <2>3, <2>10, SecondLook DEF PagesTypeOK, Addresses
    <3>2. first \in DOMAIN results
      <4>1. Unread(1) = {}
        BY <2>2, <3>1
      <4> QED
        BY <3>1, <4>1, SelectNumbers DEF Unread, Subjects
    <3>3. DOMAIN results[first] # {} /\ page.id \in issued
      BY <2>1, <2>4, <3>2 DEF Redirected, NotFound, LooksTwice
    <3>4. Asked("project")' /\ ~NotFound("project")'
      BY <2>3, <2>5, <3>2, <3>3 DEF NotFound
    <3>5. ASSUME Broken' PROVE page.id \notin DOMAIN project /\ commits > 0
      <4>1. DOMAIN Row = {}
        BY <2>3, <2>5, <2>6, <2>10, <3>5 DEF Broken, NotFound
      <4>2. commits # 0
        <5>1. results[first] # Row
          BY <3>3, <4>1
        <5>2. Answers(page.id)["project"] = Row
          BY DEF Answers
        <5> QED
          BY <3>2, <5>1, <5>2 DEF Fresh
      <4> QED
        <5>1. commits \in Nat
          BY PagesAssumption DEF PagesTypeOK
        <5>2. page.id \notin DOMAIN project
          BY <2>7, <4>1
        <5> HIDE DEF Row
        <5> QED
          BY <4>2, <5>1, <5>2
    <3> QED
      BY <2>1, <2>8, <2>9, <3>3, <3>4, <3>5 DEF LooksTwice, BreaksOnlyOnDeletion
  <2>11. CASE q # again
    <3>1. Asked("project_again")' => Asked("project")' /\ ~NotFound("project")'
      BY <2>3, <2>4, <2>5, <2>11 DEF NotFound, LooksTwice
    <3>2. Broken' => Broken
      BY <2>3, <2>4, <2>5, <2>11 DEF Broken, NotFound
    <3> QED
      BY <2>1, <2>9, <3>1, <3>2 DEF LooksTwice, BreaksOnlyOnDeletion
  <2> QED
    BY <2>10, <2>11
<1>5. CASE ClosePage
  BY <1>1, <1>5 DEF ClosePage
<1>6. CASE Commit
  <2>1. [Next]_tables /\ UNCHANGED <<page, results>>
    BY <1>6 DEF Commit
  <2>2. /\ Asked("project")' = Asked("project") /\ NotFound("project")' = NotFound("project")
        /\ Asked("project_again")' = Asked("project_again") /\ Broken' = Broken
    BY <2>1 DEF Broken, NotFound, Asked, Shown
  <2>3. Broken => commits' > 0
    <3>1. Broken => results # EmptyTable
      BY <1>2 DEF Broken, NotFound, Asked
    <3> QED
      BY <1>6, <3>1 DEF Commit, PagesTypeOK
  <2> QED
    BY <2>1, <2>2, <2>3, ProjectIdsStayGone DEF LooksTwice, BreaksOnlyOnDeletion
<1>7. CASE UNCHANGED pageVars
  BY <1>7 DEF pageVars, tables, LooksTwice, BreaksOnlyOnDeletion, Broken, NotFound, Asked, Shown
<1> QED
  BY <1>3, <1>4, <1>5, <1>6, <1>7 DEF PagesNext
-----------------------------------------------------------------------------
\* Reading pages adds nothing to what may happen to the tables.
LEMMA PagesImplementDatabase == PagesSpec => Spec
<1>1. PagesInit => Init
  BY DEF PagesInit
<1>2. [PagesNext]_pageVars => [Next]_tables
  BY DEF PagesNext, OpenPage, ReadNext, ClosePage, Commit, pageVars
<1> QED
  BY <1>1, <1>2, PTL DEF PagesSpec, Spec

\* What is read belongs to the page that is being read.
THEOREM PagesTyped == PagesSpec => []PagesTypeOK
<1>1. PagesInit => PagesTypeOK
  BY PagesAssumption DEF PagesInit, PagesTypeOK
<1> QED
  BY <1>1, TypedPagesKept, PTL DEF PagesSpec

\* Without a commit in between, no answer on a page ever goes stale.
LEMMA AlwaysFresh == PagesSpec => []Fresh
<1>1. PagesInit => Fresh
  BY DEF PagesInit, Fresh, EmptyTable
<1> QED
  BY <1>1, FreshKept, PagesTyped, PTL DEF PagesSpec

(***************************************************************************)
(* A page that nobody's commit interrupted adds up, whatever is stored and *)
(* however many rows it lists: its totals are those of its lists, and the  *)
(* shop's part it shows is never negative.                                 *)
(***************************************************************************)
THEOREM UninterruptedAddUp == PagesSpec => []PagesAddUp
<1>1. Sound /\ LaborCap /\ PagesTypeOK /\ Fresh => PagesAddUp
  <2> SUFFICES ASSUME Sound, LaborCap, PagesTypeOK, Fresh, Complete, commits = 0
               PROVE  /\ page.kind = "dashboard"  => DashboardAddsUp
                      /\ page.kind = "project"    => ProjectAddsUp
                      /\ page.kind = "settlement" => SettlementAddsUp
    BY DEF PagesAddUp
  <2>1. page.kind = "dashboard" => page.id = NoProject
    BY DEF PagesTypeOK, Addresses, Complete
  <2> QED
    BY <2>1, DashboardAtOnce, ProjectAtOnce, SettlementAtOnce
<1> QED
  BY <1>1, PagesImplementDatabase, AlwaysSound, CapHolds, PagesTyped, AlwaysFresh, PTL

\* A project's page breaks off only when its project was deleted meanwhile, for good.
THEOREM BrokenMeansDeleted == PagesSpec => []BreaksOnlyOnDeletion
<1>1. PagesInit => LooksTwice
  BY DEF PagesInit, LooksTwice, BreaksOnlyOnDeletion, Broken, NotFound, Asked
<1>2. LooksTwice => BreaksOnlyOnDeletion
  BY DEF LooksTwice
<1> QED
  BY <1>1, <1>2, LooksTwiceKept, PagesImplementDatabase, TypeCorrect, PagesTyped, AlwaysFresh,
     PTL DEF PagesSpec
=============================================================================
