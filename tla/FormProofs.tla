----------------------------- MODULE FormProofs ------------------------------
(***************************************************************************)
(* The round trip of the project form, for any number of workers and any   *)
(* amounts and percents: what is saved is what was shown and typed, what   *)
(* the page does not warn of is accepted, and so is what nobody changed.   *)
(*                                                                         *)
(* The invariant has three parts.  Well: the stored project, the page and  *)
(* the history are well formed, and a stored share is the one its percent  *)
(* gives.  AsMeant: the fields of the page say what is meant, except what  *)
(* cannot be read.  AsOpened: until something is typed, the page is still  *)
(* the stored project, whose shares fit, or there is a share of zero.      *)
(***************************************************************************)
EXTENDS ProjectForm, DataTheorems

Modes == {"percent", "fixed"}

\* A stored row, a row of the page, and what is meant by one.
StoredRows == [mode : Modes, percent : 0 .. Hundred, share : Nat]
PageRows   == [checked : BOOLEAN, mode : Modes, percent : PercentTexts(0 .. Hundred),
               amount : Nat \cup {Empty}]
MeantRows  == [mode : Modes, value : Nat \cup {Empty, Bad}]

\* Amounts as a field shows them, or as they are meant.
Fields == Nat \cup {Empty}

\* A share that is stored with a percent is the one this percent gives.
Derived(p) ==
    \A w \in DOMAIN p.rows :
        p.rows[w].mode = "percent" => p.rows[w].share = worker_share(p.labor, p.rows[w].percent)

\* A project as a save leaves it.
WellStored(p) ==
    /\ p = [labor |-> p.labor, total |-> p.total, rows |-> p.rows]
    /\ p.labor \in Nat /\ p.total \in Nat /\ IsTable(p.rows, Workers, StoredRows)
    /\ Derived(p)
    /\ SharesOf(p) <= p.labor

WellShown ==
    /\ page = [labor |-> page.labor, total |-> page.total, rows |-> page.rows]
    /\ page.labor \in Fields /\ page.total \in Fields /\ IsTable(page.rows, Workers, PageRows)

WellMeant ==
    /\ meant = [labor |-> meant.labor, total |-> meant.total, entries |-> meant.entries]
    /\ meant.labor \in Fields /\ meant.total \in Fields
    /\ IsTable(meant.entries, Workers, MeantRows)

Well ==
    /\ IsStored(project) => WellStored(project)
    /\ page # Closed => WellShown
    /\ WellMeant
    /\ existing \subseteq Workers /\ active \subseteq existing
    /\ DOMAIN RowsOf(project) \subseteq existing
    /\ edits \in Nat

\* A row of the page says what is meant by it, as far as it can be read.
Says(row, entry) ==
    /\ row.mode = entry.mode
    /\ IF row.mode = "fixed"
         THEN row.amount # Empty => entry.value = row.amount
         ELSE entry.value # Bad => row.percent # Bad /\ row.percent.units = entry.value

RowSays(w) ==
    IF w \in Chosen THEN w \in DOMAIN meant.entries /\ Says(page.rows[w], meant.entries[w])
                    ELSE w \notin DOMAIN meant.entries

AsMeant ==
    page # Closed =>
        /\ page.labor # Empty => page.labor = meant.labor
        /\ page.total # Empty => page.total = meant.total
        /\ page.total = Empty => meant.total \in {0, Empty}
        /\ \A w \in Workers \ dropped : RowSays(w)
        /\ Chosen \subseteq DOMAIN meant.entries

\* What the entries that are meant come to.
MeantShares(labor) == [w \in DOMAIN meant.entries |-> row_share(labor, meant.entries[w])]

ZeroShare == \E w \in DOMAIN meant.entries : meant.entries[w] = [mode |-> "fixed", value |-> 0]

\* The page is the project as it was stored when it was opened.
Unchanged ==
    /\ \A w \in Chosen : /\ w \in DOMAIN meant.entries
                         /\ ~Unreadable(page.rows[w])
                         /\ TypedEntry(page.rows[w]) = meant.entries[w]
    /\ page.labor # Empty => TotalOf(MeantShares(page.labor)) <= page.labor
    /\ \A w \in DOMAIN meant.entries : meant.entries[w] \in Entries(0 .. Hundred, Nat)

AsOpened == page # Closed /\ edits = 0 => ZeroShare \/ Unchanged

FormInv == Well /\ AsMeant /\ AsOpened
-----------------------------------------------------------------------------
\* A percent of at most a hundred has six digits, or no decimals.
LEMMA SixDigits ==
    ASSUME NEW u \in Nat, u <= Hundred
    PROVE  u < 1000000 \/ u % PercentUnit = 0
BY SMT DEF Hundred, PercentUnit

\* It is shown as it is.
LEMMA PercentShown == ASSUME NEW u \in 0 .. Hundred PROVE format_percent(u) = u
<1>1. u \in Nat /\ u <= Hundred
  BY HundredType, SMT
<1> QED
  BY <1>1, SixDigits, SMT DEF format_percent

\* A fixed amount within the labor amount stands for a hundred percent at most.
LEMMA EquivalentFits ==
    ASSUME NEW labor \in Nat, NEW amount \in Nat, amount <= labor
    PROVE  equivalent_percent(amount, labor) \in 0 .. Hundred
<1>1. CASE labor = 0
  BY <1>1, HundredType DEF equivalent_percent
<1>2. CASE labor # 0
  <2> DEFINE n == RoundHalfEven(amount * Hundred, labor)
  <2>1. labor \in Nat \ {0} /\ Hundred \in Nat /\ amount * Hundred \in Nat
    BY <1>2, HundredType
  <2>2. n \in Nat /\ 2 * (labor * n) <= 2 * (amount * Hundred) + labor
    BY <2>1, RoundingNearest
  <2>3. amount * Hundred <= labor * Hundred
    BY HundredType
  <2> HIDE DEF n
  <2>4. n <= Hundred
    <3> SUFFICES ASSUME n >= Hundred + 1 PROVE FALSE
      BY <2>1, <2>2
    <3>1. labor * n >= labor * (Hundred + 1)
      BY <2>1, <2>2
    <3>2. labor * (Hundred + 1) = labor * Hundred + labor
      BY <2>1
    <3> QED
      BY <2>1, <2>2, <2>3, <3>1, <3>2
  <2> QED
    BY <1>2, <2>1, <2>2, <2>4 DEF equivalent_percent, n
<1> QED
  BY <1>1, <1>2

\* What is typed in the fields of the readable rows.
TypedRows == Entries(0 .. Hundred, Nat)

\* A typed row has a share, and says as much as is meant by it.
LEMMA TypedRow ==
    ASSUME NEW entry \in TypedRows
    PROVE  /\ entry \in MeantRows
           /\ \/ entry.mode = "fixed" /\ entry.value \in Nat
              \/ entry.mode = "percent" /\ entry.value \in 0 .. Hundred
           /\ entry = [mode |-> entry.mode, value |-> entry.value]
           /\ \A labor \in Nat : row_share(labor, entry) \in Nat
<1>1. \/ entry.mode = "fixed" /\ entry.value \in Nat
      \/ entry.mode = "percent" /\ entry.value \in 0 .. Hundred
  BY DEF TypedRows, Entries
<1>2. entry = [mode |-> entry.mode, value |-> entry.value]
  BY DEF TypedRows, Entries
<1>3. 0 .. Hundred \subseteq Nat
  BY HundredType
<1>4. entry \in MeantRows
  BY <1>1, <1>2, <1>3 DEF MeantRows, Modes
<1>5. ASSUME NEW labor \in Nat PROVE row_share(labor, entry) \in Nat
  BY RowShareType DEF TypedRows
<1> QED
  BY <1>1, <1>2, <1>4, <1>5

\* What is stored of typed rows whose shares fit is well formed.
LEMMA StoredIsWell ==
    ASSUME NEW labor \in Nat, NEW total \in Nat, NEW entries,
           IsTable(entries, Workers, TypedRows), IsFiniteSet(Workers),
           SharesOf(Stored(labor, total, entries)) <= labor
    PROVE  WellStored(Stored(labor, total, entries))
<1> DEFINE p == Stored(labor, total, entries)
           S == DOMAIN entries
           c == [w \in S |-> row_share(labor, entries[w])]
<1>1. /\ p = [labor |-> p.labor, total |-> p.total, rows |-> p.rows]
      /\ p.labor = labor /\ p.total = total
      /\ p.rows = [w \in S |-> StoredRow(labor, entries[w])]
  BY DEF Stored
<1>2. S \subseteq Workers /\ IsFiniteSet(S) /\ \A w \in S : entries[w] \in TypedRows
  BY FS_Subset DEF IsTable
<1>3. \A w \in S : c[w] \in Nat
  BY <1>2, TypedRow
<1>4. \A w \in S : p.rows[w].share = c[w]
  BY <1>1 DEF StoredRow
<1>5. SharesOf(p) = SumOf(S, c)
  <2>1. DOMAIN p.rows = S
    BY <1>1
  <2>2. [w \in DOMAIN p.rows |-> p.rows[w].share] = c
    BY <2>1, <1>4
  <2> QED
    BY <2>1, <2>2 DEF SharesOf
<1>6. ASSUME NEW w \in S
      PROVE  /\ p.rows[w] \in StoredRows
             /\ p.rows[w].mode = "percent" =>
                  p.rows[w].share = worker_share(labor, p.rows[w].percent)
  <2> DEFINE entry == entries[w]
  <2>1. entry \in TypedRows /\ c[w] \in Nat
    BY <1>2, <1>3
  <2>2. p.rows[w] = StoredRow(labor, entry)
    BY <1>1
  <2>3. c[w] = row_share(labor, entry)
    OBVIOUS
  <2>4. CASE entry.mode = "fixed" /\ entry.value \in Nat
    <3>1. entry.value <= labor
      <4>1. c[w] <= SumOf(S, c)
        BY <1>2, <1>3, ValueWithinSum
      <4>2. SumOf(S, c) \in Nat
        BY <1>2, <1>3, SumType
      <4>3. c[w] = entry.value
        BY <2>3, <2>4 DEF row_share
      <4> QED
        BY <1>5, <2>4, <4>1, <4>2, <4>3
    <3>2. equivalent_percent(entry.value, labor) \in 0 .. Hundred
      BY <2>4, <3>1, EquivalentFits
    <3>3. p.rows[w] = [mode |-> "fixed", percent |-> equivalent_percent(entry.value, labor),
                       share |-> entry.value]
      BY <2>2, <2>4 DEF StoredRow, row_share
    <3> QED
      BY <2>4, <3>2, <3>3 DEF StoredRows, Modes
  <2>5. CASE entry.mode = "percent" /\ entry.value \in 0 .. Hundred
    <3>1. p.rows[w] = [mode |-> "percent", percent |-> entry.value,
                       share |-> worker_share(labor, entry.value)]
      BY <2>2, <2>5 DEF StoredRow, row_share
    <3>2. worker_share(labor, entry.value) \in Nat
      BY <2>1, <2>3, <2>5 DEF row_share
    <3> QED
      BY <2>5, <3>1, <3>2 DEF StoredRows, Modes
  <2> QED
    BY <2>1, <2>4, <2>5, TypedRow
<1>7. IsTable(p.rows, Workers, StoredRows)
  BY <1>1, <1>2, <1>6 DEF IsTable
<1>8. Derived(p)
  BY <1>1, <1>6 DEF Derived
<1> QED
  BY <1>1, <1>7, <1>8 DEF WellStored

\* What is stored of a row could be typed again, and is the row then.
LEMMA TypedAgain ==
    ASSUME NEW labor \in Nat, NEW entry \in TypedRows
    PROVE  EntryOf(StoredRow(labor, entry)) = entry
<1>1. CASE entry.mode = "fixed"
  BY <1>1, TypedRow DEF EntryOf, StoredRow, row_share
<1>2. CASE entry.mode = "percent"
  BY <1>2, TypedRow DEF EntryOf, StoredRow, row_share
<1> QED
  BY <1>1, <1>2, TypedRow

\* The rows of a stored project could be typed, and come to its shares.
LEMMA StoredCouldBeTyped ==
    ASSUME NEW p, WellStored(p)
    PROVE  /\ IsTable(EntriesOf(p.rows), Workers, TypedRows)
           /\ DOMAIN EntriesOf(p.rows) = DOMAIN p.rows
           /\ \A w \in DOMAIN p.rows :
                 /\ EntriesOf(p.rows)[w] = EntryOf(p.rows[w])
                 /\ row_share(p.labor, EntryOf(p.rows[w])) = p.rows[w].share
<1>1. ASSUME NEW w \in DOMAIN p.rows
      PROVE  /\ EntryOf(p.rows[w]) \in TypedRows
             /\ row_share(p.labor, EntryOf(p.rows[w])) = p.rows[w].share
  <2>1. p.rows[w] \in StoredRows
    BY DEF WellStored, IsTable
  <2>2. CASE p.rows[w].mode = "fixed"
    BY <2>1, <2>2 DEF EntryOf, row_share, TypedRows, Entries, StoredRows
  <2>3. CASE p.rows[w].mode = "percent"
    BY <2>1, <2>3 DEF EntryOf, row_share, TypedRows, Entries, StoredRows, WellStored, Derived
  <2> QED
    BY <2>1, <2>2, <2>3 DEF StoredRows, Modes
<1> QED
  BY <1>1 DEF EntriesOf, IsTable, WellStored
-----------------------------------------------------------------------------
\* What the proofs use of the assumption on the constants.
LEMMA FormConstants ==
    /\ IsFiniteSet(Workers) /\ DefaultPercent \in 0 .. Hundred
    /\ Labors \subseteq Nat /\ Totals \subseteq Nat /\ Amounts \subseteq Nat
    /\ Percents \subseteq 0 .. Hundred
    /\ PercentTexts(Percents) \subseteq PercentTexts(0 .. Hundred)
    /\ Entries(Percents, Amounts) \subseteq TypedRows
    /\ Empty \notin Nat /\ Bad \notin Nat /\ Empty # Bad
    /\ ~IsStored(Unborn) /\ ~IsStored(Gone)
<1>1. /\ Labors \subseteq Nat /\ Totals \subseteq Nat /\ Amounts \subseteq Nat
      /\ Percents \subseteq 0 .. Hundred /\ DefaultPercent \in 0 .. Hundred
      /\ IsFiniteSet(Workers) /\ Empty \notin Nat /\ Bad \notin Nat /\ Empty # Bad
  BY FormAssumption
<1>2. PercentTexts(Percents) \subseteq PercentTexts(0 .. Hundred)
  BY <1>1 DEF PercentTexts
<1>3. Entries(Percents, Amounts) \subseteq TypedRows
  BY <1>1 DEF Entries, TypedRows
<1>4. ~IsStored(Unborn) /\ ~IsStored(Gone)
  BY DEF IsStored
<1> QED
  BY <1>1, <1>2, <1>3, <1>4

\* Digits of any script are another text than the one that is no percent.
LEMMA PercentText ==
    ASSUME NEW t \in PercentTexts(0 .. Hundred)
    PROVE  t # Bad => t.units \in 0 .. Hundred
BY DEF PercentTexts

LEMMA LatinText ==
    ASSUME NEW u \in 0 .. Hundred
    PROVE  Latin(u) \in PercentTexts(0 .. Hundred) /\ Latin(u) # Bad /\ Latin(u).units = u
<1>1. u \in Nat
  BY HundredType
<1>2. Latin(u) \in [script : {"latin", "persian"}, units : Nat]
  BY <1>1 DEF Latin
<1>3. Latin(u) # Bad
  BY <1>2, FormAssumption
<1>4. Latin(u) \in [script : {"latin", "persian"}, units : 0 .. Hundred]
  BY DEF Latin
<1> QED
  BY <1>3, <1>4 DEF Latin, PercentTexts

\* A row as the page shows it.
LEMMA SelectedRow ==
    ASSUME NEW mode \in Modes, NEW percent \in 0 .. Hundred, NEW amount \in Nat
    PROVE  LET row == Selected(mode, percent, amount) IN
             /\ row \in PageRows /\ row.checked /\ row.mode = mode
             /\ row.percent # Bad /\ row.percent.units = percent
             /\ row.amount = ShownAmount(amount)
             /\ row.amount # Empty => row.amount = amount
             /\ row.amount = Empty => amount = 0
<1> DEFINE row == Selected(mode, percent, amount)
<1>1. row = [checked |-> TRUE, mode |-> mode, percent |-> Latin(percent),
             amount |-> ShownAmount(amount)]
  BY PercentShown DEF Selected
<1>2. Latin(percent) \in PercentTexts(0 .. Hundred) /\ Latin(percent) # Bad
      /\ Latin(percent).units = percent
  BY LatinText
<1>3. /\ ShownAmount(amount) \in Nat \cup {Empty}
      /\ ShownAmount(amount) # Empty => ShownAmount(amount) = amount
      /\ ShownAmount(amount) = Empty => amount = 0
  BY FormConstants DEF ShownAmount
<1> QED
  BY <1>1, <1>2, <1>3 DEF PageRows

LEMMA UnselectedRow == Unselected \in PageRows /\ ~Unselected.checked
<1>1. Latin(format_percent(DefaultPercent)) \in PercentTexts(0 .. Hundred)
  BY FormConstants, PercentShown, LatinText
<1> QED
  BY <1>1 DEF Unselected, PageRows, Modes

\* What a row of the page is read as.
LEMMA TypedEntryType ==
    ASSUME NEW row \in PageRows
    PROVE  /\ TypedEntry(row) \in MeantRows
           /\ ~Unreadable(row) => TypedEntry(row) \in TypedRows
           /\ Says(row, TypedEntry(row))
<1>1. row.percent # Bad => row.percent.units \in 0 .. Hundred
  BY PercentText DEF PageRows
<1>2. row.mode \in Modes /\ row.amount \in Nat \cup {Empty}
  BY DEF PageRows
<1>3. CASE row.mode = "fixed"
  <2>1. TypedEntry(row) = [mode |-> "fixed", value |-> row.amount]
    BY <1>3 DEF TypedEntry
  <2> QED
    BY <1>2, <1>3, <2>1 DEF MeantRows, Modes, TypedRows, Entries, Unreadable, Says
<1>4. CASE row.mode = "percent"
  <2>1. TypedEntry(row) = [mode |-> "percent",
                           value |-> IF row.percent = Bad THEN Bad ELSE row.percent.units]
    BY <1>4 DEF TypedEntry
  <2>2. row.percent # Bad => row.percent.units \in Nat
    BY <1>1, HundredType
  <2>3. TypedEntry(row) \in MeantRows
    BY <2>1, <2>2 DEF MeantRows, Modes
  <2>4. ~Unreadable(row) => TypedEntry(row) \in TypedRows
    BY <1>1, <1>4, <2>1 DEF TypedRows, Entries, Unreadable
  <2>5. Says(row, TypedEntry(row))
    BY <1>4, <2>1 DEF Says
  <2> QED
    BY <2>3, <2>4, <2>5
<1> QED
  BY <1>2, <1>3, <1>4 DEF Modes

\* The rows of a project that is not stored are none.
LEMMA RowsOfProject ==
    ASSUME IsStored(project) => WellStored(project)
    PROVE  LET rows == RowsOf(project) IN
             /\ IsTable(rows, Workers, StoredRows)
             /\ IsTable(EntriesOf(rows), Workers, TypedRows)
             /\ DOMAIN EntriesOf(rows) = DOMAIN rows
             /\ \A w \in DOMAIN rows : EntriesOf(rows)[w] = EntryOf(rows[w])
<1>1. CASE IsStored(project)
  BY <1>1, StoredCouldBeTyped DEF RowsOf, WellStored
<1>2. CASE ~IsStored(project)
  <2>1. RowsOf(project) = EmptyTable
    BY <1>2 DEF RowsOf
  <2>2. DOMAIN EmptyTable = {} /\ IsTable(EmptyTable, Workers, StoredRows)
    BY EmptyIsTable
  <2> QED
    BY <2>1, <2>2 DEF EntriesOf, IsTable
<1> QED
  BY <1>1, <1>2

\* A typed table is also one of what may be meant.
LEMMA TypedIsMeant ==
    ASSUME NEW t, IsTable(t, Workers, TypedRows)
    PROVE  IsTable(t, Workers, MeantRows)
<1>1. TypedRows \subseteq MeantRows
  BY TypedRow
<1> QED
  BY <1>1 DEF IsTable
-----------------------------------------------------------------------------
\* The invariant holds of the stored project and no page.
LEMMA FormBegins == FormInit => FormInv
<1> SUFFICES ASSUME FormInit PROVE FormInv
  OBVIOUS
<1> USE DEF FormInit
<1>1. IsStored(project) => WellStored(project)
  <2> SUFFICES ASSUME project \in Storable PROVE WellStored(project)
    BY DEF IsStored
  <2>1. PICK labor \in Labors, total \in Totals,
             entries \in UNION {[S -> Entries(Percents, Amounts)] : S \in SUBSET Workers} :
               project = Stored(labor, total, entries)
    BY DEF Storable
  <2>2. SharesOf(project) <= project.labor /\ project.labor = labor
    BY <2>1 DEF Storable, Stored
  <2>3. IsTable(entries, Workers, TypedRows)
    BY FormConstants DEF IsTable
  <2> QED
    BY <2>1, <2>2, <2>3, FormConstants, StoredIsWell
<1>2. WellMeant
  BY EmptyIsTable DEF WellMeant, NothingMeant, Fields
<1>3. DOMAIN RowsOf(project) \subseteq existing
  BY <1>1, RowsOfProject DEF IsTable
<1>4. Well
  BY <1>1, <1>2, <1>3 DEF Well
<1> QED
  BY <1>4 DEF FormInv, AsMeant, AsOpened

\* A page just opened says what is stored, and its shares fit.
LEMMA OpenPageKeeps == FormInv /\ OpenPage => FormInv'
<1> SUFFICES ASSUME FormInv, OpenPage PROVE FormInv'
  OBVIOUS
<1> DEFINE rows  == RowsOf(project)
           shown == active \cup DOMAIN rows
<1>1. /\ IsStored(project) => WellStored(project)
      /\ active \subseteq existing /\ existing \subseteq Workers
  BY DEF FormInv, Well
<1>2. /\ IsTable(rows, Workers, StoredRows)
      /\ IsTable(EntriesOf(rows), Workers, TypedRows)
      /\ DOMAIN EntriesOf(rows) = DOMAIN rows
      /\ \A w \in DOMAIN rows : EntriesOf(rows)[w] = EntryOf(rows[w])
  BY <1>1, RowsOfProject
<1>3. /\ page' = [labor |-> page'.labor, total |-> page'.total, rows |-> page'.rows]
      /\ page'.labor = IF IsStored(project) THEN ShownAmount(project.labor) ELSE Empty
      /\ page'.total = IF IsStored(project) THEN ShownAmount(project.total) ELSE Empty
      /\ page'.rows = ShownRows(shown, rows)
  BY DEF OpenPage
<1>4. /\ meant' = [labor |-> meant'.labor, total |-> meant'.total, entries |-> meant'.entries]
      /\ meant'.labor = IF IsStored(project) THEN project.labor ELSE Empty
      /\ meant'.total = IF IsStored(project) THEN project.total ELSE Empty
      /\ meant'.entries = EntriesOf(rows)
  BY DEF OpenPage
<1>5. /\ UNCHANGED <<project, existing, active>> /\ edits' = 0 /\ dropped' = {}
  BY DEF OpenPage
<1> DEFINE Of(w) == Selected(rows[w].mode, rows[w].percent, rows[w].share)
<1>6. /\ DOMAIN page'.rows = shown
      /\ \A w \in shown : page'.rows[w] = IF w \in DOMAIN rows THEN Of(w) ELSE Unselected
  BY <1>3 DEF ShownRows
<1>7. page'.rows = [w \in DOMAIN page'.rows |-> page'.rows[w]]
  BY <1>3 DEF ShownRows
<1>8. ASSUME NEW w \in DOMAIN rows
      PROVE  /\ rows[w].mode \in Modes /\ rows[w].percent \in 0 .. Hundred /\ rows[w].share \in Nat
             /\ Of(w) \in PageRows /\ Of(w).checked /\ Of(w).mode = rows[w].mode
             /\ Of(w).percent # Bad /\ Of(w).percent.units = rows[w].percent
             /\ Of(w).amount = ShownAmount(rows[w].share)
             /\ Of(w).amount # Empty => Of(w).amount = rows[w].share
             /\ Of(w).amount = Empty => rows[w].share = 0
  <2>1. rows[w].mode \in Modes /\ rows[w].percent \in 0 .. Hundred /\ rows[w].share \in Nat
    BY <1>2 DEF IsTable, StoredRows
  <2> QED
    BY <2>1, SelectedRow
<1> HIDE DEF Of
<1>9. Chosen' = DOMAIN rows
  BY <1>6, <1>8, UnselectedRow DEF Chosen
<1>10. IsTable(page'.rows, Workers, PageRows)
  <2>1. \A w \in DOMAIN page'.rows : page'.rows[w] \in PageRows
    BY <1>6, <1>8, UnselectedRow
  <2>2. DOMAIN page'.rows \subseteq Workers
    BY <1>1, <1>2, <1>6 DEF IsTable
  <2> QED
    BY <1>7, <2>1, <2>2 DEF IsTable
<1>11. /\ page'.labor \in Fields /\ page'.total \in Fields
       /\ meant'.labor \in Fields /\ meant'.total \in Fields
       /\ page'.labor # Empty => IsStored(project) /\ page'.labor = project.labor
       /\ page'.labor # Empty => page'.labor = meant'.labor
       /\ page'.total # Empty => page'.total = meant'.total
       /\ page'.total = Empty => meant'.total \in {0, Empty}
  BY <1>1, <1>3, <1>4, FormConstants DEF WellStored, Fields, ShownAmount
<1>12. Well'
  <2>1. WellShown'
    BY <1>3, <1>10, <1>11 DEF WellShown
  <2>2. WellMeant'
    BY <1>2, <1>4, <1>11, TypedIsMeant DEF WellMeant
  <2> QED
    BY <1>1, <1>5, <2>1, <2>2 DEF FormInv, Well, WellStored, RowsOf, IsStored, Derived, SharesOf
<1>13. AsMeant'
  <2>1. ASSUME NEW w \in Workers PROVE RowSays(w)'
    <3>1. CASE w \in DOMAIN rows
      <4>1. page'.rows[w] = Of(w) /\ meant'.entries[w] = EntryOf(rows[w])
        BY <1>2, <1>4, <1>6, <3>1
      <4>2. Says(Of(w), EntryOf(rows[w]))
        BY <1>8, <3>1 DEF Says, EntryOf
      <4> QED
        BY <1>2, <1>4, <1>9, <3>1, <4>1, <4>2 DEF RowSays
    <3>2. CASE w \notin DOMAIN rows
      BY <1>2, <1>4, <1>9, <3>2 DEF RowSays
    <3> QED
      BY <3>1, <3>2
  <2>2. (Chosen \subseteq DOMAIN meant.entries)'
    BY <1>2, <1>4, <1>9
  <2> QED
    BY <1>11, <2>1, <2>2 DEF AsMeant
<1>14. AsOpened'
  <2> SUFFICES ASSUME ~ZeroShare' PROVE Unchanged'
    BY DEF AsOpened
  <2>1. ASSUME NEW w \in DOMAIN rows
        PROVE  /\ w \in DOMAIN meant'.entries
               /\ ~Unreadable(page'.rows[w])
               /\ TypedEntry(page'.rows[w]) = meant'.entries[w]
    <3>1. page'.rows[w] = Of(w) /\ meant'.entries[w] = EntryOf(rows[w])
      BY <1>2, <1>4, <1>6
    <3>2. w \in DOMAIN meant'.entries
      BY <1>2, <1>4
    <3>3. rows[w].mode = "fixed" => rows[w].share # 0
      BY <3>1, <3>2 DEF ZeroShare, EntryOf
    <3> QED
      BY <1>8, <3>1, <3>2, <3>3 DEF Unreadable, TypedEntry, EntryOf
  <2>2. ASSUME page'.labor # Empty PROVE TotalOf(MeantShares(page.labor)') <= page'.labor
    <3>1. /\ IsStored(project) /\ page'.labor = project.labor
          /\ WellStored(project) /\ rows = project.rows
      BY <1>1, <1>11, <2>2 DEF RowsOf
    <3>2. \A w \in DOMAIN rows : row_share(project.labor, meant'.entries[w]) = project.rows[w].share
      BY <1>2, <1>4, <3>1, StoredCouldBeTyped
    <3>3. MeantShares(page.labor)' = [w \in DOMAIN rows |-> project.rows[w].share]
      BY <1>2, <1>4, <3>1, <3>2 DEF MeantShares
    <3>4. TotalOf(MeantShares(page.labor)') = SharesOf(project)
      BY <3>1, <3>3 DEF TotalOf, SharesOf
    <3> QED
      BY <3>1, <3>4 DEF WellStored
  <2>3. \A w \in DOMAIN meant'.entries : meant'.entries[w] \in TypedRows
    BY <1>2, <1>4 DEF IsTable
  <2> QED
    BY <1>9, <2>1, <2>2, <2>3 DEF Unchanged, TypedRows
<1> QED
  BY <1>12, <1>13, <1>14 DEF FormInv

\* An amount typed is the amount meant.
LEMMA TypeAmountKeeps ==
    ASSUME FormInv, page # Closed, NEW a \in Nat \cup {Empty}, TypeLabor(a) \/ TypeTotal(a),
           UNCHANGED <<project, existing, active, dropped>>, edits' = edits + 1
    PROVE  FormInv'
<1>1. /\ page = [labor |-> page.labor, total |-> page.total, rows |-> page.rows]
      /\ page.labor \in Fields /\ page.total \in Fields
      /\ IsTable(page.rows, Workers, PageRows)
  BY DEF FormInv, Well, WellShown
<1>2. /\ meant = [labor |-> meant.labor, total |-> meant.total, entries |-> meant.entries]
      /\ meant.labor \in Fields /\ meant.total \in Fields
      /\ IsTable(meant.entries, Workers, MeantRows)
  BY DEF FormInv, Well, WellMeant
<1>3. /\ page.labor # Empty => page.labor = meant.labor
      /\ page.total # Empty => page.total = meant.total
      /\ page.total = Empty => meant.total \in {0, Empty}
      /\ \A w \in Workers \ dropped : RowSays(w)
  BY DEF FormInv, AsMeant
<1>4. /\ page' = [labor |-> page'.labor, total |-> page'.total, rows |-> page.rows]
      /\ page'.rows = page.rows
      /\ meant' = [labor |-> meant'.labor, total |-> meant'.total, entries |-> meant.entries]
      /\ meant'.entries = meant.entries
      /\ \/ /\ page'.labor = a /\ meant'.labor = a
            /\ page'.total = page.total /\ meant'.total = meant.total
         \/ /\ page'.total = a /\ meant'.total = a
            /\ page'.labor = page.labor /\ meant'.labor = meant.labor
  BY <1>1, <1>2 DEF TypeLabor, TypeTotal
<1>5. edits' \in Nat /\ edits' # 0
  BY DEF FormInv, Well
<1>6. Well'
  <2>1. WellShown'
    BY <1>1, <1>4 DEF WellShown, Fields
  <2>2. WellMeant'
    BY <1>2, <1>4 DEF WellMeant, Fields
  <2> QED
    BY <1>5, <2>1, <2>2 DEF FormInv, Well, WellStored, RowsOf, IsStored, Derived, SharesOf
<1>7. ASSUME NEW w \in Workers \ dropped PROVE RowSays(w)'
  BY <1>3, <1>4 DEF RowSays, Chosen, Says
<1>8. AsMeant'
  <2>1. (Chosen \subseteq DOMAIN meant.entries)'
    BY <1>4 DEF FormInv, AsMeant, Chosen
  <2> QED
    BY <1>3, <1>4, <1>7, <2>1 DEF AsMeant
<1> QED
  BY <1>5, <1>6, <1>8 DEF FormInv, AsOpened

\* A row filled in says what is meant by it.
LEMMA FillRowKeeps ==
    ASSUME FormInv, page # Closed, NEW w \in DOMAIN page.rows, FillRow(w),
           UNCHANGED <<project, existing, active>>, edits' = edits + 1
    PROVE  FormInv'
<1>1. /\ page = [labor |-> page.labor, total |-> page.total, rows |-> page.rows]
      /\ page.labor \in Fields /\ page.total \in Fields
      /\ IsTable(page.rows, Workers, PageRows)
  BY DEF FormInv, Well, WellShown
<1>2. /\ meant = [labor |-> meant.labor, total |-> meant.total, entries |-> meant.entries]
      /\ meant.labor \in Fields /\ meant.total \in Fields
      /\ IsTable(meant.entries, Workers, MeantRows)
  BY DEF FormInv, Well, WellMeant
<1>3. /\ page.labor # Empty => page.labor = meant.labor
      /\ page.total # Empty => page.total = meant.total
      /\ page.total = Empty => meant.total \in {0, Empty}
      /\ \A v \in Workers \ dropped : RowSays(v)
  BY DEF FormInv, AsMeant
<1>4. edits' \in Nat /\ edits' # 0
  BY DEF FormInv, Well
<1>5. page.rows[w] \in PageRows /\ w \in Workers
  BY <1>1, SMTT(60) DEF IsTable
<1>6. PICK row :
        /\ \/ \E c \in BOOLEAN : row = [page.rows[w] EXCEPT !.checked = c]
           \/ \E t \in PercentTexts(Percents) :
                row = [page.rows[w] EXCEPT !.checked = TRUE, !.mode = "percent", !.percent = t]
           \/ \E a \in Amounts \cup {page.rows[w].amount} :
                row = [page.rows[w] EXCEPT !.checked = TRUE, !.mode = "fixed", !.amount = a]
        /\ page' = [page EXCEPT !.rows[w] = row]
        /\ meant' = [meant EXCEPT
                       !.entries = IF row.checked THEN Put(@, w, TypedEntry(row))
                                                  ELSE Without(@, {w})]
        /\ dropped' = dropped \ {w}
  BY ZenonT(60) DEF FillRow
<1>7. row \in PageRows
  <2>1. CASE \E c \in BOOLEAN : row = [page.rows[w] EXCEPT !.checked = c]
    BY <1>5, <2>1 DEF PageRows
  <2>2. CASE \E t \in PercentTexts(Percents) :
               row = [page.rows[w] EXCEPT !.checked = TRUE, !.mode = "percent", !.percent = t]
    BY <1>5, <2>2, FormConstants DEF PageRows, Modes
  <2>3. CASE \E a \in Amounts \cup {page.rows[w].amount} :
               row = [page.rows[w] EXCEPT !.checked = TRUE, !.mode = "fixed", !.amount = a]
    BY <1>5, <2>3, FormConstants DEF PageRows, Modes
  <2> QED
    BY <1>6, <2>1, <2>2, <2>3
<1> DEFINE entry == TypedEntry(row)
<1>8. entry \in MeantRows /\ Says(row, entry) /\ row.checked \in BOOLEAN
  BY <1>7, TypedEntryType DEF PageRows
<1>9. /\ page' = [labor |-> page.labor, total |-> page.total,
                  rows |-> [page.rows EXCEPT ![w] = row]]
      /\ meant' = [labor |-> meant.labor, total |-> meant.total,
                   entries |-> IF row.checked THEN Put(meant.entries, w, entry)
                                              ELSE Without(meant.entries, {w})]
  BY <1>1, <1>2, <1>6
<1> HIDE DEF entry
<1>10. /\ DOMAIN page'.rows = DOMAIN page.rows /\ page'.rows[w] = row
       /\ \A v \in DOMAIN page.rows \ {w} : page'.rows[v] = page.rows[v]
       /\ IsTable(page'.rows, Workers, PageRows)
  BY <1>1, <1>7, <1>9 DEF IsTable
<1>11. /\ IsTable(meant'.entries, Workers, MeantRows)
       /\ \A v \in Workers \ {w} : /\ v \in DOMAIN meant'.entries <=> v \in DOMAIN meant.entries
                                   /\ v \in DOMAIN meant.entries =>
                                         meant'.entries[v] = meant.entries[v]
       /\ IF row.checked THEN w \in DOMAIN meant'.entries /\ meant'.entries[w] = entry
                         ELSE w \notin DOMAIN meant'.entries
  <2>1. CASE row.checked
    <3>1. meant'.entries = Put(meant.entries, w, entry)
      BY <1>9, <2>1
    <3>2. LET put == Put(meant.entries, w, entry) IN
            /\ IsTable(put, Workers, MeantRows)
            /\ DOMAIN put = DOMAIN meant.entries \cup {w}
            /\ put[w] = entry
            /\ \A k \in DOMAIN meant.entries \ {w} : put[k] = meant.entries[k]
      BY <1>2, <1>5, <1>8 DEF IsTable, Put, Upsert
    <3> QED
      BY <2>1, <3>1, <3>2
  <2>2. CASE ~row.checked
    <3>1. meant'.entries = Without(meant.entries, {w})
      BY <1>9, <2>2
    <3>2. /\ IsTable(Without(meant.entries, {w}), Workers, MeantRows)
          /\ DOMAIN Without(meant.entries, {w}) = DOMAIN meant.entries \ {w}
          /\ \A k \in DOMAIN meant.entries \ {w} :
                Without(meant.entries, {w})[k] = meant.entries[k]
      BY <1>2, WithoutTable
    <3> QED
      BY <2>2, <3>1, <3>2
  <2> QED
    BY <2>1, <2>2
<1>12. Well'
  <2>1. WellShown'
    BY <1>1, <1>9, <1>10 DEF WellShown
  <2>2. WellMeant'
    BY <1>2, <1>9, <1>11 DEF WellMeant
  <2> QED
    BY <1>4, <2>1, <2>2 DEF FormInv, Well, WellStored, RowsOf, IsStored, Derived, SharesOf
<1>13. ASSUME NEW v \in Workers \ (dropped \ {w}) PROVE RowSays(v)'
  <2>1. CASE v = w
    BY <1>8, <1>10, <1>11, <2>1 DEF RowSays, Chosen
  <2>2. CASE v # w
    <3>1. RowSays(v)
      BY <1>3, <2>2
    <3>2. v \in Chosen' <=> v \in Chosen
      BY <1>10, <2>2 DEF Chosen
    <3> QED
      BY <1>10, <1>11, <2>2, <3>1, <3>2 DEF RowSays, Chosen
  <2> QED
    BY <2>1, <2>2
<1>14. /\ page'.labor = page.labor /\ page'.total = page.total
       /\ meant'.labor = meant.labor /\ meant'.total = meant.total
  BY <1>9, SMTT(60)
<1>15. AsMeant'
  <2>1. ASSUME NEW v \in Chosen' PROVE v \in DOMAIN meant'.entries
    <3>1. CASE v = w
      BY <1>10, <1>11, <2>1, <3>1 DEF Chosen
    <3>2. CASE v # w
      <4>1. v \in DOMAIN page.rows /\ page.rows[v].checked /\ v \in Workers
        BY <1>1, <1>10, <2>1, <3>2 DEF Chosen, IsTable
      <4>2. v \in DOMAIN meant.entries
        BY <4>1 DEF FormInv, AsMeant, Chosen
      <4> QED
        BY <1>11, <3>2, <4>1, <4>2
    <3> QED
      BY <3>1, <3>2
  <2> QED
    BY <1>3, <1>6, <1>13, <1>14, <2>1 DEF AsMeant
<1> QED
  BY <1>4, <1>12, <1>15 DEF FormInv, AsOpened

LEMMA FillKeeps == FormInv /\ Fill => FormInv'
<1> SUFFICES ASSUME FormInv, Fill PROVE FormInv'
  OBVIOUS
<1>1. page # Closed /\ edits' = edits + 1 /\ UNCHANGED <<project, existing, active>>
  BY DEF Fill
<1>2. CASE \E a \in Labors \cup {Empty} : TypeLabor(a) /\ UNCHANGED dropped
  BY <1>1, <1>2, FormConstants, TypeAmountKeeps
<1>3. CASE \E a \in Totals \cup {Empty} : TypeTotal(a) /\ UNCHANGED dropped
  BY <1>1, <1>3, FormConstants, TypeAmountKeeps
<1>4. CASE \E w \in DOMAIN page.rows : FillRow(w)
  BY <1>1, <1>4, FillRowKeeps
<1> QED
  BY <1>2, <1>3, <1>4 DEF Fill
-----------------------------------------------------------------------------
\* A page that is accepted can be stored: its rows are readable and its shares fit.
LEMMA AcceptedIsWell ==
    ASSUME Well, page # Closed, page.labor # Empty, ~Refused, NEW total \in Nat
    PROVE  /\ page.labor \in Nat
           /\ IsTable(ChosenEntries, Workers, TypedRows) /\ DOMAIN ChosenEntries = Chosen
           /\ \A w \in Chosen : ChosenEntries[w] = TypedEntry(page.rows[w])
           /\ WellStored(Stored(page.labor, total, ChosenEntries))
<1>1. IsTable(page.rows, Workers, PageRows) /\ page.labor \in Nat
  BY DEF Well, WellShown, Fields
<1>2. /\ \A w \in Chosen : ~Unreadable(page.rows[w])
      /\ ~(TotalOf(ReadableShares) > page.labor)
  BY DEF Refused
<1>3. /\ Chosen \subseteq Workers /\ Chosen \subseteq DOMAIN page.rows
      /\ \A w \in Chosen : page.rows[w] \in PageRows
  BY <1>1 DEF Chosen, IsTable
<1>4. /\ DOMAIN ChosenEntries = Chosen
      /\ \A w \in Chosen : ChosenEntries[w] = TypedEntry(page.rows[w])
      /\ ChosenEntries = [w \in DOMAIN ChosenEntries |-> ChosenEntries[w]]
  BY DEF ChosenEntries
<1>5. \A w \in Chosen : ChosenEntries[w] \in TypedRows
  BY <1>2, <1>3, <1>4, TypedEntryType
<1>6. IsTable(ChosenEntries, Workers, TypedRows)
  BY <1>3, <1>4, <1>5 DEF IsTable
<1> DEFINE p == Stored(page.labor, total, ChosenEntries)
           c == [w \in Chosen |-> row_share(page.labor, ChosenEntries[w])]
<1>7. SharesOf(p) = SumOf(Chosen, c)
  <2>1. p.rows = [w \in Chosen |-> StoredRow(page.labor, ChosenEntries[w])]
    BY <1>4 DEF Stored
  <2>2. DOMAIN p.rows = Chosen /\ \A w \in Chosen : p.rows[w].share = c[w]
    BY <2>1 DEF StoredRow
  <2>3. [w \in DOMAIN p.rows |-> p.rows[w].share] = c
    BY <2>2
  <2> QED
    BY <2>2, <2>3 DEF SharesOf
<1>8. TotalOf(ReadableShares) = SumOf(Chosen, c)
  <2>1. ReadableShares = c
    BY <1>2 DEF ReadableShares
  <2>2. DOMAIN c = Chosen
    OBVIOUS
  <2> QED
    BY <2>1, <2>2 DEF TotalOf
<1>9. SumOf(Chosen, c) \in Nat
  <2>1. \A w \in Chosen : c[w] \in Nat
    BY <1>1, <1>5, TypedRow
  <2>2. IsFiniteSet(Chosen)
    BY <1>3, FormConstants, FS_Subset
  <2> QED
    BY <2>1, <2>2, SumType
<1>10. SharesOf(p) <= page.labor
  BY <1>1, <1>2, <1>7, <1>8, <1>9
<1>11. WellStored(p)
  BY <1>1, <1>6, <1>10, FormConstants, StoredIsWell
<1> QED
  BY <1>1, <1>4, <1>6, <1>11

\* Without a page there is nothing that could be said wrongly.
LEMMA LeavingKeeps ==
    ASSUME FormInv, NEW how, Answer(how),
           (IsStored(project) => WellStored(project))', UNCHANGED <<existing, active>>,
           DOMAIN RowsOf(project') \subseteq existing
    PROVE  FormInv'
<1>1. /\ page' = Closed /\ edits' = 0 /\ meant' = NothingMeant
  BY DEF Answer
<1>2. WellMeant'
  BY <1>1, EmptyIsTable DEF WellMeant, NothingMeant, Fields
<1>3. existing \subseteq Workers /\ active \subseteq existing
  BY DEF FormInv, Well
<1>4. Well'
  BY <1>1, <1>2, <1>3, SMTT(60) DEF Well
<1> QED
  BY <1>1, <1>4 DEF FormInv, AsMeant, AsOpened

LEMMA SaveKeeps ==
    ASSUME FormInv, page # Closed, page.labor # Empty, ~Refused, Chosen \subseteq existing, Save,
           UNCHANGED <<existing, active>>
    PROVE  FormInv'
<1>1. PICK total : /\ total = (IF page.total = Empty THEN page.labor ELSE page.total)
                   /\ project' = Stored(page.labor, total, ChosenEntries)
                   /\ Answer("saved")
  BY DEF Save
<1>2. total \in Nat
  BY <1>1 DEF FormInv, Well, WellShown, Fields
<1>3. WellStored(project') /\ DOMAIN ChosenEntries = Chosen
  BY <1>1, <1>2, AcceptedIsWell DEF FormInv
<1>4. DOMAIN RowsOf(project') \subseteq existing
  BY <1>1, <1>3 DEF RowsOf, Stored, EmptyTable
<1> QED
  BY <1>1, <1>3, <1>4, LeavingKeeps DEF WellStored, Derived, SharesOf

\* What is not edited is not refused, unless a share of zero cannot be read.
LEMMA UnchangedIsAccepted ==
    ASSUME Well, page # Closed, page.labor # Empty, Unchanged
    PROVE  ~Refused
<1>1. IsTable(page.rows, Workers, PageRows) /\ page.labor \in Nat
  BY DEF Well, WellShown, Fields
<1>2. IsTable(meant.entries, Workers, MeantRows)
  BY DEF Well, WellMeant
<1> DEFINE D == DOMAIN meant.entries
           c == MeantShares(page.labor)
<1>3. /\ \A w \in Chosen : /\ w \in D /\ ~Unreadable(page.rows[w])
                           /\ TypedEntry(page.rows[w]) = meant.entries[w]
      /\ TotalOf(c) <= page.labor
      /\ \A w \in D : meant.entries[w] \in TypedRows
  BY DEF Unchanged, TypedRows
<1>4. DOMAIN c = D /\ \A w \in D : c[w] = row_share(page.labor, meant.entries[w])
  BY DEF MeantShares
<1>5. \A w \in D : c[w] \in Nat
  BY <1>1, <1>3, <1>4, TypedRow
<1>6. IsFiniteSet(D)
  BY <1>2, FormConstants, FS_Subset DEF IsTable
<1>7. /\ DOMAIN ReadableShares = Chosen
      /\ \A w \in Chosen : ReadableShares[w] = c[w]
  BY <1>3, <1>4 DEF ReadableShares, ChosenEntries
<1> HIDE DEF c
<1>8. TotalOf(ReadableShares) <= TotalOf(c)
  <2>1. TotalOf(ReadableShares) = SumOf(Chosen, ReadableShares) /\ TotalOf(c) = SumOf(D, c)
    BY <1>4, <1>7 DEF TotalOf
  <2>2. SumOf(Chosen, ReadableShares) = SumOf(Chosen, c)
    BY <1>7, SumSameColumn
  <2>3. Chosen \in SUBSET D
    BY <1>3
  <2>4. SumOf(Chosen, c) <= SumOf(D, c)
    BY <1>5, <1>6, <2>3, SumOfFewer
  <2> QED
    BY <2>1, <2>2, <2>4
<1>9. TotalOf(ReadableShares) \in Nat /\ TotalOf(c) \in Nat
  <2>1. IsFiniteSet(Chosen) /\ \A w \in Chosen : ReadableShares[w] \in Nat
    BY <1>3, <1>5, <1>6, <1>7, FS_Subset
  <2> QED
    BY <1>4, <1>5, <1>6, <1>7, <2>1, SumType DEF TotalOf
<1>10. ~(TotalOf(ReadableShares) > page.labor)
  BY <1>1, <1>3, <1>8, <1>9
<1> QED
  BY <1>3, <1>10 DEF Refused

\* The page drawn again after a refusal says what it said, of the workers it still has.
LEMMA RedrawKeeps ==
    ASSUME FormInv, page # Closed, page.labor # Empty, Refused, Redraw,
           UNCHANGED <<project, existing, active, edits, meant>>
    PROVE  FormInv'
<1>1. /\ page = [labor |-> page.labor, total |-> page.total, rows |-> page.rows]
      /\ page.labor \in Fields /\ page.total \in Fields
      /\ IsTable(page.rows, Workers, PageRows)
  BY DEF FormInv, Well, WellShown
<1>2. /\ page.labor # Empty => page.labor = meant.labor
      /\ page.total # Empty => page.total = meant.total
      /\ page.total = Empty => meant.total \in {0, Empty}
      /\ \A v \in Workers \ dropped : RowSays(v)
  BY DEF FormInv, AsMeant
<1> DEFINE row(w)     == page.rows[w]
           percent(w) == IF row(w).percent = Bad THEN 0 ELSE row(w).percent.units
           amount(w)  == IF row(w).amount = Empty THEN 0 ELSE row(w).amount
           new(w)     == Selected(row(w).mode, percent(w), amount(w))
<1>3. /\ page' = [labor |-> page.labor, total |-> page.total, rows |-> page'.rows]
      /\ page'.rows = [w \in active |-> IF w \in Chosen THEN new(w) ELSE Unselected]
      /\ dropped' = dropped \cup (Chosen \ active)
  BY <1>1 DEF Redraw
<1>4. /\ DOMAIN page'.rows = active
      /\ \A w \in active : page'.rows[w] = IF w \in Chosen THEN new(w) ELSE Unselected
      /\ page'.rows = [w \in DOMAIN page'.rows |-> page'.rows[w]]
      /\ page'.labor = page.labor /\ page'.total = page.total
  BY <1>3
<1>5. ASSUME NEW w \in Chosen
      PROVE  /\ row(w) \in PageRows
             /\ new(w) \in PageRows /\ new(w).checked /\ new(w).mode = row(w).mode
             /\ new(w).percent # Bad
             /\ row(w).percent # Bad => new(w).percent.units = row(w).percent.units
             /\ new(w).amount # Empty => row(w).amount = new(w).amount
  <2>1. row(w) \in PageRows
    BY <1>1 DEF Chosen, IsTable
  <2>2. row(w).mode \in Modes /\ row(w).amount \in Nat \cup {Empty}
    BY <2>1 DEF PageRows
  <2>3. percent(w) \in 0 .. Hundred
    <3>1. row(w).percent # Bad => row(w).percent.units \in 0 .. Hundred
      BY <2>1, PercentText DEF PageRows
    <3>2. 0 \in 0 .. Hundred
      BY HundredType
    <3> QED
      BY <3>1, <3>2
  <2>4. amount(w) \in Nat
    BY <2>2
  <2> HIDE DEF row
  <2>5. /\ new(w) \in PageRows /\ new(w).checked /\ new(w).mode = row(w).mode
        /\ new(w).percent # Bad /\ new(w).percent.units = percent(w)
        /\ new(w).amount # Empty => new(w).amount = amount(w)
        /\ new(w).amount = ShownAmount(amount(w))
    <3> HIDE DEF percent, amount
    <3> QED
      BY <2>2, <2>3, <2>4, SelectedRow
  <2>6. new(w).amount # Empty => row(w).amount = new(w).amount
    BY <2>5 DEF ShownAmount
  <2> QED
    BY <2>1, <2>5, <2>6
<1> HIDE DEF new, percent, amount
<1>6. /\ active \subseteq existing /\ existing \subseteq Workers
  BY DEF FormInv, Well
<1>7. Chosen' = Chosen \cap active
  BY <1>4, <1>5, UnselectedRow DEF Chosen
<1>8. IsTable(page'.rows, Workers, PageRows)
  <2>1. \A w \in DOMAIN page'.rows : page'.rows[w] \in PageRows
    BY <1>4, <1>5, UnselectedRow
  <2>2. DOMAIN page'.rows \subseteq Workers
    BY <1>4, <1>6
  <2> QED
    BY <1>4, <2>1, <2>2 DEF IsTable
<1>9. Well'
  <2>1. WellShown'
    BY <1>1, <1>3, <1>4, <1>8 DEF WellShown
  <2> QED
    BY <2>1 DEF FormInv, Well, WellMeant, WellStored, RowsOf, IsStored, Derived, SharesOf
<1>10. ASSUME NEW v \in Workers \ dropped' PROVE RowSays(v)'
  <2>1. RowSays(v) /\ ~(v \in Chosen /\ v \notin active)
    BY <1>2, <1>3
  <2>2. CASE v \in Chosen
    <3>1. v \in Chosen' /\ page'.rows[v] = new(v)
      BY <1>4, <1>7, <2>1, <2>2
    <3>2. v \in DOMAIN meant.entries /\ Says(row(v), meant.entries[v])
      BY <2>1, <2>2 DEF RowSays
    <3>3. Says(new(v), meant.entries[v])
      BY <1>5, <2>2, <3>2 DEF Says
    <3> QED
      BY <3>1, <3>2, <3>3 DEF RowSays
  <2>3. CASE v \notin Chosen
    BY <1>7, <2>1, <2>3 DEF RowSays
  <2> QED
    BY <2>2, <2>3
<1>11. AsMeant'
  <2>1. (Chosen \subseteq DOMAIN meant.entries)'
    BY <1>7 DEF FormInv, AsMeant
  <2> QED
    BY <1>2, <1>4, <1>10, <2>1 DEF AsMeant
<1>12. AsOpened'
  <2> SUFFICES ASSUME edits' = 0 PROVE ZeroShare'
    BY DEF AsOpened
  <2>1. ZeroShare \/ Unchanged
    BY DEF FormInv, AsOpened
  <2>2. ZeroShare
    BY <2>1, UnchangedIsAccepted DEF FormInv
  <2> QED
    BY <2>2 DEF ZeroShare
<1> QED
  BY <1>9, <1>11, <1>12 DEF FormInv

\* Nothing of the project is touched by a page that is left.
LEMMA LeftAlone ==
    ASSUME FormInv, NEW how, Answer(how), UNCHANGED <<project, existing, active>>
    PROVE  FormInv'
<1>1. /\ (IsStored(project) => WellStored(project))'
      /\ DOMAIN RowsOf(project') \subseteq existing
  BY DEF FormInv, Well, WellStored, RowsOf, IsStored, Derived, SharesOf
<1> QED
  BY <1>1, LeavingKeeps

LEMMA SubmitKeeps == FormInv /\ Submit => FormInv'
<1> SUFFICES ASSUME FormInv, Submit PROVE FormInv'
  OBVIOUS
<1>1. page # Closed /\ page.labor # Empty /\ UNCHANGED <<existing, active>>
  BY DEF Submit
<1>2. CASE project = Gone /\ Answer("missing") /\ UNCHANGED project
  BY <1>1, <1>2, LeftAlone
<1>3. CASE Refused /\ Redraw /\ UNCHANGED <<project, edits, meant>>
  BY <1>1, <1>3, RedrawKeeps
<1>4. CASE ~Refused /\ Chosen \subseteq existing /\ Save
  BY <1>1, <1>4, SaveKeeps
<1>5. CASE Answer("error") /\ UNCHANGED project
  BY <1>1, <1>5, LeftAlone
<1> QED
  BY <1>2, <1>3, <1>4, <1>5 DEF Submit

LEMMA LeaveKeeps == FormInv /\ Leave => FormInv'
BY LeftAlone DEF Leave
-----------------------------------------------------------------------------
\* What is done on other pages leaves this page and its history as they are.
LEMMA OtherPages ==
    ASSUME FormInv, UNCHANGED <<page, answer, edits, meant, dropped>>,
           (IsStored(project) => WellStored(project))',
           existing' \subseteq existing, active' \subseteq existing',
           DOMAIN RowsOf(project') \subseteq existing'
    PROVE  FormInv'
<1>1. Well'
  BY DEF FormInv, Well, WellShown, WellMeant
<1>2. AsMeant'
  BY DEF FormInv, AsMeant, RowSays, Chosen
<1>3. AsOpened'
  <2>1. ZeroShare' <=> ZeroShare
    BY DEF ZeroShare
  <2>2. Chosen' = Chosen
    BY DEF Chosen
  <2>3. \A labor : MeantShares(labor)' = MeantShares(labor)
    BY DEF MeantShares
  <2>4. Unchanged' <=> Unchanged
    BY <2>2 DEF Unchanged, MeantShares
  <2> QED
    BY <2>1, <2>4 DEF FormInv, AsOpened
<1> QED
  BY <1>1, <1>2, <1>3 DEF FormInv

\* A stored project without the row of one worker.
LEMMA RowTaken ==
    ASSUME NEW p, WellStored(p), NEW w
    PROVE  LET q == [p EXCEPT !.rows = Without(@, {w})] IN
             WellStored(q) /\ DOMAIN q.rows = DOMAIN p.rows \ {w}
<1> DEFINE q == [p EXCEPT !.rows = Without(@, {w})]
           S == DOMAIN p.rows
           c == [v \in S |-> p.rows[v].share]
           d == [v \in S \ {w} |-> q.rows[v].share]
<1>1. /\ q = [labor |-> p.labor, total |-> p.total, rows |-> Without(p.rows, {w})]
      /\ p.labor \in Nat /\ p.total \in Nat
      /\ IsTable(p.rows, Workers, StoredRows) /\ Derived(p) /\ SharesOf(p) <= p.labor
  BY DEF WellStored
<1>2. q.labor = p.labor /\ q.total = p.total /\ q.rows = Without(p.rows, {w})
      /\ q = [labor |-> q.labor, total |-> q.total, rows |-> q.rows]
  BY <1>1
<1> HIDE DEF q
<1>3. /\ IsTable(q.rows, Workers, StoredRows)
      /\ DOMAIN q.rows = S \ {w}
      /\ \A v \in S \ {w} : q.rows[v] = p.rows[v]
  BY <1>1, <1>2 DEF IsTable, Without, Restrict
<1>4. Derived(q)
  BY <1>1, <1>2, <1>3 DEF Derived
<1>5. SharesOf(q) <= SharesOf(p) /\ SharesOf(q) \in Nat /\ SharesOf(p) \in Nat
  <2>1. IsFiniteSet(S) /\ \A v \in S : c[v] \in Nat
    BY <1>1, FormConstants, FS_Subset DEF IsTable, StoredRows
  <2>2. SharesOf(p) = SumOf(S, c)
    BY DEF SharesOf
  <2>3. SharesOf(q) = SumOf(S \ {w}, d)
    BY <1>3 DEF SharesOf
  <2>4. \A v \in S \ {w} : d[v] = c[v]
    BY <1>3
  <2> HIDE DEF c, d
  <2>5. SumOf(S \ {w}, d) = SumOf(S \ {w}, c)
    BY <2>4, SumSameColumn
  <2>6. SumOf(S \ {w}, c) <= SumOf(S, c)
    BY <2>1, SumOfFewer
  <2>7. IsFiniteSet(S \ {w})
    BY <2>1, FS_Subset
  <2>8. SumOf(S, c) \in Nat /\ SumOf(S \ {w}, c) \in Nat
    BY <2>1, <2>7, SumType
  <2> QED
    BY <2>2, <2>3, <2>5, <2>6, <2>8
<1> QED
  BY <1>1, <1>2, <1>3, <1>4, <1>5 DEF WellStored, q

LEMMA SaveElsewhereKeeps == FormInv /\ SaveElsewhere => FormInv'
<1> SUFFICES ASSUME FormInv, SaveElsewhere PROVE FormInv'
  OBVIOUS
<1>1. /\ IsStored(project) /\ WellStored(project) /\ RowsOf(project) = project.rows
      /\ UNCHANGED <<existing, active, page, answer, edits, meant, dropped>>
      /\ active \subseteq existing /\ existing \subseteq Workers
      /\ DOMAIN project.rows \subseteq existing
  BY DEF SaveElsewhere, FormInv, Well, RowsOf
<1>2. PICK w \in existing :
        \/ project' = [project EXCEPT !.rows = Without(@, {w})]
        \/ \E entry \in Entries(Percents, Amounts) :
              /\ project' = Stored(project.labor, project.total,
                                   Put(EntriesOf(project.rows), w, entry))
              /\ SharesOf(project') <= project.labor
  BY DEF SaveElsewhere
<1>3. WellStored(project') /\ DOMAIN project'.rows \subseteq existing
  <2>1. CASE project' = [project EXCEPT !.rows = Without(@, {w})]
    BY <1>1, <2>1, RowTaken
  <2>2. CASE \E entry \in Entries(Percents, Amounts) :
              /\ project' = Stored(project.labor, project.total,
                                   Put(EntriesOf(project.rows), w, entry))
              /\ SharesOf(project') <= project.labor
    <3>1. PICK entry \in Entries(Percents, Amounts) :
            /\ project' = Stored(project.labor, project.total,
                                 Put(EntriesOf(project.rows), w, entry))
            /\ SharesOf(project') <= project.labor
      BY <2>2
    <3>2. entry \in TypedRows /\ w \in Workers
      BY <1>1, FormConstants
    <3>3. /\ IsTable(EntriesOf(project.rows), Workers, TypedRows)
          /\ DOMAIN EntriesOf(project.rows) = DOMAIN project.rows
      BY <1>1, StoredCouldBeTyped
    <3> DEFINE typed == EntriesOf(project.rows)
               put   == Put(typed, w, entry)
    <3> HIDE DEF typed
    <3>4. IsTable(put, Workers, TypedRows) /\ DOMAIN put = DOMAIN project.rows \cup {w}
      BY <3>2, <3>3 DEF IsTable, Put, Upsert, typed
    <3> HIDE DEF put
    <3>5. project' = Stored(project.labor, project.total, put)
      BY <3>1 DEF put, typed
    <3>6. project.labor \in Nat /\ project.total \in Nat
      BY <1>1 DEF WellStored
    <3>7. WellStored(project')
      BY <3>1, <3>4, <3>5, <3>6, FormConstants, StoredIsWell
    <3>8. DOMAIN project'.rows = DOMAIN put
      BY <3>5 DEF Stored
    <3> QED
      BY <1>1, <3>4, <3>7, <3>8
  <2> QED
    BY <1>2, <2>1, <2>2
<1>4. DOMAIN RowsOf(project') \subseteq existing
  BY <1>3 DEF RowsOf, EmptyTable
<1> QED
  BY <1>1, <1>3, <1>4, OtherPages DEF WellStored, Derived, SharesOf

LEMMA ElsewhereKeeps == FormInv /\ Elsewhere => FormInv'
<1> SUFFICES ASSUME FormInv, Elsewhere PROVE FormInv'
  OBVIOUS
<1>1. /\ IsStored(project) => WellStored(project)
      /\ active \subseteq existing /\ DOMAIN RowsOf(project) \subseteq existing
  BY DEF FormInv, Well
<1>2. UNCHANGED project =>
        /\ (IsStored(project) => WellStored(project))'
        /\ RowsOf(project') = RowsOf(project)
  BY <1>1 DEF WellStored, RowsOf, IsStored, Derived, SharesOf
<1>3. CASE SaveElsewhere
  BY <1>3, SaveElsewhereKeeps
<1>4. CASE DeleteElsewhere
  <2>1. ~IsStored(project)' /\ RowsOf(project') = EmptyTable
    BY <1>4, FormConstants DEF DeleteElsewhere, RowsOf, IsStored
  <2>2. UNCHANGED <<existing, active, page, answer, edits, meant, dropped>>
    BY <1>4 DEF DeleteElsewhere
  <2>3. DOMAIN EmptyTable = {}
    BY DEF EmptyTable
  <2> QED
    BY <1>1, <2>1, <2>2, <2>3, OtherPages DEF IsStored
<1>5. ASSUME NEW w \in Workers, ToggleWorker(w) PROVE FormInv'
  <2>1. /\ UNCHANGED <<project, existing, page, answer, edits, meant, dropped>>
        /\ active' \subseteq existing
    BY <1>1, <1>5 DEF ToggleWorker
  <2> QED
    BY <1>1, <1>2, <2>1, OtherPages
<1>6. ASSUME NEW w \in Workers, DeleteWorker(w) PROVE FormInv'
  <2>1. /\ UNCHANGED <<project, page, answer, edits, meant, dropped>>
        /\ existing' = existing \ {w} /\ active' = active \ {w}
        /\ w \notin DOMAIN RowsOf(project)
    BY <1>6 DEF DeleteWorker
  <2> QED
    BY <1>1, <1>2, <2>1, OtherPages
<1> QED
  BY <1>3, <1>4, <1>5, <1>6 DEF Elsewhere

\* The page, the project and what is meant stay in step.
LEMMA FormInvHolds == FormSpec => []FormInv
<1>1. FormInit => FormInv
  BY FormBegins
<1>2. FormInv /\ [FormNext]_vars => FormInv'
  <2> SUFFICES ASSUME FormInv, [FormNext]_vars PROVE FormInv'
    OBVIOUS
  <2>1. CASE FormNext
    BY <2>1, OpenPageKeeps, FillKeeps, SubmitKeeps, LeaveKeeps, ElsewhereKeeps DEF FormNext
  <2>2. CASE UNCHANGED vars
    <3>1. /\ (IsStored(project) => WellStored(project))'
          /\ DOMAIN RowsOf(project') \subseteq existing /\ active \subseteq existing
      BY <2>2 DEF vars, FormInv, Well, WellStored, RowsOf, IsStored, Derived, SharesOf
    <3> QED
      BY <2>2, <3>1, OtherPages DEF vars
  <2> QED
    BY <2>1, <2>2
<1> QED
  BY <1>1, <1>2, PTL DEF FormSpec

\* The stored project keeps its types and its cap on shares, workers with shares are not
\* deleted, and the page shows workers only.
THEOREM FormTyped == FormSpec => []FormTypeOK
<1>1. FormInv => FormTypeOK
  BY DEF FormInv, Well, WellStored, WellShown, StoredRows, IsTable, FormTypeOK
<1> QED
  BY <1>1, FormInvHolds, PTL
-----------------------------------------------------------------------------
\* Only a page that is sent can be answered as saved, refused or failed.
LEMMA OnlySubmitAnswers ==
    ASSUME [FormNext]_vars
    PROVE  /\ SavedNow => Submit
           /\ RefusedNow => Submit
           /\ FailedNow => Submit
<1>1. CASE OpenPage
  BY <1>1 DEF OpenPage, SavedNow, RefusedNow, FailedNow
<1>2. CASE Fill
  BY <1>2 DEF Fill, SavedNow, RefusedNow, FailedNow
<1>3. CASE Leave
  BY <1>3 DEF Leave, Answer, SavedNow, RefusedNow, FailedNow
<1>4. CASE Elsewhere \/ UNCHANGED vars
  <2>1. UNCHANGED <<page, answer>>
    BY <1>4 DEF Elsewhere, SaveElsewhere, DeleteElsewhere, ToggleWorker, DeleteWorker, vars
  <2> QED
    BY <2>1 DEF SavedNow, RefusedNow, FailedNow
<1> QED
  BY <1>1, <1>2, <1>3, <1>4 DEF FormNext

LEMMA SavedBySave ==
    ASSUME [FormNext]_vars, SavedNow
    PROVE  page # Closed /\ page.labor # Empty /\ ~Refused /\ Save
<1>1. Submit /\ answer' = "saved"
  BY OnlySubmitAnswers DEF SavedNow
<1> QED
  BY <1>1 DEF Submit, Answer

LEMMA RefusedByCheck ==
    ASSUME [FormNext]_vars, RefusedNow
    PROVE  page # Closed /\ page.labor # Empty /\ Refused
<1>1. Submit /\ answer' = "refused"
  BY OnlySubmitAnswers DEF RefusedNow
<1> QED
  BY <1>1 DEF Submit, Answer, Save

LEMMA FailedByWorker ==
    ASSUME [FormNext]_vars, FailedNow
    PROVE  page # Closed /\ \E w \in Chosen : w \notin existing
<1>1. Submit /\ answer' = "error"
  BY OnlySubmitAnswers DEF FailedNow
<1> QED
  BY <1>1 DEF Submit, Answer, Save

\* Whatever was shown, typed, refused and shown again, and whatever happened elsewhere, a
\* save stores the project the page was opened with and the changes made by hand.
THEOREM SavedIsMeant == FormSpec => SavesWhatWasMeant
<1> DEFINE A == SavedNow =>
                  /\ project'.labor = meant.labor
                  /\ project'.total = IF page.total = Empty THEN meant.labor ELSE meant.total
                  /\ page.total = Empty => meant.total \in {0, Empty}
                  /\ \A w \in Workers \ dropped : RowAsMeant(project', w)
<1>1. FormInv /\ [FormNext]_vars => A
  <2> SUFFICES ASSUME FormInv, [FormNext]_vars, SavedNow
               PROVE  /\ project'.labor = meant.labor
                      /\ project'.total = IF page.total = Empty THEN meant.labor ELSE meant.total
                      /\ page.total = Empty => meant.total \in {0, Empty}
                      /\ \A w \in Workers \ dropped : RowAsMeant(project', w)
    OBVIOUS
  <2>1. page # Closed /\ page.labor # Empty /\ ~Refused /\ Save
    BY SavedBySave
  <2>2. /\ page.labor = meant.labor
        /\ page.total # Empty => page.total = meant.total
        /\ page.total = Empty => meant.total \in {0, Empty}
        /\ \A w \in Workers \ dropped : RowSays(w)
    BY <2>1 DEF FormInv, AsMeant
  <2>3. PICK total : /\ total = (IF page.total = Empty THEN page.labor ELSE page.total)
                     /\ project' = Stored(page.labor, total, ChosenEntries)
    BY <2>1 DEF Save
  <2>4. project'.labor = page.labor /\ project'.total = total
    BY <2>3 DEF Stored
  <2>5. /\ page.labor \in Nat
        /\ IsTable(ChosenEntries, Workers, TypedRows) /\ DOMAIN ChosenEntries = Chosen
        /\ \A w \in Chosen : ChosenEntries[w] = TypedEntry(page.rows[w])
    <3>1. 0 \in Nat
      OBVIOUS
    <3> QED
      BY <2>1, <3>1, AcceptedIsWell DEF FormInv
  <2>6. /\ DOMAIN project'.rows = Chosen
        /\ \A w \in Chosen : project'.rows[w] = StoredRow(page.labor, ChosenEntries[w])
    BY <2>3, <2>5 DEF Stored
  <2>7. ASSUME NEW w \in Workers \ dropped PROVE RowAsMeant(project', w)
    <3>1. CASE w \in Chosen
      <4>1. w \in DOMAIN meant.entries /\ Says(page.rows[w], meant.entries[w])
        BY <2>2, <3>1 DEF RowSays
      <4>2. ChosenEntries[w] \in TypedRows /\ ~Unreadable(page.rows[w])
        BY <2>1, <2>5, <3>1 DEF IsTable, Refused
      <4>3. EntryOf(project'.rows[w]) = TypedEntry(page.rows[w])
        BY <2>5, <2>6, <3>1, <4>2, TypedAgain
      <4>4. meant.entries[w] \in MeantRows
        BY <4>1 DEF FormInv, Well, WellMeant, IsTable
      <4>5. meant.entries[w].value # Bad => TypedEntry(page.rows[w]) = meant.entries[w]
        BY <4>1, <4>2, <4>4 DEF Says, TypedEntry, Unreadable, MeantRows
      <4> QED
        BY <2>6, <3>1, <4>1, <4>3, <4>5 DEF RowAsMeant
    <3>2. CASE w \notin Chosen
      BY <2>2, <2>6, <3>2 DEF RowSays, RowAsMeant
    <3> QED
      BY <3>1, <3>2
  <2> QED
    BY <2>2, <2>3, <2>4, <2>7, <2>1
<1>2. FormSpec => [][A]_vars
  <2>1. []FormInv /\ [][FormNext]_vars => [][A]_vars
    BY <1>1, PTL
  <2> QED
    BY <2>1, FormInvHolds, PTL DEF FormSpec
<1> QED
  BY <1>2 DEF SavesWhatWasMeant

\* A page that shows no warning, of readable values in Latin digits, is not refused.
THEOREM UnwarnedIsAccepted == FormSpec => AcceptedUnlessWarned
<1> DEFINE Excused == \E w \in Chosen : \/ Unreadable(page.rows[w])
                                       \/ /\ page.rows[w].mode = "percent"
                                          /\ page.rows[w].percent.script = "persian"
           A == RefusedNow /\ ~Warned =>
                  \E w \in Chosen : \/ Unreadable(page.rows[w])
                                    \/ /\ page.rows[w].mode = "percent"
                                       /\ page.rows[w].percent.script = "persian"
<1>1. FormInv /\ [FormNext]_vars => A
  <2> SUFFICES ASSUME FormInv, [FormNext]_vars, RefusedNow, ~Excused PROVE Warned
    OBVIOUS
  <2>1. page # Closed /\ page.labor # Empty /\ Refused
    BY RefusedByCheck
  <2>2. IsTable(page.rows, Workers, PageRows) /\ page.labor \in Nat
    BY <2>1 DEF FormInv, Well, WellShown, Fields
  <2>3. /\ Chosen \subseteq Workers /\ IsFiniteSet(Chosen)
        /\ \A w \in Chosen : page.rows[w] \in PageRows
    BY <2>2, FormConstants, FS_Subset DEF Chosen, IsTable
  <2>4. /\ DOMAIN ReadableShares = Chosen /\ DOMAIN LiveShares = Chosen
        /\ \A w \in Chosen : ReadableShares[w] = row_share(page.labor, TypedEntry(page.rows[w]))
    BY DEF ReadableShares, LiveShares, ChosenEntries
  <2>5. ASSUME NEW w \in Chosen
        PROVE  /\ ReadableShares[w] \in Nat /\ LiveShares[w] \in Nat
               /\ ReadableShares[w] <= LiveShares[w]
    <3> DEFINE row == page.rows[w]
    <3>1. row \in PageRows /\ ~Unreadable(row)
      BY <2>3
    <3>2. ReadableShares[w] \in Nat
      BY <2>2, <2>4, <3>1, TypedEntryType, TypedRow
    <3>3. CASE row.mode = "fixed"
      <4>1. LiveShares[w] = row.amount
        BY <3>1, <3>3 DEF LiveShares, Unreadable
      <4>2. ReadableShares[w] = row.amount
        BY <2>4, <3>3 DEF TypedEntry, row_share
      <4> QED
        BY <3>2, <4>1, <4>2
    <3>4. CASE row.mode = "percent"
      <4>1. row.percent # Bad /\ row.percent.script # "persian"
        BY <3>1, <3>4 DEF Unreadable
      <4>2. row.percent.units \in Nat
        BY <3>1, <4>1, PercentText, HundredType DEF PageRows
      <4>3. LiveShares[w] = live_share(page.labor, row.percent.units)
        BY <3>4, <4>1 DEF LiveShares
      <4>4. ReadableShares[w] = worker_share(page.labor, row.percent.units)
        BY <2>4, <3>4, <4>1 DEF TypedEntry, row_share
      <4>5. live_share(page.labor, row.percent.units)
              - worker_share(page.labor, row.percent.units) \in {0, 1}
        BY <2>2, <4>2, LiveShareCloseToServer
      <4>6. live_share(page.labor, row.percent.units) \in Int
        BY <2>2, <4>2, HundredType DEF live_share, RoundHalfUp
      <4> QED
        BY <3>2, <4>3, <4>4, <4>5, <4>6
    <3> QED
      BY <3>1, <3>3, <3>4 DEF PageRows, Modes
  <2>6. TotalOf(ReadableShares) <= TotalOf(LiveShares)
    BY <2>3, <2>4, <2>5, SumOfSmaller DEF TotalOf
  <2>7. TotalOf(ReadableShares) \in Nat /\ TotalOf(LiveShares) \in Nat
    BY <2>3, <2>4, <2>5, SumType DEF TotalOf
  <2>8. TotalOf(ReadableShares) > page.labor
    BY <2>1 DEF Refused
  <2> QED
    BY <2>2, <2>6, <2>7, <2>8 DEF Warned
<1>2. FormSpec => [][A]_vars
  <2>1. []FormInv /\ [][FormNext]_vars => [][A]_vars
    BY <1>1, PTL
  <2> QED
    BY <2>1, FormInvHolds, PTL DEF FormSpec
<1> QED
  BY <1>2 DEF AcceptedUnlessWarned

\* What was stored is accepted as it is shown, however it was rounded and whatever became of
\* its workers; but for a share of zero it is not refused, and it fails only for a worker who
\* was deleted after another page had taken his row out.
THEOREM UneditedIsAccepted == FormSpec => UneditedAccepted
<1> DEFINE A == edits = 0 =>
                  /\ RefusedNow =>
                       \E w \in DOMAIN meant.entries :
                          meant.entries[w] = [mode |-> "fixed", value |-> 0]
                  /\ FailedNow =>
                       \E w \in DOMAIN meant.entries : w \notin existing \cup DOMAIN RowsOf(project)
<1>1. FormInv /\ [FormNext]_vars => A
  <2> SUFFICES ASSUME FormInv, [FormNext]_vars, edits = 0 PROVE A
    OBVIOUS
  <2>1. ASSUME RefusedNow PROVE ZeroShare
    <3>1. page # Closed /\ page.labor # Empty /\ Refused
      BY <2>1, RefusedByCheck
    <3>2. ZeroShare \/ Unchanged
      BY <3>1 DEF FormInv, AsOpened
    <3> QED
      BY <3>1, <3>2, UnchangedIsAccepted DEF FormInv
  <2>2. ASSUME FailedNow
        PROVE  \E w \in DOMAIN meant.entries : w \notin existing \cup DOMAIN RowsOf(project)
    <3>1. page # Closed /\ \E w \in Chosen : w \notin existing
      BY <2>2, FailedByWorker
    <3>2. Chosen \subseteq DOMAIN meant.entries /\ DOMAIN RowsOf(project) \subseteq existing
      BY <3>1 DEF FormInv, AsMeant, Well
    <3> QED
      BY <3>1, <3>2
  <2> QED
    BY <2>1, <2>2 DEF ZeroShare
<1>2. FormSpec => [][A]_vars
  <2>1. []FormInv /\ [][FormNext]_vars => [][A]_vars
    BY <1>1, PTL
  <2> QED
    BY <2>1, FormInvHolds, PTL DEF FormSpec
<1> QED
  BY <1>2 DEF UneditedAccepted
=============================================================================
