---------------------------- MODULE ProjectForm -----------------------------
(***************************************************************************)
(* The round trip of the project form: what the page is filled with        *)
(* (blueprints/projects.py create, edit), what its user types in           *)
(* (templates/projects/form.html, static/js/app.js), how it is read and    *)
(* saved or refused (_save_project), and the page shown again after a      *)
(* refusal (_rerender_form).                                               *)
(*                                                                         *)
(* One page on one project.  Meanwhile other pages save or delete the      *)
(* project and change its workers, each in one step.  Only the fields that *)
(* are converted on the way are kept: amounts, percents and worker rows.   *)
(***************************************************************************)
EXTENDS Shares, Tables

CONSTANTS
    Workers,
    Labors, Totals,     \* amounts of a project that somebody types
    Percents, Amounts,  \* percents, in PercentUnits, and fixed amounts typed for a worker
    DefaultPercent,     \* workers.default_percent
    MaxEdits,           \* bound on the fields changed in one page
    Empty,              \* a field without text
    Bad,                \* a text that is no percent
    Unborn, Gone,       \* the project before it is created and after it is deleted
    Closed              \* there is no page

ASSUME FormAssumption ==
    /\ Labors \cup Totals \cup Amounts \subseteq Nat
    /\ Percents \cup {DefaultPercent} \subseteq 0 .. Hundred
    /\ MaxEdits \in Nat /\ {Empty, Bad} \cap Nat = {} /\ Empty # Bad /\ Unborn # Gone
    /\ IsFiniteSet(Workers) /\ Bad \notin [script : {"latin", "persian"}, units : Nat]

VARIABLES
    project,    \* the stored project
    existing,   \* the workers that are not deleted
    active,     \* those with workers.is_active
    page,       \* what the form shows
    answer,     \* what the last post of the page was answered
    edits,      \* how many fields its user changed since it was opened
    meant,      \* the project it was opened with and those changes (history)
    dropped     \* workers whose rows a refusal left out of the page (history)

vars == <<project, existing, active, page, answer, edits, meant, dropped>>

(***************************************************************************)
(* A stored row keeps both figures, the one its mode does not use being    *)
(* derived from the other.                                                 *)
(***************************************************************************)
StoredRow(labor, entry) ==
    [mode    |-> entry.mode,
     percent |-> IF entry.mode = "fixed" THEN equivalent_percent(entry.value, labor)
                                         ELSE entry.value,
     share   |-> row_share(labor, entry)]

Stored(labor, total, entries) ==
    [labor |-> labor, total |-> total,
     rows  |-> [w \in DOMAIN entries |-> StoredRow(labor, entries[w])]]

\* What a user could have typed to store a row.
EntryOf(row) == [mode |-> row.mode, value |-> IF row.mode = "fixed" THEN row.share ELSE row.percent]

EntriesOf(rows) == [w \in DOMAIN rows |-> EntryOf(rows[w])]

TotalOf(shares) == SumOf(DOMAIN shares, shares)

SharesOf(p) == SumOf(DOMAIN p.rows, [w \in DOMAIN p.rows |-> p.rows[w].share])

\* The projects that a save may have left.
Storable ==
    {p \in {Stored(labor, total, entries) : labor \in Labors, total \in Totals,
               entries \in UNION {[S -> Entries(Percents, Amounts)] : S \in SUBSET Workers}} :
        SharesOf(p) <= p.labor}

IsStored(p) == p \notin {Unborn, Gone}
RowsOf(p)   == IF IsStored(p) THEN p.rows ELSE EmptyTable

\* The percents a text field may hold, and the script of their digits.
PercentTexts(P) == [script : {"latin", "persian"}, units : P] \cup {Bad}
Latin(units)    == [script |-> "latin", units |-> units]
-----------------------------------------------------------------------------
\* What if percents were shown without their decimals.
format_percent_whole(u) == PercentUnit * RoundHalfEven(u, PercentUnit)

\* utils.format_percent: a whole number, or "%g", which keeps six digits.
format_percent(u) ==
    IF u % PercentUnit = 0 \/ u < 1000000 THEN u ELSE 10 * RoundHalfEven(u, 10)

\* form.html: an amount of zero is shown as an empty field.
ShownAmount(amount) == IF amount = 0 THEN Empty ELSE amount

\* Amounts, percents and their rows as the page shows them.
Unselected ==
    [checked |-> FALSE, mode |-> "percent", percent |-> Latin(format_percent(DefaultPercent)),
     amount |-> Empty]

Selected(mode, percent, amount) ==
    [checked |-> TRUE, mode |-> mode, percent |-> Latin(format_percent(percent)),
     amount |-> ShownAmount(amount)]

ShownRows(shown, rows) ==
    [w \in shown |-> IF w \in DOMAIN rows
                       THEN Selected(rows[w].mode, rows[w].percent, rows[w].share)
                       ELSE Unselected]

NothingMeant == [labor |-> Empty, total |-> Empty, entries |-> EmptyTable]

\* create and edit, GET: the active workers, and whoever has a row already.
OpenPage ==
    /\ page = Closed /\ project # Gone
    /\ page' = [labor |-> IF IsStored(project) THEN ShownAmount(project.labor) ELSE Empty,
                total |-> IF IsStored(project) THEN ShownAmount(project.total) ELSE Empty,
                rows  |-> ShownRows(active \cup DOMAIN RowsOf(project), RowsOf(project))]
    /\ edits' = 0
    /\ meant' = [labor |-> IF IsStored(project) THEN project.labor ELSE Empty,
                 total |-> IF IsStored(project) THEN project.total ELSE Empty,
                 entries |-> EntriesOf(RowsOf(project))]
    /\ answer' = "none" /\ dropped' = {}
    /\ UNCHANGED <<project, existing, active>>

TypeLabor(a) ==
    /\ page' = [page EXCEPT !.labor = a]
    /\ meant' = [meant EXCEPT !.labor = a]

TypeTotal(a) ==
    /\ page' = [page EXCEPT !.total = a]
    /\ meant' = [meant EXCEPT !.total = a]

\* The value a checked row is to have: what its box, percent or amount, shows.
TypedEntry(row) ==
    [mode  |-> row.mode,
     value |-> IF row.mode = "fixed" THEN row.amount
               ELSE IF row.percent = Bad THEN Bad ELSE row.percent.units]

\* The box of one worker: checked, switched between percent and amount, or typed in.
FillRow(w) ==
    /\ \E row \in
          {[page.rows[w] EXCEPT !.checked = c] : c \in BOOLEAN}
          \cup {[page.rows[w] EXCEPT !.checked = TRUE, !.mode = "percent", !.percent = t] :
                   t \in PercentTexts(Percents)}
          \cup {[page.rows[w] EXCEPT !.checked = TRUE, !.mode = "fixed", !.amount = a] :
                   a \in Amounts \cup {page.rows[w].amount}} :
          /\ page' = [page EXCEPT !.rows[w] = row]
          /\ meant' = [meant EXCEPT
                         !.entries = IF row.checked THEN Put(@, w, TypedEntry(row))
                                                    ELSE Without(@, {w})]
    /\ dropped' = dropped \ {w}

Fill ==
    /\ page # Closed /\ edits < MaxEdits
    /\ edits' = edits + 1
    /\ \/ \E a \in Labors \cup {Empty} : TypeLabor(a) /\ UNCHANGED dropped
       \/ \E a \in Totals \cup {Empty} : TypeTotal(a) /\ UNCHANGED dropped
       \/ \E w \in DOMAIN page.rows : FillRow(w)
    /\ page' # page
    /\ answer' = "none"
    /\ UNCHANGED <<project, existing, active>>
-----------------------------------------------------------------------------
Chosen == {w \in DOMAIN page.rows : page.rows[w].checked}

\* parse_percent and parse_amount return None.
Unreadable(row) == IF row.mode = "fixed" THEN row.amount = Empty ELSE row.percent = Bad

ChosenEntries == [w \in Chosen |-> TypedEntry(page.rows[w])]

ReadableShares ==
    [w \in {c \in Chosen : ~Unreadable(page.rows[c])} |-> row_share(page.labor, ChosenEntries[w])]

\* What if the shares had to stay below the labor amount.
RefusedAtCap ==
    \/ \E w \in Chosen : Unreadable(page.rows[w])
    \/ TotalOf(ReadableShares) >= page.labor

\* _save_project: an unreadable value, or shares above the labor amount.
Refused ==
    \/ \E w \in Chosen : Unreadable(page.rows[w])
    \/ TotalOf(ReadableShares) > page.labor

\* _rerender_form: rows of active workers, from the values posted; an unreadable one is 0.
Redraw ==
    /\ page' = [page EXCEPT !.rows =
         [w \in active |->
            IF w \in Chosen
              THEN LET row == page.rows[w] IN
                   Selected(row.mode, IF row.percent = Bad THEN 0 ELSE row.percent.units,
                            IF row.amount = Empty THEN 0 ELSE row.amount)
              ELSE Unselected]]
    /\ dropped' = dropped \cup (Chosen \ active)

\* The page is left for another one.
Answer(how) ==
    /\ page' = Closed /\ answer' = how
    /\ edits' = 0 /\ meant' = NothingMeant /\ dropped' = {}

\* A blank customer total is the labor amount.
Save ==
    /\ project' = Stored(page.labor, IF page.total = Empty THEN page.labor ELSE page.total,
                         ChosenEntries)
    /\ Answer("saved")

\* POST; the browser does not send a form without a labor amount (required).
Submit ==
    /\ page # Closed /\ page.labor # Empty
    /\ \/ project = Gone /\ Answer("missing") /\ UNCHANGED project
       \/ /\ project # Gone /\ Refused
          /\ Redraw /\ answer' = "refused"
          /\ UNCHANGED <<project, edits, meant>>
       \/ project # Gone /\ ~Refused /\ Chosen \subseteq existing /\ Save
       \/ \* FOREIGN KEY constraint failed: rolled back, an error page.
          project # Gone /\ ~Refused /\ ~(Chosen \subseteq existing)
          /\ Answer("error") /\ UNCHANGED project
    /\ UNCHANGED <<existing, active>>

Leave ==
    /\ page # Closed /\ Answer("none")
    /\ UNCHANGED <<project, existing, active>>
-----------------------------------------------------------------------------
\* What happens elsewhere while the page is open.  A save of another page is taken one row
\* at a time: its amounts are not read by this page, which replaces them.
SaveElsewhere ==
    /\ IsStored(project)
    /\ \E w \in existing :
          \/ project' = [project EXCEPT !.rows = Without(@, {w})]
          \/ \E entry \in Entries(Percents, Amounts) :
                /\ project' = Stored(project.labor, project.total,
                                     Put(EntriesOf(project.rows), w, entry))
                /\ SharesOf(project') <= project.labor
    /\ UNCHANGED <<existing, active, page, answer, edits, meant, dropped>>

DeleteElsewhere ==
    /\ IsStored(project)
    /\ project' = Gone
    /\ UNCHANGED <<existing, active, page, answer, edits, meant, dropped>>

ToggleWorker(w) ==
    /\ w \in existing
    /\ active' = IF w \in active THEN active \ {w} ELSE active \cup {w}
    /\ UNCHANGED <<project, existing, page, answer, edits, meant, dropped>>

\* What if a worker with shares could be deleted.
DeleteAnyWorker(w) ==
    /\ w \in existing
    /\ existing' = existing \ {w} /\ active' = active \ {w}
    /\ UNCHANGED <<project, page, answer, edits, meant, dropped>>

\* Only a worker without shares is deleted.
DeleteWorker(w) ==
    /\ w \in existing \ DOMAIN RowsOf(project)
    /\ existing' = existing \ {w} /\ active' = active \ {w}
    /\ UNCHANGED <<project, page, answer, edits, meant, dropped>>

FormInit ==
    /\ project \in Storable \cup {Unborn}
    /\ existing = Workers /\ active = Workers
    /\ page = Closed /\ answer = "none" /\ dropped = {}
    /\ edits = 0 /\ meant = NothingMeant

Elsewhere ==
    SaveElsewhere \/ DeleteElsewhere \/ \E w \in Workers : ToggleWorker(w) \/ DeleteWorker(w)

FormNext == OpenPage \/ Fill \/ Submit \/ Leave \/ Elsewhere

FormSpec == FormInit /\ [][FormNext]_vars
-----------------------------------------------------------------------------
\* The stored project, the page and the histories are of their types.
FormTypeOK ==
    /\ IsStored(project) =>
         /\ project.labor \in Nat /\ project.total \in Nat
         /\ \A w \in DOMAIN project.rows : /\ project.rows[w].percent \in 0 .. Hundred
                                         /\ project.rows[w].share \in Nat
         /\ SharesOf(project) <= project.labor
    /\ active \subseteq existing /\ DOMAIN RowsOf(project) \subseteq existing
    /\ page # Closed => DOMAIN page.rows \subseteq Workers

SavedNow   == page # Closed /\ answer' = "saved" /\ page' = Closed
RefusedNow == answer' = "refused" /\ <<page, answer>>' # <<page, answer>>
FailedNow  == page # Closed /\ answer' = "error" /\ page' = Closed

\* The row a user meant for w is the one stored.
RowAsMeant(stored, w) ==
    IF w \in DOMAIN meant.entries
      THEN w \in DOMAIN stored.rows
           /\ (meant.entries[w].value # Bad => EntryOf(stored.rows[w]) = meant.entries[w])
      ELSE w \notin DOMAIN stored.rows

(***************************************************************************)
(* Shown, typed, refused, shown again and saved: what is stored is the     *)
(* project the page was opened with and the changes made by hand, nothing  *)
(* else.  Except that a total of zero, shown as an empty field, becomes    *)
(* the labor amount, and that a row a refusal dropped is gone.             *)
(***************************************************************************)
SavesWhatWasMeant ==
    [][SavedNow =>
         /\ project'.labor = meant.labor
         /\ project'.total = IF page.total = Empty THEN meant.labor ELSE meant.total
         /\ page.total = Empty => meant.total \in {0, Empty}
         /\ \A w \in Workers \ dropped : RowAsMeant(project', w)]_vars

\* projects.py:94: workers chosen before stay in the form "even if they were deactivated".
ChosenStay == [][SavedNow => \A w \in Workers : RowAsMeant(project', w)]_vars

\* The sum of the shares the page shows, app.js recalc: other digits than Latin count as 0.
LiveShares ==
    [w \in Chosen |->
       LET row == page.rows[w] IN
       CASE row.mode = "fixed" -> IF row.amount = Empty THEN 0 ELSE row.amount
         [] row.mode = "percent" /\ (row.percent = Bad \/ row.percent.script = "persian") -> 0
         [] OTHER -> live_share(page.labor, row.percent.units)]

Warned == TotalOf(LiveShares) > page.labor

(***************************************************************************)
(* The page and the server round differently, but a form of readable       *)
(* values in Latin digits that shows no warning is never refused.          *)
(***************************************************************************)
AcceptedUnlessWarned ==
    [][RefusedNow /\ ~Warned =>
         \E w \in Chosen : \/ Unreadable(page.rows[w])
                           \/ /\ page.rows[w].mode = "percent"
                              /\ page.rows[w].percent.script = "persian"
      ]_vars

(***************************************************************************)
(* A project that was stored is accepted again as its form shows it,       *)
(* however its figures were rounded, and whoever was deactivated or moved  *)
(* meanwhile.  It is refused only for a fixed share of zero, shown as an   *)
(* empty field, and fails (FOREIGN KEY) only for a worker it names whose   *)
(* row another page took out before he was deleted.                        *)
(***************************************************************************)
UneditedAccepted ==
    [][edits = 0 =>
         /\ RefusedNow =>
              \E w \in DOMAIN meant.entries : meant.entries[w] = [mode |-> "fixed", value |-> 0]
         /\ FailedNow =>
              \E w \in DOMAIN meant.entries : w \notin existing \cup DOMAIN RowsOf(project)]_vars
=============================================================================
