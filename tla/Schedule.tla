------------------------------ MODULE Schedule ------------------------------
(***************************************************************************)
(* Reading one section off the school's schedule: the client's search (two *)
(* slots, GET the form, POST the search) and the parser of the page it     *)
(* gets, while the school changes enrolment, layout and availability.      *)
(*                                                                         *)
(* A page is a set of tables, a table a header and a set of rows, a row a  *)
(* sequence of cells: a section is listed once, so that which table or row *)
(* comes first does not matter.  A cell is what the parser's helpers can   *)
(* make of its text: the id it is, the first number in it, and which       *)
(* status words it contains.                                               *)
(***************************************************************************)
EXTENDS Integers, Sequences, SequencesExt, FiniteSetsExt

CONSTANTS
    Ids,      \* Course IDs, without their leading zeros
    Layouts,  \* headers the results tables may have: sequences of column names
    Labels,   \* status labels, as sets of words
    Seats     \* capacities and enrolments: a finite set of numbers

Required    == {"id", "sect", "instructor", "size", "enrl", "status"}
ClosedWords == {"closed", "full", "wait", "cancel"}
Blank       == [id |-> <<>>, num |-> 0, words |-> {}, class |-> "none"]
Text        == <<0, "text">>    \* what some other text is, read as an id
NoEntry     == [listed |-> FALSE]

(* What the school may list for a section.  The label, when there is one,  *)
(* tells the truth; without one the numbers do.                            *)
Truthful(e) ==
    /\ "open" \in e.label => e.open
    /\ e.label \cap ClosedWords # {} => ~e.open
    /\ e.label = {} => e.open = (e.size > e.enrl)

Entry == {e \in [listed : {TRUE}, open : BOOLEAN, label : Labels, size : Seats, enrl : Seats] :
             Truthful(e)}

ASSUME ScheduleAssumption ==
    /\ Layouts \subseteq Seq(Required \cup {"room", "info"})
    /\ \A l \in Layouts : IsInjective(l)
    /\ Labels \subseteq SUBSET ({"open"} \cup ClosedWords)
    /\ Seats \subseteq Nat

VARIABLES
    catalog,   \* the school: what it lists for each section
    layout,    \* ... the columns of its results tables
    inverted,  \* ... whether the CSS class of a status says its opposite
    notes,     \* ... whether sections are followed by a row of notes
    site,      \* ... whether it serves results, a notice, or errors
    strict,    \* ... whether its search takes a Course ID literally
    pc,        \* the client: its place in fetch_section
    wanted,    \* ... the section it is asked for, as <<zeros, id>>
    verdict    \* ... what fetch_section returned or raised last

school == <<catalog, layout, inverted, notes, site, strict>>
client == <<pc, wanted, verdict>>
vars == <<school, client>>

Verdict == [kind : {"none", "RateLimited", "Unavailable", "NotOnPage", "FormatChanged"}]
    \cup [kind : {"observed"}, status : {"open", "closed"}, open : Nat, total : Nat]
Error(kind) == [kind |-> kind]

TypeOK ==
    /\ catalog \in [Ids -> Entry \cup {NoEntry}]
    /\ layout \in Layouts
    /\ inverted \in BOOLEAN /\ notes \in BOOLEAN
    /\ site \in {"results", "notice", "error"}
    /\ strict \in BOOLEAN
    /\ pc \in {"idle", "slots", "get", "post"}
    /\ wanted \in (0..1) \X Ids
    /\ verdict \in Verdict

Init ==
    /\ catalog = [i \in Ids |-> NoEntry]
    /\ layout \in Layouts
    /\ inverted = TRUE /\ notes = FALSE
    /\ site = "results"
    /\ strict \in BOOLEAN
    /\ pc = "idle"
    /\ wanted \in (0..1) \X Ids
    /\ verdict = Error("none")

-----------------------------------------------------------------------------
(* The page.                                                               *)
CellOf(i, column) ==
    LET e == catalog[i] IN
    CASE column = "id"   -> [Blank EXCEPT !.id = <<1, i>>, !.num = 9]
      [] column = "size" -> [Blank EXCEPT !.id = Text, !.num = e.size]
      [] column = "enrl" -> [Blank EXCEPT !.id = Text, !.num = e.enrl]
      [] column = "status" ->
            [Blank EXCEPT !.id = Text, !.words = e.label,
                          !.class = IF e.open # inverted THEN "openSession" ELSE "CloseSession"]
      [] OTHER -> [Blank EXCEPT !.id = Text, !.num = 3, !.words = {"open"}]

RowOf(i)   == [colspan |-> FALSE, cells |-> [k \in DOMAIN layout |-> CellOf(i, layout[k])]]
NotesRow   == [colspan |-> TRUE, cells |-> <<[Blank EXCEPT !.id = Text]>>]
RowsOf(i)  == {RowOf(i)} \cup (IF notes THEN {NotesRow} ELSE {})
TableOf(i) == [thead |-> layout, rows |-> RowsOf(i)]
Furniture  == [thead |-> <<>>, rows |-> {}]         \* a table without a <thead>

ResultsPage(found) == {Furniture} \cup {TableOf(i) : i \in found}
NoticePage         == {Furniture}

(* What a search for the Course ID posted finds: that section, if it is    *)
(* listed and the school understands the spelling, and maybe others.       *)
Listed     == {i \in Ids : catalog[i].listed}
Understood == strict => wanted[1] = 1
Asked      == {i \in Listed : i = wanted[2] /\ Understood}
Answers    == {Asked \cup others : others \in SUBSET (Listed \ {wanted[2]})}

-----------------------------------------------------------------------------
(* The parser.                                                             *)
MissesColumn(table) == ~(Required \subseteq ToSet(table.thead))

(* _column_index: by name, 0 where there is none; _cell_text: blank where  *)
(* the row is too short.                                                   *)
Column(table, name) ==
    IF name \in ToSet(table.thead) THEN CHOOSE k \in DOMAIN table.thead : table.thead[k] = name
                                   ELSE 0

Cell(table, row, name) ==
    LET k == Column(table, name) IN IF k \in DOMAIN row.cells THEN row.cells[k] ELSE Blank

\* Variants (each definition named ...X is the one after it with a seeded bug,
\* kept to show which property notices): the class decides.
StatusFromCellX(table, row) ==
    IF Cell(table, row, "status").class = "CloseSession" THEN "closed" ELSE "open"

StatusFromCell(table, row) ==
    LET label == Cell(table, row, "status").words
        free  == Cell(table, row, "size").num > Cell(table, row, "enrl").num
    IN  IF \/ "open" \in label
           \/ label \cap ClosedWords = {} /\ free
        THEN "open" ELSE "closed"

\* An overfull section has a negative number of free seats.
SeatsOpenX(size, enrolled) == size - enrolled

SeatsOpen(size, enrolled) == Max({size - enrolled, 0})

Observation(table, row) ==
    LET size == Cell(table, row, "size").num IN
    [kind   |-> "observed",
     status |-> StatusFromCell(table, row),
     open   |-> SeatsOpen(size, Cell(table, row, "enrl").num),
     total  |-> size]

(* Rows that are neither notes nor blank, in any table of the page.        *)
ResultTables(page) == {t \in page : t.thead # <<>>}

SectionRows(page) ==
    UNION {{<<t, r>> : r \in {q \in t.rows : ~q.colspan /\ Cell(t, q, "id").id # <<>>}}
              : t \in ResultTables(page)}

\* Ids are compared as they are written.
SameIdX(id, crn) == id = crn

SameId(id, crn) == id[2] = crn[2]    \* both without their leading zeros

(* parse_section.                                                          *)
\* A page without results lists nothing.
ReadableX(page) == \A t \in ResultTables(page) : ~MissesColumn(t)

Readable(page) ==
    /\ ResultTables(page) # {}
    /\ \A t \in ResultTables(page) : ~MissesColumn(t)

ParseSection(page, crn) ==
    LET matches == {o \in SectionRows(page) : SameId(Cell(o[1], o[2], "id").id, crn)} IN
    IF ~Readable(page) THEN Error("FormatChanged")
    ELSE IF matches = {} THEN Error("NotOnPage")
    ELSE LET o == CHOOSE m \in matches : TRUE IN Observation(o[1], o[2])

-----------------------------------------------------------------------------
(* The school.                                                             *)
Enrol ==
    /\ \E i \in Ids, e \in Entry \cup {NoEntry} : catalog' = [catalog EXCEPT ![i] = e]
    /\ UNCHANGED <<layout, inverted, notes, site, strict, client>>

Redesign ==
    /\ layout' \in Layouts
    /\ inverted' \in BOOLEAN
    /\ notes' \in BOOLEAN
    /\ UNCHANGED <<catalog, site, strict, client>>

GoesUpOrDown ==
    /\ site' \in {"results", "notice", "error"} \ {site}
    /\ UNCHANGED <<catalog, layout, inverted, notes, strict, client>>

(* The client.                                                             *)
Answer(v) == pc' = "idle" /\ verdict' = v

Fetch(crn) ==
    /\ pc = "idle"
    /\ pc' = "slots"
    /\ wanted' = crn
    /\ verdict' = Error("none")
    /\ UNCHANGED school

SpendSlots ==
    /\ pc = "slots"
    /\ \/ pc' = "get" /\ UNCHANGED verdict
       \/ Answer(Error("RateLimited"))
    /\ UNCHANGED <<school, wanted>>

(* An HTTP status of 400 or more, a transport error, or a form without its *)
(* anti-forgery token.                                                     *)
GetForm ==
    /\ pc = "get"
    /\ IF site = "results" THEN pc' = "post" /\ UNCHANGED verdict
                           ELSE Answer(Error("Unavailable"))
    /\ UNCHANGED <<school, wanted>>

PostSearch ==
    /\ pc = "post"
    /\ \/ site = "error"   /\ Answer(Error("Unavailable"))
       \/ site = "notice"  /\ Answer(ParseSection(NoticePage, wanted))
       \/ site = "results" /\ \E found \in Answers :
                                  Answer(ParseSection(ResultsPage(found), wanted))
    /\ UNCHANGED <<school, wanted>>

Next ==
    \/ Enrol \/ Redesign \/ GoesUpOrDown
    \/ \E crn \in (0..1) \X Ids : Fetch(crn)
    \/ SpendSlots \/ GetForm \/ PostSearch

Spec == Init /\ [][Next]_vars

-----------------------------------------------------------------------------
Searched == pc = "post" /\ pc' = "idle"
Entered  == catalog[wanted[2]]

(* An observation is what the school lists for that section at that        *)
(* moment, wherever its columns are, whatever its classes say and whatever *)
(* the cells next to it contain (parser.py:13-39).                         *)
ObservationIsTrue ==
    [][Searched /\ verdict'.kind = "observed" =>
          /\ site = "results" /\ Entered.listed
          /\ verdict'.status = IF Entered.open THEN "open" ELSE "closed"
          /\ verdict'.open = Max({Entered.size - Entered.enrl, 0})
          /\ verdict'.total = Entered.size]_vars

(* A section is reported gone only by a results page that lists others: no *)
(* outage, notice or redesign is mistaken for it (parser.py:224-226).  Nor *)
(* is an empty result: a search that finds nothing at all is a change of   *)
(* format to the parser.                                                   *)
GoneMeansGone ==
    [][Searched /\ verdict'.kind = "NotOnPage" =>
          /\ site = "results" /\ Required \subseteq ToSet(layout)
          /\ ~(Entered.listed /\ Understood)
          /\ Listed \ {wanted[2]} # {}]_vars

(* A section that is listed in a table with all the columns is found,      *)
(* however the watch wrote its id, if the school's search understands it   *)
(* (client.py:134 posts it as it was written), and whatever was moved,     *)
(* inserted or noted around it (parser.py:251-267).                        *)
ListedIsFound ==
    [][Searched /\ site = "results" /\ Entered.listed /\ Understood
                /\ Required \subseteq ToSet(layout)
          => verdict'.kind = "observed"]_vars

=============================================================================
