--------------------------- MODULE ScheduleProofs ---------------------------
(* Proofs about Schedule: for any sections, layouts, labels and numbers of *)
(* seats, what the parser makes of a results page is what the school       *)
(* lists.                                                                  *)
EXTENDS Schedule, TLAPS

(* The tables have every column the parser asks for.                       *)
Complete == Required \subseteq ToSet(layout)

-----------------------------------------------------------------------------
LEMMA MaxOfTwo ==
    ASSUME NEW d \in Int
    PROVE  /\ Max({d, 0}) \in Nat
           /\ Max({d, 0}) = IF d > 0 THEN d ELSE 0
<1> DEFINE m == IF d > 0 THEN d ELSE 0
<1>1. m \in {d, 0} /\ \A y \in {d, 0} : m >= y
  OBVIOUS
<1>2. \A x \in {d, 0} : (\A y \in {d, 0} : x >= y) => x = m
  OBVIOUS
<1> HIDE DEF m
<1>3. Max({d, 0}) = m
  BY <1>1, <1>2 DEF Max
<1> QED BY <1>3 DEF m

LEMMA ColumnFinds ==
    ASSUME NEW t, NEW name \in ToSet(t.thead)
    PROVE  Column(t, name) \in DOMAIN t.thead /\ t.thead[Column(t, name)] = name
<1>1. \E k \in DOMAIN t.thead : t.thead[k] = name
  BY DEF ToSet
<1> QED BY <1>1 DEF Column

(* Each column is read where it is, wherever that is.                      *)
LEMMA CellIsFound ==
    ASSUME Complete, NEW i, NEW name \in Required
    PROVE  Cell(TableOf(i), RowOf(i), name) = CellOf(i, name)
<1> DEFINE k == Column(TableOf(i), name)
<1>1. TableOf(i).thead = layout
  BY DEF TableOf
<1>2. k \in DOMAIN layout /\ layout[k] = name
  BY <1>1, ColumnFinds DEF Complete
<1>3. RowOf(i).cells = [j \in DOMAIN layout |-> CellOf(i, layout[j])]
  BY DEF RowOf
<1> HIDE DEF k
<1>4. k \in DOMAIN RowOf(i).cells /\ RowOf(i).cells[k] = CellOf(i, name)
  BY <1>2, <1>3
<1> QED BY <1>4 DEF Cell, k

LEMMA CellSays ==
    ASSUME NEW i
    PROVE  /\ CellOf(i, "id").id = <<1, i>>
           /\ CellOf(i, "size").num = catalog[i].size
           /\ CellOf(i, "enrl").num = catalog[i].enrl
           /\ CellOf(i, "status").words = catalog[i].label
BY DEF CellOf, Blank

LEMMA ObservationKind ==
    ASSUME NEW t, NEW r PROVE Observation(t, r).kind = "observed"
BY DEF Observation

LEMMA EntryFacts ==
    ASSUME TypeOK, NEW i \in Listed
    PROVE  /\ catalog[i] \in Entry
           /\ catalog[i].size \in Nat /\ catalog[i].enrl \in Nat
           /\ catalog[i].open \in BOOLEAN
           /\ catalog[i].label \subseteq {"open"} \cup ClosedWords
           /\ Truthful(catalog[i])
<1>1. catalog[i] \in Entry
  BY DEF TypeOK, Listed, NoEntry
<1> QED BY <1>1, ScheduleAssumption DEF Entry

(* What is read off the row of a section is what the school lists of it.   *)
LEMMA ObservationReads ==
    ASSUME TypeOK, Complete, NEW i \in Listed
    PROVE  Observation(TableOf(i), RowOf(i)) =
               [kind   |-> "observed",
                status |-> IF catalog[i].open THEN "open" ELSE "closed",
                open   |-> Max({catalog[i].size - catalog[i].enrl, 0}),
                total  |-> catalog[i].size]
<1> DEFINE e == catalog[i]
<1>1. {"id", "size", "enrl", "status"} \subseteq Required
  BY DEF Required
<1>2. /\ Cell(TableOf(i), RowOf(i), "size").num = e.size
      /\ Cell(TableOf(i), RowOf(i), "enrl").num = e.enrl
      /\ Cell(TableOf(i), RowOf(i), "status").words = e.label
  BY <1>1, CellIsFound, CellSays
<1>3. StatusFromCell(TableOf(i), RowOf(i)) = IF e.open THEN "open" ELSE "closed"
  <2>1. StatusFromCell(TableOf(i), RowOf(i)) =
            IF "open" \in e.label \/ (e.label \cap ClosedWords = {} /\ e.size > e.enrl)
            THEN "open" ELSE "closed"
    BY <1>2 DEF StatusFromCell
  <2>2. e.label = {} \/ "open" \in e.label \/ e.label \cap ClosedWords # {}
    BY EntryFacts
  <2>3. e.open <=> "open" \in e.label \/ (e.label \cap ClosedWords = {} /\ e.size > e.enrl)
    BY <2>2, EntryFacts DEF Truthful
  <2> QED BY <2>1, <2>3
<1> QED BY <1>2, <1>3 DEF Observation, SeatsOpen

-----------------------------------------------------------------------------
(* The rows the parser looks at are the rows of the sections found: no     *)
(* furniture, no notes.                                                    *)
LEMMA CompleteIsHeaded ==
    ASSUME Complete
    PROVE  layout # <<>>
<1>1. "id" \in ToSet(layout)
  BY DEF Complete, Required
<1>2. ToSet(<<>>) = {}
  BY DEF ToSet
<1> QED BY <1>1, <1>2

LEMMA TablesRead ==
    ASSUME NEW found
    PROVE  ResultTables(ResultsPage(found)) =
               IF layout = <<>> THEN {} ELSE {TableOf(i) : i \in found}
BY DEF ResultTables, ResultsPage, Furniture, TableOf

LEMMA NoticeIsUnreadable == ParseSection(NoticePage, wanted) = Error("FormatChanged")
<1>1. ResultTables(NoticePage) = {}
  BY DEF ResultTables, NoticePage, Furniture
<1> QED BY <1>1 DEF ParseSection, Readable

LEMMA ReadableIsComplete ==
    ASSUME NEW found
    PROVE  Readable(ResultsPage(found)) <=> Complete /\ found # {}
<1>1. ASSUME NEW i PROVE MissesColumn(TableOf(i)) <=> ~Complete
  BY DEF MissesColumn, TableOf, Complete
<1>2. CASE layout = <<>>
  BY <1>2, TablesRead, CompleteIsHeaded DEF Readable
<1>3. CASE layout # <<>>
  <2> DEFINE tables == {TableOf(i) : i \in found}
  <2>1. ResultTables(ResultsPage(found)) = tables
    BY <1>3, TablesRead
  <2>2. tables # {} <=> found # {}
    OBVIOUS
  <2>3. (\A t \in tables : ~MissesColumn(t)) <=> \A i \in found : Complete
    BY <1>1
  <2> HIDE DEF tables
  <2>4. Readable(ResultsPage(found)) <=> tables # {} /\ \A t \in tables : ~MissesColumn(t)
    BY <2>1 DEF Readable
  <2> QED BY <2>2, <2>3, <2>4
<1> QED BY <1>2, <1>3

LEMMA RowsRead ==
    ASSUME Complete, NEW found
    PROVE  SectionRows(ResultsPage(found)) = {<<TableOf(i), RowOf(i)>> : i \in found}
<1>1. ResultTables(ResultsPage(found)) = {TableOf(i) : i \in found}
  BY TablesRead, CompleteIsHeaded
<1>2. ASSUME NEW i
      PROVE  {q \in TableOf(i).rows : ~q.colspan /\ Cell(TableOf(i), q, "id").id # <<>>}
                 = {RowOf(i)}
  <2>1. TableOf(i).rows = {RowOf(i)} \cup (IF notes THEN {NotesRow} ELSE {})
    BY DEF TableOf, RowsOf
  <2>2. NotesRow.colspan = TRUE /\ RowOf(i).colspan = FALSE
    BY DEF NotesRow, RowOf
  <2>3. Cell(TableOf(i), RowOf(i), "id").id = <<1, i>>
    BY CellIsFound, CellSays DEF Required
  <2>4. <<1, i>> # <<>>
    OBVIOUS
  <2> QED BY <2>1, <2>2, <2>3, <2>4
<1> QED BY <1>1, <1>2 DEF SectionRows

(* parse_section on a results page, in full.                               *)
LEMMA ParseReads ==
    ASSUME NEW found
    PROVE  /\ ~(Complete /\ found # {}) =>
                  ParseSection(ResultsPage(found), wanted) = Error("FormatChanged")
           /\ Complete /\ found # {} /\ wanted[2] \notin found =>
                  ParseSection(ResultsPage(found), wanted) = Error("NotOnPage")
           /\ Complete /\ wanted[2] \in found =>
                  ParseSection(ResultsPage(found), wanted) =
                      Observation(TableOf(wanted[2]), RowOf(wanted[2]))
<1> DEFINE matches == {o \in SectionRows(ResultsPage(found)) :
                          SameId(Cell(o[1], o[2], "id").id, wanted)}
<1>0. ParseSection(ResultsPage(found), wanted) =
          IF ~Readable(ResultsPage(found)) THEN Error("FormatChanged")
          ELSE IF matches = {} THEN Error("NotOnPage")
          ELSE Observation((CHOOSE m \in matches : TRUE)[1], (CHOOSE m \in matches : TRUE)[2])
  BY DEF ParseSection
<1>1. ASSUME Complete
      PROVE  matches = {<<TableOf(i), RowOf(i)>> : i \in found \cap {wanted[2]}}
  <2>1. ASSUME NEW i
        PROVE  SameId(Cell(TableOf(i), RowOf(i), "id").id, wanted) <=> i = wanted[2]
    BY <1>1, CellIsFound, CellSays DEF SameId, Required
  <2> QED BY <1>1, <2>1, RowsRead
<1> HIDE DEF matches
<1>2. CASE ~(Complete /\ found # {})
  BY <1>0, <1>2, ReadableIsComplete
<1>3. CASE Complete /\ found # {} /\ wanted[2] \notin found
  <2>1. matches = {}
    BY <1>1, <1>3
  <2> QED BY <1>0, <1>3, <2>1, ReadableIsComplete
<1>4. CASE Complete /\ wanted[2] \in found
  <2>1. matches = {<<TableOf(wanted[2]), RowOf(wanted[2])>>}
    BY <1>1, <1>4
  <2>2. (CHOOSE m \in matches : TRUE) = <<TableOf(wanted[2]), RowOf(wanted[2])>>
    BY <2>1
  <2> QED BY <1>0, <1>4, <2>1, <2>2, ReadableIsComplete
<1> QED BY <1>2, <1>3, <1>4

(* What a search finds is listed, and it finds what was asked for if that  *)
(* is listed and understood.                                               *)
LEMMA AnswersFind ==
    ASSUME NEW found \in Answers
    PROVE  /\ found \subseteq Listed
           /\ wanted[2] \in found <=> wanted[2] \in Listed /\ Understood
BY DEF Answers, Asked

-----------------------------------------------------------------------------
(* A search ends with an outage, a notice, or a results page that is read. *)
LEMMA SearchEnds ==
    ASSUME TypeOK, [Next]_vars, pc = "post", pc' = "idle"
    PROVE  /\ UNCHANGED <<school, wanted>>
           /\ \E found \in Answers :
                 verdict' = CASE site = "error"   -> Error("Unavailable")
                              [] site = "notice"  -> Error("FormatChanged")
                              [] site = "results" -> ParseSection(ResultsPage(found), wanted)
<1>1. PostSearch
  BY DEF Next, Enrol, Redesign, GoesUpOrDown, Fetch, SpendSlots, GetForm, client, vars
<1>2. Asked \in Answers
  <2>1. Asked = Asked \cup {} /\ {} \in SUBSET (Listed \ {wanted[2]})
    OBVIOUS
  <2> QED BY <2>1 DEF Answers
<1>3. UNCHANGED <<school, wanted>>
  BY <1>1 DEF PostSearch
<1>4. CASE site = "error" /\ verdict' = Error("Unavailable")
  BY <1>2, <1>3, <1>4
<1>5. CASE site = "notice" /\ verdict' = Error("FormatChanged")
  BY <1>2, <1>3, <1>5
<1>6. ASSUME site = "results", NEW found \in Answers,
             verdict' = ParseSection(ResultsPage(found), wanted)
      PROVE  \E f \in Answers :
                 verdict' = CASE site = "error"   -> Error("Unavailable")
                              [] site = "notice"  -> Error("FormatChanged")
                              [] site = "results" -> ParseSection(ResultsPage(f), wanted)
  BY <1>6
<1>7. \/ site = "error" /\ verdict' = Error("Unavailable")
      \/ site = "notice" /\ verdict' = Error("FormatChanged")
      \/ site = "results" /\ \E found \in Answers :
                                verdict' = ParseSection(ResultsPage(found), wanted)
  BY <1>1, NoticeIsUnreadable DEF PostSearch, Answer
<1> QED BY <1>3, <1>4, <1>5, <1>6, <1>7

LEMMA ErrorKinds ==
    \A kind : Error(kind).kind = kind
BY DEF Error

LEMMA ParseType ==
    ASSUME TypeOK, NEW found \in Answers
    PROVE  ParseSection(ResultsPage(found), wanted) \in Verdict
<1>1. Error("FormatChanged") \in Verdict /\ Error("NotOnPage") \in Verdict
  BY DEF Error, Verdict
<1>2. CASE Complete /\ wanted[2] \in found
  <2>0. wanted[2] \in Listed
    BY <1>2, AnswersFind
  <2> DEFINE e == catalog[wanted[2]]
  <2>1. e.size \in Nat /\ e.size - e.enrl \in Int
    BY <2>0, EntryFacts
  <2>2. Max({e.size - e.enrl, 0}) \in Nat
    BY <2>1, MaxOfTwo
  <2>3. ParseSection(ResultsPage(found), wanted) =
            [kind |-> "observed", status |-> IF e.open THEN "open" ELSE "closed",
             open |-> Max({e.size - e.enrl, 0}), total |-> e.size]
    BY <1>2, <2>0, ParseReads, ObservationReads
  <2> HIDE DEF e
  <2> QED BY <2>1, <2>2, <2>3 DEF Verdict
<1> QED BY <1>1, <1>2, ParseReads

LEMMA TypeStep == TypeOK /\ [Next]_vars => TypeOK'
<1> SUFFICES ASSUME TypeOK, [Next]_vars PROVE TypeOK'
  OBVIOUS
<1> USE DEF TypeOK
<1>0. \A kind \in {"none", "RateLimited", "Unavailable", "NotOnPage", "FormatChanged"} :
          Error(kind) \in Verdict
  BY DEF Error, Verdict
<1>1. CASE Enrol
  BY <1>1 DEF Enrol, client
<1>2. CASE Redesign
  BY <1>2 DEF Redesign, client
<1>3. CASE GoesUpOrDown
  BY <1>3 DEF GoesUpOrDown, client
<1>4. ASSUME NEW crn \in (0..1) \X Ids, Fetch(crn) PROVE TypeOK'
  BY <1>0, <1>4 DEF Fetch, school
<1>5. CASE SpendSlots \/ GetForm
  BY <1>0, <1>5 DEF SpendSlots, GetForm, Answer, school
<1>6. CASE PostSearch
  <2>1. pc = "post" /\ pc' = "idle" /\ UNCHANGED <<school, wanted>>
    BY <1>6 DEF PostSearch, Answer
  <2>2. verdict' \in Verdict
    BY <1>0, <2>1, SearchEnds, ParseType
  <2> QED BY <2>1, <2>2 DEF school
<1>7. CASE UNCHANGED vars
  BY <1>7 DEF vars, school, client
<1> QED BY <1>1, <1>2, <1>3, <1>4, <1>5, <1>6, <1>7 DEF Next

THEOREM ScheduleTypes == Spec => []TypeOK
<1>1. Init => TypeOK
  <2> SUFFICES ASSUME Init PROVE TypeOK
    OBVIOUS
  <2>1. verdict \in Verdict
    BY DEF Init, Error, Verdict
  <2>2. catalog \in [Ids -> Entry \cup {NoEntry}]
    BY DEF Init
  <2> QED BY <2>1, <2>2 DEF Init, TypeOK
<1> QED BY <1>1, TypeStep, PTL DEF Spec

-----------------------------------------------------------------------------
(* An observation is what the school lists at that moment: the columns are *)
(* found by name, a label is believed and the numbers are without one, and *)
(* no class, note, outage or neighbouring cell is taken for it.            *)
THEOREM ObservationsAreTrue == Spec => ObservationIsTrue
<1> DEFINE True ==
        Searched /\ verdict'.kind = "observed" =>
            /\ site = "results" /\ Entered.listed
            /\ verdict'.status = IF Entered.open THEN "open" ELSE "closed"
            /\ verdict'.open = Max({Entered.size - Entered.enrl, 0})
            /\ verdict'.total = Entered.size
<1>1. TypeOK /\ [Next]_vars => True
  <2> SUFFICES ASSUME TypeOK, [Next]_vars, Searched, verdict'.kind = "observed"
               PROVE  /\ site = "results" /\ Entered.listed
                      /\ verdict'.status = IF Entered.open THEN "open" ELSE "closed"
                      /\ verdict'.open = Max({Entered.size - Entered.enrl, 0})
                      /\ verdict'.total = Entered.size
    OBVIOUS
  <2>1. PICK found \in Answers :
            site = "results" /\ verdict' = ParseSection(ResultsPage(found), wanted)
    BY SearchEnds, ErrorKinds DEF Searched, TypeOK
  <2>2. Complete /\ wanted[2] \in found
    BY <2>1, ParseReads, ErrorKinds
  <2>3. verdict' = Observation(TableOf(wanted[2]), RowOf(wanted[2]))
    BY <2>1, <2>2, ParseReads
  <2>4. wanted[2] \in Listed
    BY <2>2, AnswersFind
  <2> QED BY <2>1, <2>2, <2>3, <2>4, ObservationReads DEF Entered, Listed
<1>2. TypeOK /\ [Next]_vars => [True]_vars
  BY <1>1
<1> QED BY <1>2, ScheduleTypes, PTL DEF ObservationIsTrue, Spec

(* A section is reported gone only by a results page with all the columns  *)
(* that lists others and not that section, or by a school that does not    *)
(* understand how the watch wrote its id.                                  *)
THEOREM GoneIsGone == Spec => GoneMeansGone
<1> DEFINE Gone ==
        Searched /\ verdict'.kind = "NotOnPage" =>
            /\ site = "results" /\ Required \subseteq ToSet(layout)
            /\ ~(Entered.listed /\ Understood)
            /\ Listed \ {wanted[2]} # {}
<1>1. TypeOK /\ [Next]_vars => Gone
  <2> SUFFICES ASSUME TypeOK, [Next]_vars, Searched, verdict'.kind = "NotOnPage"
               PROVE  /\ site = "results" /\ Required \subseteq ToSet(layout)
                      /\ ~(Entered.listed /\ Understood)
                      /\ Listed \ {wanted[2]} # {}
    OBVIOUS
  <2>1. PICK found \in Answers :
            site = "results" /\ verdict' = ParseSection(ResultsPage(found), wanted)
    BY SearchEnds, ErrorKinds DEF Searched, TypeOK
  <2>2. CASE Complete /\ wanted[2] \in found
    <3>1. verdict' = Observation(TableOf(wanted[2]), RowOf(wanted[2]))
      BY <2>1, <2>2, ParseReads
    <3>2. verdict'.kind = "observed"
      BY <3>1, ObservationKind
    <3> QED BY <3>2
  <2>3. CASE ~(Complete /\ wanted[2] \in found)
    <3>1. Complete /\ found # {} /\ wanted[2] \notin found
      BY <2>1, <2>3, ParseReads, ErrorKinds
    <3>2. ~(wanted[2] \in Listed /\ Understood) /\ found \subseteq Listed
      BY <3>1, AnswersFind
    <3> QED BY <2>1, <3>1, <3>2 DEF Entered, Listed, Complete, TypeOK
  <2> QED BY <2>2, <2>3
<1>2. TypeOK /\ [Next]_vars => [Gone]_vars
  BY <1>1
<1> QED BY <1>2, ScheduleTypes, PTL DEF GoneMeansGone, Spec

(* A section that is listed in a table with all the columns is found by a  *)
(* search that understands its id.                                         *)
THEOREM ListedAreFound == Spec => ListedIsFound
<1> DEFINE Found ==
        Searched /\ site = "results" /\ Entered.listed /\ Understood
            /\ Required \subseteq ToSet(layout)
            => verdict'.kind = "observed"
<1>1. TypeOK /\ [Next]_vars => Found
  <2> SUFFICES ASSUME TypeOK, [Next]_vars, Searched, site = "results", Entered.listed,
                      Understood, Required \subseteq ToSet(layout)
               PROVE  verdict'.kind = "observed"
    OBVIOUS
  <2>1. PICK found \in Answers : verdict' = ParseSection(ResultsPage(found), wanted)
    BY SearchEnds DEF Searched
  <2>2. Complete /\ wanted[2] \in found
    BY AnswersFind DEF Complete, Entered, Listed, TypeOK
  <2>3. verdict' = Observation(TableOf(wanted[2]), RowOf(wanted[2]))
    BY <2>1, <2>2, ParseReads
  <2> QED BY <2>3, ObservationKind
<1>2. TypeOK /\ [Next]_vars => [Found]_vars
  BY <1>1
<1> QED BY <1>2, ScheduleTypes, PTL DEF ListedIsFound, Spec

=============================================================================
