---------------------------- MODULE SyllabusMatrix ----------------------------
(***************************************************************************)
(* The distribution matrix of one syllabus: SyllabusUseCase with its       *)
(* repository, each call of which is a transaction, and the optimistic     *)
(* Pinia store and matrix component of every coordinator that has the      *)
(* syllabus open. A cell is a template, a week and a row (topic and        *)
(* subtopic). Requests of one coordinator overlap: the input of a cell     *)
(* that is being saved is not disabled.                                    *)
(***************************************************************************)
EXTENDS Integers, FiniteSets, FiniteSetsExt

CONSTANTS
    Coordinators,
    MatrixTemplates, MatrixWeeks, MatrixRows,
    ActiveWeeks,        \* the weeks of the cycle whose inputs are enabled
    WeekLimit,          \* WEEKLY_QUESTION_LIMIT
    CellLimit,          \* what the template allows in a cell
    MaxInFlight,        \* bound on the requests of a coordinator in flight
    MaxEdits,           \* bound on the edits
    MaxLost             \* bound on the answers that are lost

ASSUME MatrixAssumption ==
    /\ IsFiniteSet(Coordinators)
    /\ WeekLimit \in Nat \ {0} /\ CellLimit \in Nat \ {0}
    /\ MaxInFlight \in Nat /\ MaxEdits \in Nat /\ MaxLost \in Nat

VARIABLES
    storedMatrix,     \* syllabus_distribution: rows with an id, a cell and a count
    shown,      \* per coordinator: store.distributions
    chosen,     \* per coordinator: selectedTemplateId
    savedTemplate,  \* per coordinator: the templateId of store.syllabus
    flight,     \* per coordinator: the requests without an answer
    edits,      \* edits so far, which number the ids
    lost,       \* answers lost so far
    peak,       \* per week: the most writers that were past their check at once
    blurred     \* pairs of a coordinator and a cell the matrix promises nothing of

matrixVars == <<storedMatrix, shown, chosen, savedTemplate, flight, edits, lost, peak, blurred>>

Cells == MatrixTemplates \X MatrixWeeks \X MatrixRows
WeekOf(cell) == cell[2]
SumWeek(rows, week) == MapThenSumSet(LAMBDA d : d.count, {d \in rows : WeekOf(d.cell) = week})
RowWith(rows, id) == {d \in rows : d.id = id}

MatrixInit ==
    /\ storedMatrix = {} /\ edits = 0 /\ lost = 0 /\ blurred = {}
    /\ shown = [k \in Coordinators |-> {}]
    /\ chosen \in [Coordinators -> MatrixTemplates]
    /\ \E saved \in MatrixTemplates : savedTemplate = [k \in Coordinators |-> saved]
    /\ flight = [k \in Coordinators |-> {}]
    /\ peak = [w \in MatrixWeeks |-> 1]

-----------------------------------------------------------------------------
(* The matrix component and the store: what an edit shows at once and what *)
(* its request is.                                                         *)

\* The row of the store that an input shows: the template is not looked at.
CellRows(k, week, row) == {d \in shown[k] : d.cell[2] = week /\ d.cell[3] = row}
GetCellValue(k, week, row) ==
    IF CellRows(k, week, row) = {} THEN 0 ELSE (CHOOSE d \in CellRows(k, week, row) : TRUE).count

Request(kind, id, cell, value, prev) ==
    [kind |-> kind, id |-> id, cell |-> cell, value |-> value, prev |-> prev,
     pc |-> "sent", rows |-> {}, bound |-> TRUE]

\* An edit that overlaps another request for its input, or a load, is not promised to be
\* shown as stored, in any template: a delete of a row of the template before that is
\* refused after the load has been answered puts that row back into the new matrix.
CellsOverlap(k, cell) == \E q \in flight[k] : q.kind = "load" \/ q.cell = cell
CellsOfInput(cell) == {c \in Cells : c[2] = cell[2] /\ c[3] = cell[3]}
Blur(k, cell) == IF CellsOverlap(k, cell) THEN blurred \cup ({k} \X CellsOfInput(cell)) ELSE blurred
Send(k, q) ==
    /\ Cardinality(flight[k]) < MaxInFlight
    /\ flight' = [flight EXCEPT ![k] = @ \cup {q}]

\* updateCell without a row: addDistribution pushes a row with a temporary id.
AddCell(k, week, row, value) ==
    LET cell == <<chosen[k], week, row>>
        temp == [id |-> 0 - edits - 1, cell |-> cell, count |-> value]
    IN  /\ CellRows(k, week, row) = {} /\ value > 0
        /\ shown' = [shown EXCEPT ![k] = @ \cup {temp}]
        /\ Send(k, Request("add", temp.id, cell, value, 0))
        /\ blurred' = Blur(k, cell)

UpdateCell(k, d, value) ==
    /\ value > 0 /\ value # d.count
    /\ shown' = [shown EXCEPT ![k] = (@ \ {d}) \cup {[d EXCEPT !.count = value]}]
    /\ Send(k, Request("update", d.id, d.cell, value, d.count))
    /\ blurred' = Blur(k, d.cell)

DeleteCell(k, d) ==
    /\ shown' = [shown EXCEPT ![k] = @ \ {d}]
    /\ Send(k, Request("delete", d.id, d.cell, 0, d.count))
    /\ blurred' = Blur(k, d.cell)

\* A hidden week shows a lock in the place of its inputs.
InputEnabled(week) == week \in ActiveWeeks
\* targetQuestionsQuantity, or 100 when the template does not name the course.
WithinLimit(value) == value \in 1 .. CellLimit

\* An input loses the focus: updateCell. An empty input deletes the row.
Edit(k) ==
    /\ edits < MaxEdits /\ edits' = edits + 1
    /\ \E week \in MatrixWeeks, row \in MatrixRows :
        /\ InputEnabled(week)
        /\ \/ \E value \in {v \in 1 .. CellLimit + 1 : WithinLimit(v)} :
                \/ AddCell(k, week, row, value)
                \/ \E d \in CellRows(k, week, row) : UpdateCell(k, d, value)
           \/ \E d \in CellRows(k, week, row) : DeleteCell(k, d)
    /\ UNCHANGED <<storedMatrix, chosen, savedTemplate, lost, peak>>

\* removeRow, removeTopic and clearWeek, once confirmed, delete what the store holds of
\* a row or of a week, hidden weeks too, one request after the other.
RemoveCells(k) ==
    /\ edits < MaxEdits /\ edits' = edits + 1
    /\ \E d \in shown[k] : DeleteCell(k, d)
    /\ UNCHANGED <<storedMatrix, chosen, savedTemplate, lost, peak>>

\* A load that is alone shows every cell anew; with others it leaves none promised.
Reloaded(k) == IF flight[k] = {} THEN blurred \ ({k} \X Cells) ELSE blurred \cup ({k} \X Cells)
AskLoad(k, template, pc) ==
    /\ edits < MaxEdits /\ edits' = edits + 1
    /\ chosen' = [chosen EXCEPT ![k] = template]
    /\ Send(k, [Request("load", edits + 1, <<template, 0, 0>>, 0, 0) EXCEPT !.pc = pc])
    /\ blurred' = Reloaded(k)
    /\ UNCHANGED <<storedMatrix, shown, lost, peak>>

\* Another template is picked: setTemplate takes it over at once, and once it is saved
\* and the templates are fetched, its cells are. Those of the template before stay.
SelectTemplate(k, template) ==
    /\ template # chosen[k] /\ template # savedTemplate[k]
    /\ AskLoad(k, template, "asked")
    /\ savedTemplate' = [savedTemplate EXCEPT ![k] = template]

\* The template that the syllabus has already is picked: nothing is saved, and nothing
\* is fetched either.
SelectSavedTemplate(k) ==
    /\ savedTemplate[k] \in MatrixTemplates \ {chosen[k]}
    /\ edits < MaxEdits /\ edits' = edits + 1
    /\ chosen' = [chosen EXCEPT ![k] = savedTemplate[k]]
    /\ blurred' = blurred \cup ({k} \X Cells)
    /\ UNCHANGED <<storedMatrix, shown, savedTemplate, flight, lost, peak>>

\* loadDistributions, with the template that is selected by then. When the template was
\* not saved or the templates not fetched, there is no load.
LoadDistributions(k, q) ==
    /\ q.kind = "load" /\ q.pc = "asked"
    /\ \/ /\ flight' = [flight EXCEPT ![k] = (@ \ {q}) \cup
                {[q EXCEPT !.pc = "sent", !.cell = <<chosen[k], 0, 0>>]}]
          /\ UNCHANGED <<lost, blurred>>
       \/ /\ lost < MaxLost /\ lost' = lost + 1
          /\ flight' = [flight EXCEPT ![k] = @ \ {q}]
          /\ blurred' = blurred \cup ({k} \X Cells)
    /\ UNCHANGED <<storedMatrix, shown, chosen, savedTemplate, edits, peak>>

\* Back to the list and the syllabus opened again, with any template of the cycle; the
\* list tells which one it has: a syllabus without one is to the matrix as one that has
\* the template selected. A load still to be sent by the matrix that was left counts as
\* sent before and served late.
OpenMatrix(k, template) ==
    /\ \A q \in flight[k] : q.pc # "asked"
    /\ AskLoad(k, template, "sent")
    /\ \E saved \in MatrixTemplates :
          savedTemplate' = [savedTemplate EXCEPT ![k] = saved]

-----------------------------------------------------------------------------
(* SyllabusUseCase                                                         *)

MoveCell(k, q, pc) == flight' = [flight EXCEPT ![k] = (@ \ {q}) \cup {[q EXCEPT !.pc = pc]}]

\* Mutant: the week of one template is summed.
SumOfTemplate(q) ==
    SumWeek({d \in storedMatrix : d.cell[1] = q.cell[1] /\ d.id # q.id}, WeekOf(q.cell))
\* The week without the cell that is written.
SumOfOthers(q) ==
    IF q.kind = "add" THEN SumWeek(storedMatrix, WeekOf(q.cell))
    ELSE SumWeek(storedMatrix \ RowWith(storedMatrix, q.id), WeekOf(q.cell))

\* Requests of any coordinator that are past the check of a week.
Writing(week) == {q \in UNION {flight[k] : k \in Coordinators} :
                    q.kind \in {"add", "update"} /\ q.pc = "checked" /\ WeekOf(q.cell) = week}

\* A temporary id is no uuid and fails the first query. A row that is not there
\* is left to the write.
CheckWeekLimit(k, q) ==
    /\ q.kind \in {"add", "update"} /\ q.pc = "sent"
    /\ LET unknown == q.kind = "update" /\ RowWith(storedMatrix, q.id) = {}
           refused == IF q.kind = "update" /\ q.id < 0 THEN TRUE
                      ELSE ~unknown /\ SumOfOthers(q) + q.value > WeekLimit
           week == WeekOf(q.cell)
       IN  /\ MoveCell(k, q, IF refused THEN "refused" ELSE "checked")
           /\ peak' = IF refused THEN peak
                      ELSE [peak EXCEPT ![week] = Max({@, Cardinality(Writing(week)) + 1})]
    /\ UNCHANGED <<storedMatrix, shown, chosen, savedTemplate, edits, lost, blurred>>

\* A commit leaves what the other coordinators show of the cell behind.
Commit(k, q, rows) ==
    /\ storedMatrix' = rows /\ MoveCell(k, q, "done")
    /\ blurred' = blurred \cup ((Coordinators \ {k}) \X {q.cell})
Refuse(k, q) == MoveCell(k, q, "refused") /\ UNCHANGED <<storedMatrix, blurred>>

\* The insert of a cell that is there violates the unique index; the catch looks
\* for the row in the transaction the violation aborted, and fails too.
CreateDistribution(k, q) ==
    /\ q.kind = "add" /\ q.pc = "checked"
    /\ IF \E d \in storedMatrix : d.cell = q.cell THEN Refuse(k, q)
       ELSE Commit(k, q, storedMatrix \cup {[id |-> 0 - q.id, cell |-> q.cell, count |-> q.value]})
    /\ UNCHANGED <<shown, chosen, savedTemplate, edits, lost, peak>>

UpdateDistributionQuantity(k, q) ==
    /\ q.kind = "update" /\ q.pc = "checked"
    /\ IF RowWith(storedMatrix, q.id) = {} THEN Refuse(k, q)
       ELSE Commit(k, q, {IF d.id = q.id THEN [d EXCEPT !.count = q.value] ELSE d : d \in storedMatrix})
    /\ UNCHANGED <<shown, chosen, savedTemplate, edits, lost, peak>>

DeleteDistribution(k, q) ==
    /\ q.kind = "delete" /\ q.pc = "sent"
    /\ IF RowWith(storedMatrix, q.id) = {} THEN Refuse(k, q)
       ELSE Commit(k, q, storedMatrix \ RowWith(storedMatrix, q.id))
    /\ UNCHANGED <<shown, chosen, savedTemplate, edits, lost, peak>>

\* getSummary: the cells of one template.
GetSummary(k, q) ==
    /\ q.kind = "load" /\ q.pc = "sent"
    /\ flight' = [flight EXCEPT ![k] = (@ \ {q}) \cup
            {[q EXCEPT !.pc = "done", !.rows = {d \in storedMatrix : d.cell[1] = q.cell[1]}]}]
    /\ UNCHANGED <<storedMatrix, shown, chosen, savedTemplate, edits, lost, peak, blurred>>

-----------------------------------------------------------------------------
(* The answers: the store keeps, replaces or takes back what it shows.     *)

\* Mutant: a failed update keeps the value that was not saved.
NoRollback(k, q) == IF q.kind = "add" THEN shown[k] \ RowWith(shown[k], q.id) ELSE shown[k]
Rollback(k, q) ==
    CASE q.kind = "add" -> shown[k] \ RowWith(shown[k], q.id)
      [] q.kind = "update" /\ q.bound ->
            {IF d.id = q.id THEN [d EXCEPT !.count = q.prev] ELSE d : d \in shown[k]}
      [] q.kind = "delete" -> shown[k] \cup {[id |-> q.id, cell |-> q.cell, count |-> q.prev]}
      [] OTHER -> shown[k]

\* The created row takes the place of the temporary one, if that is still shown.
Confirm(k, q) ==
    CASE q.kind = "add" /\ RowWith(shown[k], q.id) # {} ->
            (shown[k] \ RowWith(shown[k], q.id))
                \cup {[id |-> 0 - q.id, cell |-> q.cell, count |-> q.value]}
      [] q.kind = "load" -> q.rows
      [] OTHER -> shown[k]

\* A summary replaces the objects of the store: an update still in flight has
\* nothing left to roll back.
Settled(k, q) ==
    IF q.kind # "load" THEN flight[k] \ {q}
    ELSE {[r EXCEPT !.bound = FALSE] : r \in flight[k] \ {q}}

MatrixAnswered(k, q) ==
    /\ q.pc \in {"done", "refused"}
    /\ shown' = [shown EXCEPT ![k] = IF q.pc = "done" THEN Confirm(k, q) ELSE Rollback(k, q)]
    /\ flight' = [flight EXCEPT ![k] = Settled(k, q)]
    /\ UNCHANGED <<storedMatrix, chosen, savedTemplate, edits, lost, peak, blurred>>

\* The connection breaks after the commit: to the client the save has failed.
AnswerLost(k, q) ==
    /\ q.pc = "done" /\ lost < MaxLost /\ lost' = lost + 1
    /\ shown' = [shown EXCEPT ![k] = Rollback(k, q)]
    /\ flight' = [flight EXCEPT ![k] = @ \ {q}]
    /\ blurred' = blurred \cup ({k} \X Cells)
    /\ UNCHANGED <<storedMatrix, chosen, savedTemplate, edits, peak>>

Serve(k, q) == CheckWeekLimit(k, q) \/ CreateDistribution(k, q)
               \/ UpdateDistributionQuantity(k, q) \/ DeleteDistribution(k, q) \/ GetSummary(k, q)

MatrixNext ==
    \E k \in Coordinators :
        \/ Edit(k) \/ RemoveCells(k)
        \/ SelectSavedTemplate(k)
        \/ \E t \in MatrixTemplates : SelectTemplate(k, t) \/ OpenMatrix(k, t)
        \/ \E q \in flight[k] : \/ LoadDistributions(k, q) \/ Serve(k, q)
                                \/ MatrixAnswered(k, q) \/ AnswerLost(k, q)

MatrixSpec == MatrixInit /\ [][MatrixNext]_matrixVars

-----------------------------------------------------------------------------
\* The weekly limit is checked in one transaction and the cell written in another
\* ("accepted for a soft business limit", syllabus.use-case.ts:79): a week never
\* holds more than the limit for each writer that was between the two at once, and
\* never more than the limit when no two were.
OvershootBounded == \A w \in MatrixWeeks : SumWeek(storedMatrix, w) <= peak[w] * WeekLimit

\* "Optimistic UI ... con rollback visual en caso de error" (spec 003, FR-004): a
\* coordinator with no request in flight sees, for the template that is selected, the
\* stored value in every cell, whatever was refused, unless since the last load that was
\* alone requests for the input overlapped, an edit overlapped a load, an answer or a
\* load was lost, another coordinator wrote the cell, or the template picked was the one
\* the syllabus had already, which the matrix does not load
\* (SyllabusDistributionMatrix.vue:64, store/index.ts:59).
MatrixShowsStored ==
    \A k \in Coordinators : flight[k] = {} =>
        \A week \in MatrixWeeks, row \in MatrixRows :
            LET cell == <<chosen[k], week, row>>
                there == {d \in storedMatrix : d.cell = cell}
            IN  \/ <<k, cell>> \in blurred
                \/ GetCellValue(k, week, row) = MapThenSumSet(LAMBDA d : d.count, there)
=============================================================================
