----------------------------- MODULE AcademicPlan -----------------------------
(***************************************************************************)
(* The plan of one tenant: cycles with their weeks, the material templates *)
(* of a cycle, the syllabi of a cycle with their distributions, and what   *)
(* was generated from a template. AcademicTimeUseCase and SyllabusUseCase  *)
(* run each operation in a transaction of READ COMMITTED: one that reads   *)
(* before it writes is two steps, and whatever commits in between is seen  *)
(* by the write and not by the guard. Dates are the number of the week a   *)
(* cycle starts in; daysPerWeek moves with it. Years, names of cycles and  *)
(* syllabi and the courses of a template are left out.                     *)
(***************************************************************************)
EXTENDS Naturals, FiniteSets

CONSTANTS
    Planners,                   \* requests that may run at the same time
    Cycles, Templates, Syllabi, \* ids
    Courses, Names,
    MaxWeeks,                   \* bound on totalWeeks
    Starts,                     \* start dates
    MaxPlans                    \* bound on the operations

Nil == "nil"

ASSUME PlanAssumption ==
    /\ MaxWeeks \in Nat \ {0} /\ MaxPlans \in Nat /\ Starts \subseteq Nat
    /\ Nil \notin Cycles /\ Nil \notin Templates

VARIABLES
    cycle,      \* cycles: state, is_active, start_date, total_weeks
    weeks,      \* cycle_weeks: per cycle and number the last row
    template,   \* cycle_material_templates: cycle and name
    syllabus,   \* syllabus: cycle, course, is_active, template_id
    dists,      \* syllabus_distribution
    generated,  \* the templates materials were generated from
    tx,         \* per planner: the transaction in progress
    plans,      \* operations so far
    collided,   \* cycles two updates of which overlapped
    late        \* dependants that came once a deletion had checked, or later

planVars == <<cycle, weeks, template, syllabus, dists, generated, tx, plans, collided, late>>

NoTx == [op |-> "none"]
Numbers == 1 .. MaxWeeks
FreshWeek(start, gen) == [gen |-> gen, live |-> TRUE, active |-> TRUE, start |-> start]
NoWeek == [gen |-> 0, live |-> FALSE, active |-> FALSE, start |-> 0]
Blank == [cycle |-> Nil, course |-> Nil, active |-> FALSE, template |-> Nil]

TemplatesOf(c) == {t \in Templates : template[t].cycle = c}
SyllabiOf(c) == {s \in Syllabi : syllabus[s].cycle = c}
ActiveSyllabi(c) == {s \in SyllabiOf(c) : syllabus[s].active}

PlanInit ==
    /\ \E there \in SUBSET Cycles :
        /\ cycle = [c \in Cycles |->
                [state |-> IF c \in there THEN "live" ELSE "none", active |-> TRUE,
                 start |-> 1, total |-> 1]]
        /\ weeks = [c \in Cycles |-> [i \in Numbers |->
                IF c \in there /\ i = 1 THEN FreshWeek(1, 1) ELSE NoWeek]]
    /\ template = [t \in Templates |-> [cycle |-> Nil, name |-> Nil]]
    /\ syllabus = [s \in Syllabi |-> Blank]
    /\ dists = {} /\ generated = {} /\ plans = 0 /\ collided = {} /\ late = {}
    /\ tx = [p \in Planners |-> NoTx]

Plan == plans < MaxPlans /\ plans' = plans + 1
Open(p, record) == tx[p] = NoTx /\ tx' = [tx EXCEPT ![p] = record]
Close(p) == tx' = [tx EXCEPT ![p] = NoTx]
Deleting(c) ==
  cycle[c].state = "deleted" \/ \E p \in Planners : tx[p].op = "deleteCycle" /\ tx[p].cycle = c
Arrives(c, dependant) == late' = IF Deleting(c) THEN late \cup {dependant} ELSE late

-----------------------------------------------------------------------------
(* Cycles                                                                  *)

CreateCycle(c, start, total) ==
    /\ Plan /\ cycle[c].state = "none"
    /\ cycle' = [cycle EXCEPT ![c] =
            [state |-> "live", active |-> TRUE, start |-> start, total |-> total]]
    /\ weeks' = [weeks EXCEPT ![c] =
            [i \in Numbers |-> IF i <= total THEN FreshWeek(start, 1) ELSE NoWeek]]
    /\ UNCHANGED <<template, syllabus, dists, generated, tx, collided, late>>

\* updateCycle up to the write. The form sends every field, the unchanged ones too;
\* the weeks are read only when a date changes, which an active syllabus forbids.
ReadCycle(p, c, start, total) ==
    /\ Plan /\ cycle[c].state = "live"
    /\ LET changes == start # cycle[c].start \/ total # cycle[c].total
       IN  /\ ~(changes /\ ActiveSyllabi(c) # {})
           /\ Open(p, [op |-> "updateCycle", cycle |-> c, start |-> start, total |-> total,
                       changes |-> changes, found |-> weeks[c]])
    /\ collided' = IF \E q \in Planners : tx[q].op = "updateCycle" /\ tx[q].cycle = c
                   THEN collided \cup {c} ELSE collided
    /\ UNCHANGED <<cycle, weeks, template, syllabus, dists, generated, late>>

\* Mutant: the weeks past the new total stay.
KeptWeeks(now, found, start, total) ==
    [i \in Numbers |->
        CASE i > total -> now[i]
          [] i <= total /\ found[i].live -> [found[i] EXCEPT !.start = start]
          [] OTHER -> FreshWeek(start, now[i].gen + 1)]
\* A week that was found is saved under its id: it stays deleted if it was deleted
\* since. One that was not found is new. Live rows with another id are deleted.
RegrownWeeks(now, found, start, total) ==
    [i \in Numbers |->
        CASE i > total -> [now[i] EXCEPT !.live = FALSE]
          [] i <= total /\ found[i].live ->
                [found[i] EXCEPT !.start = start, !.live = now[i].live /\ now[i].gen = found[i].gen]
          [] OTHER -> FreshWeek(start, now[i].gen + 1)]

WriteCycle(p) ==
    /\ tx[p].op = "updateCycle" /\ Close(p)
    /\ LET t == tx[p] IN
        /\ cycle' = [cycle EXCEPT ![t.cycle].start = t.start, ![t.cycle].total = t.total]
        /\ weeks' = IF ~t.changes THEN weeks
                    ELSE [weeks EXCEPT ![t.cycle] = RegrownWeeks(@, t.found, t.start, t.total)]
    /\ UNCHANGED <<template, syllabus, dists, generated, plans, collided, late>>

\* Archiving a cycle archives its syllabi in the same transaction.
ToggleCycleVisibility(c) ==
    /\ Plan /\ cycle[c].state = "live"
    /\ cycle' = [cycle EXCEPT ![c].active = ~@]
    /\ syllabus' = IF ~cycle[c].active THEN syllabus
                   ELSE [s \in Syllabi |-> IF syllabus[s].cycle = c
                                           THEN [syllabus[s] EXCEPT !.active = FALSE]
                                           ELSE syllabus[s]]
    /\ UNCHANGED <<weeks, template, dists, generated, tx, collided, late>>

ToggleWeekVisibility(c, i) ==
    /\ Plan /\ weeks[c][i].live
    /\ weeks' = [weeks EXCEPT ![c][i].active = ~@]
    /\ UNCHANGED <<cycle, template, syllabus, dists, generated, tx, collided, late>>

CycleDependants(c) ==
    ({"template"} \X TemplatesOf(c)) \cup ({"syllabus"} \X SyllabiOf(c))
        \cup ({"material"} \X (TemplatesOf(c) \cap generated))

\* Mutant: an archived syllabus is no dependant.
ActiveUsage(c) == {d \in CycleDependants(c) : d[1] = "syllabus" => syllabus[d[2]].active}
GetCycleUsage(c) == CycleDependants(c)

CheckCycleUsage(p, c) ==
    /\ Plan /\ cycle[c].state = "live" /\ GetCycleUsage(c) = {}
    /\ Open(p, [op |-> "deleteCycle", cycle |-> c])
    /\ UNCHANGED <<cycle, weeks, template, syllabus, dists, generated, collided, late>>

SoftDeleteCycle(p) ==
    /\ tx[p].op = "deleteCycle" /\ Close(p)
    /\ cycle' = [cycle EXCEPT ![tx[p].cycle].state = "deleted"]
    /\ weeks' = [weeks EXCEPT ![tx[p].cycle] = [i \in Numbers |-> [@[i] EXCEPT !.live = FALSE]]]
    /\ UNCHANGED <<template, syllabus, dists, generated, plans, collided, late>>

-----------------------------------------------------------------------------
(* Material templates                                                      *)

\* createTemplate looks for the cycle in a transaction of its own.
FindCycle(p, c, name) ==
    /\ Plan /\ cycle[c].state = "live"
    /\ Open(p, [op |-> "createTemplate", cycle |-> c, name |-> name])
    /\ UNCHANGED <<cycle, weeks, template, syllabus, dists, generated, collided, late>>

CreateTemplate(p, t) ==
    /\ tx[p].op = "createTemplate" /\ Close(p) /\ template[t].cycle = Nil
    /\ template' = [template EXCEPT ![t] = [cycle |-> tx[p].cycle, name |-> tx[p].name]]
    /\ Arrives(tx[p].cycle, <<"template", t>>)
    /\ UNCHANGED <<cycle, weeks, syllabus, dists, generated, plans, collided>>

UpdateTemplate(t, name) ==
    /\ Plan /\ template[t].cycle # Nil /\ template[t].name # name
    /\ template' = [template EXCEPT ![t].name = name]
    /\ UNCHANGED <<cycle, weeks, syllabus, dists, generated, tx, collided, late>>

GetTemplateUsage(t) ==
    {s \in Syllabi : syllabus[s].template = t} \cup {d \in dists : d.template = t}
        \cup ({t} \cap generated)

CheckTemplateUsage(p, t) ==
    /\ Plan /\ template[t].cycle # Nil /\ GetTemplateUsage(t) = {}
    /\ Open(p, [op |-> "deleteTemplate", template |-> t])
    /\ UNCHANGED <<cycle, weeks, template, syllabus, dists, generated, collided, late>>

\* The foreign keys: SET NULL for a syllabus and a distribution, CASCADE for materials.
DeleteTemplate(p) ==
    /\ tx[p].op = "deleteTemplate" /\ Close(p)
    /\ LET t == tx[p].template
           Without(x) == IF x.template = t THEN [x EXCEPT !.template = Nil] ELSE x
       IN  /\ template' = [template EXCEPT ![t] = [cycle |-> Nil, name |-> Nil]]
           /\ syllabus' = [s \in Syllabi |-> Without(syllabus[s])]
           /\ dists' = {Without(d) : d \in dists}
           /\ generated' = generated \ {t}
    /\ UNCHANGED <<cycle, weeks, plans, collided, late>>

\* GenerateMaterialUseCase, of which only the rows it adds matter here.
Generate(t) ==
    /\ Plan /\ template[t].cycle # Nil /\ t \notin generated
    /\ generated' = generated \cup {t}
    /\ Arrives(template[t].cycle, <<"material", t>>)
    /\ UNCHANGED <<cycle, weeks, template, syllabus, dists, tx, collided>>

-----------------------------------------------------------------------------
(* Syllabi                                                                 *)

\* The partial unique index: one active syllabus per cycle and course.
ActiveTwin(c, course) == \E s \in ActiveSyllabi(c) : syllabus[s].course = course

\* Neither the check nor the foreign key look at deleted_at of the cycle.
CreateSyllabus(s, c, course) ==
    /\ Plan /\ syllabus[s].cycle = Nil /\ cycle[c].state # "none" /\ ~ActiveTwin(c, course)
    /\ syllabus' = [syllabus EXCEPT ![s] =
            [cycle |-> c, course |-> course, active |-> TRUE, template |-> Nil]]
    /\ Arrives(c, <<"syllabus", s>>)
    /\ UNCHANGED <<cycle, weeks, template, dists, generated, tx, collided>>

ArchiveSyllabus(s) ==
    /\ Plan /\ syllabus[s].cycle # Nil
    /\ syllabus[s].active \/ ~ActiveTwin(syllabus[s].cycle, syllabus[s].course)
    /\ syllabus' = [syllabus EXCEPT ![s].active = ~@]
    /\ UNCHANGED <<cycle, weeks, template, dists, generated, tx, collided, late>>

\* The matrix offers the templates of the cycle.
SetTemplate(s, t) ==
    /\ Plan /\ syllabus[s].cycle # Nil /\ t \in TemplatesOf(syllabus[s].cycle)
    /\ syllabus[s].template # t
    /\ syllabus' = [syllabus EXCEPT ![s].template = t]
    /\ UNCHANGED <<cycle, weeks, template, dists, generated, tx, collided, late>>

AddDistribution(s, t, i) ==
    /\ Plan /\ syllabus[s].active /\ t \in TemplatesOf(syllabus[s].cycle)
    /\ i <= cycle[syllabus[s].cycle].total
    /\ dists' = dists \cup {[syllabus |-> s, template |-> t, week |-> i]}
    /\ UNCHANGED <<cycle, weeks, template, syllabus, generated, tx, collided, late>>

ActiveWeekNumbers(c) == {i \in Numbers : weeks[c][i].live /\ weeks[c][i].active}

\* The templates of the target with the name of a template of the source.
Matches(t, to) == {u \in TemplatesOf(to) : template[u].name = template[t].name}
Referenced(s) ==
  ({syllabus[s].template} \cup {d.template : d \in {e \in dists : e.syllabus = s}}) \ {Nil}

\* buildTemplateMapping refuses a source one of whose templates has no match, unless
\* the target has no template at all.
Mappable(s, from, to) ==
    \/ from = to \/ TemplatesOf(to) = {}
    \/ \A t \in Referenced(s) : t \in TemplatesOf(from) => Matches(t, to) # {}

\* Mutant: a template without a match is kept.
MapOrKeep(t, from, to) ==
    IF t = Nil \/ from = to \/ Matches(t, to) = {} THEN t ELSE CHOOSE u \in Matches(t, to) : TRUE
\* What stands for a template in the target; Nil when nothing does.
MapTemplate(t, from, to) ==
    CASE t = Nil \/ from = to -> t
      [] from # to /\ t # Nil /\ Matches(t, to) # {} -> CHOOSE u \in Matches(t, to) : TRUE
      [] OTHER -> Nil

\* The distributions of the source in the active weeks of the target. One whose
\* template is mapped to nothing is left out, one that has none is kept.
CopiedDistributions(s, new, from, to) ==
    {[syllabus |-> new, template |-> MapTemplate(d.template, from, to), week |-> d.week] :
        d \in {e \in dists : /\ e.syllabus = s /\ e.week \in ActiveWeekNumbers(to)
                             /\ e.template # Nil => MapTemplate(e.template, from, to) # Nil}}

\* setDefaultTemplate leaves the template of the target when there is none to set.
ClonedTemplate(s, new, from, to) ==
    LET t == MapTemplate(syllabus[s].template, from, to)
    IN  IF t = Nil THEN syllabus[new].template ELSE t

CloneSyllabus(new, s) ==
    /\ Plan /\ new # s /\ syllabus[new].active /\ syllabus[s].active
    /\ LET from == syllabus[s].cycle
           to == syllabus[new].cycle
       IN  /\ Mappable(s, from, to)
           /\ dists' = {d \in dists : d.syllabus # new} \cup CopiedDistributions(s, new, from, to)
           /\ syllabus' = [syllabus EXCEPT ![new].template = ClonedTemplate(s, new, from, to)]
    /\ UNCHANGED <<cycle, weeks, template, generated, tx, collided, late>>

\* cloneCycleSyllabuses, for one syllabus of the source whose course the target does
\* not have: the syllabus is created and cloned in one transaction. An archived
\* syllabus on either side fails the clone of the whole cycle.
CloneCycle(new, s, to) ==
    /\ Plan /\ syllabus[new].cycle = Nil /\ syllabus[s].cycle # Nil /\ cycle[to].state # "none"
    /\ LET from == syllabus[s].cycle
       IN  /\ SyllabiOf(from) = {s} /\ syllabus[s].active /\ Mappable(s, from, to)
           /\ ~\E u \in SyllabiOf(to) : syllabus[u].course = syllabus[s].course
           /\ dists' = dists \cup CopiedDistributions(s, new, from, to)
           /\ syllabus' = [syllabus EXCEPT ![new] =
                    [cycle |-> to, course |-> syllabus[s].course, active |-> TRUE,
                     template |-> MapTemplate(syllabus[s].template, from, to)]]
    /\ Arrives(to, <<"syllabus", new>>)
    /\ UNCHANGED <<cycle, weeks, template, generated, tx, collided>>

-----------------------------------------------------------------------------
CycleStep ==
    \E c \in Cycles :
        \/ \E start \in Starts, total \in Numbers : CreateCycle(c, start, total)
        \/ \E p \in Planners, start \in Starts, total \in Numbers : ReadCycle(p, c, start, total)
        \/ ToggleCycleVisibility(c) \/ \E i \in Numbers : ToggleWeekVisibility(c, i)
        \/ \E p \in Planners : CheckCycleUsage(p, c) \/ \E n \in Names : FindCycle(p, c, n)

TemplateStep ==
    \E t \in Templates :
        \/ \E n \in Names : UpdateTemplate(t, n)
        \/ Generate(t)
        \/ \E p \in Planners : CreateTemplate(p, t) \/ CheckTemplateUsage(p, t)

SyllabusStep ==
    \E s \in Syllabi :
        \/ \E c \in Cycles, k \in Courses : CreateSyllabus(s, c, k)
        \/ ArchiveSyllabus(s)
        \/ \E t \in Templates : SetTemplate(s, t) \/ \E i \in Numbers : AddDistribution(s, t, i)
        \/ \E new \in Syllabi : CloneSyllabus(new, s) \/ \E c \in Cycles : CloneCycle(new, s, c)

PlanNext ==
    \/ CycleStep \/ TemplateStep \/ SyllabusStep
    \/ \E p \in Planners : WriteCycle(p) \/ SoftDeleteCycle(p) \/ DeleteTemplate(p)

PlanSpec == PlanInit /\ [][PlanNext]_planVars

-----------------------------------------------------------------------------
\* A clone maps templates by name into the cycle of its target (syllabus.use-case.ts:212):
\* whatever was cloned, renamed and deleted in between, a syllabus and its
\* distributions only refer to templates of the cycle of the syllabus.
TemplatesOfOwnCycle ==
    /\ \A s \in Syllabi : syllabus[s].template \in TemplatesOf(syllabus[s].cycle) \cup {Nil}
    /\ \A d \in dists : d.template \in TemplatesOf(syllabus[d.syllabus].cycle) \cup {Nil}

\* The weeks of a cycle are derived from its dates (academic-time.use-case.ts:148): a
\* cycle has the weeks 1 to totalWeeks, counted from its start, through shrinking,
\* growing again and hiding, unless two of its updates overlapped.
WeeksMatchCycle ==
    \A c \in Cycles : cycle[c].state = "live" /\ c \notin collided =>
        \A i \in Numbers :
            /\ weeks[c][i].live <=> i <= cycle[c].total
            /\ weeks[c][i].live => weeks[c][i].start = cycle[c].start

\* "a cycle may be soft-deleted ONLY when it has NO related records"
\* (academic-time.use-case.ts:212): what a deleted cycle leaves orphaned, archived
\* syllabi included, came after the deletion had counted its dependants.
OrphansAreLate ==
    \A c \in Cycles : cycle[c].state = "deleted" => CycleDependants(c) \subseteq late
=============================================================================
