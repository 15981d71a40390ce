--------------------------- MODULE PlanningProofs ---------------------------
(***************************************************************************)
(* Proofs about the planning of a tenant: AcademicPlan, for any cycles,    *)
(* templates and syllabi, any number of concurrent requests and any length *)
(* of the cycles; Catalogs, for any catalog, writers and requests; and     *)
(* QuestionPlan, for any bank of questions, courses and generations.       *)
(***************************************************************************)
EXTENDS AcademicPlan, Catalogs, QuestionPlan, NumberFacts, FiniteSetTheorems, TLAPS

CycleRows == [state : {"none", "live", "deleted"}, active : BOOLEAN, start : Nat, total : Numbers]
WeekRows == [gen : Nat, live : BOOLEAN, active : BOOLEAN, start : Nat]
TemplateRows == [cycle : Cycles \cup {Nil}, name : Names \cup {Nil}]
SyllabusRows == [cycle : Cycles \cup {Nil}, course : Courses \cup {Nil}, active : BOOLEAN,
                 template : Templates \cup {Nil}]
DistRows == [syllabus : Syllabi, template : Templates \cup {Nil}, week : Numbers]
Updates == [op : {"updateCycle"}, cycle : Cycles, start : Nat, total : Numbers,
            changes : BOOLEAN, found : [Numbers -> WeekRows]]
Transactions == {NoTx} \cup Updates
    \cup [op : {"deleteCycle"}, cycle : Cycles]
    \cup [op : {"createTemplate"}, cycle : Cycles, name : Names]
    \cup [op : {"deleteTemplate"}, template : Templates]

PlanTypeOK ==
    /\ cycle \in [Cycles -> CycleRows]
    /\ weeks \in [Cycles -> [Numbers -> WeekRows]]
    /\ template \in [Templates -> TemplateRows]
    /\ syllabus \in [Syllabi -> SyllabusRows]
    /\ dists \subseteq DistRows
    /\ generated \subseteq Templates
    /\ tx \in [Planners -> Transactions]

\* A syllabus that is not there refers to nothing, and nothing refers to it.
NoDanglingSyllabus ==
    /\ \A s \in Syllabi : syllabus[s].cycle = Nil => ~syllabus[s].active /\ syllabus[s].template = Nil
    /\ \A d \in dists : syllabus[d.syllabus].cycle # Nil

\* What an update has read still holds when no other update overlaps it.
UpdateCurrent(p) ==
    LET t == tx[p]
    IN  t.op = "updateCycle" =>
            /\ cycle[t.cycle].state # "none"
            /\ t.cycle \notin collided =>
                \A q \in Planners : tx[q].op = "updateCycle" /\ tx[q].cycle = t.cycle => q = p
            /\ cycle[t.cycle].state = "live" /\ t.cycle \notin collided =>
                /\ \A i \in Numbers : /\ t.found[i].live = weeks[t.cycle][i].live
                                      /\ t.found[i].gen = weeks[t.cycle][i].gen
                /\ ~t.changes => /\ t.start = cycle[t.cycle].start
                                 /\ t.total = cycle[t.cycle].total

\* From the check of a deletion on, all that depends on the cycle has come late.
DeletionChecked ==
    /\ \A c \in Cycles : Deleting(c) => CycleDependants(c) \subseteq late
    /\ \A t \in generated : template[t].cycle # Nil

PlanIInv ==
    /\ PlanTypeOK
    /\ NoDanglingSyllabus /\ TemplatesOfOwnCycle
    /\ WeeksMatchCycle /\ \A p \in Planners : UpdateCurrent(p)
    /\ DeletionChecked

-----------------------------------------------------------------------------
\* What the operations on cycles and on syllabi leave alone.
LEMMA CycleFrame ==
    ASSUME CycleStep \/ \E p \in Planners : WriteCycle(p) \/ SoftDeleteCycle(p)
    PROVE  UNCHANGED <<template, dists, generated, late>>
<1>1. ASSUME NEW c \in Cycles, NEW start \in Starts, NEW total \in Numbers, CreateCycle(c, start, total)
      PROVE  UNCHANGED <<template, dists, generated, late>>
  BY <1>1 DEF CreateCycle
<1>2. ASSUME NEW p \in Planners, NEW c \in Cycles, NEW start \in Starts, NEW total \in Numbers,
             ReadCycle(p, c, start, total)
      PROVE  UNCHANGED <<template, dists, generated, late>>
  BY <1>2 DEF ReadCycle
<1>3. ASSUME NEW c \in Cycles, ToggleCycleVisibility(c) \/ \E i \in Numbers : ToggleWeekVisibility(c, i)
      PROVE  UNCHANGED <<template, dists, generated, late>>
  BY <1>3 DEF ToggleCycleVisibility, ToggleWeekVisibility
<1>4. ASSUME NEW p \in Planners, NEW c \in Cycles,
             CheckCycleUsage(p, c) \/ \E n \in Names : FindCycle(p, c, n)
      PROVE  UNCHANGED <<template, dists, generated, late>>
  BY <1>4 DEF CheckCycleUsage, FindCycle
<1>5. ASSUME NEW p \in Planners, WriteCycle(p) \/ SoftDeleteCycle(p)
      PROVE  UNCHANGED <<template, dists, generated, late>>
  BY <1>5 DEF WriteCycle, SoftDeleteCycle
<1> QED
  BY <1>1, <1>2, <1>3, <1>4, <1>5 DEF CycleStep

LEMMA SyllabusFrame ==
    ASSUME SyllabusStep
    PROVE  UNCHANGED <<cycle, weeks, template, generated, collided, tx>>
<1>1. ASSUME NEW s \in Syllabi, NEW c \in Cycles, NEW k \in Courses, CreateSyllabus(s, c, k)
      PROVE  UNCHANGED <<cycle, weeks, template, generated, collided, tx>>
  BY <1>1 DEF CreateSyllabus
<1>2. ASSUME NEW s \in Syllabi, ArchiveSyllabus(s)
      PROVE  UNCHANGED <<cycle, weeks, template, generated, collided, tx>>
  BY <1>2 DEF ArchiveSyllabus
<1>3. ASSUME NEW s \in Syllabi, NEW t \in Templates,
             SetTemplate(s, t) \/ \E i \in Numbers : AddDistribution(s, t, i)
      PROVE  UNCHANGED <<cycle, weeks, template, generated, collided, tx>>
  BY <1>3 DEF SetTemplate, AddDistribution
<1>4. ASSUME NEW s \in Syllabi, NEW new \in Syllabi, CloneSyllabus(new, s)
      PROVE  UNCHANGED <<cycle, weeks, template, generated, collided, tx>>
  BY <1>4 DEF CloneSyllabus
<1>5. ASSUME NEW s \in Syllabi, NEW new \in Syllabi, NEW c \in Cycles, CloneCycle(new, s, c)
      PROVE  UNCHANGED <<cycle, weeks, template, generated, collided, tx>>
  BY <1>5 DEF CloneCycle
<1> QED
  BY <1>1, <1>2, <1>3, <1>4, <1>5 DEF SyllabusStep

-----------------------------------------------------------------------------
\* What the transactions of the four kinds are.
LEMMA TransactionKinds ==
    ASSUME NEW t \in Transactions
    PROVE  /\ t.op = "updateCycle" => t \in Updates
           /\ t.op = "deleteCycle" => t \in [op : {"deleteCycle"}, cycle : Cycles]
           /\ t.op = "createTemplate" =>
                t \in [op : {"createTemplate"}, cycle : Cycles, name : Names]
           /\ t.op = "deleteTemplate" => t \in [op : {"deleteTemplate"}, template : Templates]
<1>1. NoTx.op = "none"
  BY DEF NoTx
<1> QED
  BY <1>1 DEF Transactions, Updates

\* A transaction that opens or closes leaves those of the other planners as they are.
LEMMA OpenTyped ==
    ASSUME PlanTypeOK, NEW p \in Planners, NEW record \in Transactions, Open(p, record)
    PROVE  /\ tx' \in [Planners -> Transactions]
           /\ tx[p] = NoTx /\ tx'[p] = record
           /\ \A q \in Planners \ {p} : tx'[q] = tx[q]
<1> QED
  BY DEF PlanTypeOK, Open

LEMMA CloseTyped ==
    ASSUME PlanTypeOK, NEW p \in Planners, Close(p)
    PROVE  /\ tx' \in [Planners -> Transactions]
           /\ tx'[p] = NoTx
           /\ \A q \in Planners \ {p} : tx'[q] = tx[q]
<1> QED
  BY DEF PlanTypeOK, Close, Transactions

LEMMA TwoTyped ==
    ASSUME PlanTypeOK
    PROVE  1 \in Numbers /\ Numbers \subseteq Nat
<1> QED
  BY PlanAssumption DEF Numbers

\* What an update makes of a week: past the new total it is gone, one that was found
\* is there if it still is the row that was found, any other is new.
Regrown(w, now, found, start, total, i) ==
    /\ w \in WeekRows
    /\ i > total => w.live = FALSE
    /\ i <= total /\ found.live =>
         (w.live <=> now.live /\ now.gen = found.gen) /\ w.start = start
    /\ i <= total /\ ~found.live => w.live = TRUE /\ w.start = start

LEMMA RegrownTyped ==
    ASSUME NEW now \in [Numbers -> WeekRows], NEW found \in [Numbers -> WeekRows],
           NEW start \in Nat, NEW total \in Numbers
    PROVE  /\ RegrownWeeks(now, found, start, total) \in [Numbers -> WeekRows]
           /\ \A i \in Numbers :
                Regrown(RegrownWeeks(now, found, start, total)[i], now[i], found[i], start, total, i)
<1> DEFINE W == RegrownWeeks(now, found, start, total)
<1>1. ASSUME NEW i \in Numbers
      PROVE  Regrown(W[i], now[i], found[i], start, total, i)
  <2>0. i \in Nat /\ total \in Nat /\ now[i] \in WeekRows /\ found[i] \in WeekRows
    BY <1>1 DEF Numbers
  <2>1. CASE i > total
    <3> DEFINE w == [now[i] EXCEPT !.live = FALSE]
    <3>1. W[i] = w
      BY <2>0, <2>1, <1>1 DEF RegrownWeeks
    <3>2. w \in WeekRows /\ w.live = FALSE
      BY <2>0 DEF WeekRows
    <3> HIDE DEF W, w
    <3> QED
      BY <3>1, <3>2, <2>0, <2>1 DEF Regrown
  <2>2. CASE i <= total /\ found[i].live
    <3> DEFINE same == now[i].live /\ now[i].gen = found[i].gen
               w == [found[i] EXCEPT !.start = start, !.live = same]
    <3>1. W[i] = w
      BY <2>0, <2>2, <1>1 DEF RegrownWeeks
    <3>2. same \in BOOLEAN
      BY <2>0 DEF WeekRows
    <3>3. w.live = same /\ w.start = start
      <4> HIDE DEF same
      <4> QED
        BY <2>0, <3>2 DEF WeekRows
    <3>4. w \in WeekRows
      <4> HIDE DEF same
      <4> QED
        BY <2>0, <3>2 DEF WeekRows
    <3> HIDE DEF W, w
    <3> QED
      <4>1. W[i].live = same /\ W[i].start = start /\ W[i] \in WeekRows
        BY <3>1, <3>3, <3>4
      <4>2. ~(i > total)
        BY <2>0, <2>2
      <4> QED
        BY <4>1, <4>2, <2>2, Zenon DEF Regrown
  <2>3. CASE i <= total /\ ~found[i].live
    <3> DEFINE w == FreshWeek(start, now[i].gen + 1)
    <3>1. W[i] = w
      BY <2>0, <2>3, <1>1 DEF RegrownWeeks
    <3>2. w \in WeekRows /\ w.live = TRUE /\ w.start = start
      BY <2>0 DEF WeekRows, FreshWeek
    <3> HIDE DEF W, w
    <3> QED
      BY <3>1, <3>2, <2>0, <2>3 DEF Regrown
  <2>4. i > total \/ (i <= total /\ found[i].live) \/ (i <= total /\ ~found[i].live)
    BY <2>0
  <2> QED
    BY <2>1, <2>2, <2>3, <2>4, Zenon
<1>2. W = [i \in Numbers |-> W[i]]
  BY DEF RegrownWeeks
<1>3. W \in [Numbers -> WeekRows]
  <2> HIDE DEF W
  <2> QED
    BY <1>1, <1>2 DEF Regrown
<1> QED
  BY <1>1, <1>3


-----------------------------------------------------------------------------
(* Types                                                                   *)

\* A template that stands for another one is of the target, if it is another.
LEMMA MappedTyped ==
    ASSUME PlanTypeOK, NEW t \in Templates \cup {Nil}, NEW from, NEW to
    PROVE  /\ MapTemplate(t, from, to) \in Templates \cup {Nil}
           /\ MapTemplate(t, from, to) \in TemplatesOf(to) \cup {Nil}
                \/ (from = to /\ MapTemplate(t, from, to) = t)
<1>1. CASE t = Nil \/ from = to
  <2>1. MapTemplate(t, from, to) = t
    BY <1>1 DEF MapTemplate
  <2> QED
    BY <2>1, <1>1
<1>2. CASE from # to /\ t # Nil /\ Matches(t, to) # {}
  <2>1. MapTemplate(t, from, to) = CHOOSE u \in Matches(t, to) : TRUE
    BY <1>2 DEF MapTemplate
  <2>2. MapTemplate(t, from, to) \in Matches(t, to)
    BY <2>1, <1>2
  <2> QED
    BY <2>2 DEF Matches, TemplatesOf
<1>3. CASE from # to /\ t # Nil /\ Matches(t, to) = {}
  <2>1. MapTemplate(t, from, to) = Nil
    BY <1>3 DEF MapTemplate
  <2> QED
    BY <2>1
<1> QED
  BY <1>1, <1>2, <1>3

LEMMA CopiedTyped ==
    ASSUME PlanTypeOK, NEW s, NEW new \in Syllabi, NEW from, NEW to
    PROVE  CopiedDistributions(s, new, from, to) \subseteq DistRows
<1> SUFFICES ASSUME NEW d \in dists
    PROVE  [syllabus |-> new, template |-> MapTemplate(d.template, from, to), week |-> d.week]
                \in DistRows
  BY DEF CopiedDistributions
<1>1. d.template \in Templates \cup {Nil} /\ d.week \in Numbers
  BY DEF PlanTypeOK, DistRows
<1>2. MapTemplate(d.template, from, to) \in Templates \cup {Nil}
  BY <1>1, MappedTyped
<1> QED
  BY <1>1, <1>2 DEF DistRows

LEMMA TypeInitially ==
    PlanInit => PlanTypeOK
<1> SUFFICES ASSUME PlanInit PROVE PlanTypeOK
  OBVIOUS
<1>1. 1 \in Numbers
  BY PlanAssumption DEF Numbers
<1>2. FreshWeek(1, 1) \in WeekRows /\ NoWeek \in WeekRows
  BY DEF FreshWeek, NoWeek, WeekRows
<1>3. Blank \in SyllabusRows
  BY DEF Blank, SyllabusRows
<1>4. cycle \in [Cycles -> CycleRows] /\ weeks \in [Cycles -> [Numbers -> WeekRows]]
  BY <1>1, <1>2 DEF PlanInit, CycleRows
<1>5. template \in [Templates -> TemplateRows] /\ syllabus \in [Syllabi -> SyllabusRows]
  BY <1>3 DEF PlanInit, TemplateRows
<1>6. dists \subseteq DistRows /\ generated \subseteq Templates
  BY DEF PlanInit
<1>7. tx \in [Planners -> Transactions]
  BY DEF PlanInit, Transactions
<1> QED
  BY <1>4, <1>5, <1>6, <1>7 DEF PlanTypeOK

LEMMA TypeOfCycles ==
    ASSUME PlanTypeOK, CycleStep \/ \E p \in Planners : WriteCycle(p) \/ SoftDeleteCycle(p)
    PROVE  PlanTypeOK'
<1>0. Numbers \subseteq Nat /\ Starts \subseteq Nat
  BY PlanAssumption DEF Numbers
<1> USE DEF PlanTypeOK
<1>1. ASSUME NEW c \in Cycles, NEW start \in Starts, NEW total \in Numbers,
             CreateCycle(c, start, total)
      PROVE  PlanTypeOK'
  <2> DEFINE f == [state |-> "live", active |-> TRUE, start |-> start, total |-> total]
             w == [i \in Numbers |-> IF i <= total THEN FreshWeek(start, 1) ELSE NoWeek]
  <2>1. f \in CycleRows
    BY <1>0 DEF CycleRows
  <2>2. w \in [Numbers -> WeekRows]
    BY <1>0 DEF WeekRows, FreshWeek, NoWeek
  <2>3. cycle' = [cycle EXCEPT ![c] = f] /\ weeks' = [weeks EXCEPT ![c] = w]
    BY <1>1 DEF CreateCycle
  <2>4. UNCHANGED <<template, syllabus, dists, generated, tx>>
    BY <1>1 DEF CreateCycle
  <2> HIDE DEF f, w
  <2> QED
    BY <2>1, <2>2, <2>3, <2>4
<1>2. ASSUME NEW c \in Cycles, NEW p \in Planners, NEW start \in Starts, NEW total \in Numbers,
             ReadCycle(p, c, start, total)
      PROVE  PlanTypeOK'
  <2> DEFINE changed == start # cycle[c].start \/ total # cycle[c].total
             f == [op |-> "updateCycle", cycle |-> c, start |-> start, total |-> total,
                   changes |-> changed, found |-> weeks[c]]
  <2>1. f \in Transactions
    <3>1. changed \in BOOLEAN
      OBVIOUS
    <3> HIDE DEF changed
    <3> QED
      BY <3>1, <1>0 DEF Transactions, Updates
  <2>2. Open(p, f)
    BY <1>2 DEF ReadCycle
  <2>3. UNCHANGED <<cycle, weeks, template, syllabus, dists, generated>>
    BY <1>2 DEF ReadCycle
  <2> HIDE DEF f
  <2> QED
    BY <2>1, <2>2, <2>3, OpenTyped
<1>3. ASSUME NEW c \in Cycles, ToggleCycleVisibility(c)
      PROVE  PlanTypeOK'
  <2> DEFINE f == [cycle[c] EXCEPT !.active = ~@]
             g(s) == [syllabus[s] EXCEPT !.active = FALSE]
  <2>1. f \in CycleRows
    BY DEF CycleRows
  <2>2. \A s \in Syllabi : g(s) \in SyllabusRows
    BY DEF SyllabusRows
  <2>3. cycle' = [cycle EXCEPT ![c] = f]
    BY <1>3 DEF ToggleCycleVisibility
  <2>4. syllabus' = IF ~cycle[c].active THEN syllabus
                    ELSE [s \in Syllabi |-> IF syllabus[s].cycle = c THEN g(s) ELSE syllabus[s]]
    BY <1>3 DEF ToggleCycleVisibility
  <2>5. UNCHANGED <<weeks, template, dists, generated, tx>>
    BY <1>3 DEF ToggleCycleVisibility
  <2> HIDE DEF f, g
  <2> QED
    BY <2>1, <2>2, <2>3, <2>4, <2>5
<1>4. ASSUME NEW c \in Cycles, NEW i \in Numbers, ToggleWeekVisibility(c, i)
      PROVE  PlanTypeOK'
  <2> DEFINE f == [weeks[c][i] EXCEPT !.active = ~@]
             w == [weeks[c] EXCEPT ![i] = f]
  <2>1. f \in WeekRows
    <3>1. weeks[c][i] \in WeekRows
      OBVIOUS
    <3> QED
      BY <3>1 DEF WeekRows
  <2>2. weeks' = [weeks EXCEPT ![c] = w]
    BY <1>4 DEF ToggleWeekVisibility
  <2>3. w \in [Numbers -> WeekRows]
    <3> HIDE DEF f
    <3> QED
      BY <2>1
  <2>4. UNCHANGED <<cycle, template, syllabus, dists, generated, tx>>
    BY <1>4 DEF ToggleWeekVisibility
  <2> HIDE DEF w
  <2> QED
    BY <2>2, <2>3, <2>4
<1>5. ASSUME NEW c \in Cycles, NEW p \in Planners, CheckCycleUsage(p, c)
      PROVE  PlanTypeOK'
  <2>1. [op |-> "deleteCycle", cycle |-> c] \in Transactions
    BY DEF Transactions
  <2> QED
    BY <1>5, <2>1, OpenTyped DEF CheckCycleUsage
<1>6. ASSUME NEW c \in Cycles, NEW p \in Planners, NEW n \in Names, FindCycle(p, c, n)
      PROVE  PlanTypeOK'
  <2>1. [op |-> "createTemplate", cycle |-> c, name |-> n] \in Transactions
    BY DEF Transactions
  <2> QED
    BY <1>6, <2>1, OpenTyped DEF FindCycle
<1>7. ASSUME NEW p \in Planners, WriteCycle(p)
      PROVE  PlanTypeOK'
  <2> DEFINE t == tx[p]
             f == [cycle[t.cycle] EXCEPT !.start = t.start, !.total = t.total]
             w == RegrownWeeks(weeks[t.cycle], t.found, t.start, t.total)
  <2>1. t \in Updates
    BY <1>7, TransactionKinds DEF WriteCycle
  <2>2. t.cycle \in Cycles /\ t.start \in Nat /\ t.total \in Numbers
        /\ t.found \in [Numbers -> WeekRows]
    BY <2>1 DEF Updates
  <2>3. f \in CycleRows
    <3>1. cycle[t.cycle] \in CycleRows /\ t.start \in Nat /\ t.total \in Numbers
      BY <2>2
    <3> HIDE DEF t
    <3> QED
      BY <3>1 DEF CycleRows
  <2>4. w \in [Numbers -> WeekRows]
    <3>1. weeks[t.cycle] \in [Numbers -> WeekRows]
      BY <2>2
    <3> HIDE DEF t
    <3> QED
      BY <3>1, <2>2, RegrownTyped
  <2>5. cycle' = [cycle EXCEPT ![t.cycle] = f]
    <3>1. cycle' = [cycle EXCEPT ![t.cycle].start = t.start, ![t.cycle].total = t.total]
      BY <1>7 DEF WriteCycle
    <3> QED
      BY <3>1, <2>2
  <2>6. weeks' = IF ~t.changes THEN weeks ELSE [weeks EXCEPT ![t.cycle] = w]
    BY <1>7 DEF WriteCycle
  <2>7. tx' \in [Planners -> Transactions]
    BY <1>7, CloseTyped DEF WriteCycle
  <2>8. UNCHANGED <<template, syllabus, dists, generated>>
    BY <1>7 DEF WriteCycle
  <2> HIDE DEF t, f, w
  <2> QED
    BY <2>2, <2>3, <2>4, <2>5, <2>6, <2>7, <2>8
<1>8. ASSUME NEW p \in Planners, SoftDeleteCycle(p)
      PROVE  PlanTypeOK'
  <2> DEFINE c == tx[p].cycle
             f == [cycle[c] EXCEPT !.state = "deleted"]
             w == [i \in Numbers |-> [weeks[c][i] EXCEPT !.live = FALSE]]
  <2>1. c \in Cycles
    BY <1>8, TransactionKinds DEF SoftDeleteCycle
  <2>2. f \in CycleRows
    BY <2>1 DEF CycleRows
  <2>3. w \in [Numbers -> WeekRows]
    <3>1. ASSUME NEW i \in Numbers
          PROVE  [weeks[c][i] EXCEPT !.live = FALSE] \in WeekRows
      <4>1. weeks[c][i] \in WeekRows
        BY <2>1
      <4> HIDE DEF c
      <4> QED
        BY <4>1 DEF WeekRows
    <3> QED
      BY <3>1
  <2>4. cycle' = [cycle EXCEPT ![c] = f] /\ weeks' = [weeks EXCEPT ![c] = w]
    BY <1>8 DEF SoftDeleteCycle
  <2>5. tx' \in [Planners -> Transactions]
    BY <1>8, CloseTyped DEF SoftDeleteCycle
  <2>6. UNCHANGED <<template, syllabus, dists, generated>>
    BY <1>8 DEF SoftDeleteCycle
  <2> HIDE DEF c, f, w
  <2> QED
    BY <2>1, <2>2, <2>3, <2>4, <2>5, <2>6
<1> QED
  BY <1>1, <1>2, <1>3, <1>4, <1>5, <1>6, <1>7, <1>8 DEF CycleStep

LEMMA TypeOfTemplates ==
    ASSUME PlanTypeOK, TemplateStep \/ \E p \in Planners : DeleteTemplate(p)
    PROVE  PlanTypeOK'
<1> USE DEF PlanTypeOK
<1>1. ASSUME NEW t \in Templates, NEW n \in Names, UpdateTemplate(t, n)
      PROVE  PlanTypeOK'
  <2> DEFINE f == [template[t] EXCEPT !.name = n]
  <2>1. f \in TemplateRows
    BY DEF TemplateRows
  <2>2. template' = [template EXCEPT ![t] = f]
    BY <1>1 DEF UpdateTemplate
  <2>3. UNCHANGED <<cycle, weeks, syllabus, dists, generated, tx>>
    BY <1>1 DEF UpdateTemplate
  <2> HIDE DEF f
  <2> QED
    BY <2>1, <2>2, <2>3
<1>2. ASSUME NEW t \in Templates, Generate(t)
      PROVE  PlanTypeOK'
  BY <1>2 DEF Generate
<1>3. ASSUME NEW t \in Templates, NEW p \in Planners, CreateTemplate(p, t)
      PROVE  PlanTypeOK'
  <2> DEFINE f == [cycle |-> tx[p].cycle, name |-> tx[p].name]
  <2>1. f \in TemplateRows
    BY <1>3, TransactionKinds DEF CreateTemplate, TemplateRows
  <2>2. template' = [template EXCEPT ![t] = f]
    BY <1>3 DEF CreateTemplate
  <2>3. tx' \in [Planners -> Transactions] /\ UNCHANGED <<cycle, weeks, syllabus, dists, generated>>
    BY <1>3, CloseTyped DEF CreateTemplate
  <2> HIDE DEF f
  <2> QED
    BY <2>1, <2>2, <2>3
<1>4. ASSUME NEW t \in Templates, NEW p \in Planners, CheckTemplateUsage(p, t)
      PROVE  PlanTypeOK'
  <2>1. [op |-> "deleteTemplate", template |-> t] \in Transactions
    BY DEF Transactions
  <2> QED
    BY <1>4, <2>1, OpenTyped DEF CheckTemplateUsage
<1>5. ASSUME NEW p \in Planners, DeleteTemplate(p)
      PROVE  PlanTypeOK'
  <2> DEFINE t == tx[p].template
             Without(x) == IF x.template = t THEN [x EXCEPT !.template = Nil] ELSE x
             f == [cycle |-> Nil, name |-> Nil]
  <2>1. \A s \in Syllabi : Without(syllabus[s]) \in SyllabusRows
    BY DEF SyllabusRows
  <2>2. \A d \in dists : Without(d) \in DistRows
    BY DEF DistRows
  <2>3. f \in TemplateRows
    BY DEF TemplateRows
  <2>4. /\ template' = [template EXCEPT ![t] = f]
        /\ syllabus' = [s \in Syllabi |-> Without(syllabus[s])]
        /\ dists' = {Without(d) : d \in dists}
        /\ generated' = generated \ {t}
    BY <1>5 DEF DeleteTemplate
  <2>5. tx' \in [Planners -> Transactions] /\ UNCHANGED <<cycle, weeks>>
    BY <1>5, CloseTyped DEF DeleteTemplate
  <2> HIDE DEF t, Without, f
  <2> QED
    BY <2>1, <2>2, <2>3, <2>4, <2>5
<1> QED
  BY <1>1, <1>2, <1>3, <1>4, <1>5 DEF TemplateStep

LEMMA TypeOfSyllabi ==
    ASSUME PlanTypeOK, SyllabusStep
    PROVE  PlanTypeOK'
<1> USE DEF PlanTypeOK
<1>1. ASSUME NEW s \in Syllabi, NEW c \in Cycles, NEW k \in Courses, CreateSyllabus(s, c, k)
      PROVE  PlanTypeOK'
  <2> DEFINE f == [cycle |-> c, course |-> k, active |-> TRUE, template |-> Nil]
  <2>1. f \in SyllabusRows
    BY DEF SyllabusRows
  <2>2. syllabus' = [syllabus EXCEPT ![s] = f]
        /\ UNCHANGED <<cycle, weeks, template, dists, generated, tx>>
    BY <1>1 DEF CreateSyllabus
  <2> HIDE DEF f
  <2> QED
    BY <2>1, <2>2
<1>2. ASSUME NEW s \in Syllabi, ArchiveSyllabus(s)
      PROVE  PlanTypeOK'
  <2> DEFINE f == [syllabus[s] EXCEPT !.active = ~@]
  <2>1. f \in SyllabusRows
    BY DEF SyllabusRows
  <2>2. syllabus' = [syllabus EXCEPT ![s] = f]
        /\ UNCHANGED <<cycle, weeks, template, dists, generated, tx>>
    BY <1>2 DEF ArchiveSyllabus
  <2> HIDE DEF f
  <2> QED
    BY <2>1, <2>2
<1>3. ASSUME NEW s \in Syllabi, NEW t \in Templates, SetTemplate(s, t)
      PROVE  PlanTypeOK'
  <2> DEFINE f == [syllabus[s] EXCEPT !.template = t]
  <2>1. f \in SyllabusRows
    BY DEF SyllabusRows
  <2>2. syllabus' = [syllabus EXCEPT ![s] = f]
        /\ UNCHANGED <<cycle, weeks, template, dists, generated, tx>>
    BY <1>3 DEF SetTemplate
  <2> HIDE DEF f
  <2> QED
    BY <2>1, <2>2
<1>4. ASSUME NEW s \in Syllabi, NEW t \in Templates, NEW i \in Numbers, AddDistribution(s, t, i)
      PROVE  PlanTypeOK'
  BY <1>4 DEF AddDistribution, DistRows
<1>5. ASSUME NEW s \in Syllabi, NEW new \in Syllabi, CloneSyllabus(new, s)
      PROVE  PlanTypeOK'
  <2> DEFINE from == syllabus[s].cycle
             to == syllabus[new].cycle
             f == [syllabus[new] EXCEPT !.template = ClonedTemplate(s, new, from, to)]
  <2>1. syllabus[s].template \in Templates \cup {Nil} /\ syllabus[new].template \in Templates \cup {Nil}
    BY DEF SyllabusRows
  <2>2. ClonedTemplate(s, new, from, to) \in Templates \cup {Nil}
    BY <2>1, MappedTyped DEF ClonedTemplate
  <2>3. f \in SyllabusRows
    BY <2>2 DEF SyllabusRows
  <2>4. syllabus' = [syllabus EXCEPT ![new] = f]
    BY <1>5 DEF CloneSyllabus
  <2>5. dists' \subseteq DistRows
    BY <1>5, CopiedTyped DEF CloneSyllabus
  <2>6. UNCHANGED <<cycle, weeks, template, generated, tx>>
    BY <1>5 DEF CloneSyllabus
  <2> HIDE DEF f
  <2> QED
    BY <2>3, <2>4, <2>5, <2>6
<1>6. ASSUME NEW s \in Syllabi, NEW new \in Syllabi, NEW to \in Cycles, CloneCycle(new, s, to)
      PROVE  PlanTypeOK'
  <2> DEFINE from == syllabus[s].cycle
             f == [cycle |-> to, course |-> syllabus[s].course, active |-> TRUE,
                   template |-> MapTemplate(syllabus[s].template, from, to)]
  <2>1. syllabus[s].template \in Templates \cup {Nil}
        /\ syllabus[s].course \in Courses \cup {Nil}
    BY DEF SyllabusRows
  <2>2. MapTemplate(syllabus[s].template, from, to) \in Templates \cup {Nil}
    BY <2>1, MappedTyped
  <2>3. f \in SyllabusRows
    BY <2>1, <2>2 DEF SyllabusRows
  <2>4. syllabus' = [syllabus EXCEPT ![new] = f]
    BY <1>6 DEF CloneCycle
  <2>5. dists' \subseteq DistRows
    BY <1>6, CopiedTyped DEF CloneCycle
  <2>6. UNCHANGED <<cycle, weeks, template, generated, tx>>
    BY <1>6 DEF CloneCycle
  <2> HIDE DEF f
  <2> QED
    BY <2>3, <2>4, <2>5, <2>6
<1> QED
  BY <1>1, <1>2, <1>3, <1>4, <1>5, <1>6 DEF SyllabusStep

-----------------------------------------------------------------------------
(* The templates a syllabus refers to                                      *)

\* An operation that leaves the rows of templates, syllabi and distributions alone
\* breaks no reference.
LEMMA ReferencesStay ==
    ASSUME NoDanglingSyllabus, TemplatesOfOwnCycle, UNCHANGED <<template, syllabus, dists>>
    PROVE  NoDanglingSyllabus' /\ TemplatesOfOwnCycle'
<1> QED
  BY DEF NoDanglingSyllabus, TemplatesOfOwnCycle, TemplatesOf

\* One that writes the row of a syllabus that is there, but not its cycle, breaks none
\* if the template it writes is of that cycle.
LEMMA ReferencesOfSyllabus ==
    ASSUME PlanTypeOK, NoDanglingSyllabus, TemplatesOfOwnCycle,
           NEW s \in Syllabi, NEW f \in SyllabusRows, syllabus' = [syllabus EXCEPT ![s] = f],
           f.cycle # Nil, syllabus[s].cycle \in {Nil, f.cycle},
           f.template \in TemplatesOf(f.cycle) \cup {Nil},
           template' = template,
           \A d \in dists' \ dists :
                d.syllabus = s /\ d.template \in TemplatesOf(f.cycle) \cup {Nil},
           dists' \subseteq DistRows
    PROVE  NoDanglingSyllabus' /\ TemplatesOfOwnCycle'
<1>1. syllabus'[s] = f /\ \A q \in Syllabi \ {s} : syllabus'[q] = syllabus[q]
  BY DEF PlanTypeOK
<1>2. \A c : TemplatesOf(c)' = TemplatesOf(c)
  BY DEF TemplatesOf
<1>3. ASSUME NEW d \in dists'
      PROVE  syllabus'[d.syllabus].cycle # Nil
             /\ d.template \in TemplatesOf(syllabus'[d.syllabus].cycle) \cup {Nil}
  <2>1. d.syllabus \in Syllabi
    BY <1>3 DEF DistRows
  <2>2. CASE d \in dists /\ d.syllabus # s
    BY <2>1, <2>2, <1>1 DEF NoDanglingSyllabus, TemplatesOfOwnCycle
  <2>3. CASE d \in dists /\ d.syllabus = s
    BY <2>1, <2>3, <1>1 DEF NoDanglingSyllabus, TemplatesOfOwnCycle
  <2>4. CASE d \notin dists
    BY <2>4, <1>1, <1>3
  <2> QED
    BY <2>2, <2>3, <2>4
<1>4. NoDanglingSyllabus'
  BY <1>1, <1>3 DEF NoDanglingSyllabus
<1>5. ASSUME NEW q \in Syllabi
      PROVE  syllabus'[q].template \in TemplatesOf(syllabus'[q].cycle) \cup {Nil}
  BY <1>1 DEF TemplatesOfOwnCycle
<1> QED
  BY <1>2, <1>3, <1>4, <1>5 DEF TemplatesOfOwnCycle

\* What is copied into a syllabus refers to templates of the cycle it is copied into.
LEMMA CopiesAreOwn ==
    ASSUME PlanTypeOK, TemplatesOfOwnCycle, NEW s \in Syllabi, NEW new \in Syllabi, NEW to,
           NEW d \in CopiedDistributions(s, new, syllabus[s].cycle, to)
    PROVE  d.syllabus = new /\ d.template \in TemplatesOf(to) \cup {Nil}
<1>1. PICK e \in dists : e.syllabus = s /\
        d = [syllabus |-> new, template |-> MapTemplate(e.template, syllabus[s].cycle, to),
             week |-> e.week]
  BY DEF CopiedDistributions
<1>2. e.template \in TemplatesOf(syllabus[s].cycle) \cup {Nil}
  BY <1>1 DEF TemplatesOfOwnCycle
<1>3. e.template \in Templates \cup {Nil}
  BY <1>2 DEF TemplatesOf
<1>4. MapTemplate(e.template, syllabus[s].cycle, to) \in TemplatesOf(to) \cup {Nil}
  BY <1>2, <1>3, MappedTyped
<1> QED
  BY <1>1, <1>4

LEMMA MappedIsOwn ==
    ASSUME PlanTypeOK, TemplatesOfOwnCycle, NEW s \in Syllabi, NEW to
    PROVE  MapTemplate(syllabus[s].template, syllabus[s].cycle, to) \in TemplatesOf(to) \cup {Nil}
<1>1. syllabus[s].template \in TemplatesOf(syllabus[s].cycle) \cup {Nil}
  BY DEF TemplatesOfOwnCycle
<1>2. syllabus[s].template \in Templates \cup {Nil}
  BY <1>1 DEF TemplatesOf
<1> QED
  BY <1>1, <1>2, MappedTyped

LEMMA ReferencesOfTemplates ==
    ASSUME PlanTypeOK, NoDanglingSyllabus, TemplatesOfOwnCycle,
           TemplateStep \/ \E p \in Planners : DeleteTemplate(p)
    PROVE  NoDanglingSyllabus' /\ TemplatesOfOwnCycle'
<1>1. ASSUME NEW t \in Templates, NEW n \in Names, UpdateTemplate(t, n)
      PROVE  NoDanglingSyllabus' /\ TemplatesOfOwnCycle'
  <2>1. \A u \in Templates : template'[u].cycle = template[u].cycle
    BY <1>1 DEF UpdateTemplate, PlanTypeOK, TemplateRows
  <2>2. \A c : TemplatesOf(c)' = TemplatesOf(c)
    BY <2>1 DEF TemplatesOf
  <2>3. UNCHANGED <<syllabus, dists>>
    BY <1>1 DEF UpdateTemplate
  <2> QED
    BY <2>2, <2>3 DEF NoDanglingSyllabus, TemplatesOfOwnCycle
<1>2. ASSUME NEW t \in Templates, NEW p \in Planners, CreateTemplate(p, t)
      PROVE  NoDanglingSyllabus' /\ TemplatesOfOwnCycle'
  <2>1. template[t].cycle = Nil /\ UNCHANGED <<syllabus, dists>>
    BY <1>2 DEF CreateTemplate
  <2>2. \A u \in Templates \ {t} : template'[u] = template[u]
    BY <1>2 DEF CreateTemplate, PlanTypeOK
  <2> DEFINE Now(c) == {u \in Templates : template'[u].cycle = c}
  <2>3. \A c : c # Nil => TemplatesOf(c) \subseteq Now(c)
    BY <2>1, <2>2 DEF TemplatesOf
  <2> HIDE DEF Now
  <2>4. ASSUME NEW s \in Syllabi
        PROVE  syllabus'[s].template \in Now(syllabus'[s].cycle) \cup {Nil}
    <3>1. CASE syllabus[s].cycle = Nil
      BY <3>1, <2>1 DEF NoDanglingSyllabus
    <3>2. CASE syllabus[s].cycle # Nil
      BY <3>2, <2>1, <2>3 DEF TemplatesOfOwnCycle
    <3> QED
      BY <3>1, <3>2
  <2>5. ASSUME NEW d \in dists'
        PROVE  d.template \in Now(syllabus'[d.syllabus].cycle) \cup {Nil}
    BY <2>5, <2>1, <2>3 DEF TemplatesOfOwnCycle, NoDanglingSyllabus
  <2> QED
    BY <2>1, <2>4, <2>5 DEF NoDanglingSyllabus, TemplatesOfOwnCycle, TemplatesOf, Now
<1>3. ASSUME NEW p \in Planners, DeleteTemplate(p)
      PROVE  NoDanglingSyllabus' /\ TemplatesOfOwnCycle'
  <2> DEFINE t == tx[p].template
             Without(x) == IF x.template = t THEN [x EXCEPT !.template = Nil] ELSE x
             f == [cycle |-> Nil, name |-> Nil]
  <2>1. /\ template' = [template EXCEPT ![t] = f]
        /\ syllabus' = [s \in Syllabi |-> Without(syllabus[s])]
        /\ dists' = {Without(d) : d \in dists}
    BY <1>3 DEF DeleteTemplate
  <2> DEFINE Now(c) == {u \in Templates : template'[u].cycle = c}
  <2>2. \A c : TemplatesOf(c) \ {t} \subseteq Now(c)
    <3> HIDE DEF t, f
    <3> QED
      BY <2>1 DEF TemplatesOf, PlanTypeOK
  <2>3. \A x \in SyllabusRows : /\ Without(x).cycle = x.cycle
                                /\ Without(x).template = IF x.template = t THEN Nil ELSE x.template
                                /\ Without(x).active = x.active
    BY DEF SyllabusRows
  <2>4. \A x \in DistRows : /\ Without(x).syllabus = x.syllabus
                            /\ Without(x).template = IF x.template = t THEN Nil ELSE x.template
    BY DEF DistRows
  <2> HIDE DEF t, Without, f, Now
  <2>5. \A s \in Syllabi : syllabus[s] \in SyllabusRows /\ syllabus'[s] = Without(syllabus[s])
    BY <2>1 DEF PlanTypeOK
  <2>6. NoDanglingSyllabus'
    <3>1. \A s \in Syllabi : syllabus'[s].cycle = Nil =>
                ~syllabus'[s].active /\ syllabus'[s].template = Nil
      BY <2>3, <2>5 DEF NoDanglingSyllabus
    <3>2. ASSUME NEW d \in dists'
          PROVE  syllabus'[d.syllabus].cycle # Nil
      <4>1. PICK e \in dists : d = Without(e)
        BY <2>1
      <4>2. e \in DistRows /\ e.syllabus \in Syllabi
        BY DEF PlanTypeOK, DistRows
      <4>3. d.syllabus = e.syllabus
        BY <4>1, <4>2, <2>4
      <4> QED
        BY <4>2, <4>3, <2>3, <2>5 DEF NoDanglingSyllabus
    <3> QED
      BY <3>1, <3>2 DEF NoDanglingSyllabus
  <2>7. TemplatesOfOwnCycle'
    <3>1. ASSUME NEW s \in Syllabi
          PROVE  syllabus'[s].template \in Now(syllabus'[s].cycle) \cup {Nil}
      <4>1. syllabus'[s].cycle = syllabus[s].cycle
            /\ syllabus'[s].template = IF syllabus[s].template = t THEN Nil ELSE syllabus[s].template
        BY <2>3, <2>5
      <4>2. syllabus[s].template \in TemplatesOf(syllabus[s].cycle) \cup {Nil}
        BY DEF TemplatesOfOwnCycle
      <4> QED
        BY <4>1, <4>2, <2>2
    <3>2. ASSUME NEW d \in dists'
          PROVE  d.template \in Now(syllabus'[d.syllabus].cycle) \cup {Nil}
      <4>1. PICK e \in dists : d = Without(e)
        BY <2>1
      <4>2. e \in DistRows /\ e.syllabus \in Syllabi
        BY DEF PlanTypeOK, DistRows
      <4>3. d.syllabus = e.syllabus /\ d.template = IF e.template = t THEN Nil ELSE e.template
        BY <4>1, <4>2, <2>4
      <4>4. e.template \in TemplatesOf(syllabus[e.syllabus].cycle) \cup {Nil}
        BY DEF TemplatesOfOwnCycle
      <4>5. syllabus'[e.syllabus].cycle = syllabus[e.syllabus].cycle
        BY <4>2, <2>3, <2>5
      <4> QED
        BY <4>3, <4>4, <4>5, <2>2
    <3> QED
      BY <3>1, <3>2 DEF TemplatesOfOwnCycle, TemplatesOf, Now
  <2> QED
    BY <2>6, <2>7
<1>4. ASSUME NEW t \in Templates, Generate(t) \/ \E p \in Planners : CheckTemplateUsage(p, t)
      PROVE  NoDanglingSyllabus' /\ TemplatesOfOwnCycle'
  BY <1>4, ReferencesStay DEF Generate, CheckTemplateUsage
<1> QED
  BY <1>1, <1>2, <1>3, <1>4 DEF TemplateStep

\* Archiving a cycle archives its syllabi; nothing else that works on cycles touches them.
LEMMA ReferencesOfCycles ==
    ASSUME PlanTypeOK, NoDanglingSyllabus, TemplatesOfOwnCycle,
           CycleStep \/ \E p \in Planners : WriteCycle(p) \/ SoftDeleteCycle(p)
    PROVE  NoDanglingSyllabus' /\ TemplatesOfOwnCycle'
<1>1. UNCHANGED <<template, dists>>
  BY CycleFrame
<1>2. ASSUME NEW c \in Cycles, ToggleCycleVisibility(c)
      PROVE  \A s \in Syllabi : /\ syllabus'[s].cycle = syllabus[s].cycle
                                /\ syllabus'[s].template = syllabus[s].template
                                /\ syllabus'[s].active => syllabus[s].active
  <2> DEFINE g(s) == [syllabus[s] EXCEPT !.active = FALSE]
  <2>1. \A s \in Syllabi : /\ g(s).cycle = syllabus[s].cycle
                           /\ g(s).template = syllabus[s].template /\ ~g(s).active
    BY DEF PlanTypeOK, SyllabusRows
  <2>2. syllabus' = IF ~cycle[c].active THEN syllabus
                    ELSE [s \in Syllabi |-> IF syllabus[s].cycle = c THEN g(s) ELSE syllabus[s]]
    BY <1>2 DEF ToggleCycleVisibility
  <2> HIDE DEF g
  <2> QED
    BY <2>1, <2>2
<1>3. UNCHANGED syllabus \/ \E c \in Cycles : ToggleCycleVisibility(c)
  BY DEF CycleStep, CreateCycle, ReadCycle, ToggleWeekVisibility,
         CheckCycleUsage, FindCycle, WriteCycle, SoftDeleteCycle
<1>4. \A s \in Syllabi : /\ syllabus'[s].cycle = syllabus[s].cycle
                         /\ syllabus'[s].template = syllabus[s].template
                         /\ syllabus'[s].active => syllabus[s].active
  BY <1>2, <1>3
<1>5. \A d \in dists : d.syllabus \in Syllabi
  BY DEF PlanTypeOK, DistRows
<1>6. NoDanglingSyllabus'
  <2>1. \A s \in Syllabi : syllabus'[s].cycle = Nil =>
            ~syllabus'[s].active /\ syllabus'[s].template = Nil
    BY <1>4 DEF NoDanglingSyllabus
  <2>2. \A d \in dists' : syllabus'[d.syllabus].cycle # Nil
    BY <1>1, <1>4, <1>5 DEF NoDanglingSyllabus
  <2> QED
    BY <2>1, <2>2 DEF NoDanglingSyllabus
<1>7. TemplatesOfOwnCycle'
  <2> DEFINE Now(c) == {u \in Templates : template'[u].cycle = c}
  <2>1. \A c : Now(c) = TemplatesOf(c)
    BY <1>1 DEF TemplatesOf
  <2> HIDE DEF Now
  <2>2. \A s \in Syllabi : syllabus'[s].template \in Now(syllabus'[s].cycle) \cup {Nil}
    BY <1>4, <2>1 DEF TemplatesOfOwnCycle
  <2>3. \A d \in dists' : d.template \in Now(syllabus'[d.syllabus].cycle) \cup {Nil}
    BY <1>1, <1>4, <1>5, <2>1 DEF TemplatesOfOwnCycle
  <2> QED
    BY <2>2, <2>3 DEF TemplatesOfOwnCycle, TemplatesOf, Now
<1> QED
  BY <1>6, <1>7

LEMMA ReferencesOfSyllabi ==
    ASSUME PlanTypeOK, NoDanglingSyllabus, TemplatesOfOwnCycle, SyllabusStep
    PROVE  NoDanglingSyllabus' /\ TemplatesOfOwnCycle'
<1>0. PlanTypeOK'
  BY TypeOfSyllabi
<1>1. \A s \in Syllabi : syllabus[s] \in SyllabusRows /\ syllabus'[s] \in SyllabusRows
  BY <1>0 DEF PlanTypeOK
<1>2. dists' \subseteq DistRows
  BY <1>0 DEF PlanTypeOK
<1>3. \A s \in Syllabi : syllabus[s].active => syllabus[s].cycle # Nil
  BY DEF NoDanglingSyllabus
<1>4. Nil \notin Cycles
  BY PlanAssumption
<1>5. \A s \in Syllabi : syllabus[s].template \in TemplatesOf(syllabus[s].cycle) \cup {Nil}
  BY DEF TemplatesOfOwnCycle
<1>6. ASSUME NEW s \in Syllabi, NEW c \in Cycles, NEW k \in Courses, CreateSyllabus(s, c, k)
      PROVE  NoDanglingSyllabus' /\ TemplatesOfOwnCycle'
  <2> DEFINE f == [cycle |-> c, course |-> k, active |-> TRUE, template |-> Nil]
  <2>1. f \in SyllabusRows /\ f.cycle = c /\ f.template = Nil
    BY DEF SyllabusRows
  <2>2. syllabus' = [syllabus EXCEPT ![s] = f] /\ UNCHANGED <<template, dists>>
        /\ syllabus[s].cycle = Nil
    BY <1>6 DEF CreateSyllabus
  <2> HIDE DEF f
  <2> QED
    BY <2>1, <2>2, <1>2, <1>4, ReferencesOfSyllabus
<1>7. ASSUME NEW s \in Syllabi, ArchiveSyllabus(s)
      PROVE  NoDanglingSyllabus' /\ TemplatesOfOwnCycle'
  <2> DEFINE f == [syllabus[s] EXCEPT !.active = ~@]
  <2>1. f \in SyllabusRows /\ f.cycle = syllabus[s].cycle /\ f.template = syllabus[s].template
    BY <1>1 DEF SyllabusRows
  <2>2. syllabus' = [syllabus EXCEPT ![s] = f] /\ UNCHANGED <<template, dists>>
        /\ syllabus[s].cycle # Nil
    BY <1>7 DEF ArchiveSyllabus
  <2> HIDE DEF f
  <2> QED
    BY <2>1, <2>2, <1>2, <1>5, ReferencesOfSyllabus
<1>8. ASSUME NEW s \in Syllabi, NEW t \in Templates, SetTemplate(s, t)
      PROVE  NoDanglingSyllabus' /\ TemplatesOfOwnCycle'
  <2> DEFINE f == [syllabus[s] EXCEPT !.template = t]
  <2>1. f \in SyllabusRows /\ f.cycle = syllabus[s].cycle /\ f.template = t
    BY <1>1 DEF SyllabusRows
  <2>2. syllabus' = [syllabus EXCEPT ![s] = f] /\ UNCHANGED <<template, dists>>
        /\ syllabus[s].cycle # Nil /\ t \in TemplatesOf(syllabus[s].cycle)
    BY <1>8 DEF SetTemplate
  <2> HIDE DEF f
  <2> QED
    BY <2>1, <2>2, <1>2, ReferencesOfSyllabus
<1>9. ASSUME NEW s \in Syllabi, NEW t \in Templates, NEW i \in Numbers, AddDistribution(s, t, i)
      PROVE  NoDanglingSyllabus' /\ TemplatesOfOwnCycle'
  <2> DEFINE d == [syllabus |-> s, template |-> t, week |-> i]
  <2>1. d.syllabus = s /\ d.template = t
    OBVIOUS
  <2>2. dists' = dists \cup {d} /\ UNCHANGED <<template, syllabus>>
        /\ syllabus[s].active /\ t \in TemplatesOf(syllabus[s].cycle)
    BY <1>9 DEF AddDistribution
  <2>3. syllabus' = [syllabus EXCEPT ![s] = syllabus[s]]
    BY <2>2 DEF PlanTypeOK
  <2>4. \A e \in dists' \ dists :
           e.syllabus = s /\ e.template \in TemplatesOf(syllabus[s].cycle) \cup {Nil}
    BY <2>1, <2>2
  <2> HIDE DEF d
  <2>5. /\ syllabus[s] \in SyllabusRows /\ syllabus[s].cycle # Nil
        /\ syllabus[s].template \in TemplatesOf(syllabus[s].cycle) \cup {Nil}
    BY <2>2, <1>1, <1>3, <1>5
  <2>6. template' = template
    BY <2>2
  <2> QED
    BY <2>3, <2>4, <2>5, <2>6, <1>2, ReferencesOfSyllabus
<1>10. ASSUME NEW s \in Syllabi, NEW new \in Syllabi, CloneSyllabus(new, s)
       PROVE  NoDanglingSyllabus' /\ TemplatesOfOwnCycle'
  <2> DEFINE from == syllabus[s].cycle
             to == syllabus[new].cycle
             f == [syllabus[new] EXCEPT !.template = ClonedTemplate(s, new, from, to)]
  <2>1. syllabus' = [syllabus EXCEPT ![new] = f] /\ template' = template /\ syllabus[new].active
        /\ dists' = {d \in dists : d.syllabus # new} \cup CopiedDistributions(s, new, from, to)
    BY <1>10 DEF CloneSyllabus
  <2>2. ClonedTemplate(s, new, from, to) \in TemplatesOf(to) \cup {Nil}
    BY <1>5, MappedIsOwn DEF ClonedTemplate
  <2>3. f.cycle = to /\ f.template \in TemplatesOf(to) \cup {Nil}
    BY <1>1, <2>2 DEF SyllabusRows
  <2>4. \A d \in dists' \ dists : d.syllabus = new /\ d.template \in TemplatesOf(to) \cup {Nil}
    BY <2>1, CopiesAreOwn
  <2>5. f \in SyllabusRows
    <3>1. syllabus'[new] = f
      BY <2>1 DEF PlanTypeOK
    <3> QED
      BY <3>1, <1>1
  <2> HIDE DEF f
  <2>6. /\ f.cycle # Nil /\ syllabus[new].cycle \in {Nil, f.cycle}
        /\ f.template \in TemplatesOf(f.cycle) \cup {Nil}
        /\ \A d \in dists' \ dists :
                d.syllabus = new /\ d.template \in TemplatesOf(f.cycle) \cup {Nil}
    BY <2>1, <2>3, <2>4, <1>3
  <2>7. syllabus' = [syllabus EXCEPT ![new] = f] /\ template' = template
    BY <2>1
  <2> HIDE DEF from, to
  <2> QED
    BY <2>5, <2>6, <2>7, <1>2, ReferencesOfSyllabus
<1>11. ASSUME NEW s \in Syllabi, NEW new \in Syllabi, NEW to \in Cycles, CloneCycle(new, s, to)
       PROVE  NoDanglingSyllabus' /\ TemplatesOfOwnCycle'
  <2> DEFINE from == syllabus[s].cycle
             f == [cycle |-> to, course |-> syllabus[s].course, active |-> TRUE,
                   template |-> MapTemplate(syllabus[s].template, from, to)]
  <2>1. syllabus' = [syllabus EXCEPT ![new] = f] /\ template' = template
        /\ syllabus[new].cycle = Nil
        /\ dists' = dists \cup CopiedDistributions(s, new, from, to)
    BY <1>11 DEF CloneCycle
  <2>2. f.cycle = to /\ f.template \in TemplatesOf(to) \cup {Nil}
    BY MappedIsOwn
  <2>3. \A d \in dists' \ dists : d.syllabus = new /\ d.template \in TemplatesOf(to) \cup {Nil}
    BY <2>1, CopiesAreOwn
  <2>4. f \in SyllabusRows
    <3>1. syllabus'[new] = f
      BY <2>1 DEF PlanTypeOK
    <3> QED
      BY <3>1, <1>1
  <2> HIDE DEF f
  <2>5. /\ f.cycle # Nil /\ syllabus[new].cycle \in {Nil, f.cycle}
        /\ f.template \in TemplatesOf(f.cycle) \cup {Nil}
        /\ \A d \in dists' \ dists :
                d.syllabus = new /\ d.template \in TemplatesOf(f.cycle) \cup {Nil}
    BY <2>1, <2>2, <2>3, <1>4
  <2>6. syllabus' = [syllabus EXCEPT ![new] = f] /\ template' = template
    BY <2>1
  <2> HIDE DEF from
  <2> QED
    BY <2>4, <2>5, <2>6, <1>2, ReferencesOfSyllabus
<1> QED
  BY <1>6, <1>7, <1>8, <1>9, <1>10, <1>11 DEF SyllabusStep

-----------------------------------------------------------------------------
(* The weeks of a cycle                                                    *)

\* An operation that touches neither cycles nor weeks nor the updates of a cycle.
LEMMA WeeksStay ==
    ASSUME PlanTypeOK, WeeksMatchCycle, \A p \in Planners : UpdateCurrent(p),
           UNCHANGED <<cycle, weeks, collided>>,
           \A p \in Planners : tx'[p] = tx[p] \/ tx'[p].op # "updateCycle"
    PROVE  WeeksMatchCycle' /\ \A p \in Planners : UpdateCurrent(p)'
<1>1. WeeksMatchCycle'
  BY DEF WeeksMatchCycle
<1>2. ASSUME NEW p \in Planners
      PROVE  UpdateCurrent(p)'
  <2>1. CASE tx'[p].op # "updateCycle"
    BY <2>1 DEF UpdateCurrent
  <2>2. CASE tx'[p] = tx[p]
    BY <2>2 DEF UpdateCurrent
  <2> QED
    BY <1>2, <2>1, <2>2
<1> QED
  BY <1>1, <1>2

\* One that changes the row or the weeks of one cycle no update of which is current.
LEMMA WeeksOfOne ==
    ASSUME PlanTypeOK, WeeksMatchCycle, \A p \in Planners : UpdateCurrent(p),
           NEW c \in Cycles, NEW f \in CycleRows, NEW w \in [Numbers -> WeekRows],
           cycle' = [cycle EXCEPT ![c] = f], weeks' = [weeks EXCEPT ![c] = w],
           collided' = collided,
           \A p \in Planners : tx'[p] = tx[p] \/ tx'[p].op # "updateCycle",
           cycle[c].state # "none" => f.state # "none",
           f.state = "live" /\ c \notin collided =>
              /\ \A i \in Numbers : /\ w[i].live <=> i <= f.total
                                    /\ w[i].live => w[i].start = f.start
              /\ \A p \in Planners : tx'[p].op = "updateCycle" /\ tx'[p].cycle = c =>
                    /\ cycle[c].state = "live"
                    /\ f.start = cycle[c].start /\ f.total = cycle[c].total
                    /\ \A i \in Numbers : w[i].live = weeks[c][i].live /\ w[i].gen = weeks[c][i].gen
    PROVE  WeeksMatchCycle' /\ \A p \in Planners : UpdateCurrent(p)'
<1>1. cycle'[c] = f /\ weeks'[c] = w
  BY DEF PlanTypeOK
<1>2. \A d \in Cycles \ {c} : cycle'[d] = cycle[d] /\ weeks'[d] = weeks[d]
  BY DEF PlanTypeOK
<1>3. WeeksMatchCycle'
  BY <1>1, <1>2 DEF WeeksMatchCycle
<1>4. ASSUME NEW p \in Planners, tx'[p].op = "updateCycle"
      PROVE  UpdateCurrent(p)'
  <2>1. tx'[p] = tx[p] /\ tx[p] \in Updates
    BY <1>4, TransactionKinds DEF PlanTypeOK
  <2>2. tx[p].cycle \in Cycles
    BY <2>1 DEF Updates
  <2>3. cycle'[tx[p].cycle].state # "none"
    BY <1>1, <1>2, <1>4, <2>1, <2>2 DEF UpdateCurrent
  <2>4. tx[p].cycle \notin collided =>
            \A q \in Planners : tx'[q].op = "updateCycle" /\ tx'[q].cycle = tx[p].cycle => q = p
    BY <1>4, <2>1 DEF UpdateCurrent
  <2>5. CASE tx[p].cycle # c
    BY <2>1, <2>2, <2>3, <2>4, <2>5, <1>2, <1>4 DEF UpdateCurrent
  <2>6. CASE tx[p].cycle = c
    BY <2>1, <2>2, <2>3, <2>4, <2>6, <1>1, <1>4 DEF UpdateCurrent
  <2> QED
    BY <2>5, <2>6
<1>5. \A p \in Planners : UpdateCurrent(p)'
  BY <1>4 DEF UpdateCurrent
<1> QED
  BY <1>3, <1>5

LEMMA WeeksStep ==
    ASSUME PlanTypeOK, PlanTypeOK', WeeksMatchCycle, \A p \in Planners : UpdateCurrent(p), PlanNext
    PROVE  WeeksMatchCycle' /\ \A p \in Planners : UpdateCurrent(p)'
<1>0. cycle \in [Cycles -> CycleRows] /\ weeks \in [Cycles -> [Numbers -> WeekRows]]
      /\ cycle' \in [Cycles -> CycleRows] /\ weeks' \in [Cycles -> [Numbers -> WeekRows]]
  BY DEF PlanTypeOK
<1>1. Numbers \subseteq Nat /\ Starts \subseteq Nat
  BY PlanAssumption DEF Numbers
<1>2. ASSUME NEW c \in Cycles, NEW start \in Starts, NEW total \in Numbers,
             CreateCycle(c, start, total)
      PROVE  WeeksMatchCycle' /\ \A p \in Planners : UpdateCurrent(p)'
  <2> DEFINE f == [state |-> "live", active |-> TRUE, start |-> start, total |-> total]
             w == [i \in Numbers |-> IF i <= total THEN FreshWeek(start, 1) ELSE NoWeek]
  <2>1. cycle' = [cycle EXCEPT ![c] = f] /\ weeks' = [weeks EXCEPT ![c] = w]
        /\ UNCHANGED <<tx, collided>> /\ cycle[c].state = "none"
    BY <1>2 DEF CreateCycle
  <2>2. f \in CycleRows /\ w \in [Numbers -> WeekRows]
    BY <1>1 DEF CycleRows, WeekRows, FreshWeek, NoWeek
  <2>3. f.state = "live" /\ \A i \in Numbers : /\ w[i].live <=> i <= f.total
                                               /\ w[i].live => w[i].start = f.start
    BY <1>1 DEF FreshWeek, NoWeek
  <2>4. \A p \in Planners : ~(tx'[p].op = "updateCycle" /\ tx'[p].cycle = c)
    BY <2>1 DEF UpdateCurrent
  <2> HIDE DEF f, w
  <2> QED
    BY <2>1, <2>2, <2>3, <2>4, WeeksOfOne
<1>3. ASSUME NEW c \in Cycles, ToggleCycleVisibility(c)
      PROVE  WeeksMatchCycle' /\ \A p \in Planners : UpdateCurrent(p)'
  <2> DEFINE f == [cycle[c] EXCEPT !.active = ~@]
  <2>1. cycle' = [cycle EXCEPT ![c] = f] /\ weeks' = weeks /\ UNCHANGED <<tx, collided>>
        /\ cycle[c].state = "live"
    BY <1>3 DEF ToggleCycleVisibility
  <2>2. f \in CycleRows /\ f.state = cycle[c].state /\ f.start = cycle[c].start
        /\ f.total = cycle[c].total
    BY <1>0 DEF CycleRows
  <2>3. weeks' = [weeks EXCEPT ![c] = weeks[c]] /\ weeks[c] \in [Numbers -> WeekRows]
    BY <1>0, <2>1
  <2> HIDE DEF f
  <2>4. c \notin collided => \A i \in Numbers : /\ weeks[c][i].live <=> i <= f.total
                                                /\ weeks[c][i].live => weeks[c][i].start = f.start
    BY <2>1, <2>2 DEF WeeksMatchCycle
  <2> QED
    BY <2>1, <2>2, <2>3, <2>4, WeeksOfOne
<1>4. ASSUME NEW c \in Cycles, NEW i \in Numbers, ToggleWeekVisibility(c, i)
      PROVE  WeeksMatchCycle' /\ \A p \in Planners : UpdateCurrent(p)'
  <2> DEFINE g == [weeks[c][i] EXCEPT !.active = ~@]
             w == [weeks[c] EXCEPT ![i] = g]
  <2>1. weeks' = [weeks EXCEPT ![c] = w] /\ UNCHANGED <<cycle, tx, collided>>
    BY <1>4 DEF ToggleWeekVisibility
  <2>2. weeks[c] \in [Numbers -> WeekRows] /\ weeks[c][i] \in WeekRows
    BY <1>0
  <2>3. g \in WeekRows /\ g.live = weeks[c][i].live /\ g.gen = weeks[c][i].gen
        /\ g.start = weeks[c][i].start
    BY <2>2 DEF WeekRows
  <2> HIDE DEF g
  <2>4. w \in [Numbers -> WeekRows] /\ w[i] = g /\ \A j \in Numbers \ {i} : w[j] = weeks[c][j]
    BY <2>2, <2>3
  <2> HIDE DEF w
  <2>5. \A j \in Numbers : /\ w[j].live = weeks[c][j].live /\ w[j].gen = weeks[c][j].gen
                           /\ w[j].start = weeks[c][j].start
    BY <2>3, <2>4
  <2>6. cycle[c] \in CycleRows /\ cycle' = [cycle EXCEPT ![c] = cycle[c]]
    BY <1>0, <2>1
  <2>7. cycle[c].state = "live" /\ c \notin collided =>
            \A j \in Numbers : /\ w[j].live <=> j <= cycle[c].total
                               /\ w[j].live => w[j].start = cycle[c].start
    BY <2>5 DEF WeeksMatchCycle
  <2> QED
    BY <2>1, <2>4, <2>5, <2>6, <2>7, WeeksOfOne
<1>5. ASSUME NEW p \in Planners, SoftDeleteCycle(p)
      PROVE  WeeksMatchCycle' /\ \A q \in Planners : UpdateCurrent(q)'
  <2> DEFINE c == tx[p].cycle
             f == [cycle[c] EXCEPT !.state = "deleted"]
             w == [i \in Numbers |-> [weeks[c][i] EXCEPT !.live = FALSE]]
  <2>1. c \in Cycles
    BY <1>5, TransactionKinds DEF SoftDeleteCycle, PlanTypeOK
  <2>2. cycle' = [cycle EXCEPT ![c] = f] /\ weeks' = [weeks EXCEPT ![c] = w]
        /\ collided' = collided
    BY <1>5 DEF SoftDeleteCycle
  <2>3. cycle'[c] = f /\ weeks'[c] = w
    BY <2>1, <2>2, <1>0
  <2>4. f.state = "deleted"
    BY <1>0, <2>1 DEF CycleRows
  <2> HIDE DEF c, f, w
  <2>5. f \in CycleRows /\ w \in [Numbers -> WeekRows]
    BY <2>1, <2>3, <1>0
  <2>6. \A q \in Planners : tx'[q] = tx[q] \/ tx'[q].op # "updateCycle"
    <3>1. NoTx.op # "updateCycle"
      BY DEF NoTx
    <3> QED
      BY <1>5, <3>1, CloseTyped DEF SoftDeleteCycle
  <2> QED
    BY <2>1, <2>2, <2>4, <2>5, <2>6, WeeksOfOne
<1>6. ASSUME NEW c \in Cycles, NEW p \in Planners, NEW start \in Starts, NEW total \in Numbers,
             ReadCycle(p, c, start, total)
      PROVE  WeeksMatchCycle' /\ \A q \in Planners : UpdateCurrent(q)'
  <2> DEFINE changed == start # cycle[c].start \/ total # cycle[c].total
             f == [op |-> "updateCycle", cycle |-> c, start |-> start, total |-> total,
                   changes |-> changed, found |-> weeks[c]]
  <2>1. Open(p, f) /\ UNCHANGED <<cycle, weeks>> /\ cycle[c].state = "live"
    BY <1>6 DEF ReadCycle
  <2>2. collided' = IF \E q \in Planners : tx[q].op = "updateCycle" /\ tx[q].cycle = c
                    THEN collided \cup {c} ELSE collided
    BY <1>6 DEF ReadCycle
  <2>3. f.op = "updateCycle" /\ f.cycle = c /\ f.start = start /\ f.total = total
        /\ f.found = weeks[c]
    OBVIOUS
  <2>4. ~f.changes => start = cycle[c].start /\ total = cycle[c].total
    OBVIOUS
  <2> HIDE DEF f
  <2>5. tx'[p] = f /\ tx[p] = NoTx /\ \A q \in Planners \ {p} : tx'[q] = tx[q]
    BY <2>1 DEF Open, PlanTypeOK
  <2>6. WeeksMatchCycle'
    BY <2>1, <2>2 DEF WeeksMatchCycle
  <2>7. UpdateCurrent(p)'
    <3>1. c \notin collided' =>
            \A q \in Planners : tx'[q].op = "updateCycle" /\ tx'[q].cycle = c => q = p
      BY <2>2, <2>5
    <3> QED
      BY <2>1, <2>3, <2>4, <2>5, <3>1 DEF UpdateCurrent
  <2>8. ASSUME NEW q \in Planners, q # p, tx[q].op = "updateCycle"
        PROVE  UpdateCurrent(q)'
    <3>1. tx'[q] = tx[q]
      BY <2>5, <2>8
    <3>2. tx[q].cycle = c => c \in collided'
      BY <2>2, <2>8
    <3>3. tx[q].cycle \notin collided' =>
            \A o \in Planners : tx'[o].op = "updateCycle" /\ tx'[o].cycle = tx[q].cycle => o = q
      BY <2>2, <2>3, <2>5, <2>8, <3>2 DEF UpdateCurrent
    <3>4. tx[q].cycle \notin collided' => tx[q].cycle \notin collided
      BY <2>2
    <3> QED
      BY <2>1, <2>8, <3>1, <3>3, <3>4 DEF UpdateCurrent
  <2>9. \A q \in Planners \ {p} : UpdateCurrent(q)'
    BY <2>5, <2>8 DEF UpdateCurrent
  <2> QED
    BY <2>6, <2>7, <2>9
<1>7. ASSUME NEW p \in Planners, WriteCycle(p)
      PROVE  WeeksMatchCycle' /\ \A q \in Planners : UpdateCurrent(q)'
  <2>0. tx[p] \in Updates /\ tx[p].op = "updateCycle"
    BY <1>7, TransactionKinds DEF WriteCycle, PlanTypeOK
  <2> SUFFICES ASSUME NEW t, t = tx[p], NEW c, c = t.cycle
               PROVE  WeeksMatchCycle' /\ \A q \in Planners : UpdateCurrent(q)'
    BY Zenon
  <2>1. t \in Updates /\ t.op = "updateCycle"
    BY <2>0
  <2> DEFINE f == [cycle[c] EXCEPT !.start = t.start, !.total = t.total]
             g == RegrownWeeks(weeks[c], t.found, t.start, t.total)
             w == IF ~t.changes THEN weeks[c] ELSE g
  <2>2. c \in Cycles /\ t.start \in Nat /\ t.total \in Numbers
        /\ t.found \in [Numbers -> WeekRows] /\ t.changes \in BOOLEAN
    BY <2>1 DEF Updates
  <2>3. cycle[c] \in CycleRows /\ weeks[c] \in [Numbers -> WeekRows]
    BY <2>2, <1>0
  <2>4. /\ g \in [Numbers -> WeekRows]
        /\ \A i \in Numbers : Regrown(g[i], weeks[c][i], t.found[i], t.start, t.total, i)
    <3> DEFINE now == weeks[c]
               found == t.found
               start == t.start
               total == t.total
    <3>1. now \in [Numbers -> WeekRows] /\ found \in [Numbers -> WeekRows]
          /\ start \in Nat /\ total \in Numbers
      BY <2>2, <2>3
    <3> HIDE DEF now, found, start, total
    <3>2. /\ RegrownWeeks(now, found, start, total) \in [Numbers -> WeekRows]
          /\ \A i \in Numbers :
               Regrown(RegrownWeeks(now, found, start, total)[i], now[i], found[i], start, total, i)
      BY <3>1, RegrownTyped
    <3> QED
      BY <3>2 DEF now, found, start, total
  <2>5. f \in CycleRows /\ f.state = cycle[c].state /\ f.start = t.start /\ f.total = t.total
    BY <2>2, <2>3 DEF CycleRows
  <2>6. cycle' = [cycle EXCEPT ![c] = f]
    <3>1. cycle' = [cycle EXCEPT ![c].start = t.start, ![c].total = t.total]
      BY <1>7 DEF WriteCycle
    <3> QED
      BY <3>1, <2>2, <1>0
  <2>7. weeks' = [weeks EXCEPT ![c] = w]
    <3>1. weeks' = IF ~t.changes THEN weeks
                   ELSE [weeks EXCEPT ![c] = RegrownWeeks(@, t.found, t.start, t.total)]
      BY <1>7 DEF WriteCycle
    <3> QED
      BY <3>1, <2>2, <1>0
  <2>8. collided' = collided
    BY <1>7 DEF WriteCycle
  <2>9. tx'[p] = NoTx /\ \A q \in Planners \ {p} : tx'[q] = tx[q]
    BY <1>7, CloseTyped DEF WriteCycle
  <2>10. \A q \in Planners : tx'[q] = tx[q] \/ tx'[q].op # "updateCycle"
    BY <2>9 DEF NoTx
  <2>11. c \notin collided =>
            \A q \in Planners : ~(tx'[q].op = "updateCycle" /\ tx'[q].cycle = c)
    BY <2>1, <2>9 DEF UpdateCurrent, NoTx
  <2>12. w \in [Numbers -> WeekRows]
    <3>1. w \in {weeks[c], g}
      OBVIOUS
    <3> HIDE DEF w, g
    <3> QED
      BY <3>1, <2>3, <2>4
  <2>13. ASSUME cycle[c].state = "live", c \notin collided
         PROVE  \A i \in Numbers : /\ w[i].live <=> i <= t.total
                                   /\ w[i].live => w[i].start = t.start
    <3>1. \A i \in Numbers : /\ t.found[i].live = weeks[c][i].live
                             /\ t.found[i].gen = weeks[c][i].gen
      BY <2>1, <2>13 DEF UpdateCurrent
    <3>2. CASE t.changes
      <4>1. w = g
        BY <3>2
      <4> HIDE DEF w, g
      <4> SUFFICES ASSUME NEW i \in Numbers
                   PROVE  (w[i].live <=> i <= t.total) /\ (w[i].live => w[i].start = t.start)
        OBVIOUS
      <4>2. i \in Nat /\ t.total \in Nat
        BY <1>1, <2>2
      <4>3. /\ i > t.total => w[i].live = FALSE
            /\ i <= t.total /\ t.found[i].live =>
                 (w[i].live <=> weeks[c][i].live /\ weeks[c][i].gen = t.found[i].gen)
                 /\ w[i].start = t.start
            /\ i <= t.total /\ ~t.found[i].live => w[i].live = TRUE /\ w[i].start = t.start
        BY <4>1, <2>4 DEF Regrown
      <4>4. CASE i > t.total
        BY <4>2, <4>3, <4>4
      <4>5. CASE i <= t.total /\ t.found[i].live
        <5>1. weeks[c][i].live /\ weeks[c][i].gen = t.found[i].gen
          BY <4>5, <3>1
        <5> QED
          BY <4>3, <4>5, <5>1, Zenon
      <4>6. CASE i <= t.total /\ ~t.found[i].live
        BY <4>3, <4>6
      <4> QED
        BY <4>2, <4>4, <4>5, <4>6
    <3>3. CASE ~t.changes
      <4>1. w = weeks[c]
        BY <3>3
      <4>2. t.start = cycle[c].start /\ t.total = cycle[c].total
        BY <2>1, <2>13, <3>3 DEF UpdateCurrent
      <4> HIDE DEF w
      <4> QED
        BY <2>2, <2>13, <4>1, <4>2 DEF WeeksMatchCycle
    <3> QED
      BY <3>2, <3>3, <2>2
  <2> HIDE DEF f, w, g
  <2> QED
    BY <2>2, <2>5, <2>6, <2>7, <2>8, <2>10, <2>11, <2>12, <2>13, WeeksOfOne
<1>8. ASSUME NEW c \in Cycles, NEW p \in Planners,
             CheckCycleUsage(p, c) \/ \E n \in Names : FindCycle(p, c, n)
      PROVE  WeeksMatchCycle' /\ \A q \in Planners : UpdateCurrent(q)'
  <2>1. UNCHANGED <<cycle, weeks, collided>>
    BY <1>8 DEF CheckCycleUsage, FindCycle
  <2>2. \A q \in Planners : tx'[q] = tx[q] \/ tx'[q].op # "updateCycle"
    BY <1>8 DEF CheckCycleUsage, FindCycle, Open, PlanTypeOK
  <2> QED
    BY <2>1, <2>2, WeeksStay
<1>9. ASSUME NEW t \in Templates,
             \/ \E n \in Names : UpdateTemplate(t, n)
             \/ Generate(t)
             \/ \E p \in Planners : CreateTemplate(p, t) \/ CheckTemplateUsage(p, t)
      PROVE  WeeksMatchCycle' /\ \A q \in Planners : UpdateCurrent(q)'
  <2>1. UNCHANGED <<cycle, weeks, collided>>
    BY <1>9 DEF UpdateTemplate, Generate, CreateTemplate, CheckTemplateUsage
  <2>2. \A q \in Planners : tx'[q] = tx[q] \/ tx'[q].op # "updateCycle"
    BY <1>9 DEF UpdateTemplate, Generate, CreateTemplate, CheckTemplateUsage, Open, Close, NoTx,
                PlanTypeOK
  <2> QED
    BY <2>1, <2>2, WeeksStay
<1>10. ASSUME NEW p \in Planners, DeleteTemplate(p)
       PROVE  WeeksMatchCycle' /\ \A q \in Planners : UpdateCurrent(q)'
  <2>1. UNCHANGED <<cycle, weeks, collided>>
    BY <1>10 DEF DeleteTemplate
  <2>2. \A q \in Planners : tx'[q] = tx[q] \/ tx'[q].op # "updateCycle"
    BY <1>10 DEF DeleteTemplate, Close, NoTx, PlanTypeOK
  <2> QED
    BY <2>1, <2>2, WeeksStay
<1>11. ASSUME SyllabusStep
       PROVE  WeeksMatchCycle' /\ \A q \in Planners : UpdateCurrent(q)'
  <2>1. UNCHANGED <<cycle, weeks, collided, tx>>
    BY <1>11, SyllabusFrame
  <2> QED
    BY <2>1, WeeksStay
<1> QED
  BY <1>2, <1>3, <1>4, <1>5, <1>6, <1>7, <1>8, <1>9, <1>10, <1>11
     DEF PlanNext, CycleStep, TemplateStep

-----------------------------------------------------------------------------
(* What a deleted cycle leaves behind                                      *)

\* A step adds to what depends on a cycle only what it records as late, and only the
\* check of its usage starts a deletion.
LEMMA DeletionFrame ==
    ASSUME DeletionChecked, late \subseteq late',
           \A c \in Cycles : Deleting(c)' =>
                /\ Deleting(c) \/ CycleDependants(c) = {}
                /\ CycleDependants(c)' \subseteq CycleDependants(c) \cup late',
           \A t \in generated' : template'[t].cycle # Nil
    PROVE  DeletionChecked'
<1> QED
  BY DEF DeletionChecked

\* The dependants, when no template or syllabus enters the cycle and no template of it
\* comes into use.
LEMMA DependantsShrink ==
    ASSUME NEW c, TemplatesOf(c)' \subseteq TemplatesOf(c), SyllabiOf(c)' \subseteq SyllabiOf(c),
           generated' \subseteq generated
    PROVE  CycleDependants(c)' \subseteq CycleDependants(c)
<1> QED
  BY DEF CycleDependants

\* Deletions go on and start neither by a write of other columns nor by a transaction
\* of another kind.
LEMMA NoNewDeletion ==
    ASSUME \A c \in Cycles : cycle'[c].state = "deleted" => cycle[c].state = "deleted",
           \A p \in Planners : tx'[p] = tx[p] \/ tx'[p].op # "deleteCycle",
           NEW c \in Cycles, Deleting(c)'
    PROVE  Deleting(c)
<1>1. CASE cycle'[c].state = "deleted"
  BY <1>1 DEF Deleting
<1>2. CASE cycle'[c].state # "deleted"
  <2>1. PICK p \in Planners : tx'[p].op = "deleteCycle" /\ tx'[p].cycle = c
    BY <1>2 DEF Deleting
  <2> QED
    BY <2>1 DEF Deleting
<1> QED
  BY <1>1, <1>2

LEMMA DeletionOfCycles ==
    ASSUME PlanTypeOK, DeletionChecked,
           CycleStep \/ \E p \in Planners : WriteCycle(p) \/ SoftDeleteCycle(p)
    PROVE  DeletionChecked'
<1>1. UNCHANGED <<template, generated, late>>
  BY CycleFrame
<1>2. \A s \in Syllabi : syllabus'[s].cycle = syllabus[s].cycle
  <2>1. ASSUME NEW c \in Cycles, ToggleCycleVisibility(c)
        PROVE  \A s \in Syllabi : syllabus'[s].cycle = syllabus[s].cycle
    <3>1. \A s \in Syllabi : [syllabus[s] EXCEPT !.active = FALSE].cycle = syllabus[s].cycle
      BY DEF PlanTypeOK, SyllabusRows
    <3> QED
      BY <2>1, <3>1 DEF ToggleCycleVisibility
  <2>2. CASE UNCHANGED syllabus
    BY <2>2
  <2>3. UNCHANGED syllabus \/ \E c \in Cycles : ToggleCycleVisibility(c)
    BY DEF CycleStep, CreateCycle, ReadCycle, ToggleWeekVisibility,
           CheckCycleUsage, FindCycle, WriteCycle, SoftDeleteCycle
  <2> QED
    BY <2>1, <2>2, <2>3
<1>3. ASSUME NEW c
      PROVE  CycleDependants(c)' \subseteq CycleDependants(c)
  <2>1. TemplatesOf(c)' = TemplatesOf(c) /\ SyllabiOf(c)' = SyllabiOf(c)
    BY <1>1, <1>2 DEF TemplatesOf, SyllabiOf
  <2> QED
    BY <1>1, <2>1, DependantsShrink
<1>4. \A t \in generated' : template'[t].cycle # Nil
  BY <1>1 DEF DeletionChecked
<1> SUFFICES ASSUME NEW c \in Cycles, Deleting(c)'
             PROVE  Deleting(c) \/ CycleDependants(c) = {}
  BY <1>1, <1>3, <1>4, DeletionFrame
<1>5. ASSUME NEW d \in Cycles, NEW p \in Planners, CheckCycleUsage(p, d)
      PROVE  Deleting(c) \/ CycleDependants(c) = {}
  <2>1. cycle' = cycle /\ CycleDependants(d) = {}
    BY <1>5 DEF CheckCycleUsage, GetCycleUsage
  <2>2. tx'[p] = [op |-> "deleteCycle", cycle |-> d]
        /\ \A q \in Planners \ {p} : tx'[q] = tx[q]
    BY <1>5 DEF CheckCycleUsage, Open, PlanTypeOK
  <2>3. CASE c = d
    BY <2>1, <2>3
  <2>4. CASE c # d
    BY <2>1, <2>2, <2>4 DEF Deleting
  <2> QED
    BY <2>3, <2>4
<1>6. ASSUME NEW p \in Planners, SoftDeleteCycle(p)
      PROVE  Deleting(c)
  <2>1. tx[p].op = "deleteCycle" /\ tx[p].cycle \in Cycles
    BY <1>6, TransactionKinds DEF SoftDeleteCycle, PlanTypeOK
  <2>2. \A d \in Cycles : d # tx[p].cycle => cycle'[d] = cycle[d]
    BY <1>6, <2>1 DEF SoftDeleteCycle, PlanTypeOK
  <2>3. \A q \in Planners : tx'[q] = tx[q] \/ tx'[q].op # "deleteCycle"
    BY <1>6 DEF SoftDeleteCycle, Close, NoTx, PlanTypeOK
  <2>4. CASE c = tx[p].cycle
    BY <2>1, <2>4 DEF Deleting
  <2>5. CASE c # tx[p].cycle
    BY <2>2, <2>3, <2>5 DEF Deleting
  <2> QED
    BY <2>4, <2>5
<1>7. ASSUME NEW d \in Cycles,
             \/ \E start \in Starts, total \in Numbers : CreateCycle(d, start, total)
             \/ ToggleCycleVisibility(d) \/ \E i \in Numbers : ToggleWeekVisibility(d, i)
      PROVE  Deleting(c)
  <2>1. \A e \in Cycles : cycle'[e].state = "deleted" => cycle[e].state = "deleted"
    BY <1>7 DEF CreateCycle, ToggleCycleVisibility, ToggleWeekVisibility, PlanTypeOK, CycleRows
  <2>2. UNCHANGED tx
    BY <1>7 DEF CreateCycle, ToggleCycleVisibility, ToggleWeekVisibility
  <2> QED
    BY <2>1, <2>2, NoNewDeletion
<1>8. ASSUME NEW d \in Cycles, NEW p \in Planners,
             \/ \E start \in Starts, total \in Numbers : ReadCycle(p, d, start, total)
             \/ \E n \in Names : FindCycle(p, d, n)
      PROVE  Deleting(c)
  <2>1. UNCHANGED cycle
    BY <1>8 DEF ReadCycle, FindCycle
  <2>2. \A q \in Planners : tx'[q] = tx[q] \/ tx'[q].op # "deleteCycle"
    BY <1>8 DEF ReadCycle, FindCycle, Open, PlanTypeOK
  <2> QED
    BY <2>1, <2>2, NoNewDeletion
<1>9. ASSUME NEW p \in Planners, WriteCycle(p)
      PROVE  Deleting(c)
  <2>1. \A e \in Cycles : cycle'[e].state = cycle[e].state
    BY <1>9 DEF WriteCycle, PlanTypeOK, CycleRows
  <2>2. \A q \in Planners : tx'[q] = tx[q] \/ tx'[q].op # "deleteCycle"
    BY <1>9 DEF WriteCycle, Close, NoTx, PlanTypeOK
  <2> QED
    BY <2>1, <2>2, NoNewDeletion
<1> QED
  BY <1>5, <1>6, <1>7, <1>8, <1>9 DEF CycleStep

LEMMA DeletionOfTemplates ==
    ASSUME PlanTypeOK, DeletionChecked, TemplateStep \/ \E p \in Planners : DeleteTemplate(p)
    PROVE  DeletionChecked'
<1>1. cycle' = cycle
  BY DEF TemplateStep, UpdateTemplate, Generate, CreateTemplate, CheckTemplateUsage, DeleteTemplate
<1>2. \A p \in Planners : tx'[p] = tx[p] \/ tx'[p].op # "deleteCycle"
  <2>1. ASSUME NEW t \in Templates, NEW p \in Planners, CheckTemplateUsage(p, t)
        PROVE  \A q \in Planners : tx'[q] = tx[q] \/ tx'[q].op # "deleteCycle"
    <3> DEFINE f == [op |-> "deleteTemplate", template |-> t]
    <3>1. tx' = [tx EXCEPT ![p] = f]
      BY <2>1 DEF CheckTemplateUsage, Open
    <3>2. f.op = "deleteTemplate"
      OBVIOUS
    <3> HIDE DEF f
    <3> QED
      BY <3>1, <3>2 DEF PlanTypeOK
  <2>2. ASSUME NEW p \in Planners, DeleteTemplate(p) \/ \E t \in Templates : CreateTemplate(p, t)
        PROVE  \A q \in Planners : tx'[q] = tx[q] \/ tx'[q].op # "deleteCycle"
    <3>1. Close(p)
      BY <2>2 DEF DeleteTemplate, CreateTemplate
    <3> QED
      BY <3>1, CloseTyped DEF NoTx
  <2>3. ASSUME NEW t \in Templates, Generate(t) \/ \E n \in Names : UpdateTemplate(t, n)
        PROVE  UNCHANGED tx
    BY <2>3 DEF Generate, UpdateTemplate
  <2> QED
    BY <2>1, <2>2, <2>3 DEF TemplateStep
<1>3. \A c \in Cycles : Deleting(c)' => Deleting(c)
  BY <1>1, <1>2, NoNewDeletion
<1>4. ASSUME NEW t \in Templates, NEW n \in Names, UpdateTemplate(t, n)
      PROVE  DeletionChecked'
  <2>1. \A u \in Templates : template'[u].cycle = template[u].cycle
    BY <1>4 DEF UpdateTemplate, PlanTypeOK, TemplateRows
  <2>2. UNCHANGED <<syllabus, generated, late>>
    BY <1>4 DEF UpdateTemplate
  <2>3. ASSUME NEW c
        PROVE  CycleDependants(c)' \subseteq CycleDependants(c)
    <3>1. TemplatesOf(c)' = TemplatesOf(c) /\ SyllabiOf(c)' = SyllabiOf(c)
      BY <2>1, <2>2 DEF TemplatesOf, SyllabiOf
    <3> QED
      BY <2>2, <3>1, DependantsShrink
  <2>4. \A u \in generated' : template'[u].cycle # Nil
    BY <2>1, <2>2 DEF DeletionChecked, PlanTypeOK
  <2> QED
    BY <1>3, <2>2, <2>3, <2>4, DeletionFrame
<1>5. ASSUME NEW t \in Templates, Generate(t)
      PROVE  DeletionChecked'
  <2>1. UNCHANGED <<template, syllabus, cycle, tx>> /\ generated' = generated \cup {t}
        /\ template[t].cycle # Nil /\ Arrives(template[t].cycle, <<"material", t>>)
    BY <1>5 DEF Generate
  <2>2. late \subseteq late'
    BY <2>1 DEF Arrives
  <2>3. ASSUME NEW c \in Cycles, Deleting(c)'
        PROVE  CycleDependants(c)' \subseteq CycleDependants(c) \cup late'
    <3>1. Deleting(c) /\ TemplatesOf(c)' = TemplatesOf(c) /\ SyllabiOf(c)' = SyllabiOf(c)
      BY <1>3, <2>1, <2>3 DEF TemplatesOf, SyllabiOf
    <3>2. CASE template[t].cycle = c
      <4>1. <<"material", t>> \in late'
        BY <2>1, <3>1, <3>2 DEF Arrives
      <4> QED
        BY <2>1, <3>1, <4>1 DEF CycleDependants
    <3>3. CASE template[t].cycle # c
      <4>1. t \notin TemplatesOf(c)
        BY <3>3 DEF TemplatesOf
      <4> QED
        BY <2>1, <3>1, <4>1 DEF CycleDependants
    <3> QED
      BY <3>2, <3>3
  <2>4. \A u \in generated' : template'[u].cycle # Nil
    BY <2>1 DEF DeletionChecked
  <2> QED
    BY <1>3, <2>2, <2>3, <2>4, DeletionFrame
<1>6. ASSUME NEW t \in Templates, NEW p \in Planners, CreateTemplate(p, t)
      PROVE  DeletionChecked'
  <2> DEFINE d == tx[p].cycle
  <2>1. template[t].cycle = Nil /\ UNCHANGED <<syllabus, generated>>
        /\ Arrives(d, <<"template", t>>)
    BY <1>6 DEF CreateTemplate
  <2>2. d \in Cycles
    BY <1>6, TransactionKinds DEF CreateTemplate, PlanTypeOK
  <2>3. template'[t].cycle = d /\ \A u \in Templates \ {t} : template'[u] = template[u]
    BY <1>6 DEF CreateTemplate, PlanTypeOK
  <2>4. late \subseteq late' /\ (Deleting(d) => <<"template", t>> \in late')
    BY <2>1 DEF Arrives
  <2> HIDE DEF d
  <2>5. t \notin generated
    BY <2>1 DEF DeletionChecked
  <2>6. ASSUME NEW c \in Cycles, Deleting(c)'
        PROVE  CycleDependants(c)' \subseteq CycleDependants(c) \cup late'
    <3>1. Deleting(c) /\ SyllabiOf(c)' = SyllabiOf(c)
      BY <1>3, <2>1, <2>6 DEF SyllabiOf
    <3>2. TemplatesOf(c)' \subseteq TemplatesOf(c) \cup {t}
      BY <2>3 DEF TemplatesOf
    <3>3. t \in TemplatesOf(c)' => <<"template", t>> \in late'
      BY <2>3, <2>4, <3>1 DEF TemplatesOf
    <3> QED
      BY <2>1, <2>5, <3>1, <3>2, <3>3 DEF CycleDependants
  <2>7. \A u \in generated' : template'[u].cycle # Nil
    BY <2>1, <2>3, <2>5 DEF DeletionChecked, PlanTypeOK
  <2> QED
    BY <1>3, <2>4, <2>6, <2>7, DeletionFrame
<1>7. ASSUME NEW t \in Templates, NEW p \in Planners, CheckTemplateUsage(p, t)
      PROVE  DeletionChecked'
  <2>1. UNCHANGED <<template, syllabus, generated, late>>
    BY <1>7 DEF CheckTemplateUsage
  <2>2. \A c : CycleDependants(c)' = CycleDependants(c)
    BY <2>1 DEF CycleDependants, TemplatesOf, SyllabiOf
  <2> QED
    BY <1>3, <2>1, <2>2, DeletionFrame DEF DeletionChecked
<1>8. ASSUME NEW p \in Planners, DeleteTemplate(p)
      PROVE  DeletionChecked'
  <2> DEFINE t == tx[p].template
             f == [cycle |-> Nil, name |-> Nil]
             Without(x) == IF x.template = t THEN [x EXCEPT !.template = Nil] ELSE x
  <2>1. template' = [template EXCEPT ![t] = f] /\ generated' = generated \ {t} /\ late' = late
        /\ syllabus' = [s \in Syllabi |-> Without(syllabus[s])]
    BY <1>8 DEF DeleteTemplate
  <2>2. \A s \in Syllabi : Without(syllabus[s]).cycle = syllabus[s].cycle
    BY DEF PlanTypeOK, SyllabusRows
  <2>3. f.cycle = Nil
    OBVIOUS
  <2> HIDE DEF t, f, Without
  <2>4. \A s \in Syllabi : syllabus'[s].cycle = syllabus[s].cycle
    BY <2>1, <2>2
  <2>5. t \in Templates
    BY <1>8, TransactionKinds DEF DeleteTemplate, PlanTypeOK, t
  <2>6. template'[t].cycle = Nil /\ \A u \in Templates \ {t} : template'[u] = template[u]
    BY <2>1, <2>3, <2>5 DEF PlanTypeOK
  <2>7. ASSUME NEW c \in Cycles
        PROVE  CycleDependants(c)' \subseteq CycleDependants(c)
    <3>1. Nil # c
      BY PlanAssumption
    <3>2. TemplatesOf(c)' \subseteq TemplatesOf(c) /\ SyllabiOf(c)' = SyllabiOf(c)
      BY <2>4, <2>6, <3>1 DEF TemplatesOf, SyllabiOf
    <3> QED
      BY <2>1, <3>2, DependantsShrink
  <2>8. \A u \in generated' : template'[u].cycle # Nil
    BY <2>1, <2>6 DEF DeletionChecked, PlanTypeOK
  <2> QED
    BY <1>3, <2>1, <2>7, <2>8, DeletionFrame
<1> QED
  BY <1>4, <1>5, <1>6, <1>7, <1>8 DEF TemplateStep

\* A syllabus that enters a cycle is recorded if a deletion of the cycle has begun.
LEMMA DeletionOfSyllabi ==
    ASSUME PlanTypeOK, DeletionChecked, SyllabusStep
    PROVE  DeletionChecked'
<1>1. UNCHANGED <<cycle, tx, template>>
  BY SyllabusFrame
<1>2. UNCHANGED generated
  BY SyllabusFrame
<1>3. \A c : (Deleting(c)' <=> Deleting(c)) /\ TemplatesOf(c)' = TemplatesOf(c)
  BY <1>1 DEF Deleting, TemplatesOf
<1>4. \A t \in generated' : template'[t].cycle # Nil
  BY <1>1, <1>2 DEF DeletionChecked
<1>5. ASSUME NEW s \in Syllabi, NEW d \in Cycles, Arrives(d, <<"syllabus", s>>),
             \A q \in Syllabi \ {s} : syllabus'[q].cycle = syllabus[q].cycle,
             syllabus'[s].cycle = d
      PROVE  DeletionChecked'
  <2>1. late \subseteq late' /\ (Deleting(d) => <<"syllabus", s>> \in late')
    BY <1>5 DEF Arrives
  <2>2. ASSUME NEW c \in Cycles, Deleting(c)'
        PROVE  CycleDependants(c)' \subseteq CycleDependants(c) \cup late'
    <3>1. SyllabiOf(c)' \subseteq SyllabiOf(c) \cup {s}
      BY <1>5 DEF SyllabiOf
    <3>2. s \in SyllabiOf(c)' => <<"syllabus", s>> \in late'
      BY <1>3, <1>5, <2>1, <2>2 DEF SyllabiOf
    <3> QED
      BY <1>2, <1>3, <3>1, <3>2 DEF CycleDependants
  <2> QED
    BY <1>3, <1>4, <2>1, <2>2, DeletionFrame
<1>6. ASSUME late' = late, \A s \in Syllabi : syllabus'[s].cycle = syllabus[s].cycle
      PROVE  DeletionChecked'
  <2>1. \A c : SyllabiOf(c)' = SyllabiOf(c)
    BY <1>6 DEF SyllabiOf
  <2>2. \A c : CycleDependants(c)' = CycleDependants(c)
    BY <1>2, <1>3, <2>1 DEF CycleDependants
  <2> QED
    BY <1>3, <1>4, <1>6, <2>2, DeletionFrame
<1>7. ASSUME NEW s \in Syllabi, NEW c \in Cycles, NEW k \in Courses, CreateSyllabus(s, c, k)
      PROVE  DeletionChecked'
  <2>1. Arrives(c, <<"syllabus", s>>)
    BY <1>7 DEF CreateSyllabus
  <2>2. syllabus'[s].cycle = c /\ \A q \in Syllabi \ {s} : syllabus'[q] = syllabus[q]
    BY <1>7 DEF CreateSyllabus, PlanTypeOK
  <2> QED
    BY <1>5, <2>1, <2>2
<1>8. ASSUME NEW s \in Syllabi, NEW new \in Syllabi, NEW c \in Cycles, CloneCycle(new, s, c)
      PROVE  DeletionChecked'
  <2>1. Arrives(c, <<"syllabus", new>>)
    BY <1>8 DEF CloneCycle
  <2>2. syllabus'[new].cycle = c /\ \A q \in Syllabi \ {new} : syllabus'[q] = syllabus[q]
    BY <1>8 DEF CloneCycle, PlanTypeOK
  <2> QED
    BY <1>5, <2>1, <2>2
<1>9. ASSUME NEW s \in Syllabi,
             \/ ArchiveSyllabus(s)
             \/ \E t \in Templates : SetTemplate(s, t) \/ \E i \in Numbers : AddDistribution(s, t, i)
             \/ \E new \in Syllabi : CloneSyllabus(new, s)
      PROVE  DeletionChecked'
  <2>1. late' = late
    BY <1>9 DEF ArchiveSyllabus, SetTemplate, AddDistribution, CloneSyllabus
  <2> DEFINE Same == \A q \in Syllabi : syllabus'[q].cycle = syllabus[q].cycle
  <2>2. ArchiveSyllabus(s) => Same
    BY DEF ArchiveSyllabus, PlanTypeOK, SyllabusRows
  <2>3. ASSUME NEW t \in Templates, SetTemplate(s, t)
        PROVE  Same
    BY <2>3 DEF SetTemplate, PlanTypeOK, SyllabusRows
  <2>4. ASSUME NEW t \in Templates, NEW i \in Numbers, AddDistribution(s, t, i)
        PROVE  Same
    BY <2>4 DEF AddDistribution
  <2>5. ASSUME NEW new \in Syllabi, CloneSyllabus(new, s)
        PROVE  Same
    <3> DEFINE u == ClonedTemplate(s, new, syllabus[s].cycle, syllabus[new].cycle)
    <3>1. syllabus' = [syllabus EXCEPT ![new].template = u]
      BY <2>5 DEF CloneSyllabus
    <3> HIDE DEF u
    <3> QED
      BY <3>1 DEF PlanTypeOK, SyllabusRows
  <2>6. Same
    BY <1>9, <2>2, <2>3, <2>4, <2>5
  <2> QED
    BY <1>6, <2>1, <2>6
<1> QED
  BY <1>7, <1>8, <1>9 DEF SyllabusStep

-----------------------------------------------------------------------------
LEMMA PlanInitially ==
    PlanInit => PlanIInv
<1> SUFFICES ASSUME PlanInit PROVE PlanIInv
  OBVIOUS
<1>1. PlanTypeOK
  BY TypeInitially
<1>2. \A s \in Syllabi : syllabus[s] = Blank
  BY DEF PlanInit
<1>3. NoDanglingSyllabus /\ TemplatesOfOwnCycle
  BY <1>2 DEF PlanInit, NoDanglingSyllabus, TemplatesOfOwnCycle, Blank
<1>4. \A p \in Planners : tx[p].op = "none"
  BY DEF PlanInit, NoTx
<1>5. \A p \in Planners : UpdateCurrent(p)
  BY <1>4 DEF UpdateCurrent
<1>6. WeeksMatchCycle
  <2>1. 1 \in Numbers /\ Numbers \subseteq Nat /\ \A i \in Numbers : i >= 1
    BY PlanAssumption DEF Numbers
  <2>2. PICK there \in SUBSET Cycles :
          /\ cycle = [c \in Cycles |->
                [state |-> IF c \in there THEN "live" ELSE "none", active |-> TRUE,
                 start |-> 1, total |-> 1]]
          /\ weeks = [c \in Cycles |-> [i \in Numbers |->
                IF c \in there /\ i = 1 THEN FreshWeek(1, 1) ELSE NoWeek]]
    BY DEF PlanInit
  <2> SUFFICES ASSUME NEW c \in Cycles, cycle[c].state = "live", NEW i \in Numbers
               PROVE  /\ weeks[c][i].live <=> i <= cycle[c].total
                      /\ weeks[c][i].live => weeks[c][i].start = cycle[c].start
    BY DEF WeeksMatchCycle
  <2>3. c \in there /\ cycle[c].total = 1 /\ cycle[c].start = 1
    BY <2>2
  <2>4. weeks[c][i] = IF i = 1 THEN FreshWeek(1, 1) ELSE NoWeek
    BY <2>2, <2>3
  <2> QED
    BY <2>1, <2>3, <2>4 DEF FreshWeek, NoWeek
<1>7. DeletionChecked
  <2>1. \A c \in Cycles : ~Deleting(c)
    BY <1>4 DEF PlanInit, Deleting
  <2> QED
    BY <2>1 DEF DeletionChecked, PlanInit
<1> QED
  BY <1>1, <1>3, <1>5, <1>6, <1>7 DEF PlanIInv

LEMMA PlanStep ==
    PlanIInv /\ [PlanNext]_planVars => PlanIInv'
<1> SUFFICES ASSUME PlanIInv, [PlanNext]_planVars PROVE PlanIInv'
  OBVIOUS
<1> USE DEF PlanIInv
<1>1. CASE UNCHANGED planVars
  BY <1>1 DEF planVars, PlanTypeOK, NoDanglingSyllabus, TemplatesOfOwnCycle, WeeksMatchCycle,
              UpdateCurrent, DeletionChecked, Deleting, CycleDependants, TemplatesOf, SyllabiOf
<1>2. CASE PlanNext
  <2>1. CASE CycleStep \/ \E p \in Planners : WriteCycle(p) \/ SoftDeleteCycle(p)
    <3>1. PlanTypeOK' /\ DeletionChecked'
      BY <2>1, TypeOfCycles, DeletionOfCycles
    <3>2. NoDanglingSyllabus' /\ TemplatesOfOwnCycle'
      BY <2>1, ReferencesOfCycles
    <3> QED
      BY <1>2, <3>1, <3>2, WeeksStep
  <2>2. CASE TemplateStep \/ \E p \in Planners : DeleteTemplate(p)
    <3>1. PlanTypeOK' /\ DeletionChecked' /\ NoDanglingSyllabus' /\ TemplatesOfOwnCycle'
      BY <2>2, TypeOfTemplates, DeletionOfTemplates, ReferencesOfTemplates
    <3> QED
      BY <1>2, <3>1, WeeksStep
  <2>3. CASE SyllabusStep
    <3>1. PlanTypeOK' /\ DeletionChecked' /\ NoDanglingSyllabus' /\ TemplatesOfOwnCycle'
      BY <2>3, TypeOfSyllabi, DeletionOfSyllabi, ReferencesOfSyllabi
    <3> QED
      BY <1>2, <3>1, WeeksStep
  <2> QED
    BY <1>2, <2>1, <2>2, <2>3 DEF PlanNext
<1> QED
  BY <1>1, <1>2

\* The inductive invariant: the types, and what a syllabus that is not there, an
\* update in progress and a deletion in progress can rely on.
THEOREM PlanInvariant == PlanSpec => []PlanIInv
<1> QED
  BY PlanInitially, PlanStep, PTL DEF PlanSpec

\* Whatever is cloned, renamed, deleted and generated at the same time, a syllabus and
\* its distributions only refer to templates of the cycle of the syllabus.
THEOREM ReferencesAreOwn == PlanSpec => []TemplatesOfOwnCycle
<1>1. PlanIInv => TemplatesOfOwnCycle
  BY DEF PlanIInv
<1> QED
  BY <1>1, PlanInvariant, PTL

\* A cycle no two updates of which overlapped has the weeks 1 to totalWeeks, counted
\* from its start, however it was updated, hidden and written to.
THEOREM WeeksAreDerived == PlanSpec => []WeeksMatchCycle
<1>1. PlanIInv => WeeksMatchCycle
  BY DEF PlanIInv
<1> QED
  BY <1>1, PlanInvariant, PTL

\* What a deleted cycle leaves orphaned came after its deletion had counted.
THEOREM DeletionsLeaveNothing == PlanSpec => []OrphansAreLate
<1>1. PlanIInv => OrphansAreLate
  BY DEF PlanIInv, DeletionChecked, OrphansAreLate, Deleting
<1> QED
  BY <1>1, PlanInvariant, PTL

-----------------------------------------------------------------------------
(* The cached answers of the catalog.                                      *)

Stamps == 1 .. MaxCatalogClock
Versions == 0 .. MaxCatalogClock
Outcomes == {"none", "SUCCESS", "FAILED"}
CallSteps == {"sent", "get", "fill", "answered", "stamp", "set", "refused", "done"}
Answers == [rev : Nat, topics : SUBSET CatalogTopics, hidden : SUBSET CatalogTopics,
            outcome : Outcomes \cup {"missing"}]
CatalogRequests ==
    [kind : Keys \cup {"toggle", "done"}, topic : CatalogTopics \cup {"none"}, value : BOOLEAN,
     of : Nat, step : CallSteps, version : Versions, floor : Nat, answer : Answers]
Switches == UNION {[S -> BOOLEAN] : S \in SUBSET CatalogTopics}
CatalogPages == [of : Nat, topics : Switches, total : Nat, active : Nat, expanded : BOOLEAN,
                 loading : BOOLEAN, pending : SUBSET CatalogTopics]

CatalogTypeOK ==
    /\ catalog \in [topics : SUBSET CatalogTopics, hidden : SUBSET CatalogTopics, rev : Nat]
    /\ company \in BOOLEAN
    /\ cached \in [version : Versions, entries : [Keys \X Versions -> Answers]]
    /\ cron \in [step : {"idle", "fetch", "record", "invalidate", "set"}, attempt : Nat, runs : Nat,
                 locked : BOOLEAN, outcome : Outcomes, version : Versions]
    /\ overlap \in {"none", "PASS", "FAIL"}
    /\ catalogPage \in CatalogPages
    /\ catalogCalls \in Seq(CatalogRequests)
    /\ catalogClock \in Stamps /\ catalogFaults \in Nat
    /\ bumped \in [rev : Nat, used : SUBSET Stamps, lapsed : BOOLEAN]

\* A request with a step of the cache is a read; one that is about to replace the
\* version is a toggle and holds a version read from the clock.
StepFits(c) ==
    /\ c.step \in {"get", "fill"} => c.kind \in Keys
    /\ c.step \in {"stamp", "set"} => c.kind = "toggle"
    /\ c.step = "set" => c.version # 0

InvalidationsStamped ==
    /\ \A i \in DOMAIN catalogCalls : StepFits(catalogCalls[i])
    /\ cron.step = "set" => cron.version # 0

HasVersion(c) == c.kind \in Keys /\ c.step \in {"get", "fill", "answered"}

\* What is cached under the version is as new as the write that installed it.
CacheFollowsBump ==
    /\ bumped.rev <= catalog.rev
    /\ cached.version \in {0} \cup bumped.used
    /\ \A key \in Keys \X Versions : cached.entries[key] # NoEntry =>
         /\ key[2] \in {0} \cup bumped.used
         /\ key[2] = cached.version => cached.entries[key].rev >= bumped.rev

\* What a request that has read a version may be answered, and what it may cache.
ReadsFit(c) ==
    HasVersion(c) =>
        /\ c.version \in {0} \cup bumped.used
        /\ c.floor <= catalog.rev
        /\ c.version = cached.version => c.floor = bumped.rev
        /\ \A key \in Keys \X Versions :
             key[2] = c.version /\ cached.entries[key] # NoEntry => cached.entries[key].rev >= c.floor
        /\ c.step \in {"fill", "answered"} => c.answer.rev >= c.floor

SameFloor(c, d) == HasVersion(c) /\ HasVersion(d) /\ c.version = d.version => c.floor = d.floor

CachesFit ==
    bumped.lapsed \/
        /\ CacheFollowsBump
        /\ \A i \in DOMAIN catalogCalls : ReadsFit(catalogCalls[i])
        /\ \A i, j \in DOMAIN catalogCalls : SameFloor(catalogCalls[i], catalogCalls[j])

CatalogIInv == CatalogTypeOK /\ InvalidationsStamped /\ CachesFit

-----------------------------------------------------------------------------
LEMMA CatalogConstants ==
    /\ NoEntry \in Answers /\ NoCatalogCall \in CatalogRequests
    /\ Stamps \subseteq Versions /\ 1 \in Stamps /\ 0 \in Versions /\ 0 \notin Stamps
    /\ Stamps \subseteq Nat /\ Versions \subseteq Nat
<1>1. NoEntry \in Answers
  <2>1. 0 \in Nat /\ "missing" \in Outcomes \cup {"missing"} /\ {} \in SUBSET CatalogTopics
    OBVIOUS
  <2> QED
    BY <2>1, Zenon DEF NoEntry, Answers
<1>2. NoCatalogCall \in CatalogRequests
  <2>1. /\ "done" \in Keys \cup {"toggle", "done"} /\ "none" \in CatalogTopics \cup {"none"}
        /\ FALSE \in BOOLEAN /\ 0 \in Nat /\ "done" \in CallSteps
    BY DEF CallSteps
  <2>2. 0 \in Versions
    BY CatalogAssumption DEF Versions
  <2> QED
    BY <1>1, <2>1, <2>2, Zenon DEF NoCatalogCall, CatalogRequests
<1> QED
  BY <1>1, <1>2, CatalogAssumption DEF Stamps, Versions

\* Every call is `to' or as it was.
OnlyMoves(to) ==
    \A j \in DOMAIN catalogCalls' :
        \/ catalogCalls'[j] = to
        \/ j \in DOMAIN catalogCalls /\ catalogCalls'[j] = catalogCalls[j]

LEMMA CallMoves ==
    ASSUME CatalogTypeOK, NEW i \in DOMAIN catalogCalls, NEW to \in CatalogRequests, Advance(i, to)
    PROVE  catalogCalls' \in Seq(CatalogRequests) /\ OnlyMoves(to)
<1>1. catalogCalls \in Seq(CatalogRequests)
  BY DEF CatalogTypeOK
<1>2. catalogCalls' = [catalogCalls EXCEPT ![i] = to]
  BY DEF Advance
<1> QED
  BY <1>1, <1>2 DEF OnlyMoves

LEMMA CallSends ==
    ASSUME CatalogTypeOK, NEW kind \in Keys \cup {"toggle"}, NEW topic \in CatalogTopics \cup {"none"},
           NEW value \in BOOLEAN, NEW of \in Nat, SendCall(kind, topic, value, of)
    PROVE  /\ catalogCalls' \in Seq(CatalogRequests)
           /\ \E to \in CatalogRequests : OnlyMoves(to) /\ to.step = "sent"
<1> DEFINE to == [NoCatalogCall EXCEPT !.kind = kind, !.topic = topic, !.value = value, !.of = of,
                                       !.step = "sent"]
<1>1. to \in CatalogRequests /\ to.step = "sent"
  <2>1. NoCatalogCall \in CatalogRequests
    BY CatalogConstants
  <2>2. "sent" \in CallSteps
    BY DEF CallSteps
  <2> QED
    BY <2>1, <2>2 DEF CatalogRequests
<1>2. catalogCalls' = Append(catalogCalls, to)
  BY DEF SendCall
<1>3. catalogCalls \in Seq(CatalogRequests)
  BY DEF CatalogTypeOK
<1> HIDE DEF to
<1>4. catalogCalls' \in Seq(CatalogRequests)
  BY <1>1, <1>2, <1>3
<1>5. OnlyMoves(to)
  BY <1>1, <1>2, <1>3 DEF OnlyMoves
<1> QED
  BY <1>1, <1>4, <1>5

\* The step of a request that writes neither the version nor an entry.
LEMMA ReadsKept ==
    ASSUME CatalogIInv, NEW to \in CatalogRequests, OnlyMoves(to), StepFits(to),
           cached' = cached, bumped' = bumped, catalog'.rev \in Nat, catalog'.rev >= catalog.rev,
           cron'.step = "set" => cron'.version # 0,
           HasVersion(to) /\ ~bumped.lapsed =>
             ReadsFit(to) /\ \A j \in DOMAIN catalogCalls : SameFloor(to, catalogCalls[j])
    PROVE  InvalidationsStamped' /\ CachesFit'
<1>0. catalog.rev \in Nat /\ bumped.rev \in Nat /\ catalogCalls \in Seq(CatalogRequests)
  BY DEF CatalogIInv, CatalogTypeOK
<1>1. InvalidationsStamped'
  BY DEF InvalidationsStamped, CatalogIInv, OnlyMoves
<1>2. ASSUME ~bumped.lapsed PROVE CachesFit'
  <2>1. CacheFollowsBump /\ (\A j \in DOMAIN catalogCalls : ReadsFit(catalogCalls[j]))
    BY <1>2 DEF CachesFit, CatalogIInv
  <2>2. CacheFollowsBump'
    BY <2>1, <1>0 DEF CacheFollowsBump
  <2>3. ASSUME NEW c \in CatalogRequests, ReadsFit(c) PROVE ReadsFit(c)'
    <3>1. c.floor \in Nat
      BY <2>3 DEF CatalogRequests
    <3> QED
      BY <2>3, <3>1, <1>0 DEF ReadsFit
  <2>4. ReadsFit(to)
    BY <1>2 DEF ReadsFit
  <2>5. \A j \in DOMAIN catalogCalls : catalogCalls[j] \in CatalogRequests
    BY <1>0
  <2>6. \A j \in DOMAIN catalogCalls' : ReadsFit(catalogCalls[j])'
    <3> SUFFICES ASSUME NEW j \in DOMAIN catalogCalls' PROVE ReadsFit(catalogCalls[j])'
      OBVIOUS
    <3>1. CASE catalogCalls'[j] = to
      BY <3>1, <2>3, <2>4 DEF ReadsFit, HasVersion
    <3>2. CASE j \in DOMAIN catalogCalls /\ catalogCalls'[j] = catalogCalls[j]
      <4>1. ReadsFit(catalogCalls[j])
        BY <3>2, <2>1
      <4> DEFINE c == catalogCalls[j]
      <4>2. c \in CatalogRequests /\ ReadsFit(c)
        BY <3>2, <4>1, <2>5
      <4> QED
        BY <3>2, <4>1, <2>3, <2>5 DEF ReadsFit, HasVersion
    <3> QED
      BY <3>1, <3>2 DEF OnlyMoves
  <2>7. \A j, k \in DOMAIN catalogCalls' : SameFloor(catalogCalls'[j], catalogCalls'[k])
    BY <1>2 DEF CachesFit, CatalogIInv, OnlyMoves, SameFloor
  <2> QED
    BY <2>2, <2>6, <2>7 DEF CachesFit
<1> QED
  BY <1>1, <1>2 DEF CachesFit

LEMMA StampsKept ==
    ASSUME CatalogIInv, NEW to \in CatalogRequests, OnlyMoves(to), StepFits(to),
           cron'.step = "set" => cron'.version # 0
    PROVE  InvalidationsStamped'
<1> QED
  BY DEF InvalidationsStamped, CatalogIInv, OnlyMoves

\* Nothing but the calls, the pages and what a request did not touch.
LEMMA CallsTyped ==
    ASSUME CatalogIInv, NEW i \in DOMAIN catalogCalls
    PROVE  /\ catalogCalls[i] \in CatalogRequests /\ StepFits(catalogCalls[i])
           /\ catalogCalls \in Seq(CatalogRequests)
           /\ ~bumped.lapsed => ReadsFit(catalogCalls[i]) /\ CacheFollowsBump
           /\ ~bumped.lapsed =>
                \A j \in DOMAIN catalogCalls : SameFloor(catalogCalls[i], catalogCalls[j])
<1> QED
  BY DEF CatalogIInv, CatalogTypeOK, InvalidationsStamped, CachesFit

LEMMA GetInv ==
    ASSUME CatalogIInv, NEW i \in DOMAIN catalogCalls, GetCacheVersion(i)
    PROVE  CatalogIInv'
<1> DEFINE c == catalogCalls[i]
           read == [c EXCEPT !.step = "get", !.version = cached.version, !.floor = bumped.rev]
           missed == [c EXCEPT !.step = "get"]
<1>0. /\ c \in CatalogRequests /\ c.kind \in Keys /\ CatalogTypeOK
      /\ cached.version \in Versions /\ bumped.rev \in Nat /\ catalog.rev \in Nat
      /\ bumped \in [rev : Nat, used : SUBSET Stamps, lapsed : BOOLEAN] /\ catalogFaults \in Nat
      /\ "get" \in CallSteps
  BY CallsTyped DEF GetCacheVersion, CatalogIInv, CatalogTypeOK, CallSteps
<1>1. CASE Advance(i, read) /\ UNCHANGED <<catalogFaults, bumped>>
  <2> HIDE DEF c
  <2>1. /\ read \in CatalogRequests /\ StepFits(read) /\ read.step = "get"
        /\ read.version = cached.version /\ read.floor = bumped.rev
    BY <1>0 DEF CatalogRequests, StepFits
  <2> HIDE DEF read
  <2>2. catalogCalls' \in Seq(CatalogRequests) /\ OnlyMoves(read)
    BY <1>0, <1>1, <2>1, CallMoves
  <2>3. ASSUME ~bumped.lapsed
        PROVE  ReadsFit(read) /\ \A j \in DOMAIN catalogCalls : SameFloor(read, catalogCalls[j])
    <3>1. CacheFollowsBump /\ \A j \in DOMAIN catalogCalls : ReadsFit(catalogCalls[j])
      BY <2>3 DEF CatalogIInv, CachesFit
    <3>2. ReadsFit(read)
      BY <3>1, <2>1, <1>0 DEF ReadsFit, CacheFollowsBump
    <3>3. \A j \in DOMAIN catalogCalls : SameFloor(read, catalogCalls[j])
      BY <3>1, <2>1 DEF ReadsFit, SameFloor
    <3> QED
      BY <3>2, <3>3
  <2>4. InvalidationsStamped' /\ CachesFit'
    BY <1>0, <1>1, <2>1, <2>2, <2>3, ReadsKept DEF GetCacheVersion, serverVars, CatalogIInv,
       InvalidationsStamped
  <2>5. CatalogTypeOK'
    BY <1>0, <1>1, <2>2 DEF GetCacheVersion, serverVars, CatalogTypeOK
  <2> QED
    BY <2>4, <2>5 DEF CatalogIInv
<1>2. CASE Fault /\ Advance(i, missed) /\ bumped' = [bumped EXCEPT !.lapsed = TRUE]
  <2> HIDE DEF c
  <2>1. missed \in CatalogRequests /\ StepFits(missed)
    BY <1>0 DEF CatalogRequests, StepFits
  <2> HIDE DEF missed
  <2>2. catalogCalls' \in Seq(CatalogRequests) /\ OnlyMoves(missed)
    BY <1>0, <1>2, <2>1, CallMoves
  <2>3. InvalidationsStamped'
    BY <2>1, <2>2, StampsKept DEF GetCacheVersion, serverVars, CatalogIInv, InvalidationsStamped
  <2>4. /\ bumped' \in [rev : Nat, used : SUBSET Stamps, lapsed : BOOLEAN] /\ bumped'.lapsed
        /\ catalogFaults' \in Nat
    <3>1. catalogFaults' \in Nat
      BY <1>0, <1>2 DEF Fault
    <3>2. bumped' \in [rev : Nat, used : SUBSET Stamps, lapsed : BOOLEAN] /\ bumped'.lapsed
      BY <1>0, <1>2
    <3> QED
      BY <3>1, <3>2
  <2>5. CatalogTypeOK'
    BY <1>0, <1>2, <2>2, <2>4 DEF GetCacheVersion, serverVars, CatalogTypeOK
  <2> QED
    BY <2>3, <2>4, <2>5 DEF CatalogIInv, CachesFit
<1> QED
  BY <1>1, <1>2 DEF GetCacheVersion

LEMMA RowsTyped ==
    ASSUME CatalogTypeOK, NEW kind
    PROVE  CatalogRows(kind) \in Answers /\ CatalogRows(kind).rev = catalog.rev
<1> DEFINE shown == IF kind = "topics" THEN "none" ELSE cron.outcome
<1>1. shown \in Outcomes \cup {"missing"}
  BY DEF CatalogTypeOK, Outcomes
<1>2. CatalogRows(kind) = [rev |-> catalog.rev, topics |-> catalog.topics, hidden |-> catalog.hidden,
                           outcome |-> shown]
  BY DEF CatalogRows
<1>3. catalog.rev \in Nat /\ catalog.topics \in SUBSET CatalogTopics
      /\ catalog.hidden \in SUBSET CatalogTopics
  BY DEF CatalogTypeOK
<1> HIDE DEF shown
<1> QED
  BY <1>1, <1>2, <1>3 DEF Answers

LEMMA ReadInv ==
    ASSUME CatalogIInv, NEW i \in DOMAIN catalogCalls, ReadThrough(i)
    PROVE  CatalogIInv'
<1> DEFINE c == catalogCalls[i]
           key == CacheKey(c.kind, c.version)
           hit == [c EXCEPT !.step = "answered", !.answer = cached.entries[key]]
           rows == CatalogRows(c.kind)
           read == [c EXCEPT !.step = "fill", !.answer = rows]
<1>0. /\ c \in CatalogRequests /\ c.kind \in Keys /\ CatalogTypeOK /\ c.step = "get"
      /\ key \in Keys \X Versions /\ key[2] = c.version
      /\ cached.entries[key] \in Answers /\ rows \in Answers /\ rows.rev = catalog.rev
      /\ catalogFaults \in Nat /\ "answered" \in CallSteps /\ "fill" \in CallSteps
      /\ catalog.rev \in Nat /\ c.floor \in Nat
  <2>1. c \in CatalogRequests /\ c.step = "get" /\ c.kind \in Keys /\ CatalogTypeOK
    BY CallsTyped DEF ReadThrough, CatalogIInv, StepFits
  <2>2. key = <<c.kind, c.version>> /\ c.version \in Versions /\ c.floor \in Nat
    BY <2>1 DEF CacheKey, CatalogRequests
  <2> HIDE DEF c
  <2>3. key \in Keys \X Versions /\ key[2] = c.version
    BY <2>1, <2>2
  <2> HIDE DEF key
  <2> QED
    BY <2>1, <2>2, <2>3, RowsTyped DEF CatalogTypeOK, CallSteps
<1>1. catalogFaults' \in Nat
  BY <1>0 DEF ReadThrough, Fault
<1>2. ASSUME NEW to \in CatalogRequests, Advance(i, to), to.kind = c.kind, to.version = c.version,
             to.floor = c.floor, to.step \in {"fill", "answered"},
             ~bumped.lapsed /\ ReadsFit(c) => to.answer.rev >= c.floor
      PROVE  CatalogIInv'
  <2>1. catalogCalls' \in Seq(CatalogRequests) /\ OnlyMoves(to)
    BY <1>0, <1>2, CallMoves
  <2>2. StepFits(to)
    BY <1>0, <1>2 DEF StepFits
  <2>3. ASSUME ~bumped.lapsed
        PROVE  ReadsFit(to) /\ \A j \in DOMAIN catalogCalls : SameFloor(to, catalogCalls[j])
    <3>1. ReadsFit(c) /\ \A j \in DOMAIN catalogCalls : SameFloor(c, catalogCalls[j])
      BY <2>3, CallsTyped
    <3> HIDE DEF c
    <3>2. HasVersion(c)
      BY <1>0 DEF HasVersion
    <3>3. ReadsFit(to)
      BY <3>1, <3>2, <2>3, <1>2 DEF ReadsFit
    <3>4. \A j \in DOMAIN catalogCalls : SameFloor(to, catalogCalls[j])
      BY <3>1, <3>2, <1>2 DEF SameFloor
    <3> QED
      BY <3>3, <3>4
  <2>4. InvalidationsStamped' /\ CachesFit'
    BY <1>0, <1>2, <2>1, <2>2, <2>3, ReadsKept DEF ReadThrough, serverVars, CatalogIInv,
       InvalidationsStamped
  <2>5. CatalogTypeOK'
    BY <1>0, <1>1, <2>1 DEF ReadThrough, serverVars, CatalogTypeOK
  <2> QED
    BY <2>4, <2>5 DEF CatalogIInv
<1>3. CASE cached.entries[key] # NoEntry /\ Advance(i, hit)
  <2> HIDE DEF key
  <2>1. /\ hit \in CatalogRequests /\ hit.kind = c.kind /\ hit.version = c.version
        /\ hit.floor = c.floor /\ hit.step = "answered" /\ hit.answer = cached.entries[key]
    <3> HIDE DEF c
    <3> QED
      BY <1>0 DEF CatalogRequests
  <2> HIDE DEF hit, c
  <2>2. ReadsFit(c) => hit.answer.rev >= c.floor
    BY <1>0, <1>3, <2>1 DEF ReadsFit, HasVersion
  <2> QED
    BY <1>2, <1>3, <2>1, <2>2
<1>4. CASE Advance(i, read)
  <2> HIDE DEF rows
  <2>1. /\ read \in CatalogRequests /\ read.kind = c.kind /\ read.version = c.version
        /\ read.floor = c.floor /\ read.step = "fill" /\ read.answer = rows
    <3> HIDE DEF c
    <3> QED
      BY <1>0 DEF CatalogRequests
  <2> HIDE DEF read, c
  <2>2. ReadsFit(c) => read.answer.rev >= c.floor
    BY <1>0, <2>1 DEF ReadsFit, HasVersion
  <2> QED
    BY <1>2, <1>4, <2>1, <2>2
<1> QED
  BY <1>3, <1>4 DEF ReadThrough

\* An answer that is cached is as new as every request of its version must be told.
LEMMA FillKept ==
    ASSUME CatalogIInv, ~bumped.lapsed, NEW c \in CatalogRequests, NEW to \in CatalogRequests,
           \E i \in DOMAIN catalogCalls : c = catalogCalls[i],
           c.step = "fill", c.kind \in Keys, to.step = "answered", to.kind = c.kind,
           to.version = c.version, to.floor = c.floor, to.answer = c.answer, OnlyMoves(to),
           NEW key \in Keys \X Versions, key[2] = c.version,
           cached'.version = cached.version, cached'.entries[key] = c.answer,
           \A other \in Keys \X Versions : other # key => cached'.entries[other] = cached.entries[other],
           bumped' = bumped, catalog' = catalog
    PROVE  CachesFit'
<1>1. /\ CacheFollowsBump /\ ReadsFit(c) /\ HasVersion(c)
      /\ \A j \in DOMAIN catalogCalls : ReadsFit(catalogCalls[j]) /\ SameFloor(c, catalogCalls[j])
      /\ \A j, k \in DOMAIN catalogCalls : SameFloor(catalogCalls[j], catalogCalls[k])
  BY DEF CatalogIInv, CachesFit, HasVersion
<1>2. \A j \in DOMAIN catalogCalls : catalogCalls[j] \in CatalogRequests
  BY DEF CatalogIInv, CatalogTypeOK
<1>3. /\ c.answer.rev >= c.floor /\ c.version \in {0} \cup bumped.used
      /\ c.version = cached.version => c.floor = bumped.rev
  BY <1>1 DEF ReadsFit
<1>4. CacheFollowsBump'
  BY <1>1, <1>3 DEF CacheFollowsBump
<1>5. ASSUME NEW d \in CatalogRequests, ReadsFit(d), SameFloor(c, d) PROVE ReadsFit(d)'
  BY <1>1, <1>3, <1>5 DEF ReadsFit, SameFloor
<1>6. HasVersion(to) /\ SameFloor(c, to) /\ \A j \in DOMAIN catalogCalls : SameFloor(to, catalogCalls[j])
  BY <1>1 DEF SameFloor, HasVersion
<1>7. ReadsFit(to)
  BY <1>1, <1>3 DEF ReadsFit
<1>8. \A j \in DOMAIN catalogCalls' : ReadsFit(catalogCalls[j])'
  <2> SUFFICES ASSUME NEW j \in DOMAIN catalogCalls' PROVE ReadsFit(catalogCalls[j])'
    OBVIOUS
  <2>1. CASE catalogCalls'[j] = to
    <3>1. ReadsFit(to)'
      BY <1>5, <1>6, <1>7
    <3> QED
      BY <3>1, <2>1 DEF ReadsFit, HasVersion
  <2>2. CASE j \in DOMAIN catalogCalls /\ catalogCalls'[j] = catalogCalls[j]
    BY <2>2, <1>1, <1>2, <1>5 DEF ReadsFit, HasVersion
  <2> QED
    BY <2>1, <2>2 DEF OnlyMoves
<1>9. \A j, k \in DOMAIN catalogCalls' : SameFloor(catalogCalls'[j], catalogCalls'[k])
  BY <1>1, <1>6 DEF OnlyMoves, SameFloor
<1> QED
  BY <1>4, <1>8, <1>9 DEF CachesFit

LEMMA FillInv ==
    ASSUME CatalogIInv, NEW i \in DOMAIN catalogCalls, FillCache(i)
    PROVE  CatalogIInv'
<1> DEFINE c == catalogCalls[i]
           key == CacheKey(c.kind, c.version)
           to == [c EXCEPT !.step = "answered"]
<1>0. /\ c \in CatalogRequests /\ c.kind \in Keys /\ CatalogTypeOK /\ c.step = "fill"
      /\ key \in Keys \X Versions /\ key[2] = c.version /\ c.answer \in Answers
      /\ cached \in [version : Versions, entries : [Keys \X Versions -> Answers]]
      /\ catalogFaults \in Nat /\ "answered" \in CallSteps
      /\ catalog.rev \in Nat /\ c.floor \in Nat
  <2>1. c \in CatalogRequests /\ c.step = "fill" /\ c.kind \in Keys /\ CatalogTypeOK
    BY CallsTyped DEF FillCache, CatalogIInv, StepFits
  <2>2. key = <<c.kind, c.version>> /\ c.version \in Versions /\ c.floor \in Nat /\ c.answer \in Answers
    BY <2>1 DEF CacheKey, CatalogRequests
  <2> HIDE DEF c
  <2>3. key \in Keys \X Versions /\ key[2] = c.version
    BY <2>1, <2>2
  <2> HIDE DEF key
  <2> QED
    BY <2>1, <2>2, <2>3 DEF CatalogTypeOK, CallSteps
<1>1. catalogFaults' \in Nat
  BY <1>0 DEF FillCache, Fault
<1>2. /\ to \in CatalogRequests /\ to.kind = c.kind /\ to.version = c.version
      /\ to.floor = c.floor /\ to.step = "answered" /\ to.answer = c.answer /\ StepFits(to)
  <2> HIDE DEF c
  <2> QED
    BY <1>0 DEF CatalogRequests, StepFits
<1>3. Advance(i, to)
  BY DEF FillCache
<1> HIDE DEF to
<1>4. catalogCalls' \in Seq(CatalogRequests) /\ OnlyMoves(to)
  BY <1>0, <1>2, <1>3, CallMoves
<1>5. ASSUME ~bumped.lapsed
      PROVE  ReadsFit(to) /\ \A j \in DOMAIN catalogCalls : SameFloor(to, catalogCalls[j])
  <2>1. ReadsFit(c) /\ \A j \in DOMAIN catalogCalls : SameFloor(c, catalogCalls[j])
    BY <1>5, CallsTyped
  <2> HIDE DEF c
  <2>2. HasVersion(c)
    BY <1>0 DEF HasVersion
  <2>3. ReadsFit(to)
    BY <2>1, <2>2, <1>5, <1>2, <1>0 DEF ReadsFit
  <2>4. \A j \in DOMAIN catalogCalls : SameFloor(to, catalogCalls[j])
    BY <2>1, <2>2, <1>2 DEF SameFloor
  <2> QED
    BY <2>3, <2>4
<1>6. CASE UNCHANGED cached
  <2>1. InvalidationsStamped' /\ CachesFit'
    BY <1>0, <1>2, <1>4, <1>5, <1>6, ReadsKept DEF FillCache, CatalogIInv, InvalidationsStamped
  <2>2. CatalogTypeOK'
    BY <1>0, <1>1, <1>4, <1>6 DEF FillCache, CatalogTypeOK
  <2> QED
    BY <2>1, <2>2 DEF CatalogIInv
<1>7. CASE cached' = [cached EXCEPT !.entries[key] = c.answer]
  <2>1. /\ cached' \in [version : Versions, entries : [Keys \X Versions -> Answers]]
        /\ cached'.version = cached.version /\ cached'.entries[key] = c.answer
        /\ \A other \in Keys \X Versions : other # key => cached'.entries[other] = cached.entries[other]
    <3> HIDE DEF key, c
    <3> QED
      BY <1>0, <1>7
  <2>2. InvalidationsStamped'
    BY <1>2, <1>4, StampsKept DEF FillCache, CatalogIInv, InvalidationsStamped
  <2>3. CatalogTypeOK'
    BY <1>0, <1>1, <1>4, <2>1 DEF FillCache, CatalogTypeOK
  <2>4. ASSUME ~bumped.lapsed PROVE CachesFit'
    <3> HIDE DEF key
    <3>1. bumped' = bumped /\ catalog' = catalog
      BY DEF FillCache
    <3> QED
      BY <3>1, <2>4, <2>1, <1>0, <1>2, <1>4, FillKept
  <2> QED
    BY <2>2, <2>3, <2>4 DEF CatalogIInv, CachesFit, FillCache
<1> QED
  BY <1>6, <1>7 DEF FillCache

\* The new version is one nothing was cached under and nobody has read.
LEMMA WriteInv ==
    ASSUME CatalogIInv, NEW stamp \in Stamps, WriteVersion(stamp), catalog' = catalog,
           NEW to \in CatalogRequests, OnlyMoves(to), StepFits(to), ~HasVersion(to),
           cron'.step = "set" => cron'.version # 0
    PROVE  /\ InvalidationsStamped' /\ CachesFit'
           /\ cached' \in [version : Versions, entries : [Keys \X Versions -> Answers]]
           /\ bumped' \in [rev : Nat, used : SUBSET Stamps, lapsed : BOOLEAN]
           /\ catalogFaults' \in Nat
<1>0. /\ cached \in [version : Versions, entries : [Keys \X Versions -> Answers]]
      /\ bumped \in [rev : Nat, used : SUBSET Stamps, lapsed : BOOLEAN]
      /\ catalogFaults \in Nat /\ catalog.rev \in Nat /\ stamp \in Versions /\ stamp # 0
  BY CatalogConstants DEF CatalogIInv, CatalogTypeOK
<1>1. InvalidationsStamped'
  BY StampsKept
<1>2. CASE Fault /\ (cached' \in {cached, [cached EXCEPT !.version = stamp]})
           /\ bumped' = [bumped EXCEPT !.lapsed = TRUE]
  <2>1. catalogFaults' \in Nat
    BY <1>0, <1>2 DEF Fault
  <2>2. bumped' \in [rev : Nat, used : SUBSET Stamps, lapsed : BOOLEAN] /\ bumped'.lapsed
    BY <1>0, <1>2
  <2>3. cached' \in [version : Versions, entries : [Keys \X Versions -> Answers]]
    BY <1>0, <1>2
  <2> QED
    BY <1>1, <2>1, <2>2, <2>3 DEF CachesFit
<1>3. CASE /\ cached' = [cached EXCEPT !.version = stamp]
           /\ bumped' = [rev |-> catalog.rev, used |-> bumped.used \cup {stamp},
                         lapsed |-> bumped.lapsed \/ stamp \in bumped.used]
           /\ UNCHANGED catalogFaults
  <2>1. /\ cached' \in [version : Versions, entries : [Keys \X Versions -> Answers]]
        /\ cached'.version = stamp /\ cached'.entries = cached.entries
    BY <1>0, <1>3
  <2>2. /\ bumped' \in [rev : Nat, used : SUBSET Stamps, lapsed : BOOLEAN]
        /\ bumped'.rev = catalog.rev /\ bumped'.used = bumped.used \cup {stamp}
    BY <1>0, <1>3
  <2>3. ASSUME ~bumped'.lapsed PROVE CachesFit'
    <3>1. ~bumped.lapsed /\ stamp \notin bumped.used
      BY <2>3, <1>3
    <3>2. /\ CacheFollowsBump /\ \A j \in DOMAIN catalogCalls : ReadsFit(catalogCalls[j])
          /\ \A j, k \in DOMAIN catalogCalls : SameFloor(catalogCalls[j], catalogCalls[k])
      BY <3>1 DEF CatalogIInv, CachesFit
    <3>3. CacheFollowsBump'
      BY <3>1, <3>2, <2>1, <2>2, <1>0 DEF CacheFollowsBump
    <3>4. ASSUME NEW c \in CatalogRequests, ReadsFit(c) PROVE ReadsFit(c)'
      BY <3>1, <3>4, <2>1, <2>2, <1>0 DEF ReadsFit
    <3>5. \A j \in DOMAIN catalogCalls : catalogCalls[j] \in CatalogRequests
      BY DEF CatalogIInv, CatalogTypeOK
    <3>6. \A j \in DOMAIN catalogCalls' : ReadsFit(catalogCalls[j])'
      <4> SUFFICES ASSUME NEW j \in DOMAIN catalogCalls' PROVE ReadsFit(catalogCalls[j])'
        OBVIOUS
      <4>1. CASE catalogCalls'[j] = to
        BY <4>1 DEF ReadsFit, HasVersion
      <4>2. CASE j \in DOMAIN catalogCalls /\ catalogCalls'[j] = catalogCalls[j]
        BY <4>2, <3>2, <3>4, <3>5 DEF ReadsFit, HasVersion
      <4> QED
        BY <4>1, <4>2 DEF OnlyMoves
    <3>7. \A j, k \in DOMAIN catalogCalls' : SameFloor(catalogCalls'[j], catalogCalls'[k])
      BY <3>2 DEF OnlyMoves, SameFloor
    <3> QED
      BY <3>3, <3>6, <3>7 DEF CachesFit
  <2> QED
    BY <1>1, <1>3, <1>0, <2>1, <2>2, <2>3 DEF CachesFit
<1> QED
  BY <1>2, <1>3 DEF WriteVersion

LEMMA ToggleInv ==
    ASSUME CatalogIInv, NEW i \in DOMAIN catalogCalls, UpdateTopicVisibility(i)
    PROVE  CatalogIInv'
<1> DEFINE c == catalogCalls[i]
           hidden == IF c.value THEN catalog.hidden \ {c.topic} ELSE catalog.hidden \cup {c.topic}
           saved == [catalog EXCEPT !.rev = @ + 1, !.hidden = hidden]
           stamped == [c EXCEPT !.step = "stamp"]
           refused == [c EXCEPT !.step = "refused"]
<1>0. /\ c \in CatalogRequests /\ c.kind = "toggle" /\ CatalogTypeOK
      /\ catalog \in [topics : SUBSET CatalogTopics, hidden : SUBSET CatalogTopics, rev : Nat]
      /\ "stamp" \in CallSteps /\ "refused" \in CallSteps
  BY CallsTyped DEF UpdateTopicVisibility, CatalogIInv, CatalogTypeOK, CallSteps
<1>1. \A to \in {stamped, refused} : to \in CatalogRequests /\ StepFits(to) /\ ~HasVersion(to)
  <2> HIDE DEF c
  <2> QED
    BY <1>0 DEF CatalogRequests, StepFits, HasVersion, Keys
<1>2. ASSUME NEW to \in {stamped, refused}, Advance(i, to),
             catalog' \in [topics : SUBSET CatalogTopics, hidden : SUBSET CatalogTopics, rev : Nat],
             catalog'.rev >= catalog.rev
      PROVE  CatalogIInv'
  <2>1. to \in CatalogRequests /\ StepFits(to) /\ ~HasVersion(to)
    BY <1>1, <1>2
  <2>2. catalogCalls' \in Seq(CatalogRequests) /\ OnlyMoves(to)
    BY <1>0, <1>2, <2>1, CallMoves
  <2>3. InvalidationsStamped' /\ CachesFit'
    BY <1>0, <1>2, <2>1, <2>2, ReadsKept DEF UpdateTopicVisibility, CatalogIInv, InvalidationsStamped
  <2>4. CatalogTypeOK'
    BY <1>0, <1>2, <2>2 DEF UpdateTopicVisibility, CatalogTypeOK
  <2> QED
    BY <2>3, <2>4 DEF CatalogIInv
<1>3. CASE c.topic \in catalog.topics /\ catalog' = saved /\ Advance(i, stamped)
  <2>1. hidden \in SUBSET CatalogTopics
    BY <1>0, <1>3
  <2> HIDE DEF hidden
  <2>2. saved \in [topics : SUBSET CatalogTopics, hidden : SUBSET CatalogTopics, rev : Nat]
        /\ saved.rev >= catalog.rev
    <3>1. catalog.rev \in Nat /\ catalog.rev + 1 \in Nat /\ catalog.rev + 1 >= catalog.rev
      BY <1>0
    <3>2. saved.rev = catalog.rev + 1
      BY <1>0
    <3>3. saved \in [topics : SUBSET CatalogTopics, hidden : SUBSET CatalogTopics, rev : Nat]
      BY <2>1, <1>0, <3>1
    <3> QED
      BY <3>1, <3>2, <3>3
  <2> HIDE DEF saved, stamped
  <2> QED
    BY <2>2, <1>2, <1>3
<1>4. CASE UNCHANGED catalog /\ Advance(i, refused)
  <2>1. catalog.rev \in Nat /\ catalog'.rev >= catalog.rev
    BY <1>0, <1>4
  <2> HIDE DEF refused, stamped
  <2> QED
    BY <2>1, <1>0, <1>2, <1>4
<1> QED
  BY <1>3, <1>4 DEF UpdateTopicVisibility

LEMMA StampInv ==
    ASSUME CatalogIInv, NEW i \in DOMAIN catalogCalls, StampToggle(i)
    PROVE  CatalogIInv'
<1> DEFINE c == catalogCalls[i]
           to == [c EXCEPT !.step = "set", !.version = catalogClock]
<1>0. /\ c \in CatalogRequests /\ c.kind = "toggle" /\ CatalogTypeOK /\ catalog.rev \in Nat
      /\ catalogClock \in Versions /\ catalogClock # 0 /\ "set" \in CallSteps
  BY CallsTyped, CatalogConstants DEF StampToggle, CatalogIInv, CatalogTypeOK, CallSteps, StepFits
<1>1. to \in CatalogRequests /\ StepFits(to) /\ ~HasVersion(to)
  <2> HIDE DEF c
  <2> QED
    BY <1>0 DEF CatalogRequests, StepFits, HasVersion, Keys
<1>2. Advance(i, to)
  BY DEF StampToggle
<1> HIDE DEF to
<1>3. catalogCalls' \in Seq(CatalogRequests) /\ OnlyMoves(to)
  BY <1>0, <1>1, <1>2, CallMoves
<1>4. InvalidationsStamped' /\ CachesFit'
  BY <1>0, <1>1, <1>3, ReadsKept DEF StampToggle, serverVars, CatalogIInv, InvalidationsStamped
<1>5. CatalogTypeOK'
  BY <1>0, <1>3 DEF StampToggle, serverVars, CatalogTypeOK
<1> QED
  BY <1>4, <1>5 DEF CatalogIInv

LEMMA SetInv ==
    ASSUME CatalogIInv, NEW i \in DOMAIN catalogCalls, SetToggle(i)
    PROVE  CatalogIInv'
<1> DEFINE c == catalogCalls[i]
           to == [c EXCEPT !.step = "answered"]
<1>0. /\ c \in CatalogRequests /\ c.kind = "toggle" /\ CatalogTypeOK
      /\ c.version \in Stamps /\ "answered" \in CallSteps /\ WriteVersion(c.version)
  <2>1. c \in CatalogRequests /\ StepFits(c) /\ c.step = "set" /\ WriteVersion(c.version)
    BY CallsTyped DEF SetToggle
  <2> HIDE DEF c
  <2>2. c.version \in Versions /\ c.version # 0 /\ c.kind = "toggle"
    BY <2>1 DEF StepFits, CatalogRequests
  <2> QED
    BY <2>1, <2>2, CatalogAssumption DEF Versions, Stamps, CatalogIInv, CallSteps
<1>1. to \in CatalogRequests /\ StepFits(to) /\ ~HasVersion(to)
  <2> HIDE DEF c
  <2> QED
    BY <1>0 DEF CatalogRequests, StepFits, HasVersion, Keys
<1>2. Advance(i, to)
  BY DEF SetToggle
<1> HIDE DEF to
<1>3. catalogCalls' \in Seq(CatalogRequests) /\ OnlyMoves(to)
  BY <1>0, <1>1, <1>2, CallMoves
<1> DEFINE stamp == c.version
<1>4. stamp \in Stamps /\ WriteVersion(stamp)
  BY <1>0
<1> HIDE DEF c, stamp
<1>5. /\ InvalidationsStamped' /\ CachesFit'
      /\ cached' \in [version : Versions, entries : [Keys \X Versions -> Answers]]
      /\ bumped' \in [rev : Nat, used : SUBSET Stamps, lapsed : BOOLEAN]
      /\ catalogFaults' \in Nat
  BY <1>1, <1>3, <1>4, WriteInv DEF SetToggle, CatalogIInv, InvalidationsStamped
<1>6. CatalogTypeOK'
  BY <1>0, <1>3, <1>5 DEF SetToggle, CatalogTypeOK
<1> QED
  BY <1>5, <1>6 DEF CatalogIInv

-----------------------------------------------------------------------------
\* A step that moves no call.
LEMMA QuietKept ==
    ASSUME CatalogIInv, catalogCalls' = catalogCalls, cached' = cached, bumped' = bumped,
           catalog'.rev \in Nat, catalog'.rev >= catalog.rev,
           cron'.step = "set" => cron'.version # 0
    PROVE  InvalidationsStamped' /\ CachesFit'
<1>1. NoCatalogCall \in CatalogRequests /\ OnlyMoves(NoCatalogCall)
  BY CatalogConstants DEF OnlyMoves
<1>2. StepFits(NoCatalogCall) /\ ~HasVersion(NoCatalogCall)
  BY DEF StepFits, HasVersion, NoCatalogCall, Keys
<1> QED
  BY <1>1, <1>2, ReadsKept

LEMMA ClockInv ==
    ASSUME CatalogIInv, TickCatalogClock
    PROVE  CatalogIInv'
<1>1. catalogClock' \in Stamps /\ catalog.rev \in Nat
  BY CatalogAssumption DEF TickCatalogClock, Stamps, CatalogIInv, CatalogTypeOK
<1>2. InvalidationsStamped' /\ CachesFit'
  BY <1>1, QuietKept DEF TickCatalogClock, serverVars, CatalogIInv, InvalidationsStamped
<1>3. CatalogTypeOK'
  BY <1>1 DEF TickCatalogClock, serverVars, CatalogIInv, CatalogTypeOK
<1> QED
  BY <1>2, <1>3 DEF CatalogIInv

LEMMA ExpireInv ==
    ASSUME CatalogIInv, NEW key \in DOMAIN cached.entries, ExpireEntry(key)
    PROVE  CatalogIInv'
<1>0. /\ cached \in [version : Versions, entries : [Keys \X Versions -> Answers]]
      /\ key \in Keys \X Versions /\ NoEntry \in Answers
  BY CatalogConstants DEF CatalogIInv, CatalogTypeOK
<1>1. /\ cached' \in [version : Versions, entries : [Keys \X Versions -> Answers]]
      /\ cached'.version = cached.version /\ cached'.entries[key] = NoEntry
      /\ \A other \in Keys \X Versions : other # key => cached'.entries[other] = cached.entries[other]
  <2> HIDE DEF NoEntry
  <2> QED
    BY <1>0 DEF ExpireEntry
<1>2. CatalogTypeOK'
  BY <1>1 DEF ExpireEntry, CatalogIInv, CatalogTypeOK
<1>3. InvalidationsStamped'
  BY DEF ExpireEntry, CatalogIInv, InvalidationsStamped
<1>4. CachesFit'
  <2> USE DEF ExpireEntry
  <2>1. CASE bumped.lapsed
    BY <2>1 DEF CachesFit
  <2>2. CASE ~bumped.lapsed
    <3>1. /\ CacheFollowsBump /\ \A j \in DOMAIN catalogCalls : ReadsFit(catalogCalls[j])
          /\ \A j, k \in DOMAIN catalogCalls : SameFloor(catalogCalls[j], catalogCalls[k])
      BY <2>2 DEF CatalogIInv, CachesFit
    <3>2. CacheFollowsBump'
      BY <3>1, <1>1 DEF CacheFollowsBump
    <3>3. \A j \in DOMAIN catalogCalls' : ReadsFit(catalogCalls[j])'
      BY <3>1, <1>1 DEF ReadsFit, HasVersion
    <3>4. \A j, k \in DOMAIN catalogCalls' : SameFloor(catalogCalls'[j], catalogCalls'[k])
      BY <3>1
    <3> QED
      BY <3>2, <3>3, <3>4 DEF CachesFit
  <2> QED
    BY <2>1, <2>2
<1> QED
  BY <1>2, <1>3, <1>4 DEF CatalogIInv

LEMMA EvictInv ==
    ASSUME CatalogIInv, EvictVersion
    PROVE  CatalogIInv'
<1>0. /\ cached \in [version : Versions, entries : [Keys \X Versions -> Answers]] /\ 0 \in Versions
      /\ bumped \in [rev : Nat, used : SUBSET Stamps, lapsed : BOOLEAN] /\ catalogFaults \in Nat
  BY CatalogConstants DEF CatalogIInv, CatalogTypeOK
<1>1. cached' \in [version : Versions, entries : [Keys \X Versions -> Answers]]
  BY <1>0 DEF EvictVersion
<1>2. bumped' \in [rev : Nat, used : SUBSET Stamps, lapsed : BOOLEAN] /\ bumped'.lapsed
  BY <1>0 DEF EvictVersion
<1>3. catalogFaults' \in Nat
  BY <1>0 DEF EvictVersion, Fault
<1>4. CatalogTypeOK'
  BY <1>1, <1>2, <1>3 DEF EvictVersion, CatalogIInv, CatalogTypeOK
<1>5. InvalidationsStamped'
  BY DEF EvictVersion, CatalogIInv, InvalidationsStamped
<1> QED
  BY <1>2, <1>4, <1>5 DEF CatalogIInv, CachesFit

-----------------------------------------------------------------------------
LEMMA CronInv ==
    ASSUME CatalogIInv,
           \/ SyncCatalogs \/ ExpireSyncLock \/ FetchFails \/ RecordSyncSuccess
           \/ InvalidateCaches \/ CrashSync
    PROVE  CatalogIInv'
<1> DEFINE Crons == [step : {"idle", "fetch", "record", "invalidate", "set"}, attempt : Nat,
                     runs : Nat, locked : BOOLEAN, outcome : Outcomes, version : Versions]
<1>0. /\ cron \in Crons /\ catalogFaults \in Nat /\ catalog.rev \in Nat
      /\ catalogClock \in Versions /\ catalogClock # 0 /\ 0 \in Versions
  BY CatalogConstants DEF CatalogIInv, CatalogTypeOK
<1>1. ASSUME cron' \in Crons, cron'.step = "set" => cron'.version # 0, catalogFaults' \in Nat,
             UNCHANGED <<catalog, company, cached, overlap, catalogPage, catalogCalls, catalogClock,
                         bumped>>
      PROVE  CatalogIInv'
  <2>1. InvalidationsStamped' /\ CachesFit'
    BY <1>0, <1>1, QuietKept
  <2>2. CatalogTypeOK'
    BY <1>1 DEF CatalogIInv, CatalogTypeOK
  <2> QED
    BY <2>1, <2>2 DEF CatalogIInv
<1>2. CASE SyncCatalogs
  <2>1. cron' \in Crons /\ cron'.step = "fetch"
    <3> DEFINE runs == cron.runs + 1
    <3>1. runs \in Nat /\ 1 \in Nat
      BY <1>0
    <3>2. cron' = [cron EXCEPT !.step = "fetch", !.attempt = 1, !.locked = TRUE, !.runs = runs]
      BY <1>0, <1>2 DEF SyncCatalogs, Cron
    <3> HIDE DEF runs
    <3> QED
      BY <1>0, <3>1, <3>2
  <2> HIDE DEF Crons
  <2> QED
    BY <1>0, <1>1, <1>2, <2>1 DEF SyncCatalogs, Cron
<1>3. CASE ExpireSyncLock
  <2>1. cron' \in Crons /\ cron'.step = "idle"
    BY <1>0, <1>3 DEF ExpireSyncLock, Cron
  <2> HIDE DEF Crons
  <2> QED
    BY <1>0, <1>1, <1>3, <2>1 DEF ExpireSyncLock, Cron
<1>4. CASE FetchFails
  <2>1. cron' \in Crons /\ cron'.step \in {"fetch", "idle"}
    <3> DEFINE tried == cron.attempt + 1
    <3>1. tried \in Nat /\ 0 \in Nat /\ cron.step = "fetch" /\ "FAILED" \in Outcomes
      BY <1>0, <1>4 DEF FetchFails, Outcomes
    <3>2. \/ cron' = [cron EXCEPT !.attempt = tried]
          \/ cron' = [cron EXCEPT !.step = "idle", !.attempt = 0, !.outcome = "FAILED"]
      BY <1>0, <1>4 DEF FetchFails, Cron
    <3> HIDE DEF tried
    <3> QED
      BY <1>0, <3>1, <3>2
  <2> HIDE DEF Crons
  <2> QED
    BY <1>0, <1>1, <1>4, <2>1 DEF FetchFails, Cron
<1>5. CASE RecordSyncSuccess
  <2>1. cron' \in Crons /\ cron'.step = "invalidate"
    BY <1>0, <1>5 DEF RecordSyncSuccess, Cron, Outcomes
  <2>2. catalogFaults' \in Nat
    BY <1>0, <1>5 DEF RecordSyncSuccess, Fault
  <2> HIDE DEF Crons
  <2> QED
    BY <1>0, <1>1, <1>5, <2>1, <2>2 DEF RecordSyncSuccess, Cron
<1>6. CASE InvalidateCaches
  <2>1. cron' \in Crons /\ (cron'.step = "set" => cron'.version # 0)
    BY <1>0, <1>6 DEF InvalidateCaches, Cron
  <2> HIDE DEF Crons
  <2> QED
    BY <1>0, <1>1, <1>6, <2>1 DEF InvalidateCaches, Cron
<1>7. CASE CrashSync
  <2>1. cron' \in Crons /\ cron'.step = "idle"
    BY <1>0, <1>7 DEF CrashSync, Cron
  <2>2. catalogFaults' \in Nat
    BY <1>0, <1>7 DEF CrashSync, Fault
  <2> HIDE DEF Crons
  <2> QED
    BY <1>0, <1>1, <1>7, <2>1, <2>2 DEF CrashSync, Cron
<1> QED
  BY <1>2, <1>3, <1>4, <1>5, <1>6, <1>7

LEMMA UpsertInv ==
    ASSUME CatalogIInv, NEW payload \in SUBSET CatalogTopics, FetchAndUpsert(payload)
    PROVE  CatalogIInv'
<1> DEFINE saved == [catalog EXCEPT !.topics = @ \cup payload, !.rev = @ + 1]
           Rows == [topics : SUBSET CatalogTopics, hidden : SUBSET CatalogTopics, rev : Nat]
<1>0. catalog \in Rows /\ catalog.rev \in Nat
  BY DEF CatalogIInv, CatalogTypeOK
<1>1. saved \in Rows /\ saved.rev = catalog.rev + 1
  <2> DEFINE topics == catalog.topics \cup payload
             rev == catalog.rev + 1
  <2>1. topics \in SUBSET CatalogTopics /\ rev \in Nat
    BY <1>0
  <2>2. saved = [catalog EXCEPT !.topics = topics, !.rev = rev]
    BY <1>0
  <2> HIDE DEF topics, rev, saved
  <2>3. saved \in Rows /\ saved.rev = rev
    BY <1>0, <2>1, <2>2
  <2> QED
    BY <2>3 DEF rev
<1>2. catalog' \in Rows /\ catalog'.rev \in Nat /\ catalog'.rev >= catalog.rev
  <2> HIDE DEF saved
  <2>1. catalog' = saved \/ catalog' = catalog
    BY DEF FetchAndUpsert, saved
  <2> QED
    BY <1>0, <1>1, <2>1
<1>3. cron' \in [step : {"idle", "fetch", "record", "invalidate", "set"}, attempt : Nat,
                 runs : Nat, locked : BOOLEAN, outcome : Outcomes, version : Versions]
      /\ cron'.step = "record"
  BY DEF FetchAndUpsert, Cron, CatalogIInv, CatalogTypeOK
<1>4. InvalidationsStamped' /\ CachesFit'
  BY <1>2, <1>3, QuietKept DEF FetchAndUpsert, Cron
<1>5. CatalogTypeOK'
  BY <1>2, <1>3 DEF FetchAndUpsert, Cron, CatalogIInv, CatalogTypeOK
<1> QED
  BY <1>4, <1>5 DEF CatalogIInv

LEMMA SetSyncInv ==
    ASSUME CatalogIInv, SetSyncVersion
    PROVE  CatalogIInv'
<1>0. /\ cron \in [step : {"idle", "fetch", "record", "invalidate", "set"}, attempt : Nat,
                   runs : Nat, locked : BOOLEAN, outcome : Outcomes, version : Versions]
      /\ cron.version # 0 /\ 0 \in Versions
  BY CatalogConstants DEF SetSyncVersion, CatalogIInv, CatalogTypeOK, InvalidationsStamped
<1>1. cron.version \in Stamps
  BY <1>0, CatalogAssumption DEF Versions, Stamps
<1>2. cron' \in [step : {"idle", "fetch", "record", "invalidate", "set"}, attempt : Nat,
                 runs : Nat, locked : BOOLEAN, outcome : Outcomes, version : Versions]
      /\ cron'.step = "idle"
  BY <1>0 DEF SetSyncVersion, Cron
<1>3. NoCatalogCall \in CatalogRequests /\ OnlyMoves(NoCatalogCall)
  BY CatalogConstants DEF OnlyMoves, SetSyncVersion, Cron
<1>4. StepFits(NoCatalogCall) /\ ~HasVersion(NoCatalogCall)
  BY DEF StepFits, HasVersion, NoCatalogCall, Keys
<1> DEFINE stamp == cron.version
<1>5. stamp \in Stamps /\ WriteVersion(stamp) /\ catalog' = catalog
  BY <1>1 DEF SetSyncVersion
<1> HIDE DEF stamp
<1>6. /\ InvalidationsStamped' /\ CachesFit'
      /\ cached' \in [version : Versions, entries : [Keys \X Versions -> Answers]]
      /\ bumped' \in [rev : Nat, used : SUBSET Stamps, lapsed : BOOLEAN]
      /\ catalogFaults' \in Nat
  BY <1>2, <1>3, <1>4, <1>5, WriteInv
<1>7. CatalogTypeOK'
  BY <1>2, <1>6 DEF SetSyncVersion, Cron, CatalogIInv, CatalogTypeOK
<1> QED
  BY <1>6, <1>7 DEF CatalogIInv

LEMMA CompanyInv ==
    ASSUME CatalogIInv, SetCompany \/ CheckOverlap
    PROVE  CatalogIInv'
<1>0. /\ cron \in [step : {"idle", "fetch", "record", "invalidate", "set"}, attempt : Nat,
                   runs : Nat, locked : BOOLEAN, outcome : Outcomes, version : Versions]
      /\ company \in BOOLEAN /\ overlap \in {"none", "PASS", "FAIL"} /\ catalogFaults \in Nat
      /\ catalog.rev \in Nat /\ (cron.step = "set" => cron.version # 0)
  BY DEF CatalogIInv, CatalogTypeOK, InvalidationsStamped
<1>1. cron' \in [step : {"idle", "fetch", "record", "invalidate", "set"}, attempt : Nat,
                 runs : Nat, locked : BOOLEAN, outcome : Outcomes, version : Versions]
      /\ cron'.step = cron.step /\ cron'.version = cron.version
  <2>1. cron' = cron \/ cron' = [cron EXCEPT !.runs = @ + 1]
    BY DEF SetCompany, CheckOverlap
  <2> QED
    BY <1>0, <2>1
<1>2. company' \in BOOLEAN /\ overlap' \in {"none", "PASS", "FAIL"}
  BY <1>0, Zenon DEF SetCompany, CheckOverlap
<1>3. catalogFaults' \in Nat
  BY <1>0 DEF SetCompany, CheckOverlap, Fault
<1>4. InvalidationsStamped' /\ CachesFit'
  BY <1>0, <1>1, QuietKept DEF SetCompany, CheckOverlap
<1>5. CatalogTypeOK'
  BY <1>1, <1>2, <1>3 DEF SetCompany, CheckOverlap, CatalogIInv, CatalogTypeOK
<1> QED
  BY <1>4, <1>5 DEF CatalogIInv

-----------------------------------------------------------------------------
\* What a page does to the calls: a request is sent, or an answer was handled.
LEMMA PageStep ==
    ASSUME CatalogIInv, NEW to \in CatalogRequests, OnlyMoves(to), StepFits(to), ~HasVersion(to),
           catalogCalls' \in Seq(CatalogRequests), UNCHANGED <<serverVars, catalogClock, bumped>>,
           catalogFaults' \in Nat,
           catalogPage' \in CatalogPages
    PROVE  CatalogIInv'
<1>1. InvalidationsStamped' /\ CachesFit'
  <2>1. catalog.rev \in Nat
    BY DEF CatalogIInv, CatalogTypeOK
  <2> QED
    BY <2>1, ReadsKept DEF serverVars, CatalogIInv, InvalidationsStamped
<1>2. CatalogTypeOK'
  BY DEF serverVars, CatalogIInv, CatalogTypeOK
<1> QED
  BY <1>1, <1>2 DEF CatalogIInv

LEMMA AnswerHandled ==
    ASSUME CatalogIInv, NEW i \in DOMAIN catalogCalls, Advance(i, NoCatalogCall),
           UNCHANGED <<serverVars, catalogClock, bumped>>,
           catalogFaults' \in Nat,
           catalogPage' \in CatalogPages
    PROVE  CatalogIInv'
<1>1. CatalogTypeOK /\ NoCatalogCall \in CatalogRequests
  BY CatalogConstants DEF CatalogIInv
<1>2. StepFits(NoCatalogCall) /\ ~HasVersion(NoCatalogCall)
  BY DEF StepFits, HasVersion, NoCatalogCall, Keys
<1>3. catalogCalls' \in Seq(CatalogRequests) /\ OnlyMoves(NoCatalogCall)
  BY <1>1, CallMoves
<1> QED
  BY <1>1, <1>2, <1>3, PageStep

LEMMA RequestSent ==
    ASSUME CatalogIInv, NEW kind \in Keys \cup {"toggle"}, NEW topic \in CatalogTopics \cup {"none"},
           NEW value \in BOOLEAN, NEW of \in Nat, SendCall(kind, topic, value, of),
           UNCHANGED <<serverVars, catalogClock, catalogFaults, bumped>>,
           catalogPage' \in CatalogPages
    PROVE  CatalogIInv'
<1>1. CatalogTypeOK /\ catalogFaults' \in Nat
  BY DEF CatalogIInv, CatalogTypeOK
<1>2. catalogCalls' \in Seq(CatalogRequests)
  BY <1>1, CallSends
<1>3. PICK to \in CatalogRequests : OnlyMoves(to) /\ to.step = "sent"
  BY <1>1, CallSends
<1>4. StepFits(to) /\ ~HasVersion(to)
  BY <1>3 DEF StepFits, HasVersion
<1> QED
  BY <1>1, <1>2, <1>3, <1>4, PageStep

LEMMA CountedTyped ==
    ASSUME NEW count \in Nat, NEW from, NEW to
    PROVE  Counted(count, from, to) \in Nat
<1> QED
  BY DEF Counted

LEMMA SwitchTyped ==
    ASSUME NEW switches \in Switches, NEW t, NEW value \in BOOLEAN
    PROVE  [switches EXCEPT ![t] = value] \in Switches
<1>1. PICK S \in SUBSET CatalogTopics : switches \in [S -> BOOLEAN]
  BY DEF Switches
<1>2. [switches EXCEPT ![t] = value] \in [S -> BOOLEAN]
  BY <1>1
<1> QED
  BY <1>2 DEF Switches

LEMMA SwitchesOpen ==
    ASSUME NEW S \in SUBSET CatalogTopics, NEW hidden
    PROVE  [t \in S |-> t \notin hidden] \in Switches
<1>1. [t \in S |-> t \notin hidden] \in [S -> BOOLEAN]
  OBVIOUS
<1> QED
  BY <1>1 DEF Switches

LEMMA NoSwitches == [t \in {} |-> TRUE] \in Switches
<1>1. [t \in {} |-> TRUE] \in [{} -> BOOLEAN] /\ {} \in SUBSET CatalogTopics
  OBVIOUS
<1> QED
  BY <1>1 DEF Switches

LEMMA PageTyped ==
    ASSUME CatalogIInv
    PROVE  /\ catalogPage \in CatalogPages /\ catalogPage.of \in Nat /\ catalogPage.topics \in Switches
           /\ catalogPage.active \in Nat /\ catalogPage.expanded \in BOOLEAN
           /\ catalogPage.loading \in BOOLEAN
           /\ catalogPage.pending \in SUBSET CatalogTopics /\ catalogFaults \in Nat
<1> QED
  BY DEF CatalogIInv, CatalogTypeOK, CatalogPages

LEMMA OpenCourseInv ==
    ASSUME CatalogIInv, ToggleCourse
    PROVE  CatalogIInv'
<1> DEFINE fetch == ~catalogPage.expanded /\ catalogPage.topics = [t \in {} |-> TRUE]
                    /\ catalogPage.total > 0
           expanded == ~catalogPage.expanded
           loading == catalogPage.loading \/ fetch
<1>0. catalogPage \in CatalogPages /\ catalogPage.of \in Nat /\ catalogFaults \in Nat
  BY PageTyped
<1>1. expanded \in BOOLEAN /\ loading \in BOOLEAN
  BY PageTyped, Zenon
<1>2. catalogPage' = [catalogPage EXCEPT !.expanded = expanded, !.loading = loading]
  BY <1>0 DEF ToggleCourse, CatalogPages
<1>3. catalogPage' \in CatalogPages
  <2> HIDE DEF expanded, loading
  <2> QED
    BY <1>0, <1>1, <1>2 DEF CatalogPages
<1>4. CASE SendCall("topics", "none", FALSE, catalogPage.of)
  <2> DEFINE of == catalogPage.of
  <2>1. of \in Nat /\ SendCall("topics", "none", FALSE, of)
    BY <1>0, <1>4
  <2> HIDE DEF of
  <2>2. "topics" \in Keys \cup {"toggle"} /\ "none" \in CatalogTopics \cup {"none"} /\ FALSE \in BOOLEAN
    BY DEF Keys
  <2> QED
    BY <1>3, <2>1, <2>2, RequestSent DEF ToggleCourse
<1>5. CASE UNCHANGED catalogCalls
  <2>1. NoCatalogCall \in CatalogRequests /\ OnlyMoves(NoCatalogCall)
    BY <1>5, CatalogConstants DEF OnlyMoves
  <2>2. StepFits(NoCatalogCall) /\ ~HasVersion(NoCatalogCall)
    BY DEF StepFits, HasVersion, NoCatalogCall, Keys
  <2>3. catalogCalls' \in Seq(CatalogRequests) /\ catalogFaults' \in Nat
    BY <1>5 DEF ToggleCourse, CatalogIInv, CatalogTypeOK
  <2> QED
    BY <1>3, <2>1, <2>2, <2>3, PageStep DEF ToggleCourse
<1> QED
  BY <1>4, <1>5 DEF ToggleCourse

LEMMA SwitchInv ==
    ASSUME CatalogIInv, NEW t \in CatalogTopics, OnToggleActive(t)
    PROVE  CatalogIInv'
<1> DEFINE now == catalogPage.topics[t]
           value == ~catalogPage.topics[t]
           topics == [catalogPage.topics EXCEPT ![t] = value]
           active == Counted(catalogPage.active, now, value)
           pending == catalogPage.pending \cup {t}
           of == catalogPage.of
<1>1. value \in BOOLEAN
  BY Zenon
<1>2. /\ topics \in Switches /\ active \in Nat /\ pending \in SUBSET CatalogTopics /\ of \in Nat
      /\ catalogPage \in CatalogPages
  <2> HIDE DEF value
  <2> QED
    BY <1>1, PageTyped, SwitchTyped, CountedTyped
<1>3. catalogPage' = [catalogPage EXCEPT !.topics = topics, !.pending = pending, !.active = active]
  BY <1>2 DEF OnToggleActive, CatalogPages
<1>4. SendCall("toggle", t, value, of)
  BY DEF OnToggleActive
<1> HIDE DEF value, topics, active, pending, of
<1>5. catalogPage' \in CatalogPages
  BY <1>2, <1>3 DEF CatalogPages
<1>6. "toggle" \in Keys \cup {"toggle"} /\ t \in CatalogTopics \cup {"none"}
  OBVIOUS
<1> QED
  BY <1>1, <1>2, <1>4, <1>5, <1>6, RequestSent DEF OnToggleActive

LEMMA SendsInv ==
    ASSUME CatalogIInv,
           \/ \E kind \in Keys : FetchCourses(kind)
           \/ \E t \in CatalogTopics : OtherToggle(t)
    PROVE  CatalogIInv'
<1> DEFINE of == catalogPage.of
<1>0. catalogPage \in CatalogPages /\ of \in Nat /\ 0 \in Nat
  BY PageTyped
<1>1. ASSUME NEW kind \in Keys, FetchCourses(kind) PROVE CatalogIInv'
  <2>1. SendCall(kind, "none", FALSE, of)
    BY <1>1 DEF FetchCourses
  <2>2. kind \in Keys \cup {"toggle"} /\ "none" \in CatalogTopics \cup {"none"} /\ FALSE \in BOOLEAN
    OBVIOUS
  <2> HIDE DEF of
  <2>3. UNCHANGED <<serverVars, catalogPage, catalogClock, catalogFaults, bumped>>
    BY <1>1 DEF FetchCourses
  <2> QED
    BY <1>0, <2>1, <2>2, <2>3, RequestSent
<1>2. ASSUME NEW t \in CatalogTopics, OtherToggle(t) PROVE CatalogIInv'
  <2> DEFINE value == t \in catalog.hidden
  <2>1. SendCall("toggle", t, value, 0)
    BY <1>2 DEF OtherToggle
  <2>2. value \in BOOLEAN
    OBVIOUS
  <2>3. "toggle" \in Keys \cup {"toggle"} /\ t \in CatalogTopics \cup {"none"}
    OBVIOUS
  <2> HIDE DEF of, value
  <2>4. UNCHANGED <<serverVars, catalogPage, catalogClock, catalogFaults, bumped>>
    BY <1>2 DEF OtherToggle
  <2> QED
    BY <1>0, <2>1, <2>2, <2>3, <2>4, RequestSent
<1> QED
  BY <1>1, <1>2

LEMMA CoursesHeardInv ==
    ASSUME CatalogIInv, NEW i \in DOMAIN catalogCalls, HearCourses(i)
    PROVE  CatalogIInv'
<1> DEFINE c == catalogCalls[i]
           total == Cardinality(c.answer.topics)
           active == Cardinality(c.answer.topics \ c.answer.hidden)
           heard == [catalogPage EXCEPT !.of = i, !.topics = [t \in {} |-> TRUE],
                                        !.total = total, !.active = active]
<1>0. catalogPage \in CatalogPages /\ catalogFaults \in Nat /\ i \in Nat
  BY PageTyped DEF CatalogIInv, CatalogTypeOK
<1>1. c.answer \in Answers
  BY CallsTyped DEF CatalogRequests
<1>2. IsFiniteSet(c.answer.topics) /\ IsFiniteSet(c.answer.topics \ c.answer.hidden)
  BY <1>1, CatalogAssumption, FS_Subset DEF Answers
<1>3. total \in Nat /\ active \in Nat
  BY <1>2, FS_CardinalityType
<1>4. heard \in CatalogPages
  <2> HIDE DEF total, active
  <2> QED
    BY <1>0, <1>3, NoSwitches DEF CatalogPages
<1>5. catalogFaults' \in Nat
  BY <1>0 DEF HearCourses, Fault
<1>6. catalogPage' = heard \/ catalogPage' = catalogPage
  BY DEF HearCourses
<1> HIDE DEF heard
<1> QED
  BY <1>0, <1>4, <1>5, <1>6, AnswerHandled DEF HearCourses

LEMMA TopicsHeardInv ==
    ASSUME CatalogIInv, NEW i \in DOMAIN catalogCalls, HearTopics(i)
    PROVE  CatalogIInv'
<1> DEFINE c == catalogCalls[i]
           kept == c.step = "answered" /\ c.of = catalogPage.of
           topics == IF kept THEN [t \in c.answer.topics |-> t \notin c.answer.hidden]
                             ELSE catalogPage.topics
<1>0. catalogPage \in CatalogPages /\ catalogFaults \in Nat /\ catalogPage.topics \in Switches
  BY PageTyped
<1>1. c.answer.topics \in SUBSET CatalogTopics
  BY CallsTyped DEF CatalogRequests, Answers
<1>2. topics \in Switches
  <2> HIDE DEF c, kept
  <2> QED
    BY <1>0, <1>1, SwitchesOpen
<1>3. catalogPage' = [catalogPage EXCEPT !.loading = FALSE, !.topics = topics]
  BY <1>0 DEF HearTopics, CatalogPages
<1>4. catalogPage' \in CatalogPages
  <2> HIDE DEF topics
  <2> QED
    BY <1>0, <1>2, <1>3 DEF CatalogPages
<1>5. catalogFaults' \in Nat
  BY <1>0 DEF HearTopics, Fault
<1> QED
  BY <1>4, <1>5, AnswerHandled DEF HearTopics

LEMMA ToggleHeardInv ==
    ASSUME CatalogIInv, NEW i \in DOMAIN catalogCalls, HearToggle(i)
    PROVE  CatalogIInv'
<1> DEFINE c == catalogCalls[i]
           shown == c.of = catalogPage.of /\ c.topic \in DOMAIN catalogPage.topics
           back == ~c.value
           topics == IF shown THEN [catalogPage.topics EXCEPT ![c.topic] = back] ELSE catalogPage.topics
           active == IF c.of = catalogPage.of THEN Counted(catalogPage.active, c.value, back)
                                              ELSE catalogPage.active
           takenBack == [catalogPage EXCEPT !.topics = topics, !.active = active]
           pending == catalogPage.pending \ {c.topic}
<1>0. /\ catalogPage \in CatalogPages /\ catalogFaults \in Nat /\ catalogPage.topics \in Switches
      /\ catalogPage.active \in Nat /\ catalogPage.pending \in SUBSET CatalogTopics
  BY PageTyped
<1>1. back \in BOOLEAN
  BY Zenon
<1>2. topics \in Switches /\ active \in Nat /\ pending \in SUBSET CatalogTopics
  <2> HIDE DEF back, c, shown
  <2> QED
    BY <1>0, <1>1, SwitchTyped, CountedTyped
<1>3. takenBack \in CatalogPages /\ takenBack.pending = catalogPage.pending
  <2> HIDE DEF topics, active
  <2> QED
    BY <1>0, <1>2 DEF CatalogPages
<1>4. \/ catalogPage' = catalogPage
      \/ catalogPage' = [catalogPage EXCEPT !.pending = pending]
      \/ catalogPage' = [takenBack EXCEPT !.pending = pending]
  <2>1. takenBack = [catalogPage EXCEPT
             !.topics = IF shown THEN [@ EXCEPT ![c.topic] = ~c.value] ELSE @,
             !.active = IF c.of = catalogPage.of THEN Counted(@, c.value, ~c.value) ELSE @]
    BY <1>0, Zenon DEF CatalogPages
  <2> QED
    BY <1>3, <2>1 DEF HearToggle
<1> HIDE DEF takenBack, pending
<1>5. catalogPage' \in CatalogPages
  BY <1>0, <1>2, <1>3, <1>4 DEF CatalogPages
<1>6. catalogFaults' \in Nat
  BY <1>0 DEF HearToggle, Fault
<1> QED
  BY <1>5, <1>6, AnswerHandled DEF HearToggle

-----------------------------------------------------------------------------
LEMMA CatalogInitially == CatalogInit => CatalogIInv
<1> SUFFICES ASSUME CatalogInit PROVE CatalogIInv
  OBVIOUS
<1> USE DEF CatalogInit
<1>1. /\ catalog \in [topics : SUBSET CatalogTopics, hidden : SUBSET CatalogTopics, rev : Nat]
      /\ catalog.rev = 1
  BY CatalogAssumption
<1>2. /\ cached \in [version : Versions, entries : [Keys \X Versions -> Answers]]
      /\ cached.version = 0
      /\ \A key \in Keys \X Versions : cached.entries[key] = NoEntry
  <2> HIDE DEF NoEntry
  <2> QED
    BY CatalogConstants DEF Versions
<1>3. cron \in [step : {"idle", "fetch", "record", "invalidate", "set"}, attempt : Nat, runs : Nat,
                locked : BOOLEAN, outcome : Outcomes, version : Versions]
      /\ cron.step = "idle"
  BY CatalogConstants DEF Outcomes
<1>4. catalogPage \in CatalogPages
  BY NoSwitches DEF CatalogPages
<1>5. catalogCalls = << >> /\ catalogCalls \in Seq(CatalogRequests)
  OBVIOUS
<1>6. bumped \in [rev : Nat, used : SUBSET Stamps, lapsed : BOOLEAN] /\ bumped.rev = 0
  OBVIOUS
<1>7. CatalogTypeOK
  BY <1>1, <1>2, <1>3, <1>4, <1>5, <1>6, CatalogConstants DEF CatalogTypeOK
<1>8. InvalidationsStamped
  BY <1>3, <1>5 DEF InvalidationsStamped
<1>9. CachesFit
  BY <1>1, <1>2, <1>5, <1>6 DEF CachesFit, CacheFollowsBump
<1> QED
  BY <1>7, <1>8, <1>9 DEF CatalogIInv

LEMMA CatalogStep == CatalogIInv /\ [CatalogNext]_catalogVars => CatalogIInv'
<1>1. ASSUME CatalogIInv, CatalogNext PROVE CatalogIInv'
  <2>1. ASSUME NEW i \in DOMAIN catalogCalls,
               \/ GetCacheVersion(i) \/ ReadThrough(i) \/ FillCache(i)
               \/ UpdateTopicVisibility(i) \/ StampToggle(i) \/ SetToggle(i)
               \/ HearCourses(i) \/ HearTopics(i) \/ HearToggle(i)
        PROVE  CatalogIInv'
    BY <1>1, <2>1, GetInv, ReadInv, FillInv, ToggleInv, StampInv, SetInv, CoursesHeardInv,
       TopicsHeardInv, ToggleHeardInv
  <2>2. ASSUME NEW payload \in {{}, CatalogTopics}, FetchAndUpsert(payload) PROVE CatalogIInv'
    BY <1>1, <2>2, UpsertInv
  <2>3. CASE TickCatalogClock \/ EvictVersion \/ \E key \in DOMAIN cached.entries : ExpireEntry(key)
    BY <1>1, <2>3, ClockInv, EvictInv, ExpireInv
  <2>4. CASE \/ SyncCatalogs \/ ExpireSyncLock \/ FetchFails \/ RecordSyncSuccess
             \/ InvalidateCaches \/ CrashSync
    BY <1>1, <2>4, CronInv
  <2>5. CASE SetSyncVersion \/ SetCompany \/ CheckOverlap
    BY <1>1, <2>5, SetSyncInv, CompanyInv
  <2>6. CASE (\E kind \in Keys : FetchCourses(kind)) \/ ToggleCourse
             \/ (\E t \in CatalogTopics : OnToggleActive(t) \/ OtherToggle(t))
    BY <1>1, <2>6, SendsInv, OpenCourseInv, SwitchInv
  <2> QED
    BY <1>1, <2>1, <2>2, <2>3, <2>4, <2>5, <2>6 DEF CatalogNext
<1>2. ASSUME CatalogIInv, UNCHANGED catalogVars PROVE CatalogIInv'
  BY <1>2, QuietKept DEF catalogVars, serverVars, CatalogIInv, CatalogTypeOK, InvalidationsStamped
<1> QED
  BY <1>1, <1>2

\* The inductive invariant: the types; what an invalidation under way has read from
\* the clock; and what is cached under a version, or about to be, against the write
\* that installed the version.
THEOREM CatalogInvariant == CatalogSpec => []CatalogIInv
<1> QED
  BY CatalogInitially, CatalogStep, PTL DEF CatalogSpec

\* A cached answer knows every write that had been made when the version was last
\* replaced, whatever is cached, filled and written at the time, for any topics and
\* any number of requests (catalog.use-case.ts: bumpCacheVersion).
THEOREM AnswersKnowTheBump == CatalogSpec => []ServedSinceBump
<1>1. CatalogIInv => ServedSinceBump
  BY DEF CatalogIInv, CachesFit, ReadsFit, HasVersion, ServedSinceBump
<1> QED
  BY <1>1, CatalogInvariant, PTL

-----------------------------------------------------------------------------
(* The questions of a material, and the ledger of those used in a cycle.   *)

AttemptShape(t) ==
    /\ t = [stage |-> t.stage, week |-> t.week, asked |-> t.asked, excluded |-> t.excluded,
            seen |-> t.seen, paper |-> t.paper, slots |-> t.slots]
    /\ t.excluded = [c \in TemplateCourses |-> t.excluded[c]]
    /\ t.paper = [c \in TemplateCourses |-> t.paper[c]]

\* The worker has printed the questions of the generation, once or more often.
Printed(t) == t.stage \in {"printed", "reported"}

\* A generation that stands as reported, and has a row, has all of them.
RowsTogether ==
    \A o \in Attempts : (attempt[o].stage = "reported" /\ \E u \in usage : u[1] = o)
        => \A c \in TemplateCourses : \A q \in attempt[o].paper[c] : <<o, c, q>> \in usage

\* No question of a generation is one it has to leave out, and before it has read
\* what to leave out it has none.
PaperAvoids(t) ==
    /\ \A c \in TemplateCourses : t.paper[c] \cap t.excluded[c] = {}
    /\ t.stage = "new" => \A c \in TemplateCourses : t.paper[c] = {}

\* What a generation leaves out covers those it has seen, unless they were redrawn since.
SeenExcluded(r, t) ==
    \A o \in t.seen :
        /\ o \in Attempts \ {r} /\ Printed(attempt[o])
        /\ <<r, o>> \notin redrawn =>
              \A c \in TemplateCourses : attempt[o].paper[c] \subseteq t.excluded[c]

EveryAttempt ==
    \A r \in Attempts :
        AttemptShape(attempt[r]) /\ PaperAvoids(attempt[r]) /\ SeenExcluded(r, attempt[r])

QuestionIInv ==
    /\ attempt = [r \in Attempts |-> attempt[r]]
    /\ EveryAttempt
    /\ RowsTogether

-----------------------------------------------------------------------------
\* What is chosen for a course, from the bank or by the worker, has no excluded question.

LEMMA SelectionsFromPool ==
    ASSUME NEW pool, NEW levels, NEW p \in Selections(pool, levels)
    PROVE  Range(p) \ {"none"} \subseteq pool
<1>1. p \in [DOMAIN levels -> pool \cup {"none"}]
  BY DEF Selections
<1> QED
  BY <1>1 DEF Range

LEMMA UnionAvoids ==
    ASSUME NEW family, NEW excluded, NEW f \in OneOfEach(family),
           \A i \in DOMAIN family : \A s \in family[i] : s \cap excluded = {}
    PROVE  (UNION Range(f)) \cap excluded = {}
<1>1. DOMAIN f = DOMAIN family /\ \A i \in DOMAIN family : f[i] \in family[i]
  BY DEF OneOfEach
<1> QED
  BY <1>1 DEF Range

LEMMA PlannedAvoid ==
    ASSUME NEW c, NEW order, NEW excluded, NEW qs \in PlannedSets(c, order, excluded)
    PROVE  qs \cap excluded = {}
<1> DEFINE picks == [i \in DOMAIN Spread[c] |->
                        {Range(p) \ {"none"} :
                           p \in Selections(Bank[Spread[c][i]] \ excluded, ShareOf(c, order, i))}]
<1>1. PICK f \in OneOfEach(picks) : qs = UNION Range(f)
  BY DEF PlannedSets
<1>2. \A i \in DOMAIN picks : \A s \in picks[i] : s \cap excluded = {}
  <2> TAKE i \in DOMAIN picks
  <2> TAKE s \in picks[i]
  <2>1. PICK p \in Selections(Bank[Spread[c][i]] \ excluded, ShareOf(c, order, i)) : s = Range(p) \ {"none"}
    OBVIOUS
  <2>2. s \subseteq Bank[Spread[c][i]] \ excluded
    BY <2>1, SelectionsFromPool
  <2> QED
    BY <2>2
<1> HIDE DEF picks
<1> QED
  BY <1>1, <1>2, UnionAvoids

LEMMA FetchedAvoid ==
    ASSUME NEW c, NEW excluded, NEW n, NEW qs \in FetchedSets(c, excluded, n)
    PROVE  qs \cap excluded = {}
<1> DEFINE draws == [i \in DOMAIN Spread[c] |->
                        FetchQuestions(Spread[c][i], Quantity(n, Len(Spread[c]), i), excluded)]
<1>1. PICK f \in OneOfEach(draws) : qs = UNION Range(f)
  BY DEF FetchedSets
<1>2. \A i \in DOMAIN draws : \A s \in draws[i] : s \cap excluded = {}
  BY DEF FetchQuestions
<1> HIDE DEF draws
<1> QED
  BY <1>1, <1>2, UnionAvoids

LEMMA PapersAvoid ==
    ASSUME NEW r \in Attempts, NEW c \in TemplateCourses, PaperAvoids(attempt[r]),
           NEW qs \in Papers(r, c)
    PROVE  qs \cap attempt[r].excluded[c] = {}
<1>1. CASE qs \in FetchedSets(c, attempt[r].excluded[c], attempt[r].asked[c].qty)
  BY <1>1, FetchedAvoid
<1>2. CASE qs = attempt[r].paper[c]
  BY <1>2 DEF PaperAvoids
<1> QED
  BY <1>1, <1>2 DEF Papers

-----------------------------------------------------------------------------
\* A step on one generation keeps what holds of all of them: once printed it stays so,
\* and those that have seen it either still find its questions or it counts as redrawn.
LEMMA AttemptStep ==
    ASSUME QuestionIInv, NEW r \in Attempts, NEW t,
           attempt' = [attempt EXCEPT ![r] = t], redrawn \subseteq redrawn',
           AttemptShape(t), PaperAvoids(t), SeenExcluded(r, t),
           Printed(attempt[r]) => Printed(t),
           \A x \in Attempts : (Printed(attempt[r]) /\ r \in attempt[x].seen)
              => t.paper = attempt[r].paper \/ <<x, r>> \in redrawn'
    PROVE  /\ attempt' = [o \in Attempts |-> attempt'[o]]
           /\ attempt'[r] = t /\ \A o \in Attempts \ {r} : attempt'[o] = attempt[o]
           /\ EveryAttempt'
<1>1. attempt' = [o \in Attempts |-> IF o = r THEN t ELSE attempt[o]]
  BY DEF QuestionIInv
<1>2. attempt'[r] = t /\ \A o \in Attempts \ {r} : attempt'[o] = attempt[o]
  BY <1>1
<1>3. ASSUME NEW o \in Attempts
      PROVE  AttemptShape(attempt'[o]) /\ PaperAvoids(attempt'[o]) /\ SeenExcluded(o, attempt'[o])
  <2>1. CASE o = r
    BY <1>2, <2>1
  <2>2. CASE o # r
    BY <1>2, <2>2 DEF QuestionIInv, EveryAttempt
  <2> QED
    BY <2>1, <2>2
<1>4. ASSUME NEW o \in Attempts, NEW p \in attempt'[o].seen
      PROVE  /\ p \in Attempts \ {o} /\ Printed(attempt'[p])
             /\ <<o, p>> \notin redrawn' =>
                   \A c \in TemplateCourses : attempt'[p].paper[c] \subseteq attempt'[o].excluded[c]
  <2>1. /\ p \in Attempts \ {o} /\ Printed(attempt[p])
        /\ <<o, p>> \notin redrawn' =>
              \A c \in TemplateCourses : attempt[p].paper[c] \subseteq attempt'[o].excluded[c]
    BY <1>3, <1>4 DEF SeenExcluded
  <2>2. CASE p # r
    BY <1>2, <2>1, <2>2
  <2>3. CASE p = r
    <3>1. attempt'[o] = attempt[o] /\ p \in attempt[o].seen
      BY <1>2, <1>4, <2>1, <2>3
    <3>2. Printed(t) /\ (t.paper = attempt[r].paper \/ <<o, r>> \in redrawn')
      BY <2>1, <2>3, <3>1
    <3> QED
      BY <1>2, <2>1, <2>3, <3>2
  <2> QED
    BY <2>2, <2>3
<1>5. EveryAttempt'
  BY <1>3, <1>4 DEF EveryAttempt, AttemptShape, PaperAvoids, SeenExcluded, Printed
<1> QED
  BY <1>1, <1>2, <1>5

\* A step that leaves the ledger alone and reports nothing.
LEMMA AttemptKeeps ==
    ASSUME QuestionIInv, NEW r \in Attempts, NEW t, t.stage # "reported",
           attempt' = [attempt EXCEPT ![r] = t], usage' = usage, redrawn \subseteq redrawn',
           AttemptShape(t), PaperAvoids(t), SeenExcluded(r, t),
           Printed(attempt[r]) => Printed(t),
           \A x \in Attempts : (Printed(attempt[r]) /\ r \in attempt[x].seen)
              => t.paper = attempt[r].paper \/ <<x, r>> \in redrawn'
    PROVE  QuestionIInv'
<1>1. /\ attempt' = [o \in Attempts |-> attempt'[o]]
      /\ attempt'[r] = t /\ \A o \in Attempts \ {r} : attempt'[o] = attempt[o]
      /\ EveryAttempt'
  BY AttemptStep
<1>2. RowsTogether'
  BY <1>1 DEF QuestionIInv, RowsTogether
<1> QED
  BY <1>1, <1>2 DEF QuestionIInv

LEMMA LedgerFrame ==
    ASSUME QuestionIInv, attempt' = attempt, usage' = usage, redrawn' = redrawn
    PROVE  QuestionIInv'
<1>1. EveryAttempt'
  BY DEF QuestionIInv, EveryAttempt, AttemptShape, PaperAvoids, SeenExcluded, Printed
<1>2. RowsTogether'
  BY DEF QuestionIInv, RowsTogether
<1> QED
  BY <1>1, <1>2 DEF QuestionIInv

\* A record of a generation, one field after the other.
Fields(stage, week, asked, excluded, seen, paper, slots) ==
    [stage |-> stage, week |-> week, asked |-> asked, excluded |-> excluded,
     seen |-> seen, paper |-> paper, slots |-> slots]

LEMMA ReadRecord ==
    ASSUME NEW t, AttemptShape(t), NEW w, NEW asked, NEW excluded, NEW seen
    PROVE  [t EXCEPT !.stage = "read", !.week = w, !.asked = asked, !.excluded = excluded, !.seen = seen]
             = Fields("read", w, asked, excluded, seen, t.paper, t.slots)
<1>1. PICK stage, week, wanted, avoided, others, paper, slots :
         t = Fields(stage, week, wanted, avoided, others, paper, slots)
  BY DEF AttemptShape, Fields
<1>2. t.paper = paper /\ t.slots = slots
  BY <1>1 DEF Fields
<1> DEFINE read == [t EXCEPT !.stage = "read"]
           ofWeek == [read EXCEPT !.week = w]
           asking == [ofWeek EXCEPT !.asked = asked]
           avoiding == [asking EXCEPT !.excluded = excluded]
<1>3. read = Fields("read", week, wanted, avoided, others, paper, slots)
  BY <1>1 DEF Fields
<1> HIDE DEF read
<1>4. ofWeek = Fields("read", w, wanted, avoided, others, paper, slots)
  BY <1>3 DEF Fields
<1> HIDE DEF ofWeek
<1>5. asking = Fields("read", w, asked, avoided, others, paper, slots)
  BY <1>4 DEF Fields
<1> HIDE DEF asking
<1>6. avoiding = Fields("read", w, asked, excluded, others, paper, slots)
  BY <1>5 DEF Fields
<1> HIDE DEF avoiding
<1>7. [avoiding EXCEPT !.seen = seen] = Fields("read", w, asked, excluded, seen, paper, slots)
  BY <1>6 DEF Fields
<1> QED
  BY <1>2, <1>7 DEF avoiding, asking, ofWeek, read

\* A step to another stage, and one that also sets the papers.
LEMMA StageRecord ==
    ASSUME NEW t, AttemptShape(t), NEW stage, NEW papers
    PROVE  /\ [t EXCEPT !.stage = stage]
                = Fields(stage, t.week, t.asked, t.excluded, t.seen, t.paper, t.slots)
           /\ [t EXCEPT !.stage = stage, !.paper = papers]
                = Fields(stage, t.week, t.asked, t.excluded, t.seen, papers, t.slots)
<1>1. PICK old, week, asked, excluded, seen, paper, slots :
         t = Fields(old, week, asked, excluded, seen, paper, slots)
  BY DEF AttemptShape, Fields
<1>2. /\ t.week = week /\ t.asked = asked /\ t.excluded = excluded /\ t.seen = seen
      /\ t.paper = paper /\ t.slots = slots
  BY <1>1 DEF Fields
<1> DEFINE staged == [t EXCEPT !.stage = stage]
<1>3. staged = Fields(stage, week, asked, excluded, seen, paper, slots)
  BY <1>1 DEF Fields
<1> HIDE DEF staged
<1>4. [staged EXCEPT !.paper = papers] = Fields(stage, week, asked, excluded, seen, papers, slots)
  BY <1>3 DEF Fields
<1> QED
  BY <1>2, <1>3, <1>4 DEF staged

LEMMA PlanRecord ==
    ASSUME NEW t, AttemptShape(t), NEW papers, NEW shares
    PROVE  [t EXCEPT !.paper = papers, !.slots = shares]
              = Fields(t.stage, t.week, t.asked, t.excluded, t.seen, papers, shares)
<1>1. PICK stage, week, asked, excluded, seen, paper, slots :
         t = Fields(stage, week, asked, excluded, seen, paper, slots)
  BY DEF AttemptShape, Fields
<1>2. /\ t.stage = stage /\ t.week = week /\ t.asked = asked /\ t.excluded = excluded
      /\ t.seen = seen
  BY <1>1 DEF Fields
<1> DEFINE filled == [t EXCEPT !.paper = papers]
<1>3. filled = Fields(stage, week, asked, excluded, seen, papers, slots)
  BY <1>1 DEF Fields
<1> HIDE DEF filled
<1>4. [filled EXCEPT !.slots = shares] = Fields(stage, week, asked, excluded, seen, papers, shares)
  BY <1>3 DEF Fields
<1> QED
  BY <1>2, <1>4 DEF filled

\* A generation at another stage has the questions it had.
LEMMA StageFits ==
    ASSUME NEW r, NEW t, NEW stage, stage # "new",
           AttemptShape(t), PaperAvoids(t), SeenExcluded(r, t)
    PROVE  LET next == [t EXCEPT !.stage = stage]
           IN  /\ AttemptShape(next) /\ PaperAvoids(next) /\ SeenExcluded(r, next)
               /\ next.stage = stage /\ next.paper = t.paper
<1> DEFINE next == [t EXCEPT !.stage = stage]
<1>1. next = Fields(stage, t.week, t.asked, t.excluded, t.seen, t.paper, t.slots)
  BY StageRecord
<1> HIDE DEF next
<1>2. /\ AttemptShape(next) /\ PaperAvoids(next) /\ SeenExcluded(r, next)
      /\ next.stage = stage /\ next.paper = t.paper
  BY <1>1 DEF AttemptShape, PaperAvoids, SeenExcluded, Fields
<1> QED
  BY <1>2 DEF next

\* What a generation leaves out is all the ledger has of its courses, so it covers
\* every generation in it.
LEMMA ReadInputsInv ==
    ASSUME QuestionIInv, NEW r \in Attempts, ReadInputs(r)
    PROVE  QuestionIInv'
<1> DEFINE t == attempt[r]
<1>0. /\ AttemptShape(t) /\ PaperAvoids(t) /\ SeenExcluded(r, t)
      /\ t.stage = "new" /\ ~Printed(t) /\ usage' = usage /\ redrawn' = redrawn
  BY DEF ReadInputs, QuestionIInv, EveryAttempt, Printed
<1>1. \A c \in TemplateCourses : t.paper[c] = {}
  BY <1>0 DEF PaperAvoids
<1>2. CASE attempt' = [attempt EXCEPT ![r].stage = "refused"]
  <2> DEFINE next == [t EXCEPT !.stage = "refused"]
  <2>1. /\ AttemptShape(next) /\ PaperAvoids(next) /\ SeenExcluded(r, next)
        /\ next.stage = "refused" /\ next.paper = t.paper
    <3> HIDE DEF t
    <3> QED
      BY <1>0, StageFits
  <2>2. attempt' = [attempt EXCEPT ![r] = next]
    BY <1>2
  <2> HIDE DEF next
  <2> QED
    BY <1>0, <2>1, <2>2, AttemptKeeps
<1>3. ASSUME NEW w, NEW asked,
             attempt' = [attempt EXCEPT
                ![r].stage = "read", ![r].week = w, ![r].asked = asked,
                ![r].excluded = [c \in TemplateCourses |-> UsedInCycle(w, c)],
                ![r].seen = InLedger]
      PROVE  QuestionIInv'
  <2> DEFINE excluded == [c \in TemplateCourses |-> UsedInCycle(w, c)]
             seen == InLedger
             next == Fields("read", w, asked, excluded, seen, t.paper, t.slots)
  <2>1. attempt' = [attempt EXCEPT ![r] = next]
    <3> HIDE DEF excluded, seen
    <3> DEFINE changed == [t EXCEPT !.stage = "read", !.week = w, !.asked = asked,
                                    !.excluded = excluded, !.seen = seen]
    <3>2. attempt' = [attempt EXCEPT ![r] = changed]
      <4>1. DOMAIN attempt = Attempts
        BY DEF QuestionIInv
      <4> HIDE DEF next
      <4> QED
        BY <1>3, <4>1 DEF excluded, seen
    <3>3. changed = next
      <4>1. AttemptShape(t)
        BY <1>0
      <4> HIDE DEF t
      <4>2. ASSUME NEW e, NEW s
            PROVE  [t EXCEPT !.stage = "read", !.week = w, !.asked = asked, !.excluded = e, !.seen = s]
                     = Fields("read", w, asked, e, s, t.paper, t.slots)
        BY <4>1, ReadRecord
      <4> QED
        BY <4>2
    <3> QED
      BY <3>2, <3>3
  <2>2. AttemptShape(next)
    <3> HIDE DEF seen
    <3> QED
      BY <1>0 DEF AttemptShape, Fields
  <2>3. PaperAvoids(next)
    <3> HIDE DEF seen, excluded
    <3> QED
      BY <1>1 DEF PaperAvoids, Fields
  <2>4. SeenExcluded(r, next)
    <3> SUFFICES ASSUME NEW o \in seen
                 PROVE  /\ o \in Attempts \ {r} /\ Printed(attempt[o])
                        /\ \A c \in TemplateCourses : attempt[o].paper[c] \subseteq excluded[c]
      <4> HIDE DEF excluded, seen
      <4> QED
        BY DEF SeenExcluded, Fields
    <3>1. o \in Attempts /\ attempt[o].stage = "reported" /\ \E u \in usage : u[1] = o
      BY DEF InLedger
    <3>2. o # r /\ Printed(attempt[o])
      BY <1>0, <3>1 DEF Printed
    <3>3. ASSUME NEW c \in TemplateCourses, NEW q \in attempt[o].paper[c] PROVE q \in excluded[c]
      <4>1. <<o, c, q>> \in usage
        BY <3>1, <3>3 DEF QuestionIInv, RowsTogether
      <4> DEFINE row == <<o, c, q>>
      <4>2. row \in {v \in usage : v[2] = c} /\ row[3] = q
        BY <4>1
      <4> QED
        BY <4>2 DEF UsedInCycle
    <3> QED
      BY <3>1, <3>2, <3>3
  <2>5. next.stage = "read"
    BY DEF Fields
  <2> HIDE DEF next
  <2> QED
    BY <1>0, <2>1, <2>2, <2>3, <2>4, <2>5, AttemptKeeps
<1>4. PICK w \in Weeks, chosen \in SUBSET Active(stored) :
         \/ attempt' = [attempt EXCEPT ![r].stage = "refused"]
         \/ attempt' = [attempt EXCEPT
                ![r].stage = "read", ![r].week = w,
                ![r].asked = [c \in TemplateCourses |->
                                IF c \in chosen THEN stored[c] ELSE NoCounts],
                ![r].excluded = [c \in TemplateCourses |-> UsedInCycle(w, c)],
                ![r].seen = InLedger]
  <2> HIDE DEF t
  <2> QED
    BY DEF ReadInputs
<1> DEFINE asked == [c \in TemplateCourses |-> IF c \in chosen THEN stored[c] ELSE NoCounts]
<1>5. CASE attempt' = [attempt EXCEPT
                ![r].stage = "read", ![r].week = w, ![r].asked = asked,
                ![r].excluded = [c \in TemplateCourses |-> UsedInCycle(w, c)],
                ![r].seen = InLedger]
  <2> HIDE DEF asked
  <2> QED
    BY <1>3, <1>5
<1> QED
  BY <1>2, <1>4, <1>5

LEMMA PlanCourseInv ==
    ASSUME QuestionIInv, NEW r \in Attempts, NEW c \in TemplateCourses, PlanCourse(r, c)
    PROVE  QuestionIInv'
<1> DEFINE t == attempt[r]
<1>1. /\ AttemptShape(t) /\ PaperAvoids(t) /\ SeenExcluded(r, t)
      /\ t.stage = "read" /\ ~Printed(t) /\ usage' = usage /\ redrawn' = redrawn
  BY DEF PlanCourse, QuestionIInv, EveryAttempt, Printed
<1>2. PICK order \in LevelOrders(LevelCounts(t.asked[c])) :
      \E qs \in PlannedSets(c, order, t.excluded[c]) :
         attempt' = [attempt EXCEPT ![r].paper[c] = qs, ![r].slots[c] = PlannedSlots(c, order)]
  BY DEF PlanCourse
<1>3. PICK qs \in PlannedSets(c, order, t.excluded[c]) :
         attempt' = [attempt EXCEPT ![r].paper[c] = qs, ![r].slots[c] = PlannedSlots(c, order)]
  BY <1>2
<1>4. qs \cap t.excluded[c] = {}
  BY <1>3, PlannedAvoid
<1> DEFINE papers == [t.paper EXCEPT ![c] = qs]
           shares == [t.slots EXCEPT ![c] = PlannedSlots(c, order)]
           next == [t EXCEPT !.paper = papers, !.slots = shares]
<1>5. attempt' = [attempt EXCEPT ![r] = next]
  <2>1. DOMAIN attempt = Attempts
    BY DEF QuestionIInv
  <2> QED
    BY <1>3, <2>1
<1>6. papers = [d \in TemplateCourses |-> IF d = c THEN qs ELSE t.paper[d]]
  BY <1>1 DEF AttemptShape
<1>7. next = Fields(t.stage, t.week, t.asked, t.excluded, t.seen, papers, shares)
  <2> HIDE DEF t, papers, shares
  <2> QED
    BY <1>1, PlanRecord
<1> HIDE DEF next, papers, shares
<1>8. AttemptShape(next)
  BY <1>1, <1>6, <1>7 DEF AttemptShape, Fields
<1>9. PaperAvoids(next)
  BY <1>1, <1>4, <1>6, <1>7 DEF PaperAvoids, Fields
<1>10. SeenExcluded(r, next) /\ next.stage = "read"
  BY <1>1, <1>7 DEF SeenExcluded, Fields
<1> QED
  BY <1>1, <1>5, <1>8, <1>9, <1>10, AttemptKeeps

LEMMA LoadInv ==
    ASSUME QuestionIInv, NEW r \in Attempts, LoadCourseQuestions(r)
    PROVE  QuestionIInv'
<1> DEFINE t == attempt[r]
<1>1. AttemptShape(t) /\ PaperAvoids(t) /\ SeenExcluded(r, t) /\ usage' = usage
  BY DEF LoadCourseQuestions, QuestionIInv, EveryAttempt
<1>2. PICK papers \in OneOfEach([c \in TemplateCourses |-> Papers(r, c)]) :
         /\ attempt' = [attempt EXCEPT ![r].stage = "printed", ![r].paper = papers]
         /\ redrawn' = redrawn \cup
              {x \in Attempts \X {r} : papers # t.paper /\ r \in attempt[x[1]].seen}
  BY DEF LoadCourseQuestions
<1>3. papers = [c \in TemplateCourses |-> papers[c]] /\ \A c \in TemplateCourses : papers[c] \in Papers(r, c)
  BY DEF OneOfEach
<1>4. \A c \in TemplateCourses : papers[c] \cap t.excluded[c] = {}
  BY <1>1, <1>3, PapersAvoid
<1> DEFINE next == [t EXCEPT !.stage = "printed", !.paper = papers]
<1>5. attempt' = [attempt EXCEPT ![r] = next]
  <2>1. DOMAIN attempt = Attempts
    BY DEF QuestionIInv
  <2> QED
    BY <1>2, <2>1
<1>6. next = Fields("printed", t.week, t.asked, t.excluded, t.seen, papers, t.slots)
  <2> HIDE DEF t
  <2> QED
    BY <1>1, StageRecord
<1> HIDE DEF next
<1>7. AttemptShape(next)
  BY <1>1, <1>3, <1>6 DEF AttemptShape, Fields
<1>8. PaperAvoids(next)
  BY <1>4, <1>6 DEF PaperAvoids, Fields
<1>9. SeenExcluded(r, next)
  BY <1>1, <1>6 DEF SeenExcluded, Fields
<1>10. Printed(next) /\ next.stage # "reported" /\ next.paper = papers
  BY <1>6 DEF Printed, Fields
<1>11. ASSUME NEW x \in Attempts, r \in attempt[x].seen
       PROVE  next.paper = t.paper \/ <<x, r>> \in redrawn'
  <2> DEFINE pair == <<x, r>>
  <2>1. pair \in Attempts \X {r} /\ pair[1] = x
    OBVIOUS
  <2> HIDE DEF pair
  <2>2. papers = t.paper \/ pair \in redrawn'
    BY <1>2, <1>11, <2>1
  <2> QED
    BY <1>10, <2>2 DEF pair
<1>12. redrawn \subseteq redrawn'
  BY <1>2
<1> QED
  BY <1>1, <1>5, <1>7, <1>8, <1>9, <1>10, <1>11, <1>12, AttemptKeeps

\* The rows of a generation are of one week, so they are deleted together.
LEMMA WriteAttemptInv ==
    ASSUME QuestionIInv, NEW r \in Attempts, WriteAttempt(r)
    PROVE  QuestionIInv'
<1> DEFINE t == attempt[r]
           next == [t EXCEPT !.stage = "written"]
<1>1. /\ AttemptShape(t) /\ PaperAvoids(t) /\ SeenExcluded(r, t)
      /\ t.stage = "read" /\ ~Printed(t) /\ redrawn' = redrawn
  BY DEF WriteAttempt, QuestionIInv, EveryAttempt, Printed
<1>2. /\ AttemptShape(next) /\ PaperAvoids(next) /\ SeenExcluded(r, next)
      /\ next.stage = "written" /\ next.paper = t.paper
  <2> HIDE DEF t
  <2> QED
    BY <1>1, StageFits
<1>3. attempt' = [attempt EXCEPT ![r] = next] /\ usage' = {u \in usage : attempt[u[1]].week # t.week}
  BY DEF WriteAttempt
<1> HIDE DEF next
<1>4. /\ attempt' = [o \in Attempts |-> attempt'[o]]
      /\ attempt'[r] = next /\ \A o \in Attempts \ {r} : attempt'[o] = attempt[o]
      /\ EveryAttempt'
  BY <1>1, <1>2, <1>3, AttemptStep
<1>5. RowsTogether'
  <2> SUFFICES ASSUME NEW o \in Attempts, attempt'[o].stage = "reported",
                      NEW u \in usage', u[1] = o,
                      NEW c \in TemplateCourses, NEW q \in attempt'[o].paper[c]
               PROVE  <<o, c, q>> \in usage'
    BY DEF RowsTogether
  <2>1. u \in usage /\ attempt[o].week # t.week
    BY <1>3
  <2>2. attempt'[o] = attempt[o]
    BY <1>2, <1>4
  <2>3. <<o, c, q>> \in usage
    BY <2>1, <2>2 DEF QuestionIInv, RowsTogether
  <2> DEFINE row == <<o, c, q>>
  <2>4. row[1] = o
    OBVIOUS
  <2> HIDE DEF row
  <2>5. row \in usage'
    BY <1>3, <2>1, <2>3, <2>4 DEF row
  <2> QED
    BY <2>5 DEF row
<1> QED
  BY <1>4, <1>5 DEF QuestionIInv

\* A report writes all the rows of its generation.
LEMMA RecordUsageInv ==
    ASSUME QuestionIInv, NEW r \in Attempts, RecordUsage(r)
    PROVE  QuestionIInv'
<1> DEFINE t == attempt[r]
           next == [t EXCEPT !.stage = "reported"]
           new == UNION {{r} \X {c} \X t.paper[c] : c \in TemplateCourses}
           kept == {u \in usage : u[1] = r => t.paper[u[2]] = {}}
<1>1. AttemptShape(t) /\ PaperAvoids(t) /\ SeenExcluded(r, t) /\ redrawn' = redrawn
  BY DEF RecordUsage, QuestionIInv, EveryAttempt
<1>2. /\ AttemptShape(next) /\ PaperAvoids(next) /\ SeenExcluded(r, next)
      /\ next.stage = "reported" /\ next.paper = t.paper
  <2> HIDE DEF t
  <2> QED
    BY <1>1, StageFits
<1>3. attempt' = [attempt EXCEPT ![r] = next] /\ usage' = kept \cup new
  BY DEF RecordUsage
<1>4. \A u \in new : u[1] = r
  OBVIOUS
<1>5. \A c \in TemplateCourses : \A q \in t.paper[c] : <<r, c, q>> \in new
  OBVIOUS
<1>6. \A u \in usage : u[1] # r => u \in kept
  OBVIOUS
<1>7. kept \subseteq usage
  OBVIOUS
<1> HIDE DEF next, new, kept
<1>8. Printed(next)
  BY <1>2 DEF Printed
<1>9. /\ attempt' = [o \in Attempts |-> attempt'[o]]
      /\ attempt'[r] = next /\ \A o \in Attempts \ {r} : attempt'[o] = attempt[o]
      /\ EveryAttempt'
  BY <1>1, <1>2, <1>3, <1>8, AttemptStep
<1>10. RowsTogether'
  <2> SUFFICES ASSUME NEW o \in Attempts, attempt'[o].stage = "reported",
                      NEW u \in usage', u[1] = o,
                      NEW c \in TemplateCourses, NEW q \in attempt'[o].paper[c]
               PROVE  <<o, c, q>> \in usage'
    BY DEF RowsTogether
  <2>1. CASE o = r
    BY <1>2, <1>3, <1>5, <1>9, <2>1
  <2>2. CASE o # r
    <3>1. u \in usage
      BY <1>3, <1>4, <1>7, <2>2
    <3>2. attempt'[o] = attempt[o]
      BY <1>9, <2>2
    <3>3. <<o, c, q>> \in usage
      BY <3>1, <3>2 DEF QuestionIInv, RowsTogether
    <3> DEFINE row == <<o, c, q>>
    <3>4. row[1] = o
      OBVIOUS
    <3> HIDE DEF row
    <3>5. row \in usage'
      BY <1>3, <1>6, <2>2, <3>3, <3>4 DEF row
    <3> QED
      BY <3>5 DEF row
  <2> QED
    BY <2>1, <2>2
<1> QED
  BY <1>9, <1>10 DEF QuestionIInv

-----------------------------------------------------------------------------
LEMMA QuestionInitially == QuestionInit => QuestionIInv
<1> SUFFICES ASSUME QuestionInit PROVE QuestionIInv
  OBVIOUS
<1>1. attempt = [r \in Attempts |-> NewAttempt] /\ usage = {}
  BY DEF QuestionInit
<1>2. /\ AttemptShape(NewAttempt) /\ PaperAvoids(NewAttempt)
      /\ \A r \in Attempts : SeenExcluded(r, NewAttempt)
  BY DEF AttemptShape, PaperAvoids, SeenExcluded, NewAttempt
<1> QED
  BY <1>1, <1>2 DEF QuestionIInv, EveryAttempt, RowsTogether

LEMMA QuestionStep == QuestionIInv /\ [QuestionNext]_questionVars => QuestionIInv'
<1>1. ASSUME QuestionIInv, QuestionNext PROVE QuestionIInv'
  <2>1. CASE \/ OpenTemplate \/ SaveTemplate
             \/ \E c \in TemplateCourses :
                   \/ AddCourse(c) \/ RemoveCourse(c) \/ Increment(c) \/ Decrement(c)
                   \/ TypeQuantity(c) \/ TypeDifficulty(c) \/ CatalogChanges(c)
    <3>1. attempt' = attempt /\ usage' = usage /\ redrawn' = redrawn
      BY <2>1 DEF OpenTemplate, SaveTemplate, AddCourse, RemoveCourse, Increment, Decrement,
         TypeQuantity, TypeDifficulty, CatalogChanges, EditGrid
    <3> QED
      BY <1>1, <3>1, LedgerFrame
  <2>2. CASE \E r \in Attempts : ReadInputs(r) \/ WriteAttempt(r) \/ LoadCourseQuestions(r) \/ RecordUsage(r)
    BY <1>1, <2>2, ReadInputsInv, WriteAttemptInv, LoadInv, RecordUsageInv
  <2>3. CASE \E r \in Attempts, c \in TemplateCourses : PlanCourse(r, c)
    BY <1>1, <2>3, PlanCourseInv
  <2> QED
    BY <1>1, <2>1, <2>2, <2>3 DEF QuestionNext
<1>2. ASSUME QuestionIInv, UNCHANGED questionVars PROVE QuestionIInv'
  BY <1>2, LedgerFrame DEF questionVars
<1> QED
  BY <1>1, <1>2

\* Every reachable state satisfies the invariant, for any bank, courses and generations.
THEOREM QuestionsInvariant == QuestionSpec => []QuestionIInv
<1> QED
  BY QuestionInitially, QuestionStep, PTL DEF QuestionSpec

\* A generation prints no question of a course that a generation it found in the
\* ledger prints, from its slots or drawn by the worker, however they interleave and
\* are retried (getUsedQuestionsInCycle, fetchQuestions), unless a retry has since drawn
\* other questions for that other one (loadCourseQuestions, for topics moved away).
THEOREM QuestionsAreNew == QuestionSpec => []NoRepetition
<1>1. QuestionIInv => NoRepetition
  BY DEF QuestionIInv, EveryAttempt, PaperAvoids, SeenExcluded, NoRepetition
<1> QED
  BY <1>1, QuestionsInvariant, PTL

-----------------------------------------------------------------------------
(* The slots of a planned course: the split of its levels over its subtopics.    *)

\* How many questions the first m of the subtopics take.
Before(n, parts, m) ==
    m * (n \div parts) + (IF m <= n % parts THEN m ELSE n % parts)

LEMMA Division ==
    ASSUME NEW n \in Nat, NEW parts \in Nat \ {0}
    PROVE  /\ n \div parts \in Nat /\ n % parts \in 0 .. parts - 1
           /\ n = parts * (n \div parts) + (n % parts)
<1> QED
  OBVIOUS

LEMMA Multiples ==
    ASSUME NEW q \in Nat
    PROVE  /\ 0 * q = 0
           /\ \A i \in Nat : i * q \in Nat /\ (i + 1) * q = i * q + q
           /\ \A i, j \in Nat : i <= j => i * q <= j * q
<1>1. \A i \in Nat : i * q \in Nat /\ (i + 1) * q = i * q + q
  OBVIOUS
<1>2. ASSUME NEW i \in Nat, NEW j \in Nat, i <= j PROVE i * q <= j * q
  <2>1. j - i \in Nat /\ (j - i) * q \in Nat
    BY <1>1, <1>2
  <2>2. j * q = i * q + (j - i) * q
    OBVIOUS
  <2> QED
    BY <1>1, <2>1, <2>2
<1> QED
  BY <1>1, <1>2

\* The shares of the subtopics lie one behind the other, from the first question to the last.
LEMMA SharesAddUp ==
    ASSUME NEW n \in Nat, NEW parts \in Nat \ {0}
    PROVE  /\ Before(n, parts, 0) = 0 /\ Before(n, parts, parts) = n
           /\ \A i \in 0 .. parts : Before(n, parts, i) \in Nat
           /\ \A i \in 1 .. parts :
                 /\ Quantity(n, parts, i) \in Nat
                 /\ Before(n, parts, i) = Before(n, parts, i - 1) + Quantity(n, parts, i)
           /\ \A i, j \in 0 .. parts : i <= j => Before(n, parts, i) <= Before(n, parts, j)
<1> DEFINE q == n \div parts
           rest == n % parts
<1>1. q \in Nat /\ rest \in 0 .. parts - 1 /\ n = parts * q + rest
  BY Division
<1>2. \A i : /\ Before(n, parts, i) = i * q + (IF i <= rest THEN i ELSE rest)
             /\ Quantity(n, parts, i) = q + (IF i <= rest THEN 1 ELSE 0)
  BY DEF Before, Quantity
<1> HIDE DEF q, rest
<1>3. /\ 0 * q = 0
      /\ \A i \in Nat : i * q \in Nat /\ (i + 1) * q = i * q + q
      /\ \A i, j \in Nat : i <= j => i * q <= j * q
  BY <1>1, Multiples
<1>4. Before(n, parts, 0) = 0 /\ Before(n, parts, parts) = n
  BY <1>1, <1>2, <1>3
<1>5. ASSUME NEW i \in 0 .. parts PROVE Before(n, parts, i) \in Nat
  BY <1>1, <1>2, <1>3
<1>6. ASSUME NEW i \in 1 .. parts
      PROVE  /\ Quantity(n, parts, i) \in Nat
             /\ Before(n, parts, i) = Before(n, parts, i - 1) + Quantity(n, parts, i)
  <2>1. i - 1 \in Nat /\ (i - 1) + 1 = i
    OBVIOUS
  <2>2. i * q = (i - 1) * q + q /\ (i - 1) * q \in Nat
    BY <1>3, <2>1
  <2> QED
    BY <1>1, <1>2, <2>2
<1>7. ASSUME NEW i \in 0 .. parts, NEW j \in 0 .. parts, i <= j
      PROVE  Before(n, parts, i) <= Before(n, parts, j)
  <2>1. i * q <= j * q /\ i * q \in Nat /\ j * q \in Nat
    BY <1>3, <1>7
  <2> QED
    BY <1>1, <1>2, <1>7, <2>1
<1> QED
  BY <1>4, <1>5, <1>6, <1>7

\* The recursive function in ShareOf is that offset.
LEMMA ShareIs ==
    ASSUME NEW c, NEW order, Len(order) \in Nat, Len(Spread[c]) \in Nat \ {0},
           NEW i \in 1 .. Len(Spread[c])
    PROVE  LET n == Len(order)
               parts == Len(Spread[c])
           IN  ShareOf(c, order, i) = SubSeq(order, Before(n, parts, i - 1) + 1,
                                            Before(n, parts, i - 1) + Quantity(n, parts, i))
<1> DEFINE n == Len(order)
           parts == Len(Spread[c])
           Solves(w) == w = [j \in 1 .. parts |-> IF j = 1 THEN 0
                                                  ELSE w[j - 1] + Quantity(n, parts, j - 1)]
           g == [j \in 1 .. parts |-> Before(n, parts, j - 1)]
           W == CHOOSE w : w = [j \in 1 .. parts |-> IF j = 1 THEN 0
                                                  ELSE w[j - 1] + Quantity(n, parts, j - 1)]
<1>1. ShareOf(c, order, i) = SubSeq(order, W[i] + 1, W[i] + Quantity(n, parts, i))
  BY DEF ShareOf
<1>2. n \in Nat /\ parts \in Nat \ {0} /\ i \in 1 .. parts
  OBVIOUS
<1> HIDE DEF n, parts
<1>3. \A j \in 1 .. parts : g[j] = IF j = 1 THEN 0 ELSE g[j - 1] + Quantity(n, parts, j - 1)
  <2> SUFFICES ASSUME NEW j \in 1 .. parts
               PROVE  g[j] = IF j = 1 THEN 0 ELSE g[j - 1] + Quantity(n, parts, j - 1)
    OBVIOUS
  <2>1. CASE j = 1
    BY <1>2, <2>1, SharesAddUp
  <2>2. CASE j # 1
    <3>1. j - 1 \in 1 .. parts
      BY <1>2, <2>2
    <3>2. Before(n, parts, j - 1) = Before(n, parts, (j - 1) - 1) + Quantity(n, parts, j - 1)
      BY <1>2, <3>1, SharesAddUp
    <3> QED
      BY <2>2, <3>1, <3>2
  <2> QED
    BY <2>1, <2>2
<1>4. g = [j \in 1 .. parts |-> g[j]]
  OBVIOUS
<1> HIDE DEF g
<1>5. Solves(g)
  BY <1>3, <1>4
<1>6. Solves(W)
  BY <1>5
<1> HIDE DEF W
<1>7. \A j \in 1 .. parts : W[j] = IF j = 1 THEN 0 ELSE W[j - 1] + Quantity(n, parts, j - 1)
  BY <1>6
<1> HIDE DEF Solves
<1> DEFINE T == {j \in Nat : j + 1 \in 1 .. parts => W[j + 1] = g[j + 1]}
<1>8. 0 \in T
  BY <1>2, <1>3, <1>7
<1>9. ASSUME NEW j \in Nat, j \in T PROVE j + 1 \in T
  <2> SUFFICES ASSUME (j + 1) + 1 \in 1 .. parts PROVE W[(j + 1) + 1] = g[(j + 1) + 1]
    OBVIOUS
  <2>1. j + 1 \in 1 .. parts /\ (j + 1) + 1 # 1 /\ ((j + 1) + 1) - 1 = j + 1
    BY <1>2
  <2>2. W[j + 1] = g[j + 1]
    BY <1>9, <2>1
  <2>3. /\ W[(j + 1) + 1] = W[((j + 1) + 1) - 1] + Quantity(n, parts, ((j + 1) + 1) - 1)
        /\ g[(j + 1) + 1] = g[((j + 1) + 1) - 1] + Quantity(n, parts, ((j + 1) + 1) - 1)
    BY <1>3, <1>7, <2>1
  <2> QED
    BY <2>1, <2>2, <2>3
<1>10. i - 1 \in T
  <2> HIDE DEF T
  <2>1. Nat \subseteq T
    BY <1>8, <1>9, SetInduction
  <2> QED
    BY <1>2, <2>1
<1>11. W[i] = Before(n, parts, i - 1)
  BY <1>2, <1>10 DEF g
<1> QED
  BY <1>1, <1>11 DEF n, parts

\* The pairs of a subtopic and a place in its share are the places of the whole order.
LEMMA SlotsOfLevel ==
    ASSUME NEW c, NEW order \in Seq(Difficulties), Len(Spread[c]) \in Nat \ {0}, NEW d \in Difficulties
    PROVE  PlannedSlots(c, order)[d] = Cardinality({k \in 1 .. Len(order) : order[k] = d})
<1> DEFINE n == Len(order)
           parts == Len(Spread[c])
           shares == [i \in DOMAIN Spread[c] |-> ShareOf(c, order, i)]
           slots == UNION {{i} \X DOMAIN shares[i] : i \in DOMAIN Spread[c]}
           of == {s \in slots : shares[s[1]][s[2]] = d}
           places == {k \in 1 .. n : order[k] = d}
           S(i) == Before(n, parts, i)
           Q(i) == Quantity(n, parts, i)
<1>1. PlannedSlots(c, order)[d] = Cardinality(of)
  BY DEF PlannedSlots
<1>2. n \in Nat /\ parts \in Nat \ {0} /\ order = [k \in 1 .. n |-> order[k]]
  OBVIOUS
<1>3. /\ S(0) = 0 /\ S(parts) = n
      /\ \A i \in 0 .. parts : S(i) \in Nat
      /\ \A i \in 1 .. parts : Q(i) \in Nat /\ S(i) = S(i - 1) + Q(i)
      /\ \A i, j \in 0 .. parts : i <= j => S(i) <= S(j)
  BY <1>2, SharesAddUp
<1>4. ASSUME NEW i \in 1 .. parts
      PROVE  ShareOf(c, order, i) = SubSeq(order, S(i - 1) + 1, S(i - 1) + Q(i))
  BY <1>2, ShareIs
<1> HIDE DEF n, S, Q
<1>5. ASSUME NEW i \in 1 .. parts
      PROVE  /\ DOMAIN ShareOf(c, order, i) = 1 .. Q(i)
             /\ \A j \in 1 .. Q(i) :
                   S(i - 1) + j \in 1 .. n /\ ShareOf(c, order, i)[j] = order[S(i - 1) + j]
  <2>1. i - 1 \in 0 .. parts /\ i \in 0 .. parts
    BY <1>2
  <2>2. S(i - 1) \in Nat /\ Q(i) \in Nat /\ S(i) = S(i - 1) + Q(i) /\ S(i) <= n
    BY <1>2, <1>3, <2>1
  <2> DEFINE m == S(i - 1)
             w == Q(i)
  <2>3. m \in Nat /\ w \in Nat /\ m + w <= n
    BY <2>2
  <2>4. ShareOf(c, order, i) = SubSeq(order, m + 1, m + w)
    BY <1>4
  <2> HIDE DEF m, w
  <2>5. Len(SubSeq(order, m + 1, m + w)) = w
    BY <1>2, <2>3 DEF n
  <2>6. DOMAIN SubSeq(order, m + 1, m + w) = 1 .. w
    BY <1>2, <2>3 DEF n
  <2>7. ASSUME NEW j \in 1 .. w
        PROVE  m + j \in 1 .. n /\ SubSeq(order, m + 1, m + w)[j] = order[m + j]
    <3>1. m + j \in 1 .. n /\ j + (m + 1) - 1 = m + j
      BY <1>2, <2>3
    <3>2. SubSeq(order, m + 1, m + w)[j] = order[j + (m + 1) - 1]
      BY <1>2, <2>3 DEF n
    <3> QED
      BY <3>1, <3>2
  <2> QED
    BY <2>4, <2>6, <2>7 DEF m, w
<1>6. DOMAIN Spread[c] = 1 .. parts
  OBVIOUS
<1>7. \A i \in 1 .. parts : shares[i] = ShareOf(c, order, i)
  BY <1>6
<1> HIDE DEF shares, parts
<1>8. \A s : s \in of <=> /\ s = <<s[1], s[2]>> /\ s[1] \in 1 .. parts /\ s[2] \in 1 .. Q(s[1])
                          /\ order[S(s[1] - 1) + s[2]] = d
  <2>1. \A s : s \in slots <=> /\ s = <<s[1], s[2]>> /\ s[1] \in 1 .. parts
                                /\ s[2] \in DOMAIN ShareOf(c, order, s[1])
    <3>1. slots = UNION {{i} \X DOMAIN ShareOf(c, order, i) : i \in 1 .. parts}
      BY <1>6, <1>7
    <3> HIDE DEF slots
    <3> QED
      BY <3>1
  <2>2. \A s \in slots : shares[s[1]][s[2]] = order[S(s[1] - 1) + s[2]] /\ s[2] \in 1 .. Q(s[1])
    <3> SUFFICES ASSUME NEW s \in slots
                 PROVE  shares[s[1]][s[2]] = order[S(s[1] - 1) + s[2]] /\ s[2] \in 1 .. Q(s[1])
      OBVIOUS
    <3> HIDE DEF slots
    <3>1. s[1] \in 1 .. parts /\ s[2] \in DOMAIN ShareOf(c, order, s[1])
      BY <2>1
    <3>2. s[2] \in 1 .. Q(s[1]) /\ shares[s[1]] = ShareOf(c, order, s[1])
      BY <1>5, <1>7, <3>1
    <3> QED
      BY <1>5, <3>1, <3>2
  <2>3. \A s : s \in slots <=> /\ s = <<s[1], s[2]>> /\ s[1] \in 1 .. parts /\ s[2] \in 1 .. Q(s[1])
    BY <1>5, <2>1
  <2> HIDE DEF slots
  <2> QED
    BY <2>2, <2>3
<1> HIDE DEF of
<1> DEFINE f == [s \in of |-> S(s[1] - 1) + s[2]]
<1>9. f \in [of -> places]
  BY <1>5, <1>8
<1>10. ASSUME NEW s \in of, NEW t \in of, s[1] < t[1] PROVE f[s] < f[t]
  <2>1. s[1] \in 1 .. parts /\ t[1] \in 1 .. parts /\ s[2] \in 1 .. Q(s[1]) /\ t[2] \in 1 .. Q(t[1])
    BY <1>8
  <2>2. s[1] \in 0 .. parts /\ t[1] - 1 \in 0 .. parts /\ s[1] <= t[1] - 1 /\ s[1] - 1 \in 0 .. parts
    BY <1>2, <1>10, <2>1
  <2>3. S(s[1]) <= S(t[1] - 1) /\ S(s[1]) = S(s[1] - 1) + Q(s[1])
    BY <1>3, <2>1, <2>2
  <2>4. S(s[1] - 1) \in Nat /\ S(t[1] - 1) \in Nat /\ Q(s[1]) \in Nat /\ Q(t[1]) \in Nat
    BY <1>3, <2>1, <2>2
  <2>5. f[s] = S(s[1] - 1) + s[2] /\ f[t] = S(t[1] - 1) + t[2]
    OBVIOUS
  <2> DEFINE a == S(s[1] - 1)
             b == S(t[1] - 1)
             w == Q(s[1])
             x == s[2]
             y == t[2]
             v == Q(t[1])
  <2>6. /\ a \in Nat /\ b \in Nat /\ w \in Nat /\ v \in Nat
        /\ x \in 1 .. w /\ y \in 1 .. v
    BY <2>1, <2>4
  <2>7. f[s] = a + x /\ f[t] = b + y
    BY <2>5
  <2>8. a + w <= b
    BY <2>3
  <2> HIDE DEF f, a, b, w, x, y, v
  <2>9. x \in Nat /\ y \in Nat /\ x <= w /\ y > 0
    BY <2>6
  <2> QED
    BY <2>6, <2>7, <2>8, <2>9
<1>11. ASSUME NEW s \in of, NEW t \in of, f[s] = f[t] PROVE s = t
  <2>1. s[1] \in 1 .. parts /\ t[1] \in 1 .. parts
    BY <1>8
  <2>2. f[s] \in Nat /\ f[t] \in Nat
    BY <1>2, <1>9
  <2>3. s[1] = t[1]
    <3> HIDE DEF f
    <3> QED
      BY <1>2, <1>10, <1>11, <2>1, <2>2
  <2>4. S(s[1] - 1) \in Nat /\ s[2] \in Nat /\ t[2] \in Nat
    <3>0. s[1] - 1 \in 0 .. parts
      BY <1>2, <2>1
    <3>1. s[1] - 1 \in 0 .. parts /\ Q(s[1]) \in Nat /\ Q(t[1]) \in Nat
      BY <1>3, <2>1, <3>0
    <3> QED
      BY <1>3, <1>8, <3>1
  <2>5. s[2] = t[2]
    <3> DEFINE a == S(s[1] - 1)
               x == s[2]
               y == t[2]
    <3>1. f[s] = a + x /\ f[t] = a + y
      BY <2>3
    <3>2. a \in Nat /\ x \in Nat /\ y \in Nat
      BY <2>4
    <3>3. a + x = a + y
      BY <1>11, <3>1
    <3> HIDE DEF f, a, x, y
    <3>4. x = y
      BY <3>2, <3>3
    <3> QED
      BY <3>4 DEF x, y
  <2>6. s = <<s[1], s[2]>> /\ t = <<t[1], t[2]>>
    BY <1>8
  <2> HIDE DEF f
  <2> QED
    BY <2>3, <2>5, <2>6
<1>12. ASSUME NEW k \in places PROVE \E s \in of : f[s] = k
  <2> DEFINE T == {i \in 1 .. parts : k <= S(i)}
  <2>1. k \in 1 .. n /\ order[k] = d
    OBVIOUS
  <2>2. parts \in T /\ T \in SUBSET Nat
    BY <1>2, <1>3, <2>1
  <2>3. PICK i \in T : \A j \in T : i <= j
    BY <2>2, LeastNumber
  <2>4. i \in 1 .. parts /\ k <= S(i) /\ i - 1 \in 0 .. parts /\ S(i - 1) \in Nat /\ Q(i) \in Nat
    BY <1>2, <1>3, <2>3
  <2>5. S(i - 1) < k
    <3>1. CASE i = 1
      BY <1>3, <2>1, <3>1
    <3>2. CASE i # 1
      <4>1. i - 1 \in 1 .. parts /\ i - 1 \notin T
        BY <1>2, <2>3, <2>4, <3>2
      <4> QED
        BY <1>2, <2>1, <2>4, <4>1
    <3> QED
      BY <3>1, <3>2
  <2> HIDE DEF T
  <2> DEFINE s == <<i, k - S(i - 1)>>
  <2>6. S(i) = S(i - 1) + Q(i)
    BY <1>3, <2>4
  <2>7. k - S(i - 1) \in 1 .. Q(i) /\ S(i - 1) + (k - S(i - 1)) = k
    BY <1>2, <2>1, <2>4, <2>5, <2>6
  <2>8. s[1] = i /\ s[2] = k - S(i - 1) /\ s = <<s[1], s[2]>>
    OBVIOUS
  <2> HIDE DEF s, places
  <2>9. s \in of
    BY <1>8, <2>1, <2>4, <2>7, <2>8
  <2>10. f[s] = k
    BY <2>7, <2>8, <2>9
  <2> QED
    BY <2>9, <2>10
<1>13. IsFiniteSet(places)
  <2>1. places \subseteq 1 .. n
    OBVIOUS
  <2>2. IsFiniteSet(1 .. n)
    <3>1. n \in Int /\ 1 \in Int
      BY <1>2
    <3> QED
      BY <3>1, FS_Interval
  <2> HIDE DEF places
  <2> QED
    BY <2>1, <2>2, FS_Subset
<1> HIDE DEF f, places
<1>14. f \in Injection(of, places)
  BY <1>9, <1>11 DEF Injection, IsInjective
<1>15. f \in Surjection(of, places)
  BY <1>9, <1>12 DEF Surjection
<1>16. Cardinality(of) = Cardinality(places)
  BY <1>13, <1>14, <1>15, FS_Injection
<1> QED
  BY <1>1, <1>16 DEF places, n

\* An order of the levels has as many places of each level as it is to have.
LEMMA OrderOfLevels ==
    ASSUME NEW need, need.EASY \in Int, need.MEDIUM \in Int, need.HARD \in Int,
           NEW order \in LevelOrders(need)
    PROVE  /\ order \in Seq(Difficulties)
           /\ \A d \in Difficulties : Cardinality({k \in 1 .. Len(order) : order[k] = d}) = need[d]
<1> DEFINE n == need.EASY + need.MEDIUM + need.HARD
<1>1. /\ order \in [1 .. n -> Difficulties] /\ n \in Int
      /\ \A d \in Difficulties : Cardinality({k \in 1 .. n : order[k] = d}) = need[d]
  <2>1. order \in {s \in [1 .. n -> Difficulties] :
                     \A d \in Difficulties : Cardinality({k \in 1 .. n : s[k] = d}) = need[d]}
    BY DEF LevelOrders
  <2>2. n \in Int
    OBVIOUS
  <2> HIDE DEF n
  <2> QED
    BY <2>1, <2>2
<1> HIDE DEF n
<1>2. \A d \in Difficulties : Cardinality({k \in 1 .. n : order[k] = d}) \in Nat
  <2> SUFFICES ASSUME NEW d \in Difficulties PROVE Cardinality({k \in 1 .. n : order[k] = d}) \in Nat
    OBVIOUS
  <2>1. IsFiniteSet(1 .. n) /\ {k \in 1 .. n : order[k] = d} \subseteq 1 .. n
    BY <1>1, FS_Interval
  <2> QED
    BY <2>1, FS_Subset, FS_CardinalityType
<1>3. need.EASY \in Nat /\ need.MEDIUM \in Nat /\ need.HARD \in Nat
  BY <1>1, <1>2 DEF Difficulties
<1>4. n \in Nat
  BY <1>3 DEF n
<1>5. order \in Seq(Difficulties) /\ Len(order) = n
  BY <1>1, <1>4
<1> QED
  BY <1>1, <1>5

\* Without subtopics nothing is planned.
LEMMA NoSubtopicsNoSlots ==
    ASSUME NEW c, NEW order, Spread[c] \in Seq(DOMAIN Bank), Len(Spread[c]) = 0
    PROVE  PlannedSlots(c, order) = [d \in Difficulties |-> 0]
<1> DEFINE shares == [i \in DOMAIN Spread[c] |-> ShareOf(c, order, i)]
           slots == UNION {{i} \X DOMAIN shares[i] : i \in DOMAIN Spread[c]}
<1>1. DOMAIN Spread[c] = {}
  OBVIOUS
<1>2. slots = {}
  BY <1>1
<1>3. \A d \in Difficulties : {s \in slots : shares[s[1]][s[2]] = d} = {}
  BY <1>2
<1>4. PlannedSlots(c, order) = [d \in Difficulties |-> Cardinality({s \in slots : shares[s[1]][s[2]] = d})]
  BY DEF PlannedSlots
<1> HIDE DEF slots, shares
<1> QED
  BY <1>3, <1>4, FS_EmptySet

-----------------------------------------------------------------------------
(* The plan of a course is what its template asks for.                     *)

\* A row of the page, and one that may be stored.
PageCounts(k) ==
    k \in CourseCounts /\ (k.auto => \A d \in Difficulties : k[d] = AutoDistribute(k.qty)[d])
StoredCounts(k) == PageCounts(k) /\ (k.qty > 0 => SumDifficulty(k) = k.qty)

NoSlots == [EASY |-> 0, MEDIUM |-> 0, HARD |-> 0]
SlotsAsAsked(asked, slots) ==
    slots # NoSlots =>
        /\ SumDifficulty(slots) = asked.qty
        /\ (asked.auto \/ \A d \in Difficulties : asked[d] > 0)
              => \A d \in Difficulties : slots[d] = asked[d]

AttemptAsConfigured(t) ==
    /\ t.slots = [c \in TemplateCourses |-> t.slots[c]]
    /\ \A c \in TemplateCourses : StoredCounts(t.asked[c]) /\ SlotsAsAsked(t.asked[c], t.slots[c])
    /\ t.stage = "new" => \A c \in TemplateCourses : t.slots[c] = NoSlots

ConfiguredIInv ==
    /\ grid = [c \in TemplateCourses |-> grid[c]]
    /\ stored = [c \in TemplateCourses |-> stored[c]]
    /\ \A c \in TemplateCourses : PageCounts(grid[c]) /\ StoredCounts(stored[c])
    /\ \A r \in Attempts : AttemptAsConfigured(attempt[r])

\* The defaults change nothing of counts that are all positive or that the page distributed.
LEMMA LevelsAsAsked ==
    ASSUME NEW k, StoredCounts(k), k.qty > 0
    PROVE  LET need == LevelCounts(k) IN
           /\ need.EASY \in Int /\ need.MEDIUM \in Int /\ need.HARD \in Int
           /\ need.EASY + need.MEDIUM + need.HARD = k.qty
           /\ (k.auto \/ \A d \in Difficulties : k[d] > 0)
                 => \A d \in Difficulties : need[d] = k[d]
<1> DEFINE easy   == Or(k.EASY, (k.qty * 2) \div 5)
           medium == Or(k.MEDIUM, (k.qty * 2) \div 5)
           hard   == Or(k.HARD, k.qty \div 5)
           need   == [EASY |-> easy, MEDIUM |-> medium,
                      HARD |-> hard + (k.qty - (easy + medium + hard))]
<1>1. k.qty \in Nat \ {0} /\ k.EASY \in Int /\ k.MEDIUM \in Int /\ k.HARD \in Int
  BY DEF StoredCounts, PageCounts, CourseCounts
<1>2. k.EASY + k.MEDIUM + k.HARD = k.qty
  BY DEF StoredCounts, SumDifficulty
<1>3. LevelCounts(k) = need
  BY <1>1 DEF LevelCounts, Or
<1>4. (k.qty * 2) \div 5 \in Int /\ k.qty \div 5 \in Int
  BY <1>1
<1>5. easy \in Int /\ medium \in Int /\ hard \in Int
  BY <1>1, <1>4 DEF Or
<1>6. need.EASY = easy /\ need.MEDIUM = medium /\ need.HARD = hard + (k.qty - (easy + medium + hard))
  OBVIOUS
<1>7. ASSUME easy = k.EASY, medium = k.MEDIUM PROVE \A d \in Difficulties : need[d] = k[d]
  <2>1. need.HARD = k.HARD
    <3> HIDE DEF need, easy, medium, hard
    <3> QED
      BY <1>1, <1>2, <1>5, <1>6, <1>7
  <2> HIDE DEF need
  <2> QED
    BY <1>6, <1>7, <2>1 DEF Difficulties
<1>8. ASSUME \A d \in Difficulties : k[d] > 0 PROVE easy = k.EASY /\ medium = k.MEDIUM
  <2>1. k.EASY > 0 /\ k.MEDIUM > 0
    BY <1>8 DEF Difficulties
  <2> QED
    BY <1>1, <2>1 DEF Or
<1>9. ASSUME k.auto PROVE easy = k.EASY /\ medium = k.MEDIUM
  <2>1. /\ k.EASY = k.qty \div 3 + (IF k.qty % 3 >= 1 THEN 1 ELSE 0)
        /\ k.MEDIUM = k.qty \div 3 + (IF k.qty % 3 >= 2 THEN 1 ELSE 0)
    BY <1>9 DEF StoredCounts, PageCounts, AutoDistribute, Difficulties
  <2>2. k.EASY # 0
    BY <1>1, <2>1
  <2>3. k.MEDIUM # 0 \/ k.qty = 1
    BY <1>1, <2>1
  <2>4. k.MEDIUM = 0 => (k.qty * 2) \div 5 = 0
    BY <2>3
  <2> QED
    BY <1>1, <2>2, <2>4 DEF Or
<1> HIDE DEF need, easy, medium, hard
<1>10. need.EASY \in Int /\ need.MEDIUM \in Int /\ need.HARD \in Int
       /\ need.EASY + need.MEDIUM + need.HARD = k.qty
  BY <1>1, <1>5, <1>6
<1> QED
  BY <1>3, <1>7, <1>8, <1>9, <1>10

\* What buildReviewPlan makes of a stored course.
LEMMA PlannedAsAsked ==
    ASSUME NEW c \in TemplateCourses, NEW k, StoredCounts(k), k.qty > 0,
           NEW order \in LevelOrders(LevelCounts(k))
    PROVE  SlotsAsAsked(k, PlannedSlots(c, order))
<1> DEFINE need == LevelCounts(k)
<1>1. /\ need.EASY \in Int /\ need.MEDIUM \in Int /\ need.HARD \in Int
      /\ need.EASY + need.MEDIUM + need.HARD = k.qty
      /\ (k.auto \/ \A d \in Difficulties : k[d] > 0)
            => \A d \in Difficulties : need[d] = k[d]
  BY LevelsAsAsked
<1> HIDE DEF need
<1>2. /\ order \in Seq(Difficulties)
      /\ \A d \in Difficulties : Cardinality({i \in 1 .. Len(order) : order[i] = d}) = need[d]
  <2>1. order \in LevelOrders(need)
    BY DEF need
  <2> QED
    BY <1>1, <2>1, OrderOfLevels
<1>3. Spread[c] \in Seq(DOMAIN Bank) /\ Len(Spread[c]) \in Nat
  BY StoredAssumption
<1>4. CASE Len(Spread[c]) = 0
  <2>1. PlannedSlots(c, order) = [d \in Difficulties |-> 0]
    BY <1>3, <1>4, NoSubtopicsNoSlots
  <2>2. NoSlots = [d \in Difficulties |-> 0]
    BY DEF NoSlots, Difficulties
  <2> QED
    BY <2>1, <2>2 DEF SlotsAsAsked
<1>5. CASE Len(Spread[c]) # 0
  <2>1. \A d \in Difficulties : PlannedSlots(c, order)[d] = need[d]
    <3>1. Len(Spread[c]) \in Nat \ {0}
      BY <1>3, <1>5
    <3> SUFFICES ASSUME NEW d \in Difficulties PROVE PlannedSlots(c, order)[d] = need[d]
      OBVIOUS
    <3>2. PlannedSlots(c, order)[d] = Cardinality({i \in 1 .. Len(order) : order[i] = d})
      BY <1>2, <3>1, SlotsOfLevel
    <3> QED
      BY <1>2, <3>2
  <2>2. SumDifficulty(PlannedSlots(c, order)) = k.qty
    BY <1>1, <2>1 DEF SumDifficulty, Difficulties
  <2> QED
    BY <1>1, <2>1, <2>2 DEF SlotsAsAsked
<1> QED
  BY <1>4, <1>5

\* The page: whatever is typed, a row that calls itself distributed is.
LEMMA DistributedRow ==
    ASSUME NEW n \in Nat
    PROVE  PageCounts(AutoDistribute(n)) /\ AutoDistribute(n).qty = n
<1>1. n \div 3 \in Nat
  OBVIOUS
<1>2. AutoDistribute(n) \in CourseCounts /\ AutoDistribute(n).qty = n
  BY <1>1 DEF AutoDistribute, CourseCounts
<1> QED
  BY <1>2 DEF PageCounts

LEMMA EmptyRow == StoredCounts(NoCounts) /\ NoCounts.qty = 0
<1> QED
  BY DEF StoredCounts, PageCounts, NoCounts, CourseCounts

LEMMA ClampedRow ==
    ASSUME NEW k, PageCounts(k), NEW level \in Difficulties, NEW n \in Nat
    PROVE  PageCounts(ClampDifficulty(k, level, n))
<1> DEFINE Fix(m) == [[k EXCEPT !.auto = FALSE] EXCEPT ![level] = m]
           typed == [k EXCEPT ![level] = n, !.auto = FALSE]
           over == SumDifficulty(typed) - typed.qty
<1>1. k \in CourseCounts
  BY DEF PageCounts
<1>2. ASSUME NEW j \in CourseCounts, NEW m \in Int
      PROVE  [j EXCEPT ![level] = m] \in CourseCounts /\ [j EXCEPT ![level] = m].auto = j.auto
  BY DEF CourseCounts, Difficulties
<1>3. typed \in CourseCounts /\ ~typed.auto
  <2> DEFINE first == [k EXCEPT ![level] = n]
  <2>1. first \in CourseCounts
    BY <1>1, <1>2
  <2>2. typed = [first EXCEPT !.auto = FALSE]
    OBVIOUS
  <2> HIDE DEF first, typed
  <2> QED
    BY <2>1, <2>2 DEF CourseCounts
<1>4. over \in Int
  <2>1. typed.qty \in Nat /\ typed.EASY \in Int /\ typed.MEDIUM \in Int /\ typed.HARD \in Int
    <3> HIDE DEF typed
    <3> QED
      BY <1>3 DEF CourseCounts
  <2> HIDE DEF typed
  <2> QED
    BY <2>1 DEF SumDifficulty
<1>5. ClampDifficulty(k, level, n) =
        IF over <= 0 THEN typed ELSE [typed EXCEPT ![level] = IF n > over THEN n - over ELSE 0]
  BY DEF ClampDifficulty
<1> DEFINE m == IF n > over THEN n - over ELSE 0
<1> HIDE DEF typed, over
<1>6. m \in Int
  BY <1>4
<1>7. [typed EXCEPT ![level] = m] \in CourseCounts /\ [typed EXCEPT ![level] = m].auto = typed.auto
  BY <1>2, <1>3, <1>6
<1> QED
  BY <1>3, <1>5, <1>7 DEF PageCounts

\* A step of one generation, and a step of the page.
LEMMA GenerationStep ==
    ASSUME QuestionIInv, ConfiguredIInv, NEW r \in Attempts, NEW next,
           attempt' = [attempt EXCEPT ![r] = next], AttemptAsConfigured(next),
           UNCHANGED <<grid, stored>>
    PROVE  ConfiguredIInv'
<1>1. \A o \in Attempts : attempt'[o] = IF o = r THEN next ELSE attempt[o]
  BY DEF QuestionIInv
<1>2. \A o \in Attempts : AttemptAsConfigured(attempt'[o])
  BY <1>1 DEF ConfiguredIInv
<1>3. \A o \in Attempts : AttemptAsConfigured(attempt[o])'
  BY <1>2 DEF AttemptAsConfigured
<1> QED
  BY <1>3 DEF ConfiguredIInv, PageCounts, StoredCounts

LEMMA PageRowStep ==
    ASSUME ConfiguredIInv, NEW g, EditGrid(g), g = [c \in TemplateCourses |-> g[c]],
           \A c \in TemplateCourses : PageCounts(g[c])
    PROVE  ConfiguredIInv'
<1>1. grid' = g /\ stored' = stored /\ attempt' = attempt
  BY DEF EditGrid
<1>2. \A o \in Attempts : AttemptAsConfigured(attempt[o])'
  BY <1>1 DEF ConfiguredIInv, AttemptAsConfigured
<1> QED
  BY <1>1, <1>2 DEF ConfiguredIInv, PageCounts, StoredCounts

LEMMA CellStep ==
    ASSUME ConfiguredIInv, NEW c \in TemplateCourses, NEW k, PageCounts(k),
           EditGrid([grid EXCEPT ![c] = k])
    PROVE  ConfiguredIInv'
<1> DEFINE g == [grid EXCEPT ![c] = k]
<1>1. \A d \in TemplateCourses : g[d] = IF d = c THEN k ELSE grid[d]
  BY DEF ConfiguredIInv
<1>2. g = [d \in TemplateCourses |-> g[d]]
  BY DEF ConfiguredIInv
<1>3. EditGrid(g)
  OBVIOUS
<1> HIDE DEF g
<1>4. \A d \in TemplateCourses : PageCounts(g[d])
  BY <1>1 DEF ConfiguredIInv
<1> QED
  BY <1>2, <1>3, <1>4, PageRowStep

LEMMA PageInv ==
    ASSUME ConfiguredIInv,
           \/ OpenTemplate
           \/ \E c \in TemplateCourses :
                 \/ AddCourse(c) \/ RemoveCourse(c) \/ Increment(c) \/ Decrement(c)
                 \/ TypeQuantity(c) \/ TypeDifficulty(c)
    PROVE  ConfiguredIInv'
<1>1. \A c \in TemplateCourses : PageCounts(grid[c]) /\ grid[c].qty \in Nat /\ PageCounts(stored[c])
  BY DEF ConfiguredIInv, StoredCounts, PageCounts, CourseCounts
<1>2. PageCounts(NoCounts)
  BY EmptyRow DEF StoredCounts
<1>3. \A n \in Nat : PageCounts(AutoDistribute(n))
  BY DistributedRow
<1>4. CASE OpenTemplate
  <2> DEFINE g == [c \in TemplateCourses |-> IF c \in visible THEN stored[c] ELSE NoCounts]
  <2>1. g = [c \in TemplateCourses |-> g[c]] /\ \A c \in TemplateCourses : PageCounts(g[c])
    BY <1>1, <1>2
  <2>2. EditGrid(g)
    BY <1>4 DEF OpenTemplate
  <2> HIDE DEF g
  <2> QED
    BY <2>1, <2>2, PageRowStep
<1>5. ASSUME NEW c \in TemplateCourses, AddCourse(c) PROVE ConfiguredIInv'
  BY <1>3, <1>5, CellStep DEF AddCourse
<1>6. ASSUME NEW c \in TemplateCourses, RemoveCourse(c) PROVE ConfiguredIInv'
  BY <1>2, <1>6, CellStep DEF RemoveCourse
<1>7. ASSUME NEW c \in TemplateCourses, Increment(c) \/ Decrement(c) PROVE ConfiguredIInv'
  <2>1. PICK n \in Nat : EditGrid([grid EXCEPT ![c] = AutoDistribute(n)])
    <3>1. CASE Increment(c)
      <4>1. grid[c].qty + 1 \in Nat /\ EditGrid([grid EXCEPT ![c] = AutoDistribute(grid[c].qty + 1)])
        BY <1>1, <3>1 DEF Increment
      <4> QED
        BY <4>1
    <3>2. CASE Decrement(c)
      <4>1. grid[c].qty - 1 \in Nat /\ EditGrid([grid EXCEPT ![c] = AutoDistribute(grid[c].qty - 1)])
        BY <1>1, <3>2 DEF Decrement
      <4> QED
        BY <4>1
    <3> QED
      BY <1>7, <3>1, <3>2
  <2> QED
    BY <1>3, <2>1, CellStep
<1>8. ASSUME NEW c \in TemplateCourses, TypeQuantity(c) PROVE ConfiguredIInv'
  <2>1. PICK n \in 1 .. MaxQty : EditGrid([grid EXCEPT ![c] = AutoDistribute(n)])
    BY <1>8 DEF TypeQuantity
  <2>2. n \in Nat
    BY QuestionAssumption
  <2> QED
    BY <1>3, <2>1, <2>2, CellStep
<1>9. ASSUME NEW c \in TemplateCourses, TypeDifficulty(c) PROVE ConfiguredIInv'
  <2>1. PICK level \in Difficulties, n \in 0 .. MaxQty :
           EditGrid([grid EXCEPT ![c] = ClampDifficulty(grid[c], level, n)])
    BY <1>9 DEF TypeDifficulty
  <2>2. PageCounts(ClampDifficulty(grid[c], level, n))
    BY <1>1, QuestionAssumption, ClampedRow
  <2> QED
    BY <2>1, <2>2, CellStep
<1> QED
  BY <1>4, <1>5, <1>6, <1>7, <1>8, <1>9

\* What is saved adds up: isFormValid refuses the rest.
LEMMA SaveInv ==
    ASSUME ConfiguredIInv, SaveTemplate
    PROVE  ConfiguredIInv'
<1>1. stored' = grid /\ grid' = grid /\ attempt' = attempt /\ IsFormValid
  BY DEF SaveTemplate
<1>2. \A c \in TemplateCourses : StoredCounts(grid[c])
  BY <1>1 DEF ConfiguredIInv, StoredCounts, IsFormValid, Active
<1>3. \A o \in Attempts : AttemptAsConfigured(attempt[o])'
  BY <1>1 DEF ConfiguredIInv, AttemptAsConfigured
<1>4. \A c \in TemplateCourses : PageCounts(grid[c])' /\ StoredCounts(stored[c])'
  BY <1>1, <1>2 DEF StoredCounts, PageCounts
<1> QED
  BY <1>1, <1>3, <1>4 DEF ConfiguredIInv

\* A generation asks for what is stored, or for nothing of a course it leaves out.
LEMMA AskInv ==
    ASSUME QuestionIInv, ConfiguredIInv, NEW r \in Attempts, ReadInputs(r)
    PROVE  ConfiguredIInv'
<1> DEFINE t == attempt[r]
<1>0. AttemptShape(t) /\ AttemptAsConfigured(t) /\ t.stage = "new" /\ UNCHANGED <<grid, stored>>
  BY DEF ReadInputs, QuestionIInv, EveryAttempt, ConfiguredIInv
<1>1. \A c \in TemplateCourses : t.slots[c] = NoSlots
  BY <1>0 DEF AttemptAsConfigured
<1>2. CASE attempt' = [attempt EXCEPT ![r].stage = "refused"]
  <2> DEFINE next == [t EXCEPT !.stage = "refused"]
  <2>1. next = Fields("refused", t.week, t.asked, t.excluded, t.seen, t.paper, t.slots)
    <3> HIDE DEF t
    <3> QED
      BY <1>0, StageRecord
  <2>2. attempt' = [attempt EXCEPT ![r] = next]
    BY <1>2
  <2> HIDE DEF next
  <2>3. AttemptAsConfigured(next)
    BY <1>0, <2>1 DEF AttemptAsConfigured, Fields
  <2> QED
    BY <1>0, <2>2, <2>3, GenerationStep
<1>3. ASSUME NEW w, NEW asked, \A c \in TemplateCourses : StoredCounts(asked[c]),
             attempt' = [attempt EXCEPT
                ![r].stage = "read", ![r].week = w, ![r].asked = asked,
                ![r].excluded = [c \in TemplateCourses |-> UsedInCycle(w, c)],
                ![r].seen = InLedger]
      PROVE  ConfiguredIInv'
  <2> DEFINE excluded == [c \in TemplateCourses |-> UsedInCycle(w, c)]
             seen == InLedger
             next == Fields("read", w, asked, excluded, seen, t.paper, t.slots)
  <2>1. attempt' = [attempt EXCEPT ![r] = next]
    <3> HIDE DEF excluded, seen
    <3> DEFINE changed == [t EXCEPT !.stage = "read", !.week = w, !.asked = asked,
                                    !.excluded = excluded, !.seen = seen]
    <3>2. attempt' = [attempt EXCEPT ![r] = changed]
      <4>1. DOMAIN attempt = Attempts
        BY DEF QuestionIInv
      <4> HIDE DEF next
      <4> QED
        BY <1>3, <4>1 DEF excluded, seen
    <3>3. changed = next
      <4>1. AttemptShape(t)
        BY <1>0
      <4> HIDE DEF t
      <4>2. ASSUME NEW e, NEW s
            PROVE  [t EXCEPT !.stage = "read", !.week = w, !.asked = asked, !.excluded = e, !.seen = s]
                     = Fields("read", w, asked, e, s, t.paper, t.slots)
        BY <4>1, ReadRecord
      <4> QED
        BY <4>2
    <3> QED
      BY <3>2, <3>3
  <2> HIDE DEF seen, excluded, t
  <2>2. next.slots = t.slots /\ next.asked = asked /\ next.stage = "read"
    BY DEF Fields
  <2> HIDE DEF next
  <2>3. t.slots = [c \in TemplateCourses |-> t.slots[c]]
    BY <1>0 DEF AttemptAsConfigured
  <2>4. \A c \in TemplateCourses : SlotsAsAsked(asked[c], t.slots[c])
    BY <1>1 DEF SlotsAsAsked
  <2>5. AttemptAsConfigured(next)
    BY <1>3, <2>2, <2>3, <2>4 DEF AttemptAsConfigured
  <2> QED
    BY <1>0, <2>1, <2>5, GenerationStep
<1>4. PICK w \in Weeks, chosen \in SUBSET Active(stored) :
         \/ attempt' = [attempt EXCEPT ![r].stage = "refused"]
         \/ attempt' = [attempt EXCEPT
                ![r].stage = "read", ![r].week = w,
                ![r].asked = [c \in TemplateCourses |->
                                IF c \in chosen THEN stored[c] ELSE NoCounts],
                ![r].excluded = [c \in TemplateCourses |-> UsedInCycle(w, c)],
                ![r].seen = InLedger]
  <2> HIDE DEF t
  <2> QED
    BY DEF ReadInputs
<1> DEFINE asked == [c \in TemplateCourses |-> IF c \in chosen THEN stored[c] ELSE NoCounts]
<1>5. \A c \in TemplateCourses : StoredCounts(asked[c])
  BY EmptyRow DEF ConfiguredIInv
<1>6. CASE attempt' = [attempt EXCEPT
                ![r].stage = "read", ![r].week = w, ![r].asked = asked,
                ![r].excluded = [c \in TemplateCourses |-> UsedInCycle(w, c)],
                ![r].seen = InLedger]
  <2> HIDE DEF asked
  <2> QED
    BY <1>3, <1>5, <1>6
<1> QED
  BY <1>2, <1>4, <1>6

LEMMA PlanSlotsInv ==
    ASSUME QuestionIInv, ConfiguredIInv, NEW r \in Attempts, NEW c \in TemplateCourses, PlanCourse(r, c)
    PROVE  ConfiguredIInv'
<1> DEFINE t == attempt[r]
<1>1. AttemptShape(t) /\ AttemptAsConfigured(t) /\ t.stage = "read" /\ t.asked[c].qty > 0
      /\ UNCHANGED <<grid, stored>>
  BY DEF PlanCourse, QuestionIInv, EveryAttempt, ConfiguredIInv
<1>2. PICK order \in LevelOrders(LevelCounts(t.asked[c])) :
      \E qs \in PlannedSets(c, order, t.excluded[c]) :
         attempt' = [attempt EXCEPT ![r].paper[c] = qs, ![r].slots[c] = PlannedSlots(c, order)]
  BY DEF PlanCourse
<1>3. PICK qs \in PlannedSets(c, order, t.excluded[c]) :
         attempt' = [attempt EXCEPT ![r].paper[c] = qs, ![r].slots[c] = PlannedSlots(c, order)]
  BY <1>2
<1>4. SlotsAsAsked(t.asked[c], PlannedSlots(c, order))
  <2>1. StoredCounts(t.asked[c])
    BY <1>1 DEF AttemptAsConfigured
  <2> HIDE DEF t
  <2> QED
    BY <1>1, <2>1, PlannedAsAsked
<1> DEFINE mine == PlannedSlots(c, order)
           papers == [t.paper EXCEPT ![c] = qs]
           shares == [t.slots EXCEPT ![c] = mine]
           next == [t EXCEPT !.paper = papers, !.slots = shares]
<1>5. attempt' = [attempt EXCEPT ![r] = next]
  <2>1. DOMAIN attempt = Attempts
    BY DEF QuestionIInv
  <2> QED
    BY <1>3, <2>1
<1> HIDE DEF mine
<1>6. t.slots = [d \in TemplateCourses |-> t.slots[d]]
  BY <1>1 DEF AttemptAsConfigured
<1>7. shares = [d \in TemplateCourses |-> IF d = c THEN mine ELSE t.slots[d]]
  BY <1>6
<1>8. next = Fields(t.stage, t.week, t.asked, t.excluded, t.seen, papers, shares)
  <2> HIDE DEF t, papers, shares
  <2> QED
    BY <1>1, PlanRecord
<1> HIDE DEF next, papers, shares
<1>9. next.stage = "read" /\ next.asked = t.asked /\ next.slots = shares
  BY <1>1, <1>8 DEF Fields
<1>10. \A d \in TemplateCourses : StoredCounts(t.asked[d]) /\ SlotsAsAsked(t.asked[d], t.slots[d])
  BY <1>1 DEF AttemptAsConfigured
<1>11. SlotsAsAsked(t.asked[c], mine)
  BY <1>4 DEF mine
<1> HIDE DEF t
<1>12. \A d \in TemplateCourses : SlotsAsAsked(t.asked[d], shares[d])
  BY <1>7, <1>10, <1>11
<1>13. AttemptAsConfigured(next)
  BY <1>7, <1>9, <1>10, <1>12 DEF AttemptAsConfigured
<1> QED
  BY <1>1, <1>5, <1>13, GenerationStep

\* Writing, printing and reporting leave the slots alone.
LEMMA LaterInv ==
    ASSUME QuestionIInv, ConfiguredIInv, NEW r \in Attempts,
           WriteAttempt(r) \/ LoadCourseQuestions(r) \/ RecordUsage(r)
    PROVE  ConfiguredIInv'
<1> DEFINE t == attempt[r]
<1>1. AttemptShape(t) /\ AttemptAsConfigured(t) /\ UNCHANGED <<grid, stored>>
  BY DEF WriteAttempt, LoadCourseQuestions, RecordUsage, QuestionIInv, EveryAttempt, ConfiguredIInv
<1>2. ASSUME NEW stage, stage # "new", NEW papers, NEW next,
             next = Fields(stage, t.week, t.asked, t.excluded, t.seen, papers, t.slots),
             attempt' = [attempt EXCEPT ![r] = next]
      PROVE  ConfiguredIInv'
  <2>1. next.stage # "new" /\ next.asked = t.asked /\ next.slots = t.slots
    BY <1>2 DEF Fields
  <2>2. AttemptAsConfigured(next)
    BY <1>1, <2>1 DEF AttemptAsConfigured
  <2> QED
    BY <1>1, <1>2, <2>2, GenerationStep
<1>3. CASE WriteAttempt(r)
  <2> DEFINE next == [t EXCEPT !.stage = "written"]
  <2>1. attempt' = [attempt EXCEPT ![r] = next]
    BY <1>3 DEF WriteAttempt
  <2>2. next = Fields("written", t.week, t.asked, t.excluded, t.seen, t.paper, t.slots)
    <3> HIDE DEF t
    <3> QED
      BY <1>1, StageRecord
  <2> HIDE DEF next, t
  <2> QED
    BY <1>2, <2>1, <2>2
<1>4. CASE RecordUsage(r)
  <2> DEFINE next == [t EXCEPT !.stage = "reported"]
  <2>1. attempt' = [attempt EXCEPT ![r] = next]
    BY <1>4 DEF RecordUsage
  <2>2. next = Fields("reported", t.week, t.asked, t.excluded, t.seen, t.paper, t.slots)
    <3> HIDE DEF t
    <3> QED
      BY <1>1, StageRecord
  <2> HIDE DEF next, t
  <2> QED
    BY <1>2, <2>1, <2>2
<1>5. CASE LoadCourseQuestions(r)
  <2>0. PICK papers \in OneOfEach([c \in TemplateCourses |-> Papers(r, c)]) :
           attempt' = [attempt EXCEPT ![r].stage = "printed", ![r].paper = papers]
    BY <1>5 DEF LoadCourseQuestions
  <2> DEFINE next == [t EXCEPT !.stage = "printed", !.paper = papers]
  <2>1. attempt' = [attempt EXCEPT ![r] = next]
    <3>1. DOMAIN attempt = Attempts
      BY DEF QuestionIInv
    <3> QED
      BY <2>0, <3>1
  <2>2. next = Fields("printed", t.week, t.asked, t.excluded, t.seen, papers, t.slots)
    <3> HIDE DEF t
    <3> QED
      BY <1>1, StageRecord
  <2> HIDE DEF next, t
  <2> QED
    BY <1>2, <2>1, <2>2
<1> QED
  BY <1>3, <1>4, <1>5

LEMMA ConfiguredInitially == QuestionInit => ConfiguredIInv
<1> SUFFICES ASSUME QuestionInit PROVE ConfiguredIInv
  OBVIOUS
<1>1. stored \in FirstTemplates /\ grid = stored /\ attempt = [r \in Attempts |-> NewAttempt]
  BY DEF QuestionInit
<1>2. stored \in [TemplateCourses -> CourseCounts]
  BY <1>1, QuestionAssumption
<1>3. ASSUME NEW c \in TemplateCourses PROVE StoredCounts(stored[c])
  <2>1. stored[c] \in CourseCounts
    BY <1>2
  <2>2. stored[c].qty > 0 => SumDifficulty(stored[c]) = stored[c].qty
    BY <1>1, StoredAssumption DEF Active
  <2>3. stored[c].auto => stored[c] = AutoDistribute(stored[c].qty)
    BY <1>1, StoredAssumption
  <2> QED
    BY <2>1, <2>2, <2>3 DEF StoredCounts, PageCounts
<1>4. AttemptAsConfigured(NewAttempt)
  <2>1. /\ NewAttempt.slots = [c \in TemplateCourses |-> NoSlots]
        /\ NewAttempt.asked = [c \in TemplateCourses |-> NoCounts]
    BY DEF NewAttempt, NoSlots
  <2> QED
    BY <2>1, EmptyRow DEF AttemptAsConfigured, SlotsAsAsked
<1> QED
  BY <1>1, <1>2, <1>3, <1>4 DEF ConfiguredIInv, StoredCounts

LEMMA ConfiguredStep ==
    QuestionIInv /\ ConfiguredIInv /\ [QuestionNext]_questionVars => ConfiguredIInv'
<1> SUFFICES ASSUME QuestionIInv, ConfiguredIInv, [QuestionNext]_questionVars PROVE ConfiguredIInv'
  OBVIOUS
<1>1. ASSUME UNCHANGED <<grid, stored, attempt>> PROVE ConfiguredIInv'
  <2>1. \A o \in Attempts : AttemptAsConfigured(attempt[o])'
    BY <1>1 DEF ConfiguredIInv, AttemptAsConfigured
  <2> QED
    BY <1>1, <2>1 DEF ConfiguredIInv, PageCounts, StoredCounts
<1>2. CASE \/ OpenTemplate
           \/ \E c \in TemplateCourses :
                 \/ AddCourse(c) \/ RemoveCourse(c) \/ Increment(c) \/ Decrement(c)
                 \/ TypeQuantity(c) \/ TypeDifficulty(c)
  BY <1>2, PageInv
<1>3. CASE SaveTemplate
  BY <1>3, SaveInv
<1>4. CASE \E c \in TemplateCourses : CatalogChanges(c)
  BY <1>1, <1>4 DEF CatalogChanges
<1>5. ASSUME NEW r \in Attempts,
             \/ ReadInputs(r) \/ WriteAttempt(r) \/ LoadCourseQuestions(r) \/ RecordUsage(r)
             \/ \E c \in TemplateCourses : PlanCourse(r, c)
      PROVE  ConfiguredIInv'
  BY <1>5, AskInv, LaterInv, PlanSlotsInv
<1>6. CASE UNCHANGED questionVars
  BY <1>1, <1>6 DEF questionVars
<1> QED
  BY <1>2, <1>3, <1>4, <1>5, <1>6 DEF QuestionNext

\* Every reachable state satisfies the invariant, for any courses, subtopics and banks.
THEOREM ConfiguredInvariant == QuestionSpec => []ConfiguredIInv
<1> QED
  BY ConfiguredInitially, ConfiguredStep, QuestionsInvariant, PTL DEF QuestionSpec

\* A planned course has as many slots as its template asked for, and, when the page
\* distributed its counts or they are all positive, as many of each difficulty: neither
\* the defaults of generate-material nor the split over the subtopics change them.
THEOREM PlansAreAsConfigured == QuestionSpec => []PlanAsConfigured
<1>1. ConfiguredIInv => PlanAsConfigured
  <2> SUFFICES ASSUME ConfiguredIInv, NEW r \in Attempts, NEW c \in TemplateCourses
               PROVE  SlotsAsAsked(attempt[r].asked[c], attempt[r].slots[c])
    BY DEF PlanAsConfigured, SlotsAsAsked, NewAttempt, NoSlots
  <2> QED
    BY DEF ConfiguredIInv, AttemptAsConfigured
<1> QED
  BY <1>1, ConfiguredInvariant, PTL
=============================================================================
