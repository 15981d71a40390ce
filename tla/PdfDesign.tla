----------------------------- MODULE PdfDesign -----------------------------
(***************************************************************************)
(* The design templates of the generated PDFs: the service that stores     *)
(* them with their images, and the form that creates and edits them.       *)
(*                                                                         *)
(* Every service call runs in one READ COMMITTED transaction that reads    *)
(* the row, does its work (clears the other defaults, moves S3 objects)    *)
(* and saves the entity it read as a whole, so a call has three steps and  *)
(* another call may run in between.  Nothing outside the database is       *)
(* undone when a call fails.                                               *)
(*                                                                         *)
(* A design keeps: `look', all the fields the form loads; `size', the two  *)
(* fields it does not load (font size, text colour); `slot', a header or   *)
(* footer zone holding text, an inline image or the URL of an uploaded     *)
(* one; `banner', which stands for the three images.                       *)
(***************************************************************************)
EXTENDS Naturals, Sequences, FiniteSets

CONSTANTS Designers,     \* people at the design panel
          Designs,       \* design ids
          FirstDesigns,  \* the rows at the start
          MaxClicks      \* bound on what the designers do

VARIABLES designs,    \* the table pdf_design_templates
          assets,     \* S3 objects <<design, kind>>
          used,       \* designs some material request refers to
          minted,     \* ids ever given to a row
          panel,      \* the form of each designer
          call,       \* the service call of each designer
          disturbed,  \* two calls overlapped, or one failed
          clicks

designVars == <<designs, assets, used, minted, panel, call, disturbed, clicks>>

Looks   == {"std", "own"}
Exts    == {"png", "jpg"}
Banners == Exts \cup {"none"}

DesignRow == [look : Looks, size : Looks, slot : {"text", "data", "url"},
              isDefault : BOOLEAN, banner : Banners]

NoDesign == [look |-> "gone", size |-> "std", slot |-> "text",
             isDefault |-> FALSE, banner |-> "none"]

\* A table that satisfies the index idx_tenant_default.
ASSUME DesignAssumption ==
  /\ IsFiniteSet(Designs) /\ Designs # {}
  /\ FirstDesigns \in [Designs -> DesignRow \cup {NoDesign}]
  /\ \A d1, d2 \in Designs :
        FirstDesigns[d1].isDefault /\ FirstDesigns[d2].isDefault => d1 = d2
  /\ MaxClicks \in Nat

Stored(d) == designs[d] # NoDesign

Defaults == {d \in Designs : designs[d].isDefault}

-----------------------------------------------------------------------------
(* The form.  `look', `size', `slot' and `isDefault' are what it would      *)
(* send; `file' and `grid' the images picked and not yet uploaded; `basis'   *)
(* records, for the properties, the look at the time it was opened.         *)

BlankForm(view, d) ==
  [view |-> view, id |-> d, look |-> "std", size |-> "std", slot |-> "text",
   isDefault |-> FALSE, file |-> "none", grid |-> FALSE, touched |-> FALSE,
   basis |-> "gone", steps |-> << >>]

\* The panel's list; nobody is editing.
ListView(d) == BlankForm("list", d)

LoadFormLooks(d) ==
  [BlankForm("edit", d) EXCEPT !.slot = designs[d].slot, !.basis = designs[d].look,
                               !.isDefault = designs[d].isDefault]

\* onMounted copies the fields one by one and leaves out contentFontSize and
\* contentTextColor; a design that is gone leaves the defaults in the form.
LoadForm(d) ==
  IF Stored(d)
  THEN [BlankForm("edit", d) EXCEPT !.look = designs[d].look,
                                    !.basis = designs[d].look,
                                    !.slot = designs[d].slot,
                                    !.isDefault = designs[d].isDefault]
  ELSE BlankForm("edit", d)

\* What handleSubmit will send, in its order.
EditSteps(f) ==
  (IF f.grid /\ f.slot = "data" THEN << "grid" >> ELSE << >>)
    \o << "update" >>
    \o (IF f.file # "none" THEN << "upload" >> ELSE << >>)

CreateSteps(f) ==
  << "create" >>
    \o (IF f.grid THEN (IF f.slot = "data" THEN << "grid" >> ELSE << >>) \o << "update" >>
                  ELSE << >>)
    \o (IF f.file # "none" THEN << "upload" >> ELSE << >>)

-----------------------------------------------------------------------------
NoDesignCall == [op |-> "none", id |-> CHOOSE d \in Designs : TRUE, stage |-> "read",
           row |-> NoDesign, cleared |-> {}, locks |-> {}]

Busy(e) == call[e].op # "none"

Overlaps(e) == \E o \in Designers \ {e} : Busy(o)

DesignInit ==
  /\ designs = FirstDesigns
  /\ assets = {<<d, FirstDesigns[d].banner>> : d \in {x \in Designs : FirstDesigns[x].banner # "none"}}
               \cup {<<d, "grid">> : d \in {x \in Designs : FirstDesigns[x].slot = "url"}}
  /\ used = {}
  /\ minted = {d \in Designs : FirstDesigns[d] # NoDesign}
  /\ panel = [e \in Designers |-> ListView(CHOOSE d \in Designs : TRUE)]
  /\ call = [e \in Designers |-> NoDesignCall]
  /\ disturbed = FALSE
  /\ clicks = 0

DesignClick == clicks < MaxClicks /\ clicks' = clicks + 1

Idle(e) == panel[e].steps = << >> /\ ~Busy(e)

SetPanel(e, f) ==
  /\ panel' = [panel EXCEPT ![e] = f]
  /\ UNCHANGED <<designs, assets, used, minted, call, disturbed>>

OpenCreate(e) ==
  /\ panel[e].view = "list" /\ ~Busy(e) /\ DesignClick
  /\ SetPanel(e, BlankForm("new", panel[e].id))

\* The list is as old as its last fetch: any row that ever was may be on it.
OpenEdit(e) ==
  /\ panel[e].view = "list" /\ ~Busy(e) /\ DesignClick
  /\ \E d \in minted : SetPanel(e, LoadForm(d))

Cancel(e) ==
  /\ panel[e].view # "list" /\ Idle(e) /\ DesignClick
  /\ SetPanel(e, ListView(panel[e].id))

\* One of the inputs of the form that is bound to a loaded field, the font
\* size or text colour, the default box, the file pickers, a header zone.
InputFields(f) ==
  {[f EXCEPT !.look = v, !.touched = TRUE] : v \in Looks \ {f.look}}

TypographyFields(f) == {[f EXCEPT !.size = v] : v \in Looks \ {f.size}}

GeneralFields(f) == {[f EXCEPT !.isDefault = ~f.isDefault]}

FilePickers(f) == {[f EXCEPT !.file = x] : x \in Exts}

HeaderZones(f) ==
  {[f EXCEPT !.slot = "data", !.grid = TRUE],      \* onGridImageChange
   [f EXCEPT !.slot = "text", !.grid = FALSE]}     \* clearGridSlot

Fill(e) ==
  /\ panel[e].view # "list" /\ panel[e].steps = << >> /\ DesignClick
  /\ \E f \in InputFields(panel[e]) \cup TypographyFields(panel[e])
              \cup GeneralFields(panel[e]) \cup FilePickers(panel[e])
              \cup HeaderZones(panel[e]) :
        SetPanel(e, f)

HandleSubmit(e) ==
  /\ panel[e].view # "list" /\ Idle(e) /\ DesignClick
  /\ SetPanel(e, [panel[e] EXCEPT !.steps = IF panel[e].view = "edit"
                                            THEN EditSteps(panel[e])
                                            ELSE CreateSteps(panel[e])])

-----------------------------------------------------------------------------
(* The calls. *)

StartCall(e, op, d) ==
  /\ ~Busy(e)
  /\ call' = [call EXCEPT ![e] = [NoDesignCall EXCEPT !.op = op, !.id = d]]
  /\ disturbed' = (disturbed \/ Overlaps(e))
  /\ UNCHANGED <<designs, assets, used, minted>>

\* The next call of a submitted form; a new row gets a new id.
SendStep(e) ==
  /\ panel[e].steps # << >>
  /\ LET op == Head(panel[e].steps) IN
     IF op = "create"
     THEN \E d \in Designs \ minted :
            StartCall(e, op, d) /\ panel' = [panel EXCEPT ![e].id = d]
     ELSE StartCall(e, op, panel[e].id) /\ UNCHANGED panel
  /\ UNCHANGED clicks

RemoveImage(e) ==
  /\ panel[e].view = "edit" /\ Idle(e) /\ DesignClick
  /\ StartCall(e, "remove", panel[e].id)
  /\ UNCHANGED panel

ConfirmDelete(e) ==
  /\ panel[e].view = "list" /\ DesignClick
  /\ \E d \in minted : StartCall(e, "delete", d)
  /\ UNCHANGED panel

\* Any error ends the call, and with it the submission: the form stays as it
\* is, a new design's form still believing it has nothing stored.
DesignRefused(e) ==
  /\ call' = [call EXCEPT ![e] = NoDesignCall]
  /\ panel' = [panel EXCEPT ![e].steps = << >>]
  /\ UNCHANGED <<designs, assets, used, minted, clicks>>

\* findById, then for an update the guard on the only default.
ReadDesign(e) ==
  /\ Busy(e) /\ call[e].stage = "read"
  /\ LET c == call[e]
         onlyDefault == c.op = "update" /\ ~panel[e].isDefault
                        /\ designs[c.id].isDefault /\ Cardinality(Defaults) <= 1
     IN IF c.op # "create" /\ (~Stored(c.id) \/ onlyDefault)
        THEN DesignRefused(e) /\ UNCHANGED disturbed
        ELSE /\ call' = [call EXCEPT ![e].stage = "work", ![e].row = designs[c.id]]
             /\ UNCHANGED <<designs, assets, used, minted, panel, disturbed, clicks>>

\* unsetCurrentDefault is needed when the design becomes the default.
BecomesDefault(e) ==
  /\ call[e].op \in {"create", "update"}
  /\ panel[e].isDefault
  /\ call[e].op = "create" \/ ~call[e].row.isDefault

UnsetCurrentDefault(e) == IF BecomesDefault(e) THEN Defaults ELSE {}

LockedByOthers(e) == UNION {call[o].locks : o \in Designers \ {e}}

\* The S3 side of a call; the old extension of a replaced banner stays.
MovedAssets(e) ==
  LET c == call[e] IN
  CASE c.op = "upload" -> assets \cup {<<c.id, panel[e].file>>}
    [] c.op = "grid"   -> assets \cup {<<c.id, "grid">>}
    [] c.op \in {"remove", "delete"} -> assets \ ({c.id} \X Exts)
    [] OTHER -> assets

WorkDesign(e) ==
  /\ Busy(e) /\ call[e].stage = "work"
  /\ IF call[e].op = "delete" /\ call[e].id \in used
     THEN DesignRefused(e) /\ UNCHANGED disturbed
     ELSE LET cleared == UnsetCurrentDefault(e) IN
          /\ call' = [call EXCEPT ![e].stage = "save", ![e].cleared = cleared,
                                  ![e].locks = cleared \ LockedByOthers(e)]
          /\ assets' = MovedAssets(e)
          /\ UNCHANGED <<designs, used, minted, panel, disturbed, clicks>>

AssignedKeepsUrl(e) ==
  LET c == call[e]
      f == panel[e]
  IN CASE c.op \in {"create", "update"} ->
            [look |-> f.look, size |-> f.size, slot |-> f.slot,
             isDefault |-> f.isDefault, banner |-> c.row.banner]
       [] c.op = "upload" -> [c.row EXCEPT !.banner = f.file]
       [] c.op = "remove" -> c.row
       [] c.op = "delete" -> NoDesign

\* The entity as the call leaves it, built on what the call read.
Assigned(e) ==
  LET c == call[e]
      f == panel[e]
  IN CASE c.op \in {"create", "update"} ->
            [look |-> f.look, size |-> f.size, slot |-> f.slot,
             isDefault |-> f.isDefault, banner |-> c.row.banner]
       [] c.op = "upload" -> [c.row EXCEPT !.banner = f.file]
       [] c.op = "remove" -> [c.row EXCEPT !.banner = "none"]
       [] c.op = "delete" -> NoDesign

\* The form after a call: the image gone, the slot uploaded, or the rest of
\* the submission; the last step closes the form.
DesignAnswered(e) ==
  LET f == panel[e]
      op == call[e].op
  IN CASE op = "remove" -> [f EXCEPT !.file = "none"]
       [] op = "delete" -> f
       [] op = "grid" -> [f EXCEPT !.slot = "url", !.steps = Tail(f.steps)]
       [] op \in {"create", "update", "upload"} /\ Len(f.steps) = 1 -> ListView(f.id)
       [] OTHER -> [f EXCEPT !.steps = Tail(f.steps)]

NoIndex(rows) == TRUE

\* The partial unique index idx_tenant_default.
DefaultIndex(rows) == Cardinality({d \in Designs : rows[d].isDefault}) <= 1

\* The table after the save of a call; a row that was removed since the call
\* read it is inserted again.
TableAfter(e) ==
  LET c == call[e] IN
  [d \in Designs |->
     IF d = c.id /\ c.op # "grid" THEN Assigned(e)
     ELSE IF d \in c.cleared /\ Stored(d) THEN [designs[d] EXCEPT !.isDefault = FALSE]
     ELSE designs[d]]

\* save() waits for the row locks of a call that cleared defaults first, then
\* writes every column, unless the index refuses.
SaveDesign(e) ==
  /\ Busy(e) /\ call[e].stage = "save"
  /\ ({call[e].id} \cup call[e].cleared) \cap LockedByOthers(e) = {}
  /\ IF DefaultIndex(TableAfter(e))
     THEN /\ designs' = TableAfter(e)
          /\ minted' = minted \cup {call[e].id}
          /\ used' = IF call[e].op = "delete" THEN used \ {call[e].id} ELSE used
          /\ call' = [call EXCEPT ![e] = NoDesignCall]
          /\ panel' = [panel EXCEPT ![e] = DesignAnswered(e)]
          /\ UNCHANGED <<assets, disturbed, clicks>>
     ELSE DesignRefused(e) /\ disturbed' = TRUE

\* S3, the database or the connection fails in the middle of a call.
CallFails(e) ==
  /\ Busy(e) /\ call[e].stage # "read"
  /\ DesignRefused(e)
  /\ disturbed' = TRUE

\* A generation stores a design with its request.
UseDesign ==
  /\ DesignClick
  /\ \E d \in Designs : Stored(d) /\ used' = used \cup {d}
  /\ UNCHANGED <<designs, assets, minted, panel, call, disturbed>>

DesignNext ==
  \/ \E e \in Designers :
        \/ OpenCreate(e) \/ OpenEdit(e) \/ Cancel(e) \/ Fill(e) \/ HandleSubmit(e)
        \/ SendStep(e) \/ RemoveImage(e) \/ ConfirmDelete(e)
        \/ ReadDesign(e) \/ WorkDesign(e) \/ SaveDesign(e) \/ CallFails(e)
  \/ UseDesign

DesignSpec == DesignInit /\ [][DesignNext]_designVars

-----------------------------------------------------------------------------
\* At most one design is the default, whatever calls overlap; and the index is
\* only the last resort: as long as no two calls overlapped and none failed, it
\* never has to refuse a save, because create and update clear the others.
OneDefault ==
  /\ Cardinality(Defaults) <= 1
  /\ \A e \in Designers :
        (~disturbed /\ Busy(e) /\ call[e].stage = "save") => DefaultIndex(TableAfter(e))

\* As long as no two calls overlapped and none failed half-way, a stored
\* image URL has its S3 object once the calls on its design are over, also
\* after a replacement under another extension, a removal or a delete.
UrlHasObject ==
  ~disturbed => \A d \in Designs :
    (Stored(d) /\ \A e \in Designers : ~(Busy(e) /\ call[e].id = d)) =>
       (designs[d].banner # "none" => <<d, designs[d].banner>> \in assets)

\* An update whose row nobody changed since it was read, and since the form
\* was opened, leaves alone the loaded fields its designer did not touch, and
\* the banner.
UntouchedKept ==
  [][\A e \in Designers :
       LET d == call[e].id IN
       (/\ call[e].op = "update" /\ call[e].stage = "save"
        /\ ~panel[e].touched /\ panel[e].view = "edit"
        /\ call[e].row = designs[d] /\ panel[e].basis = designs[d].look
        /\ designs' # designs /\ call'[e].op = "none")
       => /\ designs'[d].look = designs[d].look
          /\ designs'[d].banner = designs[d].banner
    ]_designVars
=============================================================================
