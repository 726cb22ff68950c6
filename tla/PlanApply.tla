----------------------------- MODULE PlanApply -----------------------------
(***************************************************************************)
(* A YAML plan (internal/plan, cmd/plan.go) beside the writes an operator    *)
(* makes by hand: it is validated, previewed against the rows of the moment, *)
(* and applied step by step in the safe session of module SafeSession, which *)
(* journals its writes and may roll them back.  An apply stops at the first  *)
(* step that fails; the operator may then roll back, or apply it once more.  *)
(*                                                                          *)
(* All steps of a plan are about the menu of SafeSession, either             *)
(* /ip/firewall/filter, where a comment may name a row, or /ip/firewall/nat, *)
(* where it may not.  Nothing else runs while a plan is previewed or applied.*)
(***************************************************************************)
EXTENDS SafeSession

CONSTANTS
    Plans,      \* plan files: path and steps; without steps, no plan is used
    MaxApplies, \* bound on how often the plan is applied
    MaxByHand   \* bound on the writes by hand, and on the rollbacks, beside a plan

VARIABLES
    plan,       \* the plan file
    run,        \* what is done with it, and the step it is at
    shown,      \* what the last complete preview said, step by step
    seen,       \* history: the rows that preview was made from
    trail       \* history of the applies, see Init

planVars == <<vars, plan, run, shown, seen, trail>>

\* A step names its row by .id or by comment, and has words like a write by hand.
PlanStep ==
    [op : STRING, id : Nat \cup {None}, comment : Comments \cup {None},
     props : SetWords \cup {NoWords}]

\* A create without a field that every row has is refused: see ApplyFails.
ASSUME PlanAssumption ==
    /\ MaxApplies \in Nat /\ MaxByHand \in Nat
    /\ None \notin Comments
    /\ Plans \subseteq [path : {"filter", "nat"}, steps : Seq(PlanStep)]
    /\ \A p \in Plans : \A n \in DOMAIN p.steps :
          p.steps[n].op = "create" => p.steps[n].props \in NewWords \cup {NoWords}

-----------------------------------------------------------------------------
(* Validation. *)

Ops == {"create", "set", "delete", "enable", "disable"}

\* validateStep.
Valid(step) ==
    LET targets == {step.id, step.comment} \ {None}
    IN /\ step.op \in Ops
       /\ Cardinality(targets) <= 1
       /\ CASE step.op = "create" -> step.props # NoWords /\ targets = {}
            [] step.op = "set" -> step.props # NoWords
            [] OTHER -> step.props = NoWords /\ targets # {}

HasDeletes == \E n \in DOMAIN plan.steps : plan.steps[n].op = "delete"

This == plan.steps[run.at]

Busy == run.st \in {"previewing", "applying"}

\* Previews and applies load and validate the file each time.
Begin(st) ==
    /\ ~Busy /\ plan.steps # <<>>
    /\ run' = IF \A n \in DOMAIN plan.steps : Valid(plan.steps[n])
              THEN [st |-> st, at |-> 1] ELSE [st |-> "invalid", at |-> 0]

-----------------------------------------------------------------------------
(* Targets. *)

WithComment(rows, comment) == {i \in DOMAIN rows : rows[i].comment = comment}

\* resolveIDByComment: one row, or an error.
ByComment(step, id) == WithComment(menu.rows, step.comment) = {id}

\* supportsCommentAsID.
CommentAsId == plan.path = "filter"

\* Mutant of Target: apply takes any row the comment fits.
TargetAny(step, id) ==
    IF step.comment = None THEN id = step.id
    ELSE CommentAsId /\ id \in WithComment(menu.rows, step.comment)

\* applyOnePlanStep: the id of the step, or the one resolveMutateTargetID finds.
Target(step, id) ==
    IF step.comment = None THEN id = step.id ELSE CommentAsId /\ ByComment(step, id)

-----------------------------------------------------------------------------
(* Preview. *)

Shown(ok, kind, id, words) == [ok |-> ok, kind |-> kind, id |-> id, words |-> words]

\* DiffSet: the fields whose values differ; a row that was not read has none.
DiffSet(pre, words) ==
    [f \in {g \in DOMAIN words : words[g] # IF g \in DOMAIN pre THEN pre[g] ELSE Unset}
        |-> words[f]]

Toggled(op) == [disabled |-> IF op = "disable" THEN "true" ELSE "false"]

\* buildSemanticDiff: DiffCreate against no rows, DiffDelete and DiffSet against
\* the row, if it was found and read.
SemanticDiff(step, id, pre) ==
    CASE step.op = "create" -> Shown(TRUE, "create", None, step.props)
      [] step.op = "delete" ->
             Shown(TRUE, IF pre = NoWords THEN "none" ELSE "remove", id, NoWords)
      [] OTHER ->
             LET words == DiffSet(pre, IF step.op = "set" THEN step.props ELSE Toggled(step.op))
             IN Shown(TRUE, IF words = NoWords THEN "none" ELSE "update", id, words)

NotShown == Shown(FALSE, "none", None, NoWords)

\* The row a step is about: here a comment names one on any path.
Resolves(rows, step) ==
    step.comment # None => Cardinality(WithComment(rows, step.comment)) = 1

Named(rows, step) ==
    IF step.comment = None THEN step.id
    ELSE CHOOSE i \in WithComment(rows, step.comment) : TRUE

\* previewOneStep, when its reads are answered.
Preview(rows, step) ==
    LET id == Named(rows, step)
    IN IF Resolves(rows, step)
       THEN SemanticDiff(step, id, IF id \in DOMAIN rows THEN rows[id] ELSE NoWords)
       ELSE NotShown

StartPreview ==
    /\ Begin("previewing")
    /\ shown = <<>>
    /\ seen' = menu.rows
    /\ trail' = [trail EXCEPT !.unread = {}]
    /\ UNCHANGED <<vars, plan, shown>>

Show(what) ==
    /\ shown' = Append(shown, what)
    /\ run' = IF run.at = Len(plan.steps) THEN [st |-> "idle", at |-> 0]
              ELSE [run EXCEPT !.at = @ + 1]
    /\ UNCHANGED <<vars, plan, seen>>

PreviewStep ==
    /\ run.st = "previewing"
    /\ Show(Preview(menu.rows, This))
    /\ UNCHANGED trail

\* A read fails: the one of the comment fails the step, the one of the row is
\* dropped, and the step is shown, as ok, against a row that is not there.
PreviewUnread ==
    /\ run.st = "previewing"
    /\ \/ This.comment # None /\ Show(NotShown)
       \/ /\ This.op # "create" /\ Resolves(menu.rows, This)
          /\ Show(SemanticDiff(This, Named(menu.rows, This), NoWords))
    /\ trail' = [trail EXCEPT !.unread = @ \cup {run.at}]

-----------------------------------------------------------------------------
(* Apply. *)

\* runPlanApply: an active safe session, and --confirm for deletes.
StartApply(confirmed) ==
    /\ Begin("applying")
    /\ session.status = "active"
    /\ HasDeletes => confirmed
    /\ trail.applies < MaxApplies
    /\ trail' = [trail EXCEPT !.applies = @ + 1,
                              !.origin = IF trail.applies = 0 THEN menu.rows ELSE @]
    /\ UNCHANGED <<vars, plan, shown, seen>>

Advance ==
    run' = IF run.at = Len(plan.steps) THEN [st |-> "applied", at |-> run.at]
           ELSE [run EXCEPT !.at = @ + 1]

Fail == run' = [run EXCEPT !.st = "failed"]

\* The step is as it should be already.
AsWanted(step, id) ==
    CASE step.op = "create" ->
             \E i \in Present : SemanticKey(menu.rows[i]) = SemanticKey(step.props)
      [] step.op = "set" ->
             id \in Present /\ \A f \in DOMAIN step.props : menu.rows[id][f] = step.props[f]
      [] step.op = "delete" -> FALSE
      [] OTHER -> id \in Present /\ IsSo(id, step.op)

StepCommand(step, id) ==
    Command(CASE step.op = "create" -> "add" [] step.op = "delete" -> "remove" [] OTHER -> step.op,
            id, step.props)

\* Mutant of StepNeeded: create does not look for a twin.
StepNeededBlind(step, id) ==
    \/ step.op = "create" /\ ExecAdd(step.props)
    \/ step.op = "set" /\ id \in Present /\ Set(id, step.props)
    \/ step.op = "delete" /\ id \in Present /\ Delete(id)
    \/ step.op \in {"enable", "disable"} /\ id \in Present /\ Toggle(id, step.op)

\* The write of a step, from a read of the row or of the menu.
StepNeeded(step, id) ==
    \/ step.op = "create" /\ Create(step.props)
    \/ step.op = "set" /\ id \in Present /\ Set(id, step.props)
    \/ step.op = "delete" /\ id \in Present /\ Delete(id)
    \/ step.op \in {"enable", "disable"} /\ id \in Present /\ Toggle(id, step.op)

\* The same when that read failed: no twin is looked for and no inverse but that
\* of a toggle is known.
StepUnseen(step, id) ==
    \/ step.op = "create" /\ ExecAdd(step.props)
    \/ step.op \in {"set", "delete"} /\ id \in Present /\ Unjournaled(StepCommand(step, id))
    \/ step.op \in {"enable", "disable"} /\ id \in Present /\ ToggleUnseen(id, step.op)

Applying(id) == run.st = "applying" /\ Target(This, id)

ApplyStep(id) ==
    /\ Applying(id) /\ StepNeeded(This, id)
    /\ Advance
    /\ UNCHANGED <<plan, shown, seen, trail>>

ApplyUnseen(id) ==
    /\ Applying(id) /\ StepUnseen(This, id)
    /\ Advance
    /\ trail' = [trail EXCEPT !.blind = TRUE]
    /\ UNCHANGED <<plan, shown, seen>>

\* already_exists, no_change: behind the gate all the same.
ApplyNothing(id) ==
    /\ Applying(id) /\ AsWanted(This, id) /\ Len(session.journal) < MaxChanges
    /\ Advance
    /\ UNCHANGED <<vars, plan, shown, seen, trail>>

\* The router does it and the answer is lost.
ApplyLost(id) ==
    /\ Applying(id) /\ ~AsWanted(This, id)
    /\ This.op # "create" => id \in Present
    /\ AmbiguousWrite(StepCommand(This, id))
    /\ Fail
    /\ UNCHANGED <<plan, shown, seen, trail>>

\* The connection is lost before the write, the session takes no more changes, no
\* row or more than one has the comment, or the router does not have the row.
ApplyFails ==
    /\ run.st = "applying"
    /\ Fail
    /\ UNCHANGED <<vars, plan, shown, seen, trail>>

-----------------------------------------------------------------------------

\* What the operator does besides; without a plan, all that SafeSession allows.
ByHand ==
    /\ ~Busy
    /\ Next
    /\ plan.steps # <<>> =>
          /\ writes' # writes => trail.hand < MaxByHand
          /\ rollbacks' <= MaxByHand
    /\ trail' = [trail EXCEPT !.hand = IF plan.steps # <<>> THEN @ + (writes' - writes) ELSE @,
                              !.mixed = @ \/ (trail.applies > 0 /\ menu' # menu)]
    /\ UNCHANGED <<plan, run, shown, seen>>

\* The menus of plans have no secrets here.
\* trail: applies so far, the rows the first of them found, whether anything else
\* has changed the menu since, whether a read of theirs failed, writes by hand, and
\* the steps the last preview showed although a read of theirs had failed.
PlanInit ==
    /\ Init
    /\ plan \in Plans
    /\ plan.steps # <<>> => menu.secrets = {}
    /\ run = [st |-> "idle", at |-> 0]
    /\ shown = <<>>
    /\ seen = base
    /\ trail = [applies |-> 0, origin |-> base, mixed |-> FALSE, blind |-> FALSE, hand |-> 0,
                 unread |-> {}]

PlanNext ==
    \/ ByHand
    \/ StartPreview \/ PreviewStep \/ PreviewUnread
    \/ \E confirmed \in BOOLEAN : StartApply(confirmed)
    \/ \E id \in Present \cup {None} :
          ApplyStep(id) \/ ApplyUnseen(id) \/ ApplyNothing(id) \/ ApplyLost(id)
    \/ ApplyFails

PlanSpec == PlanInit /\ [][PlanNext]_planVars

-----------------------------------------------------------------------------
(* Properties. *)

\* What the preview said of a step is about rows that have not changed since.
StillAsSeen(step) ==
    CASE step.op = "create" -> TRUE
      [] step.comment # None ->
             LET same == WithComment(seen, step.comment)
             IN /\ WithComment(menu.rows, step.comment) = same
                /\ \A i \in same : menu.rows[i] = seen[i]
      [] OTHER -> /\ (step.id \in Present) = (step.id \in DOMAIN seen)
                  /\ step.id \in Present => menu.rows[step.id] = seen[step.id]

\* The rows and one more.
With(rows, i, row) == [k \in DOMAIN rows \cup {i} |-> IF k = i THEN row ELSE rows[k]]

\* What a step that changes the menu does is what its preview showed, row and
\* fields, nothing more and nothing less, whatever the other steps and writes by
\* hand have done to other rows; a step that could not be previewed because its
\* comment names no row, or several, does nothing.  It is said of the steps whose
\* reads were answered: previewOneStep drops the error of fetchPreState, and a
\* delete it could not read is shown as removing nothing.
\* (previewOneStep and applyOnePlanStep, which read and resolve separately.)
PreviewHonoured ==
    [][run.st = "applying" /\ menu' # menu /\ shown # <<>> /\ StillAsSeen(This)
          /\ run.at \notin trail.unread
       => LET what == shown[run.at]
          IN CASE what.kind = "create" ->
                      \E i \in DOMAIN menu'.rows \ Present :
                          menu'.rows = With(menu.rows, i, Over(what.words, NewRow))
               [] what.kind = "update" ->
                      menu'.rows = [menu.rows EXCEPT ![what.id] = Over(what.words, @)]
               [] what.kind = "remove" ->
                      menu'.rows = [i \in Present \ {what.id} |-> menu.rows[i]]
               [] OTHER -> FALSE]_planVars

\* The plan as its author reads it: what its steps make of the rows when nothing
\* fails, an existing twin being as good as a new row.
Meant(rows, step) ==
    IF step.op = "create" THEN
        IF \E i \in DOMAIN rows : SemanticKey(rows[i]) = SemanticKey(step.props) THEN rows
        ELSE With(rows, Max(DOMAIN rows \cup {0}) + 1, Over(step.props, NewRow))
    ELSE LET id == IF step.comment = None THEN step.id
                   ELSE CHOOSE i \in WithComment(rows, step.comment) : TRUE
         IN [rows EXCEPT ![id] = Over(IF step.op = "set" THEN step.props ELSE Toggled(step.op), @)]

\* No step removes a row or undoes another, and none changes what another looks for.
Independent ==
    LET steps == Range(plan.steps)
        Fields(s) == IF s.op \in {"enable", "disable"} THEN {"disabled"} ELSE DOMAIN s.props
        creates == {s \in steps : s.op = "create"}
    IN /\ ~HasDeletes
       /\ \A m, n \in DOMAIN plan.steps : m < n =>
             LET s == plan.steps[m] t == plan.steps[n]
             IN /\ s.op # "create" /\ t.op # "create" => Fields(s) \cap Fields(t) = {}
                /\ s.op = "create" /\ t.op = "create"
                      => SemanticKey(s.props) # SemanticKey(t.props)
       /\ \A s \in steps : s.comment # None =>
             \A t \in steps : t.op \in {"create", "set"} => "comment" \notin DOMAIN t.props
       /\ \A s \in steps \ creates : s.comment = None => s.id \in DOMAIN trail.origin
       /\ \A c \in creates, s \in steps : s.op = "set" =>
             \A i \in DOMAIN trail.origin :
                 /\ SemanticKey(trail.origin[i]) # SemanticKey(c.props)
                 /\ SemanticKey(Over(s.props, trail.origin[i])) # SemanticKey(c.props)

\* An apply that says it is complete has made of the rows what the plan means,
\* also when it is the second attempt, after one that stopped at any step with its
\* answer lost or not: running a plan again is safe, and nothing is made twice.
\* (applyCreateMutation, classifySetOutcome, runPlanApply.)
AppliedAsMeant ==
    /\ run.st = "applied" /\ Independent
    /\ ~trail.mixed /\ ~trail.blind
    => SameRows(menu.rows, FoldLeft(Meant, trail.origin, plan.steps))

PlanTypeOK ==
    /\ TypeOK
    /\ plan \in Plans
    /\ run.st \in {"idle", "invalid", "previewing", "applying", "applied", "failed"}
    /\ run.at \in 0 .. Len(plan.steps)
    /\ Len(shown) <= Len(plan.steps)
    /\ trail.applies \in 0 .. MaxApplies /\ trail.hand \in 0 .. MaxByHand
    /\ trail.unread \subseteq DOMAIN plan.steps
=============================================================================
