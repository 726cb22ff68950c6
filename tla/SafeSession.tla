---------------------------- MODULE SafeSession ----------------------------
(***************************************************************************)
(* What a safe session promises about a router: the writes of cmd/generic.go *)
(* and cmd/exec.go on one menu, the inverse each of them journals           *)
(* (internal/session), and the rollback that runs the inverses.  Module     *)
(* SessionStore treats the journal as a file that several processes share;  *)
(* here one operator works in one session and the entries have contents.    *)
(*                                                                          *)
(* The menu is /ip/firewall/filter or one like it: rows have an .id that is *)
(* never reused, fields that are always set (one of them, `name', stands    *)
(* for chain, action, addresses...), an optional comment, and may be        *)
(* disabled.  In some menus the optional field is a secret, a pre-shared    *)
(* key say, which the journal does not keep.  The position of a row in the   *)
(* menu is not modelled.                                                    *)
(***************************************************************************)
EXTENDS Naturals, FiniteSets, SequencesExt

CONSTANTS
    Names,        \* values of a field that is always set
    Comments,     \* values of the optional field
    Unset,        \* an optional field without a value, printed by no row
    Secrecy,      \* which fields may be the secrets of the menu, as sets
    Tables,       \* possible contents of the menu when the session begins
    MaxId,        \* bound on the .id of a row the operator adds
    FullAt,       \* bound on the .id of any row: the router refuses more
    MaxChanges,   \* max_session_changes
    MaxWrites,    \* bound on the writes of a behaviour
    MaxRollbacks, \* bound on how often a rollback is started
    None          \* no row

Bool == {"true", "false"}

Row == [name : Names, comment : Comments \cup {Unset}, disabled : Bool]

SafeAssumption ==
    /\ Unset \notin Names \cup Comments \cup Bool
    /\ Tables \subseteq Seq(Row)
    /\ Secrecy \subseteq SUBSET {"comment"}
    /\ MaxId \in Nat /\ FullAt \in Nat /\ MaxId <= FullAt
    /\ MaxChanges \in Nat \ {0}
    /\ MaxWrites \in Nat /\ MaxRollbacks \in Nat

ASSUME SafeAssumption

VARIABLES
    menu,         \* the router: its rows by .id, the next .id, its secret fields
    session,      \* status, journal and the position of a rollback
    base,         \* history: the rows when the session began
    gaps,         \* history: why the journal does not tell the whole story
    writes,       \* writes made so far
    rollbacks,    \* rollbacks started so far
    partial       \* history: a rollback has ended with part of its inverses run

vars == <<menu, session, base, gaps, writes, rollbacks, partial>>

-----------------------------------------------------------------------------
(* The router. *)

NewRow == [comment |-> Unset, disabled |-> "false"]

Present == DOMAIN menu.rows

\* The words of a command over the fields of a row.
Over(words, row) ==
    [f \in DOMAIN words \cup DOMAIN row |-> IF f \in DOMAIN words THEN words[f] ELSE row[f]]

\* RouterOS takes the command c, a verb, a row and =key=value words, in the menu m.
Accepts(m, c) == IF c.verb = "add" THEN m.next <= FullAt ELSE c.id \in DOMAIN m.rows

\* What it makes of the menu then.
Run(m, c) ==
    CASE c.verb = "add" ->
             [m EXCEPT !.rows = [i \in DOMAIN @ \cup {m.next} |->
                                    IF i = m.next THEN Over(c.words, NewRow) ELSE @[i]],
                       !.next = @ + 1]
      [] c.verb = "remove" -> [m EXCEPT !.rows = [i \in DOMAIN @ \ {c.id} |-> @[i]]]
      [] c.verb = "set" -> [m EXCEPT !.rows[c.id] = Over(c.words, @)]
      [] c.verb = "enable" -> [m EXCEPT !.rows[c.id].disabled = "false"]
      [] c.verb = "disable" -> [m EXCEPT !.rows[c.id].disabled = "true"]

NoWords == [f \in {} |-> Unset]

Command(verb, id, words) == [verb |-> verb, id |-> id, words |-> words]

-----------------------------------------------------------------------------
(* Inverses. *)

\* BuildSetInverse: only what the row printed before is put back.
SetInverse(id, pre, words) ==
    LET known == {f \in DOMAIN words : pre[f] # Unset}
    IN Command("set", id, [f \in known |-> pre[f]])

\* BuildRemoveInverse: the row is added again, under a new .id.
RemoveInverse(pre) ==
    Command("add", None, [f \in {g \in DOMAIN pre : pre[g] # Unset} |-> pre[f]])

\* BuildInverse for /add, /enable and /disable.
Opposite(verb) == CASE verb = "add" -> "remove"
                    [] verb = "enable" -> "disable"
                    [] verb = "disable" -> "enable"

PlainInverse(verb, id) == Command(Opposite(verb), id, NoWords)

\* sanitizeSessionChange: the words of secret fields are left out of an inverse.
Sanitized(inverse) ==
    [inverse EXCEPT !.words = [f \in DOMAIN @ \ menu.secrets |-> @[f]]]

\* SemanticKey of a firewall rule: its comment, or else its other fields.
SemanticKey(row) ==
    IF "comment" \in DOMAIN row \ menu.secrets /\ row.comment # Unset
    THEN <<"comment", row.comment>> ELSE <<"fields", row.name>>

-----------------------------------------------------------------------------
(* The writes.  Each is the command on the router followed by recordSafeChange. *)

Entry(id, inverse) == [target |-> id, inverse |-> Sanitized(inverse)]

\* The command c runs, the journal grows by the entries, and what the journal
\* does not tell is noted.
Write(c, entries, gap) ==
    /\ session.status = "active"
    /\ Len(session.journal) < MaxChanges
    /\ writes < MaxWrites
    /\ c.verb = "add" => menu.next <= MaxId
    /\ menu' = Run(menu, c)
    /\ session' = [session EXCEPT !.journal = @ \o entries]
    /\ gaps' = gaps \cup gap
    /\ writes' = writes + 1
    /\ UNCHANGED <<base, rollbacks, partial>>

NewWords == [name : Names] \cup [name : Names, comment : Comments]

SetWords == NewWords \cup [comment : Comments \cup {Unset}]

\* ros create: a row with the same semantic key makes it a no-op.
Create(words) ==
    /\ \A i \in Present : SemanticKey(menu.rows[i]) # SemanticKey(words)
    /\ Write(Command("add", None, words),
             <<Entry(menu.next, PlainInverse("add", menu.next))>>, {})

\* ros set: nothing to do when no value differs; no entry without a known field,
\* though one whose known fields are all secrets.
Set(id, words) ==
    LET pre == menu.rows[id]
        inverse == SetInverse(id, pre, words)
        forgets == \E f \in DOMAIN words \ menu.secrets : pre[f] = Unset /\ words[f] # Unset
    IN /\ \E f \in DOMAIN words : pre[f] # words[f]
       /\ Write(Command("set", id, words),
                IF inverse.words = NoWords THEN <<>> ELSE <<Entry(id, inverse)>>,
                IF forgets THEN {"unset"} ELSE {})

\* Mutant of Delete: a removed row is not journaled.
DeleteUnrecorded(id) == Write(Command("remove", id, NoWords), <<>>, {})

\* ros delete.
Delete(id) ==
    Write(Command("remove", id, NoWords), <<Entry(id, RemoveInverse(menu.rows[id]))>>, {})

IsSo(id, verb) == menu.rows[id].disabled = (IF verb = "disable" THEN "true" ELSE "false")

ToggleEntry(id, verb) == <<Entry(id, PlainInverse(verb, id))>>

\* ros enable, ros disable: nothing to do when the row is so already.
Toggle(id, verb) ==
    /\ ~IsSo(id, verb)
    /\ Write(Command(verb, id, NoWords), ToggleEntry(id, verb), {})

\* ros exec .../enable does not look, nor does ros enable when its read failed:
\* the inverse of a command that changed nothing is journaled.
ToggleUnseen(id, verb) ==
    Write(Command(verb, id, NoWords), ToggleEntry(id, verb),
          IF IsSo(id, verb) THEN {"noop"} ELSE {})

\* ros exec .../add --force: journaled like create, without the check for a twin.
ExecAdd(words) ==
    Write(Command("add", None, words),
          <<Entry(menu.next, PlainInverse("add", menu.next))>>, {})

\* Writes that reach the router and not the journal: exec --force of a set or a
\* remove, and set or delete when the read of the row failed.
Unjournaled(c) ==
    /\ c.verb \in {"set", "remove"}
    /\ Write(c, <<>>, {"unjournaled"})

\* A write whose answer is lost: MaybeAmbiguousWrite, and nothing is journaled.
AmbiguousWrite(c) == Write(c, <<>>, {"lost"})

-----------------------------------------------------------------------------
(* The end of a session. *)

Commit ==
    /\ session.status = "active"
    /\ session' = [session EXCEPT !.status = "committed"]
    /\ UNCHANGED <<menu, base, gaps, writes, rollbacks, partial>>

\* Mutant of StartRollback: starts after the last entry.
StartRollbackPastEnd ==
    /\ session.status = "active"
    /\ rollbacks < MaxRollbacks
    /\ session' = [session EXCEPT !.status = "rolling", !.pos = Len(session.journal) + 1]
    /\ rollbacks' = rollbacks + 1
    /\ UNCHANGED <<menu, base, gaps, writes, partial>>

\* session rollback, or a watch that finds the link up again.
StartRollback ==
    /\ session.status = "active"
    /\ rollbacks < MaxRollbacks
    /\ session' = [session EXCEPT !.status = "rolling", !.pos = Len(session.journal)]
    /\ rollbacks' = rollbacks + 1
    /\ UNCHANGED <<menu, base, gaps, writes, partial>>

\* Mutant of Undo: runs the inverses in the order of the changes.
UndoForward ==
    LET inverse == session.journal[Len(session.journal) + 1 - session.pos].inverse
    IN /\ session.status = "rolling" /\ session.pos > 0
       /\ Accepts(menu, inverse)
       /\ menu' = Run(menu, inverse)
       /\ session' = [session EXCEPT !.pos = @ - 1]
       /\ UNCHANGED <<base, gaps, writes, rollbacks, partial>>

Undo ==
    LET inverse == session.journal[session.pos].inverse
    IN /\ session.status = "rolling" /\ session.pos > 0
       /\ Accepts(menu, inverse)
       /\ menu' = Run(menu, inverse)
       /\ session' = [session EXCEPT !.pos = @ - 1]
       /\ UNCHANGED <<base, gaps, writes, rollbacks, partial>>

\* The session stays active with its whole journal: what has run is not noted.
GiveUp ==
    /\ session' = [session EXCEPT !.status = "active", !.pos = 0]
    /\ partial' = (partial \/ session.pos < Len(session.journal))
    /\ UNCHANGED <<menu, base, gaps, writes, rollbacks>>

UndoRefused ==
    /\ session.status = "rolling" /\ session.pos > 0
    /\ ~Accepts(menu, session.journal[session.pos].inverse)
    /\ GiveUp

\* The link goes down, before a command or after it and before its answer, or the
\* process ends.
Interrupted ==
    /\ session.status = "rolling"
    /\ GiveUp

MarkRolledBack ==
    /\ session.status = "rolling" /\ session.pos = 0
    /\ session' = [session EXCEPT !.status = "rolled_back"]
    /\ UNCHANGED <<menu, base, gaps, writes, rollbacks, partial>>

-----------------------------------------------------------------------------

Init ==
    /\ base \in Tables
    /\ \E secrets \in Secrecy :
          menu = [rows |-> base, next |-> Cardinality(DOMAIN base) + 1, secrets |-> secrets]
    /\ session = [status |-> "active", journal |-> <<>>, pos |-> 0]
    /\ gaps = {}
    /\ writes = 0
    /\ rollbacks = 0
    /\ partial = FALSE

Next ==
    \/ \E words \in NewWords :
          \/ Create(words)
          \/ ExecAdd(words)
          \/ AmbiguousWrite(Command("add", None, words))
    \/ \E id \in Present :
          \/ \E words \in SetWords :
                \/ Set(id, words)
                \/ Unjournaled(Command("set", id, words))
                \/ AmbiguousWrite(Command("set", id, words))
          \/ Delete(id)
          \/ \E verb \in {"enable", "disable"} :
                \/ Toggle(id, verb)
                \/ ToggleUnseen(id, verb)
                \/ AmbiguousWrite(Command(verb, id, NoWords))
          \/ Unjournaled(Command("remove", id, NoWords))
          \/ AmbiguousWrite(Command("remove", id, NoWords))
    \/ Commit
    \/ StartRollback \/ Undo \/ UndoRefused \/ Interrupted \/ MarkRolledBack

Spec == Init /\ [][Next]_vars

-----------------------------------------------------------------------------
(* Properties. *)

TypeOK ==
    /\ menu.rows \in [Present -> Row] /\ menu.secrets \in Secrecy /\ \A i \in Present : i < menu.next
    /\ session.status \in {"active", "rolling", "committed", "rolled_back"}
    /\ session.pos \in 0..Len(session.journal)
    /\ gaps \subseteq {"unset", "noop", "unjournaled", "lost"}
    /\ writes \in 0..MaxWrites /\ rollbacks \in 0..MaxRollbacks
    /\ partial \in BOOLEAN

\* The inverses a rollback has yet to run, or would run if it started now.
ToUndo == CASE session.status = "rolling" -> SubSeq(session.journal, 1, session.pos)
            [] session.status = "rolled_back" -> <<>>
            [] OTHER -> session.journal

\* What a command makes of a menu, if it is not refused and there is one.
After(menus, c) == {Run(m, c) : m \in {x \in menus : Accepts(x, c)}}

\* What a rollback of the journal j makes of the menu m, from the last entry to the
\* first: at n, the first n entries are left.
Undoing(j, m) ==
    LET at[n \in 0..Len(j)] ==
            IF n = Len(j) THEN {m} ELSE After(at[n + 1], j[n + 1].inverse)
    IN at

Undone(j, m) == Undoing(j, m)[0]

Restored == Undone(ToUndo, menu)

\* The rows without their secrets.
Open(rows) ==
    [i \in DOMAIN rows |->
        [f \in DOMAIN rows[i] |-> IF f \in menu.secrets THEN Unset ELSE rows[i][f]]]

\* The same rows, each as often, up to their secrets.
SameRows(r, s) ==
    LET p == Open(r) q == Open(s)
    IN \A row \in Range(p) \cup Range(q) :
          Cardinality({i \in DOMAIN p : p[i] = row}) = Cardinality({i \in DOMAIN q : q[i] = row})

\* Inverses that may run twice.
Repeatable == \A n \in 1..Len(session.journal) :
    session.journal[n].inverse.verb \in {"set", "enable", "disable"}

\* A rollback that reaches its end leaves the rows the session found, up to .id,
\* position and secrets (a row that changed a secret keeps the new one, a deleted
\* one comes back without: all its other fields are put back), if every write is
\* journaled with every value it replaced and no earlier attempt ran part of it.  Of the inverses only set, enable
\* and disable may have run before: applySessionRollback starts every attempt at
\* the last entry.
RollbackRestores ==
    /\ session.status # "committed"
    /\ gaps = {}
    /\ partial => Repeatable
    => \A m \in Restored : SameRows(m.rows, base)

\* The journal names rows by .id, and a deleted row comes back under a new one:
\* exactly when a change of a row is followed by its deletion the rollback is
\* refused half-way, before the inverse of that change.
ReplacedRowsBlock ==
    /\ session.status \in {"active", "rolling"}
    /\ gaps \subseteq {"unset", "noop"}
    /\ ~partial
    => LET j == session.journal
       IN Restored = {} <=>
            \E n \in 1..Len(ToUndo), m \in 1..Len(j) :
                n < m /\ j[m].inverse.verb = "add" /\ j[n].target = j[m].target
=============================================================================
