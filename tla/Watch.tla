------------------------------- MODULE Watch -------------------------------
(***************************************************************************)
(* ros session watch (internal/session/watch.go): a second process probes  *)
(* the device once per interval, marks the session after FailThreshold     *)
(* failures in a row, and from then on tries to roll back whenever a probe *)
(* succeeds, until an attempt comes to its end.  The operator goes on      *)
(* writing meanwhile; the watch works with the session it read at its      *)
(* start.  The writes, the inverses and the router are those of SafeSession. *)
(***************************************************************************)
EXTENDS SafeSession

CONSTANTS
    FailThreshold,   \* --fails
    MaxOutages       \* bound on how often the link goes down

ASSUME WatchAssumption == FailThreshold \in Nat \ {0} /\ MaxOutages \in Nat

VARIABLES
    link,            \* "up" or "down"
    outages,         \* outages so far
    watch,           \* the watching process
    late             \* history: a write was made after the watch began

watchVars == <<vars, link, outages, watch, late>>

\* The watch's copy of the journal, its count of failures, and how much of the
\* copy the current attempt has yet to undo.
WatchState == {"off", "probing", "pending", "rolling", "done", "stopped"}

WatchInit ==
    /\ Init
    /\ link = "up"
    /\ outages = 0
    /\ watch = [pc |-> "off", failures |-> 0, copy |-> <<>>, pos |-> 0]
    /\ late = FALSE

-----------------------------------------------------------------------------
(* The link and the operator. *)

LinkDown ==
    /\ link = "up"
    /\ outages < MaxOutages
    /\ link' = "down"
    /\ outages' = outages + 1
    /\ UNCHANGED <<vars, watch, late>>

LinkUp ==
    /\ link = "down"
    /\ link' = "up"
    /\ UNCHANGED <<vars, outages, watch, late>>

OperatorWrites ==
    /\ link = "up"
    /\ \/ \E words \in NewWords : Create(words)
       \/ \E id \in Present :
            \/ \E words \in SetWords : Set(id, words)
            \/ Delete(id)
            \/ \E verb \in {"enable", "disable"} : Toggle(id, verb)
    /\ late' = (late \/ watch.pc # "off")
    /\ UNCHANGED <<link, outages, watch>>

-----------------------------------------------------------------------------
(* The watch.  The session is read once, when the command starts. *)

StartWatch ==
    /\ watch.pc = "off"
    /\ session.status = "active"
    /\ watch' = [watch EXCEPT !.pc = "probing", !.copy = session.journal]
    /\ UNCHANGED <<vars, link, outages, late>>

ProbeSucceeds ==
    /\ watch.pc = "probing" /\ link = "up"
    /\ watch' = [watch EXCEPT !.failures = 0]
    /\ UNCHANGED <<vars, link, outages, late>>

\* Mutant of ProbeFails: never gets to the threshold.
ProbeFailsUncapped ==
    /\ watch.pc = "probing" /\ link = "down"
    /\ watch' = [watch EXCEPT !.failures = @ + 1]
    /\ UNCHANGED <<vars, link, outages, late>>

ProbeFails ==
    /\ watch.pc = "probing" /\ link = "down"
    /\ watch.failures + 1 < FailThreshold
    /\ watch' = [watch EXCEPT !.failures = @ + 1]
    /\ UNCHANGED <<vars, link, outages, late>>

\* MarkAutoRollbackPending writes the copy over the journal; its error is ignored.
LinkIsLost ==
    /\ watch.pc = "probing" /\ link = "down"
    /\ watch.failures + 1 = FailThreshold
    /\ watch' = [watch EXCEPT !.pc = "pending", !.failures = FailThreshold]
    /\ session' \in {session, [session EXCEPT !.journal = watch.copy]}
    /\ UNCHANGED <<menu, base, gaps, writes, rollbacks, partial, link, outages, late>>

\* Mutant of StartAttempt: leaves out the last entry.
StartAttemptShort ==
    /\ watch.pc = "pending" /\ link = "up"
    /\ watch' = [watch EXCEPT !.pc = "rolling",
                               !.pos = IF watch.copy = <<>> THEN 0 ELSE Len(watch.copy) - 1]
    /\ UNCHANGED <<vars, link, outages, late>>

StartAttempt ==
    /\ watch.pc = "pending" /\ link = "up"
    /\ watch' = [watch EXCEPT !.pc = "rolling", !.pos = Len(watch.copy)]
    /\ UNCHANGED <<vars, link, outages, late>>

UndoNext ==
    LET inverse == watch.copy[watch.pos].inverse
    IN /\ watch.pc = "rolling" /\ watch.pos > 0 /\ link = "up"
       /\ Accepts(menu, inverse)
       /\ menu' = Run(menu, inverse)
       /\ watch' = [watch EXCEPT !.pos = @ - 1]
       /\ UNCHANGED <<session, base, gaps, writes, rollbacks, partial, link, outages, late>>

\* Mutant of AttemptFails: waits for another outage before it tries again.
AttemptFailsProbesOn ==
    /\ watch.pc = "rolling" /\ watch.pos > 0
    /\ link = "up" => ~Accepts(menu, watch.copy[watch.pos].inverse)
    /\ watch' = [watch EXCEPT !.pc = "probing", !.failures = 0, !.pos = 0]
    /\ partial' = (partial \/ watch.pos < Len(watch.copy))
    /\ UNCHANGED <<menu, session, base, gaps, writes, rollbacks, link, outages, late>>

\* The next attempt starts at the last entry again.
AttemptFails ==
    /\ watch.pc = "rolling" /\ watch.pos > 0
    /\ link = "up" => ~Accepts(menu, watch.copy[watch.pos].inverse)
    /\ watch' = [watch EXCEPT !.pc = "pending", !.pos = 0]
    /\ partial' = (partial \/ watch.pos < Len(watch.copy))
    /\ UNCHANGED <<menu, session, base, gaps, writes, rollbacks, link, outages, late>>

\* MarkRolledBack is local: it needs no link.
AttemptEnds ==
    /\ watch.pc = "rolling" /\ watch.pos = 0
    /\ watch' = [watch EXCEPT !.pc = "done"]
    /\ session' = [session EXCEPT !.status = "rolled_back", !.journal = watch.copy]
    /\ UNCHANGED <<menu, base, gaps, writes, rollbacks, partial, link, outages, late>>

\* The context ends or the process is killed.
StopWatch ==
    /\ watch.pc \in {"probing", "pending", "rolling"}
    /\ watch' = [watch EXCEPT !.pc = "stopped"]
    /\ UNCHANGED <<vars, link, outages, late>>

Tick == ProbeSucceeds \/ ProbeFails \/ LinkIsLost \/ StartAttempt \/ UndoNext
            \/ AttemptFails \/ AttemptEnds

WatchNext == LinkDown \/ LinkUp \/ OperatorWrites \/ StartWatch \/ Tick \/ StopWatch

\* The ticker and the process go on as long as the watch runs, and an outage ends.
Fairness == WF_watchVars(Tick) /\ WF_watchVars(LinkUp)

WatchSpec == WatchInit /\ [][WatchNext]_watchVars /\ Fairness

-----------------------------------------------------------------------------

WatchTypeOK ==
    /\ link \in {"up", "down"} /\ outages \in 0..MaxOutages
    /\ watch.pc \in WatchState
    /\ watch.failures \in 0..FailThreshold
    /\ watch.pos \in 0..Len(watch.copy)
    /\ late \in BOOLEAN

CopyRepeatable == \A n \in 1..Len(watch.copy) :
    watch.copy[n].inverse.verb \in {"set", "enable", "disable"}

\* A watch whose copy is the whole journal leaves the rows the session found,
\* however often attempts are cut short, if its inverses are repeatable or the
\* first attempt went through.
WatchRestores ==
    /\ watch.pc = "done" /\ ~late /\ gaps = {}
    /\ partial => CopyRepeatable
    => SameRows(menu.rows, base)

\* After link loss, a watch of repeatable inverses succeeds once outages end,
\* unless it is stopped or a row it needs is gone.
WatchConverges ==
    watch.pc = "pending" /\ CopyRepeatable
        ~> \/ watch.pc \in {"done", "stopped"}
           \/ \E n \in 1..Len(watch.copy) : watch.copy[n].target \notin Present

\* watch.go: "keeps retrying Probe+Rollback until rollback succeeds (link restored)
\* or the context ends".
WatchSucceeds == watch.pc = "pending" ~> watch.pc \in {"done", "stopped"}
=============================================================================
