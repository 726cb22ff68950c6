---------------------------- MODULE SessionStore ----------------------------
(***************************************************************************)
(* The safe-session store (internal/session/session.go) as several `ros`  *)
(* processes share it.  Every invocation of the CLI is an operating-system *)
(* process with a Store of its own, so Store.mu orders nothing between two *)
(* invocations: what they share is the directory ~/.config/ros/sessions,   *)
(* with one journal file per session and one lock file per (sanitized)     *)
(* device name.  A step of this module is one system call on that          *)
(* directory, or one API call on a router.                                 *)
(*                                                                         *)
(* A journal entry is abstracted to the identity of the change it records; *)
(* module SafeSession refines entries to rows and inverse commands.        *)
(***************************************************************************)
EXTENDS Naturals, Sequences, FiniteSets

CONSTANTS
    Devices,      \* device names of the inventory
    Keys,         \* lock-file names
    Sanitize,     \* device name -> lock-file name
    NeedSafe,     \* devices whose class or profile refuses writes outside a safe session
    Ids,          \* session ids (time.Now().UnixNano(), never repeated)
    Changes,      \* identities of router writes
    Procs,        \* slots for concurrently running CLI processes
    Commands,     \* the commands in use
    SafeModes,    \* values of `session begin --safe` in use
    MaxChanges,   \* max_session_changes, 0 for no cap
    Faults,       \* whether processes crash and file operations fail
    None,         \* no device, id or change
    Absent,       \* a lock file that does not exist
    Empty         \* a lock file that was created and not yet written

ASSUME StoreAssumption ==
    /\ Sanitize \in [Devices -> Keys]
    /\ NeedSafe \subseteq Devices
    /\ Commands \subseteq {"begin", "write", "commit", "rollback", "watch", "remove"}
    /\ SafeModes \subseteq BOOLEAN
    /\ MaxChanges \in Nat
    /\ Faults \in BOOLEAN
    /\ None \notin Devices \cup Ids \cup Changes
    /\ Absent \notin Ids /\ Empty \notin Ids /\ Absent # Empty

VARIABLES
    lock,         \* lock[k]: contents of active-<k>.lock
    file,         \* file[i]: state of <i>.json
    journal,      \* journal[i]: the session <i>.json holds when it is whole
    inventory,    \* devices config.toml names
    applied,      \* applied[c]: the device whose router change c was made on
    undone,       \* changes a rollback has dealt with: inverse run, or none recorded
    cli,          \* cli[p]: the local state of process p
    raced,        \* history: keys on which two processes have overlapped
    lost,         \* history: changes whose record a crash or an I/O error prevented or wiped
    stuck,        \* history: keys whose lock a closing command failed to remove
    cut,          \* history: keys with a lock or a journal that was truncated and not filled
    kept          \* history: changes of sessions whose commit was written

vars == <<lock, file, journal, inventory, applied, undone, cli, raced, lost, stuck, cut, kept>>
files == <<lock, file, journal>>
routers == <<applied, undone>>
history == <<raced, lost, stuck, cut, kept>>

-----------------------------------------------------------------------------
(* Types. *)

Status == {"active", "committed", "rolled_back"}

Session == [dev: Devices \cup {None}, safe: BOOLEAN, status: Status,
            pending: BOOLEAN, changes: Seq(Changes)]

\* What a command is doing.  "record" is the second half of a write, "pend",
\* "autoroll" and "remark" are the stages of a watch after link loss.
Op == {"none", "begin", "write", "record", "commit", "rollback",
       "watch", "pend", "autoroll", "remark", "remove"}

PC == {"idle",
       "stat", "create", "fill", "lockopen", "lockfill", "cleanup",   \* BeginWith
       "readlock", "readjournal",                                     \* Active
       "run",                                                         \* the router write
       "saveopen", "savefill", "unlock",                              \* write, Remove(lock)
       "undo",                                                        \* applySessionRollback
       "watching",                                                    \* Watch
       "forget", "dropunlock", "purge"}                       \* device remove

Cli == [pc: PC, op: Op, dev: Devices \cup {None}, id: Ids \cup {None},
        mem: Session, chg: Changes \cup {None}, pos: Nat]

FileState == {"unused", "absent", "torn", "whole"}

Blank == [dev |-> None, safe |-> FALSE, status |-> "active",
          pending |-> FALSE, changes |-> <<>>]

Idle == [pc |-> "idle", op |-> "none", dev |-> None, id |-> None, mem |-> Blank,
         chg |-> None, pos |-> 0]

TypeOK ==
    /\ lock \in [Keys -> Ids \cup {Absent, Empty}]
    /\ file \in [Ids -> FileState]
    /\ journal \in [Ids -> Session]
    /\ inventory \subseteq Devices
    /\ applied \in [Changes -> Devices \cup {None}]
    /\ undone \subseteq Changes
    /\ cli \in [Procs -> Cli]
    /\ raced \subseteq Keys
    /\ lost \subseteq Changes
    /\ stuck \subseteq Keys
    /\ cut \subseteq Keys
    /\ kept \subseteq Changes

-----------------------------------------------------------------------------
(* Helpers. *)

Key(p) == Sanitize[cli[p].dev]

Entries(s) == {s.changes[n] : n \in 1..Len(s.changes)}

Live(k) == {p \in Procs : cli[p].pc # "idle" /\ Key(p) = k}

UnderCap(s) == MaxChanges = 0 \/ Len(s.changes) < MaxChanges

\* Process p goes on with the local state c.
Goto(p, c) == cli' = [cli EXCEPT ![p] = c]

Done(p) == Goto(p, Idle)

\* A new process with local state c, for a device it finds in the inventory.
Start(p, c) ==
    /\ cli[p].pc = "idle"
    /\ c.op \in Commands
    /\ c.dev \in inventory
    /\ raced' = IF Live(Sanitize[c.dev]) = {} THEN raced ELSE raced \cup {Sanitize[c.dev]}
    /\ Goto(p, c)
    /\ UNCHANGED <<files, inventory, routers, lost, stuck, cut, kept>>

-----------------------------------------------------------------------------
(* ros session begin: BeginWith. *)

StartBegin(p, d, safe) ==
    Start(p, [Idle EXCEPT !.pc = "stat", !.op = "begin", !.dev = d,
                          !.mem = [Blank EXCEPT !.dev = d, !.safe = safe]])

\* Mutant of BeginStat: begins although a lock is there.
BeginStatIgnored(p) ==
    /\ cli[p].pc = "stat"
    /\ Goto(p, [cli[p] EXCEPT !.pc = "create"])
    /\ UNCHANGED <<files, inventory, routers, history>>

\* os.Stat of the lock decides; nothing holds the answer until the lock is written.
BeginStat(p) ==
    /\ cli[p].pc = "stat"
    /\ IF lock[Key(p)] = Absent
       THEN Goto(p, [cli[p] EXCEPT !.pc = "create"])
       ELSE Done(p)
    /\ UNCHANGED <<files, inventory, routers, history>>

\* The journal's os.WriteFile creates an empty file, then fills it.
BeginCreate(p, i) ==
    /\ cli[p].pc = "create"
    /\ file[i] = "unused"
    /\ file' = [file EXCEPT ![i] = "torn"]
    /\ Goto(p, [cli[p] EXCEPT !.pc = "fill", !.id = i])
    /\ UNCHANGED <<lock, journal, inventory, routers, history>>

BeginFill(p) ==
    /\ cli[p].pc = "fill"
    /\ file' = [file EXCEPT ![cli[p].id] = "whole"]
    /\ journal' = [journal EXCEPT ![cli[p].id] = cli[p].mem]
    /\ Goto(p, [cli[p] EXCEPT !.pc = "lockopen"])
    /\ UNCHANGED <<lock, inventory, routers, history>>

\* The lock's os.WriteFile truncates or creates it, whoever made it, then fills it.
BeginLockOpen(p) ==
    /\ cli[p].pc = "lockopen"
    /\ lock' = [lock EXCEPT ![Key(p)] = Empty]
    /\ Goto(p, [cli[p] EXCEPT !.pc = "lockfill"])
    /\ UNCHANGED <<file, journal, inventory, routers, history>>

BeginLockFill(p) ==
    /\ cli[p].pc = "lockfill"
    /\ lock' = [lock EXCEPT ![Key(p)] = cli[p].id]
    /\ Done(p)
    /\ UNCHANGED <<file, journal, inventory, routers, history>>

\* The lock could not be written: the journal is removed, the lock file is not.
BeginCleanup(p) ==
    /\ cli[p].pc = "cleanup"
    /\ file' = [file EXCEPT ![cli[p].id] = "absent"]
    /\ journal' = [journal EXCEPT ![cli[p].id] = Blank]
    /\ Done(p)
    /\ UNCHANGED <<lock, inventory, routers, history>>

Begin(p) ==
    \/ BeginStat(p)
    \/ \E i \in Ids : BeginCreate(p, i)
    \/ BeginFill(p)
    \/ BeginLockOpen(p)
    \/ BeginLockFill(p)
    \/ BeginCleanup(p)

-----------------------------------------------------------------------------
(* Active: read the lock, then the journal it names.  The three operators   *)
(* below say how a command goes on with the answer; a session that is not  *)
(* there has id None and the Blank contents, which are not safe.           *)

\* enforceGuardrails: the safe-session gate, then the blast-radius gate.
CheckWrite(c) ==
    IF \/ c.dev \in NeedSafe /\ ~c.mem.safe
       \/ c.mem.safe /\ ~UnderCap(c.mem)
    THEN Idle
    ELSE [c EXCEPT !.pc = "run"]

\* Mutant of RecordChange: a full journal is rewritten without the new entry.
RecordChangeTruncates(c) ==
    IF c.mem.safe /\ c.mem.status = "active"
    THEN [c EXCEPT !.pc = "saveopen", !.chg = None,
                   !.mem.changes = IF @ = <<>> THEN <<c.chg>> ELSE @]
    ELSE Idle

\* Mutant of RecordChange: a closed session takes changes.
RecordChangeClosed(c) ==
    IF c.mem.safe /\ UnderCap(c.mem)
    THEN [c EXCEPT !.pc = "saveopen", !.mem.changes = Append(@, c.chg)]
    ELSE Idle

\* recordSafeChange: append to the copy just read, then rewrite the whole file.
RecordChange(c) ==
    IF c.mem.safe /\ UnderCap(c.mem) /\ c.mem.status = "active"
    THEN [c EXCEPT !.pc = "saveopen", !.mem.changes = Append(@, c.chg)]
    ELSE Idle

\* What a command does with the answer of Active.
Proceed(c) ==
    CASE c.op = "write"  -> CheckWrite(c)
      [] c.op = "record" -> RecordChange(c)
      [] c.op = "commit" ->
            IF c.id # None /\ c.mem.status = "active"
            THEN [c EXCEPT !.pc = "saveopen", !.mem.status = "committed"] ELSE Idle
      [] c.op = "rollback" ->
            IF c.id # None
            THEN [c EXCEPT !.pc = "undo", !.pos = Len(c.mem.changes)] ELSE Idle
      [] c.op = "watch" ->
            IF c.mem.safe THEN [c EXCEPT !.pc = "watching"] ELSE Idle
      [] c.op = "remove" ->
            IF c.id = None THEN [c EXCEPT !.pc = "forget"] ELSE Idle
      [] OTHER -> Idle

\* Active failed: every command gives up, except device remove, which goes on.
ProceedOnError(c) ==
    IF c.op = "remove" THEN [c EXCEPT !.pc = "forget", !.id = None] ELSE Idle

\* Mutant of ReadLock: takes an empty lock file for a session id.
ReadLockTakesEmpty(p) ==
    /\ cli[p].pc = "readlock"
    /\ IF lock[Key(p)] = Absent
       THEN Goto(p, Proceed(cli[p]))
       ELSE Goto(p, [cli[p] EXCEPT !.pc = "readjournal", !.id = lock[Key(p)]])
    /\ UNCHANGED <<files, inventory, routers, history>>

ReadLock(p) ==
    /\ cli[p].pc = "readlock"
    /\ \/ /\ lock[Key(p)] \in Ids
          /\ Goto(p, [cli[p] EXCEPT !.pc = "readjournal", !.id = lock[Key(p)]])
       \/ /\ lock[Key(p)] = Absent
          /\ Goto(p, Proceed(cli[p]))
       \/ /\ lock[Key(p)] = Empty
          /\ Goto(p, ProceedOnError(cli[p]))
    /\ UNCHANGED <<files, inventory, routers, history>>

ReadJournal(p) ==
    /\ cli[p].pc = "readjournal"
    /\ IF file[cli[p].id] = "whole"
       THEN Goto(p, Proceed([cli[p] EXCEPT !.mem = journal[cli[p].id]]))
       ELSE Goto(p, ProceedOnError(cli[p]))
    /\ UNCHANGED <<files, inventory, routers, history>>

StartCommand(p, o, d) ==
    /\ o # "begin"
    /\ Start(p, [Idle EXCEPT !.pc = "readlock", !.op = o, !.dev = d])

-----------------------------------------------------------------------------
(* A guarded write: the router first, then the journal. *)

\* Mutant of RouterWrite: the error of a write that did not happen is dropped.
RouterWriteUnchecked(p, c) ==
    /\ cli[p].pc = "run"
    /\ applied[c] = None
    /\ \/ applied' = [applied EXCEPT ![c] = cli[p].dev]
       \/ applied' = applied
    /\ Goto(p, [Idle EXCEPT !.pc = "readlock", !.op = "record",
                            !.dev = cli[p].dev, !.chg = c])
    /\ UNCHANGED <<files, inventory, undone, history>>

RouterWrite(p, c) ==
    /\ cli[p].pc = "run"
    /\ applied[c] = None
    /\ applied' = [applied EXCEPT ![c] = cli[p].dev]
    /\ Goto(p, [Idle EXCEPT !.pc = "readlock", !.op = "record",
                            !.dev = cli[p].dev, !.chg = c])
    /\ UNCHANGED <<files, inventory, undone, history>>

\* The router did it, the answer was lost: the command fails without journaling.
AmbiguousWrite(p, c) ==
    /\ Faults
    /\ cli[p].pc = "run"
    /\ applied[c] = None
    /\ applied' = [applied EXCEPT ![c] = cli[p].dev]
    /\ Done(p)
    /\ lost' = lost \cup {c}
    /\ UNCHANGED <<files, inventory, undone, raced, stuck, cut, kept>>

-----------------------------------------------------------------------------
(* Store.write of the in-memory session, and the end of the operation. *)

\* os.WriteFile truncates the journal, or creates it again after a purge.
SaveOpen(p) ==
    /\ cli[p].pc = "saveopen"
    /\ file' = [file EXCEPT ![cli[p].id] = "torn"]
    /\ journal' = [journal EXCEPT ![cli[p].id] = Blank]
    /\ Goto(p, [cli[p] EXCEPT !.pc = "savefill"])
    /\ UNCHANGED <<lock, inventory, routers, history>>

\* Mutant of AfterSave: commit does not remove the lock.
AfterSaveKeepsLock(c) ==
    CASE c.op \in {"record", "commit"} -> Idle
      [] c.op = "pend" -> [c EXCEPT !.pc = "undo", !.op = "autoroll", !.pos = Len(c.mem.changes)]
      [] OTHER -> [c EXCEPT !.pc = "unlock"]

\* Where an operation goes once its copy is on disk.
AfterSave(c) ==
    CASE c.op = "record" -> Idle
      [] c.op = "pend" -> [c EXCEPT !.pc = "undo", !.op = "autoroll", !.pos = Len(c.mem.changes)]
      [] OTHER -> [c EXCEPT !.pc = "unlock"]

SaveFill(p) ==
    /\ cli[p].pc = "savefill"
    /\ file' = [file EXCEPT ![cli[p].id] = "whole"]
    /\ journal' = [journal EXCEPT ![cli[p].id] = cli[p].mem]
    /\ kept' = IF cli[p].op = "commit" THEN kept \cup Entries(cli[p].mem) ELSE kept
    /\ Goto(p, AfterSave(cli[p]))
    /\ UNCHANGED <<lock, inventory, routers, raced, lost, stuck, cut>>

\* Watch marks the session a second time after Rollback already has.
AfterUnlock(c) ==
    IF c.op = "autoroll" THEN [c EXCEPT !.pc = "saveopen", !.op = "remark"] ELSE Idle

\* Mutant of Unlock: the lock of a closed session stays.
UnlockForgotten(p) ==
    /\ cli[p].pc = "unlock"
    /\ Goto(p, AfterUnlock(cli[p]))
    /\ UNCHANGED <<files, inventory, routers, history>>

\* os.Remove of the lock of the session's device, whichever session it names.
Unlock(p) ==
    /\ cli[p].pc = "unlock"
    /\ lock' = [lock EXCEPT ![Sanitize[cli[p].mem.dev]] = Absent]
    /\ Goto(p, AfterUnlock(cli[p]))
    /\ UNCHANGED <<file, journal, inventory, routers, history>>

-----------------------------------------------------------------------------
(* session rollback, and the rollback of session watch. *)

\* Inverses run from the last entry of the copy to the first.
Undo(p) ==
    /\ cli[p].pc = "undo"
    /\ cli[p].pos > 0
    /\ undone' = undone \cup {cli[p].mem.changes[cli[p].pos]}
    /\ Goto(p, [cli[p] EXCEPT !.pos = @ - 1])
    /\ UNCHANGED <<files, inventory, applied, history>>

MarkRolledBack(p) ==
    /\ cli[p].pc = "undo"
    /\ cli[p].pos = 0
    /\ Goto(p, [cli[p] EXCEPT !.pc = "saveopen", !.mem.status = "rolled_back",
                              !.mem.pending = FALSE])
    /\ UNCHANGED <<files, inventory, routers, history>>

\* Mutant of UndoFails: goes on with the next inverse.
UndoFailsGoesOn(p) ==
    /\ cli[p].pc = "undo"
    /\ cli[p].pos > 0
    /\ Goto(p, [cli[p] EXCEPT !.pos = @ - 1])
    /\ UNCHANGED <<files, inventory, routers, history>>

\* An inverse fails: rollback gives up, watch starts again from the last entry.
UndoFails(p) ==
    /\ cli[p].pc = "undo"
    /\ IF cli[p].op = "rollback"
       THEN Done(p)
       ELSE Goto(p, [cli[p] EXCEPT !.pos = Len(cli[p].mem.changes)])
    /\ UNCHANGED <<files, inventory, routers, history>>

\* Enough probes failed; the copy is the one read when the watch began.
LinkLost(p) ==
    /\ cli[p].pc = "watching"
    /\ IF cli[p].mem.status = "active"
       THEN Goto(p, [cli[p] EXCEPT !.pc = "saveopen", !.op = "pend", !.mem.pending = TRUE])
       ELSE Goto(p, [cli[p] EXCEPT !.pc = "undo", !.op = "autoroll",
                                   !.pos = Len(cli[p].mem.changes)])
    /\ UNCHANGED <<files, inventory, routers, history>>

-----------------------------------------------------------------------------
(* ros device remove: forget the device, then purge its session files. *)

\* --force skips the active-session guard.
StartForcedRemove(p, d) ==
    Start(p, [Idle EXCEPT !.pc = "forget", !.op = "remove", !.dev = d])

Forget(p) ==
    /\ cli[p].pc = "forget"
    /\ inventory' = inventory \ {cli[p].dev}
    /\ Goto(p, [cli[p] EXCEPT !.pc = "dropunlock"])
    /\ UNCHANGED <<files, routers, history>>

\* Mutant of PurgeLock: the journals go although the lock could not be removed.
PurgeLockUnchecked(p) ==
    /\ cli[p].pc = "dropunlock"
    /\ lock' \in {lock, [lock EXCEPT ![Key(p)] = Absent]}
    /\ Goto(p, [cli[p] EXCEPT !.pc = "purge"])
    /\ UNCHANGED <<file, journal, inventory, routers, history>>

PurgeLock(p) ==
    /\ cli[p].pc = "dropunlock"
    /\ lock' = [lock EXCEPT ![Key(p)] = Absent]
    /\ Goto(p, [cli[p] EXCEPT !.pc = "purge"])
    /\ UNCHANGED <<file, journal, inventory, routers, history>>

\* Every journal that parses and belongs to the removed device goes.
PurgeJournals(p) ==
    LET mine == {i \in Ids : file[i] = "whole" /\ journal[i].dev = cli[p].dev}
    IN /\ cli[p].pc = "purge"
       /\ file' = [i \in Ids |-> IF i \in mine THEN "absent" ELSE file[i]]
       /\ journal' = [i \in Ids |-> IF i \in mine THEN Blank ELSE journal[i]]
       /\ Done(p)
       /\ UNCHANGED <<lock, inventory, routers, history>>

-----------------------------------------------------------------------------
(* Interruptions: an interrupt, a timeout, a crash, a failed system call. *)

\* Nothing of the command has taken effect yet, or the watch is only probing.
Harmless(c) ==
    \/ c.pc \in {"stat", "create", "run", "watching", "forget"}
    \/ c.pc \in {"readlock", "readjournal"} /\ c.op # "record"

Quit(p) ==
    /\ Harmless(cli[p])
    /\ Done(p)
    /\ UNCHANGED <<files, inventory, routers, history>>

\* What is lost when process p stops here.
Spoil(p) ==
    /\ lost' = lost \cup (IF cli[p].op = "record" THEN {cli[p].chg} ELSE {})
                   \cup (IF cli[p].pc = "savefill" THEN Entries(cli[p].mem) ELSE {})
    /\ stuck' = IF cli[p].pc = "unlock" THEN stuck \cup {Key(p)} ELSE stuck
    /\ cut' = IF cli[p].pc \in {"lockfill", "savefill"} THEN cut \cup {Key(p)} ELSE cut

Crash(p) ==
    /\ Faults
    /\ cli[p].pc # "idle" /\ ~Harmless(cli[p])
    /\ Done(p)
    /\ Spoil(p)
    /\ UNCHANGED <<files, inventory, routers, raced, kept>>

\* What a command does when the system call it is about to make fails.
OnIOError(c) ==
    CASE c.pc \in {"lockopen", "lockfill"} -> [c EXCEPT !.pc = "cleanup"]
      [] c.pc = "unlock" -> AfterUnlock(c)
      [] c.pc \in {"saveopen", "savefill"} /\ c.op \in {"pend", "autoroll"} ->
            [c EXCEPT !.pc = "undo", !.op = "autoroll", !.pos = Len(c.mem.changes)]
      [] OTHER -> Idle

IOFails(p) ==
    /\ Faults
    /\ cli[p].pc \in {"fill", "lockopen", "lockfill", "cleanup",
                      "saveopen", "savefill", "unlock", "dropunlock", "purge"}
    /\ Goto(p, OnIOError(cli[p]))
    /\ Spoil(p)
    /\ UNCHANGED <<files, inventory, routers, raced, kept>>

-----------------------------------------------------------------------------

Init ==
    /\ lock = [k \in Keys |-> Absent]
    /\ file = [i \in Ids |-> "unused"]
    /\ journal = [i \in Ids |-> Blank]
    /\ inventory = Devices
    /\ applied = [c \in Changes |-> None]
    /\ undone = {}
    /\ cli = [p \in Procs |-> Idle]
    /\ raced = {}
    /\ lost = {}
    /\ stuck = {}
    /\ cut = {}
    /\ kept = {}

Next == \E p \in Procs :
    \/ \E d \in Devices :
          \/ \E safe \in SafeModes : StartBegin(p, d, safe)
          \/ \E o \in Op : StartCommand(p, o, d)
          \/ StartForcedRemove(p, d)
    \/ Begin(p)
    \/ ReadLock(p) \/ ReadJournal(p)
    \/ \E c \in Changes : RouterWrite(p, c) \/ AmbiguousWrite(p, c)
    \/ SaveOpen(p) \/ SaveFill(p) \/ Unlock(p)
    \/ Undo(p) \/ MarkRolledBack(p) \/ UndoFails(p) \/ LinkLost(p)
    \/ Forget(p) \/ PurgeLock(p) \/ PurgeJournals(p)
    \/ Quit(p) \/ Crash(p) \/ IOFails(p)

Spec == Init /\ [][Next]_vars

-----------------------------------------------------------------------------
(* What the store guarantees whatever overlaps and whatever fails. *)

Open(i) == file[i] = "whole" /\ journal[i].status = "active"
Closed(i) == file[i] = "whole" /\ journal[i].status # "active"
Removed(k) == \E d \in Devices \ inventory : Sanitize[d] = k

\* A lock naming a committed or rolled-back session is about to be removed, or
\* its removal failed: Commit and MarkRolledBack write the final status first
\* and ignore the error of os.Remove.
ClosedIsReleased ==
    \A k \in Keys, i \in Ids :
        lock[k] = i /\ Closed(i) =>
            k \in stuck \/ \E p \in Procs : cli[p].pc = "unlock" /\ cli[p].id = i

\* Every entry of a journal, and of every copy a process holds, is a change that
\* was made on a router sharing the session's lock key: a write is journaled
\* after it has run, into the session of the device it ran on.
JournaledWasApplied ==
    LET Sound(s) == \A c \in Entries(s) :
            applied[c] # None /\ Sanitize[applied[c]] = Sanitize[s.dev]
    IN /\ \A i \in Ids : Sound(journal[i])
       /\ \A p \in Procs : Sound(cli[p].mem)

\* A journal never says rolled_back while the inverse of one of its entries has
\* not run, however many commands and watches rewrite it.
RolledBackMeansUndone ==
    \A i \in Ids : file[i] = "whole" /\ journal[i].status = "rolled_back" =>
        Entries(journal[i]) \subseteq undone

-----------------------------------------------------------------------------
(* What it guarantees as long as commands on a key run one after the other. *)

\* A lock that is there stands for an open session of its key, which commit and
\* rollback can read, or a command is about to fill or remove it.  Two things
\* are left behind for good, and only by a command that was cut short in the
\* middle of a write: an empty lock or a torn journal (begin then refuses and
\* no other command finds a session), and the lock of a closed session.  No
\* lock names a journal that BeginWith took back or PurgeDevice deleted.
LockIsUsable ==
    \A k \in Keys \ raced : lock[k] # Absent =>
        \/ lock[k] \in Ids /\ Open(lock[k]) /\ Sanitize[journal[lock[k]].dev] = k
        \/ \E p \in Live(k) : cli[p].pc \in {"lockfill", "savefill", "unlock"}
        \/ k \in cut /\ (lock[k] = Empty \/ file[lock[k]] = "torn")
        \/ k \in stuck /\ lock[k] \in Ids /\ Closed(lock[k])

\* Every write on a device that requires a safe session is in a journal, or in
\* the memory of the command recording it, unless that command, or a rewrite of
\* the journal, was cut short: guard and record see one session.  A stuck lock
\* is the exception: the guard does not look at the status of the session, so
\* under a committed one the write runs and AppendChange refuses it.
GuardedWritesJournaled ==
    \A c \in Changes :
        /\ applied[c] \in NeedSafe
        /\ Sanitize[applied[c]] \notin raced \cup stuck
        /\ ~Removed(Sanitize[applied[c]])
        => \/ c \in lost
           \/ \E i \in Ids : c \in Entries(journal[i])
           \/ \E p \in Procs : c = cli[p].chg \/ c \in Entries(cli[p].mem)

\* An open session with entries is the one its lock names, so a pending change
\* is never beyond the reach of commit and rollback (CHANGELOG.md: "pending
\* changes are no longer orphaned without a rollback path"), crashes included.
PendingReachable ==
    \A i \in Ids : Open(i) /\ journal[i].changes # <<>> =>
        LET k == Sanitize[journal[i].dev]
        IN lock[k] = i \/ k \in raced \/ Removed(k)

\* What commit wrote stays: no later command undoes a change of a committed
\* session (session commit: "keep changes, clear journal").
CommitKeepsChanges ==
    [][\A c \in undone' \ undone :
          c \in kept => Sanitize[applied[c]] \in raced \cup stuck]_vars

-----------------------------------------------------------------------------
(* What the documentation says without those conditions. *)

\* docs/TROUBLESHOOTING.md: "Only one active session per device is allowed."
OneActiveSession ==
    \A i, j \in Ids : Open(i) /\ Open(j) /\ journal[i].dev = journal[j].dev => i = j

\* cmd/session.go, session watch: "Heartbeat the device and auto-rollback the safe
\* session on link loss".  When a watch has undone its copy and is about to mark
\* the session rolled back, nothing in the session's journal is left to undo.
AutoRollbackComplete ==
    \A p \in Procs : cli[p].op = "autoroll" /\ cli[p].pc = "saveopen" =>
        Entries(journal[cli[p].id]) \subseteq undone
=============================================================================
