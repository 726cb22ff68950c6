------------------------- MODULE SessionStoreProofs -------------------------
(* Proofs about SessionStore, for every value of its constants.            *)
EXTENDS SessionStore, TLAPS

(***************************************************************************)
(* Part 1.  Typing.  TypeOK is not inductive: the lock is filled with the  *)
(* id a process carries and an inverse is looked up at the position a      *)
(* process is at, so the proof needs to know which fields are meaningful   *)
(* at which stage of a command.                                            *)
(***************************************************************************)

\* Stages at which a process works on a session.
WithSession == {"fill", "lockopen", "lockfill", "cleanup", "readjournal",
                "watching", "undo", "saveopen", "savefill", "unlock"}

\* Which fields of a local state are meaningful at which stage.
StageOK(c) ==
    /\ c.pc # "idle" => c.dev \in Devices
    /\ c.pc \in WithSession => c.id \in Ids
    /\ c.pc = "readlock" => c.id = None /\ c.mem = Blank
    /\ c.pc = "undo" => c.pos <= Len(c.mem.changes)
    /\ c.op = "record" => c.chg \in Changes

CliOK(c) == c \in Cli /\ StageOK(c)

TypeInv == TypeOK /\ \A p \in Procs : StageOK(cli[p])

\* The contents of no session are well-typed.
LEMMA BlankType == Blank \in Session
BY DEF Blank, Session, Status

\* The local state of a slot without a process is in order.
LEMMA IdleOK == CliOK(Idle)
BY BlankType DEF CliOK, StageOK, Cli, Idle, PC, Op, WithSession

\* The guard of a write leaves the local state in order.
LEMMA CheckWriteOK ==
    ASSUME NEW c, CliOK(c), c.pc # "idle"
    PROVE  CliOK(CheckWrite(c))
<1>1. CASE CheckWrite(c) = Idle
  BY <1>1, IdleOK
<1>2. CASE CheckWrite(c) = [c EXCEPT !.pc = "run"]
  BY <1>2 DEF CliOK, StageOK, Cli, PC, WithSession
<1> QED BY <1>1, <1>2 DEF CheckWrite

\* Recording a change appends a change to a copy that is a session.
LEMMA RecordChangeOK ==
    ASSUME NEW c, CliOK(c), c.op = "record",
           c.pc = "readjournal" \/ (c.pc = "readlock" /\ c.mem = Blank)
    PROVE  CliOK(RecordChange(c))
<1>1. CASE RecordChange(c) = Idle
  BY <1>1, IdleOK
<1>2. CASE /\ RecordChange(c) = [c EXCEPT !.pc = "saveopen", !.mem.changes = Append(@, c.chg)]
           /\ c.mem.safe
  <2>1. c.pc = "readjournal" /\ c.id \in Ids /\ c.chg \in Changes /\ c.dev \in Devices
    BY <1>2 DEF CliOK, StageOK, Cli, Blank, WithSession
  <2>2. c.mem \in Session /\ c.mem.changes \in Seq(Changes)
    BY DEF CliOK, Cli, Session
  <2>3. Append(c.mem.changes, c.chg) \in Seq(Changes)
    BY <2>1, <2>2
  <2>4. [c.mem EXCEPT !.changes = Append(@, c.chg)] \in Session
    BY <2>2, <2>3 DEF Session
  <2> QED BY <1>2, <2>1, <2>4 DEF CliOK, StageOK, Cli, PC, WithSession
<1> QED BY <1>1, <1>2 DEF RecordChange

\* Moving to a stage that asks nothing new of the other fields.
LEMMA AdvanceOK ==
    ASSUME NEW c, CliOK(c), c.pc # "idle",
           NEW q \in PC \ {"readlock", "undo"}, q \in WithSession => c.id \in Ids
    PROVE  CliOK([c EXCEPT !.pc = q])
BY DEF CliOK, StageOK, Cli

\* Starting to undo the copy of a session, from its last entry.
LEMMA UndoOK ==
    ASSUME NEW c, CliOK(c), c.pc # "idle", c.id \in Ids
    PROVE  CliOK([c EXCEPT !.pc = "undo", !.pos = Len(c.mem.changes)])
<1> DEFINE d == [c EXCEPT !.pc = "undo", !.pos = Len(c.mem.changes)]
<1>1. Len(c.mem.changes) \in Nat
  BY DEF CliOK, Cli, Session
<1>2. d \in Cli
  BY <1>1 DEF CliOK, Cli, PC, Op
<1>3. /\ d.pc = "undo" /\ d.id = c.id /\ d.dev = c.dev /\ d.mem = c.mem /\ d.chg = c.chg
      /\ d.pos = Len(c.mem.changes) /\ d.op \in {c.op, "autoroll"}
  BY <1>1 DEF CliOK, Cli
<1>4. StageOK(d)
  <2> HIDE DEF d
  <2> QED BY <1>1, <1>3 DEF CliOK, StageOK
<1> QED BY <1>2, <1>4 DEF CliOK

\* A watch that has marked its session starts to undo at the last entry of its copy.
LEMMA AutorollOK ==
    ASSUME NEW c, CliOK(c), c.pc # "idle", c.id \in Ids
    PROVE  CliOK([c EXCEPT !.pc = "undo", !.op = "autoroll", !.pos = Len(c.mem.changes)])
<1> DEFINE d == [c EXCEPT !.pc = "undo", !.op = "autoroll", !.pos = Len(c.mem.changes)]
<1>1. Len(c.mem.changes) \in Nat
  BY DEF CliOK, Cli, Session
<1>2. d \in Cli
  BY <1>1 DEF CliOK, Cli, PC, Op
<1>3. /\ d.pc = "undo" /\ d.id = c.id /\ d.dev = c.dev /\ d.mem = c.mem /\ d.chg = c.chg
      /\ d.pos = Len(c.mem.changes) /\ d.op \in {c.op, "autoroll"}
  BY <1>1 DEF CliOK, Cli
<1>4. StageOK(d)
  <2> HIDE DEF d
  <2> QED BY <1>1, <1>3 DEF CliOK, StageOK
<1> QED BY <1>2, <1>4 DEF CliOK

\* Rewriting the status of the copy, on the way to saving it.
LEMMA RestatusOK ==
    ASSUME NEW c, CliOK(c), c.pc # "idle", c.id \in Ids, NEW s \in Status, NEW b \in BOOLEAN
    PROVE  /\ CliOK([c EXCEPT !.pc = "saveopen", !.mem.status = s])
           /\ CliOK([c EXCEPT !.pc = "saveopen", !.mem.status = s, !.mem.pending = b])
           /\ CliOK([c EXCEPT !.pc = "saveopen", !.op = "pend", !.mem.pending = b])
<1>1. /\ [c.mem EXCEPT !.status = s] \in Session
      /\ [c.mem EXCEPT !.status = s, !.pending = b] \in Session
      /\ [c.mem EXCEPT !.pending = b] \in Session
  BY DEF CliOK, Cli, Session
<1>2. CliOK([c EXCEPT !.pc = "saveopen", !.mem.status = s])
  BY <1>1 DEF CliOK, StageOK, Cli, PC
<1>3. CliOK([c EXCEPT !.pc = "saveopen", !.mem.status = s, !.mem.pending = b])
  BY <1>1 DEF CliOK, StageOK, Cli, PC
<1>4. CliOK([c EXCEPT !.pc = "saveopen", !.op = "pend", !.mem.pending = b])
  BY <1>1 DEF CliOK, StageOK, Cli, PC, Op
<1> QED BY <1>2, <1>3, <1>4

\* Whatever Active answered, the command goes on with its fields in order.
LEMMA ProceedOK ==
    ASSUME NEW c, CliOK(c),
           \/ c.pc = "readjournal" /\ c.id \in Ids
           \/ c.pc = "readlock" /\ c.id = None /\ c.mem = Blank
    PROVE  CliOK(Proceed(c))
<1> USE StoreAssumption
<1>1. c.pc # "idle" /\ (c.id # None => c.id \in Ids) /\ (c.mem.safe => c.id \in Ids)
  BY DEF Blank
<1>2. CASE c.op = "write"
  BY <1>1, <1>2, CheckWriteOK DEF Proceed
<1>3. CASE c.op = "record"
  BY <1>1, <1>3, RecordChangeOK DEF Proceed
<1>4. CASE c.op = "commit"
  BY <1>1, <1>4, IdleOK, RestatusOK DEF Proceed, Status
<1>5. CASE c.op = "rollback"
  BY <1>1, <1>5, IdleOK, UndoOK DEF Proceed
<1>6. CASE c.op = "watch"
  BY <1>1, <1>6, IdleOK, AdvanceOK DEF Proceed, PC
<1>7. CASE c.op = "remove"
  BY <1>1, <1>7, IdleOK, AdvanceOK DEF Proceed, PC, WithSession
<1>8. CASE c.op \notin {"write", "record", "commit", "rollback", "watch", "remove"}
  BY <1>8, IdleOK DEF Proceed
<1> QED BY <1>2, <1>3, <1>4, <1>5, <1>6, <1>7, <1>8

\* A command that Active failed ends, or is a removal and goes on.
LEMMA ProceedOnErrorOK ==
    ASSUME NEW c, CliOK(c), c.pc # "idle"
    PROVE  CliOK(ProceedOnError(c))
<1>1. CASE c.op = "remove"
  <2>1. ProceedOnError(c) = [c EXCEPT !.pc = "forget", !.id = None]
    BY <1>1 DEF ProceedOnError
  <2> QED BY <2>1 DEF CliOK, StageOK, Cli, PC, WithSession
<1>2. CASE c.op # "remove"
  BY <1>2, IdleOK DEF ProceedOnError
<1> QED BY <1>1, <1>2

\* After a save the command has what its next stage needs.
LEMMA AfterSaveOK ==
    ASSUME NEW c, CliOK(c), c.pc = "savefill"
    PROVE  CliOK(AfterSave(c))
<1>1. c.pc # "idle" /\ c.id \in Ids
  BY DEF CliOK, StageOK, WithSession
<1>2. CASE c.op = "record"
  BY <1>2, IdleOK DEF AfterSave
<1>3. CASE c.op = "pend"
  BY <1>1, <1>3, AutorollOK DEF AfterSave
<1>4. CASE c.op \notin {"record", "pend"}
  BY <1>1, <1>4, AdvanceOK DEF AfterSave, PC
<1> QED BY <1>2, <1>3, <1>4

\* After the lock is gone a watch still has the session to mark again.
LEMMA AfterUnlockOK ==
    ASSUME NEW c, CliOK(c), c.pc = "unlock"
    PROVE  CliOK(AfterUnlock(c))
<1>1. c.pc # "idle" /\ c.id \in Ids
  BY DEF CliOK, StageOK, WithSession
<1>2. CASE c.op = "autoroll"
  <2>1. AfterUnlock(c) = [c EXCEPT !.pc = "saveopen", !.op = "remark"]
    BY <1>2 DEF AfterUnlock
  <2> QED BY <1>1, <2>1 DEF CliOK, StageOK, Cli, PC, Op
<1>3. CASE c.op # "autoroll"
  BY <1>3, IdleOK DEF AfterUnlock
<1> QED BY <1>2, <1>3

\* A failed file operation leaves the local state in order.
LEMMA OnIOErrorOK ==
    ASSUME NEW c, CliOK(c), c.pc # "idle"
    PROVE  CliOK(OnIOError(c))
<1>1. CASE c.pc \in {"lockopen", "lockfill"}
  <2>1. c.id \in Ids
    BY <1>1 DEF CliOK, StageOK, WithSession
  <2> QED BY <1>1, <2>1, AdvanceOK DEF OnIOError, PC
<1>2. CASE c.pc = "unlock"
  BY <1>2, AfterUnlockOK DEF OnIOError
<1>3. CASE c.pc \in {"saveopen", "savefill"} /\ c.op \in {"pend", "autoroll"}
  <2>1. c.id \in Ids
    BY <1>3 DEF CliOK, StageOK, WithSession
  <2> QED BY <1>3, <2>1, AutorollOK DEF OnIOError
<1>4. CASE /\ c.pc \notin {"lockopen", "lockfill", "unlock"}
           /\ ~(c.pc \in {"saveopen", "savefill"} /\ c.op \in {"pend", "autoroll"})
  BY <1>4, IdleOK DEF OnIOError
<1> QED BY <1>1, <1>2, <1>3, <1>4

\* A step of one process only has to show that process's new local state in order.
LEMMA GotoOK ==
    ASSUME TypeInv, NEW p \in Procs, NEW c, CliOK(c), Goto(p, c)
    PROVE  cli' \in [Procs -> Cli] /\ \A q \in Procs : StageOK(cli'[q])
BY DEF TypeInv, TypeOK, Goto, CliOK

\* A live process has a device, hence a lock key, and a local state in order.
LEMMA LiveOK ==
    ASSUME TypeInv, NEW p \in Procs
    PROVE  /\ CliOK(cli[p])
           /\ cli[p].pc # "idle" => cli[p].dev \in Devices /\ Key(p) \in Keys
BY StoreAssumption DEF TypeInv, TypeOK, CliOK, StageOK, Key

\* A new process is typed.
LEMMA StartOK ==
    ASSUME TypeInv, NEW p \in Procs, NEW c, c.dev \in Devices => CliOK(c), Start(p, c)
    PROVE  TypeInv'
<1>1. c.dev \in Devices /\ Sanitize[c.dev] \in Keys
  BY StoreAssumption DEF Start, TypeInv, TypeOK
<1>2. cli' \in [Procs -> Cli] /\ \A q \in Procs : StageOK(cli'[q])
  BY <1>1, GotoOK DEF Start
<1> QED BY <1>1, <1>2 DEF Start, TypeInv, TypeOK, files, routers

\* The steps of session begin are typed.
LEMMA BeginTyped ==
    ASSUME TypeInv, NEW p \in Procs, Begin(p)
    PROVE  TypeInv'
<1> USE DEF TypeInv, TypeOK, files, routers, history
<1>0. CliOK(cli[p]) /\ (cli[p].pc \in WithSession => cli[p].id \in Ids)
  BY LiveOK DEF CliOK, StageOK
<1>1. CASE BeginStat(p)
  <2>1. CliOK([cli[p] EXCEPT !.pc = "create"])
    BY <1>0, <1>1, AdvanceOK DEF BeginStat, PC, WithSession
  <2>2. cli' \in [Procs -> Cli] /\ \A q \in Procs : StageOK(cli'[q])
    BY <1>1, <2>1, IdleOK, GotoOK DEF BeginStat, Done
  <2> QED BY <1>1, <2>2 DEF BeginStat
<1>2. ASSUME NEW i \in Ids, BeginCreate(p, i) PROVE TypeInv'
  <2>1. CliOK([cli[p] EXCEPT !.pc = "fill", !.id = i])
    BY <1>0, <1>2 DEF BeginCreate, CliOK, StageOK, Cli, PC
  <2>2. cli' \in [Procs -> Cli] /\ \A q \in Procs : StageOK(cli'[q])
    BY <1>2, <2>1, GotoOK DEF BeginCreate
  <2> QED BY <1>2, <2>2 DEF BeginCreate, FileState
<1>3. CASE BeginFill(p)
  <2>1. CliOK([cli[p] EXCEPT !.pc = "lockopen"])
    BY <1>0, <1>3, AdvanceOK DEF BeginFill, PC, WithSession
  <2>2. cli' \in [Procs -> Cli] /\ \A q \in Procs : StageOK(cli'[q])
    BY <1>3, <2>1, GotoOK DEF BeginFill
  <2>3. cli[p].mem \in Session
    BY DEF Cli
  <2> QED BY <1>3, <2>2, <2>3 DEF BeginFill, FileState
<1>4. CASE BeginLockOpen(p)
  <2>1. CliOK([cli[p] EXCEPT !.pc = "lockfill"])
    BY <1>0, <1>4, AdvanceOK DEF BeginLockOpen, PC, WithSession
  <2>2. cli' \in [Procs -> Cli] /\ \A q \in Procs : StageOK(cli'[q])
    BY <1>4, <2>1, GotoOK DEF BeginLockOpen
  <2> QED BY <1>4, <2>2 DEF BeginLockOpen
<1>5. CASE BeginLockFill(p)
  <2>1. cli[p].id \in Ids
    BY <1>0, <1>5 DEF BeginLockFill, WithSession
  <2>2. cli' \in [Procs -> Cli] /\ \A q \in Procs : StageOK(cli'[q])
    BY <1>5, IdleOK, GotoOK DEF BeginLockFill, Done
  <2> QED BY <1>5, <2>1, <2>2 DEF BeginLockFill
<1>6. CASE BeginCleanup(p)
  <2>2. cli' \in [Procs -> Cli] /\ \A q \in Procs : StageOK(cli'[q])
    BY <1>6, IdleOK, GotoOK DEF BeginCleanup, Done
  <2> QED BY <1>6, <2>2, BlankType DEF BeginCleanup, FileState
<1> QED BY <1>1, <1>2, <1>3, <1>4, <1>5, <1>6 DEF Begin

\* The steps of Active are typed.
LEMMA ReadTyped ==
    ASSUME TypeInv, NEW p \in Procs, ReadLock(p) \/ ReadJournal(p)
    PROVE  TypeInv'
<1> USE DEF TypeInv, TypeOK, files, routers, history
<1>0. CliOK(cli[p])
  BY LiveOK
<1>1. CASE ReadLock(p)
  <2>1. CASE /\ lock[Key(p)] \in Ids
             /\ Goto(p, [cli[p] EXCEPT !.pc = "readjournal", !.id = lock[Key(p)]])
    <3>1. CliOK([cli[p] EXCEPT !.pc = "readjournal", !.id = lock[Key(p)]])
      BY <1>0, <1>1, <2>1 DEF ReadLock, CliOK, StageOK, Cli, PC
    <3> QED BY <1>1, <2>1, <3>1, GotoOK DEF ReadLock
  <2>2. CASE Goto(p, Proceed(cli[p]))
    <3>1. CliOK(Proceed(cli[p]))
      BY <1>0, <1>1, ProceedOK DEF ReadLock, CliOK, StageOK
    <3> QED BY <1>1, <2>2, <3>1, GotoOK DEF ReadLock
  <2>3. CASE Goto(p, ProceedOnError(cli[p]))
    <3>1. CliOK(ProceedOnError(cli[p]))
      BY <1>0, <1>1, ProceedOnErrorOK DEF ReadLock
    <3> QED BY <1>1, <2>3, <3>1, GotoOK DEF ReadLock
  <2> QED BY <1>1, <2>1, <2>2, <2>3 DEF ReadLock
<1>2. CASE ReadJournal(p)
  <2>1. cli[p].id \in Ids
    BY <1>0, <1>2 DEF ReadJournal, CliOK, StageOK, WithSession
  <2>2. CASE Goto(p, Proceed([cli[p] EXCEPT !.mem = journal[cli[p].id]]))
    <3>1. CliOK([cli[p] EXCEPT !.mem = journal[cli[p].id]])
      BY <1>0, <1>2, <2>1 DEF ReadJournal, CliOK, StageOK, Cli
    <3>2. CliOK(Proceed([cli[p] EXCEPT !.mem = journal[cli[p].id]]))
      BY <1>0, <1>2, <2>1, <3>1, ProceedOK DEF ReadJournal, CliOK, Cli
    <3> QED BY <1>2, <2>2, <3>2, GotoOK DEF ReadJournal
  <2>3. CASE Goto(p, ProceedOnError(cli[p]))
    <3>1. CliOK(ProceedOnError(cli[p]))
      BY <1>0, <1>2, ProceedOnErrorOK DEF ReadJournal
    <3> QED BY <1>2, <2>3, <3>1, GotoOK DEF ReadJournal
  <2> QED BY <1>2, <2>2, <2>3 DEF ReadJournal
<1> QED BY <1>1, <1>2

\* The router write and the rewrite of the journal are typed.
LEMMA WriteTyped ==
    ASSUME TypeInv, NEW p \in Procs,
           \/ \E d \in Changes : RouterWrite(p, d) \/ AmbiguousWrite(p, d)
           \/ SaveOpen(p) \/ SaveFill(p) \/ Unlock(p)
    PROVE  TypeInv'
<1> USE DEF TypeInv, TypeOK, files, routers, history
<1>0. CliOK(cli[p]) /\ (cli[p].pc \in WithSession => cli[p].id \in Ids)
  BY LiveOK DEF CliOK, StageOK
<1>1. ASSUME NEW d \in Changes, RouterWrite(p, d) PROVE TypeInv'
  <2> DEFINE c == [Idle EXCEPT !.pc = "readlock", !.op = "record",
                               !.dev = cli[p].dev, !.chg = d]
  <2>1. CliOK(c)
    <3>1. cli[p].dev \in Devices
      BY <1>1, LiveOK DEF RouterWrite
    <3> QED BY <3>1, BlankType DEF CliOK, StageOK, Cli, Idle, PC, Op, WithSession
  <2>2. cli' \in [Procs -> Cli] /\ \A q \in Procs : StageOK(cli'[q])
    BY <1>1, <2>1, GotoOK DEF RouterWrite
  <2>3. cli[p].dev \in Devices
    BY <1>1, LiveOK DEF RouterWrite
  <2> QED BY <1>1, <2>2, <2>3 DEF RouterWrite
<1>2. ASSUME NEW d \in Changes, AmbiguousWrite(p, d) PROVE TypeInv'
  <2>1. cli[p].dev \in Devices
    BY <1>2, LiveOK DEF AmbiguousWrite
  <2>2. cli' \in [Procs -> Cli] /\ \A q \in Procs : StageOK(cli'[q])
    BY <1>2, IdleOK, GotoOK DEF AmbiguousWrite, Done
  <2> QED BY <1>2, <2>1, <2>2 DEF AmbiguousWrite
<1>3. CASE SaveOpen(p)
  <2>1. CliOK([cli[p] EXCEPT !.pc = "savefill"])
    BY <1>0, <1>3, AdvanceOK DEF SaveOpen, PC, WithSession
  <2>2. cli' \in [Procs -> Cli] /\ \A q \in Procs : StageOK(cli'[q])
    BY <1>3, <2>1, GotoOK DEF SaveOpen
  <2> QED BY <1>3, <2>2, BlankType DEF SaveOpen, FileState
<1>4. CASE SaveFill(p)
  <2>1. CliOK(AfterSave(cli[p]))
    BY <1>0, <1>4, AfterSaveOK DEF SaveFill
  <2>2. cli' \in [Procs -> Cli] /\ \A q \in Procs : StageOK(cli'[q])
    BY <1>4, <2>1, GotoOK DEF SaveFill
  <2>3. cli[p].mem \in Session /\ Entries(cli[p].mem) \subseteq Changes
    BY DEF Cli, Session, Entries
  <2> QED BY <1>4, <2>2, <2>3 DEF SaveFill, FileState
<1>5. CASE Unlock(p)
  <2>1. CliOK(AfterUnlock(cli[p]))
    BY <1>0, <1>5, AfterUnlockOK DEF Unlock
  <2>2. cli' \in [Procs -> Cli] /\ \A q \in Procs : StageOK(cli'[q])
    BY <1>5, <2>1, GotoOK DEF Unlock
  <2> QED BY <1>5, <2>2 DEF Unlock
<1> QED BY <1>1, <1>2, <1>3, <1>4, <1>5

\* The steps of a rollback, by hand or by a watch, are typed.
LEMMA RollbackTyped ==
    ASSUME TypeInv, NEW p \in Procs,
           Undo(p) \/ MarkRolledBack(p) \/ UndoFails(p) \/ LinkLost(p)
    PROVE  TypeInv'
<1> USE DEF TypeInv, TypeOK, files, routers, history
<1>0. CliOK(cli[p]) /\ (cli[p].pc \in WithSession => cli[p].id \in Ids)
  BY LiveOK DEF CliOK, StageOK
<1>1. CASE Undo(p)
  <2>1. /\ cli[p].pos \in Nat /\ cli[p].mem.changes \in Seq(Changes)
        /\ cli[p].pos > 0 /\ cli[p].pos <= Len(cli[p].mem.changes)
    BY <1>0, <1>1 DEF Undo, CliOK, StageOK, Cli, Session
  <2>2. cli[p].mem.changes[cli[p].pos] \in Changes /\ cli[p].pos - 1 \in Nat
    BY <2>1
  <2>3. CliOK([cli[p] EXCEPT !.pos = @ - 1])
    <3> DEFINE d == [cli[p] EXCEPT !.pos = @ - 1]
    <3>1. d \in Cli
      BY <2>2 DEF Cli
    <3>2. /\ d.pc = cli[p].pc /\ d.id = cli[p].id /\ d.dev = cli[p].dev /\ d.op = cli[p].op
          /\ d.mem = cli[p].mem /\ d.chg = cli[p].chg /\ d.pos = cli[p].pos - 1
      BY DEF Cli
    <3>3. StageOK(d)
      <4> HIDE DEF d
      <4>1. Len(cli[p].mem.changes) \in Nat
        BY <2>1
      <4> QED BY <1>0, <2>1, <3>2, <4>1 DEF CliOK, StageOK
    <3> QED BY <3>1, <3>3 DEF CliOK
  <2>4. cli' \in [Procs -> Cli] /\ \A q \in Procs : StageOK(cli'[q])
    BY <1>1, <2>3, GotoOK DEF Undo
  <2> QED BY <1>1, <2>2, <2>4 DEF Undo
<1>2. CASE MarkRolledBack(p)
  <2>1. CliOK([cli[p] EXCEPT !.pc = "saveopen", !.mem.status = "rolled_back",
                             !.mem.pending = FALSE])
    BY <1>0, <1>2, RestatusOK DEF MarkRolledBack, Status, WithSession
  <2> QED BY <1>2, <2>1, GotoOK DEF MarkRolledBack
<1>3. CASE UndoFails(p)
  <2>1. CliOK([cli[p] EXCEPT !.pos = Len(cli[p].mem.changes)])
    <3>1. CliOK([cli[p] EXCEPT !.pc = "undo", !.pos = Len(cli[p].mem.changes)])
      BY <1>0, <1>3, UndoOK DEF UndoFails, WithSession
    <3>2. [cli[p] EXCEPT !.pc = "undo", !.pos = Len(cli[p].mem.changes)]
            = [cli[p] EXCEPT !.pos = Len(cli[p].mem.changes)]
      BY <1>3 DEF UndoFails, Cli
    <3> QED BY <3>1, <3>2
  <2>2. cli' \in [Procs -> Cli] /\ \A q \in Procs : StageOK(cli'[q])
    BY <1>3, <2>1, IdleOK, GotoOK DEF UndoFails, Done
  <2> QED BY <1>3, <2>2 DEF UndoFails
<1>4. CASE LinkLost(p)
  <2>0. cli[p].id \in Ids /\ cli[p].pc # "idle"
    BY <1>0, <1>4 DEF LinkLost, WithSession
  <2>1. CliOK([cli[p] EXCEPT !.pc = "saveopen", !.op = "pend", !.mem.pending = TRUE])
    BY <1>0, <2>0, RestatusOK DEF Status
  <2>2. CliOK([cli[p] EXCEPT !.pc = "undo", !.op = "autoroll",
                             !.pos = Len(cli[p].mem.changes)])
    BY <1>0, <2>0, AutorollOK
  <2>3. cli' \in [Procs -> Cli] /\ \A q \in Procs : StageOK(cli'[q])
    BY <1>4, <2>1, <2>2, GotoOK DEF LinkLost
  <2> QED BY <1>4, <2>3 DEF LinkLost
<1> QED BY <1>1, <1>2, <1>3, <1>4

\* The steps of device remove are typed.
LEMMA RemoveTyped ==
    ASSUME TypeInv, NEW p \in Procs, Forget(p) \/ PurgeLock(p) \/ PurgeJournals(p)
    PROVE  TypeInv'
<1> USE DEF TypeInv, TypeOK, files, routers, history
<1>0. CliOK(cli[p])
  BY LiveOK
<1>1. CASE Forget(p)
  <2>1. CliOK([cli[p] EXCEPT !.pc = "dropunlock"])
    BY <1>0, <1>1, AdvanceOK DEF Forget, PC, WithSession
  <2> QED BY <1>1, <2>1, GotoOK DEF Forget
<1>2. CASE PurgeLock(p)
  <2>1. CliOK([cli[p] EXCEPT !.pc = "purge"])
    BY <1>0, <1>2, AdvanceOK DEF PurgeLock, PC, WithSession
  <2>2. cli' \in [Procs -> Cli] /\ \A q \in Procs : StageOK(cli'[q])
    BY <1>2, <2>1, GotoOK DEF PurgeLock
  <2> QED BY <1>2, <2>2 DEF PurgeLock
<1>3. CASE PurgeJournals(p)
  <2>1. cli' \in [Procs -> Cli] /\ \A q \in Procs : StageOK(cli'[q])
    BY <1>3, IdleOK, GotoOK DEF PurgeJournals, Done
  <2> QED BY <1>3, <2>1, BlankType DEF PurgeJournals, FileState
<1> QED BY <1>1, <1>2, <1>3

\* The ways a process ends, crashes and I/O errors included, are typed.
LEMMA StopTyped ==
    ASSUME TypeInv, NEW p \in Procs, Quit(p) \/ Crash(p) \/ IOFails(p)
    PROVE  TypeInv'
<1> USE DEF TypeInv, TypeOK, files, routers, history
<1>0. CliOK(cli[p]) /\ (cli[p].pc # "idle" => Key(p) \in Keys)
  BY LiveOK
<1>1. ASSUME cli[p].pc # "idle", Spoil(p) PROVE lost' \subseteq Changes /\ stuck' \subseteq Keys /\ cut' \subseteq Keys
  <2>1. Entries(cli[p].mem) \subseteq Changes
    BY DEF Cli, Session, Entries
  <2>2. cli[p].op = "record" => cli[p].chg \in Changes
    BY <1>0 DEF CliOK, StageOK
  <2> QED BY <1>0, <1>1, <2>1, <2>2 DEF Spoil
<1>2. CASE Quit(p)
  BY <1>2, IdleOK, GotoOK DEF Quit, Done
<1>3. CASE Crash(p)
  <2>1. cli' \in [Procs -> Cli] /\ \A q \in Procs : StageOK(cli'[q])
    BY <1>3, IdleOK, GotoOK DEF Crash, Done
  <2>2. lost' \subseteq Changes /\ stuck' \subseteq Keys /\ cut' \subseteq Keys
    BY <1>1, <1>3 DEF Crash
  <2> QED BY <1>3, <2>1, <2>2 DEF Crash
<1>4. CASE IOFails(p)
  <2>0. cli[p].pc # "idle"
    BY <1>4 DEF IOFails
  <2>1. cli' \in [Procs -> Cli] /\ \A q \in Procs : StageOK(cli'[q])
    BY <1>0, <1>4, <2>0, OnIOErrorOK, GotoOK DEF IOFails
  <2>2. lost' \subseteq Changes /\ stuck' \subseteq Keys /\ cut' \subseteq Keys
    BY <1>1, <1>4, <2>0 DEF IOFails
  <2> QED BY <1>4, <2>1, <2>2 DEF IOFails
<1> QED BY <1>2, <1>3, <1>4

\* The typing invariant holds initially and every step keeps it.
LEMMA TypeInit == Init => TypeInv
<1> SUFFICES ASSUME Init PROVE TypeInv
  OBVIOUS
<1>1. cli \in [Procs -> Cli] /\ \A p \in Procs : StageOK(cli[p])
  BY IdleOK DEF Init, CliOK
<1> QED BY <1>1, BlankType DEF Init, TypeInv, TypeOK, FileState

\* Every step keeps the typing invariant.
LEMMA TypeStep == TypeInv /\ [Next]_vars => TypeInv'
<1> SUFFICES ASSUME TypeInv, [Next]_vars PROVE TypeInv'
  OBVIOUS
<1>1. ASSUME NEW p \in Procs, NEW d \in Devices, NEW safe \in SafeModes, StartBegin(p, d, safe)
      PROVE  TypeInv'
  <2> DEFINE c == [Idle EXCEPT !.pc = "stat", !.op = "begin", !.dev = d,
                               !.mem = [Blank EXCEPT !.dev = d, !.safe = safe]]
  <2>1. [Blank EXCEPT !.dev = d, !.safe = safe] \in Session
    <3>1. safe \in BOOLEAN
      BY StoreAssumption
    <3> QED BY <3>1, BlankType DEF Session
  <2>2. CliOK(c)
    BY <2>1 DEF CliOK, StageOK, Cli, Idle, PC, Op, WithSession
  <2> QED BY <1>1, <2>2, StartOK DEF StartBegin
<1>2. ASSUME NEW p \in Procs, NEW d \in Devices, NEW o \in Op, StartCommand(p, o, d)
      PROVE  TypeInv'
  <2> DEFINE c == [Idle EXCEPT !.pc = "readlock", !.op = o, !.dev = d]
  <2>1. o # "record"
    BY <1>2, StoreAssumption DEF StartCommand, Start, Idle
  <2>2. CliOK(c)
    BY <2>1, BlankType DEF CliOK, StageOK, Cli, Idle, PC, WithSession
  <2> QED BY <1>2, <2>2, StartOK DEF StartCommand
<1>3. ASSUME NEW p \in Procs, NEW d \in Devices, StartForcedRemove(p, d)
      PROVE  TypeInv'
  <2> DEFINE c == [Idle EXCEPT !.pc = "forget", !.op = "remove", !.dev = d]
  <2>1. CliOK(c)
    BY BlankType DEF CliOK, StageOK, Cli, Idle, PC, Op, WithSession
  <2> QED BY <1>3, <2>1, StartOK DEF StartForcedRemove
<1>4. CASE UNCHANGED vars
  BY <1>4 DEF vars, TypeInv, TypeOK
<1> QED BY <1>1, <1>2, <1>3, <1>4, BeginTyped, ReadTyped, WriteTyped, RollbackTyped,
           RemoveTyped, StopTyped DEF Next

\* In every behaviour of the store, whatever overlaps and whatever fails, every
\* variable keeps its type and every live process has what its stage needs.
THEOREM Typing == Spec => []TypeInv
BY TypeInit, TypeStep, PTL DEF Spec

\* In every behaviour every file, inventory entry and local state is one the
\* store can be in: the type invariant the runs check.
THEOREM TypeCorrect == Spec => []TypeOK
<1>1. TypeInv => TypeOK
  BY DEF TypeInv
<1> QED BY <1>1, Typing, PTL

(***************************************************************************)
(* Part 2.  RolledBackMeansUndone.  Several commands may hold copies of    *)
(* one session and write them in any order, so the claim is carried by     *)
(* every copy: a copy that says rolled_back has its entries undone, and a  *)
(* process undoing a copy has undone the entries beyond its position.      *)
(***************************************************************************)

Settled(s, U) == s.status = "rolled_back" => Entries(s) \subseteq U

LocalUndone(c, U) ==
    /\ Settled(c.mem, U)
    /\ c.pc = "undo" => \A n \in 1..Len(c.mem.changes) : n > c.pos => c.mem.changes[n] \in U

UndoneInv ==
    /\ TypeInv
    /\ \A i \in Ids : Settled(journal[i], undone)
    /\ \A p \in Procs : LocalUndone(cli[p], undone)

\* No session and no process vouch for nothing.
LEMMA BlankSettled == \A U : Settled(Blank, U) /\ LocalUndone(Idle, U)
BY DEF Settled, LocalUndone, Blank, Idle

\* A command that goes on from Active with a sound copy keeps it sound.
LEMMA ProceedUndone ==
    ASSUME NEW c, CliOK(c), NEW U, Settled(c.mem, U)
    PROVE  LocalUndone(Proceed(c), U)
<1> USE BlankSettled
<1>0. c.mem.changes \in Seq(Changes) /\ c \in Cli /\ c.mem \in Session
  BY DEF CliOK, Cli, Session
<1>1. CASE c.op = "write"
  <2>1. CASE CheckWrite(c) = Idle
    BY <1>1, <2>1 DEF Proceed
  <2>2. CASE CheckWrite(c) = [c EXCEPT !.pc = "run"]
    BY <1>0, <1>1, <2>2 DEF Proceed, LocalUndone, Cli
  <2> QED BY <2>1, <2>2 DEF CheckWrite
<1>2. CASE c.op = "record"
  <2>1. CASE RecordChange(c) = Idle
    BY <1>2, <2>1 DEF Proceed
  <2>2. CASE /\ RecordChange(c) = [c EXCEPT !.pc = "saveopen", !.mem.changes = Append(@, c.chg)]
             /\ c.mem.status = "active"
    <3>1. RecordChange(c).mem.status = "active" /\ RecordChange(c).pc = "saveopen"
      BY <1>0, <2>2 DEF Cli, Session
    <3> QED BY <1>2, <3>1 DEF Proceed, LocalUndone, Settled
  <2> QED BY <2>1, <2>2 DEF RecordChange
<1>3. CASE c.op = "commit"
  BY <1>0, <1>3 DEF Proceed, LocalUndone, Settled, Cli, Session
<1>4. CASE c.op = "rollback"
  <2>1. CASE c.id = None
    BY <1>4, <2>1 DEF Proceed
  <2>2. CASE c.id # None
    <3> DEFINE e == [c EXCEPT !.pc = "undo", !.pos = Len(c.mem.changes)]
    <3>1. e.mem = c.mem /\ e.pos = Len(c.mem.changes) /\ Len(c.mem.changes) \in Nat
      BY <1>0 DEF Cli
    <3>2. LocalUndone(e, U)
      <4> HIDE DEF e
      <4> QED BY <3>1 DEF LocalUndone
    <3> QED BY <1>4, <2>2, <3>2 DEF Proceed
  <2> QED BY <2>1, <2>2
<1>5. CASE c.op \in {"watch", "remove"}
  BY <1>0, <1>5 DEF Proceed, LocalUndone, Cli
<1>6. CASE c.op \notin {"write", "record", "commit", "rollback", "watch", "remove"}
  BY <1>6 DEF Proceed
<1> QED BY <1>1, <1>2, <1>3, <1>4, <1>5, <1>6

\* Wherever else a command goes, it keeps its copy; when it starts to undo it,
\* no entry lies beyond its position.
LEMMA KeepsCopyUndone ==
    ASSUME NEW c, CliOK(c), NEW U, Settled(c.mem, U), NEW e \in Cli, e.mem = c.mem,
           e.pc # "undo" \/ e.pos = Len(c.mem.changes)
    PROVE  LocalUndone(e, U)
BY DEF LocalUndone, CliOK, Cli, Session

\* The steps after a save, an unlock or an I/O error keep a sound copy sound.
LEMMA OnwardUndone ==
    ASSUME NEW c, CliOK(c), c.pc # "idle", NEW U, Settled(c.mem, U)
    PROVE  /\ LocalUndone(ProceedOnError(c), U)
           /\ c.pc = "savefill" => LocalUndone(AfterSave(c), U)
           /\ c.pc = "unlock" => LocalUndone(AfterUnlock(c), U)
           /\ LocalUndone(OnIOError(c), U)
<1> USE BlankSettled
<1>0. c \in Cli
  BY DEF CliOK
<1>1. LocalUndone(ProceedOnError(c), U)
  BY <1>0, ProceedOnErrorOK, KeepsCopyUndone DEF ProceedOnError, CliOK, Cli
<1>2. ASSUME c.pc = "savefill" PROVE LocalUndone(AfterSave(c), U)
  <2>1. AfterSave(c) \in Cli
    BY <1>2, AfterSaveOK DEF CliOK
  <2>2. CASE c.op = "record"
    BY <2>2 DEF AfterSave
  <2>3. CASE c.op # "record"
    <3>1. /\ AfterSave(c).mem = c.mem
          /\ AfterSave(c).pc # "undo" \/ AfterSave(c).pos = Len(c.mem.changes)
      BY <1>0, <2>3 DEF AfterSave, Cli
    <3> QED BY <2>1, <3>1, KeepsCopyUndone
  <2> QED BY <2>2, <2>3
<1>3. ASSUME c.pc = "unlock" PROVE LocalUndone(AfterUnlock(c), U)
  BY <1>0, <1>3, AfterUnlockOK, KeepsCopyUndone DEF AfterUnlock, CliOK, Cli
<1>4. LocalUndone(OnIOError(c), U)
  <2>1. OnIOError(c) \in Cli
    BY OnIOErrorOK DEF CliOK
  <2>2. CASE OnIOError(c) = Idle
    BY <2>2
  <2>3. CASE c.pc = "unlock"
    BY <1>3, <2>3 DEF OnIOError
  <2>4. CASE c.pc # "unlock" /\ OnIOError(c) # Idle
    <3>1. /\ OnIOError(c).mem = c.mem
          /\ OnIOError(c).pc # "undo" \/ OnIOError(c).pos = Len(c.mem.changes)
      BY <1>0, <2>4 DEF OnIOError, Cli
    <3> QED BY <2>1, <3>1, KeepsCopyUndone
  <2> QED BY <2>2, <2>3, <2>4
<1> QED BY <1>1, <1>2, <1>3, <1>4

\* What remains to be shown for a step of one process.
LEMMA UndoneStepOf ==
    ASSUME UndoneInv, TypeInv', NEW p \in Procs, NEW c, Goto(p, c),
           undone \subseteq undone', LocalUndone(c, undone'),
           \A i \in Ids : journal'[i] = journal[i] \/ Settled(journal'[i], undone')
    PROVE  UndoneInv'
<1>1. \A q \in Procs : LocalUndone(cli[q], undone')
  BY DEF UndoneInv, LocalUndone, Settled
<1>2. \A i \in Ids : Settled(journal'[i], undone')
  BY DEF UndoneInv, Settled
<1>3. \A q \in Procs : cli'[q] = cli[q] \/ cli'[q] = c
  BY DEF Goto, UndoneInv, TypeInv, TypeOK
<1>4. \A q \in Procs : LocalUndone(cli'[q], undone')
  BY <1>1, <1>3
<1> QED BY <1>2, <1>4 DEF UndoneInv

\* Every step keeps the claim of Part 2; Undo moves it from position to position.
LEMMA UndoneStep == UndoneInv /\ [Next]_vars => UndoneInv'
<1> SUFFICES ASSUME UndoneInv, [Next]_vars PROVE UndoneInv'
  OBVIOUS
<1> USE DEF files, routers, history
<1>0. TypeInv /\ TypeInv'
  BY TypeStep DEF UndoneInv
<1>1. CASE UNCHANGED vars
  BY <1>0, <1>1 DEF vars, UndoneInv
<1>2. ASSUME NEW p \in Procs, NEW c, Start(p, c), c.mem.status = "active", c.pc # "undo"
      PROVE  UndoneInv'
  <2>1. LocalUndone(c, undone')
    BY <1>2 DEF LocalUndone, Settled
  <2> QED BY <1>0, <1>2, <2>1, UndoneStepOf DEF Start
<1>3. ASSUME NEW p \in Procs, NEW d \in Devices,
             \/ \E safe \in SafeModes : StartBegin(p, d, safe)
             \/ \E o \in Op : StartCommand(p, o, d)
             \/ StartForcedRemove(p, d)
      PROVE  UndoneInv'
  BY <1>2, <1>3 DEF StartBegin, StartCommand, StartForcedRemove, Idle, Blank
<1>4. ASSUME NEW p \in Procs PROVE
        /\ CliOK(cli[p]) /\ cli[p] \in Cli
        /\ \A U : undone \subseteq U => Settled(cli[p].mem, U) /\ LocalUndone(cli[p], U)
        /\ LocalUndone(Idle, undone') /\ Settled(cli[p].mem, undone)
        /\ \A q \in PC \ {"undo"} : LocalUndone([cli[p] EXCEPT !.pc = q], undone)
  <2>1. CliOK(cli[p]) /\ cli[p] \in Cli
    BY <1>0, LiveOK DEF CliOK
  <2>2. LocalUndone(cli[p], undone)
    BY DEF UndoneInv
  <2>3. \A U : undone \subseteq U => Settled(cli[p].mem, U) /\ LocalUndone(cli[p], U)
    BY <2>2 DEF LocalUndone, Settled
  <2>4. ASSUME NEW q \in PC \ {"undo"}
        PROVE  LocalUndone([cli[p] EXCEPT !.pc = q], undone)
    <3>1. /\ [cli[p] EXCEPT !.pc = q].pc = q
          /\ [cli[p] EXCEPT !.pc = q].mem = cli[p].mem
      BY <2>1 DEF Cli
    <3> QED BY <2>2, <3>1 DEF LocalUndone
  <2> QED BY <2>1, <2>2, <2>3, <2>4, BlankSettled DEF LocalUndone
<1>5. ASSUME NEW p \in Procs, Begin(p) PROVE UndoneInv'
  <2>1. undone' = undone
    BY <1>5 DEF Begin, BeginStat, BeginCreate, BeginFill, BeginLockOpen, BeginLockFill,
                BeginCleanup
  <2>2. \A i \in Ids : journal'[i] \in {journal[i], cli[p].mem, Blank}
    BY <1>0, <1>5 DEF TypeInv, TypeOK, Begin, BeginStat, BeginCreate,
       BeginFill, BeginLockOpen, BeginLockFill, BeginCleanup
  <2>3. PICK c : Goto(p, c) /\ LocalUndone(c, undone)
    <3>1. ASSUME NEW i \in Ids, BeginCreate(p, i)
          PROVE  LocalUndone([cli[p] EXCEPT !.pc = "fill", !.id = i], undone)
      BY <1>4 DEF LocalUndone, Cli
    <3> QED BY <1>4, <1>5, <2>1, <3>1 DEF Begin, BeginStat, BeginCreate, BeginFill,
               BeginLockOpen, BeginLockFill, BeginCleanup, Done, PC
  <2> QED BY <1>0, <1>4, <2>1, <2>2, <2>3, BlankSettled, UndoneStepOf
<1>6. ASSUME NEW p \in Procs, ReadLock(p) \/ ReadJournal(p) PROVE UndoneInv'
  <2>1. undone' = undone /\ journal' = journal /\ cli[p].pc # "idle"
    BY <1>6 DEF ReadLock, ReadJournal
  <2>2. PICK c : Goto(p, c) /\ LocalUndone(c, undone)
    <3>1. CASE ReadLock(p)
      <4>1. LocalUndone([cli[p] EXCEPT !.pc = "readjournal", !.id = lock[Key(p)]], undone)
        BY <1>4 DEF LocalUndone, Cli
      <4>2. LocalUndone(Proceed(cli[p]), undone) /\ LocalUndone(ProceedOnError(cli[p]), undone)
        BY <1>4, <2>1, ProceedUndone, OnwardUndone
      <4> QED BY <3>1, <4>1, <4>2 DEF ReadLock
    <3>2. CASE ReadJournal(p)
      <4> DEFINE e == [cli[p] EXCEPT !.mem = journal[cli[p].id]]
      <4>1. cli[p].id \in Ids /\ journal[cli[p].id] \in Session
        BY <1>0, <1>4, <3>2 DEF ReadJournal, CliOK, StageOK, WithSession, TypeInv, TypeOK
      <4>2. CliOK(e) /\ Settled(e.mem, undone)
        BY <1>4, <3>2, <4>1 DEF ReadJournal, CliOK, StageOK, Cli, UndoneInv
      <4>3. LocalUndone(Proceed(e), undone) /\ LocalUndone(ProceedOnError(cli[p]), undone)
        BY <1>4, <2>1, <4>2, ProceedUndone, OnwardUndone
      <4> QED BY <3>2, <4>3 DEF ReadJournal
    <3> QED BY <1>6, <3>1, <3>2
  <2> QED BY <1>0, <2>1, <2>2, UndoneStepOf
<1>7. ASSUME NEW p \in Procs,
             \/ \E d \in Changes : RouterWrite(p, d) \/ AmbiguousWrite(p, d)
             \/ SaveOpen(p) \/ SaveFill(p) \/ Unlock(p)
      PROVE  UndoneInv'
  <2>1. undone' = undone
    BY <1>7 DEF RouterWrite, AmbiguousWrite, SaveOpen, SaveFill, Unlock
  <2>2. \A i \in Ids : journal'[i] \in {journal[i], cli[p].mem, Blank}
    BY <1>0, <1>7 DEF TypeInv, TypeOK, RouterWrite, AmbiguousWrite,
       SaveOpen, SaveFill, Unlock
  <2>3. PICK c : Goto(p, c) /\ LocalUndone(c, undone)
    <3>1. \A d : LocalUndone([Idle EXCEPT !.pc = "readlock", !.op = "record",
                                         !.dev = cli[p].dev, !.chg = d], undone)
      BY DEF LocalUndone, Settled, Idle, Blank
    <3>2. /\ SaveFill(p) => LocalUndone(AfterSave(cli[p]), undone)
          /\ Unlock(p) => LocalUndone(AfterUnlock(cli[p]), undone)
      BY <1>4, OnwardUndone DEF SaveFill, Unlock
    <3> QED BY <1>4, <1>7, <2>1, <3>1, <3>2 DEF RouterWrite, AmbiguousWrite, SaveOpen,
               SaveFill, Unlock, Done, PC
  <2> QED BY <1>0, <1>4, <2>1, <2>2, <2>3, BlankSettled, UndoneStepOf
<1>8. ASSUME NEW p \in Procs, Undo(p) PROVE UndoneInv'
  <2> DEFINE c == [cli[p] EXCEPT !.pos = @ - 1]
  <2>1. /\ cli[p].mem.changes \in Seq(Changes) /\ cli[p].pos \in Nat
        /\ c.mem = cli[p].mem /\ c.pc = "undo" /\ c.pos = cli[p].pos - 1
    BY <1>4, <1>8 DEF Undo, Cli, Session
  <2>2. undone' = undone \cup {cli[p].mem.changes[cli[p].pos]}
    BY <1>8 DEF Undo
  <2>3. LocalUndone(cli[p], undone)
    BY DEF UndoneInv
  <2>4. LocalUndone(c, undone')
    <3>1. Settled(c.mem, undone')
      BY <2>1, <2>2, <2>3 DEF LocalUndone, Settled
    <3>2. ASSUME NEW n \in 1..Len(c.mem.changes), n > c.pos
          PROVE  c.mem.changes[n] \in undone'
      <4>1. n > cli[p].pos \/ n = cli[p].pos
        BY <2>1, <3>2
      <4> QED BY <1>8, <2>1, <2>2, <2>3, <4>1 DEF LocalUndone, Undo
    <3> QED BY <3>1, <3>2 DEF LocalUndone
  <2> QED BY <1>0, <1>8, <2>2, <2>4, UndoneStepOf DEF Undo
<1>9. ASSUME NEW p \in Procs, MarkRolledBack(p) PROVE UndoneInv'
  <2> DEFINE c == [cli[p] EXCEPT !.pc = "saveopen", !.mem.status = "rolled_back",
                                 !.mem.pending = FALSE]
  <2>1. c.mem.changes = cli[p].mem.changes /\ c.pc = "saveopen"
    BY <1>4 DEF Cli, Session
  <2>2. Entries(cli[p].mem) \subseteq undone
    <3>1. /\ cli[p].mem.changes \in Seq(Changes) /\ cli[p].pc = "undo" /\ cli[p].pos = 0
          /\ LocalUndone(cli[p], undone)
      BY <1>4, <1>9 DEF MarkRolledBack, Cli, Session, UndoneInv
    <3> QED BY <3>1 DEF LocalUndone, Entries
  <2>3. LocalUndone(c, undone)
    BY <2>1, <2>2 DEF LocalUndone, Settled, Entries
  <2> QED BY <1>0, <1>9, <2>3, UndoneStepOf DEF MarkRolledBack
<1>10. ASSUME NEW p \in Procs, UndoFails(p) \/ LinkLost(p) PROVE UndoneInv'
  <2>1. Len(cli[p].mem.changes) \in Nat
    BY <1>4 DEF Cli, Session
  <2>2. /\ LocalUndone([cli[p] EXCEPT !.pos = Len(cli[p].mem.changes)], undone)
        /\ LocalUndone([cli[p] EXCEPT !.pc = "undo", !.op = "autoroll",
                                      !.pos = Len(cli[p].mem.changes)], undone)
    BY <1>4, <2>1 DEF LocalUndone, Cli
  <2>3. ASSUME cli[p].mem.status = "active"
        PROVE  LocalUndone([cli[p] EXCEPT !.pc = "saveopen", !.op = "pend",
                                          !.mem.pending = TRUE], undone)
    BY <1>4, <2>3 DEF LocalUndone, Settled, Cli, Session
  <2> QED BY <1>0, <1>4, <1>10, <2>2, <2>3, UndoneStepOf DEF UndoFails, LinkLost, Done
<1>11. ASSUME NEW p \in Procs, Forget(p) \/ PurgeLock(p) \/ PurgeJournals(p)
       PROVE  UndoneInv'
  <2>1. undone' = undone
    BY <1>11 DEF Forget, PurgeLock, PurgeJournals
  <2>2. \A i \in Ids : journal'[i] = journal[i] \/ Settled(journal'[i], undone)
    BY <1>11, BlankSettled DEF Forget, PurgeLock, PurgeJournals
  <2>3. PICK c : Goto(p, c) /\ LocalUndone(c, undone)
    BY <1>4, <1>11, <2>1 DEF Forget, PurgeLock, PurgeJournals, Done, PC
  <2> QED BY <1>0, <2>1, <2>2, <2>3, UndoneStepOf
<1>12. ASSUME NEW p \in Procs, Quit(p) \/ Crash(p) \/ IOFails(p) PROVE UndoneInv'
  <2>1. undone' = undone /\ journal' = journal
    BY <1>12 DEF Quit, Crash, IOFails
  <2>2. IOFails(p) => LocalUndone(OnIOError(cli[p]), undone)
    BY <1>4, OnwardUndone DEF IOFails
  <2> QED BY <1>0, <1>4, <1>12, <2>1, <2>2, UndoneStepOf DEF Quit, Crash, IOFails, Done
<1> QED BY <1>1, <1>3, <1>5, <1>6, <1>7, <1>8, <1>9, <1>10, <1>11, <1>12 DEF Next

\* In every behaviour, a journal that says rolled_back has had every one of its
\* entries undone: no overlap of commands, watches and removals, no crash and no
\* failed write lets MarkRolledBack vouch for an inverse that did not run.
THEOREM RolledBackSound == Spec => []RolledBackMeansUndone
<1>1. Init => UndoneInv
  <2> SUFFICES ASSUME Init PROVE UndoneInv
    OBVIOUS
  <2> QED BY TypeInit, BlankSettled DEF Init, UndoneInv
<1>2. UndoneInv => RolledBackMeansUndone
  BY DEF UndoneInv, RolledBackMeansUndone, Settled
<1> QED BY <1>1, <1>2, UndoneStep, PTL DEF Spec

(***************************************************************************)
(* Part 3.  JournaledWasApplied.  Journals travel: a process finds one     *)
(* through a lock, copies it, and writes the copy back much later.  Every  *)
(* session id therefore has an owner, the lock key it was begun under, and *)
(* whatever refers to the session agrees with it.  Owner maps are chosen   *)
(* step by step: only BeginCreate extends the one before.                  *)
(***************************************************************************)

\* Stages at which the copy is that of a session, not the Blank one.
Holding == {"stat", "create", "fill", "lockopen", "lockfill", "cleanup",
            "watching", "undo", "saveopen", "savefill", "unlock"}

Backed(s, A) ==
    \A c \in Entries(s) : A[c] # None /\ Sanitize[A[c]] = Sanitize[s.dev]

\* Process-local part, for owners o and applied changes A.
LocalOwned(c, o, A) ==
    /\ c.id \in Ids => o[c.id] = Sanitize[c.dev]
    /\ c.mem.dev \in Devices => Sanitize[c.mem.dev] = Sanitize[c.dev]
    /\ c.pc \in Holding => c.mem.dev \in Devices
    /\ Backed(c.mem, A)
    /\ c.op = "record" => A[c.chg] # None /\ Sanitize[A[c.chg]] = Sanitize[c.dev]

JournalOwned(s, k, A) ==
    /\ s.dev \in Devices => Sanitize[s.dev] = k
    /\ Backed(s, A)

Unreferenced(i) == (\A k \in Keys : lock[k] # i) /\ (\A p \in Procs : cli[p].id # i)

Owned(o) ==
    /\ \A k \in Keys : lock[k] \in Ids => o[lock[k]] = k
    /\ \A i \in Ids : JournalOwned(journal[i], o[i], applied)
    /\ \A i \in Ids : file[i] = "whole" => journal[i].dev \in Devices
    /\ \A i \in Ids : file[i] = "unused" => journal[i] = Blank /\ Unreferenced(i)
    /\ \A p \in Procs : LocalOwned(cli[p], o, applied)

OwnInv == TypeInv /\ \E o \in [Ids -> Keys \cup {None}] : Owned(o)

\* No session and no process refer to nothing.
LEMMA BlankOwned ==
    ASSUME NEW o, NEW A, NEW k
    PROVE  LocalOwned(Idle, o, A) /\ JournalOwned(Blank, k, A) /\ Backed(Blank, A)
<1>1. Entries(Blank) = {}
  BY DEF Entries, Blank
<1> QED BY <1>1, StoreAssumption DEF LocalOwned, JournalOwned, Backed, Idle, Blank, Holding

\* A later local state of the same command, with the same copy.
Moves(c, e) ==
    /\ e.dev = c.dev /\ e.id \in {c.id, None}
    /\ e.mem.dev = c.mem.dev /\ e.mem.changes = c.mem.changes
    /\ e.pc \in Holding => c.mem.dev \in Devices
    /\ e.op = "record" => c.op = "record" /\ e.chg = c.chg

\* A command that only moves on keeps what it refers to.
LEMMA MovesOwned ==
    ASSUME NEW o, NEW A, NEW c, LocalOwned(c, o, A), NEW e, Moves(c, e)
    PROVE  LocalOwned(e, o, A)
<1>1. Entries(e.mem) = Entries(c.mem)
  BY DEF Moves, Entries
<1> QED BY <1>1, StoreAssumption DEF LocalOwned, Moves, Backed

\* Whatever Active answered, a command refers to the session of its own key.
LEMMA ProceedOwned ==
    ASSUME NEW o, NEW A, NEW c, CliOK(c), LocalOwned(c, o, A),
           c.mem.dev \in Devices \/ (c.id = None /\ c.mem = Blank)
    PROVE  LocalOwned(Proceed(c), o, A)
<1> USE BlankOwned
<1>0. c \in Cli /\ c.mem \in Session /\ c.mem.changes \in Seq(Changes)
  BY DEF CliOK, Cli, Session
<1>1. c.mem.dev \notin Devices => c.id = None /\ ~c.mem.safe
  BY DEF Blank
<1>2. CASE c.op = "record"
  <2>1. CASE RecordChange(c) = Idle
    BY <1>2, <2>1 DEF Proceed
  <2>2. CASE /\ RecordChange(c) = [c EXCEPT !.pc = "saveopen", !.mem.changes = Append(@, c.chg)]
             /\ c.mem.safe
    <3> DEFINE e == [c EXCEPT !.pc = "saveopen", !.mem.changes = Append(@, c.chg)]
    <3>1. /\ e.id = c.id /\ e.dev = c.dev /\ e.mem.dev = c.mem.dev /\ e.chg = c.chg
          /\ e.mem.changes = Append(c.mem.changes, c.chg)
      BY <1>0 DEF Cli, Session
    <3>2. Entries(e.mem) \subseteq Entries(c.mem) \cup {c.chg}
      <4> HIDE DEF e
      <4> QED BY <1>0, <3>1 DEF Entries
    <3>3. c.mem.dev \in Devices
      BY <1>1, <2>2
    <3>4. LocalOwned(e, o, A)
      <4> HIDE DEF e
      <4> QED BY <1>2, <3>1, <3>2, <3>3 DEF LocalOwned, Backed
    <3> QED BY <1>2, <2>2, <3>4 DEF Proceed
  <2> QED BY <2>1, <2>2 DEF RecordChange
<1>3. CASE c.op # "record"
  <2>1. Proceed(c) = Idle \/ Moves(c, Proceed(c))
    <3>1. CASE c.op = "write"
      BY <1>0, <3>1 DEF Proceed, CheckWrite, Moves, Cli, Holding
    <3>2. CASE c.op = "commit"
      BY <1>0, <1>1, <3>2 DEF Proceed, Moves, Cli, Session
    <3>3. CASE c.op = "rollback"
      BY <1>0, <1>1, <3>3 DEF Proceed, Moves, Cli
    <3>4. CASE c.op \in {"watch", "remove"}
      BY <1>0, <1>1, <3>4 DEF Proceed, Moves, Cli, Holding
    <3>5. CASE c.op \notin {"write", "record", "commit", "rollback", "watch", "remove"}
      BY <3>5 DEF Proceed
    <3> QED BY <1>3, <3>1, <3>2, <3>3, <3>4, <3>5
  <2> QED BY <2>1, MovesOwned
<1> QED BY <1>2, <1>3

\* Every other way on, too, ends the command or keeps its copy.
LEMMA OnwardMoves ==
    ASSUME NEW c, CliOK(c), c.pc \in Holding => c.mem.dev \in Devices
    PROVE  /\ ProceedOnError(c) = Idle \/ Moves(c, ProceedOnError(c))
           /\ c.pc = "savefill" => AfterSave(c) = Idle \/ Moves(c, AfterSave(c))
           /\ c.pc = "unlock" => AfterUnlock(c) = Idle \/ Moves(c, AfterUnlock(c))
           /\ OnIOError(c) = Idle \/ Moves(c, OnIOError(c))
<1>0. c \in Cli
  BY DEF CliOK
<1>1. ProceedOnError(c) = Idle \/ Moves(c, ProceedOnError(c))
  BY <1>0 DEF ProceedOnError, Moves, Cli, Holding
<1>2. c.pc = "savefill" => AfterSave(c) = Idle \/ Moves(c, AfterSave(c))
  BY <1>0 DEF AfterSave, Moves, Cli, Holding
<1>3. c.pc = "unlock" => AfterUnlock(c) = Idle \/ Moves(c, AfterUnlock(c))
  BY <1>0 DEF AfterUnlock, Moves, Cli, Holding
<1>4. CASE c.pc = "unlock"
  BY <1>1, <1>2, <1>3, <1>4 DEF OnIOError
<1>5. CASE c.pc # "unlock"
  BY <1>0, <1>1, <1>2, <1>3, <1>5 DEF OnIOError, Moves, Cli, Holding
<1> QED BY <1>4, <1>5

\* Changes are made once: what backed a session goes on backing it.
Grows(A, B) == \A d \in Changes : A[d] # None => B[d] = A[d]

\* A change made later takes nothing from what backed a session.
LEMMA StaysOwned ==
    ASSUME NEW A, NEW B, Grows(A, B)
    PROVE  /\ \A o, c : CliOK(c) /\ LocalOwned(c, o, A) => LocalOwned(c, o, B)
           /\ \A k, s : s \in Session /\ JournalOwned(s, k, A) => JournalOwned(s, k, B)
<1>1. \A s \in Session : Entries(s) \subseteq Changes
  BY DEF Session, Entries
<1>2. \A s \in Session : Backed(s, A) => Backed(s, B)
  BY <1>1 DEF Backed, Grows
<1>3. ASSUME NEW o, NEW c, CliOK(c), LocalOwned(c, o, A) PROVE LocalOwned(c, o, B)
  <2>1. c.mem \in Session
    BY <1>3 DEF CliOK, Cli
  <2>2. c.op = "record" => c.chg \in Changes
    BY <1>3 DEF CliOK, StageOK
  <2> QED BY <1>2, <1>3, <2>1, <2>2 DEF LocalOwned, Grows
<1> QED BY <1>2, <1>3 DEF JournalOwned

\* What remains to be shown for a step of one process that copies no reference.
LEMMA OwnedStepOf ==
    ASSUME TypeInv, NEW o, Owned(o), NEW p \in Procs, NEW c, Goto(p, c),
           Grows(applied, applied'),
           LocalOwned(c, o, applied'), c.id \in {cli[p].id, None},
           \A k \in Keys : lock'[k] \in {lock[k], Absent, Empty},
           \A i \in Ids : \/ file'[i] = file[i] /\ journal'[i] = journal[i]
                          \/ /\ JournalOwned(journal'[i], o[i], applied')
                             /\ file'[i] = "whole" => journal'[i].dev \in Devices
                             /\ file'[i] # "unused"
    PROVE  Owned(o)'
<1>1. \A q \in Procs : cli'[q] = cli[q] \/ (q = p /\ cli'[q] = c)
  BY DEF Goto, TypeInv, TypeOK
<1>2. \A q \in Procs : LocalOwned(cli'[q], o, applied')
  BY <1>1, LiveOK, StaysOwned DEF Owned
<1>3. \A i \in Ids : JournalOwned(journal'[i], o[i], applied')
  BY StaysOwned DEF Owned, TypeInv, TypeOK
<1>4. \A k \in Keys : lock'[k] \in Ids => lock'[k] = lock[k]
  BY StoreAssumption
<1>5. \A i \in Ids : Unreferenced(i) => Unreferenced(i)'
  BY <1>1, <1>4, StoreAssumption DEF Unreferenced
<1> QED BY <1>2, <1>3, <1>4, <1>5 DEF Owned

\* session begin keeps the owners, and gives the new session one.
LEMMA OwnedBegin ==
    ASSUME TypeInv, NEW o \in [Ids -> Keys \cup {None}], Owned(o), NEW p \in Procs, Begin(p)
    PROVE  \E r \in [Ids -> Keys \cup {None}] : Owned(r)'
<1> USE DEF files, routers, history
<1>0. /\ CliOK(cli[p]) /\ cli[p] \in Cli /\ LocalOwned(cli[p], o, applied)
      /\ cli[p].pc \in WithSession => cli[p].id \in Ids
  BY LiveOK DEF CliOK, StageOK, Owned
<1>1. applied' = applied /\ Grows(applied, applied')
  BY DEF Begin, BeginStat, BeginCreate, BeginFill, BeginLockOpen, BeginLockFill,
         BeginCleanup, Grows
<1>2. CASE BeginStat(p) \/ BeginFill(p) \/ BeginLockOpen(p)
  <2>1. PICK c : Goto(p, c) /\ LocalOwned(c, o, applied) /\ c.id \in {cli[p].id, None}
    <3>1. ASSUME cli[p].pc \in {"stat", "fill", "lockopen"}, NEW q
          PROVE  Moves(cli[p], [cli[p] EXCEPT !.pc = q])
      BY <1>0, <3>1 DEF Moves, Cli, LocalOwned, Holding
    <3>2. \A q : [cli[p] EXCEPT !.pc = q].id = cli[p].id
      BY <1>0 DEF Cli
    <3>3. PICK c : Goto(p, c) /\ (c = Idle \/ (Moves(cli[p], c) /\ c.id = cli[p].id))
      BY <1>2, <3>1, <3>2 DEF BeginStat, BeginFill, BeginLockOpen, Done
    <3>4. LocalOwned(c, o, applied) /\ c.id \in {cli[p].id, None}
      BY <1>0, <3>3, MovesOwned, BlankOwned DEF Idle
    <3> QED BY <3>3, <3>4
  <2>2. \A i \in Ids : \/ file'[i] = file[i] /\ journal'[i] = journal[i]
                       \/ /\ i = cli[p].id /\ cli[p].pc = "fill"
                          /\ journal'[i] = cli[p].mem /\ file'[i] = "whole"
    BY <1>0, <1>2 DEF BeginStat, BeginFill, BeginLockOpen, TypeInv, TypeOK
  <2>3. ASSUME cli[p].pc = "fill"
        PROVE  /\ JournalOwned(cli[p].mem, o[cli[p].id], applied)
               /\ cli[p].mem.dev \in Devices
    BY <1>0, <2>3 DEF LocalOwned, JournalOwned, Holding, WithSession
  <2>4. \A k \in Keys : lock'[k] \in {lock[k], Absent, Empty}
    BY <1>2 DEF BeginStat, BeginFill, BeginLockOpen, TypeInv, TypeOK
  <2> QED BY <1>1, <2>1, <2>2, <2>3, <2>4, OwnedStepOf
<1>3. ASSUME NEW i \in Ids, BeginCreate(p, i) PROVE \E r \in [Ids -> Keys \cup {None}] : Owned(r)'
  <2> DEFINE c == [cli[p] EXCEPT !.pc = "fill", !.id = i]
  <2>1. PICK r \in [Ids -> Keys \cup {None}] : r[i] = Key(p) /\ \A j \in Ids \ {i} : r[j] = o[j]
    <3>1. Key(p) \in Keys
      BY <1>3, LiveOK DEF BeginCreate
    <3>2. [o EXCEPT ![i] = Key(p)] \in [Ids -> Keys \cup {None}]
      BY <3>1
    <3> QED BY <3>1, <3>2
  <2>2. journal[i] = Blank /\ Unreferenced(i) /\ file[i] = "unused"
    BY <1>3 DEF BeginCreate, Owned
  <2>3. LocalOwned(c, r, applied)
    <3>1. c.id = i /\ c.dev = cli[p].dev /\ c.mem = cli[p].mem /\ c.op = cli[p].op
          /\ c.chg = cli[p].chg
      BY <1>0 DEF Cli
    <3>2. c.mem.dev \in Devices
      BY <1>0, <1>3, <3>1 DEF LocalOwned, BeginCreate, Holding
    <3> HIDE DEF c
    <3> QED BY <1>0, <2>1, <3>1, <3>2 DEF LocalOwned, Key
  <2>4. \A q \in Procs : cli'[q] = cli[q] \/ (q = p /\ cli'[q] = c)
    BY <1>3 DEF BeginCreate, Goto, TypeInv, TypeOK
  <2>5. \A q \in Procs : LocalOwned(cli'[q], r, applied')
    <3>1. \A q \in Procs : LocalOwned(cli[q], r, applied)
      BY <2>1, <2>2 DEF LocalOwned, Owned, Unreferenced
    <3> QED BY <1>1, <2>3, <2>4, <3>1
  <2>6. /\ lock' = lock /\ journal' = journal /\ file'[i] = "torn"
        /\ \A j \in Ids \ {i} : file'[j] = file[j]
    BY <1>3 DEF BeginCreate, TypeInv, TypeOK
  <2>7. \A j \in Ids \ {i} : Unreferenced(j) => Unreferenced(j)'
    <3>1. c.id = i
      BY <1>0 DEF Cli
    <3> QED BY <2>4, <2>6, <3>1 DEF Unreferenced
  <2>8. \A k \in Keys : lock[k] \in Ids => r[lock[k]] = k
    BY <2>1, <2>2 DEF Owned, Unreferenced
  <2>9. \A j \in Ids : JournalOwned(journal[j], r[j], applied)
    BY <2>1, <2>2, BlankOwned DEF Owned
  <2>10. Owned(r)'
    BY <1>1, <2>5, <2>6, <2>7, <2>8, <2>9 DEF Owned
  <2> QED BY <2>10
<1>4. CASE BeginLockFill(p)
  <2>1. /\ lock' = [lock EXCEPT ![Key(p)] = cli[p].id] /\ o[cli[p].id] = Key(p)
        /\ UNCHANGED <<file, journal, applied>> /\ Key(p) \in Keys
    BY <1>0, <1>4, LiveOK DEF BeginLockFill, LocalOwned, WithSession, Key
  <2>2. \A q \in Procs : cli'[q] = cli[q] \/ (q = p /\ cli'[q] = Idle)
    BY <1>4 DEF BeginLockFill, Done, Goto, TypeInv, TypeOK
  <2>3. \A i \in Ids : Unreferenced(i) => Unreferenced(i)'
    BY <2>1, <2>2, StoreAssumption DEF Unreferenced, TypeInv, TypeOK, Idle
  <2>4. \A k \in Keys : lock'[k] \in Ids => o[lock'[k]] = k
    BY <2>1 DEF Owned, TypeInv, TypeOK
  <2>5. \A q \in Procs : LocalOwned(cli'[q], o, applied)
    BY <2>2, BlankOwned DEF Owned
  <2> QED BY <2>1, <2>3, <2>4, <2>5 DEF Owned
<1>5. CASE BeginCleanup(p)
  <2>1. /\ Goto(p, Idle) /\ lock' = lock /\ Idle.id = None
        /\ \A i \in Ids : \/ file'[i] = file[i] /\ journal'[i] = journal[i]
                          \/ file'[i] = "absent" /\ journal'[i] = Blank
    BY <1>5 DEF BeginCleanup, Done, Idle, TypeInv, TypeOK
  <2> QED BY <1>1, <2>1, BlankOwned, OwnedStepOf
<1> QED BY <1>2, <1>3, <1>4, <1>5 DEF Begin

\* What a command reads through a lock belongs to the key of the lock.
LEMMA OwnedRead ==
    ASSUME TypeInv, NEW o \in [Ids -> Keys \cup {None}], Owned(o), NEW p \in Procs,
           ReadLock(p) \/ ReadJournal(p)
    PROVE  Owned(o)'
<1> USE DEF files, routers, history
<1>0. /\ CliOK(cli[p]) /\ cli[p] \in Cli /\ LocalOwned(cli[p], o, applied)
      /\ cli[p].pc \in WithSession => cli[p].id \in Ids
  BY LiveOK DEF CliOK, StageOK, Owned
<1>1. /\ UNCHANGED <<lock, file, journal, applied>> /\ Grows(applied, applied')
      /\ cli[p].pc \in {"readlock", "readjournal"}
  BY DEF ReadLock, ReadJournal, Grows
<1>2. ASSUME NEW c, Goto(p, c), LocalOwned(c, o, applied), c.id \in {cli[p].id, None}
      PROVE  Owned(o)'
  BY <1>1, <1>2, OwnedStepOf
<1>3. LocalOwned(ProceedOnError(cli[p]), o, applied) /\ ProceedOnError(cli[p]).id = None
  <2>1. LocalOwned(ProceedOnError(cli[p]), o, applied)
    <3>1. ProceedOnError(cli[p]) = Idle \/ Moves(cli[p], ProceedOnError(cli[p]))
      BY <1>0, OnwardMoves DEF LocalOwned
    <3> QED BY <1>0, <3>1, MovesOwned, BlankOwned
  <2> QED BY <1>0, <2>1 DEF ProceedOnError, Cli, Idle
<1>4. \A c : c \in Cli => Proceed(c).id \in {c.id, None}
  BY DEF Proceed, CheckWrite, RecordChange, Idle, Cli
<1>5. CASE ReadLock(p)
  <2>1. cli[p].id = None /\ cli[p].mem = Blank
    BY <1>0, <1>5 DEF ReadLock, CliOK, StageOK
  <2>2. CASE /\ lock[Key(p)] \in Ids
             /\ Goto(p, [cli[p] EXCEPT !.pc = "readjournal", !.id = lock[Key(p)]])
    <3> DEFINE c == [cli[p] EXCEPT !.pc = "readjournal", !.id = lock[Key(p)]]
    <3>1. /\ c.dev = cli[p].dev /\ c.mem = Blank /\ c.op = cli[p].op /\ c.chg = cli[p].chg
          /\ c.id = lock[Key(p)] /\ c.pc = "readjournal"
      BY <1>0, <2>1 DEF Cli
    <3>2. o[c.id] = Key(p)
      BY <1>1, <2>2, <3>1, LiveOK DEF Owned
    <3>3. LocalOwned(c, o, applied)
      <4> HIDE DEF c
      <4> QED BY <1>0, <2>1, <3>1, <3>2 DEF LocalOwned, Key, Holding
    <3>4. \A q \in Procs : cli'[q] = cli[q] \/ (q = p /\ cli'[q] = c)
      BY <2>2 DEF Goto, TypeInv, TypeOK
    <3>5. \A i \in Ids : file[i] = "unused" => Unreferenced(i)'
      <4>1. Key(p) \in Keys
        BY <1>1, LiveOK
      <4>2. \A i \in Ids : file[i] = "unused" => c.id # i /\ Unreferenced(i)
        BY <3>1, <4>1 DEF Owned, Unreferenced
      <4> HIDE DEF c
      <4> QED BY <1>1, <3>4, <4>2 DEF Unreferenced
    <3>6. \A q \in Procs : LocalOwned(cli'[q], o, applied)
      BY <3>3, <3>4 DEF Owned
    <3> QED BY <1>1, <3>5, <3>6 DEF Owned
  <2>3. LocalOwned(Proceed(cli[p]), o, applied)
    BY <1>0, <2>1, ProceedOwned
  <2> QED BY <1>0, <1>2, <1>3, <1>4, <1>5, <2>2, <2>3 DEF ReadLock
<1>6. CASE ReadJournal(p)
  <2>1. CASE file[cli[p].id] = "whole"
    <3> DEFINE c == [cli[p] EXCEPT !.mem = journal[cli[p].id]]
    <3>1. cli[p].id \in Ids /\ o[cli[p].id] = Sanitize[cli[p].dev]
      BY <1>0, <1>6 DEF ReadJournal, LocalOwned, WithSession
    <3>2. /\ journal[cli[p].id] \in Session /\ journal[cli[p].id].dev \in Devices
          /\ JournalOwned(journal[cli[p].id], o[cli[p].id], applied)
      BY <2>1, <3>1 DEF Owned, TypeInv, TypeOK
    <3>3. /\ c.dev = cli[p].dev /\ c.mem = journal[cli[p].id] /\ c.op = cli[p].op
          /\ c.chg = cli[p].chg /\ c.id = cli[p].id /\ c.pc = "readjournal" /\ c \in Cli
          /\ cli[p].pc = "readjournal"
      BY <1>0, <1>6, <3>2 DEF Cli, ReadJournal
    <3>4. LocalOwned(c, o, applied) /\ CliOK(c)
      <4> HIDE DEF c
      <4>1. LocalOwned(c, o, applied)
        BY <1>0, <3>1, <3>2, <3>3 DEF LocalOwned, JournalOwned, Holding
      <4>2. CliOK(c)
        BY <1>0, <3>1, <3>3 DEF CliOK, StageOK
      <4> QED BY <4>1, <4>2
    <3>5. LocalOwned(Proceed(c), o, applied) /\ Proceed(c).id \in {cli[p].id, None}
      BY <1>4, <3>2, <3>3, <3>4, ProceedOwned
    <3> QED BY <1>2, <1>6, <2>1, <3>5 DEF ReadJournal
  <2>2. CASE file[cli[p].id] # "whole"
    BY <1>2, <1>3, <1>6, <2>2 DEF ReadJournal
  <2> QED BY <2>1, <2>2
<1> QED BY <1>5, <1>6

\* A write backs the entry that records it, and a save writes backed entries.
LEMMA OwnedWrite ==
    ASSUME TypeInv, NEW o \in [Ids -> Keys \cup {None}], Owned(o), NEW p \in Procs,
           \/ \E d \in Changes : RouterWrite(p, d) \/ AmbiguousWrite(p, d)
           \/ SaveOpen(p) \/ SaveFill(p) \/ Unlock(p)
    PROVE  Owned(o)'
<1> USE DEF files, routers, history
<1>0. /\ CliOK(cli[p]) /\ cli[p] \in Cli /\ LocalOwned(cli[p], o, applied)
      /\ cli[p].pc \in WithSession => cli[p].id \in Ids
      /\ cli[p].pc \in Holding => cli[p].mem.dev \in Devices
  BY LiveOK DEF CliOK, StageOK, Owned, LocalOwned
<1>1. ASSUME NEW d \in Changes, RouterWrite(p, d) \/ AmbiguousWrite(p, d) PROVE Owned(o)'
  <2>1. /\ Grows(applied, applied') /\ applied'[d] = cli[p].dev /\ cli[p].dev \in Devices
        /\ UNCHANGED <<lock, file, journal>>
    BY <1>1, LiveOK DEF RouterWrite, AmbiguousWrite, Grows, TypeInv, TypeOK
  <2> DEFINE c == [Idle EXCEPT !.pc = "readlock", !.op = "record",
                               !.dev = cli[p].dev, !.chg = d]
  <2>2. LocalOwned(c, o, applied') /\ c.id = None
    <3>1. c.id = None /\ c.mem = Blank /\ c.chg = d /\ c.dev = cli[p].dev /\ c.pc = "readlock"
      BY DEF Idle
    <3> HIDE DEF c
    <3>2. Backed(Blank, applied') /\ None \notin Ids /\ Blank.dev \notin Devices
      BY BlankOwned, StoreAssumption DEF Blank
    <3>3. applied'[d] # None
      BY <2>1, StoreAssumption
    <3> QED BY <2>1, <3>1, <3>2, <3>3 DEF LocalOwned, Holding
  <2>3. Goto(p, c) \/ Goto(p, Idle)
    BY <1>1 DEF RouterWrite, AmbiguousWrite, Done
  <2>4. LocalOwned(Idle, o, applied') /\ Idle.id = None
    BY BlankOwned DEF Idle
  <2> HIDE DEF c
  <2> QED BY <2>1, <2>2, <2>3, <2>4, OwnedStepOf
<1>2. CASE SaveOpen(p) \/ SaveFill(p) \/ Unlock(p)
  <2>1. applied' = applied /\ Grows(applied, applied')
    BY <1>2 DEF SaveOpen, SaveFill, Unlock, Grows
  <2>2. PICK c : Goto(p, c) /\ LocalOwned(c, o, applied) /\ c.id \in {cli[p].id, None}
    <3>1. PICK c : Goto(p, c) /\ (c = Idle \/ Moves(cli[p], c))
      <4>1. SaveOpen(p) => Moves(cli[p], [cli[p] EXCEPT !.pc = "savefill"])
        BY <1>0 DEF SaveOpen, Moves, Cli, Holding
      <4> QED BY <1>0, <1>2, <4>1, OnwardMoves DEF SaveOpen, SaveFill, Unlock
    <3> QED BY <1>0, <3>1, MovesOwned, BlankOwned DEF Moves, Idle
  <2>3. /\ \A k \in Keys : lock'[k] \in {lock[k], Absent, Empty}
        /\ \A i \in Ids : \/ file'[i] = file[i] /\ journal'[i] = journal[i]
                          \/ file'[i] = "torn" /\ journal'[i] = Blank
                          \/ /\ i = cli[p].id /\ cli[p].pc = "savefill"
                             /\ journal'[i] = cli[p].mem /\ file'[i] = "whole"
    BY <1>0, <1>2 DEF SaveOpen, SaveFill, Unlock, TypeInv, TypeOK
  <2>4. ASSUME cli[p].pc = "savefill"
        PROVE  /\ JournalOwned(cli[p].mem, o[cli[p].id], applied)
               /\ cli[p].mem.dev \in Devices
    BY <1>0, <2>4 DEF LocalOwned, JournalOwned, Holding, WithSession
  <2> QED BY <2>1, <2>2, <2>3, <2>4, BlankOwned, OwnedStepOf
<1> QED BY <1>1, <1>2

\* Rollback, watch, removal and the ways a process ends keep the owners.
LEMMA OwnedOther ==
    ASSUME TypeInv, NEW o \in [Ids -> Keys \cup {None}], Owned(o), NEW p \in Procs,
           \/ Undo(p) \/ MarkRolledBack(p) \/ UndoFails(p) \/ LinkLost(p)
           \/ Forget(p) \/ PurgeLock(p) \/ PurgeJournals(p)
           \/ Quit(p) \/ Crash(p) \/ IOFails(p)
    PROVE  Owned(o)'
<1> USE DEF files, routers, history
<1>0. /\ CliOK(cli[p]) /\ cli[p] \in Cli /\ LocalOwned(cli[p], o, applied)
      /\ cli[p].pc \in Holding => cli[p].mem.dev \in Devices
      /\ cli[p].mem \in Session
  BY LiveOK DEF CliOK, Owned, LocalOwned, Cli
<1>1. applied' = applied /\ Grows(applied, applied')
  BY DEF Undo, MarkRolledBack, UndoFails, LinkLost, Forget, PurgeLock, PurgeJournals, Quit,
         Crash, IOFails, Grows
<1>2. PICK c : Goto(p, c) /\ (c = Idle \/ Moves(cli[p], c))
  <2>1. CASE Undo(p) \/ MarkRolledBack(p) \/ UndoFails(p) \/ LinkLost(p)
    <3>1. cli[p].pc \in {"undo", "watching"} /\ cli[p].mem.dev \in Devices
      BY <1>0, <2>1 DEF Undo, MarkRolledBack, UndoFails, LinkLost, Holding
    <3>2. /\ Moves(cli[p], [cli[p] EXCEPT !.pos = @ - 1])
          /\ Moves(cli[p], [cli[p] EXCEPT !.pc = "saveopen", !.mem.status = "rolled_back",
                                          !.mem.pending = FALSE])
          /\ Moves(cli[p], [cli[p] EXCEPT !.pos = Len(cli[p].mem.changes)])
          /\ Moves(cli[p], [cli[p] EXCEPT !.pc = "saveopen", !.op = "pend",
                                          !.mem.pending = TRUE])
          /\ Moves(cli[p], [cli[p] EXCEPT !.pc = "undo", !.op = "autoroll",
                                          !.pos = Len(cli[p].mem.changes)])
      BY <1>0, <3>1 DEF Moves, Cli, Session
    <3> QED BY <2>1, <3>2 DEF Undo, MarkRolledBack, UndoFails, LinkLost, Done
  <2>2. CASE Forget(p) \/ PurgeLock(p) \/ PurgeJournals(p)
    <3>1. \A q \in {"dropunlock", "purge"} : Moves(cli[p], [cli[p] EXCEPT !.pc = q])
      BY <1>0 DEF Moves, Cli, Holding
    <3> QED BY <2>2, <3>1 DEF Forget, PurgeLock, PurgeJournals, Done
  <2>3. CASE Quit(p) \/ Crash(p) \/ IOFails(p)
    BY <1>0, <2>3, OnwardMoves DEF Quit, Crash, IOFails, Done
  <2> QED BY <2>1, <2>2, <2>3
<1>3. LocalOwned(c, o, applied) /\ c.id \in {cli[p].id, None}
  BY <1>0, <1>2, MovesOwned, BlankOwned DEF Moves, Idle
<1>4. /\ \A k \in Keys : lock'[k] \in {lock[k], Absent, Empty}
      /\ \A i \in Ids : \/ file'[i] = file[i] /\ journal'[i] = journal[i]
                        \/ file'[i] = "absent" /\ journal'[i] = Blank
  BY DEF Undo, MarkRolledBack, UndoFails, LinkLost, Forget, PurgeLock, PurgeJournals, Quit,
         Crash, IOFails, TypeInv, TypeOK
<1> QED BY <1>1, <1>2, <1>3, <1>4, BlankOwned, OwnedStepOf

\* A new process refers to nothing yet.
LEMMA OwnedStart ==
    ASSUME TypeInv, NEW o \in [Ids -> Keys \cup {None}], Owned(o), NEW p \in Procs, NEW d \in Devices,
           \/ \E safe \in SafeModes : StartBegin(p, d, safe)
           \/ \E op \in Op : StartCommand(p, op, d)
           \/ StartForcedRemove(p, d)
    PROVE  Owned(o)'
<1> USE DEF files, routers, history
<1>1. ASSUME NEW c, Start(p, c), c.id = None, c.dev = d, c.op # "record",
             Entries(c.mem) = {}, c.mem.dev = d \/ (c.mem.dev = None /\ c.pc \notin Holding)
      PROVE  Owned(o)'
  <2>1. LocalOwned(c, o, applied)
    BY <1>1, StoreAssumption DEF LocalOwned, Backed
  <2> QED BY <1>1, <2>1, OwnedStepOf DEF Start, Grows
<1>2. Entries(Blank) = {} /\ \A safe : Entries([Blank EXCEPT !.dev = d, !.safe = safe]) = {}
  BY DEF Blank, Entries
<1>3. ASSUME NEW safe \in SafeModes, StartBegin(p, d, safe) PROVE Owned(o)'
  <2> DEFINE c == [Idle EXCEPT !.pc = "stat", !.op = "begin", !.dev = d,
                               !.mem = [Blank EXCEPT !.dev = d, !.safe = safe]]
  <2>1. /\ c.id = None /\ c.dev = d /\ c.op = "begin" /\ c.mem.dev = d
        /\ c.mem = [Blank EXCEPT !.dev = d, !.safe = safe]
    BY DEF Idle, Blank
  <2>2. Start(p, c)
    BY <1>3 DEF StartBegin
  <2> HIDE DEF c
  <2> QED BY <1>1, <1>2, <2>1, <2>2
<1>4. ASSUME NEW op \in Op, StartCommand(p, op, d) PROVE Owned(o)'
  <2> DEFINE c == [Idle EXCEPT !.pc = "readlock", !.op = op, !.dev = d]
  <2>1. /\ c.id = None /\ c.dev = d /\ c.op = op /\ c.mem = Blank /\ c.pc = "readlock"
        /\ Blank.dev = None
    BY DEF Idle, Blank
  <2>2. Start(p, c)
    BY <1>4 DEF StartCommand
  <2>3. op # "record"
    BY <2>1, <2>2, StoreAssumption DEF Start
  <2> HIDE DEF c
  <2> QED BY <1>1, <1>2, <2>1, <2>2, <2>3 DEF Holding
<1>5. CASE StartForcedRemove(p, d)
  <2> DEFINE c == [Idle EXCEPT !.pc = "forget", !.op = "remove", !.dev = d]
  <2>1. /\ c.id = None /\ c.dev = d /\ c.op = "remove" /\ c.mem = Blank /\ c.pc = "forget"
        /\ Blank.dev = None
    BY DEF Idle, Blank
  <2>2. Start(p, c)
    BY <1>5 DEF StartForcedRemove
  <2> HIDE DEF c
  <2> QED BY <1>1, <1>2, <2>1, <2>2 DEF Holding
<1> QED BY <1>3, <1>4, <1>5

\* Every step keeps some owner map.
LEMMA OwnStep == OwnInv /\ [Next]_vars => OwnInv'
<1> SUFFICES ASSUME OwnInv, [Next]_vars PROVE OwnInv'
  OBVIOUS
<1>0. TypeInv /\ TypeInv'
  BY TypeStep DEF OwnInv
<1>1. PICK o \in [Ids -> Keys \cup {None}] : Owned(o)
  BY DEF OwnInv
<1>2. CASE UNCHANGED vars
  BY <1>0, <1>1, <1>2 DEF vars, OwnInv, Owned, Unreferenced
<1>3. CASE Next
  <2>1. PICK p \in Procs :
          \/ \E d \in Devices :
                \/ \E safe \in SafeModes : StartBegin(p, d, safe)
                \/ \E op \in Op : StartCommand(p, op, d)
                \/ StartForcedRemove(p, d)
          \/ Begin(p)
          \/ ReadLock(p) \/ ReadJournal(p)
          \/ \E c \in Changes : RouterWrite(p, c) \/ AmbiguousWrite(p, c)
          \/ SaveOpen(p) \/ SaveFill(p) \/ Unlock(p)
          \/ Undo(p) \/ MarkRolledBack(p) \/ UndoFails(p) \/ LinkLost(p)
          \/ Forget(p) \/ PurgeLock(p) \/ PurgeJournals(p)
          \/ Quit(p) \/ Crash(p) \/ IOFails(p)
    BY <1>3 DEF Next
  <2> QED BY <1>0, <1>1, <2>1, OwnedStart, OwnedBegin, OwnedRead, OwnedWrite, OwnedOther
          DEF OwnInv
<1> QED BY <1>2, <1>3

\* At the start nothing has an owner.
LEMMA OwnInit == Init => OwnInv
<1> SUFFICES ASSUME Init PROVE OwnInv
  OBVIOUS
<1> DEFINE o == [i \in Ids |-> None]
<1>1. /\ \A i \in Ids : journal[i] = Blank /\ Unreferenced(i) /\ file[i] = "unused"
      /\ \A k \in Keys : lock[k] \notin Ids
      /\ \A p \in Procs : cli[p] = Idle
  BY StoreAssumption DEF Init, Unreferenced, Idle
<1>2. Owned(o)
  BY <1>1, BlankOwned DEF Owned
<1> QED BY <1>2, TypeInit DEF OwnInv

\* In every behaviour, what a journal or a copy of it lists was made on a router
\* that shares the session's lock key: whichever of several overlapping commands
\* wrote the file last, rollback never runs the inverse of a write of another key.
THEOREM JournalSound == Spec => []JournaledWasApplied
<1>1. OwnInv => JournaledWasApplied
  BY DEF OwnInv, Owned, LocalOwned, JournalOwned, Backed, JournaledWasApplied
<1> QED BY <1>1, OwnInit, OwnStep, PTL DEF Spec

(***************************************************************************)
(* Part 4.  A lock names a journal that is there, unless its device was    *)
(* removed; later parts need it.  A journal disappears in two ways.        *)
(* BeginWith takes back the one it has just made, which nobody else knows  *)
(* of yet; PurgeDevice deletes those of its device, which by Part 3 are    *)
(* only referred to under that device's key.                               *)
(***************************************************************************)

\* Stages between the creation of a journal and that of its lock.
Fresh == {"fill", "lockopen", "lockfill", "cleanup"}

Purging == {"dropunlock", "purge"}

GoneInv ==
    /\ OwnInv
    /\ \A p \in Procs : cli[p].pc \in Purging => cli[p].dev \notin inventory
    /\ \A p \in Procs : cli[p].pc \in Fresh =>
          /\ \A k \in Keys : lock[k] # cli[p].id
          /\ \A q \in Procs \ {p} : cli[q].id # cli[p].id
    /\ \A i \in Ids : file[i] = "absent" =>
          /\ \A k \in Keys : lock[k] = i => Removed(k)
          /\ \A p \in Procs : cli[p].id = i => Removed(Key(p))

\* The local state e neither begins a session nor purges one.
Steady(c, e) ==
    \/ e = Idle
    \/ /\ e.dev = c.dev /\ e.id \in {c.id, None} /\ e.pc \notin Purging
       /\ e.pc \in Fresh => c.pc \in Fresh

\* Going on from Active, a save, an unlock or an I/O error neither begins nor purges.
LEMMA SteadyOnward ==
    ASSUME NEW c, c \in Cli
    PROVE  /\ Steady(c, Proceed(c)) /\ Steady(c, ProceedOnError(c))
           /\ Steady(c, AfterSave(c)) /\ Steady(c, AfterUnlock(c)) /\ Steady(c, OnIOError(c))
<1>1. Steady(c, Proceed(c))
  BY DEF Steady, Proceed, CheckWrite, RecordChange, Cli, Fresh, Purging
<1>2. Steady(c, ProceedOnError(c)) /\ Steady(c, AfterSave(c)) /\ Steady(c, AfterUnlock(c))
  BY DEF Steady, ProceedOnError, AfterSave, AfterUnlock, Cli, Fresh, Purging
<1>3. CASE c.pc = "unlock"
  BY <1>1, <1>2, <1>3 DEF OnIOError
<1>4. CASE c.pc # "unlock"
  <2>1. Steady(c, OnIOError(c))
    BY <1>4 DEF Steady, OnIOError, Cli, Fresh, Purging
  <2> QED BY <1>1, <1>2, <2>1
<1> QED BY <1>3, <1>4

\* A step that copies no reference, deletes nothing and purges nothing.
LEMMA GoneStepOf ==
    ASSUME GoneInv, OwnInv', NEW p \in Procs, NEW c, Goto(p, c), inventory' = inventory,
           \/ c.id = None /\ c.pc \notin Fresh
           \/ c.id = cli[p].id /\ c.dev = cli[p].dev /\ (c.pc \in Fresh => cli[p].pc \in Fresh),
           c.pc \in Purging => c.dev \notin inventory,
           \A k \in Keys : lock'[k] \in {lock[k], Absent, Empty},
           \A i \in Ids : file'[i] = "absent" => file[i] = "absent"
    PROVE  GoneInv'
<1> USE StoreAssumption
<1>0. TypeInv /\ TypeInv' /\ CliOK(cli[p])
  BY LiveOK DEF GoneInv, OwnInv
<1>1. \A q \in Procs : cli'[q] = cli[q] \/ (q = p /\ cli'[q] = c)
  BY <1>0 DEF Goto, TypeInv, TypeOK
<1>2. \A q \in Procs : cli'[q].pc \in Purging => cli'[q].dev \notin inventory'
  BY <1>1 DEF GoneInv
<1>3. \A q \in Procs : \A i \in Ids :
          cli'[q].id = i => cli[q].id = i /\ cli'[q].dev = cli[q].dev
  BY <1>1
<1>4. \A q \in Procs : cli'[q].pc \in Fresh =>
          cli[q].pc \in Fresh /\ cli'[q].id = cli[q].id /\ cli[q].id \in Ids
  <2>1. \A q \in Procs : cli[q].pc \in Fresh => cli[q].id \in Ids
    BY <1>0 DEF Fresh, WithSession, TypeInv, StageOK
  <2>2. c.pc \in Fresh => c.id # None
    BY <1>0, <1>1, TypeStep DEF TypeInv, StageOK, Fresh, WithSession, Goto, TypeOK
  <2> QED BY <1>1, <2>1, <2>2
<1>5. \A k \in Keys : lock'[k] \in Ids => lock'[k] = lock[k]
  OBVIOUS
<1>6. ASSUME NEW q \in Procs, cli'[q].pc \in Fresh
      PROVE  /\ \A k \in Keys : lock'[k] # cli'[q].id
             /\ \A r \in Procs \ {q} : cli'[r].id # cli'[q].id
  BY <1>3, <1>4, <1>5, <1>6 DEF GoneInv
<1>7. ASSUME NEW i \in Ids, file'[i] = "absent"
      PROVE  /\ \A k \in Keys : lock'[k] = i => Removed(k)'
             /\ \A q \in Procs : cli'[q].id = i => Removed(Key(q))'
  <2>1. file[i] = "absent"
    BY <1>7
  <2> QED BY <1>3, <1>5, <2>1 DEF GoneInv, Removed, Key
<1> QED BY <1>2, <1>6, <1>7 DEF GoneInv

\* session begin deletes only a journal that no lock and no other process knows.
LEMMA GoneBegin ==
    ASSUME GoneInv, OwnInv', NEW p \in Procs, Begin(p)
    PROVE  GoneInv'
<1> USE StoreAssumption DEF files, routers, history
<1>0. /\ TypeInv /\ cli[p] \in Cli /\ Idle.id = None /\ Idle.pc \notin Fresh \cup Purging
      /\ cli[p].pc \in Fresh => cli[p].id \in Ids
  BY LiveOK DEF GoneInv, OwnInv, CliOK, Idle, Fresh, Purging, StageOK, WithSession
<1>1. inventory' = inventory
  BY DEF Begin, BeginStat, BeginCreate, BeginFill, BeginLockOpen, BeginLockFill, BeginCleanup
<1>2. CASE BeginStat(p) \/ BeginFill(p) \/ BeginLockOpen(p)
  <2>1. PICK c : /\ Goto(p, c)
                 /\ \/ c = Idle
                    \/ /\ c.id = cli[p].id /\ c.dev = cli[p].dev /\ c.pc \notin Purging
                       /\ c.pc \in Fresh => cli[p].pc \in Fresh
    BY <1>0, <1>2 DEF BeginStat, BeginFill, BeginLockOpen, Done, Cli, Fresh, Purging
  <2>2. /\ \A k \in Keys : lock'[k] \in {lock[k], Absent, Empty}
        /\ \A i \in Ids : file'[i] = "absent" => file[i] = "absent"
    BY <1>0, <1>2 DEF BeginStat, BeginFill, BeginLockOpen, TypeInv, TypeOK
  <2> QED BY <1>0, <1>1, <2>1, <2>2, GoneStepOf
<1>3. ASSUME NEW i \in Ids, BeginCreate(p, i) PROVE GoneInv'
  <2> DEFINE c == [cli[p] EXCEPT !.pc = "fill", !.id = i]
  <2>1. c.id = i /\ c.pc = "fill" /\ c.dev = cli[p].dev
    BY <1>0 DEF Cli
  <2>2. /\ \A q \in Procs : cli'[q] = cli[q] \/ (q = p /\ cli'[q] = c)
        /\ cli'[p] = c /\ lock' = lock
        /\ \A j \in Ids : file'[j] = "absent" => file[j] = "absent" /\ j # i
    BY <1>0, <1>3 DEF BeginCreate, Goto, TypeInv, TypeOK
  <2> HIDE DEF c
  <2>3. Unreferenced(i)
    BY <1>3 DEF BeginCreate, GoneInv, OwnInv, Owned
  <2>4. \A q \in Procs : cli'[q].pc \in Purging => cli'[q].dev \notin inventory'
    BY <1>1, <2>1, <2>2 DEF GoneInv, Purging
  <2>5. ASSUME NEW q \in Procs, cli'[q].pc \in Fresh
        PROVE  /\ \A k \in Keys : lock'[k] # cli'[q].id
               /\ \A r \in Procs \ {q} : cli'[r].id # cli'[q].id
    BY <2>1, <2>2, <2>3, <2>5 DEF GoneInv, Unreferenced
  <2>6. ASSUME NEW j \in Ids, file'[j] = "absent"
        PROVE  /\ \A k \in Keys : lock'[k] = j => Removed(k)'
               /\ \A q \in Procs : cli'[q].id = j => Removed(Key(q))'
    <3>1. file[j] = "absent" /\ j # i
      BY <2>2, <2>6
    <3> QED BY <1>1, <2>1, <2>2, <3>1 DEF GoneInv, Removed, Key
  <2> QED BY <2>4, <2>5, <2>6 DEF GoneInv
<1>4. CASE BeginLockFill(p)
  <2>1. /\ \A q \in Procs : cli'[q] = cli[q] \/ (q = p /\ cli'[q] = Idle)
        /\ cli'[p] = Idle /\ file' = file
        /\ \A k \in Keys : lock'[k] = lock[k] \/ (k = Key(p) /\ lock'[k] = cli[p].id)
    BY <1>0, <1>4 DEF BeginLockFill, Done, Goto, TypeInv, TypeOK
  <2>2. cli[p].pc \in Fresh /\ cli[p].id \in Ids
    BY <1>0, <1>4 DEF BeginLockFill, Fresh
  <2>3. \A q \in Procs : cli'[q].pc \in Purging => cli'[q].dev \notin inventory'
    BY <1>0, <1>1, <2>1 DEF GoneInv
  <2>4. ASSUME NEW q \in Procs, cli'[q].pc \in Fresh
        PROVE  /\ \A k \in Keys : lock'[k] # cli'[q].id
               /\ \A r \in Procs \ {q} : cli'[r].id # cli'[q].id
    <3>1. q # p /\ cli'[q] = cli[q] /\ cli[q].id \in Ids
      BY <1>0, <2>1, <2>4 DEF TypeInv, StageOK, Fresh, WithSession
    <3> QED BY <1>0, <2>1, <2>2, <2>4, <3>1 DEF GoneInv
  <2>5. ASSUME NEW i \in Ids, file'[i] = "absent"
        PROVE  /\ \A k \in Keys : lock'[k] = i => Removed(k)'
               /\ \A q \in Procs : cli'[q].id = i => Removed(Key(q))'
    BY <1>0, <1>1, <2>1, <2>5 DEF GoneInv, Removed, Key
  <2> QED BY <2>3, <2>4, <2>5 DEF GoneInv
<1>5. CASE BeginCleanup(p)
  <2>1. /\ \A q \in Procs : cli'[q] = cli[q] \/ (q = p /\ cli'[q] = Idle)
        /\ cli'[p] = Idle /\ lock' = lock
        /\ \A i \in Ids : file'[i] = file[i] \/ i = cli[p].id
    BY <1>0, <1>5 DEF BeginCleanup, Done, Goto, TypeInv, TypeOK
  <2>2. /\ \A k \in Keys : lock[k] # cli[p].id
        /\ \A q \in Procs \ {p} : cli[q].id # cli[p].id
    BY <1>5 DEF BeginCleanup, GoneInv, Fresh
  <2>3. \A q \in Procs : cli'[q].pc \in Purging => cli'[q].dev \notin inventory'
    BY <1>0, <1>1, <2>1 DEF GoneInv
  <2>4. ASSUME NEW q \in Procs, cli'[q].pc \in Fresh
        PROVE  /\ \A k \in Keys : lock'[k] # cli'[q].id
               /\ \A r \in Procs \ {q} : cli'[r].id # cli'[q].id
    <3>1. q # p /\ cli'[q] = cli[q] /\ cli[q].id \in Ids
      BY <1>0, <2>1, <2>4 DEF TypeInv, StageOK, Fresh, WithSession
    <3> QED BY <1>0, <2>1, <2>4, <3>1 DEF GoneInv
  <2>5. ASSUME NEW i \in Ids, file'[i] = "absent"
        PROVE  /\ \A k \in Keys : lock'[k] = i => Removed(k)'
               /\ \A q \in Procs : cli'[q].id = i => Removed(Key(q))'
    <3>1. CASE i = cli[p].id
      BY <1>0, <2>1, <2>2, <3>1
    <3>2. CASE i # cli[p].id
      BY <1>0, <1>1, <2>1, <2>5, <3>2 DEF GoneInv, Removed, Key
    <3> QED BY <3>1, <3>2
  <2> QED BY <2>3, <2>4, <2>5 DEF GoneInv
<1> QED BY <1>2, <1>3, <1>4, <1>5 DEF Begin

\* A command that reads a lock gets a journal that is there, or that was purged.
LEMMA GoneRead ==
    ASSUME GoneInv, OwnInv', NEW p \in Procs, ReadLock(p) \/ ReadJournal(p)
    PROVE  GoneInv'
<1> USE StoreAssumption DEF files, routers, history
<1>0. TypeInv /\ cli[p] \in Cli /\ Idle.id = None /\ Idle.pc \notin Fresh \cup Purging
  BY LiveOK DEF GoneInv, OwnInv, CliOK, Idle, Fresh, Purging
<1>1. /\ UNCHANGED <<lock, file, inventory>>
      /\ cli[p].pc \notin Fresh /\ cli[p].pc # "idle"
  BY DEF ReadLock, ReadJournal, Fresh
<1>2. ASSUME NEW c, Goto(p, c), NEW d, d.id = cli[p].id, d.dev = cli[p].dev,
             d.pc = cli[p].pc, Steady(d, c)
      PROVE  GoneInv'
  BY <1>0, <1>1, <1>2, GoneStepOf DEF Steady
<1>3. Steady(cli[p], ProceedOnError(cli[p])) /\ Steady(cli[p], Proceed(cli[p]))
  BY <1>0, SteadyOnward
<1>4. CASE /\ lock[Key(p)] \in Ids
           /\ Goto(p, [cli[p] EXCEPT !.pc = "readjournal", !.id = lock[Key(p)]])
  <2> DEFINE c == [cli[p] EXCEPT !.pc = "readjournal", !.id = lock[Key(p)]]
  <2>1. c.id = lock[Key(p)] /\ c.pc = "readjournal" /\ c.dev = cli[p].dev
    BY <1>0 DEF Cli
  <2>2. \A q \in Procs : cli'[q] = cli[q] \/ (q = p /\ cli'[q] = c)
    BY <1>0, <1>4 DEF Goto, TypeInv, TypeOK
  <2>3. Key(p) \in Keys
    BY <1>0, <1>1, LiveOK
  <2> HIDE DEF c
  <2>4. \A q \in Procs : cli'[q].pc \in Purging => cli'[q].dev \notin inventory'
    BY <1>1, <2>1, <2>2 DEF GoneInv, Purging
  <2>5. ASSUME NEW q \in Procs, cli'[q].pc \in Fresh
        PROVE  /\ \A k \in Keys : lock'[k] # cli'[q].id
               /\ \A r \in Procs \ {q} : cli'[r].id # cli'[q].id
    <3>1. cli'[q] = cli[q]
      BY <2>1, <2>2, <2>5 DEF Fresh
    <3> QED BY <1>1, <2>1, <2>2, <2>3, <2>5, <3>1 DEF GoneInv
  <2>6. ASSUME NEW i \in Ids, file'[i] = "absent"
        PROVE  /\ \A k \in Keys : lock'[k] = i => Removed(k)'
               /\ \A q \in Procs : cli'[q].id = i => Removed(Key(q))'
    BY <1>1, <2>1, <2>2, <2>3, <2>6 DEF GoneInv, Removed, Key
  <2> QED BY <2>4, <2>5, <2>6 DEF GoneInv
<1>5. CASE Goto(p, Proceed(cli[p])) \/ Goto(p, ProceedOnError(cli[p]))
  BY <1>2, <1>3, <1>5
<1>6. CASE ReadJournal(p) /\ Goto(p, Proceed([cli[p] EXCEPT !.mem = journal[cli[p].id]]))
  <2> DEFINE d == [cli[p] EXCEPT !.mem = journal[cli[p].id]]
  <2>1. cli[p].id \in Ids /\ journal[cli[p].id] \in Session
    BY <1>0, <1>6 DEF ReadJournal, TypeInv, TypeOK, StageOK, WithSession
  <2>2. d \in Cli /\ d.id = cli[p].id /\ d.dev = cli[p].dev /\ d.pc = cli[p].pc
    BY <1>0, <2>1 DEF Cli
  <2> HIDE DEF d
  <2>3. Steady(d, Proceed(d))
    BY <2>2, SteadyOnward
  <2>4. Goto(p, Proceed(d))
    BY <1>6 DEF d
  <2> QED BY <1>2, <2>2, <2>3, <2>4
<1> QED BY <1>4, <1>5, <1>6 DEF ReadLock, ReadJournal

\* Writes, rollbacks and the ways a process ends delete no journal.
LEMMA GoneOther ==
    ASSUME GoneInv, OwnInv', NEW p \in Procs,
           \/ \E d \in Changes : RouterWrite(p, d) \/ AmbiguousWrite(p, d)
           \/ SaveOpen(p) \/ SaveFill(p) \/ Unlock(p)
           \/ Undo(p) \/ MarkRolledBack(p) \/ UndoFails(p) \/ LinkLost(p)
           \/ Quit(p) \/ Crash(p) \/ IOFails(p)
    PROVE  GoneInv'
<1> USE StoreAssumption DEF files, routers, history
<1>0. TypeInv /\ cli[p] \in Cli /\ Idle.id = None /\ Idle.pc \notin Fresh \cup Purging
  BY LiveOK DEF GoneInv, OwnInv, CliOK, Idle, Fresh, Purging
<1>1. PICK c : Goto(p, c) /\ (Steady(cli[p], c) \/ (c.id = None /\ c.pc = "readlock"))
  <2>1. /\ Steady(cli[p], Idle) /\ Steady(cli[p], AfterSave(cli[p]))
        /\ Steady(cli[p], AfterUnlock(cli[p])) /\ Steady(cli[p], OnIOError(cli[p]))
    BY <1>0, SteadyOnward DEF Steady
  <2>2. CASE \E d \in Changes : RouterWrite(p, d) \/ AmbiguousWrite(p, d)
    <3>1. \A d : LET c == [Idle EXCEPT !.pc = "readlock", !.op = "record",
                                       !.dev = cli[p].dev, !.chg = d]
                 IN c.id = None /\ c.pc = "readlock"
      BY DEF Idle
    <3> QED BY <2>1, <2>2, <3>1 DEF RouterWrite, AmbiguousWrite, Done
  <2>3. CASE SaveOpen(p) \/ SaveFill(p) \/ Unlock(p)
    <3>1. Steady(cli[p], [cli[p] EXCEPT !.pc = "savefill"])
      BY <1>0 DEF Steady, Cli, Fresh, Purging
    <3> QED BY <2>1, <2>3, <3>1 DEF SaveOpen, SaveFill, Unlock
  <2>4. CASE Undo(p) \/ MarkRolledBack(p) \/ UndoFails(p) \/ LinkLost(p)
    <3>1. cli[p].pc \in {"undo", "watching"}
      BY <2>4 DEF Undo, MarkRolledBack, UndoFails, LinkLost
    <3>2. /\ Steady(cli[p], [cli[p] EXCEPT !.pos = @ - 1])
          /\ Steady(cli[p], [cli[p] EXCEPT !.pc = "saveopen", !.mem.status = "rolled_back",
                                           !.mem.pending = FALSE])
          /\ Steady(cli[p], [cli[p] EXCEPT !.pos = Len(cli[p].mem.changes)])
          /\ Steady(cli[p], [cli[p] EXCEPT !.pc = "saveopen", !.op = "pend",
                                           !.mem.pending = TRUE])
          /\ Steady(cli[p], [cli[p] EXCEPT !.pc = "undo", !.op = "autoroll",
                                           !.pos = Len(cli[p].mem.changes)])
      BY <1>0, <3>1 DEF Steady, Cli, Fresh, Purging
    <3> QED BY <2>1, <2>4, <3>2 DEF Undo, MarkRolledBack, UndoFails, LinkLost, Done
  <2>5. CASE Quit(p) \/ Crash(p) \/ IOFails(p)
    BY <2>1, <2>5 DEF Quit, Crash, IOFails, Done
  <2> QED BY <2>2, <2>3, <2>4, <2>5
<1>2. /\ inventory' = inventory
      /\ \A k \in Keys : lock'[k] \in {lock[k], Absent, Empty}
      /\ \A i \in Ids : file'[i] = "absent" => file[i] = "absent"
  BY <1>0 DEF RouterWrite, AmbiguousWrite, SaveOpen, SaveFill, Unlock, Undo, MarkRolledBack,
     UndoFails, LinkLost, Quit, Crash, IOFails, TypeInv, TypeOK
<1>3. /\ \/ c.id = None /\ c.pc \notin Fresh
         \/ c.id = cli[p].id /\ c.dev = cli[p].dev /\ (c.pc \in Fresh => cli[p].pc \in Fresh)
      /\ c.pc \in Purging => c.dev \notin inventory
  <2>1. CASE Steady(cli[p], c) /\ c # Idle /\ c.pc \in Fresh
    <3>1. c.id # None
      <4>1. cli'[p] = c /\ TypeInv'
        BY <1>0, <1>1 DEF Goto, TypeInv, TypeOK, OwnInv
      <4> QED BY <2>1, <4>1 DEF TypeInv, StageOK, Fresh, WithSession
    <3> QED BY <2>1, <3>1 DEF Steady
  <2>2. CASE ~(Steady(cli[p], c) /\ c # Idle /\ c.pc \in Fresh)
    BY <1>0, <1>1, <2>2 DEF Steady, Fresh, Purging
  <2> QED BY <2>1, <2>2
<1> QED BY <1>1, <1>2, <1>3, GoneStepOf

\* The device leaves the inventory before anything of it is deleted.
LEMMA GoneRemove ==
    ASSUME GoneInv, OwnInv', NEW p \in Procs, Forget(p) \/ PurgeLock(p) \/ PurgeJournals(p)
    PROVE  GoneInv'
<1> USE StoreAssumption DEF files, routers, history
<1>0. TypeInv /\ cli[p] \in Cli /\ Idle.id = None /\ Idle.pc \notin Fresh \cup Purging
  BY LiveOK DEF GoneInv, OwnInv, CliOK, Idle, Fresh, Purging
<1>1. PICK c : /\ Goto(p, c)
               /\ \/ c = Idle
                  \/ /\ c.id = cli[p].id /\ c.dev = cli[p].dev /\ c.pc \in Purging
                     /\ cli[p].dev \notin inventory'
  <2>2. PurgeLock(p) => cli[p].dev \notin inventory'
    BY DEF PurgeLock, GoneInv, Purging
  <2>3. CASE Forget(p)
    <3> DEFINE c == [cli[p] EXCEPT !.pc = "dropunlock"]
    <3>1. Goto(p, c) /\ cli[p].dev \notin inventory'
      BY <2>3 DEF Forget
    <3>2. c.id = cli[p].id /\ c.dev = cli[p].dev /\ c.pc \in Purging
      BY <1>0 DEF Cli, Purging
    <3> QED BY <3>1, <3>2
  <2>4. CASE PurgeLock(p)
    <3> DEFINE c == [cli[p] EXCEPT !.pc = "purge"]
    <3>1. Goto(p, c) /\ cli[p].dev \notin inventory'
      BY <2>2, <2>4 DEF PurgeLock
    <3>2. c.id = cli[p].id /\ c.dev = cli[p].dev /\ c.pc \in Purging
      BY <1>0 DEF Cli, Purging
    <3> QED BY <3>1, <3>2
  <2>5. CASE PurgeJournals(p)
    BY <2>5 DEF PurgeJournals, Done
  <2> QED BY <2>3, <2>4, <2>5
<1>2. \A q \in Procs : cli'[q] = cli[q] \/ (q = p /\ cli'[q] = c)
  BY <1>0, <1>1 DEF Goto, TypeInv, TypeOK
<1>3. /\ inventory' \subseteq inventory
      /\ \A k \in Keys : lock'[k] \in {lock[k], Absent}
      /\ \A i \in Ids : file'[i] = "absent" =>
            \/ file[i] = "absent"
            \/ file[i] = "whole" /\ journal[i].dev = cli[p].dev /\ PurgeJournals(p)
  BY <1>0 DEF Forget, PurgeLock, PurgeJournals, TypeInv, TypeOK
<1>4. \A k \in Keys : Removed(k) => Removed(k)'
  BY <1>3 DEF Removed
<1>5. \A q \in Procs : \A i \in Ids :
          cli'[q].id = i => cli[q].id = i /\ cli'[q].dev = cli[q].dev
  BY <1>0, <1>1, <1>2
<1>6. \A q \in Procs : cli'[q].pc \in Purging => cli'[q].dev \notin inventory'
  BY <1>0, <1>1, <1>2, <1>3 DEF GoneInv
<1>7. ASSUME NEW q \in Procs, cli'[q].pc \in Fresh
      PROVE  /\ \A k \in Keys : lock'[k] # cli'[q].id
             /\ \A r \in Procs \ {q} : cli'[r].id # cli'[q].id
  <2>1. cli'[q] = cli[q]
    BY <1>0, <1>1, <1>2, <1>7 DEF Fresh, Purging
  <2>2. cli[q].id \in Ids
    BY <1>0, <1>7, <2>1 DEF TypeInv, StageOK, Fresh, WithSession
  <2> QED BY <1>3, <1>5, <1>7, <2>1, <2>2 DEF GoneInv
<1>8. ASSUME NEW i \in Ids, file'[i] = "absent"
      PROVE  /\ \A k \in Keys : lock'[k] = i => Removed(k)'
             /\ \A q \in Procs : cli'[q].id = i => Removed(Key(q))'
  <2>1. CASE file[i] = "absent"
    <3>1. /\ \A k \in Keys : lock'[k] = i => Removed(k)
          /\ \A q \in Procs : cli'[q].id = i => Removed(Key(q)) /\ Key(q)' = Key(q)
      BY <1>3, <1>5, <2>1 DEF GoneInv, Key
    <3>2. \A q \in Procs : cli'[q].id = i => Removed(Key(q))'
      BY <1>3, <3>1 DEF Removed
    <3> QED BY <1>4, <3>1, <3>2
  <2>2. CASE file[i] = "whole" /\ journal[i].dev = cli[p].dev /\ PurgeJournals(p)
    <3>1. PICK d \in Devices \ inventory' : d = cli[p].dev
      BY <1>0, <2>2, LiveOK DEF PurgeJournals, GoneInv, Purging
    <3>2. PICK o \in [Ids -> Keys \cup {None}] : Owned(o)
      BY DEF GoneInv, OwnInv
    <3>3. o[i] = Sanitize[d]
      BY <2>2, <3>1, <3>2 DEF Owned, JournalOwned
    <3>4. \A k \in Keys : lock'[k] = i => k = Sanitize[d]
      BY <1>3, <3>2, <3>3 DEF Owned
    <3>5. \A q \in Procs : cli'[q].id = i => Key(q)' = Sanitize[d]
      BY <1>5, <3>2, <3>3 DEF Owned, LocalOwned, Key
    <3>6. Removed(Sanitize[d])'
      BY DEF Removed
    <3>7. \A k \in Keys : lock'[k] = i => Removed(k)'
      BY <3>4, <3>6
    <3>8. \A q \in Procs : cli'[q].id = i => Removed(Key(q))'
      BY <3>5, <3>6 DEF Removed
    <3> QED BY <3>7, <3>8
  <2> QED BY <1>3, <1>8, <2>1, <2>2
<1> QED BY <1>6, <1>7, <1>8 DEF GoneInv

\* A new process refers to nothing and purges nothing.
LEMMA GoneStart ==
    ASSUME GoneInv, OwnInv', NEW p \in Procs, NEW d \in Devices,
           \/ \E safe \in SafeModes : StartBegin(p, d, safe)
           \/ \E op \in Op : StartCommand(p, op, d)
           \/ StartForcedRemove(p, d)
    PROVE  GoneInv'
<1> USE DEF files, routers
<1>1. PICK c : Start(p, c) /\ c.id = None /\ c.pc \in {"stat", "readlock", "forget"}
  <2>1. ASSUME NEW safe \in SafeModes, StartBegin(p, d, safe)
        PROVE  \E c : Start(p, c) /\ c.id = None /\ c.pc \in {"stat", "readlock", "forget"}
    <3> DEFINE c == [Idle EXCEPT !.pc = "stat", !.op = "begin", !.dev = d,
                                 !.mem = [Blank EXCEPT !.dev = d, !.safe = safe]]
    <3>1. Start(p, c) /\ c.id = None /\ c.pc = "stat"
      BY <2>1 DEF StartBegin, Idle
    <3> QED BY <3>1
  <2>2. ASSUME NEW op \in Op, StartCommand(p, op, d)
        PROVE  \E c : Start(p, c) /\ c.id = None /\ c.pc \in {"stat", "readlock", "forget"}
    <3> DEFINE c == [Idle EXCEPT !.pc = "readlock", !.op = op, !.dev = d]
    <3>1. Start(p, c) /\ c.id = None /\ c.pc = "readlock"
      BY <2>2 DEF StartCommand, Idle
    <3> QED BY <3>1
  <2>3. ASSUME StartForcedRemove(p, d)
        PROVE  \E c : Start(p, c) /\ c.id = None /\ c.pc \in {"stat", "readlock", "forget"}
    <3> DEFINE c == [Idle EXCEPT !.pc = "forget", !.op = "remove", !.dev = d]
    <3>1. Start(p, c) /\ c.id = None /\ c.pc = "forget"
      BY <2>3 DEF StartForcedRemove, Idle
    <3> QED BY <3>1
  <2> QED BY <2>1, <2>2, <2>3
<1> QED BY <1>1, GoneStepOf DEF Start, Fresh, Purging

\* Every step keeps the claim of Part 4.
LEMMA GoneStep == GoneInv /\ [Next]_vars => GoneInv'
<1> SUFFICES ASSUME GoneInv, [Next]_vars PROVE GoneInv'
  OBVIOUS
<1>0. OwnInv'
  BY OwnStep DEF GoneInv
<1>1. CASE UNCHANGED vars
  BY <1>0, <1>1 DEF vars, GoneInv, Removed, Key
<1>2. CASE Next
  <2>1. PICK p \in Procs :
          \/ \E d \in Devices :
                \/ \E safe \in SafeModes : StartBegin(p, d, safe)
                \/ \E op \in Op : StartCommand(p, op, d)
                \/ StartForcedRemove(p, d)
          \/ Begin(p)
          \/ ReadLock(p) \/ ReadJournal(p)
          \/ \E c \in Changes : RouterWrite(p, c) \/ AmbiguousWrite(p, c)
          \/ SaveOpen(p) \/ SaveFill(p) \/ Unlock(p)
          \/ Undo(p) \/ MarkRolledBack(p) \/ UndoFails(p) \/ LinkLost(p)
          \/ Forget(p) \/ PurgeLock(p) \/ PurgeJournals(p)
          \/ Quit(p) \/ Crash(p) \/ IOFails(p)
    BY <1>2 DEF Next
  <2> QED BY <1>0, <2>1, GoneStart, GoneBegin, GoneRead, GoneOther, GoneRemove
<1> QED BY <1>1, <1>2

(***************************************************************************)
(* Part 5.  ClosedIsReleased.  Only a save by a command that goes on to     *)
(* remove the lock gives a journal a final status, and only a begin, whose  *)
(* journal is active and known to nobody else, gives a lock a session.      *)
(***************************************************************************)

Starting == {"stat", "create", "fill", "lockopen", "lockfill", "cleanup"}

\* Stages of a begin whose journal is on disk.
Locking == {"lockopen", "lockfill", "cleanup"}

LocalOpen(c) ==
    /\ c.pc \in Starting => c.mem.status = "active"
    /\ c.pc \in {"saveopen", "savefill"} /\ c.op \in {"record", "pend"}
          => c.mem.status = "active"
    /\ c.pc = "undo" => c.op \in {"rollback", "autoroll"}

LocksOpen == \A p \in Procs : cli[p].pc \in Locking => journal[cli[p].id].status = "active"

OpenInv ==
    /\ GoneInv
    /\ \A p \in Procs : LocalOpen(cli[p])
    /\ LocksOpen
    /\ ClosedIsReleased

\* Going on from Active, a save, an unlock or an I/O error keeps a copy that must be
\* active active.
LEMMA OpenOnward ==
    ASSUME NEW c, c \in Cli, LocalOpen(c)
    PROVE  /\ LocalOpen(Idle) /\ LocalOpen(Proceed(c)) /\ LocalOpen(ProceedOnError(c))
           /\ LocalOpen(AfterSave(c)) /\ LocalOpen(AfterUnlock(c)) /\ LocalOpen(OnIOError(c))
<1>1. LocalOpen(Idle)
  BY DEF LocalOpen, Idle, Starting
<1>2. LocalOpen(Proceed(c))
  <2>1. LocalOpen(CheckWrite(c))
    BY <1>1 DEF CheckWrite, LocalOpen, Cli, Starting
  <2>2. LocalOpen(RecordChange(c))
    BY <1>1 DEF RecordChange, LocalOpen, Cli, Session, Starting
  <2> QED BY <1>1, <2>1, <2>2 DEF Proceed, LocalOpen, Cli, Starting
<1>3. LocalOpen(ProceedOnError(c)) /\ LocalOpen(AfterSave(c)) /\ LocalOpen(AfterUnlock(c))
  BY <1>1 DEF ProceedOnError, AfterSave, AfterUnlock, LocalOpen, Cli, Starting
<1>4. LocalOpen(OnIOError(c))
  <2>1. CASE c.pc = "unlock"
    BY <1>3, <2>1 DEF OnIOError
  <2>2. CASE c.pc # "unlock"
    BY <1>1, <2>2 DEF OnIOError, LocalOpen, Cli, Starting
  <2> QED BY <2>1, <2>2
<1> QED BY <1>1, <1>2, <1>3, <1>4

\* A step of one process that fills no journal with a final status and no lock, and is
\* not at the removal of one.
LEMMA OpenStepOf ==
    ASSUME OpenInv, GoneInv', NEW p \in Procs, NEW c, Goto(p, c), LocalOpen(c),
           cli[p].pc # "unlock",
           c.pc \in Locking => cli[p].pc \in Locking /\ c.id = cli[p].id,
           \A k \in Keys : lock'[k] \in {lock[k], Absent, Empty},
           \A i \in Ids : journal'[i].status \in {journal[i].status, "active"},
           \A i \in Ids : file'[i] = "whole" =>
               file[i] = "whole" \/ journal'[i].status = "active",
           stuck \subseteq stuck'
    PROVE  OpenInv'
<1> USE StoreAssumption
<1>0. TypeInv
  BY DEF OpenInv, GoneInv, OwnInv
<1>1. \A q \in Procs : cli'[q] = cli[q] \/ (q = p /\ cli'[q] = c)
  BY <1>0 DEF Goto, TypeInv, TypeOK
<1>2. \A q \in Procs : LocalOpen(cli'[q])
  BY <1>1 DEF OpenInv
<1>3. ASSUME NEW q \in Procs, cli'[q].pc \in Locking
      PROVE  journal'[cli'[q].id].status = "active"
  <2>1. cli[q].pc \in Locking /\ cli'[q].id = cli[q].id
    BY <1>1, <1>3
  <2>2. cli[q].id \in Ids
    BY <1>0, <2>1 DEF TypeInv, StageOK, Locking, WithSession
  <2> QED BY <2>1, <2>2 DEF OpenInv, LocksOpen
<1>4. ASSUME NEW k \in Keys, NEW i \in Ids, lock'[k] = i, Closed(i)'
      PROVE  k \in stuck' \/ \E q \in Procs : cli'[q].pc = "unlock" /\ cli'[q].id = i
  <2>1. lock[k] = i
    BY <1>4
  <2>2. Closed(i)
    BY <1>4 DEF Closed
  <2>3. CASE k \in stuck
    BY <2>3
  <2>4. CASE \E q \in Procs : cli[q].pc = "unlock" /\ cli[q].id = i
    <3>1. PICK q \in Procs : cli[q].pc = "unlock" /\ cli[q].id = i
      BY <2>4
    <3>2. cli'[q] = cli[q]
      BY <1>1, <3>1
    <3> QED BY <3>1, <3>2
  <2> QED BY <2>1, <2>2, <2>3, <2>4 DEF OpenInv, ClosedIsReleased
<1>5. LocksOpen'
  BY <1>3 DEF LocksOpen
<1>6. ClosedIsReleased'
  BY <1>4 DEF ClosedIsReleased
<1> QED BY <1>2, <1>5, <1>6 DEF OpenInv

\* session begin makes active journals only, and locks them while they are.
LEMMA OpenBegin ==
    ASSUME OpenInv, GoneInv', NEW p \in Procs, Begin(p)
    PROVE  OpenInv'
<1> USE StoreAssumption DEF files, routers, history
<1>0. TypeInv /\ GoneInv /\ cli[p] \in Cli /\ LocalOpen(cli[p]) /\ LocalOpen(Idle)
  BY LiveOK, OpenOnward DEF OpenInv, GoneInv, OwnInv, CliOK
<1>1. Idle.pc \notin Locking /\ Blank.status = "active"
  BY DEF Idle, Blank, Locking
<1>2. \A q \in Procs : cli[q].pc \in Fresh => cli[q].id \in Ids
  BY <1>0 DEF TypeInv, StageOK, Fresh, WithSession
<1>3. CASE BeginStat(p) \/ BeginLockOpen(p)
  <2>1. PICK c : /\ Goto(p, c) /\ LocalOpen(c)
                 /\ c.pc \in Locking => cli[p].pc \in Locking /\ c.id = cli[p].id
    BY <1>0, <1>1, <1>3 DEF BeginStat, BeginLockOpen, Done, Cli, LocalOpen, Starting, Locking
  <2>2. \A k \in Keys : lock'[k] \in {lock[k], Absent, Empty}
    BY <1>0, <1>3 DEF BeginStat, BeginLockOpen, TypeInv, TypeOK
  <2>3. cli[p].pc # "unlock" /\ UNCHANGED <<journal, file, stuck>>
    BY <1>3 DEF BeginStat, BeginLockOpen
  <2> QED BY <2>1, <2>2, <2>3, OpenStepOf
<1>4. ASSUME NEW i \in Ids, BeginCreate(p, i) PROVE OpenInv'
  <2> DEFINE c == [cli[p] EXCEPT !.pc = "fill", !.id = i]
  <2>1. LocalOpen(c) /\ c.pc \notin Locking
    BY <1>0, <1>4 DEF BeginCreate, Cli, LocalOpen, Starting, Locking
  <2>2. /\ Goto(p, c) /\ cli[p].pc # "unlock" /\ UNCHANGED <<lock, journal, stuck>>
        /\ \A j \in Ids : file'[j] = "whole" => file[j] = "whole"
    BY <1>0, <1>4 DEF BeginCreate, TypeInv, TypeOK
  <2> HIDE DEF c
  <2> QED BY <2>1, <2>2, OpenStepOf
<1>5. CASE BeginFill(p)
  <2> DEFINE c == [cli[p] EXCEPT !.pc = "lockopen"]
  <2>1. /\ \A q \in Procs : cli'[q] = cli[q] \/ (q = p /\ cli'[q] = c)
        /\ cli'[p] = c /\ lock' = lock /\ stuck' = stuck
        /\ \A j \in Ids \ {cli[p].id} : file'[j] = file[j] /\ journal'[j] = journal[j]
        /\ cli[p].id \in Ids /\ journal'[cli[p].id] = cli[p].mem
    BY <1>0, <1>2, <1>5 DEF BeginFill, Goto, TypeInv, TypeOK, Fresh
  <2>2. LocalOpen(c) /\ c.id = cli[p].id /\ cli[p].mem.status = "active" /\ cli[p].pc # "unlock"
    BY <1>0, <1>5 DEF BeginFill, Cli, LocalOpen, Starting
  <2> HIDE DEF c
  <2>3. \A q \in Procs : LocalOpen(cli'[q])
    BY <2>1, <2>2 DEF OpenInv
  <2>4. ASSUME NEW q \in Procs, cli'[q].pc \in Locking
        PROVE  journal'[cli'[q].id].status = "active"
    <3>1. CASE q = p
      BY <2>1, <2>2, <3>1
    <3>2. CASE q # p
      <4>1. cli'[q] = cli[q] /\ cli[q].pc \in Fresh
        BY <2>1, <2>4, <3>2 DEF Locking, Fresh
      <4>2. cli[q].id \in Ids /\ cli[p].id # cli[q].id
        BY <1>0, <1>2, <3>2, <4>1 DEF GoneInv
      <4> QED BY <2>1, <2>4, <4>1, <4>2 DEF OpenInv, LocksOpen
    <3> QED BY <3>1, <3>2
  <2>5. ASSUME NEW k \in Keys, NEW i \in Ids, lock'[k] = i, Closed(i)'
        PROVE  k \in stuck' \/ \E q \in Procs : cli'[q].pc = "unlock" /\ cli'[q].id = i
    <3>1. i # cli[p].id /\ Closed(i)
      BY <2>1, <2>2, <2>5 DEF Closed
    <3>2. k \in stuck \/ \E q \in Procs : cli[q].pc = "unlock" /\ cli[q].id = i
      BY <2>1, <2>5, <3>1 DEF OpenInv, ClosedIsReleased
    <3> QED BY <2>1, <2>2, <3>2
  <2> QED BY <2>3, <2>4, <2>5 DEF OpenInv, LocksOpen, ClosedIsReleased
<1>6. CASE BeginLockFill(p)
  <2>1. /\ \A q \in Procs : cli'[q] = cli[q] \/ (q = p /\ cli'[q] = Idle)
        /\ UNCHANGED <<file, journal, stuck>>
        /\ \A k \in Keys : lock'[k] = lock[k] \/ lock'[k] = cli[p].id
        /\ journal[cli[p].id].status = "active" /\ cli[p].pc # "unlock"
    BY <1>0, <1>6 DEF BeginLockFill, Done, Goto, TypeInv, TypeOK, OpenInv, LocksOpen, Locking
  <2>2. \A q \in Procs : LocalOpen(cli'[q])
    BY <1>0, <2>1 DEF OpenInv
  <2>3. LocksOpen'
    BY <1>1, <2>1 DEF OpenInv, LocksOpen
  <2>4. ASSUME NEW k \in Keys, NEW i \in Ids, lock'[k] = i, Closed(i)'
        PROVE  k \in stuck' \/ \E q \in Procs : cli'[q].pc = "unlock" /\ cli'[q].id = i
    <3>1. lock[k] = i /\ Closed(i)
      BY <2>1, <2>4 DEF Closed
    <3>2. k \in stuck \/ \E q \in Procs : cli[q].pc = "unlock" /\ cli[q].id = i
      BY <3>1 DEF OpenInv, ClosedIsReleased
    <3> QED BY <2>1, <3>2
  <2> QED BY <2>2, <2>3, <2>4 DEF OpenInv, ClosedIsReleased
<1>7. CASE BeginCleanup(p)
  <2>1. /\ Goto(p, Idle) /\ cli[p].pc # "unlock" /\ UNCHANGED <<lock, stuck>>
        /\ \A i \in Ids : journal'[i] \in {journal[i], Blank}
        /\ \A i \in Ids : file'[i] = "whole" => file[i] = "whole"
    BY <1>0, <1>7 DEF BeginCleanup, Done, TypeInv, TypeOK
  <2> QED BY <1>0, <1>1, <2>1, OpenStepOf
<1> QED BY <1>3, <1>4, <1>5, <1>6, <1>7 DEF Begin

\* A save with a final status is followed by the removal of the lock.
LEMMA OpenSave ==
    ASSUME OpenInv, GoneInv', NEW p \in Procs, SaveOpen(p) \/ SaveFill(p)
    PROVE  OpenInv'
<1> USE StoreAssumption DEF files, routers, history
<1>0. TypeInv /\ GoneInv /\ cli[p] \in Cli /\ LocalOpen(cli[p]) /\ LocalOpen(AfterSave(cli[p]))
  BY LiveOK, OpenOnward DEF OpenInv, GoneInv, OwnInv, CliOK
<1>1. CASE SaveOpen(p)
  <2> DEFINE c == [cli[p] EXCEPT !.pc = "savefill"]
  <2>1. LocalOpen(c) /\ c.pc \notin Locking
    BY <1>0, <1>1 DEF SaveOpen, Cli, LocalOpen, Starting, Locking
  <2>2. /\ Goto(p, c) /\ cli[p].pc # "unlock" /\ UNCHANGED <<lock, stuck>>
        /\ \A i \in Ids : journal'[i].status \in {journal[i].status, "active"}
        /\ \A i \in Ids : file'[i] = "whole" => file[i] = "whole"
    BY <1>0, <1>1 DEF SaveOpen, TypeInv, TypeOK, Blank
  <2> HIDE DEF c
  <2> QED BY <2>1, <2>2, OpenStepOf
<1>2. CASE SaveFill(p)
  <2>1. /\ Goto(p, AfterSave(cli[p])) /\ cli[p].pc = "savefill" /\ UNCHANGED <<lock, stuck>>
        /\ \A i \in Ids \ {cli[p].id} : journal'[i] = journal[i] /\ file'[i] = file[i]
        /\ cli[p].id \in Ids /\ journal'[cli[p].id] = cli[p].mem
    BY <1>0, <1>2 DEF SaveFill, TypeInv, TypeOK, StageOK, WithSession
  <2>2. AfterSave(cli[p]).pc \notin Locking
    BY <1>0 DEF AfterSave, Cli, Locking, Idle
  <2>3. CASE cli[p].op \in {"record", "pend"}
    <3>1. cli[p].mem.status = "active"
      BY <1>0, <2>1, <2>3 DEF LocalOpen
    <3>2. \A i \in Ids : journal'[i].status \in {journal[i].status, "active"}
      BY <2>1, <3>1
    <3>3. \A i \in Ids : file'[i] = "whole" =>
              file[i] = "whole" \/ journal'[i].status = "active"
      BY <2>1, <3>1
    <3> QED BY <1>0, <2>1, <2>2, <3>2, <3>3, OpenStepOf
  <2>4. CASE cli[p].op \notin {"record", "pend"}
    <3>1. /\ \A q \in Procs : cli'[q] = cli[q] \/ q = p
          /\ cli'[p].pc = "unlock" /\ cli'[p].id = cli[p].id
      BY <1>0, <2>1, <2>4 DEF AfterSave, Goto, TypeInv, TypeOK, Cli
    <3>2. \A q \in Procs : LocalOpen(cli'[q])
      BY <1>0, <2>1, <3>1 DEF OpenInv, Goto, TypeInv, TypeOK
    <3>3. ASSUME NEW q \in Procs, cli'[q].pc \in Locking
          PROVE  journal'[cli'[q].id].status = "active"
      <4>1. q # p /\ cli'[q] = cli[q] /\ cli[q].pc \in Fresh
        BY <3>1, <3>3 DEF Locking, Fresh
      <4>2. cli[q].id \in Ids /\ cli[p].id # cli[q].id
        BY <1>0, <4>1 DEF GoneInv, TypeInv, StageOK, Fresh, WithSession
      <4> QED BY <2>1, <3>3, <4>1, <4>2 DEF OpenInv, LocksOpen
    <3>4. ASSUME NEW k \in Keys, NEW i \in Ids, lock'[k] = i, Closed(i)'
          PROVE  k \in stuck' \/ \E q \in Procs : cli'[q].pc = "unlock" /\ cli'[q].id = i
      <4>1. CASE i = cli[p].id
        BY <3>1, <4>1
      <4>2. CASE i # cli[p].id
        <5>1. Closed(i) /\ lock[k] = i
          BY <2>1, <3>4, <4>2 DEF Closed
        <5>2. k \in stuck \/ \E q \in Procs : cli[q].pc = "unlock" /\ cli[q].id = i
          BY <5>1 DEF OpenInv, ClosedIsReleased
        <5> QED BY <2>1, <3>1, <5>2
      <4> QED BY <4>1, <4>2
    <3> QED BY <3>2, <3>3, <3>4 DEF OpenInv, LocksOpen, ClosedIsReleased
  <2> QED BY <2>3, <2>4
<1> QED BY <1>1, <1>2

\* The removal of a lock, done or failed, is of the lock under which its session is owned.
LEMMA OpenUnlock ==
    ASSUME OpenInv, GoneInv', NEW p \in Procs, cli[p].pc = "unlock",
           Unlock(p) \/ Crash(p) \/ IOFails(p)
    PROVE  OpenInv'
<1> USE StoreAssumption DEF files, routers, history
<1>0. /\ TypeInv /\ cli[p] \in Cli /\ LocalOpen(Idle)
      /\ LocalOpen(AfterUnlock(cli[p])) /\ AfterUnlock(cli[p]).pc \notin Locking
      /\ Idle.pc \notin Locking /\ Key(p) \in Keys
  <2>1. TypeInv /\ CliOK(cli[p]) /\ LocalOpen(cli[p]) /\ Key(p) \in Keys
    BY LiveOK DEF OpenInv, GoneInv, OwnInv
  <2>2. cli[p] \in Cli /\ Idle.pc \notin Locking
    BY <2>1 DEF CliOK, Idle, Locking
  <2>3. AfterUnlock(cli[p]).pc \notin Locking
    BY <2>2 DEF AfterUnlock, Cli, Locking
  <2> QED BY <2>1, <2>2, <2>3, OpenOnward
<1>1. PICK o \in [Ids -> Keys \cup {None}] : Owned(o)
  BY DEF OpenInv, GoneInv, OwnInv
<1>2. Sanitize[cli[p].mem.dev] = Key(p)
  BY <1>1 DEF Owned, LocalOwned, Holding, Key
<1>3. PICK c \in {Idle, AfterUnlock(cli[p])} : Goto(p, c)
  BY <1>0 DEF Unlock, Crash, IOFails, OnIOError, Done
<1>4. \A q \in Procs : cli'[q] = cli[q] \/ (q = p /\ cli'[q] = c)
  BY <1>0, <1>3 DEF Goto, TypeInv, TypeOK
<1>5. /\ UNCHANGED <<file, journal>> /\ stuck \subseteq stuck'
      /\ \A k \in Keys : lock'[k] \in {lock[k], Absent}
      /\ lock'[Key(p)] = Absent \/ Key(p) \in stuck'
  BY <1>0, <1>2 DEF Unlock, Crash, IOFails, Spoil, TypeInv, TypeOK
<1>6. \A q \in Procs : LocalOpen(cli'[q])
  BY <1>0, <1>3, <1>4 DEF OpenInv
<1>7. LocksOpen'
  BY <1>0, <1>3, <1>4, <1>5 DEF OpenInv, LocksOpen
<1>8. ASSUME NEW k \in Keys, NEW i \in Ids, lock'[k] = i, Closed(i)'
      PROVE  k \in stuck' \/ \E q \in Procs : cli'[q].pc = "unlock" /\ cli'[q].id = i
  <2>1. lock[k] = i /\ Closed(i)
    BY <1>5, <1>8 DEF Closed
  <2>2. CASE k \in stuck
    BY <1>5, <2>2
  <2>3. ASSUME NEW q \in Procs, cli[q].pc = "unlock", cli[q].id = i
        PROVE  k \in stuck' \/ \E r \in Procs : cli'[r].pc = "unlock" /\ cli'[r].id = i
    <3>1. CASE q = p
      <4>1. k = Key(p)
        BY <1>1, <2>1, <2>3, <3>1 DEF Owned, LocalOwned, Key
      <4> QED BY <1>5, <1>8, <4>1
    <3>2. CASE q # p
      BY <1>4, <2>3, <3>2
    <3> QED BY <3>1, <3>2
  <2> QED BY <2>1, <2>2, <2>3 DEF OpenInv, ClosedIsReleased
<1>9. ClosedIsReleased'
  BY <1>8 DEF ClosedIsReleased
<1> QED BY <1>6, <1>7, <1>9 DEF OpenInv

\* Reading, undoing, removing a device and giving up close no session.
LEMMA OpenOther ==
    ASSUME OpenInv, GoneInv', NEW p \in Procs, cli[p].pc # "unlock",
           \/ ReadLock(p) \/ ReadJournal(p)
           \/ \E d \in Changes : RouterWrite(p, d) \/ AmbiguousWrite(p, d)
           \/ Undo(p) \/ MarkRolledBack(p) \/ UndoFails(p) \/ LinkLost(p)
           \/ Forget(p) \/ PurgeLock(p) \/ PurgeJournals(p)
           \/ Quit(p) \/ Crash(p) \/ IOFails(p)
    PROVE  OpenInv'
<1> USE StoreAssumption DEF files, routers, history
<1>0. TypeInv /\ cli[p] \in Cli /\ LocalOpen(cli[p])
  BY LiveOK DEF OpenInv, GoneInv, OwnInv, CliOK
<1>1. Idle.pc \notin Locking /\ Blank.status = "active"
  BY DEF Idle, Blank, Locking
<1>2. PICK c : /\ Goto(p, c) /\ LocalOpen(c)
               /\ c.pc \in Locking => cli[p].pc \in Locking /\ c.id = cli[p].id
  <2>1. /\ LocalOpen(Idle) /\ LocalOpen(ProceedOnError(cli[p])) /\ LocalOpen(Proceed(cli[p]))
        /\ LocalOpen(OnIOError(cli[p]))
    BY <1>0, OpenOnward
  <2>2. CASE ReadLock(p) \/ ReadJournal(p)
    <3> DEFINE d == [cli[p] EXCEPT !.mem = journal[cli[p].id]]
    <3>1. ReadJournal(p) => d \in Cli /\ LocalOpen(d)
      <4>1. ReadJournal(p) => cli[p].id \in Ids /\ journal[cli[p].id] \in Session
        BY <1>0 DEF ReadJournal, TypeInv, TypeOK, StageOK, WithSession
      <4> QED BY <1>0, <4>1 DEF ReadJournal, Cli, LocalOpen, Starting
    <3>2. \A e \in Cli : e.pc \notin Locking =>
              Proceed(e).pc \notin Locking /\ ProceedOnError(e).pc \notin Locking
      BY DEF Proceed, ProceedOnError, CheckWrite, RecordChange, Cli, Idle, Locking
    <3>3. ReadLock(p) => LocalOpen([cli[p] EXCEPT !.pc = "readjournal", !.id = lock[Key(p)]])
      BY <1>0 DEF ReadLock, Cli, LocalOpen, Starting
    <3>4. [cli[p] EXCEPT !.pc = "readjournal", !.id = lock[Key(p)]].pc \notin Locking
      BY <1>0 DEF Cli, Locking
    <3>5. ReadJournal(p) => LocalOpen(Proceed(d)) /\ Proceed(d).pc \notin Locking
      <4>1. ReadJournal(p) => d.pc \notin Locking
        BY <1>0 DEF ReadJournal, Cli, Locking
      <4> HIDE DEF d
      <4> QED BY <3>1, <3>2, <4>1, OpenOnward
    <3>6. cli[p].pc \notin Locking
      BY <2>2 DEF ReadLock, ReadJournal, Locking
    <3>7. CASE ReadLock(p)
      BY <1>0, <2>1, <3>2, <3>3, <3>4, <3>6, <3>7 DEF ReadLock
    <3>8. CASE ReadJournal(p)
      BY <1>0, <2>1, <3>2, <3>5, <3>6, <3>8 DEF ReadJournal
    <3> QED BY <2>2, <3>7, <3>8
  <2>3. CASE \E d \in Changes : RouterWrite(p, d) \/ AmbiguousWrite(p, d)
    <3>1. \A d : LET e == [Idle EXCEPT !.pc = "readlock", !.op = "record",
                                       !.dev = cli[p].dev, !.chg = d]
                 IN LocalOpen(e) /\ e.pc \notin Locking
      BY DEF Idle, LocalOpen, Starting, Locking
    <3> QED BY <1>1, <2>1, <2>3, <3>1 DEF RouterWrite, AmbiguousWrite, Done
  <2>4. CASE Undo(p) \/ MarkRolledBack(p) \/ UndoFails(p) \/ LinkLost(p)
    <3> DEFINE Keeps(e) == LocalOpen(e) /\ e.pc \notin Locking
               c == cli[p]
    <3>1. c.pc \in {"undo", "watching"} /\ c \in Cli /\ c.mem \in Session
      BY <1>0, <2>4 DEF Undo, MarkRolledBack, UndoFails, LinkLost, Cli
    <3>2. Keeps(Idle)
      BY <1>1, <2>1
    <3>3. CASE Undo(p) \/ UndoFails(p)
      <4>1. /\ c.pc = "undo" => Keeps([c EXCEPT !.pos = @ - 1])
            /\ c.pc = "undo" => Keeps([c EXCEPT !.pos = Len(c.mem.changes)])
        BY <1>0, <3>1 DEF Cli, LocalOpen, Starting, Locking
      <4> QED BY <3>2, <3>3, <4>1 DEF Undo, UndoFails, Done
    <3>4. CASE MarkRolledBack(p)
      <4> DEFINE e == [c EXCEPT !.pc = "saveopen", !.mem.status = "rolled_back",
                                !.mem.pending = FALSE]
      <4>1. c.op \notin {"record", "pend"} => Keeps(e)
        BY <3>1 DEF Cli, LocalOpen, Starting, Locking
      <4>2. c.op \notin {"record", "pend"}
        BY <3>4 DEF MarkRolledBack, OpenInv, LocalOpen
      <4> QED BY <3>4, <4>1, <4>2 DEF MarkRolledBack
    <3>5. CASE LinkLost(p)
      <4>1. /\ c.mem.status = "active" =>
                  Keeps([c EXCEPT !.pc = "saveopen", !.op = "pend", !.mem.pending = TRUE])
            /\ Keeps([c EXCEPT !.pc = "undo", !.op = "autoroll", !.pos = Len(c.mem.changes)])
        BY <3>1 DEF Cli, Session, LocalOpen, Starting, Locking
      <4> QED BY <3>5, <4>1 DEF LinkLost
    <3> QED BY <2>4, <3>3, <3>4, <3>5
  <2>5. CASE Forget(p) \/ PurgeLock(p) \/ PurgeJournals(p)
    BY <1>0, <1>1, <2>1, <2>5 DEF Forget, PurgeLock, PurgeJournals, Done, Cli, LocalOpen,
       Starting, Locking
  <2>6. CASE Quit(p) \/ Crash(p)
    BY <1>1, <2>1, <2>6 DEF Quit, Crash, Done
  <2>7. CASE IOFails(p)
    <3>1. OnIOError(cli[p]).pc \in Locking =>
              cli[p].pc \in Locking /\ OnIOError(cli[p]).id = cli[p].id
      BY <1>0, <1>1 DEF OnIOError, Cli, Locking
    <3> QED BY <2>1, <2>7, <3>1 DEF IOFails
  <2> QED BY <2>2, <2>3, <2>4, <2>5, <2>6, <2>7
<1>3. /\ \A k \in Keys : lock'[k] \in {lock[k], Absent, Empty}
      /\ \A i \in Ids : journal'[i] \in {journal[i], Blank}
      /\ \A i \in Ids : file'[i] = "whole" => file[i] = "whole"
      /\ stuck \subseteq stuck'
  BY <1>0 DEF ReadLock, ReadJournal, RouterWrite, AmbiguousWrite, Undo, MarkRolledBack, UndoFails,
     LinkLost, Forget, PurgeLock, PurgeJournals, Quit, Crash, IOFails, Spoil, TypeInv, TypeOK
<1> QED BY <1>1, <1>2, <1>3, OpenStepOf

\* A new process has no session to close.
LEMMA OpenStart ==
    ASSUME OpenInv, GoneInv', NEW p \in Procs, NEW d \in Devices,
           \/ \E safe \in SafeModes : StartBegin(p, d, safe)
           \/ \E op \in Op : StartCommand(p, op, d)
           \/ StartForcedRemove(p, d)
    PROVE  OpenInv'
<1> USE DEF files, routers
<1>1. PICK c : Start(p, c) /\ LocalOpen(c) /\ c.pc \notin Locking
  <2>1. ASSUME NEW safe \in SafeModes, StartBegin(p, d, safe)
        PROVE  \E c : Start(p, c) /\ LocalOpen(c) /\ c.pc \notin Locking
    <3> DEFINE c == [Idle EXCEPT !.pc = "stat", !.op = "begin", !.dev = d,
                                 !.mem = [Blank EXCEPT !.dev = d, !.safe = safe]]
    <3>1. Start(p, c) /\ c.pc = "stat" /\ c.op = "begin" /\ c.mem.status = "active"
      BY <2>1 DEF StartBegin, Idle, Blank
    <3> QED BY <3>1 DEF LocalOpen, Locking
  <2>2. ASSUME NEW op \in Op, StartCommand(p, op, d)
        PROVE  \E c : Start(p, c) /\ LocalOpen(c) /\ c.pc \notin Locking
    <3> DEFINE c == [Idle EXCEPT !.pc = "readlock", !.op = op, !.dev = d]
    <3>1. Start(p, c) /\ c.pc = "readlock"
      BY <2>2 DEF StartCommand, Idle
    <3> QED BY <3>1 DEF LocalOpen, Starting, Locking
  <2>3. ASSUME StartForcedRemove(p, d)
        PROVE  \E c : Start(p, c) /\ LocalOpen(c) /\ c.pc \notin Locking
    <3> DEFINE c == [Idle EXCEPT !.pc = "forget", !.op = "remove", !.dev = d]
    <3>1. Start(p, c) /\ c.pc = "forget"
      BY <2>3 DEF StartForcedRemove, Idle
    <3> QED BY <3>1 DEF LocalOpen, Starting, Locking
  <2> QED BY <2>1, <2>2, <2>3
<1> QED BY <1>1, OpenStepOf DEF Start

\* Every step keeps the claim of Part 5.
LEMMA OpenStep == OpenInv /\ [Next]_vars => OpenInv'
<1> SUFFICES ASSUME OpenInv, [Next]_vars PROVE OpenInv'
  OBVIOUS
<1>0. GoneInv'
  BY GoneStep DEF OpenInv
<1>1. CASE UNCHANGED vars
  BY <1>0, <1>1 DEF vars, OpenInv, LocksOpen, ClosedIsReleased, Closed
<1>2. CASE Next
  <2>1. PICK p \in Procs :
          \/ \E d \in Devices :
                \/ \E safe \in SafeModes : StartBegin(p, d, safe)
                \/ \E op \in Op : StartCommand(p, op, d)
                \/ StartForcedRemove(p, d)
          \/ Begin(p)
          \/ ReadLock(p) \/ ReadJournal(p)
          \/ \E c \in Changes : RouterWrite(p, c) \/ AmbiguousWrite(p, c)
          \/ SaveOpen(p) \/ SaveFill(p) \/ Unlock(p)
          \/ Undo(p) \/ MarkRolledBack(p) \/ UndoFails(p) \/ LinkLost(p)
          \/ Forget(p) \/ PurgeLock(p) \/ PurgeJournals(p)
          \/ Quit(p) \/ Crash(p) \/ IOFails(p)
    BY <1>2 DEF Next
  <2>2. /\ Unlock(p) => cli[p].pc = "unlock"
        /\ \/ ReadLock(p) \/ ReadJournal(p)
           \/ \E c \in Changes : RouterWrite(p, c) \/ AmbiguousWrite(p, c)
           \/ Undo(p) \/ MarkRolledBack(p) \/ UndoFails(p) \/ LinkLost(p)
           \/ Forget(p) \/ PurgeLock(p) \/ PurgeJournals(p) \/ Quit(p)
           => cli[p].pc # "unlock"
    BY DEF Unlock, ReadLock, ReadJournal, RouterWrite, AmbiguousWrite, Undo, MarkRolledBack,
       UndoFails, LinkLost, Forget, PurgeLock, PurgeJournals, Quit, Harmless
  <2> QED BY <1>0, <2>1, <2>2, OpenStart, OpenBegin, OpenSave, OpenUnlock, OpenOther
<1> QED BY <1>1, <1>2

\* At the start no lock is taken and no slot is in use.
LEMMA OpenInit == Init => OpenInv
<1> SUFFICES ASSUME Init PROVE OpenInv
  OBVIOUS
<1>1. GoneInv
  BY OwnInit DEF Init, GoneInv, Idle, Fresh, Purging
<1>2. LocalOpen(Idle) /\ Idle.pc \notin Locking
  BY DEF Idle, LocalOpen, Starting, Locking
<1>3. ClosedIsReleased
  BY DEF Init, ClosedIsReleased, Closed
<1> QED BY <1>1, <1>2, <1>3 DEF Init, OpenInv, LocksOpen

\* In every behaviour, overlaps, crashes and I/O errors included, a lock names a
\* closed session only while the command that closed it is about to remove the
\* lock, or after the removal has failed: no save gives a session a final status
\* on its way to anything else, and no begin locks a session that is not active.
THEOREM ClosedReleased == Spec => []ClosedIsReleased
<1>1. OpenInv => ClosedIsReleased
  BY DEF OpenInv
<1> QED BY <1>1, OpenInit, OpenStep, PTL DEF Spec
=============================================================================
