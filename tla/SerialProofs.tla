---------------------------- MODULE SerialProofs ----------------------------
(* Proofs about SessionStore, for every value of its constants, as long as   *)
(* the commands on a lock key run one after the other: what it guarantees    *)
(* then, and that it implements SessionLife.                                 *)
EXTENDS StoreRefinement, SessionStoreProofs

(***************************************************************************)
(* Part 1.  The invariant.  A command that has a key to itself reads the    *)
(* lock, then the journal, and acts on both much later; the invariant says   *)
(* for each stage what its copy and the two files have to do with each       *)
(* other.  Nothing is claimed of a key once two commands have overlapped on  *)
(* it, so the claim is made key by key.                                      *)
(***************************************************************************)

\* Stages of a rewrite of the journal and of the removal of the lock after it.
Saving == {"saveopen", "savefill", "unlock"}

\* Stages at which a command works on the session its lock named.
Tending == {"readjournal", "watching", "undo"} \cup Saving

\* Local states of the slots; a slot whose process is at work under key k.
Slots == {cli[p] : p \in Procs}

AtWork(c, k) == c.pc # "idle" /\ Sanitize[c.dev] = k

\* True of every process, alone on its key or not.
Plain(c) ==
    /\ c.pc = "idle" => c = Idle
    /\ c.mem.dev \in Devices \/ c.mem.changes = <<>>
    /\ c.pc \in Starting => c.mem.changes = <<>>
    /\ c.op = "record" =>
          applied[c.chg] = c.dev /\ c.pc \in {"readlock", "readjournal", "saveopen", "savefill"}
    /\ c.op # "record" => c.chg = None
    /\ c.op = "remark" => c.pc \in Saving
    /\ c.pc \in Saving =>
          c.op \in {"record", "pend", "commit", "rollback", "autoroll", "remark"}
    /\ c.pc \in Saving /\ c.op = "commit" => c.mem.status = "committed"
    /\ c.pc \in Saving /\ c.op \in {"rollback", "autoroll", "remark"} =>
          c.mem.status = "rolled_back"
    /\ c.pc = "unlock" => c.op \notin {"record", "pend"}

\* The journal holds what the command holds.
Current(c) == file[c.id] = "whole" /\ journal[c.id] = c.mem

\* It holds the same changes, and its status is the one the copy had when read.
Mirrored(c) ==
    /\ file[c.id] = "whole" /\ journal[c.id].changes = c.mem.changes
    /\ journal[c.id].status = c.mem.status \/ c.mem.status = "rolled_back"

\* A watch failed to rewrite it and goes on to undo the copy it still has.
Wrecked(c) == file[c.id] = "torn" /\ c.op = "autoroll" /\ Entries(c.mem) \subseteq lost

\* AppendChange will accept another entry.
Recordable(s) == s.safe /\ UnderCap(s) /\ s.status = "active"

\* The lock is not there yet, or names the session the command works on.
LockCalm(c, k) ==
    /\ c.pc \in {"create"} \cup Fresh => lock[k] \notin Ids
    /\ c.pc \in Tending /\ c.op # "remark" => lock[k] = c.id
    /\ c.pc \in Tending /\ c.op = "remark" => lock[k] \in {c.id, Absent}

\* What the copy and the journal have to do with each other.
CopyCalm(c, k) ==
    /\ c.pc \in Locking => journal[c.id].changes = <<>>
    /\ c.pc \in {"readlock", "readjournal", "forget", "dropunlock", "purge"} => c.mem = Blank
    /\ c.pc = "run" => c.mem = Blank \/ (c.id \in Ids /\ lock[k] = c.id /\ Current(c))
    /\ c.pc \in {"watching", "unlock"} => Current(c)
    /\ c.pc = "undo" => Mirrored(c) \/ Wrecked(c)
    /\ c.pc = "saveopen" /\ c.op = "record" =>
          /\ file[c.id] = "whole" /\ journal[c.id].status = "active"
          /\ c.mem.changes = Append(journal[c.id].changes, c.chg)
    /\ c.pc = "saveopen" /\ c.op = "commit" =>
          /\ file[c.id] = "whole" /\ journal[c.id].status = "active"
          /\ journal[c.id].changes = c.mem.changes
    /\ c.pc = "saveopen" /\ c.op \notin {"record", "commit"} => Mirrored(c) \/ Wrecked(c)
    /\ c.pc \in {"fill", "savefill"} => file[c.id] = "torn"
    /\ c.pc = "savefill" /\ c.op = "record" => c.chg \in Entries(c.mem)

\* What the guard has found still holds when the change is recorded.
WriteCalm(c, k) ==
    /\ c.pc = "run" =>
          /\ c.dev \in NeedSafe => c.mem.safe
          /\ c.mem.safe => UnderCap(c.mem)
    /\ c.op = "record" /\ c.pc \in {"readlock", "readjournal"} =>
          /\ \A j \in Ids : c.chg \notin Entries(journal[j])
          /\ c.dev \in NeedSafe /\ k \notin stuck /\ ~Removed(k) =>
                lock[k] \in Ids /\ file[lock[k]] = "whole" /\ Recordable(journal[lock[k]])
    /\ c.op = "record" /\ c.pc = "saveopen" => c.chg \notin Entries(journal[c.id])
    /\ c.op = "record" => c.chg \notin kept

\* The copy shares no entry with another session, nor with a committed one unless
\* it is the command committing it.
ApartCalm(c, k) ==
    /\ \A j \in Ids : j # c.id => Entries(c.mem) \cap Entries(journal[j]) = {}
    /\ k \notin stuck /\ (c.pc = "unlock" => c.op # "commit") => Entries(c.mem) \cap kept = {}

Calm(c, k) == LockCalm(c, k) /\ CopyCalm(c, k) /\ WriteCalm(c, k) /\ ApartCalm(c, k)

\* What is lost, in a journal, or in the memory of a process that records it.
Accounted(d) ==
    \/ d \in lost
    \/ \E i \in Ids : d \in Entries(journal[i])
    \/ \E c \in Slots : d = c.chg \/ d \in Entries(c.mem)

\* The two invariants, and what they need about journals, for one key.
JournaledAt(k) ==
    \A d \in Changes :
        applied[d] \in NeedSafe /\ Sanitize[applied[d]] = k /\ k \notin stuck /\ ~Removed(k)
            => Accounted(d)

ReachableAt(k) ==
    \A i \in Ids : Open(i) /\ journal[i].changes # <<>> /\ Sanitize[journal[i].dev] = k
        => lock[k] = i \/ Removed(k)

ApartAt(k) ==
    \A i, j \in Ids : i # j =>
        \A d \in Entries(journal[i]) \cap Entries(journal[j]) : Sanitize[applied[d]] # k

KeptAt(k) ==
    k \notin stuck => \A i \in Ids : Open(i) =>
        \A d \in Entries(journal[i]) \cap kept : Sanitize[applied[d]] # k

CalmAt(k) ==
    /\ \A c \in Slots : AtWork(c, k) => Calm(c, k)
    /\ JournaledAt(k) /\ ReachableAt(k) /\ ApartAt(k) /\ KeptAt(k)

Alone == \A p, q \in Procs : \A k \in Keys :
    p # q /\ AtWork(cli[p], k) /\ AtWork(cli[q], k) => k \in raced

PlainInv ==
    /\ \A c \in Slots : Plain(c)
    /\ \A i \in Ids : file[i] # "whole" => journal[i] = Blank
    /\ \A d \in kept : applied[d] # None
    /\ Alone

CalmInv == OpenInv /\ PlainInv /\ \A k \in Keys \ raced : CalmAt(k)

(***************************************************************************)
(* Part 2.  Locality.  A step under one key leaves the others alone: it     *)
(* touches the lock of its key and the journals owned by its key, and all    *)
(* the entries it moves were made under its key.                             *)
(***************************************************************************)

\* What a step under key k may do, for owners o, when the process's copy is m.
StepAt(k, o, m) ==
    /\ \A h \in Keys \ {k} : lock'[h] = lock[h]
    /\ \A i \in Ids : \/ file'[i] = file[i] /\ journal'[i] = journal[i]
                      \/ (file[i] = "unused" \/ o[i] = k) /\ journal'[i] \in {Blank, m}
    /\ \A d \in Changes :
          \/ applied'[d] = applied[d]
          \/ applied[d] = None /\ applied'[d] \in Devices /\ Sanitize[applied'[d]] = k
    /\ inventory' \subseteq inventory /\ lost \subseteq lost' /\ stuck \subseteq stuck'
    /\ kept \subseteq kept' /\ kept' \subseteq kept \cup Entries(m)

\* Every entry of a journal or a copy was made on a device of the key that owns it.
LEMMA EntryKeys ==
    ASSUME TypeInv, PlainInv, NEW o, Owned(o)
    PROVE  /\ \A i \in Ids : \A d \in Entries(journal[i]) :
                 /\ d \in Changes /\ applied[d] \in Devices /\ Sanitize[applied[d]] = o[i]
                 /\ journal[i].dev \in Devices /\ Sanitize[journal[i].dev] = o[i]
                 /\ file[i] = "whole"
           /\ \A c \in Slots : \A d \in Entries(c.mem) :
                 /\ d \in Changes /\ applied[d] \in Devices
                 /\ Sanitize[applied[d]] = Sanitize[c.dev]
                 /\ c.pc # "idle" /\ c.dev \in Devices
           /\ \A c \in Slots : c \in Cli /\ CliOK(c) /\ LocalOwned(c, o, applied) /\ Plain(c)
           /\ \A c \in Slots : c.chg \in Changes =>
                 c.op = "record" /\ applied[c.chg] = c.dev /\ c.dev \in Devices /\ c.pc # "idle"
<1> USE StoreAssumption
<1>1. \A s \in Session : Entries(s) \subseteq Changes
  BY DEF Session, Entries
<1>2. \A i \in Ids : journal[i] \in Session /\ JournalOwned(journal[i], o[i], applied)
  BY DEF TypeInv, TypeOK, Owned
<1>3. \A d \in Changes : applied[d] # None => applied[d] \in Devices
  BY DEF TypeInv, TypeOK
<1>4. Entries(Blank) = {} /\ Entries(Idle.mem) = {} /\ Idle.op = "none"
  BY DEF Entries, Blank, Idle
<1>5. ASSUME NEW i \in Ids, NEW d \in Entries(journal[i])
      PROVE  /\ d \in Changes /\ applied[d] \in Devices /\ Sanitize[applied[d]] = o[i]
             /\ journal[i].dev \in Devices /\ Sanitize[journal[i].dev] = o[i]
             /\ file[i] = "whole"
  <2>1. file[i] = "whole" /\ d \in Changes
    BY <1>1, <1>2, <1>4, <1>5 DEF PlainInv
  <2> QED BY <1>2, <1>3, <1>5, <2>1 DEF Owned, JournalOwned, Backed
<1>6. ASSUME NEW c \in Slots
      PROVE  c \in Cli /\ CliOK(c) /\ LocalOwned(c, o, applied) /\ Plain(c)
  BY LiveOK DEF Slots, CliOK, Owned, PlainInv
<1>7. ASSUME NEW c \in Slots, NEW d \in Entries(c.mem)
      PROVE  /\ d \in Changes /\ applied[d] \in Devices
             /\ Sanitize[applied[d]] = Sanitize[c.dev]
             /\ c.pc # "idle" /\ c.dev \in Devices
  <2>1. c.pc # "idle"
    BY <1>4, <1>6, <1>7 DEF Plain
  <2>2. c.mem \in Session /\ c.dev \in Devices
    BY <1>6, <2>1 DEF CliOK, StageOK, Cli
  <2>3. c.mem.changes # <<>>
    BY <1>7 DEF Entries
  <2>4. c.mem.dev \in Devices
    BY <1>6, <2>3 DEF Plain
  <2> QED BY <1>1, <1>3, <1>6, <1>7, <2>1, <2>2, <2>4 DEF LocalOwned, Backed
<1>8. ASSUME NEW c \in Slots, c.chg \in Changes
      PROVE  c.op = "record" /\ applied[c.chg] = c.dev /\ c.dev \in Devices /\ c.pc # "idle"
  <2>1. c.op = "record"
    BY <1>6, <1>8 DEF Plain
  <2>2. c.pc # "idle"
    BY <1>4, <1>6, <2>1 DEF Plain
  <2> QED BY <1>6, <2>1, <2>2 DEF Plain, CliOK, StageOK
<1> QED BY <1>5, <1>6, <1>7, <1>8

\* A step under key k leaves another key as it was.
LEMMA Elsewhere ==
    ASSUME TypeInv, TypeInv', PlainInv, NEW o, Owned(o), NEW p \in Procs, NEW k \in Keys,
           cli[p].pc = "idle" \/ AtWork(cli[p], k),
           cli'[p].pc = "idle" \/ AtWork(cli[p], k)',
           \A q \in Procs \ {p} : cli'[q] = cli[q],
           NEW m, m = cli[p].mem, StepAt(k, o, m),
           NEW h \in Keys \ {k}, CalmAt(h)
    PROVE  CalmAt(h)'
<1> USE StoreAssumption
<1>1. /\ \A i \in Ids : \A d \in Entries(journal[i]) :
            /\ d \in Changes /\ applied[d] \in Devices /\ Sanitize[applied[d]] = o[i]
            /\ journal[i].dev \in Devices /\ Sanitize[journal[i].dev] = o[i]
            /\ file[i] = "whole"
      /\ \A c \in Slots : \A d \in Entries(c.mem) :
            /\ d \in Changes /\ applied[d] \in Devices /\ Sanitize[applied[d]] = Sanitize[c.dev]
            /\ c.pc # "idle"
      /\ \A c \in Slots : c \in Cli /\ CliOK(c) /\ LocalOwned(c, o, applied) /\ Plain(c)
      /\ \A c \in Slots : c.chg \in Changes =>
            c.op = "record" /\ applied[c.chg] = c.dev /\ c.pc # "idle"
  BY EntryKeys
<1>2. ASSUME NEW d \in Entries(m)
      PROVE  d \in Changes /\ applied[d] \in Devices /\ Sanitize[applied[d]] = k
  BY <1>1, <1>2 DEF Slots, AtWork
<1>3. ASSUME NEW i \in Ids, file[i] # "unused", o[i] = h
      PROVE  file'[i] = file[i] /\ journal'[i] = journal[i]
  BY <1>3 DEF StepAt
<1>4. ASSUME NEW d \in Changes, Sanitize[applied[d]] # k, applied[d] \in Devices
      PROVE  /\ \A i \in Ids : d \in Entries(journal'[i]) =>
                   file'[i] = file[i] /\ journal'[i] = journal[i]
             /\ \A i \in Ids : d \in Entries(journal[i]) => journal'[i] = journal[i]
             /\ d \in kept' => d \in kept
             /\ applied'[d] = applied[d]
  <2>1. Entries(Blank) = {} /\ d \notin Entries(m)
    BY <1>2, <1>4 DEF Entries, Blank
  <2>2. \A i \in Ids : d \in Entries(journal[i]) => file[i] = "whole" /\ o[i] # k
    BY <1>1, <1>4
  <2> QED BY <1>4, <2>1, <2>2 DEF StepAt
<1>5. ASSUME NEW d \in Changes, applied'[d] \in Devices, Sanitize[applied'[d]] = h
      PROVE  applied[d] = applied'[d]
  BY <1>5 DEF StepAt
<1>6. Removed(h) => Removed(h)'
  BY DEF Removed, StepAt
<1>7. ASSUME NEW c \in Slots', AtWork(c, h)
      PROVE  /\ c \in Slots /\ Calm(c, h) /\ c \in Cli
             /\ c.id \in Ids => file'[c.id] = file[c.id] /\ journal'[c.id] = journal[c.id]
  <2>1. PICK q \in Procs : c = cli'[q]
    BY DEF Slots
  <2>2. q # p
    BY <1>7, <2>1 DEF AtWork
  <2>3. c = cli[q] /\ c \in Slots
    BY <2>1, <2>2 DEF Slots
  <2>4. c.id \in Ids => o[c.id] = h /\ file[c.id] # "unused"
    BY <1>1, <1>7, <2>3 DEF LocalOwned, AtWork, Owned, Unreferenced
  <2> QED BY <1>1, <1>3, <1>7, <2>3, <2>4 DEF CalmAt
<1>8. ASSUME NEW c \in Slots', AtWork(c, h) PROVE Calm(c, h)'
  <2>1. /\ c \in Slots /\ LockCalm(c, h) /\ CopyCalm(c, h) /\ WriteCalm(c, h) /\ ApartCalm(c, h)
        /\ c.id \in Ids => file'[c.id] = file[c.id] /\ journal'[c.id] = journal[c.id]
        /\ lock'[h] = lock[h] /\ CliOK(c) /\ c.dev \in Devices /\ Sanitize[c.dev] = h
    BY <1>1, <1>7, <1>8 DEF Calm, StepAt, AtWork, CliOK, StageOK
  <2>2. LockCalm(c, h)'
    BY <2>1 DEF LockCalm
  <2>3. c.pc \in WithSession => c.id \in Ids
    BY <2>1 DEF CliOK, StageOK
  <2>4. lost \subseteq lost'
    BY DEF StepAt
  <2>5. CopyCalm(c, h)'
    BY <2>1, <2>3, <2>4 DEF CopyCalm, Current, Mirrored, Wrecked, WithSession, Locking
  <2>6. WriteCalm(c, h)'
    <3>1. c.op = "record" => c.chg \in Changes /\ applied[c.chg] = c.dev
      BY <1>1, <2>1 DEF CliOK, StageOK, Plain
    <3>2. c.op = "record" =>
             /\ \A i \in Ids : c.chg \in Entries(journal'[i]) => c.chg \in Entries(journal[i])
             /\ c.chg \in kept' => c.chg \in kept
      BY <1>4, <2>1, <3>1
    <3>3. lock[h] \in Ids => o[lock[h]] = h /\ file[lock[h]] # "unused"
      BY DEF Owned, Unreferenced
    <3>4. lock[h] \in Ids =>
            file'[lock[h]] = file[lock[h]] /\ journal'[lock[h]] = journal[lock[h]]
      BY <1>3, <3>3
    <3>5. stuck \subseteq stuck'
      BY DEF StepAt
    <3>6. c.pc = "saveopen" => c.id \in Ids
      BY <2>3 DEF WithSession
    <3> QED BY <1>6, <2>1, <3>2, <3>4, <3>5, <3>6 DEF WriteCalm, Recordable, UnderCap
  <2>7. ApartCalm(c, h)'
    <3>1. \A d \in Entries(c.mem) :
             /\ \A i \in Ids : d \in Entries(journal'[i]) => d \in Entries(journal[i])
             /\ d \in kept' => d \in kept
      BY <1>1, <1>4, <2>1
    <3>2. stuck \subseteq stuck'
      BY DEF StepAt
    <3> QED BY <2>1, <3>1, <3>2 DEF ApartCalm
  <2> QED BY <2>2, <2>5, <2>6, <2>7 DEF Calm
<1>9. JournaledAt(h)'
  <2> SUFFICES ASSUME NEW d \in Changes, applied'[d] \in NeedSafe, Sanitize[applied'[d]] = h,
                      h \notin stuck', ~Removed(h)'
               PROVE  Accounted(d)'
    BY DEF JournaledAt
  <2>1. applied[d] = applied'[d] /\ h \notin stuck /\ ~Removed(h)
    BY <1>5, <1>6 DEF StepAt
  <2>2. Accounted(d)
    BY <2>1 DEF CalmAt, JournaledAt
  <2>3. CASE d \in lost
    BY <2>3 DEF StepAt, Accounted
  <2>4. CASE \E i \in Ids : d \in Entries(journal[i])
    BY <1>4, <2>1, <2>4 DEF Accounted
  <2>5. CASE \E c \in Slots : d = c.chg \/ d \in Entries(c.mem)
    <3>1. PICK q \in Procs : d = cli[q].chg \/ d \in Entries(cli[q].mem)
      BY <2>5 DEF Slots
    <3>2. cli[q].pc # "idle" /\ Sanitize[cli[q].dev] = h
      BY <1>1, <2>1, <3>1 DEF Slots
    <3>3. q # p
      BY <3>2 DEF AtWork
    <3>4. cli'[q] = cli[q]
      BY <3>3
    <3> QED BY <3>1, <3>4 DEF Accounted, Slots
  <2> QED BY <2>2, <2>3, <2>4, <2>5 DEF Accounted
<1>10. ReachableAt(h)'
  <2> SUFFICES ASSUME NEW i \in Ids, Open(i)', journal'[i].changes # <<>>,
                      Sanitize[journal'[i].dev] = h
               PROVE  lock'[h] = i \/ Removed(h)'
    BY DEF ReachableAt
  <2>1. Entries(journal'[i]) # {}
    <3>1. journal'[i].changes \in Seq(Changes)
      BY DEF TypeInv, TypeOK, Session
    <3>2. Len(journal'[i].changes) \in Nat /\ Len(journal'[i].changes) # 0
      BY <3>1
    <3>3. journal'[i].changes[1] \in Entries(journal'[i])
      BY <3>2 DEF Entries
    <3> QED BY <3>3
  <2>2. journal'[i] # m
    <3>1. CASE cli[p].pc = "idle"
      <4>1. Entries(m) = {}
        BY <1>1, <3>1 DEF Slots
      <4> QED BY <2>1, <4>1
    <3>2. CASE AtWork(cli[p], k)
      <4>1. m.dev \in Devices => Sanitize[m.dev] = k
        BY <1>1, <3>2 DEF LocalOwned, AtWork, Slots
      <4>2. m.dev \in Devices \/ m.changes = <<>>
        BY <1>1 DEF Plain, Slots
      <4> QED BY <4>1, <4>2
    <3> QED BY <3>1, <3>2
  <2>3. file'[i] = file[i] /\ journal'[i] = journal[i]
    <3>1. journal'[i] # Blank
      BY DEF Blank
    <3> QED BY <2>2, <3>1 DEF StepAt
  <2>4. lock[h] = i \/ Removed(h)
    BY <2>3 DEF Open, CalmAt, ReachableAt
  <2> QED BY <1>6, <2>4 DEF StepAt
<1>11. ASSUME NEW i \in Ids, NEW d \in Entries(journal'[i]), Sanitize[applied'[d]] = h
       PROVE  /\ file'[i] = file[i] /\ journal'[i] = journal[i] /\ applied'[d] = applied[d]
              /\ d \in kept' => d \in kept
  <2>1. d \in Changes /\ applied'[d] \in Devices \cup {None}
    BY <1>11 DEF TypeInv, TypeOK, Session, Entries
  <2>2. d \in Entries(journal[i]) \/ d \in Entries(m)
    BY <1>11 DEF StepAt, Blank, Entries
  <2>3. applied[d] \in Devices
    BY <1>1, <1>2, <2>2
  <2>4. applied'[d] = applied[d]
    BY <2>1, <2>3 DEF StepAt
  <2> QED BY <1>4, <1>11, <2>1, <2>3, <2>4
<1>12. ApartAt(h)'
  <2> SUFFICES ASSUME NEW i \in Ids, NEW j \in Ids, i # j,
                      NEW d \in Entries(journal'[i]) \cap Entries(journal'[j]),
                      Sanitize[applied'[d]] = h
               PROVE  FALSE
    BY DEF ApartAt
  <2>1. journal'[i] = journal[i] /\ journal'[j] = journal[j] /\ applied'[d] = applied[d]
    BY <1>11
  <2> QED BY <2>1 DEF CalmAt, ApartAt
<1>13. KeptAt(h)'
  <2> SUFFICES ASSUME h \notin stuck', NEW i \in Ids, Open(i)',
                      NEW d \in Entries(journal'[i]) \cap kept', Sanitize[applied'[d]] = h
               PROVE  FALSE
    BY DEF KeptAt
  <2>1. /\ file'[i] = file[i] /\ journal'[i] = journal[i] /\ applied'[d] = applied[d]
        /\ d \in kept /\ h \notin stuck
    BY <1>11 DEF StepAt
  <2> QED BY <2>1 DEF CalmAt, KeptAt, Open
<1> QED BY <1>8, <1>9, <1>10, <1>12, <1>13 DEF CalmAt

(***************************************************************************)
(* Part 3.  Steps of a command.  By Part 2 a command that has its key to     *)
(* itself has to account for that key only, and for itself only.             *)
(***************************************************************************)

\* What a step of process p, under key k with copy m, leads to, apart from the claims
\* about k, when p goes on as e.
Goes(p, e, k, o, m) ==
    /\ Goto(p, e) /\ cli[p].pc # "idle" /\ k = Key(p) /\ m = cli[p].mem
    /\ e.pc # "idle" => e.dev = cli[p].dev
    /\ UNCHANGED raced /\ StepAt(k, o, m)
    /\ Plain(e)'
    /\ \A i \in Ids : file'[i] # "whole" => journal'[i] = Blank

\* The local claims survive a step once it keeps those about its own key.
LEMMA CalmStepOf ==
    ASSUME CalmInv, OpenInv', NEW o, Owned(o), NEW p \in Procs, NEW e, NEW k, NEW m,
           Goes(p, e, k, o, m),
           k \notin raced =>
               /\ e.pc # "idle" => Calm(e, k)'
               /\ JournaledAt(k)' /\ ReachableAt(k)' /\ ApartAt(k)' /\ KeptAt(k)'
    PROVE  CalmInv'
<1> USE StoreAssumption
<1>0. TypeInv /\ TypeInv' /\ PlainInv /\ CliOK(cli[p]) /\ k \in Keys /\ AtWork(cli[p], k)
  BY LiveOK DEF CalmInv, OpenInv, GoneInv, OwnInv, Goes, AtWork, Key
<1>1. /\ \A q \in Procs \ {p} : cli'[q] = cli[q]
      /\ cli'[p] = e
  BY <1>0 DEF Goes, Goto, TypeInv, TypeOK
<1>2. e.pc = "idle" \/ Sanitize[e.dev] = k
  BY <1>0 DEF Goes, Key
<1>3. ASSUME NEW h \in Keys \ raced, h # k PROVE CalmAt(h)'
  <2>1. cli'[p].pc = "idle" \/ AtWork(cli[p], k)'
    BY <1>1, <1>2 DEF AtWork
  <2>2. StepAt(k, o, m) /\ m = cli[p].mem /\ CalmAt(h)
    BY <1>3 DEF Goes, CalmInv
  <2> QED BY <1>0, <1>1, <1>3, <2>1, <2>2, Elsewhere
<1>4. Alone'
  <2> SUFFICES ASSUME NEW q \in Procs, NEW r \in Procs, NEW h \in Keys, q # r,
                      AtWork(cli'[q], h), AtWork(cli'[r], h)
               PROVE  h \in raced
    BY DEF Alone, AtWork, Goes
  <2>1. AtWork(cli[q], h) /\ AtWork(cli[r], h)
    BY <1>0, <1>1, <1>2 DEF AtWork
  <2> QED BY <2>1 DEF CalmInv, PlainInv, Alone
<1>5. ASSUME k \notin raced PROVE CalmAt(k)'
  <2>1. \A c \in Slots' : AtWork(c, k) => c = e
    <3> SUFFICES ASSUME NEW q \in Procs, AtWork(cli'[q], k) PROVE q = p
      BY <1>1 DEF Slots
    <3> QED BY <1>0, <1>1, <1>5 DEF PlainInv, Alone
  <2>2. \A c \in Slots' : AtWork(c, k) => Calm(c, k)'
    BY <1>5, <2>1 DEF AtWork
  <2> QED BY <1>5, <2>2 DEF CalmAt, AtWork
<1>6. \A c \in Slots' : Plain(c)'
  <2> SUFFICES ASSUME NEW q \in Procs, NEW c, c = cli'[q] PROVE Plain(c)'
    BY DEF Slots
  <2>1. CASE q = p
    BY <1>1, <2>1 DEF Goes
  <2>2. CASE q # p
    <3>1. c \in Slots /\ Plain(c) /\ CliOK(c)
      BY <1>0, <1>1, <2>2, LiveOK DEF Slots, PlainInv
    <3>2. c.op = "record" => c.chg \in Changes /\ c.dev \in Devices
      BY <3>1 DEF CliOK, StageOK, Plain, Idle
    <3>3. c.op = "record" => applied'[c.chg] = applied[c.chg]
      BY <3>1, <3>2 DEF Plain, Goes, StepAt
    <3> QED BY <3>1, <3>3 DEF Plain
  <2> QED BY <2>1, <2>2
<1>7. \A d \in kept' : applied'[d] # None
  <2>1. \A d \in kept' : d \in Changes /\ applied[d] # None
    <3>1. kept \subseteq Changes /\ cli[p] \in Slots
      BY <1>0 DEF TypeInv, TypeOK, Slots
    <3>2. \A d \in Entries(m) : d \in Changes /\ applied[d] \in Devices
      BY <1>0, <3>1, EntryKeys DEF Goes
    <3> QED BY <1>0, <3>1, <3>2 DEF Goes, StepAt, PlainInv
  <2> QED BY <2>1 DEF Goes, StepAt
<1>8. PlainInv'
  BY <1>4, <1>6, <1>7 DEF PlainInv, Goes
<1>9. raced' = raced
  BY DEF Goes
<1> QED BY <1>3, <1>5, <1>8, <1>9 DEF CalmInv

\* Where the entries of a copy are kept safe: in the journal, unless they are lost,
\* about to be written, or the one entry about to be recorded.
LEMMA Backup ==
    ASSUME NEW c, NEW k, CliOK(c), Plain(c), Calm(c, k), NEW d \in Entries(c.mem)
    PROVE  \/ c.id \in Ids /\ d \in Entries(journal[c.id])
           \/ d \in lost
           \/ c.pc = "savefill"
           \/ c.op = "record" /\ c.pc = "saveopen" /\ d = c.chg
<1>1. Entries(Blank) = {} /\ (c.mem.changes = <<>> => Entries(c.mem) = {})
  BY DEF Entries, Blank
<1>2. c \in Cli /\ (c.pc \in WithSession => c.id \in Ids) /\ c.mem # Blank /\ c.mem.changes # <<>>
  BY <1>1 DEF CliOK, StageOK
<1>3. c.pc \in PC \ {"idle", "stat", "create", "fill", "lockopen", "lockfill", "cleanup",
                     "readlock", "readjournal", "forget", "dropunlock", "purge"}
  BY <1>2 DEF Cli, Plain, Starting, Calm, CopyCalm, Idle
<1>4. CASE c.pc = "run"
  BY <1>2, <1>4 DEF Calm, CopyCalm, Current
<1>5. CASE c.pc \in {"watching", "unlock"}
  BY <1>2, <1>5 DEF Calm, CopyCalm, Current, WithSession
<1>6. CASE c.pc = "undo" \/ (c.pc = "saveopen" /\ c.op # "record")
  <2>1. Entries(c.mem) = Entries(journal[c.id]) \/ Entries(c.mem) \subseteq lost
    BY <1>6 DEF Calm, CopyCalm, Mirrored, Wrecked, Entries
  <2> QED BY <1>2, <1>6, <2>1 DEF WithSession
<1>7. CASE c.pc = "saveopen" /\ c.op = "record"
  <2>1. c.mem.changes = Append(journal[c.id].changes, c.chg) /\ c.id \in Ids
    BY <1>2, <1>7 DEF Calm, CopyCalm, WithSession
  <2>2. c.mem.changes \in Seq(Changes)
    BY <1>2 DEF Cli, Session
  <2> QED BY <1>7, <2>1, <2>2 DEF Entries
<1>8. CASE c.pc = "savefill"
  BY <1>8
<1> QED BY <1>3, <1>4, <1>5, <1>6, <1>7, <1>8 DEF PC

\* A step that touches no file and no router has to account for itself only.
LEMMA QuietStepOf ==
    ASSUME CalmInv, OpenInv', NEW o, Owned(o), NEW p \in Procs, NEW e, NEW k, NEW m,
           Goes(p, e, k, o, m), UNCHANGED <<lock, file, journal, applied, kept>>,
           k \notin raced /\ e.pc # "idle" => Calm(e, k)',
           k \notin raced => \A d \in Changes : d = cli[p].chg \/ d \in Entries(m) =>
               \/ d \in lost' \/ d = e.chg \/ d \in Entries(e.mem)
               \/ \E i \in Ids : d \in Entries(journal[i])
               \/ applied[d] \notin NeedSafe \/ k \in stuck' \/ Removed(k)'
    PROVE  CalmInv'
<1> USE StoreAssumption
<1>0. TypeInv /\ (k \notin raced => CalmAt(k)) /\ k \in Keys
  BY LiveOK DEF CalmInv, OpenInv, GoneInv, OwnInv, Goes
<1>1. ASSUME k \notin raced
      PROVE  JournaledAt(k)' /\ ReachableAt(k)' /\ ApartAt(k)' /\ KeptAt(k)'
  <2>0. JournaledAt(k) /\ ReachableAt(k) /\ ApartAt(k) /\ KeptAt(k)
    BY <1>0, <1>1 DEF CalmAt
  <2>1. Removed(k) => Removed(k)'
    BY DEF Removed, Goes, StepAt
  <2>2. ReachableAt(k)' /\ ApartAt(k)' /\ KeptAt(k)'
    BY <2>0, <2>1 DEF ReachableAt, ApartAt, KeptAt, Open, Goes, StepAt
  <2>3. ASSUME NEW d \in Changes, applied[d] \in NeedSafe, Sanitize[applied[d]] = k,
               k \notin stuck', ~Removed(k)'
        PROVE  Accounted(d)'
    <3>1. Accounted(d)
      BY <2>0, <2>1, <2>3 DEF JournaledAt, Goes, StepAt
    <3>2. cli'[p] = e /\ e \in Slots'
      BY <1>0 DEF Goes, Goto, TypeInv, TypeOK, Slots
    <3>3. CASE \E c \in Slots : d = c.chg \/ d \in Entries(c.mem)
      <4>1. PICK q \in Procs : d = cli[q].chg \/ d \in Entries(cli[q].mem)
        BY <3>3 DEF Slots
      <4>2. CASE q = p
        BY <1>1, <2>3, <3>2, <4>1, <4>2 DEF Goes, Accounted
      <4>3. CASE q # p
        <5>1. cli'[q] = cli[q] /\ cli[q] \in Slots'
          BY <1>0, <4>3 DEF Goes, Goto, TypeInv, TypeOK, Slots
        <5> QED BY <4>1, <5>1 DEF Accounted
      <4> QED BY <4>2, <4>3
    <3> QED BY <3>1, <3>3 DEF Accounted, Goes, StepAt
  <2>4. JournaledAt(k)'
    BY <2>3 DEF JournaledAt
  <2> QED BY <2>2, <2>4
<1> QED BY <1>1, CalmStepOf

\* A step that changes nothing but the inventory and the local state.
LEMMA StillStepOf ==
    ASSUME CalmInv, OpenInv', NEW p \in Procs, cli[p].pc # "idle", NEW e, Goto(p, e),
           e.pc # "idle" => e.dev = cli[p].dev, Plain(e), NEW k, k = Key(p),
           UNCHANGED <<lock, file, journal, applied, history>>, inventory' \subseteq inventory,
           k \notin raced /\ e.pc # "idle" => Calm(e, k),
           k \notin raced => \A d \in Changes : d = cli[p].chg \/ d \in Entries(cli[p].mem) =>
               \/ d \in lost \/ d = e.chg \/ d \in Entries(e.mem)
               \/ \E i \in Ids : d \in Entries(journal[i])
               \/ applied[d] \notin NeedSafe \/ k \in stuck \/ Removed(k)
    PROVE  CalmInv'
<1>1. PICK o \in [Ids -> Keys \cup {None}] : Owned(o)
  BY DEF CalmInv, OpenInv, GoneInv, OwnInv
<1>2. PICK m : m = cli[p].mem
  OBVIOUS
<1>3. Plain(e)'
  BY DEF Plain
<1>4. StepAt(k, o, m)
  BY DEF StepAt, history
<1>5. Goes(p, e, k, o, m)
  BY <1>2, <1>3, <1>4 DEF Goes, CalmInv, PlainInv, history
<1>6. Removed(k) => Removed(k)'
  BY DEF Removed
<1>7. Calm(e, k) => Calm(e, k)'
  BY <1>6 DEF Calm, LockCalm, CopyCalm, WriteCalm, ApartCalm, Current, Mirrored, Wrecked, Recordable,
     UnderCap, history
<1> QED BY <1>1, <1>2, <1>5, <1>6, <1>7, QuietStepOf DEF history

\* A session that the lock names, and that only the reader can be closing, is open.
LEMMA LockedIsOpen ==
    ASSUME CalmInv, NEW p \in Procs, NEW k \in Keys \ (raced \cup stuck), AtWork(cli[p], k),
           cli[p].pc # "unlock", NEW i \in Ids, lock[k] = i, file[i] = "whole"
    PROVE  journal[i].status = "active"
<1> SUFFICES ASSUME journal[i].status # "active" PROVE FALSE
  OBVIOUS
<1>1. PICK o \in [Ids -> Keys \cup {None}] : Owned(o)
  BY DEF CalmInv, OpenInv, GoneInv, OwnInv
<1>2. PICK q \in Procs : cli[q].pc = "unlock" /\ cli[q].id = i
  BY DEF CalmInv, OpenInv, ClosedIsReleased, Closed
<1>3. AtWork(cli[q], k)
  BY <1>1, <1>2 DEF Owned, LocalOwned, AtWork
<1> QED BY <1>2, <1>3 DEF CalmInv, PlainInv, Alone

\* The entries of a session are shared with no other session, and those of the one the
\* lock names with no committed one.
LEMMA LockedIsApart ==
    ASSUME CalmInv, NEW p \in Procs, NEW k \in Keys \ raced, AtWork(cli[p], k),
           cli[p].pc # "unlock", NEW i \in Ids, lock[k] = i, file[i] = "whole"
    PROVE  /\ \A j \in Ids \ {i} : Entries(journal[i]) \cap Entries(journal[j]) = {}
           /\ k \notin stuck => Entries(journal[i]) \cap kept = {}
<1>1. PICK o \in [Ids -> Keys \cup {None}] : Owned(o)
  BY DEF CalmInv, OpenInv, GoneInv, OwnInv
<1>2. \A d \in Entries(journal[i]) : Sanitize[applied[d]] = k
  BY <1>1, EntryKeys DEF CalmInv, OpenInv, GoneInv, OwnInv, Owned
<1>3. ApartAt(k) /\ KeptAt(k)
  BY DEF CalmInv, CalmAt
<1>4. k \notin stuck => Open(i)
  BY LockedIsOpen DEF Open
<1> QED BY <1>2, <1>3, <1>4 DEF ApartAt, KeptAt

\* What a live process brings to a step.
LEMMA AtWorkFacts ==
    ASSUME CalmInv, NEW p \in Procs, cli[p].pc # "idle"
    PROVE  /\ TypeInv /\ CliOK(cli[p]) /\ cli[p] \in Cli /\ Plain(cli[p]) /\ LocalOpen(cli[p])
           /\ cli[p].dev \in Devices /\ Key(p) \in Keys /\ AtWork(cli[p], Key(p))
           /\ Key(p) \notin raced => CalmAt(Key(p)) /\ Calm(cli[p], Key(p))
<1>1. TypeInv /\ Plain(cli[p]) /\ LocalOpen(cli[p]) /\ cli[p] \in Slots
  BY DEF CalmInv, OpenInv, GoneInv, OwnInv, PlainInv, Slots
<1>2. CliOK(cli[p]) /\ cli[p] \in Cli /\ cli[p].dev \in Devices /\ Key(p) \in Keys
  BY <1>1, LiveOK DEF CliOK
<1>3. AtWork(cli[p], Key(p))
  BY DEF AtWork, Key
<1> QED BY <1>1, <1>2, <1>3 DEF CalmInv, CalmAt

\* A slot that is given up claims nothing.
LEMMA IdlePlain ==
    /\ Plain(Idle) /\ Idle.pc = "idle" /\ Idle.chg = None
    /\ Entries(Blank) = {} /\ Blank.changes = <<>> /\ ~Blank.safe
BY DEF Plain, Idle, Blank, Starting, Saving, Entries

\* Reading the lock: the command works on the session it names, or on none.
LEMMA CalmReadLock ==
    ASSUME CalmInv, OpenInv', NEW p \in Procs, ReadLock(p)
    PROVE  CalmInv'
<1> DEFINE c == cli[p]
           k == Key(p)
<1> USE StoreAssumption
<1>0. /\ c.pc = "readlock" /\ c \in Cli /\ Plain(c) /\ c.id = None /\ c.mem = Blank
      /\ c.dev \in Devices /\ k \in Keys /\ k = Sanitize[c.dev]
      /\ k \notin raced => Calm(c, k)
      /\ UNCHANGED <<lock, file, journal, applied, history, inventory>>
  BY AtWorkFacts DEF ReadLock, CliOK, StageOK, files, routers, Key
<1>1. c.chg \in Changes => c.op = "record" /\ applied[c.chg] = c.dev
  BY <1>0 DEF Plain
<1>2. Entries(c.mem) = {}
  BY <1>0, IdlePlain
<1>3. CASE /\ lock[k] \in Ids
           /\ Goto(p, [cli[p] EXCEPT !.pc = "readjournal", !.id = lock[k]])
  <2> DEFINE e == [c EXCEPT !.pc = "readjournal", !.id = lock[k]]
  <2>1. /\ e.pc = "readjournal" /\ e.id = lock[k] /\ e.op = c.op /\ e.dev = c.dev
        /\ e.mem = Blank /\ e.chg = c.chg
    BY <1>0 DEF Cli
  <2>2. Goto(p, e)
    BY <1>3
  <2> HIDE DEF e
  <2>3. Plain(e)
    BY <1>0, <2>1, IdlePlain DEF Plain, Starting, Saving
  <2>4. Calm(c, k) => Calm(e, k)
    <3>1. LockCalm(e, k)
      BY <1>3, <2>1 DEF LockCalm, Fresh, Tending
    <3>2. CopyCalm(e, k)
      BY <2>1 DEF CopyCalm, Locking
    <3>3. WriteCalm(c, k) => WriteCalm(e, k)
      BY <1>0, <2>1 DEF WriteCalm
    <3>4. ApartCalm(c, k) => ApartCalm(e, k)
      BY <1>0, <1>2, <2>1 DEF ApartCalm
    <3> QED BY <3>1, <3>2, <3>3, <3>4 DEF Calm
  <2> HIDE DEF c, k
  <2> QED BY <1>0, <1>2, <2>1, <2>2, <2>3, <2>4, StillStepOf DEF c, k
<1>4. CASE lock[k] = Absent /\ Goto(p, Proceed(c))
  <2>1. \/ Proceed(c) = Idle
        \/ c.op = "write" /\ c.dev \notin NeedSafe /\ Proceed(c) = [c EXCEPT !.pc = "run"]
        \/ c.op = "remove" /\ Proceed(c) = [c EXCEPT !.pc = "forget"]
    BY <1>0 DEF Proceed, CheckWrite, RecordChange, Blank
  <2>2. CASE Proceed(c) = Idle
    <3>1. Calm(c, k) /\ c.op = "record" => c.dev \notin NeedSafe \/ k \in stuck \/ Removed(k)
      BY <1>0, <1>4 DEF Calm, WriteCalm
    <3> QED BY <1>0, <1>1, <1>2, <1>4, <2>2, <3>1, IdlePlain, StillStepOf
  <2>3. ASSUME NEW q \in {"run", "forget"}, Proceed(c) = [c EXCEPT !.pc = q],
               q = "run" => c.op = "write" /\ c.dev \notin NeedSafe, c.op # "record"
        PROVE  CalmInv'
    <3> DEFINE e == [c EXCEPT !.pc = q]
    <3>1. /\ e.pc = q /\ e.id = None /\ e.op = c.op /\ e.dev = c.dev
          /\ e.mem = Blank /\ e.chg = c.chg
      BY <1>0 DEF Cli
    <3>2. Goto(p, e)
      BY <1>4, <2>3
    <3> HIDE DEF e
    <3>3. Plain(e)
      BY <1>0, <2>3, <3>1, IdlePlain DEF Plain, Starting, Saving
    <3>4. Calm(e, k)
      BY <1>0, <1>2, <2>3, <3>1, IdlePlain DEF Calm, LockCalm, CopyCalm, WriteCalm, ApartCalm, Fresh,
         Tending, Saving, Locking
    <3> HIDE DEF c, k
    <3> QED BY <1>0, <1>2, <2>3, <3>1, <3>2, <3>3, <3>4, StillStepOf DEF c, k
  <2> QED BY <2>1, <2>2, <2>3
<1>5. CASE lock[k] = Empty /\ Goto(p, ProceedOnError(c))
  <2>1. CASE c.op # "remove"
    <3>1. ProceedOnError(c) = Idle
      BY <2>1 DEF ProceedOnError
    <3>2. Calm(c, k) /\ c.op = "record" => c.dev \notin NeedSafe \/ k \in stuck \/ Removed(k)
      BY <1>0, <1>5 DEF Calm, WriteCalm
    <3> QED BY <1>0, <1>1, <1>2, <1>5, <3>1, <3>2, IdlePlain, StillStepOf
  <2>2. CASE c.op = "remove"
    <3> DEFINE e == [c EXCEPT !.pc = "forget", !.id = None]
    <3>1. /\ e.pc = "forget" /\ e.id = None /\ e.op = c.op /\ e.dev = c.dev
          /\ e.mem = Blank /\ e.chg = c.chg
      BY <1>0 DEF Cli
    <3>2. Goto(p, e)
      BY <1>5, <2>2 DEF ProceedOnError
    <3> HIDE DEF e
    <3>3. Plain(e)
      BY <1>0, <2>2, <3>1, IdlePlain DEF Plain, Starting, Saving
    <3>4. Calm(e, k)
      BY <1>0, <1>2, <2>2, <3>1 DEF Calm, LockCalm, CopyCalm, WriteCalm, ApartCalm, Fresh, Tending,
         Saving, Locking
    <3> HIDE DEF c, k
    <3> QED BY <1>0, <1>2, <2>2, <3>1, <3>2, <3>3, <3>4, StillStepOf DEF c, k
  <2> QED BY <2>1, <2>2
<1> QED BY <1>3, <1>4, <1>5 DEF ReadLock

\* What a step may do with local states: a command goes on as itself, or ends.
Onward(c, e, k) ==
    /\ e.pc # "idle" => e.dev = c.dev
    /\ Plain(e)
    /\ k \notin raced /\ e.pc # "idle" => Calm(e, k)

\* A list with one more entry.
LEMMA AppendEntries ==
    ASSUME NEW s, NEW t, s.changes \in Seq(Changes), NEW d \in Changes,
           t.changes = Append(s.changes, d)
    PROVE  Entries(t) = Entries(s) \cup {d}
<1>1. PICK q \in Seq(Changes) : q = s.changes
  OBVIOUS
<1>2. PICK n \in Nat : n = Len(q)
  BY <1>1
<1>3. /\ Len(Append(q, d)) = n + 1 /\ Append(q, d)[n + 1] = d
      /\ \A x \in 1..n : Append(q, d)[x] = q[x]
  BY <1>1, <1>2
<1>4. 1..(n + 1) = 1..n \cup {n + 1}
  BY <1>2
<1>5. Entries(t) = {Append(q, d)[x] : x \in 1..n \cup {n + 1}}
  BY <1>1, <1>3, <1>4 DEF Entries
<1>6. Entries(s) = {q[x] : x \in 1..n}
  BY <1>1, <1>2 DEF Entries
<1> QED BY <1>3, <1>5, <1>6

\* Recording the change appends it to the session read, and finds it open.
LEMMA CalmRecord ==
    ASSUME CalmInv, NEW p \in Procs, NEW k, k = Key(p), cli[p].pc = "readjournal",
           cli[p].op = "record", file[cli[p].id] = "whole",
           NEW d, d = [cli[p] EXCEPT !.mem = journal[cli[p].id]]
    PROVE  /\ Onward(cli[p], RecordChange(d), k)
           /\ \/ RecordChange(d).pc # "idle" /\ cli[p].chg \in Entries(RecordChange(d).mem)
              \/ /\ RecordChange(d) = Idle
                 /\ k \notin raced => cli[p].dev \notin NeedSafe \/ k \in stuck \/ Removed(k)
<1> DEFINE c == cli[p]
           i == c.id
           s == journal[c.id]
<1> USE StoreAssumption
<1>0. /\ c \in Cli /\ Plain(c) /\ c.dev \in Devices /\ k \in Keys /\ i \in Ids
      /\ AtWork(c, k) /\ c.chg \in Changes /\ s \in Session /\ s.changes \in Seq(Changes)
      /\ k \notin raced => Calm(c, k) /\ lock[k] = i
  <2>1. c \in Cli /\ Plain(c) /\ c.dev \in Devices /\ k \in Keys /\ AtWork(c, k) /\ CliOK(c)
        /\ TypeInv /\ (k \notin raced => Calm(c, k))
    BY AtWorkFacts
  <2>2. i \in Ids /\ c.chg \in Changes
    BY <2>1 DEF CliOK, StageOK, WithSession
  <2>3. s \in Session /\ s.changes \in Seq(Changes)
    BY <2>1, <2>2 DEF TypeInv, TypeOK, Session
  <2> QED BY <2>1, <2>2, <2>3 DEF Calm, LockCalm, Tending
<1>1. s.dev \in Devices
  <2>1. PICK o \in [Ids -> Keys \cup {None}] : Owned(o)
    BY DEF CalmInv, OpenInv, GoneInv, OwnInv
  <2> QED BY <1>0, <2>1 DEF Owned
<1>2. /\ d.mem = s /\ d.pc = "readjournal" /\ d.op = "record" /\ d.id = i /\ d.dev = c.dev
      /\ d.chg = c.chg /\ d \in Cli
  BY <1>0 DEF Cli
<1>3. CASE Recordable(s)
  <2> DEFINE e == [d EXCEPT !.pc = "saveopen", !.mem.changes = Append(@, d.chg)]
  <2>1. /\ e.pc = "saveopen" /\ e.op = "record" /\ e.id = i /\ e.dev = c.dev /\ e.chg = c.chg
        /\ e.mem.changes = Append(s.changes, c.chg) /\ e.mem.dev = s.dev
        /\ e.mem.status = "active"
    BY <1>0, <1>2, <1>3 DEF Cli, Session, Recordable
  <2>2. RecordChange(d) = e
    <3>1. d.mem.safe /\ UnderCap(d.mem) /\ d.mem.status = "active"
      BY <1>2, <1>3 DEF Recordable
    <3> QED BY <3>1 DEF RecordChange
  <2> HIDE DEF e
  <2>3. Entries(e.mem) = Entries(s) \cup {c.chg}
    <3>1. PICK t : t = e.mem
      OBVIOUS
    <3>2. PICK r, g : r = s /\ g = c.chg
      OBVIOUS
    <3>3. r.changes \in Seq(Changes) /\ g \in Changes /\ t.changes = Append(r.changes, g)
      BY <1>0, <2>1, <3>1, <3>2
    <3>4. Entries(t) = Entries(r) \cup {g}
      BY <3>3, AppendEntries
    <3> QED BY <3>1, <3>2, <3>4
  <2>4. Plain(e)
    BY <1>0, <1>1, <2>1 DEF Plain, Starting, Saving
  <2>5. ASSUME k \notin raced PROVE Calm(e, k)
    <3>1. Calm(c, k) /\ lock[k] = i /\ ~(c.pc = "unlock")
      BY <1>0, <2>5
    <3>2. /\ \A j \in Ids \ {i} : Entries(s) \cap Entries(journal[j]) = {}
          /\ k \notin stuck => Entries(s) \cap kept = {}
      BY <1>0, <2>5, LockedIsApart
    <3>3. LockCalm(e, k) /\ CopyCalm(e, k)
      BY <1>3, <2>1, <3>1 DEF LockCalm, CopyCalm, Fresh, Tending, Saving, Locking, Recordable
    <3>4. WriteCalm(e, k)
      BY <1>0, <2>1, <3>1 DEF Calm, WriteCalm
    <3>5. /\ \A j \in Ids : c.chg \notin Entries(journal[j])
          /\ c.chg \notin kept
      BY <1>0, <3>1 DEF Calm, WriteCalm
    <3>6. ApartCalm(e, k)
      BY <2>1, <2>3, <3>2, <3>5 DEF ApartCalm
    <3> QED BY <3>3, <3>4, <3>6 DEF Calm
  <2> QED BY <2>1, <2>2, <2>3, <2>4, <2>5 DEF Onward
<1>4. CASE ~Recordable(s)
  <2>1. RecordChange(d) = Idle
    BY <1>2, <1>4 DEF RecordChange, Recordable, UnderCap
  <2>2. k \notin raced => c.dev \notin NeedSafe \/ k \in stuck \/ Removed(k)
    BY <1>0, <1>4 DEF Calm, WriteCalm
  <2> QED BY <2>1, <2>2, IdlePlain DEF Onward
<1> QED BY <1>3, <1>4

\* Every other command goes on with the session it read as its copy.
LEMMA CalmProceed ==
    ASSUME CalmInv, NEW p \in Procs, NEW k, k = Key(p), cli[p].pc = "readjournal",
           cli[p].op # "record", file[cli[p].id] = "whole",
           NEW d, d = [cli[p] EXCEPT !.mem = journal[cli[p].id]]
    PROVE  Onward(cli[p], Proceed(d), k)
<1> DEFINE c == cli[p]
           i == c.id
           s == journal[c.id]
<1> USE StoreAssumption
<1>0. /\ c \in Cli /\ Plain(c) /\ c.dev \in Devices /\ k \in Keys /\ i \in Ids
      /\ AtWork(c, k) /\ s \in Session /\ s.changes \in Seq(Changes)
      /\ k \notin raced => Calm(c, k)
  <2>1. c \in Cli /\ Plain(c) /\ c.dev \in Devices /\ k \in Keys /\ AtWork(c, k) /\ CliOK(c)
        /\ TypeInv /\ (k \notin raced => Calm(c, k))
    BY AtWorkFacts
  <2>2. i \in Ids
    BY <2>1 DEF CliOK, StageOK, WithSession
  <2> QED BY <2>1, <2>2 DEF TypeInv, TypeOK, Session
<1>1. s.dev \in Devices
  <2>1. PICK o \in [Ids -> Keys \cup {None}] : Owned(o)
    BY DEF CalmInv, OpenInv, GoneInv, OwnInv
  <2> QED BY <1>0, <2>1 DEF Owned
<1>2. /\ d.mem = s /\ d.pc = "readjournal" /\ d.op = c.op /\ d.id = i /\ d.dev = c.dev
      /\ d.chg = c.chg /\ d \in Cli
  BY <1>0 DEF Cli
\* What the copy of a command that goes on has to show.
<1>3. ASSUME NEW e, e.op = c.op, e.id = i, e.dev = c.dev, e.chg = c.chg, e.mem.dev = s.dev,
             e.mem.changes = s.changes,
             \/ /\ e.pc \in {"run", "watching", "undo"} /\ e.mem = s
                /\ e.pc # "run" => c.op # "remark"
                /\ e.pc = "run" => /\ c.op = "write"
                                   /\ c.dev \in NeedSafe => s.safe
                                   /\ s.safe => UnderCap(s)
             \/ /\ e.pc = "saveopen" /\ c.op = "commit" /\ e.mem.status = "committed"
                /\ s.status = "active"
      PROVE  Onward(c, e, k)
  <2>1. Plain(e)
    BY <1>0, <1>1, <1>3 DEF Plain, Starting, Saving
  <2>2. Entries(e.mem) = Entries(s)
    BY <1>3 DEF Entries
  <2>3. ASSUME k \notin raced PROVE Calm(e, k)
    <3>1. /\ Calm(c, k) /\ (c.op # "remark" => lock[k] = i)
      BY <1>0, <2>3 DEF Calm, LockCalm, Tending
    <3>2. c.op # "remark"
      BY <1>3
    <3>3. /\ \A j \in Ids \ {i} : Entries(s) \cap Entries(journal[j]) = {}
          /\ k \notin stuck => Entries(s) \cap kept = {}
      BY <1>0, <2>3, <3>1, <3>2, LockedIsApart
    <3>4. LockCalm(e, k)
      BY <1>3, <3>1, <3>2 DEF LockCalm, Fresh, Tending, Saving
    <3>5. CopyCalm(e, k)
      BY <1>0, <1>3, <3>1, <3>2 DEF CopyCalm, Locking, Current, Mirrored
    <3>6. WriteCalm(e, k)
      BY <1>3 DEF WriteCalm, UnderCap
    <3>7. ApartCalm(e, k)
      BY <1>3, <2>2, <3>3 DEF ApartCalm
    <3> QED BY <3>4, <3>5, <3>6, <3>7 DEF Calm
  <2> QED BY <1>3, <2>1, <2>3 DEF Onward
<1>4. Onward(c, Idle, k)
  BY IdlePlain DEF Onward
<1>5. CASE c.op = "write"
  <2> DEFINE e == [d EXCEPT !.pc = "run"]
  <2>1. /\ e.pc = "run" /\ e.op = c.op /\ e.id = i /\ e.dev = c.dev /\ e.chg = c.chg /\ e.mem = s
    BY <1>2 DEF Cli
  <2>2. \/ Proceed(d) = Idle
        \/ Proceed(d) = e /\ (c.dev \in NeedSafe => s.safe) /\ (s.safe => UnderCap(s))
    BY <1>2, <1>5 DEF Proceed, CheckWrite
  <2> HIDE DEF e
  <2> QED BY <1>3, <1>4, <1>5, <2>1, <2>2
<1>6. CASE c.op = "commit"
  <2> DEFINE e == [d EXCEPT !.pc = "saveopen", !.mem.status = "committed"]
  <2>1. /\ e.pc = "saveopen" /\ e.op = c.op /\ e.id = i /\ e.dev = c.dev /\ e.chg = c.chg
        /\ e.mem.changes = s.changes /\ e.mem.dev = s.dev /\ e.mem.status = "committed"
    BY <1>0, <1>2 DEF Cli, Session
  <2>2. Proceed(d) = Idle \/ (Proceed(d) = e /\ s.status = "active")
    BY <1>2, <1>6 DEF Proceed
  <2> HIDE DEF e
  <2> QED BY <1>3, <1>4, <1>6, <2>1, <2>2
<1>7. CASE c.op = "rollback"
  <2> DEFINE e == [d EXCEPT !.pc = "undo", !.pos = Len(d.mem.changes)]
  <2>1. /\ e.pc = "undo" /\ e.op = c.op /\ e.id = i /\ e.dev = c.dev /\ e.chg = c.chg /\ e.mem = s
    BY <1>2 DEF Cli
  <2>2. Proceed(d) = Idle \/ Proceed(d) = e
    BY <1>2, <1>7 DEF Proceed
  <2> HIDE DEF e
  <2> QED BY <1>3, <1>4, <1>7, <2>1, <2>2
<1>8. CASE c.op = "watch"
  <2> DEFINE e == [d EXCEPT !.pc = "watching"]
  <2>1. /\ e.pc = "watching" /\ e.op = c.op /\ e.id = i /\ e.dev = c.dev /\ e.chg = c.chg
        /\ e.mem = s
    BY <1>2 DEF Cli
  <2>2. Proceed(d) = Idle \/ Proceed(d) = e
    BY <1>2, <1>8 DEF Proceed
  <2> HIDE DEF e
  <2> QED BY <1>3, <1>4, <1>8, <2>1, <2>2
<1>9. CASE c.op \notin {"write", "commit", "rollback", "watch"}
  BY <1>0, <1>2, <1>4, <1>9 DEF Proceed
<1> QED BY <1>5, <1>6, <1>7, <1>8, <1>9

\* Reading the journal: the copy is what the journal holds.
LEMMA CalmReadJournal ==
    ASSUME CalmInv, OpenInv', NEW p \in Procs, ReadJournal(p)
    PROVE  CalmInv'
<1> USE StoreAssumption
<1>1. PICK c, k : c = cli[p] /\ k = Key(p)
  OBVIOUS
<1>2. /\ c.pc = "readjournal" /\ c \in Cli /\ Plain(c) /\ c.id \in Ids /\ c.dev \in Devices
      /\ k \in Keys /\ (k \notin raced => Calm(c, k))
      /\ UNCHANGED <<lock, file, journal, applied, history, inventory>>
  <2>1. c.pc = "readjournal"
    BY <1>1 DEF ReadJournal
  <2> QED BY <1>1, <2>1, AtWorkFacts DEF ReadJournal, CliOK, StageOK, files, routers, WithSession
<1>3. /\ c.chg \in Changes => c.op = "record" /\ applied[c.chg] = c.dev
      /\ k \notin raced => Entries(c.mem) = {}
  BY <1>2, IdlePlain DEF Plain, Calm, CopyCalm
<1>4. CASE file[c.id] = "whole"
  <2>1. PICK d : d = [cli[p] EXCEPT !.mem = journal[cli[p].id]]
    OBVIOUS
  <2>2. d.op = c.op /\ d.chg = c.chg
    BY <1>1, <1>2, <2>1 DEF Cli
  <2>3. Goto(p, Proceed(d)) /\ (c.op = "record" => Proceed(d) = RecordChange(d))
    BY <1>1, <1>4, <2>1, <2>2 DEF ReadJournal, Proceed
  <2>4. Onward(c, Proceed(d), k)
    BY <1>1, <1>2, <1>4, <2>1, <2>3, CalmRecord, CalmProceed
  <2>5. k \notin raced /\ c.op = "record" =>
            \/ c.chg \in Entries(Proceed(d).mem)
            \/ c.dev \notin NeedSafe \/ k \in stuck \/ Removed(k)
    BY <1>1, <1>2, <1>4, <2>1, <2>3, CalmRecord
  <2> QED BY <1>1, <1>2, <1>3, <2>3, <2>4, <2>5, StillStepOf DEF Onward
<1>5. CASE file[c.id] # "whole"
  <2>0. Goto(p, ProceedOnError(c))
    BY <1>1, <1>5 DEF ReadJournal
  <2>1. CASE c.op # "remove"
    <3>1. ProceedOnError(c) = Idle
      BY <2>1 DEF ProceedOnError
    <3>2. k \notin raced /\ c.op = "record" => c.dev \notin NeedSafe \/ k \in stuck \/ Removed(k)
      BY <1>2, <1>5 DEF Calm, WriteCalm, LockCalm, Tending
    <3> QED BY <1>1, <1>2, <1>3, <2>0, <3>1, <3>2, IdlePlain, StillStepOf
  <2>2. CASE c.op = "remove"
    <3> DEFINE e == [c EXCEPT !.pc = "forget", !.id = None]
    <3>1. /\ e.pc = "forget" /\ e.id = None /\ e.op = c.op /\ e.dev = c.dev
          /\ e.mem = c.mem /\ e.chg = c.chg
      BY <1>2 DEF Cli
    <3>2. Goto(p, e)
      BY <2>0, <2>2 DEF ProceedOnError
    <3> HIDE DEF e
    <3>3. Plain(e)
      BY <1>2, <2>2, <3>1, IdlePlain DEF Plain, Starting, Saving
    <3>4. Calm(c, k) => Calm(e, k)
      BY <1>2, <1>3, <2>2, <3>1, IdlePlain DEF Calm, LockCalm, CopyCalm, WriteCalm, ApartCalm,
         Fresh, Tending, Saving, Locking
    <3> QED BY <1>1, <1>2, <1>3, <2>2, <3>1, <3>2, <3>3, <3>4, StillStepOf
  <2> QED BY <2>1, <2>2
<1> QED BY <1>4, <1>5

\* Rolling back and noticing a lost link keep the copy and rewrite its status only.
LEMMA CalmRollback ==
    ASSUME CalmInv, OpenInv', NEW p \in Procs,
           Undo(p) \/ MarkRolledBack(p) \/ UndoFails(p) \/ LinkLost(p)
    PROVE  CalmInv'
<1> USE StoreAssumption
<1>1. PICK c, k : c = cli[p] /\ k = Key(p)
  OBVIOUS
<1>2. /\ c.pc \in {"undo", "watching"} /\ c \in Cli /\ c.mem \in Session /\ Plain(c) /\ LocalOpen(c)
      /\ CliOK(c) /\ c.id \in Ids /\ (k \notin raced => Calm(c, k)) /\ c.op # "record"
      /\ c.chg = None
      /\ UNCHANGED <<lock, file, journal, applied, history, inventory>>
  <2>1. c.pc \in {"undo", "watching"} /\ cli[p].pc # "idle"
    BY <1>1 DEF Undo, MarkRolledBack, UndoFails, LinkLost
  <2>2. UNCHANGED <<lock, file, journal, applied, history, inventory>>
    BY DEF Undo, MarkRolledBack, UndoFails, LinkLost, files, routers
  <2>3. c \in Cli /\ Plain(c) /\ LocalOpen(c) /\ CliOK(c) /\ (k \notin raced => Calm(c, k))
    BY <1>1, <2>1, AtWorkFacts
  <2> QED BY <2>1, <2>2, <2>3 DEF CliOK, StageOK, WithSession, Cli, Plain
\* A local state that keeps the copy's entries.
<1>3. ASSUME NEW e, Goto(p, e), e.pc = "idle" \/ e.dev = c.dev, Plain(e),
             e = Idle \/ e.mem.changes = c.mem.changes,
             k \notin raced /\ e.pc # "idle" => Calm(e, k)
      PROVE  CalmInv'
  <2>1. k \notin raced => \A d \in Entries(c.mem) :
            d \in lost \/ \E i \in Ids : d \in Entries(journal[i])
    BY <1>2, Backup
  <2> QED BY <1>1, <1>2, <1>3, <2>1, StillStepOf
<1>4. CASE Undo(p) \/ (UndoFails(p) /\ c.op # "rollback")
  <2>1. PICK n : Goto(p, [c EXCEPT !.pos = n]) /\ c.pc = "undo"
    BY <1>1, <1>4 DEF Undo, UndoFails
  <2> DEFINE e == [c EXCEPT !.pos = n]
  <2>2. /\ e.pc = c.pc /\ e.op = c.op /\ e.id = c.id /\ e.dev = c.dev /\ e.mem = c.mem
        /\ e.chg = c.chg /\ Goto(p, e)
    BY <1>2, <2>1 DEF Cli
  <2> HIDE DEF e
  <2>3. Plain(e)
    BY <1>2, <2>1, <2>2 DEF Plain, Starting, Saving
  <2>4. Calm(c, k) => Calm(e, k)
    BY <2>1, <2>2 DEF Calm, LockCalm, CopyCalm, WriteCalm, ApartCalm, Mirrored, Wrecked, Fresh,
       Tending, Saving, Locking
  <2> QED BY <1>2, <1>3, <2>2, <2>3, <2>4
<1>5. CASE UndoFails(p) /\ c.op = "rollback"
  BY <1>1, <1>3, <1>5, IdlePlain DEF UndoFails, Done
<1>6. CASE MarkRolledBack(p)
  <2> DEFINE e == [c EXCEPT !.pc = "saveopen", !.mem.status = "rolled_back", !.mem.pending = FALSE]
  <2>1. /\ e.pc = "saveopen" /\ e.op = c.op /\ e.id = c.id /\ e.dev = c.dev /\ e.chg = c.chg
        /\ e.mem.changes = c.mem.changes /\ e.mem.dev = c.mem.dev /\ e.mem.status = "rolled_back"
        /\ Goto(p, e)
    BY <1>1, <1>2, <1>6 DEF MarkRolledBack, Cli, Session
  <2>2. c.op \in {"rollback", "autoroll"} /\ c.pc = "undo"
    BY <1>1, <1>2, <1>6 DEF MarkRolledBack, LocalOpen
  <2> HIDE DEF e
  <2>3. Plain(e)
    BY <1>2, <2>1, <2>2 DEF Plain, Starting, Saving
  <2>4. Entries(e.mem) = Entries(c.mem)
    BY <2>1 DEF Entries
  <2>5. Calm(c, k) => Calm(e, k)
    BY <2>1, <2>2, <2>4 DEF Calm, LockCalm, CopyCalm, WriteCalm, ApartCalm, Mirrored, Wrecked, Fresh,
       Tending, Saving, Locking
  <2> QED BY <1>2, <1>3, <2>1, <2>3, <2>5
<1>7. CASE LinkLost(p) /\ c.mem.status = "active"
  <2> DEFINE e == [c EXCEPT !.pc = "saveopen", !.op = "pend", !.mem.pending = TRUE]
  <2>1. /\ e.pc = "saveopen" /\ e.op = "pend" /\ e.id = c.id /\ e.dev = c.dev /\ e.chg = c.chg
        /\ e.mem.changes = c.mem.changes /\ e.mem.dev = c.mem.dev /\ e.mem.status = c.mem.status
        /\ Goto(p, e) /\ c.pc = "watching"
    BY <1>1, <1>2, <1>7 DEF LinkLost, Cli, Session
  <2> HIDE DEF e
  <2>2. Plain(e)
    BY <1>2, <2>1 DEF Plain, Starting, Saving
  <2>3. Entries(e.mem) = Entries(c.mem)
    BY <2>1 DEF Entries
  <2>4. Calm(c, k) => Calm(e, k)
    <3> SUFFICES ASSUME Calm(c, k) PROVE Calm(e, k)
      OBVIOUS
    <3>1. Mirrored(e)
      BY <2>1 DEF Calm, CopyCalm, Current, Mirrored
    <3>2. c.op # "remark" => lock[k] = c.id
      BY <2>1 DEF Calm, LockCalm, Tending
    <3>3. c.op # "remark"
      BY <1>2, <2>1 DEF Plain, Saving
    <3> QED BY <2>1, <2>3, <3>1, <3>2, <3>3 DEF Calm, LockCalm, CopyCalm, WriteCalm, ApartCalm,
         Fresh, Tending, Saving, Locking
  <2> QED BY <1>2, <1>3, <2>1, <2>2, <2>4
<1>8. CASE LinkLost(p) /\ c.mem.status # "active"
  <2> DEFINE e == [c EXCEPT !.pc = "undo", !.op = "autoroll", !.pos = Len(c.mem.changes)]
  <2>1. /\ e.pc = "undo" /\ e.op = "autoroll" /\ e.id = c.id /\ e.dev = c.dev /\ e.chg = c.chg
        /\ e.mem = c.mem /\ Goto(p, e) /\ c.pc = "watching"
    BY <1>1, <1>2, <1>8 DEF LinkLost, Cli
  <2> HIDE DEF e
  <2>2. Plain(e)
    BY <1>2, <2>1 DEF Plain, Starting, Saving
  <2>3. Calm(c, k) => Calm(e, k)
    <3> SUFFICES ASSUME Calm(c, k) PROVE Calm(e, k)
      OBVIOUS
    <3>1. Mirrored(e)
      BY <2>1 DEF Calm, CopyCalm, Current, Mirrored
    <3>2. c.op # "remark" => lock[k] = c.id
      BY <2>1 DEF Calm, LockCalm, Tending
    <3>3. c.op # "remark"
      BY <1>2, <2>1 DEF Plain, Saving
    <3> QED BY <2>1, <3>1, <3>2, <3>3 DEF Calm, LockCalm, CopyCalm, WriteCalm, ApartCalm,
         Fresh, Tending, Saving, Locking
  <2> QED BY <1>2, <1>3, <2>1, <2>2, <2>3
<1> QED BY <1>1, <1>4, <1>5, <1>6, <1>7, <1>8

\* Giving up before anything took effect, finding a lock, and forgetting a device.
LEMMA CalmQuit ==
    ASSUME CalmInv, OpenInv', NEW p \in Procs, BeginStat(p) \/ Quit(p) \/ Forget(p)
    PROVE  CalmInv'
<1> USE StoreAssumption
<1>1. PICK c, k : c = cli[p] /\ k = Key(p)
  OBVIOUS
<1>2. /\ c.pc \in {"stat", "create", "run", "watching", "forget", "readlock", "readjournal"}
      /\ c \in Cli /\ Plain(c) /\ CliOK(c) /\ c.op # "record" /\ c.chg = None
      /\ k \notin raced => Calm(c, k)
      /\ UNCHANGED <<lock, file, journal, applied, history>> /\ inventory' \subseteq inventory
  <2>1. /\ c.pc \in {"stat", "create", "run", "watching", "forget", "readlock", "readjournal"}
        /\ c.pc \in {"readlock", "readjournal"} => c.op # "record"
    BY <1>1 DEF BeginStat, Quit, Forget, Harmless
  <2>2. cli[p].pc # "idle"
    BY <1>1, <2>1
  <2>3. c \in Cli /\ Plain(c) /\ CliOK(c) /\ (k \notin raced => Calm(c, k))
    BY <1>1, <2>2, AtWorkFacts
  <2>4. UNCHANGED <<lock, file, journal, applied, history>> /\ inventory' \subseteq inventory
    BY DEF BeginStat, Quit, Forget, files, routers
  <2> QED BY <2>1, <2>3, <2>4 DEF Plain
<1>3. k \notin raced => \A d \in Entries(c.mem) :
            d \in lost \/ \E i \in Ids : d \in Entries(journal[i])
  BY <1>2, Backup
<1>4. CASE Done(p)
  BY <1>1, <1>2, <1>3, <1>4, IdlePlain, StillStepOf DEF Done
<1>5. CASE BeginStat(p) /\ lock[k] = Absent
  <2> DEFINE e == [c EXCEPT !.pc = "create"]
  <2>1. /\ e.pc = "create" /\ e.op = c.op /\ e.id = c.id /\ e.dev = c.dev /\ e.chg = c.chg
        /\ e.mem = c.mem /\ Goto(p, e) /\ c.pc = "stat"
    BY <1>1, <1>2, <1>5 DEF BeginStat, Cli
  <2> HIDE DEF e
  <2>2. Plain(e) /\ Entries(e.mem) = {}
    BY <1>2, <2>1 DEF Plain, Starting, Saving, Entries
  <2>3. Calm(e, k)
    BY <1>2, <1>5, <2>1, <2>2 DEF Calm, LockCalm, CopyCalm, WriteCalm, ApartCalm, Fresh, Tending,
       Saving, Locking
  <2> QED BY <1>1, <1>2, <2>1, <2>2, <2>3, StillStepOf
<1>6. CASE Forget(p)
  <2> DEFINE e == [c EXCEPT !.pc = "dropunlock"]
  <2>1. /\ e.pc = "dropunlock" /\ e.op = c.op /\ e.id = c.id /\ e.dev = c.dev /\ e.chg = c.chg
        /\ e.mem = c.mem /\ Goto(p, e) /\ c.pc = "forget"
    BY <1>1, <1>2, <1>6 DEF Forget, Cli
  <2> HIDE DEF e
  <2>2. Plain(e)
    BY <1>2, <2>1 DEF Plain, Starting, Saving
  <2>3. Calm(c, k) => Calm(e, k)
    BY <1>2, <2>1 DEF Calm, LockCalm, CopyCalm, WriteCalm, ApartCalm, Fresh, Tending,
       Saving, Locking
  <2> QED BY <1>1, <1>2, <2>1, <2>2, <2>3, StillStepOf
<1> QED BY <1>1, <1>4, <1>5, <1>6 DEF BeginStat, Quit

\* A crash and a failing system call lose what they wipe, and no more.
LEMMA CalmStop ==
    ASSUME CalmInv, OpenInv', NEW p \in Procs, Crash(p) \/ IOFails(p)
    PROVE  CalmInv'
<1> USE StoreAssumption
<1>1. PICK c, k, m : c = cli[p] /\ k = Key(p) /\ m = cli[p].mem
  OBVIOUS
<1>2. PICK o \in [Ids -> Keys \cup {None}] : Owned(o)
  BY DEF CalmInv, OpenInv, GoneInv, OwnInv
<1>3. /\ c \in Cli /\ c.mem \in Session /\ Plain(c) /\ CliOK(c) /\ LocalOpen(c)
      /\ k \notin raced => Calm(c, k)
      /\ c.pc # "idle" /\ (c.pc \in WithSession => c.id \in Ids)
      /\ c.op # "record" => c.chg = None
      /\ UNCHANGED <<lock, file, journal, applied, raced, kept, inventory>>
      /\ lost \subseteq lost' /\ stuck \subseteq stuck'
      /\ c.op = "record" => c.chg \in lost'
      /\ c.pc = "savefill" => Entries(c.mem) \subseteq lost'
      /\ c.pc = "unlock" => k \in stuck'
  <2>1. cli[p].pc # "idle"
    BY DEF Crash, IOFails
  <2>2. /\ c \in Cli /\ Plain(c) /\ CliOK(c) /\ LocalOpen(c)
        /\ k \notin raced => Calm(c, k)
    BY <1>1, <2>1, AtWorkFacts
  <2>3. /\ UNCHANGED <<lock, file, journal, applied, raced, kept, inventory>>
        /\ lost \subseteq lost' /\ stuck \subseteq stuck'
        /\ c.op = "record" => c.chg \in lost'
        /\ c.pc = "savefill" => Entries(c.mem) \subseteq lost'
        /\ c.pc = "unlock" => k \in stuck'
    BY <1>1 DEF Crash, IOFails, Spoil, files, routers
  <2> QED BY <1>1, <2>1, <2>2, <2>3 DEF CliOK, StageOK, Cli, Plain
<1>4. k \notin raced => \A d \in Changes : d = c.chg \/ d \in Entries(c.mem) =>
          d \in lost' \/ \E i \in Ids : d \in Entries(journal[i])
  BY <1>3, Backup
<1>5. ASSUME NEW e, Goto(p, e), e.pc = "idle" \/ e.dev = c.dev, Plain(e)',
             k \notin raced /\ e.pc # "idle" => Calm(e, k)'
      PROVE  CalmInv'
  <2>1. StepAt(k, o, m)
    BY <1>3 DEF StepAt
  <2>2. Goes(p, e, k, o, m)
    BY <1>1, <1>3, <1>5, <2>1 DEF Goes, CalmInv, PlainInv
  <2> QED BY <1>1, <1>2, <1>3, <1>4, <1>5, <2>2, QuietStepOf
<1>6. Plain(Idle)'
  BY IdlePlain DEF Plain
<1>7. CASE Goto(p, Idle)
  BY <1>5, <1>6, <1>7, IdlePlain
<1>8. CASE c.pc \in {"lockopen", "lockfill"} /\ Goto(p, [c EXCEPT !.pc = "cleanup"])
  <2> DEFINE e == [c EXCEPT !.pc = "cleanup"]
  <2>1. /\ e.pc = "cleanup" /\ e.op = c.op /\ e.id = c.id /\ e.dev = c.dev /\ e.chg = c.chg
        /\ e.mem = c.mem /\ Goto(p, e)
    BY <1>3, <1>8 DEF Cli
  <2> HIDE DEF e
  <2>2. Plain(e)' /\ Entries(e.mem) = {} /\ c.op # "record"
    BY <1>3, <1>8, <2>1 DEF Plain, Starting, Saving, Entries
  <2>3. Calm(c, k) => Calm(e, k)'
    BY <1>3, <1>8, <2>1, <2>2 DEF Calm, LockCalm, CopyCalm, WriteCalm, ApartCalm, Fresh, Tending,
       Saving, Locking
  <2> QED BY <1>3, <1>5, <2>1, <2>2, <2>3
<1>9. CASE c.pc = "unlock" /\ c.op = "autoroll" /\ Goto(p, AfterUnlock(c))
  <2> DEFINE e == [c EXCEPT !.pc = "saveopen", !.op = "remark"]
  <2>1. /\ e.pc = "saveopen" /\ e.op = "remark" /\ e.id = c.id /\ e.dev = c.dev /\ e.chg = c.chg
        /\ e.mem = c.mem /\ Goto(p, e)
    BY <1>3, <1>9 DEF AfterUnlock, Cli
  <2> HIDE DEF e
  <2>2. Plain(e)'
    BY <1>3, <1>9, <2>1 DEF Plain, Starting, Saving
  <2>3. Calm(c, k) => Calm(e, k)'
    BY <1>3, <1>9, <2>1 DEF Calm, LockCalm, CopyCalm, WriteCalm, ApartCalm, Current, Mirrored, Fresh,
       Tending, Saving, Locking
  <2> QED BY <1>3, <1>5, <2>1, <2>2, <2>3
<1>10. CASE /\ c.pc \in {"saveopen", "savefill"} /\ c.op \in {"pend", "autoroll"}
            /\ Goto(p, [c EXCEPT !.pc = "undo", !.op = "autoroll", !.pos = Len(c.mem.changes)])
  <2> DEFINE e == [c EXCEPT !.pc = "undo", !.op = "autoroll", !.pos = Len(c.mem.changes)]
  <2>1. /\ e.pc = "undo" /\ e.op = "autoroll" /\ e.id = c.id /\ e.dev = c.dev /\ e.chg = c.chg
        /\ e.mem = c.mem /\ Goto(p, e)
    BY <1>3, <1>10 DEF Cli
  <2> HIDE DEF e
  <2>2. Plain(e)'
    BY <1>3, <1>10, <2>1 DEF Plain, Starting, Saving
  <2>3. Calm(c, k) => Mirrored(e)' \/ Wrecked(e)'
    BY <1>3, <1>10, <2>1 DEF Calm, CopyCalm, Mirrored, Wrecked
  <2>4. Calm(c, k) => Calm(e, k)'
    BY <1>3, <1>10, <2>1, <2>3 DEF Calm, LockCalm, CopyCalm, WriteCalm, ApartCalm, Fresh,
       Tending, Saving, Locking
  <2> QED BY <1>3, <1>5, <2>1, <2>2, <2>4
<1>11. CASE IOFails(p) /\ ~Goto(p, Idle)
  BY <1>1, <1>8, <1>9, <1>10, <1>11 DEF IOFails, OnIOError, AfterUnlock
<1> QED BY <1>7, <1>11 DEF Crash, Done

\* Every write stays accounted for if those the command itself accounted for, those of
\* the journals and the one just made do.
LEMMA JournaledStep ==
    ASSUME CalmInv, NEW o, NEW p \in Procs, NEW e, NEW k, NEW m, Goes(p, e, k, o, m), k \notin raced,
           \A d \in Changes :
               /\ applied'[d] \in NeedSafe /\ k \notin stuck' /\ ~Removed(k)'
               /\ \/ applied'[d] # applied[d] \/ d = cli[p].chg \/ d \in Entries(m)
                  \/ \E i \in Ids : d \in Entries(journal[i])
               => \/ d \in lost' \/ d = e.chg \/ d \in Entries(e.mem)
                  \/ \E i \in Ids : d \in Entries(journal'[i])
    PROVE  JournaledAt(k)'
<1> USE StoreAssumption
<1>0. TypeInv /\ CalmAt(k) /\ k \in Keys
  BY LiveOK DEF CalmInv, OpenInv, GoneInv, OwnInv, Goes
<1>1. Removed(k) => Removed(k)'
  BY DEF Removed, Goes, StepAt
<1>2. cli'[p] = e /\ e \in Slots' /\ \A q \in Procs \ {p} : cli'[q] = cli[q] /\ cli[q] \in Slots'
  BY <1>0 DEF Goes, Goto, TypeInv, TypeOK, Slots
<1> SUFFICES ASSUME NEW d \in Changes, applied'[d] \in NeedSafe, Sanitize[applied'[d]] = k,
                    k \notin stuck', ~Removed(k)'
             PROVE  Accounted(d)'
  BY DEF JournaledAt
<1>3. CASE \/ applied'[d] # applied[d] \/ d = cli[p].chg \/ d \in Entries(m)
           \/ \E i \in Ids : d \in Entries(journal[i])
  BY <1>2, <1>3 DEF Accounted
<1>4. CASE applied'[d] = applied[d]
  <2>1. Accounted(d)
    BY <1>0, <1>1, <1>4 DEF CalmAt, JournaledAt, Goes, StepAt
  <2>2. CASE d \in lost
    BY <2>2 DEF Accounted, Goes, StepAt
  <2>3. CASE \E c \in Slots : d = c.chg \/ d \in Entries(c.mem)
    <3>1. PICK q \in Procs : d = cli[q].chg \/ d \in Entries(cli[q].mem)
      BY <2>3 DEF Slots
    <3>2. CASE q = p
      BY <1>3, <3>1, <3>2 DEF Goes
    <3>3. CASE q # p
      BY <1>2, <3>1, <3>3 DEF Accounted
    <3> QED BY <3>2, <3>3
  <2> QED BY <1>3, <2>1, <2>2, <2>3 DEF Accounted
<1> QED BY <1>3, <1>4

\* What a command that has a key to itself brings to a step that is not quiet.
LEMMA OwnFacts ==
    ASSUME CalmInv, NEW o, Owned(o), NEW p \in Procs, cli[p].pc # "idle", NEW k, k = Key(p)
    PROVE  /\ k \in Keys /\ Sanitize[cli[p].dev] = k
           /\ cli[p].id \in Ids => o[cli[p].id] = k
           /\ cli[p].mem.dev \in Devices => Sanitize[cli[p].mem.dev] = k
           /\ cli[p].pc \in WithSession => cli[p].id \in Ids
           /\ \A d \in Entries(cli[p].mem) :
                  d \in Changes /\ applied[d] \in Devices /\ Sanitize[applied[d]] = k
           /\ cli[p].chg \in Changes => cli[p].op = "record"
           /\ \A i \in Ids : file[i] = "unused" => journal[i] = Blank
           /\ \A i \in Ids : file[i] # "whole" => journal[i] = Blank
           /\ k \notin raced => JournaledAt(k) /\ ReachableAt(k) /\ ApartAt(k) /\ KeptAt(k)
<1>1. CliOK(cli[p]) /\ k \in Keys /\ Sanitize[cli[p].dev] = k /\ TypeInv /\ cli[p] \in Slots
  BY AtWorkFacts DEF Slots, AtWork
<1>2. \A d \in Entries(cli[p].mem) :
          d \in Changes /\ applied[d] \in Devices /\ Sanitize[applied[d]] = k
  BY <1>1, EntryKeys DEF CalmInv
<1>3. cli[p].chg \in Changes => cli[p].op = "record"
  BY <1>1, EntryKeys DEF CalmInv
<1> QED BY <1>1, <1>2, <1>3 DEF CliOK, StageOK, Owned, LocalOwned, CalmInv, PlainInv, CalmAt

\* session begin up to the journal: nothing is in it, and nothing was.
LEMMA CalmBeginFile ==
    ASSUME CalmInv, OpenInv', NEW p \in Procs,
           (\E i \in Ids : BeginCreate(p, i)) \/ BeginFill(p) \/ BeginCleanup(p)
    PROVE  CalmInv'
<1> USE StoreAssumption
<1>1. PICK c, k, m : c = cli[p] /\ k = Key(p) /\ m = cli[p].mem
  OBVIOUS
<1>2. PICK o \in [Ids -> Keys \cup {None}] : Owned(o)
  BY DEF CalmInv, OpenInv, GoneInv, OwnInv
<1>3. /\ c.pc \in {"create", "fill", "cleanup"} /\ c \in Cli /\ Plain(c) /\ c.op # "record"
      /\ c.mem.changes = <<>> /\ c.chg = None /\ (k \notin raced => Calm(c, k))
      /\ UNCHANGED <<lock, applied, history, inventory>>
      /\ file \in [Ids -> FileState] /\ journal \in [Ids -> Session]
  <2>1. c.pc \in {"create", "fill", "cleanup"} /\ cli[p].pc # "idle"
    BY <1>1 DEF BeginCreate, BeginFill, BeginCleanup
  <2>2. UNCHANGED <<lock, applied, history, inventory>>
    BY DEF BeginCreate, BeginFill, BeginCleanup, files, routers
  <2>3. c \in Cli /\ Plain(c) /\ TypeInv /\ (k \notin raced => Calm(c, k))
    BY <1>1, <2>1, AtWorkFacts
  <2> QED BY <2>1, <2>2, <2>3 DEF Plain, Starting, TypeInv, TypeOK
<1>4. /\ k \in Keys /\ Sanitize[c.dev] = k /\ (c.id \in Ids => o[c.id] = k)
      /\ c.pc \in {"fill", "cleanup"} => c.id \in Ids
      /\ \A i \in Ids : file[i] # "whole" => journal[i] = Blank
      /\ k \notin raced => JournaledAt(k) /\ ReachableAt(k) /\ ApartAt(k) /\ KeptAt(k)
  BY <1>1, <1>2, <1>3, OwnFacts DEF WithSession
<1>5. Entries(c.mem) = {} /\ Entries(Blank) = {} /\ Blank.changes = <<>>
  BY <1>3, IdlePlain DEF Entries
\* What is common to the three steps: one journal changes, and neither it nor the
\* one it replaces has an entry.
<1>6. ASSUME NEW e, Goto(p, e), e.pc = "idle" \/ e.dev = c.dev, Plain(e)', NEW i \in Ids,
             \A j \in Ids \ {i} : file'[j] = file[j] /\ journal'[j] = journal[j],
             file[i] = "unused" \/ o[i] = k, journal'[i] \in {Blank, m},
             file'[i] # "whole" => journal'[i] = Blank,
             k \notin raced => Entries(journal[i]) = {},
             k \notin raced /\ e.pc # "idle" => Calm(e, k)'
      PROVE  CalmInv'
  <2>1. StepAt(k, o, m)
    BY <1>3, <1>6 DEF StepAt, history
  <2>2. \A j \in Ids : file'[j] # "whole" => journal'[j] = Blank
    BY <1>4, <1>6
  <2>3. Goes(p, e, k, o, m)
    BY <1>1, <1>3, <1>6, <2>1, <2>2 DEF Goes, history
  <2>4. journal'[i].changes = <<>> /\ Entries(journal'[i]) = {}
    BY <1>1, <1>3, <1>5, <1>6
  <2>5. ASSUME k \notin raced
        PROVE  JournaledAt(k)' /\ ReachableAt(k)' /\ ApartAt(k)' /\ KeptAt(k)'
    <3>1. JournaledAt(k)'
      <4>1. \A d \in Changes : \A j \in Ids :
                d \in Entries(journal[j]) => d \in Entries(journal'[j])
        BY <1>6, <2>5
      <4> QED BY <1>1, <1>3, <1>5, <2>3, <2>5, <4>1, JournaledStep
    <3>2. ReachableAt(k)'
      BY <1>3, <1>4, <1>6, <2>4, <2>5 DEF ReachableAt, Open, Removed
    <3>3. ApartAt(k)'
      BY <1>3, <1>4, <1>6, <2>4, <2>5 DEF ApartAt
    <3>4. KeptAt(k)'
      BY <1>3, <1>4, <1>6, <2>4, <2>5 DEF KeptAt, Open, history
    <3> QED BY <3>1, <3>2, <3>3, <3>4
  <2> QED BY <1>2, <1>6, <2>3, <2>5, CalmStepOf
<1>7. ASSUME NEW i \in Ids, BeginCreate(p, i) PROVE CalmInv'
  <2> DEFINE e == [c EXCEPT !.pc = "fill", !.id = i]
  <2>1. /\ e.pc = "fill" /\ e.op = c.op /\ e.id = i /\ e.dev = c.dev /\ e.chg = c.chg
        /\ e.mem = c.mem /\ Goto(p, e) /\ c.pc = "create"
    BY <1>1, <1>3, <1>7 DEF BeginCreate, Cli
  <2> HIDE DEF e
  <2>2. /\ file[i] = "unused" /\ journal' = journal /\ journal[i] = Blank
        /\ \A j \in Ids \ {i} : file'[j] = file[j]
        /\ file'[i] = "torn"
    BY <1>3, <1>4, <1>7 DEF BeginCreate
  <2>3. Plain(e)'
    BY <1>3, <2>1 DEF Plain, Starting, Saving, history
  <2>4. Calm(c, k) => Calm(e, k)'
    BY <1>3, <1>5, <2>1, <2>2 DEF Calm, LockCalm, CopyCalm, WriteCalm, ApartCalm, Fresh, Tending,
       Saving, Locking
  <2> QED BY <1>3, <1>5, <1>6, <2>1, <2>2, <2>3, <2>4
<1>8. CASE BeginFill(p)
  <2> DEFINE e == [c EXCEPT !.pc = "lockopen"]
             i == c.id
  <2>1. /\ e.pc = "lockopen" /\ e.op = c.op /\ e.id = i /\ e.dev = c.dev /\ e.chg = c.chg
        /\ e.mem = c.mem /\ Goto(p, e) /\ c.pc = "fill" /\ i \in Ids
    BY <1>1, <1>3, <1>4, <1>8 DEF BeginFill, Cli
  <2> HIDE DEF e
  <2>2. /\ \A j \in Ids \ {i} : file'[j] = file[j] /\ journal'[j] = journal[j]
        /\ file'[i] = "whole" /\ journal'[i] = m
    BY <1>1, <1>3, <1>8, <2>1 DEF BeginFill
  <2>3. Plain(e)'
    BY <1>3, <2>1 DEF Plain, Starting, Saving, history
  <2>4. Calm(c, k) => Entries(journal[i]) = {}
    BY <1>4, <1>5, <2>1 DEF Calm, CopyCalm
  <2>5. Calm(c, k) => Calm(e, k)'
    BY <1>1, <1>3, <1>5, <2>1, <2>2 DEF Calm, LockCalm, CopyCalm, WriteCalm, ApartCalm, Fresh,
       Tending, Saving, Locking
  <2> QED BY <1>3, <1>4, <1>6, <2>1, <2>2, <2>3, <2>4, <2>5
<1>9. CASE BeginCleanup(p)
  <2> DEFINE i == c.id
  <2>1. Goto(p, Idle) /\ c.pc = "cleanup" /\ i \in Ids
    BY <1>1, <1>4, <1>9 DEF BeginCleanup, Done
  <2>2. /\ \A j \in Ids \ {i} : file'[j] = file[j] /\ journal'[j] = journal[j]
        /\ file'[i] = "absent" /\ journal'[i] = Blank
    BY <1>1, <1>3, <1>9, <2>1 DEF BeginCleanup
  <2>3. Plain(Idle)'
    BY IdlePlain DEF Plain
  <2>4. Calm(c, k) => Entries(journal[i]) = {}
    BY <2>1 DEF Calm, CopyCalm, Locking, Entries
  <2> QED BY <1>3, <1>4, <1>6, <2>1, <2>2, <2>3, <2>4, IdlePlain
<1> QED BY <1>7, <1>8, <1>9

\* Truncating the journal: what it held is in the copy, which will be written.
LEMMA CalmSaveOpen ==
    ASSUME CalmInv, OpenInv', NEW p \in Procs, SaveOpen(p)
    PROVE  CalmInv'
<1> USE StoreAssumption
<1>1. PICK c, k, m, i : c = cli[p] /\ k = Key(p) /\ m = cli[p].mem /\ i = cli[p].id
  OBVIOUS
<1>2. PICK o \in [Ids -> Keys \cup {None}] : Owned(o)
  BY DEF CalmInv, OpenInv, GoneInv, OwnInv
<1>3. /\ c.pc = "saveopen" /\ c \in Cli /\ Plain(c) /\ (k \notin raced => Calm(c, k))
      /\ UNCHANGED <<lock, applied, history, inventory>>
      /\ i \in Ids /\ k \in Keys /\ Sanitize[c.dev] = k /\ o[i] = k /\ c.mem \in Session
      /\ \A j \in Ids : file[j] # "whole" => journal[j] = Blank
      /\ k \notin raced => JournaledAt(k) /\ ReachableAt(k) /\ ApartAt(k) /\ KeptAt(k)
      /\ \A j \in Ids \ {i} : file'[j] = file[j] /\ journal'[j] = journal[j]
      /\ file'[i] = "torn" /\ journal'[i] = Blank
  <2>1. c.pc = "saveopen" /\ cli[p].pc # "idle"
    BY <1>1 DEF SaveOpen
  <2>2. UNCHANGED <<lock, applied, history, inventory>>
    BY DEF SaveOpen, files, routers
  <2>3. c \in Cli /\ Plain(c) /\ TypeInv /\ (k \notin raced => Calm(c, k))
    BY <1>1, <2>1, AtWorkFacts
  <2>4. /\ i \in Ids /\ k \in Keys /\ Sanitize[c.dev] = k /\ o[i] = k
        /\ \A j \in Ids : file[j] # "whole" => journal[j] = Blank
        /\ k \notin raced => JournaledAt(k) /\ ReachableAt(k) /\ ApartAt(k) /\ KeptAt(k)
    BY <1>1, <1>2, <2>1, OwnFacts DEF WithSession
  <2>5. /\ \A j \in Ids \ {i} : file'[j] = file[j] /\ journal'[j] = journal[j]
        /\ file'[i] = "torn" /\ journal'[i] = Blank
    BY <1>1, <2>3, <2>4 DEF SaveOpen, TypeInv, TypeOK
  <2> QED BY <2>1, <2>2, <2>3, <2>4, <2>5 DEF Cli
<1> DEFINE e == [c EXCEPT !.pc = "savefill"]
<1>4. /\ e.pc = "savefill" /\ e.op = c.op /\ e.id = i /\ e.dev = c.dev /\ e.chg = c.chg
      /\ e.mem = c.mem /\ Goto(p, e)
  BY <1>1, <1>3 DEF SaveOpen, Cli
<1> HIDE DEF e
<1>5. Plain(e)'
  BY <1>3, <1>4 DEF Plain, Starting, Saving, history
<1>6. StepAt(k, o, m)
  BY <1>3 DEF StepAt, history
<1>7. Goes(p, e, k, o, m)
  BY <1>1, <1>3, <1>4, <1>5, <1>6 DEF Goes, history
<1>8. ASSUME k \notin raced
      PROVE  Calm(e, k)' /\ JournaledAt(k)' /\ ReachableAt(k)' /\ ApartAt(k)' /\ KeptAt(k)'
  <2>0. Calm(c, k) /\ Entries(Blank) = {} /\ c.id = i
    BY <1>1, <1>3, <1>8, IdlePlain
  <2>1. Entries(journal[i]) \subseteq Entries(c.mem)
    <3>1. CASE c.op = "record"
      <4>1. c.mem.changes = Append(journal[i].changes, c.chg) /\ c.mem.changes \in Seq(Changes)
        BY <1>3, <2>0, <3>1 DEF Calm, CopyCalm, Session
      <4>2. journal[i].changes \in Seq(Changes) /\ c.chg \in Changes
        BY <1>1, <1>3, <3>1, AtWorkFacts DEF TypeInv, TypeOK, Session, CliOK, StageOK
      <4> QED BY <4>1, <4>2, AppendEntries
    <3>2. CASE c.op # "record"
      <4>1. journal[i].changes = c.mem.changes \/ journal[i] = Blank
        BY <1>3, <2>0, <3>2 DEF Calm, CopyCalm, Mirrored, Wrecked
      <4>2. journal[i].changes = c.mem.changes => Entries(journal[i]) = Entries(c.mem)
        BY DEF Entries
      <4> QED BY <2>0, <4>1, <4>2
    <3> QED BY <3>1, <3>2
  <2>2. Calm(e, k)'
    <3>1. c.op = "record" => c.chg \in Entries(c.mem)
      <4> SUFFICES ASSUME c.op = "record" PROVE c.chg \in Entries(c.mem)
        OBVIOUS
      <4>1. c.mem.changes = Append(journal[i].changes, c.chg)
        BY <1>3, <2>0 DEF Calm, CopyCalm
      <4>2. journal[i].changes \in Seq(Changes) /\ c.chg \in Changes
        BY <1>1, <1>3, AtWorkFacts DEF TypeInv, TypeOK, Session, CliOK, StageOK
      <4>3. Entries(c.mem) = Entries(journal[i]) \cup {c.chg}
        BY <4>1, <4>2, AppendEntries
      <4> QED BY <4>3
    <3> QED BY <1>3, <1>4, <2>0, <3>1 DEF Calm, LockCalm, CopyCalm, WriteCalm, ApartCalm, Fresh,
         Tending, Saving, Locking, history
  <2>3. \A d \in Changes : \A j \in Ids :
            d \in Entries(journal[j]) => d \in Entries(e.mem) \/ d \in Entries(journal'[j])
    BY <1>3, <1>4, <2>1
  <2>4. JournaledAt(k)'
    BY <1>1, <1>3, <1>4, <1>7, <1>8, <2>3, JournaledStep
  <2>5. ReachableAt(k)' /\ ApartAt(k)' /\ KeptAt(k)'
    BY <1>3, <1>8, <2>0 DEF ReachableAt, ApartAt, KeptAt, Open, Removed, history
  <2> QED BY <2>2, <2>4, <2>5
<1> QED BY <1>2, <1>7, <1>8, CalmStepOf

\* Filling it: the journal is the copy, and a commit's entries are kept from then on.
LEMMA CalmSaveFill ==
    ASSUME CalmInv, OpenInv', NEW p \in Procs, SaveFill(p)
    PROVE  CalmInv'
<1> USE StoreAssumption
<1>1. PICK c, k, m, i : c = cli[p] /\ k = Key(p) /\ m = cli[p].mem /\ i = cli[p].id
  OBVIOUS
<1>2. PICK o \in [Ids -> Keys \cup {None}] : Owned(o)
  BY DEF CalmInv, OpenInv, GoneInv, OwnInv
<1>3. /\ c.pc = "savefill" /\ c \in Cli /\ Plain(c) /\ (k \notin raced => Calm(c, k))
      /\ c.op \in {"record", "pend", "commit", "rollback", "autoroll", "remark"}
      /\ UNCHANGED <<lock, applied, raced, lost, stuck, inventory>>
      /\ i \in Ids /\ k \in Keys /\ Sanitize[c.dev] = k /\ o[i] = k /\ c.mem \in Session
      /\ c.id = i /\ m = c.mem
      /\ \A j \in Ids : file[j] # "whole" => journal[j] = Blank
      /\ k \notin raced => JournaledAt(k) /\ ReachableAt(k) /\ ApartAt(k) /\ KeptAt(k)
      /\ \A j \in Ids \ {i} : file'[j] = file[j] /\ journal'[j] = journal[j]
      /\ file'[i] = "whole" /\ journal'[i] = m
      /\ kept' = IF c.op = "commit" THEN kept \cup Entries(m) ELSE kept
  <2>1. c.pc = "savefill" /\ cli[p].pc # "idle"
    BY <1>1 DEF SaveFill
  <2>2. UNCHANGED <<lock, applied, raced, lost, stuck, inventory>>
    BY DEF SaveFill, files, routers
  <2>3. c \in Cli /\ Plain(c) /\ TypeInv /\ (k \notin raced => Calm(c, k))
    BY <1>1, <2>1, AtWorkFacts
  <2>4. /\ i \in Ids /\ k \in Keys /\ Sanitize[c.dev] = k /\ o[i] = k
        /\ \A j \in Ids : file[j] # "whole" => journal[j] = Blank
        /\ k \notin raced => JournaledAt(k) /\ ReachableAt(k) /\ ApartAt(k) /\ KeptAt(k)
    BY <1>1, <1>2, <2>1, OwnFacts DEF WithSession
  <2>5. /\ \A j \in Ids \ {i} : file'[j] = file[j] /\ journal'[j] = journal[j]
        /\ file'[i] = "whole" /\ journal'[i] = m
        /\ kept' = IF c.op = "commit" THEN kept \cup Entries(m) ELSE kept
    BY <1>1, <2>3, <2>4 DEF SaveFill, TypeInv, TypeOK
  <2>6. c.op \in {"record", "pend", "commit", "rollback", "autoroll", "remark"}
    BY <2>1, <2>3 DEF Plain, Saving
  <2> QED BY <1>1, <2>1, <2>2, <2>3, <2>4, <2>5, <2>6 DEF Cli
<1>4. PICK e :
         /\ Goto(p, e)
         /\ \/ c.op = "record" /\ e = Idle
            \/ /\ e.dev = c.dev /\ e.id = i /\ e.chg = c.chg /\ e.mem = c.mem
               /\ \/ c.op = "pend" /\ e.pc = "undo" /\ e.op = "autoroll"
                  \/ c.op \notin {"record", "pend"} /\ e.pc = "unlock" /\ e.op = c.op
  <2> DEFINE e == AfterSave(c)
  <2>1. /\ c.op = "record" => e = Idle
        /\ c.op = "pend" => /\ e.dev = c.dev /\ e.id = i /\ e.chg = c.chg /\ e.mem = c.mem
                            /\ e.pc = "undo" /\ e.op = "autoroll"
        /\ c.op \notin {"record", "pend"} =>
                            /\ e.dev = c.dev /\ e.id = i /\ e.chg = c.chg /\ e.mem = c.mem
                            /\ e.pc = "unlock" /\ e.op = c.op
    BY <1>3 DEF AfterSave, Cli
  <2>2. Goto(p, e)
    BY <1>1 DEF SaveFill
  <2> HIDE DEF e
  <2> QED BY <1>3, <2>1, <2>2
<1>5. Plain(e)'
  BY <1>3, <1>4, IdlePlain DEF Plain, Starting, Saving
<1>6. StepAt(k, o, m)
  BY <1>3 DEF StepAt
<1>7. Goes(p, e, k, o, m)
  BY <1>1, <1>3, <1>4, <1>5, <1>6, IdlePlain DEF Goes
<1>8. ASSUME k \notin raced
      PROVE  /\ e.pc # "idle" => Calm(e, k)'
             /\ JournaledAt(k)' /\ ReachableAt(k)' /\ ApartAt(k)' /\ KeptAt(k)'
  <2>0. /\ Calm(c, k) /\ Entries(journal[i]) = {} /\ file[i] = "torn"
        /\ \A j \in Ids \ {i} : Entries(m) \cap Entries(journal[j]) = {}
        /\ k \notin stuck => Entries(m) \cap kept = {}
    BY <1>3, <1>8, IdlePlain DEF Calm, CopyCalm, ApartCalm
  <2>1. ASSUME e.pc # "idle" PROVE Calm(e, k)'
    <3>0. e.pc \in {"undo", "unlock"} /\ e.mem = m /\ e.id = i /\ c.op # "record"
      BY <1>3, <1>4, <2>1, IdlePlain
    <3>1. LockCalm(e, k)'
      BY <1>3, <1>4, <2>0, <3>0 DEF Calm, LockCalm, Fresh, Tending, Saving
    <3>2. CopyCalm(e, k)'
      BY <1>3, <1>4, <3>0 DEF CopyCalm, Current, Mirrored, Locking
    <3>3. WriteCalm(e, k)'
      BY <1>3, <1>4, <3>0 DEF WriteCalm
    <3>4. ApartCalm(e, k)'
      BY <1>3, <1>4, <2>0, <3>0 DEF ApartCalm
    <3> QED BY <3>1, <3>2, <3>3, <3>4 DEF Calm
  <2>2. JournaledAt(k)'
    <3>1. \A d \in Changes : \A j \in Ids :
              d \in Entries(journal[j]) => d \in Entries(journal'[j])
      BY <1>3, <2>0
    <3>2. c.op = "record" => c.chg \in Entries(m)
      BY <1>3, <2>0 DEF Calm, CopyCalm
    <3>3. c.op # "record" => e.chg = c.chg
      BY <1>3, <1>4
    <3> QED BY <1>1, <1>3, <1>7, <1>8, <3>1, <3>2, <3>3, JournaledStep
  <2>3. ReachableAt(k)'
    <3> SUFFICES ASSUME NEW j \in Ids, Open(j)', journal'[j].changes # <<>>,
                        Sanitize[journal'[j].dev] = k
                 PROVE  lock'[k] = j \/ Removed(k)'
      BY DEF ReachableAt
    <3>1. CASE j = i
      <4>1. c.op \in {"record", "pend"}
        BY <1>3, <3>1 DEF Open, Plain, Saving
      <4> QED BY <1>3, <2>0, <3>1, <4>1 DEF Calm, LockCalm, Tending, Saving
    <3>2. CASE j # i
      BY <1>3, <1>8, <3>2 DEF ReachableAt, Open, Removed
    <3> QED BY <3>1, <3>2
  <2>4. ApartAt(k)'
    BY <1>3, <1>8, <2>0 DEF ApartAt
  <2>5. KeptAt(k)'
    <3> SUFFICES ASSUME k \notin stuck', NEW j \in Ids, Open(j)',
                        NEW d \in Entries(journal'[j]) \cap kept', Sanitize[applied'[d]] = k
                 PROVE  FALSE
      BY DEF KeptAt
    <3>1. CASE j = i
      <4>1. c.op \in {"record", "pend"}
        BY <1>3, <3>1 DEF Open, Plain, Saving
      <4> QED BY <1>3, <2>0, <3>1, <4>1
    <3>2. CASE j # i
      BY <1>3, <1>8, <2>0, <3>2 DEF KeptAt, Open
    <3> QED BY <3>1, <3>2
  <2> QED BY <2>1, <2>2, <2>3, <2>4, <2>5
<1> QED BY <1>2, <1>7, <1>8, CalmStepOf

\* Writing the lock, removing it, and purging it.
LEMMA CalmLock ==
    ASSUME CalmInv, OpenInv', NEW p \in Procs,
           BeginLockOpen(p) \/ BeginLockFill(p) \/ Unlock(p) \/ PurgeLock(p)
    PROVE  CalmInv'
<1> USE StoreAssumption
<1>1. PICK c, k, m : c = cli[p] /\ k = Key(p) /\ m = cli[p].mem
  OBVIOUS
<1>2. PICK o \in [Ids -> Keys \cup {None}] : Owned(o)
  BY DEF CalmInv, OpenInv, GoneInv, OwnInv
<1>3. /\ c.pc \in {"lockopen", "lockfill", "unlock", "dropunlock"} /\ c \in Cli /\ Plain(c)
      /\ c.op # "record" /\ c.chg = None /\ m = c.mem
      /\ k \notin raced => Calm(c, k)
      /\ UNCHANGED <<file, journal, applied, history, inventory>>
      /\ k \in Keys /\ Sanitize[c.dev] = k
      /\ c.pc = "unlock" => Sanitize[c.mem.dev] = k
      /\ c.pc \in {"lockopen", "lockfill", "unlock"} => c.id \in Ids
      /\ \A j \in Ids : file[j] # "whole" => journal[j] = Blank
      /\ k \notin raced => JournaledAt(k) /\ ReachableAt(k) /\ ApartAt(k) /\ KeptAt(k)
      /\ \A h \in Keys \ {k} : lock'[h] = lock[h]
      /\ c.pc = "lockfill" => lock'[k] = c.id
      /\ c.pc = "lockopen" => lock'[k] = Empty
      /\ c.pc \in {"unlock", "dropunlock"} => lock'[k] = Absent
  <2>1. c.pc \in {"lockopen", "lockfill", "unlock", "dropunlock"} /\ cli[p].pc # "idle"
    BY <1>1 DEF BeginLockOpen, BeginLockFill, Unlock, PurgeLock
  <2>2. UNCHANGED <<file, journal, applied, history, inventory>>
    BY DEF BeginLockOpen, BeginLockFill, Unlock, PurgeLock, files, routers
  <2>3. c \in Cli /\ Plain(c) /\ TypeInv /\ CliOK(c) /\ (k \notin raced => Calm(c, k))
    BY <1>1, <2>1, AtWorkFacts
  <2>4. /\ k \in Keys /\ Sanitize[c.dev] = k
        /\ c.pc \in {"lockopen", "lockfill", "unlock"} => c.id \in Ids
        /\ \A j \in Ids : file[j] # "whole" => journal[j] = Blank
        /\ k \notin raced => JournaledAt(k) /\ ReachableAt(k) /\ ApartAt(k) /\ KeptAt(k)
    BY <1>1, <1>2, <2>1, OwnFacts DEF WithSession
  <2>5. c.pc = "unlock" => Sanitize[c.mem.dev] = k
    BY <1>1, <1>2, <2>1, OwnFacts DEF Owned, LocalOwned, Holding
  <2>6. /\ \A h \in Keys \ {k} : lock'[h] = lock[h]
        /\ c.pc = "lockfill" => lock'[k] = c.id
        /\ c.pc = "lockopen" => lock'[k] = Empty
        /\ c.pc \in {"unlock", "dropunlock"} => lock'[k] = Absent
    BY <1>1, <2>3, <2>4, <2>5 DEF BeginLockOpen, BeginLockFill, Unlock, PurgeLock, TypeInv, TypeOK
  <2>7. c.op # "record" /\ c.chg = None
    BY <2>1, <2>3 DEF Plain
  <2> QED BY <1>1, <2>1, <2>2, <2>3, <2>4, <2>5, <2>6, <2>7
\* The lock that goes, or is overwritten, is not that of an open session with entries.
<1>4. ASSUME k \notin raced PROVE ReachableAt(k)'
  <2> SUFFICES ASSUME NEW j \in Ids, Open(j), journal[j].changes # <<>>,
                      Sanitize[journal[j].dev] = k, ~Removed(k)
               PROVE  FALSE
    BY <1>3 DEF ReachableAt, Open, Removed
  <2>1. lock[k] = j
    BY <1>3, <1>4 DEF ReachableAt
  <2>2. CASE c.pc \in {"lockopen", "lockfill"}
    BY <1>3, <1>4, <2>1, <2>2 DEF Calm, LockCalm, Fresh
  <2>3. CASE c.pc = "dropunlock"
    BY <1>1, <1>3, <2>3 DEF CalmInv, OpenInv, GoneInv, Purging, Removed, TypeInv, TypeOK, CliOK,
       StageOK, OwnInv
  <2>4. CASE c.pc = "unlock"
    <3>1. j = c.id
      BY <1>3, <1>4, <2>1, <2>4 DEF Calm, LockCalm, Tending, Saving
    <3>2. journal[j].status # "active"
      BY <1>3, <1>4, <2>4, <3>1 DEF Calm, CopyCalm, Current, Plain, Saving
    <3> QED BY <3>2 DEF Open
  <2> QED BY <1>3, <2>2, <2>3, <2>4
<1>5. ASSUME NEW e, Goto(p, e), e.pc = "idle" \/ e.dev = c.dev, Plain(e)', e.mem = m \/ e = Idle,
             k \notin raced /\ e.pc # "idle" => Calm(e, k)'
      PROVE  CalmInv'
  <2>1. StepAt(k, o, m)
    BY <1>3 DEF StepAt, history
  <2>2. Goes(p, e, k, o, m)
    BY <1>1, <1>3, <1>5, <2>1 DEF Goes, history
  <2>3. ASSUME k \notin raced
        PROVE  JournaledAt(k)' /\ ReachableAt(k)' /\ ApartAt(k)' /\ KeptAt(k)'
    <3>1. \A d \in Entries(m) : d \in lost \/ \E i \in Ids : d \in Entries(journal[i])
      BY <1>1, <1>3, <2>3, AtWorkFacts, Backup
    <3>2. JournaledAt(k)'
      BY <1>1, <1>3, <2>2, <2>3, <3>1, JournaledStep DEF history
    <3>3. ApartAt(k)' /\ KeptAt(k)'
      BY <1>3, <2>3 DEF ApartAt, KeptAt, Open, history
    <3> QED BY <1>4, <2>3, <3>2, <3>3
  <2> QED BY <1>2, <1>5, <2>2, <2>3, CalmStepOf
<1>6. Plain(Idle)' /\ Idle.pc = "idle"
  BY IdlePlain DEF Plain
<1>7. CASE Goto(p, Idle)
  BY <1>5, <1>6, <1>7
<1>8. CASE BeginLockOpen(p) \/ PurgeLock(p)
  <2>0. PICK q \in {"lockfill", "purge"} :
            /\ Goto(p, [c EXCEPT !.pc = q])
            /\ c.pc = IF q = "lockfill" THEN "lockopen" ELSE "dropunlock"
    BY <1>1, <1>8 DEF BeginLockOpen, PurgeLock
  <2> DEFINE e == [c EXCEPT !.pc = q]
  <2>1. /\ e.op = c.op /\ e.id = c.id /\ e.dev = c.dev /\ e.chg = c.chg /\ e.mem = m
        /\ Goto(p, e) /\ e.pc = q
    BY <1>3, <2>0 DEF Cli
  <2> HIDE DEF e
  <2>2. Plain(e)'
    BY <1>3, <2>0, <2>1 DEF Plain, Starting, Saving, history
  <2>3. Calm(c, k) => Calm(e, k)'
    BY <1>3, <2>0, <2>1 DEF Calm, LockCalm, CopyCalm, WriteCalm, ApartCalm, Fresh,
       Tending, Saving, Locking, history
  <2> QED BY <1>3, <1>5, <2>1, <2>2, <2>3
<1>9. CASE Unlock(p) /\ c.op = "autoroll"
  <2> DEFINE e == [c EXCEPT !.pc = "saveopen", !.op = "remark"]
  <2>1. /\ e.pc = "saveopen" /\ e.op = "remark" /\ e.id = c.id /\ e.dev = c.dev /\ e.chg = c.chg
        /\ e.mem = m /\ Goto(p, e) /\ c.pc = "unlock"
    BY <1>1, <1>3, <1>9 DEF Unlock, AfterUnlock, Cli
  <2> HIDE DEF e
  <2>2. Plain(e)'
    BY <1>3, <1>9, <2>1 DEF Plain, Starting, Saving, history
  <2>3. Calm(c, k) => Calm(e, k)'
    BY <1>3, <1>9, <2>1 DEF Calm, LockCalm, CopyCalm, WriteCalm, ApartCalm, Current, Mirrored, Fresh,
       Tending, Saving, Locking, history
  <2> QED BY <1>3, <1>5, <2>1, <2>2, <2>3
<1> QED BY <1>1, <1>7, <1>8, <1>9 DEF BeginLockFill, Unlock, AfterUnlock, Done

\* The router write: the guard has seen an open session, or needs none.
LEMMA CalmWrite ==
    ASSUME CalmInv, OpenInv', NEW p \in Procs, NEW a \in Changes,
           RouterWrite(p, a) \/ AmbiguousWrite(p, a)
    PROVE  CalmInv'
<1> USE StoreAssumption
<1>1. PICK c, k, m : c = cli[p] /\ k = Key(p) /\ m = cli[p].mem
  OBVIOUS
<1>2. PICK o \in [Ids -> Keys \cup {None}] : Owned(o)
  BY DEF CalmInv, OpenInv, GoneInv, OwnInv
<1>3. /\ c.pc = "run" /\ c \in Cli /\ Plain(c) /\ c.dev \in Devices /\ AtWork(cli[p], k)
      /\ c.op # "record" /\ c.chg = None /\ m = c.mem
      /\ k \notin raced => Calm(c, k)
      /\ UNCHANGED <<lock, file, journal, inventory, raced, stuck, kept>>
      /\ k \in Keys /\ Sanitize[c.dev] = k
      /\ \A j \in Ids : file[j] # "whole" => journal[j] = Blank
      /\ k \notin raced => JournaledAt(k) /\ ReachableAt(k) /\ ApartAt(k) /\ KeptAt(k)
      /\ applied[a] = None /\ applied'[a] = c.dev
      /\ \A d \in Changes \ {a} : applied'[d] = applied[d]
      /\ lost \subseteq lost'
      /\ \A i \in Ids : \A d \in Entries(journal[i]) : d \in Changes /\ applied[d] # None
      /\ kept \subseteq Changes /\ a \notin kept
  <2>1. c.pc = "run" /\ cli[p].pc # "idle"
    BY <1>1 DEF RouterWrite, AmbiguousWrite
  <2>2. UNCHANGED <<lock, file, journal, inventory, raced, stuck, kept>>
    BY DEF RouterWrite, AmbiguousWrite, files, history
  <2>3. /\ c \in Cli /\ Plain(c) /\ TypeInv /\ CliOK(c) /\ (k \notin raced => Calm(c, k))
        /\ c.dev \in Devices /\ AtWork(cli[p], k)
    BY <1>1, <2>1, AtWorkFacts
  <2>4. /\ k \in Keys /\ Sanitize[c.dev] = k
        /\ \A j \in Ids : file[j] # "whole" => journal[j] = Blank
        /\ k \notin raced => JournaledAt(k) /\ ReachableAt(k) /\ ApartAt(k) /\ KeptAt(k)
    BY <1>1, <1>2, <2>1, OwnFacts
  <2>5. /\ applied[a] = None /\ applied'[a] = c.dev
        /\ \A d \in Changes \ {a} : applied'[d] = applied[d]
        /\ lost \subseteq lost'
    BY <1>1, <2>3 DEF RouterWrite, AmbiguousWrite, history, TypeInv, TypeOK
  <2>6. \A i \in Ids : \A d \in Entries(journal[i]) : d \in Changes /\ applied[d] # None
    BY <1>2, <2>3, EntryKeys DEF CalmInv
  <2>7. kept \subseteq Changes /\ a \notin kept
    BY <2>3, <2>5 DEF CalmInv, PlainInv, TypeInv, TypeOK
  <2> QED BY <1>1, <2>1, <2>2, <2>3, <2>4, <2>5, <2>6, <2>7 DEF Plain
<1>4. ASSUME NEW e, Goto(p, e), e.pc = "idle" \/ e.dev = c.dev, Plain(e)',
             e.chg = a \/ a \in lost',
             k \notin raced /\ e.pc # "idle" => Calm(e, k)'
      PROVE  CalmInv'
  <2>1. StepAt(k, o, m)
    BY <1>3 DEF StepAt
  <2>2. Goes(p, e, k, o, m)
    BY <1>1, <1>3, <1>4, <2>1 DEF Goes
  <2>3. ASSUME k \notin raced
        PROVE  JournaledAt(k)' /\ ReachableAt(k)' /\ ApartAt(k)' /\ KeptAt(k)'
    <3>1. \A d \in Entries(m) : d \in lost \/ \E i \in Ids : d \in Entries(journal[i])
      BY <1>1, <1>3, <2>3, AtWorkFacts, Backup
    <3>2. JournaledAt(k)'
      BY <1>1, <1>3, <1>4, <2>2, <2>3, <3>1, JournaledStep
    <3>3. \A i \in Ids : \A d \in Entries(journal[i]) : applied'[d] = applied[d]
      BY <1>3
    <3>4. ReachableAt(k)' /\ ApartAt(k)' /\ KeptAt(k)'
      BY <1>3, <2>3, <3>3 DEF ReachableAt, ApartAt, KeptAt, Open, Removed
    <3> QED BY <3>2, <3>4
  <2> QED BY <1>2, <1>4, <2>2, <2>3, CalmStepOf
<1>5. CASE AmbiguousWrite(p, a)
  <2>1. Goto(p, Idle) /\ a \in lost' /\ Plain(Idle)' /\ Idle.pc = "idle"
    BY <1>5, IdlePlain DEF AmbiguousWrite, Done, Plain
  <2> QED BY <1>4, <2>1
<1>6. CASE RouterWrite(p, a)
  <2> DEFINE e == [Idle EXCEPT !.pc = "readlock", !.op = "record", !.dev = c.dev, !.chg = a]
  <2>1. /\ e.pc = "readlock" /\ e.op = "record" /\ e.id = None /\ e.dev = c.dev /\ e.chg = a
        /\ e.mem = Blank /\ Goto(p, e)
    BY <1>1, <1>6 DEF RouterWrite, Idle
  <2> HIDE DEF e
  <2>2. Plain(e)'
    BY <1>3, <2>1, IdlePlain DEF Plain, Starting, Saving
  <2>3. ASSUME k \notin raced PROVE Calm(e, k)'
    <3>1. /\ c.dev \in NeedSafe => c.mem.safe
          /\ c.mem.safe => UnderCap(c.mem)
          /\ c.mem = Blank \/ (c.id \in Ids /\ lock[k] = c.id /\ Current(c))
      BY <1>3, <2>3 DEF Calm, WriteCalm, CopyCalm
    <3>2. c.dev \in NeedSafe /\ k \notin stuck =>
              lock[k] \in Ids /\ file[lock[k]] = "whole" /\ Recordable(journal[lock[k]])
      <4> SUFFICES ASSUME c.dev \in NeedSafe, k \notin stuck
                   PROVE  lock[k] \in Ids /\ file[lock[k]] = "whole" /\ Recordable(journal[lock[k]])
        OBVIOUS
      <4>1. c.mem.safe /\ UnderCap(c.mem) /\ c.id \in Ids /\ lock[k] = c.id /\ Current(c)
        BY <3>1, IdlePlain
      <4>2. file[c.id] = "whole" /\ journal[c.id] = c.mem
        BY <4>1 DEF Current
      <4>3. journal[c.id].status = "active"
        BY <1>1, <1>3, <2>3, <4>1, <4>2, LockedIsOpen
      <4> QED BY <4>1, <4>2, <4>3 DEF Recordable
    <3>3. \A j \in Ids : a \notin Entries(journal[j])
      BY <1>3
    <3>4. WriteCalm(e, k)'
      BY <1>3, <2>1, <3>2, <3>3 DEF WriteCalm, Removed, Recordable, UnderCap
    <3>5. LockCalm(e, k)' /\ CopyCalm(e, k)' /\ ApartCalm(e, k)'
      BY <2>1, IdlePlain DEF LockCalm, CopyCalm, ApartCalm, Fresh, Tending, Saving, Locking
    <3> QED BY <3>4, <3>5 DEF Calm
  <2> QED BY <1>4, <2>1, <2>2, <2>3
<1> QED BY <1>5, <1>6

\* Purging the journals of a device that the inventory no longer has.
LEMMA CalmPurge ==
    ASSUME CalmInv, OpenInv', NEW p \in Procs, PurgeJournals(p)
    PROVE  CalmInv'
<1> USE StoreAssumption
<1>1. PICK c, k, m : c = cli[p] /\ k = Key(p) /\ m = cli[p].mem
  OBVIOUS
<1>2. PICK o \in [Ids -> Keys \cup {None}] : Owned(o)
  BY DEF CalmInv, OpenInv, GoneInv, OwnInv
<1>3. /\ c.pc = "purge" /\ c.dev \in Devices /\ Goto(p, Idle) /\ Sanitize[c.dev] = k /\ k \in Keys
      /\ UNCHANGED <<lock, applied, history, inventory>> /\ c.dev \notin inventory
      /\ \A i \in Ids : file[i] # "whole" => journal[i] = Blank
      /\ \A i \in Ids : \/ file'[i] = file[i] /\ journal'[i] = journal[i]
                        \/ /\ journal[i].dev = c.dev /\ file[i] = "whole"
                           /\ file'[i] = "absent" /\ journal'[i] = Blank
  <2>1. c.pc = "purge" /\ cli[p].pc # "idle" /\ Goto(p, Idle)
    BY <1>1 DEF PurgeJournals, Done
  <2>2. UNCHANGED <<lock, applied, history, inventory>>
    BY DEF PurgeJournals, routers
  <2>3. c.dev \in Devices /\ Sanitize[c.dev] = k /\ k \in Keys
    BY <1>1, <2>1, AtWorkFacts DEF AtWork
  <2>4. c.dev \notin inventory
    BY <1>1, <2>1 DEF CalmInv, OpenInv, GoneInv, Purging
  <2>5. \A i \in Ids : \/ file'[i] = file[i] /\ journal'[i] = journal[i]
                       \/ /\ journal[i].dev = c.dev /\ file[i] = "whole"
                          /\ file'[i] = "absent" /\ journal'[i] = Blank
    BY <1>1 DEF PurgeJournals
  <2> QED BY <2>1, <2>2, <2>3, <2>4, <2>5 DEF CalmInv, PlainInv
<1>4. \A i \in Ids : journal[i].dev = c.dev => o[i] = k
  BY <1>2, <1>3 DEF Owned, JournalOwned
<1>5. Plain(Idle)' /\ Idle.pc = "idle" /\ Entries(Blank) = {} /\ Blank.changes = <<>>
  BY IdlePlain DEF Plain
<1>6. StepAt(k, o, m)
  BY <1>3, <1>4 DEF StepAt, history
<1>7. Goes(p, Idle, k, o, m)
  BY <1>1, <1>3, <1>5, <1>6 DEF Goes, history
<1>8. Removed(k)'
  BY <1>3 DEF Removed
<1>9. ASSUME k \notin raced
      PROVE  JournaledAt(k)' /\ ReachableAt(k)' /\ ApartAt(k)' /\ KeptAt(k)'
  <2>1. JournaledAt(k)' /\ ReachableAt(k)'
    BY <1>8 DEF JournaledAt, ReachableAt
  <2>2. \A i \in Ids : /\ Entries(journal'[i]) # {} => journal'[i] = journal[i] /\ file'[i] = file[i]
    BY <1>3, <1>5
  <2>3. ApartAt(k) /\ KeptAt(k)
    BY <1>3, <1>9 DEF CalmInv, CalmAt
  <2> QED BY <1>3, <2>1, <2>2, <2>3 DEF ApartAt, KeptAt, Open, history
<1> QED BY <1>2, <1>5, <1>7, <1>9, CalmStepOf

\* A new process: it has read nothing yet, and has its key to itself or the key no claim.
LEMMA CalmStart ==
    ASSUME CalmInv, OpenInv', NEW p \in Procs, NEW d \in Devices,
           \/ \E safe \in SafeModes : StartBegin(p, d, safe)
           \/ \E op \in Op : StartCommand(p, op, d)
           \/ StartForcedRemove(p, d)
    PROVE  CalmInv'
<1> USE StoreAssumption DEF files, routers
<1>0. TypeInv /\ TypeInv' /\ PlainInv
  BY DEF CalmInv, OpenInv, GoneInv, OwnInv
<1>1. PICK e : /\ Start(p, e) /\ e.dev = d /\ e.chg = None /\ e.id = None
               /\ e.op \in Op \ {"none", "record", "pend", "autoroll", "remark"}
               /\ \/ e.pc = "stat" /\ e.mem.changes = <<>>
                  \/ e.pc \in {"readlock", "forget"} /\ e.mem = Blank
  <2>1. ASSUME NEW safe \in SafeModes, StartBegin(p, d, safe)
        PROVE  \E e : /\ Start(p, e) /\ e.dev = d /\ e.chg = None /\ e.id = None
                      /\ e.op \in Op \ {"none", "record", "pend", "autoroll", "remark"}
                      /\ e.pc = "stat" /\ e.mem.changes = <<>>
    <3> DEFINE e == [Idle EXCEPT !.pc = "stat", !.op = "begin", !.dev = d,
                                 !.mem = [Blank EXCEPT !.dev = d, !.safe = safe]]
    <3>1. /\ Start(p, e) /\ e.dev = d /\ e.chg = None /\ e.id = None
          /\ e.op \in Op \ {"none", "record", "pend", "autoroll", "remark"}
          /\ e.pc = "stat" /\ e.mem.changes = <<>>
      BY <2>1 DEF StartBegin, Idle, Blank, Op
    <3> QED BY <3>1
  <2>2. ASSUME NEW op \in Op, StartCommand(p, op, d)
        PROVE  \E e : /\ Start(p, e) /\ e.dev = d /\ e.chg = None /\ e.id = None
                      /\ e.op \in Op \ {"none", "record", "pend", "autoroll", "remark"}
                      /\ e.pc = "readlock" /\ e.mem = Blank
    <3> DEFINE e == [Idle EXCEPT !.pc = "readlock", !.op = op, !.dev = d]
    <3>1. /\ Start(p, e) /\ e.dev = d /\ e.chg = None /\ e.id = None /\ e.op = op
          /\ e.pc = "readlock" /\ e.mem = Blank
      BY <2>2 DEF StartCommand, Idle
    <3>2. op \in {"begin", "write", "commit", "rollback", "watch", "remove"}
      BY <3>1 DEF Start
    <3> QED BY <3>1, <3>2
  <2>3. ASSUME StartForcedRemove(p, d)
        PROVE  \E e : /\ Start(p, e) /\ e.dev = d /\ e.chg = None /\ e.id = None
                      /\ e.op \in Op \ {"none", "record", "pend", "autoroll", "remark"}
                      /\ e.pc = "forget" /\ e.mem = Blank
    <3> DEFINE e == [Idle EXCEPT !.pc = "forget", !.op = "remove", !.dev = d]
    <3>1. /\ Start(p, e) /\ e.dev = d /\ e.chg = None /\ e.id = None
          /\ e.op \in Op \ {"none", "record", "pend", "autoroll", "remark"}
          /\ e.pc = "forget" /\ e.mem = Blank
      BY <2>3 DEF StartForcedRemove, Idle, Op
    <3> QED BY <3>1
  <2> QED BY <2>1, <2>2, <2>3
<1>2. PICK k : k = Sanitize[d]
  OBVIOUS
<1>3. /\ k \in Keys /\ raced \subseteq raced' /\ cli[p].pc = "idle" /\ cli[p] = Idle
      /\ UNCHANGED <<files, inventory, routers, lost, stuck, cut, kept>>
      /\ \A q \in Procs \ {p} : cli'[q] = cli[q]
      /\ cli'[p] = e
      /\ k \notin raced' => \A q \in Procs : ~AtWork(cli[q], k)
  <2>1. /\ raced' = IF Live(k) = {} THEN raced ELSE raced \cup {k}
        /\ UNCHANGED <<files, inventory, routers, lost, stuck, cut, kept>> /\ cli[p].pc = "idle"
        /\ Goto(p, e)
    BY <1>1, <1>2 DEF Start
  <2>2. k \notin raced' => \A q \in Procs : ~AtWork(cli[q], k)
    BY <2>1 DEF Live, AtWork, Key
  <2> QED BY <1>0, <1>2, <2>1, <2>2 DEF Goto, TypeInv, TypeOK, PlainInv, Plain, Slots
<1>4. Plain(e)' /\ Entries(Blank) = {} /\ Entries(Idle.mem) = {} /\ Idle.pc = "idle"
  BY <1>1, IdlePlain DEF Plain, Starting, Saving, Idle
<1>5. PICK o \in [Ids -> Keys \cup {None}] : Owned(o)
  BY DEF CalmInv, OpenInv, GoneInv, OwnInv
<1>6. StepAt(k, o, Idle.mem)
  BY <1>3 DEF StepAt
<1>7. ASSUME NEW h \in Keys \ raced', h # k PROVE CalmAt(h)'
  <2>1. AtWork(cli[p], k)' /\ CalmAt(h) /\ Idle.mem = cli[p].mem
    BY <1>1, <1>2, <1>3, <1>7 DEF AtWork, CalmInv
  <2> QED BY <1>0, <1>3, <1>5, <1>6, <1>7, <2>1, Elsewhere
<1>8. ASSUME k \notin raced' PROVE CalmAt(k)'
  <2>1. CalmAt(k)
    BY <1>3, <1>8 DEF CalmInv
  <2>2. \A c \in Slots' : AtWork(c, k) => c = e
    BY <1>3, <1>8 DEF Slots
  <2>3. e.op # "record" /\ e.op # "remark" /\ Entries(e.mem) = {}
    <3>1. e.mem.changes = <<>> \/ e.mem = Blank
      BY <1>1
    <3>2. e.mem.changes = <<>> => Entries(e.mem) = {}
      BY DEF Entries
    <3>3. e.op # "record" /\ e.op # "remark"
      BY <1>1
    <3> QED BY <1>4, <3>1, <3>2, <3>3
  <2>4. LockCalm(e, k)' /\ CopyCalm(e, k)' /\ WriteCalm(e, k)' /\ ApartCalm(e, k)'
    BY <1>1, <2>3 DEF LockCalm, CopyCalm, WriteCalm, ApartCalm, Fresh, Tending, Saving, Locking
  <2>5. Calm(e, k)'
    BY <2>4 DEF Calm
  <2>6. ASSUME NEW a \in Changes, Accounted(a) PROVE Accounted(a)'
    <3>1. CASE \E c \in Slots : a = c.chg \/ a \in Entries(c.mem)
      <4>1. PICK q \in Procs : a = cli[q].chg \/ a \in Entries(cli[q].mem)
        BY <3>1 DEF Slots
      <4>2. q # p
        BY <1>3, <1>4, <4>1, IdlePlain
      <4> QED BY <1>3, <4>1, <4>2 DEF Accounted, Slots
    <3> QED BY <1>3, <2>6, <3>1 DEF Accounted
  <2>7. JournaledAt(k)'
    BY <1>3, <2>1, <2>6 DEF CalmAt, JournaledAt, Removed
  <2>8. ReachableAt(k)' /\ ApartAt(k)' /\ KeptAt(k)'
    BY <1>3, <2>1 DEF CalmAt, ReachableAt, ApartAt, KeptAt, Open, Removed
  <2> QED BY <2>2, <2>5, <2>7, <2>8 DEF CalmAt
<1>9. Alone'
  <2> SUFFICES ASSUME NEW q \in Procs, NEW r \in Procs, NEW h \in Keys, q # r,
                      AtWork(cli'[q], h), AtWork(cli'[r], h), h \notin raced'
               PROVE  FALSE
    BY DEF Alone, AtWork
  <2>1. CASE q # p /\ r # p
    BY <1>0, <1>3, <2>1 DEF PlainInv, Alone
  <2>2. CASE q = p \/ r = p
    BY <1>1, <1>2, <1>3, <2>2 DEF AtWork
  <2> QED BY <2>1, <2>2
<1>10. PlainInv'
  <2>1. \A c \in Slots' : Plain(c)'
    BY <1>0, <1>3, <1>4 DEF Slots, PlainInv, Plain
  <2> QED BY <1>0, <1>3, <1>9, <2>1 DEF PlainInv
<1> QED BY <1>7, <1>8, <1>10 DEF CalmInv

\* Every step keeps the invariant.
LEMMA CalmStep == CalmInv /\ [Next]_vars => CalmInv'
<1> SUFFICES ASSUME CalmInv, [Next]_vars PROVE CalmInv'
  OBVIOUS
<1>0. OpenInv'
  BY OpenStep DEF CalmInv
<1>1. CASE UNCHANGED vars
  <2>1. /\ Slots' = Slots /\ (Alone <=> Alone')
        /\ \A d : Accounted(d) <=> Accounted(d)'
    BY <1>1 DEF vars, Slots, Alone, AtWork, Accounted
  <2>2. PlainInv'
    <3>1. \A c \in Slots : Plain(c) => Plain(c)'
      BY <1>1 DEF vars, Plain
    <3> QED BY <1>1, <2>1, <3>1 DEF vars, CalmInv, PlainInv
  <2>3. ASSUME NEW k \in Keys \ raced' PROVE CalmAt(k)'
    <3>1. CalmAt(k)
      BY <1>1, <2>3 DEF vars, CalmInv
    <3>2. ASSUME NEW c \in Slots, AtWork(c, k) PROVE Calm(c, k)'
      <4>1. Calm(c, k)
        BY <3>1, <3>2 DEF CalmAt
      <4>2. LockCalm(c, k)' /\ WriteCalm(c, k)' /\ ApartCalm(c, k)'
        BY <1>1, <4>1 DEF vars, Calm, LockCalm, WriteCalm, ApartCalm, Recordable, UnderCap, Removed
      <4>3. CopyCalm(c, k)'
        BY <1>1, <4>1 DEF vars, Calm, CopyCalm, Current, Mirrored, Wrecked
      <4> QED BY <4>2, <4>3 DEF Calm
    <3>3. JournaledAt(k)' /\ ReachableAt(k)' /\ ApartAt(k)' /\ KeptAt(k)'
      BY <1>1, <2>1, <3>1 DEF vars, CalmAt, JournaledAt, ReachableAt, ApartAt, KeptAt, Open, Removed
    <3> QED BY <2>1, <3>2, <3>3 DEF CalmAt, AtWork
  <2> QED BY <1>0, <2>2, <2>3 DEF CalmInv
<1>2. CASE Next
  <2>1. PICK p \in Procs :
          \/ \E d \in Devices :
                \/ \E safe \in SafeModes : StartBegin(p, d, safe)
                \/ \E op \in Op : StartCommand(p, op, d)
                \/ StartForcedRemove(p, d)
          \/ Begin(p)
          \/ ReadLock(p) \/ ReadJournal(p)
          \/ \E c \in Changes : RouterWrite(p, c) \/ AmbiguousWrite(p, c)
          \/ SaveOpen(p) \/ SaveFill(p) \/ Unlock(p)
          \/ Undo(p) \/ MarkRolledBack(p) \/ UndoFails(p) \/ LinkLost(p)
          \/ Forget(p) \/ PurgeLock(p) \/ PurgeJournals(p)
          \/ Quit(p) \/ Crash(p) \/ IOFails(p)
    BY <1>2 DEF Next
  <2>2. CASE Begin(p)
    BY <1>0, <2>2, CalmQuit, CalmBeginFile, CalmLock DEF Begin
  <2> QED BY <1>0, <2>1, <2>2, CalmStart, CalmReadLock, CalmReadJournal, CalmWrite, CalmSaveOpen,
       CalmSaveFill, CalmLock, CalmRollback, CalmQuit, CalmPurge, CalmStop
<1> QED BY <1>1, <1>2

(***************************************************************************)
(* Part 4.  What follows from the invariant.                               *)
(***************************************************************************)

\* At the start nothing is written and nobody works.
LEMMA CalmInit == Init => CalmInv
<1> SUFFICES ASSUME Init PROVE CalmInv
  OBVIOUS
<1>1. /\ \A c \in Slots : c = Idle
      /\ \A i \in Ids : journal[i] = Blank /\ file[i] = "unused"
      /\ \A d \in Changes : applied[d] \notin Devices
      /\ kept = {} /\ Entries(Blank) = {} /\ Blank.changes = <<>>
  BY StoreAssumption, IdlePlain DEF Init, Slots
<1>2. \A c \in Slots : Plain(c) /\ c.pc = "idle"
  BY <1>1, IdlePlain DEF Plain
<1>3. Alone
  BY <1>2 DEF Alone, AtWork, Slots
<1>4. PlainInv
  BY <1>1, <1>2, <1>3 DEF PlainInv
<1>5. ASSUME NEW k \in Keys PROVE CalmAt(k)
  <2>1. JournaledAt(k) /\ ReachableAt(k) /\ ApartAt(k) /\ KeptAt(k)
    BY <1>1, StoreAssumption DEF JournaledAt, ReachableAt, ApartAt, KeptAt
  <2> QED BY <1>2, <2>1 DEF CalmAt, AtWork
<1> QED BY <1>4, <1>5, OpenInit DEF CalmInv

\* In every behaviour, on a key no two commands have shared so far, what each command
\* holds and what the files hold agree as the stage of the command says.
THEOREM SerialCalm == Spec => []CalmInv
BY CalmInit, CalmStep, PTL DEF Spec

\* In every behaviour, crashes and I/O errors included, a write on a device that
\* requires a safe session is journaled, or about to be, unless it was lost with the
\* command recording it or with a cut rewrite, commands overlapped, or the lock
\* outlived its session: the session the guard has seen is still the locked one, and
\* still takes changes, when the write is recorded.
THEOREM WritesJournaled == Spec => []GuardedWritesJournaled
<1>1. CalmInv => GuardedWritesJournaled
  <2> SUFFICES ASSUME CalmInv, NEW d \in Changes, applied[d] \in NeedSafe,
                      Sanitize[applied[d]] \notin raced \cup stuck,
                      ~Removed(Sanitize[applied[d]])
               PROVE  Accounted(d)
    BY DEF GuardedWritesJournaled, Accounted, Slots
  <2>1. Sanitize[applied[d]] \in Keys
    BY StoreAssumption
  <2> QED BY <2>1 DEF CalmInv, CalmAt, JournaledAt
<1> QED BY <1>1, SerialCalm, PTL

\* In every behaviour, crashes and I/O errors included, an open session with entries
\* is the one its lock names, unless commands overlapped on its key or the device was
\* removed: begin refuses while a lock is there, and only a command that has closed
\* the session removes its lock.
THEOREM PendingReached == Spec => []PendingReachable
<1>1. CalmInv => PendingReachable
  <2> SUFFICES ASSUME CalmInv, NEW i \in Ids, Open(i), journal[i].changes # <<>>,
                      Sanitize[journal[i].dev] \notin raced
               PROVE  lock[Sanitize[journal[i].dev]] = i \/ Removed(Sanitize[journal[i].dev])
    BY DEF PendingReachable
  <2>1. PICK o \in [Ids -> Keys \cup {None}] : Owned(o)
    BY DEF CalmInv, OpenInv, GoneInv, OwnInv
  <2>2. journal[i].changes \in Seq(Changes)
    BY DEF CalmInv, OpenInv, GoneInv, OwnInv, TypeInv, TypeOK, Session
  <2>3. journal[i].changes[1] \in Entries(journal[i])
    BY <2>2 DEF Entries
  <2>4. journal[i].dev \in Devices
    BY <2>1, <2>3, EntryKeys DEF CalmInv, OpenInv, GoneInv, OwnInv
  <2>5. Sanitize[journal[i].dev] \in Keys
    BY <2>4, StoreAssumption
  <2> QED BY <2>5 DEF CalmInv, CalmAt, ReachableAt
<1> QED BY <1>1, SerialCalm, PTL

\* In every behaviour, crashes and I/O errors included, a rollback or a watch undoes no
\* change of a committed session unless commands overlapped on its key or a lock
\* outlived its session: the copy it undoes is the locked session's, which shares no
\* entry with a committed one.
THEOREM CommitKeeps == Spec => CommitKeepsChanges
<1>1. CalmInv /\ Next =>
        \A c \in undone' \ undone :
            c \in kept => Sanitize[applied[c]] \in raced \cup stuck
  <2> SUFFICES ASSUME CalmInv, Next, NEW d \in undone' \ undone, d \in kept,
                      Sanitize[applied[d]] \notin raced \cup stuck
               PROVE  FALSE
    OBVIOUS
  <2>1. PICK p \in Procs : Undo(p)
    <3>1. PICK p \in Procs :
            \/ \E e \in Devices :
                  \/ \E safe \in SafeModes : StartBegin(p, e, safe)
                  \/ \E op \in Op : StartCommand(p, op, e)
                  \/ StartForcedRemove(p, e)
            \/ Begin(p)
            \/ ReadLock(p) \/ ReadJournal(p)
            \/ \E c \in Changes : RouterWrite(p, c) \/ AmbiguousWrite(p, c)
            \/ SaveOpen(p) \/ SaveFill(p) \/ Unlock(p)
            \/ Undo(p) \/ MarkRolledBack(p) \/ UndoFails(p) \/ LinkLost(p)
            \/ Forget(p) \/ PurgeLock(p) \/ PurgeJournals(p)
            \/ Quit(p) \/ Crash(p) \/ IOFails(p)
      BY DEF Next
    <3>2. \A safe, op : \A e \in Devices :
             StartBegin(p, e, safe) \/ StartCommand(p, op, e) \/ StartForcedRemove(p, e)
                => undone' = undone
      BY DEF Start, StartBegin, StartCommand, StartForcedRemove, routers
    <3>3. Begin(p) => undone' = undone
      BY DEF Begin, BeginStat, BeginCreate, BeginFill, BeginLockOpen, BeginLockFill, BeginCleanup,
         routers
    <3>4. \/ ReadLock(p) \/ ReadJournal(p) \/ MarkRolledBack(p) \/ UndoFails(p) \/ LinkLost(p)
          \/ \E c \in Changes : RouterWrite(p, c) \/ AmbiguousWrite(p, c)
          => undone' = undone
      BY DEF ReadLock, ReadJournal, RouterWrite, AmbiguousWrite, MarkRolledBack, UndoFails, LinkLost,
         routers
    <3>5. \/ SaveOpen(p) \/ SaveFill(p) \/ Unlock(p) \/ Forget(p) \/ PurgeLock(p)
          \/ PurgeJournals(p) \/ Quit(p) \/ Crash(p) \/ IOFails(p)
          => undone' = undone
      BY DEF SaveOpen, SaveFill, Unlock, Forget, PurgeLock, PurgeJournals, Quit, Crash, IOFails,
         routers
    <3> QED BY <3>1, <3>2, <3>3, <3>4, <3>5
  <2>2. PICK c : c = cli[p]
    OBVIOUS
  <2>3. /\ c.pc = "undo" /\ c \in Cli /\ c \in Slots /\ CliOK(c) /\ AtWork(c, Key(p))
        /\ Key(p) \notin raced => Calm(c, Key(p))
    BY <2>1, <2>2, AtWorkFacts DEF Undo, Slots
  <2>4. d \in Entries(c.mem)
    <3>1. d = c.mem.changes[c.pos] /\ c.pos > 0
      BY <2>1, <2>2 DEF Undo
    <3>2. c.pos \in 1..Len(c.mem.changes)
      BY <2>3, <3>1 DEF CliOK, StageOK, Cli
    <3> QED BY <3>1, <3>2 DEF Entries
  <2>5. PICK o \in [Ids -> Keys \cup {None}] : Owned(o)
    BY DEF CalmInv, OpenInv, GoneInv, OwnInv
  <2>6. Sanitize[applied[d]] = Key(p)
    BY <2>2, <2>3, <2>4, <2>5, EntryKeys DEF CalmInv, OpenInv, GoneInv, OwnInv, Key
  <2> QED BY <2>3, <2>4, <2>6 DEF Calm, ApartCalm
<1> QED BY <1>1, SerialCalm, PTL DEF Spec, CommitKeepsChanges

(***************************************************************************)
(* Part 5.  The refinement.  Without overlaps at most one process works on  *)
(* a session, and the invariant says which of its steps find the journal     *)
(* whole, so that only the truncation of the journal, its first filling, its *)
(* removal, and the end of a process that holds a torn one, show in the life  *)
(* of the session.                                                          *)
(***************************************************************************)

\* Process-local states that hold the session j of a torn journal, or begin it.
Holds(c, j) == c.id = j /\ c.pc \in {"savefill", "undo", "saveopen"}
Begins(c, j) == c.id = j /\ c.pc = "fill"

\* The abstract session is what the files and the one process at work on it say.
Viewed(j) ==
    /\ Contents(j) \in Session
    /\ file[j] = "whole" => Life(j) = journal[j].status /\ Contents(j) = journal[j]
    /\ file[j] = "unused" => Life(j) = "unborn" /\ Contents(j) = Blank
    /\ file[j] = "absent" => Life(j) = "lost" /\ Contents(j) = Blank
    /\ file[j] = "torn" =>
          /\ \A p \in Procs : Begins(cli[p], j) => Life(j) = "unborn" /\ Contents(j) = Blank
          /\ \A p \in Procs : Holds(cli[p], j) =>
                Life(j) = cli[p].mem.status /\ Contents(j) = cli[p].mem
          /\ (\A p \in Procs : ~Begins(cli[p], j) /\ ~Holds(cli[p], j)) =>
                Life(j) = "lost" /\ Contents(j) = Blank

Views == raced = {} => \A j \in Ids : Viewed(j)

\* Two processes at work on one session are one.
LEMMA OneWorker ==
    ASSUME CalmInv, raced = {}, NEW j \in Ids, NEW p \in Procs, NEW q \in Procs,
           cli[p].id = j, cli[q].id = j, cli[p].pc # "idle", cli[q].pc # "idle"
    PROVE  p = q
<1>1. PICK o \in [Ids -> Keys \cup {None}] : Owned(o)
  BY DEF CalmInv, OpenInv, GoneInv, OwnInv
<1>2. AtWork(cli[p], o[j]) /\ AtWork(cli[q], o[j]) /\ o[j] \in Keys
  BY <1>1, AtWorkFacts DEF Owned, LocalOwned, AtWork, Key
<1> QED BY <1>2 DEF CalmInv, PlainInv, Alone

LEMMA ViewsHold == CalmInv => Views
<1> SUFFICES ASSUME CalmInv, raced = {}, NEW j \in Ids PROVE Viewed(j)
  BY DEF Views
<1>1. /\ file[j] \in FileState /\ journal[j] \in Session
      /\ file[j] # "whole" => journal[j] = Blank
      /\ \A p \in Procs : cli[p].mem \in Session
  BY DEF CalmInv, OpenInv, GoneInv, OwnInv, TypeInv, TypeOK, PlainInv, Cli
<1>2. /\ Savers(j) = {p \in Procs : Holds(cli[p], j)}
      /\ Beginning(j) <=> \E p \in Procs : Begins(cli[p], j)
  BY DEF Savers, Beginning, Holds, Begins
<1>3. \A p, q \in Procs : Holds(cli[p], j) /\ Holds(cli[q], j) => p = q
  BY OneWorker DEF Holds
<1>4. \A p, q \in Procs : ~(Holds(cli[p], j) /\ Begins(cli[q], j))
  BY OneWorker DEF Holds, Begins
<1>5. CASE file[j] # "torn"
  BY <1>1, <1>5 DEF Viewed, Life, Contents, FileState
<1>6. CASE file[j] = "torn" /\ \E p \in Procs : Holds(cli[p], j)
  <2>1. PICK p \in Procs : Holds(cli[p], j)
    BY <1>6
  <2>2. Savers(j) = {p}
    BY <1>2, <1>3, <2>1
  <2>3. (CHOOSE q \in Savers(j) : TRUE) = p
    BY <2>2
  <2>4. Contents(j) = cli[p].mem
    BY <1>6, <2>2, <2>3 DEF Contents
  <2>5. Life(j) = cli[p].mem.status
    BY <1>2, <1>4, <1>6, <2>1, <2>2, <2>4 DEF Life
  <2> QED BY <1>1, <1>3, <1>4, <1>6, <2>1, <2>4, <2>5 DEF Viewed
<1>7. CASE file[j] = "torn" /\ ~\E p \in Procs : Holds(cli[p], j)
  <2>1. Savers(j) = {} /\ Contents(j) = Blank
    BY <1>1, <1>2, <1>7 DEF Contents
  <2>2. Life(j) = IF \E p \in Procs : Begins(cli[p], j) THEN "unborn" ELSE "lost"
    BY <1>2, <1>7, <2>1 DEF Life
  <2> QED BY <1>1, <1>7, <2>1, <2>2, BlankType DEF Viewed
<1> QED BY <1>5, <1>6, <1>7

\* Nothing has become of a session.
Same(j) == Life(j)' = Life(j) /\ Contents(j)' = Contents(j)

\* A step that leaves the journal alone leaves the session alone, unless the journal is
\* torn and the step changes what the process does to it.
LEMMA LifeKept ==
    ASSUME NEW p \in Procs, \A q \in Procs \ {p} : cli'[q] = cli[q], NEW j \in Ids,
           file'[j] = file[j], journal'[j] = journal[j],
           \/ file[j] = "whole"
           \/ /\ Begins(cli[p], j) <=> Begins(cli'[p], j)
              /\ Holds(cli[p], j) <=> Holds(cli'[p], j)
              /\ Holds(cli[p], j) => cli'[p].mem = cli[p].mem
    PROVE  Same(j)
<1>1. CASE file[j] = "whole"
  BY <1>1 DEF Same, Life, Contents
<1>2. CASE file[j] # "whole"
  <2>1. /\ \A q \in Procs : Begins(cli[q], j) <=> Begins(cli'[q], j)
        /\ \A q \in Procs : Holds(cli[q], j) <=> Holds(cli'[q], j)
        /\ \A q \in Procs : Holds(cli[q], j) => cli'[q].mem = cli[q].mem
    BY <1>2
  <2>2. Savers(j)' = Savers(j) /\ (Beginning(j)' <=> Beginning(j))
    BY <2>1 DEF Savers, Beginning, Holds, Begins
  <2>3. \A q \in Savers(j) : cli'[q].mem = cli[q].mem
    BY <2>1 DEF Savers, Holds
  <2>4. Savers(j) # {} => (CHOOSE q \in Savers(j) : TRUE) \in Savers(j)
    OBVIOUS
  <2>5. Contents(j)' = Contents(j)
    BY <2>2, <2>3, <2>4 DEF Contents
  <2> QED BY <2>2, <2>5 DEF Same, Life
<1> QED BY <1>1, <1>2

\* What may become of one session: nothing, or one step of its life.
LEMMA OneLife ==
    ASSUME NEW i \in Ids, \A j \in Ids \ {i} : Same(j),
           \A j \in Ids : Contents(j) \in Session,
           \/ Same(i)
           \/ /\ Life(i) = "unborn" /\ Life(i)' = "active"
              /\ Contents(i).changes' = Contents(i).changes
           \/ /\ Life(i) = "active" /\ Life(i)' = "active"
              /\ \E d \in Changes :
                    /\ Contents(i).changes' = Append(Contents(i).changes, d)
                    /\ \A j \in Ids : d \notin Entries(Contents(j))
           \/ /\ \/ Life(i) = "active" /\ Life(i)' \in {"committed", "rolled_back"}
                 \/ Life(i) = "committed" /\ Life(i)' = "rolled_back"
              /\ Contents(i).changes' = Contents(i).changes
           \/ Life(i) # "lost" /\ Life(i)' = "lost" /\ Contents(i).changes' = <<>>
    PROVE  [Abstract!Next]_(Abstract!vars)
<1>1. CASE Same(i)
  <2>1. UNCHANGED Abstract!vars
    BY <1>1 DEF Same, Abstract!vars
  <2> QED BY <2>1
<1>2. \A j \in Ids \ {i} : Life(j)' = Life(j) /\ Contents(j).changes' = Contents(j).changes
  BY DEF Same
<1>3. CASE Life(i) = "unborn" /\ Life(i)' = "active" /\ Contents(i).changes' = Contents(i).changes
  <2>1. Abstract!Begin(i) /\ Abstract!vars' # Abstract!vars
    BY <1>2, <1>3 DEF Abstract!Begin, Abstract!vars
  <2> QED BY <2>1 DEF Abstract!Next
<1>4. CASE /\ Life(i) = "active" /\ Life(i)' = "active"
           /\ \E d \in Changes :
                 /\ Contents(i).changes' = Append(Contents(i).changes, d)
                 /\ \A j \in Ids : d \notin Entries(Contents(j))
  <2>1. PICK d \in Changes : /\ Contents(i).changes' = Append(Contents(i).changes, d)
                             /\ \A j \in Ids : d \notin Entries(Contents(j))
    BY <1>4
  <2>2. PICK s : s = Contents(i).changes
    OBVIOUS
  <2>3. s \in Seq(Changes) /\ Contents(i).changes' = Append(s, d) /\ Append(s, d) # s
    <3>1. s \in Seq(Changes) /\ Contents(i).changes' = Append(s, d)
      BY <2>1, <2>2 DEF Session
    <3>2. Len(Append(s, d)) = Len(s) + 1 /\ Len(s) \in Nat
      BY <3>1
    <3> QED BY <3>1, <3>2
  <2>4. \A j \in Ids : d \notin Abstract!Taken(j)
    <3> SUFFICES ASSUME NEW j \in Ids PROVE d \notin Abstract!Taken(j)
      OBVIOUS
    <3>1. Contents(j).changes \in Seq(Changes)
      BY DEF Session
    <3>2. DOMAIN Contents(j).changes = 1..Len(Contents(j).changes)
      BY <3>1
    <3> QED BY <2>1, <3>2 DEF Abstract!Taken, Entries
  <2>5. Abstract!Take(i, d)
    BY <1>2, <1>4, <2>1, <2>4 DEF Abstract!Take
  <2>6. Abstract!vars' # Abstract!vars
    BY <2>2, <2>3 DEF Abstract!vars
  <2> QED BY <2>5, <2>6 DEF Abstract!Next
<1>5. CASE /\ \/ Life(i) = "active" /\ Life(i)' \in {"committed", "rolled_back"}
              \/ Life(i) = "committed" /\ Life(i)' = "rolled_back"
           /\ Contents(i).changes' = Contents(i).changes
  <2>1. PICK how : how = Life(i)'
    OBVIOUS
  <2>2. how \in {"committed", "rolled_back"} /\ Abstract!Close(i, how)
    BY <1>2, <1>5, <2>1 DEF Abstract!Close
  <2>3. Abstract!vars' # Abstract!vars
    BY <1>5 DEF Abstract!vars
  <2> QED BY <2>2, <2>3 DEF Abstract!Next
<1>6. CASE Life(i) # "lost" /\ Life(i)' = "lost" /\ Contents(i).changes' = <<>>
  <2>1. Abstract!Lose({i}) /\ Abstract!vars' # Abstract!vars
    BY <1>2, <1>6 DEF Abstract!Lose, Abstract!vars
  <2> QED BY <1>6, <2>1 DEF Abstract!Next
<1> QED BY <1>1, <1>3, <1>4, <1>5, <1>6

\* Stages whose process decides what a torn journal stands for.
Rewriting == {"fill", "savefill", "undo", "saveopen"}

\* A process that keeps its copy, or deals with whole journals, changes no session.
LEMMA LifeStill ==
    ASSUME NEW p \in Procs, \A q \in Procs \ {p} : cli'[q] = cli[q],
           NEW c, c = cli[p], NEW e, e = cli'[p], UNCHANGED <<file, journal>>,
           \/ /\ c.id = e.id /\ c.mem = e.mem
              /\ {c.pc, e.pc} \subseteq {"savefill", "undo", "saveopen"}
           \/ \A x \in {c, e} : x.pc \in Rewriting /\ x.id \in Ids => file[x.id] = "whole"
    PROVE  [Abstract!Next]_(Abstract!vars)
<1>1. ASSUME NEW j \in Ids PROVE Same(j)
  <2>1. \/ file[j] = "whole"
        \/ /\ Begins(c, j) <=> Begins(e, j)
           /\ Holds(c, j) <=> Holds(e, j)
           /\ Holds(c, j) => e.mem = c.mem
    BY DEF Begins, Holds, Rewriting
  <2> QED BY <2>1, LifeKept
<1>2. UNCHANGED Abstract!vars
  BY <1>1 DEF Same, Abstract!vars
<1> QED BY <1>2

\* A journal that a process is rewriting is whole or torn.
LEMMA RewritingFile ==
    ASSUME CalmInv, raced = {}, NEW p \in Procs, cli[p].pc \in Rewriting
    PROVE  /\ cli[p].id \in Ids /\ cli[p].pc # "idle" /\ cli[p].mem \in Session
           /\ file[cli[p].id] \in {"whole", "torn"}
<1>1. PICK c, k : c = cli[p] /\ k = Key(p)
  OBVIOUS
<1>2. c.pc # "idle" /\ c.pc \in WithSession
  BY <1>1 DEF Rewriting, WithSession
<1>3. CliOK(c) /\ c \in Cli /\ Calm(c, k)
  BY <1>1, <1>2, AtWorkFacts
<1>4. c.id \in Ids /\ c.mem \in Session
  BY <1>2, <1>3 DEF CliOK, StageOK, Cli
<1>5. CopyCalm(c, k)
  BY <1>3 DEF Calm
<1>6. file[c.id] \in {"whole", "torn"}
  BY <1>1, <1>5 DEF CopyCalm, Rewriting, Mirrored, Wrecked
<1> QED BY <1>1, <1>2, <1>4, <1>6

\* A process that stops rewriting a torn journal loses the session, and nothing else does.
LEMMA LifeEnds ==
    ASSUME CalmInv, CalmInv', raced = {}, raced' = {},
           NEW p \in Procs, \A q \in Procs \ {p} : cli'[q] = cli[q], cli'[p].pc \notin Rewriting,
           UNCHANGED <<file, journal>>
    PROVE  [Abstract!Next]_(Abstract!vars)
<1>1. CASE cli[p].pc \in Rewriting => file[cli[p].id] = "whole"
  BY <1>1, LifeStill
<1>2. CASE cli[p].pc \in Rewriting /\ file[cli[p].id] # "whole"
  <2>1. PICK i \in Ids : i = cli[p].id /\ file[i] = "torn" /\ file'[i] = "torn"
    BY <1>2, RewritingFile
  <2>2. \A j \in Ids : Viewed(j) /\ Viewed(j)'
    <3>1. Views
      BY ViewsHold
    <3>2. Views'
      BY ViewsHold, PTL
    <3> QED BY <3>1, <3>2 DEF Views
  <2>3. Begins(cli[p], i) \/ Holds(cli[p], i)
    BY <1>2, <2>1 DEF Begins, Holds, Rewriting
  <2>4. Life(i) # "lost"
    BY <1>2, <2>1, <2>2, <2>3, RewritingFile DEF Viewed, Session, Status
  <2>5. \A q \in Procs : ~Begins(cli'[q], i) /\ ~Holds(cli'[q], i)
    <3>1. ~Begins(cli'[p], i) /\ ~Holds(cli'[p], i)
      BY DEF Begins, Holds, Rewriting
    <3>2. ASSUME NEW q \in Procs \ {p}, Begins(cli[q], i) \/ Holds(cli[q], i) PROVE FALSE
      <4>1. cli[q].id = i /\ cli[q].pc # "idle" /\ cli[p].pc # "idle"
        BY <1>2, <3>2 DEF Begins, Holds, Rewriting
      <4> QED BY <2>1, <4>1, OneWorker
    <3> QED BY <3>1, <3>2
  <2>6. Life(i)' = "lost" /\ Contents(i)' = Blank
    BY <2>1, <2>2, <2>5 DEF Viewed
  <2>7. \A j \in Ids \ {i} : Same(j)
    <3> SUFFICES ASSUME NEW j \in Ids \ {i} PROVE Same(j)
      OBVIOUS
    <3>1. /\ ~Begins(cli[p], j) /\ ~Begins(cli'[p], j)
          /\ ~Holds(cli[p], j) /\ ~Holds(cli'[p], j)
      BY <2>1 DEF Begins, Holds, Rewriting
    <3> QED BY <3>1, LifeKept
  <2>8. \A j \in Ids : Contents(j) \in Session
    BY <2>2 DEF Viewed
  <2>9. Contents(i).changes' = <<>>
    BY <2>6 DEF Blank
  <2> QED BY <2>4, <2>6, <2>7, <2>8, <2>9, OneLife
<1> QED BY <1>1, <1>2

\* A step on one session leaves the others as they were.
LEMMA LifeElse ==
    ASSUME NEW p \in Procs, \A q \in Procs \ {p} : cli'[q] = cli[q], NEW i \in Ids,
           \A j \in Ids \ {i} : file'[j] = file[j] /\ journal'[j] = journal[j],
           NEW c, c = cli[p], NEW e, e = cli'[p],
           \A x \in {c, e} : x.pc \in Rewriting => x.id = i
    PROVE  \A j \in Ids \ {i} : Same(j)
<1> SUFFICES ASSUME NEW j \in Ids \ {i} PROVE Same(j)
  OBVIOUS
<1>1. ~Begins(c, j) /\ ~Begins(e, j) /\ ~Holds(c, j) /\ ~Holds(e, j)
  BY DEF Begins, Holds, Rewriting
<1> QED BY <1>1, LifeKept

LEMMA BothViews ==
    ASSUME CalmInv, CalmInv', raced = {}, raced' = {}
    PROVE  \A j \in Ids : Viewed(j) /\ Viewed(j)' /\ Contents(j) \in Session
<1>1. Views
  BY ViewsHold
<1>2. Views'
  BY ViewsHold, PTL
<1> QED BY <1>1, <1>2 DEF Views, Viewed

LEMMA LostBlank ==
    ASSUME CalmInv, raced = {}, NEW i \in Ids, Viewed(i), Life(i) = "lost"
    PROVE  Contents(i) = Blank
<1>1. file[i] \in FileState /\ (file[i] = "whole" => journal[i].status # "lost")
  BY DEF CalmInv, OpenInv, GoneInv, OwnInv, TypeInv, TypeOK, Session, Status
<1>2. \A q \in Procs : ~(file[i] = "torn" /\ Begins(cli[q], i))
  BY DEF Viewed
<1>3. \A q \in Procs : ~(file[i] = "torn" /\ Holds(cli[q], i))
  <2> SUFFICES ASSUME NEW q \in Procs, file[i] = "torn", Holds(cli[q], i) PROVE FALSE
    OBVIOUS
  <2>1. cli[q].mem \in Session
    BY RewritingFile DEF Holds, Rewriting
  <2> QED BY <2>1 DEF Viewed, Session, Status
<1> QED BY <1>1, <1>2, <1>3 DEF Viewed, FileState

\* What the processes other than p hold does not change when p goes to e.
LEMMA GoesTo ==
    ASSUME CalmInv, NEW p \in Procs, NEW e, Goto(p, e)
    PROVE  cli'[p] = e /\ \A q \in Procs \ {p} : cli'[q] = cli[q]
BY DEF Goto, CalmInv, OpenInv, GoneInv, OwnInv, TypeInv, TypeOK

\* A begin: the session is born when its journal has been filled.
LEMMA LifeBegins ==
    ASSUME CalmInv, CalmInv', raced = {}, raced' = {}, NEW p \in Procs,
           (\E i \in Ids : BeginCreate(p, i)) \/ BeginFill(p) \/ BeginCleanup(p)
    PROVE  [Abstract!Next]_(Abstract!vars)
<1>1. PICK c, k : c = cli[p] /\ k = Key(p)
  OBVIOUS
<1>2. c.pc \in {"create", "fill", "cleanup"}
  BY <1>1 DEF BeginCreate, BeginFill, BeginCleanup
<1>3. /\ c \in Cli /\ CliOK(c) /\ Plain(c) /\ LocalOpen(c) /\ Calm(c, k)
      /\ file \in [Ids -> FileState] /\ journal \in [Ids -> Session]
  BY <1>1, <1>2, AtWorkFacts DEF TypeInv, TypeOK
<1>4. CASE \E i \in Ids : BeginCreate(p, i)
  <2>1. PICK i \in Ids : BeginCreate(p, i)
    BY <1>4
  <2>2. PICK e : e = [c EXCEPT !.pc = "fill", !.id = i]
    OBVIOUS
  <2>3. /\ e.pc = "fill" /\ e.id = i /\ c.pc = "create" /\ Goto(p, e)
        /\ file[i] = "unused" /\ file'[i] = "torn"
        /\ \A j \in Ids \ {i} : file'[j] = file[j] /\ journal'[j] = journal[j]
    BY <1>1, <1>3, <2>1, <2>2 DEF BeginCreate, Cli
  <2>4. cli'[p] = e /\ \A q \in Procs \ {p} : cli'[q] = cli[q]
    BY <2>3, GoesTo
  <2>5. \A j \in Ids \ {i} : Same(j)
    BY <1>1, <2>3, <2>4, LifeElse DEF Rewriting
  <2>6. Life(i) = "unborn" /\ Contents(i) = Blank
    BY <2>3, BothViews DEF Viewed
  <2>7. Begins(e, i)
    BY <2>3 DEF Begins
  <2>8. Life(i)' = "unborn" /\ Contents(i)' = Blank
    BY <2>3, <2>4, <2>7, BothViews DEF Viewed
  <2> QED BY <2>5, <2>6, <2>8, BothViews, OneLife DEF Same
<1>5. CASE BeginFill(p)
  <2>1. PICK i, e : i = c.id /\ e = [c EXCEPT !.pc = "lockopen"]
    OBVIOUS
  <2>2. /\ c.pc = "fill" /\ i \in Ids /\ e.pc = "lockopen" /\ e.id = i /\ Goto(p, e)
        /\ file'[i] = "whole" /\ journal'[i] = c.mem
        /\ \A j \in Ids \ {i} : file'[j] = file[j] /\ journal'[j] = journal[j]
    BY <1>1, <1>3, <1>5, <2>1 DEF BeginFill, Cli, CliOK, StageOK, WithSession
  <2>3. cli'[p] = e /\ \A q \in Procs \ {p} : cli'[q] = cli[q]
    BY <2>2, GoesTo
  <2>4. \A j \in Ids \ {i} : Same(j)
    <3>1. \A x \in {c, e} : x.pc \in Rewriting => x.id = i
      BY <2>1, <2>2 DEF Rewriting
    <3> QED BY <1>1, <2>2, <2>3, <3>1, LifeElse
  <2>5. file[i] = "torn" /\ c.mem.status = "active" /\ c.mem.changes = <<>>
    BY <1>3, <2>1, <2>2 DEF Calm, CopyCalm, LocalOpen, Plain, Starting
  <2>6. Begins(c, i)
    BY <2>1, <2>2 DEF Begins
  <2>7. Life(i) = "unborn" /\ Contents(i) = Blank
    BY <1>1, <2>2, <2>5, <2>6, BothViews DEF Viewed
  <2>8. Life(i)' = "active" /\ Contents(i)' = c.mem
    BY <2>2, <2>5, BothViews DEF Viewed
  <2>9. Contents(i).changes' = Contents(i).changes
    BY <2>5, <2>7, <2>8 DEF Blank
  <2> QED BY <2>2, <2>4, <2>7, <2>8, <2>9, BothViews, OneLife
<1>6. CASE BeginCleanup(p)
  <2>1. PICK i : i = c.id
    OBVIOUS
  <2>2. /\ c.pc = "cleanup" /\ i \in Ids /\ Goto(p, Idle) /\ file'[i] = "absent"
        /\ \A j \in Ids \ {i} : file'[j] = file[j] /\ journal'[j] = journal[j]
    BY <1>1, <1>3, <1>6, <2>1 DEF BeginCleanup, Cli, CliOK, StageOK, WithSession, Done
  <2>3. cli'[p] = Idle /\ \A q \in Procs \ {p} : cli'[q] = cli[q]
    BY <2>2, GoesTo
  <2>4. \A j \in Ids \ {i} : Same(j)
    BY <1>1, <2>2, <2>3, IdlePlain, LifeElse DEF Rewriting
  <2>5. Life(i)' = "lost" /\ Contents(i)' = Blank
    BY <2>2, BothViews DEF Viewed
  <2>6. Same(i) \/ Life(i) # "lost"
    BY <2>2, <2>5, BothViews, LostBlank DEF Same
  <2>7. Contents(i).changes' = <<>>
    BY <2>5 DEF Blank
  <2> QED BY <2>2, <2>4, <2>5, <2>6, <2>7, BothViews, OneLife
<1> QED BY <1>4, <1>5, <1>6

\* The truncation of the journal: the session takes the change, is closed, or is only
\* written again.
LEMMA LifeSaveOpen ==
    ASSUME CalmInv, CalmInv', raced = {}, raced' = {}, NEW p \in Procs, SaveOpen(p)
    PROVE  [Abstract!Next]_(Abstract!vars)
<1>1. PICK c, k, i, e : /\ c = cli[p] /\ k = Key(p) /\ i = c.id
                        /\ e = [c EXCEPT !.pc = "savefill"]
  OBVIOUS
<1>2. /\ c.pc = "saveopen" /\ c \in Cli /\ CliOK(c) /\ Plain(c) /\ LocalOpen(c) /\ Calm(c, k)
      /\ c.mem \in Session /\ i \in Ids
  <2>1. c.pc = "saveopen"
    BY <1>1 DEF SaveOpen
  <2> QED BY <1>1, <2>1, AtWorkFacts DEF CliOK, StageOK, Cli, WithSession
<1>3. /\ Goto(p, e) /\ e.pc = "savefill" /\ e.id = i /\ e.mem = c.mem
      /\ file'[i] = "torn"
      /\ \A j \in Ids \ {i} : file'[j] = file[j] /\ journal'[j] = journal[j]
  <2>1. file \in [Ids -> FileState]
    BY DEF CalmInv, OpenInv, GoneInv, OwnInv, TypeInv, TypeOK
  <2> QED BY <1>1, <1>2, <2>1 DEF SaveOpen, Cli
<1>4. cli'[p] = e /\ \A q \in Procs \ {p} : cli'[q] = cli[q]
  BY <1>3, GoesTo
<1>5. \A j \in Ids \ {i} : Same(j)
  <2>1. \A x \in {c, e} : x.pc \in Rewriting => x.id = i
    BY <1>1, <1>3
  <2>2. c = cli[p] /\ i \in Ids
    BY <1>1, <1>2
  <2> QED BY <1>3, <1>4, <2>1, <2>2, LifeElse
<1>6. Life(i)' = c.mem.status /\ Contents(i)' = c.mem
  <2>1. Holds(e, i)
    BY <1>3 DEF Holds
  <2> QED BY <1>2, <1>3, <1>4, <2>1, BothViews DEF Viewed
<1>7. Holds(c, i) /\ (file[i] = "whole" => Life(i) = journal[i].status /\ Contents(i) = journal[i])
  BY <1>1, <1>2, BothViews DEF Holds, Viewed
<1>8. CASE c.op = "record"
  <2>1. /\ file[i] = "whole" /\ journal[i].status = "active" /\ c.mem.status = "active"
        /\ c.mem.changes = Append(journal[i].changes, c.chg) /\ c.chg \in Changes
    BY <1>1, <1>2, <1>8 DEF Calm, CopyCalm, LocalOpen, CliOK, StageOK
  <2>2. PICK o \in [Ids -> Keys \cup {None}] : Owned(o)
    BY DEF CalmInv, OpenInv, GoneInv, OwnInv
  <2>3. Sanitize[applied[c.chg]] = k
    BY <1>1, <1>2, <1>8 DEF Plain, Key
  <2>4. c.chg \in Entries(c.mem)
    <3>1. journal[i].changes \in Seq(Changes)
      BY <1>2 DEF CalmInv, OpenInv, GoneInv, OwnInv, TypeInv, TypeOK, Session
    <3>2. c.mem.changes = Append(journal[i].changes, c.chg) /\ c.chg \in Changes
      BY <2>1
    <3>3. Entries(c.mem) = Entries(journal[i]) \cup {c.chg}
      BY <3>1, <3>2, AppendEntries
    <3> QED BY <3>3
  <2>5. ASSUME NEW j \in Ids, c.chg \in Entries(journal[j]) PROVE FALSE
    BY <1>1, <1>2, <1>8, <2>4, <2>5 DEF Calm, WriteCalm, ApartCalm
  <2>6. ASSUME NEW j \in Ids, c.chg \in Entries(Contents(j)) PROVE FALSE
    <3>1. CASE Savers(j) # {} /\ file[j] = "torn"
      <4>1. PICK q \in Procs : q \in Savers(j) /\ Contents(j) = cli[q].mem
        BY <3>1 DEF Contents, Savers
      <4>2. cli[q].id = j /\ cli[q].pc # "idle" /\ cli[q].dev \in Devices
        BY <4>1, AtWorkFacts DEF Savers
      <4>3. Sanitize[cli[q].dev] = k
        BY <2>2, <2>3, <2>6, <4>1, EntryKeys DEF CalmInv, OpenInv, GoneInv, OwnInv, Slots
      <4>4. k \in Keys /\ AtWork(cli[q], k) /\ AtWork(cli[p], k)
        BY <1>1, <1>2, <4>2, <4>3, AtWorkFacts DEF AtWork
      <4>5. q = p
        BY <4>4 DEF CalmInv, PlainInv, Alone
      <4> QED BY <1>1, <2>1, <3>1, <4>2, <4>5
    <3>2. CASE ~(Savers(j) # {} /\ file[j] = "torn")
      BY <2>5, <2>6, <3>2 DEF Contents
    <3> QED BY <3>1, <3>2
  <2>7. /\ Life(i) = "active" /\ Life(i)' = "active"
        /\ Contents(i).changes' = Append(Contents(i).changes, c.chg)
    BY <1>6, <1>7, <2>1
  <2> QED BY <1>2, <1>5, <2>1, <2>6, <2>7, BothViews, OneLife
<1>9. CASE c.op # "record"
  <2>1. \/ /\ file[i] = "whole" /\ journal[i].changes = c.mem.changes
           /\ \/ journal[i].status = c.mem.status
              \/ c.mem.status = "rolled_back"
              \/ journal[i].status = "active" /\ c.mem.status = "committed"
        \/ file[i] = "torn"
    BY <1>1, <1>2, <1>9 DEF Calm, CopyCalm, Mirrored, Wrecked, Plain, Saving
  <2>2. CASE file[i] = "torn"
    <3>1. Life(i) = c.mem.status /\ Contents(i) = c.mem
      BY <1>1, <1>2, <1>7, <2>2, BothViews DEF Viewed
    <3> QED BY <1>2, <1>5, <1>6, <3>1, BothViews, OneLife DEF Same
  <2>3. CASE file[i] = "whole"
    <3>1. journal[i].status \in Status /\ c.mem.status \in Status
      BY <1>2 DEF Session, CalmInv, OpenInv, GoneInv, OwnInv, TypeInv, TypeOK
    <3>2. Contents(i).changes' = Contents(i).changes
      BY <1>6, <1>7, <2>1, <2>3
    <3>3. CASE journal[i].status = c.mem.status
      <4>1. Life(i)' = Life(i)
        BY <1>6, <1>7, <2>3, <3>3
      <4>2. \A j \in Ids : Life(j)' = Life(j) /\ Contents(j).changes' = Contents(j).changes
        BY <1>5, <3>2, <4>1 DEF Same
      <4> QED BY <4>2 DEF Abstract!vars
    <3>4. CASE journal[i].status # c.mem.status
      <4>1. \/ Life(i) = "active" /\ Life(i)' \in {"committed", "rolled_back"}
            \/ Life(i) = "committed" /\ Life(i)' = "rolled_back"
        BY <1>6, <1>7, <2>1, <2>3, <3>1, <3>4 DEF Status
      <4> QED BY <1>2, <1>5, <3>2, <4>1, BothViews, OneLife
    <3> QED BY <3>3, <3>4
  <2> QED BY <2>1, <2>2, <2>3
<1> QED BY <1>8, <1>9

\* The journal is whole again, with what the process held.
LEMMA LifeSaveFill ==
    ASSUME CalmInv, CalmInv', raced = {}, raced' = {}, NEW p \in Procs, SaveFill(p)
    PROVE  [Abstract!Next]_(Abstract!vars)
<1>1. PICK c, k, i, e : c = cli[p] /\ k = Key(p) /\ i = c.id /\ e = AfterSave(c)
  OBVIOUS
<1>2. c.pc = "savefill" /\ c \in Cli /\ Calm(c, k) /\ i \in Ids
  <2>1. c.pc = "savefill"
    BY <1>1 DEF SaveFill
  <2> QED BY <1>1, <2>1, AtWorkFacts DEF CliOK, StageOK, WithSession
<1>3. /\ Goto(p, e) /\ (e.pc \in Rewriting => e.id = i)
      /\ file'[i] = "whole" /\ journal'[i] = c.mem
      /\ \A j \in Ids \ {i} : file'[j] = file[j] /\ journal'[j] = journal[j]
  <2>1. file \in [Ids -> FileState] /\ journal \in [Ids -> Session]
    BY DEF CalmInv, OpenInv, GoneInv, OwnInv, TypeInv, TypeOK
  <2>2. e.pc \in Rewriting => e.id = i
    BY <1>1, <1>2, IdlePlain DEF AfterSave, Cli, Rewriting
  <2> QED BY <1>1, <1>2, <2>1, <2>2 DEF SaveFill
<1>4. cli'[p] = e /\ \A q \in Procs \ {p} : cli'[q] = cli[q]
  BY <1>3, GoesTo
<1>5. \A j \in Ids \ {i} : Same(j)
  <2>1. \A x \in {c, e} : x.pc \in Rewriting => x.id = i
    BY <1>1, <1>3
  <2>2. c = cli[p] /\ i \in Ids
    BY <1>1, <1>2
  <2> QED BY <1>3, <1>4, <2>1, <2>2, LifeElse
<1>6. file[i] = "torn" /\ Holds(c, i)
  BY <1>1, <1>2 DEF Calm, CopyCalm, Holds
<1>7. Life(i) = c.mem.status /\ Contents(i) = c.mem
  BY <1>1, <1>2, <1>6, BothViews DEF Viewed
<1>8. Life(i)' = c.mem.status /\ Contents(i)' = c.mem
  BY <1>2, <1>3, BothViews DEF Viewed
<1> QED BY <1>2, <1>5, <1>7, <1>8, BothViews, OneLife DEF Same

\* A removal loses every session of its device at once.
LEMMA LifePurge ==
    ASSUME CalmInv, CalmInv', raced = {}, raced' = {}, NEW p \in Procs, PurgeJournals(p)
    PROVE  [Abstract!Next]_(Abstract!vars)
<1>1. PICK gone : gone = {i \in Ids : file[i] = "whole" /\ journal[i].dev = cli[p].dev}
  OBVIOUS
<1>2. /\ Goto(p, Idle) /\ cli[p].pc = "purge"
      /\ \A i \in gone : file[i] = "whole" /\ file'[i] = "absent"
      /\ \A i \in Ids \ gone : file'[i] = file[i] /\ journal'[i] = journal[i]
      /\ gone \subseteq Ids
  BY <1>1 DEF PurgeJournals, Done
<1>3. cli'[p] = Idle /\ \A q \in Procs \ {p} : cli'[q] = cli[q]
  BY <1>2, GoesTo
<1>4. \A j \in Ids \ gone : Same(j)
  <2> SUFFICES ASSUME NEW j \in Ids \ gone PROVE Same(j)
    OBVIOUS
  <2>1. /\ ~Begins(cli[p], j) /\ ~Begins(cli'[p], j)
        /\ ~Holds(cli[p], j) /\ ~Holds(cli'[p], j)
    BY <1>2, <1>3, IdlePlain DEF Begins, Holds
  <2> QED BY <1>2, <1>3, <2>1, LifeKept
<1>5. \A j \in gone : Life(j) # "lost" /\ Life(j)' = "lost" /\ Contents(j).changes' = <<>>
  <2> SUFFICES ASSUME NEW j \in gone
               PROVE  Life(j) # "lost" /\ Life(j)' = "lost" /\ Contents(j).changes' = <<>>
    OBVIOUS
  <2>1. Viewed(j) /\ Viewed(j)' /\ j \in Ids
    BY <1>2, BothViews
  <2>2. Life(j) # "lost"
    BY <1>2, <2>1 DEF Viewed, Session, Status
  <2>3. Life(j)' = "lost" /\ Contents(j)' = Blank
    BY <1>2, <2>1 DEF Viewed
  <2> QED BY <2>2, <2>3 DEF Blank
<1>6. CASE gone = {}
  <2>1. UNCHANGED Abstract!vars
    BY <1>4, <1>6 DEF Same, Abstract!vars
  <2> QED BY <2>1
<1>7. CASE gone # {}
  <2>1. Abstract!Lose(gone)
    BY <1>2, <1>4, <1>5 DEF Abstract!Lose, Same
  <2>2. Abstract!vars' # Abstract!vars
    <3>1. PICK j \in gone : TRUE
      BY <1>7
    <3>2. j \in Ids /\ Life(j)' # Life(j)
      BY <1>2, <1>5
    <3> QED BY <3>2 DEF Abstract!vars
  <2>3. gone \in (SUBSET {i \in Ids : Life(i) # "lost"}) \ {{}}
    BY <1>2, <1>5, <1>7
  <2> QED BY <2>1, <2>2, <2>3 DEF Abstract!Next
<1> QED BY <1>6, <1>7

\* Marking a rollback shows only when the journal was torn already.
LEMMA LifeMarked ==
    ASSUME CalmInv, CalmInv', raced = {}, raced' = {}, NEW p \in Procs, MarkRolledBack(p)
    PROVE  [Abstract!Next]_(Abstract!vars)
<1>1. PICK c, i, e : /\ c = cli[p] /\ i = c.id
                     /\ e = [c EXCEPT !.pc = "saveopen", !.mem.status = "rolled_back",
                                      !.mem.pending = FALSE]
  OBVIOUS
<1>2. /\ c.pc = "undo" /\ c \in Cli /\ c.mem \in Session /\ i \in Ids /\ file[i] \in {"whole", "torn"}
  <2>1. c.pc = "undo"
    BY <1>1 DEF MarkRolledBack
  <2> QED BY <1>1, <2>1, AtWorkFacts, RewritingFile DEF Rewriting
<1>3. /\ Goto(p, e) /\ e.pc = "saveopen" /\ e.id = i /\ UNCHANGED <<file, journal>>
      /\ e.mem.status = "rolled_back" /\ e.mem.changes = c.mem.changes
  BY <1>1, <1>2 DEF MarkRolledBack, Cli, Session, files
<1>4. cli'[p] = e /\ \A q \in Procs \ {p} : cli'[q] = cli[q]
  BY <1>3, GoesTo
<1>5. CASE file[i] = "whole"
  <2>1. \A x \in {c, e} : x.pc \in Rewriting /\ x.id \in Ids => file[x.id] = "whole"
    BY <1>1, <1>3, <1>5
  <2>2. c = cli[p] /\ e = cli'[p]
    BY <1>1, <1>4
  <2> QED BY <1>3, <1>4, <2>1, <2>2, LifeStill
<1>6. CASE file[i] = "torn"
  <2>1. Holds(c, i) /\ Holds(e, i)
    BY <1>1, <1>2, <1>3 DEF Holds
  <2>2. Life(i) = c.mem.status /\ Contents(i) = c.mem
    BY <1>1, <1>2, <1>6, <2>1, BothViews DEF Viewed
  <2>3. Life(i)' = e.mem.status /\ Contents(i)' = e.mem
    BY <1>2, <1>3, <1>4, <1>6, <2>1, BothViews DEF Viewed
  <2>4. \A j \in Ids \ {i} : Same(j)
    <3>1. \A x \in {c, e} : x.pc \in Rewriting => x.id = i
      BY <1>1, <1>3
    <3>2. c = cli[p] /\ e = cli'[p]
      BY <1>1, <1>4
    <3> QED BY <1>2, <1>3, <1>4, <3>1, <3>2, LifeElse
  <2>5. Contents(i).changes' = Contents(i).changes
    BY <1>3, <2>2, <2>3
  <2>6. Life(i) \in Status /\ Life(i)' = "rolled_back"
    BY <1>2, <1>3, <2>2, <2>3 DEF Session
  <2>7. CASE Life(i) = "rolled_back"
    <3>1. \A j \in Ids : Life(j)' = Life(j) /\ Contents(j).changes' = Contents(j).changes
      BY <2>4, <2>5, <2>6, <2>7 DEF Same
    <3> QED BY <3>1 DEF Abstract!vars
  <2>8. CASE Life(i) # "rolled_back"
    BY <1>2, <2>4, <2>5, <2>6, <2>8, BothViews, OneLife DEF Status
  <2> QED BY <2>7, <2>8
<1> QED BY <1>2, <1>5, <1>6

\* A new process works on no session yet.
LEMMA LifeStarts ==
    ASSUME CalmInv, CalmInv', raced = {}, raced' = {}, NEW p \in Procs,
           \E d \in Devices :
               \/ \E safe \in SafeModes : StartBegin(p, d, safe)
               \/ \E op \in Op : StartCommand(p, op, d)
               \/ StartForcedRemove(p, d)
    PROVE  [Abstract!Next]_(Abstract!vars)
<1>1. PICK e : Start(p, e) /\ e.pc \notin Rewriting
  <2> USE DEF Rewriting
  <2>1. PICK d \in Devices :
            \/ \E safe \in SafeModes : StartBegin(p, d, safe)
            \/ \E op \in Op : StartCommand(p, op, d)
            \/ StartForcedRemove(p, d)
    OBVIOUS
  <2>2. CASE \E safe \in SafeModes : StartBegin(p, d, safe)
    <3>1. PICK safe \in SafeModes : StartBegin(p, d, safe)
      BY <2>2
    <3>2. PICK e : e = [Idle EXCEPT !.pc = "stat", !.op = "begin", !.dev = d,
                                    !.mem = [Blank EXCEPT !.dev = d, !.safe = safe]]
      OBVIOUS
    <3>3. e.pc = "stat"
      BY <3>2 DEF Idle
    <3> QED BY <3>1, <3>2, <3>3 DEF StartBegin
  <2>3. CASE \E op \in Op : StartCommand(p, op, d)
    <3>1. PICK op \in Op : StartCommand(p, op, d)
      BY <2>3
    <3>2. PICK e : e = [Idle EXCEPT !.pc = "readlock", !.op = op, !.dev = d]
      OBVIOUS
    <3>3. e.pc = "readlock"
      BY <3>2 DEF Idle
    <3> QED BY <3>1, <3>2, <3>3 DEF StartCommand
  <2>4. CASE StartForcedRemove(p, d)
    <3>1. PICK e : e = [Idle EXCEPT !.pc = "forget", !.op = "remove", !.dev = d]
      OBVIOUS
    <3>2. e.pc = "forget"
      BY <3>1 DEF Idle
    <3> QED BY <2>4, <3>1, <3>2 DEF StartForcedRemove
  <2> QED BY <2>1, <2>2, <2>3, <2>4
<1>2. Goto(p, e) /\ UNCHANGED <<file, journal>>
  BY <1>1 DEF Start, files
<1>3. cli'[p] = e /\ \A q \in Procs \ {p} : cli'[q] = cli[q]
  BY <1>2, GoesTo
<1> QED BY <1>1, <1>2, <1>3, LifeEnds

\* Reading the lock and the journal: an answer that is acted on comes from a whole one.
LEMMA LifeReads ==
    ASSUME CalmInv, CalmInv', raced = {}, raced' = {}, NEW p \in Procs,
           ReadLock(p) \/ ReadJournal(p)
    PROVE  [Abstract!Next]_(Abstract!vars)
<1>1. PICK c, i : c = cli[p] /\ i = c.id
  OBVIOUS
<1>2. /\ c.pc \in {"readlock", "readjournal"} /\ c \in Cli /\ UNCHANGED <<file, journal>>
      /\ c.pc = "readlock" => c.id = None
  <2>1. c.pc \in {"readlock", "readjournal"} /\ UNCHANGED <<file, journal>>
    BY <1>1 DEF ReadLock, ReadJournal, files
  <2> QED BY <1>1, <2>1, AtWorkFacts DEF CliOK, StageOK
<1>3. PICK e : /\ Goto(p, e)
               /\ e.pc \in Rewriting /\ e.id \in Ids => file[e.id] = "whole"
  <2> USE DEF Rewriting
  <2>1. \A d \in Cli : Proceed(d).id \in {d.id, None}
    BY IdlePlain DEF Proceed, CheckWrite, RecordChange, Cli, Idle
  <2>2. \A d \in Cli : ProceedOnError(d).pc \notin Rewriting
    BY IdlePlain DEF ProceedOnError, Cli
  <2>3. CASE ReadLock(p)
    <3>1. CASE Goto(p, [c EXCEPT !.pc = "readjournal", !.id = lock[Key(p)]])
      <4>1. PICK e : e = [c EXCEPT !.pc = "readjournal", !.id = lock[Key(p)]]
        OBVIOUS
      <4>2. e.pc = "readjournal"
        BY <1>2, <4>1 DEF Cli
      <4> QED BY <3>1, <4>1, <4>2
    <3>2. CASE Goto(p, Proceed(c))
      <4>1. c.id = None
        BY <1>1, <1>2, <2>3 DEF ReadLock
      <4>2. Proceed(c).id \notin Ids
        BY <1>2, <2>1, <4>1, StoreAssumption
      <4> QED BY <3>2, <4>2
    <3>3. CASE Goto(p, ProceedOnError(c))
      BY <1>2, <2>2, <3>3
    <3> QED BY <1>1, <2>3, <3>1, <3>2, <3>3 DEF ReadLock
  <2>4. CASE ReadJournal(p)
    <3>1. CASE file[i] = "whole"
      <4>1. PICK d : d = [c EXCEPT !.mem = journal[i]]
        OBVIOUS
      <4>2. d \in Cli /\ d.id = i /\ Goto(p, Proceed(d))
        <5>1. i \in Ids
          BY <1>1, <1>2, <2>4, AtWorkFacts DEF ReadJournal, CliOK, StageOK, WithSession
        <5>2. journal[i] \in Session
          BY <5>1 DEF CalmInv, OpenInv, GoneInv, OwnInv, TypeInv, TypeOK
        <5> QED BY <1>1, <1>2, <2>4, <3>1, <4>1, <5>2 DEF ReadJournal, Cli
      <4>3. Proceed(d).id \in {i, None}
        BY <2>1, <4>2
      <4> QED BY <3>1, <4>2, <4>3, StoreAssumption
    <3>2. CASE file[i] # "whole"
      BY <1>1, <1>2, <2>2, <2>4, <3>2 DEF ReadJournal
    <3> QED BY <3>1, <3>2
  <2> QED BY <2>3, <2>4
<1>4. cli'[p] = e /\ \A q \in Procs \ {p} : cli'[q] = cli[q]
  BY <1>3, GoesTo
<1>5. \A x \in {c, e} : x.pc \in Rewriting /\ x.id \in Ids => file[x.id] = "whole"
  BY <1>2, <1>3 DEF Rewriting
<1>6. c = cli[p] /\ e = cli'[p]
  BY <1>1, <1>4
<1> QED BY <1>2, <1>4, <1>5, <1>6, LifeStill

\* The other steps of a command go on with its copy, or stop with it.
LEMMA LifeOther ==
    ASSUME CalmInv, CalmInv', raced = {}, raced' = {}, NEW p \in Procs,
           \/ BeginStat(p) \/ BeginLockOpen(p) \/ BeginLockFill(p)
           \/ \E d \in Changes : RouterWrite(p, d) \/ AmbiguousWrite(p, d)
           \/ Unlock(p) \/ Undo(p) \/ UndoFails(p) \/ LinkLost(p)
           \/ Forget(p) \/ PurgeLock(p) \/ Quit(p) \/ Crash(p) \/ IOFails(p)
    PROVE  [Abstract!Next]_(Abstract!vars)
<1>1. PICK c, k : c = cli[p] /\ k = Key(p)
  OBVIOUS
<1>2. c.pc # "idle" /\ UNCHANGED <<file, journal>>
  BY <1>1 DEF BeginStat, BeginLockOpen, BeginLockFill, RouterWrite, AmbiguousWrite, Unlock, Undo,
     UndoFails, LinkLost, Forget, PurgeLock, Quit, Crash, IOFails, Harmless, files
<1>3. c \in Cli /\ Calm(c, k)
  BY <1>1, <1>2, AtWorkFacts
<1>4. PICK e : /\ Goto(p, e)
               /\ \/ e.pc \notin Rewriting
                  \/ /\ c.id = e.id /\ c.mem = e.mem
                     /\ {c.pc, e.pc} \subseteq {"savefill", "undo", "saveopen"}
                  \/ c.pc \in {"watching", "unlock"} /\ e.id = c.id
  <2> USE DEF Rewriting
  <2>1. CASE \/ BeginStat(p) \/ BeginLockOpen(p) \/ BeginLockFill(p) \/ Forget(p) \/ PurgeLock(p)
             \/ Quit(p) \/ Crash(p)
    <3>1. \/ Goto(p, Idle)
          \/ \E x \in {"create", "lockfill", "dropunlock", "purge"} : Goto(p, [c EXCEPT !.pc = x])
      BY <1>1, <2>1
      DEF BeginStat, BeginLockOpen, BeginLockFill, Forget, PurgeLock, Quit, Crash, Done
    <3>2. \A x : [c EXCEPT !.pc = x].pc = x
      BY <1>3 DEF Cli
    <3>3. CASE Goto(p, Idle)
      BY <3>3, IdlePlain
    <3>4. CASE \E x \in {"create", "lockfill", "dropunlock", "purge"} :
                   Goto(p, [c EXCEPT !.pc = x])
      <4>1. PICK x \in {"create", "lockfill", "dropunlock", "purge"} :
                Goto(p, [c EXCEPT !.pc = x])
        BY <3>4
      <4>2. PICK e : e = [c EXCEPT !.pc = x]
        OBVIOUS
      <4> QED BY <3>2, <4>1, <4>2
    <3> QED BY <3>1, <3>3, <3>4
  <2>2. CASE \E d \in Changes : RouterWrite(p, d) \/ AmbiguousWrite(p, d)
    <3>1. PICK d \in Changes : RouterWrite(p, d) \/ AmbiguousWrite(p, d)
      BY <2>2
    <3>2. PICK e : e = [Idle EXCEPT !.pc = "readlock", !.op = "record", !.dev = cli[p].dev,
                                    !.chg = d]
      OBVIOUS
    <3>3. e.pc = "readlock"
      BY <3>2 DEF Idle
    <3> QED BY <3>1, <3>2, <3>3, IdlePlain DEF RouterWrite, AmbiguousWrite, Done
  <2>3. CASE Unlock(p)
    <3>1. Goto(p, AfterUnlock(c)) /\ c.pc = "unlock"
      BY <1>1, <2>3 DEF Unlock
    <3>2. AfterUnlock(c).pc = "idle" \/ AfterUnlock(c).id = c.id
      BY <1>3, IdlePlain DEF AfterUnlock, Cli
    <3> QED BY <3>1, <3>2
  <2>4. CASE Undo(p)
    <3>1. PICK e : e = [c EXCEPT !.pos = @ - 1]
      OBVIOUS
    <3>2. Goto(p, e) /\ c.pc = "undo" /\ e.pc = "undo" /\ e.id = c.id /\ e.mem = c.mem
      BY <1>1, <1>3, <2>4, <3>1 DEF Undo, Cli
    <3> QED BY <3>2
  <2>5. CASE UndoFails(p)
    <3>1. PICK e : e = [c EXCEPT !.pos = Len(c.mem.changes)]
      OBVIOUS
    <3>2. e.pc = c.pc /\ e.id = c.id /\ e.mem = c.mem
      BY <1>3, <3>1 DEF Cli
    <3>3. c.pc = "undo" /\ (Goto(p, Idle) \/ Goto(p, e))
      BY <1>1, <2>5, <3>1 DEF UndoFails, Done
    <3> QED BY <3>2, <3>3, IdlePlain
  <2>6. CASE LinkLost(p)
    <3>1. PICK e : /\ Goto(p, e)
                   /\ \/ e = [c EXCEPT !.pc = "saveopen", !.op = "pend", !.mem.pending = TRUE]
                      \/ e = [c EXCEPT !.pc = "undo", !.op = "autoroll",
                                       !.pos = Len(c.mem.changes)]
      BY <1>1, <2>6 DEF LinkLost
    <3>2. e.id = c.id /\ c.pc = "watching"
      BY <1>1, <1>3, <2>6, <3>1 DEF LinkLost, Cli
    <3> QED BY <3>1, <3>2
  <2>7. CASE IOFails(p)
    <3>1. Goto(p, OnIOError(c))
      BY <1>1, <2>7 DEF IOFails
    <3>2. \/ OnIOError(c).pc \in {"cleanup", "idle"}
          \/ c.pc = "unlock" /\ OnIOError(c).id = c.id
          \/ /\ c.pc \in {"saveopen", "savefill"} /\ OnIOError(c).pc = "undo"
             /\ OnIOError(c).id = c.id /\ OnIOError(c).mem = c.mem
      BY <1>3, IdlePlain DEF OnIOError, AfterUnlock, Cli
    <3> QED BY <3>1, <3>2
  <2> QED BY <2>1, <2>2, <2>3, <2>4, <2>5, <2>6, <2>7
<1>5. cli'[p] = e /\ \A q \in Procs \ {p} : cli'[q] = cli[q]
  BY <1>4, GoesTo
<1>6. c = cli[p] /\ e = cli'[p]
  BY <1>1, <1>5
<1>7. CASE e.pc \notin Rewriting
  BY <1>2, <1>5, <1>7, LifeEnds
<1>8. CASE /\ c.id = e.id /\ c.mem = e.mem
           /\ {c.pc, e.pc} \subseteq {"savefill", "undo", "saveopen"}
  BY <1>2, <1>5, <1>6, <1>8, LifeStill
<1>9. CASE c.pc \in {"watching", "unlock"} /\ e.id = c.id
  <2>1. \A x \in {c, e} : x.pc \in Rewriting /\ x.id \in Ids => file[x.id] = "whole"
    BY <1>3, <1>9 DEF Calm, CopyCalm, Current
  <2> QED BY <1>2, <1>5, <1>6, <2>1, LifeStill
<1> QED BY <1>4, <1>7, <1>8, <1>9

\* As long as no two commands overlap on a lock key, the store implements the life of
\* the sessions, crashes and failing system calls included, for every number of
\* processes, devices and sessions: what a command saves is what the journal held when
\* it was read, with one change appended or another status.  (BeginWith, AppendChange,
\* Commit, MarkRolledBack, PurgeDevice.)
THEOREM SerialLife == Spec /\ [](raced = {}) => ImplementsLife
<1>1. Init => Abstract!Init
  <2> SUFFICES ASSUME Init PROVE \A j \in Ids : Life(j) = "unborn" /\ Contents(j).changes = <<>>
    BY DEF Abstract!Init
  <2> QED BY IdlePlain DEF Init, Life, Contents
<1>2. CalmInv /\ CalmInv' /\ raced = {} /\ (raced = {})' /\ [Next]_vars =>
          [Abstract!Next]_(Abstract!vars)
  <2> SUFFICES ASSUME CalmInv, CalmInv', raced = {}, raced' = {}, [Next]_vars
               PROVE  [Abstract!Next]_(Abstract!vars)
    OBVIOUS
  <2>1. CASE UNCHANGED vars
    <3>1. UNCHANGED Abstract!vars
      BY <2>1 DEF vars, Abstract!vars, Life, Contents, Savers, Beginning
    <3> QED BY <3>1
  <2>2. CASE Next
    <3>1. PICK p \in Procs :
            \/ \E d \in Devices :
                  \/ \E safe \in SafeModes : StartBegin(p, d, safe)
                  \/ \E op \in Op : StartCommand(p, op, d)
                  \/ StartForcedRemove(p, d)
            \/ Begin(p)
            \/ ReadLock(p) \/ ReadJournal(p)
            \/ \E c \in Changes : RouterWrite(p, c) \/ AmbiguousWrite(p, c)
            \/ SaveOpen(p) \/ SaveFill(p) \/ Unlock(p)
            \/ Undo(p) \/ MarkRolledBack(p) \/ UndoFails(p) \/ LinkLost(p)
            \/ Forget(p) \/ PurgeLock(p) \/ PurgeJournals(p)
            \/ Quit(p) \/ Crash(p) \/ IOFails(p)
      BY <2>2 DEF Next
    <3>2. CASE Begin(p)
      BY <3>2, LifeBegins, LifeOther DEF Begin
    <3> QED BY <3>1, <3>2, LifeStarts, LifeReads, LifeOther, LifeSaveOpen, LifeSaveFill, LifeMarked,
         LifePurge
  <2> QED BY <2>1, <2>2
<1> QED BY <1>1, <1>2, SerialCalm, PTL DEF Spec, ImplementsLife, Abstract!Spec

\* With one command at a time none overlap.
LEMMA NeverRaced ==
    ASSUME \A p, q \in Procs : p = q
    PROVE  Spec => [](raced = {})
<1>1. Init => raced = {}
  BY DEF Init
<1>2. raced = {} /\ [Next]_vars => (raced = {})'
  <2> SUFFICES ASSUME raced = {}, [Next]_vars PROVE raced' = raced
    OBVIOUS
  <2>1. ASSUME NEW p \in Procs, NEW c, Start(p, c) PROVE raced' = raced
    <3>1. Live(Sanitize[c.dev]) = {}
      BY <2>1 DEF Start, Live
    <3> QED BY <2>1, <3>1 DEF Start
  <2>2. ASSUME NEW p \in Procs, NEW d,
               \/ \E safe : StartBegin(p, d, safe)
               \/ \E op : StartCommand(p, op, d)
               \/ StartForcedRemove(p, d)
        PROVE  raced' = raced
    BY <2>1, <2>2 DEF StartBegin, StartCommand, StartForcedRemove
  <2>3. ASSUME NEW p \in Procs,
               \/ Begin(p) \/ ReadLock(p) \/ ReadJournal(p)
               \/ \E c \in Changes : RouterWrite(p, c) \/ AmbiguousWrite(p, c)
               \/ SaveOpen(p) \/ SaveFill(p) \/ Unlock(p)
        PROVE  raced' = raced
    BY <2>3 DEF Begin, BeginStat, BeginCreate, BeginFill, BeginLockOpen, BeginLockFill,
         BeginCleanup, ReadLock, ReadJournal, RouterWrite, AmbiguousWrite, SaveOpen, SaveFill,
         Unlock, history
  <2>4. ASSUME NEW p \in Procs,
               \/ Undo(p) \/ MarkRolledBack(p) \/ UndoFails(p) \/ LinkLost(p)
               \/ Forget(p) \/ PurgeLock(p) \/ PurgeJournals(p)
               \/ Quit(p) \/ Crash(p) \/ IOFails(p)
        PROVE  raced' = raced
    BY <2>4 DEF Undo, MarkRolledBack, UndoFails, LinkLost, Forget, PurgeLock, PurgeJournals,
         Quit, Crash, IOFails, history
  <2>5. CASE UNCHANGED vars
    BY <2>5 DEF vars
  <2> QED BY <2>2, <2>3, <2>4, <2>5 DEF Next
<1> QED BY <1>1, <1>2, PTL DEF Spec

\* So commands that run one after the other implement the life of the sessions, whatever
\* crashes and fails among them.
THEOREM OneAtATime ==
    ASSUME \A p, q \in Procs : p = q
    PROVE  Spec => ImplementsLife
BY NeverRaced, SerialLife, PTL

(***************************************************************************)
(* Part 6.  LockIsUsable.  A lock is there for a session that can be ended   *)
(* unless a command was cut short while it wrote one of the two files; the   *)
(* command that is about to name a session in the lock has filled its        *)
(* journal, and the one that deletes journals has removed the lock.          *)
(***************************************************************************)

\* Stages between the truncation of a file and its filling, or before the removal
\* of the lock of a closed session.
Midway == {"lockfill", "savefill", "unlock"}

\* Stages that rely on what the command did before.
Relying == {"lockopen", "lockfill", "purge"}

Leads(k) ==
    \/ lock[k] \in Ids /\ Open(lock[k]) /\ Sanitize[journal[lock[k]].dev] = k
    \/ k \in cut /\ (lock[k] = Empty \/ file[lock[k]] = "torn")
    \/ k \in stuck /\ lock[k] \in Ids /\ Closed(lock[k])

Prepared(c, k) ==
    /\ c.pc \in {"lockopen", "lockfill"} => file[c.id] = "whole"
    /\ c.pc = "purge" => lock[k] = Absent

UsableAt(k) ==
    /\ lock[k] # Absent => Leads(k) \/ \E c \in Slots : AtWork(c, k) /\ c.pc \in Midway
    /\ \A c \in Slots : AtWork(c, k) => Prepared(c, k)

UsableInv == CalmInv /\ \A k \in Keys \ raced : UsableAt(k)

\* What a step of process p under key h leaves alone when p goes on as e.
Moved(p, e, h) ==
    /\ Goto(p, e) /\ h \in Keys
    /\ cli[p].pc = "idle" \/ AtWork(cli[p], h)
    /\ e.pc = "idle" \/ AtWork(e, h)
    /\ cli[p].pc # "idle" \/ e.pc # "idle"
    /\ raced \subseteq raced' /\ cut \subseteq cut' /\ stuck \subseteq stuck'
    /\ \A k \in Keys \ {h} : lock'[k] = lock[k]

\* A step under one key leaves the others alone.
LEMMA UsableElsewhere ==
    ASSUME CalmInv, NEW o, Owned(o), NEW p \in Procs, NEW e, NEW h, Moved(p, e, h),
           \A i \in Ids : \/ file'[i] = file[i] /\ journal'[i] = journal[i]
                          \/ file[i] = "unused" \/ o[i] = h,
           NEW k \in Keys \ {h}, UsableAt(k)
    PROVE  UsableAt(k)'
<1>1. cli'[p] = e /\ \A q \in Procs \ {p} : cli'[q] = cli[q]
  BY GoesTo DEF Moved
<1>2. ~AtWork(cli[p], k) /\ ~AtWork(e, k)
  BY DEF Moved, AtWork
<1>3. \A c : AtWork(c, k) => (c \in Slots <=> c \in Slots')
  <2> SUFFICES ASSUME NEW c, AtWork(c, k) PROVE c \in Slots <=> c \in Slots'
    OBVIOUS
  <2>1. \A q \in Procs : c = cli[q] \/ c = cli'[q] => cli'[q] = cli[q]
    BY <1>1, <1>2
  <2> QED BY <2>1 DEF Slots
<1>4. lock'[k] = lock[k]
  BY DEF Moved
<1>5. lock[k] \in Ids =>
          file'[lock[k]] = file[lock[k]] /\ journal'[lock[k]] = journal[lock[k]]
  BY DEF Owned, Unreferenced, Moved
<1>6. ASSUME NEW c \in Slots, AtWork(c, k), c.pc \in {"lockopen", "lockfill"}
      PROVE  file'[c.id] = file[c.id]
  <2>1. PICK q \in Procs : c = cli[q]
    BY <1>6 DEF Slots
  <2>2. c.id \in Ids /\ o[c.id] = k /\ ~Unreferenced(c.id)
    BY <1>6, <2>1, OwnFacts DEF AtWork, Key, WithSession, Unreferenced
  <2> QED BY <2>2 DEF Owned, Moved
<1>7. lock[k] # Absent /\ Leads(k) => Leads(k)'
  <2>1. lock[k] \notin Ids => lock[k] \in {Absent, Empty}
    BY DEF CalmInv, OpenInv, GoneInv, OwnInv, TypeInv, TypeOK
  <2> QED BY <1>4, <1>5, <2>1, StoreAssumption DEF Leads, Open, Closed, Moved
<1>8. ASSUME NEW c \in Slots', AtWork(c, k) PROVE Prepared(c, k)'
  BY <1>3, <1>4, <1>6, <1>8 DEF UsableAt, Prepared
<1> QED BY <1>3, <1>4, <1>7, <1>8 DEF UsableAt, AtWork

\* Under its own key, a command that has it to itself has to account for itself only.
LEMMA UsableHere ==
    ASSUME CalmInv, CalmInv', NEW p \in Procs, NEW e, NEW h, Moved(p, e, h), h \notin raced'
    PROVE  /\ \A c \in Slots' : AtWork(c, h) => c = e
           /\ \A c \in Slots : AtWork(c, h) => c = cli[p]
           /\ e \in Slots'
<1>1. cli'[p] = e /\ \A q \in Procs \ {p} : cli'[q] = cli[q]
  BY GoesTo DEF Moved
<1>2. /\ \A q, r \in Procs : q # r => ~(AtWork(cli[q], h) /\ AtWork(cli[r], h))
      /\ \A q, r \in Procs : q # r => ~(AtWork(cli'[q], h) /\ AtWork(cli'[r], h))
  <2>1. Alone /\ Alone' /\ h \notin raced /\ h \in Keys
    BY DEF CalmInv, PlainInv, Moved
  <2> QED BY <2>1 DEF Alone, AtWork
<1>3. AtWork(cli[p], h) \/ AtWork(cli'[p], h)
  BY <1>1 DEF Moved
<1>4. \A q \in Procs \ {p} : ~AtWork(cli[q], h)
  BY <1>1, <1>2, <1>3
<1> QED BY <1>1, <1>4 DEF Slots

\* A step that touches no file and is not in the middle of anything.
LEMMA UsableQuiet ==
    ASSUME UsableInv, CalmInv', NEW p \in Procs, NEW e, NEW h, Moved(p, e, h),
           UNCHANGED files, cli[p].pc \notin Midway, e.pc \notin Relying
    PROVE  UsableInv'
<1>1. PICK o \in [Ids -> Keys \cup {None}] : Owned(o)
  BY DEF UsableInv, CalmInv, OpenInv, GoneInv, OwnInv
<1>2. ASSUME NEW k \in Keys \ raced', k # h PROVE UsableAt(k)'
  <2>1. UsableAt(k)
    BY <1>2 DEF UsableInv, Moved
  <2> QED BY <1>1, <1>2, <2>1, UsableElsewhere DEF UsableInv, files
<1>3. ASSUME h \notin raced' PROVE UsableAt(h)'
  <2>1. /\ \A c \in Slots' : AtWork(c, h) => c = e
        /\ \A c \in Slots : AtWork(c, h) => c = cli[p]
    BY <1>3, UsableHere DEF UsableInv
  <2>2. UsableAt(h) /\ ~\E c \in Slots : AtWork(c, h) /\ c.pc \in Midway
    BY <1>3, <2>1 DEF UsableInv, Moved
  <2>3. Leads(h) => Leads(h)'
    BY DEF Leads, Open, Closed, Moved, files
  <2>4. \A c \in Slots' : AtWork(c, h) => Prepared(c, h)'
    BY <2>1 DEF Prepared, Relying
  <2> QED BY <2>2, <2>3, <2>4 DEF UsableAt, AtWork, files
<1> QED BY <1>2, <1>3 DEF UsableInv

\* A step under a key that leaves its lock leading somewhere, or is midway itself.
LEMMA UsableStepOf ==
    ASSUME UsableInv, CalmInv', NEW o, Owned(o), NEW p \in Procs, NEW e, NEW h, Moved(p, e, h),
           \A i \in Ids : \/ file'[i] = file[i] /\ journal'[i] = journal[i]
                          \/ file[i] = "unused" \/ o[i] = h,
           h \notin raced' =>
               /\ lock'[h] # Absent => Leads(h)' \/ (AtWork(e, h) /\ e.pc \in Midway)
               /\ Prepared(e, h)'
    PROVE  UsableInv'
<1>1. ASSUME NEW k \in Keys \ raced', k # h PROVE UsableAt(k)'
  <2>1. UsableAt(k)
    BY <1>1 DEF UsableInv, Moved
  <2> QED BY <1>1, <2>1, UsableElsewhere DEF UsableInv
<1>2. ASSUME h \notin raced' PROVE UsableAt(h)'
  <2>1. (\A c \in Slots' : AtWork(c, h) => c = e) /\ e \in Slots'
    BY <1>2, UsableHere DEF UsableInv
  <2> QED BY <1>2, <2>1 DEF UsableAt, AtWork
<1> QED BY <1>1, <1>2 DEF UsableInv

\* The steps that touch no file, of a command that is not in the middle of one.
LEMMA UsableStill ==
    ASSUME UsableInv, CalmInv', NEW p \in Procs,
           \/ BeginStat(p) \/ ReadLock(p) \/ ReadJournal(p)
           \/ \E d \in Changes : RouterWrite(p, d) \/ AmbiguousWrite(p, d)
           \/ Undo(p) \/ MarkRolledBack(p) \/ UndoFails(p) \/ LinkLost(p)
           \/ Forget(p) \/ Quit(p)
    PROVE  UsableInv'
<1> USE StoreAssumption
<1>1. PICK c, h : c = cli[p] /\ h = Key(p)
  OBVIOUS
<1>2. c.pc \in {"stat", "create", "readlock", "readjournal", "run", "watching", "undo", "forget"}
  BY <1>1 DEF BeginStat, ReadLock, ReadJournal, RouterWrite, AmbiguousWrite, Undo, MarkRolledBack,
     UndoFails, LinkLost, Forget, Quit, Harmless
<1>3. c \in Cli /\ c.pc # "idle" /\ h \in Keys /\ Sanitize[c.dev] = h /\ AtWork(cli[p], h)
  BY <1>1, <1>2, AtWorkFacts DEF UsableInv, AtWork, Key
<1>4. UNCHANGED files /\ UNCHANGED <<raced, cut, stuck>>
  BY DEF BeginStat, ReadLock, ReadJournal, RouterWrite, AmbiguousWrite, Undo, MarkRolledBack,
     UndoFails, LinkLost, Forget, Quit, history, files
<1>5. PICK e : Goto(p, e) /\ e.pc \notin Relying /\ (e.pc = "idle" \/ e.dev = c.dev)
  <2> USE DEF Relying
  <2>1. CASE Done(p)
    BY <2>1, IdlePlain DEF Done
  <2>2. CASE ReadLock(p) \/ ReadJournal(p)
    <3>1. PICK x : /\ \/ x = c
                      \/ x = [c EXCEPT !.mem = journal[c.id]] /\ c.pc = "readjournal"
                   /\ \/ Goto(p, Proceed(x)) \/ Goto(p, ProceedOnError(x))
                      \/ Goto(p, [c EXCEPT !.pc = "readjournal", !.id = lock[h]])
      BY <1>1, <2>2 DEF ReadLock, ReadJournal
    <3>2. x.dev = c.dev /\ x.pc = c.pc
      BY <1>3, <3>1 DEF Cli
    <3>3. PICK e : /\ Goto(p, e)
                   /\ e \in {Proceed(x), ProceedOnError(x),
                             [c EXCEPT !.pc = "readjournal", !.id = lock[h]]}
      BY <3>1
    <3>4. CASE e = [c EXCEPT !.pc = "readjournal", !.id = lock[h]]
      <4>1. e.pc = "readjournal" /\ e.dev = c.dev
        BY <1>3, <3>4 DEF Cli
      <4> QED BY <3>3, <4>1
    <3>5. CASE e \in {Proceed(x), ProceedOnError(x)}
      <4>1. c.pc \in {"readlock", "readjournal"} /\ x \in Cli
        <5>1. c.pc \in {"readlock", "readjournal"}
          BY <1>1, <2>2 DEF ReadLock, ReadJournal
        <5>2. c.pc = "readjournal" => c.id \in Ids
          BY <1>1, <1>3, AtWorkFacts DEF UsableInv, CliOK, StageOK, WithSession
        <5>3. c.id \in Ids => journal[c.id] \in Session
          BY DEF UsableInv, CalmInv, OpenInv, GoneInv, OwnInv, TypeInv, TypeOK
        <5> QED BY <1>3, <3>1, <5>1, <5>2, <5>3 DEF Cli
      <4>2. Steady(x, e)
        BY <3>5, <4>1, SteadyOnward
      <4>3. e.pc \notin Fresh /\ e.pc \notin Purging /\ (e.pc = "idle" \/ e.dev = c.dev)
        BY <3>2, <4>1, <4>2, IdlePlain DEF Steady, Fresh, Purging, Idle
      <4> QED BY <3>3, <4>3 DEF Fresh, Purging
    <3> QED BY <3>3, <3>4, <3>5
  <2>3. CASE \E d \in Changes : RouterWrite(p, d)
    <3>1. PICK d \in Changes : RouterWrite(p, d)
      BY <2>3
    <3>2. PICK e : e = [Idle EXCEPT !.pc = "readlock", !.op = "record", !.dev = cli[p].dev,
                                    !.chg = d]
      OBVIOUS
    <3>3. e.pc = "readlock" /\ e.dev = c.dev
      BY <1>1, <3>2 DEF Idle
    <3> QED BY <3>1, <3>2, <3>3 DEF RouterWrite
  <2>4. CASE \/ BeginStat(p) \/ Undo(p) \/ MarkRolledBack(p) \/ UndoFails(p) \/ LinkLost(p)
             \/ Forget(p)
    <3>1. CASE \E x \in {"create", "dropunlock"} : Goto(p, [c EXCEPT !.pc = x])
      <4>1. PICK x \in {"create", "dropunlock"} : Goto(p, [c EXCEPT !.pc = x])
        BY <3>1
      <4>2. PICK e : e = [c EXCEPT !.pc = x]
        OBVIOUS
      <4>3. e.pc = x /\ e.dev = c.dev
        BY <1>3, <4>2 DEF Cli
      <4> QED BY <4>1, <4>2, <4>3
    <3>2. CASE \E n : Goto(p, [c EXCEPT !.pos = n])
      <4>1. PICK n : Goto(p, [c EXCEPT !.pos = n])
        BY <3>2
      <4>2. PICK e : e = [c EXCEPT !.pos = n]
        OBVIOUS
      <4>3. e.pc = c.pc /\ e.dev = c.dev
        BY <1>3, <4>2 DEF Cli
      <4> QED BY <1>2, <4>1, <4>2, <4>3
    <3>3. CASE MarkRolledBack(p)
      <4>1. PICK e : e = [c EXCEPT !.pc = "saveopen", !.mem.status = "rolled_back",
                                   !.mem.pending = FALSE]
        OBVIOUS
      <4>2. e.pc = "saveopen" /\ e.dev = c.dev
        BY <1>3, <4>1 DEF Cli
      <4> QED BY <1>1, <3>3, <4>1, <4>2 DEF MarkRolledBack
    <3>4. CASE LinkLost(p)
      <4>1. PICK e : /\ Goto(p, e)
                     /\ \/ e = [c EXCEPT !.pc = "saveopen", !.op = "pend", !.mem.pending = TRUE]
                        \/ e = [c EXCEPT !.pc = "undo", !.op = "autoroll",
                                         !.pos = Len(c.mem.changes)]
        BY <1>1, <3>4 DEF LinkLost
      <4>2. e.pc \in {"saveopen", "undo"} /\ e.dev = c.dev
        BY <1>3, <4>1 DEF Cli
      <4> QED BY <4>1, <4>2
    <3> QED BY <1>1, <2>1, <2>4, <3>1, <3>2, <3>3, <3>4
        DEF BeginStat, Undo, UndoFails, Forget
  <2> QED BY <2>1, <2>2, <2>3, <2>4 DEF AmbiguousWrite, Quit
<1>6. Moved(p, e, h)
  BY <1>1, <1>3, <1>4, <1>5 DEF Moved, AtWork, files
<1>7. c.pc \notin Midway
  BY <1>2 DEF Midway
<1> QED BY <1>1, <1>4, <1>5, <1>6, <1>7, UsableQuiet

\* A new command.
LEMMA UsableStart ==
    ASSUME UsableInv, CalmInv', NEW p \in Procs, NEW d \in Devices,
           \/ \E safe \in SafeModes : StartBegin(p, d, safe)
           \/ \E op \in Op : StartCommand(p, op, d)
           \/ StartForcedRemove(p, d)
    PROVE  UsableInv'
<1> USE StoreAssumption
<1>1. PICK e : Start(p, e) /\ e.pc \in {"stat", "readlock", "forget"} /\ e.dev = d
  <2>1. CASE \E safe \in SafeModes : StartBegin(p, d, safe)
    <3>1. PICK safe \in SafeModes : StartBegin(p, d, safe)
      BY <2>1
    <3>2. PICK e : e = [Idle EXCEPT !.pc = "stat", !.op = "begin", !.dev = d,
                                    !.mem = [Blank EXCEPT !.dev = d, !.safe = safe]]
      OBVIOUS
    <3>3. e.pc = "stat" /\ e.dev = d
      BY <3>2 DEF Idle
    <3> QED BY <3>1, <3>2, <3>3 DEF StartBegin
  <2>2. CASE \E op \in Op : StartCommand(p, op, d)
    <3>1. PICK op \in Op : StartCommand(p, op, d)
      BY <2>2
    <3>2. PICK e : e = [Idle EXCEPT !.pc = "readlock", !.op = op, !.dev = d]
      OBVIOUS
    <3>3. e.pc = "readlock" /\ e.dev = d
      BY <3>2 DEF Idle
    <3> QED BY <3>1, <3>2, <3>3 DEF StartCommand
  <2>3. CASE StartForcedRemove(p, d)
    <3>1. PICK e : e = [Idle EXCEPT !.pc = "forget", !.op = "remove", !.dev = d]
      OBVIOUS
    <3>2. e.pc = "forget" /\ e.dev = d
      BY <3>1 DEF Idle
    <3> QED BY <2>3, <3>1, <3>2 DEF StartForcedRemove
  <2> QED BY <2>1, <2>2, <2>3
<1>2. PICK h : h = Sanitize[d]
  OBVIOUS
<1>3. Moved(p, e, h) /\ UNCHANGED files
  BY <1>1, <1>2 DEF Start, Moved, AtWork, files
<1>4. cli[p].pc \notin Midway /\ e.pc \notin Relying
  BY <1>1 DEF Start, Midway, Relying
<1> QED BY <1>3, <1>4, UsableQuiet

\* session begin: the lock is opened once the journal is whole.
LEMMA UsableBegin ==
    ASSUME UsableInv, CalmInv', NEW p \in Procs,
           \/ \E i \in Ids : BeginCreate(p, i)
           \/ BeginFill(p) \/ BeginLockOpen(p) \/ BeginLockFill(p) \/ BeginCleanup(p)
    PROVE  UsableInv'
<1> USE StoreAssumption
<1>1. PICK c, h : c = cli[p] /\ h = Key(p)
  OBVIOUS
<1>2. PICK o \in [Ids -> Keys \cup {None}] : Owned(o)
  BY DEF UsableInv, CalmInv, OpenInv, GoneInv, OwnInv
<1>3. /\ c.pc \in {"create", "fill", "lockopen", "lockfill", "cleanup"} /\ c \in Cli
      /\ h \in Keys /\ Sanitize[c.dev] = h /\ AtWork(cli[p], h)
      /\ c.pc # "create" => c.id \in Ids /\ o[c.id] = h
      /\ h \notin raced => LockCalm(c, h) /\ UsableAt(h) /\ Prepared(c, h)
      /\ c.pc \in Locking => journal[c.id].status = "active"
      /\ lock \in [Keys -> Ids \cup {Absent, Empty}] /\ file \in [Ids -> FileState]
      /\ journal \in [Ids -> Session] /\ UNCHANGED <<raced, cut, stuck>>
  <2>1. c.pc \in {"create", "fill", "lockopen", "lockfill", "cleanup"}
    BY <1>1 DEF BeginCreate, BeginFill, BeginLockOpen, BeginLockFill, BeginCleanup
  <2>2. /\ c \in Cli /\ h \in Keys /\ Sanitize[c.dev] = h /\ AtWork(cli[p], h)
        /\ c.pc # "create" => c.id \in Ids /\ o[c.id] = h
        /\ h \notin raced => LockCalm(c, h)
    BY <1>1, <1>2, <2>1, AtWorkFacts, OwnFacts DEF UsableInv, AtWork, Key, WithSession, Calm
  <2>3. h \notin raced => UsableAt(h) /\ Prepared(c, h)
    BY <1>1, <2>2 DEF UsableInv, UsableAt, Slots
  <2>4. UNCHANGED <<raced, cut, stuck>>
    BY DEF BeginCreate, BeginFill, BeginLockOpen, BeginLockFill, BeginCleanup, history
  <2> QED BY <1>1, <2>1, <2>2, <2>3, <2>4
      DEF UsableInv, CalmInv, OpenInv, LocksOpen, GoneInv, OwnInv, TypeInv, TypeOK
\* What is left to account for.
<1>4. ASSUME NEW e, Goto(p, e), e.pc = "idle" \/ e.dev = c.dev,
             \A k \in Keys \ {h} : lock'[k] = lock[k],
             \A i \in Ids : \/ file'[i] = file[i] /\ journal'[i] = journal[i]
                            \/ file[i] = "unused" \/ o[i] = h,
             h \notin raced =>
                 /\ lock'[h] # Absent => Leads(h)' \/ (AtWork(e, h) /\ e.pc \in Midway)
                 /\ Prepared(e, h)'
      PROVE  UsableInv'
  <2>1. Moved(p, e, h)
    BY <1>1, <1>3, <1>4 DEF Moved, AtWork
  <2> QED BY <1>2, <1>3, <1>4, <2>1, UsableStepOf
\* A lock that leads somewhere although the begin has got that far was left empty.
<1>5. c.pc # "lockfill" /\ h \notin raced /\ lock[h] # Absent => lock[h] = Empty /\ h \in cut
  <2> SUFFICES ASSUME c.pc # "lockfill", h \notin raced, lock[h] # Absent
               PROVE  lock[h] = Empty /\ h \in cut
    OBVIOUS
  <2>1. lock[h] = Empty
    BY <1>3 DEF LockCalm, Fresh
  <2>2. ~\E x \in Slots : AtWork(x, h) /\ x.pc \in Midway
    <3>1. \A q \in Procs : AtWork(cli[q], h) => q = p
      BY <1>1, <1>3 DEF UsableInv, CalmInv, PlainInv, Alone
    <3> QED BY <1>1, <1>3, <3>1 DEF Slots, Midway
  <2> QED BY <1>3, <2>1, <2>2 DEF UsableAt, Leads
<1>6. CASE \E i \in Ids : BeginCreate(p, i)
  <2>1. PICK i \in Ids : BeginCreate(p, i)
    BY <1>6
  <2>2. PICK e : e = [c EXCEPT !.pc = "fill", !.id = i]
    OBVIOUS
  <2>3. e.pc = "fill" /\ e.dev = c.dev /\ Goto(p, e)
    BY <1>1, <1>3, <2>1, <2>2 DEF BeginCreate, Cli
  <2>4. /\ UNCHANGED <<lock, journal>> /\ c.pc = "create"
        /\ \A j \in Ids : file'[j] = file[j] \/ file[j] = "unused"
    BY <1>1, <1>3, <2>1 DEF BeginCreate
  <2>5. lock'[h] # Absent /\ h \notin raced => Leads(h)'
    BY <1>3, <1>5, <2>4 DEF Leads
  <2> QED BY <1>4, <2>3, <2>4, <2>5 DEF Prepared
<1>7. CASE BeginFill(p)
  <2>1. PICK e : e = [c EXCEPT !.pc = "lockopen"]
    OBVIOUS
  <2>2. e.pc = "lockopen" /\ e.dev = c.dev /\ e.id = c.id /\ Goto(p, e)
    BY <1>1, <1>3, <1>7, <2>1 DEF BeginFill, Cli
  <2>3. /\ UNCHANGED lock /\ c.pc = "fill" /\ file'[c.id] = "whole"
        /\ \A j \in Ids \ {c.id} : file'[j] = file[j] /\ journal'[j] = journal[j]
    BY <1>1, <1>3, <1>7 DEF BeginFill
  <2>4. lock'[h] # Absent /\ h \notin raced => Leads(h)'
    BY <1>3, <1>5, <2>3 DEF Leads
  <2> QED BY <1>3, <1>4, <2>2, <2>3, <2>4 DEF Prepared
<1>8. CASE BeginLockOpen(p)
  <2>1. PICK e : e = [c EXCEPT !.pc = "lockfill"]
    OBVIOUS
  <2>2. e.pc = "lockfill" /\ e.dev = c.dev /\ e.id = c.id /\ Goto(p, e)
    BY <1>1, <1>3, <1>8, <2>1 DEF BeginLockOpen, Cli
  <2>3. /\ UNCHANGED <<file, journal>> /\ c.pc = "lockopen"
        /\ \A k \in Keys \ {h} : lock'[k] = lock[k]
    BY <1>1, <1>3, <1>8 DEF BeginLockOpen
  <2>4. AtWork(e, h) /\ e.pc \in Midway
    BY <1>3, <2>2 DEF AtWork, Midway
  <2>5. h \notin raced => Prepared(e, h)'
    BY <1>3, <2>2, <2>3 DEF Prepared
  <2> QED BY <1>4, <2>2, <2>3, <2>4, <2>5
<1>9. CASE BeginLockFill(p)
  <2>1. /\ UNCHANGED <<file, journal>> /\ c.pc = "lockfill" /\ lock'[h] = c.id /\ Goto(p, Idle)
        /\ \A k \in Keys \ {h} : lock'[k] = lock[k]
    BY <1>1, <1>3, <1>9 DEF BeginLockFill, Done
  <2>2. h \notin raced => Leads(h)'
    <3>1. h \notin raced => file[c.id] = "whole" /\ journal[c.id].status = "active"
      BY <1>3, <2>1 DEF Prepared, Locking
    <3>2. file[c.id] = "whole" => Sanitize[journal[c.id].dev] = h
      BY <1>2, <1>3, <2>1 DEF Owned, JournalOwned
    <3> QED BY <1>3, <2>1, <3>1, <3>2 DEF Leads, Open
  <2> QED BY <1>4, <2>1, <2>2, IdlePlain DEF Prepared
<1>10. CASE BeginCleanup(p)
  <2>1. /\ UNCHANGED lock /\ c.pc = "cleanup" /\ Goto(p, Idle)
        /\ \A j \in Ids \ {c.id} : file'[j] = file[j] /\ journal'[j] = journal[j]
    BY <1>1, <1>3, <1>10 DEF BeginCleanup, Done
  <2>2. lock'[h] # Absent /\ h \notin raced => Leads(h)'
    BY <1>3, <1>5, <2>1 DEF Leads
  <2> QED BY <1>3, <1>4, <2>1, <2>2, IdlePlain DEF Prepared
<1> QED BY <1>6, <1>7, <1>8, <1>9, <1>10

\* Rewriting the journal: in between, the saving command accounts for the lock.
LEMMA UsableSave ==
    ASSUME UsableInv, CalmInv', NEW p \in Procs, SaveOpen(p) \/ SaveFill(p)
    PROVE  UsableInv'
<1> USE StoreAssumption
<1>1. PICK c, h : c = cli[p] /\ h = Key(p)
  OBVIOUS
<1>2. PICK o \in [Ids -> Keys \cup {None}] : Owned(o)
  BY DEF UsableInv, CalmInv, OpenInv, GoneInv, OwnInv
<1>3. /\ c.pc \in {"saveopen", "savefill"} /\ c \in Cli /\ c.mem \in Session
      /\ h \in Keys /\ Sanitize[c.dev] = h /\ AtWork(cli[p], h)
      /\ c.id \in Ids /\ o[c.id] = h /\ Plain(c) /\ LocalOpen(c)
      /\ Sanitize[c.mem.dev] = h
      /\ h \notin raced => lock[h] \in {c.id, Absent}
      /\ file \in [Ids -> FileState] /\ journal \in [Ids -> Session]
      /\ UNCHANGED <<lock, raced, cut, stuck>>
  <2>1. c.pc \in {"saveopen", "savefill"}
    BY <1>1 DEF SaveOpen, SaveFill
  <2>2. /\ c \in Cli /\ h \in Keys /\ Sanitize[c.dev] = h /\ AtWork(cli[p], h)
        /\ c.id \in Ids /\ o[c.id] = h /\ Plain(c) /\ LocalOpen(c)
        /\ c.mem.dev \in Devices => Sanitize[c.mem.dev] = h
        /\ h \notin raced => LockCalm(c, h)
    BY <1>1, <1>2, <2>1, AtWorkFacts, OwnFacts DEF UsableInv, AtWork, Key, WithSession, Calm
  <2>3. c.mem.dev \in Devices
    BY <1>1, <1>2, <2>1 DEF Owned, LocalOwned, Holding
  <2>4. h \notin raced => lock[h] \in {c.id, Absent}
    BY <2>1, <2>2 DEF LockCalm, Tending, Saving
  <2>5. UNCHANGED <<lock, raced, cut, stuck>>
    BY DEF SaveOpen, SaveFill, history
  <2> QED BY <2>1, <2>2, <2>3, <2>4, <2>5
      DEF UsableInv, CalmInv, OpenInv, GoneInv, OwnInv, TypeInv, TypeOK, Cli
<1>4. ASSUME NEW e, Goto(p, e), e.pc = "idle" \/ e.dev = c.dev,
             \A i \in Ids \ {c.id} : file'[i] = file[i] /\ journal'[i] = journal[i],
             \/ AtWork(e, h) /\ e.pc \in Midway
             \/ Open(c.id)' /\ Sanitize[journal'[c.id].dev] = h,
             e.pc \notin Relying
      PROVE  UsableInv'
  <2>1. Moved(p, e, h)
    BY <1>1, <1>3, <1>4 DEF Moved, AtWork
  <2>2. h \notin raced /\ lock'[h] # Absent => Leads(h)' \/ (AtWork(e, h) /\ e.pc \in Midway)
    BY <1>3, <1>4 DEF Leads
  <2>3. Prepared(e, h)'
    BY <1>4 DEF Prepared, Relying
  <2> QED BY <1>2, <1>3, <1>4, <2>1, <2>2, <2>3, UsableStepOf
<1>5. CASE SaveOpen(p)
  <2>1. PICK e : e = [c EXCEPT !.pc = "savefill"]
    OBVIOUS
  <2>2. e.pc = "savefill" /\ e.dev = c.dev /\ Goto(p, e)
    BY <1>1, <1>3, <1>5, <2>1 DEF SaveOpen, Cli
  <2>3. \A i \in Ids \ {c.id} : file'[i] = file[i] /\ journal'[i] = journal[i]
    BY <1>1, <1>3, <1>5 DEF SaveOpen
  <2>4. AtWork(e, h) /\ e.pc \in Midway /\ e.pc \notin Relying
    BY <1>3, <2>2 DEF AtWork, Midway, Relying
  <2> QED BY <1>4, <2>2, <2>3, <2>4
<1>6. CASE SaveFill(p)
  <2>1. PICK e : e = AfterSave(c)
    OBVIOUS
  <2>2. /\ Goto(p, e) /\ c.pc = "savefill"
        /\ file'[c.id] = "whole" /\ journal'[c.id] = c.mem
        /\ \A i \in Ids \ {c.id} : file'[i] = file[i] /\ journal'[i] = journal[i]
    BY <1>1, <1>3, <1>6, <2>1 DEF SaveFill
  <2>3. CASE c.op \in {"record", "pend"}
    <3>1. Open(c.id)' /\ Sanitize[journal'[c.id].dev] = h
      BY <1>3, <2>2, <2>3 DEF Open, LocalOpen
    <3>2. e.pc \notin Relying /\ (e.pc = "idle" \/ e.dev = c.dev)
      BY <1>3, <2>1, <2>3, IdlePlain DEF AfterSave, Cli, Relying
    <3> QED BY <1>4, <2>2, <3>1, <3>2
  <2>4. CASE c.op \notin {"record", "pend"}
    <3>1. e.pc = "unlock" /\ e.dev = c.dev
      BY <1>3, <2>1, <2>4 DEF AfterSave, Cli
    <3>2. AtWork(e, h) /\ e.pc \in Midway /\ e.pc \notin Relying
      BY <1>3, <3>1 DEF AtWork, Midway, Relying
    <3> QED BY <1>4, <2>2, <3>1, <3>2
  <2> QED BY <2>3, <2>4
<1> QED BY <1>5, <1>6

\* A lock is removed; a device's journals are deleted after its lock.
LEMMA UsableRemove ==
    ASSUME UsableInv, CalmInv', NEW p \in Procs, Unlock(p) \/ PurgeLock(p) \/ PurgeJournals(p)
    PROVE  UsableInv'
<1> USE StoreAssumption
<1>1. PICK c, h : c = cli[p] /\ h = Key(p)
  OBVIOUS
<1>2. PICK o \in [Ids -> Keys \cup {None}] : Owned(o)
  BY DEF UsableInv, CalmInv, OpenInv, GoneInv, OwnInv
<1>3. /\ c.pc \in {"unlock", "dropunlock", "purge"} /\ c \in Cli
      /\ h \in Keys /\ Sanitize[c.dev] = h /\ AtWork(cli[p], h)
      /\ c.pc = "unlock" => Sanitize[c.mem.dev] = h
      /\ h \notin raced => UsableAt(h) /\ Prepared(c, h)
      /\ lock \in [Keys -> Ids \cup {Absent, Empty}] /\ UNCHANGED <<raced, cut, stuck>>
      /\ c.dev \in Devices
  <2>1. c.pc \in {"unlock", "dropunlock", "purge"}
    BY <1>1 DEF Unlock, PurgeLock, PurgeJournals
  <2>2. /\ c \in Cli /\ h \in Keys /\ Sanitize[c.dev] = h /\ AtWork(cli[p], h)
        /\ c.mem.dev \in Devices => Sanitize[c.mem.dev] = h
        /\ c.dev \in Devices
    BY <1>1, <1>2, <2>1, AtWorkFacts, OwnFacts DEF UsableInv, AtWork, Key
  <2>3. c.pc = "unlock" => c.mem.dev \in Devices
    BY <1>1, <1>2 DEF Owned, LocalOwned, Holding
  <2>4. h \notin raced => UsableAt(h) /\ Prepared(c, h)
    BY <1>1, <2>2 DEF UsableInv, UsableAt, Slots
  <2>5. UNCHANGED <<raced, cut, stuck>>
    BY DEF Unlock, PurgeLock, PurgeJournals, history
  <2> QED BY <2>1, <2>2, <2>3, <2>4, <2>5
      DEF UsableInv, CalmInv, OpenInv, GoneInv, OwnInv, TypeInv, TypeOK
<1>4. ASSUME NEW e, Goto(p, e), e.pc = "idle" \/ e.dev = c.dev,
             \A k \in Keys \ {h} : lock'[k] = lock[k],
             \A i \in Ids : (file'[i] = file[i] /\ journal'[i] = journal[i]) \/ o[i] = h,
             h \notin raced => lock'[h] = Absent, e.pc \notin {"lockopen", "lockfill"}
      PROVE  UsableInv'
  <2>1. Moved(p, e, h)
    BY <1>1, <1>3, <1>4 DEF Moved, AtWork
  <2>2. h \notin raced => Prepared(e, h)'
    BY <1>4 DEF Prepared
  <2> QED BY <1>2, <1>3, <1>4, <2>1, <2>2, UsableStepOf
<1>5. CASE Unlock(p)
  <2>1. PICK e : e = AfterUnlock(c)
    OBVIOUS
  <2>2. e.pc \in {"idle", "saveopen"} /\ (e.pc = "idle" \/ e.dev = c.dev)
    BY <1>3, <2>1, IdlePlain DEF AfterUnlock, Cli
  <2>3. /\ Goto(p, e) /\ UNCHANGED <<file, journal>> /\ lock'[h] = Absent
        /\ \A k \in Keys \ {h} : lock'[k] = lock[k]
    BY <1>1, <1>3, <1>5, <2>1 DEF Unlock
  <2> QED BY <1>4, <2>2, <2>3
<1>6. CASE PurgeLock(p)
  <2>1. PICK e : e = [c EXCEPT !.pc = "purge"]
    OBVIOUS
  <2>2. e.pc = "purge" /\ e.dev = c.dev
    BY <1>3, <2>1 DEF Cli
  <2>3. /\ Goto(p, e) /\ UNCHANGED <<file, journal>> /\ lock'[h] = Absent
        /\ \A k \in Keys \ {h} : lock'[k] = lock[k]
    BY <1>1, <1>3, <1>6, <2>1 DEF PurgeLock
  <2> QED BY <1>4, <2>2, <2>3
<1>7. CASE PurgeJournals(p)
  <2>1. Goto(p, Idle) /\ UNCHANGED lock /\ c.pc = "purge"
    BY <1>1, <1>7 DEF PurgeJournals, Done
  <2>2. \A i \in Ids : \/ file'[i] = file[i] /\ journal'[i] = journal[i]
                       \/ journal[i].dev = c.dev
    BY <1>1, <1>7 DEF PurgeJournals
  <2>3. \A i \in Ids : journal[i].dev = c.dev => o[i] = h
    BY <1>2, <1>3 DEF Owned, JournalOwned
  <2>4. h \notin raced => lock[h] = Absent
    BY <1>3, <2>1 DEF Prepared
  <2> QED BY <1>4, <2>1, <2>2, <2>3, <2>4, IdlePlain
<1> QED BY <1>5, <1>6, <1>7

\* A crash or a failing system call in the middle of a write is remembered as a cut,
\* and one that keeps the lock of a closed session as stuck.
LEMMA UsableStop ==
    ASSUME UsableInv, CalmInv', NEW p \in Procs, Crash(p) \/ IOFails(p)
    PROVE  UsableInv'
<1> USE StoreAssumption
<1>1. PICK c, h : c = cli[p] /\ h = Key(p)
  OBVIOUS
<1>2. PICK o \in [Ids -> Keys \cup {None}] : Owned(o)
  BY DEF UsableInv, CalmInv, OpenInv, GoneInv, OwnInv
<1>3. c.pc # "idle" /\ UNCHANGED files /\ raced' = raced /\ Spoil(p)
  BY <1>1 DEF Crash, IOFails
<1>4. /\ c \in Cli /\ CliOK(c) /\ h \in Keys /\ Sanitize[c.dev] = h /\ AtWork(cli[p], h)
      /\ h \notin raced => LockCalm(c, h) /\ CopyCalm(c, h) /\ UsableAt(h)
      /\ lock \in [Keys -> Ids \cup {Absent, Empty}]
      /\ cut \subseteq cut' /\ stuck \subseteq stuck'
      /\ Plain(c)
  <2>1. /\ c \in Cli /\ CliOK(c) /\ h \in Keys /\ Sanitize[c.dev] = h /\ AtWork(cli[p], h)
        /\ h \notin raced => LockCalm(c, h) /\ CopyCalm(c, h)
        /\ Plain(c)
    BY <1>1, <1>3, AtWorkFacts DEF UsableInv, AtWork, Key, Calm
  <2>2. h \notin raced => UsableAt(h)
    BY <2>1 DEF UsableInv
  <2>3. cut \subseteq cut' /\ stuck \subseteq stuck'
    BY <1>3 DEF Spoil
  <2> QED BY <2>1, <2>2, <2>3 DEF UsableInv, CalmInv, OpenInv, GoneInv, OwnInv, TypeInv, TypeOK
<1>5. PICK e : /\ Goto(p, e) /\ e.pc \notin Relying /\ (e.pc = "idle" \/ e.dev = c.dev)
  <2>1. CASE Crash(p)
    BY <2>1, IdlePlain DEF Crash, Done, Relying
  <2>2. CASE IOFails(p)
    <3>1. PICK e : e = OnIOError(c)
      OBVIOUS
    <3>2. Goto(p, e)
      BY <1>1, <2>2, <3>1 DEF IOFails
    <3>3. e.pc \in {"cleanup", "idle", "undo", "saveopen"} /\ (e.pc = "idle" \/ e.dev = c.dev)
      BY <1>4, <3>1, IdlePlain DEF OnIOError, AfterUnlock, Cli
    <3> QED BY <3>2, <3>3 DEF Relying
  <2> QED BY <2>1, <2>2
<1>6. Moved(p, e, h)
  BY <1>1, <1>3, <1>4, <1>5 DEF Moved, AtWork, files
<1>7. CASE c.pc \notin Midway
  BY <1>1, <1>3, <1>5, <1>6, <1>7, UsableQuiet
<1>8. CASE c.pc \in Midway
  <2>1. ASSUME h \notin raced, lock[h] # Absent PROVE Leads(h)'
    <3>1. CASE c.pc = "lockfill"
      <4>1. lock[h] = Empty
        BY <1>4, <2>1, <3>1 DEF LockCalm, Fresh
      <4>2. h \in cut'
        BY <1>1, <1>3, <3>1 DEF Spoil
      <4> QED BY <1>3, <4>1, <4>2 DEF Leads, files
    <3>2. CASE c.pc \in {"savefill", "unlock"}
      <4>1. c.id \in Ids /\ lock[h] = c.id
        BY <1>4, <2>1, <3>2 DEF LockCalm, Tending, Saving, CliOK, StageOK, WithSession
      <4>2. CASE c.pc = "savefill"
        <5>1. file[c.id] = "torn"
          BY <1>4, <2>1, <4>2 DEF CopyCalm
        <5>2. h \in cut'
          BY <1>1, <1>3, <4>2 DEF Spoil
        <5> QED BY <1>3, <4>1, <5>1, <5>2 DEF Leads, files
      <4>3. CASE c.pc = "unlock"
        <5>1. file[c.id] = "whole" /\ journal[c.id] = c.mem
          BY <1>4, <2>1, <4>3 DEF CopyCalm, Current
        <5>2. c.mem.status # "active"
          BY <1>4, <4>3 DEF Plain, Saving
        <5>3. h \in stuck'
          BY <1>1, <1>3, <4>3 DEF Spoil
        <5> QED BY <1>3, <4>1, <5>1, <5>2, <5>3 DEF Leads, Closed, files
      <4> QED BY <3>2, <4>2, <4>3
    <3> QED BY <1>8, <3>1, <3>2 DEF Midway
  <2>2. Prepared(e, h)'
    BY <1>5 DEF Prepared, Relying
  <2> QED BY <1>2, <1>3, <1>6, <2>1, <2>2, UsableStepOf DEF files
<1> QED BY <1>7, <1>8

\* At the start no lock is there; every step keeps locks usable.
LEMMA UsableStep == UsableInv /\ [Next]_vars => UsableInv'
<1> SUFFICES ASSUME UsableInv, [Next]_vars PROVE UsableInv'
  OBVIOUS
<1>0. CalmInv'
  BY CalmStep DEF UsableInv
<1>1. CASE UNCHANGED vars
  <2>1. Slots' = Slots /\ raced' = raced
    BY <1>1 DEF vars, Slots
  <2>2. \A k : (Leads(k) <=> Leads(k)') /\ \A c : Prepared(c, k) <=> Prepared(c, k)'
    BY <1>1 DEF vars, Leads, Prepared, Open, Closed
  <2>3. \A k : UsableAt(k) <=> UsableAt(k)'
    BY <1>1, <2>1, <2>2 DEF vars, UsableAt, AtWork
  <2> QED BY <1>0, <2>1, <2>3 DEF UsableInv
<1>2. CASE Next
  <2>1. PICK p \in Procs :
          \/ \E d \in Devices :
                \/ \E safe \in SafeModes : StartBegin(p, d, safe)
                \/ \E op \in Op : StartCommand(p, op, d)
                \/ StartForcedRemove(p, d)
          \/ Begin(p)
          \/ ReadLock(p) \/ ReadJournal(p)
          \/ \E c \in Changes : RouterWrite(p, c) \/ AmbiguousWrite(p, c)
          \/ SaveOpen(p) \/ SaveFill(p) \/ Unlock(p)
          \/ Undo(p) \/ MarkRolledBack(p) \/ UndoFails(p) \/ LinkLost(p)
          \/ Forget(p) \/ PurgeLock(p) \/ PurgeJournals(p)
          \/ Quit(p) \/ Crash(p) \/ IOFails(p)
    BY <1>2 DEF Next
  <2>2. CASE Begin(p)
    BY <1>0, <2>2, UsableStill, UsableBegin DEF Begin
  <2> QED BY <1>0, <2>1, <2>2, UsableStart, UsableStill, UsableSave, UsableRemove, UsableStop
<1> QED BY <1>1, <1>2

\* In every behaviour, crashes and I/O errors at any call included, on a key no two
\* commands have shared so far, a lock stands for an open session of that key, or for
\* a command about to fill or remove it; an empty lock, a torn journal or a closed
\* session under a lock is left only by a command that was cut short while writing it,
\* and no lock names a journal that was taken back or deleted.
THEOREM LocksUsable == Spec => []LockIsUsable
<1>1. Init => UsableInv
  <2> SUFFICES ASSUME Init PROVE UsableInv
    OBVIOUS
  <2>1. \A c \in Slots : c.pc = "idle"
    BY IdlePlain DEF Init, Slots
  <2> QED BY <2>1, CalmInit DEF Init, UsableInv, UsableAt, AtWork
<1>2. UsableInv => LockIsUsable
  <2> SUFFICES ASSUME UsableInv, NEW k \in Keys \ raced, lock[k] # Absent, ~Leads(k)
               PROVE  \E p \in Live(k) : cli[p].pc \in {"lockfill", "savefill", "unlock"}
    BY DEF LockIsUsable, Leads
  <2>1. PICK c \in Slots : AtWork(c, k) /\ c.pc \in Midway
    BY DEF UsableInv, UsableAt
  <2>2. PICK p \in Procs : c = cli[p]
    BY DEF Slots
  <2> QED BY <2>1, <2>2 DEF Live, Key, AtWork, Midway
<1> QED BY <1>1, <1>2, UsableStep, PTL DEF Spec
=============================================================================
