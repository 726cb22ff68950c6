-------------------------- MODULE SessionUseProofs --------------------------
(***************************************************************************)
(* Proofs about the modules that use a safe session: Watch, a second process *)
(* that rolls it back, and PlanApply, a plan that writes in it.  The lemmas  *)
(* about writes, inverses and rollbacks are those of RollbackProofs.         *)
(***************************************************************************)
EXTENDS RollbackProofs, Watch, PlanApply
-----------------------------------------------------------------------------
(* The watch.                                                               *)

WatchTyped ==
    /\ Typed /\ session.pos = 0
    /\ link \in {"up", "down"} /\ outages \in 0 .. MaxOutages
    /\ watch \in [pc : WatchState, failures : Nat, copy : Journals, pos : Nat]
    /\ watch.failures <= FailThreshold /\ watch.pos \in 0 .. Len(watch.copy)
    /\ Below(Targets(watch.copy), menu.next)
    /\ late \in BOOLEAN

\* What the watch has yet to undo.
CopyLeft == CASE watch.pc = "rolling" -> SubSeq(watch.copy, 1, watch.pos)
              [] watch.pc = "done" -> <<>>
              [] OTHER -> watch.copy

WatchOff ==
    watch.pc = "off" => SafeInv /\ session.status = "active" /\ ~partial /\ watch.pos = 0

WatchKept ==
    /\ watch.pc \notin {"off", "stopped"}
    /\ ~late /\ gaps = {} /\ (partial => CopyRepeatable)
    => Undoable(CopyLeft, menu)

WatchAgain ==
    watch.pc = "rolling" /\ ~late /\ CopyRepeatable
    => Undone(watch.copy, menu) \subseteq Undone(CopyLeft, menu)

WatchInv == WatchTyped /\ WatchOff /\ WatchKept /\ WatchAgain

LEMMA WatchInitInv == WatchInit => WatchInv
<1> SUFFICES ASSUME WatchInit PROVE WatchInv
  OBVIOUS
<1>1. SafeInv /\ session.status = "active" /\ session.pos = 0 /\ ~partial
  BY InitSafe DEF WatchInit, Init
<1>2. PICK j \in Journals : j = <<>> /\ Len(j) = 0
  BY EmptySeq DEF Journals
<1>3. watch = [pc |-> "off", failures |-> 0, copy |-> j, pos |-> 0]
  BY <1>2 DEF WatchInit
<1>4. Below(Targets(j), menu.next)
  BY <1>2 DEF Below, Targets
<1>5. WatchTyped
  <2>1. watch \in [pc : WatchState, failures : Nat, copy : Journals, pos : Nat]
    BY <1>3 DEF WatchState
  <2>2. /\ watch.failures = 0 /\ watch.pos = 0 /\ watch.copy = j
        /\ link = "up" /\ outages = 0 /\ late = FALSE
    BY <1>3 DEF WatchInit
  <2>3. watch.failures <= FailThreshold /\ watch.pos \in 0 .. Len(watch.copy)
        /\ outages \in 0 .. MaxOutages
    BY <1>2, <2>2, WatchAssumption
  <2> QED BY <1>1, <1>4, <2>1, <2>2, <2>3 DEF WatchTyped, SafeInv
<1> QED BY <1>1, <1>3, <1>5 DEF WatchInv, WatchOff, WatchKept, WatchAgain

LEMMA FaithfulTyped == Typed /\ Faithful => Typed' /\ menu.next <= menu'.next
<1> SUFFICES ASSUME Typed, NEW c \in Commands, NEW entries, NEW gap \in SUBSET Gaps,
                    Accepts(menu, c), Journaled(entries, Run(menu, c)), Write(c, entries, gap)
             PROVE  Typed' /\ menu.next <= menu'.next
  BY DEF Faithful
<1>1. menu' = Run(menu, c)
  BY DEF Write
<1> QED BY <1>1, RunSays, WriteTyped DEF Typed

LEMMA OperatorSafe ==
    ASSUME WatchInv, OperatorWrites
    PROVE  WatchInv'
<1>1. Faithful
  <2>1. Typed
    BY DEF WatchInv, WatchTyped
  <2>2. ASSUME NEW w \in NewWords, Create(w) PROVE Faithful
    <3>1. w \in SetWords
      BY DEF SetWords
    <3> QED BY <2>1, <2>2, <3>1, SetWordsAreWords, AddFaithful
  <2>3. ASSUME NEW id \in Present, NEW w \in SetWords, Set(id, w) PROVE Faithful
    BY <2>1, <2>3, SetWordsAreWords, SetFaithful
  <2>4. ASSUME NEW id \in Present, Delete(id) PROVE Faithful
    BY <2>1, <2>4, DeleteFaithful
  <2>5. ASSUME NEW id \in Present, NEW verb \in {"enable", "disable"}, Toggle(id, verb)
        PROVE  Faithful
    BY <2>1, <2>5, ToggleFaithful
  <2> QED BY <2>2, <2>3, <2>4, <2>5 DEF OperatorWrites
<1>2. /\ session.status = "active" /\ session'.status = "active" /\ session'.pos = session.pos
      /\ partial' = partial
  BY <1>1 DEF Faithful, Write, WatchInv, WatchTyped, Typed
<1>3. link' = link /\ outages' = outages /\ watch' = watch /\ late' = (late \/ watch.pc # "off")
  BY DEF OperatorWrites
<1>4. Typed' /\ menu.next <= menu'.next
  BY <1>1, FaithfulTyped DEF WatchInv, WatchTyped
<1>5. Below(Targets(watch'.copy), menu'.next)
  <2>1. Below(Targets(watch.copy), menu.next)
    BY DEF WatchInv, WatchTyped
  <2>2. menu.next \in Nat /\ menu'.next \in Nat
    BY <1>4 DEF WatchInv, WatchTyped, Typed, Menus
  <2> QED BY <1>3, <1>4, <2>1, <2>2 DEF Below
<1>6. WatchTyped'
  BY <1>2, <1>3, <1>4, <1>5 DEF WatchInv, WatchTyped
<1>7. watch.pc = "off" => SafeInv'
  BY <1>1, FaithfulSafe DEF WatchInv, WatchOff
<1>8. WatchOff' /\ WatchKept'
  BY <1>2, <1>3, <1>7 DEF WatchInv, WatchOff, WatchKept
<1>9. WatchAgain'
  BY <1>3 DEF WatchAgain
<1> QED BY <1>6, <1>8, <1>9 DEF WatchInv

\* The link, the start and the end of a watch, and its probes: no command is run.
LEMMA ProbeSafe ==
    ASSUME WatchInv, LinkDown \/ LinkUp \/ StartWatch \/ StopWatch \/ ProbeSucceeds \/ ProbeFails
    PROVE  WatchInv'
<1>1. UNCHANGED vars
  BY DEF LinkDown, LinkUp, StartWatch, StopWatch, ProbeSucceeds, ProbeFails
<1>2. /\ menu' = menu /\ session' = session /\ base' = base /\ gaps' = gaps
      /\ writes' = writes /\ rollbacks' = rollbacks /\ partial' = partial
  BY <1>1 DEF vars
<1>3. Typed /\ Typed'
  BY <1>2 DEF WatchInv, WatchTyped, Typed
<1>4. SafeInv => SafeInv'
  BY <1>2 DEF SafeInv, Typed, Kept, Again, Repeatable, ToUndo, Undoable
<1>5. CASE LinkDown \/ LinkUp
  <2>1. watch' = watch /\ late' = late
    BY <1>5 DEF LinkDown, LinkUp
  <2>2. link' \in {"up", "down"} /\ outages' \in 0 .. MaxOutages
    BY <1>5, WatchAssumption DEF LinkDown, LinkUp, WatchInv, WatchTyped
  <2>3. WatchTyped'
    BY <1>2, <1>3, <2>1, <2>2 DEF WatchInv, WatchTyped
  <2>4. WatchKept' /\ WatchAgain' /\ WatchOff'
    BY <1>2, <1>4, <2>1
       DEF WatchInv, WatchKept, WatchAgain, WatchOff, CopyLeft, CopyRepeatable, Undoable
  <2> QED BY <2>3, <2>4 DEF WatchInv
<1>6. CASE StartWatch
  <2>1. PICK j \in Journals : j = session.journal
    BY <1>3 DEF Typed
  <2>2. /\ watch.pc = "off" /\ watch' = [watch EXCEPT !.pc = "probing", !.copy = j]
        /\ UNCHANGED <<link, outages, late>>
    BY <1>6, <2>1 DEF StartWatch
  <2>3. /\ watch' \in [pc : WatchState, failures : Nat, copy : Journals, pos : Nat]
        /\ watch'.pc = "probing" /\ watch'.copy = j /\ watch'.failures = watch.failures
        /\ watch'.pos = watch.pos
    BY <2>2 DEF WatchInv, WatchTyped, WatchState
  <2>4. watch.pos = 0
    BY <2>2 DEF WatchInv, WatchOff
  <2>5. WatchTyped'
    <3>1. Len(j) \in Nat
      BY LenProperties DEF Journals
    <3>2. Below(Targets(j), menu.next)
      BY <1>3, <2>1 DEF Typed
    <3> QED BY <1>2, <1>3, <2>2, <2>3, <2>4, <3>1, <3>2 DEF WatchInv, WatchTyped
  <2>6. ASSUME gaps = {} PROVE Undoable(j, menu)
    <3>1. SafeInv /\ session.status = "active" /\ ~partial
      BY <2>2 DEF WatchInv, WatchOff
    <3> QED BY <2>1, <2>6, <3>1 DEF SafeInv, Kept, ToUndo
  <2>7. WatchKept' /\ WatchAgain'
    BY <1>2, <2>3, <2>6 DEF WatchKept, WatchAgain, CopyLeft, Undoable
  <2> QED BY <2>3, <2>5, <2>7 DEF WatchInv, WatchOff
<1>7. CASE StopWatch
  <2>1. /\ watch' = [watch EXCEPT !.pc = "stopped"] /\ UNCHANGED <<link, outages, late>>
    BY <1>7 DEF StopWatch
  <2>2. /\ watch' \in [pc : WatchState, failures : Nat, copy : Journals, pos : Nat]
        /\ watch'.pc = "stopped" /\ watch'.copy = watch.copy
        /\ watch'.failures = watch.failures /\ watch'.pos = watch.pos
    BY <2>1 DEF WatchInv, WatchTyped, WatchState
  <2>3. WatchTyped'
    BY <1>2, <1>3, <2>1, <2>2 DEF WatchInv, WatchTyped
  <2> QED BY <2>2, <2>3 DEF WatchInv, WatchKept, WatchAgain, WatchOff
<1>8. CASE ProbeSucceeds \/ ProbeFails
  <2>1. PICK n \in 0 .. FailThreshold :
            watch' = [watch EXCEPT !.failures = n] /\ watch.pc = "probing"
    BY <1>8, WatchAssumption DEF ProbeSucceeds, ProbeFails, WatchInv, WatchTyped
  <2>2. /\ watch' \in [pc : WatchState, failures : Nat, copy : Journals, pos : Nat]
        /\ watch'.pc = "probing" /\ watch'.copy = watch.copy
        /\ watch'.failures = n /\ watch'.pos = watch.pos
    BY <2>1 DEF WatchInv, WatchTyped, WatchState
  <2>3. UNCHANGED <<link, outages, late>>
    BY <1>8 DEF ProbeSucceeds, ProbeFails
  <2>4. WatchTyped'
    BY <1>2, <1>3, <2>2, <2>3 DEF WatchInv, WatchTyped
  <2>5. WatchKept' /\ WatchAgain'
    BY <1>2, <2>1, <2>2, <2>3
       DEF WatchInv, WatchKept, WatchAgain, CopyLeft, CopyRepeatable, Undoable
  <2> QED BY <2>2, <2>4, <2>5 DEF WatchInv, WatchOff
<1> QED BY <1>5, <1>6, <1>7, <1>8

\* The journal may be overwritten by the copy.
LEMMA LinkIsLostSafe ==
    ASSUME WatchInv, LinkIsLost
    PROVE  WatchInv'
<1>1. /\ watch.pc = "probing" /\ watch' = [watch EXCEPT !.pc = "pending", !.failures = FailThreshold]
      /\ session' \in {session, [session EXCEPT !.journal = watch.copy]}
      /\ menu' = menu /\ base' = base /\ gaps' = gaps /\ writes' = writes
      /\ rollbacks' = rollbacks /\ partial' = partial /\ UNCHANGED <<link, outages, late>>
  BY DEF LinkIsLost
<1>2. /\ watch' \in [pc : WatchState, failures : Nat, copy : Journals, pos : Nat]
      /\ watch'.pc = "pending" /\ watch'.copy = watch.copy
      /\ watch'.failures = FailThreshold /\ watch'.pos = watch.pos
  BY <1>1, WatchAssumption DEF WatchInv, WatchTyped, WatchState
<1>3. Typed'
  <2>1. /\ session \in [status : Statuses, journal : Journals, pos : Nat]
        /\ session.pos = 0 /\ watch.copy \in Journals
    BY DEF WatchInv, WatchTyped, Typed
  <2>2. /\ session' \in [status : Statuses, journal : Journals, pos : Nat]
        /\ session'.pos = 0 /\ session'.journal \in {session.journal, watch.copy}
    BY <1>1, <2>1
  <2>3. Len(session'.journal) \in Nat
    BY <2>2, LenProperties DEF Journals
  <2>4. Below(Targets(session'.journal), menu.next)
    BY <2>2 DEF WatchInv, WatchTyped, Typed
  <2> QED BY <1>1, <2>2, <2>3, <2>4 DEF WatchInv, WatchTyped, Typed
<1>4. session'.pos = 0
  BY <1>1 DEF WatchInv, WatchTyped, Typed
<1>5. WatchTyped'
  BY <1>1, <1>2, <1>3, <1>4, WatchAssumption DEF WatchInv, WatchTyped
<1>6. WatchKept' /\ WatchAgain'
  BY <1>1, <1>2 DEF WatchInv, WatchKept, WatchAgain, CopyLeft, CopyRepeatable, Undoable
<1> QED BY <1>2, <1>5, <1>6 DEF WatchInv, WatchOff

LEMMA StartAttemptSafe ==
    ASSUME WatchInv, StartAttempt
    PROVE  WatchInv'
<1>1. PICK j \in Journals : j = watch.copy
  BY DEF WatchInv, WatchTyped
<1>2. Len(j) \in Nat
  BY LenProperties DEF Journals
<1>3. /\ watch.pc = "pending" /\ watch' = [watch EXCEPT !.pc = "rolling", !.pos = Len(j)]
      /\ UNCHANGED <<link, outages, late>>
      /\ menu' = menu /\ session' = session /\ base' = base /\ gaps' = gaps
      /\ writes' = writes /\ rollbacks' = rollbacks /\ partial' = partial
  BY <1>1 DEF StartAttempt, vars
<1>4. /\ watch' \in [pc : WatchState, failures : Nat, copy : Journals, pos : Nat]
      /\ watch'.pc = "rolling" /\ watch'.copy = j
      /\ watch'.failures = watch.failures /\ watch'.pos = Len(j)
  BY <1>1, <1>2, <1>3 DEF WatchInv, WatchTyped, WatchState
<1>5. WatchTyped'
  BY <1>1, <1>2, <1>3, <1>4 DEF WatchInv, WatchTyped, Typed
<1>6. CopyLeft = j /\ CopyLeft' = j
  BY <1>1, <1>3, <1>4, Left DEF CopyLeft
<1>7. WatchKept' /\ WatchAgain'
  BY <1>1, <1>3, <1>4, <1>6 DEF WatchInv, WatchKept, WatchAgain, CopyRepeatable, Undoable
<1> QED BY <1>4, <1>5, <1>7 DEF WatchInv, WatchOff

LEMMA UndoNextSafe ==
    ASSUME WatchInv, UndoNext
    PROVE  WatchInv'
<1>1. PICK j \in Journals : j = watch.copy
  BY DEF WatchInv, WatchTyped
<1>2. PICK k \in 1 .. Len(j) : k = watch.pos
  BY <1>1 DEF UndoNext, WatchInv, WatchTyped
<1>3. /\ watch.pc = "rolling" /\ Accepts(menu, j[k].inverse)
      /\ menu' = Run(menu, j[k].inverse) /\ watch' = [watch EXCEPT !.pos = k - 1]
      /\ UNCHANGED <<link, outages, late>>
      /\ session' = session /\ base' = base /\ gaps' = gaps
      /\ writes' = writes /\ rollbacks' = rollbacks /\ partial' = partial
  BY <1>1, <1>2 DEF UndoNext
<1>4. PICK n : n = menu' /\ n = Run(menu, j[k].inverse)
  BY <1>3
<1>5. menu \in Menus
  BY DEF WatchInv, WatchTyped, Typed
<1>6. /\ n \in Menus /\ n.secrets = menu.secrets /\ menu.next <= n.next
      /\ Undone(SubSeq(j, 1, k), menu) = Undone(SubSeq(j, 1, k - 1), n)
      /\ AllChange(j) /\ Undone(j, menu) \subseteq Undone(SubSeq(j, 1, k), menu)
            => Undone(j, n) \subseteq Undone(SubSeq(j, 1, k - 1), n)
  BY <1>3, <1>4, <1>5, UndoStep
<1>7. k - 1 \in Nat /\ k - 1 \in 0 .. Len(j)
  BY LenProperties DEF Journals
<1>8. /\ watch' \in [pc : WatchState, failures : Nat, copy : Journals, pos : Nat]
      /\ watch'.pc = "rolling" /\ watch'.copy = j
      /\ watch'.failures = watch.failures /\ watch'.pos = k - 1
  BY <1>1, <1>3, <1>7 DEF WatchInv, WatchTyped, WatchState
<1>9. menu.next \in Nat /\ n.next \in Nat
  BY <1>6 DEF WatchInv, WatchTyped, Typed, Menus
<1>10. Below(Targets(j), n.next) /\ Below(Targets(session.journal), n.next)
  <2>1. Below(Targets(j), menu.next) /\ Below(Targets(session.journal), menu.next)
    BY <1>1 DEF WatchInv, WatchTyped, Typed
  <2> QED BY <1>6, <1>9, <2>1 DEF Below
<1>11. Typed'
  BY <1>3, <1>4, <1>6, <1>10 DEF WatchInv, WatchTyped, Typed
<1>12. WatchTyped'
  BY <1>3, <1>4, <1>7, <1>8, <1>10, <1>11 DEF WatchInv, WatchTyped
<1>13. CopyLeft = SubSeq(j, 1, k) /\ CopyLeft' = SubSeq(j, 1, k - 1)
  BY <1>1, <1>2, <1>3, <1>8 DEF CopyLeft
<1>14. CopyRepeatable' <=> CopyRepeatable
  BY <1>1, <1>8 DEF CopyRepeatable
<1>15. WatchKept'
  BY <1>3, <1>4, <1>6, <1>8, <1>13, <1>14 DEF WatchInv, WatchKept, Undoable
<1>16. CopyRepeatable => AllChange(j)
  BY <1>1 DEF CopyRepeatable, AllChange, Changing
<1>17. WatchAgain'
  BY <1>1, <1>3, <1>4, <1>6, <1>8, <1>13, <1>14, <1>16 DEF WatchInv, WatchAgain
<1> QED BY <1>8, <1>12, <1>15, <1>17 DEF WatchInv, WatchOff

LEMMA AttemptFailsSafe ==
    ASSUME WatchInv, AttemptFails
    PROVE  WatchInv'
<1>1. PICK j \in Journals : j = watch.copy
  BY DEF WatchInv, WatchTyped
<1>2. PICK k \in 1 .. Len(j) : k = watch.pos
  BY <1>1 DEF AttemptFails, WatchInv, WatchTyped
<1>3. /\ watch.pc = "rolling" /\ watch' = [watch EXCEPT !.pc = "pending", !.pos = 0]
      /\ partial' = (partial \/ k < Len(j)) /\ UNCHANGED <<link, outages, late>>
      /\ menu' = menu /\ session' = session /\ base' = base /\ gaps' = gaps
      /\ writes' = writes /\ rollbacks' = rollbacks
  BY <1>1, <1>2 DEF AttemptFails
<1>4. /\ watch' \in [pc : WatchState, failures : Nat, copy : Journals, pos : Nat]
      /\ watch'.pc = "pending" /\ watch'.copy = j
      /\ watch'.failures = watch.failures /\ watch'.pos = 0
  BY <1>1, <1>3 DEF WatchInv, WatchTyped, WatchState
<1>5. Len(j) \in Nat /\ partial' \in BOOLEAN
  BY <1>3, LenProperties DEF Journals
<1>6. WatchTyped'
  BY <1>1, <1>3, <1>4, <1>5 DEF WatchInv, WatchTyped, Typed
<1>7. CopyLeft = SubSeq(j, 1, k) /\ CopyLeft' = j
  BY <1>1, <1>2, <1>3, <1>4 DEF CopyLeft
<1>8. CopyRepeatable' <=> CopyRepeatable
  BY <1>1, <1>4 DEF CopyRepeatable
<1>9. ASSUME ~late, gaps = {}, partial' => CopyRepeatable
      PROVE  Undoable(j, menu)
  <2>1. Undoable(CopyLeft, menu)
    BY <1>3, <1>9 DEF WatchInv, WatchKept
  <2>2. CASE CopyRepeatable
    <3>1. Undone(j, menu) \subseteq Undone(CopyLeft, menu)
      BY <1>1, <1>3, <1>9, <2>2 DEF WatchInv, WatchAgain
    <3> QED BY <2>1, <3>1 DEF Undoable
  <2>3. CASE ~CopyRepeatable
    <3>1. ~(k < Len(j))
      BY <1>3, <1>9, <2>3
    <3>2. k = Len(j)
      BY <1>5, <3>1
    <3>3. CopyLeft = j
      BY <1>7, <3>2, Left
    <3> QED BY <2>1, <3>3
  <2> QED BY <2>2, <2>3
<1>10. WatchKept' /\ WatchAgain'
  BY <1>3, <1>4, <1>7, <1>8, <1>9 DEF WatchKept, WatchAgain, Undoable
<1> QED BY <1>4, <1>6, <1>10 DEF WatchInv, WatchOff

LEMMA AttemptEndsSafe ==
    ASSUME WatchInv, AttemptEnds
    PROVE  WatchInv'
<1>1. PICK j \in Journals : j = watch.copy
  BY DEF WatchInv, WatchTyped
<1>2. /\ watch.pc = "rolling" /\ watch.pos = 0 /\ watch' = [watch EXCEPT !.pc = "done"]
      /\ session' = [session EXCEPT !.status = "rolled_back", !.journal = j]
      /\ UNCHANGED <<link, outages, late>>
      /\ menu' = menu /\ base' = base /\ gaps' = gaps
      /\ writes' = writes /\ rollbacks' = rollbacks /\ partial' = partial
  BY <1>1 DEF AttemptEnds
<1>3. /\ watch' \in [pc : WatchState, failures : Nat, copy : Journals, pos : Nat]
      /\ watch'.pc = "done" /\ watch'.copy = j
      /\ watch'.failures = watch.failures /\ watch'.pos = 0
  BY <1>1, <1>2 DEF WatchInv, WatchTyped, WatchState
<1>4. /\ session' \in [status : Statuses, journal : Journals, pos : Nat]
      /\ session'.pos = 0 /\ session'.journal = j
  BY <1>1, <1>2 DEF WatchInv, WatchTyped, Typed, Statuses
<1>5. Len(j) \in Nat /\ Below(Targets(j), menu.next)
  BY <1>1, LenProperties DEF WatchInv, WatchTyped, Journals
<1>6. Typed'
  BY <1>2, <1>4, <1>5 DEF WatchInv, WatchTyped, Typed
<1>7. WatchTyped'
  BY <1>1, <1>2, <1>3, <1>4, <1>5, <1>6 DEF WatchInv, WatchTyped
<1>8. CopyRepeatable' <=> CopyRepeatable
  BY <1>1, <1>3 DEF CopyRepeatable
<1>9. Undone(CopyLeft, menu) = {menu} /\ Undone(CopyLeft', menu) = {menu}
  <2>1. Len(CopyLeft) = 0
    BY <1>1, <1>2, Left DEF CopyLeft
  <2>2. Len(CopyLeft') = 0
    BY <1>3 DEF CopyLeft
  <2> QED BY <2>1, <2>2, UndoneNothing
<1>10. WatchKept' /\ WatchAgain'
  BY <1>2, <1>3, <1>8, <1>9 DEF WatchInv, WatchKept, WatchAgain, Undoable
<1> QED BY <1>3, <1>7, <1>10 DEF WatchInv, WatchOff

LEMMA WatchNextInv == WatchInv /\ [WatchNext]_watchVars => WatchInv'
<1> SUFFICES ASSUME WatchInv, [WatchNext]_watchVars PROVE WatchInv'
  OBVIOUS
<1>1. CASE UNCHANGED watchVars
  <2>1. /\ menu' = menu /\ session' = session /\ base' = base /\ gaps' = gaps
        /\ writes' = writes /\ rollbacks' = rollbacks /\ partial' = partial
        /\ link' = link /\ outages' = outages /\ watch' = watch /\ late' = late
    BY <1>1 DEF watchVars, vars
  <2>2. WatchTyped'
    BY <2>1 DEF WatchInv, WatchTyped, Typed
  <2>3. SafeInv => SafeInv'
    BY <2>1 DEF SafeInv, Typed, Kept, Again, Repeatable, ToUndo, Undoable
  <2>4. WatchKept' /\ WatchAgain' /\ WatchOff'
    BY <2>1, <2>3
       DEF WatchInv, WatchKept, WatchAgain, WatchOff, CopyLeft, CopyRepeatable, Undoable
  <2> QED BY <2>2, <2>4 DEF WatchInv
<1> QED BY <1>1, OperatorSafe, ProbeSafe, LinkIsLostSafe, StartAttemptSafe, UndoNextSafe,
           AttemptFailsSafe, AttemptEndsSafe DEF WatchNext, Tick

LEMMA WatchInvRestores == WatchInv => WatchRestores
<1> SUFFICES ASSUME WatchInv, watch.pc = "done", ~late, gaps = {}, partial => CopyRepeatable
             PROVE  SameRows(menu.rows, base)
  BY DEF WatchRestores
<1>1. PICK j \in Journals : j = <<>> /\ Len(j) = 0
  BY EmptySeq DEF Journals
<1>2. Undoable(j, menu)
  BY <1>1 DEF WatchInv, WatchKept, CopyLeft
<1>3. menu \in Undone(j, menu)
  BY <1>1, UndoneNothing
<1> QED BY <1>2, <1>3, UndoableRestores DEF WatchInv, WatchTyped

\* The invariant of a watch: what an attempt that comes to its end would leave pairs
\* off with the rows the session found, and a new attempt changes nothing of that if
\* the inverses may run twice.
THEOREM WatchInvariant == WatchSpec => []WatchInv
BY WatchInitInv, WatchNextInv, PTL DEF WatchSpec

\* Type correctness of a watch: its count of failures stays within the threshold, and
\* its position within its copy of the journal.
THEOREM WatchTypeCorrect == WatchSpec => []WatchTypeOK
<1>1. WatchInv => WatchTypeOK
  BY WatchAssumption DEF WatchInv, WatchTyped, WatchTypeOK
<1> QED BY <1>1, WatchInvariant, PTL

\* A watch that is done, and whose copy was the whole journal, has put back the rows
\* the session found, however often the link went down and cut an attempt short, if
\* its inverses may run twice or the first attempt went through
\* (internal/session/watch.go, Watch).
THEOREM WatchesRestore == WatchSpec => []WatchRestores
BY WatchInvariant, WatchInvRestores, PTL

-----------------------------------------------------------------------------
(* The plan.                                                                *)

RunStates == {"idle", "invalid", "previewing", "applying", "applied", "failed"}

RowTables == UNION {[D -> Row] : D \in SUBSET Nat}

PlanTyped ==
    /\ plan \in Plans
    /\ run \in [st : RunStates, at : Nat] /\ run.at <= Len(plan.steps)
    /\ trail \in [applies : 0 .. MaxApplies, origin : RowTables, mixed : BOOLEAN,
                  blind : BOOLEAN, hand : 0 .. MaxByHand, unread : SUBSET DOMAIN plan.steps]

BusyValid ==
    Busy => run.at # 0 /\ \A n \in DOMAIN plan.steps : Valid(plan.steps[n])

\* What is shown of a step whose row could not be read.
NoRow(s) == SemanticDiff(s, Named(seen, s), NoWords)

Previews ==
    UNION {{Preview(seen, plan.steps[n]), NoRow(plan.steps[n]), NotShown} : n \in DOMAIN plan.steps}

\* What has been shown is about the rows seen, but for the steps whose reads failed,
\* and there is all of it or nothing unless the preview is under way.
Shows ==
    /\ shown \in Seq(Previews)
    /\ \A n \in (1 .. Len(shown)) \ trail.unread : shown[n] = Preview(seen, plan.steps[n])
    /\ IF run.st = "previewing" THEN Len(shown) + 1 = run.at /\ seen = menu.rows
       ELSE Len(shown) \in {0, Len(plan.steps)}

PlanInv == SafeInv /\ PlanTyped /\ BusyValid /\ Shows

LEMMA PlanSteps ==
    ASSUME PlanTyped
    PROVE  /\ plan.steps \in Seq(PlanStep) /\ Len(plan.steps) \in Nat
           /\ DOMAIN plan.steps = 1 .. Len(plan.steps)
           /\ \A n \in DOMAIN plan.steps :
                 /\ plan.steps[n] \in PlanStep
                 /\ plan.steps[n].op = "create" => plan.steps[n].props \in NewWords \cup {NoWords}
<1>1. plan.steps \in Seq(PlanStep)
  BY PlanAssumption DEF PlanTyped
<1>2. Len(plan.steps) \in Nat /\ DOMAIN plan.steps = 1 .. Len(plan.steps)
      /\ \A n \in DOMAIN plan.steps : plan.steps[n] \in PlanStep
  BY <1>1, LenProperties
<1> QED BY <1>1, <1>2, PlanAssumption DEF PlanTyped

LEMMA PlanInitInv == PlanInit => PlanInv
<1> SUFFICES ASSUME PlanInit PROVE PlanInv
  OBVIOUS
<1>1. SafeInv
  BY InitSafe DEF PlanInit
<1>2. /\ plan \in Plans /\ run = [st |-> "idle", at |-> 0] /\ shown = <<>>
      /\ trail = [applies |-> 0, origin |-> base, mixed |-> FALSE, blind |-> FALSE, hand |-> 0,
                   unread |-> {}]
  BY DEF PlanInit
<1>3. base \in RowTables
  <2>1. base \in Seq(Row)
    BY <1>1 DEF SafeInv, Typed
  <2>2. base \in [1 .. Len(base) -> Row] /\ 1 .. Len(base) \in SUBSET Nat
    BY <2>1, LenProperties
  <2> QED BY <2>2 DEF RowTables
<1>4. plan.steps \in Seq(PlanStep) /\ Len(plan.steps) \in Nat
  BY <1>2, PlanAssumption, LenProperties
<1>5. PlanTyped
  <2>1. run \in [st : RunStates, at : Nat] /\ run.at <= Len(plan.steps)
    BY <1>2, <1>4 DEF RunStates
  <2>2. trail \in [applies : 0 .. MaxApplies, origin : RowTables, mixed : BOOLEAN,
                   blind : BOOLEAN, hand : 0 .. MaxByHand, unread : SUBSET DOMAIN plan.steps]
    BY <1>2, <1>3, PlanAssumption
  <2> QED BY <1>2, <2>1, <2>2 DEF PlanTyped
<1>6. BusyValid
  BY <1>2 DEF BusyValid, Busy
<1>7. Shows
  <2>1. Len(shown) = 0 /\ shown \in Seq(Previews)
    BY <1>2, EmptySeq
  <2> QED BY <1>2, <2>1 DEF Shows
<1> QED BY <1>1, <1>5, <1>6, <1>7 DEF PlanInv

\* A step that passes validation.
WellFormed(s) ==
    /\ s \in PlanStep /\ s.op \in {"create", "set", "delete", "enable", "disable"}
    /\ s.op = "create" => s.props \in NewWords /\ s.id = None /\ s.comment = None
    /\ s.op = "set" => s.props \in SetWords
    /\ s.op \in {"delete", "enable", "disable"} => s.props = NoWords

LEMMA ValidSays ==
    ASSUME PlanTyped, NEW n \in DOMAIN plan.steps, Valid(plan.steps[n])
    PROVE  WellFormed(plan.steps[n])
<1>1. PICK s \in PlanStep : s = plan.steps[n]
  BY PlanSteps
<1>2. Valid(s) /\ (s.op = "create" => s.props \in NewWords \cup {NoWords})
  BY <1>1, PlanSteps
<1>3. s.props \in SetWords \cup {NoWords}
  BY DEF PlanStep
<1>4. s.op \in Ops
  BY <1>2 DEF Valid
<1>5. s.op = "create" => s.props # NoWords /\ {s.id, s.comment} \ {None} = {}
  BY <1>2 DEF Valid
<1>6. s.op = "set" => s.props # NoWords
  BY <1>2 DEF Valid
<1>7. s.op \in {"delete", "enable", "disable"} => s.props = NoWords
  BY <1>2 DEF Valid
<1> QED BY <1>1, <1>2, <1>3, <1>4, <1>5, <1>6, <1>7 DEF Ops, WellFormed

LEMMA ValidStep ==
    ASSUME PlanInv, run.st = "applying"
    PROVE  /\ run.at \in DOMAIN plan.steps /\ WellFormed(This)
           /\ \A n \in DOMAIN plan.steps : WellFormed(plan.steps[n])
<1>1. /\ Len(plan.steps) \in Nat /\ DOMAIN plan.steps = 1 .. Len(plan.steps)
      /\ run.at \in Nat /\ run.at <= Len(plan.steps) /\ run.at # 0
      /\ \A n \in DOMAIN plan.steps : Valid(plan.steps[n])
  BY PlanSteps DEF PlanInv, PlanTyped, BusyValid, Busy
<1>2. \A n \in DOMAIN plan.steps : WellFormed(plan.steps[n])
  BY <1>1, ValidSays DEF PlanInv
<1> QED BY <1>1, <1>2 DEF This

LEMMA StepFaithful ==
    ASSUME PlanInv, NEW id, ApplyStep(id) \/ ApplyUnseen(id) \/ ApplyLost(id)
    PROVE  Faithful
<1>1. Typed /\ run.st = "applying" /\ Target(This, id)
  BY DEF PlanInv, SafeInv, ApplyStep, ApplyUnseen, ApplyLost, Applying
<1>2. PICK s \in PlanStep : s = This
  BY <1>1, ValidStep DEF WellFormed
<1>3. /\ s.op = "create" => s.props \in NewWords /\ s.id = None /\ s.comment = None
      /\ s.op = "set" => s.props \in SetWords
      /\ s.op \in {"delete", "enable", "disable"} => s.props = NoWords
      /\ s.op \in {"create", "set", "delete", "enable", "disable"}
  BY <1>1, <1>2, ValidStep DEF WellFormed
<1>4. \/ StepNeeded(s, id) \/ StepUnseen(s, id)
      \/ (s.op # "create" => id \in Present) /\ AmbiguousWrite(StepCommand(s, id))
  BY <1>2 DEF ApplyStep, ApplyUnseen, ApplyLost
<1>5. CASE s.op = "create"
  <2>1. id = None
    BY <1>1, <1>2, <1>3, <1>5 DEF Target
  <2>2. PICK w : w = s.props
    OBVIOUS
  <2>3. w \in NewWords /\ w \in SetWords
    BY <1>3, <1>5, <2>2 DEF SetWords
  <2>4. Create(w) \/ ExecAdd(w) \/ AmbiguousWrite(Command("add", None, w))
    BY <1>4, <1>5, <2>1, <2>2 DEF StepNeeded, StepUnseen, StepCommand
  <2>5. w \in WordSets /\ IsWords(w) /\ "name" \in DOMAIN w
    BY <2>3, SetWordsAreWords
  <2> QED BY <1>1, <2>4, <2>5, AddFaithful
<1>6. CASE s.op = "set"
  <2>1. PICK w : w = s.props
    OBVIOUS
  <2>2. id \in Present
    BY <1>4, <1>6 DEF StepNeeded, StepUnseen
  <2>3. \/ Set(id, w) \/ Unjournaled(Command("set", id, w))
        \/ AmbiguousWrite(Command("set", id, w))
    BY <1>4, <1>6, <2>1 DEF StepNeeded, StepUnseen, StepCommand
  <2>4. w \in WordSets /\ IsWords(w)
    BY <1>3, <1>6, <2>1, SetWordsAreWords
  <2> QED BY <1>1, <2>2, <2>3, <2>4, SetFaithful
<1>7. CASE s.op = "delete"
  <2>1. id \in Present
    BY <1>4, <1>7 DEF StepNeeded, StepUnseen
  <2>2. \/ Delete(id) \/ Unjournaled(Command("remove", id, NoWords))
        \/ AmbiguousWrite(Command("remove", id, NoWords))
    BY <1>3, <1>4, <1>7 DEF StepNeeded, StepUnseen, StepCommand
  <2> QED BY <1>1, <2>1, <2>2, DeleteFaithful
<1>8. CASE s.op \in {"enable", "disable"}
  <2>1. id \in Present
    BY <1>4, <1>8 DEF StepNeeded, StepUnseen
  <2>2. PICK verb \in {"enable", "disable"} : verb = s.op
    BY <1>8
  <2>3. \/ Toggle(id, verb) \/ ToggleUnseen(id, verb)
        \/ AmbiguousWrite(Command(verb, id, NoWords))
    BY <1>3, <1>4, <1>8, <2>2 DEF StepNeeded, StepUnseen, StepCommand
  <2> QED BY <1>1, <2>1, <2>3, ToggleFaithful
<1> QED BY <1>3, <1>5, <1>6, <1>7, <1>8

\* Each step of the plan is a write as it should be, what the operator may do besides,
\* or leaves the router and the session alone.
LEMMA PlanNextIs == PlanInv /\ [PlanNext]_planVars => Faithful \/ [Next]_vars
<1> SUFFICES ASSUME PlanInv, [PlanNext]_planVars PROVE Faithful \/ [Next]_vars
  OBVIOUS
<1>1. CASE ByHand
  BY <1>1 DEF ByHand
<1>2. ASSUME NEW id, ApplyStep(id) \/ ApplyUnseen(id) \/ ApplyLost(id)
      PROVE  Faithful
  BY <1>2, StepFaithful
<1>3. CASE UNCHANGED vars
  BY <1>3
<1>4. CASE UNCHANGED planVars
  BY <1>4 DEF planVars
<1> QED BY <1>1, <1>2, <1>3, <1>4
        DEF PlanNext, StartPreview, PreviewStep, PreviewUnread, Show, StartApply,
            ApplyNothing, ApplyFails

\* A step counts one write more, if it makes one.
LEMMA WritesGrow ==
    ASSUME Typed, Next
    PROVE  writes \in Nat /\ writes' \in {writes, writes + 1}
<1>1. writes \in Nat
  BY SafeAssumption DEF Typed, SafeAssumption
<1>2. Faithful => writes' = writes + 1
  BY DEF Faithful, Write
<1>3. Ending => writes' = writes
  BY DEF Ending, StartRollback, Undo, UndoRefused, Interrupted, GiveUp, MarkRolledBack, Commit
<1> QED BY <1>1, <1>2, <1>3, NextIs

LEMMA ByHandPlan ==
    ASSUME PlanInv, ByHand
    PROVE  PlanTyped' /\ BusyValid' /\ Shows'
<1>1. plan' = plan /\ run' = run /\ shown' = shown /\ seen' = seen /\ ~Busy
  BY DEF ByHand
<1>2. writes \in Nat /\ writes' \in {writes, writes + 1}
  BY WritesGrow DEF ByHand, PlanInv, SafeInv
<1>3. trail'.hand \in 0 .. MaxByHand /\ trail'.mixed \in BOOLEAN
      /\ trail' = [trail EXCEPT !.hand = trail'.hand, !.mixed = trail'.mixed]
  <2>1. PICK h : h = IF plan.steps # <<>> THEN trail.hand + (writes' - writes) ELSE trail.hand
    OBVIOUS
  <2>2. PICK b \in BOOLEAN : b = (trail.mixed \/ (trail.applies > 0 /\ menu' # menu))
    BY DEF PlanInv, PlanTyped
  <2>3. trail' = [trail EXCEPT !.hand = h, !.mixed = b]
    BY <2>1, <2>2 DEF ByHand
  <2>4. trail'.hand = h /\ trail'.mixed = b
    BY <2>3 DEF PlanInv, PlanTyped
  <2>5. trail.hand \in 0 .. MaxByHand /\ MaxByHand \in Nat
    BY PlanAssumption DEF PlanInv, PlanTyped
  <2>6. plan.steps # <<>> /\ writes' # writes => trail.hand < MaxByHand
    BY DEF ByHand
  <2>7. h \in 0 .. MaxByHand
    <3>1. CASE plan.steps # <<>> /\ writes' = writes + 1
      <4>1. h = trail.hand + 1 /\ trail.hand < MaxByHand
        BY <1>2, <2>1, <2>5, <2>6, <3>1
      <4> QED BY <2>5, <4>1
    <3>2. CASE plan.steps # <<>> /\ writes' = writes
      BY <1>2, <2>1, <2>5, <3>2
    <3>3. CASE plan.steps = <<>>
      BY <2>1, <2>5, <3>3
    <3> QED BY <1>2, <3>1, <3>2, <3>3
  <2> QED BY <2>2, <2>3, <2>4, <2>7
<1>4. PlanTyped'
  BY <1>1, <1>3 DEF PlanInv, PlanTyped
<1>5. BusyValid'
  BY <1>1 DEF BusyValid, Busy
<1>6. Shows'
  <2>1. trail'.unread = trail.unread
    BY <1>3 DEF PlanInv, PlanTyped
  <2> QED BY <1>1, <2>1 DEF PlanInv, Shows, Previews, NoRow, Busy
<1> QED BY <1>4, <1>5, <1>6

\* The file is loaded and validated again.
LEMMA BeginSays ==
    ASSUME PlanInv, NEW st \in {"previewing", "applying"}, Begin(st), plan' = plan
    PROVE  /\ ~Busy /\ run' \in [st : RunStates, at : Nat] /\ run'.at <= Len(plan.steps)
           /\ run' = [st |-> st, at |-> 1] \/ run' = [st |-> "invalid", at |-> 0]
           /\ BusyValid'
<1>1. plan.steps \in Seq(PlanStep) /\ Len(plan.steps) \in Nat /\ plan.steps # <<>>
  BY PlanSteps DEF PlanInv, Begin
<1>2. 1 <= Len(plan.steps)
  BY <1>1
<1>3. \/ run' = [st |-> st, at |-> 1] /\ \A n \in DOMAIN plan.steps : Valid(plan.steps[n])
      \/ run' = [st |-> "invalid", at |-> 0]
  BY DEF Begin
<1>4. run' \in [st : RunStates, at : Nat] /\ run'.at <= Len(plan.steps)
  BY <1>1, <1>2, <1>3 DEF RunStates
<1>5. BusyValid'
  BY <1>3 DEF BusyValid, Busy, Valid, Ops
<1> QED BY <1>3, <1>4, <1>5 DEF Begin

LEMMA StartPreviewPlan ==
    ASSUME PlanInv, StartPreview
    PROVE  PlanTyped' /\ BusyValid' /\ Shows'
<1>1. /\ Begin("previewing") /\ shown = <<>> /\ seen' = menu.rows
      /\ menu' = menu /\ plan' = plan /\ shown' = shown
      /\ trail' = [trail EXCEPT !.unread = {}]
  BY DEF StartPreview, vars
<1>2. /\ run' \in [st : RunStates, at : Nat] /\ run'.at <= Len(plan.steps)
      /\ run' = [st |-> "previewing", at |-> 1] \/ run' = [st |-> "invalid", at |-> 0]
      /\ BusyValid'
  BY <1>1, BeginSays
<1>3. PlanTyped'
  BY <1>1, <1>2 DEF PlanInv, PlanTyped
<1>4. shown' \in Seq(Previews') /\ Len(shown') = 0
  BY <1>1, EmptySeq
<1>5. Shows'
  BY <1>1, <1>2, <1>4 DEF Shows
<1> QED BY <1>2, <1>3, <1>5

\* A step of a preview shows what its rows say, if they were read.
LEMMA StepShows ==
    ASSUME PlanInv, PreviewStep \/ PreviewUnread
    PROVE  /\ run.st = "previewing" /\ run.at \in DOMAIN plan.steps
           /\ menu' = menu /\ plan' = plan /\ seen' = seen
           /\ run' = IF run.at = Len(plan.steps) THEN [st |-> "idle", at |-> 0]
                     ELSE [run EXCEPT !.at = run.at + 1]
           /\ \E p \in Previews :
                 /\ shown' = Append(shown, p)
                 /\ p = Preview(seen, plan.steps[run.at]) \/ run.at \in trail'.unread
           /\ \E u \in {{}, {run.at}} :
                 trail' = [trail EXCEPT !.unread = trail.unread \cup u]
<1>1. /\ run.st = "previewing"
      /\ \E p : Show(p)
      /\ \E u \in {{}, {run.at}} : trail' = [trail EXCEPT !.unread = trail.unread \cup u]
  <2>1. CASE PreviewStep
    <3>1. trail' = [trail EXCEPT !.unread = trail.unread \cup {}]
      BY <2>1 DEF PreviewStep, PlanInv, PlanTyped
    <3> QED BY <2>1, <3>1 DEF PreviewStep
  <2>2. CASE PreviewUnread
    BY <2>2 DEF PreviewUnread
  <2> QED BY <2>1, <2>2
<1>2. /\ menu' = menu /\ plan' = plan /\ seen' = seen
      /\ run' = IF run.at = Len(plan.steps) THEN [st |-> "idle", at |-> 0]
                ELSE [run EXCEPT !.at = run.at + 1]
  BY <1>1 DEF Show, vars
<1>3. run.at \in DOMAIN plan.steps
  <2>1. /\ Len(plan.steps) \in Nat /\ DOMAIN plan.steps = 1 .. Len(plan.steps)
        /\ run.at \in Nat /\ run.at <= Len(plan.steps) /\ run.at # 0
    BY <1>1, PlanSteps DEF PlanInv, PlanTyped, BusyValid, Busy
  <2> QED BY <2>1
<1>4. seen = menu.rows
  BY <1>1 DEF PlanInv, Shows
<1>5. \E p \in Previews :
         /\ shown' = Append(shown, p)
         /\ p = Preview(seen, plan.steps[run.at]) \/ run.at \in trail'.unread
  <2>1. CASE PreviewStep
    <3>1. shown' = Append(shown, Preview(seen, plan.steps[run.at]))
      BY <1>4, <2>1 DEF PreviewStep, Show, This
    <3> QED BY <1>3, <3>1 DEF Previews
  <2>2. CASE PreviewUnread
    <3>1. \/ shown' = Append(shown, NotShown)
          \/ shown' = Append(shown, NoRow(plan.steps[run.at]))
      BY <1>4, <2>2 DEF PreviewUnread, Show, This, NoRow
    <3>2. run.at \in trail'.unread
      BY <2>2 DEF PreviewUnread, PlanInv, PlanTyped
    <3> QED BY <1>3, <3>1, <3>2 DEF Previews
  <2> QED BY <2>1, <2>2
<1> QED BY <1>1, <1>2, <1>3, <1>5

\* A preview leaves the router and the run of an apply alone.
LEMMA PreviewSays ==
    ASSUME PlanInv, StartPreview \/ PreviewStep \/ PreviewUnread
    PROVE  /\ run'.st \notin {"applying", "applied"}
           /\ menu' = menu /\ trail' = [trail EXCEPT !.unread = trail'.unread]
<1>1. CASE StartPreview
  <2>1. trail' = [trail EXCEPT !.unread = {}] /\ menu' = menu
    BY <1>1 DEF StartPreview, vars
  <2>2. run'.st \notin {"applying", "applied"}
    BY <1>1 DEF StartPreview, Begin
  <2> QED BY <2>1, <2>2 DEF PlanInv, PlanTyped
<1>2. CASE PreviewStep \/ PreviewUnread
  <2>1. PICK u \in {{}, {run.at}} : trail' = [trail EXCEPT !.unread = trail.unread \cup u]
    BY <1>2, StepShows
  <2>2. trail' = [trail EXCEPT !.unread = trail'.unread]
    BY <2>1 DEF PlanInv, PlanTyped
  <2>3. run'.st \in {"idle", "previewing"}
    BY <1>2, StepShows DEF PlanInv, PlanTyped
  <2> QED BY <1>2, <2>2, <2>3, StepShows
<1> QED BY <1>1, <1>2

LEMMA PreviewPlan ==
    ASSUME PlanInv, PreviewStep \/ PreviewUnread
    PROVE  PlanTyped' /\ BusyValid' /\ Shows'
<1>1. PICK u \in {{}, {run.at}} : trail' = [trail EXCEPT !.unread = trail.unread \cup u]
  BY StepShows
<1>2. /\ run.st = "previewing" /\ run.at \in DOMAIN plan.steps
      /\ run' = IF run.at = Len(plan.steps) THEN [st |-> "idle", at |-> 0]
                ELSE [run EXCEPT !.at = run.at + 1]
      /\ menu' = menu /\ plan' = plan /\ seen' = seen
  BY StepShows
<1>3. /\ Len(plan.steps) \in Nat /\ DOMAIN plan.steps = 1 .. Len(plan.steps)
      /\ run.at \in Nat /\ run.at <= Len(plan.steps) /\ run.at # 0
      /\ run \in [st : RunStates, at : Nat]
      /\ \A n \in DOMAIN plan.steps : Valid(plan.steps[n])
  BY <1>2, PlanSteps DEF PlanInv, PlanTyped, BusyValid, Busy
<1>4. trail'.unread = trail.unread \cup u /\ trail.unread \subseteq trail'.unread
  BY <1>1 DEF PlanInv, PlanTyped
<1>5. /\ shown \in Seq(Previews) /\ Len(shown) \in Nat /\ Len(shown) + 1 = run.at
      /\ seen = menu.rows
      /\ \A n \in (1 .. Len(shown)) \ trail.unread : shown[n] = Preview(seen, plan.steps[n])
  BY <1>2, LenProperties DEF PlanInv, Shows
<1>6. PICK p \in Previews :
         /\ shown' = Append(shown, p)
         /\ p = Preview(seen, plan.steps[run.at]) \/ run.at \in trail'.unread
  BY StepShows
<1>7. /\ shown' \in Seq(Previews) /\ Len(shown') = run.at /\ shown'[run.at] = p
      /\ \A n \in 1 .. Len(shown) : shown'[n] = shown[n]
  BY <1>5, <1>6, AppendProperties
<1>8. \A n \in (1 .. Len(shown')) \ trail'.unread : shown'[n] = Preview(seen, plan.steps[n])
  <2> SUFFICES ASSUME NEW n \in 1 .. Len(shown'), n \notin trail'.unread
               PROVE  shown'[n] = Preview(seen, plan.steps[n])
    OBVIOUS
  <2>1. n \in 1 .. Len(shown) \/ n = run.at
    BY <1>3, <1>5, <1>7
  <2> QED BY <1>4, <1>5, <1>6, <1>7, <2>1
<1>9. Previews' = Previews
  BY <1>2 DEF Previews, NoRow, NotShown, Preview, Resolves, Named, SemanticDiff, WithComment
<1>10. \/ run' = [st |-> "idle", at |-> 0] /\ run.at = Len(plan.steps)
       \/ run' = [st |-> "previewing", at |-> run.at + 1] /\ run.at # Len(plan.steps)
  BY <1>2, <1>3
<1>11. run' \in [st : RunStates, at : Nat] /\ run'.at <= Len(plan.steps)
  BY <1>3, <1>10 DEF RunStates
<1>12. PlanTyped'
  BY <1>1, <1>2, <1>11 DEF PlanInv, PlanTyped
<1>13. BusyValid'
  <2>1. \A n \in DOMAIN plan'.steps : Valid(plan'.steps[n])
    BY <1>2, <1>3
  <2>2. Busy' => run'.at # 0
    BY <1>3, <1>10 DEF Busy
  <2> QED BY <2>1, <2>2 DEF BusyValid
<1>14. \A n \in (1 .. Len(shown')) \ trail'.unread : shown'[n] = Preview(seen', plan'.steps[n])
  BY <1>2, <1>8
<1>15. Shows'
  BY <1>2, <1>3, <1>5, <1>7, <1>9, <1>10, <1>14 DEF Shows
<1> QED BY <1>12, <1>13, <1>15

LEMMA StartApplyPlan ==
    ASSUME PlanInv, NEW confirmed \in BOOLEAN, StartApply(confirmed)
    PROVE  PlanTyped' /\ BusyValid' /\ Shows'
<1>1. PICK o : o = IF trail.applies = 0 THEN menu.rows ELSE trail.origin
  OBVIOUS
<1>2. /\ Begin("applying") /\ trail.applies < MaxApplies
      /\ trail' = [trail EXCEPT !.applies = trail.applies + 1, !.origin = o]
      /\ plan' = plan /\ shown' = shown /\ seen' = seen
  BY <1>1 DEF StartApply
<1>3. /\ run' \in [st : RunStates, at : Nat] /\ run'.at <= Len(plan.steps) /\ ~Busy
      /\ run' = [st |-> "applying", at |-> 1] \/ run' = [st |-> "invalid", at |-> 0]
      /\ BusyValid'
  BY <1>2, BeginSays
<1>4. menu.rows \in RowTables
  BY DEF PlanInv, SafeInv, Typed, Menus, RowTables
<1>5. trail \in [applies : 0 .. MaxApplies, origin : RowTables, mixed : BOOLEAN,
                 blind : BOOLEAN, hand : 0 .. MaxByHand, unread : SUBSET DOMAIN plan.steps]
  BY DEF PlanInv, PlanTyped
<1>6. o \in RowTables /\ trail.applies + 1 \in 0 .. MaxApplies
  BY <1>1, <1>2, <1>4, <1>5, PlanAssumption
<1>7. PlanTyped'
  BY <1>2, <1>3, <1>5, <1>6 DEF PlanInv, PlanTyped
<1>8. Shows'
  BY <1>2, <1>3, <1>5 DEF PlanInv, Shows, Previews, NoRow, Busy
<1> QED BY <1>3, <1>7, <1>8

\* The steps of an apply: on, or to the end.
LEMMA ApplyPlan ==
    ASSUME PlanInv, run.st = "applying", Advance \/ Fail,
           UNCHANGED <<plan, shown, seen>>, trail' \in {trail, [trail EXCEPT !.blind = TRUE]}
    PROVE  PlanTyped' /\ BusyValid' /\ Shows'
<1>1. /\ Len(plan.steps) \in Nat /\ run.at \in Nat /\ run.at <= Len(plan.steps) /\ run.at # 0
      /\ run = [st |-> "applying", at |-> run.at]
      /\ \A n \in DOMAIN plan.steps : Valid(plan.steps[n])
  BY PlanSteps DEF PlanInv, PlanTyped, BusyValid, Busy
<1>2. \/ run' = [st |-> "applied", at |-> run.at] \/ run' = [st |-> "failed", at |-> run.at]
      \/ run' = [st |-> "applying", at |-> run.at + 1] /\ run.at # Len(plan.steps)
  BY <1>1 DEF Advance, Fail
<1>3. run' \in [st : RunStates, at : Nat] /\ run'.at <= Len(plan.steps)
  BY <1>1, <1>2 DEF RunStates
<1>4. PlanTyped'
  BY <1>3 DEF PlanInv, PlanTyped
<1>5. BusyValid'
  <2>1. \A n \in DOMAIN plan'.steps : Valid(plan'.steps[n])
    BY <1>1
  <2>2. run'.at # 0
    BY <1>1, <1>2
  <2> QED BY <2>1, <2>2 DEF BusyValid
<1>6. Shows'
  BY <1>2 DEF PlanInv, PlanTyped, Shows, Previews, NoRow
<1> QED BY <1>4, <1>5, <1>6

LEMMA PlanNextInv == PlanInv /\ [PlanNext]_planVars => PlanInv'
<1> SUFFICES ASSUME PlanInv, [PlanNext]_planVars PROVE PlanInv'
  OBVIOUS
<1>1. SafeInv'
  BY PlanNextIs, FaithfulSafe, NextSafe DEF PlanInv
<1>2. CASE UNCHANGED planVars
  <2>1. plan' = plan /\ run' = run /\ shown' = shown /\ seen' = seen /\ trail' = trail /\ menu' = menu
    BY <1>2 DEF planVars, vars
  <2>2. PlanTyped' /\ BusyValid' /\ Shows'
    BY <2>1 DEF PlanInv, PlanTyped, BusyValid, Busy, Shows, Previews, NoRow
  <2> QED BY <1>1, <2>2 DEF PlanInv
<1>3. ASSUME \/ \E id : ApplyStep(id) \/ ApplyUnseen(id) \/ ApplyNothing(id) \/ ApplyLost(id)
             \/ ApplyFails
      PROVE  PlanTyped' /\ BusyValid' /\ Shows'
  <2>1. /\ run.st = "applying" /\ (Advance \/ Fail)
        /\ UNCHANGED <<plan, shown, seen>> /\ trail' \in {trail, [trail EXCEPT !.blind = TRUE]}
    BY <1>3 DEF ApplyStep, ApplyUnseen, ApplyNothing, ApplyLost, ApplyFails, Applying
  <2> QED BY <2>1, ApplyPlan
<1>4. CASE PlanNext
  <2>1. PlanTyped' /\ BusyValid' /\ Shows'
    BY <1>3, <1>4, ByHandPlan, StartPreviewPlan, PreviewPlan, StartApplyPlan DEF PlanNext
  <2> QED BY <1>1, <2>1 DEF PlanInv
<1> QED BY <1>2, <1>4

\* The invariant of a plan: that of the session it writes in, and what has been shown
\* of it is a preview of the rows seen.
THEOREM PlanInvariant == PlanSpec => []PlanInv
BY PlanInitInv, PlanNextInv, PTL DEF PlanSpec

\* Type correctness of a plan: no run of it goes past its last step, and no preview
\* says more than there are steps.
THEOREM PlanTypeCorrect == PlanSpec => []PlanTypeOK
<1>1. ASSUME PlanInv PROVE PlanTypeOK
  <2>1. /\ run.st \in RunStates /\ run.at \in Nat /\ run.at <= Len(plan.steps)
        /\ Len(plan.steps) \in Nat
    BY <1>1, PlanSteps DEF PlanInv, PlanTyped
  <2>2. run.at \in 0 .. Len(plan.steps)
    BY <2>1
  <2>3. Len(shown) <= Len(plan.steps)
    BY <1>1, <2>1, LenProperties DEF PlanInv, Shows
  <2> QED BY <1>1, <2>1, <2>2, <2>3, TypedIsTypeOK
          DEF PlanInv, SafeInv, PlanTyped, PlanTypeOK, RunStates
<1> QED BY <1>1, PlanInvariant, PTL

\* A rollback of a session in which a plan was applied, in part or twice, and rows
\* were written by hand, leaves the rows the session found (applySessionRollback in
\* cmd/session.go, over what runPlanApply has journaled).
THEOREM PlansRestore == PlanSpec => []RollbackRestores
<1>1. PlanInv => RollbackRestores
  BY SafeInvRestores DEF PlanInv
<1> QED BY <1>1, PlanInvariant, PTL

\* As long as the router has room, that rollback is refused half-way exactly when a
\* row was changed and then deleted, by the plan or by hand.
THEOREM PlanRowsBlock ==
    ASSUME RoomToUndo
    PROVE  PlanSpec => []ReplacedRowsBlock
<1>1. PlanInit => BlockInv
  BY InitBlocks DEF PlanInit
<1>2. PlanInv /\ BlockInv /\ [PlanNext]_planVars => BlockInv'
  BY PlanNextIs, FaithfulBlocks, NextBlocks DEF PlanInv
<1>3. PlanInv /\ BlockInv => ReplacedRowsBlock
  BY BlockInvBlocks DEF PlanInv
<1> QED BY <1>1, <1>2, <1>3, PlanInvariant, PTL DEF PlanSpec

-----------------------------------------------------------------------------
(* What a preview said, and what the apply does.                            *)

\* A step of an apply that changes the menu is one of these.
LEMMA ApplyingIs ==
    ASSUME [PlanNext]_planVars, run.st = "applying", menu' # menu
    PROVE  \E id : ApplyStep(id) \/ ApplyUnseen(id) \/ ApplyLost(id)
<1>1. ~ByHand
  BY DEF ByHand, Busy
<1>2. UNCHANGED vars \/ UNCHANGED planVars => menu' = menu
  BY DEF vars, planVars
<1> QED BY <1>1, <1>2
        DEF PlanNext, StartPreview, PreviewStep, PreviewUnread, Show, StartApply,
            ApplyNothing, ApplyFails

\* They run the command of the step.
LEMMA StepRuns ==
    ASSUME PlanInv, NEW id, ApplyStep(id) \/ ApplyUnseen(id) \/ ApplyLost(id)
    PROVE  /\ Target(This, id) /\ menu' = Run(menu, StepCommand(This, id))
           /\ Accepts(menu, StepCommand(This, id))
           /\ StepCommand(This, id) \in Commands
           /\ This.op = "create" => id = None
           /\ This.op # "create" => id \in Present
<1>1. run.st = "applying"
  BY DEF ApplyStep, ApplyUnseen, ApplyLost, Applying
<1>2. Target(This, id)
  BY DEF ApplyStep, ApplyUnseen, ApplyLost, Applying
<1>3. PICK s \in PlanStep : s = This
  BY <1>1, ValidStep DEF WellFormed
<1>4. /\ s.op = "create" => s.props \in NewWords /\ s.id = None /\ s.comment = None
      /\ s.op = "set" => s.props \in SetWords
      /\ s.op \in {"delete", "enable", "disable"} => s.props = NoWords
      /\ s.op \in {"create", "set", "delete", "enable", "disable"}
  BY <1>1, <1>3, ValidStep DEF WellFormed
<1>5. \/ StepNeeded(s, id) \/ StepUnseen(s, id)
      \/ (s.op # "create" => id \in Present) /\ AmbiguousWrite(StepCommand(s, id))
  BY <1>3 DEF ApplyStep, ApplyUnseen, ApplyLost
<1>6. /\ s.op = "create" => id = None
      /\ s.op # "create" => id \in Present
  <2>1. s.op = "create" => id = None
    BY <1>2, <1>3, <1>4 DEF Target
  <2>2. s.op # "create" => id \in Present
    BY <1>5 DEF StepNeeded, StepUnseen
  <2> QED BY <2>1, <2>2
<1>7. PICK verb \in Verbs : verb = CASE s.op = "create" -> "add" [] s.op = "delete" -> "remove"
                                      [] OTHER -> s.op
  BY <1>4 DEF Verbs
<1>8. PICK c : c = Command(verb, id, s.props)
  OBVIOUS
<1>9. StepCommand(s, id) = c
  BY <1>7, <1>8 DEF StepCommand
<1>10. \E entries, gap : Write(c, entries, gap)
  <2>1. CASE AmbiguousWrite(StepCommand(s, id))
    BY <1>9, <2>1 DEF AmbiguousWrite
  <2>2. CASE s.op = "create" /\ (StepNeeded(s, id) \/ StepUnseen(s, id))
    BY <1>6, <1>7, <1>8, <2>2 DEF StepNeeded, StepUnseen, Create, ExecAdd
  <2>3. CASE s.op = "set" /\ (StepNeeded(s, id) \/ StepUnseen(s, id))
    BY <1>7, <1>8, <1>9, <2>3 DEF StepNeeded, StepUnseen, Set, Unjournaled
  <2>4. CASE s.op = "delete" /\ (StepNeeded(s, id) \/ StepUnseen(s, id))
    BY <1>4, <1>7, <1>8, <1>9, <2>4 DEF StepNeeded, StepUnseen, Delete, Unjournaled
  <2>5. CASE s.op \in {"enable", "disable"} /\ (StepNeeded(s, id) \/ StepUnseen(s, id))
    BY <1>4, <1>7, <1>8, <2>5 DEF StepNeeded, StepUnseen, Toggle, ToggleUnseen
  <2> QED BY <1>4, <1>5, <2>1, <2>2, <2>3, <2>4, <2>5
<1>11. menu' = Run(menu, c) /\ (c.verb = "add" => menu.next <= MaxId)
  BY <1>10 DEF Write
<1>12. c.verb = verb /\ c.id = id
  BY <1>8 DEF Command
<1>13. verb = "add" <=> s.op = "create"
  BY <1>4, <1>7
<1>14. Accepts(menu, c)
  <2>1. menu.next \in Nat
    BY DEF PlanInv, SafeInv, Typed, Menus
  <2> QED BY <1>6, <1>11, <1>12, <1>13, <2>1, SafeAssumption DEF Accepts, SafeAssumption, Present
<1>15. c \in Commands
  <2>1. id \in Present => id \in Nat
    BY MenuRows DEF PlanInv, SafeInv, Typed, Present
  <2>2. PICK w : w = s.props
    OBVIOUS
  <2>3. w \in WordSets /\ IsWords(w) /\ (verb = "add" => "name" \in DOMAIN w)
    <3>1. CASE s.op \in {"create", "set"}
      <4>1. w \in SetWords
        BY <1>4, <2>2, <3>1 DEF SetWords
      <4>2. s.op = "create" => w \in NewWords
        BY <1>4, <2>2
      <4> QED BY <1>13, <4>1, <4>2, SetWordsAreWords
    <3>2. CASE s.op \in {"delete", "enable", "disable"}
      BY <1>4, <1>13, <2>2, <3>2, NoWordsAreWords
    <3> QED BY <1>4, <3>1, <3>2
  <2> QED BY <1>6, <1>8, <1>13, <2>1, <2>2, <2>3, CommandTyped
<1> QED BY <1>2, <1>3, <1>6, <1>9, <1>11, <1>14, <1>15

\* If the rows are still as seen, the preview was made of the row the step is about.
LEMMA SeenRow ==
    ASSUME NEW s, NEW id \in Present, s.op # "create", Target(s, id), StillAsSeen(s)
    PROVE  Preview(seen, s) = SemanticDiff(s, id, menu.rows[id])
<1>1. CASE s.comment = None
  <2>1. id = s.id /\ id \in DOMAIN seen /\ seen[id] = menu.rows[id]
    BY <1>1 DEF Target, StillAsSeen
  <2> QED BY <1>1, <2>1 DEF Preview, Resolves, Named
<1>2. CASE s.comment # None
  <2>1. PICK same : same = WithComment(seen, s.comment)
    OBVIOUS
  <2>2. WithComment(menu.rows, s.comment) = {id}
    BY <1>2 DEF Target, ByComment
  <2>3. same = {id} /\ \A i \in same : menu.rows[i] = seen[i]
    BY <1>2, <2>1, <2>2 DEF StillAsSeen
  <2>4. id \in DOMAIN seen /\ seen[id] = menu.rows[id]
    BY <2>1, <2>3 DEF WithComment
  <2>5. Cardinality(same) = 1 /\ (CHOOSE i \in same : TRUE) = id
    BY <2>3, FS_Singleton
  <2>6. PICK i : i = CHOOSE k \in same : TRUE
    OBVIOUS
  <2>7. Preview(seen, s) = SemanticDiff(s, i, IF i \in DOMAIN seen THEN seen[i] ELSE NoWords)
    BY <1>2, <2>1, <2>5, <2>6 DEF Preview, Resolves, Named
  <2> QED BY <2>4, <2>5, <2>6, <2>7
<1> QED BY <1>1, <1>2

\* The fields that differ are what there is to write.
LEMMA DiffIsEnough ==
    ASSUME NEW w, IsWords(w), NEW pre \in Row
    PROVE  /\ Over(DiffSet(pre, w), pre) = Over(w, pre)
           /\ DiffSet(pre, w) = NoWords => Over(w, pre) = pre
<1>1. DOMAIN pre = Fields /\ DOMAIN w \subseteq Fields /\ pre = [f \in Fields |-> pre[f]]
  BY RowFields DEF IsWords
<1>2. PICK d : d = DiffSet(pre, w)
  OBVIOUS
<1>3. /\ DOMAIN d = {g \in DOMAIN w : w[g] # pre[g]}
      /\ \A f \in DOMAIN d : d[f] = w[f]
  BY <1>1, <1>2 DEF DiffSet
<1>4. /\ Over(d, pre) = [f \in Fields |-> IF f \in DOMAIN d THEN d[f] ELSE pre[f]]
      /\ Over(w, pre) = [f \in Fields |-> IF f \in DOMAIN w THEN w[f] ELSE pre[f]]
  BY <1>1, <1>3 DEF Over
<1>5. \A f \in Fields : (IF f \in DOMAIN d THEN d[f] ELSE pre[f])
                          = (IF f \in DOMAIN w THEN w[f] ELSE pre[f])
  BY <1>3
<1>6. d = NoWords => \A f \in Fields : (IF f \in DOMAIN d THEN d[f] ELSE pre[f]) = pre[f]
  BY DEF NoWords
<1> QED BY <1>1, <1>2, <1>4, <1>5, <1>6

LEMMA CreateAsShown ==
    ASSUME menu \in Menus, NEW s, s.op = "create", StepCommand(s, None) \in Commands,
           Accepts(menu, StepCommand(s, None)), menu' = Run(menu, StepCommand(s, None))
    PROVE  LET what == SemanticDiff(s, None, NoWords)
           IN  /\ what.kind = "create"
               /\ \E i \in DOMAIN menu'.rows \ Present :
                     menu'.rows = With(menu.rows, i, Over(what.words, NewRow))
<1>1. SemanticDiff(s, None, NoWords) = Shown(TRUE, "create", None, s.props)
  BY DEF SemanticDiff
<1>2. PICK c \in Commands : c = StepCommand(s, None)
  OBVIOUS
<1>3. c.verb = "add" /\ c.words = s.props
  BY <1>2 DEF StepCommand, Command
<1>4. PICK n \in Menus : n = Run(menu, c) /\ n = menu'
  BY <1>2, RunSays
<1>5. /\ DOMAIN n.rows = Present \cup {menu.next}
      /\ n.rows[menu.next] = Over(s.props, NewRow)
      /\ \A i \in Present : n.rows[i] = menu.rows[i]
  BY <1>2, <1>3, <1>4, RunSays DEF Present
<1>6. menu.next \notin Present
  BY MenuRows DEF Present
<1>7. n.rows = [i \in DOMAIN n.rows |-> n.rows[i]]
  BY <1>4 DEF Menus
<1>8. n.rows = With(menu.rows, menu.next, Over(s.props, NewRow))
  BY <1>5, <1>7 DEF With, Present
<1> QED BY <1>1, <1>4, <1>5, <1>6, <1>8 DEF Shown

LEMMA DeleteAsShown ==
    ASSUME menu \in Menus, NEW s, s.op = "delete", NEW id \in Present,
           StepCommand(s, id) \in Commands, menu' = Run(menu, StepCommand(s, id))
    PROVE  LET what == SemanticDiff(s, id, menu.rows[id])
           IN  /\ what.kind = "remove"
               /\ menu'.rows = [i \in Present \ {what.id} |-> menu.rows[i]]
<1>1. menu.rows[id] # NoWords
  <2>1. menu.rows[id] \in Row
    BY MenuRows DEF Present
  <2>2. DOMAIN (menu.rows[id]) = Fields
    BY <2>1, RowFields
  <2> QED BY <2>2, NoWordsAreWords DEF Fields
<1>2. SemanticDiff(s, id, menu.rows[id]) = Shown(TRUE, "remove", id, NoWords)
  BY <1>1 DEF SemanticDiff
<1>3. StepCommand(s, id).verb = "remove" /\ StepCommand(s, id).id = id
  BY DEF StepCommand, Command
<1>4. menu' = [menu EXCEPT !.rows = [i \in DOMAIN menu.rows \ {id} |-> menu.rows[i]]]
  BY <1>3 DEF Run
<1>5. menu'.rows = [i \in Present \ {id} |-> menu.rows[i]]
  BY <1>4 DEF Menus, Present
<1> QED BY <1>2, <1>5 DEF Shown

LEMMA UpdateAsShown ==
    ASSUME menu \in Menus, NEW s, s.op \in {"set", "enable", "disable"}, NEW id \in Present,
           StepCommand(s, id) \in Commands, Accepts(menu, StepCommand(s, id)),
           menu' = Run(menu, StepCommand(s, id)), menu' # menu
    PROVE  LET what == SemanticDiff(s, id, menu.rows[id])
           IN  /\ what.kind = "update"
               /\ menu'.rows = [menu.rows EXCEPT ![what.id] = Over(what.words, @)]
<1>1. PICK pre \in Row : pre = menu.rows[id]
  BY MenuRows DEF Present
<1>2. PICK w : w = IF s.op = "set" THEN s.props ELSE Toggled(s.op)
  OBVIOUS
<1>3. PICK d : d = DiffSet(pre, w)
  OBVIOUS
<1>4. PICK c \in Commands : c = StepCommand(s, id)
  OBVIOUS
<1>5. c.verb = s.op /\ c.id = id /\ c.words = s.props
  BY <1>4 DEF StepCommand, Command
<1>6. w = Puts(c) /\ c.verb \in Changing
  BY <1>2, <1>5 DEF Puts, Toggled, Changing
<1>7. PICK n \in Menus : n = Run(menu, c) /\ n = menu'
  BY <1>4, RunSays
<1>8. /\ DOMAIN n.rows = Present /\ IsWords(w) /\ n.rows[id] = Over(w, pre)
      /\ \A i \in Present \ {id} : n.rows[i] = menu.rows[i]
      /\ n.next = menu.next /\ n.secrets = menu.secrets
  <2>1. c.verb # "add"
    BY <1>6 DEF Changing
  <2> QED BY <1>1, <1>4, <1>5, <1>6, <1>7, <2>1, RunSays DEF Present
<1>9. Over(d, pre) = Over(w, pre) /\ (d = NoWords => Over(w, pre) = pre)
  BY <1>3, <1>8, DiffIsEnough
<1>10. /\ n.rows = [i \in DOMAIN n.rows |-> n.rows[i]]
       /\ menu.rows = [i \in DOMAIN menu.rows |-> menu.rows[i]]
       /\ n = [rows |-> n.rows, next |-> n.next, secrets |-> n.secrets]
       /\ menu = [rows |-> menu.rows, next |-> menu.next, secrets |-> menu.secrets]
  BY DEF Menus
<1>11. n.rows = [menu.rows EXCEPT ![id] = Over(d, pre)]
  BY <1>8, <1>9, <1>10 DEF Present
<1>12. d # NoWords
  <2> SUFFICES ASSUME d = NoWords PROVE FALSE
    OBVIOUS
  <2>1. \A i \in Present : n.rows[i] = menu.rows[i]
    BY <1>1, <1>8, <1>9
  <2>2. n.rows = menu.rows
    BY <1>8, <1>10, <2>1 DEF Present
  <2> QED BY <1>7, <1>8, <1>10, <2>2
<1>13. SemanticDiff(s, id, menu.rows[id]) = Shown(TRUE, "update", id, d)
  BY <1>1, <1>2, <1>3, <1>12 DEF SemanticDiff
<1> QED BY <1>1, <1>7, <1>11, <1>13 DEF Shown

\* Whatever the other steps and writes by hand have done to other rows, a step of an
\* apply that changes the menu does what its preview showed, row and fields, if what
\* the preview said of is as it was and the reads it was made of were answered
\* (previewOneStep and applyOnePlanStep, which resolve a comment to a row and read the
\* row separately).
THEOREM PreviewsHonoured == PlanSpec => PreviewHonoured
<1>1. ASSUME PlanInv, [PlanNext]_planVars, run.st = "applying", menu' # menu,
             shown # <<>>, StillAsSeen(This), run.at \notin trail.unread
      PROVE  LET what == shown[run.at]
             IN CASE what.kind = "create" ->
                         \E i \in DOMAIN menu'.rows \ Present :
                             menu'.rows = With(menu.rows, i, Over(what.words, NewRow))
                  [] what.kind = "update" ->
                         menu'.rows = [menu.rows EXCEPT ![what.id] = Over(what.words, @)]
                  [] what.kind = "remove" ->
                         menu'.rows = [i \in Present \ {what.id} |-> menu.rows[i]]
                  [] OTHER -> FALSE
  <2>1. menu \in Menus
    BY <1>1 DEF PlanInv, SafeInv, Typed
  <2>2. PICK s : s = This
    OBVIOUS
  <2>3. /\ s.op \in {"create", "set", "delete", "enable", "disable"}
        /\ s.op = "create" => s.id = None /\ s.comment = None
        /\ run.at \in DOMAIN plan.steps
    BY <1>1, <2>2, ValidStep DEF WellFormed
  <2>4. PICK id : /\ Target(s, id) /\ menu' = Run(menu, StepCommand(s, id))
                  /\ Accepts(menu, StepCommand(s, id)) /\ StepCommand(s, id) \in Commands
                  /\ s.op = "create" => id = None
                  /\ s.op # "create" => id \in Present
    BY <1>1, <2>2, ApplyingIs, StepRuns
  <2>5. shown[run.at] = Preview(seen, s)
    <3>1. Len(plan.steps) \in Nat /\ DOMAIN plan.steps = 1 .. Len(plan.steps)
      BY <1>1, PlanSteps DEF PlanInv
    <3>2. shown \in Seq(Previews) /\ Len(shown) \in {0, Len(plan.steps)}
      BY <1>1 DEF PlanInv, Shows
    <3>3. Len(shown) # 0
      BY <1>1, <3>2, EmptySeq
    <3>4. run.at \in 1 .. Len(shown)
      BY <2>3, <3>1, <3>2, <3>3
    <3> QED BY <1>1, <2>2, <3>4 DEF PlanInv, Shows, This
  <2>6. PICK what : what = shown[run.at]
    OBVIOUS
  <2>7. CASE s.op = "create"
    <3>1. id = None /\ s.comment = None
      BY <2>3, <2>4, <2>7
    <3>2. what = SemanticDiff(s, None, NoWords)
      BY <2>3, <2>5, <2>6, <2>7, <3>1 DEF Preview, Resolves, Named, SemanticDiff
    <3>3. /\ what.kind = "create"
          /\ \E i \in DOMAIN menu'.rows \ Present :
                menu'.rows = With(menu.rows, i, Over(what.words, NewRow))
      BY <2>1, <2>4, <2>7, <3>1, <3>2, CreateAsShown
    <3> QED BY <2>6, <3>3
  <2>8. CASE s.op # "create"
    <3>1. what = SemanticDiff(s, id, menu.rows[id]) /\ id \in Present
      BY <1>1, <2>2, <2>4, <2>5, <2>6, <2>8, SeenRow
    <3>2. CASE s.op = "delete"
      <4>1. /\ what.kind = "remove"
            /\ menu'.rows = [i \in Present \ {what.id} |-> menu.rows[i]]
        BY <2>1, <2>4, <3>1, <3>2, DeleteAsShown
      <4> QED BY <2>6, <4>1
    <3>3. CASE s.op \in {"set", "enable", "disable"}
      <4>1. /\ what.kind = "update"
            /\ menu'.rows = [menu.rows EXCEPT ![what.id] = Over(what.words, @)]
        BY <1>1, <2>1, <2>4, <3>1, <3>3, UpdateAsShown
      <4> QED BY <2>6, <4>1
    <3> QED BY <2>3, <2>8, <3>2, <3>3
  <2> QED BY <2>7, <2>8
<1> QED BY <1>1, PlanInvariant, PTL DEF PlanSpec, PreviewHonoured

-----------------------------------------------------------------------------
(* What a plan means: a fold of its steps.                                  *)

LEMMA MaxIs ==
    ASSUME NEW S \in SUBSET Nat, NEW x \in S, \A y \in S : y <= x
    PROVE  Max(S) = x
<1>1. x >= x /\ \A y \in S : x >= y
  OBVIOUS
<1>2. PICK z : z = Max(S)
  OBVIOUS
<1>3. z \in S /\ \A y \in S : z >= y
  BY <1>1, <1>2 DEF Max
<1>4. z >= x /\ x >= z /\ z \in Nat
  BY <1>3
<1> QED BY <1>2, <1>4

LEMMA MaxSays ==
    ASSUME NEW S \in SUBSET Nat, NEW b \in Nat, \A i \in S : i < b
    PROVE  /\ Max(S \cup {0}) \in Nat /\ Max(S \cup {0}) \in S \cup {0}
           /\ \A i \in S : i <= Max(S \cup {0})
<1>1. PICK x \in S \cup {0} : \A i \in S \cup {0} : i <= x
  <2> DEFINE T == {n \in Nat : \/ \E x \in S \cup {0} : \A i \in S \cup {0} : i <= x
                               \/ \E i \in S \cup {0} : n <= i}
  <2>1. 0 \in T
    OBVIOUS
  <2>2. ASSUME NEW n \in Nat, n \in T PROVE n + 1 \in T
    <3>1. CASE \E x \in S \cup {0} : \A i \in S \cup {0} : i <= x
      BY <3>1
    <3>2. CASE ~ \E x \in S \cup {0} : \A i \in S \cup {0} : i <= x
      <4>1. PICK i \in S \cup {0} : n <= i
        BY <2>2, <3>2
      <4>2. PICK k \in S \cup {0} : ~(k <= i)
        BY <3>2
      <4>3. i \in Nat /\ k \in Nat
        OBVIOUS
      <4>4. n + 1 <= k
        BY <4>1, <4>2, <4>3
      <4> QED BY <4>4
    <3> QED BY <3>1, <3>2
  <2>3. b + 1 \in T
    <3> HIDE DEF T
    <3>1. \A n \in Nat : n \in T
      BY <2>1, <2>2, AllNaturals
    <3> QED BY <3>1
  <2>4. ~ \E i \in S \cup {0} : b + 1 <= i
    OBVIOUS
  <2> QED BY <2>3, <2>4
<1>2. Max(S \cup {0}) = x
  BY <1>1, MaxIs
<1> QED BY <1>1, <1>2

FoldStep(v, s, first, steps) ==
    IF s = {} THEN first ELSE Meant(v[s \ {Max(s)}], steps[Max(s)])

FoldSolves(v, first, steps, D) == \A s \in SUBSET D : v[s] = FoldStep(v, s, first, steps)

LEMMA FoldIs ==
    ASSUME NEW first, NEW steps
    PROVE  FoldLeft(Meant, first, steps)
             = (CHOOSE v : v = [s \in SUBSET DOMAIN steps |-> FoldStep(v, s, first, steps)])
                  [DOMAIN steps]
BY DEF FoldLeft, MapThenFoldSet, FoldStep

LEMMA FoldMore ==
    ASSUME NEW first, NEW steps, NEW k \in Nat, NEW v, FoldSolves(v, first, steps, 1 .. k)
    PROVE  \E u : FoldSolves(u, first, steps, 1 .. (k + 1))
<1> DEFINE u == [s \in SUBSET (1 .. (k + 1)) |->
                    IF k + 1 \in s THEN Meant(v[s \ {k + 1}], steps[k + 1]) ELSE v[s]]
<1>1. ASSUME NEW s \in SUBSET (1 .. k) PROVE u[s] = v[s] /\ s \in SUBSET (1 .. (k + 1))
  <2>1. k + 1 \notin s
    OBVIOUS
  <2> QED BY <2>1
<1>2. ASSUME NEW s \in SUBSET (1 .. (k + 1)), k + 1 \in s
      PROVE  u[s] = Meant(v[s \ {k + 1}], steps[k + 1]) /\ s \ {k + 1} \in SUBSET (1 .. k)
  BY <1>2
<1> HIDE DEF u
<1>3. ASSUME NEW s \in SUBSET (1 .. (k + 1)) PROVE u[s] = FoldStep(u, s, first, steps)
  <2>1. CASE k + 1 \in s
    <3>1. Max(s) = k + 1
      <4>1. s \in SUBSET Nat /\ \A y \in s : y <= k + 1
        OBVIOUS
      <4> QED BY <2>1, <4>1, MaxIs
    <3>2. u[s \ {k + 1}] = v[s \ {k + 1}]
      BY <1>1, <1>2, <2>1
    <3> QED BY <1>2, <2>1, <3>1, <3>2 DEF FoldStep
  <2>2. CASE k + 1 \notin s
    <3>1. s \in SUBSET (1 .. k) /\ s \ {Max(s)} \in SUBSET (1 .. k)
      <4>1. \A i \in s : i \in 1 .. k
        BY <2>2
      <4> QED BY <4>1
    <3>2. u[s] = v[s] /\ u[s \ {Max(s)}] = v[s \ {Max(s)}]
      BY <1>1, <3>1
    <3>3. v[s] = FoldStep(v, s, first, steps)
      BY <3>1 DEF FoldSolves
    <3> QED BY <3>2, <3>3 DEF FoldStep
  <2> QED BY <2>1, <2>2
<1> QED BY <1>3 DEF FoldSolves

LEMMA FoldSolvable ==
    ASSUME NEW first, NEW steps, NEW L \in Nat
    PROVE  \E v : FoldSolves(v, first, steps, 1 .. L)
<1> DEFINE S == {k \in Nat : \E v : FoldSolves(v, first, steps, 1 .. k)}
<1>1. 0 \in S
  <2>1. 1 .. 0 = {}
    OBVIOUS
  <2>2. FoldSolves([s \in SUBSET {} |-> first], first, steps, {})
    BY DEF FoldSolves, FoldStep
  <2> QED BY <2>1, <2>2
<1>2. ASSUME NEW k \in Nat, k \in S PROVE k + 1 \in S
  BY <1>2, FoldMore
<1> HIDE DEF S
<1>3. \A k \in Nat : k \in S
  BY <1>1, <1>2, AllNaturals
<1> QED BY <1>3 DEF S

\* The first n steps, for every n up to p.
Tower(h, p) ==
    /\ h[0] = trail.origin
    /\ \A n \in 1 .. p : h[n] = Meant(h[n - 1], plan.steps[n])

LEMMA FoldTower ==
    ASSUME NEW L \in Nat, DOMAIN plan.steps = 1 .. L, NEW h, Tower(h, L)
    PROVE  FoldLeft(Meant, trail.origin, plan.steps) = h[L]
<1>1. PICK first : first = trail.origin
  OBVIOUS
<1>2. PICK steps : steps = plan.steps
  OBVIOUS
<1>3. PICK v : FoldSolves(v, first, steps, 1 .. L)
  BY FoldSolvable
<1> DEFINE u == [s \in SUBSET (1 .. L) |-> v[s]]
           F(x) == [s \in SUBSET DOMAIN steps |-> FoldStep(x, s, first, steps)]
<1>4. u = F(u)
  <2>1. ASSUME NEW s \in SUBSET (1 .. L) PROVE u[s] = FoldStep(u, s, first, steps)
    <3>1. s \ {Max(s)} \in SUBSET (1 .. L)
      OBVIOUS
    <3>2. u[s] = v[s] /\ u[s \ {Max(s)}] = v[s \ {Max(s)}]
      BY <3>1
    <3> QED BY <1>3, <3>2 DEF FoldSolves, FoldStep
  <2> QED BY <1>2, <2>1
<1>5. PICK w : w = CHOOSE x : x = [s \in SUBSET DOMAIN steps |-> FoldStep(x, s, first, steps)]
  OBVIOUS
<1>6. w = F(w)
  BY <1>4, <1>5
<1>7. \A s \in SUBSET (1 .. L) : w[s] = FoldStep(w, s, first, steps)
  BY <1>2, <1>6
<1> HIDE DEF u, F
<1>8. FoldLeft(Meant, first, steps) = w[1 .. L]
  <2>1. FoldLeft(Meant, first, steps)
          = (CHOOSE x : x = [s \in SUBSET DOMAIN steps |-> FoldStep(x, s, first, steps)])
               [DOMAIN steps]
    BY FoldIs
  <2>2. DOMAIN steps = 1 .. L
    BY <1>2
  <2> QED BY <1>5, <2>1, <2>2
<1> DEFINE S == {n \in Nat : n <= L => w[1 .. n] = h[n]}
<1>9. 0 \in S
  <2>1. 1 .. 0 = {} /\ {} \in SUBSET (1 .. L)
    OBVIOUS
  <2>2. w[{}] = first
    BY <1>7, <2>1 DEF FoldStep
  <2> QED BY <1>1, <2>1, <2>2 DEF Tower
<1>10. ASSUME NEW n \in Nat, n \in S PROVE n + 1 \in S
  <2>1. SUFFICES ASSUME n + 1 <= L PROVE w[1 .. (n + 1)] = h[n + 1]
    OBVIOUS
  <2>2. /\ 1 .. (n + 1) \in SUBSET (1 .. L) /\ 1 .. (n + 1) # {} /\ n + 1 \in 1 .. L
        /\ (1 .. (n + 1)) \ {n + 1} = 1 .. n /\ (n + 1) - 1 = n
    <3>1. \A i \in 1 .. (n + 1) : i \in 1 .. L
      BY <2>1
    <3>2. n + 1 \in 1 .. (n + 1) /\ (n + 1) - 1 = n
      OBVIOUS
    <3>3. \A i : i \in (1 .. (n + 1)) \ {n + 1} <=> i \in 1 .. n
      OBVIOUS
    <3> QED BY <3>1, <3>2, <3>3
  <2>3. Max(1 .. (n + 1)) = n + 1
    <3>1. 1 .. (n + 1) \in SUBSET Nat /\ n + 1 \in 1 .. (n + 1)
          /\ \A y \in 1 .. (n + 1) : y <= n + 1
      OBVIOUS
    <3> QED BY <3>1, MaxIs
  <2>4. w[1 .. (n + 1)] = Meant(w[1 .. n], steps[n + 1])
    BY <1>7, <2>2, <2>3 DEF FoldStep
  <2>5. h[n + 1] = Meant(h[n], steps[n + 1])
    BY <1>2, <2>2 DEF Tower
  <2>6. w[1 .. n] = h[n]
    BY <1>10, <2>1
  <2> QED BY <2>4, <2>5, <2>6
<1> HIDE DEF S
<1>11. \A n \in Nat : n \in S
  BY <1>9, <1>10, AllNaturals
<1>12. w[1 .. L] = h[L]
  BY <1>11 DEF S
<1> QED BY <1>1, <1>2, <1>8, <1>12

-----------------------------------------------------------------------------
(* A plan whose steps are independent.                                      *)

\* What a step that creates nothing asks of its row, and the row it is about.
Asked(s) == IF s.op = "set" THEN s.props ELSE Toggled(s.op)

Of(s) ==
    IF s.comment = None THEN s.id
    ELSE CHOOSE i \in WithComment(trail.origin, s.comment) : TRUE

Commented == \E n \in DOMAIN plan.steps : plan.steps[n].comment # None

HasTwin(rows, s) == \E i \in DOMAIN rows : SemanticKey(rows[i]) = SemanticKey(s.props)

Done(rows, s) ==
    IF s.op = "create" THEN HasTwin(rows, s)
    ELSE /\ Of(s) \in DOMAIN trail.origin
         /\ \A f \in DOMAIN Asked(s) : rows[Of(s)][f] = Asked(s)[f]

\* Rows of which p steps are done and that have nothing of their own.
Made(rows, p) ==
    /\ DOMAIN trail.origin \subseteq DOMAIN rows
    /\ \A n \in 1 .. p : Done(rows, plan.steps[n])
    /\ \A i \in DOMAIN trail.origin, f \in Fields :
          \/ rows[i][f] = trail.origin[i][f]
          \/ \E n \in 1 .. p : /\ plan.steps[n].op # "create"
                               /\ f \in DOMAIN Asked(plan.steps[n])
                               /\ rows[i][f] = Asked(plan.steps[n])[f]
    /\ Commented => \A i \in DOMAIN rows \ DOMAIN trail.origin : rows[i]["comment"] = Unset

\* The rows as a menu of their own, so that the steps can be run on it.
FoldMenu(rows) ==
    [rows |-> rows, next |-> Max(DOMAIN rows \cup {0}) + 1, secrets |-> menu.secrets]

AllWellFormed == \A n \in DOMAIN plan.steps : WellFormed(plan.steps[n])

LEMMA IndependentSays ==
    ASSUME Independent, AllWellFormed
    PROVE  /\ \A n \in DOMAIN plan.steps : plan.steps[n].op # "delete"
           /\ \A m, n \in DOMAIN plan.steps :
                 m < n /\ plan.steps[m].op # "create" /\ plan.steps[n].op # "create"
                 => DOMAIN Asked(plan.steps[m]) \cap DOMAIN Asked(plan.steps[n]) = {}
           /\ Commented => \A n \in DOMAIN plan.steps :
                          plan.steps[n].op \in {"create", "set"}
                          => "comment" \notin DOMAIN plan.steps[n].props
           /\ \A n \in DOMAIN plan.steps :
                 plan.steps[n].op # "create" /\ plan.steps[n].comment = None
                 => plan.steps[n].id \in DOMAIN trail.origin
           /\ \A m, n \in DOMAIN plan.steps :
                 plan.steps[m].op = "create" /\ plan.steps[n].op = "set"
                 => \A i \in DOMAIN trail.origin :
                       /\ SemanticKey(trail.origin[i]) # SemanticKey(plan.steps[m].props)
                       /\ SemanticKey(Over(plan.steps[n].props, trail.origin[i]))
                            # SemanticKey(plan.steps[m].props)
<1>1. PICK P : P = plan.steps
  OBVIOUS
<1>2. \A n \in DOMAIN P : P[n] \in Range(P)
  BY DEF Range
<1>3. \A n \in DOMAIN P : P[n].op # "delete"
  BY <1>1 DEF Independent, HasDeletes
<1>4. \A n \in DOMAIN P : P[n].op \in {"create", "set", "delete", "enable", "disable"}
  BY <1>1 DEF AllWellFormed, WellFormed
<1>5. \A n \in DOMAIN P : P[n].op \in {"enable", "disable"} => DOMAIN Asked(P[n]) = {"disabled"}
  BY DEF Asked, Toggled
<1>6. \A n \in DOMAIN P : P[n].op = "set" => DOMAIN Asked(P[n]) = DOMAIN P[n].props
  BY DEF Asked
<1>7. \A m, n \in DOMAIN P : m < n /\ P[m].op # "create" /\ P[n].op # "create"
         => (IF P[m].op \in {"enable", "disable"} THEN {"disabled"} ELSE DOMAIN P[m].props)
              \cap (IF P[n].op \in {"enable", "disable"} THEN {"disabled"} ELSE DOMAIN P[n].props)
              = {}
  BY <1>1 DEF Independent
<1>8. \A m, n \in DOMAIN P : m < n /\ P[m].op # "create" /\ P[n].op # "create"
         => DOMAIN Asked(P[m]) \cap DOMAIN Asked(P[n]) = {}
  BY <1>3, <1>4, <1>5, <1>6, <1>7
<1>9. \A k, n \in DOMAIN P : P[k].comment # None /\ P[n].op \in {"create", "set"}
         => "comment" \notin DOMAIN P[n].props
  BY <1>1, <1>2 DEF Independent
<1>10. \A n \in DOMAIN P : P[n].op # "create" /\ P[n].comment = None
          => P[n].id \in DOMAIN trail.origin
  BY <1>1, <1>2 DEF Independent
<1>11. \A m, n \in DOMAIN P : P[m].op = "create" /\ P[n].op = "set"
          => \A i \in DOMAIN trail.origin :
                /\ SemanticKey(trail.origin[i]) # SemanticKey(P[m].props)
                /\ SemanticKey(Over(P[n].props, trail.origin[i])) # SemanticKey(P[m].props)
  BY <1>1, <1>2 DEF Independent
<1> QED BY <1>1, <1>3, <1>8, <1>9, <1>10, <1>11 DEF Commented

\* The key of a row is in its name and its comment.
LEMMA KeySame ==
    ASSUME NEW r \in Row, NEW s \in Row, r["name"] = s["name"], r["comment"] = s["comment"]
    PROVE  SemanticKey(r) = SemanticKey(s)
BY RowFields DEF SemanticKey

LEMMA KeyOfNew ==
    ASSUME NEW w \in NewWords
    PROVE  SemanticKey(Over(w, NewRow)) = SemanticKey(w)
<1>1. w \in SetWords
  BY DEF SetWords
<1>2. IsWords(w) /\ "name" \in DOMAIN w
  BY <1>1, SetWordsAreWords
<1>3. PICK r \in Row : /\ r = Over(w, NewRow)
                       /\ \A f \in Fields : r[f] =
                             IF f \in DOMAIN w THEN w[f] ELSE IF f = "comment" THEN Unset ELSE "false"
  BY <1>2, OverNewRow
<1>4. r["name"] = w["name"] /\ r["comment"] = (IF "comment" \in DOMAIN w THEN w["comment"] ELSE Unset)
  BY <1>2, <1>3 DEF Fields
<1>5. "comment" \in DOMAIN r
  BY RowFields DEF Fields
<1> QED BY <1>3, <1>4, <1>5 DEF SemanticKey

\* What a step asks of its row are words.
LEMMA AskedWords ==
    ASSUME NEW s, WellFormed(s), s.op \in {"set", "enable", "disable"}
    PROVE  /\ IsWords(Asked(s)) /\ Asked(s) \in WordSets
           /\ s.op = "set" => Asked(s) = s.props /\ ("name" \in DOMAIN s.props \/ "comment" \in DOMAIN s.props)
           /\ s.op # "set" => Asked(s) = Toggled(s.op) /\ DOMAIN Asked(s) = {"disabled"}
<1>1. CASE s.op = "set"
  <2>1. s.props \in SetWords
    BY <1>1 DEF WellFormed
  <2>2. "name" \in DOMAIN s.props \/ "comment" \in DOMAIN s.props
    BY <2>1 DEF SetWords, NewWords
  <2> QED BY <1>1, <2>1, <2>2, SetWordsAreWords DEF Asked
<1>2. CASE s.op # "set"
  <2>1. PICK w : w = Toggled(s.op)
    OBVIOUS
  <2>2. DOMAIN w = {"disabled"} /\ w["disabled"] \in Bool
    BY <2>1 DEF Toggled, Bool
  <2>3. w \in [{"disabled"} -> Bool]
    BY <2>1 DEF Toggled, Bool
  <2>4. w \in [{"disabled"} -> Names \cup Comments \cup {Unset} \cup Bool]
        /\ {"disabled"} \in SUBSET Fields
    BY <2>3 DEF Fields
  <2>5. w \in WordSets
    BY <2>4 DEF WordSets
  <2>6. IsWords(w)
    BY <2>2 DEF IsWords, Fields
  <2> QED BY <1>2, <2>1, <2>2, <2>5, <2>6 DEF Asked
<1> QED BY <1>1, <1>2

LEMMA FoldMenuStarts ==
    ASSUME menu \in Menus, menu.next # 0
    PROVE  FoldMenu(menu.rows) \in Menus /\ FoldMenu(menu.rows).next <= menu.next
<1>1. PICK D \in SUBSET Nat : menu.rows \in [D -> Row] /\ DOMAIN menu.rows = D
  BY DEF Menus
<1>2. menu.next \in Nat /\ menu.secrets \in Secrecy /\ \A i \in D : i < menu.next
  BY <1>1 DEF Menus
<1>3. PICK k : k = Max(D \cup {0})
  OBVIOUS
<1>4. k \in Nat /\ k \in D \cup {0} /\ \A i \in D : i <= k
  BY <1>1, <1>2, <1>3, MaxSays
<1>5. FoldMenu(menu.rows) = [rows |-> menu.rows, next |-> k + 1, secrets |-> menu.secrets]
  BY <1>1, <1>3 DEF FoldMenu
<1>6. FoldMenu(menu.rows) \in Menus
  <2>1. PICK m : m = FoldMenu(menu.rows)
    OBVIOUS
  <2>2. m.rows = menu.rows /\ m.next = k + 1
    BY <1>5, <2>1
  <2>3. m \in [rows : UNION {[E -> Row] : E \in SUBSET Nat}, next : Nat, secrets : Secrecy]
    BY <1>2, <1>4, <1>5, <2>1 DEF Menus
  <2>4. \A i \in DOMAIN m.rows : i < m.next
    <3>1. \A i \in D : i \in Nat /\ i < k + 1
      BY <1>4
    <3> QED BY <1>1, <2>2, <3>1
  <2> QED BY <2>1, <2>3, <2>4 DEF Menus
<1> QED BY <1>2, <1>4, <1>5, <1>6

NextId(rows) == Max(DOMAIN rows \cup {0}) + 1

Keeps(rows, x) == \A i \in DOMAIN rows : x[i] = rows[i]

\* A step with no twin, or about a row there is, runs as a command on that menu.
LEMMA MeantCreate ==
    ASSUME menu \in Menus, NEW rows, FoldMenu(rows) \in Menus, NEW s, s.op = "create",
           ~HasTwin(rows, s)
    PROVE  /\ Run(FoldMenu(rows), StepCommand(s, None)) = FoldMenu(Meant(rows, s))
           /\ NextId(rows) \notin DOMAIN rows
           /\ DOMAIN Meant(rows, s) = DOMAIN rows \cup {NextId(rows)}
           /\ Keeps(rows, Meant(rows, s))
           /\ Meant(rows, s)[NextId(rows)] = Over(s.props, NewRow)
<1>1. PICK k : k = Max(DOMAIN rows \cup {0}) + 1 /\ k = NextId(rows)
  BY DEF NextId
<1>2. PICK m \in Menus : m = FoldMenu(rows)
  OBVIOUS
<1>3. m = [rows |-> rows, next |-> k, secrets |-> menu.secrets]
  BY <1>1, <1>2 DEF FoldMenu
<1>4. k \in Nat /\ \A i \in DOMAIN rows : i \in Nat /\ i < k
  BY <1>2, <1>3, MenuRows DEF Menus
<1>5. PICK x : x = Meant(rows, s)
  OBVIOUS
<1>6. x = With(rows, k, Over(s.props, NewRow))
  BY <1>1, <1>5 DEF Meant, HasTwin
<1>7. x = [i \in DOMAIN rows \cup {k} |-> IF i = k THEN Over(s.props, NewRow) ELSE rows[i]]
  BY <1>6 DEF With
<1>8. k \notin DOMAIN rows
  BY <1>4
<1>9. /\ DOMAIN x = DOMAIN rows \cup {k} /\ x[k] = Over(s.props, NewRow)
      /\ \A i \in DOMAIN rows : x[i] = rows[i]
  BY <1>7, <1>8
<1>10. Max(DOMAIN x \cup {0}) = k
  <2>1. DOMAIN x \cup {0} \in SUBSET Nat /\ k \in DOMAIN x \cup {0}
        /\ \A i \in DOMAIN x \cup {0} : i <= k
    BY <1>4, <1>9
  <2> QED BY <2>1, MaxIs
<1>11. FoldMenu(x) = [rows |-> x, next |-> k + 1, secrets |-> menu.secrets]
  BY <1>10 DEF FoldMenu
<1>12. PICK c : c = StepCommand(s, None)
  OBVIOUS
<1>13. c.verb = "add" /\ c.words = s.props
  BY <1>12 DEF StepCommand, Command
<1>14. Run(m, c) = [m EXCEPT !.rows = [i \in DOMAIN m.rows \cup {m.next} |->
                                         IF i = m.next THEN Over(c.words, NewRow) ELSE m.rows[i]],
                             !.next = m.next + 1]
  BY <1>13 DEF Run
<1>15. Run(m, c) = FoldMenu(x)
  <2>1. m.rows = rows /\ m.next = k
    BY <1>3
  <2>2. [i \in DOMAIN m.rows \cup {m.next} |->
           IF i = m.next THEN Over(c.words, NewRow) ELSE m.rows[i]] = x
    BY <1>7, <1>13, <2>1
  <2>3. Run(m, c) = [m EXCEPT !.rows = x, !.next = k + 1]
    BY <1>14, <2>1, <2>2
  <2> QED BY <1>3, <1>11, <2>3
<1>16. Keeps(rows, x)
  BY <1>9 DEF Keeps
<1> QED BY <1>1, <1>2, <1>5, <1>8, <1>9, <1>12, <1>15, <1>16

LEMMA MeantChange ==
    ASSUME menu \in Menus, NEW rows, FoldMenu(rows) \in Menus,
           NEW s, WellFormed(s), s.op \in {"set", "enable", "disable"}, NEW id \in DOMAIN rows,
           s.comment = None => id = s.id, s.comment # None => WithComment(rows, s.comment) = {id}
    PROVE  LET x == Meant(rows, s)
           IN  /\ Run(FoldMenu(rows), StepCommand(s, id)) = FoldMenu(x)
               /\ DOMAIN x = DOMAIN rows /\ \A i \in DOMAIN rows \ {id} : x[i] = rows[i]
               /\ x[id] = Over(Asked(s), rows[id]) /\ x[id] \in Row
               /\ \A f \in Fields : x[id][f] = IF f \in DOMAIN Asked(s) THEN Asked(s)[f]
                                               ELSE rows[id][f]
<1>1. PICK w : w = Asked(s)
  OBVIOUS
<1>2. IsWords(w)
  BY <1>1, AskedWords
<1>3. PICK m \in Menus : m = FoldMenu(rows)
  OBVIOUS
<1>4. m.rows = rows /\ m.next = Max(DOMAIN rows \cup {0}) + 1 /\ m.secrets = menu.secrets
  BY <1>3 DEF FoldMenu
<1>5. PICK x : x = Meant(rows, s)
  OBVIOUS
<1>6. x = [rows EXCEPT ![id] = Over(w, rows[id])]
  <2>1. PICK i : i = IF s.comment = None THEN s.id
                     ELSE CHOOSE k \in WithComment(rows, s.comment) : TRUE
    OBVIOUS
  <2>2. i = id
    <3>1. CASE s.comment = None
      BY <2>1, <3>1
    <3>2. CASE s.comment # None
      <4>1. (CHOOSE k \in {id} : TRUE) = id
        OBVIOUS
      <4> QED BY <2>1, <3>2, <4>1
    <3> QED BY <3>1, <3>2
  <2>3. x = [rows EXCEPT ![i] = Over(w, rows[i])]
    BY <1>1, <1>5, <2>1 DEF Meant, Asked
  <2> QED BY <2>2, <2>3
<1>7. PICK c : c = StepCommand(s, id)
  OBVIOUS
<1>8. c.verb = s.op /\ c.id = id /\ c.words = s.props
  BY <1>7 DEF StepCommand, Command
<1>9. rows[id] \in Row
  BY <1>3, <1>4, MenuRows
<1>10. Over(w, rows[id]) \in Row
       /\ \A f \in Fields : Over(w, rows[id])[f] = IF f \in DOMAIN w THEN w[f] ELSE rows[id][f]
  BY <1>2, <1>9, OverRow
<1>11. c \in Commands
  <2>1. id \in Nat
    BY <1>3, <1>4, MenuRows
  <2>2. s.props \in WordSets /\ IsWords(s.props)
    <3>1. s.op = "set" => s.props \in SetWords
      BY DEF WellFormed
    <3>2. s.op # "set" => s.props = NoWords
      BY DEF WellFormed
    <3> QED BY <3>1, <3>2, SetWordsAreWords, NoWordsAreWords
  <2>3. PICK verb \in Verbs : verb = s.op
    BY DEF Verbs
  <2>4. c = Command(verb, id, s.props)
    BY <1>7, <2>3 DEF StepCommand
  <2> QED BY <2>1, <2>2, <2>3, <2>4, CommandTyped
<1>12. c.verb \in Changing /\ Puts(c) = w /\ c.verb # "add"
  BY <1>1, <1>8 DEF Changing, Puts, Asked, Toggled
<1>13. Accepts(m, c)
  BY <1>4, <1>8, <1>12 DEF Accepts
<1>14. PICK n \in Menus : n = Run(m, c)
  BY <1>11, <1>13, RunSays
<1>15. /\ n.secrets = m.secrets /\ n.next = m.next /\ DOMAIN n.rows = DOMAIN rows
       /\ n.rows[id] = Over(w, rows[id])
       /\ \A i \in DOMAIN rows \ {id} : n.rows[i] = rows[i]
  BY <1>4, <1>8, <1>11, <1>12, <1>13, <1>14, RunSays
<1>16. /\ DOMAIN x = DOMAIN rows /\ x[id] = Over(w, rows[id])
       /\ \A i \in DOMAIN rows \ {id} : x[i] = rows[i]
  BY <1>6
<1>17. n.rows = x
  <2>1. n.rows = [i \in DOMAIN n.rows |-> n.rows[i]]
    BY DEF Menus
  <2>2. x = [i \in DOMAIN x |-> x[i]]
    BY <1>6
  <2>3. \A i \in DOMAIN rows : n.rows[i] = x[i]
    BY <1>15, <1>16
  <2> QED BY <1>15, <1>16, <2>1, <2>2, <2>3
<1>18. n = FoldMenu(x)
  <2>1. n = [rows |-> n.rows, next |-> n.next, secrets |-> n.secrets]
    BY DEF Menus
  <2> QED BY <1>4, <1>15, <1>16, <1>17, <2>1 DEF FoldMenu
<1> QED BY <1>1, <1>3, <1>5, <1>7, <1>10, <1>14, <1>16, <1>18

LEMMA MadeOn ==
    ASSUME NEW p \in Nat, NEW rows, Made(rows, p), NEW x, DOMAIN rows \subseteq DOMAIN x,
           NEW s, s = plan.steps[p + 1],
           \A n \in 1 .. p : Done(x, plan.steps[n]), Done(x, s),
           \A i \in DOMAIN trail.origin, f \in Fields :
              \/ x[i][f] = rows[i][f]
              \/ s.op # "create" /\ f \in DOMAIN Asked(s) /\ x[i][f] = Asked(s)[f],
           Commented => \A i \in DOMAIN x \ DOMAIN trail.origin : x[i]["comment"] = Unset
    PROVE  Made(x, p + 1)
<1>1. \A n \in 1 .. (p + 1) : n \in 1 .. p \/ n = p + 1
  OBVIOUS
<1>2. \A n \in 1 .. p : n \in 1 .. (p + 1)
  OBVIOUS
<1>3. p + 1 \in 1 .. (p + 1)
  OBVIOUS
<1>4. \A n \in 1 .. (p + 1) : Done(x, plan.steps[n])
  BY <1>1
<1>5. ASSUME NEW i \in DOMAIN trail.origin, NEW f \in Fields
      PROVE  \/ x[i][f] = trail.origin[i][f]
             \/ \E n \in 1 .. (p + 1) : /\ plan.steps[n].op # "create"
                                        /\ f \in DOMAIN Asked(plan.steps[n])
                                        /\ x[i][f] = Asked(plan.steps[n])[f]
  <2>1. CASE x[i][f] = rows[i][f]
    <3>1. \/ rows[i][f] = trail.origin[i][f]
          \/ \E n \in 1 .. p : /\ plan.steps[n].op # "create"
                               /\ f \in DOMAIN Asked(plan.steps[n])
                               /\ rows[i][f] = Asked(plan.steps[n])[f]
      BY DEF Made
    <3> QED BY <1>2, <2>1, <3>1
  <2>2. CASE s.op # "create" /\ f \in DOMAIN Asked(s) /\ x[i][f] = Asked(s)[f]
    BY <1>3, <2>2
  <2> QED BY <2>1, <2>2
<1>6. DOMAIN trail.origin \subseteq DOMAIN x
  BY DEF Made
<1> QED BY <1>4, <1>5, <1>6 DEF Made

\* What is done already changes nothing.
LEMMA DoneNothing ==
    ASSUME NEW rows, FoldMenu(rows) \in Menus, NEW s, WellFormed(s), s.op # "delete",
           Done(rows, s), DOMAIN trail.origin \subseteq DOMAIN rows,
           s.op # "create" /\ s.comment # None => WithComment(rows, s.comment) = {Of(s)}
    PROVE  Meant(rows, s) = rows
<1>1. CASE s.op = "create"
  BY <1>1 DEF Done, Meant, HasTwin
<1>2. CASE s.op # "create"
  <2>1. PICK id : id = Of(s)
    OBVIOUS
  <2>2. PICK w : w = Asked(s)
    OBVIOUS
  <2>3. id \in DOMAIN rows /\ \A f \in DOMAIN w : rows[id][f] = w[f]
    BY <1>2, <2>1, <2>2 DEF Done
  <2>4. PICK i : i = IF s.comment = None THEN s.id
                     ELSE CHOOSE k \in WithComment(rows, s.comment) : TRUE
    OBVIOUS
  <2>5. i = id
    <3>1. CASE s.comment = None
      BY <2>1, <2>4, <3>1 DEF Of
    <3>2. CASE s.comment # None
      <4>1. (CHOOSE k \in {id} : TRUE) = id
        OBVIOUS
      <4> QED BY <1>2, <2>1, <2>4, <3>2, <4>1
    <3> QED BY <3>1, <3>2
  <2>6. Meant(rows, s) = [rows EXCEPT ![i] = Over(w, rows[i])]
    BY <1>2, <2>2, <2>4 DEF Meant, Asked
  <2>7. PICK m \in Menus : m = FoldMenu(rows)
    OBVIOUS
  <2>8. m.rows = rows
    BY <2>7 DEF FoldMenu
  <2>9. rows[id] \in Row
    BY <2>3, <2>7, <2>8, MenuRows
  <2>10. IsWords(w)
    BY <1>2, <2>2, AskedWords DEF WellFormed
  <2>11. Over(w, rows[id]) = rows[id]
    <3>1. /\ Over(w, rows[id]) \in Row
          /\ \A f \in Fields : Over(w, rows[id])[f] = IF f \in DOMAIN w THEN w[f] ELSE rows[id][f]
      BY <2>9, <2>10, OverRow
    <3>2. \A f \in Fields : Over(w, rows[id])[f] = rows[id][f]
      BY <2>3, <3>1
    <3> QED BY <2>9, <3>1, <3>2, SameRow
  <2>12. rows = [k \in DOMAIN rows |-> rows[k]]
    BY <2>8 DEF Menus
  <2> QED BY <2>3, <2>5, <2>6, <2>11, <2>12
<1> QED BY <1>1, <1>2

LEMMA MadeCreate ==
    ASSUME menu \in Menus, Independent, AllWellFormed, NEW p \in Nat, p + 1 \in DOMAIN plan.steps,
           NEW rows, FoldMenu(rows) \in Menus, Made(rows, p),
           NEW s, s = plan.steps[p + 1], s.op = "create",
           ~HasTwin(rows, s)
    PROVE  Made(Meant(rows, s), p + 1)
<1>1. PICK x, k :
         /\ x = Meant(rows, s)
         /\ k \notin DOMAIN rows /\ DOMAIN x = DOMAIN rows \cup {k}
         /\ \A i \in DOMAIN rows : x[i] = rows[i]
         /\ x[k] = Over(s.props, NewRow)
  <2>1. /\ NextId(rows) \notin DOMAIN rows
        /\ DOMAIN Meant(rows, s) = DOMAIN rows \cup {NextId(rows)}
        /\ \A i \in DOMAIN rows : Meant(rows, s)[i] = rows[i]
        /\ Meant(rows, s)[NextId(rows)] = Over(s.props, NewRow)
    <3>1. NextId(rows) \notin DOMAIN rows
      BY MeantCreate
    <3>2. DOMAIN Meant(rows, s) = DOMAIN rows \cup {NextId(rows)}
      BY MeantCreate
    <3>3. Keeps(rows, Meant(rows, s))
      BY MeantCreate
    <3>4. Meant(rows, s)[NextId(rows)] = Over(s.props, NewRow)
      BY MeantCreate
    <3> QED BY <3>1, <3>2, <3>3, <3>4 DEF Keeps
  <2> QED BY <2>1
<1>2. /\ k \in DOMAIN x \ DOMAIN rows
      /\ DOMAIN rows \subseteq DOMAIN x /\ \A i \in DOMAIN rows : x[i] = rows[i]
      /\ DOMAIN x = DOMAIN rows \cup {k} /\ x[k] = Over(s.props, NewRow)
  BY <1>1
<1>3. DOMAIN trail.origin \subseteq DOMAIN rows
  BY DEF Made
<1>4. s.props \in NewWords
  BY DEF AllWellFormed, WellFormed
<1>5. ASSUME NEW n \in 1 .. p PROVE Done(x, plan.steps[n])
  <2>1. Done(rows, plan.steps[n])
    BY DEF Made
  <2>2. CASE plan.steps[n].op = "create"
    BY <1>2, <2>1, <2>2 DEF Done, HasTwin
  <2>3. CASE plan.steps[n].op # "create"
    BY <1>2, <1>3, <2>1, <2>3 DEF Done
  <2> QED BY <2>2, <2>3
<1>6. Done(x, s)
  BY <1>2, <1>4, KeyOfNew DEF Done, HasTwin
<1>7. \A i \in DOMAIN trail.origin, f \in Fields : x[i][f] = rows[i][f]
  BY <1>2, <1>3
<1>8. ASSUME Commented, NEW i \in DOMAIN x \ DOMAIN trail.origin PROVE x[i]["comment"] = Unset
  <2>1. CASE i \in DOMAIN rows
    BY <1>2, <1>8, <2>1 DEF Made
  <2>2. CASE i = k
    <3>1. "comment" \notin DOMAIN s.props
      BY <1>8, IndependentSays
    <3>2. s.props \in SetWords
      BY <1>4 DEF SetWords
    <3>3. IsWords(s.props) /\ "name" \in DOMAIN s.props
      BY <1>4, <3>2, SetWordsAreWords
    <3>4. Over(s.props, NewRow)["comment"] = Unset
      BY <3>1, <3>3, OverNewRow DEF Fields
    <3> QED BY <1>2, <2>2, <3>4
  <2> QED BY <1>2, <2>1, <2>2
<1>9. Made(x, p + 1)
  BY <1>2, <1>5, <1>6, <1>7, <1>8, MadeOn
<1> QED BY <1>1, <1>9

\* A change takes no created row from the plan: a row there was has its own key, or
\* that of one other change of it.
LEMMA NoTwinThere ==
    ASSUME menu \in Menus, Independent, AllWellFormed, NEW p \in Nat, p + 1 \in DOMAIN plan.steps,
           NEW L \in Nat, DOMAIN plan.steps = 1 .. L,
           NEW rows, Made(rows, p), NEW n \in 1 .. p, plan.steps[n].op = "create",
           NEW s, s = plan.steps[p + 1], s.op = "set",
           NEW i \in DOMAIN trail.origin, rows[i] \in Row, trail.origin[i] \in Row
    PROVE  SemanticKey(rows[i]) # SemanticKey(plan.steps[n].props)
<1>1. PICK r \in Row : r = rows[i]
  OBVIOUS
<1>2. PICK o \in Row : o = trail.origin[i]
  OBVIOUS
<1>3. PICK key : key = SemanticKey(plan.steps[n].props)
  OBVIOUS
<1>4. n \in DOMAIN plan.steps /\ \A m \in 1 .. p : m \in DOMAIN plan.steps /\ m < p + 1
  OBVIOUS
<1>5. SemanticKey(o) # key
  BY <1>2, <1>3, <1>4, IndependentSays
<1>6. \A m \in 1 .. p : plan.steps[m].op = "set" => SemanticKey(Over(plan.steps[m].props, o)) # key
  BY <1>2, <1>3, <1>4, IndependentSays
<1>7. Asked(s) = s.props /\ ("name" \in DOMAIN s.props \/ "comment" \in DOMAIN s.props)
  BY AskedWords DEF AllWellFormed
<1>8. \A m \in 1 .. p : plan.steps[m].op # "create"
                        => DOMAIN Asked(plan.steps[m]) \cap DOMAIN s.props = {}
  BY <1>4, <1>7, IndependentSays
<1>9. \A f \in Fields : \/ r[f] = o[f]
                        \/ \E m \in 1 .. p : /\ plan.steps[m].op # "create"
                                             /\ f \in DOMAIN Asked(plan.steps[m])
                                             /\ r[f] = Asked(plan.steps[m])[f]
  BY <1>1, <1>2 DEF Made
<1>10. PICK f, g : {f, g} = {"name", "comment"} /\ f # g /\ f \in DOMAIN s.props
  BY <1>7
<1>11. f \in Fields /\ g \in Fields
  BY <1>10 DEF Fields
<1>12. r[f] = o[f]
  BY <1>8, <1>9, <1>10, <1>11
<1>13. CASE r[g] = o[g]
  <2>1. SemanticKey(r) = SemanticKey(o)
    BY <1>10, <1>12, <1>13, KeySame
  <2> QED BY <1>1, <1>3, <1>5, <2>1
<1>14. ASSUME NEW m \in 1 .. p, plan.steps[m].op # "create", g \in DOMAIN Asked(plan.steps[m]),
              r[g] = Asked(plan.steps[m])[g]
       PROVE  SemanticKey(r) # key
  <2>1. PICK t : t = plan.steps[m]
    OBVIOUS
  <2>2. WellFormed(t) /\ t.op # "delete"
    BY <1>4, <2>1, IndependentSays DEF AllWellFormed
  <2>3. t.op \in {"set", "enable", "disable"}
    BY <1>14, <2>1, <2>2 DEF WellFormed
  <2>4. t.op = "set" /\ Asked(t) = t.props /\ IsWords(t.props)
    BY <1>10, <1>14, <2>1, <2>2, <2>3, AskedWords
  <2>5. f \notin DOMAIN t.props
    BY <1>8, <1>10, <1>14, <2>1, <2>4
  <2>6. PICK x \in Row : /\ x = Over(t.props, o)
                         /\ \A h \in Fields : x[h] = IF h \in DOMAIN t.props THEN t.props[h] ELSE o[h]
    BY <2>4, OverRow
  <2>7. x[f] = r[f] /\ x[g] = r[g]
    BY <1>11, <1>12, <1>14, <2>1, <2>4, <2>5, <2>6
  <2>8. SemanticKey(r) = SemanticKey(x)
    BY <1>10, <2>7, KeySame
  <2> QED BY <1>6, <2>1, <2>4, <2>6, <2>8
<1> QED BY <1>1, <1>3, <1>9, <1>11, <1>13, <1>14

LEMMA MadeChange ==
    ASSUME menu \in Menus, trail.origin \in RowTables, Independent, AllWellFormed,
           NEW p \in Nat, p + 1 \in DOMAIN plan.steps, NEW L \in Nat, DOMAIN plan.steps = 1 .. L,
           NEW rows, FoldMenu(rows) \in Menus, Made(rows, p),
           NEW s, s = plan.steps[p + 1], s.op # "create", Of(s) \in DOMAIN trail.origin,
           s.comment # None => WithComment(rows, s.comment) = {Of(s)}
    PROVE  Made(Meant(rows, s), p + 1)
<1>1. PICK x : x = Meant(rows, s)
  OBVIOUS
<1>2. PICK id \in DOMAIN trail.origin : id = Of(s)
  OBVIOUS
<1>3. WellFormed(s) /\ s.op \in {"set", "enable", "disable"}
  <2>1. WellFormed(s) /\ s.op # "delete"
    BY IndependentSays DEF AllWellFormed
  <2> QED BY <2>1 DEF WellFormed
<1>4. DOMAIN trail.origin \subseteq DOMAIN rows /\ id \in DOMAIN rows
  BY <1>2 DEF Made
<1>5. PICK w : w = Asked(s)
  OBVIOUS
<1>6. /\ DOMAIN x = DOMAIN rows /\ \A i \in DOMAIN rows \ {id} : x[i] = rows[i]
      /\ x[id] \in Row
      /\ \A f \in Fields : x[id][f] = IF f \in DOMAIN w THEN w[f] ELSE rows[id][f]
  <2>1. s.comment = None => id = s.id
    BY <1>2 DEF Of
  <2> QED BY <1>1, <1>2, <1>3, <1>4, <1>5, <2>1, MeantChange
<1>7. \A i \in DOMAIN rows : rows[i] \in Row
  <2>1. PICK m \in Menus : m = FoldMenu(rows)
    OBVIOUS
  <2>2. m.rows = rows
    BY <2>1 DEF FoldMenu
  <2> QED BY <2>1, <2>2, MenuRows
<1>8. \A i \in DOMAIN trail.origin : trail.origin[i] \in Row
  BY DEF RowTables
<1>9. \A m \in 1 .. p : m \in DOMAIN plan.steps /\ m < p + 1
  OBVIOUS
<1>10. DOMAIN w \subseteq Fields
  BY <1>3, <1>5, AskedWords DEF IsWords
<1>11. ASSUME NEW n \in 1 .. p PROVE Done(x, plan.steps[n])
  <2>1. PICK t : t = plan.steps[n]
    OBVIOUS
  <2>2. Done(rows, t) /\ WellFormed(t) /\ t.op # "delete"
    BY <1>9, <2>1, IndependentSays DEF Made, AllWellFormed
  <2>3. CASE t.op # "create"
    <3>1. DOMAIN Asked(t) \cap DOMAIN w = {}
      BY <1>3, <1>5, <1>9, <2>1, <2>3, IndependentSays
    <3>2. DOMAIN Asked(t) \subseteq Fields
      <4>1. t.op \in {"set", "enable", "disable"}
        BY <2>2, <2>3 DEF WellFormed
      <4> QED BY <2>2, <4>1, AskedWords DEF IsWords
    <3>3. Of(t) \in DOMAIN rows /\ \A f \in DOMAIN Asked(t) : rows[Of(t)][f] = Asked(t)[f]
      BY <1>4, <2>2, <2>3 DEF Done
    <3>4. \A f \in DOMAIN Asked(t) : x[Of(t)][f] = Asked(t)[f]
      <4>1. CASE Of(t) = id
        BY <1>6, <3>1, <3>2, <3>3, <4>1
      <4>2. CASE Of(t) # id
        BY <1>6, <3>3, <4>2
      <4> QED BY <4>1, <4>2
    <3> QED BY <2>1, <2>2, <2>3, <3>4 DEF Done
  <2>4. CASE t.op = "create"
    <3>1. PICK i \in DOMAIN rows : SemanticKey(rows[i]) = SemanticKey(t.props)
      BY <2>2, <2>4 DEF Done, HasTwin
    <3>2. CASE i # id
      BY <1>6, <2>1, <2>4, <3>1, <3>2 DEF Done, HasTwin
    <3>3. CASE i = id /\ s.op = "set"
      BY <1>2, <1>7, <1>8, <2>1, <2>4, <3>1, <3>3, NoTwinThere
    <3>4. CASE i = id /\ s.op # "set"
      <4>1. DOMAIN w = {"disabled"}
        BY <1>3, <1>5, <3>4, AskedWords
      <4>2. x[id]["name"] = rows[id]["name"] /\ x[id]["comment"] = rows[id]["comment"]
        BY <1>6, <4>1 DEF Fields
      <4>3. SemanticKey(x[id]) = SemanticKey(rows[id])
        BY <1>4, <1>6, <1>7, <4>2, KeySame
      <4> QED BY <1>4, <1>6, <2>1, <2>4, <3>1, <3>4, <4>3 DEF Done, HasTwin
    <3> QED BY <3>2, <3>3, <3>4
  <2> QED BY <2>3, <2>4
<1>12. Done(x, s)
  BY <1>2, <1>3, <1>5, <1>6, <1>10 DEF Done
<1>13. ASSUME NEW i \in DOMAIN trail.origin, NEW f \in Fields
       PROVE  \/ x[i][f] = rows[i][f]
              \/ s.op # "create" /\ f \in DOMAIN Asked(s) /\ x[i][f] = Asked(s)[f]
  <2>1. CASE i = id
    BY <1>5, <1>6, <2>1
  <2>2. CASE i # id
    BY <1>4, <1>6, <2>2
  <2> QED BY <2>1, <2>2
<1>14. ASSUME Commented, NEW i \in DOMAIN x \ DOMAIN trail.origin PROVE x[i]["comment"] = Unset
  BY <1>2, <1>6, <1>14 DEF Made
<1>15. Made(x, p + 1)
  BY <1>6, <1>11, <1>12, <1>13, <1>14, MadeOn
<1> QED BY <1>1, <1>15

-----------------------------------------------------------------------------
(* The rows a plan has made so far.                                         *)

\* After p steps the rows of the plan are h[p], and the menu has the same rows.
At(p, h, g) ==
    /\ Tower(h, p) /\ Made(h[p], p) /\ FoldMenu(h[p]) \in Menus
    /\ Matches(g, FoldMenu(h[p]), menu, DOMAIN trail.origin)
    /\ DOMAIN trail.origin \subseteq Present
    /\ run.st = "applying" => run.at <= p + 1
    /\ run.st = "applied" => p = Len(plan.steps)

AsPlanned == \E p \in 0 .. Len(plan.steps) : \E h, g : At(p, h, g)

MeantInv ==
    /\ menu.next # 0
    /\ plan.steps # <<>> => menu.secrets = {}
    /\ run.st \in {"applying", "applied"} => trail.applies > 0
    /\ trail.applies > 0 /\ Independent /\ ~trail.mixed /\ ~trail.blind => AsPlanned

LEMMA RowsMatch ==
    ASSUME NEW rows, NEW g, Matches(g, FoldMenu(rows), menu, DOMAIN trail.origin),
           FoldMenu(rows) \in Menus, menu \in Menus, menu.secrets = {}
    PROVE  /\ \A i \in DOMAIN rows : g[i] \in Present /\ menu.rows[g[i]] = rows[i]
           /\ \A k \in Present : \E i \in DOMAIN rows : g[i] = k
           /\ \A i \in DOMAIN trail.origin : i \in Present => i \in DOMAIN rows /\ g[i] = i
           /\ \A i \in DOMAIN rows : rows[i] \in Row
<1>1. PICK m \in Menus : m = FoldMenu(rows)
  OBVIOUS
<1>2. m.rows = rows /\ m.secrets = {}
  BY <1>1 DEF FoldMenu
<1>3. \A i \in DOMAIN rows : rows[i] \in Row
  BY <1>2, MenuRows
<1>4. Pairs(g, rows, menu.rows, {})
  BY <1>1, <1>2 DEF Matches
<1>5. \A i \in DOMAIN rows : g[i] \in Present
  BY <1>4 DEF Pairs, Present
<1>6. ASSUME NEW i \in DOMAIN rows PROVE menu.rows[g[i]] = rows[i]
  <2>1. menu.rows[g[i]] \in Row
    BY <1>5, MenuRows DEF Present
  <2>2. \A f \in Fields : rows[i][f] = menu.rows[g[i]][f]
    BY <1>4 DEF Pairs, Alike
  <2> QED BY <1>3, <2>1, <2>2, SameRow
<1>7. \A k \in Present : \E i \in DOMAIN rows : g[i] = k
  BY <1>4 DEF Pairs, Present
<1>8. \A i \in DOMAIN trail.origin : i \in Present => i \in DOMAIN rows /\ g[i] = i
  BY <1>1, <1>2 DEF Matches, Present
<1> QED BY <1>3, <1>5, <1>6, <1>7, <1>8

Alone(rows, s, id) == s.comment # None => WithComment(rows, s.comment) = {id}

\* The row a step names, by .id or by comment, is one the plan found.
LEMMA TargetIs ==
    ASSUME menu \in Menus, menu.secrets = {}, trail.origin \in RowTables,
           Independent, AllWellFormed, NEW p \in Nat, NEW L \in Nat, p <= L,
           DOMAIN plan.steps = 1 .. L,
           NEW rows, FoldMenu(rows) \in Menus, Made(rows, p),
           NEW g, Matches(g, FoldMenu(rows), menu, DOMAIN trail.origin),
           DOMAIN trail.origin \subseteq Present,
           NEW n \in DOMAIN plan.steps, NEW s, s = plan.steps[n], s.op # "create",
           NEW id \in Present, Target(s, id)
    PROVE  /\ id = Of(s) /\ id \in DOMAIN trail.origin /\ g[id] = id
           /\ Alone(rows, s, id)
<1>1. /\ \A i \in DOMAIN rows : g[i] \in Present /\ menu.rows[g[i]] = rows[i]
      /\ \A k \in Present : \E i \in DOMAIN rows : g[i] = k
      /\ \A i \in DOMAIN trail.origin : i \in DOMAIN rows /\ g[i] = i
  BY RowsMatch
<1>2. CASE s.comment = None
  <2>1. s.id \in DOMAIN trail.origin
    BY <1>2, IndependentSays
  <2>2. id = s.id
    BY <1>2 DEF Target
  <2> QED BY <1>1, <1>2, <2>1, <2>2 DEF Of, Alone
<1>3. CASE s.comment # None
  <2>1. PICK c : c = s.comment
    OBVIOUS
  <2>2. c \in Comments /\ c # Unset
    <3>1. c \in Comments
      BY <1>3, <2>1 DEF AllWellFormed, WellFormed, PlanStep
    <3> QED BY <3>1, SafeAssumption DEF SafeAssumption
  <2>3. WithComment(menu.rows, c) = {id}
    BY <1>3, <2>1 DEF Target, ByComment
  <2>4. Commented
    BY <1>3 DEF Commented
  <2>5. \A i \in DOMAIN rows \ DOMAIN trail.origin : rows[i]["comment"] = Unset
    BY <2>4 DEF Made
  <2>6. \A m \in 1 .. p : plan.steps[m].op # "create" => "comment" \notin DOMAIN Asked(plan.steps[m])
    <3> SUFFICES ASSUME NEW m \in 1 .. p, plan.steps[m].op # "create"
                 PROVE  "comment" \notin DOMAIN Asked(plan.steps[m])
      OBVIOUS
    <3>1. PICK t : t = plan.steps[m]
      OBVIOUS
    <3>2. m \in DOMAIN plan.steps
      OBVIOUS
    <3>3. WellFormed(t) /\ t.op # "delete"
      BY <3>1, <3>2, IndependentSays DEF AllWellFormed
    <3>4. t.op \in {"set", "enable", "disable"}
      BY <3>1, <3>3 DEF WellFormed
    <3>5. t.op = "set" => "comment" \notin DOMAIN t.props
      BY <2>4, <3>1, <3>2, IndependentSays
    <3>6. t.op # "set" => DOMAIN Asked(t) = {"disabled"}
      BY <3>3, <3>4, AskedWords
    <3>7. t.op = "set" => Asked(t) = t.props
      BY DEF Asked
    <3> QED BY <3>1, <3>5, <3>6, <3>7
  <2>7. \A i \in DOMAIN trail.origin : rows[i]["comment"] = trail.origin[i]["comment"]
    <3>1. "comment" \in Fields
      BY DEF Fields
    <3> QED BY <2>6, <3>1 DEF Made
  <2>8. PICK i \in DOMAIN rows : g[i] = id
    BY <1>1
  <2>9. menu.rows[id].comment = c
    BY <2>3 DEF WithComment
  <2>10. rows[i]["comment"] = c
    BY <1>1, <2>8, <2>9
  <2>11. i \in DOMAIN trail.origin /\ i = id
    BY <1>1, <2>2, <2>5, <2>8, <2>10
  <2>12. \A k \in DOMAIN rows : rows[k]["comment"] = c => k = id
    <3> SUFFICES ASSUME NEW k \in DOMAIN rows, rows[k]["comment"] = c PROVE k = id
      OBVIOUS
    <3>1. k \in DOMAIN trail.origin /\ g[k] = k
      BY <1>1, <2>2, <2>5
    <3>2. k \in WithComment(menu.rows, c)
      BY <1>1, <3>1 DEF WithComment, Present
    <3> QED BY <2>3, <3>2
  <2>13. WithComment(rows, c) = {id}
    BY <2>10, <2>11, <2>12 DEF WithComment
  <2>14. WithComment(trail.origin, c) = {id}
    <3>1. trail.origin[id]["comment"] = c
      BY <2>7, <2>10, <2>11
    <3>2. \A k \in DOMAIN trail.origin : trail.origin[k]["comment"] = c => k = id
      BY <1>1, <2>7, <2>12
    <3> QED BY <2>11, <3>1, <3>2 DEF WithComment
  <2>15. Of(s) = id
    <3>1. (CHOOSE k \in {id} : TRUE) = id
      OBVIOUS
    <3> QED BY <1>3, <2>1, <2>14, <3>1 DEF Of
  <2> QED BY <1>1, <2>1, <2>11, <2>13, <2>15 DEF Alone
<1> QED BY <1>2, <1>3

\* What a step finds as it should be is what the plan has made so already.
LEMMA WantedIsDone ==
    ASSUME menu \in Menus, menu.secrets = {},
           NEW rows, FoldMenu(rows) \in Menus,
           NEW g, Matches(g, FoldMenu(rows), menu, DOMAIN trail.origin),
           NEW s, WellFormed(s), s.op # "delete", NEW id,
           s.op # "create" =>
              /\ id \in Present /\ id = Of(s) /\ id \in DOMAIN trail.origin /\ g[id] = id
              /\ id \in DOMAIN rows
    PROVE  AsWanted(s, id) <=> Done(rows, s)
<1>1. /\ \A i \in DOMAIN rows : g[i] \in Present /\ menu.rows[g[i]] = rows[i]
      /\ \A k \in Present : \E i \in DOMAIN rows : g[i] = k
  BY RowsMatch
<1>2. CASE s.op = "create"
  <2>1. AsWanted(s, id) <=> \E k \in Present : SemanticKey(menu.rows[k]) = SemanticKey(s.props)
    BY <1>2 DEF AsWanted
  <2>2. Done(rows, s) <=> \E i \in DOMAIN rows : SemanticKey(rows[i]) = SemanticKey(s.props)
    BY <1>2 DEF Done, HasTwin
  <2> QED BY <1>1, <2>1, <2>2
<1>3. CASE s.op = "set"
  <2>1. Done(rows, s) <=> \A f \in DOMAIN s.props : rows[id][f] = s.props[f]
    BY <1>3 DEF Done, Asked
  <2>2. AsWanted(s, id) <=> \A f \in DOMAIN s.props : menu.rows[id][f] = s.props[f]
    BY <1>3 DEF AsWanted
  <2> QED BY <1>1, <1>3, <2>1, <2>2
<1>4. CASE s.op \in {"enable", "disable"}
  <2>1. Done(rows, s) <=> rows[id]["disabled"] = IF s.op = "disable" THEN "true" ELSE "false"
    BY <1>4 DEF Done, Asked, Toggled
  <2>2. AsWanted(s, id) <=> menu.rows[id].disabled = IF s.op = "disable" THEN "true" ELSE "false"
    BY <1>4 DEF AsWanted, IsSo
  <2> QED BY <1>1, <1>4, <2>1, <2>2
<1> QED BY <1>2, <1>3, <1>4 DEF WellFormed

\* A step that is carried out finds something to do.
LEMMA NeededNotWanted ==
    ASSUME NEW s, WellFormed(s), s.op # "delete", NEW id, StepNeeded(s, id)
    PROVE  ~AsWanted(s, id)
<1>1. CASE s.op = "create"
  BY <1>1 DEF StepNeeded, Create, AsWanted
<1>2. CASE s.op = "set"
  BY <1>2 DEF StepNeeded, Set, AsWanted
<1>3. CASE s.op \in {"enable", "disable"}
  BY <1>3 DEF StepNeeded, Toggle, AsWanted
<1> QED BY <1>1, <1>2, <1>3 DEF WellFormed

\* A step that finds its work done leaves the plan's rows as they are.
LEMMA NothingMade ==
    ASSUME menu \in Menus, NEW p \in Nat, NEW rows, FoldMenu(rows) \in Menus, Made(rows, p),
           NEW s, s = plan.steps[p + 1], WellFormed(s), s.op # "delete", Done(rows, s),
           s.op # "create" /\ s.comment # None => WithComment(rows, s.comment) = {Of(s)}
    PROVE  Meant(rows, s) = rows /\ Made(rows, p + 1)
<1>1. DOMAIN trail.origin \subseteq DOMAIN rows
  BY DEF Made
<1>2. Meant(rows, s) = rows
  BY <1>1, DoneNothing
<1>3. \A n \in 1 .. p : Done(rows, plan.steps[n])
  BY DEF Made
<1>4. Commented => \A i \in DOMAIN rows \ DOMAIN trail.origin : rows[i]["comment"] = Unset
  BY DEF Made
<1>5. Made(rows, p + 1)
  BY <1>3, <1>4, MadeOn
<1> QED BY <1>2, <1>5

\* A step that is carried out does the same to the menu and to the plan's rows.
LEMMA StepMade ==
    ASSUME menu \in Menus, trail.origin \in RowTables, Independent, AllWellFormed,
           NEW p \in Nat, NEW L \in Nat, p + 1 \in 1 .. L, DOMAIN plan.steps = 1 .. L,
           NEW rows, FoldMenu(rows) \in Menus, Made(rows, p),
           NEW g, Matches(g, FoldMenu(rows), menu, DOMAIN trail.origin),
           DOMAIN trail.origin \subseteq Present,
           NEW s, s = plan.steps[p + 1], NEW id, s.op = "create" => id = None,
           s.op # "create" => /\ id = Of(s) /\ id \in DOMAIN trail.origin
                              /\ s.comment # None => WithComment(rows, s.comment) = {id},
           NEW c, c = StepCommand(s, id), c \in Commands, Accepts(menu, c), ~Done(rows, s)
    PROVE  /\ Made(Meant(rows, s), p + 1) /\ FoldMenu(Meant(rows, s)) \in Menus
           /\ \E q : Matches(q, FoldMenu(Meant(rows, s)), Run(menu, c), DOMAIN trail.origin)
           /\ DOMAIN trail.origin \subseteq DOMAIN Run(menu, c).rows
<1>1. PICK m \in Menus : m = FoldMenu(rows)
  OBVIOUS
<1>2. m.rows = rows
  BY <1>1 DEF FoldMenu
<1>3. DOMAIN trail.origin \subseteq DOMAIN rows
  BY DEF Made
<1>4. \A t \in DOMAIN trail.origin : t \in Nat /\ t < m.next
  BY <1>2, <1>3, MenuRows
<1>5. WellFormed(s) /\ s.op \in {"create", "set", "enable", "disable"} /\ p + 1 \in DOMAIN plan.steps
  <2>1. WellFormed(s) /\ s.op # "delete" /\ p + 1 \in DOMAIN plan.steps
    BY IndependentSays DEF AllWellFormed
  <2> QED BY <2>1 DEF WellFormed
<1>6. c.verb = (IF s.op = "create" THEN "add" ELSE s.op) /\ c.id = id
  BY <1>5 DEF StepCommand, Command
<1>7. c.verb # "add" => c.id \in DOMAIN trail.origin
  BY <1>5, <1>6
<1>8. Accepts(m, c) /\ \E q : Matches(q, Run(m, c), Run(menu, c), DOMAIN trail.origin)
  BY <1>1, <1>4, <1>7, MatchesRun
<1>9. Run(m, c) \in Menus
  BY <1>8, RunSays
<1>10. DOMAIN trail.origin \subseteq DOMAIN Run(menu, c).rows
  <2>1. CASE c.verb = "add"
    BY <2>1, RunSays DEF Present
  <2>2. CASE c.verb # "add"
    <3>1. c.verb \in Changing
      BY <1>5, <1>6, <2>2 DEF Changing
    <3> QED BY <3>1, RunSays DEF Present
  <2> QED BY <2>1, <2>2
<1>11. CASE s.op = "create"
  <2>1. ~HasTwin(rows, s)
    BY <1>11 DEF Done
  <2>2. Run(m, c) = FoldMenu(Meant(rows, s))
    BY <1>1, <1>11, <2>1, MeantCreate
  <2>3. Made(Meant(rows, s), p + 1)
    BY <1>5, <1>11, <2>1, MadeCreate
  <2> QED BY <1>8, <1>9, <1>10, <2>2, <2>3
<1>12. CASE s.op # "create"
  <2>1. s.comment = None => id = s.id
    BY <1>12 DEF Of
  <2>2. s.op \in {"set", "enable", "disable"} /\ id \in DOMAIN rows
    BY <1>3, <1>5, <1>12
  <2>3. Run(m, c) = FoldMenu(Meant(rows, s))
    BY <1>1, <1>5, <1>12, <2>1, <2>2, MeantChange
  <2>4. Made(Meant(rows, s), p + 1)
    BY <1>5, <1>12, MadeChange
  <2> QED BY <1>8, <1>9, <1>10, <2>3, <2>4
<1> QED BY <1>11, <1>12

\* One step more of the tower.
LEMMA TowerGrows ==
    ASSUME NEW p \in Nat, NEW h, Tower(h, p), NEW x, x = Meant(h[p], plan.steps[p + 1])
    PROVE  \E t : Tower(t, p + 1) /\ t[p + 1] = x
<1> DEFINE t == [n \in 0 .. (p + 1) |-> IF n = p + 1 THEN x ELSE h[n]]
<1>1. t[p + 1] = x /\ \A n \in 0 .. p : t[n] = h[n]
  OBVIOUS
<1> HIDE DEF t
<1>2. t[0] = trail.origin
  BY <1>1 DEF Tower
<1>3. ASSUME NEW n \in 1 .. (p + 1) PROVE t[n] = Meant(t[n - 1], plan.steps[n])
  <2>1. CASE n = p + 1
    <3>1. n - 1 = p /\ p \in 0 .. p
      BY <2>1
    <3> QED BY <1>1, <2>1, <3>1
  <2>2. CASE n # p + 1
    <3>1. n \in 1 .. p /\ n \in 0 .. p /\ n - 1 \in 0 .. p
      BY <2>2
    <3> QED BY <1>1, <3>1 DEF Tower
  <2> QED BY <2>1, <2>2
<1> QED BY <1>1, <1>2, <1>3 DEF Tower

\* What a plan means is about the plan, the rows it found and which fields are secret.
LEMMA SameMeaning ==
    ASSUME plan' = plan, trail'.origin = trail.origin, menu'.secrets = menu.secrets
    PROVE  /\ Independent' <=> Independent
           /\ \A rows : FoldMenu(rows)' = FoldMenu(rows)
           /\ \A rows, p : Made(rows, p)' <=> Made(rows, p)
           /\ \A h, p : Tower(h, p)' <=> Tower(h, p)
<1>1. Independent' <=> Independent
  BY DEF Independent, HasDeletes, SemanticKey
<1>2. \A rows : FoldMenu(rows)' = FoldMenu(rows)
  BY DEF FoldMenu
<1>3. \A rows, p : Made(rows, p)' <=> Made(rows, p)
  BY DEF Made, Done, HasTwin, SemanticKey, Of, Asked, Commented, Toggled
<1>4. \A h, p : Tower(h, p)' <=> Tower(h, p)
  BY DEF Tower, Meant, SemanticKey
<1> QED BY <1>1, <1>2, <1>3, <1>4

LEMMA StillAt ==
    ASSUME NEW p, NEW h, NEW g, At(p, h, g), menu' = menu, plan' = plan,
           trail'.origin = trail.origin,
           run'.st = "applying" => run'.at <= p + 1,
           run'.st = "applied" => p = Len(plan.steps)
    PROVE  At(p, h, g)'
<1>1. menu'.secrets = menu.secrets /\ Present' = Present
  BY DEF Present
<1>2. FoldMenu(h[p])' = FoldMenu(h[p])
  BY <1>1, SameMeaning
<1>3. Made(h[p], p)'
  BY <1>1, SameMeaning DEF At
<1>4. Tower(h, p)'
  BY <1>1, SameMeaning DEF At
<1> QED BY <1>1, <1>2, <1>3, <1>4 DEF At

\* The steps of an apply, on the rows of the plan: what was made stays as it is.
LEMMA ApplyAsPlanned ==
    ASSUME PlanInv, MeantInv, NEW id,
           ApplyStep(id) \/ ApplyLost(id) \/ ApplyNothing(id),
           Independent, AsPlanned
    PROVE  AsPlanned'
<1>1. PICK L \in Nat : L = Len(plan.steps) /\ DOMAIN plan.steps = 1 .. L
  BY PlanSteps DEF PlanInv
<1>p. PICK p \in 0 .. L : \E h, g : At(p, h, g)
  BY <1>1 DEF AsPlanned
<1>2. PICK h, g : At(p, h, g)
  BY <1>p
<1>3. PICK rows : rows = h[p]
  OBVIOUS
<1>4. /\ Made(rows, p) /\ FoldMenu(rows) \in Menus /\ Tower(h, p)
      /\ Matches(g, FoldMenu(rows), menu, DOMAIN trail.origin)
      /\ DOMAIN trail.origin \subseteq Present
      /\ run.st = "applying" => run.at <= p + 1
  BY <1>2, <1>3 DEF At
<1>5. /\ run.st = "applying" /\ Target(This, id) /\ plan' = plan /\ trail' = trail
      /\ Advance \/ Fail
  BY DEF ApplyStep, ApplyLost, ApplyNothing, Applying
<1>6. /\ run.at \in DOMAIN plan.steps /\ AllWellFormed /\ run.at \in Nat
      /\ run = [st |-> "applying", at |-> run.at]
  BY <1>5, ValidStep DEF AllWellFormed, PlanInv, PlanTyped
<1>7. PICK k \in 1 .. L : k = run.at
  BY <1>1, <1>6
<1>8. k <= p + 1 /\ p \in Nat
  BY <1>4, <1>5, <1>7
<1>9. PICK s : s = This /\ s = plan.steps[k]
  BY <1>7 DEF This
<1>10. WellFormed(s) /\ s.op # "delete"
  BY <1>1, <1>9, <1>6, IndependentSays DEF AllWellFormed
<1>11. menu \in Menus /\ trail.origin \in RowTables
  BY DEF PlanInv, SafeInv, Typed, PlanTyped
<1>12. menu.secrets = {}
  <2>1. plan.steps # <<>>
    BY <1>1, <1>6
  <2> QED BY <2>1 DEF MeantInv
<1>13. s.op # "create" => id \in Present
  <2>1. CASE ApplyNothing(id)
    BY <1>9, <1>10, <2>1 DEF ApplyNothing, AsWanted, WellFormed
  <2>2. CASE ApplyStep(id) \/ ApplyLost(id)
    BY <1>9, <2>2, StepRuns
  <2> QED BY <2>1, <2>2
<1>14. s.op = "create" => id = None
  <2>1. s.op = "create" => s.comment = None /\ s.id = None
    BY <1>10 DEF WellFormed
  <2> QED BY <1>5, <1>9, <2>1 DEF Target
<1>15. s.op # "create" =>
          /\ id = Of(s) /\ id \in DOMAIN trail.origin /\ g[id] = id
          /\ s.comment # None => WithComment(rows, s.comment) = {id}
  <2>1. Target(s, id) /\ p <= L
    BY <1>5, <1>9
  <2>2. k \in DOMAIN plan.steps /\ p \in Nat
    BY <1>1, <1>8
  <2>3. CASE s.op # "create"
    <3>1. id \in Present
      BY <1>13, <2>3
    <3>2. /\ id = Of(s) /\ id \in DOMAIN trail.origin /\ g[id] = id
          /\ Alone(rows, s, id)
      BY <1>1, <1>4, <1>6, <1>9, <1>11, <1>12, <2>1, <2>2, <2>3, <3>1, TargetIs, SMTT(30)
    <3> QED BY <3>2 DEF Alone
  <2> QED BY <2>3
<1>16. DOMAIN trail.origin \subseteq DOMAIN rows
  BY <1>4 DEF Made
<1>17. AsWanted(s, id) <=> Done(rows, s)
  BY <1>4, <1>10, <1>11, <1>12, <1>13, <1>15, <1>16, WantedIsDone
<1>18. k <= p => Done(rows, s)
  BY <1>4, <1>7, <1>8, <1>9 DEF Made
<1>19. \/ run' = [st |-> "applied", at |-> k] /\ k = L
       \/ run' = [st |-> "failed", at |-> k]
       \/ run' = [st |-> "applying", at |-> k + 1]
  BY <1>1, <1>5, <1>6, <1>7 DEF Advance, Fail
<1>20. CASE ApplyNothing(id)
  <2>1. menu' = menu /\ Done(rows, s)
    BY <1>9, <1>17, <1>20 DEF ApplyNothing, vars
  <2>2. CASE k <= p
    <3>1. run'.st = "applying" => run'.at <= p + 1
      BY <1>8, <1>19, <2>2
    <3>2. run'.st = "applied" => p = Len(plan.steps)
      BY <1>1, <1>8, <1>19, <2>2
    <3>3. At(p, h, g)'
      BY <1>2, <1>5, <2>1, <3>1, <3>2, StillAt
    <3>4. p \in 0 .. Len(plan'.steps)
      BY <1>1, <1>5
    <3> QED BY <3>3, <3>4 DEF AsPlanned
  <2>3. CASE k = p + 1
    <3>1. Meant(rows, s) = rows /\ Made(rows, p + 1)
      BY <1>4, <1>8, <1>9, <1>10, <1>11, <1>15, <2>1, <2>3, NothingMade
    <3>2. PICK t : Tower(t, p + 1) /\ t[p + 1] = rows
      BY <1>3, <1>4, <1>8, <1>9, <2>3, <3>1, TowerGrows
    <3>3. At(p + 1, t, g)'
      <4>1. menu'.secrets = menu.secrets /\ Present' = Present
        BY <2>1 DEF Present
      <4>2. FoldMenu(rows)' = FoldMenu(rows)
        BY <1>5, <4>1, SameMeaning
      <4>3. Made(rows, p + 1)'
        BY <1>5, <3>1, <4>1, SameMeaning
      <4>4. Tower(t, p + 1)'
        BY <1>5, <3>2, <4>1, SameMeaning
      <4>5. run'.st = "applying" => run'.at <= p + 1 + 1
        BY <1>8, <1>19, <2>3
      <4>6. run'.st = "applied" => p + 1 = Len(plan'.steps)
        BY <1>1, <1>5, <1>8, <1>19, <2>3
      <4> QED BY <1>4, <1>5, <2>1, <3>2, <4>1, <4>2, <4>3, <4>4, <4>5, <4>6 DEF At
    <3>4. p + 1 \in 0 .. Len(plan'.steps)
      BY <1>1, <1>5, <1>7, <2>3
    <3> QED BY <3>3, <3>4 DEF AsPlanned
  <2> QED BY <1>8, <2>2, <2>3
<1>21. CASE ApplyStep(id) \/ ApplyLost(id)
  <2>1. ~AsWanted(s, id)
    BY <1>9, <1>10, <1>21, NeededNotWanted DEF ApplyStep, ApplyLost
  <2>2. k = p + 1 /\ ~Done(rows, s)
    BY <1>8, <1>17, <1>18, <2>1
  <2>3. PICK c \in Commands : c = StepCommand(s, id) /\ Accepts(menu, c) /\ menu' = Run(menu, c)
    BY <1>9, <1>21, StepRuns
  <2>4. PICK x : x = Meant(rows, s)
    OBVIOUS
  <2>5. /\ Made(x, p + 1) /\ FoldMenu(x) \in Menus
        /\ \E q : Matches(q, FoldMenu(x), menu', DOMAIN trail.origin)
        /\ DOMAIN trail.origin \subseteq Present'
    <3>1. p + 1 \in 1 .. L /\ s = plan.steps[p + 1]
      BY <1>7, <1>9, <2>2
    <3>2. /\ Made(Meant(rows, s), p + 1) /\ FoldMenu(Meant(rows, s)) \in Menus
          /\ \E q : Matches(q, FoldMenu(Meant(rows, s)), Run(menu, c), DOMAIN trail.origin)
          /\ DOMAIN trail.origin \subseteq DOMAIN Run(menu, c).rows
      BY <1>1, <1>4, <1>6, <1>8, <1>11, <1>14, <1>15, <2>2, <2>3, <3>1, StepMade
    <3> QED BY <2>3, <2>4, <3>2 DEF Present
  <2>6. PICK q : Matches(q, FoldMenu(x), menu', DOMAIN trail.origin)
    BY <2>5
  <2>7. PICK t : Tower(t, p + 1) /\ t[p + 1] = x
    BY <1>3, <1>4, <1>8, <1>9, <2>2, <2>4, TowerGrows
  <2>8. menu'.secrets = menu.secrets
    BY <1>11, <2>3, RunSays
  <2>9. At(p + 1, t, q)'
    <3>1. FoldMenu(x)' = FoldMenu(x)
      BY <1>5, <2>8, SameMeaning
    <3>2. Made(x, p + 1)'
      BY <1>5, <2>5, <2>8, SameMeaning
    <3>3. Tower(t, p + 1)'
      BY <1>5, <2>7, <2>8, SameMeaning
    <3>4. run'.st = "applying" => run'.at <= p + 1 + 1
      BY <1>8, <1>19, <2>2
    <3>5. run'.st = "applied" => p + 1 = Len(plan'.steps)
      BY <1>1, <1>5, <1>8, <1>19, <2>2
    <3> QED BY <1>5, <2>5, <2>6, <2>7, <3>1, <3>2, <3>3, <3>4, <3>5 DEF At
  <2>10. p + 1 \in 0 .. Len(plan'.steps)
    BY <1>1, <1>5, <1>7, <2>2
  <2> QED BY <2>9, <2>10 DEF AsPlanned
<1> QED BY <1>20, <1>21

\* The first apply of a plan finds the rows none of its steps has changed; another
\* goes on with what the first has left.
LEMMA StartAsPlanned ==
    ASSUME PlanInv, MeantInv, NEW confirmed, StartApply(confirmed),
           Independent', trail.applies > 0 /\ Independent => AsPlanned
    PROVE  AsPlanned'
<1>1. PICK L \in Nat : L = Len(plan.steps) /\ DOMAIN plan.steps = 1 .. L
  BY PlanSteps DEF PlanInv
<1>2. menu' = menu /\ plan' = plan
  BY DEF StartApply, vars
<1>3. /\ trail \in [applies : 0 .. MaxApplies, origin : RowTables, mixed : BOOLEAN,
                    blind : BOOLEAN, hand : 0 .. MaxByHand, unread : SUBSET DOMAIN plan.steps]
      /\ trail'.origin = IF trail.applies = 0 THEN menu.rows ELSE trail.origin
  BY DEF StartApply, PlanInv, PlanTyped
<1>4. run' = [st |-> "applying", at |-> 1] \/ run' = [st |-> "invalid", at |-> 0]
  BY DEF StartApply, Begin
<1>5. run'.st = "applying" => run'.at = 1
  BY <1>4
<1>6. run'.st # "applied"
  BY <1>4
<1>7. menu \in Menus
  BY DEF PlanInv, SafeInv, Typed
<1>8. CASE trail.applies > 0
  <2>1. trail'.origin = trail.origin /\ menu'.secrets = menu.secrets
    BY <1>2, <1>3, <1>8
  <2>2. Independent
    BY <1>2, <2>1, SameMeaning
  <2>p. PICK p \in 0 .. L : \E h, g : At(p, h, g)
    BY <1>1, <1>8, <2>2 DEF AsPlanned
  <2>3. PICK h, g : At(p, h, g)
    BY <2>p
  <2>4. run'.st = "applying" => run'.at <= p + 1
    BY <1>5
  <2>5. At(p, h, g)'
    BY <1>2, <1>6, <2>1, <2>3, <2>4, StillAt
  <2>6. p \in 0 .. Len(plan'.steps)
    BY <1>1, <1>2
  <2> QED BY <2>5, <2>6 DEF AsPlanned
<1>9. CASE trail.applies = 0
  <2>1. PICK r : r = menu.rows /\ r = trail'.origin /\ DOMAIN r = Present
    BY <1>3, <1>9 DEF Present
  <2>2. PICK h : h[0] = r
    <3>1. [n \in {0} |-> r][0] = r
      OBVIOUS
    <3> QED BY <3>1
  <2>3. FoldMenu(r) \in Menus /\ FoldMenu(r).next <= menu.next
    BY <1>7, <2>1, FoldMenuStarts DEF MeantInv
  <2>4. FoldMenu(r)' = FoldMenu(r)
    BY <1>2 DEF FoldMenu
  <2>5. PICK g : g = [i \in DOMAIN r |-> i]
    OBVIOUS
  <2>6. Pairs(g, r, r, menu.secrets)
    BY <2>5 DEF Pairs, Alike
  <2>7. Matches(g, FoldMenu(r), menu, DOMAIN r)
    <3>1. FoldMenu(r).rows = r /\ FoldMenu(r).secrets = menu.secrets
      BY DEF FoldMenu
    <3> QED BY <2>1, <2>3, <2>5, <2>6, <3>1 DEF Matches
  <2>8. Made(h[0], 0)'
    <3>1. \A n : n \notin 1 .. 0
      OBVIOUS
    <3>2. DOMAIN trail'.origin \subseteq DOMAIN h[0]
      BY <2>1, <2>2
    <3>3. \A i \in DOMAIN trail'.origin, f \in Fields : h[0][i][f] = trail'.origin[i][f]
      BY <2>1, <2>2
    <3>4. DOMAIN h[0] \ DOMAIN trail'.origin = {}
      BY <2>1, <2>2
    <3> QED BY <3>1, <3>2, <3>3, <3>4 DEF Made
  <2>9. Tower(h, 0)'
    <3>1. \A n : n \notin 1 .. 0
      OBVIOUS
    <3> QED BY <2>1, <2>2, <3>1 DEF Tower
  <2>10. run'.st = "applying" => run'.at <= 0 + 1
    BY <1>5
  <2>11. Present' = Present
    BY <1>2 DEF Present
  <2>12. At(0, h, g)'
    BY <1>2, <1>6, <2>1, <2>2, <2>3, <2>4, <2>7, <2>8, <2>9, <2>10, <2>11 DEF At
  <2>13. 0 \in 0 .. Len(plan'.steps)
    BY <1>1, <1>2
  <2> QED BY <2>12, <2>13 DEF AsPlanned
<1> QED BY <1>3, <1>8, <1>9

\* Nothing changes which fields are secret, and an .id is never used again.
LEMMA SecretsStay ==
    ASSUME SafeInv, Faithful \/ [Next]_vars
    PROVE  menu'.secrets = menu.secrets /\ menu.next <= menu'.next
<1>1. Typed /\ menu \in Menus /\ menu.next \in Nat /\ menu.next <= menu.next
  BY DEF SafeInv, Typed, Menus
<1>2. CASE Faithful
  <2>1. PICK c \in Commands : Accepts(menu, c) /\ menu' = Run(menu, c)
    BY <1>2 DEF Faithful, Write
  <2> QED BY <1>1, <2>1, RunSays
<1>3. CASE Undo
  <2>1. PICK j \in Journals : j = session.journal
    BY <1>1 DEF Typed
  <2>2. PICK k \in 1 .. Len(j) : k = session.pos
    BY <1>1, <1>3, <2>1 DEF Typed, Undo
  <2>3. Accepts(menu, j[k].inverse) /\ menu' = Run(menu, j[k].inverse)
    BY <1>3, <2>1, <2>2 DEF Undo
  <2> QED BY <1>1, <2>3, UndoStep
<1>4. menu' = menu => menu'.secrets = menu.secrets /\ menu.next <= menu'.next
  BY <1>1
<1>5. StartRollback \/ UndoRefused \/ Interrupted \/ MarkRolledBack \/ Commit => menu' = menu
  BY DEF StartRollback, UndoRefused, Interrupted, GiveUp, MarkRolledBack, Commit
<1>6. UNCHANGED vars => menu' = menu
  BY DEF vars
<1> QED BY <1>1, <1>2, <1>3, <1>4, <1>5, <1>6, NextIs DEF Ending

LEMMA InitAsPlanned == PlanInit => MeantInv
<1> SUFFICES ASSUME PlanInit PROVE MeantInv
  OBVIOUS
<1>1. menu.next = Cardinality(DOMAIN base) + 1
  BY DEF PlanInit, Init
<1>2. DOMAIN base = 1 .. Len(base) /\ Len(base) \in Nat
  <2>1. base \in Seq(Row)
    BY InitSafe DEF PlanInit, SafeInv, Typed
  <2> QED BY <2>1, LenProperties
<1>3. Cardinality(DOMAIN base) \in Nat
  BY <1>2, FS_Interval, FS_CardinalityType
<1>4. menu.next # 0
  BY <1>1, <1>3
<1>5. run.st = "idle" /\ trail.applies = 0
  BY DEF PlanInit
<1> QED BY <1>4, <1>5 DEF PlanInit, MeantInv

LEMMA NextAsPlanned == PlanInv /\ MeantInv /\ [PlanNext]_planVars => MeantInv'
<1> SUFFICES ASSUME PlanInv, MeantInv, [PlanNext]_planVars PROVE MeantInv'
  OBVIOUS
<1>1. menu'.secrets = menu.secrets /\ menu.next <= menu'.next
  BY PlanNextIs, SecretsStay DEF PlanInv
<1>2. menu \in Menus /\ menu' \in Menus
  <2>1. SafeInv'
    BY PlanNextInv DEF PlanInv
  <2> QED BY <2>1 DEF PlanInv, SafeInv, Typed
<1>3. menu'.next # 0
  <2>1. menu.next \in Nat /\ menu'.next \in Nat /\ menu.next # 0
    BY <1>2 DEF Menus, MeantInv
  <2> QED BY <1>1, <2>1
<1>4. plan' = plan
  BY DEF PlanNext, ByHand, StartPreview, PreviewStep, PreviewUnread, Show, StartApply, ApplyStep,
         ApplyUnseen, ApplyNothing, ApplyLost, ApplyFails, planVars
<1>5. plan'.steps # <<>> => menu'.secrets = {}
  BY <1>1, <1>4 DEF MeantInv
<1>6. /\ trail \in [applies : 0 .. MaxApplies, origin : RowTables, mixed : BOOLEAN,
                    blind : BOOLEAN, hand : 0 .. MaxByHand, unread : SUBSET DOMAIN plan.steps]
      /\ trail.applies \in Nat
  BY PlanAssumption DEF PlanInv, PlanTyped
<1>7. ASSUME run'.st \in {"applying", "applied"} PROVE trail'.applies > 0
  <2>1. CASE ByHand
    BY <1>6, <1>7, <2>1 DEF ByHand, MeantInv
  <2>2. CASE StartPreview \/ PreviewStep \/ PreviewUnread
    <3>1. run'.st \notin {"applying", "applied"}
      BY <2>2, PreviewSays
    <3> QED BY <1>7, <3>1
  <2>3. ASSUME NEW confirmed, StartApply(confirmed) PROVE trail'.applies > 0
    <3>1. trail'.applies = trail.applies + 1
      BY <1>6, <2>3 DEF StartApply
    <3> QED BY <1>6, <3>1
  <2>4. CASE run.st = "applying" /\ trail'.applies = trail.applies
    BY <2>4 DEF MeantInv
  <2>5. ASSUME NEW id, ApplyStep(id) \/ ApplyUnseen(id) \/ ApplyNothing(id) \/ ApplyLost(id)
               \/ ApplyFails
        PROVE  run.st = "applying" /\ trail'.applies = trail.applies
    BY <1>6, <2>5 DEF ApplyStep, ApplyUnseen, ApplyNothing, ApplyLost, ApplyFails, Applying
  <2>6. CASE UNCHANGED planVars
    BY <1>7, <2>6 DEF planVars, MeantInv
  <2> QED BY <2>1, <2>2, <2>3, <2>4, <2>5, <2>6 DEF PlanNext
<1>8. ASSUME trail'.applies > 0, Independent', ~trail'.mixed, ~trail'.blind PROVE AsPlanned'
  <2>1. ASSUME NEW confirmed, StartApply(confirmed) PROVE AsPlanned'
    <3>1. ~trail.mixed /\ ~trail.blind
      BY <1>6, <1>8, <2>1 DEF StartApply
    <3>2. trail.applies > 0 /\ Independent => AsPlanned
      BY <3>1 DEF MeantInv
    <3> QED BY <1>8, <2>1, <3>2, StartAsPlanned
  <2>2. ASSUME trail'.origin = trail.origin, trail'.applies = trail.applies,
               ~trail.mixed, ~trail.blind
        PROVE  Independent /\ AsPlanned
    <3>1. Independent
      BY <1>1, <1>4, <1>8, <2>2, SameMeaning
    <3> QED BY <1>8, <2>2, <3>1 DEF MeantInv
  <2>3. ASSUME Independent, AsPlanned, trail'.origin = trail.origin, menu' = menu,
               run'.st \in {"applying", "applied"} => run' = run
        PROVE  AsPlanned'
    <3>p. PICK p \in 0 .. Len(plan.steps) : \E h, g : At(p, h, g)
      BY <2>3 DEF AsPlanned
    <3>1. PICK h, g : At(p, h, g)
      BY <3>p
    <3>2. run'.st = "applying" => run'.at <= p + 1
      BY <2>3, <3>1 DEF At
    <3>3. run'.st = "applied" => p = Len(plan.steps)
      BY <2>3, <3>1 DEF At
    <3>4. At(p, h, g)'
      BY <1>4, <2>3, <3>1, <3>2, <3>3, StillAt
    <3>5. p \in 0 .. Len(plan'.steps)
      BY <1>4
    <3> QED BY <3>4, <3>5 DEF AsPlanned
  <2>4. CASE ByHand
    <3>1. run' = run /\ trail'.origin = trail.origin /\ trail'.applies = trail.applies
          /\ trail'.blind = trail.blind
          /\ trail'.mixed = (trail.mixed \/ (trail.applies > 0 /\ menu' # menu))
      BY <1>6, <2>4 DEF ByHand
    <3>2. ~trail.mixed /\ ~trail.blind /\ menu' = menu
      BY <1>8, <3>1
    <3> QED BY <2>2, <2>3, <3>1, <3>2
  <2>5. CASE StartPreview \/ PreviewStep \/ PreviewUnread
    <3>1. run'.st \notin {"applying", "applied"}
      BY <2>5, PreviewSays
    <3>2. menu' = menu /\ trail' = [trail EXCEPT !.unread = trail'.unread]
      BY <2>5, PreviewSays
    <3>3. /\ trail'.origin = trail.origin /\ trail'.applies = trail.applies
          /\ ~trail.mixed /\ ~trail.blind
      BY <1>6, <1>8, <3>2
    <3>4. Independent /\ AsPlanned
      BY <2>2, <3>3
    <3> QED BY <2>3, <3>1, <3>2, <3>3, <3>4
  <2>6. ASSUME NEW id, ApplyStep(id) \/ ApplyLost(id) \/ ApplyNothing(id) PROVE AsPlanned'
    <3>1. trail' = trail
      BY <2>6 DEF ApplyStep, ApplyLost, ApplyNothing
    <3>2. Independent /\ AsPlanned
      BY <1>8, <2>2, <3>1
    <3> QED BY <2>6, <3>2, ApplyAsPlanned
  <2>7. ASSUME NEW id, ApplyUnseen(id) PROVE AsPlanned'
    <3>1. trail'.blind
      BY <1>6, <2>7 DEF ApplyUnseen
    <3> QED BY <1>8, <3>1
  <2>8. CASE ApplyFails
    <3>1. run'.st = "failed"
      BY <2>8 DEF ApplyFails, Fail, PlanInv, PlanTyped
    <3>2. trail' = trail /\ menu' = menu
      BY <2>8 DEF ApplyFails, vars
    <3>3. Independent /\ AsPlanned
      BY <1>8, <2>2, <3>2
    <3> QED BY <2>3, <3>1, <3>2, <3>3
  <2>9. CASE UNCHANGED planVars
    <3>1. trail' = trail /\ menu' = menu /\ run' = run
      BY <2>9 DEF planVars, vars
    <3>2. Independent /\ AsPlanned
      BY <1>8, <2>2, <3>1
    <3> QED BY <2>3, <3>1, <3>2
  <2> QED BY <2>1, <2>4, <2>5, <2>6, <2>7, <2>8, <2>9 DEF PlanNext
<1> QED BY <1>3, <1>5, <1>7, <1>8 DEF MeantInv

LEMMA DoneAsMeant == PlanInv /\ MeantInv => AppliedAsMeant
<1> SUFFICES ASSUME PlanInv, MeantInv, run.st = "applied", Independent, ~trail.mixed, ~trail.blind
             PROVE  SameRows(menu.rows, FoldLeft(Meant, trail.origin, plan.steps))
  BY DEF AppliedAsMeant
<1>1. PICK L \in Nat : L = Len(plan.steps) /\ DOMAIN plan.steps = 1 .. L
  BY PlanSteps DEF PlanInv
<1>p. PICK p \in 0 .. L : \E h, g : At(p, h, g)
  BY <1>1 DEF MeantInv, AsPlanned
<1>2. PICK h, g : At(p, h, g)
  BY <1>p
<1>3. p = L
  BY <1>1, <1>2 DEF At
<1>4. PICK r : r = h[L]
  OBVIOUS
<1>5. FoldLeft(Meant, trail.origin, plan.steps) = r
  BY <1>1, <1>2, <1>3, <1>4, FoldTower DEF At
<1>6. PICK m \in Menus : m = FoldMenu(r)
  BY <1>2, <1>3, <1>4 DEF At
<1>7. m.rows = r /\ m.secrets = menu.secrets
  BY <1>6 DEF FoldMenu
<1>8. Like(r, menu.rows, menu.secrets)
  BY <1>2, <1>3, <1>4, <1>6, <1>7 DEF At, Matches, Like
<1>9. \A i \in DOMAIN r : r[i] \in Row /\ i \in Nat /\ i < m.next
  BY <1>7, MenuRows
<1>10. IsFiniteSet(DOMAIN r)
  <2>1. m.next \in Nat
    BY DEF Menus
  <2>2. DOMAIN r \subseteq 0 .. m.next
    BY <1>9, <2>1
  <2>3. IsFiniteSet(0 .. m.next)
    BY <2>1, FS_Interval
  <2> QED BY <2>2, <2>3, FS_Subset
<1>11. \A k \in DOMAIN menu.rows : menu.rows[k] \in Row
  BY MenuRows DEF PlanInv, SafeInv, Typed
<1> QED BY <1>5, <1>8, <1>9, <1>10, <1>11, LikeSame

\* An apply that says it is complete has made of the rows what its plan means, also
\* when it is the second attempt, whatever the first left done and unanswered
\* (runPlanApply and applyOnePlanStep in cmd/plan.go): at each moment the rows are
\* those of the plan's first p steps, and the step the apply is at is the next of
\* them or one that finds its work done.
THEOREM PlansApplied == PlanSpec => []AppliedAsMeant
<1>1. PlanSpec => []MeantInv
  BY InitAsPlanned, NextAsPlanned, PlanInvariant, PTL DEF PlanSpec
<1> QED BY <1>1, PlanInvariant, DoneAsMeant, PTL
=============================================================================
