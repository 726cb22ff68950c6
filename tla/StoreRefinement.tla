-------------------------- MODULE StoreRefinement --------------------------
(***************************************************************************)
(* SessionStore implements SessionLife.  The step that takes effect is the   *)
(* truncation of the journal by os.WriteFile: from there on the session is   *)
(* what the saving process holds in memory, and is lost if that process ends *)
(* before the file is whole again.                                          *)
(***************************************************************************)
EXTENDS SessionStore

\* The processes that hold the session of a torn journal and may still save it.
Savers(i) ==
    {p \in Procs : cli[p].id = i /\ cli[p].pc \in {"savefill", "undo", "saveopen"}}

Beginning(i) == \E p \in Procs : cli[p].id = i /\ cli[p].pc = "fill"

\* The session i, on disk or in the memory of the one process that saves it.
Contents(i) ==
    IF file[i] = "torn" /\ Savers(i) # {} THEN cli[CHOOSE p \in Savers(i) : TRUE].mem
    ELSE journal[i]

Life(i) ==
    CASE file[i] = "unused" \/ (file[i] = "torn" /\ Beginning(i)) -> "unborn"
      [] file[i] = "whole" -> journal[i].status
      [] file[i] = "torn" /\ Savers(i) # {} -> Contents(i).status
      [] OTHER -> "lost"

Abstract == INSTANCE SessionLife WITH
    life <- [i \in Ids |-> Life(i)],
    log <- [i \in Ids |-> Contents(i).changes]

\* While commands run one after the other, crashes and failing system calls
\* included, every step of the store is a step of the life of the sessions or
\* changes nothing about it: no change is recorded twice or in a closed session, no
\* entry is dropped or reordered, and no closed session is opened or committed
\* again.  (BeginWith, AppendChange, Commit, MarkRolledBack, PurgeDevice.)
ImplementsLife == Abstract!Spec
=============================================================================
