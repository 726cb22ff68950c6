---------------------------- MODULE SessionLife ----------------------------
(***************************************************************************)
(* What the session store promises, without files, locks and processes: a    *)
(* session is begun once, takes each change once, in order and only while it *)
(* is open, and is closed once; a committed session may still be rolled back *)
(* (its lock may have outlived it), and any session may be lost.             *)
(* StoreRefinement shows that SessionStore implements this as long as its    *)
(* commands run one after the other.                                         *)
(***************************************************************************)
EXTENDS Sequences

CONSTANTS Ids, Changes

VARIABLES
    life,   \* life[i]: what has become of session i
    log     \* log[i]: the changes it has taken

vars == <<life, log>>

Taken(i) == {log[i][n] : n \in DOMAIN log[i]}

Begin(i) ==
    /\ life[i] = "unborn"
    /\ life' = [life EXCEPT ![i] = "active"]
    /\ UNCHANGED log

Take(i, c) ==
    /\ life[i] = "active"
    /\ \A j \in Ids : c \notin Taken(j)
    /\ log' = [log EXCEPT ![i] = Append(@, c)]
    /\ UNCHANGED life

Close(i, how) ==
    /\ \/ life[i] = "active" /\ how \in {"committed", "rolled_back"}
       \/ life[i] = "committed" /\ how = "rolled_back"
    /\ life' = [life EXCEPT ![i] = how]
    /\ UNCHANGED log

\* A device removal loses all the sessions of the device, anything else one.
Lose(lost) ==
    /\ life' = [i \in Ids |-> IF i \in lost THEN "lost" ELSE life[i]]
    /\ log' = [i \in Ids |-> IF i \in lost THEN <<>> ELSE log[i]]

Init ==
    /\ life = [i \in Ids |-> "unborn"]
    /\ log = [i \in Ids |-> <<>>]

Next ==
    /\ vars' # vars     \* a step of its own, never a stutter
    /\ \/ \E i \in Ids :
             \/ Begin(i)
             \/ \E c \in Changes : Take(i, c)
             \/ \E how \in {"committed", "rolled_back"} : Close(i, how)
       \/ \E lost \in (SUBSET {i \in Ids : life[i] # "lost"}) \ {{}} : Lose(lost)

Spec == Init /\ [][Next]_vars
=============================================================================
