---------------------------- MODULE EphemeralSSH ----------------------------
(***************************************************************************)
(* The SFTP transfers of `ros backup` and `ros file get`                    *)
(* (internal/filexfer).  A transfer reads the router's /ip/service ssh row,  *)
(* sets it to enabled with the caller's addresses merged into its allowlist, *)
(* copies the file over SSH, and sets the row back to what it read.  The row *)
(* is the router's; every transfer is a process of its own, and nothing on   *)
(* the router or on disk tells one transfer of another.                      *)
(***************************************************************************)
EXTENDS Naturals, FiniteSets

CONSTANTS
    Sources,     \* addresses SSH clients come from
    Transfers,   \* transfers a behaviour makes
    Addresses,   \* transfer -> its local egress and public addresses, or --source-ip
    Seen,        \* transfer -> the address the router sees it come from
    Rows,        \* what the row may be when nobody transfers
    Faults,      \* whether answers are lost and processes die
    None         \* no transfer

ASSUME SSHAssumption ==
    /\ Addresses \in [Transfers -> SUBSET Sources]
    /\ Seen \in [Transfers -> Sources]
    /\ Rows \subseteq [address: SUBSET Sources, disabled: BOOLEAN]
    /\ Faults \in BOOLEAN
    /\ None \notin Transfers

VARIABLES
    ssh,         \* the row: allowlist (empty lets everyone in) and disabled flag
    xfer,        \* xfer[t]: stage, captured row, addresses to let in, and outcome
    base,        \* history: the row before the first transfer
    first,       \* history: of the transfers that overlap now, the first to capture
    joined,      \* history: another has captured while it was in flight
    crossed,     \* history: a first that was joined did not end last, by restoring
    left         \* history: transfers that ended without undoing what they set

history == <<first, joined, crossed, left>>
vars == <<ssh, xfer, base, history>>

-----------------------------------------------------------------------------

\* SSHServiceState.
SSHRow == [address: SUBSET Sources, disabled: BOOLEAN]

\* "detect", "widen": captured, nothing changed yet; "transfer", "restore": the
\* deferred restore is armed; "ok", "error": exit; "killed".
Stage == {"start", "detect", "widen", "transfer", "restore", "ok", "error", "killed"}

InFlight == {t \in Transfers : xfer[t].stage \in {"detect", "widen", "transfer", "restore"}}

\* What the router makes of a connection from address a.
Admits(row, a) == ~row.disabled /\ (row.address = {} \/ a \in row.address)

At(t, stage) == xfer[t].stage = stage

Goto(t, stage) == xfer' = [xfer EXCEPT ![t].stage = stage]

\* The history of a transfer's end: "restored", "untouched" or "unrestored".
Leaves(t, how) ==
    /\ crossed' = (crossed \/ (t = first /\ joined /\ (InFlight # {t} \/ how # "restored")))
    /\ first' = IF t = first THEN None ELSE first
    /\ joined' = (joined /\ t # first)
    /\ left' = IF how = "unrestored" THEN left \cup {t} ELSE left

-----------------------------------------------------------------------------

\* --ephemeral-ssh=false, --via api and ftp, and --via auto when the API has the
\* contents: the row is not touched.  Nor is it when CaptureSSHService fails.
Direct(t) ==
    /\ At(t, "start")
    /\ \/ Goto(t, "ok")
       \/ Goto(t, "error")
    /\ UNCHANGED <<ssh, base, history>>

\* CaptureSSHService.
Capture(t) ==
    /\ At(t, "start")
    /\ xfer' = [xfer EXCEPT ![t].stage = "detect", ![t].saved = ssh]
    /\ first' = IF InFlight = {} THEN t ELSE first
    /\ joined' = (InFlight # {})
    /\ UNCHANGED <<ssh, base, crossed, left>>

\* collectAllowIPs: each of the two detections may fail, and the address the
\* router sees may be neither.
Detect(t) ==
    /\ At(t, "detect")
    /\ \E ips \in (SUBSET Addresses[t]) \ {{}} :
          xfer' = [xfer EXCEPT ![t].stage = "widen", ![t].ips = ips]
    /\ UNCHANGED <<ssh, base, history>>

DetectFails(t) ==
    /\ At(t, "detect")
    /\ Goto(t, "error")
    /\ Leaves(t, "untouched")
    /\ UNCHANGED <<ssh, base>>

\* ApplySSHAccess with MergeAddressList.
Widened(t) == [address |-> xfer[t].saved.address \cup xfer[t].ips, disabled |-> FALSE]

\* Mutant of Widen: sets the allowlist to the caller's addresses.
WidenOnly(t) ==
    /\ At(t, "widen")
    /\ ssh' = [address |-> xfer[t].ips, disabled |-> FALSE]
    /\ Goto(t, "transfer")
    /\ UNCHANGED <<base, history>>

Widen(t) ==
    /\ At(t, "widen")
    /\ ssh' = Widened(t)
    /\ Goto(t, "transfer")
    /\ UNCHANGED <<base, history>>

\* An error of the set command, read-only mode included: the transfer ends and,
\* the restore being armed only after a success, does not restore.  If only the
\* answer was lost the row is widened.
WidenFails(t) ==
    /\ At(t, "widen")
    /\ Goto(t, "error")
    /\ \/ ssh' = ssh /\ Leaves(t, "untouched")
       \/ Faults /\ ssh' = Widened(t) /\ Leaves(t, "unrestored")
    /\ UNCHANGED base

\* downloadSFTP, once the settle time is over.
Fetch(t) ==
    /\ At(t, "transfer")
    /\ Admits(ssh, Seen[t])
    /\ xfer' = [xfer EXCEPT ![t].stage = "restore", ![t].err = FALSE]
    /\ UNCHANGED <<ssh, base, history>>

\* Mutant of FetchFails: a failed transfer skips the restore.
FetchFailsAndReturns(t) ==
    /\ At(t, "transfer")
    /\ Goto(t, "error")
    /\ UNCHANGED <<ssh, base, history>>

\* The dial, the login or the copy fails, or the command's time is up.
FetchFails(t) ==
    /\ At(t, "transfer")
    /\ xfer' = [xfer EXCEPT ![t].stage = "restore", ![t].err = TRUE]
    /\ UNCHANGED <<ssh, base, history>>

Exit(t) == Goto(t, IF xfer[t].err THEN "error" ELSE "ok")

\* Mutant of Restore: puts back the allowlist and not the disabled flag.
RestoreAddress(t) ==
    /\ At(t, "restore")
    /\ ssh' = [ssh EXCEPT !.address = xfer[t].saved.address]
    /\ Exit(t)
    /\ Leaves(t, "restored")
    /\ UNCHANGED base

\* RestoreSSHService, outside the command's time limit.
Restore(t) ==
    /\ At(t, "restore")
    /\ ssh' = xfer[t].saved
    /\ Exit(t)
    /\ Leaves(t, "restored")
    /\ UNCHANGED base

\* The deferred function assigns its error to the err of the if block, which
\* shadows the result of the function: the exit is that of the transfer.
RestoreFails(t) ==
    /\ Faults
    /\ At(t, "restore")
    /\ ssh' \in {ssh, xfer[t].saved}
    /\ Exit(t)
    /\ Leaves(t, "unrestored")
    /\ UNCHANGED base

\* Nothing catches an interrupt, so no deferred call runs.
Killed(t) ==
    /\ Faults
    /\ t \in InFlight
    /\ Goto(t, "killed")
    /\ Leaves(t, IF xfer[t].stage \in {"detect", "widen"} THEN "untouched" ELSE "unrestored")
    /\ UNCHANGED <<ssh, base>>

-----------------------------------------------------------------------------

Init ==
    /\ base \in Rows
    /\ ssh = base
    /\ xfer = [t \in Transfers |-> [stage |-> "start", saved |-> base, ips |-> {}, err |-> FALSE]]
    /\ first = None
    /\ joined = FALSE
    /\ crossed = FALSE
    /\ left = {}

Step(t) ==
    \/ Detect(t) \/ DetectFails(t)
    \/ Widen(t) \/ WidenFails(t)
    \/ Fetch(t) \/ FetchFails(t)
    \/ Restore(t) \/ RestoreFails(t)

Next == \E t \in Transfers : Direct(t) \/ Capture(t) \/ Step(t) \/ Killed(t)

Spec == Init /\ [][Next]_vars

\* A transfer that has begun goes on, as long as the router answers or the connection
\* breaks: Client.Run and the copy pass no time limit on.
FairSpec == Spec /\ \A t \in Transfers : WF_vars(Step(t))

-----------------------------------------------------------------------------

TypeOK ==
    /\ ssh \in SSHRow
    /\ base \in SSHRow
    /\ xfer \in [Transfers -> [stage: Stage, saved: SSHRow, ips: SUBSET Sources, err: BOOLEAN]]
    /\ first \in InFlight \cup {None}
    /\ joined \in BOOLEAN
    /\ crossed \in BOOLEAN
    /\ left \subseteq Transfers

\* Whoever overlaps, fails or is killed: an allowlist that was there is never
\* narrowed, and a service that was enabled is never disabled.  (With no allowlist
\* at first, a transfer does shut everyone else out, and one that ends badly leaves
\* it so.)
NobodyShutOut ==
    /\ base.address # {} => base.address \subseteq ssh.address
    /\ ~base.disabled => ~ssh.disabled

\* When no transfer is in flight the row is what it was before the first of them,
\* even if transfers overlapped, as long as none ended without restoring what it set
\* and, of those that overlapped, the first to capture ended last, by restoring.
LeftAsFound ==
    InFlight = {} /\ left = {} /\ ~crossed => ssh = base

\* A row that is not as found gets back to it, or a transfer has ended without
\* restoring it, or overlapping transfers have crossed.
PutBack == ssh # base ~> ssh = base \/ left # {} \/ crossed
=============================================================================
