# Verification of `ros`, the RouterOS CLI

TLA+ modules, TLC configurations and TLAPS proofs for the parts of `ros` that
change something: routers, and the files under `~/.config/ros` that several
invocations share. Everything is translated from `src/`; paths below are
relative to it.

Run a model with `tlc -config <X>.cfg <Module>.tla`, the proofs with
`tlapm <X>Proofs.tla`.

## 1. The system

`ros` is a one-shot command line. Every invocation is a process that loads
`config.toml`, resolves a device, talks to one router over the RouterOS API and
exits; `session watch` is the only one that stays. Processes share no memory.
They meet in three places: the files of `~/.config/ros`, the router, and (for
SFTP transfers) the router's SSH service. `Store.mu` in `internal/session` is a
mutex of one process and orders nothing between invocations.

| Component | State it keeps | Operations | What makes it correct | Module |
|---|---|---|---|---|
| Safe-session store (`internal/session/session.go`) | `sessions/<id>.json`, `sessions/active-<device>.lock` | begin, active, append, commit, mark rolled back, mark pending, purge | one session a device; a lock leads to its journal; what a journal lists was done, and what it calls rolled back was undone; a pending change can always be reached | SessionStore, SessionLife |
| Session commands (`cmd/session.go`) | none of their own | begin, commit, rollback, watch, status | commit keeps changes; rollback undoes them all, last first, and says so only then | SessionStore, SafeSession, Gates |
| Inverses (`internal/session/inverse.go`, `cmd/generic.go`, `cmd/exec.go`) | the journal's entries | build an inverse for each write | running the inverses backwards leaves the rows the session found | SafeSession |
| Link watch (`internal/session/watch.go`) | copy of the session, failure count, pending flag | probe, mark pending, roll back, retry | after link loss the session's changes are undone once the link is back | Watch |
| YAML plans (`internal/plan`, `cmd/plan.go`) | none | validate, preview, apply, rollback | apply does what the preview showed; applying again after a failure is safe | PlanApply |
| Write gates (`cmd/root.go`, `internal/guardrails`, `internal/policy`) | the doctor state file | path lists, windows, doctor freshness, safe session, change cap, read-only | no write passes that a rule forbids; what opens the gate is the device's own | Gates |
| Commands (`cmd/*.go`) | none | some fifty, each a program of reads, checks, prompts, writes | what is refused touches nothing; what is written in a session can be undone | Commands |
| Client (`internal/client`, `internal/apperr`) | connection | run, retry reads | a write is sent once; an unanswered one is reported as ambiguous | Commands |
| Inventory and config (`internal/device`, `internal/config`, `internal/credential`) | `config.toml`, keyring | add, remove, use, auth set, connect, import | a failed command leaves nothing behind; a device has its own password | Inventory |
| Ephemeral SSH transfer (`internal/filexfer`) | the router's `/ip/service ssh` row | capture, widen, transfer, restore | the service is afterwards as it was before | EphemeralSSH |
| Semantic diff (`internal/diff`) | none | keys, normalisation, create/set/delete diff | a repeated command is a no-op | SafeSession, PlanApply |
| Reports, output, schema, Winbox codec, skill packs, audit trail | none that is read back | read, print, convert | see section 5 | |

How they interact: a write command passes the gates, which read the active
session; runs its command on the router; reads the active session again and
appends an entry with the inverse. Commit and rollback read the session, write
its final status and remove the lock. `watch` reads the session once and works
with that copy. `device remove` asks the store for an active session, takes the
device out of `config.toml` and purges its session files.

What is hard: the check of a lock and its creation are two system calls of
unsynchronised processes; `os.WriteFile` truncates before it fills; every update
of a journal is a read-modify-write of the whole file; the router is changed
before the journal is; the answer of a write may be lost; a rollback may stop
half-way and is repeated from its start; the link of a watch comes and goes.
`PROJECT.json` lists each of these at its line under `hazards`, with the
properties that speak about it or the reason none does.

## 2. The modules

### SessionStore — the files, as several processes share them

A step is one system call on the sessions directory, or one API call on a router.

| Module | Code |
|---|---|
| `lock[k]` | contents of `active-<k>.lock`: `Absent`, `Empty` (created, not yet written), or a session id |
| `file[i]`, `journal[i]` | `<i>.json`: unused, absent, torn (truncated), whole; and the session it holds |
| `inventory` | device names of `config.toml` |
| `applied`, `undone` | router writes made, and changes whose inverse ran |
| `cli[p]` | a process: stage, command, device, session id, in-memory copy of the session, change, position of a rollback |
| `raced`, `lost`, `stuck`, `cut`, `kept` | history, in properties only: keys on which commands overlapped; entries lost, and keys left with the lock of a closed session or with a half-written file, by a command that was cut short; committed changes |

`Sanitize` is `session.go:80`: two device names may share a lock file.
`StartBegin`, `StartCommand` and `StartForcedRemove` start processes; `Begin*` is
`BeginWith`; `ReadLock`/`ReadJournal` is `Active`, and `Proceed` is what each
command does with the answer (`CheckWrite` is the safe-session and cap part of
`enforceGuardrails`, `RecordChange` is `recordSafeChange` with `AppendChange`);
`RouterWrite`/`AmbiguousWrite` is the command on the router; `SaveOpen`/`SaveFill`
is `Store.write`; `Unlock` the ignored `os.Remove`; `Undo`/`MarkRolledBack`/
`UndoFails` `applySessionRollback`; `LinkLost` and the operations `pend`,
`autoroll`, `remark` the watch; `Forget`/`PurgeLock`/`PurgeJournals` `device
remove`. `Quit`, `Crash` and `IOFails` end a process at any stage. An entry of a
journal is only the identity of its change.

### SafeSession — what the entries say, and what a rollback restores

One menu of the router (rows by `.id`, which the router never reuses), one
session, one operator. `Run` is the router; `SetInverse`, `RemoveInverse` and
`PlainInverse` are the inverses; `Create`, `Set`, `Delete`, `Toggle` the generic
commands with their idempotency checks; `Sanitized` leaves the secrets of the menu
out of what is journaled; `ToggleUnseen`, `ExecAdd`,
`Unjournaled` what `exec`, `--force` and a failed pre-read make of them;
`AmbiguousWrite` a lost answer. A rollback runs inverse by inverse and may be
refused or cut short at any point (`UndoRefused`, `Interrupted`), after which the
session is active again with its whole journal. `gaps` notes why a journal does
not tell the whole story (an unset value, a command that changed nothing, a write
not journaled, an answer lost); `partial` that an attempt ran part of it.

### Watch — the second process, and the link

Extends SafeSession with `link` and the watching process. `ProbeFails` and
`LinkIsLost` count to `FailThreshold`; `StartAttempt`, `UndoNext`, `AttemptFails`,
`AttemptEnds` are one retry; the operator writes meanwhile whenever the link is
up.

### EphemeralSSH — the router's SSH service during a transfer

`ssh` is the row of `/ip/service`: an allowlist (empty: everyone) and a disabled
flag. It belongs to the router and is shared by every transfer.

| Module | Code |
|---|---|
| `xfer[t].stage` | where a transfer is: `detect` and `widen` before anything is changed, `transfer` and `restore` once the deferred restore is armed, `ok`, `error`, `killed` |
| `xfer[t].saved`, `ips`, `err` | the captured row, the addresses to let in, whether the transfer has failed |
| `Capture`, `Detect`, `Widen` | `CaptureSSHService`, `collectAllowIPs`, `ApplySSHAccess` with `MergeAddressList` |
| `Fetch`, `FetchFails` | `downloadSFTP`; it succeeds only if the row admits the address the router sees |
| `Restore`, `RestoreFails` | the deferred `RestoreSSHService` |
| `WidenFails`, `Killed` | an error or a lost answer before the restore is armed; an interrupt, which runs no deferred call |
| `base`, `first`, `joined`, `crossed`, `left` | history: the row before all transfers; the first in flight and whether another joined it; whether it then failed to end last; who ended without undoing |

`Direct` is a transfer that never touches the service. The file that
`backup_export.go` leaves on the router is not modelled.

### SessionLife and StoreRefinement — what the store promises

SessionLife has no files, locks or processes: a session is begun once, takes each
change once, in order and only while it is active, is committed or rolled back
once (a committed one may still be rolled back, when its lock outlived it), and
may be lost. StoreRefinement maps SessionStore to it. The step that takes effect
is the truncation of the journal by `os.WriteFile`: from then on the session is
what the saving process holds in memory, and lost if that process ends before the
file is whole again.

### PlanApply — a plan beside the writes by hand

Extends SafeSession. A plan is a sequence of steps about its menu, given by `.id` or
by comment. `Valid` is `validateStep`; `StartPreview`/`PreviewStep` read the rows
of the moment and keep what they show in `shown`; in `PreviewUnread` a read of the
preview fails: that of a comment fails the step, that of the row is dropped and the
step is shown against a row that is not there (`trail.unread`); `StartApply` needs an active
session, and `--confirm` for deletes; a step of an apply resolves its target again
(`Target` is `resolveMutateTargetID`) and is one of

| Action | Code |
|---|---|
| `ApplyStep` | the write of the generic command, from a read of the row, journaled |
| `ApplyUnseen` | the same when that read failed: no twin is looked for, fewer inverses are known |
| `ApplyNothing` | `already_exists` or `no_change`, behind the gate all the same |
| `ApplyLost` | the router does it, the answer is lost, the apply stops |
| `ApplyFails` | anything else that stops it; the earlier steps stay applied |

`ByHand` is everything SafeSession allows between two plan commands. `trail` is
history. Without a plan the model is SafeSession, so its properties are checked in
the same run.

### Gates — what must hold before a write is let through

`Gate` is `ensureWritableForce` and `enforceGuardrails`: the first check that
refuses, in the code's order. Time is in minutes of a week whose lengths are
constants; `Parse`, `Contains`, `NextStart` and `Hint` are
`internal/guardrails/maintenance.go`. `doctor[k]` and `sess[k]` are the files named
after a device (two names may share one), with who wrote them and in which of its
lives; `AddDevice` and `RemoveDevice` start and end a life, and the removal of each
file may fail (`kept`). `Doctor` is the end of `ros doctor` or of a hygiene audit,
`DoctorTorn` one that dies while it writes its stamp; `Write` a write that is let
through; `SetBack` a clock that is corrected. SessionStore has the session files
system call by system call; here a session command is one step.

### Inventory — config.toml and the keyring

`file` is `config.toml`: missing, torn (truncated, which parses as an empty
configuration), garbled (two commands wrote it at once, and the tail of the longer text is
left: it does not parse), or a map of devices with a default. A process loads it (`Start`,
with the migration from routeros-cli), decides (`Add`, `Remove`, `Use`, `Auth`, `Connect`,
`ImportEntry`, `AddFromExport`), and saves its copy in two steps (`SaveOpen`, `SaveFill`),
once per change, so an import saves once per entry; then it works on the keyring, which
has the old service name beside the new: call by call, for `Get` reads both names and
copies what it finds under the old one (`Connect`, `GetLegacy`, `Migrate`) and `Delete`
deletes both (`ForgetPassword`, `ForgetLegacyPassword`). `OpenFails`, `FillFails`,
`StoreFails`, `ForgetFails` and `Killed` are the errors, with what the code does about
them: `device add` takes its entry back, which may fail in turn. `devices` and `secrets`
are what the commands have reported, `cut` the names one was cut short on, `stale` those
whose migration met a set or a removal.

### Commands — every command, and the client below it

The first half gives each command as a program, a sequence of instructions in the
order of its code: `SetIdentity == <<TryRead, DryRun, Gate(FALSE), Write("/set"),
Record(FALSE)>>` is `newSetIdentityCmd`. The second half runs one of them.

| Module | Code |
|---|---|
| `Issue` | `ReadOnlyClient.Run`: `policy.IsWrite` looks at the last word |
| `Send`, `Retry` | `readRetryClient.Run` and `Client.Run`: the context is looked at before a call is sent; a transient error of what `isMutatingCommand` takes for a read is tried again, on the same connection |
| `Serve`, `Refuse`, `Drop` | the router: it answers, refuses, is busy, or the connection ends before or after it acted, with an error the client recognises or one it does not (`Losses`) |
| `WriteError` | `IsAmbiguousTransport`, `MaybeAmbiguousWrite` and the exit kinds |
| `GateStep`, `Refusal` | `ensureWritableForce`; what Gates has in detail is one option here: open, open to `--force`, closed |
| `DryRunStep`, `ConfirmStep`, `PromptStep`, `UnchangedStep`, `GoneStep`, `JournalableStep`, `Recorded`, ... | the steps between calls, each with its early return |
| `Expire` | `--timeout`, or Ctrl+C for a monitor that has none |

An export to a file is a word of its own, `ExportFile`: policy and client take it for
`/export`, the router writes a file.
`executed`, `unknown`, `gated` and `missed` are history. Rows, arguments and texts
are abstracted to what the last read told (`pre`).

## 3. The runs

Runs that pass:

| Run | Instance | Shows |
|---|---|---|
| `store_overlap` | 1 device, 2 processes, 2 ids, 2 changes, every command, safe sessions and others, no faults | `JournaledWasApplied`, `RolledBackMeansUndone` hold whatever overlaps, torn files included |
| `store_faults` | 2 devices on 1 lock file, 1 process at a time, crash, I/O error and lost answer at every step | `LockIsUsable`: a lock stands for an open session of its key; what a command that was cut short leaves under one is named, and it is never the lock of a journal that is gone; `ClosedIsReleased` holds whatever fails (the proof adds: whatever overlaps); `GuardedWritesJournaled`, `PendingReachable`, `CommitKeepsChanges` hold when commands do not overlap; `ImplementsLife`: the store then implements SessionLife |
| `session_plan` | 2 rows or 1 disabled row, the optional field a secret or not; 3 writes by hand, or one of 5 plans previewed, applied up to twice, with a write by hand and a rollback; without a plan, 2 rollbacks | `RollbackRestores`: a rollback that ends leaves the rows the session found, up to their secrets. `ReplacedRowsBlock`: it is refused exactly when a changed row was deleted later. `PreviewHonoured`: a step that still sees the rows of its preview does what the preview showed, if the reads of the preview were answered. `AppliedAsMeant`: a completed apply, the second attempt after a failed one too, has made of the rows what the plan means, and nothing twice |
| `watch` | 1 row, 3 writes, 3 outages, threshold 2 | `WatchRestores` after any number of attempts, `WatchConverges`: repeatable inverses do get undone |
| `ssh` | 3 transfers from 2 workstations, lost answers, kills, failures | `NobodyShutOut`: an allowlist is never narrowed, an enabled service never disabled; `LeftAsFound`: when the service ends up as it was; `PutBack`: it does get there |
| `gates` | 2 devices on 1 file name, each added twice, week of 3 days of 2 hours of 2 minutes, 9 invocations | `OwnDoctor`, `OwnSession`: what opens the gate of a production device is its own, of its present life; `GatesTypeOK` includes that a session stays within its cap; `WindowIsInterval`: windows agree with intervals that may run past midnight and the week; `HintIsNext`: the hint of a refusal is the next moment one opens |
| `commands` | every command, every combination of its flags, 3 attempts, a session with room for 0 to 2 changes | `RefusedTouchesNothing`: what is refused, and all of `--read-only` but an export to a file, changes nothing; `LostAnswersAmbiguous`: how a command ends that lost the answer of a change; `ListedWritesSentOnce`, `InSessionUndoable`, and that every command ends (`CommandsEnd`) |
| `inventory` | 2 names, 2 hosts, 2 processes, 2 commands of every kind, 2 faults, first run and migration | `InventoryAsReported`: between commands that did not overlap the file is what was reported; `PasswordsAsReported`: the password a connection would use is, also when commands overlap, but for the names whose migration met a set or a removal (`stale`); `TypeOK`: the default of a file that parses is always a device of it, overlaps and faults included; `ImportKeepsDevices`: no import without `--force` changes a device |

Runs that find the code at odds with what is said of it (details and quotes in
`PROJECT.json`, `findings`):

| Run | Violates | What happens |
|---|---|---|
| `store_two_begins` | `OneActiveSession` | two overlapping `session begin` both succeed |
| `store_stale_watch` | `AutoRollbackComplete` | a watch undoes the copy it read at its start, and writes that copy over newer entries |
| `watch_retry` | `WatchSucceeds` | an attempt cut short after a remove makes every later one fail |
| `commands_ungated` | `WritesAreGated` | `firewall filter add`, `nat add`, `ip address add` and others never ask the gate |

Other places where the code and what is said of it differ, which the properties
above step around by name rather than refute:

- `device remove` of `edge core` deletes the lock of `edge_core`, unread
  (`session.go:166`); `TestPurgeDevice` says unrelated devices keep theirs.
- `BuildSetInverse` (`inverse.go:36`) does not restore a value that was unset: `gaps`.
- A rollback says `reverted` (`cmd/session.go:288`) of a change to a secret, whose
  inverse names the row and no field (`root.go:468`). The same loop drops any word
  whose value ends in a blank, which the redaction trims off: such a comment is not
  put back either.
- The second of two overlapping transfers restores the SSH row as the first had
  widened it (`filexfer.go:106`): `crossed`. A failed restore exits as a success,
  since its error goes to a shadowing `err` (`filexfer.go:112`, 129): `left`.
- `/tool/fetch`, `/export =file=` and bandwidth tests change the router, but are not
  in `writeSuffixes`: they are retried after a lost answer, and it is not ambiguous.
  For `--read-only`, `/ping` is a write, and `/export =file=` is a read:
  `ros --read-only exec /export =file=x` leaves a file on the router, where
  docs/COMMANDS.md:13 says "Block all writes". So does the backup that `session begin`
  takes by export (`cmd/session.go`), whose clean-up is then refused.
- A connection that ends with a text `IsAmbiguousTransport` does not know ("no route to
  host", "network is unreachable") is an API error, without the advice to verify before
  a retry, although the write may have been made (`apperr.go:107`).
- `plan preview` drops the error of its read of the row (`plan.go:294`): it then exits 0
  and shows a delete as removing nothing, a set as if every field were new: `unread`.
- A connection that migrates a password from routeros-cli while another command sets it
  or removes the device puts the old password back (`store.go:33`): `stale`.
- `system reboot --force` skips the maintenance window and the doctor check as well
  as the prompt.
- `interface monitor` ends after `--timeout`, though its help says Ctrl+C.
- `plan preview` resolves a comment on any path; `plan apply` refuses it on
  `/ip/firewall/nat`. A create is shown as such although an equal row exists, and a
  missing `.id` is not noticed.
- An import without `--force` leaves out the second of two address-book entries of
  one name, where README.md says each becomes a device. With `--force` the options
  of the device (environment class, guardrails) are lost.
- The hint after a refusal is too late for a whole-day window that is written with a
  time other than midnight.
- A new address of a device keeps the doctor stamp of the old one.

The MC modules only name the constants of an instance.

### Bounds

- *SessionStore.* Every interleaving hazard of the store is between two
  processes, and every step touches one key and one session; a second session is
  needed for a lock to be taken over, a second change for an entry to be lost by
  a stale rewrite, a second device for a shared key. Processes end and start
  again, so two slots give any number of processes, two at a time. Ids and
  changes are used once, which bounds the behaviours. Faults are checked with one
  process at a time, since the properties of that run are claims about commands
  that do not overlap.
- *SafeSession.* The journal properties relate pairs of writes to one row; three
  writes give a pair with a third between. `MaxWrites` bounds writes, `MaxChanges`
  is the program's own cap, `MaxRollbacks` = 2 gives one attempt that is cut
  short and one that starts over, `MaxId` bounds operator-added rows and `FullAt`
  = 12 the rows rollbacks can add, high enough that the router is never full.
- *PlanApply.* Plans of up to two steps, since what an apply leaves half-done, and what
  one step does to the target of another, needs two; one plan is by a comment in a menu
  that takes none (`nat`), one does not validate. `MaxApplies` = 2 gives an apply that
  fails and one that runs again; `MaxByHand` = 1 puts one write, or one rollback, between
  a preview and its apply, or between two applies.
- *Watch.* `MaxOutages` = 3: one outage to reach the threshold, two to cut
  attempts short. `FullAt` = 5 does make the router refuse: retries of an `add`
  would go on for ever otherwise.

- *EphemeralSSH.* Two transfers cross; a third can join, or come between, two
  that have. Two workstations are needed for one transfer to be shut out by the
  restore of another; `Rows` are the two extremes, a disabled service with an
  allowlist and an enabled one without. A transfer happens once, so `Transfers`
  bounds the behaviours; several may be in flight.
- *Gates.* The window operators use only `DayLength`, `HourLength` and `WeekLength`;
  a week of three short days has a day before, a day after and a wrap of the week.
  `Horizon` is past the end of the week, so that every minute of it is `now`.
  `MaxLives` = 2 gives a device that is removed and added again, `MaxAge` = 3 stamps
  that are fresh, at the limit, stale and of the future.
- *Inventory.* Each property is about the last command and what an earlier one left:
  two commands, either after the other or overlapping. `MaxFaults` = 2: a fault that
  leaves a command half-done, and one of what the code does about it (the take-back
  of an `add`), or of the next command. A command that meets a garbled file would be
  the third: that it ends at once (`Start`) is left to the proofs.
- *Commands.* A behaviour is one command. `MaxAttempts` = 3 has a first, a middle and
  a last attempt. `MaxRoom` = 2 lets both removals of a lease clean-up in, one, or
  none.

### Fairness

*Commands*: weak fairness of the program (the process is scheduled), of the router (a
call is answered, or TCP gives the connection up) and of the timer of every command
that has one; nobody has to press Ctrl+C.
*Watch*: weak fairness of `Tick` (the ticker of `Watch` fires and the process is
scheduled as long as it runs) and of `LinkUp` (an outage ends). Nothing makes the
operator write or the process be stopped. *EphemeralSSH*: weak fairness of each
transfer's `Step`; nothing makes a transfer start or be killed.

All three assume that every call returns. Dialing and the address lookups have time
limits of their own (`internal/client/client.go:62`, `internal/publicip`,
`internal/filexfer/sftp.go:33`), but `Client.Run` looks at its context only before
it sends (`client.go:126` calls `RunArgs`, not `RunArgsContext`) and
`downloadSFTP` copies without one. So the assumption is one about the network: a
router that holds a connection answers on it, and a connection to one that is gone
is given up by TCP. With a router that accepts connections and stays silent
no liveness property holds; `hazards` lists this.
`CHECK_DEADLOCK FALSE` everywhere: the models stop when ids, changes or writes
are used up or the session is closed, and so does the program.

## 4. The proofs

| Module | About | Theorems |
|---|---|---|
| `SessionStoreProofs` | SessionStore, whatever overlaps | `TypeCorrect`, `RolledBackSound`, `JournalSound`, `ClosedReleased` |
| `SerialProofs` | SessionStore, a key one command has to itself; StoreRefinement | `LocksUsable`, `WritesJournaled`, `PendingReached`, `CommitKeeps`, `SerialLife`, `OneAtATime` |
| `RollbackProofs` | SafeSession | `SafeTypeCorrect`, `RollbacksRestore`, `RowsBlock` |
| `SessionUseProofs` | Watch, PlanApply | `WatchTypeCorrect`, `WatchesRestore`, `PlanTypeCorrect`, `PlansRestore`, `PlanRowsBlock`, `PreviewsHonoured`, `PlansApplied` |
| `EphemeralSSHProofs` | EphemeralSSH | `SSHTypeCorrect`, `NeverNarrower`, `RestoredTogether` |
| `GatesProofs` | Gates | `GatesTypeCorrect`, `DoctorIsOwn`, `SessionIsOwn`, `WindowsAreIntervals`, `HintsAreNext` |
| `CommandsProofs` | Commands | `CommandsTypeCorrect`, `LostIsAmbiguous`, `WriteSentOnce`, `WritesMadeOnce`, `RefusalsTouchNothing`, `SessionsUndoable` |
| `InventoryProofs` | Inventory | `TypeCorrect`, `InventoryReported`, `PasswordsReported`, `ImportKeeps` |

Each is about every value of the constants that the `ASSUME`s of its module allow;
TLC evaluates those assumptions for the instances of section 3. Every safety invariant
and every action property that a run passes is stated by one of these theorems, two of
them (`ReplacedRowsBlock`, `ImplementsLife`) under a condition that is said below.

### SessionStore

`SessionStoreProofs.tla` proves for every set of devices, keys, ids, changes and
processes, any `Sanitize`, with faults or without, from `StoreAssumption` alone:

1. `TypeCorrect`. `TypeInv` adds which fields of a process mean something at
   which stage (a lock is filled with the id the process carries; an inverse is
   looked up at its position).
2. `RolledBackSound` (`RolledBackMeansUndone`). A journal is overwritten by
   whichever process comes last, so `UndoneInv` claims it of every copy in
   memory as well: a copy marked rolled back has its entries undone, and a
   process undoing a copy has undone those beyond its position.
3. `JournalSound` (`JournaledWasApplied`). `OwnInv`: there is an owner map from
   ids to lock keys that every lock, journal and process agrees with. The map is
   existential because a lock may be gone while copies still name the session;
   only `BeginCreate` extends it.
4. `ClosedReleased` (`ClosedIsReleased`), overlaps included. `OpenInv` adds that a copy on
   its way to a save that does not remove the lock is active, and that a journal is active
   from its creation until its lock is filled. `GoneInv` says that nobody else knows of it
   until then, and that whatever names a session that was purged is under the key of a
   device that has left the inventory. The owner map of 3 shows that `Unlock` removes the
   lock that names the closed session, not another.

Each part has one lemma per group of actions and a step lemma over `Next`.

`SerialProofs.tla` is about commands that have a lock key to themselves. Its invariant,
`CalmInv`, says of each key not in `raced` that at most one process works under it, and
what, at the stage that process is at, its copy and the two files have to do with each
other: the lock names the session it works on (`LockCalm`), the journal holds what
it holds, or that without the entry it is about to add, or is torn by its own
`os.WriteFile` (`CopyCalm`), what the guard found still holds when the change is recorded
(`WriteCalm`), and no two sessions share an entry (`ApartCalm`). The claim is made key by
key because commands on other keys interleave freely; the locality lemmas of its second
part say what a step under one key leaves alone. It is inductive with crashes and I/O
errors at every stage, and implies `WritesJournaled` (`GuardedWritesJournaled`),
`PendingReached` (`PendingReachable`) and `CommitKeeps` (`CommitKeepsChanges`).

`LocksUsable` (`LockIsUsable`) adds `UsableAt` for each such key: a lock that is there
names an open session of the key, or the one command at work under it stands between two
of the calls that write the lock or the journal and remove the lock, or one was cut
short there (`cut`, `stuck`). What a step relies on is `Prepared`: the journal is whole
before the lock is written, and the lock is gone before `PurgeDevice` deletes journals,
which it does not do when the lock cannot be removed.


The refinement: `SerialLife` is `Spec /\ [](raced = {}) => ImplementsLife`. Its hypothesis
is needed (a watch that writes its copy over newer entries, as in `store_stale_watch`,
does what no session of SessionLife does), and `OneAtATime` shows that it can be met, by
any number of commands one after the other: with one process slot `raced` stays empty.
Each step maps to one of SessionLife or to a stutter; `SaveOpen` takes effect as the
append, commit or rollback that the copy carries, because `CalmInv` says what the journal
held.

### Rollback

`RollbackProofs.tla` proves, from `SafeAssumption`, for any tables, words and bounds:

1. `RollbacksRestore` (`RollbackRestores`). What a rollback leaves is the result of
   running all inverses (`Undone`), so the argument is about one write at a time. A row
   that was deleted comes back under another `.id`; so menus are compared by a pairing
   of their rows (`Pairs`), and `Matches` adds that a row which an inverse still to run
   will name is paired with itself. Running a command on two menus that match leaves
   menus that match. A write is `Faithful`: running its inverse on what it leaves
   matches what it found, unless it notes a gap. That carries over from one write to the
   journal by induction on its length (`AllNaturals`, from the library's `WFMin`
   with a set in place of a predicate). `Again` is about an attempt
   that stopped half-way: inverses that may run twice change nothing that the rest
   would not set anyway. Two menus that pair off have the same rows, each as often.
2. `RowsBlock` (`ReplacedRowsBlock`), if `RoomToUndo`: the router has room for
   `MaxChanges` rows more than the session found or the operator may add. Without room
   a rollback is refused for another reason than the one the property names. The instance
   of `session_plan` has that room.
3. `SafeTypeCorrect`.

### Watch and plans

`SessionUseProofs.tla` builds on these lemmas.

1. `WatchesRestore` (`WatchRestores`). `WatchInv` says of the watch's copy and position
   what `SafeInv` says of the journal's, from the moment the watch has read it and as
   long as nobody writes (`late`).
2. `PlansRestore` and `PlanRowsBlock`: the same two properties of a rollback when a plan
   writes too. Each write of an apply is one of those by hand, or is `Faithful` itself.
3. `PreviewsHonoured` (`PreviewHonoured`). `Shows`: whatever is kept of a preview is what
   `previewOneStep` says of the rows seen, for the steps whose reads were answered. The
   rest compares the two resolutions of a target.
4. `PlansApplied` (`AppliedAsMeant`), for any plan of independent steps and any number of
   attempts. The invariant: there is a `p` such that the menu's rows pair off with those
   the plan means after its first `p` steps, and each of these finds its work done
   (`Made`). A step is then the next one, which makes of the menu what the plan means by
   it (`StepMade`), or an earlier one of a second attempt, which finds its work done and
   does nothing (`ApplyNothing`), or was done by a write whose answer got lost. The
   meaning of a plan is a fold; `Tower` is the same thing as a function of `p`, and
   `FoldTower` relates the two.

### EphemeralSSH

`EphemeralSSHProofs.tla` proves, for any number of transfers, any addresses and
rows, with faults or without, from `SSHAssumption`:

1. `SSHTypeCorrect`.
2. `NeverNarrower` (`NobodyShutOut`). `Wide` must hold of every captured copy as
   well as of the row, since a restore writes a copy back at any later time.
3. `RestoredTogether` (`LeftAsFound`). `Orderly`: as long as nobody has crossed or
   left, the first transfer in flight holds the row as it was found, and before
   it has widened, alone, the row is still that.

### Gates

`GatesProofs.tla` proves, for any devices and file names, any paths and invocations, any
clock and any lengths of hour, day and week:

1. from `GatesAssumption`: `GatesTypeCorrect` (`GatesTypeOK`), `DoctorIsOwn` (`OwnDoctor`)
   and `SessionIsOwn` (`OwnSession`). The properties speak of devices in the inventory,
   but files outlive a device: `OwnStamp` and `OwnFile` make the claims of every name
   whose file is its own, and say who wrote it and in which life, unless a removal failed
   to delete it (`kept`). `Lived` is what lets `AddDevice` open a new life without an
   old file. `Capped` is inductive because `Write` asks the cap of its own environment,
   which is never above the device's own.
2. from `WindowsAssumption` (a window of the configuration is weekly, with any days
   and clock times, or absolute): `WindowsAreIntervals` (`WindowIsInterval`) and
   `HintsAreNext` (`HintIsNext`). These are facts about `Parse`, `Contains` and
   `NextStart` at each moment. What is hard in them is the remainder modulo the day
   and the week: a window past midnight or the week's end is open in the day after the one
   it names, and a search of one week for the next start is far enough.

### Commands

`CommandsProofs.tla` is about any programs that satisfy `ProgramsAssumption`, which TLC
evaluates for each command of the code, and has two halves. The first needs of it only
that what is read is a read, but for an export to a file, and that only listed writes
are wrapped: `LostIsAmbiguous` (`LostAnswersAmbiguous`) and `WriteSentOnce`, that no
listed write is sent twice. While a command runs a lost answer can only be that of the
call it is at, which can no longer succeed (`LostHere`, `Pending`): the connection is
down, the client hands a listed write back at once with the error that lost it, and what
it tries again fails the same way; a listed write that is about to be tried has not been
sent (`Fresh`).

The second uses the rest: checks come before the first change, a record follows its write,
and a gate precedes the changes of a gated command. `CInv` counts. What the router did is
at most what the instructions behind the command ask for (`MadeOnce`): `WritesMadeOnce`
(`ListedWritesSentOnce`) and `RefusalsTouchNothing` (`RefusedTouchesNothing`). In a safe
session it equals, kind by kind, what the journal holds, but for the one change that is
made and not yet recorded (`Due`), for which the gate has kept room (`RoomKept`) and the
read an inverse (`InverseKept`): `SessionsUndoable` (`InSessionUndoable`).

### Inventory

`InventoryProofs.tla` proves, for any names, hosts, passwords, processes, commands,
address book and number of faults, from `InventoryAssumption` and `ProcessAssumption`
(the markers for no device, no file and no process are not values):

1. `TypeCorrect` (`TypeOK`), which includes that no copy of the configuration, and no
   `config.toml` that parses, has a default it lacks. `Sound` says what a command carries
   at each stage: the device an import or an add is about is in its copy, the one a
   removal is about is not, and an import stores a password only if its entry has one.
2. `InventoryReported` (`InventoryAsReported`). `SerialInv` follows the one command that
   runs while none overlap: its copy, the file and what was reported differ only in the
   device the command is about, and the clauses say how at each stage (`Added`,
   `TakenBack`). The file may be torn in between: only the copy counts then. `IntactInv`
   says that it is never garbled meanwhile.
3. `PasswordsReported` (`PasswordsAsReported`), overlaps included, for the names that
   are neither `cut` nor `stale`. `PasswordOK` says of such a name what the processes
   between two calls rely on: what a connection has still to read, or to store under the
   new name, is the password of its device, and a removal that is half-way has deleted
   the entry that counts.
4. `ImportKeeps` (`ImportKeepsDevices`), by the same clauses: an entry that is added
   under a name was not reported before.

### What is only model-checked

Liveness under fairness (`WatchConverges`, `PutBack`, `CommandsEnd`), which the prover
does not reach, and the four runs that find a violation. What the theorems do not say
either: `ReplacedRowsBlock` of a router that is full, `ImplementsLife` once two commands
have overlapped.

## 5. Abstractions, and what is not modelled

- A row has a mandatory field, an optional one and a flag. Its position in the
  menu is not modelled, so nothing is said about the order of firewall rules
  after a rollback, which `add` does not restore. The optional field is a secret in
  some menus; `password`, of which `set` journals an entry without an inverse, acts
  like other secrets in a rollback.
- The backup `session begin` takes is a point at which begin may fail (SessionStore),
  or a flag of the session (Gates).
- Commands has no rows: a write either finds its row or is refused. exec starts from
  commands the lists of `CheckExec` allow; glob matching is not modelled.
- Two waiting leases stand for any number, two sections of an audit for all of them.
- Back-off times, and the per-device soft back-off of `retry.go`, only add delay.
- A configuration is its devices (host, id) and default; environment class and
  guardrails are constants of Gates.
- `ClearAutoRollbackPending` has no caller.
- I/O errors other than those `IOFails` lists (a failed read of a lock, say)
  lead to the same early returns as an empty lock.
- Not modelled, because they keep no state the program reads back: audit trail,
  the summaries and findings of reports, output caps and redaction, schema,
  completion, skill packs. The Winbox codec is a parser, character by character; its
  entries are the constant `Book`.

## 6. Plan

What is left, in order of importance:

1. Row positions: what a rollback does to the order of firewall rules.
2. A weaker hypothesis for the refinement: that the store implements the life of the
   sessions of each key on which no commands overlap, whatever happens on the others.
