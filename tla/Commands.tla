------------------------------ MODULE Commands ------------------------------
(***************************************************************************)
(* One invocation of a command that talks to a router (cmd/*.go,             *)
(* internal/client, internal/policy, internal/apperr).                       *)
(*                                                                          *)
(* A command is the program it runs on the way from its arguments to its     *)
(* exit code: reads, checks, prompts, the write gate, writes and journal      *)
(* entries in the order of the code.  The programs are the first half of the *)
(* module, one definition for each command; the second half runs one of them *)
(* through the read-only wrapper and the retrying client, over a connection  *)
(* the router may drop, before a deadline that may pass at any time.         *)
(***************************************************************************)
EXTENDS Naturals, Sequences, FiniteSets

CONSTANTS
    Programs,    \* the commands of this instance
    MaxAttempts, \* ROS_READ_RETRIES
    MaxRoom      \* bound on the changes a safe session still takes

VARIABLES
    prog,     \* the command
    opts,     \* its flags, and what gate and session it meets
    pc,       \* the instruction it is at; 0 before it is connected
    pre,      \* what its last read told of the target row
    req,      \* the call to the client that is under way
    link,     \* the connection: "up" or "down"
    late,     \* its context has ended: --timeout has passed, or Ctrl+C
    executed, \* history: the calls that changed the router, in order
    unknown,  \* history: those of them whose answer was lost, and with what error
    gated,    \* history: the write gate has let it through
    journal,  \* changes it added to the journal of the safe session
    missed,   \* history: a change it could not add, or had no room for
    action,   \* what it says it did: the action of its outcome
    exit      \* "running", or the error kind it ended with, or "ok"

vars == <<prog, opts, pc, pre, req, link, late, executed, unknown, gated, journal, missed,
          action, exit>>

CommandsAssumption == MaxAttempts \in Nat \ {0} /\ MaxRoom \in Nat

ASSUME CommandsAssumption

-----------------------------------------------------------------------------
(* Words: the last part of an API path, which is all that policy and client  *)
(* look at.  `/export =file=' is one of its own: both take it for `/export',  *)
(* but the router writes a file.                                             *)

ExportFile == "/export =file="

\* isMutatingCommand and writeSuffixes, as far as the commands below use them.
Mutating == {"/add", "/set", "/remove", "/enable", "/disable", "/reboot", "/save", "/file/remove"}

ReadWords == {"/print", "/monitor-traffic", "/profile", "/export", ExportFile}

\* policy.IsWrite: what it does not know is a write.
IsWrite(word) == word \notin ReadWords

\* client.isMutatingCommand: what it does not know is a read.
IsMutating(word) == word \in Mutating

\* The words that change the configuration of the router, and those that change
\* anything on it (`/ping' sends packets only).
Configures == {"/add", "/set", "/remove", "/enable", "/disable"}
ChangeWords == Mutating \cup {"/fetch", "/bandwidth-test", ExportFile}
Changes(word) == word \in ChangeWords

-----------------------------------------------------------------------------
(* Instructions. *)

Instr(op, word, flag) == [op |-> op, word |-> word, flag |-> flag]

Call(word) == Instr("read", word, TRUE)       \* an error ends the command
TryCall(word) == Instr("read", word, FALSE)   \* an error is dropped
Read == Call("/print")
TryRead == TryCall("/print")
Resolve == Instr("resolve", "/print", TRUE)   \* a comment or a key to an .id
Waiting == Instr("waiting", "/print", TRUE)   \* rows to work on, or the end
Poll(timed) == Instr("poll", "/print", timed) \* read until interrupted

DryRun == Instr("dry-run", "", FALSE)
Confirm(spared) == Instr("confirm", "", spared)  \* spared: not asked in a dry run
Prompt == Instr("prompt", "", FALSE)
Gate(forced) == Instr("gate", "", forced)        \* forced: --force opens a stale gate
Journalable == Instr("journalable", "", FALSE)
Unchanged == Instr("unchanged", "", FALSE)       \* the row is as it should be
Gone == Instr("gone", "", FALSE)                 \* there is no row to remove

Write(word) == Instr("write", word, FALSE)
WriteWrapped(word) == Instr("write", word, TRUE) \* MaybeAmbiguousWrite once more
Record(reported) == Instr("record", "", reported) \* recordSafeChange, its error returned
Outcome == Instr("outcome", "", FALSE)            \* emitWriteOutcome

Enough(ifFailed) == Instr("enough", "", ifFailed) \* what was read may do, if it failed must
Download == Instr("download", "", FALSE)          \* filexfer.Download
Cleanup(word) == Instr("cleanup", word, FALSE)    \* a write whose error is a warning
Downloaded == Instr("downloaded", "", FALSE)      \* the error of the download, if any

-----------------------------------------------------------------------------
(* The shared mutations. *)

ApplyCreate == <<DryRun, Gate(FALSE), TryRead, Unchanged, WriteWrapped("/add"), Record(TRUE),
                 Outcome>>

ApplySet == <<TryRead, DryRun, Gate(FALSE), Unchanged, WriteWrapped("/set"), Record(FALSE),
              Outcome>>

ApplyDelete == <<TryRead, DryRun, Gate(FALSE), Gone, WriteWrapped("/remove"), Record(FALSE),
                 Outcome>>

ApplyEnableDisable(word) ==
    <<TryRead, DryRun, Gate(FALSE), Unchanged, WriteWrapped(word), Record(FALSE), Outcome>>

-----------------------------------------------------------------------------
(* create, set, delete, enable, disable. *)

Create == ApplyCreate
CreateAddressList == ApplyCreate
CreateDNSStatic == ApplyCreate
CreateIPAddress == <<DryRun, Gate(FALSE), Write("/add"), Record(TRUE)>>
CreateIPRoute == <<DryRun, Gate(FALSE), Write("/add"), Record(TRUE)>>
CreateFirewallFilter == <<DryRun, Gate(FALSE), Write("/add"), Record(TRUE)>>

Set == <<Resolve>> \o ApplySet
SetIdentity == <<TryRead, DryRun, Gate(FALSE), Write("/set"), Record(FALSE)>>

Delete == <<Resolve>> \o ApplyDelete
DeleteByID == <<TryRead, DryRun, Gate(FALSE), Write("/remove"), Record(FALSE)>>
DeleteByIDOrComment == <<Resolve>> \o ApplyDelete

EnableDisable == {<<Resolve>> \o ApplyEnableDisable(w) : w \in {"/enable", "/disable"}}

-----------------------------------------------------------------------------
(* The commands named after a menu. *)

DNSStaticAdd == ApplyCreate
DNSStaticSet == <<Resolve>> \o ApplySet
DNSStaticRemove == <<Resolve>> \o ApplyDelete

AddressListAdd == ApplyCreate
AddressListRemove == <<Resolve>> \o ApplyDelete
AddressListSet == ApplySet

FilterAdd == <<Write("/add")>>
FilterRemove == <<Resolve, Prompt>> \o ApplyDelete
FilterEnable == <<Resolve>> \o ApplyEnableDisable("/enable")
FilterDisable == <<Resolve>> \o ApplyEnableDisable("/disable")

NATAdd == <<Write("/add")>>
NATRemove == <<Prompt, Write("/remove")>>
NATSetOutInterface == <<Gate(FALSE), TryRead, Write("/set"), Record(FALSE)>>

IPAddressAdd == <<Write("/add")>>
IPAddressRemove == <<Write("/remove")>>
IPRouteAdd == <<Write("/add")>>
IPRouteRemove == <<Write("/remove")>>
IPDNSSet == <<Write("/set")>>

InterfaceEnable == <<Write("/set")>>
InterfaceDisable == <<Write("/set")>>

SystemIdentitySet == <<Write("/set")>>
SystemReboot == <<Confirm(FALSE), Prompt, Gate(TRUE), Write("/reboot")>>

FileRemove == <<Confirm(FALSE), Gate(FALSE), Write("/file/remove")>>
FileGet == <<Download, Downloaded>>
BackupBinary == <<Gate(FALSE), Write("/save"), TryRead, Enough(TRUE), Download, Downloaded>>
ExportTextToLocal ==
    <<TryCall("/export"), Enough(FALSE), Call(ExportFile), Download, Cleanup("/file/remove"),
      Downloaded>>
BackupExport == <<Gate(FALSE), TryCall("/export"), Enough(FALSE)>> \o ExportTextToLocal
BandwidthTest == <<Gate(FALSE), Write("/bandwidth-test")>>

\* Two waiting leases: each passes the gate by itself.
LeaseCleanup ==
    LET each == <<Gate(FALSE), Write("/remove"), Record(FALSE)>>
    IN <<Waiting, Confirm(TRUE), DryRun>> \o each \o each

\* exec, of a command the lists allow.
Exec(word) ==
    IF IsWrite(word)
    THEN <<Gate(TRUE), Journalable, Write(word), Record(FALSE)>>
    ELSE <<Call(word)>>

ExecCommands == {Exec(w) : w \in Mutating \cup ReadWords \cup {"/fetch"}}

-----------------------------------------------------------------------------
(* Reads. *)

FilterList == <<Read>>
NATList == <<Read>>
AddressListList == <<Read>>
DNSStaticList == <<Read>>
IPAddressList == <<Read>>
IPRouteList == <<Read>>
IPDNSGet == <<Read>>
DHCPList == <<Read>>
InterfaceList == <<Read>>
InterfaceMonitor == <<Poll(TRUE)>>
SystemInfo == <<Read, Read>>
SystemIdentity == <<Read>>
SystemResource == <<Read>>
FileList == <<Read>>
WGPeers == <<Read>>
WifiClients == <<Read>>
BGPSessions == <<Read>>
OSPFNeighbors == <<Read>>
GetInterface == <<Read>>
GetIP == <<Read>>
GetFirewall == <<Read>>
GetDNS == <<Read>>
GetDHCP == <<Read>>
GenericGet == <<Read>>
DiagPing == <<Call("/ping")>>
DiagGets == <<Read>>
Log == <<Read>>
LogSince == <<Read, Read>>
DeviceTest == <<Read>>
Discover == <<Read>>
MonitorTraffic == <<Poll(FALSE)>>
MonitorResources == <<Poll(FALSE)>>

\* audit and doctor: sections that must be there, then ones that need not.
CollectAudit == <<Read, Read, TryRead, TryRead, TryCall("/profile")>>

Reads ==
    {FilterList, NATList, AddressListList, DNSStaticList, IPAddressList, IPRouteList, IPDNSGet,
     DHCPList, InterfaceList, InterfaceMonitor, SystemInfo, SystemIdentity, SystemResource,
     FileList, FileGet, WGPeers, WifiClients, BGPSessions, OSPFNeighbors, GetInterface, GetIP,
     GetFirewall, GetDNS, GetDHCP, GenericGet, DiagPing, DiagGets, Log, LogSince, DeviceTest,
     Discover, MonitorTraffic, MonitorResources, CollectAudit}

GatedWrites ==
    {Create, CreateAddressList, CreateDNSStatic, CreateIPAddress, CreateIPRoute,
     CreateFirewallFilter, Set, SetIdentity, Delete, DeleteByID, DeleteByIDOrComment,
     DNSStaticAdd, DNSStaticSet, DNSStaticRemove, AddressListAdd, AddressListRemove,
     AddressListSet, FilterRemove, FilterEnable, FilterDisable, NATSetOutInterface,
     SystemReboot, FileRemove, BackupBinary, BackupExport, BandwidthTest, LeaseCleanup}
    \cup EnableDisable \cup ExecCommands

UngatedWrites ==
    {FilterAdd, NATAdd, NATRemove, IPAddressAdd, IPAddressRemove, IPRouteAdd, IPRouteRemove,
     IPDNSSet, InterfaceEnable, InterfaceDisable, SystemIdentitySet}

-----------------------------------------------------------------------------
(* Running a command. *)

NoCall == [st |-> "none", sends |-> 0, tries |-> 0, last |-> "none"]

Has(program, op) == \E i \in 1 .. Len(program) : program[i].op = op

\* How every command is put together.
Instruction == [op : STRING, word : STRING, flag : BOOLEAN]

OpAt(program, ops) == {i \in 1 .. Len(program) : program[i].op \in ops}
WordAt(program, words) == {i \in 1 .. Len(program) : program[i].word \in words}

\* A call that is read is a read, but for an export to a file, whose error ends the
\* command; what configures the router is a write.
ReadsOnlyRead(program) ==
    /\ \A i \in OpAt(program, {"read", "resolve", "waiting", "poll"})
               \cap WordAt(program, ChangeWords) :
          program[i] = Call(ExportFile)
    /\ WordAt(program, Configures) \subseteq OpAt(program, {"write"})

\* Only the writes the client knows are wrapped once more.
WrapsListed(program) ==
    \A i \in OpAt(program, {"write"}) : program[i].flag => IsMutating(program[i].word)

\* Whatever may end it as done, cancelled or not needed comes before its changes.
ChecksFirst(program) ==
    \A i \in OpAt(program, {"dry-run", "prompt", "unchanged", "gone", "resolve"}),
       j \in WordAt(program, ChangeWords) : i < j

RecordsFollow(program) ==
    \A i \in OpAt(program, {"record"}) : i - 1 \in OpAt(program, {"write"})

\* A gated command records each change it makes, passed the gate for it since the
\* one before, reads nothing afterwards and something before, or asks whether the
\* change can be journaled.
Journaling(program) ==
    \A i \in WordAt(program, Configures) :
        /\ i + 1 \in OpAt(program, {"record"})
        /\ \E g \in OpAt(program, {"gate"}) :
              g < i /\ (g .. i) \cap OpAt(program, {"record"}) = {}
        /\ \A j \in OpAt(program, {"read", "resolve", "waiting", "download"}) : j < i
        /\ \/ program[i].word = "/add"
           \/ i - 1 \in OpAt(program, {"journalable"})
           \/ \E j \in OpAt(program, {"read", "waiting"}) : j < i

WellFormed(program) ==
    /\ program \in Seq(Instruction)
    /\ ReadsOnlyRead(program)
    /\ WrapsListed(program)
    /\ ChecksFirst(program)
    /\ RecordsFollow(program)
    /\ Has(program, "gate") => Journaling(program)

\* A fact about the list of commands above, which is checked command by command.
ProgramsAssumption == \A program \in Programs : WellFormed(program)

ASSUME ProgramsAssumption

\* The flags the command declares, and the gate and session it will meet: the gate
\* of the device is open, open to --force only, or closed.
Options(program) ==
    {o \in [readOnly : BOOLEAN, dryRun : BOOLEAN, confirmed : BOOLEAN, force : BOOLEAN,
            byId : BOOLEAN, gate : {"open", "stale", "closed"}, safe : BOOLEAN,
            room : 0 .. MaxRoom] :
        /\ o.dryRun => Has(program, "dry-run")
        /\ o.confirmed => Has(program, "confirm")
        /\ o.force => Has(program, "prompt") \/ Has(program, "journalable")
        /\ o.byId => Has(program, "resolve") \/ Has(program, "journalable")
        /\ o.gate # "open" \/ o.safe => Has(program, "gate")
        /\ o.room > 0 => o.safe}

Running == exit = "running"

At(ops) == Running /\ pc \in 1 .. Len(prog) /\ prog[pc].op \in ops

This == prog[pc]

Calling == At({"read", "waiting", "poll", "write", "cleanup"}) \/ (At({"resolve"}) /\ ~opts.byId)

calls == <<req, link, executed, unknown>>

\* On to the next instruction, or out with an error kind or "ok".
Onward == pc' = pc + 1 /\ UNCHANGED <<exit, action>>
Leave(kind) == exit' = kind /\ UNCHANGED <<pc, action>>
LeaveSaying(what) == exit' = "ok" /\ action' = what /\ UNCHANGED pc

\* runWithClient: loadApp, connect.
Connect ==
    /\ Running /\ pc = 0
    /\ Onward \/ Leave("connection")
    /\ UNCHANGED <<prog, opts, pre, calls, late, gated, journal, missed>>

Finish ==
    /\ Running /\ pc > Len(prog)
    /\ Leave("ok")
    /\ UNCHANGED <<prog, opts, pre, calls, late, gated, journal, missed>>

\* --timeout has passed; for a monitor of its own it is Ctrl+C.
Expire ==
    /\ Running /\ pc > 0 /\ ~late
    /\ late' = TRUE
    /\ UNCHANGED <<prog, opts, pc, pre, calls, gated, journal, missed, action, exit>>

-----------------------------------------------------------------------------
(* A call: the read-only wrapper, the retries, the connection.               *)

\* Mutant of Issue: the client of a command is not wrapped for --read-only.
IssueUnwrapped ==
    /\ Calling /\ req = NoCall
    /\ req' = [NoCall EXCEPT !.st = "try"]
    /\ UNCHANGED <<prog, opts, pc, pre, link, late, executed, unknown, gated, journal, missed,
                   action, exit>>

\* ReadOnlyClient.Run.
Issue ==
    /\ Calling /\ req = NoCall
    /\ req' = IF opts.readOnly /\ IsWrite(This.word)
              THEN [NoCall EXCEPT !.st = "failed", !.last = "readonly"]
              ELSE [NoCall EXCEPT !.st = "try"]
    /\ UNCHANGED <<prog, opts, pc, pre, link, late, executed, unknown, gated, journal, missed,
                   action, exit>>

\* The error of a broken connection: one IsAmbiguousTransport knows by its type or
\* its text (a timeout, "eof", "connection reset" and four more), or one it does not
\* ("no route to host", "network is unreachable").
Losses == {"lost", "unreachable"}

\* One attempt: nothing is sent once the context has ended, and the connection
\* is never made again.  The clean-up after an export outlives the context.
Send ==
    /\ Calling /\ req.st = "try"
    /\ \/ /\ late /\ ~At({"cleanup"})
          /\ req' = [req EXCEPT !.st = "failed", !.last = IF req.tries > 0 THEN @ ELSE "late"]
       \/ /\ (late => At({"cleanup"})) /\ link = "down"
          /\ \E why \in Losses : req' = [req EXCEPT !.st = "back", !.last = why]
       \/ /\ (late => At({"cleanup"})) /\ link = "up"
          /\ req' = [req EXCEPT !.st = "sent", !.sends = @ + 1]
    /\ UNCHANGED <<prog, opts, pc, pre, link, late, executed, unknown, gated, journal, missed,
                   action, exit>>

\* What the router does with the call, at its own time ...
Does == executed' = IF Changes(This.word) THEN Append(executed, This.word) ELSE executed

Serve ==
    /\ Calling /\ req.st = "sent"
    /\ Does
    /\ req' = [req EXCEPT !.st = "ok"]
    /\ UNCHANGED <<prog, opts, pc, pre, link, late, unknown, gated, journal, missed, action, exit>>

Refuse(why) ==
    /\ Calling /\ req.st = "sent"
    /\ req' = [req EXCEPT !.st = "back", !.last = why]
    /\ UNCHANGED <<prog, opts, pc, pre, link, late, executed, unknown, gated, journal, missed,
                   action, exit>>

\* A change whose answer is lost.
Unanswered(why) ==
    unknown' = IF Changes(This.word)
               THEN unknown \cup {[op |-> This.op, word |-> This.word, why |-> why]} ELSE unknown

\* ... and the connection breaks: before the router has acted, or after.
Drop(acted, why) ==
    /\ Calling /\ req.st = "sent"
    /\ IF acted THEN Does /\ Unanswered(why) ELSE UNCHANGED <<executed, unknown>>
    /\ link' = "down"
    /\ req' = [req EXCEPT !.st = "back", !.last = why]
    /\ UNCHANGED <<prog, opts, pc, pre, late, gated, journal, missed, action, exit>>

\* Mutant of Retries: one attempt too many.
RetriesOneMore ==
    ~IsMutating(This.word) /\ req.last \in {"lost", "busy"} /\ req.tries < MaxAttempts

\* Mutant of Retries: writes are not told from reads.
RetriesAll == req.last \in {"lost", "busy"} /\ req.tries + 1 < MaxAttempts

\* readRetryClient.Run: a transient error of a read is tried again.
Retries ==
    /\ ~IsMutating(This.word)
    /\ req.last \in {"lost", "busy"}
    /\ req.tries + 1 < MaxAttempts

Retry ==
    /\ Calling /\ req.st = "back"
    /\ req' = IF Retries THEN [req EXCEPT !.st = "try", !.tries = @ + 1]
              ELSE [req EXCEPT !.st = "failed"]
    /\ UNCHANGED <<prog, opts, pc, pre, link, late, executed, unknown, gated, journal, missed,
                   action, exit>>

-----------------------------------------------------------------------------
(* What the command makes of the answer. *)

Answered(st) == Calling /\ req.st = st /\ req' = NoCall

\* Mutant of WriteError: only the wrapped calls know an ambiguous write.
WriteErrorIfWrapped(last, word, wrapped) ==
    IF last = "readonly" THEN "read_only"
    ELSE IF last \in {"lost", "late"} /\ wrapped THEN "timeout" ELSE "api"

\* The error kind: ErrReadOnly, the ambiguous write of the client (not when its
\* context ended before it sent), MaybeAmbiguousWrite once more, or anything else,
\* a connection that breaks with a text they do not know included.
WriteError(last, word, wrapped) ==
    IF last = "readonly" THEN "read_only"
    ELSE IF last = "lost" /\ (IsMutating(word) \/ wrapped) THEN "timeout"
    ELSE IF last = "late" /\ wrapped THEN "timeout"
    ELSE "api"

ReadAnswered ==
    /\ At({"read"}) /\ Answered("ok")
    /\ pre' \in IF This.word = "/print" THEN {"row", "bare", "none"} ELSE {"row"}
    /\ Onward
    /\ UNCHANGED <<prog, opts, link, late, executed, unknown, gated, journal, missed>>

ReadFailed ==
    /\ At({"read", "resolve", "waiting"}) /\ Answered("failed")
    /\ IF This.flag
       THEN /\ Leave(IF req.last = "readonly" THEN "read_only" ELSE "api")
            /\ UNCHANGED pre
       ELSE Onward /\ pre' = "failed"
    /\ UNCHANGED <<prog, opts, link, late, executed, unknown, gated, journal, missed>>

\* resolveIDByComment, resolveIDBySemanticKey: one row, or an error.
Resolved ==
    /\ At({"resolve"})
    /\ \/ opts.byId /\ Onward /\ UNCHANGED <<pre, req>>
       \/ Answered("ok") /\ Onward /\ pre' = "row"
       \/ Answered("ok") /\ (Leave("not_found") \/ Leave("conflict")) /\ UNCHANGED pre
    /\ UNCHANGED <<prog, opts, link, late, executed, unknown, gated, journal, missed>>

Waited ==
    /\ At({"waiting"}) /\ Answered("ok")
    /\ \/ Onward /\ pre' = "row"
       \/ LeaveSaying("none") /\ UNCHANGED pre
    /\ UNCHANGED <<prog, opts, link, late, executed, unknown, gated, journal, missed>>

\* A monitor shows what it read and reads again, until its context ends.
Polled ==
    /\ At({"poll"}) /\ Answered("ok")
    /\ IF late THEN Leave(IF This.flag THEN "api" ELSE "ok") ELSE UNCHANGED <<pc, exit, action>>
    /\ UNCHANGED <<prog, opts, pre, link, late, executed, unknown, gated, journal, missed>>

\* Mutant of PollFailed: a monitor goes on after an error.
PollFailedGoesOn ==
    /\ At({"poll"}) /\ Answered("failed")
    /\ UNCHANGED <<prog, opts, pc, pre, link, late, executed, unknown, gated, journal, missed,
                   action, exit>>

PollFailed ==
    /\ At({"poll"}) /\ Answered("failed")
    /\ Leave("api")
    /\ UNCHANGED <<prog, opts, pre, link, late, executed, unknown, gated, journal, missed>>

WriteAnswered ==
    /\ At({"write"}) /\ Answered("ok")
    /\ Onward
    /\ UNCHANGED <<prog, opts, pre, link, late, executed, unknown, gated, journal, missed>>

WriteFailed ==
    /\ At({"write"}) /\ Answered("failed")
    /\ Leave(WriteError(req.last, This.word, This.flag))
    /\ UNCHANGED <<prog, opts, pre, link, late, executed, unknown, gated, journal, missed>>

\* --keep-remote leaves the file; an error to remove it is only shown.
CleanedUp ==
    /\ At({"cleanup"})
    /\ (Answered("ok") \/ Answered("failed") \/ (req = NoCall /\ UNCHANGED req))
    /\ Onward
    /\ UNCHANGED <<prog, opts, pre, link, late, executed, unknown, gated, journal, missed>>

-----------------------------------------------------------------------------
(* The steps between calls. *)

DryRunStep ==
    /\ At({"dry-run"})
    /\ IF opts.dryRun THEN LeaveSaying("dry_run") ELSE Onward
    /\ UNCHANGED <<prog, opts, pre, calls, late, gated, journal, missed>>

\* requireConfirmDevice.
ConfirmStep ==
    /\ At({"confirm"})
    /\ IF opts.confirmed \/ (This.flag /\ opts.dryRun) THEN Onward ELSE Leave("api")
    /\ UNCHANGED <<prog, opts, pre, calls, late, gated, journal, missed>>

\* [y/N]: an answer, or the end of the input, which the firewall commands take for
\* a yes and reboot for a no.
PromptStep ==
    /\ At({"prompt"})
    /\ \/ Onward
       \/ ~opts.force /\ ~opts.dryRun /\ LeaveSaying("cancelled")
    /\ UNCHANGED <<prog, opts, pre, calls, late, gated, journal, missed>>

\* Mutant of Refusal: the session takes one change more than its cap.
RefusalOverCap(forced) ==
    IF opts.readOnly THEN "read_only"
    ELSE IF \/ opts.gate = "closed"
            \/ opts.gate = "stale" /\ ~(forced /\ opts.force)
            \/ opts.safe /\ Len(journal) > opts.room THEN "session"
    ELSE "none"

\* ensureWritableForce: the read-only flag, the session, the cap, the windows and
\* the doctor.
Refusal(forced) ==
    IF opts.readOnly THEN "read_only"
    ELSE IF \/ opts.gate = "closed"
            \/ opts.gate = "stale" /\ ~(forced /\ opts.force)
            \/ opts.safe /\ Len(journal) >= opts.room THEN "session"
    ELSE "none"

GateStep ==
    /\ At({"gate"})
    /\ IF Refusal(This.flag) = "none" THEN Onward /\ gated' = TRUE
       ELSE Leave(Refusal(This.flag)) /\ UNCHANGED gated
    /\ UNCHANGED <<prog, opts, pre, calls, late, journal, missed>>

\* Whether the inverse of a write is known from what was read before it, and
\* after an add from its answer.
HasInverse(word) ==
    \/ word = "/add"
    \/ word \in {"/enable", "/disable"} /\ (opts.byId \/ pre # "unread")
    \/ word = "/set" /\ pre = "row"
    \/ word = "/remove" /\ pre \in {"row", "bare"}

\* ensureExecJournalable: of the inverses exec could build without a read, an add
\* has none before it has run.
JournalableStep ==
    /\ At({"journalable"})
    /\ LET word == prog[pc + 1].word
       IN IF opts.safe /\ ~opts.force /\ (word = "/add" \/ ~HasInverse(word)) THEN Leave("api")
          ELSE Onward
    /\ UNCHANGED <<prog, opts, pre, calls, late, gated, journal, missed>>

\* classifyCreateOutcome, classifySetOutcome: only a row that was read can be as
\* it should be.
UnchangedStep ==
    /\ At({"unchanged"})
    /\ Onward \/ (pre = "row" /\ LeaveSaying("no_change"))
    /\ UNCHANGED <<prog, opts, pre, calls, late, gated, journal, missed>>

GoneStep ==
    /\ At({"gone"})
    /\ IF pre = "none" THEN Leave("not_found") ELSE Onward
    /\ UNCHANGED <<prog, opts, pre, calls, late, gated, journal, missed>>

OutcomeStep ==
    /\ At({"outcome"})
    /\ pc' = pc + 1 /\ action' = "written" /\ UNCHANGED exit
    /\ UNCHANGED <<prog, opts, pre, calls, late, gated, journal, missed>>

EnoughStep ==
    /\ At({"enough"})
    /\ \/ ~(This.flag /\ pre = "failed") /\ Onward
       \/ (This.flag \/ pre # "failed") /\ Leave("ok")
    /\ UNCHANGED <<prog, opts, pre, calls, late, gated, journal, missed>>

\* The transfer itself is the business of EphemeralSSH.
DownloadStep ==
    /\ At({"download"})
    /\ pre' \in {"row", "failed"}
    /\ Onward
    /\ UNCHANGED <<prog, opts, calls, late, gated, journal, missed>>

DownloadedStep ==
    /\ At({"downloaded"})
    /\ IF pre = "failed" THEN Leave("api") ELSE Onward
    /\ UNCHANGED <<prog, opts, pre, calls, late, gated, journal, missed>>

\* recordSafeChange: the cap once more, then AppendChange, which may fail.
Recorded ==
    LET word == prog[pc - 1].word
        unrecorded == IF This.flag THEN Leave("session") ELSE Onward
    IN /\ At({"record"})
       /\ IF ~opts.safe \/ ~HasInverse(word) THEN Onward /\ UNCHANGED <<journal, missed>>
          ELSE \/ /\ Len(journal) < opts.room
                  /\ journal' = Append(journal, word)
                  /\ Onward /\ UNCHANGED missed
               \/ /\ Len(journal) >= opts.room
                  /\ unrecorded /\ UNCHANGED <<journal, missed>>
               \/ /\ missed' = TRUE
                  /\ unrecorded /\ UNCHANGED journal
       /\ UNCHANGED <<prog, opts, pre, calls, late, gated>>

-----------------------------------------------------------------------------
Init ==
    /\ prog \in Programs
    /\ opts \in Options(prog)
    /\ pc = 0
    /\ pre = "unread"
    /\ req = NoCall
    /\ link = "up"
    /\ late = FALSE
    /\ executed = <<>>
    /\ unknown = {}
    /\ gated = FALSE
    /\ journal = <<>>
    /\ missed = FALSE
    /\ action = "none"
    /\ exit = "running"

\* The router answers a call, or the connection breaks.
Router ==
    \/ Serve \/ Refuse("refused") \/ Refuse("busy")
    \/ \E acted \in BOOLEAN, why \in Losses : Drop(acted, why)

Program ==
    \/ Connect \/ Finish \/ Issue \/ Send \/ Retry
    \/ ReadAnswered \/ ReadFailed \/ Resolved \/ Waited \/ Polled \/ PollFailed
    \/ WriteAnswered \/ WriteFailed
    \/ DryRunStep \/ ConfirmStep \/ PromptStep \/ GateStep \/ JournalableStep
    \/ UnchangedStep \/ GoneStep \/ OutcomeStep \/ Recorded
    \/ CleanedUp \/ EnoughStep \/ DownloadStep \/ DownloadedStep

Next == Router \/ Program \/ Expire

Spec == Init /\ [][Next]_vars

UntimedMonitor == prog \in {MonitorTraffic, MonitorResources}

\* The process runs, the router or TCP answers in the end (RunArgs waits for
\* either for ever), and a timer fires; nobody has to press Ctrl+C.
FairSpec ==
    Spec /\ WF_vars(Program) /\ WF_vars(Router) /\ WF_vars(~UntimedMonitor /\ Expire)

-----------------------------------------------------------------------------
(* Properties. *)

Count(word, s) == Cardinality({i \in DOMAIN s : s[i] = word})

TypeOK ==
    /\ prog \in Programs /\ opts \in Options(prog)
    /\ pc \in 0 .. Len(prog) + 1
    /\ pre \in {"unread", "row", "bare", "none", "failed"}
    /\ req \in [st : {"none", "try", "sent", "back", "ok", "failed"}, sends : 0 .. MaxAttempts,
                tries : 0 .. MaxAttempts - 1,
                last : {"none", "late", "busy", "refused", "readonly"} \cup Losses]
    /\ link \in {"up", "down"}
    /\ late \in BOOLEAN /\ gated \in BOOLEAN /\ missed \in BOOLEAN
    /\ executed \in Seq(ChangeWords)
    /\ unknown \subseteq [op : {"read", "write", "cleanup"}, word : ChangeWords, why : Losses]
    /\ journal \in Seq(Configures) /\ Len(journal) <= MaxRoom
    /\ action \in {"none", "dry_run", "no_change", "cancelled", "written"}
    /\ exit \in {"running", "ok", "connection", "api", "read_only", "session", "timeout",
                 "not_found", "conflict"}

\* A command that says it changed nothing has changed nothing on the router and in
\* the journal: in a dry run, when a prompt is declined, when the row is as it should
\* be, and when its target is missing or ambiguous.  Under --read-only nothing is
\* journaled and nothing changed, with one exception: `exec /export =file=' passes for
\* a read and writes a file on the router, where COMMANDS.md says "Block all writes".
\* (ReadOnlyClient, IsWrite, emitDryRun, resolve.go, outcome.go.)
RefusedTouchesNothing ==
    /\ (\/ opts.dryRun
        \/ action \in {"dry_run", "no_change", "cancelled"}
        \/ exit \in {"connection", "not_found", "conflict"})
       => executed = <<>> /\ journal = <<>>
    /\ (opts.readOnly \/ exit = "read_only")
       => (\A i \in DOMAIN executed : executed[i] = ExportFile) /\ journal = <<>>

\* If the router made a change and its answer was lost, the command does not succeed:
\* it ends as an ambiguous write if the client lists its word and IsAmbiguousTransport
\* knows the error, and as an API error, which does not warn against running it again,
\* if the connection broke with another text, or if the word is not listed: a fetch,
\* a bandwidth test, an export to a file.  The clean-up after an export is left out:
\* its error is a warning.  (Run, MaybeAmbiguousWrite, IsAmbiguousTransport.)
LostAnswersAmbiguous ==
    ~Running => \A l \in unknown :
        l.op # "cleanup" =>
            exit = IF IsMutating(l.word) /\ l.why = "lost" THEN "timeout" ELSE "api"

\* However often the router is busy or the connection breaks, a listed write is
\* sent once, and made no more often than the command asks for it.
\* (readRetryClient.Run, isMutatingCommand.)
SentOnce == Calling /\ IsMutating(This.word) => req.sends <= 1

ListedWritesSentOnce ==
    /\ SentOnce
    /\ \A w \in Mutating :
          Count(w, executed) <= Cardinality({i \in DOMAIN prog : prog[i].word = w})

\* A gated command that succeeds in a safe session has journaled every change it
\* made to a row it could read before, unless the journal itself failed or exec
\* was forced: there is always room, however many changes one command makes.
\* (enforceGuardrails, recordSafeChange, ensureExecJournalable.)
InSessionUndoable ==
    (/\ gated /\ opts.safe /\ exit = "ok" /\ ~missed
     /\ ~(opts.force /\ Has(prog, "journalable")))
    => \A w \in Configures :
          \/ w \in {"/set", "/remove"} /\ pre \in {"bare", "none", "failed"}
          \/ Count(w, executed) = Count(w, journal)

\* COMMANDS.md: "Writes require an active safe session (even on lab)", "mutating
\* commands refuse": what changes the configuration has passed the write gate.
WritesAreGated == \A w \in Configures : Count(w, executed) > 0 => gated

\* Every command but an untimed monitor ends.  (runWithClient, readRetryClient.Run,
\* monitorTraffic.)
CommandsEnd == ~UntimedMonitor ~> ~Running
=============================================================================
