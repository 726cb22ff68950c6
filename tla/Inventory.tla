----------------------------- MODULE Inventory -----------------------------
(***************************************************************************)
(* The device inventory: config.toml (internal/config, internal/device), the *)
(* passwords in the keyring of the workstation (internal/credential), and     *)
(* the commands that keep the two together: `ros device add', `remove',       *)
(* `use', `auth set', `import' and every command that connects.              *)
(*                                                                          *)
(* A command loads the file, works on its copy, and rewrites the whole file   *)
(* in two system calls for every change it makes; nothing is locked, so       *)
(* several commands may overlap, and each may fail or be killed between any   *)
(* two calls.  A file caught between the two calls is empty, and an empty     *)
(* file is a valid configuration without devices.  A file that two commands   *)
(* write at once may keep the tail of the longer text.                       *)
(*                                                                          *)
(* The keyring has no transactions either: to read a password takes up to     *)
(* three calls, for one found under the service name of routeros-cli is       *)
(* copied to the new one, and to delete one takes two.                       *)
(***************************************************************************)
EXTENDS Naturals, FiniteSets, Sequences

CONSTANTS
    Procs,       \* commands that may run at a time
    Names,       \* device names
    Hosts,       \* addresses
    Passwords,
    Book,        \* the Winbox address book: [base, host, password] entries
    Initial,     \* what config.toml may be at first
    Legacy,      \* the config.toml of routeros-cli, or None
    LegacyRing,  \* the passwords routeros-cli stored
    Verbs,       \* the commands of this instance
    MaxCommands, \* bound on the commands of a behaviour
    MaxFaults,   \* bound on failing calls and kills
    Missing,     \* no config.toml
    Torn,        \* an empty one
    Garbled,     \* one that does not parse
    None         \* no device, password or default

VARIABLES
    file,        \* config.toml
    ring,        \* the keyring: [Names -> Passwords or None]
    oldRing,     \* the entries under the service name of routeros-cli
    proc,        \* the running commands, [Procs -> None or a record]
    commands,    \* commands started so far
    faults,      \* faults so far
    devices,     \* history: the devices as the commands reported them
    secrets,     \* history: the passwords, likewise
    cut,         \* history: names some command left half-done
    stale,       \* history: names whose migration met a set or a removal
    overlapped   \* history: two commands have run at once

vars == <<file, ring, oldRing, proc, commands, faults, devices, secrets, cut, stale, overlapped>>

-----------------------------------------------------------------------------
(* The configuration. *)

Device == [host : Hosts, id : Names \cup {None}]

Empty == [devs |-> [n \in {} |-> None], default |-> None]

Known(cfg) == DOMAIN cfg.devs

\* The configurations whose default, if any, is a device they have.
Config == {c \in [devs : UNION {[S -> Device] : S \in SUBSET Names},
                  default : Names \cup {None}] : c.default \in Known(c) \cup {None}}

ASSUME InventoryAssumption ==
    /\ Book \in Seq([base : Names, host : Hosts, password : Passwords \cup {None}])
    /\ Initial \subseteq Config \cup {Missing, Torn}
    /\ Legacy \in Config \cup {None}
    /\ LegacyRing \in [Names -> Passwords \cup {None}]
    /\ MaxCommands \in Nat /\ MaxFaults \in Nat
    /\ None \notin Names \cup Hosts \cup Passwords
    /\ Missing # Torn /\ Missing \notin Config /\ Torn \notin Config
    /\ Garbled \notin Config \cup {Missing, Torn}

\* config.Load of a file that exists, and parses.
Parsed == IF file = Torn THEN Empty ELSE file

\* A command that started now would work on this.
Loaded == IF file # Missing THEN Parsed ELSE IF Legacy # None THEN Legacy ELSE Empty

Without(cfg, n) == [m \in Known(cfg) \ {n} |-> cfg.devs[m]]

\* Mutant of RemoveDevice: the default is left to dangle.
RemoveDeviceOnly(cfg, n) == [cfg EXCEPT !.devs = Without(cfg, n)]

RemoveDevice(cfg, n) ==
    [devs |-> Without(cfg, n), default |-> IF cfg.default = n THEN None ELSE cfg.default]

PutDevice(cfg, n, dev) ==
    [cfg EXCEPT !.devs = [m \in Known(cfg) \cup {n} |-> IF m = n THEN dev ELSE @[m]]]

\* Lookup: a name, or else an id, or else a host, that one device alone has.
Lookup(cfg, q) ==
    LET byId == {n \in Known(cfg) : cfg.devs[n].id = q}
        byHost == {n \in Known(cfg) : cfg.devs[n].host = q}
        only(s) == IF Cardinality(s) = 1 THEN CHOOSE n \in s : TRUE ELSE None
    IN IF q \in Known(cfg) THEN q
       ELSE IF byId # {} THEN only(byId) ELSE only(byHost)

\* Resolve: the -d flag, or the default device by its name.
Resolve(cfg, q) ==
    IF q # None THEN Lookup(cfg, q)
    ELSE IF cfg.default \in Known(cfg) THEN cfg.default ELSE None

-----------------------------------------------------------------------------
(* The keyring. *)

\* KeyringStore.Get: the old service name is read if the new one has nothing.
Password(n) == IF ring[n] # None THEN ring[n] ELSE oldRing[n]

Store(n, pw) == ring' = [ring EXCEPT ![n] = pw] /\ UNCHANGED oldRing

\* KeyringStore.Delete: first the entry under the new name, then the legacy one.
ForgetNew(n) == ring' = [ring EXCEPT ![n] = None] /\ UNCHANGED oldRing

\* Mutant of ForgetLegacy: only the entry under the new name goes.
ForgetNothing(n) == UNCHANGED <<ring, oldRing>>

ForgetLegacy(n) == oldRing' = [oldRing EXCEPT ![n] = None] /\ UNCHANGED ring

-----------------------------------------------------------------------------
(* Commands. *)

Command ==
    [verb : {"add"}, name : Names, host : Hosts, password : Passwords]
    \cup [verb : {"rsc"}, name : Names, host : Hosts]
    \cup [verb : {"remove", "use"}, query : Names \cup Hosts]
    \cup [verb : {"connect"}, query : Names \cup Hosts \cup {None}]
    \cup [verb : {"auth"}, query : Names \cup Hosts, password : Passwords]
    \cup [verb : {"import"}, force : BOOLEAN, withPasswords : BOOLEAN]

\* A running command: its copy of the configuration, the device it is about, the
\* password it read under the old service name, the entry of the address book it is
\* at, where it is and where it goes after a save.
Process ==
    [cmd : Command, cfg : Config, name : Names \cup {None},
     found : Passwords \cup {None},
     entry : 1 .. Len(Book) + 1,
     pc : {"decide", "open", "fill", "store", "getold", "migrate", "forget",
           "forgetold", "next", "end"},
     then : {"decide", "store", "forget", "next", "end"}]

ASSUME ProcessAssumption == None \notin Process

history == <<devices, secrets, cut, stale, overlapped>>

Idle(p) == proc[p] = None
Running(p) == proc[p] # None
Quiet == \A p \in Procs : Idle(p)

At(p, pc) == Running(p) /\ proc[p].pc = pc

Go(p, pc) == proc' = [proc EXCEPT ![p].pc = pc]

End(p) == proc' = [proc EXCEPT ![p] = None]

\* Save the copy cfg, then go on at `then'.
SaveAs(p, cfg, name, then) ==
    proc' = [proc EXCEPT ![p] =
               [@ EXCEPT !.cfg = cfg, !.name = name, !.pc = "open", !.then = then]]

\* loadApp: a missing file is created, with what routeros-cli had if it had any; a
\* file that does not parse ends the command.
Start(p, c) ==
    /\ Idle(p)
    /\ c.verb \in Verbs
    /\ commands < MaxCommands
    /\ commands' = commands + 1
    /\ proc' = IF file = Garbled THEN proc ELSE
              [proc EXCEPT ![p] =
                  [cmd |-> c, cfg |-> Loaded, name |-> None, found |-> None, entry |-> 1,
                   pc |-> IF file = Missing THEN "open" ELSE "decide", then |-> "decide"]]
    /\ overlapped' = (overlapped \/ ~Quiet)
    /\ UNCHANGED <<file, ring, oldRing, faults, devices, secrets, cut, stale>>

\* device add.
Add(p) ==
    LET c == proc[p].cmd
    IN /\ At(p, "decide") /\ c.verb = "add"
       /\ IF c.name \in Known(proc[p].cfg) THEN End(p)
          ELSE SaveAs(p, PutDevice(proc[p].cfg, c.name, [host |-> c.host, id |-> None]),
                      c.name, "store")
       /\ UNCHANGED <<file, ring, oldRing, commands, faults, history>>

\* device import of an .rsc export: its identity and gateway, no password.
AddFromExport(p) ==
    LET c == proc[p].cmd
    IN /\ At(p, "decide") /\ c.verb = "rsc"
       /\ IF c.name \in Known(proc[p].cfg) THEN End(p)
          ELSE SaveAs(p, PutDevice(proc[p].cfg, c.name, [host |-> c.host, id |-> None]),
                      c.name, "end")
       /\ UNCHANGED <<file, ring, oldRing, commands, faults, history>>

\* device remove, confirmed.
Remove(p) ==
    LET n == Lookup(proc[p].cfg, proc[p].cmd.query)
    IN /\ At(p, "decide") /\ proc[p].cmd.verb = "remove"
       /\ IF n = None THEN End(p)
          ELSE SaveAs(p, RemoveDevice(proc[p].cfg, n), n, "forget")
       /\ UNCHANGED <<file, ring, oldRing, commands, faults, history>>

\* device use.
Use(p) ==
    LET n == Lookup(proc[p].cfg, proc[p].cmd.query)
    IN /\ At(p, "decide") /\ proc[p].cmd.verb = "use"
       /\ IF n = None THEN End(p)
          ELSE SaveAs(p, [proc[p].cfg EXCEPT !.default = n], n, "end")
       /\ UNCHANGED <<file, ring, oldRing, commands, faults, history>>

\* device auth set.
Auth(p) ==
    LET n == Lookup(proc[p].cfg, proc[p].cmd.query)
    IN /\ At(p, "decide") /\ proc[p].cmd.verb = "auth"
       /\ proc' = [proc EXCEPT ![p] =
                     IF n = None THEN None ELSE [@ EXCEPT !.name = n, !.pc = "store"]]
       /\ UNCHANGED <<file, ring, oldRing, commands, faults, history>>

\* App.connect: the password under the new service name, or else ...
Connect(p) ==
    LET n == Resolve(proc[p].cfg, proc[p].cmd.query)
    IN /\ At(p, "decide") /\ proc[p].cmd.verb = "connect"
       /\ proc' = [proc EXCEPT ![p] =
                     IF n = None \/ ring[n] # None THEN None
                     ELSE [@ EXCEPT !.name = n, !.pc = "getold"]]
       /\ UNCHANGED <<file, ring, oldRing, commands, faults, history>>

\* ... the one under the old name, ...
GetLegacy(p) ==
    LET found == oldRing[proc[p].name]
    IN /\ At(p, "getold")
       /\ proc' = [proc EXCEPT ![p] =
                     IF found = None THEN None
                     ELSE [@ EXCEPT !.found = found, !.pc = "migrate"]]
       /\ UNCHANGED <<file, ring, oldRing, commands, faults, history>>

\* The connections that will store under the new name what they read under the old
\* one, and the removals that have deleted the first entry and not the second.
Migrating(n) == \E q \in Procs : At(q, "migrate") /\ proc[q].name = n
Reading(n) == \E q \in Procs : At(q, "getold") /\ proc[q].name = n /\ oldRing[n] # None
Removing(n) == \E q \in Procs : At(q, "forgetold") /\ proc[q].name = n

Stale(n, raced) == stale' = IF raced THEN stale \cup {n} ELSE stale

\* ... which is stored anew.  An error of that is dropped: see Killed.
Migrate(p) ==
    LET n == proc[p].name
    IN /\ At(p, "migrate")
       /\ Store(n, proc[p].found)
       /\ Stale(n, Removing(n))
       /\ End(p)
       /\ UNCHANGED <<file, commands, faults, devices, secrets, cut, overlapped>>

-----------------------------------------------------------------------------
(* device import --from winbox: an entry after the other, a save for each.   *)

\* Mutant of ImportAs: --force is not asked for.
ImportAsForced(cfg, e, force) ==
    [name |-> e.base, action |-> IF e.base \in Known(cfg) THEN "update" ELSE "add"]

\* Under which name an entry goes into cfg, and whether it does.
ImportAs(cfg, e, force) ==
    IF e.base \in Known(cfg)
    THEN [name |-> e.base, action |-> IF force THEN "update" ELSE "skip"]
    ELSE [name |-> e.base, action |-> "add"]

NextEntry(p) ==
    proc' = [proc EXCEPT ![p].entry = @ + 1, ![p].pc = "decide"]

ImportEntry(p) ==
    /\ At(p, "decide") /\ proc[p].cmd.verb = "import"
    /\ proc[p].entry <= Len(Book)
    /\ LET e == Book[proc[p].entry]
           as == ImportAs(proc[p].cfg, e, proc[p].cmd.force)
           id == IF as.action = "update" THEN proc[p].cfg.devs[as.name].id ELSE None
       IN IF as.action = "skip" THEN NextEntry(p)
          ELSE SaveAs(p, PutDevice(proc[p].cfg, as.name, [host |-> e.host, id |-> id]),
                      as.name,
                      IF proc[p].cmd.withPasswords /\ e.password # None THEN "store" ELSE "next")
    /\ UNCHANGED <<file, ring, oldRing, commands, faults, history>>

ImportDone(p) ==
    /\ At(p, "decide") /\ proc[p].cmd.verb = "import"
    /\ proc[p].entry > Len(Book)
    /\ End(p)
    /\ UNCHANGED <<file, ring, oldRing, commands, faults, history>>

ImportNext(p) ==
    /\ At(p, "next")
    /\ NextEntry(p)
    /\ devices' = [devices EXCEPT ![proc[p].name] = proc[p].cfg.devs[proc[p].name]]
    /\ UNCHANGED <<file, ring, oldRing, commands, faults, secrets, cut, stale, overlapped>>

-----------------------------------------------------------------------------
(* Saving, and what follows a save. *)

\* os.WriteFile truncates ...
SaveOpen(p) ==
    /\ At(p, "open")
    /\ file' = Torn
    /\ Go(p, "fill")
    /\ UNCHANGED <<ring, oldRing, commands, faults, history>>

\* ... and writes at the start: what another command has written meanwhile stays
\* where its text was the longer.  A text ends with the table [tls], so the two
\* together name it twice and do not parse, or else the tail is too short to matter.
SaveFill(p) ==
    /\ At(p, "fill")
    /\ file' \in {proc[p].cfg} \cup (IF file \in {Torn, proc[p].cfg} THEN {} ELSE {Garbled})
    /\ Go(p, proc[p].then)
    /\ UNCHANGED <<ring, oldRing, commands, faults, history>>

\* The password of an add, an auth set or an imported entry.
StorePassword(p) ==
    LET n == proc[p].name
        c == proc[p].cmd
        pw == IF c.verb = "import" THEN Book[proc[p].entry].password ELSE c.password
    IN /\ At(p, "store")
       /\ Store(n, pw)
       /\ Stale(n, Migrating(n) \/ Reading(n))
       /\ secrets' = [secrets EXCEPT ![n] = pw]
       /\ devices' = IF c.verb = "add" THEN [devices EXCEPT ![n] = proc[p].cfg.devs[n]]
                     ELSE devices
       /\ IF c.verb = "import" THEN Go(p, "next") ELSE End(p)
       /\ UNCHANGED <<file, commands, faults, cut, overlapped>>

\* What device remove deletes after its save: the entry under the new name ...
ForgetPassword(p) ==
    /\ At(p, "forget")
    /\ ForgetNew(proc[p].name)
    /\ secrets' = [secrets EXCEPT ![proc[p].name] = None]
    /\ Go(p, "forgetold")
    /\ UNCHANGED <<file, commands, faults, devices, cut, stale, overlapped>>

\* ... and the one under the old name.
ForgetLegacyPassword(p) ==
    LET n == proc[p].name
    IN /\ At(p, "forgetold")
       /\ ForgetLegacy(n)
       /\ Stale(n, Migrating(n))
       /\ devices' = [devices EXCEPT ![n] = None]
       /\ End(p)
       /\ UNCHANGED <<file, commands, faults, secrets, cut, overlapped>>

\* use has saved, an .rsc was imported, or an add has taken its entry back.
EndSaved(p) ==
    /\ At(p, "end")
    /\ End(p)
    /\ devices' = IF proc[p].cmd.verb = "rsc"
                  THEN [devices EXCEPT ![proc[p].name] = proc[p].cfg.devs[proc[p].name]]
                  ELSE devices
    /\ UNCHANGED <<file, ring, oldRing, commands, faults, secrets, cut, stale, overlapped>>

-----------------------------------------------------------------------------
(* Faults. *)

Fault == faults < MaxFaults /\ faults' = faults + 1

HalfDone(ns) == cut' = cut \cup ns /\ UNCHANGED <<devices, secrets, stale, overlapped>>

\* The file cannot be opened: it stays as it was.  If it was to be the copy of
\* the old one, an empty one is tried next; if an add was being taken back, the
\* error is dropped.
OpenFails(p) ==
    /\ At(p, "open") /\ Fault
    /\ IF proc[p].then = "decide" /\ proc[p].cfg # Empty
       THEN proc' = [proc EXCEPT ![p].cfg = Empty]
       ELSE End(p)
    /\ HalfDone(IF proc[p].then = "end" /\ proc[p].cmd.verb = "add" THEN {proc[p].name}
                ELSE IF proc[p].then = "decide" /\ proc[p].cfg # Empty THEN Names ELSE {})
    /\ UNCHANGED <<file, ring, oldRing, commands>>

\* The disk is full, or the process is killed: nothing of the text, which is of a
\* few blocks at most, is written.
FillFails(p) ==
    /\ At(p, "fill") /\ Fault
    /\ End(p)
    /\ HalfDone(Names)
    /\ UNCHANGED <<file, ring, oldRing, commands>>

\* Mutant of StoreFails: the entry of an add is left behind.
StoreFailsOnly(p) ==
    /\ At(p, "store") /\ Fault
    /\ End(p)
    /\ HalfDone(IF proc[p].cmd.verb = "import" THEN {proc[p].name} ELSE {})
    /\ UNCHANGED <<file, ring, oldRing, commands>>

\* The keyring refuses: add takes its entry back, import ends with an error.
StoreFails(p) ==
    /\ At(p, "store") /\ Fault
    /\ IF proc[p].cmd.verb = "add"
       THEN SaveAs(p, RemoveDevice(proc[p].cfg, proc[p].name), proc[p].name, "end")
       ELSE End(p)
    /\ HalfDone(IF proc[p].cmd.verb = "import" THEN {proc[p].name} ELSE {})
    /\ UNCHANGED <<file, ring, oldRing, commands>>

\* The keyring refuses to delete an entry.  The other one is tried all the same, and
\* remove ends with a warning.
ForgetFails(p) ==
    /\ Fault
    /\ \/ At(p, "forget") /\ Go(p, "forgetold")
       \/ At(p, "forgetold") /\ End(p)
    /\ HalfDone({proc[p].name})
    /\ UNCHANGED <<file, ring, oldRing, commands>>

\* Killed before, between or after the saves of a command.
Killed(p) ==
    /\ Running(p) /\ proc[p].pc # "fill" /\ Fault
    /\ End(p)
    /\ HalfDone(IF proc[p].pc \in {"store", "forget", "forgetold", "next"}
                   \/ (proc[p].then = "end" /\ proc[p].cmd.verb \in {"add", "rsc"})
                THEN {proc[p].name} ELSE {})
    /\ UNCHANGED <<file, ring, oldRing, commands>>

-----------------------------------------------------------------------------
Init ==
    /\ file \in Initial
    /\ ring = [n \in Names |-> None]
    /\ oldRing = LegacyRing
    /\ proc = [p \in Procs |-> None]
    /\ commands = 0
    /\ faults = 0
    /\ devices = [n \in Names |-> IF n \in Known(Loaded) THEN Loaded.devs[n] ELSE None]
    /\ secrets = LegacyRing
    /\ cut = {}
    /\ stale = {}
    /\ overlapped = FALSE

Step(p) ==
    \/ \E c \in Command : Start(p, c)
    \/ Add(p) \/ AddFromExport(p) \/ Remove(p) \/ Use(p) \/ Auth(p)
    \/ Connect(p) \/ GetLegacy(p) \/ Migrate(p)
    \/ ImportEntry(p) \/ ImportNext(p) \/ ImportDone(p)
    \/ SaveOpen(p) \/ SaveFill(p)
    \/ StorePassword(p) \/ ForgetPassword(p) \/ ForgetLegacyPassword(p) \/ EndSaved(p)
    \/ OpenFails(p) \/ FillFails(p) \/ StoreFails(p) \/ ForgetFails(p) \/ Killed(p)

Next == \E p \in Procs : Step(p)

Spec == Init /\ [][Next]_vars

-----------------------------------------------------------------------------
(* Properties. *)

\* The variables keep their types; and whatever overlaps, fails or is killed, a
\* config.toml that parses never names a default device it does not have: an empty
\* one apart, it is the copy of some command (RemoveDevice, SetDefaultDevice).  Of
\* two commands that write it at once it may become one that does not parse.
TypeOK ==
    /\ file \in Config \cup {Missing, Torn, Garbled}
    /\ ring \in [Names -> Passwords \cup {None}]
    /\ oldRing \in [Names -> Passwords \cup {None}]
    /\ proc \in [Procs -> {None} \cup Process]
    /\ commands \in 0 .. MaxCommands /\ faults \in 0 .. MaxFaults
    /\ devices \in [Names -> Device \cup {None}]
    /\ secrets \in [Names -> Passwords \cup {None}]
    /\ cut \subseteq Names /\ stale \subseteq Names /\ overlapped \in BOOLEAN

\* As long as commands do not overlap, the inventory holds between two of them
\* exactly what they reported, for every name no command was cut short on: an
\* add that failed has left nothing, no save has lost or revived a device.
\* (newDeviceAddCmd, Inventory.Add, Remove and Update, Config.Save.)
InventoryAsReported ==
    Quiet /\ ~overlapped =>
        \A n \in Names \ cut :
            devices[n] = IF n \in Known(Loaded) THEN Loaded.devs[n] ELSE None

\* The password a connection would use is the one last stored for the device, and a
\* device that was removed has none, under either service name, although commands
\* overlap; for every name but those
\*   - a command was cut short on (cut),
\*   - whose entry of routeros-cli a connection copied to the new name while another
\*     command set the password or removed the device (stale): the copy overwrites
\*     the new password, or brings that of a removed device back,
\*   - a removal is at, between its two deletes.
\* (KeyringStore.Get, Set and Delete, newDeviceRemoveCmd, App.connect.)
PasswordsAsReported ==
    \A n \in Names \ (cut \cup stale) : Removing(n) \/ secrets[n] = Password(n)

\* Without --force an import never changes a device that is there, not even one
\* that an earlier entry of the same address book has just added: a second router
\* of the same group and identity is left out.  (runWinboxImport.)
ImportKeepsDevices ==
    [][\A p \in Procs :
          SaveFill(p) /\ proc[p].cmd.verb = "import" /\ ~proc[p].cmd.force /\ ~overlapped
          => \A n \in Names \ cut :
                devices[n] # None => n \in Known(file') /\ file'.devs[n] = devices[n]]_vars
=============================================================================
